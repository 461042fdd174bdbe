----------------------------- MODULE MCDatabases ----------------------------
(* Instances of Databases for TLC: central's instance with two app         *)
(* databases, or pandora's cluster with its owner and a login role.        *)
EXTENDS Databases, TLC

CONSTANTS sprue, hilt, owner, locker

MCTargets == {[roles |-> <<sprue, hilt>>, apps |-> <<sprue, hilt>>],
              [roles |-> <<owner, locker>>, apps |-> <<>>]}
MCRoleOf == [s \in {"sprue dsn", "hilt dsn", "owner dsn", "locker dsn"} |->
               CASE s = "sprue dsn" -> sprue
                 [] s = "hilt dsn" -> hilt
                 [] s = "owner dsn" -> owner
                 [] s = "locker dsn" -> locker]
MCStrings == DOMAIN MCRoleOf
MCSymmetry == Permutations(Values) \cup Permutations(Callers)
=============================================================================
