---------------------------- MODULE MCResetApps -----------------------------
(***************************************************************************)
(* Two services with a database each, one of them hilt's, and a store      *)
(* outside the VPC that the other one writes.                              *)
(***************************************************************************)
EXTENDS ResetApps, TLC

CONSTANTS sprue, hilt, bucket

MCApps == <<sprue, hilt>>
MCWriterOf == bucket :> sprue
=============================================================================
