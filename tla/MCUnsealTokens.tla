--------------------------- MODULE MCUnsealTokens ---------------------------
(* Two regions and the commits that matter between them: both active, the  *)
(* first one retired, and two commits the phase refuses while that key     *)
(* stands, its label dropped from both lists or left in both.              *)
EXTENDS UnsealTokens

CONSTANTS r1, r2

MCCommits ==
  { [active |-> {r1, r2}, retired |-> {}],
    [active |-> {r2}, retired |-> {r1}],
    [active |-> {r2}, retired |-> {}],
    [active |-> {r1, r2}, retired |-> {r1}] }

(* One region: kept, retired, and dropped from both lists.                 *)
MCCommitsOneRegion ==
  { [active |-> {r1}, retired |-> {}],
    [active |-> {}, retired |-> {r1}],
    [active |-> {}, retired |-> {}] }
=============================================================================
