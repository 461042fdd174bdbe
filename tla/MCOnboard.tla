----------------------------- MODULE MCOnboard ------------------------------
(* A region whose two Piris onboard beside each other, one of which is     *)
(* also presented at a second endpoint and without its delegation.  hilt   *)
(* starts empty, with the region's row but no node set, or with the        *)
(* region's Ingot held for a second region.                                *)
EXTENDS Onboard

CONSTANTS r1, r2, p1, p2, u1, u2, d1

Request(r, p, u, d) == [region |-> r, piri |-> p, url |-> u, proof |-> d]

MCRequests ==
  { Request(r1, p1, u1, d1), Request(r1, p1, u1, None), Request(r1, p1, u2, d1),
    Request(r1, p2, u1, d1) }

EmptyHilt == [d \in Regions |-> NoRow]
MCHiltAtStart ==
  { EmptyHilt,
    [EmptyHilt EXCEPT ![r1].region = r1],
    [EmptyHilt EXCEPT ![r1].region = r2] }
=============================================================================
