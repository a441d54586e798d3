--------------------------- MODULE MCCheckStream ---------------------------
(***************************************************************************)
(* Small instances of CheckStream for TLC: p1 and p2 are two sightings of  *)
(* one address, and p5 does not pass the country filter.                  *)
(***************************************************************************)
EXTENDS CheckStream

CONSTANTS p1, p2, p3, p4, p5

MCAddrOf == [p \in Cand |-> IF p = p2 THEN p1 ELSE p]
=============================================================================
