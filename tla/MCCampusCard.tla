---------------------------- MODULE MCCampusCard ----------------------------
(***************************************************************************)
(* Small instances of CampusCard for TLC.                                  *)
(***************************************************************************)
EXTENDS CampusCard, TLC

CONSTANTS a1, a2, a3, m1, m2, r1, r2, w1, w2

Interchangeable == Permutations({r1, r2})

(* Rows are taken in this order, whichever of them the names stand for.    *)
(* The third is there for a reservation too many: no run goes on from it.  *)
InTurn ==
  /\ state[a2] # "FREE" => state[a1] # "FREE"
  /\ state[a3] = "FREE"
=============================================================================
