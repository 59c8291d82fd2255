------------------------- MODULE MCCampusCardRestore -------------------------
(***************************************************************************)
(* A small instance of CampusCardRestore for TLC.                          *)
(***************************************************************************)
EXTENDS CampusCardRestore, TLC

CONSTANTS a1, a2, m1, r1, w1

Interchangeable == Permutations({a1, a2})

\* What happens to an account while it is disabled is not looked into.
NoneDisabled == \A m \in Members : ~disabled[m]
=============================================================================
