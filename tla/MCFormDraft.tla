----------------------------- MODULE MCFormDraft -----------------------------
(***************************************************************************)
(* A small instance of FormDraft for TLC.                                  *)
(***************************************************************************)
EXTENDS FormDraft, TLC

CONSTANTS d1, d2, h1, h2, h3, s1, t1, r0

Interchangeable == Permutations({d1, d2}) \cup Permutations({h1, h2, h3})
=============================================================================
