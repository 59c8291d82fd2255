----------------------- MODULE MCPredictionSettlement -----------------------
(***************************************************************************)
(* Small instances of PredictionSettlement for TLC.                        *)
(***************************************************************************)
EXTENDS PredictionSettlement, TLC

CONSTANTS u1, u2, e1, e2, x1

Interchangeable == Permutations({u1, u2}) \cup Permutations({e1, e2})
=============================================================================
