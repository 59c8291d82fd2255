----------------------------- MODULE MCPdfImport -----------------------------
(***************************************************************************)
(* A small instance of PdfImport for TLC.                                  *)
(***************************************************************************)
EXTENDS PdfImport, TLC

CONSTANTS b1, r1, r2, r3, f1, i1, i2, m1

Interchangeable == Permutations({r1, r2, r3}) \cup Permutations({i1, i2})
=============================================================================
