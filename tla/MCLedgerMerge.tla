--------------------------- MODULE MCLedgerMerge ---------------------------
(* Model of LedgerMerge for TLC.                                          *)
EXTENDS LedgerMerge, TLC

CONSTANTS k1, k2

(* Keys are interchangeable model values.                                  *)
KeySymmetry == Permutations({k1, k2})
====
