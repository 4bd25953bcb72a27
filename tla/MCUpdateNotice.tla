--------------------------- MODULE MCUpdateNotice ---------------------------
(* Small instances of UpdateNotice.                                        *)
EXTENDS UpdateNotice, TLC

MCSymmetry == Permutations(Version)
=============================================================================
