--------------------------- MODULE MCFootholdScan ---------------------------
(* Small instances of FootholdScan: three plates, times one unit apart.      *)
EXTENDS FootholdScan

ThreePlates == 1..3
FiveTimes == 0..4
=============================================================================
