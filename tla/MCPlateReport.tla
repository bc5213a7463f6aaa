--------------------------- MODULE MCPlateReport ---------------------------
(* A small instance of PlateReport, with two plates, two ranges of width   *)
(* two and an id past the last range.                                      *)
EXTENDS PlateReport
=============================================================================
