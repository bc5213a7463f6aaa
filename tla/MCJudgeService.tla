--------------------------- MODULE MCJudgeService ---------------------------
(* A small instance of JudgeService: mode 0, whose callback has nothing to *)
(* acknowledge.                                                            *)
EXTENDS JudgeService

SampleMode == {0}
NoAnswer == {"none"}
=============================================================================
