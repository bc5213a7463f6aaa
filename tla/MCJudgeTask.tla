---------------------------- MODULE MCJudgeTask ----------------------------
(* Small instances of JudgeTask: every form of request, each with its fields *)
(* in order, plus the defective variants that exist for some form.           *)
EXTENDS JudgeTask

Sound(f) == [form |-> f, host |-> TRUE, args |-> TRUE, lists |-> TRUE, overnight |-> TRUE]

AllRequests ==
    {Sound(f) : f \in Forms}
    \cup {[Sound("correlation") EXCEPT !.host = FALSE],
          [Sound("advanced") EXCEPT !.args = FALSE],
          [Sound("trajectory") EXCEPT !.lists = FALSE],
          [Sound("actinnight") EXCEPT !.overnight = FALSE],
          [Sound("foothold") EXCEPT !.overnight = FALSE]}
=============================================================================
