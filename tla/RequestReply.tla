---------------------------- MODULE RequestReply ----------------------------
(***************************************************************************)
(* What the service promises to its clients, whatever a task does: a       *)
(* request is answered at most once, before the next one is taken; only a  *)
(* text that is no task is passed over in silence; once the process is     *)
(* down nothing is answered any more.  And to its host: a request that was *)
(* answered by a report leaves nothing behind, any other one thing at most.*)
(***************************************************************************)
EXTENDS Integers, Sequences

VARIABLES
    phase,   \* of the present request
    task,    \* is the present request one of the tasks?
    asked,   \* requests taken
    log,     \* the answers
    held     \* what earlier requests have left behind

vars == <<phase, task, asked, log, held>>

Init ==
    /\ phase = "idle"
    /\ task \in BOOLEAN
    /\ asked = 0
    /\ log = <<>>
    /\ held = 0

Ask ==
    /\ phase = "idle"
    /\ phase' = "pending"
    /\ task' \in BOOLEAN
    /\ asked' = asked + 1
    /\ UNCHANGED <<log, held>>

Ignore ==
    /\ phase = "pending" /\ ~task
    /\ phase' = "idle"
    /\ UNCHANGED <<task, asked, log, held>>

(* A report is given for a task only.                                      *)
Answer(kind) ==
    /\ phase = "pending"
    /\ kind = "report" => task
    /\ phase' = "answered"
    /\ log' = Append(log, [n |-> asked, kind |-> kind])
    /\ UNCHANGED <<task, asked, held>>

Finish ==
    /\ phase = "answered"
    /\ phase' = "idle"
    /\ \/ held' = held
       \/ held' = held + 1 /\ log[Len(log)].kind = "error"
    /\ UNCHANGED <<task, asked, log>>

(* After its answer a task does not bring the process down.                *)
Die ==
    /\ phase = "pending" \/ (phase = "answered" /\ ~task)
    /\ phase' = "down"
    /\ held' = 0
    /\ UNCHANGED <<task, asked, log>>

Next ==
    \/ Ask \/ Ignore
    \/ \E kind \in {"report", "error"} : Answer(kind)
    \/ Finish \/ Die

Spec == Init /\ [][Next]_vars
=============================================================================
