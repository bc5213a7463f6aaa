---------------------------- MODULE JudgeService ----------------------------
(***************************************************************************)
(* The service as main builds it: the receiving thread of AmqpReceive in   *)
(* mode 0, whose callback is receive, which handles one request as         *)
(* RequestReply says (JudgeTask implements it), in the same thread and the *)
(* same process.  So a task that dies takes the connection with it, and a  *)
(* task that hangs stops the reading while the broker goes on delivering.  *)
(* Someone may start the program again; the queue is durable and waits.    *)
(***************************************************************************)
EXTENDS AmqpReceive

(* main calls BeginRecieve, not BeginRecieve_Ack or BeginRecieve_Rpc.      *)
ASSUME ServiceAssumption == Modes = {0}

VARIABLES
    phase, task, asked, log, held,   \* the job at hand, see RequestReply
    stuck,    \* the task waits for a text that nobody will set
    ignored   \* history: messages that are no task, passed over in silence

jobVars == <<phase, task, asked, log, held>>
allVars == <<vars, jobVars, stuck, ignored>>

Job == INSTANCE RequestReply

ServiceInit == Init /\ Job!Init /\ stuck = FALSE /\ ignored = {}

-----------------------------------------------------------------------------
(* main: BeginRecieve with the callback receive, then while (1).           *)
Main ==
    /\ BeginRecieve
    /\ UNCHANGED <<jobVars, stuck, ignored>>

(* What the thread does outside of the callback.                           *)
Receive ==
    /\ \/ MarkRunning \/ MarkNotEnded \/ LoopTop
       \/ Connect \/ Bind \/ BindFails
       \/ Poll \/ ConsumeTimeout \/ Drop
    /\ UNCHANGED <<jobVars, stuck, ignored>>

(* Mutant, for ServiceTypeOK: receive does not look whether there are data.*)
HearErrorParses ==
    /\ ConsumeError
    /\ Job!Ask
    /\ UNCHANGED <<stuck, ignored>>

(* receive is called with an error and no data: it does nothing.           *)
HearError ==
    /\ ConsumeError \/ (current = Error /\ CallbackReturns)
    /\ UNCHANGED <<jobVars, stuck, ignored>>

(* Mutant, for ServesInOrder: the message that came last is taken first.   *)
TakeLast ==
    /\ th = "consume" /\ buffer # <<>>
    /\ current' = Last(buffer)
    /\ buffer' = Front(buffer)
    /\ HandOver(current')
    /\ th' = "callback"
    /\ Job!Ask
    /\ UNCHANGED <<owner, flags, block, chan, broker, settled, dropped, faults,
                   stuck, ignored>>

(* receive is called with a message: a JsonParser is built of it.          *)
Take ==
    /\ ConsumeData
    /\ Job!Ask
    /\ UNCHANGED <<stuck, ignored>>

Ignore ==
    /\ Job!Ignore /\ ~stuck
    /\ CallbackReturns
    /\ ignored' = ignored \cup {current}
    /\ UNCHANGED stuck

(* Mutant, for AnswersFollow: the answer is published again when the       *)
(* connection for it reported a failure.                                   *)
ReplyAgain ==
    /\ ~stuck
    /\ \/ \E kind \in {"report", "error"} : Job!Answer(kind)
       \/ /\ phase = "answered" /\ Len(log) <= MaxMessages
          /\ log' = Append(log, log[Len(log)])
          /\ UNCHANGED <<phase, task, asked, held>>
    /\ UNCHANGED <<vars, stuck, ignored>>

Reply ==
    /\ ~stuck
    /\ \E kind \in {"report", "error"} : Job!Answer(kind)
    /\ UNCHANGED <<vars, stuck, ignored>>

Finish ==
    /\ Job!Finish
    /\ CallbackReturns
    /\ UNCHANGED <<stuck, ignored>>

-----------------------------------------------------------------------------
(* A return that set no text: while (!c.IsReadable()) goes on for ever.    *)
Hang ==
    /\ phase = "pending" /\ task /\ ~stuck
    /\ stuck' = TRUE
    /\ UNCHANGED <<vars, jobVars, ignored>>

ProcessEnds ==
    /\ th' = "crashed"
    /\ DestroyClient
    /\ UNCHANGED <<owner, flags, block, current, published, handed, settled, faults>>

(* An exception nobody catches, or a read of what is not there.            *)
Die ==
    /\ ~stuck
    /\ Job!Die
    /\ ProcessEnds
    /\ UNCHANGED <<stuck, ignored>>

(* Someone ends a process that hangs.                                      *)
Kill ==
    /\ stuck
    /\ ProcessEnds
    /\ phase' = "down" /\ held' = 0 /\ stuck' = FALSE
    /\ UNCHANGED <<task, asked, log, ignored>>

(* Someone starts the program again.                                       *)
Restart ==
    /\ th = "crashed"
    /\ owner' = "new" /\ th' = "none" /\ block' = "sample" /\ current' = None
    /\ m_bEndThread' \in BOOLEAN /\ m_bIsEnd' = TRUE /\ m_nMQMode' = 0
    /\ phase' = "idle" /\ held' = 0
    /\ UNCHANGED <<raced, chan, buffer, broker, history, faults,
                   task, asked, log, stuck, ignored>>

Environment ==
    /\ Publish \/ Push \/ Lose
    /\ UNCHANGED <<jobVars, stuck, ignored>>

-----------------------------------------------------------------------------
Judge == Ignore \/ Reply \/ Finish

ServiceNext ==
    \/ Main \/ Receive \/ HearError
    \/ Take \/ Judge
    \/ Hang \/ Die \/ Kill \/ Restart
    \/ Environment

ServiceSafe == ServiceInit /\ [][ServiceNext]_allVars

(* Windows runs both threads, a task that does not hang goes on, and the   *)
(* broker delivers what it has.  Nobody has to end or start a process.     *)
ServiceSpec ==
    /\ ServiceSafe
    /\ WF_allVars(Main) /\ WF_allVars(Receive \/ HearError \/ Take) /\ WF_allVars(Judge)
    /\ WF_allVars(Environment /\ Push)

-----------------------------------------------------------------------------
(* Types, and how the two parts meet: the requests that were asked are the *)
(* messages that were handed over, and one is at hand exactly while the    *)
(* callback runs with data.                                                *)
ServiceTypeOK ==
    /\ TypeOK
    /\ phase \in {"idle", "pending", "answered", "down"} /\ task \in BOOLEAN
    /\ asked = Len(handed) /\ held \in 0..MaxMessages
    /\ \A e \in DOMAIN log : log[e] \in [n : 1..asked, kind : {"report", "error"}]
    /\ ignored \subseteq ToSet(handed) /\ stuck \in BOOLEAN
    /\ (phase \in {"pending", "answered"}) <=> (th = "callback" /\ current # Error)
    /\ stuck => phase = "pending" /\ task

(* The message that answer e is about.                                     *)
Answered(e) == handed[log[e].n]

(* Answers are published in the order in which the requests were, none is  *)
(* answered twice, and none is answered that was passed over, across every *)
(* lost connection and every restart.                                      *)
AnswersFollow ==
    /\ Increasing([e \in DOMAIN log |-> Answered(e)])
    /\ \A e \in DOMAIN log : Answered(e) \notin ignored

(* Where a request is: what is neither in the queue nor on its way, nor at *)
(* hand, nor over, was lost with a connection or with the process.         *)
fateOf ==
    [m \in Messages |->
        CASE m > published -> "unsent"
          [] m \in queue \/ m \in ToSet(buffer) -> "waiting"
          [] \E e \in DOMAIN log : Answered(e) = m -> "answered"
          [] m \in ignored -> "ignored"
          [] phase = "pending" /\ current = m -> "judging"
          [] OTHER -> "lost"]

Fate == INSTANCE RequestFate WITH fate <- fateOf

(* The service implements RequestFate.                                     *)
ServesInOrder == Fate!Spec

(* No failure loses a message that the broker has not delivered yet.       *)
BrokerKeeps == [][queue \subseteq queue' \cup ToSet(buffer')]_allVars

(* Every request is answered or passed over, or it was lost on its way,    *)
(* unless a task hangs or the process is down.                             *)
EveryRequestIsOver ==
    \A m \in Messages :
        m <= published ~> \/ fateOf[m] \in {"answered", "ignored", "lost"}
                          \/ stuck \/ th = "crashed"
=============================================================================
