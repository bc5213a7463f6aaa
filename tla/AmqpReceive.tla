---------------------------- MODULE AmqpReceive ----------------------------
(***************************************************************************)
(* CAmqpImply and its background thread ReceiveThread: the thread connects *)
(* to RabbitMQ, binds a queue, consumes and gives each message to the      *)
(* callback, in one of three modes; the owner starts it and, when its      *)
(* destructor runs, waits for it to end.  The broker is modelled as this   *)
(* code uses it: one queue, a consumer that acknowledges or not, and what  *)
(* was not acknowledged going back to its place in the queue when the      *)
(* consumer's connection is gone.  Messages are numbered in the order they *)
(* were published, so a queue is the set of the messages in it.            *)
(*                                                                         *)
(* A connection that breaks is taken to be gone for both its ends at once. *)
(* Connect asks for no heartbeat, so one end may in fact hold on to it for *)
(* a while: see Lose.                                                      *)
(***************************************************************************)
EXTENDS Integers, Sequences, SequencesExt

CONSTANTS
    Modes,        \* values of m_nMQMode a run may start with
    Answers,      \* what a callback with data may do before it returns
    MaxMessages,  \* bound of the model: messages published
    MaxFaults     \* bound of the model: failures of the network or the broker

ASSUME ModesAssumption == Modes \subseteq 0..2
ASSUME AnswersAssumption == Answers \subseteq {"none", "ack", "requeue", "discard"}
ASSUME BoundsAssumption == MaxMessages \in Nat /\ MaxFaults \in Nat

VARIABLES
    owner,         \* the thread that owns the CAmqpImply object
    m_bEndThread, m_bIsEnd, m_nMQMode,
    raced,         \* history: ~CAmqpImply began while m_bIsEnd was still true
    th,            \* where ReceiveThread is
    block,         \* whose block of the loop: its qp is a CAmqpSample, CAmqpAck, CAmqpRpc
    chan,          \* the connection of qp
    buffer,        \* messages on their way to qp or in its buffers
    current,       \* what the callback was given last: a message, Error, or None
    queue,         \* the messages in the broker's queue
    unacked,       \* messages the broker holds until qp acknowledges them
    published,     \* messages published so far: 1..published
    handed,        \* history: messages given to the callback, in order of the first time
    settled,       \* history: messages acknowledged or discarded
    dropped,       \* history: messages of mode 0 that died in a buffer
    faults         \* failures so far

vars == <<owner, m_bEndThread, m_bIsEnd, m_nMQMode, raced, th, block, chan, buffer,
          current, queue, unacked, published, handed, settled, dropped, faults>>

flags == <<m_bEndThread, m_bIsEnd, m_nMQMode, raced>>
broker == <<queue, unacked, published>>
history == <<handed, settled, dropped>>

None == 0
Error == -1
Messages == 1..MaxMessages

(* "refused": the socket is open but the login failed or the broker closed *)
(* it, which Connect does not notice.                                      *)
ChanType == {"none", "refused", "open", "consuming", "lost"}

ThreadType == {"none", "started", "marked", "top", "connect", "bind", "poll",
               "consume", "callback", "drop", "leaving", "done", "crashed"}

(* m_bEndThread is not initialised by the constructor.                     *)
Init ==
    /\ owner = "new"
    /\ m_bEndThread \in BOOLEAN /\ m_bIsEnd = TRUE /\ m_nMQMode = 0
    /\ raced = FALSE
    /\ th = "none" /\ block = "sample" /\ chan = "none"
    /\ buffer = <<>> /\ current = None
    /\ queue = {} /\ unacked = {} /\ published = 0
    /\ handed = <<>> /\ settled = {} /\ dropped = {}
    /\ faults = 0

Alive == th # "crashed"

Ended == th \in {"none", "done", "crashed"}

Fail == faults < MaxFaults /\ faults' = faults + 1

(* The connection of qp goes away: the broker takes back what it was not   *)
(* told to forget.                                                         *)
Requeue == queue' = unacked \cup queue /\ unacked' = {}

(* Mutant, for BrokerKeeps: the queue is declared to be deleted with its   *)
(* consumer.                                                               *)
DestroyClientAndQueue ==
    /\ chan' = "none"
    /\ buffer' = <<>>
    /\ queue' = {} /\ unacked' = {}
    /\ dropped' = IF block = "sample" THEN dropped \cup ToSet(buffer) ELSE dropped

(* ~CAmqpSample, or the end of the process.  What a consumer without       *)
(* acknowledgements had in its buffers is gone.                            *)
DestroyClient ==
    /\ chan' = "none"
    /\ buffer' = <<>>
    /\ Requeue
    /\ dropped' = IF block = "sample" THEN dropped \cup ToSet(buffer) ELSE dropped

-----------------------------------------------------------------------------
(* BeginRecieve, BeginRecieve_Ack, BeginRecieve_Rpc                        *)
BeginRecieve ==
    /\ owner = "new"
    /\ owner' = "begun"
    /\ m_nMQMode' \in Modes
    /\ th' = "started"
    /\ UNCHANGED <<m_bEndThread, m_bIsEnd, raced, block, chan, buffer, current,
                   broker, history, faults>>

(* ~CAmqpImply: asks the thread to end, then polls m_bIsEnd.               *)
Destruct ==
    /\ owner \in {"new", "begun"} /\ Alive
    /\ owner' = "ending"
    /\ m_bEndThread' = TRUE
    /\ raced' = (owner = "begun" /\ m_bIsEnd)
    /\ UNCHANGED <<m_bIsEnd, m_nMQMode, th, block, chan, buffer, current,
                   broker, history, faults>>

(* Mutant, for TeardownIsSafe: the destructor does not wait for the        *)
(* thread.                                                                 *)
DestructAtOnce ==
    /\ owner = "ending" /\ Alive
    /\ owner' = "gone"
    /\ UNCHANGED <<flags, th, block, chan, buffer, current, broker, history, faults>>

DestructDone ==
    /\ owner = "ending" /\ Alive
    /\ m_bIsEnd
    /\ owner' = "gone"
    /\ UNCHANGED <<flags, th, block, chan, buffer, current, broker, history, faults>>

-----------------------------------------------------------------------------
(* ReceiveThread's first two assignments.                                  *)
MarkRunning ==
    /\ th = "started"
    /\ m_bEndThread' = FALSE
    /\ th' = "marked"
    /\ UNCHANGED <<owner, m_bIsEnd, m_nMQMode, raced, block, chan, buffer, current,
                   broker, history, faults>>

MarkNotEnded ==
    /\ th = "marked"
    /\ m_bIsEnd' = FALSE
    /\ th' = "top"
    /\ UNCHANGED <<owner, m_bEndThread, m_nMQMode, raced, block, chan, buffer, current,
                   broker, history, faults>>

BlockOf(mode) == CASE mode = 0 -> "sample" [] mode = 1 -> "ack" [] OTHER -> "rpc"

(* The top of while (true).                                                *)
LoopTop ==
    /\ th = "top"
    /\ IF m_bEndThread
       THEN m_bIsEnd' = TRUE /\ th' = "done" /\ UNCHANGED block
       ELSE block' = BlockOf(m_nMQMode) /\ th' = "connect" /\ UNCHANGED m_bIsEnd
    /\ UNCHANGED <<owner, m_bEndThread, m_nMQMode, raced, chan, buffer, current,
                   broker, history, faults>>

(* Connect, and CreateExchange, whose result is always true.  Only a       *)
(* socket that does not open makes Connect false: the callback is told and *)
(* the loop starts again a second later.                                   *)
Connect ==
    /\ th = "connect"
    /\ \/ chan' = "open" /\ th' = "bind" /\ UNCHANGED faults
       \/ Fail /\ chan' = "none" /\ th' = "top"
       \/ Fail /\ chan' = "refused" /\ th' = "bind"
    /\ UNCHANGED <<owner, flags, block, buffer, current, broker, history>>

Bind ==
    /\ th = "bind" /\ chan = "open"
    /\ chan' = "consuming" /\ th' = "poll"
    /\ UNCHANGED <<owner, flags, block, buffer, current, broker, history, faults>>

(* The declare of the queue returns NULL.  CAmqpRpc::Binding looks before  *)
(* it dereferences; CAmqpSample::Binding does not.                         *)
BindFails ==
    /\ th = "bind" /\ chan \in {"refused", "lost"}
    /\ th' = IF block = "rpc" THEN "top" ELSE "crashed"
    /\ DestroyClient
    /\ UNCHANGED <<owner, flags, block, current, published, handed, settled, faults>>

(* Mutant, for EndsWhenAsked: only the top of the outer loop looks at the  *)
(* end flag.                                                               *)
PollForever ==
    /\ th = "poll"
    /\ th' = "consume"
    /\ UNCHANGED <<owner, flags, block, chan, buffer, current, broker, history, faults>>

(* The end flag is looked at before every wait; qp is destroyed on return, *)
(* after m_bIsEnd is set.                                                  *)
Poll ==
    /\ th = "poll"
    /\ IF m_bEndThread
       THEN m_bIsEnd' = TRUE /\ th' = "leaving"
       ELSE th' = "consume" /\ UNCHANGED m_bIsEnd
    /\ UNCHANGED <<owner, m_bEndThread, m_nMQMode, raced, block, chan, buffer, current,
                   broker, history, faults>>

Leave ==
    /\ th = "leaving"
    /\ th' = "done"
    /\ DestroyClient
    /\ UNCHANGED <<owner, flags, block, current, published, handed, settled, faults>>

-----------------------------------------------------------------------------
(* Modes 1 and 2 give a message again until it is acknowledged: only its   *)
(* first time is recorded, which is all the properties tell apart.         *)
HandOver(m) ==
    handed' = IF block # "sample" /\ m \in ToSet(handed) THEN handed ELSE Append(handed, m)

(* Mutant, for AtMostOnce: the message is consumed and the callback is not *)
(* called.                                                                 *)
ConsumeUntold ==
    /\ th = "consume" /\ buffer # <<>>
    /\ buffer' = Tail(buffer)
    /\ th' = "poll"
    /\ UNCHANGED <<owner, flags, block, chan, current, broker, history, faults>>

(* Mutant, for InOrder: the message is given to the callback and stays in  *)
(* the buffer.                                                             *)
ConsumeAgain ==
    /\ th = "consume" /\ buffer # <<>>
    /\ Len(handed) < MaxMessages
    /\ current' = Head(buffer)
    /\ HandOver(current')
    /\ th' = "callback"
    /\ UNCHANGED <<owner, flags, block, chan, buffer, broker, settled, dropped, faults>>

(* Consume(1) returns AMQP_STATUS_OK: the callback gets the message.       *)
ConsumeData ==
    /\ th = "consume" /\ buffer # <<>>
    /\ current' = Head(buffer)
    /\ buffer' = Tail(buffer)
    /\ HandOver(current')
    /\ th' = "callback"
    /\ UNCHANGED <<owner, flags, block, chan, broker, settled, dropped, faults>>

(* A second without a message.                                             *)
ConsumeTimeout ==
    /\ th = "consume" /\ chan = "consuming" /\ buffer = <<>>
    /\ th' = "poll"
    /\ UNCHANGED <<owner, flags, block, chan, buffer, current, broker, history, faults>>

(* Consume returns a negative code, and the callback gets it.              *)
ConsumeError ==
    /\ th = "consume" /\ chan = "lost"
    /\ current' = Error
    /\ th' = "callback"
    /\ UNCHANGED <<owner, flags, block, chan, buffer, broker, history, faults>>

(* What Ack and UnAck reach: a message the broker still holds for qp.      *)
Answerable == chan = "consuming" /\ current \in unacked

(* Mutant, for HeadOfLine: no block leaves its loop after a message.       *)
AfterCallbackGoesOn == IF current # Error THEN "poll" ELSE "drop"

(* In mode 0 the loop goes on with the same qp; a CAmqpAck or CAmqpRpc,    *)
(* and any qp that returned an error, is destroyed.                        *)
AfterCallback == IF block = "sample" /\ current # Error THEN "poll" ELSE "drop"

(* Mutant, for AtLeastOnce: the answer of a callback covers all that the   *)
(* broker delivered.                                                       *)
CallbackSettlesAll ==
    /\ th = "callback"
    /\ th' = AfterCallback
    /\ unacked' = {}
    /\ settled' = settled \cup unacked
    /\ UNCHANGED <<owner, flags, block, chan, buffer, current, queue, published, handed,
                   dropped, faults>>

(* Mutant, for SettledNeverAgain: an answer over a connection that is gone *)
(* counts as given.                                                        *)
CallbackSettlesLate ==
    /\ th = "callback"
    /\ th' = AfterCallback
    /\ settled' = IF current # Error /\ block # "sample" THEN settled \cup {current}
                                                         ELSE settled
    /\ unacked' = unacked \ {current}
    /\ UNCHANGED <<owner, flags, block, chan, buffer, current, queue, published, handed,
                   dropped, faults>>

(* The callback returns; it had an Ack or UnAck to give only for a message.*)
CallbackSettles ==
    /\ th = "callback"
    /\ Answers \cap {"ack", "discard"} # {} /\ Answerable
    /\ th' = AfterCallback
    /\ unacked' = unacked \ {current}
    /\ settled' = settled \cup {current}
    /\ UNCHANGED <<owner, flags, block, chan, buffer, current, queue, published, handed,
                   dropped, faults>>

CallbackRequeues ==
    /\ th = "callback"
    /\ "requeue" \in Answers /\ Answerable
    /\ th' = AfterCallback
    /\ unacked' = unacked \ {current}
    /\ queue' = queue \cup {current}
    /\ UNCHANGED <<owner, flags, block, chan, buffer, current, published, history, faults>>

CallbackReturns ==
    /\ th = "callback"
    /\ "none" \in Answers \/ ~Answerable
    /\ th' = AfterCallback
    /\ UNCHANGED <<owner, flags, block, chan, buffer, current, broker, history, faults>>

(* Mutant, for EveryMessageIsTaken: the thread ends with the connection.   *)
DropAndStop ==
    /\ th = "drop"
    /\ DestroyClient
    /\ th' = "done"
    /\ UNCHANGED <<owner, flags, block, current, published, handed, settled, faults>>

(* The inner loop is left and qp destroyed.  In mode 1 the block of the    *)
(* CAmqpRpc comes next, for its condition is m_nMQMode != 0: the same      *)
(* queue is then served with a CAmqpRpc, without a look at the end flag.   *)
Drop ==
    /\ th = "drop"
    /\ DestroyClient
    /\ IF block = "ack" THEN block' = "rpc" /\ th' = "connect"
                        ELSE th' = "top" /\ UNCHANGED block
    /\ UNCHANGED <<owner, flags, current, published, handed, settled, faults>>

-----------------------------------------------------------------------------
(* The broker and the network.                                             *)
Publish ==
    /\ published < MaxMessages
    /\ published' = published + 1
    /\ queue' = queue \cup {published'}
    /\ UNCHANGED <<owner, flags, th, block, chan, buffer, current, unacked, history, faults>>

DeliverFirst ==
    LET first == Min(queue) IN
    /\ queue' = queue \ {first}
    /\ buffer' = Append(buffer, first)
    /\ unacked' = IF block = "sample" THEN {} ELSE unacked \cup {first}

(* Mutant, for TypeOK: Binding does not ask for a prefetch of one message. *)
PushUnlimited ==
    /\ chan = "consuming" /\ queue # {}
    /\ DeliverFirst
    /\ UNCHANGED <<owner, flags, th, block, chan, current, published, history, faults>>

(* A delivery.  Binding asks for a prefetch of one, which binds only a     *)
(* consumer that acknowledges; CAmqpRpc::Binding does not ask.             *)
Push ==
    /\ chan = "consuming" /\ queue # {}
    /\ block = "ack" => unacked = {}
    /\ DeliverFirst
    /\ UNCHANGED <<owner, flags, th, block, chan, current, published, history, faults>>

(* The connection breaks; what qp already has can still be consumed.  Not  *)
(* modelled is a connection that is half open: were the broker to keep the *)
(* old consumer beside that of the next Connect, it could deliver a later  *)
(* message before an earlier one comes back, and were qp to keep it, the   *)
(* thread would wait for messages that are sent no more.                   *)
Lose ==
    /\ chan \in {"open", "consuming"}
    /\ Fail
    /\ chan' = "lost"
    /\ Requeue
    /\ UNCHANGED <<owner, flags, th, block, buffer, current, published, history>>

(* The thread runs on with an object that is gone: it reads what is in     *)
(* that memory, which may end it or the process, or do neither.            *)
UseAfterFree ==
    /\ owner = "gone" /\ ~Ended /\ th # "leaving"
    /\ th' \in {"done", "crashed"}
    /\ DestroyClient
    /\ UNCHANGED <<owner, flags, block, current, published, handed, settled, faults>>

-----------------------------------------------------------------------------
Thread ==
    \/ MarkRunning \/ MarkNotEnded \/ LoopTop
    \/ Connect \/ Bind \/ BindFails
    \/ Poll \/ Leave
    \/ ConsumeData \/ ConsumeTimeout \/ ConsumeError
    \/ CallbackSettles \/ CallbackRequeues \/ CallbackReturns
    \/ Drop

Next ==
    \/ BeginRecieve \/ Destruct \/ DestructDone
    \/ Thread \/ UseAfterFree
    \/ Publish \/ Push \/ Lose

Safe == Init /\ [][Next]_vars

(* Windows schedules both threads, a callback returns, and a broker that   *)
(* has a message and a consumer for it delivers it.                        *)
Spec == Safe /\ WF_vars(Thread) /\ WF_vars(DestructDone) /\ WF_vars(Push)

-----------------------------------------------------------------------------
(* Types, and the prefetch of one: a CAmqpAck never has a second message   *)
(* that waits for its acknowledgement.                                     *)
TypeOK ==
    /\ owner \in {"new", "begun", "ending", "gone"}
    /\ {m_bEndThread, m_bIsEnd, raced} \subseteq BOOLEAN
    /\ m_nMQMode \in 0..2
    /\ th \in ThreadType /\ chan \in ChanType
    /\ block \in {"sample", "ack", "rpc"}
    /\ current \in Messages \cup {None, Error}
    /\ published \in 0..MaxMessages /\ faults \in 0..MaxFaults
    /\ {buffer, handed} \subseteq Seq(Messages)
    /\ queue \cup unacked \cup settled \cup dropped \subseteq Messages
    /\ block = "ack" => \A m, n \in unacked : m = n

(* With acknowledgements (modes 1 and 2) a message stays in exactly one    *)
(* place of the broker until it is settled, across every lost connection   *)
(* and every switch between CAmqpAck and CAmqpRpc, and only a message the  *)
(* callback has seen is settled.                                           *)
AtLeastOnce ==
    m_nMQMode # 0 =>
        /\ settled \subseteq ToSet(handed)
        /\ queue \cup unacked = (1..published) \ settled
        /\ queue \cap unacked = {}

(* Without acknowledgements (mode 0) a message is in the queue, on its way,*)
(* given to the callback, or lost with the connection that had it in its   *)
(* buffers: never in two of these and never in none.                       *)
AtMostOnce ==
    m_nMQMode = 0 =>
        /\ queue \cup ToSet(handed \o buffer) = (1..published) \ dropped
        /\ queue \cap ToSet(handed \o buffer) = {}
        /\ IsInjective(handed \o buffer)

Increasing(s) == \A i, j \in DOMAIN s : i < j => s[i] < s[j]

(* The callback first sees messages in the order they were published, and  *)
(* in mode 0 it sees none twice: across reconnections too, if the broker   *)
(* has let go of the old connection by then (see Lose).                    *)
InOrder == Increasing(handed)

(* The queue moves on only when a message is settled: with                 *)
(* acknowledgements every message the callback has seen, but the last, is  *)
(* settled, so that one that is never settled holds up all the others;     *)
(* across reconnections on the same condition as InOrder.                  *)
HeadOfLine ==
    m_nMQMode # 0 => \A i \in 1..(Len(handed) - 1) : handed[i] \in settled

(* When ~CAmqpImply returns, the thread does not use the object any more,  *)
(* unless the destructor began before the thread had written m_bIsEnd.     *)
TeardownIsSafe == owner = "gone" /\ ~raced => Ended \/ th = "leaving"

(* A message whose acknowledgement reached the broker is never given to    *)
(* the callback again.  That Ack() returned true does not say it has: the  *)
(* frame was handed to the socket.                                         *)
SettledNeverAgain ==
    [][th' = "callback" /\ th # "callback" => current' \notin settled]_vars

(* A message published while the object receives reaches the callback, or  *)
(* dies with a connection of mode 0, whatever reconnections it takes.      *)
EveryMessageIsTaken ==
    \A m \in Messages :
        owner = "begun" /\ m <= published
            ~> m \in ToSet(handed) \cup dropped \/ owner # "begun" \/ th = "crashed"

(* ~CAmqpImply returns, in whatever part of the loop it finds the thread.  *)
EndsWhenAsked == owner = "ending" /\ ~raced ~> owner = "gone" \/ th = "crashed"

-----------------------------------------------------------------------------
(* What the comments of AmqpSample.h say.                                  *)

(* "reconnects by itself after an error": no failure of the broker or the  *)
(* network ends the process.  Does not hold: CAmqpSample::Binding          *)
(* dereferences the NULL reply of a declare that failed.                   *)
ErrorsAreSurvived == th = "crashed" => raced
=============================================================================
