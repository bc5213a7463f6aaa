------------------------- MODULE JudgeServiceProofs -------------------------
(***************************************************************************)
(* What becomes of a request in the whole service, across lost connections,*)
(* tasks that hang or die, and restarts: the safety properties of          *)
(* JudgeService, and that it implements RequestFate, for any number of     *)
(* messages and faults.                                                    *)
(***************************************************************************)
EXTENDS JudgeService, AmqpReceiveProofs

-----------------------------------------------------------------------------
(* The inductive invariant.  Of the receiving thread in mode 0 what holds  *)
(* across a restart (Core of AmqpReceiveProofs); and connections drop the  *)
(* oldest messages first.                                                  *)
Waiting == queue \cup ToSet(buffer)

Sampling ==
    /\ m_nMQMode = 0 /\ ~raced
    /\ \A d \in dropped, w \in Waiting : d < w
    /\ \A k \in DOMAIN handed : k <= handed[k]

(* The job at hand is the last message that was handed over.               *)
AtHand == phase \in {"pending", "answered"}

Jobs ==
    /\ phase \in {"idle", "pending", "answered", "down"}
    /\ task \in BOOLEAN /\ stuck \in BOOLEAN
    /\ asked = Len(handed)
    /\ AtHand <=> (th = "callback" /\ current # Error)
    /\ AtHand => asked > 0 /\ current = handed[asked]
    /\ stuck => phase = "pending" /\ task
    /\ held \in Nat /\ held <= asked
    /\ AtHand => held < asked

(* Answers and what was passed over; the job at hand is neither before its *)
(* answer.                                                                 *)
Outcomes ==
    /\ log \in Seq([n : Nat, kind : {"report", "error"}])
    /\ \A e \in DOMAIN log : log[e].n \in 1..asked
    /\ \A d, e \in DOMAIN log : d < e => log[d].n < log[e].n
    /\ phase = "pending" => \A e \in DOMAIN log : log[e].n < asked
    /\ ignored \subseteq ToSet(handed)
    /\ \A e \in DOMAIN log : Answered(e) \notin ignored
    /\ AtHand => current \notin ignored

SInv == Core /\ Sampling /\ Jobs /\ Outcomes

-----------------------------------------------------------------------------
(* What a step does to the messages: nothing, the end of a connection with *)
(* what it had in its buffer, a publication, a delivery, or a message for  *)
(* the callback.                                                           *)
Traffic == <<published, queue, buffer, handed, dropped>>

Cut == DestroyClient /\ UNCHANGED <<published, handed>>

LEMMA TrafficIs ==
    ASSUME SInv, ServiceNext
    PROVE  /\ m_nMQMode' = 0 /\ ~raced'
           /\ UNCHANGED Traffic \/ Cut \/ Publish \/ Push \/ ConsumeData
<1>0. m_nMQMode = 0 /\ ~raced /\ unacked = {}
  BY DEF SInv, Core, Sampling, Blocks
<1> USE DEF Traffic, Cut, flags, broker, history, vars
<1>1. CASE Main
  BY <1>0, <1>1, ServiceAssumption DEF Main, BeginRecieve
<1>2. CASE Receive
  BY <1>0, <1>2 DEF Receive, MarkRunning, MarkNotEnded, LoopTop, Connect, Bind, BindFails,
                    Poll, ConsumeTimeout, Drop
<1>3. CASE HearError
  BY <1>0, <1>3 DEF HearError, ConsumeError, CallbackReturns
<1>4. CASE Take
  BY <1>0, <1>4 DEF Take, ConsumeData
<1>5. CASE Ignore \/ Finish
  BY <1>0, <1>5 DEF Ignore, Finish, CallbackReturns
<1>6. CASE Reply \/ Hang
  BY <1>0, <1>6 DEF Reply, Hang
<1>7. CASE Die \/ Kill
  BY <1>0, <1>7 DEF Die, Kill, ProcessEnds
<1>8. CASE Restart
  BY <1>0, <1>8 DEF Restart
<1>9. CASE Environment
  BY <1>0, <1>9 DEF Environment, Publish, Push, Lose, Requeue
<1> QED
  BY <1>1, <1>2, <1>3, <1>4, <1>5, <1>6, <1>7, <1>8, <1>9 DEF ServiceNext, Judge

(* What the thread and the broker do around a job leaves it as it is.      *)
LEMMA AroundTheJob ==
    ASSUME SInv, Main \/ Receive \/ HearError \/ Environment
    PROVE  /\ UNCHANGED <<jobVars, stuck, ignored, handed>>
           /\ (th' = "callback" /\ current' # Error) <=> (th = "callback" /\ current # Error)
           /\ th = "callback" /\ current # Error => current' = current
<1> USE DEF flags, broker, history
<1>1. CASE Main
  BY <1>1 DEF Main, BeginRecieve, SInv, Core, Blocks
<1>2. CASE Receive
  BY <1>2 DEF Receive, MarkRunning, MarkNotEnded, LoopTop, Connect, Bind, BindFails,
              Poll, ConsumeTimeout, Drop
<1>3. CASE HearError
  BY <1>3 DEF HearError, ConsumeError, CallbackReturns, AfterCallback
<1>4. CASE Environment
  BY <1>4 DEF Environment, Publish, Push, Lose
<1> QED
  BY <1>1, <1>2, <1>3, <1>4

(* Around a job a connection ends only while nothing is at hand.           *)
LEMMA CutIsOutside ==
    ASSUME SInv, Cut, Main \/ Receive \/ HearError \/ Environment
    PROVE  phase # "pending"
<1> SUFFICES ASSUME phase = "pending" PROVE FALSE
  OBVIOUS
<1>1. th = "callback" /\ current # Error /\ owner # "new" /\ chan \in {"consuming", "lost"}
  BY DEF SInv, Jobs, AtHand, Core, Places, Blocks
<1>2. chan' = "none"
  BY DEF Cut, DestroyClient
<1> QED
  BY <1>1, <1>2 DEF Main, BeginRecieve, Receive, MarkRunning, MarkNotEnded, LoopTop, Connect,
     Bind, BindFails, Poll, ConsumeTimeout, Drop, HearError, ConsumeError, CallbackReturns,
     Environment, Publish, Push, Lose

-----------------------------------------------------------------------------
(* The receiving thread.                                                   *)
LEMMA CoreUnchanged ==
    ASSUME Core, UNCHANGED vars
    PROVE  Core'
<1> USE DEF Core, vars
<1>1. TypeOK' /\ Places' /\ Blocks'
  BY DEF TypeOK, Places, Blocks, ToSet
<1>2. Unanswered'
  BY DEF Unanswered, Way, ToSet, Increasing
<1> QED
  BY <1>1, <1>2

LEMMA CoreKept ==
    ASSUME SInv, ServiceNext
    PROVE  Core'
<1>0. Core /\ m_nMQMode = 0 /\ ~raced
  BY DEF SInv, Sampling
<1>1. CASE Next
  BY <1>0, <1>1, TypesKept, PlacesKept, BlocksKept, UnansweredKept DEF Core
<1>2. CASE UNCHANGED vars
  BY <1>0, <1>2, CoreUnchanged
<1>3. CASE Die \/ Kill
  <2>0. ProcessEnds /\ th = "callback"
    BY <1>3 DEF Die, Kill, Job!Die, SInv, Jobs, AtHand
  <2> USE <2>0 DEF ProcessEnds, DestroyClient, Requeue, flags
  <2>1. ToSet(buffer) \subseteq Messages
    BY <1>0, ToSetOfSeq DEF Core, TypeOK
  <2>2. TypeOK'
    BY <1>0, <2>1 DEF Core, TypeOK, ThreadType, ChanType
  <2>3. Places' /\ Blocks'
    BY <1>0 DEF Core, Places, Blocks, TypeOK
  <2>4. Unanswered'
    BY <1>0, DestroyKeepsUnanswered DEF Core
  <2> QED
    BY <2>2, <2>3, <2>4 DEF Core
<1>4. CASE Restart
  <2> USE <1>4 DEF Restart, broker, history
  <2>1. TypeOK'
    BY <1>0 DEF Core, TypeOK, ThreadType, ChanType, None
  <2>2. Places' /\ Blocks'
    BY <1>0 DEF Core, Places, Blocks
  <2>3. Unanswered'
    BY <1>0 DEF Core, Unanswered, Way, ToSet, Increasing
  <2> QED
    BY <2>1, <2>2, <2>3 DEF Core
<1> QED
  BY <1>1, <1>2, <1>3, <1>4
     DEF ServiceNext, Judge, Main, Receive, HearError, Take, Ignore, Reply, Finish, Hang,
         Environment, Next, Thread

(* Where the messages are: those that wait are later than those the        *)
(* callback has seen and those that were dropped, and nothing that waits is*)
(* overtaken.                                                              *)
LEMMA Order ==
    ASSUME SInv
    PROVE  /\ published \in Nat /\ published <= MaxMessages /\ MaxMessages \in Nat
           /\ {buffer, handed} \subseteq Seq(Messages)
           /\ 1..published = Waiting \cup ToSet(handed) \cup dropped
           /\ \A h \in ToSet(handed), w \in Waiting : h < w
           /\ \A b \in ToSet(buffer), w \in queue : b < w
           /\ \A d \in dropped, w \in Waiting : d < w
           /\ Increasing(handed) /\ Increasing(buffer)
<1>1. /\ {buffer, handed} \subseteq Seq(Messages) /\ published \in 0..MaxMessages
      /\ MaxMessages \in Nat
  BY BoundsAssumption DEF SInv, Core, TypeOK
<1>2. /\ queue \cup ToSet(Way) = (1..published) \ dropped
      /\ dropped \subseteq 1..published
      /\ \A x \in ToSet(Way), m \in queue : x < m
      /\ Increasing(Way)
  BY DEF SInv, Core, Sampling, Unanswered
<1>3. ToSet(Way) = ToSet(handed) \cup ToSet(buffer)
  BY <1>1, ToSetOfConcat DEF Way
<1>4. /\ Way \in Seq(Messages) /\ Len(Way) = Len(handed) + Len(buffer)
      /\ Len(handed) \in Nat /\ Len(buffer) \in Nat
      /\ DOMAIN Way = 1..Len(handed) + Len(buffer)
      /\ DOMAIN handed = 1..Len(handed) /\ DOMAIN buffer = 1..Len(buffer)
      /\ \A k \in 1..Len(handed) + Len(buffer) :
            Way[k] = IF k <= Len(handed) THEN handed[k] ELSE buffer[k - Len(handed)]
  BY <1>1, ConcatProperties, LenProperties DEF Way
<1>5. \A k \in 1..Len(buffer) :
         Len(handed) + k \in DOMAIN Way /\ Way[Len(handed) + k] = buffer[k]
  BY <1>4
<1>6. Increasing(handed)
  BY <1>1, <1>2, IncreasingPart DEF Way
<1>7. Increasing(buffer)
  <2> SUFFICES ASSUME NEW j \in 1..Len(buffer), NEW k \in 1..Len(buffer), j < k
               PROVE  buffer[j] < buffer[k]
    BY <1>4 DEF Increasing
  <2>1. Len(handed) + j < Len(handed) + k
    BY <1>4
  <2> QED
    BY <1>2, <1>5, <2>1 DEF Increasing
<1>8. \A h \in ToSet(handed), b \in ToSet(buffer) : h < b
  <2> SUFFICES ASSUME NEW j \in 1..Len(handed), NEW k \in 1..Len(buffer)
               PROVE  handed[j] < buffer[k]
    BY <1>1, ToSetOfSeq
  <2>1. j \in DOMAIN Way /\ Way[j] = handed[j] /\ j < Len(handed) + k
    BY <1>4
  <2> QED
    BY <1>2, <1>5, <2>1 DEF Increasing
<1>9. 1..published = Waiting \cup ToSet(handed) \cup dropped
  BY <1>2, <1>3 DEF Waiting
<1>10. /\ \A h \in ToSet(handed), w \in Waiting : h < w
       /\ \A b \in ToSet(buffer), w \in queue : b < w
  BY <1>2, <1>3, <1>8 DEF Waiting
<1>11. \A d \in dropped, w \in Waiting : d < w
  BY DEF SInv, Sampling
<1>12. published \in Nat /\ published <= MaxMessages
  BY <1>1
<1> QED
  BY <1>1, <1>6, <1>7, <1>9, <1>10, <1>11, <1>12

(* What was handed over keeps its place when more is.                      *)
LEMMA MoreIsHanded ==
    ASSUME SInv, ConsumeData
    PROVE  /\ Head(buffer) \in Messages /\ Head(buffer) \in ToSet(buffer)
           /\ handed' = Append(handed, Head(buffer))
           /\ handed' \in Seq(Messages) /\ Len(handed') = Len(handed) + 1
           /\ \A k \in 1..Len(handed) : handed'[k] = handed[k]
           /\ handed'[Len(handed) + 1] = Head(buffer)
           /\ ToSet(handed)' = ToSet(handed) \cup {Head(buffer)}
           /\ ToSet(buffer) = ToSet(buffer') \cup {Head(buffer)}
           /\ \A b \in ToSet(buffer') : Head(buffer) < b
           /\ UNCHANGED <<published, queue, dropped>>
<1>1. {buffer, handed} \subseteq Seq(Messages) /\ Increasing(buffer)
  BY Order
<1>2. /\ buffer # <<>> /\ buffer' = Tail(buffer) /\ handed' = Append(handed, Head(buffer))
      /\ UNCHANGED <<published, queue, dropped>>
  BY DEF ConsumeData, HandOver, SInv, Core, Sampling, Blocks, broker
<1>3. Head(buffer) \in Messages /\ Head(buffer) \in ToSet(buffer)
  BY <1>1, <1>2, HandedOver
<1>4. /\ handed' \in Seq(Messages) /\ Len(handed') = Len(handed) + 1
      /\ \A k \in 1..Len(handed) : handed'[k] = handed[k]
      /\ handed'[Len(handed) + 1] = Head(buffer)
  BY <1>1, <1>2, <1>3
<1>5. ToSet(handed)' = ToSet(handed) \cup {Head(buffer)}
  <2>1. ToSet(Append(handed, Head(buffer))) = ToSet(handed) \cup {Head(buffer)}
    BY <1>1, <1>3, ToSetOfAppend
  <2> QED
    BY <1>2, <2>1 DEF ToSet
<1>6. /\ buffer' \in Seq(Messages) /\ Len(buffer') = Len(buffer) - 1 /\ Len(buffer) \in Nat \ {0}
      /\ \A k \in 1..Len(buffer') : buffer'[k] = buffer[k + 1]
      /\ Head(buffer) = buffer[1]
  BY <1>1, <1>2, HeadTailProperties, LenProperties, EmptySeq
<1>7. /\ ToSet(buffer') = {buffer'[k] : k \in 1..Len(buffer')}
      /\ ToSet(buffer) = {buffer[k] : k \in 1..Len(buffer)}
      /\ DOMAIN buffer = 1..Len(buffer)
  BY <1>1, <1>6, ToSetOfSeq
<1>8. ToSet(buffer) \subseteq ToSet(buffer') \cup {Head(buffer)}
  <2> SUFFICES ASSUME NEW k \in 1..Len(buffer)
               PROVE  buffer[k] \in ToSet(buffer') \cup {buffer[1]}
    BY <1>6, <1>7
  <2>1. CASE k = 1
    BY <2>1
  <2>2. CASE k # 1
    <3>1. k - 1 \in 1..Len(buffer') /\ buffer'[k - 1] = buffer[k]
      BY <1>6, <2>2
    <3> QED
      BY <1>7, <3>1
  <2> QED
    BY <2>1, <2>2
<1>9. ToSet(buffer') \subseteq ToSet(buffer)
  <2> SUFFICES ASSUME NEW k \in 1..Len(buffer') PROVE buffer[k + 1] \in ToSet(buffer)
    BY <1>6, <1>7
  <2>1. k + 1 \in 1..Len(buffer)
    BY <1>6
  <2> QED
    BY <1>7, <2>1
<1>10. \A b \in ToSet(buffer') : Head(buffer) < b
  <2> SUFFICES ASSUME NEW k \in 1..Len(buffer') PROVE buffer[1] < buffer[k + 1]
    BY <1>6, <1>7
  <2>1. 1 \in DOMAIN buffer /\ k + 1 \in DOMAIN buffer /\ 1 < k + 1
    BY <1>6, <1>7
  <2> QED
    BY <1>1, <2>1 DEF Increasing
<1> QED
  BY <1>2, <1>3, <1>4, <1>5, <1>8, <1>9, <1>10

(* A delivery leaves a message waiting.                                    *)
LEMMA WaitingInTheBuffer ==
    ASSUME SInv, Push
    PROVE  Waiting' = Waiting
<1> DEFINE first == Min(queue)
<1>1. first \in queue /\ queue \subseteq Messages /\ buffer \in Seq(Messages)
  BY FirstOfQueue DEF Push, SInv, Core, TypeOK, Messages
<1> HIDE DEF first
<1>2. queue' = queue \ {first} /\ buffer' = Append(buffer, first)
  BY DEF Push, DeliverFirst, first
<1>3. ToSet(buffer)' = ToSet(buffer) \cup {first}
  <2>1. ToSet(Append(buffer, first)) = ToSet(buffer) \cup {first}
    BY <1>1, ToSetOfAppend
  <2> QED
    BY <1>2, <2>1 DEF ToSet
<1> QED
  BY <1>1, <1>2, <1>3 DEF Waiting

LEMMA SamplingKept ==
    ASSUME SInv, ServiceNext
    PROVE  Sampling'
<1>1. m_nMQMode' = 0 /\ ~raced'
  BY TrafficIs
<1>2. /\ \A d \in dropped, w \in Waiting : d < w
      /\ \A k \in DOMAIN handed : k <= handed[k]
  BY DEF SInv, Sampling
<1>3. CASE UNCHANGED Traffic
  BY <1>1, <1>2, <1>3 DEF Traffic, Sampling, Waiting, ToSet
<1>4. CASE Cut
  <2>1. /\ queue' = queue /\ buffer' = <<>> /\ dropped' = dropped \cup ToSet(buffer)
        /\ handed' = handed
    BY <1>4 DEF Cut, DestroyClient, Requeue, SInv, Core, Sampling, Blocks
  <2>2. ToSet(buffer)' = {}
    BY <2>1 DEF ToSet
  <2>3. \A d \in dropped \cup ToSet(buffer), w \in queue : d < w
    BY <1>2, Order DEF Waiting
  <2> QED
    BY <1>1, <1>2, <2>1, <2>2, <2>3 DEF Sampling, Waiting
<1>5. CASE Publish
  <2>1. /\ queue' = queue \cup {published + 1} /\ UNCHANGED <<buffer, dropped, handed>>
    BY <1>5 DEF Publish, history
  <2>2. dropped \subseteq 1..published /\ published \in Nat
    BY Order
  <2>3. \A d \in dropped, w \in Waiting \cup {published + 1} : d < w
    BY <1>2, <2>2
  <2>4. Waiting' = Waiting \cup {published + 1}
    BY <2>1 DEF Waiting, ToSet
  <2> QED
    BY <1>1, <1>2, <2>1, <2>3, <2>4 DEF Sampling
<1>6. CASE Push
  <2>1. Waiting' = Waiting /\ UNCHANGED <<dropped, handed>>
    BY <1>6, WaitingInTheBuffer DEF Push, history
  <2> QED
    BY <1>1, <1>2, <2>1 DEF Sampling
<1>7. CASE ConsumeData
  <2>1. \A d \in dropped', w \in Waiting' : d < w
    <3>1. Waiting' \subseteq Waiting /\ dropped' = dropped
      BY <1>7, MoreIsHanded DEF Waiting
    <3> QED
      BY <1>2, <3>1
  <2>2. \A k \in DOMAIN handed' : k <= handed'[k]
    <3>1. /\ Len(handed) \in Nat /\ DOMAIN handed = 1..Len(handed)
          /\ DOMAIN handed' = 1..Len(handed) + 1
          /\ \A k \in 1..Len(handed) : handed'[k] = handed[k] /\ handed[k] \in ToSet(handed)
          /\ handed'[Len(handed) + 1] \in Messages
          /\ handed'[Len(handed) + 1] \in Waiting
      BY <1>7, MoreIsHanded, Order, ToSetOfSeq DEF Waiting
    <3>2. Len(handed) + 1 <= handed'[Len(handed) + 1]
      <4>1. CASE Len(handed) = 0
        BY <3>1, <4>1 DEF Messages
      <4>2. CASE Len(handed) > 0
        <5> DEFINE last == handed[Len(handed)]
        <5>1. Len(handed) <= last /\ last \in ToSet(handed)
          BY <1>2, <3>1, <4>2
        <5>2. last < handed'[Len(handed) + 1]
          BY <3>1, <5>1, Order
        <5>3. last \in Int
          BY <5>1, Order, ToSetOfSeq DEF Messages
        <5> HIDE DEF last
        <5> QED
          BY <3>1, <5>1, <5>2, <5>3 DEF Messages
      <4> QED
        BY <3>1, <4>1, <4>2
    <3> QED
      BY <1>2, <3>1, <3>2
  <2> QED
    BY <1>1, <2>1, <2>2 DEF Sampling
<1> QED
  BY TrafficIs, <1>3, <1>4, <1>5, <1>6, <1>7

-----------------------------------------------------------------------------
(* The job at hand.                                                        *)
LEMMA JobsKept ==
    ASSUME SInv, ServiceNext
    PROVE  Jobs'
<1>0. Jobs /\ handed \in Seq(Messages) /\ Len(handed) \in Nat
  BY Order DEF SInv
<1> USE DEF Jobs, AtHand
<1>1. CASE Main \/ Receive \/ HearError \/ Environment
  BY <1>0, <1>1, AroundTheJob DEF jobVars
<1>2. CASE Take
  <2>1. /\ th' = "callback" /\ current' = Head(buffer) /\ Head(buffer) # Error
        /\ Len(handed') = Len(handed) + 1 /\ handed'[Len(handed) + 1] = Head(buffer)
        /\ Job!Ask /\ ConsumeData /\ UNCHANGED <<stuck, ignored>>
    BY <1>2, MoreIsHanded DEF Take, ConsumeData, Error, Messages
  <2> QED
    BY <1>0, <2>1 DEF Job!Ask
<1>3. CASE Ignore \/ Finish
  <2>1. th' # "callback" /\ handed' = handed /\ current' = current
    BY <1>3 DEF Ignore, Finish, CallbackReturns, AfterCallback, history
  <2>2. phase' = "idle" /\ ~stuck /\ UNCHANGED <<task, asked, stuck>>
        /\ held' \in {held, held + 1} /\ phase \in {"pending", "answered"}
    BY <1>0, <1>3 DEF Ignore, Finish, Job!Ignore, Job!Finish
  <2> QED
    BY <1>0, <2>1, <2>2
<1>4. CASE Reply
  BY <1>0, <1>4 DEF Reply, Job!Answer, vars, history
<1>5. CASE Hang
  BY <1>0, <1>5 DEF Hang, vars, jobVars, history
<1>6. CASE Die \/ Kill
  <2>1. /\ th' = "crashed" /\ phase' = "down" /\ held' = 0 /\ stuck' = FALSE
        /\ UNCHANGED <<handed, task, asked>>
    BY <1>0, <1>6 DEF Die, Kill, ProcessEnds, Job!Die
  <2>2. asked' = Len(handed') /\ 0 <= asked'
    BY <1>0, <2>1
  <2>3. ~AtHand' /\ phase' # "pending" /\ th' # "callback"
    BY <2>1
  <2> QED
    BY <1>0, <2>1, <2>2, <2>3
<1>7. CASE Restart
  BY <1>0, <1>7 DEF Restart, history
<1> QED
  BY <1>1, <1>2, <1>3, <1>4, <1>5, <1>6, <1>7 DEF ServiceNext, Judge

(* The answers and what is passed over.                                    *)
LEMMA OutcomesKept ==
    ASSUME SInv, ServiceNext
    PROVE  Outcomes'
<1>0. Outcomes /\ Jobs /\ handed \in Seq(Messages) /\ Len(handed) \in Nat
      /\ Increasing(handed) /\ DOMAIN handed = 1..Len(handed)
      /\ \A k \in 1..Len(handed) : handed[k] \in ToSet(handed) /\ handed[k] \in Int
  BY Order, ToSetOfSeq DEF SInv, Messages
<1>1. CASE UNCHANGED <<log, asked, handed, ignored>> /\ phase' = phase
             /\ (AtHand => current' = current)
  BY <1>0, <1>1 DEF Outcomes, Answered, AtHand, ToSet
<1>2. CASE UNCHANGED <<log, asked, handed, ignored>> /\ phase' \in {"idle", "down"}
  BY <1>0, <1>2 DEF Outcomes, Answered, AtHand, ToSet
<1>3. CASE Take
  <2>1. /\ current' = Head(buffer) /\ asked' = asked + 1 /\ phase' = "pending"
        /\ UNCHANGED <<log, ignored>>
    BY <1>3 DEF Take, ConsumeData, Job!Ask
  <2>2. /\ Head(buffer) \notin ToSet(handed)
        /\ ToSet(handed)' = ToSet(handed) \cup {Head(buffer)}
        /\ \A k \in 1..Len(handed) : handed'[k] = handed[k]
    <3>1. /\ Head(buffer) \in Waiting /\ Head(buffer) \in Int
          /\ ToSet(handed)' = ToSet(handed) \cup {Head(buffer)}
          /\ \A k \in 1..Len(handed) : handed'[k] = handed[k]
      BY <1>3, MoreIsHanded DEF Take, Waiting, Messages
    <3> QED
      BY <3>1, Order
  <2>3. \A e \in DOMAIN log : Answered(e)' = Answered(e)
    BY <1>0, <2>1, <2>2 DEF Outcomes, Jobs, Answered
  <2> QED
    BY <1>0, <2>1, <2>2, <2>3 DEF Outcomes, Jobs
<1>4. CASE Ignore
  <2>1. /\ phase = "pending" /\ phase' = "idle" /\ ignored' = ignored \cup {current}
        /\ UNCHANGED <<log, asked, handed>>
    BY <1>4 DEF Ignore, Job!Ignore, CallbackReturns, history
  <2>2. current = handed[asked] /\ asked \in 1..Len(handed)
    BY <1>0, <2>1 DEF Jobs, AtHand
  <2>3. \A e \in DOMAIN log : Answered(e) # current
    <3> SUFFICES ASSUME NEW e \in DOMAIN log PROVE handed[log[e].n] # handed[asked]
      BY <2>2 DEF Answered
    <3>1. log[e].n \in 1..Len(handed) /\ log[e].n < asked
      BY <1>0, <2>1 DEF Outcomes, Jobs
    <3>2. handed[log[e].n] < handed[asked]
      BY <1>0, <2>2, <3>1 DEF Increasing
    <3> QED
      BY <1>0, <2>2, <3>1, <3>2
  <2>4. \A e \in DOMAIN log : Answered(e)' = Answered(e)
    BY <2>1 DEF Answered
  <2>5. ToSet(handed)' = ToSet(handed) /\ current \in ToSet(handed)
    BY <1>0, <2>1, <2>2 DEF ToSet
  <2> QED
    BY <1>0, <2>1, <2>3, <2>4, <2>5 DEF Outcomes, AtHand
<1>5. CASE Reply
  <2>1. PICK kind \in {"report", "error"} : Job!Answer(kind)
    BY <1>5 DEF Reply
  <2> DEFINE answer == [n |-> asked, kind |-> kind]
  <2>2. /\ phase = "pending" /\ phase' = "answered" /\ log' = Append(log, answer)
        /\ UNCHANGED <<asked, handed, ignored, current>>
    BY <1>5, <2>1 DEF Reply, Job!Answer, vars, history
  <2>3. /\ asked \in 1..Len(handed) /\ answer \in [n : Nat, kind : {"report", "error"}]
        /\ asked > 0 /\ current = handed[asked]
    BY <1>0, <2>2 DEF Jobs, AtHand
  <2> HIDE DEF answer
  <2>4. /\ log \in Seq([n : Nat, kind : {"report", "error"}]) /\ Len(log) \in Nat
        /\ DOMAIN log = 1..Len(log) /\ DOMAIN log' = 1..Len(log) + 1
        /\ log' \in Seq([n : Nat, kind : {"report", "error"}])
        /\ \A e \in 1..Len(log) : log'[e] = log[e]
        /\ log'[Len(log) + 1] = answer /\ answer.n = asked
    BY <1>0, <2>2, <2>3 DEF Outcomes, answer
  <2>5. \A e \in DOMAIN log' : \/ e \in DOMAIN log /\ log'[e] = log[e]
                               \/ e = Len(log) + 1 /\ log'[e].n = asked
    BY <2>4
  <2>6. \A e \in DOMAIN log' : log'[e].n \in 1..asked'
    BY <1>0, <2>2, <2>3, <2>5 DEF Outcomes, Jobs
  <2>7. \A d, e \in DOMAIN log' : d < e => log'[d].n < log'[e].n
    BY <1>0, <2>2, <2>4, <2>5 DEF Outcomes
  <2>8. \A e \in DOMAIN log' : Answered(e)' \notin ignored
    <3> SUFFICES ASSUME NEW e \in DOMAIN log' PROVE handed[log'[e].n] \notin ignored
      BY <2>2 DEF Answered
    <3>1. CASE e \in DOMAIN log /\ log'[e] = log[e]
      BY <1>0, <3>1 DEF Outcomes, Answered
    <3>2. CASE log'[e].n = asked
      BY <1>0, <2>2, <2>3, <3>2 DEF Outcomes, AtHand
    <3> QED
      BY <2>5, <3>1, <3>2
  <2>9. ignored' \subseteq ToSet(handed)' /\ current' \notin ignored'
    BY <1>0, <2>2 DEF Outcomes, AtHand, ToSet
  <2> QED
    BY <2>2, <2>4, <2>6, <2>7, <2>8, <2>9 DEF Outcomes
<1>6. Main \/ Receive \/ HearError \/ Environment =>
        UNCHANGED <<log, asked, handed, ignored, phase>> /\ (AtHand => current' = current)
  BY <1>0, AroundTheJob DEF Jobs, AtHand, jobVars
<1>7. Finish => UNCHANGED <<log, asked, handed, ignored>> /\ phase' = "idle"
  BY DEF Finish, Job!Finish, CallbackReturns, history
<1>8. Hang => UNCHANGED <<log, asked, handed, ignored, phase, current>>
  BY DEF Hang, vars, jobVars, history
<1>9. Die \/ Kill => UNCHANGED <<log, asked, handed, ignored>> /\ phase' = "down"
  BY DEF Die, Kill, ProcessEnds, Job!Die
<1>10. Restart => UNCHANGED <<log, asked, handed, ignored>> /\ phase' = "idle"
  BY DEF Restart, history
<1> QED
  BY <1>1, <1>2, <1>3, <1>4, <1>5, <1>6, <1>7, <1>8, <1>9, <1>10 DEF ServiceNext, Judge

-----------------------------------------------------------------------------
LEMMA InitSInv == ServiceInit => SInv
<1> SUFFICES ASSUME ServiceInit PROVE SInv
  OBVIOUS
<1>1. Core
  BY InitIInv DEF ServiceInit, IInv
<1>2. /\ handed = <<>> /\ dropped = {} /\ log = <<>> /\ ignored = {}
      /\ m_nMQMode = 0 /\ raced = FALSE /\ th = "none"
      /\ phase = "idle" /\ task \in BOOLEAN /\ stuck = FALSE /\ asked = 0 /\ held = 0
  BY DEF ServiceInit, Init, Job!Init
<1>3. Sampling
  BY <1>2 DEF Sampling
<1>4. Jobs
  <2>1. ~AtHand /\ ~stuck /\ th # "callback"
    BY <1>2 DEF AtHand
  <2>2. asked = Len(handed) /\ held \in Nat /\ held <= asked
    BY <1>2
  <2> QED
    BY <1>2, <2>1, <2>2 DEF Jobs
<1>5. Outcomes
  BY <1>2 DEF Outcomes, AtHand
<1> QED
  BY <1>1, <1>3, <1>4, <1>5 DEF SInv

LEMMA SInvUnchanged ==
    ASSUME SInv, UNCHANGED allVars
    PROVE  SInv'
<1> USE DEF allVars
<1>1. Core'
  BY CoreUnchanged DEF SInv
<1>2. Sampling'
  BY DEF SInv, Sampling, Waiting, ToSet, vars
<1>3. Jobs' /\ Outcomes'
  BY DEF SInv, Jobs, Outcomes, AtHand, Answered, ToSet, vars, jobVars
<1> QED
  BY <1>1, <1>2, <1>3 DEF SInv

LEMMA NextKeepsSInv == SInv /\ [ServiceNext]_allVars => SInv'
BY SInvUnchanged, CoreKept, SamplingKept, JobsKept, OutcomesKept DEF SInv

LEMMA ServiceInvariance == ServiceSafe => []SInv
BY InitSInv, NextKeepsSInv, PTL DEF ServiceSafe

(* Types, and how the thread and the judging meet: the requests that were  *)
(* asked are the messages that receive was given, one is at hand exactly   *)
(* while receive runs with data, and only a task hangs.                    *)
THEOREM ServiceTyped == ServiceSafe => []ServiceTypeOK
<1>1. ASSUME SInv PROVE ServiceTypeOK
  <2>1. Jobs /\ Outcomes /\ TypeOK /\ handed \in Seq(Messages) /\ MaxMessages \in Nat
    BY <1>1, Order DEF SInv, Core
  <2>2. Len(handed) <= MaxMessages
    <3>1. Len(handed) \in Nat /\ DOMAIN handed = 1..Len(handed)
          /\ \A k \in 1..Len(handed) : handed[k] \in 1..MaxMessages /\ k <= handed[k]
      BY <1>1, <2>1, ElementOfSeq DEF SInv, Sampling, Messages
    <3> QED
      BY <2>1, <3>1
  <2>3. held \in 0..MaxMessages
    BY <2>1, <2>2 DEF Jobs
  <2>4. \A e \in DOMAIN log : log[e] \in [n : 1..asked, kind : {"report", "error"}]
    <3> SUFFICES ASSUME NEW e \in DOMAIN log
                 PROVE  log[e] \in [n : 1..asked, kind : {"report", "error"}]
      OBVIOUS
    <3>1. log \in Seq([n : Nat, kind : {"report", "error"}]) /\ log[e].n \in 1..asked
      BY <2>1 DEF Outcomes
    <3>2. ASSUME NEW S, log \in Seq(S) PROVE log[e] \in S
      BY <3>2
    <3>3. log[e] \in [n : Nat, kind : {"report", "error"}]
      BY <3>1, <3>2
    <3> QED
      BY <3>1, <3>3
  <2> QED
    BY <2>1, <2>3, <2>4 DEF ServiceTypeOK, Jobs, Outcomes, AtHand
<1> QED
  BY <1>1, ServiceInvariance, PTL

(* Answers are published in the order of the requests, none twice and none *)
(* to a request that JsonParser passed over, across every lost connection  *)
(* and every restart.                                                      *)
THEOREM AnswersInOrder == ServiceSafe => []AnswersFollow
<1>1. ASSUME SInv PROVE AnswersFollow
  <2>1. Outcomes /\ Increasing(handed) /\ asked = Len(handed) /\ handed \in Seq(Messages)
    BY <1>1, Order DEF SInv, Jobs
  <2>2. \A d, e \in DOMAIN log : d < e => Answered(d) < Answered(e)
    <3> SUFFICES ASSUME NEW d \in DOMAIN log, NEW e \in DOMAIN log, d < e
                 PROVE  handed[log[d].n] < handed[log[e].n]
      BY DEF Answered
    <3>1. log[d].n \in DOMAIN handed /\ log[e].n \in DOMAIN handed /\ log[d].n < log[e].n
      BY <2>1 DEF Outcomes
    <3> QED
      BY <2>1, <3>1 DEF Increasing
  <2> QED
    BY <2>1, <2>2 DEF AnswersFollow, Increasing, Outcomes
<1> QED
  BY <1>1, ServiceInvariance, PTL

(* Whatever fails, the broker keeps what it has not delivered.             *)
THEOREM BrokerKeepsAll == ServiceSafe => BrokerKeeps
<1>1. ASSUME SInv, [ServiceNext]_allVars
      PROVE  [queue \subseteq queue' \cup ToSet(buffer')]_allVars
  <2> SUFFICES ASSUME ServiceNext PROVE queue \subseteq queue' \cup ToSet(buffer')
    BY <1>1
  <2>1. CASE UNCHANGED Traffic \/ Cut \/ Publish \/ ConsumeData
    BY <2>1 DEF Traffic, Cut, DestroyClient, Requeue, Publish, ConsumeData, broker
  <2>2. CASE Push
    <3>1. ToSet(buffer)' = ToSet(buffer')
      BY DEF ToSet
    <3>2. queue \subseteq queue' \cup ToSet(buffer) \cup ToSet(buffer')
      BY <1>1, <2>2, <3>1, WaitingInTheBuffer DEF Waiting
    <3>3. ToSet(buffer) \cap queue = {}
      BY <1>1, Order DEF SInv, Core, TypeOK, Messages
    <3> QED
      BY <3>2, <3>3
  <2> QED
    BY <1>1, <2>1, <2>2, TrafficIs
<1> QED
  BY <1>1, ServiceInvariance, PTL DEF ServiceSafe, BrokerKeeps

-----------------------------------------------------------------------------
(* The service implements RequestFate: where a request is, as the sets it  *)
(* may be in.                                                              *)
Replied == {Answered(e) : e \in DOMAIN log}
Judging == IF phase = "pending" THEN {current} ELSE {}

Place(m) ==
    IF m > published THEN "unsent"
    ELSE IF m \in Waiting THEN "waiting"
    ELSE IF m \in Replied THEN "answered"
    ELSE IF m \in ignored THEN "ignored"
    ELSE IF m \in Judging THEN "judging"
    ELSE "lost"

(* No message is in two of the sets, and nothing that waits was overtaken. *)
LEMMA Apart ==
    ASSUME SInv
    PROVE  /\ Waiting \subseteq 1..published /\ ToSet(handed) \subseteq 1..published
           /\ Waiting \cap ToSet(handed) = {}
           /\ Replied \cup ignored \cup Judging \subseteq ToSet(handed)
           /\ Replied \cap ignored = {} /\ Judging \cap (Replied \cup ignored) = {}
           /\ \A w \in Waiting, k \in 1..published : w <= k => k \in Waiting
           /\ 1..published \subseteq Messages
<1>0. /\ Jobs /\ Outcomes /\ handed \in Seq(Messages) /\ Increasing(handed)
      /\ DOMAIN handed = 1..Len(handed)
      /\ \A k \in 1..Len(handed) : handed[k] \in ToSet(handed) /\ handed[k] \in Int
  BY Order, ToSetOfSeq DEF SInv, Messages
<1>1. Waiting \subseteq 1..published /\ ToSet(handed) \subseteq 1..published
  BY Order
<1>2. Waiting \cap ToSet(handed) = {}
  BY <1>1, Order
<1>3. Replied \subseteq ToSet(handed) /\ ignored \subseteq ToSet(handed)
  BY <1>0 DEF Replied, Answered, Jobs, Outcomes
<1>4. Replied \cap ignored = {}
  BY <1>0 DEF Replied, Outcomes
<1>5. Judging \subseteq ToSet(handed) /\ Judging \cap (Replied \cup ignored) = {}
  <2>1. CASE phase # "pending"
    BY <2>1 DEF Judging
  <2>2. CASE phase = "pending"
    <3>1. asked \in 1..Len(handed) /\ current = handed[asked] /\ current \notin ignored
      BY <1>0, <2>2 DEF Jobs, Outcomes, AtHand
    <3>2. current \notin Replied
      <4> SUFFICES ASSUME NEW e \in DOMAIN log PROVE handed[log[e].n] # handed[asked]
        BY <3>1 DEF Replied, Answered
      <4>1. log[e].n \in 1..Len(handed) /\ log[e].n < asked
        BY <1>0, <2>2 DEF Outcomes, Jobs
      <4>2. handed[log[e].n] < handed[asked]
        BY <1>0, <3>1, <4>1 DEF Increasing
      <4> QED
        BY <1>0, <3>1, <4>1, <4>2
    <3> QED
      BY <1>0, <2>2, <3>1, <3>2 DEF Judging
  <2> QED
    BY <2>1, <2>2
<1>6. ASSUME NEW w \in Waiting, NEW k \in 1..published, w <= k PROVE k \in Waiting
  <2>1. w \in Int /\ ~(k < w)
    BY <1>1, <1>6
  <2>2. k \in Waiting \cup ToSet(handed) \cup dropped
    BY Order
  <2> QED
    BY <2>1, <2>2, Order
<1>7. 1..published \subseteq Messages
  BY Order DEF Messages
<1> QED
  BY <1>1, <1>2, <1>3, <1>4, <1>5, <1>6, <1>7

(* So the cases of fateOf exclude each other.                              *)
LEMMA FateIsPlace ==
    ASSUME SInv
    PROVE  fateOf = [m \in Messages |-> Place(m)]
<1> SUFFICES ASSUME NEW m \in Messages PROVE fateOf[m] = Place(m)
  BY DEF fateOf
<1>1. (\E e \in DOMAIN log : Answered(e) = m) <=> m \in Replied
  BY DEF Replied
<1>2. phase = "pending" /\ current = m <=> m \in Judging
  BY DEF Judging
<1>3. m \in queue \/ m \in ToSet(buffer) <=> m \in Waiting
  BY DEF Waiting
<1>4. fateOf[m] = CASE m > published -> "unsent"
                    [] m \in Waiting -> "waiting"
                    [] m \in Replied -> "answered"
                    [] m \in ignored -> "ignored"
                    [] m \in Judging -> "judging"
                    [] OTHER -> "lost"
  BY <1>1, <1>2, <1>3 DEF fateOf
<1>5. m > published => m \notin Waiting \cup Replied \cup ignored \cup Judging
  BY Apart, Order
<1>6. m \in Waiting => m \notin Replied \cup ignored \cup Judging
  BY Apart
<1>7. m \in Replied => m \notin ignored \cup Judging
  BY Apart
<1>8. m \in ignored => m \notin Judging
  BY Apart
<1> QED
  BY <1>4, <1>5, <1>6, <1>7, <1>8 DEF Place

LEMMA FateIsPlaceNext == SInv' => (fateOf = [m \in Messages |-> Place(m)])'
<1>1. SInv => fateOf = [m \in Messages |-> Place(m)]
  BY FateIsPlace
<1> QED
  BY <1>1, PTL

(* Nothing that a client sees.                                             *)
LEMMA StepStutters ==
    ASSUME SInv, SInv', UNCHANGED <<published, Waiting, Replied, ignored, Judging>>
    PROVE  UNCHANGED fateOf
<1>1. \A m \in Messages : Place(m)' = Place(m)
  BY DEF Place
<1> QED
  BY <1>1, FateIsPlace, FateIsPlaceNext

(* The end of a connection, or of the process: what was in the buffer is   *)
(* lost, and the job at hand.                                              *)
LEMMA EndLoses ==
    ASSUME SInv, SInv', Cut, UNCHANGED <<Replied, ignored>>, Judging' = {}
    PROVE  Fate!Next \/ UNCHANGED fateOf
<1> DEFINE gone == ToSet(buffer) \cup Judging
<1>1. published' = published /\ Waiting' = queue
  <2>1. queue' = queue /\ buffer' = <<>> /\ published' = published
    BY DEF Cut, DestroyClient, Requeue, SInv, Core, Sampling, Blocks
  <2> QED
    BY <2>1 DEF Waiting, ToSet
<1>2. /\ \A b \in ToSet(buffer), w \in queue : b < w
      /\ \A h \in ToSet(handed), w \in Waiting : h < w
      /\ {buffer, handed} \subseteq Seq(Messages)
      /\ Increasing(buffer)
  BY Order
<1>3. gone \subseteq 1..published /\ gone \cap queue = {}
  BY <1>2, Apart DEF Waiting
<1> HIDE DEF gone
<1>4. \A m \in Messages : Place(m)' = IF m \in gone THEN "lost" ELSE Place(m)
  <2> SUFFICES ASSUME NEW m \in Messages
               PROVE  Place(m)' = IF m \in gone THEN "lost" ELSE Place(m)
    OBVIOUS
  <2>1. CASE m \in gone
    <3>1. ~(m > published) /\ m \notin queue
      BY <1>3, <2>1, Order
    <3>2. m \notin Replied /\ m \notin ignored
      BY <2>1, Apart DEF gone, Waiting
    <3> QED
      BY <1>1, <2>1, <3>1, <3>2 DEF Place
  <2>2. CASE m \notin gone
    BY <1>1, <2>2 DEF Place, gone, Waiting
  <2> QED
    BY <2>1, <2>2
<1>5. CASE gone = {}
  <2>1. \A m \in Messages : Place(m)' = Place(m)
    BY <1>4, <1>5
  <2> QED
    BY <2>1, FateIsPlace, FateIsPlaceNext
<1>6. CASE gone # {}
  <2>1. PICK last \in gone : \A g \in gone : g <= last
    <3>1. CASE buffer # <<>>
      <4> DEFINE l == buffer[Len(buffer)]
      <4>1. Len(buffer) \in Nat /\ Len(buffer) \in 1..Len(buffer) /\ DOMAIN buffer = 1..Len(buffer)
        BY <1>2, <3>1, EmptySeq, LenProperties
      <4>2. /\ ToSet(buffer) = {buffer[k] : k \in 1..Len(buffer)}
            /\ \A k \in 1..Len(buffer) : buffer[k] \in Messages
        BY <1>2, ToSetOfSeq, ElementOfSeq
      <4> HIDE DEF l
      <4>6. l \in ToSet(buffer) /\ l \in Int /\ l \in Waiting
        BY <4>1, <4>2 DEF l, Messages, Waiting
      <4>3. \A g \in ToSet(buffer) : g <= l
        <5> SUFFICES ASSUME NEW k \in 1..Len(buffer) PROVE buffer[k] <= l
          BY <4>2
        <5>1. buffer[k] \in Int
          BY <4>2 DEF Messages
        <5>2. CASE k = Len(buffer)
          BY <4>6, <5>2 DEF l
        <5>3. CASE k < Len(buffer)
          BY <1>2, <4>1, <4>6, <5>1, <5>3 DEF Increasing, l
        <5>4. Len(buffer) \in Nat
          BY <4>1
        <5>5. k = Len(buffer) \/ k < Len(buffer)
          BY <5>4
        <5> QED
          BY <5>2, <5>3, <5>5
      <4>4. \A g \in Judging : g < l
        BY <1>2, <4>6, Apart
      <4>5. \A g \in Judging : g <= l
        BY <4>4, <4>6, Apart
      <4> QED
        BY <4>3, <4>5, <4>6 DEF gone
    <3>2. CASE buffer = <<>>
      <4>1. gone = {current} /\ current \in Int
        BY <1>3, <1>6, <3>2, ToSetOfSeq DEF gone, Judging, ToSet
      <4> QED
        BY <4>1
    <3> QED
      BY <3>1, <3>2
  <2>2. last \in Messages /\ last \in Int
    BY <1>3, <2>1, Apart
  <2>3. ASSUME NEW m \in Messages
        PROVE  m \in gone <=> m <= last /\ Place(m) \in {"waiting", "judging"}
    <3>1. CASE m \in gone
      <4>1. m <= last /\ ~(m > published)
        BY <1>3, <2>1, <3>1, Order
      <4>2. CASE m \in ToSet(buffer)
        BY <3>1, <4>1, <4>2 DEF Place, Waiting
      <4>3. CASE m \in Judging
        BY <3>1, <4>1, <4>3, Apart DEF Place
      <4> QED
        BY <3>1, <4>1, <4>2, <4>3 DEF gone
    <3>2. CASE m \notin gone
      <4>1. CASE m \in queue
        <5>1. last < m
          BY <1>2, <2>1, <4>1, Apart DEF gone, Waiting
        <5> QED
          BY <2>2, <3>2, <5>1 DEF Messages
      <4>2. CASE m \notin queue
        BY <3>2, <4>2 DEF Place, gone, Waiting
      <4> QED
        BY <4>1, <4>2
    <3> QED
      BY <3>1, <3>2
  <2>4. fateOf[last] \in {"waiting", "judging"}
    BY <2>1, <2>2, <2>3, FateIsPlace
  <2>5. \A m \in Messages :
           Place(m)' = IF m <= last /\ fateOf[m] \in {"waiting", "judging"}
                       THEN "lost" ELSE fateOf[m]
    BY <1>4, <2>3, FateIsPlace
  <2>6. Fate!Lose(last)
    BY <2>4, <2>5, FateIsPlaceNext DEF Fate!Lose
  <2> QED
    BY <2>2, <2>6 DEF Fate!Next
<1> QED
  BY <1>5, <1>6

(* What a client sees.                                                     *)
LEMMA PublishSends ==
    ASSUME SInv, SInv', Publish, UNCHANGED <<Replied, ignored, Judging>>
    PROVE  Fate!Next
<1>0. PICK new : new = published + 1
  OBVIOUS
<1>1. /\ published' = published + 1 /\ queue' = queue \cup {new}
      /\ published < MaxMessages /\ buffer' = buffer
  BY <1>0 DEF Publish
<1>2. published \in Nat /\ MaxMessages \in Nat
  BY Order
<1>3. Waiting' = Waiting \cup {new}
  BY <1>1 DEF Waiting, ToSet
<1>4. new \in Messages /\ new > published /\ ~(new > published')
  BY <1>0, <1>1, <1>2 DEF Messages
<1>5. Place(new) = "unsent" /\ Place(new)' = "waiting"
  BY <1>0, <1>3, <1>4 DEF Place
<1>6. \A m \in Messages : m # new => Place(m)' = Place(m)
  BY <1>0, <1>1, <1>2, <1>3 DEF Place, Messages
<1>7. \A m \in Messages : m < new => Place(m) # "unsent"
  BY <1>0, <1>2 DEF Place, Messages
<1>8. fateOf' = [fateOf EXCEPT ![new] = "waiting"]
  BY <1>4, <1>5, <1>6, FateIsPlace, FateIsPlaceNext
<1>9. Fate!Send(new)
  BY <1>4, <1>5, <1>7, <1>8, FateIsPlace DEF Fate!Send, Fate!Before
<1> QED
  BY <1>4, <1>9 DEF Fate!Next

LEMMA TakeTakes ==
    ASSUME SInv, SInv', Take
    PROVE  Fate!Next
<1>0. PICK m : m = Head(buffer)
  OBVIOUS
<1>1. /\ m \in Waiting /\ m \in Messages /\ m \notin Waiting'
      /\ Waiting = Waiting' \cup {m} /\ \A w \in Waiting' : m < w
      /\ published' = published
  <2>1. /\ m \in ToSet(buffer) /\ m \in Messages /\ ToSet(buffer) = ToSet(buffer') \cup {m}
        /\ (\A b \in ToSet(buffer') : m < b) /\ UNCHANGED <<published, queue>>
    BY <1>0, MoreIsHanded DEF Take
  <2>2. \A w \in queue : m < w
    BY <2>1, Order
  <2>3. ToSet(buffer)' = ToSet(buffer')
    BY DEF ToSet
  <2>4. \A w \in Waiting' : m < w
    BY <2>1, <2>2, <2>3 DEF Waiting
  <2>5. m \notin Waiting'
    BY <2>1, <2>4 DEF Messages
  <2> QED
    BY <2>1, <2>3, <2>4, <2>5 DEF Waiting
<1>2. Judging = {} /\ Judging' = {m} /\ UNCHANGED ignored
  BY <1>0 DEF Take, Job!Ask, ConsumeData, Judging
<1>3. Replied' = Replied
  <2>1. log' = log
    BY DEF Take, Job!Ask
  <2>2. \A e \in DOMAIN log : handed'[log[e].n] = handed[log[e].n]
    BY MoreIsHanded DEF Take, SInv, Jobs, Outcomes
  <2> QED
    BY <2>1, <2>2 DEF Replied, Answered
<1>4. ~(m > published) /\ m \notin Replied \cup ignored
  BY <1>1, Apart, Order
<1>5. Place(m) = "waiting" /\ Place(m)' = "judging"
  BY <1>1, <1>2, <1>3, <1>4 DEF Place
<1>6. \A k \in Messages : k # m => Place(k)' = Place(k)
  BY <1>1, <1>2, <1>3 DEF Place
<1>7. \A k \in Messages : k < m => Place(k) \in {"answered", "ignored", "lost"}
  <2> SUFFICES ASSUME NEW k \in Messages, k < m
               PROVE  Place(k) \in {"answered", "ignored", "lost"}
    OBVIOUS
  <2>1. k \notin Waiting /\ ~(k > published)
    BY <1>1, <1>4, Order DEF Messages
  <2> QED
    BY <1>2, <2>1 DEF Place
<1>8. \A k \in Messages : k > m => Place(k) \in {"unsent", "waiting"}
  <2> SUFFICES ASSUME NEW k \in Messages, k > m, ~(k > published) PROVE k \in Waiting
    BY DEF Place
  <2>1. k \in 1..published /\ m <= k
    BY <1>1, Order DEF Messages
  <2> QED
    BY <1>1, <2>1, Apart
<1>9. fateOf' = [fateOf EXCEPT ![m] = "judging"]
  BY <1>1, <1>5, <1>6, FateIsPlace, FateIsPlaceNext
<1>10. Fate!Take(m)
  BY <1>1, <1>5, <1>7, <1>8, <1>9, FateIsPlace DEF Fate!Take, Fate!Before, Fate!After
<1> QED
  BY <1>1, <1>10 DEF Fate!Next

(* The end of a job, by an answer or without one.                          *)
LEMMA JobEnds ==
    ASSUME SInv, SInv', phase = "pending", phase' # "pending",
           UNCHANGED <<published, Waiting>>,
           \/ Replied' = Replied \cup {current} /\ ignored' = ignored
           \/ Replied' = Replied /\ ignored' = ignored \cup {current}
    PROVE  Fate!Next
<1>1. Judging = {current} /\ Judging' = {}
  BY DEF Judging
<1>2. /\ current \in Messages /\ ~(current > published)
      /\ current \notin Waiting \cup Replied \cup ignored
  BY <1>1, Apart, Order
<1>3. \A m \in Messages : m # current => Place(m)' = Place(m)
  BY <1>1 DEF Place
<1>4. Place(current) = "judging" /\ (current \in Messages)
  BY <1>1, <1>2 DEF Place
<1>5. PICK f \in {"answered", "ignored"} :
         \A m \in Messages : m = current => Place(m)' = f
  <2>1. CASE Replied' = Replied \cup {current} /\ ignored' = ignored
    <3>1. \A m \in Messages : m = current => Place(m)' = "answered"
      BY <1>2, <2>1 DEF Place
    <3> QED
      BY <3>1
  <2>2. CASE Replied' = Replied /\ ignored' = ignored \cup {current}
    <3>1. \A m \in Messages : m = current => Place(m)' = "ignored"
      BY <1>2, <2>2 DEF Place
    <3> QED
      BY <3>1
  <2> QED
    BY <2>1, <2>2
<1>6. fateOf' = [fateOf EXCEPT ![current] = f]
  BY <1>2, <1>3, <1>5, FateIsPlace, FateIsPlaceNext
<1>7. Fate!End(current, f)
  BY <1>2, <1>4, <1>6, FateIsPlace DEF Fate!End
<1> QED
  BY <1>2, <1>7 DEF Fate!Next

LEMMA ReplyEnds ==
    ASSUME SInv, SInv', Reply
    PROVE  Fate!Next
<1>1. PICK kind \in {"report", "error"} : Job!Answer(kind)
  BY DEF Reply
<1> DEFINE answer == [n |-> asked, kind |-> kind]
<1>2. /\ phase = "pending" /\ phase' = "answered" /\ log' = Append(log, answer)
      /\ UNCHANGED <<handed, ignored, current, published, queue, buffer>>
  BY <1>1 DEF Reply, Job!Answer, vars, history, broker
<1>3. answer.n = asked /\ current = handed[asked]
      /\ answer \in [n : Nat, kind : {"report", "error"}]
  BY <1>2 DEF SInv, Jobs, AtHand, Outcomes, Core, TypeOK
<1> HIDE DEF answer
<1>4. /\ log \in Seq([n : Nat, kind : {"report", "error"}])
      /\ DOMAIN log' = DOMAIN log \cup {Len(log) + 1}
      /\ \A e \in DOMAIN log : log'[e] = log[e]
      /\ log'[Len(log) + 1] = answer
  BY <1>2, <1>3 DEF SInv, Outcomes
<1>5. Replied' = Replied \cup {current}
  BY <1>2, <1>3, <1>4 DEF Replied, Answered
<1>6. UNCHANGED <<published, Waiting>>
  BY <1>2 DEF Waiting, ToSet
<1> QED
  BY <1>2, <1>5, <1>6, JobEnds

LEMMA IgnoreEnds ==
    ASSUME SInv, SInv', Ignore
    PROVE  Fate!Next
<1>1. /\ phase = "pending" /\ phase' = "idle" /\ ignored' = ignored \cup {current}
      /\ UNCHANGED <<log, handed, published, queue, buffer>>
  BY DEF Ignore, Job!Ignore, CallbackReturns, history, broker
<1>2. Replied' = Replied /\ UNCHANGED <<published, Waiting>>
  BY <1>1 DEF Replied, Answered, Waiting, ToSet
<1> QED
  BY <1>1, <1>2, JobEnds

(* Every other step is a stutter or the end of a connection.               *)
LEMMA StepMaps ==
    ASSUME SInv, SInv', ServiceNext
    PROVE  Fate!Next \/ UNCHANGED fateOf
<1>1. UNCHANGED Traffic \/ Cut \/ Publish \/ Push \/ ConsumeData
  BY TrafficIs
<1>2. UNCHANGED <<log, ignored>> /\ handed' = handed => UNCHANGED <<Replied, ignored>>
  BY DEF Replied, Answered
<1>3. UNCHANGED Traffic \/ Push => UNCHANGED <<published, Waiting>>
  BY WaitingInTheBuffer DEF Traffic, Waiting, ToSet, Push
<1>4. CASE Main \/ Receive \/ HearError \/ Environment
  <2>1. UNCHANGED <<log, ignored, phase, handed>> /\ (AtHand => current' = current)
    BY <1>4, AroundTheJob DEF jobVars, SInv, Jobs
  <2>2. UNCHANGED <<Replied, ignored, Judging>>
    BY <1>2, <2>1 DEF Judging, AtHand
  <2>3. CASE UNCHANGED Traffic \/ Push
    BY <1>3, <2>2, <2>3, StepStutters
  <2>4. CASE Cut
    <3>1. Judging' = {}
      BY <1>4, <2>1, <2>4, CutIsOutside DEF Judging
    <3> QED
      BY <2>2, <2>4, <3>1, EndLoses
  <2>5. CASE Publish
    BY <2>2, <2>5, PublishSends
  <2>6. ~ConsumeData
    <3> SUFFICES ASSUME ConsumeData PROVE FALSE
      OBVIOUS
    <3>1. handed' = Append(handed, Head(buffer)) /\ Len(handed') = Len(handed) + 1
          /\ Len(handed) \in Nat
      BY MoreIsHanded, Order
    <3> QED
      BY <2>1, <3>1
  <2> QED
    BY <1>1, <2>3, <2>4, <2>5, <2>6
<1>5. CASE Take
  BY <1>5, TakeTakes
<1>6. CASE Ignore
  BY <1>6, IgnoreEnds
<1>7. CASE Reply
  BY <1>7, ReplyEnds
<1>8. CASE Finish \/ Hang
  <2>1. UNCHANGED <<log, ignored, handed, published, queue, buffer, current>>
        /\ (phase = "pending" <=> phase' = "pending")
    BY <1>8 DEF Finish, Hang, Job!Finish, CallbackReturns, vars, jobVars, history, broker
  <2>2. UNCHANGED <<published, Waiting, Replied, ignored, Judging>>
    BY <2>1 DEF Waiting, ToSet, Replied, Answered, Judging
  <2> QED
    BY <2>2, StepStutters
<1>9. CASE Die \/ Kill
  <2>1. UNCHANGED <<log, ignored, handed, published>> /\ phase' = "down" /\ DestroyClient
    BY <1>9 DEF Die, Kill, ProcessEnds, Job!Die
  <2>2. Cut /\ UNCHANGED <<Replied, ignored>> /\ Judging' = {}
    BY <1>2, <2>1 DEF Cut, Judging
  <2> QED
    BY <2>2, EndLoses
<1>10. CASE Restart
  <2>1. /\ UNCHANGED <<log, ignored, handed, published, queue, buffer>>
        /\ phase # "pending" /\ phase' = "idle"
    BY <1>10 DEF Restart, broker, history, SInv, Jobs, AtHand
  <2>2. UNCHANGED <<published, Waiting, Replied, ignored, Judging>>
    BY <2>1 DEF Waiting, ToSet, Replied, Answered, Judging
  <2> QED
    BY <2>2, StepStutters
<1> QED
  BY <1>4, <1>5, <1>6, <1>7, <1>8, <1>9, <1>10 DEF ServiceNext, Judge

LEMMA InitMaps == ServiceInit => Fate!Init
<1> SUFFICES ASSUME ServiceInit PROVE Fate!Init
  OBVIOUS
<1>1. SInv
  BY InitSInv
<1>2. published = 0
  BY DEF ServiceInit, Init
<1>3. \A m \in Messages : Place(m) = "unsent"
  BY <1>2 DEF Place, Messages
<1> QED
  BY <1>1, <1>3, FateIsPlace DEF Fate!Init

(* Requests are judged one at a time in the order they were published and  *)
(* never twice, and one is lost only together with all that were published *)
(* before it, whatever the network, the tasks and the process do: the      *)
(* service implements RequestFate.                                         *)
THEOREM FateKept == ServiceSafe => ServesInOrder
<1>1. SInv /\ SInv' /\ [ServiceNext]_allVars => [Fate!Next]_fateOf
  <2> SUFFICES ASSUME SInv, SInv', [ServiceNext]_allVars
               PROVE  Fate!Next \/ UNCHANGED fateOf
    OBVIOUS
  <2>1. CASE ServiceNext
    BY <2>1, StepMaps
  <2>2. CASE UNCHANGED allVars
    <3>1. UNCHANGED <<published, Waiting, Replied, ignored, Judging>>
      BY <2>2 DEF allVars, vars, jobVars, Waiting, ToSet, Replied, Answered, Judging
    <3> QED
      BY <3>1, StepStutters
  <2> QED
    BY <2>1, <2>2
<1> QED
  BY <1>1, InitMaps, ServiceInvariance, PTL DEF ServiceSafe, ServesInOrder, Fate!Spec
=============================================================================
