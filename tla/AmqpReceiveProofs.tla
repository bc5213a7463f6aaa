------------------------- MODULE AmqpReceiveProofs -------------------------
(***************************************************************************)
(* Where every message is, in which order the callback sees them, and when *)
(* the object may go, for any number of messages and faults and any        *)
(* callback: the safety properties of AmqpReceive, without fairness.       *)
(***************************************************************************)
EXTENDS AmqpReceive, SequenceTheorems, WellFoundedInduction, TLAPS

-----------------------------------------------------------------------------
(* Sequences.                                                              *)
LEMMA ToSetOfSeq ==
    ASSUME NEW S, NEW s \in Seq(S)
    PROVE  /\ ToSet(s) = {s[k] : k \in 1..Len(s)} /\ ToSet(s) \subseteq S
           /\ ToSet(<<>>) = {}
BY DEF ToSet

LEMMA ToSetOfAppend ==
    ASSUME NEW S, NEW s \in Seq(S), NEW x \in S
    PROVE  /\ Append(s, x) \in Seq(S)
           /\ ToSet(Append(s, x)) = ToSet(s) \cup {x}
           /\ s # <<>> => Head(Append(s, x)) = Head(s)
           /\ s = <<>> => Head(Append(s, x)) = x
<1>1. /\ Append(s, x) \in Seq(S) /\ Len(Append(s, x)) = Len(s) + 1 /\ Len(s) \in Nat
      /\ \A k \in 1..Len(s) : Append(s, x)[k] = s[k]
      /\ Append(s, x)[Len(s) + 1] = x
      /\ DOMAIN s = 1..Len(s) /\ DOMAIN Append(s, x) = 1..Len(s) + 1
  OBVIOUS
<1>2. ToSet(Append(s, x)) \subseteq ToSet(s) \cup {x}
  <2> SUFFICES ASSUME NEW k \in 1..Len(s) + 1
               PROVE  Append(s, x)[k] \in ToSet(s) \cup {x}
    BY <1>1 DEF ToSet
  <2>1. k \in 1..Len(s) \/ k = Len(s) + 1
    BY <1>1
  <2> QED
    BY <1>1, <2>1 DEF ToSet
<1>3. ToSet(s) \cup {x} \subseteq ToSet(Append(s, x))
  <2>1. \A k \in 1..Len(s) : k \in 1..Len(s) + 1
    BY <1>1
  <2>2. Len(s) + 1 \in 1..Len(s) + 1
    BY <1>1
  <2>3. x \in ToSet(Append(s, x))
    BY <1>1, <2>2 DEF ToSet
  <2>4. ToSet(s) \subseteq ToSet(Append(s, x))
    <3> SUFFICES ASSUME NEW k \in 1..Len(s) PROVE s[k] \in ToSet(Append(s, x))
      BY <1>1 DEF ToSet
    <3>1. Append(s, x)[k] = s[k] /\ k \in DOMAIN Append(s, x)
      BY <1>1, <2>1
    <3> QED
      BY <3>1 DEF ToSet
  <2> QED
    BY <2>3, <2>4
<1> QED
  BY <1>1, <1>2, <1>3

LEMMA ToSetOfConcat ==
    ASSUME NEW S, NEW s \in Seq(S), NEW t \in Seq(S)
    PROVE  s \o t \in Seq(S) /\ ToSet(s \o t) = ToSet(s) \cup ToSet(t)
<1>1. /\ s \o t \in Seq(S) /\ Len(s \o t) = Len(s) + Len(t)
      /\ Len(s) \in Nat /\ Len(t) \in Nat
      /\ \A k \in 1..Len(s) + Len(t) :
            (s \o t)[k] = IF k <= Len(s) THEN s[k] ELSE t[k - Len(s)]
      /\ DOMAIN s = 1..Len(s) /\ DOMAIN t = 1..Len(t)
      /\ DOMAIN (s \o t) = 1..Len(s) + Len(t)
  BY ConcatProperties, LenProperties
<1>2. ToSet(s \o t) \subseteq ToSet(s) \cup ToSet(t)
  <2> SUFFICES ASSUME NEW k \in 1..Len(s) + Len(t)
               PROVE  (s \o t)[k] \in ToSet(s) \cup ToSet(t)
    BY <1>1 DEF ToSet
  <2>1. CASE k <= Len(s)
    BY <1>1, <2>1 DEF ToSet
  <2>2. CASE ~(k <= Len(s))
    <3>1. k - Len(s) \in 1..Len(t) /\ (s \o t)[k] = t[k - Len(s)]
      BY <1>1, <2>2
    <3> QED
      BY <3>1 DEF ToSet
  <2> QED
    BY <2>1, <2>2
<1>3. ToSet(s) \subseteq ToSet(s \o t)
  <2> SUFFICES ASSUME NEW k \in 1..Len(s) PROVE s[k] \in ToSet(s \o t)
    BY <1>1 DEF ToSet
  <2>1. k \in 1..Len(s) + Len(t) /\ (s \o t)[k] = s[k]
    BY <1>1
  <2> QED
    BY <1>1, <2>1 DEF ToSet
<1>4. ToSet(t) \subseteq ToSet(s \o t)
  <2> SUFFICES ASSUME NEW k \in 1..Len(t) PROVE t[k] \in ToSet(s \o t)
    BY <1>1 DEF ToSet
  <2>1. Len(s) + k \in 1..Len(s) + Len(t) /\ (s \o t)[Len(s) + k] = t[k]
    BY <1>1
  <2> QED
    BY <1>1, <2>1 DEF ToSet
<1> QED
  BY <1>1, <1>2, <1>3, <1>4

(* Handing over the head of a buffer leaves the way of the messages as it  *)
(* is; putting one into the buffer extends it.                             *)
LEMMA HandedOver ==
    ASSUME NEW S, NEW s \in Seq(S), NEW t \in Seq(S), t # <<>>
    PROVE  /\ Head(t) \in S /\ Head(t) \in ToSet(t) /\ Tail(t) \in Seq(S)
           /\ Append(s, Head(t)) \o Tail(t) = s \o t
<1> DEFINE left == Append(s, Head(t)) \o Tail(t)
<1>1. /\ Head(t) \in S /\ Head(t) = t[1] /\ 1 \in 1..Len(t)
      /\ Tail(t) \in Seq(S) /\ Len(Tail(t)) = Len(t) - 1
      /\ \A k \in 1..Len(Tail(t)) : Tail(t)[k] = t[k + 1]
      /\ Len(s) \in Nat /\ Len(t) \in Nat \ {0}
  BY HeadTailProperties, LenProperties, EmptySeq
<1>2. /\ Append(s, Head(t)) \in Seq(S) /\ Len(Append(s, Head(t))) = Len(s) + 1
      /\ \A k \in 1..Len(s) : Append(s, Head(t))[k] = s[k]
      /\ Append(s, Head(t))[Len(s) + 1] = t[1]
  BY <1>1
<1>3. /\ left \in Seq(S) /\ Len(left) = Len(s) + Len(t)
      /\ \A k \in 1..Len(s) + Len(t) :
            left[k] = IF k <= Len(s) + 1 THEN Append(s, Head(t))[k]
                                         ELSE Tail(t)[k - (Len(s) + 1)]
  <2> HIDE DEF left
  <2>1. Len(s) + 1 + (Len(t) - 1) = Len(s) + Len(t)
    BY <1>1
  <2> QED
    BY <1>1, <1>2, <2>1, ConcatProperties DEF left
<1>4. /\ s \o t \in Seq(S) /\ Len(s \o t) = Len(s) + Len(t)
      /\ \A k \in 1..Len(s) + Len(t) :
            (s \o t)[k] = IF k <= Len(s) THEN s[k] ELSE t[k - Len(s)]
  BY ConcatProperties
<1> HIDE DEF left
<1>5. \A k \in 1..Len(left) : left[k] = (s \o t)[k]
  <2> SUFFICES ASSUME NEW k \in 1..Len(s) + Len(t) PROVE left[k] = (s \o t)[k]
    BY <1>3
  <2>1. CASE k <= Len(s)
    BY <1>1, <1>2, <1>3, <1>4, <2>1
  <2>2. CASE k = Len(s) + 1
    BY <1>1, <1>2, <1>3, <1>4, <2>2
  <2>3. CASE k > Len(s) + 1
    <3>1. /\ k - (Len(s) + 1) \in 1..Len(Tail(t))
          /\ k - (Len(s) + 1) + 1 = k - Len(s)
      BY <1>1, <2>3
    <3> QED
      BY <1>1, <1>3, <1>4, <2>3, <3>1
  <2> QED
    BY <1>1, <2>1, <2>2, <2>3
<1>6. left = s \o t
  BY <1>3, <1>4, <1>5, SeqEqual
<1>7. Head(t) \in ToSet(t)
  BY <1>1, ToSetOfSeq
<1> QED
  BY <1>1, <1>6, <1>7 DEF left

LEMMA ConcatOfAppend ==
    ASSUME NEW S, NEW s \in Seq(S), NEW t \in Seq(S), NEW x \in S
    PROVE  s \o Append(t, x) = Append(s \o t, x)
<1>1. Append(t, x) = t \o <<x>> /\ <<x>> \in Seq(S)
  OBVIOUS
<1>2. s \o t \in Seq(S) /\ Append(s \o t, x) = (s \o t) \o <<x>>
  BY ConcatProperties
<1> QED
  BY <1>1, <1>2, ConcatAssociative

(* Ascending sequences of messages.                                        *)
LEMMA IncreasingByOne ==
    ASSUME NEW s \in Seq(Messages), NEW x \in Messages,
           Increasing(s), \A y \in ToSet(s) : y < x
    PROVE  Increasing(Append(s, x))
<1>1. /\ Len(Append(s, x)) = Len(s) + 1 /\ Len(s) \in Nat
      /\ DOMAIN Append(s, x) = 1..Len(s) + 1 /\ DOMAIN s = 1..Len(s)
      /\ \A k \in 1..Len(s) : Append(s, x)[k] = s[k] /\ s[k] \in ToSet(s)
      /\ Append(s, x)[Len(s) + 1] = x
  BY ToSetOfSeq
<1> QED
  BY <1>1 DEF Increasing

LEMMA IncreasingPart ==
    ASSUME NEW s \in Seq(Messages), NEW t \in Seq(Messages), Increasing(s \o t)
    PROVE  /\ Increasing(s) /\ IsInjective(s \o t)
           /\ ToSet(s) \cap ToSet(t) = {}
<1>1. /\ s \o t \in Seq(Messages) /\ Len(s \o t) = Len(s) + Len(t)
      /\ Len(s) \in Nat /\ Len(t) \in Nat
      /\ DOMAIN s = 1..Len(s) /\ DOMAIN (s \o t) = 1..Len(s) + Len(t)
      /\ \A k \in 1..Len(s) + Len(t) :
            (s \o t)[k] = IF k <= Len(s) THEN s[k] ELSE t[k - Len(s)]
  BY ConcatProperties, LenProperties
<1>2. \A k \in 1..Len(s) : k \in DOMAIN (s \o t) /\ (s \o t)[k] = s[k]
  BY <1>1
<1>3. \A k \in 1..Len(t) :
         Len(s) + k \in DOMAIN (s \o t) /\ (s \o t)[Len(s) + k] = t[k]
  BY <1>1
<1>4. \A k \in DOMAIN (s \o t) : (s \o t)[k] \in Int
  <2>1. \A k \in 1..Len(s \o t) : (s \o t)[k] \in Messages
    BY <1>1, ElementOfSeq
  <2> QED
    BY <1>1, <2>1 DEF Messages
<1>5. Increasing(s)
  BY <1>1, <1>2 DEF Increasing
<1>6. IsInjective(s \o t)
  <2> SUFFICES ASSUME NEW j \in DOMAIN (s \o t), NEW k \in DOMAIN (s \o t), j < k
               PROVE  (s \o t)[j] # (s \o t)[k]
    BY <1>1 DEF IsInjective
  <2> QED
    BY <1>4 DEF Increasing
<1>7. ToSet(s) \cap ToSet(t) = {}
  <2> SUFFICES ASSUME NEW j \in 1..Len(s), NEW k \in 1..Len(t) PROVE s[j] # t[k]
    BY ToSetOfSeq
  <2>1. j < Len(s) + k
    BY <1>1
  <2>2. (s \o t)[j] < (s \o t)[Len(s) + k]
    BY <1>2, <1>3, <2>1 DEF Increasing
  <2> QED
    BY <1>2, <1>3, <1>4, <2>2
<1> QED
  BY <1>5, <1>6, <1>7

-----------------------------------------------------------------------------
(* The inductive invariant.                                                *)
Unsettled == (1..published) \ settled
IsFirst(m) == m \in Unsettled /\ \A u \in Unsettled : m <= u

(* What the place of the thread says of its connection.                    *)
Places ==
    /\ th \in {"none", "started", "marked", "top", "connect", "done", "crashed"}
          => chan = "none"
    /\ th \in {"poll", "consume", "callback", "drop", "leaving"}
          => chan \in {"consuming", "lost"}
    /\ chan \notin {"consuming", "lost"} => buffer = <<>>
    /\ chan # "consuming" => unacked = {}
    /\ th = "callback" => current = Error \/ current \in ToSet(handed)

(* What the mode says of the block.                                        *)
Blocks ==
    /\ m_nMQMode = 0 => block = "sample" /\ unacked = {} /\ settled = {}
    /\ m_nMQMode # 0 /\ block = "sample"
          => th \in {"started", "marked", "top", "done", "crashed"}
    /\ th = "none" => m_nMQMode = 0
    /\ owner = "new" => th = "none" /\ ~raced

(* Nothing was handed over before the thread began.                        *)
Fresh == owner = "new" => handed = <<>> /\ dropped = {}

(* The two flags, unless the destructor came too early.                    *)
Flags ==
    /\ raced => owner \in {"ending", "gone"}
    /\ ~raced =>
          /\ th # "crashed" =>
                (m_bIsEnd <=> th \in {"none", "started", "marked", "done", "leaving"})
          /\ owner \in {"ending", "gone"} => th \notin {"started", "marked"}
          /\ owner = "gone" => Ended \/ th = "leaving"

Way == handed \o buffer

(* Mode 0: what was published is in the queue, on its way or dropped, and  *)
(* what is in the queue is later than what is on its way.                  *)
Unanswered ==
    m_nMQMode = 0 =>
        /\ queue \cup ToSet(Way) = (1..published) \ dropped
        /\ dropped \subseteq 1..published
        /\ \A x \in ToSet(Way), m \in queue : x < m
        /\ Increasing(Way)

(* Modes 1 and 2: messages are settled in their order; the callback has    *)
(* seen what is settled and at most the first that is not, which is what   *)
(* the next delivery brings.                                               *)
Acknowledged ==
    m_nMQMode # 0 =>
        /\ queue \cup unacked = Unsettled /\ queue \cap unacked = {}
        /\ settled \subseteq ToSet(handed) /\ settled \subseteq 1..published
        /\ \A x \in settled, u \in Unsettled : x < u
        /\ \A h \in ToSet(handed) : h \in settled \/ IsFirst(h)
        /\ Increasing(handed)
        /\ th \in {"poll", "consume"} =>
              /\ chan = "consuming" => unacked = ToSet(buffer)
              /\ buffer # <<>> => IsFirst(Head(buffer))

(* What also holds of a program that is started again.                     *)
Core == TypeOK /\ Places /\ Blocks /\ Unanswered

IInv == Core /\ Fresh /\ Flags /\ Acknowledged

-----------------------------------------------------------------------------
Less == {ss \in Nat \X Nat : ss[1] < ss[2]}

LEMMA LessIsWellFounded == IsWellFoundedOn(Less, Nat)
BY NatLessThanWellFounded DEF OpToRel, Less

(* The broker has a first message to deliver.                              *)
LEMMA FirstOfQueue ==
    ASSUME NEW S \in SUBSET Nat, S # {}
    PROVE  Min(S) \in S /\ \A m \in S : Min(S) <= m
<1>1. \E x \in S : \A y \in S : ~(<<y, x>> \in Less)
  BY LessIsWellFounded, WFMin
<1>2. PICK x \in S : \A y \in S : ~(<<y, x>> \in Less)
  BY <1>1
<1>3. \A y \in S : x <= y
  <2> SUFFICES ASSUME NEW y \in S PROVE x <= y
    OBVIOUS
  <2>1. <<y, x>> \in Nat \X Nat /\ x \in Nat /\ y \in Nat
    OBVIOUS
  <2>2. ~(y < x)
    BY <1>2, <2>1 DEF Less
  <2> QED
    BY <2>1, <2>2
<1> QED
  BY <1>3 DEF Min

LEMMA FreshKept == IInv /\ Next => Fresh'
<1> SUFFICES ASSUME IInv, Next PROVE Fresh'
  OBVIOUS
<1> USE DEF IInv, Core, Blocks, Fresh
<1>1. CASE th # "none"
  <2>1. owner' # "new"
    BY <1>1 DEF Next, Thread, BeginRecieve, Destruct, DestructDone, MarkRunning, MarkNotEnded,
           LoopTop, Connect, Bind, BindFails, Poll, Leave, ConsumeData, ConsumeTimeout,
           ConsumeError, CallbackSettles, CallbackRequeues, CallbackReturns, Drop, UseAfterFree,
           Publish, Push, Lose
  <2> QED
    BY <2>1
<1>2. CASE th = "none"
  <2>1. owner' = "new" => owner = "new" /\ UNCHANGED <<handed, dropped>>
    BY <1>2 DEF Next, Thread, BeginRecieve, Destruct, DestructDone, MarkRunning, MarkNotEnded,
           LoopTop, Connect, Bind, BindFails, Poll, Leave, ConsumeData, ConsumeTimeout,
           ConsumeError, CallbackSettles, CallbackRequeues, CallbackReturns, Drop, UseAfterFree,
           Publish, Push, Lose, Ended, history
  <2> QED
    BY <2>1
<1> QED
  BY <1>1, <1>2

(* What the thread and its owner write.                                    *)
LEMMA FlagsKept == IInv /\ Next => Flags'
<1> SUFFICES ASSUME IInv, Next PROVE Flags'
  OBVIOUS
<1> USE DEF IInv, Core, Flags, Blocks, Ended, Alive, TypeOK, ThreadType, flags, broker, history
<1>1. CASE BeginRecieve
  BY <1>1 DEF BeginRecieve
<1>2. CASE Destruct
  <2> USE <1>2 DEF Destruct
  <2>1. CASE owner = "new"
    <3>1. th = "none" /\ ~raced /\ m_bIsEnd = TRUE
      BY <2>1
    <3>2. th' = "none" /\ owner' = "ending" /\ m_bIsEnd' = TRUE
      BY <3>1
    <3> QED
      BY <3>2
  <2>2. CASE owner = "begun" /\ m_bIsEnd
    BY <2>2
  <2>3. CASE owner = "begun" /\ ~m_bIsEnd
    <3>1. ~raced' /\ owner' = "ending" /\ th' = th /\ (m_bIsEnd' <=> m_bIsEnd) /\ th # "crashed"
      BY <2>3
    <3>2. CASE raced
      BY <3>2
    <3>3. CASE ~raced
      BY <2>3, <3>1, <3>3
    <3> QED
      BY <3>2, <3>3
  <2> QED
    BY <2>1, <2>2, <2>3
<1>3. CASE DestructDone
  BY <1>3 DEF DestructDone
<1>4. CASE MarkRunning
  BY <1>4 DEF MarkRunning
<1>5. CASE MarkNotEnded
  BY <1>5 DEF MarkNotEnded
<1>6. CASE LoopTop
  BY <1>6 DEF LoopTop, BlockOf
<1>7. CASE Connect
  BY <1>7 DEF Connect, Fail
<1>8. CASE Bind
  BY <1>8 DEF Bind
<1>9. CASE BindFails
  BY <1>9 DEF BindFails, DestroyClient, Requeue
<1>10. CASE Poll
  BY <1>10 DEF Poll
<1>11. CASE Leave
  BY <1>11 DEF Leave, DestroyClient, Requeue
<1>12. CASE ConsumeData
  BY <1>12 DEF ConsumeData, HandOver
<1>13. CASE ConsumeTimeout
  BY <1>13 DEF ConsumeTimeout
<1>14. CASE ConsumeError
  BY <1>14 DEF ConsumeError
<1>15. CASE CallbackSettles
  BY <1>15 DEF CallbackSettles, AfterCallback, Answerable
<1>16. CASE CallbackRequeues
  BY <1>16 DEF CallbackRequeues, AfterCallback, Answerable
<1>17. CASE CallbackReturns
  BY <1>17 DEF CallbackReturns, AfterCallback, Answerable
<1>18. CASE Drop
  BY <1>18 DEF Drop, DestroyClient, Requeue
<1>19. CASE UseAfterFree
  BY <1>19 DEF UseAfterFree, DestroyClient, Requeue
<1>20. CASE Publish
  BY <1>20 DEF Publish
<1>21. CASE Push
  BY <1>21 DEF Push, DeliverFirst
<1>22. CASE Lose
  BY <1>22 DEF Lose, Fail, Requeue
<1> QED
  BY <1>1, <1>2, <1>3, <1>4, <1>5, <1>6, <1>7, <1>8, <1>9, <1>10, <1>11, <1>12, <1>13, <1>14, <1>15, <1>16, <1>17, <1>18, <1>19, <1>20, <1>21, <1>22 DEF Next, Thread

(* Types, and the prefetch of one.                                         *)
LEMMA TypesKept == Core /\ Next => TypeOK'
<1> SUFFICES ASSUME Core, Next PROVE TypeOK'
  OBVIOUS
<1> USE DEF Core, TypeOK, Blocks, Places, ThreadType, ChanType, flags, broker, history
<1>1. CASE BeginRecieve
  BY <1>1, ModesAssumption DEF BeginRecieve
<1>2. CASE Destruct
  BY <1>2 DEF Destruct
<1>3. CASE DestructDone
  BY <1>3 DEF DestructDone
<1>4. CASE MarkRunning
  BY <1>4 DEF MarkRunning
<1>5. CASE MarkNotEnded
  BY <1>5 DEF MarkNotEnded
<1>6. CASE LoopTop
  BY <1>6 DEF LoopTop, BlockOf
<1>7. CASE Connect
  BY <1>7, BoundsAssumption DEF Connect, Fail
<1>8. CASE Bind
  BY <1>8 DEF Bind
<1>9. CASE BindFails
  <2>1. ToSet(buffer) \subseteq Messages
    BY ToSetOfSeq
  <2> QED
    BY <1>9, <2>1 DEF BindFails, DestroyClient, Requeue
<1>10. CASE Poll
  BY <1>10 DEF Poll
<1>11. CASE Leave
  <2>1. ToSet(buffer) \subseteq Messages
    BY ToSetOfSeq
  <2> QED
    BY <1>11, <2>1 DEF Leave, DestroyClient, Requeue
<1>12. CASE ConsumeData
  <2>1. Head(buffer) \in Messages /\ Tail(buffer) \in Seq(Messages)
    BY <1>12, HandedOver DEF ConsumeData
  <2>2. handed' \in Seq(Messages)
    BY <1>12, <2>1 DEF ConsumeData, HandOver
  <2> QED
    BY <1>12, <2>1, <2>2 DEF ConsumeData
<1>13. CASE ConsumeTimeout
  BY <1>13 DEF ConsumeTimeout
<1>14. CASE ConsumeError
  BY <1>14 DEF ConsumeError
<1>15. CASE CallbackSettles
  BY <1>15 DEF CallbackSettles, AfterCallback, Answerable
<1>16. CASE CallbackRequeues
  BY <1>16 DEF CallbackRequeues, AfterCallback, Answerable
<1>17. CASE CallbackReturns
  BY <1>17 DEF CallbackReturns, AfterCallback, Answerable
<1>18. CASE Drop
  <2>1. ToSet(buffer) \subseteq Messages
    BY ToSetOfSeq
  <2> QED
    BY <1>18, <2>1 DEF Drop, DestroyClient, Requeue
<1>19. CASE UseAfterFree
  <2>1. ToSet(buffer) \subseteq Messages
    BY ToSetOfSeq
  <2> QED
    BY <1>19, <2>1 DEF UseAfterFree, DestroyClient, Requeue
<1>20. CASE Publish
  BY <1>20, BoundsAssumption DEF Publish, Messages
<1>21. CASE Push
  <2>1. Min(queue) \in queue
    BY <1>21, FirstOfQueue DEF Push, Messages
  <2>2. buffer' \in Seq(Messages)
    BY <1>21, <2>1, ToSetOfAppend DEF Push, DeliverFirst
  <2> QED
    BY <1>21, <2>1, <2>2 DEF Push, DeliverFirst
<1>22. CASE Lose
  BY <1>22, BoundsAssumption DEF Lose, Fail, Requeue
<1> QED
  BY <1>1, <1>2, <1>3, <1>4, <1>5, <1>6, <1>7, <1>8, <1>9, <1>10, <1>11, <1>12, <1>13, <1>14, <1>15, <1>16, <1>17, <1>18, <1>19, <1>20, <1>21, <1>22 DEF Next, Thread

(* The block that runs.                                                    *)
LEMMA BlocksKept == Core /\ Next => Blocks'
<1> SUFFICES ASSUME Core, Next PROVE Blocks'
  OBVIOUS
<1> USE DEF Core, TypeOK, Blocks, Places, ThreadType, flags, broker, history
<1>1. CASE BeginRecieve
  BY <1>1 DEF BeginRecieve
<1>2. CASE Destruct
  BY <1>2 DEF Destruct
<1>3. CASE DestructDone
  BY <1>3 DEF DestructDone
<1>4. CASE MarkRunning
  BY <1>4 DEF MarkRunning
<1>5. CASE MarkNotEnded
  BY <1>5 DEF MarkNotEnded
<1>6. CASE LoopTop
  BY <1>6 DEF LoopTop, BlockOf
<1>7. CASE Connect
  BY <1>7 DEF Connect, Fail
<1>8. CASE Bind
  BY <1>8 DEF Bind
<1>9. CASE BindFails
  BY <1>9 DEF BindFails, DestroyClient, Requeue
<1>10. CASE Poll
  BY <1>10 DEF Poll
<1>11. CASE Leave
  BY <1>11 DEF Leave, DestroyClient, Requeue
<1>12. CASE ConsumeData
  BY <1>12 DEF ConsumeData, HandOver
<1>13. CASE ConsumeTimeout
  BY <1>13 DEF ConsumeTimeout
<1>14. CASE ConsumeError
  BY <1>14 DEF ConsumeError
<1>15. CASE CallbackSettles
  BY <1>15 DEF CallbackSettles, AfterCallback, Answerable
<1>16. CASE CallbackRequeues
  BY <1>16 DEF CallbackRequeues, AfterCallback, Answerable
<1>17. CASE CallbackReturns
  BY <1>17 DEF CallbackReturns, AfterCallback, Answerable
<1>18. CASE Drop
  BY <1>18 DEF Drop, DestroyClient, Requeue
<1>19. CASE UseAfterFree
  BY <1>19 DEF UseAfterFree, DestroyClient, Requeue
<1>20. CASE Publish
  BY <1>20 DEF Publish
<1>21. CASE Push
  BY <1>21 DEF Push, DeliverFirst
<1>22. CASE Lose
  BY <1>22 DEF Lose, Fail, Requeue
<1> QED
  BY <1>1, <1>2, <1>3, <1>4, <1>5, <1>6, <1>7, <1>8, <1>9, <1>10, <1>11, <1>12, <1>13, <1>14, <1>15, <1>16, <1>17, <1>18, <1>19, <1>20, <1>21, <1>22 DEF Next, Thread

(* The place of the thread and its connection.                             *)
LEMMA PlacesKept == Core /\ Next => Places'
<1> SUFFICES ASSUME Core, Next PROVE Places'
  OBVIOUS
<1> USE DEF Core, TypeOK, Blocks, Places, ThreadType, ChanType, flags, broker, history
<1>1. CASE BeginRecieve
  BY <1>1 DEF BeginRecieve
<1>2. CASE Destruct
  BY <1>2 DEF Destruct
<1>3. CASE DestructDone
  BY <1>3 DEF DestructDone
<1>4. CASE MarkRunning
  BY <1>4 DEF MarkRunning
<1>5. CASE MarkNotEnded
  BY <1>5 DEF MarkNotEnded
<1>6. CASE LoopTop
  BY <1>6 DEF LoopTop, BlockOf
<1>7. CASE Connect
  BY <1>7 DEF Connect, Fail
<1>8. CASE Bind
  BY <1>8 DEF Bind
<1>9. CASE BindFails
  BY <1>9 DEF BindFails, DestroyClient, Requeue
<1>10. CASE Poll
  BY <1>10 DEF Poll
<1>11. CASE Leave
  BY <1>11 DEF Leave, DestroyClient, Requeue
<1>12. CASE ConsumeData
  <2>1. Head(buffer) \in Messages /\ handed' \in Seq(Messages)
        /\ Head(buffer) \in ToSet(handed')
    <3>1. Head(buffer) \in Messages
      BY <1>12, HandedOver DEF ConsumeData
    <3> QED
      BY <1>12, <3>1, ToSetOfAppend DEF ConsumeData, HandOver
  <2>2. chan' \in {"consuming", "lost"} /\ current' = Head(buffer) /\ th' = "callback"
    BY <1>12 DEF ConsumeData
  <2> QED
    BY <1>12, <2>1, <2>2 DEF ConsumeData
<1>13. CASE ConsumeTimeout
  BY <1>13 DEF ConsumeTimeout
<1>14. CASE ConsumeError
  BY <1>14 DEF ConsumeError
<1>15. CASE CallbackSettles
  BY <1>15 DEF CallbackSettles, AfterCallback, Answerable
<1>16. CASE CallbackRequeues
  BY <1>16 DEF CallbackRequeues, AfterCallback, Answerable
<1>17. CASE CallbackReturns
  BY <1>17 DEF CallbackReturns, AfterCallback, Answerable
<1>18. CASE Drop
  BY <1>18 DEF Drop, DestroyClient, Requeue
<1>19. CASE UseAfterFree
  BY <1>19 DEF UseAfterFree, DestroyClient, Requeue
<1>20. CASE Publish
  BY <1>20 DEF Publish
<1>21. CASE Push
  BY <1>21 DEF Push, DeliverFirst
<1>22. CASE Lose
  BY <1>22 DEF Lose, Fail, Requeue
<1> QED
  BY <1>1, <1>2, <1>3, <1>4, <1>5, <1>6, <1>7, <1>8, <1>9, <1>10, <1>11, <1>12, <1>13, <1>14, <1>15, <1>16, <1>17, <1>18, <1>19, <1>20, <1>21, <1>22 DEF Next, Thread

(* Without acknowledgements the end of a connection drops what is in its   *)
(* buffer; with them everything is in the queue again.                     *)
LEMMA DestroyKeepsUnanswered ==
    ASSUME Core, DestroyClient, UNCHANGED <<m_nMQMode, published, handed>>
    PROVE  Unanswered'
<1> SUFFICES ASSUME m_nMQMode = 0 PROVE Unanswered'
  BY DEF Unanswered
<1>1. block = "sample" /\ unacked = {} /\ {buffer, handed} \subseteq Seq(Messages)
  BY DEF Core, Blocks, TypeOK
<1>2. /\ queue' = queue /\ dropped' = dropped \cup ToSet(buffer) /\ buffer' = <<>>
      /\ m_nMQMode' = 0 /\ published' = published
  BY <1>1 DEF DestroyClient, Requeue
<1>3. Way' = handed
  BY <1>1, <1>2, ConcatEmptySeq DEF Way
<1>4. ToSet(Way) = ToSet(handed) \cup ToSet(buffer)
  BY <1>1, ToSetOfConcat DEF Way
<1>5. /\ queue \cup ToSet(Way) = (1..published) \ dropped
      /\ dropped \subseteq 1..published
      /\ \A x \in ToSet(Way), m \in queue : x < m
      /\ Increasing(Way)
  BY DEF Core, Unanswered
<1>6. Increasing(handed) /\ ToSet(handed) \cap ToSet(buffer) = {}
  BY <1>1, <1>5, IncreasingPart DEF Way
<1>7. queue \cap ToSet(buffer) = {}
  <2>1. queue \subseteq Int
    BY DEF Core, TypeOK, Messages
  <2>2. ToSet(buffer) \subseteq Messages
    BY <1>1, ToSetOfSeq
  <2> QED
    BY <1>4, <1>5, <2>1, <2>2 DEF Messages
<1>8. queue \cup ToSet(handed) = (1..published) \ dropped' /\ dropped' \subseteq 1..published
  BY <1>2, <1>4, <1>5, <1>6, <1>7
<1>9. \A x \in ToSet(handed), m \in queue : x < m
  BY <1>4, <1>5
<1>10. ToSet(Way)' = ToSet(handed) /\ Increasing(Way)' = Increasing(handed)
  BY <1>3 DEF ToSet, Increasing
<1> QED
  BY <1>2, <1>6, <1>8, <1>9, <1>10 DEF Unanswered

LEMMA DestroyKeepsAcknowledged ==
    ASSUME IInv, DestroyClient, UNCHANGED <<m_nMQMode, published, handed, settled>>,
           th' \notin {"poll", "consume"}
    PROVE  Acknowledged'
BY DEF IInv, Core, Acknowledged, DestroyClient, Requeue, Unsettled, IsFirst, ToSet, Increasing

(* Mode 0.                                                                 *)
LEMMA UnansweredKept == Core /\ Next => Unanswered'
<1> SUFFICES ASSUME Core, Next PROVE Unanswered'
  OBVIOUS
<1> USE DEF Core, TypeOK, flags, broker, history
<1>1. CASE BeginRecieve
  BY <1>1 DEF BeginRecieve, Blocks, Unanswered, Way, ToSet, Increasing
<1>2. CASE Destruct
  BY <1>2 DEF Destruct, Unanswered, Way, ToSet, Increasing
<1>3. CASE DestructDone
  BY <1>3 DEF DestructDone, Unanswered, Way, ToSet, Increasing
<1>4. CASE MarkRunning
  BY <1>4 DEF MarkRunning, Unanswered, Way, ToSet, Increasing
<1>5. CASE MarkNotEnded
  BY <1>5 DEF MarkNotEnded, Unanswered, Way, ToSet, Increasing
<1>6. CASE LoopTop
  BY <1>6 DEF LoopTop, BlockOf, Unanswered, Way, ToSet, Increasing
<1>7. CASE Connect
  BY <1>7 DEF Connect, Fail, Unanswered, Way, ToSet, Increasing
<1>8. CASE Bind
  BY <1>8 DEF Bind, Unanswered, Way, ToSet, Increasing
<1>9. CASE BindFails
  BY <1>9, DestroyKeepsUnanswered DEF BindFails
<1>10. CASE Poll
  BY <1>10 DEF Poll, Unanswered, Way, ToSet, Increasing
<1>11. CASE Leave
  BY <1>11, DestroyKeepsUnanswered DEF Leave
<1>12. CASE ConsumeData
  <2>1. CASE m_nMQMode = 0
    <3>1. handed' = Append(handed, Head(buffer)) /\ buffer' = Tail(buffer) /\ buffer # <<>>
      BY <1>12, <2>1 DEF ConsumeData, HandOver, Blocks
    <3>2. Way' = Way
      BY <3>1, HandedOver DEF TypeOK, Way
    <3> QED
      BY <1>12, <3>2 DEF ConsumeData, Unanswered, ToSet, Increasing
  <2>2. CASE m_nMQMode # 0
    BY <1>12, <2>2 DEF ConsumeData, Unanswered
  <2> QED
    BY <2>1, <2>2
<1>13. CASE ConsumeTimeout
  BY <1>13 DEF ConsumeTimeout, Unanswered, Way, ToSet, Increasing
<1>14. CASE ConsumeError
  BY <1>14 DEF ConsumeError, Unanswered, Way, ToSet, Increasing
<1>15. CASE CallbackSettles
  BY <1>15 DEF CallbackSettles, AfterCallback, Answerable, Unanswered, Way, ToSet, Increasing
<1>16. CASE CallbackRequeues
  <2>1. m_nMQMode # 0
    BY <1>16 DEF CallbackRequeues, Answerable, Blocks
  <2> QED
    BY <1>16, <2>1 DEF CallbackRequeues, Unanswered
<1>17. CASE CallbackReturns
  BY <1>17 DEF CallbackReturns, AfterCallback, Answerable, Unanswered, Way, ToSet, Increasing
<1>18. CASE Drop
  BY <1>18, DestroyKeepsUnanswered DEF Drop
<1>19. CASE UseAfterFree
  BY <1>19, DestroyKeepsUnanswered DEF UseAfterFree
<1>20. CASE Publish
  <2>1. published \in Nat /\ published' = published + 1 /\ queue' = queue \cup {published'}
    BY <1>20 DEF Publish, TypeOK
  <2>2. Way' = Way /\ m_nMQMode' = m_nMQMode /\ dropped' = dropped
    BY <1>20 DEF Publish, Way
  <2>3. SUFFICES ASSUME m_nMQMode = 0 PROVE Unanswered'
    BY <2>2 DEF Unanswered
  <2>4. /\ queue \cup ToSet(Way) = (1..published) \ dropped
        /\ dropped \subseteq 1..published
        /\ \A x \in ToSet(Way), m \in queue : x < m
        /\ Increasing(Way)
    BY <2>3 DEF Unanswered
  <2>5. dropped \subseteq 1..published
    BY <2>3 DEF Unanswered
  <2>6. /\ queue' \cup ToSet(Way) = (1..published') \ dropped'
        /\ dropped' \subseteq 1..published'
        /\ \A x \in ToSet(Way), m \in queue' : x < m
    BY <2>1, <2>2, <2>4, <2>5
  <2>7. ToSet(Way)' = ToSet(Way) /\ Increasing(Way)' = Increasing(Way)
    BY <2>2 DEF ToSet, Increasing
  <2> QED
    BY <2>2, <2>4, <2>6, <2>7 DEF Unanswered
<1>21. CASE Push
  <2> DEFINE first == Min(queue)
  <2>1. first \in queue /\ (\A m \in queue : first <= m) /\ queue \subseteq Messages
    BY <1>21, FirstOfQueue DEF Push, TypeOK, Messages
  <2> HIDE DEF first
  <2>2. /\ queue' = queue \ {first} /\ buffer' = Append(buffer, first)
        /\ UNCHANGED <<m_nMQMode, published, handed, dropped>>
    BY <1>21 DEF Push, DeliverFirst, first
  <2>3. SUFFICES ASSUME m_nMQMode = 0 PROVE Unanswered'
    BY <2>2 DEF Unanswered
  <2>4. /\ queue \cup ToSet(Way) = (1..published) \ dropped
        /\ dropped \subseteq 1..published
        /\ \A x \in ToSet(Way), m \in queue : x < m
        /\ Increasing(Way)
    BY <2>3 DEF Unanswered
  <2>5. Way \in Seq(Messages) /\ Way' = Append(Way, first)
    BY <2>1, <2>2, ToSetOfConcat, ConcatOfAppend DEF TypeOK, Way
  <2>6. ToSet(Way)' = ToSet(Way) \cup {first}
    <3>1. ToSet(Append(Way, first)) = ToSet(Way) \cup {first}
      BY <2>1, <2>5, ToSetOfAppend
    <3> QED
      BY <2>5, <3>1 DEF ToSet
  <2>7. Increasing(Way)'
    <3>1. Increasing(Append(Way, first))
      BY <2>1, <2>4, <2>5, IncreasingByOne
    <3> QED
      BY <2>5, <3>1 DEF Increasing
  <2>8. queue' \cup ToSet(Way)' = (1..published) \ dropped
    BY <2>1, <2>2, <2>4, <2>6
  <2>9. \A x \in ToSet(Way)', m \in queue' : x < m
    <3> SUFFICES ASSUME NEW x \in ToSet(Way) \cup {first}, NEW m \in queue, m # first
                 PROVE  x < m
      BY <2>2, <2>6
    <3>1. m \in Int /\ first \in Int /\ first <= m
      BY <2>1 DEF Messages
    <3> QED
      BY <2>4, <3>1
  <2> QED
    BY <2>2, <2>7, <2>8, <2>9 DEF Unanswered
<1>22. CASE Lose
  <2>1. m_nMQMode = 0 => unacked = {}
    BY DEF Blocks
  <2> QED
    BY <1>22, <2>1 DEF Lose, Requeue, Unanswered, Way, ToSet, Increasing
<1> QED
  BY <1>1, <1>2, <1>3, <1>4, <1>5, <1>6, <1>7, <1>8, <1>9, <1>10, <1>11, <1>12, <1>13, <1>14, <1>15, <1>16, <1>17, <1>18, <1>19, <1>20, <1>21, <1>22 DEF Next, Thread

(* Modes 1 and 2.                                                          *)
LEMMA AcknowledgedKept == IInv /\ Next => Acknowledged'
<1> SUFFICES ASSUME IInv, Next PROVE Acknowledged'
  OBVIOUS
<1> USE DEF IInv, Core, flags, broker, history
<1>1. CASE BeginRecieve
  <2>1. /\ m_nMQMode = 0 /\ handed = <<>> /\ dropped = {} /\ settled = {} /\ unacked = {}
        /\ buffer = <<>>
    BY <1>1 DEF BeginRecieve, Blocks, Fresh, Places
  <2>2. /\ UNCHANGED <<handed, settled, unacked, queue, published, buffer>>
        /\ th' = "started"
    BY <1>1 DEF BeginRecieve
  <2>3. ToSet(handed) = {} /\ ToSet(Way) = {} /\ Increasing(handed)
    BY <2>1 DEF Way, ToSet, Increasing
  <2>4. queue = 1..published
    BY <2>1, <2>3 DEF Unanswered
  <2>5. ToSet(handed)' = {} /\ Increasing(handed)'
    BY <2>2, <2>3 DEF ToSet, Increasing
  <2> QED
    BY <2>1, <2>2, <2>4, <2>5 DEF Acknowledged, Unsettled
<1>2. CASE Destruct
  BY <1>2 DEF Destruct, Acknowledged, Unsettled, IsFirst, ToSet, Increasing
<1>3. CASE DestructDone
  BY <1>3 DEF DestructDone, Acknowledged, Unsettled, IsFirst, ToSet, Increasing
<1>4. CASE MarkRunning
  BY <1>4 DEF MarkRunning, Acknowledged, Unsettled, IsFirst, ToSet, Increasing
<1>5. CASE MarkNotEnded
  BY <1>5 DEF MarkNotEnded, Acknowledged, Unsettled, IsFirst, ToSet, Increasing
<1>6. CASE LoopTop
  BY <1>6 DEF LoopTop, BlockOf, Acknowledged, Unsettled, IsFirst, ToSet, Increasing
<1>7. CASE Connect
  BY <1>7 DEF Connect, Fail, Acknowledged, Unsettled, IsFirst, ToSet, Increasing
<1>8. CASE Bind
  <2>1. /\ chan = "open" /\ buffer = <<>> /\ unacked = {} /\ ToSet(buffer) = {}
    BY <1>8 DEF Bind, Places, ToSet
  <2> QED
    BY <1>8, <2>1 DEF Bind, Acknowledged, Unsettled, IsFirst, ToSet, Increasing
<1>9. CASE BindFails
  BY <1>9, DestroyKeepsAcknowledged DEF BindFails, ThreadType
<1>10. CASE Poll
  BY <1>10 DEF Poll, Acknowledged, Unsettled, IsFirst, ToSet, Increasing
<1>11. CASE Leave
  BY <1>11, DestroyKeepsAcknowledged DEF Leave, ThreadType
<1>12. CASE ConsumeData
  <2> DEFINE m == Head(buffer)
  <2>1. m \in Messages /\ th = "consume" /\ buffer # <<>>
    BY <1>12, HandedOver DEF ConsumeData, TypeOK
  <2> HIDE DEF m
  <2>2. /\ th' = "callback" /\ HandOver(m)
        /\ UNCHANGED <<m_nMQMode, chan, queue, unacked, published, settled>>
    BY <1>12 DEF ConsumeData, HandOver, m
  <2>3. SUFFICES ASSUME m_nMQMode # 0 PROVE Acknowledged'
    BY <2>2 DEF Acknowledged
  <2>4. /\ queue \cup unacked = Unsettled /\ queue \cap unacked = {}
        /\ settled \subseteq ToSet(handed) /\ settled \subseteq 1..published
        /\ \A x \in settled, u \in Unsettled : x < u
        /\ \A h \in ToSet(handed) : h \in settled \/ IsFirst(h)
        /\ Increasing(handed)
    BY <2>3 DEF Acknowledged
  <2>5. /\ th \in {"poll", "consume"} /\ chan = "consuming" => unacked = ToSet(buffer)
        /\ th \in {"poll", "consume"} /\ buffer # <<>> => IsFirst(Head(buffer))
    BY <2>3 DEF Acknowledged
  <2>6. IsFirst(m)
    BY <2>1, <2>5 DEF m
  <2>7. Unsettled' = Unsettled /\ (\A k : IsFirst(k)' <=> IsFirst(k))
    BY <2>2 DEF Unsettled, IsFirst
  <2>8. CASE handed' = handed
    <3>1. ToSet(handed)' = ToSet(handed) /\ Increasing(handed)' = Increasing(handed)
      BY <2>8 DEF ToSet, Increasing
    <3> QED
      BY <2>2, <2>4, <2>7, <3>1 DEF Acknowledged
  <2>9. CASE m \notin ToSet(handed) /\ handed' = Append(handed, m)
    <3>1. \A h \in ToSet(handed) : h < m
      <4> SUFFICES ASSUME NEW h \in ToSet(handed) PROVE h < m
        OBVIOUS
      <4>1. CASE h \in settled
        BY <2>4, <2>6, <4>1 DEF IsFirst
      <4>2. CASE IsFirst(h)
        <5>1. h <= m /\ m <= h /\ h \in Int /\ m \in Int
          BY <2>6, <4>2 DEF IsFirst, Unsettled, TypeOK
        <5>2. h = m
          BY <5>1
        <5> QED
          BY <2>9, <5>2
      <4> QED
        BY <2>4, <4>1, <4>2
    <3>2. Increasing(Append(handed, m)) /\ ToSet(Append(handed, m)) = ToSet(handed) \cup {m}
      BY <2>1, <2>4, <3>1, IncreasingByOne, ToSetOfAppend DEF TypeOK
    <3>3. Increasing(handed)' /\ ToSet(handed)' = ToSet(handed) \cup {m}
      BY <2>9, <3>2 DEF Increasing, ToSet
    <3> QED
      BY <2>2, <2>4, <2>6, <2>7, <3>3 DEF Acknowledged
  <2> QED
    BY <2>1, <2>2, <2>3, <2>8, <2>9 DEF HandOver, Blocks
<1>13. CASE ConsumeTimeout
  BY <1>13 DEF ConsumeTimeout, Acknowledged, Unsettled, IsFirst, ToSet, Increasing
<1>14. CASE ConsumeError
  <2>1. /\ th' = "callback"
        /\ UNCHANGED <<m_nMQMode, chan, buffer, queue, unacked, settled, published, handed>>
    BY <1>14 DEF ConsumeError
  <2> QED
    BY <2>1 DEF Acknowledged, Unsettled, IsFirst, ToSet, Increasing
<1>15. CASE CallbackSettles
  <2>1. current \in unacked /\ th = "callback"
    BY <1>15 DEF CallbackSettles, Answerable
  <2>2. /\ unacked' = unacked \ {current} /\ settled' = settled \cup {current}
        /\ th' = AfterCallback
        /\ UNCHANGED <<m_nMQMode, chan, buffer, queue, published, handed>>
    BY <1>15 DEF CallbackSettles
  <2>3. SUFFICES ASSUME m_nMQMode # 0 PROVE Acknowledged'
    BY <2>2 DEF Acknowledged
  <2>4. /\ queue \cup unacked = Unsettled /\ queue \cap unacked = {}
        /\ settled \subseteq ToSet(handed) /\ settled \subseteq 1..published
        /\ \A x \in settled, u \in Unsettled : x < u
        /\ \A h \in ToSet(handed) : h \in settled \/ IsFirst(h)
        /\ Increasing(handed)
    BY <2>3 DEF Acknowledged
  <2>5. /\ th \in {"poll", "consume"} /\ chan = "consuming" => unacked = ToSet(buffer)
        /\ th \in {"poll", "consume"} /\ buffer # <<>> => IsFirst(Head(buffer))
    BY <2>3 DEF Acknowledged
  <2>6. th' = "drop"
    BY <2>1, <2>2, <2>3 DEF AfterCallback, Blocks
  <2>7. IsFirst(current) /\ current \in ToSet(handed)
    <3>1. current \in Unsettled
      BY <2>1, <2>4
    <3>2. current # Error
      BY <3>1 DEF Unsettled, Error
    <3> QED
      BY <2>1, <2>4, <3>1, <3>2 DEF Places, Unsettled
  <2>8. Unsettled' = Unsettled \ {current}
    BY <2>2 DEF Unsettled
  <2>9. \A x \in settled', u \in Unsettled' : x < u
    <3> SUFFICES ASSUME NEW u \in Unsettled, u # current PROVE current < u
      BY <2>2, <2>4, <2>8
    <3>1. current <= u /\ current \in Int /\ u \in Int
      BY <2>7 DEF IsFirst, Unsettled
    <3> QED
      BY <3>1
  <2>10. \A h \in ToSet(handed) : h \in settled'
    <3> SUFFICES ASSUME NEW h \in ToSet(handed), IsFirst(h) PROVE h = current
      BY <2>2, <2>4
    <3>1. h <= current /\ current <= h /\ h \in Int /\ current \in Int
      BY <2>7 DEF IsFirst, Unsettled
    <3> QED
      BY <3>1
  <2>11. ToSet(handed)' = ToSet(handed) /\ Increasing(handed)' = Increasing(handed)
    BY <2>2 DEF ToSet, Increasing
  <2>12. queue' \cup unacked' = Unsettled' /\ queue' \cap unacked' = {}
    BY <2>1, <2>2, <2>4, <2>8
  <2>13. settled' \subseteq ToSet(handed) /\ settled' \subseteq 1..published
    BY <2>2, <2>4, <2>7 DEF IsFirst, Unsettled
  <2> QED
    BY <2>2, <2>4, <2>6, <2>9, <2>10, <2>11, <2>12, <2>13 DEF Acknowledged
<1>16. CASE CallbackRequeues
  <2>1. current \in unacked /\ th = "callback"
    BY <1>16 DEF CallbackRequeues, Answerable
  <2>2. /\ unacked' = unacked \ {current} /\ queue' = queue \cup {current}
        /\ th' = AfterCallback
        /\ UNCHANGED <<m_nMQMode, chan, buffer, settled, published, handed>>
    BY <1>16 DEF CallbackRequeues
  <2>3. CASE m_nMQMode = 0
    BY <2>2, <2>3 DEF Acknowledged
  <2>4. CASE m_nMQMode # 0
    <3>1. th' \in {"drop"}
      BY <2>1, <2>2, <2>4 DEF AfterCallback, Blocks
    <3> QED
      BY <2>1, <2>2, <3>1 DEF Acknowledged, Unsettled, IsFirst, ToSet, Increasing
  <2> QED
    BY <2>3, <2>4
<1>17. CASE CallbackReturns
  <2>1. th = "callback" /\ th' = AfterCallback
        /\ UNCHANGED <<m_nMQMode, chan, buffer, queue, unacked, settled, published, handed>>
    BY <1>17 DEF CallbackReturns
  <2>2. m_nMQMode # 0 => th' = "drop"
    BY <2>1 DEF AfterCallback, Blocks
  <2> QED
    BY <2>1, <2>2 DEF Acknowledged, Unsettled, IsFirst, ToSet, Increasing
<1>18. CASE Drop
  BY <1>18, DestroyKeepsAcknowledged DEF Drop, ThreadType
<1>19. CASE UseAfterFree
  BY <1>19, DestroyKeepsAcknowledged DEF UseAfterFree, ThreadType
<1>20. CASE Publish
  <2>1. published \in Nat /\ published' = published + 1 /\ queue' = queue \cup {published'}
    BY <1>20 DEF Publish, TypeOK
  <2>2. UNCHANGED <<m_nMQMode, th, chan, buffer, unacked, handed, settled>>
    BY <1>20 DEF Publish
  <2>3. SUFFICES ASSUME m_nMQMode # 0 PROVE Acknowledged'
    BY <2>2 DEF Acknowledged
  <2>4. /\ queue \cup unacked = Unsettled /\ queue \cap unacked = {}
        /\ settled \subseteq ToSet(handed) /\ settled \subseteq 1..published
        /\ \A x \in settled, u \in Unsettled : x < u
        /\ \A h \in ToSet(handed) : h \in settled \/ IsFirst(h)
        /\ Increasing(handed)
    BY <2>3 DEF Acknowledged
  <2>5. /\ th \in {"poll", "consume"} /\ chan = "consuming" => unacked = ToSet(buffer)
        /\ th \in {"poll", "consume"} /\ buffer # <<>> => IsFirst(Head(buffer))
    BY <2>3 DEF Acknowledged
  <2>6. Unsettled' = Unsettled \cup {published'} /\ Unsettled \subseteq 1..published
    BY <2>1, <2>2, <2>4 DEF Unsettled
  <2>7. \A m : IsFirst(m) => IsFirst(m)'
    BY <2>1, <2>6 DEF IsFirst
  <2>8. ToSet(handed)' = ToSet(handed) /\ Increasing(handed)' = Increasing(handed)
        /\ ToSet(buffer)' = ToSet(buffer)
    BY <2>2 DEF ToSet, Increasing
  <2>9. queue' \cup unacked' = Unsettled' /\ queue' \cap unacked' = {}
    BY <2>1, <2>2, <2>4, <2>6
  <2>10. /\ settled' \subseteq 1..published'
         /\ \A x \in settled', u \in Unsettled' : x < u
    BY <2>1, <2>2, <2>4, <2>6
  <2> QED
    BY <2>2, <2>4, <2>5, <2>7, <2>8, <2>9, <2>10 DEF Acknowledged
<1>21. CASE Push
  <2> DEFINE first == Min(queue)
  <2>1. first \in queue /\ (\A m \in queue : first <= m) /\ queue \subseteq Messages
    BY <1>21, FirstOfQueue DEF Push, TypeOK, Messages
  <2> HIDE DEF first
  <2>2. /\ queue' = queue \ {first} /\ buffer' = Append(buffer, first)
        /\ unacked' = IF block = "sample" THEN {} ELSE unacked \cup {first}
        /\ chan = "consuming"
        /\ UNCHANGED <<m_nMQMode, th, chan, published, handed, settled>>
    BY <1>21 DEF Push, DeliverFirst, first
  <2>3. SUFFICES ASSUME m_nMQMode # 0 PROVE Acknowledged'
    BY <2>2 DEF Acknowledged
  <2>4. /\ queue \cup unacked = Unsettled /\ queue \cap unacked = {}
        /\ settled \subseteq ToSet(handed) /\ settled \subseteq 1..published
        /\ \A x \in settled, u \in Unsettled : x < u
        /\ \A h \in ToSet(handed) : h \in settled \/ IsFirst(h)
        /\ Increasing(handed)
    BY <2>3 DEF Acknowledged
  <2>5. /\ th \in {"poll", "consume"} /\ chan = "consuming" => unacked = ToSet(buffer)
        /\ th \in {"poll", "consume"} /\ buffer # <<>> => IsFirst(Head(buffer))
    BY <2>3 DEF Acknowledged
  <2>6. unacked' = unacked \cup {first}
    BY <2>2, <2>3 DEF Blocks, Places
  <2>7. /\ Unsettled' = Unsettled /\ (\A m : IsFirst(m)' <=> IsFirst(m))
        /\ ToSet(handed)' = ToSet(handed) /\ Increasing(handed)' = Increasing(handed)
    BY <2>2 DEF Unsettled, IsFirst, ToSet, Increasing
  <2>8. /\ ToSet(Append(buffer, first)) = ToSet(buffer) \cup {first}
        /\ buffer # <<>> => Head(Append(buffer, first)) = Head(buffer)
        /\ buffer = <<>> => Head(Append(buffer, first)) = first
        /\ buffer = <<>> => ToSet(buffer) = {}
    BY <2>1, ToSetOfAppend, ToSetOfSeq DEF TypeOK
  <2>9. ToSet(buffer)' = ToSet(buffer) \cup {first}
    BY <2>2, <2>8 DEF ToSet
  <2>10. th \in {"poll", "consume"} => IsFirst(Head(Append(buffer, first)))
    <3>1. CASE buffer # <<>>
      BY <2>5, <2>8, <3>1
    <3>2. CASE buffer = <<>>
      BY <2>1, <2>2, <2>4, <2>5, <2>8, <3>2 DEF IsFirst
    <3> QED
      BY <3>1, <3>2
  <2>11. queue' \cup unacked' = Unsettled' /\ queue' \cap unacked' = {}
    BY <2>1, <2>2, <2>4, <2>6, <2>7
  <2> QED
    BY <2>2, <2>4, <2>5, <2>6, <2>7, <2>9, <2>10, <2>11 DEF Acknowledged
<1>22. CASE Lose
  BY <1>22 DEF Lose, Requeue, Acknowledged, Unsettled, IsFirst, ToSet, Increasing
<1> QED
  BY <1>1, <1>2, <1>3, <1>4, <1>5, <1>6, <1>7, <1>8, <1>9, <1>10, <1>11, <1>12, <1>13, <1>14, <1>15, <1>16, <1>17, <1>18, <1>19, <1>20, <1>21, <1>22 DEF Next, Thread

LEMMA InitIInv == Init => IInv
<1> SUFFICES ASSUME Init PROVE IInv
  OBVIOUS
<1> USE DEF Init
<1>1. TypeOK
  <2>1. {m_bEndThread, m_bIsEnd, raced} \subseteq BOOLEAN
    OBVIOUS
  <2>2. published \in 0..MaxMessages /\ faults \in 0..MaxFaults
    BY BoundsAssumption
  <2>3. {buffer, handed} \subseteq Seq(Messages)
    OBVIOUS
  <2>4. queue \cup unacked \cup settled \cup dropped = {}
    OBVIOUS
  <2> QED
    BY <2>1, <2>2, <2>3, <2>4 DEF TypeOK, ThreadType, ChanType, None
<1>2. Places /\ Blocks /\ Fresh /\ Flags
  BY DEF Places, Blocks, Fresh, Flags
<1>3. Way = <<>>
  <2>1. <<>> \in Seq(Messages)
    OBVIOUS
  <2> QED
    BY <2>1, ConcatEmptySeq DEF Way
<1>4. Unanswered
  BY <1>3 DEF Unanswered, ToSet, Increasing
<1> QED
  BY <1>1, <1>2, <1>4 DEF IInv, Core, Acknowledged

LEMMA NextKeepsIInv == IInv /\ [Next]_vars => IInv'
<1>1. ASSUME IInv, UNCHANGED vars PROVE IInv'
  <2> USE <1>1 DEF vars, IInv, Core
  <2>1. TypeOK' /\ Places' /\ Blocks' /\ Fresh'
    BY DEF TypeOK, Places, Blocks, Fresh, ToSet
  <2>2. Flags' /\ Unanswered'
    BY DEF Flags, Ended, Unanswered, Way, ToSet, Increasing
  <2>3. Acknowledged'
    BY DEF Acknowledged, Unsettled, IsFirst, ToSet, Increasing
  <2> QED
    BY <2>1, <2>2, <2>3
<1> QED
  BY <1>1, TypesKept, PlacesKept, BlocksKept, FreshKept, FlagsKept, UnansweredKept, AcknowledgedKept
     DEF IInv, Core

LEMMA Invariance == Safe => []IInv
BY InitIInv, NextKeepsIInv, PTL DEF Safe

-----------------------------------------------------------------------------
(* The type invariant and the prefetch of one, for any number of messages  *)
(* and faults, any set of modes and any callback.                          *)
THEOREM TypeCorrect == Safe => []TypeOK
<1>1. IInv => TypeOK
  BY DEF IInv, Core
<1> QED
  BY <1>1, Invariance, PTL

(* With acknowledgements the broker has every message until it is settled. *)
THEOREM DeliveredAtLeastOnce == Safe => []AtLeastOnce
<1>1. IInv => AtLeastOnce
  BY DEF IInv, Acknowledged, AtLeastOnce, Unsettled
<1> QED
  BY <1>1, Invariance, PTL

(* Without them no message is in two places, and none is nowhere.          *)
THEOREM DeliveredAtMostOnce == Safe => []AtMostOnce
<1>1. ASSUME IInv PROVE AtMostOnce
  <2> SUFFICES ASSUME m_nMQMode = 0
               PROVE  /\ queue \cup ToSet(Way) = (1..published) \ dropped
                      /\ queue \cap ToSet(Way) = {}
                      /\ IsInjective(Way)
    BY DEF AtMostOnce, Way
  <2>1. /\ queue \cup ToSet(Way) = (1..published) \ dropped
        /\ \A x \in ToSet(Way), m \in queue : x < m
        /\ Increasing(Way)
    BY <1>1 DEF IInv, Core, Unanswered
  <2>2. queue \cap ToSet(Way) = {}
    <3> SUFFICES ASSUME NEW m \in queue, m \in ToSet(Way) PROVE FALSE
      OBVIOUS
    <3>1. m \in Int /\ m < m
      BY <2>1
    <3> QED
      BY <3>1
  <2>3. {buffer, handed} \subseteq Seq(Messages)
    BY <1>1 DEF IInv, Core, TypeOK
  <2>4. IsInjective(Way)
    BY <2>1, <2>3, IncreasingPart DEF Way
  <2> QED
    BY <2>1, <2>2, <2>4
<1> QED
  BY <1>1, Invariance, PTL

(* The callback first sees messages in the order they were published.      *)
THEOREM SeenInOrder == Safe => []InOrder
<1>1. ASSUME IInv PROVE InOrder
  <2>1. {buffer, handed} \subseteq Seq(Messages)
    BY <1>1 DEF IInv, Core, TypeOK
  <2>2. CASE m_nMQMode = 0
    BY <1>1, <2>1, <2>2, IncreasingPart DEF IInv, Core, Unanswered, Way, InOrder
  <2>3. CASE m_nMQMode # 0
    BY <1>1, <2>3 DEF IInv, Acknowledged, InOrder
  <2> QED
    BY <2>2, <2>3
<1> QED
  BY <1>1, Invariance, PTL

(* A message that is not settled holds up all the others.                  *)
THEOREM QueueMovesBySettling == Safe => []HeadOfLine
<1>1. ASSUME IInv PROVE HeadOfLine
  <2> SUFFICES ASSUME m_nMQMode # 0, NEW k \in 1..(Len(handed) - 1),
                      handed[k] \notin settled
               PROVE  FALSE
    BY DEF HeadOfLine
  <2>1. /\ settled \subseteq 1..published
        /\ \A x \in settled, u \in Unsettled : x < u
        /\ \A h \in ToSet(handed) : h \in settled \/ IsFirst(h)
        /\ Increasing(handed)
    BY <1>1 DEF IInv, Acknowledged
  <2>2. handed \in Seq(Messages)
    BY <1>1 DEF IInv, Core, TypeOK
  <2> DEFINE l == Len(handed)
  <2>3. /\ k \in DOMAIN handed /\ l \in DOMAIN handed /\ k < l
    BY <2>2
  <2>4. handed[k] \in ToSet(handed) /\ handed[l] \in ToSet(handed)
    BY <2>3 DEF ToSet
  <2>5. handed[k] < handed[l]
    BY <2>1, <2>3 DEF Increasing
  <2>6. IsFirst(handed[k]) /\ handed[k] \in Int
    BY <2>1, <2>4 DEF IsFirst, Unsettled
  <2>7. CASE handed[l] \in settled
    <3>1. handed[k] \in Unsettled
      BY <2>6 DEF IsFirst
    <3>2. handed[l] < handed[k]
      <4> HIDE DEF l
      <4> QED
        BY <2>1, <2>7, <3>1
    <3>3. handed[l] \in Messages
      <4> HIDE DEF l
      <4> QED
        BY <2>2, <2>3
    <3>4. handed[l] \in Int
      BY <3>3 DEF Messages
    <3> HIDE DEF l
    <3> QED
      BY <2>5, <2>6, <3>2, <3>4
  <2>8. CASE IsFirst(handed[l])
    <3>1. handed[l] <= handed[k] /\ handed[l] \in Int
      BY <2>6, <2>8 DEF IsFirst, Unsettled
    <3> QED
      BY <2>5, <2>6, <3>1
  <2> QED
    BY <2>1, <2>4, <2>7, <2>8
<1> QED
  BY <1>1, Invariance, PTL

(* ~CAmqpImply returns when the thread has let go of the object, unless it *)
(* began before the thread had written m_bIsEnd.                           *)
THEOREM TeardownSafe == Safe => []TeardownIsSafe
<1>1. IInv => TeardownIsSafe
  BY DEF IInv, Flags, TeardownIsSafe
<1> QED
  BY <1>1, Invariance, PTL

(* What was acknowledged is not given to the callback again.               *)
THEOREM SettledStaysSettled == Safe => SettledNeverAgain
<1>1. ASSUME IInv, [Next]_vars
      PROVE  [th' = "callback" /\ th # "callback" => current' \notin settled]_vars
  <2> SUFFICES ASSUME Next, th' = "callback", th # "callback" PROVE current' \notin settled
    BY <1>1
  <2>1. ConsumeData \/ ConsumeError
    BY DEF Next, Thread, BeginRecieve, Destruct, DestructDone, MarkRunning, MarkNotEnded,
           LoopTop, Connect, Bind, BindFails, Poll, Leave, ConsumeTimeout, CallbackSettles,
           CallbackRequeues, CallbackReturns, Drop, UseAfterFree, Publish, Push, Lose
  <2>2. CASE ConsumeData
    <3>1. th = "consume" /\ buffer # <<>> /\ current' = Head(buffer)
      BY <2>2 DEF ConsumeData
    <3>2. CASE m_nMQMode = 0
      BY <1>1, <3>2 DEF IInv, Core, Blocks
    <3>3. CASE m_nMQMode # 0
      BY <1>1, <3>1, <3>3 DEF IInv, Acknowledged, IsFirst, Unsettled
    <3> QED
      BY <3>2, <3>3
  <2>3. CASE ConsumeError
    <3>1. settled \subseteq Messages
      BY <1>1 DEF IInv, Core, TypeOK
    <3>2. current' = -1
      BY <2>3 DEF ConsumeError, Error
    <3> QED
      BY <3>1, <3>2 DEF Messages
  <2> QED
    BY <2>1, <2>2, <2>3
<1> QED
  BY <1>1, Invariance, PTL DEF Safe, SettledNeverAgain
=============================================================================
