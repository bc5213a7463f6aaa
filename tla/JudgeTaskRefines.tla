-------------------------- MODULE JudgeTaskRefines --------------------------
(***************************************************************************)
(* JudgeTask implements RequestReply, for every set of requests and number *)
(* of chunks.  The steps between a request and its answer are stutters;    *)
(* that an answer, an end or a death maps to a step of the promise follows *)
(* from the invariant of JudgeTaskProofs.                                  *)
(***************************************************************************)
EXTENDS JudgeTaskProofs

(* The mapped variables that are not variables of JudgeTask.               *)
IsTask == req.form \in Tasks
Held == IF pc \in {"idle", "crashed"} THEN conns + sets ELSE base
AnswerLog ==
    [i \in 1..Len(replies) |-> [n |-> replies[i].n, kind |-> Kind(replies[i].body)]]

Pending == PcType \ {"idle", "crashed", "destroy"}

(* A step of the receiving thread inside a task: nothing a client sees.    *)
Silent ==
    /\ pc \in Pending /\ pc' \in Pending
    /\ UNCHANGED <<request, replies>>

LEMMA SilentStutters == Silent => UNCHANGED Promise!vars
<1>1. Silent => UNCHANGED <<Phase, IsTask, served, Held>>
  BY DEF Silent, Pending, PcType, Phase, IsTask, Held, request
<1>2. Silent => UNCHANGED AnswerLog
  BY DEF Silent, AnswerLog, Kind
<1>. QED
  BY <1>1, <1>2, Zenon DEF Promise!vars, IsTask, Held, AnswerLog

(* A crash before the answer is a death while the request is pending.      *)
LEMMA CrashDies == TypeOK /\ pc \in Pending /\ Crash => Promise!Die
<1> SUFFICES ASSUME TypeOK, pc \in Pending, Crash PROVE Promise!Die
  OBVIOUS
<1>1. Phase = "pending" /\ Phase' = "down"
  BY DEF Crash, Phase, Pending, PcType
<1>2. Held' = 0 /\ UNCHANGED <<IsTask, served>>
  BY DEF Crash, Held, IsTask, request
<1>3. UNCHANGED AnswerLog
  BY DEF Crash, AnswerLog, Kind
<1>. QED
  BY <1>1, <1>2, <1>3, Zenon DEF Promise!Die, IsTask, Held, AnswerLog

LEMMA ReceiveAsks ==
  ASSUME TypeOK, NEW r \in Requests, Receive(r) PROVE Promise!Ask
<1>1. Phase = "idle" /\ Phase' = "pending"
  BY DEF Receive, Phase
<1>2. UNCHANGED Held /\ served' = served + 1
  BY DEF TypeOK, Receive, Held
<1>3. UNCHANGED AnswerLog
  BY DEF Receive, AnswerLog, Kind
<1>4. IsTask' \in BOOLEAN
  BY DEF IsTask
<1>. QED
  BY <1>1, <1>2, <1>3, <1>4, Zenon DEF Promise!Ask, IsTask, Held, AnswerLog

LEMMA IgnoreIgnores == TypeOK /\ Books /\ IgnoreRequest => Promise!Ignore
<1> SUFFICES ASSUME TypeOK, Books, IgnoreRequest PROVE Promise!Ignore
  OBVIOUS
<1>1. Phase = "pending" /\ Phase' = "idle"
  BY DEF IgnoreRequest, Phase
<1>2. ~IsTask /\ UNCHANGED <<IsTask, served>>
  BY DEF IgnoreRequest, IsTask, Tasks, ListTasks, request
<1>3. UNCHANGED Held
  BY DEF TypeOK, Books, Owned, IgnoreRequest, Held, request, database
<1>4. UNCHANGED AnswerLog
  BY DEF IgnoreRequest, AnswerLog, Kind
<1>. QED
  BY <1>1, <1>2, <1>3, <1>4, Zenon DEF Promise!Ignore, IsTask, Held, AnswerLog

(* The text that is sent: a report only if the request is a task.          *)
LEMMA SendAnswers ==
  TypeOK /\ Story /\ SendJson => \E kind \in {"report", "error"} : Promise!Answer(kind)
<1> SUFFICES ASSUME TypeOK, Story, SendJson
    PROVE \E kind \in {"report", "error"} : Promise!Answer(kind)
  OBVIOUS
<1>1. PICK kind \in {"report", "error"} : kind = Kind(json)
  BY DEF Kind
<1>2. Phase = "pending" /\ Phase' = "answered"
  BY DEF SendJson, Phase
<1>3. kind = "report" => IsTask
  BY <1>1 DEF SendJson, Story, Decided, Ending, Kind, IsTask
<1>4. UNCHANGED <<IsTask, served, Held>>
  BY DEF SendJson, IsTask, Held, request
<1>5. PICK arrived \in BOOLEAN :
        replies' = Append(replies, [n |-> served, body |-> json, arrived |-> arrived])
  BY DEF SendJson
<1>6. AnswerLog' = Append(AnswerLog, [n |-> served, kind |-> kind])
  BY <1>1, <1>5 DEF TypeOK, Reply, AnswerLog, Kind
<1>7. Promise!Answer(kind)
  BY <1>2, <1>3, <1>4, <1>6, Zenon DEF Promise!Answer, IsTask, Held, AnswerLog
<1>. QED
  BY <1>7

(* The end of a task: what it left behind is one object at most, and the   *)
(* last answer of the log is its own.                                      *)
LEMMA DestroyFinishes ==
  IInv /\ IInv' /\ Destroy => Promise!Finish \/ Promise!Die
<1> SUFFICES ASSUME IInv, IInv', Destroy PROVE Promise!Finish \/ Promise!Die
  OBVIOUS
<1>1. Phase = "answered" /\ UNCHANGED <<IsTask, served>>
  BY DEF Destroy, Crash, Phase, IsTask, request
<1>2. UNCHANGED AnswerLog
  BY DEF Destroy, Crash, AnswerLog, Kind
<1>3. CASE pc' = "idle"
  <2>1. Phase' = "idle"
    BY <1>3 DEF Phase
  <2>2. Held = base' /\ Held' = conns' + sets'
    BY <1>3 DEF Destroy, Crash, Held, request
  <2>3. Answered /\ Answered' /\ Body' = Body
    <3>1. pc = "destroy" /\ UNCHANGED <<replies, served>>
      BY DEF Destroy, Crash, request
    <3>2. Answered
      BY <3>1 DEF IInv, Log
    <3>. QED
      BY <3>1, <3>2 DEF Answered, Body
  <2>4. Held' = Held \/ (Held' = Held + 1 /\ Body # "report")
    <3>1. AtMostOneLeak'
      BY LeakBound, PTL
    <3>2. conns' + sets' \in {base', base' + 1} /\ (Body = "report" => conns' + sets' = base')
      BY <1>3, <2>3, <3>1 DEF AtMostOneLeak
    <3>. QED
      BY <2>2, <3>2
  <2>5. AnswerLog[Len(AnswerLog)].kind = Kind(Body)
    BY <2>3 DEF IInv, TypeOK, AnswerLog, Answered, Body
  <2>6. Held' = Held \/ (Held' = Held + 1 /\ AnswerLog[Len(AnswerLog)].kind = "error")
    BY <2>4, <2>5 DEF Kind
  <2>. QED
    BY <1>1, <1>2, <2>1, <2>6, Zenon DEF Promise!Finish, IsTask, Held, AnswerLog
<1>4. CASE mysqlOk = "junk" /\ Crash
  <2>1. Phase' = "down" /\ Held' = 0
    BY <1>4 DEF Crash, Phase, Held
  <2>2. ~IsTask
    BY <1>4 DEF IInv, Books, IsTask, Tasks, ListTasks
  <2>. QED
    BY <1>1, <1>2, <2>1, <2>2, Zenon DEF Promise!Die, IsTask, Held, AnswerLog
<1>. QED
  BY <1>3, <1>4 DEF Destroy

(* Every other step of the thread is silent or a crash.                    *)
LEMMA StepMaps ==
  IInv /\ IInv' /\ Step => Promise!Next \/ UNCHANGED Promise!vars
<1> SUFFICES ASSUME IInv, IInv', Step PROVE Promise!Next \/ UNCHANGED Promise!vars
  OBVIOUS
<1> USE DEF Pending, PcType
<1>1. CASE RejectMalformed \/ Dispatch \/ ConnectDatabase
  BY <1>1, SilentStutters
  DEF RejectMalformed, Dispatch, ConnectDatabase, DatabaseError, Silent
<1>2. CASE RefuseFields \/ NullColumn
  BY <1>2, CrashDies DEF IInv, RefuseFields, NullColumn, Promise!Next
<1>3. CASE BuildQuery
  BY <1>3, CrashDies, SilentStutters DEF IInv, BuildQuery, Silent, Promise!Next
<1>4. CASE StoreFails
  BY <1>4, CrashDies, SilentStutters DEF IInv, StoreFails, DatabaseError, Silent, Promise!Next
<1>5. CASE QueryFails \/ StoreResult \/ NoData \/ NoFields
  BY <1>5, SilentStutters DEF QueryFails, StoreResult, NoData, NoFields, DatabaseError, Silent
<1>6. CASE ReadRows
  BY <1>6, SilentStutters DEF ReadRows, Silent
<1>7. CASE ScanPaths \/ Conclude
  BY <1>7, SilentStutters DEF ScanPaths, Conclude, Silent
<1>8. CASE SingleFails \/ SingleNoFields \/ SingleReport
  BY <1>8, SilentStutters DEF SingleFails, SingleNoFields, SingleReport, DatabaseError, Silent
<1>9. CASE ChunkFails \/ ReadChunk \/ WriteReport
  BY <1>9, SilentStutters DEF ChunkFails, ReadChunk, WriteReport, DatabaseError, Silent
<1>10. CASE TooFewSightings \/ WriteFootholds \/ FreeResults \/ AwaitReadable
  BY <1>10, SilentStutters
  DEF TooFewSightings, WriteFootholds, FreeResults, AwaitReadable, Silent
<1>11. CASE IgnoreRequest
  BY <1>11, IgnoreIgnores DEF IInv, Promise!Next
<1>12. CASE SendJson
  BY <1>12, SendAnswers DEF IInv, Promise!Next
<1>13. CASE Destroy
  BY <1>13, DestroyFinishes DEF Promise!Next
<1>. QED
  BY <1>1, <1>2, <1>3, <1>4, <1>5, <1>6, <1>7, <1>8, <1>9, <1>10, <1>11, <1>12, <1>13 DEF Step

LEMMA InitMaps == Init => Promise!Init
<1>1. Init => Phase = "idle" /\ served = 0 /\ Held = 0
  BY DEF Init, Phase, Held
<1>2. Init => AnswerLog = <<>>
  BY DEF Init, AnswerLog
<1>3. IsTask \in BOOLEAN
  BY DEF IsTask
<1>. QED
  BY <1>1, <1>2, <1>3, Zenon DEF Promise!Init, IsTask, Held, AnswerLog

(* The service keeps what RequestReply promises: JsonParser answers a      *)
(* request at most once and before it takes the next, gives a report to a  *)
(* task only, does not die between the answer to a task and its end, and   *)
(* CarJudgedAlgorithm leaves one object behind at most.                    *)
THEOREM PromiseKept == Safe => KeepsPromise
<1>1. IInv /\ IInv' /\ [Next]_vars => [Promise!Next]_Promise!vars
  <2> SUFFICES ASSUME IInv, IInv', [Next]_vars PROVE [Promise!Next]_Promise!vars
    OBVIOUS
  <2>1. ASSUME NEW r \in Requests, Receive(r) PROVE Promise!Next
    BY <2>1, ReceiveAsks DEF IInv, Promise!Next
  <2>2. CASE Step
    BY <2>2, StepMaps
  <2>3. CASE UNCHANGED vars
    <3>1. UNCHANGED <<Phase, IsTask, served, Held>>
      BY <2>3 DEF vars, Phase, IsTask, Held
    <3>2. UNCHANGED AnswerLog
      BY <2>3 DEF vars, AnswerLog, Kind
    <3>. QED
      BY <3>1, <3>2, Zenon DEF Promise!vars, IsTask, Held, AnswerLog
  <2>. QED
    BY <2>1, <2>2, <2>3 DEF Next
<1>. QED
  BY <1>1, InitMaps, IInvInvariant, PTL DEF Safe, KeepsPromise, Promise!Spec
=============================================================================
