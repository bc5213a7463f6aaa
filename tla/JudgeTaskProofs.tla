-------------------------- MODULE JudgeTaskProofs --------------------------
(***************************************************************************)
(* The safety properties of JudgeTask for every set of requests, every     *)
(* number of chunks and every bound.  They are not inductive: what is true *)
(* when a task ends follows from what it owns and from what its text and   *)
(* its flag say at every label on the way, which the two invariants Books  *)
(* and Story spell out.                                                    *)
(***************************************************************************)
EXTENDS JudgeTask, TLAPS

(* What the task owns: what the process holds more than when it began.     *)
Owned == conns + sets - base

(* Labels at which the task's connection is open and mysql_ok is true, by  *)
(* what it owns there: the connection, or a result set as well.            *)
OwnsOne == {"build", "query", "single"}
OwnsTwo == {"inspect", "chunk", "foothold"}
Working == OwnsOne \cup OwnsTwo \cup {"scan", "conclude", "free"}
Ending == {"await", "send", "destroy"}

Books ==
    /\ pc \in {"parse", "connect"} => Owned = 0 /\ mysqlOk = "no"
    /\ pc \in Working => mysqlOk = "yes" /\ conns > 0
    /\ pc \in OwnsOne => Owned = 1
    /\ pc \in OwnsTwo => Owned = 2 /\ sets > 0
    /\ pc \in {"scan", "conclude"} =>
          IF req.form = "plate" THEN Owned = 1 ELSE Owned = 2 /\ sets > 0
    /\ pc = "free" => /\ Owned \in {2, 3} /\ sets > 0
                      /\ json = "report" => Owned = 2
    /\ pc \in Ending =>
          \/ /\ mysqlOk = "yes" /\ conns > 0 /\ Owned \in {1, 2}
             /\ json = "report" => Owned = 1
          \/ /\ mysqlOk = "no" /\ pc # "await" /\ Owned \in {0, 1}
             /\ json = "mysql"
          \/ mysqlOk = "junk" /\ Owned = 0 /\ json = "format"
    /\ pc = "idle" => /\ Owned \in {0, 1}
                      /\ Answered /\ Body = "report" => Owned = 0
    /\ mysqlOk = "junk" => req.form = "malformed"

(* Labels before the task's text is decided.                               *)
Early == {"parse", "connect", "build", "query", "inspect", "scan", "conclude",
          "single", "chunk", "foothold"}

(* What a decided text tells.                                              *)
Decided ==
    /\ json # "short"
    /\ dbFault => json \in {"unset", "mysql"}
    /\ json = "mysql" => dbFault \/ ~QueryIsSound
    /\ json = "report" => \/ req.form = "plate" /\ targets
                          \/ req.form = "foothold" /\ rows = 2
                          \/ targets /\ step = Chunks
    /\ req.form = "malformed" <=> json = "format"
    /\ req.form \in Tasks \cup {"malformed"}

Story ==
    /\ pc # "idle" => (ok <=> json # "unset")
    /\ pc \in Early => ~dbFault
    /\ pc \in Early \ {"conclude", "chunk"} => json = "unset"
    /\ pc \in {"conclude", "chunk"} => json \in {"unset", "short"}
    /\ pc = "conclude" /\ targets /\ req.form = "plate" => json = "unset"
    /\ pc \in {"single", "chunk"} => targets
    /\ pc = "scan" => rows > 0
    /\ pc = "single" => req.form = "plate"
    /\ pc = "foothold" => req.form = "foothold" /\ rows > 0
    /\ pc \in Working \cup {"connect"} => req.form \in Tasks
    /\ pc \in Ending \cup {"free"} => Decided
    /\ pc \in {"free", "send", "destroy"} => json # "unset"
    /\ pc = "await" /\ json = "unset" => Untold
    /\ pc = "crashed" => dbFault \/ ~WellFormed

(* The log of answers: increasing, and the task's own answer is in it only *)
(* from SendJson on.                                                       *)
Log ==
    /\ \A i \in 1..Len(replies) : replies[i].n <= served
    /\ pc \in Early \cup {"free", "await", "send"} =>
          \A i \in 1..Len(replies) : replies[i].n < served
    /\ pc = "destroy" => Answered /\ Body = json
    /\ OneAnswerEach

IInv == TypeOK /\ Books /\ Story /\ Log

(* Types: what is given back was owned, so the counters stay natural.      *)
LEMMA TypeStep == TypeOK /\ Books /\ [Next]_vars => TypeOK'
<1> SUFFICES ASSUME TypeOK /\ Books PROVE [Next]_vars => TypeOK'
  OBVIOUS
<1> USE BoundsAssumption DEF TypeOK, PcType, Texts, Reply, request, answer, database, progress
<1>1. ASSUME NEW r \in Requests, Receive(r) PROVE TypeOK'
  <2>1. /\ req' \in RequestType
        /\ ok' \in BOOLEAN /\ targets' \in BOOLEAN /\ dbFault' \in BOOLEAN
    BY <1>1, RequestsAssumption, Zenon DEF Receive
  <2>2. /\ pc' = "parse" /\ json' = "unset" /\ mysqlOk' = "no"
        /\ rows' = 0 /\ step' = 0 /\ served' = served + 1 /\ base' = conns + sets
        /\ UNCHANGED <<conns, sets, replies>>
    BY <1>1, Zenon DEF Receive
  <2>. QED
    BY <2>1, <2>2
<1>2. RejectMalformed => TypeOK'
  BY DEF RejectMalformed, EncapsulteMysqlError
<1>3. IgnoreRequest => TypeOK'
  BY DEF IgnoreRequest
<1>4. RefuseFields => TypeOK'
  BY DEF RefuseFields, Crash
<1>5. Dispatch => TypeOK'
  BY DEF Dispatch
<1>6. ASSUME ConnectDatabase PROVE TypeOK'
  <2>1. ok' \in BOOLEAN /\ dbFault' \in BOOLEAN /\ targets' \in BOOLEAN
    BY <1>6, Zenon DEF ConnectDatabase, DatabaseError, EncapsulteMysqlError
  <2>2. /\ conns' = conns + 1 \/ \E opened \in {0, 1} : conns' = conns + opened
        /\ pc' \in {"build", "send"} /\ json' \in {json, "mysql"}
        /\ mysqlOk' \in {mysqlOk, "yes"}
        /\ UNCHANGED <<sets, progress, request, replies>>
    BY <1>6, Zenon DEF ConnectDatabase, DatabaseError, EncapsulteMysqlError
  <2>. QED
    BY <2>1, <2>2
<1>7. BuildQuery => TypeOK'
  BY DEF BuildQuery, Crash
<1>8. QueryFails => TypeOK'
  BY DEF QueryFails, QueryIsSound, EncapsulteMysqlError
<1>9. ASSUME StoreFails PROVE TypeOK'
  <2>1. CASE ChecksResultFirst
    BY <1>9, <2>1 DEF StoreFails, DatabaseError, EncapsulteMysqlError
  <2>2. CASE ~ChecksResultFirst
    BY <1>9, <2>2 DEF StoreFails, Crash
  <2>. QED
    BY <2>1, <2>2
<1>10. StoreResult => TypeOK'
  BY DEF StoreResult
<1>11. NoData => TypeOK'
  BY DEF NoData, EncapsulteMysqlError
<1>12. NoFields => TypeOK'
  BY DEF NoFields, DatabaseError, EncapsulteMysqlError
<1>13. NullColumn => TypeOK'
  BY DEF NullColumn, Crash
<1>14. ReadRows => TypeOK'
  BY DEF ReadRows, Books, Owned, OwnsOne, OwnsTwo, Working, Ending
<1>15. ScanPaths => TypeOK'
  BY DEF ScanPaths, EncapsulteMysqlError
<1>16. Conclude => TypeOK'
  BY DEF Conclude, EncapsulteMysqlError
<1>17. SingleFails => TypeOK'
  BY DEF SingleFails
<1>18. SingleNoFields => TypeOK'
  BY DEF SingleNoFields, DatabaseError, EncapsulteMysqlError
<1>19. SingleReport => TypeOK'
  BY DEF SingleReport
<1>20. ChunkFails => TypeOK'
  BY DEF ChunkFails, DatabaseError, EncapsulteMysqlError
<1>21. ReadChunk => TypeOK'
  BY DEF ReadChunk
<1>22. WriteReport => TypeOK'
  BY DEF WriteReport
<1>23. TooFewSightings => TypeOK'
  BY DEF TooFewSightings
<1>24. WriteFootholds => TypeOK'
  BY DEF WriteFootholds
<1>25. FreeResults => TypeOK'
  BY DEF FreeResults, Books, Owned, OwnsOne, OwnsTwo, Working, Ending
<1>26. AwaitReadable => TypeOK'
  BY DEF AwaitReadable
<1>27. SendJson => TypeOK'
  BY DEF SendJson
<1>28. Destroy => TypeOK'
  BY DEF Destroy, Crash, Books, Owned, OwnsOne, OwnsTwo, Working, Ending
<1>29. UNCHANGED vars => TypeOK'
  BY DEF vars
<1>. QED
  BY <1>1, <1>2, <1>3, <1>4, <1>5, <1>6, <1>7, <1>8, <1>9, <1>10, <1>11, <1>12, <1>13,
     <1>14, <1>15, <1>16, <1>17, <1>18, <1>19, <1>20, <1>21, <1>22, <1>23, <1>24, <1>25,
     <1>26, <1>27, <1>28, <1>29 DEF Next, Step


(* What the text, the flag and the faults tell at each label.              *)
LEMMA StoryStep == TypeOK /\ Books /\ Story /\ [Next]_vars => Story'
<1> SUFFICES ASSUME TypeOK /\ Books /\ Story PROVE [Next]_vars => Story'
  OBVIOUS
<1> USE DEF TypeOK, Books, Owned, OwnsOne, OwnsTwo, Working, Ending, Story, Early,
        Decided, Untold, QueryIsSound, WellFormed, BadLists, Tasks, ListTasks, request, answer,
        database, progress
<1>1. ASSUME NEW r \in Requests PROVE Receive(r) => Story'
  BY DEF Receive
<1>2. RejectMalformed => Story'
  BY DEF RejectMalformed, EncapsulteMysqlError
<1>3. IgnoreRequest => Story'
  BY DEF IgnoreRequest
<1>4. RefuseFields => Story'
  BY DEF RefuseFields, Crash
<1>5. Dispatch => Story'
  BY DEF Dispatch
<1>6. ConnectDatabase => Story'
  BY DEF ConnectDatabase, DatabaseError, EncapsulteMysqlError
<1>7. BuildQuery => Story'
  BY DEF BuildQuery, Crash
<1>8. QueryFails => Story'
  BY DEF QueryFails, QueryIsSound, EncapsulteMysqlError
<1>9. StoreFails => Story'
  BY DEF StoreFails, ChecksResultFirst, DatabaseError, EncapsulteMysqlError, Crash
<1>10. StoreResult => Story'
  BY DEF StoreResult
<1>11. NoData => Story'
  BY DEF NoData, EncapsulteMysqlError
<1>12. NoFields => Story'
  BY DEF NoFields, DatabaseError, EncapsulteMysqlError
<1>13. NullColumn => Story'
  BY DEF NullColumn, Crash
<1>14. ReadRows => Story'
  BY DEF ReadRows
<1>15. ASSUME ScanPaths PROVE Story'
  <2>1. PICK short, fake \in BOOLEAN :
           /\ rows = 1 => short /\ ~fake
           /\ rows = 2 /\ req.form = "plate" => ~short
           /\ targets' = fake
           /\ IF short THEN EncapsulteMysqlError("short") ELSE UNCHANGED answer
    BY <1>15 DEF ScanPaths
  <2>2. pc = "scan" /\ pc' = "conclude" /\ UNCHANGED <<database, rows, step, dbFault, request, replies>>
    BY <1>15 DEF ScanPaths
  <2>3. CASE short
    <3>1. json' = "short" /\ ok'
      BY <2>1, <2>3, Zenon DEF EncapsulteMysqlError
    <3>2. targets' => ~(rows = 2 /\ req.form = "plate") /\ rows # 1
      BY <2>1, <2>3
    <3>3. pc = "scan" /\ pc' = "conclude" /\ req' = req /\ rows' = rows
          /\ dbFault' = dbFault /\ mysqlOk' = mysqlOk
      BY <2>2, Zenon DEF request, database
    <3>4. ~dbFault' /\ (req'.form \in Tasks)
      BY <3>3
    <3>. QED
      BY <3>1, <3>2, <3>3, <3>4
  <2>4. CASE ~short
    BY <2>1, <2>2, <2>4
  <2>. QED
    BY <2>3, <2>4
<1>16. Conclude => Story'
  BY DEF Conclude, EncapsulteMysqlError
<1>17. SingleFails => Story'
  BY DEF SingleFails
<1>18. SingleNoFields => Story'
  BY DEF SingleNoFields, DatabaseError, EncapsulteMysqlError
<1>19. SingleReport => Story'
  BY DEF SingleReport
<1>20. ChunkFails => Story'
  BY DEF ChunkFails, DatabaseError, EncapsulteMysqlError
<1>21. ReadChunk => Story'
  BY DEF ReadChunk
<1>22. WriteReport => Story'
  BY DEF WriteReport
<1>23. TooFewSightings => Story'
  BY DEF TooFewSightings
<1>24. WriteFootholds => Story'
  BY DEF WriteFootholds
<1>25. FreeResults => Story'
  BY DEF FreeResults
<1>26. AwaitReadable => Story'
  BY DEF AwaitReadable
<1>27. SendJson => Story'
  BY DEF SendJson
<1>28. Destroy => Story'
  BY DEF Destroy, Crash
<1>29. UNCHANGED vars => Story'
  BY DEF vars
<1>. QED
  BY <1>1, <1>2, <1>3, <1>4, <1>5, <1>6, <1>7, <1>8, <1>9, <1>10, <1>11, <1>12, <1>13,
     <1>14, <1>15, <1>16, <1>17, <1>18, <1>19, <1>20, <1>21, <1>22, <1>23, <1>24, <1>25,
     <1>26, <1>27, <1>28, <1>29 DEF Next, Step


(* What the task owns at each label.                                       *)
LEMMA BooksStep == TypeOK /\ Books /\ Story /\ Log /\ [Next]_vars => Books'
<1> SUFFICES ASSUME TypeOK /\ Books /\ Story /\ Log PROVE [Next]_vars => Books'
  OBVIOUS
<1> USE DEF TypeOK, Books, Owned, OwnsOne, OwnsTwo, Working, Ending, Story, Early, Log,
        Answered, Body, request, answer, database, progress
<1>1. ASSUME NEW r \in Requests PROVE Receive(r) => Books'
  BY DEF Receive
<1>2. RejectMalformed => Books'
  BY DEF RejectMalformed, EncapsulteMysqlError
<1>3. IgnoreRequest => Books'
  BY DEF IgnoreRequest
<1>4. RefuseFields => Books'
  BY DEF RefuseFields, Crash
<1>5. Dispatch => Books'
  BY DEF Dispatch
<1>6. ConnectDatabase => Books'
  BY DEF ConnectDatabase, DatabaseError, EncapsulteMysqlError
<1>7. BuildQuery => Books'
  BY DEF BuildQuery, Crash
<1>8. QueryFails => Books'
  BY DEF QueryFails, QueryIsSound, EncapsulteMysqlError
<1>9. StoreFails => Books'
  BY DEF StoreFails, ChecksResultFirst, DatabaseError, EncapsulteMysqlError, Crash
<1>10. StoreResult => Books'
  BY DEF StoreResult
<1>11. NoData => Books'
  BY DEF NoData, EncapsulteMysqlError
<1>12. NoFields => Books'
  BY DEF NoFields, DatabaseError, EncapsulteMysqlError
<1>13. NullColumn => Books'
  BY DEF NullColumn, Crash
<1>14. ReadRows => Books'
  BY DEF ReadRows
<1>15. ScanPaths => Books'
  BY DEF ScanPaths, EncapsulteMysqlError
<1>16. Conclude => Books'
  BY DEF Conclude, EncapsulteMysqlError
<1>17. SingleFails => Books'
  BY DEF SingleFails
<1>18. SingleNoFields => Books'
  BY DEF SingleNoFields, DatabaseError, EncapsulteMysqlError
<1>19. SingleReport => Books'
  BY DEF SingleReport
<1>20. ChunkFails => Books'
  BY DEF ChunkFails, DatabaseError, EncapsulteMysqlError
<1>21. ReadChunk => Books'
  BY DEF ReadChunk
<1>22. WriteReport => Books'
  BY DEF WriteReport
<1>23. TooFewSightings => Books'
  BY DEF TooFewSightings
<1>24. WriteFootholds => Books'
  BY DEF WriteFootholds
<1>25. FreeResults => Books'
  BY DEF FreeResults
<1>26. AwaitReadable => Books'
  BY DEF AwaitReadable
<1>27. SendJson => Books'
  BY DEF SendJson
<1>28. Destroy => Books'
  BY DEF Destroy, Crash
<1>29. UNCHANGED vars => Books'
  BY DEF vars
<1>. QED
  BY <1>1, <1>2, <1>3, <1>4, <1>5, <1>6, <1>7, <1>8, <1>9, <1>10, <1>11, <1>12, <1>13,
     <1>14, <1>15, <1>16, <1>17, <1>18, <1>19, <1>20, <1>21, <1>22, <1>23, <1>24, <1>25,
     <1>26, <1>27, <1>28, <1>29 DEF Next, Step

(* The numbers of the answers in the log can be compared.                 *)
LEMMA LogNumbers == TypeOK => \A i \in 1..Len(replies) : replies[i].n \in Nat
<1>1. TypeOK => \A i \in 1..Len(replies) : replies[i] \in Reply
  BY DEF TypeOK
<1>. QED
  BY <1>1 DEF Reply

(* The log of answers only grows, by answers of the current task.          *)
LEMMA LogStep == TypeOK /\ Books /\ Story /\ Log /\ [Next]_vars => Log'
<1> SUFFICES ASSUME TypeOK /\ Books /\ Story /\ Log PROVE [Next]_vars => Log'
  OBVIOUS
<1> USE DEF TypeOK, Reply, Log, Early, OneAnswerEach, Answered, Body, request, answer,
        database, progress
<1>1. ASSUME NEW r \in Requests, Receive(r) PROVE Log'
  <2>1. pc = "idle" /\ pc' = "parse" /\ served' = served + 1 /\ UNCHANGED replies
    BY <1>1, Zenon DEF Receive
  <2>. QED
    BY <2>1, LogNumbers
<1>2. RejectMalformed => Log'
  BY DEF RejectMalformed, EncapsulteMysqlError
<1>3. IgnoreRequest => Log'
  BY DEF IgnoreRequest
<1>4. RefuseFields => Log'
  BY DEF RefuseFields, Crash
<1>5. Dispatch => Log'
  BY DEF Dispatch
<1>6. ConnectDatabase => Log'
  BY DEF ConnectDatabase, DatabaseError, EncapsulteMysqlError
<1>7. BuildQuery => Log'
  BY DEF BuildQuery, Crash
<1>8. QueryFails => Log'
  BY DEF QueryFails, QueryIsSound, EncapsulteMysqlError
<1>9. StoreFails => Log'
  BY DEF StoreFails, ChecksResultFirst, DatabaseError, EncapsulteMysqlError, Crash
<1>10. StoreResult => Log'
  BY DEF StoreResult
<1>11. NoData => Log'
  BY DEF NoData, EncapsulteMysqlError
<1>12. NoFields => Log'
  BY DEF NoFields, DatabaseError, EncapsulteMysqlError
<1>13. NullColumn => Log'
  BY DEF NullColumn, Crash
<1>14. ReadRows => Log'
  BY DEF ReadRows
<1>15. ScanPaths => Log'
  BY DEF ScanPaths, EncapsulteMysqlError
<1>16. Conclude => Log'
  BY DEF Conclude, EncapsulteMysqlError
<1>17. SingleFails => Log'
  BY DEF SingleFails
<1>18. SingleNoFields => Log'
  BY DEF SingleNoFields, DatabaseError, EncapsulteMysqlError
<1>19. SingleReport => Log'
  BY DEF SingleReport
<1>20. ChunkFails => Log'
  BY DEF ChunkFails, DatabaseError, EncapsulteMysqlError
<1>21. ReadChunk => Log'
  BY DEF ReadChunk
<1>22. WriteReport => Log'
  BY DEF WriteReport
<1>23. TooFewSightings => Log'
  BY DEF TooFewSightings
<1>24. WriteFootholds => Log'
  BY DEF WriteFootholds
<1>25. FreeResults => Log'
  BY DEF FreeResults
<1>26. AwaitReadable => Log'
  BY DEF AwaitReadable
<1>27. SendJson => Log'
  BY DEF SendJson
<1>28. Destroy => Log'
  BY DEF Destroy, Crash
<1>29. UNCHANGED vars => Log'
  BY DEF vars
<1>. QED
  BY <1>1, <1>2, <1>3, <1>4, <1>5, <1>6, <1>7, <1>8, <1>9, <1>10, <1>11, <1>12, <1>13,
     <1>14, <1>15, <1>16, <1>17, <1>18, <1>19, <1>20, <1>21, <1>22, <1>23, <1>24, <1>25,
     <1>26, <1>27, <1>28, <1>29 DEF Next, Step

-----------------------------------------------------------------------------
(* The inductive invariant: in every state of a task, what it owns (Books),*)
(* what its text tells (Story) and what was sent (Log) fit its label.      *)
THEOREM IInvInvariant == Safe => []IInv
<1>1. ASSUME Init PROVE IInv
  <2>1. pc = "idle" /\ conns = 0 /\ sets = 0 /\ base = 0 /\ replies = <<>> /\ mysqlOk = "no"
    BY <1>1 DEF Init
  <2>2. TypeOK
    <3>1. ok \in BOOLEAN /\ targets \in BOOLEAN /\ dbFault \in BOOLEAN /\ req \in RequestType
      BY <1>1, RequestsAssumption, Zenon DEF Init
    <3>2. json = "unset" /\ rows = 0 /\ step = 0 /\ served = 0
      BY <1>1, Zenon DEF Init
    <3>. QED
      BY <2>1, <3>1, <3>2, BoundsAssumption DEF TypeOK, PcType, Texts
  <2>3. Books
    BY <2>1 DEF Books, Owned, OwnsOne, OwnsTwo, Working, Ending, Answered
  <2>4. Story
    BY <2>1 DEF Story, Early, Working, OwnsOne, OwnsTwo, Ending
  <2>5. Log
    BY <2>1 DEF Log, Early, OneAnswerEach
  <2>. QED
    BY <2>2, <2>3, <2>4, <2>5 DEF IInv
<1>2. IInv /\ [Next]_vars => IInv'
  BY TypeStep, StoryStep, BooksStep, LogStep DEF IInv
<1>. QED
  BY <1>1, <1>2, PTL DEF Safe

-----------------------------------------------------------------------------
(* What the receiving thread and its history may hold.                     *)
THEOREM TypeCorrect == Safe => []TypeOK
  BY IInvInvariant, PTL DEF IInv

(* A task in which MySQL failed is answered by a MySQL error and by        *)
(* nothing else, whatever requests the clients send (JsonParser's Extract  *)
(* functions, and every return of CarJudgedAlgorithm before its end).      *)
THEOREM FaultsReported == Safe => []FaultsAreReported
<1>1. IInv => FaultsAreReported
  BY DEF IInv, Log, Story, Decided, Ending, Answered, Body, FaultsAreReported
<1>. QED
  BY <1>1, IInvInvariant, PTL

(* A report sent is the report of a whole task.                            *)
THEOREM AnswersFinal == Safe => []AnswersAreFinal
<1>1. IInv => AnswersAreFinal
  BY DEF IInv, Log, Story, Decided, Ending, Answered, Body, AnswersAreFinal
<1>. QED
  BY <1>1, IInvInvariant, PTL

(* The books say what a task leaves when the thread is idle again.         *)
LEMMA LeakBound == IInv => AtMostOneLeak
BY DEF IInv, TypeOK, Books, Owned, AtMostOneLeak

(* A task that is over has leaked one result set or one connection at      *)
(* most, and nothing when it was answered by a report.                     *)
THEOREM LeakBounded == Safe => []AtMostOneLeak
BY LeakBound, IInvInvariant, PTL

(* Only a defective request or a failing database can end the process.     *)
THEOREM DeathProvoked == Safe => []DiesOnlyWhenProvoked
<1>1. IInv => DiesOnlyWhenProvoked
  BY DEF IInv, Story, DiesOnlyWhenProvoked
<1>. QED
  BY <1>1, IInvInvariant, PTL

(* The receiving thread can only spin for ever after the failed second     *)
(* query of a plate task (EncapsulateFakePlatetoJson) or after a foothold  *)
(* task with one sighting: all other returns of CarJudgedAlgorithm have    *)
(* set a text and made the object readable.                                *)
THEOREM HangsExplained == Safe => []OnlyTwoReturnsHang
<1>1. IInv => OnlyTwoReturnsHang
  BY DEF IInv, Story, OnlyTwoReturnsHang
<1>. QED
  BY <1>1, IInvInvariant, PTL

(* Answers keep the order of their requests, one at most for each.         *)
THEOREM AnsweredOnce == Safe => []OneAnswerEach
<1>1. IInv => OneAnswerEach
  BY DEF IInv, Log
<1>. QED
  BY <1>1, IInvInvariant, PTL
=============================================================================
