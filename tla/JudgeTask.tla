----------------------------- MODULE JudgeTask -----------------------------
(***************************************************************************)
(* One judging task, from the request text to the answer: JsonParser reads *)
(* the request, builds one CarJudgedAlgorithm object for it, runs the task *)
(* against MySQL and publishes whatever text the object holds once the     *)
(* object says it is readable.  Requests are handled one after the other   *)
(* by the receiving thread, in the callback of mtaopai.cpp.                *)
(*                                                                         *)
(* MySQL is the environment: a connection or a query may fail, a result    *)
(* set may be missing, its column list may be missing, a column may be     *)
(* NULL, and it has no row, one row or several.                            *)
(***************************************************************************)
EXTENDS Integers, Sequences

CONSTANTS
    Requests,     \* the requests the clients may send, see RequestsAssumption
    Chunks,       \* TOTAL / STEP: the id ranges a report is read in
    MaxRequests   \* bound of the model: requests received in one behaviour

(* The tasks that take a list of tollgates or of plates (TaskCode 2 to 7). *)
ListTasks ==
    {"trajectory", "firsttime", "actinnight", "actinnightF", "hidden", "foothold"}

(* TaskCode 0 is two tasks: "plate" when the request has a LicensePlate,   *)
(* "advanced" when it has none.                                            *)
Tasks == {"plate", "advanced", "correlation"} \cup ListTasks

(* Texts that are no task: not JSON, no TaskCode, a TaskCode that is not a *)
(* number, a TaskCode the switch has no case for.                          *)
Forms == Tasks \cup {"malformed", "notask", "badtask", "unknown"}

(* What the code's control distinguishes in a request: its form, whether   *)
(* the connection fields and the task's other fields are there and of the  *)
(* right type, whether its lists have an element, and whether its time     *)
(* window passes midnight (NightRange).                                    *)
RequestType ==
    [form : Forms, host : BOOLEAN, args : BOOLEAN, lists : BOOLEAN, overnight : BOOLEAN]

ASSUME RequestsAssumption == Requests \subseteq RequestType
ASSUME BoundsAssumption == /\ Chunks \in Nat \ {0}
                           /\ MaxRequests \in Nat

VARIABLES
    pc,        \* where the receiving thread is
    req,       \* the request being handled
    json,      \* CarJudgedAlgorithm::json, by the kind of text it holds
    ok,        \* CarJudgedAlgorithm::ok
    mysqlOk,   \* CarJudgedAlgorithm::mysql_ok: "yes", "no" or "junk" (never set)
    conns,     \* MySQL connections the process holds
    sets,      \* MYSQL_RES objects the process holds
    rows,      \* rows of the task's result set: 0, 1 or 2 (several)
    targets,   \* is there a plate to report?
    step,      \* chunks of the report read so far
    dbFault,   \* history: has MySQL failed or returned bad data in this task?
    served,    \* history: requests received
    base,      \* history: conns + sets when the request was received
    replies    \* history: the calls of SendJson, in order

vars == <<pc, req, json, ok, mysqlOk, conns, sets, rows, targets, step,
          dbFault, served, base, replies>>

request == <<req, served, base>>
answer == <<json, ok>>
database == <<mysqlOk, conns, sets>>
progress == <<rows, targets, step>>

PcType == {"idle", "parse", "connect", "build", "query", "inspect", "scan",
           "conclude", "single", "chunk", "foothold", "free", "await", "send",
           "destroy", "crashed"}

(* "unset" is the empty text of a new object; "short" is the message that  *)
(* a path is too short to be judged; "nofake" stands for both "No          *)
(* fakeplates found" and "fakeplates is empty".                            *)
Texts == {"unset", "format", "mysql", "nodata", "short", "nofake", "report"}

Reply == [n : Nat, body : Texts, arrived : BOOLEAN]

(* A request every field of which the task needs is there.                 *)
BadLists == req.form \in ListTasks /\ ~req.lists
WellFormed == req.form \in Tasks /\ req.host /\ req.args /\ ~BadLists

Init ==
    /\ pc = "idle"
    /\ req \in Requests
    /\ json = "unset" /\ ok = FALSE /\ mysqlOk = "no"
    /\ conns = 0 /\ sets = 0
    /\ rows = 0 /\ targets = FALSE /\ step = 0
    /\ dbFault = FALSE
    /\ served = 0 /\ base = 0
    /\ replies = <<>>

-----------------------------------------------------------------------------
(* EncapsulteMysqlError and EncapsulateError: the text is an error and the *)
(* object is readable.                                                     *)
EncapsulteMysqlError(text) == json' = text /\ ok' = TRUE

(* The process dies; the operating system closes what it held.             *)
Crash ==
    /\ pc' = "crashed"
    /\ conns' = 0 /\ sets' = 0
    /\ UNCHANGED <<mysqlOk, answer, progress, request, replies>>

(* A failure of MySQL that the code answers with an error text.            *)
DatabaseError(next) ==
    /\ EncapsulteMysqlError("mysql")
    /\ dbFault' = TRUE
    /\ pc' = next

-----------------------------------------------------------------------------
(* The callback receives a text: no CarJudgedAlgorithm object exists yet.  *)
Receive(r) ==
    /\ pc = "idle" /\ served < MaxRequests
    /\ pc' = "parse"
    /\ req' = r
    /\ json' = "unset" /\ ok' = FALSE /\ mysqlOk' = "no"
    /\ rows' = 0 /\ targets' = FALSE /\ step' = 0
    /\ dbFault' = FALSE
    /\ served' = served + 1
    /\ base' = conns + sets
    /\ UNCHANGED <<conns, sets, replies>>

(* read_json throws: the error is put in a default-constructed object,     *)
(* whose constructor sets no member.                                       *)
RejectMalformed ==
    /\ pc = "parse" /\ req.form = "malformed"
    /\ EncapsulteMysqlError("format")
    /\ mysqlOk' = "junk"
    /\ pc' = "await"
    /\ UNCHANGED <<conns, sets, progress, request, dbFault, replies>>

(* Mutant, for KeepsPromise: a task with an empty list is passed over.     *)
IgnoreEmptyLists ==
    /\ pc = "parse" /\ (req.form \in {"notask", "unknown"} \/ BadLists)
    /\ pc' = "idle"
    /\ UNCHANGED <<answer, database, progress, request, dbFault, replies>>

(* No TaskCode, or one without a case: nothing is done or sent.            *)
IgnoreRequest ==
    /\ pc = "parse" /\ req.form \in {"notask", "unknown"}
    /\ pc' = "idle"
    /\ UNCHANGED <<answer, database, progress, request, dbFault, replies>>

(* A TaskCode that is not a number, or a missing connection field: ptree   *)
(* throws and nobody catches.                                              *)
RefuseFields ==
    /\ pc = "parse"
    /\ req.form = "badtask" \/ (req.form \in Tasks /\ ~req.host)
    /\ Crash
    /\ UNCHANGED dbFault

Dispatch ==
    /\ pc = "parse" /\ req.form \in Tasks /\ req.host
    /\ pc' = "connect"
    /\ UNCHANGED <<answer, database, progress, request, dbFault, replies>>

(* The constructor connects.  A missing schema leaves the connection open  *)
(* with mysql_ok false; the caller sends the error without waiting.        *)
ConnectDatabase ==
    /\ pc = "connect"
    /\ \/ /\ mysqlOk' = "yes" /\ conns' = conns + 1
          /\ pc' = "build"
          /\ UNCHANGED <<answer, dbFault>>
       \/ \E opened \in {0, 1} :
             /\ conns' = conns + opened
             /\ DatabaseError("send")
             /\ UNCHANGED mysqlOk
    /\ UNCHANGED <<sets, progress, request, replies>>

(* The task's fields are read; a missing one throws, and so does cutting   *)
(* the last comma off the text of an empty list.                           *)
BuildQuery ==
    /\ pc = "build"
    /\ \/ (~req.args \/ BadLists) /\ Crash
       \/ /\ req.args /\ ~BadLists
          /\ pc' = "query"
          /\ UNCHANGED <<answer, database, progress, request, replies>>
    /\ UNCHANGED dbFault

-----------------------------------------------------------------------------
(* The foothold query of a window inside one day lacks a parenthesis.      *)
QueryIsSound == req.form = "foothold" => req.overnight

(* The tasks that look at the result pointer before they count its rows.   *)
ChecksResultFirst == req.form \in {"plate", "advanced", "correlation"}

(* Mutant, for Settles: the failure is printed and not encapsulated.       *)
QueryFailsUntold ==
    /\ pc = "query"
    /\ dbFault' = QueryIsSound
    /\ pc' = "await"
    /\ UNCHANGED <<answer, database, progress, request, replies>>

QueryFails ==
    /\ pc = "query"
    /\ EncapsulteMysqlError("mysql")
    /\ dbFault' = QueryIsSound
    /\ pc' = "await"
    /\ UNCHANGED <<database, progress, request, replies>>

(* mysql_query succeeded and mysql_store_result returns NULL.              *)
StoreFails ==
    /\ pc = "query" /\ QueryIsSound
    /\ IF ChecksResultFirst
       THEN DatabaseError("await") /\ UNCHANGED <<database, progress, request, replies>>
       ELSE dbFault' = TRUE /\ Crash

StoreResult ==
    /\ pc = "query" /\ QueryIsSound
    /\ sets' = sets + 1
    /\ rows' \in 0..2
    /\ pc' = "inspect"
    /\ UNCHANGED <<answer, mysqlOk, conns, targets, step, dbFault, request, replies>>

(* Mutant, for OnlyTwoReturnsHang: "No data found!" is printed and not     *)
(* encapsulated.                                                           *)
NoDataUntold ==
    /\ pc = "inspect" /\ rows = 0
    /\ pc' = "await"
    /\ UNCHANGED <<answer, database, progress, request, dbFault, replies>>

(* The returns between mysql_store_result and mysql_free_result.           *)
NoData ==
    /\ pc = "inspect" /\ rows = 0
    /\ EncapsulteMysqlError("nodata")
    /\ pc' = "await"
    /\ UNCHANGED <<database, progress, request, dbFault, replies>>

NoFields ==
    /\ pc = "inspect"
    /\ rows > 0 \/ req.form = "correlation"
    /\ DatabaseError("await")
    /\ UNCHANGED <<database, progress, request, replies>>

(* The tasks whose first query can give a NULL in a column they read.  The *)
(* others count or compare the plate, which keeps a NULL out.              *)
ReadsNullable == req.form \notin {"correlation", "firsttime", "hidden"}

(* A NULL column is given to std::string or to atof.                       *)
NullColumn ==
    /\ \/ pc = "inspect" /\ rows > 0 /\ ReadsNullable
       \/ pc = "single"
       \/ pc = "chunk" /\ step < Chunks
    /\ dbFault' = TRUE
    /\ Crash

(* The rows are read.  FakePlateVehicles(plate) copies them and frees the  *)
(* set; the other tasks hold it.  The first row always passes the cut of   *)
(* CorrelationAnalysis and TrajectoryCollision, the others take every row. *)
ReadRows ==
    /\ pc = "inspect" /\ rows > 0
    /\ pc' = CASE req.form \in {"plate", "advanced"} -> "scan"
               [] req.form = "foothold" -> "foothold"
               [] OTHER -> "conclude"
    /\ sets' = IF req.form = "plate" THEN sets - 1 ELSE sets
    /\ targets' = (req.form \notin {"plate", "advanced", "foothold"})
    /\ UNCHANGED <<answer, mysqlOk, conns, rows, step, dbFault, request, replies>>

(* IsFakePlateVehicle: a path of one sighting leaves the "short" message.  *)
(* The advanced task scans every plate, so one may be short beside a fake. *)
ScanPaths ==
    /\ pc = "scan"
    /\ \E short, fake \in BOOLEAN :
          /\ rows = 1 => short /\ ~fake
          /\ rows = 2 /\ req.form = "plate" => ~short
          /\ targets' = fake
          /\ IF short THEN EncapsulteMysqlError("short") ELSE UNCHANGED answer
    /\ pc' = "conclude"
    /\ UNCHANGED <<database, rows, step, dbFault, request, replies>>

(* Mutant, for AnswersAreFinal: an empty list of plates returns at once.   *)
ConcludeUntold ==
    /\ pc = "conclude"
    /\ pc' = IF req.form = "plate" THEN IF targets THEN "single" ELSE "await"
                                   ELSE IF targets THEN "chunk" ELSE "free"
    /\ UNCHANGED <<answer, database, progress, dbFault, request, replies>>

(* With no plate to report the answer is an error; only the tasks that     *)
(* still hold the result set go on to free it.                             *)
Conclude ==
    /\ pc = "conclude"
    /\ IF targets
       THEN /\ pc' = IF req.form = "plate" THEN "single" ELSE "chunk"
            /\ UNCHANGED answer
       ELSE /\ pc' = IF req.form = "plate" THEN "await" ELSE "free"
            /\ EncapsulteMysqlError("nofake")
    /\ UNCHANGED <<database, progress, dbFault, request, replies>>

-----------------------------------------------------------------------------
(* EncapsulateFakePlatetoJson(plate), the second query of the plate task:  *)
(* its failures are printed and leave json and ok as they were.            *)
SingleFails ==
    /\ pc = "single"
    /\ dbFault' = TRUE
    /\ pc' = "await"
    /\ UNCHANGED <<answer, database, progress, request, replies>>

SingleNoFields ==
    /\ pc = "single"
    /\ DatabaseError("await")
    /\ UNCHANGED <<database, progress, request, replies>>

SingleReport ==
    /\ pc = "single"
    /\ json' = "report" /\ ok' = TRUE
    /\ pc' = "await"
    /\ UNCHANGED <<database, progress, request, dbFault, replies>>

(* Mutant, for FaultsAreReported: a chunk that cannot be read is skipped.  *)
ChunkSkipped ==
    /\ pc = "chunk" /\ step < Chunks
    /\ step' = step + 1
    /\ dbFault' = TRUE
    /\ UNCHANGED <<pc, answer, database, rows, targets, request, replies>>

(* EncapsulateFakePlatetoJsonThread: the report of the other tasks, read   *)
(* in Chunks queries, each with a result set of its own.                   *)
ChunkFails ==
    /\ pc = "chunk" /\ step < Chunks
    /\ \E leaked \in {0, 1} : sets' = sets + leaked
    /\ DatabaseError("free")
    /\ UNCHANGED <<mysqlOk, conns, progress, request, replies>>

(* Mutant, for TypeOK: the loop runs once too often (step <= TOTAL).       *)
ReadChunkAtTotal ==
    /\ pc = "chunk" /\ step <= Chunks
    /\ step' = step + 1
    /\ UNCHANGED <<pc, answer, database, rows, targets, request, dbFault, replies>>

ReadChunk ==
    /\ pc = "chunk" /\ step < Chunks
    /\ step' = step + 1
    /\ UNCHANGED <<pc, answer, database, rows, targets, request, dbFault, replies>>

WriteReport ==
    /\ pc = "chunk" /\ step = Chunks
    /\ json' = "report" /\ ok' = TRUE
    /\ pc' = "free"
    /\ UNCHANGED <<database, progress, request, dbFault, replies>>

(* FootholdAnalysis: one sighting is answered neither by a report nor by   *)
(* an error.                                                               *)
TooFewSightings ==
    /\ pc = "foothold" /\ rows < 2
    /\ pc' = "await"
    /\ UNCHANGED <<answer, database, progress, request, dbFault, replies>>

WriteFootholds ==
    /\ pc = "foothold" /\ rows = 2
    /\ json' = "report" /\ ok' = TRUE
    /\ pc' = "free"
    /\ UNCHANGED <<database, progress, request, dbFault, replies>>

FreeResults ==
    /\ pc = "free"
    /\ sets' = sets - 1
    /\ pc' = "await"
    /\ UNCHANGED <<answer, mysqlOk, conns, progress, request, dbFault, replies>>

-----------------------------------------------------------------------------
(* while (!c.IsReadable()): with ok false the thread spins here for good.  *)
AwaitReadable ==
    /\ pc = "await" /\ ok
    /\ pc' = "send"
    /\ UNCHANGED <<answer, database, progress, request, dbFault, replies>>

(* Mutant, for OneAnswerEach: no return after the answer to a failed       *)
(* connection.                                                             *)
SendJsonAndGoOn ==
    /\ pc = "send"
    /\ \E arrived \in BOOLEAN :
          replies' = Append(replies, [n |-> served, body |-> json, arrived |-> arrived])
    /\ pc' = IF mysqlOk = "no" THEN "build" ELSE "destroy"
    /\ UNCHANGED <<answer, database, progress, request, dbFault>>

(* A connection of its own for each answer; whether connecting, declaring  *)
(* the exchange and publishing succeeded is printed and nothing more.      *)
SendJson ==
    /\ pc = "send"
    /\ \E arrived \in BOOLEAN :
          replies' = Append(replies, [n |-> served, body |-> json, arrived |-> arrived])
    /\ pc' = "destroy"
    /\ UNCHANGED <<answer, database, progress, request, dbFault>>

(* Mutant, for AtMostOneLeak: the destructor forgets mysql_close.          *)
DestroyLeaving ==
    /\ pc = "destroy"
    /\ \/ /\ pc' = "idle"
          /\ UNCHANGED <<database, answer, progress, request, replies>>
       \/ mysqlOk = "junk" /\ Crash
    /\ UNCHANGED dbFault

(* Mutant, for DiesOnlyWhenProvoked: the handle is closed a second time.   *)
DestroyTwice ==
    /\ pc = "destroy"
    /\ \/ /\ pc' = "idle" /\ mysqlOk = "no"
          /\ UNCHANGED <<database, answer, progress, request, replies>>
       \/ mysqlOk # "no" /\ Crash
    /\ UNCHANGED dbFault

(* ~CarJudgedAlgorithm: closes the connection if mysql_ok.  In the object  *)
(* of a malformed request mysql_ok and mysql are whatever the stack held:  *)
(* the process may die.                                                    *)
Destroy ==
    /\ pc = "destroy"
    /\ \/ /\ pc' = "idle"
          /\ conns' = IF mysqlOk = "yes" THEN conns - 1 ELSE conns
          /\ UNCHANGED <<mysqlOk, sets, answer, progress, request, replies>>
       \/ mysqlOk = "junk" /\ Crash
    /\ UNCHANGED dbFault

Step ==
    \/ RejectMalformed \/ IgnoreRequest \/ RefuseFields \/ Dispatch
    \/ ConnectDatabase \/ BuildQuery
    \/ QueryFails \/ StoreFails \/ StoreResult
    \/ NoData \/ NoFields \/ NullColumn \/ ReadRows
    \/ ScanPaths \/ Conclude
    \/ SingleFails \/ SingleNoFields \/ SingleReport
    \/ ChunkFails \/ ReadChunk \/ WriteReport
    \/ TooFewSightings \/ WriteFootholds \/ FreeResults
    \/ AwaitReadable \/ SendJson \/ Destroy

Next == (\E r \in Requests : Receive(r)) \/ Step

Safe == Init /\ [][Next]_vars

(* The thread runs and the calls it makes to MySQL and to the broker       *)
(* return; nothing forces a client to send a request.                      *)
Spec == Safe /\ WF_vars(Step)

-----------------------------------------------------------------------------
(* Types; a report is read in at most Chunks queries.                      *)
TypeOK ==
    /\ pc \in PcType
    /\ req \in RequestType
    /\ json \in Texts
    /\ ok \in BOOLEAN
    /\ mysqlOk \in {"yes", "no", "junk"}
    /\ conns \in Nat /\ sets \in Nat
    /\ rows \in 0..2 /\ targets \in BOOLEAN /\ step \in 0..Chunks
    /\ dbFault \in BOOLEAN
    /\ served \in Nat /\ base \in Nat
    /\ replies \in Seq(Reply)

Answered == replies # <<>> /\ replies[Len(replies)].n = served
Body == replies[Len(replies)].body

(* A failure of the database is told to the client and to nobody else: a   *)
(* task in which MySQL failed is never answered by a report, by "no data"  *)
(* or by an empty text, and a task in which it did not fail is not answered*)
(* by a MySQL error, the foothold query with its missing parenthesis       *)
(* excepted.  It joins the error paths of all nine tasks to SendJson.      *)
FaultsAreReported ==
    pc = "destroy" =>
        /\ dbFault => Body = "mysql"
        /\ Body = "mysql" => dbFault \/ ~QueryIsSound

(* A report is a whole one: it is made for at least one plate (or from two *)
(* sightings or more), every chunk of it has been read, and the half-way   *)
(* texts of the object (the empty one, and the short path's message, which *)
(* sets ok before the task is over) never reach the client.                *)
AnswersAreFinal ==
    pc = "destroy" =>
        /\ Body \notin {"unset", "short"}
        /\ Body = "report" => \/ req.form = "plate" /\ targets
                              \/ req.form = "foothold" /\ rows = 2
                              \/ targets /\ step = Chunks
        /\ req.form = "malformed" <=> Body = "format"

(* What a task may leave behind when it is over: at most one object, be it *)
(* a result set or a connection, and none if it was answered by a report.  *)
AtMostOneLeak ==
    pc = "idle" =>
        /\ conns + sets \in {base, base + 1}
        /\ Answered /\ Body = "report" => conns + sets = base

(* The process dies only on a request that lacks a field, a list element   *)
(* or proper JSON, or after MySQL failed or returned a NULL column: a      *)
(* well-formed request cannot bring it down on a healthy database.         *)
DiesOnlyWhenProvoked ==
    pc = "crashed" => dbFault \/ ~WellFormed

(* No request is answered twice and answers keep the order of requests.    *)
OneAnswerEach ==
    \A i, j \in 1..Len(replies) : i < j => replies[i].n < replies[j].n

(* How a client sees the state of the service.                             *)
Phase == CASE pc = "idle" -> "idle"
           [] pc = "crashed" -> "down"
           [] pc = "destroy" -> "answered"
           [] OTHER -> "pending"

Kind(body) == IF body = "report" THEN "report" ELSE "error"

Promise == INSTANCE RequestReply WITH
    phase <- Phase,
    task <- req.form \in Tasks,
    asked <- served,
    log <- [i \in 1..Len(replies) |-> [n |-> replies[i].n, kind |-> Kind(replies[i].body)]],
    held <- IF pc \in {"idle", "crashed"} THEN conns + sets ELSE base

(* The nine tasks with all their returns implement the promise of          *)
(* RequestReply: JsonParser takes, answers and finishes one request after  *)
(* the other, and CarJudgedAlgorithm gives back what it took.              *)
KeepsPromise == Promise!Spec

(* The two returns that leave neither a report nor an error: those of the  *)
(* second query of a plate task, which has found the plate faked by then,  *)
(* and that of a foothold task with one sighting.                          *)
Untold == \/ req.form = "plate" /\ targets /\ dbFault
          \/ req.form = "foothold" /\ rows = 1

(* The thread spins on IsReadable, which no one will make true.            *)
Hangs == pc = "await" /\ ~ok /\ Untold

(* No other return leads to the loop with ok unset: the failed connection, *)
(* the first query, a result without rows or columns, the chunks and the   *)
(* lists without a plate all have set it, in whatever task.                *)
OnlyTwoReturnsHang == pc = "await" /\ ~ok => Untold

(* Every request is over eventually, answered if it was well-formed: by a  *)
(* report or an error, whatever the database does.  The exceptions: a      *)
(* request that lacks something or a fault of the database (a NULL column, *)
(* a missing result set) may end the process, and the failed second query  *)
(* of a plate task or a foothold task with one sighting hangs the thread.  *)
Settles ==
    \A n \in 1..MaxRequests :
        pc = "parse" /\ served = n
            ~> /\ served = n
               /\ \/ pc = "idle" /\ (WellFormed => Answered)
                  \/ pc = "crashed" /\ (WellFormed => dbFault)
                  \/ Hangs

(* The protocol's section on errors gives every failed task an error       *)
(* answer: a request that is a task is answered unless the process dies.   *)
EveryTaskIsAnswered ==
    pc = "parse" /\ WellFormed ~> (Answered \/ pc = "crashed")
=============================================================================
