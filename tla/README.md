# Models of the car-judging service

`mtaopai` is a Windows service in C++: it takes requests in JSON from a RabbitMQ
queue, runs one of nine judging tasks over a MySQL database of vehicle sightings
(fake plates, accompanying cars, colliding trajectories, night activity, hidden
vehicles, footholds), and publishes an answer in JSON. This directory holds TLA+
models of it, the TLC runs that check them, and proofs that TLAPS checks.

## 1. The system

| Part | Code | State | Operations |
|---|---|---|---|
| Entry | `mtaopai.cpp` | one `CAmqpImply` | `main` starts it in mode 0 and spins; `receive` is its callback: one `JsonParser` per message |
| Receiving | `AmqpSample.cpp`, `CAmqpImply`, `ReceiveThread` | `m_bEndThread`, `m_bIsEnd`, `m_nMQMode`; in the thread one `CAmqpSample`, `CAmqpAck` or `CAmqpRpc` with its connection and buffers | `BeginRecieve`, `BeginRecieve_Ack`, `BeginRecieve_Rpc`, the loop of the thread (connect, declare, bind, consume, call back, reconnect), the destructor |
| Sending | `CAmqpSample`, `JsonParser::SendJson` | a connection for one answer | connect, declare the exchange, publish, destroy |
| Requests | `JsonParser.cpp` | the parsed tree | read the JSON, choose by `TaskCode`, take the fields, build a `CarJudgedAlgorithm`, run it, wait until it is readable, send its text |
| Judging | `CarJudgedAlgorithm.cpp` | `mysql`, `mysql_ok`, `json`, `ok`, result sets | nine tasks, `EncapsulteMysqlError`, three writers of reports |
| Unused | `threadpool.*`, `test`, `*_Thread` functions no call reaches | | |

How they interact: the receiving thread calls `receive`, which does everything else
synchronously, so requests are handled one after the other and the broker's next
messages wait in the socket: the consumer does not acknowledge, so the prefetch of one
does not bind, and what waits there is gone when the process is. `JsonParser` and `CarJudgedAlgorithm` share the pair
`json`/`ok`: a task is over when `ok` is true, and what `json` holds then is sent.
The owner of a `CAmqpImply` and its thread share two plain Booleans. MySQL and the
broker are separate processes that may fail at each call.

What is hard:

- *error paths*: every task has six to ten ways to return, and each must leave a text
  in `json`, set `ok`, and free what it took. The caller waits for `ok` without a
  time limit, so a return that sets no text stops the service;
- *half-way state*: the same `json`/`ok` pair carries intermediate messages;
- *reconnection*: a connection may break between a delivery, the callback and the
  acknowledgement; in mode 1 two classes take turns on one queue;
- *teardown*: the destructor and the thread synchronise with two Booleans that both
  of them write;
- *one process*: a task that throws ends the program, a task that never sets `ok` stops
  it, and the queue outlives both;
- *queries*: which plates are found depends on inner and outer joins, on what `COUNT` does
  with NULL, on windows of time of day that may pass midnight, and on a cut below the
  highest count;
- *scans*: the decision of a fake plate compares neighbours only, the foothold scan
  looks at the plate only inside the test of the duration, the report reads ranges
  that overlap by one id and keeps one row of each plate.

What makes each part right: every request is answered exactly once, by an error if and
only if something failed, and leaves nothing behind; no message is lost or settled
twice and the thread survives errors; a scan finds what its definition says, of every
plate and under its own name; a report has all that was found.

`PROJECT.json` lists, under `hazards`, where in the code each of these can go wrong and
which property watches it.

## 2. The modules

### RequestReply

What the service promises, without tasks or databases: a request is taken, then passed
over, answered by a report or an error, or the process dies of it; an answered request
is finished before the next is taken, leaves nothing behind after a report and one
object at most otherwise. `JudgeTask` implements it: `KeepsPromise` maps the label of
the thread to `phase`, the calls of `SendJson` to `log`, and the connections and result
sets that are still held between two requests to `held`.

### JudgeTask (with MCJudgeTask, JudgeTaskProofs, JudgeTaskRefines)

One request after another from `receive` to the destructor of the
`CarJudgedAlgorithm` object. `pc` is where the receiving thread is; `json`, `ok` and
`mysqlOk` are the members of the object (`json` by kind of text); `conns` and `sets`
count what the process holds of MySQL; `rows`, `targets` and `step` are the locals that
decide control: how many rows (none, one, several), whether there is a plate to
report, how many ranges were read. `dbFault`, `served`, `base` and `replies` are history.

The nine tasks are one automaton with the request's form as a guard where they differ:
`ChecksResultFirst` (three tasks test the result pointer before they count rows),
`ReadsNullable`, `QueryIsSound`, and the different ends (`Single...` for
`EncapsulateFakePlatetoJson`, `Chunk...` for `EncapsulateFakePlatetoJsonThread`,
`...Footholds`). An action covers the code between two calls to MySQL or the
broker. A read of memory nobody wrote (`mysql_ok` of the default-constructed object in
the error path of a malformed request) is a choice in `Destroy`. A process that dies
stays dead: nothing in the repository restarts it.

### AmqpReceive (with MCAmqpReceive, AmqpReceiveProofs)

The owner, the receiving thread, the connection and the broker's queue. `th` is where
`ReceiveThread` is and `block` whose of its three blocks it runs. The two assignments
at its start, the test of the end flag and the setting of `m_bIsEnd` are actions of
their own, so that they interleave with the destructor. The broker is modelled as the code uses it: the
queue is durable and not exclusive, a consumer in mode 0 does not acknowledge, a
prefetch of one binds only an acknowledging consumer, and what is not acknowledged
goes back to the head of the queue when the connection is gone. A break is seen by both
ends at once (`Lose`). `Connect` passes a heartbeat of 0 (`AmqpSample.cpp:53`), so a half-open
connection is possible, which the model does not have: while the broker keeps the old consumer beside the
new one, the order across reconnections and the head-of-line blocking are not assured, and a thread that
keeps a connection the broker gave up waits for ever. Messages are numbered
in the order of their publication, so the queue and what the broker waits to hear of are
sets, of which the smallest is delivered first. `Fail` bounds the
faults of the environment. `m_bEndThread` has any value before the thread writes it, as
the constructor leaves it. After a destructor that does not wait for the thread
(`raced`, see `TeardownIsSafe`) the thread may do or die as the freed memory has it (`UseAfterFree`).

### FootholdScan (with MCFootholdScan, FootholdScanProofs)

The loop of `FootholdAnalysis`: `rows` is the result in the order of the query, `i` the
row to be read, `footholdstree` and `listtree` the two trees. A foothold is named by
the index of its second row. The difference of two times is signed and is compared with
an unsigned duration: `AsUnsigned` is that conversion, with `Word` for 2^64.

### SpeedScan (with MCSpeedScan, SpeedScanProofs)

`IsFakePlateVehicle` and the path it is given by the two tasks of `TaskCode` 0. The
distance is any metric on the tollgates, in whole units; `Speeding` says what the
comparison of doubles says at a difference of zero as well (infinite speed, or not a
number and hence not greater). `ColumnTime` is the column that is read: the advanced task
asks the map for a name it does not have. Rounding in the floating point is
not modelled.

### PlateReport (with MCPlateReport, PlateReportProofs)

The two writers of reports. `EncapsulateFakePlatetoJsonThread` (`writer = "ranges"`):
`table` is MotorVehicle, an id for each sighting; `datalist` is the map from plate to the
row it keeps, `listtree` the list of the answer. Which row of a plate comes last in a
range is a choice, as the query orders by plate only. `EncapsulateFakePlatetoJson` and
`EncapsulateJson` (`writer = "single"`): one query of the one plate that was accused;
the branch of `EncapsulateJson` for a change of plate cannot be reached from it.
`joined` are the sightings with a row in each of the four tables that both queries join:
`Lane` and `Tollgate` (by the device), `ColorType` and `VehicleBrandType`. The queries of
`TaskCode` 1 to 6 that found the plates join none of them, and that of a plate task only the
first two, so any sighting may fail to be in `joined`; the four tables are taken not to change
while a report is read. `Record` is a camera that records a
sighting between two queries; `old` remembers what had been recorded when the plates
were found, which is what the properties promise a report of.

### NightWindow

Times of day and `NightRange`: the condition that the queries of `TaskCode` 4, 5 and 7
put on `AppearTime`, `InNight`, next to what a request for a night means,
`NightAskedFor`. A day has `Hours` hours of `Minutes` units, of any number.

### PlateQueries (with MCPlateQueries, PlateQueriesProofs)

From a request of `TaskCode` 1 to 6 to `targetplates`. `Correlation`, `Trajectory`,
`FirstTime`, `ActInNight`, `ActInNightF` and `Hidden` are the six queries as sets of rows
of a plate and a count, with the joins and the NULLs as MySQL treats them: NULL is
equal to nothing and not unequal to anything either, `GROUP BY` makes a group of it,
`COUNT(PlateNo)` does not count it and `COUNT(AppearTime)` does. `rows` is the result in
one of the orders the query allows, `i` the row to be read; the loop breaks at the cut
(`BelowTheCut`) or dies of a plate that is NULL. `InNight` is taken from `NightWindow`.
Its properties are stated without the queries, from the sightings and the request. For
`TaskCode` 6 they say little, because the code does: the functional description
computes a ratio of the sightings after and before the case to tell who hides, the query
computes it too, and nothing reads it, so everybody who was seen before is reported.

### RequestFate, JudgeService (with MCJudgeService, JudgeServiceProofs)

`JudgeService` is the program as `main` builds it: `AmqpReceive` in mode 0, with `receive` as
its callback, and what a request does as `RequestReply` says, which `JudgeTask` implements
(that is proved). `Take` is the moment at which both parts step: the thread hands a
message over and a request is asked. `Hang` is a return that sets no text, after which
the thread is in `while (!c.IsReadable())`; `Die` an exception or a read of what is not
there, which ends the process with the connection (`ProcessEnds`). Nothing in the
repository ends or starts a process, so `Kill` and `Restart` are the environment's and
never forced; they are there because `Binding` declares a durable queue, which only
matters across restarts.

`RequestFate` is what a client may count on: requests are judged one at a time, in
the order of their publication and never twice; one that is not judged yet may be lost,
and only together with all that are before it (given that both ends see a break at once, as
in `AmqpReceive`). `ServesInOrder` shows that the service implements it: `fateOf` reads the
fate of a message off the queue, the buffer, the callback and the answers.

## 3. What the runs show

| Run | Shows |
|---|---|
| `JudgeTask` | `FaultsAreReported`: in all nine tasks a failure of MySQL is answered by a MySQL error and nothing else is. `AnswersAreFinal`: the half-way texts of the object are never published, and a report was read to its last range. `AtMostOneLeak`: a task leaves one result set or connection behind at most, and none after a report. `DiesOnlyWhenProvoked`: a well-formed request on a healthy database does not bring the process down. `OneAnswerEach`. `OnlyTwoReturnsHang`: the caller waits for a text in two cases only (`Untold`), the failed second query of a plate task that found a fake and a foothold task with one sighting. `Settles`: outside of these every request is over eventually, and a well-formed one is answered, whatever the database does, unless its failure killed the process. `KeepsPromise`: all of it implements `RequestReply` |
| `JudgeTaskAnswer` | that the exceptions of `Settles` are needed: a well-formed task can hang without an answer |
| `JudgeService` | `ServesInOrder`: the service implements `RequestFate`. `AnswersFollow`: no request is answered twice, out of order, or after it was passed over, across lost connections and restarts. `BrokerKeeps`: what was not delivered survives every failure. `EveryRequestIsOver`: every request is answered, passed over or lost on its way, unless a task hangs or the process is down. `ServiceTypeOK`: a request is at hand exactly while the callback runs with data |
| `AmqpReceive` | `AtLeastOnce` (modes 1 and 2), `AtMostOnce` (mode 0), `InOrder`, `SettledNeverAgain`: where every message is, at every moment, whatever connections break; `HeadOfLine`: with acknowledgements every message seen but the last is settled, so one that is never settled holds up the others; `TeardownIsSafe`: the destructor returns only when the thread has let go of the object, unless it began before the thread had written `m_bIsEnd` |
| `AmqpReceiveLive` | in every mode, with callbacks that settle what they are given, every message is taken or was lost with its connection in mode 0, and the destructor returns |
| `AmqpReceiveCrash` | a comment that promises otherwise: a refused login ends the process |
| `PlateQueries` | `TopPlatesReported`: the accompanying and the colliding tasks report exactly the plates counted at most the threshold less than every other, once each, and the task of first entries those counted once. `NightsReported`: the two night tasks report who was seen more often in the night asked for than by day, or than the threshold; a night within one hour lasts all day. `NoHiddenVehicleMissed`: who was seen before the case and not after it is reported. `DiesOfUnread`: exactly when a plate that was not read ends the process |
| `FootholdScan`, `FootholdMisfiled` | no foothold is lost or doubled, no plate has two entries; a foothold stands under a wrong plate only when the next plate follows within the duration, which does happen |
| `SpeedScan`, `SpeedScanAdvanced` | comparing neighbours is as good as comparing all pairs, for the plate task; the advanced task accuses the innocent |
| `PlateReport` | no plate is missed between ranges, the latest range wins, the answer has one sighting, and no more, of every plate with a row (a sighting the four joins keep) up to TOTAL, or all rows of the one plate of a single query, whatever is recorded meanwhile; `NamelessOnlyWhenUnjoined`: the entry is without a plate only when the joins dropped every sighting of the plates |

Weaknesses of the code that have no run of their own, because the properties that hold
name them: `AtMostOneLeak` allows one object, and the returns on "no data" do leave their
result set behind; `FaultsAreReported` excepts the foothold query of a window inside one
day, whose text lacks a parenthesis and which MySQL therefore always refuses;
`LatestRangeKept` says that of a plate's path one sighting remains; `NightsReported` excepts
a night within one hour; `Entry` of `PlateReport` is the one entry into which all reported
vehicles are written, though the protocol shows one for each; `BlockOf` and `Drop` of
`AmqpReceive` show that in mode 1 every second connection is served by the block of mode 2
(`m_nMQMode != 0`), whose callback gets a `CAmqpRpc`; the colliding task counts sightings at
the tollgates, not tollgates.

A run that ends in a violation states what a comment of the code or the protocol
document says; `findings` in `PROJECT.json` quotes it.

### Bounds

- `JudgeTask`: `MaxRequests = 2`, so that a task starts on what an earlier one left and answers of
  two requests meet (the proofs cover any number); `Chunks = 2` for the fifteen ranges, a first and a last one; rows are
  none, one or several because no task tells more apart. `AllRequests` has each form,
  and each defect in a form it exists for.
- `AmqpReceive`: four messages (one settled, one in the callback, one in a buffer, one in
  the queue) and three faults (a failure while recovering from a failure, twice); the live run has
  two of each, the run that ends in a violation what its counterexample takes.
- `JudgeService`: three messages and two lost connections, any number of restarts: one request may be
  answered, one lost in the socket and one wait, before and after a process died.
- `PlateQueries`: a day of three hours of two units and two days; all tables of three to five
  rows, as multisets, over what each task tells apart: two plates and the target, two tollgates, the
  second, the near and the far, the night, the day and neither; all 36
  windows of a night. Thresholds of one.
- `FootholdScan`: five rows of three plates over five times with a duration of two:
  a plate may have two footholds, and changes of plate within the duration, beyond it
  and backwards in time all occur. `Word = 64` is well above every difference.
- `SpeedScan`: four sightings at three places on a road, five times, so that a fast pair
  may be hidden behind two neighbours, and the same second and the same place occur.
- `PlateReport`: two ranges of width two over ids 1 to 5: ids on a border, inside, and
  beyond `TOTAL`; all tables of two plates, and all that may be recorded meanwhile.

`MaxRequests`, `MaxMessages`, `MaxFaults`, `MaxRows`, `MaxSightings`, `MaxPlate` and `MaxId` bound the
models; the code has no such limits. Runs say `CHECK_DEADLOCK FALSE` because these
systems may stop: no request is due, the process may be dead, a scan ends.

### Fairness

`JudgeTask` assumes that the one thread that handles requests runs and that the calls
to MySQL and the broker return (`WF_vars(Step)`); it assumes nothing of the outcome of
a call. `AmqpReceive` assumes that Windows schedules the receiving thread and the
owner's polling (`WF_vars(Thread)`, `WF_vars(DestructDone)`), and that the broker
delivers what it has to a consumer that may take it (`WF_vars(Push)`). Publishing,
destroying and failing are never forced. `ServiceSpec` assumes the same of the composed
program (`Main`, the thread outside and inside the callback, `Push`), and of the
tasks only that one which does not hang goes on (`Judge`): it may hang or die at any
moment instead, and nobody has to end or restart the process. The live run assumes callbacks that settle
what they are given: with one that never does, the first message comes back for ever.
No fairness is assumed of the scans, queries and reports, about which only safety is stated.

## 4. What is proved

Eight modules hold proofs that TLAPS checks, for every value of the constants that
satisfies the named assumptions, without the bounds of the runs.

- `JudgeTaskProofs`. The safety invariants of the run, over `Safe`, that is, without
  fairness. None of them is inductive: they speak of the moments at which a
  request is over, so `IInv` says what the object, the books and the log are at every
  `pc`. It joins `TypeOK`, `Story` (what is known of the request, `json`, `ok` and
  `dbFault` at each place of the thread: which of them an answer will show, and where
  `json` is still empty when the task returns, which gives `HangsExplained`), `Books`
  (how many connections and result sets are held beyond `base`) and `Log` (every
  reply is of an earlier request, or of this one once it was sent). Each is proved
  with one step for each action.
- `JudgeTaskRefines`. `PromiseKept`: `Safe => KeepsPromise`. Most steps are stutters
  (`SilentStutters`) or deaths (`CrashDies`); the four that a client or the host can see
  have a lemma each. `IInv` is needed where the promise says more than the code's guards:
  that only a task is answered by a report (`Story`), that the last answer is the
  task's own (`Log`), and what is left behind (`Books`, through `AtMostOneLeak`).
- `FootholdScanProofs`. `EveryFootholdOnce`, `OneEntryPerPlate` and
  `MisfiledOnlyWhenClose` for results of any length, from the order of the query and
  the assumption that `Word` exceeds every difference of times by the duration. The
  invariant adds where the collected footholds come from: they belong to the plate
  of the row before, or a close change of plates lies between.
- `SpeedScanProofs`. `CleanIsClean` and `FakeIsProven` for paths of any length. The
  invariant for the first says that no two sightings up to `i` are speeding; a step
  extends it by the triangle inequality of the distance and the order of the times.

- `AmqpReceiveProofs`. All safety properties of the run, for any number of messages and
  faults. `IInv` adds to the types: `Places` (in which of queue, buffer, callback, settled and
  dropped a message is, in mode 0 in exactly one, and all in the order of publication),
  `Blocks` (which block serves which mode, and that a consumer without acknowledgements
  leaves nothing unacknowledged), `Fresh` (nothing is handed over before the thread began), `Flags` (what the two Booleans say of the thread unless the
  destructor raced), and for the acknowledging modes `Unanswered` and `Acknowledged`: the
  broker waits for what is in the buffer or in the callback, settled messages are all
  before unsettled ones, and what the callback saw is settled or the first unsettled.
- `PlateReportProofs`. All properties of the run, for every table, range width and total,
  and any number of plates. What makes them inductive is `TypeOK` itself, which says that
  `step` is a multiple of `STEP` and that a plate is kept with a sighting of its own, and
  the place of the kept sighting among the ranges (`LatestRangeKept`).
- `JudgeServiceProofs`. All safety properties of the composed service, over `ServiceSafe`
  (`ServiceSpec` without fairness), for any number of messages, faults and restarts:
  `ServiceTypeOK`, `AnswersFollow`, `BrokerKeeps`, and `FateKept`, the refinement of
  `RequestFate`. It assumes what `main` does, that the thread is in mode 0
  (`ServiceAssumption`). Of the receiving thread it needs what survives a restart: that is
  `Core`, the part of `AmqpReceiveProofs`' invariant without `Fresh`, `Flags` and
  `Acknowledged`, which speak of one life of the object. `SInv` adds `Sampling` (what is
  lost is older than all that waits: an unacknowledging consumer takes the
  messages off the queue in order, and a connection takes its whole buffer along), `Jobs`
  (the job at hand is the last message handed over, and is at hand exactly
  while the callback has data) and `Outcomes` (answers are in the order of the requests
  and not to one passed over; the last is not the job at hand before its reply). For the
  refinement, `FateIsPlace` says that every message is in one place, so its fate can be read
  off where it is; each action that moves one is then a step of `RequestFate` and the
  others are stutters. In particular what a connection or a process takes along is
  the messages before all that wait, as `RequestFate` demands.
- `PlateQueriesProofs`. All properties of the run, for every table, request, threshold and
  length of the day and of the hour. First, each of the six queries gives a finite
  set of rows with at most one for a plate (`ResultRows`, `ResultFinite`), so every order MySQL
  may return holds each row once (`RowsAreTheResult`). The inductive invariant of the loop
  says that `rows` is such an order, that no row before `i` is below the cut, and why the
  loop stopped. From it follows `ReportedAreAbove`: the plates reported are those of the
  rows of `Above`, which is told without an order, because behind a row below the cut all
  are (`ReadUpToTheCut`). What is left is to compare `Above` with what each task
  promises: `MetAreMeetings` (the two cases on the seconds of the accompanying task are a
  distance), `TopAbove` (plates without a row count as zero), `NightPassages` (by
  `NightIsTheNightAskedFor`: `InNight` selects the night asked for except within one
  hour, by cases on `NightRange`), `UnreadAbove` (where NULL is among the rows).

Every safety property that a passing run checks is proved; the runs remain the
check that the theorems speak of states the models reach. Only model-checked is all
liveness (`Settles`, `EveryMessageIsTaken`, `EndsWhenAsked`,
`EveryRequestIsOver`): the prover does not reach liveness under fairness or `ENABLED`. Nor
is it proved that a result can always be ordered, which takes induction over its rows;
the run reaches the end of the loop from every one of its requests and tables.

## 5. What is not modelled

The text of queries and answers, character sets, and the arithmetic of doubles and of
MySQL's decimal quotient (`ActInNight` compares it with 1, which four decimals tell from
it below ten thousand sightings); `CAmqpRpc::RpcSend` from a callback, and what the broker
does with an answer once it was published; connections that are half open; frames outside the AMQP protocol (`Consume`
reports OK for one of them, see the hazards); the MySQL and RabbitMQ clients themselves.

Code that no call reaches: `test`, `thread`, `CommitThread`, `FakePlateVehicles_Thread`,
`FindFakePlateVehicle`, the writer of a vector of plates, the array templates of the
header, the thread pool. Of the implementation's lines the larger part, some 7,800, are
the headers of the MySQL client under `src/mtaopai/mysql/include`, which declare and do
not do anything; the program's own code has about 3,560 lines, a sixth of them in
functions that are never called.

## 6. Plan

What would add most next is `CAmqpRpc::RpcSend`, an answer over the connection the request
came on, in mode 2, with its effect on what the broker waits for; `main` does not use that
mode.
