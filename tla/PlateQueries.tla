---------------------------- MODULE PlateQueries ----------------------------
(***************************************************************************)
(* Which plates TaskCode 1 to 6 report: the query each task sends to MySQL *)
(* and the loop that reads its rows into targetplates.                     *)
(***************************************************************************)
EXTENDS NightWindow, Sequences, FiniteSets, Functions

CONSTANTS
    Plates, NULL,          \* the column PlateNo; NULL: the plate was not read
    Tollgates,
    Near,                  \* the 60 seconds of CorrelationAnalysis
    CorrelationThresold, TrajectoryThresold,
    Requests, Tables(_)    \* the requests, and the tables each is tried on

Tasks == {"correlation", "trajectory", "firsttime", "actinnight", "actinnightF", "hidden"}

RequestType ==
    [task : Tasks, tollgates : SUBSET Tollgates,
     plates : SUBSET Plates,       \* the target, or the plates to filter
     from : Nat,                   \* backtracingTime of HiddenVehicle
     st : Nat, et : Nat,
     sdt : TimeOfDay, edt : TimeOfDay, snt : TimeOfDay, ent : TimeOfDay,
     thershold : Nat]

Sighting == [plate : Plates \cup {NULL}, device : Tollgates, at : Nat]

ASSUME PlatesAssumption == NULL \notin Plates
ASSUME ThresholdsAssumption ==
    Near \in Nat /\ CorrelationThresold \in Nat /\ TrajectoryThresold \in Nat
ASSUME RequestsAssumption ==
    \A r \in Requests : r \in RequestType /\ Tables(r) \subseteq Seq(Sighting)

VARIABLES
    request,
    table,          \* MotorVehicle, a row for each sighting
    pc,
    rows,           \* the result set: a plate and its count
    i,              \* the row to be read
    targetplates

vars == <<request, table, pc, rows, i, targetplates>>

Ids == DOMAIN table
Task == request.task

Init ==
    /\ request \in Requests /\ table \in Tables(request)
    /\ pc = "ask" /\ rows = <<>> /\ i = 1 /\ targetplates = <<>>

-----------------------------------------------------------------------------
(* The conditions of the queries.                                          *)
InTime(id) == request.st <= table[id].at /\ table[id].at <= request.et
AtTollgates(id) == table[id].device \in request.tollgates

Clock(id) ==
    LET t == table[id].at % (Hours * Minutes)
    IN  [hour |-> t \div Minutes, minute |-> t % Minutes]

AtNight(id) == AtTollgates(id) /\ InTime(id) /\ InNight(Clock(id), request.snt, request.ent)
ByDay(id) == AtTollgates(id) /\ InTime(id) /\ Between(Clock(id), request.sdt, request.edt)

(* The case has no ELSE: a pair in the same second is not selected.        *)
Meets(a, b) ==
    /\ table[a].plate \in request.plates /\ InTime(a)
    /\ table[b].plate \notin request.plates \cup {NULL}
    /\ table[a].device = table[b].device
    /\ \/ table[a].at < table[b].at /\ table[b].at - table[a].at < Near
       \/ table[a].at > table[b].at /\ table[a].at - table[b].at < Near

Of(p, ids) == {id \in ids : table[id].plate = p}
Groups(ids) == {table[id].plate : id \in ids}

(* GROUP BY PlateNo, with COUNT(PlateNo), which does not count NULL, or    *)
(* with COUNT(AppearTime), which does.                                     *)
Row(p, n) == [plate |-> p, count |-> n]
CountPlateNo(p, ids) == IF p = NULL THEN 0 ELSE Cardinality(Of(p, ids))
CountAppearTime(p, ids) == Cardinality(Of(p, ids))

Correlation ==
    LET pairs == {ab \in Ids \X Ids : Meets(ab[1], ab[2])}
        met(p) == {ab \in pairs : table[ab[2]].plate = p}
    IN  {Row(p, Cardinality(met(p))) : p \in {table[ab[2]].plate : ab \in pairs}}

AtTollgatesInTime == {id \in Ids : AtTollgates(id) /\ InTime(id)}

(* Mutant, for DiesOfUnread: the rows of a group are counted, NULL or not. *)
TrajectoryCountsRows ==
    {Row(p, CountAppearTime(p, AtTollgatesInTime)) : p \in Groups(AtTollgatesInTime)}

Trajectory ==
    {Row(p, CountPlateNo(p, AtTollgatesInTime)) : p \in Groups(AtTollgatesInTime)}

FirstTime == {row \in Trajectory : row.count = 1}

(* RIGHT JOIN: every plate seen at night, with its sightings by day, if    *)
(* any; NULL does not join.  The quotient of a row that does not join is   *)
(* 100, and HAVING asks for more than 1.                                   *)
ActInNight ==
    LET night == {id \in Ids : AtNight(id)}
        day == {id \in Ids : ByDay(id)}
        joined(p) == IF p = NULL THEN 0 ELSE CountAppearTime(p, day)
    IN  {Row(p, CountAppearTime(p, night)) :
            p \in {q \in Groups(night) : joined(q) = 0
                                            \/ CountAppearTime(q, night) > joined(q)}}

ActInNightF ==
    LET night == {id \in Ids : AtNight(id)}
    IN  {row \in {Row(p, CountAppearTime(p, night)) : p \in Groups(night)} :
            row.count > request.thershold}

(* Before the case, from backtracingTime to st, and after it, to           *)
(* followupTime: st is in both.                                            *)
BeforeCase == {id \in Ids : AtTollgates(id) /\ request.from <= table[id].at
                                            /\ table[id].at <= request.st}
AfterCase == {id \in Ids : AtTollgates(id) /\ InTime(id)}

(* Mutant, for NoHiddenVehicleMissed: JOIN in the place of LEFT JOIN.      *)
HiddenJoined ==
    {Row(p, CountAppearTime(p, BeforeCase)) :
        p \in (Groups(BeforeCase) \cap Groups(AfterCase)) \ (request.plates \cup {NULL})}

(* LEFT JOIN: what was seen after the case is counted and no row depends   *)
(* on it.  NULL NOT IN (...) is not true.                                  *)
Hidden ==
    {Row(p, CountAppearTime(p, BeforeCase)) :
        p \in Groups(BeforeCase) \ (request.plates \cup {NULL})}

Result ==
    CASE Task = "correlation" -> Correlation
      [] Task = "trajectory" -> Trajectory
      [] Task = "firsttime" -> FirstTime
      [] Task = "actinnight" -> ActInNight
      [] Task = "actinnightF" -> ActInNightF
      [] Task = "hidden" -> Hidden

(* Two tasks ask for ORDER BY count DESC.                                  *)
HasCut == Task \in {"correlation", "trajectory"}

Orders(result) ==
    {s \in [1..Cardinality(result) -> result] :
        /\ IsInjective(s)
        /\ HasCut => \A j, k \in DOMAIN s : j < k => s[j].count >= s[k].count}

Query ==
    /\ pc = "ask"
    /\ rows' \in Orders(Result)
    /\ pc' = IF Result = {} THEN "nodata" ELSE "read"
    /\ UNCHANGED <<request, table, i, targetplates>>

-----------------------------------------------------------------------------
Thresold == IF Task = "correlation" THEN CorrelationThresold ELSE TrajectoryThresold

(* Mutant, for TopPlatesReported: the rows at the cut are cut off as well. *)
BelowTheCutOrAt(row) == HasCut /\ row.count <= rows[1].count - Thresold

(* max is the count of the first row.                                      *)
BelowTheCut(row) == HasCut /\ row.count < rows[1].count - Thresold

Reading == pc = "read" /\ i <= Len(rows) /\ ~BelowTheCut(rows[i])

ReadPlate ==
    /\ Reading /\ rows[i].plate # NULL
    /\ targetplates' = Append(targetplates, rows[i].plate)
    /\ i' = i + 1
    /\ UNCHANGED <<request, table, pc, rows>>

(* Mutant, for TypeOK: a NULL is read like a plate.                        *)
ReadNullOn ==
    /\ Reading /\ rows[i].plate = NULL
    /\ targetplates' = Append(targetplates, rows[i].plate)
    /\ i' = i + 1
    /\ UNCHANGED <<request, table, pc, rows>>

(* A std::string of a null pointer.                                        *)
ReadNull ==
    /\ Reading /\ rows[i].plate = NULL
    /\ pc' = "crashed"
    /\ UNCHANGED <<request, table, rows, i, targetplates>>

(* The break, or the last row was read; the report is written.             *)
ReadEnd ==
    /\ pc = "read" /\ ~Reading
    /\ pc' = "report"
    /\ UNCHANGED <<request, table, rows, i, targetplates>>

Next == Query \/ ReadPlate \/ ReadNull \/ ReadEnd

Spec == Init /\ [][Next]_vars

-----------------------------------------------------------------------------
(* Types, and what was read so far: the plates of the rows before i, in    *)
(* their order.                                                            *)
TypeOK ==
    /\ request \in Requests /\ table \in Tables(request)
    /\ pc \in {"ask", "nodata", "read", "report", "crashed"}
    /\ rows \in Seq([plate : Plates \cup {NULL}, count : Nat])
    /\ i \in 1..(Len(rows) + 1)
    /\ targetplates \in Seq(Plates)
    /\ Len(targetplates) = i - 1
    /\ \A k \in DOMAIN targetplates : targetplates[k] = rows[k].plate

Over == pc \in {"report", "nodata"}
Reported == {targetplates[k] : k \in DOMAIN targetplates}

(* How often p passed the same tollgate as the target, in less than Near   *)
(* of it and not in the same second; how often it passed the tollgates.    *)
Meetings(p) ==
    {ab \in Ids \X Ids :
        /\ table[ab[1]].plate \in request.plates /\ table[ab[2]].plate = p
        /\ table[ab[1]].device = table[ab[2]].device /\ InTime(ab[1])
        /\ table[ab[1]].at - table[ab[2]].at \in ((1 - Near)..(Near - 1)) \ {0}}
Passages(p) == Of(p, AtTollgatesInTime)
Times(p) == Cardinality(IF Task = "correlation" THEN Meetings(p) ELSE Passages(p))

Candidates == IF Task = "correlation" THEN Plates \ request.plates ELSE Plates

(* The accompanying and the colliding tasks report every plate that was    *)
(* counted at most the threshold less than any other, once, and no plate   *)
(* that was not; the task of first entries every plate counted once.       *)
TopPlatesReported ==
    Over =>
        /\ IsInjective(targetplates)
        /\ HasCut =>
              Reported = {p \in Candidates :
                             /\ Times(p) > 0
                             /\ \A q \in Candidates : Times(q) <= Times(p) + Thresold}
        /\ Task = "firsttime" => Reported = {p \in Plates : Times(p) = 1}

(* How often p was seen at night, and by day, as the request means them; a *)
(* night within one hour is the exception, and lasts all day.              *)
AskedFor(t) ==
    WithinOneHour(request.snt, request.ent) \/ NightAskedFor(t, request.snt, request.ent)
Nights(p) == Cardinality({id \in Passages(p) : AskedFor(Clock(id))})
Days(p) ==
    Cardinality({id \in Passages(p) : Between(Clock(id), request.sdt, request.edt)})

(* The night tasks report the plates seen more often in the night asked    *)
(* for than by day, or more often than the threshold.                      *)
NightsReported ==
    Over =>
        /\ Task = "actinnight" => Reported = {p \in Plates : Nights(p) > Days(p)}
        /\ Task = "actinnightF" => Reported = {p \in Plates : Nights(p) > request.thershold}

(* Who was seen before the case and not after it is reported, unless it is *)
(* filtered; that others are reported too is not excluded.                 *)
NoHiddenVehicleMissed ==
    Over /\ Task = "hidden" =>
        \A p \in Plates \ request.plates :
            Of(p, BeforeCase) # {} /\ (\A id \in Of(p, AfterCase) : table[id].at = request.st)
                => p \in Reported

(* A plate that was not read brings the process down exactly when it was   *)
(* seen at night (more often than the threshold), or at the tollgates when *)
(* no plate was seen there more often than the threshold of the cut.       *)
UnreadReported ==
    \/ /\ Task = "trajectory" /\ Passages(NULL) # {}
       /\ \A p \in Plates : Cardinality(Passages(p)) <= TrajectoryThresold
    \/ Task = "actinnight" /\ \E id \in Of(NULL, Ids) : AtNight(id)
    \/ Task = "actinnightF" /\ Cardinality({id \in Of(NULL, Ids) : AtNight(id)})
                                  > request.thershold

DiesOfUnread == (Over => ~UnreadReported) /\ (pc = "crashed" => UnreadReported)
=============================================================================
