------------------------- MODULE PlateQueriesProofs -------------------------
(***************************************************************************)
(* Which plates TaskCode 1 to 6 report, for every table of sightings, every*)
(* request, any thresholds and any length of the day and of the hour.      *)
(*                                                                         *)
(* The proof has three parts.  The result of each query is a finite set of *)
(* rows with at most one for a plate, and says what the count of a row is  *)
(* (ResultRows and the lemmas before it).  The loop, which sees the rows in*)
(* the order MySQL chose, reads those of Above, which is told without an   *)
(* order (IInv and ReportedAreAbove).  Each theorem then compares the rows *)
(* of Above with what the task promises.                                   *)
(***************************************************************************)
EXTENDS PlateQueries, FiniteSetTheorems, SequenceTheorems, TLAPS

(* The request and its table, as Init chooses them.                        *)
Data == request \in Requests /\ table \in Tables(request)

RowType == [plate : Plates \cup {NULL}, count : Nat]

(* A request is one, and a table is finite and holds sightings.            *)
LEMMA DataTypes ==
    ASSUME Data
    PROVE  /\ request \in RequestType
           /\ IsFiniteSet(Ids)
           /\ \A id \in Ids : table[id] \in Sighting
<1>1. request \in RequestType /\ table \in Seq(Sighting)
  BY RequestsAssumption DEF Data
<1>2. Len(table) \in Nat /\ Ids = 1..Len(table) /\ table \in [1..Len(table) -> Sighting]
  BY <1>1, LenProperties DEF Ids
<1>3. IsFiniteSet(Ids)
  BY <1>2, FS_Interval, 1 \in Int, Len(table) \in Int
<1> QED
  BY <1>1, <1>2, <1>3

LEMMA Counts ==
    ASSUME NEW S, IsFiniteSet(S)
    PROVE  Cardinality(S) \in Nat /\ (Cardinality(S) > 0 <=> S # {})
BY FS_CardinalityType, FS_EmptySet

(* GROUP BY makes a row for a plate that was seen, and COUNT(AppearTime) is *)
(* more than zero in it.                                                   *)
LEMMA GroupCounts ==
    ASSUME Data, NEW ids \in SUBSET Ids, NEW p
    PROVE  /\ CountAppearTime(p, ids) \in Nat
           /\ CountAppearTime(p, ids) > 0 <=> p \in Groups(ids)
           /\ CountPlateNo(p, ids) \in Nat
<1>1. Of(p, ids) \in SUBSET Ids
  BY DEF Of
<1>2. IsFiniteSet(Of(p, ids))
  BY <1>1, DataTypes, FS_Subset
<1>3. Of(p, ids) # {} <=> p \in Groups(ids)
  BY DEF Of, Groups
<1> QED
  BY <1>2, <1>3, Counts DEF CountAppearTime, CountPlateNo

LEMMA GroupPlates ==
    ASSUME Data, NEW ids \in SUBSET Ids
    PROVE  Groups(ids) \subseteq Plates \cup {NULL}
BY DataTypes DEF Groups, Sighting

LEMMA IdSets ==
    /\ AtTollgatesInTime \in SUBSET Ids
    /\ {id \in Ids : AtNight(id)} \in SUBSET Ids
    /\ {id \in Ids : ByDay(id)} \in SUBSET Ids
    /\ BeforeCase \in SUBSET Ids
    /\ AfterCase \in SUBSET Ids
BY DEF AtTollgatesInTime, BeforeCase, AfterCase

(* The pairs of sightings that Correlation joins; those with plate p.      *)
MeetingPairs == {ab \in Ids \X Ids : Meets(ab[1], ab[2])}
Met(p) == {ab \in MeetingPairs : table[ab[2]].plate = p}

(* What TopPlatesReported counts can be counted.                           *)
LEMMA MeetingsFinite ==
    ASSUME Data, NEW p
    PROVE  /\ IsFiniteSet(Meetings(p)) /\ Times(p) \in Nat
<1>1. IsFiniteSet(Ids \X Ids)
  BY DataTypes, FS_Product
<1>2. IsFiniteSet(Meetings(p))
  BY <1>1, FS_Subset DEF Meetings
<1>3. IsFiniteSet(Passages(p))
  BY DataTypes, FS_Subset DEF Passages, Of, AtTollgatesInTime
<1> QED
  BY <1>2, <1>3, Counts DEF Times

(* The two cases of the condition on the seconds, one for each order of the*)
(* pair, are the distances less than Near but zero.                        *)
LEMMA MetAreMeetings ==
    ASSUME Data, NEW p
    PROVE  Met(p) = IF p \in request.plates \cup {NULL} THEN {} ELSE Meetings(p)
<1>1. ASSUME NEW a \in Ids, NEW b \in Ids
      PROVE  (table[a].at < table[b].at /\ table[b].at - table[a].at < Near)
                \/ (table[a].at > table[b].at /\ table[a].at - table[b].at < Near)
             <=> table[a].at - table[b].at \in ((1 - Near)..(Near - 1)) \ {0}
  <2>1. table[a].at \in Nat /\ table[b].at \in Nat /\ Near \in Nat
    BY DataTypes, ThresholdsAssumption DEF Sighting
  <2> QED
    BY <2>1
<1>2. CASE p \in request.plates \cup {NULL}
  BY <1>2 DEF Met, MeetingPairs, Meets
<1>3. CASE p \notin request.plates \cup {NULL}
  <2>1. ASSUME NEW a \in Ids, NEW b \in Ids
        PROVE  Meets(a, b) /\ table[b].plate = p
               <=> /\ table[a].plate \in request.plates /\ table[b].plate = p
                   /\ table[a].device = table[b].device /\ InTime(a)
                   /\ table[a].at - table[b].at \in ((1 - Near)..(Near - 1)) \ {0}
    BY <1>1, <1>3 DEF Meets
  <2>2. \A ab \in Ids \X Ids : ab \in Met(p) <=> ab \in Meetings(p)
    BY <2>1 DEF Met, MeetingPairs, Meetings
  <2> QED
    BY <1>3, <2>2 DEF Met, MeetingPairs, Meetings
<1> QED
  BY <1>2, <1>3

(* The rows of the queries: a plate of a group, with its count.            *)
LEMMA CorrelationRows ==
    ASSUME Data, NEW row
    PROVE  row \in Correlation
             <=> \E p \in Plates \ request.plates :
                    Meetings(p) # {} /\ row = Row(p, Cardinality(Meetings(p)))
<1>1. Correlation = {Row(p, Cardinality(Met(p))) :
                       p \in {table[ab[2]].plate : ab \in MeetingPairs}}
  BY DEF Correlation, Met, MeetingPairs
<1>2. ASSUME NEW p
      PROVE  p \in {table[ab[2]].plate : ab \in MeetingPairs} <=> Met(p) # {}
  BY DEF Met
<1>3. ASSUME NEW p, Met(p) # {}
      PROVE  p \in Plates \ request.plates
  <2>1. PICK ab \in Ids \X Ids : Meets(ab[1], ab[2]) /\ table[ab[2]].plate = p
    BY <1>3 DEF Met, MeetingPairs
  <2> QED
    BY <2>1, DataTypes DEF Meets, Sighting
<1>4. ASSUME NEW p \in Plates \ request.plates
      PROVE  Met(p) = Meetings(p)
  BY MetAreMeetings, PlatesAssumption
<1> QED
  BY <1>1, <1>2, <1>3, <1>4

LEMMA TrajectoryRows ==
    ASSUME NEW row
    PROVE  row \in Trajectory
             <=> \E p \in Groups(AtTollgatesInTime) :
                    row = Row(p, CountPlateNo(p, AtTollgatesInTime))
BY DEF Trajectory

(* What was seen at night, and how often p was seen by day in the join.    *)
AtNightIds == {id \in Ids : AtNight(id)}
Joined(p) == IF p = NULL THEN 0 ELSE CountAppearTime(p, {id \in Ids : ByDay(id)})

LEMMA ActInNightRows ==
    ASSUME NEW row
    PROVE  row \in ActInNight
             <=> \E p \in Groups(AtNightIds) :
                    /\ Joined(p) = 0 \/ CountAppearTime(p, AtNightIds) > Joined(p)
                    /\ row = Row(p, CountAppearTime(p, AtNightIds))
<1> DEFINE S == {q \in Groups(AtNightIds) :
                   Joined(q) = 0 \/ CountAppearTime(q, AtNightIds) > Joined(q)}
<1>1. ActInNight = {Row(p, CountAppearTime(p, AtNightIds)) : p \in S}
  BY DEF ActInNight, AtNightIds, Joined
<1> QED
  BY <1>1

(* A result has at most one row for a plate.                               *)
Functional(R) == \A a, b \in R : a.plate = b.plate => a = b

(* So do all six results.                                                  *)
LEMMA ResultRows ==
    ASSUME Data
    PROVE  Result \subseteq RowType /\ Functional(Result)
<1>0. Task \in Tasks
  BY DataTypes DEF RequestType, Task
<1>1. Correlation \subseteq RowType /\ Functional(Correlation)
  <2>1. \A p : Cardinality(Meetings(p)) \in Nat
    BY MeetingsFinite, Counts
  <2> QED
    BY <2>1, CorrelationRows DEF RowType, Functional, Row
<1>2. Trajectory \subseteq RowType /\ Functional(Trajectory)
  <2>1. \A p \in Groups(AtTollgatesInTime) :
           p \in Plates \cup {NULL} /\ CountPlateNo(p, AtTollgatesInTime) \in Nat
    BY IdSets, GroupCounts, GroupPlates
  <2> QED
    BY <2>1, TrajectoryRows DEF RowType, Functional, Row
<1>3. FirstTime \subseteq RowType /\ Functional(FirstTime)
  BY <1>2 DEF FirstTime, Functional
<1>4. ASSUME NEW ids \in SUBSET Ids, NEW S \in SUBSET Groups(ids)
      PROVE  LET R == {Row(p, CountAppearTime(p, ids)) : p \in S}
             IN  R \subseteq RowType /\ Functional(R)
  <2>1. \A p \in S : p \in Plates \cup {NULL} /\ CountAppearTime(p, ids) \in Nat
    BY GroupCounts, GroupPlates
  <2> QED
    BY <2>1 DEF RowType, Functional, Row
<1>5. ActInNight \subseteq RowType /\ Functional(ActInNight)
  BY <1>4, IdSets DEF ActInNight
<1>6. ActInNightF \subseteq RowType /\ Functional(ActInNightF)
  BY <1>4, IdSets DEF ActInNightF, Functional
<1>7. Hidden \subseteq RowType /\ Functional(Hidden)
  BY <1>4, IdSets DEF Hidden
<1> QED
  BY <1>0, <1>1, <1>2, <1>3, <1>5, <1>6, <1>7 DEF Result, Tasks

(* A plate of a row is one of the table.                                   *)
LEMMA PlatesOfRows ==
    ASSUME Data, NEW row \in Result
    PROVE  row.plate \in Groups(Ids)
<1>0. Task \in Tasks
  BY DataTypes DEF RequestType, Task
<1>1. ASSUME NEW ids \in SUBSET Ids
      PROVE  Groups(ids) \subseteq Groups(Ids)
  BY DEF Groups
<1>2. ASSUME row \in Correlation PROVE row.plate \in Groups(Ids)
  <2>1. PICK p : Meetings(p) # {} /\ row.plate = p
    BY <1>2, CorrelationRows DEF Row
  <2>2. PICK ab \in Ids \X Ids : table[ab[2]].plate = p
    BY <2>1 DEF Meetings
  <2> QED
    BY <2>1, <2>2 DEF Groups
<1>3. row \in Trajectory => row.plate \in Groups(Ids)
  BY <1>1, IdSets, TrajectoryRows DEF Row
<1>4. row \in FirstTime => row.plate \in Groups(Ids)
  BY <1>3 DEF FirstTime
<1>5. row \in ActInNight => row.plate \in Groups({id \in Ids : AtNight(id)})
  BY ActInNightRows DEF AtNightIds, Row
<1>6. row \in ActInNightF => row.plate \in Groups({id \in Ids : AtNight(id)})
  BY DEF ActInNightF, Row
<1>7. row \in Hidden => row.plate \in Groups(Ids)
  BY <1>1, IdSets DEF Hidden, Row
<1> QED
  BY <1>0, <1>1, <1>2, <1>3, <1>4, <1>5, <1>6, <1>7, IdSets DEF Result, Tasks

(* Hence a result is finite: its rows are told apart by their plates.      *)
LEMMA ResultFinite ==
    ASSUME Data
    PROVE  IsFiniteSet(Result)
<1>1. IsFiniteSet(Groups(Ids))
  <2> DEFINE f == [id \in Ids |-> table[id].plate]
  <2>1. f \in Surjection(Ids, Groups(Ids))
    BY DEF Surjection, Groups
  <2> HIDE DEF f
  <2> QED
    BY <2>1, DataTypes, FS_Surjection
<1> DEFINE f == [row \in Result |-> row.plate]
<1>2. f \in [Result -> Groups(Ids)]
  BY PlatesOfRows
<1>3. \A a, b \in Result : f[a] = f[b] => a = b
  BY ResultRows DEF Functional
<1>4. f \in Injection(Result, Groups(Ids))
  BY <1>2, <1>3 DEF Injection, IsInjective
<1> HIDE DEF f
<1> QED
  BY <1>1, <1>4, FS_Injection

(* What MySQL returns is the result, every row once.                       *)
LEMMA RowsAreTheResult ==
    ASSUME Data, NEW s \in Orders(Result)
    PROVE  /\ s \in Seq(Result) /\ s \in Seq(RowType)
           /\ DOMAIN s = 1..Len(s)
           /\ IsInjective(s)
           /\ \A row \in Result : \E k \in DOMAIN s : s[k] = row
<1>1. Cardinality(Result) \in Nat
  BY ResultFinite, Counts
<1>2. s \in [1..Cardinality(Result) -> Result] /\ IsInjective(s)
  BY DEF Orders
<1>3. s \in Seq(Result)
  BY <1>1, <1>2, SeqDef
<1>4. s \in Seq(RowType)
  BY <1>3, ResultRows, SeqMonotonic
<1>5. DOMAIN s = 1..Len(s) /\ DOMAIN s = 1..Cardinality(Result)
  BY <1>2, <1>3, LenProperties
<1>6. s \in Surjection(1..Cardinality(Result), Result)
  <2>1. s \in Injection(1..Cardinality(Result), Result)
    BY <1>2 DEF Injection
  <2>2. Cardinality(1..Cardinality(Result)) = Cardinality(Result)
    <3> DEFINE n == Cardinality(Result)
    <3>1. n \in Nat
      BY <1>1
    <3> HIDE DEF n
    <3>2. Cardinality(1..n) = IF 1 > n THEN 0 ELSE n - 1 + 1
      BY <3>1, FS_Interval
    <3>3. Cardinality(1..n) = n
      BY <3>1, <3>2
    <3> QED
      BY <3>3 DEF n
  <2> QED
    BY <2>1, <2>2, ResultFinite, FS_Injection
<1> QED
  BY <1>2, <1>3, <1>4, <1>5, <1>6 DEF Surjection

-----------------------------------------------------------------------------
(* The inductive invariant.  Nothing is read before the query was answered,*)
(* and then rows is the result in one of its orders.                       *)
Answered == IF pc = "ask" THEN rows = <<>> /\ i = 1 ELSE rows \in Orders(Result)

(* The loop reads on only above the cut.                                   *)
NotBelow == \A k \in 1..(i - 1) : ~BelowTheCut(rows[k])

(* Why it stopped.                                                         *)
Stopped ==
    /\ pc = "nodata" => Result = {}
    /\ pc = "report" => i > Len(rows) \/ BelowTheCut(rows[i])
    /\ pc = "crashed" => i <= Len(rows) /\ ~BelowTheCut(rows[i]) /\ rows[i].plate = NULL

IInv == TypeOK /\ Answered /\ NotBelow /\ Stopped

LEMMA TypeData == TypeOK => Data
BY DEF TypeOK, Data

(* The query depends on the request and the table only.                    *)
LEMMA SameQuery ==
    ASSUME UNCHANGED <<request, table>>
    PROVE  /\ Result' = Result /\ HasCut' = HasCut
           /\ Thresold' = Thresold /\ Orders(Result)' = Orders(Result)
<1>1. Correlation' = Correlation /\ Trajectory' = Trajectory
  BY DEF Correlation, Trajectory, Row, CountPlateNo, AtTollgatesInTime, AtTollgates,
         InTime, Groups, Of, Ids, Meets
<1>2. ActInNight' = ActInNight /\ ActInNightF' = ActInNightF /\ Hidden' = Hidden
  BY DEF ActInNight, ActInNightF, Hidden, AtNight, ByDay, BeforeCase, Row,
         CountAppearTime, AtTollgates, InTime, Groups, Of, Ids, InNight, Clock, Between
<1>3. Result' = Result /\ HasCut' = HasCut /\ Thresold' = Thresold
  BY <1>1, <1>2 DEF Result, FirstTime, HasCut, Task, Thresold
<1> QED
  BY <1>3 DEF Orders

LEMMA InitIInv == Init => IInv
<1> SUFFICES ASSUME Init PROVE IInv
  OBVIOUS
<1>1. TypeOK
  <2>1. rows \in Seq([plate : Plates \cup {NULL}, count : Nat]) /\ Len(rows) = 0
        /\ targetplates \in Seq(Plates) /\ Len(targetplates) = 0
        /\ DOMAIN targetplates = 1..0
    BY EmptySeq, LenProperties DEF Init
  <2> QED
    BY <2>1 DEF Init, TypeOK
<1> QED
  BY <1>1 DEF Init, IInv, Answered, NotBelow, Stopped

LEMMA QueryKeeps == IInv /\ Query => IInv'
<1> SUFFICES ASSUME IInv, Query PROVE IInv'
  OBVIOUS
<1>0. /\ Data /\ UNCHANGED <<request, table>> /\ rows' \in Orders(Result)
      /\ i = 1 /\ i' = 1 /\ targetplates' = targetplates
      /\ pc' = IF Result = {} THEN "nodata" ELSE "read"
  BY TypeData DEF IInv, Answered, Query
<1>1. Result' = Result /\ Orders(Result)' = Orders(Result)
  BY <1>0, SameQuery
<1>2. rows' \in Seq(RowType) /\ Len(rows') \in Nat
  BY <1>0, RowsAreTheResult, LenProperties
<1>3. targetplates \in Seq(Plates) /\ Len(targetplates) = 0 /\ DOMAIN targetplates = {}
  <2>1. targetplates \in Seq(Plates) /\ Len(targetplates) = 0
    BY <1>0 DEF IInv, TypeOK
  <2> QED
    BY <2>1, LenProperties
<1>4. TypeOK'
  BY <1>0, <1>2, <1>3 DEF TypeOK, Data, RowType
<1>5. Answered'
  BY <1>0, <1>1 DEF Answered
<1>6. NotBelow'
  BY <1>0 DEF NotBelow
<1>7. Stopped'
  BY <1>0, <1>1 DEF Stopped
<1> QED
  BY <1>4, <1>5, <1>6, <1>7 DEF IInv

(* What reading a row leaves as it was.                                    *)
LEMMA ReadingKeeps ==
    ASSUME UNCHANGED <<request, table, rows>>
    PROVE  /\ Answered /\ pc # "ask" /\ pc' # "ask" => Answered'
           /\ \A row : BelowTheCut(row)' <=> BelowTheCut(row)
<1>1. Orders(Result)' = Orders(Result) /\ HasCut' = HasCut /\ Thresold' = Thresold
  BY SameQuery
<1> QED
  BY <1>1 DEF Answered, BelowTheCut

(* A row that was read is a plate, or NULL, and a count.                   *)
LEMMA RowTypes ==
    ASSUME TypeOK
    PROVE  /\ Len(rows) \in Nat /\ i \in Nat /\ DOMAIN rows = 1..Len(rows)
           /\ \A k \in 1..Len(rows) : rows[k].plate \in Plates \cup {NULL}
                                      /\ rows[k].count \in Nat
<1>1. rows \in Seq(RowType)
  BY DEF TypeOK, RowType
<1>2. \A k \in 1..Len(rows) : rows[k] \in RowType
  BY <1>1, ElementOfSeq
<1> QED
  BY <1>1, <1>2, LenProperties DEF TypeOK, RowType

LEMMA ReadPlateKeeps == IInv /\ ReadPlate => IInv'
<1> SUFFICES ASSUME IInv, ReadPlate PROVE IInv'
  OBVIOUS
<1>0. /\ TypeOK /\ Data /\ UNCHANGED <<request, table, rows, pc>>
      /\ pc = "read" /\ i <= Len(rows) /\ i' = i + 1
      /\ ~BelowTheCut(rows[i]) /\ rows[i].plate # NULL
      /\ targetplates' = Append(targetplates, rows[i].plate)
  BY TypeData DEF IInv, ReadPlate, Reading
<1>1. rows[i].plate \in Plates /\ i \in 1..Len(rows) /\ i' \in 1..(Len(rows) + 1)
  BY <1>0, RowTypes DEF TypeOK
<1>2. /\ targetplates' \in Seq(Plates) /\ Len(targetplates') = i' - 1
      /\ \A k \in DOMAIN targetplates' : targetplates'[k] = rows'[k].plate
  <2>1. /\ targetplates \in Seq(Plates) /\ Len(targetplates) = i - 1
        /\ \A k \in DOMAIN targetplates : targetplates[k] = rows[k].plate
    BY <1>0 DEF TypeOK
  <2>2. /\ targetplates' \in Seq(Plates) /\ Len(targetplates') = i
        /\ \A k \in 1..i : targetplates'[k] = IF k = i THEN rows[i].plate ELSE targetplates[k]
    BY <1>0, <1>1, <2>1, AppendProperties
  <2>3. DOMAIN targetplates' = 1..i /\ DOMAIN targetplates = 1..(i - 1)
    BY <2>1, <2>2, LenProperties
  <2> QED
    BY <1>0, <1>1, <2>1, <2>2, <2>3
<1>3. TypeOK'
  BY <1>0, <1>1, <1>2 DEF TypeOK
<1>4. Answered'
  BY <1>0, ReadingKeeps DEF IInv
<1>5. NotBelow'
  <2> SUFFICES ASSUME NEW k \in 1..i PROVE ~BelowTheCut(rows[k])
    BY <1>0, <1>1, ReadingKeeps DEF NotBelow, BelowTheCut
  <2>1. CASE k = i
    BY <1>0, <2>1
  <2>2. CASE k # i
    <3>1. k \in 1..(i - 1)
      BY <1>1, <2>2
    <3> QED
      BY <3>1 DEF IInv, NotBelow
  <2> QED
    BY <2>1, <2>2
<1>6. Stopped'
  BY <1>0 DEF Stopped
<1> QED
  BY <1>3, <1>4, <1>5, <1>6 DEF IInv

LEMMA ReadStopKeeps == IInv /\ (ReadNull \/ ReadEnd) => IInv'
<1> SUFFICES ASSUME IInv, ReadNull \/ ReadEnd PROVE IInv'
  OBVIOUS
<1>0. /\ TypeOK /\ UNCHANGED <<request, table, rows, i, targetplates>>
      /\ pc = "read" /\ pc' \in {"report", "crashed"}
      /\ pc' = "report" => i > Len(rows) \/ BelowTheCut(rows[i])
      /\ pc' = "crashed" => i <= Len(rows) /\ ~BelowTheCut(rows[i]) /\ rows[i].plate = NULL
  BY RowTypes DEF IInv, ReadNull, ReadEnd, Reading
<1>1. HasCut' = HasCut /\ Thresold' = Thresold
  BY <1>0, SameQuery
<1>2. TypeOK'
  BY <1>0 DEF TypeOK
<1>3. Answered'
  BY <1>0, ReadingKeeps DEF IInv
<1>4. NotBelow'
  BY <1>0, <1>1 DEF IInv, NotBelow, BelowTheCut
<1>5. Stopped'
  BY <1>0, <1>1 DEF Stopped, BelowTheCut
<1> QED
  BY <1>2, <1>3, <1>4, <1>5 DEF IInv

LEMMA StepKeeps == IInv /\ [Next]_vars => IInv'
<1> SUFFICES ASSUME IInv, [Next]_vars PROVE IInv'
  OBVIOUS
<1>1. CASE UNCHANGED vars
  <2>1. /\ HasCut' = HasCut /\ Thresold' = Thresold
        /\ Orders(Result)' = Orders(Result) /\ Result' = Result
    BY <1>1, SameQuery DEF vars
  <2>2. UNCHANGED <<request, table, pc, rows, i, targetplates>>
    BY <1>1 DEF vars
  <2>3. TypeOK'
    BY <2>2 DEF IInv, TypeOK
  <2>4. Answered' /\ NotBelow' /\ Stopped'
    BY <2>1, <2>2 DEF IInv, Answered, NotBelow, Stopped, BelowTheCut
  <2> QED
    BY <2>3, <2>4 DEF IInv
<1> QED
  BY <1>1, QueryKeeps, ReadPlateKeeps, ReadStopKeeps DEF Next

LEMMA Invariance == Spec => []IInv
BY InitIInv, StepKeeps, PTL DEF Spec

(* The rows read are always the plates of the first rows of the result, and*)
(* a NULL is never among them.                                             *)
THEOREM TypeCorrect == Spec => []TypeOK
<1>1. IInv => TypeOK
  BY DEF IInv
<1> QED
  BY <1>1, Invariance, PTL

-----------------------------------------------------------------------------
(* The rows the loop reads, told without an order.                         *)
Above ==
    {row \in Result :
        HasCut => \A other \in Result : other.count <= row.count + Thresold}

LEMMA ThresoldType == Thresold \in Nat
BY ThresholdsAssumption DEF Thresold

(* What the invariant says of the rows once the query was answered.        *)
LEMMA AskedRows ==
    ASSUME IInv, pc # "ask"
    PROVE  /\ Data /\ rows \in Seq(Result) /\ IsInjective(rows)
           /\ \A k \in 1..Len(rows) : rows[k] \in Result
           /\ \A row \in Result : \E k \in 1..Len(rows) : rows[k] = row
           /\ HasCut => \A j, k \in 1..Len(rows) : j < k => rows[j].count >= rows[k].count
<1>1. Data /\ rows \in Orders(Result)
  BY TypeData DEF IInv, Answered
<1>2. /\ rows \in Seq(Result) /\ DOMAIN rows = 1..Len(rows) /\ IsInjective(rows)
      /\ \A row \in Result : \E k \in DOMAIN rows : rows[k] = row
  BY <1>1, RowsAreTheResult
<1>3. \A k \in 1..Len(rows) : rows[k] \in Result
  BY <1>2, ElementOfSeq
<1> QED
  BY <1>1, <1>2, <1>3 DEF Orders

(* max is the count of the first row, and no count is greater.             *)
LEMMA NotBelowIsAbove ==
    ASSUME IInv, pc # "ask", NEW k \in 1..Len(rows)
    PROVE  ~BelowTheCut(rows[k]) <=> rows[k] \in Above
<1>1. CASE ~HasCut
  BY <1>1, AskedRows DEF BelowTheCut, Above
<1>2. CASE HasCut
  <2>1. \A j \in 1..Len(rows) : rows[j].count \in Nat
    BY RowTypes DEF IInv
  <2>2. Len(rows) \in Nat /\ 1 \in 1..Len(rows)
    BY RowTypes DEF IInv
  <2>3. \A j \in 1..Len(rows) : rows[1].count >= rows[j].count
    BY <1>2, <2>1, <2>2, AskedRows
  <2>4. ~BelowTheCut(rows[k]) <=> rows[1].count <= rows[k].count + Thresold
    BY <1>2, <2>1, <2>2, ThresoldType DEF BelowTheCut
  <2>5. rows[1].count <= rows[k].count + Thresold
          <=> \A j \in 1..Len(rows) : rows[j].count <= rows[k].count + Thresold
    BY <2>1, <2>2, <2>3, ThresoldType
  <2>6. (\A j \in 1..Len(rows) : rows[j].count <= rows[k].count + Thresold)
          <=> \A other \in Result : other.count <= rows[k].count + Thresold
    BY AskedRows
  <2> QED
    BY <1>2, <2>4, <2>5, <2>6, AskedRows DEF Above
<1> QED
  BY <1>1, <1>2

(* The break loses no row: behind a row below the cut all are.             *)
LEMMA ReadUpToTheCut ==
    ASSUME IInv, pc = "report", NEW k \in 1..Len(rows)
    PROVE  k < i <=> rows[k] \in Above
<1>0. /\ Len(rows) \in Nat /\ i \in Nat
      /\ \A j \in 1..Len(rows) : rows[j].count \in Nat
  BY RowTypes DEF IInv
<1>1. ASSUME k < i PROVE ~BelowTheCut(rows[k])
  BY <1>0, <1>1 DEF IInv, NotBelow
<1>2. ASSUME ~(k < i) PROVE BelowTheCut(rows[k])
  <2>1. i \in 1..Len(rows) /\ BelowTheCut(rows[i])
    BY <1>0, <1>2 DEF IInv, Stopped, TypeOK
  <2>2. HasCut
    BY <2>1 DEF BelowTheCut
  <2>3. rows[k].count <= rows[i].count
    BY <1>0, <1>2, <2>1, <2>2, AskedRows
  <2>4. 1 \in 1..Len(rows)
    BY <1>0
  <2> QED
    BY <1>0, <2>1, <2>3, <2>4, ThresoldType DEF BelowTheCut
<1> QED
  BY <1>1, <1>2, NotBelowIsAbove

(* When the loop is over, it has read all rows of Above, each once, and    *)
(* none of them was NULL.                                                  *)
LEMMA ReportedAreAbove ==
    ASSUME IInv, Over
    PROVE  /\ Reported = {row.plate : row \in Above}
           /\ Reported \subseteq Plates
           /\ IsInjective(targetplates)
<1>0. /\ pc # "ask" /\ Len(rows) \in Nat /\ i \in 1..(Len(rows) + 1)
      /\ DOMAIN targetplates = 1..(i - 1)
      /\ \A k \in 1..(i - 1) : targetplates[k] = rows[k].plate /\ targetplates[k] \in Plates
  <2>1. targetplates \in Seq(Plates) /\ Len(targetplates) = i - 1
        /\ \A k \in DOMAIN targetplates : targetplates[k] = rows[k].plate
    BY DEF IInv, TypeOK
  <2>2. DOMAIN targetplates = 1..(i - 1)
    BY <2>1, LenProperties
  <2>3. \A k \in 1..(i - 1) : targetplates[k] \in Plates
    BY <2>1, ElementOfSeq
  <2> QED
    BY <2>1, <2>2, <2>3, RowTypes DEF IInv, TypeOK, Over
<1>1. Reported \subseteq Plates
  BY <1>0 DEF Reported
<1>2. IsInjective(targetplates)
  <2> SUFFICES ASSUME NEW a \in 1..(i - 1), NEW b \in 1..(i - 1),
                      targetplates[a] = targetplates[b]
               PROVE  a = b
    BY <1>0 DEF IsInjective
  <2>1. a \in 1..Len(rows) /\ b \in 1..Len(rows) /\ rows[a].plate = rows[b].plate
    BY <1>0
  <2>2. rows[a] = rows[b]
    BY <1>0, <2>1, AskedRows, ResultRows DEF Functional
  <2>3. DOMAIN rows = 1..Len(rows)
    BY RowTypes DEF IInv
  <2> QED
    BY <1>0, <2>1, <2>2, <2>3, AskedRows DEF IsInjective
<1>3. CASE pc = "nodata"
  <2>1. Result = {}
    BY <1>3 DEF IInv, Stopped
  <2>2. Len(rows) = 0
    <3>1. \A k \in 1..Len(rows) : rows[k] \in Result
      BY <1>0, AskedRows
    <3>2. ~(1 \in 1..Len(rows))
      BY <2>1, <3>1
    <3> QED
      BY <1>0, <3>2
  <2>3. Reported = {}
    BY <1>0, <2>2 DEF Reported
  <2>4. Above = {}
    BY <2>1 DEF Above
  <2> QED
    BY <1>1, <1>2, <2>3, <2>4
<1>4. CASE pc = "report"
  <2>1. ASSUME NEW p \in Reported PROVE \E row \in Above : p = row.plate
    <3>1. PICK k \in 1..(i - 1) : p = rows[k].plate
      BY <1>0 DEF Reported
    <3>2. k \in 1..Len(rows) /\ k < i
      BY <1>0
    <3> QED
      BY <1>4, <3>1, <3>2, ReadUpToTheCut
  <2>2. ASSUME NEW row \in Above PROVE row.plate \in Reported
    <3>1. PICK k \in 1..Len(rows) : rows[k] = row
      BY <1>0, AskedRows DEF Above
    <3>2. k < i
      BY <1>4, <3>1, ReadUpToTheCut
    <3>3. k \in 1..(i - 1)
      BY <1>0, <3>2
    <3> QED
      BY <1>0, <3>1, <3>3 DEF Reported
  <2> QED
    BY <1>1, <1>2, <2>1, <2>2
<1> QED
  BY <1>3, <1>4 DEF Over

(* The row it dies of is one it was to report.                             *)
LEMMA CrashedOnAbove ==
    ASSUME IInv, pc = "crashed"
    PROVE  \E row \in Above : row.plate = NULL
<1>1. i \in 1..Len(rows) /\ ~BelowTheCut(rows[i]) /\ rows[i].plate = NULL
  BY RowTypes DEF IInv, Stopped, TypeOK
<1> QED
  BY <1>1, NotBelowIsAbove

-----------------------------------------------------------------------------
(* The rows of the colliding task and of first entries: NULL is counted as *)
(* zero, every plate as often as it passed.                                *)
LEMMA TrajectoryTimes ==
    ASSUME Data, Task # "correlation", NEW p \in Plates
    PROVE  /\ CountPlateNo(p, AtTollgatesInTime) = Times(p)
           /\ Times(p) > 0 <=> p \in Groups(AtTollgatesInTime)
<1>1. p # NULL
  BY PlatesAssumption
<1> QED
  BY <1>1, GroupCounts, IdSets DEF CountPlateNo, CountAppearTime, Times, Passages

LEMMA TrajectoryIs ==
    ASSUME Data, Task # "correlation", NEW row
    PROVE  row \in Trajectory
             <=> \/ \E p \in Plates : Times(p) > 0 /\ row = Row(p, Times(p))
                 \/ Passages(NULL) # {} /\ row = Row(NULL, 0)
<1>1. NULL \in Groups(AtTollgatesInTime) <=> Passages(NULL) # {}
  BY DEF Groups, Passages, Of
<1>2. Groups(AtTollgatesInTime) \subseteq Plates \cup {NULL}
  BY IdSets, GroupPlates
<1>3. CountPlateNo(NULL, AtTollgatesInTime) = 0
  BY DEF CountPlateNo
<1> QED
  BY <1>1, <1>2, <1>3, TrajectoryTimes, TrajectoryRows

(* The rows of the two tasks with a cut.                                   *)
LEMMA TopRows ==
    ASSUME Data, HasCut
    PROVE  /\ Candidates \subseteq Plates
           /\ \A p \in Candidates : Times(p) \in Nat
           /\ \A p \in Candidates : Times(p) > 0 => Row(p, Times(p)) \in Result
           /\ \A row \in Result :
                 \/ /\ row.plate \in Candidates /\ Times(row.plate) > 0
                    /\ row.count = Times(row.plate)
                 \/ row.plate = NULL /\ row.count = 0
<1>0. Candidates \subseteq Plates /\ \A p \in Candidates : Times(p) \in Nat
  BY MeetingsFinite DEF Candidates
<1>1. CASE Task = "correlation"
  <2>1. \A p : Times(p) = Cardinality(Meetings(p)) /\ (Times(p) > 0 <=> Meetings(p) # {})
    BY <1>1, MeetingsFinite, Counts DEF Times
  <2>2. Result = Correlation /\ Candidates = Plates \ request.plates
    BY <1>1 DEF Result, Candidates
  <2> QED
    BY <1>0, <2>1, <2>2, CorrelationRows DEF Row
<1>2. CASE Task = "trajectory"
  <2>1. Result = Trajectory /\ Candidates = Plates /\ Task # "correlation"
    BY <1>2 DEF Result, Candidates
  <2> QED
    BY <1>0, <2>1, TrajectoryIs DEF Row
<1> QED
  BY <1>1, <1>2 DEF HasCut

(* A plate without a row was counted zero times, and zero is at most the   *)
(* threshold more than any count: the rows decide for all candidates.      *)
LEMMA TopAbove ==
    ASSUME Data, HasCut, NEW p \in Plates
    PROVE  (\E row \in Above : row.plate = p)
             <=> /\ p \in Candidates /\ Times(p) > 0
                 /\ \A q \in Candidates : Times(q) <= Times(p) + Thresold
<1>0. p # NULL
  BY PlatesAssumption
<1>1. ASSUME NEW row \in Above, row.plate = p
      PROVE  /\ p \in Candidates /\ Times(p) > 0
             /\ \A q \in Candidates : Times(q) <= Times(p) + Thresold
  <2>1. row \in Result /\ \A other \in Result : other.count <= row.count + Thresold
    BY DEF Above
  <2>2. p \in Candidates /\ Times(p) > 0 /\ row.count = Times(p)
    BY <1>0, <1>1, <2>1, TopRows
  <2>3. ASSUME NEW q \in Candidates PROVE Times(q) <= Times(p) + Thresold
    <3>1. CASE Times(q) > 0
      <4>1. Row(q, Times(q)) \in Result
        BY <3>1, TopRows
      <4>2. Row(q, Times(q)).count <= Times(p) + Thresold
        BY <2>1, <2>2, <4>1
      <4> QED
        BY <4>2 DEF Row
    <3>2. CASE ~(Times(q) > 0)
      BY <2>2, <3>2, TopRows, ThresoldType
    <3> QED
      BY <3>1, <3>2
  <2> QED
    BY <2>2, <2>3
<1>2. ASSUME p \in Candidates, Times(p) > 0,
             \A q \in Candidates : Times(q) <= Times(p) + Thresold
      PROVE  \E row \in Above : row.plate = p
  <2>1. Row(p, Times(p)) \in Result
    BY <1>2, TopRows
  <2>2. ASSUME NEW other \in Result PROVE other.count <= Times(p) + Thresold
    BY <1>2, TopRows, ThresoldType
  <2>3. Row(p, Times(p)) \in Above
    BY <2>1, <2>2 DEF Above, Row
  <2> QED
    BY <2>3 DEF Row
<1> QED
  BY <1>1, <1>2

(* The accompanying and the colliding task report every plate counted at   *)
(* most the threshold less than any other, and no other plate, once; the   *)
(* task of first entries every plate counted once.                         *)
THEOREM TopPlates == Spec => []TopPlatesReported
<1>1. IInv => TopPlatesReported
  <2> SUFFICES ASSUME IInv, Over PROVE TopPlatesReported
    BY DEF TopPlatesReported
  <2>0. /\ Data /\ Reported = {row.plate : row \in Above} /\ Reported \subseteq Plates
        /\ IsInjective(targetplates)
    BY ReportedAreAbove, TypeData DEF IInv
  <2>1. ASSUME HasCut
        PROVE  Reported = {p \in Candidates :
                             /\ Times(p) > 0
                             /\ \A q \in Candidates : Times(q) <= Times(p) + Thresold}
    <3>1. Candidates \subseteq Plates
      BY <2>0, <2>1, TopRows
    <3>2. \A p \in Plates : p \in Reported
             <=> /\ p \in Candidates /\ Times(p) > 0
                 /\ \A q \in Candidates : Times(q) <= Times(p) + Thresold
      BY <2>0, <2>1, TopAbove
    <3> QED
      BY <2>0, <3>1, <3>2
  <2>2. ASSUME Task = "firsttime"
        PROVE  Reported = {p \in Plates : Times(p) = 1}
    <3>1. Above = FirstTime /\ Task # "correlation"
      BY <2>2 DEF Above, HasCut, Result
    <3>2. \A p \in Plates : p \in Reported <=> Times(p) = 1
      <4> SUFFICES ASSUME NEW p \in Plates PROVE p \in Reported <=> Times(p) = 1
        OBVIOUS
      <4>1. \A row : row \in Above
               <=> /\ row.count = 1
                   /\ \/ \E q \in Plates : Times(q) > 0 /\ row = Row(q, Times(q))
                      \/ Passages(NULL) # {} /\ row = Row(NULL, 0)
        BY <2>0, <3>1, TrajectoryIs DEF FirstTime
      <4>2. ASSUME NEW row \in Above, row.plate = p PROVE Times(p) = 1
        BY <4>1, <4>2, PlatesAssumption DEF Row
      <4>3. ASSUME Times(p) = 1 PROVE Row(p, 1) \in Above
        BY <4>1, <4>3 DEF Row
      <4> QED
        BY <2>0, <4>2, <4>3 DEF Row
    <3> QED
      BY <2>0, <3>2
  <2> QED
    BY <2>0, <2>1, <2>2 DEF TopPlatesReported
<1> QED
  BY <1>1, Invariance, PTL

-----------------------------------------------------------------------------
LEMMA AboveWithoutCut ==
    ASSUME ~HasCut
    PROVE  Above = Result
BY DEF Above

(* Who was seen before the case and not after it is reported.              *)
THEOREM HiddenReported == Spec => []NoHiddenVehicleMissed
<1>1. IInv => NoHiddenVehicleMissed
  <2> SUFFICES ASSUME IInv, Over, Task = "hidden",
                      NEW p \in Plates \ request.plates, Of(p, BeforeCase) # {}
               PROVE  p \in Reported
    BY DEF NoHiddenVehicleMissed
  <2>1. Above = Hidden
    BY AboveWithoutCut DEF HasCut, Result
  <2>2. p \in Groups(BeforeCase) \ (request.plates \cup {NULL})
    BY PlatesAssumption DEF Of, Groups
  <2>3. Row(p, CountAppearTime(p, BeforeCase)) \in Above
    BY <2>1, <2>2 DEF Hidden
  <2> QED
    BY <2>3, ReportedAreAbove DEF Row
<1> QED
  BY <1>1, Invariance, PTL

(* A time is one of its hour: it is no earlier than 00:00:00 and no later  *)
(* than 23:59:59.                                                          *)
LEMMA WithinTheDay ==
    ASSUME NEW t \in TimeOfDay
    PROVE  Leq(FirstOfDay, t) /\ Leq(t, LastOfDay)
BY ClockAssumption DEF TimeOfDay, Leq, FirstOfDay, LastOfDay

(* Leq is a total order of the times of a day.                             *)
LEMMA LeqTotal ==
    ASSUME NEW a \in TimeOfDay, NEW b \in TimeOfDay
    PROVE  Leq(a, b) \/ Leq(b, a)
BY ClockAssumption DEF TimeOfDay, Leq

(* The two ranges, or the one, that the queries of TaskCode 4, 5 and 7 ask *)
(* for select the times from the beginning of the night to its end, over   *)
(* midnight if need be; only a night within one hour, which NightRange     *)
(* takes for one that passes midnight, selects the whole day.              *)
THEOREM NightIsTheNightAskedFor ==
    ASSUME NEW t \in TimeOfDay, NEW snt \in TimeOfDay, NEW ent \in TimeOfDay
    PROVE  InNight(t, snt, ent)
              <=> WithinOneHour(snt, ent) \/ NightAskedFor(t, snt, ent)
<1> USE DEF gethour, NightRange
<1>1. CASE ~NightRange(snt, ent)
  <2>1. Leq(snt, ent) /\ ~WithinOneHour(snt, ent)
    BY <1>1 DEF TimeOfDay, Leq, WithinOneHour
  <2> QED
    BY <1>1, <2>1 DEF InNight, NightAskedFor
<1>2. CASE NightRange(snt, ent) /\ Leq(snt, ent)
  <2>1. WithinOneHour(snt, ent)
    BY <1>2 DEF TimeOfDay, Leq, WithinOneHour
  <2>2. Leq(snt, t) \/ Leq(t, ent)
    BY <1>2 DEF TimeOfDay, Leq
  <2> QED
    BY <1>2, <2>1, <2>2, WithinTheDay DEF InNight, Between
<1>3. CASE NightRange(snt, ent) /\ ~Leq(snt, ent)
  <2>1. ~WithinOneHour(snt, ent)
    BY <1>3 DEF WithinOneHour
  <2> QED
    BY <1>3, <2>1, WithinTheDay DEF InNight, NightAskedFor, Between
<1> QED
  BY <1>1, <1>2, <1>3

(* The quotient and the remainder of a time by the length of an hour.      *)
LEMMA Quotient ==
    ASSUME NEW t \in Nat, NEW h \in Nat, NEW m \in Nat \ {0}, t < (h + 1) * m
    PROVE  t \div m \in 0..h /\ t % m \in 0..(m - 1)
OBVIOUS

(* The clock shows a time of day.                                          *)
LEMMA ClockType ==
    ASSUME Data, NEW id \in Ids
    PROVE  Clock(id) \in TimeOfDay
<1>1. table[id].at \in Nat /\ Hours \in Nat \ {0} /\ Minutes \in Nat \ {0}
  BY DataTypes, ClockAssumption DEF Sighting
<1> DEFINE t == table[id].at % (Hours * Minutes)
<1>2. Hours * Minutes \in Nat \ {0}
  BY <1>1
<1>3. t \in Nat /\ t < Hours * Minutes
  BY <1>1, <1>2
<1> HIDE DEF t
<1>4. Hours - 1 \in Nat /\ t < ((Hours - 1) + 1) * Minutes
  BY <1>1, <1>3
<1>5. t \div Minutes \in 0..(Hours - 1) /\ t % Minutes \in 0..(Minutes - 1)
  BY <1>1, <1>3, <1>4, Quotient
<1>6. Clock(id) = [hour |-> t \div Minutes, minute |-> t % Minutes]
  BY DEF Clock, t
<1> QED
  BY <1>5, <1>6 DEF TimeOfDay

(* The query of a night selects what was seen in the night asked for.      *)
LEMMA NightPassages ==
    ASSUME Data, NEW p
    PROVE  /\ Of(p, AtNightIds) = {id \in Passages(p) : AskedFor(Clock(id))}
           /\ CountAppearTime(p, AtNightIds) = Nights(p)
<1>1. ASSUME NEW id \in Ids
      PROVE  InNight(Clock(id), request.snt, request.ent) <=> AskedFor(Clock(id))
  <2>1. request.snt \in TimeOfDay /\ request.ent \in TimeOfDay
    BY DataTypes DEF RequestType
  <2> QED
    BY <2>1, ClockType, NightIsTheNightAskedFor DEF AskedFor
<1>2. Of(p, AtNightIds) = {id \in Passages(p) : AskedFor(Clock(id))}
  BY <1>1 DEF Of, AtNightIds, AtNight, Passages, AtTollgatesInTime
<1> QED
  BY <1>2 DEF CountAppearTime, Nights

LEMMA DayPassages ==
    ASSUME NEW p
    PROVE  CountAppearTime(p, {id \in Ids : ByDay(id)}) = Days(p)
<1>1. Of(p, {id \in Ids : ByDay(id)})
        = {id \in Passages(p) : Between(Clock(id), request.sdt, request.edt)}
  BY DEF Of, ByDay, Passages, AtTollgatesInTime
<1> QED
  BY <1>1 DEF CountAppearTime, Days

(* A plate has a row in the night exactly when it was seen then.           *)
LEMMA NightCounts ==
    ASSUME Data, NEW p
    PROVE  /\ Nights(p) \in Nat /\ Days(p) \in Nat
           /\ Nights(p) > 0 <=> p \in Groups(AtNightIds)
<1>1. AtNightIds \in SUBSET Ids
  BY DEF AtNightIds
<1> QED
  BY <1>1, GroupCounts, NightPassages, DayPassages, IdSets

(* The night tasks report the plates seen more often in the night asked for*)
(* than by day, or more often than the threshold: RIGHT JOIN and the       *)
(* quotient with its ELSE come to that, for plates not seen by day too.    *)
THEOREM NightTasks == Spec => []NightsReported
<1>1. IInv => NightsReported
  <2> SUFFICES ASSUME IInv, Over PROVE NightsReported
    BY DEF NightsReported
  <2>0. /\ Data /\ Reported = {row.plate : row \in Above} /\ Reported \subseteq Plates
    BY ReportedAreAbove, TypeData DEF IInv
  <2>1. ASSUME Task = "actinnight"
        PROVE  Reported = {p \in Plates : Nights(p) > Days(p)}
    <3>1. Above = ActInNight
      BY <2>1, AboveWithoutCut DEF HasCut, Result
    <3>2. ASSUME NEW p \in Plates
          PROVE  p \in Reported <=> Nights(p) > Days(p)
      <4>1. Joined(p) = Days(p)
        BY DayPassages, PlatesAssumption DEF Joined
      <4>2. p \in Reported
              <=> p \in Groups(AtNightIds) /\ (Joined(p) = 0 \/ Nights(p) > Joined(p))
        <5>1. \A row : row \in Above
                 <=> \E q \in Groups(AtNightIds) :
                       /\ Joined(q) = 0 \/ Nights(q) > Joined(q)
                       /\ row = Row(q, Nights(q))
          BY <2>0, <3>1, ActInNightRows, NightPassages
        <5>2. p \in Reported <=> \E row \in Above : row.plate = p
          BY <2>0
        <5>3. \A q : Row(q, Nights(q)).plate = q
          BY DEF Row
        <5> QED
          BY <5>1, <5>2, <5>3
      <4> QED
        BY <2>0, <4>1, <4>2, NightCounts
    <3> QED
      BY <2>0, <3>2
  <2>2. ASSUME Task = "actinnightF"
        PROVE  Reported = {p \in Plates : Nights(p) > request.thershold}
    <3>1. Above = ActInNightF
      BY <2>2, AboveWithoutCut DEF HasCut, Result
    <3>2. request.thershold \in Nat
      BY <2>0, DataTypes DEF RequestType
    <3>3. \A row : row \in Above
             <=> \E q \in Groups(AtNightIds) :
                   row = Row(q, Nights(q)) /\ row.count > request.thershold
      BY <2>0, <3>1, NightPassages DEF ActInNightF, AtNightIds
    <3>4. ASSUME NEW p \in Plates
          PROVE  p \in Reported <=> Nights(p) > request.thershold
      <4>1. p \in Reported <=> p \in Groups(AtNightIds) /\ Nights(p) > request.thershold
        <5>1. p \in Reported <=> \E row \in Above : row.plate = p
          BY <2>0
        <5>2. \A q : Row(q, Nights(q)).plate = q /\ Row(q, Nights(q)).count = Nights(q)
          BY DEF Row
        <5> QED
          BY <3>3, <5>1, <5>2
      <4> QED
        BY <2>0, <3>2, <4>1, NightCounts
    <3> QED
      BY <2>0, <3>4
  <2> QED
    BY <2>0, <2>1, <2>2 DEF NightsReported
<1> QED
  BY <1>1, Invariance, PTL

-----------------------------------------------------------------------------
(* When a plate that was not read is among the rows to report.             *)
LEMMA UnreadAbove ==
    ASSUME Data
    PROVE  (\E row \in Above : row.plate = NULL) <=> UnreadReported
<1> DEFINE Unread == \E row \in Above : row.plate = NULL
<1>0. Task \in Tasks /\ request.thershold \in Nat
  BY DataTypes DEF RequestType, Task
<1>1. Of(NULL, AtNightIds) = {id \in Of(NULL, Ids) : AtNight(id)}
  BY DEF Of, AtNightIds
<1>2. NULL \in Groups(AtNightIds) <=> \E id \in Of(NULL, Ids) : AtNight(id)
  BY DEF Of, Groups, AtNightIds
<1>3. CASE Task = "correlation"
  <2>1. Result = Correlation
    BY <1>3 DEF Result
  <2>2. \A row \in Result : row.plate # NULL
    BY <2>1, CorrelationRows, PlatesAssumption DEF Row
  <2> QED
    BY <1>3, <2>2 DEF Above, UnreadReported
<1>4. CASE Task = "trajectory"
  <2>1. /\ Result = Trajectory /\ Candidates = Plates /\ Task # "correlation" /\ HasCut
        /\ Thresold = TrajectoryThresold
    BY <1>4 DEF Result, Candidates, HasCut, Thresold
  <2>2. \A row \in Result : row.plate = NULL => row = Row(NULL, 0) /\ Passages(NULL) # {}
    BY <2>1, TrajectoryIs, PlatesAssumption DEF Row
  <2>3. Passages(NULL) # {} => Row(NULL, 0) \in Result
    BY <2>1, TrajectoryIs
  <2>4. Unread <=> Passages(NULL) # {} /\ \A other \in Result : other.count <= 0 + Thresold
    BY <2>1, <2>2, <2>3 DEF Above, Row
  <2>5. \A p \in Plates : Times(p) = Cardinality(Passages(p)) /\ Times(p) \in Nat
    BY <2>1, MeetingsFinite DEF Times
  <2>6. (\A other \in Result : other.count <= 0 + Thresold)
           <=> \A p \in Plates : Times(p) <= Thresold
    <3>1. ASSUME \A other \in Result : other.count <= 0 + Thresold, NEW p \in Plates
          PROVE  Times(p) <= Thresold
      <4>1. CASE Times(p) > 0
        <5>1. Row(p, Times(p)) \in Result
          BY <2>1, <4>1, TrajectoryIs
        <5>2. Row(p, Times(p)).count = Times(p)
          BY DEF Row
        <5> QED
          BY <2>5, <3>1, <5>1, <5>2, ThresoldType
      <4> QED
        BY <2>5, <4>1, ThresoldType
    <3>2. ASSUME \A p \in Plates : Times(p) <= Thresold, NEW other \in Result
          PROVE  other.count <= 0 + Thresold
      BY <2>1, <3>2, TopRows, ThresoldType
    <3> QED
      BY <3>1, <3>2
  <2> QED
    BY <1>4, <2>1, <2>4, <2>5, <2>6 DEF UnreadReported
<1>5. CASE Task = "firsttime"
  <2>1. Above = FirstTime /\ Task # "correlation"
    BY <1>5, AboveWithoutCut DEF HasCut, Result
  <2>2. \A row \in Above : row.plate # NULL
    BY <2>1, TrajectoryIs, PlatesAssumption DEF FirstTime, Row
  <2> QED
    BY <1>5, <2>2 DEF UnreadReported
<1>6. CASE Task = "actinnight"
  <2>1. Above = ActInNight
    BY <1>6, AboveWithoutCut DEF HasCut, Result
  <2>2. \A q, n : Row(q, n).plate = q
    BY DEF Row
  <2>3. Joined(NULL) = 0
    BY DEF Joined
  <2>4. Unread <=> NULL \in Groups(AtNightIds)
    BY <2>1, <2>2, <2>3, ActInNightRows
  <2> QED
    BY <1>2, <1>6, <2>4 DEF UnreadReported
<1>7. CASE Task = "actinnightF"
  <2>1. Above = ActInNightF
    BY <1>7, AboveWithoutCut DEF HasCut, Result
  <2>2. \A row : row \in Above
           <=> \E q \in Groups(AtNightIds) :
                 row = Row(q, Nights(q)) /\ row.count > request.thershold
    BY <2>1, NightPassages DEF ActInNightF, AtNightIds
  <2>3. \A q : Row(q, Nights(q)).plate = q /\ Row(q, Nights(q)).count = Nights(q)
    BY DEF Row
  <2>4. Unread <=> NULL \in Groups(AtNightIds) /\ Nights(NULL) > request.thershold
    BY <2>2, <2>3
  <2>5. Unread <=> Nights(NULL) > request.thershold
    BY <1>0, <2>4, NightCounts
  <2>6. Nights(NULL) = Cardinality({id \in Of(NULL, Ids) : AtNight(id)})
    BY <1>1, NightPassages DEF CountAppearTime
  <2> QED
    BY <1>7, <2>5, <2>6 DEF UnreadReported
<1>8. CASE Task = "hidden"
  <2>1. Above = Hidden
    BY <1>8, AboveWithoutCut DEF HasCut, Result
  <2>2. \A row \in Above : row.plate # NULL
    BY <2>1 DEF Hidden, Row
  <2> QED
    BY <1>8, <2>2 DEF UnreadReported
<1> QED
  BY <1>0, <1>3, <1>4, <1>5, <1>6, <1>7, <1>8 DEF Tasks

(* The process dies of a plate that was not read exactly when the task's   *)
(* query puts one among the rows to report.                                *)
THEOREM DiesOfUnreadExactly == Spec => []DiesOfUnread
<1>1. IInv => DiesOfUnread
  <2> SUFFICES ASSUME IInv PROVE DiesOfUnread
    OBVIOUS
  <2>1. Data
    BY TypeData DEF IInv
  <2>2. ASSUME Over, UnreadReported PROVE FALSE
    <3>1. NULL \in Reported /\ Reported \subseteq Plates
      BY <2>1, <2>2, UnreadAbove, ReportedAreAbove
    <3> QED
      BY <3>1, PlatesAssumption
  <2>3. ASSUME pc = "crashed" PROVE UnreadReported
    BY <2>1, <2>3, UnreadAbove, CrashedOnAbove
  <2> QED
    BY <2>2, <2>3 DEF DiesOfUnread
<1> QED
  BY <1>1, Invariance, PTL
=============================================================================
