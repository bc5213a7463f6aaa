------------------------- MODULE PlateReportProofs -------------------------
(***************************************************************************)
(* The reports of found plates, for any number of plates and sightings and *)
(* any width and number of ranges.                                         *)
(***************************************************************************)
EXTENDS PlateReport, FiniteSetTheorems, WellFoundedInduction, TLAPS

(* The single writer reads no range.                                       *)
Stands == writer = "single" => step = 0 /\ DOMAIN datalist = {}

IInv ==
    /\ TypeOK /\ Stands
    /\ EveryPlateRead /\ LatestRangeKept /\ TracesAreOfReported /\ NamelessOnlyWhenUnjoined

-----------------------------------------------------------------------------
Less == {ss \in Nat \X Nat : ss[1] < ss[2]}

LEMMA LessIsWellFounded == IsWellFoundedOn(Less, Nat)
BY NatLessThanWellFounded DEF OpToRel, Less

(* A set of plates that is not empty has a last one.                       *)
LEMMA LastPlate ==
    ASSUME NEW S \in SUBSET Plates, S # {}
    PROVE  Max(S) \in S
<1> DEFINE T == {MaxPlate - x : x \in S}
<1>1. T \in SUBSET Nat /\ T # {}
  BY PlatesAssumption DEF Plates
<1>2. \E x \in T : \A y \in T : ~(<<y, x>> \in Less)
  BY <1>1, LessIsWellFounded, WFMin
<1>3. PICK x \in S : \A y \in S : ~(<<MaxPlate - y, MaxPlate - x>> \in Less)
  BY <1>2
<1>4. \A y \in S : x >= y
  <2> SUFFICES ASSUME NEW y \in S PROVE x >= y
    OBVIOUS
  <2>1. /\ x \in Nat /\ y \in Nat /\ MaxPlate \in Nat
        /\ MaxPlate - x \in Nat /\ MaxPlate - y \in Nat
    BY PlatesAssumption DEF Plates
  <2>2. ~(MaxPlate - y < MaxPlate - x)
    BY <1>3, <2>1 DEF Less
  <2> QED
    BY <2>1, <2>2
<1> QED
  BY <1>4 DEF Max

(* The number of a range, from the sides of an id in it.                   *)
LEMMA Ranges ==
    ASSUME NEW n \in Nat, NEW k \in Nat, NEW w \in Nat \ {0}
    PROVE  (n >= k * w => n \div w >= k) /\ (n < (k + 1) * w => n \div w <= k)
OBVIOUS

(* The rows of one plate among those of several.                           *)
LEMMA RowsOfOne ==
    ASSUME NEW S, NEW p \in S, NEW id \in Rows({p})
    PROVE  id \in Rows(S) /\ table[id] = p
BY DEF Rows

-----------------------------------------------------------------------------
LEMMA InitIInv == Init => IInv
<1> SUFFICES ASSUME Init PROVE IInv
  OBVIOUS
<1> USE DEF Init
<1>1. DOMAIN datalist = {}
  OBVIOUS
<1>2. fp \subseteq Plates
  BY DEF PlatesOf, Recorded
<1>3. step \in {n * STEP : n \in 0..TOTAL}
  <2>1. 0 \in 0..TOTAL /\ 0 * STEP = 0
    BY RangesAssumption
  <2> QED
    BY <2>1
<1>4. TypeOK
  BY <1>1, <1>2, <1>3, RangesAssumption DEF TypeOK
<1>5. EveryPlateRead
  BY DEF EveryPlateRead, Recorded, Ids
<1> QED
  BY <1>1, <1>4, <1>5
     DEF IInv, Stands, LatestRangeKept, TracesAreOfReported, NamelessOnlyWhenUnjoined

(* A recording leaves the sightings in old as they were.                   *)
LEMMA RecordKeepsIInv == IInv /\ Record => IInv'
<1> SUFFICES ASSUME IInv, Record PROVE IInv'
  OBVIOUS
<1>1. PICK new \in Ids \ Recorded, plate \in Plates :
         table' = [table EXCEPT ![new] = plate]
  BY DEF Record
<1>2. UNCHANGED <<joined, writer, fp, old, step, datalist, listtree>> /\ listtree = <<>>
  BY DEF Record
<1>3. table \in [Ids -> Plates \cup {NoPlate}] /\ old \subseteq Recorded
  BY DEF IInv, TypeOK
<1>4. table' \in [Ids -> Plates \cup {NoPlate}] /\ Recorded \subseteq Recorded'
  BY <1>1, <1>3, PlatesAssumption DEF Recorded, Plates, NoPlate
<1>5. \A id \in Recorded : table'[id] = table[id]
  BY <1>1, <1>3 DEF Recorded
<1>6. \A p : Rows({p})' \cap old = Rows({p}) \cap old
  BY <1>2, <1>3, <1>5 DEF Rows
<1>7. \A p \in DOMAIN datalist : datalist[p] \in Rows({p})'
  <2> SUFFICES ASSUME NEW p \in DOMAIN datalist PROVE datalist[p] \in Rows({p})'
    OBVIOUS
  <2>1. datalist[p] \in Rows({p}) /\ p \in Plates /\ joined \subseteq Ids
    BY DEF IInv, TypeOK
  <2>2. datalist[p] \in Recorded
    BY <2>1, PlatesAssumption DEF Rows, Recorded, Plates, NoPlate
  <2> QED
    BY <1>2, <1>5, <2>1, <2>2 DEF Rows
<1>8. TypeOK'
  BY <1>2, <1>3, <1>4, <1>7 DEF IInv, TypeOK
<1>9. EveryPlateRead' /\ LatestRangeKept'
  BY <1>2, <1>6 DEF IInv, EveryPlateRead, LatestRangeKept
<1> QED
  BY <1>2, <1>8, <1>9
     DEF IInv, Stands, TracesAreOfReported, NamelessOnlyWhenUnjoined

(* A range joins the ranges read before it without a gap.                  *)
LEMMA ReadChunkKeepsIInv == IInv /\ ReadChunk => IInv'
<1> SUFFICES ASSUME IInv, ReadChunk PROVE IInv'
  OBVIOUS
<1>1. /\ writer = "ranges" /\ step < TOTAL /\ step' = step + STEP
      /\ UNCHANGED <<table, joined, writer, fp, old, listtree>>
  BY DEF ReadChunk
<1>2. PICK last \in [PlatesOf(InRange) -> InRange] :
         /\ \A p \in DOMAIN last : table[last[p]] = p
         /\ datalist' = PutInto(datalist, last)
  BY DEF ReadChunk
<1>3. /\ DOMAIN datalist' = DOMAIN datalist \cup PlatesOf(InRange)
      /\ \A p \in PlatesOf(InRange) : datalist'[p] = last[p]
      /\ \A p \in DOMAIN datalist \ PlatesOf(InRange) : datalist'[p] = datalist[p]
  BY <1>2 DEF PutInto
<1>4. PICK n \in 0..TOTAL : step = n * STEP
  BY DEF IInv, TypeOK
<1>5. n + 1 \in 0..TOTAL /\ step \in Nat /\ step' = (n + 1) * STEP
  BY <1>1, <1>4, RangesAssumption
<1>6. /\ joined \subseteq Ids /\ Ids \subseteq Nat \ {0} /\ DOMAIN datalist \subseteq fp
      /\ \A p \in DOMAIN datalist : datalist[p] \in Rows({p})
  BY RangesAssumption DEF IInv, TypeOK, Ids
<1>7. \A p \in PlatesOf(InRange) :
         p \in fp /\ last[p] \in Rows({p}) /\ step <= last[p] /\ last[p] \in Nat
  BY <1>2, <1>6 DEF PlatesOf, InRange, Rows
<1>8. TypeOK'
  <2>1. step' \in {k * STEP : k \in 0..TOTAL} /\ step' < TOTAL + STEP
    <3>1. step' \in {k * STEP : k \in 0..TOTAL}
      BY <1>5
    <3>2. step' < TOTAL + STEP
      BY <1>1, <1>5, RangesAssumption
    <3> QED
      BY <3>1, <3>2
  <2>2. DOMAIN datalist' \subseteq fp
    BY <1>3, <1>6, <1>7
  <2>3. \A p \in DOMAIN datalist' : datalist'[p] \in Rows({p})
    BY <1>3, <1>6, <1>7
  <2> QED
    BY <1>1, <2>1, <2>2, <2>3 DEF IInv, TypeOK, Rows, Recorded
<1>9. \A p \in fp : \A id \in Rows({p}) :
         id <= step' => id <= step \/ p \in PlatesOf(InRange)
  <2> SUFFICES ASSUME NEW p \in fp, NEW id \in Rows({p}), id <= step', ~(id <= step)
               PROVE  p \in PlatesOf(InRange)
    OBVIOUS
  <2>1. id \in Rows(fp) /\ id \in Nat
    BY <1>6 DEF Rows
  <2>2. step <= id /\ id <= step + STEP
    BY <1>1, <1>5, <2>1, RangesAssumption
  <2>3. id \in InRange
    BY <2>1, <2>2 DEF InRange
  <2> QED
    BY <2>3, RowsOfOne DEF PlatesOf
<1>10. EveryPlateRead'
  BY <1>1, <1>3, <1>9 DEF IInv, EveryPlateRead, Rows
<1>11. LatestRangeKept'
  <2> SUFFICES ASSUME NEW p \in DOMAIN datalist', NEW id \in Rows({p}) \cap old, id <= step'
               PROVE  (id - 1) \div STEP <= datalist'[p] \div STEP
    BY <1>1 DEF LatestRangeKept, Rows
  <2>1. CASE p \in PlatesOf(InRange)
    <3>1. last[p] >= n * STEP /\ last[p] \in Nat
      BY <1>4, <1>7, <2>1
    <3>2. id - 1 \in Nat /\ id - 1 < (n + 1) * STEP
      BY <1>5, <1>6, RangesAssumption DEF Rows
    <3>3. (id - 1) \div STEP <= n /\ last[p] \div STEP >= n
      BY <3>1, <3>2, Ranges, RangesAssumption
    <3>4. (id - 1) \div STEP \in Int /\ last[p] \div STEP \in Int
      BY <3>1, <3>2, RangesAssumption
    <3> QED
      BY <1>3, <2>1, <3>3, <3>4
  <2>2. CASE p \notin PlatesOf(InRange)
    <3>1. p \in DOMAIN datalist /\ p \in fp
      BY <1>3, <1>6, <2>2
    <3>2. id <= step
      BY <1>9, <2>2, <3>1
    <3> QED
      BY <1>3, <2>2, <3>1, <3>2 DEF IInv, LatestRangeKept
  <2> QED
    BY <2>1, <2>2
<1>12. TracesAreOfReported' /\ NamelessOnlyWhenUnjoined'
  BY <1>1 DEF IInv, TracesAreOfReported, NamelessOnlyWhenUnjoined, Rows, PlatesOf, SightingsOf
<1> QED
  BY <1>1, <1>8, <1>10, <1>11, <1>12 DEF IInv, Stands

(* The one entry, for either writer.                                       *)
LEMMA EntryIsTyped ==
    ASSUME NEW S \in SUBSET Plates, NEW trace \in SUBSET Ids
    PROVE  /\ Entry(S, trace) \in Entries
           /\ Entry(S, trace).Trace = trace
           /\ Entry(S, trace).LicensePlate = NoPlate => S = {}
<1>1. S # {} => Max(S) \in S
  BY LastPlate
<1>2. NoPlate \notin S
  BY PlatesAssumption DEF Plates, NoPlate
<1> QED
  BY <1>1, <1>2 DEF Entry, Entries

LEMMA WriteReportKeepsIInv == IInv /\ WriteReport => IInv'
<1> SUFFICES ASSUME IInv, WriteReport PROVE IInv'
  OBVIOUS
<1> DEFINE trace == Range(datalist)
<1>1. /\ writer = "ranges" /\ step >= TOTAL
      /\ listtree' = <<Entry(DOMAIN datalist, trace)>>
      /\ UNCHANGED <<table, joined, writer, fp, old, step, datalist>>
  BY DEF WriteReport
<1>2. /\ joined \subseteq Ids /\ fp \subseteq Plates /\ DOMAIN datalist \subseteq fp
      /\ \A p \in DOMAIN datalist : datalist[p] \in Rows({p})
      /\ step \in Nat /\ Ids \subseteq Nat
  BY RangesAssumption DEF IInv, TypeOK, Ids
<1>3. trace \subseteq Ids /\ \A id \in trace : table[id] \in fp
  BY <1>2 DEF Range, Rows
<1>4. /\ listtree'[1] \in Entries /\ listtree'[1].Trace = trace
      /\ listtree'[1].LicensePlate = NoPlate => DOMAIN datalist = {}
  BY <1>1, <1>2, <1>3, EntryIsTyped
<1>5. TypeOK'
  <2>1. listtree' \in Seq(Entries) /\ Len(listtree') = 1
    BY <1>1, <1>4
  <2> QED
    BY <1>1, <2>1 DEF IInv, TypeOK, Rows, Recorded
<1>6. \A p \in fp : trace \cap SightingsOf(p) =
                       IF p \in DOMAIN datalist THEN {datalist[p]} ELSE {}
  BY <1>2, <1>3 DEF Range, Rows, SightingsOf
<1>7. \A p \in fp : Cardinality(trace \cap SightingsOf(p)) <= 1
  <2> SUFFICES ASSUME NEW p \in fp PROVE Cardinality(trace \cap SightingsOf(p)) <= 1
    OBVIOUS
  <2> HIDE DEF trace
  <2>1. CASE p \in DOMAIN datalist
    <3>1. trace \cap SightingsOf(p) = {datalist[p]}
      BY <1>6, <2>1
    <3>2. Cardinality({datalist[p]}) = 1
      BY FS_Singleton
    <3> QED
      BY <3>1, <3>2
  <2>2. CASE p \notin DOMAIN datalist
    <3>1. trace \cap SightingsOf(p) = {}
      BY <1>6, <2>2
    <3> QED
      BY <3>1, FS_EmptySet
  <2> QED
    BY <2>1, <2>2
<1>8. \A p \in fp : (\E id \in Rows({p}) \cap old : id <= TOTAL) => p \in DOMAIN datalist
  BY <1>1, <1>2, RangesAssumption DEF IInv, EveryPlateRead, Rows
<1>9. TracesAreOfReported'
  <2> HIDE DEF trace
  <2>1. PlatesOf(trace) \subseteq fp
    BY <1>3 DEF PlatesOf
  <2>2. \A p \in fp : (\E id \in Rows({p}) \cap old : id <= TOTAL)
                       => trace \cap SightingsOf(p) # {}
    BY <1>6, <1>8
  <2>3. \A p : SightingsOf(p)' = SightingsOf(p) /\ Rows({p})' = Rows({p})
    BY <1>1 DEF SightingsOf, Rows
  <2>4. PlatesOf(listtree[1].Trace)' = PlatesOf(trace)
    BY <1>1, <1>4 DEF PlatesOf
  <2> QED
    BY <1>1, <1>4, <1>7, <2>1, <2>2, <2>3, <2>4 DEF TracesAreOfReported
<1>10. NamelessOnlyWhenUnjoined'
  <2> SUFFICES ASSUME DOMAIN datalist = {}, NEW id \in Rows(fp) \cap old PROVE id > TOTAL
    BY <1>1, <1>4 DEF NamelessOnlyWhenUnjoined, Rows
  <2>1. table[id] \in fp /\ id \in Rows({table[id]}) \cap old /\ id \in Nat
    BY <1>2 DEF Rows
  <2> QED
    BY <1>8, <2>1, RangesAssumption
<1> QED
  BY <1>1, <1>5, <1>9, <1>10 DEF IInv, Stands, EveryPlateRead, LatestRangeKept, Rows

LEMMA WriteSingleKeepsIInv == IInv /\ WriteSingle => IInv'
<1> SUFFICES ASSUME IInv, WriteSingle PROVE IInv'
  OBVIOUS
<1>1. /\ writer = "single"
      /\ listtree' = <<Entry(PlatesOf(Rows(fp)), Rows(fp))>>
      /\ UNCHANGED <<table, joined, writer, fp, old, step, datalist>>
  BY DEF WriteSingle
<1>2. Rows(fp) \subseteq Ids /\ PlatesOf(Rows(fp)) \subseteq fp /\ fp \subseteq Plates
  BY DEF IInv, TypeOK, Rows, PlatesOf
<1>3. /\ listtree'[1] \in Entries /\ listtree'[1].Trace = Rows(fp)
      /\ listtree'[1].LicensePlate = NoPlate => Rows(fp) = {}
  <2>1. PlatesOf(Rows(fp)) = {} => Rows(fp) = {}
    BY DEF PlatesOf
  <2> QED
    BY <1>1, <1>2, <2>1, EntryIsTyped
<1>4. TypeOK'
  <2>1. listtree' \in Seq(Entries) /\ Len(listtree') = 1
    BY <1>1, <1>3
  <2> QED
    BY <1>1, <2>1 DEF IInv, TypeOK, Rows, Recorded
<1>5. TracesAreOfReported'
  BY <1>1, <1>2, <1>3 DEF TracesAreOfReported, PlatesOf, Rows
<1>6. NamelessOnlyWhenUnjoined'
  BY <1>1, <1>3 DEF NamelessOnlyWhenUnjoined, Rows
<1> QED
  BY <1>1, <1>4, <1>5, <1>6 DEF IInv, Stands, EveryPlateRead, LatestRangeKept, Rows

LEMMA NextKeepsIInv == IInv /\ [Next]_vars => IInv'
<1>1. ASSUME IInv, UNCHANGED vars PROVE IInv'
  <2> USE <1>1 DEF vars, IInv
  <2>1. TypeOK' /\ Stands'
    BY DEF TypeOK, Rows, Recorded, Stands
  <2>2. EveryPlateRead'
    BY DEF EveryPlateRead, Rows
  <2>3. LatestRangeKept'
    BY DEF LatestRangeKept, Rows
  <2>4. TracesAreOfReported' /\ NamelessOnlyWhenUnjoined'
    BY DEF TracesAreOfReported, NamelessOnlyWhenUnjoined, Rows, PlatesOf, SightingsOf
  <2> QED
    BY <2>1, <2>2, <2>3, <2>4
<1> QED
  BY <1>1, RecordKeepsIInv, ReadChunkKeepsIInv, WriteReportKeepsIInv, WriteSingleKeepsIInv
     DEF Next

LEMMA Invariance == Spec => []IInv
BY InitIInv, NextKeepsIInv, PTL DEF Spec

-----------------------------------------------------------------------------
(* The type invariant, for any number of plates, ids and ranges.           *)
THEOREM TypeCorrect == Spec => []TypeOK
<1>1. IInv => TypeOK
  BY DEF IInv
<1> QED
  BY <1>1, Invariance, PTL

(* The ranges of EncapsulateFakePlatetoJsonThread leave no gap.            *)
THEOREM NoPlateIsSkipped == Spec => []EveryPlateRead
<1>1. IInv => EveryPlateRead
  BY DEF IInv
<1> QED
  BY <1>1, Invariance, PTL

(* Its map keeps of each plate a sighting of the latest range.             *)
THEOREM LatestIsKept == Spec => []LatestRangeKept
<1>1. IInv => LatestRangeKept
  BY DEF IInv
<1> QED
  BY <1>1, Invariance, PTL

(* The answer has rows of the plates found, and no others.                 *)
THEOREM TracesAreRight == Spec => []TracesAreOfReported
<1>1. IInv => TracesAreOfReported
  BY DEF IInv
<1> QED
  BY <1>1, Invariance, PTL

(* Its entry has no plate only when the joins with Lane, Tollgate,         *)
(* ColorType and VehicleBrandType dropped all that could be written.       *)
THEOREM NamelessIsExplained == Spec => []NamelessOnlyWhenUnjoined
<1>1. IInv => NamelessOnlyWhenUnjoined
  BY DEF IInv
<1> QED
  BY <1>1, Invariance, PTL
=============================================================================
