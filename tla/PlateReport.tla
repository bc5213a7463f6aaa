---------------------------- MODULE PlateReport ----------------------------
(***************************************************************************)
(* The two writers of reports.  EncapsulateFakePlatetoJsonThread writes    *)
(* that of every task that found plates (TaskCode 0 without a plate, 1 to  *)
(* 6): MotorVehicle is read in ranges of MotorVehicleID; datalist, a map   *)
(* from plate to vehicle, keeps of each plate the row that was read last.  *)
(* EncapsulateFakePlatetoJson writes that of the one accused plate of      *)
(* TaskCode 0 from a single query.  Both queries join four tables: Lane    *)
(* and Tollgate by the sighting's device, ColorType and VehicleBrandType   *)
(* by its colour and brand.  The queries of TaskCode 1 to 6 that found the *)
(* plates join none of them, the first query of a plate task only Lane and *)
(* Tollgate.  The cameras record while a report is read; the four tables   *)
(* are taken not to change.                                                *)
(***************************************************************************)
EXTENDS Integers, Sequences, FiniteSets, FiniteSetsExt, Functions

CONSTANTS
    MaxPlate,    \* bound of the model: plates, as their places in the order of std::string
    MaxId,       \* bound of the model: ids of sightings are 1..MaxId
    STEP, TOTAL  \* the width of a range, and where the ranges end

ASSUME PlatesAssumption == MaxPlate \in Nat
ASSUME RangesAssumption == MaxId \in Nat /\ STEP \in Nat \ {0} /\ TOTAL \in Nat

VARIABLES
    table,      \* MotorVehicle: the plate of each sighting, NoPlate when there is none
    joined,     \* the sightings that have a row in each of the four tables
    writer,     \* "single" or "ranges"
    fp,         \* the plates to report
    old,        \* history: the sightings recorded when they were found
    step,
    datalist,   \* the sighting each plate is reported with
    listtree    \* the list of the answer

vars == <<table, joined, writer, fp, old, step, datalist, listtree>>

Ids == 1..MaxId
Plates == 1..MaxPlate
NoPlate == 0

Entries == [LicensePlate : Plates \cup {NoPlate}, Trace : SUBSET Ids]

Recorded == {id \in Ids : table[id] # NoPlate}
PlatesOf(ids) == {table[id] : id \in ids}
SightingsOf(p) == {id \in Ids : table[id] = p}

(* A task reports plates it found sighted; that of the single writer is    *)
(* the one of its request.                                                 *)
Init ==
    /\ table \in [Ids -> Plates \cup {NoPlate}]
    /\ joined \in SUBSET Ids
    /\ writer \in {"single", "ranges"}
    /\ fp \in SUBSET PlatesOf(Recorded) \ {{}}
    /\ writer = "single" => Cardinality(fp) = 1
    /\ old = Recorded
    /\ step = 0
    /\ datalist = <<>>
    /\ listtree = <<>>

-----------------------------------------------------------------------------
(* A camera records a vehicle.                                             *)
Record ==
    /\ listtree = <<>>
    /\ \E id \in Ids \ Recorded, p \in Plates : table' = [table EXCEPT ![id] = p]
    /\ UNCHANGED <<joined, writer, fp, old, step, datalist, listtree>>

(* The rows of both queries: a sighting without a lane, a tollgate, or the *)
(* names of its colour and its brand is dropped by an inner join.          *)
Rows(plates) == {id \in joined : table[id] \in plates}

(* Mutant, for EveryPlateRead: the ranges do not meet.                     *)
ShortRange == {id \in Rows(fp) : step < id /\ id < step + STEP}

(* Mutant, for TypeOK: the plates of the task are not in the query.        *)
RangeOfAll == {id \in Rows(Plates) : step <= id /\ id <= step + STEP}

(* WHERE MotorVehicleID BETWEEN step AND step + STEP AND plateNo IN fp     *)
InRange == {id \in Rows(fp) : step <= id /\ id <= step + STEP}

(* The map once the rows of later are put into it.                         *)
PutInto(map, later) ==
    [p \in DOMAIN map \cup DOMAIN later |->
        IF p \in DOMAIN later THEN later[p] ELSE map[p]]

(* Mutant, for LatestRangeKept: a plate that is in the map is not replaced.*)
ReadChunkOnce ==
    /\ writer = "ranges" /\ step < TOTAL
    /\ \E last \in [PlatesOf(InRange) -> InRange] :
          /\ \A p \in DOMAIN last : table[last[p]] = p
          /\ datalist' = PutInto(last, datalist)
    /\ step' = step + STEP
    /\ UNCHANGED <<table, joined, writer, fp, old, listtree>>

(* The rows of a range come ordered by plate; which row of a plate comes   *)
(* last, and stays in the map, is not said.                                *)
ReadChunk ==
    /\ writer = "ranges" /\ step < TOTAL
    /\ \E last \in [PlatesOf(InRange) -> InRange] :
          /\ \A p \in DOMAIN last : table[last[p]] = p
          /\ datalist' = PutInto(datalist, last)
    /\ step' = step + STEP
    /\ UNCHANGED <<table, joined, writer, fp, old, listtree>>

(* One templisttree is filled for all plates in turn: the name of the last *)
(* one and the traces of all are in the one entry of the list.             *)
Entry(plates, trace) ==
    [LicensePlate |-> IF plates = {} THEN NoPlate ELSE Max(plates), Trace |-> trace]

(* Mutant, for TracesAreOfReported: the report is written before the last  *)
(* range is read.                                                          *)
WriteReportEarly ==
    /\ writer = "ranges" /\ step + STEP >= TOTAL /\ listtree = <<>>
    /\ listtree' = <<Entry(DOMAIN datalist, Range(datalist))>>
    /\ UNCHANGED <<table, joined, writer, fp, old, step, datalist>>

WriteReport ==
    /\ writer = "ranges" /\ step >= TOTAL /\ listtree = <<>>
    /\ listtree' = <<Entry(DOMAIN datalist, Range(datalist))>>
    /\ UNCHANGED <<table, joined, writer, fp, old, step, datalist>>

(* Mutant, for NamelessOnlyWhenUnjoined: the name is set when the plate    *)
(* changes, and not with the first row.                                    *)
WriteSingleUnnamed ==
    /\ writer = "single" /\ listtree = <<>>
    /\ listtree' = <<Entry({}, Rows(fp))>>
    /\ UNCHANGED <<table, joined, writer, fp, old, step, datalist>>

(* EncapsulateJson: all rows are of the plate asked for, so the plate is   *)
(* set by the first of them and the one entry is written after the last.   *)
WriteSingle ==
    /\ writer = "single" /\ listtree = <<>>
    /\ listtree' = <<Entry(PlatesOf(Rows(fp)), Rows(fp))>>
    /\ UNCHANGED <<table, joined, writer, fp, old, step, datalist>>

Next == Record \/ ReadChunk \/ WriteReport \/ WriteSingle

Spec == Init /\ [][Next]_vars

-----------------------------------------------------------------------------
(* Types, and where the reading stands: ranges are read one after the      *)
(* other, and a plate is kept with a sighting of its own.                  *)
TypeOK ==
    /\ table \in [Ids -> Plates \cup {NoPlate}] /\ joined \subseteq Ids
    /\ writer \in {"single", "ranges"} /\ fp \subseteq Plates /\ old \subseteq Recorded
    /\ step \in {n * STEP : n \in 0..TOTAL} /\ step < TOTAL + STEP
    /\ DOMAIN datalist \subseteq fp
    /\ \A p \in DOMAIN datalist : datalist[p] \in Rows({p})
    /\ listtree \in Seq(Entries) /\ Len(listtree) <= 1

(* Every plate to report that had a row in a range read is in the map: the *)
(* ranges leave no gap, whatever is recorded meanwhile.  Only a sighting   *)
(* that one of the four joins drops is not read.                           *)
EveryPlateRead ==
    \A p \in fp :
        (\E id \in Rows({p}) \cap old : id <= step) => p \in DOMAIN datalist

(* A plate is reported with a row that no later range replaces.            *)
LatestRangeKept ==
    \A p \in DOMAIN datalist : \A id \in Rows({p}) \cap old :
        id <= step => (id - 1) \div STEP <= datalist[p] \div STEP

(* The answer has sightings of the plates to report only: with ranges one  *)
(* of each plate that had a row all four joins keep with an id up to TOTAL,*)
(* however many there are; by the single query all rows there were.        *)
TracesAreOfReported ==
    listtree # <<>> =>
        LET trace == listtree[1].Trace IN
        /\ PlatesOf(trace) \subseteq fp
        /\ writer = "single" => Rows(fp) \cap old \subseteq trace
        /\ writer = "ranges" =>
              \A p \in fp :
                  /\ Cardinality(trace \cap SightingsOf(p)) <= 1
                  /\ (\E id \in Rows({p}) \cap old : id <= TOTAL)
                        => trace \cap SightingsOf(p) # {}

(* The answer's entry has no plate only when one of the four joins dropped *)
(* every sighting that the plates found had, by ranges every one up to     *)
(* TOTAL: the plate is never lost in the passing of rows to the list.      *)
NamelessOnlyWhenUnjoined ==
    listtree # <<>> /\ listtree[1].LicensePlate = NoPlate =>
        \A id \in Rows(fp) \cap old : writer = "ranges" /\ id > TOTAL
=============================================================================
