-------------------------- MODULE SpeedScanProofs --------------------------
(***************************************************************************)
(* What the scan of neighbours proves about all pairs of sightings, for    *)
(* every metric, every threshold and every result.                         *)
(***************************************************************************)
EXTENDS SpeedScan, TLAPS

(* The path holds the columns of the result.                               *)
PathRead ==
    path # <<>> =>
        /\ Len(path) = Len(sightings)
        /\ \A k \in 1..Len(sightings) :
              path[k] = [site |-> sightings[k].site, time |-> ColumnTime(sightings[k])]

(* No two of the sightings up to i are impossible.                         *)
Scanned ==
    task = "plate" => \A j, k \in 1..i : j <= k => ~Impossible(j, k)

Stands ==
    /\ path = <<>> => i = 1 /\ verdict = "none"
    /\ verdict = "clean" => i = Len(sightings)

IInv == TypeOK /\ PathRead /\ Scanned /\ Stands

(* A result is a sequence of sightings, the latest first.                  *)
LEMMA ResultsAreSequences ==
    ASSUME NEW s \in Results
    PROVE  /\ s \in Seq(Sighting) /\ Len(s) \in Nat /\ Len(s) >= 1
           /\ \A k \in 1..Len(s) : s[k] \in Sighting
           /\ \A j, k \in 1..Len(s) : j < k => s[j].time >= s[k].time
<1>1. PICK n \in 1..MaxSightings : s \in [1..n -> Sighting]
  BY DEF Results
<1>2. n \in Nat /\ n >= 1 /\ Len(s) = n /\ DOMAIN s = 1..n /\ s \in Seq(Sighting)
  BY <1>1, BoundsAssumption
<1>3. LatestFirst(s)
  BY DEF Results
<1>. QED
  BY <1>1, <1>2, <1>3 DEF LatestFirst

(* The parts of a sighting.                                                *)
LEMMA SightingParts ==
    ASSUME NEW s \in Sighting
    PROVE  s.site \in Sites /\ s.time \in Nat /\ s \in Coordinate
<1>1. s.site \in Sites /\ s.time \in Times /\ s = [site |-> s.site, time |-> s.time]
  BY DEF Sighting
<1>2. s.time \in Nat /\ s.time \in Int
  BY <1>1, ColumnsAssumption
<1>. QED
  BY <1>1, <1>2 DEF Coordinate

(* In the plate task the path is the result.                               *)
LEMMA PathOfPlate ==
    ASSUME PathRead, path # <<>>, task = "plate", NEW m \in 1..Len(sightings)
    PROVE  path[m].site = sightings[m].site /\ path[m].time = sightings[m].time
<1>1. path[m] = [site |-> sightings[m].site, time |-> ColumnTime(sightings[m])]
  BY DEF PathRead
<1>2. ColumnTime(sightings[m]) = sightings[m].time
  BY DEF ColumnTime
<1>. QED
  BY <1>1, <1>2

(* Two stretches within the limit of speed make a stretch within it.       *)
LEMMA SpeedsAdd ==
    ASSUME NEW a \in Sites, NEW b \in Sites, NEW c \in Sites,
           NEW r \in Nat, NEW s \in Nat, NEW t \in Nat,
           distance(a, b) <= Threshold * (r - s),
           distance(b, c) <= Threshold * (s - t)
    PROVE  distance(a, c) <= Threshold * (r - t)
<1>1. Threshold * (r - t) = Threshold * (r - s) + Threshold * (s - t)
  BY BoundsAssumption
<1>2. distance(a, c) <= distance(a, b) + distance(b, c)
  BY DistanceAssumption
<1>3. /\ distance(a, b) \in Nat /\ distance(b, c) \in Nat /\ distance(a, c) \in Nat
      /\ Threshold * (r - s) \in Int /\ Threshold * (s - t) \in Int
  BY DistanceAssumption, BoundsAssumption
<1>. QED
  BY <1>1, <1>2, <1>3

(* Speeding does not depend on the order of the two.                       *)
LEMMA SpeedingSymmetric ==
    ASSUME NEW a \in Coordinate, NEW b \in Coordinate
    PROVE  Speeding(a, b) <=> Speeding(b, a)
<1>1. Abs(a.time - b.time) = Abs(b.time - a.time)
  BY DEF Abs, Coordinate
<1>2. distance(a.site, b.site) = distance(b.site, a.site)
  BY DistanceAssumption DEF Coordinate
<1>. QED
  BY <1>1, <1>2 DEF Speeding

(* One more neighbour within the limit makes all pairs within it.          *)
LEMMA ScanOneMore == IInv /\ SlowEnough => Scanned'
<1> SUFFICES ASSUME IInv, SlowEnough, task = "plate",
                    NEW j \in 1..(i + 1), NEW k \in 1..(i + 1), j <= k
             PROVE  ~Impossible(j, k)
  BY DEF Scanned, SlowEnough, Impossible, Speeding, Abs
<1>1. /\ i \in Nat /\ i >= 1 /\ i + 1 <= Len(sightings) /\ Len(sightings) \in Nat
      /\ path # <<>>
  BY ResultsAreSequences DEF IInv, TypeOK, SlowEnough, Scanning, Stands
<1>2. /\ \A m \in 1..Len(sightings) : sightings[m] \in Sighting
      /\ \A l, m \in 1..Len(sightings) : l < m => sightings[l].time >= sightings[m].time
  BY ResultsAreSequences DEF IInv, TypeOK
<1>3. \A m \in 1..Len(sightings) :
         path[m].site = sightings[m].site /\ path[m].time = sightings[m].time
  BY <1>1, PathOfPlate DEF IInv
<1>4. ~Impossible(i, i + 1)
  BY <1>1, <1>3 DEF SlowEnough, Speeding, Impossible
<1>5. CASE k <= i
  BY <1>5, <1>1 DEF IInv, Scanned
<1>6. CASE j = i + 1 /\ k = i + 1
  <2>1. sightings[j].site \in Sites /\ sightings[j].time \in Nat
    BY <1>1, <1>2, <1>6, SightingParts
  <2>2. distance(sightings[j].site, sightings[j].site) = 0
    BY <2>1, DistanceAssumption
  <2>3. Threshold * Abs(sightings[j].time - sightings[j].time) = 0
    BY <2>1, BoundsAssumption DEF Abs
  <2>. QED
    BY <1>6, <2>2, <2>3 DEF Impossible, Speeding
<1>7. CASE j <= i /\ k = i + 1
  <2> DEFINE a == sightings[j]
             b == sightings[i]
             c == sightings[k]
  <2>1. a \in Sighting /\ b \in Sighting /\ c \in Sighting
    BY <1>1, <1>2, <1>7
  <2>2. a.time >= b.time /\ b.time >= c.time
    <3>1. j = i \/ j < i
      BY <1>1, <1>7
    <3>2. a.time \in Nat
      BY <2>1, SightingParts
    <3>. QED
      BY <1>1, <1>2, <1>7, <3>1, <3>2
  <2>3. /\ a.time \in Nat /\ b.time \in Nat /\ c.time \in Nat
        /\ a.site \in Sites /\ b.site \in Sites /\ c.site \in Sites
    BY <2>1, SightingParts
  <2>4. ~Impossible(j, i)
    BY <1>1, <1>7 DEF IInv, Scanned
  <2>5. /\ distance(a.site, b.site) \in Nat /\ distance(b.site, c.site) \in Nat
        /\ distance(a.site, c.site) \in Nat
    BY <2>3, DistanceAssumption
  <2>6. /\ Abs(a.time - b.time) = a.time - b.time
        /\ Abs(b.time - c.time) = b.time - c.time
        /\ Abs(a.time - c.time) = a.time - c.time
    BY <2>2, <2>3 DEF Abs
  <2>7. distance(a.site, b.site) <= Threshold * (a.time - b.time)
    BY <2>3, <2>4, <2>5, <2>6, BoundsAssumption DEF Impossible, Speeding
  <2>8. distance(b.site, c.site) <= Threshold * (b.time - c.time)
    BY <1>4, <1>7, <2>3, <2>5, <2>6, BoundsAssumption DEF Impossible, Speeding
  <2>9. distance(a.site, c.site) <= Threshold * (a.time - c.time)
    BY <2>3, <2>7, <2>8, SpeedsAdd
  <2>. QED
    BY <1>7, <2>3, <2>5, <2>6, <2>9, BoundsAssumption DEF Impossible, Speeding
<1>. QED
  BY <1>1, <1>5, <1>6, <1>7

(* The inductive invariant: what the scan has passed is possible, and the  *)
(* path is what was read.                                                  *)
THEOREM IInvInvariant == Spec => []IInv
<1>1. Init => IInv
  <2> SUFFICES ASSUME Init PROVE IInv
    OBVIOUS
  <2>1. /\ Len(sightings) \in Nat /\ Len(sightings) >= 1 /\ sightings[1] \in Sighting
    BY ResultsAreSequences DEF Init
  <2>2. TypeOK
    BY <2>1 DEF Init, TypeOK
  <2>3. ~Impossible(1, 1)
    <3>1. sightings[1].site \in Sites /\ sightings[1].time \in Nat
      BY <2>1, ColumnsAssumption DEF Sighting
    <3>2. distance(sightings[1].site, sightings[1].site) = 0
      BY <3>1, DistanceAssumption
    <3>3. Threshold * Abs(sightings[1].time - sightings[1].time) = 0
      BY <3>1, BoundsAssumption DEF Abs
    <3>. QED
      BY <3>2, <3>3 DEF Impossible, Speeding
  <2>4. Scanned
    BY <2>3 DEF Init, Scanned
  <2>. QED
    BY <2>2, <2>4 DEF Init, IInv, PathRead, Stands
<1>2. IInv /\ [Next]_vars => IInv'
  <2> SUFFICES ASSUME IInv, [Next]_vars PROVE IInv'
    OBVIOUS
  <2> USE DEF IInv
  <2>1. /\ sightings \in Seq(Sighting) /\ Len(sightings) \in Nat /\ Len(sightings) >= 1
        /\ \A k \in 1..Len(sightings) : sightings[k] \in Sighting
    BY ResultsAreSequences DEF TypeOK
  <2>2. CASE ReadPath
    <3>1. \A k \in 1..Len(sightings) : ColumnTime(sightings[k]) \in Int
      <4> SUFFICES ASSUME NEW k \in 1..Len(sightings)
                   PROVE  ColumnTime(sightings[k]) \in Int
        OBVIOUS
      <4>1. sightings[k].site \in Sites /\ sightings[k].time \in Nat
        BY <2>1, SightingParts
      <4>2. longitude[sightings[k].site] \in Int
        BY <4>1, ColumnsAssumption
      <4>. QED
        BY <4>1, <4>2 DEF ColumnTime
    <3>2. path' \in [1..Len(sightings) -> Coordinate]
      BY <2>1, <2>2, <3>1 DEF ReadPath, Coordinate, Sighting
    <3>3. path' \in Seq(Coordinate) /\ Len(path') = Len(sightings)
      BY <2>1, <3>2
    <3>4. TypeOK'
      BY <2>2, <3>3 DEF TypeOK, ReadPath, Stands
    <3>5. PathRead' /\ Stands'
      BY <2>1, <2>2, <3>3 DEF PathRead, Stands, ReadPath, ColumnTime, TypeOK
    <3>6. Scanned'
      BY <2>2 DEF Scanned, ReadPath, Impossible, Speeding, Abs
    <3>. QED
      BY <3>4, <3>5, <3>6
  <2>3. CASE TooShort
    <3>1. /\ verdict' = "short" /\ Len(path) = 1
          /\ UNCHANGED <<task, sightings, path, i>>
      BY <2>3 DEF TooShort
    <3>2. path # <<>>
      BY <3>1
    <3>3. TypeOK' /\ Stands'
      BY <3>1, <3>2 DEF TypeOK, Stands
    <3>4. PathRead' /\ Scanned'
      BY <3>1 DEF PathRead, ColumnTime, Scanned, Impossible
    <3>. QED
      BY <3>3, <3>4
  <2>4. CASE TooFast
    BY <2>4 DEF TooFast, Scanning, TypeOK, PathRead, ColumnTime, Scanned, Stands, Impossible
  <2>5. CASE SlowEnough
    <3>1. TypeOK' /\ PathRead' /\ Stands'
      BY <2>1, <2>5 DEF SlowEnough, Scanning, TypeOK, PathRead, ColumnTime, Stands
    <3>. QED
      BY <2>5, <3>1, ScanOneMore
  <2>6. CASE ScanEnds
    BY <2>6 DEF ScanEnds, Scanning, TypeOK, PathRead, ColumnTime, Scanned, Stands, Impossible
  <2>7. CASE UNCHANGED vars
    BY <2>7 DEF vars, TypeOK, PathRead, ColumnTime, Scanned, Stands, Impossible
  <2>. QED
    BY <2>2, <2>3, <2>4, <2>5, <2>6, <2>7 DEF Next
<1>. QED
  BY <1>1, <1>2, PTL DEF Spec

(* Types, and where the scan stands.                                       *)
THEOREM TypeCorrect == Spec => []TypeOK
  BY IInvInvariant, PTL DEF IInv

(* Comparing neighbours is enough: a plate the plate task clears has no    *)
(* two sightings that need more than the limit of speed.                   *)
THEOREM ClearedPlatesAreClean == Spec => []CleanIsClean
<1>1. IInv => CleanIsClean
  <2> SUFFICES ASSUME IInv, verdict = "clean", task = "plate",
                      NEW j \in 1..Len(sightings), NEW k \in 1..Len(sightings)
               PROVE  ~Impossible(j, k)
    BY DEF CleanIsClean
  <2>1. sightings[j] \in Coordinate /\ sightings[k] \in Coordinate /\ Len(sightings) \in Nat
    BY ResultsAreSequences, SightingParts DEF IInv, TypeOK
  <2>2. j <= k => ~Impossible(j, k)
    BY DEF IInv, Scanned, Stands
  <2>3. k <= j => ~Impossible(k, j)
    BY DEF IInv, Scanned, Stands
  <2>. QED
    BY <2>1, <2>2, <2>3, SpeedingSymmetric DEF Impossible
<1>. QED
  BY <1>1, IInvInvariant, PTL

(* A plate the plate task accuses has two sightings that show it.          *)
THEOREM AccusedPlatesAreFake == Spec => []FakeIsProven
<1>1. IInv => FakeIsProven
  <2> SUFFICES ASSUME IInv, verdict = "fake", task = "plate"
               PROVE  \E j, k \in 1..Len(sightings) : Impossible(j, k)
    BY DEF FakeIsProven
  <2>1. /\ i \in Nat /\ i >= 1 /\ i < Len(sightings) /\ Len(sightings) \in Nat
        /\ path # <<>> /\ Speeding(path[i], path[i + 1])
    BY ResultsAreSequences DEF IInv, TypeOK, Stands
  <2>2. \A m \in {i, i + 1} :
           path[m].site = sightings[m].site /\ path[m].time = sightings[m].time
    BY <2>1, PathOfPlate DEF IInv
  <2>3. Impossible(i, i + 1)
    BY <2>1, <2>2 DEF Impossible, Speeding
  <2>. QED
    BY <2>1, <2>3
<1>. QED
  BY <1>1, IInvInvariant, PTL
=============================================================================
