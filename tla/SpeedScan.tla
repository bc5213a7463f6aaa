----------------------------- MODULE SpeedScan -----------------------------
(***************************************************************************)
(* IsFakePlateVehicle (TaskCode 0): a plate is a fake one when one car     *)
(* cannot have been at two of its sightings.  The sightings come latest    *)
(* first; the scan compares the speed between neighbours with Threshold.   *)
(* Both tasks of TaskCode 0 fill the path that is scanned from columns of  *)
(* their query: the plate task reads the time of a sighting by the name    *)
(* the query gives it, the advanced task by a name no column has.          *)
(***************************************************************************)
EXTENDS Integers, Sequences

CONSTANTS
    Sites,         \* places of the tollgates
    distance(_, _),  \* metres between two places, in whole units
    longitude,     \* the longitude of a place, as atoll reads it
    Times,         \* values of the column time
    Threshold,     \* units of distance a car makes in one unit of time
    MaxSightings   \* bound of the model: sightings of the plate

(* The great-circle distance is a metric.                                  *)
ASSUME DistanceAssumption ==
    /\ \A a, b \in Sites : distance(a, b) \in Nat
    /\ \A a, b, c \in Sites : distance(a, c) <= distance(a, b) + distance(b, c)
    /\ \A a, b \in Sites : distance(a, b) = distance(b, a)
    /\ \A a \in Sites : distance(a, a) = 0
ASSUME ColumnsAssumption == longitude \in [Sites -> Int] /\ Times \subseteq Nat
ASSUME BoundsAssumption == Threshold \in Nat /\ MaxSightings \in Nat \ {0}

VARIABLES
    task,        \* "plate" or "advanced"
    sightings,   \* rows of the result
    path,        \* the Coordinates built from them
    i,           \* neighbours i and i + 1 are compared next
    verdict      \* what IsFakePlateVehicle returned: "none" before it does

vars == <<task, sightings, path, i, verdict>>

Coordinate == [site : Sites, time : Int]
Sighting == [site : Sites, time : Times]

(* ORDER BY MotorVehicle.AppearTime DESC.                                  *)
LatestFirst(s) == \A j, k \in DOMAIN s : j < k => s[j].time >= s[k].time
Results == {s \in UNION {[1..n -> Sighting] : n \in 1..MaxSightings} : LatestFirst(s)}

Init ==
    /\ task \in {"plate", "advanced"}
    /\ sightings \in Results
    /\ path = <<>>
    /\ i = 1
    /\ verdict = "none"

-----------------------------------------------------------------------------
Abs(d) == IF d < 0 THEN -d ELSE d

(* v > Threshold for the double v = d / |dt|: the quotient by zero is      *)
(* infinite, or, when d is zero as well, not a number and not greater.     *)
Speeding(a, b) == distance(a.site, b.site) > Threshold * Abs(a.time - b.time)

(* Mutant, for FakeIsProven: the plate task misses the name as well.       *)
ColumnTimeMissed(s) == longitude[s.site]

(* fieldsnameMap[name] is 0, the column of the longitude, for a name that  *)
(* is not there.                                                           *)
ColumnTime(s) == IF task = "plate" THEN s.time ELSE longitude[s.site]

ReadPath ==
    /\ path = <<>>
    /\ path' = [k \in 1..Len(sightings) |->
                   [site |-> sightings[k].site, time |-> ColumnTime(sightings[k])]]
    /\ UNCHANGED <<task, sightings, i, verdict>>

TooShort ==
    /\ Len(path) = 1 /\ verdict = "none"
    /\ verdict' = "short"
    /\ UNCHANGED <<task, sightings, path, i>>

Scanning == verdict = "none" /\ Len(path) >= 2

(* Mutant, for TypeOK: the loop is not left when the speed is too high.    *)
TooFastGoesOn ==
    /\ Scanning /\ i < Len(path)
    /\ Speeding(path[i], path[i + 1])
    /\ verdict' = "fake"
    /\ i' = i + 1
    /\ UNCHANGED <<task, sightings, path>>

TooFast ==
    /\ Scanning /\ i < Len(path)
    /\ Speeding(path[i], path[i + 1])
    /\ verdict' = "fake"
    /\ UNCHANGED <<task, sightings, path, i>>

SlowEnough ==
    /\ Scanning /\ i < Len(path)
    /\ ~Speeding(path[i], path[i + 1])
    /\ i' = i + 1
    /\ UNCHANGED <<task, sightings, path, verdict>>

(* Mutant, for CleanIsClean: the last two sightings are not compared.      *)
ScanEndsEarly ==
    /\ Scanning /\ i >= Len(path) - 1
    /\ verdict' = "clean"
    /\ UNCHANGED <<task, sightings, path, i>>

ScanEnds ==
    /\ Scanning /\ i = Len(path)
    /\ verdict' = "clean"
    /\ UNCHANGED <<task, sightings, path, i>>

Next == ReadPath \/ TooShort \/ TooFast \/ SlowEnough \/ ScanEnds

Spec == Init /\ [][Next]_vars

-----------------------------------------------------------------------------
(* Types, and where the scan stands: path is as long as the result, and a  *)
(* fake plate is found at the neighbours that show it.                     *)
TypeOK ==
    /\ task \in {"plate", "advanced"}
    /\ sightings \in Results
    /\ path \in Seq(Coordinate) /\ Len(path) \in {0, Len(sightings)}
    /\ i \in 1..Len(sightings)
    /\ verdict \in {"none", "short", "clean", "fake"}
    /\ verdict = "fake" => i < Len(path) /\ Speeding(path[i], path[i + 1])

(* Nobody is at these two sightings within the limit of speed.             *)
Impossible(j, k) == Speeding(sightings[j], sightings[k])

(* The plate task clears a plate only when no two of its sightings, be     *)
(* they neighbours or not, need more than the limit of speed.              *)
CleanIsClean ==
    verdict = "clean" /\ task = "plate" =>
        \A j, k \in 1..Len(sightings) : ~Impossible(j, k)

(* The plate task accuses a plate only when two of its sightings need more *)
(* than the limit of speed.                                                *)
FakeIsProven ==
    verdict = "fake" /\ task = "plate" =>
        \E j, k \in 1..Len(sightings) : Impossible(j, k)

(* CarJudgedAlgorithm.h says of Coordinate::time that it is the time of    *)
(* the sighting, so that both tasks accuse a plate only for its speed.     *)
(* Does not hold for the advanced task, whose times are longitudes.        *)
AccusedForSpeed ==
    verdict = "fake" => \E j, k \in 1..Len(sightings) : Impossible(j, k)
=============================================================================
