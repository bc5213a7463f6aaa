---------------------------- MODULE FootholdScan ----------------------------
(***************************************************************************)
(* The scan of FootholdAnalysis (TaskCode 7): the sightings of the asked   *)
(* plates come ordered by plate and time; two sightings of one plate that  *)
(* follow each other after lasttime or more are a foothold; the footholds  *)
(* collected in footholdstree become an entry of listtree, under the plate *)
(* of the row before, when the scan sees that the plate has changed.       *)
(* A foothold is named by the index of its second sighting.                *)
(***************************************************************************)
EXTENDS Integers, Sequences

CONSTANTS
    Plates,    \* plates, as their places in the order of PlateNo
    Times,     \* values of Ts
    lasttime,  \* enduringtime * 3600
    MaxRows,   \* bound of the model: rows of the result
    Word       \* 2^64 in the code: what a difference of times is taken modulo

ASSUME PlatesAssumption == Plates \subseteq Nat
ASSUME TimesAssumption ==
    /\ Times \subseteq Nat /\ lasttime \in Nat /\ MaxRows \in Nat
    /\ Word \in Nat \ {0}
    /\ \A s, t \in Times : s < t => lasttime <= Word - (t - s)

VARIABLES
    rows,           \* the result set
    i,              \* the row to read next; oldtmp holds row i - 1
    footholdstree, listtree,
    done

vars == <<rows, i, footholdstree, listtree, done>>

Row == [PlateNo : Plates, Ts : Times]

(* ORDER BY PlateNo, Ts.                                                   *)
Before(a, b) == a.PlateNo < b.PlateNo \/ (a.PlateNo = b.PlateNo /\ a.Ts <= b.Ts)
Ordered(s) == \A j, k \in DOMAIN s : j < k => Before(s[j], s[k])

(* A result of one row is given up before the scan.                        *)
Results == {s \in UNION {[1..n -> Row] : n \in 2..MaxRows} : Ordered(s)}

Init ==
    /\ rows \in Results
    /\ i = 2
    /\ footholdstree = <<>> /\ listtree = <<>>
    /\ done = FALSE

-----------------------------------------------------------------------------
(* Mutant, for MisfiledOnlyWhenClose: lasttime is signed.                  *)
SignedLasts(d) == d >= lasttime

(* A signed difference compared with an unsigned long long: a negative one *)
(* counts as a very long time.                                             *)
AsUnsigned(d) == IF d < 0 THEN d + Word ELSE d
Lasts(d) == AsUnsigned(d) >= lasttime

SamePlate(j) == rows[j].PlateNo = rows[j - 1].PlateNo
Gap(j) == rows[j].Ts - rows[j - 1].Ts

(* The entry of the collected footholds; the plate is that of oldtmp.      *)
Entry(plate) == [LicensePlate |-> plate, Footholds |-> footholdstree]

(* Mutant, for TypeOK: an entry is made of no footholds.                   *)
FileAlways(plate) ==
    /\ listtree' = Append(listtree, Entry(plate))
    /\ footholdstree' = <<>>

(* Mutant, for EveryFootholdOnce: footholdstree is not cleared.            *)
FileAndKeep(plate) ==
    /\ listtree' = IF footholdstree # <<>> THEN Append(listtree, Entry(plate)) ELSE listtree
    /\ UNCHANGED footholdstree

File(plate) ==
    IF footholdstree # <<>>
    THEN listtree' = Append(listtree, Entry(plate)) /\ footholdstree' = <<>>
    ELSE UNCHANGED <<listtree, footholdstree>>

Foothold ==
    /\ i <= Len(rows) /\ Lasts(Gap(i)) /\ SamePlate(i)
    /\ footholdstree' = Append(footholdstree, i)
    /\ i' = i + 1
    /\ UNCHANGED <<rows, listtree, done>>

NextPlate ==
    /\ i <= Len(rows) /\ Lasts(Gap(i)) /\ ~SamePlate(i)
    /\ File(rows[i - 1].PlateNo)
    /\ i' = i + 1
    /\ UNCHANGED <<rows, done>>

(* Mutant, for OneEntryPerPlate: any row that ends no foothold ends the    *)
(* plate's entry.                                                          *)
PassByFiling ==
    /\ i <= Len(rows) /\ ~Lasts(Gap(i))
    /\ File(rows[i - 1].PlateNo)
    /\ i' = i + 1
    /\ UNCHANGED <<rows, done>>

(* Too soon after the row before, be it the same plate's or another's.     *)
PassBy ==
    /\ i <= Len(rows) /\ ~Lasts(Gap(i))
    /\ i' = i + 1
    /\ UNCHANGED <<rows, footholdstree, listtree, done>>

Report ==
    /\ i > Len(rows) /\ ~done
    /\ File(rows[Len(rows)].PlateNo)
    /\ done' = TRUE
    /\ UNCHANGED <<rows, i>>

Next == Foothold \/ NextPlate \/ PassBy \/ Report

Spec == Init /\ [][Next]_vars

-----------------------------------------------------------------------------
EntryType == [LicensePlate : Plates, Footholds : Seq(2..Len(rows)) \ {<<>>}]

(* Types; no entry of the list is without footholds, and nothing is left   *)
(* out of the list when it is written.                                     *)
TypeOK ==
    /\ rows \in Results
    /\ i \in 2..(Len(rows) + 1)
    /\ footholdstree \in Seq(2..Len(rows))
    /\ listtree \in Seq(EntryType)
    /\ done \in BOOLEAN
    /\ done => i = Len(rows) + 1 /\ footholdstree = <<>>

(* What a foothold is: two successive sightings of a plate, long apart.    *)
IsFoothold(j) == SamePlate(j) /\ Gap(j) >= lasttime

Listed == {j \in 2..Len(rows) :
             \E k \in 1..Len(listtree) : \E x \in 1..Len(listtree[k].Footholds) :
                 listtree[k].Footholds[x] = j}
Collected == {footholdstree[x] : x \in 1..Len(footholdstree)}

Increasing(f) == \A x, y \in 1..Len(f) : x < y => f[x] < f[y]
Precedes(f, g) == \A x \in 1..Len(f) : \A y \in 1..Len(g) : f[x] < g[y]

(* Every foothold of the rows read is in the list or on its way into it,   *)
(* and nothing else is; each is there once, in the order of the rows,      *)
(* whatever the plates around it are.                                      *)
EveryFootholdOnce ==
    /\ Listed \cup Collected = {j \in 2..(i - 1) : IsFoothold(j)}
    /\ Increasing(footholdstree)
    /\ \A k \in 1..Len(listtree) :
          /\ Increasing(listtree[k].Footholds)
          /\ Precedes(listtree[k].Footholds, footholdstree)
          /\ \A l \in 1..Len(listtree) :
                k < l => Precedes(listtree[k].Footholds, listtree[l].Footholds)

(* No plate has two entries.                                               *)
OneEntryPerPlate ==
    \A k, l \in 1..Len(listtree) :
        k < l => listtree[k].LicensePlate < listtree[l].LicensePlate

(* The plate before row j ends there, and row j follows within lasttime.   *)
CloseChange(j) == ~SamePlate(j) /\ 0 <= Gap(j) /\ Gap(j) < lasttime

(* A foothold is filed under its own plate, unless that plate's last       *)
(* sighting is followed, within lasttime, by the first of the next plate:  *)
(* only then does the scan miss the change of plates.                      *)
MisfiledOnlyWhenClose ==
    \A k \in 1..Len(listtree) : \A x \in 1..Len(listtree[k].Footholds) :
        LET j == listtree[k].Footholds[x] IN
        \/ rows[j].PlateNo = listtree[k].LicensePlate
        \/ \E c \in (j + 1)..Len(rows) :
              CloseChange(c) /\ rows[c - 1].PlateNo = rows[j].PlateNo

(* The protocol's answer to TaskCode 7 has the footholds of each vehicle   *)
(* under its own LicensePlate.  Does not hold: see MisfiledOnlyWhenClose.  *)
FootholdsOfTheirPlate ==
    \A k \in 1..Len(listtree) : \A x \in 1..Len(listtree[k].Footholds) :
        rows[listtree[k].Footholds[x]].PlateNo = listtree[k].LicensePlate
=============================================================================
