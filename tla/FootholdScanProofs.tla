------------------------- MODULE FootholdScanProofs -------------------------
(***************************************************************************)
(* What FootholdAnalysis lists, for every set of plates and times, every   *)
(* duration and every result that fits the assumptions.                    *)
(***************************************************************************)
EXTENDS FootholdScan, TLAPS

(* A result is a sequence of two rows or more, ordered by plate and time.  *)
LEMMA ResultsAreSequences ==
    ASSUME NEW s \in Results
    PROVE  /\ Len(s) \in Nat /\ Len(s) >= 2
           /\ \A j \in 1..Len(s) : /\ s[j] \in Row
                                   /\ s[j].PlateNo \in Plates /\ s[j].Ts \in Times
                                   /\ s[j].PlateNo \in Nat /\ s[j].Ts \in Nat
           /\ \A j, k \in 1..Len(s) : j < k => Before(s[j], s[k])
<1>1. PICK n \in 2..MaxRows : s \in [1..n -> Row]
  BY DEF Results
<1>2. n \in Nat /\ n >= 2 /\ Len(s) = n /\ DOMAIN s = 1..n
  BY <1>1, TimesAssumption
<1>3. \A j \in 1..Len(s) : s[j] \in Row
  BY <1>1, <1>2
<1>4. Ordered(s)
  BY DEF Results
<1>. QED
  BY <1>2, <1>3, <1>4, PlatesAssumption, TimesAssumption DEF Ordered, Row

(* The comparison with lasttime: a step back in time lasts, another step   *)
(* lasts when it is long enough; within a plate there is no step back.     *)
LEMMA StepsOfTime ==
    ASSUME rows \in Results, NEW j \in 2..Len(rows)
    PROVE  /\ Gap(j) \in Int
           /\ Lasts(Gap(j)) <=> Gap(j) < 0 \/ Gap(j) >= lasttime
           /\ SamePlate(j) => Gap(j) >= 0
           /\ ~SamePlate(j) => rows[j - 1].PlateNo < rows[j].PlateNo
           /\ rows[j - 1].PlateNo \in Nat /\ rows[j].PlateNo \in Nat
           /\ rows[j - 1].PlateNo \in Plates /\ rows[j - 1].PlateNo <= rows[j].PlateNo
<1>1. /\ j - 1 \in 1..Len(rows) /\ j \in 1..Len(rows) /\ j - 1 < j
  BY ResultsAreSequences
<1>2. /\ rows[j].Ts \in Times /\ rows[j - 1].Ts \in Times
      /\ rows[j].Ts \in Nat /\ rows[j - 1].Ts \in Nat
      /\ rows[j].PlateNo \in Nat /\ rows[j - 1].PlateNo \in Nat
      /\ rows[j - 1].PlateNo \in Plates
  BY <1>1, ResultsAreSequences
<1>3. Before(rows[j - 1], rows[j])
  BY <1>1, ResultsAreSequences
<1>4. rows[j].Ts < rows[j - 1].Ts => lasttime <= Word - (rows[j - 1].Ts - rows[j].Ts)
  BY <1>2, TimesAssumption
<1>5. lasttime \in Nat /\ Word \in Nat
  BY TimesAssumption
<1>6. Gap(j) \in Int /\ (Lasts(Gap(j)) <=> Gap(j) < 0 \/ Gap(j) >= lasttime)
  BY <1>2, <1>4, <1>5 DEF Gap, Lasts, AsUnsigned
<1>. QED
  BY <1>2, <1>3, <1>6 DEF SamePlate, Before, Gap

-----------------------------------------------------------------------------
(* After row j and before row n the scan passed from the plate p to the    *)
(* next one without noticing it.                                           *)
LeftUnnoticed(p, j, n) ==
    \E c \in (j + 1)..(n - 1) : CloseChange(c) /\ rows[c - 1].PlateNo = p

(* What is collected, or listed under a plate, is of that plate or of one  *)
(* that was left unnoticed.                                                *)
Filed(j, plate, n) ==
    rows[j].PlateNo = plate \/ LeftUnnoticed(rows[j].PlateNo, j, n)

Places ==
    /\ \A x \in 1..Len(footholdstree) :
          footholdstree[x] < i /\ Filed(footholdstree[x], rows[i - 1].PlateNo, i)
    /\ ~done => \A k \in 1..Len(listtree) : listtree[k].LicensePlate < rows[i - 1].PlateNo

(* Where the listed footholds are filed.                                   *)
ListPlaces ==
    \A k \in 1..Len(listtree) : \A x \in 1..Len(listtree[k].Footholds) :
        /\ listtree[k].Footholds[x] < i
        /\ Filed(listtree[k].Footholds[x], listtree[k].LicensePlate, Len(rows) + 1)

IInv == TypeOK /\ EveryFootholdOnce /\ OneEntryPerPlate /\ Places /\ ListPlaces

(* A change of plates that was missed stays missed.                        *)
LEMMA LeftUnnoticedGrows ==
    ASSUME NEW p, NEW j \in Nat, NEW m \in Nat, NEW n \in Nat, m <= n,
           LeftUnnoticed(p, j, m)
    PROVE  LeftUnnoticed(p, j, n)
  BY DEF LeftUnnoticed

(* The members of a sequence and of the entries of the list.               *)
LEMMA Members ==
    ASSUME TypeOK
    PROVE  /\ Len(rows) \in Nat /\ Len(rows) >= 2 /\ i \in Nat /\ i >= 2 /\ i <= Len(rows) + 1
           /\ Len(footholdstree) \in Nat /\ Len(listtree) \in Nat
           /\ \A x \in 1..Len(footholdstree) : footholdstree[x] \in 2..Len(rows)
           /\ \A k \in 1..Len(listtree) :
                 /\ listtree[k].LicensePlate \in Plates /\ listtree[k].LicensePlate \in Nat
                 /\ listtree[k].Footholds \in Seq(2..Len(rows))
                 /\ listtree[k].Footholds # <<>>
                 /\ Len(listtree[k].Footholds) \in Nat
                 /\ \A x \in 1..Len(listtree[k].Footholds) :
                       listtree[k].Footholds[x] \in 2..Len(rows)
<1>1. Len(rows) \in Nat /\ Len(rows) >= 2 /\ i \in Nat /\ i >= 2 /\ i <= Len(rows) + 1
  BY ResultsAreSequences DEF TypeOK
<1>2. /\ Len(footholdstree) \in Nat
      /\ \A x \in 1..Len(footholdstree) : footholdstree[x] \in 2..Len(rows)
  BY DEF TypeOK
<1>3. /\ Len(listtree) \in Nat
      /\ \A k \in 1..Len(listtree) :
            listtree[k] \in EntryType
  BY DEF TypeOK
<1>4. ASSUME NEW k \in 1..Len(listtree)
      PROVE  /\ listtree[k].LicensePlate \in Plates /\ listtree[k].LicensePlate \in Nat
             /\ listtree[k].Footholds \in Seq(2..Len(rows))
             /\ listtree[k].Footholds # <<>>
             /\ Len(listtree[k].Footholds) \in Nat
             /\ \A x \in 1..Len(listtree[k].Footholds) :
                   listtree[k].Footholds[x] \in 2..Len(rows)
  <2>1. listtree[k] \in EntryType
    BY <1>3
  <2>2. /\ listtree[k].LicensePlate \in Plates
        /\ listtree[k].Footholds \in Seq(2..Len(rows)) /\ listtree[k].Footholds # <<>>
    BY <2>1 DEF EntryType
  <2>3. listtree[k].LicensePlate \in Nat
    BY <2>2, PlatesAssumption
  <2>4. ASSUME NEW f \in Seq(2..Len(rows))
        PROVE  Len(f) \in Nat /\ \A x \in 1..Len(f) : f[x] \in 2..Len(rows)
    OBVIOUS
  <2>. QED
    BY <2>2, <2>3, <2>4
<1>. QED
  BY <1>1, <1>2, <1>3, <1>4

-----------------------------------------------------------------------------
(* Filing moves what was collected to the end of the list.                 *)
LEMMA Filing ==
    ASSUME TypeOK, NEW plate, File(plate), footholdstree # <<>>
    PROVE  /\ footholdstree' = <<>>
           /\ Len(listtree') = Len(listtree) + 1
           /\ \A k \in 1..Len(listtree') : k \in 1..Len(listtree) \/ k = Len(listtree) + 1
           /\ \A k \in 1..Len(listtree) : listtree'[k] = listtree[k]
           /\ listtree'[Len(listtree) + 1].LicensePlate = plate
           /\ listtree'[Len(listtree) + 1].Footholds = footholdstree
<1>1. listtree' = Append(listtree, Entry(plate)) /\ footholdstree' = <<>>
  BY DEF File
<1>2. listtree \in Seq(EntryType) /\ Len(listtree) \in Nat
  BY Members DEF TypeOK
<1>3. /\ Len(listtree') = Len(listtree) + 1
      /\ \A k \in 1..Len(listtree) : listtree'[k] = listtree[k]
      /\ listtree'[Len(listtree) + 1] = Entry(plate)
  BY <1>1, <1>2
<1>4. \A k \in 1..Len(listtree') : k \in 1..Len(listtree) \/ k = Len(listtree) + 1
  BY <1>2, <1>3
<1>. QED
  BY <1>1, <1>3, <1>4 DEF Entry

(* Filing makes entries that are not empty.                                *)
LEMMA FilingTypes ==
    ASSUME TypeOK, NEW plate \in Plates, File(plate)
    PROVE  /\ footholdstree' = <<>>
           /\ listtree' \in Seq(EntryType)
<1>1. CASE footholdstree # <<>>
  <2>1. Entry(plate) \in EntryType
    BY <1>1 DEF Entry, EntryType, TypeOK
  <2>2. listtree' = Append(listtree, Entry(plate)) /\ footholdstree' = <<>>
    BY <1>1 DEF File
  <2>3. listtree \in Seq(EntryType)
    BY DEF TypeOK
  <2>. QED
    BY <2>1, <2>2, <2>3
<1>2. CASE footholdstree = <<>>
  BY <1>2 DEF File, TypeOK
<1>. QED
  BY <1>1, <1>2

(* Filing loses no foothold and adds none.                                 *)
LEMMA FilingLists ==
    ASSUME TypeOK, NEW plate, File(plate), rows' = rows
    PROVE  Listed' \cup Collected' = Listed \cup Collected
<1>1. CASE footholdstree = <<>>
  BY <1>1 DEF File, Listed, Collected
<1>2. CASE footholdstree # <<>>
  <2>1. Collected' = {}
    BY <1>2, Filing DEF Collected
  <2>2. ASSUME NEW j \in Listed PROVE j \in Listed'
    <3>1. PICK k \in 1..Len(listtree) : \E x \in 1..Len(listtree[k].Footholds) :
             listtree[k].Footholds[x] = j
      BY <2>2 DEF Listed
    <3>2. k \in 1..Len(listtree') /\ listtree'[k] = listtree[k]
      BY <1>2, Filing, Members
    <3>. QED
      BY <2>2, <3>1, <3>2 DEF Listed
  <2>3. ASSUME NEW j \in Collected PROVE j \in Listed'
    <3>1. PICK x \in 1..Len(footholdstree) : footholdstree[x] = j
      BY <2>3 DEF Collected
    <3>2. Len(listtree) + 1 \in 1..Len(listtree') /\ j \in 2..Len(rows)
      BY <1>2, <3>1, Filing, Members
    <3>. QED
      BY <1>2, <3>1, <3>2, Filing DEF Listed
  <2>4. ASSUME NEW j \in Listed' PROVE j \in Listed \cup Collected
    <3>1. PICK k \in 1..Len(listtree') : \E x \in 1..Len(listtree'[k].Footholds) :
             listtree'[k].Footholds[x] = j
      BY <2>4 DEF Listed
    <3>2. j \in 2..Len(rows)
      BY <2>4 DEF Listed
    <3>3. CASE k = Len(listtree) + 1
      BY <1>2, <3>1, <3>3, Filing DEF Collected
    <3>4. CASE k # Len(listtree) + 1
      <4>1. k \in 1..Len(listtree) /\ listtree'[k] = listtree[k]
        BY <1>2, <3>4, Filing, Members
      <4>. QED
        BY <3>1, <3>2, <4>1 DEF Listed
    <3>. QED
      BY <3>3, <3>4
  <2>. QED
    BY <2>1, <2>2, <2>3, <2>4
<1>. QED
  BY <1>1, <1>2

(* The rows in footholdstree, and in every entry, come in the order of the *)
(* result, and entries come in the order of the list.                      *)
InOrder ==
    /\ Increasing(footholdstree)
    /\ \A k \in 1..Len(listtree) :
          /\ Increasing(listtree[k].Footholds)
          /\ Precedes(listtree[k].Footholds, footholdstree)
          /\ \A l \in 1..Len(listtree) :
                k < l => Precedes(listtree[k].Footholds, listtree[l].Footholds)

(* Filing keeps the order of the footholds.                                *)
LEMMA FilingOrders ==
    ASSUME TypeOK, InOrder, NEW plate, File(plate)
    PROVE  InOrder'
<1>1. CASE footholdstree = <<>>
  BY <1>1 DEF File, InOrder, Increasing, Precedes
<1>2. CASE footholdstree # <<>>
  <2>1. Increasing(footholdstree')
    BY <1>2, Filing DEF Increasing
  <2>2. \A k \in 1..Len(listtree') : Precedes(listtree'[k].Footholds, footholdstree')
    BY <1>2, Filing DEF Precedes
  <2>3. ASSUME NEW k \in 1..Len(listtree') PROVE Increasing(listtree'[k].Footholds)
    <3>1. k = Len(listtree) + 1 \/ k \in 1..Len(listtree)
      BY <1>2, Filing, Members
    <3>. QED
      BY <1>2, <3>1, Filing DEF InOrder
  <2>4. ASSUME NEW k \in 1..Len(listtree'), NEW l \in 1..Len(listtree'), k < l
        PROVE  Precedes(listtree'[k].Footholds, listtree'[l].Footholds)
    <3>1. k \in 1..Len(listtree) /\ (l = Len(listtree) + 1 \/ l \in 1..Len(listtree))
      <4>1. Len(listtree') = Len(listtree) + 1 /\ Len(listtree) \in Nat
        BY <1>2, Filing, Members
      <4>. QED
        BY <2>4, <4>1
    <3>. QED
      BY <1>2, <2>4, <3>1, Filing DEF InOrder
  <2>. QED
    BY <2>1, <2>2, <2>3, <2>4 DEF InOrder
<1>. QED
  BY <1>1, <1>2

(* The new entry is that of the greatest plate so far.                     *)
LEMMA FilingPlates ==
    ASSUME TypeOK, NEW plate \in Nat, File(plate), OneEntryPerPlate,
           \A k \in 1..Len(listtree) : listtree[k].LicensePlate < plate
    PROVE  /\ OneEntryPerPlate'
           /\ \A k \in 1..Len(listtree') : listtree'[k].LicensePlate <= plate
<1>1. CASE footholdstree = <<>>
  BY <1>1, Members DEF File, OneEntryPerPlate
<1>2. CASE footholdstree # <<>>
  <2>1. \A k \in 1..Len(listtree') : k \in 1..Len(listtree) \/ k = Len(listtree) + 1
    BY <1>2, Filing
  <2>2. /\ \A k \in 1..Len(listtree) : listtree'[k].LicensePlate = listtree[k].LicensePlate
        /\ listtree'[Len(listtree) + 1].LicensePlate = plate
    BY <1>2, Filing
  <2>3. \A k \in 1..Len(listtree) : listtree[k].LicensePlate \in Nat
    BY Members
  <2>4. \A k \in 1..Len(listtree') : listtree'[k].LicensePlate <= plate
    BY <2>1, <2>2, <2>3
  <2>5. ASSUME NEW k \in 1..Len(listtree'), NEW l \in 1..Len(listtree'), k < l
        PROVE  listtree'[k].LicensePlate < listtree'[l].LicensePlate
    <3>1. k \in 1..Len(listtree)
      BY <2>1, <2>5, <1>2, Filing, Members
    <3>. QED
      BY <2>1, <2>2, <2>5, <3>1 DEF OneEntryPerPlate
  <2>. QED
    BY <2>4, <2>5 DEF OneEntryPerPlate
<1>. QED
  BY <1>1, <1>2

(* Filing leaves the listed footholds where they may be.                   *)
LEMMA FilingPlaces ==
    ASSUME TypeOK, ListPlaces, NEW plate, File(plate), rows' = rows, i' \in {i, i + 1},
           \A x \in 1..Len(footholdstree) :
              footholdstree[x] < i /\ Filed(footholdstree[x], plate, i)
    PROVE  ListPlaces'
<1>1. \A j, p : Filed(j, p, Len(rows) + 1)' <=> Filed(j, p, Len(rows) + 1)
  BY DEF Filed, LeftUnnoticed, CloseChange, SamePlate, Gap
<1>2. \A j \in Nat : Filed(j, plate, i) => Filed(j, plate, Len(rows) + 1)
  BY Members, LeftUnnoticedGrows DEF Filed
<1>3. CASE footholdstree = <<>>
  BY <1>1, <1>3, Members DEF File, ListPlaces
<1>4. CASE footholdstree # <<>>
  <2> SUFFICES ASSUME NEW k \in 1..Len(listtree'), NEW x \in 1..Len(listtree'[k].Footholds)
               PROVE  /\ listtree'[k].Footholds[x] < i'
                      /\ Filed(listtree'[k].Footholds[x], listtree'[k].LicensePlate, Len(rows) + 1)
    BY <1>1 DEF ListPlaces
  <2>1. CASE k = Len(listtree) + 1
    <3>1. /\ listtree'[k].Footholds = footholdstree
          /\ listtree'[k].LicensePlate = plate
      BY <1>4, <2>1, Filing
    <3>2. footholdstree[x] \in 2..Len(rows)
      BY <3>1, Members
    <3>3. footholdstree[x] < i'
      BY <3>1, <3>2, Members
    <3>4. Filed(footholdstree[x], plate, Len(rows) + 1)
      BY <1>2, <3>1, <3>2
    <3>. QED
      BY <3>1, <3>3, <3>4
  <2>2. CASE k # Len(listtree) + 1
    <3>1. k \in 1..Len(listtree) /\ listtree'[k] = listtree[k]
      BY <1>4, <2>2, Filing
    <3>2. /\ listtree[k].Footholds[x] < i
          /\ Filed(listtree[k].Footholds[x], listtree[k].LicensePlate, Len(rows) + 1)
      BY <3>1 DEF ListPlaces
    <3>3. listtree[k].Footholds[x] \in 2..Len(rows)
      BY <3>1, Members
    <3>4. listtree[k].Footholds[x] < i'
      BY <3>2, <3>3, Members
    <3>. QED
      BY <3>1, <3>2, <3>4
  <2>. QED
    BY <2>1, <2>2
<1>. QED
  BY <1>3, <1>4

-----------------------------------------------------------------------------
(* The row read is a foothold or not, and may be a change of plates.       *)
LEMMA RowRead ==
    ASSUME TypeOK, i <= Len(rows)
    PROVE  /\ i \in 2..Len(rows) /\ rows[i - 1].PlateNo \in Plates
           /\ rows[i - 1].PlateNo \in Nat /\ rows[i].PlateNo \in Nat
           /\ rows[i - 1].PlateNo <= rows[i].PlateNo
           /\ ~SamePlate(i) => rows[i - 1].PlateNo < rows[i].PlateNo
           /\ IsFoothold(i) <=> SamePlate(i) /\ Lasts(Gap(i))
           /\ ~Lasts(Gap(i)) => 0 <= Gap(i) /\ Gap(i) < lasttime
<1>1. i \in 2..Len(rows) /\ rows \in Results
  BY Members DEF TypeOK
<1>2. lasttime \in Nat
  BY TimesAssumption
<1>. QED
  BY <1>1, <1>2, StepsOfTime DEF IsFoothold

(* What was filed before row i is filed before row i + 1, whichever plate  *)
(* that row shows, unless the change of plates is noticed.                 *)
LEMMA FiledGoesOn ==
    ASSUME TypeOK, i <= Len(rows), NEW j \in Nat, j < i,
           SamePlate(i) \/ ~Lasts(Gap(i)),
           Filed(j, rows[i - 1].PlateNo, i)
    PROVE  Filed(j, rows[i].PlateNo, i + 1)
<1>1. i \in Nat
  BY Members
<1>2. CASE LeftUnnoticed(rows[j].PlateNo, j, i)
  BY <1>1, <1>2, LeftUnnoticedGrows DEF Filed
<1>3. CASE rows[j].PlateNo = rows[i - 1].PlateNo /\ SamePlate(i)
  BY <1>3 DEF Filed, SamePlate
<1>4. CASE rows[j].PlateNo = rows[i - 1].PlateNo /\ ~SamePlate(i)
  <2>1. CloseChange(i)
    BY <1>4, RowRead DEF CloseChange
  <2>2. i \in (j + 1)..((i + 1) - 1)
    BY <1>1
  <2>. QED
    BY <1>4, <2>1, <2>2 DEF Filed, LeftUnnoticed
<1>. QED
  BY <1>2, <1>3, <1>4 DEF Filed

(* A foothold is collected.                                                *)
LEMMA FootholdStep == IInv /\ Foothold => IInv'
<1> SUFFICES ASSUME IInv, Foothold PROVE IInv'
  OBVIOUS
<1> USE DEF IInv
<1>1. /\ i <= Len(rows) /\ Lasts(Gap(i)) /\ SamePlate(i) /\ i' = i + 1
      /\ footholdstree' = Append(footholdstree, i)
      /\ rows' = rows /\ listtree' = listtree /\ done' = done
  BY DEF Foothold
<1>2. /\ i \in Nat /\ i >= 2 /\ Len(rows) \in Nat /\ i \in 2..Len(rows)
      /\ Len(footholdstree) \in Nat
  BY <1>1, Members
<1>3. /\ Len(footholdstree') = Len(footholdstree) + 1
      /\ \A x \in 1..Len(footholdstree) : footholdstree'[x] = footholdstree[x]
      /\ footholdstree'[Len(footholdstree) + 1] = i
      /\ footholdstree' \in Seq(2..Len(rows))
      /\ \A x \in 1..Len(footholdstree') : \/ x \in 1..Len(footholdstree)
                                           \/ x = Len(footholdstree) + 1
  BY <1>1, <1>2 DEF TypeOK
<1>4. TypeOK'
  BY <1>1, <1>2, <1>3 DEF TypeOK, EntryType
<1>5. EveryFootholdOnce'
  <2>1. Listed' = Listed
    BY <1>1 DEF Listed
  <2>2. Collected' = Collected \cup {i}
    <3>1. ASSUME NEW j \in Collected PROVE j \in Collected'
      BY <1>2, <1>3 DEF Collected
    <3>2. i \in Collected'
      BY <1>2, <1>3 DEF Collected
    <3>3. ASSUME NEW j \in Collected' PROVE j \in Collected \cup {i}
      BY <1>3 DEF Collected
    <3>. QED
      BY <3>1, <3>2, <3>3
  <2>3. {j \in 2..(i' - 1) : IsFoothold(j)'} = {j \in 2..(i - 1) : IsFoothold(j)} \cup {i}
    <3>1. \A j : IsFoothold(j)' <=> IsFoothold(j)
      BY <1>1 DEF IsFoothold, SamePlate, Gap
    <3>2. IsFoothold(i)
      BY <1>1, RowRead
    <3>. QED
      BY <1>1, <1>2, <3>1, <3>2
  <2>4. \A x \in 1..Len(footholdstree) : footholdstree[x] \in Nat /\ footholdstree[x] < i
    BY <1>2, Members DEF Places
  <2>5. Increasing(footholdstree')
    <3> SUFFICES ASSUME NEW x \in 1..Len(footholdstree'), NEW y \in 1..Len(footholdstree'),
                        x < y
                 PROVE  footholdstree'[x] < footholdstree'[y]
      BY DEF Increasing
    <3>1. x \in 1..Len(footholdstree)
      BY <1>2, <1>3
    <3>2. footholdstree'[x] = footholdstree[x]
      BY <1>3, <3>1
    <3>3. CASE y \in 1..Len(footholdstree)
      BY <1>3, <3>1, <3>2, <3>3 DEF EveryFootholdOnce, Increasing
    <3>4. CASE y = Len(footholdstree) + 1
      BY <1>3, <2>4, <3>1, <3>2, <3>4
    <3>. QED
      BY <1>3, <3>3, <3>4
  <2>6. \A k \in 1..Len(listtree) : Precedes(listtree[k].Footholds, footholdstree')
    BY <1>2, <1>3, Members DEF EveryFootholdOnce, Precedes, ListPlaces
  <2>. QED
    BY <1>1, <2>1, <2>2, <2>3, <2>5, <2>6 DEF EveryFootholdOnce
<1>6. OneEntryPerPlate'
  BY <1>1 DEF OneEntryPerPlate
<1>7. Places'
  <2>1. rows[i].PlateNo = rows[i - 1].PlateNo /\ (i + 1) - 1 = i
    BY <1>1, <1>2 DEF SamePlate
  <2>3. ASSUME NEW x \in 1..Len(footholdstree')
        PROVE  footholdstree'[x] < i + 1 /\ Filed(footholdstree'[x], rows[i].PlateNo, i + 1)
    <3>1. CASE x \in 1..Len(footholdstree)
      <4>1. footholdstree'[x] \in Nat /\ footholdstree'[x] < i
        <5>1. footholdstree'[x] = footholdstree[x] /\ footholdstree[x] \in 2..Len(rows)
          BY <1>3, <3>1, Members
        <5>2. footholdstree[x] < i
          BY <3>1 DEF Places
        <5>. QED
          BY <1>2, <5>1, <5>2
      <4>2. Filed(footholdstree'[x], rows[i - 1].PlateNo, i)
        BY <1>3, <3>1 DEF Places
      <4>. QED
        BY <1>1, <1>2, <4>1, <4>2, FiledGoesOn
    <3>2. CASE x = Len(footholdstree) + 1
      BY <1>2, <1>3, <3>2 DEF Filed
    <3>. QED
      BY <1>3, <3>1, <3>2
  <2>4. Places' <=>
          /\ \A x \in 1..Len(footholdstree') :
                footholdstree'[x] < i + 1 /\ Filed(footholdstree'[x], rows[i].PlateNo, i + 1)
          /\ ~done => \A k \in 1..Len(listtree) : listtree[k].LicensePlate < rows[i].PlateNo
    BY <1>1, <2>1 DEF Places, Filed, LeftUnnoticed, CloseChange, SamePlate, Gap
  <2>. QED
    BY <2>1, <2>3, <2>4 DEF Places
<1>8. ListPlaces'
  <2>1. \A j, p : Filed(j, p, Len(rows) + 1)' <=> Filed(j, p, Len(rows) + 1)
    BY <1>1 DEF Filed, LeftUnnoticed, CloseChange, SamePlate, Gap
  <2>2. ASSUME NEW k \in 1..Len(listtree), NEW x \in 1..Len(listtree[k].Footholds)
        PROVE  listtree[k].Footholds[x] < i + 1
    <3>1. listtree[k].Footholds[x] \in 2..Len(rows) /\ listtree[k].Footholds[x] < i
      BY Members DEF ListPlaces
    <3>. QED
      BY <1>2, <3>1
  <2>. QED
    BY <1>1, <2>1, <2>2 DEF ListPlaces
<1>. QED
  BY <1>4, <1>5, <1>6, <1>7, <1>8

(* A change of plates is noticed, and what was collected is filed.         *)
LEMMA NextPlateStep == IInv /\ NextPlate => IInv'
<1> SUFFICES ASSUME IInv, NextPlate PROVE IInv'
  OBVIOUS
<1> USE DEF IInv
<1>1. /\ i <= Len(rows) /\ ~SamePlate(i) /\ i' = i + 1
      /\ rows' = rows /\ done' = done /\ File(rows[i - 1].PlateNo)
  BY DEF NextPlate
<1>2. /\ i \in Nat /\ i >= 2 /\ Len(rows) \in Nat /\ i \in 2..Len(rows)
      /\ rows[i - 1].PlateNo \in Plates /\ rows[i - 1].PlateNo \in Nat
      /\ rows[i].PlateNo \in Nat /\ rows[i - 1].PlateNo < rows[i].PlateNo
  BY <1>1, Members, RowRead
<1>3. ~done
  BY <1>1, <1>2 DEF TypeOK
<1>4. TypeOK'
  <2>1. EntryType' = EntryType
    BY <1>1 DEF EntryType
  <2>2. footholdstree' = <<>> /\ listtree' \in Seq(EntryType)
    BY <1>1, <1>2, FilingTypes
  <2>3. rows' \in Results /\ done' \in BOOLEAN /\ ~done'
    BY <1>1, <1>3, Zenon DEF TypeOK
  <2>4. i' \in 2..(Len(rows') + 1) /\ footholdstree' \in Seq(2..Len(rows'))
    BY <1>1, <1>2, <2>2
  <2>. QED
    BY <2>1, <2>2, <2>3, <2>4 DEF TypeOK
<1>5. EveryFootholdOnce'
  <2>1. {j \in 2..(i' - 1) : IsFoothold(j)'} = {j \in 2..(i - 1) : IsFoothold(j)}
    <3>1. \A j : IsFoothold(j)' <=> IsFoothold(j)
      BY <1>1 DEF IsFoothold, SamePlate, Gap
    <3>2. ~IsFoothold(i)
      BY <1>1 DEF IsFoothold
    <3>. QED
      BY <1>1, <1>2, <3>1, <3>2
  <2>2. InOrder'
    BY <1>1, FilingOrders DEF EveryFootholdOnce, InOrder
  <2>. QED
    BY <1>1, <2>1, <2>2, FilingLists DEF EveryFootholdOnce, InOrder
<1>6. \A k \in 1..Len(listtree) : listtree[k].LicensePlate < rows[i - 1].PlateNo
  BY <1>3 DEF Places
<1>7. /\ OneEntryPerPlate'
      /\ \A k \in 1..Len(listtree') : listtree'[k].LicensePlate <= rows[i - 1].PlateNo
  BY <1>1, <1>2, <1>6, FilingPlates
<1>8. Places'
  <2>1. footholdstree' = <<>> /\ i' - 1 = i
    BY <1>1, <1>2, FilingTypes
  <2>2. \A k \in 1..Len(listtree') : listtree'[k].LicensePlate < rows[i].PlateNo
    <3> SUFFICES ASSUME NEW k \in 1..Len(listtree')
                 PROVE  listtree'[k].LicensePlate < rows[i].PlateNo
      OBVIOUS
    <3>1. listtree'[k].LicensePlate \in Nat
      <4>1. listtree' \in Seq(EntryType)
        BY <1>1, <1>2, FilingTypes
      <4>2. listtree'[k] \in EntryType
        BY <4>1
      <4>. QED
        BY <4>2, PlatesAssumption DEF EntryType
    <3>. QED
      BY <1>2, <1>7, <3>1
  <2>. QED
    BY <1>1, <2>1, <2>2 DEF Places
<1>9. ListPlaces'
  BY <1>1, FilingPlaces DEF Places
<1>. QED
  BY <1>4, <1>5, <1>7, <1>8, <1>9

(* A row follows too soon, of the same plate or of another.                *)
LEMMA PassByStep == IInv /\ PassBy => IInv'
<1> SUFFICES ASSUME IInv, PassBy PROVE IInv'
  OBVIOUS
<1> USE DEF IInv
<1>1. /\ i <= Len(rows) /\ ~Lasts(Gap(i)) /\ i' = i + 1
      /\ UNCHANGED <<rows, footholdstree, listtree, done>>
  BY DEF PassBy
<1>2. /\ i \in Nat /\ i >= 2 /\ Len(rows) \in Nat /\ i \in 2..Len(rows)
      /\ rows[i - 1].PlateNo \in Nat /\ rows[i].PlateNo \in Nat
      /\ rows[i - 1].PlateNo <= rows[i].PlateNo
  BY <1>1, Members, RowRead
<1>3. TypeOK'
  BY <1>1, <1>2 DEF TypeOK, EntryType
<1>4. EveryFootholdOnce'
  <2>1. {j \in 2..(i' - 1) : IsFoothold(j)'} = {j \in 2..(i - 1) : IsFoothold(j)}
    <3>1. \A j : IsFoothold(j)' <=> IsFoothold(j)
      BY <1>1 DEF IsFoothold, SamePlate, Gap
    <3>2. ~IsFoothold(i)
      BY <1>1, RowRead
    <3>. QED
      BY <1>1, <1>2, <3>1, <3>2
  <2>2. Listed' = Listed /\ Collected' = Collected
    BY <1>1 DEF Listed, Collected
  <2>. QED
    BY <1>1, <2>1, <2>2 DEF EveryFootholdOnce
<1>5. OneEntryPerPlate'
  BY <1>1 DEF OneEntryPerPlate
<1>6. Places'
  <2>1. ASSUME NEW x \in 1..Len(footholdstree)
        PROVE  /\ footholdstree[x] < i + 1
               /\ Filed(footholdstree[x], rows[i].PlateNo, i + 1)
    <3>1. footholdstree[x] \in 2..Len(rows) /\ footholdstree[x] < i
      BY Members DEF Places
    <3>2. Filed(footholdstree[x], rows[i - 1].PlateNo, i)
      BY DEF Places
    <3>3. footholdstree[x] \in Nat /\ footholdstree[x] < i + 1
      BY <1>2, <3>1
    <3>. QED
      BY <1>1, <3>1, <3>2, <3>3, FiledGoesOn
  <2>2. ~done => \A k \in 1..Len(listtree) : listtree[k].LicensePlate < rows[i].PlateNo
    BY <1>2, Members DEF Places
  <2>3. Places' <=>
          /\ \A x \in 1..Len(footholdstree) :
                footholdstree[x] < i + 1 /\ Filed(footholdstree[x], rows[i].PlateNo, i + 1)
          /\ ~done => \A k \in 1..Len(listtree) : listtree[k].LicensePlate < rows[i].PlateNo
    <3>1. (i + 1) - 1 = i
      BY <1>2
    <3>. QED
      BY <1>1, <3>1 DEF Places, Filed, LeftUnnoticed, CloseChange, SamePlate, Gap
  <2>. QED
    BY <2>1, <2>2, <2>3
<1>7. ListPlaces'
  <2>1. \A j, p : Filed(j, p, Len(rows) + 1)' <=> Filed(j, p, Len(rows) + 1)
    BY <1>1 DEF Filed, LeftUnnoticed, CloseChange, SamePlate, Gap
  <2>2. ASSUME NEW k \in 1..Len(listtree), NEW x \in 1..Len(listtree[k].Footholds)
        PROVE  listtree[k].Footholds[x] < i + 1
    <3>1. listtree[k].Footholds[x] \in 2..Len(rows) /\ listtree[k].Footholds[x] < i
      BY Members DEF ListPlaces
    <3>. QED
      BY <1>2, <3>1
  <2>. QED
    BY <1>1, <2>1, <2>2 DEF ListPlaces
<1>. QED
  BY <1>3, <1>4, <1>5, <1>6, <1>7

(* The list is complete.                                                   *)
LEMMA ReportStep == IInv /\ Report => IInv'
<1> SUFFICES ASSUME IInv, Report PROVE IInv'
  OBVIOUS
<1> USE DEF IInv
<1>1. /\ i > Len(rows) /\ ~done /\ done'
      /\ rows' = rows /\ i' = i /\ File(rows[Len(rows)].PlateNo)
  BY DEF Report
<1>2. /\ i \in Nat /\ Len(rows) \in Nat /\ i = Len(rows) + 1 /\ i - 1 = Len(rows)
      /\ Len(rows) \in 1..Len(rows) /\ rows \in Results
  BY <1>1, Members DEF TypeOK
<1>3. rows[Len(rows)].PlateNo \in Plates /\ rows[Len(rows)].PlateNo \in Nat
  BY <1>2, ResultsAreSequences
<1>4. TypeOK'
  <2>1. EntryType' = EntryType
    BY <1>1 DEF EntryType
  <2>2. footholdstree' = <<>> /\ listtree' \in Seq(EntryType)
    BY <1>1, <1>3, FilingTypes
  <2>3. rows' \in Results /\ done' = TRUE
    BY <1>1, Zenon DEF TypeOK, Report
  <2>4. i' = Len(rows') + 1 /\ i' \in 2..(Len(rows') + 1)
    BY <1>1, <1>2, Members
  <2>. QED
    BY <2>1, <2>2, <2>3, <2>4 DEF TypeOK
<1>5. EveryFootholdOnce'
  <2>1. {j \in 2..(i' - 1) : IsFoothold(j)'} = {j \in 2..(i - 1) : IsFoothold(j)}
    BY <1>1 DEF IsFoothold, SamePlate, Gap
  <2>2. InOrder'
    BY <1>1, FilingOrders DEF EveryFootholdOnce, InOrder
  <2>. QED
    BY <1>1, <2>1, <2>2, FilingLists DEF EveryFootholdOnce, InOrder
<1>6. \A k \in 1..Len(listtree) : listtree[k].LicensePlate < rows[Len(rows)].PlateNo
  BY <1>1, <1>2 DEF Places
<1>7. OneEntryPerPlate'
  BY <1>1, <1>3, <1>6, FilingPlates
<1>8. Places'
  BY <1>1, <1>3, FilingTypes DEF Places
<1>9. ListPlaces'
  BY <1>1, <1>2, FilingPlaces DEF Places
<1>. QED
  BY <1>4, <1>5, <1>7, <1>8, <1>9

(* The inductive invariant: beside what is claimed, where the collected    *)
(* and the listed footholds are filed.                                     *)
THEOREM IInvInvariant == Spec => []IInv
<1>1. Init => IInv
  <2> SUFFICES ASSUME Init PROVE IInv
    OBVIOUS
  <2>1. Len(rows) \in Nat /\ Len(rows) >= 2
    BY ResultsAreSequences DEF Init
  <2>2. TypeOK
    <3>1. rows \in Results /\ ~done /\ done \in BOOLEAN
      BY Zenon DEF Init
    <3>3. footholdstree \in Seq(2..Len(rows)) /\ listtree \in Seq(EntryType)
      BY DEF Init
    <3>2. i = 2 /\ i \in 2..(Len(rows) + 1)
      BY <2>1 DEF Init
    <3>. QED
      BY <3>1, <3>2, <3>3 DEF TypeOK
  <2>3. EveryFootholdOnce
    BY <2>1 DEF Init, EveryFootholdOnce, Listed, Collected, Increasing, Precedes
  <2>. QED
    BY <2>2, <2>3 DEF Init, IInv, OneEntryPerPlate, Places, ListPlaces
<1>2. IInv /\ [Next]_vars => IInv'
  <2> SUFFICES ASSUME IInv, [Next]_vars PROVE IInv'
    OBVIOUS
  <2>1. CASE UNCHANGED vars
    <3>1. UNCHANGED <<rows, i, footholdstree, listtree, done>>
      BY <2>1 DEF vars
    <3>2. TypeOK'
      BY <3>1 DEF IInv, TypeOK, EntryType
    <3>3. EveryFootholdOnce' /\ OneEntryPerPlate'
      <4>1. Listed' = Listed /\ Collected' = Collected
        BY <3>1 DEF Listed, Collected
      <4>2. {j \in 2..(i' - 1) : IsFoothold(j)'} = {j \in 2..(i - 1) : IsFoothold(j)}
        BY <3>1 DEF IsFoothold, SamePlate, Gap
      <4>. QED
        BY <3>1, <4>1, <4>2 DEF IInv, EveryFootholdOnce, OneEntryPerPlate
    <3>4. Places' /\ ListPlaces'
      BY <3>1 DEF IInv, Places, ListPlaces, Filed, LeftUnnoticed, CloseChange, SamePlate, Gap
    <3>. QED
      BY <3>2, <3>3, <3>4 DEF IInv
  <2>. QED
    BY <2>1, FootholdStep, NextPlateStep, PassByStep, ReportStep DEF Next
<1>. QED
  BY <1>1, <1>2, PTL DEF Spec

(* Types; no entry is empty and none is left out of the list.              *)
THEOREM TypeCorrect == Spec => []TypeOK
  BY IInvInvariant, PTL DEF IInv

(* FootholdAnalysis lists every foothold of its result once and nothing    *)
(* else, however the plates and the times follow each other.               *)
THEOREM FootholdsListedOnce == Spec => []EveryFootholdOnce
  BY IInvInvariant, PTL DEF IInv

(* It makes one entry at most for a plate.                                 *)
THEOREM EntriesArePlates == Spec => []OneEntryPerPlate
  BY IInvInvariant, PTL DEF IInv

(* It files a foothold under a later plate only when the sightings of the  *)
(* two plates touch within lasttime.                                       *)
THEOREM MisfilingIsBounded == Spec => []MisfiledOnlyWhenClose
<1>1. IInv => MisfiledOnlyWhenClose
  <2> SUFFICES ASSUME IInv, NEW k \in 1..Len(listtree), NEW x \in 1..Len(listtree[k].Footholds)
               PROVE  LET j == listtree[k].Footholds[x] IN
                      \/ rows[j].PlateNo = listtree[k].LicensePlate
                      \/ \E c \in (j + 1)..Len(rows) :
                            CloseChange(c) /\ rows[c - 1].PlateNo = rows[j].PlateNo
    BY DEF MisfiledOnlyWhenClose
  <2>1. Filed(listtree[k].Footholds[x], listtree[k].LicensePlate, Len(rows) + 1)
    BY DEF IInv, ListPlaces
  <2>2. (Len(rows) + 1) - 1 = Len(rows)
    BY Members DEF IInv
  <2>. QED
    BY <2>1, <2>2 DEF Filed, LeftUnnoticed
<1>. QED
  BY <1>1, IInvInvariant, PTL
=============================================================================
