--------------------------- MODULE MCPlateQueries ---------------------------
(* Small instances of PlateQueries: a day of three hours of two units; two *)
(* days.  Each task gets the tables that tell its cases apart, one for each*)
(* set of rows that may hold a row more than once.                         *)
EXTENDS PlateQueries, FiniteSetsExt

CONSTANTS wanted, p, q, here, there

ThreePlates == {wanted, p, q}
TwoTollgates == {here, there}

TablesOf(sightings, n) ==
    LET order == FoldSet(LAMBDA x, s : Append(s, x), <<>>, sightings)
        sorted(s) == \A j, k \in DOMAIN s : j < k => s[j] <= s[k]
    IN  {[k \in DOMAIN s |-> order[s[k]]] :
            s \in {x \in UNION {[1..m -> 1..Len(order)] : m \in 0..n} : sorted(x)}}

Seen(plates, devices, times) == [plate : plates, device : devices, at : times]

MeetingTables ==
    TablesOf(Seen({wanted, p, q}, {here}, 0..2), 5)
        \cup TablesOf(Seen({wanted, p, NULL}, {here, there}, 0..3), 3)
PassingTables == TablesOf(Seen({p, q, NULL}, {here, there}, 1..2), 4)
NightTables == TablesOf(Seen({p}, {here}, 0..6 \cup {9}) \cup Seen({NULL}, {here}, {2, 6}), 3)
CaseTables == TablesOf(Seen({p, q}, {here}, 0..6) \cup Seen({p, NULL}, {there}, {2, 4}), 3)

AllTables(r) ==
    CASE r.task = "correlation" -> MeetingTables
      [] r.task \in {"trajectory", "firsttime"} -> PassingTables
      [] r.task \in {"actinnight", "actinnightF"} -> NightTables
      [] r.task = "hidden" -> CaseTables

Dawn == [hour |-> 1, minute |-> 0]
Dusk == [hour |-> 1, minute |-> 1]
Base == [task |-> "trajectory", tollgates |-> {here}, plates |-> {}, from |-> 0,
         st |-> 1, et |-> 10, sdt |-> Dawn, edt |-> Dusk,
         snt |-> Dawn, ent |-> Dusk, thershold |-> 1]

AllRequests ==
    {[Base EXCEPT !.task = "correlation", !.plates = {wanted}, !.et = 2]}
    \cup {[Base EXCEPT !.task = k, !.tollgates = g, !.st = s] :
             k \in {"trajectory", "firsttime"}, g \in {{here}, {here, there}}, s \in 1..2}
    \cup {[Base EXCEPT !.task = "actinnight", !.snt = b, !.ent = e, !.edt = d] :
             b \in TimeOfDay, e \in TimeOfDay, d \in {Dawn, Dusk}}
    \cup {[Base EXCEPT !.task = "actinnightF", !.snt = b, !.ent = e] :
             b \in TimeOfDay, e \in TimeOfDay}
    \cup {[Base EXCEPT !.task = "hidden", !.plates = f, !.from = 1, !.st = 3, !.et = 5] :
             f \in {{q}, {wanted}}}
=============================================================================
