---------------------------- MODULE NightWindow ----------------------------
(***************************************************************************)
(* The windows of time of day of TaskCode 4, 5 and 7.  A request gives the *)
(* beginning and the end of the night; when it passes midnight, two ranges *)
(* are asked for instead of one.  DATE_FORMAT keeps the time of day only,  *)
(* so which date the code puts in front of a bound makes no difference.    *)
(***************************************************************************)
EXTENDS Integers

CONSTANTS Hours, Minutes   \* hours in a day, units of time in an hour

ASSUME ClockAssumption == Hours \in Nat \ {0} /\ Minutes \in Nat \ {0}

TimeOfDay == [hour : 0..(Hours - 1), minute : 0..(Minutes - 1)]

(* The order of the texts "hh:mm:ss".                                      *)
Leq(a, b) == a.hour < b.hour \/ (a.hour = b.hour /\ a.minute <= b.minute)
Between(t, a, b) == Leq(a, t) /\ Leq(t, b)

(* 00:00:00 and 23:59:59.                                                  *)
FirstOfDay == [hour |-> 0, minute |-> 0]
LastOfDay == [hour |-> Hours - 1, minute |-> Minutes - 1]

gethour(t) == t.hour

(* Mutant, for NightsReported: within one hour a night does not pass       *)
(* midnight.                                                               *)
NightRangeStrict(snt, ent) == gethour(snt) - gethour(ent) > 0

NightRange(snt, ent) == gethour(snt) - gethour(ent) >= 0

(* The condition on AppearTime in the query.                               *)
InNight(t, snt, ent) ==
    IF NightRange(snt, ent)
    THEN Between(t, snt, LastOfDay) \/ Between(t, FirstOfDay, ent)
    ELSE Between(t, snt, ent)

(* What a request for a night means: from its beginning on, over midnight  *)
(* if need be, to its end.                                                 *)
NightAskedFor(t, snt, ent) ==
    IF Leq(snt, ent) THEN Between(t, snt, ent) ELSE Leq(snt, t) \/ Leq(t, ent)

(* 22:10 to 22:50 is taken for a night that passes midnight.               *)
WithinOneHour(snt, ent) == gethour(snt) = gethour(ent) /\ Leq(snt, ent)
=============================================================================
