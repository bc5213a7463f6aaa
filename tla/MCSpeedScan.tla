---------------------------- MODULE MCSpeedScan ----------------------------
(* Small instances of SpeedScan: three tollgates along a road, near enough   *)
(* to each other to have the same whole degree of longitude or the next.     *)
EXTENDS SpeedScan

Positions == {0, 2, 5}
Road(p, q) == Abs(p - q)
Degrees == [p \in Positions |-> 104 + p \div 5]
FiveTimes == 0..4
=============================================================================
