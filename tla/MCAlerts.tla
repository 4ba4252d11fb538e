------------------------------ MODULE MCAlerts ------------------------------
(* A small instance of Alerts: the markets of one event, two alert levels.  *)
EXTENDS Alerts, TLC

MCLevels == <<"confirmation", "trend">>
MCWindowSec == [confirmation |-> 1, trend |-> 2]
MCDeltaPct == [confirmation |-> 20, trend |-> 20]
MCMinTicks == [confirmation |-> 2, trend |-> 2]
MCEventOf == [a \in Assets |-> "event"]
MCLimit == [age |-> 1, spread |-> 1, ticks |-> 2]
MCStrong == [MCLimit EXCEPT !.age = 0]
MCSpreads == {NoSpread, 1}

\* The markets are alike: same event, no order among them.
MCSymmetry == Permutations(Assets)
=============================================================================
