------------------------ MODULE MCAccountCoordinator ------------------------
(***************************************************************************)
(* Signals of two channels: "a" and "c" are long, "b" and "d" short; "a"   *)
(* asks for three units, the others for one.  "c" and "d" may rest on the  *)
(* book, and the stop of "c" may be moved.                                 *)
(***************************************************************************)
EXTENDS AccountCoordinator, TLC

CONSTANTS a, b, c, d, s1, s2

MCTrade == {a, b, c, d}
LongTrade == {a, c, d}
ThreeTrade == {a, b, c}
MCSession == {s1, s2}
MCSessionOf == [t \in Trade |-> IF t \in {a, d} THEN s1 ELSE s2]
MCSide == [t \in Trade |-> IF t \in {a, c} THEN "long" ELSE "short"]
AllLong == [t \in Trade |-> "long"]
MCWant == [t \in Trade |-> IF t = a THEN 3 ELSE 1]
MCStopRisk == [t \in Trade |-> 1]
MCRisks == [t \in Trade |-> IF t = c THEN {1, 2} ELSE {}]
Nothing == {}
MCPending == Trade \ {a, b}
TwinPairs == {<<c, d>>}
Harmless == {"issue", "closeall", "tiers"}
Stops == EventNames \ {"closeall"}
OnExchange == {"exchange"}
OneFlatten == {"flatten"}
=============================================================================
