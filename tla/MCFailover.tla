----------------------------- MODULE MCFailover -----------------------------
(* Instances of Failover for TLC.                                          *)
EXTENDS Failover

CONSTANTS a1, a2, a3

OneAgent == {a1}
TwoAgents == {a1, a2}
ThreeAgents == {a1, a2, a3}
Nobody == {}
ThirdDry == {a3}
AnyLeaders == SUBSET Agents
NoElection == {{}}
SameOrder == [i \in 1..MaxLSN |-> i]
Reversed == [i \in 1..MaxLSN |-> MaxLSN + 1 - i]
=============================================================================
