--------------------------- MODULE MCWatchCluster ---------------------------
(* Instances of WatchCluster for TLC.                                      *)
EXTENDS WatchCluster

CONSTANTS a1, a2

TwoAgents == {a1, a2}
Second == {a2}
NoSkew == [a \in Agents |-> 0]
SameOrder == [i \in 1..MaxLSN |-> i]
=============================================================================
