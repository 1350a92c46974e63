-------------------------- MODULE MCLeaderElection --------------------------
(* Instances of LeaderElection for TLC.                                    *)
EXTENDS LeaderElection

CONSTANTS a1, a2

TwoAgents == {a1, a2}
Nobody == {}
Second == {a2}
NoSkew == [a \in Agents |-> 0]
Apart == [a \in Agents |-> IF a = a1 THEN 1 ELSE -1]
=============================================================================
