---------------------------- MODULE LeaderLease ----------------------------
(***************************************************************************)
(* What leader election promises to the watchdog (election.go:18-21: "The  *)
(* holder of the lease is the leader and the only agent allowed to trigger *)
(* failover").  The lease has one owner at a time; an agent leads only     *)
(* while it owns the lease; and the lease changes owner only while nobody  *)
(* leads.                                                                  *)
(***************************************************************************)
CONSTANTS Agents,     \* the node_id of every replicon agent
          NoAgent     \* the lease has never been owned

VARIABLES owner,      \* the agent the lease belongs to
          leading     \* the agents that believe they lead

leaseVars == <<owner, leading>>

Init == owner = NoAgent /\ leading = {}

(* The lease passes to an agent, which may know it at once: nobody may be  *)
(* leading on it.                                                          *)
Acquire(a) ==
  /\ leading = {}
  /\ owner' = a
  /\ leading' \subseteq {a}

(* The owner learns that the lease is its own.                             *)
Lead(a) ==
  /\ owner = a
  /\ leading' = leading \cup {a}
  /\ UNCHANGED owner

(* An agent stops leading: it gave up, failed or lost its lease.           *)
StepDown(a) ==
  /\ leading' = leading \ {a}
  /\ UNCHANGED owner

Next == \E a \in Agents : Acquire(a) \/ Lead(a) \/ StepDown(a)

Spec == Init /\ [][Next]_leaseVars

(* Whoever leads owns the lease, so at most one agent leads.               *)
LeadersOwn == leading \subseteq {owner}
=============================================================================
