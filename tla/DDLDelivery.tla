---------------------------- MODULE DDLDelivery ----------------------------
(***************************************************************************)
(* What DDL sync promises (README.md, DDL sync): a statement that an       *)
(* application runs on its node and that this node logs is delivered to    *)
(* the others, at least once and in no particular order, and its entry is  *)
(* settled only when every node has had it or has been missed.  Nothing is *)
(* taken back, and nothing runs that neither an application nor ddl-setup  *)
(* has run.                                                                *)
(***************************************************************************)
EXTENDS Naturals, Sequences

CONSTANTS Nodes, Statements,
          Script,     \* what ddl-setup runs, on any node and at any time
          Origin      \* the node an application runs a statement on

VARIABLES applied,    \* the statements that have run on each node
          log,        \* the entries of each node, in the order of their ids
          missed      \* <<s, n>>: a delivery of s to n was given up or failed

deliveryVars == <<applied, log, missed>>

Init ==
  /\ applied = [n \in Nodes |-> {}]
  /\ log = [n \in Nodes |-> <<>>]
  /\ missed = {}

(* A node may log what runs on it, a delivery included.                    *)
RunsOn(s, n) ==
  /\ applied' = [applied EXCEPT ![n] = @ \cup {s}]
  /\ \/ log' = [log EXCEPT ![n] = Append(@, [stmt |-> s, replayed |-> FALSE])]
     \/ UNCHANGED log
  /\ UNCHANGED missed

Run(s) == s \notin applied[Origin[s]] /\ RunsOn(s, Origin[s])
SetUp(n) == RunsOn(Script, n)

Deliver(n, i, m) == m # n /\ RunsOn(log[n][i].stmt, m)

Miss(n, m) ==
  \E lost \in SUBSET {log[n][i].stmt : i \in DOMAIN log[n]} :
    /\ lost \cap applied[m] = {}
    /\ missed' = missed \cup (lost \X {m})
    /\ UNCHANGED <<applied, log>>

HadOrMissed(s) == \A m \in Nodes : s \in applied[m] \/ <<s, m>> \in missed

Settle(n, i) ==
  /\ HadOrMissed(log[n][i].stmt)
  /\ log' = [log EXCEPT ![n][i].replayed = TRUE]
  /\ UNCHANGED <<applied, missed>>

Next ==
  \/ \E s \in Statements : Run(s)
  \/ \E n \in Nodes : SetUp(n)
  \/ \E n \in Nodes, m \in Nodes : Miss(n, m)
  \/ \E n \in Nodes : \E i \in DOMAIN log[n] :
       Settle(n, i) \/ \E m \in Nodes : Deliver(n, i, m)

Spec == Init /\ [][Next]_deliveryVars

(* What has run or is logged anywhere has run on the node it came from.    *)
Ran == {s \in Statements : s \in applied[Origin[s]]}
OriginFirst ==
  \A n \in Nodes :
    /\ applied[n] \subseteq Ran \cup {Script}
    /\ \A i \in DOMAIN log[n] : log[n][i].stmt \in Ran \cup {Script}
=============================================================================
