--------------------------- MODULE FencedFailover ---------------------------
(***************************************************************************)
(* What a failover promises to the applications (watchdog.go:55-59:        *)
(* fencing "prevents split-brain", and "Only promote the standby if        *)
(* fencing succeeds").  The primary may fail and come back as it likes;    *)
(* once it is stopped it stays stopped; only then standbys become          *)
(* primaries, and none of them ceases to be one.                           *)
(***************************************************************************)
CONSTANT Standbys

VARIABLES primary,    \* "serving", "down", or "stopped" for good
          promoted    \* the standbys that have become primaries

failoverVars == <<primary, promoted>>

Init == primary = "serving" /\ promoted = {}

Fail == primary = "serving" /\ primary' = "down" /\ UNCHANGED promoted

Recover == primary = "down" /\ primary' = "serving" /\ UNCHANGED promoted

(* Fenced, or known to be down for good.                                   *)
Stop == primary # "stopped" /\ primary' = "stopped" /\ UNCHANGED promoted

Promote(s) ==
  /\ primary = "stopped"
  /\ promoted' = promoted \cup {s}
  /\ UNCHANGED primary

Next == Fail \/ Recover \/ Stop \/ \E s \in Standbys : Promote(s)

Spec == Init /\ [][Next]_failoverVars

(* Applications never find the old primary beside a new one.               *)
NoTwoGenerations == promoted # {} => primary = "stopped"
=============================================================================
