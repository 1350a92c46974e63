---------------------------- MODULE Verification ----------------------------
(***************************************************************************)
(* `verify` of a primary and its standbys (VerifyReplication and           *)
(* verifyMasterSlave of verify.go), on servers set up with what            *)
(* `render` writes (render.go): standby after standby, the primary's       *)
(* pg_stat_replication is asked for the standby's row and the standby for  *)
(* its own view, while servers crash and connections come and go.          *)
(***************************************************************************)
EXTENDS Naturals

CONSTANTS
  NumStandbys,      \* standbys, in the order of the configuration; at least 1
  ApplicationName,  \* cfg.Network.ApplicationName
  AppName,          \* the application_name each standby connects with
  SlotName          \* the primary_slot_name of each standby

Primary == 0
Standbys == 1..NumStandbys
Nodes == {Primary} \cup Standbys

VARIABLES
  up,         \* PostgreSQL runs on the node
  recovering, \* standbys that have not been promoted
  sender,     \* pg_stat_replication: the state of each standby's row, if any
  pc,         \* what `verify` does next
  at,         \* the standby it is at
  conns,      \* the nodes it is connected to
  state,      \* the state in the row it has found
  verdict,    \* its result
  streamed    \* history: standbys streaming at some time since it began

serverVars == <<up, recovering, sender>>
verifyVars == <<pc, at, conns, state, verdict>>
vars == <<up, recovering, sender, pc, at, conns, state, verdict, streamed>>

Steps == {"idle", "primary", "standby", "row", "own"}
States == {"none", "catchup", "streaming"}

TypeOK ==
  /\ up \in [Nodes -> BOOLEAN] /\ recovering \subseteq Standbys
  /\ sender \in [Standbys -> States]
  /\ pc \in Steps /\ at \in Standbys /\ conns \subseteq Nodes
  /\ state \in States /\ verdict \in {"none", "pass", "error"}
  /\ streamed \subseteq Standbys

Init ==
  /\ up = [n \in Nodes |-> TRUE] /\ recovering = Standbys
  /\ sender = [s \in Standbys |-> "none"]
  /\ pc = "idle" /\ at = 1 /\ conns = {}
  /\ state = "none" /\ verdict = "none" /\ streamed = {}

-----------------------------------------------------------------------------
(* The servers.                                                            *)

(* A slot serves one connection at a time.                                 *)
SlotFree(s) ==
  \A t \in Standbys : SlotName[t] = SlotName[s] => sender[t] = "none"

Attach(s) ==
  /\ up[Primary] /\ up[s] /\ s \in recovering
  /\ SlotFree(s)
  /\ sender' = [sender EXCEPT ![s] = "catchup"]
  /\ UNCHANGED <<up, recovering, verifyVars, streamed>>

CatchUp(s) ==
  /\ sender[s] = "catchup"
  /\ sender' = [sender EXCEPT ![s] = "streaming"]
  /\ streamed' = streamed \cup {s}
  /\ UNCHANGED <<up, recovering, verifyVars>>

Detach(s) ==
  /\ sender[s] # "none"
  /\ sender' = [sender EXCEPT ![s] = "none"]
  /\ UNCHANGED <<up, recovering, verifyVars, streamed>>

(* The connections to a server end with it.                                *)
Crash(n) ==
  /\ up[n]
  /\ up' = [up EXCEPT ![n] = FALSE]
  /\ sender' = [s \in Standbys |-> IF n \in {Primary, s} THEN "none" ELSE sender[s]]
  /\ conns' = conns \ {n}
  /\ UNCHANGED <<recovering, pc, at, state, verdict, streamed>>

Restart(n) ==
  /\ ~up[n]
  /\ up' = [up EXCEPT ![n] = TRUE]
  /\ UNCHANGED <<recovering, sender, verifyVars, streamed>>

Promoted(s) ==
  /\ up[s] /\ s \in recovering
  /\ recovering' = recovering \ {s}
  /\ sender' = [sender EXCEPT ![s] = "none"]
  /\ UNCHANGED <<up, verifyVars, streamed>>

-----------------------------------------------------------------------------
(* verifyMasterSlave.                                                      *)

(* An address the configuration accepts has no netmask, and inet::text     *)
(* writes one.                                                             *)
HostText(s) == [addr |-> s, netmask |-> FALSE]
InetText(s) == [addr |-> s, netmask |-> TRUE]

Rows == {t \in Standbys : sender[t] # "none"}
ByAddress(s) == {t \in Rows : InetText(t) = HostText(s)}
ByName == {t \in Rows : AppName[t] = ApplicationName}

(* The rows one of which the primary returns for s.                        *)
RowsFor(s) == IF ByAddress(s) # {} THEN ByAddress(s) ELSE ByName

Report(v) == pc' = "idle" /\ verdict' = v /\ conns' = {}

Begin ==
  /\ pc = "idle"
  /\ pc' = "primary" /\ at' = 1 /\ verdict' = "none"
  /\ streamed' = {s \in Standbys : sender[s] = "streaming"}
  /\ UNCHANGED <<serverVars, conns, state>>

ConnectPrimary ==
  /\ pc = "primary" /\ up[Primary]
  /\ conns' = {Primary}
  /\ pc' = "standby"
  /\ UNCHANGED <<serverVars, at, state, verdict, streamed>>

ConnectStandby ==
  /\ pc = "standby" /\ up[at]
  /\ conns' = conns \cup {at}
  /\ pc' = "row"
  /\ UNCHANGED <<serverVars, at, state, verdict, streamed>>

(* The primary's view of the standby.                                      *)
QueryPrimary ==
  /\ pc = "row" /\ Primary \in conns
  /\ \E t \in RowsFor(at) : state' = sender[t]
  /\ pc' = "own"
  /\ UNCHANGED <<serverVars, at, conns, verdict, streamed>>

(* The standby's own view, and what both make.                             *)
QueryStandby ==
  /\ pc = "own" /\ at \in conns
  /\ IF at \notin recovering \/ state # "streaming"
     THEN Report("error") /\ UNCHANGED at
     ELSE IF at = NumStandbys
     THEN Report("pass") /\ UNCHANGED at
     ELSE at' = at + 1 /\ pc' = "standby" /\ UNCHANGED <<conns, verdict>>
  /\ UNCHANGED <<serverVars, state, streamed>>

(* A call fails, finds no row, or comes after the deadline of ten seconds. *)
Fails ==
  /\ pc # "idle"
  /\ Report("error")
  /\ UNCHANGED <<serverVars, at, state, streamed>>

Servers ==
  \/ \E s \in Standbys : Attach(s) \/ CatchUp(s) \/ Detach(s) \/ Promoted(s)
  \/ \E n \in Nodes : Crash(n) \/ Restart(n)

Verify ==
  \/ Begin \/ ConnectPrimary \/ ConnectStandby \/ QueryPrimary \/ QueryStandby
  \/ Fails

Next == Servers \/ Verify

Spec == Init /\ [][Next]_vars

-----------------------------------------------------------------------------
(* README.md:34, cluster: "`verify` and `probe` check all standbys":       *)
(* where verify says PASS, every standby streamed while it ran.            *)
PassMeansAllStreamed == verdict = "pass" => streamed = Standbys

(* What PASS does show of a cluster: some standby streamed while it ran.   *)
PassMeansOneStreamed == verdict = "pass" => streamed # {}

-----------------------------------------------------------------------------
(* `render` gives every standby the same application_name and slot.        *)
AsRendered ==
  \A s, t \in Standbys :
    AppName[s] = ApplicationName /\ SlotName[s] = SlotName[t]

(* One slot is room for one standby.                                       *)
OneAttached ==
  \A s, t \in Standbys : sender[s] # "none" /\ sender[t] # "none" => s = t
=============================================================================
