------------------------------ MODULE Handover ------------------------------
(***************************************************************************)
(* Handing the primary's part over by hand: `promote -execute` and then    *)
(* `rejoin -execute`, from the command line or the API (PromoteStandby and *)
(* RejoinOldPrimary of ops.go; runPromote, runRejoin and the operation     *)
(* handlers of main.go), between a primary and its standby.                *)
(*                                                                         *)
(* A workflow is a list of remote commands, each a step here, which stops  *)
(* at the first that fails.  Nothing keeps two workflows apart: the API    *)
(* cuts its answer off after 60 seconds while the workflow goes on, and    *)
(* the request is sent again.  Commands fail, their answers get lost,      *)
(* scripts outlive the connection that started them, servers crash, and    *)
(* applications go on writing wherever they can.                           *)
(***************************************************************************)
EXTENDS Naturals

CONSTANTS
  Workflows,   \* requests that can be under way together
  First,       \* the one the operator repeats until it is done
  Nobody,      \* not a workflow
  Writes,      \* what applications write
  MaxDoubles,  \* bound on the requests sent while the first one runs
  MaxFailures, \* bound on lost commands and answers, on crashes and on
               \* restarts of the old primary
  CrashWhilePromoting  \* a server may crash before pg_promote is done

ASSUME HandoverAssumption ==
  /\ First \in Workflows /\ Nobody \notin Workflows
  /\ MaxDoubles \in Nat /\ MaxFailures \in Nat
  /\ CrashWhilePromoting \in BOOLEAN

Primary == "primary"   \* cfg.Primary, the old one
Standby == "standby"   \* cfg.Standby, the new one
Nodes == {Primary, Standby}

VARIABLES
  up,          \* PostgreSQL runs on the node
  recovering,  \* the node's data directory is that of a standby
  promoting,   \* the standby was told to promote and is still in recovery
  dir,         \* the old primary's data directory
  copier,      \* the pg_basebackup that fills it; Nobody: none
  data,        \* the writes in each node's data directory
  saved,       \* the writes in the backups next to the data directory
  acked,       \* the writes acknowledged to applications
  slot,        \* the slot <replication_slot>_rejoin exists on the standby
  pc,          \* the command each workflow is at
  scripts,     \* data directory scripts whose workflow has given them up
  reported,    \* the operations that were reported as completed
  doubles, failures

serverVars == <<up, recovering, promoting, data>>
diskVars == <<dir, copier, saved, slot>>
opVars == <<pc, scripts, reported, doubles>>
vars == <<up, recovering, promoting, dir, copier, data, saved, acked, slot,
          pc, scripts, reported, doubles, failures>>

(* The commands of PromoteStandby and of RejoinOldPrimary.  The second of  *)
(* the latter is a script; "stop" and "move" are its two parts, and        *)
(* pg_basebackup takes its time between "backup" and "copying".            *)
Places == {"idle", "promote", "confirm",
           "slot", "stop", "move", "backup", "copying", "start", "check"}

TypeOK ==
  /\ up \in [Nodes -> BOOLEAN] /\ recovering \in [Nodes -> BOOLEAN]
  /\ promoting \in BOOLEAN
  /\ dir \in {"cluster", "empty", "partial"}
  /\ copier \in Workflows \cup {Nobody}
  /\ data \in [Nodes -> SUBSET Writes]
  /\ saved \subseteq Writes /\ acked \subseteq Writes
  /\ slot \in BOOLEAN
  /\ pc \in [Workflows -> Places]
  /\ scripts \in Nat
  /\ reported \subseteq {"promote", "rejoin"}
  /\ doubles \in 0..MaxDoubles /\ failures \in 0..MaxFailures

Init ==
  /\ up = [n \in Nodes |-> TRUE]
  /\ recovering = [n \in Nodes |-> n = Standby]
  /\ promoting = FALSE
  /\ dir = "cluster" /\ copier = Nobody
  /\ data = [n \in Nodes |-> {}] /\ saved = {} /\ acked = {}
  /\ slot = FALSE
  /\ pc = [w \in Workflows |-> "idle"]
  /\ scripts = 0 /\ reported = {}
  /\ doubles = 0 /\ failures = 0

Failure == failures < MaxFailures /\ failures' = failures + 1

-----------------------------------------------------------------------------
(* The servers and the applications.                                       *)

Serves(n) == up[n] /\ ~recovering[n]

Write(n, x) ==
  /\ Serves(n)
  /\ x \notin acked
  /\ acked' = acked \cup {x}
  /\ data' = [data EXCEPT ![n] = @ \cup {x}]
  /\ UNCHANGED <<up, recovering, promoting, diskVars, opVars, failures>>

(* The standby follows the primary until it is promoted, the rejoined      *)
(* primary follows the standby.                                            *)
Streams(from, to) ==
  /\ from # to
  /\ up[from] /\ up[to] /\ recovering[to]
  /\ to = Standby => ~recovering[from] /\ ~promoting
  /\ data[from] \ data[to] # {}
  /\ data' = [data EXCEPT ![to] = @ \cup data[from]]
  /\ UNCHANGED <<up, recovering, promoting, diskVars, acked, opVars, failures>>

(* An order to promote is gone with the server.                            *)
Crashes(n) ==
  /\ up[n]
  /\ n = Standby /\ promoting => CrashWhilePromoting
  /\ up' = [up EXCEPT ![n] = FALSE]
  /\ promoting' = (promoting /\ n # Standby)
  /\ Failure
  /\ UNCHANGED <<recovering, data, diskVars, acked, opVars>>

StandbyRestarts ==
  /\ ~up[Standby]
  /\ up' = [up EXCEPT ![Standby] = TRUE]
  /\ UNCHANGED <<recovering, promoting, data, diskVars, acked, opVars, failures>>

(* Stopped or crashed, the old primary may be started again by somebody.   *)
PrimaryRestarts ==
  /\ ~up[Primary] /\ dir = "cluster"
  /\ up' = [up EXCEPT ![Primary] = TRUE]
  /\ Failure
  /\ UNCHANGED <<recovering, promoting, data, diskVars, acked, opVars>>

PromotionFinishes ==
  /\ promoting
  /\ promoting' = FALSE
  /\ recovering' = [recovering EXCEPT ![Standby] = FALSE]
  /\ UNCHANGED <<up, data, diskVars, acked, opVars, failures>>

-----------------------------------------------------------------------------
(* runCommands.                                                            *)

Goto(w, p) == pc' = [pc EXCEPT ![w] = p]

(* The command has done its work: on to the next, or its answer is lost.   *)
Answers(w, next) ==
  \/ Goto(w, next) /\ UNCHANGED failures
  \/ Goto(w, "idle") /\ Failure

(* The place after each command.                                           *)
Following(p) ==
  CASE p = "promote" -> "confirm"
    [] p = "slot" -> "stop"
    [] p \in {"stop", "move"} -> "backup"
    [] p \in {"backup", "copying"} -> "start"
    [] p = "start" -> "check"
    [] p \in {"confirm", "check"} -> "idle"

(* Mutant of AfterFailure: the remaining commands run all the same.        *)
RunOn(w) == Following(pc[w])

(* The first command that fails ends the workflow.                         *)
AfterFailure(w) == "idle"

(* What a command needs for its work.                                      *)
CanPromote == up[Standby] /\ recovering[Standby]
SlotBusy ==
  (\E w \in Workflows : pc[w] = "copying") \/ (up[Primary] /\ recovering[Primary])
CanCopy == up[Standby] /\ slot /\ ~SlotBusy /\ dir = "empty"

(* Mutant of CanCreateSlot: no IF NOT EXISTS around it.                    *)
SlotIsNew == up[Standby] /\ ~slot

CanCreateSlot == up[Standby]

(* A command fails for what it finds, or is never run.  A base backup that *)
(* fails clears the directory, unless it is cut off; one whose directory   *)
(* was moved away fails.                                                   *)
CommandFails(w) ==
  /\ \/ pc[w] = "promote" /\ ~CanPromote /\ UNCHANGED failures
     \/ pc[w] = "slot" /\ ~CanCreateSlot /\ UNCHANGED failures
     \/ pc[w] = "backup" /\ ~CanCopy /\ UNCHANGED failures
     \/ pc[w] = "copying" /\ (~up[Standby] \/ copier # w) /\ UNCHANGED failures
     \/ pc[w] = "start" /\ dir # "cluster" /\ UNCHANGED failures
     \/ pc[w] = "confirm" /\ ~up[Standby] /\ UNCHANGED failures
     \/ pc[w] = "check" /\ ~up[Primary] /\ UNCHANGED failures
     \/ pc[w] # "idle" /\ Failure
  /\ Goto(w, AfterFailure(w))
  /\ IF copier = w THEN copier' = Nobody /\ dir' \in {"empty", "partial"}
                   ELSE UNCHANGED <<copier, dir>>
  /\ UNCHANGED <<serverVars, saved, acked, slot, scripts, reported, doubles>>

-----------------------------------------------------------------------------
(* The operator, who rejoins after the promotion: when it was reported, or *)
(* when the standby is seen to serve after all.                            *)

Request(w, p) ==
  /\ pc[w] = "idle"
  /\ p = "promote" => "promote" \notin reported /\ recovering[Standby]
  /\ p = "slot" => /\ "rejoin" \notin reported
                   /\ "promote" \in reported \/ ~recovering[Standby]
  /\ IF w = First THEN UNCHANGED doubles
                  ELSE doubles < MaxDoubles /\ doubles' = doubles + 1
  /\ Goto(w, p)
  /\ UNCHANGED <<serverVars, diskVars, acked, scripts, reported, failures>>

-----------------------------------------------------------------------------
(* PromoteStandby.                                                         *)

(* pg_promote is done within its wait, or psql exits with 0 before it is.  *)
Promote(w) ==
  /\ pc[w] = "promote"
  /\ CanPromote
  /\ \/ promoting' = FALSE /\ recovering' = [recovering EXCEPT ![Standby] = FALSE]
     \/ promoting' = TRUE /\ UNCHANGED recovering
  /\ Answers(w, "confirm")
  /\ UNCHANGED <<up, data, diskVars, acked, scripts, reported, doubles>>

(* The operation is reported as completed, unless the answer is lost.      *)
Report(w, operation) ==
  /\ Goto(w, "idle")
  /\ \/ reported' = reported \cup {operation} /\ UNCHANGED failures
     \/ UNCHANGED reported /\ Failure

(* psql exits with 0 whatever SELECT NOT pg_is_in_recovery() prints.       *)
Confirm(w) ==
  /\ pc[w] = "confirm"
  /\ up[Standby]
  /\ Report(w, "promote")
  /\ UNCHANGED <<serverVars, diskVars, acked, scripts, doubles>>

-----------------------------------------------------------------------------
(* RejoinOldPrimary.                                                       *)

CreateSlot(w) ==
  /\ pc[w] = "slot"
  /\ CanCreateSlot
  /\ slot' = TRUE
  /\ Answers(w, "stop")
  /\ UNCHANGED <<serverVars, dir, copier, saved, acked, scripts, reported, doubles>>

(* systemctl stop postgresql.                                              *)
Stop(w) ==
  /\ pc[w] = "stop"
  /\ up' = [up EXCEPT ![Primary] = FALSE]
  /\ Goto(w, "move")
  /\ UNCHANGED <<recovering, promoting, data, diskVars, acked, scripts, reported,
                 doubles, failures>>

(* Mutant of Kept: rm -rf instead of mv.                                   *)
Removed(old) == {}

(* mv "$data_dir" "$backup_dir": what is kept of the old directory.        *)
Kept(old) == old

(* Mutant of MoveAway: the old directory is left where it is and only      *)
(* marked as a standby's.                                                  *)
MarkInPlace ==
  /\ ~up[Primary] /\ dir = "cluster"
  /\ recovering' = [recovering EXCEPT ![Primary] = TRUE]
  /\ UNCHANGED <<data, saved, dir, copier>>

(* No postgres process is left: the directory is moved away and made anew. *)
MoveAway ==
  /\ ~up[Primary]
  /\ saved' = saved \cup Kept(data[Primary])
  /\ data' = [data EXCEPT ![Primary] = {}]
  /\ recovering' = [recovering EXCEPT ![Primary] = FALSE]
  /\ dir' = "empty" /\ copier' = Nobody

Move(w) ==
  /\ pc[w] = "move"
  /\ MoveAway
  /\ Answers(w, "backup")
  /\ UNCHANGED <<up, promoting, acked, slot, scripts, reported, doubles>>

(* The script waits for the postgres processes to end: the time-out of the *)
(* command ends the workflow, or the connection is lost, and the script is *)
(* left behind.                                                            *)
LeaveScript(w) ==
  /\ pc[w] = "move"
  /\ (up[Primary] /\ UNCHANGED failures) \/ Failure
  /\ Goto(w, "idle")
  /\ scripts' = scripts + 1
  /\ UNCHANGED <<serverVars, diskVars, acked, reported, doubles>>

ScriptMoves ==
  /\ scripts > 0
  /\ MoveAway
  /\ scripts' = scripts - 1
  /\ UNCHANGED <<up, promoting, acked, slot, pc, reported, doubles, failures>>

(* pg_basebackup finds an empty directory and a free slot.                 *)
BeginCopy(w) ==
  /\ pc[w] = "backup"
  /\ CanCopy
  /\ dir' = "partial" /\ copier' = w
  /\ Goto(w, "copying")
  /\ UNCHANGED <<serverVars, saved, acked, slot, scripts, reported, doubles, failures>>

(* Mutant of RecoveryConf: no --write-recovery-conf.                       *)
NoRecoveryConf == FALSE

(* --write-recovery-conf makes it the directory of a standby.              *)
RecoveryConf == TRUE

EndCopy(w) ==
  /\ pc[w] = "copying"
  /\ up[Standby] /\ copier = w
  /\ data' = [data EXCEPT ![Primary] = data[Standby]]
  /\ recovering' = [recovering EXCEPT ![Primary] = RecoveryConf]
  /\ dir' = "cluster" /\ copier' = Nobody
  /\ Answers(w, "start")
  /\ UNCHANGED <<up, promoting, saved, acked, slot, scripts, reported, doubles>>

StartServer(w) ==
  /\ pc[w] = "start"
  /\ dir = "cluster"
  /\ up' = [up EXCEPT ![Primary] = TRUE]
  /\ Answers(w, "check")
  /\ UNCHANGED <<recovering, promoting, data, diskVars, acked, scripts, reported,
                 doubles>>

(* Here too psql exits with 0 whatever it prints.                          *)
Check(w) ==
  /\ pc[w] = "check"
  /\ up[Primary]
  /\ Report(w, "rejoin")
  /\ UNCHANGED <<serverVars, diskVars, acked, scripts, doubles>>

Runs(w) ==
  \/ Promote(w) \/ Confirm(w)
  \/ CreateSlot(w) \/ Stop(w) \/ Move(w) \/ BeginCopy(w) \/ EndCopy(w)
  \/ LeaveScript(w) \/ StartServer(w) \/ Check(w) \/ CommandFails(w)

Requests(w) == \E p \in {"promote", "slot"} : Request(w, p)

Next ==
  \/ \E w \in Workflows : Requests(w) \/ Runs(w)
  \/ \E n \in Nodes : Crashes(n) \/ \E x \in Writes : Write(n, x)
  \/ StandbyRestarts \/ PrimaryRestarts
  \/ \E n, m \in Nodes : Streams(n, m)
  \/ PromotionFinishes \/ ScriptMoves

Spec == Init /\ [][Next]_vars

(* The operator asks again until it is done, and a workflow goes on to its *)
(* end.  The standby is started again after a crash, and a promotion that  *)
(* has begun ends.  The old primary need not come back by itself, nor need *)
(* a script that was left behind ever end.                                 *)
FairSpec ==
  /\ Spec
  /\ WF_vars(Requests(First)) /\ \A w \in Workflows : WF_vars(Runs(w))
  /\ WF_vars(StandbyRestarts) /\ WF_vars(PromotionFinishes)

-----------------------------------------------------------------------------
(* ops.go:151: "The old primary data directory is preserved under a        *)
(* timestamped backup path before rejoin": what an application was told is *)
(* written is in one of the two data directories or in a backup, however   *)
(* often a rejoin was begun, cut off, doubled and begun anew.              *)
NoWriteLost == acked \subseteq data[Primary] \cup data[Standby] \cup saved

(* ops.go:159: "Rejoin completed: %s is attached as standby to %s": when a *)
(* workflow says so the server runs on a directory copied from the new     *)
(* primary, another workflow's or a script's doing notwithstanding.        *)
RejoinedIsStandby ==
  [][\A w \in Workflows :
       Check(w) /\ "rejoin" \in reported' \ reported
         => up[Primary] /\ recovering[Primary] /\ dir = "cluster"]_vars

(* ops.go:138: a standby's directory is a copy of the new primary's.  What *)
(* the old primary alone had written must not be in it, though a promotion *)
(* cut the standby off at any point, the old primary was started again and *)
(* written to, and workflows and scripts moved directories under a copy:   *)
(* else it has diverged and never catches up.                              *)
NoDivergence ==
  dir = "cluster" /\ recovering[Primary] => data[Primary] \subseteq data[Standby]

(* Once a rejoin was reported the old primary never accepts a write again, *)
(* and the new one is promoted or about to be: no handover ends with two   *)
(* primaries, and, as long as the standby does not crash while it is still *)
(* promoting, none ends without one.                                       *)
OnePrimaryAfterRejoin ==
  "rejoin" \in reported
    => ~Serves(Primary) /\ (recovering[Standby] => promoting)

(* A rejoin that was cut off anywhere can be done again until it succeeds: *)
(* a slot that exists, a directory that is gone, a copy that is half done  *)
(* and a script left behind are all in the next one's way, and none stops  *)
(* it.                                                                     *)
HandoverCompletes == <>("rejoin" \in reported)
=============================================================================
