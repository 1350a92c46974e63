------------------------------ MODULE DDLSync ------------------------------
(***************************************************************************)
(* DDL tracking and replay between the nodes of a multi-master cluster     *)
(* (src/internal/replication/ddl.go): ddl-setup installs an event trigger  *)
(* that logs the DDL run on a node, ddl-sync replays what every node's log *)
(* has pending on the others and marks it, and applications run DDL        *)
(* meanwhile.  ddl-sync may run on several hosts at once (a cron job each) *)
(* and every one of its statements is a transaction of its own.            *)
(***************************************************************************)
EXTENDS Naturals, Sequences

CONSTANTS
  NumNodes,    \* nodes, in the order of ResolveLogicalNodes
  Syncers,     \* the hosts that run ddl-sync
  Statements,  \* the DDL statements of the applications
  Script,      \* the statements of SetupDDLTracking, sent as one command
  Origin,      \* the node an application runs a statement on
  Requires,    \* the statements that must have run before it on a node
  Repeatable,  \* those that succeed again (CREATE OR REPLACE)
  Installed,   \* the nodes where tracking is installed from the start
  MaxSetups,   \* bound on the runs of ddl-setup
  MaxFailures  \* bound on failing calls and dying processes

Nodes == 1..NumNodes
Commands == Statements \cup {Script}

ASSUME SyncAssumption ==
  /\ NumNodes \in Nat \ {0, 1}
  /\ Script \notin Statements
  /\ Origin \in [Statements -> Nodes]
  /\ Requires \in [Statements -> SUBSET Statements]
  /\ Repeatable \subseteq Statements
  /\ Installed \subseteq Nodes
  /\ MaxSetups \in Nat /\ MaxFailures \in Nat

VARIABLES
  applied,  \* the commands that have run on each node
  log,      \* replicon_ddl_log of each node; an id is a position
  trigger,  \* replicon_ddl_capture of each node
  pc,       \* where each run of ddl-sync is
  src,      \* the node it replays from
  tgt,      \* the node it replays on
  entries,  \* the ids it has read from src
  k,        \* the one it is at
  setupAt,  \* the node ddl-setup is at; 0: it is not running
  setups,   \* runs of ddl-setup so far
  failures, \* failures so far
  missed,   \* history: <<s, n>> if a replay of s on n was passed over or failed
  cut,      \* history: nodes a run left between DISABLE and ENABLE
  loud      \* history: <<s, n>> if a replay of s on n was not let be quiet

dbVars == <<applied, log, trigger>>
syncVars == <<pc, src, tgt, entries, k>>
setupVars == <<setupAt, setups>>
faultVars == <<failures, missed, cut, loud>>
vars == <<applied, log, trigger, pc, src, tgt, entries, k, setupAt, setups,
          failures, missed, cut, loud>>

Places == {"idle", "source", "connect", "disable", "exec", "enable", "mark"}
Entry == [stmt : Commands, replayed : BOOLEAN]

TypeOK ==
  /\ applied \in [Nodes -> SUBSET Commands]
  /\ log \in [Nodes -> Seq(Entry)]
  /\ trigger \in [Nodes -> {"absent", "on", "off"}]
  /\ pc \in [Syncers -> Places]
  /\ src \in [Syncers -> Nodes]
  /\ tgt \in [Syncers -> 1..NumNodes + 1]
  /\ entries \in [Syncers -> SUBSET (Nat \ {0})]
  /\ k \in [Syncers -> Nat \ {0}]
  /\ setupAt \in 0..NumNodes
  /\ setups \in 0..MaxSetups /\ failures \in 0..MaxFailures
  /\ missed \subseteq Commands \X Nodes /\ loud \subseteq Commands \X Nodes
  /\ cut \subseteq Nodes

Init ==
  /\ applied = [n \in Nodes |-> {}]
  /\ log = [n \in Nodes |-> <<>>]
  /\ trigger = [n \in Nodes |-> IF n \in Installed THEN "on" ELSE "absent"]
  /\ pc = [p \in Syncers |-> "idle"]
  /\ src = [p \in Syncers |-> 1] /\ tgt = [p \in Syncers |-> 1]
  /\ entries = [p \in Syncers |-> {}] /\ k = [p \in Syncers |-> 1]
  /\ setupAt = 0 /\ setups = 0
  /\ failures = 0 /\ missed = {} /\ cut = {} /\ loud = {}

-----------------------------------------------------------------------------
(* A command on a node.                                                    *)

Works(s, n) ==
  s # Script => /\ Requires[s] \subseteq applied[n]
                /\ s \notin applied[n] \/ s \in Repeatable

(* The commands that runs are to replay on n, the trigger being disabled.  *)
Stmt(p, i) == log[src[p]][i].stmt
Laid(n) ==
  {<<Stmt(p, k[p]), n>> : p \in {q \in Syncers : tgt[q] = n /\ pc[q] = "exec"}}

(* The trigger of n becomes x, for every session: also for their replays.  *)
Restore(n, x) ==
  /\ trigger' = [trigger EXCEPT ![n] = x]
  /\ cut' = cut \ {n}
  /\ loud' = loud \cup Laid(n)

(* The trigger logs a command in the transaction it runs in.  The script   *)
(* keeps the table, replaces the function - which is DDL of the kind that  *)
(* is logged -, drops the trigger and creates it again.                    *)
Execute(s, n) ==
  /\ applied' = [applied EXCEPT ![n] = @ \cup {s}]
  /\ log' = IF trigger[n] = "on"
            THEN [log EXCEPT ![n] = Append(@, [stmt |-> s, replayed |-> FALSE])]
            ELSE log
  /\ IF s = Script THEN Restore(n, "on") ELSE UNCHANGED <<trigger, cut, loud>>

(* An application runs its DDL.                                            *)
AppDDL(s) ==
  /\ s \notin applied[Origin[s]]
  /\ Works(s, Origin[s])
  /\ Execute(s, Origin[s])
  /\ UNCHANGED <<syncVars, setupVars, failures, missed>>

(* A call fails, and the replays in lost with it.                          *)
Fails(lost) ==
  /\ failures < MaxFailures
  /\ failures' = failures + 1
  /\ missed' = missed \cup lost

(* The run p has disabled the trigger of node n and is to enable it.       *)
Replaying(p, n) == tgt[p] = n /\ pc[p] \in {"exec", "enable"}

(* The run p goes no further with its target.                              *)
BreaksOff(p) ==
  /\ cut' = cut \cup {n \in Nodes : Replaying(p, n)}
  /\ UNCHANGED loud

-----------------------------------------------------------------------------
(* ddl-setup (SetupDDLTrackingAll): node by node, up to the first failure. *)

BeginSetup ==
  /\ setupAt = 0 /\ setups < MaxSetups
  /\ setupAt' = 1 /\ setups' = setups + 1
  /\ UNCHANGED <<dbVars, syncVars, faultVars>>

(* Where the trigger is on already, the script is logged as new DDL.       *)
InstallTracking ==
  /\ setupAt # 0
  /\ Execute(Script, setupAt)
  /\ setupAt' = IF setupAt = NumNodes THEN 0 ELSE setupAt + 1
  /\ UNCHANGED <<syncVars, setups, failures, missed>>

SetupFails ==
  /\ setupAt # 0
  /\ setupAt' = 0
  /\ Fails({})
  /\ UNCHANGED <<dbVars, syncVars, setups, cut, loud>>

-----------------------------------------------------------------------------
(* ddl-sync (SyncDDL): every node is the source once.                      *)

(* Mutant of Pending: the condition the other way round.                   *)
Replayed(n) == {i \in DOMAIN log[n] : log[n][i].replayed}

(* The ids that `SELECT ... WHERE replayed = false ORDER BY id` returns.   *)
Pending(n) == {i \in DOMAIN log[n] : ~log[n][i].replayed}

(* The order in which they are gone through.                               *)
First(ids) == CHOOSE i \in ids : \A j \in ids : i <= j
Rest(p) == {i \in entries[p] : i > k[p]}

(* Mutant of NextTarget: every node past the source is jumped over.        *)
SkipsPastSource(p, t) == IF t + 1 >= src[p] THEN t + 2 ELSE t + 1

(* The next target: every node but the source.                             *)
NextTarget(p, t) == IF t + 1 = src[p] THEN t + 2 ELSE t + 1

(* Mutant of AtTarget: the last node is never a target.                    *)
LastLeftOut(p, t, ids) ==
  /\ tgt' = [tgt EXCEPT ![p] = t]
  /\ k' = [k EXCEPT ![p] = First(ids)]
  /\ pc' = [pc EXCEPT ![p] = IF t >= NumNodes THEN "mark" ELSE "connect"]

(* Move with ids to target t, or to their marking when there is none left. *)
AtTarget(p, t, ids) ==
  /\ tgt' = [tgt EXCEPT ![p] = t]
  /\ k' = [k EXCEPT ![p] = First(ids)]
  /\ pc' = [pc EXCEPT ![p] = IF t > NumNodes THEN "mark" ELSE "connect"]

(* Move to source n, or end when there is none left.                       *)
AtSource(p, n) ==
  /\ pc' = [pc EXCEPT ![p] = IF n > NumNodes THEN "idle" ELSE "source"]
  /\ src' = [src EXCEPT ![p] = IF n > NumNodes THEN 1 ELSE n]
  /\ entries' = [entries EXCEPT ![p] = {}]
  /\ k' = [k EXCEPT ![p] = 1]
  /\ tgt' = [tgt EXCEPT ![p] = 1]

(* The statements from the one at hand on that tgt does not have.          *)
Remaining(p) ==
  {<<s, tgt[p]>> : s \in {Stmt(p, i) : i \in {k[p]} \cup Rest(p)}
                         \ applied[tgt[p]]}

Begin(p) ==
  /\ pc[p] = "idle"
  /\ pc' = [pc EXCEPT ![p] = "source"]
  /\ UNCHANGED <<dbVars, src, tgt, entries, k, setupVars, faultVars>>

(* Go through these ids of the source; there is nothing to do with none.   *)
Take(p, ids) ==
  IF ids = {}
  THEN AtSource(p, src[p] + 1)
  ELSE /\ entries' = [entries EXCEPT ![p] = ids]
       /\ AtTarget(p, NextTarget(p, 0), ids)
       /\ UNCHANGED src

(* The source's pending entries are read, once; without a log there are    *)
(* none.                                                                   *)
ReadSource(p) ==
  /\ pc[p] = "source"
  /\ Take(p, Pending(src[p]))
  /\ UNCHANGED <<dbVars, setupVars, faultVars>>

(* The query fails, which is no error: what it has returned is gone        *)
(* through as if it were all.                                              *)
ReadBreaks(p) ==
  /\ pc[p] = "source"
  /\ \E last \in {0} \cup Pending(src[p]) :
       Take(p, {i \in Pending(src[p]) : i <= last})
  /\ Fails({})
  /\ UNCHANGED <<dbVars, setupVars, cut, loud>>

(* A source that cannot be connected to ends the run with an error.        *)
SourceFails(p) ==
  /\ pc[p] = "source"
  /\ AtSource(p, NumNodes + 1)
  /\ Fails({})
  /\ UNCHANGED <<dbVars, setupVars, cut, loud>>

Connect(p) ==
  /\ pc[p] = "connect"
  /\ pc' = [pc EXCEPT ![p] = "disable"]
  /\ UNCHANGED <<dbVars, src, tgt, entries, k, setupVars, faultVars>>

(* A target that cannot be connected to is passed over.  One whose         *)
(* connection is lost fails all that is left, and every error is ignored.  *)
LoseTarget(p) ==
  /\ pc[p] \in {"connect", "disable", "exec", "enable"}
  /\ AtTarget(p, NextTarget(p, tgt[p]), entries[p])
  /\ Fails(Remaining(p)) /\ BreaksOff(p)
  /\ UNCHANGED <<dbVars, src, entries, setupVars>>

(* Mutant of Disabled: DISABLE has no effect.                              *)
LeftEnabled(n) == trigger[n]

(* Mutant of Enabled: ENABLE has no effect.                                *)
LeftDisabled(n) == trigger[n]

(* What ALTER EVENT TRIGGER ... DISABLE and ENABLE make of the trigger.    *)
Disabled(n) == IF trigger[n] = "on" THEN "off" ELSE trigger[n]
Enabled(n) == IF trigger[n] = "off" THEN "on" ELSE trigger[n]

Disable(p) ==
  /\ pc[p] = "disable"
  /\ trigger' = [trigger EXCEPT ![tgt[p]] = Disabled(tgt[p])]
  /\ pc' = [pc EXCEPT ![p] = "exec"]
  /\ UNCHANGED <<applied, log, src, tgt, entries, k, setupVars, faultVars>>

(* DISABLE fails on its own (`_, _ = conn.Exec`); the command runs anyway. *)
DisableFails(p) ==
  /\ pc[p] = "disable"
  /\ pc' = [pc EXCEPT ![p] = "exec"]
  /\ Fails({}) /\ loud' = loud \cup {<<Stmt(p, k[p]), tgt[p]>>}
  /\ UNCHANGED <<dbVars, src, tgt, entries, k, setupVars, cut>>

Replay(p) ==
  /\ pc[p] = "exec"
  /\ Works(Stmt(p, k[p]), tgt[p])
  /\ Execute(Stmt(p, k[p]), tgt[p])
  /\ pc' = [pc EXCEPT ![p] = "enable"]
  /\ UNCHANGED <<src, tgt, entries, k, setupVars, failures, missed>>

(* The statement fails, for what the node has or lacks or for its data.    *)
ReplayFails(p) ==
  LET s == Stmt(p, k[p])
      lost == {<<s, tgt[p]>>} \ {<<x, tgt[p]>> : x \in applied[tgt[p]]}
  IN  /\ pc[p] = "exec"
      /\ \/ ~Works(s, tgt[p]) /\ missed' = missed \cup lost /\ UNCHANGED failures
         \/ Fails(lost)
      /\ pc' = [pc EXCEPT ![p] = "enable"]
      /\ UNCHANGED <<dbVars, src, tgt, entries, k, setupVars, cut, loud>>

(* The next entry for this target, or else the next target.                *)
NextEntry(p) ==
  IF Rest(p) # {}
  THEN /\ k' = [k EXCEPT ![p] = First(Rest(p))]
       /\ pc' = [pc EXCEPT ![p] = "disable"]
       /\ UNCHANGED tgt
  ELSE AtTarget(p, NextTarget(p, tgt[p]), entries[p])

Enable(p) ==
  /\ pc[p] = "enable"
  /\ Restore(tgt[p], Enabled(tgt[p]))
  /\ NextEntry(p)
  /\ UNCHANGED <<applied, log, src, entries, setupVars, failures, missed>>

(* ENABLE fails on its own, which is ignored as well.                      *)
EnableFails(p) ==
  /\ pc[p] = "enable"
  /\ NextEntry(p)
  /\ Fails({}) /\ BreaksOff(p)
  /\ UNCHANGED <<dbVars, src, entries, setupVars>>

(* The next entry to mark, or else the next source.                        *)
NextMark(p) ==
  IF Rest(p) # {}
  THEN k' = [k EXCEPT ![p] = First(Rest(p))] /\ UNCHANGED <<pc, src, tgt, entries>>
  ELSE AtSource(p, src[p] + 1)

(* Every entry read is marked, whatever became of it on the targets.       *)
Mark(p) ==
  /\ pc[p] = "mark"
  /\ log' = [log EXCEPT ![src[p]][k[p]].replayed = TRUE]
  /\ NextMark(p)
  /\ UNCHANGED <<applied, trigger, setupVars, faultVars>>

(* One mark fails on its own: the entry stays pending, the others do not.  *)
MarkFails(p) ==
  /\ pc[p] = "mark"
  /\ NextMark(p)
  /\ Fails({})
  /\ UNCHANGED <<dbVars, setupVars, cut, loud>>

(* The source's connection is lost, and the remaining marks with it.       *)
LoseSource(p) ==
  /\ pc[p] = "mark"
  /\ AtSource(p, src[p] + 1)
  /\ Fails({})
  /\ UNCHANGED <<dbVars, setupVars, cut, loud>>

(* The process dies, or its 60 seconds are over and every call fails.      *)
Crash(p) ==
  /\ pc[p] # "idle"
  /\ AtSource(p, NumNodes + 1)
  /\ Fails({}) /\ BreaksOff(p)
  /\ UNCHANGED <<dbVars, setupVars>>

Syncs(p) ==
  \/ Begin(p) \/ ReadSource(p) \/ ReadBreaks(p) \/ SourceFails(p)
  \/ Connect(p) \/ LoseTarget(p) \/ Disable(p) \/ DisableFails(p)
  \/ Replay(p) \/ ReplayFails(p) \/ Enable(p) \/ EnableFails(p)
  \/ Mark(p) \/ MarkFails(p) \/ LoseSource(p)

Next ==
  \/ \E s \in Statements : AppDDL(s)
  \/ \E p \in Syncers : Syncs(p) \/ Crash(p)
  \/ BeginSetup \/ InstallTracking \/ SetupFails

Spec == Init /\ [][Next]_vars

(* ddl-sync is run again and again ("on a cron"), and runs to its end.     *)
FairSpec ==
  Spec /\ WF_vars(InstallTracking) /\ \A p \in Syncers : WF_vars(Syncs(p))

-----------------------------------------------------------------------------
(* README.md, DDL sync: "Disables the trigger during replay to avoid       *)
(* loops".  A node's log holds only what an application ran there, once -  *)
(* and what was replayed there while its DISABLE had failed, or was undone *)
(* before the command ran by another run's ENABLE or by ddl-setup.  No     *)
(* other order of steps, failure or death makes a replay look like DDL.    *)
NoEcho ==
  \A n \in Nodes : \A i, j \in DOMAIN log[n] :
    log[n][i].stmt \in Statements /\ <<log[n][i].stmt, n>> \notin loud
      => /\ Origin[log[n][i].stmt] = n
         /\ log[n][i].stmt = log[n][j].stmt => i = j

(* README.md, DDL tracking: the triggers "capture DDL [...] into a         *)
(* tracking table".  They do not while a replay is going on on the node -  *)
(* DISABLE is for every session -, nor after a run that broke off between  *)
(* DISABLE and ENABLE or whose ENABLE failed; whatever else becomes of a   *)
(* replay, also of one whose statement is refused, the node captures again.*)
GapIsReplay ==
  \A n \in Nodes :
    trigger[n] = "off" => n \in cut \/ \E p \in Syncers : Replaying(p, n)

(* README.md, DDL sync: "Marks entries as replayed".  An entry is marked   *)
(* only when its replay was tried everywhere: it has run on a node unless  *)
(* that node could not be reached or refused it - these never get it -,    *)
(* and neither a run that dies midway nor an overlapping one marks it      *)
(* before.                                                                 *)
MarkedMeansTried ==
  \A n, m \in Nodes : \A i \in DOMAIN log[n] :
    log[n][i].replayed
      => log[n][i].stmt \in applied[m] \/ <<log[n][i].stmt, m>> \in missed

(* DDL sync is a delivery, at least once: what runs on a node is what an   *)
(* application ran there or an entry of another node's log, no entry is    *)
(* lost or taken back, and none settled that some node has neither had nor *)
(* missed - overlapping runs, runs that die and echoes included.           *)
Delivery == INSTANCE DDLDelivery
ImplementsDelivery == Delivery!Spec

(* What the log of a node has gets to every node that a run did not miss,  *)
(* though runs die at any point between reading, replaying and marking it. *)
CapturedIsReplayed ==
  \A s \in Commands :
    (\E n \in Nodes : \E i \in DOMAIN log[n] : log[n][i].stmt = s)
      ~> (\A m \in Nodes : s \in applied[m] \/ <<s, m>> \in missed)
=============================================================================
