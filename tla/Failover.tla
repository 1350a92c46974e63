------------------------------ MODULE Failover ------------------------------
(***************************************************************************)
(* Automatic failover of a master-slave cluster: the loop of RunWatchdog,  *)
(* executeFenceAndPromote and the witness of watchdog.go, PromoteStandby   *)
(* and the choice of its target of ops.go, and the checks `watch` makes    *)
(* before it enters the loop (main.go).                                    *)
(*                                                                         *)
(* Several agents may watch the same cluster.  Each remote command, query  *)
(* and decision of an agent is a step of its own, between which servers    *)
(* crash and restart, leadership moves, and other agents act.  Whether an  *)
(* agent is the leader (election.IsLeader) is set from outside: see        *)
(* LeaderElection.                                                         *)
(***************************************************************************)
EXTENDS Integers, FiniteSets

CONSTANTS
  Agents,           \* the `watch` processes
  DryRun,           \* those started with -dry-run
  NumStandbys,      \* standbys, in the order of the configuration
  MaxFailures,      \* max_failures (default 3)
  ElectionEnabled,  \* failover.election.enabled
  LeaderSets,       \* the sets of agents that can be leaders together
  WitnessEnabled,   \* failover.witness.enabled
  DblinkInstalled,  \* the witness database has the dblink extension
  MaxLSN,           \* bound on WAL positions
  TextRank,         \* where a position's text stands in the order of texts
  Faults            \* which of AllFaults may happen

AllFaults ==
  {"partition",   \* an agent cannot reach a primary that serves
   "sshfail",     \* a remote command fails, or its answer is lost
   "restart",     \* a crashed primary that nobody fenced comes back
   "standby",     \* standbys crash and restart
   "slowpromote", \* pg_promote gives up waiting before it is done
   "queryfail",   \* a query of a standby's position fails
   "witness",     \* the witness cannot be reached, or cannot reach others
   "kill",        \* agents are killed
   "signal"}      \* agents get SIGINT or SIGTERM

Primary == 0
Standbys == 1..NumStandbys
Nodes == {Primary} \cup Standbys

ASSUME ClusterAssumption ==
  /\ NumStandbys \in Nat \ {0}
  /\ MaxFailures \in Nat \ {0}
  /\ MaxLSN \in Nat \ {0}
ASSUME TextAssumption == TextRank \in [1..MaxLSN -> 1..MaxLSN]
ASSUME AgentAssumption ==
  /\ DryRun \subseteq Agents
  /\ LeaderSets \subseteq SUBSET Agents /\ LeaderSets # {}
  /\ ElectionEnabled \in BOOLEAN
  /\ WitnessEnabled \in BOOLEAN
  /\ DblinkInstalled \in BOOLEAN
  /\ Faults \subseteq AllFaults

VARIABLES
  up,         \* PostgreSQL runs on the node
  role,       \* "primary": out of recovery
  promoting,  \* the standbys told to promote that are still in recovery
  fenced,     \* a fence command has stopped the primary
  wal,        \* the position up to which each standby has the WAL
  receiving,  \* standbys whose pg_last_wal_receive_lsn() is not null
  leaders,    \* the agents whose IsLeader() is true
  stopping,   \* the agents whose ctx a signal has cancelled
  wpc,        \* where each agent is in RunWatchdog
  fails,      \* consecutiveFailures
  announced,  \* `target` of executeFenceAndPromote; Primary: none yet
  chosen      \* `target` of PromoteStandby; Primary: none yet

walVars == <<wal, receiving>>
dbVars == <<up, role, promoting, fenced, walVars>>
electionVars == <<leaders, stopping>>
agentVars == <<wpc, fails, announced, chosen>>
vars == <<up, role, promoting, fenced, wal, receiving, leaders, stopping, wpc,
          fails, announced, chosen>>

Places == {"down", "watch", "fence", "witness", "select", "reselect",
           "promote", "confirm", "done", "failed"}

TypeOK ==
  /\ up \in [Nodes -> BOOLEAN]
  /\ role \in [Nodes -> {"primary", "standby"}]
  /\ promoting \subseteq Standbys
  /\ fenced \in BOOLEAN
  /\ wal \in [Standbys -> 1..MaxLSN]
  /\ receiving \subseteq Standbys
  /\ leaders \subseteq Agents /\ stopping \subseteq Agents
  /\ wpc \in [Agents -> Places]
  /\ fails \in [Agents -> 0..MaxFailures]
  /\ announced \in [Agents -> Nodes]
  /\ chosen \in [Agents -> Nodes]

Init ==
  /\ up = [n \in Nodes |-> TRUE]
  /\ role = [n \in Nodes |-> IF n = Primary THEN "primary" ELSE "standby"]
  /\ promoting = {} /\ fenced = FALSE
  /\ wal = [s \in Standbys |-> 1] /\ receiving = Standbys
  /\ leaders \in LeaderSets /\ stopping = {}
  /\ wpc = [a \in Agents |-> "down"]
  /\ fails = [a \in Agents |-> 0]
  /\ announced = [a \in Agents |-> Primary]
  /\ chosen = [a \in Agents |-> Primary]

Serves(n) == up[n] /\ role[n] = "primary"

-----------------------------------------------------------------------------
(* The cluster and the election, as the agents meet them.                  *)

PrimaryCrashes ==
  /\ up[Primary]
  /\ up' = [up EXCEPT ![Primary] = FALSE]
  /\ UNCHANGED <<role, promoting, fenced, walVars, electionVars, agentVars>>

(* A primary stopped by a fence command stays stopped.                     *)
PrimaryRestarts ==
  /\ "restart" \in Faults
  /\ ~up[Primary] /\ ~fenced
  /\ up' = [up EXCEPT ![Primary] = TRUE]
  /\ UNCHANGED <<role, promoting, fenced, walVars, electionVars, agentVars>>

MayStream(s) ==
  Serves(Primary) /\ up[s] /\ role[s] = "standby" /\ s \notin promoting

Streams(s) ==
  /\ MayStream(s)
  /\ wal[s] < MaxLSN
  /\ wal' = [wal EXCEPT ![s] = @ + 1]
  /\ receiving' = receiving \cup {s}
  /\ UNCHANGED <<up, role, promoting, fenced, electionVars, agentVars>>

(* A standby that was restarted reaches the primary: nothing is new yet.   *)
Reconnects(s) ==
  /\ MayStream(s)
  /\ s \notin receiving
  /\ receiving' = receiving \cup {s}
  /\ UNCHANGED <<up, role, promoting, fenced, wal, electionVars, agentVars>>

(* A crashed standby keeps its WAL and forgets the rest: its receive       *)
(* position is null until it streams again, an order to promote is gone.   *)
StandbyCrashes(s) ==
  /\ "standby" \in Faults
  /\ up[s]
  /\ up' = [up EXCEPT ![s] = FALSE]
  /\ promoting' = promoting \ {s}
  /\ receiving' = receiving \ {s}
  /\ UNCHANGED <<role, fenced, wal, electionVars, agentVars>>

StandbyRestarts(s) ==
  /\ ~up[s]
  /\ up' = [up EXCEPT ![s] = TRUE]
  /\ UNCHANGED <<role, promoting, fenced, walVars, electionVars, agentVars>>

PromotionFinishes(s) ==
  /\ s \in promoting
  /\ promoting' = promoting \ {s}
  /\ role' = [role EXCEPT ![s] = "primary"]
  /\ UNCHANGED <<up, fenced, walVars, electionVars, agentVars>>

LeadershipMoves ==
  /\ leaders' \in LeaderSets
  /\ leaders' # leaders
  /\ UNCHANGED <<dbVars, stopping, agentVars>>

(* SIGINT or SIGTERM: watchdog and election share the context it cancels.  *)
Signal(a) ==
  /\ "signal" \in Faults
  /\ wpc[a] # "down" /\ a \notin stopping
  /\ stopping' = stopping \cup {a}
  /\ UNCHANGED <<dbVars, leaders, agentVars>>

-----------------------------------------------------------------------------
(* The watch loop.                                                         *)

Goto(a, p) == wpc' = [wpc EXCEPT ![a] = p]

(* `watch` verifies replication before the loop: the primary answers and   *)
(* streams to every standby, each of them in recovery.                     *)
ReplicationVerified ==
  up[Primary] /\ \A s \in Standbys : up[s] /\ role[s] = "standby"

Start(a) ==
  /\ wpc[a] = "down"
  /\ ReplicationVerified
  /\ Goto(a, "watch")
  /\ UNCHANGED <<dbVars, electionVars, fails, announced, chosen>>

(* checkPrimaryHealth succeeds.                                            *)
CheckSucceeds(a) ==
  /\ wpc[a] = "watch" /\ a \notin stopping
  /\ Serves(Primary)
  /\ fails[a] > 0
  /\ fails' = [fails EXCEPT ![a] = 0]
  /\ UNCHANGED <<dbVars, electionVars, wpc, announced, chosen>>

(* checkPrimaryHealth fails: it cannot connect in time, the server is in   *)
(* recovery, or the context has been cancelled.                            *)
CheckFails(a) ==
  /\ wpc[a] = "watch"
  /\ ~Serves(Primary) \/ "partition" \in Faults \/ a \in stopping

(* Mutant of ThresholdReached: off by one.                                 *)
OnePastThreshold(a) == fails[a] + 1 > MaxFailures

ThresholdReached(a) == fails[a] + 1 >= MaxFailures

CountFailure(a) ==
  /\ CheckFails(a)
  /\ ~ThresholdReached(a)
  /\ fails' = [fails EXCEPT ![a] = @ + 1]
  /\ UNCHANGED <<dbVars, electionVars, wpc, announced, chosen>>

(* Mutant of MayFailOver: the leader is the one that stands aside.         *)
LeaderStandsAside(a) == ElectionEnabled => a \notin leaders

MayFailOver(a) == ElectionEnabled => a \in leaders

(* Not the leader, or only a dry run: the count starts again.              *)
StandAside(a) ==
  /\ CheckFails(a)
  /\ ThresholdReached(a)
  /\ ~MayFailOver(a) \/ a \in DryRun
  /\ fails' = [fails EXCEPT ![a] = 0]
  /\ UNCHANGED <<dbVars, electionVars, wpc, announced, chosen>>

(* From here on neither the primary nor leadership is looked at again.     *)
BeginFailover(a) ==
  /\ CheckFails(a)
  /\ ThresholdReached(a)
  /\ MayFailOver(a) /\ a \notin DryRun
  /\ fails' = [fails EXCEPT ![a] = @ + 1]
  /\ Goto(a, "fence")
  /\ UNCHANGED <<dbVars, electionVars, announced, chosen>>

-----------------------------------------------------------------------------
(* executeFenceAndPromote.                                                 *)

StopPrimary == up' = [up EXCEPT ![Primary] = FALSE] /\ fenced' = TRUE

FenceSucceeds(a) ==
  /\ wpc[a] = "fence"
  /\ StopPrimary
  /\ Goto(a, "select")
  /\ UNCHANGED <<role, promoting, walVars, electionVars, fails, announced, chosen>>

(* Mutant of AfterFenceFailure: promote although nothing was fenced.       *)
PromoteAnyway == "select"

(* Where a failed fence leads: to the witness, or to giving up.            *)
AfterFenceFailure == IF WitnessEnabled THEN "witness" ELSE "failed"

(* The fence fails or its answer is lost; PostgreSQL may have stopped.     *)
FenceFails(a) ==
  /\ wpc[a] = "fence"
  /\ "sshfail" \in Faults
  /\ StopPrimary \/ UNCHANGED <<up, fenced>>
  /\ Goto(a, AfterFenceFailure)
  /\ UNCHANGED <<role, promoting, walVars, electionVars, fails, announced, chosen>>

(* Mutant of WitnessReaches: the witness's answer is not read.             *)
WitnessUnread == FALSE

(* dblink from the witness reaches the primary.                            *)
WitnessReaches == DblinkInstalled /\ up[Primary]

(* The dblink query fails, and the witness answers SELECT 1.               *)
WitnessConfirms(a) ==
  /\ wpc[a] = "witness"
  /\ ~WitnessReaches \/ "witness" \in Faults
  /\ Goto(a, "select")
  /\ UNCHANGED <<dbVars, electionVars, fails, announced, chosen>>

(* The witness reaches the primary, or the agent not the witness.          *)
WitnessRefuses(a) ==
  /\ wpc[a] = "witness"
  /\ WitnessReaches \/ "witness" \in Faults
  /\ Goto(a, "failed")
  /\ UNCHANGED <<dbVars, electionVars, fails, announced, chosen>>

(* lsn > best.receiveLSN: the positions are compared as texts.             *)
Ahead(s, t) == TextRank[wal[s]] > TextRank[wal[t]]

(* selectPromotionTarget, the standbys in answered having told their       *)
(* position: the first of those with the highest text, the first standby   *)
(* if nobody has one.  A single standby is not asked.                      *)
Target(answered) ==
  LET known == answered \cap receiving
  IN  IF NumStandbys = 1 \/ known = {} THEN 1
      ELSE CHOOSE s \in known :
             \A t \in known : Ahead(s, t) \/ (~Ahead(t, s) /\ s <= t)

(* The standbys whose position a selection gets to know.                   *)
Answers ==
  LET running == {s \in Standbys : up[s]}
  IN  IF "queryfail" \in Faults THEN SUBSET running ELSE {running}

(* The target that is announced, and given the post-promote command.       *)
Select(a) ==
  /\ wpc[a] = "select"
  /\ \E answered \in Answers :
       announced' = [announced EXCEPT ![a] = Target(answered)]
  /\ Goto(a, "reselect")
  /\ UNCHANGED <<dbVars, electionVars, fails, chosen>>

(* The target that PromoteStandby selects anew.                            *)
Reselect(a) ==
  /\ wpc[a] = "reselect"
  /\ \E answered \in Answers :
       chosen' = [chosen EXCEPT ![a] = Target(answered)]
  /\ Goto(a, "promote")
  /\ UNCHANGED <<dbVars, electionVars, fails, announced>>

(* SELECT pg_promote(...) over SSH: done within the wait, or still running *)
(* when psql exits - with status 0 all the same.                           *)
Promote(a) ==
  LET s == chosen[a]
  IN  /\ wpc[a] = "promote"
      /\ up[s] /\ role[s] = "standby"
      /\ \/ /\ role' = [role EXCEPT ![s] = "primary"]
            /\ promoting' = promoting \ {s}
         \/ /\ "slowpromote" \in Faults
            /\ promoting' = promoting \cup {s}
            /\ UNCHANGED role
      /\ \/ Goto(a, "confirm")
         \/ "sshfail" \in Faults /\ Goto(a, "failed")
      /\ UNCHANGED <<up, fenced, walVars, electionVars, fails, announced, chosen>>

(* runCommands stops at the first command that fails.                      *)
AfterPromoteFailure == "failed"

(* pg_promote cannot run: no server, or recovery is already over.          *)
PromoteFails(a) ==
  /\ wpc[a] = "promote"
  /\ \/ ~up[chosen[a]]
     \/ role[chosen[a]] = "primary"
     \/ "sshfail" \in Faults
  /\ Goto(a, AfterPromoteFailure)
  /\ UNCHANGED <<dbVars, electionVars, fails, announced, chosen>>

(* What the second command must print for the promotion to count: psql     *)
(* exits with 0 whatever SELECT NOT pg_is_in_recovery() returns.           *)
Confirmed(s) == TRUE

(* The second command succeeds: "promotion complete".                      *)
Confirm(a) ==
  /\ wpc[a] = "confirm"
  /\ up[chosen[a]]
  /\ Confirmed(chosen[a])
  /\ Goto(a, "done")
  /\ UNCHANGED <<dbVars, electionVars, fails, announced, chosen>>

ConfirmFails(a) ==
  /\ wpc[a] = "confirm"
  /\ ~up[chosen[a]] \/ "sshfail" \in Faults
  /\ Goto(a, "failed")
  /\ UNCHANGED <<dbVars, electionVars, fails, announced, chosen>>

(* The process ends after the failover, when its loop sees the cancelled   *)
(* context, or by a kill: memory and leadership are gone with it.  A       *)
(* supervisor may start it again.                                          *)
Exit(a) ==
  /\ wpc[a] # "down"
  /\ \/ wpc[a] \in {"done", "failed"}
     \/ wpc[a] = "watch" /\ a \in stopping
     \/ "kill" \in Faults
  /\ Goto(a, "down")
  /\ fails' = [fails EXCEPT ![a] = 0]
  /\ announced' = [announced EXCEPT ![a] = Primary]
  /\ chosen' = [chosen EXCEPT ![a] = Primary]
  /\ leaders' = leaders \ {a} /\ stopping' = stopping \ {a}
  /\ UNCHANGED dbVars

Watches(a) ==
  \/ CheckSucceeds(a) \/ CountFailure(a) \/ StandAside(a) \/ BeginFailover(a)
  \/ FenceSucceeds(a) \/ FenceFails(a)
  \/ WitnessConfirms(a) \/ WitnessRefuses(a)
  \/ Select(a) \/ Reselect(a) \/ Promote(a) \/ PromoteFails(a)
  \/ Confirm(a) \/ ConfirmFails(a)

Next ==
  \/ \E a \in Agents : Start(a) \/ Watches(a) \/ Signal(a) \/ Exit(a)
  \/ \E s \in Standbys : \/ Streams(s) \/ Reconnects(s) \/ StandbyCrashes(s)
                         \/ StandbyRestarts(s) \/ PromotionFinishes(s)
  \/ PrimaryCrashes \/ PrimaryRestarts \/ LeadershipMoves

Spec == Init /\ [][Next]_vars

-----------------------------------------------------------------------------
(* Safety.                                                                 *)

(* watchdog.go:56-59: "Only promote the standby if fencing succeeds": a    *)
(* standby is told to promote only when the primary has stopped, and it    *)
(* stays stopped: no two agents, lost answers or late promotions bring     *)
(* about a promoted standby beside a running primary.                      *)
PromotedMeansPrimaryStopped ==
  (\E s \in Standbys : role[s] = "primary" \/ s \in promoting)
    => ~up[Primary]

(* watchdog.go:54-55: fencing "prevents split-brain": at most one server   *)
(* accepts writes.                                                         *)
NoSplitBrain == Cardinality({n \in Nodes : Serves(n)}) <= 1

(* README.md:47: "`promote` queries each standby's WAL receive position    *)
(* and promotes the most up-to-date one": of the standbys that run and     *)
(* have a position to tell.                                                *)
MostAdvancedChosen ==
  \A a \in Agents, s \in Standbys :
    wpc[a] = "promote" /\ up[s] /\ s \in receiving => wal[s] <= wal[chosen[a]]

-----------------------------------------------------------------------------
(* Why: the inductive invariant.                                           *)

(* The configurations in which a promotion is never begun beside a running *)
(* primary: without a witness, or with one that has dblink, sees what      *)
(* there is and has no primary come back behind its back.                  *)
SafeWitness ==
  WitnessEnabled => /\ DblinkInstalled
                    /\ "witness" \notin Faults /\ "restart" \notin Faults

(* The old primary is never in recovery, and a loop that has reached the   *)
(* threshold is left or starts its count again.                            *)
WatchInv ==
  /\ role[Primary] = "primary"
  /\ \A a \in Agents : wpc[a] \in {"down", "watch"} => fails[a] < MaxFailures

(* The primary has stopped and stays so.                                   *)
Sealed == ~up[Primary] /\ (fenced \/ "restart" \notin Faults)

(* An agent past the fence or the witness, and every promotion begun, has  *)
(* the primary sealed.                                                     *)
SealInv ==
  /\ fenced => ~up[Primary]
  /\ \A a \in Agents :
       /\ wpc[a] \in {"select", "reselect", "promote", "confirm"} => Sealed
       /\ wpc[a] = "witness" => WitnessEnabled
  /\ \A s \in Standbys : role[s] = "primary" \/ s \in promoting => Sealed

IInv == TypeOK /\ WatchInv /\ SealInv

(* Every failover is a fenced one: the primary that has stopped for good   *)
(* never serves again, standbys become primaries only from then on, one    *)
(* after another, and remain so - whatever agents of which elections and   *)
(* whatever restarts of a supervisor it takes.                             *)
Fencing == INSTANCE FencedFailover WITH
             primary <- IF up[Primary] THEN "serving"
                        ELSE IF Sealed THEN "stopped" ELSE "down",
             promoted <- {s \in Standbys : role[s] = "primary"}
ImplementsFencing == Fencing!Spec

-----------------------------------------------------------------------------
(* Progress: every agent's loop runs.  Servers need not crash or recover.  *)
FairSpec == Spec /\ \A a \in Agents : WF_vars(Watches(a))

(* README.md, Watchdog flow: an agent that keeps running and is the leader *)
(* while the primary is down ends its watch, with a standby promoted or    *)
(* with an error; it neither waits for ever nor loses count of the         *)
(* failures for ever, however leadership moved before.                     *)
OutageEnds ==
  \A a \in Agents \ DryRun :
    <>[](~up[Primary] /\ wpc[a] # "down" /\ (ElectionEnabled => a \in leaders))
      => <>(wpc[a] \in {"done", "failed"})
=============================================================================
