---------------------------- MODULE WatchCluster ----------------------------
(***************************************************************************)
(* `watch` processes as a whole: the watchdog of each (Failover) beside    *)
(* its election goroutine (LeaderElection), with everything the two share  *)
(* - the flag that IsLeader() reads, the context a signal cancels and the  *)
(* process they both die with (runWatch, RunWatchdog).                     *)
(*                                                                         *)
(* A step is a step of one component that the other does not notice, or a  *)
(* step of the process that both make.  The watchdog's variables leaders   *)
(* and stopping are not variables here but the election's flag and         *)
(* cancelled, seen from the watchdog.                                      *)
(***************************************************************************)
EXTENDS Integers, FiniteSets

CONSTANTS
  Agents, DryRun, NumStandbys, MaxFailures, MaxLSN, TextRank,
  WitnessEnabled, DblinkInstalled,
  FailoverFaults,     \* Faults of Failover
  NoAgent, LeaseTTL, RenewEvery, AttemptTimeout, MaxSkew, Skew,
  Signalled,          \* bound: the agents that may get a signal
  Crashing,           \* bound: the agents that may crash
  MaxCrashes,         \* bound on the ends of processes, but for signals
  MaxStarts,          \* bound on the starts of processes
  ElectionFaults      \* Faults of LeaderElection

VARIABLES
  up, role, promoting, fenced, wal, receiving, wpc, fails, announced, chosen,
  leaderId, left, lock, ghost, late, undone, dbUp, pc, flag, ticker, fired,
  elapsed, txLeft, cancelled, crashes,
  starts      \* processes started so far

(* What the watchdogs share with each other and with the servers.          *)
watchdogVars == <<up, role, promoting, fenced, wal, receiving, wpc, fails,
                  announced, chosen>>
electionVars == <<leaderId, left, lock, ghost, late, undone, dbUp, pc, flag,
                  ticker, fired, elapsed, txLeft, cancelled, crashes>>
vars == <<watchdogVars, electionVars, starts>>

E == INSTANCE LeaderElection WITH Faults <- ElectionFaults

(* election.IsLeader(), as the watchdog of each agent calls it, and        *)
(* ctx.Done() of the context that the two share.                           *)
Leading == {a \in Agents : E!IsLeader(a)}
Stopping == {a \in Agents : cancelled[a]}

F == INSTANCE Failover WITH
       leaders <- Leading, stopping <- Stopping, LeaderSets <- SUBSET Agents,
       ElectionEnabled <- TRUE, Faults <- FailoverFaults

ASSUME WatchdogAssumption ==
  /\ NumStandbys \in Nat \ {0} /\ MaxFailures \in Nat \ {0}
  /\ MaxLSN \in Nat \ {0} /\ TextRank \in [1..MaxLSN -> 1..MaxLSN]
  /\ DryRun \subseteq Agents
  /\ WitnessEnabled \in BOOLEAN /\ DblinkInstalled \in BOOLEAN
  /\ FailoverFaults \subseteq F!AllFaults
ASSUME ElectionAssumption ==
  /\ NoAgent \notin Agents
  /\ LeaseTTL \in Nat \ {0} /\ RenewEvery \in Nat \ {0}
  /\ AttemptTimeout \in Nat \ {0}
  /\ MaxSkew \in Nat /\ Skew \in [Agents -> -MaxSkew..MaxSkew]
  /\ MaxCrashes \in Nat /\ ElectionFaults \subseteq E!AllFaults

Init ==
  /\ E!Init
  /\ F!Init
  /\ starts = 0

-----------------------------------------------------------------------------
(* The process.                                                            *)

(* The checks of runWatch pass: RunWatchdog starts the election goroutine  *)
(* and enters its loop.                                                    *)
ProcessStarts(a) ==
  /\ starts < MaxStarts /\ starts' = starts + 1
  /\ E!Start(a)
  /\ F!Start(a)

(* The signal handler cancels the context of both.                         *)
ContextCancelled(a) ==
  E!Signal(a) /\ F!Signal(a) /\ UNCHANGED starts

(* RunWatchdog returns the context's error and main does not wait for the  *)
(* goroutine: it may not have released the lease yet.                      *)
StopsOnSignal(a) ==
  /\ wpc[a] = "watch"
  /\ E!Exit(a)
  /\ F!Exit(a)
  /\ UNCHANGED starts

(* The failover is over, or the process is killed: the lease is not        *)
(* released.                                                               *)
ProcessEnds(a) == E!Crash(a) /\ F!Exit(a) /\ UNCHANGED starts

-----------------------------------------------------------------------------
(* Steps of one component.                                                 *)

ElectionStep ==
  /\ E!GhostEnds \/ E!DbStops \/ E!DbStarts \/ E!Tick
       \/ \E a \in Agents : E!Loops(a) \/ E!LateRelease(a)
  /\ UNCHANGED <<watchdogVars, starts>>

ServerStep ==
  \/ \E s \in F!Standbys : \/ F!Streams(s) \/ F!Reconnects(s)
                           \/ F!StandbyCrashes(s) \/ F!StandbyRestarts(s)
                           \/ F!PromotionFinishes(s)
  \/ F!PrimaryCrashes \/ F!PrimaryRestarts

WatchdogStep ==
  /\ UNCHANGED <<electionVars, starts>>
  /\ ServerStep \/ \E a \in Agents : F!Watches(a)

Next ==
  \/ \E a \in Agents : \/ ProcessStarts(a) \/ ContextCancelled(a)
                       \/ StopsOnSignal(a) \/ ProcessEnds(a)
  \/ ElectionStep \/ WatchdogStep

Spec == Init /\ [][Next]_vars

-----------------------------------------------------------------------------
(* Both components' fairness, as far as it is needed: the loops of the     *)
(* agents that act go on.                                                  *)
Fairness ==
  /\ WF_vars(UNCHANGED <<watchdogVars, starts>> /\ E!Tick)
  /\ WF_vars(UNCHANGED <<watchdogVars, starts>> /\ E!GhostEnds)
  /\ \A a \in Agents \ DryRun :
       /\ WF_vars(UNCHANGED <<watchdogVars, starts>> /\ E!Loops(a))
       /\ WF_vars(UNCHANGED <<electionVars, starts>> /\ F!Watches(a))

FairSpec == Spec /\ Fairness

(* README.md:45: "Only the leader triggers failover".  The watchdog reads  *)
(* IsLeader() once, when it has counted enough failures, and never looks   *)
(* at the row; what it reads is as old as the last attempt.  Still, an     *)
(* agent that fails over because an attempt of its own wrote the row owns  *)
(* the lease at that moment, and no other agent could take it: renewals    *)
(* that wait or fail, signals, crashes and the lease running out never     *)
(* make the watchdog act on a lease that has passed on.                    *)
FailsOver(a) == wpc[a] = "watch" /\ wpc'[a] = "fence"
OwnLease(a) == leaderId = a /\ \A b \in Agents : left > Skew[b]
TriggersOnOwnLease ==
  [][\A a \in E!Held : FailsOver(a) => OwnLease(a)]_vars

(* An agent whose election goroutine runs and which no signal stops.       *)
Campaigning(a) == pc[a] \in E!Looping /\ ~cancelled[a]

(* README.md:45: "If the leader stops heartbeating, another agent takes    *)
(* over after the lease TTL expires."  Whatever agents did before - lead,  *)
(* crash in the middle of a renewal, stop on a signal without releasing    *)
(* the lease, lose the database - the agent that is left fails over, even  *)
(* when the others stopped in the middle of their own failover.            *)
SurvivorFailsOver ==
  \A a \in Agents \ DryRun :
    <>[](/\ ~up[F!Primary] /\ dbUp /\ Campaigning(a)
         /\ \A b \in Agents \ {a} : wpc[b] = "down")
      => <>(wpc[a] \in {"done", "failed"})
=============================================================================
