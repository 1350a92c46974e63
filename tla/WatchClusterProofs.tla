------------------------- MODULE WatchClusterProofs -------------------------
(***************************************************************************)
(* Proofs about WatchCluster: what is proved of the two components holds   *)
(* of the processes made of them, and a watchdog acts on the lease.        *)
(***************************************************************************)
EXTENDS WatchCluster, TLAPS

(* A step of the election goroutines cancels no context, and to the        *)
(* watchdogs it is leadership that moves, or nothing.                      *)
LEMMA ElectionMovesLeadership ==
  ASSUME ElectionStep
  PROVE  [F!Next]_F!vars
<1>1. UNCHANGED watchdogVars
  BY DEF ElectionStep
<1>2. UNCHANGED cancelled
  <2>1. CASE E!GhostEnds \/ E!DbStops \/ E!DbStarts \/ E!Tick
    BY <2>1 DEF E!GhostEnds, E!DbStops, E!DbStarts, E!Tick
  <2>2. CASE \E a \in Agents : E!Loops(a) \/ E!LateRelease(a)
    BY <2>2 DEF E!Loops, E!CreateTable, E!CreateTableFails, E!StartAttempt,
                E!BeginTx, E!LockRow, E!MissRow, E!InsertRow, E!SkipInsert,
                E!Renew, E!Takeover, E!Defer, E!CommitRow, E!Reply,
                E!AttemptFails, E!SeeCancel, E!Release, E!LateRelease
  <2> QED
    BY <2>1, <2>2 DEF ElectionStep
<1>3. UNCHANGED Stopping /\ Leading' \in SUBSET Agents
  BY <1>2 DEF Stopping, Leading
<1>4. CASE Leading' = Leading
  BY <1>1, <1>3, <1>4 DEF watchdogVars, F!vars
<1>5. CASE Leading' # Leading
  <2>1. F!LeadershipMoves
    BY <1>1, <1>3, <1>5
       DEF watchdogVars, F!LeadershipMoves, F!dbVars, F!walVars, F!agentVars
  <2> QED
    BY <2>1 DEF F!Next
<1> QED
  BY <1>4, <1>5

LEMMA NextImplementsFailover == [Next]_vars => [F!Next]_F!vars
<1>1. ASSUME NEW a \in Agents,
             \/ ProcessStarts(a) \/ ContextCancelled(a)
             \/ StopsOnSignal(a) \/ ProcessEnds(a)
      PROVE  F!Next
  BY <1>1 DEF ProcessStarts, ContextCancelled, StopsOnSignal, ProcessEnds,
              F!Next
<1>2. CASE WatchdogStep
  BY <1>2 DEF WatchdogStep, ServerStep, F!Next
<1>3. CASE UNCHANGED vars
  BY <1>3 DEF vars, watchdogVars, electionVars, Leading, Stopping, E!IsLeader,
              F!vars
<1> QED
  BY <1>1, <1>2, <1>3, ElectionMovesLeadership DEF Next

(* Failover's theorems are about leadership that moves at will, so they    *)
(* are about the real election too.                                        *)
LEMMA ClusterIsOfFailover == Spec => F!Spec
<1>1. Init => F!Init
  BY DEF Init
<1> QED
  BY <1>1, NextImplementsFailover, PTL DEF Spec, F!Spec

-----------------------------------------------------------------------------
LEMMA NextImplementsElection == [Next]_vars => [E!Next]_E!vars
<1>1. ASSUME NEW a \in Agents,
             \/ ProcessStarts(a) \/ ContextCancelled(a)
             \/ StopsOnSignal(a) \/ ProcessEnds(a)
      PROVE  E!Next
  BY <1>1 DEF ProcessStarts, ContextCancelled, StopsOnSignal, ProcessEnds,
              E!Next, E!AgentStep
<1>2. CASE ElectionStep
  BY <1>2 DEF ElectionStep, E!Next, E!AgentStep, E!Loops
<1>3. CASE WatchdogStep \/ UNCHANGED vars
  BY <1>3 DEF WatchdogStep, vars, electionVars, E!vars
<1> QED
  BY <1>1, <1>2, <1>3 DEF Next

LEMMA ClusterIsOfElection == Spec => E!Spec
<1>1. Init => E!Init
  BY DEF Init
<1> QED
  BY <1>1, NextImplementsElection, PTL DEF Spec, E!Spec

-----------------------------------------------------------------------------
(* What is proved of the components holds of the process.  The theorems of *)
(* FailoverProofs and LeaderElectionProofs come with operators of their    *)
(* own, FP!Next for F!Next; that these mean the same has to be said once.  *)
FP == INSTANCE FailoverProofs WITH
        leaders <- Leading, stopping <- Stopping, LeaderSets <- SUBSET Agents,
        ElectionEnabled <- TRUE, Faults <- FailoverFaults
EP == INSTANCE LeaderElectionProofs WITH Faults <- ElectionFaults

LEMMA FailoverAssumed ==
  FP!ClusterAssumption /\ FP!TextAssumption /\ FP!AgentAssumption
  BY WatchdogAssumption DEF FP!AllFaults, F!AllFaults

LEMMA ElectionAssumed ==
  EP!AgentsAssumption /\ EP!TimeAssumption /\ EP!FaultAssumption
  BY ElectionAssumption DEF EP!AllFaults, E!AllFaults

LEMMA SameFailover ==
  /\ (F!Init <=> FP!Init)
  /\ ([F!Next]_F!vars <=> [FP!Next]_FP!vars)
<1> USE DEF
     F!Primary, FP!Primary, F!Standbys, FP!Standbys, F!Nodes, FP!Nodes,
     F!Serves, FP!Serves, F!MayStream, FP!MayStream, F!Goto, FP!Goto,
     F!walVars, FP!walVars, F!dbVars, FP!dbVars, F!electionVars,
     FP!electionVars, F!agentVars, FP!agentVars
<1>1. F!Init <=> FP!Init
  BY DEF F!Init, FP!Init
<1>2. \A s : /\ (F!Streams(s) <=> FP!Streams(s))
             /\ (F!Reconnects(s) <=> FP!Reconnects(s))
             /\ (F!StandbyCrashes(s) <=> FP!StandbyCrashes(s))
             /\ (F!StandbyRestarts(s) <=> FP!StandbyRestarts(s))
             /\ (F!PromotionFinishes(s) <=> FP!PromotionFinishes(s))
  BY DEF F!Streams, FP!Streams, F!Reconnects, FP!Reconnects, F!StandbyCrashes,
         FP!StandbyCrashes, F!StandbyRestarts, FP!StandbyRestarts,
         F!PromotionFinishes, FP!PromotionFinishes
<1>3. /\ (F!PrimaryCrashes <=> FP!PrimaryCrashes)
      /\ (F!PrimaryRestarts <=> FP!PrimaryRestarts)
      /\ (F!LeadershipMoves <=> FP!LeadershipMoves)
      /\ (UNCHANGED F!vars <=> UNCHANGED FP!vars)
  BY DEF F!PrimaryCrashes, FP!PrimaryCrashes, F!PrimaryRestarts,
         FP!PrimaryRestarts, F!LeadershipMoves, FP!LeadershipMoves, F!vars,
         FP!vars
<1>4. \A a : /\ (F!Start(a) <=> FP!Start(a))
             /\ (F!Signal(a) <=> FP!Signal(a))
             /\ (F!Exit(a) <=> FP!Exit(a))
  BY DEF F!Start, FP!Start, F!ReplicationVerified, FP!ReplicationVerified,
         F!Signal, FP!Signal, F!Exit, FP!Exit
<1>5. \A a : F!Watches(a) <=> FP!Watches(a)
  BY DEF F!Watches, FP!Watches, F!CheckSucceeds, FP!CheckSucceeds,
         F!CheckFails, FP!CheckFails, F!ThresholdReached, FP!ThresholdReached,
         F!CountFailure, FP!CountFailure, F!MayFailOver, FP!MayFailOver,
         F!StandAside, FP!StandAside, F!BeginFailover, FP!BeginFailover,
         F!StopPrimary, FP!StopPrimary, F!FenceSucceeds, FP!FenceSucceeds,
         F!AfterFenceFailure, FP!AfterFenceFailure, F!FenceFails,
         FP!FenceFails, F!WitnessReaches, FP!WitnessReaches, F!WitnessConfirms,
         FP!WitnessConfirms, F!WitnessRefuses, FP!WitnessRefuses, F!Ahead,
         FP!Ahead, F!Target, FP!Target, F!Answers, FP!Answers, F!Select,
         FP!Select, F!Reselect, FP!Reselect, F!Promote, FP!Promote,
         F!AfterPromoteFailure, FP!AfterPromoteFailure, F!PromoteFails,
         FP!PromoteFails, F!Confirmed, FP!Confirmed, F!Confirm, FP!Confirm,
         F!ConfirmFails, FP!ConfirmFails
<1> QED
  BY <1>1, <1>2, <1>3, <1>4, <1>5 DEF F!Next, FP!Next

LEMMA ClusterIsFailover == Spec => FP!Spec
  BY ClusterIsOfFailover, SameFailover, PTL DEF F!Spec, FP!Spec

LEMMA SameElection ==
  /\ (E!Init <=> EP!Init)
  /\ ([E!Next]_E!vars <=> [EP!Next]_EP!vars)
<1> USE DEF
     E!Floor, EP!Floor, E!NoGhost, EP!NoGhost, E!Attempting, EP!Attempting,
     E!Looping, EP!Looping, E!RowLocked, EP!RowLocked, E!WritePending,
     EP!WritePending, E!LeaveTx, EP!LeaveTx, E!EndAttempt, EP!EndAttempt,
     E!rowVars, EP!rowVars, E!txVars, EP!txVars, E!clockVars, EP!clockVars,
     E!lateVars, EP!lateVars, E!LeaveRelease, EP!LeaveRelease,
     E!ReleasedLease, EP!ReleasedLease, E!OwnsRow, EP!OwnsRow
<1>1. E!Init <=> EP!Init
  BY DEF E!Init, EP!Init
<1>2. /\ (E!GhostEnds <=> EP!GhostEnds)
      /\ (E!DbStops <=> EP!DbStops)
      /\ (E!DbStarts <=> EP!DbStarts)
      /\ (E!Tick <=> EP!Tick)
      /\ (UNCHANGED E!vars <=> UNCHANGED EP!vars)
  BY DEF E!GhostEnds, EP!GhostEnds, E!DbStops, EP!DbStops, E!DbStarts,
         EP!DbStarts, E!Tick, EP!Tick, E!Due, EP!Due, E!Fade, EP!Fade, E!vars,
         EP!vars
<1>3. \A a : E!AgentStep(a) <=> EP!AgentStep(a)
  BY DEF E!AgentStep, EP!AgentStep, E!Start, EP!Start, E!CreateTable,
         EP!CreateTable, E!CreateTableFails, EP!CreateTableFails,
         E!StartAttempt, EP!StartAttempt, E!BeginTx, EP!BeginTx, E!LockRow,
         EP!LockRow, E!MissRow, EP!MissRow, E!InsertRow, EP!InsertRow,
         E!SkipInsert, EP!SkipInsert, E!Renew, EP!Renew, E!Takeover,
         EP!Takeover, E!LeaseExpired, EP!LeaseExpired, E!Defer, EP!Defer,
         E!WrittenLease, EP!WrittenLease, E!CommitRow, EP!CommitRow, E!Reply,
         EP!Reply, E!FlagAfterFailure, EP!FlagAfterFailure, E!InsertWaits,
         EP!InsertWaits, E!AttemptFails, EP!AttemptFails, E!Signal, EP!Signal,
         E!SeeCancel, EP!SeeCancel, E!Release, EP!Release, E!Vanish,
         EP!Vanish, E!Exit, EP!Exit, E!Crash, EP!Crash
<1>4. \A a : E!LateRelease(a) <=> EP!LateRelease(a)
  BY DEF E!LateRelease, EP!LateRelease
<1> QED
  BY <1>1, <1>2, <1>3, <1>4 DEF E!Next, EP!Next

LEMMA ClusterIsElection == Spec => EP!Spec
  BY ClusterIsOfElection, SameElection, PTL DEF E!Spec, EP!Spec

(* No process of the cluster promotes a standby, or tells it to, beside a  *)
(* primary that runs, whatever its election does: two agents that lead, a  *)
(* leadership lost between fence and promotion, an agent that stops on a   *)
(* signal or is killed halfway (watchdog.go:56-59).                        *)
THEOREM ClusterPromotesFenced ==
  ASSUME F!SafeWitness PROVE Spec => []F!PromotedMeansPrimaryStopped
<1>1. FP!SafeWitness
  BY DEF F!SafeWitness, FP!SafeWitness
<1>2. FP!Spec => []FP!PromotedMeansPrimaryStopped
  BY <1>1, FailoverAssumed, FP!NoPromotionBesidePrimary
<1>3. FP!PromotedMeansPrimaryStopped <=> F!PromotedMeansPrimaryStopped
  BY DEF FP!PromotedMeansPrimaryStopped, F!PromotedMeansPrimaryStopped,
         FP!Standbys, F!Standbys, FP!Primary, F!Primary
<1> QED
  BY <1>2, <1>3, ClusterIsFailover, PTL

(* One process that acts, with any number of dry runs beside it, never     *)
(* brings about two servers that accept writes, however many standbys      *)
(* there are and however leadership moves.                                 *)
THEOREM ClusterOneAgentSafe ==
  ASSUME F!SafeWitness, \A a, b \in Agents \ DryRun : a = b
  PROVE  Spec => []F!NoSplitBrain
<1>1. FP!SafeWitness /\ FP!OneActs
  BY DEF F!SafeWitness, FP!SafeWitness, FP!OneActs
<1>2. FP!Spec => []FP!NoSplitBrain
  BY <1>1, FailoverAssumed, FP!OneAgentNoSplitBrain
<1>3. FP!NoSplitBrain <=> F!NoSplitBrain
  BY DEF FP!NoSplitBrain, F!NoSplitBrain, FP!Serves, F!Serves,
         FP!Nodes, F!Nodes, FP!Standbys, F!Standbys, FP!Primary, F!Primary,
         FP!Cardinality, F!Cardinality
<1> QED
  BY <1>2, <1>3, ClusterIsFailover, PTL

(* In the process, too, an agent whose last attempt wrote the row owns the *)
(* lease, on every clock (election.go:50): the processes that end in the   *)
(* middle of an attempt, and the watchdogs that return before the election *)
(* has released its lease, do not break it.                                *)
THEOREM ClusterHeldLease ==
  ASSUME E!SafeTiming PROVE Spec => []E!HeldMeansLease
<1>1. EP!SafeTiming
  BY DEF E!SafeTiming, EP!SafeTiming
<1>2. EP!Spec => []EP!HeldMeansLease
  BY <1>1, ElectionAssumed, EP!HeldLease
<1>3. EP!HeldMeansLease <=> E!HeldMeansLease
  BY DEF EP!HeldMeansLease, E!HeldMeansLease, EP!Held, E!Held
<1> QED
  BY <1>2, <1>3, ClusterIsElection, PTL

(* A watchdog that fails over because an attempt of its own wrote the row  *)
(* owns the lease when it begins, and on no agent's clock is that lease    *)
(* over (watchdog.go:147, README.md:45): the flag it reads, which has no   *)
(* expiry, is never older than the lease.                                  *)
THEOREM ClusterTriggersOnOwnLease ==
  ASSUME E!SafeTiming PROVE Spec => TriggersOnOwnLease
<1>1. ASSUME E!HeldMeansLease, E!TypeOK, NEW a \in E!Held PROVE OwnLease(a)
  <2>1. left \in Int
    BY <1>1, ElectionAssumption DEF E!TypeOK, E!Floor
  <2> QED
    BY <1>1, <2>1, ElectionAssumption DEF E!HeldMeansLease, OwnLease
<1>2. E!HeldMeansLease /\ E!TypeOK
        => [\A a \in E!Held : FailsOver(a) => OwnLease(a)]_vars
  BY <1>1
<1>3. Spec => []E!TypeOK
  <2>1. EP!Spec => []EP!TypeOK
    BY ElectionAssumed, EP!TypeCorrect
  <2>2. EP!TypeOK <=> E!TypeOK
    BY DEF EP!TypeOK, E!TypeOK, EP!Floor, E!Floor, EP!Ghosts, E!Ghosts,
           EP!Places, E!Places, EP!Attempting, E!Attempting
  <2> QED
    BY <2>1, <2>2, ClusterIsElection, PTL
<1> QED
  BY <1>2, <1>3, ClusterHeldLease, PTL DEF TriggersOnOwnLease
=============================================================================
