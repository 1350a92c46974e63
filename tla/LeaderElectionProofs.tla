------------------------ MODULE LeaderElectionProofs ------------------------
(***************************************************************************)
(* Proofs about LeaderElection for any number of agents and any timing:    *)
(* type correctness always, and the safety of the lease under SafeTiming.  *)
(***************************************************************************)
EXTENDS LeaderElection, TLAPS

USE AgentsAssumption, TimeAssumption, FaultAssumption DEF lateVars

(* The cases of Next, once for every proof below.                          *)
LEMMA FloorType == Floor \in Int /\ Floor < 0 /\ Floor <= -1 - MaxSkew
  BY DEF Floor

(* Fade lowers a lease by at most one unit and stays above Floor.          *)
LEMMA FadeType ==
  ASSUME NEW n \in Floor..LeaseTTL
  PROVE  /\ Fade(n) \in Floor..LeaseTTL
         /\ Fade(n) <= n
         /\ Fade(n) >= n - 1
         /\ n > Floor => Fade(n) = n - 1
  BY FloorType DEF Fade

LEMMA InitType == Init => TypeOK
  BY FloorType DEF Init, TypeOK, Places, Ghosts, NoGhost, Attempting

LEMMA GhostType ==
  /\ NoGhost \in Ghosts
  /\ \A g \in Ghosts : /\ g.id \in Agents \cup {NoAgent}
                       /\ g.left \in Floor..LeaseTTL
                       /\ g.writes \in BOOLEAN
  BY FloorType DEF NoGhost, Ghosts

(* Late releases are the agents' own.                                      *)
LEMMA LeaveReleaseType ==
  ASSUME TypeOK, NEW a \in Agents, LeaveRelease(a)
  PROVE  late' \subseteq Agents
  BY DEF TypeOK, LeaveRelease

(* What LeaveTx does to the row's lock and to the lingering transaction.   *)
LEMMA LeaveTxType ==
  ASSUME TypeOK, NEW a \in Agents, LeaveTx(a)
  PROVE  lock' \in Agents \cup {NoAgent} /\ ghost' \in Ghosts
<1> DEFINE g == [id |-> a, writes |-> pc[a] = "commit", left |-> txLeft[a]]
<1>1. txLeft[a] \in Floor..LeaseTTL
  BY DEF TypeOK
<1>2. (pc[a] = "commit") \in BOOLEAN
  OBVIOUS
<1>3. g \in Ghosts
  BY <1>1, <1>2, Zenon DEF Ghosts
<1>4. NoGhost \in Ghosts
  BY GhostType
<1>5. CASE lock = a
  <2>1. lock' = NoAgent /\ ghost' \in {NoGhost, g}
    BY <1>5 DEF LeaveTx
  <2> HIDE DEF g
  <2> QED
    BY <2>1, <1>3, <1>4
<1>6. CASE lock # a
  BY <1>6 DEF LeaveTx, TypeOK, txVars
<1> QED
  BY <1>5, <1>6

LEMMA EndAttemptType ==
  ASSUME TypeOK, NEW a \in Agents,
         NEW v \in {"off", "held", "skipped"}, EndAttempt(a, v)
  PROVE  /\ pc' \in [Agents -> Places]
         /\ flag' \in [Agents -> {"off", "held", "skipped"}]
         /\ ticker' \in [Agents -> 1..RenewEvery]
         /\ fired' \in [Agents -> BOOLEAN]
         /\ elapsed' \in [Agents -> 0..AttemptTimeout]
         /\ txLeft' \in [Agents -> Floor..LeaseTTL]
  BY FloorType DEF TypeOK, EndAttempt, Places

LEMMA VanishType ==
  ASSUME TypeOK, NEW a \in Agents, Vanish(a), crashes' \in 0..MaxCrashes
  PROVE  TypeOK'
<1>1. /\ pc' \in [Agents -> Places]
      /\ flag' \in [Agents -> {"off", "held", "skipped"}]
      /\ ticker' \in [Agents -> 1..RenewEvery]
      /\ fired' \in [Agents -> BOOLEAN]
  BY DEF TypeOK, Vanish, Places
<1>2. /\ elapsed' \in [Agents -> 0..AttemptTimeout]
      /\ txLeft' \in [Agents -> Floor..LeaseTTL]
      /\ cancelled' \in [Agents -> BOOLEAN]
  BY FloorType DEF TypeOK, Vanish
<1>3. lock' \in Agents \cup {NoAgent} /\ ghost' \in Ghosts
  BY LeaveTxType DEF Vanish
<1> QED
  BY <1>1, <1>2, <1>3, LeaveReleaseType DEF TypeOK, Vanish, rowVars

LEMMA NextType == TypeOK /\ [Next]_vars => TypeOK'
<1> SUFFICES ASSUME TypeOK, [Next]_vars PROVE TypeOK'
  OBVIOUS
<1> USE FloorType
<1>1. ASSUME NEW a \in Agents, AgentStep(a) PROVE TypeOK'
  <2>1. CASE Start(a) \/ CreateTable(a) \/ CreateTableFails(a)
    BY <2>1 DEF TypeOK, Start, CreateTable, CreateTableFails, Places,
                Attempting, rowVars, txVars, clockVars
  <2>2. CASE StartAttempt(a)
    BY <2>2 DEF TypeOK, StartAttempt, Places, Attempting, rowVars, txVars
  <2>3. CASE BeginTx(a) \/ MissRow(a) \/ Renew(a) \/ Takeover(a)
    BY <2>3 DEF TypeOK, BeginTx, MissRow, Renew, Takeover, Places,
                Attempting, rowVars, txVars, clockVars
  <2>4. CASE LockRow(a) \/ InsertRow(a)
    BY <2>4 DEF TypeOK, LockRow, InsertRow, Places, Attempting,
                rowVars, clockVars
  <2>5. CASE SkipInsert(a) \/ Reply(a)
    BY <2>5, EndAttemptType DEF TypeOK, SkipInsert, Reply, rowVars, txVars
  <2>6. CASE Defer(a) \/ AttemptFails(a)
    BY <2>6, EndAttemptType, LeaveTxType
       DEF TypeOK, Defer, AttemptFails, FlagAfterFailure, rowVars
  <2>7. CASE CommitRow(a)
    BY <2>7 DEF TypeOK, CommitRow, WrittenLease, Places, Attempting, clockVars
  <2>8. CASE Signal(a)
    BY <2>8 DEF TypeOK, Signal, rowVars, txVars, clockVars
  <2>9. CASE SeeCancel(a)
    BY <2>9 DEF TypeOK, SeeCancel, Places, rowVars, txVars, clockVars
  <2>10. CASE Release(a)
    BY <2>10, LeaveReleaseType
       DEF TypeOK, Release, OwnsRow, ReleasedLease, Places, txVars, clockVars
  <2>11. CASE Exit(a) \/ Crash(a)
    <3>1. Vanish(a)
      BY <2>11 DEF Exit, Crash
    <3>2. crashes' \in 0..MaxCrashes
      BY <2>11 DEF TypeOK, Exit, Crash
    <3> QED
      BY <3>1, <3>2, VanishType
  <2> QED
    BY <1>1, <2>1, <2>2, <2>3, <2>4, <2>5, <2>6, <2>7, <2>8, <2>9, <2>10,
       <2>11 DEF AgentStep
<1>2. CASE GhostEnds
  BY <1>2, GhostType DEF TypeOK, GhostEnds, rowVars, clockVars
<1>3. CASE DbStops \/ DbStarts
  BY <1>3, GhostType
     DEF TypeOK, DbStops, DbStarts, rowVars, txVars, clockVars
<1>4. CASE Tick
  <2>1. /\ leaderId' \in Agents \cup {NoAgent} /\ left' \in Floor..LeaseTTL
        /\ lock' \in Agents \cup {NoAgent}
    BY <1>4, FadeType DEF TypeOK, Tick
  <2>2. ghost' \in Ghosts
    BY <1>4, FadeType DEF TypeOK, Tick, Ghosts
  <2>3. ticker' \in [Agents -> 1..RenewEvery] /\ fired' \in [Agents -> BOOLEAN]
    BY <1>4 DEF TypeOK, Tick
  <2>4. elapsed' \in [Agents -> 0..AttemptTimeout]
    BY <1>4 DEF TypeOK, Tick, Due
  <2>5. txLeft' \in [Agents -> Floor..LeaseTTL]
    BY <1>4, FadeType DEF TypeOK, Tick
  <2> QED
    BY <1>4, <2>1, <2>2, <2>3, <2>4, <2>5 DEF TypeOK, Tick
<1>5. CASE UNCHANGED vars
  BY <1>5 DEF TypeOK, vars
<1>6. ASSUME NEW a \in Agents, LateRelease(a) PROVE TypeOK'
  BY <1>6 DEF TypeOK, LateRelease, ReleasedLease, txVars, clockVars
<1> QED
  BY <1>1, <1>2, <1>3, <1>4, <1>5, <1>6 DEF Next

(* Every variable keeps its type, whatever the timing.                     *)
THEOREM TypeCorrect == Spec => []TypeOK
<1>1. Init => TypeOK
  BY InitType
<1>2. TypeOK /\ [Next]_vars => TypeOK'
  BY NextType
<1> QED
  BY <1>1, <1>2, PTL DEF Spec

-----------------------------------------------------------------------------
(* The inductive invariant under SafeTiming.                               *)

LEMMA InitInv == Init => IInv
  BY InitType
     DEF Init, IInv, TypeOK, LockInv, WriteInv, AgeInv, HeldInv, NoGhost,
         MayWrite, Attempting, Looping, Floor

(* An attempt that gives up its transaction keeps WriteInv: what lingers   *)
(* in the database is the write it had prepared.                           *)
LEMMA LeaveWriteInv ==
  ASSUME IInv, NEW a \in Agents, LeaveTx(a), UNCHANGED rowVars,
         txLeft' = [txLeft EXCEPT ![a] = LeaseTTL],
         NEW p \in Places \ {"commit"}, pc' = [pc EXCEPT ![a] = p]
  PROVE  WriteInv'
<1> USE DEF IInv, TypeOK
<1>1. \A b \in Agents : txLeft'[b] \in Floor..LeaseTTL /\ txLeft[b] <= txLeft'[b]
  BY FloorType
<1>2. \A b \in Agents : leaderId' = b => left' <= txLeft'[b]
  BY <1>1, FloorType DEF WriteInv, rowVars
<1>3. \A b \in Agents :
        lock' = b /\ pc'[b] = "commit"
          => MayWrite(b)' /\ left' <= txLeft'[b]
  <2>1. \A b \in Agents :
          lock' = b /\ pc'[b] = "commit" => lock = b /\ b # a
    BY DEF LeaveTx, txVars
  <2> QED
    BY <2>1 DEF WriteInv, MayWrite, rowVars
<1>4. CASE UNCHANGED ghost \/ ghost' = NoGhost
  <2>1. ghost'.writes => MayWrite(ghost.id)' /\ left' <= ghost'.left
    BY <1>4 DEF WriteInv, MayWrite, rowVars, NoGhost
  <2>2. \A b \in Agents : ghost'.id = b => ghost'.left <= txLeft'[b]
    BY <1>1, <1>4, GhostType, FloorType DEF WriteInv, NoGhost
  <2> QED
    BY <1>2, <1>3, <2>1, <2>2 DEF WriteInv, MayWrite
<1>5. CASE lock = a /\ ghost' = [id |-> a, writes |-> pc[a] = "commit",
                                left |-> txLeft[a]]
  <2>1. ghost'.id = a /\ ghost'.left = txLeft[a]
    BY <1>5
  <2>2. ghost'.writes => pc[a] = "commit"
    BY <1>5, Zenon
  <2>3. ghost'.writes => MayWrite(ghost.id)' /\ left' <= ghost'.left
    BY <1>5, <2>1, <2>2 DEF WriteInv, MayWrite, rowVars
  <2>4. \A b \in Agents : ghost'.id = b => ghost'.left <= txLeft'[b]
    BY <1>1, <2>1
  <2> QED
    BY <1>2, <1>3, <2>3, <2>4 DEF WriteInv, MayWrite
<1> QED
  BY <1>4, <1>5 DEF LeaveTx, txVars

LEMMA StepInv ==
  ASSUME SafeTiming, IInv, NEW a \in Agents, AgentStep(a), TypeOK'
  PROVE  LockInv' /\ WriteInv' /\ AgeInv' /\ HeldInv'
<1> USE FloorType DEF IInv, LockInv, WriteInv, AgeInv, HeldInv, MayWrite,
                      Attempting, Looping
<1>1. CASE Start(a) \/ CreateTable(a) \/ CreateTableFails(a)
  <2>1. LockInv'
    BY <1>1 DEF TypeOK, Start, CreateTable, CreateTableFails, rowVars,
             txVars, clockVars
  <2>2. WriteInv'
    BY <1>1 DEF TypeOK, Start, CreateTable, CreateTableFails, rowVars,
             txVars, clockVars
  <2>3. AgeInv'
    BY <1>1 DEF TypeOK, Start, CreateTable, CreateTableFails, rowVars,
             txVars, clockVars
  <2>4. HeldInv'
    BY <1>1 DEF TypeOK, Start, CreateTable, CreateTableFails, rowVars,
             txVars, clockVars
  <2> QED
    BY <2>1, <2>2, <2>3, <2>4
<1>2. CASE StartAttempt(a)
  <2>1. LockInv'
    BY <1>2 DEF TypeOK, StartAttempt, rowVars, txVars
  <2>2. WriteInv'
    BY <1>2 DEF TypeOK, StartAttempt, rowVars, txVars
  <2>3. AgeInv'
    BY <1>2 DEF TypeOK, StartAttempt, rowVars, txVars
  <2>4. HeldInv'
    BY <1>2 DEF TypeOK, StartAttempt, rowVars, txVars
  <2> QED
    BY <2>1, <2>2, <2>3, <2>4
<1>3. CASE BeginTx(a)
  <2>1. LockInv'
    BY <1>3 DEF TypeOK, BeginTx, rowVars, txVars, clockVars
  <2>2. WriteInv'
    BY <1>3 DEF TypeOK, BeginTx, rowVars, txVars, clockVars
  <2>3. AgeInv'
    BY <1>3 DEF TypeOK, BeginTx, rowVars, txVars, clockVars
  <2>4. HeldInv'
    BY <1>3 DEF TypeOK, BeginTx, rowVars, txVars, clockVars
  <2> QED
    BY <2>1, <2>2, <2>3, <2>4
<1>4. CASE LockRow(a)
  <2>1. LockInv'
    BY <1>4 DEF TypeOK, LockRow, RowLocked, rowVars, clockVars
  <2>2. WriteInv'
    BY <1>4 DEF TypeOK, LockRow, RowLocked, rowVars, clockVars
  <2>3. AgeInv'
    BY <1>4 DEF TypeOK, LockRow, RowLocked, rowVars, clockVars
  <2>4. HeldInv'
    BY <1>4 DEF TypeOK, LockRow, RowLocked, rowVars, clockVars
  <2> QED
    BY <2>1, <2>2, <2>3, <2>4
<1>5. CASE MissRow(a)
  <2>1. LockInv'
    BY <1>5 DEF TypeOK, MissRow, rowVars, txVars, clockVars
  <2>2. WriteInv'
    BY <1>5 DEF TypeOK, MissRow, rowVars, txVars, clockVars
  <2>3. AgeInv'
    BY <1>5 DEF TypeOK, MissRow, rowVars, txVars, clockVars
  <2>4. HeldInv'
    BY <1>5 DEF TypeOK, MissRow, rowVars, txVars, clockVars
  <2> QED
    BY <2>1, <2>2, <2>3, <2>4
<1>6. CASE InsertRow(a)
  <2>1. LockInv'
    BY <1>6 DEF TypeOK, InsertRow, RowLocked, rowVars, clockVars
  <2>2. WriteInv'
    BY <1>6 DEF TypeOK, InsertRow, RowLocked, rowVars, clockVars
  <2>3. AgeInv'
    BY <1>6 DEF TypeOK, InsertRow, RowLocked, rowVars, clockVars
  <2>4. HeldInv'
    BY <1>6 DEF TypeOK, InsertRow, RowLocked, rowVars, clockVars
  <2> QED
    BY <2>1, <2>2, <2>3, <2>4
<1>7. CASE SkipInsert(a)
  <2>1. LockInv'
    BY <1>7 DEF TypeOK, SkipInsert, EndAttempt, rowVars, txVars
  <2>2. WriteInv'
    BY <1>7, GhostType DEF TypeOK, SkipInsert, EndAttempt, rowVars, txVars
  <2>3. AgeInv'
    BY <1>7 DEF TypeOK, SkipInsert, EndAttempt, rowVars, txVars
  <2>4. HeldInv'
    BY <1>7 DEF TypeOK, SkipInsert, EndAttempt, rowVars, txVars
  <2> QED
    BY <2>1, <2>2, <2>3, <2>4
<1>8. CASE Renew(a) \/ Takeover(a)
  <2>1. LockInv'
    BY <1>8 DEF TypeOK, Renew, Takeover, LeaseExpired, SafeTiming,
             rowVars, txVars, clockVars
  <2>2. WriteInv'
    BY <1>8 DEF TypeOK, Renew, Takeover, LeaseExpired, SafeTiming,
             rowVars, txVars, clockVars
  <2>3. AgeInv'
    BY <1>8 DEF TypeOK, Renew, Takeover, LeaseExpired, SafeTiming,
             rowVars, txVars, clockVars
  <2>4. HeldInv'
    BY <1>8 DEF TypeOK, Renew, Takeover, LeaseExpired, SafeTiming,
             rowVars, txVars, clockVars
  <2> QED
    BY <2>1, <2>2, <2>3, <2>4
<1>9. CASE Defer(a)
  <2>1. LockInv'
    BY <1>9 DEF TypeOK, Defer, EndAttempt, LeaveTx, NoGhost, rowVars,
             txVars
  <2>2. WriteInv'
    BY <1>9, LeaveWriteInv DEF Defer, EndAttempt, Places
  <2>3. AgeInv'
    BY <1>9 DEF TypeOK, Defer, EndAttempt, LeaveTx, NoGhost, rowVars,
             txVars
  <2>4. HeldInv'
    BY <1>9 DEF TypeOK, Defer, EndAttempt, LeaveTx, NoGhost, rowVars,
             txVars
  <2> QED
    BY <2>1, <2>2, <2>3, <2>4
<1>10. CASE CommitRow(a)
  <2>1. LockInv'
    BY <1>10 DEF TypeOK, CommitRow, WrittenLease, SafeTiming, clockVars
  <2>2. WriteInv'
    BY <1>10 DEF TypeOK, CommitRow, WrittenLease, SafeTiming, clockVars
  <2>3. AgeInv'
    BY <1>10 DEF TypeOK, CommitRow, WrittenLease, SafeTiming, clockVars
  <2>4. HeldInv'
    BY <1>10 DEF TypeOK, CommitRow, WrittenLease, SafeTiming, clockVars
  <2> QED
    BY <2>1, <2>2, <2>3, <2>4
<1>11. CASE Reply(a)
  <2>1. LockInv'
    BY <1>11 DEF TypeOK, Reply, EndAttempt, SafeTiming, rowVars, txVars
  <2>2. WriteInv'
    BY <1>11 DEF TypeOK, Reply, EndAttempt, SafeTiming, rowVars, txVars
  <2>3. AgeInv'
    BY <1>11 DEF TypeOK, Reply, EndAttempt, SafeTiming, rowVars, txVars
  <2>4. HeldInv'
    BY <1>11 DEF TypeOK, Reply, EndAttempt, SafeTiming, rowVars, txVars
  <2> QED
    BY <2>1, <2>2, <2>3, <2>4
<1>12. CASE AttemptFails(a)
  <2>1. LockInv'
    BY <1>12 DEF TypeOK, AttemptFails, FlagAfterFailure, EndAttempt,
             LeaveTx, NoGhost, rowVars, txVars
  <2>2. WriteInv'
    BY <1>12, LeaveWriteInv DEF AttemptFails, EndAttempt, Places
  <2>3. AgeInv'
    BY <1>12 DEF TypeOK, AttemptFails, FlagAfterFailure, EndAttempt,
             LeaveTx, NoGhost, rowVars, txVars
  <2>4. HeldInv'
    BY <1>12 DEF TypeOK, AttemptFails, FlagAfterFailure, EndAttempt,
             LeaveTx, NoGhost, rowVars, txVars
  <2> QED
    BY <2>1, <2>2, <2>3, <2>4
<1>13. CASE Signal(a)
  <2>1. LockInv'
    BY <1>13 DEF TypeOK, Signal, rowVars, txVars, clockVars
  <2>2. WriteInv'
    BY <1>13 DEF TypeOK, Signal, rowVars, txVars, clockVars
  <2>3. AgeInv'
    BY <1>13 DEF TypeOK, Signal, rowVars, txVars, clockVars
  <2>4. HeldInv'
    BY <1>13 DEF TypeOK, Signal, rowVars, txVars, clockVars
  <2> QED
    BY <2>1, <2>2, <2>3, <2>4
<1>14. CASE SeeCancel(a)
  <2>1. LockInv'
    BY <1>14 DEF TypeOK, SeeCancel, rowVars, txVars, clockVars
  <2>2. WriteInv'
    BY <1>14 DEF TypeOK, SeeCancel, rowVars, txVars, clockVars
  <2>3. AgeInv'
    BY <1>14 DEF TypeOK, SeeCancel, rowVars, txVars, clockVars
  <2>4. HeldInv'
    BY <1>14 DEF TypeOK, SeeCancel, rowVars, txVars, clockVars
  <2> QED
    BY <2>1, <2>2, <2>3, <2>4
<1>15. CASE Release(a)
  <2>1. LockInv'
    BY <1>15 DEF TypeOK, Release, OwnsRow, ReleasedLease, txVars, clockVars
  <2>2. WriteInv'
    BY <1>15, GhostType
       DEF TypeOK, Release, OwnsRow, ReleasedLease, RowLocked, txVars, clockVars
  <2>3. AgeInv'
    BY <1>15 DEF TypeOK, Release, OwnsRow, ReleasedLease, txVars, clockVars
  <2>4. HeldInv'
    BY <1>15 DEF TypeOK, Release, OwnsRow, ReleasedLease, txVars, clockVars
  <2> QED
    BY <2>1, <2>2, <2>3, <2>4
<1>16. CASE Exit(a) \/ Crash(a)
  <2>1. LockInv'
    BY <1>16 DEF TypeOK, Exit, Crash, Vanish, LeaveTx, NoGhost, rowVars,
             txVars
  <2>2. WriteInv'
    BY <1>16, LeaveWriteInv DEF Exit, Crash, Vanish, Places
  <2>3. AgeInv'
    BY <1>16 DEF TypeOK, Exit, Crash, Vanish, LeaveTx, NoGhost, rowVars,
             txVars
  <2>4. HeldInv'
    BY <1>16 DEF TypeOK, Exit, Crash, Vanish, LeaveTx, NoGhost, rowVars,
             txVars
  <2> QED
    BY <2>1, <2>2, <2>3, <2>4
<1> QED
  BY <1>1, <1>2, <1>3, <1>4, <1>5, <1>6, <1>7, <1>8, <1>9, <1>10, <1>11, <1>12, <1>13, <1>14, <1>15, <1>16 DEF AgentStep

LEMMA NextInv == SafeTiming /\ IInv /\ [Next]_vars => IInv'
<1> SUFFICES ASSUME SafeTiming, IInv, [Next]_vars PROVE IInv'
  OBVIOUS
<1>0. TypeOK'
  BY NextType DEF IInv
<1> USE FloorType DEF LockInv, WriteInv, AgeInv, HeldInv, MayWrite,
                      Attempting, Looping
<1>1. ASSUME NEW a \in Agents, AgentStep(a) PROVE IInv'
  BY <1>0, <1>1, StepInv DEF IInv
<1>2. CASE GhostEnds
  <2> USE <1>2, GhostType DEF IInv, TypeOK, GhostEnds, NoGhost, rowVars,
                              clockVars
  <2>1. LockInv'
    OBVIOUS
  <2>2. WriteInv'
    OBVIOUS
  <2>3. AgeInv'
    OBVIOUS
  <2>4. HeldInv'
    BY DEF SafeTiming
  <2> QED
    BY <1>0, <2>1, <2>2, <2>3, <2>4
<1>3. CASE DbStops \/ DbStarts
  <2> USE <1>3, GhostType DEF IInv, TypeOK, DbStops, DbStarts, NoGhost,
                              rowVars, txVars, clockVars
  <2>1. LockInv'
    OBVIOUS
  <2>2. WriteInv'
    OBVIOUS
  <2>3. AgeInv' /\ HeldInv'
    OBVIOUS
  <2> QED
    BY <1>0, <2>1, <2>2, <2>3
<1>4. CASE Tick
  <2> USE <1>4 DEF IInv
  <2>1. /\ ghost'.id = ghost.id /\ ghost'.writes = ghost.writes
        /\ ghost'.left = Fade(ghost.left)
    BY DEF Tick, TypeOK, Ghosts
  <2>2. /\ left' = Fade(left)
        /\ \A a \in Agents : txLeft'[a] = txLeft[a]
                               \/ txLeft'[a] = Fade(txLeft[a])
        /\ \A a \in Agents : pc[a] \in Attempting \ {"connect"}
                               => txLeft'[a] = Fade(txLeft[a])
    BY DEF Tick, TypeOK
  <2>3. \A m, n \in Floor..LeaseTTL : m <= n => Fade(m) <= n /\ Fade(m) <= Fade(n)
    BY DEF Fade
  <2>4. LockInv'
    BY <2>1 DEF Tick, TypeOK, Fade
  <2>5. WriteInv'
    <3>1. /\ left \in Floor..LeaseTTL /\ ghost.left \in Floor..LeaseTTL
          /\ \A a \in Agents : txLeft[a] \in Floor..LeaseTTL
      BY GhostType DEF TypeOK
    <3>2. /\ left' <= left /\ left' \in Int
          /\ \A n \in Floor..LeaseTTL : left <= n => left' <= n /\ left' <= Fade(n)
          /\ \A n \in Floor..LeaseTTL :
               ghost.left <= n => ghost'.left <= n /\ ghost'.left <= Fade(n)
      BY <2>1, <2>2, <2>3, <3>1, FadeType
    <3>3. \A a \in Agents : MayWrite(a) => MayWrite(a)'
      BY <3>1, <3>2 DEF Tick, Floor, TypeOK
    <3>4. ghost.writes => MayWrite(ghost.id) /\ MayWrite(ghost.id)'
      BY <2>1, <3>2, <3>1 DEF Tick, TypeOK
    <3>5. ghost'.writes => left' <= ghost'.left
      BY <2>1, <3>1, <3>2
    <3>6. \A a \in Agents : /\ left <= txLeft[a] => left' <= txLeft'[a]
                            /\ ghost.left <= txLeft[a]
                                 => ghost'.left <= txLeft'[a]
      BY <2>2, <3>1, <3>2
    <3> QED
      BY <2>1, <3>3, <3>4, <3>5, <3>6 DEF Tick
  <2>6. AgeInv'
    <3> SUFFICES ASSUME NEW a \in Agents
        PROVE  /\ pc[a] \notin Attempting
                    => elapsed'[a] = 0 /\ txLeft'[a] = LeaseTTL
               /\ pc[a] \in Attempting => txLeft'[a] >= LeaseTTL - elapsed'[a]
               /\ pc[a] \in Attempting /\ ~fired'[a]
                    => ticker'[a] + elapsed'[a] <= RenewEvery
      BY DEF Tick
    <3>1. CASE pc[a] \in Attempting
      <4>1. /\ elapsed'[a] = elapsed[a] + 1
            /\ ~fired'[a] => ~fired[a] /\ ticker'[a] = ticker[a] - 1
        BY <3>1 DEF Tick, TypeOK
      <4>2. txLeft'[a] >= txLeft[a] - 1 /\ txLeft'[a] \in Int
        BY FadeType, <2>2 DEF TypeOK
      <4>3. /\ txLeft[a] \in Int /\ elapsed[a] \in Int /\ ticker[a] \in Int
        BY DEF TypeOK
      <4>4. txLeft[a] >= LeaseTTL - elapsed[a]
        BY <3>1
      <4>5. ~fired[a] => ticker[a] + elapsed[a] <= RenewEvery
        BY <3>1
      <4> QED
        BY ONLY <3>1, <4>1, <4>2, <4>3, <4>4, <4>5, TimeAssumption
    <3>2. CASE pc[a] \notin Attempting
      BY <3>2 DEF Tick, TypeOK
    <3> QED
      BY <3>1, <3>2
  <2>7. HeldInv'
    <3> SUFFICES ASSUME NEW a \in Agents \ undone
        PROVE  /\ flag[a] = "held" => leaderId = a /\ pc[a] \in Looping
               /\ flag[a] = "held" /\ pc[a] = "idle"
                    => left' > MaxSkew + AttemptTimeout
                               + (IF fired'[a] THEN 0 ELSE ticker'[a])
               /\ flag[a] = "held" /\ pc[a] \in Attempting
                    => left' > MaxSkew + AttemptTimeout - elapsed'[a]
               /\ pc[a] = "reply" => leaderId = a /\ left' = txLeft'[a]
      BY DEF Tick
    <3>1. flag[a] = "held" => left' >= left - 1
      BY FadeType, <2>2 DEF TypeOK
    <3>2. CASE pc[a] \in Attempting
      <4>1. elapsed'[a] = elapsed[a] + 1 /\ elapsed[a] \in Int
        BY <3>2 DEF Tick, TypeOK
      <4>2. left' \in Int /\ left \in Int
        BY FadeType, <2>2 DEF TypeOK
      <4>3. pc[a] # "idle"
        BY <3>2
      <4>4. flag[a] = "held" => left > MaxSkew + AttemptTimeout - elapsed[a]
        BY <3>2
      <4>5. flag[a] = "held" => left' > MaxSkew + AttemptTimeout - elapsed'[a]
        BY ONLY <3>1, <4>1, <4>2, <4>4, TimeAssumption
      <4>6. pc[a] = "reply" => leaderId = a /\ left' = txLeft'[a]
        BY <2>2
      <4> QED
        BY <4>3, <4>5, <4>6
    <3>3. CASE pc[a] = "idle"
      <4>1. ~fired[a] /\ ticker'[a] \in Int /\ ticker[a] \in Int
        BY <3>3 DEF Tick, TypeOK, Due
      <4>2. ~fired'[a] => ticker'[a] = ticker[a] - 1
        BY <3>3, <4>1 DEF Tick, TypeOK
      <4>3. left' \in Int /\ left \in Int
        BY FadeType, <2>2 DEF TypeOK
      <4>4. ticker[a] >= 1
        BY DEF TypeOK
      <4>5. flag[a] = "held" => left > MaxSkew + AttemptTimeout + ticker[a]
        BY <3>3, <4>1
      <4>6. flag[a] = "held"
              => left' > MaxSkew + AttemptTimeout
                          + (IF fired'[a] THEN 0 ELSE ticker'[a])
        <5>1. CASE fired'[a]
          BY <3>1, <4>1, <4>3, <4>4, <4>5, <5>1
        <5>2. CASE ~fired'[a]
          BY <3>1, <4>1, <4>2, <4>3, <4>5, <5>2
        <5> QED
          BY <5>1, <5>2
      <4> QED
        BY <3>3, <4>6
    <3>4. CASE pc[a] \notin Looping
      BY <3>4
    <3> QED
      BY <3>2, <3>3, <3>4
  <2> QED
    BY <1>0, <2>4, <2>5, <2>6, <2>7
<1>5. CASE UNCHANGED vars
  BY <1>0, <1>5 DEF IInv, vars
<1>6. ASSUME NEW a \in Agents, LateRelease(a) PROVE IInv'
  <2> USE <1>6 DEF IInv, TypeOK, LateRelease, OwnsRow, ReleasedLease, txVars,
                   clockVars
  <2>1. LockInv'
    OBVIOUS
  <2>2. WriteInv'
    <3>1. \A b \in Agents : txLeft[b] >= LeaseTTL - AttemptTimeout
      OBVIOUS
    <3>2. ghost.id = NoAgent /\ lock = NoAgent /\ ~ghost.writes
      BY GhostType DEF RowLocked
    <3> QED
      BY <3>1, <3>2 DEF SafeTiming
  <2>3. AgeInv'
    OBVIOUS
  <2>4. HeldInv'
    OBVIOUS
  <2> QED
    BY <1>0, <2>1, <2>2, <2>3, <2>4
<1> QED
  BY <1>1, <1>2, <1>3, <1>4, <1>5, <1>6 DEF Next

(* The inductive invariant holds of every behaviour.                       *)
THEOREM InvCorrect == ASSUME SafeTiming PROVE Spec => []IInv
<1>1. Init => IInv
  BY InitInv
<1>2. IInv /\ [Next]_vars => IInv'
  BY NextInv
<1> QED
  BY <1>1, <1>2, PTL DEF Spec

(* An agent whose last attempt wrote the row owns it, and its lease has    *)
(* more left than any two clocks can differ (tryAcquireOrRenew,            *)
(* election.go:127-244).                                                   *)
THEOREM HeldLease == ASSUME SafeTiming PROVE Spec => []HeldMeansLease
<1>1. IInv => HeldMeansLease
  <2> SUFFICES ASSUME IInv, NEW a \in Held PROVE leaderId = a /\ left > MaxSkew
    BY DEF HeldMeansLease
  <2>1. a \in Agents \ undone /\ flag[a] = "held"
    BY DEF Held
  <2>2. left \in Int /\ elapsed[a] \in 0..AttemptTimeout /\ ticker[a] \in Nat
    BY <2>1, FloorType DEF IInv, TypeOK
  <2>3. leaderId = a /\ pc[a] \in Looping
    BY <2>1 DEF IInv, HeldInv
  <2>4. CASE pc[a] = "idle"
    BY <2>1, <2>2, <2>3, <2>4 DEF IInv, HeldInv
  <2>5. CASE pc[a] \in Attempting
    <3>1. left > MaxSkew + AttemptTimeout - elapsed[a]
      BY <2>1, <2>5 DEF IInv, HeldInv
    <3> QED
      BY <2>2, <2>3, <3>1
  <2> QED
    BY <2>3, <2>4, <2>5 DEF Looping
<1> QED
  BY <1>1, InvCorrect, PTL

-----------------------------------------------------------------------------
(* The refinement: every step moves the row only while nobody leads.       *)

(* The steps that leave every other agent's flag and undoing alone.        *)
LEMMA HeldExcept ==
  ASSUME TypeOK, NEW a \in Agents, NEW v, flag' = [flag EXCEPT ![a] = v],
         undone' \in {undone, undone \ {a}}
  PROVE  v # "held" => Held' = Held \ {a}
<1>1. \A b \in Agents : flag'[b] = IF b = a THEN v ELSE flag[b]
  BY DEF TypeOK
<1>2. \A b \in Agents : b \in Held' <=> flag'[b] = "held" /\ b \notin undone'
  BY DEF Held
<1>3. \A b \in Agents : b \in Held <=> flag[b] = "held" /\ b \notin undone
  BY DEF Held
<1>4. Held \subseteq Agents /\ Held' \subseteq Agents
  BY DEF Held
<1>5. \A b \in Agents \ {a} : b \in Held' <=> b \in Held
  BY <1>1, <1>2, <1>3
<1>6. v # "held" => a \notin Held'
  BY <1>1, <1>2
<1> QED
  BY <1>4, <1>5, <1>6

LEMMA StepImplements == SafeTiming /\ IInv /\ [Next]_vars
                          => [Lease!Next]_<<leaderId, Held>>
<1> SUFFICES ASSUME SafeTiming, IInv, [Next]_vars
    PROVE [Lease!Next]_<<leaderId, Held>>
  OBVIOUS
<1> USE DEF Lease!Next, Lease!Acquire, Lease!Lead, Lease!StepDown
<1>0. TypeOK
  BY DEF IInv
<1>h. UNCHANGED <<flag, undone>> => UNCHANGED Held
  BY DEF Held
<1>1. ASSUME NEW a \in Agents, AgentStep(a)
      PROVE [Lease!Next]_<<leaderId, Held>>
  <2>1. CASE /\ ~CommitRow(a) /\ ~Reply(a) /\ ~SkipInsert(a) /\ ~Defer(a)
             /\ ~AttemptFails(a) /\ ~SeeCancel(a) /\ ~Exit(a) /\ ~Crash(a)
    BY <1>1, <1>h, <2>1
       DEF AgentStep, Start, CreateTable, CreateTableFails, StartAttempt,
           BeginTx, LockRow, MissRow, InsertRow, Renew, Takeover, Signal,
           Release, OwnsRow, rowVars
  <2>2. CASE CommitRow(a)
    <3>1. leaderId' = a /\ Held' \in {Held, Held \cup {a}}
      BY <2>2 DEF CommitRow, Held
    <3>2. leaderId = a \/ leaderId = NoAgent \/ left <= MaxSkew
      BY <2>2 DEF CommitRow, IInv, WriteInv, MayWrite
    <3>3. leaderId # a => Held = {}
      BY <3>2, FloorType
         DEF IInv, TypeOK, HeldInv, Held, Looping, Attempting
    <3>4. CASE leaderId = a
      BY <3>1, <3>4
    <3>5. CASE leaderId # a
      BY <3>1, <3>3, <3>5
    <3> QED
      BY <3>4, <3>5
  <2>3. CASE Reply(a)
    <3>1. UNCHANGED leaderId /\ UNCHANGED undone
      BY <2>3 DEF Reply, EndAttempt, rowVars
    <3>2. \A b \in Agents \ {a} : b \in Held' <=> b \in Held
      BY <1>0, <2>3, <3>1 DEF Reply, EndAttempt, Held, TypeOK
    <3>3. CASE a \in undone
      BY <3>1, <3>2, <3>3 DEF Held
    <3>4. CASE a \notin undone
      <4>1. leaderId = a
        BY <2>3, <3>4 DEF Reply, IInv, HeldInv
      <4>2. Held' \in {Held, Held \cup {a}, Held \ {a}}
        BY <3>2 DEF Held
      <4> QED
        BY <3>1, <4>1, <4>2
    <3> QED
      BY <3>3, <3>4
  <2>4. CASE SkipInsert(a) \/ Defer(a) \/ AttemptFails(a) \/ SeeCancel(a)
             \/ Exit(a) \/ Crash(a)
    <3>1. UNCHANGED leaderId
      BY <2>4 DEF SkipInsert, Defer, AttemptFails, SeeCancel, Exit, Crash,
                  Vanish, rowVars
    <3>2. \E v \in {"off", "skipped"} : flag' = [flag EXCEPT ![a] = v]
      BY <2>4 DEF SkipInsert, Defer, AttemptFails, FlagAfterFailure,
                  SeeCancel, Exit, Crash, Vanish, EndAttempt
    <3>3. undone' \in {undone, undone \ {a}}
      BY <2>4 DEF SkipInsert, Defer, AttemptFails, SeeCancel, Exit, Crash,
                  Vanish
    <3>4. Held' = Held \ {a}
      BY <1>0, <3>2, <3>3, HeldExcept
    <3> QED
      BY <3>1, <3>4
  <2> QED
    BY <2>1, <2>2, <2>3, <2>4
<1>2. CASE GhostEnds
  <2>1. UNCHANGED Held
    BY <1>2, <1>h DEF GhostEnds
  <2>2. CASE UNCHANGED leaderId
    BY <2>1, <2>2
  <2>3. CASE ghost.writes /\ leaderId' = ghost.id
    <3>1. ghost.id \in Agents
      BY <1>2, <1>0, GhostType DEF GhostEnds, TypeOK
    <3>2. leaderId = ghost.id \/ leaderId = NoAgent \/ left <= MaxSkew
      BY <2>3 DEF IInv, WriteInv, MayWrite
    <3>3. leaderId # ghost.id => Held = {}
      BY <3>2, FloorType
         DEF IInv, TypeOK, HeldInv, Held, Looping, Attempting
    <3> QED
      BY <2>1, <2>3, <3>1, <3>3
  <2> QED
    BY <1>2, <2>2, <2>3 DEF GhostEnds, rowVars
<1>3. CASE DbStops \/ DbStarts \/ Tick \/ UNCHANGED vars
  BY <1>3, <1>h DEF DbStops, DbStarts, Tick, rowVars, vars
<1>4. ASSUME NEW a \in Agents, LateRelease(a)
      PROVE [Lease!Next]_<<leaderId, Held>>
  <2>1. UNCHANGED leaderId /\ UNCHANGED flag /\ undone' \in {undone, undone \cup {a}}
    BY <1>4 DEF LateRelease
  <2>2. Held' \in {Held, Held \ {a}}
    BY <2>1 DEF Held
  <2> QED
    BY <2>1, <2>2
<1> QED
  BY <1>1, <1>2, <1>3, <1>4 DEF Next

(* Election implements the abstract lease: the row changes hands only      *)
(* while no agent leads on a lease it wrote.                               *)
THEOREM ElectionImplementsLease == ASSUME SafeTiming PROVE Spec => ImplementsLease
<1>1. Init => Lease!Init
  BY DEF Init, Lease!Init, Held
<1>2. IInv /\ [Next]_vars => [Lease!Next]_<<leaderId, Held>>
  BY StepImplements
<1> QED
  BY <1>1, <1>2, InvCorrect, PTL
     DEF Spec, ImplementsLease, Lease!Spec, Lease!leaseVars

(* What the abstract lease promises, for any election that implements it.  *)
LEMMA LeaseHasOneLeader == Lease!Spec => []Lease!LeadersOwn
<1> USE DEF Lease!LeadersOwn
<1>1. Lease!Init => Lease!LeadersOwn
  BY DEF Lease!Init
<1>2. Lease!LeadersOwn /\ [Lease!Next]_Lease!leaseVars => Lease!LeadersOwn'
  BY DEF Lease!Next, Lease!Acquire, Lease!Lead, Lease!StepDown, Lease!leaseVars
<1> QED
  BY <1>1, <1>2, PTL DEF Lease!Spec

(* AtMostOneLeader fails (election_two_leaders), but in two ways only: of  *)
(* two agents that believe they lead, one has set its flag for an INSERT   *)
(* that inserted nothing, or its write was undone by its previous          *)
(* process's release.                                                      *)
SecondLeaderSkipped ==
  \A a, b \in Agents :
    IsLeader(a) /\ IsLeader(b) /\ a # b
      => \E c \in {a, b} : flag[c] = "skipped" \/ c \in undone

(* Renewals, take-overs and first inserts never make a second leader; only *)
(* the INSERT whose row count is not read does (tryAcquireOrRenew,         *)
(* election.go:157-184), and the release that comes late (247-261).        *)
THEOREM OneHoldsTheOtherSkipped ==
  ASSUME SafeTiming PROVE Spec => []SecondLeaderSkipped
<1>1. TypeOK /\ Lease!LeadersOwn => SecondLeaderSkipped
  BY DEF TypeOK, Lease!LeadersOwn, SecondLeaderSkipped, IsLeader, Held
<1> QED
  BY <1>1, TypeCorrect, ElectionImplementsLease, LeaseHasOneLeader, PTL
     DEF ImplementsLease

(* No write of the row shortens its lease; only the UPDATE of releaseLease *)
(* does, its owner's, be it the one that its agent waits for or one that   *)
(* the server comes to when the agent's process is over (election.go:      *)
(* 247-261).                                                               *)
THEOREM NoLeaseShortened == ASSUME SafeTiming PROVE Spec => OnlyReleaseShortens
<1>1. IInv /\ [Next]_vars
        => [LeaseShortened
              => \E a \in Agents :
                   leaderId = a /\ (pc[a] = "release" \/ a \in late)]_vars
  <2> SUFFICES ASSUME IInv, Next, LeaseShortened
      PROVE \E a \in Agents : leaderId = a /\ (pc[a] = "release" \/ a \in late)
    OBVIOUS
  <2>0. left \in Int /\ left \in Floor..LeaseTTL
    BY FloorType DEF IInv, TypeOK
  <2>1. left' # left
    BY <2>0 DEF LeaseShortened
  <2>2. ~Tick
    BY <2>0, FadeType, FloorType DEF LeaseShortened, Tick
  <2>3. ASSUME GhostEnds PROVE FALSE
    BY <2>0, <2>1, <2>3, GhostType, FloorType
       DEF GhostEnds, LeaseShortened, IInv, TypeOK, WriteInv, rowVars
  <2>4. ~DbStops /\ ~DbStarts
    BY <2>1 DEF DbStops, DbStarts, rowVars
  <2>5. PICK a \in Agents : AgentStep(a) \/ LateRelease(a)
    BY <2>2, <2>3, <2>4 DEF Next
  <2>6. ASSUME CommitRow(a) PROVE FALSE
    BY <2>0, <2>6, FloorType
       DEF CommitRow, WrittenLease, LeaseShortened, IInv, TypeOK, WriteInv
  <2>7. Release(a) \/ LateRelease(a)
    BY <2>1, <2>5, <2>6
       DEF AgentStep, Start, CreateTable, CreateTableFails, StartAttempt,
           BeginTx, LockRow, MissRow, InsertRow, SkipInsert, Renew, Takeover,
           Defer, Reply, AttemptFails, Signal, SeeCancel, Exit, Crash, Vanish,
           rowVars
  <2> QED
    BY <2>1, <2>7 DEF Release, LateRelease, OwnsRow
<1> QED
  BY <1>1, InvCorrect, PTL DEF Spec, OnlyReleaseShortens
=============================================================================
