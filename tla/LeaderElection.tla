--------------------------- MODULE LeaderElection ---------------------------
(***************************************************************************)
(* The lease-based leader election of src/internal/replication/election.go *)
(*                                                                         *)
(* Agents compete for one row of the coordination database (leader_id,     *)
(* lease_until).  Every attempt (tryAcquireOrRenew) is a transaction of    *)
(* its own that begins, tries to lock the row without waiting, and then    *)
(* inserts, renews, takes over or defers; any of its calls can fail, the   *)
(* answer to its COMMIT can be lost, and its transaction can outlive it in *)
(* the database, as can the UPDATE that releases the lease outlive its     *)
(* process.  The agent's flag (le.isLeader) has no expiry of its own: it   *)
(* is true until an attempt resets it.  Time is what makes the flag and    *)
(* the lease agree, so time is modelled: leases, tickers and timeouts are  *)
(* countdowns that the action Tick moves together.                         *)
(***************************************************************************)
EXTENDS Integers

CONSTANTS
  Agents,          \* the agents, by node_id
  NoAgent,         \* "the row does not exist" and "nobody"
  LeaseTTL,        \* lease_ttl_sec (default 30)
  RenewEvery,      \* renew_sec (default 10)
  AttemptTimeout,  \* the 5 s context of an attempt
  MaxSkew,         \* bound on |Skew|
  Skew,            \* an agent's clock minus the database's clock
  Signalled,       \* bound: the agents that may get a signal
  Crashing,        \* bound: the agents that may crash
  MaxCrashes,      \* bound on the crashes of a behaviour
  Faults           \* which of AllFaults may happen

AllFaults == {"neterr", "outage", "laterelease"}

ASSUME AgentsAssumption == NoAgent \notin Agents
ASSUME TimeAssumption ==
  /\ LeaseTTL \in Nat \ {0}
  /\ RenewEvery \in Nat \ {0}
  /\ AttemptTimeout \in Nat \ {0}
  /\ MaxSkew \in Nat
  /\ Skew \in [Agents -> -MaxSkew..MaxSkew]
ASSUME FaultAssumption == MaxCrashes \in Nat /\ Faults \subseteq AllFaults

(* An expiry further in the past than this is the same to every clock.     *)
Floor == -(MaxSkew + 1)

VARIABLES
  leaderId,   \* leader_id of the committed row; NoAgent: there is no row
  left,       \* lease_until - now() of the committed row, not below Floor
  lock,       \* the running attempt whose transaction holds the row
  ghost,      \* a transaction that outlived its attempt and holds the row
  late,       \* agents whose releasing UPDATE outlived releaseLease
  undone,     \* agents whose last write of the row such an UPDATE undid
  dbUp,       \* the coordination database answers
  pc,         \* where each agent's election goroutine is
  flag,       \* le.isLeader: "off" is false, "held" and "skipped" are true
  ticker,     \* time to the ticker's next tick
  fired,      \* a tick waits in ticker.C (a channel of capacity one)
  elapsed,    \* age of the running attempt's context
  txLeft,     \* what is left of the lease the running attempt would write
  cancelled,  \* ctx is cancelled: the process got a signal
  crashes     \* crashes so far

rowVars   == <<leaderId, left>>
txVars    == <<lock, ghost>>
lateVars  == <<late, undone>>
clockVars == <<ticker, fired, elapsed, txLeft>>
vars == <<leaderId, left, lock, ghost, late, undone, dbUp, pc, flag, ticker,
          fired, elapsed, txLeft, cancelled, crashes>>

(* The steps of an attempt (tryAcquireOrRenew).                            *)
Attempting == {"connect", "select", "insert", "decide", "commit", "reply"}
Places == Attempting \cup {"down", "create", "idle", "release", "exited"}
Looping == Attempting \cup {"idle"}

NoGhost == [id |-> NoAgent, writes |-> FALSE, left |-> Floor]
Ghosts == [id : Agents \cup {NoAgent}, writes : BOOLEAN,
           left : Floor..LeaseTTL]

IsLeader(a) == flag[a] # "off"
Held == {a \in Agents : flag[a] = "held"} \ undone

TypeOK ==
  /\ leaderId \in Agents \cup {NoAgent}
  /\ left \in Floor..LeaseTTL
  /\ lock \in Agents \cup {NoAgent}
  /\ ghost \in Ghosts
  /\ late \subseteq Agents /\ undone \subseteq Agents
  /\ dbUp \in BOOLEAN
  /\ pc \in [Agents -> Places]
  /\ flag \in [Agents -> {"off", "held", "skipped"}]
  /\ ticker \in [Agents -> 1..RenewEvery]
  /\ fired \in [Agents -> BOOLEAN]
  /\ elapsed \in [Agents -> 0..AttemptTimeout]
  /\ txLeft \in [Agents -> Floor..LeaseTTL]
  /\ cancelled \in [Agents -> BOOLEAN]
  /\ crashes \in 0..MaxCrashes

Init ==
  /\ leaderId = NoAgent /\ left = Floor
  /\ lock = NoAgent /\ ghost = NoGhost /\ dbUp = TRUE
  /\ late = {} /\ undone = {}
  /\ pc = [a \in Agents |-> "down"]
  /\ flag = [a \in Agents |-> "off"]
  /\ ticker = [a \in Agents |-> RenewEvery]
  /\ fired = [a \in Agents |-> FALSE]
  /\ elapsed = [a \in Agents |-> 0]
  /\ txLeft = [a \in Agents |-> LeaseTTL]
  /\ cancelled = [a \in Agents |-> FALSE]
  /\ crashes = 0

-----------------------------------------------------------------------------
(* The coordination database, as the statements of election.go use it.     *)

(* Another transaction holds the row or has an uncommitted insert of it.   *)
RowLocked == lock # NoAgent \/ ghost.id # NoAgent

(* That transaction has written the row: a conflicting INSERT waits for it.*)
WritePending == ghost.writes \/ \E b \in Agents : lock = b /\ pc[b] = "commit"

(* The transaction of an attempt that ends without COMMIT's answer: the    *)
(* server rolls it back at once, or it lingers, and then it can still      *)
(* commit if the write was done and the COMMIT on its way.                 *)
LeaveTx(a) ==
  IF lock = a
  THEN /\ lock' = NoAgent
       /\ ghost' \in {NoGhost, [id |-> a, writes |-> pc[a] = "commit",
                                left |-> txLeft[a]]}
  ELSE UNCHANGED txVars

(* The server drops the client-less transaction, or commits it.            *)
GhostEnds ==
  /\ ghost.id # NoAgent
  /\ ghost' = NoGhost
  /\ \/ UNCHANGED rowVars
     \/ /\ ghost.writes
        /\ leaderId' = ghost.id
        /\ left' = ghost.left
  /\ UNCHANGED <<lock, lateVars, dbUp, pc, flag, clockVars, cancelled, crashes>>

(* The database stops and its open transactions are rolled back.           *)
DbStops ==
  /\ "outage" \in Faults
  /\ dbUp
  /\ dbUp' = FALSE
  /\ lock' = NoAgent
  /\ ghost' = NoGhost
  /\ late' = {}
  /\ UNCHANGED <<rowVars, undone, pc, flag, clockVars, cancelled, crashes>>

DbStarts ==
  /\ ~dbUp
  /\ dbUp' = TRUE
  /\ UNCHANGED <<rowVars, txVars, lateVars, pc, flag, clockVars, cancelled,
                 crashes>>

-----------------------------------------------------------------------------
(* The election goroutine (Run) outside an attempt.                        *)

(* The agent's process starts and with it the goroutine: ensureTable.      *)
Start(a) ==
  /\ pc[a] = "down"
  /\ pc' = [pc EXCEPT ![a] = "create"]
  /\ UNCHANGED <<rowVars, txVars, lateVars, dbUp, flag, clockVars, cancelled,
                 crashes>>

(* The table exists: the ticker is created and a first attempt is made     *)
(* without waiting for it.                                                 *)
CreateTable(a) ==
  /\ pc[a] = "create"
  /\ dbUp
  /\ ~cancelled[a]
  /\ pc' = [pc EXCEPT ![a] = "connect"]
  /\ UNCHANGED <<rowVars, txVars, lateVars, dbUp, flag, clockVars, cancelled,
                 crashes>>

(* ensureTable fails: Run returns its error and is not called again.       *)
CreateTableFails(a) ==
  /\ pc[a] = "create"
  /\ "neterr" \in Faults \/ ~dbUp \/ cancelled[a]
  /\ pc' = [pc EXCEPT ![a] = "exited"]
  /\ UNCHANGED <<rowVars, txVars, lateVars, dbUp, flag, clockVars, cancelled,
                 crashes>>

(* The loop takes the tick: the attempt gets a context of its own.         *)
StartAttempt(a) ==
  /\ pc[a] = "idle"
  /\ fired[a]
  /\ pc' = [pc EXCEPT ![a] = "connect"]
  /\ fired' = [fired EXCEPT ![a] = FALSE]
  /\ UNCHANGED <<rowVars, txVars, lateVars, dbUp, flag, ticker, elapsed, txLeft,
                 cancelled, crashes>>

(* The attempt returns to the loop, leaving the flag at v.                 *)
EndAttempt(a, v) ==
  /\ pc' = [pc EXCEPT ![a] = "idle"]
  /\ flag' = [flag EXCEPT ![a] = v]
  /\ elapsed' = [elapsed EXCEPT ![a] = 0]
  /\ txLeft' = [txLeft EXCEPT ![a] = LeaseTTL]
  /\ UNCHANGED <<ticker, fired>>

-----------------------------------------------------------------------------
(* The attempt (tryAcquireOrRenew), call by call.                          *)

(* Connect and BEGIN: now() of the later write is the time of the BEGIN.   *)
BeginTx(a) ==
  /\ pc[a] = "connect"
  /\ dbUp
  /\ ~cancelled[a]
  /\ pc' = [pc EXCEPT ![a] = "select"]
  /\ UNCHANGED <<rowVars, txVars, lateVars, dbUp, flag, clockVars, cancelled,
                 crashes>>

(* SELECT ... FOR UPDATE SKIP LOCKED returns the row, locked.              *)
LockRow(a) ==
  /\ pc[a] = "select"
  /\ dbUp
  /\ leaderId # NoAgent
  /\ ~RowLocked
  /\ lock' = a
  /\ pc' = [pc EXCEPT ![a] = "decide"]
  /\ UNCHANGED <<rowVars, ghost, lateVars, dbUp, flag, clockVars, cancelled,
                 crashes>>

(* It returns no row: there is none, or another transaction has it locked. *)
MissRow(a) ==
  /\ pc[a] = "select"
  /\ dbUp
  /\ leaderId = NoAgent \/ RowLocked
  /\ pc' = [pc EXCEPT ![a] = "insert"]
  /\ UNCHANGED <<rowVars, txVars, lateVars, dbUp, flag, clockVars, cancelled,
                 crashes>>

(* INSERT ... ON CONFLICT DO NOTHING inserts the row.                      *)
InsertRow(a) ==
  /\ pc[a] = "insert"
  /\ dbUp
  /\ leaderId = NoAgent
  /\ ~RowLocked
  /\ lock' = a
  /\ pc' = [pc EXCEPT ![a] = "commit"]
  /\ UNCHANGED <<rowVars, ghost, lateVars, dbUp, flag, clockVars, cancelled,
                 crashes>>

(* It finds the row and does nothing; the empty transaction commits.  The  *)
(* number of rows inserted is not looked at and the flag is set.           *)
SkipInsert(a) ==
  /\ pc[a] = "insert"
  /\ dbUp
  /\ leaderId # NoAgent
  /\ ~WritePending
  /\ EndAttempt(a, "skipped")
  /\ UNCHANGED <<rowVars, txVars, lateVars, dbUp, cancelled, crashes>>

(* The row is this agent's: UPDATE, extending the lease.                   *)
Renew(a) ==
  /\ pc[a] = "decide"
  /\ dbUp
  /\ lock = a
  /\ leaderId = a
  /\ pc' = [pc EXCEPT ![a] = "commit"]
  /\ UNCHANGED <<rowVars, txVars, lateVars, dbUp, flag, clockVars, cancelled,
                 crashes>>

(* Mutants of LeaseExpired: the comparison the other way round; a grace of *)
(* one second in the take-over's favour; a take-over that never comes.     *)
ExpiredInverted(a) == left > Skew[a]
ExpiredEarly(a) == left <= Skew[a] + 1
ExpiredNever(a) == FALSE

(* ~now.Before(leaseUntil), by this agent's clock.                         *)
LeaseExpired(a) == left <= Skew[a]

(* The row is another's and its lease is over: UPDATE, taking it.          *)
Takeover(a) ==
  /\ pc[a] = "decide"
  /\ dbUp
  /\ lock = a
  /\ leaderId # a
  /\ LeaseExpired(a)
  /\ pc' = [pc EXCEPT ![a] = "commit"]
  /\ UNCHANGED <<rowVars, txVars, lateVars, dbUp, flag, clockVars, cancelled,
                 crashes>>

(* The row is another's and its lease is valid: not the leader, roll back. *)
Defer(a) ==
  /\ pc[a] = "decide"
  /\ lock = a
  /\ leaderId # a
  /\ ~LeaseExpired(a)
  /\ EndAttempt(a, "off")
  /\ LeaveTx(a)
  /\ UNCHANGED <<rowVars, lateVars, dbUp, cancelled, crashes>>

(* Mutant of WrittenLease: the TTL taken for minutes.                      *)
LeaseInMinutes(a) == 60 * txLeft[a]

(* The lease a committing transaction writes: now() + TTL, now() being the *)
(* time it began.                                                          *)
WrittenLease(a) == txLeft[a]

(* COMMIT takes effect in the database.                                    *)
CommitRow(a) ==
  /\ pc[a] = "commit"
  /\ dbUp
  /\ lock = a
  /\ leaderId' = a
  /\ left' = WrittenLease(a)
  /\ lock' = NoAgent
  /\ undone' = undone \ {a}
  /\ pc' = [pc EXCEPT ![a] = "reply"]
  /\ UNCHANGED <<ghost, late, dbUp, flag, clockVars, cancelled, crashes>>

(* The agent learns that its COMMIT succeeded: setLeader(true).            *)
Reply(a) ==
  /\ pc[a] = "reply"
  /\ EndAttempt(a, "held")
  /\ UNCHANGED <<rowVars, txVars, lateVars, dbUp, cancelled, crashes>>

(* Mutant of FlagAfterFailure: no setLeader(false) on an error path.       *)
FlagKept(a) == flag[a]

(* What a failed attempt leaves in le.isLeader.                            *)
FlagAfterFailure(a) == "off"

(* INSERT waits for the transaction that has written the row.              *)
InsertWaits(a) ==
  pc[a] = "insert" /\ IF leaderId = NoAgent THEN RowLocked ELSE WritePending

(* A call of the attempt fails, or its context ends: setLeader(false) on   *)
(* every path.  While the database is up and the network reliable only a   *)
(* wait for a lock can outlast the context.                                *)
AttemptFails(a) ==
  /\ pc[a] \in Attempting
  /\ \/ "neterr" \in Faults
     \/ ~dbUp
     \/ cancelled[a]
     \/ elapsed[a] = AttemptTimeout /\ InsertWaits(a)
     \/ pc[a] \in {"decide", "commit"} /\ lock # a
  /\ EndAttempt(a, FlagAfterFailure(a))
  /\ LeaveTx(a)
  /\ UNCHANGED <<rowVars, lateVars, dbUp, cancelled, crashes>>

-----------------------------------------------------------------------------
(* Shutdown, crash, time.                                                  *)

(* SIGINT or SIGTERM cancels the context of watchdog and election.         *)
Signal(a) ==
  /\ a \in Signalled
  /\ pc[a] # "down"
  /\ ~cancelled[a]
  /\ cancelled' = [cancelled EXCEPT ![a] = TRUE]
  /\ UNCHANGED <<rowVars, txVars, lateVars, dbUp, pc, flag, clockVars, crashes>>

(* The loop sees ctx.Done: setLeader(false), then releaseLease.            *)
SeeCancel(a) ==
  /\ pc[a] = "idle"
  /\ cancelled[a]
  /\ pc' = [pc EXCEPT ![a] = "release"]
  /\ flag' = [flag EXCEPT ![a] = "off"]
  /\ UNCHANGED <<rowVars, txVars, lateVars, dbUp, clockVars, cancelled, crashes>>

(* Mutant of OwnsRow: the UPDATE without its WHERE leader_id = $1.         *)
OwnsAnyRow(a) == leaderId # NoAgent

(* WHERE cluster_name = $1 AND leader_id = $2                              *)
OwnsRow(a) == leaderId = a

(* now() - interval '1 second'                                             *)
ReleasedLease == -1

(* The UPDATE was sent and nobody waits for it any more: it may be at the  *)
(* server still, behind another transaction's lock or on its way.          *)
LeaveRelease(a) ==
  \/ UNCHANGED late
  \/ /\ "laterelease" \in Faults
     /\ pc[a] = "release" /\ dbUp
     /\ RowLocked \/ "neterr" \in Faults
     /\ late' = late \cup {a}

(* releaseLease: UPDATE the row if it is this agent's, waiting for its     *)
(* lock; every error, its 3 s context's end among them, is ignored.        *)
Release(a) ==
  /\ pc[a] = "release"
  /\ \/ dbUp /\ OwnsRow(a) /\ ~RowLocked /\ left' = ReleasedLease
        /\ UNCHANGED late
     \/ dbUp /\ ~OwnsRow(a) /\ UNCHANGED <<left, late>>
     \/ /\ "neterr" \in Faults \/ ~dbUp \/ RowLocked
        /\ UNCHANGED left
        /\ LeaveRelease(a)
  /\ pc' = [pc EXCEPT ![a] = "exited"]
  /\ UNCHANGED <<leaderId, txVars, undone, dbUp, flag, clockVars, cancelled,
                 crashes>>

(* The server comes to an UPDATE that nobody waits for: it has the row, or *)
(* its client's loss is noticed first.  now() is when it was sent.         *)
LateRelease(a) ==
  /\ a \in late
  /\ ~RowLocked
  /\ late' = late \ {a}
  /\ \/ /\ OwnsRow(a)
        /\ left' \in Floor..ReleasedLease
        /\ undone' = undone \cup {a}
     \/ UNCHANGED <<left, undone>>
  /\ UNCHANGED <<leaderId, txVars, dbUp, pc, flag, clockVars, cancelled, crashes>>

(* The process is gone, and all its memory with it.                        *)
Vanish(a) ==
  /\ pc' = [pc EXCEPT ![a] = "down"]
  /\ flag' = [flag EXCEPT ![a] = "off"]
  /\ ticker' = [ticker EXCEPT ![a] = RenewEvery]
  /\ fired' = [fired EXCEPT ![a] = FALSE]
  /\ elapsed' = [elapsed EXCEPT ![a] = 0]
  /\ txLeft' = [txLeft EXCEPT ![a] = LeaseTTL]
  /\ cancelled' = [cancelled EXCEPT ![a] = FALSE]
  /\ LeaveTx(a)
  /\ LeaveRelease(a)
  /\ undone' = undone \ {a}
  /\ UNCHANGED <<rowVars, dbUp>>

(* After the signal the watchdog returns and main with it: the process     *)
(* ends wherever the election goroutine has got to.                        *)
Exit(a) ==
  /\ pc[a] # "down"
  /\ cancelled[a]
  /\ Vanish(a)
  /\ UNCHANGED crashes

Crash(a) ==
  /\ a \in Crashing
  /\ pc[a] # "down"
  /\ crashes < MaxCrashes
  /\ crashes' = crashes + 1
  /\ Vanish(a)

(* An attempt ends at its timeout, and the loop takes a waiting tick in no *)
(* time: time does not pass beyond either.                                 *)
Due(a) ==
  \/ pc[a] \in Attempting /\ elapsed[a] = AttemptTimeout
  \/ pc[a] = "idle" /\ fired[a]

Fade(n) == IF n > Floor THEN n - 1 ELSE Floor

Tick ==
  /\ \A a \in Agents : ~Due(a)
  /\ left' = Fade(left)
  /\ ghost' = [ghost EXCEPT !.left = Fade(@)]
  /\ ticker' = [a \in Agents |->
                  IF pc[a] \notin Looping THEN ticker[a]
                  ELSE IF ticker[a] = 1 THEN RenewEvery ELSE ticker[a] - 1]
  /\ fired' = [a \in Agents |->
                 fired[a] \/ (pc[a] \in Looping /\ ticker[a] = 1)]
  /\ elapsed' = [a \in Agents |->
                   IF pc[a] \in Attempting THEN elapsed[a] + 1 ELSE elapsed[a]]
  /\ txLeft' = [a \in Agents |->
                  IF pc[a] \in Attempting \ {"connect"}
                  THEN Fade(txLeft[a]) ELSE txLeft[a]]
  /\ UNCHANGED <<leaderId, lock, lateVars, dbUp, pc, flag, cancelled, crashes>>

AgentStep(a) ==
  \/ Start(a) \/ CreateTable(a) \/ CreateTableFails(a) \/ StartAttempt(a)
  \/ BeginTx(a) \/ LockRow(a) \/ MissRow(a) \/ InsertRow(a) \/ SkipInsert(a)
  \/ Renew(a) \/ Takeover(a) \/ Defer(a) \/ CommitRow(a) \/ Reply(a)
  \/ AttemptFails(a) \/ Signal(a) \/ SeeCancel(a) \/ Release(a)
  \/ Exit(a) \/ Crash(a)

Next ==
  \/ \E a \in Agents : AgentStep(a) \/ LateRelease(a)
  \/ GhostEnds \/ DbStops \/ DbStarts \/ Tick

Spec == Init /\ [][Next]_vars

-----------------------------------------------------------------------------
(* Safety.                                                                 *)

(* The configurations the election is safe for: a renewal is due, and may  *)
(* take one attempt's timeout, before any clock can see the lease expire.  *)
(* Nothing in the code checks them; the defaults 30, 10, 5 satisfy them    *)
(* for clocks less than 15 seconds apart.                                  *)
SafeTiming ==
  /\ LeaseTTL > MaxSkew + RenewEvery + AttemptTimeout
  /\ LeaseTTL > MaxSkew + 2 * AttemptTimeout

(* An agent whose last attempt wrote the row owns the row, and no agent's  *)
(* clock can see its lease expired (election.go:50: "IsLeader returns true *)
(* if this agent currently holds the leader lease").  Renewals that fail,  *)
(* are late, lose the answer to their COMMIT or leave a transaction behind *)
(* could all break it.  One thing does: a release of the agent's previous  *)
(* process that the server comes to after the write (undone).              *)
HeldMeansLease == \A a \in Held : leaderId = a /\ left > MaxSkew

(* At most one agent believes it leads (README.md: "Only the leader        *)
(* triggers failover").  The code breaks it through the flag an attempt    *)
(* sets when it could not lock the row.                                    *)
AtMostOneLeader == \A a, b \in Agents : IsLeader(a) /\ IsLeader(b) => a = b

(* Election implements the abstract lease: the row's leader_id is its      *)
(* owner, and the agents whose last attempt wrote the row lead on it.  A   *)
(* take-over, an insert or a late commit of a transaction nobody waits for *)
(* may move the row only while nobody leads.                               *)
Lease == INSTANCE LeaderLease WITH owner <- leaderId, leading <- Held
ImplementsLease == Lease!Spec

(* A write of the row never shortens a lease: not even a transaction that  *)
(* commits long after its agent gave up on it undoes a younger renewal.    *)
(* Only the UPDATE of releaseLease shortens one, when its agent runs it or *)
(* late, and never another agent's lease.                                  *)
LeaseShortened == left' < left - 1
OnlyReleaseShortens ==
  [][LeaseShortened => \E a \in Agents :
                         leaderId = a /\ (pc[a] = "release" \/ a \in late)]_vars

-----------------------------------------------------------------------------
(* Why they hold: the inductive invariant.                                 *)

(* One transaction at a time has the row locked; the one that read the row *)
(* found one; a transaction left behind is of an agent that has not led    *)
(* since.                                                                  *)
LockInv ==
  /\ lock # NoAgent => pc[lock] \in {"decide", "commit"} /\ ghost.id = NoAgent
  /\ lock # NoAgent /\ pc[lock] = "decide" => leaderId # NoAgent
  /\ ghost.writes => ghost.id # NoAgent
  /\ \A a \in Agents : ghost.id = a => flag[a] # "held" /\ pc[a] # "reply"
  /\ leaderId = NoAgent => left = Floor

(* A write that awaits its COMMIT renews its own lease, makes the first    *)
(* one or takes an expired one; and it lengthens the lease.                *)
MayWrite(a) == leaderId \in {a, NoAgent} \/ left <= MaxSkew
WriteInv ==
  /\ \A a \in Agents :
       lock = a /\ pc[a] = "commit" => MayWrite(a) /\ left <= txLeft[a]
  /\ \A a \in Agents : leaderId = a => left <= txLeft[a]
  /\ ghost.writes => MayWrite(ghost.id) /\ left <= ghost.left
  /\ \A a \in Agents : ghost.id = a => ghost.left <= txLeft[a]

(* An attempt's lease ages with its context, and while it runs the next    *)
(* tick draws nearer.                                                      *)
AgeInv ==
  \A a \in Agents :
    /\ pc[a] \notin Attempting => elapsed[a] = 0 /\ txLeft[a] = LeaseTTL
    /\ pc[a] \in Attempting => txLeft[a] >= LeaseTTL - elapsed[a]
    /\ pc[a] \in Attempting /\ ~fired[a]
         => ticker[a] + elapsed[a] <= RenewEvery

(* The lease of an agent that leads outlasts the wait for the next tick    *)
(* and the longest attempt that follows it; and the lease just written is  *)
(* the row's until its writer has the answer.                              *)
HeldInv ==
  \A a \in Agents \ undone :
    /\ flag[a] = "held" => leaderId = a /\ pc[a] \in Looping
    /\ flag[a] = "held" /\ pc[a] = "idle"
         => left > MaxSkew + AttemptTimeout
                   + (IF fired[a] THEN 0 ELSE ticker[a])
    /\ flag[a] = "held" /\ pc[a] \in Attempting
         => left > MaxSkew + AttemptTimeout - elapsed[a]
    /\ pc[a] = "reply" => leaderId = a /\ left = txLeft[a]

IInv == TypeOK /\ LockInv /\ WriteInv /\ AgeInv /\ HeldInv

-----------------------------------------------------------------------------
(* Progress.  The election goroutine keeps running, time passes, and the   *)
(* server notices sooner or later that a transaction has lost its client.  *)
(* Signals and crashes need not happen, nor need a process be started.     *)
Loops(a) ==
  \/ CreateTable(a) \/ CreateTableFails(a) \/ StartAttempt(a)
  \/ BeginTx(a) \/ LockRow(a) \/ MissRow(a) \/ InsertRow(a) \/ SkipInsert(a)
  \/ Renew(a) \/ Takeover(a) \/ Defer(a) \/ CommitRow(a) \/ Reply(a)
  \/ AttemptFails(a) \/ SeeCancel(a) \/ Release(a)

Fairness ==
  /\ WF_vars(Tick) /\ WF_vars(GhostEnds)
  /\ \A a \in Agents : WF_vars(Loops(a))

FairSpec == Spec /\ Fairness

(* Whatever happened before, once the database stays up and some election  *)
(* loop keeps running, agents keep being elected: a crashed leader's lease *)
(* runs out, and neither a transaction left behind nor the agents' skipping*)
(* over each other's locks stops the take-over for ever.                   *)
LoopElects ==
  <>[](dbUp /\ \E a \in Agents : pc[a] \in Looping /\ ~cancelled[a])
    => []<>(Held # {})
=============================================================================
