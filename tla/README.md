# A TLA+ verification of replicon

replicon operates two kinds of PostgreSQL clusters. In *master-slave* mode it
watches a primary, elects one of several watching agents as leader through a
row in a coordination database, and fails over to a standby when the primary is
gone; the old primary is rebuilt as a standby by hand. In *master-master* mode
it captures DDL on every node and replays it on the others, because logical
replication does not. For both it has a verification, an active probe, an audit
log, metrics and an admin API.

This directory models the parts of it that have state or meet servers that
change meanwhile, checks them with TLC on small instances, and proves with
TLAPS what matters most for every instance. Paths below are relative to
`src/internal/replication/` unless they start with `src/`.

## 1. Inventory

| Component | State it keeps | Operations | What is hard | What makes it correct |
|---|---|---|---|---|
| Leader election (`election.go`) | the row `(leader_id, lease_until)`; per agent `isLeader`, a ticker, a transaction | create the table, attempt (lock, insert, renew, take over, defer, commit), release at shutdown | attempts of several agents interleave call by call; lost answers to COMMIT; transactions that outlive their agent; a flag without expiry beside a lease with one; clock skew | who leads owns the lease; the lease changes hands only while nobody leads; agents keep being elected |
| Watchdog (`watchdog.go`, `runWatch` in `src/main.go`) | count of failed checks; place in the failover sequence; the context | check, count, stand aside, fence, ask the witness, choose, promote, confirm, stop on a signal | minutes pass between decision and effect; the primary, leadership and other agents change meanwhile; a command that failed may have worked; signals | no promotion beside a running primary; one writable server; an outage is dealt with |
| Promotion and rejoin by hand (`ops.go`) | none; the old primary's directory, a backup beside it, a slot on the new primary | choose a target, promote, rebuild the old primary | commands run one by one over SSH; requests are sent again while the first still runs; scripts outlive their connection; crashes at every point | no acknowledged write is lost; one primary is left; a report is true; a workflow that was cut off can be done again |
| DDL tracking and sync (`ddl.go`) | per node the log table and the event trigger | set up, capture, read, disable, replay, enable, mark | applications run DDL meanwhile; every statement is its own transaction; a run may die anywhere; the trigger is shared by all sessions | what is logged gets everywhere; nothing is logged that was replayed; the trigger is off only for a replay |
| Probe (`probe.go`) | table, rows, subscriptions; clean-ups deferred so far | prepare, insert, await, delete, await, clean up | replication lags or stands still; any call fails; probes overlap | PASS is earned; FAIL is the link's; nothing stays behind |
| Verification (`verify.go`) | none, reads only | judge the replication of every standby, or of two masters | servers and connections change between its queries; rows are found by address or name | PASS is earned |
| Service (`service.go`, `metrics.go`) | the audit file, counters, a mutex | run a command, count it, log it, read the log back | several processes, one file; cut writes; lines too long to read; reading while others write; clocks that disagree | the history is the log's end, by start time; counters and log agree |
| Admin API, command line (`src/main.go`) | none of its own | start the above | requests in parallel, cut off after 60 seconds while their workflow goes on | as above |
| Preflight (`preflight.go`) | none | try SSH on every node | - | - |
| Conflicts (`conflicts.go`) | handler table on a node | look for stalled subscriptions; two functions without a caller | - | - |
| Configuration, validation, rendering, redaction | none | pure functions | - | - |

How they interact. `watch` starts the election in a goroutine and runs the
watchdog in its own; they share `IsLeader()`, the context that a signal cancels,
and the process. The watchdog calls the promotion of `ops.go`. Agents on
different hosts meet only in the coordination database and in the PostgreSQL
servers they stop and promote. `serve` and the commands meet in the audit file,
in the probe's table and, when a promotion or rejoin is requested twice, in the
servers' directories; `ddl-sync` runs of several hosts meet in the nodes' logs
and triggers.

## 2. Modules

| Module | Models | Written for |
|---|---|---|
| `LeaderLease` | what the election promises: one owner, leading only while owning | abstract specification |
| `LeaderElection` | `election.go`, with time | TLC and proof |
| `FencedFailover` | what a failover promises: the primary stops for good, then standbys become primaries for good | abstract specification |
| `Failover` | `watchdog.go`, promotion in `ops.go`, `runWatch` | TLC and proof |
| `WatchCluster` | whole `watch` processes: `LeaderElection` and `Failover` composed | TLC and proof |
| `Handover` | `PromoteStandby` and `RejoinOldPrimary` of `ops.go`, requested by hand | TLC and proof |
| `DDLDelivery` | what DDL sync promises: delivery at least once, an entry settled when every node had or missed it | abstract specification |
| `DDLSync` | `ddl.go`, `ddl-setup`, `ddl-sync` | TLC and proof |
| `Probe` | `probe.go` | TLC and proof |
| `Verification` | `verifyMasterSlave` of `verify.go`, names and slots of `render.go` | TLC and proof |
| `AuditTrail` | what the audit log promises: written and read in one step each | abstract specification |
| `AuditLog` | `service.go`, `metrics.go`, the handlers of `serve` | TLC and proof |
| `...Proofs` | the theorems of the module | TLAPS |
| `MC...` | the instances that TLC checks | TLC |

An operator whose comment starts with "Mutant of X" is a plausible mistake in
`X`; put in its place it makes the property that it belongs to fail. No
specification uses it.

### LeaderElection

`leaderId` and `left` are the committed row, with `lease_until` as a countdown;
`lock` is the running transaction that has the row locked, `ghost` one whose
client is gone. `pc` is the goroutine: `create` (`ensureTable`), `idle`
(waiting for the ticker), then the calls of `tryAcquireOrRenew` one by one -
`connect`, `select`, `insert` or `decide`, `commit`, `reply` - and `release`,
`exited`, `down`. `flag` is `isLeader`, with the two ways to become true kept
apart: `held`, the attempt wrote the row and has the answer, and `skipped`, the
attempt could not lock the row, its INSERT did nothing, and the code went on.
`Tick` is the passage of time for everybody: it waits for a step that is due,
such as the end of an attempt's five seconds.

The UPDATE of `releaseLease` may wait at the server for the row, past its three
seconds and past its process (`LeaveRelease`): `late` are the agents of which
one does, and `LateRelease` is the server that comes to it, or drops it. It may
then end the lease that the same agent's next process has written; `undone` are
the agents to which that happened, until they write the row again.

`HeldMeansLease` is about `held` only, because `skipped` breaks what the flag
should mean (run `election_two_leaders`), and excepts `undone` (`Held`). `ImplementsLease` is the refinement
of `LeaderLease` by `owner <- leaderId, leading <- Held`.

### Failover

One action per remote command, query or decision. `wpc` is the place in
`RunWatchdog` and `executeFenceAndPromote`: `watch`, `fence`, `witness`,
`select` (the target that is announced), `reselect` (the one that
`PromoteStandby` chooses anew), `promote`, `confirm`, `done`, `failed`. A fence
or a promotion that fails may still have worked. `leaders` is what `IsLeader()`
answers each agent; `LeaderSets` says which agents can be leaders together, so
that the module stands for an election that works, one that does not, and none.
`stopping` is the context: a check under a cancelled context fails and is
counted like any other, because the code looks at the context only between
checks; fencing and promotion do not look at it.

`wal` is how far each standby has received, a number; `TextRank` says where the
position's text stands in the order of texts, which is what
`selectPromotionTarget` compares. `receiving` are the standbys whose receive
position is not null: a restarted standby has none until it streams again.

Assumed of the environment: a server stopped by the fence command stays
stopped, and pg_promote changes only the server it runs on.

`ImplementsFencing` is the refinement of `FencedFailover`. The primary is
abstractly "stopped" once it is sealed - down, and fenced or in an
environment without restarts - and `promoted` are the standbys that are
primaries.

### WatchCluster

Two instances over one state: `E` is `LeaderElection`, `F` is `Failover` with
`leaders <- Leading` (the agents whose flag is set) and `stopping <- Stopping`
(those whose context is cancelled). A step belongs to one of them and leaves the
other's variables alone, or is the process's and both make it: `ProcessStarts`,
`ContextCancelled`, `StopsOnSignal`, after which the goroutine may not have
released the lease, and `ProcessEnds`.

`TriggersOnOwnLease` relates the two: `RunWatchdog` asks `IsLeader()` once and
never looks at the row (`watchdog.go:147`), yet an agent whose own attempt wrote
the row begins its failover only while it owns a lease that is over on nobody's
clock. It says nothing of the agents that lead by `skipped`, which may fail over
on another's lease (finding 1), nor of the lease at the promotion, which comes
later.

### Handover

One action per remote command, with what the server makes of it. `pc` is the
command a workflow is at: `promote`, `confirm`; or `slot`, `stop`, `move`,
`backup`, `copying`, `start`, `check`. The data directory script is split where
it waits (`stop`, then `move` once no postgres process is left), and
pg_basebackup where it takes its time. A command is done and answers, is done
and the answer lost, or fails, which ends the workflow (`CommandFails`). A
workflow that gives up on a waiting script leaves it behind: `scripts` counts
those, and `ScriptMoves` lets one act at any later time. `dir`, `copier`,
`saved` and `slot` are what workflows meet in: the old primary's data directory
and who fills it, the backups beside it, the rejoin slot. The operator repeats
the request of workflow `First` until it is done; the others are doubles. Writes
are model values, in `data` where they are stored and in `acked` once
acknowledged.

The script's last look for a postgres process and the move are one action:
a server that somebody starts within that moment is not modelled.

### DDLSync

Nodes are numbered in the order of the configuration. `log[n]` is
`replicon_ddl_log`, `trigger[n]` the event trigger. Each SQL statement of
`replayDDLEntries` is an action, as each is a transaction: `Disable`, `Replay`
or `ReplayFails`, `Enable`; then `Mark`, entry by entry. `entries` are the ids
that a run has read. Each of these may fail alone, on a connection that lives:
DISABLE and ENABLE, whose errors the code drops (`DisableFails`, `EnableFails`),
the statement, a mark (`MarkFails`), and the query of the log, which is taken
for a shorter log (`ReadBreaks`); or the connection is lost, or the process.

Statements are model values with prerequisites and with or without the ability
to succeed twice. `Script` is what `ddl-setup` sends. It replaces a function,
which is DDL like any other: where the trigger is on already it is logged, and
ddl-sync replays it. Three history variables: `missed` has the pairs of
statement and node of which a replay failed or was passed over, `cut` the nodes
that a run left between DISABLE and ENABLE or whose ENABLE failed, `loud` the
pairs of which the DISABLE failed or was undone before the statement ran.

`ImplementsDelivery` is the refinement of `DDLDelivery`, with `applied`, `log`
and `missed` as they are: the run, its target and the triggers are what the
abstract specification does not have. A replay may be logged again on its
target, an echo; the abstract delivery allows that, and `NoEcho` says that it
happens only to the pairs in `loud`. It is about the statements of applications.

### Probe

`mode` is chosen at the start; a leg is a path the probe tests. `wal[l]` is what
link `l` has still to apply. A subscription that has not been refreshed drops
the probe's changes. `deferred` are the clean-ups registered by `defer`.
`abandoned` is history: rows of which the probe knows nothing any more.

### Verification

`pc` is the next call of `verifyMasterSlave`, which goes through the standbys:
connect, ask the primary for the standby's row, ask the standby. `sender` is
`pg_stat_replication`, one row per attached standby, and a slot serves one at a
time. A row is looked up by address and, when none is found, by
`application_name`; texts of addresses are records, as all that matters is that
`inet::text` has a netmask and a configured host has not. `streamed` is history.
`AppName` and `SlotName` are free: `render.go` writes the same for every standby
(`AsRendered`), which is the instance that the run checks.

### AuditLog

A request is counted (`Observe`), takes the mutex of its process (`Lock`), and
appends its line in one write, which is one step, as the file is opened with
O_APPEND. `created` says that there is a log. A record that is given up or cut
short (`CutShort`) leaves nothing, an empty file, a part of its line, or all of
it but the newline; the file is then `ragged` and the next result continues the
line. A line is `whole` when it is one entry that fits the reader's buffer. The
reader (`Open`, `Scan`, `EndOfFile`) is the loop of `decodeTailAuditLog`, one
line per step, with `ring`, `pos` and `full` as in the code. `Open` fails while
there is no log. A last line without its newline is read like any other.
`Answers` is the sort by `StartedAt`: `Start` gives each request its time, by a
clock that need not agree with the order in the log, and equal times may come
out in any order.

`ImplementsTrail` is the refinement of `AuditTrail` by `lines <- file`,
`open <- ragged` and `exists <- created`. What is done step by step here happens
there at once: the reading at the step that finds the end of the file, where the
reader, which began with a shorter file, has come to the end of the log as it
then is; the error where there is no log or at the line that cannot be read.

## 3. Runs

| Run | Shows | Instance |
|---|---|---|
| `election_safety` | `HeldMeansLease`, the inductive invariant, the refinement, and that only an agent's own release, at its time or late, shortens a lease | two agents, clocks two apart, every fault, one of them signalled again and again, its process ending anywhere and its release coming late; the shortest lease that `SafeTiming` allows: with a lease one shorter `HeldMeansLease` fails |
| `election_live` | `LoopElects`: outages, skipped locks and a crash never end the election | two agents, one crash |
| `election_two_leaders` | violation: two leaders without any fault | two agents, no fault |
| `failover_fence` | no promotion beside a running primary; all of it is a fenced failover (`ImplementsFencing`) | two agents, any of them leader, two standbys, every fault but the witness's, signals included, no witness |
| `failover_one_standby` | one writable server, an outage is dealt with | three agents, one of them `-dry-run`, any of them leader, a witness |
| `failover_text_order` | violation: the standby that is behind is promoted | one agent, two standbys, two positions whose texts are in the reverse order |
| `watch_cluster` | a failover begins on the agent's own lease; the agent that is left fails over | two whole processes, the second a dry run that a signal or a crash may end, two starts, one standby, a lease of three |
| `handover` | no write is lost, no rejoined server has diverged, the report is true, one primary is left, the handover can always be completed | a request repeated until it is done and a double beside it, two writes, three failures |
| `ddl_replay` | nothing is marked untried, an echo needs a DISABLE that failed or was undone, the trigger is off only for a replay, all that is logged gets everywhere unless refused; all of it is a delivery at least once (`ImplementsDelivery`) | three nodes, two of them tracked from the start, two statements of two nodes of which one needs the other, one host, one ddl-setup between any of its steps, one failure |
| `probe` | PASS is earned, waits can succeed, no row stays | two probes at once, two standbys or two masters, two failures |
| `verify_cluster` | violation: PASS for a standby that never streamed | two standbys set up with what `render` writes |
| `audit_history` | the history is the log's end in the order of the start times; metrics and log agree; reading and writing look as if done in one step each (`ImplementsTrail`) | a service with three requests, a command with one; the first starts before the others and is logged when it is done, the command's clock is behind, equal start times; one fault, two entries returned; two requests that differ in nothing are symmetric |

Why these bounds are enough. The faults of the election involve one holder, one
contender and one transaction left behind; two agents make all three, as a
process that ends after a signal leaves one like a crash. Only the agent whose
clock is behind is signalled (`Signalled`): the other is the one that would take
over too early. A crash is in `election_live`, and in the theorems. Its time constants are the smallest for which a renewal can come late
and still be in time, and one tick less is too little. The failover hazards
need two agents past the same check and two standbys to choose from; thresholds
of two distinguish the first failure from the last. In `watch_cluster` the
threshold is one and the clocks agree, because the product of the two components
is large; the lease is the shortest that `SafeTiming` allows. Three
failures let a rejoin be cut off twice, once with a script left behind, beside a
double and a crash. Three nodes are the fewest on which a replay can reach some
targets and miss others. Two hosts that undo each other's DISABLE echo without
end, so TLC is given one host, and ddl-setup undoes its DISABLE; that the safety
properties hold for any number of hosts is proved. Two probes and two legs make a clean-up that is not the
first and another probe's row on the same link. Four lines and two slots wrap
the ring and read it while lines come.

What a run does not reach. `failover_fence` has no witness; the theorems have
one, under `SafeWitness`. `failover_one_standby` has one standby, so it does not
meet the split brain of two agents that choose different standbys (5), and no
primary that comes back. `OutageEnds` is about an agent that leads from some
moment on, so leadership that never rests is outside it. In `watch_cluster` the
coordination database and SSH work and the other agent is a dry run, so no agent
stops there within a failover of its own.

Fairness. `LeaderElection!FairSpec`: time passes, the server notices at last
that a transaction's client is gone, and each election goroutine runs - it is a
loop over a ticker, each step of which ends by itself or by the five second
context. Signals, crashes, starts and the database's recovery are not forced.
`Failover!FairSpec`: the loop of each agent runs (every command has a time-out);
servers need not crash or recover. `WatchCluster!FairSpec` is both, for the
agents that act, no process being forced to start or end. `Handover!FairSpec`: the operator requests
again and again until it is reported, each workflow's commands end (each has a
time-out), the standby is started after a crash, a promotion that has begun
ends. The old primary need never come back by itself, nor a left script end.
`DDLSync!FairSpec`: ddl-sync is started again and again, as `src/README.md:53`
asks, and each run goes on to its end. `Probe`, `Verification` and `AuditLog`
are checked for safety only.

Deadlock is not checked where the system may stop: in `probe` (the probes end),
`failover_text_order` (the failover is over and nothing is left to fail),
`handover` (the handover is done) and `watch_cluster` (no start is left).

## 4. Proofs

Proved by TLAPS for all values of the constants that satisfy the assumptions.

`LeaderElectionProofs`:
- `TypeCorrect`, for all constants.
- `InvCorrect`, `HeldLease`, `ElectionImplementsLease`, `NoLeaseShortened`, under
  `SafeTiming` and with all faults, outages, crashes and late releases included: the lease outlasts the skew, a renewal interval and an attempt.
  Nothing in the code checks it; the defaults (30, 10 and 5 seconds) satisfy it
  for agents whose clocks are up to 14 seconds off the database's.

`HeldMeansLease` alone is not inductive. That a leader's lease is long enough
now does not say that it will be until the next renewal: `HeldInv` adds that it
outlasts the ticker and the attempt that follows. That renewal may have been
written by a transaction older than the row: `WriteInv` says that what a pending
write - an attempt's or a ghost's - would set is never shorter than what the row
has, and that it writes only an own or an expired row. `AgeInv` ties the pending
lease to the age of its attempt, and `LockInv` says that only one transaction
has the row. `NoLeaseShortened` follows from `WriteInv`: what shortens a lease is
the UPDATE of `releaseLease`, while its agent runs it or later, and the lease is
one of that agent's. The refinement follows, too: `Acquire` is a commit, and the invariant
makes sure that nobody leads then.

`OneHoldsTheOtherSkipped`, under `SafeTiming`, bounds the violation of
`election_two_leaders`: of two agents that lead together one has its flag from
an INSERT that inserted nothing, or its lease was ended by the late release of
its own previous process. It is proved of `LeaderLease` (leaders own, and
there is one owner) and comes down to the code by the refinement.

`FailoverProofs`:
- `TypeCorrect`, for all clusters.
- `InvCorrect` and `NoPromotionBesidePrimary`, under `SafeWitness`: no witness,
  or one that has dblink, answers truly and has no primary come back after it
  was asked. Any number of agents, all of them leaders at once if need be, any
  signals.
- `OneStandbyNoSplitBrain`: with one standby in addition, at most one server is
  writable. With two it is false: see 5.
- `OneAgentNoSplitBrain`: with any number of standbys there is no split brain
  either if only one agent acts, however often it ends and is started again.
  `OnceInv` says that whenever it is on its way to a promotion every standby is
  a standby, because a new start verifies replication first, and that at most
  one was ever promoted.
- `FailoverIsFenced`, under `SafeWitness`: `Failover` implements
  `FencedFailover`. The steps of servers and agents are matched one by one;
  that a standby becomes a primary, at the command or long after it, only while
  the primary is sealed, is `SealInv`. `FencedGenerations` is proved of the
  abstract specification and inherited.
- `MostAdvancedPromoted`, under `SafeWitness`, without failing queries and with
  `TextsInOrder`: no running standby that has a position to tell had more of the
  WAL than the one chosen. It is the other half of finding 2: the texts' order is
  all that is wrong with the choice. `AheadRank` and `TargetBest` are the lemmas
  about the selection: it always returns a configured standby, and one that no
  other is ahead of, which takes a least element of a set of naturals (`Least`).

The invariant is `SealInv`: an agent past fence or witness has the primary
*sealed*, stopped and not coming back, and so has every promotion. It is needed
because the promotion happens several steps after the fence, by which time any
other agent may have acted.

`WatchClusterProofs`, for any number of whole processes:
- `ClusterPromotesFenced`, `ClusterOneAgentSafe`, `ClusterHeldLease`: what is
  proved of the components holds of the processes. By the lemmas
  `ClusterIsOfFailover` and `ClusterIsOfElection` every step of the composition
  is a step of each component or leaves it alone, and the assumptions of the
  components follow from `WatchdogAssumption` and `ElectionAssumption`. The
  lemmas hold by the way the composition is built; what they carry over is not.
- `ClusterTriggersOnOwnLease`, under `SafeTiming`: `TriggersOnOwnLease`, from
  `ClusterHeldLease`, whatever faults, signals and crashes there are.

`HandoverProofs`, for any number of workflows, failures and repetitions:
- `TypeCorrect`, with `DirInv`: a directory that is not whole has no data and no
  server, and one that is being copied to is half filled.
- `WritesKept`: `NoWriteLost` is inductive given the types.
- `RejoinTrue`: the report of a rejoin is true. `MovedInv` says that from a
  workflow's move on a whole directory is a copy with a recovery configuration,
  whoever made it; a script left behind can only take it away.
- `OldPrimaryGone`: from the moment any workflow is past its move the old primary
  never accepts a write again, whoever starts it (`Moved` is stable).
- `CopiesNeverDiverge`: a directory with a recovery configuration holds nothing
  that the new primary has not. Inductive given `DirInv`: it changes by EndCopy,
  by streaming from the new primary, and by being moved away.
- `OnePrimary`: once a rejoin is reported, one primary is left, if no standby
  crashes while it promotes (`CrashWhilePromoting`). `ToldInv` says that a
  standby that was told to promote stays so until it is.

`DDLSyncProofs`, for any number of nodes, hosts and statements:
- `TypeCorrect`, with `SyncInv`: a run's target and entries exist.
- `GapsAreReplays`: a trigger is off only where some run is between DISABLE and
  ENABLE, or died there, or where ENABLE failed.
- `NothingMarkedUntried`: `TriedInv` says that for every target a run is past,
  and every entry it is past on the target it is at, the statement has run there
  or is in `missed`; `LogApplied` says that what is logged ran on that node.
- `SyncImplementsDelivery`: `DDLSync` implements `DDLDelivery`. A `Mark` settles an
  entry that every node had or missed, which is `TriedInv`; a replay delivers an
  entry that its source has, which is `SyncInv`; a failure misses only statements
  that are logged and have not run there. No assumption on hosts or failures.
- `NothingMadeUp`: no node runs or logs what has not run where it came from,
  proved of `DDLDelivery`.
- `EchoesAreOverlaps`: a replayed statement of an application is logged on its
  target only if its DISABLE failed or another run or ddl-setup enabled the
  trigger before it ran. `QuietInv` says of every run that is about to execute
  that the trigger is not on or its pair is in `loud`. No assumption on hosts,
  ddl-setup or failures.

`ProbeProofs`, for any number of runs and standbys:
- `TypeCorrect`, `PassShows`, `WaitsForTheLink`, `LeavesNothing`.

Their common invariant `IInv` has three parts. `LinkInv`: on every link the
insertion of a row comes before its deletion, each at most once, so that the link
applies them in that order. `RowInv`: a row at a target is one that is at its
source, or its deletion is under way. `ProberInv` says of each run that its table
and subscriptions are ready where it is about to work (`Ready`), that rows it has
not come to are nowhere (`Unused`), that the row it waits for is at its end or
under way on a link that heeds it (`Busy`), that the legs it has passed are
settled (`Done`) and that whatever else it wrote has a clean-up registered or is
abandoned (`Cleans`). None of them is inductive without the others: a wait is
for the link only because no other run's deletion can overtake the row.

`VerificationProofs`, whatever the names and slots:
- `OneStreamed`: where verify says PASS some standby streamed while it ran.
  `SeenInv`: the state a row was found in is that of some standby's row.
- `SingleStandbyStreamed`: with one standby, PASS means that it did. This is what
  the violation of `verify_cluster` leaves intact.
- `RenderedClusterHasOneStandby`: where all standbys use the slot that `render`
  writes, at most one of them is ever attached.

`AuditLogProofs`, for any number of processes, requests, faults and any limit:
- `TypeCorrect`.
- `MetricsAgree`: `CountInv` equates each counter with the number of the
  requests past `Observe` with that status; `LineInv` and `MutexInv` say which of
  them are in the log, and that one request at a time writes per process.
- `HistoryIsEnd`: the history is a permutation of the log's last entries that is
  sorted by their start. `Holds` says which line of the log each slot of the ring
  holds, the position wrapping modulo the limit (`LineAt`), and that these lines
  have their end, so that they never change (`Ended`); `ArrangedLines` carries
  it through the sort.
- `LogIsTrail`: `AuditLog` implements `AuditTrail`. `AddLineLogs` and
  `CutShortLogs`: whichever process writes, and however the write is cut, at most
  one result is added that was not there, and no readable line that has its end
  changes. `AnswerLogs`: where the reader finds the end of the file, after a
  newline or without one, what it answers is of the end of the whole log.
- `EntriesStay`: no result is in the log twice, and a readable entry that has its
  end stays where it is for ever. One that was cut just before its newline is
  readable until the next result is appended to it.

Only model-checked: liveness, which the prover does not reach (`LoopElects`,
`OutageEnds`, `SurvivorFailsOver`, `HandoverCompletes`, `CapturedIsReplayed`).
Every other property of the passing runs is proved. No module has a RECURSIVE
operator.

## 5. Where code and documentation part

Shown by a violation run, and listed as findings:
1. An attempt that cannot lock the row becomes leader (`election.go:160-175`).
2. The promotion target is chosen by comparing positions as texts, and
   "0/9FFFFFF" is greater than "0/10000000" (`ops.go:108`; `src/README.md:47`
   promises the most up-to-date standby).
3. Verification finds no standby by its address, because `inet::text` writes a
   netmask, and falls back to a name that all standbys share (`verify.go:102`;
   `src/README.md:34` says that all standbys are checked).

Met while modelling, in the models but without a run of their own:
- Leadership is checked once, before fencing (`watchdog.go:147`): with two
  standbys, two agents that lead one after the other may promote both.
- A missing dblink counts as confirmation that the primary is down
  (`watchdog.go:372`).
- The target is chosen twice and the second choice may differ
  (`watchdog.go:291`), and psql exits with 0 whatever `SELECT NOT
  pg_is_in_recovery()` prints, so the watchdog announces a node as the new
  primary that is not promoted, or not yet (`watchdog.go:298-317`, `ops.go:38`).
  No property speaks of the announced node: it is the primary only where a
  query never fails, no standby crashes and pg_promote waits long enough.
- For the same reason a rejoin succeeds although the standby crashed while it was
  promoting, and no primary is left: `handover` sets `CrashWhilePromoting` to
  FALSE, without which `OnePrimaryAfterRejoin` fails. A rejoin does not check that
  its new primary was promoted.
- A second promotion of a promoted standby fails with "recovery is not in
  progress", so a promotion whose answer was lost is never reported.
- A signal during a check is counted as a failed check (`watchdog.go:116`), and an
  agent at the threshold then fences a healthy primary.
- `watch` ends without waiting for the lease to be released (`watchdog.go:112`;
  `src/README.md:160` says that the leader expires its lease). It costs the time
  the lease has left: `SurvivorFailsOver` holds.
- A dry-run agent takes part in the election and holds the lease like any other
  (`src/README.md:142`); while it does nobody fails over.
- An agent whose `ensureTable` fails at start never joins the election
  (`election.go:83`; `src/README.md:216` speaks of a stall until the database
  recovers).
- ddl-sync marks an entry as replayed although a node missed it (`ddl.go:226`;
  `src/README.md:54`), and disables the trigger for every session (`ddl.go:239`),
  so that an application's DDL in that window is not captured.
- A DISABLE that fails is ignored (`ddl.go:239`), and one that another host's
  ENABLE or ddl-setup undoes is not noticed: the replay is logged as new DDL and
  replayed in turn (`src/README.md:54`: "to avoid loops"). `EchoesAreOverlaps`
  says that nothing else makes an echo.
- ddl-setup, run again, is logged by the trigger that it replaces and replayed
  on the other nodes.
- The releasing UPDATE of an agent may reach the row after its process ended
  (`election.go:247-261`) and end the lease of the process that was started
  after it. Its flag then stays until the next renewal, beside another leader.
- A refused preflight of `/api/v1/promote` and `/api/v1/rejoin` is not recorded
  (`src/main.go:279-289`; `src/docs/service-mode.md:97` says that every request is).
- A cut line of the audit log, and one of more than 64 KiB, end every later
  history with an error. An entry cut just before its newline is returned until
  the next one is appended to it, which makes both unreadable (`service.go:268`).
- The history is an error until the first record is written (`service.go:219`).

Read in the code, outside the models:
- In cluster mode `cfg.Standby` is empty, so `rejoin` runs `ssh ""` (`ops.go:134`).
- `CheckConflicts` takes a node that it cannot reach for one without conflicts.
- `render` writes a `pg_basebackup --create-slot` for a slot that the rendered
  SQL has created already.

## 6. Not modelled, and why

Configuration, validation and redaction are pure functions of text; of rendering
only the names and slots that `Verification` needs. Verification of
master-master mode judges one query per node, and `watch` starting on a verdict
is in `Failover`. Conflict handling has no caller but the check that reads. TLS,
authentication and HTTP status codes change no state; that the API's answer is
cut off while the workflow goes on is in `Handover`. A process that is paused
for longer than its lease is outside the election model, in which time passes
for all agents alike.

`Probe` and `DDLSync` are modelled each on nodes on which the other is not used.
Together they would show that a probe's refresh makes the nodes replicate
`replicon_ddl_log` itself (`probe.go:193`), with serial ids that collide.

## 7. Order of work, and what would come next

The order was: the election and its lease, the watchdog, both composed; then
what is done by hand (`Handover`); then `DDLSync`, `Probe`, `AuditLog`; last
`Verification`. Each module was checked before it was proved about, and its
inductive invariant with it. Further steps, by what they would add:

1. `ProbeDDL`: ddl-setup, probe and ddl-sync on two nodes, as said in 6.
2. A paused agent: a clock per agent in `LeaderElection`.
3. What a probe promises as a specification of its own, and `Probe` shown to
   implement it.
