-------------------------------- MODULE Probe --------------------------------
(***************************************************************************)
(* `replicon probe` (src/internal/replication/probe.go): proof by writing  *)
(* that replication moves data.                                            *)
(*                                                                         *)
(* A probe makes the probe table, in master-master mode refreshes the two  *)
(* subscriptions, and then goes through its legs one after the other: it   *)
(* inserts a row on the leg's source, waits until the target shows it,     *)
(* deletes it and waits until the target has lost it.  A deferred clean-up *)
(* deletes the row again however the probe ends.  Several probes may run   *)
(* at once (the command line and the service know nothing of each other).  *)
(*                                                                         *)
(* Replication is a FIFO channel per link.  In master-slave mode a standby *)
(* has the table before any row of it.  In master-master mode a link       *)
(* carries rows only, and a subscriber drops the changes of a table that   *)
(* its subscription has not been refreshed for.  A link may be slow or     *)
(* stand still: applying is never forced.                                  *)
(***************************************************************************)
EXTENDS Naturals, Sequences, Functions

CONSTANTS
    Probers,        \* the runs of the probe
    Primary,        \* master-slave: the primary ...
    Standbys,       \* ... and its standbys, in the order of the configuration
    NodeA, NodeB,   \* master-master: the two nodes
    Modes,          \* the modes of the configuration that are looked at
    MaxFailures     \* bound on failed calls and crashes

ASSUME NodesAssumption ==
    /\ Len(Standbys) \in Nat \ {0} /\ DOMAIN Standbys = 1 .. Len(Standbys)
    /\ Primary \notin Range(Standbys) /\ NodeA # NodeB
    /\ Modes \subseteq {"master-slave", "master-master"}
    /\ MaxFailures \in Nat

VARIABLES
    mode,           \* Config.Mode
    table,          \* the probed servers that have been given the probe table
    subscribed,     \* the nodes whose subscription knows the table
    rows,           \* the probe rows of each server
    wal,            \* what each link has still to apply
    pc,             \* where each probe is
    at,             \* its step of the preparation, then its leg
    deferred,       \* its clean-ups, the last registered last
    verdict,        \* what it reported
    abandoned,      \* history: rows that the probe lost sight of
    failures        \* failed calls so far

servers == <<table, subscribed, rows, wal>>
vars == <<mode, servers, pc, at, deferred, verdict, abandoned, failures>>

Nodes == {Primary, NodeA, NodeB} \cup Range(Standbys)
Both == {NodeA, NodeB}
Peer(n) == IF n = NodeA THEN NodeB ELSE NodeA

\* The paths a probe walks, in their order.
LegsOf(m) == IF m = "master-slave"
             THEN [i \in DOMAIN Standbys |-> [from |-> Primary, to |-> Standbys[i]]]
             ELSE <<[from |-> NodeA, to |-> NodeB], [from |-> NodeB, to |-> NodeA]>>
Legs == LegsOf(mode)
Links == UNION {Range(LegsOf(m)) : m \in {"master-slave", "master-master"}}

\* newProbeID: a row of its own for every leg of every run.
Ids == Probers \X (1 .. Len(Standbys) + 2)
Row(p) == <<p, at[p]>>
Leg(p) == Legs[at[p]]
\* (Mutant of Source.)  The clean-up of the reverse path goes to node A, too.
ForwardSource(id) == Legs[1].from
\* Where the clean-up of a row goes.
Source(id) == Legs[id[2]].from

Event == [op : {"insert", "delete"}, id : Ids]
Inserted(id) == [op |-> "insert", id |-> id]
Deleted(id) == [op |-> "delete", id |-> id]
Pending(link, e) == e \in Range(wal[link])

\* (Mutant of Preparation.)  Each node is made ready in turn: the first refresh
\* finds no table at the peer.
NodeByNode ==
    IF mode = "master-slave"
    THEN <<[do |-> "ensure", node |-> Primary]>>
    ELSE <<[do |-> "ensure", node |-> NodeA], [do |-> "refresh", node |-> NodeA],
           [do |-> "ensure", node |-> NodeB], [do |-> "refresh", node |-> NodeB]>>

\* What has to be done before the first row, in this order.
Preparation ==
    IF mode = "master-slave"
    THEN <<[do |-> "ensure", node |-> Primary]>>
    ELSE <<[do |-> "ensure", node |-> NodeA], [do |-> "ensure", node |-> NodeB],
           [do |-> "refresh", node |-> NodeA], [do |-> "refresh", node |-> NodeB]>>

Init ==
    /\ mode \in Modes
    /\ table \in SUBSET (IF mode = "master-slave" THEN {Primary} ELSE Both)
    /\ subscribed \in IF table = Both THEN SUBSET Both ELSE {{}}
    /\ rows = [n \in Nodes |-> {}]
    /\ wal = [l \in Links |-> <<>>]
    /\ pc = [p \in Probers |-> "idle"]
    /\ at = [p \in Probers |-> 1]
    /\ deferred = [p \in Probers |-> <<>>]
    /\ verdict = [p \in Probers |-> "none"]
    /\ abandoned = {}
    /\ failures = 0

(***************************************************************************)
(* PostgreSQL.                                                             *)
(***************************************************************************)

\* A change on n is sent along every link from n.  What a link has brought
\* goes no further: subscriptions are made with origin = none.
Send(n, e) == wal' = [l \in Links |-> IF l.from = n THEN Append(wal[l], e) ELSE wal[l]]

InsertRow(n, id) == rows' = [rows EXCEPT ![n] = @ \cup {id}] /\ Send(n, Inserted(id))

\* DELETE of a row that is not there changes nothing and sends nothing.
DeleteRow(n, id) ==
    /\ rows' = [rows EXCEPT ![n] = @ \ {id}]
    /\ IF id \in rows[n] THEN Send(n, Deleted(id)) ELSE UNCHANGED wal

\* CREATE TABLE IF NOT EXISTS.
EnsureTable(n) ==
    /\ table' = table \cup {n}
    /\ UNCHANGED <<subscribed, rows, wal>>

\* ALTER SUBSCRIPTION ... REFRESH PUBLICATION WITH (copy_data = false).
RefreshSubscription(n) ==
    /\ subscribed' = IF Peer(n) \in table THEN subscribed \cup {n} ELSE subscribed
    /\ UNCHANGED <<table, rows, wal>>

Prepare(step) == IF step.do = "ensure" THEN EnsureTable(step.node) ELSE RefreshSubscription(step.node)

\* The first change of the link reaches its target.
Apply(link) ==
    /\ wal[link] # <<>>
    /\ wal' = [wal EXCEPT ![link] = Tail(@)]
    /\ LET e == Head(wal[link])
           heeded == mode = "master-slave" \/ link.to \in subscribed
       IN rows' = IF ~heeded THEN rows
                  ELSE [rows EXCEPT ![link.to] = IF e.op = "insert" THEN @ \cup {e.id}
                                                 ELSE @ \ {e.id}]
    /\ UNCHANGED <<mode, table, subscribed, pc, at, deferred, verdict, abandoned, failures>>

(***************************************************************************)
(* The probe.                                                              *)
(***************************************************************************)

Goto(p, l) == pc' = [pc EXCEPT ![p] = l]
Deferred(p, id) == [deferred EXCEPT ![p] = Append(@, id)]

\* Validation, connections; from here the deadline of 45 s runs.
Start(p) ==
    /\ pc[p] = "idle"
    /\ Goto(p, "prepare")
    /\ UNCHANGED <<mode, servers, at, deferred, verdict, abandoned, failures>>

PrepareStep(p) ==
    /\ pc[p] = "prepare"
    /\ Prepare(Preparation[at[p]])
    /\ IF at[p] < Len(Preparation)
       THEN at' = [at EXCEPT ![p] = @ + 1] /\ UNCHANGED pc
       ELSE at' = [at EXCEPT ![p] = 1] /\ Goto(p, "insert")
    /\ UNCHANGED <<mode, deferred, verdict, abandoned, failures>>

\* insertProbeRow; the clean-up is registered once the insert has succeeded.
Insert(p) ==
    /\ pc[p] = "insert"
    /\ InsertRow(Leg(p).from, Row(p))
    /\ deferred' = Deferred(p, Row(p))
    /\ Goto(p, "await row")
    /\ UNCHANGED <<mode, table, subscribed, at, verdict, abandoned, failures>>

\* hasProbeRow; a target without the table shows no row.
Shows(n, id) == id \in rows[n]

SeeRow(p) ==
    /\ pc[p] = "await row"
    /\ Shows(Leg(p).to, Row(p))
    /\ Goto(p, "delete")
    /\ UNCHANGED <<mode, servers, at, deferred, verdict, abandoned, failures>>

Delete(p) ==
    /\ pc[p] = "delete"
    /\ DeleteRow(Leg(p).from, Row(p))
    /\ Goto(p, "await deletion")
    /\ UNCHANGED <<mode, table, subscribed, at, deferred, verdict, abandoned, failures>>

\* (Mutant of Vanished.)  The wait for the deletion looks at the source.
VanishedFromSource(p) == ~Shows(Leg(p).from, Row(p))
\* The end of the wait for the deletion.
Vanished(p) == ~Shows(Leg(p).to, Row(p))

\* (Mutant of LastLeg.)
PastLastLeg(p) == at[p] > Len(Legs)
LastLeg(p) == at[p] = Len(Legs)

SeeDeletion(p) ==
    /\ pc[p] = "await deletion"
    /\ Vanished(p)
    /\ \/ /\ ~LastLeg(p)
          /\ at' = [at EXCEPT ![p] = @ + 1]
          /\ Goto(p, "insert")
          /\ UNCHANGED verdict
       \/ /\ LastLeg(p)
          /\ verdict' = [verdict EXCEPT ![p] = "PASS"]
          /\ Goto(p, "clean up")
          /\ UNCHANGED at
    /\ UNCHANGED <<mode, servers, deferred, abandoned, failures>>

\* The shared deadline ends a wait.
Deadline(p) ==
    /\ pc[p] \in {"await row", "await deletion"}
    /\ verdict' = [verdict EXCEPT ![p] = "FAIL"]
    /\ Goto(p, "clean up")
    /\ UNCHANGED <<mode, servers, at, deferred, abandoned, failures>>

\* A call fails, before or after the server has done what it was asked for.
\* A row whose insert went unanswered has no clean-up.
CallFails(p) ==
    /\ failures < MaxFailures
    /\ pc[p] \in {"prepare", "insert", "await row", "delete", "await deletion"}
    /\ failures' = failures + 1
    /\ verdict' = [verdict EXCEPT ![p] = "FAIL"]
    /\ Goto(p, "clean up")
    /\ \/ UNCHANGED <<servers, abandoned>>
       \/ pc[p] = "prepare" /\ Prepare(Preparation[at[p]]) /\ UNCHANGED abandoned
       \/ /\ pc[p] = "insert"
          /\ InsertRow(Leg(p).from, Row(p))
          /\ abandoned' = abandoned \cup {Row(p)}
          /\ UNCHANGED <<table, subscribed>>
       \/ /\ pc[p] = "delete"
          /\ DeleteRow(Leg(p).from, Row(p))
          /\ UNCHANGED <<table, subscribed, abandoned>>
    /\ UNCHANGED <<mode, at, deferred>>

\* cleanupProbeRow, with a connection and a deadline of its own, the last
\* registered first; its failure is not reported.
CleanUp(p) ==
    /\ pc[p] = "clean up" /\ deferred[p] # <<>>
    /\ LET n == Len(deferred[p])
           id == deferred[p][n]
       IN /\ deferred' = [deferred EXCEPT ![p] = SubSeq(@, 1, n - 1)]
          /\ \/ /\ DeleteRow(Source(id), id)
                /\ UNCHANGED <<table, subscribed, abandoned, failures>>
             \/ /\ failures < MaxFailures
                /\ failures' = failures + 1
                /\ abandoned' = abandoned \cup {id}
                /\ UNCHANGED servers
    /\ UNCHANGED <<mode, pc, at, verdict>>

End(p) ==
    /\ pc[p] = "clean up" /\ deferred[p] = <<>>
    /\ Goto(p, "done")
    /\ UNCHANGED <<mode, servers, at, deferred, verdict, abandoned, failures>>

\* The process dies (a service or a command that is killed) and cleans up nothing.
Crash(p) ==
    /\ failures < MaxFailures
    /\ pc[p] \notin {"idle", "done", "dead"}
    /\ failures' = failures + 1
    /\ abandoned' = abandoned \cup {id \in Ids : id[1] = p}
    /\ Goto(p, "dead")
    /\ UNCHANGED <<mode, servers, at, deferred, verdict>>

Next ==
    \/ \E link \in Links : Apply(link)
    \/ \E p \in Probers :
        \/ Start(p) \/ PrepareStep(p) \/ Insert(p) \/ SeeRow(p) \/ Delete(p)
        \/ SeeDeletion(p) \/ Deadline(p) \/ CallFails(p)
        \/ CleanUp(p) \/ End(p) \/ Crash(p)

Spec == Init /\ [][Next]_vars

(***************************************************************************)
(* Properties.                                                             *)
(***************************************************************************)

\* Every variable has its type, and a clean-up belongs to a leg of the run.
TypeOK ==
    /\ mode \in {"master-slave", "master-master"}
    /\ table \subseteq Nodes /\ subscribed \subseteq Both
    /\ rows \in [Nodes -> SUBSET Ids]
    /\ wal \in [Links -> Seq(Event)]
    /\ pc \in [Probers -> {"idle", "prepare", "insert", "await row", "delete",
                           "await deletion", "clean up", "done", "dead"}]
    /\ \A p \in Probers :
          at[p] \in DOMAIN IF pc[p] \in {"idle", "insert", "await row", "delete", "await deletion"}
                          THEN Legs ELSE Preparation \o Legs
    /\ deferred \in [Probers -> Seq(Ids)]
    /\ verdict \in [Probers -> {"none", "PASS", "FAIL"}]
    /\ abandoned \subseteq Ids
    /\ failures \in 0 .. MaxFailures

\* A probe that reports PASS has seen, on each of its legs, its own row arrive
\* and go: neither end holds it and nothing of it is under way (the summaries
\* of probe.go:132 and :266, "Deletion replay confirmed").
PassMeansSettled ==
    \A p \in Probers : verdict[p] = "PASS" =>
        \A i \in DOMAIN Legs :
            LET id == <<p, i>> IN
            /\ id \notin rows[Legs[i].from] \cup rows[Legs[i].to]
            /\ ~Pending(Legs[i], Inserted(id)) /\ ~Pending(Legs[i], Deleted(id))

\* A probe waits only for what the link of its leg will bring if it works: the
\* table and both subscriptions are ready before the first row is written
\* (probe.go:181-204), so a FAIL after a wait is the link's and never the
\* probe's, whatever another probe does meanwhile.
WaitIsForTheLink ==
    \A p \in Probers :
        LET heeded == mode = "master-slave" \/ Leg(p).to \in subscribed IN
        /\ pc[p] = "await row" =>
              Shows(Leg(p).to, Row(p)) \/ (heeded /\ Pending(Leg(p), Inserted(Row(p))))
        /\ pc[p] = "await deletion" =>
              ~Shows(Leg(p).to, Row(p)) \/ (heeded /\ Pending(Leg(p), Deleted(Row(p))))

\* A probe that has ended leaves no row behind, whichever of its steps failed:
\* its source has lost the row, and a server that still has it, or will get
\* it, has the deletion coming (the deferred clean-ups of probe.go:100, :213
\* and :243).  Rows whose insert or clean-up went unanswered, and those of a
\* killed process, are excepted: no code looks for them again.
NothingLeftBehind ==
    \A id \in Ids \ abandoned : pc[id[1]] = "done" /\ id[2] \in DOMAIN Legs =>
        /\ id \notin rows[Legs[id[2]].from]
        /\ \A l \in Links : l.from = Legs[id[2]].from =>
              (id \in rows[l.to] \/ Pending(l, Inserted(id)) => Pending(l, Deleted(id)))

=============================================================================
