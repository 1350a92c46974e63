--------------------------- MODULE HandoverProofs ---------------------------
(***************************************************************************)
(* Proofs about Handover for any number of workflows, writes, repeated     *)
(* requests and failures.                                                  *)
(***************************************************************************)
EXTENDS Handover, TLAPS

USE HandoverAssumption

(* What a data directory that was moved away leaves: nothing, and no       *)
(* server that could run on it.                                            *)
DirInv ==
  /\ dir # "cluster" => data[Primary] = {} /\ ~up[Primary]
  /\ copier # Nobody => dir = "partial"

(* The old primary's own directory has been moved away, for good: any      *)
(* other that is whole is a copy with a recovery configuration.            *)
Moved == dir = "cluster" => recovering[Primary]

(* The standby was told to promote.                                        *)
Told == recovering[Standby] => promoting

(* The places a workflow only reaches over one that moved the directory.   *)
PastMove == {"backup", "copying", "start", "check"}

MovedInv ==
  /\ \A w \in Workflows : pc[w] \in PastMove => Moved
  /\ "rejoin" \in reported => Moved

ToldInv ==
  /\ \A w \in Workflows : pc[w] \notin {"idle", "promote"} => Told
  /\ reported # {} => Told

LEMMA NodeTypes ==
  /\ Primary \in Nodes /\ Standby \in Nodes /\ Primary # Standby
  /\ Nodes = {Primary, Standby}
  BY DEF Primary, Standby, Nodes

LEMMA InitType == Init => TypeOK /\ DirInv /\ NoWriteLost /\ MovedInv /\ ToldInv
<1> SUFFICES ASSUME Init
             PROVE  TypeOK /\ DirInv /\ NoWriteLost /\ MovedInv /\ ToldInv
  OBVIOUS
<1> USE DEF Init
<1>1. TypeOK
  <2>1. recovering \in [Nodes -> BOOLEAN]
    BY Zenon
  <2>2. up \in [Nodes -> BOOLEAN] /\ data \in [Nodes -> SUBSET Writes]
    OBVIOUS
  <2>3. pc \in [Workflows -> Places]
    BY DEF Places
  <2>4. promoting \in BOOLEAN /\ slot \in BOOLEAN
    BY Zenon
  <2>5. /\ dir \in {"cluster", "empty", "partial"}
        /\ copier \in Workflows \cup {Nobody} /\ reported \subseteq {"promote", "rejoin"}
        /\ saved \subseteq Writes /\ acked \subseteq Writes
        /\ scripts \in Nat /\ doubles \in 0..MaxDoubles /\ failures \in 0..MaxFailures
    OBVIOUS
  <2> HIDE DEF Init
  <2> QED
    BY <2>1, <2>2, <2>3, <2>4, <2>5 DEF TypeOK
<1>2. DirInv /\ NoWriteLost
  BY DEF DirInv, NoWriteLost
<1>3. MovedInv /\ ToldInv
  BY DEF MovedInv, ToldInv, PastMove
<1> QED
  BY <1>1, <1>2, <1>3

-----------------------------------------------------------------------------
(* What the conditions and the bookkeeping come to.                        *)

LEMMA GotoPlace ==
  ASSUME TypeOK, NEW w \in Workflows, NEW p \in Places, Goto(w, p)
  PROVE  /\ pc' \in [Workflows -> Places]
         /\ pc'[w] = p /\ \A v \in Workflows \ {w} : pc'[v] = pc[v]
  BY DEF Goto, TypeOK

LEMMA FailureType ==
  ASSUME TypeOK, Failure \/ UNCHANGED failures
  PROVE  failures' \in 0..MaxFailures
  BY DEF Failure, TypeOK

LEMMA AnswersPlace ==
  ASSUME TypeOK, NEW w \in Workflows, NEW p \in Places, Answers(w, p)
  PROVE  /\ pc' \in [Workflows -> Places]
         /\ pc'[w] \in {p, "idle"} /\ \A v \in Workflows \ {w} : pc'[v] = pc[v]
         /\ failures' \in 0..MaxFailures
<1>1. "idle" \in Places
  BY DEF Places
<1>2. CASE Goto(w, p) /\ UNCHANGED failures
  BY <1>2, GotoPlace, FailureType
<1>3. CASE Goto(w, "idle") /\ Failure
  BY <1>1, <1>3, GotoPlace, FailureType
<1> QED
  BY <1>2, <1>3 DEF Answers

LEMMA ReportPlace ==
  ASSUME TypeOK, NEW w \in Workflows, NEW o \in {"promote", "rejoin"},
         Report(w, o)
  PROVE  /\ pc' \in [Workflows -> Places]
         /\ pc'[w] = "idle" /\ \A v \in Workflows \ {w} : pc'[v] = pc[v]
         /\ failures' \in 0..MaxFailures
         /\ reported' \in {reported, reported \cup {o}}
<1>1. "idle" \in Places
  BY DEF Places
<1> QED
  BY <1>1, GotoPlace, FailureType DEF Report

-----------------------------------------------------------------------------
(* Type correctness and the directory.                                     *)

LEMMA ServerType ==
  ASSUME TypeOK, DirInv, NoWriteLost,
         \/ \E n \in Nodes : Crashes(n) \/ \E x \in Writes : Write(n, x)
         \/ StandbyRestarts \/ PrimaryRestarts
         \/ \E n, m \in Nodes : Streams(n, m)
         \/ PromotionFinishes
  PROVE  TypeOK' /\ DirInv' /\ NoWriteLost'
<1> USE NodeTypes
    DEF TypeOK, DirInv, NoWriteLost, serverVars, diskVars, opVars
<1>1. ASSUME NEW n \in Nodes, NEW x \in Writes, Write(n, x)
      PROVE  TypeOK' /\ DirInv' /\ NoWriteLost'
  BY <1>1 DEF Write, Serves
<1>2. ASSUME NEW n \in Nodes, Crashes(n)
      PROVE  TypeOK' /\ DirInv' /\ NoWriteLost'
  BY <1>2, FailureType DEF Crashes
<1>3. CASE StandbyRestarts
  BY <1>3 DEF StandbyRestarts
<1>4. CASE PrimaryRestarts
  BY <1>4, FailureType DEF PrimaryRestarts
<1>5. ASSUME NEW n \in Nodes, NEW m \in Nodes, Streams(n, m)
      PROVE  TypeOK' /\ DirInv' /\ NoWriteLost'
  BY <1>5 DEF Streams
<1>6. CASE PromotionFinishes
  BY <1>6 DEF PromotionFinishes
<1> QED
  BY <1>1, <1>2, <1>3, <1>4, <1>5, <1>6

(* Moving the directory away keeps what it holds.                          *)
LEMMA MoveAwayType ==
  ASSUME TypeOK, DirInv, NoWriteLost, MoveAway, UNCHANGED <<up, acked>>
  PROVE  /\ recovering' \in [Nodes -> BOOLEAN] /\ data' \in [Nodes -> SUBSET Writes]
         /\ saved' \subseteq Writes
         /\ dir' = "empty" /\ copier' = Nobody
         /\ recovering'[Standby] = recovering[Standby]
         /\ DirInv' /\ NoWriteLost'
  BY NodeTypes DEF TypeOK, DirInv, NoWriteLost, MoveAway, Kept

LEMMA WorkflowType ==
  ASSUME TypeOK, DirInv, NoWriteLost, NEW w \in Workflows,
         Requests(w) \/ Runs(w)
  PROVE  TypeOK' /\ DirInv' /\ NoWriteLost'
<1> USE NodeTypes
    DEF DirInv, NoWriteLost, serverVars, diskVars, opVars
<1>0. "idle" \in Places /\ "move" \in Places /\ "copying" \in Places
      /\ "confirm" \in Places /\ "stop" \in Places /\ "backup" \in Places
      /\ "start" \in Places /\ "check" \in Places /\ "promote" \in Places
      /\ "slot" \in Places
  BY DEF Places
<1>1. ASSUME NEW p \in {"promote", "slot"}, Request(w, p)
      PROVE  TypeOK' /\ DirInv' /\ NoWriteLost'
  <2>1. pc' \in [Workflows -> Places] /\ doubles' \in 0..MaxDoubles
    BY <1>0, <1>1, GotoPlace DEF Request, TypeOK
  <2> QED
    BY <1>1, <2>1 DEF Request, TypeOK
<1>2. CASE Promote(w)
  <2>1. pc' \in [Workflows -> Places] /\ failures' \in 0..MaxFailures
    BY <1>0, <1>2, AnswersPlace DEF Promote
  <2>2. promoting' \in BOOLEAN /\ recovering' \in [Nodes -> BOOLEAN]
    BY <1>2 DEF Promote, TypeOK
  <2> QED
    BY <1>2, <2>1, <2>2 DEF Promote, TypeOK
<1>3. CASE Confirm(w)
  <2>1. /\ pc' \in [Workflows -> Places] /\ failures' \in 0..MaxFailures
        /\ reported' \subseteq {"promote", "rejoin"}
    BY <1>3, ReportPlace DEF Confirm, TypeOK
  <2> QED
    BY <1>3, <2>1 DEF Confirm, TypeOK
<1>4. CASE CreateSlot(w)
  <2>1. pc' \in [Workflows -> Places] /\ failures' \in 0..MaxFailures
    BY <1>0, <1>4, AnswersPlace DEF CreateSlot
  <2> QED
    BY <1>4, <2>1 DEF CreateSlot, TypeOK
<1>5. CASE Stop(w)
  <2>1. pc' \in [Workflows -> Places]
    BY <1>0, <1>5, GotoPlace DEF Stop
  <2> QED
    BY <1>5, <2>1 DEF Stop, TypeOK
<1>6. CASE Move(w)
  <2>1. pc' \in [Workflows -> Places] /\ failures' \in 0..MaxFailures
    BY <1>0, <1>6, AnswersPlace DEF Move
  <2> QED
    BY <1>6, <2>1, MoveAwayType DEF Move, TypeOK
<1>7. CASE LeaveScript(w)
  <2>1. pc' \in [Workflows -> Places] /\ failures' \in 0..MaxFailures
    BY <1>0, <1>7, GotoPlace, FailureType DEF LeaveScript
  <2> QED
    BY <1>7, <2>1 DEF LeaveScript, TypeOK
<1>8. CASE BeginCopy(w)
  <2>1. pc' \in [Workflows -> Places]
    BY <1>0, <1>8, GotoPlace DEF BeginCopy
  <2> QED
    BY <1>8, <2>1 DEF BeginCopy, CanCopy, TypeOK
<1>9. CASE EndCopy(w)
  <2>1. pc' \in [Workflows -> Places] /\ failures' \in 0..MaxFailures
    BY <1>0, <1>9, AnswersPlace DEF EndCopy
  <2>2. data[Primary] = {}
    BY <1>9 DEF EndCopy
  <2>3. data' \in [Nodes -> SUBSET Writes] /\ recovering' \in [Nodes -> BOOLEAN]
    BY <1>9 DEF EndCopy, RecoveryConf, TypeOK
  <2> QED
    BY <1>9, <2>1, <2>2, <2>3 DEF EndCopy, TypeOK
<1>10. CASE StartServer(w)
  <2>1. pc' \in [Workflows -> Places] /\ failures' \in 0..MaxFailures
    BY <1>0, <1>10, AnswersPlace DEF StartServer
  <2> QED
    BY <1>10, <2>1 DEF StartServer, TypeOK
<1>11. CASE Check(w)
  <2>1. /\ pc' \in [Workflows -> Places] /\ failures' \in 0..MaxFailures
        /\ reported' \subseteq {"promote", "rejoin"}
    BY <1>11, ReportPlace DEF Check, TypeOK
  <2> QED
    BY <1>11, <2>1 DEF Check, TypeOK
<1>12. CASE CommandFails(w)
  <2>1. failures' \in 0..MaxFailures
    BY <1>12, FailureType DEF CommandFails
  <2>2. pc' \in [Workflows -> Places]
    BY <1>0, <1>12, GotoPlace DEF CommandFails, AfterFailure
  <2> QED
    BY <1>12, <2>1, <2>2 DEF CommandFails, TypeOK
<1> QED
  BY <1>1, <1>2, <1>3, <1>4, <1>5, <1>6, <1>7, <1>8, <1>9, <1>10, <1>11, <1>12
     DEF Requests, Runs

LEMMA TypeStep ==
  TypeOK /\ DirInv /\ NoWriteLost /\ [Next]_vars => TypeOK' /\ DirInv' /\ NoWriteLost'
<1> SUFFICES ASSUME TypeOK, DirInv, NoWriteLost, [Next]_vars
             PROVE  TypeOK' /\ DirInv' /\ NoWriteLost'
  OBVIOUS
<1>1. CASE UNCHANGED vars
  BY <1>1 DEF vars, TypeOK, DirInv, NoWriteLost
<1>2. CASE ScriptMoves
  BY <1>2, MoveAwayType DEF ScriptMoves, TypeOK
<1> QED
  BY <1>1, <1>2, ServerType, WorkflowType DEF Next

(* Type correctness, and with it that a directory which is not whole       *)
(* belongs to no running server.                                           *)
THEOREM TypeCorrect == Spec => [](TypeOK /\ DirInv)
<1>1. Spec => [](TypeOK /\ DirInv /\ NoWriteLost)
  BY InitType, TypeStep, PTL DEF Spec
<1> QED
  BY <1>1, PTL

(* No acknowledged write is lost (ops.go:151), whatever was repeated, cut  *)
(* off or done twice at a time.                                            *)
THEOREM WritesKept == Spec => []NoWriteLost
<1>1. Spec => [](TypeOK /\ DirInv /\ NoWriteLost)
  BY InitType, TypeStep, PTL DEF Spec
<1> QED
  BY <1>1, PTL

-----------------------------------------------------------------------------
(* The old directory stays away, and the order to promote stands.          *)

(* Only moving it away unmakes a directory that is a standby's.            *)
LEMMA MovedStays ==
  ASSUME TypeOK, Next, Moved
  PROVE  Moved'
<1> USE NodeTypes DEF Moved, TypeOK, serverVars, diskVars, opVars
<1>1. CASE \E n \in Nodes : Crashes(n) \/ \E x \in Writes : Write(n, x)
  BY <1>1 DEF Crashes, Write
<1>2. CASE \/ StandbyRestarts \/ PrimaryRestarts \/ PromotionFinishes
           \/ \E n, m \in Nodes : Streams(n, m)
  BY <1>2 DEF StandbyRestarts, PrimaryRestarts, PromotionFinishes, Streams
<1>3. CASE ScriptMoves
  BY <1>3 DEF ScriptMoves, MoveAway
<1>4. ASSUME NEW w \in Workflows, Requests(w) \/ Runs(w)
      PROVE  Moved'
  <2>1. CASE Requests(w)
    BY <2>1 DEF Requests, Request
  <2>2. CASE Promote(w) \/ Confirm(w) \/ CreateSlot(w) \/ Stop(w)
    BY <2>2 DEF Promote, Confirm, CreateSlot, Stop
  <2>3. CASE Move(w) \/ LeaveScript(w)
    BY <2>3 DEF Move, MoveAway, LeaveScript
  <2>4. CASE BeginCopy(w) \/ EndCopy(w)
    BY <2>4 DEF BeginCopy, EndCopy, RecoveryConf
  <2>5. CASE StartServer(w) \/ Check(w)
    BY <2>5 DEF StartServer, Check
  <2>6. CASE CommandFails(w)
    BY <2>6 DEF CommandFails
  <2> QED
    BY <1>4, <2>1, <2>2, <2>3, <2>4, <2>5, <2>6 DEF Runs
<1> QED
  BY <1>1, <1>2, <1>3, <1>4 DEF Next

(* A workflow enters the places behind "move" over Move alone.             *)
LEMMA MovedStep ==
  TypeOK /\ MovedInv /\ [Next]_vars => MovedInv'
<1> SUFFICES ASSUME TypeOK, MovedInv, [Next]_vars
             PROVE  MovedInv'
  OBVIOUS
<1>1. CASE UNCHANGED vars
  BY <1>1 DEF vars, MovedInv, Moved
<1>2. CASE Next
  <2>1. SUFFICES ASSUME ~Moved PROVE MovedInv'
    <3>1. CASE Moved
      BY <1>2, <3>1, MovedStays DEF MovedInv
    <3> QED
      BY <3>1, <2>1
  <2>2. /\ \A w \in Workflows : pc[w] \notin PastMove
        /\ "rejoin" \notin reported
    BY <2>1 DEF MovedInv
  <2>3. CASE UNCHANGED <<pc, reported>>
    BY <2>2, <2>3 DEF MovedInv
  <2>4. ASSUME NEW w \in Workflows, Requests(w) \/ Runs(w)
        PROVE  MovedInv'
    <3>1. CASE Move(w)
      BY <3>1 DEF Move, MoveAway, MovedInv, Moved
    <3>2. SUFFICES ASSUME ~Move(w)
                   PROVE  /\ \A v \in Workflows : pc'[v] \notin PastMove
                          /\ "rejoin" \notin reported'
      BY <3>1, <3>2 DEF MovedInv
    <3>3. {"idle", "promote", "confirm", "slot", "stop", "move"} \subseteq Places
      BY DEF Places
    <3> USE DEF PastMove
    <3>4. CASE Requests(w)
      BY <2>2, <3>3, <3>4, GotoPlace DEF Requests, Request
    <3>5. CASE Promote(w)
      BY <2>2, <3>3, <3>5, AnswersPlace DEF Promote
    <3>6. CASE Confirm(w)
      BY <2>2, <3>3, <3>6, ReportPlace DEF Confirm
    <3>7. CASE CreateSlot(w)
      BY <2>2, <3>3, <3>7, AnswersPlace DEF CreateSlot
    <3>8. CASE Stop(w) \/ LeaveScript(w)
      BY <2>2, <3>3, <3>8, GotoPlace DEF Stop, LeaveScript
    <3>9. CASE CommandFails(w)
      BY <2>2, <3>3, <3>9, GotoPlace DEF CommandFails, AfterFailure
    <3>10. CASE BeginCopy(w) \/ EndCopy(w) \/ StartServer(w) \/ Check(w)
      BY <2>2, <3>10 DEF BeginCopy, EndCopy, StartServer, Check
    <3> QED
      BY <2>4, <3>2, <3>4, <3>5, <3>6, <3>7, <3>8, <3>9, <3>10 DEF Runs
  <2>5. CASE \/ \E n \in Nodes : Crashes(n) \/ \E x \in Writes : Write(n, x)
             \/ StandbyRestarts \/ PrimaryRestarts \/ PromotionFinishes
             \/ ScriptMoves \/ \E n, m \in Nodes : Streams(n, m)
    BY <2>3, <2>5 DEF Crashes, Write, StandbyRestarts, PrimaryRestarts,
       PromotionFinishes, ScriptMoves, Streams, opVars
  <2> QED
    BY <1>2, <2>4, <2>5 DEF Next
<1> QED
  BY <1>1, <1>2

(* Only a crash takes the order to promote back.                           *)
LEMMA ToldStays ==
  ASSUME TypeOK, Next, Told, ~CrashWhilePromoting
  PROVE  Told'
<1> USE NodeTypes DEF Told, TypeOK, serverVars, diskVars, opVars
<1>1. CASE \E n \in Nodes : Crashes(n) \/ \E x \in Writes : Write(n, x)
  BY <1>1 DEF Crashes, Write
<1>2. CASE \/ StandbyRestarts \/ PrimaryRestarts \/ PromotionFinishes
           \/ \E n, m \in Nodes : Streams(n, m)
  BY <1>2 DEF StandbyRestarts, PrimaryRestarts, PromotionFinishes, Streams
<1>3. CASE ScriptMoves
  BY <1>3 DEF ScriptMoves, MoveAway
<1>4. ASSUME NEW w \in Workflows, Requests(w) \/ Runs(w)
      PROVE  Told'
  <2>1. CASE Requests(w)
    BY <2>1 DEF Requests, Request
  <2>2. CASE Promote(w) \/ Confirm(w) \/ CreateSlot(w) \/ Stop(w)
    BY <2>2 DEF Promote, Confirm, CreateSlot, Stop
  <2>3. CASE Move(w) \/ LeaveScript(w)
    BY <2>3 DEF Move, MoveAway, LeaveScript
  <2>4. CASE BeginCopy(w) \/ EndCopy(w)
    BY <2>4 DEF BeginCopy, EndCopy
  <2>5. CASE StartServer(w) \/ Check(w)
    BY <2>5 DEF StartServer, Check
  <2>6. CASE CommandFails(w)
    BY <2>6 DEF CommandFails
  <2> QED
    BY <1>4, <2>1, <2>2, <2>3, <2>4, <2>5, <2>6 DEF Runs
<1> QED
  BY <1>1, <1>2, <1>3, <1>4 DEF Next

(* A workflow leaves "idle" and "promote" for elsewhere over Promote, or   *)
(* when the standby was told before.                                       *)
LEMMA ToldStep ==
  TypeOK /\ ToldInv /\ [Next]_vars /\ ~CrashWhilePromoting => ToldInv'
<1> SUFFICES ASSUME TypeOK, ToldInv, [Next]_vars, ~CrashWhilePromoting
             PROVE  ToldInv'
  OBVIOUS
<1>1. CASE UNCHANGED vars
  BY <1>1 DEF vars, ToldInv, Told
<1>2. CASE Next
  <2>1. SUFFICES ASSUME ~Told PROVE ToldInv'
    <3>1. CASE Told
      BY <1>2, <3>1, ToldStays DEF ToldInv
    <3> QED
      BY <3>1, <2>1
  <2>2. /\ \A w \in Workflows : pc[w] \in {"idle", "promote"}
        /\ reported = {}
    BY <2>1 DEF ToldInv
  <2>3. CASE UNCHANGED <<pc, reported>>
    BY <2>2, <2>3 DEF ToldInv
  <2>4. ASSUME NEW w \in Workflows, Requests(w) \/ Runs(w)
        PROVE  ToldInv'
    <3>1. CASE Promote(w)
      BY <3>1, NodeTypes DEF Promote, ToldInv, Told, TypeOK
    <3>2. SUFFICES ASSUME ~Promote(w)
                   PROVE  /\ \A v \in Workflows : pc'[v] \in {"idle", "promote"}
                          /\ reported' = {}
      BY <3>1, <3>2 DEF ToldInv
    <3>3. {"idle", "promote"} \subseteq Places
      BY DEF Places
    <3>4. CASE Requests(w)
      BY <2>1, <2>2, <3>3, <3>4, GotoPlace DEF Requests, Request, Told
    <3>5. CASE CommandFails(w)
      BY <2>2, <3>3, <3>5, GotoPlace DEF CommandFails, AfterFailure
    <3>6. CASE \/ Confirm(w) \/ CreateSlot(w) \/ Stop(w) \/ Move(w) \/ LeaveScript(w)
               \/ BeginCopy(w) \/ EndCopy(w) \/ StartServer(w) \/ Check(w)
      BY <2>2, <3>6 DEF Confirm, CreateSlot, Stop, Move, LeaveScript, BeginCopy,
         EndCopy, StartServer, Check
    <3> QED
      BY <2>4, <3>2, <3>4, <3>5, <3>6 DEF Runs
  <2>5. CASE \/ \E n \in Nodes : Crashes(n) \/ \E x \in Writes : Write(n, x)
             \/ StandbyRestarts \/ PrimaryRestarts \/ PromotionFinishes
             \/ ScriptMoves \/ \E n, m \in Nodes : Streams(n, m)
    BY <2>3, <2>5 DEF Crashes, Write, StandbyRestarts, PrimaryRestarts,
       PromotionFinishes, ScriptMoves, Streams, opVars
  <2> QED
    BY <1>2, <2>4, <2>5 DEF Next
<1> QED
  BY <1>1, <1>2

-----------------------------------------------------------------------------
(* "Rejoin completed" (ops.go:159) is never said of a server that runs on  *)
(* its own old directory.                                                  *)
THEOREM RejoinTrue == Spec => RejoinedIsStandby
<1>1. Spec => [](TypeOK /\ DirInv /\ MovedInv)
  <2>1. Spec => [](TypeOK /\ DirInv /\ NoWriteLost /\ MovedInv)
    BY InitType, TypeStep, MovedStep, PTL DEF Spec
  <2> QED
    BY <2>1, PTL
<1>2. ASSUME TypeOK, DirInv, MovedInv, NEW w \in Workflows, Check(w)
      PROVE  up[Primary] /\ recovering[Primary] /\ dir = "cluster"
  BY <1>2, NodeTypes DEF Check, DirInv, MovedInv, Moved, PastMove
<1>3. TypeOK /\ DirInv /\ MovedInv =>
        [\A w \in Workflows :
           Check(w) /\ "rejoin" \in reported' \ reported
             => up[Primary] /\ recovering[Primary] /\ dir = "cluster"]_vars
  BY <1>2, Zenon
<1> QED
  BY <1>1, <1>3, PTL DEF RejoinedIsStandby

(* A handover that was reported leaves one primary: the old one never      *)
(* accepts a write again and the new one is promoted, or will be, unless   *)
(* it crashes in between.                                                  *)
THEOREM OnePrimary ==
  ASSUME ~CrashWhilePromoting
  PROVE  Spec => []OnePrimaryAfterRejoin
<1>1. ToldInv /\ TypeOK /\ [Next]_vars => ToldInv'
  BY ToldStep
<1>2. Spec => [](TypeOK /\ DirInv /\ NoWriteLost /\ MovedInv /\ ToldInv)
  BY <1>1, InitType, TypeStep, MovedStep, PTL DEF Spec
<1>3. TypeOK /\ DirInv /\ MovedInv /\ ToldInv => OnePrimaryAfterRejoin
  BY NodeTypes DEF DirInv, MovedInv, ToldInv, Moved, Told, Serves,
     OnePrimaryAfterRejoin
<1> QED
  BY <1>2, <1>3, PTL
-----------------------------------------------------------------------------
(* Only EndCopy makes the directory a standby's, and from then on the old  *)
(* primary takes what the new one has and nothing else.                    *)
LEMMA DivergenceStep ==
  TypeOK /\ DirInv /\ NoDivergence /\ [Next]_vars => NoDivergence'
<1> SUFFICES ASSUME TypeOK, DirInv, NoDivergence, [Next]_vars
             PROVE  NoDivergence'
  OBVIOUS
<1> USE NodeTypes DEF NoDivergence, serverVars, diskVars, opVars
<1>1. CASE UNCHANGED vars
  BY <1>1 DEF vars
<1>2. ASSUME NEW n \in Nodes, NEW x \in Writes, Write(n, x)
      PROVE  NoDivergence'
  BY <1>2 DEF Write, Serves, TypeOK
<1>3. ASSUME NEW n \in Nodes, NEW m \in Nodes, Streams(n, m)
      PROVE  NoDivergence'
  BY <1>3 DEF Streams, TypeOK, DirInv
<1>4. CASE \/ \E n \in Nodes : Crashes(n)
           \/ StandbyRestarts \/ PrimaryRestarts \/ PromotionFinishes
  BY <1>4 DEF Crashes, StandbyRestarts, PrimaryRestarts, PromotionFinishes, TypeOK
<1>5. CASE ScriptMoves
  BY <1>5 DEF ScriptMoves, MoveAway
<1>6. ASSUME NEW w \in Workflows, Requests(w) \/ Runs(w)
      PROVE  NoDivergence'
  <2>1. CASE Requests(w)
    BY <2>1 DEF Requests, Request
  <2>2. CASE Promote(w) \/ Confirm(w) \/ CreateSlot(w) \/ Stop(w)
    BY <2>2 DEF Promote, Confirm, CreateSlot, Stop, TypeOK
  <2>3. CASE Move(w) \/ LeaveScript(w)
    BY <2>3 DEF Move, MoveAway, LeaveScript
  <2>4. CASE BeginCopy(w) \/ EndCopy(w)
    BY <2>4 DEF BeginCopy, EndCopy, TypeOK
  <2>5. CASE StartServer(w) \/ Check(w)
    BY <2>5 DEF StartServer, Check
  <2>6. CASE CommandFails(w)
    BY <2>6 DEF CommandFails
  <2> QED
    BY <1>6, <2>1, <2>2, <2>3, <2>4, <2>5, <2>6 DEF Runs
<1> QED
  BY <1>1, <1>2, <1>3, <1>4, <1>5, <1>6 DEF Next

(* A standby made of the old primary never has a write of its own: what    *)
(* the old primary alone had is in the backup, not beneath the copy        *)
(* (ops.go:135-139).                                                       *)
THEOREM CopiesNeverDiverge == Spec => []NoDivergence
<1>1. Init => NoDivergence
  BY NodeTypes DEF Init, NoDivergence
<1>2. Spec => [](TypeOK /\ DirInv)
  BY TypeCorrect
<1> QED
  BY <1>1, <1>2, DivergenceStep, PTL DEF Spec

(* From the moment a workflow is past the move, be it cut off, doubled or  *)
(* begun anew later, the old primary never accepts a write again, however  *)
(* often it crashes and is started by somebody (ops.go:131-139).           *)
THEOREM OldPrimaryGone ==
  ASSUME NEW w \in Workflows
  PROVE  Spec => [](pc[w] \in PastMove \/ "rejoin" \in reported => []~Serves(Primary))
<1> DEFINE Passed == pc[w] \in PastMove \/ "rejoin" \in reported
<1> DEFINE Inv == TypeOK /\ DirInv /\ MovedInv
<1>1. Spec => []Inv
  <2>1. Spec => [](TypeOK /\ DirInv /\ NoWriteLost /\ MovedInv)
    BY InitType, TypeStep, MovedStep, PTL DEF Spec
  <2> QED
    BY <2>1, PTL
<1>2. Inv /\ Moved /\ [Next]_vars => Moved'
  BY MovedStays DEF Moved, vars
<1>3. Inv /\ Moved => ~Serves(Primary)
  BY DEF DirInv, Moved, Serves
<1>4. Inv /\ Passed => Moved
  BY DEF MovedInv
<1>5. QED
  BY <1>1, <1>2, <1>3, <1>4, PTL DEF Spec
=============================================================================
