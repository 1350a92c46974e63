------------------------- MODULE VerificationProofs -------------------------
(***************************************************************************)
(* What a PASS of `verify` shows, for any number of standbys, whatever     *)
(* application_name and slot they connect with.                            *)
(***************************************************************************)
EXTENDS Verification, TLAPS

(* A row that says "streaming" was that of a standby that streamed since   *)
(* verify began, and verify does not leave a standby without such a row.   *)
SeenInv ==
  /\ \A s \in Standbys : sender[s] = "streaming" => s \in streamed
  /\ pc = "own" /\ state = "streaming" => streamed # {}
  /\ pc = "primary" => at = 1
  /\ pc \in {"standby", "row", "own"} /\ at # 1 => streamed # {}
  /\ PassMeansOneStreamed

LEMMA RowsAreStandbys ==
  ASSUME NEW s \in Standbys
  PROVE  RowsFor(s) \subseteq Standbys
  BY DEF RowsFor, ByAddress, ByName, Rows

LEMMA StepType ==
  ASSUME NumStandbys \in Nat \ {0}, TypeOK, [Next]_vars
  PROVE  TypeOK'
<1> USE DEF TypeOK, serverVars, verifyVars, Nodes, Standbys, Primary, States, Steps
<1>1. ASSUME NEW s \in Standbys, Attach(s) \/ CatchUp(s) \/ Detach(s) \/ Promoted(s)
      PROVE  TypeOK'
  BY <1>1 DEF Attach, CatchUp, Detach, Promoted
<1>2. ASSUME NEW n \in Nodes, Crash(n) \/ Restart(n) PROVE TypeOK'
  <2>1. up' \in [Nodes -> BOOLEAN] /\ sender' \in [Standbys -> States]
    BY <1>2 DEF Crash, Restart
  <2>2. /\ conns' \subseteq Nodes
        /\ UNCHANGED <<recovering, pc, at, state, verdict, streamed>>
    BY <1>2 DEF Crash, Restart
  <2> QED
    BY <2>1, <2>2
<1>3. CASE Begin \/ ConnectPrimary \/ ConnectStandby \/ Fails
  <2>1. /\ pc' \in Steps /\ at' \in Standbys /\ verdict' \in {"none", "pass", "error"}
        /\ state' = state /\ UNCHANGED <<up, recovering, sender>>
    BY <1>3 DEF Begin, ConnectPrimary, ConnectStandby, Fails, Report
  <2>2. conns' \subseteq Nodes /\ streamed' \subseteq Standbys
    BY <1>3 DEF Begin, ConnectPrimary, ConnectStandby, Fails, Report
  <2> QED
    BY <2>1, <2>2
<1>4. CASE QueryPrimary
  <2>1. PICK t \in Standbys : state' = sender[t]
    BY <1>4, RowsAreStandbys DEF QueryPrimary
  <2> QED
    BY <1>4, <2>1 DEF QueryPrimary
<1>5. CASE QueryStandby
  <2>1. pc' \in Steps /\ at' \in Standbys /\ verdict' \in {"none", "pass", "error"}
    BY <1>5 DEF QueryStandby, Report
  <2>2. conns' \subseteq Nodes /\ UNCHANGED <<up, recovering, sender, state, streamed>>
    BY <1>5 DEF QueryStandby, Report
  <2> QED
    BY <2>1, <2>2
<1>6. CASE UNCHANGED vars
  BY <1>6 DEF vars
<1> QED
  BY <1>1, <1>2, <1>3, <1>4, <1>5, <1>6 DEF Next, Servers, Verify

LEMMA StepSeen ==
  ASSUME NumStandbys \in Nat \ {0}, TypeOK, SeenInv, [Next]_vars
  PROVE  SeenInv'
<1> USE DEF SeenInv, PassMeansOneStreamed, serverVars, verifyVars
<1>1. ASSUME NEW s \in Standbys, Attach(s) \/ CatchUp(s) \/ Detach(s) \/ Promoted(s)
      PROVE  SeenInv'
  BY <1>1 DEF Attach, CatchUp, Detach, Promoted, TypeOK
<1>2. ASSUME NEW n \in Nodes, Crash(n) \/ Restart(n) PROVE SeenInv'
  BY <1>2 DEF Crash, Restart, TypeOK
<1>3. CASE Begin
  BY <1>3 DEF Begin, TypeOK
<1>4. CASE ConnectPrimary \/ ConnectStandby \/ Fails
  <2>1. CASE ConnectPrimary
    BY <2>1 DEF ConnectPrimary
  <2>2. CASE ConnectStandby \/ Fails
    BY <2>2 DEF ConnectStandby, Fails, Report
  <2> QED
    BY <1>4, <2>1, <2>2
<1>5. CASE QueryPrimary
  <2>1. PICK t \in Standbys : state' = sender[t]
    BY <1>5, RowsAreStandbys DEF QueryPrimary, TypeOK
  <2> QED
    BY <1>5, <2>1 DEF QueryPrimary
<1>6. CASE QueryStandby
  BY <1>6 DEF QueryStandby, Report, TypeOK
<1>7. CASE UNCHANGED vars
  BY <1>7 DEF vars
<1> QED
  BY <1>1, <1>2, <1>3, <1>4, <1>5, <1>6, <1>7 DEF Next, Servers, Verify

LEMMA SeenInvariant ==
  ASSUME NumStandbys \in Nat \ {0}
  PROVE  Spec => [](TypeOK /\ SeenInv)
<1>1. Init => TypeOK /\ SeenInv
  <2> SUFFICES ASSUME Init PROVE TypeOK /\ SeenInv
    OBVIOUS
  <2>1. TypeOK
    BY DEF Init, TypeOK, Nodes, Standbys, Primary, States, Steps
  <2>2. SeenInv
    BY DEF Init, SeenInv, PassMeansOneStreamed
  <2> QED
    BY <2>1, <2>2
<1>2. TypeOK /\ SeenInv /\ [Next]_vars => TypeOK' /\ SeenInv'
  BY StepType, StepSeen
<1> QED
  BY <1>1, <1>2, PTL DEF Spec

(* A PASS is never given on rows of the past: some standby streamed to the *)
(* primary while verify ran, however the servers come and go meanwhile.    *)
THEOREM OneStreamed ==
  ASSUME NumStandbys \in Nat \ {0}
  PROVE  Spec => []PassMeansOneStreamed
<1>1. SeenInv => PassMeansOneStreamed
  BY DEF SeenInv
<1> QED
  BY <1>1, SeenInvariant, PTL

(* With one standby that is all: it is the standby that streamed.  This is *)
(* what README.md says of verify; with more standbys it does not hold.     *)
THEOREM SingleStandbyStreamed ==
  ASSUME NumStandbys = 1
  PROVE  Spec => []PassMeansAllStreamed
<1>1. TypeOK /\ SeenInv => PassMeansAllStreamed
  <2>1. Standbys = {1}
    BY DEF Standbys
  <2> QED
    BY <2>1 DEF TypeOK, SeenInv, PassMeansOneStreamed, PassMeansAllStreamed
<1>2. Spec => [](TypeOK /\ SeenInv)
  BY SeenInvariant
<1> QED
  BY <1>1, <1>2, PTL

-----------------------------------------------------------------------------
(* Why a PASS on a cluster says so little.                                 *)

LEMMA StepAttached ==
  ASSUME AsRendered, TypeOK, OneAttached, [Next]_vars
  PROVE  OneAttached'
<1> USE DEF OneAttached, serverVars, verifyVars
<1>1. ASSUME NEW s \in Standbys, Attach(s) PROVE OneAttached'
  <2>1. \A t \in Standbys : sender[t] = "none"
    BY <1>1 DEF Attach, SlotFree, AsRendered
  <2> QED
    BY <1>1, <2>1 DEF Attach, TypeOK
<1>2. ASSUME NEW s \in Standbys, CatchUp(s) \/ Detach(s) \/ Promoted(s)
      PROVE  OneAttached'
  BY <1>2 DEF CatchUp, Detach, Promoted, TypeOK
<1>3. ASSUME NEW n \in Nodes, Crash(n) \/ Restart(n) PROVE OneAttached'
  BY <1>3 DEF Crash, Restart, TypeOK
<1>4. CASE Verify \/ UNCHANGED vars
  BY <1>4 DEF Verify, Begin, ConnectPrimary, ConnectStandby, QueryPrimary,
              QueryStandby, Fails, vars
<1> QED
  BY <1>1, <1>2, <1>3, <1>4 DEF Next, Servers

(* In a cluster set up with what `render` writes at most one standby       *)
(* is ever attached to the primary: it has the slot of all of them.        *)
THEOREM RenderedClusterHasOneStandby ==
  ASSUME NumStandbys \in Nat \ {0}, AsRendered
  PROVE  Spec => []OneAttached
<1>1. Init => OneAttached
  BY DEF Init, OneAttached
<1>2. TypeOK /\ OneAttached /\ [Next]_vars => OneAttached'
  BY StepAttached
<1>3. Spec => []TypeOK
  BY SeenInvariant, PTL
<1> QED
  BY <1>1, <1>2, <1>3, PTL DEF Spec

=============================================================================
