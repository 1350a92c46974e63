--------------------------- MODULE FailoverProofs ---------------------------
(***************************************************************************)
(* Proofs about Failover for any number of agents and standbys, any        *)
(* threshold and any election, one that elects several leaders included.   *)
(***************************************************************************)
EXTENDS Failover, FiniteSetTheorems, WellFoundedInduction, TLAPS

USE ClusterAssumption, AgentAssumption

LEMMA NodeTypes ==
  /\ Primary \in Nodes /\ Primary \notin Standbys
  /\ Standbys \subseteq Nodes /\ 1 \in Standbys
  BY DEF Primary, Standbys, Nodes

LEMMA Least ==
  ASSUME NEW T \in SUBSET Nat, T # {}
  PROVE  \E x \in T : \A y \in T : x <= y
<1> DEFINE R == {p \in Nat \X Nat : p[1] < p[2]}
<1>1. IsWellFoundedOn(R, Nat)
  <2>1. R = OpToRel(<, Nat)
    BY Zenon DEF OpToRel
  <2> QED
    BY <2>1, NatLessThanWellFounded, Zenon
<1>2. PICK x \in T : \A y \in T : <<y, x>> \notin R
  <2> HIDE DEF R
  <2> QED
    BY <1>1, WFMin
<1>3. \A y \in T : y < x => <<y, x>> \in R
  OBVIOUS
<1> HIDE DEF R
<1>4. \A y \in T : ~(y < x) /\ y \in Nat
  BY <1>2, <1>3
<1>5. x \in Nat
  OBVIOUS
<1> QED
  BY <1>4, <1>5

(* Ahead is an order on the texts of the positions.                        *)
LEMMA AheadRank ==
  ASSUME TypeOK, NEW s \in Standbys, NEW t \in Standbys
  PROVE  /\ TextRank[wal[s]] \in 1..MaxLSN
         /\ Ahead(s, t) <=> TextRank[wal[s]] > TextRank[wal[t]]
  BY TextAssumption DEF TypeOK, Ahead

(* A selection returns a configured standby, whoever answered: of several, *)
(* one whose position no other that told its own is ahead of.              *)
LEMMA TargetBest ==
  ASSUME TypeOK, NEW answered \in Answers
  PROVE  /\ Target(answered) \in Standbys
         /\ NumStandbys # 1 /\ answered \cap receiving # {}
              => /\ Target(answered) \in answered \cap receiving
                 /\ \A t \in answered \cap receiving :
                      ~Ahead(t, Target(answered))
<1> DEFINE known == answered \cap receiving
           rank(s) == TextRank[wal[s]]
           Best(s) == \A t \in known : Ahead(s, t) \/ (~Ahead(t, s) /\ s <= t)
<1>1. known \subseteq Standbys /\ \A s \in known : rank(s) \in 1..MaxLSN
  <2>1. known \subseteq Standbys
    BY DEF Answers, TypeOK
  <2> QED
    BY <2>1, AheadRank
<1>2. \A s, t \in known : Ahead(s, t) <=> rank(s) > rank(t)
  BY DEF Ahead
<1>3. CASE NumStandbys = 1 \/ known = {}
  BY <1>3, NodeTypes DEF Target
<1>4. CASE NumStandbys # 1 /\ known # {}
  <2>1. Target(answered) = CHOOSE s \in known : Best(s)
    BY <1>4 DEF Target
  <2> HIDE DEF known, rank
  <2> DEFINE gaps == {MaxLSN - rank(s) : s \in known}
  <2>2. PICK g \in gaps : \A h \in gaps : g <= h
    <3>1. gaps \in SUBSET Nat /\ gaps # {}
      BY <1>1, <1>4
    <3> HIDE DEF gaps
    <3> QED
      BY <3>1, Least
  <2>3. \A s \in known : g <= MaxLSN - rank(s)
    BY <2>2
  <2> DEFINE best == {s \in known : MaxLSN - rank(s) = g}
  <2>4. PICK s \in best : \A t \in best : s <= t
    <3>1. \E s \in known : MaxLSN - rank(s) = g
      BY <2>2
    <3>2. best # {} /\ best \subseteq known
      BY <3>1, Zenon
    <3>3. known \subseteq Nat
      BY <1>1 DEF Standbys
    <3> HIDE DEF best
    <3> QED
      BY <3>2, <3>3, Least
  <2>5. ASSUME NEW t \in known PROVE Ahead(s, t) \/ (~Ahead(t, s) /\ s <= t)
    BY <1>1, <1>2, <2>3, <2>4
  <2>6. Target(answered) \in known /\ Best(Target(answered))
    BY <2>1, <2>4, <2>5
  <2>7. \A t \in known : ~Ahead(t, Target(answered))
    BY <1>1, <1>2, <2>6
  <2> QED
    BY <1>1, <2>6, <2>7 DEF known
<1> QED
  BY <1>3, <1>4

LEMMA TargetType ==
  ASSUME TypeOK, NEW answered \in Answers
  PROVE  Target(answered) \in Standbys
  BY TargetBest

LEMMA InitType == Init => TypeOK
<1> SUFFICES ASSUME Init PROVE TypeOK
  OBVIOUS
<1>1. up \in [Nodes -> BOOLEAN] /\ role \in [Nodes -> {"primary", "standby"}]
  BY DEF Init
<1>2. wal \in [Standbys -> 1..MaxLSN] /\ leaders \subseteq Agents
  BY DEF Init
<1>3. /\ wpc \in [Agents -> Places] /\ fails \in [Agents -> 0..MaxFailures]
      /\ announced \in [Agents -> Nodes] /\ chosen \in [Agents -> Nodes]
  BY NodeTypes DEF Init, Places
<1> QED
  BY <1>1, <1>2, <1>3 DEF Init, TypeOK

LEMMA AgentType ==
  ASSUME TypeOK, WatchInv, NEW a \in Agents,
         Start(a) \/ Watches(a) \/ Signal(a) \/ Exit(a)
  PROVE  TypeOK' /\ WatchInv'
<1> USE NodeTypes
    DEF TypeOK, WatchInv, Goto, dbVars, walVars, electionVars, agentVars
<1>1. CASE Start(a) \/ Signal(a)
  BY <1>1 DEF Start, Signal, Places
<1>2. CASE Exit(a)
  <2>1. /\ wpc' \in [Agents -> Places] /\ fails' \in [Agents -> 0..MaxFailures]
        /\ announced' \in [Agents -> Nodes] /\ chosen' \in [Agents -> Nodes]
    BY <1>2 DEF Exit, Places
  <2> QED
    BY <1>2, <2>1 DEF Exit
<1>3. CASE CheckSucceeds(a) \/ CountFailure(a) \/ StandAside(a)
  BY <1>3 DEF CheckSucceeds, CountFailure, StandAside, CheckFails,
              ThresholdReached, Places
<1>4. CASE BeginFailover(a)
  BY <1>4 DEF BeginFailover, CheckFails, Places
<1>5. CASE FenceSucceeds(a) \/ FenceFails(a)
  <2>1. up' \in [Nodes -> BOOLEAN] /\ fenced' \in BOOLEAN
    BY <1>5 DEF FenceSucceeds, FenceFails, StopPrimary
  <2>2. /\ wpc' \in [Agents -> Places]
        /\ \A b \in Agents : wpc'[b] \in {"down", "watch"} => wpc[b] = wpc'[b]
    BY <1>5 DEF FenceSucceeds, FenceFails, AfterFenceFailure, Places
  <2> QED
    BY <1>5, <2>1, <2>2 DEF FenceSucceeds, FenceFails
<1>6. CASE WitnessConfirms(a) \/ WitnessRefuses(a)
  BY <1>6 DEF WitnessConfirms, WitnessRefuses, Places
<1>7. CASE Select(a) \/ Reselect(a)
  BY <1>7, TargetType DEF Select, Reselect, Places
<1>8. CASE Promote(a)
  <2>1. chosen[a] \in Standbys
    BY <1>8 DEF Promote, Nodes
  <2>2. wpc' \in [Agents -> Places]
    BY <1>8 DEF Promote, Places
  <2>3. promoting' \subseteq Standbys
    BY <1>8, <2>1 DEF Promote
  <2>4. role' \in [Nodes -> {"primary", "standby"}] /\ role'[Primary] = "primary"
    BY <1>8, <2>1 DEF Promote
  <2> QED
    BY <1>8, <2>2, <2>3, <2>4 DEF Promote
<1>9. CASE PromoteFails(a) \/ Confirm(a) \/ ConfirmFails(a)
  BY <1>9 DEF PromoteFails, AfterPromoteFailure, Confirm, ConfirmFails, Places
<1> QED
  BY <1>1, <1>2, <1>3, <1>4, <1>5, <1>6, <1>7, <1>8, <1>9 DEF Watches

LEMMA NextType == TypeOK /\ WatchInv /\ [Next]_vars => TypeOK' /\ WatchInv'
<1> SUFFICES ASSUME TypeOK, WatchInv, [Next]_vars PROVE TypeOK' /\ WatchInv'
  OBVIOUS
<1> USE NodeTypes DEF TypeOK, WatchInv, walVars, electionVars
<1>1. ASSUME NEW a \in Agents,
             Start(a) \/ Watches(a) \/ Signal(a) \/ Exit(a)
      PROVE  TypeOK' /\ WatchInv'
  BY <1>1, AgentType
<1>2. ASSUME NEW s \in Standbys,
             \/ Streams(s) \/ Reconnects(s)
             \/ StandbyCrashes(s) \/ StandbyRestarts(s)
      PROVE  TypeOK' /\ WatchInv'
  <2>1. CASE Streams(s)
    <3>1. wal' \in [Standbys -> 1..MaxLSN]
      BY <2>1 DEF Streams
    <3>2. receiving' \subseteq Standbys
      BY <2>1 DEF Streams
    <3>3. UNCHANGED <<up, role, promoting, fenced, leaders, stopping, agentVars>>
      BY <2>1 DEF Streams
    <3> QED
      BY <3>1, <3>2, <3>3 DEF agentVars
  <2>2. CASE Reconnects(s)
    BY <2>2 DEF Reconnects, agentVars
  <2>3. CASE StandbyCrashes(s)
    BY <2>3 DEF StandbyCrashes, agentVars
  <2>4. CASE StandbyRestarts(s)
    BY <2>4 DEF StandbyRestarts, agentVars
  <2> QED
    BY <1>2, <2>1, <2>2, <2>3, <2>4
<1>3. ASSUME NEW s \in Standbys, PromotionFinishes(s)
      PROVE  TypeOK' /\ WatchInv'
  BY <1>3 DEF PromotionFinishes, agentVars
<1>4. CASE PrimaryCrashes \/ PrimaryRestarts \/ LeadershipMoves
  BY <1>4 DEF PrimaryCrashes, PrimaryRestarts, LeadershipMoves, dbVars, agentVars
<1>5. CASE UNCHANGED vars
  BY <1>5 DEF vars
<1> QED
  BY <1>1, <1>2, <1>3, <1>4, <1>5 DEF Next

(* Every variable keeps its type.                                          *)
THEOREM TypeCorrect == Spec => []TypeOK
<1>1. Init => TypeOK /\ WatchInv
  BY InitType, NodeTypes DEF Init, WatchInv
<1>2. TypeOK /\ WatchInv /\ [Next]_vars => TypeOK' /\ WatchInv'
  BY NextType
<1> QED
  BY <1>1, <1>2, PTL DEF Spec

-----------------------------------------------------------------------------
(* No promotion beside a running primary.                                  *)

LEMMA NextSeal == SafeWitness /\ IInv /\ [Next]_vars => SealInv'
<1> SUFFICES ASSUME SafeWitness, IInv, [Next]_vars PROVE SealInv'
  OBVIOUS
<1> USE NodeTypes DEF IInv, TypeOK, WatchInv, SealInv, Sealed, Goto
<1>1. ASSUME NEW a \in Agents,
             Start(a) \/ Watches(a) \/ Signal(a) \/ Exit(a)
      PROVE  SealInv'
  <2>1. CASE Start(a) \/ Signal(a) \/ Exit(a)
    BY <2>1 DEF Start, Signal, Exit, dbVars, agentVars
  <2>2. CASE CheckSucceeds(a) \/ CountFailure(a) \/ StandAside(a)
    BY <2>2 DEF CheckSucceeds, CountFailure, StandAside, dbVars
  <2>3. CASE BeginFailover(a)
    BY <2>3 DEF BeginFailover, dbVars
  <2>4. CASE FenceSucceeds(a)
    BY <2>4 DEF FenceSucceeds, StopPrimary
  <2>5. CASE FenceFails(a)
    BY <2>5 DEF FenceFails, StopPrimary, AfterFenceFailure
  <2>6. CASE WitnessConfirms(a)
    <3>1. Sealed
      BY <2>6 DEF WitnessConfirms, WitnessReaches, SafeWitness
    <3> QED
      BY <2>6, <3>1 DEF WitnessConfirms, dbVars
  <2>7. CASE WitnessRefuses(a)
    BY <2>7 DEF WitnessRefuses, dbVars
  <2>8. CASE Select(a) \/ Reselect(a)
    BY <2>8 DEF Select, Reselect, dbVars
  <2>9. CASE Promote(a)
    <3>1. Sealed
      BY <2>9 DEF Promote
    <3>2. UNCHANGED <<up, fenced>>
      BY <2>9 DEF Promote
    <3> QED
      BY <2>9, <3>1, <3>2 DEF Promote
  <2>10. CASE PromoteFails(a) \/ Confirm(a) \/ ConfirmFails(a)
    BY <2>10
       DEF PromoteFails, AfterPromoteFailure, Confirm, ConfirmFails, dbVars
  <2> QED
    BY <1>1, <2>1, <2>2, <2>3, <2>4, <2>5, <2>6, <2>7, <2>8, <2>9, <2>10
       DEF Watches
<1>2. ASSUME NEW s \in Standbys,
             \/ Streams(s) \/ Reconnects(s) \/ StandbyCrashes(s)
             \/ StandbyRestarts(s) \/ PromotionFinishes(s)
      PROVE  SealInv'
  BY <1>2 DEF Streams, Reconnects, StandbyCrashes, StandbyRestarts,
              PromotionFinishes, agentVars
<1>3. CASE PrimaryCrashes \/ LeadershipMoves \/ UNCHANGED vars
  BY <1>3 DEF PrimaryCrashes, LeadershipMoves, vars, dbVars, agentVars
<1>4. CASE PrimaryRestarts
  BY <1>4 DEF PrimaryRestarts, agentVars
<1> QED
  BY <1>1, <1>2, <1>3, <1>4 DEF Next

(* The inductive invariant holds of every behaviour.                       *)
THEOREM InvCorrect == ASSUME SafeWitness PROVE Spec => []IInv
<1>1. Init => IInv
  BY InitType, NodeTypes DEF Init, IInv, WatchInv, SealInv
<1>2. IInv /\ [Next]_vars => IInv'
  BY NextType, NextSeal DEF IInv
<1> QED
  BY <1>1, <1>2, PTL DEF Spec

(* However many agents act as leaders, and whatever fails, no standby is   *)
(* promoted, or told to, beside a primary that runs                        *)
(* (executeFenceAndPromote, watchdog.go:199-330).                          *)
THEOREM NoPromotionBesidePrimary ==
  ASSUME SafeWitness PROVE Spec => []PromotedMeansPrimaryStopped
<1>1. IInv => PromotedMeansPrimaryStopped
  BY DEF IInv, SealInv, Sealed, PromotedMeansPrimaryStopped
<1> QED
  BY <1>1, InvCorrect, PTL

LEMMA AtMostOneServes ==
  ASSUME \A m, n \in Nodes : Serves(m) /\ Serves(n) => m = n
  PROVE  NoSplitBrain
<1> DEFINE servers == {n \in Nodes : Serves(n)}
<1>1. PICK k : servers \in SUBSET {k}
  <2>1. CASE servers = {}
    BY <2>1
  <2>2. CASE servers # {}
    BY <2>2
  <2> QED
    BY <2>1, <2>2
<1> HIDE DEF servers
<1>2. IsFiniteSet({k}) /\ Cardinality({k}) = 1
  BY FS_Singleton
<1>3. Cardinality(servers) <= Cardinality({k})
  BY <1>1, <1>2, FS_Subset
<1>4. Cardinality(servers) <= 1
  BY <1>2, <1>3
<1> QED
  BY <1>4 DEF NoSplitBrain, servers

(* With one standby that makes split brain impossible.  With two it does   *)
(* not: two agents may promote one each.                                   *)
THEOREM OneStandbyNoSplitBrain ==
  ASSUME SafeWitness, NumStandbys = 1 PROVE Spec => []NoSplitBrain
<1>1. ASSUME IInv PROVE NoSplitBrain
  <2>1. Nodes = {0, 1} /\ Standbys = {1}
    BY DEF Nodes, Standbys, Primary
  <2>2. ~(Serves(0) /\ Serves(1))
    BY <1>1, <2>1 DEF IInv, SealInv, Sealed, Serves, Primary
  <2> QED
    BY <2>1, <2>2, AtMostOneServes
<1> QED
  BY <1>1, InvCorrect, PTL

(* One agent acts, beside any number of dry runs.                          *)
OneActs == \A a, b \in Agents \ DryRun : a = b

Promoted(s) == role[s] = "primary" \/ s \in promoting

(* A failover finds every standby still a standby: nobody else promotes,   *)
(* and an agent started anew verifies replication first.                   *)
OnceInv ==
  /\ \A a \in DryRun : wpc[a] \in {"down", "watch"}
  /\ \A a \in Agents \ DryRun :
       wpc[a] \in {"watch", "fence", "witness", "select", "reselect", "promote"}
         => \A s \in Standbys : ~Promoted(s)
  /\ \A s, t \in Standbys : Promoted(s) /\ Promoted(t) => s = t

LEMMA AgentOnce ==
  ASSUME OneActs, IInv, OnceInv, NEW a \in Agents,
         Start(a) \/ Watches(a) \/ Signal(a) \/ Exit(a)
  PROVE  OnceInv'
<1> USE NodeTypes DEF Goto, dbVars, agentVars, IInv, TypeOK
<1>1. ASSUME UNCHANGED <<role, promoting>>,
             \A b \in Agents :
               /\ b \in DryRun /\ wpc'[b] # wpc[b] => wpc'[b] \in {"down", "watch"}
               /\ wpc'[b] \in {"watch", "fence", "witness", "select", "reselect",
                               "promote"}
                    => \/ wpc[b] \in {"watch", "fence", "witness", "select",
                                      "reselect", "promote"}
                       \/ \A s \in Standbys : ~Promoted(s)
      PROVE  OnceInv'
  BY <1>1 DEF OnceInv, Promoted
<1>2. CASE Start(a)
  <2>1. \A s \in Standbys : ~Promoted(s)
    BY <1>2 DEF Start, ReplicationVerified, Promoted, SealInv, Sealed
  <2> QED
    BY <1>1, <1>2, <2>1 DEF Start
<1>3. CASE Signal(a) \/ Exit(a)
  BY <1>1, <1>3 DEF Signal, Exit
<1>4. CASE \/ CheckSucceeds(a) \/ CountFailure(a)
           \/ StandAside(a) \/ BeginFailover(a)
  BY <1>1, <1>4 DEF CheckSucceeds, CountFailure, CheckFails, StandAside, BeginFailover
<1>5. ASSUME a \in DryRun, wpc[a] \notin {"down", "watch"} PROVE FALSE
  BY <1>5 DEF OnceInv
<1>6. CASE FenceSucceeds(a) \/ FenceFails(a)
  BY <1>1, <1>5, <1>6 DEF FenceSucceeds, FenceFails, AfterFenceFailure
<1>7. CASE \/ WitnessConfirms(a) \/ WitnessRefuses(a)
           \/ Select(a) \/ Reselect(a)
  BY <1>1, <1>5, <1>7 DEF WitnessConfirms, WitnessRefuses, Select, Reselect
<1>8. CASE Promote(a)
  <2>1. a \in Agents \ DryRun /\ \A s \in Standbys : ~Promoted(s)
    BY <1>5, <1>8 DEF Promote, OnceInv
  <2>2. chosen[a] \in Standbys
    BY <1>8 DEF Promote, WatchInv, Nodes
  <2>3. \A s \in Standbys : Promoted(s)' => s = chosen[a]
    BY <1>8, <2>1, <2>2 DEF Promote, Promoted
  <2>4. /\ wpc'[a] \in {"confirm", "failed"}
        /\ \A b \in Agents \ {a} : wpc'[b] = wpc[b]
    BY <1>8 DEF Promote
  <2>5. \A b \in Agents \ DryRun : b = a
    BY <2>1 DEF OneActs
  <2> QED
    BY <2>1, <2>3, <2>4, <2>5, AgentAssumption DEF OnceInv
<1>9. CASE PromoteFails(a) \/ Confirm(a) \/ ConfirmFails(a)
  BY <1>1, <1>5, <1>9 DEF PromoteFails, AfterPromoteFailure, Confirm, ConfirmFails
<1> QED
  BY <1>2, <1>3, <1>4, <1>6, <1>7, <1>8, <1>9 DEF Watches

LEMMA NextOnce ==
  OneActs /\ IInv /\ OnceInv /\ [Next]_vars => OnceInv'
<1> SUFFICES ASSUME OneActs, IInv, OnceInv, [Next]_vars PROVE OnceInv'
  OBVIOUS
<1> USE NodeTypes DEF agentVars, IInv, TypeOK
<1>1. ASSUME UNCHANGED wpc, \A s \in Standbys : Promoted(s)' => Promoted(s)
      PROVE  OnceInv'
  BY <1>1 DEF OnceInv
<1>2. ASSUME NEW a \in Agents,
             Start(a) \/ Watches(a) \/ Signal(a) \/ Exit(a)
      PROVE  OnceInv'
  BY <1>2, AgentOnce
<1>3. ASSUME NEW s \in Standbys,
             \/ Streams(s) \/ Reconnects(s) \/ StandbyCrashes(s)
             \/ StandbyRestarts(s) \/ PromotionFinishes(s)
      PROVE  OnceInv'
  BY <1>1, <1>3 DEF Streams, Reconnects, StandbyCrashes, StandbyRestarts,
                    PromotionFinishes, Promoted
<1>4. CASE \/ PrimaryCrashes \/ PrimaryRestarts
           \/ LeadershipMoves \/ UNCHANGED vars
  BY <1>1, <1>4 DEF PrimaryCrashes, PrimaryRestarts, LeadershipMoves, vars,
                    dbVars, Promoted
<1> QED
  BY <1>2, <1>3, <1>4 DEF Next

(* With one agent that acts there is no split brain, however many standbys *)
(* there are and however often a supervisor starts the agent again.        *)
THEOREM OneAgentNoSplitBrain ==
  ASSUME SafeWitness, OneActs PROVE Spec => []NoSplitBrain
<1>1. Init => OnceInv
  BY NodeTypes DEF Init, OnceInv, Promoted
<1>2. IInv /\ OnceInv /\ [Next]_vars => OnceInv'
  BY NextOnce
<1>3. ASSUME IInv, OnceInv PROVE NoSplitBrain
  <2>1. ASSUME NEW s \in Standbys, Serves(s) PROVE ~Serves(Primary)
    BY <1>3, <2>1 DEF IInv, SealInv, Sealed, Serves
  <2>2. \A s, t \in Standbys : Serves(s) /\ Serves(t) => s = t
    BY <1>3 DEF OnceInv, Promoted, Serves
  <2>3. \A m, n \in Nodes : Serves(m) /\ Serves(n) => m = n
    BY <2>1, <2>2 DEF Nodes
  <2> QED
    BY <2>3, AtMostOneServes
<1> QED
  BY <1>1, <1>2, <1>3, InvCorrect, PTL DEF Spec

-----------------------------------------------------------------------------
(* Refinement: every failover is a fenced one.                             *)

LEMMA FencedInit == Init => Fencing!Init
  BY NodeTypes DEF Init, Fencing!Init, Standbys

(* The abstract state moves only with these.                               *)
LEMMA FencedStutter ==
  ASSUME UNCHANGED <<up, role, fenced>>
  PROVE  UNCHANGED Fencing!failoverVars
  BY DEF Sealed, Fencing!failoverVars

LEMMA FencedPromotion ==
  ASSUME IInv, NEW s \in Standbys, UNCHANGED <<up, fenced>>,
         role' = [role EXCEPT ![s] = "primary"], Sealed
  PROVE  Fencing!Next
<1>1. {t \in Standbys : role'[t] = "primary"}
        = {t \in Standbys : role[t] = "primary"} \cup {s}
  BY NodeTypes DEF IInv, TypeOK
<1>2. Fencing!Promote(s)
  BY <1>1 DEF Sealed, Fencing!Promote
<1> QED
  BY <1>2 DEF Fencing!Next

LEMMA FencedStop ==
  ASSUME IInv, StopPrimary, UNCHANGED role
  PROVE  [Fencing!Next]_Fencing!failoverVars
<1>1. ~up'[Primary] /\ fenced'
  BY NodeTypes DEF StopPrimary, IInv, TypeOK
<1>2. CASE Sealed
  BY <1>1, <1>2 DEF Sealed, Fencing!failoverVars
<1>3. CASE ~Sealed
  BY <1>1, <1>3 DEF Sealed, Fencing!Stop, Fencing!Next
<1> QED
  BY <1>2, <1>3

LEMMA FencedStep ==
  ASSUME IInv, [Next]_vars
  PROVE  [Fencing!Next]_Fencing!failoverVars
<1> USE DEF dbVars, agentVars
<1>1. ASSUME NEW a \in Agents,
             Start(a) \/ Watches(a) \/ Signal(a) \/ Exit(a)
      PROVE  [Fencing!Next]_Fencing!failoverVars
  <2>1. CASE Start(a) \/ Signal(a) \/ Exit(a)
    BY <2>1, FencedStutter DEF Start, Signal, Exit
  <2>2. CASE \/ CheckSucceeds(a) \/ CountFailure(a)
             \/ StandAside(a) \/ BeginFailover(a)
    BY <2>2, FencedStutter
       DEF CheckSucceeds, CountFailure, StandAside, BeginFailover
  <2>3. CASE FenceSucceeds(a)
    BY <2>3, FencedStop DEF FenceSucceeds
  <2>4. CASE FenceFails(a)
    BY <2>4, FencedStop, FencedStutter DEF FenceFails
  <2>5. CASE WitnessConfirms(a) \/ WitnessRefuses(a) \/ Select(a) \/ Reselect(a)
    BY <2>5, FencedStutter DEF WitnessConfirms, WitnessRefuses, Select, Reselect
  <2>6. CASE Promote(a)
    <3>1. chosen[a] \in Standbys /\ Sealed
      BY <1>1, <2>6, NodeTypes
         DEF Promote, IInv, TypeOK, WatchInv, SealInv, Nodes
    <3>2. UNCHANGED <<up, fenced>>
      BY <2>6 DEF Promote
    <3>3. CASE role' = [role EXCEPT ![chosen[a]] = "primary"]
      BY <3>1, <3>2, <3>3, FencedPromotion
    <3>4. CASE UNCHANGED role
      BY <3>2, <3>4, FencedStutter
    <3> QED
      BY <2>6, <3>3, <3>4 DEF Promote
  <2>7. CASE PromoteFails(a) \/ Confirm(a) \/ ConfirmFails(a)
    BY <2>7, FencedStutter DEF PromoteFails, Confirm, ConfirmFails
  <2> QED
    BY <1>1, <2>1, <2>2, <2>3, <2>4, <2>5, <2>6, <2>7 DEF Watches
<1>2. ASSUME NEW s \in Standbys,
             \/ Streams(s) \/ Reconnects(s)
             \/ StandbyCrashes(s) \/ StandbyRestarts(s)
      PROVE  [Fencing!Next]_Fencing!failoverVars
  <2>1. UNCHANGED <<role, fenced>> /\ up'[Primary] = up[Primary]
    BY <1>2, NodeTypes
       DEF Streams, Reconnects, StandbyCrashes, StandbyRestarts, IInv, TypeOK
  <2> QED
    BY <2>1 DEF Sealed, Fencing!failoverVars
<1>3. ASSUME NEW s \in Standbys, PromotionFinishes(s)
      PROVE  [Fencing!Next]_Fencing!failoverVars
  BY <1>3, FencedPromotion DEF PromotionFinishes, IInv, SealInv
<1>4. CASE PrimaryCrashes
  <2>1. up[Primary] /\ ~up'[Primary] /\ UNCHANGED <<role, fenced>>
    BY <1>4, NodeTypes DEF PrimaryCrashes, IInv, TypeOK
  <2>2. CASE fenced \/ "restart" \notin Faults
    BY <2>1, <2>2 DEF Sealed, Fencing!Stop, Fencing!Next
  <2>3. CASE ~fenced /\ "restart" \in Faults
    BY <2>1, <2>3 DEF Sealed, Fencing!Fail, Fencing!Next
  <2> QED
    BY <2>2, <2>3 DEF IInv, TypeOK
<1>5. CASE PrimaryRestarts
  <2>1. ~up[Primary] /\ up'[Primary] /\ ~Sealed /\ UNCHANGED <<role, fenced>>
    BY <1>5, NodeTypes DEF PrimaryRestarts, Sealed, IInv, TypeOK
  <2> QED
    BY <2>1 DEF Sealed, Fencing!Recover, Fencing!Next
<1>6. CASE LeadershipMoves \/ UNCHANGED vars
  BY <1>6, FencedStutter DEF LeadershipMoves, vars
<1> QED
  BY <1>1, <1>2, <1>3, <1>4, <1>5, <1>6 DEF Next

(* Every behaviour of the agents, of their elections and of the servers is *)
(* a fenced failover (executeFenceAndPromote, watchdog.go:199-330): the    *)
(* primary that has stopped never serves again, standbys become primaries  *)
(* only from then on, and remain so.                                       *)
THEOREM FailoverIsFenced ==
  ASSUME SafeWitness PROVE Spec => ImplementsFencing
<1>1. IInv /\ [Next]_vars => [Fencing!Next]_Fencing!failoverVars
  BY FencedStep
<1> QED
  BY <1>1, FencedInit, InvCorrect, PTL DEF Spec, ImplementsFencing, Fencing!Spec

(* What a fenced failover promises holds of every behaviour: applications  *)
(* never find the old primary beside a standby promoted.                   *)
THEOREM FencedGenerations ==
  ASSUME SafeWitness PROVE Spec => []Fencing!NoTwoGenerations
<1>1. Fencing!Init => Fencing!NoTwoGenerations
  BY DEF Fencing!Init, Fencing!NoTwoGenerations
<1>2. Fencing!NoTwoGenerations /\ [Fencing!Next]_Fencing!failoverVars
        => Fencing!NoTwoGenerations'
  BY DEF Fencing!NoTwoGenerations, Fencing!Next, Fencing!Fail,
         Fencing!Recover, Fencing!Stop, Fencing!Promote, Fencing!failoverVars
<1> QED
  BY <1>1, <1>2, FailoverIsFenced, PTL DEF ImplementsFencing, Fencing!Spec

-----------------------------------------------------------------------------
(* The target is the most advanced standby.                                *)

(* Longer positions have greater texts.                                    *)
TextsInOrder ==
  \A i \in 1..MaxLSN, j \in 1..MaxLSN : i < j => TextRank[i] < TextRank[j]

(* A standby that has a position to tell runs; between a selection and the *)
(* promotion of its target no standby gets more of the WAL.                *)
ChosenInv == (\A s \in receiving : up[s]) /\ MostAdvancedChosen

LEMMA MostAdvancedTarget ==
  ASSUME "queryfail" \notin Faults, TextsInOrder, TypeOK,
         NEW answered \in Answers, NEW s \in receiving, up[s]
  PROVE  wal[s] <= wal[Target(answered)]
<1>1. s \in Standbys /\ s \in answered
  BY DEF Answers, TypeOK
<1>2. CASE NumStandbys = 1
  BY <1>1, <1>2 DEF Target, Standbys, TypeOK
<1>3. CASE NumStandbys # 1
  <2> DEFINE t == Target(answered)
  <2>1. t \in Standbys /\ ~Ahead(s, t)
    BY <1>1, <1>3, TargetBest
  <2>2. wal[s] \in 1..MaxLSN /\ wal[t] \in 1..MaxLSN
    BY <1>1, <2>1 DEF TypeOK
  <2>3. ~(TextRank[wal[t]] < TextRank[wal[s]])
    BY <1>1, <2>1, AheadRank
  <2>4. ~(wal[t] < wal[s])
    BY <2>2, <2>3 DEF TextsInOrder
  <2> QED
    BY <2>2, <2>4
<1> QED
  BY <1>2, <1>3

(* An agent starts and stops no standby, and sends no WAL.                 *)
LEMMA AgentLeavesStandbys ==
  ASSUME IInv, NEW a \in Agents,
         Start(a) \/ Watches(a) \/ Signal(a) \/ Exit(a)
  PROVE  UNCHANGED walVars /\ \A s \in Standbys : up'[s] = up[s]
<1> USE DEF dbVars
<1>1. CASE Start(a) \/ Signal(a) \/ Exit(a)
  BY <1>1 DEF Start, Signal, Exit
<1>2. CASE CheckSucceeds(a) \/ CountFailure(a) \/ StandAside(a) \/ BeginFailover(a)
  BY <1>2 DEF CheckSucceeds, CountFailure, StandAside, BeginFailover
<1>3. CASE FenceSucceeds(a) \/ FenceFails(a)
  BY <1>3, NodeTypes DEF FenceSucceeds, FenceFails, StopPrimary, IInv, TypeOK
<1>4. CASE WitnessConfirms(a) \/ WitnessRefuses(a) \/ Select(a) \/ Reselect(a)
  BY <1>4 DEF WitnessConfirms, WitnessRefuses, Select, Reselect
<1>5. CASE Promote(a)
  BY <1>5 DEF Promote
<1>6. CASE PromoteFails(a) \/ Confirm(a) \/ ConfirmFails(a)
  BY <1>6 DEF PromoteFails, Confirm, ConfirmFails
<1> QED
  BY <1>1, <1>2, <1>3, <1>4, <1>5, <1>6 DEF Watches

LEMMA NextChosen ==
  ASSUME "queryfail" \notin Faults, TextsInOrder, IInv, ChosenInv, [Next]_vars
  PROVE  ChosenInv'
<1> USE NodeTypes
    DEF Goto, dbVars, walVars, electionVars, agentVars, IInv, TypeOK
<1>1. ASSUME receiving' \subseteq receiving, UNCHANGED wal,
             \A s \in receiving' : up'[s] = up[s],
             \A a \in Agents :
               wpc'[a] = "promote" => UNCHANGED <<wpc[a], chosen[a]>>
      PROVE  ChosenInv'
  BY <1>1 DEF ChosenInv, MostAdvancedChosen
<1>2. ASSUME NEW a \in Agents,
             Start(a) \/ Watches(a) \/ Signal(a) \/ Exit(a)
      PROVE  ChosenInv'
  <2>1. /\ UNCHANGED <<wal, receiving>>
        /\ \A s \in receiving' : s \in Standbys /\ up'[s] = up[s]
    BY <1>2, AgentLeavesStandbys
  <2>2. CASE Reselect(a)
    <3>1. PICK v \in Answers : chosen' = [chosen EXCEPT ![a] = Target(v)]
      BY <2>2 DEF Reselect
    <3>2. \A s \in receiving : wal[s] <= wal[chosen'[a]]
      BY <3>1, MostAdvancedTarget DEF ChosenInv
    <3>3. \A b \in Agents \ {a} : UNCHANGED <<wpc[b], chosen[b]>>
      BY <2>2 DEF Reselect
    <3> QED
      BY <2>1, <3>2, <3>3 DEF ChosenInv, MostAdvancedChosen
  <2>3. CASE ~Reselect(a)
    <3>1. \A b \in Agents :
            wpc'[b] = "promote" => UNCHANGED <<wpc[b], chosen[b]>>
      <4>1. CASE Start(a) \/ Signal(a) \/ Exit(a)
        BY <4>1 DEF Start, Signal, Exit
      <4>2. CASE \/ CheckSucceeds(a) \/ CountFailure(a)
                 \/ StandAside(a) \/ BeginFailover(a)
        BY <4>2 DEF CheckSucceeds, CountFailure, StandAside, BeginFailover
      <4>3. CASE \/ FenceSucceeds(a) \/ FenceFails(a) \/ WitnessConfirms(a)
                 \/ WitnessRefuses(a) \/ Select(a)
        BY <4>3 DEF FenceSucceeds, FenceFails, AfterFenceFailure,
                    WitnessConfirms, WitnessRefuses, Select
      <4>4. CASE \/ Promote(a) \/ PromoteFails(a)
                 \/ Confirm(a) \/ ConfirmFails(a)
        BY <4>4 DEF Promote, PromoteFails, AfterPromoteFailure, Confirm,
                    ConfirmFails
      <4> QED
        BY <1>2, <2>3, <4>1, <4>2, <4>3, <4>4 DEF Watches
    <3> QED
      BY <1>1, <2>1, <3>1
  <2> QED
    BY <2>2, <2>3
<1>3. ASSUME NEW s \in Standbys, Streams(s) \/ Reconnects(s)
      PROVE  ChosenInv'
  <2>1. ~\E a \in Agents : wpc[a] = "promote"
    BY <1>3 DEF Streams, Reconnects, MayStream, Serves, SealInv, Sealed
  <2>2. /\ receiving' = receiving \cup {s} /\ up[s]
        /\ UNCHANGED <<up, wpc>>
    BY <1>3 DEF Streams, Reconnects, MayStream
  <2> QED
    BY <2>1, <2>2 DEF ChosenInv, MostAdvancedChosen
<1>4. ASSUME NEW s \in Standbys, StandbyCrashes(s) \/ StandbyRestarts(s)
      PROVE  ChosenInv'
  BY <1>1, <1>4 DEF StandbyCrashes, StandbyRestarts, ChosenInv
<1>5. ASSUME NEW s \in Standbys, PromotionFinishes(s) PROVE ChosenInv'
  BY <1>1, <1>5 DEF PromotionFinishes
<1>6. CASE PrimaryCrashes \/ PrimaryRestarts
  BY <1>1, <1>6 DEF PrimaryCrashes, PrimaryRestarts
<1>7. CASE LeadershipMoves \/ UNCHANGED vars
  BY <1>1, <1>7 DEF LeadershipMoves, vars
<1> QED
  BY <1>2, <1>3, <1>4, <1>5, <1>6, <1>7 DEF Next

(* PromoteStandby (ops.go) promotes the standby with the most WAL of those *)
(* that run and have a position to tell, if every one that runs answers    *)
(* and texts are ordered as the positions they stand for.  The order of    *)
(* texts is all that the configuration of failover_text_order lacks.       *)
THEOREM MostAdvancedPromoted ==
  ASSUME SafeWitness, "queryfail" \notin Faults, TextsInOrder
  PROVE  Spec => []MostAdvancedChosen
<1>1. Init => ChosenInv
  BY NodeTypes DEF Init, ChosenInv, MostAdvancedChosen
<1>2. IInv /\ ChosenInv /\ [Next]_vars => ChosenInv'
  BY NextChosen
<1>3. ChosenInv => MostAdvancedChosen
  BY DEF ChosenInv
<1> QED
  BY <1>1, <1>2, <1>3, InvCorrect, PTL DEF Spec
=============================================================================
