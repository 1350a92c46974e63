--------------------------- MODULE DDLSyncProofs ---------------------------
(***************************************************************************)
(* Proofs about DDLSync for any number of nodes, statements, hosts that    *)
(* replay, failures and runs of ddl-setup.                                 *)
(***************************************************************************)
EXTENDS DDLSync, SequenceTheorems, WellFoundedInduction, TLAPS

USE SyncAssumption

(* A run that has read entries is at one of them, and none of them is lost *)
(* from the source's log; a target is never the source itself.             *)
SyncOf(p) ==
  pc[p] \notin {"idle", "source"} =>
    /\ entries[p] # {} /\ entries[p] \subseteq DOMAIN log[src[p]]
    /\ k[p] \in entries[p]
    /\ IF pc[p] = "mark" THEN tgt[p] = NumNodes + 1
                         ELSE tgt[p] \in Nodes \ {src[p]}

SyncInv == \A p \in Syncers : SyncOf(p)

(* What a node has logged has run there.                                   *)
LogApplied ==
  \A n \in Nodes : \A i \in DOMAIN log[n] : log[n][i].stmt \in applied[n]

Tried(s, m) == s \in applied[m] \/ <<s, m>> \in missed

(* The replay of entry i on node m is behind the run p.                    *)
Passed(p, i, m) ==
  \/ m < tgt[p]
  \/ m = tgt[p] /\ (i < k[p] \/ (i = k[p] /\ pc[p] = "enable"))

TriedOf(p) ==
  pc[p] \notin {"idle", "source"} =>
    \A i \in entries[p], m \in Nodes \ {src[p]} :
      Passed(p, i, m) => Tried(Stmt(p, i), m)

TriedInv == \A p \in Syncers : TriedOf(p)

ReplayInv == SyncInv /\ LogApplied /\ TriedInv /\ MarkedMeansTried

(* A command is replayed with the trigger on only where this is recorded.  *)
QuietInv ==
  \A p \in Syncers :
    pc[p] = "exec" /\ trigger[tgt[p]] = "on" => <<Stmt(p, k[p]), tgt[p]>> \in loud

-----------------------------------------------------------------------------
(* What the helpers return.                                                *)

LEMMA FirstIsLeast ==
  ASSUME NEW ids \in SUBSET Nat, ids # {}
  PROVE  First(ids) \in ids /\ \A j \in ids : First(ids) <= j
<1> DEFINE R == {p \in Nat \X Nat : p[1] < p[2]}
<1>1. IsWellFoundedOn(R, Nat)
  <2>1. R = OpToRel(<, Nat)
    BY Zenon DEF OpToRel
  <2> QED
    BY <2>1, NatLessThanWellFounded, Zenon
<1>2. PICK x \in ids : \A y \in ids : <<y, x>> \notin R
  <2> HIDE DEF R
  <2> QED
    BY <1>1, WFMin
<1>3. \A y \in ids : y < x => <<y, x>> \in R
  OBVIOUS
<1> HIDE DEF R
<1>4. \A y \in ids : ~(y < x) /\ y \in Nat
  BY <1>2, <1>3
<1>5. x \in Nat
  OBVIOUS
<1>6. \A y \in ids : x <= y
  BY <1>4, <1>5
<1> QED
  BY <1>6, Zenon DEF First

LEMMA Marked ==
  ASSUME NEW l \in Seq(Entry), NEW i \in DOMAIN l, NEW m,
         m = [l EXCEPT ![i].replayed = TRUE]
  PROVE  /\ m \in Seq(Entry) /\ DOMAIN m = DOMAIN l
         /\ \A j \in DOMAIN l : /\ m[j].stmt = l[j].stmt
                                /\ m[j].replayed => j = i \/ l[j].replayed
<1>1. l \in [1..Len(l) -> Entry] /\ DOMAIN l = 1..Len(l)
  OBVIOUS
<1>2. \A j \in DOMAIN l :
        m[j] = IF j = i THEN [l[i] EXCEPT !.replayed = TRUE] ELSE l[j]
  OBVIOUS
<1>3. l[i] \in Entry
  BY <1>1
<1>4. [l[i] EXCEPT !.replayed = TRUE] \in Entry
  BY <1>3 DEF Entry
<1>5. [l[i] EXCEPT !.replayed = TRUE].stmt = l[i].stmt
  BY <1>3 DEF Entry
<1>6. m \in [1..Len(l) -> Entry]
  BY <1>1, <1>2, <1>4
<1>7. m \in Seq(Entry)
  BY <1>6, IsASeq
<1> QED
  BY <1>1, <1>2, <1>5, <1>7

LEMMA NextTargetType ==
  ASSUME NEW p \in Syncers, src[p] \in Nodes, NEW t \in 0..NumNodes, t # src[p]
  PROVE  /\ NextTarget(p, t) \in 1..NumNodes + 1
         /\ NextTarget(p, t) # src[p]
         /\ \A m \in Nodes \ {src[p]} : m < NextTarget(p, t) => m <= t
  BY DEF NextTarget, Nodes

LEMMA PendingIds ==
  ASSUME TypeOK, NEW n \in Nodes
  PROVE  Pending(n) \subseteq DOMAIN log[n] /\ DOMAIN log[n] \subseteq Nat \ {0}
<1>1. log[n] \in Seq(Entry)
  BY DEF TypeOK
<1> QED
  BY <1>1 DEF Pending

LEMMA RestIds ==
  ASSUME TypeOK, NEW p \in Syncers, Rest(p) # {}
  PROVE  /\ First(Rest(p)) \in entries[p] /\ First(Rest(p)) > k[p]
         /\ \A i \in entries[p] : i < First(Rest(p)) => i <= k[p]
<1>1. entries[p] \subseteq Nat /\ k[p] \in Nat
  BY DEF TypeOK
<1>2. Rest(p) \in SUBSET Nat
  BY <1>1 DEF Rest
<1>3. First(Rest(p)) \in Rest(p) /\ \A j \in Rest(p) : First(Rest(p)) <= j
  BY <1>2, FirstIsLeast
<1>4. First(Rest(p)) \in Nat
  BY <1>2, <1>3
<1>5. \A i \in entries[p] : i \in Nat /\ (i > k[p] => First(Rest(p)) <= i)
  BY <1>1, <1>3 DEF Rest
<1>6. \A i \in Rest(p) : i \in entries[p] /\ i > k[p]
  BY DEF Rest
<1> QED
  BY <1>1, <1>3, <1>4, <1>5, <1>6

LEMMA StmtType ==
  ASSUME TypeOK, SyncInv, NEW p \in Syncers, pc[p] \notin {"idle", "source"},
         NEW i \in entries[p]
  PROVE  Stmt(p, i) \in Commands
<1>1. log[src[p]] \in Seq(Entry) /\ i \in DOMAIN log[src[p]]
  BY DEF TypeOK, SyncInv, SyncOf
<1>2. log[src[p]][i] \in Entry
  BY <1>1
<1> QED
  BY <1>2 DEF Stmt, Entry

(* Whatever becomes of a trigger, its kind and the histories' are kept.    *)
LEMMA RestoreEffect ==
  ASSUME TypeOK, SyncInv, NEW n \in Nodes, NEW x \in {"absent", "on", "off"},
         Restore(n, x)
  PROVE  /\ trigger' \in [Nodes -> {"absent", "on", "off"}] /\ cut' \subseteq Nodes
         /\ \A m \in Nodes : trigger'[m] = IF m = n THEN x ELSE trigger[m]
         /\ loud' \subseteq Commands \X Nodes /\ loud \subseteq loud'
         /\ \A p \in Syncers :
              tgt[p] = n /\ pc[p] = "exec" => <<Stmt(p, k[p]), n>> \in loud'
<1>1. Laid(n) \subseteq Commands \X Nodes
  <2>1. ASSUME NEW p \in Syncers, pc[p] = "exec" PROVE Stmt(p, k[p]) \in Commands
    BY <2>1, StmtType DEF SyncInv, SyncOf
  <2> QED
    BY <2>1 DEF Laid
<1>2. loud' = loud \cup Laid(n)
  BY DEF Restore
<1> QED
  BY <1>1, <1>2 DEF Restore, Laid, TypeOK

(* What has run, is logged or is recorded stays.                           *)
Grows ==
  /\ \A n \in Nodes :
       /\ applied[n] \subseteq applied'[n]
       /\ DOMAIN log[n] \subseteq DOMAIN log'[n]
       /\ \A i \in DOMAIN log[n] : log'[n][i].stmt = log[n][i].stmt
  /\ missed \subseteq missed' /\ loud \subseteq loud'

(* The log's end is the only entry a statement adds, and only the trigger  *)
(* adds it.                                                                *)
LEMMA ExecuteEffect ==
  ASSUME TypeOK, NEW s \in Commands, NEW n \in Nodes, Execute(s, n)
  PROVE  /\ applied' \in [Nodes -> SUBSET Commands]
         /\ log' \in [Nodes -> Seq(Entry)]
         /\ s \in applied'[n]
         /\ \A m \in Nodes :
              /\ applied[m] \subseteq applied'[m]
              /\ DOMAIN log[m] \subseteq DOMAIN log'[m]
              /\ \A i \in DOMAIN log[m] : log'[m][i] = log[m][i]
              /\ \A i \in DOMAIN log'[m] \ DOMAIN log[m] :
                   /\ m = n /\ i = Len(log[n]) + 1 /\ trigger[n] = "on"
                   /\ log'[n][i] = [stmt |-> s, replayed |-> FALSE]
<1>1. applied' = [applied EXCEPT ![n] = @ \cup {s}]
  BY DEF Execute
<1>2. /\ applied' \in [Nodes -> SUBSET Commands]
      /\ s \in applied'[n] /\ \A m \in Nodes : applied[m] \subseteq applied'[m]
  BY <1>1 DEF TypeOK
<1>3. CASE trigger[n] # "on"
  BY <1>2, <1>3 DEF Execute, TypeOK
<1>4. CASE trigger[n] = "on"
  <2> DEFINE e == [stmt |-> s, replayed |-> FALSE]
             l == Append(log[n], e)
  <2>1. e \in Entry /\ log[n] \in Seq(Entry)
    BY DEF Entry, TypeOK
  <2>2. log' = [log EXCEPT ![n] = l]
    BY <1>4 DEF Execute
  <2> HIDE DEF e
  <2>3. /\ l \in Seq(Entry) /\ Len(l) = Len(log[n]) + 1
        /\ \A i \in 1..Len(log[n]) : l[i] = log[n][i]
        /\ l[Len(log[n]) + 1] = e
    BY <2>1, AppendProperties
  <2>4. /\ DOMAIN log[n] = 1..Len(log[n]) /\ DOMAIN l = 1..Len(log[n]) + 1
        /\ Len(log[n]) \in Nat
    BY <2>1, <2>3
  <2> HIDE DEF l
  <2>5. log' \in [Nodes -> Seq(Entry)]
    BY <2>2, <2>3 DEF TypeOK
  <2>6. \A m \in Nodes : log'[m] = IF m = n THEN l ELSE log[m]
    BY <2>2 DEF TypeOK
  <2>7. ASSUME NEW m \in Nodes
        PROVE  /\ DOMAIN log[m] \subseteq DOMAIN log'[m]
               /\ \A i \in DOMAIN log[m] : log'[m][i] = log[m][i]
               /\ \A i \in DOMAIN log'[m] \ DOMAIN log[m] :
                    m = n /\ i = Len(log[n]) + 1 /\ log'[n][i] = e
    BY <2>3, <2>4, <2>6
  <2> QED
    BY <1>2, <1>4, <2>5, <2>7 DEF e
<1> QED
  BY <1>3, <1>4

(* Only the script touches a trigger, and it leaves it on.                 *)
LEMMA ExecuteTrigger ==
  ASSUME TypeOK, SyncInv, NEW s \in Commands, NEW n \in Nodes, Execute(s, n)
  PROVE  /\ trigger' \in [Nodes -> {"absent", "on", "off"}] /\ cut' \subseteq Nodes
         /\ loud' \subseteq Commands \X Nodes /\ loud \subseteq loud'
         /\ \A m \in Nodes :
              \/ trigger'[m] = trigger[m] /\ (m \in cut => m \in cut')
              \/ /\ m = n /\ trigger'[m] = "on"
                 /\ \A p \in Syncers :
                      tgt[p] = n /\ pc[p] = "exec" => <<Stmt(p, k[p]), n>> \in loud'
<1>1. CASE s = Script
  <2>1. Restore(n, "on")
    BY <1>1 DEF Execute
  <2>2. \A m \in Nodes \ {n} : m \in cut => m \in cut'
    BY <2>1 DEF Restore
  <2> QED
    BY <2>1, <2>2, RestoreEffect
<1>2. CASE s # Script
  <2>1. UNCHANGED <<trigger, cut, loud>>
    BY <1>2 DEF Execute
  <2> QED
    BY <2>1 DEF TypeOK
<1> QED
  BY <1>1, <1>2

LEMMA MarkEffect ==
  ASSUME TypeOK, SyncInv, NEW p \in Syncers, Mark(p)
  PROVE  /\ log' \in [Nodes -> Seq(Entry)]
         /\ \A m \in Nodes :
              /\ DOMAIN log'[m] = DOMAIN log[m]
              /\ \A i \in DOMAIN log[m] :
                   /\ log'[m][i].stmt = log[m][i].stmt
                   /\ log'[m][i].replayed
                        => (m = src[p] /\ i = k[p]) \/ log[m][i].replayed
<1>1. src[p] \in Nodes /\ k[p] \in DOMAIN log[src[p]]
  BY DEF Mark, TypeOK, SyncInv, SyncOf
<1> DEFINE l == [log[src[p]] EXCEPT ![k[p]].replayed = TRUE]
<1>2. log' = [log EXCEPT ![src[p]] = l]
  BY DEF Mark
<1>3. log[src[p]] \in Seq(Entry)
  BY <1>1 DEF TypeOK
<1>4. l = [log[src[p]] EXCEPT ![k[p]].replayed = TRUE]
  OBVIOUS
<1> HIDE DEF l
<1>5. /\ l \in Seq(Entry) /\ DOMAIN l = DOMAIN log[src[p]]
      /\ \A j \in DOMAIN log[src[p]] :
           /\ l[j].stmt = log[src[p]][j].stmt
           /\ l[j].replayed => j = k[p] \/ log[src[p]][j].replayed
  BY <1>1, <1>3, <1>4, Marked
<1>6. log' \in [Nodes -> Seq(Entry)]
  BY <1>2, <1>5 DEF TypeOK
<1>7. \A m \in Nodes : log'[m] = IF m = src[p] THEN l ELSE log[m]
  BY <1>2 DEF TypeOK
<1> QED
  BY <1>5, <1>6, <1>7

LEMMA AtTargetEffect ==
  ASSUME TypeOK, NEW p \in Syncers, NEW t \in 1..NumNodes + 1,
         NEW ids \in SUBSET (Nat \ {0}), ids # {}, AtTarget(p, t, ids)
  PROVE  /\ tgt' \in [Syncers -> 1..NumNodes + 1] /\ tgt'[p] = t
         /\ k' \in [Syncers -> Nat \ {0}] /\ k'[p] = First(ids)
         /\ First(ids) \in ids /\ \A j \in ids : First(ids) <= j
         /\ pc' \in [Syncers -> Places]
         /\ pc'[p] = IF t > NumNodes THEN "mark" ELSE "connect"
         /\ \A q \in Syncers \ {p} :
              tgt'[q] = tgt[q] /\ k'[q] = k[q] /\ pc'[q] = pc[q]
<1>1. First(ids) \in ids /\ \A j \in ids : First(ids) <= j
  BY FirstIsLeast
<1> QED
  BY <1>1 DEF AtTarget, TypeOK, Places

LEMMA AtSourceEffect ==
  ASSUME TypeOK, NEW p \in Syncers, NEW n \in 1..NumNodes + 1, AtSource(p, n)
  PROVE  /\ tgt' \in [Syncers -> 1..NumNodes + 1] /\ k' \in [Syncers -> Nat \ {0}]
         /\ pc' \in [Syncers -> Places] /\ src' \in [Syncers -> Nodes]
         /\ entries' \in [Syncers -> SUBSET (Nat \ {0})]
         /\ pc'[p] \in {"idle", "source"}
         /\ \A q \in Syncers \ {p} :
              /\ tgt'[q] = tgt[q] /\ k'[q] = k[q] /\ pc'[q] = pc[q]
              /\ src'[q] = src[q] /\ entries'[q] = entries[q]
  BY DEF AtSource, TypeOK, Places, Nodes

(* The other runs of ddl-sync stand where they stood.                      *)
Others(p) ==
  \A q \in Syncers \ {p} :
    /\ pc'[q] = pc[q] /\ src'[q] = src[q] /\ tgt'[q] = tgt[q]
    /\ entries'[q] = entries[q] /\ k'[q] = k[q]

-----------------------------------------------------------------------------
(* Types, and where a run is.                                              *)

LEMMA InitType == Init => TypeOK /\ SyncInv
  BY DEF Init, TypeOK, SyncInv, SyncOf, Nodes, Places, Entry

LEMMA SyncType ==
  ASSUME TypeOK, SyncInv, NEW p \in Syncers, Syncs(p) \/ Crash(p)
  PROVE  TypeOK' /\ SyncOf(p)' /\ Others(p) /\ Grows
<1> USE DEF dbVars, setupVars, faultVars, Others, Grows
<1> DEFINE BigType == /\ src' \in [Syncers -> Nodes]
                      /\ tgt' \in [Syncers -> 1..NumNodes + 1]
                      /\ entries' \in [Syncers -> SUBSET (Nat \ {0})]
                      /\ k' \in [Syncers -> Nat \ {0}]
                      /\ pc' \in [Syncers -> Places]
<1>a. /\ src[p] \in Nodes /\ Nodes \subseteq 1..NumNodes /\ src[p] # 0
      /\ src[p] + 1 \in 1..NumNodes + 1 /\ NumNodes + 1 \in 1..NumNodes + 1
  BY DEF TypeOK, Nodes
<1>b. ASSUME UNCHANGED <<src, tgt, entries, k>>, NEW x \in Places,
             pc' = [pc EXCEPT ![p] = x]
      PROVE  BigType /\ Others(p)
  BY <1>b DEF TypeOK
<1>c. ASSUME pc[p] \notin {"idle", "source", "mark"}
      PROVE  /\ tgt[p] \in 0..NumNodes /\ tgt[p] \in Nodes \ {src[p]}
             /\ entries[p] # {} /\ entries[p] \in SUBSET (Nat \ {0})
             /\ entries[p] \subseteq DOMAIN log[src[p]]
  <2>1. entries[p] \in SUBSET (Nat \ {0})
    BY DEF TypeOK
  <2>2. /\ tgt[p] \in Nodes \ {src[p]}
        /\ entries[p] # {} /\ entries[p] \subseteq DOMAIN log[src[p]]
    BY <1>c DEF SyncInv, SyncOf
  <2> QED
    BY <2>1, <2>2 DEF Nodes
<1>1. CASE Begin(p)
  BY <1>1, <1>b DEF Begin, TypeOK, SyncOf, Places
<1>2. CASE ReadSource(p) \/ ReadBreaks(p)
  <2>a. PICK ids \in SUBSET Pending(src[p]) : Take(p, ids)
    BY <1>2 DEF ReadSource, ReadBreaks
  <2>b. /\ UNCHANGED <<dbVars, setupVars, missed, cut, loud>>
        /\ failures' \in 0..MaxFailures
    BY <1>2 DEF ReadSource, ReadBreaks, Fails, TypeOK
  <2>1. CASE ids = {}
    <3>1. AtSource(p, src[p] + 1)
      BY <2>a, <2>1 DEF Take
    <3> QED
      BY <2>b, <1>a, <3>1, AtSourceEffect DEF TypeOK, SyncOf
  <2>2. CASE ids # {}
    <3> DEFINE t == NextTarget(p, 0)
    <3>1. ids \subseteq DOMAIN log[src[p]] /\ ids \in SUBSET (Nat \ {0})
      BY <1>a, <2>a, PendingIds
    <3>2. t \in 1..NumNodes + 1 /\ t # src[p]
      BY <1>a, NextTargetType
    <3>3. /\ AtTarget(p, t, ids) /\ ids # {} /\ UNCHANGED <<src, log>>
          /\ entries' = [entries EXCEPT ![p] = ids]
      BY <2>a, <2>b, <2>2 DEF Take
    <3> HIDE DEF t
    <3>4. /\ tgt' \in [Syncers -> 1..NumNodes + 1] /\ tgt'[p] = t
          /\ k' \in [Syncers -> Nat \ {0}] /\ k'[p] \in ids
          /\ pc' \in [Syncers -> Places]
          /\ pc'[p] = IF t > NumNodes THEN "mark" ELSE "connect"
          /\ \A q \in Syncers \ {p} :
               tgt'[q] = tgt[q] /\ k'[q] = k[q] /\ pc'[q] = pc[q]
      BY <3>1, <3>2, <3>3, AtTargetEffect
    <3>5. /\ entries' \in [Syncers -> SUBSET (Nat \ {0})] /\ entries'[p] = ids
          /\ \A q \in Syncers \ {p} : entries'[q] = entries[q]
      BY <3>1, <3>3 DEF TypeOK
    <3>6. IF t > NumNodes THEN t = NumNodes + 1 ELSE t \in Nodes \ {src[p]}
      BY <3>2 DEF Nodes
    <3>7. src'[p] = src[p] /\ log' = log
      BY <3>3
    <3>8. SyncOf(p)'
      BY <3>1, <3>3, <3>4, <3>5, <3>6, <3>7 DEF SyncOf
    <3> QED
      BY <2>b, <3>3, <3>4, <3>5, <3>8 DEF TypeOK
  <2> QED
    BY <2>1, <2>2
<1>3. CASE SourceFails(p) \/ LoseSource(p) \/ Crash(p)
  <2>1. AtSource(p, NumNodes + 1) \/ AtSource(p, src[p] + 1)
    BY <1>3 DEF SourceFails, LoseSource, Crash
  <2>2. BigType /\ Others(p) /\ SyncOf(p)'
    BY <1>a, <2>1, AtSourceEffect DEF SyncOf
  <2>3. /\ missed' = missed /\ cut' \subseteq Nodes /\ failures' \in 0..MaxFailures
        /\ loud' = loud /\ UNCHANGED <<dbVars, setupVars>>
    BY <1>3 DEF SourceFails, LoseSource, Crash, Fails, BreaksOff, TypeOK
  <2> QED
    BY <2>2, <2>3 DEF TypeOK
<1>4. CASE Connect(p)
  BY <1>4, <1>b DEF Connect, TypeOK, SyncInv, SyncOf, Places
<1>5. CASE LoseTarget(p)
  <2> DEFINE t == NextTarget(p, tgt[p])
  <2>1. tgt[p] \in 0..NumNodes /\ tgt[p] # src[p] /\ tgt[p] \in Nodes
    BY <1>5, <1>c DEF LoseTarget
  <2>2. t \in 1..NumNodes + 1 /\ t # src[p]
    BY <1>a, <2>1, NextTargetType
  <2>3. /\ AtTarget(p, t, entries[p]) /\ UNCHANGED <<src, entries, dbVars, setupVars>>
        /\ entries[p] # {} /\ entries[p] \in SUBSET (Nat \ {0})
    BY <1>5, <1>c DEF LoseTarget
  <2> HIDE DEF t
  <2>4. BigType /\ Others(p)
    BY <2>2, <2>3, AtTargetEffect DEF TypeOK
  <2>5. SyncOf(p)'
    <3>1. entries[p] \subseteq DOMAIN log[src[p]]
      BY <1>5, <1>c DEF LoseTarget
    <3> QED
      BY <2>2, <2>3, <3>1, AtTargetEffect DEF SyncOf, Nodes
  <2>6. Remaining(p) \subseteq Commands \X Nodes
    <3>1. \A i \in {k[p]} \cup Rest(p) : Stmt(p, i) \in Commands
      BY <1>5, StmtType DEF LoseTarget, SyncInv, SyncOf, Rest
    <3> QED
      BY <2>1, <3>1 DEF Remaining
  <2>7. /\ missed \subseteq missed' /\ missed' \subseteq Commands \X Nodes
        /\ cut' \subseteq Nodes /\ failures' \in 0..MaxFailures /\ loud' = loud
    BY <1>5, <2>6 DEF LoseTarget, Fails, BreaksOff, TypeOK
  <2> QED
    BY <2>3, <2>4, <2>5, <2>7 DEF TypeOK
<1>6. CASE Disable(p) \/ DisableFails(p)
  <2>1. tgt[p] \in Nodes /\ Stmt(p, k[p]) \in Commands
    BY <1>6, StmtType DEF Disable, DisableFails, SyncInv, SyncOf
  <2>2. /\ trigger' \in [Nodes -> {"absent", "on", "off"}]
        /\ UNCHANGED <<applied, log, src, tgt, entries, k, setupVars, missed, cut>>
        /\ failures' \in 0..MaxFailures
        /\ loud \subseteq loud' /\ loud' \subseteq Commands \X Nodes
        /\ pc[p] = "disable" /\ pc' = [pc EXCEPT ![p] = "exec"]
    <3>1. CASE Disable(p)
      BY <2>1, <3>1 DEF Disable, Disabled, TypeOK
    <3>2. CASE DisableFails(p)
      <4>1. /\ failures < MaxFailures /\ failures' = failures + 1
            /\ missed' = missed \cup {} /\ UNCHANGED <<trigger, cut>>
            /\ loud' = loud \cup {<<Stmt(p, k[p]), tgt[p]>>}
        BY <3>2 DEF DisableFails, Fails
      <4>2. failures' \in 0..MaxFailures
        BY <4>1 DEF TypeOK
      <4>3. loud' \subseteq Commands \X Nodes /\ loud \subseteq loud'
        BY <2>1, <4>1 DEF TypeOK
      <4> QED
        BY <3>2, <4>1, <4>2, <4>3 DEF DisableFails, TypeOK
    <3> QED
      BY <1>6, <3>1, <3>2
  <2> QED
    BY <2>2, <1>b DEF TypeOK, SyncInv, SyncOf, Places
<1>7. CASE Replay(p)
  <2> DEFINE s == Stmt(p, k[p])
  <2>1. s \in Commands /\ tgt[p] \in Nodes /\ Execute(s, tgt[p])
    BY <1>7, StmtType DEF Replay, SyncInv, SyncOf
  <2> HIDE DEF s
  <2>2. /\ applied' \in [Nodes -> SUBSET Commands]
        /\ log' \in [Nodes -> Seq(Entry)]
        /\ \A m \in Nodes :
             /\ applied[m] \subseteq applied'[m]
             /\ DOMAIN log[m] \subseteq DOMAIN log'[m]
             /\ \A i \in DOMAIN log[m] : log'[m][i] = log[m][i]
    <3>1. s \in Commands /\ tgt[p] \in Nodes /\ Execute(s, tgt[p]) /\ TypeOK
      BY <2>1
    <3> QED
      BY ONLY <3>1, ExecuteEffect
  <2>3. /\ trigger' \in [Nodes -> {"absent", "on", "off"}] /\ cut' \subseteq Nodes
        /\ loud' \subseteq Commands \X Nodes /\ loud \subseteq loud'
    BY <2>1, ExecuteTrigger
  <2>4. SyncOf(p)'
    BY <1>7, <1>a, <2>2 DEF Replay, TypeOK, SyncInv, SyncOf, Places
  <2> QED
    BY <1>7, <2>2, <2>3, <2>4, <1>b DEF Replay, TypeOK, Places
<1>8. CASE ReplayFails(p)
  <2>1. Stmt(p, k[p]) \in Commands /\ tgt[p] \in Nodes
    BY <1>8, StmtType DEF ReplayFails, SyncInv, SyncOf
  <2>2. /\ missed \subseteq missed' /\ missed' \subseteq Commands \X Nodes
        /\ failures' \in 0..MaxFailures
    BY <1>8, <2>1 DEF ReplayFails, Fails, TypeOK
  <2> QED
    BY <1>8, <2>2, <1>b DEF ReplayFails, TypeOK, SyncInv, SyncOf, Places
<1>9. CASE Enable(p) \/ EnableFails(p)
  <2>a. pc[p] = "enable" /\ tgt[p] \in Nodes /\ NextEntry(p)
    BY <1>9, <1>c DEF Enable, EnableFails
  <2>1. /\ trigger' \in [Nodes -> {"absent", "on", "off"}] /\ cut' \subseteq Nodes
        /\ loud' \subseteq Commands \X Nodes /\ loud \subseteq loud'
        /\ UNCHANGED <<applied, log, src, entries, setupVars, missed>>
        /\ failures' \in 0..MaxFailures
    <3>1. CASE Enable(p)
      <4>1. Enabled(tgt[p]) \in {"absent", "on", "off"}
        BY <2>a DEF Enabled, TypeOK
      <4>2. /\ Restore(tgt[p], Enabled(tgt[p])) /\ failures' = failures
            /\ UNCHANGED <<applied, log, src, entries, setupVars, missed>>
        BY <3>1 DEF Enable
      <4> QED
        BY <2>a, <4>1, <4>2, RestoreEffect DEF TypeOK
    <3>2. CASE EnableFails(p)
      BY <3>2 DEF EnableFails, Fails, BreaksOff, TypeOK
    <3> QED
      BY <1>9, <3>1, <3>2
  <2>2. /\ tgt[p] \in 0..NumNodes /\ tgt[p] \in Nodes \ {src[p]}
        /\ entries[p] # {} /\ entries[p] \in SUBSET (Nat \ {0})
        /\ entries[p] \subseteq DOMAIN log[src[p]]
    BY <2>a, <1>c
  <2>3. CASE Rest(p) # {}
    <3>1. /\ k' = [k EXCEPT ![p] = First(Rest(p))]
          /\ pc' = [pc EXCEPT ![p] = "disable"] /\ UNCHANGED tgt
      BY <2>a, <2>3 DEF NextEntry
    <3>2. First(Rest(p)) \in entries[p]
      BY <2>3, RestIds
    <3> QED
      BY <2>1, <2>2, <3>1, <3>2 DEF TypeOK, SyncOf, Places
  <2>4. CASE Rest(p) = {}
    <3> DEFINE t == NextTarget(p, tgt[p])
    <3>1. t \in 1..NumNodes + 1 /\ t # src[p]
      BY <1>a, <2>2, NextTargetType
    <3>2. AtTarget(p, t, entries[p])
      BY <2>a, <2>4 DEF NextEntry
    <3> HIDE DEF t
    <3>3. BigType /\ Others(p)
      BY <2>1, <2>2, <3>1, <3>2, AtTargetEffect DEF TypeOK
    <3>4. SyncOf(p)'
      BY <2>1, <2>2, <3>1, <3>2, AtTargetEffect DEF SyncOf, Nodes
    <3> QED
      BY <2>1, <3>3, <3>4 DEF TypeOK
  <2> QED
    BY <2>3, <2>4
<1>10. CASE Mark(p) \/ MarkFails(p)
  <2>1. /\ log' \in [Nodes -> Seq(Entry)]
        /\ \A m \in Nodes :
             /\ DOMAIN log'[m] = DOMAIN log[m]
             /\ \A i \in DOMAIN log[m] : log'[m][i].stmt = log[m][i].stmt
    <3>1. CASE Mark(p)
      BY <3>1, MarkEffect
    <3>2. CASE MarkFails(p)
      BY <3>2 DEF MarkFails, TypeOK, dbVars
    <3> QED
      BY <1>10, <3>1, <3>2
  <2>2. /\ UNCHANGED <<applied, trigger, setupVars, missed, cut, loud>>
        /\ failures' \in 0..MaxFailures /\ pc[p] = "mark" /\ NextMark(p)
    BY <1>10 DEF Mark, MarkFails, Fails, TypeOK, dbVars, faultVars
  <2>3. CASE Rest(p) # {}
    <3>1. /\ k' = [k EXCEPT ![p] = First(Rest(p))]
          /\ UNCHANGED <<pc, src, tgt, entries>>
      BY <2>2, <2>3 DEF NextMark
    <3>2. First(Rest(p)) \in entries[p]
      BY <2>3, RestIds
    <3>3. BigType /\ Others(p)
      BY <3>1, <3>2 DEF TypeOK
    <3>4. SyncOf(p)'
      BY <1>a, <2>1, <2>2, <3>1, <3>2 DEF TypeOK, SyncInv, SyncOf
    <3> QED
      BY <2>1, <2>2, <3>3, <3>4 DEF TypeOK
  <2>4. CASE Rest(p) = {}
    <3>1. AtSource(p, src[p] + 1) /\ src[p] + 1 \in 1..NumNodes + 1
      BY <2>2, <1>a, <2>4 DEF NextMark
    <3>2. BigType /\ Others(p) /\ SyncOf(p)'
      BY <3>1, AtSourceEffect DEF SyncOf
    <3> QED
      BY <2>1, <2>2, <3>2 DEF TypeOK
  <2> QED
    BY <2>3, <2>4
<1> QED
  BY <1>1, <1>2, <1>3, <1>4, <1>5, <1>6, <1>7, <1>8, <1>9, <1>10 DEF Syncs

(* A run that takes no step is not disturbed by what the others do.        *)
LEMMA Undisturbed ==
  ASSUME TypeOK, SyncInv, Grows, NEW q \in Syncers,
         pc'[q] = pc[q], src'[q] = src[q], tgt'[q] = tgt[q],
         entries'[q] = entries[q], k'[q] = k[q]
  PROVE  SyncOf(q)' /\ (TriedOf(q) => TriedOf(q)')
<1>1. src[q] \in Nodes /\ SyncOf(q)
  BY DEF TypeOK, SyncInv
<1>2. SyncOf(q)'
  BY <1>1 DEF SyncOf, Grows
<1>3. ASSUME TriedOf(q) PROVE TriedOf(q)'
  <2>1. SUFFICES ASSUME pc'[q] \notin {"idle", "source"},
                        NEW i \in entries'[q], NEW m \in Nodes \ {src'[q]},
                        Passed(q, i, m)'
                 PROVE  Tried(Stmt(q, i), m)'
    BY DEF TriedOf
  <2>2. Tried(Stmt(q, i), m) /\ i \in DOMAIN log[src[q]]
    BY <1>1, <1>3, <2>1 DEF TriedOf, Passed, SyncOf
  <2>3. Stmt(q, i)' = Stmt(q, i)
    BY <1>1, <2>2 DEF Grows, Stmt
  <2> QED
    BY <2>2, <2>3 DEF Tried, Grows
<1> QED
  BY <1>2, <1>3

LEMMA AppEffect ==
  ASSUME TypeOK, NEW s \in Statements, AppDDL(s)
  PROVE  /\ Origin[s] \in Nodes /\ s \notin applied[Origin[s]]
         /\ Execute(s, Origin[s]) /\ s \in Commands
         /\ UNCHANGED <<trigger, syncVars, setupVars, faultVars>>
  BY DEF AppDDL, Execute, Commands, faultVars

LEMMA InstallEffect ==
  ASSUME TypeOK, InstallTracking
  PROVE  /\ setupAt \in Nodes /\ Script \in Commands /\ Execute(Script, setupAt)
         /\ setupAt' \in 0..NumNodes
         /\ UNCHANGED <<syncVars, setups, failures, missed>>
<1>1. setupAt \in 0..NumNodes /\ setupAt # 0 /\ NumNodes \in Nat
  BY DEF InstallTracking, TypeOK
<1> QED
  BY <1>1 DEF InstallTracking, Commands, Nodes

LEMMA NextType ==
  TypeOK /\ SyncInv /\ [Next]_vars => TypeOK' /\ SyncInv' /\ Grows
<1> SUFFICES ASSUME TypeOK, SyncInv, [Next]_vars
             PROVE  TypeOK' /\ SyncInv' /\ Grows
  OBVIOUS
<1>1. ASSUME UNCHANGED syncVars, Grows PROVE SyncInv'
  BY <1>1, Undisturbed DEF syncVars, SyncInv
<1>2. ASSUME NEW s \in Statements, AppDDL(s) PROVE TypeOK' /\ SyncInv' /\ Grows
  <2>1. /\ Origin[s] \in Nodes /\ Execute(s, Origin[s]) /\ s \in Commands
        /\ UNCHANGED <<trigger, syncVars, setupVars, faultVars>>
    BY <1>2, AppEffect
  <2>2. /\ applied' \in [Nodes -> SUBSET Commands]
        /\ log' \in [Nodes -> Seq(Entry)]
        /\ \A m \in Nodes :
             /\ applied[m] \subseteq applied'[m]
             /\ DOMAIN log[m] \subseteq DOMAIN log'[m]
             /\ \A i \in DOMAIN log[m] : log'[m][i] = log[m][i]
    BY <2>1, ExecuteEffect
  <2>3. TypeOK' /\ Grows
    BY <2>1, <2>2 DEF TypeOK, Grows, syncVars, setupVars, faultVars
  <2> QED
    BY <1>1, <2>1, <2>3
<1>3. ASSUME NEW p \in Syncers, Syncs(p) \/ Crash(p)
      PROVE  TypeOK' /\ SyncInv' /\ Grows
  <2>1. TypeOK' /\ SyncOf(p)' /\ Others(p) /\ Grows
    BY <1>3, SyncType
  <2>2. \A q \in Syncers \ {p} : SyncOf(q)'
    BY <2>1, Undisturbed DEF Others
  <2> QED
    BY <2>1, <2>2 DEF SyncInv
<1>4. CASE BeginSetup \/ SetupFails
  <2>1. /\ TypeOK' /\ UNCHANGED <<dbVars, syncVars>>
        /\ missed \subseteq missed' /\ loud' = loud
    BY <1>4 DEF BeginSetup, SetupFails, Fails, TypeOK, dbVars, syncVars, faultVars
  <2> QED
    BY <1>1, <2>1 DEF Grows, dbVars
<1>5. CASE InstallTracking
  <2>1. /\ setupAt \in Nodes /\ Script \in Commands /\ Execute(Script, setupAt)
        /\ setupAt' \in 0..NumNodes
        /\ UNCHANGED <<syncVars, setups, failures, missed>>
    BY <1>5, InstallEffect
  <2>2. /\ applied' \in [Nodes -> SUBSET Commands]
        /\ log' \in [Nodes -> Seq(Entry)]
        /\ \A m \in Nodes :
             /\ applied[m] \subseteq applied'[m]
             /\ DOMAIN log[m] \subseteq DOMAIN log'[m]
             /\ \A i \in DOMAIN log[m] : log'[m][i] = log[m][i]
    BY <2>1, ExecuteEffect
  <2>3. /\ trigger' \in [Nodes -> {"absent", "on", "off"}] /\ cut' \subseteq Nodes
        /\ loud' \subseteq Commands \X Nodes /\ loud \subseteq loud'
    BY <2>1, ExecuteTrigger
  <2>4. TypeOK' /\ Grows
    BY <2>1, <2>2, <2>3 DEF TypeOK, Grows, syncVars
  <2> QED
    BY <1>1, <2>1, <2>4
<1>6. CASE UNCHANGED vars
  <2>1. TypeOK' /\ Grows
    BY <1>6 DEF vars, TypeOK, Grows
  <2> QED
    BY <1>1, <1>6, <2>1 DEF vars, syncVars
<1> QED
  BY <1>2, <1>3, <1>4, <1>5, <1>6 DEF Next

(* Every variable keeps its type: a run of ddl-sync never has a target     *)
(* that is not one of the nodes, nor an entry that is not in the log.      *)
THEOREM TypeCorrect == Spec => []TypeOK
<1>1. TypeOK /\ SyncInv /\ [Next]_vars => TypeOK' /\ SyncInv'
  BY NextType
<1> QED
  BY <1>1, InitType, PTL DEF Spec

LEMMA SyncInvariant == Spec => [](TypeOK /\ SyncInv)
<1>1. TypeOK /\ SyncInv /\ [Next]_vars => TypeOK' /\ SyncInv'
  BY NextType
<1> QED
  BY <1>1, InitType, PTL DEF Spec

-----------------------------------------------------------------------------
(* The trigger is off only while a replay goes on, or after one broke off. *)

LEMMA NextGap ==
  TypeOK /\ SyncInv /\ GapIsReplay /\ [Next]_vars => GapIsReplay'
<1> SUFFICES ASSUME TypeOK, SyncInv, GapIsReplay, [Next]_vars,
                    NEW n \in Nodes, trigger'[n] = "off"
             PROVE  n \in cut' \/ \E p \in Syncers : Replaying(p, n)'
  BY DEF GapIsReplay
<1>1. trigger[n] = "off" => n \in cut \/ \E p \in Syncers : Replaying(p, n)
  BY DEF GapIsReplay
<1>2. CASE UNCHANGED <<trigger, cut, syncVars>>
  BY <1>1, <1>2 DEF Replaying, syncVars
<1>3. ASSUME NEW s \in Statements, AppDDL(s)
      PROVE  UNCHANGED <<trigger, cut, syncVars>>
  BY <1>3, AppEffect DEF faultVars
<1>4. CASE BeginSetup \/ SetupFails \/ UNCHANGED vars
  <2>1. UNCHANGED <<trigger, cut, syncVars>>
    BY <1>4 DEF BeginSetup, SetupFails, vars, dbVars, faultVars, syncVars
  <2> QED
    BY <1>2, <2>1
<1>5. CASE InstallTracking
  <2>1. /\ setupAt \in Nodes /\ Script \in Commands /\ Execute(Script, setupAt)
        /\ UNCHANGED syncVars
    BY <1>5, InstallEffect
  <2>2. trigger'[n] = trigger[n] /\ (n \in cut => n \in cut')
    BY <2>1, ExecuteTrigger
  <2> QED
    BY <1>1, <2>1, <2>2 DEF Replaying, syncVars
<1>6. ASSUME NEW p \in Syncers, Syncs(p) \/ Crash(p)
      PROVE  n \in cut' \/ \E q \in Syncers : Replaying(q, n)'
  <2> USE DEF dbVars, faultVars
  <2>1. Others(p)
    BY <1>6, SyncType
  <2>2. \A q \in Syncers \ {p} : Replaying(q, n) => Replaying(q, n)'
    BY <2>1 DEF Others, Replaying
  <2>3. CASE /\ UNCHANGED <<trigger, cut>>
             /\ Replaying(p, n) => Replaying(p, n)'
    BY <1>1, <2>2, <2>3
  <2>4. CASE \/ Begin(p) \/ ReadSource(p) \/ ReadBreaks(p) \/ SourceFails(p)
             \/ Connect(p) \/ Mark(p) \/ MarkFails(p) \/ LoseSource(p)
    <3>1. UNCHANGED <<trigger, cut>> /\ ~Replaying(p, n)
      BY <2>4 DEF Begin, ReadSource, ReadBreaks, SourceFails, Connect, Mark,
                  MarkFails, LoseSource, Replaying
    <3> QED
      BY <2>3, <3>1
  <2>5. CASE ReplayFails(p) \/ DisableFails(p)
    <3>1. UNCHANGED <<trigger, cut>> /\ (Replaying(p, n) => Replaying(p, n)')
      BY <2>5 DEF ReplayFails, DisableFails, Replaying, TypeOK
    <3> QED
      BY <2>3, <3>1
  <2>9. CASE Replay(p)
    <3>1. /\ tgt[p] \in Nodes /\ Stmt(p, k[p]) \in Commands
          /\ Execute(Stmt(p, k[p]), tgt[p])
      BY <2>9, StmtType DEF Replay, SyncInv, SyncOf
    <3>2. trigger'[n] = trigger[n] /\ (n \in cut => n \in cut')
      BY <3>1, ExecuteTrigger
    <3>3. Replaying(p, n) => Replaying(p, n)'
      BY <2>9 DEF Replay, Replaying, TypeOK
    <3> QED
      BY <1>1, <2>2, <3>2, <3>3
  <2>6. CASE LoseTarget(p) \/ Crash(p) \/ EnableFails(p)
    <3>1. trigger' = trigger /\ cut \subseteq cut' /\ (Replaying(p, n) => n \in cut')
      BY <2>6 DEF LoseTarget, Crash, EnableFails, BreaksOff
    <3> QED
      BY <1>1, <2>2, <3>1
  <2>7. CASE Disable(p)
    <3>1. CASE tgt[p] = n
      BY <2>7, <3>1 DEF Disable, Replaying, TypeOK
    <3>2. CASE tgt[p] # n
      BY <1>1, <2>2, <2>7, <3>2 DEF Disable, Replaying, TypeOK
    <3> QED
      BY <3>1, <3>2
  <2>8. CASE Enable(p)
    <3>1. tgt[p] \in Nodes
      BY <2>8 DEF Enable, SyncInv, SyncOf
    <3>2. tgt[p] # n /\ trigger[n] = "off"
      BY <2>8, <3>1 DEF Enable, Restore, Enabled, TypeOK
    <3>3. ~Replaying(p, n) /\ cut' = cut \ {tgt[p]}
      BY <2>8, <3>2 DEF Enable, Restore, Replaying
    <3> QED
      BY <1>1, <2>2, <3>2, <3>3
  <2> QED
    BY <1>6, <2>4, <2>5, <2>6, <2>7, <2>8, <2>9 DEF Syncs
<1> QED
  BY <1>2, <1>3, <1>4, <1>5, <1>6 DEF Next

(* However many hosts replay, and whenever they die, a node whose trigger  *)
(* is off is one where a replay is under way or was cut short.             *)
THEOREM GapsAreReplays == Spec => []GapIsReplay
<1>1. Init => GapIsReplay
  BY DEF Init, GapIsReplay
<1> QED
  BY <1>1, SyncInvariant, NextGap, PTL DEF Spec

-----------------------------------------------------------------------------
(* Nothing is marked untried.                                              *)

LEMMA NextLogApplied ==
  TypeOK /\ SyncInv /\ LogApplied /\ [Next]_vars => LogApplied'
<1> SUFFICES ASSUME TypeOK, SyncInv, LogApplied, [Next]_vars PROVE LogApplied'
  OBVIOUS
<1>1. Grows
  BY NextType
<1>2. ASSUME \A n \in Nodes : DOMAIN log'[n] = DOMAIN log[n] PROVE LogApplied'
  BY <1>1, <1>2 DEF LogApplied, Grows
<1>3. ASSUME NEW s \in Commands, NEW n \in Nodes, Execute(s, n)
      PROVE  LogApplied'
  <2>1. ASSUME NEW m \in Nodes, NEW i \in DOMAIN log'[m]
        PROVE  log'[m][i].stmt \in applied'[m]
    <3>1. CASE i \in DOMAIN log[m]
      BY <1>1, <3>1 DEF LogApplied, Grows
    <3>2. CASE i \notin DOMAIN log[m]
      <4>1. /\ m = n /\ log'[n][i] = [stmt |-> s, replayed |-> FALSE]
            /\ s \in applied'[n]
        BY <1>3, <3>2, ExecuteEffect
      <4> QED
        BY <4>1
    <3> QED
      BY <3>1, <3>2
  <2> QED
    BY <2>1 DEF LogApplied
<1>4. ASSUME NEW s \in Statements, AppDDL(s) PROVE LogApplied'
  BY <1>3, <1>4, AppEffect
<1>5. ASSUME NEW p \in Syncers, Replay(p) PROVE LogApplied'
  <2>1. /\ Stmt(p, k[p]) \in Commands /\ tgt[p] \in Nodes
        /\ Execute(Stmt(p, k[p]), tgt[p])
    BY <1>5, StmtType DEF Replay, SyncInv, SyncOf
  <2> QED
    BY <1>3, <2>1
<1>6. ASSUME NEW p \in Syncers, Mark(p) PROVE LogApplied'
  BY <1>2, <1>6, MarkEffect
<1>7. ASSUME log' = log PROVE LogApplied'
  BY <1>2, <1>7
<1>8. ASSUME NEW p \in Syncers, Syncs(p) \/ Crash(p), ~Replay(p), ~Mark(p)
      PROVE  log' = log
  BY <1>8 DEF Syncs, Crash, Begin, ReadSource, ReadBreaks, SourceFails, Connect,
              LoseTarget, Disable, DisableFails, ReplayFails, Enable, EnableFails,
              LoseSource, MarkFails, dbVars
<1>9. CASE BeginSetup \/ SetupFails \/ UNCHANGED vars
  BY <1>7, <1>9 DEF BeginSetup, SetupFails, vars, dbVars
<1>10. CASE InstallTracking
  BY <1>3, <1>10, InstallEffect
<1> QED
  BY <1>4, <1>5, <1>6, <1>7, <1>8, <1>9, <1>10 DEF Next

(* Moving on to the next target: the one that is left is done with.        *)
LEMMA NextTargetTried ==
  ASSUME TypeOK, SyncInv, TriedInv, Grows, NEW p \in Syncers,
         pc[p] \notin {"idle", "source", "mark"},
         UNCHANGED <<src, entries>>, AtTarget(p, NextTarget(p, tgt[p]), entries[p]),
         NEW n \in Nodes, n = tgt[p],
         \A i \in entries[p] :
           i < k[p] \/ (i = k[p] /\ pc[p] = "enable") \/ Tried(Stmt(p, i), n)'
  PROVE  TriedOf(p)'
<1>1. /\ src[p] \in Nodes /\ tgt[p] \in Nodes \ {src[p]} /\ entries[p] # {}
      /\ entries[p] \subseteq DOMAIN log[src[p]]
      /\ entries[p] \in SUBSET (Nat \ {0})
  BY DEF TypeOK, SyncInv, SyncOf
<1> DEFINE t == NextTarget(p, tgt[p])
<1>2. /\ t \in 1..NumNodes + 1
      /\ \A m \in Nodes \ {src[p]} : m < t => m <= tgt[p]
  BY <1>1, NextTargetType DEF Nodes
<1>3. AtTarget(p, t, entries[p])
  OBVIOUS
<1> HIDE DEF t
<1>4. /\ tgt'[p] = t /\ k'[p] = First(entries[p])
      /\ \A i \in entries[p] : k'[p] <= i
      /\ k'[p] \in Nat
      /\ pc'[p] \in {"mark", "connect"}
  BY <1>1, <1>2, <1>3, AtTargetEffect
<1>5. SUFFICES ASSUME NEW i \in entries[p], NEW m \in Nodes \ {src[p]},
                      Passed(p, i, m)'
               PROVE  Tried(Stmt(p, i), m)'
  BY DEF TriedOf
<1>6. m <= tgt[p]
  BY <1>1, <1>2, <1>4, <1>5 DEF Passed
<1>7. Stmt(p, i)' = Stmt(p, i) /\ i \in Nat
  BY <1>1 DEF Grows, Stmt
<1>8. CASE Passed(p, i, m)
  <2>1. Tried(Stmt(p, i), m)
    BY <1>8 DEF TriedInv, TriedOf
  <2> QED
    BY <1>7, <2>1 DEF Tried, Grows
<1>9. CASE ~Passed(p, i, m)
  <2>1. m = tgt[p] /\ ~(i < k[p]) /\ ~(i = k[p] /\ pc[p] = "enable")
    BY <1>1, <1>6, <1>9 DEF Passed, Nodes
  <2> QED
    BY <2>1
<1> QED
  BY <1>8, <1>9

LEMMA SyncTried ==
  ASSUME TypeOK, SyncInv, TriedInv, Grows, NEW p \in Syncers,
         Syncs(p) \/ Crash(p)
  PROVE  TriedOf(p)'
<1> USE DEF dbVars, setupVars, faultVars
<1>a. ASSUME UNCHANGED <<src, tgt, entries>>,
             pc[p] \notin {"idle", "source"},
             \A i \in entries[p], m \in Nodes \ {src[p]} :
                Passed(p, i, m)' => Passed(p, i, m) \/ Tried(Stmt(p, i), m)'
      PROVE  TriedOf(p)'
  <2>1. SUFFICES ASSUME NEW i \in entries[p], NEW m \in Nodes \ {src[p]},
                        Passed(p, i, m)'
                 PROVE  Tried(Stmt(p, i), m)'
    BY <1>a DEF TriedOf
  <2>2. src[p] \in Nodes /\ i \in DOMAIN log[src[p]]
    BY <1>a DEF TypeOK, SyncInv, SyncOf
  <2>3. Stmt(p, i)' = Stmt(p, i)
    BY <1>a, <2>2 DEF Grows, Stmt
  <2>4. CASE Tried(Stmt(p, i), m)'
    BY <2>4
  <2>5. CASE Passed(p, i, m)
    <3>1. Tried(Stmt(p, i), m)
      BY <1>a, <2>5 DEF TriedInv, TriedOf
    <3> QED
      BY <2>3, <3>1 DEF Tried, Grows
  <2> QED
    BY <1>a, <2>1, <2>4, <2>5
<1>1. CASE pc'[p] \in {"idle", "source"}
  BY <1>1 DEF TriedOf
<1>2. CASE \/ Begin(p) \/ SourceFails(p) \/ LoseSource(p) \/ Crash(p)
  <2>1. pc'[p] \in {"idle", "source"}
    BY <1>2 DEF Begin, SourceFails, LoseSource, Crash, AtSource, TypeOK
  <2> QED
    BY <1>1, <2>1
<1>3. CASE ReadSource(p) \/ ReadBreaks(p)
  <2>a. PICK ids \in SUBSET Pending(src[p]) : Take(p, ids)
    BY <1>3 DEF ReadSource, ReadBreaks
  <2>1. CASE ids = {}
    <3>1. pc'[p] \in {"idle", "source"}
      BY <2>a, <2>1 DEF Take, AtSource, TypeOK
    <3> QED
      BY <1>1, <3>1
  <2>2. CASE ids # {}
    <3> DEFINE t == NextTarget(p, 0)
    <3>1. src[p] \in Nodes /\ ids \in SUBSET (Nat \ {0})
      BY <2>a, PendingIds DEF TypeOK
    <3>2. t \in 1..NumNodes + 1 /\ \A m \in Nodes \ {src[p]} : m < t => m <= 0
      BY <3>1, NextTargetType DEF Nodes
    <3>3. AtTarget(p, t, ids) /\ ids # {} /\ UNCHANGED src
          /\ entries' = [entries EXCEPT ![p] = ids]
      BY <2>a, <2>2 DEF Take
    <3> HIDE DEF t
    <3>4. /\ tgt'[p] = t /\ pc'[p] # "enable"
          /\ \A i \in ids : k'[p] <= i /\ i \in Nat /\ k'[p] \in Nat
      BY <3>1, <3>2, <3>3, AtTargetEffect
    <3>5. entries'[p] = ids
      BY <3>3 DEF TypeOK
    <3>6. \A i \in ids, m \in Nodes \ {src[p]} : ~Passed(p, i, m)'
      BY <3>2, <3>4 DEF Passed, Nodes
    <3> QED
      BY <3>3, <3>5, <3>6 DEF TriedOf
  <2> QED
    BY <2>1, <2>2
<1>4. CASE Connect(p) \/ Disable(p) \/ DisableFails(p)
  <2>1. /\ UNCHANGED <<src, tgt, entries, k>> /\ pc'[p] # "enable"
        /\ pc[p] \notin {"idle", "source"}
    BY <1>4 DEF Connect, Disable, DisableFails, TypeOK
  <2>2. \A i, m : Passed(p, i, m)' => Passed(p, i, m)
    BY <2>1 DEF Passed
  <2> QED
    BY <1>a, <2>1, <2>2
<1>5. CASE LoseTarget(p)
  <2>1. /\ pc[p] \notin {"idle", "source", "mark"} /\ UNCHANGED <<src, entries>>
        /\ AtTarget(p, NextTarget(p, tgt[p]), entries[p])
        /\ applied' = applied /\ missed' = missed \cup Remaining(p)
    BY <1>5 DEF LoseTarget, Fails
  <2>2. PICK n \in Nodes : n = tgt[p]
    BY <2>1 DEF SyncInv, SyncOf
  <2>3. ASSUME NEW i \in entries[p], ~(i < k[p])
        PROVE  Tried(Stmt(p, i), n)'
    <3>1. i \in {k[p]} \cup Rest(p)
      BY <2>3 DEF Rest, TypeOK
    <3>2. Stmt(p, i) \in applied[n] \/ <<Stmt(p, i), n>> \in Remaining(p)
      BY <2>2, <3>1 DEF Remaining
    <3>3. src[p] \in Nodes /\ i \in DOMAIN log[src[p]]
      BY <2>1 DEF TypeOK, SyncInv, SyncOf
    <3>4. Stmt(p, i)' = Stmt(p, i)
      BY <2>1, <3>3 DEF Grows, Stmt
    <3> QED
      BY <2>1, <3>2, <3>4 DEF Tried
  <2> QED
    BY <2>1, <2>2, <2>3, NextTargetTried
<1>6. CASE Replay(p) \/ ReplayFails(p)
  <2>1. /\ UNCHANGED <<src, tgt, entries, k>> /\ pc[p] = "exec"
        /\ pc[p] \notin {"idle", "source"}
    BY <1>6 DEF Replay, ReplayFails
  <2>2. \A i \in entries[p], m \in Nodes :
          Passed(p, i, m)' => Passed(p, i, m) \/ (i = k[p] /\ m = tgt[p])
    BY <2>1 DEF Passed
  <2>3. tgt[p] \in Nodes /\ Stmt(p, k[p]) \in Commands
    BY <2>1, StmtType DEF SyncInv, SyncOf
  <2>4. Tried(Stmt(p, k[p]), tgt[p])'
    <3>1. Stmt(p, k[p])' = Stmt(p, k[p])
      <4>1. src[p] \in Nodes /\ k[p] \in DOMAIN log[src[p]]
        BY <2>1 DEF TypeOK, SyncInv, SyncOf
      <4> QED
        BY <2>1, <4>1 DEF Grows, Stmt
    <3>2. CASE Replay(p)
      <4>1. Stmt(p, k[p]) \in applied'[tgt[p]]
        BY <2>3, <3>2, ExecuteEffect DEF Replay
      <4> QED
        BY <2>1, <3>1, <4>1 DEF Tried
    <3>3. CASE ReplayFails(p)
      <4>1. \/ Stmt(p, k[p]) \in applied[tgt[p]]
            \/ <<Stmt(p, k[p]), tgt[p]>> \in missed'
        BY <3>3 DEF ReplayFails, Fails
      <4>2. applied' = applied
        BY <3>3 DEF ReplayFails
      <4> QED
        BY <2>1, <3>1, <4>1, <4>2 DEF Tried
    <3> QED
      BY <1>6, <3>2, <3>3
  <2>5. k[p] \in Nat
    BY DEF TypeOK
  <2> QED
    BY <1>a, <2>1, <2>2, <2>4, <2>5
<1>7. CASE Enable(p) \/ EnableFails(p)
  <2>1. pc[p] = "enable" /\ UNCHANGED <<src, entries>> /\ NextEntry(p)
    BY <1>7 DEF Enable, EnableFails
  <2>2. CASE Rest(p) # {}
    <3>1. /\ k' = [k EXCEPT ![p] = First(Rest(p))]
          /\ pc' = [pc EXCEPT ![p] = "disable"] /\ UNCHANGED tgt
      BY <2>1, <2>2 DEF NextEntry
    <3>2. \A i \in entries[p] : i < k'[p] => i <= k[p]
      BY <2>2, <3>1, RestIds DEF TypeOK
    <3>3. entries[p] \subseteq Nat /\ k[p] \in Nat /\ pc'[p] # "enable"
      BY <3>1 DEF TypeOK
    <3>4. \A i \in entries[p], m \in Nodes : Passed(p, i, m)' => Passed(p, i, m)
      BY <2>1, <3>1, <3>2, <3>3 DEF Passed
    <3> QED
      BY <1>a, <2>1, <3>1, <3>3, <3>4
  <2>3. CASE Rest(p) = {}
    <3>1. AtTarget(p, NextTarget(p, tgt[p]), entries[p])
      BY <2>1, <2>3 DEF NextEntry
    <3>2. \A i \in entries[p] : i < k[p] \/ i = k[p]
      BY <2>3 DEF Rest, TypeOK
    <3>3. tgt[p] \in Nodes
      BY <2>1 DEF SyncInv, SyncOf
    <3> QED
      BY <2>1, <3>1, <3>2, <3>3, NextTargetTried
  <2> QED
    BY <2>2, <2>3
<1>8. CASE Mark(p) \/ MarkFails(p)
  <2>a. pc[p] = "mark" /\ NextMark(p)
    BY <1>8 DEF Mark, MarkFails
  <2>1. CASE Rest(p) # {}
    <3>1. UNCHANGED <<src, tgt, entries, pc>> /\ pc[p] = "mark"
      BY <2>a, <2>1 DEF NextMark
    <3>2. \A m \in Nodes : m < tgt[p]
      BY <3>1 DEF SyncInv, SyncOf, Nodes
    <3>3. \A i \in entries[p], m \in Nodes : Passed(p, i, m)
      BY <3>2 DEF Passed
    <3> QED
      BY <1>a, <3>1, <3>3
  <2>2. CASE Rest(p) = {}
    <3>1. pc'[p] \in {"idle", "source"}
      BY <2>a, <2>2 DEF NextMark, AtSource, TypeOK
    <3> QED
      BY <1>1, <3>1
  <2> QED
    BY <2>1, <2>2
<1> QED
  BY <1>2, <1>3, <1>4, <1>5, <1>6, <1>7, <1>8 DEF Syncs

LEMMA NextTried ==
  TypeOK /\ SyncInv /\ TriedInv /\ [Next]_vars => TriedInv'
<1> SUFFICES ASSUME TypeOK, SyncInv, TriedInv, [Next]_vars PROVE TriedInv'
  OBVIOUS
<1>1. Grows
  BY NextType
<1>2. CASE UNCHANGED syncVars
  BY <1>1, <1>2, Undisturbed DEF syncVars, TriedInv
<1>3. ASSUME NEW p \in Syncers, Syncs(p) \/ Crash(p) PROVE TriedInv'
  <2>1. TriedOf(p)' /\ Others(p)
    BY <1>1, <1>3, SyncTried, SyncType
  <2>2. \A q \in Syncers \ {p} : TriedOf(q)'
    BY <1>1, <2>1, Undisturbed DEF Others, TriedInv
  <2> QED
    BY <2>1, <2>2 DEF TriedInv
<1>4. ASSUME NEW s \in Statements, AppDDL(s) PROVE UNCHANGED syncVars
  BY <1>4, AppEffect
<1>5. CASE BeginSetup \/ InstallTracking \/ SetupFails \/ UNCHANGED vars
  <2>1. UNCHANGED syncVars
    BY <1>5 DEF BeginSetup, InstallTracking, SetupFails, vars, syncVars
  <2> QED
    BY <1>2, <2>1
<1> QED
  BY <1>2, <1>3, <1>4, <1>5 DEF Next

(* A run marks what it has gone through on every other node.               *)
LEMMA MarkTried ==
  ASSUME TypeOK, SyncInv, LogApplied, TriedInv, NEW p \in Syncers, Mark(p),
         NEW m \in Nodes
  PROVE  Tried(Stmt(p, k[p]), m)
<1>1. /\ pc[p] = "mark" /\ k[p] \in entries[p] /\ tgt[p] = NumNodes + 1
      /\ k[p] \in DOMAIN log[src[p]] /\ src[p] \in Nodes
  BY DEF Mark, SyncInv, SyncOf, TypeOK
<1>2. CASE m = src[p]
  BY <1>1, <1>2 DEF LogApplied, Tried, Stmt
<1>3. CASE m # src[p]
  <2>1. Passed(p, k[p], m)
    BY <1>1 DEF Passed, Nodes
  <2> QED
    BY <1>1, <1>3, <2>1 DEF TriedInv, TriedOf
<1> QED
  BY <1>2, <1>3

LEMMA NextMarked == ReplayInv /\ TypeOK /\ [Next]_vars => MarkedMeansTried'
<1> SUFFICES ASSUME ReplayInv, TypeOK, [Next]_vars,
                    NEW n \in Nodes, NEW m \in Nodes, NEW i \in DOMAIN log'[n],
                    log'[n][i].replayed
             PROVE  Tried(log[n][i].stmt, m)'
  BY DEF MarkedMeansTried, Tried
<1> USE DEF ReplayInv
<1>1. Grows
  BY NextType
<1>2. ASSUME i \in DOMAIN log[n], Tried(log[n][i].stmt, m)
      PROVE  Tried(log[n][i].stmt, m)'
  BY <1>1, <1>2 DEF Tried, Grows
<1>3. CASE i \in DOMAIN log[n] /\ log[n][i].replayed
  <2>1. Tried(log[n][i].stmt, m)
    BY <1>3 DEF MarkedMeansTried, Tried
  <2> QED
    BY <1>2, <1>3, <2>1
<1>4. CASE log' = log
  BY <1>3, <1>4
<1>5. ASSUME NEW s \in Commands, NEW t \in Nodes, Execute(s, t)
      PROVE  i \in DOMAIN log[n] /\ log[n][i].replayed
  <2>1. /\ \A j \in DOMAIN log[n] : log'[n][j] = log[n][j]
        /\ \A j \in DOMAIN log'[n] \ DOMAIN log[n] :
             n = t /\ log'[t][j] = [stmt |-> s, replayed |-> FALSE]
    BY <1>5, ExecuteEffect
  <2>2. \A j \in DOMAIN log'[n] \ DOMAIN log[n] : log'[n][j].replayed = FALSE
    BY <2>1
  <2> QED
    BY <2>1, <2>2
<1>6. ASSUME NEW s \in Statements, AppDDL(s) PROVE Tried(log[n][i].stmt, m)'
  BY <1>3, <1>5, <1>6, AppEffect
<1>7. ASSUME NEW p \in Syncers, Replay(p) PROVE Tried(log[n][i].stmt, m)'
  <2>1. /\ Stmt(p, k[p]) \in Commands /\ tgt[p] \in Nodes
        /\ Execute(Stmt(p, k[p]), tgt[p])
    BY <1>7, StmtType DEF Replay, SyncInv, SyncOf
  <2> QED
    BY <1>3, <1>5, <2>1
<1>8. ASSUME NEW p \in Syncers, Mark(p) PROVE Tried(log[n][i].stmt, m)'
  <2>1. i \in DOMAIN log[n] /\ ((n = src[p] /\ i = k[p]) \/ log[n][i].replayed)
    BY <1>8, MarkEffect
  <2>2. CASE n = src[p] /\ i = k[p]
    BY <1>2, <1>8, <2>1, <2>2, MarkTried DEF Stmt
  <2> QED
    BY <1>3, <2>1, <2>2
<1>9. ASSUME NEW p \in Syncers, Syncs(p) \/ Crash(p), ~Replay(p), ~Mark(p)
      PROVE  log' = log
  BY <1>9 DEF Syncs, Crash, Begin, ReadSource, ReadBreaks, SourceFails, Connect,
              LoseTarget, Disable, DisableFails, ReplayFails, Enable, EnableFails,
              LoseSource, MarkFails, dbVars
<1>10. CASE BeginSetup \/ SetupFails \/ UNCHANGED vars
  BY <1>4, <1>10 DEF BeginSetup, SetupFails, vars, dbVars
<1>11. CASE InstallTracking
  BY <1>3, <1>5, <1>11, InstallEffect
<1> QED
  BY <1>4, <1>6, <1>7, <1>8, <1>9, <1>10, <1>11 DEF Next

LEMMA ReplayInvariant == Spec => [](TypeOK /\ ReplayInv)
<1>1. Init => TypeOK /\ ReplayInv
  BY InitType DEF Init, ReplayInv, LogApplied, TriedInv, TriedOf, MarkedMeansTried
<1>2. TypeOK /\ ReplayInv /\ [Next]_vars => TypeOK' /\ ReplayInv'
  BY NextType, NextLogApplied, NextTried, NextMarked DEF ReplayInv
<1> QED
  BY <1>1, <1>2, PTL DEF Spec

(* No host marks an entry before its replay was tried on every other node, *)
(* whatever fails, whenever a host dies and however many of them replay.   *)
THEOREM NothingMarkedUntried == Spec => []MarkedMeansTried
<1>1. ReplayInv => MarkedMeansTried
  BY DEF ReplayInv
<1> QED
  BY <1>1, ReplayInvariant, PTL

-----------------------------------------------------------------------------
(* A replay is logged on its target only where its quiet was broken.       *)

(* A run whose command, target and place stay keeps what is recorded of it *)
(* while the trigger of its target stays, or is recorded anew.             *)
LEMMA StaysQuiet ==
  ASSUME TypeOK, SyncInv, QuietInv, Grows, NEW q \in Syncers,
         pc'[q] = pc[q], src'[q] = src[q], tgt'[q] = tgt[q], k'[q] = k[q],
         tgt[q] \in Nodes /\ pc[q] = "exec" =>
           \/ trigger'[tgt[q]] = "on" => trigger[tgt[q]] = "on"
           \/ <<Stmt(q, k[q]), tgt[q]>> \in loud'
  PROVE  pc'[q] = "exec" /\ trigger'[tgt'[q]] = "on"
           => <<Stmt(q, k[q])', tgt'[q]>> \in loud'
<1> SUFFICES ASSUME pc[q] = "exec", trigger'[tgt[q]] = "on"
             PROVE  <<Stmt(q, k[q])', tgt[q]>> \in loud'
  OBVIOUS
<1>1. src[q] \in Nodes /\ tgt[q] \in Nodes /\ k[q] \in DOMAIN log[src[q]]
  BY DEF SyncInv, SyncOf, TypeOK
<1>2. Stmt(q, k[q])' = Stmt(q, k[q])
  BY <1>1 DEF Stmt, Grows
<1>3. <<Stmt(q, k[q]), tgt[q]>> \in loud'
  BY <1>1 DEF QuietInv, Grows
<1> QED
  BY <1>2, <1>3

LEMMA NextQuiet ==
  TypeOK /\ SyncInv /\ QuietInv /\ [Next]_vars => QuietInv'
<1> SUFFICES ASSUME TypeOK, SyncInv, QuietInv, [Next]_vars PROVE QuietInv'
  OBVIOUS
<1>a. Grows
  BY NextType
<1>1. CASE UNCHANGED <<trigger, syncVars>>
  BY <1>1, <1>a, StaysQuiet DEF syncVars, QuietInv
<1>2. ASSUME NEW s \in Statements, AppDDL(s) PROVE QuietInv'
  BY <1>1, <1>2, AppEffect
<1>3. CASE BeginSetup \/ SetupFails \/ UNCHANGED vars
  BY <1>1, <1>3 DEF BeginSetup, SetupFails, vars, dbVars, syncVars
<1>4. ASSUME NEW s \in Commands, NEW n \in Nodes, Execute(s, n), NEW q \in Syncers,
             tgt[q] \in Nodes, pc[q] = "exec"
      PROVE  \/ trigger'[tgt[q]] = "on" => trigger[tgt[q]] = "on"
             \/ <<Stmt(q, k[q]), tgt[q]>> \in loud'
  BY <1>4, ExecuteTrigger
<1>5. CASE InstallTracking
  BY <1>a, <1>4, <1>5, InstallEffect, StaysQuiet DEF QuietInv, syncVars
<1>6. ASSUME NEW p \in Syncers, Syncs(p) \/ Crash(p) PROVE QuietInv'
  <2>1. Others(p)
    BY <1>6, SyncType
  <2>2. ASSUME \A q \in Syncers \ {p} : tgt[q] \in Nodes /\ pc[q] = "exec" =>
                 \/ trigger'[tgt[q]] = "on" => trigger[tgt[q]] = "on"
                 \/ <<Stmt(q, k[q]), tgt[q]>> \in loud',
               pc'[p] = "exec" /\ trigger'[tgt'[p]] = "on"
                 => <<Stmt(p, k[p])', tgt'[p]>> \in loud'
        PROVE  QuietInv'
    <3>1. \A q \in Syncers \ {p} :
            pc'[q] = "exec" /\ trigger'[tgt'[q]] = "on"
              => <<Stmt(q, k[q])', tgt'[q]>> \in loud'
      BY <1>a, <2>1, <2>2, StaysQuiet DEF Others
    <3> QED
      BY <2>2, <3>1 DEF QuietInv
  <2>3. CASE Disable(p)
    <3>1. tgt[p] \in Nodes /\ tgt' = tgt
      BY <2>3 DEF Disable, SyncInv, SyncOf
    <3>2. \A n \in Nodes :
            trigger'[n] = IF n = tgt[p] THEN Disabled(n) ELSE trigger[n]
      BY <2>3, <3>1 DEF Disable, TypeOK
    <3>3. \A n \in Nodes : trigger'[n] = "on" => trigger[n] = "on" /\ n # tgt[p]
      BY <3>2 DEF Disabled
    <3> QED
      BY <2>2, <3>1, <3>3
  <2>4. CASE DisableFails(p)
    <3>1. /\ trigger' = trigger /\ UNCHANGED <<log, src, tgt, k>>
          /\ <<Stmt(p, k[p]), tgt[p]>> \in loud'
      BY <2>4 DEF DisableFails, dbVars
    <3>2. Stmt(p, k[p])' = Stmt(p, k[p])
      BY <3>1 DEF Stmt
    <3> QED
      BY <2>2, <3>1, <3>2
  <2>5. CASE ~Disable(p) /\ ~DisableFails(p)
    <3>1. pc'[p] # "exec"
      BY <1>6, <2>5 DEF Syncs, Begin, ReadSource, ReadBreaks, Take, SourceFails,
                Connect, LoseTarget, Replay, ReplayFails, Enable, EnableFails,
                NextEntry, Mark, MarkFails, NextMark, LoseSource, Crash, AtTarget, AtSource, TypeOK
    <3>2. CASE Replay(p)
      <4>1. /\ Stmt(p, k[p]) \in Commands /\ tgt[p] \in Nodes
            /\ Execute(Stmt(p, k[p]), tgt[p])
        BY <3>2, StmtType DEF Replay, SyncInv, SyncOf
      <4> QED
        BY <1>4, <2>2, <3>1, <4>1
    <3>3. CASE Enable(p)
      <4>1. tgt[p] \in Nodes /\ Restore(tgt[p], Enabled(tgt[p]))
        BY <3>3 DEF Enable, SyncInv, SyncOf
      <4>2. Enabled(tgt[p]) \in {"absent", "on", "off"}
        BY <4>1 DEF Enabled, TypeOK
      <4> QED
        BY <2>2, <3>1, <4>1, <4>2, RestoreEffect
    <3>4. CASE ~Replay(p) /\ ~Enable(p)
      <4>1. trigger' = trigger
        BY <1>6, <2>5, <3>4 DEF Syncs, Begin, ReadSource, ReadBreaks, SourceFails,
             Connect, LoseTarget, ReplayFails, EnableFails, Mark, MarkFails, LoseSource,
             Crash, dbVars
      <4> QED
        BY <2>2, <3>1, <4>1
    <3> QED
      BY <3>2, <3>3, <3>4
  <2> QED
    BY <2>3, <2>4, <2>5
<1> QED
  BY <1>2, <1>3, <1>5, <1>6 DEF Next

LEMMA NextNoEcho ==
  TypeOK /\ ReplayInv /\ QuietInv /\ NoEcho /\ [Next]_vars => NoEcho'
<1> SUFFICES ASSUME TypeOK, ReplayInv, QuietInv, NoEcho, [Next]_vars PROVE NoEcho'
  OBVIOUS
<1> USE DEF ReplayInv
<1>a. loud \subseteq loud'
  BY NextType DEF Grows
<1>1. ASSUME \A n \in Nodes :
               /\ DOMAIN log'[n] = DOMAIN log[n]
               /\ \A i \in DOMAIN log[n] : log'[n][i].stmt = log[n][i].stmt
      PROVE  NoEcho'
  <2>1. SUFFICES ASSUME NEW n \in Nodes,
                        NEW i \in DOMAIN log'[n], NEW j \in DOMAIN log'[n],
                        log'[n][i].stmt \in Statements,
                        <<log'[n][i].stmt, n>> \notin loud'
                 PROVE  /\ Origin[log'[n][i].stmt] = n
                        /\ log'[n][i].stmt = log'[n][j].stmt => i = j
    BY DEF NoEcho
  <2>2. /\ i \in DOMAIN log[n] /\ log'[n][i].stmt = log[n][i].stmt
        /\ j \in DOMAIN log[n] /\ log'[n][j].stmt = log[n][j].stmt
    BY <1>1
  <2>3. log[n][i].stmt \in Statements /\ <<log[n][i].stmt, n>> \notin loud
    BY <1>a, <2>1, <2>2
  <2> QED
    BY <2>2, <2>3 DEF NoEcho
<1>b. ASSUME NEW s \in Commands, NEW o \in Nodes, Execute(s, o),
             s \in Statements =>
               <<s, o>> \in loud' \/ (Origin[s] = o /\ s \notin applied[o])
                 \/ trigger[o] # "on"
      PROVE  NoEcho'
  <2>1. \A n \in Nodes :
          /\ \A i \in DOMAIN log[n] : log'[n][i] = log[n][i]
          /\ \A i \in DOMAIN log'[n] \ DOMAIN log[n] :
               /\ n = o /\ i = Len(log[o]) + 1 /\ trigger[o] = "on"
               /\ log'[o][i] = [stmt |-> s, replayed |-> FALSE]
    BY <1>b, ExecuteEffect
  <2>2. SUFFICES ASSUME NEW n \in Nodes,
                        NEW i \in DOMAIN log'[n], NEW j \in DOMAIN log'[n],
                        log'[n][i].stmt \in Statements,
                        <<log'[n][i].stmt, n>> \notin loud'
                 PROVE  /\ Origin[log'[n][i].stmt] = n
                        /\ log'[n][i].stmt = log'[n][j].stmt => i = j
    BY DEF NoEcho
  <2>3. \A x \in DOMAIN log'[n] \ DOMAIN log[n] :
          /\ n = o /\ x = Len(log[o]) + 1 /\ log'[n][x].stmt = s
          /\ trigger[o] = "on"
    BY <2>1
  <2>4. \A x \in DOMAIN log[n] : log'[n][x].stmt = log[n][x].stmt
    BY <2>1
  <2>5. \A x \in DOMAIN log[n] : s \notin applied[o] /\ n = o => log[n][x].stmt # s
    BY DEF LogApplied
  <2>6. CASE i \in DOMAIN log[n]
    <3>1. /\ Origin[log[n][i].stmt] = n
          /\ j \in DOMAIN log[n] /\ log[n][i].stmt = log[n][j].stmt => i = j
      <4>1. log[n][i].stmt \in Statements /\ <<log[n][i].stmt, n>> \notin loud
        BY <1>a, <2>2, <2>4, <2>6
      <4> QED
        BY <2>6, <4>1 DEF NoEcho
    <3>2. CASE j \in DOMAIN log[n]
      BY <2>4, <2>6, <3>1, <3>2
    <3>3. CASE j \notin DOMAIN log[n]
      <4>1. /\ n = o /\ log'[n][j].stmt = s /\ trigger[o] = "on"
        BY <2>3, <3>3
      <4>2. log'[n][i].stmt # s
        <5>1. ASSUME log'[n][i].stmt = s PROVE FALSE
          <6>1. s \in Statements /\ <<s, o>> \notin loud'
            BY <2>2, <4>1, <5>1
          <6>2. s \notin applied[o]
            BY <1>b, <4>1, <6>1
          <6> QED
            BY <2>4, <2>5, <2>6, <4>1, <5>1, <6>2
        <5> QED
          BY <5>1
      <4> QED
        BY <2>4, <2>6, <3>1, <4>1, <4>2
    <3> QED
      BY <3>2, <3>3
  <2>7. CASE i \notin DOMAIN log[n]
    <3>1. n = o /\ log'[n][i].stmt = s /\ trigger[o] = "on" /\ i = Len(log[o]) + 1
      BY <2>3, <2>7
    <3>2. Origin[s] = o /\ s \notin applied[o]
      BY <1>b, <2>2, <3>1
    <3>3. CASE j \in DOMAIN log[n]
      BY <2>4, <2>5, <3>1, <3>2, <3>3
    <3>4. CASE j \notin DOMAIN log[n]
      BY <2>3, <3>1, <3>2, <3>4
    <3> QED
      BY <3>3, <3>4
  <2> QED
    BY <2>6, <2>7
<1>2. ASSUME NEW s \in Statements, AppDDL(s) PROVE NoEcho'
  BY <1>2, <1>b, AppEffect
<1>3. ASSUME NEW p \in Syncers, Replay(p) PROVE NoEcho'
  <2>1. /\ Stmt(p, k[p]) \in Commands /\ tgt[p] \in Nodes /\ pc[p] = "exec"
        /\ Execute(Stmt(p, k[p]), tgt[p])
    BY <1>3, StmtType DEF Replay, SyncInv, SyncOf
  <2>2. trigger[tgt[p]] = "on" => <<Stmt(p, k[p]), tgt[p]>> \in loud'
    BY <1>a, <2>1 DEF QuietInv
  <2> QED
    BY <1>b, <2>1, <2>2
<1>4. ASSUME NEW p \in Syncers, Mark(p) PROVE NoEcho'
  BY <1>1, <1>4, MarkEffect
<1>5. CASE log' = log
  BY <1>1, <1>5
<1>6. ASSUME NEW p \in Syncers, Syncs(p) \/ Crash(p), ~Replay(p), ~Mark(p)
      PROVE  log' = log
  BY <1>6 DEF Syncs, Crash, Begin, ReadSource, ReadBreaks, SourceFails, Connect,
              LoseTarget, Disable, DisableFails, ReplayFails, Enable, EnableFails,
              LoseSource, MarkFails, dbVars
<1>7. CASE BeginSetup \/ SetupFails \/ UNCHANGED vars
  BY <1>5, <1>7 DEF BeginSetup, SetupFails, vars, dbVars
<1>8. CASE InstallTracking
  BY <1>b, <1>8, InstallEffect
<1> QED
  BY <1>2, <1>3, <1>4, <1>5, <1>6, <1>7, <1>8 DEF Next

(* For any number of nodes and of hosts that replay at once: a node's log  *)
(* holds what an application ran there, each statement once, and beyond    *)
(* this only what was replayed there after its DISABLE had failed or been  *)
(* undone by an overlapping ENABLE or ddl-setup.                           *)
THEOREM EchoesAreOverlaps == Spec => []NoEcho
<1>1. Init => QuietInv /\ NoEcho
  BY DEF Init, QuietInv, NoEcho
<1>2. /\ TypeOK /\ ReplayInv /\ TypeOK' /\ ReplayInv'
      /\ QuietInv /\ NoEcho /\ [Next]_vars
      => QuietInv' /\ NoEcho'
  BY NextQuiet, NextNoEcho DEF ReplayInv
<1> QED
  BY <1>1, <1>2, ReplayInvariant, PTL DEF Spec

-----------------------------------------------------------------------------
(* Refinement: DDL sync delivers.                                          *)

LEMMA ExecuteRuns ==
  ASSUME NEW s, NEW n, Execute(s, n), UNCHANGED missed
  PROVE  Delivery!RunsOn(s, n)
  BY DEF Execute, Delivery!RunsOn

(* What is missed of a source's log is not yet on the target.              *)
LEMMA MissedOfLog ==
  ASSUME TypeOK, SyncInv, NEW p \in Syncers, pc[p] \notin {"idle", "source"},
         tgt[p] \in Nodes, NEW ids \in SUBSET entries[p],
         NEW lost, lost = {Stmt(p, i) : i \in ids} \ applied[tgt[p]],
         missed' = missed \cup {<<s, tgt[p]>> : s \in lost},
         UNCHANGED <<applied, log>>
  PROVE  Delivery!Next
<1>1. src[p] \in Nodes /\ entries[p] \subseteq DOMAIN log[src[p]]
  BY DEF TypeOK, SyncInv, SyncOf
<1>2. lost \in SUBSET {log[src[p]][i].stmt : i \in DOMAIN log[src[p]]}
  BY <1>1 DEF Stmt
<1>3. lost \cap applied[tgt[p]] = {}
  OBVIOUS
<1>4. {<<s, tgt[p]>> : s \in lost} = lost \X {tgt[p]}
  OBVIOUS
<1>5. Delivery!Miss(src[p], tgt[p])
  BY <1>2, <1>3, <1>4 DEF Delivery!Miss
<1> QED
  BY <1>1, <1>5 DEF Delivery!Next

LEMMA SyncDelivers ==
  ASSUME TypeOK, ReplayInv, NEW p \in Syncers, Syncs(p) \/ Crash(p)
  PROVE  [Delivery!Next]_Delivery!deliveryVars
<1> USE DEF ReplayInv, dbVars, faultVars
<1>1. CASE Replay(p)
  <2>1. /\ src[p] \in Nodes /\ tgt[p] \in Nodes /\ tgt[p] # src[p]
        /\ k[p] \in DOMAIN log[src[p]]
    BY <1>1 DEF Replay, TypeOK, SyncInv, SyncOf
  <2>2. Delivery!RunsOn(log[src[p]][k[p]].stmt, tgt[p])
    BY <1>1, ExecuteRuns DEF Replay, Stmt
  <2>3. Delivery!Deliver(src[p], k[p], tgt[p])
    BY <2>1, <2>2 DEF Delivery!Deliver
  <2> QED
    BY <2>1, <2>3 DEF Delivery!Next
<1>2. CASE LoseTarget(p)
  <2>1. tgt[p] \in Nodes /\ pc[p] \notin {"idle", "source"}
    BY <1>2 DEF LoseTarget, SyncInv, SyncOf
  <2> DEFINE ids == {k[p]} \cup Rest(p)
             lost == {Stmt(p, i) : i \in ids} \ applied[tgt[p]]
  <2>2. ids \subseteq entries[p]
    BY <2>1 DEF Rest, SyncInv, SyncOf
  <2>3. /\ missed' = missed \cup {<<s, tgt[p]>> : s \in lost}
        /\ UNCHANGED <<applied, log>>
    BY <1>2 DEF LoseTarget, Fails, Remaining
  <2> HIDE DEF ids
  <2> QED
    BY <2>1, <2>2, <2>3, MissedOfLog
<1>3. CASE ReplayFails(p)
  <2>1. /\ tgt[p] \in Nodes /\ pc[p] \notin {"idle", "source"}
        /\ k[p] \in entries[p]
    BY <1>3 DEF ReplayFails, SyncInv, SyncOf
  <2> DEFINE ids == {k[p]}
             lost == {Stmt(p, i) : i \in ids} \ applied[tgt[p]]
  <2>2. {<<s, tgt[p]>> : s \in lost}
          = {<<Stmt(p, k[p]), tgt[p]>>} \ {<<x, tgt[p]>> : x \in applied[tgt[p]]}
    OBVIOUS
  <2>3. /\ missed' = missed \cup {<<s, tgt[p]>> : s \in lost}
        /\ UNCHANGED <<applied, log>>
    BY <1>3, <2>2 DEF ReplayFails, Fails
  <2>4. ids \subseteq entries[p]
    BY <2>1
  <2> HIDE DEF ids
  <2> QED
    BY <2>1, <2>3, <2>4, MissedOfLog
<1>4. CASE Mark(p)
  <2>1. src[p] \in Nodes /\ k[p] \in DOMAIN log[src[p]]
    BY <1>4 DEF Mark, TypeOK, SyncInv, SyncOf
  <2>2. Delivery!HadOrMissed(log[src[p]][k[p]].stmt)
    BY <1>4, MarkTried DEF Delivery!HadOrMissed, Tried, Stmt
  <2>3. Delivery!Settle(src[p], k[p])
    BY <1>4, <2>2 DEF Mark, Delivery!Settle
  <2> QED
    BY <2>1, <2>3 DEF Delivery!Next
<1>5. CASE ~Replay(p) /\ ~LoseTarget(p) /\ ~ReplayFails(p) /\ ~Mark(p)
  <2>1. UNCHANGED <<applied, log, missed>>
    BY <1>5 DEF Syncs, Crash, Begin, ReadSource, ReadBreaks, SourceFails, Connect,
                Disable, DisableFails, Enable, EnableFails, MarkFails, LoseSource, Fails
  <2> QED
    BY <2>1 DEF Delivery!deliveryVars
<1> QED
  BY <1>1, <1>2, <1>3, <1>4, <1>5

LEMMA NextDelivers ==
  TypeOK /\ ReplayInv /\ [Next]_vars => [Delivery!Next]_Delivery!deliveryVars
<1> SUFFICES ASSUME TypeOK, ReplayInv, [Next]_vars
             PROVE  [Delivery!Next]_Delivery!deliveryVars
  OBVIOUS
<1>1. ASSUME NEW s \in Statements, AppDDL(s) PROVE Delivery!Next
  <2>1. s \notin applied[Origin[s]] /\ Delivery!RunsOn(s, Origin[s])
    BY <1>1, AppEffect, ExecuteRuns DEF faultVars
  <2>2. Delivery!Run(s)
    BY <2>1 DEF Delivery!Run
  <2> QED
    BY <2>2 DEF Delivery!Next
<1>2. ASSUME NEW p \in Syncers, Syncs(p) \/ Crash(p)
      PROVE  [Delivery!Next]_Delivery!deliveryVars
  BY <1>2, SyncDelivers
<1>3. CASE BeginSetup \/ SetupFails \/ UNCHANGED vars
  BY <1>3 DEF BeginSetup, SetupFails, Fails, vars, dbVars, faultVars,
              Delivery!deliveryVars
<1>4. CASE InstallTracking
  <2>1. setupAt \in Nodes /\ Delivery!SetUp(setupAt)
    BY <1>4, InstallEffect, ExecuteRuns DEF Delivery!SetUp
  <2> QED
    BY <2>1 DEF Delivery!Next
<1> QED
  BY <1>1, <1>2, <1>3, <1>4 DEF Next

(* ddl-sync delivers (SyncDDL, ddl.go): whatever runs overlap, die or lose *)
(* a node, entries are neither lost nor changed, what runs anywhere is an  *)
(* application's statement or a replay of a logged one, and an entry is    *)
(* settled only when every node had it or was missed.                      *)
THEOREM SyncImplementsDelivery == Spec => ImplementsDelivery
<1>1. Init => Delivery!Init
  BY DEF Init, Delivery!Init
<1> QED
  BY <1>1, NextDelivers, ReplayInvariant, PTL
     DEF Spec, ImplementsDelivery, Delivery!Spec

LEMMA RunsOnEffect ==
  ASSUME TypeOK, NEW n \in Nodes, NEW s \in Commands, Delivery!RunsOn(s, n)
  PROVE  \A m \in Nodes :
           /\ applied[m] \subseteq applied'[m]
           /\ applied'[m] \subseteq applied[m] \cup {s}
           /\ m = n => s \in applied'[m]
           /\ \A i \in DOMAIN log'[m] :
                \/ i \in DOMAIN log[m] /\ log'[m][i] = log[m][i]
                \/ log'[m][i].stmt = s
<1> DEFINE e == [stmt |-> s, replayed |-> FALSE]
           l == Append(log[n], e)
<1>1. applied' = [applied EXCEPT ![n] = @ \cup {s}]
  BY DEF Delivery!RunsOn
<1>2. \A m \in Nodes : applied'[m] = applied[m] \cup (IF m = n THEN {s} ELSE {})
  BY <1>1 DEF TypeOK
<1>3. CASE UNCHANGED log
  BY <1>2, <1>3
<1>4. CASE log' = [log EXCEPT ![n] = l]
  <2>1. e \in Entry /\ log[n] \in Seq(Entry) /\ e.stmt = s
    BY DEF Entry, TypeOK
  <2> HIDE DEF e
  <2>2. /\ DOMAIN l = 1..Len(log[n]) + 1 /\ DOMAIN log[n] = 1..Len(log[n])
        /\ Len(log[n]) \in Nat /\ l[Len(log[n]) + 1] = e
        /\ \A i \in 1..Len(log[n]) : l[i] = log[n][i]
    BY <2>1, AppendProperties
  <2> HIDE DEF l
  <2>3. \A m \in Nodes : log'[m] = IF m = n THEN l ELSE log[m]
    BY <1>4 DEF TypeOK
  <2> QED
    BY <1>2, <2>1, <2>2, <2>3
<1> QED
  BY <1>3, <1>4 DEF Delivery!RunsOn

LEMMA NextOrigin ==
  TypeOK /\ Delivery!OriginFirst /\ [Delivery!Next]_Delivery!deliveryVars
    => Delivery!OriginFirst'
<1> SUFFICES ASSUME TypeOK, Delivery!OriginFirst,
                    [Delivery!Next]_Delivery!deliveryVars
             PROVE  Delivery!OriginFirst'
  OBVIOUS
<1> USE SyncAssumption DEF Delivery!OriginFirst, Delivery!Ran
<1>1. ASSUME NEW s \in Commands, NEW n \in Nodes, Delivery!RunsOn(s, n),
             s = Script \/ n = Origin[s] \/ s \in Delivery!Ran
      PROVE  Delivery!OriginFirst'
  <2>1. \A m \in Nodes :
          /\ applied[m] \subseteq applied'[m]
          /\ applied'[m] \subseteq applied[m] \cup {s}
          /\ m = n => s \in applied'[m]
          /\ \A i \in DOMAIN log'[m] :
               \/ i \in DOMAIN log[m] /\ log'[m][i] = log[m][i]
               \/ log'[m][i].stmt = s
    BY <1>1, RunsOnEffect
  <2>2. \A t \in Statements : Origin[t] \in Nodes
    OBVIOUS
  <2>3. Delivery!Ran \subseteq Delivery!Ran' /\ s \in Delivery!Ran' \cup {Script}
    BY <1>1, <2>1, <2>2 DEF Commands
  <2>4. ASSUME NEW m \in Nodes PROVE applied'[m] \subseteq Delivery!Ran' \cup {Script}
    BY <2>1, <2>3
  <2>5. ASSUME NEW m \in Nodes, NEW i \in DOMAIN log'[m]
        PROVE  log'[m][i].stmt \in Delivery!Ran' \cup {Script}
    BY <2>1, <2>3
  <2> QED
    BY <2>4, <2>5
<1>2. ASSUME NEW s \in Statements, Delivery!Run(s) PROVE Delivery!OriginFirst'
  BY <1>1, <1>2 DEF Delivery!Run, Commands
<1>6. ASSUME NEW n \in Nodes, Delivery!SetUp(n) PROVE Delivery!OriginFirst'
  BY <1>1, <1>6 DEF Delivery!SetUp, Commands
<1>3. ASSUME NEW n \in Nodes, NEW i \in DOMAIN log[n], NEW m \in Nodes,
             Delivery!Deliver(n, i, m)
      PROVE  Delivery!OriginFirst'
  <2>1. log[n][i].stmt \in Delivery!Ran \cup {Script}
    OBVIOUS
  <2> QED
    BY <1>1, <1>3, <2>1 DEF Delivery!Deliver, Commands
<1>4. ASSUME NEW n \in Nodes, NEW i \in DOMAIN log[n], Delivery!Settle(n, i)
      PROVE  Delivery!OriginFirst'
  <2> DEFINE l == [log[n] EXCEPT ![i].replayed = TRUE]
  <2>1. log' = [log EXCEPT ![n] = l] /\ UNCHANGED applied
    BY <1>4 DEF Delivery!Settle
  <2>2. log[n] \in Seq(Entry) /\ l = [log[n] EXCEPT ![i].replayed = TRUE]
    BY DEF TypeOK
  <2> HIDE DEF l
  <2>3. DOMAIN l = DOMAIN log[n] /\ \A j \in DOMAIN l : l[j].stmt = log[n][j].stmt
    BY <2>2, Marked
  <2>4. \A m \in Nodes : log'[m] = IF m = n THEN l ELSE log[m]
    BY <2>1 DEF TypeOK
  <2> QED
    BY <2>1, <2>3, <2>4
<1>5. ASSUME UNCHANGED <<applied, log>> PROVE Delivery!OriginFirst'
  BY <1>5
<1> QED
  BY <1>2, <1>3, <1>4, <1>5, <1>6
     DEF Delivery!Next, Delivery!Miss, Delivery!deliveryVars

(* No statement ever runs on a node, or stands in its log, that has not    *)
(* run on the node an application ran it on: replays, the echoes they may  *)
(* leave in logs and ddl-setup's own entries make nothing else up.         *)
THEOREM NothingMadeUp == Spec => []Delivery!OriginFirst
<1>1. Init => Delivery!OriginFirst
  BY DEF Init, Delivery!OriginFirst
<1>2. TypeOK /\ Delivery!OriginFirst /\ [Delivery!Next]_Delivery!deliveryVars
        => Delivery!OriginFirst'
  BY NextOrigin
<1> QED
  BY <1>1, <1>2, NextDelivers, ReplayInvariant, PTL DEF Spec
=============================================================================
