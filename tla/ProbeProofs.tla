----------------------------- MODULE ProbeProofs -----------------------------
(***************************************************************************)
(* What a probe shows and leaves behind, for any number of probes at once, *)
(* any number of standbys, and any number of failures.                     *)
(***************************************************************************)
EXTENDS Probe, SequenceTheorems, TLAPS

Places == {"idle", "prepare", "insert", "await row", "delete", "await deletion",
           "clean up", "done", "dead"}
Main == {"insert", "await row", "delete", "await deletion"}
Over == {"clean up", "done", "dead"}
BothModes == {"master-slave", "master-master"}

(* The rows that belong to a leg of the mode.                              *)
LegIds == {id \in Ids : id[2] \in DOMAIN Legs}

ProbeType ==
    /\ mode \in BothModes
    /\ table \subseteq Nodes /\ subscribed \subseteq Both
    /\ rows \in [Nodes -> SUBSET Ids]
    /\ wal \in [Links -> Seq(Event)]
    /\ pc \in [Probers -> Places]
    /\ at \in [Probers -> Nat]
    /\ \A p \in Probers :
          /\ pc[p] = "prepare" => at[p] \in 1 .. Len(Preparation)
          /\ pc[p] = "idle" => at[p] = 1
          /\ pc[p] \in Main => at[p] \in 1 .. Len(Legs)
          /\ pc[p] \in Over => at[p] \in 1 .. Len(Legs) \/ at[p] \in 1 .. Len(Preparation)
    /\ deferred \in [Probers -> Seq(Ids)]
    /\ verdict \in [Probers -> {"none", "PASS", "FAIL"}]
    /\ abandoned \subseteq Ids
    /\ failures \in 0 .. MaxFailures

(* The subscriptions are ready before the first row.                       *)
Heeded(l) == mode = "master-slave" \/ l.to \in subscribed
Ready(p) ==
    mode = "master-master" =>
        /\ pc[p] = "prepare" =>
              /\ at[p] >= 2 => NodeA \in table
              /\ at[p] >= 3 => NodeB \in table
              /\ at[p] >= 4 => NodeA \in subscribed
        /\ pc[p] \in Main => Both \subseteq subscribed

(* A link carries no change twice, and no insert behind its deletion.      *)
Ordered(s) ==
    \A i, j \in 1 .. Len(s) : i < j =>
        s[i] # s[j] /\ ~(s[i].op = "delete" /\ s[j] = Inserted(s[i].id))

(* What a link carries was done at its start.                              *)
LinkInv ==
    \A l \in Links :
        /\ Ordered(wal[l])
        /\ \A e \in Range(wal[l]) : e.id \in LegIds /\ Source(e.id) = l.from

(* How a row at the end of a link, the changes of it under way, and the    *)
(* row at the source belong together.                                      *)
RowOnLink(id, l) ==
    /\ Pending(l, Deleted(id)) => id \notin rows[l.from]
    /\ Pending(l, Inserted(id)) =>
          id \notin rows[l.to] /\ (id \in rows[l.from] \/ Pending(l, Deleted(id)))
    /\ id \in rows[l.to] => Heeded(l) /\ (id \in rows[l.from] \/ Pending(l, Deleted(id)))
RowInv ==
    \A id \in LegIds, l \in Links : Source(id) = l.from => RowOnLink(id, l)

(* A row that its probe has not come to is nowhere.                        *)
Fresh(id) ==
    \/ pc[id[1]] \in {"idle", "prepare"}
    \/ pc[id[1]] = "insert" /\ id[2] >= at[id[1]]
    \/ pc[id[1]] \in Main /\ id[2] > at[id[1]]
Nowhere(id) ==
    /\ \A n \in Nodes : id \notin rows[n]
    /\ \A l \in Links : ~Pending(l, Inserted(id)) /\ ~Pending(l, Deleted(id))
Unused(p) == \A id \in LegIds : id[1] = p /\ Fresh(id) => Nowhere(id)

(* Where the row is that a probe is busy with.                             *)
Busy(p) ==
    LET id == Row(p)
        l == Leg(p)
    IN /\ pc[p] = "await row" =>
             id \in rows[l.from] /\ (id \in rows[l.to] \/ Pending(l, Inserted(id)))
       /\ pc[p] = "delete" => id \in rows[l.from] /\ id \in rows[l.to]
       /\ pc[p] = "await deletion" =>
             /\ id \notin rows[l.from] /\ ~Pending(l, Inserted(id))
             /\ id \in rows[l.to] <=> Pending(l, Deleted(id))

(* A leg that the probe is done with is settled.                           *)
Settled(id) ==
    LET l == Legs[id[2]] IN
    /\ id \notin rows[l.from] /\ id \notin rows[l.to]
    /\ ~Pending(l, Inserted(id)) /\ ~Pending(l, Deleted(id))
Done(p) ==
    /\ \A id \in LegIds :
          id[1] = p /\ ((pc[p] \in Main /\ id[2] < at[p]) \/ verdict[p] = "PASS") => Settled(id)
    /\ verdict[p] = "PASS" => pc[p] \in Over

(* A row at its source has a clean-up, or is abandoned.                    *)
Cleans(p) ==
    /\ \A id \in LegIds :
          id[1] = p /\ id \in rows[Source(id)] /\ id \notin abandoned => id \in Range(deferred[p])
    /\ \A id \in Range(deferred[p]) : id \in LegIds /\ id[1] = p
    /\ pc[p] = "done" => deferred[p] = <<>>

ProberInv(p) == Ready(p) /\ Unused(p) /\ Busy(p) /\ Done(p) /\ Cleans(p)

IInv == ProbeType /\ LinkInv /\ RowInv /\ \A p \in Probers : ProberInv(p)

-----------------------------------------------------------------------------
(* Links.                                                                  *)

LEMMA LinkFacts ==
  /\ \A l \in Links : l.from \in Nodes /\ l.to \in Nodes /\ l.from # l.to
  /\ mode \in BothModes =>
        /\ DOMAIN Legs = 1 .. Len(Legs) /\ Len(Legs) \in Nat \ {0}
        /\ Len(Legs) <= Len(Standbys) + 2
        /\ \A i \in DOMAIN Legs : Legs[i] \in Links
  /\ mode = "master-master" => \A i \in DOMAIN Legs : Legs[i].to \in Both
<1>1. Range(Standbys) = {Standbys[i] : i \in 1 .. Len(Standbys)}
  BY NodesAssumption DEF Range
<1>2. Range(LegsOf("master-slave")) =
        {[from |-> Primary, to |-> Standbys[i]] : i \in 1 .. Len(Standbys)}
  BY NodesAssumption DEF Range, LegsOf
<1>3. Range(LegsOf("master-master")) =
        {[from |-> NodeA, to |-> NodeB], [from |-> NodeB, to |-> NodeA]}
  <2>1. LegsOf("master-master") =
          <<[from |-> NodeA, to |-> NodeB], [from |-> NodeB, to |-> NodeA]>>
    BY DEF LegsOf
  <2> QED
    BY <2>1 DEF Range
<1>4. Links = Range(LegsOf("master-slave")) \cup Range(LegsOf("master-master"))
  BY DEF Links
<1>5. \A l \in Links : l.from \in Nodes /\ l.to \in Nodes /\ l.from # l.to
  <2>1. \A i \in 1 .. Len(Standbys) : Standbys[i] \in Nodes /\ Standbys[i] # Primary
    BY <1>1, NodesAssumption DEF Nodes
  <2> QED
    BY <1>2, <1>3, <1>4, <2>1, NodesAssumption DEF Nodes
<1>6. ASSUME mode = "master-slave"
      PROVE  /\ DOMAIN Legs = 1 .. Len(Legs) /\ Len(Legs) = Len(Standbys)
             /\ \A i \in DOMAIN Legs : Legs[i] \in Links
  <2>1. Legs = [i \in 1 .. Len(Standbys) |-> [from |-> Primary, to |-> Standbys[i]]]
    BY <1>6, NodesAssumption DEF Legs, LegsOf
  <2> QED
    BY <2>1, <1>2, <1>4, NodesAssumption
<1>7. ASSUME mode = "master-master"
      PROVE  /\ DOMAIN Legs = 1 .. 2 /\ Len(Legs) = 2
             /\ \A i \in DOMAIN Legs : Legs[i] \in Links /\ Legs[i].to \in Both
  <2>1. Legs = <<[from |-> NodeA, to |-> NodeB], [from |-> NodeB, to |-> NodeA]>>
    BY <1>7 DEF Legs, LegsOf
  <2> QED
    BY <2>1, <1>3, <1>4 DEF Both
<1>8. ASSUME mode \in BothModes
      PROVE  /\ DOMAIN Legs = 1 .. Len(Legs) /\ Len(Legs) \in Nat \ {0}
             /\ Len(Legs) <= Len(Standbys) + 2
             /\ \A i \in DOMAIN Legs : Legs[i] \in Links
  <2>1. CASE mode = "master-slave"
    BY <2>1, <1>6, NodesAssumption
  <2>2. CASE mode = "master-master"
    <3>1. Len(Legs) = 2 /\ DOMAIN Legs = 1 .. 2
      BY <2>2, <1>7
    <3> QED
      BY <3>1, <2>2, <1>7, NodesAssumption
  <2> QED
    BY <1>8, <2>1, <2>2 DEF BothModes
<1>9. mode = "master-master" => \A i \in DOMAIN Legs : Legs[i].to \in Both
  BY <1>7
<1> QED
  BY <1>5, <1>8, <1>9

LEMMA LinksByEnds ==
  ASSUME NEW k \in Links, NEW l \in Links, k.from = l.from, k.to = l.to
  PROVE  k = l
<1>1. \A m \in {"master-slave", "master-master"} : \A i \in DOMAIN LegsOf(m) :
         LegsOf(m)[i] = [from |-> LegsOf(m)[i].from, to |-> LegsOf(m)[i].to]
  BY DEF LegsOf
<1>2. ASSUME NEW x \in Links PROVE x = [from |-> x.from, to |-> x.to]
  <2>1. PICK m \in {"master-slave", "master-master"} : x \in Range(LegsOf(m))
    BY DEF Links
  <2>2. PICK i \in DOMAIN LegsOf(m) : x = LegsOf(m)[i]
    BY <2>1 DEF Range
  <2> QED
    BY <1>1, <2>2
<1> QED
  BY <1>2

LEMMA IdFacts ==
  ASSUME mode \in BothModes, NEW id \in LegIds
  PROVE  /\ id \in Ids /\ id[1] \in Probers /\ id = <<id[1], id[2]>>
         /\ Source(id) \in Nodes /\ Legs[id[2]] \in Links /\ Legs[id[2]].from = Source(id)
         /\ Inserted(id) \in Event /\ Deleted(id) \in Event
         /\ Inserted(id) # Deleted(id)
<1>1. id \in Ids /\ id[2] \in DOMAIN Legs
  BY DEF LegIds
<1>2. id[1] \in Probers /\ id = <<id[1], id[2]>>
  BY <1>1 DEF Ids
<1>3. Legs[id[2]] \in Links
  BY <1>1, LinkFacts
<1> QED
  BY <1>1, <1>2, <1>3, LinkFacts DEF Source, Inserted, Deleted, Event

LEMMA EventsDiffer ==
  ASSUME NEW a, NEW b
  PROVE  /\ Inserted(a) # Deleted(b)
         /\ Inserted(a) = Inserted(b) => a = b
         /\ Deleted(a) = Deleted(b) => a = b
         /\ Inserted(a).id = a /\ Deleted(a).id = a
         /\ Inserted(a).op = "insert" /\ Deleted(a).op = "delete"
  BY DEF Inserted, Deleted

LEMMA EventCases ==
  ASSUME NEW e \in Event
  PROVE  e = IF e.op = "insert" THEN Inserted(e.id) ELSE Deleted(e.id)
  BY DEF Event, Inserted, Deleted

-----------------------------------------------------------------------------
(* Sequences of changes.                                                   *)

LEMMA RangeOfAppend ==
  ASSUME NEW S, NEW s \in Seq(S), NEW e \in S
  PROVE  /\ Append(s, e) \in Seq(S)
         /\ Range(Append(s, e)) = Range(s) \cup {e}
<1> DEFINE t == Append(s, e)
<1>1. /\ t \in Seq(S) /\ Len(t) = Len(s) + 1 /\ Len(s) \in Nat
      /\ \A i \in 1 .. Len(s) : t[i] = s[i]
      /\ t[Len(s) + 1] = e
  BY AppendProperties, LenProperties
<1>2. DOMAIN t = 1 .. Len(s) + 1 /\ DOMAIN s = 1 .. Len(s)
  BY <1>1, LenProperties
<1> HIDE DEF t
<1>3. \A x : x \in Range(t) <=> x \in Range(s) \cup {e}
  <2>1. ASSUME NEW x \in Range(t) PROVE x \in Range(s) \cup {e}
    <3>1. PICK i \in 1 .. Len(s) + 1 : x = t[i]
      BY <1>2 DEF Range
    <3> QED
      BY <3>1, <1>1, <1>2 DEF Range
  <2>2. ASSUME NEW x \in Range(s) PROVE x \in Range(t)
    <3>1. PICK i \in 1 .. Len(s) : x = s[i]
      BY <1>2 DEF Range
    <3>2. i \in 1 .. Len(s) + 1
      BY <1>1
    <3> QED
      BY <3>1, <3>2, <1>1, <1>2 DEF Range
  <2>3. e \in Range(t)
    <3>1. Len(s) + 1 \in 1 .. Len(s) + 1
      BY <1>1
    <3> QED
      BY <3>1, <1>1, <1>2 DEF Range
  <2> QED
    BY <2>1, <2>2, <2>3
<1> QED
  BY <1>1, <1>3 DEF t

LEMMA OrderOfAppend ==
  ASSUME NEW s \in Seq(Event), NEW e \in Event, Ordered(s), e \notin Range(s),
         e.op = "insert" => Deleted(e.id) \notin Range(s)
  PROVE  Ordered(Append(s, e))
<1> DEFINE t == Append(s, e)
<1>1. /\ Len(t) = Len(s) + 1 /\ Len(s) \in Nat
      /\ \A i \in 1 .. Len(s) : t[i] = s[i]
      /\ t[Len(s) + 1] = e
  BY AppendProperties, LenProperties
<1>2. \A i \in 1 .. Len(s) : s[i] \in Range(s) /\ s[i] \in Event
  BY LenProperties, ElementOfSeq DEF Range
<1> HIDE DEF t
<1>3. ASSUME NEW i \in 1 .. Len(t), NEW j \in 1 .. Len(t), i < j
      PROVE  t[i] # t[j] /\ ~(t[i].op = "delete" /\ t[j] = Inserted(t[i].id))
  <2>1. i \in 1 .. Len(s)
    BY <1>1, <1>3
  <2>2. CASE j \in 1 .. Len(s)
    BY <1>1, <1>3, <2>1, <2>2 DEF Ordered
  <2>3. CASE j \notin 1 .. Len(s)
    <3>1. t[j] = e /\ t[i] = s[i] /\ s[i] \in Range(s) /\ s[i] \in Event
      BY <1>1, <1>2, <2>1, <2>3
    <3>2. ASSUME s[i].op = "delete", e = Inserted(s[i].id) PROVE FALSE
      <4>1. s[i] = Deleted(e.id) /\ e.op = "insert"
        BY <3>1, <3>2, EventCases, EventsDiffer
      <4> QED
        BY <3>1, <4>1
    <3> QED
      BY <3>1, <3>2
  <2> QED
    BY <2>2, <2>3
<1> QED
  BY <1>3 DEF Ordered, t

LEMMA OrderOfTail ==
  ASSUME NEW s \in Seq(Event), s # <<>>, Ordered(s)
  PROVE  /\ Tail(s) \in Seq(Event) /\ Ordered(Tail(s)) /\ Head(s) \in Event
         /\ Range(s) = Range(Tail(s)) \cup {Head(s)}
         /\ Head(s) \notin Range(Tail(s))
         /\ \A id : Head(s) = Deleted(id) => Inserted(id) \notin Range(s)
<1> DEFINE t == Tail(s)
<1>1. /\ Len(s) \in Nat \ {0} /\ DOMAIN s = 1 .. Len(s)
      /\ \A i \in 1 .. Len(s) : s[i] \in Event
  BY LenProperties, EmptySeq, ElementOfSeq, SeqEqual
<1>2. /\ t \in Seq(Event) /\ Len(t) = Len(s) - 1
      /\ \A i \in 1 .. Len(t) : t[i] = s[i + 1]
      /\ Head(s) = s[1] /\ DOMAIN t = 1 .. Len(t)
  BY HeadTailProperties, LenProperties, <1>1
<1> HIDE DEF t
<1>3. Ordered(t)
  <2>1. ASSUME NEW i \in 1 .. Len(t), NEW j \in 1 .. Len(t), i < j
        PROVE  t[i] # t[j] /\ ~(t[i].op = "delete" /\ t[j] = Inserted(t[i].id))
    <3>1. i + 1 \in 1 .. Len(s) /\ j + 1 \in 1 .. Len(s) /\ i + 1 < j + 1
      BY <1>1, <1>2, <2>1
    <3> QED
      BY <3>1, <1>2 DEF Ordered
  <2> QED
    BY <2>1 DEF Ordered
<1>4. ASSUME NEW x \in Range(t)
      PROVE  \E j \in 2 .. Len(s) : x = s[j]
  <2>1. PICK i \in 1 .. Len(t) : x = t[i]
    BY <1>2 DEF Range
  <2>2. i + 1 \in 2 .. Len(s)
    BY <1>1, <1>2
  <2> QED
    BY <1>2, <2>1, <2>2
<1>5. ASSUME NEW j \in 2 .. Len(s) PROVE s[j] \in Range(t)
  <2>1. j - 1 \in 1 .. Len(t) /\ (j - 1) + 1 = j
    BY <1>1, <1>2
  <2> QED
    BY <1>2, <2>1 DEF Range
<1>6. Range(s) = Range(t) \cup {Head(s)}
  <2>1. ASSUME NEW x \in Range(s) PROVE x \in Range(t) \cup {Head(s)}
    <3>1. PICK j \in 1 .. Len(s) : x = s[j]
      BY <1>1 DEF Range
    <3> QED
      BY <3>1, <1>1, <1>2, <1>5
  <2>2. Range(t) \subseteq Range(s)
    <3>1. ASSUME NEW x \in Range(t) PROVE x \in Range(s)
      <4>1. PICK j \in 2 .. Len(s) : x = s[j]
        BY <1>4
      <4>2. j \in DOMAIN s
        BY <1>1
      <4> QED
        BY <4>1, <4>2 DEF Range
    <3> QED
      BY <3>1
  <2>3. Head(s) \in Range(s)
    BY <1>1, <1>2 DEF Range
  <2> QED
    BY <2>1, <2>2, <2>3
<1>7. Head(s) \notin Range(t)
  <2> SUFFICES ASSUME Head(s) \in Range(t) PROVE FALSE
    OBVIOUS
  <2>1. PICK j \in 2 .. Len(s) : Head(s) = s[j]
    BY <1>4
  <2> QED
    BY <2>1, <1>1, <1>2 DEF Ordered
<1>8. ASSUME NEW id, Head(s) = Deleted(id), Inserted(id) \in Range(s) PROVE FALSE
  <2>1. PICK j \in 1 .. Len(s) : s[j] = Inserted(id)
    BY <1>1, <1>8 DEF Range
  <2>2. j # 1
    BY <1>2, <1>8, <2>1, EventsDiffer
  <2> QED
    BY <1>1, <1>2, <1>8, <2>1, <2>2, EventsDiffer DEF Ordered
<1> QED
  BY <1>1, <1>2, <1>3, <1>6, <1>7, <1>8 DEF t

-----------------------------------------------------------------------------
(* What PostgreSQL's actions do to the rows and the links.                 *)

Links2 == LinkInv /\ RowInv

LEMMA SendEffect ==
  ASSUME wal \in [Links -> Seq(Event)], NEW n, NEW e \in Event, Send(n, e),
         LinkInv, UNCHANGED mode, e.id \in LegIds, Source(e.id) = n,
         \A l \in Links : l.from = n =>
            e \notin Range(wal[l]) /\ (e.op = "insert" => Deleted(e.id) \notin Range(wal[l]))
  PROVE  /\ wal' \in [Links -> Seq(Event)] /\ LinkInv'
         /\ \A l \in Links :
               Range(wal'[l]) = Range(wal[l]) \cup (IF l.from = n THEN {e} ELSE {})
<1>1. \A l \in Links : wal[l] \in Seq(Event)
  OBVIOUS
<1>2. \A l \in Links : wal'[l] = IF l.from = n THEN Append(wal[l], e) ELSE wal[l]
  BY DEF Send
<1>3. ASSUME NEW l \in Links
      PROVE  /\ wal'[l] \in Seq(Event) /\ Ordered(wal'[l])
             /\ Range(wal'[l]) = Range(wal[l]) \cup (IF l.from = n THEN {e} ELSE {})
  <2>1. CASE l.from = n
    <3>1. Ordered(Append(wal[l], e))
      <4>1. /\ wal[l] \in Seq(Event) /\ Ordered(wal[l]) /\ e \notin Range(wal[l])
            /\ e.op = "insert" => Deleted(e.id) \notin Range(wal[l])
        BY <1>1, <2>1 DEF LinkInv
      <4> QED
        BY <4>1, OrderOfAppend
    <3>2. Append(wal[l], e) \in Seq(Event) /\ Range(Append(wal[l], e)) = Range(wal[l]) \cup {e}
      BY <1>1, RangeOfAppend
    <3>3. wal'[l] = Append(wal[l], e)
      BY <1>2, <2>1
    <3> QED
      BY <2>1, <3>1, <3>2, <3>3
  <2>2. CASE l.from # n
    BY <1>1, <1>2, <2>2 DEF LinkInv
  <2> QED
    BY <2>1, <2>2
<1>4. wal' \in [Links -> Seq(Event)]
  BY <1>3 DEF Send
<1>5. LegIds' = LegIds /\ \A id : Source(id)' = Source(id)
  BY DEF LegIds, Source, Legs
<1>6. LinkInv'
  <2>1. ASSUME NEW l \in Links, NEW x \in Range(wal'[l])
        PROVE  x.id \in LegIds /\ Source(x.id) = l.from
    BY <1>3, <2>1 DEF LinkInv
  <2> QED
    BY <1>3, <1>5, <2>1 DEF LinkInv
<1> QED
  BY <1>3, <1>4, <1>6

LEMMA InsertEffect ==
  ASSUME ProbeType, Links2, NEW id \in LegIds, Nowhere(id),
         InsertRow(Source(id), id), UNCHANGED <<mode, subscribed>>
  PROVE  /\ rows' \in [Nodes -> SUBSET Ids] /\ wal' \in [Links -> Seq(Event)] /\ Links2'
         /\ \A n \in Nodes : rows'[n] = rows[n] \cup (IF n = Source(id) THEN {id} ELSE {})
         /\ \A l \in Links : Range(wal'[l]) =
               Range(wal[l]) \cup (IF l.from = Source(id) THEN {Inserted(id)} ELSE {})
<1> USE DEF Links2
<1>1. /\ mode \in BothModes /\ rows \in [Nodes -> SUBSET Ids]
      /\ wal \in [Links -> Seq(Event)]
  BY DEF ProbeType
<1>2. /\ id \in Ids /\ Source(id) \in Nodes /\ Inserted(id) \in Event
      /\ Inserted(id).id = id /\ Inserted(id).op = "insert"
  BY <1>1, IdFacts, EventsDiffer
<1>3. /\ rows' \in [Nodes -> SUBSET Ids]
      /\ \A n \in Nodes : rows'[n] = rows[n] \cup (IF n = Source(id) THEN {id} ELSE {})
  BY <1>1, <1>2 DEF InsertRow
<1>4. \A l \in Links : Inserted(id) \notin Range(wal[l]) /\ Deleted(id) \notin Range(wal[l])
  BY DEF Nowhere, Pending
<1>5. /\ wal' \in [Links -> Seq(Event)] /\ LinkInv'
      /\ \A l \in Links : Range(wal'[l]) =
            Range(wal[l]) \cup (IF l.from = Source(id) THEN {Inserted(id)} ELSE {})
  BY <1>1, <1>2, <1>4, SendEffect DEF InsertRow
<1>6. ASSUME NEW x \in LegIds, NEW l \in Links, Source(x) = l.from
      PROVE  RowOnLink(x, l)'
  <2>1. RowOnLink(x, l)
    BY <1>6 DEF RowInv
  <2>2. l.from \in Nodes /\ l.to \in Nodes /\ l.from # l.to
    BY LinkFacts
  <2>3. Heeded(l)' = Heeded(l)
    BY DEF Heeded
  <2>4. CASE x # id
    <3>1. /\ Pending(l, Inserted(x))' <=> Pending(l, Inserted(x))
          /\ Pending(l, Deleted(x))' <=> Pending(l, Deleted(x))
      BY <1>5, <2>4, EventsDiffer DEF Pending
    <3>2. \A n \in Nodes : x \in rows'[n] <=> x \in rows[n]
      BY <1>3, <2>4
    <3> QED
      BY <2>1, <2>2, <2>3, <3>1, <3>2 DEF RowOnLink
  <2>5. CASE x = id
    <3>1. ~Pending(l, Deleted(x))'
      BY <1>4, <1>5, <2>5, EventsDiffer DEF Pending
    <3>2. x \in rows'[l.from] /\ x \notin rows'[l.to]
      BY <1>3, <1>6, <2>2, <2>5 DEF Nowhere
    <3> QED
      BY <3>1, <3>2 DEF RowOnLink
  <2> QED
    BY <2>4, <2>5
<1>7. LegIds' = LegIds /\ \A x : Source(x)' = Source(x)
  BY DEF LegIds, Source, Legs
<1> QED
  BY <1>3, <1>5, <1>6, <1>7 DEF RowInv

LEMMA DeleteEffect ==
  ASSUME ProbeType, Links2, NEW id \in LegIds,
         DeleteRow(Source(id), id), UNCHANGED <<mode, subscribed>>
  PROVE  /\ rows' \in [Nodes -> SUBSET Ids] /\ wal' \in [Links -> Seq(Event)] /\ Links2'
         /\ \A n \in Nodes : rows'[n] = rows[n] \ (IF n = Source(id) THEN {id} ELSE {})
         /\ \A l \in Links : Range(wal'[l]) =
               Range(wal[l]) \cup (IF l.from = Source(id) /\ id \in rows[Source(id)]
                                  THEN {Deleted(id)} ELSE {})
<1> USE DEF Links2
<1>1. /\ mode \in BothModes /\ rows \in [Nodes -> SUBSET Ids]
      /\ wal \in [Links -> Seq(Event)]
  BY DEF ProbeType
<1>2. /\ id \in Ids /\ Source(id) \in Nodes /\ Deleted(id) \in Event
      /\ Deleted(id).id = id /\ Deleted(id).op = "delete"
  BY <1>1, IdFacts, EventsDiffer
<1>3. /\ rows' \in [Nodes -> SUBSET Ids]
      /\ \A n \in Nodes : rows'[n] = rows[n] \ (IF n = Source(id) THEN {id} ELSE {})
  BY <1>1, <1>2 DEF DeleteRow
<1>7. LegIds' = LegIds /\ \A x : Source(x)' = Source(x)
  BY DEF LegIds, Source, Legs
<1>4. /\ wal' \in [Links -> Seq(Event)] /\ LinkInv'
      /\ \A l \in Links : Range(wal'[l]) =
            Range(wal[l]) \cup (IF l.from = Source(id) /\ id \in rows[Source(id)]
                               THEN {Deleted(id)} ELSE {})
  <2>1. CASE id \in rows[Source(id)]
    <3>1. \A l \in Links : l.from = Source(id) => Deleted(id) \notin Range(wal[l])
      BY <2>1 DEF RowInv, RowOnLink, Pending
    <3>2. Send(Source(id), Deleted(id))
      BY <2>1 DEF DeleteRow
    <3> QED
      BY <1>1, <1>2, <2>1, <3>1, <3>2, SendEffect
  <2>2. CASE id \notin rows[Source(id)]
    <3>1. wal' = wal
      BY <2>2 DEF DeleteRow
    <3> QED
      BY <1>1, <1>7, <2>2, <3>1 DEF LinkInv
  <2> QED
    BY <2>1, <2>2
<1>6. ASSUME NEW x \in LegIds, NEW l \in Links, Source(x) = l.from
      PROVE  RowOnLink(x, l)'
  <2>1. RowOnLink(x, l)
    BY <1>6 DEF RowInv
  <2>2. l.from \in Nodes /\ l.to \in Nodes /\ l.from # l.to
    BY LinkFacts
  <2>3. Heeded(l)' = Heeded(l)
    BY DEF Heeded
  <2>4. /\ Pending(l, Inserted(x))' <=> Pending(l, Inserted(x))
        /\ Pending(l, Deleted(x))' <=>
              Pending(l, Deleted(x)) \/ (x = id /\ id \in rows[l.from])
    BY <1>4, <1>6, EventsDiffer DEF Pending
  <2>5. /\ x \in rows'[l.from] <=> x \in rows[l.from] /\ x # id
        /\ x \in rows'[l.to] <=> x \in rows[l.to]
    <3>1. x = id => Source(id) = l.from
      BY <1>6
    <3>2. x \in rows'[l.from] <=> x \in rows[l.from] /\ x # id
      BY <1>3, <2>2, <3>1
    <3>3. x \in rows'[l.to] <=> x \in rows[l.to]
      BY <1>3, <2>2, <3>1
    <3> QED
      BY <3>2, <3>3
  <2> QED
    BY <2>1, <2>3, <2>4, <2>5 DEF RowOnLink
<1> QED
  BY <1>3, <1>4, <1>6, <1>7 DEF RowInv

LEMMA ApplyEffect ==
  ASSUME ProbeType, Links2, NEW link \in Links, Apply(link)
  PROVE  /\ rows' \in [Nodes -> SUBSET Ids] /\ wal' \in [Links -> Seq(Event)] /\ Links2'
         /\ Head(wal[link]).id \in LegIds /\ Source(Head(wal[link]).id) = link.from
         /\ Head(wal[link]) \in Event
         /\ Head(wal[link]) \in Range(wal[link])
         /\ \A l \in Links : Range(wal'[l]) =
               Range(wal[l]) \ (IF l = link THEN {Head(wal[link])} ELSE {})
         /\ \A n \in Nodes, x \in Ids : n # link.to \/ x # Head(wal[link]).id =>
               (x \in rows'[n] <=> x \in rows[n])
         /\ LET e == Head(wal[link]) IN
            /\ Heeded(link) => (e.id \in rows'[link.to] <=> e.op = "insert")
            /\ ~Heeded(link) => (e.id \in rows'[link.to] <=> e.id \in rows[link.to])
<1> DEFINE e == Head(wal[link])
<1> USE DEF Links2
<1>1. /\ mode \in BothModes /\ rows \in [Nodes -> SUBSET Ids]
      /\ wal \in [Links -> Seq(Event)] /\ wal[link] # <<>>
      /\ UNCHANGED <<mode, subscribed>>
  BY DEF ProbeType, Apply
<1>2. /\ wal[link] \in Seq(Event) /\ Ordered(wal[link])
      /\ wal' = [wal EXCEPT ![link] = Tail(wal[link])]
  BY <1>1 DEF LinkInv, Apply
<1>3. /\ Tail(wal[link]) \in Seq(Event) /\ Ordered(Tail(wal[link])) /\ e \in Event
      /\ Range(wal[link]) = Range(Tail(wal[link])) \cup {e}
      /\ e \notin Range(Tail(wal[link]))
      /\ \A id : e = Deleted(id) => Inserted(id) \notin Range(wal[link])
  BY <1>1, <1>2, OrderOfTail
<1>4. e.id \in LegIds /\ Source(e.id) = link.from /\ e.id \in Ids
  BY <1>3 DEF LinkInv, LegIds
<1> HIDE DEF e
<1>5. /\ wal' \in [Links -> Seq(Event)]
      /\ \A l \in Links : Range(wal'[l]) = Range(wal[l]) \ (IF l = link THEN {e} ELSE {})
  BY <1>1, <1>2, <1>3
<1>6. link.from \in Nodes /\ link.to \in Nodes /\ link.from # link.to
  BY LinkFacts
<1>7. rows' = IF ~Heeded(link) THEN rows
              ELSE [rows EXCEPT ![link.to] = IF e.op = "insert" THEN @ \cup {e.id}
                                             ELSE @ \ {e.id}]
  BY DEF Apply, Heeded, e
<1>8. /\ rows' \in [Nodes -> SUBSET Ids]
      /\ \A n \in Nodes, x \in Ids : n # link.to \/ x # e.id => (x \in rows'[n] <=> x \in rows[n])
      /\ Heeded(link) => (e.id \in rows'[link.to] <=> e.op = "insert")
      /\ ~Heeded(link) => (e.id \in rows'[link.to] <=> e.id \in rows[link.to])
  <2>1. CASE Heeded(link) /\ e.op = "insert"
    <3>1. rows' = [rows EXCEPT ![link.to] = @ \cup {e.id}]
      BY <2>1, <1>7
    <3> QED
      BY <2>1, <3>1, <1>1, <1>4, <1>6
  <2>2. CASE Heeded(link) /\ e.op # "insert"
    <3>1. rows' = [rows EXCEPT ![link.to] = @ \ {e.id}]
      BY <2>2, <1>7
    <3> QED
      BY <2>2, <3>1, <1>1, <1>4, <1>6
  <2>3. CASE ~Heeded(link)
    BY <2>3, <1>1, <1>7
  <2> QED
    BY <2>1, <2>2, <2>3
<1>9. LegIds' = LegIds /\ \A x : Source(x)' = Source(x)
  BY <1>1 DEF LegIds, Source, Legs
<1>10. LinkInv'
  <2>1. \A l \in Links : Ordered(wal'[l])
    BY <1>1, <1>2, <1>3 DEF LinkInv
  <2>2. \A l \in Links : Range(wal'[l]) \subseteq Range(wal[l])
    BY <1>5
  <2> QED
    BY <1>9, <2>1, <2>2 DEF LinkInv
<1>11. ASSUME NEW x \in LegIds, NEW l \in Links, Source(x) = l.from
       PROVE  RowOnLink(x, l)'
  <2>1. RowOnLink(x, l) /\ x \in Ids
    BY <1>11 DEF RowInv, LegIds
  <2>2. l.from \in Nodes /\ l.to \in Nodes /\ l.from # l.to
    BY LinkFacts
  <2>3. Heeded(l)' = Heeded(l)
    BY <1>1 DEF Heeded
  <2>4. CASE l # link
    <3>1. /\ Pending(l, Inserted(x))' <=> Pending(l, Inserted(x))
          /\ Pending(l, Deleted(x))' <=> Pending(l, Deleted(x))
      BY <1>5, <2>4 DEF Pending
    <3>2. x = e.id /\ l.to = link.to => FALSE
      <4>1. ASSUME x = e.id, l.to = link.to PROVE FALSE
        <5>1. l.from = link.from
          BY <4>1, <1>4, <1>11
        <5>2. l = link
          BY <4>1, <5>1, LinksByEnds
        <5> QED
          BY <5>2, <2>4
      <4> QED
        BY <4>1
    <3>3. x \in rows'[l.to] <=> x \in rows[l.to]
      BY <3>2, <1>8, <2>1, <2>2
    <3>4. x \in rows'[l.from] <=> x \in rows[l.from]
      <4>1. x = e.id => l.from = link.from
        BY <1>4, <1>11
      <4> QED
        BY <4>1, <1>6, <1>8, <2>1, <2>2
    <3> QED
      BY <3>1, <3>3, <3>4, <2>1, <2>3 DEF RowOnLink
  <2>5. CASE l = link
    <3>1. x \in rows'[l.from] <=> x \in rows[l.from]
      BY <1>8, <2>1, <2>2, <2>5
    <3>2. CASE x # e.id
      <4>1. /\ Pending(l, Inserted(x))' <=> Pending(l, Inserted(x))
            /\ Pending(l, Deleted(x))' <=> Pending(l, Deleted(x))
        BY <1>5, <2>5, <3>2, EventsDiffer DEF Pending
      <4>2. x \in rows'[l.to] <=> x \in rows[l.to]
        BY <3>2, <1>8, <2>1, <2>2
      <4> QED
        BY <3>1, <4>1, <4>2, <2>1, <2>3 DEF RowOnLink
    <3>3. CASE x = e.id /\ e.op = "insert"
      <4>1. e = Inserted(x)
        BY <3>3, <1>3, EventCases
      <4>2. /\ ~Pending(l, Inserted(x))' /\ Pending(l, Inserted(x))
            /\ Pending(l, Deleted(x))' <=> Pending(l, Deleted(x))
        BY <4>1, <1>3, <1>5, <2>5, EventsDiffer DEF Pending
      <4>3. x \in rows'[l.to] => Heeded(l)
        BY <4>2, <1>8, <2>1, <2>5, <3>3 DEF RowOnLink
      <4> QED
        BY <3>1, <4>2, <4>3, <2>1, <2>3 DEF RowOnLink
    <3>4. CASE x = e.id /\ e.op # "insert"
      <4>1. e = Deleted(x)
        BY <3>4, <1>3, EventCases
      <4>2. /\ ~Pending(l, Deleted(x))' /\ Pending(l, Deleted(x))
            /\ ~Pending(l, Inserted(x)) /\ ~Pending(l, Inserted(x))'
        BY <4>1, <1>3, <1>5, <2>5, EventsDiffer DEF Pending
      <4>3. x \notin rows'[l.to]
        <5>1. x \in rows[l.to] => Heeded(l)
          BY <2>1 DEF RowOnLink
        <5> QED
          BY <5>1, <1>8, <2>5, <3>4
      <4> QED
        BY <4>2, <4>3 DEF RowOnLink
    <3> QED
      BY <3>2, <3>3, <3>4
  <2> QED
    BY <2>4, <2>5
<1>12. RowInv'
  BY <1>9, <1>11 DEF RowInv
<1> QED
  BY <1>3, <1>4, <1>5, <1>8, <1>10, <1>12 DEF e

-----------------------------------------------------------------------------
(* The probes.                                                             *)

(* Nothing happens to a row.                                               *)
Alike(id) ==
    /\ \A n \in Nodes : id \in rows'[n] <=> id \in rows[n]
    /\ \A l \in Links :
          /\ Pending(l, Inserted(id))' <=> Pending(l, Inserted(id))
          /\ Pending(l, Deleted(id))' <=> Pending(l, Deleted(id))

(* Preparations are never undone.                                          *)
Grows ==
    mode' = mode /\ table \subseteq table' /\ subscribed \subseteq subscribed'
    /\ abandoned \subseteq abandoned'

LEMMA RowFacts ==
  ASSUME ProbeType, NEW p \in Probers, pc[p] \in Main
  PROVE  /\ Row(p) \in LegIds /\ Row(p)[1] = p /\ Row(p)[2] = at[p]
         /\ Leg(p) \in Links /\ Leg(p).from = Source(Row(p)) /\ Leg(p) = Legs[Row(p)[2]]
         /\ at[p] \in Nat /\ at[p] \in 1 .. Len(Legs)
<1>1. at[p] \in 1 .. Len(Legs) /\ mode \in BothModes
  BY DEF ProbeType
<1>2. DOMAIN Legs = 1 .. Len(Legs) /\ Len(Legs) \in Nat /\ Len(Legs) <= Len(Standbys) + 2
  BY <1>1, LinkFacts
<1>3. at[p] \in 1 .. Len(Standbys) + 2 /\ at[p] \in DOMAIN Legs
  BY <1>1, <1>2, NodesAssumption
<1>4. Row(p) \in Ids /\ Row(p)[1] = p /\ Row(p)[2] = at[p]
  BY <1>3 DEF Row, Ids
<1> QED
  BY <1>1, <1>3, <1>4, LinkFacts DEF LegIds, Leg, Source

LEMMA AlikeKeeps ==
  ASSUME mode \in BothModes, Grows, NEW id \in LegIds, Alike(id)
  PROVE  /\ Legs' = Legs /\ Legs[id[2]] \in Links
         /\ Legs[id[2]].from \in Nodes /\ Legs[id[2]].to \in Nodes
         /\ id \in rows'[Source(id)'] <=> id \in rows[Source(id)]
<1>1. Legs' = Legs /\ Source(id)' = Source(id) /\ Source(id) \in Nodes /\ Legs[id[2]] \in Links
  BY IdFacts DEF Grows, Legs, Source
<1> QED
  BY <1>1, LinkFacts DEF Alike

(* A step beside a probe leaves what holds of it.                          *)
LEMMA OthersKeep ==
  ASSUME ProbeType, Grows, NEW q \in Probers, ProberInv(q),
         pc'[q] = pc[q], at'[q] = at[q], verdict'[q] = verdict[q], deferred'[q] = deferred[q],
         \A id \in LegIds : id[1] = q => Alike(id)
  PROVE  ProberInv(q)'
<1>1. /\ mode \in BothModes /\ mode' = mode /\ Legs' = Legs /\ LegIds' = LegIds
  BY DEF ProbeType, Grows, LegIds, Legs
<1>2. Ready(q)'
  BY DEF ProberInv, Ready, Grows
<1>3. Unused(q)'
  <2>1. ASSUME NEW id \in LegIds, id[1] = q, Fresh(id)' PROVE Nowhere(id)'
    <3>1. Fresh(id)
      BY <2>1 DEF Fresh
    <3>2. Nowhere(id)
      BY <2>1, <3>1 DEF ProberInv, Unused
    <3>3. Alike(id)
      BY <2>1
    <3> QED
      BY <3>2, <3>3 DEF Nowhere, Alike
  <2> QED
    BY <1>1, <2>1 DEF Unused
<1>4. Busy(q)'
  <2>1. CASE pc[q] \in Main
    <3>1. /\ Row(q) \in LegIds /\ Row(q)[1] = q /\ Leg(q) \in Links
      BY <2>1, RowFacts
    <3>2. Leg(q).from \in Nodes /\ Leg(q).to \in Nodes
      BY <3>1, LinkFacts
    <3>3. Row(q)' = Row(q) /\ Leg(q)' = Leg(q) /\ Alike(Row(q))
      BY <1>1, <3>1 DEF Row, Leg
    <3> QED
      BY <3>1, <3>2, <3>3 DEF ProberInv, Busy, Alike
  <2>2. CASE pc[q] \notin Main
    BY <2>2 DEF Busy, Main
  <2> QED
    BY <2>1, <2>2
<1>5. Done(q)'
  <2>1. ASSUME NEW id \in LegIds, id[1] = q,
               (pc'[q] \in Main /\ id[2] < at'[q]) \/ verdict'[q] = "PASS"
        PROVE  Settled(id)'
    <3>1. Settled(id)
      BY <2>1 DEF ProberInv, Done
    <3>2. Alike(id)
      BY <2>1
    <3>3. Legs[id[2]] \in Links /\ Legs[id[2]].from \in Nodes /\ Legs[id[2]].to \in Nodes
      BY <1>1, <3>2, AlikeKeeps
    <3> QED
      BY <1>1, <3>1, <3>2, <3>3 DEF Settled, Alike
  <2>2. verdict'[q] = "PASS" => pc'[q] \in Over
    BY DEF ProberInv, Done
  <2> QED
    BY <1>1, <2>1, <2>2 DEF Done
<1>6. Cleans(q)'
  BY <1>1, AlikeKeeps DEF ProberInv, Cleans, Grows
<1> QED
  BY <1>2, <1>3, <1>4, <1>5, <1>6 DEF ProberInv

(* A step of p: what is left to show is what holds of p and of the links.  *)
LEMMA StepOf ==
  ASSUME IInv, NEW p \in Probers, ProbeType', Links2', Grows,
         \A q \in Probers \ {p} : /\ pc'[q] = pc[q] /\ at'[q] = at[q]
                                 /\ verdict'[q] = verdict[q] /\ deferred'[q] = deferred[q],
         \A id \in LegIds : id[1] # p => Alike(id),
         ProberInv(p)'
  PROVE  IInv'
<1>1. ASSUME NEW q \in Probers \ {p} PROVE ProberInv(q)'
  BY OthersKeep DEF IInv
<1> QED
  BY <1>1 DEF IInv, Links2

(* Neither rows nor links change.                                          *)
LEMMA StillLinks ==
  ASSUME Links2, rows' = rows, wal' = wal, Grows
  PROVE  /\ Links2' /\ \A id \in LegIds : Alike(id)
         /\ Legs' = Legs /\ LegIds' = LegIds
<1>1. LegIds' = LegIds /\ Legs' = Legs /\ \A id : Source(id)' = Source(id)
  BY DEF LegIds, Source, Legs, Grows
<1>2. LinkInv'
  BY <1>1 DEF LinkInv, Links2
<1>3. ASSUME NEW l \in Links, Heeded(l) PROVE Heeded(l)'
  BY <1>3 DEF Heeded, Grows
<1>4. RowInv'
  BY <1>1, <1>3 DEF RowInv, RowOnLink, Links2, Pending
<1> QED
  BY <1>1, <1>2, <1>4 DEF Links2, Alike, Pending

LEMMA StillRow ==
  ASSUME rows' = rows, wal' = wal, mode' = mode, NEW id
  PROVE  /\ Nowhere(id) => Nowhere(id)'
         /\ Settled(id) => Settled(id)'
         /\ id \in rows'[Source(id)'] <=> id \in rows[Source(id)]
  BY DEF Nowhere, Settled, Pending, Source, Legs

(* The types after a step of p.                                            *)
LEMMA TypeAfter ==
  ASSUME ProbeType, NEW p \in Probers, NEW x \in Places, NEW k \in Nat,
         mode' = mode, table' \subseteq Nodes, subscribed' \subseteq Both,
         rows' \in [Nodes -> SUBSET Ids], wal' \in [Links -> Seq(Event)],
         pc' = [pc EXCEPT ![p] = x], at' = [at EXCEPT ![p] = k],
         x = "prepare" => k \in 1 .. Len(Preparation), x = "idle" => k = 1,
         x \in Main => k \in 1 .. Len(Legs),
         x \in Over => k \in 1 .. Len(Legs) \/ k \in 1 .. Len(Preparation),
         deferred' \in [Probers -> Seq(Ids)],
         verdict' \in [Probers -> {"none", "PASS", "FAIL"}],
         abandoned' \subseteq Ids, failures' \in 0 .. MaxFailures
  PROVE  /\ ProbeType' /\ pc'[p] = x /\ at'[p] = k
         /\ \A q \in Probers \ {p} : pc'[q] = pc[q] /\ at'[q] = at[q]
<1>1. Preparation' = Preparation /\ Legs' = Legs
  BY DEF Preparation, Legs
<1>2. /\ pc \in [Probers -> Places] /\ at \in [Probers -> Nat]
  BY DEF ProbeType
<1>3. /\ pc' \in [Probers -> Places] /\ at' \in [Probers -> Nat]
      /\ pc'[p] = x /\ at'[p] = k
      /\ \A q \in Probers \ {p} : pc'[q] = pc[q] /\ at'[q] = at[q]
  BY <1>2
<1>4. ASSUME NEW q \in Probers
      PROVE  /\ pc'[q] = "prepare" => at'[q] \in 1 .. Len(Preparation)'
             /\ pc'[q] = "idle" => at'[q] = 1
             /\ pc'[q] \in Main => at'[q] \in 1 .. Len(Legs)'
             /\ pc'[q] \in Over => at'[q] \in 1 .. Len(Legs)' \/ at'[q] \in 1 .. Len(Preparation)'
  <2>1. CASE q = p
    BY <1>1, <1>3, <2>1
  <2>2. CASE q # p
    BY <1>1, <1>3, <2>2 DEF ProbeType
  <2> QED
    BY <2>1, <2>2
<1> QED
  BY <1>3, <1>4 DEF ProbeType

LEMMA OneIsFirst ==
  ASSUME NEW n \in Nat, NEW k \in 1 .. n
  PROVE  ~(k < 1)
  OBVIOUS

(* A probe that is not at a leg has little to keep.                        *)
LEMMA NothingDone ==
  ASSUME mode \in BothModes, mode' = mode, NEW p \in Probers,
         pc'[p] \notin {"await row", "delete", "await deletion"},
         verdict'[p] # "PASS", pc'[p] = "insert" => at'[p] = 1
  PROVE  Busy(p)' /\ Done(p)'
<1>1. Busy(p)'
  BY DEF Busy
<1>2. Legs' = Legs /\ LegIds' = LegIds
  BY DEF Legs, LegIds
<1>3. ASSUME NEW id \in LegIds, pc'[p] \in Main, id[2] < at'[p] PROVE FALSE
  <2>1. id[2] \in 1 .. Len(Legs) /\ Len(Legs) \in Nat
    <3>1. id[2] \in DOMAIN Legs
      BY DEF LegIds
    <3>2. DOMAIN Legs = 1 .. Len(Legs) /\ Len(Legs) \in Nat
      BY LinkFacts
    <3> QED
      BY <3>1, <3>2
  <2>2. at'[p] = 1
    BY <1>3 DEF Main
  <2>3. id[2] < 1
    BY <1>3, <2>2
  <2> QED
    BY <2>1, <2>3, OneIsFirst
<1>4. Done(p)'
  BY <1>2, <1>3 DEF Done
<1> QED
  BY <1>1, <1>4

LEMMA NearlyReady ==
  ASSUME NEW p, pc'[p] = "prepare",
         \/ at'[p] = 1
         \/ at'[p] = 2 /\ NodeA \in table'
         \/ at'[p] = 3 /\ NodeA \in table' /\ NodeB \in table'
  PROVE  Ready(p)'
<1>1. CASE at'[p] = 1
  BY <1>1 DEF Ready, Main
<1>2. CASE at'[p] = 2 /\ NodeA \in table'
  BY <1>2 DEF Ready, Main
<1>3. CASE at'[p] = 3 /\ NodeA \in table' /\ NodeB \in table'
  BY <1>3 DEF Ready, Main
<1> QED
  BY <1>1, <1>2, <1>3

LEMMA StepStart ==
  ASSUME IInv, NEW p \in Probers, Start(p)
  PROVE  IInv'
<1>0. ProbeType /\ Links2 /\ ProberInv(p) /\ pc \in [Probers -> Places] /\ at \in [Probers -> Nat]
  BY DEF IInv, Links2, ProbeType
<1>1. /\ pc[p] = "idle" /\ pc' = [pc EXCEPT ![p] = "prepare"]
      /\ UNCHANGED <<mode, table, subscribed, rows, wal, at, deferred, verdict, abandoned, failures>>
  BY DEF Start, Goto, servers
<1>2. Grows
  BY <1>1 DEF Grows
<1>3. Links2' /\ (\A id \in LegIds : Alike(id)) /\ Legs' = Legs /\ LegIds' = LegIds
  BY <1>0, <1>1, <1>2, StillLinks
<1>4. at[p] = 1 /\ at' = [at EXCEPT ![p] = 1] /\ 1 \in 1 .. Len(Preparation)
  BY <1>0, <1>1 DEF ProbeType, Preparation
<1>5. /\ ProbeType' /\ pc'[p] = "prepare" /\ at'[p] = 1
      /\ \A q \in Probers \ {p} : pc'[q] = pc[q] /\ at'[q] = at[q]
  <2>1. "prepare" \in Places /\ "prepare" \notin Main \cup Over
    BY DEF Places, Main, Over
  <2>2. /\ table' \subseteq Nodes /\ subscribed' \subseteq Both
        /\ rows' \in [Nodes -> SUBSET Ids] /\ wal' \in [Links -> Seq(Event)]
        /\ deferred' \in [Probers -> Seq(Ids)]
        /\ verdict' \in [Probers -> {"none", "PASS", "FAIL"}]
        /\ abandoned' \subseteq Ids /\ failures' \in 0 .. MaxFailures
    BY <1>0, <1>1 DEF ProbeType
  <2> QED
    BY <1>0, <1>1, <1>4, <2>1, <2>2, TypeAfter
<1>6. verdict'[p] # "PASS"
  BY <1>0, <1>1 DEF ProberInv, Done, Over
<1>7. Busy(p)' /\ Done(p)'
  <2>1. mode \in BothModes /\ mode' = mode
    BY <1>0, <1>1 DEF ProbeType
  <2> QED
    BY <1>5, <1>6, <2>1, NothingDone
<1>8. Unused(p)'
  <2>1. ASSUME NEW id \in LegIds, id[1] = p PROVE Nowhere(id)'
    <3>1. Nowhere(id)
      BY <1>0, <1>1, <2>1 DEF ProberInv, Unused, Fresh
    <3> QED
      BY <1>1, <3>1 DEF Nowhere, Pending
  <2> QED
    BY <1>3, <2>1 DEF Unused
<1>9. Cleans(p)'
  <2>1. pc'[p] # "done"
    BY <1>5
  <2>2. \A id : Source(id)' = Source(id)
    BY <1>3 DEF Source
  <2> QED
    BY <1>0, <1>1, <1>3, <2>1, <2>2 DEF ProberInv, Cleans
<1>10. Ready(p)'
  BY <1>5, NearlyReady
<1> QED
  BY <1>0, <1>1, <1>2, <1>3, <1>5, <1>7, <1>8, <1>9, <1>10, StepOf DEF ProberInv

LEMMA PrepareEffect ==
  ASSUME ProbeType, NEW k \in 1 .. Len(Preparation), Prepare(Preparation[k]),
         UNCHANGED mode, abandoned \subseteq abandoned'
  PROVE  /\ rows' = rows /\ wal' = wal /\ Grows
         /\ table' \subseteq Nodes /\ subscribed' \subseteq Both
<1>1. Preparation[k].node \in Nodes
      /\ (Preparation[k].do # "ensure" => Preparation[k].node \in Both)
  <2>1. CASE mode = "master-slave"
    <3>1. Preparation = <<[do |-> "ensure", node |-> Primary]>> /\ k = 1
      BY <2>1 DEF Preparation
    <3> QED
      BY <3>1 DEF Nodes
  <2>2. CASE mode # "master-slave"
    <3>1. /\ Preparation = <<[do |-> "ensure", node |-> NodeA], [do |-> "ensure", node |-> NodeB],
                             [do |-> "refresh", node |-> NodeA], [do |-> "refresh", node |-> NodeB]>>
          /\ k \in {1, 2, 3, 4}
      BY <2>2 DEF Preparation
    <3> QED
      BY <3>1 DEF Nodes, Both
  <2> QED
    BY <2>1, <2>2
<1>2. CASE Preparation[k].do = "ensure"
  BY <1>1, <1>2 DEF Prepare, EnsureTable, Grows, ProbeType
<1>3. CASE Preparation[k].do # "ensure"
  BY <1>1, <1>3 DEF Prepare, RefreshSubscription, Grows, ProbeType
<1> QED
  BY <1>2, <1>3

(* In two masters, the four steps of the preparation one by one.           *)
LEMMA PrepareReady ==
  ASSUME ProbeType, NEW p \in Probers, Ready(p), PrepareStep(p)
  PROVE  Ready(p)'
<1> SUFFICES ASSUME mode = "master-master" PROVE Ready(p)'
  BY DEF Ready, PrepareStep
<1>1. /\ pc[p] = "prepare" /\ Prepare(Preparation[at[p]])
      /\ IF at[p] < Len(Preparation)
         THEN at' = [at EXCEPT ![p] = @ + 1] /\ pc' = pc
         ELSE at' = [at EXCEPT ![p] = 1] /\ pc' = [pc EXCEPT ![p] = "insert"]
  BY DEF PrepareStep, Goto
<1>2. Preparation = <<[do |-> "ensure", node |-> NodeA], [do |-> "ensure", node |-> NodeB],
                      [do |-> "refresh", node |-> NodeA], [do |-> "refresh", node |-> NodeB]>>
  BY DEF Preparation
<1>3. Len(Preparation) = 4 /\ at[p] \in {1, 2, 3, 4}
  BY <1>1, <1>2 DEF ProbeType
<1>4. NodeA # NodeB /\ Peer(NodeA) = NodeB /\ Peer(NodeB) = NodeA
  BY NodesAssumption DEF Peer
<1>5. table \subseteq table' /\ subscribed \subseteq subscribed'
  <2>1. at[p] \in 1 .. Len(Preparation) /\ UNCHANGED mode /\ abandoned' = abandoned
    BY <1>3 DEF PrepareStep
  <2> QED
    BY <1>1, <2>1, PrepareEffect DEF Grows
<1>6. CASE at[p] = 1
  <2>1. NodeA \in table'
    BY <1>1, <1>2, <1>6 DEF Prepare, EnsureTable
  <2>2. pc'[p] = "prepare" /\ at'[p] = 2
    BY <1>1, <1>3, <1>6 DEF ProbeType
  <2> QED
    BY <2>1, <2>2, NearlyReady
<1>7. CASE at[p] = 2
  <2>1. NodeA \in table' /\ NodeB \in table'
    BY <1>1, <1>2, <1>5, <1>7 DEF Prepare, EnsureTable, Ready
  <2>2. pc'[p] = "prepare" /\ at'[p] = 3
    BY <1>1, <1>3, <1>7 DEF ProbeType
  <2> QED
    BY <2>1, <2>2, NearlyReady
<1>8. CASE at[p] = 3
  <2>1. NodeA \in table /\ NodeB \in table
    BY <1>1, <1>8 DEF Ready
  <2>2. NodeA \in subscribed'
    BY <1>1, <1>2, <1>4, <1>8, <2>1 DEF Prepare, RefreshSubscription
  <2>3. pc'[p] = "prepare" /\ at'[p] = 4
    BY <1>1, <1>3, <1>8 DEF ProbeType
  <2> QED
    BY <1>5, <2>1, <2>2, <2>3 DEF Ready, Main
<1>9. CASE at[p] = 4
  <2>1. NodeA \in table /\ NodeA \in subscribed
    BY <1>1, <1>9 DEF Ready
  <2>2. NodeB \in subscribed'
    BY <1>1, <1>2, <1>4, <1>9, <2>1 DEF Prepare, RefreshSubscription
  <2>3. pc'[p] = "insert"
    BY <1>1, <1>3, <1>9 DEF ProbeType
  <2> QED
    BY <1>5, <2>1, <2>2, <2>3 DEF Ready, Main, Both
<1> QED
  BY <1>3, <1>6, <1>7, <1>8, <1>9

LEMMA StepPrepare ==
  ASSUME IInv, NEW p \in Probers, PrepareStep(p)
  PROVE  IInv'
<1>0. ProbeType /\ Links2 /\ ProberInv(p) /\ pc \in [Probers -> Places] /\ at \in [Probers -> Nat]
  BY DEF IInv, Links2, ProbeType
<1>1. /\ pc[p] = "prepare" /\ Prepare(Preparation[at[p]])
      /\ UNCHANGED <<mode, deferred, verdict, abandoned, failures>>
      /\ IF at[p] < Len(Preparation)
         THEN at' = [at EXCEPT ![p] = @ + 1] /\ pc' = pc
         ELSE at' = [at EXCEPT ![p] = 1] /\ pc' = [pc EXCEPT ![p] = "insert"]
  BY DEF PrepareStep, Goto
<1>2. at[p] \in 1 .. Len(Preparation) /\ at[p] \in Nat
  BY <1>0, <1>1 DEF ProbeType
<1>3. /\ rows' = rows /\ wal' = wal /\ Grows
      /\ table' \subseteq Nodes /\ subscribed' \subseteq Both
  BY <1>0, <1>1, <1>2, PrepareEffect
<1>4. Links2' /\ (\A id \in LegIds : Alike(id)) /\ Legs' = Legs /\ LegIds' = LegIds
  BY <1>0, <1>3, StillLinks
<1>5. /\ ProbeType'
      /\ \/ pc'[p] = "prepare"
         \/ pc'[p] = "insert" /\ at'[p] = 1
      /\ \A q \in Probers \ {p} : pc'[q] = pc[q] /\ at'[q] = at[q]
  <2>1. /\ rows' \in [Nodes -> SUBSET Ids] /\ wal' \in [Links -> Seq(Event)]
        /\ deferred' \in [Probers -> Seq(Ids)]
        /\ verdict' \in [Probers -> {"none", "PASS", "FAIL"}]
        /\ abandoned' \subseteq Ids /\ failures' \in 0 .. MaxFailures
    BY <1>0, <1>1, <1>3 DEF ProbeType
  <2>2. CASE at[p] < Len(Preparation)
    <3>1. /\ "prepare" \in Places /\ "prepare" \notin Main \cup Over
          /\ pc' = [pc EXCEPT ![p] = "prepare"]
      BY <1>0, <1>1, <2>2 DEF Places, Main, Over
    <3>2. /\ at' = [at EXCEPT ![p] = at[p] + 1]
          /\ at[p] + 1 \in Nat /\ at[p] + 1 \in 1 .. Len(Preparation)
      <4>1. Len(Preparation) \in Nat
        BY DEF Preparation
      <4> QED
        BY <1>1, <1>2, <2>2, <4>1
    <3> QED
      BY <1>0, <1>1, <1>3, <2>1, <3>1, <3>2, TypeAfter
  <2>3. CASE ~(at[p] < Len(Preparation))
    <3>1. "insert" \in Places /\ "insert" \in Main /\ "insert" \notin Over
      BY DEF Places, Main, Over
    <3>2. /\ at' = [at EXCEPT ![p] = 1] /\ pc' = [pc EXCEPT ![p] = "insert"]
      BY <1>1, <2>3
    <3>3. 1 \in 1 .. Len(Legs)
      BY <1>0, LinkFacts DEF ProbeType
    <3> QED
      BY <1>0, <1>1, <1>3, <2>1, <3>1, <3>2, <3>3, TypeAfter
  <2> QED
    BY <2>2, <2>3
<1>6. verdict'[p] # "PASS"
  BY <1>0, <1>1 DEF ProberInv, Done, Over
<1>7. Busy(p)' /\ Done(p)'
  <2>1. mode \in BothModes /\ mode' = mode
    BY <1>0, <1>1 DEF ProbeType
  <2> QED
    BY <1>5, <1>6, <2>1, NothingDone
<1>8. Unused(p)'
  <2>1. ASSUME NEW id \in LegIds, id[1] = p PROVE Nowhere(id)'
    <3>1. Nowhere(id)
      BY <1>0, <1>1, <2>1 DEF ProberInv, Unused, Fresh
    <3> QED
      BY <1>3, <3>1 DEF Nowhere, Pending
  <2> QED
    BY <1>4, <2>1 DEF Unused
<1>9. Cleans(p)'
  <2>1. pc'[p] # "done"
    BY <1>5
  <2>2. \A id : Source(id)' = Source(id)
    BY <1>4 DEF Source
  <2> QED
    BY <1>0, <1>1, <1>3, <1>4, <2>1, <2>2 DEF ProberInv, Cleans
<1>10. Ready(p)'
  BY <1>0, PrepareReady DEF ProberInv
<1> QED
  BY <1>0, <1>1, <1>3, <1>4, <1>5, <1>7, <1>8, <1>9, <1>10, StepOf DEF ProberInv

-----------------------------------------------------------------------------
(* What a step of p has to show, its rows apart.                           *)

LEMMA Base ==
  ASSUME IInv, NEW p \in Probers
  PROVE  /\ ProbeType /\ Links2 /\ ProberInv(p) /\ mode \in BothModes
         /\ pc \in [Probers -> Places] /\ at \in [Probers -> Nat] /\ at[p] \in Nat
         /\ rows \in [Nodes -> SUBSET Ids] /\ wal \in [Links -> Seq(Event)]
         /\ deferred \in [Probers -> Seq(Ids)] /\ deferred[p] \in Seq(Ids)
         /\ verdict \in [Probers -> {"none", "PASS", "FAIL"}]
         /\ table \subseteq Nodes /\ subscribed \subseteq Both
         /\ abandoned \subseteq Ids /\ failures \in 0 .. MaxFailures
  BY DEF IInv, Links2, ProbeType

LEMMA StepKeeps ==
  ASSUME IInv, NEW p \in Probers, ProbeType', Links2', Grows,
         \A q \in Probers \ {p} : /\ pc'[q] = pc[q] /\ at'[q] = at[q]
                                 /\ verdict'[q] = verdict[q] /\ deferred'[q] = deferred[q],
         \A id \in LegIds : id[1] # p => Alike(id),
         Ready(p)', Busy(p)',
         \A id \in LegIds : id[1] = p /\ Fresh(id)' => Fresh(id) /\ Alike(id),
         \A id \in LegIds :
            id[1] = p /\ ((pc'[p] \in Main /\ id[2] < at'[p]) \/ verdict'[p] = "PASS")
               => Settled(id)' \/ (Settled(id) /\ Alike(id)),
         verdict'[p] = "PASS" => pc'[p] \in Over,
         Cleans(p)'
  PROVE  IInv'
<1>1. mode \in BothModes /\ LegIds' = LegIds /\ Legs' = Legs /\ ProberInv(p)
  BY DEF IInv, ProbeType, Grows, LegIds, Legs
<1>2. ASSUME NEW id \in LegIds, id[1] = p, Fresh(id)' PROVE Nowhere(id)'
  <2>1. Fresh(id) /\ Alike(id)
    BY <1>2
  <2>2. Nowhere(id)
    BY <1>1, <1>2, <2>1 DEF ProberInv, Unused
  <2> QED
    BY <2>1, <2>2 DEF Nowhere, Alike
<1>3. Unused(p)'
  BY <1>1, <1>2 DEF Unused
<1>4. ASSUME NEW id \in LegIds, Settled(id), Alike(id) PROVE Settled(id)'
  <2>1. Legs[id[2]] \in Links /\ Legs[id[2]].from \in Nodes /\ Legs[id[2]].to \in Nodes
    BY <1>1, <1>4, AlikeKeeps
  <2> QED
    BY <1>1, <1>4, <2>1 DEF Settled, Alike
<1>5. Done(p)'
  BY <1>1, <1>4 DEF Done
<1>6. ProberInv(p)'
  BY <1>3, <1>5 DEF ProberInv
<1> QED
  BY <1>6, StepOf

LEMMA CleansKeeps ==
  ASSUME mode \in BothModes, NEW p, Cleans(p), Grows, deferred'[p] = deferred[p],
         \A n \in Nodes : rows'[n] \subseteq rows[n],
         pc'[p] = "done" => deferred[p] = <<>>
  PROVE  Cleans(p)'
<1>1. LegIds' = LegIds /\ \A id : Source(id)' = Source(id)
  BY DEF LegIds, Source, Legs, Grows
<1>2. \A id \in LegIds : Source(id) \in Nodes
  BY IdFacts
<1> QED
  BY <1>1, <1>2 DEF Cleans, Grows

(* A probe on its way out has nothing more to show of its leg.             *)
LEMMA EndsUp ==
  ASSUME NEW p, pc'[p] \in Over
  PROVE  /\ Ready(p)' /\ Busy(p)' /\ pc'[p] \notin Main
         /\ \A id : id[1] = p => ~Fresh(id)'
<1>1. pc'[p] \notin Main /\ pc'[p] \notin {"idle", "prepare"}
  BY DEF Over, Main
<1>2. Ready(p)'
  BY <1>1 DEF Ready
<1>3. Busy(p)'
  BY <1>1 DEF Busy, Main
<1>4. ASSUME NEW id, id[1] = p PROVE ~Fresh(id)'
  <2>1. pc'[id[1]] \notin Main /\ pc'[id[1]] \notin {"idle", "prepare"} /\ "insert" \in Main
    BY <1>1, <1>4 DEF Main
  <2> QED
    BY <2>1 DEF Fresh
<1> QED
  BY <1>1, <1>2, <1>3, <1>4

(* A step from one place of a leg to the next, or to the end.              *)
LEMMA MoveType ==
  ASSUME IInv, NEW p \in Probers, pc[p] \notin {"idle"}, NEW x \in Places,
         mode' = mode, at' = at, pc' = [pc EXCEPT ![p] = x],
         (pc[p] \in Main /\ x \in Main) \/ x \in Over,
         table' \subseteq Nodes, subscribed' \subseteq Both,
         rows' \in [Nodes -> SUBSET Ids], wal' \in [Links -> Seq(Event)],
         deferred' \in [Probers -> Seq(Ids)],
         verdict' \in [Probers -> {"none", "PASS", "FAIL"}],
         abandoned' \subseteq Ids, failures' \in 0 .. MaxFailures
  PROVE  /\ ProbeType' /\ pc'[p] = x /\ at'[p] = at[p]
         /\ \A q \in Probers \ {p} : pc'[q] = pc[q] /\ at'[q] = at[q]
<1>1. ProbeType /\ at \in [Probers -> Nat] /\ at[p] \in Nat /\ pc[p] \in Places
  BY Base
<1>2. at' = [at EXCEPT ![p] = at[p]]
  BY <1>1
<1>3. /\ x \notin {"idle", "prepare"}
      /\ x \in Main => pc[p] \in Main
      /\ pc[p] \in {"prepare"} \cup Main \cup Over
  BY <1>1 DEF Main, Over, Places
<1>4. /\ x \in Main => at[p] \in 1 .. Len(Legs)
      /\ at[p] \in 1 .. Len(Legs) \/ at[p] \in 1 .. Len(Preparation)
  BY <1>1, <1>3 DEF ProbeType
<1> QED
  BY <1>1, <1>2, <1>3, <1>4, TypeAfter

-----------------------------------------------------------------------------
(* The steps of a leg.                                                     *)

LEMMA StepSeeRow ==
  ASSUME IInv, NEW p \in Probers, SeeRow(p)
  PROVE  IInv'
<1>0. ProbeType /\ Links2 /\ ProberInv(p) /\ mode \in BothModes
  BY Base
<1>1. /\ pc[p] = "await row" /\ Row(p) \in rows[Leg(p).to]
      /\ pc' = [pc EXCEPT ![p] = "delete"]
      /\ UNCHANGED <<mode, table, subscribed, rows, wal, at, deferred, verdict, abandoned, failures>>
  BY DEF SeeRow, Shows, Goto, servers
<1>2. Grows
  BY <1>1 DEF Grows
<1>3. Links2' /\ (\A id \in LegIds : Alike(id)) /\ Legs' = Legs /\ LegIds' = LegIds
  BY <1>0, <1>1, <1>2, StillLinks
<1>4. /\ ProbeType' /\ pc'[p] = "delete" /\ at'[p] = at[p]
      /\ \A q \in Probers \ {p} : pc'[q] = pc[q] /\ at'[q] = at[q]
  <2>1. "delete" \in Places /\ "delete" \in Main /\ "await row" \in Main
    BY DEF Places, Main
  <2>2. /\ table' \subseteq Nodes /\ subscribed' \subseteq Both
        /\ rows' \in [Nodes -> SUBSET Ids] /\ wal' \in [Links -> Seq(Event)]
        /\ deferred' \in [Probers -> Seq(Ids)]
        /\ verdict' \in [Probers -> {"none", "PASS", "FAIL"}]
        /\ abandoned' \subseteq Ids /\ failures' \in 0 .. MaxFailures
    BY <1>1, Base
  <2>3. pc[p] \notin {"idle"}
    BY <1>1
  <2> QED
    BY <1>1, <2>1, <2>2, <2>3, MoveType
<1>5. Ready(p)'
  BY <1>0, <1>1, <1>4 DEF ProberInv, Ready, Main
<1>6. Busy(p)'
  <2>1. Row(p)' = Row(p) /\ Leg(p)' = Leg(p)
    BY <1>3, <1>4 DEF Row, Leg
  <2> QED
    BY <1>0, <1>1, <1>4, <2>1 DEF ProberInv, Busy
<1>7. ASSUME NEW id \in LegIds, id[1] = p, Fresh(id)' PROVE Fresh(id)
  BY <1>1, <1>4, <1>7 DEF Fresh, Main
<1>8. /\ \A id \in LegIds :
            id[1] = p /\ ((pc'[p] \in Main /\ id[2] < at'[p]) \/ verdict'[p] = "PASS") => Settled(id)
      /\ verdict'[p] # "PASS"
  BY <1>0, <1>1, <1>4 DEF ProberInv, Done, Main, Over
<1>9. Cleans(p)'
  <2>1. \A n \in Nodes : rows'[n] \subseteq rows[n]
    BY <1>1
  <2> QED
    BY <1>0, <1>1, <1>2, <1>4, <2>1, CleansKeeps DEF ProberInv
<1> QED
  BY <1>1, <1>2, <1>3, <1>4, <1>5, <1>6, <1>7, <1>8, <1>9, StepKeeps

LEMMA StepInsert ==
  ASSUME IInv, NEW p \in Probers, Insert(p)
  PROVE  IInv'
<1> DEFINE r == Row(p)
<1>0. ProbeType /\ Links2 /\ ProberInv(p) /\ mode \in BothModes
  BY Base
<1>1. /\ pc[p] = "insert" /\ InsertRow(Leg(p).from, r)
      /\ deferred' = [deferred EXCEPT ![p] = Append(@, r)]
      /\ pc' = [pc EXCEPT ![p] = "await row"]
      /\ UNCHANGED <<mode, table, subscribed, at, verdict, abandoned, failures>>
  BY DEF Insert, Deferred, Goto
<1>2. /\ r \in LegIds /\ r[1] = p /\ r[2] = at[p] /\ r \in Ids
      /\ Leg(p) \in Links /\ Leg(p).from = Source(r) /\ at[p] \in Nat
  BY <1>0, <1>1, RowFacts DEF Main, LegIds
<1>3. Grows /\ Legs' = Legs /\ LegIds' = LegIds
  BY <1>1 DEF Grows, Legs, LegIds
<1>4. Nowhere(r)
  <2>1. at[p] >= at[p]
    BY <1>2
  <2> HIDE DEF r
  <2>2. Fresh(r)
    BY <1>1, <1>2, <2>1 DEF Fresh
  <2> QED
    BY <1>0, <1>2, <2>2 DEF ProberInv, Unused
<1>5. /\ rows' \in [Nodes -> SUBSET Ids] /\ wal' \in [Links -> Seq(Event)] /\ Links2'
      /\ \A n \in Nodes : rows'[n] = rows[n] \cup (IF n = Source(r) THEN {r} ELSE {})
      /\ \A l \in Links : Range(wal'[l]) =
            Range(wal[l]) \cup (IF l.from = Source(r) THEN {Inserted(r)} ELSE {})
  BY <1>0, <1>1, <1>2, <1>4, InsertEffect
<1> HIDE DEF r
<1>6. ASSUME NEW id, id # r PROVE Alike(id)
  <2>1. \A n \in Nodes : id \in rows'[n] <=> id \in rows[n]
    BY <1>5, <1>6
  <2>2. Inserted(id) # Inserted(r) /\ Deleted(id) # Inserted(r)
    BY <1>6, EventsDiffer
  <2> QED
    BY <1>5, <2>1, <2>2 DEF Alike, Pending
<1>7. deferred' \in [Probers -> Seq(Ids)] /\ Range(deferred'[p]) = Range(deferred[p]) \cup {r}
  <2>1. deferred \in [Probers -> Seq(Ids)] /\ deferred[p] \in Seq(Ids)
    BY Base
  <2>2. /\ Append(deferred[p], r) \in Seq(Ids)
        /\ Range(Append(deferred[p], r)) = Range(deferred[p]) \cup {r}
    BY <1>2, <2>1, RangeOfAppend
  <2> QED
    BY <1>1, <2>1, <2>2
<1>8. /\ ProbeType' /\ pc'[p] = "await row" /\ at'[p] = at[p]
      /\ \A q \in Probers \ {p} : pc'[q] = pc[q] /\ at'[q] = at[q]
  <2>1. "await row" \in Places /\ "await row" \in Main /\ "insert" \in Main
    BY DEF Places, Main
  <2>2. /\ table' \subseteq Nodes /\ subscribed' \subseteq Both
        /\ verdict' \in [Probers -> {"none", "PASS", "FAIL"}]
        /\ abandoned' \subseteq Ids /\ failures' \in 0 .. MaxFailures
    BY <1>1, Base
  <2>3. pc[p] \notin {"idle"}
    BY <1>1
  <2> QED
    BY <1>1, <1>5, <1>7, <2>1, <2>2, <2>3, MoveType
<1>9. Ready(p)'
  BY <1>0, <1>1, <1>8 DEF ProberInv, Ready, Main
<1>10. Busy(p)'
  <2>1. Row(p)' = r /\ Leg(p)' = Leg(p)
    BY <1>3, <1>8 DEF Row, Leg, r
  <2>2. r \in rows'[Leg(p).from]
    BY <1>2, <1>5, LinkFacts
  <2>3. Inserted(r) \in Range(wal'[Leg(p)])
    BY <1>2, <1>5
  <2> QED
    BY <1>8, <2>1, <2>2, <2>3 DEF Busy, Pending, Inserted
<1>11. ASSUME NEW id \in LegIds, id[1] = p, Fresh(id)' PROVE Fresh(id) /\ id # r
  <2>1. id[2] > at[p]
    BY <1>8, <1>11 DEF Fresh
  <2>2. id # r
    BY <1>2, <2>1
  <2> QED
    BY <1>1, <1>11, <2>1, <2>2 DEF Fresh, Main
<1>12. /\ \A id \in LegIds :
             id[1] = p /\ ((pc'[p] \in Main /\ id[2] < at'[p]) \/ verdict'[p] = "PASS")
                => Settled(id) /\ id # r
       /\ verdict'[p] # "PASS"
  <2>1. verdict'[p] = verdict[p] /\ verdict[p] # "PASS"
    BY <1>0, <1>1 DEF ProberInv, Done, Over
  <2>2. ~(at[p] < at[p])
    BY <1>2
  <2> QED
    BY <1>0, <1>1, <1>2, <1>8, <2>1, <2>2 DEF ProberInv, Done, Main
<1>13. Cleans(p)'
  <2>1. \A id \in LegIds : Source(id)' = Source(id) /\ Source(id) \in Nodes
    BY <1>0, <1>3, IdFacts DEF Source
  <2>2. ASSUME NEW id \in LegIds, id[1] = p, id \in rows'[Source(id)'], id \notin abandoned'
        PROVE  id \in Range(deferred'[p])
    <3>1. CASE id = r
      BY <1>7, <3>1
    <3>2. CASE id # r
      <4>1. id \in rows[Source(id)] /\ id \notin abandoned
        BY <1>1, <1>5, <2>1, <2>2, <3>2
      <4> QED
        BY <1>0, <1>7, <2>2, <4>1 DEF ProberInv, Cleans
    <3> QED
      BY <3>1, <3>2
  <2>3. \A id \in Range(deferred'[p]) : id \in LegIds /\ id[1] = p
    BY <1>0, <1>2, <1>7 DEF ProberInv, Cleans
  <2>4. pc'[p] # "done"
    BY <1>8
  <2> QED
    BY <1>3, <2>2, <2>3, <2>4 DEF Cleans
<1>14. \A id \in LegIds : id[1] # p => Alike(id)
  BY <1>2, <1>6
<1>15. \A q \in Probers \ {p} : verdict'[q] = verdict[q] /\ deferred'[q] = deferred[q]
  BY <1>1, Base
<1> QED
  BY <1>3, <1>5, <1>6, <1>8, <1>9, <1>10, <1>11, <1>12, <1>13, <1>14, <1>15, StepKeeps

LEMMA StepDelete ==
  ASSUME IInv, NEW p \in Probers, Delete(p)
  PROVE  IInv'
<1> DEFINE r == Row(p)
<1>0. ProbeType /\ Links2 /\ ProberInv(p) /\ mode \in BothModes
  BY Base
<1>1. /\ pc[p] = "delete" /\ DeleteRow(Leg(p).from, r)
      /\ pc' = [pc EXCEPT ![p] = "await deletion"]
      /\ UNCHANGED <<mode, table, subscribed, at, deferred, verdict, abandoned, failures>>
  BY DEF Delete, Goto
<1>2. /\ r \in LegIds /\ r[1] = p /\ r[2] = at[p] /\ r \in Ids
      /\ Leg(p) \in Links /\ Leg(p).from = Source(r) /\ at[p] \in Nat
  BY <1>0, <1>1, RowFacts DEF Main, LegIds
<1>3. Grows /\ Legs' = Legs /\ LegIds' = LegIds
  BY <1>1 DEF Grows, Legs, LegIds
<1>4. r \in rows[Leg(p).from] /\ r \in rows[Leg(p).to]
  BY <1>0, <1>1 DEF ProberInv, Busy
<1>5. /\ rows' \in [Nodes -> SUBSET Ids] /\ wal' \in [Links -> Seq(Event)] /\ Links2'
      /\ \A n \in Nodes : rows'[n] = rows[n] \ (IF n = Source(r) THEN {r} ELSE {})
      /\ \A l \in Links : Range(wal'[l]) =
            Range(wal[l]) \cup (IF l.from = Source(r) /\ r \in rows[Source(r)]
                               THEN {Deleted(r)} ELSE {})
  BY <1>0, <1>1, <1>2, DeleteEffect
<1>6. ~Pending(Leg(p), Inserted(r))
  BY <1>0, <1>2, <1>4 DEF Links2, RowInv, RowOnLink
<1> HIDE DEF r
<1>7. ASSUME NEW id, id # r PROVE Alike(id)
  BY <1>5, <1>7, EventsDiffer DEF Alike, Pending
<1>8. /\ ProbeType' /\ pc'[p] = "await deletion" /\ at'[p] = at[p]
      /\ \A q \in Probers \ {p} : pc'[q] = pc[q] /\ at'[q] = at[q]
  <2>1. "await deletion" \in Places /\ "await deletion" \in Main /\ "delete" \in Main
    BY DEF Places, Main
  <2>2. /\ table' \subseteq Nodes /\ subscribed' \subseteq Both
        /\ deferred' \in [Probers -> Seq(Ids)]
        /\ verdict' \in [Probers -> {"none", "PASS", "FAIL"}]
        /\ abandoned' \subseteq Ids /\ failures' \in 0 .. MaxFailures
    BY <1>1, Base
  <2>3. pc[p] \notin {"idle"}
    BY <1>1
  <2> QED
    BY <1>1, <1>5, <2>1, <2>2, <2>3, MoveType
<1>9. Ready(p)'
  BY <1>0, <1>1, <1>8 DEF ProberInv, Ready, Main
<1>10. Busy(p)'
  <2>1. Row(p)' = r /\ Leg(p)' = Leg(p)
    BY <1>3, <1>8 DEF Row, Leg, r
  <2>2. /\ Leg(p).from \in Nodes /\ Leg(p).to \in Nodes /\ Leg(p).from # Leg(p).to
    BY <1>2, LinkFacts
  <2>3. r \notin rows'[Leg(p).from] /\ r \in rows'[Leg(p).to]
    BY <1>2, <1>4, <1>5, <2>2
  <2>4. Inserted(r) \notin Range(wal'[Leg(p)]) /\ Deleted(r) \in Range(wal'[Leg(p)])
    BY <1>2, <1>4, <1>5, <1>6, EventsDiffer DEF Pending
  <2> QED
    BY <1>8, <2>1, <2>3, <2>4 DEF Busy, Pending, Inserted, Deleted
<1>11. ASSUME NEW id \in LegIds, id[1] = p, Fresh(id)' PROVE Fresh(id) /\ id # r
  <2>1. id[2] > at[p]
    BY <1>8, <1>11 DEF Fresh
  <2>2. id # r
    BY <1>2, <2>1
  <2> QED
    BY <1>1, <1>11, <2>1, <2>2 DEF Fresh, Main
<1>12. /\ \A id \in LegIds :
             id[1] = p /\ ((pc'[p] \in Main /\ id[2] < at'[p]) \/ verdict'[p] = "PASS")
                => Settled(id) /\ id # r
       /\ verdict'[p] # "PASS"
  <2>1. verdict'[p] = verdict[p] /\ verdict[p] # "PASS"
    BY <1>0, <1>1 DEF ProberInv, Done, Over
  <2>2. ~(at[p] < at[p])
    BY <1>2
  <2> QED
    BY <1>0, <1>1, <1>2, <1>8, <2>1, <2>2 DEF ProberInv, Done, Main
<1>13. Cleans(p)'
  <2>1. \A n \in Nodes : rows'[n] \subseteq rows[n]
    BY <1>5
  <2> QED
    BY <1>0, <1>1, <1>3, <1>8, <2>1, CleansKeeps DEF ProberInv
<1>14. \A id \in LegIds : id[1] # p => Alike(id)
  BY <1>2, <1>7
<1>15. \A q \in Probers \ {p} : verdict'[q] = verdict[q] /\ deferred'[q] = deferred[q]
  BY <1>1
<1> QED
  BY <1>3, <1>5, <1>7, <1>8, <1>9, <1>10, <1>11, <1>12, <1>13, <1>14, <1>15, StepKeeps

LEMMA StepSeeDeletion ==
  ASSUME IInv, NEW p \in Probers, SeeDeletion(p)
  PROVE  IInv'
<1>0. /\ ProbeType /\ Links2 /\ ProberInv(p) /\ mode \in BothModes
      /\ verdict \in [Probers -> {"none", "PASS", "FAIL"}] /\ at \in [Probers -> Nat]
  BY Base
<1>1. /\ pc[p] = "await deletion" /\ Row(p) \notin rows[Leg(p).to]
      /\ UNCHANGED <<mode, table, subscribed, rows, wal, deferred, abandoned, failures>>
      /\ \/ /\ at[p] # Len(Legs)
            /\ at' = [at EXCEPT ![p] = @ + 1]
            /\ pc' = [pc EXCEPT ![p] = "insert"]
            /\ verdict' = verdict
         \/ /\ at[p] = Len(Legs)
            /\ verdict' = [verdict EXCEPT ![p] = "PASS"]
            /\ pc' = [pc EXCEPT ![p] = "clean up"]
            /\ at' = at
  BY DEF SeeDeletion, Vanished, LastLeg, Shows, Goto, servers
<1>2. Grows
  BY <1>1 DEF Grows
<1>3. Links2' /\ (\A id \in LegIds : Alike(id)) /\ Legs' = Legs /\ LegIds' = LegIds
  BY <1>0, <1>1, <1>2, StillLinks
<1>4. /\ Row(p) \in LegIds /\ Row(p)[1] = p /\ Row(p)[2] = at[p] /\ Row(p) = <<p, at[p]>>
      /\ Leg(p) = Legs[at[p]] /\ at[p] \in Nat /\ at[p] \in 1 .. Len(Legs)
  BY <1>0, <1>1, RowFacts DEF Main, Row, Leg
<1>5. Settled(Row(p))
  BY <1>0, <1>1, <1>4 DEF ProberInv, Busy, Settled
<1>6. \A id \in LegIds : id[1] = p /\ id[2] = at[p] => id = Row(p)
  BY <1>0, <1>4, IdFacts
<1>7. ASSUME NEW id \in LegIds, id[1] = p, id[2] \in Nat, id[2] <= at[p] PROVE Settled(id)
  <2>1. CASE id[2] = at[p]
    BY <1>5, <1>6, <1>7, <2>1
  <2>2. CASE id[2] < at[p]
    BY <1>0, <1>1, <1>7, <2>2 DEF ProberInv, Done, Main
  <2> QED
    BY <1>4, <1>7, <2>1, <2>2
<1>8. \A id \in LegIds : id[2] \in Nat /\ id[2] <= Len(Legs)
  <2>1. DOMAIN Legs = 1 .. Len(Legs) /\ Len(Legs) \in Nat
    BY <1>0, LinkFacts
  <2>2. \A id \in LegIds : id[2] \in 1 .. Len(Legs)
    BY <2>1 DEF LegIds
  <2>3. \A k \in 1 .. Len(Legs) : k \in Nat /\ k <= Len(Legs)
    BY <2>1
  <2> QED
    BY <2>2, <2>3
<1>9. /\ table' \subseteq Nodes /\ subscribed' \subseteq Both
      /\ rows' \in [Nodes -> SUBSET Ids] /\ wal' \in [Links -> Seq(Event)]
      /\ deferred' \in [Probers -> Seq(Ids)]
      /\ verdict' \in [Probers -> {"none", "PASS", "FAIL"}]
      /\ abandoned' \subseteq Ids /\ failures' \in 0 .. MaxFailures
  <2>1. verdict' \in [Probers -> {"none", "PASS", "FAIL"}]
    BY <1>0, <1>1
  <2> QED
    BY <1>1, <2>1, Base
<1>10. \A q \in Probers \ {p} : verdict'[q] = verdict[q] /\ deferred'[q] = deferred[q]
  BY <1>0, <1>1
<1>11. ASSUME pc'[p] \in {"insert", "clean up"} PROVE Cleans(p)'
  <2>1. (\A n \in Nodes : rows'[n] \subseteq rows[n]) /\ pc'[p] # "done"
    BY <1>1, <1>11
  <2> QED
    BY <1>0, <1>1, <1>2, <2>1, CleansKeeps DEF ProberInv
<1>12. CASE /\ at[p] # Len(Legs) /\ at' = [at EXCEPT ![p] = @ + 1]
            /\ pc' = [pc EXCEPT ![p] = "insert"] /\ verdict' = verdict
  <2>1. /\ at[p] + 1 \in Nat /\ at[p] + 1 \in 1 .. Len(Legs)
        /\ at' = [at EXCEPT ![p] = at[p] + 1]
    <3>1. Len(Legs) \in Nat
      BY <1>0, LinkFacts
    <3> QED
      BY <1>4, <1>12, <3>1
  <2>2. "insert" \in Places /\ "insert" \in Main /\ "insert" \notin Over
    BY DEF Places, Main, Over
  <2>3. /\ ProbeType' /\ pc'[p] = "insert" /\ at'[p] = at[p] + 1
        /\ \A q \in Probers \ {p} : pc'[q] = pc[q] /\ at'[q] = at[q]
    BY <1>0, <1>1, <1>9, <1>12, <2>1, <2>2, TypeAfter
  <2>4. Ready(p)'
    BY <1>0, <1>1, <2>3 DEF ProberInv, Ready, Main
  <2>5. Busy(p)'
    BY <2>3 DEF Busy
  <2>6. ASSUME NEW id \in LegIds, id[1] = p, Fresh(id)' PROVE Fresh(id)
    <3>1. id[2] >= at[p] + 1 \/ id[2] > at[p] + 1
      BY <2>3, <2>6 DEF Fresh
    <3>2. id[2] > at[p]
      BY <1>4, <1>8, <3>1
    <3> QED
      BY <1>1, <2>6, <3>2 DEF Fresh, Main
  <2>7. ASSUME NEW id \in LegIds, id[1] = p, id[2] < at'[p] PROVE Settled(id)
    <3>1. id[2] \in Nat /\ id[2] <= at[p]
      BY <1>4, <1>8, <2>3, <2>7
    <3> QED
      BY <1>7, <2>7, <3>1
  <2>8. verdict'[p] # "PASS"
    BY <1>0, <1>1, <1>12 DEF ProberInv, Done, Over
  <2> QED
    BY <1>2, <1>3, <1>10, <1>11, <2>3, <2>4, <2>5, <2>6, <2>7, <2>8, StepKeeps
<1>13. CASE /\ at[p] = Len(Legs) /\ verdict' = [verdict EXCEPT ![p] = "PASS"]
            /\ pc' = [pc EXCEPT ![p] = "clean up"] /\ at' = at
  <2>1. "clean up" \in Places /\ "clean up" \in Over /\ pc[p] \notin {"idle"}
    BY <1>1 DEF Places, Over
  <2>2. /\ ProbeType' /\ pc'[p] = "clean up"
        /\ \A q \in Probers \ {p} : pc'[q] = pc[q] /\ at'[q] = at[q]
    BY <1>1, <1>9, <1>13, <2>1, MoveType
  <2>3. /\ Ready(p)' /\ Busy(p)' /\ pc'[p] \in Over
        /\ \A id : id[1] = p => ~Fresh(id)'
    BY <2>1, <2>2, EndsUp
  <2>4. \A id \in LegIds : id[1] = p => Settled(id)
    BY <1>7, <1>8, <1>13
  <2> QED
    BY <1>2, <1>3, <1>10, <1>11, <2>2, <2>3, <2>4, StepKeeps
<1> QED
  BY <1>1, <1>12, <1>13

-----------------------------------------------------------------------------
(* The ends of a probe.                                                    *)

LEMMA OneMore ==
  ASSUME NEW m \in Nat, NEW k \in 0 .. m, k < m
  PROVE  k + 1 \in 0 .. m
  OBVIOUS

LEMMA NotTheLast ==
  ASSUME NEW m \in Nat, NEW i \in 1 .. m, i # m
  PROVE  i \in 1 .. m - 1
  OBVIOUS

LEMMA EndType ==
  ASSUME IInv, NEW p \in Probers, pc[p] # "idle", NEW x \in Over,
         mode' = mode, pc' = [pc EXCEPT ![p] = x], at' = at,
         table' \subseteq Nodes, subscribed' \subseteq Both,
         rows' \in [Nodes -> SUBSET Ids], wal' \in [Links -> Seq(Event)],
         abandoned' \subseteq Ids, failures' \in 0 .. MaxFailures,
         deferred' \in [Probers -> Seq(Ids)],
         verdict' = verdict \/ verdict' = [verdict EXCEPT ![p] = "FAIL"]
  PROVE  /\ ProbeType' /\ pc'[p] = x
         /\ \A q \in Probers \ {p} : pc'[q] = pc[q] /\ at'[q] = at[q] /\ verdict'[q] = verdict[q]
         /\ verdict'[p] = "PASS" => verdict[p] = "PASS"
<1>0. verdict \in [Probers -> {"none", "PASS", "FAIL"}]
  BY Base
<1>1. /\ verdict' \in [Probers -> {"none", "PASS", "FAIL"}]
      /\ \A q \in Probers \ {p} : verdict'[q] = verdict[q]
      /\ verdict'[p] = "PASS" => verdict[p] = "PASS"
  <2>1. CASE verdict' = verdict
    BY <1>0, <2>1
  <2>2. CASE verdict' = [verdict EXCEPT ![p] = "FAIL"]
    BY <1>0, <2>2
  <2> QED
    BY <2>1, <2>2
<1>2. /\ ProbeType' /\ pc'[p] = x
      /\ \A q \in Probers \ {p} : pc'[q] = pc[q] /\ at'[q] = at[q]
  <2>1. x \in Places /\ pc[p] \notin {"idle"}
    BY DEF Places, Over
  <2> QED
    BY <1>1, <2>1, MoveType
<1> QED
  BY <1>1, <1>2

(* A step to the end that leaves the rows alone.                           *)
LEMMA QuietEnd ==
  ASSUME IInv, NEW p \in Probers, pc[p] # "idle", NEW x \in Over,
         pc' = [pc EXCEPT ![p] = x], at' = at, rows' = rows, wal' = wal, Grows,
         table' \subseteq Nodes, subscribed' \subseteq Both,
         abandoned' \subseteq Ids, failures' \in 0 .. MaxFailures,
         deferred' = deferred, x = "done" => deferred[p] = <<>>,
         verdict' = verdict \/ verdict' = [verdict EXCEPT ![p] = "FAIL"]
  PROVE  IInv'
<1>0. /\ ProbeType /\ Links2 /\ ProberInv(p) /\ mode \in BothModes
      /\ verdict \in [Probers -> {"none", "PASS", "FAIL"}]
  BY Base
<1>1. Links2' /\ (\A id \in LegIds : Alike(id)) /\ Legs' = Legs /\ LegIds' = LegIds
  BY <1>0, StillLinks
<1>2. /\ ProbeType' /\ pc'[p] = x
      /\ \A q \in Probers \ {p} : pc'[q] = pc[q] /\ at'[q] = at[q] /\ verdict'[q] = verdict[q]
      /\ verdict'[p] = "PASS" => verdict[p] = "PASS"
  <2>1. /\ rows' \in [Nodes -> SUBSET Ids] /\ wal' \in [Links -> Seq(Event)]
        /\ deferred' \in [Probers -> Seq(Ids)] /\ mode' = mode
    BY Base DEF Grows
  <2> QED
    BY <2>1, EndType
<1>3. /\ Ready(p)' /\ Busy(p)' /\ pc'[p] \notin Main /\ pc'[p] \in Over
      /\ \A id : id[1] = p => ~Fresh(id)'
  BY <1>2, EndsUp
<1>4. \A id \in LegIds : id[1] = p /\ verdict'[p] = "PASS" => Settled(id)
  BY <1>0, <1>2 DEF ProberInv, Done
<1>5. Cleans(p)'
  <2>1. (\A n \in Nodes : rows'[n] \subseteq rows[n]) /\ (pc'[p] = "done" => deferred[p] = <<>>)
    BY <1>2
  <2> QED
    BY <1>0, <2>1, CleansKeeps DEF ProberInv
<1>6. \A q \in Probers \ {p} : deferred'[q] = deferred[q]
  OBVIOUS
<1> QED
  BY <1>1, <1>2, <1>3, <1>4, <1>5, <1>6, StepKeeps

LEMMA StepDeadline ==
  ASSUME IInv, NEW p \in Probers, Deadline(p)
  PROVE  IInv'
<1>1. /\ pc[p] # "idle" /\ "clean up" \in Over /\ "clean up" # "done"
      /\ pc' = [pc EXCEPT ![p] = "clean up"] /\ verdict' = [verdict EXCEPT ![p] = "FAIL"]
      /\ UNCHANGED <<mode, table, subscribed, rows, wal, at, deferred, abandoned, failures>>
  BY DEF Deadline, Goto, servers, Over
<1>2. /\ Grows /\ table' \subseteq Nodes /\ subscribed' \subseteq Both
      /\ abandoned' \subseteq Ids /\ failures' \in 0 .. MaxFailures
  BY <1>1, Base DEF Grows
<1> QED
  BY <1>1, <1>2, QuietEnd

LEMMA StepEnd ==
  ASSUME IInv, NEW p \in Probers, End(p)
  PROVE  IInv'
<1>1. /\ pc[p] # "idle" /\ "done" \in Over /\ deferred[p] = <<>>
      /\ pc' = [pc EXCEPT ![p] = "done"]
      /\ UNCHANGED <<mode, table, subscribed, rows, wal, at, deferred, verdict, abandoned, failures>>
  BY DEF End, Goto, servers, Over
<1>2. /\ Grows /\ table' \subseteq Nodes /\ subscribed' \subseteq Both
      /\ abandoned' \subseteq Ids /\ failures' \in 0 .. MaxFailures
  BY <1>1, Base DEF Grows
<1> QED
  BY <1>1, <1>2, QuietEnd

LEMMA StepCrash ==
  ASSUME IInv, NEW p \in Probers, Crash(p)
  PROVE  IInv'
<1>1. /\ pc[p] # "idle" /\ "dead" \in Over /\ "dead" # "done"
      /\ pc' = [pc EXCEPT ![p] = "dead"] /\ failures < MaxFailures /\ failures' = failures + 1
      /\ abandoned' = abandoned \cup {id \in Ids : id[1] = p}
      /\ UNCHANGED <<mode, table, subscribed, rows, wal, at, deferred, verdict>>
  BY DEF Crash, Goto, servers, Over
<1>2. failures' \in 0 .. MaxFailures
  BY <1>1, Base, OneMore, NodesAssumption
<1>3. /\ Grows /\ table' \subseteq Nodes /\ subscribed' \subseteq Both
      /\ abandoned' \subseteq Ids
  BY <1>1, Base DEF Grows
<1> QED
  BY <1>1, <1>2, <1>3, QuietEnd

(* A step to the end, or at the end, that may change one row of the probe. *)
LEMMA RowEnd ==
  ASSUME IInv, NEW p \in Probers, ProbeType', Links2', Grows, pc'[p] \in Over,
         \A q \in Probers \ {p} : /\ pc'[q] = pc[q] /\ at'[q] = at[q]
                                 /\ verdict'[q] = verdict[q] /\ deferred'[q] = deferred[q],
         verdict'[p] = "PASS" => verdict[p] = "PASS",
         NEW r \in LegIds, r[1] = p, \A id \in LegIds : id # r => Alike(id),
         verdict'[p] = "PASS" => Alike(r),
         Cleans(p)'
  PROVE  IInv'
<1>1. ProberInv(p)
  BY Base
<1>2. /\ Ready(p)' /\ Busy(p)' /\ pc'[p] \notin Main
      /\ \A id : id[1] = p => ~Fresh(id)'
  BY EndsUp
<1>3. \A id \in LegIds : id[1] = p /\ verdict'[p] = "PASS" => Settled(id) /\ Alike(id)
  <2>1. \A id \in LegIds : id[1] = p /\ verdict'[p] = "PASS" => Settled(id)
    BY <1>1 DEF ProberInv, Done
  <2> QED
    BY <2>1
<1>4. \A id \in LegIds : id[1] # p => Alike(id)
  OBVIOUS
<1> QED
  BY <1>2, <1>3, <1>4, StepKeeps

LEMMA StepCallFails ==
  ASSUME IInv, NEW p \in Probers, CallFails(p)
  PROVE  IInv'
<1> DEFINE r == Row(p)
<1>0. /\ ProbeType /\ Links2 /\ ProberInv(p) /\ mode \in BothModes
      /\ verdict \in [Probers -> {"none", "PASS", "FAIL"}]
  BY Base
<1>1. /\ pc[p] # "idle" /\ "clean up" \in Over /\ "clean up" # "done"
      /\ pc' = [pc EXCEPT ![p] = "clean up"] /\ verdict' = [verdict EXCEPT ![p] = "FAIL"]
      /\ failures < MaxFailures /\ failures' = failures + 1
      /\ UNCHANGED <<mode, at, deferred>>
  BY DEF CallFails, Goto, Over
<1>2. failures' \in 0 .. MaxFailures
  BY <1>1, Base, OneMore, NodesAssumption
<1>3. verdict'[p] # "PASS" /\ pc'[p] # "done"
  BY <1>0, <1>1, Base
<1>4. \/ UNCHANGED <<table, subscribed, rows, wal, abandoned>>
      \/ pc[p] = "prepare" /\ Prepare(Preparation[at[p]]) /\ abandoned' = abandoned
      \/ /\ pc[p] = "insert" /\ InsertRow(Leg(p).from, r)
         /\ abandoned' = abandoned \cup {r} /\ UNCHANGED <<table, subscribed>>
      \/ /\ pc[p] = "delete" /\ DeleteRow(Leg(p).from, r)
         /\ UNCHANGED <<table, subscribed, abandoned>>
  BY DEF CallFails, servers
<1>5. CASE UNCHANGED <<table, subscribed, rows, wal, abandoned>>
  <2>1. /\ Grows /\ table' \subseteq Nodes /\ subscribed' \subseteq Both
        /\ abandoned' \subseteq Ids
    BY <1>1, <1>5, Base DEF Grows
  <2> QED
    BY <1>1, <1>2, <1>5, <2>1, QuietEnd
<1>6. CASE pc[p] = "prepare" /\ Prepare(Preparation[at[p]]) /\ abandoned' = abandoned
  <2>1. at[p] \in 1 .. Len(Preparation)
    BY <1>0, <1>6 DEF ProbeType
  <2>2. /\ rows' = rows /\ wal' = wal /\ Grows
        /\ table' \subseteq Nodes /\ subscribed' \subseteq Both
    BY <1>0, <1>1, <1>6, <2>1, PrepareEffect
  <2>3. abandoned' \subseteq Ids
    BY <1>6, Base
  <2> QED
    BY <1>1, <1>2, <2>2, <2>3, QuietEnd
<1>7. CASE /\ pc[p] = "insert" /\ InsertRow(Leg(p).from, r)
           /\ abandoned' = abandoned \cup {r} /\ UNCHANGED <<table, subscribed>>
  <2>1. /\ r \in LegIds /\ r[1] = p /\ r[2] = at[p] /\ r \in Ids
        /\ Leg(p).from = Source(r) /\ at[p] \in Nat
    BY <1>0, <1>7, RowFacts DEF Main, LegIds
  <2>2. Grows /\ Legs' = Legs /\ LegIds' = LegIds
    BY <1>1, <1>7 DEF Grows, Legs, LegIds
  <2>3. Nowhere(r)
    <3>1. at[p] >= at[p]
      BY <2>1
    <3> HIDE DEF r
    <3>2. Fresh(r)
      BY <1>7, <2>1, <3>1 DEF Fresh
    <3> QED
      BY <1>0, <2>1, <3>2 DEF ProberInv, Unused
  <2>4. /\ rows' \in [Nodes -> SUBSET Ids] /\ wal' \in [Links -> Seq(Event)] /\ Links2'
        /\ \A n \in Nodes : rows'[n] = rows[n] \cup (IF n = Source(r) THEN {r} ELSE {})
        /\ \A l \in Links : Range(wal'[l]) =
              Range(wal[l]) \cup (IF l.from = Source(r) THEN {Inserted(r)} ELSE {})
    BY <1>0, <1>1, <1>7, <2>1, <2>3, InsertEffect
  <2> HIDE DEF r
  <2>5. ASSUME NEW id, id # r PROVE Alike(id)
    <3>1. \A n \in Nodes : id \in rows'[n] <=> id \in rows[n]
      BY <2>4, <2>5
    <3>2. Inserted(id) # Inserted(r) /\ Deleted(id) # Inserted(r)
      BY <2>5, EventsDiffer
    <3> QED
      BY <2>4, <3>1, <3>2 DEF Alike, Pending
  <2>6. Cleans(p)'
    <3>1. \A id \in LegIds : Source(id)' = Source(id) /\ Source(id) \in Nodes
      BY <1>0, <2>2, IdFacts DEF Source
    <3>2. ASSUME NEW id \in LegIds, id[1] = p, id \in rows'[Source(id)'], id \notin abandoned'
          PROVE  id \in Range(deferred[p])
      <4>1. id # r /\ id \notin abandoned
        BY <1>7, <3>2
      <4>2. id \in rows[Source(id)]
        BY <2>4, <3>1, <3>2, <4>1
      <4> QED
        BY <1>0, <3>2, <4>1, <4>2 DEF ProberInv, Cleans
    <3>3. \A id \in Range(deferred[p]) : id \in LegIds /\ id[1] = p
      BY <1>0 DEF ProberInv, Cleans
    <3> QED
      BY <1>1, <1>3, <2>2, <3>2, <3>3 DEF Cleans
  <2>7. /\ table' \subseteq Nodes /\ subscribed' \subseteq Both /\ abandoned' \subseteq Ids
        /\ deferred' \in [Probers -> Seq(Ids)] /\ \A q \in Probers \ {p} : deferred'[q] = deferred[q]
    BY <1>1, <1>7, <2>1, Base
  <2>8. /\ ProbeType' /\ pc'[p] = "clean up"
        /\ \A q \in Probers \ {p} : pc'[q] = pc[q] /\ at'[q] = at[q] /\ verdict'[q] = verdict[q]
    BY <1>1, <1>2, <2>4, <2>7, EndType
  <2>9. /\ pc'[p] \in Over /\ verdict'[p] # "PASS" /\ r \in LegIds /\ r[1] = p
        /\ ProbeType' /\ Links2' /\ Grows
        /\ \A id \in LegIds : id # r => Alike(id)
    BY <1>1, <1>3, <2>1, <2>2, <2>4, <2>5, <2>8
  <2>10. \A q \in Probers \ {p} : /\ pc'[q] = pc[q] /\ at'[q] = at[q]
                                /\ verdict'[q] = verdict[q] /\ deferred'[q] = deferred[q]
    BY <2>7, <2>8
  <2> QED
    BY <2>6, <2>9, <2>10, RowEnd
<1>8. CASE /\ pc[p] = "delete" /\ DeleteRow(Leg(p).from, r)
           /\ UNCHANGED <<table, subscribed, abandoned>>
  <2>1. r \in LegIds /\ r[1] = p /\ Leg(p).from = Source(r)
    BY <1>0, <1>8, RowFacts DEF Main
  <2>2. Grows
    BY <1>1, <1>8 DEF Grows
  <2>3. /\ rows' \in [Nodes -> SUBSET Ids] /\ wal' \in [Links -> Seq(Event)] /\ Links2'
        /\ \A n \in Nodes : rows'[n] = rows[n] \ (IF n = Source(r) THEN {r} ELSE {})
        /\ \A l \in Links : Range(wal'[l]) =
              Range(wal[l]) \cup (IF l.from = Source(r) /\ r \in rows[Source(r)]
                                 THEN {Deleted(r)} ELSE {})
    BY <1>0, <1>1, <1>8, <2>1, DeleteEffect
  <2> HIDE DEF r
  <2>4. ASSUME NEW id, id # r PROVE Alike(id)
    <3>1. \A n \in Nodes : id \in rows'[n] <=> id \in rows[n]
      BY <2>3, <2>4
    <3>2. Inserted(id) # Deleted(r) /\ Deleted(id) # Deleted(r)
      BY <2>4, EventsDiffer
    <3> QED
      BY <2>3, <3>1, <3>2 DEF Alike, Pending
  <2>5. Cleans(p)'
    <3>1. \A n \in Nodes : rows'[n] \subseteq rows[n]
      BY <2>3
    <3> QED
      BY <1>0, <1>1, <1>3, <2>2, <3>1, CleansKeeps DEF ProberInv
  <2>6. /\ table' \subseteq Nodes /\ subscribed' \subseteq Both /\ abandoned' \subseteq Ids
        /\ deferred' \in [Probers -> Seq(Ids)] /\ \A q \in Probers \ {p} : deferred'[q] = deferred[q]
    BY <1>1, <1>8, Base
  <2>7. /\ ProbeType' /\ pc'[p] = "clean up"
        /\ \A q \in Probers \ {p} : pc'[q] = pc[q] /\ at'[q] = at[q] /\ verdict'[q] = verdict[q]
    BY <1>1, <1>2, <2>3, <2>6, EndType
  <2>8. /\ pc'[p] \in Over /\ verdict'[p] # "PASS" /\ r \in LegIds /\ r[1] = p
        /\ ProbeType' /\ Links2' /\ Grows
        /\ \A id \in LegIds : id # r => Alike(id)
    BY <1>1, <1>3, <2>1, <2>2, <2>3, <2>4, <2>7
  <2>9. \A q \in Probers \ {p} : /\ pc'[q] = pc[q] /\ at'[q] = at[q]
                                /\ verdict'[q] = verdict[q] /\ deferred'[q] = deferred[q]
    BY <2>6, <2>7
  <2> QED
    BY <2>5, <2>8, <2>9, RowEnd
<1> HIDE DEF r
<1> QED
  BY <1>4, <1>5, <1>6, <1>7, <1>8

-----------------------------------------------------------------------------
(* The clean-ups, the last registered first.                               *)

LEMMA RangeOfFront ==
  ASSUME NEW S, NEW s \in Seq(S), s # <<>>
  PROVE  /\ SubSeq(s, 1, Len(s) - 1) \in Seq(S)
         /\ Range(SubSeq(s, 1, Len(s) - 1)) \subseteq Range(s)
         /\ Range(s) = Range(SubSeq(s, 1, Len(s) - 1)) \cup {s[Len(s)]}
         /\ s[Len(s)] \in Range(s)
<1> DEFINE t == SubSeq(s, 1, Len(s) - 1)
<1>1. Len(s) \in Nat \ {0} /\ DOMAIN s = 1 .. Len(s) /\ \A i \in 1 .. Len(s) : s[i] \in S
  BY LenProperties, EmptySeq, ElementOfSeq, SeqEqual
<1>2. t \in Seq(S) /\ Len(t) = Len(s) - 1 /\ \A i \in 1 .. Len(s) - 1 : t[i] = s[i]
  <2>1. \A i \in 1 .. Len(s) - 1 : i \in 1 .. Len(s)
    BY <1>1
  <2> QED
    BY <1>1, <2>1, SubSeqProperties
<1>3. DOMAIN t = 1 .. Len(s) - 1
  BY <1>2, LenProperties
<1> HIDE DEF t
<1>4. Range(t) \subseteq Range(s)
  <2>1. ASSUME NEW x \in Range(t) PROVE x \in Range(s)
    <3>1. PICK i \in 1 .. Len(s) - 1 : x = t[i]
      BY <1>3 DEF Range
    <3>2. i \in 1 .. Len(s)
      BY <1>1
    <3> QED
      BY <1>1, <1>2, <3>1, <3>2 DEF Range
  <2> QED
    BY <2>1
<1>5. s[Len(s)] \in Range(s)
  <2>1. Len(s) \in 1 .. Len(s)
    BY <1>1
  <2> QED
    BY <1>1, <2>1 DEF Range
<1>6. ASSUME NEW x \in Range(s), x # s[Len(s)] PROVE x \in Range(t)
  <2>1. PICK i \in 1 .. Len(s) : x = s[i]
    BY <1>1 DEF Range
  <2>2. i # Len(s)
    BY <1>6, <2>1
  <2>3. i \in 1 .. Len(s) - 1
    BY <1>1, <2>2, NotTheLast
  <2> QED
    BY <1>2, <1>3, <2>1, <2>3 DEF Range
<1> QED
  BY <1>2, <1>4, <1>5, <1>6 DEF t

LEMMA StepCleanUp ==
  ASSUME IInv, NEW p \in Probers, CleanUp(p)
  PROVE  IInv'
<1> DEFINE front == SubSeq(deferred[p], 1, Len(deferred[p]) - 1)
<1>0. /\ ProbeType /\ Links2 /\ ProberInv(p) /\ mode \in BothModes
      /\ pc \in [Probers -> Places]
      /\ deferred \in [Probers -> Seq(Ids)] /\ deferred[p] \in Seq(Ids)
  BY Base
<1>1. /\ pc[p] = "clean up" /\ deferred[p] # <<>>
      /\ UNCHANGED <<mode, table, subscribed, pc, at, verdict>>
      /\ deferred' = [deferred EXCEPT ![p] = front]
  BY DEF CleanUp, servers
<1>2. PICK r \in LegIds :
         /\ r = deferred[p][Len(deferred[p])] /\ r[1] = p
         /\ front \in Seq(Ids) /\ Range(front) \subseteq Range(deferred[p])
         /\ Range(deferred[p]) = Range(front) \cup {r}
  <2>1. LET x == deferred[p][Len(deferred[p])]
        IN /\ front \in Seq(Ids) /\ Range(front) \subseteq Range(deferred[p])
           /\ Range(deferred[p]) = Range(front) \cup {x} /\ x \in Range(deferred[p])
    BY <1>0, <1>1, RangeOfFront
  <2> HIDE DEF front
  <2>2. LET x == deferred[p][Len(deferred[p])] IN x \in LegIds /\ x[1] = p
    BY <1>0, <2>1 DEF ProberInv, Cleans
  <2> QED
    BY <2>1, <2>2
<1>3. \/ DeleteRow(Source(r), r) /\ UNCHANGED <<abandoned, failures>>
      \/ /\ failures < MaxFailures /\ failures' = failures + 1
         /\ abandoned' = abandoned \cup {r} /\ UNCHANGED <<rows, wal>>
  BY <1>2 DEF CleanUp, servers
<1> HIDE DEF front
<1>4. /\ deferred' \in [Probers -> Seq(Ids)] /\ deferred'[p] = front
      /\ \A q \in Probers \ {p} : deferred'[q] = deferred[q]
  BY <1>0, <1>1, <1>2
<1>5. r \in LegIds /\ r[1] = p /\ r \in Ids
  BY <1>2 DEF LegIds
<1>6. Grows /\ LegIds' = LegIds /\ Legs' = Legs
  BY <1>1, <1>3 DEF Grows, LegIds, Legs
<1>7. \A id \in LegIds : Source(id)' = Source(id) /\ Source(id) \in Nodes
  BY <1>0, <1>6, IdFacts DEF Source
<1>8. /\ rows' \in [Nodes -> SUBSET Ids] /\ wal' \in [Links -> Seq(Event)] /\ Links2'
      /\ \A id \in LegIds : id # r => Alike(id)
      /\ verdict'[p] = "PASS" => Alike(r)
      /\ \A m \in Nodes : rows'[m] \subseteq rows[m]
      /\ r \in rows'[Source(r)] => r \in abandoned'
      /\ abandoned' \subseteq Ids /\ failures' \in 0 .. MaxFailures
  <2>1. CASE DeleteRow(Source(r), r) /\ UNCHANGED <<abandoned, failures>>
    <3>1. /\ rows' \in [Nodes -> SUBSET Ids] /\ wal' \in [Links -> Seq(Event)] /\ Links2'
          /\ \A m \in Nodes : rows'[m] = rows[m] \ (IF m = Source(r) THEN {r} ELSE {})
          /\ \A l \in Links : Range(wal'[l]) =
                Range(wal[l]) \cup (IF l.from = Source(r) /\ r \in rows[Source(r)]
                                   THEN {Deleted(r)} ELSE {})
      BY <1>0, <1>1, <1>5, <2>1, DeleteEffect
    <3>2. ASSUME NEW id \in LegIds, id # r PROVE Alike(id)
      <4>1. \A m \in Nodes : id \in rows'[m] <=> id \in rows[m]
        BY <3>1, <3>2
      <4>2. Inserted(id) # Deleted(r) /\ Deleted(id) # Deleted(r)
        BY <3>2, EventsDiffer
      <4> QED
        BY <3>1, <4>1, <4>2 DEF Alike, Pending
    <3>3. ASSUME verdict'[p] = "PASS" PROVE Alike(r)
      <4>1. r \notin rows[Source(r)]
        BY <1>0, <1>1, <1>5, <3>3, IdFacts DEF ProberInv, Done, Settled
      <4>2. \A m \in Nodes : r \in rows'[m] <=> r \in rows[m]
        BY <3>1, <4>1
      <4> QED
        BY <3>1, <4>1, <4>2 DEF Alike, Pending
    <3>4. r \notin rows'[Source(r)]
      BY <1>5, <1>7, <3>1
    <3>5. abandoned' \subseteq Ids /\ failures' \in 0 .. MaxFailures
      BY <2>1, Base
    <3>6. \A m \in Nodes : rows'[m] \subseteq rows[m]
      BY <3>1
    <3> QED
      BY <3>1, <3>2, <3>3, <3>4, <3>5, <3>6
  <2>2. CASE /\ failures < MaxFailures /\ failures' = failures + 1
             /\ abandoned' = abandoned \cup {r} /\ UNCHANGED <<rows, wal>>
    <3>1. /\ rows' \in [Nodes -> SUBSET Ids] /\ wal' \in [Links -> Seq(Event)]
          /\ abandoned' \subseteq Ids
      BY <1>5, <2>2, Base
    <3>2. failures' \in 0 .. MaxFailures
      BY <2>2, Base, OneMore, NodesAssumption
    <3>3. Links2' /\ \A id \in LegIds : Alike(id)
      BY <1>0, <1>6, <2>2, StillLinks
    <3> QED
      BY <1>5, <2>2, <3>1, <3>2, <3>3
  <2> QED
    BY <1>3, <2>1, <2>2
<1>9. /\ ProbeType' /\ pc'[p] = "clean up"
      /\ \A q \in Probers \ {p} : pc'[q] = pc[q] /\ at'[q] = at[q] /\ verdict'[q] = verdict[q]
  <2>1. /\ pc[p] # "idle" /\ "clean up" \in Over /\ pc' = [pc EXCEPT ![p] = "clean up"]
    BY <1>0, <1>1 DEF Over
  <2>2. table' \subseteq Nodes /\ subscribed' \subseteq Both
    BY <1>1, Base
  <2> QED
    BY <1>1, <1>4, <1>8, <2>1, <2>2, EndType
<1>10. Cleans(p)'
  <2>1. ASSUME NEW id \in LegIds, id[1] = p, id \in rows'[Source(id)'], id \notin abandoned'
        PROVE  id \in Range(front)
    <3>1. id \in rows[Source(id)] /\ id \notin abandoned /\ id # r
      BY <1>6, <1>7, <1>8, <2>1 DEF Grows
    <3>2. id \in Range(deferred[p])
      BY <1>0, <2>1, <3>1 DEF ProberInv, Cleans
    <3> QED
      BY <1>2, <3>1, <3>2
  <2>2. \A id \in Range(front) : id \in LegIds /\ id[1] = p
    BY <1>0, <1>2 DEF ProberInv, Cleans
  <2> QED
    BY <1>4, <1>6, <1>9, <2>1, <2>2 DEF Cleans
<1>11. pc'[p] \in Over /\ verdict'[p] = verdict[p]
  BY <1>1, <1>9 DEF Over
<1>12. \A q \in Probers \ {p} : /\ pc'[q] = pc[q] /\ at'[q] = at[q]
                               /\ verdict'[q] = verdict[q] /\ deferred'[q] = deferred[q]
  BY <1>4, <1>9
<1>13. /\ ProbeType' /\ Links2' /\ Grows /\ r[1] = p
       /\ verdict'[p] = "PASS" => verdict[p] = "PASS"
       /\ \A id \in LegIds : id # r => Alike(id)
       /\ verdict'[p] = "PASS" => Alike(r)
  BY <1>5, <1>6, <1>8, <1>9, <1>11
<1> QED
  BY <1>10, <1>11, <1>12, <1>13, RowEnd

-----------------------------------------------------------------------------
(* A link applies a change.                                                *)

LEMMA StepApply ==
  ASSUME IInv, NEW link \in Links, Apply(link)
  PROVE  IInv'
<1>0. /\ ProbeType /\ LinkInv /\ RowInv /\ Links2 /\ mode \in BothModes
      /\ \A q \in Probers : ProberInv(q)
  BY DEF IInv, Links2, ProbeType
<1>1. UNCHANGED <<mode, table, subscribed, pc, at, deferred, verdict, abandoned, failures>>
  BY DEF Apply
<1>99. PICK e \in Event : e = Head(wal[link])
  BY <1>0, ApplyEffect
<1> DEFINE r == e.id
<1>2. /\ rows' \in [Nodes -> SUBSET Ids] /\ wal' \in [Links -> Seq(Event)] /\ Links2'
      /\ r \in LegIds /\ Source(r) = link.from /\ e \in Event /\ e \in Range(wal[link])
      /\ \A l \in Links : Range(wal'[l]) = Range(wal[l]) \ (IF l = link THEN {e} ELSE {})
      /\ \A n \in Nodes, x \in Ids : n # link.to \/ x # r => (x \in rows'[n] <=> x \in rows[n])
      /\ Heeded(link) => (r \in rows'[link.to] <=> e.op = "insert")
      /\ ~Heeded(link) => (r \in rows'[link.to] <=> r \in rows[link.to])
  BY <1>0, <1>99, ApplyEffect
<1>3. e = Inserted(r) \/ e = Deleted(r)
  BY <1>2, EventCases
<1> HIDE DEF r
<1>4. Grows /\ LegIds' = LegIds /\ Legs' = Legs
  BY <1>1 DEF Grows, LegIds, Legs
<1>5. link.from \in Nodes /\ link.to \in Nodes /\ link.from # link.to
  BY LinkFacts
<1>6. ASSUME NEW id \in LegIds, id # r PROVE Alike(id)
  <2>1. id \in Ids
    BY <1>6 DEF LegIds
  <2>2. Inserted(id) # e /\ Deleted(id) # e
    BY <1>3, <1>6, EventsDiffer
  <2>3. \A n \in Nodes : id \in rows'[n] <=> id \in rows[n]
    BY <1>2, <1>6, <2>1
  <2> QED
    BY <1>2, <2>2, <2>3 DEF Alike, Pending
<1>7. r \in Ids /\ \A n \in Nodes : n # link.to => (r \in rows'[n] <=> r \in rows[n])
  BY <1>2 DEF LegIds
<1>8. \A l \in Links : Source(r) = l.from /\ l # link =>
         /\ r \in rows'[l.to] <=> r \in rows[l.to]
         /\ Pending(l, Inserted(r))' <=> Pending(l, Inserted(r))
         /\ Pending(l, Deleted(r))' <=> Pending(l, Deleted(r))
  <2>1. ASSUME NEW l \in Links, Source(r) = l.from, l # link PROVE l.to # link.to /\ l.to \in Nodes
    BY <1>2, <2>1, LinksByEnds, LinkFacts
  <2> QED
    BY <1>2, <1>7, <2>1 DEF Pending
<1>9. RowOnLink(r, link)
  BY <1>0, <1>2 DEF RowInv
<1>10. ProbeType'
  <2>1. Preparation' = Preparation
    BY <1>1 DEF Preparation
  <2> QED
    BY <1>0, <1>1, <1>2, <1>4, <2>1 DEF ProbeType
<1>11. ASSUME NEW q \in Probers PROVE ProberInv(q)'
  <2>1. CASE q # r[1]
    <3>1. \A id \in LegIds : id[1] = q => Alike(id)
      BY <1>6, <2>1
    <3> QED
      BY <1>0, <1>1, <1>4, <3>1, OthersKeep
  <2>2. CASE q = r[1]
    <3>0. ProberInv(q)
      BY <1>0
    <3>1. Ready(q)'
      BY <1>1, <3>0 DEF ProberInv, Ready
    <3>2. Unused(q)'
      <4>1. ASSUME NEW id \in LegIds, id[1] = q, Fresh(id)' PROVE Nowhere(id)'
        <5>1. Fresh(id)
          BY <1>1, <4>1 DEF Fresh
        <5>2. Nowhere(id)
          BY <3>0, <4>1, <5>1 DEF ProberInv, Unused
        <5>3. id # r
          BY <1>2, <1>3, <5>2 DEF Nowhere, Pending
        <5>4. Alike(id)
          BY <1>6, <5>3
        <5> QED
          BY <5>2, <5>4 DEF Nowhere, Alike
      <4> QED
        BY <1>4, <4>1 DEF Unused
    <3>3. Busy(q)'
      <4>1. CASE pc[q] \in Main
        <5>1. /\ Row(q) \in LegIds /\ Leg(q) \in Links /\ Leg(q).from = Source(Row(q))
          BY <1>0, <4>1, RowFacts
        <5>2. Row(q)' = Row(q) /\ Leg(q)' = Leg(q) /\ Leg(q).from \in Nodes /\ Leg(q).to \in Nodes
          BY <1>1, <1>4, <5>1, LinkFacts DEF Row, Leg
        <5>3. CASE Row(q) # r
          <6>1. Alike(Row(q))
            BY <1>6, <5>1, <5>3
          <6> QED
            BY <1>1, <3>0, <5>1, <5>2, <6>1 DEF ProberInv, Busy, Alike
        <5>4. CASE Row(q) = r /\ Leg(q) # link
          <6>0. PICK l \in Links : l = Leg(q) /\ l # link /\ Source(r) = l.from
            BY <5>1, <5>4
          <6>1. r \in rows'[l.from] <=> r \in rows[l.from]
            BY <1>2, <1>5, <1>7, <6>0
          <6>2. /\ r \in rows'[l.to] <=> r \in rows[l.to]
                /\ Pending(l, Inserted(r))' <=> Pending(l, Inserted(r))
                /\ Pending(l, Deleted(r))' <=> Pending(l, Deleted(r))
            BY <1>8, <6>0
          <6>3. pc'[q] = pc[q] /\ Row(q)' = r /\ Leg(q)' = l /\ Row(q) = r /\ Leg(q) = l
            BY <1>1, <5>2, <5>4, <6>0
          <6> QED
            BY <3>0, <6>1, <6>2, <6>3 DEF ProberInv, Busy
        <5>5. CASE Row(q) = r /\ Leg(q) = link
          <6>1. r \in rows'[link.from] <=> r \in rows[link.from]
            BY <1>5, <1>7
          <6>2. Heeded(link)
            <7>1. Leg(q) = Legs[at[q]] /\ at[q] \in DOMAIN Legs
              BY <1>0, <4>1, RowFacts, LinkFacts DEF Leg
            <7>2. mode = "master-master" => link.to \in Both
              BY <5>5, <7>1, LinkFacts
            <7>3. mode = "master-master" => Both \subseteq subscribed
              BY <3>0, <4>1 DEF ProberInv, Ready
            <7> QED
              BY <1>0, <7>2, <7>3 DEF Heeded, BothModes
          <6>3. e = Inserted(r) => r \in rows'[link.to] /\ Pending(link, Inserted(r))
            BY <1>2, <6>2, EventsDiffer DEF Pending
          <6>4. e = Deleted(r) => /\ r \notin rows'[link.to] /\ Pending(link, Deleted(r))
                                 /\ ~Pending(link, Deleted(r))'
            BY <1>2, <6>2, EventsDiffer DEF Pending
          <6>5. Pending(link, Inserted(r))' => Pending(link, Inserted(r))
            BY <1>2 DEF Pending
          <6>6. /\ pc'[q] = pc[q] /\ Row(q)' = r /\ Leg(q)' = link
            BY <1>1, <5>2, <5>5
          <6>7. CASE pc[q] = "await row"
            <7>1. r \in rows[link.from]
              BY <3>0, <5>5, <6>7 DEF ProberInv, Busy
            <7>2. e = Inserted(r)
              BY <1>3, <1>9, <6>4, <7>1 DEF RowOnLink
            <7> QED
              BY <6>1, <6>3, <6>6, <6>7, <7>1, <7>2 DEF Busy
          <6>8. CASE pc[q] = "delete"
            <7>1. r \in rows[link.from] /\ r \in rows[link.to]
              BY <3>0, <5>5, <6>8 DEF ProberInv, Busy
            <7> QED
              BY <1>3, <1>9, <6>3, <6>4, <7>1 DEF RowOnLink
          <6>9. CASE pc[q] = "await deletion"
            <7>1. r \notin rows[link.from] /\ ~Pending(link, Inserted(r))
              BY <3>0, <5>5, <6>9 DEF ProberInv, Busy
            <7>2. e = Deleted(r)
              BY <1>3, <6>3, <7>1
            <7>3. /\ r \notin rows'[link.from] /\ ~Pending(link, Inserted(r))'
                  /\ r \notin rows'[link.to] /\ ~Pending(link, Deleted(r))'
              BY <6>1, <6>4, <6>5, <7>1, <7>2
            <7> QED
              BY <6>6, <6>9, <7>3 DEF Busy, Pending
          <6>10. CASE pc[q] = "insert"
            BY <6>6, <6>10 DEF Busy
          <6> QED
            BY <4>1, <6>7, <6>8, <6>9, <6>10 DEF Main
        <5> QED
          BY <5>3, <5>4, <5>5
      <4>2. CASE pc[q] \notin Main
        BY <1>1, <4>2 DEF Busy, Main
      <4> QED
        BY <4>1, <4>2
    <3>4. Done(q)'
      <4>1. ASSUME NEW id \in LegIds, Settled(id) PROVE Settled(id)'
        <5>1. Legs[id[2]] \in Links /\ Legs[id[2]].from = Source(id)
          BY <1>0, IdFacts
        <5>2. Legs[id[2]].from \in Nodes /\ Legs[id[2]].to \in Nodes
          BY <5>1, LinkFacts
        <5>3. CASE id # r
          <6>1. Alike(id)
            BY <1>6, <5>3
          <6> QED
            BY <1>4, <4>1, <5>1, <5>2, <6>1 DEF Settled, Alike
        <5>4. CASE id = r
          <6>1. Legs[r[2]] # link
            BY <1>2, <1>3, <4>1, <5>4 DEF Settled, Pending
          <6>2. r \in rows'[Legs[r[2]].from] <=> r \in rows[Legs[r[2]].from]
            BY <1>2, <1>5, <1>7, <5>1, <5>4
          <6> QED
            BY <1>4, <1>8, <4>1, <5>1, <5>4, <6>1, <6>2 DEF Settled
        <5> QED
          BY <5>3, <5>4
      <4> QED
        BY <1>1, <1>4, <3>0, <4>1 DEF ProberInv, Done
    <3>5. Cleans(q)'
      <4>1. \A id \in LegIds : Source(id)' = Source(id) /\ Source(id) \in Nodes
        BY <1>0, <1>4, IdFacts DEF Source
      <4>2. ASSUME NEW id \in LegIds, id \in rows'[Source(id)] PROVE id \in rows[Source(id)]
        <5>1. CASE id = r
          BY <1>2, <1>5, <1>7, <4>2, <5>1
        <5>2. CASE id # r
          BY <1>6, <4>1, <4>2, <5>2 DEF Alike
        <5> QED
          BY <5>1, <5>2
      <4> QED
        BY <1>1, <1>4, <3>0, <4>1, <4>2 DEF ProberInv, Cleans
    <3> QED
      BY <3>1, <3>2, <3>3, <3>4, <3>5 DEF ProberInv
  <2> QED
    BY <2>1, <2>2
<1> QED
  BY <1>2, <1>10, <1>11 DEF IInv, Links2

-----------------------------------------------------------------------------
(* The invariant.                                                          *)

LEMMA InitIInv ==
  ASSUME Init PROVE IInv
<1>1. mode \in BothModes
  BY NodesAssumption DEF Init, BothModes
<1>2. \A l \in Links : wal[l] = <<>>
  BY DEF Init
<1>3. \A l \in Links : Len(wal[l]) = 0 /\ Range(wal[l]) = {} /\ wal[l] \in Seq(Event)
  <2>1. Range(<<>>) = {}
    BY DEF Range
  <2>2. Len(<<>>) = 0 /\ <<>> \in Seq(Event)
    OBVIOUS
  <2> QED
    BY <1>2, <2>1, <2>2
<1>4. \A l \in Links : \A id : ~Pending(l, Inserted(id)) /\ ~Pending(l, Deleted(id))
  BY <1>3 DEF Pending
<1>5. \A n \in Nodes : rows[n] = {}
  BY DEF Init
<1>6. /\ table \subseteq Nodes /\ subscribed \subseteq Both
      /\ rows \in [Nodes -> SUBSET Ids] /\ wal \in [Links -> Seq(Event)]
  <2>1. table \subseteq Nodes
    BY DEF Init, Nodes, Both
  <2>2. subscribed \subseteq Both
    BY DEF Init
  <2> QED
    BY <1>3, <1>5, <2>1, <2>2 DEF Init
<1>7. \A p \in Probers : /\ pc[p] = "idle" /\ at[p] = 1 /\ deferred[p] = <<>> /\ verdict[p] = "none"
  BY DEF Init
<1>8. ProbeType
  <2>1. pc \in [Probers -> Places] /\ at \in [Probers -> Nat]
    BY DEF Init, Places
  <2>2. deferred \in [Probers -> Seq(Ids)] /\ verdict \in [Probers -> {"none", "PASS", "FAIL"}]
    BY DEF Init
  <2>3. abandoned \subseteq Ids /\ failures \in 0 .. MaxFailures
    BY NodesAssumption DEF Init
  <2>4. "idle" \notin Main /\ "idle" \notin Over
    BY DEF Main, Over
  <2> QED
    BY <1>1, <1>6, <1>7, <2>1, <2>2, <2>3, <2>4 DEF ProbeType
<1>9. LinkInv
  BY <1>3 DEF LinkInv, Ordered
<1>10. RowInv
  <2>1. \A l \in Links : l.from \in Nodes /\ l.to \in Nodes
    BY LinkFacts
  <2> QED
    BY <1>4, <1>5, <2>1 DEF RowInv, RowOnLink
<1>11. ASSUME NEW p \in Probers PROVE ProberInv(p)
  <2>1. Ready(p) /\ Busy(p) /\ Done(p)
    BY <1>7 DEF Ready, Busy, Done, Main
  <2>2. Unused(p)
    BY <1>4, <1>5 DEF Unused, Nowhere
  <2>3. Range(deferred[p]) = {}
    BY <1>7 DEF Range
  <2>4. \A id \in LegIds : id \notin rows[Source(id)]
    BY <1>1, <1>5, IdFacts
  <2>5. Cleans(p)
    BY <1>7, <2>3, <2>4 DEF Cleans
  <2> QED
    BY <2>1, <2>2, <2>5 DEF ProberInv
<1> QED
  BY <1>8, <1>9, <1>10, <1>11 DEF IInv

LEMMA StutterIInv ==
  ASSUME IInv, UNCHANGED vars PROVE IInv'
<1>1. /\ UNCHANGED <<mode, table, subscribed, rows, wal, pc, at, deferred, verdict, abandoned, failures>>
  BY DEF vars, servers
<1>2. Legs' = Legs /\ LegIds' = LegIds /\ Preparation' = Preparation /\ Grows
  BY <1>1 DEF Legs, LegIds, Preparation, Grows
<1>3. ProbeType'
  BY <1>1, <1>2 DEF IInv, ProbeType
<1>4. Links2' /\ \A id \in LegIds : Alike(id)
  BY <1>1, <1>2, StillLinks DEF IInv, Links2
<1>5. ASSUME NEW q \in Probers PROVE ProberInv(q)'
  BY <1>1, <1>2, <1>4, OthersKeep DEF IInv
<1> QED
  BY <1>3, <1>4, <1>5 DEF IInv, Links2

LEMMA StepIInv ==
  ASSUME IInv, [Next]_vars PROVE IInv'
<1>1. ASSUME NEW link \in Links, Apply(link) PROVE IInv'
  BY <1>1, StepApply
<1>2. ASSUME NEW p \in Probers, Start(p) PROVE IInv'
  BY <1>2, StepStart
<1>3. ASSUME NEW p \in Probers, PrepareStep(p) PROVE IInv'
  BY <1>3, StepPrepare
<1>4. ASSUME NEW p \in Probers, Insert(p) PROVE IInv'
  BY <1>4, StepInsert
<1>5. ASSUME NEW p \in Probers, SeeRow(p) PROVE IInv'
  BY <1>5, StepSeeRow
<1>6. ASSUME NEW p \in Probers, Delete(p) PROVE IInv'
  BY <1>6, StepDelete
<1>7. ASSUME NEW p \in Probers, SeeDeletion(p) PROVE IInv'
  BY <1>7, StepSeeDeletion
<1>8. ASSUME NEW p \in Probers, Deadline(p) PROVE IInv'
  BY <1>8, StepDeadline
<1>9. ASSUME NEW p \in Probers, CallFails(p) PROVE IInv'
  BY <1>9, StepCallFails
<1>10. ASSUME NEW p \in Probers, CleanUp(p) PROVE IInv'
  BY <1>10, StepCleanUp
<1>11. ASSUME NEW p \in Probers, End(p) PROVE IInv'
  BY <1>11, StepEnd
<1>12. ASSUME NEW p \in Probers, Crash(p) PROVE IInv'
  BY <1>12, StepCrash
<1> QED
  BY <1>1, <1>2, <1>3, <1>4, <1>5, <1>6, <1>7, <1>8, <1>9, <1>10, <1>11, <1>12, StutterIInv DEF Next

LEMMA IInvHolds == Spec => []IInv
<1>1. Init => IInv
  BY InitIInv
<1>2. IInv /\ [Next]_vars => IInv'
  BY StepIInv
<1> QED
  BY <1>1, <1>2, PTL DEF Spec

-----------------------------------------------------------------------------
(* What follows.                                                           *)

(* Every variable has its type; a probe never runs past its last leg.      *)
THEOREM TypeCorrect == Spec => []TypeOK
<1>1. IInv => TypeOK
  <2> SUFFICES ASSUME IInv PROVE TypeOK
    OBVIOUS
  <2>1. ProbeType /\ mode \in BothModes
    BY DEF IInv, ProbeType
  <2>2. ASSUME NEW p \in Probers
        PROVE  at[p] \in DOMAIN IF pc[p] \in {"idle", "insert", "await row", "delete", "await deletion"}
                               THEN Legs ELSE Preparation \o Legs
    <3>1. DOMAIN Legs = 1 .. Len(Legs) /\ Len(Legs) \in Nat \ {0} /\ Len(Preparation) \in Nat
      BY <2>1, LinkFacts DEF Preparation
    <3>2. DOMAIN (Preparation \o Legs) = 1 .. Len(Preparation) + Len(Legs)
      BY DEF Preparation
    <3>3. at[p] \in 1 .. Len(Legs) \/ (pc[p] \in {"prepare"} \cup Over /\ at[p] \in 1 .. Len(Preparation))
      <4>1. pc[p] \in {"idle", "prepare"} \cup Main \cup Over
        BY <2>1 DEF ProbeType, Places, Main, Over
      <4>2. pc[p] = "idle" => at[p] \in 1 .. Len(Legs)
        BY <2>1, <3>1 DEF ProbeType
      <4> QED
        BY <2>1, <4>1, <4>2 DEF ProbeType
    <3>4. 1 .. Len(Legs) \subseteq 1 .. Len(Preparation) + Len(Legs)
          /\ 1 .. Len(Preparation) \subseteq 1 .. Len(Preparation) + Len(Legs)
      BY <3>1
    <3>5. \A x \in {"prepare"} \cup Over : x \notin {"idle", "insert", "await row", "delete", "await deletion"}
      BY DEF Over
    <3> QED
      BY <3>1, <3>2, <3>3, <3>4, <3>5
  <2> QED
    BY <2>1, <2>2 DEF TypeOK, ProbeType, BothModes, Places
<1> QED
  BY <1>1, IInvHolds, PTL

(* PASS means that every leg of the probe was seen through, and left clean. *)
THEOREM PassShows == Spec => []PassMeansSettled
<1>1. IInv => PassMeansSettled
  <2> SUFFICES ASSUME IInv, NEW p \in Probers, verdict[p] = "PASS", NEW i \in DOMAIN Legs
               PROVE  Settled(<<p, i>>)
    BY DEF PassMeansSettled, Settled
  <2>1. i \in 1 .. Len(Standbys) + 2
    BY LinkFacts, NodesAssumption DEF IInv, ProbeType
  <2>2. <<p, i>> \in LegIds
    BY <2>1 DEF LegIds, Ids
  <2> QED
    BY <2>2 DEF IInv, ProberInv, Done
<1> QED
  BY <1>1, IInvHolds, PTL

(* A probe waits only for what its link carries and the target will heed.  *)
THEOREM WaitsForTheLink == Spec => []WaitIsForTheLink
<1>1. IInv => WaitIsForTheLink
  <2> SUFFICES ASSUME IInv, NEW p \in Probers, pc[p] \in {"await row", "await deletion"}
               PROVE  LET heeded == mode = "master-slave" \/ Leg(p).to \in subscribed IN
                      /\ pc[p] = "await row" =>
                            Shows(Leg(p).to, Row(p)) \/ (heeded /\ Pending(Leg(p), Inserted(Row(p))))
                      /\ pc[p] = "await deletion" =>
                            ~Shows(Leg(p).to, Row(p)) \/ (heeded /\ Pending(Leg(p), Deleted(Row(p))))
    BY DEF WaitIsForTheLink
  <2>1. ProbeType /\ pc[p] \in Main /\ ProberInv(p) /\ mode \in BothModes
    BY Base DEF Main
  <2>2. mode = "master-slave" \/ Leg(p).to \in subscribed
    <3>1. Leg(p) = Legs[at[p]] /\ at[p] \in DOMAIN Legs
      BY <2>1, RowFacts, LinkFacts DEF Leg
    <3>2. mode = "master-master" => Leg(p).to \in Both
      BY <3>1, LinkFacts
    <3>3. mode = "master-master" => Both \subseteq subscribed
      BY <2>1 DEF ProberInv, Ready
    <3> QED
      BY <2>1, <3>2, <3>3 DEF BothModes
  <2> QED
    BY <2>1, <2>2 DEF ProberInv, Busy, Shows
<1> QED
  BY <1>1, IInvHolds, PTL

(* What a probe has written is gone, or going, once it has ended.          *)
THEOREM LeavesNothing == Spec => []NothingLeftBehind
<1>1. IInv => NothingLeftBehind
  <2> SUFFICES ASSUME IInv, NEW id \in Ids, id \notin abandoned, pc[id[1]] = "done", id[2] \in DOMAIN Legs
               PROVE  /\ id \notin rows[Legs[id[2]].from]
                      /\ \A l \in Links : l.from = Legs[id[2]].from =>
                            (id \in rows[l.to] \/ Pending(l, Inserted(id)) => Pending(l, Deleted(id)))
    BY DEF NothingLeftBehind
  <2>1. id \in LegIds /\ id[1] \in Probers /\ Legs[id[2]].from = Source(id)
    BY DEF LegIds, Ids, Source
  <2>2. id \notin rows[Source(id)]
    <3>1. Range(deferred[id[1]]) = {}
      BY <2>1 DEF IInv, ProberInv, Cleans, Range
    <3> QED
      BY <2>1, <3>1 DEF IInv, ProberInv, Cleans
  <2>3. ASSUME NEW l \in Links, l.from = Source(id), id \in rows[l.to] \/ Pending(l, Inserted(id))
        PROVE  Pending(l, Deleted(id))
    <3>1. RowOnLink(id, l)
      BY <2>1, <2>3 DEF IInv, RowInv
    <3> QED
      BY <2>2, <2>3, <3>1 DEF RowOnLink
  <2> QED
    BY <2>1, <2>2, <2>3
<1> QED
  BY <1>1, IInvHolds, PTL
=============================================================================
