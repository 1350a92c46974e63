---------------------------- MODULE AuditLogProofs ----------------------------
(***************************************************************************)
(* What the audit log and its history are, for any number of processes and *)
(* requests, any limit of the history and any number of faults.            *)
(***************************************************************************)
EXTENDS AuditLog, FiniteSetTheorems, SequenceTheorems, TLAPS

Statuses == {"ok", "error"}
Places == {"idle", "preflight", "run", "observe", "lock", "write",
           "logged", "unlogged", "refused", "dead"}
Reader == [at : {"closed", "scan", "answered", "error"}, from : Nat, next : Nat \ {0},
           ring : Seq(Line), pos : Nat, full : BOOLEAN, answer : Seq(Line)]

WriterType ==
    /\ pc \in [Requests -> Places]
    /\ status \in [Requests -> {"none", "ok", "error"}]
    /\ mu \in [Procs -> Requests \cup {"free"}]
    /\ \A r \in Requests : pc[r] = "observe" => status[r] \in Statuses
    /\ runs \in [Procs -> [Statuses -> Nat]]
    /\ faults \in 0 .. MaxFaults

LogType == file \in Seq(Line) /\ ragged \in BOOLEAN /\ created \in BOOLEAN

(* A line without its end is the last one.                                 *)
EndInv == ragged => Len(file) # 0
\* The lines that nobody will write to any more.
Ended(i) == i \in 1 .. Len(file) /\ ~(ragged /\ i = Len(file))

(* Who has the mutex of a process is a request of it, about to write.      *)
MutexInv ==
    \A p \in Procs : mu[p] # "free" => Proc[mu[p]] = p /\ pc[mu[p]] = "write"

(* A request has one line at most, none before it writes, and one once it  *)
(* has written.                                                            *)
LineInv ==
    /\ \A r \in Requests : \A i, j \in 1 .. Len(file) :
          r \in file[i].of /\ r \in file[j].of => i = j
    /\ \A r \in Requests :
          pc[r] \in {"idle", "preflight", "run", "observe", "lock", "write"} =>
              \A i \in 1 .. Len(file) : r \notin file[i].of
    /\ \A r \in Requests :
          pc[r] = "logged" => \E i \in 1 .. Len(file) : r \in file[i].of

CountedBy(p, s) ==
    {r \in Requests : Proc[r] = p /\ status[r] = s
                      /\ pc[r] \in {"lock", "write", "logged", "unlogged"}}
CountInv == \A p \in Procs, s \in Statuses : runs[p][s] = Cardinality(CountedBy(p, s))

WriterInv == WriterType /\ LogType /\ EndInv /\ MutexInv /\ LineInv /\ CountInv

(* What a reader h has: the lines before `next` are whole, and the ring    *)
(* holds the last of them, its oldest at `pos` once it is full.            *)
Read(h) == h.next - 1
\* The line in slot i of a full ring, of n lines read.
LineAt(n, pos, i) == IF i <= pos THEN n - pos + i ELSE n - pos - Limit + i
Holds(h) ==
    /\ h \in Reader /\ h.pos \in 0 .. Limit - 1 /\ Len(h.ring) <= Limit
    /\ Read(h) <= Len(file) /\ h.from <= Len(file)
    /\ \A i \in 1 .. Read(h) : file[i].whole
    /\ IF h.full
       THEN /\ Read(h) >= Limit /\ Len(h.ring) = Limit
            /\ \A i \in 1 .. Limit : h.ring[i] = file[LineAt(Read(h), h.pos, i)]
       ELSE /\ Read(h) < Limit /\ Len(h.ring) = Read(h) /\ h.pos = Read(h)
            /\ \A i \in 1 .. Read(h) : h.ring[i] = file[i]

(* A reader that goes on has read no line without its end.                 *)
ReaderInv ==
    /\ history \in Reader
    /\ history.pos \in 0 .. Limit - 1 /\ Len(history.ring) <= Limit
    /\ history.at = "closed" => history = NoReader
    /\ history.at = "scan" => /\ Holds(history)
                              /\ ragged => Read(history) < Len(file)

-----------------------------------------------------------------------------
(* The file.                                                               *)

LEMMA LineParts ==
  ASSUME NEW s \in Seq(Line), NEW i \in 1 .. Len(s)
  PROVE  s[i] \in Line /\ s[i].of \subseteq Requests /\ s[i].whole \in BOOLEAN
<1>1. s[i] \in Line
  BY ElementOfSeq
<1> QED
  BY <1>1 DEF Line

(* Adding a line leaves the lines that have their end alone, and is seen   *)
(* in one line.                                                            *)
LEMMA LineAdded ==
  ASSUME LogType, EndInv, NEW r \in Requests,
         NEW ended \in BOOLEAN, NEW whole \in BOOLEAN,
         AddLine(r, ended, whole)
  PROVE  /\ LogType' /\ EndInv'
         /\ Len(file) <= Len(file') /\ (ragged \/ Len(file') = Len(file) + 1)
         /\ \A i \in 1 .. Len(file) : Ended(i) => file'[i] = file[i]
         /\ \A i \in 1 .. Len(file') :
               file'[i].of = (IF i <= Len(file) THEN file[i].of ELSE {})
                             \cup (IF i = Len(file') THEN {r} ELSE {})
         /\ Len(file') # 0
<1> USE DEF LogType, EndInv, Ended
<1>0. ragged' \in BOOLEAN /\ created' \in BOOLEAN
  BY DEF AddLine
<1>1. CASE ragged
  <2> DEFINE n == Len(file)
             new == [of |-> file[n].of \cup {r}, whole |-> FALSE]
  <2>1. n \in 1 .. Len(file)
    BY <1>1, LenProperties
  <2>2. new \in Line
    BY <2>1, LineParts DEF Line
  <2>3. file' = [file EXCEPT ![n] = new]
    BY <1>1, <2>1 DEF AddLine
  <2>4. /\ file' \in Seq(Line) /\ Len(file') = n
        /\ \A i \in 1 .. n : file'[i] = IF i = n THEN new ELSE file[i]
    BY <2>1, <2>2, <2>3, ExceptSeq, LenProperties
  <2> HIDE DEF new
  <2>5. new.of = file[n].of \cup {r}
    BY DEF new
  <2> QED
    BY <1>0, <1>1, <2>1, <2>4, <2>5
<1>2. CASE ~ragged
  <2> DEFINE n == Len(file)
             new == [of |-> {r}, whole |-> whole]
  <2>1. new \in Line
    BY DEF Line
  <2>2. file' = Append(file, new)
    BY <1>2 DEF AddLine
  <2>3. /\ file' \in Seq(Line) /\ Len(file') = n + 1 /\ n \in Nat
        /\ \A i \in 1 .. n + 1 : file'[i] = IF i = n + 1 THEN new ELSE file[i]
    BY <2>1, <2>2, AppendProperties, LenProperties
  <2>5. new.of = {r}
    OBVIOUS
  <2> HIDE DEF new
  <2>6. /\ LogType' /\ EndInv' /\ Len(file') # 0
        /\ Len(file) <= Len(file') /\ Len(file') = Len(file) + 1
    BY <1>0, <2>3
  <2>7. \A i \in 1 .. n : file'[i] = file[i]
    BY <2>3
  <2>9. ASSUME NEW i \in 1 .. Len(file')
        PROVE  file'[i].of = (IF i <= n THEN file[i].of ELSE {})
                             \cup (IF i = Len(file') THEN {r} ELSE {})
    <3>1. CASE i <= n
      BY <3>1, <2>3, <2>7
    <3>2. CASE ~(i <= n)
      <4>1. i = n + 1
        BY <3>2, <2>3
      <4> QED
        BY <3>2, <4>1, <2>3, <2>5
    <3> QED
      BY <3>1, <3>2
  <2> QED
    BY <2>6, <2>7, <2>9
<1> QED
  BY <1>1, <1>2

-----------------------------------------------------------------------------
(* The requests.                                                           *)

Counting == {"lock", "write", "logged", "unlogged"}
Unwritten == {"idle", "preflight", "run", "observe", "lock", "write"}

LEMMA CountedFinite ==
  ASSUME NEW p, NEW s
  PROVE  /\ IsFiniteSet(CountedBy(p, s))
         /\ Cardinality(CountedBy(p, s)) \in Nat
         /\ Cardinality(CountedBy(p, s)) <= Cardinality(Requests)
<1>1. CountedBy(p, s) \subseteq Requests
  BY DEF CountedBy
<1>2. IsFiniteSet(CountedBy(p, s)) /\ Cardinality(CountedBy(p, s)) <= Cardinality(Requests)
  BY <1>1, FS_Subset, RequestsAssumption
<1> QED
  BY <1>2, FS_CardinalityType

(* A step of one request that neither begins to be counted nor to write.   *)
LEMMA StepUncounted ==
  ASSUME WriterInv, NEW r \in Requests, NEW l \in Places,
         pc' = [pc EXCEPT ![r] = l], pc[r] # "write", l # "logged",
         pc[r] \in Unwritten,
         \/ pc[r] \in Counting /\ l \in Counting /\ status' = status
         \/ /\ pc[r] \notin Counting /\ l \notin Counting
            /\ \E t \in Statuses \cup {"none"} : status' = [status EXCEPT ![r] = t],
         UNCHANGED <<runs, log>>
  PROVE  /\ status' \in [Requests -> {"none", "ok", "error"}]
         /\ pc' \in [Requests -> Places]
         /\ LogType' /\ EndInv' /\ LineInv' /\ CountInv'
<1> USE DEF WriterInv, WriterType, Statuses
<1>1. status' \in [Requests -> {"none", "ok", "error"}] /\ pc' \in [Requests -> Places]
  OBVIOUS
<1>2. LogType' /\ EndInv' /\ file' = file
  BY DEF LogType, EndInv, log
<1>3. LineInv'
  BY <1>1, <1>2 DEF LineInv, Unwritten, Places
<1>4. ASSUME NEW p \in Procs, NEW s \in Statuses
      PROVE  CountedBy(p, s)' = CountedBy(p, s)
  <2>1. ASSUME NEW q \in Requests
        PROVE  /\ pc'[q] \in Counting <=> pc[q] \in Counting
               /\ pc[q] \in Counting => status'[q] = status[q]
    BY <1>1
  <2> QED
    BY <2>1 DEF CountedBy, Counting
<1>5. CountInv'
  BY <1>4 DEF CountInv
<1> QED
  BY <1>1, <1>2, <1>3, <1>5

LEMMA StepQuiet ==
  ASSUME WriterInv, NEW r \in Requests, Arrive(r) \/ Preflight(r) \/ Run(r)
  PROVE  WriterInv'
<1> USE DEF WriterInv, WriterType
<1>1. /\ pc[r] \in {"idle", "preflight", "run"}
      /\ UNCHANGED <<mu, runs, log, faults>>
  BY DEF Arrive, Preflight, Run
<1>2. PICK l \in {"preflight", "run", "refused", "observe"} : pc' = [pc EXCEPT ![r] = l]
  BY DEF Arrive, Preflight, Run, Goto
<1>3. \E t \in Statuses \cup {"none"} : status' = [status EXCEPT ![r] = t]
  <2>1. CASE status' = status
    <3>1. status = [status EXCEPT ![r] = status[r]] /\ status[r] \in Statuses \cup {"none"}
      BY DEF Statuses
    <3> QED
      BY <2>1, <3>1
  <2>2. status' = status \/ \E t \in Statuses : status' = [status EXCEPT ![r] = t]
    BY DEF Arrive, Preflight, Run, Statuses
  <2> QED
    BY <2>1, <2>2
<1>4. /\ status' \in [Requests -> {"none", "ok", "error"}] /\ pc' \in [Requests -> Places]
      /\ LogType' /\ EndInv' /\ LineInv' /\ CountInv'
  <2>1. /\ l \in Places /\ l \notin Counting /\ l # "logged" /\ pc[r] # "write"
        /\ pc[r] \notin Counting /\ pc[r] \in Unwritten
    BY <1>1, <1>2 DEF Counting, Unwritten, Places
  <2> QED
    BY <1>1, <1>2, <1>3, <2>1, StepUncounted
<1>5. MutexInv'
  BY <1>1, <1>2 DEF MutexInv
<1>6. \A q \in Requests : pc'[q] = "observe" => status'[q] \in Statuses
  BY <1>2 DEF Arrive, Preflight, Run, Goto, Statuses
<1> QED
  BY <1>1, <1>4, <1>5, <1>6

LEMMA StepObserve ==
  ASSUME WriterInv, NEW r \in Requests, Observe(r)
  PROVE  WriterInv'
<1> USE DEF WriterInv, WriterType
<1> DEFINE s0 == status[r]
           p0 == Proc[r]
<1>1. /\ pc[r] = "observe" /\ pc' = [pc EXCEPT ![r] = "lock"]
      /\ UNCHANGED <<status, mu, file, ragged, created, faults>>
      /\ runs' = [runs EXCEPT ![p0][s0] = @ + 1]
  BY DEF Observe, Goto, Counted, log
<1>2. s0 \in Statuses
  BY <1>1
<1>3. WriterInv'
  <2>1. /\ pc' \in [Requests -> Places] /\ p0 \in Procs
    BY <1>1, RequestsAssumption DEF Places
  <2>2. /\ runs' \in [Procs -> [Statuses -> Nat]]
        /\ runs'[p0][s0] = runs[p0][s0] + 1
        /\ \A p \in Procs, s \in Statuses : <<p, s>> # <<p0, s0>> => runs'[p][s] = runs[p][s]
    BY <1>1, <1>2, <2>1
  <2>3. LogType' /\ EndInv'
    BY <1>1 DEF LogType, EndInv
  <2>4. LineInv'
    BY <1>1, <2>1 DEF LineInv
  <2>5. MutexInv'
    BY <1>1, <2>1 DEF MutexInv
  <2>6. ASSUME NEW p \in Procs, NEW s \in Statuses
        PROVE  runs'[p][s] = Cardinality(CountedBy(p, s)')
    <3>1. runs[p][s] = Cardinality(CountedBy(p, s))
      BY DEF CountInv
    <3>2. CASE <<p, s>> = <<p0, s0>>
      <4>1. CountedBy(p, s)' = CountedBy(p, s) \cup {r}
        BY <3>2, <1>1, <2>1 DEF CountedBy
      <4>2. r \notin CountedBy(p, s)
        BY <1>1 DEF CountedBy
      <4>3. Cardinality(CountedBy(p, s) \cup {r}) = Cardinality(CountedBy(p, s)) + 1
        BY <4>2, CountedFinite, FS_AddElement
      <4> QED
        BY <3>1, <3>2, <4>1, <4>3, <2>2
    <3>3. CASE <<p, s>> # <<p0, s0>>
      <4>1. CountedBy(p, s)' = CountedBy(p, s)
        BY <3>3, <1>1, <2>1 DEF CountedBy
      <4> QED
        BY <3>1, <3>3, <4>1, <2>2
    <3> QED
      BY <3>2, <3>3
  <2>7. CountInv'
    BY <2>6 DEF CountInv
  <2> QED
    BY <1>1, <2>1, <2>2, <2>3, <2>4, <2>5, <2>7
<1> QED
  BY <1>3

(* What a write does to the lines: its request has been on none.           *)
LEMMA LinesAfterWrite ==
  ASSUME WriterInv, NEW r \in Requests, pc[r] = "write",
         NEW ended \in BOOLEAN, NEW whole \in BOOLEAN,
         AddLine(r, ended, whole),
         pc'[r] \notin Unwritten,
         \A q \in Requests \ {r} : pc'[q] = pc[q] \/ pc'[q] = "dead"
  PROVE  LogType' /\ EndInv' /\ LineInv'
<1> USE DEF WriterInv
<1>1. /\ LogType' /\ EndInv'
      /\ Len(file) <= Len(file') /\ Len(file') # 0
      /\ \A i \in 1 .. Len(file') :
            file'[i].of = (IF i <= Len(file) THEN file[i].of ELSE {})
                          \cup (IF i = Len(file') THEN {r} ELSE {})
  BY LineAdded
<1>2. Len(file) \in Nat /\ Len(file') \in Nat
  BY <1>1, LenProperties DEF LogType
<1>3. \A i \in 1 .. Len(file) : r \notin file[i].of
  BY DEF LineInv, Unwritten
<1>4. ASSUME NEW q \in Requests, NEW i \in 1 .. Len(file')
      PROVE  q \in file'[i].of <=>
               IF q = r THEN i = Len(file') ELSE i \in 1 .. Len(file) /\ q \in file[i].of
  <2>1. CASE i <= Len(file)
    BY <2>1, <1>1, <1>2, <1>3
  <2>2. CASE ~(i <= Len(file))
    BY <2>2, <1>1, <1>2, <1>3
  <2> QED
    BY <2>1, <2>2
<1>5. \A q \in Requests : \A i, j \in 1 .. Len(file') :
         q \in file'[i].of /\ q \in file'[j].of => i = j
  BY <1>4, <1>1, <1>2 DEF LineInv
<1>6. ASSUME NEW q \in Requests, pc'[q] \in Unwritten, NEW i \in 1 .. Len(file')
      PROVE  q \notin file'[i].of
  <2>1. q # r /\ pc[q] \in Unwritten
    BY <1>6 DEF Unwritten
  <2> QED
    BY <2>1, <1>4 DEF LineInv, Unwritten
<1>7. ASSUME NEW q \in Requests, pc'[q] = "logged"
      PROVE  \E i \in 1 .. Len(file') : q \in file'[i].of
  <2>1. CASE q = r
    <3>1. Len(file') \in 1 .. Len(file')
      BY <1>1, <1>2
    <3> QED
      BY <2>1, <3>1, <1>4
  <2>2. CASE q # r
    <3>1. PICK i \in 1 .. Len(file) : q \in file[i].of
      BY <1>7, <2>2 DEF LineInv
    <3>2. i \in 1 .. Len(file')
      BY <1>1, <1>2
    <3> QED
      BY <2>2, <3>1, <3>2, <1>4
  <2> QED
    BY <2>1, <2>2
<1> QED
  BY <1>1, <1>5, <1>6, <1>7 DEF LineInv, Unwritten

LEMMA LinesAfterCut ==
  ASSUME WriterInv, NEW r \in Requests, pc[r] = "write", CutShort(r),
         pc'[r] \notin Unwritten, pc'[r] # "logged",
         \A q \in Requests \ {r} : pc'[q] = pc[q] \/ pc'[q] = "dead"
  PROVE  LogType' /\ EndInv' /\ LineInv'
<1>1. CASE UNCHANGED <<file, ragged>> /\ created' \in BOOLEAN
  <2>1. \A q \in Requests : /\ pc'[q] = "logged" => pc[q] = "logged"
                            /\ pc'[q] \in Unwritten => pc[q] \in Unwritten
    BY DEF Unwritten
  <2> QED
    BY <1>1, <2>1 DEF WriterInv, LogType, EndInv, LineInv, Unwritten
<1>2. CASE \E whole \in BOOLEAN : AddLine(r, FALSE, whole)
  BY <1>2, LinesAfterWrite
<1>3. created \in BOOLEAN
  BY DEF WriterInv, LogType
<1> QED
  BY <1>1, <1>2, <1>3 DEF CutShort, log

LEMMA StepLock ==
  ASSUME WriterInv, NEW r \in Requests, Lock(r)
  PROVE  WriterInv'
<1> USE DEF WriterInv, WriterType
<1>1. /\ pc[r] = "lock" /\ pc' = [pc EXCEPT ![r] = "write"]
      /\ UNCHANGED <<status, runs, file, ragged, created, faults>>
      /\ mu' = [mu EXCEPT ![Proc[r]] = r] /\ mu[Proc[r]] = "free"
  BY DEF Lock, Goto, log
<1>2. /\ status' \in [Requests -> {"none", "ok", "error"}] /\ pc' \in [Requests -> Places]
      /\ LogType' /\ EndInv' /\ LineInv' /\ CountInv'
  BY <1>1, StepUncounted DEF Counting, Unwritten, Places, log
<1>3. mu' \in [Procs -> Requests \cup {"free"}]
  BY <1>1
<1>5. ASSUME NEW p \in Procs, mu'[p] # "free"
      PROVE  Proc[mu'[p]] = p /\ pc'[mu'[p]] = "write"
  <2>1. CASE p = Proc[r]
    BY <1>1, <2>1
  <2>2. CASE p # Proc[r]
    BY <1>1, <1>5, <2>2 DEF MutexInv
  <2> QED
    BY <2>1, <2>2
<1>6. MutexInv'
  BY <1>5 DEF MutexInv
<1>4. \A q \in Requests : pc'[q] = "observe" => status'[q] \in Statuses
  BY <1>1
<1> QED
  BY <1>1, <1>2, <1>3, <1>4, <1>6

LEMMA FaultsBounded ==
  ASSUME faults \in 0 .. MaxFaults,
         faults' = faults \/ (faults' = faults + 1 /\ faults < MaxFaults)
  PROVE  faults' \in 0 .. MaxFaults
  BY RequestsAssumption

LEMMA StepWrite ==
  ASSUME WriterInv, NEW r \in Requests, Write(r) \/ WriteFails(r)
  PROVE  WriterInv'
<1> USE DEF WriterInv, WriterType
<1>1. PICK l \in {"logged", "unlogged"} :
        /\ pc[r] = "write" /\ pc' = [pc EXCEPT ![r] = l]
        /\ UNCHANGED <<status, runs>> /\ mu' = [mu EXCEPT ![Proc[r]] = "free"]
  BY DEF Write, WriteFails, Goto, Unlock
<1>2. faults' \in 0 .. MaxFaults
  <2>1. faults' = faults \/ (faults' = faults + 1 /\ faults < MaxFaults)
    BY DEF Write, WriteFails
  <2> QED
    BY <2>1, FaultsBounded
<1>3. pc' \in [Requests -> Places] /\ mu' \in [Procs -> Requests \cup {"free"}]
  BY <1>1, RequestsAssumption DEF Places
<1>4. MutexInv'
  BY <1>1, <1>3, RequestsAssumption DEF MutexInv
<1>5. CountInv'
  <2>1. ASSUME NEW p \in Procs, NEW s \in Statuses
        PROVE  CountedBy(p, s)' = CountedBy(p, s)
    BY <1>1 DEF CountedBy
  <2> QED
    BY <1>1, <2>1 DEF CountInv
<1>6. LogType' /\ EndInv' /\ LineInv'
  <2>1. /\ pc'[r] \notin Unwritten
        /\ \A q \in Requests \ {r} : pc'[q] = pc[q] \/ pc'[q] = "dead"
    BY <1>1 DEF Unwritten
  <2>2. CASE Write(r)
    BY <1>1, <2>1, <2>2, LinesAfterWrite DEF Write
  <2>3. CASE WriteFails(r)
    <3>1. pc'[r] # "logged"
      BY <2>3, <1>1 DEF WriteFails, Goto
    <3> QED
      BY <1>1, <2>1, <2>3, <3>1, LinesAfterCut DEF WriteFails
  <2> QED
    BY <2>2, <2>3
<1>7. \A q \in Requests : pc'[q] = "observe" => status'[q] \in Statuses
  BY <1>1
<1> QED
  BY <1>1, <1>2, <1>3, <1>4, <1>5, <1>6, <1>7

LEMMA StepCrash ==
  ASSUME WriterInv, NEW p \in Procs, Crash(p)
  PROVE  WriterInv'
<1> USE DEF WriterInv, WriterType
<1>1. /\ pc' = [r \in Requests |-> IF Proc[r] = p /\ pc[r] # "idle" THEN "dead" ELSE pc[r]]
      /\ mu' = [mu EXCEPT ![p] = "free"]
      /\ runs' = [runs EXCEPT ![p] = [s \in {"ok", "error"} |-> 0]]
      /\ UNCHANGED status /\ faults' = faults + 1 /\ faults < MaxFaults
  BY DEF Crash
<1>2. faults' \in 0 .. MaxFaults
  BY <1>1, FaultsBounded
<1>3. pc' \in [Requests -> Places]
  BY <1>1 DEF Places
<1>4. /\ mu' \in [Procs -> Requests \cup {"free"}]
      /\ runs' \in [Procs -> [Statuses -> Nat]]
  BY <1>1 DEF Statuses
<1>5. ASSUME NEW q \in Procs, mu'[q] # "free"
      PROVE  Proc[mu'[q]] = q /\ pc'[mu'[q]] = "write"
  <2>1. q # p /\ mu'[q] = mu[q] /\ mu[q] \in Requests
    BY <1>1, <1>4, <1>5
  <2>2. Proc[mu[q]] = q /\ pc[mu[q]] = "write"
    BY <1>5, <2>1 DEF MutexInv
  <2> QED
    BY <1>1, <2>1, <2>2
<1>6. CountInv'
  <2>1. ASSUME NEW q \in Procs, NEW s \in Statuses
        PROVE  runs'[q][s] = Cardinality(CountedBy(q, s)')
    <3>1. CASE q = p
      <4>1. CountedBy(q, s)' = {}
        BY <3>1, <1>1 DEF CountedBy
      <4> QED
        BY <3>1, <4>1, <1>1, FS_EmptySet DEF Statuses
    <3>2. CASE q # p
      <4>1. CountedBy(q, s)' = CountedBy(q, s)
        BY <3>2, <1>1 DEF CountedBy
      <4> QED
        BY <3>2, <4>1, <1>1 DEF CountInv
    <3> QED
      BY <3>1, <3>2
  <2> QED
    BY <2>1 DEF CountInv
<1>7. LogType' /\ EndInv' /\ LineInv'
  <2>1. \A q \in Requests : pc'[q] = pc[q] \/ pc'[q] = "dead"
    BY <1>1
  <2>2. CASE mu[p] = "free"
    <3>1. UNCHANGED <<file, ragged, created>>
      BY <2>2 DEF Crash, log
    <3> QED
      BY <2>1, <3>1 DEF LogType, EndInv, LineInv
  <2>3. CASE mu[p] # "free"
    <3>1. mu[p] \in Requests /\ CutShort(mu[p])
      BY <2>3 DEF Crash
    <3>2. Proc[mu[p]] = p /\ pc[mu[p]] = "write"
      BY <2>3 DEF MutexInv
    <3>3. pc'[mu[p]] = "dead"
      BY <3>1, <3>2, <1>1
    <3> QED
      BY <2>1, <3>1, <3>2, <3>3, LinesAfterCut DEF Unwritten
  <2> QED
    BY <2>2, <2>3
<1>8. \A q \in Requests : pc'[q] = "observe" => status'[q] \in Statuses
  BY <1>1
<1>9. MutexInv'
  BY <1>5 DEF MutexInv
<1> QED
  BY <1>1, <1>2, <1>3, <1>4, <1>6, <1>7, <1>8, <1>9

LEMMA WritersStep ==
  ASSUME WriterInv, [Next]_vars
  PROVE  WriterInv'
<1>1. ASSUME UNCHANGED <<writers, log, faults>> PROVE WriterInv'
  <2>1. UNCHANGED <<pc, status, mu, runs, file, ragged, created, faults>>
    BY <1>1 DEF writers, log
  <2> QED
    BY <2>1 DEF WriterInv, WriterType, LogType, EndInv, MutexInv, LineInv, CountInv, CountedBy
<1>2. CASE Open \/ Scan \/ EndOfFile \/ Close \/ UNCHANGED vars
  BY <1>1, <1>2 DEF Open, Scan, EndOfFile, Close, vars
<1>3. CASE \E r \in Requests : Arrive(r) \/ Preflight(r) \/ Run(r)
  BY <1>3, StepQuiet
<1>4. CASE \E r \in Requests : Observe(r) \/ Lock(r) \/ Write(r) \/ WriteFails(r)
  BY <1>4, StepObserve, StepLock, StepWrite
<1>5. CASE \E p \in Procs : Crash(p)
  BY <1>5, StepCrash
<1> QED
  BY <1>2, <1>3, <1>4, <1>5 DEF Next

LEMMA WritersInit == Init => WriterInv
<1> SUFFICES ASSUME Init PROVE WriterInv
  OBVIOUS
<1>1. WriterType /\ LogType /\ EndInv /\ MutexInv
  <2>1. file \in Seq(Line)
    BY EmptySeq DEF Init
  <2>2. faults \in 0 .. MaxFaults
    BY RequestsAssumption DEF Init
  <2> QED
    BY <2>1, <2>2 DEF Init, WriterType, LogType, EndInv, MutexInv, Places, Statuses
<1>2. LineInv
  BY DEF Init, LineInv
<1>3. ASSUME NEW p \in Procs, NEW s \in Statuses
      PROVE  runs[p][s] = Cardinality(CountedBy(p, s))
  <2>1. CountedBy(p, s) = {}
    BY DEF Init, CountedBy
  <2> QED
    BY <2>1, FS_EmptySet DEF Init, Statuses
<1> QED
  BY <1>1, <1>2, <1>3 DEF WriterInv, CountInv

(* The metrics and the log agree, for every number of processes, requests  *)
(* and faults.                                                             *)
THEOREM MetricsAgree == Spec => []MetricsMatchLog
<1>1. WriterInv => MetricsMatchLog
  <2> SUFFICES ASSUME WriterInv PROVE MetricsMatchLog
    OBVIOUS
  <2>1. ASSUME NEW r \in Requests, pc[r] = "logged"
        PROVE  Cardinality({i \in DOMAIN file : r \in file[i].of}) = 1
    <3>1. PICK i \in 1 .. Len(file) : r \in file[i].of
      BY <2>1 DEF WriterInv, LineInv
    <3>2. DOMAIN file = 1 .. Len(file)
      BY LenProperties DEF WriterInv, LogType
    <3>3. {j \in DOMAIN file : r \in file[j].of} = {i}
      BY <3>1, <3>2 DEF WriterInv, LineInv
    <3> QED
      BY <3>3, FS_Singleton
  <2>2. \A p \in Procs, s \in {"ok", "error"} :
           runs[p][s] = Cardinality({r \in Requests : Proc[r] = p /\ status[r] = s
                                      /\ pc[r] \in {"lock", "write", "logged", "unlogged"}})
    BY DEF WriterInv, CountInv, CountedBy, Statuses
  <2> QED
    BY <2>1, <2>2 DEF MetricsMatchLog
<1> QED
  BY <1>1, WritersInit, WritersStep, PTL DEF Spec

-----------------------------------------------------------------------------
(* The history.                                                            *)

(* The lines that the reader may have taken stay as they are.              *)
LEMMA LogGrows ==
  ASSUME WriterInv, [Next]_vars
  PROVE  /\ Len(file) \in Nat /\ Len(file') \in Nat /\ Len(file) <= Len(file')
         /\ \A i \in 1 .. Len(file) : Ended(i) => file'[i] = file[i]
         /\ ragged' => ragged \/ Len(file') = Len(file) + 1
<1> DEFINE Grown == /\ Len(file) <= Len(file')
                    /\ \A i \in 1 .. Len(file) : Ended(i) => file'[i] = file[i]
                    /\ ragged' => ragged \/ Len(file') = Len(file) + 1
<1>1. WriterInv'
  BY WritersStep
<1>2. Len(file) \in Nat /\ Len(file') \in Nat
  BY <1>1, LenProperties DEF WriterInv, LogType
<1>3. ASSUME UNCHANGED <<file, ragged>> PROVE Grown
  BY <1>2, <1>3
<1>4. ASSUME NEW r \in Requests, NEW ended \in BOOLEAN, NEW whole \in BOOLEAN,
             AddLine(r, ended, whole)
      PROVE  Grown
  BY <1>4, LineAdded DEF WriterInv
<1> HIDE DEF Grown
<1>5. ASSUME NEW r \in Requests, CutShort(r) PROVE Grown
  BY <1>3, <1>4, <1>5 DEF CutShort, log
<1>6. ASSUME NEW r \in Requests, Write(r) \/ WriteFails(r) PROVE Grown
  BY <1>4, <1>5, <1>6 DEF Write, WriteFails
<1>7. ASSUME NEW p \in Procs, Crash(p) PROVE Grown
  <2>1. mu[p] # "free" => mu[p] \in Requests
    BY DEF WriterInv, WriterType
  <2> QED
    BY <1>3, <1>5, <1>7, <2>1 DEF Crash, log
<1>8. ASSUME \/ \E r \in Requests : Arrive(r) \/ Preflight(r) \/ Run(r) \/ Observe(r) \/ Lock(r)
             \/ Open \/ Scan \/ EndOfFile \/ Close \/ UNCHANGED vars
      PROVE  Grown
  <2>1. UNCHANGED <<file, ragged>>
    BY <1>8 DEF Arrive, Preflight, Run, Observe, Lock, Open, Scan, EndOfFile, Close, vars, log
  <2> QED
    BY <2>1, <1>3
<1>9. Grown
  BY <1>6, <1>7, <1>8 DEF Next
<1> QED
  BY <1>2, <1>9 DEF Grown

(* The ring's positions: one round at most is wrapped.                     *)
LEMMA Wraps ==
  ASSUME NEW a \in Nat, a < 2 * Limit
  PROVE  a % Limit = IF a < Limit THEN a ELSE a - Limit
<1>1. Limit \in Nat /\ Limit > 0
  BY LimitAssumption
<1>2. CASE a < Limit
  BY <1>1, <1>2
<1>3. CASE ~(a < Limit)
  BY <1>1, <1>3
<1> QED
  BY <1>2, <1>3

LEMMA WrapsInside ==
  ASSUME NEW a \in Nat, a < 2 * Limit
  PROVE  (IF a < Limit THEN a + 1 ELSE a - Limit + 1) \in 1 .. Limit
<1>1. Limit \in Nat /\ Limit > 0
  BY LimitAssumption
<1>2. CASE a < Limit
  BY <1>1, <1>2
<1>3. CASE ~(a < Limit)
  BY <1>1, <1>3
<1> QED
  BY <1>2, <1>3

LEMMA ReaderClosed ==
  ASSUME history = NoReader
  PROVE  ReaderInv
<1>1. <<>> \in Seq(Line) /\ Len(<<>>) = 0
  BY EmptySeq
<1>2. Limit \in Nat /\ Limit > 0
  BY LimitAssumption
<1>3. NoReader \in Reader
  BY <1>1 DEF NoReader, Reader
<1> QED
  BY <1>1, <1>2, <1>3 DEF ReaderInv, NoReader

LEMMA SlotLine ==
  ASSUME NEW n \in Nat, n >= Limit, NEW pos \in 0 .. Limit - 1, NEW i \in 1 .. Limit
  PROVE  LineAt(n, pos, i) \in 1 .. n
  BY LimitAssumption DEF LineAt

LEMMA SlotAdvance ==
  ASSUME NEW n \in Nat, n >= Limit, NEW pos \in 0 .. Limit - 1, NEW i \in 1 .. Limit,
         NEW new, new = IF pos + 1 < Limit THEN pos + 1 ELSE 0
  PROVE  LineAt(n + 1, new, i) = IF i = pos + 1 THEN n + 1 ELSE LineAt(n, pos, i)
<1>1. Limit \in Nat /\ Limit > 0 /\ pos \in Nat /\ i \in Nat /\ i <= Limit /\ i > 0
  BY LimitAssumption
<1>2. CASE pos + 1 < Limit
  BY <1>1, <1>2 DEF LineAt
<1>3. CASE ~(pos + 1 < Limit)
  BY <1>1, <1>3 DEF LineAt
<1> QED
  BY <1>2, <1>3

(* What every step of a reader starts from.                                *)
LEMMA HeldParts ==
  ASSUME WriterInv, NEW h, Holds(h)
  PROVE  /\ h.next \in Nat \ {0} /\ h.from \in Nat
         /\ h.pos \in 0 .. Limit - 1 /\ h.pos \in Nat
         /\ h.ring \in Seq(Line) /\ h.full \in BOOLEAN
         /\ Limit \in Nat /\ Limit > 0 /\ Len(file) \in Nat /\ file \in Seq(Line)
         /\ Read(h) \in Nat /\ Read(h) + 1 = h.next
<1>1. file \in Seq(Line) /\ Len(file) \in Nat
  BY LenProperties DEF WriterInv, LogType
<1>2. h.next \in Nat \ {0} /\ Read(h) \in Nat /\ Read(h) + 1 = h.next
  BY DEF Holds, Reader, Read
<1> QED
  BY <1>1, <1>2, LimitAssumption DEF Holds, Reader

(* Whatever is written, a reader that has read lines with their end only   *)
(* holds what it held.                                                     *)
LEMMA HeldBeside ==
  ASSUME WriterInv, [Next]_vars, UNCHANGED history,
         Holds(history), ragged => Read(history) < Len(file)
  PROVE  Holds(history)' /\ (ragged' => Read(history)' < Len(file'))
<1> DEFINE h == history
           n == Read(history)
<1>1. /\ n \in Nat /\ n <= Len(file) /\ Len(file) \in Nat /\ Len(file') \in Nat
      /\ Len(file) <= Len(file') /\ h.from <= Len(file) /\ h.from \in Nat
      /\ Limit \in Nat /\ h.pos \in 0 .. Limit - 1 /\ h.full \in BOOLEAN
  BY HeldParts, LogGrows DEF Holds
<1>2. ASSUME NEW i \in 1 .. n PROVE file'[i] = file[i] /\ file[i].whole
  <2>1. i \in 1 .. Len(file) /\ Ended(i)
    BY <1>1 DEF Ended
  <2> QED
    BY <2>1, LogGrows DEF Holds
<1>3. history' = history /\ Read(history)' = n
  BY DEF Read
<1>4. CASE h.full
  <2>1. n >= Limit /\ Len(h.ring) = Limit
    BY <1>4 DEF Holds
  <2>2. ASSUME NEW i \in 1 .. Limit PROVE h.ring[i] = file'[LineAt(n, h.pos, i)]
    <3>1. LineAt(n, h.pos, i) \in 1 .. n
      BY <1>1, <2>1, SlotLine
    <3>2. h.ring[i] = file[LineAt(n, h.pos, i)]
      BY <1>4 DEF Holds
    <3> QED
      BY <3>1, <3>2, <1>2
  <2>3. /\ h \in Reader /\ Len(h.ring) <= Limit
        /\ n <= Len(file') /\ h.from <= Len(file') /\ \A i \in 1 .. n : file'[i].whole
    <3>1. h \in Reader /\ Len(h.ring) <= Limit
      BY DEF Holds
    <3>2. n <= Len(file') /\ h.from <= Len(file')
      BY <1>1
    <3>3. \A i \in 1 .. n : file'[i].whole
      BY <1>2
    <3> QED
      BY <3>1, <3>2, <3>3
  <2> HIDE DEF n
  <2>4. Holds(history)'
    BY <2>1, <2>2, <2>3, <1>1, <1>3, <1>4 DEF Holds, LineAt, n
  <2> QED
    BY <2>4, <1>1, <1>3, LogGrows
<1>5. CASE ~h.full
  <2>1. /\ h \in Reader /\ Len(h.ring) <= Limit
        /\ n < Limit /\ Len(h.ring) = n /\ h.pos = n
        /\ n <= Len(file') /\ h.from <= Len(file') /\ \A i \in 1 .. n : file'[i].whole
        /\ \A i \in 1 .. n : h.ring[i] = file'[i]
    BY <1>1, <1>2, <1>5 DEF Holds
  <2>2. Holds(history)'
    BY <2>1, <1>1, <1>3, <1>5 DEF Holds
  <2> QED
    BY <2>2, <1>1, <1>3, LogGrows
<1> QED
  BY <1>4, <1>5

(* The reader, one line on: its fields.                                    *)
LEMMA TookFields ==
  ASSUME WriterInv, Holds(history), NEW line \in Line, Stored(line) \in Seq(Line)
  PROVE  /\ Took(line) \in Reader
         /\ Took(line).from = history.from /\ Took(line).at = history.at
         /\ Read(Took(line)) = Read(history) + 1
         /\ Took(line).ring = Stored(line)
         /\ Took(line).full = (history.full \/ Len(history.ring) + 1 = Limit)
         /\ Took(line).pos = IF history.pos + 1 < Limit THEN history.pos + 1 ELSE 0
         /\ Took(line).pos \in 0 .. Limit - 1
<1>1. NextSlot = IF history.pos + 1 < Limit THEN history.pos + 1 ELSE 0
  <2> DEFINE a == history.pos + 1
  <2>1. a \in Nat /\ a < 2 * Limit /\ a <= Limit
    BY HeldParts
  <2>2. NextSlot = a % Limit
    BY DEF NextSlot
  <2> HIDE DEF a
  <2>3. a % Limit = IF a < Limit THEN a ELSE a - Limit
    BY <2>1, Wraps
  <2>4. NextSlot = IF a < Limit THEN a ELSE 0
    BY <2>1, <2>2, <2>3, HeldParts
  <2> QED
    BY <2>4 DEF a
<1>2. NextSlot \in 0 .. Limit - 1 /\ NextSlot \in Nat
  BY <1>1, HeldParts
<1> DEFINE full == history.full \/ Len(history.ring) + 1 = Limit
<1>3. history \in Reader /\ history.next + 1 \in Nat \ {0} /\ full \in BOOLEAN
  BY HeldParts DEF Holds
<1>4. Took(line) = [history EXCEPT !.next = history.next + 1, !.ring = Stored(line),
                                    !.full = full, !.pos = NextSlot]
  BY DEF Took
<1>5. /\ Took(line).from = history.from /\ Took(line).at = history.at
      /\ Took(line).next = history.next + 1 /\ Took(line).ring = Stored(line)
      /\ Took(line).pos = NextSlot
  BY <1>3, <1>4 DEF Reader
<1>6. Took(line).full = full
  BY <1>3, <1>4 DEF Reader
<1>7. Took(line) \in Reader
  <2> HIDE DEF full
  <2> QED
    BY <1>2, <1>3, <1>4 DEF Reader
<1>8. Read(Took(line)) = Read(history) + 1
  BY <1>5, HeldParts DEF Read
<1> QED
  BY <1>1, <1>2, <1>5, <1>6, <1>7, <1>8

(* A reader that takes the next line holds the last lines read.            *)
LEMMA TookHolds ==
  ASSUME WriterInv, Holds(history), history.next <= Len(file), file[history.next].whole
  PROVE  /\ Holds(Took(file[history.next])) /\ Read(Took(file[history.next])) = history.next
         /\ Took(file[history.next]).at = history.at
         /\ Took(file[history.next]).from = history.from
<1> DEFINE line == file[history.next]
           n == Read(history)
           m == Len(history.ring)
           t == Took(line)
<1>1. line \in Line
  BY HeldParts, LineParts
<1>2. n \in Nat /\ n + 1 = history.next /\ n + 1 <= Len(file)
  BY HeldParts
<1>3. \A i \in 1 .. n + 1 : file[i].whole
  <2>1. ASSUME NEW i \in 1 .. n + 1 PROVE i = history.next \/ i \in 1 .. n
    BY <1>2
  <2> QED
    BY <2>1 DEF Holds
<1>4. CASE ~history.full
  <2>1. m = n /\ history.pos = n /\ n < Limit /\ \A i \in 1 .. n : history.ring[i] = file[i]
    BY <1>4 DEF Holds
  <2>2. Stored(line) = Append(history.ring, line)
    BY <1>4 DEF Stored
  <2>3. /\ Stored(line) \in Seq(Line) /\ Len(Stored(line)) = m + 1
        /\ \A i \in 1 .. m + 1 : Stored(line)[i] = IF i = m + 1 THEN line ELSE history.ring[i]
    BY <1>1, <2>2, HeldParts, AppendProperties
  <2>4. ASSUME NEW i \in 1 .. n + 1 PROVE Stored(line)[i] = file[i]
    BY <1>2, <2>1, <2>3
  <2> HIDE DEF line, m, t
  <2>5. /\ t \in Reader /\ Read(t) = n + 1 /\ t.from = history.from /\ t.at = history.at
        /\ t.ring = Stored(line)
        /\ t.pos = (IF n + 1 < Limit THEN n + 1 ELSE 0) /\ t.pos \in 0 .. Limit - 1
    BY <1>1, <1>4, <2>1, <2>3, TookFields DEF t, m
  <2>10. t.full <=> n + 1 = Limit
    <3>1. t.full = (history.full \/ m + 1 = Limit)
      BY <1>1, <2>3, TookFields DEF t, m
    <3> QED
      BY <3>1, <2>1, <1>4
  <2>6. Len(t.ring) = n + 1 /\ n + 1 <= Limit /\ \A i \in 1 .. n + 1 : t.ring[i] = file[i]
    BY <2>1, <2>3, <2>4, <2>5, HeldParts
  <2>7. t.from <= Len(file)
    BY <2>5 DEF Holds
  <2>8. CASE n + 1 = Limit
    <3>1. t.full /\ t.pos = 0
      BY <2>5, <2>8, <2>10, <1>2, HeldParts
    <3>2. \A i \in 1 .. Limit : LineAt(Limit, 0, i) = i
      BY HeldParts DEF LineAt
    <3>3. \A i \in 1 .. Limit : t.ring[i] = file[LineAt(Read(t), t.pos, i)]
      BY <2>5, <2>6, <2>8, <3>1, <3>2
    <3>4. Read(t) >= Limit /\ Len(t.ring) = Limit
      BY <2>5, <2>6, <2>8, HeldParts
    <3>5. Holds(t)
      BY <3>1, <3>3, <3>4, <1>2, <1>3, <2>5, <2>6, <2>7 DEF Holds
    <3> QED
      BY <3>5, <2>5, <1>2 DEF t, line
  <2>9. CASE n + 1 # Limit
    <3>1. ~t.full /\ t.pos = n + 1 /\ Read(t) < Limit
      BY <2>1, <2>5, <2>9, <2>10, <1>2, HeldParts
    <3>2. Holds(t)
      BY <3>1, <1>2, <1>3, <2>5, <2>6, <2>7 DEF Holds
    <3> QED
      BY <3>2, <2>5, <1>2 DEF t, line
  <2> QED
    BY <2>8, <2>9
<1>5. CASE history.full
  <2>1. m = Limit /\ n >= Limit
    BY <1>5 DEF Holds
  <2>2. Stored(line) = [history.ring EXCEPT ![history.pos + 1] = line]
    BY <1>5 DEF Stored
  <2>3. history.pos + 1 \in 1 .. m
    BY <2>1, HeldParts
  <2>4. /\ Stored(line) \in Seq(Line) /\ Len(Stored(line)) = Limit
        /\ \A i \in 1 .. Limit :
              Stored(line)[i] = IF i = history.pos + 1 THEN line ELSE history.ring[i]
    BY <1>1, <2>1, <2>2, <2>3, HeldParts, ExceptSeq
  <2> HIDE DEF line, m, t
  <2>5. /\ t \in Reader /\ Read(t) = n + 1 /\ t.from = history.from /\ t.at = history.at
        /\ t.ring = Stored(line) /\ t.full
        /\ t.pos = (IF history.pos + 1 < Limit THEN history.pos + 1 ELSE 0)
        /\ t.pos \in 0 .. Limit - 1
    BY <1>1, <1>5, <2>4, TookFields DEF t
  <2>6. ASSUME NEW i \in 1 .. Limit
        PROVE  Stored(line)[i] = file[LineAt(n + 1, t.pos, i)]
    <3>1. LineAt(n + 1, t.pos, i) = IF i = history.pos + 1 THEN n + 1
                                    ELSE LineAt(n, history.pos, i)
      <4>1. n \in Nat /\ n >= Limit /\ history.pos \in 0 .. Limit - 1
        BY <1>2, <2>1, HeldParts
      <4> QED
        BY <4>1, <2>5, SlotAdvance
    <3>2. CASE i = history.pos + 1
      BY <3>1, <3>2, <2>4, <1>2 DEF line
    <3>3. CASE i # history.pos + 1
      <4>1. history.ring[i] = file[LineAt(n, history.pos, i)]
        BY <1>5 DEF Holds
      <4> QED
        BY <3>1, <3>3, <4>1, <2>4
    <3> QED
      BY <3>2, <3>3
  <2>7. Read(t) >= Limit /\ Len(t.ring) = Limit /\ t.from <= Len(file)
    BY <1>2, <2>1, <2>4, <2>5, HeldParts DEF Holds
  <2>8. \A i \in 1 .. Limit : t.ring[i] = file[LineAt(Read(t), t.pos, i)]
    BY <2>5, <2>6
  <2>9. Holds(t)
    <3>1. Len(t.ring) <= Limit /\ Read(t) <= Len(file) /\ \A i \in 1 .. Read(t) : file[i].whole
      BY <1>2, <1>3, <2>5, <2>7, HeldParts
    <3> QED
      BY <3>1, <2>5, <2>7, <2>8 DEF Holds
  <2> QED
    BY <2>5, <2>9, <1>2 DEF t, line
<1>6. history.full \in BOOLEAN
  BY HeldParts
<1> QED
  BY <1>4, <1>5, <1>6

(* The ring is unwound into the last lines read, in their order.           *)
LEMMA UnwoundLines ==
  ASSUME WriterInv, NEW h, Holds(h),
         NEW k, k = IF Read(h) < Limit THEN Read(h) ELSE Limit
  PROVE  /\ Unwound(h) \in Seq(Line) /\ Len(Unwound(h)) = k
         /\ \A i \in 1 .. k : Unwound(h)[i] = file[Read(h) - k + i]
<1>1. CASE ~h.full
  <2>1. Unwound(h) = h.ring /\ k = Read(h) /\ Len(h.ring) = Read(h)
    BY <1>1 DEF Unwound, Holds
  <2>2. \A i \in 1 .. Read(h) : h.ring[i] = file[i]
    BY <1>1 DEF Holds
  <2> QED
    BY <2>1, <2>2, HeldParts
<1>2. CASE h.full
  <2>1. Read(h) >= Limit /\ Len(h.ring) = Limit /\ k = Limit
    BY <1>2, HeldParts DEF Holds
  <2> DEFINE slot(i) == ((h.pos + i - 1) % Limit) + 1
  <2>2. Unwound(h) = [i \in 1 .. Limit |-> h.ring[slot(i)]]
    BY <1>2 DEF Unwound
  <2>3. ASSUME NEW i \in 1 .. Limit
        PROVE  /\ slot(i) \in 1 .. Limit
               /\ LineAt(Read(h), h.pos, slot(i)) = Read(h) - Limit + i
    <3> DEFINE a == h.pos + i - 1
    <3>1. a \in Nat /\ a < 2 * Limit
      BY HeldParts
    <3>2. slot(i) = (a % Limit) + 1
      OBVIOUS
    <3> HIDE DEF slot, a
    <3>3. a % Limit = IF a < Limit THEN a ELSE a - Limit
      BY <3>1, Wraps
    <3>4. slot(i) = IF a < Limit THEN a + 1 ELSE a - Limit + 1
      BY <3>1, <3>2, <3>3
    <3>5. slot(i) \in 1 .. Limit
      BY <3>1, <3>4, WrapsInside
    <3>6. CASE a < Limit
      <4>1. slot(i) = h.pos + i /\ slot(i) > h.pos
        BY <3>4, <3>6, HeldParts DEF a
      <4> QED
        BY <4>1, <3>5, HeldParts DEF LineAt
    <3>7. CASE ~(a < Limit)
      <4>1. slot(i) = h.pos + i - Limit /\ slot(i) <= h.pos
        BY <3>4, <3>7, HeldParts DEF a
      <4> QED
        BY <4>1, <3>5, HeldParts DEF LineAt
    <3> QED
      BY <3>1, <3>5, <3>6, <3>7
  <2> HIDE DEF slot
  <2>4. ASSUME NEW i \in 1 .. Limit PROVE h.ring[slot(i)] = file[Read(h) - Limit + i]
    BY <2>3, <1>2 DEF Holds
  <2>5. ASSUME NEW i \in 1 .. Limit PROVE h.ring[slot(i)] \in Line
    BY <2>1, <2>3, HeldParts, ElementOfSeq
  <2>6. Unwound(h) \in Seq(Line) /\ Len(Unwound(h)) = Limit
    <3>1. Unwound(h) \in [1 .. Limit -> Line]
      BY <2>2, <2>5
    <3> HIDE DEF Unwound
    <3>2. Limit \in Nat
      BY HeldParts
    <3> QED
      BY <3>1, <3>2
  <2> QED
    BY <2>1, <2>2, <2>4, <2>6
<1>3. h.full \in BOOLEAN
  BY HeldParts
<1> QED
  BY <1>1, <1>2, <1>3

LEMMA LastLines ==
  ASSUME NEW s \in Seq(Line), NEW n \in Nat, n <= Len(s), NEW k \in 0 .. n
  PROVE  /\ SubSeq(s, n - k + 1, n) \in Seq(Line) /\ Len(SubSeq(s, n - k + 1, n)) = k
         /\ \A i \in 1 .. k : SubSeq(s, n - k + 1, n)[i] = s[n - k + i]
<1> DEFINE m == n - k + 1
           t == SubSeq(s, m, n)
<1>1. m \in Int /\ n \in Int /\ m >= 1 /\ Len(s) \in Nat
  BY LenProperties
<1>2. \A i \in m .. n : s[i] \in Line
  BY <1>1, ElementOfSeq
<1> HIDE DEF m
<1>3. /\ t \in Seq(Line) /\ Len(t) = IF m <= n THEN n - m + 1 ELSE 0
      /\ \A i \in 1 .. n - m + 1 : t[i] = s[m + i - 1]
  BY <1>1, <1>2, SubSeqProperties
<1> HIDE DEF t
<1>4. n - m + 1 = k /\ \A i \in 1 .. k : m + i - 1 = n - k + i
  BY DEF m
<1>5. Len(t) = k
  BY <1>1, <1>3, <1>4
<1>6. \A i \in 1 .. k : t[i] = s[n - k + i]
  BY <1>3, <1>4
<1> QED
  BY <1>3, <1>5, <1>6 DEF t, m

(* A reader at the end of the file holds the end of the log.               *)
LEMMA EndOfLog ==
  ASSUME WriterInv, NEW h, Holds(h), Read(h) = Len(file)
  PROVE  /\ Unwound(h) = Trail!LastLines /\ Unwound(h) \in Seq(Line)
         /\ Len(Unwound(h)) = (IF Len(file) < Limit THEN Len(file) ELSE Limit)
         /\ \A i \in 1 .. Len(file) : file[i].whole
<1> DEFINE n == Len(file)
           k == IF n < Limit THEN n ELSE Limit
           last == SubSeq(file, n - k + 1, n)
<1>1. file \in Seq(Line) /\ n \in Nat /\ k \in 0 .. n
  BY HeldParts
<1>2. Unwound(h) \in Seq(Line) /\ Len(Unwound(h)) = k
      /\ \A i \in 1 .. k : Unwound(h)[i] = file[n - k + i]
  BY UnwoundLines
<1> HIDE DEF k
<1>3. last \in Seq(Line) /\ Len(last) = k /\ \A i \in 1 .. k : last[i] = file[n - k + i]
  BY <1>1, LastLines
<1>4. Trail!LastLines = last
  BY DEF Trail!LastLines, k
<1> HIDE DEF last
<1>5. Unwound(h) = last
  BY <1>2, <1>3, SeqEqual
<1>6. \A i \in 1 .. n : file[i].whole
  BY DEF Holds
<1> QED
  BY <1>2, <1>4, <1>5, <1>6 DEF k

(* What is answered is the last lines, in another order perhaps.           *)
LEMMA ArrangedLines ==
  ASSUME NEW s \in Seq(Line), NEW t \in Arranged(s)
  PROVE  /\ t \in Seq(Line) /\ Len(t) = Len(s)
         /\ {t[i] : i \in 1 .. Len(s)} = {s[i] : i \in 1 .. Len(s)}
<1>1. DOMAIN s = 1 .. Len(s) /\ Len(s) \in Nat
  BY LenProperties
<1>2. PICK f \in Bijection(DOMAIN s, DOMAIN s) : t = [i \in DOMAIN s |-> s[f[i]]]
  BY DEF Arranged
<1>3. /\ f \in [1 .. Len(s) -> 1 .. Len(s)]
      /\ \A j \in 1 .. Len(s) : \E i \in 1 .. Len(s) : f[i] = j
  BY <1>1, <1>2 DEF Bijection, Injection, Surjection
<1>4. \A i \in 1 .. Len(s) : t[i] = s[f[i]]
  BY <1>1, <1>2
<1>5. \A i \in 1 .. Len(s) : s[i] \in Line
  BY <1>1, ElementOfSeq
<1>6. t \in [1 .. Len(s) -> Line]
  BY <1>1, <1>2, <1>3, <1>5
<1>7. t \in Seq(Line) /\ Len(t) = Len(s)
  BY <1>1, <1>6
<1>8. {t[i] : i \in 1 .. Len(s)} = {s[i] : i \in 1 .. Len(s)}
  <2>1. ASSUME NEW i \in 1 .. Len(s) PROVE \E j \in 1 .. Len(s) : t[i] = s[j]
    BY <1>3, <1>4
  <2>2. ASSUME NEW j \in 1 .. Len(s) PROVE \E i \in 1 .. Len(s) : s[j] = t[i]
    BY <1>3, <1>4
  <2>3. ASSUME NEW x
        PROVE  x \in {t[i] : i \in 1 .. Len(s)} <=> x \in {s[i] : i \in 1 .. Len(s)}
    <3>1. ASSUME x \in {t[i] : i \in 1 .. Len(s)} PROVE x \in {s[i] : i \in 1 .. Len(s)}
      <4>1. PICK i \in 1 .. Len(s) : x = t[i]
        BY <3>1
      <4> QED
        BY <2>1, <4>1
    <3>2. ASSUME x \in {s[i] : i \in 1 .. Len(s)} PROVE x \in {t[i] : i \in 1 .. Len(s)}
      <4>1. PICK i \in 1 .. Len(s) : x = s[i]
        BY <3>2
      <4> QED
        BY <2>2, <4>1
    <3> QED
      BY <3>1, <3>2
  <2> QED
    BY <2>3
<1> QED
  BY <1>7, <1>8

LEMMA AnswersTail ==
  ASSUME WriterInv, NEW h, Holds(h), Read(h) = Len(file), Answers(h)
  PROVE  /\ history' \in Reader /\ history'.at = "answered"
         /\ history'.pos \in 0 .. Limit - 1 /\ Len(history'.ring) <= Limit
         /\ history'.answer \in Arranged(Trail!LastLines) /\ InOrder(history'.answer)
<1>1. PICK s \in Arranged(Unwound(h)) :
         InOrder(s) /\ history' = [h EXCEPT !.at = "answered", !.answer = s]
  BY DEF Answers
<1>2. Unwound(h) \in Seq(Line) /\ Unwound(h) = Trail!LastLines
  BY EndOfLog
<1>3. s \in Seq(Line)
  BY <1>2, ArrangedLines
<1>4. h \in Reader /\ h.pos \in 0 .. Limit - 1 /\ Len(h.ring) <= Limit
  BY DEF Holds
<1>5. /\ history' \in Reader /\ history'.at = "answered" /\ history'.answer = s
      /\ history'.pos = h.pos /\ history'.ring = h.ring
  BY <1>1, <1>3, <1>4 DEF Reader
<1> QED
  BY <1>1, <1>2, <1>4, <1>5

(* Every way in which an answer is given.                                  *)
LEMMA AnswerStep ==
  ASSUME WriterInv, ReaderInv, [Next]_vars, history.at = "scan", history'.at = "answered"
  PROVE  /\ UNCHANGED log
         /\ \E h : Holds(h) /\ Read(h) = Len(file) /\ Answers(h) /\ h.from = history.from
<1>1. Holds(history) /\ history \in Reader
  BY DEF ReaderInv
<1>2. EndOfFile \/ Scan
  BY <1>1 DEF Next, Arrive, Preflight, Run, Observe, Lock, Write, WriteFails, Crash, vars,
              Open, Close, NoReader
<1>3. CASE EndOfFile
  <2>1. Read(history) = Len(file)
    BY <1>1, <1>3, HeldParts DEF EndOfFile, Holds
  <2> QED
    BY <1>1, <1>3, <2>1 DEF EndOfFile
<1>4. CASE Scan
  <2> DEFINE line == file[history.next]
             h == Took(line)
  <2>1. history.next <= Len(file) /\ UNCHANGED log
    BY <1>4 DEF Scan
  <2>2. CASE ~line.whole /\ history' = [history EXCEPT !.at = "error"]
    BY <2>2, <1>1 DEF Reader
  <2>3. CASE line.whole /\ history' = h
    <3>1. h.at = "scan"
      BY <1>1, <2>1, <2>3, TookHolds
    <3> HIDE DEF h
    <3> QED
      BY <3>1, <2>3
  <2>4. CASE line.whole /\ history.next = Len(file) /\ Answers(h)
    <3>1. Holds(h) /\ Read(h) = history.next /\ h.from = history.from
      BY <1>1, <2>1, <2>4, TookHolds
    <3> HIDE DEF h
    <3> QED
      BY <3>1, <2>1, <2>4
  <2> QED
    BY <1>4, <2>1, <2>2, <2>3, <2>4 DEF Scan
<1> QED
  BY <1>2, <1>3, <1>4

LEMMA StepOpen ==
  ASSUME WriterInv, ReaderInv, Open
  PROVE  ReaderInv'
<1>1. history = NoReader /\ UNCHANGED <<file, ragged>>
  BY DEF Open, ReaderInv, log
<1>2. <<>> \in Seq(Line) /\ Len(<<>>) = 0 /\ Len(file) \in Nat /\ Limit \in Nat /\ Limit > 0
  BY EmptySeq, LenProperties, LimitAssumption DEF WriterInv, LogType
<1>3. CASE ~created
  <2>1. history' = [at |-> "error", from |-> 0, next |-> 1, ring |-> <<>>, pos |-> 0,
                    full |-> FALSE, answer |-> <<>>]
    BY <1>1, <1>3 DEF Open, NoReader
  <2> QED
    BY <1>2, <2>1 DEF ReaderInv, Reader
<1>4. CASE created
  <2>1. history' = [at |-> "scan", from |-> Len(file), next |-> 1, ring |-> <<>>, pos |-> 0,
                    full |-> FALSE, answer |-> <<>>]
    BY <1>1, <1>4 DEF Open, NoReader
  <2>2. history' \in Reader
    BY <1>2, <2>1 DEF Reader
  <2>3. /\ history'.at = "scan" /\ history'.from = Len(file) /\ history'.next = 1
        /\ history'.ring = <<>> /\ history'.pos = 0
    BY <2>1
  <2>4. history'.full = FALSE
    BY <2>1
  <2>5. Read(history)' = 0
    BY <2>3 DEF Read
  <2>6. Holds(history)'
    BY <1>1, <1>2, <2>2, <2>3, <2>4, <2>5 DEF Holds
  <2>7. ragged' => Read(history)' < Len(file')
    BY <1>1, <1>2, <2>5 DEF WriterInv, EndInv
  <2> QED
    BY <1>2, <2>2, <2>3, <2>6, <2>7 DEF ReaderInv
<1> QED
  BY <1>3, <1>4

LEMMA StepScan ==
  ASSUME WriterInv, ReaderInv, Scan
  PROVE  ReaderInv'
<1> DEFINE line == file[history.next]
           h == Took(line)
<1>1. /\ history.at = "scan" /\ history.next <= Len(file) /\ UNCHANGED <<file, ragged>>
      /\ Holds(history) /\ history \in Reader
      /\ history.pos \in 0 .. Limit - 1 /\ Len(history.ring) <= Limit
  BY DEF Scan, ReaderInv, log
<1>2. CASE ~line.whole /\ history' = [history EXCEPT !.at = "error"]
  BY <1>1, <1>2 DEF ReaderInv, Reader
<1>3. CASE line.whole
  <2>1. Holds(h) /\ Read(h) = history.next /\ h.at = "scan"
    BY <1>1, <1>3, TookHolds
  <2> HIDE DEF h
  <2>2. CASE ~(ragged /\ history.next = Len(file)) /\ history' = h
    <3>1. Read(history)' = Read(h)
      BY <2>2 DEF Read
    <3>2. Holds(history)'
      BY <1>1, <2>1, <2>2, <3>1 DEF Holds, LineAt
    <3>3. ragged => Read(h) < Len(file)
      BY <1>1, <2>1, <2>2, HeldParts
    <3> QED
      BY <1>1, <2>1, <2>2, <3>1, <3>2, <3>3 DEF ReaderInv, Holds
  <2>3. CASE history.next = Len(file) /\ Answers(h)
    BY <2>1, <2>3, AnswersTail DEF ReaderInv
  <2> QED
    BY <1>3, <2>2, <2>3 DEF Scan, h
<1> QED
  BY <1>2, <1>3 DEF Scan

LEMMA ReaderStep ==
  ASSUME WriterInv, ReaderInv, [Next]_vars
  PROVE  ReaderInv'
<1>1. CASE Open
  BY <1>1, StepOpen
<1>2. CASE Scan
  BY <1>2, StepScan
<1>3. CASE EndOfFile
  <2>1. Holds(history) /\ Answers(history) /\ history.next > Len(file)
    BY <1>3 DEF EndOfFile, ReaderInv
  <2>2. Read(history) = Len(file)
    BY <2>1, HeldParts DEF Holds
  <2> QED
    BY <2>1, <2>2, AnswersTail DEF ReaderInv
<1>4. CASE Close
  <2>1. history' = NoReader
    BY <1>4 DEF Close
  <2>2. <<>> \in Seq(Line) /\ Len(<<>>) = 0 /\ Limit \in Nat /\ Limit > 0
    BY EmptySeq, LimitAssumption
  <2> QED
    BY <2>1, <2>2 DEF ReaderInv, Reader, NoReader
<1>5. CASE UNCHANGED history
  <2>1. history.at = "scan" => Holds(history)' /\ (ragged' => Read(history)' < Len(file'))
    BY <1>5, HeldBeside DEF ReaderInv
  <2> QED
    BY <1>5, <2>1 DEF ReaderInv
<1>6. \/ Open \/ Scan \/ EndOfFile \/ Close
      \/ UNCHANGED history
  BY DEF Next, Arrive, Preflight, Run, Observe, Lock, Write, WriteFails, Crash, vars
<1> QED
  BY <1>1, <1>2, <1>3, <1>4, <1>5, <1>6

LEMMA ReaderInvariant == Spec => [](WriterInv /\ ReaderInv)
<1>1. Init => WriterInv /\ ReaderInv
  BY WritersInit, ReaderClosed DEF Init
<1>2. WriterInv /\ ReaderInv /\ [Next]_vars => (WriterInv /\ ReaderInv)'
  BY WritersStep, ReaderStep
<1> QED
  BY <1>1, <1>2, PTL DEF Spec

(* The variables keep their types, the ring its limit, and no metric       *)
(* counts more results than there are requests.                            *)
THEOREM TypeCorrect == Spec => []TypeOK
<1>1. WriterInv /\ ReaderInv => TypeOK
  <2> SUFFICES ASSUME WriterInv, ReaderInv PROVE TypeOK
    OBVIOUS
  <2>1. runs \in [Procs -> [{"ok", "error"} -> 0 .. Cardinality(Requests)]]
    <3>1. ASSUME NEW p \in Procs, NEW s \in Statuses
          PROVE  runs[p][s] \in 0 .. Cardinality(Requests)
      <4>1. runs[p][s] = Cardinality(CountedBy(p, s))
        BY DEF WriterInv, CountInv
      <4>2. Cardinality(Requests) \in Nat
        BY FS_CardinalityType, RequestsAssumption
      <4> QED
        BY <4>1, <4>2, CountedFinite
    <3>2. runs \in [Procs -> [Statuses -> Nat]]
      BY DEF WriterInv, WriterType
    <3> QED
      BY <3>1, <3>2 DEF Statuses
  <2>2. history.ring \in Seq(Line) /\ Len(history.ring) <= Limit /\ history.pos \in 0 .. Limit - 1
    BY DEF ReaderInv, Reader
  <2> QED
    BY <2>1, <2>2 DEF TypeOK, WriterInv, WriterType, LogType, Places
<1> QED
  BY <1>1, ReaderInvariant, PTL

(* What is answered are the last entries of the log, each once and in the  *)
(* order of their start, for every limit, whatever the clocks said and     *)
(* however the log grows or is cut while it is read.                       *)
THEOREM HistoryIsEnd == Spec => HistoryIsTail
<1> DEFINE n == Len(file)
           k == IF n < Limit THEN n ELSE Limit
           A == history.at = "scan" /\ history'.at = "answered" =>
                  /\ n >= history.from
                  /\ \A i \in 1 .. n : file[i].whole
                  /\ Len(history'.answer) = k
                  /\ {history'.answer[i] : i \in 1 .. k} = {file[i] : i \in n - k + 1 .. n}
                  /\ InOrder(history'.answer)
<1>1. WriterInv /\ ReaderInv /\ [Next]_vars => A
  <2> SUFFICES ASSUME WriterInv, ReaderInv, [Next]_vars,
                      history.at = "scan", history'.at = "answered"
               PROVE  A
    OBVIOUS
  <2>1. PICK h : Holds(h) /\ Read(h) = n /\ Answers(h) /\ h.from = history.from
    BY AnswerStep
  <2>2. /\ Trail!LastLines \in Seq(Line) /\ Len(Trail!LastLines) = k
        /\ \A i \in 1 .. n : file[i].whole
    BY <2>1, EndOfLog
  <2> DEFINE last == SubSeq(file, n - k + 1, n)
  <2>3. n \in Nat /\ k \in 0 .. n /\ file \in Seq(Line)
    BY <2>1, HeldParts
  <2>4. Trail!LastLines = last
    BY DEF Trail!LastLines
  <2> HIDE DEF k
  <2>5. Len(last) = k /\ \A i \in 1 .. k : last[i] = file[n - k + i]
    BY <2>3, LastLines
  <2> HIDE DEF last
  <2>6. {last[i] : i \in 1 .. k} = {file[i] : i \in n - k + 1 .. n}
    <3>1. ASSUME NEW i \in 1 .. k PROVE \E j \in n - k + 1 .. n : last[i] = file[j]
      <4>1. n - k + i \in n - k + 1 .. n
        BY <2>3
      <4> QED
        BY <4>1, <2>5
    <3>2. ASSUME NEW j \in n - k + 1 .. n PROVE \E i \in 1 .. k : file[j] = last[i]
      <4>1. j - (n - k) \in 1 .. k /\ n - k + (j - (n - k)) = j
        BY <2>3
      <4> QED
        BY <4>1, <2>5
    <3> QED
      BY <3>1, <3>2
  <2>7. history'.answer \in Arranged(last) /\ InOrder(history'.answer)
    BY <2>1, <2>4, AnswersTail
  <2>8. /\ Len(history'.answer) = k
        /\ {history'.answer[i] : i \in 1 .. k} = {last[i] : i \in 1 .. k}
    BY <2>2, <2>4, <2>5, <2>7, ArrangedLines
  <2>9. n >= history.from
    BY <2>1 DEF Holds
  <2> QED
    BY <2>2, <2>6, <2>7, <2>8, <2>9
<1>2. WriterInv /\ ReaderInv /\ [Next]_vars => [A]_vars
  BY <1>1
<1> QED
  BY <1>2, ReaderInvariant, PTL DEF Spec, HistoryIsTail

-----------------------------------------------------------------------------
(* The log as one that is written and read in one step each.               *)

LEMMA AddLineLogs ==
  ASSUME WriterInv, NEW r \in Requests, pc[r] = "write",
         NEW ended \in BOOLEAN, NEW whole \in BOOLEAN,
         AddLine(r, ended, whole), UNCHANGED history
  PROVE  Trail!Log(r)
<1>1. /\ file \in Seq(Line) /\ Len(file) \in Nat /\ DOMAIN file = 1 .. Len(file)
      /\ EndInv
  BY LenProperties DEF WriterInv, LogType
<1>2. r \notin Trail!Logged
  BY <1>1 DEF WriterInv, LineInv, Trail!Logged
<1>3. ragged' \in BOOLEAN /\ created' = TRUE /\ UNCHANGED <<history.at, history.answer>>
  BY DEF AddLine
<1>4. CASE ~ragged
  BY <1>2, <1>3, <1>4 DEF AddLine, Trail!Log
<1>5. CASE ragged
  <2>1. Len(file) \in DOMAIN file
    BY <1>1, <1>5 DEF EndInv
  <2>2. file' = [file EXCEPT ![Len(file)] =
                    [of |-> file[Len(file)].of \cup {r}, whole |-> FALSE]]
    BY <1>5, <1>1, <2>1 DEF AddLine
  <2> QED
    BY <1>2, <1>3, <1>5, <2>2 DEF Trail!Log
<1> QED
  BY <1>4, <1>5

LEMMA CutShortLogs ==
  ASSUME WriterInv, NEW r \in Requests, pc[r] = "write", CutShort(r), UNCHANGED history
  PROVE  [Trail!Next]_Trail!trailVars
<1>1. CASE UNCHANGED log
  BY <1>1 DEF log, Trail!trailVars
<1>2. CASE created' = TRUE /\ UNCHANGED <<file, ragged>>
  BY <1>2 DEF Trail!Next, Trail!Create
<1>3. CASE \E whole \in BOOLEAN : AddLine(r, FALSE, whole)
  BY <1>3, AddLineLogs DEF Trail!Next
<1> QED
  BY <1>1, <1>2, <1>3 DEF CutShort

LEMMA AnswerLogs ==
  ASSUME WriterInv, ReaderInv, [Next]_vars, history.at = "scan", history'.at = "answered"
  PROVE  Trail!Answer
<1>1. UNCHANGED <<file, ragged, created>>
  BY AnswerStep DEF log
<1>2. PICK h : Holds(h) /\ Read(h) = Len(file) /\ Answers(h)
  BY AnswerStep
<1>3. \A i \in 1 .. Len(file) : file[i].whole
  BY <1>2, EndOfLog
<1>4. Trail!Readable
  BY <1>3, LenProperties DEF Trail!Readable, WriterInv, LogType
<1>5. history'.answer \in Arranged(Trail!LastLines) /\ InOrder(history'.answer)
  BY <1>2, AnswersTail
<1>6. history'.answer \in Trail!Arranged(Trail!LastLines) /\ Trail!InOrder(history'.answer)
  BY <1>5 DEF Arranged, Trail!Arranged, InOrder, Trail!InOrder, Bijection, Trail!Bijection,
              Injection, Trail!Injection, Surjection, Trail!Surjection, IsInjective,
              Trail!IsInjective
<1> QED
  BY <1>1, <1>4, <1>6 DEF Trail!Answer

LEMMA TrailStep ==
  ASSUME WriterInv, ReaderInv, [Next]_vars
  PROVE  [Trail!Next]_Trail!trailVars
<1>1. CASE UNCHANGED <<log, history>>
  BY <1>1 DEF log, Trail!trailVars
<1>2. ASSUME NEW r \in Requests, Write(r) \/ WriteFails(r)
      PROVE  [Trail!Next]_Trail!trailVars
  <2>1. CASE Write(r)
    BY <2>1, AddLineLogs DEF Write, Trail!Next
  <2>2. CASE WriteFails(r)
    BY <2>2, CutShortLogs DEF WriteFails
  <2> QED
    BY <1>2, <2>1, <2>2
<1>3. ASSUME NEW p \in Procs, Crash(p)
      PROVE  [Trail!Next]_Trail!trailVars
  <2>1. CASE mu[p] = "free"
    BY <1>1, <1>3, <2>1 DEF Crash
  <2>2. CASE mu[p] # "free"
    <3>1. mu[p] \in Requests /\ pc[mu[p]] = "write"
      BY <2>2 DEF WriterInv, WriterType, MutexInv
    <3> QED
      BY <1>3, <2>2, <3>1, CutShortLogs DEF Crash
  <2> QED
    BY <2>1, <2>2
<1>4. CASE Open
  <2>1. history \in Reader
    BY DEF ReaderInv
  <2>2. /\ history'.at = (IF created THEN "scan" ELSE "error")
        /\ history'.answer = history.answer
    BY <1>4, <2>1 DEF Open, Reader
  <2> QED
    BY <1>4, <2>2 DEF Open, log, Trail!Next, Trail!Ask
<1>5. CASE Scan
  <2> DEFINE line == file[history.next]
  <2>1. /\ history \in Reader /\ Holds(history) /\ history.at = "scan"
        /\ history.next \in 1 .. Len(file) /\ UNCHANGED <<file, ragged, created>>
    BY <1>5, HeldParts DEF ReaderInv, Scan, log
  <2>2. CASE ~line.whole /\ history' = [history EXCEPT !.at = "error"]
    <3>1. history'.at = "error" /\ history'.answer = history.answer
      BY <2>1, <2>2 DEF Reader
    <3>2. ~Trail!Readable
      BY <2>1, <2>2, HeldParts, LenProperties DEF Trail!Readable
    <3> QED
      BY <2>1, <3>1, <3>2 DEF Trail!Next, Trail!Refuse
  <2>3. CASE history' = Took(line)
    <3>1. history'.at = history.at /\ history'.answer = history.answer
      BY <2>1, <2>3 DEF Took, Reader
    <3> QED
      BY <2>1, <3>1 DEF Trail!trailVars
  <2>4. CASE line.whole /\ history.next = Len(file) /\ Answers(Took(line))
    <3>1. history'.at = "answered"
      BY <2>1, <2>4, TookHolds, AnswersTail
    <3> QED
      BY <2>1, <3>1, AnswerLogs DEF Trail!Next
  <2> QED
    BY <1>5, <2>2, <2>3, <2>4 DEF Scan
<1>6. CASE EndOfFile
  <2>1. /\ history.at = "scan" /\ Holds(history) /\ Answers(history)
        /\ history.next > Len(file)
    BY <1>6 DEF EndOfFile, ReaderInv
  <2>2. Read(history) = Len(file)
    BY <2>1, HeldParts DEF Holds
  <2>3. history'.at = "answered"
    BY <2>1, <2>2, AnswersTail
  <2> QED
    BY <2>1, <2>3, AnswerLogs DEF Trail!Next
<1>7. CASE Close
  BY <1>7 DEF Close, NoReader, log, Trail!Next, Trail!Close
<1>8. CASE \/ \E r \in Requests : Arrive(r) \/ Preflight(r) \/ Run(r) \/ Observe(r) \/ Lock(r)
           \/ UNCHANGED vars
  BY <1>1, <1>8 DEF Arrive, Preflight, Run, Observe, Lock, vars
<1>9. CASE \E r \in Requests : Write(r) \/ WriteFails(r)
  BY <1>2, <1>9
<1>10. CASE \E p \in Procs : Crash(p)
  BY <1>3, <1>10
<1> QED
  BY <1>4, <1>5, <1>6, <1>7, <1>8, <1>9, <1>10 DEF Next

(* Many processes, cut writes and a reader that takes the growing file     *)
(* line by line are together a log that is written and read in one step    *)
(* each: the history has the last entries of the log at one moment of its  *)
(* request, and is an error only if there is no log or a line in it is     *)
(* unreadable (record, History and decodeTailAuditLog, service.go).        *)
THEOREM LogIsTrail == Spec => ImplementsTrail
<1>1. Init => Trail!Init
  BY DEF Init, NoReader, Trail!Init
<1>2. WriterInv /\ ReaderInv /\ [Next]_vars => [Trail!Next]_Trail!trailVars
  BY TrailStep
<1> QED
  BY <1>1, <1>2, ReaderInvariant, PTL DEF Spec, ImplementsTrail, Trail!Spec

(* An entry that could be read once, and that has its end, can be read for *)
(* ever, in its place, and none is in the log twice, whatever process is   *)
(* killed in the middle of which line; the one exception is an entry cut   *)
(* just before its newline, which the next result spoils (service.go,      *)
(* record).                                                                *)
THEOREM EntriesStay == Spec => Trail!ReadableStays /\ []Trail!EachOnce
<1>1. WriterInv /\ [Next]_vars
        => [\A i \in DOMAIN file : file[i].whole /\ ~(ragged /\ i = Len(file))
              => i \in DOMAIN file' /\ file'[i] = file[i]]_file
  <2> SUFFICES ASSUME WriterInv, [Next]_vars, NEW i \in DOMAIN file,
                      ~(ragged /\ i = Len(file))
               PROVE  i \in DOMAIN file' /\ file'[i] = file[i]
    OBVIOUS
  <2>1. file \in Seq(Line) /\ file' \in Seq(Line)
    BY WritersStep DEF WriterInv, LogType
  <2>2. DOMAIN file = 1 .. Len(file) /\ DOMAIN file' = 1 .. Len(file')
    BY <2>1, LenProperties
  <2>3. Ended(i)
    BY <2>2 DEF Ended
  <2>4. i \in 1 .. Len(file) /\ i \in 1 .. Len(file')
    <3>1. i \in 1 .. Len(file)
      BY <2>2
    <3>2. Len(file) \in Nat /\ Len(file') \in Nat /\ Len(file) <= Len(file')
      BY LogGrows
    <3> QED
      BY <3>1, <3>2
  <2>5. file'[i] = file[i]
    BY <2>3, <2>4, LogGrows
  <2> QED
    BY <2>2, <2>4, <2>5
<1>2. WriterInv => Trail!EachOnce
  <2> SUFFICES ASSUME WriterInv, NEW i \in DOMAIN file, NEW j \in DOMAIN file,
                      file[i].of \cap file[j].of # {}
               PROVE  i = j
    BY DEF Trail!EachOnce
  <2>1. file \in Seq(Line) /\ i \in 1 .. Len(file) /\ j \in 1 .. Len(file)
    BY LenProperties DEF WriterInv, LogType
  <2>2. file[i].of \subseteq Requests
    BY <2>1, LineParts
  <2> QED
    BY <2>1, <2>2 DEF WriterInv, LineInv
<1> QED
  BY <1>1, <1>2, ReaderInvariant, PTL DEF Spec, Trail!ReadableStays
=============================================================================
