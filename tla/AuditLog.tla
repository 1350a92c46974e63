------------------------------ MODULE AuditLog -------------------------------
(***************************************************************************)
(* The service layer (src/internal/replication/service.go, metrics.go and  *)
(* the handlers of src/main.go): every command counts its result in the    *)
(* metrics of its process and appends it as one line to the audit log; the *)
(* history reads the last lines back through a ring buffer and sorts them  *)
(* by the time their commands started.                                     *)
(*                                                                         *)
(* The log is one file.  The requests of a process take turns by the       *)
(* process's mutex; processes (the service, commands with -audit-log) know *)
(* nothing of each other, and nothing keeps the reader from reading while  *)
(* lines are added.  A write may be cut short, by a full disk or the end   *)
(* of the process, and leaves a line without its end: the next line of the *)
(* log continues it.  Cut just before its newline, the line is an entry    *)
(* that is read until then.                                                *)
(***************************************************************************)
EXTENDS Naturals, Sequences, FiniteSets, Functions

CONSTANTS
    Procs,          \* the processes
    Requests,       \* what they are asked for
    Proc,           \* the process of each request
    Operations,     \* the requests that check SSH first (promote, rejoin)
    Start,          \* CommandResult.StartedAt, by whatever clock, of each
    Limit,          \* how many entries the history returns
    MaxFaults       \* bound on failed writes and crashes

ASSUME LimitAssumption == Limit \in Nat \ {0}
ASSUME RequestsAssumption ==
    /\ IsFiniteSet(Requests) /\ "free" \notin Requests
    /\ Proc \in [Requests -> Procs]
    /\ Start \in [Requests -> Nat]
    /\ MaxFaults \in Nat

VARIABLES
    pc,             \* where each request is
    status,         \* CommandResult.Status
    mu,             \* Service.mu: the request that holds it, or "free"
    runs,           \* Metrics.counters: runs by process and status
    file,           \* the log, line by line
    ragged,         \* the log's last line has no end yet
    created,        \* there is a log: nobody but a writer creates it
    history,        \* Service.History and decodeTailAuditLog: the reader
    faults          \* failed writes and crashes so far

writers == <<pc, status, mu, runs>>
log == <<file, ragged, created>>
vars == <<writers, log, history, faults>>

Line == [of : SUBSET Requests, whole : BOOLEAN]
NoReader == [at |-> "closed", from |-> 0, next |-> 1, ring |-> <<>>, pos |-> 0, full |-> FALSE,
             answer |-> <<>>]

Init ==
    /\ pc = [r \in Requests |-> "idle"]
    /\ status = [r \in Requests |-> "none"]
    /\ mu = [p \in Procs |-> "free"]
    /\ runs = [p \in Procs |-> [s \in {"ok", "error"} |-> 0]]
    /\ file = <<>>
    /\ ragged = FALSE
    /\ created = FALSE
    /\ history = NoReader
    /\ faults = 0

(***************************************************************************)
(* A request.                                                              *)
(***************************************************************************)

Goto(r, l) == pc' = [pc EXCEPT ![r] = l]

Arrive(r) ==
    /\ pc[r] = "idle"
    /\ Goto(r, IF r \in Operations THEN "preflight" ELSE "run")
    /\ UNCHANGED <<status, mu, runs, log, history, faults>>

\* CheckSSHConnectivity; its failure is answered at once and recorded nowhere.
Preflight(r) ==
    /\ pc[r] = "preflight"
    /\ \/ Goto(r, "run") /\ UNCHANGED status
       \/ Goto(r, "refused") /\ status' = [status EXCEPT ![r] = "error"]
    /\ UNCHANGED <<mu, runs, log, history, faults>>

\* Loading, validating and the command itself: each failure makes a result.
Run(r) ==
    /\ pc[r] = "run"
    /\ \E s \in {"ok", "error"} : status' = [status EXCEPT ![r] = s]
    /\ Goto(r, "observe")
    /\ UNCHANGED <<mu, runs, log, history, faults>>

\* (Mutant of Counted.)  Only successes are counted.
CountedIfOk(r) == IF status[r] = "ok" THEN 1 ELSE 0
Counted(r) == 1

Observe(r) ==
    /\ pc[r] = "observe"
    /\ runs' = [runs EXCEPT ![Proc[r]][status[r]] = @ + Counted(r)]
    /\ Goto(r, "lock")
    /\ UNCHANGED <<status, mu, log, history, faults>>

Lock(r) ==
    /\ pc[r] = "lock"
    /\ mu[Proc[r]] = "free"
    /\ mu' = [mu EXCEPT ![Proc[r]] = r]
    /\ Goto(r, "write")
    /\ UNCHANGED <<status, runs, log, history, faults>>

Unlock(r) == mu' = [mu EXCEPT ![Proc[r]] = "free"]

\* (Mutant of AddLine.)  The file is opened with O_TRUNC.
AddLineAnew(r, ended, whole) ==
    /\ file' = <<[of |-> {r}, whole |-> whole]>>
    /\ ragged' = ~ended
    /\ created' = TRUE

\* A write to a file opened with O_APPEND and O_CREATE: it continues a line
\* without end, and two entries on a line are none.  Only a line that is an
\* entry, and that fits the reader's buffer, is whole.
AddLine(r, ended, whole) ==
    /\ file' = IF ragged
               THEN [file EXCEPT ![Len(file)] = [of |-> @.of \cup {r}, whole |-> FALSE]]
               ELSE Append(file, [of |-> {r}, whole |-> whole])
    /\ ragged' = ~ended
    /\ created' = TRUE

\* What is left of a record that is given up or cut short: nothing, a file
\* without the line, a part of the line, or all of it but the newline.
CutShort(r) ==
    \/ UNCHANGED log
    \/ created' = TRUE /\ UNCHANGED <<file, ragged>>
    \/ \E whole \in BOOLEAN : AddLine(r, FALSE, whole)

\* A result with the long output of a command may be more than bufio.Scanner
\* takes, 64 KiB.
Write(r) ==
    /\ pc[r] = "write"
    /\ \E fits \in BOOLEAN : AddLine(r, TRUE, fits)
    /\ Unlock(r)
    /\ Goto(r, "logged")
    /\ UNCHANGED <<status, runs, history, faults>>

\* The directory, the file or the write fails: a message in the process's own
\* log, and the command's result is as good as before.
WriteFails(r) ==
    /\ pc[r] = "write" /\ faults < MaxFaults
    /\ faults' = faults + 1
    /\ CutShort(r)
    /\ Unlock(r)
    /\ Goto(r, "unlogged")
    /\ UNCHANGED <<status, runs, history>>

\* A process dies and starts anew, with empty metrics and a free mutex; the
\* write that its holder was at may be cut short.
Crash(p) ==
    /\ faults < MaxFaults
    /\ \E r \in Requests : Proc[r] = p /\ pc[r] \notin {"idle", "dead"}
    /\ faults' = faults + 1
    /\ IF mu[p] = "free" THEN UNCHANGED log ELSE CutShort(mu[p])
    /\ pc' = [r \in Requests |-> IF Proc[r] = p /\ pc[r] # "idle" THEN "dead" ELSE pc[r]]
    /\ mu' = [mu EXCEPT ![p] = "free"]
    /\ runs' = [runs EXCEPT ![p] = [s \in {"ok", "error"} |-> 0]]
    /\ UNCHANGED <<status, history>>

(***************************************************************************)
(* The history.                                                            *)
(***************************************************************************)

\* os.Open: without a log the history is an error.
Open ==
    /\ history.at = "closed"
    /\ history' = IF created
                  THEN [history EXCEPT !.at = "scan", !.from = Len(file)]
                  ELSE [history EXCEPT !.at = "error"]
    /\ UNCHANGED <<writers, log, faults>>

\* (Mutant of NextSlot.)  The ring is one slot too long.
SlotPastLimit == (history.pos + 1) % (Limit + 1)
\* The slot of the ring that is written next.
NextSlot == (history.pos + 1) % Limit

\* (Mutant of Stored.)  A full ring is left as it is.
KeepsFirst(line) == IF history.full THEN history.ring ELSE Append(history.ring, line)
\* The ring grows until it holds Limit entries; slots count from 0.
Stored(line) ==
    LET ring == history.ring IN
    IF ~history.full THEN Append(ring, line) ELSE [ring EXCEPT ![history.pos + 1] = line]

\* The reader, one line on.
Took(line) == [history EXCEPT
                 !.next = @ + 1,
                 !.ring = Stored(line),
                 !.full = @ \/ Len(history.ring) + 1 = Limit,
                 !.pos = NextSlot]

\* The ring of the reader h from its oldest entry on.
Unwound(h) == IF ~h.full THEN h.ring
              ELSE [i \in 1 .. Limit |-> h.ring[((h.pos + i - 1) % Limit) + 1]]

\* sort.Slice by StartedAt, which keeps no order among equals.
InOrder(s) ==
    \A i, j \in DOMAIN s : i < j => \A q \in s[i].of, r \in s[j].of : Start[q] <= Start[r]
Arranged(s) == {[i \in DOMAIN s |-> s[f[i]]] : f \in Bijection(DOMAIN s, DOMAIN s)}

Answers(h) ==
    \E s \in Arranged(Unwound(h)) :
        InOrder(s) /\ history' = [h EXCEPT !.at = "answered", !.answer = s]

\* One line of the file, as it is now.  A line that is not whole ends the
\* scan, and so does one without end: the file ends with it.
Scan ==
    /\ history.at = "scan" /\ history.next <= Len(file)
    /\ LET line == file[history.next]
           unended == ragged /\ history.next = Len(file)
       IN \/ ~line.whole /\ history' = [history EXCEPT !.at = "error"]
          \/ line.whole /\ ~unended /\ history' = Took(line)
          \/ line.whole /\ unended /\ Answers(Took(line))
    /\ UNCHANGED <<writers, log, faults>>

EndOfFile ==
    /\ history.at = "scan" /\ history.next > Len(file)
    /\ Answers(history)
    /\ UNCHANGED <<writers, log, faults>>

Close ==
    /\ history.at \in {"answered", "error"}
    /\ history' = NoReader
    /\ UNCHANGED <<writers, log, faults>>

Next ==
    \/ \E r \in Requests : Arrive(r) \/ Preflight(r) \/ Run(r) \/ Observe(r) \/ Lock(r)
                           \/ Write(r) \/ WriteFails(r)
    \/ \E p \in Procs : Crash(p)
    \/ Open \/ Scan \/ EndOfFile \/ Close

Spec == Init /\ [][Next]_vars

(***************************************************************************)
(* Properties.                                                             *)
(***************************************************************************)

\* Every variable has its type; the ring never holds more than Limit entries.
TypeOK ==
    /\ pc \in [Requests -> {"idle", "preflight", "run", "observe", "lock", "write",
                            "logged", "unlogged", "refused", "dead"}]
    /\ status \in [Requests -> {"none", "ok", "error"}]
    /\ mu \in [Procs -> Requests \cup {"free"}]
    /\ runs \in [Procs -> [{"ok", "error"} -> 0 .. Cardinality(Requests)]]
    /\ file \in Seq(Line)
    /\ ragged \in BOOLEAN /\ created \in BOOLEAN
    /\ history.ring \in Seq(Line) /\ Len(history.ring) <= Limit
    /\ history.pos \in 0 .. Limit - 1
    /\ faults \in 0 .. MaxFaults

\* What the history answers are the last entries of the log as it is then,
\* each once, in the order in which their commands started, whatever the order
\* in the log; no line that was in the log when it was asked for is passed
\* over, however many are added while it reads, and none is skipped because it
\* cannot be read (History, service.go:219-240; decodeTailAuditLog's comment at
\* service.go:273-275: "the last limit entries").
HistoryIsTail ==
    [][history.at = "scan" /\ history'.at = "answered" =>
          LET n == Len(file)
              k == IF n < Limit THEN n ELSE Limit
              answer == history'.answer
          IN /\ n >= history.from
             /\ \A i \in 1 .. n : file[i].whole
             /\ Len(answer) = k
             /\ {answer[i] : i \in 1 .. k} = {file[i] : i \in n - k + 1 .. n}
             /\ InOrder(answer)]_vars

\* The metrics and the log agree: a living process has counted, under their
\* status, exactly the results that it has logged, lost or is about to log,
\* and each result it wrote without fault is on one line of the log.
MetricsMatchLog ==
    /\ \A p \in Procs, s \in {"ok", "error"} :
          runs[p][s] = Cardinality({r \in Requests : Proc[r] = p /\ status[r] = s
                                      /\ pc[r] \in {"lock", "write", "logged", "unlogged"}})
    /\ \A r \in Requests : pc[r] = "logged" =>
          Cardinality({i \in DOMAIN file : r \in file[i].of}) = 1

\* Processes that write beside each other, writes that are cut and a reader
\* that goes line by line through a growing file look, from outside, like a
\* log that is written and read in one step each: the history has the end of
\* the log as it is at one moment of the request, and an error means that there
\* is no log yet, or a line in it that nobody will ever read.
Trail == INSTANCE AuditTrail WITH
            lines <- file, open <- ragged, exists <- created,
            reader <- history.at, answer <- history.answer
ImplementsTrail == Trail!Spec
=============================================================================
