----------------------------- MODULE AuditTrail ------------------------------
(***************************************************************************)
(* What the audit log promises (service.go, record and History): results  *)
(* are added at the end, each at most once, and an entry that has its end  *)
(* stays as it is; and who asks for the history is given the last entries  *)
(* of the log at one moment, sorted by their start, or an error because    *)
(* there is no log or a line of it cannot be read.  There are no           *)
(* processes, no mutex, no ring and no reading line by line; what remains  *)
(* of cut writes is that the last line may be open, and that the next      *)
(* result then spoils it.                                                  *)
(***************************************************************************)
EXTENDS Naturals, Sequences, Functions

CONSTANTS
    Requests,       \* who writes
    Start,          \* when each of them started
    Limit           \* how many entries the history returns

VARIABLES
    lines,          \* the log: whose entries each line has, and if it is readable
    open,           \* the last line has no end
    exists,         \* there is a log
    reader,         \* where the history is
    answer          \* what it returned

trailVars == <<lines, open, exists, reader, answer>>

Init == lines = <<>> /\ open = FALSE /\ exists = FALSE /\ reader = "closed" /\ answer = <<>>

Logged == UNION {lines[i].of : i \in DOMAIN lines}

\* A line of its own, or the rest of an open one, which nobody can read then.
Log(r) ==
    /\ r \notin Logged
    /\ IF open
       THEN lines' = [lines EXCEPT ![Len(lines)] = [of |-> @.of \cup {r}, whole |-> FALSE]]
       ELSE \E whole \in BOOLEAN : lines' = Append(lines, [of |-> {r}, whole |-> whole])
    /\ open' \in BOOLEAN
    /\ exists' = TRUE
    /\ UNCHANGED <<reader, answer>>

\* A log without an entry.
Create == exists' = TRUE /\ UNCHANGED <<lines, open, reader, answer>>

Ask ==
    /\ reader = "closed"
    /\ reader' = IF exists THEN "scan" ELSE "error"
    /\ UNCHANGED <<lines, open, exists, answer>>

Readable == \A i \in DOMAIN lines : lines[i].whole

LastLines == LET n == Len(lines)
                 k == IF n < Limit THEN n ELSE Limit
             IN SubSeq(lines, n - k + 1, n)

InOrder(s) ==
    \A i, j \in DOMAIN s : i < j => \A q \in s[i].of, r \in s[j].of : Start[q] <= Start[r]
Arranged(s) == {[i \in DOMAIN s |-> s[f[i]]] : f \in Bijection(DOMAIN s, DOMAIN s)}

Answer ==
    /\ reader = "scan" /\ Readable
    /\ reader' = "answered"
    /\ answer' \in Arranged(LastLines) /\ InOrder(answer')
    /\ UNCHANGED <<lines, open, exists>>

Refuse ==
    /\ reader = "scan" /\ ~Readable
    /\ reader' = "error"
    /\ UNCHANGED <<lines, open, exists, answer>>

Close ==
    /\ reader \in {"answered", "error"}
    /\ reader' = "closed" /\ answer' = <<>>
    /\ UNCHANGED <<lines, open, exists>>

Next == (\E r \in Requests : Log(r)) \/ Create \/ Ask \/ Answer \/ Refuse \/ Close

Spec == Init /\ [][Next]_trailVars

\* No entry is in the log twice, and an entry that could be read once, and has
\* its end, can be read for ever, in the same place; one without its end can be
\* read until the next result is added.
EachOnce ==
    \A i, j \in DOMAIN lines : lines[i].of \cap lines[j].of # {} => i = j
ReadableStays ==
    [][\A i \in DOMAIN lines :
          lines[i].whole /\ ~(open /\ i = Len(lines))
            => i \in DOMAIN lines' /\ lines'[i] = lines[i]]_lines
=============================================================================
