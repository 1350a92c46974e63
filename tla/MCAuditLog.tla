----------------------------- MODULE MCAuditLog ------------------------------
(* The service with three requests beside a command with one. *)
EXTENDS AuditLog, TLC

CONSTANTS serve, cli, r1, r2, r3, r4

TwoProcs == {serve, cli}
FourRequests == {r1, r2, r3, r4}
Home == [r \in FourRequests |-> IF r = r4 THEN cli ELSE serve]
OneOperation == {r1}
\* The promotion starts first and is logged when it is done; the command's
\* clock is behind the service's; others start in one instant.
Clocks == [r \in FourRequests |-> IF r \in {r1, r4} THEN 1 ELSE 2]
\* The two that differ in nothing.
Alike == Permutations({r2, r3})
=============================================================================
