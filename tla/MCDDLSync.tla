----------------------------- MODULE MCDDLSync -----------------------------
(* Instances of DDLSync for TLC.                                           *)
EXTENDS DDLSync

CONSTANTS p1,          \* the host that runs ddl-sync
          create,      \* CREATE TABLE on node 1
          view,        \* CREATE OR REPLACE VIEW of that table, on node 2
          script       \* ddl-setup's command

OneHost == {p1}
AllStatements == {create, view}
Origins == [s \in Statements |-> IF s = create THEN 1 ELSE 2]
Needs == [s \in Statements |-> IF s = view THEN {create} ELSE {}]
Replaceable == {view}
TwoOfThree == {1, 2}
=============================================================================
