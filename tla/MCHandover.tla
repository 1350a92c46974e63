----------------------------- MODULE MCHandover -----------------------------
(* Instances of Handover for TLC.                                          *)
EXTENDS Handover

CONSTANTS w1, w2, x, y

TwoWorkflows == {w1, w2}
TwoWrites == {x, y}
OneWrite == {x}
=============================================================================
