------------------------------- MODULE MCProbe -------------------------------
(* The probe on small clusters: two standbys, or two masters. *)
EXTENDS Probe

CONSTANTS primary, s1, s2, a, b, p1, p2

TwoProbes == {p1, p2}
TwoStandbys == <<s1, s2>>
AllModes == {"master-slave", "master-master"}
=============================================================================
