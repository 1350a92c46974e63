--------------------------- MODULE MCVerification ---------------------------
(* An instance of Verification for TLC: a cluster as `render` sets it up.  *)
EXTENDS Verification

CONSTANTS name,  \* network.application_name
          slot   \* replication_slot

RenderedName == [s \in Standbys |-> name]
RenderedSlot == [s \in Standbys |-> slot]
=============================================================================
