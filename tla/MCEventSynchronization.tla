------------------------ MODULE MCEventSynchronization ------------------------
(* Instances of EventSynchronization for TLC. *)
EXTENDS EventSynchronization

CONSTANTS r1, r2

MCRequesters == {r1, r2}
MCOneRequester == {r1}
=============================================================================
