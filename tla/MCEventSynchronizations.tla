----------------------- MODULE MCEventSynchronizations -----------------------
(***************************************************************************)
(* Two instances of EventSynchronization for TLC: the constants and        *)
(* variables of EventSynchronization are those of a VM whose Java threads  *)
(* collect, the ones of Toggling those of a VM in which they also toggle   *)
(* tracing and use JNI critical regions.  A behaviour is one of either;    *)
(* the other VM stays as it was started.                                   *)
(***************************************************************************)
EXTENDS MCEventSynchronization

VARIABLES t_size, t_slot, t_tracing, t_forced, t_type, t_synced, t_checking,
          t_triggered, t_sync, t_request, t_heap_lock, t_vmq, t_vm, t_needs_gc, toggling

t_vars == <<t_size, t_slot, t_tracing, t_forced, t_type, t_synced, t_checking,
            t_triggered, t_sync, t_request, t_heap_lock, t_vmq, t_vm, t_needs_gc>>

Toggling == INSTANCE EventSynchronization WITH
  OnMinor <- TRUE, Locker <- TRUE, Toggles <- TRUE,
  size <- t_size, slot <- t_slot, tracing <- t_tracing,
  forced <- t_forced, type <- t_type, synced <- t_synced, checking <- t_checking,
  triggered <- t_triggered, sync <- t_sync, request <- t_request,
  heap_lock <- t_heap_lock, vmq <- t_vmq, vm <- t_vm, needs_gc <- t_needs_gc

MCInit == Init /\ Toggling!Init /\ toggling \in BOOLEAN

MCNext ==
  \/ ~toggling /\ Next /\ UNCHANGED <<t_vars, toggling>>
  \/ toggling /\ Toggling!Next /\ UNCHANGED <<vars, toggling>>

(* Fairness is that of the VM whose threads only collect, so that liveness  *)
(* is a question about its behaviours.                                      *)
MCSpec == MCInit /\ [][MCNext]_<<vars, t_vars, toggling>> /\ Fairness

(* Java threads that toggle tracing or are in JNI critical regions never    *)
(* run with a trace file that does not start from a known heap, unless the  *)
(* rotation into one is still due.                                          *)
ToggledStartsSynced == Toggling!SyncedStart
=============================================================================
