-------------------------- MODULE MCEventBufferList --------------------------
(***************************************************************************)
(* The two kinds of lists of EventBuffers.cpp for TLC: the constants and   *)
(* variables of EventBufferList are those of a flush or compression queue  *)
(* (growth keeps the order, producers wait), the ones of FreeList those of *)
(* the free list (any order, never waits).  A behaviour is one of the      *)
(* queue or one of the free list; the other list stays as it was created.  *)
(***************************************************************************)
EXTENDS EventBufferList, TLC

CONSTANTS t1, t2, t3, f1, f2, b1, b2

MCCallers == {t1, t2, t3}
MCFreeCallers == {f1, f2}
MCBuffers == {b1, b2}

Symmetry == Permutations(MCCallers) \cup Permutations(MCBuffers)

VARIABLES f_list, f_capacity, f_head, f_tail, f_finalized, f_call, f_is_waiting, kind

f_vars == <<f_list, f_capacity, f_head, f_tail, f_finalized, f_call, f_is_waiting>>

FreeList == INSTANCE EventBufferList WITH
  Callers <- MCFreeCallers, MaxCapacity <- 2, ResizeMode <- "resize_enabled_no_order",
  Underflow <- TRUE, Overflow <- TRUE,
  list <- f_list, capacity <- f_capacity, head <- f_head, tail <- f_tail,
  finalized <- f_finalized, call <- f_call, is_waiting <- f_is_waiting

MCInit == Init /\ FreeList!Init /\ kind \in {"queue", "free"}

MCNext ==
  \/ kind = "queue" /\ Next /\ UNCHANGED <<f_vars, kind>>
  \/ kind = "free" /\ FreeList!Next /\ UNCHANGED <<vars, kind>>

MCSpec == MCInit /\ [][MCNext]_<<vars, f_vars, kind>>

(* The free list hands out each buffer stored in it once, and creates or    *)
(* destroys buffers only when it is empty or full.                          *)
FreeListSpec == FreeList!QueueSpec
=============================================================================
