--------------------------- MODULE MCTracePipelines ---------------------------
(***************************************************************************)
(* Two instances of TracePipeline for TLC: the constants and variables of  *)
(* TracePipeline are those of a pipeline with compression threads and a GC *)
(* thread, the ones of Direct those of a pipeline without (the default of  *)
(* the VM), with a second Java thread and buffers of two events.  A        *)
(* behaviour is one of either; the other pipeline stays as it was created. *)
(***************************************************************************)
EXTENDS MCTracePipeline

VARIABLES d_buf, d_fired, d_cont, d_cq, d_fq, d_finalized, d_crit, d_comp, d_in_process,
          d_worker, d_free, d_live, d_trace, d_size, d_file, d_todo, d_ops, d_marks,
          d_asked, d_flusher, direct

d_vars == <<d_buf, d_fired, d_cont, d_cq, d_fq, d_finalized, d_crit, d_comp, d_in_process,
            d_worker, d_free, d_live, d_trace, d_size, d_file, d_todo, d_ops, d_marks,
            d_asked, d_flusher>>

Direct == INSTANCE TracePipeline WITH
  NC <- 0, Mutators <- MCTwoMutators, GCThreads <- None, BufferSize <- 2,
  buf <- d_buf, fired <- d_fired, cont <- d_cont, cq <- d_cq, fq <- d_fq,
  finalized <- d_finalized, crit <- d_crit, comp <- d_comp, in_process <- d_in_process,
  worker <- d_worker, free <- d_free, live <- d_live, trace <- d_trace, size <- d_size,
  file <- d_file, todo <- d_todo, ops <- d_ops, marks <- d_marks, asked <- d_asked,
  flusher <- d_flusher

MCInit == Init /\ Direct!Init /\ direct \in BOOLEAN

MCNext ==
  \/ ~direct /\ Next /\ UNCHANGED <<d_vars, direct>>
  \/ direct /\ Direct!Next /\ UNCHANGED <<vars, direct>>

MCSpec == MCInit /\ [][MCNext]_<<vars, d_vars, direct>>

(* With and without compression threads, GC marks split the trace: what is  *)
(* fired before a mark stands before it, what is fired after it behind.     *)
AllMarksSplitTrace == MarksSplitTrace /\ Direct!MarksSplitTrace

(* On either way no buffer is leaked or used twice. *)
AllBuffersAccounted == BuffersAccounted /\ Direct!BuffersAccounted

(* On either way destroy ends with every event written and nothing left. *)
AllShutdownComplete == ShutdownComplete /\ Direct!ShutdownComplete

(* On either way the file is changed only when nothing is under way. *)
AllRotationsClean == RotationIsClean /\ Direct!RotationIsClean
=============================================================================
