---------------------------- MODULE MCTraceParser ----------------------------
(* Instances of TraceParser for TLC: all files of up to three buffers of   *)
(* which two fit into the queue, and those of up to two buffers whose last *)
(* one never does; what follows such a buffer is never read.               *)
EXTENDS TraceParser

CONSTANTS h1, h2, s1, s2

MCThreads == {h1, h2}
MCSlaves == {s1, s2}

BuffersOf(length) == [thread : MCThreads, sync : SyncLevel, length : {length}]
FilesUpTo(n) == UNION {[1..k -> BuffersOf(1)] : k \in 0..n}
MCFiles ==
  FilesUpTo(3) \cup
  {Append(f, b) : f \in FilesUpTo(1), b \in BuffersOf(MAX_QUEUE_SIZE + 1)}
=============================================================================
