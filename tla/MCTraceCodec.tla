---------------------------- MODULE MCTraceCodec ----------------------------
(* Buffers over two of four bytes, one that fits into the first width of a *)
(* VarInt and one that does not.                                           *)
EXTENDS TraceCodec, TLC

BuffersUpTo(max) == UNION {[1..n -> {0, 3}] : n \in 1..max}

MCMarker == [w \in BITS..MaxWidth |-> 2^w - 1]

(* The dictionary of the decoder is full after the fourth code of these. *)
LongBuffers == {b \in [1..8 -> {0, 3}] : SubSeq(b, 1, 4) \in {<<0, 0, 3, 3>>, <<0, 3, 3, 0>>}}
MCInputs == "quyte" :> BuffersUpTo(5) \cup LongBuffers @@ "lzw" :> BuffersUpTo(9)
MCMaxBuffers == "quyte" :> 2 @@ "lzw" :> 1

(* A worker that goes on with LZWCompression *)
LZWInputs == "lzw" :> BuffersUpTo(5)
LZWMaxBuffers == "lzw" :> 2
=============================================================================
