----------------------------- MODULE TraceCodec -----------------------------
(***************************************************************************)
(* How a compression worker of the VM compresses the buffers it takes and  *)
(* how the analyzer's Decompressor reads them back.  Both compressors are  *)
(* modelled, the default QuyteTreeCompression and LZWCompression.          *)
(*                                                                         *)
(* The dictionary is the sequence of the strings that got an index,        *)
(* FIRST_CUSTOM_INDEX first; in the quyte tree a string is the path to a   *)
(* leaf.  A VarInt is a run of markers, one for each width from "from" to  *)
(* "to" - 1, and a value "to" bits wide; of the bytes it is packed into    *)
(* only the number is kept.                                                *)
(*                                                                         *)
(* Definitions named ...Without... are faulty variants of the definition   *)
(* that follows them; no action uses them.                                 *)
(***************************************************************************)
EXTENDS Integers, Sequences, FiniteSetsExt

CONSTANTS FIRST_CUSTOM_INDEX,
          MAX_INDEX,
          INDEX_MAX_WIDTH,   \* in bytes
          BITS,              \* bits of a byte, and the first width of a VarInt
          MaxWidth,          \* bound: the widest VarInt
          Marker,            \* of each width, the value with all bits set
          Compressors,       \* a subset of {"quyte", "lzw"}
          Inputs,            \* of each compressor, the buffers it may take
          MaxBuffers,        \* of each compressor, bound: buffers it takes
          Capacities         \* in bytes, of the buffers it compresses into

Widths == BITS..MaxWidth
Byte == 0..(FIRST_CUSTOM_INDEX - 1)

(* The marker of a width is larger than 1: a byte has more than one bit. *)
ASSUME CodecAssumption ==
  /\ {FIRST_CUSTOM_INDEX, MAX_INDEX, INDEX_MAX_WIDTH, BITS, MaxWidth} \subseteq Nat
  /\ BITS <= MaxWidth
  /\ Marker \in [Widths -> Nat]
  /\ \A w \in Widths : Marker[w] > 1
  /\ Compressors \subseteq {"quyte", "lzw"}
  /\ \A c \in Compressors :
       /\ Inputs[c] \subseteq Seq(Byte) \ {<<>>}
       /\ MaxBuffers[c] \in Nat
  /\ Capacities \subseteq Nat

VARIABLES compressor,
          phase,    \* of the current buffer
          count,    \* buffers taken
          src, dest_length,
          cursor,   \* the byte the encoder looks at
          cuts,     \* where the strings begin for which codes were written,
                    \* and last the one it matches
          dict,
          codes, width, bits,               \* the VarIntWriter
          pos, r_width,                     \* the BitwiseVarIntReader
          last, dictionary, uncompressed    \* the decoder

encoder == <<src, dest_length, cursor, cuts, dict>>
writer == <<codes, width, bits>>
decoder == <<pos, r_width, last, dictionary, uncompressed>>
vars == <<compressor, phase, count, encoder, writer, decoder>>

Code == [from : Widths, to : Widths, value : Nat]

-----------------------------------------------------------------------------
(* VarIntWriter *)

(* Widths from w until the value is below the marker by more than one. *)
FitsWithoutMargin(value, w, to) ==
  /\ value <= Marker[to]
  /\ \A v \in w..(to - 1) : value > Marker[v]
Fits(value, w, to) ==
  /\ value < Marker[to] - 1
  /\ \A v \in w..(to - 1) : value >= Marker[v] - 1

BitsOf(from, to) == ((from + to) * (to - from + 1)) \div 2

(* A byte leaves the writer when the next bit no longer fits into it. *)
BytesOut(b) == IF b = 0 THEN 0 ELSE (b - 1) \div BITS

(* outputCursor + INDEX_MAX_WIDTH * 2 < endOfOutput *)
Room(b) == BytesOut(b) + INDEX_MAX_WIDTH * 2 < dest_length

Write(value, to) ==
  /\ to \in width..(MaxWidth - 1) /\ Fits(value, width, to)
  /\ codes' = Append(codes, [from |-> width, to |-> to, value |-> value])
  /\ width' = to
  /\ bits' = bits + BitsOf(width, to)

(* flush: one more marker and a zero *)
EndCode(w) == [from |-> w, to |-> w + 1, value |-> 0]

-----------------------------------------------------------------------------
(* The encoders *)

Start == cuts[Len(cuts)]

Known(s) == Len(s) = 1 \/ \E k \in 1..Len(dict) : dict[k] = s
Index(s) == IF Len(s) = 1 THEN s[1]
            ELSE FIRST_CUSTOM_INDEX - 1
                   + (CHOOSE k \in 1..Len(dict) : dict[k] = s)

(* A worker takes a buffer that is not empty and one to compress it into. *)
TakeBuffer ==
  /\ phase \in {"idle", "read"} /\ count < MaxBuffers[compressor]
  /\ src' \in Inputs[compressor] /\ dest_length' \in Capacities
  /\ phase' = "encode" /\ count' = count + 1
  /\ cuts' = <<1>> /\ cursor' = 2
  /\ codes' = <<>> /\ width' = BITS /\ bits' = 0
  /\ UNCHANGED <<compressor, dict, decoder>>

Decompress ==
  /\ phase' = "decode"
  /\ pos' = 0 /\ r_width' = BITS
  /\ last' = <<>> /\ dictionary' = <<>> /\ uncompressed' = <<>>

(* encode returned less than the buffer, which is written as it is. *)
LeaveRaw == phase' = "idle" /\ UNCHANGED decoder

QuyteLoop == /\ phase = "encode" /\ compressor = "quyte"
             /\ cursor <= Len(src) /\ Room(bits)
Match == SubSeq(src, Start, cursor - 1)
LongerMatch == SubSeq(src, Start, cursor)

QuyteExtend ==
  /\ QuyteLoop /\ Known(LongerMatch)
  /\ cursor' = cursor + 1
  /\ UNCHANGED <<compressor, phase, count, src, dest_length, cuts, dict,
                 writer, decoder>>

(* A leaf is created: the index of the match so far is written.  Indexes   *)
(* are given out without a limit.                                          *)
QuyteEmit ==
  /\ QuyteLoop /\ ~Known(LongerMatch)
  /\ \E to \in Widths : Write(Index(Match), to)
  /\ dict' = Append(dict, LongerMatch)
  /\ cuts' = Append(cuts, cursor) /\ cursor' = cursor + 1
  /\ UNCHANGED <<compressor, phase, count, src, dest_length, decoder>>

(* The end of encode, for the code that writes the index of the last match *)
(* and the end, when there is room for each.                               *)
Finish(value) ==
  \E to \in width..(MaxWidth - 1) :
    LET b == bits + BitsOf(width, to)
    IN /\ Fits(value, width, to)
       /\ IF Room(bits) /\ Room(b)
          THEN /\ codes' = codes \o << [from |-> width, to |-> to, value |-> value],
                                       EndCode(to) >>
               /\ width' = to + 1 /\ bits' = b + BitsOf(to, to + 1)
               /\ cuts' = Append(cuts, cursor)
               /\ Decompress
          ELSE LeaveRaw /\ UNCHANGED <<writer, cuts>>

QuyteFinishWithoutClearing ==
  /\ phase = "encode" /\ compressor = "quyte" /\ ~QuyteLoop
  /\ Finish(Index(Match))
  /\ UNCHANGED <<compressor, count, src, dest_length, cursor, dict>>

(* The tree is cleared for the next buffer. *)
QuyteFinish ==
  /\ phase = "encode" /\ compressor = "quyte" /\ ~QuyteLoop
  /\ Finish(Index(Match))
  /\ dict' = <<>>
  /\ UNCHANGED <<compressor, count, src, dest_length, cursor>>

LZWLoop == /\ phase = "encode" /\ compressor = "lzw"
           /\ Start <= Len(src) /\ Room(bits)

(* resolveIndex: the longest string of the dictionary that the rest of the *)
(* buffer begins with                                                      *)
FloorLength ==
  Max({n \in 1..(Len(src) - Start + 1) : Known(SubSeq(src, Start, Start + n - 1))})

LZWStep ==
  LET end == Start + FloorLength
  IN /\ LZWLoop
     /\ \E to \in Widths : Write(Index(SubSeq(src, Start, end - 1)), to)
     /\ dict' = IF end < Len(src) /\ FIRST_CUSTOM_INDEX + Len(dict) <= MAX_INDEX
                THEN Append(dict, SubSeq(src, Start, end))
                ELSE dict
     /\ cuts' = Append(cuts, end) /\ cursor' = end + 1
     /\ UNCHANGED <<compressor, phase, count, src, dest_length, decoder>>

(* The dictionary stays for the next buffer. *)
LZWFinish ==
  /\ phase = "encode" /\ compressor = "lzw" /\ ~LZWLoop
  /\ IF Room(bits)
     THEN /\ codes' = Append(codes, EndCode(width))
          /\ width' = width + 1 /\ bits' = bits + BitsOf(width, width + 1)
          /\ Decompress
     ELSE LeaveRaw /\ UNCHANGED writer
  /\ UNCHANGED <<compressor, count, encoder>>

-----------------------------------------------------------------------------
(* The Decompressor *)

TheCode == codes[pos + 1]

(* The reader has read the markers of the writer and takes no value for a  *)
(* marker.                                                                 *)
InStep == /\ pos < Len(codes)
          /\ r_width = TheCode.from /\ TheCode.value # Marker[TheCode.to]

(* next returns -1 *)
AtEnd == TheCode.value = 0 /\ TheCode.from < TheCode.to

Decoded == TheCode.value < FIRST_CUSTOM_INDEX
             \/ TheCode.value - FIRST_CUSTOM_INDEX < Len(dictionary)

CurrentWithoutDictionary == <<TheCode.value>>

(* What the code stands for; an index not in the dictionary is taken for   *)
(* the one that this code is about to register.                            *)
Current == IF TheCode.value < FIRST_CUSTOM_INDEX THEN <<TheCode.value>>
           ELSE IF Decoded THEN dictionary[TheCode.value - FIRST_CUSTOM_INDEX + 1]
           ELSE <<last[1]>>

registerIndex(current) ==
  dictionary' = IF last # <<>> /\ FIRST_CUSTOM_INDEX + Len(dictionary) <= MAX_INDEX
                THEN Append(dictionary, last \o <<current[1]>>)
                ELSE dictionary

(* Without a last string an unknown index raises an exception. *)
DecodeCode ==
  /\ phase = "decode" /\ InStep /\ ~AtEnd /\ (Decoded \/ last # <<>>)
  /\ last' = IF Decoded THEN Current ELSE last \o Current
  /\ uncompressed' = uncompressed \o last'
  /\ registerIndex(Current)
  /\ pos' = pos + 1 /\ r_width' = TheCode.to
  /\ UNCHANGED <<compressor, phase, count, encoder, writer>>

DecodeEnd ==
  /\ phase = "decode" /\ InStep /\ AtEnd
  /\ phase' = "read"
  /\ UNCHANGED <<compressor, count, encoder, writer, decoder>>

-----------------------------------------------------------------------------
Init ==
  /\ compressor \in Compressors
  /\ phase = "idle" /\ count = 0
  /\ src = <<>> /\ dest_length = 0 /\ cursor = 1 /\ cuts = <<>> /\ dict = <<>>
  /\ codes = <<>> /\ width = BITS /\ bits = 0
  /\ pos = 0 /\ r_width = BITS
  /\ last = <<>> /\ dictionary = <<>> /\ uncompressed = <<>>

Next == \/ TakeBuffer
        \/ QuyteExtend \/ QuyteEmit \/ QuyteFinish
        \/ LZWStep \/ LZWFinish
        \/ DecodeCode \/ DecodeEnd

Spec == Init /\ [][Next]_vars

-----------------------------------------------------------------------------
(* Type correctness. *)
TypeOK ==
  /\ compressor \in Compressors
  /\ phase \in {"idle", "encode", "decode", "read"}
  /\ {count, dest_length, cursor, bits, pos} \subseteq Nat
  /\ {width, r_width} \subseteq Widths
  /\ {src, last, uncompressed} \subseteq Seq(Byte)
  /\ cuts \in Seq(1..(Len(src) + 1))
  /\ {dict, dictionary} \subseteq Seq(Seq(Byte))
  /\ codes \in Seq(Code)

(* No code is an index the decoder has no room for: unlike LZWCompression, *)
(* QuyteTreeCompression goes on giving out indexes beyond MAX_INDEX.       *)
WithinIndexes == \A i \in 1..Len(codes) : codes[i].value <= MAX_INDEX

(* What the analyzer reads from a compressed buffer is what the VM wrote   *)
(* into it: "compress and decompress does not yield original!" is never    *)
(* printed.  Strings that get an index which is too large do no harm,      *)
(* unless such an index is used.                                           *)
RoundTrip == phase = "read" /\ WithinIndexes => uncompressed = src

(* At every code the reader's width is the writer's, no value is taken for *)
(* a marker or for the end, and no index is looked up before there is a    *)
(* last string to make it from: decode neither goes on past the end of the *)
(* buffer nor ends before it nor raises an exception.                      *)
ReaderInStep ==
  phase = "decode" => /\ InStep
                      /\ AtEnd <=> pos + 1 = Len(codes)
                      /\ ~AtEnd => Decoded \/ last # <<>>
=============================================================================
