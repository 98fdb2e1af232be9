-------------------------- MODULE TraceCodecProofs --------------------------
(***************************************************************************)
(* The round trip of the default compressor, QuyteTreeCompression, for     *)
(* every input, alphabet and sequence of buffers.                          *)
(*                                                                         *)
(* The argument: the codes cut the buffer into phrases.  The string that   *)
(* gets an index with the k-th code is the k-th phrase and the first byte  *)
(* of the one after it, Entry(k), so that each code means a byte or an     *)
(* earlier entry (Stream), and the decoder, one entry behind, has the same *)
(* entries until its dictionary is full (Decoding).                        *)
(***************************************************************************)
EXTENDS TraceCodec, SequenceTheorems, TLAPS

Phrase(k) == SubSeq(src, cuts[k], cuts[k + 1] - 1)
Entry(k) == SubSeq(src, cuts[k], cuts[k + 1])

(* Phrases for which there is a code *)
Phrases == 1..(Len(cuts) - 1)

Meaning(k) == \/ codes[k].value \in Byte /\ Phrase(k) = <<codes[k].value>>
              \/ \E j \in 1..(k - 1) : /\ codes[k].value = FIRST_CUSTOM_INDEX - 1 + j
                                       /\ Phrase(k) = Entry(j)

WidthBefore(k) == IF k = 1 THEN BITS ELSE codes[k - 1].to

Readable(k) == /\ codes[k].from = WidthBefore(k)
               /\ codes[k].value < Marker[codes[k].to] - 1
               /\ codes[k].value = 0 => codes[k].to = codes[k].from

Types ==
  /\ compressor = "quyte"
  /\ phase \in {"idle", "encode", "decode", "read"}
  /\ src \in Seq(Byte) /\ cuts \in Seq(Nat) /\ cursor \in Nat
  /\ dict \in Seq(Seq(Byte)) /\ codes \in Seq(Code) /\ width \in Widths
  /\ pos \in Nat /\ r_width \in Widths
  /\ last \in Seq(Byte) /\ uncompressed \in Seq(Byte)
  /\ dictionary \in Seq(Seq(Byte))

Stream ==
  /\ Len(cuts) >= 1 /\ cuts[1] = 1 /\ Len(codes) >= Len(cuts) - 1
  /\ \A k \in Phrases : /\ 1 <= cuts[k] /\ cuts[k] < cuts[k + 1]
                        /\ cuts[k + 1] <= Len(src) + 1
  /\ \A k \in Phrases : Meaning(k) /\ Readable(k)

Encoding ==
  /\ Stream /\ Len(codes) = Len(cuts) - 1
  /\ 1 <= Start /\ Start < cursor /\ cursor <= Len(src) + 1
  /\ width = WidthBefore(Len(cuts))
  /\ Len(dict) = Len(codes) /\ \A k \in Phrases : dict[k] = Entry(k)
  /\ Known(Match)

Compressed ==
  /\ Stream /\ Len(codes) = Len(cuts) /\ Len(cuts) > 1
  /\ Start = Len(src) + 1
  /\ codes[Len(codes)] = EndCode(WidthBefore(Len(codes)))

(* The reader, whatever the decoder makes of the codes *)
Reading ==
  /\ pos < Len(cuts) /\ r_width = WidthBefore(pos + 1)
  /\ pos > 0 => last # <<>>
  /\ \A j \in 1..Len(dictionary) : dictionary[j] # <<>>

Decoding ==
  /\ uncompressed = SubSeq(src, 1, cuts[pos + 1] - 1)
  /\ pos = 0 => last = <<>> /\ dictionary = <<>>
  /\ pos > 0 => /\ last = Phrase(pos) /\ Len(dictionary) <= pos - 1
                /\ \/ Len(dictionary) = pos - 1
                   \/ FIRST_CUSTOM_INDEX + Len(dictionary) > MAX_INDEX
                /\ \A j \in 1..Len(dictionary) : dictionary[j] = Entry(j)

IInv == /\ Types
        /\ phase \in {"idle", "read", "decode"} => dict = <<>>
        /\ phase = "encode" => Encoding
        /\ phase = "decode" => Compressed /\ Reading
        /\ phase = "decode" /\ WithinIndexes => Decoding
        /\ phase = "read" /\ WithinIndexes => uncompressed = src

-----------------------------------------------------------------------------
(* Facts about substrings *)

LEMMA SubString ==
  ASSUME NEW s \in Seq(Byte), NEW a \in Nat, NEW b \in Nat,
         1 <= a, a <= b, b <= Len(s)
  PROVE  /\ SubSeq(s, a, b) \in Seq(Byte)
         /\ Len(SubSeq(s, a, b)) = b - a + 1
         /\ SubSeq(s, a, b)[1] = s[a]
         /\ SubSeq(s, a, b) # <<>>
<1>1. /\ SubSeq(s, a, b) \in Seq(Byte)
      /\ Len(SubSeq(s, a, b)) = b - a + 1
      /\ \A i \in 1..(b - a + 1) : SubSeq(s, a, b)[i] = s[a + i - 1]
  BY SubSeqProperties
<1>2. 1 \in 1..(b - a + 1) /\ a + 1 - 1 = a
  OBVIOUS
<1>3. Len(<<>>) = 0
  OBVIOUS
<1> QED
  BY <1>1, <1>2, <1>3

(* A string of one byte is that byte. *)
LEMMA OneByte ==
  ASSUME NEW s \in Seq(Byte), Len(s) = 1
  PROVE  s = <<s[1]>>
<1>1. s[1] \in Byte /\ <<s[1]>> \in Seq(Byte) /\ Len(<<s[1]>>) = 1
  OBVIOUS
<1>2. \A i \in 1..Len(s) : s[i] = <<s[1]>>[i]
  OBVIOUS
<1> QED
  BY <1>1, <1>2, SeqEqual

-----------------------------------------------------------------------------
(* The encoder *)

(* The match is a nonempty string, its index a byte or that of an entry. *)
LEMMA MatchMeaning ==
  ASSUME Types, Encoding
  PROVE  /\ Match \in Seq(Byte) /\ Len(Match) = cursor - Start
         /\ Index(Match) \in Nat
         /\ \/ Index(Match) \in Byte /\ Match = <<Index(Match)>>
            \/ \E j \in 1..Len(codes) : /\ Index(Match) = FIRST_CUSTOM_INDEX - 1 + j
                                        /\ Match = Entry(j)
<1>1. Start \in Nat /\ cursor - 1 \in Nat /\ Start <= cursor - 1
      /\ cursor - 1 <= Len(src) /\ 1 <= Start
  BY SMTT(30) DEF Types, Encoding, Stream, Start
<1>2. Match \in Seq(Byte) /\ Len(Match) = cursor - Start
  <2>1. Match \in Seq(Byte) /\ Len(Match) = cursor - 1 - Start + 1
    BY <1>1, SubString DEF Types, Match
  <2> QED
    BY <1>1, <2>1 DEF Types
<1>3. FIRST_CUSTOM_INDEX \in Nat
  BY CodecAssumption
<1>4. CASE Len(Match) = 1
  <2>0. Match[1] \in Byte
    <3>1. 1 \in 1..Len(Match)
      BY <1>4
    <3> QED
      BY <1>2, <3>1, ElementOfSeq
  <2>1. Match = <<Match[1]>>
    BY <1>2, <1>4, OneByte, Zenon
  <2>2. Index(Match) = Match[1]
    BY <1>4 DEF Index
  <2>3. Match[1] \in Nat
    BY <1>3, <2>0 DEF Byte
  <2> QED
    BY <1>2, <2>0, <2>1, <2>2, <2>3, Zenon
<1>5. CASE Len(Match) # 1
  <2>1. PICK k \in 1..Len(dict) : dict[k] = Match
    BY <1>5 DEF Encoding, Known
  <2> DEFINE c == CHOOSE i \in 1..Len(dict) : dict[i] = Match
  <2>2. c \in 1..Len(dict) /\ dict[c] = Match
    BY <2>1
  <2>3. Index(Match) = FIRST_CUSTOM_INDEX - 1 + c
    BY <1>5 DEF Index
  <2>4. c \in 1..Len(codes) /\ Entry(c) = Match
    BY <2>2, Zenon DEF Encoding, Phrases, Types
  <2>5. Len(codes) \in Nat
    BY DEF Types
  <2> HIDE DEF c
  <2>6. Index(Match) \in Nat
    BY <1>3, <2>3, <2>4, <2>5
  <2> QED
    BY <1>2, <2>3, <2>4, <2>6
<1> QED
  BY <1>4, <1>5

(* A value that needs a wider field is not zero. *)
LEMMA FitsReadable ==
  ASSUME NEW v \in Nat, NEW w \in Widths, NEW to \in w..(MaxWidth - 1),
         Fits(v, w, to)
  PROVE  /\ to \in Widths /\ v < Marker[to] - 1
         /\ v = 0 => to = w
<1>1. BITS \in Nat /\ MaxWidth \in Nat
  BY CodecAssumption
<1>2. to \in Widths /\ \A x \in w..(to - 1) : x \in Widths
  BY <1>1 DEF Widths
<1>3. v = 0 => to = w
  <2> SUFFICES ASSUME v = 0, to # w PROVE FALSE
    OBVIOUS
  <2>1. w \in w..(to - 1)
    BY <1>1 DEF Widths
  <2>2. 0 >= Marker[w] - 1
    BY <2>1 DEF Fits
  <2>3. Marker[w] \in Nat /\ Marker[w] > 1
    BY CodecAssumption
  <2> QED
    BY <2>2, <2>3
<1> QED
  BY <1>2, <1>3 DEF Fits

(* Writing the index of the match extends the stream by one phrase. *)
LEMMA OneMorePhrase ==
  ASSUME Types, Encoding, NEW n \in Nat, n = Len(cuts),
         NEW to \in width..(MaxWidth - 1), Fits(Index(Match), width, to),
         src' = src, cuts' = Append(cuts, cursor), codes' \in Seq(Code),
         Len(codes') >= Len(codes) + 1,
         \A k \in 1..Len(codes) : codes'[k] = codes[k],
         codes'[Len(codes) + 1] = [from |-> width, to |-> to, value |-> Index(Match)]
  PROVE  /\ Stream' /\ cuts' \in Seq(Nat)
         /\ Len(cuts') = n + 1 /\ cuts'[n + 1] = cursor
         /\ \A k \in Phrases : Entry(k)' = Entry(k)
         /\ Entry(n)' = LongerMatch
         /\ WidthBefore(n + 1)' = to
<1>1. /\ n >= 1 /\ Len(codes) = n - 1 /\ cursor \in Nat
      /\ cuts \in Seq(Nat) /\ width \in Widths /\ Len(src) \in Nat
  BY DEF Types, Encoding, Stream
<1>2. /\ cuts' \in Seq(Nat) /\ Len(cuts') = n + 1 /\ cuts'[n + 1] = cursor
      /\ \A k \in 1..n : cuts'[k] = cuts[k]
  BY <1>1
<1>3. \A k \in Phrases : k \in 1..n /\ k + 1 \in 1..n /\ k \in 1..Len(codes)
  BY <1>1 DEF Phrases
<1>4. \A k \in Phrases : Entry(k)' = Entry(k) /\ Phrase(k)' = Phrase(k)
  BY <1>2, <1>3, Zenon DEF Entry, Phrase
<1>5. Entry(n)' = LongerMatch /\ Phrase(n)' = Match
  <2>1. cuts'[n] = Start /\ cuts'[n + 1] = cursor
    BY <1>1, <1>2 DEF Start
  <2> QED
    BY <2>1 DEF Entry, Phrase, LongerMatch, Match
<1>6. Phrases' = Phrases \cup {n}
  BY <1>1, <1>2, SMTT(30) DEF Phrases
<1>7. \A k \in Phrases : Meaning(k)'
  <2> SUFFICES ASSUME NEW k \in Phrases PROVE Meaning(k)'
    OBVIOUS
  <2>1. Meaning(k) /\ codes'[k] = codes[k] /\ Phrase(k)' = Phrase(k)
    BY <1>3, <1>4, SMTT(30) DEF Encoding, Stream
  <2>2. \A j \in 1..(k - 1) : Entry(j)' = Entry(j)
    BY <1>1, <1>4 DEF Phrases
  <2> QED
    BY <2>1, <2>2 DEF Meaning
<1>8. Meaning(n)'
  <2>1. codes'[n].value = Index(Match)
    BY <1>1
  <2>2. CASE Index(Match) \in Byte /\ Match = <<Index(Match)>>
    BY <1>5, <2>1, <2>2 DEF Meaning
  <2>3. CASE \E j \in 1..Len(codes) : /\ Index(Match) = FIRST_CUSTOM_INDEX - 1 + j
                                      /\ Match = Entry(j)
    BY <1>1, <1>4, <1>5, <2>1, <2>3 DEF Meaning, Phrases
  <2> QED
    BY <2>2, <2>3, MatchMeaning
<1>9. \A k \in Phrases \cup {n} : WidthBefore(k)' = WidthBefore(k)
  <2>1. \A k \in 1..n : k # 1 => codes'[k - 1] = codes[k - 1]
    BY <1>1
  <2>2. Phrases \cup {n} \subseteq 1..n
    BY <1>1, SMTT(30) DEF Phrases
  <2> QED
    BY <2>1, <2>2 DEF WidthBefore
<1>10. \A k \in Phrases : Readable(k)'
  BY <1>3, <1>9, SMTT(30) DEF Encoding, Stream, Readable
<1>11. Readable(n)'
  <2>1. codes'[n] = [from |-> width, to |-> to, value |-> Index(Match)]
    BY <1>1
  <2>2. /\ Index(Match) < Marker[to] - 1
        /\ Index(Match) = 0 => to = width
    BY <1>1, FitsReadable, MatchMeaning, Zenon
  <2>3. WidthBefore(n)' = width
    BY <1>9 DEF Encoding
  <2> QED
    BY <2>1, <2>2, <2>3 DEF Readable
<1>12. WidthBefore(n + 1)' = to
  BY <1>1 DEF WidthBefore
<1>13. \A k \in Phrases' : /\ 1 <= cuts'[k] /\ cuts'[k] < cuts'[k + 1]
                           /\ cuts'[k + 1] <= Len(src') + 1
  <2>1. \A k \in Phrases : /\ 1 <= cuts[k] /\ cuts[k] < cuts[k + 1]
                           /\ cuts[k + 1] <= Len(src) + 1
    BY DEF Encoding, Stream
  <2>2. 1 <= cuts[n] /\ cuts[n] < cursor /\ cursor <= Len(src) + 1
    BY DEF Encoding, Start
  <2>3. n \in 1..n
    BY <1>1
  <2> QED
    BY <1>2, <1>3, <1>6, <2>1, <2>2, <2>3, ZenonT(60)
<1>14. Stream'
  <2>1. cuts'[1] = 1 /\ Len(cuts') >= 1 /\ Len(codes') >= Len(cuts') - 1
    BY <1>1, <1>2 DEF Encoding, Stream
  <2>2. \A k \in Phrases' : Meaning(k)' /\ Readable(k)'
    BY <1>6, <1>7, <1>8, <1>10, <1>11
  <2> QED
    BY <1>13, <2>1, <2>2, Zenon DEF Stream
<1> QED
  BY <1>1, <1>2, <1>4, <1>5, <1>12, <1>14

(* A new buffer: nothing coded, nothing read. *)
LEMMA TakeBufferStep == Compressors = {"quyte"} /\ IInv /\ TakeBuffer => IInv'
<1> SUFFICES ASSUME Compressors = {"quyte"}, IInv, TakeBuffer PROVE IInv'
  OBVIOUS
<1>1. /\ src' \in Seq(Byte) \ {<<>>} /\ cuts' = <<1>> /\ cursor' = 2
      /\ codes' = <<>> /\ width' = BITS /\ dict' = <<>> /\ phase' = "encode"
  BY CodecAssumption, Zenon DEF TakeBuffer, IInv, Types
<1>2. Len(src') \in Nat /\ Len(src') >= 1
  BY <1>1, EmptySeq
<1>3. cuts' \in Seq(Nat) /\ Len(cuts') = 1 /\ cuts'[1] = 1
  BY <1>1
<1>4. BITS \in Widths
  BY CodecAssumption DEF IInv, Types, Widths
<1>5. Types'
  BY <1>1, <1>3, <1>4 DEF IInv, Types, TakeBuffer, decoder
<1>6. Phrases' = {}
  BY <1>3 DEF Phrases
<1>7. Start' = 1
  BY <1>3 DEF Start
<1>8. Known(Match)'
  <2>1. Match' = SubSeq(src', 1, 1)
    BY <1>1, <1>7 DEF Match
  <2>2. Len(Match') = 1
    BY <1>1, <1>2, <2>1, SubString
  <2> QED
    BY <2>2 DEF Known
<1>9. WidthBefore(Len(cuts))' = BITS
  BY <1>3 DEF WidthBefore
<1>10. Len(codes') = 0 /\ Len(dict') = 0
  BY <1>1
<1>11. Stream'
  BY <1>3, <1>6, <1>10 DEF Stream
<1>12. Encoding'
  BY <1>1, <1>2, <1>3, <1>6, <1>7, <1>8, <1>9, <1>10, <1>11 DEF Encoding
<1> QED
  BY <1>1, <1>5, <1>12 DEF IInv

(* The current match grows by a byte that continues a known phrase. *)
LEMMA QuyteExtendStep == IInv /\ QuyteExtend => IInv'
<1> SUFFICES ASSUME IInv, QuyteExtend PROVE IInv'
  OBVIOUS
<1>1. /\ Types /\ Encoding /\ phase = "encode" /\ cursor <= Len(src)
      /\ Known(LongerMatch) /\ cursor' = cursor + 1
      /\ UNCHANGED <<compressor, phase, src, cuts, dict, codes, width, decoder>>
  BY DEF IInv, QuyteExtend, QuyteLoop, writer
<1>2. cursor \in Nat /\ Len(src) \in Nat /\ Start \in Int
  BY <1>1, SMTT(30) DEF Types, Encoding, Stream, Start
<1>3. Types'
  BY <1>1, <1>2 DEF Types, decoder
<1>4. Stream' /\ Phrases' = Phrases /\ Start' = Start
  BY <1>1, ZenonT(60) DEF Encoding, Stream, Phrases, Meaning, Readable, Phrase, Entry,
              WidthBefore, Start
<1>5. Known(Match)'
  <2>1. Match' = LongerMatch
    BY <1>1, <1>2, <1>4 DEF Match, LongerMatch
  <2> QED
    BY <1>1, <2>1 DEF Known
<1>6. \A k \in Phrases : Entry(k)' = Entry(k)
  BY <1>1 DEF Entry
<1>7. Encoding'
  <2>1. WidthBefore(Len(cuts))' = WidthBefore(Len(cuts))
    BY <1>1 DEF WidthBefore
  <2> QED
    BY <1>1, <1>2, <1>4, <1>5, <1>6, <2>1 DEF Encoding
<1> QED
  BY <1>1, <1>3, <1>7 DEF IInv

(* The code of a match is written and the phrase one byte longer added. *)
LEMMA QuyteEmitStep == IInv /\ QuyteEmit => IInv'
<1> SUFFICES ASSUME IInv, QuyteEmit PROVE IInv'
  OBVIOUS
<1>1. /\ Types /\ Encoding /\ phase = "encode" /\ cursor <= Len(src)
      /\ dict' = Append(dict, LongerMatch)
      /\ cuts' = Append(cuts, cursor) /\ cursor' = cursor + 1
      /\ UNCHANGED <<compressor, phase, src, decoder>>
  BY DEF IInv, QuyteEmit, QuyteLoop
<1>2. PICK to \in Widths : Write(Index(Match), to)
  BY DEF QuyteEmit
<1> DEFINE v == Index(Match)
           new == [from |-> width, to |-> to, value |-> v]
<1>3. /\ to \in width..(MaxWidth - 1) /\ Fits(v, width, to)
      /\ codes' = Append(codes, new) /\ width' = to
  BY <1>2 DEF Write
<1>4. PICK n \in Nat : n = Len(cuts)
  BY <1>1 DEF Types
<1>5. /\ n >= 1 /\ Len(codes) = n - 1 /\ Len(dict) = n - 1
      /\ codes \in Seq(Code) /\ dict \in Seq(Seq(Byte)) /\ cursor \in Nat
      /\ Len(src) \in Nat /\ src \in Seq(Byte) /\ width \in Widths
  BY <1>1, <1>4 DEF Types, Encoding, Stream
<1>6. new \in Code
  BY <1>1, <1>5, MatchMeaning DEF Code
<1> HIDE DEF v, new
<1>7. /\ codes' \in Seq(Code) /\ Len(codes') = n /\ codes'[n] = new
      /\ \A k \in 1..Len(codes) : codes'[k] = codes[k]
  BY <1>3, <1>5, <1>6
<1>8. /\ Stream' /\ cuts' \in Seq(Nat)
      /\ Len(cuts') = n + 1 /\ cuts'[n + 1] = cursor
      /\ \A k \in Phrases : Entry(k)' = Entry(k)
      /\ Entry(n)' = LongerMatch
      /\ WidthBefore(n + 1)' = to
  <2>1. /\ Len(codes') >= Len(codes) + 1 /\ Len(codes) + 1 = n
    BY <1>5, <1>7
  <2> QED
    BY <1>1, <1>3, <1>4, <1>7, <2>1, OneMorePhrase, Zenon DEF v, new
<1>9. Start' = cursor
  BY <1>8 DEF Start
<1>10. LongerMatch \in Seq(Byte)
  <2>1. Start \in Nat /\ 1 <= Start /\ Start <= cursor
    BY <1>1, <1>4, <1>5, SMTT(30) DEF Types, Encoding, Start
  <2> QED
    BY <1>1, <1>5, <2>1, SubString, SMTT(30) DEF LongerMatch
<1>11. Types'
  BY <1>1, <1>2, <1>3, <1>5, <1>7, <1>8, <1>10 DEF Types, decoder
<1>12. /\ Len(dict') = n /\ dict'[n] = LongerMatch
       /\ \A k \in 1..(n - 1) : dict'[k] = dict[k]
  BY <1>1, <1>5, <1>10
<1>13. Phrases = 1..(n - 1) /\ Phrases' = 1..n
  BY <1>4, <1>5, <1>8 DEF Phrases
<1>14. \A k \in Phrases' : dict'[k] = Entry(k)'
  <2>1. \A k \in 1..(n - 1) : dict[k] = Entry(k)
    BY <1>1, <1>13 DEF Encoding
  <2>2. \A k \in 1..n : k = n \/ k \in 1..(n - 1)
    BY <1>5
  <2> QED
    BY <1>8, <1>12, <1>13, <2>1, <2>2
<1>15. Known(Match)'
  <2>1. Match' = SubSeq(src, cursor, cursor)
    BY <1>1, <1>5, <1>9 DEF Match
  <2>2. Start \in Nat /\ Start >= 1 /\ Start < cursor
    BY <1>1, <1>4, <1>5, SMTT(30) DEF Types, Encoding, Start
  <2>3. Len(Match') = 1
    BY <1>1, <1>5, <2>1, <2>2, SubString
  <2> QED
    BY <2>3 DEF Known
<1>16. Encoding'
  <2>1. 1 <= Start' /\ Start' < cursor' /\ cursor' <= Len(src') + 1
    <3>1. Start \in Nat /\ 1 <= Start /\ Start < cursor
      BY <1>1, <1>4, <1>5, SMTT(30) DEF Types, Encoding, Start
    <3> QED
      BY <1>1, <1>5, <1>9, <3>1
  <2> QED
    BY <1>3, <1>5, <1>7, <1>8, <1>12, <1>14, <1>15, <2>1 DEF Encoding
<1> QED
  BY <1>1, <1>11, <1>16 DEF IInv

(* The code of the last match and the end code are written. *)
LEMMA QuyteFinishStep == IInv /\ QuyteFinish => IInv'
<1> SUFFICES ASSUME IInv, QuyteFinish PROVE IInv'
  OBVIOUS
<1>1. /\ Types /\ Encoding /\ phase = "encode" /\ ~QuyteLoop /\ dict' = <<>>
      /\ compressor = "quyte" /\ UNCHANGED <<compressor, src, cursor>>
  BY DEF IInv, QuyteFinish
<1>2. PICK to \in width..(MaxWidth - 1) :
        /\ Fits(Index(Match), width, to)
        /\ IF Room(bits) /\ Room(bits + BitsOf(width, to))
           THEN /\ codes' = codes \o << [from |-> width, to |-> to,
                                          value |-> Index(Match)], EndCode(to) >>
                /\ width' = to + 1 /\ cuts' = Append(cuts, cursor)
                /\ Decompress
           ELSE LeaveRaw /\ UNCHANGED <<writer, cuts>>
  BY Zenon DEF QuyteFinish, Finish
<1>3. CASE ~(Room(bits) /\ Room(bits + BitsOf(width, to)))
  <2>1. phase' = "idle" /\ UNCHANGED <<decoder, codes, width, cuts>>
    BY <1>2, <1>3 DEF LeaveRaw, writer
  <2>2. Types'
    BY <1>1, <2>1 DEF Types, decoder
  <2> QED
    BY <1>1, <2>1, <2>2 DEF IInv
<1>4. CASE Room(bits) /\ Room(bits + BitsOf(width, to))
  <2> DEFINE new == [from |-> width, to |-> to, value |-> Index(Match)]
  <2>1. /\ codes' = codes \o <<new, EndCode(to)>> /\ width' = to + 1
        /\ cuts' = Append(cuts, cursor) /\ phase' = "decode"
        /\ pos' = 0 /\ r_width' = BITS
        /\ last' = <<>> /\ dictionary' = <<>> /\ uncompressed' = <<>>
    BY <1>2, <1>4, SMTT(30) DEF Decompress
  <2>2. PICK n \in Nat : n = Len(cuts)
    BY <1>1 DEF Types
  <2>3. /\ n >= 1 /\ Len(codes) = n - 1 /\ codes \in Seq(Code)
        /\ cursor \in Nat /\ Len(src) \in Nat /\ src \in Seq(Byte)
        /\ width \in Widths /\ BITS \in Nat /\ MaxWidth \in Nat
    BY <1>1, <2>2, CodecAssumption DEF Types, Encoding, Stream
  <2>4. to \in Widths /\ to + 1 \in Widths /\ BITS \in Widths /\ to \in Nat
    BY <2>3 DEF Widths
  <2>5. new \in Code /\ EndCode(to) \in Code
    BY <1>1, <2>3, <2>4, MatchMeaning DEF Code, EndCode
  <2> HIDE DEF new
  <2>6. /\ codes' \in Seq(Code) /\ Len(codes') = n + 1
        /\ codes'[n] = new /\ codes'[n + 1] = EndCode(to)
        /\ \A k \in 1..Len(codes) : codes'[k] = codes[k]
    <3>1. <<new, EndCode(to)>> \in Seq(Code) /\ Len(<<new, EndCode(to)>>) = 2
          /\ <<new, EndCode(to)>>[1] = new /\ <<new, EndCode(to)>>[2] = EndCode(to)
      BY <2>5
    <3> DEFINE t == <<new, EndCode(to)>>
    <3> HIDE DEF t
    <3>2. /\ codes' \in Seq(Code) /\ Len(codes') = Len(codes) + Len(t)
          /\ \A i \in 1..(Len(codes) + Len(t)) : codes'[i] =
               IF i <= Len(codes) THEN codes[i] ELSE t[i - Len(codes)]
      BY <2>1, <2>3, <3>1, ConcatProperties, SMTT(30) DEF t
    <3>3. Len(t) = 2 /\ t[1] = new /\ t[2] = EndCode(to)
      BY <3>1 DEF t
    <3>4. /\ Len(codes) + Len(t) = n + 1 /\ ~(n <= Len(codes))
          /\ ~(n + 1 <= Len(codes)) /\ n - Len(codes) = 1
          /\ (n + 1) - Len(codes) = 2
          /\ n \in 1..(n + 1) /\ n + 1 \in 1..(n + 1)
          /\ \A k \in 1..Len(codes) : k \in 1..(n + 1) /\ k <= Len(codes)
      BY <2>3, <3>3
    <3>5. codes'[n] = t[1] /\ codes'[n + 1] = t[2]
      BY <3>2, <3>4
    <3> QED
      BY <3>2, <3>3, <3>4, <3>5
  <2>7. /\ Stream' /\ cuts' \in Seq(Nat)
        /\ Len(cuts') = n + 1 /\ cuts'[n + 1] = cursor
        /\ WidthBefore(n + 1)' = to
    <3>1. Len(codes') >= Len(codes) + 1 /\ Len(codes) + 1 = n
      BY <2>3, <2>6
    <3> QED
      BY <1>1, <1>2, <2>1, <2>2, <2>6, <3>1, OneMorePhrase, SMTT(30) DEF new
  <2>8. Start' = cursor /\ cursor = Len(src) + 1
    <3>1. Start' = cursor
      BY <2>7 DEF Start
    <3>2. ~(cursor <= Len(src)) /\ cursor <= Len(src) + 1
      BY <1>1, <1>4 DEF QuyteLoop, Encoding
    <3> QED
      BY <2>3, <3>1, <3>2
  <2>9. Compressed'
    BY <1>1, <2>3, <2>6, <2>7, <2>8 DEF Compressed, EndCode
  <2>10. Types'
    BY <1>1, <2>1, <2>4, <2>6, <2>7 DEF Types
  <2>11. cuts'[1] = 1
    BY <2>7 DEF Stream
  <2>12. Reading'
    BY <2>1, <2>3, <2>7 DEF Reading, WidthBefore
  <2>13. Decoding'
    <3>1. SubSeq(src', 1, 0) = <<>>
      BY SubSeqEmpty
    <3> QED
      BY <2>1, <2>11, <3>1 DEF Decoding
  <2> QED
    BY <1>1, <2>1, <2>9, <2>10, <2>12, <2>13 DEF IInv
<1> QED
  BY <1>3, <1>4

-----------------------------------------------------------------------------
(* The decoder *)

LEMMA PhraseFacts ==
  ASSUME Types, Stream, NEW k \in Phrases
  PROVE  /\ Phrase(k) \in Seq(Byte) /\ Phrase(k) # <<>>
         /\ Phrase(k)[1] = src[cuts[k]]
         /\ k + 1 \in Phrases => /\ Entry(k) = Phrase(k) \o <<src[cuts[k + 1]]>>
                                 /\ Entry(k)[1] = src[cuts[k]]
                                 /\ src[cuts[k + 1]] \in Byte
<1>1. /\ cuts[k] \in Nat /\ cuts[k + 1] \in Nat /\ Len(src) \in Nat
      /\ src \in Seq(Byte)
  BY SMTT(30) DEF Types, Phrases
<1>2. 1 <= cuts[k] /\ cuts[k] < cuts[k + 1] /\ cuts[k + 1] <= Len(src) + 1
  BY DEF Stream
<1>3. cuts[k + 1] - 1 \in Nat /\ cuts[k] <= cuts[k + 1] - 1 /\ cuts[k + 1] - 1 <= Len(src)
  BY <1>1, <1>2
<1>4. /\ Phrase(k) \in Seq(Byte) /\ Phrase(k) # <<>>
      /\ Phrase(k)[1] = src[cuts[k]]
  BY <1>1, <1>2, <1>3, SubString, ZenonT(60) DEF Phrase
<1>5. ASSUME k + 1 \in Phrases
      PROVE  /\ Entry(k) = Phrase(k) \o <<src[cuts[k + 1]]>>
             /\ Entry(k)[1] = src[cuts[k]]
             /\ src[cuts[k + 1]] \in Byte
  <2>1. /\ cuts[k + 1] < cuts[(k + 1) + 1]
        /\ cuts[(k + 1) + 1] <= Len(src) + 1
    BY <1>5 DEF Stream
  <2>2. cuts[(k + 1) + 1] \in Nat
    BY <1>5, SMTT(30) DEF Types, Phrases
  <2>3. /\ cuts[k + 1] <= Len(src) /\ cuts[k] \in 1..Len(src)
        /\ cuts[k + 1] \in cuts[k]..Len(src) /\ cuts[k + 1] \in 1..Len(src)
        /\ cuts[k] <= cuts[k + 1]
    BY <1>1, <1>2, <2>1, <2>2
  <2>4. Entry(k) = Phrase(k) \o <<src[cuts[k + 1]]>>
    BY <1>1, <2>3, SubSeqRecursiveSecond, Zenon DEF Entry, Phrase
  <2>5. Entry(k)[1] = src[cuts[k]]
    BY <1>1, <1>2, <2>3, SubString DEF Entry
  <2>6. src[cuts[k + 1]] \in Byte
    BY <1>1, <2>3, ElementOfSeq
  <2> QED
    BY <2>4, <2>5, <2>6
<1> QED
  BY <1>4, <1>5

(* The reader stays in step with the writer, whatever the decoder does. *)
LEMMA InStepWithWriter ==
  ASSUME Types, Compressed, Reading
  PROVE  /\ InStep /\ (AtEnd <=> pos + 1 = Len(codes))
         /\ ~AtEnd => pos + 1 \in Phrases
         /\ pos = 0 => ~AtEnd /\ Decoded
<1> DEFINE k == pos + 1
<1>1. /\ pos \in Nat /\ k \in 1..Len(codes) /\ Len(codes) = Len(cuts)
      /\ Len(cuts) \in Nat /\ Len(cuts) > 1
      /\ codes \in Seq(Code) /\ codes[k] \in Code
  BY SMTT(30) DEF Types, Compressed, Reading
<1>2. r_width = WidthBefore(k)
  BY DEF Reading
<1>3. TheCode = codes[k] /\ codes[k].to \in Widths /\ codes[k].from \in Widths
      /\ codes[k].value \in Nat
  BY <1>1 DEF TheCode, Code
<1>4. \A w \in Widths : w \in Nat /\ Marker[w] \in Nat /\ Marker[w] > 1
  BY CodecAssumption DEF Widths
<1>5. CASE k = Len(codes)
  <2>1. codes[k] = EndCode(WidthBefore(k))
    BY <1>5 DEF Compressed
  <2>2. /\ codes[k].from = WidthBefore(k) /\ codes[k].value = 0
        /\ codes[k].to = codes[k].from + 1
    BY <2>1 DEF EndCode
  <2>3. InStep
    BY <1>1, <1>2, <1>3, <1>4, <2>2 DEF InStep
  <2>4. AtEnd
    BY <1>3, <1>4, <2>2 DEF AtEnd
  <2> QED
    BY <1>1, <1>5, <2>3, <2>4
<1>6. CASE k # Len(codes)
  <2>1. k \in Phrases
    BY <1>1, <1>6 DEF Phrases
  <2>2. Meaning(k) /\ Readable(k)
    BY <2>1 DEF Compressed, Stream
  <2>3. InStep
    BY <1>1, <1>2, <1>3, <1>4, <2>2 DEF InStep, Readable
  <2>4. ~AtEnd
    BY <1>3, <1>4, <2>2 DEF AtEnd, Readable
  <2>5. pos = 0 => Decoded
    <3> SUFFICES ASSUME pos = 0 PROVE Decoded
      OBVIOUS
    <3>1. k = 1 /\ 1..(k - 1) = {}
      OBVIOUS
    <3>2. codes[k].value \in Byte
      BY <2>2, <3>1 DEF Meaning
    <3> QED
      BY <1>3, <3>2, CodecAssumption DEF Decoded, Byte
  <2> QED
    BY <1>6, <2>1, <2>3, <2>4, <2>5
<1> QED
  BY <1>5, <1>6

(* What the decoder makes of a code is never empty. *)
LEMMA DecodedString ==
  ASSUME Types, Compressed, Reading, DecodeCode
  PROVE  /\ Current \in Seq(Byte) /\ Current # <<>> /\ Current[1] \in Byte
         /\ last' \in Seq(Byte) /\ last' # <<>> /\ last'[1] = Current[1]
         /\ dictionary' \in Seq(Seq(Byte))
         /\ \A j \in 1..Len(dictionary') : dictionary'[j] # <<>>
<1>1. /\ InStep /\ ~AtEnd /\ (Decoded \/ last # <<>>)
      /\ last' = IF Decoded THEN Current ELSE last \o Current
      /\ registerIndex(Current)
  BY DEF DecodeCode
<1>2. TheCode.value \in Nat /\ FIRST_CUSTOM_INDEX \in Nat
  <2>1. pos + 1 \in 1..Len(codes) /\ codes \in Seq(Code)
    BY <1>1 DEF InStep, Types
  <2>2. codes[pos + 1] \in Code
    BY <2>1, ElementOfSeq
  <2> QED
    BY <2>2, CodecAssumption DEF TheCode, Code
<1>3. dictionary \in Seq(Seq(Byte)) /\ Len(dictionary) \in Nat /\ last \in Seq(Byte)
  BY DEF Types
<1>4. last # <<>> => last[1] \in Byte /\ Len(last) \in Nat \ {0}
  <2>1. last # <<>> => Len(last) \in Nat \ {0}
    BY <1>3, EmptySeq
  <2>2. last # <<>> => 1 \in 1..Len(last)
    BY <2>1
  <2> QED
    BY <1>3, <2>1, <2>2, ElementOfSeq
<1>5. \A b \in Byte : /\ <<b>> \in Seq(Byte) /\ <<b>> # <<>> /\ <<b>>[1] = b
                      /\ Len(<<b>>) = 1
  OBVIOUS
<1>6. Current \in Seq(Byte) /\ Current # <<>>
  <2>1. CASE TheCode.value < FIRST_CUSTOM_INDEX
    <3>1. TheCode.value \in Byte
      BY <1>2, <2>1 DEF Byte
    <3> QED
      BY <1>5, <2>1, <3>1 DEF Current
  <2>2. CASE ~(TheCode.value < FIRST_CUSTOM_INDEX) /\ Decoded
    <3>1. TheCode.value - FIRST_CUSTOM_INDEX + 1 \in 1..Len(dictionary)
      BY <1>2, <1>3, <2>2 DEF Decoded
    <3> QED
      BY <1>3, <2>2, <3>1, ElementOfSeq DEF Current, Reading
  <2>3. CASE ~Decoded
    <3>1. ~(TheCode.value < FIRST_CUSTOM_INDEX)
      BY <2>3 DEF Decoded
    <3> QED
      BY <1>1, <1>4, <1>5, <2>3, <3>1 DEF Current
  <2> QED
    BY <2>1, <2>2, <2>3
<1>7. Len(Current) \in Nat \ {0} /\ Current[1] \in Byte
  <2>1. Len(Current) \in Nat \ {0}
    BY <1>6, EmptySeq
  <2>2. 1 \in 1..Len(Current)
    BY <2>1
  <2> QED
    BY <1>6, <2>1, <2>2, ElementOfSeq
<1>8. /\ last' \in Seq(Byte) /\ last' # <<>> /\ last'[1] = Current[1]
  <2>1. CASE Decoded
    BY <1>1, <1>6, <2>1
  <2>2. CASE ~Decoded
    <3>1. last # <<>> /\ last' = last \o Current
      BY <1>1, <2>2
    <3>2. Current = <<last[1]>>
      BY <2>2 DEF Current, Decoded
    <3>3. Current[1] = last[1]
      BY <1>4, <1>5, <3>1, <3>2
    <3>4. /\ last' \in Seq(Byte) /\ Len(last') = Len(last) + Len(Current)
          /\ \A i \in 1..(Len(last) + Len(Current)) : last'[i] =
               IF i <= Len(last) THEN last[i] ELSE Current[i - Len(last)]
      BY <1>3, <1>6, <3>1, ConcatProperties
    <3>5. 1 \in 1..(Len(last) + Len(Current)) /\ 1 <= Len(last)
      BY <1>4, <1>7, <3>1
    <3>6. last' # <<>>
      BY <1>3, <1>6, <3>1, ConcatEqualIffEmpty
    <3> QED
      BY <3>3, <3>4, <3>5, <3>6
  <2> QED
    BY <2>1, <2>2
<1>9. /\ dictionary' \in Seq(Seq(Byte))
      /\ \A j \in 1..Len(dictionary') : dictionary'[j] # <<>>
  <2> DEFINE e == last \o <<Current[1]>>
  <2>1. e \in Seq(Byte) /\ e # <<>>
    BY <1>3, <1>5, <1>7, ConcatProperties, ConcatEqualIffEmpty
  <2>2. dictionary' = dictionary \/ dictionary' = Append(dictionary, e)
    BY <1>1 DEF registerIndex
  <2>3. \A j \in 1..Len(dictionary) : dictionary[j] # <<>>
    BY DEF Reading
  <2> HIDE DEF e
  <2>4. CASE dictionary' = Append(dictionary, e)
    <3>1. /\ dictionary' \in Seq(Seq(Byte)) /\ Len(dictionary') = Len(dictionary) + 1
          /\ dictionary'[Len(dictionary) + 1] = e
          /\ \A j \in 1..Len(dictionary) : dictionary'[j] = dictionary[j]
      BY <1>3, <2>1, <2>4
    <3>2. \A j \in 1..(Len(dictionary) + 1) :
            j = Len(dictionary) + 1 \/ j \in 1..Len(dictionary)
      BY <1>3
    <3> QED
      BY <2>1, <2>3, <3>1, <3>2, Zenon
  <2> QED
    BY <1>3, <2>2, <2>3, <2>4
<1> QED
  BY <1>6, <1>7, <1>8, <1>9

(* The string that a code is decoded into is its phrase. *)
LEMMA DecodedPhrase ==
  ASSUME Types, Compressed, Reading, Decoding, WithinIndexes, DecodeCode
  PROVE  last' = Phrase(pos + 1)
<1>1. pos + 1 \in Phrases
  BY InStepWithWriter DEF DecodeCode
<1>2. Meaning(pos + 1) /\ Stream /\ Len(cuts) \in Nat /\ pos \in Nat
  BY <1>1 DEF Compressed, Stream, Types
<1>3. last' = IF Decoded THEN Current ELSE last \o Current
  BY DEF DecodeCode
<1>4. TheCode = codes[pos + 1] /\ FIRST_CUSTOM_INDEX \in Nat
  BY CodecAssumption DEF TheCode
<1>5. CASE codes[pos + 1].value \in Byte /\ Phrase(pos + 1) = <<codes[pos + 1].value>>
  <2>1. TheCode.value < FIRST_CUSTOM_INDEX
    BY <1>4, <1>5 DEF Byte
  <2> QED
    BY <1>3, <1>4, <1>5, <2>1 DEF Decoded, Current
<1>6. ASSUME NEW j \in 1..((pos + 1) - 1),
             codes[pos + 1].value = FIRST_CUSTOM_INDEX - 1 + j,
             Phrase(pos + 1) = Entry(j)
      PROVE  last' = Phrase(pos + 1)
  <2>1. /\ pos > 0 /\ j \in Nat /\ j >= 1 /\ j <= pos
        /\ last = Phrase(pos) /\ Len(dictionary) <= pos - 1
        /\ \/ Len(dictionary) = pos - 1
           \/ FIRST_CUSTOM_INDEX + Len(dictionary) > MAX_INDEX
        /\ \A i \in 1..Len(dictionary) : dictionary[i] = Entry(i)
    BY <1>2, <1>6 DEF Decoding
  <2>2. /\ ~(TheCode.value < FIRST_CUSTOM_INDEX)
        /\ TheCode.value - FIRST_CUSTOM_INDEX + 1 = j
        /\ Len(dictionary) \in Nat /\ MAX_INDEX \in Nat
        /\ Decoded <=> j <= Len(dictionary)
    <3>1. Len(dictionary) \in Nat /\ MAX_INDEX \in Nat
      BY CodecAssumption DEF Types
    <3>2. TheCode.value = FIRST_CUSTOM_INDEX - 1 + j
      BY <1>4, <1>6
    <3> QED
      BY <1>4, <2>1, <3>1, <3>2 DEF Decoded
  <2>3. CASE j <= Len(dictionary)
    <3>1. j \in 1..Len(dictionary)
      BY <2>1, <2>2, <2>3
    <3>2. Current = dictionary[j]
      BY <2>2, <2>3 DEF Current
    <3> QED
      BY <1>3, <1>6, <2>1, <2>2, <2>3, <3>1, <3>2
  <2>4. CASE ~(j <= Len(dictionary))
    <3>1. j = pos /\ pos \in Phrases
      <4>1. TheCode.value <= MAX_INDEX
        <5>1. pos + 1 \in 1..Len(codes)
          BY <1>1, <1>2 DEF Phrases, Compressed
        <5> QED
          BY <1>4, <5>1 DEF WithinIndexes
      <4>2. j <= MAX_INDEX - FIRST_CUSTOM_INDEX + 1
        BY <1>4, <1>6, <2>1, <2>2, <4>1
      <4>3. Len(dictionary) = pos - 1
        BY <1>4, <2>1, <2>2, <2>4, <4>2
      <4> QED
        BY <1>1, <1>2, <2>1, <2>4, <4>3 DEF Phrases
    <3>2. Current = <<last[1]>> /\ last' = last \o <<last[1]>>
      BY <1>3, <2>2, <2>4 DEF Current
    <3>3. /\ last[1] = src[cuts[pos]]
          /\ Entry(pos) = last \o <<src[cuts[pos + 1]]>>
          /\ Entry(pos)[1] = src[cuts[pos]]
      BY <1>1, <1>2, <2>1, <3>1, PhraseFacts, SMTT(30)
    <3>4. Phrase(pos + 1)[1] = src[cuts[pos + 1]]
      BY <1>1, <1>2, PhraseFacts, Zenon
    <3> QED
      BY <1>6, <3>1, <3>2, <3>3, <3>4
  <2> QED
    BY <2>3, <2>4
<1> QED
  BY <1>2, <1>5, <1>6 DEF Meaning

(* The reader reads a code and adds the phrase the writer added. *)
LEMMA DecodeCodeStep == IInv /\ DecodeCode => IInv'
<1> SUFFICES ASSUME IInv, DecodeCode PROVE IInv'
  OBVIOUS
<1>1. /\ Types /\ Compressed /\ Reading /\ dict = <<>> /\ phase = "decode"
      /\ pos' = pos + 1 /\ r_width' = TheCode.to
      /\ uncompressed' = uncompressed \o last' /\ registerIndex(Current)
      /\ UNCHANGED <<compressor, phase, src, cursor, cuts, dict, codes, width>>
  BY DEF IInv, DecodeCode, encoder, writer
<1>2. pos + 1 \in Phrases /\ pos \in Nat
  BY <1>1, InStepWithWriter DEF DecodeCode, Types
<1>3. /\ Len(cuts) \in Nat /\ pos + 1 < Len(cuts) /\ pos + 1 \in 1..Len(codes)
      /\ Len(codes) = Len(cuts) /\ FIRST_CUSTOM_INDEX \in Nat /\ MAX_INDEX \in Nat
  <2>1. Len(cuts) \in Nat /\ Len(codes) = Len(cuts) /\ pos + 1 \in 1..(Len(cuts) - 1)
    BY <1>1, <1>2 DEF Types, Phrases, Compressed
  <2>2. FIRST_CUSTOM_INDEX \in Nat /\ MAX_INDEX \in Nat
    BY CodecAssumption
  <2> QED
    BY <1>2, <2>1, <2>2
<1>4. /\ Current \in Seq(Byte) /\ Current[1] \in Byte
      /\ last' \in Seq(Byte) /\ last' # <<>> /\ last'[1] = Current[1]
      /\ dictionary' \in Seq(Seq(Byte))
      /\ \A j \in 1..Len(dictionary') : dictionary'[j] # <<>>
  BY <1>1, DecodedString
<1>5. TheCode = codes[pos + 1] /\ codes[pos + 1].to \in Widths
  <2>1. codes[pos + 1] \in Code
    BY <1>1, <1>3, ElementOfSeq DEF Types
  <2> QED
    BY <2>1 DEF TheCode, Code
<1>6. uncompressed' \in Seq(Byte)
  BY <1>1, <1>4, ConcatProperties DEF Types
<1>7. Types'
  BY <1>1, <1>2, <1>4, <1>5, <1>6 DEF Types
<1>8. \A k : Phrase(k)' = Phrase(k) /\ Entry(k)' = Entry(k)
             /\ WidthBefore(k)' = WidthBefore(k)
  BY <1>1 DEF Phrase, Entry, WidthBefore
<1>9. Compressed'
  BY <1>1, ZenonT(60) DEF Compressed, Stream, Phrases, Meaning, Readable, Phrase, Entry,
              WidthBefore, Start
<1>10. Reading'
  <2>1. WidthBefore(pos + 1)' = codes[pos + 1].to
    <3>1. pos' + 1 # 1 /\ (pos' + 1) - 1 = pos + 1 /\ codes' = codes
      BY <1>1, <1>2
    <3> QED
      BY <3>1 DEF WidthBefore
  <2> QED
    BY <1>1, <1>3, <1>4, <1>5, <2>1 DEF Reading
<1>11. ASSUME WithinIndexes' PROVE Decoding'
  <2>1. Decoding /\ WithinIndexes
    BY <1>1, <1>11 DEF IInv, WithinIndexes
  <2>2. last' = Phrase(pos + 1)
    BY <1>1, <2>1, DecodedPhrase
  <2>3. uncompressed' = SubSeq(src, 1, cuts[pos + 1 + 1] - 1)
    <3>1. /\ cuts[pos + 1] \in Nat /\ cuts[pos + 1 + 1] \in Nat
          /\ src \in Seq(Byte) /\ Len(src) \in Nat
      BY <1>1, <1>2, SMTT(30) DEF Types, Phrases
    <3>2. /\ 1 <= cuts[pos + 1] /\ cuts[pos + 1] < cuts[pos + 1 + 1]
          /\ cuts[pos + 1 + 1] <= Len(src) + 1
      BY <1>1, <1>2, Zenon DEF Compressed, Stream
    <3> DEFINE a == cuts[pos + 1] - 1
               b == cuts[pos + 1 + 1] - 1
    <3>3. /\ 1 \in 1..(Len(src) + 1) /\ a \in (1 - 1)..Len(src)
          /\ b \in a..Len(src) /\ a + 1 = cuts[pos + 1]
      BY <3>1, <3>2
    <3>4. uncompressed = SubSeq(src, 1, a) /\ last' = SubSeq(src, a + 1, b)
      BY <2>1, <2>2, <3>3, Zenon DEF Decoding, Phrase
    <3> HIDE DEF a, b
    <3>5. SubSeq(src, 1, a) \o SubSeq(src, a + 1, b) = SubSeq(src, 1, b)
      BY <3>1, <3>3, ConcatAdjacentSubSeq
    <3> QED
      BY <1>1, <3>4, <3>5, Zenon DEF b
  <2>4. /\ Len(dictionary') <= pos
        /\ Len(dictionary') = pos \/ FIRST_CUSTOM_INDEX + Len(dictionary') > MAX_INDEX
        /\ \A j \in 1..Len(dictionary') : dictionary'[j] = Entry(j)
    <3>1. CASE pos = 0
      <4>1. last = <<>> /\ dictionary = <<>>
        BY <2>1, <3>1 DEF Decoding
      <4> QED
        BY <1>1, <3>1, <4>1 DEF registerIndex
    <3>2. CASE pos > 0
      <4>1. /\ last = Phrase(pos) /\ Len(dictionary) <= pos - 1
            /\ \/ Len(dictionary) = pos - 1
               \/ FIRST_CUSTOM_INDEX + Len(dictionary) > MAX_INDEX
            /\ \A j \in 1..Len(dictionary) : dictionary[j] = Entry(j)
        BY <2>1, <3>2 DEF Decoding
      <4>2. last # <<>> /\ Len(dictionary) \in Nat
        BY <1>1, <3>2 DEF Reading, Types
      <4>3. pos \in Phrases
        BY <1>2, <3>2 DEF Phrases
      <4>4. last \o <<Current[1]>> = Entry(pos)
        <5>1. Entry(pos) = last \o <<src[cuts[pos + 1]]>>
          BY <1>1, <1>2, <4>1, <4>3, PhraseFacts DEF Compressed
        <5>2. Current[1] = src[cuts[pos + 1]]
          BY <1>1, <1>2, <1>4, <2>2, PhraseFacts, Zenon DEF Compressed
        <5> QED
          BY <5>1, <5>2
      <4>5. CASE FIRST_CUSTOM_INDEX + Len(dictionary) <= MAX_INDEX
        <5>1. dictionary' = Append(dictionary, Entry(pos))
          BY <1>1, <4>2, <4>4, <4>5, Zenon DEF registerIndex
        <5>2. dictionary \in Seq(Seq(Byte)) /\ Entry(pos) \in Seq(Byte)
          <6>1. last \o <<Current[1]>> \in Seq(Byte)
            BY <1>1, <1>4, ConcatProperties DEF Types
          <6> QED
            BY <1>1, <4>4, <6>1, Zenon DEF Types
        <5>3. /\ Len(dictionary') = Len(dictionary) + 1
              /\ dictionary'[Len(dictionary) + 1] = Entry(pos)
              /\ \A j \in 1..Len(dictionary) : dictionary'[j] = dictionary[j]
          BY <5>1, <5>2
        <5>4. /\ Len(dictionary) + 1 = pos
              /\ \A j \in 1..pos : j = pos \/ j \in 1..Len(dictionary)
          BY <1>2, <1>3, <4>1, <4>2, <4>5
        <5> QED
          BY <4>1, <5>3, <5>4
      <4>6. CASE ~(FIRST_CUSTOM_INDEX + Len(dictionary) <= MAX_INDEX)
        <5>1. dictionary' = dictionary
          BY <1>1, <4>6, Zenon DEF registerIndex
        <5> QED
          BY <1>2, <1>3, <4>1, <4>2, <4>6, <5>1
      <4> QED
        BY <4>5, <4>6
    <3> QED
      BY <1>2, <3>1, <3>2
  <2>5. pos' > 0 /\ pos' # 0 /\ pos' - 1 = pos /\ pos' = pos + 1
    BY <1>1, <1>2
  <2>6. Phrase(pos)' = Phrase(pos + 1)
    BY <1>1 DEF Phrase
  <2>7. uncompressed' = SubSeq(src', 1, cuts'[pos' + 1] - 1)
    BY <1>1, <2>3
  <2> QED
    BY <1>8, <2>2, <2>4, <2>5, <2>6, <2>7 DEF Decoding
<1> QED
  BY <1>1, <1>7, <1>9, <1>10, <1>11 DEF IInv

(* The reader meets the end code after the last phrase. *)
LEMMA DecodeEndStep == IInv /\ DecodeEnd => IInv'
<1> SUFFICES ASSUME IInv, DecodeEnd PROVE IInv'
  OBVIOUS
<1>1. /\ Types /\ Compressed /\ Reading /\ dict = <<>> /\ phase = "decode"
      /\ AtEnd /\ phase' = "read"
      /\ UNCHANGED <<compressor, src, cursor, cuts, dict, codes, width, decoder>>
  BY DEF IInv, DecodeEnd, encoder, writer
<1>2. Types'
  BY <1>1 DEF Types, decoder
<1>3. ASSUME WithinIndexes' PROVE uncompressed' = src'
  <2>1. uncompressed = SubSeq(src, 1, cuts[pos + 1] - 1)
    BY <1>1, <1>3 DEF IInv, WithinIndexes, Decoding
  <2>2. pos + 1 = Len(cuts)
    BY <1>1, InStepWithWriter DEF Compressed
  <2>3. cuts[pos + 1] - 1 = Len(src)
    BY <1>1, <2>2 DEF Compressed, Start, Types
  <2>4. uncompressed = src
    BY <1>1, <2>1, <2>3, SubSeqFull DEF Types
  <2> QED
    BY <1>1, <2>4 DEF decoder
<1> QED
  BY <1>1, <1>2, <1>3 DEF IInv

-----------------------------------------------------------------------------
(* The invariant holds initially and every step keeps it.  A worker that   *)
(* compresses with the quyte tree takes no step of LZWCompression.         *)
LEMMA Invariance ==
  ASSUME Compressors = {"quyte"}
  PROVE  Spec => []IInv
<1>1. Init => IInv
  <2> SUFFICES ASSUME Init PROVE IInv
    OBVIOUS
  <2>1. BITS \in Widths
    BY CodecAssumption DEF Widths
  <2> QED
    BY <2>1 DEF Init, IInv, Types
<1>2. IInv /\ [Next]_vars => IInv'
  <2> SUFFICES ASSUME IInv, [Next]_vars PROVE IInv'
    OBVIOUS
  <2>1. CASE TakeBuffer
    BY <2>1, TakeBufferStep
  <2>2. CASE QuyteExtend
    BY <2>2, QuyteExtendStep
  <2>3. CASE QuyteEmit
    BY <2>3, QuyteEmitStep
  <2>4. CASE QuyteFinish
    BY <2>4, QuyteFinishStep
  <2>5. CASE LZWStep \/ LZWFinish
    BY <2>5 DEF LZWStep, LZWLoop, LZWFinish, IInv, Types
  <2>6. CASE DecodeCode
    BY <2>6, DecodeCodeStep
  <2>7. CASE DecodeEnd
    BY <2>7, DecodeEndStep
  <2>8. CASE UNCHANGED vars
    BY <2>8, ZenonT(60) DEF vars, encoder, writer, decoder, IInv, Types, Encoding, Stream,
      Compressed, Reading, Decoding, WithinIndexes, Phrases, Meaning, Readable,
      Phrase, Entry, WidthBefore, Start, Match, Known
  <2> QED
    BY <2>1, <2>2, <2>3, <2>4, <2>5, <2>6, <2>7, <2>8 DEF Next
<1> QED
  BY <1>1, <1>2, PTL DEF Spec

(* With the default compressor the reader of the analyzer meets every      *)
(* marker, value and end where the writer put it, for buffers of any       *)
(* content and however many strings got an index.                          *)
THEOREM QuyteReaderInStep ==
  ASSUME Compressors = {"quyte"}
  PROVE  Spec => []ReaderInStep
<1>1. IInv => ReaderInStep
  <2> SUFFICES ASSUME IInv, phase = "decode"
               PROVE  InStep /\ (AtEnd <=> pos + 1 = Len(codes))
                        /\ (~AtEnd => Decoded \/ last # <<>>)
    BY DEF ReaderInStep
  <2>1. Types /\ Compressed /\ Reading
    BY DEF IInv
  <2>2. pos = 0 \/ pos > 0
    BY <2>1 DEF Types
  <2> QED
    BY <2>1, <2>2, InStepWithWriter DEF Reading
<1> QED
  BY <1>1, Invariance, PTL

(* With the default compressor every buffer is read as it was written,     *)
(* unless a code in it is an index beyond those the decoder keeps.         *)
THEOREM QuyteRoundTrip ==
  ASSUME Compressors = {"quyte"}
  PROVE  Spec => []RoundTrip
<1>1. IInv => RoundTrip
  BY DEF IInv, RoundTrip
<1> QED
  BY <1>1, Invariance, PTL
=============================================================================
