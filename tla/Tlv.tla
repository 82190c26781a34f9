--------------------------------- MODULE Tlv ---------------------------------
(***************************************************************************)
(* BER-TLV as lds/tlv.rs and lds/tlv_set.rs write and read it, on bytes.   *)
(* What may fail returns the set of its outcomes: empty for a TlvError.    *)
(* Lengths over 16 777 215, which encode_length refuses, do not occur.     *)
(***************************************************************************)
EXTENDS Naturals, Sequences, SequencesExt

\* utils.rs: big-endian numbers.
ByteCount(n) == CHOOSE w \in 0 .. 4 : /\ w = 4 \/ n < 256^w
                                      /\ w > 0 => 256^(w - 1) <= n
BigEndian(n, w) == [i \in 1 .. w |-> IF w - i > 3 THEN 0 ELSE (n \div 256^(w - i)) % 256]
FromBigEndian(bytes) == FoldLeft(LAMBDA n, b : n * 256 + b, 0, bytes)
IntToBin(n, minLen) == BigEndian(n, IF ByteCount(n) > minLen THEN ByteCount(n) ELSE minLen)

Given(condition, outcome) == IF condition THEN {outcome} ELSE {}
From(bytes, i) == SubSeq(bytes, i, Len(bytes))

EncodeTag(tag) == IntToBin(tag, 1)

\* A tag is one byte, or runs on to the first byte without the continuation
\* bit.  It has to fit in 32 bits.
TagEnds(b) == {j \in 2 .. Len(b) : b[j] < 128 /\ \A i \in 2 .. j - 1 : b[i] >= 128}
DecodeTag(b) ==
  IF b = << >> THEN {}
  ELSE IF b[1] % 32 # 31 THEN {[value |-> b[1], len |-> 1]}
       ELSE {[value |-> FromBigEndian(SubSeq(b, 1, j)), len |-> j] : j \in TagEnds(b) \cap 2 .. 4}

EncodeLength(n) ==
  IF n < 128 THEN <<n>> ELSE <<128 + ByteCount(n)>> \o BigEndian(n, ByteCount(n))

\* A long length that would have fitted in fewer bytes is accepted.
DecodeLength(b) ==
  IF b = << >> THEN {}
  ELSE IF b[1] < 128 THEN {[value |-> b[1], len |-> 1]}
       ELSE {[value |-> FromBigEndian(SubSeq(b, 2, 1 + n)), len |-> 1 + n]
               : n \in {b[1] - 128} \cap 1 .. 3 \cap 1 .. Len(b) - 1}

Encode(tag, data) == EncodeTag(tag) \o EncodeLength(Len(data)) \o data
EncodeInt(tag, n) == Encode(tag, IntToBin(n, 1))

DecodeTagAndLength(b) ==
  {[tag |-> t.value, length |-> n.value, len |-> t.len + n.len]
     : <<t, n>> \in UNION {{t} \X DecodeLength(From(b, t.len + 1)) : t \in DecodeTag(b)}}

Decode(b) ==
  {[tag |-> h.tag, value |-> SubSeq(b, h.len + 1, h.len + h.length), len |-> h.len + h.length]
     : h \in {t \in DecodeTagAndLength(b) : t.len + t.length <= Len(b)}}

\* TlvSet: objects one after the other; it ends, without an error, at the
\* first that does not decode.
DecodeSet(b) ==
  LET objects[i \in 1 .. Len(b) + 1] ==
        LET d == Decode(From(b, i))
        IN  IF d = {} THEN << >>
            ELSE LET first == CHOOSE t \in d : TRUE IN <<first>> \o objects[i + first.len]
  IN  objects[1]
EncodeSet(tlvs) == FlattenSeq([i \in DOMAIN tlvs |-> Encode(tlvs[i].tag, tlvs[i].value)])
==============================================================================
