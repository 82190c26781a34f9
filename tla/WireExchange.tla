----------------------------- MODULE WireExchange -----------------------------
(***************************************************************************)
(* One command and its response as bytes on the wire: the reader protects  *)
(* and writes the command (mrtd_sm.rs, sm.rs, command_apdu.rs), the chip   *)
(* reads it by ISO/IEC 7816-4 and answers, the air may change a byte, and  *)
(* the reader reads the response.  SecureMessaging has the whole dialogue  *)
(* with what the bytes stand for; here is whether they stand for it.       *)
(***************************************************************************)
EXTENDS SmCipher

CONSTANTS
  Sessions,   \* sessions of secure messaging, and NoSession
  Commands,   \* commands the reader may send
  Bodies,     \* lengths of the data a chip may answer with
  Statuses,   \* the status words, and those it protects
  Protected,
  AlterMax    \* longest response the air changes a byte of

NoSession == [cipher |-> "None"]

VARIABLES
  step,     \* "command", "sent", "answered", "altered", "read", "read altered"
  doc,      \* the session, the command and the answer as they are meant
  text,     \* the bytes on the wire
  result    \* what was made of them at the far end

vars == <<step, doc, text, result>>

\* The bytes of a body: any byte may be the padding marker or a zero.
Data(n) == [i \in 1 .. n |-> IF i = n THEN 0 ELSE IF i = n - 1 THEN 128 ELSE i % 256]

-----------------------------------------------------------------------------
(* mrtd_sm.rs.  s is the session, ssc its counter. *)

MaskCla(cla) == (cla \div 16) * 16 + SmHeaderAuthn + (cla % 4)

DataDO(s, ssc, c) ==
  IF c.data = << >> THEN {<< >>}
  ELSE {IF c.ins = Ins.ReadBinaryExt THEN DO85(e) ELSE DO87(e, TRUE)
          : e \in SmEncrypt(s, ssc, Pad(c.data, BlockLen(s)))}

GenerateM(s, c, do, do97) == Pad(RawHeader(c), BlockLen(s)) \o do \o do97
GenerateN(s, ssc, m) == Pad(SscBytes(ssc, s.bits) \o m, BlockLen(s))

Protect(s, ssc, c) ==
  LET masked == [c EXCEPT !.cla = MaskCla(c.cla)]
      Sealed(do) == {do \o DO97(c.ne) \o DO8E(cc)
                       : cc \in SmMac(s, GenerateN(s, ssc, GenerateM(s, masked, do, DO97(c.ne))))}
  IN  {[masked EXCEPT !.data = d, !.ne = 256] : d \in UNION {Sealed(do) : do \in DataDO(s, ssc, c)}}

\* None, as << >>, for no data object, an empty one included.
DecryptDataDO(s, ssc, d) ==
  IF d.value = << >> THEN {<< >>}
  ELSE IF d.tag = 135 /\ d.value[1] \notin 1 .. 2 THEN {}
  ELSE LET input == IF d.tag = 135 THEN Tail(d.value) ELSE d.value
           plain == SmDecrypt(s, ssc, input)
       IN  IF d.tag = 135 /\ d.value[1] = 2 THEN plain
           ELSE UNION {Unpad(p, BlockLen(s)) : p \in plain}

NoDO == [tag |-> 133, value |-> << >>, len |-> 0]
ParseDataDO(b) == IF b[1] \in {133, 135} THEN Decode(b) ELSE {NoDO}
ParseDO(b, tag, offset) ==
  IF offset >= Len(b) \/ b[offset + 1] # tag THEN {} ELSE Decode(From(b, offset + 1))

\* The three data objects, each where the one before it ends.
ResponseObjects(b) ==
  UNION {UNION {{[data |-> d, do99 |-> s, do8e |-> m, covered |-> d.len + s.len]
                  : m \in ParseDO(b, 142, d.len + s.len)}
                : s \in ParseDO(b, 153, d.len)} : d \in ParseDataDO(b)}

\* Faulty: the status is the one behind the data.
UnprotectTrusting(s, ssc, r) ==
  IF r.data = << >> THEN Given(r.status # Success, r)
  ELSE UNION {{[status |-> r.status, data |-> d] : d \in DecryptDataDO(s, ssc, o.data)}
                : o \in {o \in ResponseObjects(r.data) :
                    o.do8e.value \in SmMac(s, GenerateN(s, ssc, SubSeq(r.data, 1, o.covered)))}}

\* generate_k is generate_n over the data objects.  The counter is that of the
\* response.
Unprotect(s, ssc, r) ==
  IF r.data = << >> THEN Given(r.status # Success, r)
  ELSE UNION {{[status |-> w, data |-> d] : w \in StatusFromBytes(o.do99.value, 0),
                                            d \in DecryptDataDO(s, ssc, o.data)}
                : o \in {o \in ResponseObjects(r.data) :
                    o.do8e.value \in SmMac(s, GenerateN(s, ssc, SubSeq(r.data, 1, o.covered)))}}

-----------------------------------------------------------------------------
(* The chip, by the standards. *)

\* The cases of a command body: no field, Le, Lc and data, all three, in the
\* short form or, behind a zero byte, the extended one.
LeOf(b) == IF b = << >> THEN 0 ELSE IF FromBigEndian(b) = 0 THEN 256^Len(b) ELSE FromBigEndian(b)
ReadBody(b) ==
  IF Len(b) <= 1 THEN {[data |-> << >>, ne |-> LeOf(b)]}
  ELSE IF b[1] # 0
       THEN {[data |-> SubSeq(b, 2, 1 + b[1]), ne |-> LeOf(From(b, 2 + b[1]))]
               : x \in {n \in {b[1]} : Len(b) \in 1 + n .. 2 + n}}
       ELSE IF Len(b) = 3 THEN {[data |-> << >>, ne |-> LeOf(Tail(b))]}
       ELSE {[data |-> SubSeq(b, 4, 3 + n), ne |-> LeOf(From(b, 4 + n))]
               : n \in {m \in {FromBigEndian(SubSeq(b, 2, 3))} : Len(b) \in {3 + m, 5 + m}}}
ReadCommand(b) ==
  {[cla |-> b[1], ins |-> b[2], p1 |-> b[3], p2 |-> b[4], data |-> r.data, ne |-> r.ne]
     : r \in IF Len(b) < 4 THEN {} ELSE ReadBody(From(b, 5))}

\* A padded message is the message, the marker and fewer zeros than a block.
IsoPadded(p, m, size) ==
  Len(p) % size = 0 /\ Len(p) - Len(m) \in 1 .. size
  /\ p = m \o <<128>> \o Zeros(Len(p) - Len(m) - 1)
IsoPad(m, size) ==
  CHOOSE p \in {m \o <<128>> \o Zeros(z) : z \in 0 .. size - 1} : IsoPadded(p, m, size)
IsoUnpad(p, size) ==
  {m \in {SubSeq(p, 1, i) : i \in 0 .. Len(p)} : IsoPadded(p, m, size)}

ObjectsOf(b) ==
  LET objects == DecodeSet(b)
  IN  IF Total([i \in DOMAIN objects |-> objects[i].len]) = Len(b) THEN objects ELSE << >>
Tagged(b, tag) == {ObjectsOf(b)[i].value : i \in {j \in DOMAIN ObjectsOf(b) : ObjectsOf(b)[j].tag = tag}}

\* What a protected command says: its MAC is over the padded header and the
\* objects before the MAC, and its Le is the one in DO'97'.
ChipUnwrap(s, ssc, c) ==
  LET size == BlockLen(s)
      before == SubSeq(c.data, 1, Len(c.data) - 10)
      input == SscBytes(ssc, s.bits) \o IsoPad(RawHeader(c), size) \o before
      sealed == {Tail(v) : v \in {w \in Tagged(before, 135) : w[1] = 1}} \cup Tagged(before, 133)
      plain == IF sealed = {} THEN {<< >>}
               ELSE UNION {UNION {IsoUnpad(p, size) : p \in SmDecrypt(s, ssc, e)} : e \in sealed}
      ne == IF Tagged(before, 151) = {} THEN {0} ELSE {LeOf(v) : v \in Tagged(before, 151)}
  IN  IF Tagged(c.data, 142) # SmMac(s, IsoPad(input, size)) THEN {}
      ELSE {[c EXCEPT !.cla = NoSm, !.data = d, !.ne = n] : d \in plain, n \in ne}

ChipWrap(s, ssc, ins, body, status) ==
  LET size == BlockLen(s)
      do == IF body = << >> THEN {<< >>}
            ELSE {IF ins = Ins.ReadBinaryExt THEN Encode(133, e) ELSE Encode(135, <<1>> \o e)
                    : e \in SmEncrypt(s, ssc, IsoPad(body, size))}
      objects == {d \o Encode(153, StatusBytes(status)) : d \in do}
  IN  {o \o Encode(142, m) : <<o, m>> \in
         UNION {{o} \X SmMac(s, IsoPad(SscBytes(ssc, s.bits) \o o, size)) : o \in objects}}

-----------------------------------------------------------------------------
Init ==
  /\ step = "command"
  /\ doc \in {[session |-> s, ssc |-> n, command |-> c, answer |-> [status |-> Success, data |-> << >>]]
                : s \in Sessions \cup {NoSession}, n \in {0, 255}, c \in Commands}
  /\ text = << >>
  /\ result = {}

\* transceive_cmd: protect, where there is a session, and write.
Send ==
  /\ step = "command"
  /\ step' = "sent"
  /\ text' \in {CommandBytes(c) : c \in
       IF doc.session = NoSession THEN {doc.command}
       ELSE Protect(doc.session, doc.ssc + 1, doc.command)}
  /\ UNCHANGED <<doc, result>>

\* What the chip makes of the bytes.
Understood ==
  IF doc.session = NoSession THEN ReadCommand(text)
  ELSE UNION {ChipUnwrap(doc.session, doc.ssc + 1, c) : c \in ReadCommand(text)}

ChipReads ==
  /\ step = "sent" /\ result = {}
  /\ result' = Understood
  /\ result' # {}
  /\ UNCHANGED <<step, doc, text>>

\* The chip answers with at most Ne bytes, under the session or, with an error
\* alone, outside it.
ChipAnswers ==
  /\ step = "sent" /\ \E c \in result : \E n \in Bodies, w \in Statuses :
       /\ n <= c.ne /\ (IsError(w) => n = 0)
       /\ doc' = [doc EXCEPT !.answer = [status |-> w, data |-> Data(n)]]
       /\ \/ /\ doc.session # NoSession /\ w \in Protected
             /\ text' \in {ResponseBytes(d, w) : d \in
                             ChipWrap(doc.session, doc.ssc + 2, c.ins, Data(n), w)}
          \/ /\ doc.session = NoSession \/ IsError(w)
             /\ text' = ResponseBytes(Data(n), w)
  /\ step' = "answered"
  /\ result' = {}

\* One byte changes in the air.
Alter ==
  /\ step = "answered" /\ doc.session # NoSession
  /\ Len(text) \in 3 .. AlterMax
  /\ \E i \in DOMAIN text, by \in {1, 128} :
       text' = [text EXCEPT ![i] = (@ + by) % 256]
  /\ step' = "altered"
  /\ UNCHANGED <<doc, result>>

\* ResponseApdu::from_bytes, and unprotect where there is a session.
Receive ==
  /\ step \in {"answered", "altered"}
  /\ result' = IF doc.session = NoSession THEN ResponseFromBytes(text)
               ELSE UNION {Unprotect(doc.session, doc.ssc + 2, r) : r \in ResponseFromBytes(text)}
  /\ step' = IF step = "altered" THEN "read altered" ELSE "read"
  /\ UNCHANGED <<doc, text>>

Next == Send \/ ChipReads \/ ChipAnswers \/ Alter \/ Receive

Spec == Init /\ [][Next]_vars

-----------------------------------------------------------------------------
\* Whatever the length of its data and the number of bytes it asks for, on
\* either side of the short form and of the one-byte lengths, the command that
\* command_apdu.rs and mrtd_sm.rs write is the one a chip reads.
CommandIsUnderstood == step = "sent" => Understood = {doc.command}

\* An answer that arrives as it was sent is read as it was meant, data that
\* ends like padding included.  A byte changed anywhere in a protected response
\* makes mrtd_sm.rs refuse it or changes nothing of what is read: the status
\* word behind the data objects and what follows DO'8E' are not believed.
AnswerIsAsMeant ==
  /\ step = "read" => result = {doc.answer}
  /\ step = "read altered" => result \subseteq {doc.answer}
===============================================================================
