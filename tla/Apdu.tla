-------------------------------- MODULE Apdu --------------------------------
(***************************************************************************)
(* Command and response APDUs of proto/iso7816 on bytes.                   *)
(***************************************************************************)
EXTENDS Tlv

\* cla and ins of iso7816.rs, the classes the reader uses.
NoSm == 0
SmHeaderAuthn == 12
Ins == [ManageSecurityEnvironment |-> 34, SelectFile |-> 164, GetChallenge |-> 132,
        GeneralAuthenticate |-> 134, ReadBinary |-> 176, ReadBinaryExt |-> 177,
        InternalAuthenticate |-> 136, ExternalAuthenticate |-> 130]

\* No data and empty data are written alike.
CommandApdu(cla, ins, p1, p2, data, ne) ==
  Given(Len(data) <= 65535 /\ ne <= 65536,
        [cla |-> cla, ins |-> ins, p1 |-> p1, p2 |-> p2, data |-> data, ne |-> ne])

RawHeader(c) == <<c.cla, c.ins, c.p1, c.p2>>

\* Faulty: the extended form is left to the data alone.
ExtendedByData(c) == Len(c.data) > 255

Extended(c) == Len(c.data) > 255 \/ c.ne > 256

Lc(c) == IF c.data = << >> THEN << >>
         ELSE IF Extended(c) THEN <<0>> \o BigEndian(Len(c.data), 2) ELSE <<Len(c.data)>>
\* The largest Ne of either form is written as zero.
Le(c) == IF c.ne = 0 THEN << >>
         ELSE IF Extended(c)
              THEN (IF c.data = << >> THEN <<0>> ELSE << >>) \o BigEndian(c.ne % 65536, 2)
              ELSE <<c.ne % 256>>
CommandBytes(c) == RawHeader(c) \o Lc(c) \o c.data \o Le(c)

-----------------------------------------------------------------------------
StatusWord(sw1, sw2) == [sw1 |-> sw1, sw2 |-> sw2]
Success == StatusWord(144, 0)
NamedWarnings == ({98} \X {0, 129, 130, 131, 132}) \cup {<<99, 0>>}
NamedErrors ==
  {<<103, 0>>} \cup ({104} \X {0, 129, 130}) \cup ({105} \X ({0} \cup 129 .. 136))
  \cup ({106} \X ({0} \cup 128 .. 136)) \cup ({107, 109, 110, 111} \X {0})
NamedStatuses == {StatusWord(w[1], w[2]) : w \in NamedWarnings \cup NamedErrors} \cup {Success}
RemainingBytes(n) == StatusWord(97, n)
WrongLe(n) == StatusWord(108, n)

IsSuccess(s) == s = Success \/ s.sw1 = 97
IsWarning(s) == s.sw1 \in 98 .. 99
IsError(s) == s.sw1 >= 100 /\ s.sw1 # 144
StatusBytes(s) == <<s.sw1, s.sw2>>
StatusFromBytes(b, offset) ==
  IF Len(b) < offset + 2 THEN {} ELSE {StatusWord(b[offset + 1], b[offset + 2])}

ResponseBytes(data, s) == data \o StatusBytes(s)
ResponseFromBytes(b) ==
  {[status |-> s, data |-> SubSeq(b, 1, Len(b) - 2)]
     : s \in IF Len(b) < 2 THEN {} ELSE StatusFromBytes(b, Len(b) - 2)}

-----------------------------------------------------------------------------
\* The data objects of secure messaging (sm.rs).
BuildDO(tag, data) == IF data = << >> THEN << >> ELSE Encode(tag, data)
DO85(data) == BuildDO(133, data)
DO87(data, padded) ==
  IF data = << >> THEN << >> ELSE BuildDO(135, <<IF padded THEN 1 ELSE 2>> \o data)
DO8E(mac) == BuildDO(142, mac)
DO97(ne) == BuildDO(151, IF ne = 256 THEN <<0>> ELSE IF ne = 65536 THEN <<0, 0>> ELSE IntToBin(ne, 0))
DO99(s) == BuildDO(153, StatusBytes(s))
=============================================================================
