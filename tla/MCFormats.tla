------------------------------ MODULE MCFormats ------------------------------
(***************************************************************************)
(* The four translations between a meaning and its bytes, checked side by  *)
(* side: commands and answers on the wire, the files of the chip, the      *)
(* lines of the MRZ, and a call from Dart to Rust and back.  Each has      *)
(* behaviours of its own; "part" says which one a behaviour is of.       *)
(***************************************************************************)
EXTENDS HostCall

CONSTANTS
  Sessions, Commands, Bodies, Statuses, Protected, AlterMax,    \* WireExchange
  Files, CardAccess,                                            \* LdsFiles
  Holders                                                       \* Zones

VARIABLES
  part,        \* "wire", "lds", "zone" or "call"
  doc, text    \* of the first three, with step and result

W == INSTANCE WireExchange
L == INSTANCE LdsFiles
Z == INSTANCE Zones

\* Words of theirs that the constants below are made of.
Apdu == INSTANCE SmCipher
Mrz == INSTANCE CheckDigits
Dates == INSTANCE Dates
Day(year, month, day) == Dates!Day(year, month, day)

mcVars == <<part, step, doc, text, result, call, world, json, answer, first>>

Idle == "none"
NoCall == call = Idle /\ world = Idle /\ json = Idle /\ answer = Idle /\ first = Idle
NoText == doc = Idle /\ text = Idle

MCInit ==
  \/ part = "wire" /\ W!Init /\ NoCall
  \/ part = "lds" /\ L!LdsInit /\ NoCall
  \/ part = "zone" /\ Z!ZoneInit /\ NoCall
  \/ part = "call" /\ CallInit /\ NoText

MCNext ==
  \/ part = "wire" /\ W!Next /\ UNCHANGED <<part, call, world, json, answer, first>>
  \/ part = "lds" /\ L!LdsNext /\ UNCHANGED <<part, call, world, json, answer, first>>
  \/ part = "zone" /\ Z!ZoneNext /\ UNCHANGED <<part, call, world, json, answer, first>>
  \/ part = "call" /\ CallNext /\ UNCHANGED <<part, doc, text>>

MCSpec == MCInit /\ [][MCNext]_mcVars

-----------------------------------------------------------------------------
(* The properties of the first three, each of its own behaviours.          *)

\* The command the chip reads off the bytes is the one the reader meant.
CommandIsUnderstood == part = "wire" => W!CommandIsUnderstood
\* The response the reader makes of the bytes is the chip's, or an error.
AnswerIsAsMeant == part = "wire" => W!AnswerIsAsMeant
\* A file of the chip is read as what was written, or refused, and of the PACE
\* protocols in EF.CardAccess one is picked that the build has an engine for.
FileIsReadAsWritten == part = "lds" => L!FileIsReadAsWritten

\* A misread MRZ is mended or refused, and read as another only where no check
\* digit can tell.
MisreadIsMendedOrRefused == part = "zone" => Z!MisreadIsMendedOrRefused

-----------------------------------------------------------------------------
(* Files of the chip.                                                      *)

FullName == 24334
DateOfBirth == 24363
Proof == 24342
IssuingAuthority == 24345
DateOfIssue == 24358

Txt(n) == [i \in 1 .. n |-> 64 + (i % 20)]
F(tag, v) == [tag |-> tag, form |-> "text", value |-> v]
Dt(tag, form, d) == [tag |-> tag, form |-> form, value |-> d]
Clear(tag, images, length) == [kind |-> "clear", tag |-> tag, images |-> images, length |-> length]
Locked == [kind |-> "protected", tag |-> 0, images |-> << >>, length |-> "absent"]
Img(points, pixels, type) == [points |-> points, pixels |-> pixels, type |-> type, width |-> 300]
IssueDays == {Day(1900, 1, 1), Day(1999, 12, 31), Day(2000, 2, 29), Day(2026, 6, 15)}
MCFiles ==
  {[file |-> "COM", tags |-> t] : t \in {<<97, 117>>, <<97, 97, 117, 111>>, << >>}}
  \cup {[file |-> "DG1", body |-> Txt(n)] : n \in {72, 88, 90}}
  \cup {[file |-> f, body |-> Txt(n)] : f \in {"DG3", "DG14", "DG16"}, n \in {0, 3, 122, 123, 130, 300}}
  \cup {[file |-> "DG2", templates |-> t] :
          t \in {<< >>, <<Locked>>, <<Locked, Clear(24366, <<Img(0, 9, 0)>>, "exact")>>}
               \cup {<<Clear(tag, <<Img(p, n, 1)>>, l)>> : tag \in {24366, 32558}, p \in {0, 2},
                       n \in {0, 1, 200}, l \in {"exact", "absent", "beyond"}}
               \cup {<<Clear(24366, <<Img(p, 3, 0), Img(0, 5, 1)>>, l)>> : p \in {0, 1}, l \in {"exact", "absent", "beyond"}}
               \cup {<<Clear(24366, <<Img(0, 3, 0)>>, "exact"), Clear(24366, <<Img(0, 4, 0)>>, "exact")>>}}
  \cup {[file |-> "DG11", fields |-> f] :
          f \in {<<F(FullName, Txt(3)), F(24335, Txt(1)), F(24335, Txt(2)), Dt(DateOfBirth, form, d)>>
                   : form \in {"digits", "packed"}, d \in IssueDays}
              \cup {<<F(24335, Txt(1)), F(24386, Txt(2)), F(24335, Txt(130)), F(24343, << >>)>>,
                     <<F(Proof, <<255, 1>>), F(24999, <<255>>)>>, <<F(FullName, <<65, 255>>)>>, << >>}}
  \cup {[file |-> "DG12", fields |-> f] :
          f \in {<<F(IssuingAuthority, Txt(4)), Dt(DateOfIssue, "digits", d)>> : d \in IssueDays}
              \cup {<<F(IssuingAuthority, <<255>>)>>, << >>}}
Infos == {[oid |-> o, version |-> v, id |-> i] :
            o \in {<<1, 1>>, <<1, 2>>, <<2, 1>>, <<2, 4>>, <<4, 2>>, <<6, 2>>}, v \in {1, 2}, i \in {-1, 1, 11, 12}}
AnyId == {[oid |-> o, version |-> 2, id |-> i] :
            o \in {<<1, 2>>, <<2, 1>>, <<2, 2>>, <<2, 4>>}, i \in 0 .. 3 \cup 7 .. 19}
MCCardAccess == UNION {[1 .. n -> Infos] : n \in 1 .. 2} \cup [1 .. 2 -> AnyId]
  \cup [1 .. 3 -> {i \in Infos : i.version = 2 /\ i.id \in {1, 12}}]

-----------------------------------------------------------------------------
(* Commands, answers and keys on the wire.                                 *)

K(n, d) == [i \in 1 .. n |-> (i * d) % 256]
MCSessions ==
  {[cipher |-> "DeSede", size |-> "S128", enc |-> K(16, 7), mac |-> K(16, 11), bits |-> 64],
   [cipher |-> "DeSede", size |-> "S128", enc |-> K(24, 7), mac |-> K(24, 13), bits |-> 64]}
  \cup {[cipher |-> "Aes", size |-> z, enc |-> K(Apdu!KeySize[z], 7), mac |-> K(Apdu!KeySize[z], 11), bits |-> 128]
          : z \in {"S128", "S192", "S256"}}
\* Keys the crate's own key derivation can make.
ASSUME SessionKeysAssumption == \A s \in MCSessions : Apdu!ValidKeys(s)

MCCommands ==
  UNION {Apdu!CommandApdu(Apdu!NoSm, Apdu!Ins.ReadBinary, 1, 2, << >>, ne) : ne \in {0, 1, 220, 255, 256, 257, 65535, 65536}}
  \cup UNION {Apdu!CommandApdu(Apdu!NoSm, Apdu!Ins.SelectFile, 4, 12, [i \in 1 .. n |-> i % 256], ne) : n \in {1, 2, 7, 8, 16}, ne \in {0, 256}}
  \cup UNION {Apdu!CommandApdu(Apdu!NoSm, Apdu!Ins.ExternalAuthenticate, 0, 0, [i \in 1 .. n |-> i % 256], ne) : n \in {224, 255, 256}, ne \in {0, 256, 65536}}
  \cup UNION {Apdu!CommandApdu(Apdu!NoSm, Apdu!Ins.ReadBinaryExt, 0, 0, Apdu!EncodeInt(84, n), ne) : n \in {32768, 65536}, ne \in {223, 256}}
MCBodies == {0, 1, 7, 8, 15, 16, 119, 220}
MCStatuses == Apdu!NamedStatuses \cup {Apdu!RemainingBytes(3), Apdu!WrongLe(9)}
MCProtected == {Apdu!Success, Apdu!StatusWord(98, 130), Apdu!StatusWord(106, 130), Apdu!RemainingBytes(3)}

-----------------------------------------------------------------------------
(* Documents with an MRZ.                                                  *)

T(s) == Mrz!CharsOf(s)
Card(format, code, country, number, optional, optional2) ==
  [format |-> format, code |-> T(code), country |-> T(country), last |-> T("DE BOIZ"), first |-> T("ANA BO"),
   number |-> T(number), nationality |-> T(country), sex |-> "F", birth |-> Day(1980, 12, 18),
   expiry |-> Day(2031, 8, 20), optional |-> T(optional), optional2 |-> T(optional2),
   straight |-> FALSE, blank |-> FALSE, issue |-> Day(2026, 1, 1)]
Straight(country, number, optional) == [Card("TD1", "ID", country, number, optional, "") EXCEPT !.straight = TRUE]
French(issue, y, birth) ==
  [Card("TD2", "I", "FRA", y, "952042", "") EXCEPT !.issue = issue, !.birth = birth, !.expiry = issue]
Plain == {Card("TD1", "I", "UTO", n, o, p) : n \in {"D23145890", "AB1", "80218D"}, o \in {"", "X1B0"}, p \in {"", "9O8B"}}
         \cup {Card("TD2", "I", "D", n, o, "") : n \in {"D23145890", "AB1"}, o \in {"", "X1B0"}}
         \cup {Card("TD3", "P", "UTO", n, o, "") : n \in {"L898902C3", "12"}, o \in {"", "ZE184226B"}}
         \cup {[Card("TD3", "P", "UTO", "L898902C3", "", "") EXCEPT !.blank = TRUE]}
         \cup {Card(f, "V", "UTO", "L8988901C", o, "") : f \in {"TD2", "TD3"}, o \in {"", "6ZE18422"}}
Long == {Card("TD1", "I", "UTO", n, "", p) : n \in {"D234567890", "D2314589073", "D23145890734", "D23145890734AB120B34"}, p \in {"", "ZB8"}}
        \cup {Card("TD1", "I", "UTO", n, o, p) : n \in {"D234567890", "D2314589073"}, o \in {"X1", "X9", "X1B0"}, p \in {"", "ZB8"}}
        \cup {Card("TD2", "I", "D", n, o, "") : n \in {"D234567890", "D2314589073"}, o \in {"", "X1"}}
National == {Card("TD1", "ID", "DEU", "L01X00T47", o, "") : o \in {"", "8D"}}
            \cup {Card("TD1", "ID", c, n, "", "") : c \in {"CYP", "CZE", "SVN"}, n \in {"008021813"}}
            \cup {Card("TD1", "ID", "ESP", "12345678Z", "", ""), Card("TD1", "ID", "NLD", "SP1234580", "", ""),
                  Card("TD1", "ID", "EST", "AS0002262", "380010852", ""), Card("TD1", "ID", "ROU", "RX1234567", "", "")}
            \cup {Straight("LTU", "12345678", ""), Straight("HUN", "000642BA", "X"), Straight("MLT", "01234567", ""), Straight("LUX", "12345678", "")}
            \cup {Card("TD1", "ID", c, n, o, "") : c \in {"LTU", "MLT", "SVN"}, n \in {"12345678", "12345674"}, o \in {"", "8D"}}
            \cup {Card("TD1", "ID", "AUT", "1234567890", "", ""), Straight("AUT", "1234567890", ""),
                  Straight("FRA", "880692310285", ""), Card("TD1", "ID", "DEU", "L01X00T471", "", "")}
Lives == {[d EXCEPT !.birth = b, !.expiry = e, !.sex = s] :
            d \in {Card("TD1", "I", "UTO", "D23145890", "", ""), Card("TD3", "P", "UTO", "L898902C3", "", "")},
            b \in {Day(1927, 1, 1), Day(1999, 12, 31), Day(2000, 2, 29), Day(2026, 6, 15), Day(1981, 0, 0), Day(1981, 12, 0)},
            e \in {Day(2016, 6, 15), Day(2026, 12, 31), Day(2036, 2, 29)}, s \in {"M", "F", "<"}}
MCHolders == Plain \cup Long \cup National \cup Lives
  \cup {French(Day(2012, 8, 1), "120895201840", b) : b \in {Day(1980, 12, 18), Day(1994, 8, 1), Day(1994, 8, 2), Day(1994, 9, 1)}}
  \cup {French(Day(2003, 12, 1), "031295201840", b) : b \in {Day(1980, 12, 18), Day(1990, 1, 1)}}

-----------------------------------------------------------------------------
(* Calls from Dart.                                                        *)

Optional(S) == {None} \cup {Some(x) : x \in S}
Octets == [i \in 1 .. 32 |-> 7]
Anchors == {<<>>, <<Octets>>, <<<<>>>>}

MCMdlCalls ==
  [kind : {"mdl"}, transcript : Optional({<<>>, <<1>>, <<2>>, <<9>>}), readerKey : Optional({<<>>, <<1>>, Octets}),
   anchors : Anchors]
MCOpenIdCalls ==
  [kind : {"openid4vp"}, nonce : {<<>>, <<97>>, <<97, 0, 98>>}, clientId : Optional({<<99>>, <<>>}),
   responseUri : Optional({<<100>>, <<100, 0>>}), mdocNonce : Optional({<<101>>}), origin : Optional({<<102>>}),
   thumbprint : Optional({<<>>, <<1>>, Octets}), readerKey : {None, Some(Octets)}, anchors : {<<>>}]
MCReadCalls ==
  [kind : {"read"}, portrait : BOOLEAN, activeAuthentication : BOOLEAN, retain : BOOLEAN, anchors : Anchors]

\* What wallets sign over: the transcripts of a caller that gave everything.
Signed ==
  {Adopted(<<1>>)} \cup UNION {
    {<<"openid4vp-dcapi", Some(<<102>>), Some(n), t>>,
     <<"openid4vp-1.0", Some(<<99>>), Some(n), t, Some(<<100>>)>>,
     <<"iso-18013-7", Some(<<99>>), Some(<<100>>), Some(n), Some(<<101>>)>>}
    : n \in {<<>>, <<97>>}, t \in {None, Some(Octets)}}

MCWallets ==
  [carriesMdl : {TRUE}, auth : {"signature", "mac"}, over : Signed, name : {None}, ages : {<<>>}]
  \cup [carriesMdl : BOOLEAN, auth : {"none", "signature"}, over : {Adopted(<<1>>)},
         name : Optional({<<>>, <<97, 34, 233>>}), ages : {<< <<18, TRUE>>, <<21, FALSE>> >>}]
MCPassports ==
  [dg2 : Optional({<<255, 216, 0>>}), dg15 : Optional({<<111, 16>>}),
   signed : {<<1>>, <<1, 2>>, <<1, 2, 15>>, <<1, 2, 3, 14, 15>>}, genuine : BOOLEAN,
   name : {Some(<<c, d>>) : c, d \in {1, 9, 10, 31, 34, 92, 127, 97}}]
=============================================================================
