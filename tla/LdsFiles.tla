------------------------------ MODULE LdsFiles ------------------------------
(***************************************************************************)
(* The files of the chip as lds/ and lds/df1 read them, on bytes: the      *)
(* wrapper every data group has, EF.COM, the face of DG2, the details of   *)
(* DG11 and DG12, and the choice of a PACE protocol in EF.CardAccess.  The *)
(* issuer writes a file by ICAO 9303 part 10; it may arrive whole, cut     *)
(* short or with a byte behind it.                                         *)
(***************************************************************************)
EXTENDS Dates, Integers

CONSTANTS
  Files,       \* what the files say
  CardAccess   \* the sequences of infos an EF.CardAccess may hold

VARIABLES
  step,     \* "written", "damaged", "offered", and what was read of each
  doc,      \* what the file says
  text,     \* its bytes
  result    \* what the reader makes of them

ldsVars == <<step, doc, text, result>>

Tag ==
  [COM |-> 96, DG1 |-> 97, DG2 |-> 117, DG3 |-> 99, DG4 |-> 118, DG5 |-> 101, DG6 |-> 102,
   DG7 |-> 103, DG8 |-> 104, DG9 |-> 105, DG10 |-> 106, DG11 |-> 107, DG12 |-> 108,
   DG13 |-> 109, DG14 |-> 110, DG16 |-> 112]

Objects(b, tag) == {d \in Decode(b) : d.tag = tag}

\* Faulty: what follows the object is not looked at.
ParseDgLoose(b, tag) == {d.value : d \in Objects(b, tag)}

\* A file is one object and nothing else.
ParseDgContent(b, tag) == {d.value : d \in {o \in Objects(b, tag) : o.len = Len(b)}}

\* The objects of a body that must decode to its end.
AllObjects(b) ==
  LET objects == DecodeSet(b)
  IN  Given(FoldLeft(LAMBDA n, o : n + o.len, 0, objects) = Len(b), objects)

EfDG1(b) ==
  {d.value : d \in UNION {{o \in Objects(inner, 24351) : o.len = Len(inner)}
                            : inner \in ParseDgContent(b, Tag.DG1)}}

\* Version, unicode version and tag list, in this order; what follows them
\* inside the file is not looked at.
EfCom(b) ==
  UNION {UNION {UNION {
    {[version |-> v.value, unicode |-> u.value, tags |-> ToSet(t.value)]
       : t \in Objects(From(inner, v.len + u.len + 1), 92)}
       : u \in Objects(From(inner, v.len + 1), 24374)}
       : v \in Objects(inner, 24321)}
       : inner \in ParseDgContent(b, Tag.COM)}

-----------------------------------------------------------------------------
(* DG2 *)

\* One, two and four bytes are signed, three are not.
Extract(b, offset, size) ==
  LET field == SubSeq(b, offset + 1, offset + size)
  IN  IF size # 3 /\ field[1] >= 128
      THEN -FromBigEndian([i \in 1 .. size |-> 255 - field[i]]) - 1
      ELSE FromBigEndian(field)

\* The image ends where its record does, if its length can be believed.
ImageEnd(b, offset) ==
  LET length == Extract(b, 14, 4)
  IN  IF length > 0 /\ 14 + length \in offset .. Len(b) THEN 14 + length ELSE Len(b)

ReadBiometricDataBlock(b) ==
  LET points == Extract(b, 18, 2)
      offset == 34 + 8 * points
  IN  IF \/ Len(b) < 34
         \/ SubSeq(b, 1, 4) # <<70, 65, 67, 0>>
         \/ SubSeq(b, 5, 8) # <<48, 49, 48, 0>>
         \/ points < 0
         \/ Len(b) < offset + 12
      THEN {}
      ELSE {[images |-> Extract(b, 12, 2), mask |-> Extract(b, 23, 3),
             type   |-> Extract(b, offset + 1, 1), width |-> Extract(b, offset + 2, 2),
             image  |-> SubSeq(b, offset + 13, ImageEnd(b, offset + 12))]}

NoFace == [images |-> 0, mask |-> 0, type |-> -1, width |-> 0, image |-> << >>]

\* Behind the header template the first object is the data block.
ReadBht(b) ==
  UNION {UNION {IF objects = << >> \/ objects[1].tag \notin {24366, 32558} THEN {}
                ELSE ReadBiometricDataBlock(objects[1].value)
                  : objects \in AllObjects(From(b, h.len + 1))} : h \in Objects(b, 161)}

\* A template in secure messaging is left unread.
ReadBit(b) ==
  UNION {IF Objects(t.value, 125) # {} THEN {NoFace} ELSE ReadBht(t.value) : t \in Objects(b, 32608)}

\* Only the first template is read.
EfDG2(b) ==
  UNION {UNION {UNION {IF c.value = << >> THEN {}
                       ELSE IF c.value[1] = 0 THEN {NoFace} ELSE ReadBit(From(group.value, c.len + 1))
                         : c \in Objects(group.value, 2)}
                  : group \in Objects(body, 32609)} : body \in ParseDgContent(b, Tag.DG2)}

-----------------------------------------------------------------------------
(* DG11 and DG12.  Of UTF-8 only this matters: 255 is no part of it. *)

Utf8(b) == \A i \in DOMAIN b : b[i] # 255
Digits09 == 48 .. 57
DigitsOf(b) == LET kept == SelectSeq(b, LAMBDA c : c \in Digits09)
               IN  [i \in DOMAIN kept |-> kept[i] - 48]

FullName == 24334
Scalars == {FullName, 24336, 24338, 24339, 24340, 24341, 24344}
Repeated == {24335, 24337, 24386, 24343}
DateOfBirth == 24363
Proof == 24342

ParseFullDob(b, now) ==
  IF Len(b) = 4 THEN ToDate(b)
  ELSE IF Len(b) # 8 \/ \E i \in DOMAIN b : b[i] \notin Digits09 THEN {}
  ELSE ParseDate(DigitsOf(b), FALSE, now)

\* The tag list and the objects behind it.
TaggedFields(b, tag) ==
  UNION {UNION {AllObjects(From(body, list.len + 1)) : list \in Objects(body, 92)}
           : body \in ParseDgContent(b, tag)}

Values(fields, tag) ==
  LET of == SelectSeq(fields, LAMBDA f : f.tag = tag)
  IN  [i \in DOMAIN of |-> of[i].value]
Newest(values) == IF values = << >> THEN << >> ELSE <<values[Len(values)]>>

\* A scalar that comes again replaces the one before it; the others collect.
AbsorbFields(fields) ==
  [t \in Scalars \cup {Proof} \cup Repeated |->
     IF t \in Repeated THEN Values(fields, t) ELSE Newest(Values(fields, t))]

EfDG11(b, now) ==
  UNION {IF \/ \E i \in DOMAIN f : f[i].tag \in Scalars \cup Repeated /\ ~Utf8(f[i].value)
            \/ \E i \in DOMAIN f : f[i].tag = DateOfBirth /\ ParseFullDob(f[i].value, now) = {}
         THEN {}
         ELSE {[fields |-> AbsorbFields(f),
                dates  |-> UNION {ParseFullDob(v, now) : v \in ToSet(Newest(Values(f, DateOfBirth)))}]}
           : f \in TaggedFields(b, Tag.DG11)}

IssuingAuthority == 24345
DateOfIssue == 24358
EfDG12(b, now) ==
  UNION {IF \/ \E i \in DOMAIN f : f[i].tag = IssuingAuthority /\ ~Utf8(f[i].value)
            \/ \E i \in DOMAIN f : f[i].tag = DateOfIssue
                                   /\ ParseDate(DigitsOf(f[i].value), FALSE, now) = {}
         THEN {}
         ELSE {[fields |-> Newest(Values(f, IssuingAuthority)),
                dates  |-> UNION {ParseDate(DigitsOf(v), FALSE, now)
                                    : v \in ToSet(Newest(Values(f, DateOfIssue)))}]}
           : f \in TaggedFields(b, Tag.DG12)}

Stub(b, tag) == {[encoded |-> b] : x \in ParseDgContent(b, tag)}

ReadFile(file, b, now) ==
  CASE file = "COM"  -> EfCom(b)
    [] file = "DG1"  -> EfDG1(b)
    [] file = "DG2"  -> EfDG2(b)
    [] file = "DG11" -> EfDG11(b, now)
    [] file = "DG12" -> EfDG12(b, now)
    [] OTHER         -> Stub(b, Tag[file])

-----------------------------------------------------------------------------
(* EF.CardAccess.  An info is its object identifier's last two arcs, its   *)
(* version and its parameter id, -1 for none.                              *)

\* The registry: id-PACE arcs 1 DH-GM, 2 ECDH-GM, 3 DH-IM, 4 ECDH-IM; below
\* them 1 is Triple DES and 2 to 4 are AES.  CAM is not in it.
CustomOids == (1 .. 4) \X (1 .. 4)
Params(oid) ==
  [agreement |-> IF oid[1] \in {1, 3} THEN "Dh" ELSE "Ecdh",
   mapping   |-> IF oid[1] \in {1, 2} THEN "Gm" ELSE "Im",
   cipher    |-> IF oid[2] = 1 THEN "DeSede" ELSE "Aes",
   keyLength |-> <<"S128", "S128", "S192", "S256">>[oid[2]]]

\* The table of domain parameters: what each is, and whether it may be used.
DomainParameters ==
  [id \in 0 .. 2 \cup 8 .. 18 |->
     [kind |-> IF id <= 2 THEN "Gfp" ELSE "Ecp", supported |-> id \notin {8, 9, 11, 14, 17}]]

Supported(id, kind) ==
  id \in DOMAIN DomainParameters /\ DomainParameters[id] = [kind |-> kind, supported |-> TRUE]

PaceInfo(info) ==
  IF info.oid \notin CustomOids \/ info.version # 2 THEN {}
  ELSE LET p == Params(info.oid)
       IN  {[protocol |-> p, id |-> info.id,
             supported |-> Supported(info.id, IF p.agreement = "Dh" THEN "Gfp" ELSE "Ecp")]}

Runnable(pi) == pi.supported /\ pi.protocol.cipher = "Aes" /\ pi.protocol.mapping = "Gm"

\* The first info that can be run, else the first with a supported domain, else
\* the first.
EfCardAccess(infos) ==
  LET parsed == SelectSeq(infos, LAMBDA i : PaceInfo(i) # {})
      candidates == [i \in DOMAIN parsed |-> CHOOSE pi \in PaceInfo(parsed[i]) : TRUE]
      First(Test(_)) == SelectInSeq(candidates, Test)
      pick == IF First(Runnable) # 0 THEN First(Runnable)
              ELSE IF First(LAMBDA pi : pi.supported) # 0 THEN First(LAMBDA pi : pi.supported)
              ELSE 1
  IN  IF candidates = << >> THEN {} ELSE {candidates[pick]}

\* Faulty: the one curve that the comments of PaceSession speak of.
OneEngine == {12}
\* The curves ECDHPace::new has an engine for.
EcdhEngines == {10, 12, 13, 15, 16, 18}
\* The groups dh_pace has an engine for.
DhEngines == {0, 1, 2}

\* init_session_via_pace and PaceSession::new: whether a session can be made.
\* A curve is looked up once more in the table, a group is not.
CanRun(pi) ==
  /\ pi.id >= 0
  /\ pi.protocol.cipher = "Aes"
  /\ pi.protocol.mapping = "Gm"
  /\ \/ pi.protocol.agreement = "Ecdh" /\ Supported(pi.id, "Ecp") /\ pi.id \in EcdhEngines
     \/ pi.protocol.agreement = "Dh" /\ pi.id \in DhEngines

-----------------------------------------------------------------------------
(* The issuer, by ICAO 9303 parts 10 and 11. *)

Pixels(image) == [i \in 1 .. image.pixels |-> (image.pixels + i) % 256]

FacialImage(image) ==
  [i \in 1 .. 8 * image.points |-> 7]
  \o <<1, image.type>> \o BigEndian(image.width, 2) \o <<0, 9, 1, 2, 0, 0, 0, 5>> \o Pixels(image)
FacialRecord(image, length) ==
  BigEndian(CASE length = "exact" -> 20 + Len(FacialImage(image))
              [] length = "absent" -> 0
              [] length = "beyond" -> 70000, 4)
  \o BigEndian(image.points, 2) \o <<1, 2, 3, 255, 0, 1, 0, 0, 0, 0, 0, 0, 0, 0>>
  \o FacialImage(image)
Records(images, length) == FlattenSeq([i \in DOMAIN images |-> FacialRecord(images[i], length)])
BiometricData(t) ==
  LET records == Records(t.images, t.length)
  IN  <<70, 65, 67, 0, 48, 49, 48, 0>> \o BigEndian(14 + Len(records), 4)
      \o BigEndian(Len(t.images), 2) \o records
Template(t) ==
  Encode(32608, IF t.kind = "protected" THEN Encode(125, <<1>>)
                ELSE Encode(161, Encode(128, <<1, 1>>)) \o Encode(t.tag, BiometricData(t)))

FieldBytes(f) ==
  CASE f.form = "text"   -> f.value
    [] f.form = "digits" -> LET d == Digit2(f.value.year \div 100) \o FormatYymmdd(f.value)
                            IN  [i \in DOMAIN d |-> 48 + d[i]]
    [] f.form = "packed" -> LET d == Digit2(f.value.year \div 100) \o FormatYymmdd(f.value)
                            IN  [i \in 1 .. 4 |-> 16 * d[2 * i - 1] + d[2 * i]]
FieldSet(fields) ==
  Encode(92, FlattenSeq([i \in DOMAIN fields |-> EncodeTag(fields[i].tag)]))
  \o EncodeSet([i \in DOMAIN fields |-> [tag |-> fields[i].tag, value |-> FieldBytes(fields[i])]])

Body(f) ==
  CASE f.file = "COM" ->
         Encode(24321, <<48, 49, 48, 55>>) \o Encode(24374, <<48, 52, 48, 48, 48, 48>>)
         \o Encode(92, f.tags)
    [] f.file = "DG1" -> Encode(24351, f.body)
    [] f.file = "DG2" -> Encode(32609, EncodeInt(2, Len(f.templates))
                           \o FlattenSeq([i \in DOMAIN f.templates |-> Template(f.templates[i])]))
    [] f.file \in {"DG11", "DG12"} -> FieldSet(f.fields)
    [] OTHER -> f.body
FileBytes(f) == Encode(Tag[f.file], Body(f))

\* The first face; with the records behind it, where its own does not tell a
\* length that can be.
FaceMeant(templates) ==
  IF templates = << >> \/ templates[1].kind = "protected" THEN NoFace
  ELSE LET t == templates[1] IN
       [images |-> Len(t.images), mask |-> 16711681, type |-> t.images[1].type,
        width |-> t.images[1].width,
        image |-> Pixels(t.images[1]) \o IF t.length = "exact" THEN << >> ELSE Records(Tail(t.images), t.length)]
TextsMeant(fields, tag) ==
  LET of == SelectSeq(fields, LAMBDA f : f.tag = tag)
  IN  [i \in DOMAIN of |-> of[i].value]
DatesMeant(fields) == {f.value : f \in {g \in ToSet(fields) : g.form # "text"}}

\* What the issuer means by the file; nothing, if a text of it is none.
Meant(f) ==
  CASE f.file = "COM" -> {[version |-> <<48, 49, 48, 55>>, unicode |-> <<48, 52, 48, 48, 48, 48>>,
                           tags |-> ToSet(f.tags)]}
    [] f.file = "DG1" -> {f.body}
    [] f.file = "DG2" -> {FaceMeant(f.templates)}
    [] f.file = "DG11" ->
         Given(\A g \in ToSet(f.fields) : g.form = "text" /\ g.tag # Proof => Utf8(g.value),
               [fields |-> [t \in Scalars \cup {Proof} \cup Repeated |-> TextsMeant(f.fields, t)],
                dates |-> DatesMeant(f.fields)])
    [] f.file = "DG12" ->
         Given(\A g \in ToSet(f.fields) : g.form = "text" => Utf8(g.value),
               [fields |-> TextsMeant(f.fields, IssuingAuthority), dates |-> DatesMeant(f.fields)])
    [] OTHER -> {[encoded |-> FileBytes(f)]}

-----------------------------------------------------------------------------
LdsInit ==
  /\ \/ step = "written" /\ doc \in Files /\ text = FileBytes(doc)
     \/ step = "offered" /\ text \in CardAccess /\ doc = [file |-> "CardAccess"]
  /\ result = {}

\* Some of the file is missing, or something is behind it.
Cut ==
  /\ step = "written"
  /\ \E n \in 0 .. Len(text) - 1 : text' = SubSeq(text, 1, n)
  /\ step' = "damaged"
  /\ UNCHANGED <<doc, result>>
Trail ==
  /\ step = "written"
  /\ \E b \in {0, 48, 95} : text' = Append(text, b)
  /\ step' = "damaged"
  /\ UNCHANGED <<doc, result>>

ReadWhole ==
  /\ step = "written"
  /\ result' = ReadFile(doc.file, text, Today)
  /\ step' = "file read"
  /\ UNCHANGED <<doc, text>>
ReadDamaged ==
  /\ step = "damaged"
  /\ result' = ReadFile(doc.file, text, Today)
  /\ step' = "damaged read"
  /\ UNCHANGED <<doc, text>>
PickProtocol ==
  /\ step = "offered"
  /\ result' = EfCardAccess(text)
  /\ step' = "picked"
  /\ UNCHANGED <<doc, text>>

LdsNext == Cut \/ Trail \/ ReadWhole \/ ReadDamaged \/ PickProtocol

LdsSpec == LdsInit /\ [][LdsNext]_ldsVars

-----------------------------------------------------------------------------
\* What EfCardAccess takes for an info this library can run, by the table of
\* domain parameters, is one there is an engine for; and it picks such a one if
\* the card offers any.  The two are decided in different places, from lists
\* that are kept by hand.
PickedCanRun ==
  /\ \A pi \in result : Runnable(pi) => CanRun(pi)
  /\ (\E i \in DOMAIN text : \E pi \in PaceInfo(text[i]) : CanRun(pi)) => \E pi \in result : CanRun(pi)

\* A file is read as the issuer meant it: the first face of several, alone if
\* its record tells its length and else with all that follows it in the block
\* (efdg2.rs:232-239), every one of the repeated details in their order and
\* dates in either form; a file with a byte missing or one too many is refused;
\* the eight bytes read_file_by_sfi asks for first tell how long it is; and of
\* what EF.CardAccess offers an info is picked that can be run.
FileIsReadAsWritten ==
  /\ step = "file read" => result = Meant(doc)
  /\ step = "damaged read" => result = {}
  /\ step = "written" =>
       {h.len + h.length : h \in DecodeTagAndLength(SubSeq(text, 1, IF Len(text) < 8 THEN Len(text) ELSE 8))} \subseteq {Len(text)}
  /\ step = "picked" => PickedCanRun
=============================================================================
