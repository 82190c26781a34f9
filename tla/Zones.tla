------------------------------- MODULE Zones -------------------------------
(***************************************************************************)
(* Machine readable zones from the issuer to both readers: printed by ICAO *)
(* 9303 parts 4 to 7 (or as the French identity card), seen by a camera    *)
(* that may mistake a character or lose a line, and stored in EF.DG1.      *)
(***************************************************************************)
EXTENDS DgMrz

S == INSTANCE MrzScan

CONSTANT Holders   \* the documents

VARIABLES
  step,     \* "printed", "misread", "scanned", "misread scanned", "dg read"
  doc,      \* what the document says
  text,     \* its lines
  result    \* what a reader makes of them

zoneVars == <<step, doc, text, result>>

-----------------------------------------------------------------------------
(* The issuer.  A line is a sequence of fields, each with its kind: what   *)
(* of it a reader can mend.                                                *)

Pad(t, n) == SubSeq(t \o [i \in 1 .. n |-> "<"], 1, n)
WithDigit(t) == t \o <<Digits[CheckDigit(t) + 1]>>

\* A day or a month that nobody knows is left out.
Dated(date) ==
  [i \in 1 .. 6 |-> IF (i > 4 /\ date.day = 0) \/ (i > 2 /\ date.month = 0) THEN "<" ELSE DateText(date)[i]]

Filled(t) == [i \in DOMAIN t |-> IF t[i] = " " THEN "<" ELSE t[i]]
Names(d) == Filled(d.last) \o (IF d.first = << >> THEN << >> ELSE <<"<", "<">> \o Filled(d.first))

\* The number, its digit and size characters of optional data.
NumberField(d, size) ==
  IF d.straight THEN Pad(WithDigit(d.number) \o d.optional, 10 + size)
  ELSE IF Len(d.number) <= 9 THEN WithDigit(Pad(d.number, 9)) \o Pad(d.optional, size)
  ELSE SubSeq(d.number, 1, 9) \o <<"<">>
       \o Pad(SubSeq(WithDigit(d.number), 10, Len(d.number) + 1) \o <<"<">> \o d.optional, size)

HeadOf(d) == [kind |-> "letters", chars |-> Pad(d.code, 2) \o Pad(d.country, 3)]
Field(kind, chars) == [kind |-> kind, chars |-> chars]
Chars1(fields) == FlattenSeq([i \in DOMAIN fields |-> fields[i].chars])
Sealed(fields, over) == Append(fields, Field("digits", <<Digits[CheckDigit(over) + 1]>>))

Td1Lines(d) ==
  LET number == NumberField(d, 15)
      birth == WithDigit(Dated(d.birth))  expiry == WithDigit(Dated(d.expiry))
  IN  << <<HeadOf(d), Field("free", number)>>,
         Sealed(<<Field("digits", birth), Field("sex", <<d.sex>>), Field("digits", expiry),
                  Field("letters", Pad(d.nationality, 3)), Field("free", Pad(d.optional2, 11))>>,
                number \o birth \o expiry \o Pad(d.optional2, 11)),
         <<Field("unchecked", Pad(Names(d), 30))>> >>

TwoLines(d, length) ==
  LET visa == d.code[1] = "V"
      number == SubSeq(NumberField(d, 7), 1, 10)
      birth == WithDigit(Dated(d.birth))  expiry == WithDigit(Dated(d.expiry))
      optional == IF visa THEN Pad(d.optional, length - 28)
                  ELSE IF length = 36 THEN SubSeq(NumberField(d, 7), 11, 17)
                  ELSE IF d.optional = << >> /\ d.blank THEN Pad(<< >>, 15)
                  ELSE WithDigit(Pad(d.optional, 14))
      second == <<Field("free", number), Field("letters", Pad(d.nationality, 3)), Field("digits", birth),
                  Field("sex", <<d.sex>>), Field("digits", expiry),
                  Field(IF visa THEN "unchecked" ELSE "free", optional)>>
  IN  << <<HeadOf(d), Field("letters", Pad(Names(d), length - 5))>>,
         IF visa THEN second ELSE Sealed(second, number \o birth \o expiry \o optional) >>

FrenchLines(d) ==
  LET first == <<HeadOf(d), Field("letters", Pad(Filled(d.last), 25)), Field("free", Pad(d.optional, 6))>>
      second == <<Field("free", WithDigit(d.number)), Field("letters", Pad(Filled(d.first), 14)),
                  Field("digits", WithDigit(Dated(d.birth))), Field("sex", <<d.sex>>)>>
  IN  <<first, Sealed(second, Chars1(first) \o Chars1(second))>>

IsFrench(d) == d.format = "TD2" /\ d.code[1] = "I" /\ d.country = CharsOf("FRA")
Fields(d) ==
  CASE d.format = "TD1" -> Td1Lines(d)
    [] d.format = "TD2" -> IF IsFrench(d) THEN FrenchLines(d) ELSE TwoLines(d, 36)
    [] d.format = "TD3" -> TwoLines(d, 44)
Lines(d) == [i \in DOMAIN Fields(d) |-> Chars1(Fields(d)[i])]

\* A French card of before 2004, or of a minor, is good for ten years.
FrenchExpiry(d) ==
  LET months == 12 * (d.issue.year - d.birth.year) + d.issue.month - d.birth.month
      adult == months > 216 \/ (months = 216 /\ d.birth.day = 1)
  IN  Day(d.issue.year + (IF d.issue.year >= 2004 /\ adult THEN 15 ELSE 10), d.issue.month, 1)

\* What a reader tells of a document; the optional data is a set, for it
\* changes its place behind a long number.
Told(r) ==
  [code |-> r.code, country |-> r.country, last |-> r.last, first |-> r.first, number |-> r.number,
   details |-> {Spaced(r.optional), Spaced(r.optional2)} \ {<< >>},
   nationality |-> r.nationality, sex |-> r.sex, birth |-> r.birth, expiry |-> r.expiry]

Meant(d) ==
  Given(d.birth.day # 0 /\ d.birth.month # 0,
        Told([d EXCEPT !.expiry = IF IsFrench(d) THEN FrenchExpiry(d) ELSE @,
                       !.optional2 = IF IsFrench(d) THEN SubSeq(d.number, 5, 7) ELSE @]))

-----------------------------------------------------------------------------
(* What an eye takes for what: the confusions the parser knows of.  Some of *)
(* them no check digit can tell, for a U weighs as much as a 0; and no digit *)
(* at all is over the names of TD1 and the optional data of a visa.        *)

LettersLike(c) ==
  CASE c = "0" -> {"O", "Q", "U", "D"} [] c = "1" -> {"I"} [] c = "2" -> {"Z"} [] c = "8" -> {"B"} [] OTHER -> {}
DigitsLike(c) ==
  CASE c = "O" -> {"0"} [] c = "I" -> {"1"} [] c = "Z" -> {"2"} [] c = "B" -> {"8"} [] OTHER -> {}
Mistaken(kind, c) ==
  CASE kind = "digits"  -> LettersLike(c)
    [] kind = "letters" -> DigitsLike(c)
    [] kind = "sex"     -> IF c = "F" THEN {"P"} ELSE {}
    [] kind \in {"free", "unchecked"} -> LettersLike(c) \cup DigitsLike(c)

ZoneInit ==
  /\ step = "printed"
  /\ doc \in Holders
  /\ text = Lines(doc)
  /\ result = {}

KindAt(fields, j) ==
  LET end(k) == Len(Chars1(SubSeq(fields, 1, k)))
  IN  fields[CHOOSE k \in DOMAIN fields : j \in end(k - 1) + 1 .. end(k)].kind

Misread ==
  /\ step = "printed"
  /\ \E i \in DOMAIN text : \E j \in DOMAIN text[i] :
       \E c \in Mistaken(KindAt(Fields(doc)[i], j), text[i][j]) : text' = [text EXCEPT ![i][j] = c]
  /\ step' = "misread"
  /\ UNCHANGED <<doc, result>>
LoseLine ==
  /\ step = "printed"
  /\ \E i \in DOMAIN text : text' = RemoveAt(text, i)
  /\ step' = "misread"
  /\ UNCHANGED <<doc, result>>

ScanPrinted ==
  /\ step = "printed"
  /\ result' = S!ParseMrz(text)
  /\ step' = "scanned"
  /\ UNCHANGED <<doc, text>>
ScanMisread ==
  /\ step = "misread"
  /\ result' = S!ParseMrz(text)
  /\ step' = "misread scanned"
  /\ UNCHANGED <<doc, text>>

\* A visa and the old French card have no chip.
ReadDg1 ==
  /\ step = "printed"
  /\ doc.code[1] # "V" /\ ~IsFrench(doc) /\ ~doc.straight
  /\ result' = Mrz(FlattenSeq(text))
  /\ step' = "dg read"
  /\ UNCHANGED <<doc, text>>

ZoneNext == Misread \/ LoseLine \/ ScanPrinted \/ ScanMisread \/ ReadDg1
ZoneSpec == ZoneInit /\ [][ZoneNext]_zoneVars

-----------------------------------------------------------------------------
ToldBy(results) == {Told(r) : r \in results}

\* A country with a form of its own for the number, as country_patterns has it.
Own(d) == S!GetCountryPattern(Lines(d)[1]) # {}

\* What the camera reader does not foresee: a long number on a card of two
\* lines, or with optional data behind it; and, of a country with a form of its
\* own, a number that with its digit does not fill ten places, or fills more.
Unforeseen(d) ==
  \/ d.format = "TD2" /\ ~IsFrench(d) /\ Len(d.number) > 9
  \/ d.format = "TD1" /\ Len(d.number) > 9 /\ d.optional # << >>
  \/ d.format = "TD1" /\ Own(d) /\ IF d.straight THEN Len(d.number) > 9 ELSE Len(d.number) # 9

\* Of such a number a character that happens to be the check digit of those
\* before it ends it there.
ByChance(d) ==
  LET number == IF Len(d.number) < 9 THEN d.number
                ELSE WithDigit(d.number) \o <<"<">> \o d.optional
  IN  Unforeseen(d) /\ d.format = "TD1" /\ S!Holds1(Front(number), <<Last(number)>>)

\* What the chip reader makes of it: behind a long number it drops the optional
\* data, and a number of ten characters with none it refuses (ExtendedNumberIsRead).
MeantByDg(d) ==
  IF d.format = "TD3" \/ Len(d.number) <= 9 THEN Meant(d)
  ELSE IF Len(d.number) = 10 /\ d.optional = << >> THEN {}
  ELSE Meant([d EXCEPT !.optional = << >>])


\* A character was mistaken where no check digit can tell: it weighs the same,
\* as U and 0 do, or none is over it.
Untold ==
  LET fields == Fields(doc) IN
  /\ Len(text) = Len(fields)
  /\ \E i \in DOMAIN text : \E j \in DOMAIN text[i] :
       /\ text[i][j] # Chars1(fields[i])[j]
       /\ \/ KindAt(fields[i], j) = "unchecked"
          \/ /\ KindAt(fields[i], j) = "free"
             /\ CharValue[text[i][j]] % 10 = CharValue[Chars1(fields[i])[j]] % 10

\* One mistaken character, or a lost line, makes no other document: it is
\* mended or the zone is refused.  The exceptions are those of Untold: U for 0
\* in a document number is read as another number.  They change the names, the
\* number or the optional data and nothing else.
MisreadIsMendedOrRefused ==
  step = "misread scanned" /\ ~ByChance(doc) =>
    \A t \in ToldBy(result) : \E m \in Meant(doc) :
      t = IF Untold THEN [m EXCEPT !.last = t.last, !.first = t.first, !.number = t.number, !.details = t.details]
          ELSE m

\* Extended document numbers are read: if the check digit is a filler, the
\* first part of the optional data is appended and its last character is the
\* check digit (the doc comment of parse_extended_document_number).
ExtendedNumberIsRead ==
  step = "dg read" /\ Len(doc.number) > 9 => doc.number \in {r.number : r \in result}
=============================================================================
