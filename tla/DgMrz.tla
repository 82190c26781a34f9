------------------------------- MODULE DgMrz -------------------------------
(***************************************************************************)
(* The machine readable zone as dmrtd reads it from EF.DG1 (lds/mrz.rs):   *)
(* one text of 90, 72 or 88 characters.  Every reader yields the set of    *)
(* its outcomes, {} for an error.                                          *)
(***************************************************************************)
EXTENDS CheckDigits, Dates, Integers

\* Where the fields are: the date of birth and of expiry with their digit.
Layout ==
  [TD1 |-> [number |-> <<6, 14>>, optional |-> <<16, 30>>, birth |-> <<31, 37>>, sex |-> 38,
            expiry |-> <<39, 45>>, nationality |-> <<46, 48>>, names |-> <<61, 90>>,
            composite |-> 60, over |-> << <<6, 30>>, <<31, 37>>, <<39, 45>>, <<49, 59>> >>],
   TD2 |-> [number |-> <<37, 45>>, optional |-> <<65, 71>>, birth |-> <<50, 56>>, sex |-> 57,
            expiry |-> <<58, 64>>, nationality |-> <<47, 49>>, names |-> <<6, 36>>,
            composite |-> 72, over |-> << <<37, 46>>, <<50, 56>>, <<58, 71>> >>],
   TD3 |-> [number |-> <<45, 53>>, optional |-> <<73, 86>>, birth |-> <<58, 64>>, sex |-> 65,
            expiry |-> <<66, 72>>, nationality |-> <<55, 57>>, names |-> <<6, 44>>,
            composite |-> 88, over |-> << <<45, 54>>, <<58, 64>>, <<66, 87>> >>]]

VersionOf(zone) ==
  CASE Len(zone) = 90 -> {"TD1"}
    [] Len(zone) = 72 -> {"TD2"}
    [] Len(zone) = 88 -> {"TD3"}
    [] OTHER -> {}

HasCheckDigit(text, cd) == InAlphabet(text) /\ CheckDigit(text) = cd

ReadWithPad(zone, field) == SubSeq(zone, field[1], field[2])
ReadField(zone, field) == TrimEnd(ReadWithPad(zone, field))
ReadCd(zone, at) ==
  IF zone[at] = "<" THEN {0} ELSE Given(IsDigit(zone[at]), DigitValue(zone[at]))
Checked(text, zone, at) == \E cd \in ReadCd(zone, at) : HasCheckDigit(text, cd)

DateText(date) == [i \in 1 .. 6 |-> Digits[FormatYymmdd(date)[i] + 1]]

\* The digit is checked against the date as it is written again.
ReadDate(zone, field, future) ==
  LET digits == DigitsIn(ReadField(zone, <<field[1], field[2] - 1>>))
  IN  {d \in ParseYymmdd([i \in DOMAIN digits |-> DigitValue(digits[i])], future, Today) :
         Checked(DateText(d), zone, field[2])}

\* Every filler is a blank, and so is every pair of them.
Blanked(text) ==
  LET from[i \in 1 .. Len(text) + 2] ==
        IF i > Len(text) THEN << >>
        ELSE IF text[i] # "<" THEN <<text[i]>> \o from[i + 1]
        ELSE <<" ">> \o from[IF i < Len(text) /\ text[i + 1] = "<" THEN i + 2 ELSE i + 1]
  IN  from[1]
Spaced(text) == [i \in DOMAIN text |-> IF text[i] = "<" THEN " " ELSE text[i]]
ReadNameIdentifiers(zone, field) ==
  LET ids == SplitNames(ReadField(zone, field))
  IN  <<Spaced(ids[1]), Blanked(ids[2])>>

\* A number longer than nine characters goes on in the optional data, up to a
\* filler, its check digit behind it; the optional data is then that of the
\* second line.
ParseExtendedDocumentNumber(number, cd, optional, optional2) ==
  IF cd = "<" /\ Len(optional) > 2
  THEN LET part == SubSeq(optional, 1, SelectInSeq(optional \o <<"<">>, LAMBDA c : c = "<") - 1)
           whole == number \o SubSeq(part, 1, Len(part) - 1)
       IN  IF part = << >> THEN {}
           ELSE Given(IsDigit(part[Len(part)]) /\ HasCheckDigit(whole, DigitValue(part[Len(part)])),
                      [number |-> whole, optional |-> optional2, optional2 |-> << >>])
  ELSE Given(IsDigit(cd) /\ HasCheckDigit(number, DigitValue(cd)),
             [number |-> number, optional |-> optional, optional2 |-> optional2])

ReadNumber(zone, version) ==
  LET l == Layout[version]
      number == ReadField(zone, l.number)
      optional == ReadField(zone, l.optional)
  IN  IF version = "TD3"
      THEN Given(/\ Checked(number, zone, 54)
                 /\ Checked(optional, zone, 87),
                 [number |-> number, optional |-> optional, optional2 |-> << >>])
      ELSE ParseExtendedDocumentNumber(number, zone[l.number[2] + 1], optional,
             IF version = "TD1" THEN ReadField(zone, <<49, 59>>) ELSE << >>)

CompositeAgrees(zone, version) ==
  Checked(FlattenSeq([i \in DOMAIN Layout[version].over |->
                        ReadWithPad(zone, Layout[version].over[i])]),
          zone, Layout[version].composite)

Mrz(zone) ==
  UNION {UNION {UNION {UNION {
    Given(CompositeAgrees(zone, v),
      [code |-> ReadField(zone, <<1, 2>>), country |-> ReadField(zone, <<3, 5>>),
       last |-> ReadNameIdentifiers(zone, Layout[v].names)[1],
       first |-> ReadNameIdentifiers(zone, Layout[v].names)[2],
       number |-> n.number, optional |-> n.optional, optional2 |-> n.optional2,
       nationality |-> ReadField(zone, Layout[v].nationality),
       sex |-> zone[Layout[v].sex], birth |-> b, expiry |-> e])
      : e \in ReadDate(zone, Layout[v].expiry, TRUE)}
      : b \in ReadDate(zone, Layout[v].birth, FALSE)}
      : n \in ReadNumber(zone, v)}
      : v \in VersionOf(zone)}
=============================================================================
