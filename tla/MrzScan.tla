------------------------------ MODULE MrzScan ------------------------------
(***************************************************************************)
(* mrz-parser: the machine readable zone as a camera saw it, a sequence of *)
(* lines.  What an eye confuses is mended where a field can only hold      *)
(* digits or only letters; the check digits decide about the rest.         *)
(***************************************************************************)
EXTENDS CheckDigits, Dates, Integers

From1(line, i, j) == SubSeq(line, i + 1, j)    \* &line[i..j]

FixDigits(text) ==
  [i \in DOMAIN text |->
     CASE text[i] \in {"O", "Q", "U", "D"} -> "0"
       [] text[i] = "I" -> "1"
       [] text[i] = "Z" -> "2"
       [] text[i] = "B" -> "8"
       [] OTHER -> text[i]]
FixLetters(text) ==
  [i \in DOMAIN text |->
     CASE text[i] = "0" -> "O"
       [] text[i] = "1" -> "I"
       [] text[i] = "2" -> "Z"
       [] text[i] = "8" -> "B"
       [] OTHER -> text[i]]
FixSex(c) == IF c = "P" THEN "F" ELSE c

\* The digit of a text, mended.
Validates(text, cd) == IsDigit(cd) /\ DigitValue(cd) = CheckDigit(text)
Holds1(text, cd) == Validates(text, FixDigits(cd)[1])

\* Fillers are blanks, and those around the text are gone.
Bare(text) ==
  LET inner == {i \in DOMAIN text : text[i] \notin {"<", " "}}
      first == CHOOSE i \in inner : \A j \in inner : i <= j
      last  == CHOOSE i \in inner : \A j \in inner : i >= j
  IN  IF inner = {} THEN << >>
      ELSE [i \in 1 .. last - first + 1 |-> IF text[first + i - 1] = "<" THEN " " ELSE text[first + i - 1]]
ParseNames(text) ==
  LET parts == SplitNames(TrimEnd(text)) IN <<Bare(parts[1]), Bare(parts[2])>>
ParseSex(c) == IF c \in {"M", "F"} THEN c ELSE "<"

\* chrono's %m and %d: blanks, then one or two digits.
Numeric(text) ==
  LET blanks == SelectInSeq(text \o <<"0">>, LAMBDA c : c # " ") - 1
      rest   == SubSeq(text, blanks + 1, Len(text))
      size   == IF Len(rest) > 1 /\ IsDigit(rest[2]) THEN 2 ELSE 1
  IN  IF rest = << >> \/ ~IsDigit(rest[1]) THEN {}
      ELSE {[value |-> IF size = 1 THEN DigitValue(rest[1])
                       ELSE 10 * DigitValue(rest[1]) + DigitValue(rest[2]),
             rest |-> SubSeq(rest, size + 1, Len(rest))]}

\* A year above the milestone is one of the last century.
ParseDateBy(text, milestone) ==
  LET s == Bare(text)
      yy == 10 * DigitValue(s[1]) + DigitValue(s[2])
  IN  IF Len(s) < 6 \/ ~IsDigit(s[1]) \/ ~IsDigit(s[2]) THEN {}
      ELSE UNION {UNION {IF d.rest # << >> THEN {}
                         ELSE FromYmd((IF yy > milestone THEN 1900 ELSE 2000) + yy, m.value, d.value)
                           : d \in Numeric(m.rest)} : m \in Numeric(SubSeq(s, 3, Len(s)))}
ParseBirthDate(text) == ParseDateBy(text, Today.year - 2000)
ParseExpiryDate(text) == ParseDateBy(text, 70)

\* A mended date that has its check digit.
CheckedDate(text, Parse(_)) ==
  LET date == FixDigits(SubSeq(text, 1, 6))
  IN  IF Holds1(date, <<text[7]>>) THEN Parse(date) ELSE {}

-----------------------------------------------------------------------------
(* TD1 *)

IsValidInput(lines, count, length) ==
  Len(lines) = count /\ \A i \in DOMAIN lines : Len(lines[i]) = length

\* The numbers of the countries that have a form of their own: runs of
\* digits, of letters or of either, with their least and greatest length.
D(least, most) == [of |-> "digits", least |-> least, most |-> most]
A(least, most) == [of |-> "letters", least |-> least, most |-> most]
E(n) == [of |-> "either", least |-> n, most |-> n]
Patterns ==
  LET of(countries, form) == [c \in {CharsOf(x) : x \in countries} |-> form]
  IN  of({"AUT", "BGR"}, <<D(10, 10)>>)
      @@ of({"BEL"}, <<A(1, 1), D(3, 3), A(1, 1), D(6, 6)>>)
      @@ of({"CYP", "DNK"}, <<D(9, 9)>>)
      @@ of({"CZE", "LVA", "MLT", "SWE"}, <<A(0, 1), D(8, 9)>>)
      @@ of({"DEU"}, <<E(9)>>)
      @@ of({"ESP"}, <<D(8, 8), A(1, 1)>>)
      @@ of({"EST", "PRT"}, <<A(0, 2), D(8, 8)>>)
      @@ of({"FIN"}, <<D(14, 14)>>)
      @@ of({"FRA", "IRL"}, <<E(12)>>)
      @@ of({"GBR"}, <<D(13, 13)>>)
      @@ of({"GRC", "LUX"}, <<A(0, 2), D(8, 10)>>)
      @@ of({"HRV"}, <<D(11, 11)>>)
      @@ of({"HUN"}, <<D(6, 6), A(2, 2)>>)
      @@ of({"ITA"}, <<E(10)>>)
      @@ of({"LTU"}, <<D(8, 8)>>)
      @@ of({"NLD"}, <<A(2, 2), D(7, 7)>>)
      @@ of({"POL"}, <<A(0, 3), D(8, 9)>>)
      @@ of({"ROU"}, <<A(2, 2), D(8, 9)>>)
      @@ of({"SVK"}, <<D(6, 6), A(1, 1), D(3, 3)>>)
      @@ of({"SVN"}, <<A(0, 1), D(9, 10)>>)
GetCountryPattern(line) ==
  Given(From1(line, 0, 2) = <<"I", "D">> /\ From1(line, 2, 5) \in DOMAIN Patterns,
        Patterns[From1(line, 2, 5)])

\* How much of the text a pattern takes, each run as much as it can: no two
\* runs that meet share a character, so none has to give back.
Captures(pattern, text) ==
  LET Fits(c, run) == \/ run.of # "letters" /\ IsDigit(c)
                      \/ run.of # "digits" /\ IsLetter(c)
      Longest(run, at) ==
        LET lengths == {n \in run.least .. run.most :
                          at + n <= Len(text) /\ \A i \in at + 1 .. at + n : Fits(text[i], run)}
        IN  {at + n : n \in {m \in lengths : \A k \in lengths : m >= k}}
      end[i \in 0 .. Len(pattern)] ==
        IF i = 0 THEN {0} ELSE UNION {Longest(pattern[i], at) : at \in end[i - 1]}
  IN  end[Len(pattern)]

NumberAt(line, from, to, cdAt) ==
  [number |-> From1(line, from, to), cd |-> From1(line, cdAt, cdAt + 1),
   optional |-> From1(line, cdAt + 1, 30), long |-> to - from > 9]

\* A pattern may have swallowed the check digit: the split it agrees with.
Split(line, taken) ==
  LET end == 5 + taken
      whole == NumberAt(line, 5, end, end)
      shorter == NumberAt(line, 5, end - 1, end - 1)
  IN  IF end < 30 /\ Validates(whole.number, whole.cd[1]) THEN {whole}
      ELSE IF taken >= 2 /\ Validates(shorter.number, shorter.cd[1]) THEN {shorter}
      ELSE Given(end < 30, whole)

\* A filler for the check digit: the number goes on behind it.
LongNumber(line) ==
  LET tmp == TrimEnd(From1(line, 15, 28))
  IN  Given(tmp # << >>,
            [number |-> From1(line, 5, 14) \o SubSeq(tmp, 1, Len(tmp) - 1),
             cd |-> <<tmp[Len(tmp)]>>, optional |-> From1(line, 15 + Len(tmp), 30), long |-> TRUE])

DocumentNumber(line) ==
  IF GetCountryPattern(line) # {}
  THEN UNION {UNION {Split(line, n) : n \in Captures(p, From1(line, 5, 30))} : p \in GetCountryPattern(line)}
  ELSE IF line[15] = "<" THEN LongNumber(line)
  ELSE {NumberAt(line, 5, 14, 14)}

ParseTd1(lines) ==
  UNION {UNION {UNION {
    LET second == lines[2]
        printed == IF n.long THEN SubSeq(n.number, 1, 9) \o <<"<">> \o From(n.number, 10) ELSE n.number
        names == ParseNames(lines[3])
    IN  Given(/\ Holds1(n.number, n.cd)
              /\ Holds1(printed \o FixDigits(n.cd) \o n.optional
                          \o FixDigits(From1(second, 0, 7)) \o FixDigits(From1(second, 8, 15))
                          \o From1(second, 18, 29), <<second[30]>>),
              [code |-> Bare(FixLetters(From1(lines[1], 0, 2))),
               country |-> Bare(FixLetters(From1(lines[1], 2, 5))),
               last |-> names[1], first |-> names[2], number |-> Bare(n.number),
               optional |-> Bare(n.optional), optional2 |-> Bare(From1(second, 18, 29)),
               nationality |-> Bare(FixLetters(From1(second, 15, 18))),
               sex |-> ParseSex(FixSex(second[8])), birth |-> b, expiry |-> e])
      : e \in CheckedDate(From1(lines[2], 8, 15), ParseExpiryDate)}
      : b \in CheckedDate(From1(lines[2], 0, 7), ParseBirthDate)}
      : n \in DocumentNumber(lines[1])}

-----------------------------------------------------------------------------
(* TD2 and TD3: a visa has no digit over its optional data or over all. *)

IsVisa(lines) == lines[1][1] = "V"

OptionalAgrees(optional, cd) ==
  \/ Holds1(optional, cd)
  \/ cd = <<"<">> /\ Bare(optional) = << >>

\* Faulty: any digit over everything will do.
AnyFinal(second, end, cd) == IsDigit(FixDigits(cd)[1])
FinalAgrees(second, end, cd) ==
  Holds1(From1(second, 0, 9) \o FixDigits(From1(second, 9, 10)) \o FixDigits(From1(second, 13, 20))
           \o FixDigits(From1(second, 21, 28)) \o From1(second, 28, end), cd)

ParseTwoLines(lines, length) ==
  UNION {UNION {
    LET second == lines[2]
        end == IF IsVisa(lines) THEN length ELSE IF length = 44 THEN 42 ELSE 35
        optional == From1(second, 28, end)
        names == ParseNames(FixLetters(From1(lines[1], 5, length)))
        checked == IF length = 44 THEN optional \o FixDigits(From1(second, 42, 43)) ELSE optional
    IN  Given(/\ Holds1(From1(second, 0, 9), <<second[10]>>)
              /\ ~IsVisa(lines) =>
                   /\ length = 44 => OptionalAgrees(optional, FixDigits(From1(second, 42, 43)))
                   /\ FinalAgrees(SubSeq(second, 1, 28) \o checked, 28 + Len(checked), <<second[length]>>),
              [code |-> Bare(FixLetters(From1(lines[1], 0, 2))),
               country |-> Bare(FixLetters(From1(lines[1], 2, 5))),
               last |-> names[1], first |-> names[2], number |-> Bare(From1(second, 0, 9)),
               optional |-> Bare(optional), optional2 |-> << >>,
               nationality |-> Bare(FixLetters(From1(second, 10, 13))),
               sex |-> ParseSex(FixSex(second[21])), birth |-> b, expiry |-> e])
      : e \in CheckedDate(From1(lines[2], 21, 28), ParseExpiryDate)}
      : b \in CheckedDate(From1(lines[2], 13, 20), ParseBirthDate)}

-----------------------------------------------------------------------------
(* The French identity card: a month of issue instead of a day of expiry. *)

\* 28 February when the year has no 29th.
SubtractYears(date, years) ==
  IF FromYmd(date.year - years, date.month, date.day) # {}
  THEN Day(date.year - years, date.month, date.day)
  ELSE Day(date.year - years, date.month, date.day - 1)

FrenchIdValidityYears(issue, birth) ==
  IF ~Later(Day(2004, 1, 1), issue) /\ ~Later(birth, SubtractYears(issue, 18)) THEN 15 ELSE 10

IsFrenchId(lines) == lines[1][1] = "I" /\ From1(lines[1], 2, 5) = CharsOf("FRA")

Joined(names) ==
  IF names[1] = << >> THEN names[2]
  ELSE IF names[2] = << >> THEN names[1] ELSE names[1] \o <<" ">> \o names[2]

ParseFrenchId(lines) ==
  LET first == lines[1]  second == lines[2]
      number == From1(second, 0, 12)
      last == FixLetters(From1(first, 5, 30))
      given == FixLetters(From1(second, 13, 27))
      head == FixLetters(From1(first, 0, 5))
      sex == FixSex(second[35])
      final == head \o last \o From1(first, 30, 36) \o number \o FixDigits(From1(second, 12, 13))
               \o given \o FixDigits(From1(second, 27, 34)) \o <<sex>>
  IN  UNION {UNION {
        Given(Holds1(number, <<second[13]>>) /\ Holds1(final, <<second[36]>>),
              [code |-> Bare(SubSeq(head, 1, 2)), country |-> Bare(SubSeq(head, 3, 5)),
               last |-> Joined(ParseNames(last)), first |-> Joined(ParseNames(given)),
               number |-> Bare(number), optional |-> Bare(From1(first, 30, 36)),
               optional2 |-> Bare(From1(second, 4, 7)), nationality |-> Bare(SubSeq(head, 3, 5)),
               sex |-> ParseSex(sex), birth |-> b,
               expiry |-> Day(i.year + FrenchIdValidityYears(i, b), i.month, i.day)])
          : i \in ParseExpiryDate(FixDigits(From1(second, 0, 4)) \o <<"0", "1">>)}
          : b \in CheckedDate(From1(second, 27, 34), ParseBirthDate)}

ParseTd2(lines) == IF IsFrenchId(lines) THEN ParseFrenchId(lines) ELSE ParseTwoLines(lines, 36)
ParseTd3(lines) == ParseTwoLines(lines, 44)

ParseMrz(lines) ==
  IF lines = << >> \/ \E i \in DOMAIN lines : ~InAlphabet(lines[i]) \/ Holds(" ", lines[i]) THEN {}
  ELSE IF IsValidInput(lines, 3, 30) THEN ParseTd1(lines)
  ELSE IF IsValidInput(lines, 2, 36) THEN ParseTd2(lines)
  ELSE IF IsValidInput(lines, 2, 44) THEN ParseTd3(lines)
  ELSE {}
=============================================================================
