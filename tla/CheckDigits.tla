---------------------------- MODULE CheckDigits ----------------------------
(***************************************************************************)
(* The check digits of the documents.  A text is a sequence of one         *)
(* character strings.  The machine readable zone weighs the characters     *)
(* 7, 3, 1, 7, 3, 1 ...; dmrtd and mrz-parser each have their own copy.    *)
(***************************************************************************)
EXTENDS Naturals, Sequences, SequencesExt

Digits == <<"0", "1", "2", "3", "4", "5", "6", "7", "8", "9">>
Letters == <<"A", "B", "C", "D", "E", "F", "G", "H", "I", "J", "K", "L", "M",
             "N", "O", "P", "Q", "R", "S", "T", "U", "V", "W", "X", "Y", "Z">>

Chars == {Digits[i] : i \in DOMAIN Digits} \cup {Letters[i] : i \in DOMAIN Letters} \cup {"<", " "}

IsDigit(c) == c \in {Digits[i] : i \in DOMAIN Digits}
IsLetter(c) == c \in {Letters[i] : i \in DOMAIN Letters}

\* 0-9 as they are, A-Z from 10 on, a filler (and dmrtd: a blank) for nothing.
CharValue ==
  [c \in Chars |->
     IF IsDigit(c) THEN (CHOOSE n \in DOMAIN Digits : Digits[n] = c) - 1
     ELSE IF IsLetter(c) THEN (CHOOSE n \in DOMAIN Letters : Letters[n] = c) + 9
     ELSE 0]
DigitValue(c) == CharValue[c]

Weight(i) == <<7, 3, 1>>[((i - 1) % 3) + 1]

\* Whether every character has a value: None otherwise.
InAlphabet(text) == \A i \in DOMAIN text : text[i] \in Chars

CheckDigit(text) ==
  LET sum[i \in 0 .. Len(text)] == IF i = 0 THEN 0 ELSE sum[i - 1] + CharValue[text[i]] * Weight(i)
  IN  sum[Len(text)] % 10

-----------------------------------------------------------------------------
(* Text of a zone. *)

CharsOf(string) == [i \in 1 .. Len(string) |-> SubSeq(string, i, i)]

Holds(c, text) == \E i \in DOMAIN text : text[i] = c

\* Without the fillers at its end.
TrimEnd(text) ==
  LET ends == {n \in 0 .. Len(text) : \A i \in n + 1 .. Len(text) : text[i] = "<"}
  IN  SubSeq(text, 1, CHOOSE n \in ends : \A m \in ends : n <= m)

\* The text before the first << and behind it.
SplitNames(text) ==
  LET gaps == {i \in 1 .. Len(text) - 1 : text[i] = "<" /\ text[i + 1] = "<"}
      gap  == CHOOSE i \in gaps : \A j \in gaps : i <= j
  IN  IF gaps = {} THEN <<text, << >> >>
      ELSE <<SubSeq(text, 1, gap - 1), SubSeq(text, gap + 2, Len(text))>>

DigitsIn(text) == SelectSeq(text, IsDigit)
=============================================================================
