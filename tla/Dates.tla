-------------------------------- MODULE Dates --------------------------------
(***************************************************************************)
(* Dates as extension/string.rs, uint8list.rs and datetime.rs write and    *)
(* read them.  A text is the sequence of its digits' values.               *)
(***************************************************************************)
EXTENDS Tlv

Day(y, m, d) == [year |-> y, month |-> m, day |-> d]

Today == Day(2026, 6, 15)

DaysIn(y, m) ==
  CASE m \in {4, 6, 9, 11} -> 30
    [] m = 2 -> IF y % 4 = 0 /\ (y % 100 # 0 \/ y % 400 = 0) THEN 29 ELSE 28
    [] OTHER -> 31
FromYmd(y, m, d) ==
  Given(m \in 1 .. 12 /\ d \in 1 .. (IF m \in 1 .. 12 THEN DaysIn(y, m) ELSE 0), Day(y, m, d))

\* (year, month, day) > (year, month, day)
Later(a, b) ==
  \/ a.year > b.year
  \/ a.year = b.year /\ a.month > b.month
  \/ a.year = b.year /\ a.month = b.month /\ a.day > b.day

\* A birth date is not after today; an expiry date is at most twenty years and
\* five months ahead.
Latest(future, now) ==
  IF ~future THEN now
  ELSE Day(now.year + 20 + ((now.month + 4) \div 12), ((now.month + 4) % 12) + 1, now.day)

Two(digits, i) == 10 * digits[i] + digits[i + 1]

ParseYymmdd(digits, future, now) ==
  IF Len(digits) # 6 THEN {}
  ELSE LET date == Day(2000 + Two(digits, 1), Two(digits, 3), Two(digits, 5))
       IN  FromYmd(IF Later(date, Latest(future, now)) THEN date.year - 100 ELSE date.year,
                   date.month, date.day)

ParseDate(digits, future, now) ==
  IF Len(digits) = 8
  THEN FromYmd(100 * Two(digits, 1) + Two(digits, 3), Two(digits, 5), Two(digits, 7))
  ELSE ParseYymmdd(digits, future, now)

Digit2(n) == <<(n \div 10) % 10, n % 10>>
FormatYymmdd(date) == Digit2(date.year % 100) \o Digit2(date.month) \o Digit2(date.day)

\* Four bytes of two decimal digits each.
ToDate(b) ==
  IF Len(b) # 4 \/ \E i \in DOMAIN b : b[i] \div 16 > 9 \/ b[i] % 16 > 9 THEN {}
  ELSE LET Bcd(i) == 10 * (b[i] \div 16) + (b[i] % 16)
       IN  FromYmd(100 * Bcd(1) + Bcd(2), Bcd(3), Bcd(4))
==============================================================================
