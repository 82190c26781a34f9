--------------------------- MODULE MCMrzExtended ---------------------------
(* TD1 documents whose number has nine, ten or eleven characters: from ten  *)
(* on, the rest of it and its check digit stand in the optional field.      *)
EXTENDS Zones

Holder(number) ==
  [format |-> "TD1", code |-> CharsOf("I"), country |-> CharsOf("UTO"), last |-> CharsOf("DE BOIZ"),
   first |-> CharsOf("ANA BO"), number |-> CharsOf(number), nationality |-> CharsOf("UTO"), sex |-> "F",
   birth |-> Day(1980, 12, 18), expiry |-> Day(2031, 8, 20), optional |-> <<>>, optional2 |-> <<>>,
   straight |-> FALSE, blank |-> FALSE, issue |-> Day(2026, 1, 1)]

MCHolders == {Holder(n) : n \in {"D23145890", "D234567890", "D2345678901"}}
=============================================================================
