------------------------------- MODULE FoldOver -------------------------------
(***************************************************************************)
(* A fold whose step is a function, where SequencesExt's FoldLeft takes an *)
(* operator: what a function computes over a sequence of any length can be *)
(* proved, see FoldLemmas.                                                 *)
(***************************************************************************)
EXTENDS Naturals, Sequences

\* step[... step[step[x][s[1]]][s[2]] ...][s[Len(s)]]
FoldOver(step, x, s) ==
  LET after[i \in 0 .. Len(s)] == IF i = 0 THEN x ELSE step[after[i - 1]][s[i]]
  IN  after[Len(s)]
===============================================================================
