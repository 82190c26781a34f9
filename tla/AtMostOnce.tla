----------------------------- MODULE AtMostOnce -----------------------------
(***************************************************************************)
(* What secure messaging promises the layers above it: a remote procedure  *)
(* call that is carried out at most once, in the order of the calls, and   *)
(* whose reply - if one is accepted at all - is the reply to the call that *)
(* is outstanding, with the status the chip gave it.  A call may always    *)
(* end without a reply; that is a stuttering step here.                    *)
(***************************************************************************)
EXTENDS Naturals, Sequences

CONSTANT Call     \* call numbers, in the order they can be made

VARIABLES
  issued,     \* the calls made
  executed,   \* the calls carried out, in order
  outcome,    \* outcome[c]: how call c went at the chip
  replies     \* the accepted replies, as [call, from, status]

vars == <<issued, executed, outcome, replies>>

Init ==
  /\ issued = {}
  /\ executed = <<>>
  /\ outcome = [c \in Call |-> "nothing"]
  /\ replies = {}

Invoke(c) ==
  /\ \A d \in issued : d < c
  /\ issued' = issued \cup {c}
  /\ UNCHANGED <<executed, outcome, replies>>

Execute(c, status) ==
  /\ c \in issued
  /\ \A i \in DOMAIN executed : executed[i] < c
  /\ executed' = Append(executed, c)
  /\ outcome' = [outcome EXCEPT ![c] = status]
  /\ UNCHANGED <<issued, replies>>

Reply(c) ==
  /\ c \in issued
  /\ \A d \in issued : d <= c
  /\ outcome[c] # "nothing"
  /\ \A r \in replies : r.call # c
  /\ replies' = replies \cup {[call |-> c, from |-> c, status |-> outcome[c]]}
  /\ UNCHANGED <<issued, executed, outcome>>

Next ==
  \E c \in Call :
    \/ Invoke(c)
    \/ \E status \in {"ok", "error"} : Execute(c, status)
    \/ Reply(c)

Spec == Init /\ [][Next]_vars
=============================================================================
