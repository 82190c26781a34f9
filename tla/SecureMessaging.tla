-------------------------- MODULE SecureMessaging --------------------------
(***************************************************************************)
(* One reader talking to one chip through MrtdApi::transceive_cmd, with    *)
(* MrtdSM protecting the APDUs once a session is established.              *)
(*                                                                         *)
(* A cryptogram is abstracted to what its MAC binds: the session key, the  *)
(* send sequence counter it was computed under, and the call it belongs    *)
(* to.  Keys are numbered by the order they are agreed; key 0 is "no       *)
(* secure messaging".  The channel may lose, delay and reorder commands    *)
(* (a call that timed out may still reach the chip), and may hand the      *)
(* reader any response the chip ever gave, a damaged one, a bare status    *)
(* word, or none.  The chip is external: ICAO 9303-11 secure messaging as  *)
(* the code relies on it.                                                  *)
(***************************************************************************)
EXTENDS Naturals, Sequences

CONSTANTS
  Modulus,      \* 2^bit_size of the counter (2^64 for 3DES, 2^128 for AES)
  Starts,       \* the counters a handshake may agree on
  MaxCalls,     \* bound: commands sent
  MaxSessions   \* bound: session keys agreed

\* No counter value comes round twice within the calls considered.
ASSUME SmConstants ==
  /\ Modulus \in Nat \ {0}
  /\ MaxCalls \in Nat
  /\ MaxSessions \in Nat
  /\ 2 * MaxCalls + 2 < Modulus
  /\ Starts \subseteq 0 .. Modulus - 1

VARIABLES
  sm,        \* MrtdApi::sm - [key, ssc], key 0 when there is none
  chip,      \* the chip's session, likewise
  starts,    \* starts[k]: the counter session k began with
  calls,     \* number of transceive_cmd calls so far
  waiting,   \* a call is inside Transceiver::transceive
  tag,       \* tag[c]: the [key, ssc] command c was protected under
  onWire,    \* the commands that have not reached the chip
  air,       \* every response the chip has given
  did,       \* did[c]: what the chip did for command c
  executed,  \* the protected commands the chip carried out, in its order
  result,    \* result[c]: what transceive_cmd returned
  answer,    \* answer[c]: the command whose response c was given, 0 if none
  lost       \* a call of this session got no body to verify

readerVars == <<sm, calls, waiting, tag, result, answer, lost>>
chipVars == <<chip, air, did, executed>>
vars == <<readerVars, chipVars, starts, onWire>>

-----------------------------------------------------------------------------

Ssc == 0 .. Modulus - 1
Key == 0 .. MaxSessions
Call == 1 .. MaxCalls
Session == [key : Key, ssc : Ssc]
Status == {"ok", "error"}
Response == [call : Call, key : Key, ssc : Ssc, status : Status]

NoSession == [key |-> 0, ssc |-> 0]

\* A body no MAC verifies: damaged, truncated, or a data object missing.
Damaged == [call |-> 0, key |-> 0, ssc |-> 0, status |-> "ok"]

TypeOK ==
  /\ sm \in Session
  /\ chip \in Session
  /\ starts \in Seq(Ssc) /\ Len(starts) <= MaxSessions
  /\ calls \in 0 .. MaxCalls
  /\ waiting \in BOOLEAN
  /\ tag \in [Call -> Session]
  /\ onWire \subseteq Call
  /\ air \subseteq Response
  /\ did \in [Call -> Status \cup {"nothing"}]
  /\ executed \in Seq(Call)
  /\ result \in [Call -> Status \cup {"none", "failed"}]
  /\ answer \in [Call -> Call \cup {0}]
  /\ lost \in BOOLEAN

Init ==
  /\ sm = NoSession
  /\ chip = NoSession
  /\ starts = <<>>
  /\ calls = 0
  /\ waiting = FALSE
  /\ tag = [c \in Call |-> NoSession]
  /\ onWire = {}
  /\ air = {}
  /\ did = [c \in Call |-> "nothing"]
  /\ executed = <<>>
  /\ result = [c \in Call |-> "none"]
  /\ answer = [c \in Call |-> 0]
  /\ lost = FALSE

\* Faulty: the mask of Ssc::increment forgotten.
IncrementUnmasked(v) == v + 1

\* Ssc::increment wraps at 2^bit_size.
Increment(v) == IF v + 1 = Modulus THEN 0 ELSE v + 1

HasSm == sm.key # 0

-----------------------------------------------------------------------------
(* The reader.                                                             *)

\* The whole handshake, as MrtdApi sees it: self.sm is replaced only when the
\* session machine says Done, which it does after mutual authentication.
Establish(start) ==
  LET session == [key |-> Len(starts) + 1, ssc |-> start] IN
  /\ ~waiting
  /\ Len(starts) < MaxSessions
  /\ starts' = Append(starts, start)
  /\ sm' = session
  /\ chip' = session
  /\ lost' = FALSE
  /\ UNCHANGED <<calls, waiting, tag, onWire, air, did, executed, result, answer>>

\* A handshake that fails leaves the reader's old session in place, while the
\* chip may have dropped its session or even completed a new one.
EstablishFails(start) ==
  /\ ~waiting
  /\ Len(starts) < MaxSessions
  /\ starts' = Append(starts, start)
  /\ chip' \in {chip, NoSession, [key |-> Len(starts) + 1, ssc |-> start]}
  /\ UNCHANGED <<readerVars, onWire, air, did, executed>>

\* MrtdApi::clear_sm.
ClearSm ==
  /\ ~waiting /\ HasSm
  /\ sm' = NoSession
  /\ UNCHANGED <<calls, waiting, tag, result, answer, lost, chipVars, starts, onWire>>

\* transceive_cmd up to the transceiver: the counter is incremented before
\* the command is protected; without a session the command goes plain.
TransceiveCmd ==
  LET protected == IF HasSm THEN [sm EXCEPT !.ssc = Increment(@)] ELSE NoSession IN
  /\ ~waiting
  /\ calls < MaxCalls
  /\ calls' = calls + 1
  /\ waiting' = TRUE
  /\ sm' = protected
  /\ tag' = [tag EXCEPT ![calls + 1] = protected]
  /\ onWire' = onWire \cup {calls + 1}
  /\ UNCHANGED <<result, answer, lost, chipVars, starts>>

\* The transceiver fails: the counter keeps its increment.
ReturnTransport ==
  /\ waiting
  /\ waiting' = FALSE
  /\ result' = [result EXCEPT ![calls] = "failed"]
  /\ lost' = TRUE
  /\ UNCHANGED <<sm, calls, tag, answer, chipVars, starts, onWire>>

\* Faulty: nothing to verify is taken for verified.
ReturnBareTrusting(status) ==
  /\ waiting
  /\ waiting' = FALSE
  /\ result' = [result EXCEPT ![calls] = status]
  /\ lost' = TRUE
  /\ UNCHANGED <<sm, calls, tag, answer, chipVars, starts, onWire>>

\* A response without a body.  Under secure messaging an unprotected success
\* is refused and an unprotected error is reported as it is; either way the
\* counter stays.
ReturnBare(status) ==
  /\ waiting
  /\ waiting' = FALSE
  /\ result' = [result EXCEPT ![calls] =
                  IF HasSm /\ status = "ok" THEN "failed" ELSE status]
  /\ lost' = TRUE
  /\ UNCHANGED <<sm, calls, tag, answer, chipVars, starts, onWire>>

\* Faulty: the counter is left out of what the response MAC covers.
ReturnBodyUncounted(r, trailer) ==
  LET expected == [sm EXCEPT !.ssc = Increment(@)]
      taken == HasSm => r.key = expected.key
      status == IF HasSm THEN r.status ELSE trailer
  IN /\ waiting
     /\ waiting' = FALSE
     /\ sm' = IF HasSm THEN expected ELSE sm
     /\ result' = [result EXCEPT ![calls] = IF taken THEN status ELSE "failed"]
     /\ answer' = [answer EXCEPT ![calls] = IF taken THEN r.call ELSE 0]
     /\ UNCHANGED <<calls, tag, lost, chipVars, starts, onWire>>

\* Faulty: the status is the trailer's, which no MAC covers.
ReturnBodyByTrailer(r, trailer) ==
  LET expected == [sm EXCEPT !.ssc = Increment(@)]
      taken == HasSm => r.key = expected.key /\ r.ssc = expected.ssc
      status == trailer
  IN /\ waiting
     /\ waiting' = FALSE
     /\ sm' = IF HasSm THEN expected ELSE sm
     /\ result' = [result EXCEPT ![calls] = IF taken THEN status ELSE "failed"]
     /\ answer' = [answer EXCEPT ![calls] = IF taken THEN r.call ELSE 0]
     /\ UNCHANGED <<calls, tag, lost, chipVars, starts, onWire>>

\* A response with a body.  unprotect increments the counter, then verifies
\* the MAC under it, and takes the status from DO'99', not from the trailer.
ReturnBody(r, trailer) ==
  LET expected == [sm EXCEPT !.ssc = Increment(@)]
      taken == HasSm => r.key = expected.key /\ r.ssc = expected.ssc
      status == IF HasSm THEN r.status ELSE trailer
  IN /\ waiting
     /\ waiting' = FALSE
     /\ sm' = IF HasSm THEN expected ELSE sm
     /\ result' = [result EXCEPT ![calls] = IF taken THEN status ELSE "failed"]
     /\ answer' = [answer EXCEPT ![calls] = IF taken THEN r.call ELSE 0]
     /\ UNCHANGED <<calls, tag, lost, chipVars, starts, onWire>>

-----------------------------------------------------------------------------
(* The chip (external).                                                    *)

\* The chip's counter has the width of its block cipher (ISO/IEC 7816-4).
ChipIncrement(v) == IF v + 1 = Modulus THEN 0 ELSE v + 1

\* A protected command that verifies under the next counter value.
Verifies(c) ==
  /\ tag[c].key # 0
  /\ tag[c].key = chip.key
  /\ tag[c].ssc = ChipIncrement(chip.ssc)

\* It is carried out, and answered under the counter value after that.
ChipExecute(c, status) ==
  LET ssc == ChipIncrement(tag[c].ssc) IN
  /\ Verifies(c)
  /\ chip' = [chip EXCEPT !.ssc = ssc]
  /\ did' = [did EXCEPT ![c] = status]
  /\ executed' = Append(executed, c)
  /\ air' = air \cup {[call |-> c, key |-> chip.key, ssc |-> ssc, status |-> status]}
  /\ onWire' = onWire \ {c}
  /\ UNCHANGED <<readerVars, starts>>

\* A protected command that does not verify ends the session.
ChipAbort(c) ==
  /\ tag[c].key # 0
  /\ ~Verifies(c)
  /\ chip' = NoSession
  /\ onWire' = onWire \ {c}
  /\ UNCHANGED <<readerVars, air, did, executed, starts>>

\* So does a plain command, which the chip answers in the plain.
ChipPlain(c, status) ==
  /\ tag[c].key = 0
  /\ chip' = NoSession
  /\ did' = [did EXCEPT ![c] = status]
  /\ air' = air \cup {[call |-> c, key |-> 0, ssc |-> 0, status |-> status]}
  /\ onWire' = onWire \ {c}
  /\ UNCHANGED <<readerVars, executed, starts>>

-----------------------------------------------------------------------------

Reader ==
  \/ \E start \in Starts : Establish(start) \/ EstablishFails(start)
  \/ ClearSm
  \/ TransceiveCmd
  \/ ReturnTransport
  \/ \E status \in Status : ReturnBare(status)
  \/ \E r \in air \cup {Damaged}, trailer \in Status : ReturnBody(r, trailer)

Chip ==
  \E c \in onWire :
    \/ ChipAbort(c)
    \/ \E status \in Status : ChipExecute(c, status) \/ ChipPlain(c, status)

Next == Reader \/ Chip

Spec == Init /\ [][Next]_vars

-----------------------------------------------------------------------------
(* Properties.  Guarded(c): call c was made inside a session.              *)

Guarded(c) == tag[c].key # 0

\* The body a guarded call is given is the chip's response to that very
\* call: never to an earlier one, never from an earlier session.
AnswersOwnCall == \A c \in Call : Guarded(c) /\ answer[c] # 0 => answer[c] = c

\* A guarded call that succeeds was carried out by the chip, which said so:
\* neither a stripped wrapper nor an altered trailer counts as success.
SuccessIsAuthentic ==
  \A c \in Call : Guarded(c) /\ result[c] = "ok" => did[c] = "ok"

\* However commands are delayed, the chip carries them out in the order the
\* reader sent them and none of them twice.
InOrderOnce ==
  \A i, j \in DOMAIN executed : i < j => executed[i] < executed[j]

\* While every call got some body back and no earlier command is still on its
\* way, the two counters agree, so the chip of the session takes the next
\* command, also when the counter comes round: a response that fails
\* verification does not end the session, because unprotect increments before
\* it verifies.
Lockstep ==
  (~lost /\ HasSm /\ chip.key = sm.key) =>
    /\ ~waiting /\ onWire = {} => chip.ssc = sm.ssc
    /\ waiting /\ onWire = {calls} => Verifies(calls)

\* At rest the chip's counter is at most one step ahead of the reader's: it
\* has carried out at most one command the reader saw no response to.
ChipAtMostOneAhead ==
  (HasSm /\ chip.key = sm.key) =>
    chip.ssc # Increment(Increment(sm.ssc))

\* Secure messaging implements the at-most-once call.
GuardedCalls == {c \in Call : Guarded(c)}
AcceptedReplies ==
  {[call |-> c, from |-> answer[c], status |-> result[c]] :
     c \in {g \in GuardedCalls : answer[g] # 0}}

Rpc == INSTANCE AtMostOnce WITH
  issued <- GuardedCalls,
  executed <- executed,
  outcome <- [c \in Call |-> IF Guarded(c) THEN did[c] ELSE "nothing"],
  replies <- AcceptedReplies

ImplementsAtMostOnce == Rpc!Spec
=============================================================================
