---------------------------- MODULE PaceSession ----------------------------
(***************************************************************************)
(* The PACE handshake (generic mapping): PaceSession, driven by a caller   *)
(* that may call next and feed_response in any order, against a chip and a *)
(* channel that may lose, delay and replay, and that may also send the     *)
(* reader's own keys and token back to it.                                 *)
(*                                                                         *)
(* Unlike BacSession there is no Failed state.  Both functions take the    *)
(* state out with mem::replace(.., Start), so a response that is 9000 but  *)
(* no good leaves the machine in Start, ready for another run; a response  *)
(* with any other status is refused before that and leaves it where it is. *)
(*                                                                         *)
(* Keys are abstracted to what they are made of.  A generator is a record  *)
(* of the nonce and the two mapping keys it was mapped with; an ephemeral  *)
(* public key is a generator and a fresh secret; the shared secret is the  *)
(* two secrets and the generator of the other side's public key, so both   *)
(* sides hold the same one exactly when they mapped to the same generator. *)
(* The reader's secrets are positive numbers, the chip's negative ones.    *)
(***************************************************************************)
EXTENDS Handshake, Integers

CONSTANTS
  MaxAttempts,   \* bound: PaceSession objects created one after the other
  MaxSecrets,    \* bound: key pairs the reader generates
  MaxChipRuns    \* bound: nonces the chip draws

PaceConstants ==
  MaxAttempts \in Nat \ {0} /\ MaxSecrets \in Nat /\ MaxChipRuns \in Nat

VARIABLES
  nonce,     \* the decrypted nonce carried by the state, 0 if garbled
  main,      \* engine: the mapping secret
  eph,       \* engine: the ephemeral key, [gen, secret]
  iccEph,    \* the chip's ephemeral key carried by ReadyForStep4
  secrets,   \* number of secrets generated so far
  chip,      \* the chip's protocol state
  runs       \* nonces the chip has drawn; also its keys of the latest run

sessionVars == <<attempt, key, state, nonce, main, eph, session, iccEph,
                 secrets, taken, sent>>
chipVars == <<chip, runs, agreed, air>>
vars == <<sessionVars, chipVars>>

-----------------------------------------------------------------------------

Attempt == 1 .. MaxAttempts
AccessKey == {"right", "wrong"}
Waits == {"WaitingForMseSetAt", "WaitingForStep1", "WaitingForStep2",
          "WaitingForStep3", "WaitingForStep4"}
State == Waits \cup {"Start", "ReadyForStep1", "ReadyForStep2",
                     "ReadyForStep3", "ReadyForStep4", "Completed", "Taken"}

Gen(n, t, c) == [nonce |-> n, t |-> t, c |-> c]
Eph(g, x) == [gen |-> g, secret |-> x]
\* What the holder of secret t computes from the public key of secret c.
Shared(t, c, g) == [t |-> t, c |-> c, gen |-> g]
Token(k, over) == [key |-> k, over |-> over]

NoGen == Gen(0, 0, 0)
NoEph == Eph(NoGen, 0)
NoShared == Shared(0, 0, NoGen)

Mse == [ins |-> "MSE"]
Ga1 == [ins |-> "GA1"]
Ga2(t) == [ins |-> "GA2", pub |-> t]
Ga3(e) == [ins |-> "GA3", eph |-> e]
Ga4(t) == [ins |-> "GA4", token |-> t]

\* Success with no body, or one the step cannot use.
Empty == [step |-> 0]
Nonce(c) == [step |-> 1, nonce |-> c]
\* The parser of a public key takes the tag of either step, 82 or 84.
PublicKey(e) == [step |-> 2, eph |-> e]
AuthToken(t) == [step |-> 4, token |-> t]

\* What the reader sent, with the tags of a response around it.
Reflected ==
  {PublicKey(Eph(NoGen, x.pub)) : x \in {y \in sent : y.ins = "GA2"}}
    \cup {PublicKey(x.eph) : x \in {y \in sent : y.ins = "GA3"}}
    \cup {AuthToken(x.token) : x \in {y \in sent : y.ins = "GA4"}}

\* The chip's key pairs of its n-th run: one to map with, one to agree with.
IccMapping(n) == -n
IccEphemeral(n) == -(MaxChipRuns + n)

TypeOK ==
  /\ attempt \in Attempt
  /\ key \in AccessKey
  /\ state \in State
  /\ nonce \in 0 .. runs
  /\ main \in 0 .. secrets
  /\ eph.secret \in 0 .. secrets
  /\ secrets \in 0 .. MaxSecrets
  /\ runs \in 0 .. MaxChipRuns
  /\ taken \in [Attempt -> Nat]
  /\ session # NoShared => state \in {"ReadyForStep4", "WaitingForStep4", "Completed"}

\* Where the chip is in a run, and the generator and the keys it has by then.
ChipRun(at, gen, k) == [at |-> at, gen |-> gen, key |-> k]
NoChipRun == ChipRun("idle", NoGen, NoShared)

Init ==
  /\ attempt = 1
  /\ key \in AccessKey
  /\ state = "Start"
  /\ nonce = 0 /\ main = 0 /\ eph = NoEph /\ session = NoShared /\ iccEph = NoEph
  /\ secrets = 0
  /\ taken = [a \in Attempt |-> 0]
  /\ sent = {}
  /\ chip = NoChipRun
  /\ runs = 0
  /\ agreed = {}
  /\ air = {}

-----------------------------------------------------------------------------
(* PaceSession::next.  What the state carried is dropped when it is left.  *)

Advance(from, to, apdu) ==
  /\ state = from
  /\ state' = to
  /\ sent' = sent \cup {apdu}

\* PaceSession::new: the caller abandons the object and makes another.
New(k) ==
  /\ attempt < MaxAttempts
  /\ attempt' = attempt + 1
  /\ key' = k
  /\ state' = "Start"
  /\ nonce' = 0 /\ main' = 0 /\ eph' = NoEph /\ session' = NoShared /\ iccEph' = NoEph
  /\ UNCHANGED <<secrets, taken, sent, chipVars>>

NextStart ==
  /\ Advance("Start", "WaitingForMseSetAt", Mse)
  /\ UNCHANGED <<attempt, key, nonce, main, eph, session, iccEph, secrets, taken, chipVars>>

NextStep1 ==
  /\ Advance("ReadyForStep1", "WaitingForStep1", Ga1)
  /\ UNCHANGED <<attempt, key, nonce, main, eph, session, iccEph, secrets, taken, chipVars>>

\* Faulty: a mapping key the engine already has is kept.
NextStep2Reusing ==
  LET fresh == IF main = 0 THEN secrets + 1 ELSE main IN
  /\ secrets < MaxSecrets
  /\ secrets' = secrets + 1
  /\ main' = fresh
  /\ Advance("ReadyForStep2", "WaitingForStep2", Ga2(fresh))
  /\ UNCHANGED <<attempt, key, nonce, eph, session, iccEph, taken, chipVars>>

\* generate_main_key_pair draws a new mapping secret, whatever there was.
NextStep2 ==
  /\ secrets < MaxSecrets
  /\ secrets' = secrets + 1
  /\ main' = secrets + 1
  /\ Advance("ReadyForStep2", "WaitingForStep2", Ga2(secrets + 1))
  /\ UNCHANGED <<attempt, key, nonce, eph, session, iccEph, taken, chipVars>>

NextStep3 ==
  /\ Advance("ReadyForStep3", "WaitingForStep3", Ga3(eph))
  /\ UNCHANGED <<attempt, key, nonce, main, eph, session, iccEph, secrets, taken, chipVars>>

\* T_IFD is computed over the chip's ephemeral key.
NextStep4 ==
  /\ Advance("ReadyForStep4", "WaitingForStep4", Ga4(Token(session, iccEph)))
  /\ iccEph' = NoEph
  /\ UNCHANGED <<attempt, key, nonce, main, eph, session, secrets, taken, chipVars>>

\* next() in Completed(Some): the session is moved out of the slot.
NextDone ==
  /\ state = "Completed"
  /\ state' = "Taken"
  /\ session' = NoShared
  /\ taken' = [taken EXCEPT ![attempt] = @ + 1]
  /\ UNCHANGED <<attempt, key, nonce, main, eph, iccEph, secrets, sent, chipVars>>

-----------------------------------------------------------------------------
(* PaceSession::feed_response, with a response whose status is 9000.  (Any *)
(* other is refused first, and changes nothing.)                           *)

\* MSE:Set AT has no data: the status is all there is to it.
FeedMseSetAt ==
  /\ state = "WaitingForMseSetAt"
  /\ state' = "ReadyForStep1"
  /\ UNCHANGED <<attempt, key, nonce, main, eph, session, iccEph, secrets, taken, sent, chipVars>>

\* The nonce is decrypted with K_pi: with another key, to something else.
FeedStep1(r) ==
  /\ state = "WaitingForStep1" /\ r.step = 1
  /\ state' = "ReadyForStep2"
  /\ nonce' = IF key = "right" THEN r.nonce ELSE 0
  /\ UNCHANGED <<attempt, key, main, eph, session, iccEph, secrets, taken, sent, chipVars>>

\* Map the generator, draw the ephemeral key on it.
FeedStep2(r) ==
  /\ state = "WaitingForStep2" /\ r.step = 2
  /\ secrets < MaxSecrets
  /\ state' = "ReadyForStep3"
  /\ secrets' = secrets + 1
  /\ eph' = Eph(Gen(nonce, main, r.eph.secret), secrets + 1)
  /\ nonce' = 0
  /\ UNCHANGED <<attempt, key, main, session, iccEph, taken, sent, chipVars>>

\* The chip's key is not compared with the reader's own.
FeedStep3(r) ==
  /\ state = "WaitingForStep3" /\ r.step = 2
  /\ state' = "ReadyForStep4"
  /\ session' = Shared(eph.secret, r.eph.secret, r.eph.gen)
  /\ iccEph' = r.eph
  /\ UNCHANGED <<attempt, key, nonce, main, eph, secrets, taken, sent, chipVars>>

\* Faulty: any token under the session's key will do, T_IFD itself included.
TokenMatchesAnyKey(r) == r.token.key = session

\* T_IC must be the token over the terminal's own ephemeral key.
TokenMatches(r) == r.token = Token(session, eph)

FeedStep4(r) ==
  /\ state = "WaitingForStep4" /\ r.step = 4 /\ TokenMatches(r)
  /\ state' = "Completed"
  /\ UNCHANGED <<attempt, key, nonce, main, eph, session, iccEph, secrets, taken, sent, chipVars>>

\* Anything else while waiting: an error, and the machine is in Start.
FeedBad(r) ==
  /\ \/ state = "WaitingForStep1" /\ r.step # 1
     \/ state = "WaitingForStep2" /\ r.step # 2
     \/ state = "WaitingForStep3" /\ r.step # 2
     \/ state = "WaitingForStep4" /\ (r.step = 4 => ~TokenMatches(r))
  /\ state' = "Start"
  /\ nonce' = 0
  /\ session' = NoShared
  /\ UNCHANGED <<attempt, key, main, eph, iccEph, secrets, taken, sent, chipVars>>

Responses == air \cup {Empty} \cup Reflected

Caller ==
  \/ \E k \in AccessKey : New(k)
  \/ NextStart \/ NextStep1 \/ NextStep2 \/ NextStep3 \/ NextStep4 \/ NextDone
  \/ FeedMseSetAt
  \/ \E r \in Responses :
       FeedStep1(r) \/ FeedStep2(r) \/ FeedStep3(r) \/ FeedStep4(r) \/ FeedBad(r)

-----------------------------------------------------------------------------
(* The chip (external).  It takes any APDU that was ever sent, when it can.*)

ChipMse ==
  /\ Mse \in sent /\ chip.at # "set"
  /\ chip' = ChipRun("set", NoGen, NoShared)
  /\ UNCHANGED <<sessionVars, runs, agreed, air>>

ChipStep1 ==
  /\ chip.at = "set" /\ Ga1 \in sent
  /\ runs < MaxChipRuns
  /\ runs' = runs + 1
  /\ chip' = ChipRun("nonce", chip.gen, chip.key)
  /\ air' = air \cup {Nonce(runs + 1)}
  /\ UNCHANGED <<sessionVars, agreed>>

ChipStep2 ==
  /\ chip.at = "nonce"
  /\ \E cmd \in sent :
       /\ cmd.ins = "GA2"
       /\ chip' = ChipRun("mapped", Gen(runs, cmd.pub, IccMapping(runs)), chip.key)
  /\ air' = air \cup {PublicKey(Eph(NoGen, IccMapping(runs)))}
  /\ UNCHANGED <<sessionVars, runs, agreed>>

ChipStep3 ==
  /\ chip.at = "mapped"
  /\ \E cmd \in sent :
       /\ cmd.ins = "GA3"
       /\ chip' = ChipRun("keyed", chip.gen, Shared(cmd.eph.secret, IccEphemeral(runs), cmd.eph.gen))
  /\ air' = air \cup {PublicKey(Eph(chip.gen, IccEphemeral(runs)))}
  /\ UNCHANGED <<sessionVars, runs, agreed>>

\* It verifies T_IFD before it gives T_IC away.
ChipStep4 ==
  /\ chip.at = "keyed"
  /\ Ga4(Token(chip.key, Eph(chip.gen, IccEphemeral(runs)))) \in sent
  /\ chip' = NoChipRun
  /\ agreed' = agreed \cup {chip.key}
  /\ air' = air \cup {AuthToken(Token(chip.key, Eph(chip.key.gen, chip.key.t)))}
  /\ UNCHANGED <<sessionVars, runs>>

Chip == ChipMse \/ ChipStep1 \/ ChipStep2 \/ ChipStep3 \/ ChipStep4

Next == Caller \/ Chip

Spec == Init /\ [][Next]_vars
=============================================================================
