----------------------------- MODULE BacSession -----------------------------
(***************************************************************************)
(* The BAC handshake: BacSession, driven by a caller that may call next    *)
(* and feed_response in any order and feed any response, against a chip    *)
(* and a channel that may lose, delay and replay.                          *)
(*                                                                         *)
(* A session object is numbered; the number stands for its RND.IFD and its *)
(* K.IFD, which are drawn together and are fresh per object.  A challenge  *)
(* of the chip is numbered likewise, and so is each K.ICC it draws.  What  *)
(* is encrypted and MACed under the access key is a record naming that     *)
(* key: a chip or a reader with the other key cannot make or verify it.    *)
(***************************************************************************)
EXTENDS Handshake

CONSTANTS
  MaxAttempts,    \* bound: BacSession objects created one after the other
  MaxChallenges   \* bound: challenges the chip hands out

BacConstants ==
  MaxAttempts \in Nat \ {0} /\ MaxChallenges \in Nat

VARIABLES
  rndIcc,     \* the challenge stored in state, 0 if none
  challenge,  \* the chip's outstanding challenge, 0 if none
  drawn       \* number of challenges drawn

sessionVars == <<attempt, key, state, rndIcc, session, taken, sent>>
chipVars == <<challenge, drawn, agreed, air>>
vars == <<sessionVars, chipVars>>

-----------------------------------------------------------------------------

Attempt == 1 .. MaxAttempts
Challenge == 1 .. MaxChallenges
DBAKey == {"right", "wrong"}
State == {"Start", "WaitingForChallenge", "ReadyForExternalAuth",
          "WaitingForAuth", "Completed", "Taken", "Failed"}

\* Session keys come from K.IFD XOR K.ICC, the counter from the two RNDs.
Session == [kifd : Attempt, kicc : 0 .. MaxChallenges,
            ssc : [icc : 0 .. MaxChallenges, ifd : Attempt]]
NoSession == [kifd |-> 0, kicc |-> 0, ssc |-> [icc |-> 0, ifd |-> 0]]

GetChallenge(a) == [ins |-> "GetChallenge", from |-> a]
ExternalAuth(a, k, icc) ==
  [ins |-> "ExternalAuthenticate", from |-> a, key |-> k, icc |-> icc]

\* 8 bytes, unprotected: 0 is a challenge altered on the way.
ChallengeData(c) == [len |-> 8, icc |-> c]
\* E.ICC || M.ICC, 40 bytes.
AuthData(a, c) == [len |-> 40, key |-> "right", ifd |-> a, kicc |-> c]

\* What the channel can make of 40 bytes without the access key: in CBC mode
\* the last blocks (K.ICC) can change under an intact RND.IFD, but no MAC fits
\* any more; and the reader's own cryptogram, sent back to it, has a MAC that
\* fits and RND.IC where RND.IFD belongs.
Altered(r) == [r EXCEPT !.key = "none", !.kicc = 0]
Reflected(x) == [len |-> 40, key |-> x.key, ifd |-> 0, kicc |-> 0]

\* Responses that carry no usable data: a status other than 9000, an empty
\* body, a body of another length, a MAC that does not verify.
BadResponse == [len |-> 0]

TypeOK ==
  /\ attempt \in Attempt
  /\ key \in DBAKey
  /\ state \in State
  /\ rndIcc \in 0 .. MaxChallenges
  /\ session \in Session \cup {NoSession}
  /\ session # NoSession <=> state = "Completed"
  /\ taken \in [Attempt -> Nat]
  /\ challenge \in 0 .. drawn
  /\ drawn \in 0 .. MaxChallenges
  /\ agreed \subseteq Session

Init ==
  /\ attempt = 1
  /\ key \in DBAKey
  /\ state = "Start"
  /\ rndIcc = 0
  /\ session = NoSession
  /\ taken = [a \in Attempt |-> 0]
  /\ sent = {}
  /\ challenge = 0
  /\ drawn = 0
  /\ agreed = {}
  /\ air = {}

Waiting == state \in {"WaitingForChallenge", "WaitingForAuth"}

-----------------------------------------------------------------------------
(* BacSession.                                                             *)

\* BacSession::new: the caller abandons the object and makes another.
New(k) ==
  /\ attempt < MaxAttempts
  /\ attempt' = attempt + 1
  /\ key' = k
  /\ state' = "Start"
  /\ rndIcc' = 0
  /\ session' = NoSession
  /\ UNCHANGED <<taken, sent, chipVars>>

\* next() in Start.
NextStart ==
  /\ state = "Start"
  /\ state' = "WaitingForChallenge"
  /\ sent' = sent \cup {GetChallenge(attempt)}
  /\ UNCHANGED <<attempt, key, rndIcc, session, taken, chipVars>>

\* next() in ReadyForExternalAuth.
NextExternalAuth ==
  /\ state = "ReadyForExternalAuth"
  /\ state' = "WaitingForAuth"
  /\ sent' = sent \cup {ExternalAuth(attempt, key, rndIcc)}
  /\ UNCHANGED <<attempt, key, rndIcc, session, taken, chipVars>>

\* next() in Completed(Some): the session is moved out of the slot.
NextDone ==
  /\ state = "Completed"
  /\ state' = "Taken"
  /\ taken' = [taken EXCEPT ![attempt] = @ + 1]
  /\ session' = NoSession
  /\ UNCHANGED <<attempt, key, rndIcc, sent, chipVars>>

\* handle_challenge checks the length and nothing else.
AcceptsChallenge(r) == state = "WaitingForChallenge" /\ r.len = 8

\* Faulty: M.ICC is not verified.
AcceptsAuthUnverified(r) ==
  state = "WaitingForAuth" /\ r.len = 40 /\ r.ifd = attempt

\* handle_auth: length, MAC under the access key, RND.IFD.
AcceptsAuth(r) ==
  /\ state = "WaitingForAuth"
  /\ r.len = 40
  /\ r.key = key
  /\ r.ifd = attempt

\* feed_response, when the response is what the state waits for ...
FeedChallenge(r) ==
  /\ AcceptsChallenge(r)
  /\ state' = "ReadyForExternalAuth"
  /\ rndIcc' = r.icc
  /\ UNCHANGED <<attempt, key, session, taken, sent, chipVars>>

FeedAuth(r) ==
  /\ AcceptsAuth(r)
  /\ state' = "Completed"
  /\ session' = [kifd |-> attempt, kicc |-> r.kicc,
            ssc |-> [icc |-> rndIcc, ifd |-> attempt]]
  /\ UNCHANGED <<attempt, key, rndIcc, taken, sent, chipVars>>

\* ... and when it is not: "any failure poisons the session".
FeedBad(r) ==
  /\ Waiting
  /\ ~AcceptsChallenge(r) /\ ~AcceptsAuth(r)
  /\ state' = "Failed"
  /\ UNCHANGED <<attempt, key, rndIcc, session, taken, sent, chipVars>>

Responses ==
  air \cup {BadResponse, ChallengeData(0)}
      \cup {Altered(r) : r \in {q \in air : q.len = 40}}
      \cup {Reflected(x) : x \in {y \in sent : y.ins = "ExternalAuthenticate"}}

Caller ==
  \/ \E k \in DBAKey : New(k)
  \/ NextStart \/ NextExternalAuth \/ NextDone
  \/ \E r \in Responses :
       FeedChallenge(r) \/ FeedAuth(r) \/ FeedBad(r)

-----------------------------------------------------------------------------
(* The chip (external).  It takes an APDU whenever it arrives.             *)

ChipChallenge ==
  /\ \E a \in Attempt : GetChallenge(a) \in sent
  /\ drawn < MaxChallenges
  /\ drawn' = drawn + 1
  /\ challenge' = drawn + 1
  /\ air' = air \cup {ChallengeData(drawn + 1)}
  /\ UNCHANGED <<sessionVars, agreed>>

\* It verifies M.IFD and its own RND.IC, draws K.ICC and opens the session.
ChipAuth(a) ==
  /\ challenge # 0
  /\ ExternalAuth(a, "right", challenge) \in sent
  /\ agreed' = agreed \cup {[kifd |-> a, kicc |-> challenge,
                             ssc |-> [icc |-> challenge, ifd |-> a]]}
  /\ air' = air \cup {AuthData(a, challenge)}
  /\ challenge' = 0
  /\ UNCHANGED <<sessionVars, drawn>>

Chip == ChipChallenge \/ \E a \in Attempt : ChipAuth(a)

Next == Caller \/ Chip

Spec == Init /\ [][Next]_vars
=============================================================================
