-------------------------- MODULE BacSessionProofs --------------------------
(***************************************************************************)
(* What BacSession checks, proved for any number of session objects and of *)
(* challenges.                                                             *)
(***************************************************************************)
EXTENDS BacSession, TLAPS

-----------------------------------------------------------------------------
(* The inductive invariant.                                                *)

IsAuth(x) == x.ins = "ExternalAuthenticate"

Requests == {GetChallenge(a) : a \in Attempt}
       \cup {ExternalAuth(a, k, c) : a \in Attempt, k \in DBAKey, c \in 0 .. MaxChallenges}
Answers == {ChallengeData(c) : c \in Challenge}
      \cup {AuthData(a, c) : a \in Attempt, c \in Challenge}

OnTheWay == sent \subseteq Requests /\ air \subseteq Answers

\* The chip answers EXTERNAL AUTHENTICATE only with the session it opened, to
\* a request for the challenge it had given out, under the right key.
ChipAnswers ==
  \A a \in Attempt, c \in Challenge :
    AuthData(a, c) \in air =>
      /\ ExternalAuth(a, "right", c) \in sent
      /\ [kifd |-> a, kicc |-> c, ssc |-> [icc |-> c, ifd |-> a]] \in agreed

\* What was sent came from this object or an earlier one; from this one, it
\* is the one request that its state remembers.
OwnRequest ==
  \A x \in sent : IsAuth(x) =>
    /\ x.from <= attempt
    /\ x.from = attempt =>
         /\ x = ExternalAuth(attempt, key, rndIcc)
         /\ state \notin {"Start", "WaitingForChallenge", "ReadyForExternalAuth"}

\* An object authenticates once.
OneRequestEach ==
  \A x, y \in sent : IsAuth(x) /\ IsAuth(y) /\ x.from = y.from => x = y

\* Earlier objects have given out their session once at the most, and this
\* one has not, unless its slot is empty.
Given ==
  \A a \in Attempt : taken[a] = 0 \/ (taken[a] = 1 /\ (a < attempt \/ (a = attempt /\ state = "Taken")))

IInv == BacConstants /\ TypeOK /\ OnTheWay /\ ChipAnswers /\ OwnRequest /\ Given /\ SessionAgreement /\ OneRequestEach

-----------------------------------------------------------------------------
(* Requests and responses by their fields.                                 *)

\* The two commands differ in their instruction and each names its object.
LEMMA RequestFields ==
  ASSUME NEW x \in Requests
  PROVE  /\ x.from \in Attempt
         /\ IsAuth(x) => \E a \in Attempt, k \in DBAKey, c \in 0 .. MaxChallenges : x = ExternalAuth(a, k, c)
<1>1. CASE x \in {GetChallenge(a) : a \in Attempt}
  <2>1. PICK a \in Attempt : x = GetChallenge(a)
    BY <1>1
  <2>2. x.from = a /\ ~IsAuth(x)
    BY <2>1 DEF GetChallenge, IsAuth
  <2> QED
    BY <2>2
<1>2. CASE x \in {ExternalAuth(a, k, c) : a \in Attempt, k \in DBAKey, c \in 0 .. MaxChallenges}
  <2>1. PICK a \in Attempt, k \in DBAKey, c \in 0 .. MaxChallenges : x = ExternalAuth(a, k, c)
    BY <1>2
  <2>2. x.from = a
    BY <2>1 DEF ExternalAuth
  <2> QED
    BY <2>1, <2>2
<1> QED
  BY <1>1, <1>2 DEF Requests

\* The fields of what is sent and answered.
LEMMA Fields ==
  ASSUME NEW a, NEW k, NEW c
  PROVE  /\ ~IsAuth(GetChallenge(a)) /\ GetChallenge(a).from = a
         /\ IsAuth(ExternalAuth(a, k, c)) /\ ExternalAuth(a, k, c).from = a
         /\ ChallengeData(c).len = 8 /\ ChallengeData(c).icc = c
         /\ AuthData(a, c).len = 40 /\ AuthData(a, c).ifd = a /\ AuthData(a, c).kicc = c
         /\ AuthData(a, c).key = "right"
  BY DEF IsAuth, GetChallenge, ExternalAuth, ChallengeData, AuthData

-----------------------------------------------------------------------------
(* A response that completes the handshake is the chip's own: an altered   *)
(* one has no key, and a reflected one does not carry RND.IFD.             *)

\* handle_auth accepts nothing that the channel could make by itself.
LEMMA AcceptedIsTheChips ==
  ASSUME IInv, NEW r \in Responses, AcceptsAuth(r)
  PROVE  \E c \in Challenge : r = AuthData(attempt, c) /\ r \in air /\ key = "right"
<1> USE DEF IInv
<1>1. r.len = 40 /\ r.key = key /\ r.ifd = attempt
  BY DEF AcceptsAuth
<1>2. key \in DBAKey /\ attempt \in Attempt /\ attempt # 0
  BY DEF TypeOK, Attempt
<1>3. r \notin {BadResponse, ChallengeData(0)}
  BY <1>1 DEF BadResponse, ChallengeData
<1>4. r \notin {Altered(q) : q \in {q \in air : q.len = 40}}
  <2> SUFFICES ASSUME NEW q \in air, q.len = 40, r = Altered(q) PROVE FALSE
    OBVIOUS
  <2>1. \E a \in Attempt, c \in Challenge : q = AuthData(a, c)
    BY DEF OnTheWay, Answers, ChallengeData, AuthData
  <2>2. r.key = "none"
    BY <2>1 DEF Altered, AuthData
  <2> QED
    BY <2>2, <1>1, <1>2 DEF DBAKey
<1>5. r \notin {Reflected(x) : x \in {y \in sent : y.ins = "ExternalAuthenticate"}}
  <2> SUFFICES ASSUME NEW x \in sent, r = Reflected(x) PROVE FALSE
    OBVIOUS
  <2>1. r.ifd = 0
    BY DEF Reflected
  <2> QED
    BY <1>1, <1>2, <2>1
<1>6. r \in air
  BY <1>3, <1>4, <1>5 DEF Responses
<1>7. PICK a \in Attempt, c \in Challenge : r = AuthData(a, c)
  BY <1>1, <1>6 DEF OnTheWay, Answers, ChallengeData
<1>8. a = attempt /\ key = "right"
  BY <1>1, <1>7 DEF AuthData
<1> QED
  BY <1>6, <1>7, <1>8

-----------------------------------------------------------------------------
(* The invariant holds.                                                    *)

LEMMA Initially ==
  ASSUME BacConstants, Init
  PROVE  IInv
<1>1. TypeOK
  BY DEF BacConstants, Init, TypeOK, Attempt, State, Session, NoSession
<1> QED
  BY <1>1 DEF Init, IInv, OnTheWay, ChipAnswers, OwnRequest, Given, SessionAgreement,
              OneRequestEach

LEMMA Inductive == IInv /\ [Next]_vars => IInv'
<1> SUFFICES ASSUME IInv, [Next]_vars PROVE IInv'
  OBVIOUS
<1>c. MaxAttempts \in Nat \ {0} /\ MaxChallenges \in Nat
  BY DEF IInv, BacConstants
<1>d. BacConstants /\ BacConstants'
  BY DEF IInv, BacConstants
<1>t. TypeOK /\ OnTheWay /\ ChipAnswers /\ OwnRequest /\ Given /\ SessionAgreement /\ OneRequestEach
  BY DEF IInv
<1> USE DEF SessionAgreement, AgreesWithChip, OwnKeyCameBack
<1>1. ASSUME NEW k \in DBAKey, New(k) PROVE IInv'
  <2>0. TypeOK'
    BY <1>1, <1>t, <1>c DEF New, TypeOK, State, chipVars, Attempt
  <2>1. (OnTheWay /\ ChipAnswers /\ SessionAgreement /\ OneRequestEach)'
    BY <1>1, <1>t DEF New, OnTheWay, ChipAnswers, OneRequestEach, chipVars
  <2>2. OwnRequest'
    <3> SUFFICES ASSUME NEW x \in sent, IsAuth(x) PROVE x.from <= attempt' /\ x.from # attempt'
      BY <1>1 DEF New, OwnRequest, IsAuth
    <3>1. x.from <= attempt /\ x.from \in Attempt
      BY <1>t, RequestFields DEF OwnRequest, OnTheWay
    <3> QED
      BY <1>1, <1>t, <3>1 DEF New, TypeOK, Attempt
  <2>3. Given'
    BY <1>1, <1>t DEF New, Given, TypeOK, Attempt
  <2> QED
    BY <1>d, <2>0, <2>1, <2>2, <2>3 DEF IInv
<1>2. ASSUME NextStart PROVE IInv'
  <2>0. TypeOK'
    BY <1>2, <1>t DEF NextStart, TypeOK, State, chipVars
  <2>1. OnTheWay'
    BY <1>2, <1>t DEF NextStart, OnTheWay, TypeOK, Requests, chipVars
  <2>2. (ChipAnswers /\ SessionAgreement)'
    BY <1>2, <1>t DEF NextStart, ChipAnswers, chipVars
  <2>3. (OwnRequest /\ OneRequestEach)'
    <3>1. \A x \in sent' : IsAuth(x) => x \in sent
      BY <1>2, Fields DEF NextStart
    <3> QED
      BY <1>2, <1>t, <3>1 DEF NextStart, OwnRequest, OneRequestEach, IsAuth
  <2>4. Given'
    BY <1>2, <1>t DEF NextStart, Given
  <2> QED
    BY <1>d, <2>0, <2>1, <2>2, <2>3, <2>4 DEF IInv
<1>3. ASSUME NextExternalAuth PROVE IInv'
  <2>0. TypeOK'
    BY <1>3, <1>t DEF NextExternalAuth, TypeOK, State, chipVars
  <2>1. OnTheWay'
    BY <1>3, <1>t DEF NextExternalAuth, OnTheWay, TypeOK, Requests, chipVars
  <2>2. (ChipAnswers /\ SessionAgreement)'
    BY <1>3, <1>t DEF NextExternalAuth, ChipAnswers, chipVars
  <2>3. (OwnRequest /\ OneRequestEach)'
    <3>1. ASSUME NEW x \in sent', IsAuth(x) PROVE x \in sent \/ x = ExternalAuth(attempt, key, rndIcc)
      BY <1>3 DEF NextExternalAuth
    <3>2. ASSUME NEW x \in sent, IsAuth(x) PROVE x.from # attempt /\ x.from <= attempt
      BY <1>3, <1>t, <3>2 DEF NextExternalAuth, OwnRequest
    <3>3. ExternalAuth(attempt, key, rndIcc).from = attempt /\ attempt <= attempt
      BY <1>t, Fields DEF TypeOK, Attempt
    <3>4. OwnRequest'
      BY <1>3, <3>1, <3>2, <3>3 DEF NextExternalAuth, OwnRequest
    <3>5. OneRequestEach'
      BY <1>t, <3>1, <3>2, <3>3 DEF OneRequestEach, IsAuth
    <3> QED
      BY <3>4, <3>5
  <2>4. Given'
    BY <1>3, <1>t DEF NextExternalAuth, Given
  <2> QED
    BY <1>d, <2>0, <2>1, <2>2, <2>3, <2>4 DEF IInv
<1>4. ASSUME NextDone PROVE IInv'
  <2>0. TypeOK'
    BY <1>4, <1>t DEF NextDone, TypeOK, State, chipVars
  <2>1. (OnTheWay /\ ChipAnswers /\ SessionAgreement /\ OneRequestEach /\ OwnRequest)'
    BY <1>4, <1>t DEF NextDone, OnTheWay, ChipAnswers, OneRequestEach, OwnRequest, chipVars
  <2>2. Given'
    BY <1>4, <1>t DEF NextDone, Given, TypeOK, Attempt
  <2> QED
    BY <1>d, <2>0, <2>1, <2>2 DEF IInv
<1>5. ASSUME NEW r \in Responses, FeedChallenge(r) PROVE IInv'
  <2>1. r.icc \in 0 .. MaxChallenges
    <3>1. r.len = 8
      BY <1>5 DEF FeedChallenge, AcceptsChallenge
    <3>2. r \notin {Reflected(x) : x \in {y \in sent : y.ins = "ExternalAuthenticate"}}
      <4> SUFFICES ASSUME NEW x \in sent, r = Reflected(x) PROVE FALSE
        OBVIOUS
      <4>1. r.len = 40
        BY DEF Reflected
      <4> QED
        BY <3>1, <4>1
    <3>3. r \notin {Altered(q) : q \in {q \in air : q.len = 40}}
      <4> SUFFICES ASSUME NEW q \in air, q.len = 40, r = Altered(q) PROVE FALSE
        OBVIOUS
      <4>1. \E a \in Attempt, c \in Challenge : q = AuthData(a, c)
        <5>1. air \subseteq Answers
          BY <1>t DEF OnTheWay
        <5> QED
          BY <5>1 DEF Answers, ChallengeData, AuthData
      <4>2. r.len = 40
        BY <4>1 DEF Altered, AuthData
      <4> QED
        BY <3>1, <4>2
    <3>4. r # BadResponse
      BY <3>1 DEF BadResponse
    <3>5. r \in Answers \cup {ChallengeData(0)}
      BY <1>t, <3>2, <3>3, <3>4 DEF Responses, OnTheWay
    <3>6. PICK c \in 0 .. MaxChallenges : r = ChallengeData(c)
      <4>1. Challenge \cup {0} \subseteq 0 .. MaxChallenges
        BY <1>c DEF Challenge
      <4>2. \E c \in Challenge \cup {0} : r = ChallengeData(c)
        BY <3>1, <3>5, Fields DEF Answers
      <4> QED
        BY <4>1, <4>2
    <3> QED
      BY <3>6, Fields
  <2>0. TypeOK'
    BY <1>5, <1>t, <2>1 DEF FeedChallenge, AcceptsChallenge, TypeOK, State, chipVars
  <2>2. (OnTheWay /\ ChipAnswers /\ SessionAgreement /\ OneRequestEach)'
    BY <1>5, <1>t DEF FeedChallenge, OnTheWay, ChipAnswers, OneRequestEach, chipVars
  <2>3. OwnRequest'
    BY <1>5, <1>t DEF FeedChallenge, AcceptsChallenge, OwnRequest
  <2>4. Given'
    BY <1>5, <1>t DEF FeedChallenge, AcceptsChallenge, Given
  <2> QED
    BY <1>d, <2>0, <2>2, <2>3, <2>4 DEF IInv
<1>6. ASSUME NEW r \in Responses, FeedAuth(r) PROVE IInv'
  <2>1. PICK c \in Challenge : r = AuthData(attempt, c) /\ r \in air /\ key = "right"
    BY <1>6, AcceptedIsTheChips DEF FeedAuth
  <2>2. attempt \in Attempt /\ attempt # 0 /\ c \in 0 .. MaxChallenges
    BY <1>t, <1>c DEF TypeOK, Attempt, Challenge
  <2>3. /\ ExternalAuth(attempt, "right", c) \in sent
        /\ [kifd |-> attempt, kicc |-> c, ssc |-> [icc |-> c, ifd |-> attempt]] \in agreed
    BY <2>1, <2>2, <1>t DEF ChipAnswers
  <2>4. c = rndIcc
    <3>1. ExternalAuth(attempt, "right", c) = ExternalAuth(attempt, key, rndIcc)
      BY <2>3, <1>t DEF OwnRequest, IsAuth, ExternalAuth
    <3> QED
      BY <3>1 DEF ExternalAuth
  <2>5. session' \in agreed /\ session' \in Session /\ session' # NoSession /\ state' = "Completed"
    BY <1>6, <2>1, <2>2, <2>3, <2>4 DEF FeedAuth, AuthData, Session, NoSession
  <2>0. TypeOK'
    BY <1>6, <1>t, <2>5 DEF FeedAuth, TypeOK, State, chipVars
  <2>6. SessionAgreement'
    BY <1>6, <2>1, <2>5 DEF FeedAuth, chipVars
  <2>7. (OnTheWay /\ ChipAnswers /\ OneRequestEach)'
    BY <1>6, <1>t DEF FeedAuth, OnTheWay, ChipAnswers, OneRequestEach, chipVars
  <2>8. OwnRequest'
    BY <1>6, <1>t DEF FeedAuth, OwnRequest
  <2>9. Given'
    BY <1>6, <1>t DEF FeedAuth, AcceptsAuth, Given
  <2> QED
    BY <1>d, <2>0, <2>6, <2>7, <2>8, <2>9 DEF IInv
<1>7. ASSUME NEW r \in Responses, FeedBad(r) PROVE IInv'
  <2>0. TypeOK'
    BY <1>7, <1>t DEF FeedBad, Waiting, TypeOK, State, chipVars
  <2>1. (OnTheWay /\ ChipAnswers /\ SessionAgreement /\ OneRequestEach)'
    BY <1>7, <1>t DEF FeedBad, OnTheWay, ChipAnswers, OneRequestEach, chipVars
  <2>2. OwnRequest'
    BY <1>7, <1>t DEF FeedBad, OwnRequest
  <2>3. Given'
    BY <1>7, <1>t DEF FeedBad, Waiting, Given
  <2> QED
    BY <1>d, <2>0, <2>1, <2>2, <2>3 DEF IInv
<1>8. ASSUME ChipChallenge PROVE IInv'
  <2>0. TypeOK'
    BY <1>8, <1>t, <1>c DEF ChipChallenge, TypeOK, sessionVars
  <2>1. drawn + 1 \in Challenge
    BY <1>8, <1>t, <1>c DEF ChipChallenge, TypeOK, Challenge
  <2>2. OnTheWay'
    BY <1>8, <1>t, <2>1 DEF ChipChallenge, OnTheWay, Answers, sessionVars
  <2>3. ChipAnswers'
    BY <1>8, <1>t DEF ChipChallenge, ChipAnswers, ChallengeData, AuthData, sessionVars
  <2>4. (SessionAgreement /\ OneRequestEach /\ OwnRequest /\ Given)'
    BY <1>8, <1>t DEF ChipChallenge, OneRequestEach, OwnRequest, Given, sessionVars
  <2> QED
    BY <1>d, <2>0, <2>2, <2>3, <2>4 DEF IInv
<1>9. ASSUME NEW a \in Attempt, ChipAuth(a) PROVE IInv'
  <2>1. challenge \in Challenge /\ challenge \in 0 .. MaxChallenges
    BY <1>9, <1>t, <1>c DEF ChipAuth, TypeOK, Challenge
  <2>0. TypeOK'
    BY <1>9, <1>t, <2>1 DEF ChipAuth, TypeOK, Session, sessionVars
  <2>2. OnTheWay'
    BY <1>9, <1>t, <2>1 DEF ChipAuth, OnTheWay, Answers, sessionVars
  <2>3. ChipAnswers'
    BY <1>9, <1>t DEF ChipAuth, ChipAnswers, AuthData, sessionVars
  <2>4. (SessionAgreement /\ OneRequestEach /\ OwnRequest /\ Given)'
    BY <1>9, <1>t DEF ChipAuth, OneRequestEach, OwnRequest, Given, sessionVars
  <2> QED
    BY <1>d, <2>0, <2>2, <2>3, <2>4 DEF IInv
<1>10. ASSUME UNCHANGED vars PROVE IInv'
  BY <1>d, <1>10, <1>t DEF vars, sessionVars, chipVars, IInv, TypeOK, OnTheWay, ChipAnswers, OwnRequest,
                     Given, OneRequestEach
<1> QED
  BY <1>1, <1>2, <1>3, <1>4, <1>5, <1>6, <1>7, <1>8, <1>9, <1>10 DEF Next, Caller, Chip

-----------------------------------------------------------------------------
(* The theorems.                                                           *)

\* The inductive invariant of BacSession, for any number of session objects
\* and of challenges.
THEOREM Invariance ==
  ASSUME BacConstants
  PROVE  Spec => []IInv
<1>1. Init => IInv
  BY Initially
<1> QED
  BY <1>1, Inductive, PTL DEF Spec

\* Every variable keeps its type, and the slot holds a session in Completed
\* and nowhere else.
THEOREM TypeCorrect ==
  ASSUME BacConstants
  PROVE  Spec => []TypeOK
<1>1. IInv => TypeOK
  BY DEF IInv
<1> QED
  BY <1>1, Invariance, PTL

\* A BacSession that completes holds the keys and the counter the chip opened
\* a session with, and was given the right access key.
THEOREM CompletionIsAgreement ==
  ASSUME BacConstants
  PROVE  Spec => []SessionAgreement
<1>1. IInv => SessionAgreement
  BY DEF IInv
<1> QED
  BY <1>1, Invariance, PTL

\* No object authenticates twice with its random numbers, and next hands out
\* the session of an object once.
THEOREM ObjectsRunOnce ==
  ASSUME BacConstants
  PROVE  Spec => []SessionOneRun
<1>1. ASSUME IInv PROVE SessionOneRun
  <2>1. DoneOnce
    BY <1>1 DEF IInv, DoneOnce, Given, TypeOK
  <2>2. \A x \in sent : Randomness(x) = IF IsAuth(x) THEN {x.from} ELSE {}
    <3> SUFFICES ASSUME NEW x \in Requests PROVE Randomness(x) = IF IsAuth(x) THEN {x.from} ELSE {}
      BY <1>1 DEF IInv, OnTheWay
    <3>1. IsAuth(x) \/ x.ins = "GetChallenge"
      <4>1. CASE \E a \in Attempt : x = GetChallenge(a)
        BY <4>1 DEF GetChallenge
      <4>2. CASE \E a \in Attempt, k \in DBAKey, c \in 0 .. MaxChallenges : x = ExternalAuth(a, k, c)
        BY <4>2, Fields
      <4> QED
        BY <4>1, <4>2 DEF Requests
    <3> QED
      BY <3>1 DEF Randomness, IsAuth
  <2>3. RandomnessUsedOnce
    BY <1>1, <2>2 DEF IInv, OneRequestEach, RandomnessUsedOnce
  <2> QED
    BY <2>1, <2>3 DEF SessionOneRun
<1> QED
  BY <1>1, Invariance, PTL
=============================================================================
