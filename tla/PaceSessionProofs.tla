------------------------- MODULE PaceSessionProofs -------------------------
(***************************************************************************)
(* What PaceSession checks, proved for any number of session objects, of   *)
(* the reader's key pairs and of the chip's runs.                          *)
(***************************************************************************)
EXTENDS PaceSession, TLAPS

-----------------------------------------------------------------------------
(* The inductive invariant.                                                *)

IsGa3(x) == x.ins = "GA3"

\* A nonce is one the chip has drawn.  It gives T_IC away for a session it
\* opened only, over a generator both sides mapped to, from a nonce.
Answers ==
  \A r \in air :
    /\ r.step = 1 => r.nonce \in 1 .. runs
    /\ r.step = 4 => /\ r.token.key \in agreed
                     /\ r.token.over.gen = r.token.key.gen
                     /\ r.token.over.gen.nonce # 0

\* T_IFD is over the ephemeral key that the shared secret was made from, by
\* its generator and its secret.
Requests ==
  \A x \in sent :
    /\ x.ins \in {"MSE", "GA1", "GA2", "GA3", "GA4"}
    /\ x.ins = "GA4" => /\ x.token.key.gen = x.token.over.gen
                        /\ x.token.key.c = x.token.over.secret

\* From its nonce on, the chip maps with the nonce of the latest run.
ChipMaps ==
  /\ chip.at \in {"nonce", "mapped", "keyed"} => runs # 0
  /\ chip.at \in {"mapped", "keyed"} => chip.gen.nonce = runs

\* Only the right key decrypts a nonce, so only it maps to a generator of one.
RightKeyMaps ==
  /\ nonce # 0 => key = "right"
  /\ eph.gen.nonce # 0 => key = "right"

\* Until it completes, a session is of the reader's ephemeral secret and of the
\* key it was fed.
OwnSecret ==
  /\ state \in {"ReadyForStep4", "WaitingForStep4"} =>
       session = Shared(eph.secret, session.c, session.gen)
  /\ state = "ReadyForStep4" => session.gen = iccEph.gen /\ session.c = iccEph.secret

\* A mapping secret waits for the chip's, and an ephemeral key to be sent, as
\* one that was never in a command.
Drawn(e) == {e.secret, e.gen.t}

Fresh ==
  /\ eph.gen.t \in 0 .. secrets
  /\ \A x \in sent : IsGa3(x) => Drawn(x.eph) \subseteq 0 .. secrets
  /\ state = "WaitingForStep2" => \A x \in sent : IsGa3(x) => main \notin Drawn(x.eph)
  /\ state = "ReadyForStep3" =>
       \A x \in sent : IsGa3(x) => Drawn(x.eph) \cap Drawn(eph) = {}

\* A secret went into one command.
OneCommandEach ==
  \A x, y \in sent :
    IsGa3(x) /\ IsGa3(y) /\ Drawn(x.eph) \cap Drawn(y.eph) # {} => x = y

\* Earlier objects have given out their session once at the most, and this
\* one has not, unless its slot is empty.
Given ==
  \A a \in Attempt : taken[a] = 0 \/ (taken[a] = 1 /\ (a < attempt \/ (a = attempt /\ state = "Taken")))

IInv ==
  /\ PaceConstants
  /\ TypeOK
  /\ Answers
  /\ Requests
  /\ ChipMaps
  /\ RightKeyMaps
  /\ OwnSecret
  /\ Fresh
  /\ Given
  /\ SessionAgreement
  /\ OneCommandEach

-----------------------------------------------------------------------------
(* Commands, responses and keys by their fields.                           *)

LEMMA KeyFields ==
  ASSUME NEW n, NEW t, NEW c, NEW g, NEW x
  PROVE  /\ Gen(n, t, c).nonce = n /\ Gen(n, t, c).t = t
         /\ Eph(g, x).gen = g /\ Eph(g, x).secret = x
         /\ Shared(t, c, g).gen = g /\ Shared(t, c, g).t = t /\ Shared(t, c, g).c = c
         /\ "t" \in DOMAIN Shared(t, c, g)
         /\ Token(x, g).key = x /\ Token(x, g).over = g
         /\ ChipRun(x, g, c).at = x /\ ChipRun(x, g, c).gen = g /\ ChipRun(x, g, c).key = c
  BY DEF Gen, Eph, Shared, Token, ChipRun

LEMMA CommandFields ==
  ASSUME NEW x
  PROVE  /\ Mse.ins = "MSE" /\ Ga1.ins = "GA1" /\ Ga2(x).ins = "GA2"
         /\ Ga3(x).ins = "GA3" /\ Ga3(x).eph = x
         /\ Ga4(x).ins = "GA4" /\ Ga4(x).token = x
  BY DEF Mse, Ga1, Ga2, Ga3, Ga4

LEMMA ResponseFields ==
  ASSUME NEW x
  PROVE  /\ Empty.step = 0
         /\ Nonce(x).step = 1 /\ Nonce(x).nonce = x
         /\ PublicKey(x).step = 2
         /\ AuthToken(x).step = 4 /\ AuthToken(x).token = x
  BY DEF Empty, Nonce, PublicKey, AuthToken

\* What the states of the machine and of the chip carry at first.
LEMMA NothingYet ==
  /\ NoEph.secret = 0 /\ NoEph.gen.nonce = 0 /\ NoEph.gen.t = 0
  /\ NoChipRun.at = "idle"
  BY KeyFields DEF NoEph, NoGen, NoChipRun

-----------------------------------------------------------------------------
(* The invariant holds.                                                    *)

LEMMA Initially ==
  ASSUME PaceConstants, Init
  PROVE  IInv
<1>1. TypeOK
  BY NothingYet DEF PaceConstants, Init, TypeOK, Attempt, State
<1>2. Fresh /\ RightKeyMaps /\ OwnSecret
  BY NothingYet DEF Init, Fresh, RightKeyMaps, OwnSecret
<1>3. ChipMaps
  BY NothingYet DEF Init, ChipMaps
<1> QED
  BY <1>1, <1>2, <1>3 DEF Init, IInv, Answers, Requests, Given, SessionAgreement, OneCommandEach

LEMMA Inductive ==
  ASSUME IInv, [Next]_vars
  PROVE  IInv'
<1>c. MaxAttempts \in Nat \ {0} /\ MaxSecrets \in Nat /\ MaxChipRuns \in Nat
  BY DEF IInv, PaceConstants
<1>d. PaceConstants /\ PaceConstants'
  BY DEF IInv, PaceConstants
<1>t. TypeOK /\ Answers /\ Requests /\ ChipMaps /\ RightKeyMaps /\ OwnSecret
  BY DEF IInv
<1>u. Fresh /\ Given /\ SessionAgreement /\ OneCommandEach
  BY DEF IInv
<1> USE DEF SessionAgreement, AgreesWithChip, OwnKeyCameBack
<1>1. ASSUME NEW k \in AccessKey, New(k) PROVE IInv'
  <2>1. TypeOK'
    BY <1>1, <1>t, <1>c, NothingYet DEF New, TypeOK, State, Attempt, chipVars
  <2>2. (Answers /\ Requests /\ ChipMaps /\ OneCommandEach)'
    BY <1>1, <1>t, <1>u DEF New, Answers, Requests, ChipMaps, OneCommandEach, chipVars
  <2>3. (RightKeyMaps /\ OwnSecret)'
    BY <1>1, NothingYet DEF New, RightKeyMaps, OwnSecret
  <2>4. Fresh'
    BY <1>1, <1>t, <1>u, NothingYet DEF New, Fresh, TypeOK
  <2>5. (Given /\ SessionAgreement)'
    BY <1>1, <1>t, <1>u DEF New, Given, TypeOK, Attempt
  <2> QED
    BY <1>d, <2>1, <2>2, <2>3, <2>4, <2>5 DEF IInv
<1>2. ASSUME NextStart PROVE IInv'
  <2>1. TypeOK'
    BY <1>2, <1>t, <1>c DEF NextStart, Advance, TypeOK, State, Waits, chipVars
  <2>0. \A x \in sent' : x \in sent \/ x.ins \in {"MSE", "GA1", "GA2"}
    BY <1>2, CommandFields DEF NextStart, Advance
  <2>2. (Answers /\ Requests /\ ChipMaps /\ OneCommandEach)'
    BY <1>2, <1>t, <1>u, <2>0 DEF NextStart, Advance, Answers, Requests, ChipMaps, OneCommandEach, IsGa3, chipVars
  <2>3. (RightKeyMaps /\ OwnSecret)'
    BY <1>2, <1>t DEF NextStart, Advance, RightKeyMaps, OwnSecret
  <2>4. Fresh'
    BY <1>2, <1>t, <1>u, <2>0 DEF NextStart, Advance, Fresh, IsGa3
  <2>5. (Given /\ SessionAgreement)'
    BY <1>2, <1>t, <1>u DEF NextStart, Advance, Given
  <2> QED
    BY <1>d, <2>1, <2>2, <2>3, <2>4, <2>5 DEF IInv
<1>3. ASSUME NextStep1 PROVE IInv'
  <2>1. TypeOK'
    BY <1>3, <1>t, <1>c DEF NextStep1, Advance, TypeOK, State, Waits, chipVars
  <2>0. \A x \in sent' : x \in sent \/ x.ins \in {"MSE", "GA1", "GA2"}
    BY <1>3, CommandFields DEF NextStep1, Advance
  <2>2. (Answers /\ Requests /\ ChipMaps /\ OneCommandEach)'
    BY <1>3, <1>t, <1>u, <2>0 DEF NextStep1, Advance, Answers, Requests, ChipMaps, OneCommandEach, IsGa3, chipVars
  <2>3. (RightKeyMaps /\ OwnSecret)'
    BY <1>3, <1>t DEF NextStep1, Advance, RightKeyMaps, OwnSecret
  <2>4. Fresh'
    BY <1>3, <1>t, <1>u, <2>0 DEF NextStep1, Advance, Fresh, IsGa3
  <2>5. (Given /\ SessionAgreement)'
    BY <1>3, <1>t, <1>u DEF NextStep1, Advance, Given
  <2> QED
    BY <1>d, <2>1, <2>2, <2>3, <2>4, <2>5 DEF IInv
<1>4. ASSUME NextStep2 PROVE IInv'
  <2>1. TypeOK'
    BY <1>4, <1>t, <1>c DEF NextStep2, Advance, TypeOK, State, Waits, chipVars
  <2>0. \A x \in sent' : x \in sent \/ x.ins \in {"MSE", "GA1", "GA2"}
    BY <1>4, CommandFields DEF NextStep2, Advance
  <2>2. (Answers /\ Requests /\ ChipMaps /\ OneCommandEach)'
    BY <1>4, <1>t, <1>u, <2>0 DEF NextStep2, Advance, Answers, Requests, ChipMaps, OneCommandEach, IsGa3, chipVars
  <2>3. (RightKeyMaps /\ OwnSecret)'
    BY <1>4, <1>t DEF NextStep2, Advance, RightKeyMaps, OwnSecret
  <2>4. Fresh'
    BY <1>4, <1>t, <1>u, <2>0 DEF NextStep2, Advance, Fresh, IsGa3, TypeOK
  <2>5. (Given /\ SessionAgreement)'
    BY <1>4, <1>t, <1>u DEF NextStep2, Advance, Given
  <2> QED
    BY <1>d, <2>1, <2>2, <2>3, <2>4, <2>5 DEF IInv
<1>5. ASSUME NextStep3 PROVE IInv'
  <2>1. TypeOK'
    BY <1>5, <1>t DEF NextStep3, Advance, TypeOK, State, Waits, chipVars
  <2>0. \A x \in sent' : x \in sent \/ (x = Ga3(eph) /\ x.ins = "GA3" /\ x.eph = eph)
    BY <1>5, CommandFields DEF NextStep3, Advance
  <2>2. (Answers /\ Requests /\ ChipMaps)'
    BY <1>5, <1>t, <2>0 DEF NextStep3, Advance, Answers, Requests, ChipMaps, chipVars
  <2>3. (RightKeyMaps /\ OwnSecret)'
    BY <1>5, <1>t DEF NextStep3, Advance, RightKeyMaps, OwnSecret
  <2>4. Fresh'
    <3>1. Drawn(eph) \subseteq 0 .. secrets /\ eph.gen.t \in 0 .. secrets
      BY <1>t, <1>u DEF Fresh, TypeOK, Drawn
    <3>2. \A x \in sent' : IsGa3(x) => Drawn(x.eph) \subseteq 0 .. secrets
      BY <1>u, <2>0, <3>1 DEF Fresh
    <3> QED
      BY <1>5, <3>1, <3>2 DEF NextStep3, Advance, Fresh
  <2>5. (Given /\ SessionAgreement)'
    BY <1>5, <1>t, <1>u DEF NextStep3, Advance, Given
  <2>6. OneCommandEach'
    <3>1. \A x \in sent : IsGa3(x) => Drawn(x.eph) \cap Drawn(eph) = {}
      BY <1>5, <1>u DEF NextStep3, Advance, Fresh
    <3> QED
      BY <1>u, <2>0, <3>1 DEF OneCommandEach, IsGa3
  <2> QED
    BY <1>d, <2>1, <2>2, <2>3, <2>4, <2>5, <2>6 DEF IInv
<1>6. ASSUME NextStep4 PROVE IInv'
  <2>1. TypeOK'
    BY <1>6, <1>t DEF NextStep4, Advance, TypeOK, State, Waits, chipVars
  <2>0. \A x \in sent' : x \in sent \/ (x.ins = "GA4" /\ x.token = Token(session, iccEph))
    BY <1>6, CommandFields DEF NextStep4, Advance
  <2>6. Requests'
    <3>1. session.gen = iccEph.gen /\ session.c = iccEph.secret
      BY <1>6, <1>t DEF NextStep4, Advance, OwnSecret
    <3>2. /\ Token(session, iccEph).key.gen = Token(session, iccEph).over.gen
          /\ Token(session, iccEph).key.c = Token(session, iccEph).over.secret
      BY <3>1, KeyFields
    <3> QED
      BY <1>t, <2>0, <3>2 DEF Requests
  <2>2. (Answers /\ ChipMaps /\ OneCommandEach)'
    BY <1>6, <1>t, <1>u, <2>0 DEF NextStep4, Advance, Answers, ChipMaps, OneCommandEach, IsGa3, chipVars
  <2>3. (RightKeyMaps /\ OwnSecret)'
    BY <1>6, <1>t DEF NextStep4, Advance, RightKeyMaps, OwnSecret
  <2>4. Fresh'
    BY <1>6, <1>t, <1>u, <2>0 DEF NextStep4, Advance, Fresh, IsGa3
  <2>5. (Given /\ SessionAgreement)'
    BY <1>6, <1>t, <1>u DEF NextStep4, Advance, Given
  <2> QED
    BY <1>d, <2>1, <2>2, <2>3, <2>4, <2>5, <2>6 DEF IInv
<1>7. ASSUME NextDone PROVE IInv'
  <2>1. TypeOK'
    BY <1>7, <1>t, <1>c DEF NextDone, TypeOK, State, Waits, chipVars
  <2>2. (Answers /\ Requests /\ ChipMaps /\ OneCommandEach)'
    BY <1>7, <1>t, <1>u DEF NextDone, Answers, Requests, ChipMaps, OneCommandEach, chipVars
  <2>3. (RightKeyMaps /\ OwnSecret)'
    BY <1>7, <1>t DEF NextDone, RightKeyMaps, OwnSecret
  <2>4. Fresh'
    BY <1>7, <1>t, <1>u DEF NextDone, Fresh
  <2>5. (Given /\ SessionAgreement)'
    BY <1>7, <1>t, <1>u DEF NextDone, Given, TypeOK, Attempt, chipVars
  <2> QED
    BY <1>d, <2>1, <2>2, <2>3, <2>4, <2>5 DEF IInv
<1>8. ASSUME FeedMseSetAt PROVE IInv'
  <2>1. TypeOK'
    BY <1>8, <1>t, <1>c DEF FeedMseSetAt, TypeOK, State, Waits, chipVars
  <2>2. (Answers /\ Requests /\ ChipMaps /\ OneCommandEach)'
    BY <1>8, <1>t, <1>u DEF FeedMseSetAt, Answers, Requests, ChipMaps, OneCommandEach, chipVars
  <2>3. (RightKeyMaps /\ OwnSecret)'
    BY <1>8, <1>t DEF FeedMseSetAt, RightKeyMaps, OwnSecret
  <2>4. Fresh'
    BY <1>8, <1>t, <1>u DEF FeedMseSetAt, Fresh
  <2>5. (Given /\ SessionAgreement)'
    BY <1>8, <1>t, <1>u DEF FeedMseSetAt, Given, chipVars
  <2> QED
    BY <1>d, <2>1, <2>2, <2>3, <2>4, <2>5 DEF IInv
<1>9. ASSUME NEW r \in Responses, FeedStep1(r) PROVE IInv'
  <2>0. r.nonce \in 1 .. runs
    BY <1>9, <1>t, ResponseFields DEF FeedStep1, Answers, Responses, Reflected
  <2>1. TypeOK'
    BY <1>9, <1>t, <1>c, <2>0 DEF FeedStep1, TypeOK, State, Waits, chipVars
  <2>2. (Answers /\ Requests /\ ChipMaps /\ OneCommandEach)'
    BY <1>9, <1>t, <1>u DEF FeedStep1, Answers, Requests, ChipMaps, OneCommandEach, chipVars
  <2>3. (RightKeyMaps /\ OwnSecret)'
    BY <1>9, <1>t DEF FeedStep1, RightKeyMaps, OwnSecret
  <2>4. Fresh'
    BY <1>9, <1>t, <1>u DEF FeedStep1, Fresh
  <2>5. (Given /\ SessionAgreement)'
    BY <1>9, <1>t, <1>u DEF FeedStep1, Given, chipVars
  <2> QED
    BY <1>d, <2>1, <2>2, <2>3, <2>4, <2>5 DEF IInv
<1>10. ASSUME NEW r \in Responses, FeedStep2(r) PROVE IInv'
  <2>0. eph'.secret = secrets + 1 /\ eph'.gen.nonce = nonce /\ eph'.gen.t = main
    BY <1>10, KeyFields DEF FeedStep2
  <2>1. TypeOK'
    BY <1>10, <1>t, <1>c, <2>0 DEF FeedStep2, TypeOK, State, Waits, chipVars
  <2>2. (Answers /\ Requests /\ ChipMaps /\ OneCommandEach)'
    BY <1>10, <1>t, <1>u DEF FeedStep2, Answers, Requests, ChipMaps, OneCommandEach, chipVars
  <2>3. (RightKeyMaps /\ OwnSecret)'
    BY <1>10, <1>t, <2>0 DEF FeedStep2, RightKeyMaps, OwnSecret
  <2>4. Fresh'
    <3>1. secrets \in Nat /\ secrets' = secrets + 1 /\ main \in 0 .. secrets
      BY <1>10, <1>t, <1>c DEF FeedStep2, TypeOK
    <3>2. \A x \in sent : IsGa3(x) => Drawn(x.eph) \subseteq 0 .. secrets /\ main \notin Drawn(x.eph)
      BY <1>10, <1>u DEF FeedStep2, Fresh
    <3>3. Drawn(eph)' = {secrets + 1, main}
      BY <2>0 DEF Drawn
    <3>4. \A x \in sent : IsGa3(x) => Drawn(x.eph) \subseteq 0 .. secrets + 1 /\ Drawn(x.eph) \cap {secrets + 1, main} = {}
      BY <3>1, <3>2
    <3> QED
      BY <1>10, <2>0, <3>1, <3>3, <3>4 DEF FeedStep2, Fresh
  <2>5. (Given /\ SessionAgreement)'
    BY <1>10, <1>t, <1>u DEF FeedStep2, Given, chipVars
  <2> QED
    BY <1>d, <2>1, <2>2, <2>3, <2>4, <2>5 DEF IInv
<1>11. ASSUME NEW r \in Responses, FeedStep3(r) PROVE IInv'
  <2>0. /\ session'.gen = iccEph'.gen /\ session'.c = iccEph'.secret
        /\ session' = Shared(eph'.secret, session'.c, session'.gen)
    BY <1>11, KeyFields DEF FeedStep3
  <2>1. TypeOK'
    BY <1>11, <1>t, <1>c DEF FeedStep3, TypeOK, State, Waits, chipVars
  <2>2. (Answers /\ Requests /\ ChipMaps /\ OneCommandEach)'
    BY <1>11, <1>t, <1>u DEF FeedStep3, Answers, Requests, ChipMaps, OneCommandEach, chipVars
  <2>3. (RightKeyMaps /\ OwnSecret)'
    BY <1>11, <1>t, <2>0 DEF FeedStep3, RightKeyMaps, OwnSecret
  <2>4. Fresh'
    BY <1>11, <1>t, <1>u DEF FeedStep3, Fresh
  <2>5. (Given /\ SessionAgreement)'
    BY <1>11, <1>t, <1>u DEF FeedStep3, Given, chipVars
  <2> QED
    BY <1>d, <2>1, <2>2, <2>3, <2>4, <2>5 DEF IInv
<1>12. ASSUME NEW r \in Responses, FeedStep4(r) PROVE IInv'
  <2>0. AgreesWithChip \/ OwnKeyCameBack
    <3>1. r.step = 4 /\ r.token.key = session /\ r.token.over = eph
      BY <1>12, KeyFields DEF FeedStep4, TokenMatches
    <3>2. r # Empty
      BY <3>1, ResponseFields
    <3>3. CASE r \in air
      BY <1>t, <3>1, <3>3 DEF Answers, RightKeyMaps
    <3>4. CASE r \in Reflected
      <4>1. PICK x \in sent : x.ins = "GA4" /\ r = AuthToken(x.token)
        BY <3>1, <3>4, ResponseFields DEF Reflected
      <4>2. session.c = eph.secret
        BY <1>t, <3>1, <4>1, ResponseFields DEF Requests
      <4>3. session = Shared(eph.secret, session.c, session.gen)
        BY <1>12, <1>t DEF FeedStep4, OwnSecret
      <4> QED
        BY <4>2, <4>3, KeyFields
    <3> QED
      BY <1>12, <3>2, <3>3, <3>4 DEF Responses
  <2>1. TypeOK'
    BY <1>12, <1>t, <1>c DEF FeedStep4, TypeOK, State, Waits, chipVars
  <2>2. (Answers /\ Requests /\ ChipMaps /\ OneCommandEach)'
    BY <1>12, <1>t, <1>u DEF FeedStep4, Answers, Requests, ChipMaps, OneCommandEach, chipVars
  <2>3. (RightKeyMaps /\ OwnSecret)'
    BY <1>12, <1>t DEF FeedStep4, RightKeyMaps, OwnSecret
  <2>4. Fresh'
    BY <1>12, <1>t, <1>u DEF FeedStep4, Fresh
  <2>5. (Given /\ SessionAgreement)'
    BY <1>12, <1>t, <1>u, <2>0 DEF FeedStep4, Given, chipVars
  <2> QED
    BY <1>d, <2>1, <2>2, <2>3, <2>4, <2>5 DEF IInv
<1>13. ASSUME NEW r \in Responses, FeedBad(r) PROVE IInv'
  <2>1. TypeOK'
    BY <1>13, <1>t, <1>c DEF FeedBad, TypeOK, State, Waits, chipVars
  <2>2. (Answers /\ Requests /\ ChipMaps /\ OneCommandEach)'
    BY <1>13, <1>t, <1>u DEF FeedBad, Answers, Requests, ChipMaps, OneCommandEach, chipVars
  <2>3. (RightKeyMaps /\ OwnSecret)'
    BY <1>13, <1>t DEF FeedBad, RightKeyMaps, OwnSecret
  <2>4. Fresh'
    BY <1>13, <1>t, <1>u DEF FeedBad, Fresh
  <2>5. (Given /\ SessionAgreement)'
    BY <1>13, <1>t, <1>u DEF FeedBad, Given, chipVars
  <2> QED
    BY <1>d, <2>1, <2>2, <2>3, <2>4, <2>5 DEF IInv
<1>14. ASSUME ChipMse PROVE IInv'
  <2>1. TypeOK'
    BY <1>14, <1>t, <1>c DEF ChipMse, TypeOK, sessionVars
  <2>2. Answers'
    BY <1>14, <1>t DEF ChipMse, Answers
  <2>3. ChipMaps'
    BY <1>14, KeyFields DEF ChipMse, ChipMaps
  <2>4. (RightKeyMaps /\ OwnSecret /\ Requests /\ Fresh /\ Given /\ OneCommandEach /\ SessionAgreement)'
    BY <1>14, <1>t, <1>u DEF ChipMse, RightKeyMaps, OwnSecret, Requests, Fresh, Given, OneCommandEach, sessionVars
  <2> QED
    BY <1>d, <2>1, <2>2, <2>3, <2>4 DEF IInv
<1>15. ASSUME ChipStep1 PROVE IInv'
  <2>1. TypeOK'
    BY <1>15, <1>t, <1>c DEF ChipStep1, TypeOK, sessionVars
  <2>0. runs \in Nat
    BY <1>t, <1>c DEF TypeOK
  <2>2. Answers'
    <3>1. \A r \in air' : r \in air \/ (r.step = 1 /\ r.nonce = runs + 1)
      BY <1>15, ResponseFields DEF ChipStep1
    <3> QED
      BY <1>15, <1>t, <2>0, <3>1 DEF ChipStep1, Answers
  <2>3. ChipMaps'
    BY <1>15, <2>0, KeyFields DEF ChipStep1, ChipMaps
  <2>4. (RightKeyMaps /\ OwnSecret /\ Requests /\ Fresh /\ Given /\ OneCommandEach /\ SessionAgreement)'
    BY <1>15, <1>t, <1>u DEF ChipStep1, RightKeyMaps, OwnSecret, Requests, Fresh, Given, OneCommandEach, sessionVars
  <2> QED
    BY <1>d, <2>1, <2>2, <2>3, <2>4 DEF IInv
<1>16. ASSUME ChipStep2 PROVE IInv'
  <2>1. TypeOK'
    BY <1>16, <1>t, <1>c DEF ChipStep2, TypeOK, sessionVars
  <2>2. Answers'
    <3>1. \A r \in air' : r \in air \/ r.step = 2
      BY <1>16, ResponseFields DEF ChipStep2
    <3> QED
      BY <1>16, <1>t, <3>1 DEF ChipStep2, Answers
  <2>3. ChipMaps'
    BY <1>16, <1>t, KeyFields DEF ChipStep2, ChipMaps
  <2>4. (RightKeyMaps /\ OwnSecret /\ Requests /\ Fresh /\ Given /\ OneCommandEach /\ SessionAgreement)'
    BY <1>16, <1>t, <1>u DEF ChipStep2, RightKeyMaps, OwnSecret, Requests, Fresh, Given, OneCommandEach, sessionVars
  <2> QED
    BY <1>d, <2>1, <2>2, <2>3, <2>4 DEF IInv
<1>17. ASSUME ChipStep3 PROVE IInv'
  <2>1. TypeOK'
    BY <1>17, <1>t, <1>c DEF ChipStep3, TypeOK, sessionVars
  <2>2. Answers'
    <3>1. \A r \in air' : r \in air \/ r.step = 2
      BY <1>17, ResponseFields DEF ChipStep3
    <3> QED
      BY <1>17, <1>t, <3>1 DEF ChipStep3, Answers
  <2>3. ChipMaps'
    BY <1>17, <1>t, KeyFields DEF ChipStep3, ChipMaps
  <2>4. (RightKeyMaps /\ OwnSecret /\ Requests /\ Fresh /\ Given /\ OneCommandEach /\ SessionAgreement)'
    BY <1>17, <1>t, <1>u DEF ChipStep3, RightKeyMaps, OwnSecret, Requests, Fresh, Given, OneCommandEach, sessionVars
  <2> QED
    BY <1>d, <2>1, <2>2, <2>3, <2>4 DEF IInv
<1>18. ASSUME ChipStep4 PROVE IInv'
  <2>1. TypeOK'
    BY <1>18, <1>t, <1>c DEF ChipStep4, TypeOK, sessionVars
  <2>0. chip.key.gen = chip.gen /\ chip.gen.nonce # 0
    <3>1. Token(chip.key, Eph(chip.gen, IccEphemeral(runs))).key.gen = Token(chip.key, Eph(chip.gen, IccEphemeral(runs))).over.gen
      BY <1>18, <1>t, CommandFields DEF ChipStep4, Requests
    <3>2. chip.gen.nonce # 0
      BY <1>18, <1>t DEF ChipStep4, ChipMaps
    <3> QED
      BY <3>1, <3>2, KeyFields
  <2>2. Answers'
    <3> DEFINE t == Token(chip.key, Eph(chip.key.gen, chip.key.t))
    <3>1. t.key = chip.key /\ t.over.gen = chip.key.gen
      BY KeyFields
    <3>2. \A r \in air' : r \in air \/ (r.step = 4 /\ r.token = t)
      BY <1>18, ResponseFields DEF ChipStep4
    <3> HIDE DEF t
    <3> QED
      BY <1>18, <1>t, <2>0, <3>1, <3>2 DEF ChipStep4, Answers
  <2>3. ChipMaps'
    BY <1>18, NothingYet DEF ChipStep4, ChipMaps
  <2>4. (RightKeyMaps /\ OwnSecret /\ Requests /\ Fresh /\ Given /\ OneCommandEach /\ SessionAgreement)'
    BY <1>18, <1>t, <1>u DEF ChipStep4, RightKeyMaps, OwnSecret, Requests, Fresh, Given, OneCommandEach, sessionVars
  <2> QED
    BY <1>d, <2>1, <2>2, <2>3, <2>4 DEF IInv
<1>19. ASSUME UNCHANGED vars PROVE IInv'
  <2>1. TypeOK'
    BY <1>19, <1>t DEF TypeOK, vars, sessionVars, chipVars
  <2>2. (Answers /\ Requests /\ ChipMaps /\ RightKeyMaps /\ OwnSecret)'
    BY <1>19, <1>t DEF Answers, Requests, ChipMaps, RightKeyMaps, OwnSecret, vars, sessionVars, chipVars
  <2>3. (Fresh /\ Given /\ SessionAgreement /\ OneCommandEach)'
    BY <1>19, <1>u DEF Fresh, Given, OneCommandEach, vars, sessionVars, chipVars
  <2> QED
    BY <1>d, <2>1, <2>2, <2>3 DEF IInv
<1> QED
  BY <1>1, <1>2, <1>3, <1>4, <1>5, <1>6, <1>7, <1>8, <1>9,
     <1>10, <1>11, <1>12, <1>13, <1>14, <1>15, <1>16, <1>17, <1>18, <1>19 DEF Next, Caller, Chip

-----------------------------------------------------------------------------
(* The theorems.                                                           *)

\* The inductive invariant of PaceSession, for any number of session objects,
\* of key pairs and of runs of the chip.
THEOREM Invariance ==
  ASSUME PaceConstants
  PROVE  Spec => []IInv
<1>1. Init => IInv
  BY Initially
<1> QED
  BY <1>1, Inductive, PTL DEF Spec

\* Every variable keeps its type, and the machine holds a secret from the
\* chip's ephemeral key to the end of the session, and nowhere else.
THEOREM TypeCorrect ==
  ASSUME PaceConstants
  PROVE  Spec => []TypeOK
<1>1. IInv => TypeOK
  BY DEF IInv
<1> QED
  BY <1>1, Invariance, PTL

\* A PaceSession that completes, however often a bad answer rewound it and
\* whatever of the chip's or of its own messages it is fed, holds the secret of
\* a session the chip opened under the right key, or one made of its own
\* ephemeral key alone, which pace_session.rs does not tell from the chip's.
THEOREM CompletionIsAgreement ==
  ASSUME PaceConstants
  PROVE  Spec => []SessionAgreement
<1>1. IInv => SessionAgreement
  BY DEF IInv
<1> QED
  BY <1>1, Invariance, PTL

\* No mapping key and no ephemeral key goes into a second command, though the
\* engine keeps them when the machine is rewound; a session is given out once.
THEOREM ObjectsRunOnce ==
  ASSUME PaceConstants
  PROVE  Spec => []SessionOneRun
<1>1. ASSUME IInv PROVE SessionOneRun
  <2>1. DoneOnce
    BY <1>1 DEF IInv, DoneOnce, Given, TypeOK
  <2>2. \A x \in sent : Randomness(x) = IF IsGa3(x) THEN Drawn(x.eph) ELSE {}
    BY <1>1 DEF IInv, Requests, Randomness, IsGa3, Drawn
  <2>3. RandomnessUsedOnce
    BY <1>1, <2>2 DEF IInv, OneCommandEach, RandomnessUsedOnce
  <2> QED
    BY <2>1, <2>3 DEF SessionOneRun
<1> QED
  BY <1>1, Invariance, PTL
=============================================================================
