--------------------------- MODULE MdlVerifyProofs ---------------------------
(***************************************************************************)
(* What MdlVerify checks, proved for responses of any number of documents, *)
(* any transcripts and lists of them, any validity and any length of time. *)
(***************************************************************************)
EXTENDS MdlVerify, WellFoundedInduction, TLAPS

-----------------------------------------------------------------------------
(* The inductive invariant.                                                *)

\* What a call is given.
Inputs ==
  /\ call \in Call /\ WellTyped(call)
  /\ response \in Responses
  /\ signed \in Built \cup {"none"} /\ revoked \in Nat
  /\ \A i \in DOMAIN response :
       response[i].by = "holder" => response[i].over \in {signed, "elsewhere"}

\* A document in the result has no fault, and was judged at the instant of
\* the call.
Judged ==
  \A i \in DOMAIN verified :
    /\ Fault(response[i]) = "none"
    /\ verified[i].inWindow <=> InWindow(response[i])
    /\ verified[i].trusted => response[i].signer = "issuer" /\ at \in CertificateWindow

\* What the chain and the list of a document v come to: the list was read, at
\* an instant when it could not show a later revocation only, or that is noted;
\* nothing but the list or the instant takes trust from the issuer's d.
Account(v, d) ==
  /\ v.trusted /\ v.list \notin {"skipped", "unreachable"}
       => call.crl # "none" /\ v.list # "revoked" /\ v.asked < revoked + Lag
  /\ call.crl # "none" => v.list # "skipped"
  /\ d.signer = "issuer" /\ call.anchors = "issuer" /\ at \in CertificateWindow /\ v.asked < revoked
       => v.trusted

Accounted == \A i \in DOMAIN verified : Account(verified[i], response[i])

\* The cache has one list at the most, which was made before.
Cached ==
  /\ cache \subseteq Time
  /\ \A x, y \in cache : x = y
  /\ \A made \in cache : made <= clock
  /\ call.crl # "caching" => cache = {}

\* Documents are verified one after the other, and all of them before their
\* holder is.
Order ==
  /\ pc = "begin" => verified = <<>>
  /\ pc \in {"issuer", "chain"} =>
       Len(verified) < Len(response) /\ call.entry # "verify_device_auth"
  /\ pc = "chain" => call.anchors # "none" /\ Fault(Present) = "none"
  /\ pc \in {"readerKey", "device", "verdict"} \/ Ok =>
       (call.entry # "verify_device_auth" => Len(verified) = Len(response))

\* Transcripts are tried when there is a session.
Session ==
  /\ pc \in {"begin", "issuer", "chain", "readerKey", "device"} => shown = 0 /\ matched = 0
  /\ pc \in {"begin", "issuer", "chain", "readerKey"} => candidate = 1
  /\ pc \in {"issuer", "chain", "readerKey", "device"} /\ Live => call.candidates # <<>>
  /\ pc = "readerKey" => Any
  /\ pc = "device" => Live /\ candidate <= Len(call.candidates)
  /\ pc = "verdict" => App /\ shown = 0

\* The transcript that matched is the one that every document is
\* authenticated over.
Presence ==
  matched # 0 => \A i \in DOMAIN response : Authenticates(response[i], call.candidates[matched])

\* The transcripts given up are those over which some document is not.
Tried ==
  pc = "device" =>
    /\ Any => \A i \in DOMAIN response : ~NeedsKey(response[i])
    /\ \A j \in 1 .. candidate - 1 :
         \E i \in DOMAIN response : ~Authenticates(response[i], call.candidates[j])

\* The document shown is one that is called a licence, and verify_mdl shows it.
Showing == shown # 0 => App /\ shown \in DOMAIN response /\ response[shown].type = "mDL"

\* Nothing to accuse anybody of.
Blameless ==
  /\ \A i \in DOMAIN response :
       /\ response[i].fault \notin {"signature", "mso", "deviceKey"}
       /\ response[i].type = response[i].signed
  /\ Live => \E t \in {call.candidates[j] : j \in DOMAIN call.candidates} :
       \A i \in DOMAIN response :
         response[i].by = DeviceKey(response[i]) /\ response[i].over = t

NobodyAccused == Blameless => result \notin {"Tampered", "DeviceAuth", "NotAuthentic"}

MdlInv ==
  /\ TypeOK
  /\ Inputs
  /\ Judged
  /\ Accounted
  /\ Cached
  /\ Order
  /\ Session
  /\ Presence
  /\ Tried
  /\ Showing
  /\ NobodyAccused

-----------------------------------------------------------------------------
(* The data.                                                               *)

LEMMA ResponseList ==
  ASSUME Inputs
  PROVE  /\ Len(response) \in Nat /\ DOMAIN response = 1 .. Len(response)
         /\ response = <<>> <=> Len(response) = 0
         /\ \A i \in DOMAIN response : response[i] \in Document
<1>1. PICK n \in 0 .. MaxDocuments : response \in [1 .. n -> Documents]
  BY DEF Inputs, Responses
<1>2. n \in Nat /\ DOMAIN response = 1 .. n /\ response \in Seq(Documents)
  BY <1>1, MdlConstants
<1>3. \A i \in DOMAIN response : response[i] \in Document
  BY <1>1, <1>2, MdlConstants
<1>4. Len(response) = n
  BY <1>2
<1>5. response = <<>> <=> n = 0
  BY <1>2, <1>4
<1> QED
  BY <1>2, <1>3, <1>4, <1>5

LEMMA CandidateList ==
  ASSUME Inputs
  PROVE  /\ Len(call.candidates) \in Nat /\ DOMAIN call.candidates = 1 .. Len(call.candidates)
         /\ call.candidates = <<>> <=> Len(call.candidates) = 0
         /\ \A j \in DOMAIN call.candidates : call.candidates[j] \in Built
<1>1. call.candidates \in Candidates
  BY DEF Inputs, Call
<1>2. call.candidates \in Seq(Built)
  BY <1>1, MdlConstants
<1> QED
  BY <1>2

LEMMA VerifiedList ==
  ASSUME Inputs, TypeOK
  PROVE  /\ Len(verified) \in Nat /\ Len(verified) <= Len(response)
         /\ DOMAIN verified = 1 .. Len(verified)
         /\ DOMAIN verified \subseteq DOMAIN response
<1>1. verified \in Seq(Verified) /\ Len(verified) <= Len(response)
  BY DEF TypeOK
<1>2. Len(verified) \in Nat /\ DOMAIN verified = 1 .. Len(verified)
  BY <1>1
<1> QED
  BY <1>1, <1>2, ResponseList

\* The next document to verify.
LEMMA PresentDocument ==
  ASSUME Inputs, TypeOK, Len(verified) < Len(response)
  PROVE  /\ Len(verified) + 1 \in DOMAIN response
         /\ Present = response[Len(verified) + 1] /\ Present \in Document
  BY ResponseList, VerifiedList DEF Present

\* What map_error makes of an error, and that it accuses nobody anew.
LEMMA Reports ==
  ASSUME NEW e \in MdlError \cup {"Anchor"}, e = "Anchor" => App
  PROVE  /\ Report(e) \in IF App THEN IdentityError ELSE MdlError
         /\ Report(e) \notin {"running", "ok"}
         /\ Report(e) \in {"Tampered", "DeviceAuth", "NotAuthentic"} => e \in {"Tampered", "DeviceAuth"}
<1>1. CASE App
  BY <1>1 DEF Report, MdlError, IdentityError
<1>2. CASE ~App
  BY <1>2 DEF Report, MdlError, IdentityError
<1> QED
  BY <1>1, <1>2

\* The call and the response stay as they are.
LEMMA SameWorld ==
  ASSUME UNCHANGED <<call, response, signed, revoked>>
  PROVE  /\ (App' <=> App) /\ (Any' <=> Any) /\ (Live' <=> Live)
         /\ (Inputs' <=> Inputs) /\ (Blameless' <=> Blameless)
<1>1. (App' <=> App) /\ (Any' <=> Any) /\ (Live' <=> Live)
  BY DEF App, Any, Live
<1>2. Inputs' <=> Inputs
  <2>1. WellTyped(call)' <=> WellTyped(call)
    BY DEF WellTyped
  <2> QED
    BY <2>1 DEF Inputs
<1>3. Blameless' <=> Blameless
  BY <1>1 DEF Blameless, DeviceKey
<1> QED
  BY <1>1, <1>2, <1>3

LEMMA SameCache ==
  ASSUME MdlInv, UNCHANGED <<call, clock, cache>>
  PROVE  Cached'
  BY DEF MdlInv, Cached

-----------------------------------------------------------------------------
(* The invariant holds.                                                    *)

LEMMA Initially ==
  ASSUME Init
  PROVE  MdlInv
<1>0. /\ clock \in Nat /\ clock \in Time /\ revoked \in Nat /\ cache \subseteq Time
      /\ \A made \in cache : made \in 0 .. clock
  <2>1. MaxTime \in Nat /\ MaxStart \in 0 .. MaxTime /\ clock \in 0 .. MaxStart
    BY MdlConstants DEF Init, Time
  <2>2. clock \in Nat /\ clock <= MaxTime /\ 0 .. clock \subseteq 0 .. MaxTime /\ clock \in 0 .. MaxTime
    BY <2>1
  <2>3. cache \subseteq 0 .. clock
    BY DEF Init
  <2>4. revoked \in {MaxTime + 1} \cup 0 .. MaxTime + 1
    BY DEF Init
  <2>5. revoked \in Nat
    BY <2>1, <2>4
  <2> QED
    BY <2>2, <2>3, <2>5 DEF Time
<1>1. call \in Call /\ WellTyped(call) /\ response \in Responses /\ Inputs
  BY <1>0 DEF Init, Inputs
<1>2. verified \in Seq(Verified) /\ Len(verified) = 0
  BY DEF Init
<1>3. candidate \in 1 .. Len(call.candidates) + 1 /\ matched \in 0 .. Len(call.candidates)
  BY <1>1, CandidateList DEF Init
<1>4. shown \in 0 .. Len(response) /\ Len(verified) <= Len(response)
  BY <1>1, <1>2, ResponseList DEF Init
<1>5. TypeOK
  BY <1>0, <1>2, <1>3, <1>4 DEF Init, TypeOK
<1>6. Judged /\ Accounted
  BY <1>2 DEF Init, Judged, Accounted
<1>7. Cached
  <2>1. \A x, y \in cache : x = y
    BY DEF Init
  <2>2. \A made \in cache : made <= clock
    BY <1>0
  <2> QED
    BY <1>0, <2>1, <2>2 DEF Init, Cached
<1> QED
  BY <1>1, <1>5, <1>6, <1>7
  DEF MdlInv, Init, Order, Session, Presence, Tried, Showing, NobodyAccused, Ok

\* A call that ends in an error.
LEMMA Failing ==
  ASSUME MdlInv, NEW e \in MdlError \cup {"Anchor"}, e = "Anchor" => App,
         Fail(e), Blameless => e \notin {"Tampered", "DeviceAuth"},
         UNCHANGED world, UNCHANGED <<verified, candidate, matched, shown>>,
         UNCHANGED clock, Cached',
         at' \in Time, at' = at \/ verified = <<>>
  PROVE  MdlInv'
<1>1. UNCHANGED <<call, response, signed, revoked>> /\ UNCHANGED clock
  BY DEF world
<1>2. /\ (App' <=> App) /\ Inputs' /\ (Blameless' <=> Blameless)
  BY <1>1, SameWorld DEF MdlInv
<1>3. /\ pc' = "done" /\ result' = Report(e)
      /\ result' \in IF App THEN IdentityError ELSE MdlError
      /\ result' \notin {"running", "ok"}
      /\ result' \in {"Tampered", "DeviceAuth", "NotAuthentic"} => e \in {"Tampered", "DeviceAuth"}
  BY Reports DEF Fail
<1>4. TypeOK'
  BY <1>1, <1>2, <1>3 DEF MdlInv, TypeOK, Cached
<1>5. Judged'
  <2>1. at' = at \/ DOMAIN verified = {}
    OBVIOUS
  <2> QED
    BY <1>1, <2>1 DEF MdlInv, Judged, InWindow
<1>6. Accounted'
  <2>1. at' = at \/ DOMAIN verified = {}
    OBVIOUS
  <2> QED
    BY <1>1, <2>1 DEF MdlInv, Accounted, Account, Lag
<1>7. Order' /\ Session' /\ Tried'
  BY <1>3 DEF Order, Session, Tried, Ok
<1>8. Presence' /\ Showing'
  BY <1>1 DEF MdlInv, Presence, Showing, App, Authenticates, DeviceKey
<1>9. NobodyAccused'
  BY <1>2, <1>3 DEF NobodyAccused
<1> QED
  BY <1>2, <1>4, <1>5, <1>6, <1>7, <1>8, <1>9 DEF MdlInv

\* What the arguments are refused for.
LEMMA Refusals ==
  ASSUME NEW decodes \in BOOLEAN, WellTyped(call)
  PROVE  /\ Refusal(decodes) \in MdlError \cup {"Anchor", "none"}
         /\ Refusal(decodes) = "Anchor" => App
         /\ Refusal(decodes) = "DeviceAuth" => Any /\ call.candidates = <<>>
         /\ Refusal(decodes) # "Tampered"
         /\ Refusal(decodes) = "none" =>
              response # <<>> /\ ~(App /\ Live /\ call.candidates = <<>>) /\ ~(Any /\ call.candidates = <<>>)
<1>1. Refusal(decodes) = "Anchor" => call.anchors = "malformed"
  BY DEF Refusal
<1>2. Refusal(decodes) = "Anchor" => App
  BY <1>1 DEF WellTyped, App
<1> QED
  BY <1>2 DEF Refusal, MdlError

LEMMA BeginKeeps ==
  ASSUME MdlInv, Begin
  PROVE  MdlInv'
<1>1. /\ pc = "begin" /\ at' = clock
      /\ UNCHANGED world /\ UNCHANGED changing /\ UNCHANGED <<verified, candidate, matched, shown>>
  BY DEF Begin
<1>2. PICK decodes \in BOOLEAN :
        IF Refusal(decodes) # "none" THEN Fail(Refusal(decodes))
        ELSE Go(IF call.entry = "verify_device_auth" THEN "device" ELSE "issuer")
  BY DEF Begin
<1>3. /\ verified = <<>> /\ Len(verified) = 0 /\ DOMAIN verified = {}
      /\ shown = 0 /\ matched = 0 /\ candidate = 1 /\ at' \in Time
      /\ Inputs /\ TypeOK
  BY <1>1 DEF MdlInv, Order, Session, TypeOK
<1>4. WellTyped(call)
  BY <1>3 DEF Inputs
<1>5. UNCHANGED <<call, response, signed, revoked>> /\ UNCHANGED <<clock, cache>>
  BY <1>1 DEF world, changing
<1>s. UNCHANGED clock /\ Cached'
  BY <1>5, SameCache
<1>6. CASE Refusal(decodes) # "none"
  <2>1. Fail(Refusal(decodes))
    BY <1>2, <1>6
  <2>2. Blameless => Refusal(decodes) \notin {"Tampered", "DeviceAuth"}
    <3>1. Blameless /\ Live => call.candidates # <<>>
      BY DEF Blameless
    <3>2. Any => Live
      BY DEF Any, Live
    <3> QED
      BY <1>4, <3>1, <3>2, Refusals
  <2> QED
    BY <1>1, <1>3, <1>4, <1>6, <2>1, <2>2, Refusals, <1>s, Failing
<1>7. CASE Refusal(decodes) = "none"
  <2>1. \/ call.entry = "verify_device_auth" /\ Go("device")
        \/ call.entry # "verify_device_auth" /\ Go("issuer")
    BY <1>2, <1>7 DEF Go
  <2>2. /\ response # <<>> /\ ~(App /\ Live /\ call.candidates = <<>>) /\ ~(Any /\ call.candidates = <<>>)
    BY <1>4, <1>7, Refusals
  <2>3. pc' \in {"device", "issuer"} /\ result' = result /\ result = "running"
    BY <1>1, <1>3, <2>1 DEF Go, TypeOK
  <2>4. Live => call.candidates # <<>>
    <3>1. Live => App \/ Any \/ call.entry \in {"verify_presentation", "verify_device_auth"}
      <4>1. call.entry \in Entry
        BY <1>3 DEF Inputs, Call
      <4> QED
        BY <4>1 DEF Live, App, Any, Entry
    <3>2. call.entry \in {"verify_presentation", "verify_device_auth"} => call.candidates # <<>>
      <4>1. call.candidates = <<>> => Len(call.candidates) # 1
        BY <1>3, CandidateList
      <4> QED
        BY <1>4, <4>1 DEF WellTyped
    <3> QED
      BY <2>2, <3>1, <3>2
  <2>5. /\ (App' <=> App) /\ (Any' <=> Any) /\ (Live' <=> Live) /\ Inputs'
        /\ Blameless' <=> Blameless
    BY <1>3, <1>5, SameWorld
  <2>6. TypeOK'
    BY <1>1, <1>3, <1>5, <2>3, <2>5 DEF TypeOK
  <2>7. Judged' /\ Accounted'
    BY <1>1, <1>3 DEF Judged, Accounted
  <2>8. Len(response) > 0 /\ (call.candidates # <<>> => 1 <= Len(call.candidates))
    BY <1>3, <2>2, ResponseList, CandidateList
  <2>9. Order'
    BY <1>1, <1>3, <1>5, <2>1, <2>3, <2>8 DEF Order, Go, Ok
  <2>10. Session'
    BY <1>1, <1>3, <1>5, <2>1, <2>3, <2>4, <2>5, <2>8 DEF Session, Go, Live
  <2>11. Presence' /\ Showing' /\ NobodyAccused'
    BY <1>1, <1>3, <2>3 DEF Presence, Showing, NobodyAccused
  <2>12. Tried'
    BY <1>1, <1>3, <1>5, <2>1, <2>5 DEF Tried, Go, Any
  <2> QED
    BY <1>s, <2>5, <2>6, <2>7, <2>9, <2>10, <2>11, <2>12 DEF MdlInv
<1> QED
  BY <1>6, <1>7

\* A document that is found sound joins the result, or ends the call when its
\* elements do not convert.
LEMMA AddKeeps ==
  ASSUME MdlInv, pc \in {"issuer", "chain"}, Fault(Present) = "none",
         NEW t \in BOOLEAN, NEW l \in List, Add(t, l),
         UNCHANGED world, UNCHANGED <<clock, at, candidate, matched, shown>>,
         Cached',
         t => Present.signer = "issuer" /\ at \in CertificateWindow,
         NEW v, v = [trusted |-> t, list |-> l, asked |-> clock, inWindow |-> InWindow(Present)],
         Account(v, Present)
  PROVE  MdlInv'
<1>1. UNCHANGED <<call, response, signed, revoked>> /\ UNCHANGED clock
  BY DEF world
<1>2. /\ Inputs /\ TypeOK /\ Judged /\ Accounted
      /\ Len(verified) < Len(response) /\ call.entry # "verify_device_auth"
      /\ shown = 0 /\ matched = 0 /\ candidate = 1 /\ (Live => call.candidates # <<>>)
  BY DEF MdlInv, Order, Session
<1>3. /\ Len(verified) \in Nat /\ Len(response) \in Nat /\ DOMAIN verified = 1 .. Len(verified)
      /\ DOMAIN response = 1 .. Len(response)
      /\ Present = response[Len(verified) + 1]
      /\ Len(verified) + 1 \in DOMAIN response
  BY <1>2, VerifiedList, ResponseList, PresentDocument
<1>4. CASE Present.fault = "elements"
  <2>1. Fail("Unreadable") /\ UNCHANGED verified
    BY <1>4 DEF Add
  <2>2. at' \in Time /\ at' = at
    BY <1>2 DEF TypeOK
  <2> QED
    BY <2>1, <2>2, Failing DEF MdlError
<1>5. CASE Present.fault # "elements"
  <2>1. /\ verified' = Append(verified, v)
        /\ IF Len(verified') < Len(response) THEN Go("issuer") ELSE AfterIssuer
    BY <1>5 DEF Add
  <2>2. /\ Inputs' /\ (App' <=> App) /\ (Any' <=> Any) /\ (Live' <=> Live) /\ (Blameless' <=> Blameless)
    BY <1>1, <1>2, SameWorld
  <2>3. verified \in Seq(Verified)
    BY <1>2 DEF TypeOK
  <2>4. v \in Verified
    <3>1. clock \in Time
      BY <1>2 DEF TypeOK
    <3> QED
      BY <3>1 DEF InWindow, Verified
  <2>5. /\ Len(verified') = Len(verified) + 1 /\ DOMAIN verified' = 1 .. Len(verified) + 1
        /\ verified' \in Seq(Verified)
        /\ \A i \in DOMAIN verified : verified'[i] = verified[i]
        /\ verified'[Len(verified) + 1] = v
    BY <1>3, <2>1, <2>3, <2>4
  <2>6. ASSUME NEW i \in DOMAIN verified'
        PROVE  i \in DOMAIN verified \/ i = Len(verified) + 1
    BY <1>3, <2>5
  <2>7. Len(verified') <= Len(response)
    BY <1>2, <1>3, <2>5
  <2>8. result = "running" /\ call.entry \in Entry
    BY <1>2 DEF TypeOK, Inputs, Call
  <2>9. \/ pc' = "issuer" /\ result' = "running" /\ Len(verified') < Len(response)
        \/ /\ Len(verified') = Len(response)
           /\ \/ pc' = "readerKey" /\ result' = "running" /\ Any /\ Live
              \/ pc' = "device" /\ result' = "running" /\ call.entry = "verify_presentation" /\ ~Any /\ Live
              \/ pc' = "verdict" /\ result' = "running" /\ App
              \/ pc' = "done" /\ result' = "ok" /\ ~App
    <3>1. CASE Len(verified') < Len(response)
      BY <2>1, <2>8, <3>1 DEF Go
    <3>2. CASE Len(verified') = Len(response)
      <4>1. AfterIssuer
        BY <1>3, <2>1, <3>2
      <4>2. (Any => Live) /\ (call.entry = "verify_presentation" => Live /\ ~Any)
        BY DEF Any, Live
      <4>3. CASE Any
        BY <2>8, <3>2, <4>1, <4>2, <4>3 DEF AfterIssuer, Go
      <4>4. CASE ~Any /\ call.entry = "verify_presentation"
        BY <2>8, <3>2, <4>1, <4>2, <4>4 DEF AfterIssuer, Go
      <4>5. CASE ~Any /\ call.entry # "verify_presentation"
        <5>1. Conclude
          BY <4>1, <4>5 DEF AfterIssuer
        <5> QED
          BY <2>8, <3>2, <5>1 DEF Conclude, Go
      <4> QED
        BY <4>3, <4>4, <4>5
    <3>3. Len(verified') < Len(response) \/ Len(verified') = Len(response)
      <4>1. Len(verified') \in Nat
        BY <1>3, <2>5
      <4> QED
        BY <1>3, <2>7, <4>1
    <3> QED
      BY <3>1, <3>2, <3>3
  <2>10. TypeOK'
    BY <1>1, <1>2, <2>2, <2>5, <2>7, <2>9 DEF TypeOK, Cached
  <2>11. Judged'
    <3>1. ASSUME NEW i \in DOMAIN verified'
          PROVE  /\ Fault(response[i]) = "none"
                 /\ verified'[i].inWindow <=> InWindow(response[i])
                 /\ verified'[i].trusted => response[i].signer = "issuer" /\ at \in CertificateWindow
      <4>1. CASE i \in DOMAIN verified
        BY <1>2, <2>5, <4>1 DEF Judged
      <4>2. CASE i = Len(verified) + 1
        BY <1>3, <2>5, <4>2
      <4> QED
        BY <2>6, <4>1, <4>2
    <3> QED
      BY <1>1, <3>1 DEF Judged, InWindow
  <2>12. Accounted'
    <3>1. ASSUME NEW i \in DOMAIN verified'
          PROVE  Account(verified'[i], response[i])
      <4>1. CASE i \in DOMAIN verified
        BY <1>2, <2>5, <4>1 DEF Accounted
      <4>2. CASE i = Len(verified) + 1
        BY <1>3, <2>5, <4>2
      <4> QED
        BY <2>6, <4>1, <4>2
    <3> QED
      BY <1>1, <3>1 DEF Accounted, Account, Lag
  <2>13. Order'
    BY <1>1, <1>2, <2>9 DEF Order, Ok
  <2>14. Session'
    <3>1. call.candidates # <<>> => 1 <= Len(call.candidates)
      BY <1>2, CandidateList
    <3> QED
      BY <1>1, <1>2, <2>2, <2>9, <3>1 DEF Session
  <2>15. Presence' /\ Showing' /\ NobodyAccused'
    BY <1>2, <2>9 DEF Presence, Showing, NobodyAccused
  <2>16. Tried'
    BY <1>2, <2>2, <2>9 DEF Tried
  <2> QED
    BY <2>2, <2>10, <2>11, <2>12, <2>13, <2>14, <2>15, <2>16 DEF MdlInv
<1> QED
  BY <1>4, <1>5

\* The faults of a document, and which of them accuse somebody.
LEMMA Faults ==
  ASSUME NEW d
  PROVE  /\ Fault(d) \in MdlError \cup {"none"} /\ Fault(d) \notin {"DeviceAuth", "Anchor"}
         /\ Fault(d) = "Tampered" => d.fault \in {"signature", "mso"} \/ d.signed # d.type
         /\ Fault(d) = "none" => d.fault \notin {"signature", "mso"} /\ d.signed = d.type
  BY DEF Fault, MdlError

LEMMA CheckDocumentKeeps ==
  ASSUME MdlInv, CheckDocument
  PROVE  MdlInv'
<1>1. /\ pc = "issuer" /\ UNCHANGED world /\ UNCHANGED changing
      /\ UNCHANGED <<at, candidate, matched, shown>>
  BY DEF CheckDocument
<1>2. UNCHANGED <<call, response, signed, revoked>> /\ UNCHANGED <<clock, cache>>
  BY <1>1 DEF world, changing
<1>s. UNCHANGED clock /\ Cached'
  BY <1>2, SameCache
<1>3. /\ Inputs /\ TypeOK /\ at \in Time
      /\ Len(verified) < Len(response) /\ call.entry # "verify_device_auth"
  BY <1>1 DEF MdlInv, Order, TypeOK
<1>4. CASE Fault(Present) # "none"
  <2>1. Fail(Fault(Present)) /\ UNCHANGED verified
    BY <1>4 DEF CheckDocument
  <2>2. Blameless => Fault(Present) # "Tampered"
    <3>1. \E i \in DOMAIN response : Present = response[i]
      BY <1>3, PresentDocument
    <3> QED
      BY <3>1, Faults DEF Blameless
  <2> QED
    BY <1>1, <1>3, <1>4, <2>1, <2>2, Faults, <1>s, Failing
<1>5. CASE Fault(Present) = "none" /\ call.anchors = "none"
  <2>1. Add(FALSE, "none")
    BY <1>5 DEF CheckDocument
  <2>2. "none" \in List /\ FALSE \in BOOLEAN
    BY DEF List
  <2> DEFINE v == [trusted |-> FALSE, list |-> "none", asked |-> clock, inWindow |-> InWindow(Present)]
  <2>3. Account(v, Present)
    BY <1>5 DEF Account
  <2>4. UNCHANGED clock /\ Cached'
    BY <1>2, <1>3 DEF MdlInv, TypeOK, Cached
  <2> HIDE DEF v
  <2>5. v = [trusted |-> FALSE, list |-> "none", asked |-> clock, inWindow |-> InWindow(Present)]
    BY DEF v
  <2> QED
    BY <1>1, <1>5, <2>1, <2>2, <2>3, <2>4, <2>5, AddKeeps
<1>6. CASE Fault(Present) = "none" /\ call.anchors # "none"
  <2>1. Go("chain") /\ UNCHANGED verified
    BY <1>6 DEF CheckDocument
  <2>2. pc' = "chain" /\ result' = result /\ result = "running"
    BY <1>1, <1>3, <2>1 DEF Go, TypeOK
  <2>3. Inputs' /\ (App' <=> App) /\ (Any' <=> Any) /\ (Live' <=> Live) /\ (Blameless' <=> Blameless)
    BY <1>2, <1>3, SameWorld
  <2>4. Present' = Present
    BY <1>2, <2>1 DEF Present
  <2>5. TypeOK' /\ Order'
    BY <1>1, <1>2, <1>3, <1>6, <2>1, <2>2, <2>3, <2>4 DEF TypeOK, Order, Ok
  <2>6. Judged' /\ Accounted'
    BY <1>1, <1>2, <2>1 DEF MdlInv, Judged, Accounted, Account, Lag, InWindow
  <2>7. Session' /\ Tried' /\ NobodyAccused'
    BY <1>1, <1>2, <2>2, <2>3 DEF MdlInv, Session, Tried, NobodyAccused
  <2>8. Presence' /\ Showing'
    BY <1>1, <1>2, <2>1 DEF MdlInv, Presence, Showing, App, Authenticates, DeviceKey
  <2> QED
    BY <1>s, <2>3, <2>5, <2>6, <2>7, <2>8 DEF MdlInv
<1> QED
  BY <1>4, <1>5, <1>6

\* A list that is found and read was made before, and is no older than the
\* fetcher may serve it.
LEMMA Found ==
  ASSUME NEW found \in Lookup, MdlInv
  PROVE  /\ found.list \in List
         /\ \/ found.list = "skipped" /\ call.crl = "none" /\ found.cache = cache
            \/ found.list = "unreachable" /\ call.crl # "none" /\ found.cache = cache
            \/ /\ call.crl # "none"
               /\ \E made \in Time :
                    /\ found = Shows(made) /\ made <= clock
                    /\ clock <= made + Lag
<1>1. /\ Period \in Nat /\ MaxStale \in Nat /\ clock \in Nat /\ cache \subseteq Time /\ Cached
      /\ Time \subseteq Nat /\ (call.crl # "caching" => cache = {}) /\ MaxTime \in Nat /\ clock <= MaxTime
  BY MdlConstants DEF MdlInv, TypeOK, Time, Cached
<1>2. Lag = IF call.crl = "caching" THEN Period + MaxStale ELSE Period
  BY <1>1 DEF Lag
<1>3. ASSUME NEW made \in Time, made <= clock, found = Shows(made), clock <= made + Lag, call.crl # "none"
      PROVE  found.list \in List
  BY <1>3 DEF Shows, List
<1>4. CASE ~UsesCrl
  BY <1>4 DEF Lookup, Nothing, UsesCrl, List
<1>5. CASE UsesCrl /\ found = Nothing("unreachable")
  BY <1>5 DEF Nothing, UsesCrl, List
<1>6. CASE UsesCrl /\ \E made \in Published : found = Shows(made)
  <2>1. PICK made \in Published : found = Shows(made)
    BY <1>6
  <2>2. made \in Nat /\ made <= clock /\ clock <= made + Period
    BY <1>1, <2>1 DEF Published, Fresh
  <2>3. clock <= made + Lag /\ made \in Time
    BY <1>1, <1>2, <2>2 DEF Time
  <2> QED
    BY <1>3, <1>6, <2>1, <2>2, <2>3 DEF UsesCrl
<1>7. CASE UsesCrl /\ (\E made \in cache : Fresh(made) \/ Stale(made)) /\ \E made \in cache : found = Shows(made)
  <2>1. PICK old \in cache : Fresh(old) \/ Stale(old)
    BY <1>7
  <2>2. PICK made \in cache : found = Shows(made)
    BY <1>7
  <2>3. call.crl = "caching" /\ made = old
    BY <1>1, <2>1, <2>2 DEF MdlInv, Cached
  <2>4. made \in Time /\ made \in Nat /\ made <= clock /\ clock <= made + Period + MaxStale
    BY <1>1, <2>1, <2>2, <2>3 DEF Fresh, Stale, Cached
  <2> QED
    BY <1>1, <1>2, <1>3, <1>7, <2>2, <2>3, <2>4 DEF UsesCrl
<1> QED
  BY <1>4, <1>5, <1>6, <1>7 DEF Lookup

\* What the chain and its list come to, against what the verdict says of it.
LEMMA Chains ==
  ASSUME MdlInv, NEW d, NEW found \in Lookup, NEW v,
         v.trusted = Trusted(d, found.list), v.list = found.list, v.asked = clock
  PROVE  Account(v, d)
<1>1. /\ Lag \in Nat /\ clock \in Nat /\ revoked \in Nat
  BY MdlConstants DEF MdlInv, TypeOK, Lag, Time
<1>2. CASE found.list \in {"skipped", "unreachable"}
  BY <1>2, Found DEF Account, Trusted, Shows
<1>3. CASE found.list \notin {"skipped", "unreachable"}
  <2>1. PICK made \in Time : found = Shows(made) /\ made <= clock /\ clock <= made + Lag
    BY <1>3, Found
  <2>2. call.crl # "none" /\ made \in Nat
    BY <1>3, Found DEF Time
  <2>3. found.list = IF revoked <= made THEN "revoked" ELSE "clean"
    BY <2>1 DEF Shows
  <2>4. found.list # "revoked" => clock < revoked + Lag
    BY <1>1, <2>1, <2>2, <2>3
  <2>5. clock < revoked => found.list # "revoked"
    BY <1>1, <2>1, <2>2, <2>3
  <2> QED
    BY <1>3, <2>2, <2>4, <2>5 DEF Account, Trusted
<1> QED
  BY <1>2, <1>3

LEMMA ValidateChainKeeps ==
  ASSUME MdlInv, ValidateChain
  PROVE  MdlInv'
<1>1. /\ pc = "chain" /\ UNCHANGED world
      /\ UNCHANGED <<clock, at, candidate, matched, shown>>
  BY DEF ValidateChain
<1>2. Inputs /\ TypeOK /\ Cached /\ Fault(Present) = "none"
  BY <1>1 DEF MdlInv, Order
<1>3. PICK found \in Lookup :
        /\ cache' = IF call.crl = "caching" THEN found.cache ELSE cache
        /\ Add(Trusted(Present, found.list), found.list)
  BY DEF ValidateChain
<1> DEFINE t == Trusted(Present, found.list)
           v == [trusted |-> t, list |-> found.list, asked |-> clock, inWindow |-> InWindow(Present)]
<1>4. /\ found.list \in List /\ t \in BOOLEAN
      /\ t => Present.signer = "issuer" /\ at \in CertificateWindow
  BY Found DEF Trusted
<1>5. Account(v, Present)
  BY Chains
<1>6. Cached'
  <2>1. found.cache = cache \/ \E made \in Time : found.cache = {made} /\ made <= clock
    BY Found DEF Shows
  <2> QED
    BY <1>1, <1>2, <1>3, <2>1 DEF TypeOK, Cached, world
<1>7. Add(t, found.list)
  BY <1>3
<1>8. v = [trusted |-> t, list |-> found.list, asked |-> clock, inWindow |-> InWindow(Present)]
  OBVIOUS
<1> HIDE DEF t, v
<1> QED
  BY <1>1, <1>2, <1>4, <1>5, <1>6, <1>7, <1>8, AddKeeps

\* While a list is looked up, time passes.
LEMMA TickKeeps ==
  ASSUME MdlInv, Tick
  PROVE  MdlInv'
<1>1. /\ pc = "chain" /\ UNCHANGED <<call, response, signed, revoked>> /\ UNCHANGED cache
      /\ UNCHANGED <<pc, at, verified, candidate, matched, shown, result>>
  BY DEF Tick, world
<1>2. clock' \in Time /\ clock' = clock + 1
  BY DEF Tick
<1>3. /\ Inputs' /\ (App' <=> App) /\ (Any' <=> Any) /\ (Live' <=> Live)
      /\ Blameless' <=> Blameless
  BY <1>1, SameWorld DEF MdlInv
<1>4. Present' = Present
  BY <1>1 DEF Present
<1>5. TypeOK' /\ Order'
  BY <1>1, <1>2, <1>3, <1>4 DEF MdlInv, TypeOK, Order, Ok
<1>6. Judged' /\ Accounted'
  BY <1>1 DEF MdlInv, Judged, Accounted, Account, Lag, InWindow
<1>7. Cached'
  BY <1>1, <1>2 DEF MdlInv, TypeOK, Cached, Time
<1>8. Session' /\ Tried' /\ NobodyAccused'
  BY <1>1, <1>3 DEF MdlInv, Session, Tried, NobodyAccused
<1>9. Presence' /\ Showing'
  BY <1>1 DEF MdlInv, Presence, Showing, App, Authenticates, DeviceKey
<1> QED
  BY <1>3, <1>5, <1>6, <1>7, <1>8, <1>9 DEF MdlInv

LEMMA AskReaderKeyKeeps ==
  ASSUME MdlInv, AskReaderKey
  PROVE  MdlInv'
<1>1. /\ pc = "readerKey" /\ UNCHANGED world /\ UNCHANGED changing
      /\ UNCHANGED <<at, verified, candidate, matched, shown>>
  BY DEF AskReaderKey
<1>2. UNCHANGED <<call, response, signed, revoked>> /\ UNCHANGED <<clock, cache>>
  BY <1>1 DEF world, changing
<1>s. UNCHANGED clock /\ Cached'
  BY <1>2, SameCache
<1>3. /\ Inputs /\ TypeOK /\ at \in Time /\ result = "running"
      /\ Any /\ candidate = 1 /\ shown = 0 /\ matched = 0
      /\ call.entry # "verify_device_auth" => Len(verified) = Len(response)
  BY <1>1 DEF MdlInv, Order, Session, TypeOK
<1>4. CASE \E i \in DOMAIN response : NeedsKey(response[i])
  <2>1. Fail("EReaderKeyRequired")
    BY <1>4 DEF AskReaderKey
  <2> QED
    BY <1>1, <1>3, <2>1, <1>s, Failing DEF MdlError
<1>5. CASE \A i \in DOMAIN response : ~NeedsKey(response[i])
  <2>1. pc' = "device" /\ result' = "running"
    BY <1>3, <1>5 DEF AskReaderKey, Go
  <2>2. /\ Inputs' /\ (App' <=> App) /\ (Any' <=> Any) /\ (Live' <=> Live)
        /\ Blameless' <=> Blameless
    BY <1>2, <1>3, SameWorld
  <2>3. TypeOK' /\ Order'
    BY <1>1, <1>2, <1>3, <2>1, <2>2 DEF TypeOK, Order
  <2>4. Judged' /\ Accounted'
    BY <1>1, <1>2 DEF MdlInv, Judged, Accounted, Account, Lag, InWindow
  <2>5. Live /\ 1 <= Len(call.candidates)
    <3>1. Live
      BY <1>3 DEF Live, Any
    <3>2. call.candidates # <<>>
      BY <1>1, <3>1 DEF MdlInv, Session
    <3>3. Len(call.candidates) \in Nat /\ Len(call.candidates) # 0
      BY <1>3, <3>2, CandidateList
    <3> QED
      BY <3>1, <3>3
  <2>6. Session' /\ NobodyAccused'
    BY <1>1, <1>2, <1>3, <2>1, <2>2, <2>5 DEF Session, NobodyAccused
  <2>7. Presence' /\ Showing'
    BY <1>1, <1>3 DEF Presence, Showing
  <2>8. Tried'
    BY <1>1, <1>2, <1>3, <1>5 DEF Tried, NeedsKey
  <2> QED
    BY <1>s, <2>2, <2>3, <2>4, <2>6, <2>7, <2>8 DEF MdlInv
<1> QED
  BY <1>4, <1>5

\* A set of natural numbers has a first.
LEMMA First ==
  ASSUME NEW T, T \subseteq Nat, T # {}
  PROVE  \E x \in T : \A y \in T : x <= y
<1> DEFINE R == {ss \in Nat \X Nat : ss[1] < ss[2]}
<1>1. IsWellFoundedOn(R, Nat)
  BY NatLessThanWellFounded DEF OpToRel
<1>2. \E x \in T : \A y \in T : ~ (<<y, x>> \in R)
  <2> HIDE DEF R
  <2> QED
    BY <1>1, WFMin
<1>3. PICK x \in T : \A y \in T : ~ (<<y, x>> \in R)
  BY <1>2
<1>4. ASSUME NEW y \in T PROVE x <= y
  <2>1. x \in Nat /\ y \in Nat /\ ~ (<<y, x>> \in R)
    BY <1>3
  <2>2. ~ (y < x)
    BY <2>1
  <2> QED
    BY <2>1, <2>2
<1> QED
  BY <1>3, <1>4

\* Why device authentication over a transcript fails: a document fails, and
\* it is the key that is missing if that is so for all that do.
LEMMA DeviceErrors ==
  ASSUME NEW t, Inputs
  PROVE  /\ DeviceError(t) \in {"none", "DeviceAuth", "EReaderKeyRequired"}
         /\ DeviceError(t) = "none" => \A i \in DOMAIN response : Authenticates(response[i], t)
         /\ DeviceError(t) = "DeviceAuth" =>
              \E i \in DOMAIN response : ~Authenticates(response[i], t) /\ ~NeedsKey(response[i])
<1> DEFINE fails == {i \in DOMAIN response : ~Authenticates(response[i], t)}
           first == CHOOSE i \in fails : \A j \in fails : i <= j
<1>1. CASE fails = {}
  BY <1>1 DEF DeviceError
<1>2. CASE fails # {}
  <2>1. \E i \in fails : \A j \in fails : i <= j
    <3>1. fails \subseteq Nat
      BY ResponseList
    <3> HIDE DEF fails
    <3> QED
      BY <1>2, <3>1, First
  <2>2. first \in fails
    BY <2>1
  <2>3. DeviceError(t) = IF NeedsKey(response[first]) THEN "EReaderKeyRequired" ELSE "DeviceAuth"
    BY <1>2 DEF DeviceError
  <2> HIDE DEF first
  <2> QED
    BY <2>2, <2>3
<1> QED
  BY <1>1, <1>2

\* The last transcript is not refused to a holder who signed one of them.
LEMMA BlamelessIsNotRefused ==
  ASSUME MdlInv, pc = "device", Blameless,
         DeviceError(call.candidates[candidate]) = "DeviceAuth"
  PROVE  Any /\ candidate < Len(call.candidates)
<1> DEFINE list == call.candidates
<1>1. Inputs /\ Live /\ Tried /\ candidate \in 1 .. Len(list) /\ DOMAIN list = 1 .. Len(list) /\ Len(list) \in Nat
  <2>1. Inputs /\ Live /\ Tried /\ candidate <= Len(list)
    BY DEF MdlInv, Session
  <2>2. candidate \in 1 .. Len(list) + 1
    BY DEF MdlInv, TypeOK
  <2>3. Len(list) \in Nat /\ DOMAIN list = 1 .. Len(list)
    BY <2>1, CandidateList
  <2> QED
    BY <2>1, <2>2, <2>3
<1>2. PICK j \in DOMAIN list :
        \A i \in DOMAIN response :
          /\ response[i].by = DeviceKey(response[i]) /\ response[i].over = list[j]
          /\ response[i].fault \notin {"mso", "deviceKey"}
  BY <1>1 DEF Blameless
<1>3. \A i \in DOMAIN response : ~NeedsKey(response[i]) => Authenticates(response[i], list[j])
  BY <1>2 DEF Authenticates, NeedsKey
<1>4. PICK i \in DOMAIN response :
        ~Authenticates(response[i], list[candidate]) /\ ~NeedsKey(response[i])
  BY <1>1, DeviceErrors
<1>5. j # candidate
  BY <1>3, <1>4
<1>6. CASE ~Any
  <2>1. call.entry \in Entry /\ WellTyped(call)
    BY <1>1 DEF Inputs, Call
  <2>2. call.entry \in {"verify_presentation", "verify_device_auth"}
    BY <1>1, <1>6, <2>1 DEF Entry, Live, Any
  <2>3. Len(list) = 1
    BY <2>1, <2>2 DEF WellTyped
  <2>4. j \in 1 .. Len(list)
    BY <1>1
  <2> QED
    BY <1>1, <1>5, <2>3, <2>4
<1>7. CASE Any
  <2>1. \A k \in 1 .. candidate - 1 : j # k
    BY <1>1, <1>3, <1>7 DEF Tried
  <2>2. j \in 1 .. Len(list) /\ candidate \in 1 .. Len(list) /\ Len(list) \in Nat
    BY <1>1
  <2>3. ~(j < candidate)
    BY <2>1, <2>2
  <2> QED
    BY <1>5, <1>7, <2>2, <2>3
<1> QED
  BY <1>6, <1>7

LEMMA TryCandidateKeeps ==
  ASSUME MdlInv, TryCandidate
  PROVE  MdlInv'
<1> DEFINE t == call.candidates[candidate]
<1>1. /\ pc = "device" /\ UNCHANGED world /\ UNCHANGED changing
      /\ UNCHANGED <<at, verified, shown>>
  BY DEF TryCandidate
<1>2. UNCHANGED <<call, response, signed, revoked>> /\ UNCHANGED <<clock, cache>>
  BY <1>1 DEF world, changing
<1>s. UNCHANGED clock /\ Cached'
  BY <1>2, SameCache
<1>3. /\ Inputs /\ TypeOK /\ Tried /\ at \in Time /\ result = "running"
      /\ Live /\ candidate <= Len(call.candidates) /\ shown = 0 /\ matched = 0
      /\ call.entry # "verify_device_auth" => Len(verified) = Len(response)
  BY <1>1 DEF MdlInv, Order, Session, TypeOK
<1>4. /\ Inputs' /\ (App' <=> App) /\ (Any' <=> Any) /\ (Live' <=> Live)
      /\ Blameless' <=> Blameless
  BY <1>2, <1>3, SameWorld
<1>5. /\ candidate \in 1 .. Len(call.candidates) + 1 /\ Len(call.candidates) \in Nat
  BY <1>3, CandidateList DEF TypeOK
<1>6. DeviceError(t) \in {"none", "DeviceAuth", "EReaderKeyRequired"}
  BY <1>3, DeviceErrors
<1>7. Judged' /\ Accounted'
  BY <1>1, <1>2 DEF MdlInv, Judged, Accounted, Account, Lag, InWindow
<1>8. CASE DeviceError(t) = "none"
  <2>1. matched' = candidate /\ Conclude /\ UNCHANGED candidate
    BY <1>8 DEF TryCandidate
  <2>2. \/ pc' = "verdict" /\ result' = "running" /\ App
        \/ pc' = "done" /\ result' = "ok" /\ ~App
    BY <1>3, <2>1 DEF Conclude, Go
  <2>3. matched' \in 0 .. Len(call.candidates)
    BY <1>3, <1>5, <2>1
  <2>4. TypeOK'
    BY <1>1, <1>2, <1>3, <1>4, <2>1, <2>2, <2>3 DEF TypeOK
  <2>5. Order' /\ Session' /\ Tried' /\ NobodyAccused' /\ Showing'
    BY <1>1, <1>2, <1>3, <1>4, <2>2 DEF Order, Session, Tried, NobodyAccused, Showing, Ok
  <2>6. Presence'
    <3>1. \A i \in DOMAIN response : Authenticates(response[i], t)
      BY <1>3, <1>8, DeviceErrors
    <3> QED
      BY <1>2, <2>1, <3>1 DEF Presence, Authenticates, DeviceKey
  <2> QED
    BY <1>s, <1>4, <1>7, <2>4, <2>5, <2>6 DEF MdlInv
<1>9. CASE Any /\ DeviceError(t) = "DeviceAuth" /\ candidate < Len(call.candidates)
  <2>1. candidate' = candidate + 1 /\ Go("device") /\ UNCHANGED matched
    BY <1>9 DEF TryCandidate
  <2>2. pc' = "device" /\ result' = "running" /\ pc' # "done"
    BY <1>3, <2>1 DEF Go
  <2>3. candidate' \in 1 .. Len(call.candidates) + 1 /\ candidate' <= Len(call.candidates)
    BY <1>5, <1>9, <2>1
  <2>4. TypeOK'
    BY <1>1, <1>2, <1>3, <1>4, <2>1, <2>2, <2>3 DEF TypeOK
  <2>5. Order' /\ Session' /\ NobodyAccused' /\ Showing' /\ Presence'
    BY <1>1, <1>2, <1>3, <1>4, <2>1, <2>2, <2>3
    DEF Order, Session, NobodyAccused, Showing, Presence, Ok
  <2>6. Tried'
    <3>1. \E i \in DOMAIN response : ~Authenticates(response[i], t)
      BY <1>3, <1>9, DeviceErrors
    <3>2. ASSUME NEW j \in 1 .. candidate' - 1
          PROVE  \E i \in DOMAIN response : ~Authenticates(response[i], call.candidates[j])
      <4>1. j \in 1 .. candidate - 1 \/ j = candidate
        BY <1>5, <2>1
      <4> QED
        BY <1>1, <1>3, <3>1, <4>1 DEF Tried
    <3>3. \A i \in DOMAIN response : ~NeedsKey(response[i])
      BY <1>1, <1>3, <1>9 DEF Tried
    <3> QED
      BY <1>2, <3>2, <3>3 DEF Tried, NeedsKey, Authenticates, DeviceKey
  <2> QED
    BY <1>s, <1>4, <1>7, <2>4, <2>5, <2>6 DEF MdlInv
<1>10. CASE DeviceError(t) # "none" /\ ~(Any /\ DeviceError(t) = "DeviceAuth" /\ candidate < Len(call.candidates))
  <2>1. Fail(DeviceError(t)) /\ UNCHANGED <<candidate, matched>>
    BY <1>10 DEF TryCandidate
  <2>2. Blameless => DeviceError(t) \notin {"Tampered", "DeviceAuth"}
    BY <1>1, <1>6, <1>10, BlamelessIsNotRefused
  <2>3. DeviceError(t) \in MdlError \cup {"Anchor"} /\ DeviceError(t) # "Anchor"
    BY <1>6, <1>10 DEF MdlError
  <2>4. at' = at /\ at' \in Time
    BY <1>1, <1>3
  <2> QED
    BY <1>1, <2>1, <2>2, <2>3, <2>4, <1>s, Failing
<1> QED
  BY <1>8, <1>9, <1>10

LEMMA ShowMdlKeeps ==
  ASSUME MdlInv, ShowMdl
  PROVE  MdlInv'
<1> DEFINE licences == {i \in DOMAIN response : response[i].type = "mDL"}
<1>1. /\ pc = "verdict" /\ UNCHANGED world /\ UNCHANGED changing
      /\ UNCHANGED <<at, verified, candidate, matched>>
  BY DEF ShowMdl
<1>2. UNCHANGED <<call, response, signed, revoked>> /\ UNCHANGED <<clock, cache>>
  BY <1>1 DEF world, changing
<1>s. UNCHANGED clock /\ Cached'
  BY <1>2, SameCache
<1>3. /\ Inputs /\ TypeOK /\ at \in Time /\ App
      /\ call.entry # "verify_device_auth" => Len(verified) = Len(response)
  BY <1>1 DEF MdlInv, Order, Session, TypeOK
<1>4. CASE licences = {}
  <2>1. Fail("Unreadable") /\ UNCHANGED shown
    BY <1>4 DEF ShowMdl
  <2> QED
    BY <1>1, <1>3, <2>1, <1>s, Failing DEF MdlError
<1>5. CASE licences # {}
  <2>1. shown' \in licences /\ pc' = "done" /\ result' = "ok"
    BY <1>5 DEF ShowMdl
  <2>2. /\ Inputs' /\ (App' <=> App) /\ (Any' <=> Any) /\ (Live' <=> Live)
    BY <1>2, <1>3, SameWorld
  <2>3. shown' \in 0 .. Len(response)
    <3>1. shown' \in 1 .. Len(response) /\ Len(response) \in Nat
      BY <1>3, <2>1, ResponseList
    <3> QED
      BY <3>1
  <2>4. TypeOK'
    BY <1>1, <1>2, <1>3, <2>1, <2>2, <2>3 DEF TypeOK
  <2>5. Judged' /\ Accounted'
    BY <1>1, <1>2 DEF MdlInv, Judged, Accounted, Account, Lag, InWindow
  <2>6. Order' /\ Session' /\ Tried' /\ NobodyAccused'
    BY <1>1, <1>2, <1>3, <2>1 DEF Order, Session, Tried, NobodyAccused
  <2>7. Presence'
    BY <1>1, <1>2 DEF MdlInv, Presence, Authenticates, DeviceKey
  <2>8. Showing'
    BY <1>2, <1>3, <2>1, <2>2 DEF Showing
  <2> QED
    BY <1>s, <2>2, <2>4, <2>5, <2>6, <2>7, <2>8 DEF MdlInv
<1> QED
  BY <1>4, <1>5

LEMMA Inductive ==
  ASSUME MdlInv, [Next]_vars
  PROVE  MdlInv'
<1>1. CASE UNCHANGED vars
  <2>1. /\ UNCHANGED <<call, response, signed, revoked>> /\ UNCHANGED <<clock, cache>>
        /\ UNCHANGED <<pc, at, verified, candidate, matched, shown, result>>
    BY <1>1 DEF vars, world, changing
  <2>2. /\ Inputs' /\ (App' <=> App) /\ (Any' <=> Any) /\ (Live' <=> Live)
        /\ Blameless' <=> Blameless
    BY <2>1, SameWorld DEF MdlInv
  <2>3. Present' = Present /\ Cached'
    BY <2>1, SameCache DEF Present
  <2>4. TypeOK' /\ Order'
    BY <2>1, <2>2, <2>3 DEF MdlInv, TypeOK, Order, Ok
  <2>5. Judged' /\ Accounted'
    BY <2>1 DEF MdlInv, Judged, Accounted, Account, Lag, InWindow
  <2>6. Session' /\ NobodyAccused' /\ Showing'
    BY <2>1, <2>2 DEF MdlInv, Session, NobodyAccused, Showing
  <2>7. Presence'
    BY <2>1 DEF MdlInv, Presence, Authenticates, DeviceKey
  <2>8. Tried'
    <3>1. (\A i \in DOMAIN response : ~NeedsKey(response[i]))
            => (\A i \in DOMAIN response : ~NeedsKey(response[i]))'
      BY <2>1 DEF NeedsKey
    <3>2. (\A j \in 1 .. candidate - 1 :
             \E i \in DOMAIN response : ~Authenticates(response[i], call.candidates[j]))
            => (\A j \in 1 .. candidate - 1 :
                  \E i \in DOMAIN response : ~Authenticates(response[i], call.candidates[j]))'
      BY <2>1 DEF Authenticates, DeviceKey
    <3> QED
      BY <2>1, <2>2, <3>1, <3>2 DEF MdlInv, Tried
  <2> QED
    BY <2>2, <2>3, <2>4, <2>5, <2>6, <2>7, <2>8 DEF MdlInv
<1> QED
  BY <1>1, BeginKeeps, CheckDocumentKeeps, ValidateChainKeeps, TickKeeps,
     AskReaderKeyKeeps, TryCandidateKeeps, ShowMdlKeeps DEF Next

\* Whatever the response is put together from, the verification keeps its
\* books: documents judged at one instant, lists accounted for, transcripts
\* tried in turn, and nobody accused without cause.
THEOREM Invariance == Spec => []MdlInv
<1>1. Init => MdlInv
  BY Initially
<1>2. MdlInv /\ [Next]_vars => MdlInv'
  BY Inductive
<1> QED
  BY <1>1, <1>2, PTL DEF Spec

\* Every step leaves the variables of the verification within their types.
THEOREM TypeCorrect == Spec => []TypeOK
<1>1. MdlInv => TypeOK
  BY DEF MdlInv
<1> QED
  BY <1>1, Invariance, PTL

-----------------------------------------------------------------------------
(* The verdict.                                                            *)

\* A result holds documents as their issuer signed them, all of the response,
\* and verify_mdl shows one that was signed as a licence.
THEOREM ShownAsIssued == Spec => []IssuedAsShown
<1>1. ASSUME MdlInv, NEW i \in DOMAIN verified
      PROVE  /\ response[i].fault # "signature" /\ response[i].type = response[i].signed
             /\ verified[i].trusted => response[i].signer = "issuer"
  <2>1. Fault(response[i]) = "none" /\ (verified[i].trusted => response[i].signer = "issuer")
    BY <1>1 DEF MdlInv, Judged
  <2> QED
    BY <2>1, Faults
<1>2. ASSUME MdlInv, Ok, shown # 0 PROVE response[shown].signed = "mDL"
  <2>1. shown \in DOMAIN response /\ response[shown].type = "mDL"
    BY <1>2 DEF MdlInv, Showing
  <2>2. DOMAIN verified = DOMAIN response
    <3>1. Inputs /\ TypeOK /\ (call.entry # "verify_device_auth" => Len(verified) = Len(response))
      BY <1>2 DEF MdlInv, Order
    <3>2. App
      BY <1>2 DEF MdlInv, Showing
    <3>3. Len(verified) = Len(response)
      BY <3>1, <3>2 DEF App
    <3> QED
      BY <3>1, <3>3, ResponseList, VerifiedList
  <2> QED
    BY <1>1, <1>2, <2>1, <2>2
<1>3. ASSUME MdlInv, Ok PROVE call.entry # "verify_device_auth" => Len(verified) = Len(response)
  BY <1>3 DEF MdlInv, Order
<1>4. MdlInv => IssuedAsShown
  BY <1>1, <1>2, <1>3 DEF IssuedAsShown
<1> QED
  BY <1>4, Invariance, PTL

\* Of a document that is trusted, device_authenticated says that its holder
\* signed the reported transcript in this session.
THEOREM HolderWasPresent == Spec => []PresenceIsProven
<1>1. ASSUME MdlInv, matched # 0, NEW i \in DOMAIN verified, verified[i].trusted
      PROVE  call.candidates[matched] = signed
  <2>1. Inputs /\ TypeOK /\ response[i].signer = "issuer"
    BY <1>1 DEF MdlInv, Judged
  <2>2. i \in DOMAIN response
    BY <2>1, VerifiedList
  <2>3. Authenticates(response[i], call.candidates[matched])
    BY <1>1, <2>2 DEF MdlInv, Presence
  <2>4. response[i].by = "holder" /\ response[i].over = call.candidates[matched]
    BY <2>1, <2>3 DEF Authenticates, DeviceKey
  <2>5. response[i].over \in {signed, "elsewhere"}
    BY <2>1, <2>2, <2>4 DEF Inputs
  <2>6. call.candidates[matched] \in Built
    <3>1. matched \in 0 .. Len(call.candidates)
      BY <2>1 DEF TypeOK
    <3>2. matched \in DOMAIN call.candidates
      BY <1>1, <2>1, <3>1, CandidateList
    <3> QED
      BY <2>1, <3>2, CandidateList
  <2>7. "elsewhere" \notin Built
    BY MdlConstants
  <2> QED
    BY <2>4, <2>5, <2>6, <2>7
<1>2. MdlInv => PresenceIsProven
  BY <1>1 DEF PresenceIsProven
<1> QED
  BY <1>2, Invariance, PTL

\* A holder who signed every document over one of the transcripts is not
\* refused, and nothing genuine is called altered, where the MSO parses and the
\* build can use its device key.
THEOREM NobodyFalselyAccused == Spec => []NoFalseAccusation
<1>1. MdlInv => NoFalseAccusation
  BY DEF MdlInv, NobodyAccused, Blameless, NoFalseAccusation
<1> QED
  BY <1>1, Invariance, PTL

\* Trust rests on a list that was read, and is no older than the fetcher may
\* serve it, or that is noted, and is lost to nothing else.
THEOREM TrustIsRight == Spec => []TrustIsAccounted
<1>1. ASSUME MdlInv, NEW i \in DOMAIN verified
      PROVE  Account(verified[i], response[i])
  BY <1>1 DEF MdlInv, Accounted
<1>2. MdlInv => TrustIsAccounted
  BY <1>1 DEF TrustIsAccounted, Account
<1> QED
  BY <1>2, Invariance, PTL

\* All windows are judged at the instant that the call began.
THEOREM JudgedAtOnce == Spec => []OneInstant
<1>1. ASSUME MdlInv
      PROVE  /\ at \in Time
             /\ \A i \in DOMAIN verified :
                  /\ verified[i].inWindow <=> at \in MsoWindow[response[i].signed]
                  /\ verified[i].trusted => at \in CertificateWindow
  BY <1>1 DEF MdlInv, TypeOK, Judged, InWindow
<1>2. MdlInv => OneInstant
  BY <1>1 DEF OneInstant
<1> QED
  BY <1>2, Invariance, PTL

=============================================================================
