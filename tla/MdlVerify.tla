----------------------------- MODULE MdlVerify -----------------------------
(***************************************************************************)
(* mdl-verify over one DeviceResponse, and identity-mobile's verify_mdl on *)
(* top of it: issuer authentication document by document, the certificate  *)
(* chain and its CRL, device authentication over candidate transcripts,    *)
(* and the document that is shown in the end.                              *)
(*                                                                         *)
(* A response is assembled by whoever presents it: from what an issuer and *)
(* a holder signed, in this session or elsewhere, and from documents of    *)
(* the presenter's own making.  A document has at most one fault besides a *)
(* docType that is not the signed one.  The call runs without interruption *)
(* but for the lookup of a CRL, where time passes.                         *)
(*                                                                         *)
(* A CRL is known by the instant it was made; it is good for Period, and a *)
(* caching fetcher serves it for MaxStale longer when it gets no other.    *)
(***************************************************************************)
EXTENDS Naturals, Sequences

CONSTANTS
  Documents,         \* the documents a response may be assembled from
  MaxDocuments,      \* bound: documents in a response
  Built,             \* the transcripts of this session, by profile
  Candidates,        \* the lists of them that a caller may pass
  MaxStart, MaxTime, \* bounds: the last instant a call begins at, and the last
  MsoWindow,         \* when a document of each type is valid
  CertificateWindow, \* when the signer's certificate is
  Period,            \* from a CRL to its nextUpdate
  MaxStale           \* max_stale: how long past that a cached one is served

VARIABLES
  call,        \* the entry point and its arguments
  response,    \* the documents
  signed,      \* the transcript the holder signed in this session, or "none"
  revoked,     \* from when on a CRL that is made shows the issuer's certificate
  clock,       \* the time
  cache,       \* when the CRL in the cache was made, or empty
  pc,          \* the step of the verification
  at,          \* the instant everything is judged at
  verified,    \* the documents verified so far
  candidate,   \* index of the transcript tried next
  matched,     \* index of the transcript that matched, 0 if none
  shown,       \* index of the document verify_mdl returns, 0 if none
  result

world == <<call, response, signed, revoked>>
changing == <<clock, cache>>
vars == <<world, changing, pc, at, verified, candidate, matched, shown, result>>

-----------------------------------------------------------------------------

Entry == {"verify_issuer_auth", "verify_device_auth", "verify_presentation",
          "verify_presentation_any", "verify_mdl", "verify_mdl_session"}
DocType == {"mDL", "photoID"}
Time == 0 .. MaxTime

\* What a device signature may be over.
Transcript == Built \cup {"elsewhere"}

\* signer: whose Document Signer key signed the MSO, which binds the holder's
\* device key or the presenter's.  by, over: who made the device signature
\* (or MAC), over which transcript.  Two faults are of the signer's making: an
\* MSO that does not parse, and one with a device key that this build cannot
\* use.
DocumentFault == {"none", "x5chain", "curve", "signature", "mso", "dates", "elements", "deviceKey"}
Document == [signer : {"issuer", "presenter"}, fault : DocumentFault,
             signed : DocType, type : DocType,
             mac : BOOLEAN, by : {"holder", "presenter"}, over : Transcript]

ASSUME MdlConstants ==
  /\ Documents \subseteq Document /\ MaxDocuments \in Nat
  /\ MaxTime \in Nat /\ MaxStart \in Time
  /\ Candidates \subseteq Seq(Built) /\ {"elsewhere", "none"} \cap Built = {}
  /\ Period \in Nat /\ MaxStale \in Nat

DeviceKey(d) == IF d.signer = "issuer" THEN "holder" ELSE "presenter"

Responses == UNION {[1 .. n -> Documents] : n \in 0 .. MaxDocuments}

\* The fetcher: upstream's no-op, one that asks the server every time, or one
\* with a cache.
Fetcher == {"none", "simple", "caching"}

Call == [entry : Entry, anchors : {"none", "issuer", "malformed"}, crl : Fetcher,
         readerKey : BOOLEAN, candidates : Candidates]

\* verify_mdl takes DER and no CRL checker; the others take parsed anchors.
\* Without a session there is neither a transcript nor a reader key.
WellTyped(c) ==
  /\ c.anchors = "malformed" => c.entry \in {"verify_mdl", "verify_mdl_session"}
  /\ c.crl # "none" => c.entry \notin {"verify_mdl", "verify_mdl_session", "verify_device_auth"}
  /\ c.entry \in {"verify_issuer_auth", "verify_mdl"} => c.candidates = <<>> /\ ~c.readerKey
  /\ c.entry \in {"verify_presentation", "verify_device_auth"} => Len(c.candidates) = 1
  /\ c.entry = "verify_device_auth" => c.anchors = "none"

MdlError == {"Unreadable", "NoDocuments", "MissingSignerCertificate",
             "UnsupportedAlgorithm", "Tampered", "DeviceAuth", "EReaderKeyRequired"}
IdentityError == {"Unreadable", "NotAuthentic", "UnsupportedAlgorithm",
                  "SessionKeyRequired", "Anchor"}
\* What came of a CRL: "skipped" by the no-op fetcher, "none" without anchors.
List == {"none", "skipped", "unreachable", "clean", "revoked"}

\* asked (auxiliary): when the list was looked up.
Verified == [trusted : BOOLEAN, inWindow : BOOLEAN, list : List, asked : Time]

App == call.entry \in {"verify_mdl", "verify_mdl_session"}
Any == call.entry \in {"verify_presentation_any", "verify_mdl_session"}
Live == call.entry \notin {"verify_issuer_auth", "verify_mdl"}

TypeOK ==
  /\ revoked \in Nat
  /\ clock \in Time /\ at \in Time
  /\ cache \subseteq Time
  /\ pc \in {"begin", "issuer", "chain", "readerKey", "device", "verdict", "done"}
  /\ verified \in Seq(Verified)
  /\ Len(verified) <= Len(response)
  /\ candidate \in 1 .. Len(call.candidates) + 1
  /\ matched \in 0 .. Len(call.candidates)
  /\ shown \in 0 .. Len(response)
  /\ pc = "done" <=> result # "running"
  /\ result \in {"running", "ok"} \cup (IF App THEN IdentityError ELSE MdlError)

Init ==
  /\ call \in {c \in Call : WellTyped(c)}
  /\ response \in Responses
  /\ signed \in Built \cup {"none"}
  /\ \A i \in DOMAIN response :
       response[i].by = "holder" => response[i].over \in {signed, "elsewhere"}
  /\ revoked \in IF call.crl = "none" THEN {MaxTime + 1} ELSE 0 .. MaxTime + 1
  /\ clock \in 0 .. MaxStart
  /\ cache \in {{}} \cup {{made} : made \in 0 .. clock}
  /\ call.crl # "caching" => cache = {}
  /\ pc = "begin"
  /\ at = clock
  /\ verified = <<>>
  /\ candidate = 1
  /\ matched = 0
  /\ shown = 0
  /\ result = "running"

-----------------------------------------------------------------------------
(* How a call ends.                                                        *)

\* map_error.
Report(error) ==
  IF ~App THEN error
  ELSE CASE error \in {"Tampered", "DeviceAuth"} -> "NotAuthentic"
         [] error = "EReaderKeyRequired" -> "SessionKeyRequired"
         [] error \in {"UnsupportedAlgorithm", "Anchor"} -> error
         [] OTHER -> "Unreadable"

Fail(error) == pc' = "done" /\ result' = Report(error)
Go(step) == pc' = step /\ UNCHANGED result

\* mdl-verify is through; verify_mdl goes on to pick a document.
Conclude == IF App THEN Go("verdict") ELSE pc' = "done" /\ result' = "ok"

-----------------------------------------------------------------------------
(* Before anything is verified.                                            *)

\* What the arguments are refused for; then whether the bytes decode.
Refusal(decodes) ==
  CASE call.anchors = "malformed" -> "Anchor"
    [] App /\ Live /\ call.candidates = <<>> -> "Unreadable"
    [] Any /\ call.candidates = <<>> -> "DeviceAuth"
    [] ~decodes -> "Unreadable"
    [] response = <<>> -> "NoDocuments"
    [] OTHER -> "none"

Begin ==
  /\ pc = "begin"
  /\ at' = clock
  /\ \E decodes \in BOOLEAN :
       IF Refusal(decodes) # "none" THEN Fail(Refusal(decodes))
       ELSE Go(IF call.entry = "verify_device_auth" THEN "device" ELSE "issuer")
  /\ UNCHANGED <<world, changing, verified, candidate, matched, shown>>

-----------------------------------------------------------------------------
(* verify_documents_with.                                                  *)

Present == response[Len(verified) + 1]

\* Faulty: the docType is the holder's word.
FaultAsClaimed(d) ==
  CASE d.fault = "x5chain" -> "MissingSignerCertificate"
    [] d.fault = "curve" -> "UnsupportedAlgorithm"
    [] d.fault \in {"signature", "mso"} -> "Tampered"
    [] d.fault = "dates" -> "Unreadable"
    [] OTHER -> "none"

\* What keeps a document from being issuer-authentic, up to its validity.  The
\* device key is not looked at.
Fault(d) ==
  CASE d.fault = "x5chain" -> "MissingSignerCertificate"
    [] d.fault = "curve" -> "UnsupportedAlgorithm"
    [] d.fault \in {"signature", "mso"} \/ d.signed # d.type -> "Tampered"
    [] d.fault = "dates" -> "Unreadable"
    [] OTHER -> "none"

\* Faulty: the clock is read once more for every document.
InWindowNow(d) == clock \in MsoWindow[d.signed]

InWindow(d) == at \in MsoWindow[d.signed]

AfterIssuer ==
  CASE Any -> Go("readerKey")
    [] call.entry = "verify_presentation" -> Go("device")
    [] OTHER -> Conclude

\* The document is in the result; its elements are converted last.
Add(trusted, list) ==
  IF Present.fault = "elements" THEN Fail("Unreadable") /\ UNCHANGED verified
  ELSE /\ verified' = Append(verified, [trusted |-> trusted, list |-> list, asked |-> clock,
                                        inWindow |-> InWindow(Present)])
       /\ IF Len(verified') < Len(response) THEN Go("issuer") ELSE AfterIssuer

CheckDocument ==
  /\ pc = "issuer"
  /\ IF Fault(Present) # "none" THEN Fail(Fault(Present)) /\ UNCHANGED verified
     ELSE IF call.anchors = "none" THEN Add(FALSE, "none")
     ELSE Go("chain") /\ UNCHANGED verified
  /\ UNCHANGED <<world, changing, at, candidate, matched, shown>>

\* Faulty: with candidate transcripts the no-op fetcher is used.
UsesCrlUnlessAny == call.crl # "none" /\ ~Any

\* The fetcher is the caller's in every function of the revocation module.
UsesCrl == call.crl # "none"

\* Looking a list up (external): a cached one as long as it is fresh; else one
\* that the server has, which is not past its nextUpdate; and when there is no
\* answer, the cached one up to MaxStale past it.
Fresh(made) == clock <= made + Period
Stale(made) == clock <= made + Period + MaxStale
Published == {made \in 0 .. clock : Fresh(made)}

Shows(made) == [list |-> IF revoked <= made THEN "revoked" ELSE "clean", cache |-> {made}]
Nothing(list) == [list |-> list, cache |-> cache]

Lookup ==
  IF ~UsesCrl THEN {Nothing("skipped")}
  ELSE IF \E made \in cache : Fresh(made) THEN {Shows(made) : made \in cache}
  ELSE {Shows(made) : made \in Published}
       \cup (IF \E made \in cache : Stale(made) THEN {Shows(made) : made \in cache}
             ELSE {Nothing("unreachable")})

\* The chain (external): to an anchor, at an instant, and not revoked.
Trusted(d, list) ==
  /\ d.signer = "issuer" /\ call.anchors = "issuer"
  /\ at \in CertificateWindow
  /\ list # "revoked"

ValidateChain ==
  /\ pc = "chain"
  /\ \E found \in Lookup :
       /\ cache' = IF call.crl = "caching" THEN found.cache ELSE cache
       /\ Add(Trusted(Present, found.list), found.list)
  /\ UNCHANGED <<world, clock, at, candidate, matched, shown>>

\* Meanwhile.
Tick ==
  /\ pc = "chain" /\ UsesCrl
  /\ clock + 1 \in Time
  /\ clock' = clock + 1
  /\ UNCHANGED <<world, cache, pc, at, verified, candidate, matched, shown, result>>

-----------------------------------------------------------------------------
(* Device authentication.                                                  *)

\* Faulty: a reader key of zeros is as good as any.
NeedsKeyNever(d) == FALSE

NeedsKey(d) == d.mac /\ ~call.readerKey

\* device_authentication (external): the device key the issuer bound in the
\* MSO, over this transcript.  An MSO or a device key that is of no use is an
\* error like any other.
Authenticates(d, t) ==
  /\ d.fault \notin {"mso", "deviceKey"}
  /\ d.by = DeviceKey(d) /\ d.over = t
  /\ d.mac => call.readerKey

\* verify_presentation_any asks for the key before it tries anything.
AskReaderKey ==
  /\ pc = "readerKey"
  /\ IF \E i \in DOMAIN response : NeedsKey(response[i])
     THEN Fail("EReaderKeyRequired") ELSE Go("device")
  /\ UNCHANGED <<world, changing, at, verified, candidate, matched, shown>>

\* Faulty: one document proves the holder's presence for all.
DeviceErrorOfAll(t) ==
  IF \E i \in DOMAIN response : Authenticates(response[i], t) THEN "none" ELSE "DeviceAuth"

\* verify_response_device_auth: the first document that fails says why.
DeviceError(t) ==
  LET fails == {i \in DOMAIN response : ~Authenticates(response[i], t)} IN
  IF fails = {} THEN "none"
  ELSE LET first == CHOOSE i \in fails : \A j \in fails : i <= j
       IN IF NeedsKey(response[first]) THEN "EReaderKeyRequired" ELSE "DeviceAuth"

TryCandidate ==
  LET error == DeviceError(call.candidates[candidate]) IN
  /\ pc = "device"
  /\ CASE error = "none" ->
            matched' = candidate /\ Conclude /\ UNCHANGED candidate
       [] Any /\ error = "DeviceAuth" /\ candidate < Len(call.candidates) ->
            candidate' = candidate + 1 /\ Go("device") /\ UNCHANGED matched
       [] OTHER -> Fail(error) /\ UNCHANGED <<candidate, matched>>
  /\ UNCHANGED <<world, changing, at, verified, shown>>

-----------------------------------------------------------------------------
(* verify_mdl shows the first mDL, with holder_bound if a transcript        *)
(* matched, and all notes of the chain and of its CRL as warnings.         *)

ShowMdl ==
  LET licences == {i \in DOMAIN response : response[i].type = "mDL"} IN
  /\ pc = "verdict"
  /\ IF licences = {} THEN Fail("Unreadable") /\ UNCHANGED shown
     ELSE /\ shown' \in {i \in licences : \A j \in licences : i <= j}
          /\ pc' = "done" /\ result' = "ok"
  /\ UNCHANGED <<world, changing, at, verified, candidate, matched>>

Next ==
  \/ Begin
  \/ CheckDocument \/ ValidateChain \/ Tick
  \/ AskReaderKey \/ TryCandidate
  \/ ShowMdl

Spec == Init /\ [][Next]_vars

-----------------------------------------------------------------------------
(* Properties.                                                             *)

Ok == result = "ok"

\* What is in a result is what an issuer signed and said it to be, whatever
\* else the response carries; verify_mdl shows a licence and nothing else.
IssuedAsShown ==
  Ok => /\ \A i \in DOMAIN verified :
             /\ response[i].fault # "signature" /\ response[i].type = response[i].signed
             /\ verified[i].trusted => response[i].signer = "issuer"
        /\ shown # 0 => response[shown].signed = "mDL"
        /\ call.entry # "verify_device_auth" => Len(verified) = Len(response)

\* device_authenticated, of a document that is trusted: its holder took part
\* in this session, and signed the transcript that is reported.
PresenceIsProven ==
  (Ok /\ matched # 0) =>
    \A i \in DOMAIN verified : verified[i].trusted => call.candidates[matched] = signed

\* A holder who signed every document over one of the transcripts, and the
\* issuer of these documents, are accused of nothing, in whichever order the
\* transcripts are tried.  A verifier without the reader key, or without the
\* signer's algorithm, says just that.  Not so where the MSO does not parse,
\* which issuer.rs calls Tampered, or where the build cannot use its device
\* key, which device.rs:190 calls DeviceAuth as it does a wrong signature:
\* nothing is claimed for these two.
NoFalseAccusation ==
  result \in {"Tampered", "DeviceAuth", "NotAuthentic"} =>
    ~ /\ \A i \in DOMAIN response :
           /\ response[i].fault \notin {"signature", "mso", "deviceKey"}
           /\ response[i].type = response[i].signed
      /\ Live => \E t \in {call.candidates[j] : j \in DOMAIN call.candidates} :
           \A i \in DOMAIN response :
             response[i].by = DeviceKey(response[i]) /\ response[i].over = t

\* How long a revoked certificate may still be found on no list.
Lag == Period + (IF call.crl = "caching" THEN MaxStale ELSE 0)

\* Trust and revocation are kept apart: a certificate on the list that was read
\* is never trusted; what is trusted without a note was looked up less than a
\* period after it was revoked, and with a cache less than max_stale later
\* still, whatever was cached before and fetched in between; what could not be
\* looked up is trusted with a note, and no trouble with the list takes trust
\* away.
TrustIsAccounted ==
  Ok => \A i \in DOMAIN verified :
    /\ verified[i].trusted /\ verified[i].list \notin {"skipped", "unreachable"}
         => /\ call.crl # "none" /\ verified[i].list # "revoked"
            /\ verified[i].asked < revoked + Lag
    /\ call.crl # "none" => verified[i].list # "skipped"
    /\ /\ response[i].signer = "issuer" /\ call.anchors = "issuer"
       /\ at \in CertificateWindow /\ verified[i].asked < revoked
       => verified[i].trusted

\* Every window of every document is judged at one and the same instant, no
\* matter how long the lists take to fetch.
OneInstant ==
  Ok => \E t \in Time : \A i \in DOMAIN verified :
    /\ verified[i].inWindow <=> t \in MsoWindow[response[i].signed]
    /\ verified[i].trusted => t \in CertificateWindow
=============================================================================
