----------------------------- MODULE VerdictProofs -----------------------------
(***************************************************************************)
(* What the two ways to a verdict promise, proved: PassiveAuth for         *)
(* security objects, groups and anchors of any number and size, and        *)
(* ReadPassport.  They share no state: each theorem is about the           *)
(* specification of one of them.                                           *)
(***************************************************************************)
EXTENDS PassiveAuth, ReadPassport, TLAPS

-----------------------------------------------------------------------------
(* Passive authentication: the inductive invariant.                        *)

Inputs == sod \in Sods /\ groups \in GroupLists /\ anchors \in AnchorLists

\* From select_dsc on, the certificate is one of EF.SOD's, and the signer's.
SignerKnown ==
  pc \in {"content", "groups", "signature", "chain"} \/ Ok =>
    /\ dsc \in CertificatesOf(sod)
    /\ dsc.parses = "ok"
    /\ Selects(dsc)

\* Of the groups gone through none was wrong.
GroupsMatch == \A i \in 1 .. checked : Matches(groups[i])

\* The chain is looked at for a signature that holds.
SignatureHolds ==
  pc = "chain" \/ Ok =>
    /\ checked = Len(groups)
    /\ AttributesBind
    /\ Verifies(dsc.key, sod.signer.scheme, SignatureHash, SignedMessage, sod.signer.signature)

\* The verdict says what was found.
Found ==
  Ok => /\ result.verified = {groups[i].number : i \in DOMAIN groups}
        /\ result.committed = {sod.content.list[i].number : i \in DOMAIN sod.content.list}
        /\ result.trusted = Anchored

\* A group is blamed when all before it match and it does not.
Blamed ==
  result.error = "DataGroupHashMismatch" =>
    \E i \in DOMAIN groups :
      /\ groups[i].number = result.group
      /\ ~Matches(groups[i])
      /\ \A j \in 1 .. i - 1 : Matches(groups[j])

Genuine ==
  Readable /\ groups # <<>> /\ \A i \in DOMAIN groups : Committed(groups[i].number, groups[i].bytes)

\* verify finds nothing wrong with a genuine document on its way.
NothingWrong ==
  Genuine =>
    /\ pc = "begin" => read = 0
    /\ pc = "fields" => /\ read > 0 => certs = sod.fields[1].list
                        /\ \A i \in 1 .. read : sod.fields[i].tag # "signerInfos"
    /\ pc \in {"signer", "content", "groups", "signature", "chain"} => certs = sod.fields[1].list
    /\ pc = "done" => Ok

PassiveInv ==
  /\ TypeOK
  /\ Inputs
  /\ SignerKnown
  /\ GroupsMatch
  /\ SignatureHolds
  /\ Found
  /\ Blamed
  /\ NothingWrong

-----------------------------------------------------------------------------
(* The data.                                                               *)

LEMMA Lists ==
  ASSUME Inputs
  PROVE  /\ Len(groups) \in Nat /\ DOMAIN groups = 1 .. Len(groups)
         /\ groups = <<>> <=> Len(groups) = 0
         /\ Len(anchors) \in Nat /\ DOMAIN anchors = 1 .. Len(anchors)
         /\ Len(sod.fields) \in Nat /\ DOMAIN sod.fields = 1 .. Len(sod.fields)
         /\ Len(sod.content.list) \in Nat /\ DOMAIN sod.content.list = 1 .. Len(sod.content.list)
<1>1. IsList(groups) /\ IsList(anchors) /\ IsList(sod.fields) /\ IsList(sod.content.list)
  BY PassiveAuthConstants DEF DataIsParsed, Inputs
<1> QED
  BY <1>1 DEF IsList

\* How far verify has come.
LEMMA Progress ==
  ASSUME Inputs, TypeOK
  PROVE  /\ read \in Nat /\ read <= Len(sod.fields)
         /\ checked \in Nat /\ checked <= Len(groups)
<1>1. read \in 0 .. Len(sod.fields) /\ checked \in 0 .. Len(groups)
  BY DEF TypeOK
<1> QED
  BY <1>1, Lists

\* A group matches if and only if EF.SOD says so of its bytes.
LEMMA MatchIsCommitment ==
  ASSUME NEW g
  PROVE  Matches(g) <=> Committed(g.number, g.bytes)
  BY DEF Matches, Committed, Entry

\* What is in the certificates field is a certificate of EF.SOD.
LEMMA FieldsHoldCertificates ==
  ASSUME Inputs, TypeOK, NEW i \in DOMAIN certs
  PROVE  /\ certs[i] \in CertificatesOf(sod)
         /\ certs[i].parses \in {"ok", "MalformedCertificate", "UnsupportedKey"}
<1>1. certs # <<>>
  OBVIOUS
<1>2. PICK k \in 1 .. read : certs = sod.fields[k].list
  BY <1>1 DEF TypeOK
<1>3. k \in DOMAIN sod.fields
  <2>1. read \in 0 .. Len(sod.fields)
    BY DEF TypeOK
  <2> QED
    BY <2>1, Lists
<1>4. certs[i] \in CertificatesOf(sod)
  BY <1>2, <1>3 DEF CertificatesOf
<1> QED
  BY <1>4, PassiveAuthConstants DEF DataIsParsed, Inputs

\* The errors of SignerInfo and of the security object are verify's.
LEMMA ErrorsAreKnown ==
  /\ SignerInfoError \in PassiveAuthError \cup {"none"}
  /\ ContentError \in PassiveAuthError \cup {"none"}
  /\ BeginError \in PassiveAuthError \cup {"none"}
  /\ SignatureError \in PassiveAuthError \cup {"none"}
  /\ "none" \notin PassiveAuthError /\ "running" \notin PassiveAuthError
  /\ "DataGroupHashMismatch" \notin PassiveAuthError
  BY DEF SignerInfoError, ContentError, BeginError, SignatureError, PassiveAuthError

LEMMA ErrorFields ==
  ASSUME NEW e
  PROVE  /\ Error(e).error = e /\ Running.error = "running"
         /\ Mismatch(e).error = "DataGroupHashMismatch" /\ Mismatch(e).group = e
         /\ NoCertificate.parses = "none"
  BY DEF Error, Running, Mismatch, NoCertificate

-----------------------------------------------------------------------------
(* The invariant holds.                                                    *)

LEMMA Initially ==
  ASSUME Init
  PROVE  PassiveInv
<1>1. Inputs
  BY DEF Init, Inputs
<1>2. result.error = "running" /\ ResultOK
  BY ErrorFields DEF Init, ResultOK
<1>3. TypeOK
  BY <1>1, <1>2, Lists DEF Init, TypeOK
<1>4. SignerKnown /\ GroupsMatch /\ SignatureHolds
  BY <1>2 DEF Init, SignerKnown, GroupsMatch, SignatureHolds, Ok
<1>5. Found /\ Blamed /\ NothingWrong
  BY <1>2 DEF Init, Found, Blamed, NothingWrong, Ok
<1> QED
  BY <1>1, <1>3, <1>4, <1>5 DEF PassiveInv

\* verify returns one of its errors, which it does not with a genuine document.
LEMMA Failing ==
  ASSUME PassiveInv, NEW e \in PassiveAuthError, Fail(Error(e)), ~Genuine,
         pc # "done", UNCHANGED <<inputs, certs, dsc, checked>>,
         read' \in {read, read + 1}, read' \in 0 .. Len(sod.fields)
  PROVE  PassiveInv'
<1>t. TypeOK /\ Inputs /\ GroupsMatch
  BY DEF PassiveInv
<1>1. pc' = "done" /\ result' = Error(e)
  BY DEF Fail
<1>2. result'.error = e /\ result'.error \notin {"none", "running", "DataGroupHashMismatch"}
  BY <1>1, ErrorFields, ErrorsAreKnown
<1>3. ResultOK' /\ result' # Running
  BY <1>1, <1>2, ErrorFields DEF ResultOK
<1>4. Inputs' /\ UNCHANGED <<sod, groups, anchors>>
  BY <1>t DEF Inputs, inputs
<1>5. certs' = <<>> \/ \E i \in 1 .. read' : certs' = sod'.fields[i].list
  <2>1. certs = <<>> \/ \E i \in 1 .. read : certs = sod.fields[i].list
    BY <1>t DEF TypeOK
  <2>2. read \in Nat
    BY <1>t, Progress
  <2> QED
    BY <1>4, <2>1, <2>2
<1>6. TypeOK'
  <2>1. dsc' = NoCertificate \/ \E i \in DOMAIN certs' : dsc' = certs'[i]
    BY <1>t DEF TypeOK
  <2>2. checked' \in 0 .. Len(groups') /\ (checked' > 0 => dsc' # NoCertificate)
    BY <1>4, <1>t DEF TypeOK
  <2>3. read' \in 0 .. Len(sod'.fields)
    BY <1>4
  <2>4. pc' = "done" <=> result' # Running
    BY <1>1, <1>3
  <2> QED
    BY <1>1, <1>3, <1>5, <2>1, <2>2, <2>3, <2>4 DEF TypeOK
<1>7. GroupsMatch'
  BY <1>4, <1>t DEF GroupsMatch, Matches, Entry
<1>8. SignerKnown' /\ SignatureHolds' /\ Found' /\ Blamed'
  BY <1>1, <1>2 DEF SignerKnown, SignatureHolds, Found, Blamed, Ok
<1>9. ~Genuine'
  BY <1>4 DEF Genuine, Readable, SignerInfoError, Committed
<1> QED
  BY <1>4, <1>6, <1>7, <1>8, <1>9 DEF PassiveInv, NothingWrong

\* verify goes on to the next step.
LEMMA GoingOn ==
  ASSUME PassiveInv, NEW then \in {"fields", "signer", "content", "groups", "signature", "chain"},
         Go(then), pc # "done", UNCHANGED inputs
  PROVE  /\ pc' = then /\ pc' # "done" /\ UNCHANGED <<result, sod, groups, anchors>>
         /\ result' # Running <=> pc' = "done"
         /\ ResultOK' /\ Inputs' /\ ~Ok' /\ Found' /\ Blamed'
         /\ Genuine' <=> Genuine
<1>t. TypeOK /\ Inputs /\ Blamed
  BY DEF PassiveInv
<1>1. pc' = then /\ pc' # "done" /\ UNCHANGED <<result, sod, groups, anchors>>
  BY DEF Go, inputs
<1>2. result = Running /\ ResultOK
  BY <1>t DEF TypeOK
<1>3. ResultOK'
  BY <1>1, <1>2 DEF ResultOK
<1>4. Inputs'
  BY <1>1, <1>t DEF Inputs
<1>5. ~Ok' /\ result'.error # "DataGroupHashMismatch"
  BY <1>1, <1>2, ErrorFields DEF Ok
<1>6. Found' /\ Blamed'
  BY <1>5 DEF Found, Blamed
<1>7. Genuine' <=> Genuine
  BY <1>1 DEF Genuine, Readable, SignerInfoError, Committed
<1> QED
  BY <1>1, <1>2, <1>3, <1>4, <1>5, <1>6, <1>7

LEMMA GenuineIsMade ==
  ASSUME Genuine
  PROVE  MadeByIssuer(sod) /\ SignerInfoError = "none" /\ sod.content.hash \in Known
  BY PassiveAuthConstants DEF Genuine, Readable

LEMMA BeginKeeps ==
  ASSUME PassiveInv, Begin
  PROVE  PassiveInv'
<1>t. TypeOK /\ Inputs /\ GroupsMatch /\ NothingWrong
  BY DEF PassiveInv
<1>1. pc = "begin" /\ UNCHANGED <<read, certs, dsc, checked>> /\ UNCHANGED inputs
  BY DEF Begin
<1>2. read' \in {read, read + 1} /\ read' \in 0 .. Len(sod.fields)
  BY <1>1, <1>t, Progress, Lists
<1>3. CASE BeginError # "none"
  <2>1. Fail(Error(BeginError)) /\ BeginError \in PassiveAuthError
    BY <1>3, ErrorsAreKnown DEF Begin
  <2>2. ~Genuine
    BY <1>3, GenuineIsMade DEF BeginError, Genuine, MadeByIssuer
  <2> QED
    BY <1>1, <1>2, <2>1, <2>2, Failing
<1>5. CASE BeginError = "none"
  <2>1. Go("fields")
    BY <1>5 DEF Begin
  <2>2. /\ pc' = "fields" /\ pc' # "done" /\ UNCHANGED <<result, sod, groups, anchors>>
        /\ result' # Running <=> pc' = "done"
        /\ ResultOK' /\ Inputs' /\ ~Ok' /\ Found' /\ Blamed'
        /\ Genuine' <=> Genuine
    BY <1>1, <2>1, GoingOn
  <2>3. TypeOK'
    BY <1>1, <1>t, <2>2 DEF TypeOK
  <2>4. SignerKnown' /\ GroupsMatch' /\ SignatureHolds'
    BY <1>1, <1>t, <2>2 DEF SignerKnown, GroupsMatch, SignatureHolds, Matches, Entry
  <2>5. NothingWrong'
    BY <1>1, <1>t, <2>2 DEF NothingWrong
  <2> QED
    BY <2>2, <2>3, <2>4, <2>5 DEF PassiveInv
<1> QED
  BY <1>3, <1>5

LEMMA ReadFieldKeeps ==
  ASSUME PassiveInv, ReadField
  PROVE  PassiveInv'
<1> DEFINE field == sod.fields[read + 1]
<1>t. TypeOK /\ Inputs /\ GroupsMatch /\ NothingWrong
  BY DEF PassiveInv
<1>1. pc = "fields" /\ UNCHANGED <<dsc, checked>> /\ UNCHANGED inputs /\ dsc = NoCertificate
  BY <1>t DEF ReadField, TypeOK
<1>p. /\ read \in Nat /\ read <= Len(sod.fields) /\ Len(sod.fields) \in Nat
      /\ DOMAIN sod.fields = 1 .. Len(sod.fields)
  BY <1>t, Progress, Lists
<1>2. CASE read = Len(sod.fields)
  <2>1. Fail(Error("NoSigner")) /\ UNCHANGED <<read, certs>>
    BY <1>2 DEF ReadField
  <2>2. ~Genuine
    <3> SUFFICES ASSUME Genuine PROVE FALSE
      OBVIOUS
    <3>1. PICK n \in 2 .. Len(sod.fields) : sod.fields[n].tag = "signerInfos"
      BY GenuineIsMade DEF MadeByIssuer
    <3>2. n \in 1 .. read
      BY <1>2, <1>p
    <3> QED
      BY <1>1, <1>t, <3>1, <3>2 DEF NothingWrong
  <2> QED
    BY <1>1, <1>p, <2>1, <2>2, Failing DEF PassiveAuthError
<1>3. CASE read # Len(sod.fields)
  <2>1. read' = read + 1 /\ read + 1 \in 1 .. Len(sod.fields) /\ read' \in 0 .. Len(sod.fields)
    BY <1>3, <1>p DEF ReadField
  <2>m. ASSUME Genuine
        PROVE  /\ read = 0 => field.tag = "certificates"
               /\ read > 0 => field.tag \in {"crls", "signerInfos"}
    <3>1. MadeByIssuer(sod)
      BY <2>m, GenuineIsMade
    <3>2. sod.fields[1].tag = "certificates"
      BY <3>1 DEF MadeByIssuer
    <3>3. PICK n \in 2 .. Len(sod.fields) :
            sod.fields[n].tag = "signerInfos" /\ \A i \in 2 .. n - 1 : sod.fields[i].tag = "crls"
      BY <3>1 DEF MadeByIssuer
    <3>4. \A i \in 1 .. read : sod.fields[i].tag # "signerInfos"
      BY <1>1, <1>t, <2>m DEF NothingWrong
    <3>5. read + 1 <= n
      BY <1>p, <3>3, <3>4
    <3>6. CASE read = 0
      BY <3>2, <3>6
    <3>7. CASE read > 0 /\ read + 1 = n
      BY <3>3, <3>7
    <3>8. CASE read > 0 /\ read + 1 # n
      <4>1. read + 1 \in 2 .. n - 1
        BY <1>p, <3>5, <3>8
      <4> QED
        BY <3>3, <3>8, <4>1
    <3> QED
      BY <1>p, <3>6, <3>7, <3>8
  <2>2. CASE field.tag \notin {"certificates", "crls", "signerInfos"}
    <3>1. Fail(Error("MalformedSod")) /\ UNCHANGED certs
      BY <1>3, <2>2 DEF ReadField
    <3>2. ~Genuine
      BY <1>p, <2>2, <2>m
    <3> QED
      BY <1>1, <2>1, <3>1, <3>2, Failing DEF PassiveAuthError
  <2>3. CASE field.tag \in {"certificates", "crls", "signerInfos"}
    <3> DEFINE then == IF field.tag = "signerInfos" THEN "signer" ELSE "fields"
    <3>1. Go(then) /\ (IF field.tag = "certificates" THEN certs' = field.list ELSE UNCHANGED certs)
      BY <1>3, <2>3 DEF ReadField
    <3>2. /\ pc' = then /\ pc' # "done" /\ UNCHANGED <<result, sod, groups, anchors>>
          /\ result' # Running <=> pc' = "done"
          /\ ResultOK' /\ Inputs' /\ ~Ok' /\ Found' /\ Blamed'
          /\ Genuine' <=> Genuine
      <4>1. then \in {"fields", "signer", "content", "groups", "signature", "chain"}
        OBVIOUS
      <4> HIDE DEF then
      <4> QED
        BY <1>1, <3>1, <4>1, GoingOn
    <3>3. certs' = <<>> \/ \E i \in 1 .. read' : certs' = sod'.fields[i].list
      <4>1. CASE field.tag = "certificates"
        BY <2>1, <3>1, <3>2, <4>1
      <4>2. CASE field.tag # "certificates"
        <5>1. certs = <<>> \/ \E i \in 1 .. read : certs = sod.fields[i].list
          BY <1>t DEF TypeOK
        <5> QED
          BY <1>p, <2>1, <3>1, <3>2, <4>2, <5>1
      <4> QED
        BY <4>1, <4>2
    <3>4. checked' \in 0 .. Len(groups') /\ (checked' > 0 => dsc' # NoCertificate)
      BY <1>1, <1>t, <3>2 DEF TypeOK
    <3>5. TypeOK'
      BY <1>1, <2>1, <3>2, <3>3, <3>4 DEF TypeOK
    <3>6. SignerKnown' /\ GroupsMatch' /\ SignatureHolds'
      BY <1>1, <1>t, <3>2 DEF SignerKnown, GroupsMatch, SignatureHolds, Matches, Entry
    <3>7. NothingWrong'
      <4> SUFFICES ASSUME Genuine
                   PROVE  /\ pc' = "fields" => \A i \in 1 .. read' : sod.fields[i].tag # "signerInfos"
                          /\ certs' = sod.fields[1].list
        BY <3>2 DEF NothingWrong
      <4>1. pc' = "fields" => \A i \in 1 .. read' : sod.fields[i].tag # "signerInfos"
        BY <1>1, <1>p, <1>t, <2>1, <3>2 DEF NothingWrong
      <4>2. certs' = sod.fields[1].list
        BY <1>1, <1>p, <1>t, <2>m, <3>1 DEF NothingWrong
      <4> QED
        BY <4>1, <4>2
    <3> QED
      BY <3>2, <3>5, <3>6, <3>7 DEF PassiveInv
  <2> QED
    BY <2>2, <2>3
<1> QED
  BY <1>2, <1>3

LEMMA SelectDscKeeps ==
  ASSUME PassiveInv, SelectDsc
  PROVE  PassiveInv'
<1>t. TypeOK /\ Inputs /\ GroupsMatch /\ NothingWrong
  BY DEF PassiveInv
<1>1. pc = "signer" /\ UNCHANGED <<read, certs, checked>> /\ UNCHANGED inputs
  BY DEF SelectDsc
<1>2. read' \in {read, read + 1} /\ read' \in 0 .. Len(sod.fields)
  BY <1>1, <1>t, Progress, Lists
<1>g. ASSUME Genuine
      PROVE  /\ SignerInfoError = "none"
             /\ certs = sod.fields[1].list
             /\ \A i \in DOMAIN certs : certs[i].parses = "ok"
             /\ \E i \in DOMAIN certs : Stops(certs[i])
  <2>1. MadeByIssuer(sod) /\ SignerInfoError = "none"
    BY <1>g, GenuineIsMade
  <2>2. certs = sod.fields[1].list
    BY <1>1, <1>g, <1>t DEF NothingWrong
  <2>3. 1 \in DOMAIN sod.fields
    BY <1>t, <2>1, Lists DEF MadeByIssuer
  <2>4. \A i \in DOMAIN certs : certs[i].parses = "ok"
    BY <1>g, <2>2, <2>3 DEF Genuine, Readable
  <2>5. \E i \in DOMAIN certs : Stops(certs[i])
    BY <2>1, <2>2 DEF MadeByIssuer, Stops, Selects
  <2> QED
    BY <2>1, <2>2, <2>4, <2>5
<1>3. CASE UNCHANGED dsc /\ ~Genuine /\ \E e \in PassiveAuthError : Fail(Error(e))
  BY <1>1, <1>2, <1>3, Failing
<1>4. CASE SignerInfoError # "none"
  <2>1. Fail(Error(SignerInfoError)) /\ UNCHANGED dsc /\ SignerInfoError \in PassiveAuthError
    BY <1>4, ErrorsAreKnown DEF SelectDsc
  <2> QED
    BY <1>3, <1>4, <1>g, <2>1
<1>5. CASE /\ \A i \in DOMAIN certs : ~Stops(certs[i])
           /\ Fail(Error("MalformedCertificate")) /\ UNCHANGED dsc
  BY <1>3, <1>5, <1>g DEF PassiveAuthError
<1>6. ASSUME NEW i \in DOMAIN certs, Stops(certs[i]),
             IF certs[i].parses = "ok" THEN dsc' = certs[i] /\ Go("content")
             ELSE Fail(Error(certs[i].parses)) /\ UNCHANGED dsc
      PROVE  PassiveInv'
  <2>1. certs[i] \in CertificatesOf(sod) /\ certs[i].parses \in {"ok", "MalformedCertificate", "UnsupportedKey"}
    BY <1>t, FieldsHoldCertificates
  <2>2. CASE certs[i].parses # "ok"
    BY <1>3, <1>6, <1>g, <2>1, <2>2 DEF PassiveAuthError
  <2>3. CASE certs[i].parses = "ok"
    <3>1. dsc' = certs[i] /\ Go("content")
      BY <1>6, <2>3
    <3>2. /\ pc' = "content" /\ pc' # "done" /\ UNCHANGED <<result, sod, groups, anchors>>
          /\ result' # Running <=> pc' = "done"
          /\ ResultOK' /\ Inputs' /\ ~Ok' /\ Found' /\ Blamed'
          /\ Genuine' <=> Genuine
      BY <1>1, <3>1, GoingOn
    <3>3. dsc' # NoCertificate
      BY <2>3, <3>1, ErrorFields
    <3>4. certs' = <<>> \/ \E k \in 1 .. read' : certs' = sod'.fields[k].list
      BY <1>1, <1>t, <3>2 DEF TypeOK
    <3>5. read' \in 0 .. Len(sod'.fields) /\ checked' \in 0 .. Len(groups')
      BY <1>1, <1>t, <3>2 DEF TypeOK
    <3>6. TypeOK'
      BY <1>1, <3>1, <3>2, <3>3, <3>4, <3>5 DEF TypeOK
    <3>7. SignerKnown'
      BY <1>6, <2>1, <2>3, <3>1, <3>2 DEF SignerKnown, Stops, Selects
    <3>8. GroupsMatch' /\ SignatureHolds'
      BY <1>1, <1>t, <3>2 DEF GroupsMatch, SignatureHolds, Matches, Entry
    <3>9. NothingWrong'
      BY <1>1, <1>t, <3>2 DEF NothingWrong
    <3> QED
      BY <3>2, <3>6, <3>7, <3>8, <3>9 DEF PassiveInv
  <2> QED
    BY <2>2, <2>3
<1> QED
  BY <1>4, <1>5, <1>6 DEF SelectDsc

LEMMA ParseContentKeeps ==
  ASSUME PassiveInv, ParseContent
  PROVE  PassiveInv'
<1>t. TypeOK /\ Inputs /\ GroupsMatch /\ NothingWrong /\ SignerKnown
  BY DEF PassiveInv
<1>1. pc = "content" /\ UNCHANGED <<read, certs, dsc, checked>> /\ UNCHANGED inputs
  BY DEF ParseContent
<1>2. read' \in {read, read + 1} /\ read' \in 0 .. Len(sod.fields)
  BY <1>1, <1>t, Progress, Lists
<1>3. CASE ContentError # "none"
  <2>1. Fail(Error(ContentError)) /\ ContentError \in PassiveAuthError
    BY <1>3, ErrorsAreKnown DEF ParseContent
  <2>2. ASSUME Genuine PROVE FALSE
    <3>1. MadeByIssuer(sod) /\ sod.content.hash \in Known
      BY <2>2, GenuineIsMade
    <3>2. Len(sod.content.list) \in Nat
      BY <1>t, Lists
    <3> QED
      BY <1>3, <3>1, <3>2 DEF ContentError, MadeByIssuer
  <2> QED
    BY <1>1, <1>2, <2>1, <2>2, Failing
<1>4. CASE ContentError = "none"
  <2>1. Go("groups")
    BY <1>4 DEF ParseContent
  <2>2. /\ pc' = "groups" /\ pc' # "done" /\ UNCHANGED <<result, sod, groups, anchors>>
        /\ result' # Running <=> pc' = "done"
        /\ ResultOK' /\ Inputs' /\ ~Ok' /\ Found' /\ Blamed'
        /\ Genuine' <=> Genuine
    BY <1>1, <2>1, GoingOn
  <2>3. TypeOK'
    BY <1>1, <1>t, <2>2 DEF TypeOK
  <2>4. SignerKnown' /\ GroupsMatch' /\ SignatureHolds'
    BY <1>1, <1>t, <2>2 DEF SignerKnown, GroupsMatch, SignatureHolds, Matches, Entry, Selects
  <2>5. NothingWrong'
    BY <1>1, <1>t, <2>2 DEF NothingWrong
  <2> QED
    BY <2>2, <2>3, <2>4, <2>5 DEF PassiveInv
<1> QED
  BY <1>3, <1>4

\* The next of n places, when c of them are behind.
LEMMA NextPlace ==
  ASSUME NEW n \in Nat, NEW c \in Nat, c <= n, c # n
  PROVE  c + 1 \in 0 .. n /\ c + 1 \in 1 .. n
  OBVIOUS

LEMMA CheckGroupKeeps ==
  ASSUME PassiveInv, CheckGroup
  PROVE  PassiveInv'
<1> DEFINE g == groups[checked + 1]
<1>t. TypeOK /\ Inputs /\ GroupsMatch /\ NothingWrong /\ SignerKnown
  BY DEF PassiveInv
<1>1. pc = "groups" /\ UNCHANGED <<read, certs, dsc>> /\ UNCHANGED inputs
  BY DEF CheckGroup
<1>2. /\ checked \in Nat /\ checked <= Len(groups) /\ Len(groups) \in Nat
      /\ DOMAIN groups = 1 .. Len(groups)
  BY <1>t, Progress, Lists
<1>3. dsc # NoCertificate
  BY <1>1, <1>t, ErrorFields DEF SignerKnown
<1>4. CASE checked = Len(groups)
  <2>1. Go("signature") /\ UNCHANGED checked
    BY <1>4 DEF CheckGroup
  <2>2. /\ pc' = "signature" /\ pc' # "done" /\ UNCHANGED <<result, sod, groups, anchors>>
        /\ result' # Running <=> pc' = "done"
        /\ ResultOK' /\ Inputs' /\ ~Ok' /\ Found' /\ Blamed'
        /\ Genuine' <=> Genuine
    BY <1>1, <2>1, GoingOn
  <2>3. TypeOK'
    BY <1>1, <1>4, <1>t, <2>1, <2>2 DEF TypeOK
  <2>4. SignerKnown' /\ GroupsMatch' /\ SignatureHolds'
    BY <1>1, <1>t, <2>1, <2>2 DEF SignerKnown, GroupsMatch, SignatureHolds, Matches, Entry, Selects
  <2>5. NothingWrong'
    BY <1>1, <1>t, <2>2 DEF NothingWrong
  <2> QED
    BY <2>2, <2>3, <2>4, <2>5 DEF PassiveInv
<1>5. CASE checked # Len(groups) /\ Matches(g)
  <2>1. Go("groups") /\ checked' = checked + 1
    BY <1>5 DEF CheckGroup
  <2>2. /\ pc' = "groups" /\ pc' # "done" /\ UNCHANGED <<result, sod, groups, anchors>>
        /\ result' # Running <=> pc' = "done"
        /\ ResultOK' /\ Inputs' /\ ~Ok' /\ Found' /\ Blamed'
        /\ Genuine' <=> Genuine
    BY <1>1, <2>1, GoingOn
  <2>6. checked' \in 0 .. Len(groups')
    <3>1. checked # Len(groups)
      BY <1>5
    <3>2. checked + 1 \in 0 .. Len(groups)
      BY <1>2, <3>1, NextPlace
    <3> QED
      BY <2>1, <2>2, <3>2
  <2>3. TypeOK'
    BY <1>1, <1>3, <1>t, <2>2, <2>6 DEF TypeOK
  <2>4. SignerKnown' /\ SignatureHolds'
    BY <1>1, <1>t, <2>2 DEF SignerKnown, SignatureHolds, Selects
  <2>7. GroupsMatch'
    <3>1. ASSUME NEW i \in 1 .. checked + 1 PROVE Matches(groups[i])
      <4>1. i \in 1 .. checked \/ i = checked + 1
        BY <1>2
      <4> QED
        BY <1>5, <1>t, <4>1 DEF GroupsMatch
    <3> QED
      BY <2>1, <2>2, <3>1 DEF GroupsMatch, Matches, Entry
  <2>5. NothingWrong'
    BY <1>1, <1>t, <2>2 DEF NothingWrong
  <2> QED
    BY <2>2, <2>3, <2>4, <2>5, <2>7 DEF PassiveInv
<1>6. CASE checked # Len(groups) /\ ~Matches(g)
  <2>1. pc' = "done" /\ result' = Mismatch(g.number) /\ UNCHANGED checked
    BY <1>6 DEF CheckGroup, Fail
  <2>2. UNCHANGED <<sod, groups, anchors>>
    BY <1>1 DEF inputs
  <2>3. checked + 1 \in DOMAIN groups
    <3>1. checked # Len(groups)
      BY <1>6
    <3>2. checked + 1 \in 1 .. Len(groups)
      BY <1>2, <3>1, NextPlace
    <3> QED
      BY <1>2, <3>2
  <2>4. result'.error = "DataGroupHashMismatch" /\ result'.group = g.number
    BY <2>1, ErrorFields
  <2>5. result' # Running /\ ResultOK'
    BY <2>1, <2>2, <2>3, <2>4, ErrorFields DEF ResultOK
  <2>6. TypeOK'
    BY <1>1, <1>t, <2>1, <2>2, <2>5 DEF TypeOK
  <2>7. Inputs' /\ GroupsMatch'
    BY <1>t, <2>1, <2>2 DEF Inputs, GroupsMatch, Matches, Entry
  <2>8. SignerKnown' /\ SignatureHolds' /\ Found'
    BY <2>1, <2>4 DEF SignerKnown, SignatureHolds, Found, Ok
  <2>9. Blamed'
    <3>1. \A j \in 1 .. (checked + 1) - 1 : Matches(groups[j])
      <4>1. (checked + 1) - 1 = checked
        BY <1>2
      <4> QED
        BY <1>t, <4>1 DEF GroupsMatch
    <3>2. \E i \in DOMAIN groups :
            groups[i].number = g.number /\ ~Matches(groups[i]) /\ \A j \in 1 .. i - 1 : Matches(groups[j])
      <4> WITNESS checked + 1 \in DOMAIN groups
      <4> QED
        BY <1>6, <3>1
    <3> QED
      BY <2>2, <2>4, <3>2 DEF Blamed, Matches, Entry
  <2>10. NothingWrong'
    <3>1. ~Genuine
      BY <1>6, <2>3, MatchIsCommitment DEF Genuine
    <3>2. ~Genuine'
      BY <2>2, <3>1 DEF Genuine, Readable, SignerInfoError, Committed
    <3> QED
      BY <3>2 DEF NothingWrong
  <2> QED
    BY <2>6, <2>7, <2>8, <2>9, <2>10 DEF PassiveInv
<1> QED
  BY <1>4, <1>5, <1>6

\* The signature of a genuine document verifies with the certificate that
\* select_dsc found.
LEMMA GenuineVerifies ==
  ASSUME Genuine, Selects(dsc), dsc \in CertificatesOf(sod)
  PROVE  /\ SignatureError = "none"
         /\ dsc.signature = Sign(dsc.signature.key, dsc.scheme, dsc.hash, Tbs(dsc))
         /\ \A list \in AnchorLists : \A i \in DOMAIN list :
              list[i].key = dsc.signature.key =>
                list[i].subject = dsc.issuer /\ SchemeFits(list[i].key, dsc.scheme)
<1>1. MadeByIssuer(sod) /\ Names(sod.signer.sid, dsc)
  BY GenuineIsMade DEF Selects
<1>2. /\ dsc.key = sod.signer.signature.key /\ SchemeFits(dsc.key, sod.signer.scheme)
      /\ dsc.signature = Sign(dsc.signature.key, dsc.scheme, dsc.hash, Tbs(dsc))
      /\ \A list \in AnchorLists : \A i \in DOMAIN list :
           list[i].key = dsc.signature.key =>
             list[i].subject = dsc.issuer /\ SchemeFits(list[i].key, dsc.scheme)
  BY <1>1 DEF MadeByIssuer
<1>3. AttributesBind
  BY <1>1 DEF MadeByIssuer, AttributesBind
<1>4. sod.signer.signature = Sign(dsc.key, sod.signer.scheme, SignatureHash, SignedMessage)
  BY <1>1, <1>2 DEF MadeByIssuer, SignatureHash, SignedMessage
<1>5. SignatureError = "none"
  BY <1>2, <1>3, <1>4 DEF SignatureError, Verifies
<1> QED
  BY <1>2, <1>5

LEMMA CheckSignatureKeeps ==
  ASSUME PassiveInv, CheckSignature
  PROVE  PassiveInv'
<1>t. TypeOK /\ Inputs /\ GroupsMatch /\ NothingWrong /\ SignerKnown
  BY DEF PassiveInv
<1>1. pc = "signature" /\ UNCHANGED <<read, certs, dsc, checked>> /\ UNCHANGED inputs
  BY DEF CheckSignature
<1>2. read' \in {read, read + 1} /\ read' \in 0 .. Len(sod.fields)
  BY <1>1, <1>t, Progress, Lists
<1>3. CASE SignatureError # "none"
  <2>1. Fail(Error(SignatureError)) /\ SignatureError \in PassiveAuthError
    BY <1>3, ErrorsAreKnown DEF CheckSignature
  <2>2. ~Genuine
    BY <1>1, <1>3, <1>t, GenuineVerifies DEF SignerKnown
  <2> QED
    BY <1>1, <1>2, <2>1, <2>2, Failing
<1>4. CASE SignatureError = "none"
  <2>1. Go("chain")
    BY <1>4 DEF CheckSignature
  <2>2. /\ pc' = "chain" /\ pc' # "done" /\ UNCHANGED <<result, sod, groups, anchors>>
        /\ result' # Running <=> pc' = "done"
        /\ ResultOK' /\ Inputs' /\ ~Ok' /\ Found' /\ Blamed'
        /\ Genuine' <=> Genuine
    BY <1>1, <2>1, GoingOn
  <2>3. TypeOK'
    BY <1>1, <1>t, <2>2 DEF TypeOK
  <2>4. SignerKnown' /\ GroupsMatch'
    BY <1>1, <1>t, <2>2 DEF SignerKnown, GroupsMatch, Matches, Entry, Selects
  <2>5. SignatureHolds'
    <3>1. checked = Len(groups)
      BY <1>1, <1>t DEF TypeOK
    <3>2. AttributesBind /\ Verifies(dsc.key, sod.signer.scheme, SignatureHash, SignedMessage, sod.signer.signature)
      BY <1>4 DEF SignatureError
    <3> QED
      BY <1>1, <2>2, <3>1, <3>2 DEF SignatureHolds, AttributesBind, SignatureHash, SignedMessage
  <2>6. NothingWrong'
    BY <1>1, <1>t, <2>2 DEF NothingWrong
  <2> QED
    BY <2>2, <2>3, <2>4, <2>5, <2>6 DEF PassiveInv
<1> QED
  BY <1>3, <1>4

LEMMA ConcludeKeeps ==
  ASSUME PassiveInv, Conclude
  PROVE  PassiveInv'
<1> DEFINE verified == {groups[i].number : i \in DOMAIN groups}
           committed == {sod.content.list[i].number : i \in DOMAIN sod.content.list}
<1>t. TypeOK /\ Inputs /\ GroupsMatch /\ NothingWrong /\ SignerKnown /\ SignatureHolds
  BY DEF PassiveInv
<1>1. pc = "chain" /\ pc' = "done" /\ UNCHANGED <<read, certs, dsc, checked, sod, groups, anchors>>
  BY DEF Conclude, inputs
<1>2. result'.error = "none" /\ result'.verified = verified /\ result'.committed = committed
  BY DEF Conclude
<1>3. result'.trusted = Anchored
  BY DEF Conclude
<1>4. verified \subseteq committed
  <2>1. DOMAIN groups = 1 .. checked
    BY <1>1, <1>t, Lists DEF SignatureHolds
  <2> QED
    BY <1>t, <2>1 DEF GroupsMatch, Matches, Entry
<1>5. result' # Running /\ ResultOK'
  BY <1>2, <1>4, ErrorFields DEF ResultOK
<1>6. TypeOK'
  BY <1>1, <1>5, <1>t DEF TypeOK
<1>7. Inputs' /\ GroupsMatch' /\ SignerKnown'
  BY <1>1, <1>t DEF Inputs, GroupsMatch, Matches, Entry, SignerKnown, Selects
<1>8. SignatureHolds'
  BY <1>1, <1>t DEF SignatureHolds, AttributesBind, SignatureHash, SignedMessage
<1>9. Found' /\ Blamed'
  BY <1>1, <1>2, <1>3 DEF Found, Blamed, Anchored
<1>10. NothingWrong'
  BY <1>1, <1>2 DEF NothingWrong, Ok
<1> QED
  BY <1>6, <1>7, <1>8, <1>9, <1>10 DEF PassiveInv

LEMMA Inductive ==
  ASSUME PassiveInv, [Next]_vars
  PROVE  PassiveInv'
<1>1. CASE UNCHANGED vars
  <2>1. /\ UNCHANGED <<sod, groups, anchors>>
        /\ UNCHANGED <<pc, read, certs, dsc, checked, result>>
    BY <1>1 DEF vars, inputs
  <2>2. TypeOK' /\ Inputs' /\ SignerKnown'
    BY <2>1 DEF PassiveInv, TypeOK, ResultOK, Inputs, SignerKnown, Selects, Ok
  <2>3. GroupsMatch' /\ SignatureHolds'
    BY <2>1 DEF PassiveInv, GroupsMatch, Matches, Entry, SignatureHolds, AttributesBind,
                SignatureHash, SignedMessage, Ok
  <2>4. Found'
    <3>1. Anchored' = Anchored
      BY <2>1 DEF Anchored
    <3> QED
      BY <2>1, <3>1 DEF PassiveInv, Found, Ok
  <2>6. Blamed'
    BY <2>1 DEF PassiveInv, Blamed, Matches, Entry
  <2>5. NothingWrong'
    BY <2>1 DEF PassiveInv, NothingWrong, Genuine, Readable, SignerInfoError, Committed, Ok
  <2> QED
    BY <2>2, <2>3, <2>4, <2>5, <2>6 DEF PassiveInv
<1> QED
  BY <1>1, BeginKeeps, ReadFieldKeeps, SelectDscKeeps, ParseContentKeeps, CheckGroupKeeps,
     CheckSignatureKeeps, ConcludeKeeps DEF Next

\* verify keeps its books: what was found about signer, groups and signature
\* is true of the data for as long as the verdict rests on it.
THEOREM Invariance == Spec => []PassiveInv
<1>1. Init => PassiveInv
  BY Initially
<1>2. PassiveInv /\ [Next]_vars => PassiveInv'
  BY Inductive
<1> QED
  BY <1>1, <1>2, PTL DEF Spec

\* Every step leaves the variables of verify within their types.
THEOREM TypeCorrect == Spec => []TypeOK
<1>1. PassiveInv => TypeOK
  BY DEF PassiveInv
<1> QED
  BY <1>1, Invariance, PTL

-----------------------------------------------------------------------------
(* The verdict.                                                            *)

\* A security object whose signature is an issuer's has an issuer's content:
\* the message signed is the content, or attributes that hold its digest.
LEMMA SignatureBindsContent ==
  ASSUME NEW t \in IssuedSods, Inputs, AttributesBind,
         t.signer.signature = Sign(dsc.key, sod.signer.scheme, SignatureHash, SignedMessage)
  PROVE  t.content = sod.content
<1>1. MadeByIssuer(t) /\ t \in Sods /\ sod \in Sods
  BY PassiveAuthConstants DEF Inputs, Sods
<1>2. SignedMessage = IF t.signer.attributes = NoAttributes THEN t.content ELSE t.signer.attributes
  BY <1>1 DEF MadeByIssuer, Sign
<1>3. sod.content # t.signer.attributes /\ t.content # sod.signer.attributes
  BY <1>1, PassiveAuthConstants DEF DataIsParsed
<1>4. CASE sod.signer.attributes = NoAttributes
  BY <1>2, <1>3, <1>4 DEF SignedMessage
<1>5. CASE sod.signer.attributes # NoAttributes
  <2>1. t.signer.attributes # NoAttributes /\ t.signer.attributes = sod.signer.attributes
    BY <1>2, <1>3, <1>5 DEF SignedMessage
  <2>2. t.signer.attributes.digest = Digest(t.signer.digest, t.content)
    BY <1>1, <2>1 DEF MadeByIssuer
  <2>3. sod.signer.attributes.digest = Digest(sod.signer.digest, sod.content)
    BY <1>5 DEF AttributesBind
  <2> QED
    BY <2>1, <2>2, <2>3 DEF Digest
<1> QED
  BY <1>4, <1>5

\* is_authentic means what it says, however EF.SOD was put together.
THEOREM AuthenticIsIssued == Spec => []AuthenticMeansIssued
<1>1. ASSUME PassiveInv, IsAuthentic PROVE SaidByIssuer(sod.content)
  <2>1. Ok /\ result.trusted = Anchored /\ Anchored
    BY <1>1 DEF IsAuthentic, PassiveInv, Found
  <2>2. Inputs /\ dsc \in CertificatesOf(sod)
    BY <1>1, <2>1 DEF PassiveInv, SignerKnown
  <2>3. PICK i \in DOMAIN anchors : dsc.signature = Sign(anchors[i].key, dsc.scheme, dsc.hash, Tbs(dsc))
    BY <2>1 DEF Anchored, Verifies
  <2>4. dsc.key \in SignerKey
    BY <2>2, <2>3, PassiveAuthConstants DEF Unforgeable, Inputs
  <2>5. AttributesBind /\ sod.signer.signature = Sign(dsc.key, sod.signer.scheme, SignatureHash, SignedMessage)
    BY <1>1, <2>1 DEF PassiveInv, SignatureHolds, Verifies
  <2>6. sod.signer.signature.key = dsc.key
    BY <2>5 DEF Sign
  <2>7. PICK t \in IssuedSods : t.signer.signature = sod.signer.signature
    BY <2>2, <2>4, <2>6, PassiveAuthConstants DEF Unforgeable, Inputs
  <2>8. t.content = sod.content
    BY <2>2, <2>5, <2>7, SignatureBindsContent
  <2> QED
    BY <2>8 DEF SaidByIssuer
<1>2. ASSUME PassiveInv, IsAuthentic
      PROVE  \A i \in DOMAIN groups : Committed(groups[i].number, groups[i].bytes)
  <2>1. Inputs /\ GroupsMatch /\ checked = Len(groups)
    BY <1>2 DEF IsAuthentic, PassiveInv, SignatureHolds
  <2>2. DOMAIN groups = 1 .. checked
    BY <2>1, Lists
  <2> QED
    BY <2>1, <2>2, MatchIsCommitment DEF GroupsMatch
<1>3. ASSUME PassiveInv, IsAuthentic PROVE \E i \in DOMAIN anchors : anchors[i].key \in IssuerKey
  <2>1. Ok /\ Anchored
    BY <1>3 DEF IsAuthentic, PassiveInv, Found
  <2>2. Inputs /\ dsc \in CertificatesOf(sod)
    BY <1>3, <2>1 DEF PassiveInv, SignerKnown
  <2>3. PICK i \in DOMAIN anchors : dsc.signature = Sign(anchors[i].key, dsc.scheme, dsc.hash, Tbs(dsc))
    BY <2>1 DEF Anchored, Verifies
  <2> QED
    BY <2>2, <2>3, PassiveAuthConstants DEF Unforgeable, Inputs
<1>4. PassiveInv => AuthenticMeansIssued
  BY <1>1, <1>2, <1>3 DEF AuthenticMeansIssued
<1> QED
  BY <1>4, Invariance, PTL

\* An anchor's signature is found exactly when its key made the certificate's.
LEMMA GenuineIsAnchored ==
  ASSUME PassiveInv, Genuine, Ok
  PROVE  Anchored <=> \E i \in DOMAIN anchors : anchors[i].key = dsc.signature.key
<1>1. Inputs /\ dsc \in CertificatesOf(sod) /\ Selects(dsc)
  BY DEF PassiveInv, SignerKnown
<1>2. dsc.signature = Sign(dsc.signature.key, dsc.scheme, dsc.hash, Tbs(dsc))
  BY <1>1, GenuineVerifies
<1>3. \A i \in DOMAIN anchors : anchors[i].key = dsc.signature.key =>
        anchors[i].subject = dsc.issuer /\ SchemeFits(anchors[i].key, dsc.scheme)
  BY <1>1, GenuineVerifies DEF Inputs
<1>4. \A i \in DOMAIN anchors :
        Verifies(anchors[i].key, dsc.scheme, dsc.hash, Tbs(dsc), dsc.signature)
          => anchors[i].key = dsc.signature.key
  BY DEF Verifies, Sign
<1>5. ASSUME NEW i \in DOMAIN anchors, anchors[i].key = dsc.signature.key
      PROVE  /\ anchors[i].subject = dsc.issuer /\ SchemeFits(anchors[i].key, dsc.scheme)
             /\ Verifies(anchors[i].key, dsc.scheme, dsc.hash, Tbs(dsc), dsc.signature)
  BY <1>2, <1>3, <1>5 DEF Verifies
<1> QED
  BY <1>4, <1>5 DEF Anchored

\* A genuine document passes, and is authentic whenever its CSCA is trusted.
THEOREM GenuinePasses == Spec => []GenuineAccepted
<1>1. ASSUME PassiveInv, pc = "done", Genuine
      PROVE  Ok /\ (IsAuthentic <=> \E i \in DOMAIN anchors : anchors[i].key = dsc.signature.key)
  <2>1. Ok
    BY <1>1 DEF PassiveInv, NothingWrong
  <2>2. result.trusted = Anchored /\ result.verified = {groups[i].number : i \in DOMAIN groups}
    BY <1>1, <2>1 DEF PassiveInv, Found
  <2>3. result.verified # {}
    <3>1. Inputs /\ groups # <<>>
      BY <1>1 DEF PassiveInv, Genuine
    <3>2. 1 \in DOMAIN groups
      BY <3>1, Lists
    <3> QED
      BY <2>2, <3>2
  <2> QED
    BY <1>1, <2>1, <2>2, <2>3, GenuineIsAnchored DEF IsAuthentic
<1>2. PassiveInv => GenuineAccepted
  BY <1>1 DEF GenuineAccepted, Genuine
<1> QED
  BY <1>2, Invariance, PTL

\* No group is left out of a full verdict, and none blamed that is sound.
THEOREM AccountIsExact == Spec => []GroupsAreAccounted
<1>1. ASSUME PassiveInv, CoversAllGroups, NEW i \in DOMAIN sod.content.list
      PROVE  \E j \in DOMAIN groups : groups[j].number = sod.content.list[i].number
  <2>1. {groups[j].number : j \in DOMAIN groups} = {sod.content.list[j].number : j \in DOMAIN sod.content.list}
    BY <1>1 DEF CoversAllGroups, IsAuthentic, PassiveInv, Found
  <2> QED
    BY <2>1
<1>2. ASSUME PassiveInv, result.error = "DataGroupHashMismatch"
      PROVE  \E i \in DOMAIN groups :
               /\ groups[i].number = result.group
               /\ ~Committed(groups[i].number, groups[i].bytes)
               /\ \A j \in 1 .. i - 1 : Committed(groups[j].number, groups[j].bytes)
  BY <1>2, MatchIsCommitment DEF PassiveInv, Blamed
<1>3. PassiveInv => GroupsAreAccounted
  BY <1>1, <1>2 DEF GroupsAreAccounted
<1> QED
  BY <1>3, Invariance, PTL

-----------------------------------------------------------------------------
(* The reading of a live chip: the inductive invariant.                    *)

\* Until the end no loss is left standing but PACE's; and while a session is
\* being set up the flag says whether that one happened.
LossEndsRead ==
  /\ step # "done" => lostAt \subseteq {"pace"}
  /\ step \in {"access", "pace"} => lostAt = {}
  /\ step \in {"pace", "bac"} => (transportFailed <=> "pace" \in lostAt)
  /\ step = "dg1" => ~transportFailed

\* A chip that passed active authentication holds the key of the very DG15
\* that is verified.
ProofIsOverDg15 ==
  /\ activeAuth # "none" => step \in {"verify", "done"}
  /\ activeAuth = "yes" => Accepts(files["dg15"])

ReadInv ==
  /\ ReadTypeOK /\ LossEndsRead /\ ProofIsOverDg15
  /\ LossIsNamed /\ BoundMeansOriginal /\ TrustedMeansIssued

\* Reading goes on with a step that exists.
LEMMA AfterIsStep ==
  ASSUME NEW f \in File, ReadTypeOK, f = "sod" => files["dg15"] = files'["dg15"]
  PROVE  /\ After(f) \in {"dg2", "dg15", "sod", "aa", "verify"}
         /\ After(f) = "aa" => f = "sod" /\ files["dg15"] # "absent"
BY DEF After, File, Group

\* Nothing is read yet.
LEMMA ReadInitially == ReadInit => ReadInv
<1> SUFFICES ASSUME ReadInit PROVE ReadInv
  OBVIOUS
<1>1. ~ending.ok /\ ending.error = "none" /\ step = "access"
  BY DEF ReadInit, Reading
<1>2. ReadTypeOK
  BY DEF ReadInit, ReadTypeOK, Step, Content, Answer
<1>3. LossEndsRead /\ ProofIsOverDg15
  BY DEF ReadInit, LossEndsRead, ProofIsOverDg15
<1> QED
  BY <1>1, <1>2, <1>3 DEF ReadInv, LossIsNamed, Ended, BoundMeansOriginal, TrustedMeansIssued

\* A step of reading that does not end it.
LEMMA Continuing ==
  ASSUME ReadInv, NEW next \in Step, Continue(next), step # "done", UNCHANGED readInputs
  PROVE  /\ ending' = Reading /\ step' # "done" 
         /\ (LossIsNamed /\ BoundMeansOriginal /\ TrustedMeansIssued)'
         /\ ~Ended("Nfc")'
BY DEF ReadInv, ReadTypeOK, Continue, Step, Reading, LossIsNamed, BoundMeansOriginal, TrustedMeansIssued, Ended

\* A step that ends it with an error.
LEMMA Stopping ==
  ASSUME ReadInv, NEW error \in ReadError, Stop(error)
  PROVE  /\ step' = "done" /\ ending' \in Ending /\ ending' # Reading
         /\ ~ending'.ok /\ ending'.error = error
         /\ (BoundMeansOriginal /\ TrustedMeansIssued)'
BY DEF Stop, ReadError, Ending, Reading, BoundMeansOriginal, TrustedMeansIssued

\* One step per step of read_passport.  NfcMeansLost is about the step itself.
LEMMA ReadInductive ==
  ASSUME ReadInv, [ReadNext]_readVars
  PROVE  ReadInv' /\ (NfcMeansLost \/ UNCHANGED readVars)
<1> USE DEF ReadInv
<1>1. CASE ProbeCardAccess
  <2>1. step = "access" /\ lostAt = {} /\ activeAuth = "none" /\ UNCHANGED <<readInputs, files, activeAuth>>
    BY <1>1 DEF ProbeCardAccess, LossEndsRead, ProofIsOverDg15
  <2>2. CASE Lose("access") /\ Stop("Nfc") /\ UNCHANGED cardAccess
    <3>1. step' = "done" /\ ending' \in Ending /\ ending' # Reading /\ ~ending'.ok /\ ending'.error = "Nfc"
          /\ (BoundMeansOriginal /\ TrustedMeansIssued)'
      BY <2>2, Stopping DEF ReadError
    <3> QED
      BY <2>1, <2>2, <3>1 DEF ReadTypeOK, LossEndsRead, ProofIsOverDg15, LossIsNamed, Ended, NfcMeansLost, Lose, Step, readInputs, Accepts, CanProve
  <2>3. CASE /\ cardAccess' \in {FALSE, chip.cardAccess} /\ transportFailed' = FALSE
             /\ UNCHANGED lostAt /\ Establish(cardAccess')
    <3>1. cardAccess' \in BOOLEAN
      BY <2>3 DEF ReadTypeOK, Chips
    <3>2. CASE \E next \in {"pace", "bac"} : Continue(next)
      <4>1. PICK next \in {"pace", "bac"} : Continue(next)
        BY <3>2
      <4>2. next \in Step
        BY DEF Step
      <4>3. /\ ending' = Reading /\ step' # "done" /\ ~Ended("Nfc")'
            /\ (LossIsNamed /\ BoundMeansOriginal /\ TrustedMeansIssued)'
        BY <2>1, <4>1, <4>2, Continuing
      <4> QED
        BY <2>1, <2>3, <3>1, <4>1, <4>2, <4>3 DEF ReadTypeOK, LossEndsRead, ProofIsOverDg15, NfcMeansLost, Continue, readInputs
    <3>3. CASE Stop("Unreadable")
      <4>1. step' = "done" /\ ending' \in Ending /\ ending' # Reading /\ ~ending'.ok /\ ending'.error = "Unreadable"
            /\ (BoundMeansOriginal /\ TrustedMeansIssued)'
        BY <3>3, Stopping DEF ReadError
      <4> QED
        BY <2>1, <2>3, <3>1, <4>1 DEF ReadTypeOK, LossEndsRead, ProofIsOverDg15, LossIsNamed, Ended, NfcMeansLost, Step, readInputs
    <3> QED
      BY <2>3, <3>2, <3>3 DEF Establish
  <2> QED
    BY <1>1, <2>2, <2>3 DEF ProbeCardAccess
<1>2. CASE StartSessionPace \/ StartSession
  <2>1. /\ UNCHANGED <<readInputs, files, cardAccess, activeAuth>> /\ activeAuth = "none"
        /\ step \in {"pace", "bac"} /\ lostAt \subseteq {"pace"} /\ (step = "pace" => lostAt = {})
        /\ (transportFailed <=> "pace" \in lostAt)
    BY <1>2 DEF StartSessionPace, StartSession, LossEndsRead, ProofIsOverDg15
  <2>2. CASE Continue("dg1") /\ transportFailed' = FALSE /\ UNCHANGED lostAt
    <3>1. /\ ending' = Reading /\ step' # "done" /\ ~Ended("Nfc")'
          /\ (LossIsNamed /\ BoundMeansOriginal /\ TrustedMeansIssued)'
      BY <2>1, <2>2, Continuing DEF Step
    <3> QED
      BY <2>1, <2>2, <3>1 DEF ReadTypeOK, LossEndsRead, ProofIsOverDg15, NfcMeansLost, Continue, Step, readInputs
  <2>3. CASE step = "pace" /\ Continue("bac") /\ (Keep \/ Lose("pace"))
    <3>1. /\ ending' = Reading /\ step' # "done" /\ ~Ended("Nfc")'
          /\ (LossIsNamed /\ BoundMeansOriginal /\ TrustedMeansIssued)'
      BY <2>1, <2>3, Continuing DEF Step
    <3>2. lostAt' \subseteq {"pace"} /\ transportFailed' \in BOOLEAN /\ (transportFailed' <=> "pace" \in lostAt')
      <4>1. CASE Keep
        BY <2>1, <4>1 DEF Keep, ReadTypeOK
      <4>2. CASE Lose("pace")
        BY <2>1, <4>2 DEF Lose
      <4> QED
        BY <2>3, <4>1, <4>2
    <3> QED
      BY <2>1, <2>3, <3>1, <3>2 DEF ReadTypeOK, LossEndsRead, ProofIsOverDg15, NfcMeansLost, Continue, Step, readInputs
  <2>4. CASE Keep /\ SessionFailed(transportFailed)
    <3>1. PICK error \in {"Nfc", "Access"} : Stop(error) /\ error = IF transportFailed THEN "Nfc" ELSE "Access"
      BY <2>4 DEF SessionFailed
    <3>2. step' = "done" /\ ending' \in Ending /\ ending' # Reading /\ ~ending'.ok /\ ending'.error = error
          /\ (BoundMeansOriginal /\ TrustedMeansIssued)'
      BY <3>1, Stopping DEF ReadError
    <3> QED
      BY <2>1, <2>4, <3>1, <3>2 DEF ReadTypeOK, LossEndsRead, ProofIsOverDg15, LossIsNamed, Ended, NfcMeansLost, Step, readInputs, Keep
  <2>5. CASE Lose(step) /\ SessionFailed(TRUE)
    <3>1. Stop("Nfc")
      BY <2>5 DEF SessionFailed
    <3>2. step' = "done" /\ ending' \in Ending /\ ending' # Reading /\ ~ending'.ok /\ ending'.error = "Nfc"
          /\ (BoundMeansOriginal /\ TrustedMeansIssued)'
      BY <3>1, Stopping DEF ReadError
    <3> QED
      BY <2>1, <2>5, <3>2 DEF ReadTypeOK, LossEndsRead, ProofIsOverDg15, LossIsNamed, Ended, NfcMeansLost, Step, readInputs, Lose
  <2> QED
    BY <1>2, <2>2, <2>3, <2>4, <2>5 DEF StartSessionPace, StartSession
<1>3. ASSUME NEW f \in File, ReadFile(f) PROVE ReadInv' /\ NfcMeansLost
  <2>1. f \in Step /\ step = f /\ step \notin {"access", "pace", "bac", "verify", "done"}
    BY <1>3 DEF ReadFile, File, Group, Step
  <2>2. PICK c \in Served(f) : files' = [files EXCEPT ![f] = c]
    BY <1>3 DEF ReadFile
  <2>3. /\ activeAuth = "none" /\ UNCHANGED <<readInputs, cardAccess, activeAuth, lostAt>>
        /\ transportFailed' \in BOOLEAN /\ ~transportFailed'
        /\ Continue(After(f)) /\ files' \in [File -> Content]
    BY <1>3, <2>1, <2>2 DEF ReadFile, LossEndsRead, ProofIsOverDg15, Cleared, ReadTypeOK, Served, Content
  <2>4. /\ After(f) \in {"dg2", "dg15", "sod", "aa", "verify"}
        /\ After(f) = "aa" => files'["dg15"] # "absent"
    <3>1. f = "sod" => files'["dg15"] = files["dg15"]
      BY <2>2 DEF ReadTypeOK, File, Group
    <3> QED
      BY <3>1, AfterIsStep
  <2>5. /\ ending' = Reading /\ step' # "done" /\ ~Ended("Nfc")'
        /\ (LossIsNamed /\ BoundMeansOriginal /\ TrustedMeansIssued)'
    BY <2>1, <2>3, <2>4, Continuing DEF Step
  <2> QED
    BY <2>1, <2>3, <2>4, <2>5 DEF ReadTypeOK, LossEndsRead, ProofIsOverDg15, NfcMeansLost, Continue, Step, readInputs
<1>4. ASSUME NEW f \in File, ReadMandatoryFails(f) \/ ReadOptionalFails(f) PROVE ReadInv' /\ NfcMeansLost
  <2>1. /\ f \in Step /\ step = f /\ step \notin {"access", "pace", "bac", "verify", "done", "aa"}
        /\ activeAuth = "none" /\ UNCHANGED <<readInputs, cardAccess, files, activeAuth>>
        /\ lostAt \subseteq {"pace"} /\ (step = "dg1" => ~transportFailed)
    BY <1>4 DEF ReadMandatoryFails, ReadOptionalFails, File, Group, Step, LossEndsRead, ProofIsOverDg15
  <2>2. CASE Lose(f) /\ Stop("Nfc")
    <3>1. step' = "done" /\ ending' \in Ending /\ ending' # Reading /\ ~ending'.ok /\ ending'.error = "Nfc"
          /\ (BoundMeansOriginal /\ TrustedMeansIssued)'
      BY <2>2, Stopping DEF ReadError
    <3> QED
      BY <2>1, <2>2, <3>1 DEF ReadTypeOK, LossEndsRead, ProofIsOverDg15, LossIsNamed, Ended, NfcMeansLost, Step, readInputs, Lose
  <2>3. CASE transportFailed' = FALSE /\ UNCHANGED lostAt /\ Stop("Unreadable")
    <3>1. step' = "done" /\ ending' \in Ending /\ ending' # Reading /\ ~ending'.ok /\ ending'.error = "Unreadable"
          /\ (BoundMeansOriginal /\ TrustedMeansIssued)'
      BY <2>3, Stopping DEF ReadError
    <3> QED
      BY <2>1, <2>3, <3>1 DEF ReadTypeOK, LossEndsRead, ProofIsOverDg15, LossIsNamed, Ended, NfcMeansLost, Step, readInputs
  <2>4. CASE transportFailed' = FALSE /\ UNCHANGED lostAt /\ Continue(After(f))
    <3>1. /\ After(f) \in {"dg2", "dg15", "sod", "aa", "verify"}
          /\ After(f) = "aa" => files["dg15"] # "absent"
      BY <2>1, AfterIsStep
    <3>2. /\ ending' = Reading /\ step' # "done" /\ ~Ended("Nfc")'
          /\ (LossIsNamed /\ BoundMeansOriginal /\ TrustedMeansIssued)'
      BY <2>1, <2>4, <3>1, Continuing DEF Step
    <3> QED
      BY <2>1, <2>4, <3>1, <3>2 DEF ReadTypeOK, LossEndsRead, ProofIsOverDg15, NfcMeansLost, Continue, Step, readInputs
  <2> QED
    BY <1>4, <2>1, <2>2, <2>3, <2>4 DEF ReadMandatoryFails, ReadOptionalFails, Cleared
<1>5. CASE ActiveAuthenticate
  <2>1. /\ step = "aa" /\ UNCHANGED <<readInputs, cardAccess, files>> /\ activeAuth = "none"
        /\ lostAt \subseteq {"pace"}
    BY <1>5 DEF ActiveAuthenticate, LossEndsRead, ProofIsOverDg15
  <2>2. CASE /\ transportFailed' = FALSE /\ UNCHANGED lostAt /\ Continue("verify")
             /\ \/ activeAuth' = IF Accepts(files["dg15"]) THEN "yes" ELSE "no"
                \/ activeAuth' = "no"
    <3>1. /\ ending' = Reading /\ step' # "done" /\ ~Ended("Nfc")'
          /\ (LossIsNamed /\ BoundMeansOriginal /\ TrustedMeansIssued)'
      BY <2>1, <2>2, Continuing DEF Step
    <3>2. activeAuth' \in Answer /\ (activeAuth' = "yes" => Accepts(files["dg15"]))
      BY <2>2 DEF Answer
    <3> QED
      BY <2>1, <2>2, <3>1, <3>2 DEF ReadTypeOK, LossEndsRead, ProofIsOverDg15, NfcMeansLost, Continue, Step, readInputs, Accepts, CanProve
  <2>3. CASE Lose("aa") /\ Stop("Nfc") /\ UNCHANGED activeAuth
    <3>1. step' = "done" /\ ending' \in Ending /\ ending' # Reading /\ ~ending'.ok /\ ending'.error = "Nfc"
          /\ (BoundMeansOriginal /\ TrustedMeansIssued)'
      BY <2>3, Stopping DEF ReadError
    <3> QED
      BY <2>1, <2>3, <3>1 DEF ReadTypeOK, LossEndsRead, ProofIsOverDg15, LossIsNamed, Ended, NfcMeansLost, Step, readInputs, Lose
  <2>4. CASE transportFailed' = FALSE /\ Stop("Unreadable") /\ UNCHANGED <<activeAuth, lostAt>>
    <3>1. step' = "done" /\ ending' \in Ending /\ ending' # Reading /\ ~ending'.ok /\ ending'.error = "Unreadable"
          /\ (BoundMeansOriginal /\ TrustedMeansIssued)'
      BY <2>4, Stopping DEF ReadError
    <3> QED
      BY <2>1, <2>4, <3>1 DEF ReadTypeOK, LossEndsRead, ProofIsOverDg15, LossIsNamed, Ended, NfcMeansLost, Step, readInputs
  <2> QED
    BY <1>5, <2>2, <2>3, <2>4 DEF ActiveAuthenticate
<1>6. CASE VerifyFiles
  <2>1. /\ step = "verify" /\ step' = "done" /\ lostAt \subseteq {"pace"}
        /\ UNCHANGED <<readInputs, transportFailed, cardAccess, files, activeAuth, lostAt>>
    BY <1>6 DEF VerifyFiles, LossEndsRead
  <2>2. CASE \E error \in {"Anchor", "NotAuthentic"} : Stop(error)
    <3>1. PICK error \in {"Anchor", "NotAuthentic"} : Stop(error)
      BY <2>2
    <3>2. step' = "done" /\ ending' \in Ending /\ ending' # Reading /\ ~ending'.ok /\ ending'.error = error
          /\ (BoundMeansOriginal /\ TrustedMeansIssued)'
      BY <3>1, Stopping DEF ReadError
    <3> QED
      BY <2>1, <3>1, <3>2 DEF ReadTypeOK, LossEndsRead, ProofIsOverDg15, LossIsNamed, Ended, NfcMeansLost, Step, readInputs, Accepts, CanProve
  <2>3. CASE /\ PassiveOk
             /\ ending' = [ok |-> TRUE,
                           issuerTrusted |-> files["sod"] = "issued" /\ options.anchors = "issuer",
                           holderBound |-> HolderBound]
    <3>1. /\ ending'.ok /\ ending' # Reading
          /\ ending'.issuerTrusted => files["sod"] = "issued"
          /\ ending'.holderBound = HolderBound
      BY <2>3 DEF Reading
    <3>2. ending' \in Ending
      <4>1. HolderBound \in Answer
        BY DEF HolderBound, Answer, ReadTypeOK
      <4> QED
        BY <2>3, <4>1 DEF Ending
    <3>3. files["sod"] = "issued" => \A g \in Group : files[g] \in {"absent", "issued"}
      BY <2>3 DEF PassiveOk, Groups
    <3>4. TrustedMeansIssued'
      BY <2>1, <3>1, <3>3 DEF TrustedMeansIssued, File
    <3>5. BoundMeansOriginal'
      BY <2>1, <3>1, <3>3 DEF BoundMeansOriginal, HolderBound, ProofIsOverDg15, Accepts, CanProve, Groups, Group, readInputs
    <3> QED
      BY <2>1, <3>1, <3>2, <3>4, <3>5 DEF ReadTypeOK, LossEndsRead, ProofIsOverDg15, LossIsNamed, Ended, NfcMeansLost, Step, readInputs, Accepts, CanProve
  <2> QED
    BY <1>6, <2>2, <2>3 DEF VerifyFiles, Stop
<1>7. CASE UNCHANGED readVars
  BY <1>7 DEF readVars, readInputs, ReadTypeOK, LossEndsRead, ProofIsOverDg15, LossIsNamed, Ended,
              BoundMeansOriginal, TrustedMeansIssued, Accepts, CanProve
<1> QED
  BY <1>1, <1>2, <1>3, <1>4, <1>5, <1>6, <1>7 DEF ReadNext, File, Group

\* All that read_passport keeps true.
THEOREM ReadInvariance == ReadSpec => []ReadInv
<1>1. ReadInv /\ [ReadNext]_readVars => ReadInv'
  BY ReadInductive
<1> QED
  BY <1>1, ReadInitially, PTL DEF ReadSpec

\* The types, whatever is in the field and however often the tag is lost.
THEOREM ReadTypeCorrect == ReadSpec => []ReadTypeOK
<1>1. ReadInv => ReadTypeOK
  BY DEF ReadInv
<1> QED
  BY <1>1, ReadInvariance, PTL

\* read_passport reports a tag lost at any step but PACE's as a lost tag, and
\* reports nothing else as one.
THEOREM LossIsReported == ReadSpec => LostTagNeverBlamed
<1>1. ReadInv /\ [ReadNext]_readVars => [NfcMeansLost]_readVars
  BY ReadInductive
<1>2. ReadInv => LossIsNamed
  BY DEF ReadInv
<1> QED
  BY <1>1, <1>2, ReadInvariance, PTL DEF ReadSpec, LostTagNeverBlamed

\* "present" and "trusted" together are said of the original alone.
THEOREM BoundIsOriginal == ReadSpec => []BoundMeansOriginal
<1>1. ReadInv => BoundMeansOriginal
  BY DEF ReadInv
<1> QED
  BY <1>1, ReadInvariance, PTL

\* A trusted identity holds nothing that its issuer did not sign.
THEOREM TrustedIsIssued == ReadSpec => []TrustedMeansIssued
<1>1. ReadInv => TrustedMeansIssued
  BY DEF ReadInv
<1> QED
  BY <1>1, ReadInvariance, PTL
================================================================================
