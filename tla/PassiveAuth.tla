---------------------------- MODULE PassiveAuth ----------------------------
(***************************************************************************)
(* Passive authentication, auth/passive.rs: EF.SOD is a CMS SignedData     *)
(* around the LDS security object, which holds the digest of every data    *)
(* group.  verify reads the structure field by field, picks the Document   *)
(* Signer's certificate, checks the groups it is given, the signature over *)
(* the security object, and looks for an anchor that signed the            *)
(* certificate.                                                            *)
(*                                                                         *)
(* A security object is put together by whoever made the chip: from parts  *)
(* an issuer signed, for this document or another, and from parts of the   *)
(* maker's own.  Only the holder of a key makes signatures with it.        *)
(***************************************************************************)
EXTENDS Naturals, Sequences, FiniteSets

CONSTANTS
  IssuedSods,   \* security objects as issuers make them
  OtherSods,    \* and those that somebody else put together
  GroupLists,   \* the data groups a caller may supply
  AnchorLists   \* the CSCA certificates a caller may trust

VARIABLES
  sod,       \* EF.SOD
  groups,    \* the groups to check
  anchors,   \* the anchors
  pc,        \* the step of verify
  read,      \* fields of SignedData read so far
  certs,     \* what the certificates field held
  dsc,       \* the certificate the signer named, or NoCertificate
  checked,   \* groups checked so far
  result

inputs == <<sod, groups, anchors>>
vars == <<inputs, pc, read, certs, dsc, checked, result>>

-----------------------------------------------------------------------------
(* The data.  A security object is                                         *)
(*   [envelope, type, content, fields, signer]                             *)
(* where content is [hash, list], list a sequence of [number, digest];     *)
(* fields is a sequence of [tag, list], list a sequence of certificates;   *)
(* signer is [sid, digest, attributes, scheme, pinned, signature], with    *)
(* attributes [digest, type] or none, and pinned the hash that the         *)
(* signatureAlgorithm names.  A certificate is                             *)
(*   [parses, issuer, serial, ski, subject, key, scheme, hash, signature]. *)

Sods == IssuedSods \cup OtherSods

Known == {"sha1", "sha256"}
NoAttributes == [type |-> "none"]
NoCertificate == [parses |-> "none"]
Running == [error |-> "running"]

\* Digests do not collide.
Digest(hash, of) == [hash |-> hash, of |-> of]

NoDigest == Digest("none", [hash |-> "none", list |-> <<>>])

\* The keys of this model: those of an issuer's old and new CSCA, of
\* another's, of two Document Signers, and of whoever else makes a chip.
IssuerKey == {"csca", "cscaNew"}
SignerKey == {"signer", "signerRsa"}
IsRsa(key) == key \in IssuerKey \cup {"cscaOther", "signerRsa"}

Sign(key, scheme, hash, message) ==
  [key |-> key, scheme |-> scheme, hash |-> hash, message |-> message]

Tbs(c) == [issuer |-> c.issuer, serial |-> c.serial, ski |-> c.ski,
           subject |-> c.subject, key |-> c.key]

Error(e) == [error |-> e]
Mismatch(number) == [error |-> "DataGroupHashMismatch", group |-> number]
PassiveAuthError ==
  {"MalformedSod", "MalformedSecurityObject", "UnsupportedHash", "NoSigner",
   "MalformedCertificate", "UnsupportedKey", "BadDocumentSignature",
   "BadSignedAttributes", "NoDataGroups"}

-----------------------------------------------------------------------------
(* What is taken for granted of the data.                                  *)

IsList(s) == s \in Seq({s[i] : i \in DOMAIN s})
CertificatesOf(s) == UNION {{s.fields[i].list[j] : j \in DOMAIN s.fields[i].list} : i \in DOMAIN s.fields}

\* scheme_matches_key.
SchemeFits(key, scheme) == IF IsRsa(key) THEN scheme \in {"rsa", "pss"} ELSE scheme = "ecdsa"

\* What DER comes apart into: lists, and certificates that parse or do not.
\* Signed attributes, a SET, are never a security object, a SEQUENCE.
DataIsParsed ==
  /\ \A list \in GroupLists \cup AnchorLists : IsList(list)
  /\ \A s \in Sods :
       /\ IsList(s.fields) /\ IsList(s.content.list)
       /\ \A i \in DOMAIN s.fields : IsList(s.fields[i].list)
       /\ \A c \in CertificatesOf(s) : c.parses \in {"ok", "MalformedCertificate", "UnsupportedKey"}
       /\ \A t \in Sods : s.content # t.signer.attributes

\* Only the holder of a key signs with it: the anchors certify Document
\* Signers and nobody else, and a Document Signer's signature is one that is
\* in an issuer's security object, or a copy of it.
Unforgeable ==
  \A s \in Sods :
    /\ \A c \in CertificatesOf(s), list \in AnchorLists : \A i \in DOMAIN list :
         c.signature = Sign(list[i].key, c.scheme, c.hash, Tbs(c))
           => list[i].key \in IssuerKey /\ c.key \in SignerKey
    /\ s.signer.signature.key \in SignerKey =>
         \E t \in IssuedSods : t.signer.signature = s.signer.signature

\* SignerInfo's name for a certificate.
Names(sid, c) ==
  IF sid.by = "ski" THEN c.ski = sid.ski ELSE c.issuer = sid.issuer /\ c.serial = sid.serial

\* A security object as ICAO 9303 has issuers make it: the certificates first,
\* one of which the signer's name means; each group once; signed by that
\* certificate's key, over attributes that speak of the content, if any.
MadeByIssuer(s) ==
  LET si == s.signer
      list == s.content.list
      numbers == {list[i].number : i \in DOMAIN list} IN
  /\ s.envelope = "SignedData" /\ s.type = "ldsSecurityObject"
  /\ list # <<>> /\ 0 \notin numbers /\ Cardinality(numbers) = Len(list)
  /\ Len(s.fields) > 1 /\ s.fields[1].tag = "certificates"
  /\ \E n \in 2 .. Len(s.fields) :
       s.fields[n].tag = "signerInfos" /\ \A i \in 2 .. n - 1 : s.fields[i].tag = "crls"
  /\ \E i \in DOMAIN s.fields[1].list : Names(si.sid, s.fields[1].list[i])
  /\ \A c \in CertificatesOf(s) : Names(si.sid, c) =>
       /\ c.key = si.signature.key /\ SchemeFits(c.key, si.scheme)
       /\ c.signature = Sign(c.signature.key, c.scheme, c.hash, Tbs(c))
       /\ \A anchors_ \in AnchorLists : \A i \in DOMAIN anchors_ :
            anchors_[i].key = c.signature.key =>
              anchors_[i].subject = c.issuer /\ SchemeFits(anchors_[i].key, c.scheme)
  /\ si.attributes # NoAttributes =>
       si.attributes.digest = Digest(si.digest, s.content) /\ si.attributes.type = s.type
  /\ si.signature = Sign(si.signature.key, si.scheme, IF si.pinned = "none" THEN si.digest ELSE si.pinned,
                         IF si.attributes = NoAttributes THEN s.content ELSE si.attributes)

ASSUME PassiveAuthConstants ==
  DataIsParsed /\ Unforgeable /\ \A s \in IssuedSods : MadeByIssuer(s)

-----------------------------------------------------------------------------

ResultOK ==
  \/ result \in {Running} \cup {Error(e) : e \in PassiveAuthError}
  \/ result \in {Mismatch(groups[i].number) : i \in DOMAIN groups}
  \/ result.error = "none" /\ result.verified \subseteq result.committed

TypeOK ==
  /\ pc \in {"begin", "fields", "signer", "content", "groups", "signature", "chain", "done"}
  /\ read \in 0 .. Len(sod.fields)
  /\ certs = <<>> \/ \E i \in 1 .. read : certs = sod.fields[i].list
  /\ pc \in {"begin", "fields", "signer"} => dsc = NoCertificate
  /\ dsc = NoCertificate \/ \E i \in DOMAIN certs : dsc = certs[i]
  /\ checked \in 0 .. Len(groups)
  /\ checked > 0 => dsc # NoCertificate
  /\ pc \in {"signature", "chain"} => checked = Len(groups)
  /\ pc = "done" <=> result # Running
  /\ ResultOK

Init ==
  /\ sod \in Sods
  /\ groups \in GroupLists
  /\ anchors \in AnchorLists
  /\ pc = "begin"
  /\ read = 0
  /\ certs = <<>>
  /\ dsc = NoCertificate
  /\ checked = 0
  /\ result = Running

-----------------------------------------------------------------------------

Fail(error) == pc' = "done" /\ result' = error
Go(step) == pc' = step /\ UNCHANGED result

BeginError ==
  CASE groups = <<>> -> "NoDataGroups"
    [] sod.envelope # "SignedData" -> "MalformedSod"
    [] OTHER -> "none"

Begin ==
  /\ pc = "begin"
  /\ IF BeginError = "none" THEN Go("fields") ELSE Fail(Error(BeginError))
  /\ UNCHANGED <<inputs, read, certs, dsc, checked>>

\* SignedData::parse, one round of its loop.  The first signerInfos ends it.
ReadField ==
  /\ pc = "fields"
  /\ IF read = Len(sod.fields) THEN Fail(Error("NoSigner")) /\ UNCHANGED <<read, certs>>
     ELSE LET field == sod.fields[read + 1] IN
       /\ read' = read + 1
       /\ CASE field.tag = "certificates" -> certs' = field.list /\ Go("fields")
            [] field.tag = "crls" -> UNCHANGED certs /\ Go("fields")
            [] field.tag = "signerInfos" -> UNCHANGED certs /\ Go("signer")
            [] OTHER -> UNCHANGED certs /\ Fail(Error("MalformedSod"))
  /\ UNCHANGED <<inputs, dsc, checked>>

-----------------------------------------------------------------------------
(* The signer and its certificate.                                         *)

\* SignerInfo::parse.  The hash of the signature is the one its algorithm
\* names, which has to be the digestAlgorithm.
SignerInfoError ==
  LET si == sod.signer IN
  CASE si.sid.by \notin {"issuer", "ski"} -> "NoSigner"
    [] si.digest \notin Known -> "UnsupportedHash"
    [] si.attributes # NoAttributes /\ si.attributes.digest = NoDigest -> "BadSignedAttributes"
    [] si.scheme = "unknown" -> "UnsupportedHash"
    [] si.pinned \notin {"none", si.digest} -> "UnsupportedHash"
    [] OTHER -> "none"

SignatureHash == IF sod.signer.pinned = "none" THEN sod.signer.digest ELSE sod.signer.pinned

\* The certificate the SignerInfo names, by issuer and serial number or by
\* its key identifier, which a certificate need not have.
Selects(c) == Names(sod.signer.sid, c)

\* select_dsc: certificates are parsed in turn until one is the signer's; one
\* that does not parse ends the search.
Stops(c) == c.parses # "ok" \/ Selects(c)

SelectDsc ==
  /\ pc = "signer"
  /\ IF SignerInfoError # "none" THEN Fail(Error(SignerInfoError)) /\ UNCHANGED dsc
     ELSE \/ /\ \A i \in DOMAIN certs : ~Stops(certs[i])
             /\ Fail(Error("MalformedCertificate")) /\ UNCHANGED dsc
          \/ \E i \in DOMAIN certs :
               /\ Stops(certs[i]) /\ \A j \in 1 .. i - 1 : ~Stops(certs[j])
               /\ IF certs[i].parses = "ok" THEN dsc' = certs[i] /\ Go("content")
                  ELSE Fail(Error(certs[i].parses)) /\ UNCHANGED dsc
  /\ UNCHANGED <<inputs, read, certs, checked>>

-----------------------------------------------------------------------------
(* The security object and the groups.                                     *)

\* LdsSecurityObject::parse: small positive numbers, each of them once.
ContentError ==
  LET list == sod.content.list
      numbers == {list[i].number : i \in DOMAIN list} IN
  CASE sod.type # "ldsSecurityObject" -> "MalformedSod"
    [] sod.content.hash \notin Known -> "UnsupportedHash"
    [] list = <<>> \/ 0 \in numbers -> "MalformedSecurityObject"
    [] Cardinality(numbers) < Len(list) -> "MalformedSecurityObject"
    [] OTHER -> "none"

ParseContent ==
  /\ pc = "content"
  /\ IF ContentError = "none" THEN Go("groups") ELSE Fail(Error(ContentError))
  /\ UNCHANGED <<inputs, read, certs, dsc, checked>>

\* The digest EF.SOD has for a group.
Entry(number) == {sod.content.list[i].digest : i \in
                    {j \in DOMAIN sod.content.list : sod.content.list[j].number = number}}

Matches(g) == Digest(sod.content.hash, g.bytes) \in Entry(g.number)

\* The first group that is not in EF.SOD, or not as it is there, ends it.
CheckGroup ==
  /\ pc = "groups"
  /\ IF checked = Len(groups) THEN Go("signature") /\ UNCHANGED checked
     ELSE IF Matches(groups[checked + 1]) THEN checked' = checked + 1 /\ Go("groups")
     ELSE Fail(Mismatch(groups[checked + 1].number)) /\ UNCHANGED checked
  /\ UNCHANGED <<inputs, read, certs, dsc>>

-----------------------------------------------------------------------------
(* The signature and the chain.                                            *)

\* PublicKey::verify.
Verifies(key, scheme, hash, message, signature) ==
  signature = Sign(key, scheme, hash, message)

\* Faulty: attributes that are signed need no further check.
AttributesBindAny == TRUE

\* The signed attributes speak of this content and of its type.
AttributesBind ==
  LET a == sod.signer.attributes IN
  a # NoAttributes => a.digest = Digest(sod.signer.digest, sod.content) /\ a.type = sod.type

\* What was signed: the attributes, or without any the content.
SignedMessage ==
  IF sod.signer.attributes = NoAttributes THEN sod.content ELSE sod.signer.attributes

SignatureError ==
  LET si == sod.signer IN
  CASE ~SchemeFits(dsc.key, si.scheme) -> "BadDocumentSignature"
    [] ~AttributesBind -> "BadSignedAttributes"
    [] ~Verifies(dsc.key, si.scheme, SignatureHash, SignedMessage, si.signature) -> "BadDocumentSignature"
    [] OTHER -> "none"

CheckSignature ==
  /\ pc = "signature"
  /\ IF SignatureError = "none" THEN Go("chain") ELSE Fail(Error(SignatureError))
  /\ UNCHANGED <<inputs, read, certs, dsc, checked>>

\* Faulty: an issuer has one anchor, the first of its name.
AnchoredByName ==
  \E i \in DOMAIN anchors :
    /\ anchors[i].subject = dsc.issuer
    /\ \A j \in 1 .. i - 1 : anchors[j].subject # dsc.issuer
    /\ Verifies(anchors[i].key, dsc.scheme, dsc.hash, Tbs(dsc), dsc.signature)

\* An anchor of the issuer's name whose key signed the certificate.
Anchored ==
  \E i \in DOMAIN anchors :
    /\ anchors[i].subject = dsc.issuer
    /\ SchemeFits(anchors[i].key, dsc.scheme)
    /\ Verifies(anchors[i].key, dsc.scheme, dsc.hash, Tbs(dsc), dsc.signature)

Conclude ==
  /\ pc = "chain"
  /\ pc' = "done"
  /\ result' = [error |-> "none",
                verified |-> {groups[i].number : i \in DOMAIN groups},
                committed |-> {sod.content.list[i].number : i \in DOMAIN sod.content.list},
                trusted |-> Anchored]
  /\ UNCHANGED <<inputs, read, certs, dsc, checked>>

Next ==
  \/ Begin \/ ReadField \/ SelectDsc \/ ParseContent \/ CheckGroup
  \/ CheckSignature \/ Conclude

Spec == Init /\ [][Next]_vars

-----------------------------------------------------------------------------
(* The verdict, and what verify_files makes of an error.                   *)

Ok == result.error = "none"
IsAuthentic == Ok /\ result.trusted /\ result.verified # {}

\* Faulty: as many groups as EF.SOD has.
CoversAsMany == IsAuthentic /\ Len(groups) = Cardinality(result.committed)

CoversAllGroups == IsAuthentic /\ result.verified = result.committed

\* verify_files.
Reported ==
  CASE result = Running -> "running"
    [] Ok -> "none"
    [] OTHER -> "NotAuthentic"

-----------------------------------------------------------------------------
(* Properties.                                                             *)

\* What the issuer said of a document, and whose bytes they are.
SaidByIssuer(content) == \E s \in IssuedSods : s.content = content
Committed(number, bytes) ==
  \E i \in DOMAIN sod.content.list :
    /\ sod.content.list[i].number = number
    /\ sod.content.list[i].digest = Digest(sod.content.hash, bytes)

\* is_authentic: all groups belong to one document, and an issuer whose anchor
\* the caller holds signed it, however EF.SOD was put together.
AuthenticMeansIssued ==
  IsAuthentic => /\ SaidByIssuer(sod.content)
                 /\ \A i \in DOMAIN groups : Committed(groups[i].number, groups[i].bytes)
                 /\ \E i \in DOMAIN anchors : anchors[i].key \in IssuerKey

\* What an issuer made, with algorithms the build knows and no certificate it
\* cannot parse ahead of the signer's.
Readable ==
  /\ sod \in IssuedSods
  /\ SignerInfoError = "none" /\ sod.content.hash \in Known
  /\ \A i \in DOMAIN sod.fields : \A j \in DOMAIN sod.fields[i].list :
       sod.fields[i].list[j].parses = "ok"

\* A genuine document passes with any of its groups, in any order, wherever
\* its signer's certificate stands among others, and is authentic whenever its
\* own CSCA is among the anchors, also beside an older or a newer one.
GenuineAccepted ==
  (pc = "done" /\ Readable /\ groups # <<>>
     /\ \A i \in DOMAIN groups : Committed(groups[i].number, groups[i].bytes))
  => /\ Ok
     /\ IsAuthentic <=> \E i \in DOMAIN anchors : anchors[i].key = dsc.signature.key

\* The account of the groups is exact, also when one is given twice or is not
\* EF.SOD's: covers_all_groups says that no group of the chip was left out,
\* and a group is named as altered only if it is, and all before it are sound.
GroupsAreAccounted ==
  /\ CoversAllGroups => \A i \in DOMAIN sod.content.list :
       \E j \in DOMAIN groups : groups[j].number = sod.content.list[i].number
  /\ result.error = "DataGroupHashMismatch" =>
       \E i \in DOMAIN groups :
         /\ groups[i].number = result.group
         /\ ~Committed(groups[i].number, groups[i].bytes)
         /\ \A j \in 1 .. i - 1 : Committed(groups[j].number, groups[j].bytes)

\* What error.rs:32 says of NotAuthentic: "The data does not match what the
\* issuer signed."
NotAuthenticMeansAltered ==
  Reported = "NotAuthentic" =>
    ~ /\ sod \in IssuedSods
      /\ groups # <<>> /\ \A i \in DOMAIN groups : Committed(groups[i].number, groups[i].bytes)
=============================================================================
