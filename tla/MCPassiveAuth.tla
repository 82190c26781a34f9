--------------------------- MODULE MCPassiveAuth ---------------------------
(* PassiveAuth over two documents of one issuer, which has rolled its CSCA *)
(* key over in between, and over what can be put together from their parts *)
(* and from parts of somebody else's.                                      *)
EXTENDS PassiveAuth

Entries(bytes) ==
  [i \in DOMAIN bytes |-> [number |-> i, digest |-> Digest("sha256", bytes[i])]]
LdsContent(hash, list) == [hash |-> hash, list |-> list]
EntriesA == Entries(<<"a1", "a2">>)
ContentA == LdsContent("sha256", EntriesA)
ContentB == LdsContent("sha256", Entries(<<"b1">>))
ContentOwn == LdsContent("sha256", Entries(<<"own", "a2">>))
ContentTwice == LdsContent("sha256", <<EntriesA[1], [number |-> 1, digest |-> Digest("sha256", "own")]>>)
ContentZero == LdsContent("sha256", <<[EntriesA[1] EXCEPT !.number = 0]>>)
ContentUnknown == LdsContent("unknown", EntriesA)

Certificate(serial, ski, key, by, scheme) ==
  LET c == [issuer |-> "country", serial |-> serial, ski |-> ski, subject |-> "signer",
            key |-> key] IN
  [parses |-> "ok", issuer |-> c.issuer, serial |-> c.serial, ski |-> c.ski,
   subject |-> c.subject, key |-> c.key, scheme |-> scheme, hash |-> "sha256",
   signature |-> Sign(by, scheme, "sha256", c)]
DscA == Certificate(1, "ski", "signer", "csca", "rsa")
DscB == Certificate(2, "none", "signerRsa", "cscaNew", "pss")
Imitation == Certificate(1, "ski", "own", "own", "ecdsa")
Grafted == [Imitation EXCEPT !.scheme = "rsa", !.signature = DscA.signature]
Foreign == [Certificate(3, "none", "own", "own", "ecdsa") EXCEPT !.parses = "UnsupportedKey"]

Anchor(subject, key) == [subject |-> subject, key |-> key]
MCAnchorLists ==
  {<<>>, <<Anchor("country", "csca")>>, <<Anchor("country", "cscaNew")>>,
   <<Anchor("country", "cscaNew"), Anchor("country", "csca")>>,
   <<Anchor("country", "csca"), Anchor("country", "cscaNew")>>, <<Anchor("other", "cscaOther")>>}

DataGroup(number, bytes) == [number |-> number, bytes |-> bytes]
MCGroupLists ==
  {<<>>, <<DataGroup(1, "a1")>>, <<DataGroup(2, "a2")>>, <<DataGroup(1, "b1")>>, <<DataGroup(1, "own")>>,
   <<DataGroup(1, "a1"), DataGroup(2, "a2")>>, <<DataGroup(2, "a2"), DataGroup(1, "a1")>>,
   <<DataGroup(1, "a1"), DataGroup(1, "a1")>>, <<DataGroup(1, "a1"), DataGroup(1, "own")>>,
   <<DataGroup(1, "a1"), DataGroup(3, "a1")>>, <<DataGroup(2, "a1"), DataGroup(1, "own")>>}

Certificates(list) == [tag |-> "certificates", list |-> list]
Crls == [tag |-> "crls", list |-> <<>>]
Signers == [tag |-> "signerInfos", list |-> <<>>]
Private == [tag |-> "private", list |-> <<>>]
BySerial(n) == [by |-> "issuer", issuer |-> "country", serial |-> n]
BySki == [by |-> "ski", ski |-> "ski"]

Attributes(hash, content) ==
  [type |-> "ldsSecurityObject", digest |-> Digest(hash, content)]
Signer(sid, attributes, hash, pinned, signature) ==
  [sid |-> sid, digest |-> hash, attributes |-> attributes, scheme |-> signature.scheme,
   pinned |-> pinned, signature |-> signature]
Sod(content, fields, signer) ==
  [envelope |-> "SignedData", type |-> "ldsSecurityObject", content |-> content,
   fields |-> fields, signer |-> signer]

\* With and without signed attributes; with hashes the build knows or not.
Around(dsc_) ==
  {<<Certificates(<<dsc_>>), Signers>>, <<Certificates(<<dsc_, Foreign>>), Crls, Signers>>,
   <<Certificates(<<Foreign, dsc_>>), Signers>>}
  \cup {<<Certificates(<<c, dsc_>>), Signers>> : c \in {DscA, DscB} \ {dsc_}}
Issued(content, dsc_, sid, scheme, hash, pinned) ==
  {Sod(content, fields, Signer(sid, attributes, hash, pinned,
     Sign(dsc_.key, scheme, hash, IF attributes = NoAttributes THEN content ELSE attributes))) :
   fields \in Around(dsc_), attributes \in {NoAttributes, Attributes(hash, content)}}
MCIssuedSods ==
  UNION {Issued(ContentA, DscA, sid, "ecdsa", hash, hash) :
           sid \in {BySerial(1), BySki}, hash \in {"sha1", "sha256", "unknown"}}
  \cup UNION {Issued(ContentB, DscB, BySerial(2), "rsa", hash, "none") : hash \in {"sha256"}}

\* Another's choice of contents, attributes, certificates and signature.
SignedByIssuer == {Sign("signer", "ecdsa", "sha256", Attributes("sha256", ContentA)),
                   Sign("signer", "ecdsa", "sha256", ContentA),
                   Sign("signerRsa", "rsa", "sha256", Attributes("sha256", ContentB))}
Assembled(content, attributes) ==
  {Sod(content, fields, Signer(sid, attributes, "sha256",
                               IF signature.scheme = "rsa" THEN "none" ELSE "sha256", signature)) :
     fields \in {<<Certificates(<<c>>), Signers>> : c \in {DscA, DscB, Imitation, Grafted}}
           \cup {<<Certificates(<<DscA, Imitation>>), Certificates(<<Imitation, DscA>>), Signers>>,
                 <<Signers, Certificates(<<DscA>>)>>},
     sid \in {BySerial(1), BySerial(2)},
     signature \in SignedByIssuer \cup {Sign("own", "ecdsa", "sha256",
                     IF attributes = NoAttributes THEN content ELSE attributes)}}
Broken ==
  LET sound == CHOOSE s \in Issued(ContentA, DscA, BySki, "ecdsa", "sha256", "sha256") :
                 s.signer.attributes # NoAttributes /\ s.fields = <<Certificates(<<DscA>>), Signers>> IN
  {[sound EXCEPT !.envelope = "other"], [sound EXCEPT !.type = "data"],
   [sound EXCEPT !.signer.scheme = "unknown"], [sound EXCEPT !.signer.scheme = "rsa"],
   [sound EXCEPT !.signer.pinned = "sha1"],
   [sound EXCEPT !.signer.sid = [by |-> "unknown"]],
   [sound EXCEPT !.signer.attributes.digest = NoDigest],
   [sound EXCEPT !.signer.attributes.type = "none"],
   [sound EXCEPT !.fields = <<Certificates(<<DscA>>)>>],
   [sound EXCEPT !.fields = <<Certificates(<<DscA>>), Private, Signers>>]}
MCOtherSods ==
  Broken \cup UNION {Assembled(content, attributes) :
    content \in {ContentA, ContentB, ContentOwn, ContentTwice, ContentZero, ContentUnknown},
    attributes \in {NoAttributes} \cup {Attributes("sha256", c) : c \in {ContentA, ContentB, ContentOwn}}}
=============================================================================
