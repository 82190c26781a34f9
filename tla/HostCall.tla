------------------------------ MODULE HostCall ------------------------------
(***************************************************************************)
(* One call from Dart to Rust and back: the entry points of                *)
(* identity_mobile.dart, the C ABI and the JSON writer of ffi.rs, the      *)
(* session builders of mdl.rs, and the JSON reader of models.dart.         *)
(*                                                                         *)
(* An optional value is <<>> or <<x>>, on both sides; a text or a byte     *)
(* string is a sequence of numbers.  At the C boundary a null pointer and  *)
(* an empty slice are the same thing, a text ends at its first NUL, and    *)
(* bytes come back as hexadecimal digits.  What is verified in between is  *)
(* abstracted to what the wallet or the chip did: MdlVerify, ReadPassport  *)
(* and PassiveAuth model that.                                             *)
(***************************************************************************)
EXTENDS Integers, Sequences, SequencesExt, FoldOver

CONSTANTS
  MdlCalls,       \* arguments of verifyMdl: see Run
  OpenIdCalls,    \* arguments of verifyMdlOpenId4Vp
  ReadCalls,      \* arguments of PassportReader.read
  Wallets,        \* what a wallet may present: [carriesMdl, auth, over, name, ages]
  Passports       \* what a chip may hold: [dg2, dg15, signed, genuine, name]

VARIABLES
  step,     \* "call", "run", "render", "parse", "done"
  call,     \* the arguments, as the Dart caller gave them
  world,    \* the wallet's response or the chip
  result,   \* what Rust found, an identity or an error
  json,     \* what crossed back
  answer,   \* what the Dart caller got, or threw
  first     \* of a passport verified twice: the answer on the phone

callVars == <<step, call, world, result, json, answer, first>>

None == <<>>
Some(x) == <<x>>
Has(m) == m # None
Opt(S) == {m \in Seq(S) : Len(m) <= 1}

Bytes == Seq(0 .. 255)
File == Bytes \ {<<>>}    \* a file has at least its tag and its length

\* The shapes the signatures of identity_mobile.dart give the arguments.
HostCallConstants ==
  /\ MdlCalls \subseteq [kind : {"mdl"}, transcript : Opt(Bytes), readerKey : Opt(Bytes), anchors : Seq(Bytes)]
  /\ OpenIdCalls \subseteq [kind : {"openid4vp"}, nonce : Seq(Nat), clientId : Opt(Seq(Nat)),
                            responseUri : Opt(Seq(Nat)), mdocNonce : Opt(Seq(Nat)), origin : Opt(Seq(Nat)),
                            thumbprint : Opt(Bytes), readerKey : Opt(Bytes), anchors : Seq(Bytes)]
  /\ ReadCalls \subseteq [kind : {"read"}, portrait : BOOLEAN, activeAuthentication : BOOLEAN,
                          retain : BOOLEAN, anchors : Seq(Bytes)]
  /\ \A w \in Wallets : w.name \in Opt(Seq(Nat))
  /\ \A p \in Passports : p.name \in Opt(Seq(Nat)) /\ p.dg2 \in Opt(File) /\ p.dg15 \in Opt(File)

ASSUME CallConstants == HostCallConstants

-----------------------------------------------------------------------------
(* Into Rust.                                                              *)

Nul == 0
HasNul(m) == Has(m) /\ \E i \in DOMAIN m[1] : m[1][i] = Nul

\* _Arena.bytes and slice, then as_slice: null and empty are one.
Slice(m) == IF Has(m) THEN m[1] ELSE <<>>

\* _Arena.text, then CStr::from_ptr.
Text(m) ==
  IF ~HasNul(m) THEN m
  ELSE Some(SubSeq(m[1], 1, (CHOOSE i \in DOMAIN m[1] :
              m[1][i] = Nul /\ \A j \in 1 .. i - 1 : m[1][j] # Nul) - 1))

Given(slice) == IF slice = <<>> THEN None ELSE Some(slice)

\* Faulty: a NUL is let through.
OpenIdRefusedTruncating(c) == c.nonce = <<>> \/ c.thumbprint = Some(<<>>)

\* The ArgumentErrors of the Dart side: nothing is called.
OpenIdRefused(c) ==
  \/ c.nonce = <<>>
  \/ c.thumbprint = Some(<<>>)
  \/ \E m \in {Some(c.nonce), c.clientId, c.responseUri, c.mdocNonce, c.origin} : HasNul(m)

MdlRefused(c) == c.transcript = Some(<<>>)

Refused(c) ==
  \/ c.kind = "mdl" /\ MdlRefused(c)
  \/ c.kind = "openid4vp" /\ OpenIdRefused(c)

-----------------------------------------------------------------------------
(* In Rust.                                                                *)

Err(kind) == [error |-> Some(kind), identity |-> None, files |-> None]
Ok(identity, files) == [error |-> None, identity |-> Some(identity), files |-> files]

\* A key or a thumbprint has 32 bytes.
Wrong(slice) == Len(slice) \notin {0, 32}

\* The transcripts, which differ whenever what they are made of does.
Adopted(bytes) == <<"cbor", bytes>>
DcApi(p) == <<"openid4vp-dcapi", p.origin, p.nonce, p.thumbprint>>
Redirect(p) == <<"openid4vp-1.0", p.clientId, p.nonce, p.thumbprint, p.responseUri>>
Iso18013(p) == <<"iso-18013-7", p.clientId, p.responseUri, p.nonce, p.mdocNonce>>

\* identity_mobile_verify_mdl_openid4vp: every profile the parameters allow.
Candidates(p) ==
  (IF Has(p.origin) THEN <<DcApi(p)>> ELSE <<>>) \o
  (IF Has(p.clientId) /\ Has(p.responseUri) THEN <<Redirect(p)>> ELSE <<>>) \o
  (IF Has(p.clientId) /\ Has(p.responseUri) /\ Has(p.mdocNonce) THEN <<Iso18013(p)>> ELSE <<>>)

\* crate::mdl::identity: the licence as Dart will see it.
Licence(bound, profile) ==
  [name |-> world.name, portrait |-> None, ages |-> world.ages, kind |-> "mdl",
   profile |-> profile, verified |-> <<>>, signed |-> <<>>,
   bound |-> bound, trusted |-> call.anchors # <<>>]

\* crate::mdl::verify_mdl, without a session or with its candidates.
IssuerOnly == IF world.carriesMdl THEN Ok(Licence(None, None), None) ELSE Err("unreadable")

InSession(candidates, key) ==
  LET signed == {i \in DOMAIN candidates : candidates[i] = world.over}
  IN IF world.auth = "mac" /\ key = <<>> THEN Err("sessionKeyRequired")
     ELSE IF world.auth = "none" \/ signed = {} THEN Err("notAuthentic")
     ELSE IF ~world.carriesMdl THEN Err("unreadable")
     ELSE Ok(Licence(Some(TRUE), Some(candidates[CHOOSE i \in signed : \A j \in signed : i <= j][1])), None)

\* A certificate that does not parse, the empty one included.
BadAnchor == \E i \in DOMAIN call.anchors : call.anchors[i] = <<>>

\* identity_mobile_verify_mdl.  A transcript that is not canonical CBOR is <<9>>.
VerifyMdl ==
  LET transcript == Slice(call.transcript)
      key == Slice(call.readerKey)
  IN IF transcript = <<>> THEN IF BadAnchor THEN Err("anchor") ELSE IssuerOnly
     ELSE IF Wrong(key) \/ transcript = <<9>> THEN Err("unreadable")
     ELSE IF BadAnchor THEN Err("anchor")
     ELSE InSession(<<Adopted(transcript)>>, key)

\* What the strings and slices of OpenId4VpParams say to Rust.
Params ==
  [nonce |-> Text(Some(call.nonce)), clientId |-> Text(call.clientId),
   responseUri |-> Text(call.responseUri), mdocNonce |-> Text(call.mdocNonce),
   origin |-> Text(call.origin), thumbprint |-> Given(Slice(call.thumbprint))]

VerifyOpenId ==
  LET candidates == Candidates(Params)
      key == Slice(call.readerKey)
  IN IF Wrong(key) \/ Params.nonce = Some(<<>>) \/ Wrong(Slice(call.thumbprint)) \/ candidates = <<>>
       THEN Err("unreadable")
     ELSE IF BadAnchor THEN Err("anchor")
     ELSE InSession(candidates, key)

\* The files a read takes from the chip, by its options.
FilesRead ==
  [dg2 |-> IF call.portrait THEN world.dg2 ELSE None,
   dg15 |-> IF call.activeAuthentication THEN world.dg15 ELSE None]

\* The groups given to passive authentication, all of which EF.SOD has to list.
Supplied(files) ==
  <<1>> \o (IF Has(files.dg2) THEN <<2>> ELSE <<>>)
        \o (IF Has(files.dg15) THEN <<15>> ELSE <<>>)

\* holder_binding
HolderBinding(proof, verified) ==
  IF proof = Some(TRUE) /\ 15 \notin ToSet(verified) THEN None ELSE proof

\* verify_files; the portrait of a DG2 is written as the DG2.
Holder(files, bound) ==
  [name |-> world.name, portrait |-> files.dg2, ages |-> <<>>, kind |-> "passport",
   profile |-> None, verified |-> Supplied(files), signed |-> world.signed,
   bound |-> bound, trusted |-> call.anchors # <<>>]

VerifyFiles(files, proof, keep) ==
  IF BadAnchor THEN Err("anchor")
  ELSE IF ~(ToSet(Supplied(files)) \subseteq ToSet(world.signed)) THEN Err("notAuthentic")
  ELSE Ok(Holder(files, HolderBinding(proof, Supplied(files))), keep)

\* identity_mobile_read_passport_async over a chip that answers.
ReadPassport ==
  LET proof == IF Has(FilesRead.dg15) THEN Some(world.genuine) ELSE None
  IN VerifyFiles(FilesRead, proof, IF call.retain THEN Some(FilesRead) ELSE None)

\* identity_mobile_verify_passport
VerifyPassport ==
  VerifyFiles([dg2 |-> Given(Slice(call.dg2)), dg15 |-> Given(Slice(call.dg15))], None, None)

\* The entry point of the call.
Verdict ==
  CASE call.kind = "mdl" -> VerifyMdl
    [] call.kind = "openid4vp" -> VerifyOpenId
    [] call.kind = "read" -> ReadPassport
    [] call.kind = "files" -> VerifyPassport

-----------------------------------------------------------------------------
(* Back to Dart.                                                           *)

Digit(n) == IF n < 10 THEN 48 + n ELSE 87 + n
Hex(bytes) ==
  [i \in 1 .. 2 * Len(bytes) |->
     LET byte == bytes[(i + 1) \div 2] IN Digit(IF i % 2 = 1 THEN byte \div 16 ELSE byte % 16)]

Escaped(c) ==
  CASE c = 34 -> <<92, 34>>
    [] c = 92 -> <<92, 92>>
    [] c = 10 -> <<92, 110>>
    [] c = 13 -> <<92, 114>>
    [] c = 9 -> <<92, 116>>
    [] c < 32 /\ c \notin {9, 10, 13} -> <<92, 117, 48, 48, Digit(c \div 16), Digit(c % 16)>>
    [] OTHER -> <<c>>

\* quote, less the quotation marks: one character, then all.
Push == [out \in Seq(Nat) |-> [c \in Nat |-> out \o Escaped(c)]]

\* Faulty: the control characters without a short form go out as they are.
QuoteShort(text) ==
  FoldOver([out \in Seq(Nat) |-> [c \in Nat |->
              IF c < 32 /\ c \notin {9, 10, 13} THEN Append(out, c) ELSE out \o Escaped(c)]], <<>>, text)

Quote(text) == FoldOver(Push, <<>>, text)

Each(m, Op(_)) == IF Has(m) THEN Some(Op(m[1])) ELSE None

\* data_groups
DataGroups(files) == [dg2 |-> Each(files.dg2, Hex), dg15 |-> Each(files.dg15, Hex)]

\* identity_object and Json::error: null is None.
Render(r) ==
  [error |-> r.error,
   identity |-> Each(r.identity, LAMBDA i :
     [i EXCEPT !.name = Each(@, Quote), !.portrait = Each(@, Hex)]),
   files |-> Each(r.files, DataGroups)]

\* _nibble and _decodeHex
Nibble(c) ==
  CASE c \in 48 .. 57 -> Some(c - 48)
    [] c \in 97 .. 102 -> Some(c - 87)
    [] c \in 65 .. 70 -> Some(c - 55)
    [] OTHER -> None

DecodeHex(text) ==
  IF Len(text) % 2 = 1 \/ \E i \in DOMAIN text : ~Has(Nibble(text[i])) THEN None
  ELSE Some([i \in 1 .. (Len(text) \div 2) |-> Nibble(text[2 * i - 1])[1] * 16 + Nibble(text[2 * i])[1]])

\* External: a JSON string, read a character at a time.
JsonState == [text : Seq(Nat), mode : {"plain", "escape", "hex", "bad"}, due : 0 .. 4, code : Nat]
Reading(text, mode, due, code) == [text |-> text, mode |-> mode, due |-> due, code |-> code]
Take(text, c) == Reading(Append(text, c), "plain", 0, 0)
Bad(text) == Reading(text, "bad", 0, 0)

Short(c) ==
  CASE c \in {34, 92} -> Some(c)
    [] c = 110 -> Some(10)
    [] c = 114 -> Some(13)
    [] c = 116 -> Some(9)
    [] OTHER -> None

ReadPlain(text, c) ==
  IF c < 32 \/ c = 34 THEN Bad(text) ELSE IF c = 92 THEN Reading(text, "escape", 0, 0) ELSE Take(text, c)
ReadEscape(text, c) ==
  IF Has(Short(c)) THEN Take(text, Short(c)[1])
  ELSE IF c = 117 THEN Reading(text, "hex", 4, 0) ELSE Bad(text)
ReadHex(text, due, code, c) ==
  IF ~Has(Nibble(c)) THEN Bad(text)
  ELSE LET next == code * 16 + Nibble(c)[1]
       IN IF due > 1 THEN Reading(text, "hex", due - 1, next) ELSE Take(text, next)

ReadNext(st, c) ==
  CASE st.mode = "plain" -> ReadPlain(st.text, c)
    [] st.mode = "escape" -> ReadEscape(st.text, c)
    [] st.mode = "hex" -> ReadHex(st.text, st.due, st.code, c)
    [] st.mode = "bad" -> st

JsonStep == [st \in JsonState |-> [c \in Nat |-> ReadNext(st, c)]]

Unquoted(body) ==
  LET read == FoldOver(JsonStep, Reading(<<>>, "plain", 0, 0), body) IN IF read.mode = "plain" THEN Some(read.text) ELSE None

Decoded(m, Op(_)) == IF Has(m) THEN Op(m[1]) ELSE None
Spoilt(m, Op(_)) == Has(m) /\ ~Has(Op(m[1]))

Kinds == {"nfc", "access", "unreadable", "notAuthentic", "sessionKeyRequired", "anchor", "unsupportedAlgorithm"}

Thrown(kind) == [thrown |-> Some(kind), identity |-> None, files |-> None]

\* PassportRead.parseResult, fromJson of its parts, and _envelope.
Malformed(j) ==
  \/ Spoilt(j.identity[1].name, Unquoted) \/ Spoilt(j.identity[1].portrait, DecodeHex)
  \/ Has(j.files) /\ (Spoilt(j.files[1].dg2, DecodeHex) \/ Spoilt(j.files[1].dg15, DecodeHex))

Parse(j) ==
  IF Has(j.error) THEN Thrown(IF j.error[1] \in Kinds THEN j.error[1] ELSE "unknown")
  ELSE IF Malformed(j) THEN Thrown("unknown")
  ELSE [thrown   |-> None,
        identity |-> Some([j.identity[1] EXCEPT !.name = Decoded(@, Unquoted), !.portrait = Decoded(@, DecodeHex)]),
        files    |-> IF Has(j.files)
                     THEN Some([dg2  |-> Decoded(j.files[1].dg2, DecodeHex),
                                dg15 |-> Decoded(j.files[1].dg15, DecodeHex)])
                     ELSE None]

-----------------------------------------------------------------------------

Nothing == [thrown |-> None, identity |-> None, files |-> None]

CallInit ==
  /\ step = "call"
  /\ \/ call \in MdlCalls \cup OpenIdCalls /\ world \in Wallets
     \/ call \in ReadCalls /\ world \in Passports
  /\ result = Err("none") /\ json = Err("none") /\ answer = Nothing /\ first = Nothing

Refuse ==
  /\ step = "call" /\ Refused(call)
  /\ step' = "done" /\ answer' = Thrown("ArgumentError")
  /\ UNCHANGED <<call, world, result, json, first>>

Enter ==
  /\ step = "call" /\ ~Refused(call)
  /\ step' = "run"
  /\ UNCHANGED <<call, world, result, json, answer, first>>

Run ==
  /\ step = "run"
  /\ result' = Verdict
  /\ step' = "render"
  /\ UNCHANGED <<call, world, json, answer, first>>

HandBack ==
  /\ step = "render"
  /\ json' = Render(result)
  /\ step' = "parse"
  /\ UNCHANGED <<call, world, result, answer, first>>

TakeAnswer ==
  /\ step = "parse"
  /\ answer' = Parse(json)
  /\ step' = "done"
  /\ UNCHANGED <<call, world, result, json, first>>

\* The app sends the files a read retained to a server, which calls
\* verifyPassportFiles with them and the same anchors.
Forward ==
  /\ step = "done" /\ call.kind = "read" /\ Has(answer.files)
  /\ call' = [kind |-> "files", dg2 |-> answer.files[1].dg2, dg15 |-> answer.files[1].dg15,
              anchors |-> call.anchors]
  /\ first' = answer /\ answer' = Nothing
  /\ step' = "call"
  /\ UNCHANGED <<world, result, json>>

CallNext == Refuse \/ Enter \/ Run \/ HandBack \/ TakeAnswer \/ Forward

CallSpec == CallInit /\ [][CallNext]_callVars

-----------------------------------------------------------------------------
(* Properties.                                                             *)

Answered == step = "done" /\ Has(answer.identity)

\* The transcripts the caller's own words stand for.
Meant ==
  IF call.kind = "mdl" THEN {Adopted(call.transcript[1])}
  ELSE ToSet(Candidates([call EXCEPT !.nonce = Some(@)]))

\* A caller who supplies a session gets an answer about that session or none:
\* the holder signed a transcript made of exactly what was supplied, with a
\* nonce that is one, and a missing, an empty or a cut-off value never turns
\* into issuer authentication alone.  Without a session nothing is claimed.
AnswerIsForThisSession ==
  Answered =>
    CASE call.kind = "openid4vp" \/ (call.kind = "mdl" /\ Has(call.transcript)) ->
           /\ answer.identity[1].bound = Some(TRUE)
           /\ world.over \in Meant
           /\ answer.identity[1].profile = Some(world.over[1])
           /\ call.kind = "openid4vp" => call.nonce # <<>>
      [] OTHER -> call.kind = "read" \/ answer.identity[1].bound = None

\* What the Dart caller holds is what Rust found, field by field, null and
\* empty, null and false kept apart; an error stays the error it was; and a
\* server that is handed the files a read retained finds what the phone
\* found, except that it cannot say that the chip is the original.
AnswerIsTheVerdict ==
  step = "done" /\ answer.thrown # Some("ArgumentError") =>
    /\ answer = [thrown |-> result.error, identity |-> result.identity, files |-> result.files]
    /\ call.kind = "files" =>
         answer.identity = Some([first.identity[1] EXCEPT !.bound = None])
=============================================================================
