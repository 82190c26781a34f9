--------------------------- MODULE PaceAgreement ---------------------------
(***************************************************************************)
(* PACE with its data: what PaceSession puts into each command and takes   *)
(* out of each response, the keys of KeyDerivation and the groups of       *)
(* PaceGroups.  PaceSession.tla has the order of the calls; here they      *)
(* come in order, and what matters is what the two sides compute.          *)
(*                                                                         *)
(* The chip is the one the password was printed on, which computes as      *)
(* ICAO 9303-11 has it, the width of a shared secret included, and reads   *)
(* an uncompressed point at full width only, or one that sends any         *)
(* template at all.                                                        *)
(***************************************************************************)
EXTENDS KeyDerivation, PaceGroups

CONSTANTS
  Scalars,     \* private keys that are drawn
  Nonces,      \* nonces the chip draws
  Passwords,   \* access keys
  Lengths,     \* AES key lengths
  Forged       \* values an arbitrary chip sends for a public key

VARIABLES
  run,      \* [algo, len, key, chip]: the protocol, the password, which chip
  at,       \* where the session is
  engine,   \* [priv, gen, eph]: private keys, and the mapped generator
  data,     \* [nonce, icc, seed, keys]: what State carries from step to step
  wire,     \* the last template sent, either way
  icc       \* the chip: [secret, eph, nonce, gen, seed, opened, ref]

vars == <<run, at, engine, data, wire, icc>>

-----------------------------------------------------------------------------
(* Templates: 7C around one object.                                        *)

Template(outer, tag, value) == [outer |-> outer, tag |-> tag, value |-> value]
DynamicAuthenticationData == 124

\* parse_step1_response, parse_step4_response
Inner(r, tags) ==
  IF r.outer = DynamicAuthenticationData /\ r.tag \in tags THEN {r.value} ELSE {}
ParseNonce(r) == Inner(r, {128})
ParseToken(r) == Inner(r, {134})

\* parse_step2_or_3_response: either step takes either tag; a point has the
\* prefix 04.
ParseKey(r, algo) ==
  UNION {CASE v = << >>       -> {}
           [] algo = "Dh"     -> {DhKey(v)}
           [] v[1] = 4        -> EcdhFromHex(Tail(v))
           [] OTHER           -> {} : v \in Inner(r, {130, 132})}

\* A public key in a template, and in the input of a token.
PointBytes(k) == IF k.type = "Ecdh" THEN <<4>> \o ToBytes(k) ELSE ToBytes(k)

\* generate_general_authenticate_data_step2_or_3
KeyTemplate(k, isEphemeral) ==
  Template(DynamicAuthenticationData, IF isEphemeral THEN 131 ELSE 129, PointBytes(k))

\* oid_body_bytes: the arcs from the second on.
Oid(algo, len) ==
  <<0, 4, 0, 127, 0, 7, 2, 2, 4, IF algo = "Dh" THEN 1 ELSE 2,
    CASE len = "S128" -> 2 [] len = "S192" -> 3 [] len = "S256" -> 4>>
OidBody(oid) == Tail(oid)

\* The standardized domain parameters that the group stands for: the first
\* MODP group, NIST P-256.
ParameterId(algo) == IF algo = "Dh" THEN 0 ELSE 12

\* generate_mse_set_at_data: DO'80', DO'83' and DO'84'.
MseSetAt(r) ==
  [mechanism |-> OidBody(Oid(r.algo, r.len)), password |-> PaceRefKeyTag(r.key),
   domain |-> ParameterId(r.algo)]

\* generate_encoding_input_data
EncodingInput(r, k) ==
  [oid |-> OidBody(Oid(r.algo, r.len)),
   tag |-> IF k.type = "Ecdh" THEN 134 ELSE 132,
   key |-> PointBytes(k)]

\* calculate_auth_token over the key that K_mac is derived from.
AuthToken(r, seed, k) ==
  [mac |-> CalculateMacKey("Aes", r.len, seed), over |-> EncodingInput(r, k)]

\* decrypt_nonce: with another key, to another nonce.
Seal(kpi, nonce) == [under |-> kpi, nonce |-> nonce]
DecryptNonce(r, box) ==
  IF box.under = Kpi(r.key, "Aes", r.len) THEN box.nonce ELSE box.nonce + 1

-----------------------------------------------------------------------------

NoEngine == [priv |-> 0, gen |-> << >>, eph |-> 0]
NoData == [nonce |-> 0, icc |-> {}, seed |-> {}, keys |-> {}]
NoChip == [secret |-> 0, eph |-> 0, nonce |-> 0, gen |-> {}, seed |-> {}, opened |-> FALSE, ref |-> 0]
Silence == Template(0, 0, << >>)

Init ==
  /\ run \in [algo : {"Ecdh", "Dh"}, len : Lengths, key : Passwords, chip : {"printed", "any"}]
  /\ KpiSupported(run.key, "Aes", run.len)
  /\ run.key.kind = "MRZ" => ValidNumber(run.key.number)
  /\ at = "Start"
  /\ engine = NoEngine
  /\ data = NoData
  /\ wire = Silence
  /\ icc = NoChip

\* An error: mem::replace has left Start behind.
Refuse ==
  /\ at' = "Refused"
  /\ UNCHANGED <<run, engine, data, wire, icc>>

\* MSE:Set AT, then the first GENERAL AUTHENTICATE.
Begin ==
  /\ at = "Start"
  /\ at' = "WaitingForStep1"
  /\ icc' = [icc EXCEPT !.ref = MseSetAt(run)]
  /\ wire' = Template(DynamicAuthenticationData, 0, << >>)
  /\ UNCHANGED <<run, engine, data>>

\* The nonce, then generate_main_key_pair and its public key.
SendMapping ==
  /\ at = "WaitingForStep1"
  /\ \E box \in ParseNonce(wire), x \in Scalars :
       /\ x \in PrivateKeys(run.algo)
       /\ data' = [data EXCEPT !.nonce = DecryptNonce(run, box)]
       /\ engine' = [engine EXCEPT !.priv = x]
       /\ \E k \in PubKey(run.algo, Raise(run.algo, Generator(run.algo), x)) :
            wire' = KeyTemplate(k, FALSE)
  /\ at' = "WaitingForStep2"
  /\ UNCHANGED <<run, icc>>

\* The chip's mapping key, the generator, an ephemeral key on it.  A public
\* key at infinity ends the run when it is to be sent.
SendEphemeral ==
  /\ at = "WaitingForStep2"
  /\ \E k \in ParseKey(wire, run.algo), x \in Scalars :
       \E g \in MappedGenerator(run.algo, engine.priv, k, data.nonce) :
         LET keys == PubKey(run.algo, Raise(run.algo, g, x)) IN
         /\ x \in PrivateKeys(run.algo)
         /\ engine' = [engine EXCEPT !.gen = g, !.eph = x]
         /\ at' = IF keys = {} THEN "Refused" ELSE "WaitingForStep3"
         /\ wire' = IF keys = {} THEN Silence ELSE KeyTemplate(CHOOSE e \in keys : TRUE, TRUE)
  /\ UNCHANGED <<run, data, icc>>

\* The chip's ephemeral key, the shared seed, and the token over that key.
SendToken ==
  /\ at = "WaitingForStep3"
  /\ \E k \in ParseKey(wire, run.algo) :
       \E s \in SharedSeed(run.algo, engine.eph, k) :
         /\ data' = [data EXCEPT !.icc = {k}, !.seed = {s},
                                !.keys = {[enc |-> CalculateEncKey("Aes", run.len, s),
                                           mac |-> CalculateMacKey("Aes", run.len, s)]}]
         /\ wire' = Template(DynamicAuthenticationData, 133, AuthToken(run, s, k))
  /\ at' = "WaitingForStep4"
  /\ UNCHANGED <<run, engine, icc>>

OwnKey == PubKey(run.algo, Raise(run.algo, engine.gen, engine.eph))

\* T_IC must be the token over the terminal's own ephemeral key.
Complete ==
  /\ at = "WaitingForStep4"
  /\ \E t \in ParseToken(wire), s \in data.seed, k \in OwnKey : t = AuthToken(run, s, k)
  /\ at' = "Completed"
  /\ UNCHANGED <<run, engine, data, wire, icc>>

\* A template the step cannot use.
Answered == wire.tag \in {128, 130, 132, 134} \/ wire.outer = 1

Reject ==
  /\ Answered
  /\ \/ at = "WaitingForStep1" /\ ParseNonce(wire) = {}
     \/ at = "WaitingForStep2" /\ \A k \in ParseKey(wire, run.algo) :
                                    MappedGenerator(run.algo, engine.priv, k, data.nonce) = {}
     \/ at = "WaitingForStep3" /\ \A k \in ParseKey(wire, run.algo) :
                                    SharedSeed(run.algo, engine.eph, k) = {}
     \/ at = "WaitingForStep4" /\ \A t \in ParseToken(wire), s \in data.seed, k \in OwnKey :
                                    t # AuthToken(run, s, k)
  /\ Refuse

Terminal == Begin \/ SendMapping \/ SendEphemeral \/ SendToken \/ Complete \/ Reject

-----------------------------------------------------------------------------
(* The chip (external).                                                    *)

\* ICAO 9303-11, 9.7.1: the counter is 1 to encrypt, 2 for a MAC and 3 for a
\* password.
IcaoKey(seed, counter) ==
  [hash |-> IF run.len = "S128" THEN "SHA1" ELSE "SHA256", seed |-> seed, counter |-> counter,
   len |-> CASE run.len = "S128" -> 16 [] run.len = "S192" -> 24 [] run.len = "S256" -> 32,
   parity |-> FALSE]

\* The mechanism as DER has it: id-PACE, then its last two arcs.
ChipOid == <<4, 0, 127, 0, 7, 2, 2, 4>> \o SubSeq(Oid(run.algo, run.len), 10, 11)

\* The mechanism and the domain parameters that its PACEInfo has.
ChipOffers == icc.ref.mechanism = ChipOid /\ icc.ref.domain = ParameterId(run.algo)

\* The password it takes is the one MSE:Set AT names: 1 for the zone, 2 for
\* the number.
ChipKpi ==
  LET k == CHOOSE k \in Passwords : k.kind = (IF icc.ref.password = 1 THEN "MRZ" ELSE "CAN")
  IN IcaoKey(KpiSeed(k), 3)

\* TR-03110-3 and PKCS #3: a DH secret is as wide as the modulus; a field
\* element has the width of the field.
IcaoSeed(priv, k) ==
  IF run.algo = "Dh"
  THEN {PadBE(h[1], Width(P)) : h \in DhSecret(priv, Number(k.bytes))}
  ELSE {PadBE(h[1], CoordLen) : h \in SharedPoint(priv, k)}

\* ICAO 9303-11's token, over the mechanism as DER has it and the key as the
\* chip has read it.
ChipToken(s, k) ==
  [mac  |-> IcaoKey(s, 2),
   over |-> [oid |-> ChipOid,
             tag |-> IF run.algo = "Dh" THEN 132 ELSE 134,
             key |-> IF run.algo = "Dh" THEN k.bytes
                     ELSE <<4>> \o PadBE(k.x, CoordLen) \o PadBE(k.y, CoordLen)]]

Stopped == Template(1, 0, << >>)
ChipKey == UNION {PubKey(run.algo, Raise(run.algo, g, icc.eph)) : g \in icc.gen}

\* A point is read at full width, and a value of the group as a number.
StrictKey(v) ==
  IF run.algo = "Dh" THEN {DhKey(v)}
  ELSE IF Len(v) = 1 + 2 * CoordLen /\ v[1] = 4 THEN EcdhFromHex(Tail(v)) ELSE {}

Reply(tag, value) == wire' = Template(DynamicAuthenticationData, tag, value)

ChipNonce ==
  /\ run.chip = "printed" /\ at = "WaitingForStep1" /\ wire.tag = 0
  /\ \E n \in Nonces :
       /\ icc' = [icc EXCEPT !.nonce = n]
       /\ IF ChipOffers THEN Reply(128, Seal(ChipKpi, n)) ELSE wire' = Stopped
  /\ UNCHANGED <<run, at, engine, data>>

\* It refuses what the terminal refuses, and a generator at infinity besides.
ChipMap ==
  /\ run.chip = "printed" /\ wire.tag = 129
  /\ \E c \in Scalars \cap PrivateKeys(run.algo) :
       LET gens == UNION {MappedGenerator(run.algo, c, k, icc.nonce) : k \in StrictKey(wire.value)}
           own == PubKey(run.algo, Raise(run.algo, Generator(run.algo), c))
       IN /\ icc' = [icc EXCEPT !.secret = c, !.gen = UNION {{g} \ {Infinity} : g \in gens}]
          /\ \E k \in own :
               IF icc'.gen = {} THEN wire' = Stopped ELSE Reply(130, PointBytes(k))
  /\ UNCHANGED <<run, at, engine, data>>

ChipAgree ==
  /\ run.chip = "printed" /\ wire.tag = 131
  /\ \E k \in StrictKey(wire.value), c \in Scalars \cap PrivateKeys(run.algo), g \in icc.gen :
       \E s \in IcaoSeed(c, k), p \in PubKey(run.algo, Raise(run.algo, g, c)) :
         /\ icc' = [icc EXCEPT !.eph = c, !.seed = {<<s, k>>}]
         /\ Reply(132, PointBytes(p))
  /\ UNCHANGED <<run, at, engine, data>>

\* It checks T_IFD over its own key before it gives T_IC away.
ChipAuthenticate ==
  /\ run.chip = "printed" /\ wire.tag = 133
  /\ \E sk \in icc.seed, p \in ChipKey :
       /\ wire.value = ChipToken(sk[1], p)
       /\ Reply(134, ChipToken(sk[1], sk[2]))
  /\ icc' = [icc EXCEPT !.opened = TRUE]
  /\ UNCHANGED <<run, at, engine, data>>

\* The chip drops the run: what it got is no good to it.
ChipStops ==
  /\ run.chip = "printed"
  /\ \/ wire.tag = 131 /\ StrictKey(wire.value) = {}
     \/ wire.tag = 133 /\ \A sk \in icc.seed, p \in ChipKey :
                            wire.value # ChipToken(sk[1], p)
  /\ wire' = Stopped
  /\ UNCHANGED <<run, at, engine, data, icc>>

\* Any key in a good template, or a template that is not.
AnyChip ==
  /\ run.chip = "any" /\ ~Answered
  /\ \/ /\ at = "WaitingForStep1"
        /\ \E k \in Passwords : Reply(128, Seal(Kpi(k, "Aes", run.len), 1))
     \/ /\ at \in {"WaitingForStep2", "WaitingForStep3"}
        /\ \E tag \in {130, 132}, v \in Forged[run.algo] : Reply(tag, v)
     \/ /\ at = "WaitingForStep4"
        /\ \E s \in data.seed, k \in data.icc \cup OwnKey : Reply(134, AuthToken(run, s, k))
     \/ at # "Start" /\ \E tag \in {128, 130, 132, 134} : wire' = Template(1, tag, << >>)
     \/ at # "WaitingForStep1" /\ Reply(128, << >>)
  /\ UNCHANGED <<run, at, engine, data, icc>>

Chip == ChipNonce \/ ChipMap \/ ChipAgree \/ ChipAuthenticate \/ ChipStops \/ AnyChip

Next == Terminal \/ Chip

Spec == Init /\ [][Next]_vars

-----------------------------------------------------------------------------
(* Properties.                                                             *)

Degenerate(algo, g) == IF algo = "Dh" THEN g[1] \notin 2 .. P - 2 ELSE g = Infinity

\* The generator of this nonce and these two mapping keys.
MustRefuse ==
  Degenerate(run.algo,
    IF run.algo = "Dh"
    THEN <<(Pow(G, icc.nonce) * Pow(Pow(G, engine.priv), icc.secret)) % P>>
    ELSE PointSum(Times(icc.nonce % N, Base), Times(engine.priv, Times(icc.secret, Base))))

\* The DH secret of the run starts with a zero byte, which the chip keeps and
\* big_uint_to_bytes leaves out.
ShortSecret == run.algo = "Dh" /\ \E sk \in icc.seed : sk[1][1] = 0

\* With the chip the password was printed on, the run comes through whatever
\* the numbers are - public keys and coordinates with leading zeros, nonces
\* beyond the order - and to the same keys.  There are two exceptions: the
\* mapped generator is degenerate, which neither side takes, and a DH secret
\* that starts with a zero byte, of which the two sides derive other keys.
PrintedChipComesThrough ==
  run.chip = "printed" =>
    /\ (at = "Refused" \/ wire.outer = 1) => MustRefuse \/ ShortSecret
    /\ icc.opened => data.keys = {[enc |-> IcaoKey(sk[1], 1), mac |-> IcaoKey(sk[1], 2)] :
                                   sk \in icc.seed}

\* Whatever a chip sends, the seed is drawn in the group: the generator it was
\* mapped to and the seed itself have full order.
OfFullOrder(algo, h) ==
  IF algo = "Dh" THEN h # 1 /\ Pow(h, Q) = 1
  ELSE \E y \in 0 .. F - 1 : OnCurve(h, y)

SeedIsInGroup ==
  /\ at \in {"WaitingForStep3", "WaitingForStep4", "Completed"} =>
       IF run.algo = "Dh" THEN OfFullOrder("Dh", engine.gen[1])
       ELSE engine.gen \in Points \ {Infinity}
  /\ \A s \in data.seed : OfFullOrder(run.algo, Number(s))
=============================================================================
