----------------------------- MODULE PaceGroups -----------------------------
(***************************************************************************)
(* The two key agreements of PACE with generic mapping, computed in groups *)
(* small enough to enumerate: a subgroup of order Q of the integers modulo *)
(* P, as in DHpkcs3Engine, and a curve of prime order N over the field of  *)
(* F elements, as in the ECDHPace engines.                                 *)
(*                                                                         *)
(* A byte has Radix values.  An element is a tuple: <<y>> in DH, <<x, y>>  *)
(* on the curve, << >> for infinity.  What may be refused returns the set  *)
(* of its outcomes, empty when it returns Err.                             *)
(***************************************************************************)
EXTENDS Integers, Sequences, SequencesExt

CONSTANTS
  P, Q, G,                   \* DhParameterSpec: modulus, subgroup order, generator
  F, CurveA, CurveB,         \* the curve y^2 = x^3 + CurveA x + CurveB
  BaseX, BaseY,              \* its generator
  N,                         \* the order of the curve
  CoordLen,                  \* bytes of a field element
  Radix                      \* values of a byte

-----------------------------------------------------------------------------
(* Big integers and PublicKeyPace.                                         *)

\* big_uint_to_bytes: minimal, and nothing at all for zero.
Width(n) == CHOOSE w \in 0 .. n : n < Radix^w /\ (w > 0 => Radix^(w - 1) <= n)
Bytes(n) == [i \in 1 .. Width(n) |-> (n \div Radix^(Width(n) - i)) % Radix]
Number(bytes) == FoldLeft(LAMBDA n, b : n * Radix + b, 0, bytes)

\* Faulty: a coordinate loses its leading zeros.
PadBEMinimal(n, len) == Bytes(n)

PadBE(n, len) ==
  LET raw == Bytes(n)
  IN [i \in 1 .. (IF Len(raw) < len THEN len - Len(raw) ELSE 0) |-> 0] \o raw

DhKey(bytes) == [type |-> "Dh", bytes |-> bytes]
EcKey(x, y, len) == [type |-> "Ecdh", x |-> x, y |-> y, len |-> len]

\* ecdh_from_hex: two halves, each of its own width.
EcdhFromHex(xy) ==
  LET half == Len(xy) \div 2
  IN IF xy = << >> \/ Len(xy) % 2 = 1 THEN {}
     ELSE {EcKey(Number(SubSeq(xy, 1, half)), Number(SubSeq(xy, half + 1, Len(xy))), half)}

ToBytes(k) ==
  IF k.type = "Dh" THEN k.bytes ELSE PadBE(k.x, k.len) \o PadBE(k.y, k.len)

-----------------------------------------------------------------------------
(* Integers modulo P.                                                      *)

Pow(b, n) == FoldLeft(LAMBDA y, i : (y * b) % P, 1, [i \in 1 .. n |-> i])

\* Faulty: the range is checked, membership of the subgroup is not.
ValidPeerInRange(y) == y \in 2 .. P - 2

\* validate_peer_public_key
ValidPeer(y) == y \in 2 .. P - 2 /\ Pow(y, Q) = 1

\* compute_secret_key
DhSecret(priv, y) == IF ValidPeer(y) THEN {<<Pow(y, priv)>>} ELSE {}

\* compute_generator: g^s * H, refused outside [2, p-2].
DhMap(priv, y, nonce) ==
  {h \in {<<(Pow(G, nonce) * k[1]) % P>> : k \in DhSecret(priv, y)} : h[1] \in 2 .. P - 2}

-----------------------------------------------------------------------------
(* The curve.                                                              *)

Infinity == << >>
Base == <<BaseX, BaseY>>
OnCurve(x, y) == x < F /\ y < F /\ (y * y) % F = (x * x * x + CurveA * x + CurveB) % F
Points == {Infinity} \cup {p \in (0 .. F - 1) \X (0 .. F - 1) : OnCurve(p[1], p[2])}

FieldInverse(a) == CHOOSE b \in 1 .. F - 1 : (a * b) % F = 1

PointSum(p, q) ==
  IF p = Infinity THEN q
  ELSE IF q = Infinity THEN p
  ELSE IF p[1] = q[1] /\ (p[2] + q[2]) % F = 0 THEN Infinity
  ELSE LET slope == IF p = q THEN (3 * p[1] * p[1] + CurveA) * FieldInverse((2 * p[2]) % F)
                             ELSE (q[2] - p[2]) * FieldInverse((q[1] - p[1]) % F)
           x == (slope * slope - p[1] - q[1]) % F
       IN <<x, (slope * (p[1] - x) - p[2]) % F>>

Times(n, p) == FoldLeft(LAMBDA q, i : PointSum(q, p), Infinity, [i \in 1 .. n |-> i])

\* point_to_pubkey_pace: infinity is not a public key.
PointToKey(p) == IF p = Infinity THEN {} ELSE {EcKey(p[1], p[2], CoordLen)}

\* transform_public: a coordinate that fits is padded to the field's width;
\* from_sec1_bytes takes points of the curve only.
TransformPublic(k) ==
  IF /\ k.type = "Ecdh"
     /\ Len(Bytes(k.x)) <= CoordLen /\ Len(Bytes(k.y)) <= CoordLen
     /\ OnCurve(k.x, k.y)
  THEN {<<k.x, k.y>>}
  ELSE {}

\* compute_shared_point
SharedPoint(priv, k) ==
  {Times(priv, p) : p \in TransformPublic(k)} \ {Infinity}

\* scalar_from_bytes reduces the nonce modulo the order; the sum is not
\* checked here.
EcMap(priv, k, nonce) ==
  {PointSum(Times(nonce % N, Base), h) : h \in SharedPoint(priv, k)}

-----------------------------------------------------------------------------
(* PaceEngine: one or the other.                                           *)

Generator(algo) == IF algo = "Dh" THEN <<G>> ELSE Base
PrivateKeys(algo) == 1 .. (IF algo = "Dh" THEN Q ELSE N) - 1

Raise(algo, g, x) == IF algo = "Dh" THEN <<Pow(g[1], x)>> ELSE Times(x, g)

\* get_pub_key, get_pub_key_ephemeral
PubKey(algo, element) ==
  IF algo = "Dh" THEN {DhKey(Bytes(element[1]))} ELSE PointToKey(element)

\* map_and_generate_ephemeral
MappedGenerator(algo, priv, k, nonce) ==
  IF algo = "Dh" THEN DhMap(priv, Number(k.bytes), nonce) ELSE EcMap(priv, k, nonce)

\* ephemeral_shared_seed of pace_session.rs: a DH secret without its leading
\* zeros; get_ephemeral_shared_seed, the x coordinate at its full width.
SharedSeed(algo, priv, k) ==
  IF algo = "Dh"
  THEN {Bytes(h[1]) : h \in DhSecret(priv, Number(k.bytes))}
  ELSE {PadBE(h[1], CoordLen) : h \in SharedPoint(priv, k)}
=============================================================================
