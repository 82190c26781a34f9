--------------------------- MODULE KeyDerivation ---------------------------
(***************************************************************************)
(* The key derivation function and the access keys.  A digest is the       *)
(* record of what goes into it, so two keys are equal exactly when they    *)
(* are made from the same input in the same way.                           *)
(***************************************************************************)
EXTENDS CheckDigits

CONSTANT NumberLen   \* length a document number is padded to (9)

Sha1Types == {"DESede", "ISO9797MacAlg3", "AES128", "CMAC128"}
Sha256Types == {"AES192", "CMAC192", "AES256", "CMAC256"}
MacTypes == {"ISO9797MacAlg3", "CMAC128", "CMAC192", "CMAC256"}
DesTypes == {"DESede", "ISO9797MacAlg3"}

DigestLen(hash) == IF hash = "SHA1" THEN 20 ELSE 32

\* MAC keys count 2; encryption keys 1, or 3 for a password.
Counter(type, paceMode) ==
  IF type \in MacTypes THEN 2 ELSE IF paceMode THEN 3 ELSE 1

Cut(type) ==
  CASE type \in Sha1Types -> 16
    [] type \in {"AES192", "CMAC192"} -> 24
    [] type \in {"AES256", "CMAC256"} -> 32

Derive(type, seed, paceMode) ==
  [hash    |-> IF type \in Sha1Types THEN "SHA1" ELSE "SHA256",
   seed    |-> seed,
   counter |-> Counter(type, paceMode),
   len     |-> Cut(type),
   parity  |-> type \in DesTypes]

AesType(len) ==
  CASE len = "S128" -> "AES128" [] len = "S192" -> "AES192" [] len = "S256" -> "AES256"
CmacType(len) ==
  CASE len = "S128" -> "CMAC128" [] len = "S192" -> "CMAC192" [] len = "S256" -> "CMAC256"

CalculateEncKey(cipher, len, seed) ==
  Derive(IF cipher = "Aes" THEN AesType(len) ELSE "DESede", seed, FALSE)
CalculateMacKey(cipher, len, seed) ==
  Derive(IF cipher = "Aes" THEN CmacType(len) ELSE "ISO9797MacAlg3", seed, FALSE)

-----------------------------------------------------------------------------
(* DBAKey and CanKey.                                                      *)

PadRight(text, len) ==
  text \o [i \in 1 .. (IF Len(text) < len THEN len - Len(text) ELSE 0) |-> "<"]

\* DBAKey::new takes the characters of the zone and no other.
ValidNumber(number) ==
  \A i \in DOMAIN number : IsDigit(number[i]) \/ IsLetter(number[i]) \/ number[i] = "<"

DBAKey(number, dob, doe, paceMode) ==
  [kind |-> "MRZ", number |-> number, dob |-> dob, doe |-> doe,
   seedLen |-> IF paceMode THEN 20 ELSE 16]

CanKey(can) == [kind |-> "CAN", can |-> can]

\* The digest over the three fields, each with its check digit, cut.
KeySeed(k) ==
  LET padded == PadRight(k.number, NumberLen)
      With(text) == <<text, CheckDigit(text)>>
  IN [hash |-> "SHA1", of |-> <<With(padded), With(k.dob), With(k.doe)>>,
      len |-> k.seedLen]

PaceRefKeyTag(k) == IF k.kind = "MRZ" THEN 1 ELSE 2

\* AccessKey::kpi: the CAN is the seed itself, the zone's is hashed first.
KpiSeed(k) == IF k.kind = "CAN" THEN [can |-> k.can] ELSE KeySeed(k)
KpiSupported(k, cipher, len) == (k.kind = "CAN" /\ cipher = "DeSede") => len = "S128"
Kpi(k, cipher, len) ==
  Derive(IF cipher = "Aes" THEN AesType(len) ELSE "DESede", KpiSeed(k), TRUE)
=============================================================================
