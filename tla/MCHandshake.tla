---------------------------- MODULE MCHandshake ----------------------------
(***************************************************************************)
(* A handshake of either kind, as MrtdApi may begin one: BAC and PACE side *)
(* by side, each against its own chip, and PACE with its data.  What the   *)
(* two sessions both keep has one variable; what one does not keep stays   *)
(* as it is.                                                               *)
(***************************************************************************)
EXTENDS Handshake

CONSTANTS
  MaxAttempts,               \* bound of both sessions
  MaxChallenges,             \* bound of BacSession
  MaxSecrets, MaxChipRuns,   \* bounds of PaceSession
  Scalars, Nonces, Lengths,  \* what PaceAgreement draws and is asked for
  P, Q, G, F, CurveA, CurveB, BaseX, BaseY, N, CoordLen, Radix, NumberLen

VARIABLES
  protocol,   \* "BAC", "PACE" or "Agreement"
  rndIcc, challenge, drawn,                        \* BacSession
  nonce, main, eph, iccEph, secrets, chip, runs,   \* PaceSession
  run, at, engine, data, wire, icc                 \* PaceAgreement

Bac == INSTANCE BacSession
Pace == INSTANCE PaceSession

ASSUME HandshakeConstants == Bac!BacConstants /\ Pace!PaceConstants

Agree == INSTANCE PaceAgreement WITH
  Passwords <- {[kind |-> "MRZ", number |-> <<"L", "8">>, dob |-> <<"6", "9">>,
                 doe |-> <<"9", "4">>, seedLen |-> 20],
                [kind |-> "CAN", can |-> <<"1", "2">>]},
  Forged <- [Dh   |-> UNION {[1 .. n -> 0 .. 4] : n \in 0 .. 2} \cup {<<0, 0, 3>>, <<1, 0, 1>>},
             Ecdh |-> {<<4, a, b, c, d>> : a \in 0 .. 2, b \in 0 .. 4, c \in 0 .. 2, d \in 0 .. 4}
                      \cup {<< >>, <<4>>, <<4, 2, 2>>, <<4, 0, 2, 1>>, <<0, 0, 2, 1, 2>>,
                            <<4, 0, 0, 2, 0, 1, 2>>, <<4, 1, 0, 2, 0, 1, 2>>}]

eitherVars == <<attempt, key, state, session, taken, sent, agreed, air>>
bacOnly == <<rndIcc, challenge, drawn>>
paceOnly == <<nonce, main, eph, iccEph, secrets, chip, runs>>
agreeVars == <<run, at, engine, data, wire, icc>>

NoAgreement == run = 0 /\ at = 0 /\ engine = 0 /\ data = 0 /\ wire = 0 /\ icc = 0
NoBac == rndIcc = 0 /\ challenge = 0 /\ drawn = 0
NoPace == nonce = 0 /\ main = 0 /\ eph = Pace!NoEph /\ iccEph = Pace!NoEph
          /\ secrets = 0 /\ chip = Pace!NoChipRun /\ runs = 0

HandshakeInit ==
  \/ protocol = "BAC" /\ Bac!Init /\ NoPace /\ NoAgreement
  \/ protocol = "PACE" /\ Pace!Init /\ NoBac /\ NoAgreement
  \/ /\ protocol = "Agreement"
     /\ Agree!Init /\ NoBac /\ NoPace
     /\ attempt = 0 /\ key = "none" /\ state = "none" /\ session = 0 /\ taken = <<>>
     /\ sent = {} /\ agreed = {} /\ air = {}

HandshakeNext ==
  /\ UNCHANGED protocol
  /\ \/ protocol = "BAC" /\ Bac!Next /\ UNCHANGED <<paceOnly, agreeVars>>
     \/ protocol = "PACE" /\ Pace!Next /\ UNCHANGED <<bacOnly, agreeVars>>
     \/ protocol = "Agreement" /\ Agree!Next /\ UNCHANGED <<eitherVars, bacOnly, paceOnly>>

HandshakeSpec ==
  HandshakeInit /\ [][HandshakeNext]_<<eitherVars, bacOnly, paceOnly, agreeVars, protocol>>

-----------------------------------------------------------------------------
(* The properties of the two sessions are Handshake's; these are            *)
(* PaceAgreement's.                                                        *)

\* With the chip the password was printed on, the PACE data of pace.rs and the
\* engines come to the chip's keys, unless the generator is degenerate or the
\* DH secret starts with a zero byte.
PrintedChipComesThrough == protocol = "Agreement" => Agree!PrintedChipComesThrough

\* No chip can make dh_pace.rs or ecdh_pace.rs draw the seed outside the group.
SeedIsInGroup == protocol = "Agreement" => Agree!SeedIsInGroup
=============================================================================
