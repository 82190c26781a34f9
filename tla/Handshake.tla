----------------------------- MODULE Handshake -----------------------------
(***************************************************************************)
(* What BacSession and PaceSession have in common: machines that a caller  *)
(* drives with next and feed_response against a chip, one object after the *)
(* other, and what either promises.                                        *)
(***************************************************************************)
EXTENDS Naturals, FiniteSets

VARIABLES
  attempt,   \* the current object
  key,       \* the access key it was given: "right" or "wrong" for this chip
  state,     \* where its machine is
  session,   \* the secrets its session comes from
  taken,     \* taken[a]: how often object a has answered Done
  sent,      \* every APDU the reader ever sent
  agreed,    \* the sessions the chip has opened
  air        \* every response the chip ever gave

\* The fresh random numbers a command commits the reader to, by their number:
\* RND.IFD and K.IFD, which BAC draws together for an object; the mapping key
\* and the ephemeral key of PACE.
Randomness(cmd) ==
  CASE cmd.ins = "ExternalAuthenticate" -> {cmd.from}
    [] cmd.ins = "GA3" -> {cmd.eph.secret, cmd.eph.gen.t}
    [] OTHER -> {}

\* A completed handshake holds a session that the chip has opened, which it
\* does for the right access key only ...
AgreesWithChip == session \in agreed /\ key = "right"

\* ... unless both secrets of the session are one and the same of the reader's
\* (t and c are PACE's; there is no such thing in BAC).
OwnKeyCameBack == "t" \in DOMAIN session /\ session.t = session.c

\* In whatever order bac_session.rs's or pace_session.rs's machine is fed what
\* the chip and the reader itself have said, however old and however often it
\* was rewound, completing the handshake means agreement with the chip under
\* the right key.  pace_session.rs has one exception, as it does not compare
\* the key of step 3 with its own: a run that is fed the key and the token it
\* has just sent completes, though nobody else has a part in that session.
\* bac_session.rs, which compares RND.IFD, has none.
SessionAgreement == state = "Completed" => AgreesWithChip \/ OwnKeyCameBack

\* No random number goes into a second command.
RandomnessUsedOnce ==
  \A x, y \in sent : Randomness(x) \cap Randomness(y) # {} => x = y

\* "Already consumed": a session is moved out, not copied.
DoneOnce == \A a \in DOMAIN taken : taken[a] <= 1

\* One object of either machine uses its randomness, and gives out its
\* session, once: BAC is poisoned by a step that fails, PACE starts over with
\* keys of its own.
SessionOneRun == RandomnessUsedOnce /\ DoneOnce
=============================================================================
