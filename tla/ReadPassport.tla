---------------------------- MODULE ReadPassport ----------------------------
(***************************************************************************)
(* identity-mobile's read_passport and verify_files: the order in which a  *)
(* chip is read, what a failure at each step becomes, and what the verdict *)
(* then claims.                                                            *)
(*                                                                         *)
(* A step is one call of the Passport handle, however many APDUs it takes. *)
(* It ends "ok", "refused" (the chip answered, with an error or with       *)
(* something unusable) or "lost" (the channel failed, which Channel notes  *)
(* in transport_failed).  The chip is external: the issuer's original, a   *)
(* copy of it, or a forgery, which may serve other contents at every read. *)
(***************************************************************************)

VARIABLES
  options,          \* PassportOptions
  chip,             \* what is in the field, see Chips
  step,             \* the next step of read_passport
  transportFailed,  \* the Channel's flag
  cardAccess,       \* EF.CardAccess was read
  files,            \* files[f]: what was read of each file
  activeAuth,       \* the active authentication result
  ending,           \* how read_passport ended
  lostAt            \* the steps during which the channel failed

readInputs == <<options, chip>>
readVars == <<readInputs, step, transportFailed, cardAccess, files, activeAuth, ending, lostAt>>

-----------------------------------------------------------------------------

Answer == {"yes", "no", "none"}            \* Option<bool>
Content == {"issued", "own", "absent"}     \* whose bytes a file holds
Group == {"dg1", "dg2", "dg15"}
File == Group \cup {"sod"}
ReadError == {"Nfc", "Access", "Unreadable", "NotAuthentic", "Anchor"}

\* The caller's arguments; anchors says whose CSCA certificates they include.
Options == [session : {"Auto", "Pace", "Bac"}, portrait : BOOLEAN, active : BOOLEAN,
            keyUsable : BOOLEAN, anchors : {"issuer", "other", "malformed"}]

\* An original holds the issuer's key and serves the issuer's files.  Others
\* hold a key of their own, and serve copies or files of their own.  The
\* build may lack the algorithm of the issuer's active authentication key.
\* issued is the set of data groups the issuer signed.
Chips == [original : BOOLEAN, keyFits : BOOLEAN, cardAccess : BOOLEAN,
          supported : BOOLEAN, issued : {S \in SUBSET Group : "dg1" \in S}]

Ending == [ok : {FALSE}, error : ReadError]
     \cup [ok : {TRUE}, issuerTrusted : BOOLEAN, holderBound : Answer]
Reading == [ok |-> FALSE, error |-> "none"]

Step == {"access", "pace", "bac", "dg1", "dg2", "dg15", "sod", "aa", "verify"}

ReadTypeOK ==
  /\ options \in Options
  /\ chip \in Chips
  /\ step \in Step \cup {"done"}
  /\ transportFailed \in BOOLEAN
  /\ cardAccess \in BOOLEAN
  /\ files \in [File -> Content]
  /\ activeAuth \in Answer
  /\ ending \in Ending \cup {Reading}
  /\ (ending = Reading) <=> (step # "done")
  /\ step = "aa" => files["dg15"] # "absent"
  /\ lostAt \subseteq Step

ReadInit ==
  /\ options \in Options
  /\ chip \in Chips
  /\ step = "access"
  /\ transportFailed = FALSE
  /\ cardAccess = FALSE
  /\ files = [f \in File |-> "absent"]
  /\ activeAuth = "none"
  /\ ending = Reading
  /\ lostAt = {}

\* What a read of file f may return.
Served(f) ==
  LET genuine == IF f = "sod" \/ f \in chip.issued THEN {"issued"} ELSE {} IN
  IF chip.original THEN genuine ELSE genuine \cup {"own"}

Continue(next) == step' = next /\ UNCHANGED ending
Stop(error) == step' = "done" /\ ending' = [ok |-> FALSE, error |-> error]

\* The channel fails during step s.
Lose(s) == transportFailed' = TRUE /\ lostAt' = lostAt \cup {s}
Keep == UNCHANGED <<transportFailed, lostAt>>

-----------------------------------------------------------------------------
(* Setting up the session.                                                 *)

\* The match on (options.session, card_access); the key is built in the arm.
Establish(readable) ==
  CASE options.session = "Pace" /\ ~readable -> Stop("Unreadable")
    [] ~options.keyUsable -> Stop("Unreadable")
    [] options.session # "Bac" /\ readable -> Continue("pace")
    [] OTHER -> Continue("bac")

\* EF.CardAccess is a probe: when it fails for any reason but a lost tag, the
\* read goes on, with the flag cleared.
ProbeCardAccess ==
  /\ step = "access"
  /\ UNCHANGED <<readInputs, files, activeAuth>>
  /\ \/ /\ cardAccess' \in {FALSE, chip.cardAccess}
        /\ transportFailed' = FALSE
        /\ UNCHANGED lostAt
        /\ Establish(cardAccess')
     \/ /\ Lose("access")
        /\ Stop("Nfc")
        /\ UNCHANGED cardAccess

\* The flag says which of the two the holder is told.
SessionFailed(lost) == Stop(IF lost THEN "Nfc" ELSE "Access")

\* PACE, with BAC taking its turn when the caller left the choice.
StartSessionPace ==
  /\ step = "pace"
  /\ UNCHANGED <<readInputs, cardAccess, files, activeAuth>>
  /\ \/ /\ chip.keyFits
        /\ Continue("dg1")
        /\ transportFailed' = FALSE
        /\ UNCHANGED lostAt
     \/ /\ Keep
        /\ IF options.session = "Auto" THEN Continue("bac") ELSE SessionFailed(transportFailed)
     \/ /\ Lose("pace")
        /\ IF options.session = "Auto" THEN Continue("bac") ELSE SessionFailed(TRUE)

\* Faulty: what PACE left in the flag stays there.
StartSessionKeepingFlag ==
  /\ step = "bac"
  /\ UNCHANGED <<readInputs, cardAccess, files, activeAuth>>
  /\ \/ chip.keyFits /\ Continue("dg1") /\ Keep
     \/ Keep /\ SessionFailed(transportFailed)
     \/ Lose("bac") /\ SessionFailed(TRUE)

\* BAC.  Once a session is up the flag starts afresh.
StartSession ==
  /\ step = "bac"
  /\ UNCHANGED <<readInputs, cardAccess, files, activeAuth>>
  /\ \/ /\ chip.keyFits
        /\ Continue("dg1")
        /\ transportFailed' = FALSE
        /\ UNCHANGED lostAt
     \/ Keep /\ SessionFailed(transportFailed)
     \/ Lose("bac") /\ SessionFailed(TRUE)

-----------------------------------------------------------------------------
(* Reading the files.                                                      *)

\* The file after f; DG2 and DG15 only on request.
After(f) ==
  CASE f = "dg1" /\ options.portrait -> "dg2"
    [] f = "dg2" \/ (f = "dg1" /\ ~options.portrait) -> IF options.active THEN "dg15" ELSE "sod"
    [] f = "dg15" -> "sod"
    [] f = "sod" -> IF options.active /\ files["dg15"] # "absent" THEN "aa" ELSE "verify"

\* The flag is cleared before every read but the first, which comes right
\* after it was cleared for the session.
Cleared(f) == f # "dg1"

\* A file comes back, and parses.
ReadFile(f) ==
  /\ step = f
  /\ \E c \in Served(f) : files' = [files EXCEPT ![f] = c]
  /\ transportFailed' = (~Cleared(f) /\ transportFailed)
  /\ Continue(After(f))
  /\ UNCHANGED <<readInputs, cardAccess, activeAuth, lostAt>>

\* DG1 and EF.SOD are needed.
ReadMandatoryFails(f) ==
  /\ step = f
  /\ UNCHANGED <<readInputs, cardAccess, files, activeAuth>>
  /\ \/ /\ transportFailed' = (~Cleared(f) /\ transportFailed)
        /\ UNCHANGED lostAt
        /\ Stop(IF transportFailed' THEN "Nfc" ELSE "Unreadable")
     \/ Lose(f) /\ Stop("Nfc")

\* DG2 and DG15 may be missing, but a lost tag is not a missing file.
ReadOptionalFails(f) ==
  /\ step = f
  /\ UNCHANGED <<readInputs, cardAccess, files, activeAuth>>
  /\ \/ transportFailed' = FALSE /\ UNCHANGED lostAt /\ Continue(After(f))
     \/ Lose(f) /\ Stop("Nfc")

-----------------------------------------------------------------------------
(* Active authentication.                                                  *)

\* The chip signs with the private key of the DG15 it served, if it has it:
\* an original has the issuer's, any other its own.
CanProve(key) == IF key = "issued" THEN chip.original ELSE ~chip.original

\* active::verify accepts: the build knows the algorithm, and a chip with a
\* key of its own can choose one it knows.
Accepts(key) == CanProve(key) /\ (key = "issued" => chip.supported)

\* Faulty: DG15 is read again for the check.
ActiveAuthenticateRereading ==
  /\ step = "aa"
  /\ UNCHANGED <<readInputs, cardAccess, files>>
  /\ \/ /\ transportFailed' = FALSE /\ UNCHANGED lostAt
        /\ \/ \E key \in Served("dg15") : activeAuth' = IF Accepts(key) THEN "yes" ELSE "no"
           \/ activeAuth' = "no"
        /\ Continue("verify")
     \/ Lose("aa") /\ Stop("Nfc") /\ UNCHANGED activeAuth

\* The response is checked against the DG15 captured before; a refusal counts
\* as a failed check, a lost tag does not.  Without randomness there is no
\* challenge, and no read.
ActiveAuthenticate ==
  /\ step = "aa"
  /\ UNCHANGED <<readInputs, cardAccess, files>>
  /\ \/ /\ transportFailed' = FALSE /\ UNCHANGED lostAt
        /\ \/ activeAuth' = IF Accepts(files["dg15"]) THEN "yes" ELSE "no"
           \/ ~chip.original /\ activeAuth' = "no"
        /\ Continue("verify")
     \/ Lose("aa") /\ Stop("Nfc") /\ UNCHANGED activeAuth
     \/ transportFailed' = FALSE /\ Stop("Unreadable") /\ UNCHANGED <<activeAuth, lostAt>>

-----------------------------------------------------------------------------
(* verify_files.                                                           *)

\* Faulty: the photograph is left out of what is hashed.
GroupsWithoutPortrait == {g \in {"dg1", "dg15"} : files[g] # "absent"}

\* Passive authentication gets every group that was read.
Groups == {g \in Group : files[g] # "absent"}

\* passive::verify: each group must be in EF.SOD and match it.  A security
\* object of the forger's own making matches whatever the forger serves.
PassiveOk ==
  files["sod"] = "issued" => \A g \in Groups : g \in chip.issued /\ files[g] = "issued"

\* holder_binding: a success counts only with an authenticated DG15.
HolderBound ==
  IF activeAuth = "yes" /\ "dg15" \notin Groups THEN "none" ELSE activeAuth

VerifyFiles ==
  /\ step = "verify"
  /\ step' = "done"
  /\ ending' =
       IF options.anchors = "malformed" THEN [ok |-> FALSE, error |-> "Anchor"]
       ELSE IF ~PassiveOk THEN [ok |-> FALSE, error |-> "NotAuthentic"]
       ELSE [ok |-> TRUE,
             issuerTrusted |-> files["sod"] = "issued" /\ options.anchors = "issuer",
             holderBound |-> HolderBound]
  /\ UNCHANGED <<readInputs, transportFailed, cardAccess, files, activeAuth, lostAt>>

-----------------------------------------------------------------------------

ReadNext ==
  \/ ProbeCardAccess \/ StartSessionPace \/ StartSession
  \/ \E f \in File : ReadFile(f)
  \/ \E f \in {"dg1", "sod"} : ReadMandatoryFails(f)
  \/ \E f \in {"dg2", "dg15"} : ReadOptionalFails(f)
  \/ ActiveAuthenticate
  \/ VerifyFiles

ReadSpec == ReadInit /\ [][ReadNext]_readVars

-----------------------------------------------------------------------------
(* Properties.                                                             *)

Ended(error) == ~ending.ok /\ ending.error = error

\* A tag that was lost is never recorded as something else: not as a missing
\* photograph, an unsupported or failed active authentication, a file nobody
\* can read, or a wrong key.  Only BAC may make up for PACE's lost tag.
LossIsNamed ==
  /\ step = "done" /\ lostAt \ {"pace"} # {} => Ended("Nfc")
  /\ Ended("Access") => lostAt = {}

\* And the holder is told to hold still only if the tag was lost in that very
\* step, or earlier in the same attempt to set up the session.
NfcMeansLost == Ended("Nfc")' => step \in lostAt' \/ (step = "bac" /\ "pace" \in lostAt)

LostTagNeverBlamed == []LossIsNamed /\ [][NfcMeansLost]_readVars

\* A verdict of present and trustworthy is given to the original only: the
\* key that answered the challenge is the key the issuer signed, whatever the
\* chip serves to other reads.
BoundMeansOriginal ==
  ending.ok => (ending.issuerTrusted /\ ending.holderBound = "yes" => chip.original)

\* Whatever was read and ends up in a trusted identity is the issuer's.
TrustedMeansIssued ==
  ending.ok => (ending.issuerTrusted => \A f \in File : files[f] # "own")

\* What passport.rs:612 says of a failed active authentication: "Only a chip
\* that was asked and answered wrongly reaches here".
UnboundMeansWrongAnswer ==
  ending.ok => (ending.holderBound = "no" => ~chip.original)
=============================================================================
