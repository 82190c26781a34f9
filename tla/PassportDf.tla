----------------------------- MODULE PassportDf -----------------------------
(***************************************************************************)
(* The Passport handle (dmrtd/src/passport.rs): the cached SelectedDf that *)
(* lets it elide SELECT commands, over a chip that has a current dedicated *)
(* file of its own and a channel that may lose a response, lose a command, *)
(* or deliver a command after the reader gave it up.                       *)
(*                                                                         *)
(* Two files of the same short identifier live in the two dedicated files  *)
(* (EF.CardSecurity in the MF and EF.SOD in DF1 are both 0x1D), so a read  *)
(* is right exactly when it was served from the dedicated file it names.   *)
(* The loop of READ BINARY commands of one file counts as one exchange;    *)
(* FileRead models it.  Secure messaging is the counter discipline of      *)
(* SecureMessaging with no reordering and no wrap.                         *)
(***************************************************************************)
EXTENDS Naturals, FiniteSets

CONSTANTS
  MaxExchanges,   \* bound: commands sent
  MaxSessions     \* bound: handshakes tried

ASSUME DfConstants == MaxExchanges \in Nat /\ MaxSessions \in Nat

VARIABLES
  df,         \* Passport::df, the cache
  sm,         \* MrtdApi::sm - [key, ssc], key 0 when there is none
  op,         \* the method in progress
  got,        \* how the last method ended: the dedicated file a read was
              \* served from, "done", or "error"
  elided,     \* the method in progress sent no SELECT
  chip,       \* the chip: [df, key, ssc]
  late,       \* commands the reader has given up and the host still holds
  sent,       \* number of exchanges
  sessions,   \* number of handshakes tried
  doubt,      \* a SELECT or a handshake went unanswered, and neither a later
              \* SELECT nor an invalidation of the cache has settled it
  disturbed   \* exchanges of this session that went unanswered

reader == <<df, sm, op, got, elided>>
history == <<sent, sessions, doubt, disturbed>>
vars == <<reader, chip, late, history>>

-----------------------------------------------------------------------------

Df == {"Mf", "Df1"}
SelectedDf == Df \cup {"None"}
Counter == 0 .. 2 * MaxExchanges + 1
Session == [key : 0 .. MaxSessions, ssc : Counter]
NoSession == [key |-> 0, ssc |-> 0]
ChipState == [df : Df, key : 0 .. MaxSessions, ssc : Counter]
LateCommand == [df : Df \cup {"same"}, tag : Session]

\* A method call: what it is, the dedicated file it works in, its next step.
Method == [kind : {"read", "bac", "custom"}, want : Df, step : {"select", "use"}]
Idle == [kind |-> "idle", want |-> "None", step |-> "none"]

TypeOK ==
  /\ df \in SelectedDf
  /\ sm \in Session
  /\ op \in Method \cup {Idle}
  /\ op.step = "use" => df = op.want
  /\ got \in Df \cup {"done", "error"}
  /\ elided \in BOOLEAN
  /\ chip \in ChipState
  /\ late \subseteq LateCommand
  /\ sent \in 0 .. MaxExchanges
  /\ sessions \in 0 .. MaxSessions
  /\ doubt \in BOOLEAN
  /\ disturbed \in 0 .. MaxExchanges

\* A chip in the field has the MF selected; nothing is known of it yet.
Init ==
  /\ df = "None"
  /\ sm = NoSession
  /\ op = Idle
  /\ got = "done"
  /\ elided = FALSE
  /\ chip = [df |-> "Mf", key |-> 0, ssc |-> 0]
  /\ late = {}
  /\ sent = 0
  /\ sessions = 0
  /\ doubt = FALSE
  /\ disturbed = 0

-----------------------------------------------------------------------------
(* One exchange.  A command carries the session it was protected under.    *)

Advance(session) == IF session.key = 0 THEN session ELSE [session EXCEPT !.ssc = @ + 1]

\* The chip takes a plain command, or one protected under its next counter.
Accepts(tag) == tag.key = 0 \/ tag = Advance([key |-> chip.key, ssc |-> chip.ssc])

\* The chip once it has dealt with a command: SELECT moves it (d), other
\* commands ("same") do not.  Whatever it does not accept ends its session.
ChipAfter(tag, d) ==
  IF ~Accepts(tag) THEN [chip EXCEPT !.key = 0, !.ssc = 0]
  ELSE [df |-> IF d = "same" THEN chip.df ELSE d,
        key |-> tag.key, ssc |-> Advance(tag).ssc]

\* The command is executed and its response received.
Answered(d) ==
  LET tag == Advance(sm) IN
  /\ Accepts(tag)
  /\ chip' = ChipAfter(tag, d)
  /\ sm' = Advance(tag)
  /\ UNCHANGED <<late, disturbed>>

\* The chip answers with an error: it accepted the command and refuses it,
\* or it did not accept it, and then the answer is a bare status word.
Refused ==
  LET tag == Advance(sm) IN
  /\ chip' = ChipAfter(tag, "same")
  /\ sm' = IF Accepts(tag) THEN Advance(tag) ELSE tag
  /\ UNCHANGED <<late, disturbed>>

\* No answer: the chip dealt with the command (d), refused it ("same"), never
\* saw it, or has yet to see it.
Unanswered(d) ==
  LET tag == Advance(sm) IN
  /\ sm' = tag
  /\ disturbed' = disturbed + 1
  /\ \/ chip' = ChipAfter(tag, d) /\ UNCHANGED late
     \/ chip' = ChipAfter(tag, "same") /\ UNCHANGED late
     \/ UNCHANGED <<chip, late>>
     \/ late' = late \cup {[df |-> d, tag |-> tag]} /\ UNCHANGED chip

\* The host delivers a command nobody is waiting for any more.
DeliverLate ==
  \E c \in late :
    /\ chip' = ChipAfter(c.tag, c.df)
    /\ late' = late \ {c}
    /\ UNCHANGED <<reader, history>>

\* The host holds a SELECT that may yet move the chip.
SelectHeld == \E c \in late : c.df # "same"

Exchanging == op # Idle /\ sent < MaxExchanges /\ sent' = sent + 1

-----------------------------------------------------------------------------
(* The methods of Passport.                                                *)

\* select_mf and select_df1 go straight on when the cache names the file.
Begin(kind, want) ==
  /\ op = Idle
  /\ sent < MaxExchanges
  /\ elided' = (df = want)
  /\ op' = [kind |-> kind, want |-> want, step |-> IF df = want THEN "use" ELSE "select"]
  /\ UNCHANGED <<df, sm, got, chip, late, history>>

\* Faulty: the borrow does not invalidate the cache.
CustomSelectKeeping(want) ==
  /\ op = Idle
  /\ sent < MaxExchanges
  /\ elided' = FALSE
  /\ op' = [kind |-> "custom", want |-> want, step |-> "select"]
  /\ UNCHANGED <<df, sm, got, chip, late, history>>

\* api_mut: the cache is invalidated, and the caller sends a SELECT.
CustomSelect(want) ==
  /\ op = Idle
  /\ sent < MaxExchanges
  /\ df' = "None"
  /\ doubt' = SelectHeld
  /\ elided' = FALSE
  /\ op' = [kind |-> "custom", want |-> want, step |-> "select"]
  /\ UNCHANGED <<sm, got, chip, late, sent, sessions, disturbed>>

\* api_mut().clear_sm().
ClearSm ==
  /\ op = Idle
  /\ df' = "None"
  /\ doubt' = SelectHeld
  /\ sm' = NoSession
  /\ UNCHANGED <<op, got, elided, chip, late, sent, sessions, disturbed>>

\* The SELECT succeeds.  A caller's own SELECT does not reach the cache.
SelectDone ==
  /\ Exchanging
  /\ op.step = "select"
  /\ Answered(op.want)
  /\ doubt' = SelectHeld
  /\ IF op.kind = "custom"
       THEN df' = df /\ op' = Idle /\ got' = "done"
       ELSE df' = op.want /\ op' = [op EXCEPT !.step = "use"] /\ got' = got
  /\ UNCHANGED <<elided, sessions>>

\* The SELECT fails: the cache stays as it was.
SelectFails ==
  /\ Exchanging
  /\ op.step = "select"
  /\ \/ Refused /\ UNCHANGED doubt
     \/ Unanswered(op.want) /\ doubt' = TRUE
  /\ op' = Idle
  /\ got' = "error"
  /\ UNCHANGED <<df, elided, sessions>>

\* The file is read from wherever the chip is.
ReadDone ==
  /\ Exchanging
  /\ op.kind = "read" /\ op.step = "use"
  /\ Answered("same")
  /\ op' = Idle
  /\ got' = chip.df
  /\ UNCHANGED <<df, elided, sessions, doubt>>

ReadFails ==
  /\ Exchanging
  /\ op.kind = "read" /\ op.step = "use"
  /\ Refused \/ Unanswered("same")
  /\ op' = Idle
  /\ got' = "error"
  /\ UNCHANGED <<df, elided, sessions, doubt>>

-----------------------------------------------------------------------------
(* Handshakes go over the bare transceiver, whatever session there is.     *)

NewSession == [key |-> sessions + 1, ssc |-> 0]
Joined(d) == [df |-> d, key |-> sessions + 1, ssc |-> 0]
Trying == sessions < MaxSessions /\ sessions' = sessions + 1

\* init_session_via_bac succeeds; BAC belongs to the eMRTD application.
BacDone ==
  /\ op.kind = "bac" /\ op.step = "use"
  /\ chip.df = "Df1"
  /\ Trying
  /\ sm' = NewSession
  /\ chip' = Joined(chip.df)
  /\ op' = Idle
  /\ got' = "done"
  /\ disturbed' = 0
  /\ UNCHANGED <<df, elided, late, sent, doubt>>

\* init_session_via_bac fails: the reader's old session stays, the chip has
\* dropped its own or has completed one the reader does not know of.
BacFails ==
  /\ op.kind = "bac" /\ op.step = "use"
  /\ Trying
  /\ chip' \in {chip, [chip EXCEPT !.key = 0, !.ssc = 0]}
         \cup IF chip.df = "Df1" THEN {Joined(chip.df)} ELSE {}
  /\ op' = Idle
  /\ got' = "error"
  /\ UNCHANGED <<df, sm, elided, late, sent, doubt, disturbed>>

\* Faulty: the cache survives the handshake.
PaceDoneKeeping ==
  /\ op = Idle
  /\ Trying
  /\ sm' = NewSession
  /\ \E d \in Df : chip' = Joined(d)
  /\ got' = "done"
  /\ disturbed' = 0
  /\ UNCHANGED <<df, op, elided, late, sent, doubt>>

\* start_session_pace: "PACE leaves the chip's current DF ambiguous".
PaceDone ==
  /\ op = Idle
  /\ Trying
  /\ sm' = NewSession
  /\ \E d \in Df : chip' = Joined(d)
  /\ df' = "None"
  /\ got' = "done"
  /\ doubt' = SelectHeld
  /\ disturbed' = 0
  /\ UNCHANGED <<op, elided, late, sent>>

\* init_session_via_pace fails and "?" returns before the cache is reset.
\* When it was the last answer that got lost, the chip has finished.
PaceFails ==
  /\ op = Idle
  /\ Trying
  /\ \/ /\ chip' \in {chip, [chip EXCEPT !.key = 0, !.ssc = 0]}
        /\ UNCHANGED doubt
     \/ /\ \E d \in Df : chip' = Joined(d)
        /\ doubt' = TRUE
  /\ got' = "error"
  /\ UNCHANGED <<df, sm, op, elided, late, sent, disturbed>>

-----------------------------------------------------------------------------

Next ==
  \/ \E want \in Df : Begin("read", want) \/ CustomSelect(want)
  \/ Begin("bac", "Df1")
  \/ ClearSm
  \/ SelectDone \/ SelectFails
  \/ ReadDone \/ ReadFails
  \/ BacDone \/ BacFails
  \/ PaceDone \/ PaceFails
  \/ DeliverLate

Spec == Init /\ [][Next]_vars

-----------------------------------------------------------------------------
(* Properties.                                                             *)

ReadEnds == op.kind = "read" /\ op'.kind = "idle" /\ got' # "error"

\* The cache names the chip's dedicated file unless a SELECT or a handshake
\* went unanswered: refusals, sessions come and gone, commands sent behind
\* the handle's back and handshakes that leave the chip elsewhere included.
CacheTracksChip == (df # "None" /\ ~doubt) => chip.df = df

\* Secure messaging covers for the cache: inside a session it takes more than
\* one unanswered exchange before a read can succeed in the wrong file,
\* because the counters no longer agree after the first.
OneLossHarmless ==
  [][ReadEnds /\ sm.key # 0 /\ disturbed <= 1 => got' = op.want]_vars

\* What passport.rs:88 says of the cache: the SELECT commands it elides are
\* redundant ones.
ElidedIsRedundant ==
  [][op.kind = "idle" /\ op'.kind # "idle" /\ elided' => chip.df = op'.want]_vars
=============================================================================
