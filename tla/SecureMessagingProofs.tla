----------------------- MODULE SecureMessagingProofs -----------------------
(***************************************************************************)
(* The safety invariants of SecureMessaging, and that it implements        *)
(* AtMostOnce, for any counter width, any number of calls that does not    *)
(* bring a counter round, and any number of sessions.                      *)
(*                                                                         *)
(* The argument is about counters: how many steps a value is away from the *)
(* one its session began with.  Commands of one session carry strictly     *)
(* increasing counters, so that the counter of a reply names one command;  *)
(* and the chip's counter never runs ahead of what was sent to it.         *)
(***************************************************************************)
EXTENDS SecureMessaging, TLAPS

-----------------------------------------------------------------------------
(* Counters.                                                               *)

\* How often s must be incremented to become v.
Steps(s, v) == IF s <= v THEN v - s ELSE v - s + Modulus

\* Steps of a session or of a tag since its session began.
At(x) == Steps(starts[x.key], x.ssc)

-----------------------------------------------------------------------------
(* The inductive invariant.                                                *)

\* Nothing is known of a command before it is made.
Unmade ==
  /\ onWire \subseteq 1 .. calls
  /\ \A c \in Call : c > calls =>
       /\ tag[c] = NoSession /\ did[c] = "nothing"
       /\ answer[c] = 0 /\ result[c] = "none"

\* A key is one that was agreed.
Keys ==
  /\ sm.key <= Len(starts)
  /\ chip.key <= Len(starts)
  /\ \A c \in Call : tag[c].key <= Len(starts)

\* The call that is under way is the last, protected under the reader's
\* present counter, and not answered yet.
Outstanding ==
  waiting => calls > 0 /\ tag[calls] = sm /\ answer[calls] = 0

\* The reader's counter moved since the last command was protected.
Moved == IF lost \/ waiting THEN 0 ELSE 1

\* Counters have not come round.
Bounded ==
  /\ HasSm => At(sm) <= 2 * calls - (IF waiting THEN 1 ELSE 0)
  /\ chip.key # 0 => At(chip) <= 2 * calls
  /\ \A c \in Call : Guarded(c) => At(tag[c]) < 2 * calls

\* No command is ahead of the reader.
TagsBehind ==
  HasSm => \A c \in Call :
    /\ tag[c].key <= sm.key
    /\ tag[c].key = sm.key => At(tag[c]) + Moved <= At(sm)

\* Later commands carry later keys, or later counters of the same key.
TagsIncrease ==
  \A c, d \in Call : (c < d /\ Guarded(c) /\ Guarded(d)) =>
    /\ tag[c].key <= tag[d].key
    /\ tag[c].key = tag[d].key => At(tag[c]) < At(tag[d])

\* Every reply is what the chip said to one command that has reached it.
Replies ==
  \A r \in air :
    /\ r.call \in 1 .. calls /\ r.call \notin onWire
    /\ tag[r.call].key = r.key
    /\ r.key # 0 => r.ssc = Increment(tag[r.call].ssc)
    /\ did[r.call] = r.status

\* What the chip carried out it carried out in order, and it has moved on.
Executed ==
  /\ \A i \in DOMAIN executed :
       /\ executed[i] \in 1 .. calls /\ executed[i] \notin onWire
       /\ Guarded(executed[i])
       /\ chip.key # 0 => tag[executed[i]].key <= chip.key
  /\ InOrderOnce

\* The chip has dealt with every command of its session that reached it.
Delivered ==
  chip.key # 0 => \A c \in Call :
    (tag[c].key = chip.key /\ c \notin onWire) => At(tag[c]) < At(chip)

\* The chip answers at most the command that is under way, or that was lost.
ChipBehind ==
  (HasSm /\ chip.key = sm.key) => At(chip) + Moved <= At(sm) + 1

\* While nothing was lost, the last command is one step behind the reader.
LastTag ==
  (HasSm /\ ~lost /\ ~waiting) =>
    \/ sm.ssc = starts[sm.key]
    \/ calls > 0 /\ tag[calls].key = sm.key /\ At(tag[calls]) + 1 = At(sm)

\* A success the reader was told is one the chip has committed to.
Successes ==
  \A c \in Call : (Guarded(c) /\ result[c] = "ok") => did[c] = "ok" /\ c \notin onWire

IInv ==
  /\ TypeOK
  /\ Unmade
  /\ Keys
  /\ Outstanding
  /\ Bounded
  /\ TagsBehind
  /\ TagsIncrease
  /\ Replies
  /\ Executed
  /\ Delivered
  /\ ChipBehind
  /\ LastTag
  /\ Successes
  /\ AnswersOwnCall

-----------------------------------------------------------------------------
(* Counters count.                                                         *)

\* A counter within its session is less than Modulus steps from the start.
LEMMA StepsRange ==
  ASSUME NEW s \in Ssc, NEW v \in Ssc
  PROVE  Steps(s, v) \in 0 .. Modulus - 1
<1>1. CASE s <= v
  BY <1>1, SmConstants DEF Ssc, Steps
<1>2. CASE ~(s <= v)
  BY <1>2, SmConstants DEF Ssc, Steps
<1> QED
  BY <1>1, <1>2

\* A session begins at its start, and nowhere else is no step from it.
LEMMA StepsInjective ==
  ASSUME NEW s \in Ssc, NEW u \in Ssc, NEW v \in Ssc, Steps(s, u) = Steps(s, v)
  PROVE  u = v
BY SmConstants DEF Ssc, Steps

LEMMA StepsStart == ASSUME NEW s \in Ssc PROVE Steps(s, s) = 0
BY SmConstants DEF Ssc, Steps

\* Ssc::increment is one step, short of coming round.
LEMMA StepsNext ==
  ASSUME NEW s \in Ssc, NEW v \in Ssc, Steps(s, v) + 1 < Modulus
  PROVE  Steps(s, Increment(v)) = Steps(s, v) + 1
BY SmConstants DEF Ssc, Steps, Increment

\* Ssc::increment stays within the width, and no two values meet.
LEMMA IncrementType == ASSUME NEW v \in Ssc PROVE Increment(v) \in Ssc
BY SmConstants DEF Ssc, Increment

\* The two ends count alike.
LEMMA CountAlike == \A v : ChipIncrement(v) = Increment(v)
BY DEF ChipIncrement, Increment

LEMMA IncrementInjective ==
  ASSUME NEW u \in Ssc, NEW v \in Ssc, Increment(u) = Increment(v)
  PROVE  u = v
BY SmConstants DEF Ssc, Increment

\* A handshake leaves the earlier sessions as they were.
LEMMA StartsGrow ==
  ASSUME starts \in Seq(Ssc), NEW start \in Ssc, starts' = Append(starts, start)
  PROVE  /\ starts' \in Seq(Ssc)
         /\ Len(starts') = Len(starts) + 1
         /\ starts'[Len(starts) + 1] = start
         /\ \A k \in 1 .. Len(starts) : starts'[k] = starts[k]
OBVIOUS

-----------------------------------------------------------------------------

\* The invariant holds before anything is sent.
LEMMA Initially == Init => IInv
<1> SUFFICES ASSUME Init PROVE IInv
  OBVIOUS
<1> USE SmConstants DEF Init, NoSession, HasSm, Guarded
<1>1. TypeOK
  <2>1. NoSession \in Session
    BY DEF Session, Key, Ssc
  <2>2. starts \in Seq(Ssc) /\ Len(starts) <= MaxSessions /\ executed \in Seq(Call)
    OBVIOUS
  <2>3. /\ did \in [Call -> Status \cup {"nothing"}]
        /\ result \in [Call -> Status \cup {"none", "failed"}]
        /\ answer \in [Call -> Call \cup {0}]
    OBVIOUS
  <2>4. /\ calls \in 0 .. MaxCalls /\ onWire \subseteq Call /\ air \subseteq Response
        /\ tag \in [Call -> Session]
    BY <2>1
  <2>5. waiting \in BOOLEAN /\ lost \in BOOLEAN
    OBVIOUS
  <2> QED
    BY <2>1, <2>2, <2>3, <2>4, <2>5 DEF TypeOK
<1>2. Unmade /\ Keys /\ Outstanding
  BY DEF Unmade, Keys, Outstanding, Call
<1>3. Bounded /\ TagsBehind /\ TagsIncrease
  BY DEF Bounded, TagsBehind, TagsIncrease, Call
<1>4. Replies /\ Executed /\ Delivered
  BY DEF Replies, Executed, Delivered, InOrderOnce
<1>5. ChipBehind /\ LastTag /\ Successes /\ AnswersOwnCall
  BY DEF ChipBehind, LastTag, Successes, AnswersOwnCall, Call
<1> QED
  BY <1>1, <1>2, <1>3, <1>4, <1>5 DEF IInv

\* Every step of the reader and of the chip keeps it.
LEMMA Inductive == IInv /\ [Next]_vars => IInv'
<1> SUFFICES ASSUME IInv, [Next]_vars PROVE IInv'
  OBVIOUS
<1> USE SmConstants DEF readerVars, chipVars
<1>0. /\ TypeOK /\ Unmade /\ Keys /\ Outstanding /\ Bounded /\ TagsBehind
      /\ TagsIncrease /\ Replies /\ Executed /\ Delivered /\ ChipBehind
      /\ LastTag /\ Successes /\ AnswersOwnCall
  BY DEF IInv
<1>a. /\ sm.key \in Key /\ sm.ssc \in Ssc /\ sm = [key |-> sm.key, ssc |-> sm.ssc]
      /\ chip.key \in Key /\ chip.ssc \in Ssc
      /\ \A c \in Call : tag[c].key \in Key /\ tag[c].ssc \in Ssc
  BY <1>0 DEF TypeOK, Session
<1>b. /\ calls \in 0 .. MaxCalls
      /\ starts \in Seq(Ssc) /\ Len(starts) \in 0 .. MaxSessions
      /\ \A k \in 1 .. Len(starts) : starts[k] \in Ssc
  BY <1>0 DEF TypeOK
<1>c. /\ HasSm => At(sm) \in 0 .. Modulus - 1
      /\ chip.key # 0 => At(chip) \in 0 .. Modulus - 1
      /\ \A c \in Call : Guarded(c) => At(tag[c]) \in 0 .. Modulus - 1
  <2>1. HasSm => At(sm) \in 0 .. Modulus - 1
    <3>1. HasSm => starts[sm.key] \in Ssc
      BY <1>0, <1>a, <1>b DEF Keys, HasSm, Key
    <3> QED
      BY <3>1, <1>a, StepsRange DEF At
  <2>2. chip.key # 0 => At(chip) \in 0 .. Modulus - 1
    <3>1. chip.key # 0 => starts[chip.key] \in Ssc
      BY <1>0, <1>a, <1>b DEF Keys, Key
    <3> QED
      BY <3>1, <1>a, StepsRange DEF At
  <2>3. ASSUME NEW c \in Call, Guarded(c) PROVE At(tag[c]) \in 0 .. Modulus - 1
    <3>1. starts[tag[c].key] \in Ssc
      BY <2>3, <1>0, <1>a, <1>b DEF Keys, Guarded, Key
    <3> QED
      BY <3>1, <1>a, StepsRange DEF At
  <2> QED
    BY <2>1, <2>2, <2>3
<1>d. NoSession \in Session /\ NoSession.key = 0
  BY DEF NoSession, Session, Key, Ssc
<1>1. ASSUME NEW start \in Starts, Establish(start) PROVE IInv'
  <2>0. Establish(start)
    BY <1>1
  <2>a. /\ start \in Ssc
        /\ starts' \in Seq(Ssc) /\ Len(starts') = Len(starts) + 1
        /\ starts'[Len(starts) + 1] = start
        /\ \A k \in 1 .. Len(starts) : starts'[k] = starts[k]
    <3>1. start \in Ssc
      BY DEF Ssc
    <3> QED
      BY <2>0, <3>1, <1>b, StartsGrow DEF Establish
  <2>b. /\ sm' = [key |-> Len(starts) + 1, ssc |-> start]
        /\ chip' = sm'
        /\ Len(starts) < MaxSessions
        /\ ~waiting /\ waiting' = waiting /\ lost' = FALSE
        /\ UNCHANGED <<calls, tag, onWire, air, did, executed, result, answer>>
    BY <2>0 DEF Establish
  <2>c. At(sm)' = 0 /\ At(chip)' = 0
    BY <2>a, <2>b, StepsStart DEF At
  <2>d. \A c \in Call : tag[c].key <= Len(starts) /\ (Guarded(c) => At(tag[c])' = At(tag[c]))
    BY <1>0, <1>a, <1>b, <2>a, <2>b DEF Keys, At, Guarded, Key
  <2>1. TypeOK'
    <3>1. sm' \in Session /\ chip' \in Session
      BY <2>a, <2>b, <1>b DEF Session, Key
    <3>2. lost' \in BOOLEAN /\ waiting' \in BOOLEAN
      BY <2>b, <1>0 DEF TypeOK
    <3>3. starts' \in Seq(Ssc) /\ Len(starts') <= MaxSessions
      BY <2>a, <2>b, <1>b
    <3> QED
      BY <2>b, <3>1, <3>2, <3>3, <1>0 DEF TypeOK
  <2>2. Unmade'
    BY <2>b, <1>0 DEF Unmade
  <2>3. Keys'
    <3>1. sm'.key = Len(starts') /\ chip'.key = Len(starts')
      BY <2>a, <2>b
    <3>2. \A c \in Call : tag'[c].key <= Len(starts')
      BY <2>a, <2>b, <2>d, <1>a, <1>b DEF Key
    <3> QED
      BY <2>a, <1>b, <3>1, <3>2 DEF Keys
  <2>4. Outstanding'
    BY <2>b DEF Outstanding
  <2>5. Bounded'
    BY <2>b, <2>c, <2>d, <1>0, <1>b DEF Bounded, Guarded
  <2>6. TagsBehind'
    BY <2>b, <2>d, <1>a, <1>b DEF TagsBehind, Key
  <2>7. TagsIncrease'
    BY <2>b, <2>d, <1>0 DEF TagsIncrease, Guarded
  <2>8. Replies'
    BY <2>b, <1>0 DEF Replies
  <2>9. Executed'
    <3>1. \A i \in DOMAIN executed : executed[i] \in Call
      BY <1>0, <1>b DEF Executed, Call
    <3> QED
      BY <2>b, <2>d, <3>1, <1>0, <1>a, <1>b DEF Executed, InOrderOnce, Guarded, Key
  <2>10. Delivered'
    BY <2>b, <2>d, <1>a, <1>b DEF Delivered, Key
  <2>11. ChipBehind'
    BY <2>b, <2>c DEF ChipBehind, Moved
  <2>12. LastTag'
    BY <2>a, <2>b DEF LastTag
  <2>13. Successes'
    BY <2>b, <1>0 DEF Successes, Guarded
  <2>14. AnswersOwnCall'
    BY <2>b, <1>0 DEF AnswersOwnCall, Guarded
  <2> QED
    BY <2>1, <2>2, <2>3, <2>4, <2>5, <2>6, <2>7, <2>8, <2>9, <2>10, <2>11, <2>12, <2>13, <2>14 DEF IInv
<1>2. ASSUME NEW start \in Starts, EstablishFails(start) PROVE IInv'
  <2>0. EstablishFails(start)
    BY <1>2
  <2>a. /\ start \in Ssc
        /\ starts' \in Seq(Ssc) /\ Len(starts') = Len(starts) + 1
        /\ starts'[Len(starts) + 1] = start
        /\ \A k \in 1 .. Len(starts) : starts'[k] = starts[k]
    <3>1. start \in Ssc
      BY DEF Ssc
    <3> QED
      BY <2>0, <3>1, <1>b, StartsGrow DEF EstablishFails
  <2>b. /\ chip' \in {chip, NoSession, [key |-> Len(starts) + 1, ssc |-> start]}
        /\ Len(starts) < MaxSessions
        /\ ~waiting
        /\ UNCHANGED <<sm, calls, waiting, tag, result, answer, lost, onWire, air, did, executed>>
    BY <2>0 DEF EstablishFails
  <2>c. /\ HasSm => At(sm)' = At(sm) /\ sm.key <= Len(starts)
        /\ \/ chip' = chip /\ chip.key <= Len(starts) /\ (chip.key # 0 => At(chip)' = At(chip))
           \/ chip'.key = 0
           \/ chip'.key = Len(starts) + 1 /\ At(chip)' = 0
    <3>1. HasSm => At(sm)' = At(sm) /\ sm.key <= Len(starts)
      BY <1>0, <1>a, <1>b, <2>a, <2>b DEF Keys, At, HasSm, Key
    <3>2. CASE chip' = chip
      BY <3>1, <3>2, <1>0, <1>a, <1>b, <2>a DEF Keys, At, Key
    <3>3. CASE chip' = NoSession
      BY <3>1, <3>3 DEF NoSession
    <3>4. CASE chip' = [key |-> Len(starts) + 1, ssc |-> start]
      BY <3>1, <3>4, <2>a, StepsStart DEF At
    <3> QED
      BY <2>b, <3>2, <3>3, <3>4
  <2>d. \A c \in Call : tag[c].key <= Len(starts) /\ (Guarded(c) => At(tag[c])' = At(tag[c]))
    BY <1>0, <1>a, <1>b, <2>a, <2>b DEF Keys, At, Guarded, Key
  <2>e. \A i \in DOMAIN executed : executed[i] \in Call
    BY <1>0, <1>b DEF Executed, Call
  <2>1. TypeOK'
    <3>1. chip' \in Session
      BY <2>b, <1>0, <1>b, <2>a DEF TypeOK, Session, Key, NoSession, Ssc
    <3> QED
      BY <2>a, <2>b, <3>1, <1>0, <1>b DEF TypeOK
  <2>2. Unmade'
    BY <2>b, <1>0 DEF Unmade
  <2>3. Keys'
    BY <2>a, <2>b, <2>c, <2>d, <1>0, <1>a, <1>b DEF Keys, Key
  <2>4. Outstanding'
    BY <2>b DEF Outstanding
  <2>5. Bounded'
    BY <2>b, <2>c, <2>d, <1>0, <1>b DEF Bounded, Guarded, HasSm
  <2>6. TagsBehind'
    BY <2>b, <2>c, <2>d, <1>0 DEF TagsBehind, HasSm, Guarded, Moved
  <2>7. TagsIncrease'
    BY <2>b, <2>d, <1>0 DEF TagsIncrease, Guarded
  <2>8. Replies'
    BY <2>b, <1>0 DEF Replies
  <2>9. Executed'
    BY <2>b, <2>c, <2>d, <2>e, <1>0, <1>a, <1>b DEF Executed, InOrderOnce, Guarded, Key
  <2>10. Delivered'
    BY <2>b, <2>c, <2>d, <1>0, <1>a, <1>b DEF Delivered, Guarded, Key
  <2>11. ChipBehind'
    BY <2>b, <2>c, <1>0, <1>b DEF ChipBehind, Moved, HasSm
  <2>12. LastTag'
    <3>1. HasSm => sm.key \in 1 .. Len(starts)
      BY <2>c, <1>a, <1>b DEF HasSm, Key
    <3>2. ~lost /\ HasSm /\ calls > 0 => calls \in Call
      BY <1>b DEF Call
    <3> QED
      BY <2>a, <2>b, <2>c, <2>d, <3>1, <3>2, <1>0 DEF LastTag, HasSm, Guarded
  <2>13. Successes'
    BY <2>b, <1>0 DEF Successes, Guarded
  <2>14. AnswersOwnCall'
    BY <2>b, <1>0 DEF AnswersOwnCall, Guarded
  <2> QED
    BY <2>1, <2>2, <2>3, <2>4, <2>5, <2>6, <2>7, <2>8, <2>9, <2>10, <2>11, <2>12, <2>13, <2>14 DEF IInv
<1>3. ASSUME ClearSm PROVE IInv'
  <2>0. ClearSm
    BY <1>3
  <2>a. /\ sm' = NoSession /\ sm'.key = 0 /\ ~waiting
        /\ UNCHANGED <<calls, waiting, tag, result, answer, lost, chipVars, starts, onWire>>
    BY <2>0, <1>d DEF ClearSm
  <2>1. TypeOK'
    BY <2>a, <1>0, <1>d DEF TypeOK
  <2>2. Unmade'
    BY <2>0, <1>0 DEF ClearSm, Unmade
  <2>3. Keys'
    BY <2>a, <1>0, <1>b DEF Keys
  <2>4. Outstanding'
    BY <2>a DEF Outstanding
  <2>5. Bounded'
    BY <2>a, <1>0 DEF Bounded, HasSm, Guarded, At
  <2>6. TagsBehind'
    BY <2>a DEF TagsBehind, HasSm
  <2>7. TagsIncrease'
    BY <2>0, <1>0 DEF ClearSm, TagsIncrease, Guarded, At
  <2>8. Replies'
    BY <2>0, <1>0 DEF ClearSm, Replies
  <2>9. Executed'
    BY <2>0, <1>0 DEF ClearSm, Executed, InOrderOnce, Guarded
  <2>10. Delivered'
    BY <2>0, <1>0 DEF ClearSm, Delivered, At, NoSession
  <2>11. ChipBehind'
    BY <2>a DEF ChipBehind, HasSm
  <2>12. LastTag'
    BY <2>a DEF LastTag, HasSm
  <2>13. Successes'
    BY <2>0, <1>0 DEF ClearSm, Successes, Guarded
  <2>14. AnswersOwnCall'
    BY <2>0, <1>0 DEF ClearSm, AnswersOwnCall, Guarded
  <2> QED
    BY <2>1, <2>2, <2>3, <2>4, <2>5, <2>6, <2>7, <2>8, <2>9, <2>10, <2>11, <2>12, <2>13, <2>14 DEF IInv
<1>4. ASSUME TransceiveCmd PROVE IInv'
  <2>0. TransceiveCmd
    BY <1>4
  <2>n. PICK n \in Nat : n = calls + 1
    BY <1>b
  <2>a. /\ ~waiting /\ waiting' = TRUE /\ n \in Call /\ calls' = n
        /\ tag' = [tag EXCEPT ![n] = sm'] /\ onWire' = onWire \cup {n}
        /\ UNCHANGED <<result, answer, lost, chip, air, did, executed, starts>>
    BY <2>0, <2>n, <1>b DEF TransceiveCmd, Call
  <2>b. /\ sm' \in Session
        /\ sm'.key = sm.key
        /\ HasSm => At(sm)' = At(sm) + 1
    <3>1. CASE HasSm
      <4>1. sm' = [key |-> sm.key, ssc |-> Increment(sm.ssc)]
        BY <2>0, <3>1, <1>a DEF TransceiveCmd
      <4>2. At(sm) + 1 < Modulus
        BY <3>1, <2>a, <1>0, <1>b, <1>c DEF Bounded, Call
      <4>3. starts[sm.key] \in Ssc
        BY <3>1, <1>0, <1>a, <1>b DEF Keys, HasSm, Key
      <4> QED
        BY <4>1, <4>2, <4>3, <2>a, <1>a, StepsNext, IncrementType DEF At, Session
    <3>2. CASE ~HasSm
      BY <2>0, <3>2, <1>a DEF TransceiveCmd, HasSm, NoSession, Session, Key, Ssc
    <3> QED
      BY <3>1, <3>2
  <2>c. /\ tag' \in [Call -> Session]
        /\ tag'[n] = sm'
        /\ \A c \in Call : c # n => tag'[c] = tag[c] /\ At(tag[c])' = At(tag[c])
    BY <2>n, <2>a, <2>b, <1>0 DEF TypeOK, At
  <2>d. /\ tag[n] = NoSession /\ answer[n] = 0 /\ did[n] = "nothing"
        /\ result[n] = "none"
        /\ n \notin onWire
        /\ \A c \in Call : Guarded(c) => c < n
    BY <2>n, <2>a, <1>0, <1>b DEF Unmade, Guarded, NoSession, Call
  <2>e. HasSm => At(tag[n])' = At(sm) + 1 /\ At(sm) \in 0 .. 2 * calls
    <3>1. At(tag[n])' = At(sm)'
      BY <2>c DEF At
    <3>2. HasSm => At(sm) \in 0 .. 2 * calls
      BY <2>n, <2>a, <1>0, <1>b, <1>c DEF Bounded
    <3> QED
      BY <2>b, <3>1, <3>2
  <2>f. \A i \in DOMAIN executed : executed[i] \in Call /\ executed[i] # n
    BY <2>n, <2>a, <1>0, <1>b DEF Executed, Call
  <2>g. \A r \in air : r.call \in Call /\ r.call # n /\ r.call <= n
    BY <2>n, <2>a, <1>0, <1>b DEF Replies, Call
  <2>1. TypeOK'
    BY <2>n, <2>a, <2>b, <2>c, <1>0, <1>b DEF TypeOK, Call
  <2>2. Unmade'
    BY <2>n, <2>a, <2>c, <1>0, <1>b DEF Unmade, Call
  <2>3. Keys'
    BY <2>n, <2>a, <2>b, <2>c, <1>0 DEF Keys
  <2>4. Outstanding'
    BY <2>n, <2>a, <2>c, <2>d, <1>b DEF Outstanding
  <2>5. Bounded'
    <3>1. (HasSm => At(sm) <= 2 * calls - (IF waiting THEN 1 ELSE 0))'
      BY <2>n, <2>a, <2>b, <2>e, <1>b DEF HasSm
    <3>2. (chip.key # 0 => At(chip) <= 2 * calls)'
      BY <2>n, <2>a, <1>0, <1>b, <1>c DEF Bounded, At
    <3>3. ASSUME NEW c \in Call, Guarded(c)' PROVE (At(tag[c]) < 2 * calls)'
      <4>1. CASE c = n
        BY <2>n, <2>a, <2>b, <2>c, <2>e, <3>3, <4>1, <1>b DEF Guarded, HasSm
      <4>2. CASE c # n
        BY <2>n, <2>a, <2>c, <3>3, <4>2, <1>0, <1>b, <1>c DEF Guarded, Bounded
      <4> QED
        BY <4>1, <4>2
    <3> QED
      BY <3>1, <3>2, <3>3 DEF Bounded
  <2>6. TagsBehind'
    <3> SUFFICES ASSUME HasSm', NEW c \in Call
                 PROVE  (tag[c].key <= sm.key
                         /\ (tag[c].key = sm.key => At(tag[c]) + Moved <= At(sm)))'
      BY DEF TagsBehind
    <3>0. HasSm
      BY <2>b DEF HasSm
    <3>1. CASE c = n
      BY <2>n, <2>a, <2>b, <2>c, <2>e, <3>0, <3>1, <1>a DEF Moved, Key
    <3>2. CASE c # n
      <4>1. Moved \in {0, 1} /\ Moved' = 0
        BY <2>a DEF Moved
      <4>2. tag[c].key = sm.key => At(tag[c]) \in Nat
        BY <3>0, <1>c DEF Guarded, HasSm
      <4> QED
        BY <2>n, <2>a, <2>b, <2>c, <2>e, <3>0, <3>2, <4>1, <4>2, <1>0 DEF TagsBehind
    <3> QED
      BY <3>1, <3>2
  <2>7. TagsIncrease'
    <3> SUFFICES ASSUME NEW c \in Call, NEW d \in Call, c < d, Guarded(c)', Guarded(d)'
                 PROVE  (tag[c].key <= tag[d].key
                         /\ (tag[c].key = tag[d].key => At(tag[c]) < At(tag[d])))'
      BY DEF TagsIncrease
    <3>1. CASE d = n
      <4>1. c # n /\ Guarded(c) /\ HasSm /\ c \in 1 .. MaxCalls
        BY <2>n, <2>a, <2>b, <2>c, <3>1, <1>b DEF Guarded, HasSm, Call
      <4>2. Moved \in {0, 1}
        BY DEF Moved
      <4> QED
        BY <2>n, <2>a, <2>b, <2>c, <2>e, <3>1, <4>1, <4>2, <1>0, <1>c DEF TagsBehind
    <3>2. CASE d # n
      <4>1. c # n
        BY <2>n, <2>a, <2>c, <2>d, <3>2, <1>b DEF Guarded, Call
      <4> QED
        BY <2>c, <3>2, <4>1, <1>0 DEF TagsIncrease, Guarded
    <3> QED
      BY <3>1, <3>2
  <2>8. Replies'
    BY <2>n, <2>a, <2>c, <2>g, <1>0, <1>b DEF Replies
  <2>9. Executed'
    BY <2>n, <2>a, <2>c, <2>f, <1>0, <1>b DEF Executed, InOrderOnce, Guarded
  <2>10. Delivered'
    BY <2>n, <2>a, <2>c, <1>0 DEF Delivered, At
  <2>11. ChipBehind'
    <3>1. Moved \in {0, 1} /\ Moved' = 0
      BY <2>a DEF Moved
    <3>2. At(chip)' = At(chip)
      BY <2>a DEF At
    <3> QED
      BY <2>n, <2>a, <2>b, <2>e, <3>1, <3>2, <1>0, <1>c DEF ChipBehind, HasSm
  <2>12. LastTag'
    BY <2>a DEF LastTag
  <2>13. Successes'
    <3> SUFFICES ASSUME NEW c \in Call, Guarded(c)', result'[c] = "ok"
                 PROVE  did'[c] = "ok" /\ c \notin onWire'
      BY DEF Successes
    <3>1. c # n
      BY <2>n, <2>a, <2>d
    <3> QED
      BY <2>n, <2>a, <2>c, <3>1, <1>0 DEF Successes, Guarded
  <2>14. AnswersOwnCall'
    BY <2>n, <2>a, <2>c, <2>d, <1>0 DEF AnswersOwnCall, Guarded
  <2> QED
    BY <2>1, <2>2, <2>3, <2>4, <2>5, <2>6, <2>7, <2>8, <2>9, <2>10, <2>11, <2>12, <2>13, <2>14 DEF IInv
<1>5. ASSUME ReturnTransport PROVE IInv'
  <2>0. ReturnTransport
    BY <1>5
  <2>1. TypeOK'
    BY <2>0, <1>0 DEF ReturnTransport, TypeOK
  <2>2. Unmade'
    BY <2>0, <1>0, <1>b DEF ReturnTransport, Unmade, TypeOK
  <2>3. Keys'
    BY <2>0, <1>0, <1>a, <1>b DEF ReturnTransport, Keys, NoSession
  <2>4. Outstanding'
    BY <2>0, <1>0 DEF ReturnTransport, Outstanding
  <2>5. Bounded'
    BY <2>0, <1>0, <1>b, <1>c DEF ReturnTransport, Bounded, HasSm, Guarded, At
  <2>6. TagsBehind'
    BY <2>0, <1>0, <1>a, <1>c DEF ReturnTransport, TagsBehind, HasSm, Guarded, Moved, At, NoSession
  <2>7. TagsIncrease'
    BY <2>0, <1>0 DEF ReturnTransport, TagsIncrease, Guarded, At
  <2>8. Replies'
    BY <2>0, <1>0 DEF ReturnTransport, Replies
  <2>9. Executed'
    BY <2>0, <1>0 DEF ReturnTransport, Executed, InOrderOnce, Guarded
  <2>10. Delivered'
    BY <2>0, <1>0 DEF ReturnTransport, Delivered, At, NoSession
  <2>11. ChipBehind'
    BY <2>0, <1>0, <1>a, <1>c DEF ReturnTransport, ChipBehind, HasSm, Moved, At, NoSession
  <2>12. LastTag'
    BY <2>0, <1>0 DEF ReturnTransport, LastTag, HasSm, At, NoSession
  <2>13. Successes'
    BY <2>0, <1>0 DEF ReturnTransport, Successes, Guarded
  <2>14. AnswersOwnCall'
    BY <2>0, <1>0 DEF ReturnTransport, AnswersOwnCall, Guarded
  <2> QED
    BY <2>1, <2>2, <2>3, <2>4, <2>5, <2>6, <2>7, <2>8, <2>9, <2>10, <2>11, <2>12, <2>13, <2>14 DEF IInv
<1>6. ASSUME NEW status \in Status, ReturnBare(status) PROVE IInv'
  <2>0. ReturnBare(status)
    BY <1>6
  <2>1. TypeOK'
    BY <2>0, <1>0 DEF ReturnBare, TypeOK
  <2>2. Unmade'
    BY <2>0, <1>0, <1>b DEF ReturnBare, Unmade, TypeOK
  <2>3. Keys'
    BY <2>0, <1>0, <1>a, <1>b DEF ReturnBare, Keys, NoSession
  <2>4. Outstanding'
    BY <2>0, <1>0 DEF ReturnBare, Outstanding
  <2>5. Bounded'
    BY <2>0, <1>0, <1>b, <1>c DEF ReturnBare, Bounded, HasSm, Guarded, At
  <2>6. TagsBehind'
    BY <2>0, <1>0, <1>a, <1>c DEF ReturnBare, TagsBehind, HasSm, Guarded, Moved, At, NoSession
  <2>7. TagsIncrease'
    BY <2>0, <1>0 DEF ReturnBare, TagsIncrease, Guarded, At
  <2>8. Replies'
    BY <2>0, <1>0 DEF ReturnBare, Replies
  <2>9. Executed'
    BY <2>0, <1>0 DEF ReturnBare, Executed, InOrderOnce, Guarded
  <2>10. Delivered'
    BY <2>0, <1>0 DEF ReturnBare, Delivered, At, NoSession
  <2>11. ChipBehind'
    BY <2>0, <1>0, <1>a, <1>c DEF ReturnBare, ChipBehind, HasSm, Moved, At, NoSession
  <2>12. LastTag'
    BY <2>0, <1>0 DEF ReturnBare, LastTag, HasSm, At, NoSession
  <2>13. Successes'
    <3> SUFFICES ASSUME NEW c \in Call, Guarded(c)', result'[c] = "ok"
                 PROVE  did'[c] = "ok" /\ c \notin onWire'
      BY DEF Successes
    <3>1. c # calls
      BY <2>0, <1>0 DEF ReturnBare, Outstanding, Guarded, HasSm, TypeOK
    <3> QED
      BY <2>0, <3>1, <1>0 DEF ReturnBare, Successes, Guarded, TypeOK
  <2>14. AnswersOwnCall'
    BY <2>0, <1>0 DEF ReturnBare, AnswersOwnCall, Guarded
  <2> QED
    BY <2>1, <2>2, <2>3, <2>4, <2>5, <2>6, <2>7, <2>8, <2>9, <2>10, <2>11, <2>12, <2>13, <2>14 DEF IInv
<1>7. ASSUME NEW r \in air \cup {Damaged}, NEW trailer \in Status, ReturnBody(r, trailer) PROVE IInv'
  <2>0. ReturnBody(r, trailer)
    BY <1>7
  <2> DEFINE expected == [sm EXCEPT !.ssc = Increment(@)]
             taken == HasSm => r.key = expected.key /\ r.ssc = expected.ssc
  <2>a. /\ waiting /\ waiting' = FALSE /\ calls \in Call
        /\ sm' = (IF HasSm THEN expected ELSE sm)
        /\ UNCHANGED <<calls, tag, lost, chip, air, did, executed, starts, onWire>>
    BY <2>0, <1>0, <1>b DEF ReturnBody, Outstanding, Call
  <2>b. /\ sm' \in Session
        /\ sm'.key = sm.key
        /\ HasSm => At(sm)' = At(sm) + 1
    <3>1. CASE HasSm
      <4>1. sm' = [key |-> sm.key, ssc |-> Increment(sm.ssc)]
        BY <2>a, <3>1, <1>a
      <4>2. At(sm) + 1 < Modulus
        BY <3>1, <2>a, <1>0, <1>b, <1>c DEF Bounded, Call
      <4>3. starts[sm.key] \in Ssc
        BY <3>1, <1>0, <1>a, <1>b DEF Keys, HasSm, Key
      <4> QED
        BY <4>1, <4>2, <4>3, <2>a, <1>a, StepsNext, IncrementType DEF At, Session
    <3>2. CASE ~HasSm
      BY <2>a, <3>2, <1>0 DEF TypeOK
    <3> QED
      BY <3>1, <3>2
  <2>c. HasSm' <=> HasSm
    BY <2>b DEF HasSm
  <2>d. /\ tag[calls] = sm /\ answer[calls] = 0
        /\ HasSm => Guarded(calls) /\ At(tag[calls]) = At(sm)
    BY <2>a, <1>0 DEF Outstanding, Guarded, HasSm
  <2>e. ASSUME HasSm, taken PROVE r \in air /\ r.call = calls
    <3>1. r.key = sm.key /\ r.ssc = Increment(sm.ssc) /\ sm.key # 0
      BY <2>e, <1>a DEF HasSm
    <3>2. r \in air
      BY <3>1 DEF Damaged
    <3>3. /\ r.call \in Call /\ r.call <= calls
          /\ tag[r.call].key = sm.key
          /\ Increment(tag[r.call].ssc) = Increment(sm.ssc)
      BY <3>1, <3>2, <1>0, <1>b DEF Replies, Call
    <3>4. tag[r.call].ssc = sm.ssc
      BY <3>3, <1>a, IncrementInjective
    <3>5. At(tag[r.call]) = At(tag[calls]) /\ Guarded(r.call) /\ Guarded(calls)
      BY <3>1, <3>3, <3>4, <2>d DEF At, Guarded
    <3>6. ~(r.call < calls)
      BY <3>3, <3>5, <2>a, <2>d, <1>0, <1>c DEF TagsIncrease
    <3> QED
      BY <3>2, <3>3, <3>6, <2>a DEF Call
  <2>f. /\ result' \in [Call -> Status \cup {"none", "failed"}]
        /\ answer' \in [Call -> Call \cup {0}]
        /\ \A c \in Call : c # calls => result'[c] = result[c] /\ answer'[c] = answer[c]
    <3>1. r.status \in Status /\ r.call \in Call \cup {0}
      BY <1>0 DEF TypeOK, Response, Damaged, Status
    <3> QED
      BY <2>0, <2>a, <3>1, <1>0 DEF ReturnBody, TypeOK, Status
  <2>g. /\ result'[calls] = (IF taken THEN IF HasSm THEN r.status ELSE trailer ELSE "failed")
        /\ answer'[calls] = (IF taken THEN r.call ELSE 0)
    BY <2>0, <2>a, <1>0 DEF ReturnBody, TypeOK
  <2>1. TypeOK'
    BY <2>a, <2>b, <2>f, <1>0 DEF TypeOK
  <2>2. Unmade'
    BY <2>a, <2>f, <1>0, <1>b DEF Unmade
  <2>3. Keys'
    BY <2>a, <2>b, <1>0 DEF Keys
  <2>4. Outstanding'
    BY <2>a DEF Outstanding
  <2>5. Bounded'
    BY <2>a, <2>b, <2>c, <1>0, <1>b, <1>c DEF Bounded, Guarded, At, HasSm
  <2>6. TagsBehind'
    <3> SUFFICES ASSUME HasSm', NEW c \in Call
                 PROVE  (tag[c].key <= sm.key
                         /\ (tag[c].key = sm.key => At(tag[c]) + Moved <= At(sm)))'
      BY DEF TagsBehind
    <3>1. Moved = 0 /\ Moved' \in {0, 1}
      BY <2>a DEF Moved
    <3>2. At(tag[c])' = At(tag[c]) /\ (tag[c].key = sm.key => At(tag[c]) \in Nat)
      BY <2>a, <2>c, <1>c DEF At, Guarded, HasSm
    <3> QED
      BY <2>a, <2>b, <2>c, <3>1, <3>2, <1>0, <1>c DEF TagsBehind
  <2>7. TagsIncrease'
    BY <2>a, <1>0 DEF TagsIncrease, Guarded, At
  <2>8. Replies'
    BY <2>a, <1>0 DEF Replies
  <2>9. Executed'
    BY <2>a, <1>0 DEF Executed, InOrderOnce, Guarded
  <2>10. Delivered'
    BY <2>a, <1>0 DEF Delivered, At
  <2>11. ChipBehind'
    <3>1. Moved = 0 /\ Moved' \in {0, 1}
      BY <2>a DEF Moved
    <3>2. At(chip)' = At(chip)
      BY <2>a DEF At
    <3> QED
      BY <2>a, <2>b, <2>c, <3>1, <3>2, <1>0, <1>c DEF ChipBehind, HasSm
  <2>12. LastTag'
    <3>1. At(tag[calls])' = At(tag[calls])
      BY <2>a DEF At
    <3> QED
      BY <2>a, <2>b, <2>c, <2>d, <3>1, <1>b, <1>c DEF LastTag, Call
  <2>13. Successes'
    <3> SUFFICES ASSUME NEW c \in Call, Guarded(c), result'[c] = "ok"
                 PROVE  did[c] = "ok" /\ c \notin onWire
      BY <2>a DEF Successes, Guarded
    <3>1. CASE c # calls
      BY <2>f, <3>1, <1>0 DEF Successes
    <3>2. CASE c = calls
      <4>1. HasSm
        BY <2>d, <3>2 DEF Guarded, HasSm
      <4>2. taken /\ r.status = "ok"
        BY <2>g, <3>2, <4>1
      <4> QED
        BY <2>e, <3>2, <4>1, <4>2, <1>0 DEF Replies
    <3> QED
      BY <3>1, <3>2
  <2>14. AnswersOwnCall'
    <3> SUFFICES ASSUME NEW c \in Call, Guarded(c), answer'[c] # 0
                 PROVE  answer'[c] = c
      BY <2>a DEF AnswersOwnCall, Guarded
    <3>1. CASE c # calls
      BY <2>f, <3>1, <1>0 DEF AnswersOwnCall
    <3>2. CASE c = calls
      <4>1. HasSm
        BY <2>d, <3>2 DEF Guarded, HasSm
      <4> QED
        BY <2>e, <2>g, <3>2, <4>1
    <3> QED
      BY <3>1, <3>2
  <2> QED
    BY <2>1, <2>2, <2>3, <2>4, <2>5, <2>6, <2>7, <2>8, <2>9, <2>10, <2>11, <2>12, <2>13, <2>14 DEF IInv
<1>8. ASSUME NEW c \in onWire, NEW status \in Status, ChipExecute(c, status) PROVE IInv'
  <2>0. ChipExecute(c, status)
    BY <1>8
  <2> DEFINE ssc == Increment(tag[c].ssc)
             reply == [call |-> c, key |-> chip.key, ssc |-> ssc, status |-> status]
  <2>a. /\ c \in Call /\ c \in 1 .. calls /\ Guarded(c)
        /\ tag[c].key = chip.key /\ chip.key # 0
        /\ tag[c].ssc = Increment(chip.ssc)
        /\ chip' = [key |-> chip.key, ssc |-> ssc]
        /\ did' = [did EXCEPT ![c] = status]
        /\ executed' = Append(executed, c)
        /\ air' = air \cup {reply}
        /\ onWire' = onWire \ {c}
        /\ UNCHANGED <<readerVars, starts>>
    <3>1. chip = [key |-> chip.key, ssc |-> chip.ssc]
      BY <1>0 DEF TypeOK, Session
    <3>2. c \in Call /\ c \in 1 .. calls
      BY <1>0, <1>b DEF Unmade, Call
    <3> QED
      BY <2>0, <3>1, <3>2, CountAlike DEF ChipExecute, Verifies, Guarded
  <2>b. /\ ssc \in Ssc
        /\ At(tag[c]) = At(chip) + 1
        /\ At(chip)' = At(tag[c]) + 1
    <3>1. starts[chip.key] \in Ssc
      BY <2>a, <1>0, <1>a, <1>b DEF Keys, Key
    <3>2. At(chip) + 1 < Modulus /\ At(tag[c]) + 1 < Modulus
      BY <2>a, <1>0, <1>b, <1>c DEF Bounded
    <3>3. ssc \in Ssc
      BY <2>a, <1>a, IncrementType
    <3>4. At(tag[c]) = At(chip) + 1
      BY <2>a, <3>1, <3>2, <1>a, StepsNext DEF At
    <3>5. Steps(starts[chip.key], ssc) = Steps(starts[chip.key], tag[c].ssc) + 1
      BY <2>a, <3>1, <3>2, <1>a, StepsNext DEF At
    <3>6. At(chip)' = Steps(starts[chip.key], ssc)
      BY <2>a DEF At
    <3> QED
      BY <2>a, <3>3, <3>4, <3>5, <3>6 DEF At
  <2>c. \A d \in Call : At(tag[d])' = At(tag[d]) /\ (Guarded(d) => At(tag[d]) \in Nat)
    BY <2>a, <1>c DEF At
  <2>d. executed \in Seq(Call)
    BY <1>0 DEF TypeOK
  <2>e. \A i \in DOMAIN executed : executed[i] < c /\ executed[i] \in Call
    <3> SUFFICES ASSUME NEW i \in DOMAIN executed
                 PROVE  executed[i] < c /\ executed[i] \in Call
      OBVIOUS
    <3> DEFINE e == executed[i]
    <3>1. /\ e \in Call /\ e # c /\ e \notin onWire /\ Guarded(e)
          /\ tag[e].key <= chip.key
      BY <2>a, <1>0, <1>b DEF Executed, Call
    <3>2. ASSUME c < e PROVE FALSE
      <4>1. tag[c].key <= tag[e].key /\ (tag[c].key = tag[e].key => At(tag[c]) < At(tag[e]))
        BY <2>a, <3>1, <3>2, <1>0 DEF TagsIncrease
      <4>2. tag[e].key = chip.key
        BY <2>a, <3>1, <4>1, <1>a DEF Key
      <4>3. At(tag[e]) < At(chip)
        BY <2>a, <3>1, <4>2, <1>0 DEF Delivered
      <4> QED
        BY <2>a, <2>b, <2>c, <3>1, <4>1, <4>2, <4>3, <1>c
    <3> QED
      BY <2>a, <3>1, <3>2 DEF Call
  <2>1. TypeOK'
    <3>1. chip' \in Session
      BY <2>a, <2>b, <1>a DEF Session
    <3>2. reply \in Response
      BY <2>a, <2>b, <1>a DEF Response
    <3>3. did' \in [Call -> Status \cup {"nothing"}]
      BY <2>a, <1>0 DEF TypeOK
    <3>4. executed' \in Seq(Call)
      BY <2>a, <2>d
    <3> QED
      BY <2>a, <3>1, <3>2, <3>3, <3>4, <1>0 DEF TypeOK
  <2>2. Unmade'
    BY <2>a, <1>0, <1>b DEF Unmade, TypeOK
  <2>3. Keys'
    BY <2>a, <1>0 DEF Keys
  <2>4. Outstanding'
    BY <2>a, <1>0 DEF Outstanding
  <2>5. Bounded'
    <3>1. At(chip)' <= 2 * calls
      BY <2>a, <2>b, <2>c, <1>0, <1>b DEF Bounded
    <3> QED
      BY <2>a, <3>1, <1>0 DEF Bounded, HasSm, Guarded, At
  <2>6. TagsBehind'
    BY <2>a, <1>0 DEF TagsBehind, HasSm, Moved, At
  <2>7. TagsIncrease'
    BY <2>a, <1>0 DEF TagsIncrease, Guarded, At
  <2>8. Replies'
    <3> SUFFICES ASSUME NEW r \in air'
                 PROVE  /\ r.call \in 1 .. calls /\ r.call \notin onWire'
                        /\ tag[r.call].key = r.key
                        /\ r.key # 0 => r.ssc = Increment(tag[r.call].ssc)
                        /\ did'[r.call] = r.status
      BY <2>a DEF Replies
    <3>1. CASE r = reply
      BY <2>a, <3>1, <1>0 DEF TypeOK
    <3>2. CASE r \in air
      <4>1. r.call # c
        BY <3>2, <1>0 DEF Replies
      <4> QED
        BY <2>a, <3>2, <4>1, <1>0, <1>b DEF Replies, TypeOK, Call
    <3> QED
      BY <2>a, <3>1, <3>2
  <2>9. Executed'
    <3>1. \A i \in DOMAIN executed' :
            \/ i \in DOMAIN executed /\ executed'[i] = executed[i]
            \/ i = Len(executed) + 1 /\ executed'[i] = c
      BY <2>a, <2>d
    <3>2. DOMAIN executed = 1 .. Len(executed) /\ Len(executed) \in Nat
      BY <2>d
    <3>3. \A i \in DOMAIN executed' :
            /\ executed'[i] \in 1 .. calls /\ executed'[i] \notin onWire'
            /\ Guarded(executed'[i])
            /\ tag[executed'[i]].key <= chip.key
      BY <2>a, <3>1, <1>0, <1>a DEF Executed, Key
    <3>4. InOrderOnce'
      BY <3>1, <3>2, <2>e, <1>0 DEF Executed, InOrderOnce
    <3> QED
      BY <2>a, <3>3, <3>4 DEF Executed, Guarded
  <2>10. Delivered'
    <3> SUFFICES ASSUME NEW d \in Call, tag[d].key = chip.key, d \notin onWire \/ d = c
                 PROVE  At(tag[d]) < At(chip)'
      BY <2>a, <2>c DEF Delivered
    <3>1. Guarded(d) /\ At(tag[d]) \in Nat /\ At(tag[c]) \in Nat /\ At(chip) \in Nat
      BY <2>a, <2>c, <1>c DEF Guarded
    <3>2. CASE d = c
      BY <2>b, <3>1, <3>2
    <3>3. CASE d # c
      <4>1. At(tag[d]) < At(chip)
        BY <2>a, <3>3, <1>0 DEF Delivered
      <4> QED
        BY <2>b, <3>1, <4>1
    <3> QED
      BY <3>2, <3>3
  <2>11. ChipBehind'
    <3> SUFFICES ASSUME HasSm, chip.key = sm.key
                 PROVE  At(chip)' + Moved <= At(sm) + 1
      BY <2>a DEF ChipBehind, HasSm, Moved, At
    <3>1. At(tag[c]) + Moved <= At(sm)
      BY <2>a, <1>0 DEF TagsBehind
    <3>2. Moved \in {0, 1}
      BY DEF Moved
    <3> QED
      BY <2>a, <2>b, <2>c, <3>1, <3>2, <1>c
  <2>12. LastTag'
    BY <2>a, <1>0 DEF LastTag, HasSm, At
  <2>13. Successes'
    BY <2>a, <1>0 DEF Successes, Guarded
  <2>14. AnswersOwnCall'
    BY <2>a, <1>0 DEF AnswersOwnCall, Guarded
  <2> QED
    BY <2>1, <2>2, <2>3, <2>4, <2>5, <2>6, <2>7, <2>8, <2>9, <2>10, <2>11, <2>12, <2>13, <2>14 DEF IInv
<1>9. ASSUME NEW c \in onWire, ChipAbort(c) PROVE IInv'
  <2>0. ChipAbort(c)
    BY <1>9
  <2>a. /\ chip' = NoSession /\ chip'.key = 0
        /\ onWire' = onWire \ {c}
        /\ UNCHANGED <<readerVars, air, did, executed, starts>>
    BY <2>0, <1>d DEF ChipAbort
  <2>1. TypeOK'
    BY <2>a, <1>0, <1>d DEF TypeOK
  <2>2. Unmade'
    BY <2>a, <1>0 DEF Unmade
  <2>3. Keys'
    BY <2>a, <1>0, <1>b DEF Keys
  <2>4. Outstanding'
    BY <2>0, <1>0 DEF ChipAbort, Outstanding
  <2>5. Bounded'
    BY <2>a, <1>0 DEF Bounded, HasSm, Guarded, At
  <2>6. TagsBehind'
    BY <2>a, <1>0 DEF TagsBehind, HasSm, Moved, At
  <2>7. TagsIncrease'
    BY <2>0, <1>0 DEF ChipAbort, TagsIncrease, Guarded, At
  <2>8. Replies'
    BY <2>a, <1>0 DEF Replies
  <2>9. Executed'
    BY <2>a, <1>0 DEF Executed, InOrderOnce, Guarded
  <2>10. Delivered'
    BY <2>a DEF Delivered
  <2>11. ChipBehind'
    BY <2>a, <1>0 DEF ChipBehind, HasSm
  <2>12. LastTag'
    BY <2>a, <1>0 DEF LastTag, HasSm, At
  <2>13. Successes'
    BY <2>a, <1>0 DEF Successes, Guarded
  <2>14. AnswersOwnCall'
    BY <2>0, <1>0 DEF ChipAbort, AnswersOwnCall, Guarded
  <2> QED
    BY <2>1, <2>2, <2>3, <2>4, <2>5, <2>6, <2>7, <2>8, <2>9, <2>10, <2>11, <2>12, <2>13, <2>14 DEF IInv
<1>10. ASSUME NEW c \in onWire, NEW status \in Status, ChipPlain(c, status) PROVE IInv'
  <2>0. ChipPlain(c, status)
    BY <1>10
  <2> DEFINE reply == [call |-> c, key |-> 0, ssc |-> 0, status |-> status]
  <2>a. /\ c \in Call /\ c \in 1 .. calls /\ tag[c].key = 0
        /\ chip' = NoSession /\ chip'.key = 0
        /\ did' = [did EXCEPT ![c] = status]
        /\ air' = air \cup {reply}
        /\ onWire' = onWire \ {c}
        /\ UNCHANGED <<readerVars, executed, starts>>
    BY <2>0, <1>0, <1>b, <1>d DEF ChipPlain, Unmade, Call
  <2>1. TypeOK'
    <3>1. reply \in Response
      BY <2>a DEF Response, Key, Ssc
    <3>2. did' \in [Call -> Status \cup {"nothing"}]
      BY <2>a, <1>0 DEF TypeOK
    <3> QED
      BY <2>a, <3>1, <3>2, <1>0, <1>d DEF TypeOK
  <2>2. Unmade'
    BY <2>a, <1>0, <1>b DEF Unmade, TypeOK
  <2>3. Keys'
    BY <2>a, <1>0, <1>b DEF Keys
  <2>4. Outstanding'
    BY <2>a, <1>0 DEF Outstanding
  <2>5. Bounded'
    BY <2>a, <1>0 DEF Bounded, HasSm, Guarded, At
  <2>6. TagsBehind'
    BY <2>a, <1>0 DEF TagsBehind, HasSm, Moved, At
  <2>7. TagsIncrease'
    BY <2>a, <1>0 DEF TagsIncrease, Guarded, At
  <2>8. Replies'
    <3> SUFFICES ASSUME NEW r \in air'
                 PROVE  /\ r.call \in 1 .. calls /\ r.call \notin onWire'
                        /\ tag[r.call].key = r.key
                        /\ r.key # 0 => r.ssc = Increment(tag[r.call].ssc)
                        /\ did'[r.call] = r.status
      BY <2>a DEF Replies
    <3>1. CASE r = reply
      BY <2>a, <3>1, <1>0 DEF TypeOK
    <3>2. CASE r \in air
      <4>1. r.call # c
        BY <3>2, <1>0 DEF Replies
      <4> QED
        BY <2>a, <3>2, <4>1, <1>0, <1>b DEF Replies, TypeOK, Call
    <3> QED
      BY <2>a, <3>1, <3>2
  <2>9. Executed'
    BY <2>a, <1>0 DEF Executed, InOrderOnce, Guarded
  <2>10. Delivered'
    BY <2>a DEF Delivered
  <2>11. ChipBehind'
    BY <2>a DEF ChipBehind, HasSm
  <2>12. LastTag'
    BY <2>a, <1>0 DEF LastTag, HasSm, At
  <2>13. Successes'
    BY <2>a, <1>0 DEF Successes, Guarded, TypeOK
  <2>14. AnswersOwnCall'
    BY <2>a, <1>0 DEF AnswersOwnCall, Guarded
  <2> QED
    BY <2>1, <2>2, <2>3, <2>4, <2>5, <2>6, <2>7, <2>8, <2>9, <2>10, <2>11, <2>12, <2>13, <2>14 DEF IInv
<1>11. CASE UNCHANGED vars
  BY <1>0, <1>11 DEF vars, IInv, TypeOK, Unmade, Keys, Outstanding, Bounded, TagsBehind,
    TagsIncrease, Replies, Executed, Delivered, ChipBehind, LastTag, Successes,
    AnswersOwnCall, InOrderOnce, HasSm, Guarded, Moved, At
<1> QED
  BY <1>1, <1>2, <1>3, <1>4, <1>5, <1>6, <1>7, <1>8, <1>9, <1>10, <1>11 DEF Next, Reader, Chip

\* What every step keeps holds throughout.
THEOREM Invariance == Spec => []IInv
BY Initially, Inductive, PTL DEF Spec

\* Every variable keeps its type: the counter never leaves its width.
THEOREM TypeCorrect == Spec => []TypeOK
<1>1. IInv => TypeOK
  BY DEF IInv
<1> QED
  BY <1>1, Invariance, PTL

\* A body that unprotect accepts is the reply to the call that is under way.
THEOREM RepliesAreOwn == Spec => []AnswersOwnCall
<1>1. IInv => AnswersOwnCall
  BY DEF IInv
<1> QED
  BY <1>1, Invariance, PTL

\* A guarded call that transceive_cmd reports as a success is one the chip
\* carried out with success.
THEOREM SuccessesAreAuthentic == Spec => []SuccessIsAuthentic
<1>1. IInv => SuccessIsAuthentic
  BY DEF IInv, Successes, SuccessIsAuthentic
<1> QED
  BY <1>1, Invariance, PTL

\* The chip carries commands out in the order they were sent, none twice.
THEOREM CarriedOutInOrder == Spec => []InOrderOnce
<1>1. IInv => InOrderOnce
  BY DEF IInv, Executed
<1> QED
  BY <1>1, Invariance, PTL

\* At rest the chip's counter is at most one step ahead of the reader's.
THEOREM NeverTwoAhead == Spec => []ChipAtMostOneAhead
<1>1. IInv => ChipAtMostOneAhead
  <2> SUFFICES ASSUME IInv, HasSm, chip.key = sm.key,
                      chip.ssc = Increment(Increment(sm.ssc))
               PROVE  FALSE
    BY DEF ChipAtMostOneAhead
  <2>1. /\ sm.key \in Key /\ sm.key # 0 /\ sm.ssc \in Ssc
        /\ calls \in 0 .. MaxCalls
        /\ starts[sm.key] \in Ssc
    BY DEF IInv, TypeOK, Session, Keys, HasSm, Key
  <2>2. At(sm) \in 0 .. 2 * calls
    BY <2>1, StepsRange DEF IInv, Bounded, At
  <2>3. At(sm) + 2 < Modulus
    BY <2>1, <2>2, SmConstants
  <2>4. /\ Increment(sm.ssc) \in Ssc
        /\ Steps(starts[sm.key], Increment(sm.ssc)) = At(sm) + 1
    <3>1. Steps(starts[sm.key], sm.ssc) + 1 < Modulus
      BY <2>2, <2>3, SmConstants DEF At
    <3> QED
      BY <2>1, <3>1, StepsNext, IncrementType DEF At
  <2>5. At(chip) = At(sm) + 2
    BY <2>1, <2>2, <2>3, <2>4, StepsNext DEF At
  <2>6. At(chip) + Moved <= At(sm) + 1
    BY DEF IInv, ChipBehind
  <2> QED
    BY <2>2, <2>5, <2>6 DEF Moved
<1> QED
  BY <1>1, Invariance, PTL

\* What a command under way finds when nothing was lost: the one before it is
\* two steps behind, and the chip has yet to take the step it asks for.
InFlight ==
  (HasSm /\ ~lost /\ waiting) =>
    /\ At(sm) = 1 \/ \E c \in Call : c < calls /\ tag[c].key = sm.key /\ At(tag[c]) + 2 = At(sm)
    /\ \A c \in Call : c < calls /\ tag[c].key = sm.key => At(tag[c]) + 2 <= At(sm)
    /\ chip.key = sm.key /\ calls \in onWire => At(chip) + 1 <= At(sm)

\* The parts of the inductive invariant that counting needs.
LEMMA Counted ==
  ASSUME IInv
  PROVE  /\ calls \in 0 .. MaxCalls
         /\ sm.key \in Key /\ sm.ssc \in Ssc /\ chip.key \in Key /\ chip.ssc \in Ssc
         /\ \A c \in Call : tag[c].key \in Key /\ tag[c].ssc \in Ssc
         /\ HasSm => starts[sm.key] \in Ssc /\ At(sm) \in Nat
         /\ chip.key # 0 => starts[chip.key] \in Ssc /\ At(chip) \in Nat
         /\ \A c \in Call : Guarded(c) => At(tag[c]) \in Nat
<1>1. /\ calls \in 0 .. MaxCalls
      /\ sm.key \in Key /\ sm.ssc \in Ssc /\ chip.key \in Key /\ chip.ssc \in Ssc
      /\ \A c \in Call : tag[c].key \in Key /\ tag[c].ssc \in Ssc
      /\ starts \in Seq(Ssc) /\ Len(starts) \in 0 .. MaxSessions
      /\ \A k \in 1 .. Len(starts) : starts[k] \in Ssc
  BY DEF IInv, TypeOK, Session
<1>2. HasSm => starts[sm.key] \in Ssc
  BY <1>1 DEF IInv, Keys, HasSm, Key
<1>3. chip.key # 0 => starts[chip.key] \in Ssc
  BY <1>1 DEF IInv, Keys, Key
<1>4. \A c \in Call : Guarded(c) => starts[tag[c].key] \in Ssc
  BY <1>1 DEF IInv, Keys, Guarded, Key
<1>5. ASSUME NEW s \in Ssc, NEW v \in Ssc PROVE Steps(s, v) \in Nat
  BY StepsRange, SmConstants
<1>6. /\ HasSm => At(sm) \in Nat
      /\ chip.key # 0 => At(chip) \in Nat
  BY <1>1, <1>2, <1>3, <1>5 DEF At
<1>7. ASSUME NEW c \in Call, Guarded(c) PROVE At(tag[c]) \in Nat
  BY <1>1, <1>4, <1>5, <1>7 DEF At
<1> QED
  BY <1>1, <1>2, <1>3, <1>6, <1>7

\* Only a new command and the chip change anything while a call is under way.
LEMMA InFlightInductive == IInv /\ IInv' /\ InFlight /\ [Next]_vars => InFlight'
<1> SUFFICES ASSUME IInv, IInv', InFlight, [Next]_vars, HasSm', ~lost', waiting'
             PROVE  InFlight'
  BY DEF InFlight
<1> USE SmConstants DEF readerVars, chipVars
<1>1. CASE TransceiveCmd
  <2>1. /\ ~waiting /\ calls \in 0 .. MaxCalls /\ calls + 1 \in Call /\ calls' = calls + 1
        /\ HasSm /\ sm' = [sm EXCEPT !.ssc = Increment(@)]
        /\ tag' = [tag EXCEPT ![calls + 1] = sm']
        /\ UNCHANGED <<lost, chip, starts>>
    BY <1>1, Counted DEF TransceiveCmd, HasSm, NoSession, Call
  <2>2. sm'.key = sm.key /\ sm'.ssc = Increment(sm.ssc)
    BY <2>1 DEF IInv, TypeOK, Session
  <2>3. At(sm) + 1 < Modulus
    BY <2>1, Counted DEF IInv, Bounded
  <2>4. At(sm)' = At(sm) + 1
    BY <2>1, <2>2, <2>3, Counted, StepsNext DEF At
  <2>5. \A c \in Call : c # calls + 1 => tag'[c] = tag[c] /\ At(tag[c])' = At(tag[c])
    BY <2>1 DEF IInv, TypeOK, At
  <2>6. At(chip)' = At(chip)
    BY <2>1 DEF At
  <2>7. At(sm) = 0 \/ (calls > 0 /\ tag[calls].key = sm.key /\ At(tag[calls]) + 1 = At(sm))
    BY <2>1, Counted, StepsStart DEF IInv, LastTag, At
  <2>8. At(sm)' = 1 \/ \E c \in Call : c < calls' /\ tag'[c].key = sm'.key /\ At(tag[c])' + 2 = At(sm)'
    <3>1. CASE At(sm) = 0
      BY <2>4, <3>1
    <3>2. CASE calls > 0 /\ tag[calls].key = sm.key /\ At(tag[calls]) + 1 = At(sm)
      <4>0. PICK n \in Nat : n = calls
        BY <2>1
      <4>1. n \in Call /\ n < calls' /\ n # calls + 1
        BY <2>1, <3>2, <4>0 DEF Call
      <4>2. tag'[n].key = sm'.key
        BY <2>2, <2>5, <3>2, <4>0, <4>1
      <4>3. At(tag[n]) \in Nat /\ At(sm) \in Nat /\ At(tag[n]) + 1 = At(sm)
        BY <2>1, <3>2, <4>0, <4>1, Counted DEF Guarded, HasSm
      <4>4. At(tag[n])' = At(tag[n])
        BY <2>5, <4>1
      <4>5. At(tag[n])' + 2 = At(sm)'
        BY <2>4, <4>3, <4>4
      <4> QED
        BY <4>1, <4>2, <4>5
    <3> QED
      BY <2>7, <3>1, <3>2
  <2>9. ASSUME NEW c \in Call, c < calls', tag'[c].key = sm'.key PROVE At(tag[c])' + 2 <= At(sm)'
    <3>1. tag[c].key = sm.key /\ At(tag[c])' = At(tag[c])
      BY <2>1, <2>2, <2>5, <2>9 DEF Call
    <3>2. At(tag[c]) \in Nat /\ At(sm) \in Nat
      BY <2>1, <3>1, Counted DEF Guarded, HasSm
    <3>3. At(tag[c]) + 1 <= At(sm)
      BY <2>1, <3>1 DEF IInv, TagsBehind, Moved
    <3> QED
      BY <2>4, <3>1, <3>2, <3>3
  <2>10. chip'.key = sm'.key => At(chip)' + 1 <= At(sm)'
    <3> SUFFICES ASSUME chip.key = sm.key PROVE At(chip) + 1 <= At(sm) + 1
      BY <2>1, <2>2, <2>4, <2>6
    <3>1. At(chip) + 1 <= At(sm) + 1
      BY <2>1 DEF IInv, ChipBehind, Moved
    <3> QED
      BY <3>1
  <2> QED
    BY <2>8, <2>9, <2>10 DEF InFlight
<1>2. ASSUME NEW c \in onWire, NEW status \in Status, ChipExecute(c, status)
      PROVE  InFlight'
  <2>1. /\ c \in Call /\ c \in 1 .. calls /\ Guarded(c) /\ tag[c].key = chip.key
        /\ chip' = [chip EXCEPT !.ssc = Increment(tag[c].ssc)]
        /\ onWire' = onWire \ {c}
        /\ UNCHANGED <<sm, calls, waiting, tag, lost, starts>>
    <3>1. c \in 1 .. calls /\ c \in Call
      BY Counted DEF IInv, Unmade, Call
    <3> QED
      BY <1>2, <3>1, CountAlike DEF ChipExecute, Verifies, Guarded
  <2>2. At(sm)' = At(sm) /\ \A d \in Call : At(tag[d])' = At(tag[d])
    BY <2>1 DEF At
  <2>3. HasSm /\ ~lost /\ waiting
    BY <2>1 DEF HasSm
  <2>4. chip'.key = chip.key /\ chip'.ssc = Increment(tag[c].ssc)
    BY <2>1 DEF IInv, TypeOK, Session
  <2>5. chip'.key = sm.key /\ calls \in onWire' => At(chip)' + 1 <= At(sm)
    <3> SUFFICES ASSUME chip.key = sm.key, calls \in onWire \ {c}
                 PROVE  At(chip)' + 1 <= At(sm)
      BY <2>1, <2>4
    <3>1. c < calls /\ At(tag[c]) + 2 <= At(sm)
      BY <2>1, <2>3, Counted DEF InFlight
    <3>2. At(tag[c]) \in Nat /\ At(sm) \in Nat
      BY <2>1, <2>3, Counted
    <3>3. At(tag[c]) + 1 < Modulus
      <4>1. At(sm) <= 2 * calls
        BY <2>3, <3>2, Counted DEF IInv, Bounded
      <4> QED
        BY <3>1, <3>2, <4>1, Counted
    <3>4. At(chip)' = At(tag[c]) + 1
      <4>1. tag[c].ssc \in Ssc /\ starts[chip.key] \in Ssc
        BY <2>1, <2>3, Counted DEF HasSm
      <4> QED
        BY <2>1, <2>4, <3>3, <4>1, StepsNext DEF At
    <3> QED
      BY <3>1, <3>2, <3>4
  <2> QED
    BY <2>1, <2>2, <2>3, <2>5 DEF InFlight
<1>3. ASSUME NEW c \in onWire, ChipAbort(c) \/ \E status \in Status : ChipPlain(c, status)
      PROVE  InFlight'
  <2>1. chip' = NoSession /\ UNCHANGED <<sm, calls, waiting, tag, lost, starts>>
    BY <1>3 DEF ChipAbort, ChipPlain
  <2>2. HasSm /\ ~lost /\ waiting /\ chip'.key # sm'.key
    BY <2>1 DEF HasSm, NoSession
  <2>3. At(sm)' = At(sm) /\ \A d \in Call : At(tag[d])' = At(tag[d])
    BY <2>1 DEF At
  <2> QED
    BY <2>1, <2>2, <2>3 DEF InFlight
<1>4. CASE UNCHANGED vars
  BY <1>4 DEF InFlight, vars, HasSm, At
<1>5. ASSUME NEW start \in Starts, Establish(start) \/ EstablishFails(start) PROVE FALSE
  BY <1>5 DEF Establish, EstablishFails
<1>6. ASSUME ClearSm \/ ReturnTransport PROVE FALSE
  BY <1>6 DEF ClearSm, ReturnTransport
<1>7. ASSUME NEW status \in Status, ReturnBare(status) PROVE FALSE
  BY <1>7 DEF ReturnBare
<1>8. ASSUME NEW r \in air \cup {Damaged}, NEW trailer \in Status, ReturnBody(r, trailer)
      PROVE  FALSE
  BY <1>8 DEF ReturnBody
<1>9. Reader => TransceiveCmd
  BY <1>5, <1>6, <1>7, <1>8 DEF Reader
<1> QED
  BY <1>1, <1>2, <1>3, <1>4, <1>9 DEF Next, Chip

\* While every call got a body and every earlier command arrived, the two
\* counters agree and the chip takes the command that is under way, also when
\* Ssc::increment wraps.
THEOREM CountersAgree == Spec => []Lockstep
<1>1. Init => InFlight
  BY DEF Init, InFlight
<1>2. Spec => []InFlight
  BY <1>1, Invariance, InFlightInductive, PTL DEF Spec
<1>3. IInv /\ InFlight => Lockstep
  <2> SUFFICES ASSUME IInv, InFlight, ~lost, HasSm, chip.key = sm.key
               PROVE  /\ ~waiting /\ onWire = {} => chip.ssc = sm.ssc
                      /\ waiting /\ onWire = {calls} => Verifies(calls)
    BY DEF Lockstep
  <2>1. ASSUME ~waiting, onWire = {} PROVE chip.ssc = sm.ssc
    <3>1. At(chip) <= At(sm)
      BY <2>1, Counted DEF IInv, ChipBehind, Moved, HasSm
    <3>2. At(sm) <= At(chip)
      <4>1. CASE sm.ssc = starts[sm.key]
        BY <4>1, Counted, StepsStart DEF At, HasSm
      <4>2. CASE calls > 0 /\ tag[calls].key = sm.key /\ At(tag[calls]) + 1 = At(sm)
        <5>1. calls \in Call
          BY <4>2, Counted DEF Call
        <5>2. At(tag[calls]) \in Nat
          BY <4>2, <5>1, Counted DEF Guarded, HasSm
        <5>3. At(tag[calls]) < At(chip)
          BY <2>1, <4>2, <5>1 DEF IInv, Delivered, HasSm
        <5> QED
          BY <4>2, <5>2, <5>3, Counted DEF HasSm
      <4> QED
        BY <2>1, <4>1, <4>2 DEF IInv, LastTag
    <3>3. At(sm) = At(chip)
      BY <3>1, <3>2, Counted DEF HasSm
    <3> QED
      BY <3>3, Counted, StepsInjective DEF At, HasSm
  <2>2. ASSUME waiting, onWire = {calls} PROVE Verifies(calls)
    <3>1. calls \in Call /\ tag[calls] = sm
      BY <2>2, Counted DEF IInv, Outstanding, Call
    <3>2. At(chip) + 1 <= At(sm)
      BY <2>2 DEF InFlight
    <3>3. At(sm) <= At(chip) + 1
      <4>1. CASE At(sm) = 1
        BY <4>1, Counted DEF HasSm
      <4>2. ASSUME NEW c \in Call, c < calls, tag[c].key = sm.key, At(tag[c]) + 2 = At(sm)
            PROVE  At(sm) <= At(chip) + 1
        <5>1. At(tag[c]) < At(chip)
          BY <2>2, <4>2, Counted DEF IInv, Delivered, HasSm, Call
        <5>2. At(tag[c]) \in Nat /\ At(chip) \in Nat
          BY <4>2, Counted DEF Guarded, HasSm
        <5> QED
          BY <4>2, <5>1, <5>2
      <4> QED
        BY <2>2, <4>1, <4>2 DEF InFlight
    <3>4. At(sm) = At(chip) + 1 /\ At(chip) + 1 < Modulus
      <4>1. At(sm) <= 2 * calls /\ At(sm) \in Nat /\ At(chip) \in Nat
        BY <2>2, Counted DEF IInv, Bounded, HasSm
      <4>2. At(sm) \in 0 .. Modulus - 1
        BY Counted, StepsRange DEF At
      <4> QED
        BY <3>2, <3>3, <4>1, <4>2, SmConstants
    <3>5. Steps(starts[sm.key], Increment(chip.ssc)) = Steps(starts[sm.key], sm.ssc)
      BY <3>4, Counted, StepsNext DEF At, HasSm
    <3>6. Increment(chip.ssc) = sm.ssc
      BY <3>5, Counted, IncrementType, StepsInjective
    <3> QED
      BY <3>1, <3>6, CountAlike DEF Verifies, HasSm
  <2> QED
    BY <2>1, <2>2
<1> QED
  BY <1>2, <1>3, Invariance, PTL

-----------------------------------------------------------------------------
(* SecureMessaging implements AtMostOnce.                                  *)

\* What the abstract call remembers of the chip's doings.
Outcomes == [c \in Call |-> IF Guarded(c) THEN did[c] ELSE "nothing"]

\* A step is invisible to the abstract call when it touches no guarded call
\* that the chip carried out or whose reply was accepted.
LEMMA Invisible ==
  ASSUME tag' = tag, executed' = executed,
         \A c \in Call : Guarded(c) =>
           /\ did'[c] = did[c]
           /\ answer'[c] = answer[c]
           /\ answer[c] # 0 => result'[c] = result[c]
  PROVE  UNCHANGED Rpc!vars
<1>1. GuardedCalls' = GuardedCalls
  BY DEF GuardedCalls, Guarded
<1>2. Outcomes' = Outcomes
  BY DEF Outcomes, Guarded
<1>3. AcceptedReplies' = AcceptedReplies
  BY <1>1 DEF AcceptedReplies, GuardedCalls
<1> QED
  BY <1>1, <1>2, <1>3 DEF Rpc!vars, Outcomes

\* The first state is a first state of the abstract call.
LEMMA AbstractInit == Init => Rpc!Init
BY DEF Init, Rpc!Init, GuardedCalls, AcceptedReplies, Guarded, NoSession

\* A guarded command is a new call of the abstract specification.
LEMMA CommandInvokes == IInv /\ TransceiveCmd => [Rpc!Next]_Rpc!vars
<1> SUFFICES ASSUME IInv, TransceiveCmd PROVE [Rpc!Next]_Rpc!vars
  OBVIOUS
<1>n. PICK n \in Call : n = calls + 1 /\ calls \in Nat
  BY SmConstants DEF IInv, TypeOK, TransceiveCmd, Call
<1>1. /\ \A c \in Call : c # n => tag'[c] = tag[c]
      /\ tag'[n].key = sm.key
      /\ ~Guarded(n) /\ answer[n] = 0 /\ did[n] = "nothing"
      /\ \A c \in Call : Guarded(c) => c < n
      /\ UNCHANGED <<did, executed, answer, result>>
  BY <1>n DEF IInv, TypeOK, Unmade, TransceiveCmd, Guarded, NoSession, HasSm, Session, Call, chipVars
<1>2. CASE ~HasSm
  <2>1. GuardedCalls' = GuardedCalls
    BY <1>1, <1>2 DEF GuardedCalls, Guarded, HasSm
  <2>2. Outcomes' = Outcomes
    BY <1>1, <1>2 DEF Outcomes, Guarded, HasSm
  <2>3. AcceptedReplies' = AcceptedReplies
    BY <1>1, <2>1 DEF AcceptedReplies
  <2> QED
    BY <1>1, <2>1, <2>2, <2>3 DEF Rpc!vars, Outcomes
<1>3. CASE HasSm
  <2>1. GuardedCalls' = GuardedCalls \cup {n}
    BY <1>1, <1>3 DEF GuardedCalls, Guarded, HasSm
  <2>2. Outcomes' = Outcomes
    BY <1>1 DEF Outcomes, Guarded
  <2>3. AcceptedReplies' = AcceptedReplies
    BY <1>1, <2>1 DEF AcceptedReplies
  <2>4. \A d \in GuardedCalls : d < n
    BY <1>1 DEF GuardedCalls
  <2>5. Rpc!Invoke(n)
    BY <1>1, <2>1, <2>2, <2>3, <2>4 DEF Rpc!Invoke, Outcomes
  <2> QED
    BY <2>5 DEF Rpc!Next
<1> QED
  BY <1>2, <1>3

\* A body that is accepted for a guarded call is the reply to it; one that is
\* not is nothing to the abstract call.
LEMMA BodyReplies ==
  ASSUME IInv, IInv', NEW r \in air \cup {Damaged}, NEW trailer \in Status,
         ReturnBody(r, trailer)
  PROVE  [Rpc!Next]_Rpc!vars
<1>1. /\ calls \in Call /\ answer[calls] = 0 /\ tag[calls] = sm
      /\ UNCHANGED <<calls, tag, did, executed>>
      /\ \A c \in Call : c # calls => answer'[c] = answer[c] /\ result'[c] = result[c]
  BY DEF IInv, TypeOK, Outstanding, ReturnBody, Call, chipVars
<1>2. CASE ~Guarded(calls) \/ answer'[calls] = 0
  BY <1>1, <1>2, Invisible
<1>3. CASE Guarded(calls) /\ answer'[calls] # 0
  <2>1. HasSm
    BY <1>1, <1>3 DEF Guarded, HasSm
  <2>2. answer'[calls] = calls
    BY <1>1, <1>3 DEF IInv, AnswersOwnCall, Guarded
  <2>3. r.call = calls /\ result'[calls] = r.status /\ r.key = sm.key
    BY <1>1, <1>3, <2>1, <2>2 DEF ReturnBody, IInv, TypeOK, Session
  <2>4. r \in air
    BY <2>1, <2>3 DEF HasSm, Damaged
  <2>5. did[calls] = r.status /\ r.status # "nothing"
    BY <2>3, <2>4 DEF IInv, Replies, TypeOK, Response, Status
  <2>6. /\ GuardedCalls' = GuardedCalls /\ Outcomes' = Outcomes
        /\ calls \in GuardedCalls /\ Outcomes[calls] = r.status
    BY <1>1, <1>3, <2>5 DEF GuardedCalls, Guarded, Outcomes
  <2>7. \A d \in GuardedCalls : d <= calls
    BY <1>1 DEF IInv, Unmade, GuardedCalls, Guarded, NoSession, Call
  <2>8. \A q \in AcceptedReplies : q.call # calls
    BY <1>1 DEF AcceptedReplies
  <2>9. AcceptedReplies' =
          AcceptedReplies \cup {[call |-> calls, from |-> calls, status |-> r.status]}
    <3>1. {g \in GuardedCalls : answer[g] # 0}'
            = {g \in GuardedCalls : answer[g] # 0} \cup {calls}
      BY <1>1, <1>3, <2>6 DEF GuardedCalls
    <3> QED
      BY <1>1, <2>2, <2>3, <3>1 DEF AcceptedReplies, GuardedCalls
  <2>10. Rpc!Reply(calls)
    BY <1>1, <2>5, <2>6, <2>7, <2>8, <2>9 DEF Rpc!Reply, Outcomes
  <2> QED
    BY <1>1, <2>10 DEF Rpc!Next
<1> QED
  BY <1>2, <1>3

\* What the chip carries out under secure messaging is an execution.
LEMMA ExecuteExecutes ==
  ASSUME IInv, IInv', NEW c \in onWire, NEW status \in Status, ChipExecute(c, status)
  PROVE  [Rpc!Next]_Rpc!vars
<1>1. /\ c \in Call /\ Guarded(c)
      /\ executed' = Append(executed, c) /\ executed \in Seq(Call)
      /\ did' = [did EXCEPT ![c] = status]
      /\ UNCHANGED <<tag, answer, result>>
  BY DEF IInv, TypeOK, ChipExecute, Verifies, Guarded, readerVars
<1>2. GuardedCalls' = GuardedCalls /\ AcceptedReplies' = AcceptedReplies
  BY <1>1 DEF GuardedCalls, AcceptedReplies, Guarded
<1>3. Outcomes' = [Outcomes EXCEPT ![c] = status]
  BY <1>1 DEF Outcomes, Guarded, IInv, TypeOK
<1>4. \A i \in DOMAIN executed : executed[i] < c
  <2> SUFFICES ASSUME NEW i \in DOMAIN executed PROVE executed[i] < c
    OBVIOUS
  <2>1. /\ i \in DOMAIN executed' /\ Len(executed) + 1 \in DOMAIN executed'
        /\ i < Len(executed) + 1
        /\ executed'[i] = executed[i] /\ executed'[Len(executed) + 1] = c
    BY <1>1
  <2> QED
    BY <2>1 DEF IInv, Executed, InOrderOnce
<1>5. Rpc!Execute(c, status)
  BY <1>1, <1>2, <1>3, <1>4 DEF Rpc!Execute, Outcomes, GuardedCalls
<1> QED
  BY <1>1, <1>5 DEF Rpc!Next, Status

\* Every step is a step of the abstract call, or invisible to it.
LEMMA AbstractStep == IInv /\ IInv' /\ [Next]_vars => [Rpc!Next]_Rpc!vars
<1> SUFFICES ASSUME IInv, IInv', [Next]_vars PROVE [Rpc!Next]_Rpc!vars
  OBVIOUS
<1> USE DEF readerVars, chipVars
<1>1. ASSUME NEW start \in Starts, Establish(start) \/ EstablishFails(start)
      PROVE  [Rpc!Next]_Rpc!vars
  BY <1>1, Invisible DEF Establish, EstablishFails
<1>2. CASE ClearSm
  BY <1>2, Invisible DEF ClearSm
<1>3. CASE TransceiveCmd
  BY <1>3, CommandInvokes
<1>4. CASE ReturnTransport
  BY <1>4, Invisible DEF ReturnTransport, IInv, Outstanding, TypeOK
<1>5. ASSUME NEW status \in Status, ReturnBare(status) PROVE [Rpc!Next]_Rpc!vars
  BY <1>5, Invisible DEF ReturnBare, IInv, Outstanding, TypeOK
<1>6. ASSUME NEW r \in air \cup {Damaged}, NEW trailer \in Status, ReturnBody(r, trailer)
      PROVE  [Rpc!Next]_Rpc!vars
  BY <1>6, BodyReplies
<1>7. ASSUME NEW c \in onWire, ChipAbort(c) PROVE [Rpc!Next]_Rpc!vars
  BY <1>7, Invisible DEF ChipAbort
<1>8. ASSUME NEW c \in onWire, NEW status \in Status, ChipExecute(c, status)
      PROVE  [Rpc!Next]_Rpc!vars
  BY <1>8, ExecuteExecutes
<1>9. ASSUME NEW c \in onWire, NEW status \in Status, ChipPlain(c, status)
      PROVE  [Rpc!Next]_Rpc!vars
  BY <1>9, Invisible DEF ChipPlain, Guarded, IInv, TypeOK
<1>10. CASE UNCHANGED vars
  BY <1>10, Invisible DEF vars
<1> QED
  BY <1>1, <1>2, <1>3, <1>4, <1>5, <1>6, <1>7, <1>8, <1>9, <1>10 DEF Next, Reader, Chip

\* transceive_cmd under secure messaging is a call that is carried out at most
\* once, in order, and answered by its own reply or by none.
THEOREM Implements == Spec => ImplementsAtMostOnce
<1>1. Spec => Init /\ [][Next]_vars
  BY DEF Spec
<1> QED
  BY <1>1, AbstractInit, AbstractStep, Invariance, PTL DEF ImplementsAtMostOnce, Rpc!Spec
=============================================================================
