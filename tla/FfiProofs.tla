------------------------------ MODULE FfiProofs -------------------------------
(***************************************************************************)
(* The two ways across the C boundary: the safety invariants of Bridge,    *)
(* proved for any number of workers and of transceive calls, and what      *)
(* HostCall promises its Dart caller, proved for arguments, wallets and    *)
(* passports of any size.  The two share no state: each theorem is about   *)
(* the specification of one of them.                                       *)
(*                                                                         *)
(* Bridge.  None of its invariants is inductive alone.  The argument is    *)
(* about the sender: it is in one place at a time - in PENDING, in the     *)
(* hands of one supply call, or used up - and PENDING finds it only under  *)
(* the id its own exchange was given, which no other exchange is given.    *)
(*                                                                         *)
(* HostCall.  What Dart parses is what Rust rendered, because each reader  *)
(* undoes its writer: _decodeHex undoes hex, jsonDecode undoes quote, and  *)
(* so Parse undoes Render.  What Rust rendered is the verdict on what the  *)
(* caller gave, because the arguments survive the C strings and slices     *)
(* once the Dart side has refused those that would not.                    *)
(***************************************************************************)
EXTENDS Bridge, HostCall, FoldLemmas

-----------------------------------------------------------------------------
(* The bridge.                                                             *)

\* An id names one exchange; a call that has not begun has none.
Ids ==
  /\ \A a \in Apdu : stage[a] = "unused" <=> id[a] = 0
  /\ \A a, b \in Apdu : id[a] = id[b] /\ id[a] # 0 => a = b

\* PENDING keeps a sender under the id of its own exchange, until wait is done.
Entries ==
  \A p \in pending :
    /\ p.id = id[p.chan]
    /\ stage[p.chan] \in {"opened", "parked", "settled"}

\* The host knows an exchange only once it was posted.
Posted ==
  \A a \in Apdu :
    /\ host[a] # "none" => stage[a] \notin {"unused", "opened"}
    /\ host[a] = "posted" => buffer[a] = "live"

\* Whatever is on its way to a channel is the answer to its own exchange.
Own ==
  /\ \A c \in sending : c.answer \in {c.chan, Failed}
  /\ \A a \in Apdu : slot[a] \in {a, Failed, NoApdu}
  /\ \A a \in Apdu : outcome[a] \in {a, Failed, TimedOut, NoApdu}

\* The sender of an exchange is in one place.
OneSender ==
  /\ \A p \in pending : accepted[p.chan] = 0 /\ \A c \in sending : c.chan # p.chan
  /\ \A c \in sending : accepted[c.chan] = 0 /\ stage[c.chan] # "unused"
  /\ \A c, d \in sending : c.chan = d.chan => c = d
  /\ \A a \in Apdu : accepted[a] <= 1
  /\ \A a \in Apdu : stage[a] = "unused" => accepted[a] = 0
  /\ \A a \in Apdu : slot[a] # NoApdu => accepted[a] = 1

\* And it is not lost before the exchange is settled.
Accounted ==
  /\ \A a \in Apdu : outcome[a] \in Answer => accepted[a] = 1
  /\ \A a \in Apdu : stage[a] \in {"settled", "cleaned", "returned"} => outcome[a] # NoApdu
  /\ \A a \in Apdu : stage[a] # "unused" =>
       \/ accepted[a] > 0
       \/ outcome[a] = TimedOut
       \/ \E p \in pending : p.chan = a
       \/ \E c \in sending : c.chan = a
  /\ RefusedOnlyWhenSettled

IInv ==
  /\ TypeOK
  /\ Ids
  /\ Entries
  /\ Posted
  /\ Own
  /\ OneSender
  /\ Accounted

-----------------------------------------------------------------------------

\* The invariant holds before anything ran.
LEMMA Initially == Init => IInv
BY BridgeConstants DEF Init, IInv, TypeOK, Ids, Entries, Posted, Own, OneSender,
  Accounted, RefusedOnlyWhenSettled, Stage, Answer, Outcome

\* Every step of a worker and of the host keeps it.
LEMMA Inductive == IInv /\ [Next]_vars => IInv'
<1> SUFFICES ASSUME TypeOK, Ids, Entries, Posted, Own, OneSender, Accounted,
                    [Next]_vars
             PROVE  IInv'
  BY DEF IInv
<1> USE BridgeConstants DEF Stage, Answer, Outcome, workerVars, hostVars, replyVars
<1>1. ASSUME NEW w \in Worker, NEW a \in Apdu, Open(w, a) PROVE IInv'
  <2> USE DEF Open, Without
  <2>0. Open(w, a)
    BY <1>1
  <2>1. TypeOK'
    BY <2>0 DEF TypeOK
  <2>2. Ids'
    BY <2>0 DEF Ids, TypeOK
  <2>3. Entries'
    BY <2>0 DEF Entries, Ids, TypeOK
  <2>4. Posted'
    BY <2>0 DEF Posted, TypeOK
  <2>5. Own'
    BY <2>0 DEF Own, TypeOK
  <2>6. OneSender'
    BY <2>0 DEF OneSender, Entries, Ids, TypeOK
  <2>7. Accounted'
    <3>1. Without(next) = pending
      BY DEF Entries, TypeOK, Without
    <3>2. [id |-> next, chan |-> a] \in pending'
      BY <2>0
    <3>3. ASSUME NEW b \in Apdu, stage'[b] # "unused"
          PROVE  \/ accepted'[b] > 0
                 \/ outcome'[b] = TimedOut
                 \/ \E p \in pending' : p.chan = b
                 \/ \E c \in sending' : c.chan = b
      <4>1. CASE b = a
        BY <3>2, <4>1
      <4>2. CASE b # a
        BY <2>0, <3>1, <3>3, <4>2 DEF Accounted, TypeOK
      <4> QED
        BY <4>1, <4>2
    <3> QED
      BY <2>0, <3>3 DEF Accounted, RefusedOnlyWhenSettled, TypeOK
  <2> QED
    BY <2>1, <2>2, <2>3, <2>4, <2>5, <2>6, <2>7 DEF IInv
<1>2. ASSUME NEW w \in Worker, NEW a \in Apdu, Post(w, a) PROVE IInv'
  <2> USE DEF Post
  <2>0. Post(w, a)
    BY <1>2
  <2>1. TypeOK'
    BY <2>0 DEF TypeOK
  <2>2. Ids'
    BY <2>0 DEF Ids, TypeOK
  <2>3. Entries'
    BY <2>0 DEF Entries, Ids, TypeOK
  <2>4. Posted'
    BY <2>0 DEF Posted, TypeOK
  <2>5. Own'
    BY <2>0 DEF Own, TypeOK
  <2>6. OneSender'
    BY <2>0 DEF OneSender, Entries, Ids, TypeOK
  <2>7. Accounted'
    BY <2>0 DEF Accounted, RefusedOnlyWhenSettled, OneSender, Entries, Ids, TypeOK
  <2> QED
    BY <2>1, <2>2, <2>3, <2>4, <2>5, <2>6, <2>7 DEF IInv
<1>3. ASSUME NEW w \in Worker, NEW a \in Apdu, Receive(w, a) PROVE IInv'
  <2> USE DEF Receive
  <2>0. Receive(w, a)
    BY <1>3
  <2>1. TypeOK'
    BY <2>0 DEF TypeOK
  <2>2. Ids'
    BY <2>0 DEF Ids, TypeOK
  <2>3. Entries'
    BY <2>0 DEF Entries, Ids, TypeOK
  <2>4. Posted'
    BY <2>0 DEF Posted, TypeOK
  <2>5. Own'
    BY <2>0 DEF Own, TypeOK
  <2>6. OneSender'
    BY <2>0 DEF OneSender, Entries, Ids, TypeOK
  <2>7. Accounted'
    BY <2>0 DEF Accounted, RefusedOnlyWhenSettled, OneSender, Entries, Ids, TypeOK
  <2> QED
    BY <2>1, <2>2, <2>3, <2>4, <2>5, <2>6, <2>7 DEF IInv
<1>4. ASSUME NEW w \in Worker, NEW a \in Apdu, Timeout(w, a) PROVE IInv'
  <2> USE DEF Timeout
  <2>0. Timeout(w, a)
    BY <1>4
  <2>1. TypeOK'
    BY <2>0 DEF TypeOK
  <2>2. Ids'
    BY <2>0 DEF Ids, TypeOK
  <2>3. Entries'
    BY <2>0 DEF Entries, Ids, TypeOK
  <2>4. Posted'
    BY <2>0 DEF Posted, TypeOK
  <2>5. Own'
    BY <2>0 DEF Own, TypeOK
  <2>6. OneSender'
    BY <2>0 DEF OneSender, Entries, Ids, TypeOK
  <2>7. Accounted'
    BY <2>0 DEF Accounted, RefusedOnlyWhenSettled, OneSender, Entries, Ids, TypeOK
  <2> QED
    BY <2>1, <2>2, <2>3, <2>4, <2>5, <2>6, <2>7 DEF IInv
<1>5. ASSUME NEW w \in Worker, NEW a \in Apdu, Cleanup(w, a) PROVE IInv'
  <2> USE DEF Cleanup, Without
  <2>0. Cleanup(w, a)
    BY <1>5
  <2>1. TypeOK'
    BY <2>0 DEF TypeOK
  <2>2. Ids'
    BY <2>0 DEF Ids, TypeOK
  <2>3. Entries'
    BY <2>0 DEF Entries, Ids, TypeOK
  <2>4. Posted'
    BY <2>0 DEF Posted, TypeOK
  <2>5. Own'
    BY <2>0 DEF Own, TypeOK
  <2>6. OneSender'
    BY <2>0 DEF OneSender, Entries, Ids, TypeOK
  <2>7. Accounted'
    BY <2>0 DEF Accounted, RefusedOnlyWhenSettled, OneSender, Entries, Ids, TypeOK
  <2> QED
    BY <2>1, <2>2, <2>3, <2>4, <2>5, <2>6, <2>7 DEF IInv
<1>6. ASSUME NEW w \in Worker, NEW a \in Apdu, Return(w, a) PROVE IInv'
  <2> USE DEF Return
  <2>0. Return(w, a)
    BY <1>6
  <2>1. TypeOK'
    BY <2>0 DEF TypeOK
  <2>2. Ids'
    BY <2>0 DEF Ids, TypeOK
  <2>3. Entries'
    BY <2>0 DEF Entries, Ids, TypeOK
  <2>4. Posted'
    BY <2>0 DEF Posted, TypeOK
  <2>5. Own'
    BY <2>0 DEF Own, TypeOK
  <2>6. OneSender'
    BY <2>0 DEF OneSender, Entries, Ids, TypeOK
  <2>7. Accounted'
    BY <2>0 DEF Accounted, RefusedOnlyWhenSettled, OneSender, Entries, Ids, TypeOK
  <2> QED
    BY <2>1, <2>2, <2>3, <2>4, <2>5, <2>6, <2>7 DEF IInv
<1>7. ASSUME NEW a \in Apdu, CopyAndFree(a) PROVE IInv'
  <2> USE DEF CopyAndFree
  <2>0. CopyAndFree(a)
    BY <1>7
  <2>1. TypeOK'
    BY <2>0 DEF TypeOK
  <2>2. Ids'
    BY <2>0 DEF Ids, TypeOK
  <2>3. Entries'
    BY <2>0 DEF Entries, Ids, TypeOK
  <2>4. Posted'
    BY <2>0 DEF Posted, TypeOK
  <2>5. Own'
    BY <2>0 DEF Own, TypeOK
  <2>6. OneSender'
    BY <2>0 DEF OneSender, Entries, Ids, TypeOK
  <2>7. Accounted'
    BY <2>0 DEF Accounted, RefusedOnlyWhenSettled, OneSender, Entries, Ids, TypeOK
  <2> QED
    BY <2>1, <2>2, <2>3, <2>4, <2>5, <2>6, <2>7 DEF IInv
<1>8. ASSUME NEW a \in Apdu, NEW reply \in {a, Failed}, Supply(a, reply) PROVE IInv'
  <2> USE DEF Supply, Without
  <2>0. Supply(a, reply)
    BY <1>8
  <2>8. PICK p \in pending : /\ p.id = id[a]
                            /\ pending' = Without(id[a])
                            /\ sending' = sending \cup {[chan |-> p.chan, answer |-> reply]}
    BY <2>0
  <2>9. p.chan = a
    BY <2>0, <2>8 DEF Entries, Ids, Posted, TypeOK
  <2>1. TypeOK'
    BY <2>0, <2>8, <2>9 DEF TypeOK
  <2>2. Ids'
    BY <2>0, <2>8, <2>9 DEF Ids, TypeOK
  <2>3. Entries'
    BY <2>0, <2>8, <2>9 DEF Entries, Ids, TypeOK
  <2>4. Posted'
    BY <2>0, <2>8, <2>9 DEF Posted, TypeOK
  <2>5. Own'
    BY <2>0, <2>8, <2>9 DEF Own, TypeOK
  <2>6. OneSender'
    BY <2>0, <2>8, <2>9 DEF OneSender, Entries, Ids, TypeOK
  <2>7. Accounted'
    <3>1. [chan |-> a, answer |-> reply] \in sending'
      BY <2>8, <2>9
    <3>2. sending \subseteq sending'
      BY <2>8
    <3>3. ASSUME NEW b \in Apdu, stage[b] # "unused"
          PROVE  \/ accepted[b] > 0
                 \/ outcome[b] = TimedOut
                 \/ \E r \in pending' : r.chan = b
                 \/ \E c \in sending' : c.chan = b
      <4>1. CASE b = a
        BY <3>1, <4>1
      <4>2. CASE \E r \in pending : r.chan = b /\ b # a
        BY <2>8, <3>3, <4>2 DEF Entries, Ids
      <4>3. CASE \A r \in pending : r.chan # b
        BY <3>2, <3>3, <4>3 DEF Accounted
      <4> QED
        BY <4>1, <4>2, <4>3
    <3>4. UNCHANGED <<stage, outcome, accepted, refused>>
      BY <2>0
    <3>5. RefusedOnlyWhenSettled'
      BY <3>2, <3>4 DEF Accounted, RefusedOnlyWhenSettled
    <3> QED
      BY <3>3, <3>4, <3>5 DEF Accounted
  <2> QED
    BY <2>1, <2>2, <2>3, <2>4, <2>5, <2>6, <2>7 DEF IInv
<1>9. ASSUME NEW a \in Apdu, SupplyUnknown(a) PROVE IInv'
  <2> USE DEF SupplyUnknown
  <2>0. SupplyUnknown(a)
    BY <1>9
  <2>1. TypeOK'
    BY <2>0 DEF TypeOK
  <2>2. Ids'
    BY <2>0 DEF Ids, TypeOK
  <2>3. Entries'
    BY <2>0 DEF Entries, Ids, TypeOK
  <2>4. Posted'
    BY <2>0 DEF Posted, TypeOK
  <2>5. Own'
    BY <2>0 DEF Own, TypeOK
  <2>6. OneSender'
    BY <2>0 DEF OneSender, Entries, Ids, TypeOK
  <2>7. Accounted'
    <3>1. stage[a] # "unused"
      BY <2>0 DEF Posted
    <3>2. \A p \in pending : p.chan # a
      BY <2>0 DEF Entries
    <3>3. accepted[a] > 0 \/ outcome[a] = TimedOut \/ \E c \in sending : c.chan = a
      BY <3>1, <3>2 DEF Accounted
    <3>4. \A b \in Apdu : refused'[b] => b = a \/ refused[b]
      BY <2>0 DEF TypeOK
    <3> QED
      BY <2>0, <3>3, <3>4 DEF Accounted, RefusedOnlyWhenSettled
  <2> QED
    BY <2>1, <2>2, <2>3, <2>4, <2>5, <2>6, <2>7 DEF IInv
<1>10. ASSUME NEW reply \in sending, Send(reply) PROVE IInv'
  <2> USE DEF Send, ReceiverAlive
  <2>0. Send(reply)
    BY <1>10
  <2>1. TypeOK'
    BY <2>0 DEF TypeOK
  <2>2. Ids'
    BY <2>0 DEF Ids, TypeOK
  <2>3. Entries'
    BY <2>0 DEF Entries, Ids, TypeOK
  <2>4. Posted'
    BY <2>0 DEF Posted, TypeOK
  <2>5. Own'
    BY <2>0 DEF Own, TypeOK
  <2>6. OneSender'
    BY <2>0 DEF OneSender, Entries, Ids, TypeOK
  <2>7. Accounted'
    BY <2>0 DEF Accounted, RefusedOnlyWhenSettled, OneSender, Entries, Ids, TypeOK
  <2> QED
    BY <2>1, <2>2, <2>3, <2>4, <2>5, <2>6, <2>7 DEF IInv
<1>11. ASSUME NEW reply \in sending, SendTooLate(reply) PROVE IInv'
  <2> USE DEF SendTooLate, ReceiverAlive
  <2>0. SendTooLate(reply)
    BY <1>11
  <2>1. TypeOK'
    BY <2>0 DEF TypeOK
  <2>2. Ids'
    BY <2>0 DEF Ids, TypeOK
  <2>3. Entries'
    BY <2>0 DEF Entries, Ids, TypeOK
  <2>4. Posted'
    BY <2>0 DEF Posted, TypeOK
  <2>5. Own'
    BY <2>0 DEF Own, TypeOK
  <2>6. OneSender'
    BY <2>0 DEF OneSender, Entries, Ids, TypeOK
  <2>7. Accounted'
    BY <2>0 DEF Accounted, RefusedOnlyWhenSettled, OneSender, Entries, Ids, TypeOK
  <2> QED
    BY <2>1, <2>2, <2>3, <2>4, <2>5, <2>6, <2>7 DEF IInv
<1>12. CASE UNCHANGED vars
  BY <1>12 DEF IInv, TypeOK, Ids, Entries, Posted, Own, OneSender, Accounted,
    RefusedOnlyWhenSettled, vars
<1> QED
  BY <1>1, <1>2, <1>3, <1>4, <1>5, <1>6, <1>7, <1>8, <1>9, <1>10, <1>11, <1>12
  DEF Next, HostStep, WorkerStep

\* So it holds in every behaviour of the bridge.
THEOREM Invariance == Spec => []IInv
<1> QED
  BY Initially, Inductive, PTL DEF Spec

-----------------------------------------------------------------------------

\* Type correctness; in particular no id has been given that next has yet to
\* reach.
THEOREM TypeCorrect == Spec => []TypeOK
<1>1. IInv => TypeOK
  BY DEF IInv
<1> QED
  BY <1>1, Invariance, PTL

\* A worker is handed the answer to its own APDU (bridge.rs, supply and wait),
\* however late or often the host answers.
THEOREM AnswersAreOwn == Spec => []OwnAnswer
<1>1. IInv => OwnAnswer
  BY DEF IInv, Own, OwnAnswer
<1> QED
  BY <1>1, Invariance, PTL

\* supply returns true at most once per exchange.
THEOREM AnsweredOnce == Spec => []AcceptedOnce
<1>1. IInv => AcceptedOnce
  BY DEF IInv, OneSender, AcceptedOnce
<1> QED
  BY <1>1, Invariance, PTL

\* The send in supply finds the one-slot channel empty, and so never blocks
\* the host's thread.
THEOREM SendNeverBlocks == Spec => []HostNeverBlocks
<1>1. IInv => HostNeverBlocks
  <2> SUFFICES ASSUME IInv, NEW c \in sending
               PROVE  /\ slot[c.chan] = NoApdu
                      /\ \A d \in sending : d.chan = c.chan => d = c
    BY DEF HostNeverBlocks
  <2>1. c.chan \in Apdu
    BY DEF IInv, TypeOK
  <2> QED
    BY <2>1 DEF IInv, OneSender
<1> QED
  BY <1>1, Invariance, PTL

\* A first answer in time is never refused.
THEOREM TimelyAnswersTaken == Spec => []RefusedOnlyWhenSettled
<1>1. IInv => RefusedOnlyWhenSettled
  BY DEF IInv, Accounted
<1> QED
  BY <1>1, Invariance, PTL

\* wait leaves nothing in PENDING behind it, whichever way it ends.
THEOREM NothingLeftPending == Spec => []NoStaleEntry
<1>1. IInv => NoStaleEntry
  BY DEF IInv, Entries, NoStaleEntry
<1> QED
  BY <1>1, Invariance, PTL

\* The buffer given to the host is live whenever its callback runs.
THEOREM BufferStaysLive == Spec => []BufferOutlivesWait
<1>1. IInv => BufferOutlivesWait
  BY DEF IInv, Posted, BufferOutlivesWait
<1> QED
  BY <1>1, Invariance, PTL

-----------------------------------------------------------------------------
(* Hexadecimal digits.                                                     *)

\* Even and odd numbers.
LEMMA Halves ==
  ASSUME NEW q \in Nat
  PROVE  /\ (2 * q) \div 2 = q /\ (2 * q) % 2 = 0
         /\ (2 * q + 1) \div 2 = q /\ (2 * q + 1) % 2 = 1
<1>1. (2 * q) \div 2 = q
  OBVIOUS
<1>2. (2 * q) % 2 = 0
  OBVIOUS
<1>3. (2 * q + 1) \div 2 = q
  OBVIOUS
<1>4. (2 * q + 1) % 2 = 1
  OBVIOUS
<1> QED
  BY <1>1, <1>2, <1>3, <1>4

\* The byte that a digit is of.
LEMMA HalfWay ==
  ASSUME NEW n \in Nat, NEW i \in 1 .. 2 * n
  PROVE  (i + 1) \div 2 \in 1 .. n
<1>1. (i + 1) \div 2 \in Int
  OBVIOUS
<1>2. 2 * ((i + 1) \div 2) <= i + 1
  OBVIOUS
<1>3. i + 1 < 2 * ((i + 1) \div 2) + 2
  OBVIOUS
<1> DEFINE q == (i + 1) \div 2
<1> HIDE DEF q
<1>4. q \in 1 .. n
  BY <1>1, <1>2, <1>3 DEF q
<1> QED
  BY <1>4 DEF q

\* The two digits of a byte.
LEMMA Sixteenths ==
  ASSUME NEW k \in 0 .. 255
  PROVE  k \div 16 \in 0 .. 15 /\ k % 16 \in 0 .. 15 /\ (k \div 16) * 16 + (k % 16) = k
<1>1. k \div 16 \in 0 .. 15
  OBVIOUS
<1>2. k % 16 = k - 16 * (k \div 16)
  OBVIOUS
<1>3. k % 16 \in 0 .. 15
  OBVIOUS
<1> DEFINE q == k \div 16
           r == k % 16
<1>4. q * 16 + r = k
  <2> HIDE DEF q, r
  <2> QED
    BY <1>1, <1>2 DEF q, r
<1> QED
  BY <1>1, <1>3, <1>4

\* A hexadecimal digit is read as what it was written for.
LEMMA DigitIsRead ==
  ASSUME NEW n \in 0 .. 15
  PROVE  Digit(n) \in Nat /\ Nibble(Digit(n)) = Some(n)
BY DEF Digit, Nibble

\* What hex writes, _decodeHex reads.
LEMMA HexIsRead ==
  ASSUME NEW bytes \in Bytes
  PROVE  DecodeHex(Hex(bytes)) = Some(bytes)
<1> DEFINE n == Len(bytes)
           text == Hex(bytes)
<1>1. n \in Nat /\ (\A i \in 1 .. n : bytes[i] \in 0 .. 255) /\ bytes = [i \in 1 .. n |-> bytes[i]]
  BY LenProperties, ElementOfSeq DEF Bytes
<1>2. /\ DOMAIN text = 1 .. 2 * n
      /\ Len(text) = 2 * n
  BY <1>1 DEF Hex
<1>3. ASSUME NEW i \in 1 .. 2 * n PROVE Has(Nibble(text[i]))
  <2> DEFINE byte == bytes[(i + 1) \div 2]
  <2>1. (i + 1) \div 2 \in 1 .. n
    BY <1>1, HalfWay
  <2>2. byte \in 0 .. 255
    BY <1>1, <2>1
  <2>3. byte \div 16 \in 0 .. 15 /\ byte % 16 \in 0 .. 15
    BY <2>2, Sixteenths
  <2>4. text[i] = Digit(IF i % 2 = 1 THEN byte \div 16 ELSE byte % 16)
    BY DEF Hex
  <2>5. PICK k \in 0 .. 15 : text[i] = Digit(k)
    BY <2>3, <2>4
  <2>6. Nibble(text[i]) = Some(k)
    BY <2>5, DigitIsRead
  <2> QED
    BY <2>6 DEF Some, None, Has
<1>4. ASSUME NEW i \in 1 .. n
      PROVE  Nibble(text[2 * i - 1])[1] * 16 + Nibble(text[2 * i])[1] = bytes[i]
  <2>1. /\ 2 * i - 1 \in 1 .. 2 * n /\ (2 * i - 1) % 2 = 1 /\ ((2 * i - 1) + 1) \div 2 = i
        /\ 2 * i \in 1 .. 2 * n /\ (2 * i) % 2 = 0 /\ (2 * i + 1) \div 2 = i
    <3>1. (2 * i - 1) + 1 = 2 * i /\ 2 * i - 1 = 2 * (i - 1) + 1 /\ i - 1 \in Nat
      BY <1>1
    <3>2. (2 * (i - 1) + 1) % 2 = 1
      BY <3>1, Halves
    <3>3. (2 * i) % 2 = 0 /\ (2 * i) \div 2 = i /\ (2 * i + 1) \div 2 = i
      BY <1>1, Halves
    <3>4. 2 * i - 1 \in 1 .. 2 * n /\ 2 * i \in 1 .. 2 * n
      BY <1>1
    <3>5. (2 * i - 1) % 2 = 1 /\ ((2 * i - 1) + 1) \div 2 = i
      BY <3>1, <3>2, <3>3
    <3> QED
      BY <3>3, <3>4, <3>5
  <2>2. bytes[i] \in 0 .. 255
    BY <1>1
  <2> DEFINE high == bytes[i] \div 16
             low == bytes[i] % 16
  <2>3. high \in 0 .. 15 /\ low \in 0 .. 15 /\ high * 16 + low = bytes[i]
    BY <2>2, Sixteenths
  <2>4. text[2 * i - 1] = Digit(high)
    BY <2>1 DEF Hex
  <2>5. text[2 * i] = Digit(low)
    BY <2>1 DEF Hex
  <2>6. Nibble(Digit(high)) = Some(high) /\ Nibble(Digit(low)) = Some(low)
    <3> HIDE DEF high, low
    <3> QED
      BY <2>3, DigitIsRead
  <2>7. Some(high)[1] = high /\ Some(low)[1] = low
    BY DEF Some
  <2> QED
    BY <2>3, <2>4, <2>5, <2>6, <2>7
<1>5. (2 * n) % 2 = 0 /\ (2 * n) \div 2 = n
  BY <1>1, Halves
<1>6. DecodeHex(text) = Some([i \in 1 .. n |-> Nibble(text[2 * i - 1])[1] * 16 + Nibble(text[2 * i])[1]])
  <2> HIDE DEF text, n
  <2> QED
    <3>1. ~ (Len(text) % 2 = 1) /\ ~ (\E i \in DOMAIN text : ~Has(Nibble(text[i])))
      BY <1>2, <1>3, <1>5
    <3>2. DecodeHex(text) = Some([i \in 1 .. (Len(text) \div 2) |->
                                   Nibble(text[2 * i - 1])[1] * 16 + Nibble(text[2 * i])[1]])
      BY <3>1 DEF DecodeHex
    <3>3. Len(text) \div 2 = n
      BY <1>2, <1>5
    <3> QED
      BY <3>2, <3>3
<1>7. [i \in 1 .. n |-> Nibble(text[2 * i - 1])[1] * 16 + Nibble(text[2 * i])[1]] = [i \in 1 .. n |-> bytes[i]]
  <2> HIDE DEF text, n
  <2> QED
    BY <1>4
<1> QED
  BY <1>1, <1>6, <1>7

-----------------------------------------------------------------------------
(* JSON strings.                                                           *)

\* What a hexadecimal digit is read as.
LEMMA NibbleIsNumber ==
  ASSUME NEW c \in Nat, Has(Nibble(c))
  PROVE  Nibble(c)[1] \in Nat
<1>1. CASE c \in 48 .. 57
  BY <1>1 DEF Nibble, Some
<1>2. CASE c \in 97 .. 102
  BY <1>2 DEF Nibble, Some
<1>3. CASE c \in 65 .. 70
  BY <1>3 DEF Nibble, Some
<1>4. CASE c \notin (48 .. 57) \cup (97 .. 102) \cup (65 .. 70)
  BY <1>4 DEF Nibble, None, Has
<1> QED
  BY <1>1, <1>2, <1>3, <1>4

\* What a short escape is read as.
LEMMA ShortIsNumber ==
  ASSUME NEW c \in Nat, Has(Short(c))
  PROVE  Short(c)[1] \in Nat
<1>1. CASE c \in {34, 92}
  BY <1>1 DEF Short, Some
<1>2. CASE c = 110 \/ c = 114 \/ c = 116
  BY <1>2 DEF Short, Some
<1>3. CASE c \notin {34, 92, 110, 114, 116}
  BY <1>3 DEF Short, None, Has
<1> QED
  BY <1>1, <1>2, <1>3

\* The states of the reader of strings,
LEMMA StatesAre ==
  ASSUME NEW text \in Seq(Nat), NEW mode \in {"plain", "escape", "hex", "bad"}, NEW due \in 0 .. 4, NEW code \in Nat
  PROVE  Reading(text, mode, due, code) \in JsonState
BY DEF Reading, JsonState

\* which it does not leave,
LEMMA StateKept ==
  ASSUME NEW st \in JsonState, NEW c \in Nat
  PROVE  ReadNext(st, c) \in JsonState
<1> DEFINE text == st.text
           due == st.due
           code == st.code
<1>1. text \in Seq(Nat) /\ due \in 0 .. 4 /\ code \in Nat /\ st.mode \in {"plain", "escape", "hex", "bad"}
  BY DEF JsonState
<1> HIDE DEF text, due, code
<1>2. \A d \in Nat : Take(text, d) \in JsonState
  <2> SUFFICES ASSUME NEW d \in Nat PROVE Take(text, d) \in JsonState
    OBVIOUS
  <2> DEFINE longer == Append(text, d)
  <2>1. longer \in Seq(Nat)
    BY <1>1
  <2>2. Reading(longer, "plain", 0, 0) \in JsonState
    <3> HIDE DEF longer
    <3> QED
      BY <2>1, StatesAre
  <2> QED
    BY <2>2 DEF Take
<1>3. Bad(text) \in JsonState
  BY <1>1, StatesAre DEF Bad
<1>4. ReadPlain(text, c) \in JsonState
  BY <1>1, <1>2, <1>3, StatesAre DEF ReadPlain
<1>5. ReadEscape(text, c) \in JsonState
  <2>1. Reading(text, "hex", 4, 0) \in JsonState
    BY <1>1, StatesAre
  <2> QED
    BY <1>2, <1>3, <2>1, ShortIsNumber DEF ReadEscape
<1>6. ReadHex(text, due, code, c) \in JsonState
  <2>1. CASE ~Has(Nibble(c))
    BY <1>3, <2>1 DEF ReadHex
  <2>2. CASE Has(Nibble(c))
    <3> DEFINE sum == code * 16 + Nibble(c)[1]
    <3>1. sum \in Nat
      BY <1>1, <2>2, NibbleIsNumber
    <3>2. ReadHex(text, due, code, c) = IF due > 1 THEN Reading(text, "hex", due - 1, sum) ELSE Take(text, sum)
      BY <2>2 DEF ReadHex
    <3> HIDE DEF sum
    <3>3. due > 1 => due - 1 \in 0 .. 4
      BY <1>1
    <3> QED
      BY <1>1, <1>2, <3>1, <3>2, <3>3, StatesAre
  <2> QED
    BY <2>1, <2>2
<1> QED
  BY <1>1, <1>4, <1>5, <1>6 DEF ReadNext, text, due, code

\* whatever it is fed,
LEMMA JsonIsStep == IsStep(JsonStep, JsonState, Nat)
<1>1. \A st \in JsonState : [c \in Nat |-> ReadNext(st, c)] \in [Nat -> JsonState]
  BY StateKept
<1> QED
  BY <1>1 DEF IsStep, JsonStep

\* a character at a time.
LEMMA JsonSteps ==
  ASSUME NEW st \in JsonState, NEW c \in Nat
  PROVE  JsonStep[st][c] = ReadNext(st, c)
BY DEF JsonStep

\* The reader of strings over a text.
Fed(st, s) == FoldOver(JsonStep, st, s)

\* Feeding it one character,
LEMMA FedOne ==
  ASSUME NEW st \in JsonState, NEW c \in Nat
  PROVE  Fed(st, <<c>>) = ReadNext(st, c)
BY JsonIsStep, JsonSteps, FoldOverOne DEF Fed

\* and one character more.
LEMMA FedMore ==
  ASSUME NEW st \in JsonState, NEW s \in Seq(Nat), NEW c \in Nat
  PROVE  Fed(st, Append(s, c)) = ReadNext(Fed(st, s), c)
<1>1. FoldOver(JsonStep, st, s) \in JsonState
  BY JsonIsStep, FoldOverAppend
<1>2. FoldOver(JsonStep, st, Append(s, c)) = JsonStep[FoldOver(JsonStep, st, s)][c]
  BY JsonIsStep, FoldOverAppend
<1> QED
  BY <1>1, <1>2, JsonSteps DEF Fed

\* What the reader does with the next character is told by its mode.
LEMMA Modes ==
  ASSUME NEW text, NEW due, NEW code, NEW c
  PROVE  /\ ReadNext(Reading(text, "plain", due, code), c) = ReadPlain(text, c)
         /\ ReadNext(Reading(text, "escape", due, code), c) = ReadEscape(text, c)
         /\ ReadNext(Reading(text, "hex", due, code), c) = ReadHex(text, due, code, c)
BY DEF ReadNext, Reading

\* What quote writes for a character, a JSON reader takes for that character.
LEMMA EscapeIsRead ==
  ASSUME NEW text \in Seq(Nat), NEW c \in Nat
  PROVE  /\ Escaped(c) \in Seq(Nat)
         /\ Fed(Reading(text, "plain", 0, 0), Escaped(c)) = Take(text, c)
<1> DEFINE st == Reading(text, "plain", 0, 0)
<1>0. st \in JsonState
  BY StatesAre
<1>1. ASSUME c >= 32, c \notin {34, 92}
      PROVE  Escaped(c) \in Seq(Nat) /\ Fed(st, Escaped(c)) = Take(text, c)
  <2>1. Escaped(c) = <<c>>
    BY <1>1 DEF Escaped
  <2>2. Fed(st, <<c>>) = ReadPlain(text, c)
    BY <1>0, FedOne, Modes
  <2>3. ReadPlain(text, c) = Take(text, c)
    BY <1>1 DEF ReadPlain
  <2> QED
    BY <2>1, <2>2, <2>3
<1>2. ASSUME NEW d \in Nat, Escaped(c) = <<92, d>>, Short(d) = Some(c)
      PROVE  Escaped(c) \in Seq(Nat) /\ Fed(st, Escaped(c)) = Take(text, c)
  <2>1. Fed(st, <<92>>) = Reading(text, "escape", 0, 0)
    BY <1>0, FedOne, Modes DEF ReadPlain
  <2>2. <<92>> \in Seq(Nat) /\ <<92, d>> \in Seq(Nat) /\ <<92, d>> = Append(<<92>>, d)
    OBVIOUS
  <2>3. Fed(st, Append(<<92>>, d)) = ReadNext(Fed(st, <<92>>), d)
    BY <1>0, <2>2, FedMore
  <2>4. ReadNext(Reading(text, "escape", 0, 0), d) = ReadEscape(text, d)
    BY Modes
  <2>5. ReadEscape(text, d) = Take(text, c)
    BY <1>2 DEF ReadEscape, Has, Some, None
  <2> QED
    BY <1>2, <2>1, <2>2, <2>3, <2>4, <2>5
<1>3. ASSUME c < 32, c \notin {9, 10, 13}
      PROVE  Escaped(c) \in Seq(Nat) /\ Fed(st, Escaped(c)) = Take(text, c)
  <2> DEFINE high == c \div 16
             low == c % 16
             h == Digit(high)
             l == Digit(low)
  <2>1. high \in 0 .. 15 /\ low \in 0 .. 15 /\ high * 16 + low = c
    BY <1>3, Sixteenths
  <2>2. Escaped(c) = <<92, 117, 48, 48, h, l>>
    BY <1>3 DEF Escaped
  <2>3. h \in Nat /\ Nibble(h) = Some(high) /\ l \in Nat /\ Nibble(l) = Some(low)
    <3> HIDE DEF high, low
    <3> QED
      BY <2>1, DigitIsRead
  <2> HIDE DEF h, l, high, low
  <2> DEFINE s1 == <<92>>
             s2 == Append(s1, 117)
             s3 == Append(s2, 48)
             s4 == Append(s3, 48)
             s5 == Append(s4, h)
             s6 == Append(s5, l)
  <2>4. s1 \in Seq(Nat) /\ s2 \in Seq(Nat) /\ s3 \in Seq(Nat) /\ s4 \in Seq(Nat) /\ s5 \in Seq(Nat) /\ s6 \in Seq(Nat)
    BY <2>3
  <2>5. Escaped(c) = s6
    BY <2>2
  <2>6. Fed(st, s1) = Reading(text, "escape", 0, 0)
    BY <1>0, FedOne, Modes DEF ReadPlain
  <2>7. /\ Has(Nibble(48)) /\ Nibble(48)[1] = 0
        /\ Has(Nibble(h)) /\ Nibble(h)[1] = high
        /\ Has(Nibble(l)) /\ Nibble(l)[1] = low
    <3>1. Nibble(48) = Some(0)
      BY DEF Nibble
    <3> QED
      BY <2>3, <3>1 DEF Has, Some, None
  <2> HIDE DEF s1, st
  <2>8. Fed(st, s2) = Reading(text, "hex", 4, 0)
    <3>1. Fed(st, s2) = ReadNext(Fed(st, s1), 117)
      BY <1>0, <2>4, FedMore
    <3>2. ~Has(Short(117))
      BY DEF Has, Short, None
    <3>3. ReadEscape(text, 117) = Reading(text, "hex", 4, 0)
      BY <3>2 DEF ReadEscape
    <3> QED
      BY <2>6, <3>1, <3>3, Modes
  <2> HIDE DEF s2
  <2>9. Fed(st, s3) = Reading(text, "hex", 3, 0)
    <3>1. Fed(st, s3) = ReadNext(Fed(st, s2), 48)
      BY <1>0, <2>4, FedMore
    <3>2. ReadHex(text, 4, 0, 48) = Reading(text, "hex", 3, 0)
      BY <2>7 DEF ReadHex
    <3> QED
      BY <2>8, <3>1, <3>2, Modes
  <2> HIDE DEF s3
  <2>10. Fed(st, s4) = Reading(text, "hex", 2, 0)
    <3>1. Fed(st, s4) = ReadNext(Fed(st, s3), 48)
      BY <1>0, <2>4, FedMore
    <3>2. ReadHex(text, 3, 0, 48) = Reading(text, "hex", 2, 0)
      BY <2>7 DEF ReadHex
    <3> QED
      BY <2>9, <3>1, <3>2, Modes
  <2> HIDE DEF s4
  <2>11. Fed(st, s5) = Reading(text, "hex", 1, high)
    <3>1. Fed(st, s5) = ReadNext(Fed(st, s4), h)
      BY <1>0, <2>3, <2>4, FedMore
    <3>2. ReadHex(text, 2, 0, h) = Reading(text, "hex", 1, high)
      BY <2>1, <2>7 DEF ReadHex
    <3> QED
      BY <2>10, <3>1, <3>2, Modes
  <2> HIDE DEF s5
  <2>12. Fed(st, s6) = Take(text, c)
    <3>1. Fed(st, s6) = ReadNext(Fed(st, s5), l)
      BY <1>0, <2>3, <2>4, FedMore
    <3>2. ReadHex(text, 1, high, l) = Take(text, high * 16 + low)
      BY <2>1, <2>7 DEF ReadHex
    <3> QED
      BY <2>1, <2>11, <3>1, <3>2, Modes
  <2> HIDE DEF s6
  <2> QED
    BY <2>4, <2>5, <2>12
<1>4. CASE c \in {9, 10, 13, 34, 92}
  <2>1. \E d \in Nat : Escaped(c) = <<92, d>> /\ Short(d) = Some(c)
    <3>1. CASE c = 9
      <4>1. Escaped(c) = <<92, 116>> /\ Short(116) = Some(9)
        BY <3>1 DEF Escaped, Short
      <4> QED
        BY <3>1, <4>1
    <3>2. CASE c = 10
      <4>1. Escaped(c) = <<92, 110>> /\ Short(110) = Some(10)
        BY <3>2 DEF Escaped, Short
      <4> QED
        BY <3>2, <4>1
    <3>3. CASE c = 13
      <4>1. Escaped(c) = <<92, 114>> /\ Short(114) = Some(13)
        BY <3>3 DEF Escaped, Short
      <4> QED
        BY <3>3, <4>1
    <3>4. CASE c \in {34, 92}
      <4>1. Escaped(34) = <<92, 34>> /\ Escaped(92) = <<92, 92>>
        BY DEF Escaped
      <4>2. Short(c) = Some(c)
        BY <3>4 DEF Short
      <4> QED
        BY <3>4, <4>1, <4>2
    <3> QED
      BY <1>4, <3>1, <3>2, <3>3, <3>4
  <2> QED
    BY <1>2, <2>1
<1>5. c >= 32 \/ c < 32
  OBVIOUS
<1> QED
  BY <1>1, <1>3, <1>4, <1>5

\* A character more of the text that quote writes.
LEMMA PushIsStep == IsStep(Push, Seq(Nat), Nat)
<1>1. \A out \in Seq(Nat) : [c \in Nat |-> out \o Escaped(c)] \in [Nat -> Seq(Nat)]
  BY EscapeIsRead
<1> QED
  BY <1>1 DEF IsStep, Push

\* What quote writes of a text, a JSON reader takes for that text.
LEMMA QuoteIsRead ==
  ASSUME NEW text \in Seq(Nat)
  PROVE  Quote(text) \in Seq(Nat) /\ Unquoted(Quote(text)) = Some(text)
<1> DEFINE start == Reading(<<>>, "plain", 0, 0)
           S == {t \in Seq(Nat) : /\ Quote(t) \in Seq(Nat)
                                  /\ Fed(start, Quote(t)) = Reading(t, "plain", 0, 0)}
<1>0. start \in JsonState /\ <<>> \in Seq(Nat)
  BY DEF JsonState, Reading
<1>1. <<>> \in S
  <2>1. Quote(<<>>) = <<>>
    BY FoldOverEmpty DEF Quote
  <2>2. Fed(start, <<>>) = start
    BY FoldOverEmpty DEF Fed
  <2> QED
    BY <1>0, <2>1, <2>2
<1>2. ASSUME NEW t \in Seq(Nat), NEW c \in Nat, t \in S PROVE Append(t, c) \in S
  <2>1. Quote(t) \in Seq(Nat) /\ Fed(start, Quote(t)) = Reading(t, "plain", 0, 0)
    BY <1>2
  <2>2. Quote(Append(t, c)) = Push[Quote(t)][c]
    <3> DEFINE empty == <<>>
    <3>1. empty \in Seq(Nat)
      OBVIOUS
    <3> HIDE DEF empty
    <3>2. FoldOver(Push, empty, Append(t, c)) = Push[FoldOver(Push, empty, t)][c]
      BY <3>1, PushIsStep, FoldOverAppend
    <3> QED
      BY <3>2 DEF Quote, empty
  <2>3. Push[Quote(t)][c] = Quote(t) \o Escaped(c)
    BY <2>1 DEF Push
  <2>4. Escaped(c) \in Seq(Nat) /\ Fed(Reading(t, "plain", 0, 0), Escaped(c)) = Take(t, c)
    BY EscapeIsRead
  <2>5. Fed(start, Quote(t) \o Escaped(c)) = Fed(Fed(start, Quote(t)), Escaped(c))
    <3> DEFINE q == Quote(t)
               e == Escaped(c)
    <3> HIDE DEF q, e, start
    <3>1. q \in Seq(Nat) /\ e \in Seq(Nat)
      BY <2>1, <2>4 DEF q, e
    <3>2. FoldOver(JsonStep, start, q \o e) = FoldOver(JsonStep, FoldOver(JsonStep, start, q), e)
      BY <1>0, <3>1, JsonIsStep, FoldOverConcat
    <3> QED
      BY <3>2 DEF Fed, q, e
  <2>6. Quote(Append(t, c)) \in Seq(Nat)
    BY <2>1, <2>2, <2>3, <2>4, ConcatProperties
  <2>7. Fed(start, Quote(Append(t, c))) = Take(t, c)
    BY <2>1, <2>2, <2>3, <2>4, <2>5
  <2>8. Append(t, c) \in Seq(Nat)
    OBVIOUS
  <2> QED
    BY <2>6, <2>7, <2>8 DEF Take
<1>3. text \in S
  <2> HIDE DEF S
  <2> QED
    BY <1>1, <1>2, SeqInduction
<1>4. Quote(text) \in Seq(Nat) /\ Fed(start, Quote(text)) = Reading(text, "plain", 0, 0)
  BY <1>3
<1>5. Reading(text, "plain", 0, 0).mode = "plain" /\ Reading(text, "plain", 0, 0).text = text
  BY DEF Reading
<1> QED
  BY <1>4, <1>5 DEF Unquoted, Fed

-----------------------------------------------------------------------------
(* Identities and files, there and back.                                   *)

\* What Rust may have found.
IsIdentity(i) ==
  \E name \in Opt(Seq(Nat)), portrait \in Opt(Bytes) :
    \E ages, kind, profile, verified, signed, bound, trusted :
      i = [name |-> name, portrait |-> portrait, ages |-> ages, kind |-> kind,
           profile |-> profile, verified |-> verified, signed |-> signed,
           bound |-> bound, trusted |-> trusted]

Retained == [dg2 : Opt(Bytes), dg15 : Opt(Bytes)]

IsResult(r) ==
  \/ \E kind \in Kinds : r = Err(kind)
  \/ \E i, files : IsIdentity(i) /\ files \in Opt(Retained) /\ r = Ok(i, files)

\* What the Dart caller is to hold.
Faithful(r) == [thrown |-> r.error, identity |-> r.identity, files |-> r.files]

\* An optional value is there or not.
LEMMA Options ==
  ASSUME NEW S, NEW m \in Opt(S)
  PROVE  \/ m = None /\ ~Has(m)
         \/ Has(m) /\ m[1] \in S /\ m = Some(m[1])
<1>1. m \in Seq(S) /\ Len(m) \in Nat /\ Len(m) <= 1
  BY LenProperties DEF Opt
<1>2. CASE Len(m) = 0
  BY <1>1, <1>2, EmptySeq DEF None, Has
<1>3. CASE Len(m) = 1
  <2>1. m[1] \in S
    BY <1>1, <1>3, ElementOfSeq
  <2>2. m = <<m[1]>>
    BY <1>1, <1>3
  <2> QED
    BY <2>1, <2>2 DEF None, Has, Some
<1>4. Len(m) = 0 \/ Len(m) = 1
  <2> DEFINE n == Len(m)
  <2> HIDE DEF n
  <2>1. n \in Nat /\ n <= 1
    BY <1>1 DEF n
  <2>2. n = 0 \/ n = 1
    BY <2>1
  <2> QED
    BY <2>2 DEF n
<1> QED
  BY <1>2, <1>3, <1>4

\* Has, and the value it has.
LEMMA OptionIs == \A x : Has(Some(x)) /\ Some(x)[1] = x /\ Some(x) # None
BY DEF Has, Some, None

\* None has none.
LEMMA NoneIsNot == ~Has(None)
BY DEF Has, None

\* An optional text, there and back.
LEMMA NameIsRead ==
  ASSUME NEW m \in Opt(Seq(Nat))
  PROVE  Decoded(Each(m, Quote), Unquoted) = m /\ ~Spoilt(Each(m, Quote), Unquoted)
<1>1. CASE m = None
  BY <1>1, NoneIsNot DEF Each, Decoded, Spoilt
<1>2. CASE Has(m) /\ m[1] \in Seq(Nat) /\ m = Some(m[1])
  <2>1. Each(m, Quote) = Some(Quote(m[1]))
    BY <1>2 DEF Each
  <2>2. Unquoted(Quote(m[1])) = Some(m[1])
    BY <1>2, QuoteIsRead
  <2> QED
    BY <1>2, <2>1, <2>2, OptionIs DEF Decoded, Spoilt
<1> QED
  BY <1>1, <1>2, Options

\* An optional byte string, there and back.
LEMMA BytesAreRead ==
  ASSUME NEW m \in Opt(Bytes)
  PROVE  Decoded(Each(m, Hex), DecodeHex) = m /\ ~Spoilt(Each(m, Hex), DecodeHex)
<1>1. CASE m = None
  BY <1>1, NoneIsNot DEF Each, Decoded, Spoilt
<1>2. CASE Has(m) /\ m[1] \in Bytes /\ m = Some(m[1])
  <2>1. Each(m, Hex) = Some(Hex(m[1]))
    BY <1>2 DEF Each
  <2>2. DecodeHex(Hex(m[1])) = Some(m[1])
    BY <1>2, HexIsRead
  <2> QED
    BY <1>2, <2>1, <2>2, OptionIs DEF Decoded, Spoilt
<1> QED
  BY <1>1, <1>2, Options

\* Parse undoes Render.
LEMMA ResultIsRead ==
  ASSUME NEW r, IsResult(r)
  PROVE  Parse(Render(r)) = Faithful(r)
<1>1. ASSUME NEW kind \in Kinds, r = Err(kind)
      PROVE  Parse(Render(r)) = Faithful(r)
  <2>1. r.error = Some(kind) /\ r.identity = None /\ r.files = None
    BY <1>1 DEF Err
  <2>2. Render(r).error = Some(kind)
    BY <2>1 DEF Render
  <2>3. Parse(Render(r)) = Thrown(kind)
    BY <2>2, OptionIs DEF Parse
  <2> QED
    BY <2>1, <2>3 DEF Thrown, Faithful
<1>2. ASSUME NEW i, NEW files \in Opt(Retained), IsIdentity(i), r = Ok(i, files)
      PROVE  Parse(Render(r)) = Faithful(r)
  <2> DEFINE written == [i EXCEPT !.name = Each(@, Quote), !.portrait = Each(@, Hex)]
  <2>1. r.error = None /\ r.identity = Some(i) /\ r.files = files
    BY <1>2 DEF Ok
  <2>2. /\ Render(r).error = None
        /\ Render(r).identity = Some(written)
        /\ Render(r).files = Each(files, DataGroups)
    BY <2>1, OptionIs DEF Render, Each
  <2>3. PICK name \in Opt(Seq(Nat)), portrait \in Opt(Bytes) :
          \E ages, kind, profile, verified, signed, bound, trusted :
            i = [name |-> name, portrait |-> portrait, ages |-> ages, kind |-> kind,
                 profile |-> profile, verified |-> verified, signed |-> signed,
                 bound |-> bound, trusted |-> trusted]
    BY <1>2 DEF IsIdentity
  <2> PICK ages, kind, profile, verified, signed, bound, trusted :
             i = [name |-> name, portrait |-> portrait, ages |-> ages, kind |-> kind,
                  profile |-> profile, verified |-> verified, signed |-> signed,
                  bound |-> bound, trusted |-> trusted]
    BY <2>3
  <2> DEFINE With(n, p) == [name |-> n, portrait |-> p, ages |-> ages, kind |-> kind,
                            profile |-> profile, verified |-> verified, signed |-> signed,
                            bound |-> bound, trusted |-> trusted]
             n1 == Each(name, Quote)
             p1 == Each(portrait, Hex)
  <2>4. written = With(n1, p1)
    <3>1. written = [With(name, portrait) EXCEPT !.name = n1, !.portrait = p1]
      OBVIOUS
    <3> HIDE DEF n1, p1, written
    <3> QED
      BY <3>1
  <2>5. written.name = n1 /\ written.portrait = p1
    <3> HIDE DEF n1, p1, written
    <3> QED
      BY <2>4
  <2>6. [written EXCEPT !.name = Decoded(@, Unquoted), !.portrait = Decoded(@, DecodeHex)] = i
    <3>1. Decoded(n1, Unquoted) = name /\ Decoded(p1, DecodeHex) = portrait
      BY NameIsRead, BytesAreRead
    <3>2. [written EXCEPT !.name = Decoded(@, Unquoted), !.portrait = Decoded(@, DecodeHex)]
            = [written EXCEPT !.name = name, !.portrait = portrait]
      <4> HIDE DEF n1, p1, written
      <4> QED
        BY <2>5, <3>1
    <3>3. [written EXCEPT !.name = name, !.portrait = portrait] = With(name, portrait)
      <4>1. [With(n1, p1) EXCEPT !.name = name] = With(name, p1)
        <5> HIDE DEF n1, p1
        <5> QED
          OBVIOUS
      <4>2. [With(name, p1) EXCEPT !.portrait = portrait] = With(name, portrait)
        <5> HIDE DEF n1, p1
        <5> QED
          OBVIOUS
      <4> HIDE DEF n1, p1, written, With
      <4> QED
        BY <2>4, <4>1, <4>2
    <3> QED
      BY <3>2, <3>3
  <2> HIDE DEF written
  <2>7. ~Spoilt(written.name, Unquoted) /\ ~Spoilt(written.portrait, DecodeHex)
    BY <2>5, NameIsRead, BytesAreRead
  <2>8. CASE ~Has(files)
    <3>1. files = None /\ ~Has(Render(r).files)
      BY <2>2, <2>8, NoneIsNot DEF Each, Has, None
    <3>2. ~Malformed(Render(r))
      BY <2>2, <2>7, <3>1, OptionIs DEF Malformed
    <3>3. Parse(Render(r)) = [thrown |-> None, identity |-> Some(i), files |-> None]
      BY <2>2, <2>6, <3>1, <3>2, NoneIsNot, OptionIs DEF Parse
    <3> QED
      BY <2>1, <3>1, <3>3 DEF Faithful
  <2>9. CASE Has(files)
    <3> DEFINE groups == files[1]
    <3>1. groups \in Retained /\ files = Some(groups)
      BY <2>9, Options, NoneIsNot
    <3> HIDE DEF groups
    <3>2. /\ groups.dg2 \in Opt(Bytes) /\ groups.dg15 \in Opt(Bytes)
          /\ groups = [dg2 |-> groups.dg2, dg15 |-> groups.dg15]
      BY <3>1 DEF Retained
    <3>3. /\ Has(Render(r).files)
          /\ Render(r).files[1].dg2 = Each(groups.dg2, Hex)
          /\ Render(r).files[1].dg15 = Each(groups.dg15, Hex)
      BY <2>2, <3>1, OptionIs DEF Each, DataGroups
    <3>4. ~Malformed(Render(r))
      BY <2>2, <2>7, <3>2, <3>3, OptionIs, BytesAreRead DEF Malformed
    <3>5. Parse(Render(r)) = [thrown |-> None, identity |-> Some(i),
                              files |-> Some([dg2 |-> groups.dg2, dg15 |-> groups.dg15])]
      BY <2>2, <2>6, <3>2, <3>3, <3>4, NoneIsNot, OptionIs, BytesAreRead DEF Parse
    <3> QED
      BY <2>1, <3>1, <3>2, <3>5 DEF Faithful
  <2> QED
    BY <2>8, <2>9
<1> QED
  BY <1>1, <1>2 DEF IsResult

-----------------------------------------------------------------------------
(* What Rust finds.                                                        *)

\* A call that an app forwards has the files a read retained, and that read
\* found what they say.
FromRead ==
  LET files == [dg2 |-> call.dg2, dg15 |-> call.dg15] IN
  /\ call.kind = "files"
  /\ call.dg2 \in Opt(File) /\ call.dg15 \in Opt(File)
  /\ world \in Passports
  /\ ~BadAnchor /\ ToSet(Supplied(files)) \subseteq ToSet(world.signed)
  /\ \E proof : first.identity = Some(Holder(files, proof))

CallTyped ==
  \/ call \in MdlCalls /\ world \in Wallets
  \/ call \in OpenIdCalls /\ world \in Wallets
  \/ call \in ReadCalls /\ world \in Passports
  \/ FromRead

\* What is not there is an option.
LEMMA NoneIsOption == ASSUME NEW S PROVE None \in Opt(S)
BY DEF None, Opt

\* And so is what is there.
LEMMA SomeIsOption == ASSUME NEW S, NEW x \in S PROVE Some(x) \in Opt(S)
BY DEF Some, Opt

\* A file is not empty: the C boundary keeps it apart from none.
LEMMA FileOptions == ASSUME NEW m \in Opt(File) PROVE m \in Opt(Bytes) /\ Given(Slice(m)) = m
<1>1. CASE m = None
  BY <1>1, NoneIsOption, NoneIsNot DEF Given, Slice, None
<1>2. CASE Has(m) /\ m[1] \in File /\ m = Some(m[1])
  <2>1. m[1] \in Bytes /\ m[1] # <<>>
    BY <1>2 DEF File
  <2>2. Some(m[1]) \in Opt(Bytes)
    BY <2>1, SomeIsOption
  <2> QED
    BY <1>2, <2>1, <2>2 DEF Given, Slice
<1> QED
  BY <1>1, <1>2, Options

\* An error is a result.
LEMMA ErrIsResult ==
  ASSUME NEW kind \in {"unreadable", "notAuthentic", "sessionKeyRequired", "anchor"}
  PROVE  IsResult(Err(kind)) /\ ~Has(Err(kind).identity) /\ ~Has(Err(kind).files)
<1>1. kind \in Kinds
  BY DEF Kinds
<1> QED
  BY <1>1, NoneIsNot DEF IsResult, Err

\* And the licence of a wallet is one.
LEMMA LicenceIsResult ==
  ASSUME HostCallConstants, world \in Wallets, NEW bound, NEW profile
  PROVE  /\ IsResult(Ok(Licence(bound, profile), None))
         /\ Ok(Licence(bound, profile), None).identity = Some(Licence(bound, profile))
         /\ Licence(bound, profile).bound = bound /\ Licence(bound, profile).profile = profile
<1>1. world.name \in Opt(Seq(Nat)) /\ None \in Opt(Bytes) /\ None \in Opt(Retained)
  BY NoneIsOption DEF HostCallConstants
<1>2. IsIdentity(Licence(bound, profile))
  BY <1>1 DEF IsIdentity, Licence
<1> QED
  BY <1>1, <1>2 DEF IsResult, Ok, Licence

\* A session is answered for a transcript the holder signed, or refused.
LEMMA InSessionFinds ==
  ASSUME HostCallConstants, world \in Wallets, NEW X, NEW candidates \in Seq(X), NEW k
  PROVE  /\ IsResult(InSession(candidates, k))
         /\ Has(InSession(candidates, k).identity) =>
              /\ InSession(candidates, k).identity = Some(Licence(Some(TRUE), Some(world.over[1])))
              /\ world.over \in ToSet(candidates)
<1> DEFINE signed == {i \in DOMAIN candidates : candidates[i] = world.over}
           found == candidates[CHOOSE i \in signed : \A j \in signed : i <= j]
           r == InSession(candidates, k)
<1>1. CASE \/ r = Err("sessionKeyRequired")
           \/ r = Err("notAuthentic")
           \/ r = Err("unreadable")
  BY <1>1, ErrIsResult
<1>2. CASE signed # {} /\ r = Ok(Licence(Some(TRUE), Some(found[1])), None)
  <2>1. DOMAIN candidates = 1 .. Len(candidates)
    BY LenProperties
  <2>2. signed \subseteq Nat
    BY <2>1
  <2>3. \E i \in signed : \A j \in signed : i <= j
    <3> HIDE DEF signed
    <3> QED
      BY <1>2, <2>2, First
  <2>4. found = world.over /\ world.over \in ToSet(candidates)
    <3> DEFINE i == CHOOSE i \in signed : \A j \in signed : i <= j
    <3>1. i \in signed
      <4> HIDE DEF signed
      <4> QED
        BY <2>3
    <3> HIDE DEF i
    <3>2. i \in DOMAIN candidates /\ candidates[i] = world.over
      BY <3>1
    <3> QED
      BY <3>2 DEF ToSet, i
  <2> HIDE DEF found, signed, r
  <2> QED
    <3>1. r = Ok(Licence(Some(TRUE), Some(world.over[1])), None)
      BY <1>2, <2>4
    <3>2. IsResult(r) /\ r.identity = Some(Licence(Some(TRUE), Some(world.over[1])))
      BY <3>1, LicenceIsResult
    <3> QED
      BY <2>4, <3>2 DEF r
<1>3. \/ r = Err("sessionKeyRequired") \/ r = Err("notAuthentic") \/ r = Err("unreadable")
      \/ signed # {} /\ r = Ok(Licence(Some(TRUE), Some(found[1])), None)
  BY DEF InSession
<1> QED
  BY <1>1, <1>2, <1>3

\* Without a session nothing is claimed of the holder.
LEMMA IssuerOnlyFinds ==
  ASSUME HostCallConstants, world \in Wallets
  PROVE  /\ IsResult(IssuerOnly)
         /\ Has(IssuerOnly.identity) => IssuerOnly.identity = Some(Licence(None, None))
BY ErrIsResult, LicenceIsResult DEF IssuerOnly

\* With a transcript, the answer is about the one the caller gave.
LEMMA VerifyMdlFinds ==
  ASSUME HostCallConstants, call \in MdlCalls, world \in Wallets, ~Refused(call)
  PROVE  /\ IsResult(VerifyMdl)
         /\ Has(VerifyMdl.identity) =>
              IF Has(call.transcript)
              THEN /\ VerifyMdl.identity = Some(Licence(Some(TRUE), Some(world.over[1])))
                   /\ world.over = Adopted(call.transcript[1])
              ELSE VerifyMdl.identity = Some(Licence(None, None))
<1> DEFINE transcript == Slice(call.transcript)
           k == Slice(call.readerKey)
           candidates == <<Adopted(transcript)>>
<1>1. call.kind = "mdl" /\ call.transcript \in Opt(Bytes) /\ call.transcript # Some(<<>>)
  BY DEF HostCallConstants, Refused, MdlRefused
<1>2. ~Has(call.transcript) => transcript = <<>>
  BY DEF Slice
<1>3. Has(call.transcript) => transcript = call.transcript[1] /\ transcript # <<>>
  BY <1>1, Options DEF Slice, Has
<1> HIDE DEF transcript, k
<1>4. \/ VerifyMdl = Err("anchor")
      \/ VerifyMdl = Err("unreadable")
      \/ transcript = <<>> /\ VerifyMdl = IssuerOnly
      \/ transcript # <<>> /\ VerifyMdl = InSession(candidates, k)
  BY DEF VerifyMdl, transcript, k
<1>5. CASE VerifyMdl = Err("anchor") \/ VerifyMdl = Err("unreadable")
  BY <1>5, ErrIsResult
<1>6. CASE transcript = <<>> /\ VerifyMdl = IssuerOnly
  BY <1>3, <1>6, IssuerOnlyFinds
<1>7. CASE transcript # <<>> /\ VerifyMdl = InSession(candidates, k)
  <2>1. candidates \in Seq({Adopted(transcript)}) /\ ToSet(candidates) = {Adopted(transcript)}
    BY DEF ToSet
  <2>2. /\ IsResult(InSession(candidates, k))
        /\ Has(InSession(candidates, k).identity) =>
             /\ InSession(candidates, k).identity = Some(Licence(Some(TRUE), Some(world.over[1])))
             /\ world.over \in ToSet(candidates)
    <3> HIDE DEF candidates
    <3> QED
      BY <2>1, InSessionFinds
  <2> HIDE DEF candidates
  <2> QED
    BY <1>2, <1>3, <1>7, <2>1, <2>2
<1> QED
  BY <1>4, <1>5, <1>6, <1>7

\* A parameter without a NUL reaches Rust as it was given.
LEMMA ParamsAreGiven ==
  ASSUME HostCallConstants, call \in OpenIdCalls, ~Refused(call)
  PROVE  Candidates(Params) = Candidates([call EXCEPT !.nonce = Some(@)])
<1> DEFINE given == [call EXCEPT !.nonce = Some(@)]
<1>1. /\ call.kind = "openid4vp"
      /\ call.thumbprint \in Opt(Bytes) /\ call.thumbprint # Some(<<>>)
      /\ ~HasNul(Some(call.nonce)) /\ ~HasNul(call.clientId) /\ ~HasNul(call.responseUri)
      /\ ~HasNul(call.mdocNonce) /\ ~HasNul(call.origin)
  BY DEF HostCallConstants, Refused, OpenIdRefused
<1>2. Given(Slice(call.thumbprint)) = call.thumbprint
  <2>1. ~Has(call.thumbprint) => call.thumbprint = None
    BY <1>1, Options
  <2>2. Has(call.thumbprint) => call.thumbprint = Some(call.thumbprint[1]) /\ call.thumbprint[1] # <<>>
    BY <1>1, Options
  <2> QED
    BY <2>1, <2>2 DEF Given, Slice
<1>3. /\ Params.nonce = Some(call.nonce) /\ Params.clientId = call.clientId
      /\ Params.responseUri = call.responseUri /\ Params.mdocNonce = call.mdocNonce
      /\ Params.origin = call.origin /\ Params.thumbprint = call.thumbprint
  BY <1>1, <1>2 DEF Params, Text
<1>4. /\ given.nonce = Some(call.nonce) /\ given.clientId = call.clientId
      /\ given.responseUri = call.responseUri /\ given.mdocNonce = call.mdocNonce
      /\ given.origin = call.origin /\ given.thumbprint = call.thumbprint
  BY DEF HostCallConstants
<1> HIDE DEF given
<1>5. DcApi(Params) = DcApi(given) /\ Redirect(Params) = Redirect(given) /\ Iso18013(Params) = Iso18013(given)
  BY <1>3, <1>4 DEF DcApi, Redirect, Iso18013
<1>6. Candidates(Params) = Candidates(given)
  BY <1>3, <1>4, <1>5 DEF Candidates
<1> QED
  BY <1>6 DEF given

\* With parameters, it is about a transcript made of them.
LEMMA VerifyOpenIdFinds ==
  ASSUME HostCallConstants, call \in OpenIdCalls, world \in Wallets, ~Refused(call)
  PROVE  /\ IsResult(VerifyOpenId)
         /\ Has(VerifyOpenId.identity) =>
              /\ VerifyOpenId.identity = Some(Licence(Some(TRUE), Some(world.over[1])))
              /\ world.over \in ToSet(Candidates([call EXCEPT !.nonce = Some(@)]))
<1> DEFINE candidates == Candidates(Params)
           k == Slice(call.readerKey)
<1>1. candidates \in Seq({DcApi(Params), Redirect(Params), Iso18013(Params)})
  <2> DEFINE X == {DcApi(Params), Redirect(Params), Iso18013(Params)}
  <2>1. \A x \in X : <<x>> \in Seq(X)
    OBVIOUS
  <2>2. <<>> \in Seq(X)
    OBVIOUS
  <2>3. \A a, b, c \in Seq(X) : a \o b \o c \in Seq(X)
    BY ConcatProperties
  <2>4. DcApi(Params) \in X /\ Redirect(Params) \in X /\ Iso18013(Params) \in X
    OBVIOUS
  <2> HIDE DEF X
  <2> DEFINE a == IF Has(Params.origin) THEN <<DcApi(Params)>> ELSE <<>>
             b == IF Has(Params.clientId) /\ Has(Params.responseUri) THEN <<Redirect(Params)>> ELSE <<>>
             c == IF Has(Params.clientId) /\ Has(Params.responseUri) /\ Has(Params.mdocNonce)
                  THEN <<Iso18013(Params)>> ELSE <<>>
  <2>5. a \in Seq(X) /\ b \in Seq(X) /\ c \in Seq(X)
    BY <2>1, <2>2, <2>4
  <2>6. candidates = a \o b \o c
    BY DEF Candidates
  <2> HIDE DEF a, b, c, candidates
  <2>7. candidates \in Seq(X)
    BY <2>3, <2>5, <2>6
  <2> QED
    BY <2>7 DEF X
<1> HIDE DEF candidates, k
<1>2. \/ VerifyOpenId = Err("unreadable")
      \/ VerifyOpenId = Err("anchor")
      \/ VerifyOpenId = InSession(candidates, k)
  BY DEF VerifyOpenId, candidates, k
<1>3. CASE VerifyOpenId = Err("unreadable") \/ VerifyOpenId = Err("anchor")
  BY <1>3, ErrIsResult
<1>4. CASE VerifyOpenId = InSession(candidates, k)
  <2> DEFINE meant == Candidates([call EXCEPT !.nonce = Some(@)])
  <2>1. candidates = meant
    BY ParamsAreGiven DEF candidates
  <2> HIDE DEF meant
  <2>2. /\ IsResult(VerifyOpenId)
        /\ Has(VerifyOpenId.identity) =>
             /\ VerifyOpenId.identity = Some(Licence(Some(TRUE), Some(world.over[1])))
             /\ world.over \in ToSet(meant)
    BY <1>1, <1>4, <2>1, InSessionFinds
  <2> QED
    BY <2>2 DEF meant
<1> QED
  BY <1>2, <1>3, <1>4

\* The holder of a passport is an identity, and its binding one field of it.
LEMMA HolderIsIdentity ==
  ASSUME HostCallConstants, world \in Passports, NEW files \in Retained, NEW bound
  PROVE  /\ IsIdentity(Holder(files, bound))
         /\ [Holder(files, bound) EXCEPT !.bound = None] = Holder(files, None)
<1>1. world.name \in Opt(Seq(Nat)) /\ files.dg2 \in Opt(Bytes)
  BY DEF HostCallConstants, Retained
<1>2. IsIdentity(Holder(files, bound))
  BY <1>1 DEF IsIdentity, Holder
<1>3. [Holder(files, bound) EXCEPT !.bound = None] = Holder(files, None)
  BY DEF Holder
<1> QED
  BY <1>2, <1>3

\* What the files of a passport are found to be.
LEMMA VerifyFilesFinds ==
  ASSUME HostCallConstants, world \in Passports, NEW files \in Retained, NEW proof, NEW keep \in Opt(Retained)
  PROVE  /\ IsResult(VerifyFiles(files, proof, keep))
         /\ Has(VerifyFiles(files, proof, keep).files) =>
              ~BadAnchor /\ ToSet(Supplied(files)) \subseteq ToSet(world.signed)
         /\ ~BadAnchor /\ ToSet(Supplied(files)) \subseteq ToSet(world.signed) =>
              VerifyFiles(files, proof, keep) = Ok(Holder(files, HolderBinding(proof, Supplied(files))), keep)
<1> DEFINE r == VerifyFiles(files, proof, keep)
           bound == HolderBinding(proof, Supplied(files))
           good == ~BadAnchor /\ ToSet(Supplied(files)) \subseteq ToSet(world.signed)
<1>1. good => r = Ok(Holder(files, bound), keep)
  BY DEF VerifyFiles
<1>2. ~good => r = Err("anchor") \/ r = Err("notAuthentic")
  BY DEF VerifyFiles
<1>3. IsIdentity(Holder(files, bound))
  BY HolderIsIdentity
<1> HIDE DEF r, bound, good
<1>4. good => IsResult(r)
  BY <1>1, <1>3 DEF IsResult
<1>5. ~good => IsResult(r) /\ ~Has(r.files)
  BY <1>2, ErrIsResult
<1>6. /\ IsResult(r)
      /\ Has(r.files) => good
      /\ good => r = Ok(Holder(files, bound), keep)
  BY <1>1, <1>4, <1>5
<1> QED
  BY <1>6 DEF r, bound, good

\* The files a read takes are files, and what it retains is what it took.
LEMMA ReadPassportFinds ==
  ASSUME HostCallConstants, call \in ReadCalls, world \in Passports
  PROVE  /\ IsResult(ReadPassport)
         /\ FilesRead.dg2 \in Opt(File) /\ FilesRead.dg15 \in Opt(File)
         /\ Has(ReadPassport.files) =>
              /\ ReadPassport.files = Some(FilesRead)
              /\ ~BadAnchor /\ ToSet(Supplied(FilesRead)) \subseteq ToSet(world.signed)
              /\ \E proof : ReadPassport.identity = Some(Holder(FilesRead, proof))
<1> DEFINE proof == IF Has(FilesRead.dg15) THEN Some(world.genuine) ELSE None
           keep == IF call.retain THEN Some(FilesRead) ELSE None
           r == VerifyFiles(FilesRead, proof, keep)
<1>1. FilesRead.dg2 \in Opt(File) /\ FilesRead.dg15 \in Opt(File)
  <2>1. world.dg2 \in Opt(File) /\ world.dg15 \in Opt(File) /\ None \in Opt(File)
    BY NoneIsOption DEF HostCallConstants
  <2> QED
    BY <2>1 DEF FilesRead
<1>2. FilesRead \in Retained
  <2>1. FilesRead = [dg2 |-> FilesRead.dg2, dg15 |-> FilesRead.dg15]
    BY DEF FilesRead
  <2>2. FilesRead.dg2 \in Opt(Bytes) /\ FilesRead.dg15 \in Opt(Bytes)
    BY <1>1, FileOptions
  <2> QED
    BY <2>1, <2>2 DEF Retained
<1>3. keep \in Opt(Retained)
  BY <1>2, NoneIsOption, SomeIsOption
<1>4. ReadPassport = r
  BY DEF ReadPassport
<1> HIDE DEF proof, keep
<1>5. IsResult(r)
  BY <1>2, <1>3, VerifyFilesFinds
<1>6. ASSUME Has(r.files)
      PROVE  /\ r.files = Some(FilesRead)
             /\ ~BadAnchor /\ ToSet(Supplied(FilesRead)) \subseteq ToSet(world.signed)
             /\ r.identity = Some(Holder(FilesRead, HolderBinding(proof, Supplied(FilesRead))))
  <2>1. ~BadAnchor /\ ToSet(Supplied(FilesRead)) \subseteq ToSet(world.signed)
    BY <1>2, <1>3, <1>6, VerifyFilesFinds
  <2>2. r = Ok(Holder(FilesRead, HolderBinding(proof, Supplied(FilesRead))), keep)
    BY <1>2, <1>3, <2>1, VerifyFilesFinds
  <2>3. r.files = keep /\ r.identity = Some(Holder(FilesRead, HolderBinding(proof, Supplied(FilesRead))))
    BY <2>2 DEF Ok
  <2>4. keep = Some(FilesRead)
    BY <1>6, <2>3, NoneIsNot DEF keep
  <2> QED
    BY <2>1, <2>3, <2>4
<1> HIDE DEF r
<1> QED
  BY <1>1, <1>4, <1>5, <1>6

\* A server finds of the files what the phone found, but for the chip.
LEMMA VerifyPassportFinds ==
  ASSUME HostCallConstants, FromRead
  PROVE  /\ IsResult(VerifyPassport)
         /\ VerifyPassport.identity = Some([first.identity[1] EXCEPT !.bound = None])
         /\ VerifyPassport.identity[1].bound = None
<1> DEFINE files == [dg2 |-> call.dg2, dg15 |-> call.dg15]
<1>1. /\ world \in Passports /\ call.dg2 \in Opt(File) /\ call.dg15 \in Opt(File)
      /\ ~BadAnchor /\ ToSet(Supplied(files)) \subseteq ToSet(world.signed)
  BY DEF FromRead
<1>2. PICK proof : first.identity = Some(Holder(files, proof))
  BY DEF FromRead
<1>3. files \in Retained
  BY <1>1, FileOptions DEF Retained
<1>4. VerifyPassport = VerifyFiles(files, None, None)
  BY <1>1, FileOptions DEF VerifyPassport
<1> HIDE DEF files
<1>5. HolderBinding(None, Supplied(files)) = None
  BY DEF HolderBinding
<1>6. None \in Opt(Retained)
  BY NoneIsOption
<1>7. IsResult(VerifyPassport) /\ VerifyPassport = Ok(Holder(files, None), None)
  BY <1>1, <1>3, <1>4, <1>5, <1>6, VerifyFilesFinds
<1>8. [Holder(files, proof) EXCEPT !.bound = None] = Holder(files, None)
  BY <1>1, <1>3, HolderIsIdentity
<1>9. Holder(files, None).bound = None
  BY DEF Holder
<1>10. VerifyPassport.identity = Some(Holder(files, None))
  BY <1>7 DEF Ok
<1>11. first.identity[1] = Holder(files, proof)
  BY <1>2, OptionIs
<1> QED
  BY <1>7, <1>8, <1>9, <1>10, <1>11, OptionIs

\* Whatever the entry point, it returns a result.
LEMMA VerdictIsResult ==
  ASSUME HostCallConstants, CallTyped, ~Refused(call)
  PROVE  IsResult(Verdict)
<1>1. CASE call \in MdlCalls /\ world \in Wallets
  <2>1. call.kind = "mdl"
    BY <1>1 DEF HostCallConstants
  <2> QED
    BY <1>1, <2>1, VerifyMdlFinds DEF Verdict
<1>2. CASE call \in OpenIdCalls /\ world \in Wallets
  <2>1. call.kind = "openid4vp"
    BY <1>2 DEF HostCallConstants
  <2> QED
    BY <1>2, <2>1, VerifyOpenIdFinds DEF Verdict
<1>3. CASE call \in ReadCalls /\ world \in Passports
  <2>1. call.kind = "read"
    BY <1>3 DEF HostCallConstants
  <2> QED
    BY <1>3, <2>1, ReadPassportFinds DEF Verdict
<1>4. CASE FromRead
  <2>1. call.kind = "files"
    BY <1>4 DEF FromRead
  <2> QED
    BY <1>4, <2>1, VerifyPassportFinds DEF Verdict
<1> QED
  BY <1>1, <1>2, <1>3, <1>4 DEF CallTyped

-----------------------------------------------------------------------------
(* The inductive invariant.                                                *)

\* The way of a result from Rust to the Dart caller.
CallInv ==
  /\ step \in {"call", "run", "render", "parse", "done"}
  /\ CallTyped
  /\ step \in {"run", "render", "parse"} => ~Refused(call)
  /\ step \in {"render", "parse"} => result = Verdict
  /\ step = "parse" => json = Render(result)
  /\ step = "done" =>
       \/ answer = Thrown("ArgumentError")
       \/ ~Refused(call) /\ result = Verdict /\ answer = Parse(Render(result))

\* The verdict is a matter of the arguments and the world.
LEMMA Same ==
  ASSUME UNCHANGED <<call, world>>
  PROVE  (Refused(call))' = Refused(call) /\ Verdict' = Verdict /\ (UNCHANGED first => CallTyped' = CallTyped)
<1>1. (Refused(call))' = Refused(call)
  BY DEF Refused, MdlRefused, OpenIdRefused
<1>2. Verdict' = Verdict
  BY DEF Verdict, VerifyMdl, VerifyOpenId, ReadPassport, VerifyPassport, IssuerOnly, InSession, Licence,
         BadAnchor, Params, VerifyFiles, Holder, FilesRead
<1>3. UNCHANGED first => CallTyped' = CallTyped
  BY DEF CallTyped, FromRead, BadAnchor, Holder
<1> QED
  BY <1>1, <1>2, <1>3

\* The invariant at the start,
LEMMA CallInitially ==
  ASSUME HostCallConstants, CallInit
  PROVE  CallInv
BY DEF CallInit, CallInv, CallTyped

\* and after each step.
LEMMA CallInductive ==
  ASSUME HostCallConstants, CallInv, [CallNext]_callVars
  PROVE  CallInv'
<1>1. CASE Refuse
  BY <1>1, Same DEF Refuse, CallInv
<1>2. CASE Enter
  BY <1>2, Same DEF Enter, CallInv
<1>3. CASE Run
  BY <1>3, Same DEF Run, CallInv
<1>4. CASE HandBack
  BY <1>4, Same DEF HandBack, CallInv
<1>5. CASE TakeAnswer
  BY <1>5, Same DEF TakeAnswer, CallInv
<1>6. CASE Forward
  <2>1. step = "done" /\ call.kind = "read" /\ Has(answer.files) /\ CallTyped
    BY <1>6 DEF Forward, CallInv
  <2>2. call \in ReadCalls /\ world \in Passports
    BY <2>1 DEF CallTyped, FromRead, HostCallConstants
  <2>3. result = Verdict /\ answer = Parse(Render(result)) /\ ~Refused(call)
    BY <2>1, NoneIsNot DEF CallInv, Thrown
  <2>4. Verdict = ReadPassport
    BY <2>1 DEF Verdict
  <2>5. answer = Faithful(ReadPassport)
    BY <2>2, <2>3, <2>4, ReadPassportFinds, ResultIsRead
  <2>6. answer.files = ReadPassport.files /\ answer.identity = ReadPassport.identity
    BY <2>5 DEF Faithful
  <2>7. PICK files : files = FilesRead
    OBVIOUS
  <2>8. /\ answer.files[1] = files /\ files = [dg2 |-> files.dg2, dg15 |-> files.dg15]
        /\ files.dg2 \in Opt(File) /\ files.dg15 \in Opt(File)
        /\ ~BadAnchor /\ ToSet(Supplied(files)) \subseteq ToSet(world.signed)
        /\ \E proof : answer.identity = Some(Holder(files, proof))
    <3>1. files = [dg2 |-> files.dg2, dg15 |-> files.dg15]
      BY <2>7 DEF FilesRead
    <3> QED
      BY <2>1, <2>2, <2>6, <2>7, <3>1, ReadPassportFinds, OptionIs
  <2>9. PICK proof : answer.identity = Some(Holder(files, proof))
    BY <2>8
  <2>10. /\ call' = [kind |-> "files", dg2 |-> files.dg2, dg15 |-> files.dg15, anchors |-> call.anchors]
         /\ first' = answer /\ answer' = Nothing /\ step' = "call" /\ UNCHANGED <<world, result, json>>
    BY <1>6, <2>8 DEF Forward
  <2>11. /\ call'.kind = "files" /\ call'.dg2 = files.dg2 /\ call'.dg15 = files.dg15
         /\ call'.anchors = call.anchors
    BY <2>10
  <2>12. ~BadAnchor'
    BY <2>8, <2>11 DEF BadAnchor
  <2>13. first'.identity = Some(Holder(files, proof)')
    BY <2>9, <2>10, <2>11 DEF Holder
  <2>14. [dg2 |-> call'.dg2, dg15 |-> call'.dg15] = files
    BY <2>8, <2>11
  <2>15. FromRead'
    BY <2>2, <2>8, <2>10, <2>11, <2>12, <2>13, <2>14 DEF FromRead
  <2> QED
    BY <2>10, <2>15 DEF CallInv, CallTyped
<1>7. CASE UNCHANGED callVars
  BY <1>7, Same DEF callVars, CallInv
<1> QED
  BY <1>1, <1>2, <1>3, <1>4, <1>5, <1>6, <1>7 DEF CallNext

\* All that a call keeps true on its way to Rust and back.
THEOREM CallInvariance == CallSpec => []CallInv
<1> HostCallConstants
  BY CallConstants
<1>1. CallInit => CallInv
  BY CallInitially
<1>2. CallInv /\ [CallNext]_callVars => CallInv'
  BY CallInductive
<1> QED
  BY <1>1, <1>2, PTL DEF CallSpec

\* An answer holds what Rust found, and the arguments were not refused.
LEMMA AnswerIsFaithful ==
  ASSUME HostCallConstants, CallInv, step = "done", answer # Thrown("ArgumentError")
  PROVE  answer = Faithful(result) /\ result = Verdict /\ ~Refused(call)
<1>1. ~Refused(call) /\ result = Verdict /\ answer = Parse(Render(result)) /\ CallTyped
  BY DEF CallInv
<1>2. IsResult(result)
  BY <1>1, VerdictIsResult
<1> QED
  BY <1>1, <1>2, ResultIsRead

\* What the Dart caller holds is what Rust found, whatever was given, found,
\* retained and forwarded.
THEOREM CallerHoldsTheVerdict == CallSpec => []AnswerIsTheVerdict
<1> HostCallConstants
  BY CallConstants
<1>1. CallInv => AnswerIsTheVerdict
  <2> SUFFICES ASSUME CallInv, step = "done", answer.thrown # Some("ArgumentError")
               PROVE  /\ answer = [thrown |-> result.error, identity |-> result.identity, files |-> result.files]
                      /\ call.kind = "files" =>
                           answer.identity = Some([first.identity[1] EXCEPT !.bound = None])
    BY DEF AnswerIsTheVerdict
  <2>1. answer # Thrown("ArgumentError")
    BY DEF Thrown
  <2>2. answer = Faithful(result) /\ result = Verdict
    BY <2>1, AnswerIsFaithful
  <2>3. ASSUME call.kind = "files"
        PROVE  answer.identity = Some([first.identity[1] EXCEPT !.bound = None])
    <3>1. FromRead
      BY <2>3 DEF CallInv, CallTyped, HostCallConstants
    <3>2. Verdict = VerifyPassport
      BY <2>3 DEF Verdict
    <3>3. answer.identity = VerifyPassport.identity
      BY <2>2, <3>2 DEF Faithful
    <3> QED
      BY <3>1, <3>3, VerifyPassportFinds
  <2> QED
    BY <2>2, <2>3 DEF Faithful
<1> QED
  BY <1>1, CallInvariance, PTL

\* An answer to a caller who gave a session is about that session, whatever
\* the strings and the slices that carry it.
THEOREM SessionIsTheCallers == CallSpec => []AnswerIsForThisSession
<1> HostCallConstants
  BY CallConstants
<1>1. CallInv => AnswerIsForThisSession
  <2> DEFINE i == answer.identity[1]
             Fits == CASE call.kind = "openid4vp" \/ (call.kind = "mdl" /\ Has(call.transcript)) ->
                            /\ i.bound = Some(TRUE)
                            /\ world.over \in Meant
                            /\ i.profile = Some(world.over[1])
                            /\ call.kind = "openid4vp" => call.nonce # <<>>
                       [] OTHER -> call.kind = "read" \/ i.bound = None
  <2> SUFFICES ASSUME CallInv, Answered PROVE Fits
    BY DEF AnswerIsForThisSession
  <2>1. step = "done" /\ Has(answer.identity)
    BY DEF Answered
  <2>2. answer # Thrown("ArgumentError")
    BY <2>1, NoneIsNot DEF Thrown
  <2>3. answer = Faithful(Verdict) /\ ~Refused(call) /\ CallTyped
    BY <2>1, <2>2, AnswerIsFaithful DEF CallInv
  <2>4. answer.identity = Verdict.identity /\ Has(Verdict.identity)
    BY <2>1, <2>3 DEF Faithful
  <2>5. CASE call \in MdlCalls /\ world \in Wallets
    <3>1. call.kind = "mdl"
      BY <2>5 DEF HostCallConstants
    <3>2. Verdict = VerifyMdl
      BY <3>1 DEF Verdict
    <3>3. CASE Has(call.transcript)
      <4>1. i = Licence(Some(TRUE), Some(world.over[1])) /\ world.over = Adopted(call.transcript[1])
        BY <2>3, <2>4, <2>5, <3>2, <3>3, VerifyMdlFinds, OptionIs
      <4>2. i.bound = Some(TRUE) /\ i.profile = Some(world.over[1])
        BY <4>1 DEF Licence
      <4>3. world.over \in Meant
        BY <3>1, <4>1 DEF Meant
      <4> HIDE DEF i
      <4> QED
        BY <3>1, <3>3, <4>2, <4>3
    <3>4. CASE ~Has(call.transcript)
      <4>1. i = Licence(None, None)
        BY <2>3, <2>4, <2>5, <3>2, <3>4, VerifyMdlFinds, OptionIs
      <4>2. i.bound = None
        BY <2>5, <4>1, LicenceIsResult
      <4> HIDE DEF i
      <4> QED
        BY <3>1, <3>4, <4>2
    <3> QED
      BY <3>3, <3>4
  <2>6. CASE call \in OpenIdCalls /\ world \in Wallets
    <3>1. call.kind = "openid4vp"
      BY <2>6 DEF HostCallConstants
    <3>2. Verdict = VerifyOpenId
      BY <3>1 DEF Verdict
    <3>3. /\ i = Licence(Some(TRUE), Some(world.over[1]))
          /\ world.over \in ToSet(Candidates([call EXCEPT !.nonce = Some(@)]))
      BY <2>3, <2>4, <2>6, <3>2, VerifyOpenIdFinds, OptionIs
    <3>4. i.bound = Some(TRUE) /\ i.profile = Some(world.over[1])
      BY <3>3 DEF Licence
    <3>5. world.over \in Meant
      BY <3>1, <3>3 DEF Meant
    <3>6. call.nonce # <<>>
      BY <2>3, <3>1 DEF Refused, OpenIdRefused
    <3> HIDE DEF i
    <3> QED
      BY <3>1, <3>4, <3>5, <3>6
  <2>7. CASE call \in ReadCalls
    <3>1. call.kind = "read"
      BY <2>7 DEF HostCallConstants
    <3> HIDE DEF i
    <3> QED
      BY <3>1
  <2>8. CASE FromRead
    <3>1. call.kind = "files"
      BY <2>8 DEF FromRead
    <3>2. Verdict = VerifyPassport
      BY <3>1 DEF Verdict
    <3>3. i.bound = None
      BY <2>4, <2>8, <3>2, VerifyPassportFinds
    <3> HIDE DEF i
    <3> QED
      BY <3>1, <3>3
  <2> QED
    BY <2>3, <2>5, <2>6, <2>7, <2>8 DEF CallTyped
<1> QED
  BY <1>1, CallInvariance, PTL
===============================================================================
