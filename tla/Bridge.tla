------------------------------- MODULE Bridge -------------------------------
(***************************************************************************)
(* The asynchronous APDU bridge of identity-mobile: bridge.rs, the         *)
(* AsyncChannel and supply/free entry points of ffi.rs, and the Dart       *)
(* listener that serves them.                                              *)
(*                                                                         *)
(* A worker thread runs the blocking passport protocol.  For each APDU it  *)
(* opens an Exchange (a fresh id and a one-slot channel whose sender goes  *)
(* into the global PENDING map), posts the APDU to the host, and parks in  *)
(* recv_timeout.  The host answers from other threads.  The three critical *)
(* sections of the code - the two locked accesses to PENDING and the       *)
(* channel operation - are separate steps, because nothing holds the lock  *)
(* across them.                                                            *)
(*                                                                         *)
(* An element of Apdu stands for one call of AsyncChannel::transceive, and *)
(* also for the channel that call creates and for the chip's response to   *)
(* it: what a worker gets back is right exactly when it is its own Apdu.   *)
(***************************************************************************)
EXTENDS Naturals, FiniteSets

CONSTANTS
  Worker,       \* threads running a read (PENDING is shared by all of them)
  Apdu,         \* the transceive calls of the run
  NoApdu,       \* a worker between two calls; an empty channel slot
  Failed,       \* Answer None: the host reports that the exchange failed
  TimedOut      \* recv_timeout expired

ASSUME BridgeConstants ==
  /\ NoApdu \notin Apdu /\ Failed \notin Apdu /\ TimedOut \notin Apdu
  /\ NoApdu # Failed /\ NoApdu # TimedOut /\ Failed # TimedOut

VARIABLES
  next,      \* NEXT, the id the next exchange gets
  id,        \* id[a]: the id exchange a was given, 0 before
  pending,   \* PENDING: set of [id, chan], at most one entry per id
  stage,     \* stage[a]: how far transceive call a has come
  running,   \* running[w]: the call worker w is in
  slot,      \* slot[a]: the content of a's sync_channel(1)
  outcome,   \* outcome[a]: what recv_timeout returned
  host,      \* host[a]: the posted callback, before and after it ran
  buffer,    \* buffer[a]: the boxed APDU handed to the host
  sending,   \* supply calls that have taken a sender and not yet sent
  accepted,  \* accepted[a]: how often supply returned true for a's id
  refused    \* refused[a]: supply has returned false for a's id

workerVars == <<next, id, stage, running, outcome>>
hostVars == <<host, buffer>>
replyVars == <<accepted, refused>>
vars == <<workerVars, pending, slot, hostVars, sending, replyVars>>

-----------------------------------------------------------------------------

Answer == Apdu \cup {Failed}
Outcome == Answer \cup {TimedOut, NoApdu}
Stage == {"unused", "opened", "parked", "settled", "cleaned", "returned"}

TypeOK ==
  /\ next \in Nat \ {0}
  /\ id \in [Apdu -> Nat] /\ \A a \in Apdu : id[a] < next
  /\ pending \subseteq [id : Nat, chan : Apdu]
  /\ stage \in [Apdu -> Stage]
  /\ running \in [Worker -> Apdu \cup {NoApdu}]
  /\ slot \in [Apdu -> Answer \cup {NoApdu}]
  /\ outcome \in [Apdu -> Outcome]
  /\ host \in [Apdu -> {"none", "posted", "copied"}]
  /\ buffer \in [Apdu -> {"none", "live", "freed"}]
  /\ sending \subseteq [chan : Apdu, answer : Answer]
  /\ accepted \in [Apdu -> Nat]
  /\ refused \in [Apdu -> BOOLEAN]

Init ==
  /\ next = 1
  /\ id = [a \in Apdu |-> 0]
  /\ pending = {}
  /\ stage = [a \in Apdu |-> "unused"]
  /\ running = [w \in Worker |-> NoApdu]
  /\ slot = [a \in Apdu |-> NoApdu]
  /\ outcome = [a \in Apdu |-> NoApdu]
  /\ host = [a \in Apdu |-> "none"]
  /\ buffer = [a \in Apdu |-> "none"]
  /\ sending = {}
  /\ accepted = [a \in Apdu |-> 0]
  /\ refused = [a \in Apdu |-> FALSE]

\* HashMap::remove: the entries that stay when key i goes.
Without(i) == {p \in pending : p.id # i}

\* The Receiver lives in the Exchange, which wait() consumes.
ReceiverAlive(a) == stage[a] \in {"opened", "parked", "settled", "cleaned"}

-----------------------------------------------------------------------------
(* The worker thread: AsyncChannel::transceive and Exchange::wait.         *)

\* Faulty: ids come from the smallest free key, so a slot is reused.
OpenReusingId(w, a) ==
  LET taken == {p.id : p \in pending}
      i == CHOOSE n \in 1 .. Cardinality(taken) + 1 :
             n \notin taken /\ \A m \in 1 .. n - 1 : m \in taken
  IN /\ running[w] = NoApdu
     /\ stage[a] = "unused"
     /\ id' = [id EXCEPT ![a] = i]
     /\ pending' = pending \cup {[id |-> i, chan |-> a]}
     /\ stage' = [stage EXCEPT ![a] = "opened"]
     /\ running' = [running EXCEPT ![w] = a]
     /\ UNCHANGED <<next, slot, outcome, hostVars, sending, replyVars>>

\* Exchange::open: take an id, create the channel, register the sender.
Open(w, a) ==
  /\ running[w] = NoApdu
  /\ stage[a] = "unused"
  /\ next' = next + 1
  /\ id' = [id EXCEPT ![a] = next]
  /\ pending' = Without(next) \cup {[id |-> next, chan |-> a]}
  /\ stage' = [stage EXCEPT ![a] = "opened"]
  /\ running' = [running EXCEPT ![w] = a]
  /\ UNCHANGED <<slot, outcome, hostVars, sending, replyVars>>

\* Box the APDU, give it away, and call the host's callback.
Post(w, a) ==
  /\ running[w] = a
  /\ stage[a] = "opened"
  /\ stage' = [stage EXCEPT ![a] = "parked"]
  /\ buffer' = [buffer EXCEPT ![a] = "live"]
  /\ host' = [host EXCEPT ![a] = "posted"]
  /\ UNCHANGED <<next, id, running, outcome, pending, slot, sending, replyVars>>

\* recv_timeout returns what the slot holds ...
Receive(w, a) ==
  /\ running[w] = a
  /\ stage[a] = "parked"
  /\ slot[a] # NoApdu
  /\ outcome' = [outcome EXCEPT ![a] = slot[a]]
  /\ slot' = [slot EXCEPT ![a] = NoApdu]
  /\ stage' = [stage EXCEPT ![a] = "settled"]
  /\ UNCHANGED <<next, id, running, pending, hostVars, sending, replyVars>>

\* Faulty: recv() in place of recv_timeout().
TimeoutNever(w, a) == FALSE /\ UNCHANGED vars

\* ... or gives up after EXCHANGE_TIMEOUT, having found it empty.
Timeout(w, a) ==
  /\ running[w] = a
  /\ stage[a] = "parked"
  /\ slot[a] = NoApdu
  /\ outcome' = [outcome EXCEPT ![a] = TimedOut]
  /\ stage' = [stage EXCEPT ![a] = "settled"]
  /\ UNCHANGED <<next, id, running, pending, slot, hostVars, sending, replyVars>>

\* Faulty: the map is cleared rather than one id removed.
CleanupClearing(w, a) ==
  /\ running[w] = a
  /\ stage[a] = "settled"
  /\ pending' = {}
  /\ stage' = [stage EXCEPT ![a] = "cleaned"]
  /\ UNCHANGED <<next, id, running, outcome, slot, hostVars, sending, replyVars>>

\* Faulty: an early return on the timeout path skips the removal.
CleanupUnlessTimedOut(w, a) ==
  /\ running[w] = a
  /\ stage[a] = "settled"
  /\ pending' = IF outcome[a] = TimedOut THEN pending ELSE Without(id[a])
  /\ stage' = [stage EXCEPT ![a] = "cleaned"]
  /\ UNCHANGED <<next, id, running, outcome, slot, hostVars, sending, replyVars>>

\* "Whatever happened, this id is finished with."
Cleanup(w, a) ==
  /\ running[w] = a
  /\ stage[a] = "settled"
  /\ pending' = Without(id[a])
  /\ stage' = [stage EXCEPT ![a] = "cleaned"]
  /\ UNCHANGED <<next, id, running, outcome, slot, hostVars, sending, replyVars>>

\* wait() returns and drops the Exchange, and with it the receiver.
Return(w, a) ==
  /\ running[w] = a
  /\ stage[a] = "cleaned"
  /\ stage' = [stage EXCEPT ![a] = "returned"]
  /\ running' = [running EXCEPT ![w] = NoApdu]
  /\ UNCHANGED <<next, id, outcome, pending, slot, hostVars, sending, replyVars>>

WorkerStep(w) ==
  \E a \in Apdu :
    \/ Open(w, a) \/ Post(w, a) \/ Receive(w, a)
    \/ Timeout(w, a) \/ Cleanup(w, a) \/ Return(w, a)

-----------------------------------------------------------------------------
(* The host.  It may be slow, may drop an exchange, may answer twice.      *)

\* The listener copies the bytes, frees the buffer and queues the exchange.
CopyAndFree(a) ==
  /\ host[a] = "posted"
  /\ host' = [host EXCEPT ![a] = "copied"]
  /\ buffer' = [buffer EXCEPT ![a] = "freed"]
  /\ UNCHANGED <<workerVars, pending, slot, sending, replyVars>>

\* Faulty: the sender is looked up, not taken out.
SupplyKeepingSender(a, answer) ==
  /\ host[a] = "copied"
  /\ \E p \in pending :
       /\ p.id = id[a]
       /\ sending' = sending \cup {[chan |-> p.chan, answer |-> answer]}
  /\ UNCHANGED <<workerVars, pending, slot, hostVars, replyVars>>

\* supply, first half: under the lock, take the sender out of the map.
Supply(a, answer) ==
  /\ host[a] = "copied"
  /\ \E p \in pending :
       /\ p.id = id[a]
       /\ pending' = Without(id[a])
       /\ sending' = sending \cup {[chan |-> p.chan, answer |-> answer]}
  /\ UNCHANGED <<workerVars, slot, hostVars, replyVars>>

\* supply finds no sender: false.
SupplyUnknown(a) ==
  /\ host[a] = "copied"
  /\ \A p \in pending : p.id # id[a]
  /\ refused' = [refused EXCEPT ![a] = TRUE]
  /\ UNCHANGED <<workerVars, pending, slot, hostVars, sending, accepted>>

\* supply, second half, outside the lock: send succeeds while the receiver
\* lives, and would block on a full slot.
Send(call) ==
  LET a == call.chan IN
  /\ ReceiverAlive(a)
  /\ slot[a] = NoApdu
  /\ slot' = [slot EXCEPT ![a] = call.answer]
  /\ accepted' = [accepted EXCEPT ![a] = @ + 1]
  /\ sending' = sending \ {call}
  /\ UNCHANGED <<workerVars, pending, hostVars, refused>>

\* "A failed send means the waiter gave up first."
SendTooLate(call) ==
  /\ ~ReceiverAlive(call.chan)
  /\ refused' = [refused EXCEPT ![call.chan] = TRUE]
  /\ sending' = sending \ {call}
  /\ UNCHANGED <<workerVars, pending, slot, hostVars, accepted>>

HostStep ==
  \/ \E a \in Apdu : CopyAndFree(a) \/ SupplyUnknown(a)
  \/ \E a \in Apdu : \E answer \in {a, Failed} : Supply(a, answer)
  \/ \E call \in sending : Send(call) \/ SendTooLate(call)

Next == HostStep \/ \E w \in Worker : WorkerStep(w)

\* The worker is an ordinary thread and recv_timeout has a deadline, so a
\* worker that can step does.  Nothing is assumed of the host.
Fairness == \A w \in Worker : WF_vars(WorkerStep(w))

Spec == Init /\ [][Next]_vars /\ Fairness

-----------------------------------------------------------------------------
(* Properties.                                                             *)

\* What a worker is handed is the response to the APDU it posted, or the
\* host's report about that APDU, however late or often the host answers
\* other exchanges (bridge.rs: a duplicate "must not land on a later exchange").
OwnAnswer == \A a \in Apdu : outcome[a] \in {a, Failed, TimedOut, NoApdu}

\* "An exchange is answered only once": supply says true at most once.
AcceptedOnce == \A a \in Apdu : accepted[a] <= 1

\* sync_channel(1) never makes the host wait: whoever holds the sender finds
\* the slot free, and nobody else holds it.
HostNeverBlocks ==
  \A c \in sending :
    /\ slot[c.chan] = NoApdu
    /\ \A d \in sending : d.chan = c.chan => d = c

\* Supply refuses an answer only for an exchange that somebody already
\* answered, or whose waiter has timed out: a first, timely answer is taken.
RefusedOnlyWhenSettled ==
  \A a \in Apdu : refused[a] =>
    \/ accepted[a] > 0
    \/ outcome[a] = TimedOut
    \/ \E c \in sending : c.chan = a

\* A finished call leaves nothing behind in PENDING, answered or not.
NoStaleEntry == \A p \in pending : stage[p.chan] \in {"opened", "parked", "settled"}

\* A worker that timed out does not take the posted APDU buffer with it: it
\* is live whenever the host's callback runs, however late.
BufferOutlivesWait == \A a \in Apdu : host[a] = "posted" => buffer[a] = "live"

\* A host that drops an exchange does not park the thread forever.
EveryCallReturns ==
  \A a \in Apdu : (stage[a] = "opened") ~> (stage[a] = "returned")
=============================================================================
