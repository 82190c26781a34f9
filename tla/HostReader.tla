----------------------------- MODULE HostReader -----------------------------
(***************************************************************************)
(* The host's side of a read: PassportReader (passport_reader.dart) on the *)
(* main isolate, the worker isolate that runs the blocking protocol, the   *)
(* NFC plugin, and the two time limits, five seconds at the tag and thirty *)
(* in the bridge.  Reads follow one another on one phone; an exchange has  *)
(* the number the bridge gave it, so that numbers go on from read to read. *)
(*                                                                         *)
(* Everything that reaches the main isolate - a posted callback, a message *)
(* of its own port, an answer of the plugin, the end of the worker - waits *)
(* in one event queue and is handled in the order of arrival.  Bridge      *)
(* models the threads inside supply and wait; here each is one step.       *)
(*                                                                         *)
(* External: the plugin exchanges one APDU at a time and in order, and an  *)
(* exchange that outlives its NFC session fails.                           *)
(***************************************************************************)
EXTENDS Naturals, Sequences

CONSTANTS
  Reads,       \* bound: calls of PassportReader.read
  Exchanges    \* bound: APDUs of all reads together

ASSUME HostReaderConstants == Reads \in Nat /\ Exchanges \in Nat

VARIABLES
  phase,      \* the read under way: "idle", "polled", "reading", "closing"
  read,       \* its number
  nfc,        \* the read whose NFC session is open, or 0
  listening,  \* the reads whose callable, port and subscription are open
  events,     \* the main isolate's event queue
  worker,     \* the worker isolate, parked in wait() or not
  posted,     \* how many exchanges the bridge has opened
  exchange,   \* what became of each of them
  tag,        \* the exchanges the plugin holds, the first at the tag
  tagAge,     \* how long the first has been there
  stalled     \* time passed that no time limit of the host accounts for

main == <<phase, read, nfc, listening>>
hostVars == <<main, events, worker, posted, exchange, tag, tagAge, stalled>>

-----------------------------------------------------------------------------
(* Times are in units of five seconds.                                     *)

\* Faulty: as long as the bridge waits.
ApduTimeoutAsLong == 6

\* _apduTimeout
ApduTimeout == 1

\* EXCHANGE_TIMEOUT of the bridge
ExchangeTimeout == 6

NoWorker == [step |-> "none", id |-> 0, age |-> 0, fallback |-> FALSE, failed |-> FALSE]
Unused == [read |-> 0, buffer |-> "none", sent |-> 0, outcome |-> "none"]

HostInit ==
  /\ phase = "idle" /\ read = 1 /\ nfc = 0 /\ listening = {}
  /\ events = <<>>
  /\ worker = NoWorker
  /\ posted = 0
  /\ exchange = [e \in 1 .. Exchanges |-> Unused]
  /\ tag = <<>> /\ tagAge = 0
  /\ stalled = FALSE

EventRecord ==
  [kind : {"callback", "message", "answer", "refusal", "end"}, id : 0 .. Exchanges]
WorkerRecord ==
  [step : {"none", "running", "waiting", "returned"}, id : 0 .. Exchanges,
   age : 0 .. ExchangeTimeout, fallback : BOOLEAN, failed : BOOLEAN]
ExchangeRecord ==
  [read : 0 .. Reads, buffer : {"none", "live", "freed"}, sent : 0 .. Reads + 1,
   outcome : {"none", "answered", "failed", "timedOut"}]

HostTypeOK ==
  /\ phase \in {"idle", "polled", "reading", "closing"}
  /\ read \in 1 .. Reads + 1 /\ nfc \in 0 .. Reads /\ listening \subseteq 1 .. Reads
  /\ events \in Seq(EventRecord)
  /\ worker \in WorkerRecord
  /\ posted \in 0 .. Exchanges
  /\ exchange \in [1 .. Exchanges -> ExchangeRecord]
  /\ tag \in Seq(1 .. Exchanges) /\ tagAge \in 0 .. ApduTimeout
  /\ stalled \in BOOLEAN

Event(kind, id) == [kind |-> kind, id |-> id]

-----------------------------------------------------------------------------
(* The worker isolate: _runRead.                                           *)

\* A read goes on after a failed exchange where PACE failed and BAC is tried.
GoesOn == ~worker.failed \/ ~worker.fallback

\* The protocol's next APDU: AsyncChannel::transceive posts it and waits.
Post ==
  /\ worker.step = "running" /\ GoesOn
  /\ posted < Exchanges
  /\ posted' = posted + 1
  /\ exchange' = [exchange EXCEPT ![posted + 1] =
                     [read |-> read, buffer |-> "live", sent |-> 0, outcome |-> "none"]]
  /\ worker' = [step |-> "waiting", id |-> posted + 1, age |-> 0,
                fallback |-> worker.fallback \/ worker.failed, failed |-> FALSE]
  /\ events' = Append(events, Event("callback", posted + 1))
  /\ UNCHANGED <<main, tag, tagAge, stalled>>

\* What wait() returns.
Settle(e, outcome) ==
  /\ exchange' = [exchange EXCEPT ![e].outcome = outcome]
  /\ worker' = [worker EXCEPT !.step = "running", !.failed = (outcome # "answered")]

\* Faulty: the bridge waits as long as it takes.
WaitExpiresNever == FALSE /\ UNCHANGED hostVars

\* recv_timeout gives up.
WaitExpires ==
  /\ worker.step = "waiting" /\ worker.age = ExchangeTimeout
  /\ Settle(worker.id, "timedOut")
  /\ UNCHANGED <<main, events, posted, tag, tagAge, stalled>>

\* The read is over, well or badly; Isolate.run reports it to the main isolate.
Return ==
  /\ worker.step = "running"
  /\ worker' = [worker EXCEPT !.step = "returned"]
  /\ events' = Append(events, Event("end", 0))
  /\ UNCHANGED <<main, posted, exchange, tag, tagAge, stalled>>

-----------------------------------------------------------------------------
(* The main isolate: read and _readInSession.                              *)

\* poll finds a tag: the try block of read begins.
Poll ==
  /\ phase = "idle" /\ read <= Reads
  /\ phase' = "polled" /\ nfc' = read
  /\ UNCHANGED <<read, listening, events, worker, posted, exchange, tag, tagAge, stalled>>

\* poll throws, outside of the try block.
PollFails ==
  /\ phase = "idle" /\ read <= Reads
  /\ read' = read + 1
  /\ UNCHANGED <<phase, nfc, listening, events, worker, posted, exchange, tag, tagAge, stalled>>

\* IdentityBindings.instance throws: the library is of another ABI.
BindingFails ==
  /\ phase = "polled"
  /\ phase' = "closing"
  /\ UNCHANGED <<read, nfc, listening, events, worker, posted, exchange, tag, tagAge, stalled>>

\* Faulty: the future of the worker is returned and not awaited, so that the
\* finally blocks run as soon as it has been spawned.
SpawnUnawaited ==
  /\ phase = "polled"
  /\ phase' = "closing"
  /\ worker' = [NoWorker EXCEPT !.step = "running"]
  /\ UNCHANGED <<read, nfc, listening, events, posted, exchange, tag, tagAge, stalled>>

\* The port, the callable and the subscription are made, the worker spawned.
Spawn ==
  /\ phase = "polled"
  /\ phase' = "reading"
  /\ listening' = listening \cup {read}
  /\ worker' = [NoWorker EXCEPT !.step = "running"]
  /\ UNCHANGED <<read, nfc, events, posted, exchange, tag, tagAge, stalled>>

Waiting(kind) == events # <<>> /\ Head(events).kind = kind
Subject == Head(events).id

\* The listener copies the APDU, frees it and sends itself a message.  When
\* the callable is closed the callback does not run.
RunCallback ==
  /\ Waiting("callback")
  /\ IF exchange[Subject].read \in listening
       THEN /\ exchange' = [exchange EXCEPT ![Subject].buffer = "freed"]
            /\ events' = Append(Tail(events), Event("message", Subject))
       ELSE /\ UNCHANGED exchange
            /\ events' = Tail(events)
  /\ UNCHANGED <<main, worker, posted, tag, tagAge, stalled>>

\* The subscription hands the message to _answer, which asks the plugin.
TakeMessage ==
  /\ Waiting("message")
  /\ IF exchange[Subject].read \in listening
       THEN /\ exchange' = [exchange EXCEPT ![Subject].sent = IF nfc = 0 THEN Reads + 1 ELSE nfc]
            /\ tag' = Append(tag, Subject)
       ELSE UNCHANGED <<exchange, tag>>
  /\ events' = Tail(events)
  /\ UNCHANGED <<main, worker, posted, tagAge, stalled>>

\* _answer goes on: supplyApdu, which refuses what nobody waits for.
Supply(kind, outcome) ==
  /\ Waiting(kind)
  /\ IF worker.step = "waiting" /\ worker.id = Subject
       THEN Settle(Subject, outcome)
       ELSE UNCHANGED <<exchange, worker>>
  /\ events' = Tail(events)
  /\ UNCHANGED <<main, posted, tag, tagAge, stalled>>

SupplyResponse == Supply("answer", "answered")
SupplyFailure == Supply("refusal", "failed")

\* Faulty: the subscription outlives the read.
EndListening ==
  /\ Waiting("end")
  /\ phase' = "closing"
  /\ worker' = NoWorker
  /\ events' = Tail(events)
  /\ UNCHANGED <<read, nfc, listening, posted, exchange, tag, tagAge, stalled>>

\* The worker's result is parsed or its error thrown; either way the finally
\* block of _readInSession cancels the subscription and closes the rest.
End ==
  /\ Waiting("end")
  /\ phase' = "closing"
  /\ listening' = listening \ {read}
  /\ worker' = NoWorker
  /\ events' = Tail(events)
  /\ UNCHANGED <<read, nfc, posted, exchange, tag, tagAge, stalled>>

\* The finally block of read.
FinishSession ==
  /\ phase = "closing"
  /\ phase' = "idle" /\ read' = read + 1 /\ nfc' = 0
  /\ UNCHANGED <<listening, events, worker, posted, exchange, tag, tagAge, stalled>>

-----------------------------------------------------------------------------
(* The plugin and the passing of time.                                     *)

\* The tag answers, in the session it was asked in ...
TagAnswers ==
  /\ tag # <<>> /\ nfc = exchange[Head(tag)].sent
  /\ events' = Append(events, Event("answer", Head(tag)))
  /\ tag' = Tail(tag) /\ tagAge' = 0
  /\ UNCHANGED <<main, worker, posted, exchange, stalled>>

\* ... or it has moved away, the time limit has passed, the session is over.
TagFails ==
  /\ tag # <<>>
  /\ events' = Append(events, Event("refusal", Head(tag)))
  /\ tag' = Tail(tag) /\ tagAge' = 0
  /\ UNCHANGED <<main, worker, posted, exchange, stalled>>

Older(age, limit) == IF age < limit THEN age + 1 ELSE age

\* Five seconds pass.  A host in the foreground has handled its events by
\* then, and a plugin that honours the time limit has failed the exchange.
Tick ==
  /\ worker.step = "waiting"
  /\ worker' = [worker EXCEPT !.age = Older(@, ExchangeTimeout)]
  /\ tagAge' = IF tag = <<>> THEN 0 ELSE Older(tagAge, ApduTimeout)
  /\ stalled' = (stalled \/ events # <<>> \/ (tag # <<>> /\ tagAge = ApduTimeout))
  /\ UNCHANGED <<main, events, posted, exchange, tag>>

-----------------------------------------------------------------------------

WorkerStep == Post \/ WaitExpires \/ Return
MainStep ==
  \/ BindingFails \/ Spawn
  \/ RunCallback \/ TakeMessage \/ SupplyResponse \/ SupplyFailure \/ End
  \/ FinishSession

HostNext == WorkerStep \/ MainStep \/ Poll \/ PollFails \/ TagAnswers \/ TagFails \/ Tick

\* The isolates run and time passes.  Nothing is assumed of the tag, nor that
\* the plugin ever answers.
HostFairness == WF_hostVars(WorkerStep) /\ WF_hostVars(MainStep) /\ WF_hostVars(Tick)

HostSpec == HostInit /\ [][HostNext]_hostVars /\ HostFairness

-----------------------------------------------------------------------------
(* Properties.                                                             *)

\* The APDUs of a read go to the tag of its own NFC session and no other, the
\* worker only ever runs inside that session, and only an APDU that was sent
\* is answered - however late the host is, and whatever an earlier read left
\* in its queues.
ReadKeepsToItsTag ==
  /\ worker.step # "none" => nfc = read
  /\ \A e \in 1 .. Exchanges :
       /\ exchange[e].sent \in {0, exchange[e].read}
       /\ exchange[e].outcome = "answered" => exchange[e].sent # 0

\* A read gives everything back: when its listener is closed no callback is
\* left that would have freed a buffer, and a phone at rest holds neither a
\* listener nor a session.
ReadLeavesNothing ==
  /\ \A e \in 1 .. Exchanges :
       exchange[e].buffer = "live" => exchange[e].read \in listening
  /\ phase = "idle" => listening = {} /\ nfc = 0

\* "A lost tag should surface as an error in a second, not in thirty": the
\* bridge's own time limit is reached only when the host stands still or the
\* plugin overruns the limit it was given.
LossSurfacesInTime ==
  \A e \in 1 .. Exchanges : exchange[e].outcome = "timedOut" => stalled

\* "Always close the session": whatever the tag, the plugin and the worker
\* do, the NFC session ends.
SessionEnds == \A r \in 1 .. Reads : (nfc = r) ~> (nfc # r)
=============================================================================
