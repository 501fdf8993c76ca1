------------------------- MODULE TransactionPipeline -------------------------
(***************************************************************************)
(* The life of a transaction from POST /transactions to its final status:  *)
(* TransactionsService.create stores a PENDING row and hands an event to   *)
(* RabbitMQService.publish; the broker's durable queue delivers it to the  *)
(* callback RabbitMQService.consume registered, which runs                 *)
(* TransactionsWorker.processTransaction and acknowledges the message.     *)
(*                                                                         *)
(* PostgreSQL, the broker and the channel wrapper of                       *)
(* amqp-connection-manager are modelled from how src/ uses them.  A step   *)
(* is what one process does between two awaits, or one answer of a         *)
(* database or of the broker.                                              *)
(***************************************************************************)
EXTENDS Naturals

CONSTANTS
    Tx,         \* the create requests, and the ids of the rows they insert
    Msg,        \* places in the broker's queue: bounds the messages alive at once
    Job,        \* running consume callbacks: bounds the deliveries alive at once
    MaxFaults   \* bound on connection losses, failed starts and crashes

ASSUME PipelineAssumption == MaxFaults \in Nat

VARIABLES
    proc,       \* the Node process: "down", "init" (module hooks) or "up" (listening)
    ready,      \* RabbitMQService.isReady
    channel,    \* the channel exists and its setup functions, consumer included, ran
    rows,       \* status column of the transactions table, "Absent" before the insert
    pc,         \* progress of TransactionsService.create, per request
    pub,        \* the event of a request inside RabbitMQService.publish
    msg,        \* messages the broker holds
    job,        \* invocations of the consume callback
    dropped,    \* transactions whose message was rejected without requeue
    faults,     \* environment faults so far
    disturbed   \* history: transactions whose event was under way when a channel was lost

vars == <<proc, ready, channel, rows, pc, pub, msg, job, dropped, faults, disturbed>>

Final == {"SUCCESS", "FAILED"}
Status == {"Absent", "PENDING"} \cup Final

Free == [at |-> "free"]
Held(t, at) == [at |-> at, tx |-> t]
Places == {"queued", "unacked", "acking", "nacking"}

Idle == [phase |-> "idle"]
Busy == [phase : {"working", "fallback", "settling"}, tx : Tx, msg : Msg, live : BOOLEAN]

TypeOK ==
    /\ proc \in {"down", "init", "up"}
    /\ ready \in BOOLEAN
    /\ channel \in BOOLEAN
    /\ rows \in [Tx -> Status]
    /\ pc \in [Tx -> {"idle", "inserted", "created", "failed"}]
    /\ pub \in [Tx -> {"none", "queued", "sent", "confirmed", "skipped", "rejected", "lost"}]
    /\ msg \in [Msg -> {Free} \cup [at : Places, tx : Tx]]
    /\ job \in [Job -> {Idle} \cup Busy]
    /\ dropped \subseteq Tx
    /\ faults \in 0 .. MaxFaults
    /\ disturbed \subseteq Tx

Init ==
    /\ proc = "down"
    /\ ready = FALSE
    /\ channel = FALSE
    /\ rows = [t \in Tx |-> "Absent"]
    /\ pc = [t \in Tx |-> "idle"]
    /\ pub = [t \in Tx |-> "none"]
    /\ msg = [m \in Msg |-> Free]
    /\ job = [j \in Job |-> Idle]
    /\ dropped = {}
    /\ faults = 0
    /\ disturbed = {}

connection == <<proc, ready, channel, faults, disturbed>>

\* The broker holds the event, or was sent it and has not confirmed it: when the channel is
\* lost now, it may be delivered, or sent, once more.
InBroker(t) == \E m \in Msg : msg[m] # Free /\ msg[m].tx = t
UnderWay(t) == pub[t] = "sent" \/ InBroker(t)

-----------------------------------------------------------------------------
(***************************************************************************)
(* Start-up, connection events and failures.                               *)
(***************************************************************************)

\* bootstrap(): the module hooks run before the HTTP server listens.
Start ==
    /\ proc = "down"
    /\ proc' = "init"
    /\ UNCHANGED <<ready, channel, rows, pc, pub, msg, job, dropped, faults, disturbed>>

\* The connection manager reports 'connect'.
Connect ==
    /\ proc # "down"
    /\ ~ready
    /\ ready' = TRUE
    /\ UNCHANGED <<proc, channel, rows, pc, pub, msg, job, dropped, faults, disturbed>>

\* The wrapper opens the channel and runs its setup functions: exchange, queue, binding
\* and, through consume, the consumer.  It runs them again after a reconnection.
SetupChannel ==
    /\ ready
    /\ ~channel
    /\ channel' = TRUE
    /\ UNCHANGED <<proc, ready, rows, pc, pub, msg, job, dropped, faults, disturbed>>

\* waitForConnection saw isReady; consume does not wait for a channel that is not open
\* yet, and the HTTP server listens.
Listen ==
    /\ proc = "init"
    /\ ready
    /\ proc' = "up"
    /\ UNCHANGED <<ready, channel, rows, pc, pub, msg, job, dropped, faults, disturbed>>

\* Mutant: the consumer takes messages with noAck, nothing is left to put back.
RequeuedNoAck == [m \in Msg |-> IF msg[m].at = "queued" THEN msg[m] ELSE Free]

\* The broker puts back whatever was delivered and not yet settled.
Requeued ==
    [m \in Msg |-> IF msg[m] = Free THEN Free ELSE Held(msg[m].tx, "queued")]

\* The connection is lost ('disconnect').  Callbacks that are running go on, holding a
\* channel that is closed.  The wrapper resends some of the unconfirmed messages.
LinkDown ==
    /\ ready
    /\ faults < MaxFaults
    /\ faults' = faults + 1
    /\ ready' = FALSE
    /\ channel' = FALSE
    /\ msg' = Requeued
    /\ job' = [j \in Job |->
                 IF job[j] = Idle THEN Idle ELSE [job[j] EXCEPT !.live = FALSE]]
    /\ \E resent \in SUBSET Tx :
         pub' = [t \in Tx |-> IF pub[t] # "sent" THEN pub[t]
                              ELSE IF t \in resent THEN "queued" ELSE "lost"]
    /\ disturbed' = disturbed \cup {t \in Tx : UnderWay(t)}
    /\ UNCHANGED <<proc, rows, pc, dropped>>

\* The process ends: its memory is lost, PostgreSQL and the durable queue are not.
ProcessDies ==
    /\ proc' = "down"
    /\ ready' = FALSE
    /\ channel' = FALSE
    /\ msg' = Requeued
    /\ job' = [j \in Job |-> Idle]
    /\ pc' = [t \in Tx |-> IF pc[t] = "inserted" THEN "failed" ELSE pc[t]]
    /\ pub' = [t \in Tx |-> IF pub[t] \in {"queued", "sent"} THEN "lost" ELSE pub[t]]
    /\ disturbed' = disturbed \cup {t \in Tx : UnderWay(t)}
    /\ UNCHANGED <<rows, dropped>>

Crash ==
    /\ proc # "down"
    /\ faults < MaxFaults
    /\ faults' = faults + 1
    /\ ProcessDies

\* waitForConnection gives up after 10 seconds and bootstrap() rejects.
StartTimeout ==
    /\ proc = "init"
    /\ ~ready
    /\ faults < MaxFaults
    /\ faults' = faults + 1
    /\ ProcessDies

-----------------------------------------------------------------------------
(***************************************************************************)
(* TransactionsService.create and the publication of the event.            *)
(***************************************************************************)

\* The row is saved; the request goes on to clear the merchant's cached page.
Insert(t) ==
    /\ proc = "up"
    /\ pc[t] = "idle"
    /\ rows' = [rows EXCEPT ![t] = "PENDING"]
    /\ pc' = [pc EXCEPT ![t] = "inserted"]
    /\ UNCHANGED <<connection, pub, msg, job, dropped>>

\* save rejects, before or after PostgreSQL committed the row.
InsertFails(t) ==
    /\ proc = "up"
    /\ pc[t] = "idle"
    /\ \E committed \in BOOLEAN :
         rows' = IF committed THEN [rows EXCEPT ![t] = "PENDING"] ELSE rows
    /\ pc' = [pc EXCEPT ![t] = "failed"]
    /\ UNCHANGED <<connection, pub, msg, job, dropped>>

\* The cache's del rejects: create throws, the row stays and no event is published.
InvalidateFails(t) ==
    /\ pc[t] = "inserted"
    /\ pc' = [pc EXCEPT ![t] = "failed"]
    /\ UNCHANGED <<connection, rows, pub, msg, job, dropped>>

\* Mutant: publish is called without waiting for the insert.
PublishEagerly(t) ==
    /\ proc = "up"
    /\ pc[t] \in {"idle", "inserted"}
    /\ pc' = [pc EXCEPT ![t] = "created"]
    /\ pub' = [pub EXCEPT ![t] = IF ready THEN "queued" ELSE "skipped"]
    /\ UNCHANGED <<connection, rows, msg, job, dropped>>

\* del resolved: publish looks at isReady once, leaves the event to the channel wrapper
\* or drops it, and the client is answered without waiting for the wrapper.
Publish(t) ==
    /\ pc[t] = "inserted"
    /\ pc' = [pc EXCEPT ![t] = "created"]
    /\ pub' = [pub EXCEPT ![t] = IF ready THEN "queued" ELSE "skipped"]
    /\ UNCHANGED <<connection, rows, msg, job, dropped>>

\* The wrapper sends a buffered message and the broker stores it.
Send(t) ==
    /\ channel
    /\ pub[t] = "queued"
    /\ pub' = [pub EXCEPT ![t] = "sent"]
    /\ \E m \in Msg :
         /\ msg[m] = Free
         /\ msg' = [msg EXCEPT ![m] = Held(t, "queued")]
    /\ UNCHANGED <<connection, rows, pc, job, dropped>>

\* The broker's confirm resolves the publication.
Confirm(t) ==
    /\ pub[t] = "sent"
    /\ pub' = [pub EXCEPT ![t] = "confirmed"]
    /\ UNCHANGED <<connection, rows, pc, msg, job, dropped>>

\* The wrapper rejects the publication: create's catch logs it and nothing retries.
PublishFails(t) ==
    /\ channel
    /\ pub[t] = "queued"
    /\ pub' = [pub EXCEPT ![t] = "rejected"]
    /\ UNCHANGED <<connection, rows, pc, msg, job, dropped>>

-----------------------------------------------------------------------------
(***************************************************************************)
(* The consume callback and TransactionsWorker.processTransaction.  No     *)
(* prefetch is set, so the broker delivers without waiting for an ack.     *)
(***************************************************************************)

Deliver(j, m) ==
    /\ channel
    /\ job[j] = Idle
    /\ msg[m].at = "queued"
    /\ msg' = [msg EXCEPT ![m].at = "unacked"]
    /\ job' = [job EXCEPT ![j] =
                 [phase |-> "working", tx |-> msg[m].tx, msg |-> m, live |-> TRUE]]
    /\ UNCHANGED <<connection, rows, pc, pub, dropped>>

\* Mutant: the worker writes a status the enum does not have.
SetStatusUnknown(t, status) ==
    rows' = [rows EXCEPT ![t] = IF status = "SUCCESS" THEN "COMPLETED" ELSE status]

\* After its five seconds the worker draws an outcome and the update succeeds.
\* UPDATE ... WHERE id = ? touches no row when there is none.
SetStatus(t, status) ==
    rows' = IF rows[t] = "Absent" THEN rows ELSE [rows EXCEPT ![t] = status]

Decide(j, outcome) ==
    /\ job[j].phase = "working"
    /\ SetStatus(job[j].tx, outcome)
    /\ job' = [job EXCEPT ![j].phase = "settling"]
    /\ UNCHANGED <<connection, pc, pub, msg, dropped>>

\* The update rejects, before or after it took effect; the catch block takes over.
DecideFails(j, outcome) ==
    /\ job[j].phase = "working"
    /\ \E applied \in BOOLEAN :
         IF applied THEN SetStatus(job[j].tx, outcome) ELSE UNCHANGED rows
    /\ job' = [job EXCEPT ![j].phase = "fallback"]
    /\ UNCHANGED <<connection, pc, pub, msg, dropped>>

\* The catch block marks the transaction FAILED and the handler resolves.
Fallback(j) ==
    /\ job[j].phase = "fallback"
    /\ SetStatus(job[j].tx, "FAILED")
    /\ job' = [job EXCEPT ![j].phase = "settling"]
    /\ UNCHANGED <<connection, pc, pub, msg, dropped>>

\* Mutant: the callback acknowledges in a finally block, whatever the handler did.
FallbackFailsThenAck(j) ==
    /\ job[j].phase = "fallback"
    /\ job[j].live
    /\ job' = [job EXCEPT ![j] = Idle]
    /\ msg' = [msg EXCEPT ![job[j].msg].at = "acking"]
    /\ UNCHANGED <<connection, rows, pc, pub, dropped>>

\* Both updates rejected: the handler throws and the callback rejects the message
\* without requeue.
FallbackFails(j) ==
    /\ job[j].phase = "fallback"
    /\ job[j].live
    /\ \E applied \in BOOLEAN :
         IF applied THEN SetStatus(job[j].tx, "FAILED") ELSE UNCHANGED rows
    /\ job' = [job EXCEPT ![j] = Idle]
    /\ msg' = [msg EXCEPT ![job[j].msg].at = "nacking"]
    /\ UNCHANGED <<connection, pc, pub, dropped>>

\* Mutant: the callback ends without acknowledging.
AckForgotten(j) ==
    /\ job[j].phase = "settling"
    /\ job[j].live
    /\ job' = [job EXCEPT ![j] = Idle]
    /\ UNCHANGED <<connection, rows, pc, pub, msg, dropped>>

\* Mutant: the handler's promise is not awaited, so the message is acknowledged at once.
AckEarly(j) ==
    /\ job[j].phase \in {"working", "settling"}
    /\ job[j].live
    /\ job' = [job EXCEPT ![j] = Idle]
    /\ msg' = [msg EXCEPT ![job[j].msg].at = "acking"]
    /\ UNCHANGED <<connection, rows, pc, pub, dropped>>

\* The handler resolved: the callback acknowledges.
Ack(j) ==
    /\ job[j].phase = "settling"
    /\ job[j].live
    /\ job' = [job EXCEPT ![j] = Idle]
    /\ msg' = [msg EXCEPT ![job[j].msg].at = "acking"]
    /\ UNCHANGED <<connection, rows, pc, pub, dropped>>

\* Mutant: nack asks the broker to requeue.
SettleRequeue(m) ==
    /\ msg[m].at \in {"acking", "nacking"}
    /\ msg' = [msg EXCEPT ![m] = IF msg[m].at = "nacking" THEN Held(msg[m].tx, "queued") ELSE Free]
    /\ UNCHANGED <<connection, rows, pc, pub, job, dropped>>

\* The broker receives an ack or a nack and forgets the message; the queue has no
\* dead-letter exchange.
Settle(m) ==
    /\ msg[m].at \in {"acking", "nacking"}
    /\ msg' = [msg EXCEPT ![m] = Free]
    /\ dropped' = IF msg[m].at = "nacking" THEN dropped \cup {msg[m].tx} ELSE dropped
    /\ UNCHANGED <<connection, rows, pc, pub, job>>

\* On a closed channel ack throws, and so does the nack in the catch block: the
\* callback's promise rejects unhandled, which ends a Node 20 process.
SettleOnClosedChannel(j) ==
    /\ job[j].phase = "settling"
    /\ ~job[j].live
    /\ ProcessDies
    /\ UNCHANGED faults

\* The same end when both updates rejected and only the nack is tried.  (Had the second
\* one taken effect: Fallback, then SettleOnClosedChannel.)
FallbackFailsOnClosedChannel(j) ==
    /\ job[j].phase = "fallback"
    /\ ~job[j].live
    /\ ProcessDies
    /\ UNCHANGED faults

-----------------------------------------------------------------------------
Environment ==
    \/ Start \/ Connect \/ SetupChannel \/ Listen
    \/ LinkDown \/ Crash \/ StartTimeout

Request(t) ==
    \/ Insert(t) \/ InsertFails(t) \/ InvalidateFails(t)
    \/ Publish(t) \/ Send(t) \/ Confirm(t) \/ PublishFails(t)

Worker(j) ==
    \/ \E m \in Msg : Deliver(j, m)
    \/ \E outcome \in Final : Decide(j, outcome) \/ DecideFails(j, outcome)
    \/ Fallback(j) \/ FallbackFails(j) \/ Ack(j)
    \/ SettleOnClosedChannel(j) \/ FallbackFailsOnClosedChannel(j)

Next ==
    \/ Environment
    \/ \E t \in Tx : Request(t)
    \/ \E j \in Job : Worker(j)
    \/ \E m \in Msg : Settle(m)

Spec == Init /\ [][Next]_vars

(***************************************************************************)
(* Fairness.  A supervisor restarts the process, the connection manager    *)
(* reconnects, an accepted request is carried through by the event loop,   *)
(* the wrapper and the broker do their part and a started callback runs to *)
(* its end.  No client has to send a request, nothing has to fail.         *)
(***************************************************************************)
Fairness ==
    /\ WF_vars(Start) /\ WF_vars(Connect) /\ WF_vars(SetupChannel) /\ WF_vars(Listen)
    /\ \A t \in Tx :
         /\ WF_vars(Publish(t) \/ InvalidateFails(t))
         /\ WF_vars(Send(t) \/ PublishFails(t))
         /\ WF_vars(Confirm(t))
    /\ \A m \in Msg :
         /\ WF_vars(Settle(m))
         /\ WF_vars(\E j \in Job : Deliver(j, m))
    /\ \A j \in Job :
         /\ WF_vars(\E outcome \in Final : Decide(j, outcome) \/ DecideFails(j, outcome))
         /\ WF_vars(\/ Fallback(j) \/ FallbackFails(j)
                    \/ FallbackFailsOnClosedChannel(j))
         /\ WF_vars(Ack(j) \/ SettleOnClosedChannel(j))

FairSpec == Spec /\ Fairness

-----------------------------------------------------------------------------
(***************************************************************************)
(* Properties.                                                             *)
(***************************************************************************)

\* Somebody still holds the transaction: its request, the wrapper or the broker.
Responsible(t) == pc[t] = "inserted" \/ pub[t] = "queued" \/ InBroker(t)

\* The ways the code gives a transaction up: the request failed after the insert, the
\* event was skipped, rejected or lost, or the worker rejected the message.
GivenUp(t) ==
    pc[t] = "failed" \/ pub[t] \in {"skipped", "rejected", "lost"} \/ t \in dropped

\* A row that is still PENDING is either being looked after or was given up in one of
\* the ways listed: no interleaving of deliveries, acknowledgements, lost connections and
\* crashes strands it otherwise (the consume callback acknowledges after the handler).
PendingIsAccountedFor ==
    \A t \in Tx : rows[t] = "PENDING" => Responsible(t) \/ GivenUp(t)

\* Every event, buffered, queued or being processed, is about a stored row; otherwise the
\* worker's update would match no row and the message be acknowledged for nothing
\* (create awaits the insert before it publishes).
EventsReferToRows ==
    /\ \A t \in Tx : pub[t] # "none" => rows[t] # "Absent"
    /\ \A m \in Msg : msg[m] # Free => rows[msg[m].tx] # "Absent"
    /\ \A j \in Job : job[j] # Idle => rows[job[j].tx] # "Absent"

\* An unacknowledged message has exactly one callback on the open channel, about the same
\* transaction, that will settle it: the broker redelivers only when the channel closes,
\* so a callback that ended without ack or nack would leave the message stuck.
UnackedHasOneCallback ==
    \A m \in Msg : msg[m].at = "unacked" =>
        \E j \in Job :
            /\ job[j] # Idle /\ job[j].live /\ job[j].msg = m /\ job[j].tx = msg[m].tx
            /\ \A k \in Job : job[k] # Idle /\ job[k].live /\ job[k].msg = m => k = j

\* The pipeline implements the abstract ledger: whoever is responsible keeps a transaction
\* open, and every way of losing one is an open abandonment.
Ledger == INSTANCE TransactionLedger WITH
    status <- rows,
    open <- {t \in Tx : Responsible(t)},
    abandoned <- {t \in Tx : rows[t] # "Absent" /\ GivenUp(t)}

ImplementsLedger == Ledger!Spec

\* A transaction the client was told is created is decided in the end or openly given up,
\* whatever crashes and connection losses come in between; in particular it is decided, or
\* its message rejected by the worker, once the broker confirmed the event: the durable
\* queue and the late acknowledgement at work.
CreatedIsDecided ==
    \A t \in Tx : pc[t] = "created" ~> (rows[t] \in Final \/ GivenUp(t))

\* No message stays with the broker for ever, queued or unacknowledged, whatever fails: a
\* callback always ends in an ack, a nack or the end of the process that held it.
BrokerDrains == \A t \in Tx : InBroker(t) ~> ~InBroker(t)

\* README "background worker processes them (waits 5 seconds), then randomly succeeds or
\* fails": every transaction the client was told is created leaves PENDING, unless the
\* wrapper rejected its event or both of the worker's updates were rejected.  Nobody would
\* read those two into the sentence; a connection that is lost for a moment is another
\* matter.
CreatedIsProcessed ==
    \A t \in Tx :
        pc[t] = "created" ~> rows[t] \in Final \/ pub[t] = "rejected" \/ t \in dropped

\* A transaction has one outcome, whatever fails, unless its own event was under way when a
\* channel was lost; a lost connection or a crash before it was sent or after it was settled
\* changes nothing.  Else a final status changes only to FAILED, where the catch block
\* overwrites an update that was reported as failed.
DecidedOnce ==
    [][\A t \in Tx : rows[t] \in Final /\ rows'[t] # rows[t] =>
          \/ t \in disturbed
          \/ rows'[t] = "FAILED" /\ \E j \in Job : job[j].phase = "fallback" /\ job[j].tx = t]_vars
=============================================================================
