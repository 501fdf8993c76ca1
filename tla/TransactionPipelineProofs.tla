---------------------- MODULE TransactionPipelineProofs ----------------------
(***************************************************************************)
(* What holds of TransactionPipeline for every set of requests, messages   *)
(* and callbacks and every number of faults.                               *)
(***************************************************************************)
EXTENDS TransactionPipeline, TLAPS

\* A request has left no trace before it inserts, its row once it has, and no event before
\* it publishes.
RequestsMatchRows ==
    \A t \in Tx :
        /\ pc[t] = "idle" => rows[t] = "Absent" /\ t \notin dropped
        /\ pc[t] = "inserted" => rows[t] # "Absent"
        /\ pc[t] \in {"idle", "inserted"} => pub[t] = "none"

\* A callback on the open channel holds its message, and no two hold the same one.
LiveJobsHoldMessages ==
    /\ \A j \in Job : job[j] # Idle /\ job[j].live =>
         msg[job[j].msg].at = "unacked" /\ msg[job[j].msg].tx = job[j].tx
    /\ \A i, j \in Job :
         /\ job[i] # Idle /\ job[i].live
         /\ job[j] # Idle /\ job[j].live
         /\ job[i].msg = job[j].msg
         => i = j

\* An unacknowledged message has a callback on the open channel.
UnackedIsHeld ==
    \A m \in Msg : msg[m].at = "unacked" =>
        \E j \in Job : job[j] # Idle /\ job[j].live /\ job[j].msg = m

\* Whoever is about to acknowledge, or has, left the transaction decided.
AcknowledgedIsDecided ==
    /\ \A j \in Job : job[j].phase = "settling" => rows[job[j].tx] \in Final
    /\ \A m \in Msg : msg[m].at = "acking" => rows[msg[m].tx] \in Final

Inv ==
    /\ TypeOK
    /\ RequestsMatchRows
    /\ EventsReferToRows
    /\ LiveJobsHoldMessages
    /\ UnackedIsHeld
    /\ AcknowledgedIsDecided
    /\ PendingIsAccountedFor

-----------------------------------------------------------------------------
(***************************************************************************)
(* Every action preserves Inv: one lemma per action, and in it one step    *)
(* per conjunct the action can disturb.                                    *)
(***************************************************************************)

\* Only the process or the connection changed.
LEMMA ConnectionInv ==
    ASSUME Inv, proc' \in {"down", "init", "up"}, ready' \in BOOLEAN, channel' \in BOOLEAN,
           UNCHANGED <<rows, pc, pub, msg, job, dropped, faults, disturbed>>
    PROVE  Inv'
<1> USE DEF Inv
<1>1. TypeOK'
  BY DEF TypeOK
<1>2. RequestsMatchRows' /\ EventsReferToRows' /\ PendingIsAccountedFor'
  BY DEF RequestsMatchRows, EventsReferToRows, PendingIsAccountedFor, Responsible,
     GivenUp, InBroker
<1>3. LiveJobsHoldMessages' /\ UnackedIsHeld' /\ AcknowledgedIsDecided'
  BY DEF LiveJobsHoldMessages, UnackedIsHeld, AcknowledgedIsDecided
<1> QED BY <1>1, <1>2, <1>3

LEMMA LinkDownInv ==
    ASSUME Inv, LinkDown
    PROVE  Inv'
<1> USE DEF Inv
<1>1. TypeOK'
  <2>1. msg' \in [Msg -> {Free} \cup [at : Places, tx : Tx]]
    BY DEF LinkDown, Requeued, TypeOK, Held, Places
  <2>2. job' \in [Job -> {Idle} \cup Busy]
    <3>1. ASSUME NEW j \in Job PROVE job'[j] \in {Idle} \cup Busy
      <4>1. CASE job[j] = Idle
        BY <4>1 DEF LinkDown
      <4>2. CASE job[j] # Idle
        <5>1. job[j] \in Busy /\ job'[j] = [job[j] EXCEPT !.live = FALSE]
          BY <4>2 DEF LinkDown, TypeOK
        <5> QED BY <5>1 DEF Busy
      <4> QED BY <4>1, <4>2
    <3> QED BY <3>1 DEF LinkDown
  <2>3. pub' \in [Tx -> {"none", "queued", "sent", "confirmed", "skipped", "rejected", "lost"}]
    BY DEF LinkDown, TypeOK
  <2>4. faults' \in 0 .. MaxFaults
    BY PipelineAssumption DEF LinkDown, TypeOK
  <2> QED BY <2>1, <2>2, <2>3, <2>4 DEF LinkDown, TypeOK
<1>2. RequestsMatchRows'
  BY DEF LinkDown, Requeued, RequestsMatchRows, TypeOK
<1>3. EventsReferToRows'
  BY DEF LinkDown, Requeued, EventsReferToRows, Held
<1>4. LiveJobsHoldMessages'
  BY DEF LinkDown, LiveJobsHoldMessages
<1>5. UnackedIsHeld'
  BY DEF LinkDown, Requeued, UnackedIsHeld, Held, Free
<1>6. AcknowledgedIsDecided'
  BY DEF LinkDown, Requeued, AcknowledgedIsDecided, Held
<1>7. PendingIsAccountedFor'
  BY DEF LinkDown, Requeued, PendingIsAccountedFor, Responsible, GivenUp, InBroker,
     Free, Held
<1> QED BY <1>1, <1>2, <1>3, <1>4, <1>5, <1>6, <1>7

LEMMA ProcessDiesInv ==
    ASSUME Inv, ProcessDies, UNCHANGED faults \/ faults' \in 0 .. MaxFaults
    PROVE  Inv'
<1> USE DEF Inv
<1>1. TypeOK'
  BY DEF ProcessDies, Requeued, TypeOK, Held, Places
<1>2. RequestsMatchRows'
  BY DEF ProcessDies, RequestsMatchRows
<1>3. EventsReferToRows'
  BY DEF ProcessDies, Requeued, EventsReferToRows, Held
<1>4. LiveJobsHoldMessages'
  BY DEF ProcessDies, LiveJobsHoldMessages
<1>5. UnackedIsHeld'
  BY DEF ProcessDies, Requeued, UnackedIsHeld, Held, Free
<1>6. AcknowledgedIsDecided'
  BY DEF ProcessDies, Requeued, AcknowledgedIsDecided, Idle, Held
<1>7. PendingIsAccountedFor'
  BY DEF ProcessDies, Requeued, PendingIsAccountedFor, Responsible, GivenUp, InBroker,
     Free, Held
<1> QED BY <1>1, <1>2, <1>3, <1>4, <1>5, <1>6, <1>7

LEMMA InsertInv ==
    ASSUME Inv, NEW t \in Tx, Insert(t)
    PROVE  Inv'
<1> USE DEF Inv
<1>1. TypeOK'
  BY DEF Insert, connection, TypeOK, Status
<1>2. RequestsMatchRows'
  BY DEF Insert, RequestsMatchRows, TypeOK
<1>3. EventsReferToRows'
  BY DEF Insert, EventsReferToRows
<1>4. AcknowledgedIsDecided'
  BY DEF Insert, AcknowledgedIsDecided, Final, RequestsMatchRows
<1>5. PendingIsAccountedFor'
  BY DEF Insert, PendingIsAccountedFor, TypeOK, Responsible, GivenUp, InBroker
<1>6. LiveJobsHoldMessages' /\ UnackedIsHeld'
  BY DEF Insert, connection, LiveJobsHoldMessages, UnackedIsHeld
<1> QED BY <1>1, <1>2, <1>3, <1>4, <1>5, <1>6

LEMMA InsertFailsInv ==
    ASSUME Inv, NEW t \in Tx, InsertFails(t)
    PROVE  Inv'
<1> USE DEF Inv
<1>1. TypeOK'
  BY DEF InsertFails, connection, TypeOK, Status
<1>2. RequestsMatchRows'
  BY DEF InsertFails, RequestsMatchRows, TypeOK
<1>3. EventsReferToRows'
  BY DEF InsertFails, EventsReferToRows
<1>4. AcknowledgedIsDecided'
  BY DEF InsertFails, AcknowledgedIsDecided, Final, RequestsMatchRows
<1>5. PendingIsAccountedFor'
  BY DEF InsertFails, PendingIsAccountedFor, TypeOK, Responsible, GivenUp, InBroker
<1>6. LiveJobsHoldMessages' /\ UnackedIsHeld'
  BY DEF InsertFails, connection, LiveJobsHoldMessages, UnackedIsHeld
<1> QED BY <1>1, <1>2, <1>3, <1>4, <1>5, <1>6

LEMMA InvalidateFailsInv ==
    ASSUME Inv, NEW t \in Tx, InvalidateFails(t)
    PROVE  Inv'
<1> USE DEF Inv
<1>1. TypeOK'
  BY DEF InvalidateFails, connection, TypeOK
<1>2. RequestsMatchRows'
  BY DEF InvalidateFails, RequestsMatchRows
<1>3. PendingIsAccountedFor'
  BY DEF InvalidateFails, PendingIsAccountedFor, Responsible, GivenUp, InBroker
<1>4. EventsReferToRows' /\ LiveJobsHoldMessages' /\ UnackedIsHeld' /\ AcknowledgedIsDecided'
  BY DEF InvalidateFails, connection, EventsReferToRows, LiveJobsHoldMessages,
     UnackedIsHeld, AcknowledgedIsDecided
<1> QED BY <1>1, <1>2, <1>3, <1>4

LEMMA PublishInv ==
    ASSUME Inv, NEW t \in Tx, Publish(t)
    PROVE  Inv'
<1> USE DEF Inv
<1>1. TypeOK'
  BY DEF Publish, connection, TypeOK
<1>2. RequestsMatchRows'
  BY DEF Publish, RequestsMatchRows, TypeOK
<1>3. EventsReferToRows'
  BY DEF Publish, EventsReferToRows, RequestsMatchRows
<1>4. PendingIsAccountedFor'
  BY DEF Publish, PendingIsAccountedFor, TypeOK, Responsible, GivenUp, InBroker
<1>5. LiveJobsHoldMessages' /\ UnackedIsHeld' /\ AcknowledgedIsDecided'
  BY DEF Publish, connection, LiveJobsHoldMessages, UnackedIsHeld, AcknowledgedIsDecided
<1> QED BY <1>1, <1>2, <1>3, <1>4, <1>5

LEMMA SendInv ==
    ASSUME Inv, NEW t \in Tx, Send(t)
    PROVE  Inv'
<1> USE DEF Inv
<1>1. TypeOK'
  BY DEF Send, connection, TypeOK, Held, Places
<1>2. RequestsMatchRows'
  BY DEF Send, connection, RequestsMatchRows, TypeOK
<1>3. EventsReferToRows'
  BY DEF Send, EventsReferToRows, Held
<1>4. LiveJobsHoldMessages'
  BY DEF Send, LiveJobsHoldMessages, Free
<1>5. UnackedIsHeld'
  BY DEF Send, UnackedIsHeld, Held
<1>6. AcknowledgedIsDecided'
  BY DEF Send, AcknowledgedIsDecided, Held
<1>7. PendingIsAccountedFor'
  BY DEF Send, PendingIsAccountedFor, TypeOK, Responsible, GivenUp, InBroker, Free, Held
<1> QED BY <1>1, <1>2, <1>3, <1>4, <1>5, <1>6, <1>7

LEMMA ConfirmInv ==
    ASSUME Inv, NEW t \in Tx, Confirm(t)
    PROVE  Inv'
<1> USE DEF Inv
<1>1. TypeOK'
  BY DEF Confirm, connection, TypeOK
<1>2. RequestsMatchRows'
  BY DEF Confirm, connection, RequestsMatchRows, TypeOK
<1>3. EventsReferToRows'
  BY DEF Confirm, EventsReferToRows
<1>4. PendingIsAccountedFor'
  BY DEF Confirm, PendingIsAccountedFor, Responsible, GivenUp, InBroker
<1>5. LiveJobsHoldMessages' /\ UnackedIsHeld' /\ AcknowledgedIsDecided'
  BY DEF Confirm, connection, LiveJobsHoldMessages, UnackedIsHeld, AcknowledgedIsDecided
<1> QED BY <1>1, <1>2, <1>3, <1>4, <1>5

LEMMA PublishFailsInv ==
    ASSUME Inv, NEW t \in Tx, PublishFails(t)
    PROVE  Inv'
<1> USE DEF Inv
<1>1. TypeOK'
  BY DEF PublishFails, connection, TypeOK
<1>2. RequestsMatchRows'
  BY DEF PublishFails, connection, RequestsMatchRows, TypeOK
<1>3. EventsReferToRows'
  BY DEF PublishFails, EventsReferToRows
<1>4. PendingIsAccountedFor'
  BY DEF PublishFails, PendingIsAccountedFor, Responsible, GivenUp, InBroker
<1>5. LiveJobsHoldMessages' /\ UnackedIsHeld' /\ AcknowledgedIsDecided'
  BY DEF PublishFails, connection, LiveJobsHoldMessages, UnackedIsHeld,
     AcknowledgedIsDecided
<1> QED BY <1>1, <1>2, <1>3, <1>4, <1>5

LEMMA DeliverInv ==
    ASSUME Inv, NEW j \in Job, NEW m \in Msg, Deliver(j, m)
    PROVE  Inv'
<1> USE DEF Inv
<1>1. TypeOK'
  BY DEF Deliver, connection, TypeOK, Busy, Free, Places
<1>2. EventsReferToRows'
  BY DEF Deliver, EventsReferToRows, Free
<1>3. LiveJobsHoldMessages'
  BY DEF Deliver, LiveJobsHoldMessages, TypeOK
<1>4. UnackedIsHeld'
  BY DEF Deliver, UnackedIsHeld, TypeOK, Idle
<1>5. AcknowledgedIsDecided'
  BY DEF Deliver, AcknowledgedIsDecided
<1>6. PendingIsAccountedFor'
  BY DEF Deliver, PendingIsAccountedFor, Responsible, GivenUp, InBroker, Free
<1>7. RequestsMatchRows'
  BY DEF Deliver, connection, RequestsMatchRows
<1> QED BY <1>1, <1>2, <1>3, <1>4, <1>5, <1>6, <1>7

LEMMA DecideInv ==
    ASSUME Inv, NEW j \in Job, NEW o \in Final, Decide(j, o)
    PROVE  Inv'
<1> USE DEF Inv
<1>1. TypeOK'
  BY DEF Decide, connection, SetStatus, TypeOK, Status, Idle, Busy
<1>2. RequestsMatchRows'
  BY DEF Decide, SetStatus, RequestsMatchRows, Final
<1>3. EventsReferToRows'
  BY DEF Decide, SetStatus, EventsReferToRows, Idle, Final
<1>4. LiveJobsHoldMessages'
  BY DEF Decide, LiveJobsHoldMessages, Idle
<1>5. UnackedIsHeld'
  BY DEF Decide, UnackedIsHeld, Idle
<1>6. AcknowledgedIsDecided'
  BY DEF Decide, SetStatus, AcknowledgedIsDecided, TypeOK, Idle, EventsReferToRows, Busy
<1>7. PendingIsAccountedFor'
  BY DEF Decide, SetStatus, PendingIsAccountedFor, Responsible, GivenUp, InBroker, Final
<1> QED BY <1>1, <1>2, <1>3, <1>4, <1>5, <1>6, <1>7

LEMMA DecideFailsInv ==
    ASSUME Inv, NEW j \in Job, NEW o \in Final, DecideFails(j, o)
    PROVE  Inv'
<1> USE DEF Inv
<1>1. TypeOK'
  BY DEF DecideFails, connection, SetStatus, TypeOK, Status, Idle, Busy
<1>2. RequestsMatchRows'
  BY DEF DecideFails, SetStatus, RequestsMatchRows, TypeOK, Final
<1>3. EventsReferToRows'
  BY DEF DecideFails, SetStatus, EventsReferToRows, TypeOK, Idle, Busy, Final
<1>4. LiveJobsHoldMessages'
  BY DEF DecideFails, LiveJobsHoldMessages, Idle
<1>5. UnackedIsHeld'
  BY DEF DecideFails, UnackedIsHeld, Idle
<1>6. AcknowledgedIsDecided'
  BY DEF DecideFails, SetStatus, AcknowledgedIsDecided, TypeOK, Idle, Busy, Free
<1>7. PendingIsAccountedFor'
  BY DEF DecideFails, SetStatus, PendingIsAccountedFor, TypeOK, Responsible, GivenUp,
     InBroker, Final
<1> QED BY <1>1, <1>2, <1>3, <1>4, <1>5, <1>6, <1>7

LEMMA FallbackInv ==
    ASSUME Inv, NEW j \in Job, Fallback(j)
    PROVE  Inv'
<1> USE DEF Inv
<1>1. TypeOK'
  BY DEF Fallback, connection, SetStatus, TypeOK, Status, Final, Idle, Busy
<1>2. RequestsMatchRows'
  BY DEF Fallback, SetStatus, RequestsMatchRows
<1>3. EventsReferToRows'
  BY DEF Fallback, SetStatus, EventsReferToRows, Idle
<1>4. LiveJobsHoldMessages'
  BY DEF Fallback, LiveJobsHoldMessages, Idle
<1>5. UnackedIsHeld'
  BY DEF Fallback, UnackedIsHeld, Idle
<1>6. AcknowledgedIsDecided'
  BY DEF Fallback, SetStatus, AcknowledgedIsDecided, TypeOK, Idle, Final,
     EventsReferToRows, Busy
<1>7. PendingIsAccountedFor'
  BY DEF Fallback, SetStatus, PendingIsAccountedFor, Responsible, GivenUp, InBroker
<1> QED BY <1>1, <1>2, <1>3, <1>4, <1>5, <1>6, <1>7

LEMMA FallbackFailsInv ==
    ASSUME Inv, NEW j \in Job, FallbackFails(j)
    PROVE  Inv'
<1> USE DEF Inv
<1>1. TypeOK'
  BY DEF FallbackFails, connection, SetStatus, TypeOK, Status, Final, Idle, Busy, Free,
     Places, LiveJobsHoldMessages
<1>2. RequestsMatchRows'
  BY DEF FallbackFails, SetStatus, RequestsMatchRows, TypeOK
<1>3. EventsReferToRows'
  BY DEF FallbackFails, SetStatus, EventsReferToRows, TypeOK, Idle, Busy,
     LiveJobsHoldMessages
<1>4. LiveJobsHoldMessages'
  BY DEF FallbackFails, LiveJobsHoldMessages, TypeOK, Idle
<1>5. UnackedIsHeld'
  BY DEF FallbackFails, UnackedIsHeld, TypeOK
<1>6. AcknowledgedIsDecided'
  BY DEF FallbackFails, SetStatus, AcknowledgedIsDecided, TypeOK, Idle, Final, Busy,
     Free
<1>7. PendingIsAccountedFor'
  BY DEF FallbackFails, SetStatus, PendingIsAccountedFor, TypeOK, Responsible, GivenUp,
     InBroker, Free
<1> QED BY <1>1, <1>2, <1>3, <1>4, <1>5, <1>6, <1>7

LEMMA AckInv ==
    ASSUME Inv, NEW j \in Job, Ack(j)
    PROVE  Inv'
<1> USE DEF Inv
<1>1. TypeOK'
  BY DEF Ack, connection, TypeOK, Idle, Busy, Free, Places, LiveJobsHoldMessages
<1>2. EventsReferToRows'
  BY DEF Ack, EventsReferToRows, Idle, LiveJobsHoldMessages
<1>3. LiveJobsHoldMessages'
  BY DEF Ack, LiveJobsHoldMessages, TypeOK, Idle
<1>4. UnackedIsHeld'
  BY DEF Ack, UnackedIsHeld, TypeOK
<1>5. AcknowledgedIsDecided'
  BY DEF Ack, AcknowledgedIsDecided, Idle, LiveJobsHoldMessages
<1>6. PendingIsAccountedFor'
  BY DEF Ack, PendingIsAccountedFor, Responsible, GivenUp, InBroker, Free
<1>7. RequestsMatchRows'
  BY DEF Ack, connection, RequestsMatchRows
<1> QED BY <1>1, <1>2, <1>3, <1>4, <1>5, <1>6, <1>7

LEMMA SettleInv ==
    ASSUME Inv, NEW m \in Msg, Settle(m)
    PROVE  Inv'
<1> USE DEF Inv
<1>1. TypeOK'
  BY DEF Settle, connection, TypeOK, Free
<1>2. RequestsMatchRows'
  BY DEF Settle, connection, RequestsMatchRows, EventsReferToRows, TypeOK, Free, Places
<1>3. EventsReferToRows'
  BY DEF Settle, EventsReferToRows
<1>4. LiveJobsHoldMessages'
  BY DEF Settle, LiveJobsHoldMessages
<1>5. UnackedIsHeld'
  BY DEF Settle, UnackedIsHeld, Free
<1>6. AcknowledgedIsDecided'
  BY DEF Settle, AcknowledgedIsDecided, Free
<1>7. PendingIsAccountedFor'
  BY DEF Settle, PendingIsAccountedFor, Responsible, GivenUp, InBroker, Final,
     AcknowledgedIsDecided
<1> QED BY <1>1, <1>2, <1>3, <1>4, <1>5, <1>6, <1>7

-----------------------------------------------------------------------------
(***************************************************************************)
(* The invariant and what follows from it.                                 *)
(***************************************************************************)

LEMMA InitInv == Init => Inv
<1> SUFFICES ASSUME Init PROVE Inv
  OBVIOUS
<1>1. TypeOK
  <2>1. rows \in [Tx -> Status] /\ faults \in 0 .. MaxFaults
    BY PipelineAssumption DEF Init, Status, PipelineAssumption
  <2> QED BY <2>1 DEF Init, TypeOK
<1>2. RequestsMatchRows /\ EventsReferToRows /\ PendingIsAccountedFor
  BY DEF Init, RequestsMatchRows, EventsReferToRows, PendingIsAccountedFor
<1>3. LiveJobsHoldMessages /\ UnackedIsHeld /\ AcknowledgedIsDecided
  BY DEF Init, LiveJobsHoldMessages, UnackedIsHeld, AcknowledgedIsDecided, Free, Idle
<1> QED BY <1>1, <1>2, <1>3 DEF Inv

LEMMA NextInv == Inv /\ [Next]_vars => Inv'
<1> SUFFICES ASSUME Inv, [Next]_vars PROVE Inv'
  OBVIOUS
<1>1. CASE Start BY <1>1, ConnectionInv DEF Start, Inv, TypeOK
<1>2. CASE Connect BY <1>2, ConnectionInv DEF Connect, Inv, TypeOK
<1>3. CASE SetupChannel \/ Listen
  BY <1>3, ConnectionInv DEF SetupChannel, Listen, Inv, TypeOK
<1>4. CASE LinkDown BY <1>4, LinkDownInv
<1>5. CASE Crash
  BY <1>5, ProcessDiesInv, PipelineAssumption DEF Crash, Inv, TypeOK
<1>6. CASE StartTimeout
  BY <1>6, ProcessDiesInv, PipelineAssumption DEF StartTimeout, Inv, TypeOK
<1>7. ASSUME NEW t \in Tx, Request(t) PROVE Inv'
  BY <1>7, InsertInv, InsertFailsInv, InvalidateFailsInv, PublishInv, SendInv, ConfirmInv,
     PublishFailsInv DEF Request
<1>8. ASSUME NEW j \in Job, Worker(j) PROVE Inv'
  <2>1. CASE SettleOnClosedChannel(j) \/ FallbackFailsOnClosedChannel(j)
    BY <2>1, ProcessDiesInv DEF SettleOnClosedChannel, FallbackFailsOnClosedChannel
  <2> QED
    BY <1>8, <2>1, DeliverInv, DecideInv, DecideFailsInv, FallbackInv, FallbackFailsInv,
       AckInv DEF Worker
<1>9. ASSUME NEW m \in Msg, Settle(m) PROVE Inv'
  BY <1>9, SettleInv
<1>10. CASE UNCHANGED vars
  BY <1>10, ConnectionInv DEF vars, Inv, TypeOK
<1> QED
  BY <1>1, <1>2, <1>3, <1>4, <1>5, <1>6, <1>7, <1>8, <1>9, <1>10 DEF Next, Environment

\* The inductive invariant holds in every state, whatever fails and in whatever order.
THEOREM Invariance == Spec => []Inv
BY InitInv, NextInv, PTL DEF Spec

\* Every variable keeps its type.
THEOREM TypeCorrect == Spec => []TypeOK
<1>1. Inv => TypeOK
  BY DEF Inv
<1> QED BY <1>1, Invariance, PTL

\* No interleaving strands a PENDING row: it is looked after or was given up in one of the
\* ways GivenUp lists.
THEOREM PendingAccounted == Spec => []PendingIsAccountedFor
<1>1. Inv => PendingIsAccountedFor
  BY DEF Inv
<1> QED BY <1>1, Invariance, PTL

\* No event exists before the row it is about.
THEOREM EventsHaveRows == Spec => []EventsReferToRows
<1>1. Inv => EventsReferToRows
  BY DEF Inv
<1> QED BY <1>1, Invariance, PTL

\* An unacknowledged message has exactly one callback that will settle it.
THEOREM OneCallback == Spec => []UnackedHasOneCallback
<1>1. Inv => UnackedHasOneCallback
  BY DEF Inv, UnackedIsHeld, LiveJobsHoldMessages, UnackedHasOneCallback
<1> QED BY <1>1, Invariance, PTL

-----------------------------------------------------------------------------
(***************************************************************************)
(* The pipeline implements TransactionLedger.                              *)
(***************************************************************************)

\* A step that changes no status and takes no abandonment back is a Transfer: by
\* PendingIsAccountedFor, before and after it, what stops or starts being looked after is
\* decided or abandoned.
LEMMA TransferStep ==
    ASSUME Inv, Inv', UNCHANGED rows, \A t \in Tx : GivenUp(t) => GivenUp(t)'
    PROVE  Ledger!Next
<1> DEFINE O == {t \in Tx : Responsible(t)}
           A == {t \in Tx : rows[t] # "Absent" /\ GivenUp(t)}
<1>1. A \subseteq A'
  OBVIOUS
<1>2. ASSUME NEW t \in Tx, Responsible(t) # Responsible(t)'
      PROVE  rows[t] \in Final \/ t \in A'
  BY <1>2 DEF Inv, TypeOK, Status, PendingIsAccountedFor, RequestsMatchRows,
     EventsReferToRows, Responsible, InBroker
<1>3. ASSUME NEW t \in Tx, Responsible(t)' PROVE rows[t] # "Absent"
  BY <1>3 DEF Inv, RequestsMatchRows, EventsReferToRows, Responsible, InBroker
<1>4. Ledger!Transfer
  BY <1>1, <1>2, <1>3 DEF Ledger!Transfer, Ledger!Final, Final
<1> QED BY <1>4 DEF Ledger!Next

\* Inserting a row, whether or not the client learns of it, is a Create.
LEMMA InsertIsCreate ==
    ASSUME Inv, NEW t \in Tx, Insert(t) \/ InsertFails(t), rows' # rows
    PROVE  Ledger!Next
<1> DEFINE O == {u \in Tx : Responsible(u)}
           A == {u \in Tx : rows[u] # "Absent" /\ GivenUp(u)}
<1>1. /\ rows[t] = "Absent" /\ pub[t] = "none" /\ t \notin dropped /\ ~InBroker(t)
      /\ rows' = [rows EXCEPT ![t] = "PENDING"]
  BY DEF Insert, InsertFails, Inv, RequestsMatchRows, EventsReferToRows, InBroker
<1>2. \A u \in Tx \ {t} :
        Responsible(u)' = Responsible(u) /\ GivenUp(u)' = GivenUp(u) /\ rows'[u] = rows[u]
  BY <1>1 DEF Insert, InsertFails, Inv, TypeOK, Responsible, GivenUp, InBroker
<1>3. CASE Insert(t)
  <2>1. Responsible(t)' /\ ~GivenUp(t)'
    BY <1>1, <1>3 DEF Insert, Inv, TypeOK, Responsible, GivenUp
  <2>2. O' = O \cup {t} /\ A' = A
    BY <1>1, <1>2, <2>1
  <2> QED BY <1>1, <2>2 DEF Ledger!Next, Ledger!Create
<1>4. CASE InsertFails(t)
  <2>1. ~Responsible(t) /\ ~Responsible(t)' /\ GivenUp(t)' /\ rows'[t] # "Absent"
    BY <1>1, <1>4 DEF InsertFails, Inv, TypeOK, Responsible, GivenUp, InBroker
  <2>2. O' = O /\ A' = A \cup {t}
    BY <1>1, <1>2, <2>1
  <2> QED BY <1>1, <2>2 DEF Ledger!Next, Ledger!Create
<1> QED BY <1>3, <1>4

\* A worker's update that takes effect is a Decide.
LEMMA UpdateIsDecide ==
    ASSUME Inv, NEW j \in Job, NEW outcome \in Final, job[j] # Idle,
           SetStatus(job[j].tx, outcome), UNCHANGED <<pc, pub, dropped>>,
           \A t \in Tx : InBroker(t)' = InBroker(t)
    PROVE  Ledger!Next
<1> DEFINE O == {u \in Tx : Responsible(u)}
           A == {u \in Tx : rows[u] # "Absent" /\ GivenUp(u)}
<1>1. job[j].tx \in Tx /\ rows[job[j].tx] # "Absent"
  BY DEF Inv, TypeOK, Busy, EventsReferToRows
<1>2. rows' = [rows EXCEPT ![job[j].tx] = outcome]
  BY <1>1 DEF SetStatus
<1>3. O' = O
  BY DEF Responsible
<1>4. A' = A
  BY <1>1, <1>2 DEF GivenUp, Inv, TypeOK, Final
<1> QED BY <1>1, <1>2, <1>3, <1>4 DEF Ledger!Next, Ledger!Decide, Ledger!Final, Final

LEMMA NextImplements ==
    ASSUME Inv, Inv', [Next]_vars
    PROVE  [Ledger!Next]_(Ledger!ledger)
<1>1. CASE Start \/ Connect \/ SetupChannel \/ Listen \/ UNCHANGED vars
  BY <1>1, TransferStep DEF Start, Connect, SetupChannel, Listen, vars, GivenUp
<1>2. CASE LinkDown
  BY <1>2, TransferStep DEF LinkDown, GivenUp, Inv, TypeOK
<1>3. CASE ProcessDies
  BY <1>3, TransferStep DEF ProcessDies, GivenUp, Inv, TypeOK
<1>4. ASSUME NEW t \in Tx, Request(t) PROVE Ledger!Next
  <2>1. CASE rows' # rows
    BY <1>4, <2>1, InsertIsCreate
       DEF Request, InvalidateFails, Publish, Send, Confirm, PublishFails
  <2>2. CASE rows' = rows
    <3>1. \A u \in Tx : GivenUp(u) => GivenUp(u)'
      BY <1>4, <2>2 DEF Request, Insert, InsertFails, InvalidateFails, Publish, Send, Confirm,
         PublishFails, GivenUp, Inv, TypeOK, RequestsMatchRows
    <3> QED BY <2>2, <3>1, TransferStep
  <2> QED BY <2>1, <2>2
<1>5. ASSUME NEW j \in Job, Worker(j) PROVE Ledger!Next
  <2>1. CASE rows' = rows /\ ~ProcessDies
    <3>1. \A u \in Tx : GivenUp(u) => GivenUp(u)'
      BY <1>5, <2>1 DEF Worker, Deliver, Decide, DecideFails, Fallback, FallbackFails, Ack,
         SettleOnClosedChannel, FallbackFailsOnClosedChannel, GivenUp
    <3> QED BY <2>1, <3>1, TransferStep
  <2>2. CASE rows' # rows
    <3>1. PICK outcome \in Final : SetStatus(job[j].tx, outcome)
      BY <1>5, <2>2 DEF Worker, Deliver, Decide, DecideFails, Fallback, FallbackFails, Ack,
         SettleOnClosedChannel, FallbackFailsOnClosedChannel, ProcessDies, Final
    <3>2. job[j] # Idle /\ UNCHANGED <<pc, pub, dropped>>
      BY <1>5, <2>2 DEF Worker, Deliver, Decide, DecideFails, Fallback, FallbackFails, Ack,
         SettleOnClosedChannel, FallbackFailsOnClosedChannel, ProcessDies, Idle
    <3>3. \A t \in Tx : InBroker(t)' = InBroker(t)
      <4>1. CASE UNCHANGED msg
        BY <4>1 DEF InBroker
      <4>2. CASE FallbackFails(j)
        BY <4>2 DEF FallbackFails, InBroker, Inv, TypeOK, LiveJobsHoldMessages, Free, Idle
      <4> QED
        BY <1>5, <2>2, <4>1, <4>2 DEF Worker, Deliver, Decide, DecideFails, Fallback, Ack,
           SettleOnClosedChannel, FallbackFailsOnClosedChannel, ProcessDies
    <3> QED BY <3>1, <3>2, <3>3, UpdateIsDecide
  <2>3. CASE ProcessDies
    BY <1>3, <2>3, TransferStep DEF ProcessDies, GivenUp, Inv, TypeOK
  <2> QED BY <2>1, <2>2, <2>3
<1>6. ASSUME NEW m \in Msg, Settle(m) PROVE Ledger!Next
  BY <1>6, TransferStep DEF Settle, GivenUp
<1> QED
  BY <1>1, <1>2, <1>3, <1>4, <1>5, <1>6 DEF Next, Environment, Crash, StartTimeout

\* Every behaviour of the pipeline, seen through the rows, what is being looked after and
\* what was given up, is one of the ledger.
THEOREM Implementation == Spec => ImplementsLedger
<1>1. Init => Ledger!Init
  BY DEF Init, Ledger!Init, Responsible, InBroker
<1>2. Inv /\ Inv' /\ [Next]_vars => [Ledger!Next]_(Ledger!ledger)
  BY NextImplements
<1> QED BY <1>1, <1>2, Invariance, PTL DEF Spec, ImplementsLedger, Ledger!Spec

-----------------------------------------------------------------------------
(***************************************************************************)
(* One outcome for every transaction that was not disturbed.               *)
(***************************************************************************)

\* An event that is published has one message.
OneMessageEach ==
    \A m \in Msg : msg[m] # Free /\ msg[m].tx \notin disturbed =>
        /\ pub[msg[m].tx] \in {"sent", "confirmed"}
        /\ \A n \in Msg : msg[n] # Free /\ msg[n].tx = msg[m].tx => n = m

CallbacksAreLive ==
    \A j \in Job : job[j] # Idle /\ job[j].tx \notin disturbed => job[j].live

\* A transaction whose event, message or callback is still on its way to the worker's
\* update is not decided.
UndecidedBeforeUpdate ==
    /\ \A t \in Tx \ disturbed : pub[t] \in {"none", "queued"} => rows[t] \notin Final
    /\ \A m \in Msg :
         msg[m].at = "queued" /\ msg[m].tx \notin disturbed => rows[msg[m].tx] \notin Final
    /\ \A j \in Job :
         job[j].phase = "working" /\ job[j].tx \notin disturbed => rows[job[j].tx] \notin Final

Calm == OneMessageEach /\ CallbacksAreLive /\ UndecidedBeforeUpdate

\* The callback whose update it is holds the only message of its transaction.
LEMMA UpdateIsAlone ==
    ASSUME Inv, OneMessageEach, CallbacksAreLive, NEW j \in Job, job[j] # Idle
    PROVE  /\ job[j].tx \in Tx
           /\ job[j].tx \notin disturbed =>
                /\ pub[job[j].tx] \in {"sent", "confirmed"}
                /\ \A m \in Msg : msg[m].at = "queued" => msg[m].tx # job[j].tx
                /\ \A k \in Job : job[k] # Idle /\ job[k].tx = job[j].tx => k = j
BY DEF Inv, TypeOK, Busy, LiveJobsHoldMessages, OneMessageEach, CallbacksAreLive, Free, Idle

LEMMA RequestCalm ==
    ASSUME Inv, Calm, NEW t \in Tx, Request(t)
    PROVE  Calm'
<1> USE DEF Calm, Inv
<1>1. CASE Insert(t) \/ InsertFails(t) \/ InvalidateFails(t) \/ Publish(t)
  <2>1. UNCHANGED <<msg, job, disturbed>> /\ \A u \in Tx : rows'[u] \in {rows[u], "PENDING"}
    BY <1>1 DEF Insert, InsertFails, InvalidateFails, Publish, TypeOK, connection
  <2>2. \A u \in Tx : pub'[u] # pub[u] => pub[u] = "none"
    BY <1>1 DEF Insert, InsertFails, InvalidateFails, Publish, TypeOK, RequestsMatchRows
  <2>3. \A m \in Msg : msg[m] # Free => msg[m].tx \in Tx
    BY DEF TypeOK
  <2>4. \A m \in Msg : msg[m] # Free /\ msg[m].tx \notin disturbed =>
          pub'[msg[m].tx] = pub[msg[m].tx]
    BY <2>2, <2>3 DEF OneMessageEach
  <2>5. OneMessageEach' /\ CallbacksAreLive'
    BY <2>1, <2>4 DEF OneMessageEach, CallbacksAreLive
  <2>6. UndecidedBeforeUpdate'
    <3>1. \A j \in Job : job[j].phase = "working" => job[j].tx \in Tx
      BY DEF TypeOK, Idle, Busy
    <3>2. \A m \in Msg : msg[m].at = "queued" => msg[m].tx \in Tx
      BY DEF TypeOK, Free
    <3> QED BY <2>1, <2>2, <3>1, <3>2 DEF UndecidedBeforeUpdate, Final
  <2> QED BY <2>5, <2>6
<1>2. CASE Send(t)
  <2>1. OneMessageEach'
    BY <1>2 DEF Send, connection, Held, OneMessageEach, TypeOK, Free
  <2>2. CallbacksAreLive' /\ UndecidedBeforeUpdate'
    BY <1>2 DEF Send, connection, Held, CallbacksAreLive, UndecidedBeforeUpdate, TypeOK, Free
  <2> QED BY <2>1, <2>2
<1>3. CASE Confirm(t) \/ PublishFails(t)
  BY <1>3 DEF Confirm, PublishFails, connection, OneMessageEach, CallbacksAreLive,
     UndecidedBeforeUpdate, TypeOK, Free
<1> QED BY <1>1, <1>2, <1>3 DEF Request

\* What a lost channel may have delivered or sent again is disturbed; nothing is left of the
\* others.
LEMMA LossCalm ==
    ASSUME Inv, Calm, LinkDown \/ ProcessDies
    PROVE  Calm'
<1>1. disturbed' = disturbed \cup {t \in Tx : UnderWay(t)}
  BY DEF LinkDown, ProcessDies
<1>2. ASSUME NEW m \in Msg, msg'[m] # Free PROVE msg'[m].tx \in disturbed'
  <2>1. msg[m] # Free /\ msg'[m].tx = msg[m].tx
    BY <1>2 DEF LinkDown, ProcessDies, Requeued, Held, Free
  <2>2. msg[m].tx \in Tx
    BY <2>1 DEF Inv, TypeOK
  <2> QED BY <1>1, <2>1, <2>2 DEF UnderWay, InBroker
<1>3. ASSUME NEW j \in Job, job'[j] # Idle PROVE job'[j].tx \in disturbed'
  <2>1. job[j] # Idle /\ job[j] \in Busy
    BY <1>3 DEF LinkDown, ProcessDies, Inv, TypeOK
  <2>2. job'[j] = [job[j] EXCEPT !.live = FALSE]
    BY <1>3, <2>1 DEF LinkDown, ProcessDies
  <2>3. job[j].tx \in Tx /\ job[j].msg \in Msg /\ job'[j].tx = job[j].tx
    BY <2>1, <2>2 DEF Busy
  <2>4. CASE job[j].live
    BY <1>1, <2>1, <2>3, <2>4 DEF Inv, LiveJobsHoldMessages, UnderWay, InBroker, Free
  <2>5. CASE ~job[j].live
    BY <1>1, <2>1, <2>3, <2>5 DEF Calm, CallbacksAreLive
  <2> QED BY <2>4, <2>5
<1>4. ASSUME NEW t \in Tx \ disturbed', pub'[t] \in {"none", "queued"}
      PROVE  rows'[t] \notin Final
  <2>1. t \notin disturbed /\ pub[t] # "sent" /\ rows' = rows
    BY <1>1, <1>4 DEF UnderWay, LinkDown, ProcessDies
  <2>2. pub[t] \in {"none", "queued"}
    BY <1>4, <2>1 DEF LinkDown, ProcessDies
  <2> QED BY <2>1, <2>2 DEF Calm, UndecidedBeforeUpdate
<1>5. OneMessageEach'
  BY <1>2 DEF OneMessageEach
<1>6. CallbacksAreLive'
  BY <1>3 DEF CallbacksAreLive
<1>7. UndecidedBeforeUpdate'
  BY <1>2, <1>3, <1>4 DEF UndecidedBeforeUpdate, Free, Idle
<1> QED BY <1>5, <1>6, <1>7 DEF Calm

LEMMA WorkerCalm ==
    ASSUME Inv, Calm, NEW j \in Job, Worker(j)
    PROVE  Calm'
<1> USE DEF Calm, Inv
<1>1. ASSUME NEW m \in Msg, Deliver(j, m) PROVE Calm'
  <2>1. OneMessageEach' /\ CallbacksAreLive'
    BY <1>1 DEF Deliver, connection, OneMessageEach, CallbacksAreLive, TypeOK, Free, Idle
  <2>2. UndecidedBeforeUpdate'
    BY <1>1 DEF Deliver, connection, UndecidedBeforeUpdate, TypeOK, Free, Idle
  <2> QED BY <2>1, <2>2
<1>2. ASSUME job[j].phase \in {"working", "fallback"}, UNCHANGED <<pub, msg, disturbed>>,
             NEW phase \in {"fallback", "settling"},
             job' = [job EXCEPT ![j].phase = phase],
             UNCHANGED rows \/ \E o \in Final : SetStatus(job[j].tx, o)
      PROVE  Calm'
  <2>1. job[j] # Idle
    BY <1>2 DEF Idle
  <2>2. \A t \in Tx \ {job[j].tx} : rows'[t] = rows[t]
    BY <1>2 DEF SetStatus, TypeOK
  <2>3. OneMessageEach' /\ CallbacksAreLive'
    BY <1>2, <2>1 DEF OneMessageEach, CallbacksAreLive, TypeOK, Busy
  <2>4. UndecidedBeforeUpdate'
    BY <1>2, <2>1, <2>2, UpdateIsAlone DEF UndecidedBeforeUpdate, TypeOK, Busy, Idle, Free
  <2> QED BY <2>3, <2>4
<1>3. CASE FallbackFails(j)
  <2>1. job[j] # Idle /\ UNCHANGED disturbed
    BY <1>3 DEF FallbackFails, Idle, connection
  <2>2. \A t \in Tx \ {job[j].tx} : rows'[t] = rows[t]
    BY <1>3 DEF FallbackFails, SetStatus, TypeOK
  <2>3. OneMessageEach' /\ CallbacksAreLive'
    BY <1>3, <2>1 DEF FallbackFails, OneMessageEach, CallbacksAreLive, TypeOK, Busy, Free,
       LiveJobsHoldMessages
  <2>4. UndecidedBeforeUpdate'
    BY <1>3, <2>1, <2>2, UpdateIsAlone
       DEF FallbackFails, UndecidedBeforeUpdate, TypeOK, Busy, Idle, Free, LiveJobsHoldMessages
  <2> QED BY <2>3, <2>4
<1>4. CASE Ack(j)
  <2>1. OneMessageEach' /\ CallbacksAreLive'
    BY <1>4 DEF Ack, connection, OneMessageEach, CallbacksAreLive, TypeOK, Busy, Idle, Free,
       LiveJobsHoldMessages
  <2>2. UndecidedBeforeUpdate'
    BY <1>4 DEF Ack, connection, UndecidedBeforeUpdate, TypeOK, Busy, Idle, Free,
       LiveJobsHoldMessages
  <2> QED BY <2>1, <2>2
<1>5. CASE SettleOnClosedChannel(j) \/ FallbackFailsOnClosedChannel(j)
  BY <1>5, LossCalm DEF SettleOnClosedChannel, FallbackFailsOnClosedChannel
<1>6. ASSUME NEW o \in Final, Decide(j, o) \/ DecideFails(j, o) PROVE Calm'
  BY <1>2, <1>6 DEF Decide, DecideFails, connection
<1>7. CASE Fallback(j)
  BY <1>2, <1>7 DEF Fallback, Final, connection
<1> QED BY <1>1, <1>3, <1>4, <1>5, <1>6, <1>7 DEF Worker

LEMMA NextCalm == Inv /\ Calm /\ [Next]_vars => Calm'
<1> SUFFICES ASSUME Inv, Calm, [Next]_vars PROVE Calm'
  OBVIOUS
<1>1. CASE LinkDown \/ Crash \/ StartTimeout
  BY <1>1, LossCalm DEF Crash, StartTimeout
<1>2. CASE Start \/ Connect \/ SetupChannel \/ Listen \/ UNCHANGED vars
  BY <1>2 DEF Start, Connect, SetupChannel, Listen, vars, Calm, OneMessageEach,
     CallbacksAreLive, UndecidedBeforeUpdate
<1>3. ASSUME NEW m \in Msg, Settle(m) PROVE Calm'
  BY <1>3 DEF Settle, connection, Inv, TypeOK, Calm, OneMessageEach, CallbacksAreLive,
     UndecidedBeforeUpdate, Free
<1>4. ASSUME NEW t \in Tx, Request(t) PROVE Calm'
  BY <1>4, RequestCalm
<1>5. ASSUME NEW j \in Job, Worker(j) PROVE Calm'
  BY <1>5, WorkerCalm
<1> QED BY <1>1, <1>2, <1>3, <1>4, <1>5 DEF Next, Environment

LEMMA InitCalm == Init => Calm
BY DEF Init, Calm, OneMessageEach, CallbacksAreLive, UndecidedBeforeUpdate, Free, Idle, Final

\* A decided transaction keeps its outcome, whatever fails, unless its event was under way
\* when a channel was lost or the catch block overwrites an update reported as failed.
THEOREM OneOutcome == Spec => DecidedOnce
<1>1. Spec => []Calm
  BY InitCalm, Invariance, NextCalm, PTL DEF Spec
<1>2. ASSUME Inv, Calm, Next, NEW t \in Tx, rows[t] \in Final, rows'[t] # rows[t],
             t \notin disturbed
      PROVE  rows'[t] = "FAILED" /\ \E j \in Job : job[j].phase = "fallback" /\ job[j].tx = t
  <2>1. ASSUME NEW u \in Tx, Request(u) PROVE rows'[t] = rows[t]
    BY <1>2, <2>1 DEF Request, Insert, InsertFails, InvalidateFails, Publish, Send, Confirm,
       PublishFails, Inv, RequestsMatchRows, TypeOK, Final
  <2>2. ASSUME NEW j \in Job, Worker(j)
        PROVE  rows'[t] = "FAILED" /\ job[j].phase = "fallback" /\ job[j].tx = t
    <3>1. \/ job[j].phase = "working" /\ \E o \in Final : SetStatus(job[j].tx, o)
          \/ job[j].phase = "fallback" /\ SetStatus(job[j].tx, "FAILED")
      BY <1>2, <2>2 DEF Worker, Deliver, Decide, DecideFails, Fallback, FallbackFails, Ack,
         SettleOnClosedChannel, FallbackFailsOnClosedChannel, ProcessDies
    <3>2. job[j].tx = t
      BY <1>2, <3>1 DEF SetStatus, Inv, TypeOK
    <3>3. job[j].phase # "working"
      BY <1>2, <3>2 DEF Calm, UndecidedBeforeUpdate
    <3> QED BY <1>2, <3>1, <3>2, <3>3 DEF SetStatus, Inv, TypeOK
  <2> QED
    BY <1>2, <2>1, <2>2 DEF Next, Environment, Start, Connect, SetupChannel, Listen, LinkDown,
       Crash, StartTimeout, ProcessDies, Settle
<1>3. Inv /\ Calm /\ [Next]_vars =>
        [\A t \in Tx : rows[t] \in Final /\ rows'[t] # rows[t] =>
           \/ t \in disturbed
           \/ rows'[t] = "FAILED"
              /\ \E j \in Job : job[j].phase = "fallback" /\ job[j].tx = t]_vars
  BY <1>2
<1> QED BY <1>1, <1>3, Invariance, PTL DEF Spec, DecidedOnce
=============================================================================
