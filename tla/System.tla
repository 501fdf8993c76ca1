------------------------------- MODULE System -------------------------------
(***************************************************************************)
(* The pipeline and the list together: what GET /transactions shows of a   *)
(* transaction during its life.  They share the transactions table, the    *)
(* requests that create and the process they run in.  The steps are those  *)
(* of the two components, joined where the code does both at once: a       *)
(* stored row appears in the table, create publishes after it cleared the  *)
(* first page, and the end of the process ends its list requests.          *)
(***************************************************************************)
EXTENDS Naturals, Sequences

CONSTANTS
    Tx, Msg, Job, MaxFaults,            \* see TransactionPipeline
    Merchant, Reader, Query, HotLimit   \* see TransactionList

ASSUME SystemAssumption ==
    /\ MaxFaults \in Nat
    /\ HotLimit \in Nat \ {0}
    /\ Query \subseteq [page : Nat \ {0}, limit : Nat \ {0}]

VARIABLES
    proc, ready, channel, rows, pc, pub, msg, job, dropped, faults, disturbed,
    order,      \* whose transactions are stored, oldest first
    cache, req,
    overwritten \* history: transactions whose outcome the catch block overwrote

pipeline == <<proc, ready, channel, rows, pc, pub, msg, job, dropped, faults, disturbed>>
vars == <<pipeline, order, cache, req, overwritten>>

Pipeline == INSTANCE TransactionPipeline

\* The table as the list reads it: the rows in their order, with the worker's statuses.
Table ==
    [i \in DOMAIN order |->
        [tx |-> order[i].tx, merchant |-> order[i].merchant, status |-> rows[order[i].tx]]]

List == INSTANCE TransactionList WITH
    table <- Table, creating <- pc, Outcome <- Pipeline!Final

Init ==
    /\ Pipeline!Init
    /\ order = <<>>
    /\ List!Init
    /\ overwritten = {}

-----------------------------------------------------------------------------
\* save resolves or rejects; the row is stored or not.
Save(t, m) ==
    /\ Pipeline!Insert(t) \/ Pipeline!InsertFails(t)
    /\ order' = IF rows'[t] = "Absent" THEN order
                ELSE Append(order, [tx |-> t, merchant |-> m])
    /\ UNCHANGED <<cache, req, overwritten>>

\* Mutant: create publishes and answers without clearing the page.
AnswerUncleared(t) ==
    /\ Pipeline!Publish(t)
    /\ UNCHANGED <<order, cache, req, overwritten>>

\* The first page is cleared, the event handed over and the client answered.
Answer(t) ==
    /\ Pipeline!Publish(t)
    /\ UNCHANGED <<order, overwritten>>
    /\ List!Invalidate(t)

\* Transactions whose callback is in the catch block of processTransaction.
InCatchBlock == {t \in Tx : \E j \in Job : job[j].phase = "fallback" /\ job[j].tx = t}

\* Steps of the pipeline the list takes no part in, but may see the outcome of.
Work ==
    /\ \/ Pipeline!Start \/ Pipeline!Connect \/ Pipeline!SetupChannel
       \/ Pipeline!Listen \/ Pipeline!LinkDown
       \/ \E t \in Tx : \/ Pipeline!InvalidateFails(t) \/ Pipeline!PublishFails(t)
                        \/ Pipeline!Send(t) \/ Pipeline!Confirm(t)
       \/ \E j \in Job :
            \/ \E m \in Msg : Pipeline!Deliver(j, m)
            \/ \E outcome \in Pipeline!Final :
                 Pipeline!Decide(j, outcome) \/ Pipeline!DecideFails(j, outcome)
            \/ Pipeline!Fallback(j) \/ Pipeline!FallbackFails(j) \/ Pipeline!Ack(j)
       \/ \E m \in Msg : Pipeline!Settle(m)
    /\ overwritten' = overwritten \cup
         {t \in InCatchBlock : rows[t] \in Pipeline!Final /\ rows'[t] # rows[t]}
    /\ UNCHANGED <<order, cache, req>>

\* The process ends, in whatever way.
Die ==
    /\ \/ Pipeline!Crash \/ Pipeline!StartTimeout
       \/ \E j \in Job : \/ Pipeline!SettleOnClosedChannel(j)
                         \/ Pipeline!FallbackFailsOnClosedChannel(j)
    /\ UNCHANGED <<order, overwritten>>
    /\ List!Restart

\* The API listens and takes a list request.
Ask(r, m, q) ==
    /\ proc = "up"
    /\ UNCHANGED <<pipeline, order, overwritten>>
    /\ List!Request(r, m, q)

Serve(r) ==
    /\ UNCHANGED <<pipeline, order, overwritten>>
    /\ List!FindAll(r)

Expire(k) ==
    /\ UNCHANGED <<pipeline, order, overwritten>>
    /\ List!Expire(k)

Next ==
    \/ \E t \in Tx : Answer(t) \/ \E m \in Merchant : Save(t, m)
    \/ Work \/ Die
    \/ \E r \in Reader : Serve(r) \/ \E m \in Merchant, q \in Query : Ask(r, m, q)
    \/ \E k \in List!Key : Expire(k)

\* Besides the pipeline's: a list request that started runs to its end, and every stored page
\* expires.
Fairness ==
    /\ Pipeline!Fairness
    /\ \A r \in Reader : WF_vars(Serve(r))
    /\ \A k \in List!Key : WF_vars(Expire(k))

Spec == Init /\ [][Next]_vars /\ Fairness

-----------------------------------------------------------------------------
(***************************************************************************)
(* Properties.                                                             *)
(***************************************************************************)

\* The rows of cached pages, and of those list requests have read.
RowsOn(pages) == UNION {page.data : page \in pages}
Cached == RowsOn({cache[k] : k \in List!Key})
Shown == Cached \cup RowsOn({req[r].page : r \in Reader})

\* Under the real worker, with its redeliveries and crashes, the table and the requests
\* still behave as the list was checked against: rows appear once, in one order, and only
\* their status changes afterwards, to a final one.
ImplementsList == List!Spec

\* An outcome a client was shown stands, though lost connections and crashes come before and
\* after it.  Two things can take it back, both of them in the code: the event was under way
\* when a channel was lost and is processed again, which draws a new outcome; or the update
\* was reported as failed although it took effect, and the catch block overwrites it with
\* FAILED.  Even then the row is never PENDING again.
ShownOutcomeStands ==
    \A row \in Shown : row.status \in Pipeline!Final =>
        \/ rows[row.tx] = row.status
        \/ row.tx \in disturbed /\ rows[row.tx] \in Pipeline!Final
        \/ row.tx \in overwritten /\ rows[row.tx] = "FAILED"

\* Once the table stops changing no stale page stays or comes back, also when the process
\* ends between a read and its fill, or loses the pages it kept in memory.
EventuallyFresh == List!EventuallyFresh

\* A transaction whose event the broker confirmed leaves the cached pages as PENDING for
\* good, unless the worker rejects it: nothing clears a page when the worker decides, but
\* neither old pages nor slow fills, crashes and redeliveries keep the old status alive.
ConfirmedIsShown ==
    \A t \in Tx :
        pub[t] = "confirmed" ~>
            \/ t \in dropped
            \/ [](\A row \in Cached : row.tx = t => row.status # "PENDING")
=============================================================================
