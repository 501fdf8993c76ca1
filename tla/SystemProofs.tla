----------------------------- MODULE SystemProofs -----------------------------
(***************************************************************************)
(* What holds of the pipeline and the list together, for every instance:   *)
(* the table and the requests behave as TransactionList says, so what was  *)
(* proved of the list holds under the real worker too, and an outcome that *)
(* was shown stands.                                                       *)
(***************************************************************************)
EXTENDS System, TLAPS

\* The two components with what was proved of them.
PipelineP == INSTANCE TransactionPipelineProofs
ListP == INSTANCE TransactionListProofs WITH
    table <- Table, creating <- pc, Outcome <- Pipeline!Final

\* Every entry of order is a stored row, no row is in it twice.
OrderMatchesRows ==
    /\ order \in Seq([tx : Tx, merchant : Merchant])
    /\ \A i, j \in DOMAIN order : order[i].tx = order[j].tx => i = j
    /\ \A i \in DOMAIN order : rows[order[i].tx] # "Absent"

Inv ==
    /\ PipelineP!Inv
    /\ PipelineP!Calm
    /\ OrderMatchesRows

-----------------------------------------------------------------------------
(***************************************************************************)
(* The pipeline inside the system.                                         *)
(***************************************************************************)

LEMMA SameNext == Pipeline!Next => PipelineP!Next
BY DEF
   Pipeline!Start, Pipeline!Connect, Pipeline!SetupChannel, Pipeline!Listen,
   Pipeline!Requeued, Pipeline!LinkDown, Pipeline!ProcessDies, Pipeline!Crash,
   Pipeline!StartTimeout, Pipeline!Insert, Pipeline!InsertFails,
   Pipeline!InvalidateFails, Pipeline!Publish, Pipeline!Send, Pipeline!Confirm,
   Pipeline!PublishFails, Pipeline!Deliver, Pipeline!SetStatus, Pipeline!Decide,
   Pipeline!DecideFails, Pipeline!Fallback, Pipeline!FallbackFails, Pipeline!Ack,
   Pipeline!Settle, Pipeline!SettleOnClosedChannel,
   Pipeline!FallbackFailsOnClosedChannel, Pipeline!Environment, Pipeline!Request,
   Pipeline!Worker, Pipeline!Next, Pipeline!Final, Pipeline!Free, Pipeline!Held,
   Pipeline!Idle, Pipeline!connection, Pipeline!InBroker, Pipeline!UnderWay,
   PipelineP!InBroker, PipelineP!UnderWay, PipelineP!Start, PipelineP!Connect,
   PipelineP!SetupChannel, PipelineP!Listen, PipelineP!Requeued, PipelineP!LinkDown,
   PipelineP!ProcessDies, PipelineP!Crash, PipelineP!StartTimeout, PipelineP!Insert,
   PipelineP!InsertFails, PipelineP!InvalidateFails, PipelineP!Publish, PipelineP!Send,
   PipelineP!Confirm, PipelineP!PublishFails, PipelineP!Deliver, PipelineP!SetStatus,
   PipelineP!Decide, PipelineP!DecideFails, PipelineP!Fallback,
   PipelineP!FallbackFails, PipelineP!Ack, PipelineP!Settle,
   PipelineP!SettleOnClosedChannel, PipelineP!FallbackFailsOnClosedChannel,
   PipelineP!Environment, PipelineP!Request, PipelineP!Worker, PipelineP!Next,
   PipelineP!Final, PipelineP!Free, PipelineP!Held, PipelineP!Idle,
   PipelineP!connection

LEMMA SameInit == Pipeline!Init => PipelineP!Init
BY DEF Pipeline!Init, PipelineP!Init, Pipeline!Free, PipelineP!Free, Pipeline!Idle, PipelineP!Idle

\* Every step of the system is one of the pipeline or leaves the pipeline alone.
LEMMA PipelineStep == [Next]_vars => [PipelineP!Next]_(PipelineP!vars)
<1> SUFFICES ASSUME [Next]_vars
             PROVE  Pipeline!Next \/ UNCHANGED pipeline
  BY SameNext DEF pipeline, PipelineP!vars
<1>1. ASSUME NEW t \in Tx, Answer(t) \/ \E m \in Merchant : Save(t, m)
      PROVE  Pipeline!Next
  BY <1>1 DEF Answer, Save, Pipeline!Next, Pipeline!Request
<1>2. CASE Work
  BY <1>2 DEF Work, Pipeline!Next, Pipeline!Environment, Pipeline!Request, Pipeline!Worker
<1>3. CASE Die
  BY <1>3 DEF Die, Pipeline!Next, Pipeline!Environment, Pipeline!Worker
<1>4. ASSUME NEW r \in Reader, Serve(r) \/ \E m \in Merchant, q \in Query : Ask(r, m, q)
      PROVE  UNCHANGED pipeline
  BY <1>4 DEF Serve, Ask
<1>5. ASSUME NEW k \in List!Key, Expire(k)
      PROVE  UNCHANGED pipeline
  BY <1>5 DEF Expire
<1>6. CASE UNCHANGED vars
  BY <1>6 DEF vars
<1> QED BY <1>1, <1>2, <1>3, <1>4, <1>5, <1>6 DEF Next

LEMMA PipelineInv == PipelineP!Inv /\ [Next]_vars => PipelineP!Inv'
BY PipelineStep, PipelineP!NextInv, SystemAssumption

LEMMA PipelineCalm == PipelineP!Inv /\ PipelineP!Calm /\ [Next]_vars => PipelineP!Calm'
BY PipelineStep, PipelineP!NextCalm, SystemAssumption

\* A worker's update changes the status of a stored row to a final one: for the first time,
\* or again where the transaction was disturbed or is in the catch block.
Updates(t, o) ==
    /\ rows[t] # "Absent"
    /\ rows' = [rows EXCEPT ![t] = o]
    /\ rows[t] \in Pipeline!Final => t \in disturbed \/ (t \in InCatchBlock /\ o = "FAILED")

LEMMA SetStatusUpdates ==
    ASSUME Inv, NEW j \in Job, job[j].phase \in {"working", "fallback"},
           NEW o \in Pipeline!Final, job[j].phase = "fallback" => o = "FAILED",
           Pipeline!SetStatus(job[j].tx, o)
    PROVE  \/ UNCHANGED rows
           \/ \E t \in Tx : Updates(t, o)
<1>1. job[j].tx \in Tx
  BY DEF Inv, PipelineP!Inv, PipelineP!TypeOK, PipelineP!Idle, PipelineP!Busy
<1>2. CASE rows[job[j].tx] = "Absent"
  BY <1>2 DEF Pipeline!SetStatus
<1>3. CASE rows[job[j].tx] # "Absent"
  <2>1. rows' = [rows EXCEPT ![job[j].tx] = o]
    BY <1>3 DEF Pipeline!SetStatus
  <2>2. rows[job[j].tx] \in Pipeline!Final =>
          job[j].tx \in disturbed \/ (job[j].tx \in InCatchBlock /\ o = "FAILED")
    BY <1>1 DEF Inv, PipelineP!Calm, PipelineP!UndecidedBeforeUpdate, PipelineP!Final,
       Pipeline!Final, InCatchBlock
  <2> QED BY <1>1, <1>3, <2>1, <2>2 DEF Updates
<1> QED BY <1>2, <1>3

\* What a step of Work does to the rows and the requests.
LEMMA WorkShape ==
    ASSUME Inv, Work
    PROVE  \/ UNCHANGED <<rows, pc>>
           \/ UNCHANGED rows /\ \E t \in Tx : Pipeline!InvalidateFails(t)
           \/ UNCHANGED pc /\ \E t \in Tx, o \in Pipeline!Final : Updates(t, o)
<1>1. CASE \/ Pipeline!Start \/ Pipeline!Connect \/ Pipeline!SetupChannel
           \/ Pipeline!Listen \/ Pipeline!LinkDown
  BY <1>1 DEF Pipeline!Start, Pipeline!Connect, Pipeline!SetupChannel, Pipeline!Listen,
     Pipeline!LinkDown
<1>2. ASSUME NEW t \in Tx, \/ Pipeline!InvalidateFails(t) \/ Pipeline!PublishFails(t)
                           \/ Pipeline!Send(t) \/ Pipeline!Confirm(t)
      PROVE  \/ UNCHANGED <<rows, pc>>
             \/ UNCHANGED rows /\ Pipeline!InvalidateFails(t)
  BY <1>2 DEF Pipeline!InvalidateFails, Pipeline!PublishFails, Pipeline!Send, Pipeline!Confirm
<1>3. ASSUME NEW j \in Job, \/ \E m \in Msg : Pipeline!Deliver(j, m)
                            \/ Pipeline!Ack(j)
      PROVE  UNCHANGED <<rows, pc>>
  BY <1>3 DEF Pipeline!Deliver, Pipeline!Ack
<1>4. ASSUME NEW j \in Job, NEW o \in Pipeline!Final,
             Pipeline!Decide(j, o) \/ Pipeline!DecideFails(j, o)
      PROVE  UNCHANGED pc /\ (UNCHANGED rows \/ \E t \in Tx : Updates(t, o))
  <2>1. /\ UNCHANGED pc /\ job[j].phase = "working"
        /\ UNCHANGED rows \/ Pipeline!SetStatus(job[j].tx, o)
    BY <1>4 DEF Pipeline!Decide, Pipeline!DecideFails
  <2> QED BY <2>1, SetStatusUpdates
<1>5. ASSUME NEW j \in Job, Pipeline!Fallback(j) \/ Pipeline!FallbackFails(j)
      PROVE  UNCHANGED pc /\ (UNCHANGED rows \/ \E t \in Tx : Updates(t, "FAILED"))
  <2>1. /\ UNCHANGED pc /\ job[j].phase = "fallback"
        /\ UNCHANGED rows \/ Pipeline!SetStatus(job[j].tx, "FAILED")
    BY <1>5 DEF Pipeline!Fallback, Pipeline!FallbackFails
  <2>2. "FAILED" \in Pipeline!Final
    BY DEF Pipeline!Final
  <2> QED BY <2>1, <2>2, SetStatusUpdates
<1>6. ASSUME NEW m \in Msg, Pipeline!Settle(m)
      PROVE  UNCHANGED <<rows, pc>>
  BY <1>6 DEF Pipeline!Settle
<1>7. "FAILED" \in Pipeline!Final
  BY DEF Pipeline!Final
<1> QED BY <1>1, <1>2, <1>3, <1>4, <1>5, <1>6, <1>7 DEF Work

\* The histories never forget.
LEMMA HistoryGrows ==
    ASSUME [Next]_vars
    PROVE  disturbed \subseteq disturbed' /\ overwritten \subseteq overwritten'
<1>1. ASSUME Work PROVE disturbed \subseteq disturbed' /\ overwritten \subseteq overwritten'
  <2>1. overwritten \subseteq overwritten'
    BY <1>1 DEF Work
  <2>2. disturbed \subseteq disturbed'
    BY <1>1 DEF Work, Pipeline!Start, Pipeline!Connect, Pipeline!SetupChannel,
       Pipeline!Listen, Pipeline!LinkDown, Pipeline!InvalidateFails, Pipeline!PublishFails,
       Pipeline!Send, Pipeline!Confirm, Pipeline!Deliver, Pipeline!Decide,
       Pipeline!DecideFails, Pipeline!Fallback, Pipeline!FallbackFails, Pipeline!Ack,
       Pipeline!Settle, Pipeline!connection
  <2> QED BY <2>1, <2>2
<1>2. ASSUME Die PROVE disturbed \subseteq disturbed' /\ overwritten \subseteq overwritten'
  <2>1. Pipeline!ProcessDies /\ UNCHANGED overwritten
    BY <1>2 DEF Die, Pipeline!Crash, Pipeline!StartTimeout,
       Pipeline!SettleOnClosedChannel, Pipeline!FallbackFailsOnClosedChannel
  <2> QED BY <2>1 DEF Pipeline!ProcessDies
<1>3. ASSUME NEW t \in Tx, Answer(t) \/ \E m \in Merchant : Save(t, m)
      PROVE  UNCHANGED <<disturbed, overwritten>>
  BY <1>3 DEF Answer, Save, Pipeline!Publish, Pipeline!Insert, Pipeline!InsertFails,
     Pipeline!connection
<1> QED BY <1>1, <1>2, <1>3 DEF Next, vars, pipeline, Serve, Ask, Expire

-----------------------------------------------------------------------------
(***************************************************************************)
(* The rows in their order.                                                *)
(***************************************************************************)

\* Inserting appends a row no entry of order has.
LEMMA SaveShape ==
    ASSUME Inv, NEW t \in Tx, NEW m \in Merchant, Save(t, m)
    PROVE  /\ pc[t] = "idle" /\ rows[t] = "Absent" /\ UNCHANGED <<cache, req>>
           /\ \A i \in DOMAIN order : order[i].tx # t
           /\ \/ UNCHANGED <<rows, order>> /\ pc' = [pc EXCEPT ![t] = "failed"]
              \/ /\ rows' = [rows EXCEPT ![t] = "PENDING"]
                 /\ order' = Append(order, [tx |-> t, merchant |-> m])
                 /\ pc' \in {[pc EXCEPT ![t] = "inserted"], [pc EXCEPT ![t] = "failed"]}
<1>1. pc[t] = "idle" /\ UNCHANGED <<cache, req>>
  BY DEF Save, Pipeline!Insert, Pipeline!InsertFails
<1>2. rows[t] = "Absent" /\ rows \in [Tx -> PipelineP!Status]
  BY <1>1 DEF Inv, PipelineP!Inv, PipelineP!RequestsMatchRows, PipelineP!TypeOK
<1>3. \A i \in DOMAIN order : order[i].tx # t
  BY <1>2 DEF Inv, OrderMatchesRows
<1>4. \/ rows' = rows /\ pc' = [pc EXCEPT ![t] = "failed"]
      \/ /\ rows' = [rows EXCEPT ![t] = "PENDING"]
         /\ pc' \in {[pc EXCEPT ![t] = "inserted"], [pc EXCEPT ![t] = "failed"]}
  BY DEF Save, Pipeline!Insert, Pipeline!InsertFails
<1>5. order' = IF rows'[t] = "Absent" THEN order
               ELSE Append(order, [tx |-> t, merchant |-> m])
  BY DEF Save
<1> QED BY <1>1, <1>2, <1>3, <1>4, <1>5

LEMMA AppendKeepsOrder ==
    ASSUME Inv, NEW t \in Tx, NEW m \in Merchant,
           \A i \in DOMAIN order : order[i].tx # t,
           rows' = [rows EXCEPT ![t] = "PENDING"],
           order' = Append(order, [tx |-> t, merchant |-> m])
    PROVE  OrderMatchesRows'
<1> DEFINE e == [tx |-> t, merchant |-> m]
           E == [tx : Tx, merchant : Merchant]
<1>1. e \in E /\ e.tx = t /\ order \in Seq(E) /\ rows \in [Tx -> PipelineP!Status]
  BY DEF Inv, OrderMatchesRows, PipelineP!Inv, PipelineP!TypeOK
<1> HIDE DEF E
<1>2. \A i \in DOMAIN order : order[i].tx \in Tx
  <2>1. \A i \in DOMAIN order : order[i] \in E
    BY <1>1
  <2> QED BY <2>1 DEF E
<1> HIDE DEF e
<1>3. order' = Append(order, e)
  BY DEF e
<1>4. /\ order' \in Seq(E)
      /\ \A i \in DOMAIN order' : IF i \in DOMAIN order THEN order'[i] = order[i]
                                  ELSE order'[i] = e /\ i = Len(order) + 1
  BY <1>1, <1>3
<1>5. \A i \in DOMAIN order' : rows'[order'[i].tx] # "Absent"
  BY <1>1, <1>2, <1>4 DEF Inv, OrderMatchesRows
<1>6. \A i, j \in DOMAIN order' : order'[i].tx = order'[j].tx => i = j
  BY <1>1, <1>4 DEF Inv, OrderMatchesRows
<1> QED BY <1>4, <1>5, <1>6 DEF OrderMatchesRows, E

LEMMA OrderInv == Inv /\ [Next]_vars => OrderMatchesRows'
<1> SUFFICES ASSUME Inv, [Next]_vars PROVE OrderMatchesRows'
  OBVIOUS
<1>1. CASE UNCHANGED <<order, rows>>
  BY <1>1 DEF Inv, OrderMatchesRows
<1>2. ASSUME NEW t \in Tx, NEW m \in Merchant, Save(t, m)
      PROVE  OrderMatchesRows'
  BY <1>1, <1>2, SaveShape, AppendKeepsOrder
<1>3. ASSUME NEW t \in Tx, NEW o \in Pipeline!Final, Updates(t, o), UNCHANGED order
      PROVE  OrderMatchesRows'
  BY <1>3 DEF Inv, OrderMatchesRows, Updates, Pipeline!Final, PipelineP!Inv, PipelineP!TypeOK
<1>4. CASE Work
  BY <1>1, <1>3, <1>4, WorkShape DEF Work
<1>5. CASE Die
  BY <1>1, <1>5 DEF Die, Pipeline!Crash, Pipeline!StartTimeout,
     Pipeline!SettleOnClosedChannel, Pipeline!FallbackFailsOnClosedChannel,
     Pipeline!ProcessDies
<1>6. ASSUME NEW t \in Tx, Answer(t) PROVE OrderMatchesRows'
  BY <1>1, <1>6 DEF Answer, Pipeline!Publish
<1>7. CASE UNCHANGED <<pipeline, order>>
  BY <1>1, <1>7 DEF pipeline
<1> QED BY <1>2, <1>4, <1>5, <1>6, <1>7 DEF Next, vars, Serve, Ask, Expire

\* What the pipeline and the table keep, together.
THEOREM Invariance == Spec => []Inv
<1>1. Init => Inv
  <2>1. Init => PipelineP!Inv /\ PipelineP!Calm
    BY SameInit, SystemAssumption, PipelineP!InitInv, PipelineP!InitCalm DEF Init
  <2>2. Init => OrderMatchesRows
    BY DEF Init, OrderMatchesRows
  <2> QED BY <2>1, <2>2 DEF Inv
<1>2. Inv /\ [Next]_vars => Inv'
  BY PipelineInv, PipelineCalm, OrderInv DEF Inv
<1> QED BY <1>1, <1>2, PTL DEF Spec

-----------------------------------------------------------------------------
(***************************************************************************)
(* The list inside the system.                                             *)
(***************************************************************************)

LEMMA SequenceIsFunction ==
    ASSUME NEW S, NEW s \in Seq(S)
    PROVE  s = [i \in 1 .. Len(s) |-> s[i]]
OBVIOUS

LEMMA RowType ==
    ASSUME NEW S, NEW t \in Tx, NEW m \in Merchant, NEW status \in S
    PROVE  [tx |-> t, merchant |-> m, status |-> status]
             \in [tx : Tx, merchant : Merchant, status : S]
OBVIOUS

LEMMA TableFacts ==
    ASSUME Inv
    PROVE  /\ DOMAIN Table = DOMAIN order /\ DOMAIN order = 1 .. Len(order)
           /\ Len(order) \in Nat
           /\ \A i \in DOMAIN order :
                /\ order[i].tx \in Tx /\ order[i].merchant \in Merchant
                /\ Table[i] = [tx |-> order[i].tx, merchant |-> order[i].merchant,
                               status |-> rows[order[i].tx]]
           /\ Table \in Seq([tx : Tx, merchant : Merchant, status : PipelineP!Status])
           /\ rows \in [Tx -> PipelineP!Status]
<1> DEFINE E == [tx : Tx, merchant : Merchant]
<1>1. order \in Seq(E) /\ rows \in [Tx -> PipelineP!Status]
  BY DEF Inv, OrderMatchesRows, PipelineP!Inv, PipelineP!TypeOK
<1>2. DOMAIN order = 1 .. Len(order) /\ Len(order) \in Nat /\ \A i \in DOMAIN order : order[i] \in E
  <2> HIDE DEF E
  <2> QED BY <1>1
<1>3. DOMAIN Table = DOMAIN order
  BY DEF Table
<1>4. \A i \in DOMAIN order :
        /\ order[i].tx \in Tx /\ order[i].merchant \in Merchant
        /\ Table[i] = [tx |-> order[i].tx, merchant |-> order[i].merchant,
                       status |-> rows[order[i].tx]]
  BY <1>2 DEF Table
<1>5. Table \in Seq([tx : Tx, merchant : Merchant, status : PipelineP!Status])
  <2> DEFINE R == [tx : Tx, merchant : Merchant, status : PipelineP!Status]
  <2>1. ASSUME NEW i \in DOMAIN order PROVE Table[i] \in R
    <3>1. rows[order[i].tx] \in PipelineP!Status
      BY <1>1, <1>4
    <3>2. [tx |-> order[i].tx, merchant |-> order[i].merchant,
           status |-> rows[order[i].tx]] \in R
      BY <1>4, <3>1, RowType
    <3> QED BY <1>4, <3>2
  <2>2. Table = [i \in 1 .. Len(order) |-> Table[i]]
    BY <1>2 DEF Table
  <2> HIDE DEF R
  <2>3. Table \in [1 .. Len(order) -> R]
    BY <1>2, <2>1, <2>2
  <2>4. Table \in Seq(R)
    BY <1>2, <2>3
  <2> QED BY <2>4 DEF R
<1> QED BY <1>1, <1>2, <1>3, <1>4, <1>5

\* The table stays as it is when neither rows nor their order change.
LEMMA TableStays ==
    ASSUME UNCHANGED <<rows, order>>
    PROVE  UNCHANGED Table
BY DEF Table

LEMMA TableAppends ==
    ASSUME Inv, NEW t \in Tx, NEW m \in Merchant,
           \A i \in DOMAIN order : order[i].tx # t,
           rows' = [rows EXCEPT ![t] = "PENDING"],
           order' = Append(order, [tx |-> t, merchant |-> m])
    PROVE  Table' = Append(Table, List!NewRow(t, m))
<1> DEFINE e == [tx |-> t, merchant |-> m]
           row == List!NewRow(t, m)
           E == [tx : Tx, merchant : Merchant]
           R == [tx : Tx, merchant : Merchant, status : PipelineP!Status]
           n == Len(order)
           Entry(x) == [tx |-> x.tx, merchant |-> x.merchant, status |-> rows'[x.tx]]
<1>1. order \in Seq(E) /\ e \in E
  BY DEF Inv, OrderMatchesRows
<1>2. rows \in [Tx -> PipelineP!Status] /\ Table \in Seq(R) /\ n \in Nat
      /\ DOMAIN Table = 1 .. n /\ DOMAIN order = 1 .. n
  BY TableFacts
<1>3. row \in R /\ Entry(e) = row
  BY <1>2 DEF List!NewRow, PipelineP!Status
<1>4. \A i \in 1 .. n : Entry(order[i]) = Table[i]
  BY <1>2, TableFacts
<1>5. Table' = [i \in DOMAIN order' |-> Entry(order'[i])]
  BY DEF Table
<1> HIDE DEF e, E, R, row, Entry
<1>6. /\ DOMAIN order' = 1 .. n + 1 /\ order'[n + 1] = e
      /\ \A i \in 1 .. n : order'[i] = order[i]
  BY <1>1, <1>2 DEF e
<1>7. /\ Append(Table, row) = [i \in 1 .. n + 1 |-> Append(Table, row)[i]]
      /\ Append(Table, row)[n + 1] = row
      /\ \A i \in 1 .. n : Append(Table, row)[i] = Table[i]
  <2>1. Len(Table) = n
    BY <1>2
  <2>2. Append(Table, row) \in Seq(R) /\ Len(Append(Table, row)) = n + 1
    BY <1>2, <1>3, <2>1
  <2>3. Append(Table, row) = [i \in 1 .. n + 1 |-> Append(Table, row)[i]]
    BY <1>2, <2>2, SequenceIsFunction
  <2>4. Append(Table, row)[n + 1] = row /\ \A i \in 1 .. n : Append(Table, row)[i] = Table[i]
    BY <1>2, <1>3, <2>1
  <2> QED BY <2>3, <2>4
<1>8. \A i \in 1 .. n + 1 : Entry(order'[i]) = Append(Table, row)[i]
  <2> TAKE i \in 1 .. n + 1
  <2>1. i \in 1 .. n \/ i = n + 1
    BY <1>2
  <2> QED BY <1>3, <1>4, <1>6, <1>7, <2>1
<1>9. Table' = Append(Table, row)
  BY <1>5, <1>6, <1>7, <1>8
<1> QED BY <1>9 DEF row

\* A worker's update changes one row of the table, if any.
LEMMA TableUpdates ==
    ASSUME Inv, NEW t \in Tx, NEW o \in Pipeline!Final, Updates(t, o), UNCHANGED order
    PROVE  \/ UNCHANGED Table
           \/ \E i \in DOMAIN Table :
                /\ Table[i].tx = t /\ Table[i].status = rows[t] /\ Table[i].status # o
                /\ Table' = [Table EXCEPT ![i].status = o]
<1>1. rows' = [rows EXCEPT ![t] = o] /\ rows \in [Tx -> PipelineP!Status]
  BY TableFacts DEF Updates
<1>2. CASE rows[t] = o
  BY <1>1, <1>2, TableStays
<1>3. CASE \A i \in DOMAIN order : order[i].tx # t
  BY <1>1, <1>3, TableFacts DEF Table
<1>4. ASSUME rows[t] # o, NEW i \in DOMAIN order, order[i].tx = t
      PROVE  /\ i \in DOMAIN Table /\ Table[i].tx = t /\ Table[i].status = rows[t]
             /\ Table' = [Table EXCEPT ![i].status = o]
  <2>1. \A j \in DOMAIN order : j # i => order[j].tx # t
    BY <1>4 DEF Inv, OrderMatchesRows
  <2>2. \A j \in DOMAIN order : j # i => Table'[j] = Table[j]
    BY <1>1, <2>1, TableFacts DEF Table
  <2>3. Table'[i] = [Table[i] EXCEPT !.status = o]
    BY <1>1, <1>4, TableFacts DEF Table
  <2>4. Table' = [j \in DOMAIN order |-> Table'[j]]
    BY DEF Table
  <2>5. Table = [j \in DOMAIN order |-> Table[j]]
    BY DEF Table
  <2> QED BY <1>4, <2>2, <2>3, <2>4, <2>5, TableFacts
<1> QED BY <1>2, <1>3, <1>4, TableFacts

LEMMA SaveIsInsert ==
    ASSUME Inv, NEW t \in Tx, NEW m \in Merchant, Save(t, m)
    PROVE  List!Insert(t, m) \/ List!InsertFails(t, m)
<1>1. CASE UNCHANGED <<rows, order>> /\ pc' = [pc EXCEPT ![t] = "failed"]
  BY <1>1, SaveShape, TableStays DEF List!InsertFails
<1>2. CASE /\ rows' = [rows EXCEPT ![t] = "PENDING"]
           /\ order' = Append(order, [tx |-> t, merchant |-> m])
           /\ pc' \in {[pc EXCEPT ![t] = "inserted"], [pc EXCEPT ![t] = "failed"]}
  <2>1. Table' = Append(Table, List!NewRow(t, m))
    BY <1>2, SaveShape, TableAppends
  <2> QED BY <1>2, <2>1, SaveShape DEF List!Insert, List!InsertFails
<1> QED BY <1>1, <1>2, SaveShape

LEMMA WorkIsUpdate ==
    ASSUME Inv, Work
    PROVE  [List!Next]_(List!vars)
<1>1. UNCHANGED <<order, cache, req>>
  BY DEF Work
<1>2. CASE UNCHANGED <<rows, pc>>
  BY <1>1, <1>2, TableStays DEF List!vars
<1>3. ASSUME UNCHANGED rows, NEW t \in Tx, Pipeline!InvalidateFails(t)
      PROVE  List!Next
  <2>1. List!InvalidateFails(t)
    BY <1>1, <1>3, TableStays DEF List!InvalidateFails, Pipeline!InvalidateFails
  <2> QED BY <2>1 DEF List!Next, List!Create
<1>4. ASSUME UNCHANGED pc, NEW t \in Tx, NEW o \in Pipeline!Final, Updates(t, o)
      PROVE  [List!Next]_(List!vars)
  <2>1. UNCHANGED Table \/ \E i \in DOMAIN Table : List!UpdateStatus(i, o)
    BY <1>1, <1>4, TableUpdates DEF List!UpdateStatus
  <2> QED BY <1>1, <1>4, <2>1 DEF List!Next, List!vars
<1> QED BY <1>2, <1>3, <1>4, WorkShape

LEMMA NextImplements ==
    ASSUME Inv, [Next]_vars
    PROVE  [List!Next]_(List!vars)
<1>1. ASSUME NEW t \in Tx, NEW m \in Merchant, Save(t, m)
      PROVE  List!Next
  BY <1>1, SaveIsInsert DEF List!Next, List!Create
<1>2. ASSUME NEW t \in Tx, Answer(t)
      PROVE  List!Next
  BY <1>2 DEF Answer, List!Next, List!Create
<1>3. CASE Work
  BY <1>3, WorkIsUpdate
<1>4. CASE Die
  BY <1>4 DEF Die, List!Next
<1>5. ASSUME NEW r \in Reader, Serve(r) \/ \E m \in Merchant, q \in Query : Ask(r, m, q)
      PROVE  List!Next
  BY <1>5 DEF Serve, Ask, List!Next
<1>6. ASSUME NEW k \in List!Key, Expire(k)
      PROVE  List!Next
  BY <1>6 DEF Expire, List!Next
<1>7. CASE UNCHANGED vars
  BY <1>7, TableStays DEF vars, pipeline, List!vars
<1> QED BY <1>1, <1>2, <1>3, <1>4, <1>5, <1>6, <1>7 DEF Next

\* The system implements the list: its table, fed by the real worker with redeliveries and
\* crashes, changes only in the ways TransactionList allows.
THEOREM Implementation == Spec => ImplementsList
<1>1. Init => List!Init
  BY DEF Init, List!Init, Pipeline!Init, Table
<1>2. Inv /\ [Next]_vars => [List!Next]_(List!vars)
  BY NextImplements
<1> QED BY <1>1, <1>2, Invariance, PTL DEF Spec, ImplementsList, List!Spec

-----------------------------------------------------------------------------
(***************************************************************************)
(* What was proved of the list, in the system.                             *)
(***************************************************************************)

LEMMA SameListNext == [List!Next]_(List!vars) => [ListP!Next]_(ListP!vars)
BY DEF
   List!Insert, List!InsertFails, List!Invalidate, List!InvalidateFails,
   List!UpdateStatus, List!Request, List!Hit, List!Miss, List!QueryRows,
   List!QueryCount, List!Fill, List!RequestFails, List!Expire, List!Restart,
   List!Create, List!FindAll, List!Next, List!vars, List!NewRow, List!OwnerOf,
   List!Hot, List!buildCacheKey, List!NoPage, List!KeyOf, List!RowsOf, List!Count,
   List!Rank, List!PageOf, List!OnPage, List!Skip, List!Ended, List!InFlight,
   List!CreatedBy, List!Key, List!Cardinality,
   ListP!Insert, ListP!InsertFails, ListP!Invalidate, ListP!InvalidateFails,
   ListP!UpdateStatus, ListP!Request, ListP!Hit, ListP!Miss, ListP!QueryRows,
   ListP!QueryCount, ListP!Fill, ListP!RequestFails, ListP!Expire, ListP!Restart,
   ListP!Create, ListP!FindAll, ListP!Next, ListP!vars, ListP!NewRow, ListP!OwnerOf,
   ListP!Hot, ListP!buildCacheKey, ListP!NoPage, ListP!KeyOf, ListP!RowsOf, ListP!Count,
   ListP!Rank, ListP!PageOf, ListP!OnPage, ListP!Skip, ListP!Ended, ListP!InFlight,
   ListP!CreatedBy, ListP!Key, ListP!Cardinality

LEMMA SameListInit == List!Init => ListP!Init
BY DEF List!Init, List!Key, List!NoPage, ListP!Init, ListP!Key, ListP!NoPage

LEMMA ListSpec == Spec => ListP!Spec
<1>1. List!Spec => ListP!Spec
  BY SameListNext, SameListInit, PTL DEF List!Spec, ListP!Spec
<1> QED BY <1>1, Implementation DEF ImplementsList

LEMMA ListInvariance == Spec => []ListP!Inv
BY ListSpec, ListP!Invariance, SystemAssumption DEF Pipeline!Final

\* Under the real worker too, whatever fails: a merchant sees its own transactions only, an
\* answer's meta covers its data, and a first page not overtaken misses no answered create.
THEOREM ListPromises ==
    Spec => [](List!OwnTransactionsOnly /\ List!MetaCoversData /\ List!HotPageComplete)
<1>1. Spec => [](ListP!OwnTransactionsOnly /\ ListP!MetaCoversData /\ ListP!HotPageComplete)
  <2>1. Spec => []ListP!OwnTransactionsOnly
    BY ListSpec, ListP!OwnTransactions, SystemAssumption DEF Pipeline!Final
  <2>2. Spec => []ListP!MetaCoversData
    BY ListSpec, ListP!MetaCovers, SystemAssumption DEF Pipeline!Final
  <2>3. Spec => []ListP!HotPageComplete
    BY ListSpec, ListP!HotPageMissesNothing, SystemAssumption DEF Pipeline!Final
  <2> QED BY <2>1, <2>2, <2>3, PTL
<1>2. ListP!OwnTransactionsOnly => List!OwnTransactionsOnly
  BY DEF ListP!OwnTransactionsOnly, List!OwnTransactionsOnly, ListP!Answered, List!Answered
<1>3. ListP!MetaCoversData => List!MetaCoversData
  BY DEF ListP!MetaCoversData, List!MetaCoversData, ListP!Answered, List!Answered,
     ListP!Skip, List!Skip, ListP!TotalPages, List!TotalPages,
     ListP!Cardinality, List!Cardinality
<1>4. ListP!HotPageComplete => List!HotPageComplete
  BY DEF ListP!HotPageComplete, List!HotPageComplete, ListP!Hot, List!Hot,
     ListP!buildCacheKey, List!buildCacheKey, ListP!Key, List!Key, ListP!NoPage, List!NoPage,
     ListP!CreatedBy, List!CreatedBy, ListP!Cardinality, List!Cardinality
<1> QED BY <1>1, <1>2, <1>3, <1>4, PTL

-----------------------------------------------------------------------------
(***************************************************************************)
(* What a client was shown.                                                *)
(***************************************************************************)

\* ShownOutcomeStands for one row.
Stands(row) ==
    row.status \in Pipeline!Final =>
        \/ rows[row.tx] = row.status
        \/ row.tx \in disturbed /\ rows[row.tx] \in Pipeline!Final
        \/ row.tx \in overwritten /\ rows[row.tx] = "FAILED"

\* A decided row changes by a worker's update only, of a transaction whose history says so.
LEMMA RowsChange ==
    ASSUME Inv, [Next]_vars, NEW t \in Tx, rows[t] \in Pipeline!Final, rows'[t] # rows[t]
    PROVE  /\ rows'[t] \in Pipeline!Final
           /\ t \in disturbed \/ (t \in overwritten' /\ rows'[t] = "FAILED")
<1>1. rows \in [Tx -> PipelineP!Status]
  BY DEF Inv, PipelineP!Inv, PipelineP!TypeOK
<1>2. ASSUME NEW u \in Tx, NEW o \in Pipeline!Final, Updates(u, o)
      PROVE  u = t /\ rows'[t] = o
  BY <1>1, <1>2 DEF Updates
<1>3. CASE Work
  <2>1. PICK u \in Tx, o \in Pipeline!Final : Updates(u, o)
    BY <1>3, WorkShape
  <2>2. u = t /\ rows'[t] = o
    BY <1>2, <2>1
  <2>3. t \in disturbed \/ (t \in InCatchBlock /\ o = "FAILED")
    BY <2>1, <2>2 DEF Updates
  <2>4. t \in InCatchBlock => t \in overwritten'
    BY <1>3 DEF Work
  <2> QED BY <2>2, <2>3, <2>4
<1>4. ASSUME NEW u \in Tx, NEW m \in Merchant, Save(u, m)
      PROVE  rows'[t] = rows[t]
  BY <1>1, <1>4, SaveShape DEF Pipeline!Final
<1>5. ASSUME NEW u \in Tx, Answer(u)
      PROVE  rows'[t] = rows[t]
  BY <1>5 DEF Answer, Pipeline!Publish
<1>6. Die => UNCHANGED rows
  BY DEF Die, Pipeline!Crash, Pipeline!StartTimeout, Pipeline!SettleOnClosedChannel,
     Pipeline!FallbackFailsOnClosedChannel, Pipeline!ProcessDies
<1>7. UNCHANGED pipeline => UNCHANGED rows
  BY DEF pipeline
<1> QED BY <1>3, <1>4, <1>5, <1>6, <1>7 DEF Next, vars, Serve, Ask, Expire

LEMMA StandsStill ==
    ASSUME Inv, [Next]_vars, NEW row, row.tx \in Tx, Stands(row)
    PROVE  Stands(row)'
<1> SUFFICES ASSUME row.status \in Pipeline!Final
             PROVE  \/ rows'[row.tx] = row.status
                    \/ row.tx \in disturbed' /\ rows'[row.tx] \in Pipeline!Final
                    \/ row.tx \in overwritten' /\ rows'[row.tx] = "FAILED"
  BY DEF Stands
<1>1. rows[row.tx] \in Pipeline!Final
  BY DEF Stands, Pipeline!Final
<1>2. CASE rows'[row.tx] = rows[row.tx]
  BY <1>2, HistoryGrows DEF Stands
<1>3. CASE rows'[row.tx] # rows[row.tx]
  BY <1>1, <1>3, RowsChange, HistoryGrows
<1> QED BY <1>2, <1>3

\* Now and after a step.
LEMMA ShownIsVisible ==
    /\ \A row : row \in Shown <=> ListP!Visible(row)
    /\ \A row : (row \in Shown)' <=> ListP!Visible(row)'
<1>1. List!Key = ListP!Key
  BY DEF List!Key, ListP!Key
<1>2. \A row : row \in Shown <=> \/ \E k \in List!Key : row \in cache[k].data
                                 \/ \E r \in Reader : row \in req[r].page.data
  BY DEF Shown, Cached, RowsOn
<1>3. \A row : (row \in Shown)' <=> \/ \E k \in List!Key : row \in cache'[k].data
                                    \/ \E r \in Reader : row \in req'[r].page.data
  BY DEF Shown, Cached, RowsOn
<1> QED BY <1>1, <1>2, <1>3 DEF ListP!Visible

\* An outcome a client was shown, or that waits in the cache to be shown, stands.
THEOREM OutcomeStands == Spec => []ShownOutcomeStands
<1>1. Init => ShownOutcomeStands
  <2> SUFFICES ASSUME Init PROVE Shown = {}
    BY DEF ShownOutcomeStands
  <2>1. \A k \in List!Key : cache[k].data = {}
    BY DEF Init, List!Init, List!NoPage
  <2>2. \A r \in Reader : req[r].page.data = {}
    BY DEF Init, List!Init, List!NoPage
  <2> QED BY <2>1, <2>2 DEF Shown, Cached, RowsOn
<1>2. Inv /\ ListP!Inv /\ ShownOutcomeStands /\ [Next]_vars => ShownOutcomeStands'
  <2> SUFFICES ASSUME Inv, ListP!Inv, ShownOutcomeStands, [Next]_vars,
                      NEW row, row \in Shown'
               PROVE  Stands(row)'
    BY DEF ShownOutcomeStands, Stands
  <2>1. ListP!Visible(row)'
    BY ShownIsVisible
  <2>2. ListP!Visible(row) \/ \E i \in DOMAIN Table : row = Table[i]
    BY <2>1, NextImplements, SameListNext, ListP!VisibleStep, SystemAssumption
       DEF Pipeline!Final
  <2>3. CASE ListP!Visible(row)
    <3>1. row.tx \in Tx
      BY <2>3, ListP!VisibleRows, SystemAssumption DEF ListP!Inv, ListP!Row, Pipeline!Final
    <3>2. Stands(row)
      BY <2>3, ShownIsVisible DEF ShownOutcomeStands, Stands
    <3> QED BY <3>1, <3>2, StandsStill
  <2>4. ASSUME NEW i \in DOMAIN Table, row = Table[i]
        PROVE  row.tx \in Tx /\ Stands(row)
    BY <2>4, TableFacts DEF Stands
  <2> QED BY <2>2, <2>3, <2>4, StandsStill
<1> QED BY <1>1, <1>2, Invariance, ListInvariance, PTL DEF Spec
=============================================================================
