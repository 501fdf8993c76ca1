-------------------------- MODULE TransactionList --------------------------
(***************************************************************************)
(* GET /transactions and its cache: TransactionsService.findAll reads a    *)
(* page through the cache while TransactionsService.create inserts rows    *)
(* and clears the merchant's first page, and the worker changes statuses   *)
(* without clearing anything.                                              *)
(*                                                                         *)
(* The cache and PostgreSQL are modelled from how src/ uses them.  Every   *)
(* await of findAll and create is a step boundary; findAndCount is two     *)
(* queries, the rows first.                                                *)
(***************************************************************************)
EXTENDS Pagination, FiniteSets, Sequences

CONSTANTS
    Merchant,
    Tx,         \* create requests, and the rows they insert
    Reader,     \* list requests that may be in flight together
    Query,      \* the [page, limit] pairs clients ask for
    Outcome,    \* final statuses the worker may write
    HotLimit    \* page size of the page create clears, 10 in the code

ASSUME ListAssumption ==
    /\ HotLimit \in Nat \ {0}
    /\ Query \subseteq [page : Nat \ {0}, limit : Nat \ {0}]
    /\ Outcome \subseteq {"SUCCESS", "FAILED"}

VARIABLES
    table,      \* the transactions table, oldest row first
    creating,   \* progress of TransactionsService.create, per request
    cache,      \* the page stored under each key
    req         \* list requests

vars == <<table, creating, cache, req>>

Row == [tx : Tx, merchant : Merchant, status : {"PENDING"} \cup Outcome]

\* Mutant: the key forgets the merchant.
buildCacheKeyShared(m, q) == [merchant |-> CHOOSE x \in Merchant : TRUE, query |-> q]

buildCacheKey(m, q) == [merchant |-> m, query |-> q]
Key == [merchant : Merchant, query : Query]

\* The key invalidateMerchantCache deletes.
Hot(m) == buildCacheKey(m, [page |-> 1, limit |-> HotLimit])

\* A page as findAll returns and stores it: which rows are on it matters, not how they are
\* arranged there.  late is history: the rows were read before an invalidation of this page
\* that the fill then outlived.
Page == [data : SUBSET Row, total : Nat, late : BOOLEAN]
NoPage == [data |-> {}, total |-> -1, late |-> FALSE]

Phases == {"idle", "lookup", "querying", "counting", "filling", "done"}

TypeOK ==
    /\ table \in Seq(Row)
    /\ creating \in [Tx -> {"idle", "inserted", "created", "failed"}]
    /\ cache \in [Key -> Page \cup {NoPage}]
    /\ req \in [Reader -> [phase : Phases, merchant : Merchant, query : Query,
                           seen : Nat, page : Page \cup {NoPage}]]

Init ==
    /\ table = <<>>
    /\ creating = [t \in Tx |-> "idle"]
    /\ cache = [k \in Key |-> NoPage]
    /\ \E m \in Merchant, q \in Query :
         req = [r \in Reader |-> [phase |-> "idle", merchant |-> m, query |-> q,
                                  seen |-> 0, page |-> NoPage]]

\* findByMerchant's WHERE; ORDER BY gives the newest row rank 1.
RowsOf(m) == {i \in DOMAIN table : table[i].merchant = m}
Count(m) == Cardinality(RowsOf(m))
Rank(i) == Cardinality({j \in RowsOf(table[i].merchant) : i <= j})

\* The rows between skip and take.
PageOf(m, q) == {table[i] : i \in {j \in RowsOf(m) : OnPage(Rank(j), q.page, q.limit)}}

CreatedBy(m) ==
    {t \in Tx : creating[t] = "created"
                /\ \E i \in DOMAIN table : table[i].tx = t /\ table[i].merchant = m}

InFlight == {r \in Reader : req[r].phase \in {"lookup", "querying", "counting", "filling"}}

KeyOf(r) == buildCacheKey(req[r].merchant, req[r].query)

-----------------------------------------------------------------------------
(***************************************************************************)
(* TransactionsService.create, as far as the list sees it.                 *)
(***************************************************************************)

NewRow(t, m) == [tx |-> t, merchant |-> m, status |-> "PENDING"]

Insert(t, m) ==
    /\ creating[t] = "idle"
    /\ table' = Append(table, NewRow(t, m))
    /\ creating' = [creating EXCEPT ![t] = "inserted"]
    /\ UNCHANGED <<cache, req>>

\* save rejects, before or after PostgreSQL committed the row.
InsertFails(t, m) ==
    /\ creating[t] = "idle"
    /\ table' \in {table, Append(table, NewRow(t, m))}
    /\ creating' = [creating EXCEPT ![t] = "failed"]
    /\ UNCHANGED <<cache, req>>

\* The merchant of the row a create request has stored.
OwnerOf(t) == table[CHOOSE i \in DOMAIN table : table[i].tx = t].merchant

\* Mutant: create does not clear the page.
InvalidateNothing(t) ==
    /\ creating[t] = "inserted"
    /\ creating' = [creating EXCEPT ![t] = "created"]
    /\ UNCHANGED <<table, cache, req>>

\* del resolves and create answers.
Invalidate(t) ==
    LET hot == Hot(OwnerOf(t)) IN
    /\ creating[t] = "inserted"
    /\ creating' = [creating EXCEPT ![t] = "created"]
    /\ cache' = IF hot \in Key THEN [cache EXCEPT ![hot] = NoPage] ELSE cache
    /\ req' = [r \in Reader |->
                 IF req[r].phase \in {"counting", "filling"} /\ KeyOf(r) = hot
                 THEN [req[r] EXCEPT !.page.late = TRUE] ELSE req[r]]
    /\ UNCHANGED table

\* del rejects: the row is stored, the page is not cleared and the client gets an error.
InvalidateFails(t) ==
    /\ creating[t] = "inserted"
    /\ creating' = [creating EXCEPT ![t] = "failed"]
    /\ UNCHANGED <<table, cache, req>>

\* The worker's repository update; no key is cleared.  A redelivery may repeat it.
UpdateStatus(i, status) ==
    /\ i \in DOMAIN table
    /\ table[i].status # status
    /\ table' = [table EXCEPT ![i].status = status]
    /\ UNCHANGED <<creating, cache, req>>

-----------------------------------------------------------------------------
(***************************************************************************)
(* TransactionsService.findAll.                                            *)
(***************************************************************************)

\* A client asks for a page; seen is history: how many creates were answered.
Request(r, m, q) ==
    /\ req[r].phase \in {"idle", "done"}
    /\ req' = [req EXCEPT ![r] = [phase |-> "lookup", merchant |-> m, query |-> q,
                                  seen |-> Cardinality(CreatedBy(m)), page |-> NoPage]]
    /\ UNCHANGED <<table, creating, cache>>

\* The cache holds the page: it is the answer.
Hit(r) ==
    /\ req[r].phase = "lookup"
    /\ cache[KeyOf(r)] # NoPage
    /\ req' = [req EXCEPT ![r].phase = "done", ![r].page = cache[KeyOf(r)]]
    /\ UNCHANGED <<table, creating, cache>>

\* The cache holds no page, or get fails and cache-manager answers that as a miss.
Miss(r) ==
    /\ req[r].phase = "lookup"
    /\ req' = [req EXCEPT ![r].phase = "querying"]
    /\ UNCHANGED <<table, creating, cache>>

\* The first query of findAndCount.
QueryRows(r) ==
    /\ req[r].phase = "querying"
    /\ req' = [req EXCEPT ![r].phase = "counting",
                          ![r].page = [data |-> PageOf(req[r].merchant, req[r].query),
                                       total |-> 0, late |-> FALSE]]
    /\ UNCHANGED <<table, creating, cache>>

\* Mutant: the index of the last row is taken for the count.
QueryLastIndex(r) ==
    /\ req[r].phase = "counting"
    /\ req' = [req EXCEPT ![r].phase = "filling",
                          ![r].page.total = Count(req[r].merchant) - 1]
    /\ UNCHANGED <<table, creating, cache>>

\* The second one.
QueryCount(r) ==
    /\ req[r].phase = "counting"
    /\ req' = [req EXCEPT ![r].phase = "filling",
                          ![r].page.total = Count(req[r].merchant)]
    /\ UNCHANGED <<table, creating, cache>>

\* set resolves and findAll answers.
Fill(r) ==
    /\ req[r].phase = "filling"
    /\ cache' = [cache EXCEPT ![KeyOf(r)] = req[r].page]
    /\ req' = [req EXCEPT ![r].phase = "done"]
    /\ UNCHANGED <<table, creating>>

\* What is left of a request that ends without an answer.
Ended(request) == [request EXCEPT !.phase = "idle", !.seen = 0, !.page = NoPage]

\* Any of the awaited calls rejects and the client gets an error; set may have taken
\* effect.
RequestFails(r) ==
    /\ r \in InFlight
    /\ \/ UNCHANGED cache
       \/ /\ req[r].phase = "filling"
          /\ cache' = [cache EXCEPT ![KeyOf(r)] = req[r].page]
    /\ req' = [req EXCEPT ![r] = Ended(@)]
    /\ UNCHANGED <<table, creating>>

\* Mutant: only a page with a PENDING row is stored with a time to live.
ExpirePendingOnly(k) ==
    /\ \E row \in cache[k].data : row.status = "PENDING"
    /\ cache' = [cache EXCEPT ![k] = NoPage]
    /\ UNCHANGED <<table, creating, req>>

\* redisTtl has passed since the page was stored.
Expire(k) ==
    /\ cache[k] # NoPage
    /\ cache' = [cache EXCEPT ![k] = NoPage]
    /\ UNCHANGED <<table, creating, req>>

-----------------------------------------------------------------------------
\* The process ends and starts anew.  Requests in flight end without an answer.  The pages
\* are still in Redis, or were in the memory of the process: the factory of the cache goes
\* on without Redis when it cannot connect.
Restart ==
    /\ creating' = [t \in Tx |-> IF creating[t] = "inserted" THEN "failed" ELSE creating[t]]
    /\ req' = [r \in Reader |-> IF r \in InFlight THEN Ended(req[r]) ELSE req[r]]
    /\ cache' \in {cache, [k \in Key |-> NoPage]}
    /\ UNCHANGED table

Create(t) ==
    \/ \E m \in Merchant : Insert(t, m) \/ InsertFails(t, m)
    \/ Invalidate(t) \/ InvalidateFails(t)

FindAll(r) ==
    \/ Hit(r) \/ Miss(r) \/ QueryRows(r) \/ QueryCount(r) \/ Fill(r)
    \/ RequestFails(r)

Next ==
    \/ \E t \in Tx : Create(t)
    \/ \E i \in DOMAIN table, status \in Outcome : UpdateStatus(i, status)
    \/ \E r \in Reader, m \in Merchant, q \in Query : Request(r, m, q)
    \/ \E r \in Reader : FindAll(r)
    \/ \E k \in Key : Expire(k)
    \/ Restart

Spec == Init /\ [][Next]_vars

-----------------------------------------------------------------------------
(***************************************************************************)
(* Properties.                                                             *)
(***************************************************************************)

Answered == {r \in Reader : req[r].phase = "done"}

\* README "Merchants only see their own transactions": whatever fills, hits and expiries
\* come together, a page answered to a merchant holds rows of that merchant, no row twice.
OwnTransactionsOnly ==
    \A r \in Answered : LET data == req[r].page.data IN
        /\ \A row \in data : row.merchant = req[r].merchant
        /\ \A row, other \in data : row.tx = other.tx => row = other

\* The meta of an answer covers its data although the two queries of findAndCount run at
\* different moments: the rows shown fit into total, and the page is within totalPages.
MetaCoversData ==
    \A r \in Answered :
        LET page == req[r].page
            q == req[r].query
        IN  page.data # {} =>
                /\ Skip(q.page, q.limit) + Cardinality(page.data) <= page.total
                /\ q.page <= TotalPages(page.total, q.limit)

\* The first page misses no create that was answered, unless its fill was overtaken by the
\* invalidation: clearing after the insert is enough for every other interleaving.
HotPageComplete ==
    \A m \in Merchant : Hot(m) \in Key =>
        LET page == cache[Hot(m)] IN
        page # NoPage /\ ~page.late =>
            /\ \A t \in CreatedBy(m) :
                 \/ Cardinality(page.data) = HotLimit
                 \/ \E row \in page.data : row.tx = t
            /\ Cardinality(CreatedBy(m)) <= page.total

\* Once the table stops changing, stale pages disappear for good: those create does not
\* clear, those the worker makes stale and those a slow fill brings back all expire, and
\* what is stored afterwards is true.
Fresh ==
    \A k \in Key : cache[k] # NoPage =>
        /\ cache[k].data = PageOf(k.merchant, k.query)
        /\ cache[k].total = Count(k.merchant)

EventuallyFresh == <>[][FALSE]_table => <>[]Fresh

\* README "Cache clears when you create a new transaction": a list of the first page that
\* starts after a create was answered counts it.
CreatedIsListed ==
    \A r \in Answered :
        KeyOf(r) = Hot(req[r].merchant) => req[r].seen <= req[r].page.total
=============================================================================
