------------------------------ MODULE PageWalk ------------------------------
(***************************************************************************)
(* A client that walks through GET /transactions page by page until        *)
(* meta.totalPages, while more transactions are created.  Rows are         *)
(* numbered in the order in which they become visible.  findAll lists them *)
(* by createdAt, newest first: a row that commits late appears below newer *)
(* ones, and PostgreSQL returns rows with equal createdAt in any order,    *)
(* another one for every query.  An answer may come from the cache.        *)
(***************************************************************************)
EXTENDS Pagination, FiniteSets, Sequences

CONSTANTS MaxRows,      \* bound on the merchant's rows
          MaxLimit,     \* largest page size, 100 in the code
          Time          \* values of createdAt

ASSUME WalkAssumption ==
    /\ MaxRows \in Nat
    /\ MaxLimit \in Nat \ {0}
    /\ Time \subseteq Nat

VARIABLES
    createdAt,  \* createdAt of the merchant's rows
    limit,      \* page size of the walk
    page,       \* pages read so far
    first,      \* rows there were when the first answer was made
    asOf,       \* rows there were when the last answer was made, or the walk began
    last,       \* meta.total of the last answer
    seen,       \* rows the client was shown
    inOrder     \* history: no answer was made before the one the client got before it

vars == <<createdAt, limit, page, first, asOf, last, seen, inOrder>>

Rows == DOMAIN createdAt

TypeOK ==
    /\ createdAt \in Seq(Time)
    /\ limit \in 1 .. MaxLimit
    /\ page \in Nat
    /\ {first, asOf, last} \subseteq 0 .. Len(createdAt)
    /\ seen \subseteq Rows
    /\ inOrder \in BOOLEAN

Init ==
    /\ createdAt \in UNION {[1 .. n -> Time] : n \in 0 .. MaxRows}
    /\ limit \in 1 .. MaxLimit
    /\ page = 0
    /\ first = 0
    /\ asOf = Len(createdAt)
    /\ last = 0
    /\ seen = {}
    /\ inOrder = TRUE

Finished == page > 0 /\ page >= TotalPages(last, limit)

\* Of the first n rows: those above row k in the list, and those that share its place.
Newer(k, n) == {j \in 1 .. n : createdAt[j] > createdAt[k]}
Tied(k, n) == {j \in 1 .. n : createdAt[j] = createdAt[k]}

\* The positions the rows tied with k take, in some order.
Places(k, n) ==
    {i \in 1 .. n : /\ Cardinality(Newer(k, n)) < i
                    /\ i <= Cardinality(Newer(k, n)) + Cardinality(Tied(k, n))}

\* ORDER BY createdAt DESC of n rows may put the rows shown on page p: as many of every
\* group of equal rows as it has places there.
MayShow(n, p, shown) ==
    \A k \in 1 .. n :
        Cardinality(shown \cap Tied(k, n)) =
            Cardinality({i \in Places(k, n) : OnPage(i, p, limit)})

\* A transaction of the merchant becomes visible.
Create ==
    /\ Len(createdAt) < MaxRows
    /\ \E time \in Time : createdAt' = Append(createdAt, time)
    /\ UNCHANGED <<limit, page, first, asOf, last, seen, inOrder>>

AnswerLastIndex(n) ==                   \* mutant: the index of the last row as total
    /\ ~Finished
    /\ page' = page + 1
    /\ first' = IF page = 0 THEN n ELSE first
    /\ asOf' = n
    /\ last' \in {m - 1 : m \in n .. Len(createdAt)}
    /\ \E shown \in SUBSET (1 .. n) :
         MayShow(n, page + 1, shown) /\ seen' = seen \cup shown
    /\ inOrder' = (inOrder /\ (page = 0 \/ asOf <= n))
    /\ UNCHANGED <<createdAt, limit>>

\* The next page, made when the merchant had n rows; the count is the second query of
\* findAndCount, and rows may have come between.
Answer(n) ==
    /\ ~Finished
    /\ page' = page + 1
    /\ first' = IF page = 0 THEN n ELSE first
    /\ asOf' = n
    /\ last' \in n .. Len(createdAt)
    /\ \E shown \in SUBSET (1 .. n) :
         MayShow(n, page + 1, shown) /\ seen' = seen \cup shown
    /\ inOrder' = (inOrder /\ (page = 0 \/ asOf <= n))
    /\ UNCHANGED <<createdAt, limit>>

\* From the database, which is asked after the last answer was made.
ReadPage == \E n \in asOf .. Len(createdAt) : Answer(n)

\* From the cache: the page may be older than any the client has seen.
ReadCachedPage == \E n \in 0 .. Len(createdAt) : Answer(n)

Next == Create \/ ReadPage \/ ReadCachedPage

Spec == Init /\ [][Next]_vars

Unique(k) == \A j \in Rows \ {k} : createdAt[j] # createdAt[k]

\* A walk misses no row its first answer counted, although creates shift the pages under
\* it, rows that commit late come in between and pages come from the cache, provided that
\* no page is older than the one before it and the row's createdAt is its own: skip, take
\* and totalPages fit together, and a row can only move towards later pages.
WalkMissesNothing ==
    Finished /\ inOrder => \A k \in 1 .. first : Unique(k) => k \in seen

\* Every row of a list is on exactly one of its pages.
EveryRowOnOnePage ==
    \A i \in 1 .. Len(createdAt) :
        \E p \in 1 .. TotalPages(Len(createdAt), limit) :
            OnPage(i, p, limit) /\ \A q \in 1 .. Len(createdAt) : OnPage(i, q, limit) => q = p
=============================================================================
