------------------------ MODULE TransactionListProofs ------------------------
(***************************************************************************)
(* What holds of TransactionList for any merchants, transactions, readers, *)
(* pages and page sizes.                                                   *)
(***************************************************************************)
EXTENDS TransactionList, PaginationProofs, FiniteSetTheorems

\* A create request stores at most one row, and none before it ran.
RowsHaveRequests ==
    /\ \A i, j \in DOMAIN table : table[i].tx = table[j].tx => i = j
    /\ \A i \in DOMAIN table : creating[table[i].tx] # "idle"
    /\ \A t \in Tx : creating[t] = "inserted" => \E i \in DOMAIN table : table[i].tx = t

\* The rows of a page are the merchant's, each of them once, and fit between skip and n.
Sound(page, m, q, n) ==
    /\ IsFiniteSet(page.data)
    /\ \A row \in page.data : row.merchant = m
    /\ \A row, other \in page.data : row.tx = other.tx => row = other
    /\ page.data # {} => Skip(q.page, q.limit) + Cardinality(page.data) <= n

\* A page shows every create that was answered, or is full.
Complete(page, m) ==
    \A t \in CreatedBy(m) :
        Cardinality(page.data) = HotLimit \/ \E row \in page.data : row.tx = t

\* What a list request x holds.  Between the two queries its rows fit into the rows there
\* are, afterwards into its total; a first page on its way into the cache is complete, unless
\* it was overtaken.
Holds(x) ==
    LET m == x.merchant IN
    /\ x.phase = "counting" => Sound(x.page, m, x.query, Count(m))
    /\ x.phase \in {"filling", "done"} => Sound(x.page, m, x.query, x.page.total)
    /\ x.phase \in {"counting", "filling"} =>
         /\ x.page \in Page
         /\ buildCacheKey(m, x.query) = Hot(m) /\ ~x.page.late => Complete(x.page, m)
    /\ x.phase = "filling" /\ buildCacheKey(m, x.query) = Hot(m) /\ ~x.page.late =>
         Cardinality(CreatedBy(m)) <= x.page.total

\* What the cache stores under key k.
Stores(k, page) ==
    /\ Sound(page, k.merchant, k.query, page.total)
    /\ k = Hot(k.merchant) /\ page # NoPage /\ ~page.late =>
         /\ Complete(page, k.merchant)
         /\ Cardinality(CreatedBy(k.merchant)) <= page.total

Inv ==
    /\ TypeOK
    /\ RowsHaveRequests
    /\ \A r \in Reader : Holds(req[r])
    /\ \A k \in Key : Stores(k, cache[k])

-----------------------------------------------------------------------------
(***************************************************************************)
(* Ranks and pages.                                                        *)
(***************************************************************************)

LEMMA FiniteSelection ==
    ASSUME NEW t \in Seq(Row), NEW m
    PROVE  LET S == {i \in DOMAIN t : t[i].merchant = m}
           IN  IsFiniteSet(S) /\ Cardinality(S) \in Nat /\ S \subseteq Nat
<1>1. DOMAIN t = 1 .. Len(t) /\ Len(t) \in Nat
  OBVIOUS
<1>2. IsFiniteSet(1 .. Len(t))
  BY <1>1, FS_Interval
<1>3. {i \in DOMAIN t : t[i].merchant = m} \in SUBSET (1 .. Len(t))
  BY <1>1
<1> QED BY <1>2, <1>3, FS_Subset, FS_CardinalityType

LEMMA FiniteRows ==
    ASSUME TypeOK, NEW m
    PROVE  IsFiniteSet(RowsOf(m)) /\ Count(m) \in Nat /\ RowsOf(m) \subseteq Nat
BY FiniteSelection DEF TypeOK, RowsOf, Count

\* The ranks of a merchant's rows are 1, 2, ... up to their number, each taken once.
LEMMA RankType ==
    ASSUME TypeOK, NEW m, NEW i \in RowsOf(m)
    PROVE  Rank(i) \in 1 .. Count(m)
<1> DEFINE Newer == {j \in RowsOf(m) : i <= j}
<1>1. table[i].merchant = m /\ i \in Nat
  BY FiniteRows DEF RowsOf
<1>2. IsFiniteSet(RowsOf(m)) /\ Count(m) \in Nat /\ Newer \in SUBSET RowsOf(m)
  BY FiniteRows
<1>3. IsFiniteSet(Newer) /\ Cardinality(Newer) <= Count(m) /\ Cardinality(Newer) \in Nat
  BY <1>2, FS_Subset, FS_CardinalityType DEF Count
<1>4. i \in Newer
  BY <1>1
<1>5. Cardinality(Newer) # 0
  BY <1>3, <1>4, FS_EmptySet
<1>6. Rank(i) = Cardinality(Newer)
  BY <1>1 DEF Rank
<1> HIDE DEF Newer
<1> QED BY <1>2, <1>3, <1>5, <1>6

LEMMA RankInjective ==
    ASSUME TypeOK, NEW m, NEW i \in RowsOf(m), NEW j \in RowsOf(m), i < j
    PROVE  Rank(i) # Rank(j)
<1> DEFINE After(k) == {l \in RowsOf(m) : k <= l}
<1>1. i \in Nat /\ j \in Nat /\ RowsOf(m) \subseteq Nat
  BY FiniteRows
<1>2. After(j) \in SUBSET After(i)
  BY <1>1
<1>3. i \in After(i) /\ i \notin After(j)
  BY <1>1
<1>4. IsFiniteSet(After(i))
  BY FiniteRows, FS_Subset
<1>5. Cardinality(After(i)) # Cardinality(After(j))
  <2> HIDE DEF After
  <2> QED BY <1>2, <1>3, <1>4, FS_Subset
<1> QED BY <1>5 DEF Rank, RowsOf

LEMMA RankSurjective ==
    ASSUME TypeOK, NEW m, NEW n \in 1 .. Count(m)
    PROVE  \E i \in RowsOf(m) : Rank(i) = n
<1> DEFINE f == [i \in RowsOf(m) |-> Rank(i)]
           T == 1 .. Count(m)
<1>1. IsFiniteSet(T) /\ Cardinality(T) = Count(m) /\ IsFiniteSet(RowsOf(m))
  <2>1. Count(m) \in Nat /\ IsFiniteSet(RowsOf(m))
    BY FiniteRows
  <2> QED BY <2>1, FS_Interval
<1>2. f \in [RowsOf(m) -> T]
  BY RankType
<1>3. \A i, j \in RowsOf(m) : f[i] = f[j] => i = j
  <2>1. ASSUME NEW i \in RowsOf(m), NEW j \in RowsOf(m), i # j PROVE f[i] # f[j]
    <3>1. i < j \/ j < i
      BY <2>1, FiniteRows
    <3> QED BY <3>1, RankInjective
  <2> QED BY <2>1
<1>4. f \in Injection(RowsOf(m), T)
  BY <1>2, <1>3 DEF Injection, IsInjective
<1>5. f \in Surjection(RowsOf(m), T)
  <2> HIDE DEF f, T
  <2> QED BY <1>1, <1>4, FS_Injection DEF Count
<1>6. \A t \in T : \E i \in RowsOf(m) : f[i] = t
  BY <1>5 DEF Surjection
<1> QED BY <1>6

\* The positions of the rows on a page.
On(m, q) == {i \in RowsOf(m) : OnPage(Rank(i), q.page, q.limit)}

LEMMA QueryFacts ==
    ASSUME NEW q \in Query
    PROVE  /\ q.page \in Nat \ {0} /\ q.limit \in Nat \ {0}
           /\ Skip(q.page, q.limit) \in Nat
BY ListAssumption, SkipType

LEMMA RowsAreDistinct ==
    ASSUME TypeOK, RowsHaveRequests, NEW m
    PROVE  /\ RowsOf(m) \subseteq DOMAIN table
           /\ \A i \in RowsOf(m) : table[i] \in Row /\ table[i].merchant = m
           /\ \A i, j \in RowsOf(m) : table[i].tx = table[j].tx => i = j
BY DEF TypeOK, RowsHaveRequests, RowsOf

LEMMA PageSize ==
    ASSUME TypeOK, RowsHaveRequests, NEW m, NEW q
    PROVE  /\ IsFiniteSet(On(m, q)) /\ Cardinality(On(m, q)) \in Nat
           /\ IsFiniteSet(PageOf(m, q)) /\ Cardinality(PageOf(m, q)) = Cardinality(On(m, q))
<1> DEFINE f == [i \in On(m, q) |-> table[i]]
<1>1. IsFiniteSet(On(m, q)) /\ Cardinality(On(m, q)) \in Nat
  <2>1. On(m, q) \in SUBSET RowsOf(m)
    BY DEF On
  <2> QED BY <2>1, FiniteRows, FS_Subset, FS_CardinalityType
<1>2. PageOf(m, q) = {table[i] : i \in On(m, q)}
  BY DEF PageOf, On
<1>3. f \in Surjection(On(m, q), PageOf(m, q))
  BY <1>2 DEF Surjection
<1>4. f \in Injection(On(m, q), PageOf(m, q))
  <2>1. \A i, j \in On(m, q) : f[i] = f[j] => i = j
    BY RowsAreDistinct DEF On
  <2>2. f \in [On(m, q) -> PageOf(m, q)]
    BY <1>2
  <2> QED BY <2>1, <2>2 DEF Injection, IsInjective
<1> HIDE DEF f
<1> QED BY <1>1, <1>3, <1>4, FS_Surjection

\* What findByMerchant's first query returns fits into what its second one would count.
LEMMA PageIsSound ==
    ASSUME TypeOK, RowsHaveRequests, NEW m \in Merchant, NEW q \in Query,
           NEW page, page.data = PageOf(m, q)
    PROVE  Sound(page, m, q, Count(m))
<1> DEFINE skip == Skip(q.page, q.limit)
           T == skip + 1 .. Count(m)
           rank == [i \in On(m, q) |-> Rank(i)]
<1>1. skip \in Nat /\ Count(m) \in Nat /\ q.limit \in Nat
  BY QueryFacts, FiniteRows
<1>2. rank \in [On(m, q) -> T]
  <2>1. ASSUME NEW i \in On(m, q) PROVE Rank(i) \in T
    <3>1. Rank(i) \in 1 .. Count(m) /\ skip < Rank(i)
      BY RankType DEF On, OnPage
    <3> QED BY <1>1, <3>1
  <2> QED BY <2>1
<1>3. \A i, j \in On(m, q) : rank[i] = rank[j] => i = j
  <2>1. ASSUME NEW i \in On(m, q), NEW j \in On(m, q), i # j PROVE rank[i] # rank[j]
    <3>1. i < j \/ j < i
      BY <2>1, FiniteRows DEF On
    <3> QED BY <3>1, RankInjective DEF On
  <2> QED BY <2>1
<1>4. rank \in Injection(On(m, q), T)
  BY <1>2, <1>3 DEF Injection, IsInjective
<1>5. IsFiniteSet(T) /\ Cardinality(T) = IF skip + 1 > Count(m) THEN 0 ELSE Count(m) - skip
  <2>1. \A a, b \in Nat : IsFiniteSet(a + 1 .. b)
                        /\ Cardinality(a + 1 .. b) = IF a + 1 > b THEN 0 ELSE b - a
    <3> TAKE a, b \in Nat
    <3>1. a + 1 \in Int /\ b \in Int /\ b - (a + 1) + 1 = b - a
      OBVIOUS
    <3> QED BY <3>1, FS_Interval
  <2> HIDE DEF skip
  <2> QED BY <1>1, <2>1
<1>6. Cardinality(On(m, q)) <= Cardinality(T)
  <2> HIDE DEF rank, T
  <2> QED BY <1>4, <1>5, FS_Injection
<1>7. ASSUME page.data # {}
      PROVE  skip + Cardinality(page.data) <= Count(m)
  <2>1. PICK i : i \in On(m, q)
    BY <1>7 DEF PageOf, On
  <2>2. rank[i] \in T
    BY <1>2, <2>1
  <2>3. skip + 1 <= Count(m)
    BY <1>1, <2>2
  <2>4. Cardinality(page.data) = Cardinality(On(m, q)) /\ Cardinality(On(m, q)) \in Nat
    BY PageSize
  <2> HIDE DEF skip, T
  <2> QED BY <1>1, <1>5, <1>6, <2>3, <2>4
<1>8. \A row \in page.data : row.merchant = m
  BY RowsAreDistinct DEF PageOf
<1>9. \A row, other \in page.data : row.tx = other.tx => row = other
  BY RowsAreDistinct DEF PageOf
<1> QED BY <1>7, <1>8, <1>9, PageSize DEF Sound

\* A first page that does not show one of the merchant's rows is full.
LEMMA FirstPageFull ==
    ASSUME TypeOK, RowsHaveRequests, NEW m, NEW q, q.page = 1, q.limit = HotLimit,
           NEW i \in RowsOf(m), table[i] \notin PageOf(m, q)
    PROVE  Cardinality(PageOf(m, q)) = HotLimit
<1> DEFINE T == 1 .. HotLimit
           rank == [j \in On(m, q) |-> Rank(j)]
<1>1. HotLimit \in Nat /\ Count(m) \in Nat
  BY ListAssumption, FiniteRows
<1>2. \A j \in RowsOf(m) : j \in On(m, q) <=> Rank(j) \in T
  <2>1. \A n \in Nat : OnPage(n, q.page, q.limit) <=> n \in T
    BY <1>1 DEF OnPage, Skip
  <2>2. \A j \in RowsOf(m) : Rank(j) \in Nat
    BY <1>1, RankType
  <2> QED BY <2>1, <2>2 DEF On
<1>3. HotLimit < Count(m)
  <2>1. Rank(i) \in 1 .. Count(m)
    BY RankType
  <2>2. Rank(i) \notin T
    BY <1>2 DEF PageOf, On
  <2> QED BY <1>1, <2>1, <2>2
<1>4. rank \in [On(m, q) -> T]
  BY <1>2 DEF On
<1>5. \A j, k \in On(m, q) : rank[j] = rank[k] => j = k
  <2>1. ASSUME NEW j \in On(m, q), NEW k \in On(m, q), j # k PROVE rank[j] # rank[k]
    <3>1. j < k \/ k < j
      BY <2>1, FiniteRows DEF On
    <3> QED BY <3>1, RankInjective DEF On
  <2> QED BY <2>1
<1>6. \A n \in T : \E j \in On(m, q) : rank[j] = n
  <2>1. \A n \in T : n \in 1 .. Count(m)
    BY <1>1, <1>3
  <2> QED BY <1>2, <2>1, RankSurjective
<1>7. rank \in Injection(On(m, q), T) /\ rank \in Surjection(On(m, q), T)
  BY <1>4, <1>5, <1>6 DEF Injection, IsInjective, Surjection
<1>8. IsFiniteSet(T) /\ Cardinality(T) = HotLimit
  BY <1>1, FS_Interval
<1>9. Cardinality(On(m, q)) = Cardinality(T)
  <2> HIDE DEF rank, T
  <2> QED BY <1>7, <1>8, FS_Injection
<1> QED BY <1>8, <1>9, PageSize

\* The answered creates are some of the merchant's rows.
LEMMA CreatedAreRows ==
    ASSUME TypeOK, NEW m
    PROVE  /\ IsFiniteSet(CreatedBy(m)) /\ Cardinality(CreatedBy(m)) \in Nat
           /\ Cardinality(CreatedBy(m)) <= Count(m)
<1> DEFINE S == {i \in RowsOf(m) : table[i].tx \in CreatedBy(m)}
           f == [i \in S |-> table[i].tx]
<1>1. f \in Surjection(S, CreatedBy(m))
  BY DEF Surjection, CreatedBy, RowsOf
<1>2. IsFiniteSet(S) /\ Cardinality(S) <= Count(m) /\ Cardinality(S) \in Nat
  <2>1. S \in SUBSET RowsOf(m)
    OBVIOUS
  <2> HIDE DEF S
  <2> QED BY <2>1, FiniteRows, FS_Subset, FS_CardinalityType DEF Count
<1>3. IsFiniteSet(CreatedBy(m)) /\ Cardinality(CreatedBy(m)) <= Cardinality(S)
  <2> HIDE DEF f, S
  <2> QED BY <1>1, <1>2, FS_Surjection
<1> QED BY <1>2, <1>3, FiniteRows, FS_CardinalityType

-----------------------------------------------------------------------------
(***************************************************************************)
(* What a step leaves as it is.                                            *)
(***************************************************************************)

Asked == [phase : Phases, merchant : Merchant, query : Query, seen : Nat,
          page : Page \cup {NoPage}]

LEMMA AskedFields ==
    ASSUME NEW x \in Asked
    PROVE  /\ x.merchant \in Merchant /\ x.query \in Query
           /\ x.page \in Page \cup {NoPage}
           /\ buildCacheKey(x.merchant, x.query) \in Key
           /\ buildCacheKey(x.merchant, x.query).merchant = x.merchant
           /\ buildCacheKey(x.merchant, x.query).query = x.query
BY DEF Asked, buildCacheKey, Key

LEMMA NothingIsSound ==
    ASSUME NEW m, NEW q, NEW n
    PROVE  Sound(NoPage, m, q, n)
BY FS_EmptySet DEF Sound, NoPage

LEMMA NothingStored == \A k \in Key : Stores(k, NoPage)
BY NothingIsSound DEF Stores

LEMMA SoundAmongMore ==
    ASSUME NEW page, NEW m, NEW q \in Query, NEW n \in Nat, NEW k \in Nat, n <= k,
           Sound(page, m, q, n)
    PROVE  Sound(page, m, q, k)
<1>1. Skip(q.page, q.limit) \in Nat /\ Cardinality(page.data) \in Nat
  BY QueryFacts, FS_CardinalityType DEF Sound
<1> QED BY <1>1 DEF Sound

\* A request that a step does not touch still holds what it should, if rows only came to
\* the table and the creates it must not miss are the same.
LEMMA HoldsStill ==
    ASSUME TypeOK, TypeOK', NEW x \in Asked, Holds(x),
           RowsOf(x.merchant) \subseteq RowsOf(x.merchant)',
           x.phase \in {"counting", "filling"} /\ ~x.page.late
             /\ buildCacheKey(x.merchant, x.query) = Hot(x.merchant)
             => CreatedBy(x.merchant)' = CreatedBy(x.merchant)
    PROVE  Holds(x)'
<1> DEFINE m == x.merchant
<1>1. Count(m) \in Nat /\ Count(m)' \in Nat /\ IsFiniteSet(RowsOf(m)')
  <2>1. Count(m) \in Nat
    BY FiniteRows
  <2>2. Count(m)' \in Nat /\ IsFiniteSet(RowsOf(m)')
    BY FiniteSelection DEF TypeOK, RowsOf, Count
  <2> QED BY <2>1, <2>2
<1>2. Count(m) <= Count(m)'
  BY <1>1, FS_Subset DEF Count
<1>3. x.phase = "counting" => Sound(x.page, m, x.query, Count(m)')
  BY <1>1, <1>2, AskedFields, SoundAmongMore DEF Holds
<1> QED BY <1>3 DEF Holds, Complete, Sound

LEMMA StoresStill ==
    ASSUME NEW k \in Key, NEW page, Stores(k, page),
           k = Hot(k.merchant) /\ page # NoPage =>
             CreatedBy(k.merchant)' = CreatedBy(k.merchant)
    PROVE  Stores(k, page)'
BY DEF Stores, Complete, Sound

\* A step of a list request, which may store a page.
LEMMA ReaderStep ==
    ASSUME Inv, NEW r \in Reader, NEW x \in Asked, Holds(x),
           req' = [req EXCEPT ![r] = x], UNCHANGED <<table, creating>>,
           NEW k \in Key, NEW page \in Page \cup {NoPage}, Stores(k, page),
           UNCHANGED cache \/ cache' = [cache EXCEPT ![k] = page]
    PROVE  Inv'
<1> USE DEF Inv
<1>1. TypeOK'
  BY DEF TypeOK, Asked
<1>2. RowsHaveRequests'
  BY DEF RowsHaveRequests
<1>3. /\ \A m : RowsOf(m)' = RowsOf(m)
      /\ \A m : CreatedBy(m)' = CreatedBy(m)
  BY DEF RowsOf, CreatedBy
<1>4. \A s \in Reader : req'[s] \in Asked /\ Holds(req'[s])
  BY DEF TypeOK, Asked
<1>5. \A s \in Reader : Holds(req[s])'
  <2> TAKE s \in Reader
  <2>1. PICK y : y = req'[s]
    OBVIOUS
  <2>2. Holds(y)'
    BY <1>1, <1>3, <1>4, <2>1, HoldsStill
  <2> QED BY <2>1, <2>2
<1>6. \A c \in Key : Stores(c, cache'[c])
  BY DEF TypeOK
<1>7. \A c \in Key : Stores(c, cache[c])'
  <2> TAKE c \in Key
  <2>1. PICK y : y = cache'[c]
    OBVIOUS
  <2>2. Stores(c, y)'
    BY <1>3, <1>6, <2>1, StoresStill
  <2> QED BY <2>1, <2>2
<1> QED BY <1>1, <1>2, <1>5, <1>7

\* A step that changes the table or the creates, but answers none.
LEMMA TableStep ==
    ASSUME Inv, TypeOK', RowsHaveRequests', UNCHANGED <<cache, req>>,
           \A m \in Merchant : RowsOf(m) \subseteq RowsOf(m)',
           \A m \in Merchant : CreatedBy(m)' = CreatedBy(m)
    PROVE  Inv'
<1> USE DEF Inv
<1>1. \A s \in Reader : Holds(req[s])'
  <2> TAKE s \in Reader
  <2>1. PICK y \in Asked : y = req[s]
    BY DEF TypeOK, Asked
  <2>2. Holds(y)'
    BY <2>1, AskedFields, HoldsStill
  <2> QED BY <2>1, <2>2
<1>2. \A c \in Key : Stores(c, cache[c])'
  <2> TAKE c \in Key
  <2>1. PICK y : y = cache[c]
    OBVIOUS
  <2>2. Stores(c, y)'
    BY <2>1, StoresStill DEF Key
  <2> QED BY <2>1, <2>2
<1> QED BY <1>1, <1>2

-----------------------------------------------------------------------------
(***************************************************************************)
(* The steps.                                                              *)
(***************************************************************************)

LEMMA InitInv == Init => Inv
<1> SUFFICES ASSUME Init PROVE Inv
  OBVIOUS
<1>1. PICK m \in Merchant, q \in Query :
        req = [r \in Reader |-> [phase |-> "idle", merchant |-> m, query |-> q,
                                 seen |-> 0, page |-> NoPage]]
  BY DEF Init
<1>2. TypeOK
  BY <1>1 DEF Init, TypeOK, Phases
<1>3. RowsHaveRequests
  BY DEF Init, RowsHaveRequests
<1>4. \A r \in Reader : Holds(req[r])
  BY <1>1 DEF Holds
<1>5. \A k \in Key : Stores(k, cache[k])
  BY NothingStored DEF Init
<1> QED BY <1>2, <1>3, <1>4, <1>5 DEF Inv

\* A row added to the table.
LEMMA Appended ==
    ASSUME TypeOK, NEW t \in Tx, NEW m \in Merchant, table' = Append(table, NewRow(t, m))
    PROVE  /\ table' \in Seq(Row)
           /\ DOMAIN table' = DOMAIN table \cup {Len(table) + 1}
           /\ table'[Len(table) + 1].tx = t
           /\ \A i \in DOMAIN table : table'[i] = table[i]
           /\ \A i \in DOMAIN table : i # Len(table) + 1
<1>1. NewRow(t, m) \in Row /\ NewRow(t, m).tx = t
  BY DEF NewRow, Row
<1> QED BY <1>1 DEF TypeOK

LEMMA InsertStep ==
    ASSUME Inv, NEW t \in Tx, NEW m \in Merchant, creating[t] = "idle",
           NEW next \in {"inserted", "failed"},
           creating' = [creating EXCEPT ![t] = next],
           \/ UNCHANGED table /\ next = "failed"
           \/ table' = Append(table, NewRow(t, m)),
           UNCHANGED <<cache, req>>
    PROVE  Inv'
<1> USE DEF Inv
<1>1. creating \in [Tx -> {"idle", "inserted", "created", "failed"}]
  BY DEF TypeOK
<1>2. \A i \in DOMAIN table : table[i] \in Row /\ table[i].tx \in Tx /\ table[i].tx # t
  <2>1. \A i \in DOMAIN table : table[i] \in Row
    BY DEF TypeOK
  <2> QED BY <2>1 DEF RowsHaveRequests, Row
<1>3. /\ creating' \in [Tx -> {"idle", "inserted", "created", "failed"}]
      /\ \A u \in Tx : u # t => creating'[u] = creating[u]
      /\ creating'[t] = next
  BY <1>1
<1>4. CASE UNCHANGED table /\ next = "failed"
  <2>1. TypeOK'
    BY <1>3, <1>4 DEF TypeOK
  <2>2. RowsHaveRequests'
    BY <1>2, <1>3, <1>4 DEF RowsHaveRequests
  <2>3. \A n \in Merchant : RowsOf(n)' = RowsOf(n) /\ CreatedBy(n)' = CreatedBy(n)
    BY <1>2, <1>3, <1>4 DEF RowsOf, CreatedBy
  <2> QED BY <2>1, <2>2, <2>3, TableStep
<1>5. CASE table' = Append(table, NewRow(t, m))
  <2>1. TypeOK'
    BY <1>3, <1>5, Appended DEF TypeOK
  <2>2. RowsHaveRequests'
    <3>1. \A i, j \in DOMAIN table' : table'[i].tx = table'[j].tx => i = j
      BY <1>2, <1>5, Appended DEF RowsHaveRequests
    <3>2. \A i \in DOMAIN table' : creating'[table'[i].tx] # "idle"
      BY <1>2, <1>3, <1>5, Appended DEF RowsHaveRequests
    <3>3. \A u \in Tx : creating'[u] = "inserted" => \E i \in DOMAIN table' : table'[i].tx = u
      BY <1>3, <1>5, Appended DEF RowsHaveRequests
    <3> QED BY <3>1, <3>2, <3>3 DEF RowsHaveRequests
  <2>3. \A n \in Merchant : RowsOf(n) \subseteq RowsOf(n)'
    BY <1>5, Appended DEF RowsOf
  <2>4. ASSUME NEW n \in Merchant
        PROVE  CreatedBy(n)' = CreatedBy(n)
    BY <1>2, <1>3, <1>5, Appended DEF CreatedBy
  <2> QED BY <2>1, <2>2, <2>3, <2>4, TableStep
<1> QED BY <1>4, <1>5

LEMMA InvalidateFailsInv ==
    ASSUME Inv, NEW t \in Tx, InvalidateFails(t)
    PROVE  Inv'
<1> USE DEF Inv
<1>1. /\ creating[t] = "inserted" /\ creating' = [creating EXCEPT ![t] = "failed"]
      /\ UNCHANGED <<table, cache, req>>
  BY DEF InvalidateFails
<1>2. creating \in [Tx -> {"idle", "inserted", "created", "failed"}]
  BY DEF TypeOK
<1>3. TypeOK' /\ RowsHaveRequests'
  BY <1>1, <1>2 DEF TypeOK, RowsHaveRequests, Row
<1>4. \A m \in Merchant : RowsOf(m)' = RowsOf(m) /\ CreatedBy(m)' = CreatedBy(m)
  BY <1>1, <1>2 DEF RowsOf, CreatedBy
<1> QED BY <1>1, <1>3, <1>4, TableStep

LEMMA UpdateStatusInv ==
    ASSUME Inv, NEW i \in DOMAIN table, NEW status \in Outcome, UpdateStatus(i, status)
    PROVE  Inv'
<1> USE DEF Inv
<1>1. /\ table' = [table EXCEPT ![i].status = status]
      /\ UNCHANGED <<creating, cache, req>>
  BY DEF UpdateStatus
<1>2. table' \in Seq(Row) /\ DOMAIN table' = DOMAIN table
      /\ \A j \in DOMAIN table : table'[j].tx = table[j].tx /\ table'[j].merchant = table[j].merchant
  <2>1. \A j \in DOMAIN table : table[j] \in Row
    BY DEF TypeOK
  <2>2. [table[i] EXCEPT !.status = status] \in Row
    BY <2>1 DEF Row
  <2> QED BY <1>1, <2>1, <2>2 DEF TypeOK, Row
<1>3. TypeOK' /\ RowsHaveRequests'
  BY <1>1, <1>2 DEF TypeOK, RowsHaveRequests
<1>4. \A m \in Merchant : RowsOf(m)' = RowsOf(m) /\ CreatedBy(m)' = CreatedBy(m)
  BY <1>1, <1>2 DEF RowsOf, CreatedBy
<1> QED BY <1>1, <1>3, <1>4, TableStep

\* The row of a create request that stored one is its owner's.
LEMMA OwnerFacts ==
    ASSUME TypeOK, RowsHaveRequests, NEW t \in Tx, creating[t] = "inserted"
    PROVE  /\ OwnerOf(t) \in Merchant
           /\ \A i \in DOMAIN table : table[i].tx = t => table[i].merchant = OwnerOf(t)
<1>1. \E i \in DOMAIN table : table[i].tx = t
  BY DEF RowsHaveRequests
<1>2. \A i \in DOMAIN table : table[i].merchant \in Merchant
  <2>1. \A i \in DOMAIN table : table[i] \in Row
    BY DEF TypeOK
  <2> QED BY <2>1 DEF Row
<1> QED BY <1>1, <1>2 DEF RowsHaveRequests, OwnerOf

\* A request overtaken by an invalidation, and one that ends without an answer.
Overtaken(x) == [x EXCEPT !.page.late = TRUE]

LEMMA OvertakenFacts ==
    ASSUME NEW x \in Asked, x.page \in Page
    PROVE  LET y == Overtaken(x) IN
           /\ y \in Asked /\ y.phase = x.phase /\ y.merchant = x.merchant
           /\ y.query = x.query /\ y.page \in Page /\ y.page.late
           /\ y.page.data = x.page.data /\ y.page.total = x.page.total
BY DEF Overtaken, Asked, Page

LEMMA EndedFacts ==
    ASSUME NEW x \in Asked
    PROVE  Ended(x) \in Asked /\ Holds(Ended(x))
<1>1. Ended(x) \in Asked /\ Ended(x).phase = "idle"
  BY DEF Ended, Asked, Phases
<1> QED BY <1>1 DEF Holds

LEMMA InvalidateInv ==
    ASSUME Inv, NEW t \in Tx, Invalidate(t)
    PROVE  Inv'
<1> USE DEF Inv
<1> DEFINE owner == OwnerOf(t)
<1>1. /\ creating[t] = "inserted" /\ creating' = [creating EXCEPT ![t] = "created"]
      /\ UNCHANGED table
      /\ cache' = IF Hot(owner) \in Key THEN [cache EXCEPT ![Hot(owner)] = NoPage] ELSE cache
      /\ req' = [r \in Reader |->
                   IF req[r].phase \in {"counting", "filling"} /\ KeyOf(r) = Hot(owner)
                   THEN Overtaken(req[r]) ELSE req[r]]
  BY DEF Invalidate, Overtaken
<1>2. creating \in [Tx -> {"idle", "inserted", "created", "failed"}] /\ req \in [Reader -> Asked]
      /\ cache \in [Key -> Page \cup {NoPage}]
  BY DEF TypeOK, Asked
<1>3. /\ owner \in Merchant
      /\ \A i \in DOMAIN table : table[i].tx = t => table[i].merchant = owner
  BY <1>1, OwnerFacts
<1> HIDE DEF owner
<1>4. ASSUME NEW r \in Reader, req'[r] # req[r]
      PROVE  /\ req'[r] = Overtaken(req[r]) /\ req[r].page \in Page /\ req[r] \in Asked
             /\ req[r].phase \in {"counting", "filling"}
  BY <1>1, <1>2, <1>4 DEF Holds
<1>5. \A r \in Reader : req'[r] \in Asked
  BY <1>2, <1>4, OvertakenFacts
<1>6. TypeOK'
  <2>1. req' \in [Reader -> Asked]
    BY <1>1, <1>5
  <2>2. cache' \in [Key -> Page \cup {NoPage}]
    BY <1>1, <1>2
  <2> QED BY <1>1, <1>2, <2>1, <2>2 DEF TypeOK, Asked
<1>7. RowsHaveRequests'
  <2>1. \A i \in DOMAIN table : table[i].tx \in Tx
    <3>1. \A i \in DOMAIN table : table[i] \in Row
      BY DEF TypeOK
    <3> QED BY <3>1 DEF Row
  <2> QED BY <1>1, <1>2, <2>1 DEF RowsHaveRequests
<1>8. \A m \in Merchant : /\ RowsOf(m)' = RowsOf(m)
                          /\ m # owner => CreatedBy(m)' = CreatedBy(m)
  BY <1>1, <1>2, <1>3 DEF RowsOf, CreatedBy
<1>9. \A k \in Key : Hot(owner) = k => k.merchant = owner
  BY DEF Hot, buildCacheKey
<1>10. ASSUME NEW r \in Reader PROVE Holds(req[r])'
  <2>1. PICK x \in Asked : x = req'[r]
    BY <1>5
  <2>2. Holds(x)
    <3>1. CASE req'[r] = req[r]
      BY <2>1, <3>1
    <3>2. CASE req'[r] # req[r]
      BY <1>4, <2>1, <3>2, OvertakenFacts DEF Holds, Sound
    <3> QED BY <3>1, <3>2
  <2>3. x.phase \in {"counting", "filling"} /\ ~x.page.late
          /\ buildCacheKey(x.merchant, x.query) = Hot(x.merchant) => x.merchant # owner
    <3>1. CASE req'[r] = req[r]
      BY <1>1, <2>1, <3>1, OvertakenFacts, <1>2 DEF KeyOf, Holds
    <3>2. CASE req'[r] # req[r]
      BY <1>4, <2>1, <3>2, OvertakenFacts
    <3> QED BY <3>1, <3>2
  <2>4. Holds(x)'
    BY <1>6, <1>8, <2>2, <2>3, AskedFields, HoldsStill
  <2> QED BY <2>1, <2>4
<1>11. ASSUME NEW k \in Key PROVE Stores(k, cache[k])'
  <2>1. PICK page : page = cache'[k]
    OBVIOUS
  <2>2. Stores(k, page)
    BY <1>1, <1>2, <2>1, NothingStored
  <2>3. k = Hot(k.merchant) /\ page # NoPage => k.merchant # owner
    BY <1>1, <1>2, <2>1
  <2>4. k.merchant \in Merchant
    BY DEF Key
  <2>5. Stores(k, page)'
    BY <1>8, <2>2, <2>3, <2>4, StoresStill
  <2> QED BY <2>1, <2>5
<1> QED BY <1>6, <1>7, <1>10, <1>11

LEMMA RestartInv ==
    ASSUME Inv, Restart
    PROVE  Inv'
<1> USE DEF Inv
<1>1. /\ creating' = [t \in Tx |-> IF creating[t] = "inserted" THEN "failed" ELSE creating[t]]
      /\ req' = [r \in Reader |-> IF r \in InFlight THEN Ended(req[r]) ELSE req[r]]
      /\ cache' \in {cache, [k \in Key |-> NoPage]}
      /\ UNCHANGED table
  BY DEF Restart
<1>2. creating \in [Tx -> {"idle", "inserted", "created", "failed"}] /\ req \in [Reader -> Asked]
      /\ cache \in [Key -> Page \cup {NoPage}]
  BY DEF TypeOK, Asked
<1>3. \A r \in Reader : req'[r] \in Asked /\ Holds(req'[r])
  BY <1>1, <1>2, EndedFacts
<1>4. TypeOK'
  <2>1. req' \in [Reader -> Asked]
    BY <1>1, <1>3
  <2> QED BY <1>1, <1>2, <2>1 DEF TypeOK, Asked
<1>5. RowsHaveRequests'
  <2>1. \A i \in DOMAIN table : table[i].tx \in Tx
    <3>1. \A i \in DOMAIN table : table[i] \in Row
      BY DEF TypeOK
    <3> QED BY <3>1 DEF Row
  <2> QED BY <1>1, <1>2, <2>1 DEF RowsHaveRequests
<1>6. \A m : RowsOf(m)' = RowsOf(m) /\ CreatedBy(m)' = CreatedBy(m)
  BY <1>1, <1>2 DEF RowsOf, CreatedBy
<1>7. \A r \in Reader : Holds(req[r])'
  <2> TAKE r \in Reader
  <2>1. PICK x \in Asked : x = req'[r]
    BY <1>3
  <2>2. Holds(x)'
    BY <1>3, <1>4, <1>6, <2>1, HoldsStill
  <2> QED BY <2>1, <2>2
<1>8. \A k \in Key : Stores(k, cache[k])'
  <2> TAKE k \in Key
  <2>1. PICK page : page = cache'[k]
    OBVIOUS
  <2>2. Stores(k, page)
    BY <1>1, <2>1, NothingStored
  <2>3. Stores(k, page)'
    BY <1>6, <2>2, StoresStill
  <2> QED BY <2>1, <2>3
<1> QED BY <1>4, <1>5, <1>7, <1>8

LEMMA ExpireInv ==
    ASSUME Inv, NEW k \in Key, Expire(k)
    PROVE  Inv'
<1> USE DEF Inv
<1>1. cache' = [cache EXCEPT ![k] = NoPage] /\ UNCHANGED <<table, creating, req>>
  BY DEF Expire
<1>2. TypeOK' /\ RowsHaveRequests'
  BY <1>1 DEF TypeOK, RowsHaveRequests
<1>3. \A m : RowsOf(m)' = RowsOf(m) /\ CreatedBy(m)' = CreatedBy(m) /\ Count(m)' = Count(m)
  BY <1>1 DEF RowsOf, CreatedBy, Count
<1>4. \A r \in Reader : Holds(req[r])'
  BY <1>1, <1>3 DEF Holds, Complete, Sound
<1>5. \A c \in Key : Stores(c, cache[c])'
  <2> TAKE c \in Key
  <2>1. PICK page : page = cache'[c]
    OBVIOUS
  <2>2. Stores(c, page)
    BY <1>1, <2>1, NothingStored DEF TypeOK
  <2>3. Stores(c, page)'
    BY <1>3, <2>2, StoresStill
  <2> QED BY <2>1, <2>3
<1> QED BY <1>2, <1>4, <1>5

\* A step of a list request that stores nothing.
LEMMA ReaderMoves ==
    ASSUME Inv, NEW r \in Reader, NEW x \in Asked, Holds(x),
           req' = [req EXCEPT ![r] = x], UNCHANGED <<table, creating, cache>>
    PROVE  Inv'
<1>1. PICK k : k \in Key
  BY AskedFields
<1> QED BY <1>1, NothingStored, ReaderStep

\* The records the steps of findAll make of a request.
Moved(x, phase, page) == [x EXCEPT !.phase = phase, !.page = page]

LEMMA MovedFacts ==
    ASSUME NEW x \in Asked, NEW phase \in Phases, NEW page \in Page \cup {NoPage}
    PROVE  LET y == Moved(x, phase, page) IN
           /\ y \in Asked /\ y.phase = phase /\ y.page = page
           /\ y.merchant = x.merchant /\ y.query = x.query
BY DEF Moved, Asked

LEMMA PhaseNames ==
    /\ "querying" \in Phases /\ "counting" \in Phases
    /\ "filling" \in Phases /\ "done" \in Phases
BY DEF Phases

LEMMA RequestInv ==
    ASSUME Inv, NEW r \in Reader, NEW m \in Merchant, NEW q \in Query, Request(r, m, q)
    PROVE  Inv'
<1> DEFINE x == [phase |-> "lookup", merchant |-> m, query |-> q,
                 seen |-> Cardinality(CreatedBy(m)), page |-> NoPage]
<1>1. req' = [req EXCEPT ![r] = x] /\ UNCHANGED <<table, creating, cache>>
  BY DEF Request
<1>2. Cardinality(CreatedBy(m)) \in Nat
  BY CreatedAreRows DEF Inv
<1>3. x \in Asked /\ Holds(x)
  BY <1>2 DEF Asked, Phases, Holds
<1> HIDE DEF x
<1> QED BY <1>1, <1>3, ReaderMoves

LEMMA HitInv ==
    ASSUME Inv, NEW r \in Reader, Hit(r)
    PROVE  Inv'
<1> DEFINE page == cache[KeyOf(r)]
           x == Moved(req[r], "done", page)
<1>1. req[r] \in Asked /\ KeyOf(r) \in Key /\ page \in Page \cup {NoPage}
      /\ KeyOf(r).merchant = req[r].merchant /\ KeyOf(r).query = req[r].query
  <2>1. req[r] \in Asked
    BY DEF Inv, TypeOK, Asked
  <2> QED BY <2>1, AskedFields DEF Inv, TypeOK, KeyOf
<1>2. req' = [req EXCEPT ![r] = x] /\ UNCHANGED <<table, creating, cache>>
  BY DEF Hit, Moved
<1>3. Sound(page, req[r].merchant, req[r].query, page.total)
  BY <1>1 DEF Inv, Stores
<1> HIDE DEF page
<1>4. x \in Asked /\ x.phase = "done" /\ x.page = page
      /\ x.merchant = req[r].merchant /\ x.query = req[r].query
  BY <1>1, PhaseNames, MovedFacts
<1> HIDE DEF x
<1>5. Holds(x)
  BY <1>3, <1>4 DEF Holds
<1> QED BY <1>2, <1>4, <1>5, ReaderMoves

LEMMA MissInv ==
    ASSUME Inv, NEW r \in Reader, Miss(r)
    PROVE  Inv'
<1> DEFINE x == Moved(req[r], "querying", req[r].page)
<1>1. req[r] \in Asked /\ req[r].page \in Page \cup {NoPage}
  BY DEF Inv, TypeOK, Asked
<1>2. req' = [req EXCEPT ![r] = x] /\ UNCHANGED <<table, creating, cache>>
  <2>1. [req[r] EXCEPT !.phase = "querying"] = x
    BY <1>1 DEF Moved, Asked
  <2> QED BY <2>1 DEF Miss
<1>3. x \in Asked /\ x.phase = "querying"
  BY <1>1, PhaseNames, MovedFacts
<1> HIDE DEF x
<1>4. Holds(x)
  BY <1>3 DEF Holds
<1> QED BY <1>2, <1>3, <1>4, ReaderMoves

LEMMA QueryRowsInv ==
    ASSUME Inv, NEW r \in Reader, QueryRows(r)
    PROVE  Inv'
<1> DEFINE m == req[r].merchant
           q == req[r].query
           page == [data |-> PageOf(m, q), total |-> 0, late |-> FALSE]
           x == Moved(req[r], "counting", page)
<1>1. req[r] \in Asked /\ m \in Merchant /\ q \in Query
  BY DEF Inv, TypeOK, Asked
<1>2. req' = [req EXCEPT ![r] = x] /\ UNCHANGED <<table, creating, cache>>
  BY DEF QueryRows, Moved
<1>3. page \in Page
  BY RowsAreDistinct DEF PageOf, Page, Inv
<1>4. Sound(page, m, q, Count(m))
  BY <1>1, PageIsSound DEF Inv
<1>5. ASSUME buildCacheKey(m, q) = Hot(m), NEW t \in CreatedBy(m)
      PROVE  Cardinality(page.data) = HotLimit \/ \E row \in page.data : row.tx = t
  <2>1. q.page = 1 /\ q.limit = HotLimit
    BY <1>5 DEF Hot, buildCacheKey
  <2>2. PICK i \in RowsOf(m) : table[i].tx = t
    BY DEF CreatedBy, RowsOf
  <2>3. CASE table[i] \in PageOf(m, q)
    BY <2>2, <2>3
  <2>4. CASE table[i] \notin PageOf(m, q)
    BY <2>1, <2>4, FirstPageFull DEF Inv
  <2> QED BY <2>3, <2>4
<1> HIDE DEF page
<1>6. x \in Asked /\ x.phase = "counting" /\ x.page = page /\ x.merchant = m /\ x.query = q
  BY <1>1, <1>3, PhaseNames, MovedFacts
<1> HIDE DEF x, page, m, q
<1>7. Holds(x)
  BY <1>3, <1>4, <1>5, <1>6 DEF Holds, Complete
<1> QED BY <1>2, <1>6, <1>7, ReaderMoves

LEMMA QueryCountInv ==
    ASSUME Inv, NEW r \in Reader, QueryCount(r)
    PROVE  Inv'
<1> DEFINE m == req[r].merchant
           page == [req[r].page EXCEPT !.total = Count(m)]
           x == Moved(req[r], "filling", page)
<1>1. req[r] \in Asked /\ req[r].phase = "counting" /\ Holds(req[r])
  BY DEF Inv, TypeOK, Asked, QueryCount
<1>2. req' = [req EXCEPT ![r] = x] /\ UNCHANGED <<table, creating, cache>>
  <2>1. [req[r] EXCEPT !.phase = "filling", !.page.total = Count(m)] = x
    BY <1>1 DEF Moved, Asked
  <2> QED BY <2>1 DEF QueryCount
<1>3. req[r].page \in Page
  BY <1>1 DEF Holds
<1>4. Count(m) \in Nat /\ Cardinality(CreatedBy(m)) <= Count(m)
  BY FiniteRows, CreatedAreRows DEF Inv
<1>5. /\ page \in Page /\ page.total = Count(m)
      /\ page.data = req[r].page.data /\ page.late = req[r].page.late
  BY <1>3, <1>4 DEF Page
<1> HIDE DEF page
<1>6. x \in Asked /\ x.phase = "filling" /\ x.page = page /\ x.merchant = m
      /\ x.query = req[r].query
  BY <1>1, <1>5, PhaseNames, MovedFacts
<1> HIDE DEF x, m
<1>7. m = req[r].merchant
  BY DEF m
<1>8. Holds(x)
  BY <1>1, <1>4, <1>5, <1>6, <1>7 DEF Holds, Complete, Sound
<1> QED BY <1>2, <1>6, <1>8, ReaderMoves

\* A page that is ready to be stored is fit to be.
LEMMA FillStores ==
    ASSUME Inv, NEW r \in Reader, req[r].phase = "filling"
    PROVE  /\ req[r] \in Asked /\ req[r].page \in Page
           /\ KeyOf(r) \in Key /\ Stores(KeyOf(r), req[r].page)
<1>1. req[r] \in Asked /\ Holds(req[r])
  BY DEF Inv, TypeOK, Asked
<1> QED BY <1>1, AskedFields DEF Holds, Stores, KeyOf

LEMMA FillInv ==
    ASSUME Inv, NEW r \in Reader, Fill(r)
    PROVE  Inv'
<1> DEFINE x == Moved(req[r], "done", req[r].page)
<1>1. /\ req[r].phase = "filling" /\ UNCHANGED <<table, creating>>
      /\ cache' = [cache EXCEPT ![KeyOf(r)] = req[r].page]
      /\ req' = [req EXCEPT ![r] = [req[r] EXCEPT !.phase = "done"]]
  BY DEF Fill
<1>2. /\ req[r] \in Asked /\ req[r].page \in Page
      /\ KeyOf(r) \in Key /\ Stores(KeyOf(r), req[r].page)
  BY <1>1, FillStores
<1>3. req' = [req EXCEPT ![r] = x]
  <2>1. [req[r] EXCEPT !.phase = "done"] = x
    BY <1>2 DEF Moved, Asked
  <2> QED BY <1>1, <2>1
<1>4. x \in Asked /\ x.phase = "done" /\ x.page = req[r].page
      /\ x.merchant = req[r].merchant /\ x.query = req[r].query
  BY <1>2, PhaseNames, MovedFacts
<1> HIDE DEF x
<1>5. Holds(x)
  BY <1>1, <1>4 DEF Inv, Holds
<1> QED BY <1>1, <1>2, <1>3, <1>4, <1>5, ReaderStep

LEMMA RequestFailsInv ==
    ASSUME Inv, NEW r \in Reader, RequestFails(r)
    PROVE  Inv'
<1>1. /\ req' = [req EXCEPT ![r] = Ended(req[r])] /\ UNCHANGED <<table, creating>>
      /\ \/ UNCHANGED cache
         \/ /\ req[r].phase = "filling"
            /\ cache' = [cache EXCEPT ![KeyOf(r)] = req[r].page]
  BY DEF RequestFails
<1>2. Ended(req[r]) \in Asked /\ Holds(Ended(req[r]))
  BY EndedFacts DEF Inv, TypeOK, Asked
<1>3. CASE UNCHANGED cache
  BY <1>1, <1>2, <1>3, ReaderMoves
<1>4. CASE /\ req[r].phase = "filling"
           /\ cache' = [cache EXCEPT ![KeyOf(r)] = req[r].page]
  BY <1>1, <1>2, <1>4, FillStores, ReaderStep
<1> QED BY <1>1, <1>3, <1>4

LEMMA NextInv == Inv /\ [Next]_vars => Inv'
<1> SUFFICES ASSUME Inv, [Next]_vars PROVE Inv'
  OBVIOUS
<1>1. ASSUME NEW t \in Tx, Create(t) PROVE Inv'
  <2>1. ASSUME NEW m \in Merchant, Insert(t, m) PROVE Inv'
    BY <2>1, InsertStep DEF Insert
  <2>2. ASSUME NEW m \in Merchant, InsertFails(t, m) PROVE Inv'
    BY <2>2, InsertStep DEF InsertFails
  <2> QED BY <1>1, <2>1, <2>2, InvalidateInv, InvalidateFailsInv DEF Create
<1>2. ASSUME NEW i \in DOMAIN table, NEW status \in Outcome, UpdateStatus(i, status)
      PROVE  Inv'
  BY <1>2, UpdateStatusInv
<1>3. ASSUME NEW r \in Reader, NEW m \in Merchant, NEW q \in Query, Request(r, m, q)
      PROVE  Inv'
  BY <1>3, RequestInv
<1>4. ASSUME NEW r \in Reader, FindAll(r) PROVE Inv'
  BY <1>4, HitInv, MissInv, QueryRowsInv, QueryCountInv, FillInv, RequestFailsInv DEF FindAll
<1>5. ASSUME NEW k \in Key, Expire(k) PROVE Inv'
  BY <1>5, ExpireInv
<1>6. CASE Restart
  BY <1>6, RestartInv
<1>7. CASE UNCHANGED vars
  <2>1. UNCHANGED <<table, creating, cache, req>>
    BY <1>7 DEF vars
  <2>2. TypeOK' /\ RowsHaveRequests'
    BY <2>1 DEF Inv, TypeOK, RowsHaveRequests
  <2>3. \A m : RowsOf(m)' = RowsOf(m) /\ CreatedBy(m)' = CreatedBy(m)
    BY <2>1 DEF RowsOf, CreatedBy
  <2> QED BY <2>1, <2>2, <2>3, TableStep
<1> QED BY <1>1, <1>2, <1>3, <1>4, <1>5, <1>6, <1>7 DEF Next

-----------------------------------------------------------------------------
\* The list's inductive invariant: every page that is held anywhere is sound, and a first
\* page that was not overtaken misses no answered create.
THEOREM Invariance == Spec => []Inv
BY InitInv, NextInv, PTL DEF Spec

\* The types of the list's state.
THEOREM TypeCorrect == Spec => []TypeOK
<1>1. Inv => TypeOK
  BY DEF Inv
<1> QED BY <1>1, Invariance, PTL

\* A page answered to a merchant holds rows of that merchant only, no row twice.
THEOREM OwnTransactions == Spec => []OwnTransactionsOnly
<1>1. Inv => OwnTransactionsOnly
  BY DEF Inv, Holds, Sound, Answered, OwnTransactionsOnly
<1> QED BY <1>1, Invariance, PTL

\* The meta of an answer covers its data, although rows and count are queried one after
\* the other.
THEOREM MetaCovers == Spec => []MetaCoversData
<1>1. Inv => MetaCoversData
  <2> SUFFICES ASSUME Inv, NEW r \in Answered, req[r].page.data # {}
               PROVE  LET page == req[r].page
                          q == req[r].query
                      IN  /\ Skip(q.page, q.limit) + Cardinality(page.data) <= page.total
                          /\ q.page <= TotalPages(page.total, q.limit)
    BY DEF MetaCoversData
  <2> DEFINE page == req[r].page
             q == req[r].query
  <2>1. req[r] \in Asked /\ Sound(page, req[r].merchant, q, page.total)
    BY DEF Inv, Holds, Answered, TypeOK, Asked
  <2>2. q \in Query /\ page.total \in Nat
    BY <2>1, AskedFields DEF Page, NoPage
  <2>3. Skip(q.page, q.limit) + Cardinality(page.data) <= page.total
    BY <2>1 DEF Sound
  <2>4. Cardinality(page.data) \in Nat /\ Cardinality(page.data) # 0
    BY <2>1, FS_CardinalityType, FS_EmptySet DEF Sound
  <2>5. /\ Skip(q.page, q.limit) \in Nat
        /\ q.page \in Nat \ {0} /\ q.limit \in Nat \ {0}
    BY <2>2, QueryFacts
  <2>6. Skip(q.page, q.limit) < page.total
    BY <2>2, <2>3, <2>4, <2>5
  <2> QED BY <2>2, <2>3, <2>5, <2>6, PageWithin
<1> QED BY <1>1, Invariance, PTL

\* The cached first page misses no create that was answered, unless its fill was overtaken
\* by the invalidation.
THEOREM HotPageMissesNothing == Spec => []HotPageComplete
<1>1. Inv => HotPageComplete
  <2>1. \A m \in Merchant : Hot(m).merchant = m
    BY DEF Hot, buildCacheKey
  <2> QED BY <2>1 DEF Inv, Stores, Complete, HotPageComplete
<1> QED BY <1>1, Invariance, PTL

-----------------------------------------------------------------------------
(***************************************************************************)
(* Where the rows on the pages come from.                                  *)
(***************************************************************************)

\* The row is on a cached page or one a list request holds.
Visible(row) ==
    \/ \E k \in Key : row \in cache[k].data
    \/ \E r \in Reader : row \in req[r].page.data

LEMMA VisibleRows ==
    ASSUME TypeOK, NEW row, Visible(row)
    PROVE  row \in Row
<1>1. \A page \in Page \cup {NoPage} : page.data \subseteq Row
  BY DEF Page, NoPage
<1>2. /\ \A r \in Reader : req[r].page \in Page \cup {NoPage}
      /\ \A k \in Key : cache[k] \in Page \cup {NoPage}
  BY DEF TypeOK
<1> QED BY <1>1, <1>2 DEF Visible

\* A row on a page after a step was on one before it, or is read from the table as it
\* stands: an old version of a row never appears anew.
LEMMA VisibleStep ==
    ASSUME Inv, [Next]_vars, NEW row, Visible(row)'
    PROVE  Visible(row) \/ \E i \in DOMAIN table : row = table[i]
<1> DEFINE V == {x \in Row : Visible(x) \/ \E i \in DOMAIN table : x = table[i]}
<1>1. /\ \A r \in Reader : req[r] \in Asked /\ req[r].page.data \subseteq V
      /\ \A k \in Key : cache[k].data \subseteq V
      /\ req \in [Reader -> Asked] /\ cache \in [Key -> Page \cup {NoPage}]
      /\ NoPage.data \subseteq V
  <2>1. req \in [Reader -> Asked] /\ cache \in [Key -> Page \cup {NoPage}]
    BY DEF Inv, TypeOK, Asked
  <2>2. \A x : Visible(x) => x \in V
    BY VisibleRows DEF Inv
  <2> HIDE DEF V
  <2> QED BY <2>1, <2>2 DEF Visible, NoPage
<1>2. \A i \in DOMAIN table : table[i] \in V
  BY DEF Inv, TypeOK
<1> SUFFICES /\ \A r \in Reader : req'[r].page.data \subseteq V
             /\ \A k \in Key : cache'[k].data \subseteq V
  <2>1. Visible(row)' => \/ \E k \in Key : row \in cache'[k].data
                         \/ \E r \in Reader : row \in req'[r].page.data
    BY DEF Visible
  <2> QED BY <2>1
<1> HIDE DEF V
<1>3. ASSUME NEW r \in Reader, NEW x, req' = [req EXCEPT ![r] = x], x.page.data \subseteq V,
             \/ UNCHANGED cache
             \/ \E k \in Key : \E page : page.data \subseteq V /\ cache' = [cache EXCEPT ![k] = page]
      PROVE  /\ \A s \in Reader : req'[s].page.data \subseteq V
             /\ \A k \in Key : cache'[k].data \subseteq V
  BY <1>1, <1>3
<1>4. ASSUME NEW t \in Tx, Create(t)
      PROVE  /\ \A s \in Reader : req'[s].page.data \subseteq V
             /\ \A k \in Key : cache'[k].data \subseteq V
  <2>1. CASE UNCHANGED <<cache, req>>
    BY <1>1, <2>1
  <2>2. CASE Invalidate(t)
    <3>1. \A k \in Key : cache'[k] \in {cache[k], NoPage}
      BY <1>1, <2>2 DEF Invalidate
    <3>2. ASSUME NEW s \in Reader PROVE req'[s].page.data \subseteq V
      <4>1. CASE req'[s] = req[s]
        BY <1>1, <4>1
      <4>2. CASE req'[s] # req[s]
        <5>1. req'[s] = Overtaken(req[s]) /\ req[s].phase \in {"counting", "filling"}
          BY <2>2, <4>2 DEF Invalidate, Overtaken
        <5>2. req[s].page \in Page
          BY <5>1 DEF Inv, Holds
        <5>3. req'[s].page.data = req[s].page.data
          BY <1>1, <5>1, <5>2, OvertakenFacts
        <5> QED BY <1>1, <5>3
      <4> QED BY <4>1, <4>2
    <3> QED BY <1>1, <3>1, <3>2
  <2> QED BY <1>4, <2>1, <2>2 DEF Create, Insert, InsertFails, InvalidateFails
<1>5. ASSUME NEW r \in Reader, FindAll(r)
      PROVE  /\ \A s \in Reader : req'[s].page.data \subseteq V
             /\ \A k \in Key : cache'[k].data \subseteq V
  <2>1. KeyOf(r) \in Key /\ req[r] \in Asked
    BY <1>1, AskedFields DEF KeyOf
  <2>2. CASE Hit(r)
    <3> DEFINE x == Moved(req[r], "done", cache[KeyOf(r)])
    <3>1. req' = [req EXCEPT ![r] = x] /\ UNCHANGED cache
      BY <2>2 DEF Hit, Moved
    <3>2. x.page = cache[KeyOf(r)]
      BY <1>1, <2>1, PhaseNames, MovedFacts
    <3> HIDE DEF x
    <3> QED BY <1>1, <1>3, <2>1, <3>1, <3>2
  <2>3. CASE QueryRows(r)
    <3> DEFINE page == [data |-> PageOf(req[r].merchant, req[r].query),
                        total |-> 0, late |-> FALSE]
               x == Moved(req[r], "counting", page)
    <3>1. req' = [req EXCEPT ![r] = x] /\ UNCHANGED cache
      BY <2>3 DEF QueryRows, Moved
    <3>2. page \in Page /\ page.data \subseteq V
      BY <1>2, RowsAreDistinct DEF PageOf, Page, Inv
    <3> HIDE DEF page
    <3>3. x.page = page
      BY <2>1, <3>2, PhaseNames, MovedFacts
    <3> HIDE DEF x
    <3> QED BY <1>3, <3>1, <3>2, <3>3
  <2>4. CASE Miss(r) \/ QueryCount(r) \/ Fill(r)
    <3>1. \E x : req' = [req EXCEPT ![r] = x] /\ x.page.data = req[r].page.data
      <4>1. CASE Miss(r) \/ Fill(r)
        BY <2>1, <4>1 DEF Miss, Fill, Asked
      <4>2. CASE QueryCount(r)
        <5>1. req[r].page \in Page
          BY <4>2 DEF Inv, Holds, QueryCount
        <5> DEFINE page == [req[r].page EXCEPT !.total = Count(req[r].merchant)]
                   x == Moved(req[r], "filling", page)
        <5>2. page.data = req[r].page.data
          BY <5>1 DEF Page
        <5>3. x.page = page
          BY <2>1 DEF Moved, Asked
        <5>4. req' = [req EXCEPT ![r] = x]
          <6>1. [req[r] EXCEPT !.phase = "filling",
                               !.page.total = Count(req[r].merchant)] = x
            BY <2>1 DEF Moved, Asked
          <6> QED BY <4>2, <6>1 DEF QueryCount
        <5> QED BY <5>2, <5>3, <5>4
      <4> QED BY <2>4, <4>1, <4>2
    <3>2. UNCHANGED cache \/ cache' = [cache EXCEPT ![KeyOf(r)] = req[r].page]
      BY <2>4 DEF Miss, QueryCount, Fill
    <3> QED BY <1>1, <1>3, <2>1, <3>1, <3>2
  <2>5. CASE RequestFails(r)
    <3>1. req' = [req EXCEPT ![r] = Ended(req[r])]
          /\ (UNCHANGED cache \/ cache' = [cache EXCEPT ![KeyOf(r)] = req[r].page])
      BY <2>5 DEF RequestFails
    <3>2. Ended(req[r]).page = NoPage
      BY <2>1 DEF Ended, Asked
    <3> QED BY <1>1, <1>3, <2>1, <3>1, <3>2
  <2> QED BY <1>5, <2>2, <2>3, <2>4, <2>5 DEF FindAll
<1>6. ASSUME NEW r \in Reader, NEW m \in Merchant, NEW q \in Query, Request(r, m, q)
      PROVE  /\ \A s \in Reader : req'[s].page.data \subseteq V
             /\ \A k \in Key : cache'[k].data \subseteq V
  <2> DEFINE x == [phase |-> "lookup", merchant |-> m, query |-> q,
                   seen |-> Cardinality(CreatedBy(m)), page |-> NoPage]
  <2>1. req' = [req EXCEPT ![r] = x] /\ UNCHANGED cache /\ x.page = NoPage
    BY <1>6 DEF Request
  <2> HIDE DEF x
  <2> QED BY <1>1, <1>3, <2>1
<1>7. CASE Restart
  <2>1. \A k \in Key : cache'[k] \in {cache[k], NoPage}
    BY <1>7 DEF Restart
  <2>2. \A r \in Reader : req'[r].page \in {req[r].page, NoPage}
    BY <1>1, <1>7 DEF Restart, Ended, Asked
  <2> QED BY <1>1, <2>1, <2>2
<1>8. ASSUME NEW k \in Key, Expire(k)
      PROVE  /\ \A s \in Reader : req'[s].page.data \subseteq V
             /\ \A c \in Key : cache'[c].data \subseteq V
  BY <1>1, <1>8 DEF Expire
<1>9. CASE UNCHANGED <<cache, req>>
  BY <1>1, <1>9
<1> QED BY <1>4, <1>5, <1>6, <1>7, <1>8, <1>9 DEF Next, vars, UpdateStatus
=============================================================================
