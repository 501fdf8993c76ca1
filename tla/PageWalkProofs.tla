--------------------------- MODULE PageWalkProofs ---------------------------
(***************************************************************************)
(* What holds of PageWalk for every number of rows, page size and set of   *)
(* creation times.                                                         *)
(***************************************************************************)

EXTENDS PageWalk, PaginationProofs, FiniteSetTheorems
-----------------------------------------------------------------------------
\* Position of a row with a createdAt of its own in the list of the first n rows.
Position(k, n) == Cardinality(Newer(k, n)) + 1

\* What a walk in order has shown, of the rows its first answer counted: those the last
\* answer's list placed on the pages read, and all of them once the pages read hold as
\* many rows as it counted.
Shows ==
    inOrder /\ page > 0 =>
        /\ first <= asOf /\ asOf <= last
        /\ \A k \in 1 .. first : Unique(k) => k \in seen \/ Position(k, asOf) > page * limit
        /\ last <= page * limit => \A k \in 1 .. first : Unique(k) => k \in seen

Inv == TypeOK /\ Shows

\* The rows above k are some of the other rows, more of them in a longer list.
LEMMA NewerCount ==
    ASSUME createdAt \in Seq(Time),
           NEW n \in 0 .. Len(createdAt), NEW m \in 0 .. n, NEW k \in 1 .. m
    PROVE  /\ IsFiniteSet(Newer(k, n))
           /\ Position(k, n) \in Nat
           /\ Position(k, m) <= Position(k, n)
           /\ Position(k, n) <= n
<1> USE WalkAssumption
<1>1. n \in Nat /\ m \in Nat /\ k \in 1 .. n
  OBVIOUS
<1>2. IsFiniteSet(1 .. n) /\ Cardinality(1 .. n) = n
  BY <1>1, FS_Interval
<1>3. IsFiniteSet((1 .. n) \ {k}) /\ Cardinality((1 .. n) \ {k}) = n - 1
  <2> DEFINE S == 1 .. n
  <2>1. IsFiniteSet(S) /\ Cardinality(S) = n /\ k \in S
    BY <1>1, <1>2
  <2>2. IsFiniteSet(S \ {k}) /\ Cardinality(S \ {k}) = n - 1
    <3> HIDE DEF S
    <3> QED BY <2>1, FS_RemoveElement
  <2> QED BY <2>2
<1>4. Newer(k, n) \subseteq (1 .. n) \ {k}
  <2>1. createdAt[k] \in Nat
    <3>1. k \in 1 .. Len(createdAt)
      BY <1>1
    <3>2. createdAt[k] \in Time
      BY <3>1
    <3> QED BY <3>2
  <2>2. ~(createdAt[k] > createdAt[k])
    BY <2>1
  <2> QED BY <2>2 DEF Newer
<1>5. /\ IsFiniteSet(Newer(k, n))
      /\ Cardinality(Newer(k, n)) <= n - 1
  BY <1>3, <1>4, FS_Subset
<1>6. Newer(k, m) \subseteq Newer(k, n)
  BY <1>1 DEF Newer
<1>7. IsFiniteSet(Newer(k, m)) /\ Cardinality(Newer(k, m)) <= Cardinality(Newer(k, n))
  BY <1>5, <1>6, FS_Subset
<1>8. Cardinality(Newer(k, n)) \in Nat /\ Cardinality(Newer(k, m)) \in Nat
  BY <1>5, <1>7, FS_CardinalityType
<1> QED BY <1>1, <1>5, <1>7, <1>8 DEF Position

\* A row with a createdAt of its own is shown by the page its position is on.
LEMMA UniqueIsShown ==
    ASSUME createdAt \in Seq(Time), limit \in Nat \ {0},
           NEW n \in 0 .. Len(createdAt), NEW k \in 1 .. n, Unique(k),
           NEW p \in Nat \ {0}, NEW shown \in SUBSET (1 .. n),
           MayShow(n, p, shown), OnPage(Position(k, n), p, limit)
    PROVE  k \in shown
<1>1. n \in 0 .. n /\ k \in Rows
  BY DEF Rows
<1>2. Position(k, n) \in Nat /\ Position(k, n) <= n /\ Cardinality(Newer(k, n)) \in Nat
  BY <1>1, NewerCount, FS_CardinalityType
<1>3. Tied(k, n) = {k}
  BY <1>1 DEF Tied, Unique, Rows
<1>4. Cardinality({k}) = 1
  BY FS_Singleton
<1>5. Places(k, n) = {Position(k, n)}
  BY <1>2, <1>3, <1>4 DEF Places, Position
<1>6. {i \in Places(k, n) : OnPage(i, p, limit)} = {Position(k, n)}
  BY <1>5
<1>7. Cardinality(shown \cap Tied(k, n)) = 1
  BY <1>6, FS_Singleton DEF MayShow
<1>8. Cardinality({}) = 0
  BY FS_EmptySet
<1>9. SUFFICES ASSUME k \notin shown PROVE FALSE
  OBVIOUS
<1>10. Cardinality(shown \cap Tied(k, n)) = 0
  <2>1. shown \cap Tied(k, n) = {}
    BY <1>3, <1>9
  <2> QED BY <1>8, <2>1
<1> QED BY <1>7, <1>10

LEMMA InitInv == Init => Inv
<1> SUFFICES ASSUME Init PROVE Inv
  OBVIOUS
<1>1. PICK n \in 0 .. MaxRows : createdAt \in [1 .. n -> Time]
  BY DEF Init
<1>2. createdAt \in Seq(Time) /\ Len(createdAt) = n
  BY <1>1, WalkAssumption
<1> QED BY <1>2, WalkAssumption DEF Init, Inv, TypeOK, Shows, Rows

\* Creates change nothing for the rows that keep a createdAt of their own.
LEMMA CreateInv ==
    ASSUME Inv, Create
    PROVE  Inv'
<1>1. PICK time \in Time : createdAt' = Append(createdAt, time)
  BY DEF Create
<1>2. /\ createdAt \in Seq(Time) /\ Len(createdAt) \in Nat
      /\ createdAt' \in Seq(Time) /\ Len(createdAt') = Len(createdAt) + 1
      /\ Rows = 1 .. Len(createdAt) /\ Rows' = 1 .. Len(createdAt) + 1
      /\ \A j \in 1 .. Len(createdAt) : createdAt'[j] = createdAt[j]
  BY <1>1 DEF Inv, TypeOK, Rows
<1>3. UNCHANGED <<limit, page, first, asOf, last, seen, inOrder>>
  BY DEF Create
<1>4. /\ {first, asOf, last} \subseteq 0 .. Len(createdAt)
      /\ limit \in 1 .. MaxLimit /\ page \in Nat
      /\ seen \subseteq Rows /\ inOrder \in BOOLEAN
  BY DEF Inv, TypeOK
<1>5. TypeOK'
  BY <1>2, <1>3, <1>4 DEF TypeOK
<1>6. ASSUME NEW k \in 1 .. asOf PROVE Position(k, asOf)' = Position(k, asOf)
  <2>1. Newer(k, asOf)' = Newer(k, asOf)
    BY <1>2, <1>3, <1>4 DEF Newer
  <2> QED BY <2>1 DEF Position
<1>7. ASSUME NEW k \in 1 .. first, Unique(k)' PROVE Unique(k)
  <2>1. k \in Rows
    BY <1>2, <1>4
  <2>2. ASSUME NEW j \in Rows \ {k} PROVE createdAt[j] # createdAt[k]
    <3>1. j \in Rows' \ {k}
      BY <1>2
    <3>2. createdAt'[j] # createdAt'[k]
      BY <1>7, <3>1 DEF Unique
    <3> QED BY <1>2, <2>1, <3>2
  <2> QED BY <2>2 DEF Unique
<1>8. Shows'
  <2> SUFFICES ASSUME inOrder, page > 0 PROVE Shows'
    BY <1>3 DEF Shows
  <2>1. first <= asOf /\ asOf <= last
    BY DEF Inv, Shows
  <2>2. \A k \in 1 .. first : Unique(k)' => k \in seen \/ Position(k, asOf)' > page * limit
    BY <1>4, <1>6, <1>7, <2>1 DEF Inv, Shows
  <2>3. last <= page * limit => \A k \in 1 .. first : Unique(k)' => k \in seen
    BY <1>7 DEF Inv, Shows
  <2> QED BY <1>3, <2>1, <2>2, <2>3 DEF Shows
<1> QED BY <1>5, <1>8 DEF Inv

\* A page that is not older than the one before it extends what the walk has shown: a row
\* that was not on an earlier page has only moved towards later ones.
LEMMA AnswerInv ==
    ASSUME Inv, NEW n \in 0 .. Len(createdAt), Answer(n)
    PROVE  Inv'
<1> USE WalkAssumption
<1>1. PICK shown \in SUBSET (1 .. n) :
          MayShow(n, page + 1, shown) /\ seen' = seen \cup shown
  BY DEF Answer
<1>2. /\ createdAt \in Seq(Time) /\ Len(createdAt) \in Nat
      /\ Rows = 1 .. Len(createdAt)
      /\ {first, asOf, last} \subseteq 0 .. Len(createdAt)
      /\ limit \in Nat \ {0} /\ page \in Nat
      /\ seen \subseteq Rows /\ inOrder \in BOOLEAN
  BY DEF Inv, TypeOK, Rows
<1>3. /\ page' = page + 1 /\ asOf' = n /\ last' \in n .. Len(createdAt)
      /\ first' = IF page = 0 THEN n ELSE first
      /\ UNCHANGED <<createdAt, limit>>
  BY DEF Answer
<1>order. inOrder' \in BOOLEAN /\ (inOrder' => inOrder /\ (page = 0 \/ asOf <= n))
  BY Zenon DEF Answer
<1>4. TypeOK'
  <2>1. {first', asOf', last'} \subseteq 0 .. Len(createdAt')
    BY <1>2, <1>3
  <2>2. Rows' = Rows /\ page' \in Nat
    BY <1>2, <1>3 DEF Rows
  <2>3. shown \subseteq Rows
    BY <1>2
  <2>4. seen' \subseteq Rows'
    BY <1>1, <1>2, <2>2, <2>3
  <2> QED BY <1>3, <1>order, <2>1, <2>2, <2>4 DEF Inv, TypeOK
<1>5. page * limit \in Nat /\ Skip(page + 1, limit) = page * limit
      /\ (page + 1) * limit = page * limit + limit
  BY <1>2, SkipStep
<1>6. ASSUME inOrder', NEW k \in 1 .. first', Unique(k)
      PROVE  first' <= n /\ (k \in seen' \/ Position(k, n) > (page + 1) * limit)
  <2>1. first' <= n /\ k \in 1 .. n
    <3>1. CASE page = 0
      BY <1>2, <1>3, <1>6, <3>1
    <3>2. CASE page > 0
      <4>1. inOrder /\ asOf <= n /\ first' = first
        BY <1>2, <1>3, <1>order, <1>6, <3>2
      <4>2. first <= asOf
        BY <3>2, <4>1 DEF Inv, Shows
      <4> QED BY <1>2, <1>6, <4>1, <4>2
    <3> QED BY <1>2, <3>1, <3>2
  <2>2. Position(k, n) \in Nat /\ Position(k, n) <= n
    BY <1>2, <2>1, NewerCount
  <2>3. k \in seen \/ Position(k, n) > page * limit
    <3>1. CASE page = 0
      <4>1. page * limit = 0
        BY <1>2, <3>1
      <4>2. Position(k, n) >= 1
        <5>1. Cardinality(Newer(k, n)) \in Nat
          BY <1>2, <2>1, NewerCount, FS_CardinalityType
        <5> QED BY <5>1 DEF Position
      <4> QED BY <2>2, <4>1, <4>2
    <3>2. CASE page > 0
      <4>1. first' = first /\ inOrder /\ asOf <= n
        BY <1>2, <1>3, <1>order, <1>6, <3>2
      <4>2. first <= asOf /\ (k \in seen \/ Position(k, asOf) > page * limit)
        BY <1>6, <3>2, <4>1 DEF Inv, Shows
      <4>3. asOf \in 0 .. n /\ k \in 1 .. asOf
        BY <1>2, <1>6, <4>1, <4>2
      <4>4. Position(k, asOf) <= Position(k, n)
        BY <1>2, <4>3, NewerCount
      <4>5. Position(k, asOf) \in Nat
        <5>1. asOf \in 0 .. asOf /\ asOf \in 0 .. Len(createdAt)
          BY <1>2
        <5> QED BY <1>2, <4>3, <5>1, NewerCount
      <4> QED BY <1>5, <2>2, <4>2, <4>4, <4>5
    <3> QED BY <1>2, <3>1, <3>2
  <2>4. CASE k \in seen
    BY <1>1, <2>1, <2>4
  <2>5. CASE Position(k, n) > page * limit /\ Position(k, n) <= (page + 1) * limit
    <3>1. OnPage(Position(k, n), page + 1, limit)
      BY <1>2, <1>5, <2>2, <2>5 DEF OnPage
    <3>2. page + 1 \in Nat \ {0}
      BY <1>2
    <3>3. k \in shown
      BY <1>1, <1>2, <1>6, <2>1, <3>1, <3>2, UniqueIsShown
    <3> QED BY <1>1, <2>1, <3>3
  <2> QED BY <1>1, <1>2, <1>5, <2>1, <2>2, <2>3, <2>4, <2>5
<1>7. ASSUME inOrder', NEW k \in 1 .. first', Unique(k), last' <= (page + 1) * limit
      PROVE  k \in seen'
  <2>1. first' <= n /\ (k \in seen' \/ Position(k, n) > (page + 1) * limit)
    BY <1>6, <1>7
  <2>2. k \in 1 .. n
    BY <1>2, <1>3, <2>1
  <2>3. Position(k, n) <= n /\ Position(k, n) \in Nat
    BY <1>2, <2>2, NewerCount
  <2> QED BY <1>2, <1>3, <1>5, <1>7, <2>1, <2>3
<1>8. \A k : Unique(k)' <=> Unique(k)
  BY <1>3 DEF Unique, Rows
<1>9. \A k : Position(k, n)' = Position(k, n)
  BY <1>3 DEF Position, Newer
<1>10. Shows'
  <2> SUFFICES ASSUME inOrder' PROVE Shows'
    BY DEF Shows
  <2>1. first' <= asOf' /\ asOf' <= last'
    <3>1. CASE page = 0
      BY <1>2, <1>3, <3>1
    <3>2. CASE page > 0
      BY <1>2, <1>3, <1>order, <3>2 DEF Inv, Shows
    <3> QED BY <1>2, <3>1, <3>2
  <2>2. \A k \in 1 .. first' :
            Unique(k)' => k \in seen' \/ Position(k, n)' > page' * limit'
    BY <1>3, <1>6, <1>8, <1>9
  <2>3. last' <= page' * limit' => \A k \in 1 .. first' : Unique(k)' => k \in seen'
    BY <1>3, <1>7, <1>8
  <2> QED BY <1>3, <2>1, <2>2, <2>3 DEF Shows
<1> QED BY <1>4, <1>10 DEF Inv

LEMMA NextInv == Inv /\ [Next]_vars => Inv'
<1> SUFFICES ASSUME Inv, [Next]_vars PROVE Inv'
  OBVIOUS
<1>1. CASE Create
  BY <1>1, CreateInv
<1>2. CASE ReadPage
  <2>1. \A n \in asOf .. Len(createdAt) : n \in 0 .. Len(createdAt)
    BY DEF Inv, TypeOK
  <2> QED BY <1>2, <2>1, AnswerInv DEF ReadPage
<1>3. CASE ReadCachedPage
  BY <1>3, AnswerInv DEF ReadCachedPage
<1>4. CASE UNCHANGED vars
  BY <1>4 DEF vars, Inv, TypeOK, Shows, Rows, Unique, Position, Newer
<1> QED BY <1>1, <1>2, <1>3, <1>4 DEF Next

\* The walk's inductive invariant: what was read so far has been seen.
THEOREM Invariance == Spec => []Inv
BY InitInv, NextInv, PTL DEF Spec

\* Type correctness.
THEOREM TypeCorrect == Spec => []TypeOK
<1>1. Inv => TypeOK
  BY DEF Inv
<1> QED BY <1>1, Invariance, PTL

\* A walk whose pages are made in the order they are read misses no row that its first
\* answer counted and that has a createdAt of its own.
THEOREM NothingMissed == Spec => []WalkMissesNothing
<1>1. Inv => WalkMissesNothing
  <2> SUFFICES ASSUME Inv, Finished, inOrder
               PROVE  \A k \in 1 .. first : Unique(k) => k \in seen
    BY DEF WalkMissesNothing
  <2>1. last \in Nat /\ limit \in Nat \ {0} /\ page \in Nat
    BY WalkAssumption DEF Inv, TypeOK
  <2>2. last <= page * limit
    BY <2>1, PagesCover DEF Finished
  <2> QED BY <2>1, <2>2 DEF Inv, Shows, Finished
<1> QED BY <1>1, Invariance, PTL

\* The pages partition the list.
THEOREM PagesPartition == Spec => []EveryRowOnOnePage
<1>1. Inv => EveryRowOnOnePage
  <2> SUFFICES ASSUME Inv, NEW i \in 1 .. Len(createdAt)
               PROVE  \E p \in 1 .. TotalPages(Len(createdAt), limit) :
                          /\ OnPage(i, p, limit)
                          /\ \A q \in 1 .. Len(createdAt) : OnPage(i, q, limit) => q = p
    BY DEF EveryRowOnOnePage
  <2>1. Len(createdAt) \in Nat /\ limit \in Nat \ {0}
    BY WalkAssumption DEF Inv, TypeOK
  <2>2. PICK p \in 1 .. TotalPages(Len(createdAt), limit) : OnPage(i, p, limit)
    BY <2>1, PageExists
  <2>3. TotalPages(Len(createdAt), limit) \in Int
    BY <2>1, Quotient DEF TotalPages
  <2>4. \A q \in 1 .. Len(createdAt) : OnPage(i, q, limit) => q = p
    BY <2>1, <2>2, <2>3, PagesDisjoint
  <2> QED BY <2>2, <2>4
<1> QED BY <1>1, Invariance, PTL
=============================================================================
