--------------------------- MODULE PaginationProofs ---------------------------
(***************************************************************************)
(* The arithmetic of pages, for every number of rows and every page size.  *)
(***************************************************************************)
EXTENDS Pagination, TLAPS

\* What division by a positive number means.
LEMMA Quotient ==
    ASSUME NEW a \in Int, NEW b \in Nat \ {0}
    PROVE  /\ a \div b \in Int
           /\ (a \div b) * b <= a
           /\ a < (a \div b) * b + b
OBVIOUS

\* A product grows with its first factor.
LEMMA ProductMonotone ==
    ASSUME NEW a \in Int, NEW b \in Int, NEW c \in Nat, a <= b
    PROVE  a * c <= b * c
OBVIOUS

\* The pages hold all rows.
LEMMA PagesCover ==
    ASSUME NEW n \in Nat, NEW l \in Nat \ {0}, NEW p \in Nat, p >= TotalPages(n, l)
    PROVE  n <= p * l
<1> DEFINE q == (n + l - 1) \div l
<1>1. q \in Int /\ n + l - 1 < q * l + l
  BY Quotient
<1>2. q * l <= p * l
  BY <1>1, ProductMonotone DEF TotalPages
<1> QED BY <1>1, <1>2

\* A page starts where the one before it ends.
LEMMA SkipStep ==
    ASSUME NEW p \in Nat, NEW l \in Nat
    PROVE  Skip(p + 1, l) = p * l /\ (p + 1) * l = p * l + l
BY DEF Skip

LEMMA SkipType ==
    ASSUME NEW p \in Nat \ {0}, NEW l \in Nat
    PROVE  Skip(p, l) \in Nat
<1>1. 0 * l <= (p - 1) * l
  BY ProductMonotone
<1> QED BY <1>1 DEF Skip

\* Two pages do not overlap.
LEMMA PagesDisjoint ==
    ASSUME NEW i \in Nat, NEW p \in Nat \ {0}, NEW q \in Nat \ {0}, NEW l \in Nat \ {0},
           OnPage(i, p, l), OnPage(i, q, l)
    PROVE  p = q
<1>1. ASSUME NEW a \in Nat \ {0}, NEW b \in Nat \ {0}, OnPage(i, a, l), OnPage(i, b, l)
      PROVE  ~(a < b)
  <2>1. SUFFICES ASSUME a < b PROVE FALSE
    OBVIOUS
  <2>2. a * l <= (b - 1) * l
    BY <2>1, ProductMonotone
  <2>3. (a - 1) * l + l = a * l
    OBVIOUS
  <2> QED BY <1>1, <2>2, <2>3 DEF OnPage, Skip
<1>2. ~(p < q) /\ ~(q < p)
  BY <1>1
<1> QED BY <1>2

\* Position i is on page (i - 1) \div l + 1, which there is.
LEMMA PageExists ==
    ASSUME NEW n \in Nat, NEW l \in Nat \ {0}, NEW i \in 1 .. n
    PROVE  \E p \in 1 .. TotalPages(n, l) : OnPage(i, p, l)
<1> DEFINE d == (i - 1) \div l
           T == TotalPages(n, l)
<1>1. d \in Int /\ d * l <= i - 1 /\ i - 1 < d * l + l
  BY Quotient
<1>2. T \in Int /\ n + l - 1 < T * l + l
  BY Quotient DEF TotalPages
<1>3. d >= 0
  <2>1. SUFFICES ASSUME d <= 0 - 1 PROVE FALSE
    BY <1>1
  <2>2. d * l <= (0 - 1) * l
    BY <1>1, <2>1, ProductMonotone
  <2> QED BY <1>1, <2>2
<1>4. d < T
  <2>1. SUFFICES ASSUME T <= d PROVE FALSE
    BY <1>1, <1>2
  <2>2. T * l <= d * l
    BY <1>1, <1>2, <2>1, ProductMonotone
  <2> QED BY <1>1, <1>2, <2>2
<1>5. d + 1 \in 1 .. T
  BY <1>1, <1>2, <1>3, <1>4
<1>6. OnPage(i, d + 1, l)
  BY <1>1, <1>3, SkipStep DEF OnPage
<1> QED BY <1>5, <1>6

\* A page that starts within the list is one of its pages.
LEMMA PageWithin ==
    ASSUME NEW p \in Nat \ {0}, NEW l \in Nat \ {0}, NEW n \in Nat, Skip(p, l) < n
    PROVE  p <= TotalPages(n, l)
<1> DEFINE T == TotalPages(n, l)
<1>1. T \in Int /\ n + l - 1 < T * l + l
  BY Quotient DEF TotalPages
<1>2. SUFFICES ASSUME T <= p - 1 PROVE FALSE
  BY <1>1
<1>3. T * l <= (p - 1) * l
  BY <1>1, <1>2, ProductMonotone
<1> QED BY <1>1, <1>3 DEF Skip
=============================================================================
