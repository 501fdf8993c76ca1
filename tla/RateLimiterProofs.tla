-------------------------- MODULE RateLimiterProofs --------------------------
(***************************************************************************)
(* What holds of RateLimiter for any number of requests, overlapping or    *)
(* not, any limits and any number of failing calls and restarts.           *)
(***************************************************************************)
EXTENDS RateLimiter, FiniteSetTheorems, TLAPS

\* The requests of endpoint e that went past the read of the counter of its i-th throttler,
\* or ended before.
PastRead(e, i) ==
    {s \in Req :
        /\ req[s] # Fresh /\ req[s].endpoint = e
        /\ req[s].i > i \/ (req[s].i = i /\ req[s].phase \notin {"checking", "counting"})}

\* No count a counter or a request holds is above the requests that made it, and a block
\* entry was written above the limit.
NothingCountedTwice ==
    \A e \in Endpoint : \A i \in 1 .. Len(Applied[e]) :
        LET c == <<e, Applied[e][i]>>
            most == Cardinality(PastRead(e, i))
        IN  /\ hits[c].n <= most
            /\ block[c].until > 0 => most > Limit[Applied[e][i]]
            /\ \A r \in Req : req[r] # Fresh /\ req[r].endpoint = e /\ req[r].i = i =>
                 /\ req[r].phase \in {"writing", "blocking"} => req[r].n <= most
                 /\ req[r].phase = "blocking" => req[r].n > Limit[Applied[e][i]]

ArrivedBefore == \A r \in Req : req[r] # Fresh => req[r].arrived <= now

Inv ==
    /\ TypeOK
    /\ NothingCountedTwice
    /\ ArrivedBefore
    /\ RejectedOnlyAboveLimit

-----------------------------------------------------------------------------
(***************************************************************************)
(* Constants and types.                                                    *)
(***************************************************************************)

LEMMA AppliedFacts ==
    ASSUME NEW e \in Endpoint
    PROVE  /\ Len(Applied[e]) \in 1 .. 4
           /\ \A i \in 1 .. Len(Applied[e]) :
                /\ Applied[e][i] \in Name
                /\ <<e, Applied[e][i]>> \in Counter
                /\ Limit[Applied[e][i]] \in Nat
           /\ \A i, j \in 1 .. Len(Applied[e]) : Applied[e][i] = Applied[e][j] => i = j
<1>1. Applied[e] = AuthThrottle \/ Applied[e] = Throttlers
  BY DEF Applied
<1>2. Len(AuthThrottle) = 1 /\ AuthThrottle[1] = "auth"
  BY DEF AuthThrottle
<1>3. /\ Len(Throttlers) = 4 /\ Throttlers[1] = "default" /\ Throttlers[2] = "auth"
      /\ Throttlers[3] = "transactions" /\ Throttlers[4] = "strict"
  BY DEF Throttlers
<1>4. Name = {"default", "auth", "transactions", "strict"}
  <2>1. 1 .. 4 = {1, 2, 3, 4}
    OBVIOUS
  <2>2. Name = {Throttlers[1], Throttlers[2], Throttlers[3], Throttlers[4]}
    BY <2>1 DEF Name
  <2> QED BY <1>3, <2>2
<1>5. \A name \in Name : Limit[name] \in Nat
  BY LimiterAssumption
<1>6. \A i \in 1 .. 1 : i = 1
  OBVIOUS
<1>7. \A i \in 1 .. 4 : i = 1 \/ i = 2 \/ i = 3 \/ i = 4
  OBVIOUS
<1>8. /\ Len(Applied[e]) \in 1 .. 4
      /\ \A i \in 1 .. Len(Applied[e]) : Applied[e][i] \in Name
      /\ \A i, j \in 1 .. Len(Applied[e]) : Applied[e][i] = Applied[e][j] => i = j
  <2>1. CASE Applied[e] = AuthThrottle
    BY <1>2, <1>4, <1>6, <2>1
  <2>2. CASE Applied[e] = Throttlers
    <3>1. Len(Applied[e]) = 4
      BY <1>3, <2>2
    <3>2. \A i \in 1 .. 4 : Applied[e][i] \in Name
      BY <1>3, <1>4, <1>7, <2>2
    <3>3. /\ Applied[e][1] # Applied[e][2] /\ Applied[e][1] # Applied[e][3]
          /\ Applied[e][1] # Applied[e][4] /\ Applied[e][2] # Applied[e][3]
          /\ Applied[e][2] # Applied[e][4] /\ Applied[e][3] # Applied[e][4]
      BY <1>3, <2>2
    <3>4. \A i, j \in 1 .. 4 : Applied[e][i] = Applied[e][j] => i = j
      BY <1>7, <3>3
    <3> QED BY <3>1, <3>2, <3>4
  <2> QED BY <1>1, <2>1, <2>2
<1> QED BY <1>5, <1>8 DEF Counter

LEMMA BindingIsLeast ==
    ASSUME NEW e \in Endpoint, NEW i \in 1 .. Len(Applied[e])
    PROVE  BindingLimit[e] \in Nat /\ BindingLimit[e] <= Limit[Applied[e][i]]
<1> DEFINE L(j) == Limit[Applied[e][j]]
           S == {L(j) : j \in 1 .. Len(Applied[e])}
<1>1. \A j \in 1 .. Len(Applied[e]) : L(j) \in Nat
  BY AppliedFacts
<1>2. \E x \in S : \A y \in S : x <= y
  <2>1. Len(Applied[e]) \in 1 .. 4
    BY AppliedFacts
  <2> HIDE DEF L
  <2>2. \E k \in 1 .. Len(Applied[e]) : \A j \in 1 .. Len(Applied[e]) : L(k) <= L(j)
    <3>1. CASE Len(Applied[e]) = 1
      BY <1>1, <3>1
    <3>2. CASE Len(Applied[e]) = 2
      <4>1. \A j \in 1 .. 2 : j = 1 \/ j = 2
        OBVIOUS
      <4> QED BY <1>1, <3>2, <4>1
    <3>3. CASE Len(Applied[e]) = 3
      <4>1. \A j \in 1 .. 3 : j = 1 \/ j = 2 \/ j = 3
        OBVIOUS
      <4> QED BY <1>1, <3>3, <4>1
    <3>4. CASE Len(Applied[e]) = 4
      <4>1. \A j \in 1 .. 4 : j = 1 \/ j = 2 \/ j = 3 \/ j = 4
        OBVIOUS
      <4> QED BY <1>1, <3>4, <4>1
    <3> QED BY <2>1, <3>1, <3>2, <3>3, <3>4
  <2> QED BY <2>2
<1>3. BindingLimit[e] = Min(S)
  BY DEF BindingLimit
<1>4. Min(S) \in S /\ \A y \in S : Min(S) <= y
  BY <1>2 DEF Min
<1> QED BY <1>1, <1>3, <1>4

LEMMA BindingType == \A e \in Endpoint : BindingLimit[e] \in Nat
<1> SUFFICES ASSUME NEW e \in Endpoint PROVE BindingLimit[e] \in Nat
  OBVIOUS
<1>1. 1 \in 1 .. Len(Applied[e])
  BY AppliedFacts
<1> QED BY <1>1, BindingIsLeast

LEMMA FiniteReq == \A S \in SUBSET Req : IsFiniteSet(S) /\ Cardinality(S) \in Nat
BY LimiterAssumption, FS_Subset, FS_CardinalityType

LEMMA MoreIsMore ==
    ASSUME NEW S \in SUBSET Req, NEW T \in SUBSET Req, S \subseteq T
    PROVE  Cardinality(S) <= Cardinality(T)
BY FiniteReq, FS_Subset

LEMMA Bounds == Ttl \in Nat \ {0} /\ MaxClock \in Nat /\ MaxFaults \in Nat
BY LimiterAssumption

-----------------------------------------------------------------------------
(***************************************************************************)
(* How a request moves.                                                    *)
(***************************************************************************)

LEMMA SentFields ==
    ASSUME NEW x \in Sent
    PROVE  /\ x.i \in 1 .. 4 /\ x.n \in Nat /\ x.until \in Nat
           /\ {x.checked, x.arrived, x.answered} \subseteq Time
           /\ x.endpoint \in Endpoint
BY DEF Sent

\* The records a step makes of a request's.
On(x) == [x EXCEPT !.phase = "checking", !.i = x.i + 1]
Ends(x, phase, at) == [x EXCEPT !.phase = phase, !.answered = at]
Turned(x, at, until) == [x EXCEPT !.phase = "rejected", !.answered = at, !.until = until]
Within(x, phase, n, at) == [x EXCEPT !.phase = phase, !.n = n, !.checked = at]

LEMMA OnFacts ==
    ASSUME NEW x \in Sent, NEW l \in 1 .. 4, x.i < l
    PROVE  /\ On(x) \in Sent /\ On(x).i = x.i + 1 /\ On(x).phase = "checking"
           /\ On(x).endpoint = x.endpoint /\ On(x).arrived = x.arrived
           /\ On(x).checked = x.checked
<1>1. x.i + 1 \in 1 .. 4
  BY SentFields
<1> QED BY <1>1 DEF On, Sent, Running

LEMMA EndsFacts ==
    ASSUME NEW x \in Sent, NEW phase \in {"admitted", "lost"}, NEW at \in Time
    PROVE  LET y == Ends(x, phase, at) IN
           /\ y \in Sent /\ y.i = x.i /\ y.phase = phase /\ y.answered = at
           /\ y.endpoint = x.endpoint /\ y.arrived = x.arrived
BY DEF Ends, Sent

LEMMA TurnedFacts ==
    ASSUME NEW x \in Sent, NEW at \in Time, NEW until \in Nat
    PROVE  LET y == Turned(x, at, until) IN
           /\ y \in Sent /\ y.i = x.i /\ y.phase = "rejected" /\ y.answered = at
           /\ y.endpoint = x.endpoint /\ y.arrived = x.arrived /\ y.until = until
BY DEF Turned, Sent

LEMMA WithinFacts ==
    ASSUME NEW x \in Sent, NEW phase \in Running, NEW n \in Nat, NEW at \in Time
    PROVE  LET y == Within(x, phase, n, at) IN
           /\ y \in Sent /\ y.i = x.i /\ y.phase = phase /\ y.n = n
           /\ y.endpoint = x.endpoint /\ y.arrived = x.arrived /\ y.checked = at
BY DEF Within, Sent

\* Where a step of increment may take request r.
Moved(r) ==
    /\ req[r] \in Sent /\ req'[r] \in Sent /\ req' = [req EXCEPT ![r] = req'[r]]
    /\ req'[r].endpoint = req[r].endpoint /\ req'[r].arrived = req[r].arrived
    /\ \/ req'[r].i = req[r].i + 1 /\ req'[r].phase = "checking"
          /\ req[r].i < Len(Applied[req[r].endpoint])
       \/ /\ req'[r].i = req[r].i /\ req'[r].phase # "checking"
          /\ req'[r].phase = "counting" => req[r].phase = "checking"

\* The answers of increment the guard acts upon.
LEMMA PassedType ==
    ASSUME TypeOK, NEW r \in Req, req[r] # Fresh, req' = [req EXCEPT ![r] = Passed(r)]
    PROVE  /\ Moved(r) /\ req'[r].phase \in {"checking", "admitted"}
           /\ req'[r].phase = "checking" => req'[r].checked = req[r].checked
           /\ req'[r].phase = "admitted" =>
                /\ req'[r].answered = now /\ req'[r].i = req[r].i
                /\ req'[r].i = Len(Applied[req[r].endpoint])
<1>1. req[r] \in Sent /\ now \in Time
  BY DEF TypeOK
<1>2. req'[r] = Passed(r) /\ req' = [req EXCEPT ![r] = req'[r]]
  BY DEF TypeOK
<1>3. PICK l \in 1 .. 4 : l = Len(Applied[req[r].endpoint])
  BY <1>1, AppliedFacts, SentFields
<1>4. CASE req[r].i < l
  <2>1. req'[r] = On(req[r])
    BY <1>2, <1>3, <1>4 DEF Passed, On
  <2> QED BY <1>1, <1>2, <1>3, <1>4, <2>1, OnFacts DEF Moved
<1>5. CASE ~(req[r].i < l)
  <2>1. req'[r] = Ends(req[r], "admitted", now)
    BY <1>2, <1>3, <1>5 DEF Passed, Ends
  <2>2. req[r].i = l
    <3>1. req[r].i \in 1 .. 4 /\ req[r].i <= l
      BY <1>1, <1>3, SentFields DEF TypeOK
    <3> QED BY <1>5, <3>1
  <2> QED BY <1>1, <1>2, <1>3, <2>1, <2>2, EndsFacts DEF Moved
<1> QED BY <1>4, <1>5

LEMMA RejectedType ==
    ASSUME TypeOK, NEW r \in Req, req[r].phase \in Running, NEW until \in Nat,
           req' = [req EXCEPT ![r] = Rejected(r, until)]
    PROVE  /\ Moved(r) /\ req'[r].phase = "rejected"
           /\ req'[r].answered = now /\ req'[r].until = until
<1>1. req[r] \in Sent /\ now \in Time
  BY DEF TypeOK, Fresh, Running
<1>2. req'[r] = Turned(req[r], now, until) /\ req' = [req EXCEPT ![r] = req'[r]]
  BY DEF TypeOK, Rejected, Turned
<1> QED BY <1>1, <1>2, TurnedFacts DEF Moved

\* The steps within increment.
LEMMA WithinType ==
    ASSUME TypeOK, NEW r \in Req, req[r].phase \in Running,
           NEW phase \in {"counting", "writing", "blocking"}, NEW n \in Nat,
           NEW at \in Time, phase = "counting" => req[r].phase = "checking",
           req' = [req EXCEPT ![r] = Within(req[r], phase, n, at)]
    PROVE  Moved(r) /\ req'[r].phase = phase /\ req'[r].n = n /\ req'[r].checked = at
<1>1. req[r] \in Sent
  BY DEF TypeOK, Fresh, Running
<1>2. req'[r] = Within(req[r], phase, n, at) /\ req' = [req EXCEPT ![r] = req'[r]]
  BY DEF TypeOK
<1> QED BY <1>1, <1>2, WithinFacts DEF Moved, Running

LEMMA EntryType ==
    ASSUME TypeOK, NEW r \in Req, req[r].phase \in Running
    PROVE  /\ req[r] \in Sent /\ req[r].i \in 1 .. Len(Applied[req[r].endpoint])
           /\ CounterOf(r) \in Counter
           /\ hits[CounterOf(r)].n \in Nat /\ block[CounterOf(r)].until \in Nat
           /\ StoredHits(r) \in [Counter -> [n : Nat, expires : Nat]]
           /\ StoredBlock(r) \in [Counter -> [until : Nat, expires : Nat]]
<1>1. req[r] \in Sent /\ req[r].i \in 1 .. Len(Applied[req[r].endpoint])
  BY AppliedFacts DEF TypeOK, Fresh, Running, Sent
<1>2. CounterOf(r) \in Counter
  BY <1>1, AppliedFacts DEF CounterOf, ThrottlerOf, Sent
<1>3. now + Ttl \in Nat /\ req[r].checked + Ttl \in Nat /\ req[r].n \in Nat
  BY <1>1, Bounds DEF TypeOK, Time, Sent
<1>4. hits \in [Counter -> [n : Nat, expires : Nat]] /\ block \in [Counter -> [until : Nat, expires : Nat]]
  BY DEF TypeOK
<1>5. [n |-> req[r].n, expires |-> now + Ttl] \in [n : Nat, expires : Nat]
      /\ [until |-> req[r].checked + Ttl, expires |-> now + Ttl] \in [until : Nat, expires : Nat]
  BY <1>3
<1> QED BY <1>1, <1>2, <1>4, <1>5 DEF StoredHits, StoredBlock

\* What a step of increment reads and writes.
LEMMA IncrementShape ==
    ASSUME TypeOK, NEW r \in Req, Increment(r)
    PROVE  /\ req[r].phase \in Running /\ Moved(r)
           /\ now' = now /\ faults' \in 0 .. MaxFaults
           /\ UNCHANGED hits \/ (req[r].phase = "writing" /\ hits' = StoredHits(r))
           /\ UNCHANGED block \/ (req[r].phase = "blocking" /\ block' = StoredBlock(r))
           /\ req'[r].phase = "writing" =>
                /\ req[r].phase = "counting"
                /\ \/ Alive(hits[CounterOf(r)]) /\ req'[r].n = hits[CounterOf(r)].n + 1
                   \/ req'[r].n = 1
           /\ req'[r].phase = "blocking" =>
                /\ req[r].phase = "writing" /\ req'[r].n = req[r].n
                /\ req[r].n > Limit[ThrottlerOf(r)]
           /\ req'[r].phase = "rejected" =>
                \/ req[r].phase = "blocking"
                \/ /\ req[r].phase = "checking"
                   /\ Alive(block[CounterOf(r)]) /\ block[CounterOf(r)].until > 0
           /\ req'[r].phase = "admitted" => req'[r].i = Len(Applied[req[r].endpoint])
           /\ req'[r].phase \in Running
                \/ (req'[r].phase \in {"admitted", "rejected"} /\ req'[r].answered = now)
<1>1. req[r].phase \in Running
  BY DEF Increment, CheckBlock, ReadHits, WriteHits, WriteBlock, CacheFails, GetMisses, Running
<1>2. /\ req[r] \in Sent /\ req[r] # Fresh
      /\ hits[CounterOf(r)].n \in Nat /\ block[CounterOf(r)].until \in Nat
  BY <1>1, EntryType DEF Fresh, Running
<1>3. /\ now \in Time /\ now \in Nat /\ req[r].checked \in Time /\ req[r].n \in Nat
      /\ req[r].checked + Ttl \in Nat /\ MaxFaults \in Nat /\ faults \in 0 .. MaxFaults
  BY <1>2, SentFields, Bounds DEF TypeOK, Time
<1>4. CASE CheckBlock(r)
  <2>0. req[r].phase = "checking" /\ UNCHANGED <<now, hits, block, faults>>
    BY <1>4 DEF CheckBlock
  <2>1. CASE Alive(block[CounterOf(r)]) /\ block[CounterOf(r)].until > now
    <3>1. req' = [req EXCEPT ![r] = Rejected(r, block[CounterOf(r)].until)]
      BY <1>4, <2>1 DEF CheckBlock
    <3>2. block[CounterOf(r)].until > 0
      BY <1>2, <1>3, <2>1
    <3>3. Moved(r) /\ req'[r].phase = "rejected" /\ req'[r].answered = now
      BY <1>1, <1>2, <3>1, RejectedType
    <3> QED BY <1>1, <1>3, <2>0, <2>1, <3>2, <3>3
  <2>2. CASE ~(Alive(block[CounterOf(r)]) /\ block[CounterOf(r)].until > now)
    <3>1. req'[r] = [req[r] EXCEPT !.phase = "counting", !.checked = now]
      BY <1>4, <2>2 DEF CheckBlock, TypeOK
    <3>2. [req[r] EXCEPT !.phase = "counting", !.checked = now] =
            Within(req[r], "counting", req[r].n, now)
      BY <1>2 DEF Within, Sent
    <3>3. req' = [req EXCEPT ![r] = Within(req[r], "counting", req[r].n, now)]
      BY <1>4, <2>2, <3>2 DEF CheckBlock
    <3>4. Moved(r) /\ req'[r].phase = "counting"
      BY <1>1, <1>2, <1>3, <2>0, <3>3, WithinType
    <3> QED BY <1>1, <1>3, <2>0, <3>4 DEF Running
  <2> QED BY <2>1, <2>2
<1>5. CASE ReadHits(r)
  <2> DEFINE n == IF Alive(hits[CounterOf(r)]) THEN hits[CounterOf(r)].n + 1 ELSE 1
  <2>1. req' = [req EXCEPT ![r] = [req[r] EXCEPT !.phase = "writing", !.n = n]]
    BY <1>5 DEF ReadHits
  <2>2. [req[r] EXCEPT !.phase = "writing", !.n = n] =
          Within(req[r], "writing", n, req[r].checked)
    BY <1>2 DEF Within, Sent
  <2>3. n \in Nat
    BY <1>2
  <2> HIDE DEF n
  <2>4. Moved(r) /\ req'[r].phase = "writing" /\ req'[r].n = n
    <3>1. req' = [req EXCEPT ![r] = Within(req[r], "writing", n, req[r].checked)]
      BY <2>1, <2>2
    <3> QED BY <1>1, <1>3, <2>3, <3>1, WithinType
  <2>5. req[r].phase = "counting" /\ UNCHANGED <<now, hits, block, faults>>
    BY <1>5 DEF ReadHits
  <2> QED BY <1>1, <1>3, <2>1, <2>4, <2>5 DEF Running, n
<1>6. CASE WriteHits(r)
  <2>1. CASE req[r].n > Limit[ThrottlerOf(r)]
    <3>1. req' = [req EXCEPT ![r] = [req[r] EXCEPT !.phase = "blocking"]]
      BY <1>6, <2>1 DEF WriteHits
    <3>2. [req[r] EXCEPT !.phase = "blocking"] =
            Within(req[r], "blocking", req[r].n, req[r].checked)
      BY <1>2 DEF Within, Sent
    <3>3. Moved(r) /\ req'[r].phase = "blocking" /\ req'[r].n = req[r].n
      <4>1. req' = [req EXCEPT ![r] = Within(req[r], "blocking", req[r].n, req[r].checked)]
        BY <3>1, <3>2
      <4> QED BY <1>1, <1>2, <1>3, <4>1, WithinType
    <3>4. req[r].phase = "writing" /\ hits' = StoredHits(r) /\ UNCHANGED <<now, block, faults>>
      BY <1>6 DEF WriteHits
    <3> QED BY <1>1, <1>3, <2>1, <3>3, <3>4 DEF Running
  <2>2. CASE ~(req[r].n > Limit[ThrottlerOf(r)])
    <3>1. req' = [req EXCEPT ![r] = Passed(r)]
      BY <1>6, <2>2 DEF WriteHits
    <3>2. /\ Moved(r) /\ req'[r].phase \in {"checking", "admitted"}
          /\ req'[r].phase = "admitted" =>
               req'[r].answered = now /\ req'[r].i = Len(Applied[req[r].endpoint])
      BY <1>2, <3>1, PassedType
    <3> QED BY <1>1, <1>3, <1>6, <3>2 DEF WriteHits, Running
  <2> QED BY <2>1, <2>2
<1>7. CASE WriteBlock(r)
  BY <1>1, <1>3, <1>7, RejectedType DEF WriteBlock
<1>8. CASE CacheFails(r)
  <2>1. /\ Moved(r) /\ req'[r].phase \in {"checking", "admitted"}
        /\ req'[r].phase = "admitted" =>
             req'[r].answered = now /\ req'[r].i = Len(Applied[req[r].endpoint])
    BY <1>2, <1>8, PassedType DEF CacheFails
  <2>2. now' = now /\ faults' \in 0 .. MaxFaults
    BY <1>3, <1>8 DEF CacheFails
  <2> QED BY <1>1, <1>8, <2>1, <2>2 DEF CacheFails, Running
<1>9. CASE GetMisses(r)
  <2>0. UNCHANGED <<now, hits, block>> /\ faults' \in 0 .. MaxFaults
    BY <1>3, <1>9 DEF GetMisses
  <2>1. CASE req[r].phase = "checking"
    <3>1. req' = [req EXCEPT ![r] = [req[r] EXCEPT !.phase = "counting", !.checked = now]]
      BY <1>9, <2>1 DEF GetMisses
    <3>2. [req[r] EXCEPT !.phase = "counting", !.checked = now] =
            Within(req[r], "counting", req[r].n, now)
      BY <1>2 DEF Within, Sent
    <3>3. Moved(r) /\ req'[r].phase = "counting" /\ req'[r].n = req[r].n
      <4>1. req' = [req EXCEPT ![r] = Within(req[r], "counting", req[r].n, now)]
        BY <3>1, <3>2
      <4> QED BY <1>1, <1>3, <2>1, <4>1, WithinType
    <3> QED BY <1>1, <2>0, <2>1, <3>3 DEF Running
  <2>2. CASE req[r].phase = "counting"
    <3>1. req' = [req EXCEPT ![r] = [req[r] EXCEPT !.phase = "writing", !.n = 1]]
      BY <1>9, <2>2 DEF GetMisses
    <3>2. [req[r] EXCEPT !.phase = "writing", !.n = 1] =
            Within(req[r], "writing", 1, req[r].checked)
      BY <1>2 DEF Within, Sent
    <3>3. Moved(r) /\ req'[r].phase = "writing" /\ req'[r].n = 1
      <4>1. req' = [req EXCEPT ![r] = Within(req[r], "writing", 1, req[r].checked)]
        BY <3>1, <3>2
      <4> QED BY <1>1, <1>3, <2>2, <4>1, WithinType
    <3> QED BY <1>1, <2>0, <2>2, <3>3 DEF Running
  <2> QED BY <1>9, <2>1, <2>2 DEF GetMisses
<1> QED BY <1>4, <1>5, <1>6, <1>7, <1>8, <1>9 DEF Increment

-----------------------------------------------------------------------------
(***************************************************************************)
(* Inv is inductive.                                                       *)
(***************************************************************************)

\* The requests of endpoint e that had arrived by a time.
ArrivedBy(e, time) == {s \in ArrivedAt(e) : req[s].arrived <= time}

\* Whoever went past a read has arrived.
LEMMA PastReadArrived ==
    ASSUME ArrivedBefore, NEW e \in Endpoint, NEW i \in 1 .. Len(Applied[e])
    PROVE  Cardinality(PastRead(e, i)) <= Cardinality(ArrivedBy(e, now))
<1>1. PastRead(e, i) \subseteq ArrivedBy(e, now) /\ ArrivedBy(e, now) \in SUBSET Req
  BY DEF PastRead, ArrivedBy, ArrivedAt, ArrivedBefore
<1> QED BY <1>1, MoreIsMore

LEMMA PastReadGrows ==
    ASSUME TypeOK, NEW r \in Req, Moved(r), NEW e \in Endpoint, NEW i \in 1 .. Len(Applied[e])
    PROVE  /\ PastRead(e, i) \subseteq PastRead(e, i)'
           /\ Cardinality(PastRead(e, i)) <= Cardinality(PastRead(e, i)')
           /\ {Cardinality(PastRead(e, i)), Cardinality(PastRead(e, i)')} \subseteq Nat
<1>1. req[r].i \in 1 .. 4 /\ req'[r].i \in 1 .. 4
  BY SentFields DEF Moved
<1>2. req'[r] # Fresh
  BY DEF Moved, Sent, Fresh
<1>3. \A s \in Req \ {r} : req'[s] = req[s]
  BY DEF Moved, TypeOK
<1>4. r \in PastRead(e, i) => r \in PastRead(e, i)'
  <2>1. SUFFICES ASSUME r \in PastRead(e, i) PROVE r \in PastRead(e, i)'
    OBVIOUS
  <2>2. req'[r].endpoint = e /\ (req'[r].i > i
          \/ (req'[r].i = i /\ req'[r].phase \notin {"checking", "counting"}))
    BY <1>1, <2>1 DEF PastRead, Moved
  <2> QED BY <1>2, <2>2 DEF PastRead
<1>5. PastRead(e, i) \subseteq PastRead(e, i)'
  BY <1>3, <1>4 DEF PastRead
<1> QED BY <1>5, MoreIsMore, FiniteReq DEF PastRead

\* A rejection stays above the limit: requests only arrive.
LEMMA RejectionsStand ==
    ASSUME TypeOK, RejectedOnlyAboveLimit, NEW e \in Endpoint, NEW r \in Req,
           req'[r] = req[r], req[r].phase = "rejected", req[r].endpoint = e,
           \A s \in Req : req[s] # Fresh =>
             /\ req'[s] # Fresh
             /\ req'[s].endpoint = req[s].endpoint /\ req'[s].arrived = req[s].arrived
    PROVE  Cardinality({s \in ArrivedAt(e)' : req'[s].arrived <= req'[r].answered}) > BindingLimit[e]
<1> DEFINE Later == {s \in ArrivedAt(e)' : req'[s].arrived <= req'[r].answered}
           Before == ArrivedBy(e, req[r].answered)
<1>1. Before \subseteq Later /\ Later \in SUBSET Req
  BY DEF ArrivedBy, ArrivedAt
<1>2. Cardinality(Before) > BindingLimit[e]
  BY DEF RejectedOnlyAboveLimit, RejectedAbove, Was, ArrivedBy
<1>3. Cardinality(Before) <= Cardinality(Later)
  BY <1>1, MoreIsMore
<1>4. Cardinality(Before) \in Nat /\ Cardinality(Later) \in Nat /\ BindingLimit[e] \in Nat
  BY <1>1, FiniteReq, BindingType
<1> QED BY <1>2, <1>3, <1>4

LEMMA IncrementType ==
    ASSUME TypeOK, NEW r \in Req, Increment(r)
    PROVE  TypeOK'
<1>1. req[r].phase \in Running /\ Moved(r) /\ now' = now /\ faults' \in 0 .. MaxFaults
  BY IncrementShape
<1>2. hits' \in [Counter -> [n : Nat, expires : Nat]]
      /\ block' \in [Counter -> [until : Nat, expires : Nat]]
  BY <1>1, IncrementShape, EntryType DEF TypeOK
<1>3. req[r] \in Sent /\ req[r] # Fresh /\ req'[r] \in Sent
  BY <1>1 DEF Moved, Fresh, Running
<1>4. req' \in [Req -> {Fresh} \cup Sent]
  BY <1>1, <1>3 DEF TypeOK, Moved
<1>5. req'[r].i <= Len(Applied[req'[r].endpoint])
  <2>1. PICK l \in 1 .. 4 : l = Len(Applied[req[r].endpoint])
    BY <1>3, AppliedFacts, SentFields
  <2>2. req[r].i \in 1 .. 4 /\ req[r].i <= l /\ req'[r].endpoint = req[r].endpoint
    BY <1>1, <1>3, <2>1, SentFields DEF TypeOK, Moved
  <2>3. req'[r].i = req[r].i \/ (req'[r].i = req[r].i + 1 /\ req[r].i < l)
    BY <1>1, <2>1 DEF Moved
  <2>4. req'[r].i <= l
    BY <2>2, <2>3
  <2> QED BY <2>1, <2>2, <2>4
<1>6. \A s \in Req : req'[s] # Fresh => req'[s].i <= Len(Applied[req'[s].endpoint])
  BY <1>1, <1>5 DEF TypeOK, Moved
<1> QED BY <1>1, <1>2, <1>4, <1>6 DEF TypeOK

LEMMA IncrementCounts ==
    ASSUME Inv, NEW r \in Req, Increment(r)
    PROVE  NothingCountedTwice'
<1> USE DEF Inv
<1>1. SUFFICES ASSUME NEW e \in Endpoint, NEW i \in 1 .. Len(Applied[e])
      PROVE  LET c == <<e, Applied[e][i]>>
                 most == Cardinality(PastRead(e, i)')
             IN  /\ hits'[c].n <= most
                 /\ block'[c].until > 0 => most > Limit[Applied[e][i]]
                 /\ \A s \in Req : req'[s] # Fresh /\ req'[s].endpoint = e /\ req'[s].i = i =>
                      /\ req'[s].phase \in {"writing", "blocking"} => req'[s].n <= most
                      /\ req'[s].phase = "blocking" => req'[s].n > Limit[Applied[e][i]]
  BY DEF NothingCountedTwice
<1> DEFINE c == <<e, Applied[e][i]>>
           most == Cardinality(PastRead(e, i))
           more == Cardinality(PastRead(e, i)')
           mine == req[r].endpoint = e /\ req[r].i = i
<1>2. /\ req[r].phase \in Running /\ Moved(r)
      /\ UNCHANGED hits \/ (req[r].phase = "writing" /\ hits' = StoredHits(r))
      /\ UNCHANGED block \/ (req[r].phase = "blocking" /\ block' = StoredBlock(r))
  BY IncrementShape
<1>3. /\ c \in Counter /\ Limit[Applied[e][i]] \in Nat
      /\ hits[c].n \in Nat /\ block[c].until \in Nat
  BY AppliedFacts DEF TypeOK
<1>4. most \in Nat /\ more \in Nat /\ most <= more
  BY <1>2, PastReadGrows
<1>5. hits[c].n <= most /\ (block[c].until > 0 => most > Limit[Applied[e][i]])
  BY DEF NothingCountedTwice
<1>6. /\ req[r] \in Sent /\ req[r] # Fresh /\ req[r].n \in Nat
      /\ req[r].i \in 1 .. Len(Applied[req[r].endpoint]) /\ req[r].endpoint \in Endpoint
  BY <1>2, EntryType, SentFields DEF Fresh, Running
<1>7. CounterOf(r) = c <=> mine
  <2>1. CounterOf(r) = <<req[r].endpoint, Applied[req[r].endpoint][req[r].i]>>
    BY DEF CounterOf, ThrottlerOf
  <2> QED BY <1>6, <2>1, AppliedFacts
<1>8. mine => /\ req[r].phase \in {"writing", "blocking"} => req[r].n <= most
              /\ req[r].phase = "blocking" => req[r].n > Limit[Applied[e][i]]
  BY <1>6 DEF NothingCountedTwice
<1>9. hits'[c].n <= more
  <2>1. CASE hits'[c] = hits[c]
    BY <1>3, <1>4, <1>5, <2>1
  <2>2. CASE hits'[c] # hits[c]
    <3>1. req[r].phase = "writing" /\ CounterOf(r) = c /\ hits'[c].n = req[r].n
      BY <1>2, <1>3, <2>2 DEF StoredHits, TypeOK
    <3> QED BY <1>4, <1>6, <1>7, <1>8, <3>1
  <2> QED BY <2>1, <2>2
<1>10. block'[c].until > 0 => more > Limit[Applied[e][i]]
  <2>1. CASE block'[c] = block[c]
    BY <1>3, <1>4, <1>5, <2>1
  <2>2. CASE block'[c] # block[c]
    <3>1. req[r].phase = "blocking" /\ CounterOf(r) = c
      BY <1>2, <1>3, <2>2 DEF StoredBlock, TypeOK
    <3> QED BY <1>3, <1>4, <1>6, <1>7, <1>8, <3>1
  <2> QED BY <2>1, <2>2
<1>11. ASSUME NEW s \in Req, req'[s] # Fresh, req'[s].endpoint = e, req'[s].i = i
       PROVE  /\ req'[s].phase \in {"writing", "blocking"} => req'[s].n <= more
              /\ req'[s].phase = "blocking" => req'[s].n > Limit[Applied[e][i]]
  <2>1. CASE s # r
    <3>1. req'[s] = req[s]
      BY <1>2, <2>1 DEF Moved, TypeOK
    <3>2. req[s].n \in Nat
      BY <1>11, <3>1, SentFields DEF TypeOK
    <3>3. /\ req[s].phase \in {"writing", "blocking"} => req[s].n <= most
          /\ req[s].phase = "blocking" => req[s].n > Limit[Applied[e][i]]
      BY <1>11, <3>1 DEF NothingCountedTwice
    <3> QED BY <1>4, <3>1, <3>2, <3>3
  <2>2. CASE s = r /\ req'[r].phase = "blocking"
    <3>1. /\ req[r].phase = "writing" /\ req'[r].n = req[r].n
          /\ req[r].n > Limit[ThrottlerOf(r)]
      BY <2>2, IncrementShape
    <3>2. mine
      BY <1>2, <1>11, <2>2 DEF Moved
    <3> QED BY <1>4, <1>6, <1>8, <2>2, <3>1, <3>2 DEF ThrottlerOf
  <2>3. CASE s = r /\ req'[r].phase = "writing"
    <3>1. /\ req[r].phase = "counting"
          /\ req'[r].n = hits[CounterOf(r)].n + 1 \/ req'[r].n = 1
      BY <2>3, IncrementShape
    <3>2. mine
      BY <1>2, <1>11, <2>3 DEF Moved
    <3>3. r \notin PastRead(e, i) /\ r \in PastRead(e, i)'
      BY <1>6, <1>11, <2>3, <3>1, <3>2 DEF PastRead
    <3>4. more >= most + 1
      <4>1. PastRead(e, i) \cup {r} \subseteq PastRead(e, i)' /\ PastRead(e, i)' \in SUBSET Req
        BY <1>2, <3>3, PastReadGrows DEF PastRead
      <4>2. IsFiniteSet(PastRead(e, i)) /\ PastRead(e, i) \cup {r} \in SUBSET Req
        BY FiniteReq DEF PastRead
      <4>3. Cardinality(PastRead(e, i) \cup {r}) = most + 1
        BY <3>3, <4>2, FS_AddElement
      <4> QED BY <1>4, <4>1, <4>2, <4>3, MoreIsMore
    <3>5. CounterOf(r) = c
      BY <1>7, <3>2
    <3> QED BY <1>3, <1>4, <1>5, <2>3, <3>1, <3>4, <3>5
  <2> QED BY <2>1, <2>2, <2>3
<1> QED BY <1>9, <1>10, <1>11

LEMMA IncrementInv ==
    ASSUME Inv, NEW r \in Req, Increment(r)
    PROVE  Inv'
<1> USE DEF Inv
<1>1. /\ req[r].phase \in Running /\ Moved(r) /\ now' = now
      /\ req[r] # Fresh /\ req'[r] # Fresh
  BY IncrementShape DEF Fresh, Running, Moved, Sent
<1>2. ArrivedBefore'
  BY <1>1 DEF ArrivedBefore, Moved, TypeOK
<1>3. ASSUME NEW e \in Endpoint, NEW s \in Req \ {r}, req'[s].phase = "rejected",
             req'[s].endpoint = e
      PROVE  Cardinality({u \in ArrivedAt(e)' : req'[u].arrived <= req'[s].answered}) > BindingLimit[e]
  <2>1. req'[s] = req[s]
    BY <1>1, <1>3 DEF Moved, TypeOK
  <2>2. \A u \in Req : req[u] # Fresh =>
          /\ req'[u] # Fresh
          /\ req'[u].endpoint = req[u].endpoint /\ req'[u].arrived = req[u].arrived
    BY <1>1 DEF Moved, TypeOK
  <2> QED BY <1>3, <2>1, <2>2, RejectionsStand
<1>4. ASSUME NEW e \in Endpoint, req'[r].phase = "rejected", req'[r].endpoint = e
      PROVE  Cardinality({u \in ArrivedAt(e)' : req'[u].arrived <= req'[r].answered}) > BindingLimit[e]
  <2>1. req[r].endpoint = e /\ req[r].n \in Nat
    BY <1>1, <1>4, EntryType, SentFields DEF Moved
  <2>2. PICK i \in 1 .. Len(Applied[e]) : i = req[r].i
    BY <1>1, <2>1, EntryType
  <2> DEFINE Later == {u \in ArrivedAt(e)' : req'[u].arrived <= req'[r].answered}
             past == Cardinality(PastRead(e, i))
  <2>3. /\ req'[r].answered = now
        /\ req[r].phase = "blocking" \/ block[CounterOf(r)].until > 0
    BY <1>4, IncrementShape DEF Running
  <2>4. past \in Nat /\ BindingLimit[e] \in Nat /\ Limit[Applied[e][i]] \in Nat
        /\ BindingLimit[e] <= Limit[Applied[e][i]]
    BY BindingIsLeast, AppliedFacts, FiniteReq DEF PastRead
  <2>5. past > Limit[Applied[e][i]]
    <3>1. CASE req[r].phase = "blocking"
      <4>1. req[r].n <= past /\ req[r].n > Limit[Applied[e][i]]
        BY <1>1, <2>1, <2>2, <3>1 DEF NothingCountedTwice
      <4> QED BY <2>1, <2>4, <4>1
    <3>2. CASE block[CounterOf(r)].until > 0
      BY <2>1, <2>2, <3>2 DEF NothingCountedTwice, CounterOf, ThrottlerOf
    <3> QED BY <2>3, <3>1, <3>2
  <2>6. ArrivedBy(e, now) \subseteq Later /\ Later \in SUBSET Req /\ ArrivedBy(e, now) \in SUBSET Req
    BY <1>1, <2>3 DEF ArrivedBy, ArrivedAt, Moved, TypeOK
  <2>7. past <= Cardinality(ArrivedBy(e, now)) /\ Cardinality(ArrivedBy(e, now)) <= Cardinality(Later)
    BY <2>6, PastReadArrived, MoreIsMore
  <2>8. Cardinality(ArrivedBy(e, now)) \in Nat /\ Cardinality(Later) \in Nat
    BY <2>6, FiniteReq
  <2> QED BY <2>4, <2>5, <2>7, <2>8
<1>5. RejectedOnlyAboveLimit'
  BY <1>3, <1>4 DEF RejectedOnlyAboveLimit, RejectedAbove, Was
<1> QED BY <1>2, <1>5, IncrementType, IncrementCounts

\* A step that moves no request within increment leaves the counts right.
LEMMA CountsStand ==
    ASSUME TypeOK, NothingCountedTwice,
           UNCHANGED hits \/ hits' = NoHits,
           UNCHANGED block \/ block' = NoBlock,
           \A e \in Endpoint : \A i \in 1 .. Len(Applied[e]) : PastRead(e, i) \subseteq PastRead(e, i)',
           \A s \in Req : req'[s].phase \in {"writing", "blocking"} => req'[s] = req[s]
    PROVE  NothingCountedTwice'
<1>1. SUFFICES ASSUME NEW e \in Endpoint, NEW i \in 1 .. Len(Applied[e])
      PROVE  LET c == <<e, Applied[e][i]>>
                 most == Cardinality(PastRead(e, i)')
             IN  /\ hits'[c].n <= most
                 /\ block'[c].until > 0 => most > Limit[Applied[e][i]]
                 /\ \A s \in Req : req'[s] # Fresh /\ req'[s].endpoint = e /\ req'[s].i = i =>
                      /\ req'[s].phase \in {"writing", "blocking"} => req'[s].n <= most
                      /\ req'[s].phase = "blocking" => req'[s].n > Limit[Applied[e][i]]
  BY DEF NothingCountedTwice
<1> DEFINE c == <<e, Applied[e][i]>>
           most == Cardinality(PastRead(e, i))
           more == Cardinality(PastRead(e, i)')
<1>2. most \in Nat /\ more \in Nat /\ most <= more
  <2>1. PastRead(e, i) \in SUBSET Req /\ PastRead(e, i)' \in SUBSET Req
    BY DEF PastRead
  <2> QED BY <2>1, FiniteReq, MoreIsMore
<1>3. /\ c \in Counter /\ Limit[Applied[e][i]] \in Nat
      /\ hits[c].n \in Nat /\ block[c].until \in Nat
  BY AppliedFacts DEF TypeOK
<1>4. hits[c].n <= most /\ (block[c].until > 0 => most > Limit[Applied[e][i]])
  BY DEF NothingCountedTwice
<1>5. hits'[c].n <= more
  <2>1. CASE UNCHANGED hits
    BY <1>2, <1>3, <1>4, <2>1
  <2>2. CASE hits' = NoHits
    BY <1>2, <1>3, <2>2 DEF NoHits
  <2> QED BY <2>1, <2>2
<1>6. block'[c].until > 0 => more > Limit[Applied[e][i]]
  <2>1. CASE UNCHANGED block
    BY <1>2, <1>3, <1>4, <2>1
  <2>2. CASE block' = NoBlock
    BY <1>3, <2>2 DEF NoBlock
  <2> QED BY <2>1, <2>2
<1>7. ASSUME NEW s \in Req, req'[s] # Fresh, req'[s].endpoint = e, req'[s].i = i,
             req'[s].phase \in {"writing", "blocking"}
      PROVE  /\ req'[s].n <= more
             /\ req'[s].phase = "blocking" => req'[s].n > Limit[Applied[e][i]]
  <2>1. req'[s] = req[s]
    BY <1>7
  <2>2. req[s].n \in Nat
    BY <1>7, <2>1, SentFields DEF TypeOK
  <2>3. /\ req[s].n <= most
        /\ req[s].phase = "blocking" => req[s].n > Limit[Applied[e][i]]
    BY <1>7, <2>1 DEF NothingCountedTwice
  <2> QED BY <1>2, <2>1, <2>2, <2>3
<1> QED BY <1>5, <1>6, <1>7

\* Such a step rejects nobody either.
LEMMA NobodyRejected ==
    ASSUME TypeOK, RejectedOnlyAboveLimit,
           \A s \in Req : req'[s].phase = "rejected" => req'[s] = req[s],
           \A s \in Req : req[s] # Fresh =>
             /\ req'[s] # Fresh
             /\ req'[s].endpoint = req[s].endpoint /\ req'[s].arrived = req[s].arrived
    PROVE  RejectedOnlyAboveLimit'
<1>1. ASSUME NEW e \in Endpoint, NEW s \in Req, req'[s].phase = "rejected",
             req'[s].endpoint = e
      PROVE  Cardinality({u \in ArrivedAt(e)' : req'[u].arrived <= req'[s].answered}) > BindingLimit[e]
  BY <1>1, RejectionsStand
<1> QED BY <1>1 DEF RejectedOnlyAboveLimit, RejectedAbove, Was

LEMMA InitInv == Init => Inv
<1> SUFFICES ASSUME Init PROVE Inv
  OBVIOUS
<1>1. \A r \in Req : req[r] = Fresh /\ req[r].phase = "idle"
  BY DEF Init, Fresh
<1>2. TypeOK
  <2>1. now \in Time /\ faults \in 0 .. MaxFaults
    BY Bounds DEF Init, Time
  <2>2. hits \in [Counter -> [n : Nat, expires : Nat]]
        /\ block \in [Counter -> [until : Nat, expires : Nat]]
    BY DEF Init, NoHits, NoBlock
  <2>3. req \in [Req -> {Fresh} \cup Sent]
    BY DEF Init
  <2> QED BY <1>1, <2>1, <2>2, <2>3 DEF TypeOK
<1>3. NothingCountedTwice
  <2> SUFFICES ASSUME NEW e \in Endpoint, NEW i \in 1 .. Len(Applied[e])
      PROVE  /\ hits[<<e, Applied[e][i]>>].n <= Cardinality(PastRead(e, i))
             /\ ~(block[<<e, Applied[e][i]>>].until > 0)
    BY <1>1 DEF NothingCountedTwice
  <2>1. <<e, Applied[e][i]>> \in Counter
    BY AppliedFacts
  <2>2. Cardinality(PastRead(e, i)) \in Nat
    BY FiniteReq DEF PastRead
  <2> QED BY <2>1, <2>2 DEF Init, NoHits, NoBlock
<1>4. ArrivedBefore /\ RejectedOnlyAboveLimit
  BY <1>1 DEF ArrivedBefore, RejectedOnlyAboveLimit, RejectedAbove, Was
<1> QED BY <1>2, <1>3, <1>4 DEF Inv

LEMMA ArriveInv ==
    ASSUME Inv, NEW r \in Req, NEW e \in Endpoint, Arrive(r, e)
    PROVE  Inv'
<1> USE DEF Inv
<1> DEFINE new == [phase |-> "checking", endpoint |-> e, i |-> 1, checked |-> 0, n |-> 0,
                   arrived |-> now, answered |-> 0, until |-> 0]
<1>1. /\ req[r] = Fresh /\ req' = [req EXCEPT ![r] = new]
      /\ UNCHANGED <<now, hits, block, faults>>
  BY DEF Arrive
<1>2. req'[r] = new /\ \A s \in Req \ {r} : req'[s] = req[s]
  BY <1>1 DEF TypeOK
<1>3. now \in Time /\ now \in Nat /\ 0 \in Time
  BY Bounds DEF TypeOK, Time
<1>4. new \in Sent
  BY <1>3 DEF Sent, Running
<1> HIDE DEF new
<1>5. new.i = 1 /\ new.phase = "checking" /\ new.endpoint = e /\ new.arrived = now /\ new # Fresh
  BY <1>4 DEF new, Fresh, Sent
<1>6. TypeOK'
  <2>1. req' \in [Req -> {Fresh} \cup Sent]
    BY <1>1, <1>4 DEF TypeOK
  <2>2. \A s \in Req : req'[s] # Fresh => req'[s].i <= Len(Applied[req'[s].endpoint])
    <3>1. PICK l \in 1 .. 4 : l = Len(Applied[e])
      BY AppliedFacts
    <3>2. 1 <= Len(Applied[e])
      BY <3>1
    <3> QED BY <1>2, <1>5, <3>2 DEF TypeOK
  <2> QED BY <1>1, <2>1, <2>2 DEF TypeOK
<1>7. ASSUME NEW f \in Endpoint, NEW i \in 1 .. Len(Applied[f])
      PROVE  PastRead(f, i) \subseteq PastRead(f, i)'
  BY <1>1, <1>2 DEF PastRead
<1>8. \A s \in Req : req'[s].phase \in {"writing", "blocking", "rejected"} => req'[s] = req[s]
  BY <1>2, <1>5
<1>9. \A s \in Req : req[s] # Fresh => req'[s] = req[s]
  BY <1>1, <1>2
<1>10. NothingCountedTwice'
  BY <1>1, <1>7, <1>8, CountsStand
<1>11. RejectedOnlyAboveLimit'
  BY <1>8, <1>9, NobodyRejected
<1>12. ArrivedBefore'
  BY <1>1, <1>2, <1>3, <1>5 DEF ArrivedBefore
<1> QED BY <1>6, <1>10, <1>11, <1>12

LEMMA TickInv ==
    ASSUME Inv, Tick
    PROVE  Inv'
<1> USE DEF Inv
<1>1. now' = now + 1 /\ now < MaxClock /\ UNCHANGED <<hits, block, req, faults>>
  BY DEF Tick
<1>2. now \in Nat /\ now' \in Time
  BY <1>1, Bounds DEF TypeOK, Time
<1>3. TypeOK'
  BY <1>1, <1>2 DEF TypeOK
<1>4. ArrivedBefore'
  <2>1. \A s \in Req : req[s] # Fresh => req[s].arrived \in Nat
    BY SentFields DEF TypeOK, Time
  <2> QED BY <1>1, <1>2, <2>1 DEF ArrivedBefore
<1>5. NothingCountedTwice'
  BY <1>1, CountsStand DEF PastRead
<1>6. RejectedOnlyAboveLimit'
  BY <1>1, NobodyRejected
<1> QED BY <1>3, <1>4, <1>5, <1>6

LEMMA RestartInv ==
    ASSUME Inv, Restart
    PROVE  Inv'
<1> USE DEF Inv
<1>1. /\ now' = now /\ faults < MaxFaults /\ faults' = faults + 1
      /\ UNCHANGED <<hits, block>> \/ (hits' = NoHits /\ block' = NoBlock)
  BY DEF Restart
<1>2. ASSUME NEW s \in Req
      PROVE  /\ s \notin InFlight => req'[s] = req[s]
             /\ s \in InFlight => /\ req[s] \in Sent /\ req[s] # Fresh
                                  /\ req'[s] = Ends(req[s], "lost", now)
  <2>1. s \in InFlight => req[s] \in Sent /\ req[s] # Fresh
    BY DEF InFlight, TypeOK, Fresh, Running
  <2> QED BY <2>1 DEF Restart, Ends
<1>3. now \in Time
  BY DEF TypeOK
<1>4. ASSUME NEW s \in InFlight
      PROVE  /\ req'[s] \in Sent /\ req'[s].i = req[s].i /\ req'[s].phase = "lost"
             /\ req'[s].endpoint = req[s].endpoint /\ req'[s].arrived = req[s].arrived
             /\ req'[s] # Fresh
  <2>1. s \in Req
    BY DEF InFlight
  <2>2. /\ req'[s] \in Sent /\ req'[s].i = req[s].i /\ req'[s].phase = "lost"
        /\ req'[s].endpoint = req[s].endpoint /\ req'[s].arrived = req[s].arrived
    BY <1>2, <1>3, <2>1, EndsFacts
  <2> QED BY <2>2 DEF Fresh
<1>5. TypeOK'
  <2>1. hits' \in [Counter -> [n : Nat, expires : Nat]]
        /\ block' \in [Counter -> [until : Nat, expires : Nat]]
    <3>1. NoHits \in [Counter -> [n : Nat, expires : Nat]]
          /\ NoBlock \in [Counter -> [until : Nat, expires : Nat]]
      BY DEF NoHits, NoBlock
    <3> QED BY <1>1, <3>1 DEF TypeOK
  <2>2. \A s \in Req : req'[s] \in {Fresh} \cup Sent
    BY <1>2, <1>4 DEF TypeOK
  <2>3. req' \in [Req -> {Fresh} \cup Sent]
    <3>1. req' = [s \in Req |-> req'[s]]
      BY DEF Restart
    <3> QED BY <2>2, <3>1
  <2>4. \A s \in Req : req'[s] # Fresh => req'[s].i <= Len(Applied[req'[s].endpoint])
    BY <1>2, <1>4 DEF TypeOK
  <2>5. faults' \in 0 .. MaxFaults
    BY <1>1, Bounds DEF TypeOK
  <2> QED BY <1>1, <2>1, <2>3, <2>4, <2>5 DEF TypeOK
<1>6. ASSUME NEW f \in Endpoint, NEW i \in 1 .. Len(Applied[f])
      PROVE  PastRead(f, i) \subseteq PastRead(f, i)'
  <2> SUFFICES ASSUME NEW s \in PastRead(f, i) PROVE s \in PastRead(f, i)'
    OBVIOUS
  <2>1. s \in Req
    BY DEF PastRead
  <2> QED BY <1>2, <1>4, <2>1 DEF PastRead
<1>7. \A s \in Req : req'[s].phase \in {"writing", "blocking", "rejected"} => req'[s] = req[s]
  BY <1>2, <1>4
<1>8. \A s \in Req : req[s] # Fresh =>
        /\ req'[s] # Fresh
        /\ req'[s].endpoint = req[s].endpoint /\ req'[s].arrived = req[s].arrived
  BY <1>2, <1>4
<1>9. NothingCountedTwice'
  BY <1>1, <1>6, <1>7, CountsStand
<1>10. RejectedOnlyAboveLimit'
  BY <1>7, <1>8, NobodyRejected
<1>11. ArrivedBefore'
  BY <1>1, <1>2, <1>4 DEF ArrivedBefore
<1> QED BY <1>5, <1>9, <1>10, <1>11

LEMMA NextInv == Inv /\ [Next]_vars => Inv'
<1> SUFFICES ASSUME Inv, [Next]_vars PROVE Inv'
  OBVIOUS
<1>1. CASE Tick
  BY <1>1, TickInv
<1>2. CASE Restart
  BY <1>2, RestartInv
<1>3. CASE \E r \in Req, e \in Endpoint : Arrive(r, e)
  BY <1>3, ArriveInv
<1>4. CASE \E r \in Req : Increment(r)
  BY <1>4, IncrementInv
<1>5. CASE UNCHANGED vars
  <2>1. UNCHANGED <<now, hits, block, req, faults>>
    BY <1>5 DEF vars
  <2>2. TypeOK' /\ ArrivedBefore'
    BY <2>1 DEF Inv, TypeOK, ArrivedBefore
  <2>3. NothingCountedTwice'
    BY <2>1, CountsStand DEF Inv, PastRead
  <2>4. RejectedOnlyAboveLimit'
    BY <2>1, NobodyRejected DEF Inv
  <2> QED BY <2>2, <2>3, <2>4 DEF Inv
<1> QED BY <1>1, <1>2, <1>3, <1>4, <1>5 DEF Next

\* The limiter's inductive invariant: the counters never run ahead of the requests.
THEOREM Invariance == Spec => []Inv
BY InitInv, NextInv, PTL DEF Spec

\* The types of the limiter's state.
THEOREM TypeCorrect == Spec => []TypeOK
<1>1. Inv => TypeOK
  BY DEF Inv
<1> QED BY <1>1, Invariance, PTL

\* Nobody is rejected who did not send more requests than the endpoint's limit, however
\* calls of increment overlap, fail or are cut off.
THEOREM RejectionsAboveLimit == Spec => []RejectedOnlyAboveLimit
<1>1. Inv => RejectedOnlyAboveLimit
  BY DEF Inv
<1> QED BY <1>1, Invariance, PTL
=============================================================================
