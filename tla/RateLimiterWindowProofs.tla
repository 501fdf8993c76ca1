----------------------- MODULE RateLimiterWindowProofs -----------------------
(***************************************************************************)
(* What holds of RateLimiter over time: a client that paused is admitted,  *)
(* however its earlier requests overlapped and whatever failed; and, while *)
(* requests do not overlap and no call fails, a block lasts as announced   *)
(* and no window holds more admitted requests than the last throttler      *)
(* allows.                                                                 *)
(***************************************************************************)
EXTENDS RateLimiterProofs

-----------------------------------------------------------------------------
(***************************************************************************)
(* How requests and time go on.                                            *)
(***************************************************************************)

\* A request has written the counter of its i-th throttler, or ended.
Wrote(x, i) ==
    x.i > i \/ (x.i = i /\ x.phase \notin {"checking", "counting", "writing"})

LEMMA TimeFacts ==
    ASSUME TypeOK
    PROVE  now \in Nat /\ Ttl \in Nat \ {0}
BY Bounds DEF TypeOK, Time

LEMMA SentTimes ==
    ASSUME TypeOK, NEW r \in Req, req[r] # Fresh
    PROVE  /\ req[r] \in Sent /\ req[r].endpoint \in Endpoint
           /\ req[r].arrived \in Nat /\ req[r].answered \in Nat /\ req[r].checked \in Nat
           /\ req[r].n \in Nat /\ req[r].until \in Nat
           /\ req[r].i \in 1 .. Len(Applied[req[r].endpoint])
           /\ Len(Applied[req[r].endpoint]) \in 1 .. 4
<1>1. req[r] \in Sent
  BY DEF TypeOK
<1>2. {req[r].checked, req[r].arrived, req[r].answered} \subseteq Time
  BY <1>1, SentFields
<1>3. PICK l \in 1 .. 4 : l = Len(Applied[req[r].endpoint])
  BY <1>1, AppliedFacts, SentFields
<1>4. req[r].i \in 1 .. 4 /\ req[r].i <= l
  BY <1>1, <1>3, SentFields DEF TypeOK
<1>5. req[r].i \in 1 .. l
  BY <1>4
<1> QED BY <1>1, <1>2, <1>3, <1>5, SentFields, Bounds DEF Time

LEMMA RunningIsSent ==
    ASSUME TypeOK, NEW r \in InFlight
    PROVE  r \in Req /\ req[r] # Fresh /\ req[r].phase \in Running
BY DEF InFlight, Running, Fresh

\* A request keeps where and when it arrived and goes forward; one that ended stays as it
\* is, one that ends is answered now.
LEMMA Forward ==
    ASSUME Inv, [Next]_vars, NEW s \in Req, req[s] # Fresh
    PROVE  /\ req'[s] # Fresh
           /\ req'[s].endpoint = req[s].endpoint /\ req'[s].arrived = req[s].arrived
           /\ s \notin InFlight => req'[s] = req[s]
           /\ s \in InFlight /\ req'[s].phase \notin Running => req'[s].answered = now
           /\ \A i \in Nat : Wrote(req[s], i) => Wrote(req'[s], i)
<1> USE DEF Inv
<1>0. s \in InFlight <=> req[s].phase \in Running
  BY DEF InFlight
<1>1. CASE req'[s] = req[s]
  BY <1>0, <1>1
<1>2. CASE Restart /\ s \in InFlight
  <2>1. req[s] \in Sent /\ now \in Time
    BY DEF TypeOK
  <2>2. req'[s] = Ends(req[s], "lost", now)
    BY <1>2 DEF Restart, Ends
  <2>3. /\ req'[s] \in Sent /\ req'[s].i = req[s].i /\ req'[s].phase = "lost"
        /\ req'[s].endpoint = req[s].endpoint /\ req'[s].arrived = req[s].arrived
        /\ req'[s].answered = now
    BY <2>1, <2>2, EndsFacts
  <2> QED BY <1>2, <2>3 DEF Fresh, Wrote
<1>3. ASSUME Increment(s)
      PROVE  /\ req'[s] # Fresh
             /\ req'[s].endpoint = req[s].endpoint /\ req'[s].arrived = req[s].arrived
             /\ s \notin InFlight => req'[s] = req[s]
             /\ s \in InFlight /\ req'[s].phase \notin Running => req'[s].answered = now
             /\ \A i \in Nat : Wrote(req[s], i) => Wrote(req'[s], i)
  <2>1. /\ req[s].phase \in Running /\ Moved(s)
        /\ req'[s].phase = "writing" => req[s].phase = "counting"
        /\ req'[s].phase \in Running \/ req'[s].answered = now
    BY <1>3, IncrementShape
  <2>2. req'[s] # Fresh
    BY <2>1 DEF Moved, Sent, Fresh
  <2>3. req[s].i \in Nat /\ req'[s].i \in Nat
    BY <2>1, SentFields DEF Moved
  <2>4. \A i \in Nat : Wrote(req[s], i) => Wrote(req'[s], i)
    BY <2>1, <2>3 DEF Moved, Wrote
  <2> QED BY <1>0, <2>1, <2>2, <2>4 DEF Moved
<1>4. ASSUME NEW r \in Req \ {s}, Increment(r)
      PROVE  req'[s] = req[s]
  BY <1>4, IncrementShape DEF Moved, TypeOK
<1>5. ASSUME NEW r \in Req, NEW e \in Endpoint, Arrive(r, e)
      PROVE  req'[s] = req[s]
  BY <1>5 DEF Arrive, TypeOK
<1>6. Restart /\ s \notin InFlight => req'[s] = req[s]
  BY DEF Restart
<1>7. Tick \/ UNCHANGED vars => req'[s] = req[s]
  BY DEF Tick, vars
<1> QED BY <1>1, <1>2, <1>3, <1>4, <1>5, <1>6, <1>7 DEF Next

LEMMA TimeGoesOn ==
    ASSUME Inv, [Next]_vars
    PROVE  now \in Nat /\ now' \in Nat /\ now <= now'
<1>1. now \in Nat
  BY TimeFacts DEF Inv
<1>2. now' \in {now, now + 1}
  BY IncrementShape DEF Inv, Next, Tick, Restart, Arrive, vars
<1> QED BY <1>1, <1>2

-----------------------------------------------------------------------------
(***************************************************************************)
(* Every entry in the cache was written by a request that was at work at   *)
(* most Ttl before the entry expires.                                      *)
(***************************************************************************)

\* When a request was last at work.
LastSeen(s) == IF s \in InFlight THEN now ELSE req[s].answered

WrittenBy(e, i, expires) ==
    expires = 0
    \/ \E s \in ArrivedAt(e) : Wrote(req[s], i) /\ expires <= LastSeen(s) + Ttl

EntriesHaveWriters ==
    \A e \in Endpoint : \A i \in 1 .. Len(Applied[e]) :
        LET c == <<e, Applied[e][i]>>
        IN  WrittenBy(e, i, hits[c].expires) /\ WrittenBy(e, i, block[c].expires)

LEMMA LastSeenGrows ==
    ASSUME Inv, [Next]_vars, NEW s \in Req, req[s] # Fresh
    PROVE  LastSeen(s) \in Nat /\ LastSeen(s)' \in Nat /\ LastSeen(s) <= LastSeen(s)'
<1>1. /\ now \in Nat /\ now' \in Nat /\ now <= now' /\ req[s].answered \in Nat
  BY TimeGoesOn, SentTimes DEF Inv
<1>2. s \in InFlight <=> req[s].phase \in Running
  BY DEF InFlight
<1>3. s \in InFlight' <=> req'[s].phase \in Running
  BY DEF InFlight
<1>4. CASE s \notin InFlight
  BY <1>1, <1>2, <1>3, <1>4, Forward DEF LastSeen
<1>5. CASE s \in InFlight
  <2>1. LastSeen(s) = now
    BY <1>5 DEF LastSeen
  <2>2. LastSeen(s)' = now' \/ LastSeen(s)' = now
    BY <1>3, <1>5, Forward DEF LastSeen
  <2> QED BY <1>1, <2>1, <2>2
<1> QED BY <1>4, <1>5

LEMMA WrittenStill ==
    ASSUME Inv, [Next]_vars, NEW e \in Endpoint, NEW i \in Nat, NEW expires \in Nat,
           WrittenBy(e, i, expires)
    PROVE  WrittenBy(e, i, expires)'
<1>1. CASE expires = 0
  BY <1>1 DEF WrittenBy
<1>2. ASSUME NEW s \in ArrivedAt(e), Wrote(req[s], i), expires <= LastSeen(s) + Ttl
      PROVE  WrittenBy(e, i, expires)'
  <2>1. s \in Req /\ req[s] # Fresh /\ req[s].endpoint = e
    BY DEF ArrivedAt
  <2>2. s \in ArrivedAt(e)' /\ Wrote(req'[s], i)
    BY <1>2, <2>1, Forward DEF ArrivedAt
  <2>3. expires <= LastSeen(s)' + Ttl
    <3>1. LastSeen(s) \in Nat /\ LastSeen(s)' \in Nat /\ LastSeen(s) <= LastSeen(s)'
      BY <2>1, LastSeenGrows
    <3> QED BY <1>2, <3>1, Bounds
  <2> QED BY <2>2, <2>3 DEF WrittenBy
<1> QED BY <1>1, <1>2 DEF WrittenBy

\* The writer of an entry is at work when it writes.
LEMMA WriterWrites ==
    ASSUME Inv, [Next]_vars, NEW r \in Req, Increment(r),
           req[r].phase \in {"writing", "blocking"},
           req'[r].phase # "writing",
           NEW e, NEW i, NEW expires,
           e = req[r].endpoint, i = req[r].i, expires = now + Ttl
    PROVE  WrittenBy(e, i, expires)'
<1>1. /\ req[r].phase \in Running /\ Moved(r) /\ now' = now
      /\ req'[r].phase \in Running \/ req'[r].answered = now
      /\ req'[r].phase = "writing" => req[r].phase = "counting"
  BY IncrementShape DEF Inv
<1>2. req'[r] # Fresh /\ req[r].i \in 1 .. 4 /\ now \in Nat
  BY <1>1, SentFields, TimeGoesOn DEF Moved, Sent, Fresh
<1>3. r \in ArrivedAt(e)'
  BY <1>1, <1>2 DEF ArrivedAt, Moved
<1>4. Wrote(req'[r], i)
  BY <1>1, <1>2 DEF Wrote, Moved
<1>5. LastSeen(r)' = now
  BY <1>1 DEF LastSeen, InFlight
<1> QED BY <1>2, <1>3, <1>4, <1>5, Bounds DEF WrittenBy

\* What a step does to an entry: nothing, it is gone, or it lives for Ttl from now.
LEMMA EntryStep ==
    ASSUME Inv, [Next]_vars, NEW c \in Counter
    PROVE  /\ \/ hits'[c] = hits[c]
              \/ hits'[c].expires = 0
              \/ /\ hits'[c].expires = now + Ttl
                 /\ \E r \in Req : Increment(r) /\ req[r].phase = "writing" /\ CounterOf(r) = c
           /\ \/ block'[c] = block[c]
              \/ block'[c].expires = 0
              \/ /\ block'[c].expires = now + Ttl
                 /\ \E r \in Req : Increment(r) /\ req[r].phase = "blocking" /\ CounterOf(r) = c
<1>1. ASSUME NEW r \in Req, Increment(r)
      PROVE  /\ \/ hits'[c] = hits[c]
                \/ /\ hits'[c].expires = now + Ttl
                   /\ req[r].phase = "writing" /\ CounterOf(r) = c
             /\ \/ block'[c] = block[c]
                \/ /\ block'[c].expires = now + Ttl
                   /\ req[r].phase = "blocking" /\ CounterOf(r) = c
  BY <1>1, IncrementShape DEF Inv, TypeOK, StoredHits, StoredBlock
<1>2. CASE UNCHANGED <<hits, block>>
  BY <1>2
<1>3. CASE hits' = NoHits /\ block' = NoBlock
  BY <1>3 DEF NoHits, NoBlock
<1> QED BY <1>1, <1>2, <1>3 DEF Next, Tick, Restart, Arrive, vars

LEMMA WritersInv ==
    ASSUME Inv, EntriesHaveWriters, [Next]_vars
    PROVE  EntriesHaveWriters'
<1> SUFFICES ASSUME NEW e \in Endpoint, NEW i \in 1 .. Len(Applied[e])
             PROVE  /\ WrittenBy(e, i, hits[<<e, Applied[e][i]>>].expires)'
                    /\ WrittenBy(e, i, block[<<e, Applied[e][i]>>].expires)'
  BY DEF EntriesHaveWriters
<1>1. PICK c \in Counter : c = <<e, Applied[e][i]>>
  BY AppliedFacts
<1>2. i \in Nat /\ hits[c].expires \in Nat /\ block[c].expires \in Nat
  BY AppliedFacts DEF Inv, TypeOK
<1>3. WrittenBy(e, i, hits[c].expires) /\ WrittenBy(e, i, block[c].expires)
  BY <1>1 DEF EntriesHaveWriters
<1>4. ASSUME NEW x, x = 0 PROVE WrittenBy(e, i, x)'
  BY <1>4 DEF WrittenBy
<1>5. ASSUME NEW r \in Req, Increment(r), req[r].phase \in {"writing", "blocking"},
             CounterOf(r) = c, NEW x, x = now + Ttl
      PROVE  WrittenBy(e, i, x)'
  <2>1. /\ req[r].phase \in Running
        /\ req'[r].phase = "writing" => req[r].phase = "counting"
    BY <1>5, IncrementShape DEF Inv
  <2>2. req[r] \in Sent /\ req[r].i \in 1 .. Len(Applied[req[r].endpoint])
    BY <2>1, EntryType DEF Inv
  <2>3. req[r].endpoint = e /\ req[r].i = i
    BY <1>1, <1>5, <2>2, AppliedFacts, SentFields DEF CounterOf, ThrottlerOf
  <2> QED BY <1>5, <2>1, <2>3, WriterWrites
<1>6. ASSUME NEW x \in Nat, WrittenBy(e, i, x) PROVE WrittenBy(e, i, x)'
  BY <1>2, <1>6, WrittenStill
<1>7. WrittenBy(e, i, hits[c].expires)'
  <2>1. PICK x : x = hits'[c].expires
    OBVIOUS
  <2>2. PICK y \in Nat : y = hits[c].expires
    BY <1>2
  <2>3. CASE x = y
    BY <1>3, <1>6, <2>1, <2>2, <2>3
  <2>4. CASE x = 0
    BY <1>4, <2>1, <2>4
  <2>5. CASE x = now + Ttl /\ \E r \in Req : Increment(r) /\ req[r].phase = "writing" /\ CounterOf(r) = c
    BY <1>5, <2>1, <2>5
  <2> QED BY <2>1, <2>2, <2>3, <2>4, <2>5, EntryStep
<1>8. WrittenBy(e, i, block[c].expires)'
  <2>1. PICK x : x = block'[c].expires
    OBVIOUS
  <2>2. PICK y \in Nat : y = block[c].expires
    BY <1>2
  <2>3. CASE x = y
    BY <1>3, <1>6, <2>1, <2>2, <2>3
  <2>4. CASE x = 0
    BY <1>4, <2>1, <2>4
  <2>5. CASE x = now + Ttl /\ \E r \in Req : Increment(r) /\ req[r].phase = "blocking" /\ CounterOf(r) = c
    BY <1>5, <2>1, <2>5
  <2> QED BY <2>1, <2>2, <2>3, <2>4, <2>5, EntryStep
<1> QED BY <1>1, <1>7, <1>8

-----------------------------------------------------------------------------
(***************************************************************************)
(* A request that nothing came before or during.                           *)
(***************************************************************************)

Alone(r) ==
    \A s \in ArrivedAt(req[r].endpoint) \ {r} :
        s \notin InFlight /\ req[s].answered + Ttl < req[r].arrived

\* It counts itself only.
AloneCountsOne ==
    \A r \in InFlight : Alone(r) =>
        /\ req[r].phase = "writing" => req[r].n = 1
        /\ req[r].phase # "blocking"

QuietInv ==
    /\ Inv
    /\ EntriesHaveWriters
    /\ AloneCountsOne
    /\ QuietClientAdmitted

\* The entries it comes upon, and did not write itself, are gone.
LEMMA AloneFindsNothing ==
    ASSUME Inv, EntriesHaveWriters, NEW r \in InFlight, Alone(r),
           req[r].phase \in {"checking", "counting"}
    PROVE  ~Alive(hits[CounterOf(r)]) /\ ~Alive(block[CounterOf(r)])
<1>1. r \in Req /\ req[r] # Fresh
  BY RunningIsSent DEF Inv
<1>2. PICK e \in Endpoint : e = req[r].endpoint
  BY <1>1, SentTimes DEF Inv
<1>3. PICK i \in 1 .. Len(Applied[e]) : i = req[r].i
  BY <1>1, <1>2, SentTimes DEF Inv
<1>4. now \in Nat /\ Ttl \in Nat /\ req[r].arrived \in Nat /\ req[r].arrived <= now
  BY <1>1, TimeFacts, SentTimes DEF Inv, ArrivedBefore
<1>5. ASSUME NEW expires \in Nat, WrittenBy(e, i, expires)
      PROVE  ~(now < expires)
  <2>1. CASE expires = 0
    BY <1>4, <2>1
  <2>2. ASSUME NEW s \in ArrivedAt(e), Wrote(req[s], i), expires <= LastSeen(s) + Ttl
        PROVE  ~(now < expires)
    <3>1. s # r
      <4>1. i \in Nat
        BY AppliedFacts
      <4> QED BY <1>3, <2>2, <4>1 DEF Wrote
    <3>2. s \notin InFlight /\ req[s].answered + Ttl < req[r].arrived
      BY <1>2, <3>1 DEF Alone
    <3>3. s \in Req /\ req[s].answered \in Nat
      BY SentTimes DEF ArrivedAt, Inv
    <3> QED BY <1>4, <2>2, <3>2, <3>3 DEF LastSeen
  <2> QED BY <1>5, <2>1, <2>2 DEF WrittenBy
<1>6. /\ CounterOf(r) = <<e, Applied[e][i]>>
      /\ CounterOf(r) \in Counter
  BY <1>2, <1>3, AppliedFacts DEF CounterOf, ThrottlerOf
<1>7. hits[CounterOf(r)].expires \in Nat /\ block[CounterOf(r)].expires \in Nat
  BY <1>6 DEF Inv, TypeOK
<1>8. WrittenBy(e, i, hits[CounterOf(r)].expires) /\ WrittenBy(e, i, block[CounterOf(r)].expires)
  BY <1>6 DEF EntriesHaveWriters
<1> QED BY <1>5, <1>7, <1>8 DEF Alive

\* Who was not alone will not have been.
LEMMA AloneBefore ==
    ASSUME Inv, [Next]_vars, NEW r \in InFlight, Alone(r)'
    PROVE  Alone(r)
<1>1. /\ r \in Req /\ req[r] # Fresh /\ req[r].arrived <= now
      /\ req'[r].endpoint = req[r].endpoint /\ req'[r].arrived = req[r].arrived
  BY RunningIsSent, Forward DEF Inv, ArrivedBefore
<1>2. now \in Nat /\ req[r].arrived \in Nat /\ Ttl \in Nat
  BY <1>1, TimeFacts, SentTimes DEF Inv
<1>3. SUFFICES ASSUME NEW s \in ArrivedAt(req[r].endpoint) \ {r}
               PROVE  s \notin InFlight /\ req[s].answered + Ttl < req[r].arrived
  BY DEF Alone
<1>4. s \in Req /\ req[s] # Fresh /\ req[s].endpoint = req[r].endpoint
  BY DEF ArrivedAt
<1>5. s \in ArrivedAt(req[r].endpoint)'
  BY <1>1, <1>4, Forward DEF ArrivedAt
<1>6. s \notin InFlight' /\ req'[s].answered + Ttl < req[r].arrived
  BY <1>1, <1>5 DEF Alone
<1>7. CASE s \in InFlight
  <2>1. req'[s].answered = now
    BY <1>4, <1>6, <1>7, Forward DEF InFlight
  <2> QED BY <1>1, <1>2, <1>6, <2>1
<1>8. CASE s \notin InFlight
  BY <1>1, <1>4, <1>6, <1>8, Forward
<1> QED BY <1>7, <1>8

\* A request gets to these phases within increment only.
LEMMA PhaseIsReached ==
    ASSUME Inv, [Next]_vars, NEW r \in Req,
           req'[r].phase \in {"counting", "writing", "blocking", "admitted", "rejected"}
    PROVE  req'[r] = req[r] \/ Increment(r)
<1>1. ASSUME NEW s \in Req \ {r}, Increment(s)
      PROVE  req'[r] = req[r]
  BY <1>1, IncrementShape DEF Moved, Inv, TypeOK
<1>2. ASSUME NEW s \in Req, NEW e \in Endpoint, Arrive(s, e)
      PROVE  req'[r] = req[r]
  BY <1>2 DEF Arrive, Inv, TypeOK
<1>3. Restart => req'[r] = req[r]
  <2>1. ASSUME r \in InFlight, Restart PROVE FALSE
    <3>1. req[r] \in Sent /\ now \in Time
      BY RunningIsSent, <2>1 DEF Inv, TypeOK
    <3>2. req'[r] = Ends(req[r], "lost", now)
      BY <2>1 DEF Restart, Ends
    <3>3. req'[r].phase = "lost"
      BY <3>1, <3>2, EndsFacts
    <3> QED BY <3>3
  <2> QED BY <2>1 DEF Restart
<1>4. Tick \/ UNCHANGED vars => req'[r] = req[r]
  BY DEF Tick, vars
<1> QED BY <1>1, <1>2, <1>3, <1>4 DEF Next

LEMMA AloneInv ==
    ASSUME Inv, EntriesHaveWriters, AloneCountsOne, [Next]_vars
    PROVE  AloneCountsOne'
<1> SUFFICES ASSUME NEW r \in InFlight', Alone(r)', req'[r].phase \in {"writing", "blocking"}
             PROVE  req'[r].phase = "writing" /\ req'[r].n = 1
  BY DEF AloneCountsOne
<1>1. r \in Req
  BY DEF InFlight
<1>2. req'[r] = req[r] \/ Increment(r)
  BY <1>1, PhaseIsReached
<1>3. r \in InFlight
  BY <1>1, <1>2, IncrementShape DEF InFlight, Inv
<1>4. Alone(r)
  BY <1>3, AloneBefore
<1>5. CASE req'[r] = req[r]
  BY <1>3, <1>4, <1>5 DEF AloneCountsOne
<1>6. CASE Increment(r) /\ req'[r].phase = "writing"
  <2>1. /\ req[r].phase = "counting"
        /\ Alive(hits[CounterOf(r)]) \/ req'[r].n = 1
    BY <1>1, <1>6, IncrementShape DEF Inv
  <2> QED BY <1>3, <1>4, <1>6, <2>1, AloneFindsNothing
<1>7. CASE Increment(r) /\ req'[r].phase = "blocking"
  <2>1. req[r].phase = "writing" /\ req[r].n > Limit[ThrottlerOf(r)]
    BY <1>1, <1>7, IncrementShape DEF Inv
  <2>2. req[r].n = 1
    BY <1>3, <1>4, <2>1 DEF AloneCountsOne
  <2>3. Limit[ThrottlerOf(r)] \in Nat \ {0}
    <3>1. req[r].endpoint \in Endpoint /\ req[r].i \in 1 .. Len(Applied[req[r].endpoint])
      BY <1>1, <1>3, RunningIsSent, SentTimes DEF Inv
    <3>2. ThrottlerOf(r) \in Name
      BY <3>1, AppliedFacts DEF ThrottlerOf
    <3> QED BY <3>2, LimiterAssumption
  <2> QED BY <2>1, <2>2, <2>3
<1> QED BY <1>2, <1>5, <1>6, <1>7

LEMMA QuietStep ==
    ASSUME QuietInv, [Next]_vars
    PROVE  QuietClientAdmitted'
<1> USE DEF QuietInv
<1> SUFFICES ASSUME NEW e \in Endpoint, NEW r \in Was("rejected", e)', Quiet(r)'
             PROVE  FALSE
  BY DEF QuietClientAdmitted
<1>1. r \in Req /\ req'[r].phase = "rejected" /\ req'[r].endpoint = e
  BY DEF Was
<1>2. req'[r] = req[r] \/ Increment(r)
  BY <1>1, PhaseIsReached
<1>3. now \in Nat /\ Ttl \in Nat
  BY TimeFacts DEF Inv
<1>4. ASSUME NEW s \in ArrivedAt(e) \ {r}
      PROVE  /\ s \in Req /\ req[s] # Fresh /\ req'[s].arrived = req[s].arrived
             /\ \/ s \notin InFlight' /\ req'[s].answered + Ttl < req'[r].arrived
                \/ req[s].arrived > req'[r].answered
  <2>1. s \in Req /\ req[s] # Fresh /\ req[s].endpoint = e
    BY DEF ArrivedAt
  <2>2. s \in ArrivedAt(e)' /\ req'[s].arrived = req[s].arrived
    BY <2>1, Forward DEF ArrivedAt
  <2>3. \/ s \notin InFlight' /\ req'[s].answered + Ttl < req'[r].arrived
        \/ req'[s].arrived > req'[r].answered
    BY <1>1, <2>2 DEF Quiet
  <2> QED BY <2>1, <2>2, <2>3
<1>5. CASE req'[r] = req[r]
  <2>1. r \in Was("rejected", e) /\ req[r] # Fresh
    BY <1>1, <1>5 DEF Was, Fresh
  <2>2. req[r].arrived \in Nat /\ req[r].arrived <= now
    BY <1>1, <2>1, SentTimes DEF Inv, ArrivedBefore
  <2>3. ASSUME NEW s \in ArrivedAt(e) \ {r}
        PROVE  \/ s \notin InFlight /\ req[s].answered + Ttl < req[r].arrived
               \/ req[s].arrived > req[r].answered
    <3>1. CASE s \in InFlight /\ s \notin InFlight'
      <4>1. req'[s].answered = now
        BY <1>4, <3>1, Forward DEF InFlight
      <4> QED BY <1>3, <1>4, <1>5, <2>2, <4>1
    <3>2. CASE s \notin InFlight
      BY <1>4, <1>5, <3>2, Forward
    <3> QED BY <1>4, <1>5, <3>1, <3>2
  <2>4. Quiet(r)
    BY <1>1, <1>5, <2>3 DEF Quiet
  <2> QED BY <2>1, <2>4 DEF QuietClientAdmitted
<1>6. CASE Increment(r)
  <2>1. /\ req[r].phase \in Running /\ Moved(r)
        /\ req[r].phase = "blocking"
             \/ (req[r].phase = "checking" /\ Alive(block[CounterOf(r)]))
        /\ req'[r].phase \notin Running => req'[r].answered = now
    BY <1>1, <1>6, IncrementShape DEF Inv
  <2>2. /\ r \in InFlight /\ req'[r].answered = now
        /\ req[r].endpoint = e /\ req'[r].arrived = req[r].arrived
    BY <1>1, <2>1 DEF InFlight, Running, Moved
  <2>3. Alone(r)
    <3> SUFFICES ASSUME NEW s \in ArrivedAt(e) \ {r}
                 PROVE  s \notin InFlight /\ req[s].answered + Ttl < req[r].arrived
      BY <2>2 DEF Alone
    <3>1. req'[s] = req[s]
      BY <1>4, <2>1 DEF Moved, Inv, TypeOK
    <3>2. req[s].arrived \in Nat /\ req[s].arrived <= now
      BY <1>4, SentTimes DEF Inv, ArrivedBefore
    <3> QED BY <1>3, <1>4, <2>2, <3>1, <3>2 DEF InFlight
  <2> QED BY <2>1, <2>2, <2>3, AloneFindsNothing DEF AloneCountsOne
<1> QED BY <1>2, <1>5, <1>6

\* A client that paused for more than the window is admitted, however the requests before
\* overlapped and whatever calls of the cache failed.
THEOREM PauseIsEnough == Spec => []QuietClientAdmitted
<1>1. Init => QuietInv
  <2> SUFFICES ASSUME Init PROVE EntriesHaveWriters /\ AloneCountsOne /\ QuietClientAdmitted
    BY InitInv DEF QuietInv
  <2>1. \A r \in Req : req[r] = Fresh /\ req[r].phase = "idle"
    BY DEF Init, Fresh
  <2>2. EntriesHaveWriters
    BY AppliedFacts DEF Init, NoHits, NoBlock, EntriesHaveWriters, WrittenBy
  <2> QED BY <2>1, <2>2 DEF AloneCountsOne, QuietClientAdmitted, InFlight, Was, Running
<1>2. QuietInv /\ [Next]_vars => QuietInv'
  BY NextInv, WritersInv, AloneInv, QuietStep DEF QuietInv
<1>3. QuietInv => QuietClientAdmitted
  BY DEF QuietInv
<1> QED BY <1>1, <1>2, <1>3, PTL DEF Spec

-----------------------------------------------------------------------------
(***************************************************************************)
(* One request after the other, and no call fails.                         *)
(***************************************************************************)

Sequential == MaxInFlight = 1 /\ MaxFaults = 0

OneAtATime == \A r, s \in InFlight : r = s

\* The steps of increment in full.
Turns(r) ==
    /\ req[r].phase = "checking" /\ UNCHANGED <<hits, block>>
    /\ req'[r].phase = "rejected" /\ req'[r].until = block[CounterOf(r)].until
Enters(r) ==
    /\ req[r].phase = "checking" /\ UNCHANGED <<hits, block>>
    /\ req'[r].phase = "counting" /\ req'[r].checked = now
    /\ ~(Alive(block[CounterOf(r)]) /\ block[CounterOf(r)].until > now)
Reads(r) ==
    /\ req[r].phase = "counting" /\ UNCHANGED <<hits, block>>
    /\ req'[r].phase = "writing" /\ req'[r].checked = req[r].checked
    /\ req'[r].n = IF Alive(hits[CounterOf(r)]) THEN hits[CounterOf(r)].n + 1 ELSE 1
Exceeds(r) ==
    /\ req[r].phase = "writing" /\ hits' = StoredHits(r) /\ UNCHANGED block
    /\ req'[r].phase = "blocking" /\ req'[r].checked = req[r].checked
Passes(r) ==
    /\ req[r].phase = "writing" /\ hits' = StoredHits(r) /\ UNCHANGED block
    /\ ~(req[r].n > Limit[ThrottlerOf(r)])
    /\ req'[r].phase \in {"checking", "admitted"}
    /\ req'[r].phase = "checking" => req'[r].checked = req[r].checked
    /\ req'[r].phase = "admitted" =>
         req'[r].answered = now /\ req[r].i = Len(Applied[req[r].endpoint])
Blocks(r) ==
    /\ req[r].phase = "blocking" /\ UNCHANGED hits /\ block' = StoredBlock(r)
    /\ req'[r].phase = "rejected" /\ req'[r].until = req[r].checked + Ttl

LEMMA SequentialShape ==
    ASSUME Inv, Sequential, NEW r \in Req, Increment(r)
    PROVE  /\ r \in InFlight /\ Moved(r) /\ now' = now
           /\ \/ Turns(r) \/ Enters(r) \/ Reads(r) \/ Exceeds(r) \/ Passes(r) \/ Blocks(r)
<1> USE DEF Inv
<1>1. req[r].phase \in Running /\ Moved(r) /\ now' = now
  BY IncrementShape
<1>2. req[r] \in Sent /\ req[r] # Fresh
  BY <1>1, EntryType DEF Fresh, Running
<1>3. req[r].checked + Ttl \in Nat /\ block[CounterOf(r)].until \in Nat
  <2>1. req[r].checked \in Nat /\ Ttl \in Nat
    BY <1>2, SentTimes, Bounds
  <2> QED BY <1>1, <2>1, EntryType
<1> SUFFICES Turns(r) \/ Enters(r) \/ Reads(r) \/ Exceeds(r) \/ Passes(r) \/ Blocks(r)
  BY <1>1 DEF InFlight
<1>4. ~CacheFails(r) /\ ~GetMisses(r)
  BY DEF Sequential, CacheFails, GetMisses, TypeOK
<1>5. CASE CheckBlock(r)
  <2>0. req[r].phase = "checking" /\ UNCHANGED <<hits, block>>
    BY <1>5 DEF CheckBlock
  <2>1. CASE Alive(block[CounterOf(r)]) /\ block[CounterOf(r)].until > now
    <3>1. req' = [req EXCEPT ![r] = Rejected(r, block[CounterOf(r)].until)]
      BY <1>5, <2>1 DEF CheckBlock
    <3>2. req'[r].phase = "rejected" /\ req'[r].until = block[CounterOf(r)].until
      BY <1>1, <1>3, <3>1, RejectedType
    <3> QED BY <2>0, <3>2 DEF Turns
  <2>2. CASE ~(Alive(block[CounterOf(r)]) /\ block[CounterOf(r)].until > now)
    <3>1. req'[r] = [req[r] EXCEPT !.phase = "counting", !.checked = now]
      BY <1>5, <2>2 DEF CheckBlock, TypeOK
    <3> QED BY <1>2, <2>0, <2>2, <3>1 DEF Enters, Sent
  <2> QED BY <2>1, <2>2
<1>6. CASE ReadHits(r)
  <2> DEFINE n == IF Alive(hits[CounterOf(r)]) THEN hits[CounterOf(r)].n + 1 ELSE 1
  <2>1. req'[r] = [req[r] EXCEPT !.phase = "writing", !.n = n]
    BY <1>6 DEF ReadHits, TypeOK
  <2> HIDE DEF n
  <2>2. req'[r].phase = "writing" /\ req'[r].n = n /\ req'[r].checked = req[r].checked
    BY <1>2, <2>1 DEF Sent
  <2> QED BY <1>6, <2>2 DEF ReadHits, Reads, n
<1>7. CASE WriteHits(r)
  <2>1. CASE req[r].n > Limit[ThrottlerOf(r)]
    <3>1. req'[r] = [req[r] EXCEPT !.phase = "blocking"]
      BY <1>7, <2>1 DEF WriteHits, TypeOK
    <3>2. req'[r].phase = "blocking" /\ req'[r].checked = req[r].checked
      BY <1>2, <3>1 DEF Sent
    <3> QED BY <1>7, <3>2 DEF WriteHits, Exceeds
  <2>2. CASE ~(req[r].n > Limit[ThrottlerOf(r)])
    <3>1. req' = [req EXCEPT ![r] = Passed(r)]
      BY <1>7, <2>2 DEF WriteHits
    <3>2. /\ req'[r].phase \in {"checking", "admitted"}
          /\ req'[r].phase = "checking" => req'[r].checked = req[r].checked
          /\ req'[r].phase = "admitted" =>
               /\ req'[r].answered = now /\ req'[r].i = req[r].i
               /\ req'[r].i = Len(Applied[req[r].endpoint])
      BY <1>2, <3>1, PassedType
    <3> QED BY <1>7, <2>2, <3>2 DEF WriteHits, Passes
  <2> QED BY <2>1, <2>2
<1>8. CASE WriteBlock(r)
  <2>1. req' = [req EXCEPT ![r] = Rejected(r, req[r].checked + Ttl)]
    BY <1>8 DEF WriteBlock
  <2>2. req'[r].phase = "rejected" /\ req'[r].until = req[r].checked + Ttl
    BY <1>1, <1>3, <2>1, RejectedType
  <2> QED BY <1>8, <2>2 DEF WriteBlock, Blocks
<1> QED BY <1>1, <1>4, <1>5, <1>6, <1>7, <1>8 DEF Increment, InFlight

\* Time passes, a request arrives when none is in flight, or the one in flight moves.
LEMMA SequentialStep ==
    ASSUME Inv, OneAtATime, Sequential, [Next]_vars
    PROVE  \/ UNCHANGED <<hits, block, req>>
           \/ /\ InFlight = {} /\ now' = now
              /\ \E r \in Req, e \in Endpoint : Arrive(r, e)
           \/ \E r \in Req :
                /\ Increment(r) /\ InFlight = {r}
                /\ \A s \in Req \ {r} : req'[s] = req[s]
<1>1. ~Restart
  BY DEF Sequential, Restart, Inv, TypeOK
<1>2. ASSUME NEW r \in Req, Increment(r)
      PROVE  InFlight = {r} /\ \A s \in Req \ {r} : req'[s] = req[s]
  BY <1>2, SequentialShape DEF OneAtATime, Moved, Inv, TypeOK
<1>3. ASSUME NEW r \in Req, NEW e \in Endpoint, Arrive(r, e)
      PROVE  InFlight = {} /\ now' = now
  <2>1. Cardinality(InFlight) < 1 /\ now' = now
    BY <1>3 DEF Arrive, Sequential
  <2>2. IsFiniteSet(InFlight) /\ Cardinality(InFlight) \in Nat
    BY FiniteReq DEF InFlight
  <2>3. Cardinality(InFlight) = 0
    BY <2>1, <2>2
  <2> QED BY <2>1, <2>2, <2>3, FS_EmptySet
<1>4. Tick \/ UNCHANGED vars => UNCHANGED <<hits, block, req>>
  BY DEF Tick, vars
<1> QED BY <1>1, <1>2, <1>3, <1>4 DEF Next

\* A request that arrives.
LEMMA ArriveShape ==
    ASSUME Inv, NEW r \in Req, NEW e \in Endpoint, Arrive(r, e)
    PROVE  /\ req[r] = Fresh /\ \A s \in Req \ {r} : req'[s] = req[s]
           /\ req'[r].phase = "checking" /\ req'[r].i = 1 /\ req'[r].checked = 0
           /\ req'[r].endpoint = e /\ req'[r].arrived = now
           /\ UNCHANGED <<now, hits, block>>
BY DEF Arrive, Inv, TypeOK

LEMMA OneAtATimeInv ==
    ASSUME Inv, OneAtATime, Sequential, [Next]_vars
    PROVE  OneAtATime'
<1>1. CASE UNCHANGED req
  BY <1>1 DEF OneAtATime, InFlight
<1>2. ASSUME NEW r \in Req, NEW e \in Endpoint, Arrive(r, e), InFlight = {}
      PROVE  OneAtATime'
  BY <1>2, ArriveShape DEF OneAtATime, InFlight
<1>3. ASSUME NEW r \in Req, InFlight = {r}, \A s \in Req \ {r} : req'[s] = req[s]
      PROVE  OneAtATime'
  BY <1>3 DEF OneAtATime, InFlight
<1> QED BY <1>1, <1>2, <1>3, SequentialStep

-----------------------------------------------------------------------------
(***************************************************************************)
(* A block lasts as announced.                                             *)
(***************************************************************************)

\* An admitted request went through every throttler, and was answered before now.
AdmittedAtLast ==
    \A r \in Req : req[r].phase = "admitted" =>
        req[r].i = Len(Applied[req[r].endpoint]) /\ req[r].answered <= now

\* A block entry outlives the block; a request beyond the check found none that lasts; and
\* the entry of a rejected request still ends no earlier than the request was told.
BlocksOutlive == \A c \in Counter : block[c].until <= block[c].expires
CheckedBefore == \A s \in InFlight : req[s].checked <= now
NoneFound ==
    \A s \in InFlight :
        req[s].phase # "checking" => block[CounterOf(s)].until <= req[s].checked
ToldStands ==
    \A s \in Req : req[s].phase = "rejected" => req[s].until <= block[CounterOf(s)].until

\* A request has passed the check of the i-th throttler.
PassedCheck(x, i) ==
    x.i > i \/ (x.i = i /\ x.phase \in {"counting", "writing", "blocking", "admitted"})

\* A request that came after a rejection does not pass the check that rejected before the
\* block ends.
Waited ==
    \A e \in Endpoint : \A r \in Was("rejected", e), s \in ArrivedAt(e) :
        /\ req[s].phase \in Running \cup {"admitted"}
        /\ req[r].answered < req[s].arrived
        /\ PassedCheck(req[s], req[r].i)
        => req[r].until <= LastSeen(s)

BlockInv ==
    /\ Inv /\ OneAtATime /\ AdmittedAtLast
    /\ BlocksOutlive /\ CheckedBefore /\ NoneFound /\ ToldStands
    /\ Waited

LEMMA SameCounter ==
    ASSUME TypeOK, NEW r \in Req, req[r] # Fresh
    PROVE  /\ CounterOf(r) \in Counter
           /\ \A s \in Req : req[s] # Fresh /\ req[s].endpoint = req[r].endpoint
                /\ req[s].i = req[r].i => CounterOf(s) = CounterOf(r)
           /\ CounterOf(r) = <<req[r].endpoint, Applied[req[r].endpoint][req[r].i]>>
<1>1. req[r].endpoint \in Endpoint /\ req[r].i \in 1 .. Len(Applied[req[r].endpoint])
  BY SentTimes
<1> QED BY <1>1, AppliedFacts DEF CounterOf, ThrottlerOf

LEMMA EntryTimes ==
    ASSUME TypeOK, NEW c \in Counter
    PROVE  {hits[c].n, hits[c].expires, block[c].until, block[c].expires} \subseteq Nat
BY DEF TypeOK

\* A step of increment leaves the counters of the other requests what they are.
LEMMA CounterStays ==
    ASSUME NEW s \in Req, req'[s].endpoint = req[s].endpoint, req'[s].i = req[s].i
    PROVE  CounterOf(s)' = CounterOf(s)
BY DEF CounterOf, ThrottlerOf

LEMMA AdmittedInv ==
    ASSUME Inv, AdmittedAtLast, [Next]_vars
    PROVE  AdmittedAtLast'
<1>1. SUFFICES ASSUME NEW s \in Req, req'[s].phase = "admitted"
      PROVE  req'[s].i = Len(Applied[req'[s].endpoint]) /\ req'[s].answered <= now'
  BY DEF AdmittedAtLast
<1>2. now \in Nat /\ now' \in Nat /\ now <= now'
  BY TimeGoesOn
<1>3. CASE req'[s] = req[s]
  <2>1. req[s].answered \in Nat /\ req[s].answered <= now
    BY <1>1, <1>3, SentTimes DEF Inv, AdmittedAtLast, Fresh
  <2> QED BY <1>1, <1>2, <1>3, <2>1 DEF AdmittedAtLast
<1>4. CASE Increment(s)
  <2>1. /\ req'[s].i = Len(Applied[req[s].endpoint]) /\ req'[s].answered = now
        /\ req'[s].endpoint = req[s].endpoint
    BY <1>1, <1>4, IncrementShape DEF Inv, Running, Moved
  <2> QED BY <1>2, <2>1
<1>5. ASSUME NEW r \in Req, NEW e \in Endpoint, Arrive(r, e)
      PROVE  req'[s] = req[s]
  BY <1>1, <1>5, ArriveShape
<1>6. ASSUME NEW r \in Req \ {s}, Increment(r)
      PROVE  req'[s] = req[s]
  BY <1>6, IncrementShape DEF Moved, Inv, TypeOK
<1>7. ASSUME Restart PROVE req'[s] = req[s]
  <2>1. s \in InFlight => req'[s] = [req[s] EXCEPT !.phase = "lost", !.answered = now]
    BY <1>7 DEF Restart
  <2>2. s \in InFlight => req'[s].phase = "lost"
    BY <2>1, RunningIsSent, SentTimes DEF Inv, Sent
  <2> QED BY <1>1, <1>7, <2>2 DEF Restart
<1>8. Tick \/ UNCHANGED vars => req'[s] = req[s]
  BY DEF Tick, vars
<1> QED BY <1>3, <1>4, <1>5, <1>6, <1>7, <1>8 DEF Next

\* The entries of the other counters stand.
LEMMA StoredBlockFacts ==
    ASSUME Inv, NEW r \in InFlight, NEW c \in Counter, block' = StoredBlock(r)
    PROVE  /\ CounterOf(r) \in Counter
           /\ c # CounterOf(r) => block'[c] = block[c]
           /\ c = CounterOf(r) =>
                block'[c].until = req[r].checked + Ttl /\ block'[c].expires = now + Ttl
<1>1. CounterOf(r) \in Counter
  BY RunningIsSent, SameCounter DEF Inv
<1> QED BY <1>1 DEF StoredBlock, Inv, TypeOK

\* A request was refused or moved on: what the entries say of blocks stays true.
BlocksRight == BlocksOutlive /\ CheckedBefore /\ NoneFound /\ ToldStands

LEMMA RestKeepsBlocks ==
    ASSUME Inv, BlocksRight, [Next]_vars, UNCHANGED <<block, req>>
    PROVE  BlocksRight'
<1>1. now \in Nat /\ now' \in Nat /\ now <= now'
  BY TimeGoesOn
<1>2. \A s \in InFlight : req[s].checked \in Nat
  BY RunningIsSent, SentTimes DEF Inv
<1>3. InFlight' = InFlight /\ \A s \in Req : CounterOf(s)' = CounterOf(s)
  BY CounterStays DEF InFlight
<1>4. CheckedBefore'
  BY <1>1, <1>2, <1>3 DEF BlocksRight, CheckedBefore
<1>5. NoneFound'
  BY <1>3 DEF BlocksRight, NoneFound, InFlight
<1>6. ToldStands'
  BY <1>3 DEF BlocksRight, ToldStands
<1> QED BY <1>4, <1>5, <1>6 DEF BlocksRight, BlocksOutlive

LEMMA ArriveKeepsBlocks ==
    ASSUME Inv, BlocksRight, NEW r \in Req, NEW e \in Endpoint, Arrive(r, e), InFlight = {}
    PROVE  BlocksRight'
<1>1. /\ \A s \in Req \ {r} : req'[s] = req[s]
      /\ req'[r].phase = "checking" /\ req'[r].checked = 0
      /\ UNCHANGED <<now, hits, block>>
  BY ArriveShape
<1>2. \A s \in InFlight' : s = r
  BY <1>1 DEF InFlight
<1>3. now \in Nat
  BY TimeFacts DEF Inv
<1>4. CheckedBefore'
  BY <1>1, <1>2, <1>3 DEF CheckedBefore
<1>5. NoneFound'
  BY <1>1, <1>2 DEF NoneFound
<1>6. ToldStands'
  <2>1. SUFFICES ASSUME NEW s \in Req, req'[s].phase = "rejected"
        PROVE  req'[s].until <= block'[CounterOf(s)'].until
    BY DEF ToldStands
  <2>2. req'[s] = req[s]
    BY <1>1, <2>1
  <2> QED BY <1>1, <2>1, <2>2, CounterStays DEF BlocksRight, ToldStands
<1> QED BY <1>1, <1>4, <1>5, <1>6 DEF BlocksRight, BlocksOutlive

\* A block entry that was ignored had ended.
LEMMA IgnoredEnded ==
    ASSUME Inv, BlocksOutlive, NEW c \in Counter,
           ~(Alive(block[c]) /\ block[c].until > now)
    PROVE  block[c].until <= now
<1>1. now \in Nat /\ block[c].until \in Nat /\ block[c].expires \in Nat
  BY TimeFacts, EntryTimes DEF Inv
<1>2. block[c].until <= block[c].expires
  BY DEF BlocksOutlive
<1> QED BY <1>1, <1>2 DEF Alive

LEMMA IncrementKeepsBlocks ==
    ASSUME Inv, BlocksRight, Sequential, NEW r \in Req, Increment(r), InFlight = {r},
           \A s \in Req \ {r} : req'[s] = req[s]
    PROVE  BlocksRight'
<1> DEFINE c == CounterOf(r)
<1>1. /\ Moved(r) /\ now' = now
      /\ \/ Turns(r) \/ Enters(r) \/ Reads(r) \/ Exceeds(r) \/ Passes(r) \/ Blocks(r)
  BY SequentialShape
<1>2. /\ c \in Counter /\ now \in Nat /\ Ttl \in Nat /\ req[r].checked \in Nat
      /\ req[r] # Fresh
  BY RunningIsSent, SameCounter, SentTimes, TimeFacts DEF Inv
<1>3. /\ req[r].checked <= now
      /\ req[r].phase # "checking" => block[c].until <= req[r].checked
  BY DEF BlocksRight, CheckedBefore, NoneFound
<1>4. \A s \in InFlight' : s = r
  BY DEF InFlight
<1>5. \A x \in Counter : {block[x].until, block[x].expires} \subseteq Nat
  BY EntryTimes DEF Inv
<1>6. block' = block \/ (Blocks(r) /\ block' = StoredBlock(r))
  BY <1>1 DEF Turns, Enters, Reads, Exceeds, Passes, Blocks
<1>7. BlocksOutlive'
  <2>1. SUFFICES ASSUME NEW x \in Counter PROVE block'[x].until <= block'[x].expires
    BY DEF BlocksOutlive
  <2>2. block[x].until <= block[x].expires
    BY DEF BlocksRight, BlocksOutlive
  <2>3. CASE block' = StoredBlock(r)
    <3> HIDE DEF c
    <3> QED BY <1>2, <1>3, <2>2, <2>3, StoredBlockFacts
  <2> QED BY <1>6, <2>2, <2>3
<1>8. ToldStands'
  <2>1. SUFFICES ASSUME NEW s \in Req, req'[s].phase = "rejected"
        PROVE  req'[s].until <= block'[CounterOf(s)'].until
    BY DEF ToldStands
  <2>2. CASE s # r
    <3>1. req'[s] = req[s] /\ req[s] # Fresh /\ CounterOf(s)' = CounterOf(s)
      BY <2>1, <2>2, CounterStays DEF Fresh
    <3>2. /\ CounterOf(s) \in Counter /\ req[s].until \in Nat
          /\ req[s].until <= block[CounterOf(s)].until
      BY <2>1, <3>1, SameCounter, SentTimes DEF Inv, BlocksRight, ToldStands
    <3>3. CASE block' = StoredBlock(r) /\ Blocks(r)
      <4>1. block[c].until <= req[r].checked
        BY <1>3, <3>3 DEF Blocks
      <4> HIDE DEF c
      <4>2. CASE CounterOf(s) = CounterOf(r)
        <5>1. block'[c].until = req[r].checked + Ttl
          BY <1>2, <3>3, StoredBlockFacts DEF c
        <5> QED BY <1>2, <1>5, <3>1, <3>2, <4>1, <4>2, <5>1 DEF c
      <4>3. CASE CounterOf(s) # CounterOf(r)
        BY <3>1, <3>2, <3>3, <4>3, StoredBlockFacts
      <4> QED BY <4>2, <4>3
    <3> QED BY <1>6, <3>1, <3>2, <3>3
  <2>3. CASE s = r
    <3>1. Turns(r) \/ Blocks(r)
      BY <1>1, <2>1, <2>3 DEF Enters, Reads, Exceeds, Passes
    <3>2. CounterOf(r)' = CounterOf(r)
      BY <1>1, <2>1, <2>3, CounterStays DEF Moved
    <3>3. block[c].until \in Nat
      BY <1>2, <1>5
    <3>4. CASE Turns(r)
      BY <2>3, <3>2, <3>3, <3>4 DEF Turns
    <3>5. CASE Blocks(r)
      <4>1. block' = StoredBlock(r) /\ req'[r].until = req[r].checked + Ttl
        BY <3>5 DEF Blocks
      <4>2. block'[CounterOf(r)].until = req[r].checked + Ttl
        BY <1>2, <4>1, StoredBlockFacts
      <4> QED BY <1>2, <2>3, <3>2, <4>1, <4>2
    <3> QED BY <3>1, <3>4, <3>5
  <2> QED BY <2>2, <2>3
<1>9. ASSUME r \in InFlight'
      PROVE  /\ req'[r].checked <= now'
             /\ req'[r].phase # "checking" =>
                  block'[CounterOf(r)'].until <= req'[r].checked
  <2>0. req'[r].phase \in Running
    BY <1>9 DEF InFlight
  <2>1. req'[r].phase # "checking" => CounterOf(r)' = CounterOf(r)
    BY <1>1, CounterStays DEF Moved
  <2>2. CASE Enters(r)
    <3>1. block[c].until <= now
      BY <1>2, <2>2, IgnoredEnded DEF Enters, BlocksRight
    <3> QED BY <1>1, <1>2, <2>1, <2>2, <3>1 DEF Enters
  <2>3. CASE Reads(r)
    BY <1>1, <1>3, <2>1, <2>3 DEF Reads
  <2>4. CASE Exceeds(r)
    BY <1>1, <1>3, <2>1, <2>4 DEF Exceeds
  <2>5. CASE Passes(r)
    BY <1>1, <1>3, <2>0, <2>5 DEF Passes, Running
  <2>6. ~Turns(r) /\ ~Blocks(r)
    BY <2>0 DEF Turns, Blocks, Running
  <2> QED BY <1>1, <2>2, <2>3, <2>4, <2>5, <2>6
<1>10. CheckedBefore' /\ NoneFound'
  BY <1>4, <1>9 DEF CheckedBefore, NoneFound
<1> QED BY <1>7, <1>8, <1>10 DEF BlocksRight

\* The request in flight passes a check: it goes on beyond it, or finds no block there.
LEMMA ChecksPassed ==
    ASSUME Inv, BlocksRight, Sequential, NEW s \in Req, Increment(s), NEW i \in Nat,
           req'[s].phase \in Running \cup {"admitted"},
           PassedCheck(req'[s], i), ~PassedCheck(req[s], i)
    PROVE  /\ req[s].i = i /\ s \in InFlight' /\ now' = now
           /\ block[CounterOf(s)].until <= now
<1>1. /\ Moved(s) /\ now' = now /\ s \in InFlight
      /\ \/ Turns(s) \/ Enters(s) \/ Reads(s) \/ Exceeds(s) \/ Passes(s) \/ Blocks(s)
  BY SequentialShape
<1>2. req[s].i \in Nat /\ req'[s].i \in Nat
  BY <1>1, SentFields DEF Moved
<1>3. CASE Enters(s)
  <2>1. req[s].i = i
    <3>1. req'[s].i = req[s].i /\ req'[s].i >= i /\ req[s].i <= i
      BY <1>1, <1>2, <1>3 DEF Enters, PassedCheck, Moved
    <3> QED BY <1>2, <3>1
  <2>2. CounterOf(s) \in Counter
    BY <1>1, RunningIsSent, SameCounter DEF Inv
  <2>3. block[CounterOf(s)].until <= now
    BY <1>3, <2>2, IgnoredEnded DEF Enters, BlocksRight
  <2>4. s \in InFlight'
    BY <1>3 DEF Enters, InFlight, Running
  <2> QED BY <1>1, <2>1, <2>3, <2>4
<1>4. CASE Reads(s) \/ Exceeds(s) \/ Passes(s)
  <2>1. req[s].phase \in {"counting", "writing"}
    BY <1>4 DEF Reads, Exceeds, Passes
  <2>2. req[s].i < i
    BY <1>2, <2>1 DEF PassedCheck
  <2>3. req'[s].i = req[s].i \/ (req'[s].i = req[s].i + 1 /\ req'[s].phase = "checking")
    BY <1>1 DEF Moved
  <2>4. ~PassedCheck(req'[s], i)
    BY <1>2, <2>2, <2>3 DEF PassedCheck
  <2> QED BY <2>4
<1>5. ~Turns(s) /\ ~Blocks(s)
  BY DEF Turns, Blocks, Running
<1> QED BY <1>1, <1>3, <1>4, <1>5

LEMMA WaitedInv ==
    ASSUME Inv, OneAtATime, BlocksRight, Waited, Sequential, [Next]_vars
    PROVE  Waited'
<1>1. SUFFICES ASSUME NEW e \in Endpoint, NEW r \in Was("rejected", e)', NEW s \in ArrivedAt(e)',
                      req'[s].phase \in Running \cup {"admitted"},
                      req'[r].answered < req'[s].arrived,
                      PassedCheck(req'[s], req'[r].i)
      PROVE  req'[r].until <= LastSeen(s)'
  BY DEF Waited
<1>2. /\ r \in Req /\ req'[r].phase = "rejected" /\ req'[r].endpoint = e
      /\ s \in Req /\ req'[s] # Fresh /\ req'[s].endpoint = e
  BY <1>1 DEF Was, ArrivedAt
<1>3. now \in Nat /\ now' \in Nat /\ now <= now'
  BY TimeGoesOn
\* Nothing new about the two.
<1>4. ASSUME req'[r] = req[r], req[s] # Fresh, req[s].endpoint = e,
             req[s].arrived = req'[s].arrived, req[s].phase \in Running \cup {"admitted"},
             PassedCheck(req[s], req[r].i)
      PROVE  req'[r].until <= LastSeen(s)'
  <2>1. req[r] # Fresh /\ r \in Was("rejected", e) /\ s \in ArrivedAt(e)
    BY <1>2, <1>4 DEF Was, ArrivedAt, Fresh
  <2>2. req[r].until <= LastSeen(s)
    BY <1>1, <1>4, <2>1 DEF Waited
  <2>3. req[r].until \in Nat
    BY <1>2, <2>1, SentTimes DEF Inv
  <2> QED BY <1>2, <1>4, <2>2, <2>3, LastSeenGrows
<1>5. CASE UNCHANGED req
  BY <1>1, <1>2, <1>4, <1>5
<1>6. ASSUME NEW q \in Req, NEW a \in Endpoint, Arrive(q, a)
      PROVE  req'[r].until <= LastSeen(s)'
  <2>1. /\ \A u \in Req \ {q} : req'[u] = req[u]
        /\ req'[q].phase = "checking" /\ req'[q].i = 1
    BY <1>6, ArriveShape
  <2>2. req'[r] = req[r] /\ req[r] # Fresh
    BY <1>2, <2>1 DEF Fresh
  <2>3. s # q
    <3>1. req[r].i \in Nat /\ req[r].i >= 1
      BY <1>2, <2>2, SentTimes DEF Inv
    <3> QED BY <1>1, <2>1, <2>2, <3>1 DEF PassedCheck
  <2> QED BY <1>1, <1>2, <1>4, <2>1, <2>2, <2>3
<1>7. ASSUME NEW q \in Req, Increment(q), \A u \in Req \ {q} : req'[u] = req[u]
      PROVE  req'[r].until <= LastSeen(s)'
  <2>1. q \in InFlight /\ Moved(q) /\ now' = now
    BY <1>7, SequentialShape
  <2>2. r # q
    <3>1. SUFFICES ASSUME r = q PROVE FALSE
      OBVIOUS
    <3>2. req'[r].answered = now
      BY <1>2, <1>7, <3>1, IncrementShape DEF Inv, Running
    <3>3. s # q /\ req'[s] = req[s]
      BY <1>1, <1>2, <1>7, <3>1 DEF Running
    <3>4. req[s].arrived \in Nat /\ req[s].arrived <= now
      BY <1>2, <3>3, SentTimes DEF Inv, ArrivedBefore
    <3> QED BY <1>1, <1>3, <3>2, <3>3, <3>4
  <2>3. req'[r] = req[r] /\ req[r] # Fresh
    BY <1>2, <1>7, <2>2 DEF Fresh
  <2>4. CASE s # q \/ PassedCheck(req[s], req[r].i)
    <3>1. /\ req[s] # Fresh /\ req[s].endpoint = e
          /\ req[s].arrived = req'[s].arrived /\ req[s].phase \in Running \cup {"admitted"}
      BY <1>1, <1>2, <1>7, <2>1, RunningIsSent DEF Inv, Moved
    <3>2. PassedCheck(req[s], req[r].i)
      BY <1>1, <1>2, <1>7, <2>3, <2>4
    <3> QED BY <1>4, <2>3, <3>1, <3>2
  <2>5. CASE s = q /\ ~PassedCheck(req[s], req[r].i)
    <3>1. req[r].i \in Nat /\ req[r].until \in Nat /\ req[s] # Fresh
      BY <1>2, <2>1, <2>3, <2>5, SentTimes, RunningIsSent DEF Inv
    <3>2. PassedCheck(req'[s], req[r].i) /\ Increment(s)
      BY <1>1, <1>7, <2>3, <2>5
    <3>3. /\ req[s].i = req[r].i /\ s \in InFlight'
          /\ block[CounterOf(s)].until <= now
      BY <1>1, <2>5, <3>1, <3>2, ChecksPassed
    <3>4. req[s].endpoint = req[r].endpoint
      BY <1>2, <2>1, <2>3, <2>5 DEF Moved
    <3>5. CounterOf(s) = CounterOf(r) /\ CounterOf(r) \in Counter
      BY <1>2, <2>3, <3>1, <3>3, <3>4, SameCounter DEF Inv
    <3>6. req[r].until <= block[CounterOf(r)].until
      BY <1>2, <2>3 DEF BlocksRight, ToldStands
    <3>7. block[CounterOf(r)].until \in Nat
      BY <3>5, EntryTimes DEF Inv
    <3>8. LastSeen(s)' = now
      BY <2>1, <3>3 DEF LastSeen
    <3> QED BY <1>3, <2>3, <3>1, <3>3, <3>5, <3>6, <3>7, <3>8
  <2> QED BY <2>4, <2>5
<1> QED BY <1>5, <1>6, <1>7, SequentialStep

LEMMA BlockNext ==
    ASSUME BlockInv, Sequential, [Next]_vars
    PROVE  BlockInv'
<1>1. Inv' /\ OneAtATime' /\ AdmittedAtLast' /\ Waited' /\ BlocksRight
  BY NextInv, OneAtATimeInv, AdmittedInv, WaitedInv DEF BlockInv, BlocksRight
<1>2. BlocksRight'
  BY <1>1, SequentialStep, RestKeepsBlocks, ArriveKeepsBlocks, IncrementKeepsBlocks
     DEF BlockInv
<1> QED BY <1>1, <1>2 DEF BlockInv, BlocksRight

LEMMA BlockInit == Init => BlockInv
<1> SUFFICES ASSUME Init PROVE BlockInv
  OBVIOUS
<1>1. \A r \in Req : req[r] = Fresh /\ req[r].phase = "idle"
  BY DEF Init, Fresh
<1>2. InFlight = {} /\ \A e \in Endpoint : Was("rejected", e) = {}
  BY <1>1 DEF InFlight, Was, Running
<1>3. BlocksOutlive
  BY DEF Init, NoBlock, BlocksOutlive
<1> QED BY <1>1, <1>2, <1>3, InitInv
     DEF BlockInv, OneAtATime, AdmittedAtLast, CheckedBefore, NoneFound, ToldStands, Waited

\* While requests do not overlap and no call fails, a client that was rejected is not
\* admitted before the moment the answer named.
THEOREM BlockLasts == ASSUME Sequential PROVE Spec => []BlockIsRespected
<1>1. BlockInv /\ [Next]_vars => BlockInv'
  BY BlockNext
<1>2. BlockInv => BlockIsRespected
  <2> SUFFICES ASSUME BlockInv, NEW e \in Endpoint, NEW r \in Was("rejected", e),
                      NEW s \in Was("admitted", e), req[r].answered < req[s].arrived
               PROVE  req[s].answered >= req[r].until
    BY DEF BlockIsRespected
  <2>1. /\ r \in Req /\ req[r] # Fresh /\ req[r].endpoint = e
        /\ s \in ArrivedAt(e) /\ s \in Req /\ req[s] # Fresh /\ req[s].endpoint = e
        /\ req[s].phase = "admitted"
    BY DEF Was, ArrivedAt, Fresh
  <2>2. PassedCheck(req[s], req[r].i)
    <3>1. req[s].i = Len(Applied[e])
      BY <2>1 DEF BlockInv, AdmittedAtLast
    <3>2. PICK l \in 1 .. 4 : l = Len(Applied[e])
      BY AppliedFacts
    <3>3. req[r].i \in 1 .. Len(Applied[e])
      BY <2>1, SentTimes DEF BlockInv, Inv
    <3>4. req[r].i \in Nat /\ (l > req[r].i \/ l = req[r].i)
      BY <3>2, <3>3
    <3> QED BY <2>1, <3>1, <3>2, <3>4 DEF PassedCheck
  <2>3. req[r].until <= LastSeen(s)
    BY <2>1, <2>2 DEF BlockInv, Waited
  <2>4. LastSeen(s) = req[s].answered
    BY <2>1 DEF LastSeen, InFlight, Running
  <2>5. req[r].until \in Nat /\ req[s].answered \in Nat
    BY <2>1, SentTimes DEF BlockInv, Inv
  <2> QED BY <2>3, <2>4, <2>5
<1> QED BY <1>1, <1>2, BlockInit, PTL DEF Spec

-----------------------------------------------------------------------------
(***************************************************************************)
(* No window holds more admitted requests than the last throttler allows.  *)
(***************************************************************************)

\* The last throttler of an endpoint admits: its counter is written in the step that
\* answers, and lives as long as the window that the answer opens.
LastThrottler(e) == Applied[e][Len(Applied[e])]
LastCounter(e) == <<e, LastThrottler(e)>>
LastLimit(e) == Limit[LastThrottler(e)]

\* "strict" has the least limit of the throttlers, 10 in the code, and is the last of them.
StrictIsLeast == \A name \in Name : Limit["strict"] <= Limit[name]

\* The requests admitted less than a window ago, and in the window that holds a moment.
Recent(e) == {s \in Was("admitted", e) : now < req[s].answered + Ttl}
Window(e, t) == {s \in Was("admitted", e) : req[s].answered <= t /\ t < req[s].answered + Ttl}

\* The last counter lives while anybody is recent, and counts them all; a request about to
\* write it counts itself too.
CounterLives ==
    \A e \in Endpoint : \A s \in Was("admitted", e) :
        req[s].answered + Ttl <= hits[LastCounter(e)].expires
RecentCounted == \A e \in Endpoint : Cardinality(Recent(e)) <= hits[LastCounter(e)].n
WriterCounts ==
    \A e \in Endpoint : \A r \in InFlight :
        CounterOf(r) = LastCounter(e) /\ req[r].phase = "writing" =>
            Cardinality(Recent(e)) + 1 <= req[r].n
WithinLast == \A e \in Endpoint, t \in Time : Cardinality(Window(e, t)) <= LastLimit(e)

CountsRight == CounterLives /\ RecentCounted /\ WriterCounts

WindowInv ==
    /\ Inv /\ OneAtATime /\ AdmittedAtLast
    /\ CountsRight
    /\ WithinLast

LEMMA LastFacts ==
    ASSUME NEW e \in Endpoint
    PROVE  LastCounter(e) \in Counter /\ LastLimit(e) \in Nat
<1>1. PICK l \in 1 .. 4 : l = Len(Applied[e])
  BY AppliedFacts
<1>2. l \in 1 .. l
  OBVIOUS
<1>3. Len(Applied[e]) \in 1 .. Len(Applied[e])
  BY <1>1, <1>2
<1> QED BY <1>3, AppliedFacts DEF LastCounter, LastLimit, LastThrottler

LEMMA LastBinds ==
    ASSUME StrictIsLeast, NEW e \in Endpoint
    PROVE  LastLimit(e) <= BindingLimit[e]
<1> DEFINE L(j) == Limit[Applied[e][j]]
<1>1. Applied[e] = AuthThrottle \/ Applied[e] = Throttlers
  BY DEF Applied
<1>2. PICK l \in 1 .. 4 : l = Len(Applied[e])
  BY AppliedFacts
<1>3. \A j \in 1 .. l : LastLimit(e) <= L(j)
  <2>1. CASE Applied[e] = AuthThrottle
    <3>0. Len(AuthThrottle) = 1
      BY DEF AuthThrottle
    <3>1. l = 1 /\ LastLimit(e) = L(1) /\ L(1) \in Nat
      <4>1. l = 1
        BY <1>2, <2>1, <3>0
      <4>2. LastLimit(e) = L(1)
        BY <1>2, <4>1 DEF LastLimit, LastThrottler
      <4>3. LastLimit(e) \in Nat
        BY LastFacts
      <4> HIDE DEF L
      <4> QED BY <4>1, <4>2, <4>3
    <3>2. \A j \in 1 .. 1 : j = 1
      OBVIOUS
    <3> HIDE DEF L
    <3> QED BY <3>1, <3>2
  <2>2. CASE Applied[e] = Throttlers
    <3>1. Len(Throttlers) = 4 /\ Throttlers[4] = "strict"
      BY DEF Throttlers
    <3>2. LastLimit(e) = Limit["strict"]
      BY <2>2, <3>1 DEF LastLimit, LastThrottler
    <3>3. \A j \in 1 .. l : Applied[e][j] \in Name
      BY <1>2, AppliedFacts
    <3> QED BY <3>2, <3>3 DEF StrictIsLeast
  <2> QED BY <1>1, <2>1, <2>2
<1>4. \E j \in 1 .. l : \A k \in 1 .. l : L(j) <= L(k)
  <2>1. l \in 1 .. l
    OBVIOUS
  <2>2. L(l) = LastLimit(e)
    BY <1>2 DEF LastLimit, LastThrottler
  <2> HIDE DEF L
  <2> QED BY <1>3, <2>1, <2>2
<1>5. BindingLimit[e] \in {L(j) : j \in 1 .. l}
  <2> DEFINE S == {L(j) : j \in 1 .. l}
  <2>1. BindingLimit[e] = Min(S)
    BY <1>2 DEF BindingLimit
  <2>2. \E x \in S : \A y \in S : x <= y
    <3> HIDE DEF L
    <3> QED BY <1>4
  <2> QED BY <2>1, <2>2 DEF Min
<1> HIDE DEF L
<1> QED BY <1>3, <1>5

LEMMA RecentFacts ==
    ASSUME NEW e \in Endpoint
    PROVE  /\ Recent(e) \in SUBSET Req /\ Recent(e)' \in SUBSET Req
           /\ Cardinality(Recent(e)) \in Nat /\ Cardinality(Recent(e)') \in Nat
<1>1. Recent(e) \in SUBSET Req /\ Recent(e)' \in SUBSET Req
  BY DEF Recent, Was
<1> QED BY <1>1, FiniteReq

\* Nobody is newly admitted: the windows stand.
LEMMA AdmittedStand ==
    ASSUME \A s \in Req : req[s].phase = "admitted" \/ req'[s].phase = "admitted" =>
             req'[s] = req[s],
           NEW e \in Endpoint
    PROVE  /\ Was("admitted", e)' = Was("admitted", e)
           /\ \A s \in Was("admitted", e) : req'[s] = req[s]
           /\ now' = now => Recent(e)' = Recent(e)
           /\ \A t \in Time : Window(e, t)' = Window(e, t)
<1>1. Was("admitted", e)' = Was("admitted", e)
  BY DEF Was
<1>2. \A s \in Was("admitted", e) : req'[s] = req[s]
  BY DEF Was
<1> QED BY <1>1, <1>2 DEF Recent, Window

LEMMA WithinLastStands ==
    ASSUME WithinLast,
           \A s \in Req : req[s].phase = "admitted" \/ req'[s].phase = "admitted" =>
             req'[s] = req[s]
    PROVE  WithinLast'
<1>1. SUFFICES ASSUME NEW e \in Endpoint, NEW t \in Time
      PROVE  Cardinality(Window(e, t)') <= LastLimit(e)
  BY DEF WithinLast, LastLimit, LastThrottler
<1>2. Window(e, t)' = Window(e, t)
  BY AdmittedStand
<1> QED BY <1>2 DEF WithinLast

\* Time passes and requests arrive.
LEMMA RestKeepsCounts ==
    ASSUME Inv, CountsRight, [Next]_vars, UNCHANGED hits,
           \A s \in Req : req[s].phase = "admitted" \/ req'[s].phase = "admitted" =>
             req'[s] = req[s],
           \A s \in InFlight' : req'[s].phase = "writing" => s \in InFlight /\ req'[s] = req[s]
    PROVE  CountsRight'
<1>1. now \in Nat /\ now' \in Nat /\ now <= now' /\ Ttl \in Nat
  BY TimeGoesOn, Bounds
<1>2. ASSUME NEW e \in Endpoint
      PROVE  /\ Was("admitted", e)' = Was("admitted", e)
             /\ \A s \in Was("admitted", e) : req'[s] = req[s] /\ req[s].answered \in Nat
             /\ LastCounter(e)' = LastCounter(e)
             /\ Cardinality(Recent(e)') <= Cardinality(Recent(e))
             /\ Cardinality(Recent(e)') \in Nat /\ Cardinality(Recent(e)) \in Nat
  <2>1. /\ Was("admitted", e)' = Was("admitted", e)
        /\ \A s \in Was("admitted", e) : req'[s] = req[s]
    BY AdmittedStand
  <2>2. \A s \in Was("admitted", e) : req[s].answered \in Nat
    BY SentTimes DEF Inv, Was, Fresh
  <2>3. Recent(e)' \subseteq Recent(e)
    BY <1>1, <2>1, <2>2 DEF Recent
  <2> QED BY <2>1, <2>2, <2>3, RecentFacts, MoreIsMore
<1>3. CounterLives'
  BY <1>2 DEF CountsRight, CounterLives
<1>4. RecentCounted'
  <2>1. SUFFICES ASSUME NEW e \in Endpoint
        PROVE  Cardinality(Recent(e)') <= hits'[LastCounter(e)].n
    BY <1>2 DEF RecentCounted
  <2>2. Cardinality(Recent(e)) <= hits[LastCounter(e)].n /\ hits[LastCounter(e)].n \in Nat
    BY LastFacts, EntryTimes DEF Inv, CountsRight, RecentCounted
  <2> QED BY <1>2, <2>2
<1>5. WriterCounts'
  <2>1. SUFFICES ASSUME NEW e \in Endpoint, NEW r \in InFlight',
                        CounterOf(r)' = LastCounter(e), req'[r].phase = "writing"
        PROVE  Cardinality(Recent(e)') + 1 <= req'[r].n
    BY <1>2 DEF WriterCounts
  <2>2. r \in InFlight /\ req'[r] = req[r]
    BY <2>1
  <2>3. r \in Req /\ CounterOf(r)' = CounterOf(r) /\ req[r].n \in Nat
    BY <2>2, RunningIsSent, SentTimes, CounterStays DEF Inv
  <2>4. Cardinality(Recent(e)) + 1 <= req[r].n
    BY <2>1, <2>2, <2>3 DEF CountsRight, WriterCounts
  <2> QED BY <1>2, <2>2, <2>3, <2>4
<1> QED BY <1>3, <1>4, <1>5 DEF CountsRight

\* What the write of a counter leaves in the last counter of an endpoint.
LEMMA StoredHitsFacts ==
    ASSUME Inv, NEW r \in InFlight, NEW c \in Counter, hits' = StoredHits(r)
    PROVE  /\ c # CounterOf(r) => hits'[c] = hits[c]
           /\ c = CounterOf(r) => hits'[c].n = req[r].n /\ hits'[c].expires = now + Ttl
BY DEF StoredHits, Inv, TypeOK

\* Nobody is recent once the counter has expired.
LEMMA ExpiredMeansNobody ==
    ASSUME Inv, CounterLives, NEW e \in Endpoint, ~Alive(hits[LastCounter(e)])
    PROVE  Cardinality(Recent(e)) = 0
<1>1. now \in Nat /\ Ttl \in Nat /\ hits[LastCounter(e)].expires \in Nat
  BY LastFacts, EntryTimes, TimeFacts DEF Inv
<1>2. \A s \in Was("admitted", e) :
        req[s].answered \in Nat /\ req[s].answered + Ttl <= hits[LastCounter(e)].expires
  BY SentTimes DEF Inv, CounterLives, Was, Fresh
<1>3. Recent(e) = {}
  BY <1>1, <1>2 DEF Alive, Recent
<1> QED BY <1>3, FS_EmptySet

\* The request in flight moves and is not admitted.
LEMMA MoveKeepsCounts ==
    ASSUME Inv, AdmittedAtLast, CountsRight, Sequential, NEW r \in Req, Increment(r),
           InFlight = {r}, \A s \in Req \ {r} : req'[s] = req[s],
           req'[r].phase # "admitted"
    PROVE  CountsRight'
<1>1. /\ r \in InFlight /\ req[r].phase \in Running /\ Moved(r) /\ now' = now
      /\ \/ Turns(r) \/ Enters(r) \/ Reads(r) \/ Exceeds(r) \/ Passes(r) \/ Blocks(r)
  BY SequentialShape, RunningIsSent DEF Inv
<1>2. \A s \in Req : req[s].phase = "admitted" \/ req'[s].phase = "admitted" =>
        req'[s] = req[s]
  BY <1>1 DEF Running
<1>3. now \in Nat /\ Ttl \in Nat /\ req[r].n \in Nat
  BY <1>1, TimeFacts, SentTimes, RunningIsSent DEF Inv
<1>4. UNCHANGED hits \/ (hits' = StoredHits(r) /\ req[r].phase = "writing")
  BY <1>1 DEF Turns, Enters, Reads, Exceeds, Passes, Blocks
<1>5. ASSUME NEW e \in Endpoint
      PROVE  /\ Was("admitted", e)' = Was("admitted", e)
             /\ \A s \in Was("admitted", e) :
                  /\ req'[s] = req[s] /\ req[s].answered \in Nat
                  /\ req[s].answered <= now
             /\ Recent(e)' = Recent(e) /\ Cardinality(Recent(e)) \in Nat
             /\ LastCounter(e) \in Counter /\ LastCounter(e)' = LastCounter(e)
             /\ {hits[LastCounter(e)].n, hits[LastCounter(e)].expires} \subseteq Nat
  <2>1. /\ Was("admitted", e)' = Was("admitted", e) /\ Recent(e)' = Recent(e)
        /\ \A s \in Was("admitted", e) : req'[s] = req[s]
    BY <1>1, <1>2, AdmittedStand
  <2>2. \A s \in Was("admitted", e) : req[s].answered \in Nat /\ req[s].answered <= now
    BY SentTimes DEF Inv, AdmittedAtLast, Was, Fresh
  <2> QED BY <2>1, <2>2, LastFacts, RecentFacts, EntryTimes DEF Inv
<1>6. CounterLives'
  <2>1. SUFFICES ASSUME NEW e \in Endpoint, NEW s \in Was("admitted", e)
        PROVE  req[s].answered + Ttl <= hits'[LastCounter(e)].expires
    BY <1>5 DEF CounterLives
  <2>2. req[s].answered + Ttl <= hits[LastCounter(e)].expires
    BY DEF CountsRight, CounterLives
  <2>3. hits'[LastCounter(e)] = hits[LastCounter(e)]
          \/ hits'[LastCounter(e)].expires = now + Ttl
    BY <1>1, <1>4, <1>5, StoredHitsFacts
  <2> QED BY <1>3, <1>5, <2>2, <2>3
<1>7. RecentCounted'
  <2>1. SUFFICES ASSUME NEW e \in Endpoint
        PROVE  Cardinality(Recent(e)) <= hits'[LastCounter(e)].n
    BY <1>5 DEF RecentCounted
  <2>2. Cardinality(Recent(e)) <= hits[LastCounter(e)].n
    BY DEF CountsRight, RecentCounted
  <2>3. CASE hits'[LastCounter(e)] = hits[LastCounter(e)]
    BY <2>2, <2>3
  <2>4. CASE hits'[LastCounter(e)] # hits[LastCounter(e)]
    <3>1. /\ req[r].phase = "writing" /\ CounterOf(r) = LastCounter(e)
          /\ hits'[LastCounter(e)].n = req[r].n
      BY <1>1, <1>4, <1>5, <2>4, StoredHitsFacts
    <3>2. Cardinality(Recent(e)) + 1 <= req[r].n
      BY <1>1, <3>1 DEF CountsRight, WriterCounts
    <3> QED BY <1>3, <1>5, <3>1, <3>2
  <2> QED BY <2>3, <2>4
<1>8. WriterCounts'
  <2>1. SUFFICES ASSUME NEW e \in Endpoint, NEW s \in InFlight',
                        CounterOf(s)' = LastCounter(e), req'[s].phase = "writing"
        PROVE  Cardinality(Recent(e)) + 1 <= req'[s].n
    BY <1>5 DEF WriterCounts
  <2>2. s = r
    BY <2>1 DEF InFlight
  <2>3. Reads(r)
    BY <1>1, <2>1, <2>2 DEF Turns, Enters, Exceeds, Passes, Blocks
  <2>4. CounterOf(r) = LastCounter(e)
    BY <1>1, <2>1, <2>2, CounterStays DEF Moved
  <2>5. req'[r].n = IF Alive(hits[LastCounter(e)]) THEN hits[LastCounter(e)].n + 1 ELSE 1
    BY <2>3, <2>4 DEF Reads
  <2>6. CASE Alive(hits[LastCounter(e)])
    <3>1. Cardinality(Recent(e)) <= hits[LastCounter(e)].n
      BY DEF CountsRight, RecentCounted
    <3> QED BY <1>5, <2>2, <2>5, <2>6, <3>1
  <2>7. CASE ~Alive(hits[LastCounter(e)])
    <3>1. Cardinality(Recent(e)) = 0
      BY <2>7, ExpiredMeansNobody DEF CountsRight
    <3> QED BY <2>2, <2>5, <2>7, <3>1
  <2> QED BY <2>6, <2>7
<1> QED BY <1>6, <1>7, <1>8 DEF CountsRight

\* The request in flight is admitted.
LEMMA AdmissionShape ==
    ASSUME Inv, CountsRight, Sequential, NEW r \in Req, Increment(r), InFlight = {r},
           \A s \in Req \ {r} : req'[s] = req[s],
           req'[r].phase = "admitted"
    PROVE  LET e == req[r].endpoint IN
           /\ e \in Endpoint /\ now' = now /\ hits' = StoredHits(r)
           /\ CounterOf(r) = LastCounter(e)
           /\ req'[r].endpoint = e /\ req'[r].answered = now
           /\ Cardinality(Recent(e)) + 1 <= req[r].n
           /\ req[r].n \in Nat /\ req[r].n <= LastLimit(e)
<1> DEFINE e == req[r].endpoint
<1>1. /\ r \in InFlight /\ Moved(r) /\ now' = now /\ req[r] # Fresh
      /\ \/ Turns(r) \/ Enters(r) \/ Reads(r) \/ Exceeds(r) \/ Passes(r) \/ Blocks(r)
  BY SequentialShape, RunningIsSent DEF Inv
<1>2. Passes(r)
  BY <1>1 DEF Turns, Enters, Reads, Exceeds, Blocks
<1>3. /\ req[r].phase = "writing" /\ hits' = StoredHits(r)
      /\ ~(req[r].n > Limit[ThrottlerOf(r)])
      /\ req'[r].answered = now /\ req[r].i = Len(Applied[req[r].endpoint])
  BY <1>2 DEF Passes
<1>4. e \in Endpoint /\ req[r].n \in Nat
  BY <1>1, SentTimes DEF Inv
<1>5. CounterOf(r) = LastCounter(e) /\ ThrottlerOf(r) = LastThrottler(e)
  BY <1>3 DEF CounterOf, ThrottlerOf, LastCounter, LastThrottler
<1>6. Cardinality(Recent(e)) + 1 <= req[r].n
  BY <1>1, <1>3, <1>4, <1>5 DEF CountsRight, WriterCounts
<1>7. req[r].n <= LastLimit(e)
  <2>1. LastLimit(e) \in Nat /\ LastLimit(e) = Limit[ThrottlerOf(r)]
    BY <1>4, <1>5, LastFacts DEF LastLimit
  <2> QED BY <1>3, <1>4, <2>1
<1> QED BY <1>1, <1>3, <1>4, <1>5, <1>6, <1>7 DEF Moved

LEMMA AdmissionKeepsCounts ==
    ASSUME Inv, AdmittedAtLast, CountsRight, WithinLast, Sequential, NEW r \in Req,
           Increment(r), InFlight = {r}, \A s \in Req \ {r} : req'[s] = req[s],
           req'[r].phase = "admitted"
    PROVE  CountsRight' /\ WithinLast'
<1>1. PICK a \in Endpoint :
      /\ a = req[r].endpoint /\ now' = now /\ hits' = StoredHits(r)
      /\ CounterOf(r) = LastCounter(a)
      /\ req'[r].endpoint = a /\ req'[r].answered = now
      /\ Cardinality(Recent(a)) + 1 <= req[r].n
      /\ req[r].n \in Nat /\ req[r].n <= LastLimit(a) /\ r \in InFlight
  BY AdmissionShape
<1>2. req[r].phase \in Running /\ req[r].phase # "admitted"
  BY <1>1, RunningIsSent DEF Inv, Running
<1>3. now \in Nat /\ Ttl \in Nat \ {0} /\ hits'[LastCounter(a)].n = req[r].n
      /\ hits'[LastCounter(a)].expires = now + Ttl
  BY <1>1, TimeFacts, LastFacts, StoredHitsFacts DEF Inv
<1>4. ASSUME NEW e \in Endpoint, e # a
      PROVE  /\ Was("admitted", e)' = Was("admitted", e) /\ Recent(e)' = Recent(e)
             /\ \A s \in Was("admitted", e) : req'[s] = req[s]
             /\ \A t \in Time : Window(e, t)' = Window(e, t)
             /\ hits'[LastCounter(e)] = hits[LastCounter(e)]
  <2>1. Was("admitted", e)' = Was("admitted", e)
    BY <1>1, <1>2, <1>4 DEF Was
  <2>2. \A s \in Was("admitted", e) : req'[s] = req[s]
    BY <1>2 DEF Was
  <2>3. LastCounter(e) # LastCounter(a)
    BY <1>4 DEF LastCounter
  <2>4. hits'[LastCounter(e)] = hits[LastCounter(e)]
    BY <1>1, <2>3, LastFacts, StoredHitsFacts
  <2>5. Recent(e)' = Recent(e) /\ \A t \in Time : Window(e, t)' = Window(e, t)
    BY <1>1, <2>1, <2>2 DEF Recent, Window
  <2> QED BY <2>1, <2>2, <2>4, <2>5
<1>5. Was("admitted", a)' = Was("admitted", a) \cup {r}
  BY <1>1, <1>2 DEF Was
<1>6. \A s \in Was("admitted", a) :
        /\ req'[s] = req[s] /\ s \in Req
        /\ req[s].answered \in Nat /\ req[s].answered <= now
  BY <1>2, SentTimes DEF Inv, AdmittedAtLast, Was, Fresh
<1>7. Cardinality(Recent(a)') <= req[r].n
  <2>1. Recent(a)' = Recent(a) \cup {r} /\ r \notin Recent(a)
    BY <1>1, <1>2, <1>3, <1>5, <1>6 DEF Recent, Was
  <2>2. Cardinality(Recent(a) \cup {r}) = Cardinality(Recent(a)) + 1
    BY <1>1, <2>1, RecentFacts, FiniteReq, FS_AddElement
  <2> QED BY <1>1, <2>1, <2>2
<1>8. CounterLives'
  <2>1. SUFFICES ASSUME NEW e \in Endpoint, NEW s \in Was("admitted", e)'
        PROVE  req'[s].answered + Ttl <= hits'[LastCounter(e)].expires
    BY DEF CounterLives, LastCounter, LastThrottler
  <2>2. CASE e # a
    BY <1>4, <2>1, <2>2 DEF CountsRight, CounterLives
  <2>3. CASE e = a
    BY <1>1, <1>3, <1>5, <1>6, <2>1, <2>3
  <2> QED BY <2>2, <2>3
<1>9. RecentCounted'
  <2>1. SUFFICES ASSUME NEW e \in Endpoint
        PROVE  Cardinality(Recent(e)') <= hits'[LastCounter(e)].n
    BY DEF RecentCounted, LastCounter, LastThrottler
  <2>2. CASE e # a
    BY <1>4, <2>2 DEF CountsRight, RecentCounted
  <2>3. CASE e = a
    BY <1>3, <1>7, <2>3
  <2> QED BY <2>2, <2>3
<1>10. WriterCounts'
  <2>1. InFlight' = {}
    BY DEF InFlight, Running
  <2> QED BY <2>1 DEF WriterCounts
<1>11. WithinLast'
  <2>1. SUFFICES ASSUME NEW e \in Endpoint, NEW t \in Time
        PROVE  Cardinality(Window(e, t)') <= LastLimit(e)
    BY DEF WithinLast, LastLimit, LastThrottler
  <2>2. Cardinality(Window(e, t)) <= LastLimit(e)
    BY DEF WithinLast
  <2>3. CASE e # a
    BY <1>4, <2>2, <2>3
  <2>4. CASE e = a /\ t < now
    <3>1. t \in Nat
      BY Bounds DEF Time
    <3>2. Window(a, t)' = Window(a, t)
      BY <1>1, <1>3, <1>5, <1>6, <2>4, <3>1 DEF Window
    <3> QED BY <2>2, <2>4, <3>2
  <2>5. CASE e = a /\ ~(t < now)
    <3>1. t \in Nat
      BY Bounds DEF Time
    <3>2. Window(a, t)' \subseteq Recent(a)'
      BY <1>1, <1>3, <1>5, <1>6, <2>5, <3>1 DEF Window, Recent
    <3>3. Window(a, t)' \in SUBSET Req /\ Recent(a)' \in SUBSET Req
      BY <1>1, <3>2, RecentFacts
    <3>4. Cardinality(Window(a, t)') <= Cardinality(Recent(a)')
          /\ Cardinality(Window(a, t)') \in Nat /\ Cardinality(Recent(a)') \in Nat
      BY <3>2, <3>3, MoreIsMore, FiniteReq
    <3>5. LastLimit(a) \in Nat
      BY <1>1, LastFacts
    <3> QED BY <1>1, <1>7, <2>5, <3>4, <3>5
  <2> QED BY <2>3, <2>4, <2>5
<1> QED BY <1>8, <1>9, <1>10, <1>11 DEF CountsRight

LEMMA WindowNext ==
    ASSUME WindowInv, Sequential, [Next]_vars
    PROVE  WindowInv'
<1>1. Inv' /\ OneAtATime' /\ AdmittedAtLast'
  BY NextInv, OneAtATimeInv, AdmittedInv DEF WindowInv
<1>2. CASE UNCHANGED <<hits, block, req>>
  <2>1. \A s \in InFlight' : s \in InFlight /\ req'[s] = req[s]
    BY <1>2 DEF InFlight
  <2> QED BY <1>1, <1>2, <2>1, RestKeepsCounts, WithinLastStands DEF WindowInv
<1>3. ASSUME NEW r \in Req, NEW e \in Endpoint, Arrive(r, e), InFlight = {}
      PROVE  WindowInv'
  <2>1. /\ req[r] = Fresh /\ \A s \in Req \ {r} : req'[s] = req[s]
        /\ req'[r].phase = "checking" /\ UNCHANGED hits
    BY <1>3, ArriveShape DEF WindowInv
  <2>2. \A s \in Req : req[s].phase = "admitted" \/ req'[s].phase = "admitted" =>
          req'[s] = req[s]
    BY <2>1 DEF Fresh
  <2>3. \A s \in InFlight' : req'[s].phase # "writing"
    BY <1>3, <2>1 DEF InFlight
  <2> QED BY <1>1, <2>1, <2>2, <2>3, RestKeepsCounts, WithinLastStands DEF WindowInv
<1>4. ASSUME NEW r \in Req, Increment(r), InFlight = {r},
             \A s \in Req \ {r} : req'[s] = req[s]
      PROVE  WindowInv'
  <2>1. CASE req'[r].phase = "admitted"
    BY <1>1, <1>4, <2>1, AdmissionKeepsCounts DEF WindowInv
  <2>2. CASE req'[r].phase # "admitted"
    <3>1. req[r].phase # "admitted"
      BY <1>4, RunningIsSent DEF WindowInv, Inv, Running
    <3>2. \A s \in Req : req[s].phase = "admitted" \/ req'[s].phase = "admitted" =>
            req'[s] = req[s]
      BY <1>4, <2>2, <3>1
    <3> QED BY <1>1, <1>4, <2>2, <3>2, MoveKeepsCounts, WithinLastStands DEF WindowInv
  <2> QED BY <2>1, <2>2
<1> QED BY <1>2, <1>3, <1>4, SequentialStep DEF WindowInv

LEMMA WindowInit == Init => WindowInv
<1> SUFFICES ASSUME Init PROVE WindowInv
  OBVIOUS
<1>1. \A r \in Req : req[r] = Fresh /\ req[r].phase = "idle"
  BY DEF Init, Fresh
<1>2. InFlight = {} /\ \A e \in Endpoint : Was("admitted", e) = {}
  BY <1>1 DEF InFlight, Was, Running
<1>3. \A e \in Endpoint :
        Cardinality(Recent(e)) = 0 /\ \A t \in Time : Cardinality(Window(e, t)) = 0
  BY <1>2, FS_EmptySet DEF Recent, Window
<1>4. RecentCounted
  BY <1>3, LastFacts DEF Init, NoHits, RecentCounted
<1>5. WithinLast
  BY <1>3, LastFacts DEF WithinLast
<1> QED BY <1>1, <1>2, <1>4, <1>5, InitInv
     DEF WindowInv, OneAtATime, AdmittedAtLast, CountsRight, CounterLives, WriterCounts

\* While requests do not overlap, no call fails and "strict" is the least limit, no
\* window holds more admitted requests than the limit that binds at the endpoint.
THEOREM WindowsHold == ASSUME Sequential, StrictIsLeast PROVE Spec => []AdmittedWithinLimit
<1>1. WindowInv /\ [Next]_vars => WindowInv'
  BY WindowNext
<1>2. WindowInv => AdmittedWithinLimit
  <2> SUFFICES ASSUME WindowInv, NEW e \in Endpoint, NEW t \in Time
               PROVE  Cardinality(Window(e, t)) <= BindingLimit[e]
    BY DEF Window, AdmittedWithinLimit
  <2>1. Cardinality(Window(e, t)) <= LastLimit(e)
    BY DEF WindowInv, WithinLast
  <2>2. LastLimit(e) <= BindingLimit[e] /\ LastLimit(e) \in Nat /\ BindingLimit[e] \in Nat
    BY LastBinds, LastFacts, BindingType
  <2>3. Cardinality(Window(e, t)) \in Nat
    BY FiniteReq DEF Window, Was
  <2> QED BY <2>1, <2>2, <2>3
<1> QED BY <1>1, <1>2, WindowInit, PTL DEF Spec
=============================================================================
