---------------------------- MODULE RateLimiter ----------------------------
(***************************************************************************)
(* The global ThrottlerGuard and RedisThrottlerStorageService.increment,   *)
(* for the requests of one client address.  A request passes the           *)
(* throttlers its endpoint does not skip, one after the other; each        *)
(* increment is a check of the block entry, a read and a write of the hit  *)
(* counter and, above the limit, a write of the block entry, with an await *)
(* between any two of them.  Every endpoint has counters of its own.       *)
(*                                                                         *)
(* The guard (@nestjs/throttler) and the cache are modelled from how src/  *)
(* uses them.  Time is counted in ticks.                                   *)
(***************************************************************************)
EXTENDS Naturals, Sequences, FiniteSetsExt

CONSTANTS
    Req,            \* the requests of the client
    Endpoint,       \* the endpoints it uses
    Limit,          \* configured limit of every throttler
    Ttl,            \* length of the window and of a block, 60 seconds in the code
    MaxInFlight,    \* bound on the requests that overlap
    MaxClock,       \* bound on time
    MaxFaults       \* bound on failing cache calls and restarts

\* The throttlers, in the order the guard runs them.
Throttlers == <<"default", "auth", "transactions", "strict">>
Name == {Throttlers[i] : i \in 1 .. 4}

ASSUME LimiterAssumption ==
    /\ IsFiniteSet(Req)
    /\ Endpoint \subseteq {"auth", "transactions", "undecorated"}
    /\ Limit \in [Name -> Nat \ {0}]
    /\ {Ttl, MaxInFlight, MaxClock} \subseteq Nat \ {0}
    /\ MaxFaults \in Nat

VARIABLES
    now,
    hits,       \* hit counters in the cache
    block,      \* block entries in the cache
    req,        \* the requests, with the times they arrived and were answered
    faults      \* failing cache calls and restarts so far

vars == <<now, hits, block, req, faults>>

\* @AuthThrottle is SkipThrottle of the other three.
AuthThrottle == <<"auth">>

\* The auth controller puts it on register, login and refresh, the transactions controller on
\* both of its endpoints (transactions.controller.ts:38, 57); the root and the logout
\* endpoint carry no decorator.
Applied ==
    [e \in Endpoint |-> IF e \in {"auth", "transactions"} THEN AuthThrottle ELSE Throttlers]

Time == 0 .. MaxClock
Counter == Endpoint \X Name
NoHits == [c \in Counter |-> [n |-> 0, expires |-> 0]]
NoBlock == [c \in Counter |-> [until |-> 0, expires |-> 0]]
Fresh == [phase |-> "idle"]
Running == {"checking", "counting", "writing", "blocking"}
Sent == [phase : Running \cup {"admitted", "rejected", "lost"}, endpoint : Endpoint,
         i : 1 .. 4, checked : Time, n : Nat, arrived : Time, answered : Time, until : Nat]

TypeOK ==
    /\ now \in Time
    /\ hits \in [Counter -> [n : Nat, expires : Nat]]
    /\ block \in [Counter -> [until : Nat, expires : Nat]]
    /\ req \in [Req -> {Fresh} \cup Sent]
    /\ \A r \in Req : req[r] # Fresh => req[r].i <= Len(Applied[req[r].endpoint])
    /\ faults \in 0 .. MaxFaults

Init ==
    /\ now = 0
    /\ hits = NoHits
    /\ block = NoBlock
    /\ req = [r \in Req |-> Fresh]
    /\ faults = 0

\* An entry is gone once its time to live has passed.
Alive(entry) == now < entry.expires

InFlight == {r \in Req : req[r].phase \in Running}

ThrottlerOf(r) == Applied[req[r].endpoint][req[r].i]
CounterOf(r) == <<req[r].endpoint, ThrottlerOf(r)>>

\* Mutant: the guard runs one throttler too many.
PassedTooFar(r) ==
    IF req[r].i <= Len(Applied[req[r].endpoint])
    THEN [req[r] EXCEPT !.phase = "checking", !.i = @ + 1]
    ELSE [req[r] EXCEPT !.phase = "admitted", !.answered = now]

\* The throttler lets the request through: on to the next one, or to the controller.
Passed(r) ==
    IF req[r].i < Len(Applied[req[r].endpoint])
    THEN [req[r] EXCEPT !.phase = "checking", !.i = @ + 1]
    ELSE [req[r] EXCEPT !.phase = "admitted", !.answered = now]

\* Mutant: the answer adds the block's duration a second time.
RejectedTwiceAsLong(r, until) ==
    [req[r] EXCEPT !.phase = "rejected", !.answered = now, !.until = until + Ttl]

\* The guard throws 429.
Rejected(r, until) ==
    [req[r] EXCEPT !.phase = "rejected", !.answered = now, !.until = until]

-----------------------------------------------------------------------------
\* A request arrives.  Requests differ only in when they come: the next one is a fixed
\* choice among those that have not.
Arrive(r, e) ==
    /\ req[r] = Fresh
    /\ r = CHOOSE s \in Req : req[s] = Fresh
    /\ Cardinality(InFlight) < MaxInFlight
    /\ req' = [req EXCEPT ![r] =
                 [phase |-> "checking", endpoint |-> e, i |-> 1, checked |-> 0, n |-> 0,
                  arrived |-> now, answered |-> 0, until |-> 0]]
    /\ UNCHANGED <<now, hits, block, faults>>

\* get(blockKey), and the time taken after it.
CheckBlock(r) ==
    LET entry == block[CounterOf(r)] IN
    /\ req[r].phase = "checking"
    /\ req' = [req EXCEPT ![r] =
                 IF Alive(entry) /\ entry.until > now
                 THEN Rejected(r, entry.until)
                 ELSE [@ EXCEPT !.phase = "counting", !.checked = now]]
    /\ UNCHANGED <<now, hits, block, faults>>

\* Mutant: the counter that is read has forgotten its age.
ReadHitsExpired(r) ==
    /\ req[r].phase = "counting"
    /\ req' = [req EXCEPT ![r].phase = "writing", ![r].n = hits[CounterOf(r)].n + 1]
    /\ UNCHANGED <<now, hits, block, faults>>

\* get(fullKey) and hits++.
ReadHits(r) ==
    LET entry == hits[CounterOf(r)] IN
    /\ req[r].phase = "counting"
    /\ req' = [req EXCEPT ![r].phase = "writing",
                          ![r].n = IF Alive(entry) THEN entry.n + 1 ELSE 1]
    /\ UNCHANGED <<now, hits, block, faults>>

StoredHits(r) == [hits EXCEPT ![CounterOf(r)] = [n |-> req[r].n, expires |-> now + Ttl]]

\* Mutant: the limit is compared with the count before the increment.
WriteHitsPostfix(r) ==
    /\ req[r].phase = "writing"
    /\ hits' = StoredHits(r)
    /\ req' = [req EXCEPT ![r] = IF @.n - 1 > Limit[ThrottlerOf(r)]
                                 THEN [@ EXCEPT !.phase = "blocking"] ELSE Passed(r)]
    /\ UNCHANGED <<now, block, faults>>

\* Mutant: >= instead of >.
WriteHitsAtLimit(r) ==
    /\ req[r].phase = "writing"
    /\ hits' = StoredHits(r)
    /\ req' = [req EXCEPT ![r] = IF @.n >= Limit[ThrottlerOf(r)]
                                 THEN [@ EXCEPT !.phase = "blocking"] ELSE Passed(r)]
    /\ UNCHANGED <<now, block, faults>>

\* set(fullKey) starts the counter's time to live anew, and the limit is compared.
WriteHits(r) ==
    /\ req[r].phase = "writing"
    /\ hits' = StoredHits(r)
    /\ req' = [req EXCEPT ![r] = IF @.n > Limit[ThrottlerOf(r)]
                                 THEN [@ EXCEPT !.phase = "blocking"] ELSE Passed(r)]
    /\ UNCHANGED <<now, block, faults>>

\* The block ends Ttl after the time taken before the counter was read; the entry lives
\* for Ttl from now.
StoredBlock(r) ==
    [block EXCEPT ![CounterOf(r)] = [until |-> req[r].checked + Ttl, expires |-> now + Ttl]]

\* set(blockKey).
WriteBlock(r) ==
    /\ req[r].phase = "blocking"
    /\ block' = StoredBlock(r)
    /\ req' = [req EXCEPT ![r] = Rejected(r, req[r].checked + Ttl)]
    /\ UNCHANGED <<now, hits, faults>>

\* A cache call rejects, a write perhaps after it took effect: the catch block lets the
\* request through.
CacheFails(r) ==
    /\ req[r].phase \in Running
    /\ faults < MaxFaults
    /\ faults' = faults + 1
    /\ req' = [req EXCEPT ![r] = Passed(r)]
    /\ \/ UNCHANGED <<hits, block>>
       \/ req[r].phase = "writing" /\ hits' = StoredHits(r) /\ UNCHANGED block
       \/ req[r].phase = "blocking" /\ block' = StoredBlock(r) /\ UNCHANGED hits
    /\ UNCHANGED now

\* The cache answers a failing get as it does an absent entry.
GetMisses(r) ==
    /\ req[r].phase \in {"checking", "counting"}
    /\ faults < MaxFaults
    /\ faults' = faults + 1
    /\ req' = [req EXCEPT ![r] = IF @.phase = "checking"
                                 THEN [@ EXCEPT !.phase = "counting", !.checked = now]
                                 ELSE [@ EXCEPT !.phase = "writing", !.n = 1]]
    /\ UNCHANGED <<now, hits, block>>

\* The process ends and is started again.  Redis keeps the counters; the store in memory,
\* which replaces it when redisStore does not connect, loses them.
Restart ==
    /\ faults < MaxFaults
    /\ faults' = faults + 1
    /\ req' = [r \in Req |-> IF r \in InFlight
                             THEN [req[r] EXCEPT !.phase = "lost", !.answered = now]
                             ELSE req[r]]
    /\ UNCHANGED <<hits, block>> \/ (hits' = NoHits /\ block' = NoBlock)
    /\ UNCHANGED now

Tick ==
    /\ now < MaxClock
    /\ now' = now + 1
    /\ UNCHANGED <<hits, block, req, faults>>

Increment(r) ==
    \/ CheckBlock(r) \/ ReadHits(r) \/ WriteHits(r) \/ WriteBlock(r)
    \/ CacheFails(r) \/ GetMisses(r)

Next ==
    \/ Tick \/ Restart
    \/ \E r \in Req, e \in Endpoint : Arrive(r, e)
    \/ \E r \in Req : Increment(r)

Spec == Init /\ [][Next]_vars

-----------------------------------------------------------------------------
(***************************************************************************)
(* Properties.                                                             *)
(***************************************************************************)

Was(phase, e) == {r \in Req : req[r].phase = phase /\ req[r].endpoint = e}
ArrivedAt(e) == {r \in Req : req[r] # Fresh /\ req[r].endpoint = e}

\* The limit that binds at an endpoint.
BindingLimit ==
    [e \in Endpoint |-> Min({Limit[Applied[e][i]] : i \in 1 .. Len(Applied[e])})]

\* README "Auth endpoints: 20 requests/minute": no window of Ttl ticks holds more admitted
\* requests than the limit.  True while requests do not overlap; overlapping ones read the
\* same count.
AdmittedWithinLimit ==
    \A e \in Endpoint, t \in Time :
        Cardinality({r \in Was("admitted", e) :
                       req[r].answered <= t /\ t < req[r].answered + Ttl}) <= BindingLimit[e]

\* A client that was told when its block ends is not admitted earlier, although the block
\* entry's own time to live starts at another moment than the block.  True while requests
\* do not overlap and no call fails; a slower request can shorten a block.
BlockIsRespected ==
    \A e \in Endpoint : \A r \in Was("rejected", e), s \in Was("admitted", e) :
        req[r].answered < req[s].arrived => req[s].answered >= req[r].until

\* A request that nothing came before or during for more than Ttl ticks is admitted: no
\* counter or block outlives the window, however the requests before it overlapped and
\* whatever calls failed.
Quiet(r) ==
    \A s \in ArrivedAt(req[r].endpoint) \ {r} :
        \/ s \notin InFlight /\ req[s].answered + Ttl < req[r].arrived
        \/ req[s].arrived > req[r].answered

QuietClientAdmitted ==
    \A e \in Endpoint : \A r \in Was("rejected", e) : ~Quiet(r)

\* A client is rejected only if it sent more requests than the limit: overlapping, lost,
\* late and failed calls and restarts never count a request twice.
RejectedAbove(limit) ==
    \A e \in Endpoint : \A r \in Was("rejected", e) :
        Cardinality({s \in ArrivedAt(e) : req[s].arrived <= req[r].answered}) > limit[e]

RejectedOnlyAboveLimit == RejectedAbove(BindingLimit)

\* README "Transaction endpoints: 50 requests/minute" and "Default endpoints: 100
\* requests/minute": nobody is rejected below the limit documented for the endpoint.
Documented == [e \in Endpoint |-> Limit[IF e = "undecorated" THEN "default" ELSE e]]

RejectedOnlyAboveDocumented == RejectedAbove(Documented)
=============================================================================
