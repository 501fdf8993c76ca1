----------------------------- MODULE AuthSession -----------------------------
(***************************************************************************)
(* AuthService over the merchants table: register, login, refreshToken and *)
(* logout of one API process, any number of them in flight.  PostgreSQL,   *)
(* bcrypt and the JWT library are modelled from how src/ uses them.  A     *)
(* step is what a handler does up to the answer of one database statement; *)
(* hashing, signing and comparing read nothing but what was read before.   *)
(* A registration is also the id of the row it inserts, and a login or     *)
(* refresh that of the pair of tokens it signs.                            *)
(***************************************************************************)
EXTENDS Naturals

CONSTANTS
    Registration,   \* POST /auth/register requests, and the ids of their rows
    Request,        \* POST /auth/login, /refresh and /logout requests
    Email,
    Password,
    Null,           \* an absent column, property or row
    MaxFaults       \* bound on database statements that fail

Row == [email : Email, password : Password, refreshToken : Request \cup {Null}]

ASSUME AuthAssumption ==
    /\ MaxFaults \in Nat
    /\ Null \notin Registration \cup Request \cup Row

VARIABLES
    merchants,      \* the merchants table, Null where there is no row
    registration,   \* progress of register, per request
    request,        \* progress of login, refreshToken and logout, per request
    fresh,          \* the signed tokens that have not expired
    faults          \* failed statements so far

vars == <<merchants, registration, request, fresh, faults>>

Token == [type : {"access", "refresh"}, of : Request]
Pair(q) == [type : {"access", "refresh"}, of : {q}]

Unsent == [at |-> "unsent"]
Registering == [at : {"hashing", "201", "409", "500"}, email : Email, password : Password]
Stages == {"verified", "storing", "guarding", "clearing"}
Running == [at : Stages \cup {"200", "401", "500"}, kind : {"login", "refresh", "logout"},
            merchant : Registration \cup {Null}, with : Password \cup Token]

TypeOK ==
    /\ merchants \in [Registration -> Row \cup {Null}]
    /\ registration \in [Registration -> {Unsent} \cup Registering]
    /\ request \in [Request -> {Unsent} \cup Running]
    /\ fresh \subseteq Token
    /\ faults \in 0 .. MaxFaults

Init ==
    /\ merchants = [m \in Registration |-> Null]
    /\ registration = [r \in Registration |-> Unsent]
    /\ request = [q \in Request |-> Unsent]
    /\ fresh = {}
    /\ faults = 0

Merchants == {m \in Registration : merchants[m] # Null}
ByEmail(e) == {m \in Merchants : merchants[m].email = e}

Fault == faults < MaxFaults /\ faults' = faults + 1

-----------------------------------------------------------------------------
(***************************************************************************)
(* POST /auth/register.                                                    *)
(***************************************************************************)

\* emailExists counts the rows; an existing email is a conflict, else the password is hashed.
Register(r) ==
    /\ registration[r] = Unsent
    /\ \E e \in Email, p \in Password :
         registration' = [registration EXCEPT ![r] =
             [at |-> IF ByEmail(e) # {} THEN "409" ELSE "hashing", email |-> e, password |-> p]]
    /\ UNCHANGED <<merchants, request, fresh, faults>>

\* The UNIQUE constraint of the email column.
AcceptsAll(e) == TRUE                   \* mutant: no constraint
Accepts(e) == ByEmail(e) = {}

RegistrationRowOwnToken(r) ==           \* mutant: the column does not default to null
    [email |-> registration[r].email, password |-> registration[r].password,
     refreshToken |-> r]
RegistrationRow(r) ==
    [email |-> registration[r].email, password |-> registration[r].password,
     refreshToken |-> Null]

\* The row is inserted; the constraint rejects the insert with an error no handler maps.
Insert(r) ==
    /\ registration[r].at = "hashing"
    /\ \/ /\ Accepts(registration[r].email)
          /\ merchants' = [merchants EXCEPT ![r] = RegistrationRow(r)]
          /\ registration' = [registration EXCEPT ![r].at = "201"]
       \/ /\ ~Accepts(registration[r].email)
          /\ registration' = [registration EXCEPT ![r].at = "500"]
          /\ UNCHANGED merchants
    /\ UNCHANGED <<request, fresh, faults>>

\* The insert fails, or its answer is lost after it was committed.
InsertFails(r) ==
    /\ registration[r].at = "hashing"
    /\ Fault
    /\ registration' = [registration EXCEPT ![r].at = "500"]
    /\ \/ UNCHANGED merchants
       \/ /\ Accepts(registration[r].email)
          /\ merchants' = [merchants EXCEPT ![r] = RegistrationRow(r)]
    /\ UNCHANGED <<request, fresh>>

\* emailExists fails.
RegisterFails(r) ==
    /\ registration[r] = Unsent
    /\ Fault
    /\ \E e \in Email, p \in Password :
         registration' = [registration EXCEPT ![r] = [at |-> "500", email |-> e, password |-> p]]
    /\ UNCHANGED <<merchants, request, fresh>>

-----------------------------------------------------------------------------
(***************************************************************************)
(* Tokens.                                                                 *)
(***************************************************************************)

\* The requests whose tokens were handed to the client.
Granted == {q \in Request : request[q].at = "200" /\ request[q].kind \in {"login", "refresh"}}
Presentable == {t \in Token : t.of \in Granted}

\* payload.sub of a token signed by request q.
Owner(q) == request[q].merchant

\* bcrypt reads 72 bytes.  Those of a refresh token are the header of the JWT and the
\* beginning of sub; those of an access token begin with the email instead.
Prefix(t) == [type |-> t.type, sub |-> Owner(t.of)]
CompareWhole(t, stored) == t.of = stored   \* mutant: the whole token is hashed
Compare(t, stored) == Prefix(t) = Prefix([type |-> "refresh", of |-> stored])

At(q, stage) == request' = [request EXCEPT ![q].at = stage]
Starts(q, stage, kind, m, with) ==
    request' = [request EXCEPT ![q] =
        [at |-> stage, kind |-> kind, merchant |-> m, with |-> with]]

\* The code of the answer when the database fails: refreshToken turns every error into 401.
Failure(kind) == IF kind = "refresh" THEN "401" ELSE "500"

Expire(t) ==
    /\ t \in fresh
    /\ fresh' = fresh \ {t}
    /\ UNCHANGED <<merchants, registration, request, faults>>

-----------------------------------------------------------------------------
(***************************************************************************)
(* POST /auth/login.                                                       *)
(***************************************************************************)

AnyPassword(p, m) == TRUE               \* mutant: the comparison is not awaited
ValidPassword(p, m) == p = merchants[m].password

\* findByEmail, validatePassword, and a new pair of tokens.
Login(q) ==
    /\ request[q] = Unsent
    /\ \E e \in Email, p \in Password :
         \/ \E m \in ByEmail(e) :
              /\ ValidPassword(p, m)
              /\ Starts(q, "storing", "login", m, p)
              /\ fresh' = fresh \cup Pair(q)
         \/ /\ \A m \in ByEmail(e) : ~ValidPassword(p, m)
            /\ Starts(q, "401", "login", Null, p)
            /\ UNCHANGED fresh
    /\ UNCHANGED <<merchants, registration, faults>>

LoginFails(q) ==
    /\ request[q] = Unsent
    /\ Fault
    /\ \E p \in Password : Starts(q, "500", "login", Null, p)
    /\ UNCHANGED <<merchants, registration, fresh>>

\* updateRefreshToken: an UPDATE by id; TypeORM rejects one without a criterion.
NothingStored(m, value) == merchants    \* mutant: the update is forgotten
Stored(m, value) == [merchants EXCEPT ![m].refreshToken = value]

\* The hash of the new refresh token is stored and the pair is handed out.
Store(q) ==
    /\ request[q].at = "storing"
    /\ merchants' = Stored(request[q].merchant, q)
    /\ At(q, "200")
    /\ UNCHANGED <<registration, fresh, faults>>

\* The update fails, or its answer is lost after it was committed: no token leaves.
StoreFails(q) ==
    /\ request[q].at = "storing"
    /\ Fault
    /\ merchants' \in {merchants, Stored(request[q].merchant, q)}
    /\ At(q, Failure(request[q].kind))
    /\ UNCHANGED <<registration, fresh>>

-----------------------------------------------------------------------------
(***************************************************************************)
(* POST /auth/refresh.                                                     *)
(***************************************************************************)

\* jwtService.verify accepts every token this server signed until it expires.
Verify(q) ==
    /\ request[q] = Unsent
    /\ \E t \in Presentable :
         Starts(q, IF t \in fresh THEN "verified" ELSE "401", "refresh", Owner(t.of), t)
    /\ UNCHANGED <<merchants, registration, fresh, faults>>

\* findById, validatePassword against the stored hash, and a new pair of tokens.
Renew(q) ==
    /\ request[q].at = "verified"
    /\ LET row == merchants[request[q].merchant]
       IN  \/ /\ row.refreshToken # Null
              /\ Compare(request[q].with, row.refreshToken)
              /\ At(q, "storing")
              /\ fresh' = fresh \cup Pair(q)
           \/ /\ row.refreshToken = Null \/ ~Compare(request[q].with, row.refreshToken)
              /\ At(q, "401")
              /\ UNCHANGED fresh
    /\ UNCHANGED <<merchants, registration, faults>>

-----------------------------------------------------------------------------
(***************************************************************************)
(* POST /auth/logout, behind JwtAuthGuard.                                 *)
(***************************************************************************)

\* The strategy checks the signature and the expiry of the bearer token.
Bearer(q) ==
    /\ request[q] = Unsent
    /\ \E t \in Presentable :
         Starts(q, IF t \in fresh THEN "guarding" ELSE "401", "logout", Owner(t.of), t)
    /\ UNCHANGED <<merchants, registration, fresh, faults>>

\* JwtStrategy.validate looks the merchant up and makes req.user.
User(m) == [userId |-> m]

Guard(q) ==
    /\ request[q].at = "guarding"
    /\ At(q, IF merchants[request[q].merchant] # Null THEN "clearing" ELSE "401")
    /\ UNCHANGED <<merchants, registration, fresh, faults>>

\* logout(req.user.sub): the strategy sets no sub, and the update without an id is rejected.
Logout(q) ==
    /\ request[q].at = "clearing"
    /\ LET given == "sub" \in DOMAIN User(request[q].merchant)
       IN  /\ merchants' = IF given THEN Stored(request[q].merchant, Null) ELSE merchants
           /\ At(q, IF given THEN "200" ELSE "500")
    /\ UNCHANGED <<registration, fresh, faults>>

\* A lookup of refreshToken or of the guard fails.
LookupFails(q) ==
    /\ request[q].at \in {"verified", "guarding"}
    /\ Fault
    /\ At(q, Failure(request[q].kind))
    /\ UNCHANGED <<merchants, registration, fresh>>

-----------------------------------------------------------------------------

RegisterNext(r) == Register(r) \/ Insert(r) \/ InsertFails(r) \/ RegisterFails(r)
SessionNext(q) ==
    \/ Login(q) \/ LoginFails(q) \/ Store(q) \/ StoreFails(q)
    \/ Verify(q) \/ Renew(q)
    \/ Bearer(q) \/ Guard(q) \/ Logout(q) \/ LookupFails(q)

Next ==
    \/ \E r \in Registration : RegisterNext(r)
    \/ \E q \in Request : SessionNext(q)
    \/ \E t \in Token : Expire(t)

Spec == Init /\ [][Next]_vars

-----------------------------------------------------------------------------
(***************************************************************************)
(* Properties.                                                             *)
(***************************************************************************)

\* However registrations of an email interleave, one of them gets the merchant: an answer
\* 201 means that the row is there and is the only one with its email, and an answer 409,
\* or 500 while the database works, that another registration has it.
EmailHasOneMerchant ==
    \A r \in Registration :
        LET holders == ByEmail(registration[r].email) IN
        /\ registration[r].at = "201" => holders = {r}
        /\ registration[r].at = "409" \/ (registration[r].at = "500" /\ faults = 0) =>
               \E m \in Registration \ {r} : holders = {m}

Usable(t) ==
    /\ t.type = "refresh" /\ t \in fresh
    /\ LET row == merchants[Owner(t.of)]
       IN  row # Null /\ row.refreshToken # Null /\ Compare(t, row.refreshToken)

\* A refresh token the client was handed can be used until it expires, whatever other
\* logins, refreshes and failed updates of the merchant come between: the one stored hash
\* per merchant never shuts out a session (README "No Token Revocation").
SessionsCoexist ==
    \A q \in Granted :
        LET t == [type |-> "refresh", of |-> q] IN t \in fresh => Usable(t)

\* Every pair of tokens goes back to a login with the password of the merchant it is for.
TokensComeFromLogin ==
    \A q \in Granted : \E l \in Request :
        /\ request[l].at # "unsent"
        /\ request[l].kind = "login"
        /\ Owner(l) = Owner(q)
        /\ request[l].with = merchants[Owner(q)].password

\* A refresh is refused because its token is dead, or because a statement fails in that very
\* step, since every error becomes a 401: never because of an earlier failure or of what
\* other requests of the merchant do in between.
RefusedOnlyForCause ==
    [][\A q \in Request :
          request'[q].at = "401" /\ request[q].at # "401" /\ request'[q].kind = "refresh" =>
              \/ request'[q].with.type = "access"
              \/ request'[q].with \notin fresh
              \/ faults' > faults]_vars

\* The controller documents logout as 'Logout merchant and invalidate refresh token': once
\* it is past the guard and the database works, the merchant has no stored token.
LogoutInvalidates ==
    [][\A q \in Request : Logout(q) => merchants'[Owner(q)].refreshToken = Null]_vars
=============================================================================
