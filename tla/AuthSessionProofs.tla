-------------------------- MODULE AuthSessionProofs --------------------------
(***************************************************************************)
(* What holds of AuthSession for any number of registrations, requests,    *)
(* emails, passwords and failing statements.                               *)
(***************************************************************************)
EXTENDS AuthSession, TLAPS

\* A row belongs to the registration that inserted it, which may not have been told, and no
\* two rows have one email.
RowsMatchRegistrations ==
    /\ \A m \in Registration : merchants[m] # Null =>
         registration[m].at \in {"201", "500"} /\ registration[m].email = merchants[m].email
    /\ \A r \in Registration : registration[r].at = "201" => merchants[r] # Null
    /\ \A m, n \in Merchants : merchants[m].email = merchants[n].email => m = n

\* A registration that lost its email, lost it to another one's row.
LostToAnother ==
    \A r \in Registration :
        registration[r].at = "409" \/ (registration[r].at = "500" /\ faults = 0) =>
            /\ merchants[r] = Null
            /\ \E m \in Merchants \ {r} : merchants[m].email = registration[r].email

\* The requests on their way to a pair of tokens, or past it.
Signing(q) == request[q].at \in {"verified", "storing"} \/ q \in Granted

\* Such a request is for a merchant, and goes back to a login with its password.
LoginBehind(m) ==
    \E l \in Request :
        /\ request[l].at # "unsent" /\ request[l].kind = "login"
        /\ request[l].merchant = m /\ request[l].with = merchants[m].password

SigningIsBacked ==
    \A q \in Request : Signing(q) => Owner(q) \in Merchants /\ LoginBehind(Owner(q))

\* The stored hash is of a token of the same merchant, and is there once one was granted.
StoredIsOwn ==
    /\ \A m \in Merchants : merchants[m].refreshToken # Null =>
         LET q == merchants[m].refreshToken IN request[q].at # "unsent" /\ Owner(q) = m
    /\ \A q \in Granted : merchants[Owner(q)].refreshToken # Null

\* A refresh that verified its token has it from the client, and is for its merchant.
VerifiedWasGranted ==
    \A q \in Request : request[q].at = "verified" =>
        /\ request[q].kind = "refresh"
        /\ request[q].with \in Presentable
        /\ Owner(q) = Owner(request[q].with.of)

\* Only a logout waits for the guard.
GuardedIsLogout ==
    \A q \in Request : request[q].at = "guarding" => request[q].kind = "logout"

Inv ==
    /\ TypeOK
    /\ RowsMatchRegistrations
    /\ LostToAnother
    /\ SigningIsBacked
    /\ StoredIsOwn
    /\ VerifiedWasGranted
    /\ GuardedIsLogout

-----------------------------------------------------------------------------
(***************************************************************************)
(* Types, and what no step takes back.                                     *)
(***************************************************************************)

LEMMA RowIsNotNull ==
    ASSUME TypeOK, NEW r \in Registration, registration[r] # Unsent
    PROVE  RegistrationRow(r) \in Row /\ RegistrationRow(r) # Null
BY AuthAssumption DEF TypeOK, Registering, RegistrationRow, Row

LEMMA StoredType ==
    ASSUME TypeOK, NEW m \in Merchants, NEW value \in Request \cup {Null}
    PROVE  /\ Stored(m, value) \in [Registration -> Row \cup {Null}]
           /\ Stored(m, value)[m] # Null
BY AuthAssumption DEF TypeOK, Merchants, Stored, Row

\* The steps that send a request, and those that move it on.
LEMMA StartsType ==
    ASSUME TypeOK, NEW q \in Request, NEW stage \in Stages \cup {"200", "401", "500"},
           NEW kind \in {"login", "refresh", "logout"}, NEW m \in Registration \cup {Null},
           NEW with \in Password \cup Token, Starts(q, stage, kind, m, with)
    PROVE  request' \in [Request -> {Unsent} \cup Running]
BY DEF TypeOK, Starts, Running

LEMMA AtType ==
    ASSUME TypeOK, NEW q \in Request, NEW stage \in Stages \cup {"200", "401", "500"},
           request[q].at # "unsent", At(q, stage)
    PROVE  /\ request' \in [Request -> {Unsent} \cup Running]
           /\ request'[q].at = stage /\ request'[q].kind = request[q].kind
BY DEF TypeOK, At, Running, Unsent

LEMMA FaultType ==
    ASSUME TypeOK, Fault
    PROVE  faults' \in 0 .. MaxFaults /\ faults' > faults /\ faults' # 0
<1>1. MaxFaults \in Nat
  BY AuthAssumption
<1> QED BY <1>1 DEF TypeOK, Fault

LEMMA TypeInit == Init => TypeOK
BY AuthAssumption DEF Init, TypeOK

LEMMA RegisterType ==
    ASSUME TypeOK, NEW r \in Registration, RegisterNext(r)
    PROVE  TypeOK'
<1>1. CASE Register(r)
  BY <1>1 DEF Register, TypeOK, Registering
<1>2. CASE Insert(r)
  <2>1. registration[r] # Unsent
    BY <1>2 DEF Insert, Unsent
  <2>2. registration' \in [Registration -> {Unsent} \cup Registering]
    BY <1>2, <2>1 DEF Insert, TypeOK, Registering
  <2> QED BY <1>2, <2>1, <2>2, RowIsNotNull DEF Insert, TypeOK
<1>3. CASE InsertFails(r)
  <2>1. registration[r] # Unsent
    BY <1>3 DEF InsertFails, Unsent
  <2>2. registration' \in [Registration -> {Unsent} \cup Registering]
    BY <1>3, <2>1 DEF InsertFails, TypeOK, Registering
  <2>3. faults' \in 0 .. MaxFaults
    BY <1>3, FaultType DEF InsertFails
  <2> QED BY <1>3, <2>1, <2>2, <2>3, RowIsNotNull DEF InsertFails, TypeOK
<1>4. CASE RegisterFails(r)
  BY <1>4, FaultType DEF RegisterFails, TypeOK, Registering
<1> QED BY <1>1, <1>2, <1>3, <1>4 DEF RegisterNext

LEMMA SessionType ==
    ASSUME Inv, NEW q \in Request, SessionNext(q)
    PROVE  TypeOK'
<1> USE DEF Inv
<1>0. Pair(q) \subseteq Token
  BY DEF Pair, Token
<1> DEFINE Typed == request' \in [Request -> {Unsent} \cup Running]
<1>1. CASE Login(q)
  BY <1>0, <1>1, StartsType DEF Login, TypeOK, Stages, ByEmail, Merchants
<1>2. CASE LoginFails(q)
  BY <1>2, StartsType, FaultType DEF LoginFails, TypeOK
<1>3. CASE Store(q) \/ StoreFails(q)
  <2>1. Owner(q) \in Merchants
    BY <1>3 DEF Store, StoreFails, SigningIsBacked, Signing
  <2>2. merchants' \in [Registration -> Row \cup {Null}]
    BY <1>3, <2>1, StoredType DEF Store, StoreFails, TypeOK, Owner
  <2>3. Typed
    BY <1>3, AtType DEF Store, StoreFails, Failure
  <2> QED BY <1>3, <2>2, <2>3, FaultType DEF Store, StoreFails, TypeOK
<1>4. CASE Verify(q) \/ Bearer(q)
  <2>1. PICK t \in Presentable, stage \in Stages \cup {"401"}, kind \in {"refresh", "logout"} :
          Starts(q, stage, kind, Owner(t.of), t)
    BY <1>4 DEF Verify, Bearer, Stages
  <2>2. t \in Token /\ Owner(t.of) \in Registration \cup {Null}
    BY DEF Presentable, Granted, Owner, Token, SigningIsBacked, Signing, Merchants
  <2>3. Typed
    BY <2>1, <2>2, StartsType
  <2> QED BY <1>4, <2>3 DEF Verify, Bearer, TypeOK
<1>5. CASE Renew(q)
  <2>1. Typed
    BY <1>5, AtType DEF Renew, Stages
  <2> QED BY <1>0, <1>5, <2>1 DEF Renew, TypeOK
<1>6. CASE Guard(q) \/ LookupFails(q)
  <2>1. Typed
    BY <1>6, AtType DEF Guard, LookupFails, Failure, Stages
  <2> QED BY <1>6, <2>1, FaultType DEF Guard, LookupFails, TypeOK
<1>7. CASE Logout(q)
  <2>1. Typed
    BY <1>7, AtType DEF Logout
  <2>2. "sub" \notin DOMAIN User(request[q].merchant)
    BY DEF User
  <2> QED BY <1>7, <2>1, <2>2 DEF Logout, TypeOK
<1> QED BY <1>1, <1>2, <1>3, <1>4, <1>5, <1>6, <1>7 DEF SessionNext

\* A step of a session request sends it or moves it on, and changes at most the stored hash
\* of its own merchant.
LEMMA SessionShape ==
    ASSUME Inv, NEW q \in Request, SessionNext(q)
    PROVE  /\ UNCHANGED registration
           /\ q \notin Granted
           /\ \/ request[q] = Unsent /\ \E new \in Running : request' = [request EXCEPT ![q] = new]
              \/ /\ request[q] \in Running
                 /\ \E stage \in Stages \cup {"200", "401", "500"} : At(q, stage)
           /\ \/ UNCHANGED merchants
              \/ request[q].at = "storing" /\ merchants' = Stored(Owner(q), q)
<1> USE DEF Inv
<1>1. CASE Login(q) \/ LoginFails(q) \/ Verify(q) \/ Bearer(q)
  <2>1. request' = [request EXCEPT ![q] = request'[q]] /\ request'[q].at # "unsent"
    BY <1>1 DEF Login, LoginFails, Verify, Bearer, Starts, TypeOK
  <2>2. request'[q] \in Running
    BY <2>1, SessionType DEF TypeOK, Unsent
  <2> QED BY <1>1, <2>1, <2>2 DEF Login, LoginFails, Verify, Bearer, Granted, Unsent
<1>2. CASE Store(q) \/ StoreFails(q)
  BY <1>2 DEF Store, StoreFails, Failure, TypeOK, Granted, Unsent, Owner
<1>3. CASE Renew(q) \/ Guard(q) \/ LookupFails(q)
  BY <1>3 DEF Renew, Guard, LookupFails, Failure, TypeOK, Granted, Unsent, Stages
<1>4. CASE Logout(q)
  <2>1. "sub" \notin DOMAIN User(request[q].merchant)
    BY DEF User
  <2> QED BY <1>4, <2>1 DEF Logout, TypeOK, Granted, Unsent
<1> QED BY <1>1, <1>2, <1>3, <1>4 DEF SessionNext

\* No step takes a request back to another purpose, a row away, or a stored hash.
LEMMA SessionKeeps ==
    ASSUME Inv, NEW q \in Request, SessionNext(q)
    PROVE  /\ \A l \in Request : request[l].at # "unsent" =>
                /\ request'[l].at # "unsent" /\ request'[l].kind = request[l].kind
                /\ request'[l].merchant = request[l].merchant
                /\ request'[l].with = request[l].with
           /\ \A l \in Request \ {q} : request'[l] = request[l]
           /\ Merchants' = Merchants
           /\ \A m \in Merchants :
                /\ merchants'[m].email = merchants[m].email
                /\ merchants'[m].password = merchants[m].password
                /\ merchants[m].refreshToken # Null => merchants'[m].refreshToken # Null
                /\ \/ merchants'[m].refreshToken = merchants[m].refreshToken
                   \/ m = Owner(q) /\ merchants'[m].refreshToken = q /\ request[q].at # "unsent"
<1> USE DEF Inv
<1>1. /\ \A l \in Request : request[l].at # "unsent" =>
           /\ request'[l].at # "unsent" /\ request'[l].kind = request[l].kind
           /\ request'[l].merchant = request[l].merchant
           /\ request'[l].with = request[l].with
      /\ \A l \in Request \ {q} : request'[l] = request[l]
  <2>1. CASE request[q] = Unsent /\ \E new \in Running : request' = [request EXCEPT ![q] = new]
    BY <2>1 DEF TypeOK, Unsent
  <2>2. CASE request[q] \in Running /\ \E stage \in Stages \cup {"200", "401", "500"} : At(q, stage)
    BY <2>2 DEF TypeOK, Running, At, Stages
  <2> QED BY <2>1, <2>2, SessionShape
<1>2. CASE UNCHANGED merchants
  BY <1>1, <1>2 DEF Merchants
<1>3. CASE request[q].at = "storing" /\ merchants' = Stored(Owner(q), q)
  <2>1. Owner(q) \in Merchants
    BY <1>3 DEF SigningIsBacked, Signing
  <2>2. merchants'[Owner(q)] = [merchants[Owner(q)] EXCEPT !.refreshToken = q]
    BY <1>3, <2>1 DEF Stored, TypeOK, Merchants
  <2>3. merchants[Owner(q)] \in Row /\ merchants'[Owner(q)] # Null
    BY <1>3, <2>1, StoredType DEF TypeOK, Merchants
  <2>4. q # Null
    BY AuthAssumption
  <2> QED BY <1>1, <1>3, <2>1, <2>2, <2>3, <2>4 DEF Stored, Merchants, TypeOK, Row
<1> QED BY <1>1, <1>2, <1>3, SessionShape

\* Only Verify makes a request verified, with a token the client was handed; only it and
\* Login let a request sign that did not before.
LEMMA VerifyShape ==
    ASSUME Inv, NEW q \in Request, Verify(q)
    PROVE  \E t \in Presentable :
             /\ t.of \in Granted \ {q} /\ request'[q].with = t
             /\ request'[q].merchant = Owner(t.of) /\ request'[q].kind = "refresh"
<1>1. PICK t \in Presentable, stage \in {"verified", "401"} :
        Starts(q, stage, "refresh", Owner(t.of), t)
  BY DEF Verify
<1>2. t.of \in Granted \ {q}
  BY DEF Verify, Presentable, Granted, Unsent
<1> QED BY <1>1, <1>2 DEF Starts, Inv, TypeOK

LEMMA StagesShape ==
    ASSUME Inv, NEW q \in Request, SessionNext(q), ~Verify(q)
    PROVE  /\ request'[q].at # "verified"
           /\ Signing(q)' => Signing(q) \/ (Login(q) /\ request'[q].at = "storing")
           /\ q \in Granted' => Store(q)
           /\ request'[q].at = "guarding" => request'[q].kind = "logout"
<1> USE DEF Inv
<1>1. CASE Login(q) \/ LoginFails(q) \/ Bearer(q)
  BY <1>1 DEF Login, LoginFails, Bearer, Starts, TypeOK, Signing, Granted
<1>2. CASE Store(q) \/ StoreFails(q) \/ Renew(q)
  <2>1. PICK stage \in {"200", "401", "500", "storing"} :
          At(q, stage) /\ request[q].at # "unsent" /\ (stage = "200" => Store(q))
    BY <1>2 DEF Store, StoreFails, Renew, Failure
  <2>2. request'[q].at = stage
    BY <2>1, AtType DEF Stages
  <2> QED BY <1>2, <2>1, <2>2 DEF Store, StoreFails, Renew, Signing, Granted
<1>3. CASE Guard(q) \/ LookupFails(q)
  <2>1. PICK stage \in {"clearing", "401", "500"} : At(q, stage) /\ request[q].at # "unsent"
    BY <1>3 DEF Guard, LookupFails, Failure
  <2>2. request'[q].at = stage
    BY <2>1, AtType DEF Stages
  <2> QED BY <2>2 DEF Signing, Granted
<1>4. CASE Logout(q)
  <2>1. "sub" \notin DOMAIN User(request[q].merchant)
    BY DEF User
  <2>2. At(q, "500") /\ request[q].at # "unsent"
    BY <1>4, <2>1 DEF Logout
  <2>3. request'[q].at = "500"
    BY <2>2, AtType
  <2> QED BY <2>3 DEF Signing, Granted
<1> QED BY <1>1, <1>2, <1>3, <1>4 DEF SessionNext

-----------------------------------------------------------------------------
(***************************************************************************)
(* Inv is inductive.                                                       *)
(***************************************************************************)

LEMMA InitInv == Init => Inv
BY TypeInit DEF Init, Inv, RowsMatchRegistrations, LostToAnother, SigningIsBacked, Signing,
   StoredIsOwn, VerifiedWasGranted, GuardedIsLogout, Granted, Merchants, Unsent

LEMMA RegisterInv ==
    ASSUME Inv, NEW r \in Registration, RegisterNext(r)
    PROVE  Inv'
<1> USE DEF Inv
<1>1. TypeOK'
  BY RegisterType
<1>2. UNCHANGED <<request, fresh>> /\ \A s \in Registration \ {r} : registration'[s] = registration[s]
  BY DEF RegisterNext, Register, Insert, InsertFails, RegisterFails, TypeOK
<1>3. merchants[r] = Null /\ \A m \in Registration \ {r} : merchants'[m] = merchants[m]
  BY DEF RegisterNext, Register, Insert, InsertFails, RegisterFails, TypeOK,
     RowsMatchRegistrations, Unsent
<1>4. \/ merchants'[r] = Null /\ registration'[r].at # "201"
      \/ /\ merchants'[r] # Null
         /\ merchants'[r].email = registration'[r].email /\ merchants'[r].refreshToken = Null
         /\ registration'[r].at = "201" \/ (registration'[r].at = "500" /\ faults' # 0)
         /\ \A m \in Merchants : merchants[m].email # registration'[r].email
  <2>1. CASE Register(r) \/ RegisterFails(r)
    BY <1>3, <2>1 DEF Register, RegisterFails, TypeOK
  <2>2. CASE Insert(r) \/ InsertFails(r)
    <3>1. registration[r] \in Registering
      BY <2>2 DEF Insert, InsertFails, TypeOK, Unsent
    <3>2. RegistrationRow(r) # Null /\ RegistrationRow(r).email = registration[r].email
          /\ RegistrationRow(r).refreshToken = Null
      BY <2>2, <3>1, RowIsNotNull DEF Insert, InsertFails, Unsent, RegistrationRow
    <3>3. registration'[r].email = registration[r].email
      BY <2>2, <3>1 DEF Insert, InsertFails, TypeOK, Registering
    <3>4. Accepts(registration[r].email) =>
            \A m \in Merchants : merchants[m].email # registration[r].email
      BY DEF Accepts, ByEmail
    <3>5. \/ merchants' = merchants /\ registration'[r].at = "500"
          \/ /\ merchants'[r] = RegistrationRow(r) /\ Accepts(registration[r].email)
             /\ registration'[r].at = "201" \/ (registration'[r].at = "500" /\ faults' # 0)
      <4>1. CASE Insert(r)
        BY <3>1, <4>1 DEF Insert, TypeOK, Registering
      <4>2. CASE InsertFails(r)
        BY <3>1, <4>2, FaultType DEF InsertFails, TypeOK, Registering
      <4> QED BY <2>2, <4>1, <4>2
    <3>6. CASE merchants' = merchants /\ registration'[r].at = "500"
      BY <1>3, <3>6
    <3>7. CASE merchants'[r] = RegistrationRow(r) /\ Accepts(registration[r].email)
      BY <3>2, <3>3, <3>4, <3>5, <3>7, <1>3
    <3> QED BY <3>5, <3>6, <3>7
  <2> QED BY <2>1, <2>2 DEF RegisterNext
<1>5. RowsMatchRegistrations'
  BY <1>2, <1>3, <1>4 DEF RowsMatchRegistrations, Merchants
<1>6. LostToAnother'
  <2>1. registration'[r].at = "409" \/ (registration'[r].at = "500" /\ faults' = 0) =>
          /\ merchants'[r] = Null
          /\ \E m \in Merchants : merchants[m].email = registration'[r].email
    <3>1. CASE Register(r)
      BY <1>3, <3>1 DEF Register, TypeOK, ByEmail
    <3>2. CASE Insert(r)
      BY <1>3, <3>2 DEF Insert, TypeOK, Accepts, ByEmail, Registering, Unsent
    <3>3. CASE InsertFails(r) \/ RegisterFails(r)
      BY <3>3, FaultType DEF InsertFails, RegisterFails, TypeOK, Registering, Unsent
    <3> QED BY <3>1, <3>2, <3>3 DEF RegisterNext
  <2>2. faults' = 0 => faults = 0
    BY FaultType DEF RegisterNext, Register, Insert, InsertFails, RegisterFails
  <2>3. Merchants \subseteq Merchants' /\ r \notin Merchants
    BY <1>3 DEF Merchants
  <2> QED BY <1>2, <1>3, <2>1, <2>2, <2>3 DEF LostToAnother, Merchants
<1>7. SigningIsBacked'
  BY <1>2, <1>3 DEF SigningIsBacked, Signing, LoginBehind, Granted, Owner, Merchants
<1>8. StoredIsOwn'
  BY <1>2, <1>3, <1>4 DEF SigningIsBacked, Signing, StoredIsOwn, Granted, Owner, Merchants
<1>9. VerifiedWasGranted'
  BY <1>2 DEF VerifiedWasGranted, Presentable, Granted, Owner
<1>10. GuardedIsLogout'
  BY <1>2 DEF GuardedIsLogout
<1> QED BY <1>1, <1>5, <1>6, <1>7, <1>8, <1>9, <1>10

LEMMA SessionInv ==
    ASSUME Inv, NEW q \in Request, SessionNext(q)
    PROVE  Inv'
<1> USE DEF Inv
<1>1. TypeOK'
  BY SessionType
<1>2. RowsMatchRegistrations'
  BY SessionShape, SessionKeeps DEF RowsMatchRegistrations, Merchants
<1>3. LostToAnother'
  <2>1. faults' = 0 => faults = 0
    BY FaultType DEF SessionNext, Login, LoginFails, Store, StoreFails, Verify, Renew, Bearer,
       Guard, Logout, LookupFails
  <2> QED BY <2>1, SessionShape, SessionKeeps DEF LostToAnother, Merchants
<1>4. Granted \subseteq Granted'
  BY SessionShape, SessionKeeps DEF Granted
<1>5. \A m \in Merchants : LoginBehind(m) => LoginBehind(m)'
  BY SessionKeeps DEF LoginBehind
<1>6. Signing(q)' => Owner(q)' \in Merchants /\ LoginBehind(Owner(q))'
  <2>1. CASE Signing(q)
    BY <1>5, <2>1, SessionKeeps DEF SigningIsBacked, Signing, Granted, Owner
  <2>2. CASE Login(q) /\ request'[q].at = "storing"
    BY <1>1, <2>2, SessionKeeps DEF Login, LoginBehind, ByEmail, ValidPassword, Starts, Owner, TypeOK
  <2>3. CASE Verify(q)
    BY <1>5, <2>3, VerifyShape, SessionKeeps DEF Owner, SigningIsBacked, Signing, Granted
  <2>4. CASE ~Verify(q)
    BY <2>1, <2>2, <2>4, StagesShape
  <2> QED BY <2>3, <2>4
<1>7. SigningIsBacked'
  BY <1>5, <1>6, SessionKeeps DEF SigningIsBacked, Signing, Granted, Owner
<1>8. StoredIsOwn'
  <2>1. ASSUME NEW m \in Merchants, merchants'[m].refreshToken # Null
        PROVE  /\ request'[merchants'[m].refreshToken].at # "unsent"
               /\ request'[merchants'[m].refreshToken].merchant = m
    <3>1. merchants[m].refreshToken \in Request \cup {Null}
      BY DEF TypeOK, Merchants, Row
    <3> QED BY <2>1, <3>1, SessionKeeps DEF StoredIsOwn, Owner
  <2>2. ASSUME NEW l \in Granted' PROVE merchants'[Owner(l)'].refreshToken # Null
    <3>1. CASE l \in Granted
      BY <3>1, SessionKeeps DEF StoredIsOwn, SigningIsBacked, Signing, Granted, Owner
    <3>2. CASE l \notin Granted
      <4>1. l = q
        BY <2>2, <3>2, SessionKeeps DEF Granted
      <4>2. Store(q)
        BY <2>2, <4>1, StagesShape, VerifyShape DEF Verify, Starts, TypeOK, Granted
      <4>3. Owner(q) \in Merchants /\ Owner(q)' = Owner(q)
        BY <4>2, SessionKeeps DEF Store, SigningIsBacked, Signing, Owner
      <4>4. merchants'[Owner(q)].refreshToken = q /\ q # Null
        BY <4>2, <4>3, AuthAssumption DEF Store, Stored, TypeOK, Merchants, Row, Owner
      <4> QED BY <4>1, <4>3, <4>4
    <3> QED BY <3>1, <3>2
  <2>3. Merchants' = Merchants
    BY SessionKeeps
  <2> QED BY <2>1, <2>2, <2>3 DEF StoredIsOwn, Owner
<1>9. VerifiedWasGranted'
  <2>1. ASSUME NEW l \in Request, request'[l].at = "verified"
        PROVE  request'[l].kind = "refresh" /\ \E t \in Presentable :
                 request'[l].with = t /\ request'[l].merchant = Owner(t.of)
    <3>1. CASE l # q
      BY <2>1, <3>1, SessionKeeps DEF VerifiedWasGranted, Owner
    <3>2. CASE l = q
      BY <2>1, <3>2, StagesShape, VerifyShape
    <3> QED BY <3>1, <3>2
  <2>2. \A t \in Presentable : t \in Presentable' /\ Owner(t.of)' = Owner(t.of)
    BY <1>4, SessionKeeps DEF Presentable, Granted, Owner
  <2> QED BY <2>1, <2>2 DEF VerifiedWasGranted, Owner
<1>10. GuardedIsLogout'
  <2>1. Verify(q) => request'[q].at # "guarding"
    BY DEF Verify, Starts, TypeOK
  <2> QED BY <2>1, StagesShape, SessionKeeps DEF GuardedIsLogout
<1> QED BY <1>1, <1>2, <1>3, <1>7, <1>8, <1>9, <1>10

LEMMA NextInv == Inv /\ [Next]_vars => Inv'
<1> SUFFICES ASSUME Inv, [Next]_vars PROVE Inv'
  OBVIOUS
<1>1. CASE \E t \in Token : Expire(t)
  BY <1>1 DEF Expire, Inv, TypeOK, RowsMatchRegistrations, LostToAnother, SigningIsBacked,
     Signing, LoginBehind, StoredIsOwn, VerifiedWasGranted, GuardedIsLogout, Presentable, Granted,
     Owner, Merchants
<1>2. CASE UNCHANGED vars
  BY <1>2 DEF vars, Inv, TypeOK, RowsMatchRegistrations, LostToAnother, SigningIsBacked,
     Signing, LoginBehind, StoredIsOwn, VerifiedWasGranted, GuardedIsLogout, Presentable, Granted,
     Owner, Merchants
<1> QED BY <1>1, <1>2, RegisterInv, SessionInv DEF Next

\* The inductive invariant holds in every state.
THEOREM Invariance == Spec => []Inv
BY InitInv, NextInv, PTL DEF Spec

\* Every variable keeps its type.
THEOREM TypeCorrect == Spec => []TypeOK
<1>1. Inv => TypeOK
  BY DEF Inv
<1> QED BY <1>1, Invariance, PTL

\* However registrations race and fail, an email has one merchant and the answers say so.
THEOREM OneMerchant == Spec => []EmailHasOneMerchant
<1>1. Inv => EmailHasOneMerchant
  <2> SUFFICES ASSUME Inv, NEW r \in Registration
               PROVE  LET holders == ByEmail(registration[r].email) IN
                      /\ registration[r].at = "201" => holders = {r}
                      /\ registration[r].at = "409" \/ (registration[r].at = "500" /\ faults = 0)
                           => \E m \in Registration \ {r} : holders = {m}
    BY DEF EmailHasOneMerchant
  <2>1. registration[r].at = "201" => ByEmail(registration[r].email) = {r}
    BY DEF Inv, RowsMatchRegistrations, ByEmail, Merchants
  <2>2. ASSUME registration[r].at = "409" \/ (registration[r].at = "500" /\ faults = 0)
        PROVE  \E m \in Registration \ {r} : ByEmail(registration[r].email) = {m}
    <3>1. PICK m \in Merchants \ {r} : merchants[m].email = registration[r].email
      BY <2>2 DEF Inv, LostToAnother
    <3>2. ByEmail(registration[r].email) = {m}
      BY <3>1 DEF Inv, RowsMatchRegistrations, ByEmail
    <3> QED BY <3>1, <3>2 DEF Merchants
  <2> QED BY <2>1, <2>2
<1> QED BY <1>1, Invariance, PTL

\* Sessions of a merchant do not shut each other out.
THEOREM SessionsLive == Spec => []SessionsCoexist
<1>1. Inv => SessionsCoexist
  <2> SUFFICES ASSUME Inv, NEW q \in Granted, [type |-> "refresh", of |-> q] \in fresh
               PROVE  Usable([type |-> "refresh", of |-> q])
    BY DEF SessionsCoexist
  <2>1. Owner(q) \in Merchants /\ merchants[Owner(q)].refreshToken # Null
    BY DEF Inv, SigningIsBacked, Signing, Granted, StoredIsOwn
  <2>2. Owner(merchants[Owner(q)].refreshToken) = Owner(q)
    BY <2>1 DEF Inv, StoredIsOwn
  <2> QED BY <2>1, <2>2 DEF Usable, Compare, Prefix, Merchants
<1> QED BY <1>1, Invariance, PTL

\* No token without a login with the merchant's password.
THEOREM TokensFromLogin == Spec => []TokensComeFromLogin
<1>1. Inv => TokensComeFromLogin
  BY DEF Inv, TokensComeFromLogin, SigningIsBacked, Signing, LoginBehind, Granted, Owner
<1> QED BY <1>1, Invariance, PTL

\* A refresh is refused only for a dead token or a failing statement.
THEOREM RefusalsHaveCause == Spec => RefusedOnlyForCause
<1>1. ASSUME Inv, Next, NEW q \in Request,
             request'[q].at = "401", request[q].at # "401", request'[q].kind = "refresh"
      PROVE  \/ request'[q].with.type = "access"
             \/ request'[q].with \notin fresh
             \/ faults' > faults
  <2>1. SessionNext(q)
    BY <1>1, SessionKeeps DEF Next, RegisterNext, Register, Insert, InsertFails, RegisterFails,
       Expire
  <2>2. CASE Login(q) \/ LoginFails(q) \/ Bearer(q)
    BY <1>1, <2>2 DEF Login, LoginFails, Bearer, Starts, Inv, TypeOK
  <2>3. CASE Verify(q)
    BY <1>1, <2>3 DEF Verify, Starts, Inv, TypeOK
  <2>4. CASE StoreFails(q) \/ LookupFails(q)
    BY <1>1, <2>4, FaultType DEF StoreFails, LookupFails, Inv
  <2>5. CASE Store(q) \/ Guard(q) \/ Logout(q)
    <3>1. PICK stage \in {"200", "clearing", "401", "500"} :
            /\ At(q, stage) /\ request[q].at # "unsent"
            /\ stage = "401" => request[q].at = "guarding"
      BY <2>5 DEF Store, Guard, Logout
    <3>2. request'[q].at = stage /\ request'[q].kind = request[q].kind
      BY <1>1, <3>1, AtType DEF Inv, Stages
    <3> QED BY <1>1, <3>1, <3>2 DEF Inv, GuardedIsLogout
  <2>6. CASE Renew(q)
    <3>1. PICK t \in Presentable : request[q].with = t /\ Owner(q) = Owner(t.of)
      BY <1>1, <2>6 DEF Renew, Inv, VerifiedWasGranted
    <3>2. t \in Token /\ t.of \in Granted
      BY <3>1 DEF Presentable
    <3>3. Owner(q) \in Merchants /\ merchants[Owner(q)].refreshToken # Null
      BY <1>1, <3>1, <3>2 DEF Inv, SigningIsBacked, Signing, StoredIsOwn, Granted
    <3>4. Owner(merchants[Owner(q)].refreshToken) = Owner(q)
      BY <1>1, <3>3 DEF Inv, StoredIsOwn
    <3>5. t.type = "refresh" => Compare(t, merchants[Owner(q)].refreshToken)
      BY <3>1, <3>4 DEF Compare, Prefix
    <3>6. request' = [request EXCEPT ![q].at = request'[q].at] /\ request'[q].with = request[q].with
      BY <1>1, <2>6 DEF Renew, At, Inv, TypeOK, Running, Unsent
    <3>7. ~Compare(t, merchants[Owner(q)].refreshToken)
      <4>1. At(q, "storing") => request'[q].at = "storing"
        BY <1>1, <2>6, AtType DEF Renew, Inv, Stages
      <4> QED BY <1>1, <2>6, <3>1, <3>3, <4>1 DEF Renew, Owner
    <3> QED BY <3>1, <3>2, <3>5, <3>6, <3>7 DEF Token
  <2> QED BY <2>1, <2>2, <2>3, <2>4, <2>5, <2>6 DEF SessionNext
<1>2. Inv /\ [Next]_vars =>
        [\A q \in Request :
           request'[q].at = "401" /\ request[q].at # "401" /\ request'[q].kind = "refresh" =>
             \/ request'[q].with.type = "access"
             \/ request'[q].with \notin fresh
             \/ faults' > faults]_vars
  BY <1>1
<1> QED BY <1>2, Invariance, PTL DEF Spec, RefusedOnlyForCause
=============================================================================
