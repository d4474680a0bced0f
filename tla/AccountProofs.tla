---------------------------- MODULE AccountProofs ----------------------------
(***************************************************************************)
(* Theorems about accounts: Registration and SignIn, the limits of         *)
(* AuthGuard and the Tokens of a browser, for every set of names, codes,   *)
(* shares, methods, browsers, budgets and requests.                        *)
(*                                                                         *)
(* For registration the inductive invariant says what a transaction may    *)
(* rely on while it holds the row of its code or share: the code stays     *)
(* unused, the share stays live, and once it has inserted its account      *)
(* nobody else gets the name.  For signing in it says that a code or a     *)
(* ticket that can still be used was not, and that a round trip resolves   *)
(* its subject for the session that began it.  A window that is open has   *)
(* counted what was let through in it, and a request that renews a session *)
(* holds a token that was issued to its user.                              *)
(***************************************************************************)
EXTENDS Registration, TLAPS

CONSTANTS
    \* of SignIn
    Member, Newcomer, Email, Foreign, Browser, Nobody, NoSubject, Challenge, Flow,
    PublicSignup, Guesses, PerEmail, SiteWide, Cooldown, CodeLife, Hour, StateLife,
    TicketLife,
    \* of AuthGuard
    Action, Bucket, Limit, Slots, Window,
    \* of Tokens
    User, Refresh, NoToken, TokenTTL, RenewBefore, RefreshTTL

VARIABLES account, identity, challenge, flow, linker, bucket, admitted, refresh, access

\* They have the clock and the requests in common by name only: each theorem is
\* about the specification of one of them.
SI == INSTANCE SignIn
AG == INSTANCE AuthGuard
TK == INSTANCE Tokens

-----------------------------------------------------------------------------
(* Registration *)

\* Requests whose transaction has found the code or share valid.
Registering(r) == request[r].at \in {"validated", "inserted"}

RequestInv ==
    \A r \in Request :
        /\ request[r].at \in {"register", "validated", "inserted"} =>
              request[r].name \in Name \ {Admin} /\ request[r].code \in Source
        /\ request[r].at = "change" =>
              request[r].name \in Name /\ request[r].hash # 0

LockInv ==
    /\ \A r \in Request : Registering(r) => r \in lock[request[r].code]
    /\ \A c \in Invite, r \in Request : r \in lock[c] => lock[c] = {r}

\* What a lock keeps as it was found.
FoundInv ==
    \A r \in Request : Registering(r) =>
        LET c == request[r].code IN
        /\ c \in Invite => invite[c].made /\ invite[c].usedBy = NoName
        /\ c \in Share => ~share[c].revoked

NameInv ==
    /\ \A r \in Request : request[r].at = "inserted" => ~Exists(request[r].name)
    /\ \A r, q \in Request :
          request[r].at = "inserted" /\ request[q].at = "inserted"
            => (request[r].name = request[q].name => r = q)
    /\ \A n \in Name : ~Exists(n) => origin[n] = NoCode

Inv == TypeOK /\ RequestInv /\ LockInv /\ FoundInv /\ NameInv /\ CodeAdmitsOne

-----------------------------------------------------------------------------
(* Type correctness *)

LEMMA InitType == ASSUME RegistrationAssumption PROVE Init => TypeOK /\ RequestInv
BY DEF RegistrationAssumption, Init, TypeOK, RequestInv, Idle

\* What a request does next leaves the others alone.
LEMMA Steps ==
    ASSUME TypeOK, NEW r \in Request, NEW new, request' = [request EXCEPT ![r] = new]
    PROVE  request'[r] = new /\ \A q \in Request : q # r => request'[q] = request[q]
BY DEF TypeOK

LEMMA StepType ==
    ASSUME RegistrationAssumption, TypeOK, RequestInv, [Next]_vars
    PROVE  TypeOK' /\ RequestInv'
<1> DEFINE Req == [at : {"idle", "initAdmin", "register", "validated", "inserted",
                         "change"},
                   name : Name \cup {NoName}, code : Source \cup {NoCode}, hash : 0..3]
<1>0. /\ now \in 0..MaxTime /\ user \in [Name -> 0..3]
      /\ invite \in [Invite -> [made : BOOLEAN, until : 0..(MaxTime + InviteLife),
                                usedBy : Name \cup {NoName}]]
      /\ share \in [Share -> [until : 0..(MaxTime + ShareLife), revoked : BOOLEAN]]
      /\ lock \in [Source -> SUBSET Request] /\ request \in [Request -> Req]
      /\ origin \in [Name -> Source \cup {NoCode}] /\ Idle \in Req
      /\ Admin \in Name /\ MaxTime \in Nat /\ InviteLife \in Nat /\ ShareLife \in Nat
  BY DEF TypeOK, RegistrationAssumption, Idle
\* A step that changes the state of one request and the locks at most.
<1>1. ASSUME NEW r \in Request, NEW new \in Req,
             request' = [request EXCEPT ![r] = new],
             new.at \in {"register", "validated", "inserted"} =>
               new.name \in Name \ {Admin} /\ new.code \in Source,
             new.at = "change" => new.name \in Name /\ new.hash # 0
      PROVE  request' \in [Request -> Req] /\ RequestInv'
  <2>1. request'[r] = new /\ \A q \in Request : q # r => request'[q] = request[q]
    BY <1>1, Steps
  <2>2. request' \in [Request -> Req]
    BY <1>0, <1>1
  <2>3. RequestInv'
    BY <1>1, <2>1 DEF RequestInv
  <2> QED
    BY <2>2, <2>3
<1>2. ASSUME NEW r \in Request, Ends(r)
      PROVE  request' \in [Request -> Req] /\ RequestInv'
  <2>1. Idle.at = "idle"
    BY DEF Idle
  <2> QED
    BY <1>0, <1>1, <1>2, <2>1 DEF Ends
<1>3. ASSUME NEW r \in Request, InitAdmin(r) \/ CreateAdmin(r)
      PROVE  TypeOK' /\ RequestInv'
  <2>1. request' \in [Request -> Req] /\ RequestInv'
    <3>1. CASE InitAdmin(r)
      <4> DEFINE new == [at |-> "initAdmin", name |-> Admin, code |-> NoCode, hash |-> 0]
      <4>1. new \in Req /\ new.at = "initAdmin"
        BY <1>0
      <4>2. request' = [request EXCEPT ![r] = new]
        BY <3>1 DEF InitAdmin, Begins
      <4> HIDE DEF new, Req
      <4> QED
        BY <1>1, <4>1, <4>2
    <3> QED
      BY <1>2, <1>3, <3>1 DEF CreateAdmin
  <2>2. user' \in [Name -> 0..3]
    BY <1>0, <1>3 DEF InitAdmin, CreateAdmin
  <2> QED
    BY <1>0, <1>3, <2>1, <2>2 DEF TypeOK, InitAdmin, CreateAdmin
<1>4. ASSUME NEW r \in Request, NEW n \in Name \ {Admin}, NEW c \in Source,
             Register(r, n, c)
      PROVE  TypeOK' /\ RequestInv'
  <2> DEFINE new == [at |-> "register", name |-> n, code |-> c, hash |-> 0]
  <2>1. new \in Req /\ new.name = n /\ new.code = c /\ new.at = "register"
    OBVIOUS
  <2>2. request' = [request EXCEPT ![r] = new]
    BY <1>4 DEF Register, Begins
  <2>3. request' \in [Request -> Req] /\ RequestInv'
    <3> HIDE DEF new, Req
    <3> QED
      BY <1>1, <2>1, <2>2
  <2> QED
    BY <1>0, <1>4, <2>3 DEF TypeOK, Register
<1>5. ASSUME NEW r \in Request, Validate(r) \/ InsertUser(r) PROVE TypeOK' /\ RequestInv'
  <2> DEFINE q(at) == [request[r] EXCEPT !.at = at]
  <2>1. request[r].name \in Name \ {Admin} /\ request[r].code \in Source
    BY <1>5 DEF Validate, InsertUser, RequestInv
  <2>2. \A at \in {"validated", "inserted"} :
           /\ q(at) \in Req /\ q(at).at = at
           /\ q(at).name = request[r].name /\ q(at).code = request[r].code
    BY <1>0
  <2>3. Ends(r) \/ \E at \in {"validated", "inserted"} :
                      request' = [request EXCEPT ![r] = q(at)]
    BY <1>5, <1>0 DEF Validate, LockInvite, LockShare, InsertUser
  <2>4. request' \in [Request -> Req] /\ RequestInv'
    <3> HIDE DEF Req, q
    <3> QED
      BY <1>1, <1>2, <2>1, <2>2, <2>3
  <2>5. lock' \in [Source -> SUBSET Request]
    BY <1>0, <1>5 DEF Validate, LockInvite, LockShare, InsertUser, Release
  <2> QED
    BY <1>0, <1>5, <2>4, <2>5 DEF TypeOK, Validate, InsertUser
<1>6. ASSUME NEW r \in Request, CommitRegister(r) PROVE TypeOK' /\ RequestInv'
  <2>1. request[r].name \in Name /\ request[r].code \in Source
    BY <1>6 DEF CommitRegister, RequestInv
  <2>2. request' \in [Request -> Req] /\ RequestInv'
    BY <1>2, <1>6 DEF CommitRegister
  <2>3. lock' \in [Source -> SUBSET Request]
    BY <1>0, <1>6 DEF CommitRegister, Release
  <2>4. /\ user' \in [Name -> 0..3] /\ origin' \in [Name -> Source \cup {NoCode}]
        /\ invite' \in [Invite -> [made : BOOLEAN, until : 0..(MaxTime + InviteLife),
                                   usedBy : Name \cup {NoName}]]
    <3> DEFINE n == request[r].name
               c == request[r].code
    <3>1. \/ UNCHANGED <<user, origin>>
          \/ user' = [user EXCEPT ![n] = 1] /\ origin' = [origin EXCEPT ![n] = c]
      BY <1>6 DEF CommitRegister
    <3>2. \/ invite' = invite
          \/ c \in Invite /\ invite' = [invite EXCEPT ![c].usedBy = n]
      BY <1>6 DEF CommitRegister
    <3>3. n \in Name /\ c \in Source /\ 1 \in 0..3
      BY <2>1
    <3> HIDE DEF n, c
    <3>4. user' \in [Name -> 0..3] /\ origin' \in [Name -> Source \cup {NoCode}]
      BY <1>0, <3>1, <3>3
    <3> QED
      BY <1>0, <3>2, <3>3, <3>4
  <2> QED
    BY <1>0, <1>6, <2>2, <2>3, <2>4 DEF TypeOK, CommitRegister
<1>7. ASSUME NEW r \in Request, NEW n \in Name, VerifyPassword(r, n)
      PROVE  TypeOK' /\ RequestInv'
  <2> DEFINE new == [at |-> "change", name |-> n, code |-> NoCode, hash |-> user[n]]
  <2>1. user[n] \in 0..3 /\ user[n] # 0
    BY <1>0, <1>7 DEF VerifyPassword, Exists
  <2>2. new \in Req /\ new.name = n /\ new.at = "change" /\ new.hash # 0
    BY <2>1
  <2>3. request' = [request EXCEPT ![r] = new]
    BY <1>7 DEF VerifyPassword, Begins
  <2>4. request' \in [Request -> Req] /\ RequestInv'
    <3> HIDE DEF new, Req
    <3> QED
      BY <1>1, <2>2, <2>3
  <2> QED
    BY <1>0, <1>7, <2>4 DEF TypeOK, VerifyPassword
<1>8. ASSUME NEW r \in Request, ChangePassword(r) PROVE TypeOK' /\ RequestInv'
  <2>1. request[r].name \in Name
    BY <1>8 DEF ChangePassword, RequestInv
  <2>2. user' \in [Name -> 0..3]
    BY <1>0, <1>8, <2>1 DEF ChangePassword
  <2>3. request' \in [Request -> Req] /\ RequestInv'
    BY <1>2, <1>8 DEF ChangePassword
  <2> QED
    BY <1>0, <1>8, <2>2, <2>3 DEF TypeOK, ChangePassword
<1>9. ASSUME NEW c \in Invite, CreateInviteCode(c) PROVE TypeOK' /\ RequestInv'
  <2>1. now + InviteLife \in 0..(MaxTime + InviteLife)
    BY <1>0
  <2>2. invite' \in [Invite -> [made : BOOLEAN, until : 0..(MaxTime + InviteLife),
                                usedBy : Name \cup {NoName}]]
    BY <1>0, <1>9, <2>1 DEF CreateInviteCode
  <2> QED
    BY <1>0, <1>9, <2>2 DEF TypeOK, RequestInv, CreateInviteCode
<1>10. ASSUME NEW s \in Share, RevokeShare(s) PROVE TypeOK' /\ RequestInv'
  <2>1. share' = [share EXCEPT ![s].revoked = TRUE]
        /\ UNCHANGED <<now, user, invite, lock, request, origin>>
    BY <1>10 DEF RevokeShare
  <2>2. share' \in [Share -> [until : 0..(MaxTime + ShareLife), revoked : BOOLEAN]]
    <3> DEFINE Row == [until : 0..(MaxTime + ShareLife), revoked : BOOLEAN]
    <3>1. share \in [Share -> Row]
          /\ share' = [share EXCEPT ![s] = [share[s] EXCEPT !.revoked = TRUE]]
      BY <1>0, <2>1
    <3>2. \A row \in Row : [row EXCEPT !.revoked = TRUE] \in Row
      OBVIOUS
    <3> HIDE DEF Row
    <3>3. share' \in [Share -> Row]
      BY <3>1, <3>2
    <3> QED
      BY <3>3 DEF Row
  <2>3. RequestInv'
    BY <2>1 DEF RequestInv
  <2> QED
    BY <1>0, <2>1, <2>2, <2>3 DEF TypeOK
<1>11. CASE Tick
  BY <1>0, <1>11 DEF TypeOK, RequestInv, Tick
<1>12. CASE UNCHANGED vars
  BY <1>0, <1>12 DEF TypeOK, RequestInv, vars
<1> QED
  BY <1>3, <1>4, <1>5, <1>6, <1>7, <1>8, <1>9, <1>10, <1>11, <1>12 DEF Next

\* Every variable keeps its type.
THEOREM TypeCorrect == ASSUME RegistrationAssumption PROVE Spec => []TypeOK
<1>1. Init => TypeOK /\ RequestInv
  BY InitType
<1>2. TypeOK /\ RequestInv /\ [Next]_vars => TypeOK' /\ RequestInv'
  BY StepType
<1> QED
  BY <1>1, <1>2, PTL DEF Spec

-----------------------------------------------------------------------------
(* The inductive invariant, step by step *)

\* What the names look like after a step, request by request.
LEMMA NamesKept ==
    ASSUME \A q \in Request : request'[q].at = "inserted" => user'[request'[q].name] = 0,
           \A p, q \in Request :
              request'[p].at = "inserted" /\ request'[q].at = "inserted" /\ p # q
                => request'[p].name # request'[q].name,
           \A n \in Name : user'[n] = 0 => origin'[n] = NoCode
    PROVE  NameInv'
BY DEF NameInv, Exists

\* Requests that were as far already keep what NameInv says of them.
LEMMA NamesKeptBefore ==
    ASSUME Inv,
           \A q \in Request : request'[q].at = "inserted" =>
              /\ request[q].at = "inserted" /\ request'[q].name = request[q].name
              /\ user'[request[q].name] = user[request[q].name],
           \A n \in Name : user'[n] = 0 => origin'[n] = NoCode
    PROVE  NameInv'
<1>1. \A q \in Request : request'[q].at = "inserted" => user'[request'[q].name] = 0
  BY DEF Inv, NameInv, Exists
<1>2. \A p, q \in Request :
         request'[p].at = "inserted" /\ request'[q].at = "inserted" /\ p # q
           => request'[p].name # request'[q].name
  BY DEF Inv, NameInv
<1> QED
  BY <1>1, <1>2, NamesKept

\* A step that at most puts one request into a state in which it has found
\* nothing yet and holds no new lock.
LEMMA QuietRequest ==
    ASSUME TypeOK, Inv, NEW r \in Request, NEW new,
           request' = [request EXCEPT ![r] = new],
           new.at \notin {"validated", "inserted"},
           lock' = lock \/ Release(r), user' = user,
           UNCHANGED <<invite, share, origin>>
    PROVE  LockInv' /\ FoundInv' /\ NameInv' /\ CodeAdmitsOne'
<1>1. request'[r] = new /\ \A q \in Request : q # r => request'[q] = request[q]
  BY Steps
<1>2. ~Registering(r)' /\ \A q \in Request : q # r => (Registering(q)' <=> Registering(q))
  BY <1>1 DEF Registering
<1>3. \A c \in Source : lock'[c] = lock[c] \/ lock'[c] = lock[c] \ {r}
  BY DEF Release
<1>4. LockInv'
  <2>1. \A q \in Request : Registering(q) => request[q].code \in Source
    BY DEF Inv, RequestInv, Registering
  <2>2. ASSUME NEW q \in Request, Registering(q)' PROVE q \in lock'[request'[q].code]
    BY <1>1, <1>2, <1>3, <2>1, <2>2 DEF Inv, LockInv
  <2>3. ASSUME NEW c \in Invite, NEW q \in Request, q \in lock'[c] PROVE lock'[c] = {q}
    BY <1>3, <2>3 DEF Inv, LockInv, Source
  <2> QED
    BY <2>2, <2>3 DEF LockInv
<1>5. FoundInv'
  BY <1>1, <1>2 DEF Inv, FoundInv
<1>6. NameInv'
  <2>1. \A q \in Request : request'[q].at = "inserted" =>
           request[q].at = "inserted" /\ request'[q].name = request[q].name
    BY <1>1
  <2>2. \A n \in Name : user'[n] = 0 => origin'[n] = NoCode
    BY DEF Inv, NameInv, Exists
  <2> QED
    BY <2>1, <2>2, NamesKeptBefore
<1>7. CodeAdmitsOne'
  BY DEF Inv, CodeAdmitsOne
<1> QED
  BY <1>4, <1>5, <1>6, <1>7

LEMMA AdminStep ==
    ASSUME RegistrationAssumption, Inv, NEW r \in Request, CreateAdmin(r)
    PROVE  LockInv' /\ FoundInv' /\ NameInv' /\ CodeAdmitsOne'
<1>0. TypeOK /\ UNCHANGED <<invite, share, lock, origin>>
  BY DEF Inv, CreateAdmin
<1>1. request'[r] = Idle /\ \A q \in Request : q # r => request'[q] = request[q]
  BY <1>0, Steps DEF CreateAdmin, Ends
<1>2. \A n \in Name : n # Admin => user'[n] = user[n]
  BY DEF CreateAdmin
<1>3. \A n \in Name : Exists(n) => Exists(n)'
  BY <1>0, <1>2 DEF CreateAdmin, Exists
<1>4. LockInv'
  BY <1>0, <1>1 DEF Inv, LockInv, Registering, Idle
<1>5. FoundInv'
  BY <1>0, <1>1 DEF Inv, FoundInv, Registering, Idle
<1>6. NameInv'
  <2>1. ASSUME NEW q \in Request, request'[q].at = "inserted"
        PROVE  /\ request[q].at = "inserted" /\ request'[q].name = request[q].name
               /\ user'[request[q].name] = user[request[q].name]
    <3>1. request'[q] = request[q] /\ request[q].at = "inserted"
      BY <1>1, <2>1 DEF Idle
    <3>2. request[q].name \in Name \ {Admin}
      BY <3>1 DEF Inv, RequestInv
    <3> QED
      BY <1>2, <3>1, <3>2
  <2>2. \A n \in Name : user'[n] = 0 => origin'[n] = NoCode
    BY <1>0, <1>3 DEF Inv, NameInv, Exists
  <2> QED
    BY <2>1, <2>2, NamesKeptBefore
<1>7. CodeAdmitsOne'
  BY <1>0 DEF Inv, CodeAdmitsOne
<1> QED
  BY <1>4, <1>5, <1>6, <1>7

\* Finding a code or a share valid, under the lock of its row.
LEMMA ValidateStep ==
    ASSUME RegistrationAssumption, Inv, NEW r \in Request, Validate(r)
    PROVE  LockInv' /\ FoundInv' /\ NameInv' /\ CodeAdmitsOne'
<1> DEFINE c == request[r].code
<1>0. /\ TypeOK /\ UNCHANGED <<user, invite, share, origin>>
      /\ request[r].at = "register" /\ c \in Source
  BY DEF Inv, Validate, RequestInv
<1>1. CASE Ends(r) /\ lock' = lock
  BY <1>0, <1>1, QuietRequest DEF Ends, Idle
<1>2. CASE /\ request' = [request EXCEPT ![r].at = "validated"]
           /\ lock' = [lock EXCEPT ![c] = @ \cup {r}]
           /\ c \in Invite => lock[c] = {} /\ ValidInvite(c)
           /\ c \in Share => ~share[c].revoked
  <2>1. request'[r] = [request[r] EXCEPT !.at = "validated"]
        /\ \A q \in Request : q # r => request'[q] = request[q]
    BY <1>0, <1>2 DEF TypeOK
  <2>2. request'[r].at = "validated" /\ request'[r].code = c
    BY <1>0, <2>1 DEF TypeOK
  <2> HIDE DEF c
  <2>3. lock'[c] = lock[c] \cup {r} /\ \A d \in Source : d # c => lock'[d] = lock[d]
    BY <1>0, <1>2 DEF TypeOK
  <2>4. LockInv'
    <3>1. ASSUME NEW q \in Request, Registering(q)' PROVE q \in lock'[request'[q].code]
      <4>1. CASE q = r
        BY <2>2, <2>3, <4>1
      <4>2. CASE q # r
        <5>1. request'[q] = request[q] /\ Registering(q) /\ request[q].code \in Source
          BY <2>1, <3>1, <4>2 DEF Inv, RequestInv, Registering
        <5> QED
          BY <2>3, <5>1 DEF Inv, LockInv
      <4> QED
        BY <4>1, <4>2
    <3>2. ASSUME NEW d \in Invite, NEW q \in Request, q \in lock'[d] PROVE lock'[d] = {q}
      BY <1>2, <2>3, <3>2 DEF Inv, LockInv, Source
    <3> QED
      BY <3>1, <3>2 DEF LockInv
  <2>5. FoundInv'
    <3>1. ASSUME NEW q \in Request, Registering(q)', q # r PROVE Registering(q)
      BY <2>1, <3>1 DEF Registering
    <3> QED
      BY <1>0, <1>2, <2>1, <2>2, <3>1 DEF Inv, FoundInv, ValidInvite
  <2>6. NameInv'
    <3>1. \A q \in Request : request'[q].at = "inserted" =>
             request[q].at = "inserted" /\ request'[q].name = request[q].name
      BY <2>1, <2>2
    <3>2. \A n \in Name : user'[n] = 0 => origin'[n] = NoCode
      BY <1>0 DEF Inv, NameInv, Exists
    <3> QED
      BY <1>0, <3>1, <3>2, NamesKeptBefore
  <2>7. CodeAdmitsOne'
    BY <1>0 DEF Inv, CodeAdmitsOne
  <2> QED
    BY <2>4, <2>5, <2>6, <2>7
<1>3. \/ Ends(r) /\ lock' = lock
      \/ /\ request' = [request EXCEPT ![r].at = "validated"]
         /\ lock' = [lock EXCEPT ![c] = @ \cup {r}]
         /\ c \in Invite => lock[c] = {} /\ ValidInvite(c)
         /\ c \in Share => ~share[c].revoked
  <2>1. Invite \cap Share = {} /\ lock \in [Source -> SUBSET Request]
    BY <1>0 DEF RegistrationAssumption, TypeOK
  <2>2. CASE c \in Invite
    <3>1. LockInvite(r, c)
      BY <2>1, <2>2 DEF Validate
    <3>2. CASE ValidInvite(c) /\ ~Exists(request[r].name)
      <4>1. /\ lock' = [lock EXCEPT ![c] = {r}] /\ lock[c] = {}
            /\ request' = [request EXCEPT ![r].at = "validated"]
        BY <3>1, <3>2 DEF LockInvite
      <4>2. [lock EXCEPT ![c] = {r}] = [lock EXCEPT ![c] = @ \cup {r}]
        BY <4>1
      <4> QED
        BY <2>1, <2>2, <3>2, <4>1, <4>2
    <3> QED
      BY <3>1, <3>2 DEF LockInvite
  <2>3. CASE c \in Share
    BY <2>1, <2>3 DEF Validate, LockShare, ActiveShare
  <2> QED
    BY <1>0, <2>2, <2>3 DEF Source
<1> QED
  BY <1>1, <1>2, <1>3

LEMMA InsertStep ==
    ASSUME RegistrationAssumption, Inv, NEW r \in Request, InsertUser(r)
    PROVE  LockInv' /\ FoundInv' /\ NameInv' /\ CodeAdmitsOne'
<1>0. TypeOK /\ UNCHANGED <<user, invite, share, origin>> /\ request[r].at = "validated"
  BY DEF Inv, InsertUser
<1>1. CASE Exists(request[r].name)
  BY <1>0, <1>1, QuietRequest DEF InsertUser, Ends, Idle
<1>2. CASE ~Exists(request[r].name)
  <2>1. lock' = lock /\ request' = [request EXCEPT ![r].at = "inserted"]
    BY <1>2 DEF InsertUser
  <2>2. request'[r] = [request[r] EXCEPT !.at = "inserted"]
        /\ \A q \in Request : q # r => request'[q] = request[q]
    BY <1>0, <2>1 DEF TypeOK
  <2>3. /\ request'[r].at = "inserted" /\ request'[r].code = request[r].code
        /\ request'[r].name = request[r].name
    BY <1>0, <2>2 DEF TypeOK
  <2>4. \A q \in Request : /\ Registering(q)' <=> Registering(q)
                           /\ request'[q].code = request[q].code
    BY <1>0, <2>2, <2>3 DEF Registering
  <2>5. LockInv' /\ FoundInv'
    BY <1>0, <2>1, <2>4 DEF Inv, LockInv, FoundInv
  <2>6. NameInv'
    <3>1. \A q \in Request : request[q].at = "inserted" => request[q].name # request[r].name
      BY DEF InsertUser, Pending
    <3>2. ASSUME NEW q \in Request, request'[q].at = "inserted"
          PROVE  user'[request'[q].name] = 0
      <4>1. CASE q = r
        BY <1>0, <1>2, <2>3, <4>1 DEF Exists
      <4>2. CASE q # r
        <5>1. request'[q] = request[q] /\ ~Exists(request[q].name)
          BY <2>2, <3>2, <4>2 DEF Inv, NameInv
        <5> QED
          BY <1>0, <5>1 DEF Exists
      <4> QED
        BY <4>1, <4>2
    <3>3. ASSUME NEW p \in Request, NEW q \in Request, p # q,
                 request'[p].at = "inserted", request'[q].at = "inserted"
          PROVE  request'[p].name # request'[q].name
      <4>1. CASE p # r /\ q # r
        <5>1. request'[p] = request[p] /\ request'[q] = request[q]
          BY <2>2, <4>1
        <5> QED
          BY <3>3, <5>1 DEF Inv, NameInv
      <4>2. CASE p = r
        BY <2>2, <2>3, <3>1, <3>3, <4>2
      <4>3. CASE q = r
        BY <2>2, <2>3, <3>1, <3>3, <4>3
      <4> QED
        BY <4>1, <4>2, <4>3
    <3>4. \A m \in Name : user'[m] = 0 => origin'[m] = NoCode
      BY <1>0 DEF Inv, NameInv, Exists
    <3> QED
      BY <3>2, <3>3, <3>4, NamesKept
  <2>7. CodeAdmitsOne'
    BY <1>0 DEF Inv, CodeAdmitsOne
  <2> QED
    BY <2>5, <2>6, <2>7
<1> QED
  BY <1>1, <1>2

LEMMA CommitStep ==
    ASSUME RegistrationAssumption, Inv, NEW r \in Request, CommitRegister(r)
    PROVE  LockInv' /\ FoundInv' /\ NameInv' /\ CodeAdmitsOne'
<1> DEFINE n == request[r].name
           c == request[r].code
<1>0. /\ TypeOK /\ share' = share /\ request[r].at = "inserted" /\ Registering(r)
      /\ n \in Name /\ c \in Source
  BY DEF Inv, CommitRegister, RequestInv, Registering
<1>1. CASE UNCHANGED <<user, invite, origin>>
  BY <1>0, <1>1, QuietRequest DEF CommitRegister, Ends, Idle
<1>2. CASE /\ user' = [user EXCEPT ![n] = 1]
           /\ invite' = IF c \in Invite THEN [invite EXCEPT ![c].usedBy = n] ELSE invite
           /\ origin' = [origin EXCEPT ![n] = c]
  <2>1. request'[r] = Idle /\ \A q \in Request : q # r => request'[q] = request[q]
    BY <1>0, Steps DEF CommitRegister, Ends
  <2>2. \A q \in Request : Registering(q)' => q # r /\ Registering(q)
    BY <2>1 DEF Registering, Idle
  <2>3. \A d \in Source : lock'[d] = lock[d] \ {r}
    BY DEF CommitRegister, Release
  <2>4. r \in lock[c] /\ (c \in Invite => lock[c] = {r})
    BY <1>0 DEF Inv, LockInv
  <2>5. ~Exists(n) /\ origin[n] = NoCode
    BY <1>0 DEF Inv, NameInv
  <2>6. c \in Invite => invite[c].made /\ invite[c].usedBy = NoName
    BY <1>0 DEF Inv, FoundInv
  <2>7. /\ user'[n] = 1 /\ \A m \in Name : m # n => user'[m] = user[m]
        /\ origin'[n] = c /\ \A m \in Name : m # n => origin'[m] = origin[m]
    BY <1>0, <1>2 DEF TypeOK
  <2>8. /\ c \in Invite => /\ invite'[c].usedBy = n /\ invite'[c].made = invite[c].made
        /\ \A d \in Invite : d # c => invite'[d] = invite[d]
    BY <1>0, <1>2 DEF TypeOK
  <2>9. NoName # n /\ NoCode # c
    BY <1>0 DEF RegistrationAssumption
  <2>10. \A q \in Request : Registering(q) => request[q].code \in Source
    BY DEF Inv, RequestInv, Registering
  <2> HIDE DEF n, c
  <2>11. LockInv'
    <3>1. ASSUME NEW q \in Request, Registering(q)' PROVE q \in lock'[request'[q].code]
      BY <2>1, <2>2, <2>3, <2>10, <3>1 DEF Inv, LockInv
    <3>2. ASSUME NEW d \in Invite, NEW q \in Request, q \in lock'[d] PROVE lock'[d] = {q}
      BY <2>3, <3>2 DEF Inv, LockInv, Source
    <3> QED
      BY <3>1, <3>2 DEF LockInv
  <2>12. FoundInv'
    <3> SUFFICES ASSUME NEW q \in Request, Registering(q)'
                 PROVE  /\ request'[q].code \in Invite =>
                              /\ invite'[request'[q].code].made
                              /\ invite'[request'[q].code].usedBy = NoName
                        /\ request'[q].code \in Share => ~share'[request'[q].code].revoked
      BY DEF FoundInv
    <3>1. q # r /\ Registering(q) /\ request'[q] = request[q]
      BY <2>1, <2>2
    <3>2. ASSUME request[q].code \in Invite PROVE request[q].code # c
      <4>1. q \in lock[request[q].code]
        BY <3>1 DEF Inv, LockInv
      <4> QED
        BY <2>4, <3>1, <3>2, <4>1
    <3> QED
      BY <1>0, <2>8, <3>1, <3>2 DEF Inv, FoundInv
  <2>13. NameInv'
    <3>1. ASSUME NEW q \in Request, request'[q].at = "inserted"
          PROVE  /\ request[q].at = "inserted" /\ request'[q].name = request[q].name
                 /\ user'[request[q].name] = user[request[q].name]
      <4>1. q # r /\ request'[q] = request[q] /\ request[q].at = "inserted"
        BY <2>1, <3>1 DEF Idle
      <4>2. request[q].name \in Name
        BY <4>1 DEF Inv, RequestInv
      <4>3. request[q].name # n
        BY <1>0, <4>1 DEF Inv, NameInv, n
      <4> QED
        BY <2>7, <4>1, <4>2, <4>3
    <3>2. \A m \in Name : user'[m] = 0 => origin'[m] = NoCode
      BY <2>7 DEF Inv, NameInv, Exists
    <3> QED
      BY <3>1, <3>2, NamesKeptBefore
  <2>14. CodeAdmitsOne'
    <3> SUFFICES ASSUME NEW d \in Invite, NEW m \in Name
                 PROVE  origin'[m] = d <=> invite'[d].usedBy = m /\ invite'[d].made
      BY DEF CodeAdmitsOne
    <3>1. origin[m] = d <=> invite[d].usedBy = m /\ invite[d].made
      BY DEF Inv, CodeAdmitsOne
    <3>2. d # NoCode /\ m # NoName
      BY DEF RegistrationAssumption, Source
    <3>3. CASE d = c
      BY <2>5, <2>6, <2>7, <2>8, <3>1, <3>2, <3>3
    <3>4. CASE d # c
      BY <2>5, <2>7, <2>8, <3>1, <3>2, <3>4
    <3> QED
      BY <3>3, <3>4
  <2> QED
    BY <2>11, <2>12, <2>13, <2>14
<1> QED
  BY <1>1, <1>2 DEF CommitRegister

LEMMA PasswordStep ==
    ASSUME RegistrationAssumption, Inv, NEW r \in Request, ChangePassword(r)
    PROVE  LockInv' /\ FoundInv' /\ NameInv' /\ CodeAdmitsOne'
<1> DEFINE n == request[r].name
<1>0. /\ TypeOK /\ UNCHANGED <<invite, share, lock, origin>>
      /\ n \in Name /\ request[r].hash # 0
  BY DEF Inv, ChangePassword, RequestInv
<1>1. request'[r] = Idle /\ \A q \in Request : q # r => request'[q] = request[q]
  BY <1>0, Steps DEF ChangePassword, Ends
<1>2. \A m \in Name : Exists(m)' <=> Exists(m)
  <2>1. CASE user' = user
    BY <2>1 DEF Exists
  <2>2. CASE Replaces(r) /\ user' = [user EXCEPT ![n] = @ + 1]
    <3>1. user[n] # 0 /\ user[n] \in 0..3 /\ user'[n] = user[n] + 1
      BY <1>0, <2>2 DEF Replaces, TypeOK
    <3> QED
      BY <1>0, <2>2, <3>1 DEF Exists, TypeOK
  <2> QED
    BY <2>1, <2>2 DEF ChangePassword
<1>3. LockInv' /\ FoundInv'
  BY <1>0, <1>1 DEF Inv, LockInv, FoundInv, Registering, Idle
<1>4. NameInv'
  <2>1. \A q \in Request : request'[q].at = "inserted" =>
           request'[q] = request[q] /\ request[q].name \in Name
    BY <1>1 DEF Idle, Inv, RequestInv
  <2> QED
    BY <1>0, <1>2, <2>1 DEF Inv, NameInv
<1>5. CodeAdmitsOne'
  BY <1>0 DEF Inv, CodeAdmitsOne
<1> QED
  BY <1>3, <1>4, <1>5

\* Codes are made and shares revoked while registrations are under way.
LEMMA SourceStep ==
    ASSUME RegistrationAssumption, Inv,
           \/ \E c \in Invite : CreateInviteCode(c)
           \/ \E s \in Share : RevokeShare(s)
    PROVE  LockInv' /\ FoundInv' /\ NameInv' /\ CodeAdmitsOne'
<1>0. TypeOK /\ UNCHANGED <<user, lock, request, origin>>
  BY DEF Inv, CreateInviteCode, RevokeShare
<1>1. LockInv' /\ NameInv'
  BY <1>0 DEF Inv, LockInv, NameInv, Registering, Exists
<1>2. ASSUME NEW c \in Invite, CreateInviteCode(c) PROVE FoundInv' /\ CodeAdmitsOne'
  <2>1. /\ share' = share /\ ~invite[c].made
        /\ invite'[c].usedBy = NoName /\ invite'[c].made
        /\ \A d \in Invite : d # c => invite'[d] = invite[d]
    BY <1>0, <1>2 DEF CreateInviteCode, TypeOK
  <2>2. FoundInv'
    BY <1>0, <2>1 DEF Inv, FoundInv, Registering
  <2>3. CodeAdmitsOne'
    BY <1>0, <2>1 DEF Inv, CodeAdmitsOne, RegistrationAssumption
  <2> QED
    BY <2>2, <2>3
<1>3. ASSUME NEW s \in Share, RevokeShare(s) PROVE FoundInv' /\ CodeAdmitsOne'
  <2>1. /\ invite' = invite /\ lock[s] = {}
        /\ \A d \in Share : d # s => share'[d] = share[d]
    BY <1>0, <1>3 DEF RevokeShare, TypeOK
  <2>2. ASSUME NEW q \in Request, Registering(q) PROVE request[q].code # s
    BY <2>1, <2>2 DEF Inv, LockInv
  <2>3. FoundInv'
    BY <1>0, <2>1, <2>2 DEF Inv, FoundInv, Registering
  <2>4. CodeAdmitsOne'
    BY <1>0, <2>1 DEF Inv, CodeAdmitsOne
  <2> QED
    BY <2>3, <2>4
<1> QED
  BY <1>1, <1>2, <1>3

LEMMA StepInv == ASSUME RegistrationAssumption PROVE Inv /\ [Next]_vars => Inv'
<1> SUFFICES ASSUME Inv, [Next]_vars PROVE LockInv' /\ FoundInv' /\ NameInv' /\ CodeAdmitsOne'
  BY StepType DEF Inv
<1>0. TypeOK
  BY DEF Inv
<1>1. ASSUME NEW r \in Request,
             \/ InitAdmin(r) \/ \E n \in Name : VerifyPassword(r, n)
             \/ \E n \in Name \ {Admin}, c \in Source : Register(r, n, c)
      PROVE  LockInv' /\ FoundInv' /\ NameInv' /\ CodeAdmitsOne'
  <2>1. lock' = lock /\ user' = user /\ UNCHANGED <<invite, share, origin>>
    BY <1>1 DEF InitAdmin, VerifyPassword, Register
  <2>2. PICK at \in {"initAdmin", "change", "register"}, n \in Name,
             c \in Source \cup {NoCode} : \E h \in 0..3 : Begins(r, at, n, c, h)
    BY <1>0, <1>1 DEF InitAdmin, VerifyPassword, Register, RegistrationAssumption, TypeOK
  <2>3. PICK h \in 0..3 : Begins(r, at, n, c, h)
    BY <2>2
  <2> DEFINE new == [at |-> at, name |-> n, code |-> c, hash |-> h]
  <2>4. new.at \notin {"validated", "inserted"} /\ request' = [request EXCEPT ![r] = new]
    BY <2>3 DEF Begins
  <2> HIDE DEF new
  <2> QED
    BY <1>0, <2>1, <2>4, QuietRequest
<1>2. CASE Tick \/ UNCHANGED vars
  <2>1. UNCHANGED <<user, invite, share, lock, request, origin>>
    BY <1>2 DEF Tick, vars
  <2> QED
    BY <2>1 DEF Inv, LockInv, FoundInv, NameInv, CodeAdmitsOne, Registering, Exists
<1> QED
  BY <1>1, <1>2, AdminStep, ValidateStep, InsertStep, CommitStep, PasswordStep, SourceStep
     DEF Next

LEMMA InitInv == ASSUME RegistrationAssumption PROVE Init => Inv
<1> SUFFICES ASSUME Init PROVE Inv
  OBVIOUS
<1>1. TypeOK /\ RequestInv
  BY InitType
<1>2. LockInv /\ FoundInv /\ NameInv
  BY DEF Init, LockInv, FoundInv, NameInv, Registering, Idle, Source
<1>3. CodeAdmitsOne
  BY DEF Init, CodeAdmitsOne, RegistrationAssumption, Source
<1> QED
  BY <1>1, <1>2, <1>3 DEF Inv

-----------------------------------------------------------------------------
(* The theorems *)

\* The inductive invariant holds, in whatever order requests lock, insert, commit
\* and roll back.
THEOREM Invariance == ASSUME RegistrationAssumption PROVE Spec => []Inv
<1>1. Init => Inv
  BY InitInv
<1>2. Inv /\ [Next]_vars => Inv'
  BY StepInv
<1> QED
  BY <1>1, <1>2, PTL DEF Spec

\* An invite code admits one account, and the account it admitted is the one
\* its row names, for any number of requests that present it at once.
THEOREM CodeAdmitsOneAlways ==
    ASSUME RegistrationAssumption PROVE Spec => []CodeAdmitsOne
<1>1. Inv => CodeAdmitsOne
  BY DEF Inv
<1> QED
  BY <1>1, Invariance, PTL

LEMMA AccountSteps ==
    ASSUME RegistrationAssumption
    PROVE  Inv /\ [Next]_vars => AdmittedByLiveShareStep /\ ChangesFencedStep
<1> SUFFICES ASSUME Inv, [Next]_vars PROVE AdmittedByLiveShareStep /\ ChangesFencedStep
  OBVIOUS
<1>0. TypeOK
  BY DEF Inv
<1>1. ASSUME NEW r \in Request, CommitRegister(r)
      PROVE  AdmittedByLiveShareStep /\ ChangesFencedStep
  <2> DEFINE n == request[r].name
             c == request[r].code
  <2>1. n \in Name /\ ~Exists(n) /\ (c \in Share => ~share[c].revoked)
    BY <1>1 DEF Inv, CommitRegister, RequestInv, NameInv, FoundInv, Registering
  <2>2. \A m \in Name : m # n => user'[m] = user[m] /\ origin'[m] = origin[m]
    BY <1>0, <1>1 DEF CommitRegister, TypeOK
  <2>3. origin'[n] \in {origin[n], c}
    BY <1>0, <1>1, <2>1 DEF CommitRegister, TypeOK
  <2>4. NoCode \notin Share
    BY DEF RegistrationAssumption, Source
  <2> HIDE DEF n, c
  <2>5. AdmittedByLiveShareStep
    BY <2>1, <2>2, <2>3, <2>4 DEF AdmittedByLiveShareStep
  <2>6. ChangesFencedStep
    BY <2>1, <2>2 DEF ChangesFencedStep
  <2> QED
    BY <2>5, <2>6
<1>2. ASSUME NEW r \in Request, ChangePassword(r)
      PROVE  AdmittedByLiveShareStep /\ ChangesFencedStep
  <2>1. AdmittedByLiveShareStep
    BY <1>2 DEF ChangePassword, AdmittedByLiveShareStep, RegistrationAssumption, Source
  <2>2. request[r].at = "change" /\ request[r].name \in Name
    BY <1>2 DEF Inv, ChangePassword, RequestInv
  <2>3. \A m \in Name : user'[m] # user[m] => m = request[r].name /\ Replaces(r)
    BY <1>0, <1>2 DEF ChangePassword, TypeOK
  <2>4. ChangesFencedStep
    BY <2>2, <2>3 DEF ChangesFencedStep, Replaces
  <2> QED
    BY <2>1, <2>4
<1>3. ASSUME NEW r \in Request, CreateAdmin(r)
      PROVE  AdmittedByLiveShareStep /\ ChangesFencedStep
  <2>1. origin' = origin /\ \A m \in Name : user'[m] # user[m] => ~Exists(m)
    BY <1>0, <1>3 DEF CreateAdmin, TypeOK
  <2> QED
    BY <2>1 DEF AdmittedByLiveShareStep, ChangesFencedStep, RegistrationAssumption, Source
<1>4. CASE UNCHANGED <<user, origin>>
  BY <1>4 DEF AdmittedByLiveShareStep, ChangesFencedStep, RegistrationAssumption, Source
<1> QED
  BY <1>1, <1>2, <1>3, <1>4 DEF Next, vars, InitAdmin, Register, Validate, InsertUser,
     VerifyPassword, CreateInviteCode, RevokeShare, Tick

\* Nobody is admitted by a share that was revoked: revoking waits for the
\* registrations that found it live, and comes before all others.
THEOREM AdmittedByLiveShareAlways ==
    ASSUME RegistrationAssumption PROVE Spec => AdmittedByLiveShare
<1>1. Inv /\ [Next]_vars => AdmittedByLiveShareStep
  BY AccountSteps
<1> QED
  BY <1>1, Invariance, PTL DEF Spec, AdmittedByLiveShare

\* A password only changes by a request that verified the one it replaces.
THEOREM ChangesFencedAlways ==
    ASSUME RegistrationAssumption PROVE Spec => ChangesFenced
<1>1. Inv /\ [Next]_vars => ChangesFencedStep
  BY AccountSteps
<1> QED
  BY <1>1, Invariance, PTL DEF Spec, ChangesFenced

-----------------------------------------------------------------------------
(* Signing in: what a request knows of its code or its round trip *)

CodeFits(ch) ==
    /\ ch.mail # "none" => ch.email \in Email
    /\ ch.uses <= 1
    /\ ch.uses = 1 => ch.consumed

FlowFits(fl) ==
    /\ fl.stage \in {"completion", "resolving"} => fl.subject \in Foreign
    /\ fl.stage \in {"none", "state", "asking", "completion"} => fl.uses = 0
    /\ fl.uses <= 1
    /\ fl.stage = "resolving" => fl.present = fl.bind

CodeInv == \A c \in Challenge : CodeFits(challenge[c])
FlowInv == \A f \in Flow : FlowFits(flow[f])

SignInInv ==
    /\ SI!TypeOK /\ CodeInv /\ FlowInv
    /\ SI!LinkedByOwner /\ SI!OneAccountEach

Someone == SI!Account \cup {Nobody}

Code == [email : Email \cup {NoSubject}, bind : Someone, made : 0..MaxTime,
         wrong : 0..Guesses, consumed : BOOLEAN,
         mail : {"none", "sending", "sent", "failing", "failed"}, uses : 0..2]
RoundTrip ==
    [stage : {"none", "state", "asking", "completion", "resolving", "over"},
     browser : Browser \cup {"-"}, bind : Someone, present : Someone,
     subject : Foreign \cup {NoSubject}, until : 0..(MaxTime + StateLife), uses : 0..2]

LEMMA SignInTypes ==
    ASSUME SI!SignInAssumption
    PROVE  /\ SI!TypeOK <=>
                /\ now \in 0..MaxTime /\ account \subseteq SI!Account
                /\ identity \in [SI!Subject -> Someone]
                /\ challenge \in [Challenge -> Code] /\ flow \in [Flow -> RoundTrip]
                /\ linker \in [SI!Subject -> {<<>>} \cup (Someone \X Someone)]
           /\ MaxTime \in Nat /\ StateLife \in Nat /\ TicketLife \in 0..StateLife
           /\ Guesses \in Nat
BY DEF SI!SignInAssumption, SI!TypeOK, Someone, Code, RoundTrip

LEMMA SignInInit == ASSUME SI!SignInAssumption PROVE SI!Init => SignInInv
<1> SUFFICES ASSUME SI!Init PROVE SignInInv
  OBVIOUS
<1>1. SI!TypeOK
  BY DEF SI!SignInAssumption, SI!Init, SI!TypeOK, SI!NoChallenge, SI!NoFlow, SI!Account,
     SI!Subject
<1>2. CodeFits(SI!NoChallenge) /\ FlowFits(SI!NoFlow)
  BY DEF CodeFits, FlowFits, SI!NoChallenge, SI!NoFlow
<1>3. CodeInv /\ FlowInv
  BY <1>2 DEF SI!Init, CodeInv, FlowInv
<1>4. SI!LinkedByOwner /\ SI!OneAccountEach
  BY DEF SI!Init, SI!LinkedByOwner, SI!OneAccountEach
<1> QED
  BY <1>1, <1>3, <1>4 DEF SignInInv

\* Whoever resolves a subject, with the session that asked for it, leaves every
\* method with its owner.
LEMMA Resolving ==
    ASSUME SI!SignInAssumption, SignInInv, NEW s \in SI!Subject, NEW b \in Someone,
           NEW u \in SI!Resolved(s, b), SI!ResolveIdentity(s, b, b, u)
    PROVE  /\ account' \subseteq SI!Account
           /\ identity' \in [SI!Subject -> Someone]
           /\ linker' \in [SI!Subject -> {<<>>} \cup (Someone \X Someone)]
           /\ SI!LinkedByOwner' /\ SI!OneAccountEach' /\ SI!MethodKeptStep
<1>0. /\ account \subseteq SI!Account /\ identity \in [SI!Subject -> Someone]
      /\ linker \in [SI!Subject -> {<<>>} \cup (Someone \X Someone)]
      /\ u \in SI!Account /\ Nobody \notin SI!Account
  BY SignInTypes DEF SignInInv, SI!Resolved, SI!SignInAssumption
<1>1. /\ account' = account \cup {u} /\ identity'[s] = u
      /\ \A t \in SI!Subject : t # s => identity'[t] = identity[t] /\ linker'[t] = linker[t]
      /\ linker'[s] = IF identity[s] = Nobody THEN <<b, b>> ELSE linker[s]
  BY <1>0 DEF SI!ResolveIdentity
<1>2. identity' \in [SI!Subject -> Someone]
  BY <1>0 DEF SI!ResolveIdentity, Someone
<1>3. linker' \in [SI!Subject -> {<<>>} \cup (Someone \X Someone)]
  <2>1. (IF identity[s] = Nobody THEN <<b, b>> ELSE linker[s])
           \in {<<>>} \cup (Someone \X Someone)
    BY <1>0
  <2> QED
    BY <1>0, <2>1 DEF SI!ResolveIdentity
<1>4. identity[s] # Nobody => u = identity[s]
  BY DEF SI!Resolved
<1>5. identity[s] = Nobody => u = b \/ (b = Nobody /\ u \in Newcomer)
  BY DEF SI!Resolved
<1>6. SI!LinkedByOwner'
  <2> SUFFICES ASSUME NEW t \in SI!Subject, identity'[t] # Nobody
               PROVE  \/ linker'[t] = <<identity'[t], identity'[t]>>
                      \/ linker'[t] = <<Nobody, Nobody>> /\ identity'[t] \in Newcomer
    BY DEF SI!LinkedByOwner
  <2>1. CASE t # s
    BY <1>1, <2>1 DEF SignInInv, SI!LinkedByOwner
  <2>2. CASE t = s /\ identity[s] # Nobody
    BY <1>1, <1>4, <2>2 DEF SignInInv, SI!LinkedByOwner
  <2>3. CASE t = s /\ identity[s] = Nobody
    BY <1>1, <1>5, <2>3
  <2> QED
    BY <2>1, <2>2, <2>3
<1>7. SI!OneAccountEach'
  <2> SUFFICES ASSUME NEW v \in account' \ Member
               PROVE  \E t \in SI!Subject : identity'[t] = v
    BY DEF SI!OneAccountEach
  <2>1. CASE v = u
    BY <1>1, <2>1
  <2>2. CASE v # u
    <3>1. PICK t \in SI!Subject : identity[t] = v
      BY <1>1, <2>2 DEF SignInInv, SI!OneAccountEach
    <3>2. v # Nobody
      BY <1>0, <1>1
    <3> QED
      BY <1>1, <1>4, <3>1, <3>2
  <2> QED
    BY <2>1, <2>2
<1>8. SI!MethodKeptStep
  BY <1>1, <1>4 DEF SI!MethodKeptStep
<1> QED
  BY <1>0, <1>1, <1>2, <1>3, <1>6, <1>7, <1>8

\* A step that writes one challenge, and one that writes one round trip.
LEMMA CodeWritten ==
    ASSUME SI!SignInAssumption, SignInInv, NEW c \in Challenge, NEW new \in Code,
           CodeFits(new), challenge' = [challenge EXCEPT ![c] = new]
    PROVE  challenge' \in [Challenge -> Code] /\ CodeInv'
BY SignInTypes DEF SignInInv, CodeInv

LEMMA FlowWritten ==
    ASSUME SI!SignInAssumption, SignInInv, NEW f \in Flow, NEW new \in RoundTrip,
           FlowFits(new), flow' = [flow EXCEPT ![f] = new]
    PROVE  flow' \in [Flow -> RoundTrip] /\ FlowInv'
BY SignInTypes DEF SignInInv, FlowInv

\* Accounts and methods of a step that leaves them alone.
LEMMA MethodsUntouched ==
    ASSUME SI!SignInAssumption, SignInInv, UNCHANGED <<account, identity, linker>>
    PROVE  /\ account' \subseteq SI!Account
           /\ identity' \in [SI!Subject -> Someone]
           /\ linker' \in [SI!Subject -> {<<>>} \cup (Someone \X Someone)]
           /\ SI!LinkedByOwner' /\ SI!OneAccountEach' /\ SI!MethodKeptStep
BY SignInTypes DEF SignInInv, SI!LinkedByOwner, SI!OneAccountEach, SI!MethodKeptStep

\* The parts of the invariant, for a step's result.
MethodsKept ==
    /\ account' \subseteq SI!Account /\ identity' \in [SI!Subject -> Someone]
    /\ linker' \in [SI!Subject -> {<<>>} \cup (Someone \X Someone)]
    /\ SI!LinkedByOwner' /\ SI!OneAccountEach' /\ SI!MethodKeptStep

LEMMA CodeStep ==
    ASSUME SI!SignInAssumption, SignInInv, NEW c \in Challenge,
           \/ SI!Delivery(c) \/ SI!InvalidateEmail(c)
           \/ \E u \in account \cup {Nobody} :
                \/ \E e \in Email : SI!EmailCode(c, e, u)
                \/ SI!WrongCode(c, u) \/ SI!RightCode(c, u)
    PROVE  challenge' \in [Challenge -> Code] /\ CodeInv' /\ MethodsKept
<1> DEFINE ch == challenge[c]
<1>0. /\ now \in 0..MaxTime /\ challenge \in [Challenge -> Code] /\ ch \in Code
      /\ CodeFits(ch) /\ account \subseteq SI!Account /\ MaxTime \in Nat /\ Guesses \in Nat
      /\ 0 \in 0..2 /\ 1 \in 0..2 /\ 0 \in 0..Guesses
  BY SignInTypes DEF SignInInv, CodeInv
<1>1. CASE SI!Delivery(c)
  <2>1. PICK m \in {"sent", "failing"} : challenge' = [challenge EXCEPT ![c].mail = m]
    BY <1>1 DEF SI!Delivery
  <2> DEFINE new == [ch EXCEPT !.mail = m]
  <2>2. challenge' = [challenge EXCEPT ![c] = new]
    BY <2>1
  <2>3. new \in Code /\ CodeFits(new)
    BY <1>0, <1>1 DEF Code, CodeFits, SI!Delivery
  <2> HIDE DEF new
  <2> QED
    BY <1>1, <2>2, <2>3, CodeWritten, MethodsUntouched DEF SI!Delivery, MethodsKept
<1>2. CASE SI!InvalidateEmail(c)
  <2>1. PICK done \in BOOLEAN :
          challenge' = [challenge EXCEPT ![c].mail = "failed", ![c].consumed = @ \/ done]
    BY <1>2 DEF SI!InvalidateEmail
  <2> DEFINE new == [ch EXCEPT !.mail = "failed", !.consumed = @ \/ done]
  <2>2. challenge' = [challenge EXCEPT ![c] = new]
    BY <1>0, <2>1
  <2>3. new \in Code /\ CodeFits(new)
    BY <1>0, <1>2 DEF Code, CodeFits, SI!InvalidateEmail
  <2> HIDE DEF new
  <2> QED
    BY <1>2, <2>2, <2>3, CodeWritten, MethodsUntouched DEF SI!InvalidateEmail, MethodsKept
<1>3. ASSUME NEW u \in account \cup {Nobody}, NEW e \in Email, SI!EmailCode(c, e, u)
      PROVE  challenge' \in [Challenge -> Code] /\ CodeInv' /\ MethodsKept
  <2> DEFINE new == [SI!NoChallenge EXCEPT !.email = e, !.bind = u, !.made = now,
                                           !.mail = "sending"]
  <2>1. challenge' = [challenge EXCEPT ![c] = new]
    BY <1>3 DEF SI!EmailCode
  <2>2. u \in Someone
    BY <1>0 DEF Someone
  <2>3. new \in Code
    BY <1>0, <2>2 DEF Code, SI!NoChallenge
  <2>4. new.email = e /\ new.uses = 0
    BY DEF SI!NoChallenge
  <2>5. CodeFits(new)
    BY <2>4 DEF CodeFits
  <2> HIDE DEF new
  <2> QED
    BY <1>3, <2>1, <2>3, <2>5, CodeWritten, MethodsUntouched DEF SI!EmailCode, MethodsKept
<1>4. ASSUME NEW u \in account \cup {Nobody}, SI!WrongCode(c, u)
      PROVE  challenge' \in [Challenge -> Code] /\ CodeInv' /\ MethodsKept
  <2> DEFINE new == [ch EXCEPT !.wrong = @ + 1]
  <2>1. challenge' = [challenge EXCEPT ![c] = new]
    BY <1>4 DEF SI!WrongCode
  <2>2. ch.wrong + 1 \in 0..Guesses
    BY <1>0, <1>4 DEF Code, SI!WrongCode, SI!Open
  <2>3. new \in Code /\ CodeFits(new)
    BY <1>0, <2>2 DEF Code, CodeFits
  <2> HIDE DEF new
  <2> QED
    BY <1>4, <2>1, <2>3, CodeWritten, MethodsUntouched DEF SI!WrongCode, MethodsKept
<1>5. ASSUME NEW u \in account \cup {Nobody}, SI!RightCode(c, u)
      PROVE  challenge' \in [Challenge -> Code] /\ CodeInv' /\ MethodsKept
  <2> DEFINE new == SI!Spent(ch)
  <2>1. challenge' = [challenge EXCEPT ![c] = new]
    BY <1>5 DEF SI!RightCode
  <2>2. /\ ch.mail # "none" /\ ch.bind = u /\ ch.consumed = FALSE
        /\ ch.email \in SI!Subject /\ u \in Someone
    BY <1>0, <1>5 DEF SI!RightCode, SI!Open, CodeFits, SI!Subject, Code, Someone
  <2>3. new \in Code /\ CodeFits(new)
    <3>1. ch.uses = 0
      BY <1>0, <2>2 DEF Code, CodeFits
    <3>2. new = [ch EXCEPT !.consumed = TRUE, !.uses = 1]
      BY <1>0, <3>1 DEF Code, SI!Spent
    <3>3. new \in Code
      BY <1>0, <3>2 DEF Code
    <3>4. new.email = ch.email /\ new.mail = ch.mail /\ new.uses = 1 /\ new.consumed
      BY <1>0, <3>2 DEF Code
    <3> QED
      BY <1>0, <3>3, <3>4 DEF CodeFits
  <2>4. PICK a \in SI!Resolved(ch.email, u) : SI!ResolveIdentity(ch.email, u, u, a)
    BY <1>5, <2>2 DEF SI!RightCode
  <2>5. MethodsKept
    BY <2>2, <2>4, Resolving DEF MethodsKept
  <2> HIDE DEF new
  <2> QED
    BY <2>1, <2>3, <2>5, CodeWritten
<1> QED
  BY <1>1, <1>2, <1>3, <1>4, <1>5

LEMMA FlowStep ==
    ASSUME SI!SignInAssumption, SignInInv, NEW f \in Flow,
           \/ SI!ProviderAnswer(f) \/ SI!FinishExchange(f)
           \/ \E b \in Browser : SI!OAuthCallback(f, b)
           \/ \E b \in Browser, u \in account \cup {Nobody} :
                SI!OAuthStart(f, b, u) \/ SI!OAuthExchange(f, b, u)
    PROVE  flow' \in [Flow -> RoundTrip] /\ FlowInv' /\ MethodsKept
<1> DEFINE fl == flow[f]
<1>0. /\ now \in 0..MaxTime /\ flow \in [Flow -> RoundTrip] /\ fl \in RoundTrip
      /\ FlowFits(fl) /\ account \subseteq SI!Account /\ MaxTime \in Nat /\ StateLife \in Nat
      /\ now + StateLife \in 0..(MaxTime + StateLife)
      /\ now + TicketLife \in 0..(MaxTime + StateLife) /\ 0 \in 0..2 /\ 1 \in 0..2
  BY SignInTypes DEF SignInInv, FlowInv
<1>1. CASE SI!ProviderAnswer(f)
  <2>1. PICK new :
          /\ flow' = [flow EXCEPT ![f] = new]
          /\ \/ \E s \in Foreign :
                  new = [fl EXCEPT !.stage = "completion", !.subject = s,
                                   !.until = now + TicketLife]
             \/ new = [fl EXCEPT !.stage = "over"]
    <3>1. CASE flow' = [flow EXCEPT ![f].stage = "over"]
      BY <3>1
    <3>2. ASSUME NEW s \in Foreign,
                 flow' = [flow EXCEPT ![f].stage = "completion", ![f].subject = s,
                                      ![f].until = now + TicketLife]
          PROVE  flow' = [flow EXCEPT ![f] =
                   [fl EXCEPT !.stage = "completion", !.subject = s,
                              !.until = now + TicketLife]]
      BY <1>0, <3>2
    <3> QED
      BY <1>1, <3>1, <3>2 DEF SI!ProviderAnswer
  <2>2. new \in RoundTrip
    BY <1>0, <2>1 DEF RoundTrip
  <2>3. FlowFits(new)
    BY <1>0, <1>1, <2>1 DEF RoundTrip, FlowFits, SI!ProviderAnswer
  <2> QED
    BY <1>1, <2>1, <2>2, <2>3, FlowWritten, MethodsUntouched
       DEF SI!ProviderAnswer, MethodsKept
<1>2. CASE SI!FinishExchange(f)
  <2> DEFINE new == [fl EXCEPT !.stage = "over"]
  <2>1. flow' = [flow EXCEPT ![f] = new]
    BY <1>2 DEF SI!FinishExchange
  <2>2. new \in RoundTrip /\ FlowFits(new)
    BY <1>0 DEF RoundTrip, FlowFits
  <2>3. fl.subject \in SI!Subject /\ fl.present = fl.bind /\ fl.bind \in Someone
    BY <1>0, <1>2 DEF SI!FinishExchange, FlowFits, SI!Subject, RoundTrip
  <2>4. MethodsKept
    <3>1. CASE UNCHANGED <<account, identity, linker>>
      BY <3>1, MethodsUntouched DEF MethodsKept
    <3>2. CASE \E u \in SI!Resolved(fl.subject, fl.bind) :
                 SI!ResolveIdentity(fl.subject, fl.bind, fl.bind, u)
      BY <2>3, <3>2, Resolving DEF MethodsKept
    <3> QED
      BY <1>2, <2>3, <3>1, <3>2 DEF SI!FinishExchange
  <2> HIDE DEF new
  <2> QED
    BY <2>1, <2>2, <2>4, FlowWritten
<1>3. ASSUME NEW b \in Browser, SI!OAuthCallback(f, b)
      PROVE  flow' \in [Flow -> RoundTrip] /\ FlowInv' /\ MethodsKept
  <2> DEFINE new == [fl EXCEPT !.stage = "asking"]
  <2>1. flow' = [flow EXCEPT ![f] = new]
    BY <1>3 DEF SI!OAuthCallback
  <2>2. new \in RoundTrip /\ FlowFits(new)
    BY <1>0, <1>3 DEF RoundTrip, FlowFits, SI!OAuthCallback, SI!TakeFlow
  <2> HIDE DEF new
  <2> QED
    BY <1>3, <2>1, <2>2, FlowWritten, MethodsUntouched DEF SI!OAuthCallback, MethodsKept
<1>4. ASSUME NEW b \in Browser, NEW u \in account \cup {Nobody}, SI!OAuthStart(f, b, u)
      PROVE  flow' \in [Flow -> RoundTrip] /\ FlowInv' /\ MethodsKept
  <2> DEFINE new == [SI!NoFlow EXCEPT !.stage = "state", !.browser = b, !.bind = u,
                                      !.until = now + StateLife]
  <2>1. flow' = [flow EXCEPT ![f] = new]
    BY <1>4 DEF SI!OAuthStart
  <2>2. u \in Someone /\ Nobody \in Someone
    BY <1>0 DEF Someone
  <2>3. new \in RoundTrip
    BY <1>0, <2>2 DEF RoundTrip, SI!NoFlow
  <2>4. new.stage = "state" /\ new.uses = 0
    BY DEF SI!NoFlow
  <2>5. FlowFits(new)
    BY <2>4 DEF FlowFits
  <2> HIDE DEF new
  <2> QED
    BY <1>4, <2>1, <2>3, <2>5, FlowWritten, MethodsUntouched DEF SI!OAuthStart, MethodsKept
<1>5. ASSUME NEW b \in Browser, NEW u \in account \cup {Nobody}, SI!OAuthExchange(f, b, u)
      PROVE  flow' \in [Flow -> RoundTrip] /\ FlowInv' /\ MethodsKept
  <2> DEFINE new == [fl EXCEPT
         !.stage = IF SI!SameAccount(f, u) THEN "resolving" ELSE "over",
         !.present = u, !.uses = IF @ < 2 THEN @ + 1 ELSE @]
  <2>1. flow' = [flow EXCEPT ![f] = new]
    BY <1>0, <1>5 DEF SI!OAuthExchange
  <2>2. fl.stage = "completion" /\ u \in Someone
    BY <1>0, <1>5 DEF SI!OAuthExchange, SI!TakeFlow, Someone
  <2>3. fl.uses = 0
    BY <1>0, <2>2 DEF FlowFits
  <2>4. PICK stage \in {"resolving", "over"} :
           /\ new = [fl EXCEPT !.stage = stage, !.present = u, !.uses = 1]
           /\ stage = "resolving" => u = fl.bind
    <3>1. new = [fl EXCEPT !.stage = IF SI!SameAccount(f, u) THEN "resolving" ELSE "over",
                           !.present = u, !.uses = 1]
      BY <1>0, <2>3 DEF RoundTrip
    <3> QED
      BY <3>1 DEF SI!SameAccount
  <2> HIDE DEF new
  <2>5. new \in RoundTrip
    BY <1>0, <2>2, <2>4 DEF RoundTrip
  <2>6. /\ new.stage = stage /\ new.present = u /\ new.bind = fl.bind
        /\ new.subject = fl.subject /\ new.uses = 1
    BY <1>0, <2>4 DEF RoundTrip
  <2>7. FlowFits(new)
    BY <1>0, <2>2, <2>4, <2>6 DEF FlowFits
  <2> QED
    BY <1>5, <2>1, <2>5, <2>7, FlowWritten, MethodsUntouched
       DEF SI!OAuthExchange, MethodsKept
<1> QED
  BY <1>1, <1>2, <1>3, <1>4, <1>5

LEMMA SignInStep ==
    ASSUME SI!SignInAssumption
    PROVE  SignInInv /\ [SI!Next]_(SI!vars) => SignInInv' /\ SI!MethodKeptStep
<1> SUFFICES ASSUME SignInInv, [SI!Next]_(SI!vars)
             PROVE  SignInInv' /\ SI!MethodKeptStep
  OBVIOUS
<1>0. /\ now \in 0..MaxTime /\ challenge \in [Challenge -> Code]
      /\ flow \in [Flow -> RoundTrip] /\ CodeInv /\ FlowInv /\ MaxTime \in Nat
  BY SignInTypes DEF SignInInv
<1>1. CASE \E c \in Challenge :
              \/ SI!Delivery(c) \/ SI!InvalidateEmail(c)
              \/ \E u \in account \cup {Nobody} :
                   \/ \E e \in Email : SI!EmailCode(c, e, u)
                   \/ SI!WrongCode(c, u) \/ SI!RightCode(c, u)
  <2>1. challenge' \in [Challenge -> Code] /\ CodeInv' /\ MethodsKept
    BY <1>1, CodeStep
  <2>2. now' = now /\ flow' = flow
    BY <1>1 DEF SI!Delivery, SI!InvalidateEmail, SI!EmailCode, SI!WrongCode, SI!RightCode
  <2>3. FlowInv'
    BY <1>0, <2>2 DEF FlowInv
  <2>4. SI!TypeOK'
    BY <1>0, <2>1, <2>2 DEF SI!TypeOK, MethodsKept, Someone, Code, RoundTrip
  <2> QED
    BY <2>1, <2>3, <2>4 DEF SignInInv, MethodsKept
<1>2. CASE \E f \in Flow :
              \/ SI!ProviderAnswer(f) \/ SI!FinishExchange(f)
              \/ \E b \in Browser : SI!OAuthCallback(f, b)
              \/ \E b \in Browser, u \in account \cup {Nobody} :
                   SI!OAuthStart(f, b, u) \/ SI!OAuthExchange(f, b, u)
  <2>1. flow' \in [Flow -> RoundTrip] /\ FlowInv' /\ MethodsKept
    BY <1>2, FlowStep
  <2>2. now' = now /\ challenge' = challenge
    BY <1>2 DEF SI!ProviderAnswer, SI!FinishExchange, SI!OAuthCallback, SI!OAuthStart,
       SI!OAuthExchange
  <2>3. CodeInv'
    BY <1>0, <2>2 DEF CodeInv
  <2>4. SI!TypeOK'
    BY <1>0, <2>1, <2>2 DEF SI!TypeOK, MethodsKept, Someone, Code, RoundTrip
  <2> QED
    BY <2>1, <2>3, <2>4 DEF SignInInv, MethodsKept
<1>3. CASE SI!Tick \/ UNCHANGED SI!vars
  <2>1. /\ now' \in 0..MaxTime /\ challenge' = challenge /\ flow' = flow
        /\ UNCHANGED <<account, identity, linker>>
    BY <1>0, <1>3 DEF SI!Tick, SI!vars
  <2>2. MethodsKept
    BY <2>1, MethodsUntouched DEF MethodsKept
  <2>3. CodeInv' /\ FlowInv'
    BY <1>0, <2>1 DEF CodeInv, FlowInv
  <2>4. SI!TypeOK'
    BY <1>0, <2>1, <2>2 DEF SI!TypeOK, MethodsKept, Someone, Code, RoundTrip
  <2> QED
    BY <2>2, <2>3, <2>4 DEF SignInInv, MethodsKept
<1> QED
  BY <1>1, <1>2, <1>3 DEF SI!Next

\* The inductive invariant of signing in holds, however codes and round trips
\* of several requests and sessions interleave.
THEOREM SignInInvariance == ASSUME SI!SignInAssumption PROVE SI!Spec => []SignInInv
<1>1. SI!Init => SignInInv
  BY SignInInit
<1>2. SignInInv /\ [SI!Next]_(SI!vars) => SignInInv'
  BY SignInStep
<1> QED
  BY <1>1, <1>2, PTL DEF SI!Spec

\* A code and a ticket sign in once at most, whoever presents them together.
THEOREM SingleUseAlways == ASSUME SI!SignInAssumption PROVE SI!Spec => []SI!SingleUse
<1>1. SignInInv => SI!SingleUse
  BY DEF SignInInv, CodeInv, FlowInv, CodeFits, FlowFits, SI!SingleUse
<1> QED
  BY <1>1, SignInInvariance, PTL

\* A login method is the one its owner asked for and proved while signed in.
THEOREM LinkedByOwnerAlways ==
    ASSUME SI!SignInAssumption PROVE SI!Spec => [](SI!LinkedByOwner /\ SI!OneAccountEach)
<1>1. SignInInv => SI!LinkedByOwner /\ SI!OneAccountEach
  BY DEF SignInInv
<1> QED
  BY <1>1, SignInInvariance, PTL

\* A login method never changes hands.
THEOREM MethodKeptAlways == ASSUME SI!SignInAssumption PROVE SI!Spec => SI!MethodKept
<1>1. SignInInv /\ [SI!Next]_(SI!vars) => SI!MethodKeptStep
  BY SignInStep
<1> QED
  BY <1>1, SignInInvariance, PTL DEF SI!Spec, SI!MethodKept

-----------------------------------------------------------------------------
(* Attempt limits: in a window still open the row has counted at least the    *)
(* attempts that were let through, so the limit on the row is one on them.    *)

CountInv ==
    /\ \A b \in Bucket : bucket[b].until > now => admitted[b] <= bucket[b].attempts

GuardInv == AG!TypeOK /\ AG!WindowKept /\ CountInv

LEMMA GuardInit == ASSUME AG!GuardAssumption PROVE AG!Init => GuardInv
<1> SUFFICES ASSUME AG!Init PROVE GuardInv
  OBVIOUS
<1>1. AG!TypeOK
  BY DEF AG!GuardAssumption, AG!Init, AG!TypeOK, AG!Idle
<1> QED
  BY <1>1 DEF AG!GuardAssumption, AG!Init, GuardInv, AG!WindowKept, CountInv

\* An attempt on a budget, whatever becomes of the request.
LEMMA Attempted ==
    ASSUME AG!GuardAssumption, GuardInv, NEW b \in Bucket, AG!Allow(b), now' = now,
           admitted' = [admitted EXCEPT ![b] =
               IF AG!Attempts(b) <= Limit[b] THEN (IF AG!Over(b) THEN 1 ELSE @ + 1)
               ELSE IF AG!Over(b) THEN 0 ELSE @]
    PROVE  /\ bucket' \in [Bucket -> [attempts : Nat, until : 0..(MaxTime + Window)]]
           /\ admitted' \in [Bucket -> Nat]
           /\ AG!WindowKept' /\ CountInv' /\ AG!WindowFixedStep
<1>0. /\ now \in 0..MaxTime /\ admitted \in [Bucket -> Nat] /\ MaxTime \in Nat
      /\ Window \in Nat \ {0} /\ Limit \in [Bucket -> Nat]
      /\ bucket \in [Bucket -> [attempts : Nat, until : 0..(MaxTime + Window)]]
  BY DEF GuardInv, AG!TypeOK, AG!GuardAssumption
<1> DEFINE n == AG!Attempts(b)
           u == IF AG!Over(b) THEN now + Window ELSE bucket[b].until
           m == IF n <= Limit[b] THEN (IF AG!Over(b) THEN 1 ELSE admitted[b] + 1)
                ELSE IF AG!Over(b) THEN 0 ELSE admitted[b]
<1>1. /\ n \in Nat /\ u \in 0..(MaxTime + Window) /\ u <= now + Window
      /\ u > bucket[b].until => AG!Over(b)
  BY <1>0 DEF AG!Attempts, AG!Over, GuardInv, AG!WindowKept
<1>2. m \in Nat /\ m <= Limit[b] /\ m <= n
  BY <1>0 DEF AG!Attempts, AG!Over, GuardInv, AG!WindowKept, CountInv
<1>3. bucket' = [bucket EXCEPT ![b] = [attempts |-> n, until |-> u]]
  BY DEF AG!Allow
<1>4. admitted' = [admitted EXCEPT ![b] = m]
  OBVIOUS
<1> HIDE DEF n, u, m
<1>5. /\ bucket'[b] = [attempts |-> n, until |-> u] /\ admitted'[b] = m
      /\ \A c \in Bucket : c # b => bucket'[c] = bucket[c] /\ admitted'[c] = admitted[c]
  BY <1>0, <1>3, <1>4
<1>6. AG!WindowKept'
  BY <1>0, <1>1, <1>2, <1>5 DEF GuardInv, AG!WindowKept
<1>7. CountInv'
  BY <1>0, <1>2, <1>5 DEF GuardInv, CountInv
<1>8. AG!WindowFixedStep
  <2> SUFFICES ASSUME NEW c \in Bucket, bucket'[c].until > bucket[c].until
               PROVE  AG!Over(c)
    BY DEF AG!WindowFixedStep
  <2>1. CASE c = b
    BY <1>1, <1>5, <2>1
  <2>2. CASE c # b
    BY <1>0, <1>5, <2>2
  <2> QED
    BY <2>1, <2>2
<1>9. bucket' \in [Bucket -> [attempts : Nat, until : 0..(MaxTime + Window)]]
  BY <1>0, <1>1, <1>3
<1>10. admitted' \in [Bucket -> Nat]
  BY <1>0, <1>2, <1>4
<1> QED
  BY <1>6, <1>7, <1>8, <1>9, <1>10

\* Nothing is counted.
LEMMA NotCounted ==
    ASSUME AG!GuardAssumption, GuardInv, UNCHANGED <<bucket, admitted>>,
           now' \in 0..MaxTime, now' >= now
    PROVE  AG!WindowKept' /\ CountInv' /\ AG!WindowFixedStep
<1>1. /\ now \in Nat /\ now' \in Nat /\ Window \in Nat
      /\ \A b \in Bucket : bucket[b].until \in Nat
  BY DEF GuardInv, AG!TypeOK, AG!GuardAssumption
<1>2. AG!WindowKept' /\ CountInv'
  BY <1>1 DEF GuardInv, AG!WindowKept, CountInv
<1> QED
  BY <1>1, <1>2 DEF AG!WindowFixedStep

LEMMA GuardStep ==
    ASSUME AG!GuardAssumption, GuardInv, [AG!Next]_(AG!vars)
    PROVE  GuardInv' /\ AG!WindowFixedStep
<1>0. /\ now \in 0..MaxTime /\ admitted \in [Bucket -> Nat] /\ MaxTime \in Nat
      /\ Window \in Nat \ {0} /\ Bucket \subseteq {"network", "action", "site", "enrol"}
      /\ bucket \in [Bucket -> [attempts : Nat, until : 0..(MaxTime + Window)]]
      /\ request \in [Request -> [action : Action \cup {"-"}, at : AG!Stage \cup {"idle"}]]
  BY DEF GuardInv, AG!TypeOK, AG!GuardAssumption
<1>1. ASSUME NEW r \in Request, NEW a \in Action, AG!TakeSlot(r, a)
      PROVE  GuardInv' /\ AG!WindowFixedStep
  <2>1. AG!TypeOK'
    BY <1>0, <1>1 DEF AG!TakeSlot, AG!TypeOK, AG!Stage
  <2> QED
    BY <1>0, <1>1, <2>1, NotCounted DEF AG!TakeSlot, GuardInv
<1>2. ASSUME NEW r \in Request, AG!Take(r)
      PROVE  GuardInv' /\ AG!WindowFixedStep
  <2> DEFINE b == request[r].at
  <2>1. b \in Bucket /\ now' = now
    BY <1>2 DEF AG!Take
  <2>2. request' \in [Request -> [action : Action \cup {"-"}, at : AG!Stage \cup {"idle"}]]
    <3>1. AG!After(r) \in AG!Stage
      BY <1>0, <2>1 DEF AG!After, AG!Stage
    <3>2. request' = [request EXCEPT ![r].at = AG!After(r)] \/ request' = [request EXCEPT ![r] = AG!Idle]
      BY <1>2 DEF AG!Take
    <3> QED
      BY <1>0, <3>1, <3>2 DEF AG!Idle
  <2>3. CASE UNCHANGED <<bucket, admitted>>
    BY <1>0, <2>1, <2>2, <2>3, NotCounted DEF GuardInv, AG!TypeOK
  <2>4. CASE AG!Allow(b) /\ ~UNCHANGED <<bucket, admitted>>
    <3>1. admitted' = [admitted EXCEPT ![b] =
               IF AG!Attempts(b) <= Limit[b] THEN (IF AG!Over(b) THEN 1 ELSE @ + 1)
               ELSE IF AG!Over(b) THEN 0 ELSE @]
      BY <1>2, <2>4 DEF AG!Take
    <3> HIDE DEF b
    <3> QED
      BY <1>0, <2>1, <2>2, <2>4, <3>1, Attempted DEF GuardInv, AG!TypeOK
  <2> QED
    BY <1>2, <2>3, <2>4 DEF AG!Take
<1>3. ASSUME NEW r \in Request, AG!Captcha(r) \/ AG!Handled(r)
      PROVE  GuardInv' /\ AG!WindowFixedStep
  <2>1. AG!TypeOK'
    BY <1>0, <1>3 DEF AG!Captcha, AG!Handled, AG!TypeOK, AG!Stage, AG!Idle
  <2> QED
    BY <1>0, <1>3, <2>1, NotCounted DEF AG!Captcha, AG!Handled, GuardInv
<1>4. ASSUME NEW b \in Bucket, AG!Prune(b)
      PROVE  GuardInv' /\ AG!WindowFixedStep
  <2>1. /\ bucket'[b] = [attempts |-> 0, until |-> 0] /\ bucket[b].until \in Nat
        /\ \A c \in Bucket : c # b => bucket'[c] = bucket[c]
        /\ admitted' = admitted /\ now' = now
    BY <1>0, <1>4 DEF AG!Prune
  <2>2. AG!TypeOK'
    BY <1>0, <1>4 DEF AG!Prune, AG!TypeOK
  <2>3. AG!WindowKept' /\ CountInv'
    BY <1>0, <2>1 DEF GuardInv, AG!WindowKept, CountInv
  <2>4. AG!WindowFixedStep
    <3> SUFFICES ASSUME NEW c \in Bucket, bucket'[c].until > bucket[c].until
                 PROVE  AG!Over(c)
      BY DEF AG!WindowFixedStep
    <3>1. bucket[c].until \in Nat
      BY <1>0
    <3>2. bucket'[c].until <= bucket[c].until
      BY <2>1, <3>1
    <3> QED
      BY <2>1, <3>1, <3>2
  <2> QED
    BY <2>2, <2>3, <2>4 DEF GuardInv
<1>5. ASSUME AG!Tick
      PROVE  GuardInv' /\ AG!WindowFixedStep
  <2>1. AG!TypeOK'
    BY <1>0, <1>5 DEF AG!Tick, AG!TypeOK
  <2> QED
    BY <1>0, <1>5, <2>1, NotCounted DEF AG!Tick, GuardInv
<1>6. ASSUME UNCHANGED AG!vars
      PROVE  GuardInv' /\ AG!WindowFixedStep
  <2>1. AG!TypeOK'
    BY <1>0, <1>6 DEF AG!vars, AG!TypeOK
  <2> QED
    BY <1>0, <1>6, <2>1, NotCounted DEF AG!vars, GuardInv
<1> QED
  BY <1>1, <1>2, <1>3, <1>4, <1>5, <1>6 DEF AG!Next

\* No window of a budget lets more attempts through than its limit, however
\* requests, failures and the pruning of rows interleave (Take).
THEOREM WindowKeptAlways == ASSUME AG!GuardAssumption PROVE AG!Spec => []AG!WindowKept
<1>1. GuardInv => AG!WindowKept
  BY DEF GuardInv
<1> QED
  BY <1>1, GuardInit, GuardStep, PTL DEF AG!Spec

\* A window ends when it was to end, however often a client is refused.
THEOREM WindowFixedAlways == ASSUME AG!GuardAssumption PROVE AG!Spec => AG!WindowFixed
BY GuardInit, GuardStep, PTL DEF AG!Spec, AG!WindowFixed

-----------------------------------------------------------------------------
(* Refresh tokens: a request under way found a token that had been issued.    *)

TokensInv ==
    /\ TK!TypeOK
    /\ \A r \in Request : request[r] # NoToken => refresh[request[r]].user \in User

LEMMA TokensInit == ASSUME TK!TokensAssumption PROVE TK!Init => TokensInv
BY DEF TK!TokensAssumption, TK!Init, TokensInv, TK!TypeOK, TK!Unissued

\* What is signed is a token of a browser.
LEMMA Signed ==
    ASSUME TK!TokensAssumption, TK!TypeOK, NEW u \in User, NEW t \in Refresh \cup {NoToken},
           TK!SignToken(u, t)
    PROVE  /\ access' \subseteq [user : User, until : 0..(MaxTime + TokenTTL),
                                 via : Refresh \cup {NoToken}]
           /\ \A k \in access' \ access : k.via = t
BY DEF TK!TokensAssumption, TK!TypeOK, TK!SignToken

LEMMA TokensStep ==
    ASSUME TK!TokensAssumption, TokensInv, [TK!Next]_(TK!vars)
    PROVE  TokensInv' /\ TK!LogoutEndsStep
<1>0. /\ TK!TypeOK /\ now \in 0..MaxTime /\ request \in [Request -> Refresh \cup {NoToken}]
      /\ refresh \in [Refresh -> [user : User \cup {Nobody},
                                  until : 0..(MaxTime + RefreshTTL), revoked : BOOLEAN]]
      /\ access \subseteq [user : User, until : 0..(MaxTime + TokenTTL),
                           via : Refresh \cup {NoToken}]
      /\ Nobody \notin User /\ NoToken \notin Refresh
      /\ MaxTime \in Nat /\ TokenTTL \in Nat /\ RefreshTTL \in Nat
      /\ \A r \in Request : request[r] # NoToken => refresh[request[r]].user \in User
  BY DEF TokensInv, TK!TypeOK, TK!TokensAssumption
<1>1. ASSUME NEW u \in User, TK!Login(u)
      PROVE  TokensInv' /\ TK!LogoutEndsStep
  <2>1. /\ access' \subseteq [user : User, until : 0..(MaxTime + TokenTTL),
                              via : Refresh \cup {NoToken}]
        /\ \A k \in access' \ access : k.via = NoToken
    BY <1>0, <1>1, Signed DEF TK!Login
  <2>2. CASE UNCHANGED refresh
    <3>1. TokensInv'
      BY <1>0, <1>1, <2>1, <2>2 DEF TK!Login, TokensInv, TK!TypeOK
    <3> QED
      BY <1>1, <2>1, <3>1 DEF TK!Login, TK!LogoutEndsStep
  <2>3. CASE \E t \in Refresh : refresh[t] = TK!Unissued /\ TK!Issue(t, u)
    <3>1. PICK t \in Refresh : refresh[t] = TK!Unissued /\ TK!Issue(t, u)
      BY <2>3
    <3>2. now + RefreshTTL \in 0..(MaxTime + RefreshTTL)
      BY <1>0
    <3>3. /\ refresh' \in [Refresh -> [user : User \cup {Nobody},
                                       until : 0..(MaxTime + RefreshTTL), revoked : BOOLEAN]]
          /\ refresh'[t].user \in User
          /\ \A s \in Refresh : s # t => refresh'[s] = refresh[s]
      BY <1>0, <3>1, <3>2 DEF TK!Issue
    <3>4. TokensInv'
      <4>1. request' = request /\ now' = now
        BY <1>1 DEF TK!Login
      <4>2. \A r \in Request : request[r] # NoToken => refresh'[request[r]].user \in User
        BY <1>0, <3>3
      <4> QED
        BY <1>0, <2>1, <3>3, <4>1, <4>2 DEF TokensInv, TK!TypeOK
    <3> QED
      BY <1>1, <2>1, <3>4 DEF TK!Login, TK!LogoutEndsStep
  <2> QED
    BY <1>1, <2>2, <2>3 DEF TK!Login
<1>2. ASSUME NEW r \in Request, NEW t \in Refresh, TK!BeginRefresh(r, t)
      PROVE  TokensInv' /\ TK!LogoutEndsStep
  <2>1. refresh[t].user \in User /\ ~refresh[t].revoked
    BY <1>0, <1>2 DEF TK!BeginRefresh, TK!FindActiveByHash
  <2>2. /\ request'[r] = t /\ \A q \in Request : q # r => request'[q] = request[q]
        /\ request' \in [Request -> Refresh \cup {NoToken}]
    BY <1>0, <1>2 DEF TK!BeginRefresh
  <2>3. UNCHANGED <<now, refresh, access>>
    BY <1>2 DEF TK!BeginRefresh
  <2> QED
    BY <1>0, <2>1, <2>2, <2>3 DEF TokensInv, TK!TypeOK, TK!LogoutEndsStep
<1>3. ASSUME NEW r \in Request, TK!FinishRefresh(r)
      PROVE  TokensInv' /\ TK!LogoutEndsStep
  <2>1. /\ access' \subseteq [user : User, until : 0..(MaxTime + TokenTTL),
                              via : Refresh \cup {NoToken}]
        /\ \A k \in access' \ access : k.via = request[r]
    BY <1>0, <1>3, Signed DEF TK!FinishRefresh
  <2>2. /\ request'[r] = NoToken /\ \A q \in Request : q # r => request'[q] = request[q]
        /\ request' \in [Request -> Refresh \cup {NoToken}]
    BY <1>0, <1>3 DEF TK!FinishRefresh
  <2>3. UNCHANGED <<now, refresh>>
    BY <1>3 DEF TK!FinishRefresh
  <2> QED
    BY <1>0, <2>1, <2>2, <2>3 DEF TokensInv, TK!TypeOK, TK!LogoutEndsStep
<1>4. ASSUME NEW t \in Refresh, TK!Logout(t)
      PROVE  TokensInv' /\ TK!LogoutEndsStep
  <2>1. /\ \A s \in Refresh : refresh'[s].user = refresh[s].user
        /\ refresh' \in [Refresh -> [user : User \cup {Nobody},
                                     until : 0..(MaxTime + RefreshTTL), revoked : BOOLEAN]]
    BY <1>0, <1>4 DEF TK!Logout
  <2>2. UNCHANGED <<now, access, request>>
    BY <1>4 DEF TK!Logout
  <2> QED
    BY <1>0, <2>1, <2>2 DEF TokensInv, TK!TypeOK, TK!LogoutEndsStep
<1>5. ASSUME NEW k \in access, TK!AuthMiddleware(k)
      PROVE  TokensInv' /\ TK!LogoutEndsStep
  <2>1. /\ access' \subseteq [user : User, until : 0..(MaxTime + TokenTTL),
                              via : Refresh \cup {NoToken}]
        /\ \A j \in access' \ access : j.via = k.via
    BY <1>0, <1>5, Signed DEF TK!AuthMiddleware
  <2>2. k.until > now /\ UNCHANGED <<now, refresh, request>>
    BY <1>0, <1>5 DEF TK!AuthMiddleware
  <2> QED
    BY <1>0, <2>1, <2>2 DEF TokensInv, TK!TypeOK, TK!LogoutEndsStep
<1>6. ASSUME TK!Tick
      PROVE  TokensInv' /\ TK!LogoutEndsStep
  BY <1>0, <1>6 DEF TK!Tick, TokensInv, TK!TypeOK, TK!LogoutEndsStep
<1>7. ASSUME UNCHANGED TK!vars
      PROVE  TokensInv' /\ TK!LogoutEndsStep
  BY <1>0, <1>7 DEF TK!vars, TokensInv, TK!TypeOK, TK!LogoutEndsStep
<1> QED
  BY <1>1, <1>2, <1>3, <1>4, <1>5, <1>6, <1>7 DEF TK!Next

\* A refresh token that was revoked buys nothing more (Logout).
THEOREM LogoutEndsAlways == ASSUME TK!TokensAssumption PROVE TK!Spec => TK!LogoutEnds
BY TokensInit, TokensStep, PTL DEF TK!Spec, TK!LogoutEnds
=============================================================================
