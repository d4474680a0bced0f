---------------------------- MODULE Registration ----------------------------
(* Accounts with a password: registering by an invite code or a share, the *)
(* administrator, and changing the password.                               *)
(* internal/api/auth.go, internal/repository/user.go and                   *)
(* share_registration.go.  Statements of concurrent requests interleave;   *)
(* a row lock is held to the end of the transaction that took it.          *)
EXTENDS Naturals, FiniteSets

CONSTANTS
    Name,           \* user names; "admin" is the one InitAdmin uses
    Admin,
    Request,        \* requests in flight
    NoCode, NoName,
    Invite,         \* invite codes
    Share,          \* article shares of owners the policy allows
    TestUsers,      \* accounts beyond which no code is made
    InviteLife, ShareLife, MaxTime

VARIABLES
    now,
    user,           \* user[n]: version of the password hash, 0 = no such row
    invite,         \* invite[c]: until, usedBy
    share,          \* share[s]: until, revoked
    lock,           \* lock[c]: the transactions that hold the row
    request,        \* what each request does and has read
    origin          \* history: the code or the share a name registered with

vars == <<now, user, invite, share, lock, request, origin>>

Source == Invite \cup Share

RegistrationAssumption ==
    /\ Admin \in Name /\ NoName \notin Name /\ NoCode \notin Source
    /\ Invite \cap Share = {}
    /\ InviteLife \in Nat /\ ShareLife \in Nat /\ MaxTime \in Nat

Idle == [at |-> "idle", name |-> NoName, code |-> NoCode, hash |-> 0]

TypeOK ==
    /\ now \in 0..MaxTime
    /\ user \in [Name -> 0..3]
    /\ invite \in [Invite -> [made : BOOLEAN, until : 0..(MaxTime + InviteLife),
                              usedBy : Name \cup {NoName}]]
    /\ share \in [Share -> [until : 0..(MaxTime + ShareLife), revoked : BOOLEAN]]
    /\ lock \in [Source -> SUBSET Request]
    /\ request \in [Request ->
         [at : {"idle", "initAdmin", "register", "validated", "inserted",
                "change"},
          name : Name \cup {NoName}, code : Source \cup {NoCode}, hash : 0..3]]
    /\ origin \in [Name -> Source \cup {NoCode}]

Init ==
    /\ now = 0
    /\ user = [n \in Name |-> 0]
    /\ invite = [c \in Invite |-> [made |-> FALSE, until |-> 0, usedBy |-> NoName]]
    /\ share = [s \in Share |-> [until |-> ShareLife, revoked |-> FALSE]]
    /\ lock = [c \in Source |-> {}]
    /\ request = [r \in Request |-> Idle]
    /\ origin = [n \in Name |-> NoCode]

Exists(n) == user[n] # 0
Begins(r, at, n, c, h) ==
    request' = [request EXCEPT ![r] = [at |-> at, name |-> n, code |-> c, hash |-> h]]
Ends(r) == request' = [request EXCEPT ![r] = Idle]
Release(r) == lock' = [c \in Source |-> lock[c] \ {r}]

-----------------------------------------------------------------------------
\* The administrator: AdminExists is read, CreateAdmin inserts, and between
\* them another request may insert; the name is unique.
InitAdmin(r) ==
    /\ request[r] = Idle
    /\ ~Exists(Admin)
    /\ Begins(r, "initAdmin", Admin, NoCode, 0)
    /\ UNCHANGED <<now, user, invite, share, lock, origin>>

CreateAdmin(r) ==
    /\ request[r].at = "initAdmin"
    /\ user' = IF Exists(Admin) THEN user ELSE [user EXCEPT ![Admin] = 1]
    /\ Ends(r)
    /\ UNCHANGED <<now, invite, share, lock, origin>>

-----------------------------------------------------------------------------
\* Invite codes and shares.
CreateInviteCode(c) ==
    /\ Exists(Admin)
    /\ ~invite[c].made
    /\ Cardinality({n \in Name \ {Admin} : Exists(n)}) < TestUsers
    /\ invite' = [invite EXCEPT ![c] = [made |-> TRUE, until |-> now + InviteLife,
                                        usedBy |-> NoName]]
    /\ UNCHANGED <<now, user, share, lock, request, origin>>

\* Revoking a share updates its row, so it waits for a registration that
\* holds it FOR SHARE.
RevokeShare(s) ==
    /\ ~share[s].revoked
    /\ lock[s] = {}
    /\ share' = [share EXCEPT ![s].revoked = TRUE]
    /\ UNCHANGED <<now, user, invite, lock, request, origin>>

-----------------------------------------------------------------------------
\* Register, after the captcha: the transaction locks the code or the share,
\* validates it, looks the name up, inserts the account, marks the code, and
\* commits.  Any refusal or unique violation rolls all of it back.
Register(r, n, c) ==
    /\ request[r] = Idle
    /\ Begins(r, "register", n, c, 0)
    /\ UNCHANGED <<now, user, invite, share, lock, origin>>

\* FOR UPDATE excludes every other holder.
ValidInvite(c) == invite[c].made /\ now < invite[c].until /\ invite[c].usedBy = NoName

LockInvite(r, c) ==
    /\ lock[c] = {}
    /\ IF ValidInvite(c) /\ ~Exists(request[r].name)
       THEN /\ lock' = [lock EXCEPT ![c] = {r}]
            /\ request' = [request EXCEPT ![r].at = "validated"]
       ELSE Ends(r) /\ UNCHANGED lock

\* FOR SHARE excludes writers only; expiry is compared with the clock after
\* the lock has been waited for.
ActiveShare(s) == ~share[s].revoked /\ now < share[s].until

LockShare(r, s) ==
    IF ActiveShare(s)
    THEN /\ lock' = [lock EXCEPT ![s] = @ \cup {r}]
         /\ request' = [request EXCEPT ![r].at = "validated"]
    ELSE Ends(r) /\ UNCHANGED lock

Validate(r) ==
    /\ request[r].at = "register"
    /\ \/ request[r].code \in Invite /\ LockInvite(r, request[r].code)
       \/ request[r].code \in Share /\ LockShare(r, request[r].code)
    /\ UNCHANGED <<now, user, invite, share, origin>>

\* A name inserted by a transaction that has not ended makes the insert wait.
Pending(n) == \E q \in Request : request[q].at = "inserted" /\ request[q].name = n

InsertUser(r) ==
    /\ request[r].at = "validated"
    /\ ~Pending(request[r].name)
    /\ IF Exists(request[r].name)
       THEN Ends(r) /\ Release(r)
       ELSE request' = [request EXCEPT ![r].at = "inserted"] /\ UNCHANGED lock
    /\ UNCHANGED <<now, user, invite, share, origin>>

CommitRegister(r) ==
    LET n == request[r].name
        c == request[r].code
    IN  /\ request[r].at = "inserted"
        /\ Release(r)
        /\ Ends(r)
        /\ \/ /\ user' = [user EXCEPT ![n] = 1]
              /\ invite' = IF c \in Invite THEN [invite EXCEPT ![c].usedBy = n] ELSE invite
              /\ origin' = [origin EXCEPT ![n] = c]
           \/ UNCHANGED <<user, invite, origin>>
        /\ UNCHANGED <<now, share>>

-----------------------------------------------------------------------------
\* ChangePassword compares the old password with the row it reads; the update
\* is conditional on the hash that was compared.
VerifyPassword(r, n) ==
    /\ request[r] = Idle
    /\ Exists(n)
    /\ Begins(r, "change", n, NoCode, user[n])
    /\ UNCHANGED <<now, user, invite, share, lock, origin>>

Replaces(r) == user[request[r].name] = request[r].hash

ChangePassword(r) ==
    /\ request[r].at = "change"
    /\ user[request[r].name] < 3
    /\ user' = IF Replaces(r) THEN [user EXCEPT ![request[r].name] = @ + 1] ELSE user
    /\ Ends(r)
    /\ UNCHANGED <<now, invite, share, lock, origin>>

Tick ==
    /\ now < MaxTime
    /\ now' = now + 1
    /\ UNCHANGED <<user, invite, share, lock, request, origin>>

Next ==
    \/ \E r \in Request :
         \/ InitAdmin(r) \/ CreateAdmin(r)
         \/ \E n \in Name \ {Admin}, c \in Source : Register(r, n, c)
         \/ Validate(r) \/ InsertUser(r) \/ CommitRegister(r)
         \/ \E n \in Name : VerifyPassword(r, n)
         \/ ChangePassword(r)
    \/ \E c \in Invite : CreateInviteCode(c)
    \/ \E s \in Share : RevokeShare(s)
    \/ Tick

Spec == Init /\ [][Next]_vars

-----------------------------------------------------------------------------
\* A code admits one account, and the account it admitted is the one its row
\* names, although two requests may hold the code at once (Register).
CodeAdmitsOne ==
    \A c \in Invite, n \in Name : origin[n] = c <=> invite[c].usedBy = n /\ invite[c].made

\* An account is admitted by a share only while the share is live: revoking
\* waits for the registrations that have found it so (RegisterFromShare).
AdmittedByLiveShareStep ==
    \A n \in Name : origin[n] = NoCode /\ origin'[n] \in Share
                    => ~share[origin'[n]].revoked
AdmittedByLiveShare == [][AdmittedByLiveShareStep]_vars

\* Of the password changes that verified one hash only one takes effect, so
\* nobody's new password is lost without an answer (ErrPasswordChanged).
ChangesFencedStep ==
    \A n \in Name : user'[n] # user[n] /\ Exists(n) =>
      \E r \in Request : /\ request[r].at = "change" /\ request[r].name = n
                         /\ request[r].hash = user[n]
ChangesFenced == [][ChangesFencedStep]_vars
=============================================================================
