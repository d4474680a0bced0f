------------------------------- MODULE Tokens -------------------------------
(* Access tokens (JWT), their sliding renewal, and the refresh tokens that *)
(* buy new ones.  internal/api/auth.go, internal/repository/               *)
(* refresh_token.go.  DeleteExpired and RevokeAllForUser have no caller.   *)
EXTENDS Naturals

CONSTANTS
    User,
    Request,        \* refreshing requests in flight
    Refresh,        \* refresh tokens
    Nobody, NoToken,
    TokenTTL, RenewBefore, RefreshTTL, MaxTime

VARIABLES
    now,
    refresh,        \* refresh[t]: user, until, revoked
    access,         \* access tokens in browsers: user, until, and (history) via,
                    \* the refresh token that bought it
    request         \* the refresh token each request found, and when

vars == <<now, refresh, access, request>>

TokensAssumption ==
    /\ Nobody \notin User /\ NoToken \notin Refresh
    /\ TokenTTL \in Nat /\ RefreshTTL \in Nat /\ MaxTime \in Nat

Unissued == [user |-> Nobody, until |-> 0, revoked |-> FALSE]

TypeOK ==
    /\ now \in 0..MaxTime
    /\ refresh \in [Refresh -> [user : User \cup {Nobody},
                                until : 0..(MaxTime + RefreshTTL), revoked : BOOLEAN]]
    /\ access \subseteq [user : User, until : 0..(MaxTime + TokenTTL),
                         via : Refresh \cup {NoToken}]
    /\ request \in [Request -> Refresh \cup {NoToken}]

Init ==
    /\ now = 0
    /\ refresh = [t \in Refresh |-> Unissued]
    /\ access = {}
    /\ request = [r \in Request |-> NoToken]

SignToken(u, t) == access' = access \cup {[user |-> u, until |-> now + TokenTTL, via |-> t]}

Issue(t, u) ==
    refresh' = [refresh EXCEPT ![t] = [user |-> u, until |-> now + RefreshTTL,
                                       revoked |-> FALSE]]

\* A login is answered without a refresh token if storing one fails.
Login(u) ==
    /\ SignToken(u, NoToken)
    /\ \/ UNCHANGED refresh
       \/ \E t \in Refresh : refresh[t] = Unissued /\ Issue(t, u)
    /\ UNCHANGED <<now, request>>

FindAnyByHash(t) == refresh[t].user # Nobody /\ now <= refresh[t].until
FindActiveByHash(t) ==
    /\ refresh[t].user # Nobody
    /\ ~refresh[t].revoked
    /\ now <= refresh[t].until

\* Refresh reads the row, then the user, and signs; nothing holds the row
\* between.
BeginRefresh(r, t) ==
    /\ request[r] = NoToken
    /\ FindActiveByHash(t)
    /\ request' = [request EXCEPT ![r] = t]
    /\ UNCHANGED <<now, refresh, access>>

FinishRefresh(r) ==
    /\ request[r] # NoToken
    /\ SignToken(refresh[request[r]].user, request[r])
    /\ request' = [request EXCEPT ![r] = NoToken]
    /\ UNCHANGED <<now, refresh>>

\* A revocation that fails is answered alike; it changes nothing.
Logout(t) ==
    /\ refresh[t].user # Nobody /\ ~refresh[t].revoked
    /\ refresh' = [refresh EXCEPT ![t].revoked = TRUE]
    /\ UNCHANGED <<now, access, request>>

\* Any request with a token about to expire is answered with a fresh one.
AuthMiddleware(k) ==
    /\ now < k.until
    /\ k.until < now + RenewBefore
    /\ SignToken(k.user, k.via)
    /\ UNCHANGED <<now, refresh, request>>

Tick ==
    /\ now < MaxTime
    /\ now' = now + 1
    /\ access' = {k \in access : k.until > now'}
    /\ UNCHANGED <<refresh, request>>

Next ==
    \/ \E u \in User : Login(u)
    \/ \E r \in Request, t \in Refresh : BeginRefresh(r, t)
    \/ \E r \in Request : FinishRefresh(r)
    \/ \E t \in Refresh : Logout(t)
    \/ \E k \in access : AuthMiddleware(k)
    \/ Tick

Spec == Init /\ [][Next]_vars

-----------------------------------------------------------------------------
\* Once a refresh token is revoked and the refreshes that had found it are
\* answered, it buys nothing more: of its line only tokens that a browser
\* keeps renewing are left.  A logout whose revocation is not stored, which is
\* answered alike, promises nothing here (Logout).
LogoutEndsStep ==
    /\ \A r \in Request :
         request[r] = NoToken /\ request'[r] # NoToken => ~refresh[request'[r]].revoked
    /\ \A k \in access' \ access :
         k.via # NoToken /\ refresh[k.via].revoked =>
            \/ \E r \in Request : request[r] = k.via
            \/ \E j \in access : j.via = k.via /\ j.until > now
LogoutEnds == [][LogoutEndsStep]_vars
=============================================================================
