------------------------------- MODULE Shortcut -------------------------------
(* The phone's shortcut: a code shown in the settings is exchanged once for a   *)
(* capture key, and a key captures until the owner disconnects.                 *)
(* internal/repository/shortcut.go, internal/api/shortcut.go.                   *)
(*                                                                              *)
(* A transaction reads what is committed when its statement runs and locks rows *)
(* until it ends.                                                               *)
EXTENDS Naturals, FiniteSets

CONSTANTS
    Request,        \* each made once
    Secret,         \* codes and keys, each drawn once
    Nobody,
    MaxTime         \* a code lives for one tick

VARIABLES
    now,
    pairing,        \* the owner's code
    connection,     \* the owner's keys
    request,
    owner,          \* who holds the users row FOR UPDATE
    sharers,        \* who holds it FOR KEY SHARE
    spent,          \* codes exchanged, with the key each gave
    captured        \* captures committed, with what was live when they began

vars == <<now, pairing, connection, request, owner, sharers, spent, captured>>

ShortcutAssumption == Nobody \notin Request /\ Nobody \notin Secret /\ MaxTime \in Nat

NoCode == [code |-> Nobody, until |-> 0]
Phase(does, at, secret, key) == [does |-> does, at |-> at, secret |-> secret, key |-> key]
New == Phase("none", "new", Nobody, Nobody)
Done == [New EXCEPT !.at = "done"]

Drawn == {pairing.code} \cup connection \cup {request[r].secret : r \in Request}
         \cup {request[r].key : r \in Request} \cup {p[1] : p \in spent} \cup {p[2] : p \in spent}

TypeOK ==
    /\ now \in 0..MaxTime /\ pairing.code \in Secret \cup {Nobody} /\ connection \subseteq Secret
    /\ \A r \in Request : request[r].does \in {"none", "pair", "connect", "revoke", "capture"}
    /\ owner \in Request \cup {Nobody} /\ sharers \subseteq Request
    /\ spent \subseteq Secret \X Secret

Init ==
    /\ now = 0 /\ pairing = NoCode /\ connection = {} /\ owner = Nobody /\ sharers = {}
    /\ request = [r \in Request |-> New] /\ spent = {} /\ captured = {}

Tick ==
    /\ now < MaxTime /\ now' = now + 1
    /\ UNCHANGED <<pairing, connection, request, owner, sharers, spent, captured>>

Becomes(r, q) == request' = [request EXCEPT ![r] = q]
Is(r, does, at) == request[r].does = does /\ request[r].at = at

-----------------------------------------------------------------------------
lockShortcutUser(r) == owner = Nobody /\ sharers \subseteq {r} /\ owner' = r /\ UNCHANGED sharers

Unlock(r) ==
    /\ owner' = IF owner = r THEN Nobody ELSE owner
    /\ sharers' = sharers \ {r}

\* The request's transaction ends without a trace.
Rollback(r) ==
    /\ request[r].at = "locked" /\ Becomes(r, Done) /\ Unlock(r)
    /\ UNCHANGED <<now, pairing, connection, spent, captured>>

\* A new code takes the place of the last one.
Pair(r) ==
    /\ request[r] = New /\ lockShortcutUser(r)
    /\ Becomes(r, Phase("pair", "locked", Nobody, Nobody))
    /\ UNCHANGED <<now, pairing, connection, spent, captured>>

CommitPair(r) ==
    /\ Is(r, "pair", "locked")
    /\ \E s \in Secret \ Drawn : pairing' = [code |-> s, until |-> now + 1]
    /\ Becomes(r, Done) /\ Unlock(r)
    /\ UNCHANGED <<now, connection, spent, captured>>

Valid(code) == pairing.code = code /\ pairing.until > now

\* Whose code is it ...
Connect(r) ==
    /\ request[r] = New /\ pairing.code # Nobody /\ Valid(pairing.code)
    /\ Becomes(r, Phase("connect", "read", pairing.code, Nobody))
    /\ UNCHANGED <<now, pairing, connection, owner, sharers, spent, captured>>

LockConnect(r) ==
    /\ Is(r, "connect", "read") /\ lockShortcutUser(r)
    /\ Becomes(r, [request[r] EXCEPT !.at = "locked"])
    /\ UNCHANGED <<now, pairing, connection, spent, captured>>

\* ... and is it still there: it goes, and the key comes, together.
CommitConnect(r) ==
    LET code == request[r].secret IN
    /\ Is(r, "connect", "locked")
    /\ IF Valid(code)
       THEN \E key \in Secret \ Drawn :
              /\ pairing' = NoCode /\ connection' = connection \cup {key}
              /\ spent' = spent \cup {<<code, key>>}
       ELSE UNCHANGED <<pairing, connection, spent>>
    /\ Becomes(r, Done) /\ Unlock(r)
    /\ UNCHANGED <<now, captured>>

Revoke(r) ==
    /\ request[r] = New /\ lockShortcutUser(r)
    /\ Becomes(r, Phase("revoke", "locked", Nobody, Nobody))
    /\ UNCHANGED <<now, pairing, connection, spent, captured>>

CommitRevoke(r) ==
    /\ Is(r, "revoke", "locked")
    /\ pairing' = NoCode /\ connection' = {}
    /\ Becomes(r, Done) /\ Unlock(r)
    /\ UNCHANGED <<now, spent, captured>>

-----------------------------------------------------------------------------
\* A capture finds the owner by its key, holds on to the row, and looks again.
ResolveShortcutOwner(r) ==
    /\ request[r] = New
    /\ \E key \in connection :
         Becomes(r, Phase("capture", "read", Nobody, key))
    /\ UNCHANGED <<now, pairing, connection, owner, sharers, spent, captured>>

ShareUserUnlocked(r) ==
    /\ Is(r, "capture", "read") /\ UNCHANGED sharers
    /\ IF request[r].key \in connection
       THEN Becomes(r, [request[r] EXCEPT !.at = "locked"])
       ELSE Becomes(r, Done)
    /\ UNCHANGED <<now, pairing, connection, owner, spent, captured>>
ShareUser(r) ==
    /\ Is(r, "capture", "read") /\ owner = Nobody
    /\ IF request[r].key \in connection
       THEN Becomes(r, [request[r] EXCEPT !.at = "locked"]) /\ sharers' = sharers \cup {r}
       ELSE Becomes(r, Done) /\ UNCHANGED sharers
    /\ UNCHANGED <<now, pairing, connection, owner, spent, captured>>

CommitCapture(r) ==
    /\ Is(r, "capture", "locked")
    /\ captured' = captured \cup {<<request[r].key, request[r].key \in connection>>}
    /\ Becomes(r, Done) /\ Unlock(r)
    /\ UNCHANGED <<now, pairing, connection, spent>>

Next ==
    \/ Tick
    \/ \E r \in Request :
         \/ Rollback(r) \/ Pair(r) \/ CommitPair(r)
         \/ Connect(r) \/ LockConnect(r) \/ CommitConnect(r)
         \/ Revoke(r) \/ CommitRevoke(r)
         \/ ResolveShortcutOwner(r) \/ ShareUser(r) \/ CommitCapture(r)

Spec == Init /\ [][Next]_vars

-----------------------------------------------------------------------------
\* A code is good for one key, however many phones exchange it at once, and a
\* capture commits only while its key is connected: once the owner has been
\* told that everything is disconnected, nothing more comes in.
RevokedIsRevoked ==
    /\ \A p, q \in spent : p[1] = q[1] => p = q
    /\ \A c \in captured : c[2]
=============================================================================
