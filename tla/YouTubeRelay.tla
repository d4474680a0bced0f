---------------------------- MODULE YouTubeRelay ----------------------------
(***************************************************************************)
(* The sessions of the YouTube relay: youtuberelay.Service keeps in the    *)
(* memory of the server at most MaxSessions of them, each behind a ticket, *)
(* made by a Start that resolves the video outside the mutex, used by      *)
(* stream requests, refreshed once when the upstream URLs expire, and      *)
(* swept when idle or too old.                                             *)
(*                                                                         *)
(* An action is what happens while the mutex is held, or what the upstream *)
(* answers.  Time is the age of a session and of its last access, counted  *)
(* just beyond its limit.  Tickets are 32 random bytes; one that nothing   *)
(* refers to any more is used again here.                                  *)
(***************************************************************************)
EXTENDS Naturals, FiniteSets, TLC

CONSTANTS
    Owner,        \* pairs of a user and an article
    NoOwner,
    Ticket, NoTicket,
    Starter,      \* POST youtube-playback requests in progress
    Stream,       \* stream requests in progress
    MaxSessions,  \* 2
    IdleTTL,      \* 10 minutes
    AbsoluteTTL,  \* 6 hours
    ResolveLimit  \* bound: duration of a resolution and its probes

ASSUME RelayAssumption ==
    /\ NoTicket \notin Ticket /\ NoOwner \notin Owner
    /\ IsFiniteSet(Starter) /\ IsFiniteSet(Ticket)
    /\ MaxSessions \in Nat \ {0} /\ IdleTTL \in Nat
    /\ AbsoluteTTL \in Nat /\ ResolveLimit \in Nat
    /\ ResolveLimit <= IdleTTL /\ ResolveLimit <= AbsoluteTTL

VARIABLES
    sessions, \* ticket to session, a function of the tickets in use
    byOwner,  \* owner to ticket, or NoTicket
    pending,  \* capacity reserved by Starts that are resolving
    start,    \* each Start
    stream    \* each stream request

vars == <<sessions, byOwner, pending, start, stream>>

\* idle, age: since lastAccess and createdAt.  good: the upstream still accepts
\* the URLs; gen: 1 once they were resolved again; refreshed: that was begun.
Session == [owner : Owner, idle : 0 .. IdleTTL + 1, age : 0 .. AbsoluteTTL + 1,
            refreshed : BOOLEAN, gen : {0, 1}, good : BOOLEAN]

StartCall == [pc : {"idle", "resolving"}, owner : Owner \cup {NoOwner},
              spent : 0 .. ResolveLimit]

\* gen: of the URLs that the request read from the session.
StreamCall == [pc : {"idle", "asked", "refused", "refreshing", "again"},
               ticket : Ticket \cup {NoTicket}, gen : {0, 1}]

Live == DOMAIN sessions

TypeOK ==
    /\ Live \subseteq Ticket /\ sessions \in [Live -> Session]
    /\ byOwner \in [Owner -> Ticket \cup {NoTicket}]
    /\ pending \in Nat
    /\ start \in [Starter -> StartCall]
    /\ stream \in [Stream -> StreamCall]

IdleStart == [pc |-> "idle", owner |-> NoOwner, spent |-> 0]
IdleStream == [pc |-> "idle", ticket |-> NoTicket, gen |-> 0]

Init ==
    /\ sessions = [t \in {} |-> NoTicket]
    /\ byOwner = [o \in Owner |-> NoTicket] /\ pending = 0
    /\ start = [p \in Starter |-> IdleStart]
    /\ stream = [q \in Stream |-> IdleStream]

-----------------------------------------------------------------------------
(* cleanupExpiredLocked: what is left of the tables after it *)

Stale(t) == sessions[t].idle > IdleTTL \/ sessions[t].age > AbsoluteTTL

Fresh == {t \in Live : ~Stale(t)}

\* An owner's entry goes with any of the owner's sessions, also with one that
\* another has replaced in the index.
KeptIndex == byOwner
SweptIndex ==
    [o \in Owner |-> IF \E t \in Live \ Fresh : sessions[t].owner = o
                     THEN NoTicket ELSE byOwner[o]]

With(S, t, row) == [u \in S \cup {t} |-> IF u = t THEN row ELSE sessions[u]]
Without(S) == [u \in S |-> sessions[u]]
Touched(t) == With(Fresh, t, [sessions[t] EXCEPT !.idle = 0])

-----------------------------------------------------------------------------
(* Start *)

HasRoom == Cardinality(Fresh) + pending < MaxSessions

\* The owner's session is used again; or there is no room; or capacity is
\* reserved, and the mutex left to resolve the video.
Start(p, o) ==
    /\ start[p].pc = "idle"
    /\ byOwner' = SweptIndex
    /\ \/ /\ SweptIndex[o] \in Fresh
          /\ sessions' = Touched(SweptIndex[o])
          /\ UNCHANGED <<pending, start>>
       \/ /\ SweptIndex[o] \notin Fresh /\ ~HasRoom
          /\ sessions' = Without(Fresh)
          /\ UNCHANGED <<pending, start>>
       \/ /\ SweptIndex[o] \notin Fresh /\ HasRoom
          /\ sessions' = Without(Fresh) /\ pending' = pending + 1
          /\ start' = [start EXCEPT ![p] =
                         [pc |-> "resolving", owner |-> o, spent |-> 0]]
    /\ UNCHANGED stream

\* Nothing compatible, an error, or the client is gone.
KeptReservation == pending
ReturnedReservation == pending - 1

StartFails(p) ==
    /\ start[p].pc = "resolving"
    /\ pending' = ReturnedReservation
    /\ start' = [start EXCEPT ![p] = IdleStart]
    /\ UNCHANGED <<sessions, byOwner, stream>>

Unused(t) == t \notin Live /\ \A q \in Stream : stream[q].ticket # t

\* The session takes the reserved place: the deferred function does not return
\* it again.
ReturnedTwice == pending - 2
TakenReservation == pending - 1

\* The session dates from the beginning of Start, and takes the owner's entry.
StartInserts(p) ==
    /\ start[p].pc = "resolving"
    /\ \E t \in Ticket :
         /\ Unused(t)
         /\ LET o == start[p].owner IN
              /\ sessions' = With(Live, t,
                    [owner |-> o, idle |-> start[p].spent, age |-> start[p].spent,
                     refreshed |-> FALSE, gen |-> 0, good |-> TRUE])
              /\ byOwner' = [byOwner EXCEPT ![o] = t]
    /\ pending' = TakenReservation
    /\ start' = [start EXCEPT ![p] = IdleStart]
    /\ UNCHANGED stream

-----------------------------------------------------------------------------
(* Open *)

\* sessionFormat, and the request that goes upstream with what it returned.
Open(q, t) ==
    /\ stream[q].pc = "idle" /\ byOwner' = SweptIndex
    /\ IF t \in Fresh
       THEN /\ sessions' = Touched(t)
            /\ stream' = [stream EXCEPT ![q] = [pc |-> "asked", ticket |-> t,
                                                gen |-> sessions[t].gen]]
       ELSE sessions' = Without(Fresh) /\ UNCHANGED stream
    /\ UNCHANGED <<pending, start>>

End(q) == stream' = [stream EXCEPT ![q] = IdleStream]
Goto(q, pc) == stream' = [stream EXCEPT ![q].pc = pc]

\* The upstream refuses URLs that expired, by 403 or 410.
Answered(q) ==
    LET t == stream[q].ticket IN
    /\ stream[q].pc = "asked"
    /\ IF t \in Live /\ sessions[t].gen = stream[q].gen /\ sessions[t].good
       THEN End(q) ELSE Goto(q, "refused")
    /\ UNCHANGED <<sessions, byOwner, pending, start>>

\* refresh: one request of the session asks the resolver again, ever.
MayRefreshUntilDone(t) == t \in Live /\ sessions[t].gen = 0
MayRefresh(t) == t \in Live /\ ~sessions[t].refreshed

Refresh(q) ==
    LET t == stream[q].ticket IN
    /\ stream[q].pc = "refused"
    /\ IF MayRefresh(t)
       THEN /\ sessions' = [sessions EXCEPT ![t].refreshed = TRUE]
            /\ Goto(q, "refreshing")
       ELSE End(q) /\ UNCHANGED sessions
    /\ UNCHANGED <<byOwner, pending, start>>

\* The session may be gone by now.  Otherwise it counts as accessed.
Refreshed(q) ==
    LET t == stream[q].ticket IN
    /\ stream[q].pc = "refreshing"
    /\ IF t \in Live
       THEN /\ sessions' = [sessions EXCEPT ![t] =
                              [@ EXCEPT !.gen = 1, !.good = TRUE, !.idle = 0]]
            /\ Goto(q, "again")
       ELSE End(q) /\ UNCHANGED sessions
    /\ UNCHANGED <<byOwner, pending, start>>

\* The second attempt's answer is passed on, whatever it is.
OpenAgain(q) ==
    LET t == stream[q].ticket IN
    /\ stream[q].pc = "again" /\ byOwner' = SweptIndex
    /\ sessions' = IF t \in Fresh THEN Touched(t) ELSE Without(Fresh)
    /\ End(q)
    /\ UNCHANGED <<pending, start>>

\* The resolver or the upstream fails, or the client is gone.
StreamFails(q) ==
    /\ stream[q].pc \in {"asked", "refreshing"} /\ End(q)
    /\ UNCHANGED <<sessions, byOwner, pending, start>>

-----------------------------------------------------------------------------
\* cleanupLoop
Cleanup ==
    /\ Live # Fresh
    /\ sessions' = Without(Fresh) /\ byOwner' = SweptIndex
    /\ UNCHANGED <<pending, start, stream>>

ExpireURLs(t) ==
    /\ t \in Live /\ sessions[t].good
    /\ sessions' = [sessions EXCEPT ![t].good = FALSE]
    /\ UNCHANGED <<byOwner, pending, start, stream>>

\* Sessions are in memory only.
Restart ==
    /\ sessions' = Without({}) /\ byOwner' = [o \in Owner |-> NoTicket]
    /\ pending' = 0
    /\ start' = [p \in Starter |-> IdleStart]
    /\ stream' = [q \in Stream |-> IdleStream]

UpTo(n, limit) == IF n < limit THEN n + 1 ELSE n
Tick ==
    /\ \A p \in Starter : start[p].pc = "resolving" => start[p].spent < ResolveLimit
    /\ sessions' = [t \in Live |->
         [sessions[t] EXCEPT !.idle = UpTo(@, IdleTTL + 1),
                             !.age = UpTo(@, AbsoluteTTL + 1)]]
    /\ start' = [p \in Starter |->
         IF start[p].pc = "resolving" THEN [start[p] EXCEPT !.spent = @ + 1]
         ELSE start[p]]
    /\ UNCHANGED <<byOwner, pending, stream>>

Next ==
    \/ \E p \in Starter : StartFails(p) \/ StartInserts(p)
    \/ \E p \in Starter, o \in Owner : Start(p, o)
    \/ \E q \in Stream, t \in Ticket : Open(q, t)
    \/ \E q \in Stream : \/ Answered(q) \/ Refresh(q) \/ Refreshed(q)
                         \/ OpenAgain(q) \/ StreamFails(q)
    \/ \E t \in Ticket : ExpireURLs(t)
    \/ Cleanup \/ Tick \/ Restart

Spec == Init /\ [][Next]_vars

-----------------------------------------------------------------------------
(* Properties *)

\* The limit holds although videos are resolved outside the mutex, and no
\* failed Start leaks the capacity it reserved.
CapacityKept ==
    /\ Cardinality(Live) + pending <= MaxSessions
    /\ pending = Cardinality({p \in Starter : start[p].pc = "resolving"})

\* The index leads to a session of the owner, never to a swept one, although
\* concurrent Starts of one owner make several sessions.
IndexSound ==
    \A o \in Owner : byOwner[o] # NoTicket =>
        byOwner[o] \in Live /\ sessions[byOwner[o]].owner = o

\* The resolver is asked again at most once for a session, however many of its
\* streams are refused at the same time.
RefreshedOnce ==
    \A t \in Live :
        Cardinality({q \in Stream : stream[q].pc = "refreshing"
                                    /\ stream[q].ticket = t})
          + sessions[t].gen <= 1

\* What the mutex protects stays consistent although resolving, refreshing and
\* streaming happen outside it (youtuberelay/service.go).
RelayKept == CapacityKept /\ IndexSound /\ RefreshedOnce

\* "Signed URL expired: one transparent refresh": a request that was refused
\* with the session's first URLs does not fail when the session has new ones.
TransparentRefresh ==
    [][\A q \in Stream :
         LET t == stream[q].ticket IN
         Refresh(q) /\ t \in Live /\ stream[q].gen < sessions[t].gen
           => stream'[q].pc # "idle"]_vars

\* For TLC.
Symmetry == Permutations(Owner) \cup Permutations(Ticket)
              \cup Permutations(Starter) \cup Permutations(Stream)
=============================================================================
