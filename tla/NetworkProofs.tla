--------------------------- MODULE NetworkProofs ----------------------------
(***************************************************************************)
(* Theorems about how the server reaches others: YouTubeRelay for every    *)
(* number of sessions, of Starts and tickets, any set of stream requests   *)
(* and every limit of time, AddressRace for every number of requests,      *)
(* addresses, lanes and slots, and ImageCache for every set of URLs.       *)
(*                                                                         *)
(* The limit of MaxSessions is an invariant of the sessions together with  *)
(* the reservations, and a session's one refresh an invariant of what the  *)
(* session remembers together with where its streams are; the lane is the  *)
(* attempts' that took it and have not given it back, and a request's      *)
(* answer rests on what its record knows of its attempts; a file is whole  *)
(* because only a finished temporary file is renamed to it.                *)
(***************************************************************************)
EXTENDS YouTubeRelay, FiniteSetTheorems, SequenceTheorems, TLAPS

Resolving == {p \in Starter : start[p].pc = "resolving"}

\* A Start that is resolving knows for whom.
OwnerInv == \A p \in Resolving : start[p].owner \in Owner

\* A stream that refreshes has told its session so, is the only one, and has
\* not yet brought new URLs.
Refreshing(q, t) == stream[q].pc = "refreshing" /\ stream[q].ticket = t

RefreshOf(t) ==
    /\ sessions[t].gen = 1 => sessions[t].refreshed
    /\ \A q \in Stream : Refreshing(q, t) => sessions[t].refreshed /\ sessions[t].gen = 0
    /\ \A q, r \in Stream : Refreshing(q, t) /\ Refreshing(r, t) => q = r

RefreshInv == \A t \in Live : RefreshOf(t)

Inv == TypeOK /\ OwnerInv /\ CapacityKept /\ IndexSound /\ RefreshInv

-----------------------------------------------------------------------------
(* Sets and counts *)

LEMMA Limits ==
    /\ MaxSessions \in Nat \ {0} /\ IdleTTL \in Nat /\ AbsoluteTTL \in Nat
    /\ ResolveLimit \in Nat /\ ResolveLimit <= IdleTTL /\ ResolveLimit <= AbsoluteTTL
    /\ NoTicket \notin Ticket /\ NoOwner \notin Owner
BY RelayAssumption

LEMMA LiveCount ==
    ASSUME TypeOK, NEW S \in SUBSET Live
    PROVE  /\ IsFiniteSet(S) /\ Cardinality(S) \in Nat
           /\ Cardinality(S) <= Cardinality(Live) /\ Cardinality(Live) \in Nat
<1>1. IsFiniteSet(Live)
  BY RelayAssumption, FS_Subset DEF TypeOK
<1> QED
  BY <1>1, FS_Subset, FS_CardinalityType

LEMMA ResolvingCount ==
    IsFiniteSet(Resolving) /\ Cardinality(Resolving) \in Nat
<1>1. Resolving \in SUBSET Starter
  BY DEF Resolving
<1> QED
  BY <1>1, RelayAssumption, FS_Subset, FS_CardinalityType

LEMMA OthersKept ==
    ASSUME TypeOK
    PROVE  /\ \A p \in Starter : \A k : start' = [start EXCEPT ![p] = k] =>
                start'[p] = k /\ \A r \in Starter \ {p} : start'[r] = start[r]
           /\ \A q \in Stream : \A k : stream' = [stream EXCEPT ![q] = k] =>
                stream'[q] = k /\ \A r \in Stream \ {q} : stream'[r] = stream[r]
BY DEF TypeOK

\* One Start begins to resolve, or one ends.
LEMMA ResolvingStep ==
    ASSUME TypeOK, NEW p \in Starter, NEW k \in StartCall,
           start' = [start EXCEPT ![p] = k]
    PROVE  /\ start[p].pc = "idle" /\ k.pc = "resolving" =>
                Cardinality(Resolving') = Cardinality(Resolving) + 1
           /\ start[p].pc = "resolving" /\ k.pc = "idle" =>
                /\ Cardinality(Resolving') = Cardinality(Resolving) - 1
                /\ Cardinality(Resolving) > 0
<1>1. start'[p] = k /\ \A r \in Starter \ {p} : start'[r] = start[r]
  BY OthersKept
<1>2. ASSUME start[p].pc = "idle", k.pc = "resolving"
      PROVE  Cardinality(Resolving') = Cardinality(Resolving) + 1
  <2>1. Resolving' = Resolving \cup {p} /\ p \notin Resolving
    BY <1>1, <1>2 DEF Resolving
  <2> QED
    BY <1>2, <2>1, ResolvingCount, FS_AddElement
<1>3. ASSUME start[p].pc = "resolving", k.pc = "idle"
      PROVE  /\ Cardinality(Resolving') = Cardinality(Resolving) - 1
             /\ Cardinality(Resolving) > 0
  <2>1. Resolving' = Resolving \ {p} /\ p \in Resolving
    BY <1>1, <1>3 DEF Resolving
  <2>2. Cardinality(Resolving) # 0
    BY <2>1, ResolvingCount, FS_EmptySet
  <2>3. Cardinality(Resolving \ {p}) = Cardinality(Resolving) - 1
    BY <2>1, ResolvingCount, FS_RemoveElement
  <2> QED
    BY <2>1, <2>2, <2>3, ResolvingCount
<1> QED
  BY <1>2, <1>3

-----------------------------------------------------------------------------
(* Sweeping *)

\* What the sweep leaves of the index leads to a session that it left.
LEMMA SweptSound ==
    ASSUME TypeOK, IndexSound
    PROVE  /\ SweptIndex \in [Owner -> Ticket \cup {NoTicket}]
           /\ \A o \in Owner : SweptIndex[o] # NoTicket =>
                SweptIndex[o] \in Fresh /\ sessions[SweptIndex[o]].owner = o
<1>1. SweptIndex \in [Owner -> Ticket \cup {NoTicket}]
  BY DEF SweptIndex, TypeOK
<1>2. ASSUME NEW o \in Owner, SweptIndex[o] # NoTicket
      PROVE  SweptIndex[o] \in Fresh /\ sessions[SweptIndex[o]].owner = o
  <2>1. /\ SweptIndex[o] = byOwner[o]
        /\ \A t \in Live \ Fresh : sessions[t].owner # o
    BY <1>2 DEF SweptIndex
  <2>2. byOwner[o] \in Live /\ sessions[byOwner[o]].owner = o
    BY <1>2, <2>1 DEF IndexSound
  <2> QED
    BY <2>1, <2>2
<1> QED
  BY <1>1, <1>2

\* The next sessions are those in S, with the owner and the refresh they had.
Keeps(S) ==
    /\ Live' = S /\ sessions' \in [S -> Session]
    /\ \A u \in S : /\ sessions'[u].owner = sessions[u].owner
                    /\ sessions'[u].refreshed = sessions[u].refreshed
                    /\ sessions'[u].gen = sessions[u].gen

LEMMA SweptSessions ==
    ASSUME TypeOK,
           \/ sessions' = Without(Fresh)
           \/ \E t \in Fresh : sessions' = Touched(t)
    PROVE  Keeps(Fresh) /\ Fresh \in SUBSET Live
<1>1. Fresh \in SUBSET Live /\ \A u \in Fresh : sessions[u] \in Session
  BY DEF Fresh, TypeOK
<1>2. CASE sessions' = Without(Fresh)
  BY <1>1, <1>2 DEF Without, Keeps, Live
<1>3. ASSUME NEW t \in Fresh, sessions' = Touched(t) PROVE Keeps(Fresh)
  <2> DEFINE row == [sessions[t] EXCEPT !.idle = 0]
  <2>1. /\ row \in Session /\ row.owner = sessions[t].owner
        /\ row.refreshed = sessions[t].refreshed /\ row.gen = sessions[t].gen
    BY <1>1, Limits DEF Session
  <2> HIDE DEF row
  <2>2. sessions' = [u \in Fresh |-> IF u = t THEN row ELSE sessions[u]]
    BY <1>3 DEF Touched, With, row
  <2> QED
    BY <1>1, <2>1, <2>2 DEF Keeps, Live
<1> QED
  BY <1>1, <1>2, <1>3

\* A stream that refreshes after such a step did so before it.
NoneBegins == \A q \in Stream : stream'[q].pc = "refreshing" => stream'[q] = stream[q]

LEMMA KeptRefresh ==
    ASSUME RefreshInv, NEW S \in SUBSET Live, Keeps(S), NoneBegins
    PROVE  RefreshInv'
BY DEF RefreshInv, RefreshOf, Refreshing, Keeps, NoneBegins

LEMMA KeptEntries ==
    ASSUME TypeOK, IndexSound, NEW S \in SUBSET Live, Keeps(S),
           \/ S = Live /\ byOwner' = byOwner
           \/ S = Fresh /\ byOwner' = SweptIndex
    PROVE  IndexSound'
<1>1. CASE S = Live /\ byOwner' = byOwner
  BY <1>1 DEF IndexSound, Keeps
<1>2. CASE S = Fresh /\ byOwner' = SweptIndex
  BY <1>2, SweptSound DEF IndexSound, Keeps
<1> QED
  BY <1>1, <1>2

LEMMA KeptCapacity ==
    ASSUME TypeOK, CapacityKept, NEW S \in SUBSET Live, Live' = S,
           UNCHANGED <<pending, start>>
    PROVE  CapacityKept'
<1>1. Cardinality(S) <= Cardinality(Live) /\ Cardinality(S) \in Nat
  BY LiveCount
<1>2. Cardinality(Live) \in Nat /\ pending \in Nat
  BY LiveCount DEF TypeOK
<1> QED
  BY <1>1, <1>2, Limits DEF CapacityKept

\* A step that only lets sessions go, or marks them used, and begins no refresh.
LEMMA KeptInv ==
    ASSUME Inv, NEW S \in SUBSET Live, Keeps(S),
           \/ S = Live /\ byOwner' = byOwner
           \/ S = Fresh /\ byOwner' = SweptIndex,
           UNCHANGED <<pending, start>>,
           stream' \in [Stream -> StreamCall], NoneBegins
    PROVE  Inv'
<1> USE DEF Inv
<1>1. TypeOK'
  BY SweptSound DEF TypeOK, Keeps
<1>2. OwnerInv'
  BY DEF OwnerInv, Resolving
<1>3. CapacityKept'
  BY KeptCapacity DEF Keeps
<1>4. IndexSound'
  BY KeptEntries
<1>5. RefreshInv'
  BY KeptRefresh
<1> QED
  BY <1>1, <1>2, <1>3, <1>4, <1>5

-----------------------------------------------------------------------------
(* The steps *)

LEMMA InitInv == Init => Inv
<1> SUFFICES ASSUME Init PROVE Inv
  OBVIOUS
<1>1. Live = {} /\ Resolving = {}
  BY DEF Init, Live, Resolving, IdleStart
<1>2. TypeOK
  BY <1>1, Limits DEF Init, TypeOK, Live, IdleStart, IdleStream, StartCall, StreamCall
<1>3. Cardinality(Live) = 0 /\ Cardinality(Resolving) = 0
  BY <1>1, FS_EmptySet
<1>4. CapacityKept
  BY <1>3, Limits DEF CapacityKept, Resolving, Init
<1>5. OwnerInv /\ IndexSound /\ RefreshInv
  BY <1>1 DEF OwnerInv, IndexSound, RefreshInv, Init
<1> QED
  BY <1>2, <1>4, <1>5 DEF Inv

\* A session used again, a Start refused, or one that begins to resolve.
LEMMA StartInv ==
    ASSUME Inv, NEW p \in Starter, NEW o \in Owner, Start(p, o) PROVE Inv'
<1> USE DEF Inv
<1>1. Keeps(Fresh) /\ Fresh \in SUBSET Live
  BY SweptSessions DEF Start
<1>2. byOwner' = SweptIndex /\ UNCHANGED stream /\ NoneBegins
  BY DEF Start, NoneBegins
<1>3. CASE UNCHANGED <<pending, start>>
  <2>1. stream' \in [Stream -> StreamCall]
    BY <1>2 DEF TypeOK
  <2> QED
    BY <1>1, <1>2, <1>3, <2>1, KeptInv
<1>4. CASE /\ HasRoom /\ pending' = pending + 1
           /\ start' = [start EXCEPT ![p] =
                          [pc |-> "resolving", owner |-> o, spent |-> 0]]
           /\ start[p].pc = "idle"
  <2> DEFINE k == [pc |-> "resolving", owner |-> o, spent |-> 0]
  <2>1. k \in StartCall /\ k.pc = "resolving" /\ k.owner = o
    BY Limits DEF StartCall
  <2>2. start' = [start EXCEPT ![p] = k]
    BY <1>4
  <2> HIDE DEF k
  <2>3. start'[p] = k /\ \A r \in Starter \ {p} : start'[r] = start[r]
    BY <2>2, OthersKept
  <2>4. TypeOK'
    BY <1>1, <1>2, <1>4, <2>1, <2>2, SweptSound DEF TypeOK, Keeps
  <2>5. OwnerInv'
    BY <2>1, <2>3 DEF OwnerInv, Resolving
  <2>6. CapacityKept'
    <3>1. Cardinality(Resolving') = Cardinality(Resolving) + 1
      BY <1>4, <2>1, <2>2, ResolvingStep
    <3>2. Cardinality(Fresh) + pending < MaxSessions /\ pending = Cardinality(Resolving)
      BY <1>4 DEF HasRoom, CapacityKept, Resolving
    <3>3. Cardinality(Fresh) \in Nat /\ Live' = Fresh
      BY <1>1, LiveCount DEF Keeps
    <3>4. Cardinality(Live') + pending' <= MaxSessions
      BY <1>4, <3>2, <3>3, Limits DEF TypeOK
    <3> QED
      BY <1>4, <3>1, <3>2, <3>4 DEF CapacityKept, Resolving
  <2>7. IndexSound' /\ RefreshInv'
    BY <1>1, <1>2, KeptEntries, KeptRefresh
  <2> QED
    BY <2>4, <2>5, <2>6, <2>7
<1> QED
  BY <1>3, <1>4 DEF Start

\* The tables stay: Live sessions are kept as they are.
LEMMA KeptSessions == ASSUME TypeOK, UNCHANGED sessions PROVE Keeps(Live) /\ Live \in SUBSET Live
BY DEF TypeOK, Keeps, Live

LEMMA StartFailsInv == ASSUME Inv, NEW p \in Starter, StartFails(p) PROVE Inv'
<1> USE DEF Inv
<1>1. IdleStart \in StartCall /\ IdleStart.pc = "idle"
  BY Limits DEF IdleStart, StartCall
<1>2. /\ start' = [start EXCEPT ![p] = IdleStart] /\ start[p].pc = "resolving"
      /\ pending' = pending - 1 /\ UNCHANGED <<sessions, byOwner, stream>>
  BY DEF StartFails, ReturnedReservation
<1>3. start'[p] = IdleStart /\ \A r \in Starter \ {p} : start'[r] = start[r]
  BY <1>2, OthersKept
<1>4. /\ Cardinality(Resolving') = Cardinality(Resolving) - 1
      /\ Cardinality(Resolving) > 0 /\ pending = Cardinality(Resolving)
  BY <1>1, <1>2, ResolvingStep DEF CapacityKept, Resolving
<1>5. pending' \in Nat /\ pending' <= pending
  BY <1>2, <1>4 DEF TypeOK
<1>6. Keeps(Live)
  BY <1>2, KeptSessions
<1>7. TypeOK'
  BY <1>1, <1>2, <1>5, <1>6 DEF TypeOK, Keeps
<1>8. OwnerInv'
  BY <1>1, <1>3 DEF OwnerInv, Resolving
<1>9. CapacityKept'
  <2>1. Live' = Live /\ Cardinality(Live) \in Nat
    BY <1>6, LiveCount DEF Keeps
  <2>2. pending' = Cardinality(Resolving')
    BY <1>2, <1>4
  <2> QED
    BY <1>5, <2>1, <2>2, Limits DEF TypeOK, CapacityKept, Resolving
<1>10. IndexSound' /\ RefreshInv'
  BY <1>2, <1>6, KeptEntries, KeptRefresh DEF NoneBegins
<1> QED
  BY <1>7, <1>8, <1>9, <1>10

\* The new session takes the place that its Start reserved, and a ticket that
\* no stream has.
LEMMA StartInsertsInv == ASSUME Inv, NEW p \in Starter, StartInserts(p) PROVE Inv'
<1> USE DEF Inv
<1>1. IdleStart \in StartCall /\ IdleStart.pc = "idle"
  BY Limits DEF IdleStart, StartCall
<1>2. /\ start' = [start EXCEPT ![p] = IdleStart] /\ start[p].pc = "resolving"
      /\ pending' = pending - 1 /\ UNCHANGED stream
  BY DEF StartInserts, TakenReservation
<1>3. start'[p] = IdleStart /\ \A r \in Starter \ {p} : start'[r] = start[r]
  BY <1>2, OthersKept
<1>4. /\ Cardinality(Resolving') = Cardinality(Resolving) - 1
      /\ Cardinality(Resolving) > 0 /\ pending = Cardinality(Resolving)
  BY <1>1, <1>2, ResolvingStep DEF CapacityKept, Resolving
<1>5. pending' \in Nat /\ pending' = pending - 1
  BY <1>2, <1>4 DEF TypeOK
<1> DEFINE o == start[p].owner
           row == [owner |-> o, idle |-> start[p].spent, age |-> start[p].spent,
                   refreshed |-> FALSE, gen |-> 0, good |-> TRUE]
<1>6. o \in Owner
  BY <1>2 DEF OwnerInv, Resolving
<1>7. row \in Session /\ row.owner = o /\ row.gen = 0
  <2>1. start[p].spent \in 0 .. IdleTTL + 1 /\ start[p].spent \in 0 .. AbsoluteTTL + 1
    BY Limits DEF TypeOK, StartCall
  <2> QED
    BY <1>6, <2>1 DEF Session
<1>8. PICK t \in Ticket : /\ Unused(t) /\ sessions' = With(Live, t, row)
                          /\ byOwner' = [byOwner EXCEPT ![o] = t]
  BY DEF StartInserts
<1> HIDE DEF row
<1>9. /\ Live' = Live \cup {t} /\ sessions' \in [Live \cup {t} -> Session]
      /\ sessions'[t] = row /\ t \notin Live
      /\ \A u \in Live : sessions'[u] = sessions[u]
  BY <1>7, <1>8 DEF With, Unused, Live, TypeOK
<1>10. TypeOK'
  BY <1>1, <1>2, <1>5, <1>6, <1>8, <1>9 DEF TypeOK
<1>11. OwnerInv'
  BY <1>1, <1>3 DEF OwnerInv, Resolving
<1>12. CapacityKept'
  <2>1. Cardinality(Live') = Cardinality(Live) + 1 /\ Cardinality(Live) \in Nat
    BY <1>9, LiveCount, FS_AddElement
  <2>2. pending' = Cardinality(Resolving')
    BY <1>2, <1>4
  <2>3. Cardinality(Live) + pending <= MaxSessions /\ pending \in Nat
    BY DEF CapacityKept, TypeOK
  <2>4. Cardinality(Live') + pending' <= MaxSessions
    BY <1>5, <2>1, <2>3, Limits
  <2> QED
    BY <2>2, <2>4 DEF CapacityKept, Resolving
<1>13. IndexSound'
  <2> SUFFICES ASSUME NEW e \in Owner, byOwner'[e] # NoTicket
               PROVE  byOwner'[e] \in Live' /\ sessions'[byOwner'[e]].owner = e
    BY DEF IndexSound
  <2>1. CASE e = o
    BY <1>7, <1>8, <1>9, <2>1 DEF TypeOK
  <2>2. CASE e # o
    BY <1>8, <1>9, <2>2 DEF TypeOK, IndexSound
  <2> QED
    BY <2>1, <2>2
<1>14. RefreshInv'
  <2> SUFFICES ASSUME NEW u \in Live \cup {t}
               PROVE  RefreshOf(u)'
    BY <1>9 DEF RefreshInv
  <2>1. CASE u = t
    BY <1>2, <1>7, <1>8, <1>9, <2>1 DEF Unused, RefreshOf, Refreshing
  <2>2. CASE u \in Live
    BY <1>2, <1>9, <2>2 DEF RefreshInv, RefreshOf, Refreshing
  <2> QED
    BY <2>1, <2>2
<1> QED
  BY <1>10, <1>11, <1>12, <1>13, <1>14

\* A stream moves to where it does not refresh, and the sessions are as above.
LEMMA StreamStep ==
    ASSUME TypeOK, NEW q \in Stream, NEW k \in StreamCall, k.pc # "refreshing",
           stream' = [stream EXCEPT ![q] = k]
    PROVE  stream' \in [Stream -> StreamCall] /\ NoneBegins
BY OthersKept DEF TypeOK, NoneBegins

LEMMA StreamTypes ==
    ASSUME TypeOK
    PROVE  /\ IdleStream \in StreamCall /\ IdleStream.pc = "idle"
           /\ \A q \in Stream, pc \in {"refused", "refreshing", "again"} :
                /\ [stream[q] EXCEPT !.pc = pc] \in StreamCall
                /\ [stream[q] EXCEPT !.pc = pc].pc = pc
                /\ [stream[q] EXCEPT !.pc = pc].ticket = stream[q].ticket
BY DEF TypeOK, IdleStream, StreamCall

LEMMA EndStep ==
    ASSUME TypeOK, NEW q \in Stream, End(q) \/ Goto(q, "refused")
    PROVE  stream' \in [Stream -> StreamCall] /\ NoneBegins
<1>1. CASE End(q)
  BY <1>1, StreamTypes, StreamStep DEF End
<1>2. CASE Goto(q, "refused")
  <2> DEFINE k == [stream[q] EXCEPT !.pc = "refused"]
  <2>1. k \in StreamCall /\ k.pc = "refused"
    BY StreamTypes
  <2>2. stream' = [stream EXCEPT ![q] = k]
    BY <1>2 DEF Goto
  <2> HIDE DEF k
  <2> QED
    BY <2>1, <2>2, StreamStep
<1> QED
  BY <1>1, <1>2

LEMMA OpenInv == ASSUME Inv, NEW q \in Stream, NEW t \in Ticket, Open(q, t) PROVE Inv'
<1> USE DEF Inv
<1>1. Keeps(Fresh) /\ Fresh \in SUBSET Live
  BY SweptSessions DEF Open
<1>2. byOwner' = SweptIndex /\ UNCHANGED <<pending, start>>
  BY DEF Open
<1>3. stream' \in [Stream -> StreamCall] /\ NoneBegins
  <2>1. CASE UNCHANGED stream
    BY <2>1 DEF TypeOK, NoneBegins
  <2>2. CASE t \in Fresh /\ stream' = [stream EXCEPT ![q] =
                  [pc |-> "asked", ticket |-> t, gen |-> sessions[t].gen]]
    <3> DEFINE k == [pc |-> "asked", ticket |-> t, gen |-> sessions[t].gen]
    <3>1. sessions[t].gen \in {0, 1}
      BY <2>2 DEF Fresh, TypeOK, Session
    <3>2. k \in StreamCall /\ k.pc = "asked"
      BY <3>1 DEF StreamCall
    <3>3. stream' = [stream EXCEPT ![q] = k]
      BY <2>2
    <3> HIDE DEF k
    <3> QED
      BY <3>2, <3>3, StreamStep
  <2> QED
    BY <2>1, <2>2 DEF Open
<1> QED
  BY <1>1, <1>2, <1>3, KeptInv

LEMMA OpenAgainInv == ASSUME Inv, NEW q \in Stream, OpenAgain(q) PROVE Inv'
<1> USE DEF Inv
<1>1. Keeps(Fresh) /\ Fresh \in SUBSET Live
  BY SweptSessions DEF OpenAgain
<1>2. byOwner' = SweptIndex /\ UNCHANGED <<pending, start>> /\ End(q)
  BY DEF OpenAgain
<1> QED
  BY <1>1, <1>2, EndStep, KeptInv

LEMMA AnsweredInv ==
    ASSUME Inv, NEW q \in Stream, Answered(q) \/ StreamFails(q) PROVE Inv'
<1> USE DEF Inv
<1>1. UNCHANGED <<sessions, byOwner, pending, start>> /\ (End(q) \/ Goto(q, "refused"))
  BY DEF Answered, StreamFails
<1> QED
  BY <1>1, KeptSessions, EndStep, KeptInv

\* The first to find the session's mark unset sets it: whoever refreshes already
\* would have set it before.
LEMMA RefreshStepInv == ASSUME Inv, NEW q \in Stream, Refresh(q) PROVE Inv'
<1> USE DEF Inv
<1> DEFINE t == stream[q].ticket
<1>1. CASE ~MayRefresh(t)
  BY <1>1, KeptSessions, EndStep, KeptInv DEF Refresh
<1>2. CASE MayRefresh(t)
  <2> DEFINE k == [stream[q] EXCEPT !.pc = "refreshing"]
             row == [sessions[t] EXCEPT !.refreshed = TRUE]
  <2>1. t \in Live /\ ~sessions[t].refreshed
    BY <1>2 DEF MayRefresh
  <2>2. k \in StreamCall /\ k.pc = "refreshing" /\ k.ticket = t
    BY StreamTypes
  <2>3. /\ row \in Session /\ row.owner = sessions[t].owner /\ row.refreshed
        /\ row.gen = sessions[t].gen
    BY <2>1 DEF TypeOK, Session
  <2>4. /\ stream' = [stream EXCEPT ![q] = k] /\ UNCHANGED <<byOwner, pending, start>>
        /\ sessions' = [sessions EXCEPT ![t] = row]
    BY <1>2 DEF Refresh, Goto
  <2> HIDE DEF k, row
  <2>5. stream'[q] = k /\ \A r \in Stream \ {q} : stream'[r] = stream[r]
    BY <2>4, OthersKept
  <2>6. /\ Live' = Live /\ sessions' \in [Live -> Session] /\ sessions'[t] = row
        /\ \A u \in Live \ {t} : sessions'[u] = sessions[u]
    BY <2>1, <2>3, <2>4 DEF TypeOK, Live
  <2>7. TypeOK'
    BY <2>2, <2>4, <2>6 DEF TypeOK
  <2>8. OwnerInv'
    BY <2>4 DEF OwnerInv, Resolving
  <2>9. CapacityKept'
    BY <2>4, <2>6, KeptCapacity
  <2>10. IndexSound'
    BY <2>3, <2>4, <2>6 DEF IndexSound
  <2>11. RefreshInv'
    <3> SUFFICES ASSUME NEW u \in Live PROVE RefreshOf(u)'
      BY <2>6 DEF RefreshInv
    <3>1. RefreshOf(u)
      BY DEF RefreshInv
    <3>2. CASE u = t
      <4>1. sessions[u].gen = 0 /\ \A r \in Stream : ~Refreshing(r, u)
        BY <2>1, <3>1, <3>2 DEF RefreshOf, TypeOK, Session
      <4>2. \A r \in Stream : Refreshing(r, u)' => r = q
        BY <2>5, <4>1 DEF Refreshing
      <4> QED
        BY <2>3, <2>6, <3>2, <4>1, <4>2 DEF RefreshOf
    <3>3. CASE u # t
      <4>1. \A r \in Stream : Refreshing(r, u)' => Refreshing(r, u)
        BY <2>2, <2>5, <3>3 DEF Refreshing
      <4> QED
        BY <2>6, <3>1, <3>3, <4>1 DEF RefreshOf
    <3> QED
      BY <3>2, <3>3
  <2> QED
    BY <2>7, <2>8, <2>9, <2>10, <2>11
<1> QED
  BY <1>1, <1>2

\* The one that brings new URLs is the one that refreshed, and stops doing so.
LEMMA RefreshedInv == ASSUME Inv, NEW q \in Stream, Refreshed(q) PROVE Inv'
<1> USE DEF Inv
<1> DEFINE t == stream[q].ticket
<1>1. CASE t \notin Live
  BY <1>1, KeptSessions, EndStep, KeptInv DEF Refreshed
<1>2. CASE t \in Live
  <2> DEFINE k == [stream[q] EXCEPT !.pc = "again"]
             row == [sessions[t] EXCEPT !.gen = 1, !.good = TRUE, !.idle = 0]
  <2>1. k \in StreamCall /\ k.pc = "again"
    BY StreamTypes
  <2>2. /\ row \in Session /\ row.owner = sessions[t].owner
        /\ row.refreshed = sessions[t].refreshed /\ row.gen = 1
    <3>1. sessions[t] \in Session /\ 0 \in 0 .. IdleTTL + 1
      BY <1>2, Limits DEF TypeOK
    <3> QED
      BY <3>1 DEF Session
  <2>3. /\ stream' = [stream EXCEPT ![q] = k] /\ UNCHANGED <<byOwner, pending, start>>
        /\ sessions' = [sessions EXCEPT ![t] = row]
    BY <1>2 DEF Refreshed, Goto
  <2> HIDE DEF k, row
  <2>4. stream'[q] = k /\ \A r \in Stream \ {q} : stream'[r] = stream[r]
    BY <2>3, OthersKept
  <2>5. /\ Live' = Live /\ sessions' \in [Live -> Session] /\ sessions'[t] = row
        /\ \A u \in Live \ {t} : sessions'[u] = sessions[u]
    BY <1>2, <2>2, <2>3 DEF TypeOK, Live
  <2>6. TypeOK'
    BY <2>1, <2>3, <2>5 DEF TypeOK
  <2>7. OwnerInv'
    BY <2>3 DEF OwnerInv, Resolving
  <2>8. CapacityKept'
    BY <2>3, <2>5, KeptCapacity
  <2>9. IndexSound'
    BY <2>2, <2>3, <2>5 DEF IndexSound
  <2>10. RefreshInv'
    <3> SUFFICES ASSUME NEW u \in Live PROVE RefreshOf(u)'
      BY <2>5 DEF RefreshInv
    <3>1. RefreshOf(u)
      BY DEF RefreshInv
    <3>2. \A r \in Stream : Refreshing(r, u)' => r # q /\ Refreshing(r, u)
      BY <2>1, <2>4 DEF Refreshing
    <3>3. CASE u = t
      <4>1. Refreshing(q, u)
        BY <3>3 DEF Refreshed, Refreshing
      <4> QED
        BY <2>2, <2>5, <3>1, <3>2, <3>3, <4>1 DEF RefreshOf
    <3>4. CASE u # t
      BY <2>5, <3>1, <3>2, <3>4 DEF RefreshOf
    <3> QED
      BY <3>3, <3>4
  <2> QED
    BY <2>6, <2>7, <2>8, <2>9, <2>10
<1> QED
  BY <1>1, <1>2

LEMMA CleanupInv == ASSUME Inv, Cleanup PROVE Inv'
<1> USE DEF Inv
<1>1. Keeps(Fresh) /\ Fresh \in SUBSET Live
  BY SweptSessions DEF Cleanup
<1>2. byOwner' = SweptIndex /\ UNCHANGED <<pending, start, stream>>
  BY DEF Cleanup
<1>3. stream' \in [Stream -> StreamCall] /\ NoneBegins
  BY <1>2 DEF TypeOK, NoneBegins
<1> QED
  BY <1>1, <1>2, <1>3, KeptInv

LEMMA ExpireInv == ASSUME Inv, NEW t \in Ticket, ExpireURLs(t) PROVE Inv'
<1> USE DEF Inv
<1> DEFINE row == [sessions[t] EXCEPT !.good = FALSE]
<1>1. /\ row \in Session /\ row.owner = sessions[t].owner
      /\ row.refreshed = sessions[t].refreshed /\ row.gen = sessions[t].gen
  BY DEF ExpireURLs, TypeOK, Session
<1>2. /\ t \in Live /\ sessions' = [sessions EXCEPT ![t] = row]
      /\ UNCHANGED <<byOwner, pending, start, stream>>
  BY DEF ExpireURLs
<1> HIDE DEF row
<1>3. Keeps(Live)
  BY <1>1, <1>2 DEF Keeps, Live, TypeOK
<1>4. stream' \in [Stream -> StreamCall] /\ NoneBegins
  BY <1>2 DEF TypeOK, NoneBegins
<1> QED
  BY <1>2, <1>3, <1>4, KeptInv

LEMMA TickInv == ASSUME Inv, Tick PROVE Inv'
<1> USE DEF Inv
<1>1. ASSUME NEW n \in Nat, NEW limit \in Nat, n <= limit
      PROVE  UpTo(n, limit) \in 0 .. limit
  BY <1>1 DEF UpTo
<1>2. ASSUME NEW u \in Live
      PROVE  LET row == [sessions[u] EXCEPT !.idle = UpTo(@, IdleTTL + 1),
                                            !.age = UpTo(@, AbsoluteTTL + 1)]
             IN  /\ row \in Session /\ row.owner = sessions[u].owner
                 /\ row.refreshed = sessions[u].refreshed /\ row.gen = sessions[u].gen
  <2>1. /\ UpTo(sessions[u].idle, IdleTTL + 1) \in 0 .. IdleTTL + 1
        /\ UpTo(sessions[u].age, AbsoluteTTL + 1) \in 0 .. AbsoluteTTL + 1
    BY <1>1, Limits DEF TypeOK, Session
  <2> QED
    BY <2>1 DEF TypeOK, Session
<1>3. Keeps(Live)
  BY <1>2 DEF Tick, Keeps, Live
<1>4. /\ UNCHANGED <<byOwner, pending, stream>>
      /\ stream' \in [Stream -> StreamCall] /\ NoneBegins
  BY DEF Tick, TypeOK, NoneBegins
<1>5. ASSUME NEW p \in Starter
      PROVE  /\ start'[p] \in StartCall /\ start'[p].pc = start[p].pc
             /\ start'[p].owner = start[p].owner
  <2>1. CASE start[p].pc = "resolving"
    <3>1. start[p] \in StartCall /\ start[p].spent \in 0 .. ResolveLimit
      BY DEF TypeOK, StartCall
    <3>2. start[p].spent < ResolveLimit
      BY <2>1 DEF Tick
    <3>3. start[p].spent + 1 \in 0 .. ResolveLimit
      BY <3>1, <3>2, Limits
    <3> QED
      BY <2>1, <3>1, <3>3 DEF Tick, StartCall
  <2>2. CASE start[p].pc # "resolving"
    BY <2>2 DEF Tick, TypeOK
  <2> QED
    BY <2>1, <2>2
<1>6. start' \in [Starter -> StartCall] /\ Resolving' = Resolving
  BY <1>5 DEF Tick, Resolving
<1>7. TypeOK'
  BY <1>3, <1>4, <1>6 DEF TypeOK, Keeps
<1>8. OwnerInv'
  BY <1>5, <1>6 DEF OwnerInv, Resolving
<1>9. CapacityKept'
  BY <1>3, <1>4, <1>6 DEF CapacityKept, Keeps, Resolving
<1>10. IndexSound' /\ RefreshInv'
  BY <1>3, <1>4, KeptEntries, KeptRefresh
<1> QED
  BY <1>7, <1>8, <1>9, <1>10

LEMMA RestartInv == ASSUME Inv, Restart PROVE Inv'
<1> USE DEF Inv
<1>1. Live' = {} /\ Resolving' = {}
  BY DEF Restart, Without, Live, Resolving, IdleStart
<1>2. TypeOK'
  BY <1>1, Limits
     DEF Restart, Without, TypeOK, Live, IdleStart, IdleStream, StartCall, StreamCall
<1>3. Cardinality(Live') = 0 /\ Cardinality(Resolving') = 0
  BY <1>1, FS_EmptySet
<1>4. CapacityKept'
  BY <1>3, Limits DEF CapacityKept, Resolving, Restart
<1>5. OwnerInv' /\ IndexSound' /\ RefreshInv'
  BY <1>1 DEF OwnerInv, IndexSound, RefreshInv, Restart
<1> QED
  BY <1>2, <1>4, <1>5

LEMMA StepInv == Inv /\ [Next]_vars => Inv'
<1> SUFFICES ASSUME Inv, [Next]_vars PROVE Inv'
  OBVIOUS
<1>1. CASE UNCHANGED vars
  BY <1>1 DEF vars, Inv, TypeOK, OwnerInv, Resolving, CapacityKept, IndexSound,
     RefreshInv, RefreshOf, Refreshing, Live
<1> QED
  BY <1>1, StartInv, StartFailsInv, StartInsertsInv, OpenInv, OpenAgainInv, AnsweredInv,
     RefreshStepInv, RefreshedInv, CleanupInv, ExpireInv, TickInv, RestartInv DEF Next

-----------------------------------------------------------------------------
(* Theorems *)

\* The inductive invariant holds, however Starts, streams and sweeps interleave.
THEOREM Invariance == Spec => []Inv
<1>1. Init => Inv
  BY InitInv
<1>2. Inv /\ [Next]_vars => Inv'
  BY StepInv
<1> QED
  BY <1>1, <1>2, PTL DEF Spec

\* The tables hold sessions, reservations and requests; no reservation is
\* returned that was not made.
THEOREM TypeCorrect == Spec => []TypeOK
<1>1. Inv => TypeOK
  BY DEF Inv
<1> QED
  BY <1>1, Invariance, PTL

LEMMA OneRefresh == Inv => RefreshedOnce
<1> SUFFICES ASSUME Inv, NEW t \in Live
             PROVE  Cardinality({q \in Stream : stream[q].pc = "refreshing"
                                                 /\ stream[q].ticket = t})
                      + sessions[t].gen <= 1
  BY DEF RefreshedOnce
<1> DEFINE S == {q \in Stream : stream[q].pc = "refreshing" /\ stream[q].ticket = t}
<1>1. RefreshOf(t) /\ sessions[t].gen \in {0, 1}
  BY DEF Inv, RefreshInv, TypeOK, Session
<1>2. CASE S = {}
  BY <1>1, <1>2, FS_EmptySet
<1>3. ASSUME NEW q \in S PROVE S = {q} /\ sessions[t].gen = 0
  BY <1>1 DEF RefreshOf, Refreshing
<1>4. CASE S # {}
  <2>1. PICK q \in S : S = {q} /\ sessions[t].gen = 0
    BY <1>3, <1>4
  <2>2. Cardinality(S) = 1
    BY <2>1, FS_Singleton
  <2> QED
    BY <2>1, <2>2
<1> QED
  BY <1>2, <1>4

\* Never more sessions and reservations than the limit, an index that leads to a
\* session of its owner, and at most one refresh of each session.
THEOREM RelayKeptAlways == Spec => []RelayKept
<1>1. Inv => RelayKept
  BY OneRefresh DEF Inv, RelayKept
<1> QED
  BY <1>1, Invariance, PTL

-----------------------------------------------------------------------------
(* AddressRace: an attempt holds the lane from the moment it takes it to the*)
(* moment it is released, and nobody releases it for another.               *)

CONSTANTS Request, Images, Outcome, Addresses, Lanes, Slots
VARIABLES req, att, secondary

AR == INSTANCE AddressRace

Try == [address : Nat, number : Nat, second : BOOLEAN,
        at : {"lane", "took", "check", "slot", "fetching", "finished", "seen"},
        holds : BOOLEAN, promoted : BOOLEAN, yielded : BOOLEAN, cancelled : BOOLEAN,
        end : Outcome \cup {"none", "cancelled"}]

Racing == [at : {"idle", "lane", "loop", "select", "waiting", "done"}, image : BOOLEAN,
           untried : Nat, retries : Seq(Nat), primary : Nat, second : Nat, first : BOOLEAN,
           result : AR!Results]

HasLane(a) == a.at = "took" \/ a.holds

\* Only a second attempt keeps the lane beyond the check it makes with it.
LaneSound(a) ==
    /\ HasLane(a) => \/ a.at \in {"took", "check"}
                     \/ a.second /\ a.at \in {"slot", "fetching"}
    /\ a.at = "took" => ~a.holds

RaceTyped ==
    /\ req \in [Request -> Racing] /\ att \in [Request -> Seq(Try)] /\ secondary \in BOOLEAN
    /\ \A r \in Request :
         /\ req[r].second # 0 => req[r].second \in DOMAIN att[r]
         /\ req[r].at \in {"idle", "lane", "done"} => att[r] = << >>
         /\ \A i \in DOMAIN att[r] : LaneSound(att[r][i])

Holders == {x \in AR!Attempts : HasLane(att[x[1]][x[2]])}

OneHolder ==
    /\ secondary => \E x : Holders = {x}
    /\ ~secondary => Holders = {}

RaceInv == RaceTyped /\ OneHolder

LEMMA FreshRace == AR!Fresh \in Racing /\ AR!Fresh.second = 0
BY DEF AR!Fresh, Racing, AR!Results

LEMMA RaceInit == AR!Init => RaceInv
<1> SUFFICES ASSUME AR!Init PROVE RaceInv
  OBVIOUS
<1>1. /\ req \in [Request -> Racing] /\ \A r \in Request : req[r].second = 0
      /\ att \in [Request -> Seq(Try)] /\ \A r \in Request : att[r] = << >>
      /\ secondary = FALSE
  BY FreshRace DEF AR!Init
<1>2. Holders = {}
  BY <1>1 DEF Holders, AR!Attempts
<1>3. \A r \in Request : DOMAIN att[r] = {}
  BY <1>1
<1>4. RaceTyped
  BY <1>1, <1>3 DEF RaceTyped
<1> QED
  BY <1>1, <1>2, <1>4 DEF RaceInv, OneHolder

\* Who has the lane, attempt by attempt.
LEMMA HoldersAre ==
    /\ \A r \in Request : \A i \in DOMAIN att[r] : <<r, i>> \in Holders <=> HasLane(att[r][i])
    /\ \A x \in Holders : \E r \in Request : \E i \in DOMAIN att[r] : x = <<r, i>>
<1>1. ASSUME NEW r \in Request, NEW i \in DOMAIN att[r]
      PROVE  <<r, i>> \in Holders <=> HasLane(att[r][i])
  <2>1. <<r, i>> \in AR!Attempts
    BY <1>1 DEF AR!Attempts
  <2> QED
    BY <2>1 DEF Holders
<1>2. ASSUME NEW x \in Holders PROVE \E r \in Request : \E i \in DOMAIN att[r] : x = <<r, i>>
  BY <1>2 DEF Holders, AR!Attempts
<1> QED
  BY <1>1, <1>2

LEMMA HoldersNext ==
    /\ \A r \in Request : \A i \in DOMAIN att'[r] : <<r, i>> \in Holders' <=> HasLane(att'[r][i])
    /\ \A x \in Holders' : \E r \in Request : \E i \in DOMAIN att'[r] : x = <<r, i>>
<1>1. ASSUME NEW r \in Request, NEW i \in DOMAIN att'[r]
      PROVE  <<r, i>> \in Holders' <=> HasLane(att'[r][i])
  <2>1. <<r, i>> \in AR!Attempts'
    BY <1>1 DEF AR!Attempts
  <2> QED
    BY <2>1 DEF Holders
<1>2. ASSUME NEW x \in Holders' PROVE \E r \in Request : \E i \in DOMAIN att'[r] : x = <<r, i>>
  BY <1>2 DEF Holders, AR!Attempts
<1> QED
  BY <1>1, <1>2

-----------------------------------------------------------------------------
\* A request's attempts become "as" and itself q, and those that have the lane
\* stay the same.
LEMMA SameLane ==
    ASSUME RaceInv, NEW r \in Request, NEW q \in Racing, NEW tries \in Seq(Try),
           AR!Update(r, q), att' = [att EXCEPT ![r] = tries], UNCHANGED secondary,
           q.second # 0 => q.second \in DOMAIN tries,
           q.at \in {"idle", "lane", "done"} => tries = << >>,
           \A i \in DOMAIN tries : LaneSound(tries[i]),
           \A i \in DOMAIN tries : HasLane(tries[i]) => i \in DOMAIN att[r] /\ HasLane(att[r][i]),
           \A i \in DOMAIN att[r] : HasLane(att[r][i]) => i \in DOMAIN tries /\ HasLane(tries[i])
    PROVE  RaceInv'
<1>1. /\ att' \in [Request -> Seq(Try)] /\ att'[r] = tries
      /\ \A o \in Request : o # r => att'[o] = att[o]
  BY DEF RaceInv, RaceTyped
<1>2. /\ req' \in [Request -> Racing] /\ req'[r] = q
      /\ \A o \in Request : o # r => req'[o] = req[o]
  BY DEF RaceInv, RaceTyped, AR!Update
<1>3. RaceTyped'
  BY <1>1, <1>2 DEF RaceInv, RaceTyped
<1>4. Holders' = Holders
  <2>1. ASSUME NEW x \in Holders PROVE x \in Holders'
    <3>0. PICK o \in Request : \E i \in DOMAIN att[o] : x = <<o, i>>
      BY HoldersAre
    <3>1. PICK i \in DOMAIN att[o] : x = <<o, i>>
      BY <3>0
    <3>2. i \in DOMAIN att'[o] /\ HasLane(att'[o][i])
      BY <1>1, <3>1, HoldersAre
    <3> QED
      BY <3>1, <3>2, HoldersNext
  <2>2. ASSUME NEW x \in Holders' PROVE x \in Holders
    <3>0. PICK o \in Request : \E i \in DOMAIN att'[o] : x = <<o, i>>
      BY <2>2, HoldersNext
    <3>1. PICK i \in DOMAIN att'[o] : x = <<o, i>>
      BY <3>0
    <3>2. i \in DOMAIN att[o] /\ HasLane(att[o][i])
      BY <1>1, <2>2, <3>1, HoldersNext
    <3> QED
      BY <3>1, <3>2, HoldersAre
  <2> QED
    BY <2>1, <2>2
<1>5. OneHolder'
  BY <1>4 DEF RaceInv, OneHolder
<1> QED
  BY <1>3, <1>5 DEF RaceInv

\* One attempt changes to b, and its request to q: it takes the lane that is
\* free, gives up the lane it has, or does neither.
LEMMA OneTry ==
    ASSUME RaceInv, NEW r \in Request, NEW i \in DOMAIN att[r], NEW q \in Racing, NEW b \in Try,
           AR!Update(r, q), AR!Set(r, i, b), secondary' \in BOOLEAN,
           q.second # 0 => q.second \in DOMAIN att[r],
           q.at \notin {"idle", "lane", "done"},
           LaneSound(b),
           \/ (HasLane(b) <=> HasLane(att[r][i])) /\ UNCHANGED secondary
           \/ ~secondary /\ HasLane(b) /\ secondary'
           \/ HasLane(att[r][i]) /\ ~HasLane(b) /\ ~secondary'
    PROVE  RaceInv'
<1>1. att \in [Request -> Seq(Try)] /\ att[r] \in Seq(Try)
  BY DEF RaceInv, RaceTyped
<1>2. /\ att' \in [Request -> Seq(Try)] /\ DOMAIN att'[r] = DOMAIN att[r] /\ att'[r][i] = b
      /\ \A j \in DOMAIN att[r] : j # i => att'[r][j] = att[r][j]
      /\ \A o \in Request : o # r => att'[o] = att[o]
  BY <1>1 DEF AR!Set
<1>3. /\ req' \in [Request -> Racing] /\ req'[r] = q
      /\ \A o \in Request : o # r => req'[o] = req[o]
  BY DEF RaceInv, RaceTyped, AR!Update
<1>4. RaceTyped'
  BY <1>2, <1>3 DEF RaceInv, RaceTyped
<1>5. Holders' = IF HasLane(b) THEN Holders \cup {<<r, i>>} ELSE Holders \ {<<r, i>>}
  <2>1. <<r, i>> \in Holders' <=> HasLane(b)
    BY <1>2, HoldersNext
  <2>2. ASSUME NEW x, x # <<r, i>> PROVE x \in Holders' <=> x \in Holders
    <3>1. ASSUME x \in Holders PROVE x \in Holders'
      <4>0. PICK o \in Request : \E j \in DOMAIN att[o] : x = <<o, j>>
        BY <3>1, HoldersAre
      <4>1. PICK j \in DOMAIN att[o] : x = <<o, j>>
        BY <4>0
      <4>2. j \in DOMAIN att'[o] /\ HasLane(att'[o][j])
        BY <1>2, <2>2, <3>1, <4>1, HoldersAre
      <4> QED
        BY <4>1, <4>2, HoldersNext
    <3>2. ASSUME x \in Holders' PROVE x \in Holders
      <4>0. PICK o \in Request : \E j \in DOMAIN att'[o] : x = <<o, j>>
        BY <3>2, HoldersNext
      <4>1. PICK j \in DOMAIN att'[o] : x = <<o, j>>
        BY <4>0
      <4>2. j \in DOMAIN att[o] /\ HasLane(att[o][j])
        BY <1>2, <2>2, <3>2, <4>1, HoldersNext
      <4> QED
        BY <4>1, <4>2, HoldersAre
    <3> QED
      BY <3>1, <3>2
  <2> QED
    BY <2>1, <2>2
<1>6. <<r, i>> \in Holders <=> HasLane(att[r][i])
  BY HoldersAre
<1>7. OneHolder'
  BY <1>5, <1>6 DEF RaceInv, OneHolder
<1> QED
  BY <1>4, <1>7 DEF RaceInv

-----------------------------------------------------------------------------
LEMMA NewTry ==
    ASSUME RaceTyped, NEW r \in Request, NEW a \in Nat, NEW second \in BOOLEAN
    PROVE  /\ \A n \in Nat : AR!Attempt(a, n, second) \in Try
           /\ \A n : ~HasLane(AR!Attempt(a, n, second)) /\ LaneSound(AR!Attempt(a, n, second))
           /\ AR!Number(r, a) + 1 \in Nat
<1>1. \A n \in Nat : AR!Attempt(a, n, second) \in Try
  BY DEF AR!Attempt, Try
<1>2. \A n : ~HasLane(AR!Attempt(a, n, second)) /\ LaneSound(AR!Attempt(a, n, second))
  BY DEF AR!Attempt, HasLane, LaneSound
<1>3. AR!Number(r, a) \in Nat
  <2> DEFINE S == {i \in DOMAIN att[r] : att[r][i].address = a}
  <2>1. att[r] \in Seq(Try)
    BY DEF RaceTyped
  <2>2. DOMAIN att[r] = 1..Len(att[r]) /\ Len(att[r]) \in Nat
    BY <2>1
  <2>3. S \in SUBSET (1..Len(att[r])) /\ IsFiniteSet(1..Len(att[r]))
    BY <2>2, FS_Interval
  <2>4. Cardinality(S) \in Nat
    BY <2>3, FS_Subset, FS_CardinalityType
  <2> QED
    BY <2>4 DEF AR!Number, AR!Cardinality, Cardinality
<1> QED
  BY <1>1, <1>2, <1>3

LEMMA NextAddress ==
    ASSUME RaceTyped, NEW r \in Request, AR!Pending(req[r]), Addresses \in Nat
    PROVE  /\ AR!NextOf(req[r]) \in Nat /\ AR!Without(req[r]) \in Racing
           /\ AR!Without(req[r]).second = req[r].second
<1> DEFINE q == req[r]
<1>1. q \in Racing
  BY DEF RaceTyped
<1>2. CASE q.untried <= Addresses
  BY <1>1, <1>2 DEF Racing, AR!NextOf, AR!Without
<1>3. CASE ~(q.untried <= Addresses)
  <2>1. q.retries \in Seq(Nat) /\ q.retries # << >>
    BY <1>1, <1>3 DEF Racing, AR!Pending
  <2>2. Head(q.retries) \in Nat /\ Tail(q.retries) \in Seq(Nat)
    BY <2>1
  <2>3. AR!NextOf(q) = Head(q.retries) /\ AR!Without(q) = [q EXCEPT !.retries = Tail(q.retries)]
    BY <1>1, <1>3 DEF AR!NextOf, AR!Without, Racing
  <2> QED
    BY <1>1, <2>2, <2>3 DEF Racing
<1> QED
  BY <1>2, <1>3

LEMMA StoppedTries ==
    ASSUME NEW tries \in Seq(Try)
    PROVE  /\ AR!Stopped(tries) \in Seq(Try) /\ DOMAIN AR!Stopped(tries) = DOMAIN tries
           /\ \A i \in DOMAIN tries :
                /\ (HasLane(AR!Stopped(tries)[i]) <=> HasLane(tries[i]))
                /\ (LaneSound(tries[i]) => LaneSound(AR!Stopped(tries)[i]))
<1>3. DOMAIN tries = 1..Len(tries) /\ Len(tries) \in Nat
  BY LenProperties
<1>1. \A i \in DOMAIN tries : tries[i] \in Try
  BY <1>3
<1>2. \A i \in DOMAIN tries : [tries[i] EXCEPT !.cancelled = TRUE] \in Try
  BY <1>1 DEF Try
<1>4. AR!Stopped(tries) \in [1..Len(tries) -> Try]
  BY <1>2, <1>3 DEF AR!Stopped
<1>5. AR!Stopped(tries) \in Seq(Try)
  BY <1>3, <1>4, SeqDef
<1>6. \A i \in DOMAIN tries : AR!Stopped(tries)[i] = [tries[i] EXCEPT !.cancelled = TRUE]
  BY DEF AR!Stopped
<1> QED
  BY <1>1, <1>3, <1>4, <1>5, <1>6 DEF Try, HasLane, LaneSound

\* What the request does itself, its attempts left alone.
LEMMA RequestAlone ==
    ASSUME RaceInv, NEW r \in Request, NEW q \in Racing, AR!Update(r, q), UNCHANGED <<att, secondary>>,
           q.second = req[r].second, q.at \in {"idle", "lane", "done"} => att[r] = << >>
    PROVE  RaceInv'
<1>1. att[r] \in Seq(Try) /\ att' = [att EXCEPT ![r] = att[r]]
  BY DEF RaceInv, RaceTyped
<1>2. /\ q.second # 0 => q.second \in DOMAIN att[r]
      /\ \A i \in DOMAIN att[r] : LaneSound(att[r][i])
  BY DEF RaceInv, RaceTyped
<1> QED
  BY <1>1, <1>2, SameLane

\* It stops all its attempts.
LEMMA RequestStops ==
    ASSUME RaceInv, NEW r \in Request, NEW q \in Racing, AR!Update(r, q), UNCHANGED secondary,
           att' = [att EXCEPT ![r] = AR!Stopped(@)],
           q.second = req[r].second, q.at \in {"idle", "lane", "done"} => att[r] = << >>
    PROVE  RaceInv'
<1> DEFINE tries == AR!Stopped(att[r])
<1>1. att[r] \in Seq(Try) /\ att' = [att EXCEPT ![r] = tries]
  BY DEF RaceInv, RaceTyped
<1>2. /\ q.second # 0 => q.second \in DOMAIN att[r]
      /\ \A i \in DOMAIN att[r] : LaneSound(att[r][i])
  BY DEF RaceInv, RaceTyped
<1>3. /\ tries \in Seq(Try) /\ DOMAIN tries = DOMAIN att[r]
      /\ \A i \in DOMAIN att[r] : LaneSound(tries[i]) /\ (HasLane(tries[i]) <=> HasLane(att[r][i]))
  BY <1>1, <1>2, StoppedTries
<1> HIDE DEF tries
<1>4. att[r] = << >> => tries = << >>
  BY <1>1, <1>3
<1> QED
  BY <1>1, <1>2, <1>3, <1>4, SameLane

LEMMA RoundTripStep ==
    ASSUME RaceInv, AR!AddressRaceAssumption, NEW r \in Request, AR!RoundTrip(r)
    PROVE  RaceInv'
<1> DEFINE q == req[r]
<1>1. q \in Racing /\ q.at = "idle" /\ att[r] = << >> /\ att \in [Request -> Seq(Try)]
  BY DEF RaceInv, RaceTyped, AR!RoundTrip
<1>2. q.second = 0
  BY <1>1 DEF RaceInv, RaceTyped
<1>3. CASE /\ AR!Update(r, [q EXCEPT !.at = "lane", !.image = TRUE])
           /\ UNCHANGED <<att, secondary>>
  <2> DEFINE p == [q EXCEPT !.at = "lane", !.image = TRUE]
  <2>1. p \in Racing /\ p.second = q.second
    BY <1>1 DEF Racing
  <2> QED
    BY <1>1, <1>3, <2>1, RequestAlone
<1>4. CASE /\ AR!Update(r, [q EXCEPT !.at = "select", !.untried = Addresses + 1])
           /\ att' = [att EXCEPT ![r] = [i \in 1 .. Addresses |-> AR!Attempt(i, 1, FALSE)]]
           /\ UNCHANGED secondary
  <2> DEFINE p == [q EXCEPT !.at = "select", !.untried = Addresses + 1]
             tries == [i \in 1 .. Addresses |-> AR!Attempt(i, 1, FALSE)]
  <2>1. Addresses \in Nat
    BY DEF AR!AddressRaceAssumption
  <2>2. p \in Racing /\ p.second = 0 /\ p.at = "select"
    <3>1. Addresses + 1 \in Nat
      BY <2>1
    <3> DEFINE n == Addresses + 1
    <3> HIDE DEF n
    <3> QED
      BY <1>1, <1>2, <3>1 DEF Racing, n
  <2>3. \A i \in 1..Addresses : /\ AR!Attempt(i, 1, FALSE) \in Try
                                /\ ~HasLane(AR!Attempt(i, 1, FALSE)) /\ LaneSound(AR!Attempt(i, 1, FALSE))
    <3>1. 1 \in Nat /\ FALSE \in BOOLEAN /\ 1..Addresses \subseteq Nat /\ RaceTyped
      BY DEF RaceInv
    <3> QED
      BY <3>1, NewTry
  <2>4. tries \in [1..Addresses -> Try]
    BY <2>3
  <2>5. tries \in Seq(Try)
    BY <2>1, <2>4, SeqDef
  <2>6. /\ AR!Update(r, p) /\ att' = [att EXCEPT ![r] = tries]
        /\ \A i \in DOMAIN tries : ~HasLane(tries[i]) /\ LaneSound(tries[i])
    BY <1>4, <2>3
  <2>7. UNCHANGED secondary /\ DOMAIN att[r] = {}
    BY <1>1, <1>4
  <2> HIDE DEF p, tries
  <2> QED
    BY <2>7, <2>2, <2>5, <2>6, SameLane
<1> QED
  BY <1>3, <1>4 DEF AR!RoundTrip

LEMMA PromoteStep ==
    ASSUME RaceInv, NEW r \in Request, AR!promote(r), req[r].at = "loop"
    PROVE  RaceInv'
<1> DEFINE q == req[r]
           i == q.second
           a == att[r][i]
           b == [a EXCEPT !.second = FALSE, !.promoted = TRUE, !.holds = FALSE]
           p == [q EXCEPT !.at = "select", !.primary = i, !.second = 0]
<1>1. /\ i # 0 /\ AR!Set(r, i, b) /\ secondary' = (secondary /\ ~a.holds) /\ AR!Update(r, p)
  BY DEF AR!promote
<1>2. q \in Racing /\ i \in DOMAIN att[r] /\ a \in Try /\ LaneSound(a) /\ secondary \in BOOLEAN
  BY <1>1 DEF RaceInv, RaceTyped
<1>3. p \in Racing /\ p.second = 0 /\ p.at = "select"
  BY <1>2 DEF Racing
<1>4. b \in Try /\ b.at = a.at /\ b.holds = FALSE
  BY <1>2 DEF Try
<1>5. LaneSound(b) /\ (HasLane(b) <=> b.at = "took") /\ (a.at = "took" => ~a.holds)
  BY <1>2, <1>4 DEF LaneSound, HasLane
<1>6. HasLane(a) <=> a.at = "took" \/ a.holds
  BY DEF HasLane
<1>7. /\ secondary' \in BOOLEAN
      /\ a.holds => ~secondary'
      /\ ~a.holds => secondary' = secondary
  BY <1>1, <1>2
<1> HIDE DEF b, p, a, q, i
<1>8. \/ (HasLane(b) <=> HasLane(a)) /\ UNCHANGED secondary
      \/ HasLane(a) /\ ~HasLane(b) /\ ~secondary'
  BY <1>4, <1>5, <1>6, <1>7
<1>9. r \in Request /\ a = att[r][i]
  BY DEF a
<1> QED
  BY <1>1, <1>2, <1>3, <1>4, <1>5, <1>7, <1>8, <1>9, OneTry

\* A new attempt, without the lane.
LEMMA AppendStep ==
    ASSUME RaceInv, NEW r \in Request, NEW q \in Racing, NEW a \in Try, ~HasLane(a), LaneSound(a),
           AR!Update(r, q), att' = [att EXCEPT ![r] = Append(@, a)], UNCHANGED secondary,
           q.at = "select" \/ q.at = "loop", q.second \in {0, req[r].second, Len(att[r]) + 1}
    PROVE  RaceInv'
<1> DEFINE tries == Append(att[r], a)
<1>1. att[r] \in Seq(Try) /\ att' = [att EXCEPT ![r] = tries]
  BY DEF RaceInv, RaceTyped
<1>2. /\ tries \in Seq(Try) /\ DOMAIN tries = 1..(Len(att[r]) + 1)
      /\ DOMAIN att[r] = 1..Len(att[r]) /\ Len(att[r]) \in Nat
      /\ tries[Len(att[r]) + 1] = a /\ \A i \in DOMAIN att[r] : tries[i] = att[r][i]
  BY <1>1
<1>3. \A i \in DOMAIN tries : i \in DOMAIN att[r] \/ i = Len(att[r]) + 1
  BY <1>2
<1>4. /\ req[r].second # 0 => req[r].second \in DOMAIN att[r]
      /\ \A i \in DOMAIN att[r] : LaneSound(att[r][i])
  BY DEF RaceInv, RaceTyped
<1>5. q.second # 0 => q.second \in DOMAIN tries
  BY <1>2, <1>4
<1>6. q.at \notin {"idle", "lane", "done"}
  OBVIOUS
<1> HIDE DEF tries
<1>7. /\ \A i \in DOMAIN tries : LaneSound(tries[i])
      /\ \A i \in DOMAIN tries : HasLane(tries[i]) => i \in DOMAIN att[r] /\ HasLane(att[r][i])
      /\ \A i \in DOMAIN att[r] : HasLane(att[r][i]) => i \in DOMAIN tries /\ HasLane(tries[i])
  BY <1>2, <1>3, <1>4
<1> QED
  BY <1>1, <1>2, <1>5, <1>6, <1>7, SameLane

LEMMA LoopStep ==
    ASSUME RaceInv, AR!AddressRaceAssumption, NEW r \in Request, AR!Loop(r)
    PROVE  RaceInv'
<1> DEFINE q == req[r]
<1>1. q \in Racing /\ q.at = "loop" /\ Addresses \in Nat /\ RaceTyped
  BY DEF RaceInv, RaceTyped, AR!Loop, AR!AddressRaceAssumption
<1>2. CASE AR!promote(r)
  BY <1>1, <1>2, PromoteStep
<1>3. CASE AR!launch(r)
  <2> DEFINE n == AR!Number(r, AR!NextOf(q)) + 1
             a == AR!Attempt(AR!NextOf(q), n, FALSE)
             p == [AR!Without(q) EXCEPT !.at = "select", !.primary = Len(att'[r])]
  <2>1. /\ AR!Pending(q) /\ q.second = 0 /\ att' = [att EXCEPT ![r] = Append(@, a)]
        /\ AR!Update(r, p) /\ UNCHANGED secondary
    BY <1>3 DEF AR!launch
  <2>2. AR!NextOf(q) \in Nat /\ AR!Without(q) \in Racing /\ AR!Without(q).second = 0
    BY <1>1, <2>1, NextAddress
  <2>3. n \in Nat /\ a \in Try /\ ~HasLane(a) /\ LaneSound(a)
    BY <1>1, <2>2, NewTry
  <2>4. Len(att'[r]) \in Nat
    <3>1. att[r] \in Seq(Try) /\ att'[r] = Append(att[r], a)
      BY <1>1, <2>1 DEF RaceTyped
    <3> HIDE DEF a
    <3> QED
      BY <2>3, <3>1
  <2> DEFINE l == Len(att'[r])
             w == AR!Without(q)
  <2> HIDE DEF l, w
  <2>5. [w EXCEPT !.at = "select", !.primary = l] \in Racing
    BY <2>2, <2>4 DEF Racing, l, w
  <2>6. /\ [w EXCEPT !.at = "select", !.primary = l].at = "select"
        /\ [w EXCEPT !.at = "select", !.primary = l].second = 0
    BY <2>2 DEF Racing, w
  <2>7. p \in Racing /\ p.at = "select" /\ p.second = 0
    BY <2>5, <2>6 DEF l, w
  <2> HIDE DEF p, a
  <2> QED
    BY <2>1, <2>3, <2>7, AppendStep
<1>4. CASE AR!Exhausted(r)
  <2> DEFINE x == IF q.first THEN "response" ELSE "failed"
  <2>1. x \in AR!Results
    BY DEF AR!Results
  <2> HIDE DEF x
  <2>2. /\ [q EXCEPT !.at = "waiting", !.result = x] \in Racing
        /\ [q EXCEPT !.at = "waiting", !.result = x].second = q.second
        /\ [q EXCEPT !.at = "waiting", !.result = x].at = "waiting"
    BY <1>1, <2>1 DEF Racing
  <2>3. AR!Update(r, [q EXCEPT !.at = "waiting", !.result = x]) /\ UNCHANGED <<att, secondary>>
    BY <1>4 DEF AR!Exhausted, x
  <2> QED
    BY <2>2, <2>3, RequestAlone
<1>5. CASE AR!Settled(r)
  <2>1. /\ [q EXCEPT !.at = "select"] \in Racing /\ [q EXCEPT !.at = "select"].second = q.second
        /\ [q EXCEPT !.at = "select"].at = "select"
    BY <1>1 DEF Racing
  <2>2. AR!Update(r, [q EXCEPT !.at = "select"]) /\ UNCHANGED <<att, secondary>>
    BY <1>5 DEF AR!Settled
  <2> QED
    BY <2>1, <2>2, RequestAlone
<1> QED
  BY <1>2, <1>3, <1>4, <1>5 DEF AR!Loop

LEMMA QuietStep ==
    ASSUME RaceInv, AR!AddressRaceAssumption, NEW r \in Request, AR!Quiet(r)
    PROVE  RaceInv'
<1> DEFINE q == req[r]
           i == AR!Watched(r)
<1>1. q \in Racing /\ Addresses \in Nat /\ RaceTyped /\ AR!Pending(q) /\ UNCHANGED secondary
  BY DEF RaceInv, RaceTyped, AR!AddressRaceAssumption, AR!Quiet, AR!Watched
<1>2. CASE q.second = 0
  <2> DEFINE n == AR!Number(r, AR!NextOf(q)) + 1
             a == AR!Attempt(AR!NextOf(q), n, TRUE)
             p == [AR!Without(q) EXCEPT !.at = "loop", !.second = Len(att'[r])]
  <2>1. att' = [att EXCEPT ![r] = Append(@, a)] /\ AR!Update(r, p)
    BY <1>2 DEF AR!Quiet
  <2>2. AR!NextOf(q) \in Nat /\ AR!Without(q) \in Racing
    BY <1>1, NextAddress
  <2>3. n \in Nat /\ a \in Try /\ ~HasLane(a) /\ LaneSound(a)
    BY <1>1, <2>2, NewTry
  <2>4. Len(att'[r]) = Len(att[r]) + 1 /\ Len(att[r]) \in Nat
    <3>1. att[r] \in Seq(Try) /\ att'[r] = Append(att[r], a)
      BY <1>1, <2>1 DEF RaceTyped
    <3> HIDE DEF a
    <3> QED
      BY <2>3, <3>1
  <2> DEFINE l == Len(att'[r])
             w == AR!Without(q)
  <2> HIDE DEF l, w
  <2>5. l \in Nat
    BY <2>4 DEF l
  <2>6. /\ [w EXCEPT !.at = "loop", !.second = l] \in Racing
        /\ [w EXCEPT !.at = "loop", !.second = l].at = "loop"
        /\ [w EXCEPT !.at = "loop", !.second = l].second = l
    BY <2>2, <2>5 DEF Racing, w
  <2>7. p \in Racing /\ p.at = "loop" /\ p.second = Len(att[r]) + 1
    BY <2>4, <2>6 DEF l, w
  <2> HIDE DEF p, a
  <2> QED
    BY <1>1, <2>1, <2>3, <2>7, AppendStep
<1>3. CASE q.second # 0
  <2> DEFINE a == att[r][i]
             b == [a EXCEPT !.yielded = TRUE, !.cancelled = TRUE]
             p == [q EXCEPT !.at = "loop"]
  <2>1. i = q.second /\ i # 0 /\ AR!Set(r, i, b) /\ AR!Update(r, p)
    BY <1>3 DEF AR!Quiet, AR!Watched
  <2>2. i \in DOMAIN att[r] /\ a \in Try /\ LaneSound(a) /\ secondary \in BOOLEAN
    BY <1>1, <1>3, <2>1 DEF RaceTyped
  <2>3. b \in Try /\ b.at = a.at /\ b.holds = a.holds /\ b.second = a.second
    BY <2>2 DEF Try
  <2>4. LaneSound(b) /\ (HasLane(b) <=> HasLane(a))
    BY <2>2, <2>3 DEF LaneSound, HasLane
  <2>5. p \in Racing /\ p.at = "loop" /\ p.second = q.second
    BY <1>1 DEF Racing
  <2>6. a = att[r][i]
    OBVIOUS
  <2> HIDE DEF b, p, a, i
  <2> QED
    BY <1>1, <2>1, <2>2, <2>3, <2>4, <2>5, <2>6, OneTry
<1> QED
  BY <1>2, <1>3

LEMMA SeenStep ==
    ASSUME RaceInv, NEW r \in Request, NEW i \in DOMAIN att[r], AR!Seen(r, i)
    PROVE  RaceInv'
<1> DEFINE a == att[r][i]
           again == a.number = 1 /\ (a.end = "transient" \/ (a.yielded /\ a.end = "cancelled"))
           freed == [req[r] EXCEPT !.primary = IF @ = i THEN 0 ELSE @, !.second = IF @ = i THEN 0 ELSE @]
           q == IF req[r].image THEN [freed EXCEPT !.at = "loop"] ELSE freed
           last == ~q.image /\ \A k \in DOMAIN att[r] \ {i} : att[r][k].at = "seen"
           kept == [q EXCEPT !.first = @ \/ a.end = "response",
                             !.retries = IF again /\ q.image THEN Append(@, a.address) ELSE @]
           p == IF a.end = "won" THEN [q EXCEPT !.at = "waiting", !.result = "won"]
                ELSE IF last THEN [kept EXCEPT !.at = "waiting",
                                     !.result = IF kept.first THEN "response" ELSE "failed"]
                ELSE kept
           seen == [att[r] EXCEPT ![i] = AR!Settle(a)]
           tries == IF a.end = "won" THEN AR!Stopped(seen) ELSE seen
<1>1. /\ req[r].at = "select" /\ a.at = "finished" /\ UNCHANGED secondary
      /\ att' = [att EXCEPT ![r] = tries] /\ AR!Update(r, p)
  BY DEF AR!Seen
<1>2. /\ req[r] \in Racing /\ att[r] \in Seq(Try) /\ a \in Try /\ LaneSound(a)
      /\ req[r].second # 0 => req[r].second \in DOMAIN att[r]
  BY DEF RaceInv, RaceTyped
<1>3. freed \in Racing /\ freed.at = "select" /\ freed.second \in {0, req[r].second}
  <2> DEFINE x == IF req[r].primary = i THEN 0 ELSE req[r].primary
             y == IF req[r].second = i THEN 0 ELSE req[r].second
  <2>1. x \in Nat /\ y \in Nat /\ y \in {0, req[r].second}
    BY <1>2 DEF Racing
  <2>2. freed = [req[r] EXCEPT !.primary = x, !.second = y]
    BY <1>2 DEF Racing
  <2> HIDE DEF x, y, freed
  <2> QED
    BY <1>1, <1>2, <2>1, <2>2 DEF Racing
<1> HIDE DEF freed
<1>4. q \in Racing /\ q.at \in {"select", "loop"} /\ q.second \in {0, req[r].second}
  BY <1>3 DEF Racing
<1> HIDE DEF q
<1>5. kept \in Racing /\ kept.at = q.at /\ kept.second = q.second
  <2> DEFINE x == IF again /\ q.image THEN Append(q.retries, a.address) ELSE q.retries
             y == q.first \/ a.end = "response"
  <2>1. x \in Seq(Nat) /\ y \in BOOLEAN
    BY <1>2, <1>4 DEF Racing, Try
  <2>2. kept = [q EXCEPT !.first = y, !.retries = x]
    BY <1>4 DEF Racing
  <2> HIDE DEF x, y, kept
  <2> QED
    BY <1>4, <2>1, <2>2 DEF Racing
<1> HIDE DEF kept, last, again
<1>6. p \in Racing /\ p.at \in {"select", "loop", "waiting"} /\ p.second = q.second
  <2>1. CASE a.end = "won"
    <3>1. p = [q EXCEPT !.at = "waiting", !.result = "won"]
      BY <2>1
    <3> HIDE DEF p
    <3> QED
      BY <1>4, <3>1 DEF Racing, AR!Results
  <2>2. CASE a.end # "won" /\ last
    <3> DEFINE x == IF kept.first THEN "response" ELSE "failed"
    <3>1. p = [kept EXCEPT !.at = "waiting", !.result = x] /\ x \in AR!Results
      BY <2>2 DEF AR!Results
    <3> HIDE DEF p, x
    <3> QED
      BY <1>5, <3>1 DEF Racing
  <2>3. CASE a.end # "won" /\ ~last
    <3>1. p = kept
      BY <2>3
    <3> QED
      BY <1>4, <1>5, <3>1
  <2> QED
    BY <2>1, <2>2, <2>3
<1> HIDE DEF p
<1>7. ~HasLane(a)
  BY <1>1, <1>2 DEF LaneSound
<1>8. AR!Settle(a) \in Try /\ ~HasLane(AR!Settle(a)) /\ LaneSound(AR!Settle(a))
  BY <1>2, <1>7 DEF AR!Settle, Try, HasLane, LaneSound
<1>9. /\ seen \in Seq(Try) /\ DOMAIN seen = DOMAIN att[r]
      /\ \A j \in DOMAIN att[r] : LaneSound(seen[j]) /\ (HasLane(seen[j]) <=> HasLane(att[r][j]))
  <2>1. \A j \in DOMAIN att[r] : LaneSound(att[r][j])
    BY DEF RaceInv, RaceTyped
  <2> DEFINE b == AR!Settle(a)
  <2> HIDE DEF b
  <2>2. b \in Try /\ ~HasLane(b) /\ LaneSound(b) /\ seen = [att[r] EXCEPT ![i] = b]
    BY <1>8 DEF b
  <2>3. /\ seen \in Seq(Try) /\ DOMAIN seen = DOMAIN att[r] /\ seen[i] = b
        /\ \A j \in DOMAIN att[r] : j # i => seen[j] = att[r][j]
    BY <1>2, <2>2
  <2> HIDE DEF seen
  <2> QED
    BY <1>7, <2>1, <2>2, <2>3
<1> HIDE DEF seen
<1>10. /\ tries \in Seq(Try) /\ DOMAIN tries = DOMAIN att[r]
       /\ \A j \in DOMAIN att[r] : LaneSound(tries[j]) /\ (HasLane(tries[j]) <=> HasLane(att[r][j]))
  <2>1. CASE a.end = "won"
    <3> DEFINE t == AR!Stopped(seen)
    <3>1. /\ t \in Seq(Try) /\ DOMAIN t = DOMAIN seen
          /\ \A j \in DOMAIN seen : (HasLane(t[j]) <=> HasLane(seen[j])) /\ (LaneSound(seen[j]) => LaneSound(t[j]))
      BY <1>9, StoppedTries
    <3>2. tries = t
      BY <2>1
    <3> HIDE DEF t, tries
    <3> QED
      BY <1>9, <3>1, <3>2
  <2>2. CASE a.end # "won"
    BY <1>9, <2>2
  <2> QED
    BY <2>1, <2>2
<1> HIDE DEF tries, a
<1>11. p.second # 0 => p.second \in DOMAIN tries
  BY <1>2, <1>4, <1>6, <1>10
<1>12. p.at \notin {"idle", "lane", "done"}
  BY <1>6
<1> QED
  BY <1>1, <1>6, <1>10, <1>11, <1>12, SameLane

LEMMA LeaveStep ==
    ASSUME RaceInv, NEW r \in Request, AR!Cancelled(r) \/ AR!Return(r) \/ AR!Admitted(r)
    PROVE  RaceInv'
<1> DEFINE q == req[r]
<1>1. q \in Racing
  BY DEF RaceInv, RaceTyped
<1>2. CASE AR!Cancelled(r)
  <2> DEFINE x == IF q.at = "lane" THEN "done" ELSE "waiting"
             p == [q EXCEPT !.at = x, !.result = "cancelled"]
  <2>1. x \in {"done", "waiting"} /\ (x = "done" => att[r] = << >>)
    BY DEF RaceInv, RaceTyped
  <2>2. AR!Update(r, p) /\ UNCHANGED secondary /\ att' = [att EXCEPT ![r] = AR!Stopped(@)]
    BY <1>1, <1>2 DEF AR!Cancelled, Racing
  <2> HIDE DEF x
  <2>3. p \in Racing /\ p.second = q.second /\ p.at = x
    BY <1>1, <2>1 DEF Racing, AR!Results
  <2> HIDE DEF p
  <2> QED
    BY <2>1, <2>2, <2>3, RequestStops
<1>3. CASE AR!Return(r)
  <2> DEFINE p == [AR!Fresh EXCEPT !.at = "done", !.result = req[r].result]
  <2>1. p \in Racing /\ p.second = 0
    BY <1>1, FreshRace DEF Racing, AR!Fresh
  <2>2. /\ AR!Update(r, p) /\ UNCHANGED secondary /\ att' = [att EXCEPT ![r] = << >>]
        /\ \A i \in DOMAIN att[r] : att[r][i].at \in {"finished", "seen"}
    BY <1>3 DEF AR!Return
  <2>3. \A i \in DOMAIN att[r] : ~HasLane(att[r][i])
    BY <2>2 DEF RaceInv, RaceTyped, LaneSound
  <2>4. << >> \in Seq(Try) /\ DOMAIN << >> = {}
    OBVIOUS
  <2> HIDE DEF p
  <2> QED
    BY <2>1, <2>2, <2>3, <2>4, SameLane
<1>4. CASE AR!Admitted(r)
  <2>1. AR!Update(r, [q EXCEPT !.at = "loop"]) /\ UNCHANGED <<att, secondary>>
    BY <1>4 DEF AR!Admitted
  <2>2. /\ [q EXCEPT !.at = "loop"] \in Racing /\ [q EXCEPT !.at = "loop"].second = q.second
        /\ [q EXCEPT !.at = "loop"].at = "loop"
    BY <1>1 DEF Racing
  <2> QED
    BY <2>1, <2>2, RequestAlone
<1> QED
  BY <1>2, <1>3, <1>4

LEMMA RunStep ==
    ASSUME RaceInv, NEW r \in Request, NEW i \in DOMAIN att[r], AR!Run(r, i)
    PROVE  RaceInv'
<1> DEFINE q == req[r]
           a == att[r][i]
<1>1. /\ q \in Racing /\ a \in Try /\ LaneSound(a) /\ secondary \in BOOLEAN
      /\ q.second # 0 => q.second \in DOMAIN att[r]
      /\ DOMAIN req = Request
  BY DEF RaceInv, RaceTyped
<1>2. q.at \notin {"idle", "lane", "done"}
  <2>1. att[r] # << >>
    OBVIOUS
  <2> QED
    BY <2>1 DEF RaceInv, RaceTyped
<1>3. AR!Update(r, q)
  <2>1. req' = req
    BY DEF AR!Run, AR!TakeLane, AR!Noted, AR!Checked, AR!TakeSlot, AR!Withdrawn, AR!fetchCandidate
  <2>2. req = [req EXCEPT ![r] = q]
    BY DEF RaceInv, RaceTyped
  <2> QED
    BY <2>1, <2>2 DEF AR!Update
\* Enough: what the attempt becomes, and the lane with it.
<1>4. ASSUME NEW b \in Try, AR!Set(r, i, b), LaneSound(b), secondary' \in BOOLEAN,
             \/ (HasLane(b) <=> HasLane(a)) /\ UNCHANGED secondary
             \/ ~secondary /\ HasLane(b) /\ secondary'
             \/ HasLane(a) /\ ~HasLane(b) /\ ~secondary'
      PROVE  RaceInv'
  BY <1>1, <1>2, <1>3, <1>4, OneTry
<1> HIDE DEF q
<1>5. CASE AR!TakeLane(r, i)
  <2>1. a.at = "lane" /\ ~HasLane(a)
    BY <1>1, <1>5 DEF AR!TakeLane, LaneSound
  <2>2. CASE ~secondary /\ secondary' = TRUE /\ AR!Set(r, i, [a EXCEPT !.at = "took"])
    <3>1. [a EXCEPT !.at = "took"] \in Try
      BY <1>1 DEF Try
    <3>2. HasLane([a EXCEPT !.at = "took"]) /\ LaneSound([a EXCEPT !.at = "took"])
      BY <1>1, <2>1 DEF Try, HasLane, LaneSound
    <3> QED
      BY <1>4, <2>2, <3>1, <3>2
  <2>3. CASE AR!Set(r, i, [a EXCEPT !.at = "slot"]) /\ UNCHANGED secondary
    <3>1. [a EXCEPT !.at = "slot"] \in Try
      BY <1>1 DEF Try
    <3>2. ~HasLane([a EXCEPT !.at = "slot"]) /\ LaneSound([a EXCEPT !.at = "slot"])
      BY <1>1, <2>1 DEF Try, HasLane, LaneSound
    <3> QED
      BY <1>1, <1>4, <2>1, <2>3, <3>1, <3>2
  <2> QED
    BY <1>5, <2>2, <2>3 DEF AR!TakeLane
<1>6. CASE AR!Noted(r, i)
  <2>1. a.at = "took" /\ AR!Set(r, i, [a EXCEPT !.at = "check", !.holds = TRUE]) /\ UNCHANGED secondary
    BY <1>6 DEF AR!Noted
  <2>2. [a EXCEPT !.at = "check", !.holds = TRUE] \in Try
    BY <1>1 DEF Try
  <2>3. /\ HasLane([a EXCEPT !.at = "check", !.holds = TRUE]) /\ HasLane(a)
        /\ LaneSound([a EXCEPT !.at = "check", !.holds = TRUE])
    BY <1>1, <2>1 DEF Try, HasLane, LaneSound
  <2> QED
    BY <1>1, <1>4, <2>1, <2>2, <2>3
<1>7. CASE AR!Checked(r, i)
  <2> DEFINE keep == a.holds /\ ~(a.holds /\ ~a.second)
             b == [a EXCEPT !.at = "slot", !.holds = keep]
  <2>1. /\ a.at = "check" /\ AR!Set(r, i, b)
        /\ secondary' = (secondary /\ ~(a.holds /\ ~a.second))
    <3>1. b = [a EXCEPT !.at = "slot", !.holds = @ /\ ~(a.holds /\ ~a.second)]
      BY <1>1 DEF Try
    <3> QED
      BY <1>7, <3>1 DEF AR!Checked
  <2>2. keep \in BOOLEAN /\ (keep <=> a.holds /\ a.second)
    BY <1>1 DEF Try
  <2> HIDE DEF keep
  <2>3. b \in Try /\ b.at = "slot" /\ b.holds = keep /\ b.second = a.second
    BY <1>1, <2>2 DEF Try
  <2>4. (HasLane(b) <=> keep) /\ LaneSound(b) /\ (HasLane(a) <=> a.holds)
    BY <2>1, <2>2, <2>3 DEF HasLane, LaneSound
  <2>5. secondary' \in BOOLEAN /\ IF a.holds /\ ~a.second THEN ~secondary' ELSE secondary' = secondary
    BY <1>1, <2>1
  <2> HIDE DEF b
  <2> QED
    BY <1>4, <2>1, <2>2, <2>3, <2>4, <2>5
<1>8. CASE AR!TakeSlot(r, i)
  <2>1. a.at = "slot" /\ AR!Set(r, i, [a EXCEPT !.at = "fetching"]) /\ UNCHANGED secondary
    BY <1>8 DEF AR!TakeSlot
  <2>2. [a EXCEPT !.at = "fetching"] \in Try
    BY <1>1 DEF Try
  <2>3. (HasLane([a EXCEPT !.at = "fetching"]) <=> HasLane(a)) /\ LaneSound([a EXCEPT !.at = "fetching"])
    BY <1>1, <2>1 DEF Try, HasLane, LaneSound
  <2> QED
    BY <1>1, <1>4, <2>1, <2>2, <2>3
<1>9. ASSUME AR!Withdrawn(r, i) \/ AR!fetchCandidate(r, i)
      PROVE  RaceInv'
  <2>1. PICK e \in Outcome \cup {"cancelled"} :
          AR!Set(r, i, [a EXCEPT !.at = "finished", !.end = e, !.holds = FALSE])
    BY <1>9 DEF AR!Withdrawn, AR!fetchCandidate
  <2> DEFINE b == [a EXCEPT !.at = "finished", !.end = e, !.holds = FALSE]
  <2>2. a.at \in {"lane", "slot", "fetching"} /\ secondary' = (secondary /\ ~a.holds)
    BY <1>9 DEF AR!Withdrawn, AR!fetchCandidate
  <2>3. b \in Try /\ ~HasLane(b) /\ LaneSound(b)
    BY <1>1 DEF Try, HasLane, LaneSound
  <2>4. HasLane(a) <=> a.holds
    BY <2>2 DEF HasLane
  <2>5. secondary' \in BOOLEAN /\ IF a.holds THEN ~secondary' ELSE secondary' = secondary
    BY <1>1, <2>2
  <2>6. AR!Set(r, i, b)
    BY <2>1
  <2> HIDE DEF b
  <2> QED
    BY <1>4, <2>3, <2>4, <2>5, <2>6
<1> QED
  BY <1>5, <1>6, <1>7, <1>8, <1>9 DEF AR!Run

LEMMA RaceStep == ASSUME AR!AddressRaceAssumption, RaceInv, [AR!Next]_AR!vars PROVE RaceInv'
<1>1. CASE UNCHANGED AR!vars
  <2>1. UNCHANGED <<req, att, secondary>>
    BY <1>1 DEF AR!vars
  <2>2. Holders' = Holders
    BY <2>1 DEF Holders, AR!Attempts
  <2>3. RaceTyped'
    BY <2>1 DEF RaceInv, RaceTyped
  <2> QED
    BY <2>1, <2>2, <2>3 DEF RaceInv, OneHolder
<1> QED
  BY <1>1, RoundTripStep, LeaveStep, LoopStep, QuietStep, SeenStep, RunStep DEF AR!Next

\* One attempt holds the one lane, and none once its holder was promoted or ended,
\* however the end of an attempt crosses the promotion that the loop gives it.
\* httpx/image_scheduler.go and httpx/address_fallback.go.
THEOREM LaneHeldOnceAlways == ASSUME AR!AddressRaceAssumption PROVE AR!Spec => []AR!LaneHeldOnce
<1>1. RaceInv => AR!LaneHeldOnce
  <2> SUFFICES ASSUME RaceInv PROVE AR!LaneHeldOnce
    OBVIOUS
  <2>1. AR!Cardinality(Holders) = IF secondary THEN 1 ELSE 0
    <3>1. Cardinality(Holders) = AR!Cardinality(Holders)
      BY DEF Cardinality, AR!Cardinality
    <3> QED
      BY <3>1, FS_EmptySet, FS_Singleton DEF RaceInv, OneHolder
  <2>2. \A x \in Holders : att[x[1]][x[2]].second \/ att[x[1]][x[2]].at \in {"took", "check"}
    BY HoldersAre DEF RaceInv, RaceTyped, LaneSound
  <2> QED
    BY <2>1, <2>2 DEF AR!LaneHeldOnce, Holders, HasLane
<1> QED
  BY <1>1, RaceInit, RaceStep, PTL DEF AR!Spec

-----------------------------------------------------------------------------
(* The attempts of one request, q its record and t its attempts. *)

\* A second attempt has the lane from the check on; a promoted one is none.
Firm(a) ==
    /\ a.promoted => ~a.second
    /\ a.second => a.at # "seen" /\ (a.at \in {"check", "slot", "fetching"} => a.holds)

\* Before its first attempt a request is as it came; a page asks all at once.
Begun(q) ==
    /\ q.at \in {"idle", "lane"} => /\ q.untried = 1 /\ q.retries = << >> /\ ~q.first
                                    /\ q.primary = 0 /\ q.second = 0
    /\ q.at = "idle" => ~q.image
    /\ q.at \in {"lane", "loop"} => q.image
    /\ q.at = "select" /\ ~q.image => q.untried > Addresses

\* An image has one first and one second attempt at a time.
Watching(q, t) ==
    q.image => \A i \in DOMAIN t : /\ t[i].second => i = q.second
                                   /\ ~t[i].second /\ t[i].at # "seen" => i = q.primary

\* An address is asked twice at most, and the second time after the first.
Twice(t) ==
    \A i \in DOMAIN t :
       /\ t[i].number \in {1, 2}
       /\ \A j \in DOMAIN t : t[i].address = t[j].address =>
            /\ t[i].number = t[j].number => i = j
            /\ t[i].number = 1 /\ t[j].number = 2 => t[i].at = "seen"

\* Asked so far are the addresses below the next; one that is to be asked again
\* is queued once, and was asked once, to the end.
Queued(q, t) ==
    /\ \A k \in 1 .. Addresses : k < q.untried => \E i \in DOMAIN t : t[i].address = k
    /\ \A i \in DOMAIN t : t[i].address < q.untried
    /\ \A m, n \in DOMAIN q.retries : q.retries[m] = q.retries[n] => m = n
    /\ \A m \in DOMAIN q.retries :
         /\ \E i \in DOMAIN t : t[i].address = q.retries[m]
         /\ \A i \in DOMAIN t : t[i].address = q.retries[m] => t[i].number = 1 /\ t[i].at = "seen"

\* While it goes on nothing that was seen has won, and an answer is remembered.
Heard(q, t) ==
    q.at \in {"loop", "select"} =>
      \A i \in DOMAIN t : t[i].at = "seen" => t[i].end # "won" /\ (t[i].end = "response" => q.first)

\* Why it failed.
Reason(q, t) ==
    q.at = "waiting" /\ q.result \in {"failed", "response"} =>
      \A k \in 1 .. Addresses : \E i \in DOMAIN t :
         /\ t[i].address = k /\ t[i].at = "seen" /\ t[i].end # "won"
         /\ q.result = "failed" => t[i].end # "response"

Sound(q, t) ==
    /\ \A i \in DOMAIN t : Firm(t[i])
    /\ Begun(q) /\ Watching(q, t) /\ Twice(t) /\ Queued(q, t) /\ Heard(q, t) /\ Reason(q, t)

\* The images under way have a lane each.
Admission ==
    /\ \E n \in Nat : IsFiniteSet(AR!UnderWay) /\ Cardinality(AR!UnderWay) = n /\ n <= Lanes

FairInv == RaceInv /\ (\A r \in Request : Sound(req[r], att[r])) /\ Admission

LEMMA NoTries ==
    ASSUME NEW q \in Racing, Begun(q), q.untried = 1, q.retries = << >>, q.at # "waiting"
    PROVE  Sound(q, << >>)
<1>1. DOMAIN << >> = {}
  OBVIOUS
<1>2. DOMAIN q.retries = {}
  OBVIOUS
<1>3. \A k \in 1 .. Addresses : ~(k < 1)
  OBVIOUS
<1> QED
  BY <1>1, <1>2, <1>3 DEF Sound, Watching, Twice, Queued, Heard, Reason

LEMMA FairInit == ASSUME AR!AddressRaceAssumption, AR!Init PROVE FairInv
<1>1. RaceInv
  BY RaceInit
<1>2. \A r \in Request : req[r] = AR!Fresh /\ att[r] = << >>
  BY DEF AR!Init
<1>3. Sound(AR!Fresh, << >>)
  <2>1. /\ AR!Fresh \in Racing /\ Begun(AR!Fresh)
        /\ AR!Fresh.untried = 1 /\ AR!Fresh.retries = << >> /\ AR!Fresh.at # "waiting"
    BY FreshRace DEF AR!Fresh, Begun
  <2> HIDE DEF AR!Fresh
  <2> QED
    BY <2>1, NoTries
<1>4. AR!UnderWay = {}
  BY <1>2 DEF AR!UnderWay, AR!Fresh
<1>5. Admission
  BY <1>4, FS_EmptySet DEF Admission, AR!AddressRaceAssumption
<1> QED
  BY <1>1, <1>2, <1>3, <1>5 DEF FairInv

-----------------------------------------------------------------------------
\* What an attempt does on its own: it stays the attempt at its address.
Goes(a, b) ==
    /\ b.address = a.address /\ b.number = a.number /\ b.second = a.second
    /\ (b.at = "seen" <=> a.at = "seen")
    /\ a.at = "seen" => b.end = a.end
    /\ Firm(b)

LEMMA GoesOn ==
    ASSUME NEW q \in Racing, NEW t \in Seq(Try), NEW u \in Seq(Try), Sound(q, t),
           DOMAIN u = DOMAIN t, \A i \in DOMAIN t : Goes(t[i], u[i])
    PROVE  Sound(q, u)
<1>1. \A i \in DOMAIN u : Firm(u[i])
  BY DEF Goes
<1>2. Watching(q, u)
  BY DEF Sound, Watching, Goes
<1>3. Twice(u)
  <2> SUFFICES ASSUME NEW i \in DOMAIN t
               PROVE  /\ u[i].number \in {1, 2}
                      /\ \A j \in DOMAIN t : u[i].address = u[j].address =>
                           /\ u[i].number = u[j].number => i = j
                           /\ u[i].number = 1 /\ u[j].number = 2 => u[i].at = "seen"
    BY DEF Twice
  <2>1. Twice(t) /\ Goes(t[i], u[i])
    BY DEF Sound
  <2> QED
    BY <2>1 DEF Twice, Goes
<1>4. Queued(q, u)
  <2>1. Queued(q, t)
    BY DEF Sound
  <2>2. \A i \in DOMAIN t : /\ u[i].address = t[i].address /\ u[i].number = t[i].number
                            /\ (u[i].at = "seen" <=> t[i].at = "seen")
    BY DEF Goes
  <2>3. \A k \in 1 .. Addresses : k < q.untried => \E i \in DOMAIN u : u[i].address = k
    BY <2>1, <2>2 DEF Queued
  <2>4. \A i \in DOMAIN u : u[i].address < q.untried
    BY <2>1, <2>2 DEF Queued
  <2>5. ASSUME NEW m \in DOMAIN q.retries
        PROVE  /\ \E i \in DOMAIN u : u[i].address = q.retries[m]
               /\ \A i \in DOMAIN u : u[i].address = q.retries[m] => u[i].number = 1 /\ u[i].at = "seen"
    BY <2>1, <2>2 DEF Queued
  <2> QED
    BY <2>1, <2>3, <2>4, <2>5 DEF Queued
<1>5. Heard(q, u)
  BY DEF Sound, Heard, Goes
<1>6. Reason(q, u)
  <2> SUFFICES ASSUME q.at = "waiting", q.result \in {"failed", "response"}, NEW k \in 1 .. Addresses
               PROVE  \E i \in DOMAIN u :
                         /\ u[i].address = k /\ u[i].at = "seen" /\ u[i].end # "won"
                         /\ q.result = "failed" => u[i].end # "response"
    BY DEF Reason
  <2>1. PICK i \in DOMAIN t : /\ t[i].address = k /\ t[i].at = "seen" /\ t[i].end # "won"
                              /\ q.result = "failed" => t[i].end # "response"
    BY DEF Sound, Reason
  <2>2. Goes(t[i], u[i]) /\ i \in DOMAIN u
    OBVIOUS
  <2> QED
    BY <2>1, <2>2 DEF Goes
<1> QED
  BY <1>1, <1>2, <1>3, <1>4, <1>5, <1>6 DEF Sound

\* And what the request does on its own.
LEMMA RequestGoesOn ==
    ASSUME NEW q \in Racing, NEW p \in Racing, NEW t \in Seq(Try), Sound(q, t), Begun(p),
           p.image = q.image, p.primary = q.primary, p.second = q.second, p.untried = q.untried,
           p.retries = q.retries, Heard(p, t), Reason(p, t)
    PROVE  Sound(p, t)
BY DEF Sound, Watching, Queued

-----------------------------------------------------------------------------
\* One request and its attempts change.
LEMMA OneRequest ==
    ASSUME FairInv, RaceInv', NEW r \in Request, NEW q, NEW t,
           AR!Update(r, q), att' = [att EXCEPT ![r] = t], Sound(q, t), Admission'
    PROVE  FairInv'
<1>1. DOMAIN req = Request /\ DOMAIN att = Request
  BY DEF FairInv, RaceInv, RaceTyped
<1>2. req'[r] = q /\ att'[r] = t /\ \A o \in Request : o # r => req'[o] = req[o] /\ att'[o] = att[o]
  BY <1>1 DEF AR!Update
<1>3. ASSUME NEW o \in Request PROVE Sound(req'[o], att'[o])
  BY <1>2 DEF FairInv
<1> QED
  BY <1>3 DEF FairInv

\* No image more is under way.
LEMMA NoneAdmitted ==
    ASSUME FairInv, AR!AddressRaceAssumption, NEW r \in Request, NEW q, AR!Update(r, q),
           q.image /\ q.at \in {"loop", "select", "waiting"} =>
             req[r].image /\ req[r].at \in {"loop", "select", "waiting"}
    PROVE  Admission'
<1>1. DOMAIN req = Request
  BY DEF FairInv, RaceInv, RaceTyped
<1>2. req'[r] = q /\ \A o \in Request : o # r => req'[o] = req[o]
  BY <1>1 DEF AR!Update
<1>3. AR!UnderWay' \in SUBSET AR!UnderWay
  BY <1>2 DEF AR!UnderWay
<1>4. PICK n \in Nat : IsFiniteSet(AR!UnderWay) /\ Cardinality(AR!UnderWay) = n /\ n <= Lanes
  BY DEF FairInv, Admission
<1>5. IsFiniteSet(AR!UnderWay') /\ Cardinality(AR!UnderWay') <= n
  BY <1>3, <1>4, FS_Subset
<1>6. Cardinality(AR!UnderWay') \in Nat /\ Lanes \in Nat
  BY <1>5, FS_CardinalityType DEF AR!AddressRaceAssumption
<1>7. Cardinality(AR!UnderWay') <= Lanes
  BY <1>4, <1>5, <1>6
<1> QED
  BY <1>5, <1>6, <1>7 DEF Admission

LEMMA RunFair ==
    ASSUME FairInv, RaceInv', AR!AddressRaceAssumption,
           NEW r \in Request, NEW i \in DOMAIN att[r], AR!Run(r, i)
    PROVE  FairInv'
<1> DEFINE q == req[r]
           a == att[r][i]
           t == att[r]
<1>1. /\ q \in Racing /\ t \in Seq(Try) /\ Sound(q, t) /\ a \in Try /\ Firm(a)
      /\ req = [req EXCEPT ![r] = q]
  BY DEF FairInv, RaceInv, RaceTyped, Sound
<1>2. req' = req /\ AR!Update(r, q)
  <2>1. req' = req
    BY DEF AR!Run, AR!TakeLane, AR!Noted, AR!Checked, AR!TakeSlot, AR!Withdrawn, AR!fetchCandidate
  <2> QED
    BY <1>1, <2>1 DEF AR!Update
<1>3. PICK b \in Try : AR!Set(r, i, b) /\ Goes(a, b)
  <2>1. CASE AR!TakeLane(r, i)
    <3>1. CASE a.at = "lane" /\ AR!Set(r, i, [a EXCEPT !.at = "took"])
      <4>1. [a EXCEPT !.at = "took"] \in Try /\ Goes(a, [a EXCEPT !.at = "took"])
        BY <1>1, <3>1 DEF Try, Goes, Firm
      <4> QED
        BY <3>1, <4>1
    <3>2. CASE a.at = "lane" /\ a.promoted /\ AR!Set(r, i, [a EXCEPT !.at = "slot"])
      <4>1. [a EXCEPT !.at = "slot"] \in Try /\ Goes(a, [a EXCEPT !.at = "slot"])
        BY <1>1, <3>2 DEF Try, Goes, Firm
      <4> QED
        BY <3>2, <4>1
    <3> QED
      BY <2>1, <3>1, <3>2 DEF AR!TakeLane
  <2>2. CASE AR!Noted(r, i)
    <3>1. a.at = "took" /\ AR!Set(r, i, [a EXCEPT !.at = "check", !.holds = TRUE])
      BY <2>2 DEF AR!Noted
    <3>2. /\ [a EXCEPT !.at = "check", !.holds = TRUE] \in Try
          /\ Goes(a, [a EXCEPT !.at = "check", !.holds = TRUE])
      BY <1>1, <3>1 DEF Try, Goes, Firm
    <3> QED
      BY <3>1, <3>2
  <2>3. CASE AR!Checked(r, i)
    <3> DEFINE keep == a.holds /\ ~(a.holds /\ ~a.second)
    <3>1. a.at = "check" /\ AR!Set(r, i, [a EXCEPT !.at = "slot", !.holds = keep])
      <4>1. [a EXCEPT !.at = "slot", !.holds = keep] = [a EXCEPT !.at = "slot", !.holds = @ /\ ~(a.holds /\ ~a.second)]
        BY <1>1 DEF Try
      <4> QED
        BY <2>3, <4>1 DEF AR!Checked
    <3>2. keep \in BOOLEAN /\ (a.second /\ a.holds => keep)
      BY <1>1 DEF Try
    <3>3. a.second => a.holds
      BY <1>1, <3>1 DEF Firm
    <3> HIDE DEF keep
    <3>4. /\ [a EXCEPT !.at = "slot", !.holds = keep] \in Try
          /\ Goes(a, [a EXCEPT !.at = "slot", !.holds = keep])
      BY <1>1, <3>1, <3>2, <3>3 DEF Try, Goes, Firm
    <3> QED
      BY <3>1, <3>4
  <2>4. CASE AR!TakeSlot(r, i)
    <3>1. a.at = "slot" /\ AR!Set(r, i, [a EXCEPT !.at = "fetching"])
      BY <2>4 DEF AR!TakeSlot
    <3>2. [a EXCEPT !.at = "fetching"] \in Try /\ Goes(a, [a EXCEPT !.at = "fetching"])
      BY <1>1, <3>1 DEF Try, Goes, Firm
    <3> QED
      BY <3>1, <3>2
  <2>5. CASE AR!Withdrawn(r, i) \/ AR!fetchCandidate(r, i)
    <3>1. PICK e \in Outcome \cup {"cancelled"} :
            AR!Set(r, i, [a EXCEPT !.at = "finished", !.end = e, !.holds = FALSE])
      BY <2>5 DEF AR!Withdrawn, AR!fetchCandidate
    <3>2. a.at \in {"lane", "slot", "fetching"}
      BY <2>5 DEF AR!Withdrawn, AR!fetchCandidate
    <3>3. /\ [a EXCEPT !.at = "finished", !.end = e, !.holds = FALSE] \in Try
          /\ Goes(a, [a EXCEPT !.at = "finished", !.end = e, !.holds = FALSE])
      BY <1>1, <3>2 DEF Try, Goes, Firm
    <3> QED
      BY <3>1, <3>3
  <2> QED
    BY <2>1, <2>2, <2>3, <2>4, <2>5 DEF AR!Run
<1> DEFINE u == [t EXCEPT ![i] = b]
<1>4. att' = [att EXCEPT ![r] = u]
  BY <1>3 DEF AR!Set
<1>5. /\ u \in Seq(Try) /\ DOMAIN u = DOMAIN t /\ u[i] = b
      /\ \A j \in DOMAIN t : j # i => u[j] = t[j]
  BY <1>1
<1>6. \A j \in DOMAIN t : Goes(t[j], u[j])
  <2>1. \A j \in DOMAIN t : Firm(t[j])
    BY <1>1 DEF Sound
  <2> QED
    BY <1>3, <1>5, <2>1 DEF Goes
<1> HIDE DEF q, t, u
<1>7. Sound(q, u)
  BY <1>1, <1>5, <1>6, GoesOn
<1>8. q.image = req[r].image /\ q.at = req[r].at
  BY DEF q
<1> QED
  BY <1>2, <1>4, <1>7, <1>8, NoneAdmitted, OneRequest

\* The attempts are stopped, or left alone, and the request does the rest.
LEMMA StoppedGoesOn ==
    ASSUME NEW q \in Racing, NEW t \in Seq(Try), Sound(q, t)
    PROVE  AR!Stopped(t) \in Seq(Try) /\ Sound(q, AR!Stopped(t))
<1>1. DOMAIN t = 1..Len(t) /\ Len(t) \in Nat /\ \A i \in DOMAIN t : t[i] \in Try
  BY LenProperties
<1>2. AR!Stopped(t) \in Seq(Try) /\ DOMAIN AR!Stopped(t) = DOMAIN t
  BY StoppedTries
<1>3. ASSUME NEW i \in DOMAIN t PROVE Goes(t[i], AR!Stopped(t)[i])
  <2>1. AR!Stopped(t)[i] = [t[i] EXCEPT !.cancelled = TRUE]
    BY DEF AR!Stopped
  <2>2. Firm(t[i]) /\ t[i] \in Try
    BY <1>1 DEF Sound
  <2> QED
    BY <2>1, <2>2 DEF Goes, Firm, Try
<1> QED
  BY <1>2, <1>3, GoesOn

-----------------------------------------------------------------------------
\* The address that is asked next, for the first or the second time.
FirstTime(q, t, k, n) ==
    q.untried <= Addresses /\ k = q.untried /\ n = 1 /\ \A i \in DOMAIN t : t[i].address # k
SecondTime(q, t, k, n) ==
    /\ q.untried > Addresses /\ q.retries # << >> /\ k = Head(q.retries) /\ n = 2
    /\ \A i \in DOMAIN t : t[i].address = k => t[i].number = 1 /\ t[i].at = "seen"

LEMMA NextNumber ==
    ASSUME AR!AddressRaceAssumption, RaceTyped, NEW r \in Request, Sound(req[r], att[r]), AR!Pending(req[r])
    PROVE  \/ FirstTime(req[r], att[r], AR!NextOf(req[r]), AR!Number(r, AR!NextOf(req[r])) + 1)
           \/ SecondTime(req[r], att[r], AR!NextOf(req[r]), AR!Number(r, AR!NextOf(req[r])) + 1)
<1> DEFINE q == req[r]
           t == att[r]
           k == AR!NextOf(q)
           S == {i \in DOMAIN t : t[i].address = k}
<1>1. /\ Addresses \in Nat /\ q \in Racing /\ t \in Seq(Try) /\ Queued(q, t) /\ Twice(t)
      /\ DOMAIN t = 1..Len(t) /\ \A i \in DOMAIN t : t[i] \in Try
  BY DEF AR!AddressRaceAssumption, RaceTyped, Sound
<1>2. AR!Number(r, k) = Cardinality(S)
  BY DEF AR!Number, AR!Cardinality, Cardinality
<1>3. CASE q.untried <= Addresses
  <2>1. k = q.untried /\ q.untried \in Nat
    BY <1>1, <1>3 DEF AR!NextOf, Racing
  <2>2. ASSUME NEW i \in DOMAIN t PROVE t[i].address # k
    <3>1. t[i].address < q.untried /\ t[i].address \in Nat
      BY <1>1 DEF Queued, Try
    <3> QED
      BY <2>1, <3>1
  <2>3. S = {}
    BY <2>2
  <2>4. AR!Number(r, k) = 0
    BY <1>2, <2>3, FS_EmptySet
  <2> QED
    BY <1>3, <2>1, <2>2, <2>4 DEF FirstTime
<1>4. CASE ~(q.untried <= Addresses)
  <2>1. q.retries # << >> /\ q.retries \in Seq(Nat) /\ k = Head(q.retries) /\ q.untried > Addresses
    BY <1>1, <1>4 DEF AR!Pending, AR!NextOf, Racing
  <2>2. 1 \in DOMAIN q.retries /\ k = q.retries[1]
    BY <2>1
  <2>3. /\ \A i \in DOMAIN t : t[i].address = k => t[i].number = 1 /\ t[i].at = "seen"
        /\ \E i \in DOMAIN t : t[i].address = k
    BY <1>1, <2>2 DEF Queued
  <2>4. PICK x \in DOMAIN t : t[x].address = k
    BY <2>3
  <2>5. \A i \in S : i = x
    BY <1>1, <2>3, <2>4 DEF Twice
  <2>6. S = {x}
    BY <2>4, <2>5
  <2>7. AR!Number(r, k) = 1
    BY <1>2, <2>6, FS_Singleton
  <2> QED
    BY <2>1, <2>3, <2>7 DEF SecondTime
<1> QED
  BY <1>3, <1>4

LEMMA Another ==
    ASSUME Addresses \in Nat, NEW q \in Racing, NEW p \in Racing, NEW t \in Seq(Try), Sound(q, t),
           NEW k \in Nat, NEW n \in Nat, NEW second \in BOOLEAN,
           FirstTime(q, t, k, n) \/ SecondTime(q, t, k, n),
           q.second = 0, ~second => q.primary = 0, q.at \in {"loop", "select"}, p.at \in {"loop", "select"},
           q.image, p.image, p.first = q.first,
           p.untried = AR!Without(q).untried, p.retries = AR!Without(q).retries,
           second => p.second = Len(t) + 1 /\ p.primary = q.primary,
           ~second => p.primary = Len(t) + 1 /\ p.second = 0
    PROVE  Sound(p, Append(t, AR!Attempt(k, n, second)))
<1> DEFINE a == AR!Attempt(k, n, second)
           u == Append(t, a)
           l == Len(t) + 1
<1>1. /\ a \in Try /\ a.address = k /\ a.number = n /\ a.second = second
      /\ a.at # "seen" /\ ~a.promoted /\ (a.second => a.at = "lane")
  BY DEF AR!Attempt, Try
<1> HIDE DEF a
<1>2. /\ DOMAIN t = 1..Len(t) /\ Len(t) \in Nat /\ \A i \in DOMAIN t : t[i] \in Try
      /\ DOMAIN u = DOMAIN t \cup {l} /\ u[l] = a /\ (\A i \in DOMAIN t : u[i] = t[i])
      /\ l \notin DOMAIN t /\ 0 \notin DOMAIN t
  BY <1>1, LenProperties
<1>3. /\ \A i \in DOMAIN t : Firm(t[i])
      /\ Watching(q, t) /\ Twice(t) /\ Queued(q, t) /\ Heard(q, t)
  BY DEF Sound
<1> HIDE DEF u, l
<1>4. ASSUME NEW i \in DOMAIN u PROVE Firm(u[i])
  BY <1>1, <1>2, <1>3 DEF Firm
<1>5. Begun(p)
  BY DEF Begun
<1>6. Watching(p, u)
  <2> SUFFICES ASSUME q.image, NEW i \in DOMAIN u
               PROVE  /\ u[i].second => i = p.second
                      /\ ~u[i].second /\ u[i].at # "seen" => i = p.primary
    BY DEF Watching
  <2>1. CASE i = l
    BY <1>1, <1>2, <2>1 DEF l
  <2>2. CASE i \in DOMAIN t
    BY <1>2, <1>3, <2>2 DEF Watching
  <2> QED
    BY <1>2, <2>1, <2>2
<1>7. /\ n \in {1, 2}
      /\ \A i \in DOMAIN t : t[i].address = k => n = 2 /\ t[i].number = 1 /\ t[i].at = "seen"
  BY DEF FirstTime, SecondTime
<1>8. Twice(u)
  <2> SUFFICES ASSUME NEW i \in DOMAIN u
               PROVE  /\ u[i].number \in {1, 2}
                      /\ \A j \in DOMAIN u : u[i].address = u[j].address =>
                           /\ u[i].number = u[j].number => i = j
                           /\ u[i].number = 1 /\ u[j].number = 2 => u[i].at = "seen"
    BY DEF Twice
  <2>1. CASE i = l
    BY <1>1, <1>2, <1>7, <2>1
  <2>2. CASE i \in DOMAIN t
    BY <1>1, <1>2, <1>3, <1>7, <2>2 DEF Twice
  <2> QED
    BY <1>2, <2>1, <2>2
<1>9. Queued(p, u)
  <2>1. CASE FirstTime(q, t, k, n)
    <3>1. p.untried = q.untried + 1 /\ p.retries = q.retries /\ k = q.untried /\ q.untried \in Nat
      BY <2>1 DEF FirstTime, AR!Without, Racing
    <3>2. ASSUME NEW j \in 1 .. Addresses, j < p.untried PROVE \E i \in DOMAIN u : u[i].address = j
      <4>1. CASE j = k
        BY <1>1, <1>2, <4>1
      <4>2. CASE j < q.untried
        BY <1>2, <1>3, <4>2 DEF Queued
      <4> QED
        BY <3>1, <3>2, <4>1, <4>2
    <3>3. ASSUME NEW i \in DOMAIN u PROVE u[i].address < p.untried
      <4>1. CASE i = l
        BY <1>1, <1>2, <3>1, <4>1
      <4>2. CASE i \in DOMAIN t
        <5>1. t[i].address < q.untried /\ t[i].address \in Nat
          BY <1>2, <1>3, <4>2 DEF Queued, Try
        <5> QED
          BY <1>2, <3>1, <4>2, <5>1
      <4> QED
        BY <1>2, <4>1, <4>2
    <3>4. ASSUME NEW m \in DOMAIN q.retries
          PROVE  /\ \E i \in DOMAIN u : u[i].address = q.retries[m]
                 /\ \A i \in DOMAIN u : u[i].address = q.retries[m] => u[i].number = 1 /\ u[i].at = "seen"
      <4>1. /\ \E i \in DOMAIN t : t[i].address = q.retries[m]
            /\ \A i \in DOMAIN t : t[i].address = q.retries[m] => t[i].number = 1 /\ t[i].at = "seen"
        BY <1>3 DEF Queued
      <4>2. q.retries[m] # k
        BY <2>1, <4>1 DEF FirstTime
      <4> QED
        BY <1>1, <1>2, <4>1, <4>2
    <3>5. \A m, j \in DOMAIN q.retries : q.retries[m] = q.retries[j] => m = j
      BY <1>3 DEF Queued
    <3> QED
      BY <3>1, <3>2, <3>3, <3>4, <3>5 DEF Queued
  <2>2. CASE SecondTime(q, t, k, n)
    <3>1. /\ p.untried = q.untried /\ p.retries = Tail(q.retries) /\ q.untried \in Nat
          /\ q.retries \in Seq(Nat) /\ q.retries # << >> /\ k = q.retries[1]
      BY <2>2 DEF SecondTime, AR!Without, Racing
    <3>2. /\ 1 \in DOMAIN q.retries
          /\ \A m \in DOMAIN p.retries : /\ m + 1 \in DOMAIN q.retries /\ m + 1 # 1 /\ m \in Nat
                                         /\ p.retries[m] = q.retries[m + 1]
      BY <3>1
    <3>3. ASSUME NEW j \in 1 .. Addresses, j < p.untried PROVE \E i \in DOMAIN u : u[i].address = j
      <4>1. PICK i \in DOMAIN t : t[i].address = j
        BY <1>3, <3>1, <3>3 DEF Queued
      <4> QED
        BY <1>2, <4>1
    <3>4. ASSUME NEW i \in DOMAIN u PROVE u[i].address < p.untried
      <4>0. PICK x \in DOMAIN t : t[x].address = k
        BY <1>3, <3>1, <3>2 DEF Queued
      <4>1. k < q.untried
        BY <1>3, <4>0 DEF Queued
      <4>2. CASE i = l
        BY <1>1, <1>2, <3>1, <4>1, <4>2
      <4>3. CASE i \in DOMAIN t
        BY <1>2, <1>3, <3>1, <4>3 DEF Queued
      <4> QED
        BY <1>2, <4>2, <4>3
    <3>5. ASSUME NEW m \in DOMAIN p.retries
          PROVE  /\ \E i \in DOMAIN u : u[i].address = p.retries[m]
                 /\ \A i \in DOMAIN u : u[i].address = p.retries[m] => u[i].number = 1 /\ u[i].at = "seen"
      <4>1. /\ \E i \in DOMAIN t : t[i].address = p.retries[m]
            /\ \A i \in DOMAIN t : t[i].address = p.retries[m] => t[i].number = 1 /\ t[i].at = "seen"
        BY <1>3, <3>2 DEF Queued
      <4>2. p.retries[m] # k
        BY <1>3, <3>1, <3>2 DEF Queued
      <4> QED
        BY <1>1, <1>2, <4>1, <4>2
    <3>6. ASSUME NEW m \in DOMAIN p.retries, NEW j \in DOMAIN p.retries, p.retries[m] = p.retries[j]
          PROVE  m = j
      <4>1. m + 1 = j + 1
        BY <1>3, <3>2, <3>6 DEF Queued
      <4> QED
        BY <3>2, <4>1
    <3> QED
      BY <3>3, <3>4, <3>5, <3>6 DEF Queued
  <2> QED
    BY <2>1, <2>2
<1>10. Heard(p, u)
  <2> SUFFICES ASSUME NEW i \in DOMAIN u, u[i].at = "seen"
               PROVE  u[i].end # "won" /\ (u[i].end = "response" => p.first)
    BY DEF Heard
  <2>1. i \in DOMAIN t /\ u[i] = t[i]
    BY <1>1, <1>2
  <2> QED
    BY <1>3, <2>1 DEF Heard
<1>11. Reason(p, u)
  BY DEF Reason
<1> QED
  BY <1>4, <1>5, <1>6, <1>8, <1>9, <1>10, <1>11 DEF Sound, u, a

\* An attempt that is seen: a queued address was asked once, and it is this one.
LEMMA SeenSound ==
    ASSUME Addresses \in Nat, NEW q \in Racing, NEW p \in Racing, NEW t \in Seq(Try), NEW u \in Seq(Try), Sound(q, t),
           NEW i \in DOMAIN t, q.at = "select", t[i].at = "finished",
           DOMAIN u = DOMAIN t, u[i].at = "seen", ~u[i].second, ~u[i].promoted,
           \A j \in DOMAIN t : /\ u[j].address = t[j].address /\ u[j].number = t[j].number /\ u[j].end = t[j].end
                               /\ j # i => /\ u[j].at = t[j].at /\ u[j].second = t[j].second
                                           /\ u[j].promoted = t[j].promoted /\ u[j].holds = t[j].holds,
           p.image = q.image, p.untried = q.untried, p.at \in {"loop", "select", "waiting"},
           p.at = "loop" => q.image,
           p.primary = IF q.primary = i THEN 0 ELSE q.primary,
           p.second = IF q.second = i THEN 0 ELSE q.second,
           \/ p.retries = q.retries
           \/ t[i].number = 1 /\ p.retries = Append(q.retries, t[i].address),
           p.at # "waiting" => t[i].end # "won" /\ (p.first <=> q.first \/ t[i].end = "response"),
           p.at = "waiting" /\ p.result \in {"failed", "response"} =>
             /\ ~q.image /\ t[i].end # "won" /\ \A j \in DOMAIN t \ {i} : t[j].at = "seen"
             /\ p.result = "failed" => ~q.first /\ t[i].end # "response"
    PROVE  Sound(p, u)
<1>1. /\ \A j \in DOMAIN t : Firm(t[j])
      /\ Begun(q) /\ Watching(q, t) /\ Twice(t) /\ Queued(q, t) /\ Heard(q, t)
  BY DEF Sound
<1>2. \A j \in DOMAIN u : Firm(u[j])
  BY <1>1 DEF Firm
<1>3. Begun(p)
  BY <1>1 DEF Begun
<1>4. Watching(p, u)
  BY <1>1 DEF Watching
<1>5. \A j \in DOMAIN t : t[j].at = "seen" => u[j].at = "seen"
  OBVIOUS
<1>6. Twice(u)
  <2> SUFFICES ASSUME NEW j \in DOMAIN u
               PROVE  /\ u[j].number \in {1, 2}
                      /\ \A k \in DOMAIN u : u[j].address = u[k].address =>
                           /\ u[j].number = u[k].number => j = k
                           /\ u[j].number = 1 /\ u[k].number = 2 => u[j].at = "seen"
    BY DEF Twice
  <2> QED
    BY <1>1, <1>5 DEF Twice
<1>7. /\ \A k \in 1 .. Addresses : k < p.untried => \E j \in DOMAIN u : u[j].address = k
      /\ \A j \in DOMAIN u : u[j].address < p.untried
  BY <1>1 DEF Queued
<1>8. ASSUME NEW m \in DOMAIN q.retries
      PROVE  /\ \E j \in DOMAIN u : u[j].address = q.retries[m]
             /\ \A j \in DOMAIN u : u[j].address = q.retries[m] => u[j].number = 1 /\ u[j].at = "seen"
  <2>1. /\ \E j \in DOMAIN t : t[j].address = q.retries[m]
        /\ \A j \in DOMAIN t : t[j].address = q.retries[m] => t[j].number = 1 /\ t[j].at = "seen"
    BY <1>1 DEF Queued
  <2> QED
    BY <1>5, <2>1
<1>9. Queued(p, u)
  <2>1. CASE p.retries = q.retries
    BY <1>1, <1>7, <1>8, <2>1 DEF Queued
  <2>2. CASE t[i].number = 1 /\ p.retries = Append(q.retries, t[i].address)
    <3> DEFINE k == t[i].address
    <3>1. ASSUME NEW j \in DOMAIN t, t[j].address = k PROVE j = i
      BY <1>1, <2>2, <3>1 DEF Twice
    <3>2. \A m \in DOMAIN q.retries : q.retries[m] # k
      BY <1>1 DEF Queued
    <3>3. t[i] \in Try /\ k \in Nat /\ q.retries \in Seq(Nat)
      <4>1. DOMAIN t = 1..Len(t)
        BY LenProperties
      <4>2. t[i] \in Try
        BY <4>1
      <4> QED
        BY <4>2 DEF Try, Racing
    <3> HIDE DEF k
    <3>4. \A m \in DOMAIN p.retries : \/ m \in DOMAIN q.retries /\ p.retries[m] = q.retries[m]
                                      \/ m = Len(q.retries) + 1 /\ p.retries[m] = k
      BY <2>2, <3>3 DEF k
    <3>5. ASSUME NEW m \in DOMAIN p.retries
          PROVE  /\ \E j \in DOMAIN u : u[j].address = p.retries[m]
                 /\ \A j \in DOMAIN u : u[j].address = p.retries[m] => u[j].number = 1 /\ u[j].at = "seen"
      <4>1. CASE p.retries[m] = k
        BY <2>2, <3>1, <4>1 DEF k
      <4>2. CASE m \in DOMAIN q.retries /\ p.retries[m] = q.retries[m]
        BY <1>8, <4>2
      <4> QED
        BY <3>4, <4>1, <4>2
    <3>6. ASSUME NEW m \in DOMAIN p.retries, NEW j \in DOMAIN p.retries, p.retries[m] = p.retries[j]
          PROVE  m = j
      BY <1>1, <3>2, <3>4, <3>6 DEF Queued
    <3> QED
      BY <1>7, <3>5, <3>6 DEF Queued
  <2> QED
    BY <2>1, <2>2
<1>10. Heard(p, u)
  BY <1>1 DEF Heard
<1>11. Reason(p, u)
  <2> SUFFICES ASSUME p.at = "waiting", p.result \in {"failed", "response"}, NEW k \in 1 .. Addresses
               PROVE  \E j \in DOMAIN u :
                         /\ u[j].address = k /\ u[j].at = "seen" /\ u[j].end # "won"
                         /\ p.result = "failed" => u[j].end # "response"
    BY DEF Reason
  <2>1. q.untried > Addresses /\ k \in Int /\ q.untried \in Nat /\ k <= Addresses
    BY <1>1 DEF Begun, Racing
  <2>5. k < q.untried
    BY <2>1
  <2>2. PICK j \in DOMAIN t : t[j].address = k
    BY <1>1, <2>5 DEF Queued
  <2>3. u[j].at = "seen" /\ u[j].address = k /\ u[j].end = t[j].end
    BY <2>2
  <2>4. t[j].end # "won" /\ (p.result = "failed" => t[j].end # "response")
    BY <1>1 DEF Heard
  <2> QED
    BY <2>3, <2>4
<1> QED
  BY <1>2, <1>3, <1>4, <1>6, <1>9, <1>10, <1>11 DEF Sound

-----------------------------------------------------------------------------
LEMMA RoundTripFair ==
    ASSUME FairInv, RaceInv', AR!AddressRaceAssumption, NEW r \in Request, AR!RoundTrip(r)
    PROVE  FairInv'
<1> DEFINE q == req[r]
<1>1. /\ q \in Racing /\ q.at = "idle" /\ att[r] = << >> /\ Begun(q) /\ Addresses \in Nat
      /\ DOMAIN att = Request
  BY DEF FairInv, RaceInv, RaceTyped, Sound, AR!RoundTrip, AR!AddressRaceAssumption
<1>2. CASE AR!Update(r, [q EXCEPT !.at = "lane", !.image = TRUE]) /\ UNCHANGED att
  <2> DEFINE p == [q EXCEPT !.at = "lane", !.image = TRUE]
  <2>1. p \in Racing /\ Begun(p) /\ p.untried = 1 /\ p.retries = << >> /\ p.at = "lane"
    BY <1>1 DEF Racing, Begun
  <2>2. att' = [att EXCEPT ![r] = << >>]
    BY <1>1, <1>2 DEF FairInv, RaceInv, RaceTyped
  <2> HIDE DEF p
  <2>3. Sound(p, << >>)
    BY <2>1, NoTries
  <2>4. AR!Update(r, p)
    BY <1>2 DEF p
  <2>5. Admission'
    BY <2>1, <2>4, NoneAdmitted
  <2> QED
    BY <2>2, <2>3, <2>4, <2>5, OneRequest
<1>3. CASE /\ AR!Update(r, [q EXCEPT !.at = "select", !.untried = Addresses + 1])
           /\ att' = [att EXCEPT ![r] = [i \in 1 .. Addresses |-> AR!Attempt(i, 1, FALSE)]]
  <2> DEFINE n == Addresses + 1
             p == [q EXCEPT !.at = "select", !.untried = n]
             t == [i \in 1 .. Addresses |-> AR!Attempt(i, 1, FALSE)]
  <2>1. n \in Nat /\ n > Addresses /\ \A i \in 1 .. Addresses : i < n
    BY <1>1
  <2>2. AR!Update(r, p) /\ att' = [att EXCEPT ![r] = t]
    BY <1>3
  <2> HIDE DEF n
  <2>3. p \in Racing /\ p.at = "select" /\ p.untried = n /\ p.retries = << >> /\ ~p.image
    BY <1>1, <2>1 DEF Racing, Begun
  <2>4. /\ DOMAIN t = 1 .. Addresses
        /\ \A i \in DOMAIN t : t[i].address = i /\ t[i].number = 1 /\ t[i].at = "slot" /\ Firm(t[i])
    BY DEF AR!Attempt, Firm
  <2> HIDE DEF p, t
  <2>5. Sound(p, t)
    <3>1. Begun(p) /\ Watching(p, t) /\ Heard(p, t) /\ Reason(p, t)
      BY <2>1, <2>3, <2>4 DEF Begun, Watching, Heard, Reason
    <3>2. Twice(t)
      BY <2>4 DEF Twice
    <3>3. DOMAIN p.retries = {}
      BY <2>3
    <3>4. Queued(p, t)
      BY <2>1, <2>3, <2>4, <3>3 DEF Queued
    <3> QED
      BY <2>4, <3>1, <3>2, <3>4 DEF Sound
  <2>6. Admission'
    BY <2>2, <2>3, NoneAdmitted
  <2> QED
    BY <2>2, <2>5, <2>6, OneRequest
<1> QED
  BY <1>2, <1>3 DEF AR!RoundTrip

\* The attempts are left alone.
LEMMA AloneFair ==
    ASSUME FairInv, RaceInv', AR!AddressRaceAssumption, NEW r \in Request, NEW p \in Racing,
           AR!Update(r, p), UNCHANGED att, Sound(p, att[r]), Admission'
    PROVE  FairInv'
<1>1. att' = [att EXCEPT ![r] = att[r]]
  BY DEF FairInv, RaceInv, RaceTyped
<1> QED
  BY <1>1, OneRequest

LEMMA LeaveFair ==
    ASSUME FairInv, RaceInv', AR!AddressRaceAssumption, NEW r \in Request,
           AR!Cancelled(r) \/ AR!Return(r) \/ AR!Admitted(r)
    PROVE  FairInv'
<1> DEFINE q == req[r]
           t == att[r]
<1>1. q \in Racing /\ t \in Seq(Try) /\ Sound(q, t) /\ Begun(q)
  BY DEF FairInv, RaceInv, RaceTyped, Sound
<1>2. CASE AR!Cancelled(r)
  <2> DEFINE x == IF q.at = "lane" THEN "done" ELSE "waiting"
             p == [q EXCEPT !.at = x, !.result = "cancelled"]
  <2>1. /\ q.at \in {"lane", "select"} /\ x \in {"done", "waiting"}
        /\ q.at = "lane" => x = "done"
        /\ AR!Update(r, p) /\ att' = [att EXCEPT ![r] = AR!Stopped(t)]
    BY <1>1, <1>2 DEF AR!Cancelled, Racing
  <2> HIDE DEF x
  <2>2. /\ p \in Racing /\ p.at = x /\ p.result = "cancelled" /\ p.image = q.image
        /\ p.primary = q.primary /\ p.second = q.second /\ p.untried = q.untried /\ p.retries = q.retries
    BY <1>1, <2>1 DEF Racing, AR!Results
  <2> HIDE DEF p
  <2>3. AR!Stopped(t) \in Seq(Try) /\ Sound(q, AR!Stopped(t))
    BY <1>1, StoppedGoesOn
  <2>4. Begun(p) /\ Heard(p, AR!Stopped(t)) /\ Reason(p, AR!Stopped(t))
    BY <2>1, <2>2 DEF Begun, Heard, Reason
  <2>5. Sound(p, AR!Stopped(t))
    BY <1>1, <2>2, <2>3, <2>4, RequestGoesOn
  <2>6. p.image /\ p.at \in {"loop", "select", "waiting"} => q.image /\ q.at \in {"loop", "select", "waiting"}
    BY <2>1, <2>2
  <2>7. Admission'
    BY <2>1, <2>6, NoneAdmitted
  <2> QED
    BY <2>1, <2>5, <2>7, OneRequest
<1>3. CASE AR!Return(r)
  <2> DEFINE p == [AR!Fresh EXCEPT !.at = "done", !.result = req[r].result]
  <2>1. p \in Racing /\ p.at = "done" /\ p.untried = 1 /\ p.retries = << >>
    BY <1>1, FreshRace DEF Racing, AR!Fresh
  <2>2. AR!Update(r, p) /\ att' = [att EXCEPT ![r] = << >>]
    BY <1>3 DEF AR!Return
  <2> HIDE DEF p
  <2>3. Sound(p, << >>)
    BY <2>1, NoTries DEF Begun
  <2>4. Admission'
    BY <2>1, <2>2, NoneAdmitted
  <2> QED
    BY <2>2, <2>3, <2>4, OneRequest
<1>4. CASE AR!Admitted(r)
  <2> DEFINE p == [q EXCEPT !.at = "loop"]
  <2>1. q.at = "lane" /\ AR!Cardinality(AR!UnderWay) < Lanes /\ AR!Update(r, p) /\ UNCHANGED att
    BY <1>4 DEF AR!Admitted
  <2>2. /\ p \in Racing /\ p.at = "loop" /\ p.image = q.image
        /\ p.primary = q.primary /\ p.second = q.second /\ p.untried = q.untried /\ p.retries = q.retries
    BY <1>1 DEF Racing
  <2>3. t = << >> /\ DOMAIN t = {}
    <3>1. t = << >>
      BY <2>1 DEF FairInv, RaceInv, RaceTyped
    <3> QED
      BY <3>1
  <2>4. q.image
    BY <1>1, <2>1 DEF Begun
  <2> HIDE DEF p
  <2>5. Sound(p, t)
    <3>1. Begun(p) /\ Heard(p, t) /\ Reason(p, t)
      BY <2>2, <2>3, <2>4 DEF Begun, Heard, Reason
    <3> QED
      BY <1>1, <2>2, <3>1, RequestGoesOn
  <2>6. Admission'
    <3>1. PICK n \in Nat : IsFiniteSet(AR!UnderWay) /\ Cardinality(AR!UnderWay) = n /\ n <= Lanes
      BY DEF FairInv, Admission
    <3>2. Cardinality(AR!UnderWay) = AR!Cardinality(AR!UnderWay)
      BY DEF Cardinality, AR!Cardinality
    <3>3. n + 1 <= Lanes
      BY <2>1, <3>1, <3>2 DEF AR!AddressRaceAssumption
    <3>4. AR!UnderWay' \subseteq AR!UnderWay \cup {r}
      <4>1. DOMAIN req = Request
        BY DEF FairInv, RaceInv, RaceTyped
      <4>2. \A o \in Request : o # r => req'[o] = req[o]
        BY <2>1, <4>1 DEF AR!Update
      <4> QED
        BY <4>2 DEF AR!UnderWay
    <3>5. IsFiniteSet(AR!UnderWay \cup {r}) /\ Cardinality(AR!UnderWay \cup {r}) \in {n, n + 1}
      BY <3>1, FS_AddElement
    <3>6. IsFiniteSet(AR!UnderWay') /\ Cardinality(AR!UnderWay') <= Cardinality(AR!UnderWay \cup {r})
      BY <3>4, <3>5, FS_Subset
    <3>7. Cardinality(AR!UnderWay') \in Nat
      BY <3>6, FS_CardinalityType
    <3>8. Cardinality(AR!UnderWay') <= Lanes
      BY <3>1, <3>3, <3>5, <3>6, <3>7 DEF AR!AddressRaceAssumption
    <3> QED
      BY <3>6, <3>7, <3>8 DEF Admission
  <2> QED
    BY <2>1, <2>2, <2>5, <2>6, AloneFair
<1> QED
  BY <1>2, <1>3, <1>4
LEMMA LoopFair ==
    ASSUME FairInv, RaceInv', AR!AddressRaceAssumption, NEW r \in Request, AR!Loop(r)
    PROVE  FairInv'
<1> DEFINE q == req[r]
           t == att[r]
<1>1. /\ q \in Racing /\ t \in Seq(Try) /\ Sound(q, t) /\ q.at = "loop" /\ q.image
      /\ Addresses \in Nat /\ DOMAIN t = 1..Len(t) /\ Len(t) \in Nat
      /\ (q.second # 0 => q.second \in DOMAIN t) /\ \A j \in DOMAIN t : t[j] \in Try
      /\ RaceTyped
  BY LenProperties DEF FairInv, RaceInv, RaceTyped, Sound, Begun, AR!Loop, AR!AddressRaceAssumption
<1>2. /\ \A j \in DOMAIN t : Firm(t[j])
      /\ Begun(q) /\ Watching(q, t) /\ Twice(t) /\ Queued(q, t) /\ Heard(q, t)
  BY <1>1 DEF Sound
<1>3. CASE AR!promote(r)
  <2> DEFINE i == q.second
             a == t[i]
             b == [a EXCEPT !.second = FALSE, !.promoted = TRUE, !.holds = FALSE]
             p == [q EXCEPT !.at = "select", !.primary = i, !.second = 0]
             u == [t EXCEPT ![i] = b]
  <2>1. q.primary = 0 /\ i # 0 /\ att' = [att EXCEPT ![r] = u] /\ AR!Update(r, p)
    BY <1>3 DEF AR!promote, AR!Set
  <2>2. i \in DOMAIN t /\ a \in Try /\ Firm(a)
    BY <1>1, <1>2, <2>1
  <2>3. /\ b.address = a.address /\ b.number = a.number /\ b.at = a.at /\ b.end = a.end
        /\ ~b.second /\ Firm(b)
    BY <2>2 DEF Try, Firm
  <2>4. /\ p.image = q.image /\ p.untried = q.untried /\ p.retries = q.retries /\ p.first = q.first
        /\ p.at = "select" /\ p.primary = i /\ p.second = 0
    BY <1>1 DEF Racing
  <2>5. DOMAIN u = DOMAIN t /\ u[i] = b /\ \A j \in DOMAIN t : j # i => u[j] = t[j]
    BY <2>2
  <2> HIDE DEF b, p, u, i
  <2>6. \A j \in DOMAIN t : /\ u[j].address = t[j].address /\ u[j].number = t[j].number
                            /\ u[j].at = t[j].at /\ u[j].end = t[j].end
    BY <2>3, <2>5
  <2>7. Sound(p, u)
    <3>1. \A j \in DOMAIN u : Firm(u[j])
      BY <1>2, <2>3, <2>5
    <3>2. Begun(p) /\ Reason(p, u)
      BY <1>1, <2>4 DEF Begun, Reason
    <3>3. Watching(p, u)
      <4>1. ASSUME NEW j \in DOMAIN t, j # i PROVE ~t[j].second /\ t[j].at = "seen"
        BY <1>1, <1>2, <2>1, <4>1 DEF Watching, i
      <4> QED
        BY <2>3, <2>4, <2>5, <4>1 DEF Watching
    <3>4. Twice(u)
      <4> SUFFICES ASSUME NEW j \in DOMAIN t
                   PROVE  /\ u[j].number \in {1, 2}
                          /\ \A k \in DOMAIN u : u[j].address = u[k].address =>
                               /\ u[j].number = u[k].number => j = k
                               /\ u[j].number = 1 /\ u[k].number = 2 => u[j].at = "seen"
        BY <2>5 DEF Twice
      <4> QED
        BY <1>2, <2>5, <2>6 DEF Twice
    <3>5. Queued(p, u)
      <4>1. /\ \A k \in 1 .. Addresses : k < p.untried => \E j \in DOMAIN u : u[j].address = k
            /\ \A j \in DOMAIN u : u[j].address < p.untried
        BY <1>2, <2>4, <2>5, <2>6 DEF Queued
      <4>2. ASSUME NEW m \in DOMAIN q.retries
            PROVE  /\ \E j \in DOMAIN u : u[j].address = q.retries[m]
                   /\ \A j \in DOMAIN u : u[j].address = q.retries[m] => u[j].number = 1 /\ u[j].at = "seen"
        <5>1. /\ \E j \in DOMAIN t : t[j].address = q.retries[m]
              /\ \A j \in DOMAIN t : t[j].address = q.retries[m] => t[j].number = 1 /\ t[j].at = "seen"
          BY <1>2 DEF Queued
        <5> QED
          BY <2>5, <2>6, <5>1
      <4>3. \A m, n \in DOMAIN q.retries : q.retries[m] = q.retries[n] => m = n
        BY <1>2 DEF Queued
      <4> QED
        BY <2>4, <4>1, <4>2, <4>3 DEF Queued
    <3>6. Heard(p, u)
      <4> SUFFICES ASSUME NEW j \in DOMAIN t, u[j].at = "seen"
                   PROVE  u[j].end # "won" /\ (u[j].end = "response" => p.first)
        BY <2>5 DEF Heard
      <4> QED
        BY <1>1, <1>2, <2>4, <2>6 DEF Heard
    <3> QED
      BY <3>1, <3>2, <3>3, <3>4, <3>5, <3>6 DEF Sound
  <2>8. Admission'
    BY <1>1, <2>1, NoneAdmitted
  <2> QED
    BY <2>1, <2>7, <2>8, OneRequest
<1>4. CASE AR!launch(r)
  <2> DEFINE k == AR!NextOf(q)
             n == AR!Number(r, k) + 1
             a == AR!Attempt(k, n, FALSE)
             w == AR!Without(q)
             l == Len(att'[r])
             p == [w EXCEPT !.at = "select", !.primary = l]
  <2>1. /\ AR!Pending(q) /\ q.second = 0 /\ q.primary = 0 /\ att' = [att EXCEPT ![r] = Append(t, a)]
        /\ AR!Update(r, p)
    BY <1>4 DEF AR!launch
  <2>2. k \in Nat /\ w \in Racing /\ w.second = 0
    BY <1>1, <2>1, NextAddress
  <2>3. n \in Nat /\ a \in Try
    BY <1>1, <2>2, NewTry
  <2>4. FirstTime(q, t, k, n) \/ SecondTime(q, t, k, n)
    BY <1>1, <2>1, NextNumber
  <2>5. l = Len(t) + 1 /\ l \in Nat
    <3>1. att'[r] = Append(t, a)
      BY <1>1, <2>1 DEF RaceTyped
    <3> HIDE DEF a
    <3> QED
      BY <1>1, <2>3, <3>1
  <2>6. w.image = q.image /\ w.first = q.first
    BY <1>1 DEF AR!Without, Racing
  <2> HIDE DEF w, l, n, k
  <2>7. /\ p \in Racing /\ p.at = "select" /\ p.primary = l /\ p.second = 0 /\ p.image = q.image
        /\ p.first = q.first /\ p.untried = w.untried /\ p.retries = w.retries
    BY <2>2, <2>5, <2>6 DEF Racing
  <2> HIDE DEF p
  <2>8. Sound(p, Append(t, a))
    BY <1>1, <2>1, <2>2, <2>3, <2>4, <2>5, <2>7, Another DEF w, a
  <2>9. Admission'
    BY <1>1, <2>1, NoneAdmitted
  <2> QED
    BY <2>1, <2>8, <2>9, OneRequest
<1>5. CASE AR!Exhausted(r)
  <2> DEFINE x == IF q.first THEN "response" ELSE "failed"
             p == [q EXCEPT !.at = "waiting", !.result = x]
  <2>1. /\ q.primary = 0 /\ q.second = 0 /\ q.untried > Addresses /\ q.untried \in Nat
        /\ AR!Update(r, p) /\ UNCHANGED att
    BY <1>1, <1>5 DEF AR!Exhausted, AR!Pending, Racing
  <2>2. x \in AR!Results /\ (x = "failed" => ~q.first)
    BY DEF AR!Results
  <2> HIDE DEF x
  <2>3. /\ p \in Racing /\ p.at = "waiting" /\ p.result = x /\ p.image = q.image
        /\ p.primary = q.primary /\ p.second = q.second /\ p.untried = q.untried /\ p.retries = q.retries
    BY <1>1, <2>2 DEF Racing
  <2> HIDE DEF p
  <2>4. Reason(p, t)
    <3> SUFFICES ASSUME NEW k \in 1 .. Addresses
                 PROVE  \E j \in DOMAIN t :
                           /\ t[j].address = k /\ t[j].at = "seen" /\ t[j].end # "won"
                           /\ p.result = "failed" => t[j].end # "response"
      BY DEF Reason
    <3>1. k < q.untried
      BY <1>1, <2>1
    <3>2. PICK j \in DOMAIN t : t[j].address = k
      BY <1>2, <3>1 DEF Queued
    <3>3. t[j].at = "seen"
      BY <1>1, <1>2, <2>1 DEF Watching
    <3> QED
      BY <1>1, <1>2, <2>2, <2>3, <3>2, <3>3 DEF Heard
  <2>5. Begun(p) /\ Heard(p, t)
    BY <2>3 DEF Begun, Heard
  <2>6. Sound(p, t)
    BY <1>1, <2>3, <2>4, <2>5, RequestGoesOn
  <2>7. Admission'
    BY <1>1, <2>1, NoneAdmitted
  <2> QED
    BY <2>1, <2>3, <2>6, <2>7, AloneFair
<1>6. CASE AR!Settled(r)
  <2> DEFINE p == [q EXCEPT !.at = "select"]
  <2>1. AR!Update(r, p) /\ UNCHANGED att
    BY <1>6 DEF AR!Settled
  <2>2. /\ p \in Racing /\ p.at = "select" /\ p.image = q.image /\ p.first = q.first
        /\ p.primary = q.primary /\ p.second = q.second /\ p.untried = q.untried /\ p.retries = q.retries
    BY <1>1 DEF Racing
  <2> HIDE DEF p
  <2>3. Begun(p) /\ Heard(p, t) /\ Reason(p, t)
    BY <1>1, <1>2, <2>2 DEF Begun, Heard, Reason
  <2>4. Sound(p, t)
    BY <1>1, <2>2, <2>3, RequestGoesOn
  <2>5. Admission'
    BY <1>1, <2>1, NoneAdmitted
  <2> QED
    BY <2>1, <2>2, <2>4, <2>5, AloneFair
<1> QED
  BY <1>3, <1>4, <1>5, <1>6 DEF AR!Loop

LEMMA QuietFair ==
    ASSUME FairInv, RaceInv', AR!AddressRaceAssumption, NEW r \in Request, AR!Quiet(r)
    PROVE  FairInv'
<1> DEFINE q == req[r]
           t == att[r]
           i == AR!Watched(r)
<1>1. /\ q \in Racing /\ t \in Seq(Try) /\ Sound(q, t) /\ q.at = "select" /\ q.image
      /\ Addresses \in Nat /\ DOMAIN t = 1..Len(t) /\ Len(t) \in Nat
      /\ (q.second # 0 => q.second \in DOMAIN t) /\ (\A j \in DOMAIN t : t[j] \in Try)
      /\ RaceTyped /\ AR!Pending(q)
  BY LenProperties DEF FairInv, RaceInv, RaceTyped, AR!Quiet, AR!Watched, AR!AddressRaceAssumption
<1>2. CASE q.second = 0
  <2> DEFINE k == AR!NextOf(q)
             n == AR!Number(r, k) + 1
             a == AR!Attempt(k, n, TRUE)
             w == AR!Without(q)
             l == Len(att'[r])
             p == [w EXCEPT !.at = "loop", !.second = l]
  <2>1. att' = [att EXCEPT ![r] = Append(t, a)] /\ AR!Update(r, p)
    BY <1>2 DEF AR!Quiet
  <2>2. k \in Nat /\ w \in Racing
    BY <1>1, NextAddress
  <2>3. n \in Nat /\ a \in Try
    BY <1>1, <2>2, NewTry
  <2>4. FirstTime(q, t, k, n) \/ SecondTime(q, t, k, n)
    BY <1>1, NextNumber
  <2>5. l = Len(t) + 1 /\ l \in Nat
    <3>1. att'[r] = Append(t, a)
      BY <1>1, <2>1 DEF RaceTyped
    <3> HIDE DEF a
    <3> QED
      BY <1>1, <2>3, <3>1
  <2>6. w.image = q.image /\ w.first = q.first /\ w.primary = q.primary
    BY <1>1 DEF AR!Without, Racing
  <2> HIDE DEF w, l, n, k
  <2>7. /\ p \in Racing /\ p.at = "loop" /\ p.second = l /\ p.primary = q.primary /\ p.image = q.image
        /\ p.first = q.first /\ p.untried = w.untried /\ p.retries = w.retries
    BY <2>2, <2>5, <2>6 DEF Racing
  <2> HIDE DEF p
  <2>8. Sound(p, Append(t, a))
    BY <1>1, <1>2, <2>1, <2>2, <2>3, <2>4, <2>5, <2>7, Another DEF w, a
  <2>9. Admission'
    BY <1>1, <2>1, NoneAdmitted
  <2> QED
    BY <2>1, <2>8, <2>9, OneRequest
<1>3. CASE q.second # 0
  <2> DEFINE a == t[i]
             b == [a EXCEPT !.yielded = TRUE, !.cancelled = TRUE]
             p == [q EXCEPT !.at = "loop"]
             u == [t EXCEPT ![i] = b]
  <2>1. i = q.second /\ i # 0 /\ att' = [att EXCEPT ![r] = u] /\ AR!Update(r, p)
    BY <1>3 DEF AR!Quiet, AR!Watched, AR!Set
  <2>2. i \in DOMAIN t /\ a \in Try /\ Firm(a)
    BY <1>1, <2>1 DEF Sound
  <2>3. b \in Try /\ Goes(a, b)
    BY <2>2 DEF Try, Goes, Firm
  <2>4. DOMAIN u = DOMAIN t /\ u[i] = b /\ (\A j \in DOMAIN t : j # i => u[j] = t[j]) /\ u \in Seq(Try)
    BY <1>1, <2>2, <2>3
  <2>5. /\ p \in Racing /\ p.at = "loop" /\ p.image = q.image /\ p.first = q.first
        /\ p.primary = q.primary /\ p.second = q.second /\ p.untried = q.untried /\ p.retries = q.retries
    BY <1>1 DEF Racing
  <2> HIDE DEF b, p, u, i
  <2>6. \A j \in DOMAIN t : Goes(t[j], u[j])
    <3>1. \A j \in DOMAIN t : Goes(t[j], t[j])
      BY <1>1 DEF Sound, Goes
    <3> QED
      BY <2>3, <2>4, <3>1
  <2>7. Sound(q, u)
    BY <1>1, <2>4, <2>6, GoesOn
  <2>8. Begun(p) /\ Heard(p, u) /\ Reason(p, u)
    BY <1>1, <2>5, <2>7 DEF Begun, Heard, Reason, Sound
  <2>9. Sound(p, u)
    BY <1>1, <2>4, <2>5, <2>7, <2>8, RequestGoesOn
  <2>10. Admission'
    BY <1>1, <2>1, NoneAdmitted
  <2> QED
    BY <2>1, <2>9, <2>10, OneRequest
<1> QED
  BY <1>2, <1>3

LEMMA SeenFair ==
    ASSUME FairInv, RaceInv', AR!AddressRaceAssumption,
           NEW r \in Request, NEW i \in DOMAIN att[r], AR!Seen(r, i)
    PROVE  FairInv'
<1> DEFINE o == req[r]
           t == att[r]
           a == att[r][i]
           again == a.number = 1 /\ (a.end = "transient" \/ (a.yielded /\ a.end = "cancelled"))
           freed == [req[r] EXCEPT !.primary = IF @ = i THEN 0 ELSE @, !.second = IF @ = i THEN 0 ELSE @]
           q == IF req[r].image THEN [freed EXCEPT !.at = "loop"] ELSE freed
           last == ~q.image /\ \A k \in DOMAIN att[r] \ {i} : att[r][k].at = "seen"
           kept == [q EXCEPT !.first = @ \/ a.end = "response",
                             !.retries = IF again /\ q.image THEN Append(@, a.address) ELSE @]
           p == IF a.end = "won" THEN [q EXCEPT !.at = "waiting", !.result = "won"]
                ELSE IF last THEN [kept EXCEPT !.at = "waiting",
                                     !.result = IF kept.first THEN "response" ELSE "failed"]
                ELSE kept
           seen == [att[r] EXCEPT ![i] = AR!Settle(a)]
           tries == IF a.end = "won" THEN AR!Stopped(seen) ELSE seen
<1>1. /\ o.at = "select" /\ a.at = "finished"
      /\ att' = [att EXCEPT ![r] = tries] /\ AR!Update(r, p)
  BY DEF AR!Seen
<1>2. o \in Racing /\ t \in Seq(Try) /\ a \in Try /\ Sound(o, t) /\ Addresses \in Nat
  BY DEF FairInv, RaceInv, RaceTyped, AR!AddressRaceAssumption
<1> DEFINE Rest(x) == /\ x \in Racing /\ x.image = o.image /\ x.untried = o.untried
                      /\ x.primary = (IF o.primary = i THEN 0 ELSE o.primary)
                      /\ x.second = (IF o.second = i THEN 0 ELSE o.second)
<1>3. Rest(freed) /\ freed.at = "select" /\ freed.first = o.first /\ freed.retries = o.retries
      /\ freed.result = o.result
  <2> DEFINE x == IF o.primary = i THEN 0 ELSE o.primary
             y == IF o.second = i THEN 0 ELSE o.second
  <2>1. x \in Nat /\ y \in Nat
    BY <1>2 DEF Racing
  <2>2. freed = [o EXCEPT !.primary = x, !.second = y]
    BY <1>2 DEF Racing
  <2> HIDE DEF x, y, freed
  <2>3. /\ freed \in Racing /\ freed.image = o.image /\ freed.untried = o.untried
        /\ freed.primary = x /\ freed.second = y
        /\ freed.at = "select" /\ freed.first = o.first /\ freed.retries = o.retries
        /\ freed.result = o.result
    BY <1>1, <1>2, <2>1, <2>2 DEF Racing
  <2> QED
    BY <2>3 DEF x, y
<1> HIDE DEF freed
<1>4. /\ Rest(q) /\ q.at = (IF o.image THEN "loop" ELSE "select") /\ q.first = o.first /\ q.retries = o.retries
  BY <1>3 DEF Racing
<1> HIDE DEF q
<1>5. /\ Rest(kept) /\ kept.at = q.at
      /\ (kept.first <=> o.first \/ a.end = "response")
      /\ \/ kept.retries = o.retries
         \/ a.number = 1 /\ kept.retries = Append(o.retries, a.address)
  <2> DEFINE x == IF again /\ q.image THEN Append(q.retries, a.address) ELSE q.retries
             y == q.first \/ a.end = "response"
  <2>4. x \in Seq(Nat) /\ (x = o.retries \/ (a.number = 1 /\ x = Append(o.retries, a.address)))
    <3>1. q.retries = o.retries /\ o.retries \in Seq(Nat) /\ a.address \in Nat
      BY <1>2, <1>4 DEF Racing, Try
    <3>2. Append(o.retries, a.address) \in Seq(Nat)
      BY <3>1
    <3> QED
      BY <3>1, <3>2
  <2>5. y \in BOOLEAN /\ (y <=> o.first \/ a.end = "response")
    BY <1>4
  <2>1. /\ x \in Seq(Nat) /\ y \in BOOLEAN /\ (y <=> o.first \/ a.end = "response")
        /\ x = o.retries \/ (a.number = 1 /\ x = Append(o.retries, a.address))
    BY <2>4, <2>5
  <2>2. kept = [q EXCEPT !.first = y, !.retries = x]
    BY <1>4 DEF Racing
  <2> HIDE DEF x, y, kept, again
  <2>3. /\ kept \in Racing /\ kept.image = q.image /\ kept.untried = q.untried
        /\ kept.primary = q.primary /\ kept.second = q.second
        /\ kept.at = q.at /\ kept.first = y /\ kept.retries = x
    BY <1>4, <2>1, <2>2 DEF Racing
  <2> QED
    BY <1>4, <2>1, <2>3
<1>6. last => ~o.image /\ \A k \in DOMAIN t \ {i} : t[k].at = "seen"
  BY <1>4
<1> HIDE DEF kept, last, again
<1>7. /\ Rest(p) /\ p.at \in {"select", "loop", "waiting"} /\ (p.at = "loop" => o.image)
      /\ \/ p.retries = o.retries
         \/ a.number = 1 /\ p.retries = Append(o.retries, a.address)
      /\ (p.at # "waiting" => a.end # "won" /\ (p.first <=> o.first \/ a.end = "response"))
      /\ (p.at = "waiting" /\ p.result \in {"failed", "response"} =>
             /\ ~o.image /\ a.end # "won" /\ (\A j \in DOMAIN t \ {i} : t[j].at = "seen")
             /\ (p.result = "failed" => ~o.first /\ a.end # "response"))
  <2>1. CASE a.end = "won"
    <3>1. p = [q EXCEPT !.at = "waiting", !.result = "won"]
      BY <2>1
    <3> HIDE DEF p
    <3>2. /\ p \in Racing /\ p.image = q.image /\ p.untried = q.untried /\ p.primary = q.primary
          /\ p.second = q.second /\ p.at = "waiting" /\ p.result = "won" /\ p.retries = q.retries
      BY <1>4, <3>1 DEF Racing, AR!Results
    <3> QED
      BY <1>4, <3>2
  <2>2. CASE a.end # "won" /\ last
    <3> DEFINE x == IF kept.first THEN "response" ELSE "failed"
    <3>1. p = [kept EXCEPT !.at = "waiting", !.result = x] /\ x \in AR!Results /\ (x = "failed" => ~kept.first)
      BY <2>2 DEF AR!Results
    <3> HIDE DEF p, x
    <3>2. /\ p \in Racing /\ p.image = kept.image /\ p.untried = kept.untried /\ p.primary = kept.primary
          /\ p.second = kept.second /\ p.at = "waiting" /\ p.result = x /\ p.retries = kept.retries
      BY <1>5, <3>1 DEF Racing
    <3> QED
      BY <1>5, <1>6, <2>2, <3>1, <3>2
  <2>3. CASE a.end # "won" /\ ~last
    <3>1. p = kept
      BY <2>3
    <3> HIDE DEF p
    <3> QED
      BY <1>4, <1>5, <2>3, <3>1
  <2> QED
    BY <2>1, <2>2, <2>3
<1> HIDE DEF p
<1> DEFINE b == AR!Settle(a)
<1>8. /\ b \in Try /\ b.address = a.address /\ b.number = a.number /\ b.end = a.end
      /\ b.at = "seen" /\ ~b.second /\ ~b.promoted
  BY <1>2 DEF AR!Settle, Try
<1> HIDE DEF b
<1>9. /\ seen \in Seq(Try) /\ DOMAIN seen = DOMAIN t /\ seen[i] = b
      /\ \A j \in DOMAIN t : j # i => seen[j] = t[j]
  BY <1>2, <1>8 DEF b
<1> HIDE DEF seen
<1> DEFINE Only(v) ==
      /\ DOMAIN v = DOMAIN t /\ v[i].at = "seen" /\ ~v[i].second /\ ~v[i].promoted
      /\ \A j \in DOMAIN t : /\ v[j].address = t[j].address /\ v[j].number = t[j].number /\ v[j].end = t[j].end
                             /\ j # i => /\ v[j].at = t[j].at /\ v[j].second = t[j].second
                                         /\ v[j].promoted = t[j].promoted /\ v[j].holds = t[j].holds
<1>10. Only(seen)
  BY <1>8, <1>9
<1>11. tries \in Seq(Try) /\ Only(tries)
  <2>1. CASE a.end = "won"
    <3> DEFINE v == AR!Stopped(seen)
    <3>1. v \in Seq(Try) /\ DOMAIN v = DOMAIN seen
      BY <1>9, StoppedTries
    <3>2. ASSUME NEW j \in DOMAIN seen
          PROVE  /\ v[j].address = seen[j].address /\ v[j].number = seen[j].number /\ v[j].end = seen[j].end
                 /\ v[j].at = seen[j].at /\ v[j].second = seen[j].second
                 /\ v[j].promoted = seen[j].promoted /\ v[j].holds = seen[j].holds
      <4>1. seen[j] \in Try
        <5>1. DOMAIN seen = 1..Len(seen)
          BY <1>9, LenProperties
        <5> QED
          BY <1>9, <5>1
      <4>2. v[j] = [seen[j] EXCEPT !.cancelled = TRUE]
        BY DEF AR!Stopped
      <4> HIDE DEF v
      <4> QED
        BY <4>1, <4>2 DEF Try
    <3>3. tries = v
      BY <2>1
    <3> HIDE DEF v, tries
    <3> QED
      BY <1>9, <1>10, <3>1, <3>2, <3>3
  <2>2. CASE a.end # "won"
    BY <1>9, <1>10, <2>2
  <2> QED
    BY <2>1, <2>2
<1> HIDE DEF tries
<1>12. Sound(p, tries)
  BY <1>1, <1>2, <1>7, <1>11, SeenSound
<1>13. Admission'
  BY <1>1, <1>7, NoneAdmitted
<1> QED
  BY <1>1, <1>12, <1>13, OneRequest

LEMMA FairStep == ASSUME AR!AddressRaceAssumption, FairInv, [AR!Next]_AR!vars PROVE FairInv'
<1>1. RaceInv'
  BY RaceStep DEF FairInv
<1>2. CASE UNCHANGED AR!vars
  <2>1. UNCHANGED <<req, att, secondary>>
    BY <1>2 DEF AR!vars
  <2>2. AR!UnderWay' = AR!UnderWay
    BY <2>1 DEF AR!UnderWay
  <2> QED
    BY <1>1, <2>1, <2>2 DEF FairInv, Admission
<1> QED
  BY <1>1, <1>2, RoundTripFair, LeaveFair, LoopFair, QuietFair, SeenFair, RunFair DEF AR!Next

-----------------------------------------------------------------------------
\* The first attempts that fetch, one for each image under way but the one that
\* waits for a connection.
LEMMA FirstsFetching ==
    ASSUME FairInv, NEW r \in Request, req[r].image, NEW i \in DOMAIN att[r],
           att[r][i].at = "slot", ~att[r][i].second,
           NEW F, F = {x \in AR!Fetching(TRUE) : ~att[x[1]][x[2]].second}
    PROVE  IsFiniteSet(F) /\ Cardinality(F) <= Cardinality(AR!UnderWay \ {r})
<1> DEFINE S == AR!UnderWay \ {r}
           f == [x \in F |-> x[1]]
<1>1. ASSUME NEW x \in F
      PROVE  /\ x[1] \in S /\ x = <<x[1], x[2]>> /\ x[2] = req[x[1]].primary
  <2>1. /\ x \in AR!Attempts /\ req[x[1]].image /\ att[x[1]][x[2]].at = "fetching"
        /\ ~att[x[1]][x[2]].second
    BY DEF AR!Fetching
  <2>2. x[1] \in Request /\ x[2] \in DOMAIN att[x[1]] /\ x = <<x[1], x[2]>>
    BY <2>1 DEF AR!Attempts
  <2>3. att[x[1]] # << >>
    BY <2>2
  <2>4. req[x[1]].at \in {"loop", "select", "waiting"}
    BY <2>2, <2>3 DEF FairInv, RaceInv, RaceTyped, Racing
  <2>5. Watching(req[x[1]], att[x[1]]) /\ Watching(req[r], att[r])
    BY <2>2 DEF FairInv, Sound
  <2>6. x[2] = req[x[1]].primary /\ i = req[r].primary
    BY <2>1, <2>2, <2>5 DEF Watching
  <2>7. x[1] # r
    BY <2>1, <2>6
  <2> QED
    BY <2>1, <2>2, <2>4, <2>6, <2>7 DEF AR!UnderWay
<1>2. f \in [F -> S]
  BY <1>1
<1>3. ASSUME NEW x \in F, NEW y \in F, f[x] = f[y] PROVE x = y
  BY <1>1, <1>3
<1>4. f \in Injection(F, S)
  BY <1>2, <1>3 DEF Injection, IsInjective
<1>5. IsFiniteSet(S)
  BY FS_RemoveElement DEF FairInv, Admission
<1> QED
  BY <1>4, <1>5, FS_Injection

\* And the second ones that fetch, which have the lane.
LEMMA SecondsFetching ==
    ASSUME FairInv, NEW S, S = {x \in AR!Fetching(TRUE) : att[x[1]][x[2]].second}
    PROVE  IsFiniteSet(S) /\ Cardinality(S) \in {0, 1}
<1>1. ASSUME NEW x \in S PROVE x \in Holders
  <2>1. x \in AR!Attempts /\ att[x[1]][x[2]].at = "fetching" /\ att[x[1]][x[2]].second
    BY DEF AR!Fetching
  <2>2. x[1] \in Request /\ x[2] \in DOMAIN att[x[1]]
    BY <2>1 DEF AR!Attempts
  <2>3. Firm(att[x[1]][x[2]])
    BY <2>2 DEF FairInv, Sound
  <2> QED
    BY <2>1, <2>3 DEF Holders, HasLane, Firm
<1>2. S = {} \/ \E x : S = {x}
  BY <1>1 DEF FairInv, RaceInv, OneHolder
<1>3. CASE S = {}
  BY <1>3, FS_EmptySet
<1>4. CASE \E x : S = {x}
  BY <1>4, FS_Singleton
<1> QED
  BY <1>2, <1>3, <1>4

\* FirstHasSlot: the first attempt of an image never waits for a connection,
\* whatever second attempts and promotions are under way (image_scheduler.go):
\* each image under way has one first attempt at a time, the second attempts that
\* fetch have the one lane between them, and there are more slots than images.
THEOREM FirstHasSlotAlways == ASSUME AR!AddressRaceAssumption PROVE AR!Spec => []AR!FirstHasSlot
<1>1. FairInv => AR!FirstHasSlot
  <2> SUFFICES ASSUME FairInv, NEW r \in Request, req[r].image, NEW i \in DOMAIN att[r],
                      att[r][i].at = "slot", ~att[r][i].second
               PROVE  AR!Cardinality(AR!Fetching(TRUE)) < Slots
    BY DEF AR!FirstHasSlot
  <2> DEFINE F == {x \in AR!Fetching(TRUE) : ~att[x[1]][x[2]].second}
             S == {x \in AR!Fetching(TRUE) : att[x[1]][x[2]].second}
             U == AR!UnderWay
  <2>1. AR!Fetching(TRUE) = F \cup S
    OBVIOUS
  <2>2. r \in U
    <3>1. att[r] # << >>
      OBVIOUS
    <3>2. req[r].at \in {"loop", "select", "waiting"}
      BY <3>1 DEF FairInv, RaceInv, RaceTyped, Racing
    <3> QED
      BY <3>2 DEF AR!UnderWay
  <2>3. PICK n \in Nat : IsFiniteSet(U) /\ Cardinality(U) = n /\ n <= Lanes
    BY DEF FairInv, Admission
  <2>4. Cardinality(U \ {r}) = n - 1
    BY <2>2, <2>3, FS_RemoveElement
  <2>5. IsFiniteSet(F) /\ Cardinality(F) <= n - 1
    BY <2>4, FirstsFetching
  <2>6. IsFiniteSet(S) /\ Cardinality(S) \in {0, 1}
    BY SecondsFetching
  <2>7. F \cap S = {}
    OBVIOUS
  <2> HIDE DEF F, S, U
  <2>8. Cardinality(F \cup S) = Cardinality(F) + Cardinality(S)
    <3>1. IsFiniteSet(F \cap S) /\ Cardinality(F \cap S) = 0
      BY <2>7, FS_EmptySet
    <3>2. Cardinality(F) \in Nat
      BY <2>5, FS_CardinalityType
    <3>3. Cardinality(F \cup S) = Cardinality(F) + Cardinality(S) - Cardinality(F \cap S)
      BY <2>5, <2>6, FS_Union
    <3> QED
      BY <2>6, <3>1, <3>2, <3>3
  <2>9. Cardinality(F) \in Nat /\ Lanes \in Nat /\ Slots \in Nat /\ Lanes < Slots
    BY <2>5, FS_CardinalityType DEF AR!AddressRaceAssumption
  <2>10. Cardinality(F) + Cardinality(S) < Slots
    BY <2>3, <2>5, <2>6, <2>9
  <2>11. Cardinality(AR!Fetching(TRUE)) < Slots
    BY <2>1, <2>8, <2>10
  <2> QED
    BY <2>11 DEF Cardinality, AR!Cardinality
<1> QED
  BY <1>1, FairInit, FairStep, PTL DEF AR!Spec

\* FailedForReason: no address is asked a third time, and a request fails only
\* when each was asked to the end without an answer, for pages that ask all at
\* once (address_fallback.go) and images that ask in turn (image_scheduler.go).
THEOREM FailedForReasonAlways == ASSUME AR!AddressRaceAssumption PROVE AR!Spec => []AR!FailedForReason
<1>1. FairInv => AR!FailedForReason
  <2> SUFFICES ASSUME FairInv, NEW r \in Request
               PROVE  /\ \A k \in 1 .. Addresses : AR!Number(r, k) <= 2
                      /\ req[r].at = "waiting" /\ req[r].result \in {"failed", "response"} =>
                           \A k \in 1 .. Addresses : \E i \in DOMAIN att[r] :
                              /\ att[r][i].address = k /\ att[r][i].at = "seen" /\ att[r][i].end # "won"
                              /\ req[r].result = "failed" => att[r][i].end # "response"
    BY DEF AR!FailedForReason
  <2>1. Twice(att[r]) /\ Reason(req[r], att[r])
    BY DEF FairInv, Sound
  <2>2. ASSUME NEW k \in 1 .. Addresses PROVE AR!Number(r, k) <= 2
    <3> DEFINE T == {i \in DOMAIN att[r] : att[r][i].address = k}
               f == [i \in T |-> att[r][i].number]
    <3>1. f \in [T -> 1 .. 2] /\ \A i, j \in T : f[i] = f[j] => i = j
      BY <2>1 DEF Twice
    <3>2. f \in Injection(T, 1 .. 2)
      BY <3>1 DEF Injection, IsInjective
    <3>3. IsFiniteSet(1 .. 2) /\ Cardinality(1 .. 2) = 2
      <4>1. 1 \in Int /\ 2 \in Int /\ ~(1 > 2) /\ 2 - 1 + 1 = 2
        OBVIOUS
      <4> QED
        BY <4>1, FS_Interval
    <3>4. IsFiniteSet(T) /\ Cardinality(T) <= 2
      BY <3>2, <3>3, FS_Injection
    <3> QED
      BY <3>4 DEF AR!Number, AR!Cardinality, Cardinality
  <2> QED
    BY <2>1, <2>2 DEF Reason
<1> QED
  BY <1>1, FairInit, FairStep, PTL DEF AR!Spec

\* RaceFair: all three, as the run states them.  Images do not starve one
\* another of connections, the lane or attempts (httpx/image_scheduler.go).
THEOREM RaceFairAlways == ASSUME AR!AddressRaceAssumption PROVE AR!Spec => []AR!RaceFair
<1>1. AR!FirstHasSlot /\ AR!LaneHeldOnce /\ AR!FailedForReason => AR!RaceFair
  BY DEF AR!RaceFair
<1> QED
  BY <1>1, FirstHasSlotAlways, LaneHeldOnceAlways, FailedForReasonAlways, PTL

-----------------------------------------------------------------------------
(* ImageCache: only the holder writes, and it renames what it wrote to the end.*)

CONSTANTS Url, Local, Place, TTL, MaxEdits, MaxCrashes
VARIABLES images, dir, file, tmp, run, sweep, edits, crashes

IC == INSTANCE ImageCache

Whole(f) == f # IC!NoFile => "whole" \in DOMAIN f /\ f.whole

ImagesInv ==
    /\ file = [p \in Place |-> file[p]] /\ tmp = [p \in Place |-> tmp[p]]
    /\ \A p \in Place : Whole(file[p])
    /\ run.at = "written" => (run.i \in Place => tmp[run.i] = "whole")
    /\ run = [at |-> run.at, urls |-> run.urls, i |-> run.i, paths |-> run.paths, gotURLs |-> run.gotURLs]

LEMMA Aged ==
    ASSUME NEW f, NEW n, f # IC!NoFile, Whole(f)
    PROVE  Whole([f EXCEPT !.age = n])
BY DEF Whole

LEMMA ImagesInit == IC!Init => ImagesInv
BY DEF IC!Init, ImagesInv, Whole, IC!Idle

LEMMA ImagesStep == ASSUME ImagesInv, [IC!Next]_(IC!vars) PROVE ImagesInv'
<1> USE DEF ImagesInv
<1>1. CASE UNCHANGED <<file, tmp, run>>
  BY <1>1
<1>2. CASE UNCHANGED <<file, tmp>> /\ run'.at # "written" /\ (IC!FetchAndStore \/ IC!ownImage \/ IC!Return \/ IC!Crash)
  BY <1>2 DEF IC!FetchAndStore, IC!ownImage, IC!Return, IC!Crash, IC!Idle, IC!Skip, IC!Take
<1>3. CASE IC!fetchOne
  <2>1. UNCHANGED tmp
    BY <1>3 DEF IC!fetchOne
  <2>2. run' = [at |-> run'.at, urls |-> run'.urls, i |-> run'.i, paths |-> run'.paths, gotURLs |-> run'.gotURLs]
        /\ run'.at # "written"
    BY <1>3 DEF IC!fetchOne, IC!Skip, IC!Take
  <2>3. CASE UNCHANGED file
    BY <2>1, <2>2, <2>3
  <2>4. CASE file[run.i] # IC!NoFile /\ file' = [file EXCEPT ![run.i].age = 0]
    <3>1. file' = [file EXCEPT ![run.i] = [file[run.i] EXCEPT !.age = 0]]
      BY <2>4
    <3>2. ASSUME NEW p \in Place PROVE Whole(file'[p])
      <4>1. CASE p = run.i
        <5>1. file'[p] = [file[p] EXCEPT !.age = 0] /\ file[p] # IC!NoFile /\ Whole(file[p])
          BY <2>4, <3>1, <4>1
        <5> QED
          BY <5>1, Aged
      <4>2. CASE p # run.i
        BY <3>1, <4>2
      <4> QED
        BY <4>1, <4>2
    <3> QED
      BY <2>1, <2>2, <3>1, <3>2
  <2> QED
    BY <1>3, <2>3, <2>4 DEF IC!fetchOne
<1>4. CASE IC!Download
  BY <1>4 DEF IC!Download, IC!Skip
<1>5. CASE IC!Encode
  BY <1>5 DEF IC!Encode, IC!Skip
<1>6. CASE IC!Rename
  <2>1. run' = [at |-> run'.at, urls |-> run'.urls, i |-> run'.i, paths |-> run'.paths, gotURLs |-> run'.gotURLs]
        /\ run'.at # "written" /\ tmp' = [tmp EXCEPT ![run.i] = "none"]
    BY <1>6 DEF IC!Rename, IC!Skip, IC!Take
  <2>2. CASE UNCHANGED file
    BY <2>1, <2>2
  <2>3. CASE file' = [file EXCEPT ![run.i] = [of |-> IC!Here, whole |-> tmp[run.i] = "whole", age |-> 0]]
    <3>1. run.at = "written"
      BY <1>6 DEF IC!Rename
    <3>2. ASSUME NEW p \in Place PROVE Whole(file'[p])
      <4>1. CASE p = run.i
        <5> DEFINE w == tmp[run.i] = "whole"
                   f == [of |-> IC!Here, whole |-> w, age |-> 0]
        <5>1. w /\ file'[p] = f
          BY <2>3, <3>1, <4>1
        <5>2. f.whole = w /\ "whole" \in DOMAIN f
          <6> HIDE DEF w
          <6> QED
            BY Zenon
        <5>3. f.whole
          BY <5>1, <5>2, Zenon
        <5> HIDE DEF f
        <5> QED
          BY <5>1, <5>2, <5>3 DEF Whole
      <4>2. CASE p # run.i
        BY <2>3, <4>2
      <4> QED
        BY <4>1, <4>2
    <3> QED
      BY <2>1, <2>3, <3>2
  <2> QED
    BY <1>6, <2>2, <2>3 DEF IC!Rename
<1>7. ASSUME NEW p \in Place, IC!CleanupExpired(p) PROVE ImagesInv'
  BY <1>7 DEF IC!CleanupExpired, Whole
<1>8. ASSUME NEW p \in Place, IC!SweepTmp(p) PROVE ImagesInv'
  BY <1>8 DEF IC!SweepTmp
<1>9. CASE IC!Tick
  <2>1. run' = IC!Idle /\ UNCHANGED tmp
    BY <1>9 DEF IC!Tick
  <2>2. /\ file' = [p \in Place |-> file'[p]]
        /\ \A p \in Place : file'[p] = file[p] \/ (file[p] # IC!NoFile /\ file'[p] = [file[p] EXCEPT !.age = @ + 1])
    BY <1>9 DEF IC!Tick
  <2>3. ASSUME NEW p \in Place PROVE Whole(file'[p])
    <3>1. Whole(file[p])
      OBVIOUS
    <3>2. CASE file'[p] = file[p]
      BY <3>1, <3>2
    <3>3. CASE file[p] # IC!NoFile /\ file'[p] = [file[p] EXCEPT !.age = @ + 1]
      <4>1. \A n : Whole([file[p] EXCEPT !.age = n])
        BY <3>1, <3>3, Aged
      <4>2. file'[p] = [file[p] EXCEPT !.age = file[p].age + 1]
        BY <3>3
      <4> QED
        BY <4>1, <4>2
    <3> QED
      BY <2>2, <3>2, <3>3
  <2> QED
    BY <2>1, <2>2, <2>3 DEF IC!Idle
<1>10. CASE IC!ReCapture \/ IC!RemoveDir \/ (\E p \in Place : IC!Stat(p))
  BY <1>1, <1>10 DEF IC!ReCapture, IC!RemoveDir, IC!Stat
<1>11. CASE UNCHANGED IC!vars
  BY <1>1, <1>11 DEF IC!vars
<1>12. CASE IC!FetchAndStore \/ IC!ownImage \/ IC!Return \/ IC!Crash
  <2>1. UNCHANGED <<file, tmp>>
    BY <1>12 DEF IC!FetchAndStore, IC!ownImage, IC!Return, IC!Crash
  <2>2. CASE IC!FetchAndStore \/ IC!Crash
    <3>1. IC!Idle.at = "idle" /\ "at" \in DOMAIN IC!Idle
      BY DEF IC!Idle
    <3>2. CASE IC!FetchAndStore
      <4>1. run' = [IC!Idle EXCEPT !.at = "next", !.urls = images]
        BY <3>2 DEF IC!FetchAndStore
      <4>2. run'.at = "next"
        BY <3>1, <4>1
      <4> QED
        BY <1>2, <1>12, <2>1, <4>2
    <3>3. CASE IC!Crash
      <4>1. run' = IC!Idle
        BY <3>3 DEF IC!Crash
      <4> QED
        BY <1>2, <1>12, <2>1, <3>1, <4>1
    <3> QED
      BY <2>2, <3>2, <3>3
  <2>3. CASE IC!ownImage
    <3>1. run'.at # "written"
      BY <2>3 DEF IC!ownImage, IC!Skip, IC!Take
    <3> QED
      BY <1>2, <1>12, <2>1, <3>1
  <2>4. CASE IC!Return
    <3>1. run'.at # "written"
      BY <2>4 DEF IC!Return
    <3> QED
      BY <1>2, <1>12, <2>1, <3>1
  <2> QED
    BY <1>12, <2>2, <2>3, <2>4
<1> QED
  BY <1>3, <1>4, <1>5, <1>6, <1>7, <1>8, <1>9, <1>10, <1>11, <1>12 DEF IC!Next

\* Whenever a process dies in the middle, a download fails or the sweep passes, a
\* picture found at its place is a whole one: it is written under another name and
\* renamed at the end.  imagefetch/imagefetch.go.
THEOREM FilesWholeAlways == IC!Spec => []IC!FilesWhole
<1>1. IC!Spec => []ImagesInv
  BY ImagesInit, ImagesStep, PTL DEF IC!Spec
<1>2. ImagesInv => IC!FilesWhole
  BY DEF ImagesInv, IC!FilesWhole, Whole
<1> QED
  BY <1>1, <1>2, PTL

=============================================================================
