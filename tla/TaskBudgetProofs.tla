-------------------------- MODULE TaskBudgetProofs --------------------------
(***************************************************************************)
(* Theorems about TaskBudget for every set of users and calls and every    *)
(* policy: the limits are kept, the accounts agree, and Acquire implements *)
(* Admission.                                                              *)
(*                                                                         *)
(* The inductive invariant says what a call still knows at each step while *)
(* it holds the lock: what it counted and checked can only have become     *)
(* better, because only releases and the clock go on meanwhile.            *)
(***************************************************************************)
EXTENDS TaskBudget, FiniteSetTheorems, NaturalsInduction,
        WellFoundedInduction, TLAPS

InTransaction == {"locked", "counted", "checked"}

LockInv ==
    \A c \in Caller : call[c].pc \in InTransaction => lock = c

\* HasRoom as of the instant at which the call counted.
RoomInv ==
    \A c \in Caller : call[c].pc \in {"counted", "checked"} =>
        /\ call[c].since <= now
        /\ HasRoom(Live(leases, call[c].since), call[c].owner)

CoversInv ==
    \A c \in Caller : call[c].pc = "checked" =>
        /\ call[c].day <= today
        /\ Covers(call[c].owner, call[c].cost, call[c].day)

IdInv ==
    /\ IsFiniteSet(leases)
    /\ \A l \in leases : l.id <= lastId
    /\ \A l, m \in leases : l.id = m.id => l = m
    /\ \A c \in Caller : call[c].pc = "working" => call[c].lease.id <= lastId
    /\ \A c, e \in Caller : call[c].pc = "working" /\ call[e].pc = "working"
          => (call[c].lease.id = call[e].lease.id => c = e)

Inv == /\ TypeOK /\ LockInv /\ RoomInv /\ CoversInv /\ IdInv
       /\ GlobalDailyKept /\ UserDailyKept /\ ConcurrencyKept /\ LeaseHeld

LEMMA Numbers ==
    /\ GlobalDaily \in Nat \ {0} /\ Concurrent \in Nat \ {0}
    /\ GlobalConcurrent \in Nat \ {0} /\ LeaseLength \in Nat \ {0}
    /\ MaxCost \in Nat \ {0} /\ MaxDay \in Nat /\ MaxTime \in Nat
    /\ \A o \in Owner : DailyLimit(o) \in Nat
BY BudgetAssumption DEF DailyLimit

-----------------------------------------------------------------------------
(* Type correctness *)

LEMMA IdleType == Idle \in Call
<1>1. MaxCost \in Nat \ {0} /\ MaxDay \in Nat
  BY Numbers
<1> QED
  BY <1>1 DEF Idle, NoLease, Call, Lease, Account, Days

LEMMA CommittedCall ==
    ASSUME NEW new \in Lease
    PROVE  [Idle EXCEPT !.pc = "working", !.lease = new] \in Call
BY IdleType DEF Call

LEMMA InitType == Init => TypeOK
<1>1. MaxDay \in Nat /\ MaxTime \in Nat
  BY Numbers
<1> QED
  BY <1>1, IdleType DEF Init, TypeOK, Days

LEMMA NewLease ==
    ASSUME TypeOK, NEW c \in Caller
    PROVE  [id |-> lastId + 1, owner |-> call[c].owner,
            expires |-> now + LeaseLength] \in Lease
<1>1. LeaseLength \in Nat /\ MaxTime \in Nat
  BY Numbers
<1> QED
  BY <1>1 DEF TypeOK, Call, Lease

LEMMA StepType == TypeOK /\ [Next]_vars => TypeOK'
<1> SUFFICES ASSUME TypeOK, [Next]_vars PROVE TypeOK'
  OBVIOUS
<1> USE DEF TypeOK
<1>1. ASSUME NEW c \in Caller, Acquire(c) PROVE TypeOK'
  <2>1. PICK o \in Account, cost \in 1 .. MaxCost :
           call' = [call EXCEPT ![c] =
                      [Idle EXCEPT !.pc = "locked", !.owner = o, !.cost = cost]]
    BY <1>1 DEF Acquire
  <2>2. [Idle EXCEPT !.pc = "locked", !.owner = o, !.cost = cost] \in Call
    BY IdleType DEF Call
  <2> QED
    BY <1>1, <2>1, <2>2 DEF Acquire
<1>2. ASSUME NEW c \in Caller, Count(c) PROVE TypeOK'
  <2>1. now \in Nat
    BY Numbers
  <2>2. [call[c] EXCEPT !.pc = "counted", !.since = now] \in Call
    BY <2>1 DEF Call
  <2> QED
    BY <1>2, <2>2 DEF Count
<1>3. ASSUME NEW c \in Caller, Check(c) PROVE TypeOK'
  <2>1. [call[c] EXCEPT !.pc = "checked", !.day = today] \in Call
    BY DEF Call
  <2> QED
    BY <1>3, <2>1 DEF Check
<1>4. ASSUME NEW c \in Caller, Commit(c) PROVE TypeOK'
  <2> DEFINE o == call[c].owner
             new == [id |-> lastId + 1, owner |-> o, expires |-> now + LeaseLength]
  <2>1. new \in Lease
    BY NewLease
  <2>2. call[c].cost \in Nat /\ call[c].day \in Days
    BY Numbers DEF Call
  <2>3. \A a \in Account :
           [used[a] EXCEPT ![call[c].day] = @ + call[c].cost] \in [Days -> Nat]
    BY <2>2
  <2>4. used' \in [Account -> [Days -> Nat]]
    BY <1>4, <2>3 DEF Commit
  <2>5. leases' \subseteq Lease
    BY <1>4, <2>1 DEF Commit, Live
  <2>6. [Idle EXCEPT !.pc = "working", !.lease = new] \in Call
    BY <2>1, CommittedCall
  <2>7. call' \in [Caller -> Call]
    <3>1. \/ call' = [call EXCEPT ![c] = [Idle EXCEPT !.pc = "working",
                                                      !.lease = new]]
          \/ call' = [call EXCEPT ![c] = Idle]
      BY <1>4 DEF Commit
    <3> HIDE DEF new
    <3> QED
      BY <2>6, <3>1, IdleType
  <2> QED
    BY <1>4, <2>4, <2>5, <2>7 DEF Commit
<1>5. ASSUME NEW c \in Caller, Rollback(c) \/ Release(c) \/ Crash(c) PROVE TypeOK'
  BY <1>5, IdleType DEF Rollback, Release, Crash
<1>6. CASE Tick
  BY <1>6, Numbers DEF Tick
<1>7. CASE UNCHANGED vars
  BY <1>7 DEF vars
<1> QED
  BY <1>1, <1>2, <1>3, <1>4, <1>5, <1>6, <1>7 DEF Next


\* Every variable keeps its type.
THEOREM TypeCorrect == Spec => []TypeOK
BY InitType, StepType, PTL DEF Spec

-----------------------------------------------------------------------------
(* The inductive invariant, one lemma for each of its parts *)

\* What the steps of the other calls leave of a call.
LEMMA OtherCalls ==
    ASSUME TypeOK, NEW c \in Caller, NEW e \in Caller, c # e,
           \/ Acquire(c) \/ Count(c) \/ Check(c) \/ Commit(c)
           \/ Rollback(c) \/ Release(c) \/ Crash(c)
    PROVE  call'[e] = call[e]
BY Zenon DEF TypeOK, Acquire, Count, Check, Commit, Rollback, Release, Crash

LEMMA LockStep == TypeOK /\ LockInv /\ [Next]_vars => LockInv'
<1> SUFFICES ASSUME TypeOK, LockInv, [Next]_vars,
                    NEW e \in Caller, call'[e].pc \in InTransaction
             PROVE  lock' = e
  BY DEF LockInv
<1>1. ASSUME NEW c \in Caller, Acquire(c) PROVE lock' = e
  BY <1>1, BudgetAssumption, OtherCalls DEF LockInv, InTransaction, Acquire, LockFree, TypeOK
<1>2. ASSUME NEW c \in Caller, Count(c) PROVE lock' = e
  BY <1>2 DEF LockInv, InTransaction, Count, TypeOK, Call
<1>3. ASSUME NEW c \in Caller, Check(c) PROVE lock' = e
  BY <1>3 DEF LockInv, InTransaction, Check, TypeOK, Call
<1>4. ASSUME NEW c \in Caller, Commit(c) PROVE lock' = e
  <2>1. call'[c].pc \in {"working", "idle"}
    <3> DEFINE new == [id |-> lastId + 1, owner |-> call[c].owner,
                       expires |-> now + LeaseLength]
    <3>1. call'[c] \in {[Idle EXCEPT !.pc = "working", !.lease = new], Idle}
      BY <1>4 DEF Commit, TypeOK
    <3> HIDE DEF new
    <3>2. /\ Idle.pc = "idle"
          /\ [Idle EXCEPT !.pc = "working", !.lease = new].pc = "working"
      BY DEF Idle
    <3> QED
      BY <3>1, <3>2
  <2>2. lock = c
    BY <1>4 DEF Commit, LockInv, InTransaction
  <2> QED
    BY <1>4, <2>1, <2>2, OtherCalls DEF LockInv, InTransaction
<1>5. ASSUME NEW c \in Caller, Rollback(c) PROVE lock' = e
  BY <1>5 DEF LockInv, InTransaction, Rollback, TypeOK, Idle
<1>6. ASSUME NEW c \in Caller, Release(c) PROVE lock' = e
  BY <1>6 DEF LockInv, InTransaction, Release, TypeOK, Idle
<1>7. ASSUME NEW c \in Caller, Crash(c) PROVE lock' = e
  BY <1>7 DEF LockInv, InTransaction, Crash, TypeOK, Idle
<1>8. CASE Tick \/ UNCHANGED vars
  BY <1>8 DEF LockInv, InTransaction, Tick, vars
<1> QED
  BY <1>1, <1>2, <1>3, <1>4, <1>5, <1>6, <1>7, <1>8 DEF Next

\* Fewer leases leave as much room, and so do later ones.
LEMMA RoomGrows ==
    ASSUME NEW L, NEW M, IsFiniteSet(L), M \subseteq L, NEW o, HasRoom(L, o)
    PROVE  HasRoom(M, o)
<1>1. /\ IsFiniteSet(OwnedBy(L, o)) /\ OwnedBy(M, o) \subseteq OwnedBy(L, o)
      /\ IsFiniteSet(M) /\ IsFiniteSet(OwnedBy(M, o))
  BY FS_Subset DEF OwnedBy
<1>2. /\ Cardinality(M) <= Cardinality(L)
      /\ Cardinality(OwnedBy(M, o)) <= Cardinality(OwnedBy(L, o))
      /\ Cardinality(M) \in Nat /\ Cardinality(L) \in Nat
      /\ Cardinality(OwnedBy(M, o)) \in Nat /\ Cardinality(OwnedBy(L, o)) \in Nat
  BY <1>1, FS_Subset, FS_CardinalityType
<1>3. GlobalConcurrent \in Nat /\ Concurrent \in Nat
  BY Numbers
<1> QED
  BY <1>2, <1>3 DEF HasRoom

LEMMA LiveShrinks ==
    ASSUME NEW L \in SUBSET Lease, NEW M \in SUBSET L,
           NEW t \in Nat, NEW u \in Nat, t <= u
    PROVE  Live(M, u) \subseteq Live(L, t)
<1>1. \A l \in L : l.expires \in Nat
  BY DEF Lease
<1> QED
  BY <1>1 DEF Live

\* A call that is past its count, whose lease rows only went, keeps its room.
LEMMA RoomKept ==
    ASSUME TypeOK, RoomInv, IdInv, NEW e \in Caller,
           call'[e].pc \in {"counted", "checked"},
           call[e].pc \in {"counted", "checked"},
           call'[e].since = call[e].since, call'[e].owner = call[e].owner,
           leases' \subseteq leases, now' \in Nat, now' >= now
    PROVE  /\ call'[e].since <= now'
           /\ HasRoom(Live(leases', call'[e].since), call'[e].owner)
<1>1. call[e].since \in Nat /\ now \in Nat /\ leases \in SUBSET Lease
  BY Numbers DEF TypeOK, Call
<1>2. Live(leases', call[e].since) \subseteq Live(leases, call[e].since)
  BY <1>1, LiveShrinks
<1>3. IsFiniteSet(Live(leases, call[e].since))
  BY FS_Subset DEF Live, IdInv
<1> QED
  BY <1>1, <1>2, <1>3, RoomGrows DEF RoomInv

LEMMA RoomStep ==
    TypeOK /\ LockInv /\ RoomInv /\ IdInv /\ [Next]_vars => RoomInv'
<1> SUFFICES ASSUME TypeOK, LockInv, RoomInv, IdInv, [Next]_vars,
                    NEW e \in Caller, call'[e].pc \in {"counted", "checked"}
             PROVE  /\ call'[e].since <= now'
                    /\ HasRoom(Live(leases', call'[e].since), call'[e].owner)
  BY DEF RoomInv
<1> DEFINE Goal == /\ call'[e].since <= now'
                   /\ HasRoom(Live(leases', call'[e].since), call'[e].owner)
<1>0. now \in Nat
  BY Numbers DEF TypeOK
<1>1. ASSUME NEW c \in Caller, Acquire(c) PROVE Goal
  <2>1. e # c
    BY <1>1 DEF Acquire, TypeOK, Idle
  <2>2. call'[e] = call[e]
    BY <1>1, <2>1, OtherCalls
  <2> QED
    BY <1>0, <1>1, <2>2, RoomKept DEF Acquire
<1>2. ASSUME NEW c \in Caller, Count(c) PROVE Goal
  <2>1. CASE e = c
    BY <1>0, <1>2, <2>1 DEF Count, TypeOK, Call
  <2>2. CASE e # c
    <3>1. call'[e] = call[e]
      BY <1>2, <2>2, OtherCalls
    <3> QED
      BY <1>0, <1>2, <3>1, RoomKept DEF Count
  <2> QED
    BY <2>1, <2>2
<1>3. ASSUME NEW c \in Caller, Check(c) PROVE Goal
  <2>1. CASE e = c
    <3>1. call'[e] = [call[e] EXCEPT !.pc = "checked", !.day = today]
      BY <1>3, <2>1 DEF Check, TypeOK
    <3>2. call'[e].since = call[e].since /\ call'[e].owner = call[e].owner
      BY <3>1 DEF TypeOK, Call
    <3> QED
      BY <1>0, <1>3, <2>1, <3>2, RoomKept DEF Check
  <2>2. CASE e # c
    <3>1. call'[e] = call[e]
      BY <1>3, <2>2, OtherCalls
    <3> QED
      BY <1>0, <1>3, <3>1, RoomKept DEF Check
  <2> QED
    BY <2>1, <2>2
<1>4. ASSUME NEW c \in Caller, Commit(c) PROVE Goal
  <2>1. lock' = NoCaller
    BY <1>4 DEF Commit
  <2>2. lock' = e
    BY LockStep DEF LockInv, InTransaction
  <2> QED
    BY <2>1, <2>2, BudgetAssumption
<1>5. ASSUME NEW c \in Caller, Rollback(c) \/ Release(c) \/ Crash(c) PROVE Goal
  <2>1. e # c
    BY <1>5 DEF Rollback, Release, Crash, TypeOK, Idle
  <2> QED
    BY <1>0, <1>5, <2>1, OtherCalls, RoomKept DEF Rollback, Release, Crash
<1>6. CASE Tick
  BY <1>0, <1>6, RoomKept DEF Tick
<1>7. CASE UNCHANGED vars
  BY <1>0, <1>7, RoomKept DEF vars
<1> QED
  BY <1>1, <1>2, <1>3, <1>4, <1>5, <1>6, <1>7 DEF Next

LEMMA CoversStep ==
    TypeOK /\ LockInv /\ CoversInv /\ [Next]_vars => CoversInv'
<1> SUFFICES ASSUME TypeOK, LockInv, CoversInv, [Next]_vars,
                    NEW e \in Caller, call'[e].pc = "checked"
             PROVE  /\ call'[e].day <= today'
                    /\ Covers(call[e].owner, call[e].cost, call[e].day)'
  BY DEF CoversInv
<1> DEFINE Goal == /\ call'[e].day <= today'
                   /\ Covers(call[e].owner, call[e].cost, call[e].day)'
<1>0. /\ today \in Int /\ today' \in Int
      /\ call[e].day \in Int /\ call'[e].day \in Int
  <2>1. MaxDay \in Nat /\ TypeOK'
    BY StepType, Numbers
  <2>2. call[e] \in Call /\ call'[e] \in Call
    BY <2>1 DEF TypeOK
  <2> QED
    BY <2>1, <2>2 DEF TypeOK, Call, Days
<1>1. ASSUME call'[e] = call[e], used' = used, today' >= today PROVE Goal
  BY <1>0, <1>1 DEF CoversInv, Covers
<1>2. ASSUME NEW c \in Caller, Check(c) PROVE Goal
  <2>1. CASE e = c
    <3>1. call'[e] = [call[e] EXCEPT !.pc = "checked", !.day = today]
      BY <1>2, <2>1 DEF Check, TypeOK
    <3>2. /\ call'[e].owner = call[e].owner /\ call'[e].cost = call[e].cost
          /\ call'[e].day = today
      BY <3>1 DEF TypeOK, Call
    <3> QED
      BY <1>0, <1>2, <2>1, <3>2 DEF Check, Covers
  <2>2. CASE e # c
    <3>1. call'[e] = call[e]
      BY <1>2, <2>2, OtherCalls
    <3> QED
      BY <1>0, <1>1, <1>2, <3>1 DEF Check
  <2> QED
    BY <2>1, <2>2
<1>3. ASSUME NEW c \in Caller, Commit(c) PROVE Goal
  <2>1. lock' = NoCaller
    BY <1>3 DEF Commit
  <2>2. lock' = e
    BY LockStep DEF LockInv, InTransaction
  <2> QED
    BY <2>1, <2>2, BudgetAssumption
<1>4. ASSUME NEW c \in Caller,
             Acquire(c) \/ Count(c) \/ Rollback(c) \/ Release(c) \/ Crash(c)
      PROVE  Goal
  <2>1. e # c
    <3>1. CASE Acquire(c)
      BY <3>1 DEF Acquire, TypeOK, Idle
    <3>2. CASE Count(c)
      BY <3>2 DEF Count, TypeOK, Call
    <3>3. CASE Rollback(c) \/ Release(c) \/ Crash(c)
      BY <3>3 DEF Rollback, Release, Crash, TypeOK, Idle
    <3> QED
      BY <1>4, <3>1, <3>2, <3>3
  <2>2. used' = used /\ today' = today
    BY <1>4 DEF Acquire, Count, Rollback, Release, Crash
  <2> QED
    BY <1>0, <1>1, <1>4, <2>1, <2>2, OtherCalls
<1>5. CASE Tick
  BY <1>0, <1>1, <1>5 DEF Tick
<1>6. CASE UNCHANGED vars
  BY <1>0, <1>1, <1>6 DEF vars
<1> QED
  BY <1>2, <1>3, <1>4, <1>5, <1>6 DEF Next

\* The row and the lease that a committing call adds.
NewLeaseOf(c) == [id |-> lastId + 1, owner |-> call[c].owner,
                  expires |-> now + LeaseLength]

LEMMA CommitFacts ==
    ASSUME TypeOK, IdInv, NEW c \in Caller, Commit(c)
    PROVE  /\ NewLeaseOf(c) \in Lease
           /\ NewLeaseOf(c).id = lastId + 1
           /\ NewLeaseOf(c).owner = call[c].owner
           /\ NewLeaseOf(c).expires = now + LeaseLength
           /\ leases' = Live(leases, call[c].since) \cup {NewLeaseOf(c)}
           /\ NewLeaseOf(c) \notin leases
           /\ lastId' = lastId + 1 /\ lastId \in Nat
           /\ now' = now /\ today' = today
           /\ \/ call'[c].pc = "idle"
              \/ call'[c].pc = "working" /\ call'[c].lease = NewLeaseOf(c)
<1>1. NewLeaseOf(c) \in Lease
  BY NewLease DEF NewLeaseOf
<1>2. /\ NewLeaseOf(c).id = lastId + 1
      /\ NewLeaseOf(c).owner = call[c].owner
      /\ NewLeaseOf(c).expires = now + LeaseLength
  BY DEF NewLeaseOf
<1>3. /\ leases' = Live(leases, call[c].since) \cup {NewLeaseOf(c)}
      /\ lastId' = lastId + 1 /\ lastId \in Nat
      /\ now' = now /\ today' = today
  BY DEF Commit, NewLeaseOf, TypeOK
<1>4. NewLeaseOf(c) \notin leases
  BY <1>2, <1>3 DEF IdInv
<1>5. call'[c] \in {[Idle EXCEPT !.pc = "working", !.lease = NewLeaseOf(c)], Idle}
  BY DEF Commit, TypeOK, NewLeaseOf
<1>6. /\ Idle.pc = "idle"
      /\ [Idle EXCEPT !.pc = "working", !.lease = NewLeaseOf(c)].pc = "working"
      /\ [Idle EXCEPT !.pc = "working", !.lease = NewLeaseOf(c)].lease = NewLeaseOf(c)
  BY DEF Idle
<1> HIDE DEF NewLeaseOf
<1> QED
  BY <1>1, <1>2, <1>3, <1>4, <1>5, <1>6

\* Steps that neither lease nor start anything.
LEMMA OtherSteps ==
    ASSUME TypeOK,
           \/ \E c \in Caller : \/ Acquire(c) \/ Count(c) \/ Check(c)
                                \/ Rollback(c) \/ Release(c) \/ Crash(c)
           \/ Tick \/ UNCHANGED vars
    PROVE  /\ leases' \subseteq leases /\ lastId' = lastId
           /\ used' = used
           /\ now' \in Nat /\ now \in Nat /\ now' >= now
           /\ \A e \in Caller : call'[e].pc = "working" =>
                 call[e].pc = "working" /\ call'[e].lease = call[e].lease
<1>1. now \in Nat
  BY Numbers DEF TypeOK
<1>2. ASSUME NEW c \in Caller, Acquire(c)
      PROVE  \A e \in Caller : call'[e].pc = "working" => call'[e] = call[e]
  BY <1>2 DEF Acquire, TypeOK, Idle
<1>3. ASSUME NEW c \in Caller, Count(c) \/ Check(c)
      PROVE  \A e \in Caller : call'[e].pc = "working" => call'[e] = call[e]
  BY <1>3 DEF Count, Check, TypeOK, Call
<1>4. ASSUME NEW c \in Caller, Rollback(c) \/ Release(c) \/ Crash(c)
      PROVE  \A e \in Caller : call'[e].pc = "working" => call'[e] = call[e]
  BY <1>4 DEF Rollback, Release, Crash, TypeOK, Idle
<1>5. CASE \E c \in Caller : \/ Acquire(c) \/ Count(c) \/ Check(c)
                             \/ Rollback(c) \/ Release(c) \/ Crash(c)
  <2>1. /\ leases' \subseteq leases /\ lastId' = lastId
        /\ used' = used /\ now' = now
    BY <1>5 DEF Acquire, Count, Check, Rollback, Release, Crash
  <2>2. \A e \in Caller : call'[e].pc = "working" => call'[e] = call[e]
    BY <1>2, <1>3, <1>4, <1>5
  <2> QED
    BY <1>1, <2>1, <2>2
<1>6. CASE Tick \/ UNCHANGED vars
  BY <1>1, <1>6 DEF Tick, vars
<1> QED
  BY <1>5, <1>6

LEMMA IdStep == TypeOK /\ IdInv /\ [Next]_vars => IdInv'
<1> SUFFICES ASSUME TypeOK, IdInv, [Next]_vars PROVE IdInv'
  OBVIOUS
<1>1. ASSUME leases' \subseteq leases, lastId' = lastId,
             \A e \in Caller : call'[e].pc = "working" =>
                 call[e].pc = "working" /\ call'[e].lease = call[e].lease
      PROVE  IdInv'
  <2>1. IsFiniteSet(leases')
    BY <1>1, FS_Subset DEF IdInv
  <2> QED
    BY <1>1, <2>1 DEF IdInv
<1>2. ASSUME NEW c \in Caller, Commit(c) PROVE IdInv'
  <2> DEFINE new == NewLeaseOf(c)
  <2>1. /\ new.id = lastId + 1 /\ lastId' = lastId + 1 /\ lastId \in Nat
        /\ leases' = Live(leases, call[c].since) \cup {new}
        /\ \/ call'[c].pc = "idle"
           \/ call'[c].pc = "working" /\ call'[c].lease = new
    BY <1>2, CommitFacts
  <2> HIDE DEF new
  <2>2. \A e \in Caller \ {c} : call'[e] = call[e]
    BY <1>2, OtherCalls
  <2>3. IsFiniteSet(leases')
    <3>1. IsFiniteSet(Live(leases, call[c].since))
      BY FS_Subset DEF Live, IdInv
    <3> QED
      BY <2>1, <3>1, FS_AddElement
  <2>4. \A l \in leases : l.id \in Nat /\ l.id <= lastId
    BY DEF IdInv, TypeOK, Lease
  <2>5. \A e \in Caller : call[e].pc = "working" =>
           call[e].lease.id \in Nat /\ call[e].lease.id <= lastId
    BY DEF IdInv, TypeOK, Call, Lease
  <2>6. Live(leases, call[c].since) \subseteq leases
    BY DEF Live
  <2>7. \A l \in leases' : l.id <= lastId'
    BY <2>1, <2>4, <2>6
  <2>8. \A l, m \in leases' : l.id = m.id => l = m
    BY <2>1, <2>4, <2>6 DEF IdInv
  <2>9. \A e \in Caller : call'[e].pc = "working" => call'[e].lease.id <= lastId'
    BY <2>1, <2>2, <2>5
  <2>10. \A e, f \in Caller : call'[e].pc = "working" /\ call'[f].pc = "working"
            => (call'[e].lease.id = call'[f].lease.id => e = f)
    BY <2>1, <2>2, <2>5 DEF IdInv
  <2> QED
    BY <2>3, <2>7, <2>8, <2>9, <2>10 DEF IdInv
<1> QED
  BY <1>1, <1>2, OtherSteps DEF Next

LEMMA HeldStep ==
    TypeOK /\ LockInv /\ RoomInv /\ IdInv /\ LeaseHeld /\ [Next]_vars
        => LeaseHeld'
<1> SUFFICES ASSUME TypeOK, LockInv, RoomInv, IdInv, LeaseHeld, [Next]_vars,
                    NEW e \in Caller,
                    call'[e].pc = "working", call'[e].lease.expires > now'
             PROVE  call'[e].lease \in leases'
  BY DEF LeaseHeld
<1>1. ASSUME NEW c \in Caller, Commit(c) PROVE call'[e].lease \in leases'
  <2> DEFINE new == NewLeaseOf(c)
  <2>1. /\ leases' = Live(leases, call[c].since) \cup {new} /\ now' = now
        /\ \/ call'[c].pc = "idle"
           \/ call'[c].pc = "working" /\ call'[c].lease = new
    BY <1>1, CommitFacts
  <2> HIDE DEF new
  <2>2. CASE e = c
    BY <2>1, <2>2
  <2>3. CASE e # c
    <3>1. call'[e] = call[e]
      BY <1>1, <2>3, OtherCalls
    <3>2. call[e].lease \in leases /\ call[e].lease.expires > now
      BY <2>1, <3>1 DEF LeaseHeld
    <3>3. call[c].since <= now
      BY <1>1 DEF Commit, RoomInv
    <3>4. call[c].since \in Nat /\ now \in Nat /\ call[e].lease.expires \in Nat
      BY Numbers DEF TypeOK, Call, Lease
    <3> QED
      BY <2>1, <3>1, <3>2, <3>3, <3>4 DEF Live
  <2> QED
    BY <2>2, <2>3
<1>2. ASSUME NEW c \in Caller, Release(c) PROVE call'[e].lease \in leases'
  <2>1. e # c /\ now' = now
    BY <1>2 DEF Release, TypeOK, Idle
  <2>2. call'[e] = call[e]
    BY <1>2, <2>1, OtherCalls
  <2>3. call[e].lease \in leases /\ call[e].lease.id # call[c].lease.id
    BY <1>2, <2>1, <2>2 DEF LeaseHeld, IdInv, Release
  <2> QED
    BY <1>2, <2>2, <2>3 DEF Release
<1>3. ASSUME leases' = leases, now' >= now, now \in Nat, now' \in Nat,
             call[e].pc = "working", call'[e].lease = call[e].lease
      PROVE  call'[e].lease \in leases'
  <2>1. call[e].lease.expires \in Nat
    BY DEF TypeOK, Call, Lease
  <2> QED
    BY <1>3, <2>1 DEF LeaseHeld
<1>4. CASE \/ \E c \in Caller : \/ Acquire(c) \/ Count(c) \/ Check(c)
                                \/ Rollback(c) \/ Crash(c)
           \/ Tick \/ UNCHANGED vars
  <2>1. leases' = leases
    BY <1>4 DEF Acquire, Count, Check, Rollback, Crash, Tick, vars
  <2> QED
    BY <1>3, <1>4, <2>1, OtherSteps
<1> QED
  BY <1>1, <1>2, <1>4 DEF Next

LEMMA DailyStep ==
    TypeOK /\ CoversInv /\ GlobalDailyKept /\ UserDailyKept /\ [Next]_vars
        => GlobalDailyKept' /\ UserDailyKept'
<1> SUFFICES ASSUME TypeOK, CoversInv, GlobalDailyKept, UserDailyKept,
                    [Next]_vars
             PROVE  GlobalDailyKept' /\ UserDailyKept'
  OBVIOUS
<1>1. CASE used' = used
  BY <1>1 DEF GlobalDailyKept, UserDailyKept
<1>2. ASSUME NEW c \in Caller, Commit(c)
      PROVE  GlobalDailyKept' /\ UserDailyKept'
  <2> DEFINE o == call[c].owner
             cost == call[c].cost
             day == call[c].day
  <2>1. o \in Account /\ cost \in Nat /\ day \in Days
    BY Numbers DEF TypeOK, Call
  <2>2. used' = [a \in Account |-> IF a \in {Site, o}
                    THEN [used[a] EXCEPT ![day] = @ + cost] ELSE used[a]]
    BY <1>2 DEF Commit, Charged
  <2>3. \A a \in Account, d \in Days : used[a][d] \in Nat
    BY DEF TypeOK
  <2>4. \A a \in Account, d \in Days : used'[a][d] =
           IF a \in {Site, o} /\ d = day THEN used[a][d] + cost ELSE used[a][d]
    BY <2>1, <2>2 DEF TypeOK
  <2>5. /\ cost <= GlobalDaily - used[Site][day]
        /\ o # Site => cost <= DailyLimit(o) - used[o][day]
    BY <1>2 DEF Commit, CoversInv, Covers
  <2>6. Site \in Account /\ Site \notin Owner /\ \A u \in Owner : u \in Account
    BY BudgetAssumption DEF Account
  <2>7. GlobalDaily \in Nat /\ \A u \in Owner : DailyLimit(u) \in Nat
    BY Numbers
  <2> HIDE DEF o, cost, day
  <2>8. GlobalDailyKept'
    BY <2>1, <2>3, <2>4, <2>5, <2>6, <2>7 DEF GlobalDailyKept
  <2>9. ASSUME NEW u \in Owner, NEW d \in Days
        PROVE  used'[u][d] <= DailyLimit(u)
    BY <2>1, <2>3, <2>4, <2>5, <2>6, <2>7 DEF UserDailyKept
  <2> QED
    BY <2>8, <2>9 DEF UserDailyKept, DailyLimit
<1> QED
  BY <1>1, <1>2, OtherSteps DEF Next

LEMMA OneMore ==
    ASSUME NEW S, IsFiniteSet(S), NEW x
    PROVE  /\ Cardinality(S \cup {x}) \in Nat
           /\ Cardinality(S \cup {x}) <= Cardinality(S) + 1
<1>1. IsFiniteSet(S \cup {x})
  BY FS_AddElement
<1>2. Cardinality(S) \in Nat /\ Cardinality(S \cup {x}) \in Nat
  BY <1>1, FS_CardinalityType
<1>3. CASE x \in S
  <2>1. S \cup {x} = S
    BY <1>3
  <2>2. Cardinality(S \cup {x}) = Cardinality(S)
    BY <2>1
  <2> QED
    BY <1>2, <2>2
<1>4. CASE x \notin S
  <2>1. Cardinality(S \cup {x}) = Cardinality(S) + 1
    BY <1>4, FS_AddElement
  <2> QED
    BY <1>2, <2>1
<1> QED
  BY <1>3, <1>4

\* Unexpired leases are those Live at now.
LEMMA ConcurrencyStep ==
    TypeOK /\ RoomInv /\ IdInv /\ ConcurrencyKept /\ [Next]_vars
        => ConcurrencyKept'
<1> SUFFICES ASSUME TypeOK, RoomInv, IdInv, ConcurrencyKept, [Next]_vars
             PROVE  ConcurrencyKept'
  OBVIOUS
<1> DEFINE Kept(L) == /\ Cardinality(L) <= GlobalConcurrent
                      /\ \A o \in Owner : Cardinality(OwnedBy(L, o)) <= Concurrent
<1>1. /\ ConcurrencyKept <=> Kept(Live(leases, now))
      /\ ConcurrencyKept' <=> Kept(Live(leases', now'))
  BY DEF ConcurrencyKept, Live, OwnedBy
<1>2. ASSUME NEW L, NEW M \in SUBSET L, IsFiniteSet(L), Kept(L) PROVE Kept(M)
  <2>1. IsFiniteSet(M) /\ Cardinality(M) <= Cardinality(L)
    BY <1>2, FS_Subset
  <2>2. \A o \in Owner : /\ OwnedBy(M, o) \subseteq OwnedBy(L, o)
                         /\ IsFiniteSet(OwnedBy(L, o))
                         /\ IsFiniteSet(OwnedBy(M, o))
    BY <1>2, <2>1, FS_Subset DEF OwnedBy
  <2>3. \A o \in Owner :
           /\ Cardinality(OwnedBy(M, o)) <= Cardinality(OwnedBy(L, o))
           /\ Cardinality(OwnedBy(M, o)) \in Nat
           /\ Cardinality(OwnedBy(L, o)) \in Nat
    BY <2>2, FS_Subset, FS_CardinalityType
  <2>4. Cardinality(M) \in Nat /\ Cardinality(L) \in Nat
    BY <1>2, <2>1, FS_CardinalityType
  <2> QED
    BY <1>2, <2>1, <2>3, <2>4, Numbers
<1>3. IsFiniteSet(Live(leases, now)) /\ leases \in SUBSET Lease
  BY FS_Subset DEF IdInv, Live, TypeOK
<1>4. CASE leases' \subseteq leases /\ now \in Nat /\ now' \in Nat /\ now' >= now
  <2>1. Live(leases', now') \subseteq Live(leases, now)
    BY <1>3, <1>4, LiveShrinks
  <2> HIDE DEF Kept
  <2> QED
    BY <1>1, <1>2, <1>3, <2>1
<1>5. ASSUME NEW c \in Caller, Commit(c) PROVE ConcurrencyKept'
  <2> DEFINE new == NewLeaseOf(c)
             L == Live(leases, call[c].since)
             M == Live(leases, now)
             own == call[c].owner
  <2>1. /\ new.owner = own
        /\ leases' = L \cup {new} /\ now' = now
    BY <1>5, CommitFacts
  <2>2. call[c].since <= now /\ HasRoom(L, own)
    BY <1>5 DEF Commit, RoomInv
  <2>3. call[c].since \in Nat /\ now \in Nat
    BY Numbers DEF TypeOK, Call
  <2>4. M \subseteq L /\ IsFiniteSet(L) /\ L \subseteq leases
    BY <1>3, <2>2, <2>3, LiveShrinks, FS_Subset DEF IdInv, Live
  <2>5. HasRoom(M, own)
    <3> HIDE DEF L, M
    <3> QED
      BY <2>2, <2>4, RoomGrows
  <2>6. Live(leases', now') \subseteq M \cup {new}
    BY <2>1 DEF Live
  <2>7. IsFiniteSet(M) /\ IsFiniteSet(M \cup {new})
    BY <1>3, FS_AddElement
  <2> HIDE DEF L, M, new
  <2>8. Kept(M \cup {new})
    <3>1. Cardinality(M) < GlobalConcurrent /\ Cardinality(M) \in Nat
      BY <2>5, <2>7, FS_CardinalityType DEF HasRoom
    <3>2. Cardinality(M \cup {new}) <= GlobalConcurrent
      BY <2>7, <3>1, FS_AddElement, Numbers
    <3>3. ASSUME NEW o \in Owner
          PROVE  Cardinality(OwnedBy(M \cup {new}, o)) <= Concurrent
      <4>1. IsFiniteSet(OwnedBy(M, o)) /\ Cardinality(OwnedBy(M, o)) \in Nat
        BY <2>7, FS_Subset, FS_CardinalityType DEF OwnedBy
      <4>2. CASE o = own
        <5>1. OwnedBy(M \cup {new}, o) = OwnedBy(M, o) \cup {new}
          BY <2>1, <4>2 DEF OwnedBy
        <5>2. Cardinality(OwnedBy(M, o)) < Concurrent
          BY <2>5, <4>2, BudgetAssumption DEF HasRoom
        <5>3. /\ Cardinality(OwnedBy(M, o) \cup {new}) \in Nat
              /\ Cardinality(OwnedBy(M, o) \cup {new})
                   <= Cardinality(OwnedBy(M, o)) + 1
          BY <4>1, OneMore
        <5>4. Cardinality(OwnedBy(M, o) \cup {new}) <= Concurrent
          <6> DEFINE a == Cardinality(OwnedBy(M, o) \cup {new})
                     b == Cardinality(OwnedBy(M, o))
          <6>1. a \in Nat /\ b \in Nat /\ a <= b + 1 /\ b < Concurrent
            BY <4>1, <5>2, <5>3
          <6>2. Concurrent \in Nat
            BY Numbers
          <6> HIDE DEF a, b
          <6>3. a <= Concurrent
            BY <6>1, <6>2
          <6> QED
            BY <6>3 DEF a
        <5> QED
          BY <5>1, <5>4
      <4>3. CASE o # own
        <5>1. OwnedBy(M \cup {new}, o) = OwnedBy(M, o)
          BY <2>1, <4>3 DEF OwnedBy
        <5> QED
          BY <1>1, <5>1 DEF M
      <4> QED
        BY <4>2, <4>3
    <3> QED
      BY <3>2, <3>3
  <2> HIDE DEF Kept
  <2> QED
    BY <1>1, <1>2, <2>6, <2>7, <2>8
<1> QED
  BY <1>4, <1>5, OtherSteps DEF Next

LEMMA InitInv == Init => Inv
<1> SUFFICES ASSUME Init PROVE Inv
  OBVIOUS
<1>1. TypeOK
  BY InitType
<1>2. \A c \in Caller : call[c].pc = "idle"
  BY DEF Init, Idle
<1>3. IsFiniteSet({}) /\ Cardinality({}) = 0
  BY FS_EmptySet
<1>4. leases = {} /\ \A a \in Account, d \in Days : used[a][d] = 0
  BY DEF Init
<1>5. GlobalDailyKept /\ UserDailyKept
  BY <1>4, Numbers DEF GlobalDailyKept, UserDailyKept, Account
<1>6. ConcurrencyKept
  <2>1. /\ {l \in leases : l.expires > now} = {}
        /\ \A o : {l \in {m \in leases : m.expires > now} : l.owner = o} = {}
    BY <1>4
  <2>2. 0 <= GlobalConcurrent /\ 0 <= Concurrent
    BY Numbers
  <2>3. \A o : Cardinality({l \in {m \in leases : m.expires > now} : l.owner = o})
              <= Concurrent
    BY <1>3, <2>1, <2>2
  <2>4. Cardinality({l \in leases : l.expires > now}) <= GlobalConcurrent
    BY <1>3, <2>1, <2>2
  <2> QED
    BY <2>3, <2>4 DEF ConcurrencyKept
<1> QED
  BY <1>1, <1>2, <1>3, <1>4, <1>5, <1>6
     DEF Inv, LockInv, RoomInv, CoversInv, IdInv, LeaseHeld, InTransaction

LEMMA StepInv == Inv /\ [Next]_vars => Inv'
BY StepType, LockStep, RoomStep, CoversStep, IdStep, HeldStep, DailyStep,
   ConcurrencyStep DEF Inv

\* The inductive invariant holds, whatever statements, crashes and midnights
\* come between those of a call.
THEOREM Invariance == Spec => []Inv
BY InitInv, StepInv, PTL DEF Spec

\* No day is ever charged beyond the site's budget.
THEOREM GlobalDailyAlways == Spec => []GlobalDailyKept
<1>1. Inv => GlobalDailyKept
  BY DEF Inv
<1> QED
  BY <1>1, Invariance, PTL

\* No user is ever charged beyond that user's daily budget.
THEOREM UserDailyAlways == Spec => []UserDailyKept
<1>1. Inv => UserDailyKept
  BY DEF Inv
<1> QED
  BY <1>1, Invariance, PTL

\* The unexpired leases never exceed a concurrency limit.
THEOREM ConcurrencyAlways == Spec => []ConcurrencyKept
<1>1. Inv => ConcurrencyKept
  BY DEF Inv
<1> QED
  BY <1>1, Invariance, PTL

\* Every limit at once, whatever the calls are in the middle of.
THEOREM LimitsAlways == Spec => []LimitsKept
<1>1. GlobalDailyKept /\ UserDailyKept /\ ConcurrencyKept => LimitsKept
  BY DEF LimitsKept
<1> QED
  BY <1>1, GlobalDailyAlways, UserDailyAlways, ConcurrencyAlways, PTL

\* A working call keeps its lease until the lease expires.
THEOREM LeaseHeldAlways == Spec => []LeaseHeld
<1>1. Inv => LeaseHeld
  BY DEF Inv
<1> QED
  BY <1>1, Invariance, PTL

-----------------------------------------------------------------------------
(* Refinement *)

LEMMA SameCardinality == \A S : A!Cardinality(S) = Cardinality(S)
BY DEF A!Cardinality, Cardinality, A!IsFiniteSet, IsFiniteSet

\* Commit is the abstract admission; a release that finds its lease, and every
\* tick, are abstract steps; all other steps leave the abstract state alone.
LEMMA StepRefines == Inv /\ [Next]_vars => [A!Next]_A!vars
<1> SUFFICES ASSUME Inv, [Next]_vars PROVE [A!Next]_A!vars
  OBVIOUS
<1> USE DEF Inv
<1>1. CASE UNCHANGED <<now, today, used, leases>>
  BY <1>1 DEF A!vars
<1>2. ASSUME NEW c \in Caller, Commit(c) PROVE A!Next
  <2> DEFINE o == call[c].owner
             cost == call[c].cost
             day == call[c].day
             new == NewLeaseOf(c)
             L == Live(leases, call[c].since)
  <2>1. o \in Account /\ cost \in 1 .. MaxCost /\ cost \in Nat /\ day \in Days
    BY Numbers DEF TypeOK, Call
  <2>2. /\ new.id = lastId + 1 /\ new.owner = o
        /\ new.expires = now + LeaseLength
        /\ leases' = L \cup {new} /\ lastId \in Nat
        /\ now' = now /\ today' = today /\ new \notin leases
    BY <1>2, CommitFacts
  <2>3. /\ day <= today /\ Covers(o, cost, day)
        /\ call[c].since <= now /\ HasRoom(L, o)
    BY <1>2 DEF Commit, CoversInv, RoomInv
  <2>4. call[c].since \in Nat /\ now \in Nat
    BY Numbers DEF TypeOK, Call
  <2>5. /\ Live(leases, now) \subseteq L /\ L \subseteq leases
        /\ IsFiniteSet(L) /\ leases \in SUBSET Lease
    <3>1. leases \in SUBSET Lease
      BY DEF TypeOK
    <3>2. L \subseteq leases
      BY DEF Live
    <3>3. IsFiniteSet(L)
      BY <3>2, FS_Subset DEF IdInv
    <3>4. Live(leases, now) \subseteq L
      BY <2>3, <2>4, <3>1, LiveShrinks
    <3> QED
      BY <3>1, <3>2, <3>3, <3>4
  <2>6. HasRoom(Live(leases, now), o)
    <3> HIDE DEF L
    <3> QED
      BY <2>3, <2>5, RoomGrows
  <2>7. A!Unexpired = Live(leases, now)
    BY DEF A!Unexpired, Live
  <2>8. /\ Cardinality(A!Unexpired) < GlobalConcurrent
        /\ o # Site => Cardinality({l \in A!Unexpired : l.owner = o}) < Concurrent
    BY <2>6, <2>7 DEF HasRoom, OwnedBy
  <2>9. used[Site][day] \in Nat /\ used[o][day] \in Nat
    BY <2>1, BudgetAssumption DEF TypeOK, Account
  <2>10. used[Site][day] + cost <= GlobalDaily
    BY <2>1, <2>3, <2>9, Numbers DEF Covers
  <2>11. o # Site => o \in Owner /\ used[o][day] + cost <= DailyLimit(o)
    <3>1. o # Site => o \in Owner
      BY <2>1 DEF Account
    <3>2. o # Site => cost <= DailyLimit(o) - used[o][day]
      BY <2>3 DEF Covers
    <3> QED
      BY <2>1, <2>9, <3>1, <3>2, Numbers
  <2>12. used' = [a \in A!Account |-> IF a \in {Site, o}
                     THEN [used[a] EXCEPT ![day] = @ + cost] ELSE used[a]]
    BY <1>2 DEF Commit, Charged, A!Account, Account
  <2>13. \A l \in leases : l.id # new.id
    BY <2>2 DEF IdInv, TypeOK, Lease
  <2>14. leases \ L \in SUBSET (leases \ A!Unexpired)
    BY <2>5, <2>7
  <2>15. leases' = (leases \ (leases \ L)) \cup {new} /\ new \in leases'
    BY <2>2, <2>5
  <2> HIDE DEF o, cost, day, new, L
  <2>16. o # Site => used[o][day] + cost <= [u \in Owner |-> DailyLimit(u)][o]
    BY <2>11
  <2>17. A!Admit(o, cost, day)
    <3>1. \E n \in leases', gone \in SUBSET (leases \ A!Unexpired) :
             /\ n.owner = o /\ n.expires = now + LeaseLength
             /\ \A l \in leases : l.id # n.id
             /\ leases' = (leases \ gone) \cup {n}
      <4>1. /\ new.owner = o /\ new.expires = now + LeaseLength
            /\ \A l \in leases : l.id # new.id
            /\ leases' = (leases \ (leases \ L)) \cup {new}
        BY <2>2, <2>13, <2>15
      <4> QED
        BY <2>14, <2>15, <4>1, Zenon
    <3>2. UNCHANGED <<now, today>>
      BY <2>2
    <3>3. used' = [a \in A!Account |->
                     IF a \in {Site, o} THEN [used[a] EXCEPT ![day] = @ + cost]
                     ELSE used[a]]
      BY <2>12
    <3> QED
      BY <2>8, <2>10, <2>16, <3>1, <3>2, <3>3, SameCardinality, ZenonT(30)
         DEF A!Admit
  <2>18. o \in A!Account /\ day \in A!Days
    BY <2>1 DEF A!Account, Account, A!Days, Days
  <2> QED
    BY <2>1, <2>3, <2>17, <2>18 DEF A!Next
<1>3. ASSUME NEW c \in Caller, Release(c) PROVE [A!Next]_A!vars
  <2>1. UNCHANGED <<now, today, used>>
    BY <1>3 DEF Release
  <2>2. CASE leases' = leases
    BY <1>1, <2>1, <2>2
  <2>3. CASE /\ leases' = {l \in leases : l.id # call[c].lease.id}
             /\ leases' # leases
    <3>1. PICK m \in leases : m.id = call[c].lease.id
      BY <2>3
    <3>2. leases' = leases \ {m}
      BY <2>3, <3>1 DEF IdInv
    <3> QED
      BY <2>1, <3>2 DEF A!Next, A!Release
  <2> QED
    BY <1>3, <2>2, <2>3 DEF Release
<1>4. CASE Tick
  BY <1>4 DEF Tick, A!Next, A!Advance
<1>5. CASE \E c \in Caller : \/ Acquire(c) \/ Count(c) \/ Check(c)
                             \/ Rollback(c) \/ Crash(c)
  BY <1>1, <1>5 DEF Acquire, Count, Check, Rollback, Crash
<1> QED
  BY <1>1, <1>2, <1>3, <1>4, <1>5 DEF Next, vars

\* Acquire, in separate statements of one transaction under one lock, admits a
\* task as if it checked and charged everything in a single step.
THEOREM AtomicAdmission == Spec => Atomic
<1>1. Init => A!Init
  BY DEF Init, A!Init, A!Account, Account, A!Days, Days
<1> QED
  BY <1>1, StepRefines, Invariance, PTL DEF Spec, Atomic, A!Spec

-----------------------------------------------------------------------------
(* The sum over the users is defined, and grows by what one user is charged: *)
(* facts about every finite set of users, by a smallest counterexample.      *)

LEMMA LeastNumber ==
    ASSUME NEW T \in SUBSET Nat, T # {}
    PROVE  \E m \in T : \A k \in T : m <= k
<1>1. PICK m \in T : \A k \in T : <<k, m>> \notin OpToRel(<, Nat)
  BY NatLessThanWellFounded, WFMin
<1>2. \A k \in T : ~ (k < m)
  BY <1>1, Zenon DEF OpToRel
<1> QED
  BY <1>2

\* The user whose charges MapThenSumSet adds next.
Chosen(s) == CHOOSE x \in s : TRUE

LEMMA OneFewer ==
    ASSUME NEW S, IsFiniteSet(S), NEW s \in SUBSET S, s # {}
    PROVE  /\ Chosen(s) \in s /\ s \ {Chosen(s)} \in SUBSET S
           /\ Cardinality(s) \in Nat
           /\ Cardinality(s \ {Chosen(s)}) = Cardinality(s) - 1
<1>1. Chosen(s) \in s
  BY DEF Chosen
<1>2. IsFiniteSet(s)
  BY FS_Subset
<1> QED
  BY <1>1, <1>2, FS_RemoveElement, FS_CardinalityType

LEMMA SmallestSubset ==
    ASSUME NEW S, IsFiniteSet(S), NEW T \in SUBSET (SUBSET S), T # {}
    PROVE  \E s \in T : s # {} => s \ {Chosen(s)} \notin T
<1> DEFINE N == {Cardinality(s) : s \in T}
<1>1. N \in SUBSET Nat /\ N # {}
  BY FS_Subset, FS_CardinalityType
<1>2. PICK n \in N : \A k \in N : n <= k
  BY <1>1, LeastNumber
<1>3. PICK s \in T : Cardinality(s) = n
  BY <1>2
<1>4. ASSUME s # {}, s \ {Chosen(s)} \in T PROVE FALSE
  <2>1. Cardinality(s) \in Nat /\ Cardinality(s \ {Chosen(s)}) = Cardinality(s) - 1
    BY <1>4, OneFewer
  <2> QED
    BY <1>2, <1>3, <1>4, <2>1
<1> QED
  BY <1>4

\* One step of the sum of the charges w of day d, given the sums g of fewer.
Add(w, d, g, s) ==
    IF s = {} THEN 0 ELSE w[Chosen(s)][d] + g[s \ {Chosen(s)}]

SumOf(w, d, S) == MapThenSumSet(LAMBDA o : w[o][d], S)
Summing(w, d, S) == CHOOSE g : g = [s \in SUBSET S |-> Add(w, d, g, s)]

LEMMA SumUnfolds ==
    ASSUME NEW w, NEW d, NEW S
    PROVE  SumOf(w, d, S) = Summing(w, d, S)[S]
BY DEF SumOf, Summing, Add, Chosen, MapThenSumSet, MapThenFoldSet

\* The sums of all sets of at most n users.
UpTo(S, n) == {s \in SUBSET S : Cardinality(s) <= n}
Sums(w, d, S, n) ==
    {g \in [UpTo(S, n) -> Nat] : \A s \in UpTo(S, n) : g[s] = Add(w, d, g, s)}

LEMMA SumsExist ==
    ASSUME NEW S, IsFiniteSet(S), NEW w, NEW d, \A o \in S : w[o][d] \in Nat
    PROVE  \A n \in Nat : Sums(w, d, S, n) # {}
<1> SUFFICES ASSUME NEW o \in Nat, Sums(w, d, S, o) = {} PROVE FALSE
  OBVIOUS
<1> DEFINE T == {n \in Nat : Sums(w, d, S, n) = {}}
<1>1. PICK n \in T : \A k \in T : n <= k
  <2>1. T \in SUBSET Nat /\ T # {}
    OBVIOUS
  <2> QED
    BY <2>1, LeastNumber
<1>2. CASE n = 0
  <2> DEFINE g == [s \in UpTo(S, 0) |-> 0]
  <2>1. ASSUME NEW s \in UpTo(S, 0) PROVE s = {}
    <3>1. IsFiniteSet(s) /\ Cardinality(s) <= 0
      BY FS_Subset DEF UpTo
    <3> QED
      BY <3>1, FS_EmptySet, FS_CardinalityType
  <2>2. g \in Sums(w, d, S, 0)
    BY <2>1 DEF Sums, Add
  <2> QED
    BY <1>1, <1>2, <2>2
<1>3. CASE n # 0
  <2>1. n - 1 \in Nat /\ n - 1 \notin T
    BY <1>1, <1>3
  <2>2. PICK h : h \in Sums(w, d, S, n - 1)
    BY <2>1
  <2> DEFINE g == [s \in UpTo(S, n) |-> Add(w, d, h, s)]
  <2>3. ASSUME NEW s \in UpTo(S, n), s # {}
        PROVE  Chosen(s) \in S /\ s \ {Chosen(s)} \in UpTo(S, n - 1)
    BY <2>3, OneFewer DEF UpTo
  <2>4. \A s \in UpTo(S, n - 1) : s \in UpTo(S, n) /\ h[s] = Add(w, d, h, s)
    <3>1. \A s \in UpTo(S, n - 1) : h[s] = Add(w, d, h, s)
      BY <2>2 DEF Sums
    <3>2. ASSUME NEW s \in UpTo(S, n - 1) PROVE s \in UpTo(S, n)
      <4>1. Cardinality(s) \in Nat
        BY FS_Subset, FS_CardinalityType DEF UpTo
      <4> QED
        BY <2>1, <4>1 DEF UpTo
    <3> QED
      BY <3>1, <3>2
  <2>5. \A s \in UpTo(S, n) : g[s] \in Nat
    <3>1. h \in [UpTo(S, n - 1) -> Nat]
      BY <2>2 DEF Sums
    <3> QED
      BY <2>3, <3>1 DEF Add
  <2>6. \A s \in UpTo(S, n) : g[s] = Add(w, d, g, s)
    BY <2>3, <2>4 DEF Add
  <2>7. g \in Sums(w, d, S, n)
    BY <2>5, <2>6 DEF Sums
  <2> QED
    BY <1>1, <2>7
<1> QED
  BY <1>2, <1>3

\* The sums of the users' charges are numbers and add up as defined.
LEMMA SumDefined ==
    ASSUME NEW S, IsFiniteSet(S), NEW w, NEW d, \A o \in S : w[o][d] \in Nat
    PROVE  /\ Summing(w, d, S)[{}] = 0
           /\ \A s \in SUBSET S :
                 /\ Summing(w, d, S)[s] \in Nat
                 /\ s # {} => Summing(w, d, S)[s] =
                      w[Chosen(s)][d] + Summing(w, d, S)[s \ {Chosen(s)}]
<1> DEFINE f == Summing(w, d, S)
<1>1. PICK g : g \in Sums(w, d, S, Cardinality(S))
  BY SumsExist, FS_CardinalityType
<1>2. UpTo(S, Cardinality(S)) = SUBSET S
  BY FS_Subset DEF UpTo
<1>3. g \in [SUBSET S -> Nat] /\ \A s \in SUBSET S : g[s] = Add(w, d, g, s)
  BY <1>1, <1>2 DEF Sums
<1>4. g = [s \in SUBSET S |-> Add(w, d, g, s)]
  BY <1>3
<1>5. f = [s \in SUBSET S |-> Add(w, d, f, s)]
  BY <1>4 DEF Summing
<1>6. /\ f[{}] = 0
      /\ \A s \in SUBSET S :
            s # {} => f[s] = w[Chosen(s)][d] + f[s \ {Chosen(s)}]
  <2> HIDE DEF f
  <2>1. \A s \in SUBSET S : f[s] = Add(w, d, f, s)
    BY <1>5
  <2>2. {} \in SUBSET S
    OBVIOUS
  <2> QED
    BY <2>1, <2>2, Zenon DEF Add
<1>7. ASSUME NEW r \in SUBSET S, f[r] \notin Nat PROVE FALSE
  <2> DEFINE T == {s \in SUBSET S : f[s] \notin Nat}
  <2> HIDE DEF f
  <2>1. PICK s \in T : s # {} => s \ {Chosen(s)} \notin T
    <3>1. T \in SUBSET (SUBSET S) /\ T # {}
      BY <1>7
    <3> QED
      BY <3>1, SmallestSubset
  <2>2. s # {}
    <3>1. f[s] \notin Nat
      OBVIOUS
    <3>2. f[{}] \in Nat
      BY <1>6
    <3> QED
      BY <3>1, <3>2, Zenon
  <2>3. Chosen(s) \in S /\ f[s \ {Chosen(s)}] \in Nat
    BY <2>1, <2>2, OneFewer
  <2>4. w[Chosen(s)][d] \in Nat /\ f[s] = w[Chosen(s)][d] + f[s \ {Chosen(s)}]
    BY <1>6, <2>2, <2>3
  <2>5. f[s] \in Nat
    BY <2>3, <2>4
  <2> QED
    BY <2>5
<1> QED
  BY <1>6, <1>7

\* A charge k to user o adds k to every sum that o is in.
LEMMA SumGrows ==
    ASSUME NEW S, IsFiniteSet(S), NEW w, NEW v, NEW d, NEW o, NEW k \in Nat,
           \A a \in S : w[a][d] \in Nat,
           \A a \in S : v[a][d] = w[a][d] + IF a = o THEN k ELSE 0
    PROVE  SumOf(v, d, S) = SumOf(w, d, S) + IF o \in S THEN k ELSE 0
<1> DEFINE f == Summing(w, d, S)
           h == Summing(v, d, S)
           T == {s \in SUBSET S : h[s] # f[s] + IF o \in s THEN k ELSE 0}
<1>1. f[{}] = 0 /\ \A s \in SUBSET S :
         f[s] \in Nat /\ (s # {} => f[s] = w[Chosen(s)][d] + f[s \ {Chosen(s)}])
  <2>1. \A a \in S : w[a][d] \in Nat
    OBVIOUS
  <2> QED
    BY <2>1, SumDefined, SMTT(30)
<1>2. h[{}] = 0 /\ \A s \in SUBSET S :
         h[s] \in Nat /\ (s # {} => h[s] = v[Chosen(s)][d] + h[s \ {Chosen(s)}])
  <2>1. \A a \in S : v[a][d] \in Nat
    OBVIOUS
  <2> QED
    BY <2>1, SumDefined
<1> HIDE DEF f, h
<1>3. ASSUME T # {} PROVE FALSE
  <2>1. PICK s \in T : s # {} => s \ {Chosen(s)} \notin T
    <3>1. T \in SUBSET (SUBSET S)
      OBVIOUS
    <3> QED
      BY <1>3, <3>1, SmallestSubset
  <2>2. s # {}
    <3>1. h[s] # f[s] + IF o \in s THEN k ELSE 0
      OBVIOUS
    <3>2. ASSUME s = {} PROVE h[s] = 0 /\ f[s] = 0
      BY <1>1, <1>2, <3>2
    <3> QED
      BY <3>1, <3>2
  <2> DEFINE c == Chosen(s)
             r == s \ {c}
  <2>3. c \in s /\ r \in SUBSET S /\ h[r] = f[r] + IF o \in r THEN k ELSE 0
    BY <2>1, <2>2, OneFewer
  <2>4. h[s] = v[c][d] + h[r] /\ f[s] = w[c][d] + f[r]
    BY <1>1, <1>2, <2>2
  <2>5. v[c][d] = w[c][d] + IF c = o THEN k ELSE 0
    BY <2>3
  <2>6. w[c][d] \in Nat /\ f[r] \in Nat
    BY <1>1, <2>3
  <2> QED
    BY <2>3, <2>4, <2>5, <2>6
<1>4. h[S] = f[S] + IF o \in S THEN k ELSE 0
  BY <1>3
<1> QED
  BY <1>4, SumUnfolds DEF f, h

LEMMA SumType ==
    ASSUME NEW S, IsFiniteSet(S), NEW w, NEW d, \A o \in S : w[o][d] \in Nat
    PROVE  SumOf(w, d, S) \in Nat
BY SumUnfolds, SumDefined

-----------------------------------------------------------------------------
(* The ledger *)

LEMMA LedgerUnfolds ==
    /\ Ledger <=> \A d \in Days : SumOf(used, d, Owner) <= used[Site][d]
    /\ Ledger' <=> \A d \in Days : SumOf(used', d, Owner) <= used'[Site][d]
<1>1. Ledger <=> \A d \in Days : SumOf(used, d, Owner) <= used[Site][d]
  BY DEF Ledger, SumOf
<1>2. Ledger' <=> (\A d \in Days : SumOf(used, d, Owner) <= used[Site][d])'
  BY <1>1, PTL
<1>3. (\A d \in Days : SumOf(used, d, Owner) <= used[Site][d])' <=>
      \A d \in Days : SumOf(used', d, Owner) <= used'[Site][d]
  BY DEF Days
<1> QED
  BY <1>1, <1>2, <1>3

LEMMA InitLedger == Init => Ledger
<1> SUFFICES ASSUME Init, NEW d \in Days PROVE SumOf(used, d, Owner) <= used[Site][d]
  BY LedgerUnfolds
<1> DEFINE f == Summing(used, d, Owner)
           T == {s \in SUBSET Owner : f[s] # 0}
<1>1. IsFiniteSet(Owner) /\ \A o \in Account : used[o][d] = 0
  BY BudgetAssumption DEF Init
<1>2. f[{}] = 0 /\ \A s \in SUBSET Owner : s # {} =>
         f[s] = used[Chosen(s)][d] + f[s \ {Chosen(s)}]
  BY <1>1, SumDefined DEF Account
<1> HIDE DEF f
<1>3. ASSUME T # {} PROVE FALSE
  <2>1. PICK s \in T : s # {} => s \ {Chosen(s)} \notin T
    <3>1. T \in SUBSET (SUBSET Owner)
      OBVIOUS
    <3> QED
      BY <1>1, <1>3, <3>1, SmallestSubset
  <2>2. s # {}
    BY <1>2
  <2>3. Chosen(s) \in Owner /\ f[s \ {Chosen(s)}] = 0
    BY <1>1, <2>1, <2>2, OneFewer
  <2>4. f[s] = used[Chosen(s)][d] + f[s \ {Chosen(s)}] /\ f[s] # 0
    BY <1>2, <2>2
  <2>5. used[Chosen(s)][d] = 0
    BY <1>1, <2>3 DEF Account
  <2> QED
    BY <2>3, <2>4, <2>5
<1>4. SumOf(used, d, Owner) = 0
  BY <1>3, SumUnfolds DEF f
<1> QED
  BY <1>1, <1>4 DEF Account

LEMMA StepLedger == TypeOK /\ Ledger /\ [Next]_vars => Ledger'
<1> SUFFICES ASSUME TypeOK, Ledger, [Next]_vars, NEW d \in Days
             PROVE  SumOf(used', d, Owner) <= used'[Site][d]
  BY LedgerUnfolds DEF Days
<1>1. SumOf(used, d, Owner) <= used[Site][d]
  BY LedgerUnfolds
<1>2. \A o \in Account : used[o][d] \in Nat
  BY DEF TypeOK
<1>3. SumOf(used, d, Owner) \in Nat
  BY <1>2, SumType, BudgetAssumption DEF Account
<1>4. CASE UNCHANGED used
  BY <1>1, <1>4
<1>5. ASSUME NEW c \in Caller, Commit(c)
      PROVE  SumOf(used', d, Owner) <= used'[Site][d]
  <2> DEFINE o == call[c].owner
             k == IF call[c].day = d THEN call[c].cost ELSE 0
  <2>1. o \in Account /\ k \in Nat /\ call[c].day \in Days
    BY Numbers DEF TypeOK, Call
  <2>2. \A a \in Account :
           used'[a][d] = used[a][d] + IF a \in Charged(o) THEN k ELSE 0
    <3> SUFFICES ASSUME NEW a \in Account
                 PROVE  used'[a][d] = used[a][d] + IF a \in Charged(o) THEN k ELSE 0
      OBVIOUS
    <3>1. used'[a] = IF a \in Charged(o)
                     THEN [used[a] EXCEPT ![call[c].day] = @ + call[c].cost]
                     ELSE used[a]
      BY <1>5 DEF Commit
    <3>2. used[a] \in [Days -> Nat]
      BY DEF TypeOK
    <3> QED
      BY <1>2, <2>1, <3>1, <3>2
  <2> HIDE DEF k
  <2>3. Site \notin Owner /\ IsFiniteSet(Owner)
    BY BudgetAssumption
  <2>4. \A a \in Owner : used'[a][d] = used[a][d] + IF a = o THEN k ELSE 0
    BY <2>2, <2>3 DEF Charged, Account
  <2>5. SumOf(used', d, Owner) = SumOf(used, d, Owner) + IF o \in Owner THEN k ELSE 0
    <3>1. \A a \in Owner : used[a][d] \in Nat
      BY <1>2 DEF Account
    <3> HIDE DEF o
    <3> QED
      BY <2>1, <2>3, <2>4, <3>1, SumGrows
  <2>6. used'[Site][d] = used[Site][d] + k
    BY <2>2 DEF Charged, Account
  <2>7. used[Site][d] \in Nat
    BY <1>2 DEF Account
  <2> QED
    BY <1>1, <1>3, <2>1, <2>5, <2>6, <2>7
<1>6. UNCHANGED used \/ \E c \in Caller : Commit(c)
  BY DEF Next, vars, Acquire, Count, Check, Rollback, Release, Crash, Tick
<1> QED
  BY <1>4, <1>5, <1>6

\* The site's account covers those of all users together: a charge of Acquire
\* reaches both in one commit, for any number of users and days.
THEOREM LedgerAlways == Spec => []Ledger
<1>1. TypeOK /\ Ledger /\ [Next]_vars => TypeOK' /\ Ledger'
  BY StepType, StepLedger
<1> QED
  BY InitType, InitLedger, <1>1, PTL DEF Spec
=============================================================================
