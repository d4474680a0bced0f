----------------------------- MODULE TaskBudget -----------------------------
(***************************************************************************)
(* One bucket of the task budget: Store.Acquire admits a task under a      *)
(* concurrency and a daily limit, of its owner and of the whole site,      *)
(* before the task starts.  The buckets share nothing.                     *)
(*                                                                         *)
(* Acquire is one transaction, but its statements read the committed rows  *)
(* one after the other, at different instants, while releases and the      *)
(* clock go on.  Its steps are actions of their own; only the advisory     *)
(* lock of the bucket keeps two of them apart.  What they wrote is visible *)
(* from Commit on, so the writes are all in Commit.                        *)
(***************************************************************************)
EXTENDS Integers, FiniteSets, FiniteSetsExt, TLC

CONSTANTS
    Owner,            \* users, with id > 0
    Site,             \* owner_id 0: the system, and the total of the site
    Caller,           \* concurrent calls, of any process
    NoCaller,
    Admin,            \* users with is_admin
    Daily,            \* daily budget of a user
    AdminDaily,       \* that of an administrator; 0: the same as the others
    GlobalDaily,      \* daily budget of the site
    Concurrent,       \* leases of a user at a time
    GlobalConcurrent, \* leases of the site at a time
    LeaseLength,      \* Policy.Lease: 15 minutes, in clock units
    MaxCost,          \* bound: the highest cost asked for
    MaxDay,           \* bound: the last UTC day
    MaxTime           \* bound: the last instant of the clock

ASSUME BudgetAssumption ==
    /\ IsFiniteSet(Owner)
    /\ Site \notin Owner /\ NoCaller \notin Caller /\ Admin \subseteq Owner
    /\ Daily \in Nat \ {0} /\ AdminDaily \in Nat /\ GlobalDaily \in Nat \ {0}
    /\ Concurrent \in Nat \ {0} /\ GlobalConcurrent \in Nat \ {0}
    /\ LeaseLength \in Nat \ {0} /\ MaxCost \in Nat \ {0}
    /\ MaxDay \in Nat /\ MaxTime \in Nat

VARIABLES
    now,    \* clock_timestamp()
    today,  \* its UTC date
    used,   \* task_budget_daily
    leases, \* task_budget_leases
    lastId, \* lease ids are 16 random bytes: modelled as never repeated
    lock,   \* the transaction that holds the bucket's advisory lock
    call    \* each caller's Acquire, or the task it was admitted for

vars == <<now, today, used, leases, lastId, lock, call>>

Account == Owner \cup {Site}
Days == 0 .. MaxDay
Lease == [id : Nat, owner : Account, expires : Nat]

\* locked, counted, checked: the last step of Acquire done.  since is the
\* instant up to which the call found leases expired, lease the one it got.
Call == [pc : {"idle", "locked", "counted", "checked", "working"},
         owner : Account, cost : 1 .. MaxCost, since : Nat, day : Days,
         lease : Lease]

TypeOK ==
    /\ now \in 0 .. MaxTime /\ today \in Days
    /\ used \in [Account -> [Days -> Nat]]
    /\ leases \subseteq Lease
    /\ lastId \in Nat
    /\ lock \in Caller \cup {NoCaller}
    /\ call \in [Caller -> Call]

NoLease == [id |-> 0, owner |-> Site, expires |-> 0]
Idle == [pc |-> "idle", owner |-> Site, cost |-> 1, since |-> 0, day |-> 0,
         lease |-> NoLease]

Init ==
    /\ now = 0 /\ today = 0
    /\ used = [o \in Account |-> [d \in Days |-> 0]]
    /\ leases = {} /\ lastId = 0
    /\ lock = NoCaller
    /\ call = [c \in Caller |-> Idle]

-----------------------------------------------------------------------------
\* The leases of L that have not expired at t, and those of owner o.
LiveUnlessDue(L, t) == {l \in L : l.expires > t + 1}
Live(L, t) == {l \in L : l.expires > t}
OwnedBy(L, o) == {l \in L : l.owner = o}

DailyLimit(o) == IF o \in Admin /\ AdminDaily > 0 THEN AdminDaily ELSE Daily

\* pg_advisory_xact_lock
LockAlwaysFree == TRUE
LockFree == lock = NoCaller

Acquire(c) ==
    /\ call[c].pc = "idle" /\ LockFree
    /\ lock' = c
    /\ \E o \in Account, cost \in 1 .. MaxCost :
         call' = [call EXCEPT ![c] =
                    [Idle EXCEPT !.pc = "locked", !.owner = o, !.cost = cost]]
    /\ UNCHANGED <<now, today, used, leases, lastId>>

\* The live leases L must leave room for one more of o.
RoomForOneMore(L, o) ==
    /\ Cardinality(L) <= GlobalConcurrent
    /\ o # Site => Cardinality(OwnedBy(L, o)) <= Concurrent
HasRoom(L, o) ==
    /\ Cardinality(L) < GlobalConcurrent
    /\ o # Site => Cardinality(OwnedBy(L, o)) < Concurrent

\* Expired leases are deleted, and the others counted.
Count(c) ==
    /\ call[c].pc = "locked" /\ HasRoom(Live(leases, now), call[c].owner)
    /\ call' = [call EXCEPT ![c] = [@ EXCEPT !.pc = "counted", !.since = now]]
    /\ UNCHANGED <<now, today, used, leases, lastId, lock>>

\* The day is read once, and the budgets of that day must cover the cost.
CoversSiteOnly(o, cost, d) == cost <= GlobalDaily - used[Site][d]
CoversUserOnly(o, cost, d) ==
    o # Site => cost <= DailyLimit(o) - used[o][d]
Covers(o, cost, d) ==
    /\ cost <= GlobalDaily - used[Site][d]
    /\ o # Site => cost <= DailyLimit(o) - used[o][d]

ChargedToReset(c) ==
    /\ call[c].pc = "counted" /\ Covers(call[c].owner, call[c].cost, today)
    /\ call' = [call EXCEPT ![c] = [@ EXCEPT !.pc = "checked", !.day = today + 1]]
    /\ UNCHANGED <<now, today, used, leases, lastId, lock>>
Check(c) ==
    /\ call[c].pc = "counted" /\ Covers(call[c].owner, call[c].cost, today)
    /\ call' = [call EXCEPT ![c] = [@ EXCEPT !.pc = "checked", !.day = today]]
    /\ UNCHANGED <<now, today, used, leases, lastId, lock>>

\* The accounts a cost is charged to: the site's, and its owner's.
OwnAccountOnly(o) == {o}
Charged(o) == {Site, o}

\* The charges, the lease and the deletion of what had expired commit at once.
\* The caller may miss that: it then reports an error, and the lease stays.
Commit(c) ==
    /\ call[c].pc = "checked"
    /\ LET o == call[c].owner
           new == [id |-> lastId + 1, owner |-> o, expires |-> now + LeaseLength]
       IN /\ used' = [a \in Account |->
                        IF a \in Charged(o)
                        THEN [used[a] EXCEPT ![call[c].day] = @ + call[c].cost]
                        ELSE used[a]]
          /\ leases' = Live(leases, call[c].since) \cup {new}
          /\ \/ call' = [call EXCEPT ![c] = [Idle EXCEPT !.pc = "working",
                                                         !.lease = new]]
             \/ call' = [call EXCEPT ![c] = Idle]
    /\ lastId' = lastId + 1
    /\ lock' = NoCaller
    /\ UNCHANGED <<now, today>>

\* A limit is exceeded, or a statement fails: nothing was written.
Rollback(c) ==
    /\ call[c].pc \in {"locked", "counted", "checked"}
    /\ lock' = NoCaller
    /\ call' = [call EXCEPT ![c] = Idle]
    /\ UNCHANGED <<now, today, used, leases, lastId>>

\* The task is over, after any time.  Its release may fail unnoticed.
Release(c) ==
    /\ call[c].pc = "working"
    /\ leases' \in {{l \in leases : l.id # call[c].lease.id}, leases}
    /\ call' = [call EXCEPT ![c] = Idle]
    /\ UNCHANGED <<now, today, used, lastId, lock>>

\* The caller's process dies; the database rolls back and frees the lock.
Crash(c) ==
    /\ call[c].pc # "idle"
    /\ lock' = IF lock = c THEN NoCaller ELSE lock
    /\ call' = [call EXCEPT ![c] = Idle]
    /\ UNCHANGED <<now, today, used, leases, lastId>>

\* Time passes, with or without a midnight.
Tick ==
    /\ now < MaxTime /\ now' = now + 1
    /\ today' \in {today, today + 1} \cap Days
    /\ UNCHANGED <<used, leases, lastId, lock, call>>

Next ==
    \/ \E c \in Caller : \/ Acquire(c) \/ Count(c) \/ Check(c) \/ Commit(c)
                         \/ Rollback(c) \/ Release(c) \/ Crash(c)
    \/ Tick

Spec == Init /\ [][Next]_vars

-----------------------------------------------------------------------------
(* Properties *)

\* No day's charges exceed the budget of the site, whatever was checked at the
\* same time and whenever midnight fell.
GlobalDailyKept == \A d \in Days : used[Site][d] <= GlobalDaily

\* No user is charged more than that user's budget on any day.
UserDailyKept == \A o \in Owner, d \in Days : used[o][d] <= DailyLimit(o)

\* The leases that have not expired never exceed either concurrency limit.
ConcurrencyKept ==
    LET unexpired == {l \in leases : l.expires > now} IN
    /\ Cardinality(unexpired) <= GlobalConcurrent
    /\ \A o \in Owner :
          Cardinality({l \in unexpired : l.owner = o}) <= Concurrent

\* The limits an administrator sets hold together, in every state in which any
\* call may read them (Store.Acquire).
LimitsKept == GlobalDailyKept /\ UserDailyKept /\ ConcurrencyKept

\* A task holds its lease for the lease's full term: neither another call's
\* deletion of expired leases nor a late release takes it away.
LeaseHeld ==
    \A c \in Caller :
        call[c].pc = "working" /\ call[c].lease.expires > now
            => call[c].lease \in leases

\* The site's account covers the accounts of all users together.
Ledger ==
    \A d \in Days :
        MapThenSumSet(LAMBDA o : used[o][d], Owner) <= used[Site][d]

\* Acquire, step by step as it is, admits a task as if in a single step.
A == INSTANCE Admission WITH Daily <- [o \in Owner |-> DailyLimit(o)]
Atomic == A!Spec

\* For TLC: only calls are alike, an owner may be an administrator.
Symmetry == Permutations(Caller)
=============================================================================
