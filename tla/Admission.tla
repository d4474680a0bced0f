------------------------------ MODULE Admission ------------------------------
(***************************************************************************)
(* What the task budget promises: each task is admitted in one step, in    *)
(* which both daily budgets still cover its cost and both concurrency      *)
(* limits leave room for its lease; nothing is ever refunded; a lease that *)
(* has not expired is only ever given up by its own task.                  *)
(***************************************************************************)
EXTENDS Integers, FiniteSets

CONSTANTS Owner, Site, Daily, GlobalDaily, Concurrent, GlobalConcurrent,
          LeaseLength, MaxCost, MaxDay

\* Daily is a function here: the daily budget of each user.
VARIABLES now, today, used, leases

vars == <<now, today, used, leases>>

Account == Owner \cup {Site}
Days == 0 .. MaxDay
Unexpired == {l \in leases : l.expires > now}

Init ==
    /\ now = 0 /\ today = 0
    /\ used = [o \in Account |-> [d \in Days |-> 0]]
    /\ leases = {}

\* Admission of a task of o, charged to day d: today, or the day on which it
\* asked.  Any expired leases go.
Admit(o, cost, d) ==
    /\ used[Site][d] + cost <= GlobalDaily
    /\ o # Site => used[o][d] + cost <= Daily[o]
    /\ Cardinality(Unexpired) < GlobalConcurrent
    /\ o # Site => Cardinality({l \in Unexpired : l.owner = o}) < Concurrent
    /\ used' = [a \in Account |->
                  IF a \in {Site, o} THEN [used[a] EXCEPT ![d] = @ + cost]
                  ELSE used[a]]
    /\ \E new \in leases', gone \in SUBSET (leases \ Unexpired) :
         /\ new.owner = o /\ new.expires = now + LeaseLength
         /\ \A l \in leases : l.id # new.id
         /\ leases' = (leases \ gone) \cup {new}
    /\ UNCHANGED <<now, today>>

Release ==
    /\ \E l \in leases : leases' = leases \ {l}
    /\ UNCHANGED <<now, today, used>>

Advance ==
    /\ now' = now + 1 /\ today' \in {today, today + 1}
    /\ UNCHANGED <<used, leases>>

Next ==
    \/ \E o \in Account, cost \in 1 .. MaxCost, d \in Days :
          d <= today /\ Admit(o, cost, d)
    \/ Release
    \/ Advance

Spec == Init /\ [][Next]_vars
=============================================================================
