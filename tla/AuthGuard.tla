----------------------------- MODULE AuthGuard -----------------------------
(* What a public authentication request passes before its handler runs: a *)
(* slot of its action, then budgets in the database, shared by replicas,   *)
(* each a count within a fixed window.  internal/api/auth_abuse.go,        *)
(* internal/repository/auth_rate_limit.go.                                 *)
EXTENDS Naturals, Sequences, FiniteSets

CONSTANTS
    Request,
    Action,         \* "register" also passes a budget after its captcha
    Bucket,         \* budgets of one network; "network", "action", "site", "enrol"
    Limit,          \* Limit[b]: attempts a window admits
    Slots,          \* slots of an action in this process
    Window, MaxTime

VARIABLES
    now,
    bucket,         \* bucket[b]: attempts, until
    request,        \* request[r]: action, and the budgets still before it
    admitted        \* history: attempts each budget let through in its window

vars == <<now, bucket, request, admitted>>

\* A window has a length; the limits are those of the four kinds of budget.
GuardAssumption ==
    /\ Bucket \subseteq {"network", "action", "site", "enrol"} /\ Limit \in [Bucket -> Nat]
    /\ MaxTime \in Nat /\ Window \in Nat \ {0}

Idle == [action |-> "-", at |-> "idle"]
Stage == {"network", "action", "site", "captcha", "enrol", "handler"}

TypeOK ==
    /\ now \in 0..MaxTime
    /\ bucket \in [Bucket -> [attempts : Nat, until : 0..(MaxTime + Window)]]
    /\ request \in [Request -> [action : Action \cup {"-"}, at : Stage \cup {"idle"}]]
    /\ admitted \in [Bucket -> Nat]

Init ==
    /\ now = 0
    /\ bucket = [b \in Bucket |-> [attempts |-> 0, until |-> 0]]
    /\ request = [r \in Request |-> Idle]
    /\ admitted = [b \in Bucket |-> 0]

InFlight(a) == {r \in Request : request[r].action = a}

\* A request that finds no slot is refused and holds none.
TakeSlot(r, a) ==
    /\ request[r] = Idle
    /\ Cardinality(InFlight(a)) < Slots
    /\ request' = [request EXCEPT ![r] = [action |-> a, at |-> "network"]]
    /\ UNCHANGED <<now, bucket, admitted>>

\* One statement: a window that is over restarts at one; else the count grows
\* up to one past the limit, and the window is never extended.
Over(b) == bucket[b].until <= now

Attempts(b) ==
    IF Over(b) THEN 1
    ELSE IF bucket[b].attempts + 1 <= Limit[b] + 1 THEN bucket[b].attempts + 1
    ELSE Limit[b] + 1

Allow(b) ==
    bucket' = [bucket EXCEPT ![b] = [attempts |-> Attempts(b),
                                     until |-> IF Over(b) THEN now + Window ELSE @.until]]

After(r) ==
    CASE request[r].at = "network" -> "action"
      [] request[r].at = "action" -> "site"
      [] request[r].at = "site" ->
           IF request[r].action = "register" THEN "captcha" ELSE "handler"
      [] request[r].at = "enrol" -> "handler"

\* The budget's answer decides whether the request goes on or gives back its
\* slot; a failing database or a body that cannot be read refuses it as well.
Take(r) ==
    LET b == request[r].at IN
    /\ b \in Bucket
    /\ \/ /\ Allow(b)
          /\ IF Attempts(b) <= Limit[b]
             THEN /\ request' = [request EXCEPT ![r].at = After(r)]
                  /\ admitted' = [admitted EXCEPT ![b] = IF Over(b) THEN 1 ELSE @ + 1]
             ELSE /\ request' = [request EXCEPT ![r] = Idle]
                  /\ admitted' = [admitted EXCEPT ![b] = IF Over(b) THEN 0 ELSE @]
       \/ request' = [request EXCEPT ![r] = Idle] /\ UNCHANGED <<bucket, admitted>>
    /\ UNCHANGED now

\* Only a valid proof reaches the enrolment budget.
Captcha(r) ==
    /\ request[r].at = "captcha"
    /\ \/ request' = [request EXCEPT ![r].at = "enrol"]
       \/ request' = [request EXCEPT ![r] = Idle]
    /\ UNCHANGED <<now, bucket, admitted>>

Handled(r) ==
    /\ request[r].at = "handler"
    /\ request' = [request EXCEPT ![r] = Idle]
    /\ UNCHANGED <<now, bucket, admitted>>

\* Expired rows are deleted; the next attempt inserts a new one.
Prune(b) ==
    /\ bucket[b].until < now /\ bucket[b].attempts > 0
    /\ bucket' = [bucket EXCEPT ![b] = [attempts |-> 0, until |-> 0]]
    /\ UNCHANGED <<now, request, admitted>>

Tick ==
    /\ now < MaxTime
    /\ now' = now + 1
    /\ UNCHANGED <<bucket, request, admitted>>

Next ==
    \/ \E r \in Request :
         (\E a \in Action : TakeSlot(r, a)) \/ Take(r) \/ Captcha(r) \/ Handled(r)
    \/ \E b \in Bucket : Prune(b)
    \/ Tick

Spec == Init /\ [][Next]_vars

-----------------------------------------------------------------------------
\* No window lets more attempts through than its limit, through failures,
\* refusals and pruned rows; and refusals never make a window longer, so that
\* a client that keeps trying is admitted again when it ends.
WindowKept ==
    /\ \A b \in Bucket : admitted[b] <= Limit[b]
    /\ \A b \in Bucket : bucket[b].until <= now + Window

WindowFixedStep ==
    \A b \in Bucket : bucket'[b].until > bucket[b].until => Over(b)
WindowFixed == [][WindowFixedStep]_vars
=============================================================================
