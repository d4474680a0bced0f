---------------------------- MODULE ExploreQueue ----------------------------
(***************************************************************************)
(* The durable fetch queue of Subscription Explore: the tables             *)
(* recommended_feeds, explore_fetch_queue, explore_related_tasks and       *)
(* explore_fetch_runs, and the workers that claim a batch of tasks under a *)
(* lease, fetch over the network without a transaction, and persist each   *)
(* outcome in one transaction fenced by the lease token.                   *)
(*                                                                         *)
(* A database transaction is one action.  Its CURRENT_TIMESTAMP is the     *)
(* instant the transaction began, which for a handler that waits for row   *)
(* locks may lie before the instant it takes effect: such an action picks  *)
(* that instant t with item.at <= t <= now.                                *)
(*                                                                         *)
(* One row stands for the history of a (source, task_type) or of a seed:   *)
(* the partial unique indexes allow one pending or leased row each, and a  *)
(* closed row is never reopened, so Enqueue overwrites it.  Priorities and *)
(* ageing only order the candidates and are left out: ClaimRun takes any   *)
(* candidates up to the limit, as SKIP LOCKED may skip any of them.        *)
(***************************************************************************)
EXTENDS Integers, FiniteSets, TLC

CONSTANTS
    Source,       \* rows of recommended_feeds
    NoSource,     \* the NULL of merged_into_source_id
    Seed,         \* canonical seed URLs of explore_related_tasks
    Worker,       \* worker processes
    BatchLimit,   \* sanitizeExploreLimit: at most 500
    Concurrency,  \* handlers of one batch at a time: at most 5
    RetryBudget,  \* counted failures a source survives: 6
    SeedRetries,  \* attempts after which a failing seed is closed: 3
    LeaseLength,  \* requiredExploreLeaseDuration, in clock units
    MaxDelay,     \* bound: the longest backoff or Retry-After, in clock units
    MaxTime       \* bound: the last instant of the clock

ASSUME QueueAssumption ==
    /\ BatchLimit \in Nat \ {0} /\ Concurrency \in Nat \ {0}
    /\ RetryBudget \in Nat \ {0} /\ SeedRetries \in Nat
    /\ LeaseLength \in Nat \ {0} /\ MaxDelay \in Nat \ {0}
    /\ MaxTime \in Nat \ {0}
    /\ IsFiniteSet(Source) /\ IsFiniteSet(Seed) /\ NoSource \notin Source
    /\ Seed \cap (Source \X {"validate_source", "refresh_articles"}) = {}

TaskType == {"validate_source", "refresh_articles"}
SourceTask == Source \X TaskType
Task == SourceTask \cup Seed
TasksOf(s) == {s} \X TaskType

\* NULL: of a timestamp, a run_id (a run is known by its window_at), a token.
Null == 0

VARIABLES
    now,       \* the database clock
    source,    \* the catalog row of each source
    task,      \* the active, or else the last, row of each task
    run,       \* explore_fetch_runs by window_at
    lastToken, \* lease tokens are 32 random bytes: modelled as never repeated
    worker,    \* each worker's exploreCycle and the batch it is processing
    item       \* each worker's handler of each task of its batch

vars == <<now, source, task, run, lastToken, worker, item>>

Window == 1 .. MaxTime

SourceRow == [state : {"active", "retry_wait", "retry_exhausted",
                       "unavailable", "ineligible"},
              failures : Nat,
              next : Nat,                      \* next_retry_at
              status : {"pending", "valid", "invalid"},
              checked : Nat,                   \* last_checked_at
              merged : Source \cup {NoSource}] \* merged_into_source_id

TaskRow == [status : {"none", "pending", "leased", "done", "invalid"},
            run : Nat, token : Nat, expires : Nat, notBefore : Nat,
            attempts : Nat]

RunRow == [status : {"none", "running", "done", "failed"}, claimed : Nat]

\* run holds the window to dispatch, then the id of the run being processed.
WorkerState == [pc : {"idle", "claim", "work"}, run : Nat,
                token : Nat, failed : BOOLEAN, nextAt : Nat]

\* queued: still in the jobs channel.  The other phases are the branch that
\* Process took after its read of the source, at instant at (checkedAt).
Item == [phase : {"none", "queued", "stopped", "deferred", "unfetched",
                  "fetched"}, at : Nat]

TypeOK ==
    /\ now \in Window
    /\ source \in [Source -> SourceRow]
    /\ task \in [Task -> TaskRow]
    /\ run \in [Window -> RunRow]
    /\ lastToken \in Nat
    /\ worker \in [Worker -> WorkerState]
    /\ item \in [Worker -> [Task -> Item]]

NoRow == [status |-> "none", run |-> Null, token |-> Null, expires |-> Null,
          notBefore |-> Null, attempts |-> 0]
NoItem == [phase |-> "none", at |-> Null]
NoBatch == [k \in Task |-> NoItem]
IdleWorker(next) == [pc |-> "idle", run |-> Null, token |-> Null,
                     failed |-> FALSE, nextAt |-> next]
FreshSource(st) == [state |-> "active", failures |-> 0, next |-> Null,
                    status |-> st, checked |-> Null, merged |-> NoSource]

Init ==
    /\ now = 1
    /\ source \in [Source -> {FreshSource("pending"), FreshSource("valid")}]
    /\ task = [k \in Task |-> NoRow]
    /\ run = [r \in Window |-> [status |-> "none", claimed |-> 0]]
    /\ lastToken = 0
    /\ worker = [w \in Worker |-> IdleWorker(Null)]
    /\ item = [w \in Worker |-> NoBatch]

-----------------------------------------------------------------------------
(* Rows *)

FirstOf(x, y) == x
Later(x, y) == IF x >= y THEN x ELSE y

Stopped(row) == row.state \in {"unavailable", "ineligible", "retry_exhausted"}

Active(row) == row.status \in {"pending", "leased"}

Leased == {k \in Task : task[k].status = "leased"}

NewRow(t) == [NoRow EXCEPT !.status = "pending", !.notBefore = t]

\* Complete and Invalidate keep the run_id, Retry and deferral clear it.
Closed(row, st) == [row EXCEPT !.status = st, !.token = Null, !.expires = Null]
Reopened(row, t) == [row EXCEPT !.status = "pending", !.run = Null,
                        !.token = Null, !.expires = Null, !.notBefore = t]

\* Enqueue inside a transaction begun at t: sourceCanEnqueue, then the insert
\* that leaves an active row in place (its priority is not modelled).
CanEnqueue(row, t) == ~Stopped(row) /\ row.next <= t /\ row.merged = NoSource

Enqueued(tasks, sources, s, type, t) ==
    IF CanEnqueue(sources[s], t) /\ ~Active(tasks[<<s, type>>])
    THEN [tasks EXCEPT ![<<s, type>>] = NewRow(t)]
    ELSE tasks

\* settleStoppedExploreTasks
Unsettled(tasks, s) == tasks
Settled(tasks, s) ==
    [k \in Task |-> IF k \in TasksOf(s) /\ tasks[k].status = "pending"
                    THEN Closed(tasks[k], "invalid") ELSE tasks[k]]

\* The WHERE clause that fences every write of a handler.
HoldsAnyToken(w, k, t) ==
    /\ task[k].status = "leased"
    /\ task[k].run = worker[w].run
    /\ task[k].expires > t
Holds(w, k, t) ==
    /\ task[k].status = "leased"
    /\ task[k].run = worker[w].run
    /\ task[k].token = worker[w].token
    /\ task[k].expires > t

-----------------------------------------------------------------------------
(* Dispatch: one cycle of a worker recovers or claims one batch. *)

\* The deferred function of runQueueBatch starts the cooldown.
EndCycle(w) == worker' = [worker EXCEPT ![w] = IdleWorker(now + 1)]

\* The lease of all the tasks in K is now w's, under a new token.
Lease(w, K, r) ==
    /\ lastToken' = lastToken + 1
    /\ task' = [k \in Task |->
                  IF k \in K
                  THEN [task[k] EXCEPT !.status = "leased", !.run = r,
                          !.token = lastToken', !.expires = now + LeaseLength]
                  ELSE task[k]]
    /\ worker' = [worker EXCEPT ![w] = [IdleWorker(@.nextAt) EXCEPT
                     !.pc = "work", !.run = r, !.token = lastToken']]
    /\ item' = [item EXCEPT ![w] =
                  [k \in Task |-> IF k \in K
                                  THEN [NoItem EXCEPT !.phase = "queued"]
                                  ELSE NoItem]]

Expired == {k \in Leased : task[k].expires <= now}

\* Run and markQueueStarted let a cycle start; it recovers first, and only when
\* nothing is recoverable goes on to claim for the window it started in.
RecoverExpired(w) ==
    /\ worker[w].pc = "idle" /\ worker[w].nextAt <= now
    /\ \/ /\ Leased = Expired /\ Expired # {}
          /\ \E r \in {task[k].run : k \in Expired} :
               /\ \A k \in Expired : r <= task[k].run
               /\ run' = [run EXCEPT ![r].status = "running"]
               /\ Lease(w, {k \in Expired : task[k].run = r}, r)
          /\ UNCHANGED <<now, source>>
       \/ /\ Leased # Expired \/ Expired = {}
          /\ worker' = [worker EXCEPT ![w] = [@ EXCEPT !.pc = "claim", !.run = now]]
          /\ UNCHANGED <<now, source, task, run, lastToken, item>>

\* lockExploreCandidates
ClaimableAlways(k) ==
    /\ task[k].status = "pending" /\ task[k].notBefore <= now
    /\ k \in SourceTask => /\ ~Stopped(source[k[1]])
                           /\ source[k[1]].next <= now
Claimable(k) ==
    /\ Leased = {}
    /\ task[k].status = "pending" /\ task[k].run = Null
    /\ task[k].notBefore <= now
    /\ k \in SourceTask => /\ ~Stopped(source[k[1]])
                           /\ source[k[1]].next <= now

\* insertOrLockExploreRun: window_at is unique, and a run that exists is only
\* reported.
MayClaimIntoRunning(r) == run[r].status \in {"none", "running"}
MayClaimInto(r) == run[r].status = "none"

ClaimRun(w) ==
    /\ worker[w].pc = "claim"
    /\ LET r == worker[w].run IN
       \/ /\ ~MayClaimInto(r)
          /\ EndCycle(w)
          /\ UNCHANGED <<now, source, task, run, lastToken, item>>
       \/ /\ MayClaimInto(r)
          /\ run' = [run EXCEPT ![r].status = "done"]
          /\ EndCycle(w)
          /\ UNCHANGED <<now, source, task, lastToken, item>>
       \/ /\ MayClaimInto(r)
          /\ \E K \in SUBSET {k \in Task : Claimable(k)} :
               /\ K # {} /\ Cardinality(K) <= BatchLimit
               /\ run' = [run EXCEPT ![r] = [status |-> "running",
                                             claimed |-> Cardinality(K)]]
               /\ Lease(w, K, r)
          /\ UNCHANGED <<now, source>>

\* The dispatcher lock is busy, or the database fails: the cycle is over.
DispatchError(w) ==
    /\ worker[w].pc # "work" /\ worker[w].nextAt <= now
    /\ EndCycle(w)
    /\ UNCHANGED <<now, source, task, run, lastToken, item>>

\* FinishRun once the pool has drained.  It looks at the run's status only.
FinishRun(w) ==
    /\ worker[w].pc = "work" /\ item[w] = NoBatch
    /\ LET r == worker[w].run IN
         run' = IF run[r].status = "running"
                THEN [run EXCEPT ![r].status = IF worker[w].failed
                                               THEN "failed" ELSE "done"]
                ELSE run
    /\ EndCycle(w)
    /\ UNCHANGED <<now, source, task, lastToken, item>>

-----------------------------------------------------------------------------
(* Handlers: ExploreTaskProcessor.Process and the related-site processor. *)

InFlight(w) == {k \in Task : item[w][k].phase \notin {"none", "queued"}}

\* decideExploreTaskNetwork
NeedsFetchOrRefresh(type, status) ==
    type = "refresh_articles" \/ status # "valid"
NeedsFetch(type, status) == (type = "validate_source") # (status = "valid")

\* The branch Process takes on its unlocked read of the source.
Branch(row, type) ==
    IF Stopped(row) THEN "stopped"
    ELSE IF row.next > now THEN "deferred"
    ELSE IF NeedsFetch(type, row.status) THEN "fetched" ELSE "unfetched"

Process(w, k) ==
    /\ worker[w].pc = "work" /\ item[w][k].phase = "queued"
    /\ Cardinality(InFlight(w)) < Concurrency
    /\ item' = [item EXCEPT ![w][k] =
          [phase |-> IF k \in Seed THEN "fetched" ELSE Branch(source[k[1]], k[2]),
           at |-> now]]
    /\ UNCHANGED <<now, source, task, run, lastToken, worker>>

\* A handler's transaction begun at t commits: its lease was held throughout.
Commits(w, k, t) ==
    /\ item[w][k].phase \notin {"none", "queued"}
    /\ t >= item[w][k].at
    /\ Holds(w, k, t)
    /\ item' = [item EXCEPT ![w][k] = NoItem]
    /\ UNCHANGED <<now, run, lastToken, worker>>

\* Any error of a handler, a lost lease among them, rolls its transaction
\* back and leaves the lease in place.
TaskError(w, k) ==
    /\ item[w][k].phase \notin {"none", "queued"}
    /\ item' = [item EXCEPT ![w][k] = NoItem]
    /\ worker' = [worker EXCEPT ![w].failed = TRUE]
    /\ UNCHANGED <<now, source, task, run, lastToken>>

\* finishStoppedSource: no re-read of the source.
FinishStopped(w, k, t) ==
    /\ k \in SourceTask /\ item[w][k].phase = "stopped"
    /\ Commits(w, k, t)
    /\ task' = [task EXCEPT ![k] = Closed(@, "invalid")]
    /\ UNCHANGED source

\* deferSourceTask, under the source's row lock.
DeferSourceTask(w, k, t) ==
    /\ k \in SourceTask /\ item[w][k].phase = "deferred"
    /\ Commits(w, k, t)
    /\ LET row == source[k[1]] IN
         task' = [task EXCEPT ![k] =
                    IF Stopped(row) THEN Closed(@, "invalid")
                    ELSE Reopened(@, IF row.next = Null THEN t ELSE row.next)]
    /\ UNCHANGED source

\* What both finishWithoutFetch and persistFetchOutcome do with a task whose
\* outcome the source's current row makes moot.  A fetch older than the last
\* recorded check is only completed.
MootOutcome(w, k, t) ==
    /\ k \in SourceTask
    /\ item[w][k].phase \in {"unfetched", "fetched"}
    /\ Commits(w, k, t)
    /\ LET s == k[1]
           row == source[s]
           late == item[w][k].phase = "fetched" /\ row.checked > item[w][k].at
       IN \/ /\ Stopped(row)
             /\ task' = [task EXCEPT ![k] = Closed(@, "invalid")]
          \/ /\ ~Stopped(row) /\ late
             /\ task' = [task EXCEPT ![k] = Closed(@, "done")]
          \/ /\ ~Stopped(row) /\ ~late /\ ~NeedsFetch(k[2], row.status)
             /\ task' = IF k[2] = "validate_source"
                        THEN [Enqueued(task, source, s, "refresh_articles", t)
                                EXCEPT ![k] = Closed(@, "done")]
                        ELSE [task EXCEPT ![k] = Closed(@, "invalid")]
    /\ UNCHANGED source

\* persistFetchOutcome goes on to record the result, under the source's lock.
Records(w, k, t) ==
    /\ k \in SourceTask /\ item[w][k].phase = "fetched"
    /\ Commits(w, k, t)
    /\ LET row == source[k[1]] IN
         /\ ~Stopped(row) /\ row.checked <= item[w][k].at
         /\ NeedsFetch(k[2], row.status)

ExhaustedEarly(failures) == failures >= RetryBudget
Exhausted(failures) == failures > RetryBudget

\* The catalog row after RecordFetchFailure, and after MarkValidationInvalid.
FailedAt(row, st, next, at) ==
    [row EXCEPT !.state = st, !.failures = @ + 1, !.next = next, !.checked = at]
RejectedIn(row, st, at) ==
    [row EXCEPT !.state = "invalid", !.next = Null, !.checked = at]
RejectedAt(row, st, at) ==
    [row EXCEPT !.state = st, !.next = Null, !.status = "invalid",
                !.checked = at]

\* A retryable failure: retrySource.  The source's other pending task moves to
\* the same deadline, or is closed with an exhausted source.
RetrySource(w, k, t) ==
    /\ Records(w, k, t)
    /\ LET s == k[1]
           at == item[w][k].at
       IN IF Exhausted(source[s].failures + 1)
          THEN /\ source' = [source EXCEPT ![s] =
                               FailedAt(@, "retry_exhausted", Null, at)]
               /\ task' = [Settled(task, s) EXCEPT ![k] = Closed(@, "invalid")]
          ELSE \E next \in t + 1 .. t + MaxDelay :
               /\ source' = [source EXCEPT ![s] =
                               FailedAt(@, "retry_wait", next, at)]
               /\ task' = [j \in Task |->
                      IF j = k THEN Reopened(task[j], next)
                      ELSE IF j \in TasksOf(s) /\ task[j].status = "pending"
                      THEN [task[j] EXCEPT !.notBefore = Later(@, next)]
                      ELSE task[j]]

\* A terminal failure: MarkValidationInvalid, then Invalidate.
InvalidateSource(w, k, t) ==
    /\ Records(w, k, t)
    /\ \E st \in {"unavailable", "ineligible"} :
         source' = [source EXCEPT ![k[1]] = RejectedAt(@, st, item[w][k].at)]
    /\ task' = [Settled(task, k[1]) EXCEPT ![k] = Closed(@, "invalid")]

\* AdoptDiscoveredFeed for source s whose feed URL is that of source c (s
\* itself when the URL is its own or new).  MayAdopt excludes the conflicts,
\* which fail closed and roll back.
MayAdopt(s, c) ==
    IF c = s
    THEN \A m \in Source : source[s].merged = m => source[m].merged = NoSource
    ELSE \/ /\ source[s].merged = NoSource /\ source[c].merged = NoSource
            /\ ~(source[s].status = "invalid" /\ source[c].status = "invalid")
         \/ source[s].merged = c /\ source[c].merged = NoSource
         \/ source[s].merged = NoSource /\ source[c].merged = s

\* The row a successful fetch of s counts for: a refresh never adopts.
Canonical(s, type, c) ==
    IF type = "refresh_articles" THEN s
    ELSE IF c = s
    THEN IF source[s].merged = NoSource THEN s ELSE source[s].merged
    ELSE IF source[c].merged = s THEN s ELSE c

\* Only a merge of two unmerged rows writes: s becomes a tombstone.
Adopted(s, type, c) ==
    IF /\ type = "validate_source" /\ c # s
       /\ source[s].merged = NoSource /\ source[c].merged = NoSource
    THEN [source EXCEPT ![s].status = "invalid", ![s].merged = c]
    ELSE source

\* RecordFetchSuccess is void for a source checked later than at.
Succeeded(row, at) ==
    IF row.checked <= at
    THEN [row EXCEPT !.state = "active", !.failures = 0, !.next = Null,
                     !.status = "valid", !.checked = at]
    ELSE row

\* The canonical source's own schedule wins over a success through an alias.
UnavailableIfStopped(row) == Stopped(row)
UnavailableIfDeferred(row) == row.next > now
Unavailable(row) == Stopped(row) \/ row.next > now

\* A successful fetch whose feed turns out to be source c.  The merge is
\* committed even when the canonical source is stopped or deferred.
PersistSuccess(w, k, t) ==
    /\ Records(w, k, t)
    /\ \E c \in Source :
         LET type == k[2]
             canonical == Canonical(k[1], type, c)
             adopted == Adopted(k[1], type, c)
             deferred == Unavailable(adopted[canonical])
         IN /\ IF type = "validate_source" THEN MayAdopt(k[1], c) ELSE c = k[1]
            /\ \/ /\ deferred
                  /\ source' = adopted
                  /\ task' = [task EXCEPT ![k] = Closed(@, "invalid")]
               \/ /\ ~deferred
                  /\ source' = [adopted EXCEPT ![canonical] =
                                  Succeeded(@, item[w][k].at)]
                  /\ task' = [IF type = "validate_source"
                              THEN Enqueued(task, source', canonical,
                                            "refresh_articles", t)
                              ELSE task EXCEPT ![k] = Closed(@, "done")]

\* A seed whose page was fetched and parsed: the transaction checks its lease,
\* then enqueues a validation of every candidate and closes the seed.
CompleteRelated(w, k, t) ==
    /\ k \in Seed /\ Commits(w, k, t)
    /\ \E C \in SUBSET Source :
         task' = [j \in Task |->
                    IF j = k THEN Closed(task[j], "done")
                    ELSE IF j \in C \X {"validate_source"}
                    THEN Enqueued(task, source, j[1], j[2], t)[j]
                    ELSE task[j]]
    /\ UNCHANGED source

\* Attempts count no further than SeedRetries: nothing tells more apart.
Retried(row, t) ==
    [Reopened(row, t) EXCEPT !.attempts = IF @ < SeedRetries THEN @ + 1 ELSE @]

\* fail() closes the seed on its last attempt; an error while candidates are
\* written always retries.
RetryRelated(w, k, t) ==
    /\ k \in Seed /\ Commits(w, k, t)
    /\ \E next \in t + 1 .. t + MaxDelay :
         task' = [task EXCEPT ![k] = Retried(@, next)]
    /\ UNCHANGED source

InvalidateRelated(w, k, t) ==
    /\ k \in Seed /\ Commits(w, k, t)
    /\ task[k].attempts >= SeedRetries
    /\ task' = [task EXCEPT ![k] = Closed(@, "invalid")]
    /\ UNCHANGED source

-----------------------------------------------------------------------------
(* The environment: producers, shutdown, crashes and the clock. *)

\* Enqueue by SyncDue, a provider sync or a subscription.  The type follows an
\* earlier read of the source, which may be stale: either type can be asked for.
Enqueue(s, type) ==
    /\ task' = Enqueued(task, source, s, type, now)
    /\ UNCHANGED <<now, source, run, lastToken, worker, item>>

\* enqueueRelatedSeed, from the scans of Produce
EnqueueRelatedSeed(k) ==
    /\ ~Active(task[k])
    /\ task' = [task EXCEPT ![k] = NewRow(now)]
    /\ UNCHANGED <<now, source, run, lastToken, worker, item>>

\* The context is cancelled: no further job is handed out, the leases of the
\* jobs left in the channel stay until they expire.  A failure is counted only
\* if the select saw the cancellation before it handed out its last job.
Cancel(w) ==
    /\ worker[w].pc = "work"
    /\ \E k \in Task : item[w][k].phase = "queued"
    /\ item' = [item EXCEPT ![w] =
          [k \in Task |-> IF item[w][k].phase = "queued" THEN NoItem
                          ELSE item[w][k]]]
    /\ \E failed \in {worker[w].failed, TRUE} :
         worker' = [worker EXCEPT ![w].failed = failed]
    /\ UNCHANGED <<now, source, task, run, lastToken>>

\* The process dies and is started again, with nothing in memory.
Crash(w) ==
    /\ worker[w].pc # "idle"
    /\ worker' = [worker EXCEPT ![w] = IdleWorker(Null)]
    /\ item' = [item EXCEPT ![w] = NoBatch]
    /\ UNCHANGED <<now, source, task, run, lastToken>>

Tick ==
    /\ now < MaxTime
    /\ now' = now + 1
    /\ UNCHANGED <<source, task, run, lastToken, worker, item>>

Dispatch(w) ==
    \/ RecoverExpired(w) \/ ClaimRun(w)
    \/ DispatchError(w) \/ FinishRun(w)

Handle(w, k) ==
    \/ Process(w, k) \/ TaskError(w, k)
    \/ \E t \in 0 .. now :
         \/ FinishStopped(w, k, t) \/ DeferSourceTask(w, k, t)
         \/ MootOutcome(w, k, t) \/ RetrySource(w, k, t)
         \/ InvalidateSource(w, k, t) \/ PersistSuccess(w, k, t)
         \/ CompleteRelated(w, k, t) \/ RetryRelated(w, k, t)
         \/ InvalidateRelated(w, k, t)

Next ==
    \/ \E w \in Worker : Dispatch(w) \/ Cancel(w) \/ Crash(w)
    \/ \E w \in Worker, k \in Task : Handle(w, k)
    \/ \E s \in Source, type \in TaskType : Enqueue(s, type)
    \/ \E k \in Seed : EnqueueRelatedSeed(k)
    \/ Tick

Spec == Init /\ [][Next]_vars

-----------------------------------------------------------------------------
(* Properties *)

\* Only one batch is leased across all workers, crash leftovers included:
\* all leased tasks belong to one claim or recovery.
OneBatch ==
    \A j, k \in Leased : /\ task[j].run = task[k].run
                         /\ task[j].token = task[k].token
                         /\ task[j].expires = task[k].expires

\* A run never holds more tasks than it claimed, whatever was recovered or
\* retried since, and never claimed more than the batch limit.
RunQuota ==
    \A r \in Window :
        /\ Cardinality({k \in Task : task[k].run = r}) <= run[r].claimed
        /\ run[r].claimed <= BatchLimit

\* No pending task joins a source in retry_exhausted, unavailable or
\* ineligible.
NoPendingForStopped ==
    \A s \in Source : Stopped(source[s]) =>
        \A k \in TasksOf(s) : task[k].status # "pending"

\* Every pending retry task has not_before >= next_retry_at.
PendingRespectsRetry ==
    \A s \in Source : source[s].state = "retry_wait" =>
        \A k \in TasksOf(s) :
            task[k].status = "pending" => task[k].notBefore >= source[s].next

\* A worker that looks for pending tasks finds only what may run now or at its
\* own time (explore_queue.go, ClaimRun): both of the above.
PendingSound == NoPendingForStopped /\ PendingRespectsRetry

\* The six-retry budget: a waiting source has failed 1 to RetryBudget times
\* and has a deadline, an exhausted one failed once more, an active one never.
RetryBudgetKept ==
    \A s \in Source :
        LET row == source[s] IN
        /\ row.state = "active" => row.failures = 0 /\ row.next = Null
        /\ row.state = "retry_wait" => /\ row.failures \in 1 .. RetryBudget
                                       /\ row.next # Null
        /\ row.state = "retry_exhausted" => row.failures = RetryBudget + 1

\* A source merged into another never becomes valid again on its own.
TombstonesStayInvalid ==
    \A s \in Source : source[s].merged # NoSource => source[s].status = "invalid"

\* A stopped source stays exactly as it is: rediscovery, refresh scheduling and
\* canonical alias discovery cannot reactivate it.
StoppedStickyStep ==
    \A s \in Source : Stopped(source[s]) =>
        /\ source'[s].state = source[s].state
        /\ source'[s].failures = source[s].failures
StoppedSticky == [][StoppedStickyStep]_vars

\* A retry deadline still in the future is never brought forward.
DeadlineKeptStep ==
    \A s \in Source : source[s].next > now =>
        source'[s].next >= source[s].next \/ Stopped(source'[s])
DeadlineKept == [][DeadlineKeptStep]_vars

\* The row of a leased task is only written by the handler that holds its
\* token, or handed on within its run once the lease has expired.
Fenced ==
    [][\A k \in Task : task[k].status = "leased" /\ task'[k] # task[k] =>
          \/ \E w \in Worker : /\ worker[w].token = task[k].token
                               /\ item[w][k] # NoItem /\ item'[w][k] = NoItem
          \/ /\ task[k].expires <= now
             /\ task'[k] = [task[k] EXCEPT !.token = lastToken',
                                           !.expires = now + LeaseLength]]_vars

-----------------------------------------------------------------------------
(* For TLC: what is alike, and views of the states. *)

Symmetry == Permutations(Worker) \cup Permutations(Source)

\* The views keep what the steps and the properties of a run read.  Of a
\* closed row that is its run_id, for the quota; of a run, whether it exists
\* and what it claimed; lastToken only makes the next token a fresh one.
\* TypeOK has TLC evaluate each function once, before workers share it.
LeaseView ==
    <<TypeOK, now, source, worker, item,
      [k \in Task |-> IF Active(task[k]) THEN task[k]
                      ELSE [NoRow EXCEPT !.run = task[k].run]],
      [r \in Window |-> <<run[r].status = "none", run[r].claimed>>]>>

\* The same, for properties of the catalog, which read no run_id.
CatalogView ==
    <<TypeOK, now, source, worker, item,
      [k \in Task |-> IF Active(task[k]) THEN task[k] ELSE NoRow],
      [r \in Window |-> run[r].status = "none"]>>
=============================================================================
