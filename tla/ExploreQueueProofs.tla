------------------------- MODULE ExploreQueueProofs -------------------------
(***************************************************************************)
(* Theorems about ExploreQueue for every set of sources, seeds and workers *)
(* and every value of its bounds: first types, leases and the catalog,     *)
(* then what runs hold, what becomes of merged sources, and why no handler *)
(* brings a deadline forward.                                              *)
(***************************************************************************)
EXTENDS ExploreQueue, FiniteSetTheorems, TLAPS

Rows == [Task -> TaskRow]
Catalog == [Source -> SourceRow]

USE DEF Null

\* What Enqueue does to the rows: at most the one row, not leased before, is
\* replaced by a new pending one, and only for a source that may be enqueued.
LEMMA EnqueuedRows ==
    ASSUME NEW tasks \in Rows, NEW sources \in Catalog, NEW s \in Source,
           NEW type \in TaskType, NEW t \in Nat
    PROVE  /\ Enqueued(tasks, sources, s, type, t) \in Rows
           /\ \A k \in Task :
                LET new == Enqueued(tasks, sources, s, type, t)[k] IN
                \/ new = tasks[k]
                \/ /\ k = <<s, type>> /\ CanEnqueue(sources[s], t)
                   /\ tasks[k].status # "leased"
                   /\ new = NewRow(t)
<1>1. <<s, type>> \in Task
  BY DEF Task, SourceTask
<1>2. NewRow(t) \in TaskRow
  BY DEF NewRow, NoRow, TaskRow
<1> QED
  BY <1>1, <1>2 DEF Enqueued, Rows, Active

LEMMA SettledRows ==
    ASSUME NEW tasks \in Rows, NEW s \in Source
    PROVE  /\ Settled(tasks, s) \in Rows
           /\ \A k \in Task : Settled(tasks, s)[k] =
                IF k \in TasksOf(s) /\ tasks[k].status = "pending"
                THEN Closed(tasks[k], "invalid") ELSE tasks[k]
<1>1. \A k \in Task : Closed(tasks[k], "invalid") \in TaskRow
  BY DEF Closed, TaskRow, Rows
<1> QED
  BY <1>1 DEF Settled, Rows

\* Rewriting a row keeps its type.
LEMMA RowTypes ==
    ASSUME NEW row \in TaskRow, NEW t \in Nat
    PROVE  /\ Closed(row, "done") \in TaskRow
           /\ Closed(row, "invalid") \in TaskRow
           /\ Reopened(row, t) \in TaskRow
           /\ NewRow(t) \in TaskRow
BY DEF Closed, Reopened, NewRow, NoRow, TaskRow

LEMMA RetriedType ==
    ASSUME NEW row \in TaskRow, NEW t \in Nat
    PROVE  /\ Retried(row, t) \in TaskRow
           /\ Retried(row, t).status = "pending"
           /\ Retried(row, t).notBefore = t
<1> DEFINE r == Reopened(row, t)
           n == IF r.attempts < SeedRetries THEN r.attempts + 1 ELSE r.attempts
<1>1. r \in TaskRow /\ r.status = "pending" /\ r.notBefore = t
  BY DEF Reopened, TaskRow
<1>2. n \in Nat
  BY <1>1 DEF TaskRow
<1>3. Retried(row, t) = [r EXCEPT !.attempts = n]
  BY Zenon DEF Retried
<1> HIDE DEF r, n
<1> QED
  BY <1>1, <1>2, <1>3 DEF TaskRow

LEMMA RowFields ==
    ASSUME NEW row \in TaskRow, NEW t \in Nat
    PROVE  /\ Closed(row, "done").status = "done"
           /\ Closed(row, "invalid").status = "invalid"
           /\ Reopened(row, t).status = "pending"
           /\ Reopened(row, t).notBefore = t
           /\ NewRow(t).status = "pending"
           /\ NewRow(t).notBefore = t
BY DEF Closed, Reopened, NewRow, NoRow, TaskRow

-----------------------------------------------------------------------------
(* Type correctness *)

LEMMA TaskFinite == IsFiniteSet(Task)
<1>1. IsFiniteSet(TaskType)
  <2>1. TaskType = {"validate_source"} \cup {"refresh_articles"}
    BY DEF TaskType
  <2> QED
    BY <2>1, FS_Singleton, FS_Union
<1>2. IsFiniteSet(SourceTask)
  BY <1>1, FS_Product, QueueAssumption DEF SourceTask
<1> QED
  BY <1>2, FS_Union, QueueAssumption DEF Task

LEMMA Clock == TypeOK => now \in Nat /\ now + 1 \in Nat /\ now + LeaseLength \in Nat
<1>1. MaxTime \in Nat /\ LeaseLength \in Nat
  BY QueueAssumption
<1> QED
  BY <1>1 DEF TypeOK, Window

LEMMA LeaseType ==
    ASSUME TypeOK, NEW w \in Worker, NEW K \in SUBSET Task, NEW r \in Nat,
           Lease(w, K, r)
    PROVE  /\ task' \in Rows /\ lastToken' \in Nat
           /\ worker' \in [Worker -> WorkerState]
           /\ item' \in [Worker -> [Task -> Item]]
<1>1. now + LeaseLength \in Nat /\ lastToken' \in Nat
  <2>1. lastToken' = lastToken + 1
    BY Zenon DEF Lease
  <2> QED
    BY <2>1, Clock DEF TypeOK
<1>2. \A k \in Task : [task[k] EXCEPT !.status = "leased", !.run = r,
          !.token = lastToken', !.expires = now + LeaseLength] \in TaskRow
  BY <1>1 DEF TypeOK, TaskRow
<1>3. task' \in Rows
  BY <1>2 DEF Lease, Rows, TypeOK
<1>4. [IdleWorker(worker[w].nextAt) EXCEPT !.pc = "work", !.run = r,
                                           !.token = lastToken'] \in WorkerState
  BY <1>1 DEF IdleWorker, WorkerState, TypeOK
<1>5. worker' \in [Worker -> WorkerState]
  BY <1>4 DEF Lease, TypeOK
<1>6. NoItem \in Item /\ [NoItem EXCEPT !.phase = "queued"] \in Item
  BY DEF NoItem, Item
<1>7. item' \in [Worker -> [Task -> Item]]
  BY <1>6 DEF Lease, TypeOK
<1> QED
  BY <1>1, <1>3, <1>5, <1>7

LEMMA EndCycleType ==
    ASSUME TypeOK, NEW w \in Worker, EndCycle(w)
    PROVE  worker' \in [Worker -> WorkerState]
<1>1. IdleWorker(now + 1) \in WorkerState
  BY Clock DEF IdleWorker, WorkerState
<1> QED
  BY <1>1 DEF TypeOK, EndCycle

LEMMA DispatchType ==
    ASSUME TypeOK, NEW w \in Worker, Dispatch(w)
    PROVE  TypeOK'
<1> USE DEF TypeOK, Rows
<1>1. CASE RecoverExpired(w)
  <2>1. CASE Leased = Expired /\ Expired # {}
    <3>1. PICK r \in {task[k].run : k \in Expired} :
             /\ run' = [run EXCEPT ![r].status = "running"]
             /\ Lease(w, {k \in Expired : task[k].run = r}, r)
      BY <1>1, <2>1 DEF RecoverExpired
    <3>2. {k \in Expired : task[k].run = r} \in SUBSET Task /\ r \in Nat
      BY DEF Expired, Leased, TaskRow
    <3>3. run' \in [Window -> RunRow]
      BY <3>1 DEF RunRow
    <3>4. now' = now /\ source' = source
      BY <1>1, <2>1 DEF RecoverExpired
    <3> QED
      BY <3>1, <3>2, <3>3, <3>4, LeaseType
  <2>2. CASE ~(Leased = Expired /\ Expired # {})
    <3>1. /\ worker' = [worker EXCEPT ![w] =
                          [@ EXCEPT !.pc = "claim", !.run = now]]
          /\ UNCHANGED <<now, source, task, run, lastToken, item>>
      BY <1>1, <2>2 DEF RecoverExpired
    <3>2. [worker[w] EXCEPT !.pc = "claim", !.run = now] \in WorkerState
      BY Clock DEF WorkerState
    <3>3. worker' \in [Worker -> WorkerState]
      BY <3>1, <3>2
    <3> QED
      BY <3>1, <3>3
  <2> QED
    BY <2>1, <2>2
<1>2. CASE ClaimRun(w)
  <2> DEFINE r == worker[w].run
  <2>1. r \in Nat
    BY DEF WorkerState
  <2>2. CASE EndCycle(w) /\ UNCHANGED <<now, source, task, run, lastToken, item>>
    BY <2>2, EndCycleType
  <2>3. CASE /\ run' = [run EXCEPT ![r].status = "done"]
             /\ EndCycle(w) /\ UNCHANGED <<now, source, task, lastToken, item>>
    <3>1. run' \in [Window -> RunRow]
      BY <2>3 DEF RunRow
    <3> QED
      BY <2>3, <3>1, EndCycleType
  <2>4. ASSUME NEW K \in SUBSET {k \in Task : Claimable(k)},
               run' = [run EXCEPT ![r] = [status |-> "running",
                                          claimed |-> Cardinality(K)]],
               Lease(w, K, r), UNCHANGED <<now, source>>
        PROVE  TypeOK'
    <3>1. K \in SUBSET Task /\ Cardinality(K) \in Nat
      BY TaskFinite, FS_Subset, FS_CardinalityType
    <3>2. run' \in [Window -> RunRow]
      BY <2>4, <3>1 DEF RunRow
    <3> QED
      BY <2>1, <2>4, <3>1, <3>2, LeaseType
  <2> QED
    BY <1>2, <2>2, <2>3, <2>4 DEF ClaimRun
<1>3. CASE DispatchError(w)
  BY <1>3, EndCycleType DEF DispatchError
<1>4. CASE FinishRun(w)
  <2>1. PICK st \in {"failed", "done"} :
           run' = run \/ run' = [run EXCEPT ![worker[w].run].status = st]
    BY <1>4 DEF FinishRun
  <2>2. \A row \in RunRow : [row EXCEPT !.status = st] \in RunRow
    BY DEF RunRow
  <2>3. run' \in [Window -> RunRow]
    BY <2>1, <2>2
  <2> QED
    BY <1>4, <2>3, EndCycleType DEF FinishRun
<1> QED
  BY <1>1, <1>2, <1>3, <1>4 DEF Dispatch

LEMMA CommitsType ==
    ASSUME TypeOK, NEW w \in Worker, NEW k \in Task, NEW t \in 0 .. now,
           Commits(w, k, t)
    PROVE  /\ t \in Nat /\ item[w][k].at \in Nat
           /\ now' \in Window /\ run' \in [Window -> RunRow]
           /\ lastToken' \in Nat /\ worker' \in [Worker -> WorkerState]
           /\ item' \in [Worker -> [Task -> Item]]
<1>1. NoItem \in Item /\ item[w][k].at \in Nat
  BY DEF NoItem, Item, TypeOK
<1>2. t \in Nat
  BY Clock
<1> QED
  BY <1>1, <1>2 DEF Commits, TypeOK

\* What a recorded outcome does to the catalog row of one source.
LEMMA SourceTypes ==
    ASSUME NEW row \in SourceRow, NEW at \in Nat, NEW next \in Nat
    PROVE  /\ \A st \in {"retry_wait", "retry_exhausted"} :
                FailedAt(row, st, next, at) \in SourceRow
           /\ \A st \in {"unavailable", "ineligible"} :
                RejectedAt(row, st, at) \in SourceRow
           /\ Succeeded(row, at) \in SourceRow
<1>1. \A st \in {"retry_wait", "retry_exhausted"} :
         FailedAt(row, st, next, at) \in SourceRow
  <2>1. row.failures + 1 \in Nat
    BY DEF SourceRow
  <2> QED
    BY <2>1, Zenon DEF SourceRow, FailedAt
<1>2. \A st \in {"unavailable", "ineligible"} :
         RejectedAt(row, st, at) \in SourceRow
  BY DEF SourceRow, RejectedAt
<1>3. [row EXCEPT !.state = "active", !.failures = 0, !.next = 0,
                  !.status = "valid", !.checked = at] \in SourceRow
  BY DEF SourceRow
<1>4. Succeeded(row, at) \in SourceRow
  BY <1>3 DEF Succeeded
<1> QED
  BY <1>1, <1>2, <1>4

LEMMA AdoptedType ==
    ASSUME TypeOK, NEW s \in Source, NEW type \in TaskType, NEW c \in Source
    PROVE  Adopted(s, type, c) \in Catalog
<1>1. [source[s] EXCEPT !.status = "invalid", !.merged = c] \in SourceRow
  <2>1. source[s] \in SourceRow
    BY DEF TypeOK
  <2> QED
    BY <2>1 DEF SourceRow
<1> QED
  BY <1>1 DEF Adopted, TypeOK, Catalog

\* A merge pointer leads back into the catalog.
LEMMA CanonicalType ==
    ASSUME source \in Catalog, NEW s \in Source, NEW type, NEW c \in Source
    PROVE  Canonical(s, type, c) \in Source
<1>1. source[s].merged \in Source \cup {NoSource}
  BY DEF Catalog, SourceRow
<1> QED
  BY <1>1 DEF Canonical

\* The transactions of a handler.
Transaction(w, k, t) ==
    \/ FinishStopped(w, k, t) \/ DeferSourceTask(w, k, t)
    \/ MootOutcome(w, k, t) \/ RetrySource(w, k, t)
    \/ InvalidateSource(w, k, t) \/ PersistSuccess(w, k, t)
    \/ CompleteRelated(w, k, t) \/ RetryRelated(w, k, t)
    \/ InvalidateRelated(w, k, t)

LEMMA TransactionCommits ==
    ASSUME NEW w, NEW k, NEW t, Transaction(w, k, t)
    PROVE  Commits(w, k, t)
BY Zenon DEF Transaction, FinishStopped, DeferSourceTask, MootOutcome,
     RetrySource, InvalidateSource, PersistSuccess, CompleteRelated,
     RetryRelated, InvalidateRelated, Records

\* The tasks and the catalog that a transaction leaves behind.
LEMMA HandleRows ==
    ASSUME TypeOK, NEW w \in Worker, NEW k \in Task, NEW t \in 0 .. now,
           Transaction(w, k, t)
    PROVE  task' \in Rows /\ source' \in Catalog
<1> USE DEF Rows, Catalog
<1>1. task \in Rows /\ source \in Catalog /\ t \in Nat
  BY Clock DEF TypeOK
<1>2. \A n \in Nat : /\ Closed(task[k], "done") \in TaskRow
                     /\ Closed(task[k], "invalid") \in TaskRow
                     /\ Reopened(task[k], n) \in TaskRow
  BY <1>1, RowTypes
<1>3. CASE FinishStopped(w, k, t)
  BY <1>1, <1>2, <1>3 DEF FinishStopped
<1>4. CASE InvalidateRelated(w, k, t)
  BY <1>1, <1>2, <1>4 DEF InvalidateRelated
<1>5. CASE RetryRelated(w, k, t)
  <2>1. PICK next \in t + 1 .. t + MaxDelay :
           task' = [task EXCEPT ![k] = Retried(@, next)]
    BY <1>5 DEF RetryRelated
  <2>2. next \in Nat
    BY <1>1, QueueAssumption
  <2> QED
    BY <1>1, <1>5, <2>1, <2>2, RetriedType DEF RetryRelated
<1>6. CASE CompleteRelated(w, k, t)
  <2>1. PICK C \in SUBSET Source :
           task' = [j \in Task |->
                      IF j = k THEN Closed(task[j], "done")
                      ELSE IF j \in C \X {"validate_source"}
                      THEN Enqueued(task, source, j[1], j[2], t)[j]
                      ELSE task[j]]
    BY <1>6 DEF CompleteRelated
  <2>2. \A j \in C \X {"validate_source"} :
           j[1] \in Source /\ j[2] \in TaskType
    BY DEF TaskType
  <2>3. \A j \in Task : j \in C \X {"validate_source"} =>
           Enqueued(task, source, j[1], j[2], t)[j] \in TaskRow
    BY <1>1, <2>2, EnqueuedRows
  <2>4. source' = source
    BY <1>6 DEF CompleteRelated
  <2> QED
    BY <1>1, <1>2, <2>1, <2>3, <2>4
<1>7. CASE DeferSourceTask(w, k, t)
  <2> DEFINE row == source[k[1]]
             next == IF row.next = Null THEN t ELSE row.next
  <2>1. row \in SourceRow
    BY <1>1, <1>7 DEF DeferSourceTask, SourceTask
  <2>2. \/ task' = [task EXCEPT ![k] = Closed(@, "invalid")]
        \/ task' = [task EXCEPT ![k] = Reopened(@, next)]
    BY <1>7, Zenon DEF DeferSourceTask
  <2>3. next \in Nat
    BY <1>1, <2>1 DEF SourceRow
  <2>4. source' = source
    BY <1>7 DEF DeferSourceTask
  <2> HIDE DEF next
  <2> QED
    BY <1>1, <1>2, <2>2, <2>3, <2>4
<1>8. CASE MootOutcome(w, k, t)
  <2>1. k[1] \in Source
    BY <1>8 DEF MootOutcome, SourceTask
  <2> DEFINE enqueued == Enqueued(task, source, k[1], "refresh_articles", t)
  <2>2. enqueued \in Rows
    BY <1>1, <2>1, EnqueuedRows DEF TaskType
  <2>3. \/ task' = [task EXCEPT ![k] = Closed(@, "invalid")]
        \/ task' = [task EXCEPT ![k] = Closed(@, "done")]
        \/ task' = [enqueued EXCEPT ![k] = Closed(@, "done")]
    BY <1>8, Zenon DEF MootOutcome
  <2>4. source' = source
    BY <1>8 DEF MootOutcome
  <2>5. Closed(enqueued[k], "done") \in TaskRow
    BY <1>1, <2>2, RowTypes
  <2> HIDE DEF enqueued
  <2> QED
    BY <1>1, <1>2, <2>2, <2>3, <2>4, <2>5
<1>9. CASE RetrySource(w, k, t)
  <2> DEFINE s == k[1]
             at == item[w][k].at
  <2>1. s \in Source /\ at \in Nat
    BY <1>9, CommitsType DEF RetrySource, Records, SourceTask
  <2>2. CASE Exhausted(source[s].failures + 1)
    <3>1. /\ source' = [source EXCEPT ![s] =
                          FailedAt(@, "retry_exhausted", Null, at)]
          /\ task' = [Settled(task, s) EXCEPT ![k] = Closed(@, "invalid")]
      BY <1>9, <2>2 DEF RetrySource
    <3>2. Settled(task, s) \in Rows
      BY <1>1, <2>1, SettledRows
    <3>3. Closed(Settled(task, s)[k], "invalid") \in TaskRow
      BY <1>1, <3>2, RowTypes
    <3>4. FailedAt(source[s], "retry_exhausted", Null, at) \in SourceRow
      BY <1>1, <2>1, SourceTypes
    <3> QED
      BY <1>1, <3>1, <3>2, <3>3, <3>4
  <2>3. CASE ~Exhausted(source[s].failures + 1)
    <3>1. PICK next \in t + 1 .. t + MaxDelay :
            /\ source' = [source EXCEPT ![s] =
                            FailedAt(@, "retry_wait", next, at)]
            /\ task' = [j \in Task |->
                   IF j = k THEN Reopened(task[j], next)
                   ELSE IF j \in TasksOf(s) /\ task[j].status = "pending"
                   THEN [task[j] EXCEPT !.notBefore = Later(@, next)]
                   ELSE task[j]]
      BY <1>9, <2>3 DEF RetrySource
    <3>2. next \in Nat
      BY <1>1, QueueAssumption
    <3>3. FailedAt(source[s], "retry_wait", next, at) \in SourceRow
      BY <1>1, <2>1, <3>2, SourceTypes
    <3>4. ASSUME NEW j \in Task
          PROVE  [task[j] EXCEPT !.notBefore = Later(@, next)] \in TaskRow
      <4>1. Later(task[j].notBefore, next) \in Nat
        BY <1>1, <3>2 DEF TaskRow, Later
      <4> QED
        BY <1>1, <4>1, Zenon DEF TaskRow
    <3> QED
      BY <1>1, <1>2, <3>1, <3>2, <3>3, <3>4
  <2> QED
    BY <2>2, <2>3
<1>10. CASE InvalidateSource(w, k, t)
  <2> DEFINE s == k[1]
             at == item[w][k].at
  <2>1. s \in Source /\ at \in Nat
    BY <1>10, CommitsType DEF InvalidateSource, Records, SourceTask
  <2>2. PICK st \in {"unavailable", "ineligible"} :
           source' = [source EXCEPT ![s] = RejectedAt(@, st, at)]
    BY <1>10 DEF InvalidateSource
  <2>3. RejectedAt(source[s], st, at) \in SourceRow
    BY <1>1, <2>1, SourceTypes
  <2>4. Settled(task, s) \in Rows
    BY <1>1, <2>1, SettledRows
  <2>5. Closed(Settled(task, s)[k], "invalid") \in TaskRow
    BY <1>1, <2>4, RowTypes
  <2>6. task' = [Settled(task, s) EXCEPT ![k] = Closed(@, "invalid")]
    BY <1>10 DEF InvalidateSource
  <2> QED
    BY <1>1, <2>2, <2>3, <2>4, <2>5, <2>6
<1>11. CASE PersistSuccess(w, k, t)
  <2>1. k[1] \in Source /\ item[w][k].at \in Nat /\ k[2] \in TaskType
    BY <1>11, CommitsType DEF PersistSuccess, Records, SourceTask
  <2> DEFINE type == k[2]
  <2>2. PICK c \in Source :
         LET canonical == Canonical(k[1], type, c)
             adopted == Adopted(k[1], type, c)
         IN \/ /\ source' = adopted
               /\ task' = [task EXCEPT ![k] = Closed(@, "invalid")]
            \/ /\ source' = [adopted EXCEPT ![canonical] =
                               Succeeded(@, item[w][k].at)]
               /\ task' = [IF type = "validate_source"
                           THEN Enqueued(task, source', canonical,
                                         "refresh_articles", t)
                           ELSE task EXCEPT ![k] = Closed(@, "done")]
    BY <1>11 DEF PersistSuccess
  <2> DEFINE canonical == Canonical(k[1], type, c)
             adopted == Adopted(k[1], type, c)
             next == IF type = "validate_source"
                     THEN Enqueued(task, source', canonical,
                                   "refresh_articles", t)
                     ELSE task
  <2>3. adopted \in Catalog
    BY <2>1, AdoptedType
  <2>4. canonical \in Source
    BY <1>1, <2>1, CanonicalType
  <2>5. CASE /\ source' = adopted
             /\ task' = [task EXCEPT ![k] = Closed(@, "invalid")]
    <3> HIDE DEF adopted
    <3> QED
      BY <1>1, <1>2, <2>3, <2>5
  <2>6. CASE /\ source' = [adopted EXCEPT ![canonical] =
                             Succeeded(@, item[w][k].at)]
             /\ task' = [next EXCEPT ![k] = Closed(@, "done")]
    <3>1. Succeeded(adopted[canonical], item[w][k].at) \in SourceRow
      BY <2>1, <2>3, <2>4, SourceTypes
    <3>2. source' \in Catalog
      BY <2>3, <2>4, <2>6, <3>1
    <3>3. next \in Rows
      BY <1>1, <2>4, <3>2, EnqueuedRows DEF TaskType
    <3>4. Closed(next[k], "done") \in TaskRow
      BY <1>1, <3>3, RowTypes
    <3> HIDE DEF next
    <3> QED
      BY <2>6, <3>2, <3>3, <3>4
  <2> QED
    BY <2>2, <2>5, <2>6
<1> QED
  BY <1>3, <1>4, <1>5, <1>6, <1>7, <1>8, <1>9, <1>10, <1>11 DEF Transaction

LEMMA HandleType ==
    ASSUME TypeOK, NEW w \in Worker, NEW k \in Task, Handle(w, k)
    PROVE  TypeOK'
<1>1. CASE Process(w, k)
  <2>1. now \in Nat
    BY Clock
  <2>2. [phase |-> IF k \in Seed THEN "fetched" ELSE Branch(source[k[1]], k[2]),
         at |-> now] \in Item
    BY <2>1 DEF Item, Branch
  <2>3. item' \in [Worker -> [Task -> Item]]
    BY <1>1, <2>2 DEF Process, TypeOK
  <2> QED
    BY <1>1, <2>3 DEF Process, TypeOK
<1>2. CASE TaskError(w, k)
  <2>1. NoItem \in Item
    BY DEF NoItem, Item
  <2>2. [worker[w] EXCEPT !.failed = TRUE] \in WorkerState
    BY DEF TypeOK, WorkerState
  <2> QED
    BY <1>2, <2>1, <2>2 DEF TaskError, TypeOK
<1>3. ASSUME NEW t \in 0 .. now, Transaction(w, k, t)
      PROVE  TypeOK'
  <2>1. Commits(w, k, t)
    BY <1>3, TransactionCommits
  <2>2. task' \in Rows /\ source' \in Catalog
    BY <1>3, HandleRows
  <2> QED
    BY <2>1, <2>2, CommitsType DEF TypeOK, Rows, Catalog
<1> QED
  BY <1>1, <1>2, <1>3 DEF Handle, Transaction

LEMMA EnvironmentType ==
    ASSUME TypeOK,
           \/ \E w \in Worker : Cancel(w) \/ Crash(w)
           \/ \E s \in Source, type \in TaskType : Enqueue(s, type)
           \/ \E k \in Seed : EnqueueRelatedSeed(k)
           \/ Tick
    PROVE  TypeOK'
<1>1. ASSUME NEW w \in Worker, Cancel(w)
      PROVE  TypeOK'
  <2>1. NoItem \in Item
    BY DEF NoItem, Item
  <2>2. \A failed \in BOOLEAN : [worker[w] EXCEPT !.failed = failed] \in WorkerState
    BY DEF TypeOK, WorkerState
  <2>3. worker[w].failed \in BOOLEAN
    BY DEF TypeOK, WorkerState
  <2>4. worker' \in [Worker -> WorkerState]
    BY <1>1, <2>2, <2>3 DEF Cancel, TypeOK
  <2>5. item' \in [Worker -> [Task -> Item]]
    BY <1>1, <2>1 DEF Cancel, TypeOK
  <2> QED
    BY <1>1, <2>4, <2>5 DEF Cancel, TypeOK
<1>2. ASSUME NEW w \in Worker, Crash(w)
      PROVE  TypeOK'
  <2>1. NoItem \in Item /\ IdleWorker(Null) \in WorkerState
    BY DEF NoItem, Item, IdleWorker, WorkerState
  <2>2. NoBatch \in [Task -> Item]
    BY <2>1 DEF NoBatch
  <2> QED
    BY <1>2, <2>1, <2>2 DEF Crash, TypeOK
<1>3. ASSUME NEW s \in Source, NEW type \in TaskType, Enqueue(s, type)
      PROVE  TypeOK'
  <2>1. task' \in Rows
    BY <1>3, Clock, EnqueuedRows DEF Enqueue, TypeOK, Rows, Catalog
  <2> QED
    BY <1>3, <2>1 DEF Enqueue, TypeOK, Rows
<1>4. ASSUME NEW k \in Seed, EnqueueRelatedSeed(k)
      PROVE  TypeOK'
  <2>1. NewRow(now) \in TaskRow
    BY Clock DEF NewRow, NoRow, TaskRow
  <2> QED
    BY <1>4, <2>1 DEF EnqueueRelatedSeed, TypeOK, Task
<1>5. CASE Tick
  <2>1. MaxTime \in Nat
    BY QueueAssumption
  <2>2. now' \in Window
    BY <1>5, <2>1 DEF Tick, TypeOK, Window
  <2> QED
    BY <1>5, <2>2 DEF Tick, TypeOK, Window
<1> QED
  BY <1>1, <1>2, <1>3, <1>4, <1>5

LEMMA InitType == Init => TypeOK
<1> SUFFICES ASSUME Init PROVE TypeOK
  OBVIOUS
<1>1. now \in Window
  <2>1. MaxTime \in Nat \ {0}
    BY QueueAssumption
  <2> QED
    BY <2>1 DEF Init, Window
<1>2. \A st \in {"pending", "valid"} : FreshSource(st) \in SourceRow
  BY DEF FreshSource, SourceRow
<1>3. source \in [Source -> SourceRow]
  BY <1>2 DEF Init
<1>4. NoRow \in TaskRow /\ [status |-> "none", claimed |-> 0] \in RunRow
  BY DEF NoRow, TaskRow, RunRow
<1>5. IdleWorker(Null) \in WorkerState /\ NoItem \in Item
  BY DEF IdleWorker, WorkerState, NoItem, Item
<1> QED
  BY <1>1, <1>3, <1>4, <1>5 DEF Init, TypeOK, NoBatch

LEMMA NextType == TypeOK /\ [Next]_vars => TypeOK'
<1>1. ASSUME TypeOK, UNCHANGED vars PROVE TypeOK'
  BY <1>1 DEF vars, TypeOK, Window
<1> QED
  BY <1>1, DispatchType, HandleType, EnvironmentType DEF Next

\* Every variable keeps its type, for any catalog, any workers and any limits.
THEOREM TypeCorrect == Spec => []TypeOK
BY InitType, NextType, PTL DEF Spec

-----------------------------------------------------------------------------
(* Leases *)

\* task' differs from tasks in rows that are not leased before or after.
KeepsLeases(tasks, K) ==
    \A j \in Task \ K :
        (task[j].status = "leased" \/ tasks[j].status = "leased")
            => tasks[j] = task[j]

LEMMA EnqueuedKeepsLeases ==
    ASSUME TypeOK, NEW sources \in Catalog, NEW s \in Source,
           NEW type \in TaskType, NEW t \in Nat
    PROVE  KeepsLeases(Enqueued(task, sources, s, type, t), {})
<1>1. task \in Rows
  BY DEF TypeOK, Rows
<1>2. NewRow(t).status = "pending"
  BY DEF NewRow, NoRow
<1> QED
  BY <1>1, <1>2, EnqueuedRows DEF KeepsLeases

LEMMA SettledKeepsLeases ==
    ASSUME TypeOK, NEW s \in Source
    PROVE  KeepsLeases(Settled(task, s), {})
<1>1. task \in Rows
  BY DEF TypeOK, Rows
<1>2. \A j \in Task : Closed(task[j], "invalid").status = "invalid"
  BY <1>1, RowFields, Clock DEF Rows
<1> QED
  BY <1>1, <1>2, SettledRows DEF KeepsLeases

\* A transaction ends the lease of its own task; it neither touches the row of
\* another leased task nor leases one.
LEMMA TransactionLeases ==
    ASSUME TypeOK, NEW w \in Worker, NEW k \in Task, NEW t \in 0 .. now,
           Transaction(w, k, t)
    PROVE  task'[k].status # "leased" /\ KeepsLeases(task', {k})
<1>1. task \in Rows /\ source \in Catalog /\ t \in Nat
  BY Clock DEF TypeOK, Rows, Catalog
<1>2. \A j \in Task : /\ Closed(task[j], "done").status = "done"
                      /\ Closed(task[j], "invalid").status = "invalid"
                      /\ \A n \in Nat : /\ Reopened(task[j], n).status = "pending"
                                        /\ Retried(task[j], n).status = "pending"
  BY <1>1, RowFields, RetriedType DEF Rows
<1>3. ASSUME NEW row, row.status # "leased", task' = [task EXCEPT ![k] = row]
      PROVE  task'[k].status # "leased" /\ KeepsLeases(task', {k})
  BY <1>1, <1>3 DEF KeepsLeases, Rows
<1>4. ASSUME NEW tasks \in Rows, KeepsLeases(tasks, {}),
             NEW row, row.status # "leased", task' = [tasks EXCEPT ![k] = row]
      PROVE  task'[k].status # "leased" /\ KeepsLeases(task', {k})
  BY <1>1, <1>4 DEF KeepsLeases, Rows
<1>5. CASE FinishStopped(w, k, t) \/ InvalidateRelated(w, k, t)
  BY <1>2, <1>3, <1>5 DEF FinishStopped, InvalidateRelated
<1>6. CASE RetryRelated(w, k, t)
  <2>1. PICK next \in t + 1 .. t + MaxDelay :
           task' = [task EXCEPT ![k] = Retried(@, next)]
    BY <1>6 DEF RetryRelated
  <2>2. next \in Nat
    BY <1>1, QueueAssumption
  <2> QED
    BY <1>2, <1>3, <2>1, <2>2
<1>7. CASE CompleteRelated(w, k, t)
  <2>1. PICK C \in SUBSET Source :
           task' = [j \in Task |->
                      IF j = k THEN Closed(task[j], "done")
                      ELSE IF j \in C \X {"validate_source"}
                      THEN Enqueued(task, source, j[1], j[2], t)[j]
                      ELSE task[j]]
    BY <1>7 DEF CompleteRelated
  <2>2. \A j \in C \X {"validate_source"} :
           KeepsLeases(Enqueued(task, source, j[1], j[2], t), {})
    BY <1>1, EnqueuedKeepsLeases DEF TaskType
  <2> QED
    BY <1>2, <2>1, <2>2 DEF KeepsLeases
<1>8. CASE DeferSourceTask(w, k, t)
  <2> DEFINE row == source[k[1]]
             next == IF row.next = Null THEN t ELSE row.next
  <2>1. row \in SourceRow
    BY <1>1, <1>8 DEF DeferSourceTask, SourceTask, Catalog
  <2>2. \/ task' = [task EXCEPT ![k] = Closed(@, "invalid")]
        \/ task' = [task EXCEPT ![k] = Reopened(@, next)]
    BY <1>8, Zenon DEF DeferSourceTask
  <2>3. next \in Nat
    BY <1>1, <2>1 DEF SourceRow
  <2> HIDE DEF next
  <2> QED
    BY <1>2, <1>3, <2>2, <2>3
<1>9. CASE MootOutcome(w, k, t)
  <2>1. k[1] \in Source
    BY <1>9 DEF MootOutcome, SourceTask
  <2> DEFINE enqueued == Enqueued(task, source, k[1], "refresh_articles", t)
  <2>2. enqueued \in Rows /\ KeepsLeases(enqueued, {})
    BY <1>1, <2>1, EnqueuedRows, EnqueuedKeepsLeases DEF TaskType
  <2>3. \/ task' = [task EXCEPT ![k] = Closed(@, "invalid")]
        \/ task' = [task EXCEPT ![k] = Closed(@, "done")]
        \/ task' = [enqueued EXCEPT ![k] = Closed(@, "done")]
    BY <1>9, Zenon DEF MootOutcome
  <2>4. Closed(enqueued[k], "done").status = "done"
    BY <1>1, <2>2, RowFields DEF Rows
  <2> HIDE DEF enqueued
  <2> QED
    BY <1>2, <1>3, <1>4, <2>2, <2>3, <2>4
<1>10. CASE RetrySource(w, k, t)
  <2> DEFINE s == k[1]
  <2>1. s \in Source
    BY <1>10 DEF RetrySource, Records, SourceTask
  <2>2. Settled(task, s) \in Rows /\ KeepsLeases(Settled(task, s), {})
    BY <1>1, <2>1, SettledRows, SettledKeepsLeases
  <2>3. Closed(Settled(task, s)[k], "invalid").status = "invalid"
    BY <1>1, <2>2, RowFields DEF Rows
  <2>4. CASE task' = [Settled(task, s) EXCEPT ![k] = Closed(@, "invalid")]
    BY <1>4, <2>2, <2>3, <2>4
  <2>5. ASSUME NEW next \in t + 1 .. t + MaxDelay,
               task' = [j \in Task |->
                   IF j = k THEN Reopened(task[j], next)
                   ELSE IF j \in TasksOf(s) /\ task[j].status = "pending"
                   THEN [task[j] EXCEPT !.notBefore = Later(@, next)]
                   ELSE task[j]]
        PROVE  task'[k].status # "leased" /\ KeepsLeases(task', {k})
    <3>1. next \in Nat
      BY <1>1, QueueAssumption
    <3>2. \A j \in Task : task[j] \in TaskRow
      BY <1>1 DEF Rows
    <3>3. \A j \in Task : task[j].status = "pending" =>
             [task[j] EXCEPT !.notBefore = Later(@, next)].status = "pending"
      BY <3>2 DEF TaskRow
    <3> QED
      BY <1>2, <2>5, <3>1, <3>3 DEF KeepsLeases
  <2> QED
    BY <1>10, <2>4, <2>5 DEF RetrySource
<1>11. CASE InvalidateSource(w, k, t)
  <2> DEFINE s == k[1]
  <2>1. s \in Source
    BY <1>11 DEF InvalidateSource, Records, SourceTask
  <2>2. Settled(task, s) \in Rows /\ KeepsLeases(Settled(task, s), {})
    BY <1>1, <2>1, SettledRows, SettledKeepsLeases
  <2>3. Closed(Settled(task, s)[k], "invalid").status = "invalid"
    BY <1>1, <2>2, RowFields DEF Rows
  <2> QED
    BY <1>4, <1>11, <2>2, <2>3 DEF InvalidateSource
<1>12. CASE PersistSuccess(w, k, t)
  <2>1. k[1] \in Source
    BY <1>12 DEF PersistSuccess, Records, SourceTask
  <2> DEFINE type == k[2]
  <2>2. PICK c \in Source :
         LET canonical == Canonical(k[1], type, c)
         IN \/ task' = [task EXCEPT ![k] = Closed(@, "invalid")]
            \/ task' = [IF type = "validate_source"
                        THEN Enqueued(task, source', canonical,
                                      "refresh_articles", t)
                        ELSE task EXCEPT ![k] = Closed(@, "done")]
    BY <1>12 DEF PersistSuccess
  <2> DEFINE canonical == Canonical(k[1], type, c)
             next == IF type = "validate_source"
                     THEN Enqueued(task, source', canonical,
                                   "refresh_articles", t)
                     ELSE task
  <2>3. canonical \in Source
    BY <1>1, <2>1, CanonicalType
  <2>4. source' \in Catalog
    BY <1>12, HandleRows DEF Transaction
  <2>5. KeepsLeases(task, {})
    BY DEF KeepsLeases
  <2>6. next \in Rows /\ KeepsLeases(next, {})
    BY <1>1, <2>3, <2>4, <2>5, EnqueuedRows, EnqueuedKeepsLeases DEF TaskType
  <2>7. Closed(next[k], "done").status = "done"
    BY <1>1, <2>6, RowFields DEF Rows
  <2>8. \/ task' = [task EXCEPT ![k] = Closed(@, "invalid")]
        \/ task' = [next EXCEPT ![k] = Closed(@, "done")]
    BY <2>2
  <2> HIDE DEF next
  <2> QED
    BY <1>2, <1>3, <1>4, <2>6, <2>7, <2>8
<1> QED
  BY <1>5, <1>6, <1>7, <1>8, <1>9, <1>10, <1>11, <1>12 DEF Transaction

\* The steps that lease nothing: everything but RecoverExpired and ClaimRun.
LEMMA QuietSteps ==
    ASSUME TypeOK,
           \/ \E w \in Worker : \/ DispatchError(w) \/ FinishRun(w)
                                \/ Cancel(w) \/ Crash(w)
           \/ \E w \in Worker, k \in Task : Process(w, k) \/ TaskError(w, k)
           \/ \E s \in Source, type \in TaskType : Enqueue(s, type)
           \/ \E k \in Seed : EnqueueRelatedSeed(k)
           \/ Tick
           \/ UNCHANGED vars
    PROVE  KeepsLeases(task', {})
<1>1. CASE task' = task
  BY <1>1 DEF KeepsLeases
<1>2. ASSUME NEW s \in Source, NEW type \in TaskType, Enqueue(s, type)
      PROVE  KeepsLeases(task', {})
  BY <1>2, Clock, EnqueuedKeepsLeases DEF Enqueue, TypeOK, Catalog
<1>3. ASSUME NEW k \in Seed, EnqueueRelatedSeed(k)
      PROVE  KeepsLeases(task', {})
  <2>1. NewRow(now).status = "pending"
    BY DEF NewRow, NoRow
  <2> QED
    BY <1>3, <2>1 DEF EnqueueRelatedSeed, Active, KeepsLeases, TypeOK, Task
<1> QED
  BY <1>1, <1>2, <1>3, Zenon DEF DispatchError, FinishRun, Cancel, Crash,
       Process, TaskError, Tick, vars

LEMMA OneBatchKept ==
    ASSUME OneBatch, \A j \in Task : task'[j].status = "leased" => task'[j] = task[j]
    PROVE  OneBatch'
BY DEF OneBatch, Leased

\* A lease of every leased task at once leaves one batch.
LEMMA OneBatchLeased ==
    ASSUME TypeOK, NEW w \in Worker, NEW K \in SUBSET Task, NEW r,
           Lease(w, K, r), Leased \subseteq K
    PROVE  OneBatch'
<1>1. task' = [k \in Task |->
                 IF k \in K
                 THEN [task[k] EXCEPT !.status = "leased", !.run = r,
                         !.token = lastToken', !.expires = now + LeaseLength]
                 ELSE task[k]]
  BY Zenon DEF Lease
<1>2. \A k \in K : /\ task'[k].run = r /\ task'[k].token = lastToken'
                   /\ task'[k].expires = now + LeaseLength
  BY <1>1 DEF TypeOK, TaskRow
<1>3. \A k \in Task \ K : task'[k] = task[k] /\ task[k].status # "leased"
  BY <1>1 DEF Leased
<1> QED
  BY <1>2, <1>3, Zenon DEF OneBatch, Leased

LEMMA OneBatchStep == TypeOK /\ OneBatch /\ [Next]_vars => OneBatch'
<1> SUFFICES ASSUME TypeOK, OneBatch, [Next]_vars PROVE OneBatch'
  OBVIOUS
<1>1. ASSUME KeepsLeases(task', {}) PROVE OneBatch'
  BY <1>1, OneBatchKept DEF KeepsLeases
<1>2. ASSUME NEW w \in Worker, RecoverExpired(w) PROVE OneBatch'
  <2>1. CASE Leased = Expired /\ Expired # {}
    <3>1. PICK r \in {task[k].run : k \in Expired} :
             Lease(w, {k \in Expired : task[k].run = r}, r)
      BY <1>2, <2>1 DEF RecoverExpired
    <3>2. Leased \subseteq {k \in Expired : task[k].run = r}
      BY <2>1, <3>1 DEF OneBatch
    <3> QED
      BY <3>1, <3>2, OneBatchLeased DEF Expired, Leased
  <2>2. CASE ~(Leased = Expired /\ Expired # {})
    <3>1. task' = task
      BY <1>2, <2>2 DEF RecoverExpired
    <3> QED
      BY <1>1, <3>1 DEF KeepsLeases
  <2> QED
    BY <2>1, <2>2
<1>3. ASSUME NEW w \in Worker, ClaimRun(w) PROVE OneBatch'
  <2>1. CASE task' = task
    BY <1>1, <2>1 DEF KeepsLeases
  <2>2. ASSUME NEW K \in SUBSET {k \in Task : Claimable(k)}, K # {},
               Lease(w, K, worker[w].run)
        PROVE  OneBatch'
    BY <2>2, OneBatchLeased DEF Claimable
  <2> QED
    BY <1>3, <2>1, <2>2 DEF ClaimRun
<1>4. ASSUME NEW w \in Worker, NEW k \in Task, NEW t \in 0 .. now,
             Transaction(w, k, t)
      PROVE  OneBatch'
  BY <1>4, TransactionLeases, OneBatchKept DEF KeepsLeases
<1> QED
  BY <1>1, <1>2, <1>3, <1>4, QuietSteps DEF Next, Dispatch, Handle, Transaction

\* However many workers dispatch, recover, crash and restart, all the tasks on
\* lease belong to one batch.
THEOREM OneBatchAlways == Spec => []OneBatch
<1>1. Init => OneBatch
  BY DEF Init, OneBatch, Leased, NoRow
<1> QED
  BY <1>1, OneBatchStep, TypeCorrect, PTL DEF Spec

\* No step rewrites a leased row but the handler that holds its token, and a
\* recovery after its expiry, which hands it on within its run.
THEOREM FencedAlways == Spec => Fenced
<1> DEFINE Step == \A k \in Task : task[k].status = "leased" /\ task'[k] # task[k] =>
          \/ \E w \in Worker : /\ worker[w].token = task[k].token
                               /\ item[w][k] # NoItem /\ item'[w][k] = NoItem
          \/ /\ task[k].expires <= now
             /\ task'[k] = [task[k] EXCEPT !.token = lastToken',
                                           !.expires = now + LeaseLength]
<1>1. TypeOK /\ [Next]_vars => [Step]_vars
  <2> SUFFICES ASSUME TypeOK, [Next]_vars PROVE Step
    OBVIOUS
  <2>1. ASSUME KeepsLeases(task', {}) PROVE Step
    BY <2>1 DEF KeepsLeases
  <2>2. ASSUME NEW w \in Worker, RecoverExpired(w) PROVE Step
    <3>1. CASE Leased = Expired /\ Expired # {}
      <4>1. PICK r \in {task[k].run : k \in Expired} :
               Lease(w, {k \in Expired : task[k].run = r}, r)
        BY <2>2, <3>1 DEF RecoverExpired
      <4> DEFINE K == {k \in Expired : task[k].run = r}
      <4>2. task' = [k \in Task |->
                 IF k \in K
                 THEN [task[k] EXCEPT !.status = "leased", !.run = r,
                         !.token = lastToken', !.expires = now + LeaseLength]
                 ELSE task[k]]
        BY <4>1, Zenon DEF Lease
      <4>3. \A k \in K : /\ task[k].expires <= now /\ task[k].run = r
                         /\ task[k].status = "leased" /\ task[k] \in TaskRow
        BY DEF Expired, Leased, TypeOK
      <4>4. \A k \in K : task'[k] = [task[k] EXCEPT !.token = lastToken',
                                            !.expires = now + LeaseLength]
        BY <4>2, <4>3 DEF TaskRow, Expired, Leased
      <4>5. \A k \in Task \ K : task'[k] = task[k]
        BY <4>2
      <4> QED
        BY <4>3, <4>4, <4>5
    <3>2. CASE ~(Leased = Expired /\ Expired # {})
      BY <2>2, <3>2 DEF RecoverExpired
    <3> QED
      BY <3>1, <3>2
  <2>3. ASSUME NEW w \in Worker, ClaimRun(w) PROVE Step
    <3>1. CASE task' = task
      BY <3>1
    <3>2. ASSUME NEW K \in SUBSET {k \in Task : Claimable(k)}, K # {},
                 Lease(w, K, worker[w].run)
          PROVE  Step
      BY <3>2 DEF Claimable, Leased
    <3> QED
      BY <2>3, <3>1, <3>2 DEF ClaimRun
  <2>4. ASSUME NEW w \in Worker, NEW k \in Task, NEW t \in 0 .. now,
               Transaction(w, k, t)
        PROVE  Step
    <3>1. Commits(w, k, t)
      BY <2>4, TransactionCommits
    <3>2. /\ item[w][k] # NoItem /\ item'[w][k] = NoItem
          /\ worker[w].token = task[k].token
      BY <3>1 DEF Commits, Holds, NoItem, TypeOK
    <3>3. \A j \in Task \ {k} : task[j].status = "leased" => task'[j] = task[j]
      BY <2>4, TransactionLeases DEF KeepsLeases
    <3> QED
      BY <3>2, <3>3
  <2> QED
    BY <2>1, <2>2, <2>3, <2>4, QuietSteps DEF Next, Dispatch, Handle, Transaction
<1> QED
  BY <1>1, TypeCorrect, PTL DEF Spec, Fenced

-----------------------------------------------------------------------------
(* Retry states *)

SameSchedule(new, old) ==
    new.state = old.state /\ new.failures = old.failures /\ new.next = old.next

\* The outcomes that a source which has not stopped may record.
Rescheduled(new, old) ==
    \/ new.state = "active" /\ new.failures = 0 /\ new.next = Null
    \/ /\ Exhausted(old.failures + 1)
       /\ new.state = "retry_exhausted" /\ new.failures = old.failures + 1
    \/ /\ ~Exhausted(old.failures + 1)
       /\ new.state = "retry_wait" /\ new.failures = old.failures + 1
       /\ new.next \in Nat \ {0}
    \/ new.state \in {"unavailable", "ineligible"}

LEMMA FailedFields ==
    ASSUME NEW row \in SourceRow, NEW at, NEW next, NEW st
    PROVE  /\ FailedAt(row, st, next, at).state = st
           /\ FailedAt(row, st, next, at).next = next
           /\ FailedAt(row, st, next, at).failures = row.failures + 1
BY DEF SourceRow, FailedAt

LEMMA RejectedFields ==
    ASSUME NEW row \in SourceRow, NEW at, NEW st
    PROVE  RejectedAt(row, st, at).state = st
BY DEF SourceRow, RejectedAt

LEMMA SucceededFields ==
    ASSUME NEW row \in SourceRow, NEW at
    PROVE  \/ Succeeded(row, at) = row
           \/ /\ Succeeded(row, at).state = "active"
              /\ Succeeded(row, at).failures = 0
              /\ Succeeded(row, at).next = Null
BY DEF SourceRow, Succeeded

LEMMA AdoptedSchedule ==
    ASSUME TypeOK, NEW s \in Source, NEW type, NEW c, NEW r \in Source
    PROVE  SameSchedule(Adopted(s, type, c)[r], source[r])
<1>1. source[s] \in SourceRow
  BY DEF TypeOK
<1>2. CASE r = s /\ Adopted(s, type, c) # source
  <2> DEFINE merged == [source[s] EXCEPT !.status = "invalid", !.merged = c]
  <2>1. Adopted(s, type, c)[r] = merged
    BY <1>2 DEF Adopted, TypeOK
  <2>2. SameSchedule(merged, source[s])
    BY <1>1 DEF SourceRow, SameSchedule
  <2> HIDE DEF merged
  <2> QED
    BY <1>2, <2>1, <2>2
<1>3. CASE ~(r = s /\ Adopted(s, type, c) # source)
  BY <1>3 DEF Adopted, TypeOK, SameSchedule
<1> QED
  BY <1>2, <1>3

\* A transaction changes the schedule of no source but one that has not
\* stopped, and to one of the recordable outcomes.
LEMMA TransactionSources ==
    ASSUME TypeOK, NEW w \in Worker, NEW k \in Task, NEW t \in 0 .. now,
           Transaction(w, k, t), NEW s \in Source
    PROVE  \/ SameSchedule(source'[s], source[s])
           \/ ~Stopped(source[s]) /\ Rescheduled(source'[s], source[s])
<1> DEFINE Goal == \/ SameSchedule(source'[s], source[s])
                   \/ ~Stopped(source[s]) /\ Rescheduled(source'[s], source[s])
           at == item[w][k].at
<1>1. t \in Nat /\ source[s] \in SourceRow
  BY Clock DEF TypeOK
<1>2. CASE source' = source
  BY <1>2 DEF SameSchedule
<1>3. CASE RetrySource(w, k, t)
  <2>1. ~Stopped(source[k[1]])
    BY <1>3 DEF RetrySource, Records
  <2>2. CASE s # k[1]
    BY <1>3, <2>2 DEF RetrySource, SameSchedule, TypeOK
  <2>3. CASE s = k[1] /\ Exhausted(source[s].failures + 1)
    <3>1. source'[s] = FailedAt(source[s], "retry_exhausted", Null, at)
      BY <1>3, <2>3 DEF RetrySource, TypeOK
    <3> QED
      BY <1>1, <2>1, <2>3, <3>1, FailedFields DEF Rescheduled
  <2>4. CASE s = k[1] /\ ~Exhausted(source[s].failures + 1)
    <3>1. PICK next \in t + 1 .. t + MaxDelay :
             source'[s] = FailedAt(source[s], "retry_wait", next, at)
      BY <1>3, <2>4 DEF RetrySource, TypeOK
    <3>2. next \in Nat \ {0}
      BY <1>1, QueueAssumption
    <3> QED
      BY <1>1, <2>1, <2>4, <3>1, <3>2, FailedFields DEF Rescheduled
  <2> QED
    BY <2>2, <2>3, <2>4
<1>4. CASE InvalidateSource(w, k, t)
  <2>1. ~Stopped(source[k[1]])
    BY <1>4 DEF InvalidateSource, Records
  <2>2. PICK st \in {"unavailable", "ineligible"} :
           source' = [source EXCEPT ![k[1]] = RejectedAt(@, st, at)]
    BY <1>4 DEF InvalidateSource
  <2>3. CASE s # k[1]
    BY <2>2, <2>3 DEF SameSchedule, TypeOK
  <2>4. CASE s = k[1]
    BY <1>1, <2>1, <2>2, <2>4, RejectedFields DEF Rescheduled, TypeOK
  <2> QED
    BY <2>3, <2>4
<1>5. CASE PersistSuccess(w, k, t)
  <2>1. k[1] \in Source /\ k[2] \in TaskType
    BY <1>5 DEF PersistSuccess, Records, SourceTask
  <2>2. PICK c \in Source :
         LET canonical == Canonical(k[1], k[2], c)
             adopted == Adopted(k[1], k[2], c)
         IN \/ source' = adopted
            \/ /\ ~Unavailable(adopted[canonical])
               /\ source' = [adopted EXCEPT ![canonical] = Succeeded(@, at)]
    BY <1>5 DEF PersistSuccess
  <2> DEFINE canonical == Canonical(k[1], k[2], c)
             adopted == Adopted(k[1], k[2], c)
  <2>3. adopted \in Catalog /\ canonical \in Source
    BY <2>1, AdoptedType, CanonicalType DEF TypeOK, Catalog
  <2>4. \A r \in Source : SameSchedule(adopted[r], source[r])
    BY <2>1, AdoptedSchedule
  <2> HIDE DEF adopted, canonical
  <2>5. CASE source' = adopted
    BY <2>4, <2>5
  <2>6. CASE /\ ~Unavailable(adopted[canonical])
             /\ source' = [adopted EXCEPT ![canonical] = Succeeded(@, at)]
    <3>1. CASE s # canonical
      BY <2>3, <2>4, <2>6, <3>1 DEF Catalog
    <3>2. CASE s = canonical
      <4>1. source'[s] = Succeeded(adopted[s], at) /\ adopted[s] \in SourceRow
        BY <2>3, <2>6, <3>2 DEF Catalog
      <4>2. ~Stopped(source[s])
        BY <2>4, <2>6, <3>2 DEF Unavailable, Stopped, SameSchedule
      <4>3. CASE Succeeded(adopted[s], at) = adopted[s]
        BY <2>4, <4>1, <4>3
      <4>4. CASE /\ Succeeded(adopted[s], at).state = "active"
                 /\ Succeeded(adopted[s], at).failures = 0
                 /\ Succeeded(adopted[s], at).next = Null
        BY <4>1, <4>2, <4>4 DEF Rescheduled
      <4> QED
        BY <4>1, <4>3, <4>4, SucceededFields
    <3> QED
      BY <3>1, <3>2
  <2> QED
    BY <2>2, <2>5, <2>6 DEF adopted, canonical
<1>6. \/ source' = source \/ RetrySource(w, k, t)
      \/ InvalidateSource(w, k, t) \/ PersistSuccess(w, k, t)
  BY DEF Transaction, FinishStopped, DeferSourceTask, MootOutcome,
       CompleteRelated, RetryRelated, InvalidateRelated
<1> QED
  BY <1>2, <1>3, <1>4, <1>5, <1>6

LEMMA CatalogStep ==
    ASSUME TypeOK, [Next]_vars
    PROVE  \/ source' = source
           \/ \E w \in Worker, k \in Task, t \in 0 .. now : Transaction(w, k, t)
BY Zenon DEF Next, Dispatch, Handle, Transaction, RecoverExpired, ClaimRun,
     DispatchError, FinishRun, Cancel, Crash, Process, TaskError, Enqueue,
     EnqueueRelatedSeed, Tick, vars

\* A source that is unavailable, ineligible or has exhausted its retries keeps
\* that state and its failures, whichever worker writes and in whatever order.
THEOREM StoppedStickyAlways == Spec => StoppedSticky
<1>1. TypeOK /\ [Next]_vars => [StoppedStickyStep]_vars
  BY CatalogStep, TransactionSources DEF SameSchedule, StoppedStickyStep
<1> QED
  BY <1>1, TypeCorrect, PTL DEF Spec, StoppedSticky

\* The counters and deadlines of every source agree with its retry state.
THEOREM RetryBudgetAlways == Spec => []RetryBudgetKept
<1> DEFINE Kept(row) ==
      /\ row.state = "active" => row.failures = 0 /\ row.next = Null
      /\ row.state = "retry_wait" => /\ row.failures \in 1 .. RetryBudget
                                     /\ row.next # Null
      /\ row.state = "retry_exhausted" => row.failures = RetryBudget + 1
<1>1. RetryBudgetKept <=> \A s \in Source : Kept(source[s])
  BY DEF RetryBudgetKept
<1>2. RetryBudgetKept' <=> \A s \in Source : Kept(source'[s])
  BY DEF RetryBudgetKept
<1>3. Init => RetryBudgetKept
  <2> SUFFICES ASSUME Init, NEW s \in Source PROVE Kept(source[s])
    BY <1>1
  <2> QED
    BY DEF Init, FreshSource
<1>4. TypeOK /\ RetryBudgetKept /\ [Next]_vars => RetryBudgetKept'
  <2> SUFFICES ASSUME TypeOK, RetryBudgetKept, [Next]_vars, NEW s \in Source
               PROVE  Kept(source'[s])
    BY <1>2
  <2>1. Kept(source[s]) /\ source[s] \in SourceRow
    BY <1>1 DEF TypeOK
  <2>2. CASE SameSchedule(source'[s], source[s])
    BY <2>1, <2>2 DEF SameSchedule
  <2>3. CASE ~Stopped(source[s]) /\ Rescheduled(source'[s], source[s])
    <3>1. RetryBudget \in Nat \ {0}
      BY QueueAssumption
    <3>2. source[s].state \in {"active", "retry_wait"}
      BY <2>1, <2>3 DEF Stopped, SourceRow
    <3>3. source[s].failures \in 0 .. RetryBudget
      BY <2>1, <3>1, <3>2
    <3> QED
      BY <2>3, <3>1, <3>3 DEF Rescheduled, Exhausted
  <2> QED
    BY <2>2, <2>3, CatalogStep, TransactionSources DEF SameSchedule
<1> QED
  BY <1>3, <1>4, TypeCorrect, PTL DEF Spec

\* A pending task fits its source: the source has not stopped, and while it
\* waits for a retry the task waits as long.
Fit(row, src) ==
    row.status = "pending" =>
        /\ ~Stopped(src)
        /\ src.state = "retry_wait" => row.notBefore >= src.next

AllFit(tasks, sources) ==
    \A s \in Source : \A k \in TasksOf(s) : Fit(tasks[k], sources[s])

LEMMA FitMeans ==
    /\ AllFit(task, source) <=> NoPendingForStopped /\ PendingRespectsRetry
    /\ AllFit(task', source') <=> NoPendingForStopped' /\ PendingRespectsRetry'
BY DEF AllFit, Fit, NoPendingForStopped, PendingRespectsRetry

LEMMA Tasks ==
    /\ \A s \in Source : \A k \in TasksOf(s) :
          /\ k \in Task /\ k \notin Seed /\ k[1] = s
          /\ \A r \in Source : k \in TasksOf(r) => r = s
    /\ \A k \in SourceTask : /\ k \in Task /\ k \in TasksOf(k[1])
                             /\ k[1] \in Source /\ k[2] \in TaskType
<1>1. \A s \in Source : \A k \in TasksOf(s) : k \in SourceTask /\ k[1] = s
  BY DEF TasksOf, SourceTask
<1>2. \A k \in SourceTask : k \in Task /\ k \notin Seed
  BY QueueAssumption, Zenon DEF Task, SourceTask, TaskType
<1>3. \A k \in SourceTask : k \in TasksOf(k[1]) /\ k[1] \in Source /\ k[2] \in TaskType
  BY DEF TasksOf, SourceTask
<1> QED
  BY <1>1, <1>2, <1>3

LEMMA EnqueuedFits ==
    ASSUME NEW tasks \in Rows, NEW sources \in Catalog, AllFit(tasks, sources),
           NEW s \in Source, NEW type \in TaskType, NEW t \in Nat
    PROVE  AllFit(Enqueued(tasks, sources, s, type, t), sources)
<1> SUFFICES ASSUME NEW r \in Source, NEW k \in TasksOf(r)
             PROVE  Fit(Enqueued(tasks, sources, s, type, t)[k], sources[r])
  BY DEF AllFit
<1>1. CASE Enqueued(tasks, sources, s, type, t)[k] = tasks[k]
  BY <1>1 DEF AllFit
<1>2. CASE /\ k = <<s, type>> /\ CanEnqueue(sources[s], t)
           /\ Enqueued(tasks, sources, s, type, t)[k] = NewRow(t)
  <2>1. r = s /\ NewRow(t).notBefore = t
    BY <1>2, Tasks DEF NewRow, NoRow
  <2>2. sources[s].next \in Nat
    BY DEF Catalog, SourceRow
  <2> QED
    BY <1>2, <2>1, <2>2 DEF Fit, CanEnqueue
<1> QED
  BY <1>1, <1>2, Tasks, EnqueuedRows

\* Closing every pending task of s makes room for any row of s.
LEMMA SettledFits ==
    ASSUME NEW tasks \in Rows, NEW sources \in Catalog, AllFit(tasks, sources),
           NEW s \in Source, NEW new
    PROVE  AllFit(Settled(tasks, s), [sources EXCEPT ![s] = new])
<1> SUFFICES ASSUME NEW r \in Source, NEW k \in TasksOf(r)
             PROVE  Fit(Settled(tasks, s)[k], [sources EXCEPT ![s] = new][r])
  BY DEF AllFit
<1>1. k \in Task /\ (r = s <=> k \in TasksOf(s)) /\ Fit(tasks[k], sources[r])
  BY Tasks DEF AllFit
<1>2. tasks[k] \in TaskRow /\ Closed(tasks[k], "invalid").status = "invalid"
  BY <1>1, RowFields DEF Rows
<1> QED
  BY <1>1, <1>2, SettledRows DEF Fit, Catalog

\* A row that is not pending, or that fits, may replace any.
LEMMA ReplacedFits ==
    ASSUME NEW tasks \in Rows, NEW sources, AllFit(tasks, sources),
           NEW k \in Task, NEW row,
           row.status # "pending" \/ k \in Seed
    PROVE  AllFit([tasks EXCEPT ![k] = row], sources)
BY Tasks DEF AllFit, Fit, Rows

LEMMA TransactionFits ==
    ASSUME TypeOK, AllFit(task, source), NEW w \in Worker, NEW k \in Task,
           NEW t \in 0 .. now, Transaction(w, k, t)
    PROVE  AllFit(task', source')
<1> DEFINE at == item[w][k].at
<1>1. task \in Rows /\ source \in Catalog /\ t \in Nat
  BY Clock DEF TypeOK, Rows, Catalog
<1>2. ASSUME NEW tasks \in Rows
      PROVE  \A j \in Task : /\ Closed(tasks[j], "done").status = "done"
                             /\ Closed(tasks[j], "invalid").status = "invalid"
  BY <1>1, RowFields DEF Rows
<1>3. CASE FinishStopped(w, k, t) \/ InvalidateRelated(w, k, t)
  BY <1>1, <1>2, <1>3, ReplacedFits DEF FinishStopped, InvalidateRelated
<1>4. CASE RetryRelated(w, k, t)
  BY <1>1, <1>4, ReplacedFits DEF RetryRelated
<1>5. CASE CompleteRelated(w, k, t)
  <2>1. PICK C \in SUBSET Source :
           task' = [j \in Task |->
                      IF j = k THEN Closed(task[j], "done")
                      ELSE IF j \in C \X {"validate_source"}
                      THEN Enqueued(task, source, j[1], j[2], t)[j]
                      ELSE task[j]]
    BY <1>5 DEF CompleteRelated
  <2> SUFFICES ASSUME NEW s \in Source, NEW j \in TasksOf(s)
               PROVE  Fit(task'[j], source'[s])
    BY DEF AllFit
  <2>2. j \in Task /\ j # k /\ source' = source /\ Fit(task[j], source[s])
    BY <1>5, Tasks DEF AllFit, CompleteRelated
  <2>3. CASE j \in C \X {"validate_source"}
    <3>1. j[1] \in Source /\ j[2] \in TaskType
      BY <2>3 DEF TaskType
    <3>2. AllFit(Enqueued(task, source, j[1], j[2], t), source)
      BY <1>1, <3>1, EnqueuedFits
    <3> QED
      BY <2>1, <2>2, <2>3, <3>2 DEF AllFit
  <2>4. CASE j \notin C \X {"validate_source"}
    BY <2>1, <2>2, <2>4
  <2> QED
    BY <2>3, <2>4
<1>6. CASE DeferSourceTask(w, k, t)
  <2> DEFINE row == source[k[1]]
             next == IF row.next = Null THEN t ELSE row.next
  <2>1. k \in SourceTask /\ row \in SourceRow /\ source' = source
    BY <1>1, <1>6 DEF DeferSourceTask, SourceTask, Catalog
  <2>2. \/ task' = [task EXCEPT ![k] = Closed(@, "invalid")]
        \/ ~Stopped(row) /\ task' = [task EXCEPT ![k] = Reopened(@, next)]
    BY <1>6, Zenon DEF DeferSourceTask
  <2>3. next \in Nat /\ next >= row.next
    BY <1>1, <2>1 DEF SourceRow
  <2> HIDE DEF next
  <2>4. Reopened(task[k], next).notBefore = next
    BY <1>1, <2>3, RowFields DEF Rows
  <2>5. CASE ~Stopped(row) /\ task' = [task EXCEPT ![k] = Reopened(@, next)]
    BY <1>1, <2>1, <2>3, <2>4, <2>5, Tasks DEF AllFit, Fit, Rows
  <2> QED
    BY <1>1, <1>2, <2>1, <2>2, <2>5, ReplacedFits
<1>7. CASE MootOutcome(w, k, t)
  <2>1. k[1] \in Source /\ source' = source
    BY <1>7 DEF MootOutcome, SourceTask
  <2> DEFINE enqueued == Enqueued(task, source, k[1], "refresh_articles", t)
  <2>2. enqueued \in Rows /\ AllFit(enqueued, source)
    BY <1>1, <2>1, EnqueuedRows, EnqueuedFits DEF TaskType
  <2>3. \/ task' = [task EXCEPT ![k] = Closed(@, "invalid")]
        \/ task' = [task EXCEPT ![k] = Closed(@, "done")]
        \/ task' = [enqueued EXCEPT ![k] = Closed(@, "done")]
    BY <1>7, Zenon DEF MootOutcome
  <2> HIDE DEF enqueued
  <2> QED
    BY <1>1, <1>2, <2>1, <2>2, <2>3, ReplacedFits
<1>8. CASE RetrySource(w, k, t)
  <2> DEFINE s == k[1]
  <2>1. k \in SourceTask /\ s \in Source
    BY <1>8, Tasks DEF RetrySource, Records
  <2>2. CASE /\ source' = [source EXCEPT ![s] =
                             FailedAt(@, "retry_exhausted", Null, at)]
             /\ task' = [Settled(task, s) EXCEPT ![k] = Closed(@, "invalid")]
    <3>1. Settled(task, s) \in Rows /\ AllFit(Settled(task, s), source')
      BY <1>1, <2>1, <2>2, SettledRows, SettledFits
    <3> QED
      BY <1>2, <2>2, <3>1, ReplacedFits
  <2>3. ASSUME NEW next \in t + 1 .. t + MaxDelay,
               source' = [source EXCEPT ![s] =
                            FailedAt(@, "retry_wait", next, at)],
               task' = [j \in Task |->
                   IF j = k THEN Reopened(task[j], next)
                   ELSE IF j \in TasksOf(s) /\ task[j].status = "pending"
                   THEN [task[j] EXCEPT !.notBefore = Later(@, next)]
                   ELSE task[j]]
        PROVE  AllFit(task', source')
    <3>1. next \in Nat
      BY <1>1, QueueAssumption
    <3> SUFFICES ASSUME NEW r \in Source, NEW j \in TasksOf(r)
                 PROVE  Fit(task'[j], source'[r])
      BY DEF AllFit
    <3>2. j \in Task /\ (r = s <=> j \in TasksOf(s)) /\ task[j] \in TaskRow
      BY <1>1, <2>1, Tasks DEF Rows
    <3>3. CASE r # s
      BY <1>1, <2>1, <2>3, <3>2, <3>3, Tasks DEF AllFit, Catalog
    <3>4. CASE r = s
      <4>1. source'[r].state = "retry_wait" /\ source'[r].next = next
        BY <1>1, <2>1, <2>3, <3>4, FailedFields DEF Catalog
      <4>2. CASE j = k
        <5>1. task'[j].notBefore = next
          BY <2>3, <3>1, <3>2, <4>2, RowFields
        <5> QED
          BY <3>1, <4>1, <5>1 DEF Fit, Stopped
      <4>3. CASE j # k /\ task[j].status = "pending"
        <5>1. task'[j].notBefore = Later(task[j].notBefore, next)
          BY <2>3, <3>2, <3>4, <4>3 DEF TaskRow
        <5>2. Later(task[j].notBefore, next) >= next
          BY <3>1, <3>2 DEF TaskRow, Later
        <5> QED
          BY <4>1, <5>1, <5>2 DEF Fit, Stopped
      <4>4. CASE j # k /\ task[j].status # "pending"
        BY <2>3, <3>2, <4>4 DEF Fit
      <4> QED
        BY <4>2, <4>3, <4>4
    <3> QED
      BY <3>3, <3>4
  <2> QED
    BY <1>8, <2>2, <2>3 DEF RetrySource
<1>9. CASE InvalidateSource(w, k, t)
  <2> DEFINE s == k[1]
  <2>1. s \in Source
    BY <1>9, Tasks DEF InvalidateSource, Records
  <2>2. PICK st \in {"unavailable", "ineligible"} :
           source' = [source EXCEPT ![s] = RejectedAt(@, st, at)]
    BY <1>9 DEF InvalidateSource
  <2>3. Settled(task, s) \in Rows /\ AllFit(Settled(task, s), source')
    BY <1>1, <2>1, <2>2, SettledRows, SettledFits
  <2> QED
    BY <1>2, <1>9, <2>3, ReplacedFits DEF InvalidateSource
<1>10. CASE PersistSuccess(w, k, t)
  <2>1. k[1] \in Source /\ k[2] \in TaskType
    BY <1>10, Tasks DEF PersistSuccess, Records
  <2> DEFINE type == k[2]
  <2>2. PICK c \in Source :
         LET canonical == Canonical(k[1], type, c)
             adopted == Adopted(k[1], type, c)
         IN \/ /\ source' = adopted
               /\ task' = [task EXCEPT ![k] = Closed(@, "invalid")]
            \/ /\ source' = [adopted EXCEPT ![canonical] = Succeeded(@, at)]
               /\ task' = [IF type = "validate_source"
                           THEN Enqueued(task, source', canonical,
                                         "refresh_articles", t)
                           ELSE task EXCEPT ![k] = Closed(@, "done")]
    BY <1>10 DEF PersistSuccess
  <2> DEFINE canonical == Canonical(k[1], type, c)
             adopted == Adopted(k[1], type, c)
             next == IF type = "validate_source"
                     THEN Enqueued(task, source', canonical,
                                   "refresh_articles", t)
                     ELSE task
  <2>3. adopted \in Catalog /\ canonical \in Source /\ source' \in Catalog
    BY <1>1, <1>10, <2>1, AdoptedType, CanonicalType, HandleRows DEF Transaction
  <2>4. AllFit(task, adopted)
    <3>1. \A r \in Source : SameSchedule(adopted[r], source[r])
      BY <2>1, AdoptedSchedule
    <3> HIDE DEF adopted
    <3> QED
      BY <3>1 DEF AllFit, Fit, SameSchedule, Stopped
  <2>5. CASE /\ source' = adopted
             /\ task' = [task EXCEPT ![k] = Closed(@, "invalid")]
    <3> HIDE DEF adopted
    <3> QED
      BY <1>1, <1>2, <2>4, <2>5, ReplacedFits
  <2>6. CASE /\ source' = [adopted EXCEPT ![canonical] = Succeeded(@, at)]
             /\ task' = [next EXCEPT ![k] = Closed(@, "done")]
    <3>1. AllFit(task, source')
      <4> HIDE DEF adopted, canonical
      <4> SUFFICES ASSUME NEW r \in Source, NEW j \in TasksOf(r)
                   PROVE  Fit(task[j], source'[r])
        BY DEF AllFit
      <4>1. Fit(task[j], adopted[r])
        BY <2>4 DEF AllFit
      <4>2. \/ source'[r] = adopted[r]
            \/ source'[r] = Succeeded(adopted[r], at)
        BY <2>3, <2>6 DEF Catalog
      <4>3. \/ Succeeded(adopted[r], at) = adopted[r]
            \/ Succeeded(adopted[r], at).state = "active"
        BY <2>3, SucceededFields DEF Catalog
      <4> QED
        BY <4>1, <4>2, <4>3 DEF Fit, Stopped
    <3>2. next \in Rows /\ AllFit(next, source')
      BY <1>1, <2>3, <3>1, EnqueuedRows, EnqueuedFits DEF TaskType
    <3> HIDE DEF next
    <3> QED
      BY <1>2, <2>6, <3>2, ReplacedFits
  <2> QED
    BY <2>2, <2>5, <2>6
<1> QED
  BY <1>3, <1>4, <1>5, <1>6, <1>7, <1>8, <1>9, <1>10 DEF Transaction

LEMMA LeaseFits ==
    ASSUME TypeOK, AllFit(task, source), source' = source,
           NEW w \in Worker, NEW K \in SUBSET Task, NEW r, Lease(w, K, r)
    PROVE  AllFit(task', source')
<1>1. task' = [k \in Task |->
                 IF k \in K
                 THEN [task[k] EXCEPT !.status = "leased", !.run = r,
                         !.token = lastToken', !.expires = now + LeaseLength]
                 ELSE task[k]]
  BY Zenon DEF Lease
<1>2. \A k \in Task : task'[k].status = "pending" => task'[k] = task[k]
  BY <1>1 DEF TypeOK, TaskRow
<1> QED
  BY <1>2, Tasks DEF AllFit, Fit

LEMMA FitStep == TypeOK /\ AllFit(task, source) /\ [Next]_vars => AllFit(task', source')
<1> SUFFICES ASSUME TypeOK, AllFit(task, source), [Next]_vars
             PROVE  AllFit(task', source')
  OBVIOUS
<1>1. CASE task' = task /\ source' = source
  BY <1>1
<1>2. ASSUME NEW w \in Worker, RecoverExpired(w)
      PROVE  AllFit(task', source')
  <2>1. \/ task' = task /\ source' = source
        \/ \E r : source' = source /\ Lease(w, {k \in Expired : task[k].run = r}, r)
    BY <1>2, Zenon DEF RecoverExpired
  <2> QED
    BY <1>1, <2>1, LeaseFits DEF Expired, Leased
<1>3. ASSUME NEW w \in Worker, ClaimRun(w)
      PROVE  AllFit(task', source')
  <2>1. \/ task' = task /\ source' = source
        \/ \E K \in SUBSET {k \in Task : Claimable(k)} :
              source' = source /\ Lease(w, K, worker[w].run)
    BY <1>3, Zenon DEF ClaimRun
  <2> QED
    BY <1>1, <2>1, LeaseFits
<1>4. ASSUME NEW s \in Source, NEW type \in TaskType, Enqueue(s, type)
      PROVE  AllFit(task', source')
  BY <1>4, Clock, EnqueuedFits DEF Enqueue, TypeOK, Rows, Catalog
<1>5. ASSUME NEW k \in Seed, EnqueueRelatedSeed(k)
      PROVE  AllFit(task', source')
  BY <1>5, ReplacedFits DEF EnqueueRelatedSeed, Task, TypeOK, Rows
<1>6. ASSUME NEW w \in Worker, NEW k \in Task, NEW t \in 0 .. now,
             Transaction(w, k, t)
      PROVE  AllFit(task', source')
  BY <1>6, TransactionFits
<1>7. \/ \E w \in Worker : RecoverExpired(w) \/ ClaimRun(w)
      \/ \E s \in Source, type \in TaskType : Enqueue(s, type)
      \/ \E k \in Seed : EnqueueRelatedSeed(k)
      \/ \E w \in Worker, k \in Task, t \in 0 .. now : Transaction(w, k, t)
      \/ task' = task /\ source' = source
  BY Zenon DEF Next, Dispatch, Handle, Transaction, DispatchError, FinishRun,
       Cancel, Crash, Process, TaskError, Tick, vars
<1> QED
  BY <1>1, <1>2, <1>3, <1>4, <1>5, <1>6, <1>7

\* No pending task survives, or joins, a source that has stopped.
THEOREM NoPendingForStoppedAlways == Spec => []NoPendingForStopped
<1>1. Init => AllFit(task, source)
  BY Tasks DEF Init, AllFit, Fit, NoRow
<1> QED
  BY <1>1, FitStep, FitMeans, TypeCorrect, PTL DEF Spec

\* No pending task of a waiting source may be claimed before its retry is due.
THEOREM PendingRespectsRetryAlways == Spec => []PendingRespectsRetry
<1>1. Init => AllFit(task, source)
  BY Tasks DEF Init, AllFit, Fit, NoRow
<1> QED
  BY <1>1, FitStep, FitMeans, TypeCorrect, PTL DEF Spec

\* What a claim may take of the pending tasks, both together: a stopped source
\* has none, and those of a waiting source keep to its deadline.
THEOREM PendingSoundAlways == Spec => []PendingSound
<1>1. NoPendingForStopped /\ PendingRespectsRetry => PendingSound
  BY DEF PendingSound
<1> QED
  BY <1>1, NoPendingForStoppedAlways, PendingRespectsRetryAlways, PTL

-----------------------------------------------------------------------------
(* Runs *)

\* No row of tasks is in a run that it was not in before.
Releases(tasks) == \A j \in Task : tasks[j].run \in {task[j].run, Null}

LEMMA RunFields ==
    ASSUME NEW row \in TaskRow, NEW t \in Nat
    PROVE  /\ \A st : Closed(row, st).run = row.run
           /\ Reopened(row, t).run = Null
           /\ NewRow(t).run = Null
           /\ Retried(row, t).run = Null
           /\ \A n : [row EXCEPT !.notBefore = n].run = row.run
<1> DEFINE r == Reopened(row, t)
<1>1. r \in TaskRow /\ r.run = Null
  BY DEF Reopened, TaskRow
<1>2. Retried(row, t) = [r EXCEPT !.attempts = IF @ < SeedRetries THEN @ + 1 ELSE @]
  BY Zenon DEF Retried
<1> HIDE DEF r
<1>3. Retried(row, t).run = Null
  BY <1>1, <1>2 DEF TaskRow
<1>4. \A st : Closed(row, st).run = row.run
  BY DEF Closed, TaskRow
<1>5. Reopened(row, t).run = Null /\ NewRow(t).run = Null
  BY DEF Reopened, NewRow, NoRow, TaskRow
<1>6. \A n : [row EXCEPT !.notBefore = n].run = row.run
  BY DEF TaskRow
<1> QED
  BY <1>3, <1>4, <1>5, <1>6

LEMMA EnqueuedReleases ==
    ASSUME TypeOK, NEW sources \in Catalog, NEW s \in Source,
           NEW type \in TaskType, NEW t \in Nat
    PROVE  Releases(Enqueued(task, sources, s, type, t))
<1>1. task \in Rows /\ NewRow(t).run = Null
  BY DEF TypeOK, Rows, NewRow, NoRow
<1> QED
  BY <1>1, EnqueuedRows DEF Releases

LEMMA SettledReleases ==
    ASSUME TypeOK, NEW s \in Source
    PROVE  Releases(Settled(task, s))
<1>1. task \in Rows /\ 0 \in Nat
  BY DEF TypeOK, Rows
<1>2. \A j \in Task : Closed(task[j], "invalid").run = task[j].run
  BY <1>1, RunFields DEF Rows
<1> QED
  BY <1>1, <1>2, SettledRows DEF Releases

\* A transaction moves no task into a run.
LEMMA TransactionReleases ==
    ASSUME TypeOK, NEW w \in Worker, NEW k \in Task, NEW t \in 0 .. now,
           Transaction(w, k, t)
    PROVE  Releases(task')
<1>1. task \in Rows /\ source \in Catalog /\ t \in Nat
  BY Clock DEF TypeOK, Rows, Catalog
<1>2. ASSUME NEW tasks \in Rows, NEW j \in Task
      PROVE  /\ Closed(tasks[j], "done").run = tasks[j].run
             /\ Closed(tasks[j], "invalid").run = tasks[j].run
             /\ \A n \in Nat : /\ Reopened(tasks[j], n).run = Null
                               /\ Retried(tasks[j], n).run = Null
  <2>1. tasks[j] \in TaskRow
    BY DEF Rows
  <2> QED
    BY <1>1, <2>1, RunFields
<1>3. ASSUME NEW tasks \in Rows, Releases(tasks), NEW row,
             row.run \in {tasks[k].run, Null}, task' = [tasks EXCEPT ![k] = row]
      PROVE  Releases(task')
  BY <1>3 DEF Releases, Rows
<1>4. Releases(task)
  BY DEF Releases
<1>5. CASE FinishStopped(w, k, t) \/ InvalidateRelated(w, k, t)
  BY <1>1, <1>2, <1>3, <1>4, <1>5 DEF FinishStopped, InvalidateRelated
<1>6. CASE RetryRelated(w, k, t)
  <2>1. PICK next \in t + 1 .. t + MaxDelay :
           task' = [task EXCEPT ![k] = Retried(@, next)]
    BY <1>6 DEF RetryRelated
  <2>2. next \in Nat
    BY <1>1, QueueAssumption
  <2> DEFINE row == Retried(task[k], next)
  <2>3. row.run = Null /\ task' = [task EXCEPT ![k] = row]
    BY <1>1, <1>2, <2>1, <2>2
  <2> HIDE DEF row
  <2> QED
    BY <1>1, <2>3 DEF Releases, Rows
<1>7. CASE CompleteRelated(w, k, t)
  <2>1. PICK C \in SUBSET Source :
           task' = [j \in Task |->
                      IF j = k THEN Closed(task[j], "done")
                      ELSE IF j \in C \X {"validate_source"}
                      THEN Enqueued(task, source, j[1], j[2], t)[j]
                      ELSE task[j]]
    BY <1>7 DEF CompleteRelated
  <2>2. \A j \in C \X {"validate_source"} :
           Releases(Enqueued(task, source, j[1], j[2], t))
    BY <1>1, EnqueuedReleases DEF TaskType
  <2> SUFFICES ASSUME NEW j \in Task PROVE task'[j].run \in {task[j].run, Null}
    BY DEF Releases
  <2>3. Closed(task[j], "done").run = task[j].run
    BY <1>1, <1>2
  <2>4. j \in C \X {"validate_source"} =>
           Enqueued(task, source, j[1], j[2], t)[j].run \in {task[j].run, Null}
    BY <2>2 DEF Releases
  <2> QED
    BY <2>1, <2>3, <2>4
<1>8. CASE DeferSourceTask(w, k, t)
  <2> DEFINE row == source[k[1]]
             next == IF row.next = Null THEN t ELSE row.next
  <2>1. row \in SourceRow
    BY <1>1, <1>8 DEF DeferSourceTask, SourceTask, Catalog
  <2>2. \/ task' = [task EXCEPT ![k] = Closed(@, "invalid")]
        \/ task' = [task EXCEPT ![k] = Reopened(@, next)]
    BY <1>8, Zenon DEF DeferSourceTask
  <2>3. next \in Nat
    BY <1>1, <2>1 DEF SourceRow
  <2> HIDE DEF next
  <2> QED
    BY <1>1, <1>2, <1>3, <1>4, <2>2, <2>3
<1>9. CASE MootOutcome(w, k, t)
  <2>1. k[1] \in Source
    BY <1>9 DEF MootOutcome, SourceTask
  <2> DEFINE enqueued == Enqueued(task, source, k[1], "refresh_articles", t)
  <2>2. enqueued \in Rows /\ Releases(enqueued)
    BY <1>1, <2>1, EnqueuedRows, EnqueuedReleases DEF TaskType
  <2>3. \/ task' = [task EXCEPT ![k] = Closed(@, "invalid")]
        \/ task' = [task EXCEPT ![k] = Closed(@, "done")]
        \/ task' = [enqueued EXCEPT ![k] = Closed(@, "done")]
    BY <1>9, Zenon DEF MootOutcome
  <2> HIDE DEF enqueued
  <2> QED
    BY <1>1, <1>2, <1>3, <1>4, <2>2, <2>3
<1>10. CASE RetrySource(w, k, t)
  <2> DEFINE s == k[1]
  <2>1. s \in Source
    BY <1>10 DEF RetrySource, Records, SourceTask
  <2>2. Settled(task, s) \in Rows /\ Releases(Settled(task, s))
    BY <1>1, <2>1, SettledRows, SettledReleases
  <2>3. CASE task' = [Settled(task, s) EXCEPT ![k] = Closed(@, "invalid")]
    BY <1>2, <1>3, <2>2, <2>3
  <2>4. ASSUME NEW next \in t + 1 .. t + MaxDelay,
               task' = [j \in Task |->
                   IF j = k THEN Reopened(task[j], next)
                   ELSE IF j \in TasksOf(s) /\ task[j].status = "pending"
                   THEN [task[j] EXCEPT !.notBefore = Later(@, next)]
                   ELSE task[j]]
        PROVE  Releases(task')
    <3>1. next \in Nat
      BY <1>1, QueueAssumption
    <3>2. \A j \in Task : task[j] \in TaskRow
      BY <1>1 DEF Rows
    <3>3. \A j \in Task : [task[j] EXCEPT !.notBefore = Later(@, next)].run = task[j].run
      BY <3>2 DEF TaskRow
    <3> QED
      BY <1>1, <1>2, <2>4, <3>1, <3>3 DEF Releases
  <2> QED
    BY <1>10, <2>3, <2>4 DEF RetrySource
<1>11. CASE InvalidateSource(w, k, t)
  <2> DEFINE s == k[1]
  <2>1. s \in Source
    BY <1>11 DEF InvalidateSource, Records, SourceTask
  <2>2. Settled(task, s) \in Rows /\ Releases(Settled(task, s))
    BY <1>1, <2>1, SettledRows, SettledReleases
  <2> QED
    BY <1>2, <1>3, <1>11, <2>2 DEF InvalidateSource
<1>12. CASE PersistSuccess(w, k, t)
  <2>1. k[1] \in Source
    BY <1>12 DEF PersistSuccess, Records, SourceTask
  <2> DEFINE type == k[2]
  <2>2. PICK c \in Source :
         LET canonical == Canonical(k[1], type, c)
         IN \/ task' = [task EXCEPT ![k] = Closed(@, "invalid")]
            \/ task' = [IF type = "validate_source"
                        THEN Enqueued(task, source', canonical,
                                      "refresh_articles", t)
                        ELSE task EXCEPT ![k] = Closed(@, "done")]
    BY <1>12 DEF PersistSuccess
  <2> DEFINE canonical == Canonical(k[1], type, c)
             next == IF type = "validate_source"
                     THEN Enqueued(task, source', canonical,
                                   "refresh_articles", t)
                     ELSE task
  <2>3. canonical \in Source
    BY <1>1, <2>1, CanonicalType
  <2>4. source' \in Catalog
    BY <1>12, HandleRows DEF Transaction
  <2>5. next \in Rows /\ Releases(next)
    BY <1>1, <1>4, <2>3, <2>4, EnqueuedRows, EnqueuedReleases DEF TaskType
  <2>6. \/ task' = [task EXCEPT ![k] = Closed(@, "invalid")]
        \/ task' = [next EXCEPT ![k] = Closed(@, "done")]
    BY <2>2
  <2> HIDE DEF next
  <2> QED
    BY <1>1, <1>2, <1>3, <1>4, <2>5, <2>6
<1> QED
  BY <1>5, <1>6, <1>7, <1>8, <1>9, <1>10, <1>11, <1>12 DEF Transaction

\* A run that has not begun has no task.
NoEarlyTask == \A r \in Window : run[r].status = "none" => \A k \in Task : task[k].run # r

TasksIn(r) == {k \in Task : task[k].run = r}

LEMMA InRun ==
    ASSUME NEW S \in SUBSET Task
    PROVE  /\ IsFiniteSet(S) /\ Cardinality(S) \in Nat
           /\ \A T \in SUBSET S : Cardinality(T) <= Cardinality(S)
BY TaskFinite, FS_Subset, FS_CardinalityType

\* Steps that only take tasks out of runs, and begin none.
LEMMA ReleasedQuota ==
    ASSUME TypeOK, RunQuota, NoEarlyTask, Releases(task'),
           \A r \in Window : /\ run'[r].claimed = run[r].claimed
                             /\ run'[r].status = "none" => run[r].status = "none"
    PROVE  RunQuota' /\ NoEarlyTask'
<1>1. ASSUME NEW r \in Window PROVE TasksIn(r)' \in SUBSET TasksIn(r)
  BY DEF Releases, TasksIn, Window
<1>2. RunQuota'
  <2> SUFFICES ASSUME NEW r \in Window
               PROVE  /\ Cardinality(TasksIn(r)') <= run[r].claimed
                      /\ run[r].claimed <= BatchLimit
    BY DEF RunQuota, TasksIn
  <2>1. /\ Cardinality(TasksIn(r)) <= run[r].claimed
        /\ run[r].claimed <= BatchLimit
    BY DEF RunQuota, TasksIn
  <2>2. TasksIn(r) \in SUBSET Task /\ run[r].claimed \in Nat
    BY DEF TasksIn, TypeOK, RunRow
  <2>3. /\ Cardinality(TasksIn(r)') <= Cardinality(TasksIn(r))
        /\ Cardinality(TasksIn(r)') \in Nat /\ Cardinality(TasksIn(r)) \in Nat
    <3>1. TasksIn(r)' \in SUBSET Task
      BY <1>1, <2>2
    <3> QED
      BY <1>1, <2>2, <3>1, InRun
  <2> QED
    BY <2>1, <2>2, <2>3
<1>3. NoEarlyTask'
  BY DEF NoEarlyTask, Releases, Window
<1> QED
  BY <1>2, <1>3

\* A claim fills a run that had no task.
LEMMA ClaimedQuota ==
    ASSUME TypeOK, RunQuota, NoEarlyTask, NEW w \in Worker,
           NEW K \in SUBSET Task, Cardinality(K) <= BatchLimit, NEW r,
           r \in Window => run[r].status = "none",
           run' = [run EXCEPT ![r] = [status |-> "running", claimed |-> Cardinality(K)]],
           Lease(w, K, r)
    PROVE  RunQuota' /\ NoEarlyTask'
<1>1. \A k \in Task : task'[k].run = IF k \in K THEN r ELSE task[k].run
  <2>1. task' = [k \in Task |->
                   IF k \in K
                   THEN [task[k] EXCEPT !.status = "leased", !.run = r,
                           !.token = lastToken', !.expires = now + LeaseLength]
                   ELSE task[k]]
    BY Zenon DEF Lease
  <2> QED
    BY <2>1 DEF TypeOK, TaskRow
<1> SUFFICES ASSUME NEW u \in Window
             PROVE  /\ Cardinality(TasksIn(u)') <= run'[u].claimed
                    /\ run'[u].claimed <= BatchLimit
                    /\ run'[u].status = "none" => \A k \in Task : task'[k].run # u
  BY DEF RunQuota, NoEarlyTask, TasksIn
<1>2. CASE u = r
  <2>1. run'[u] = [status |-> "running", claimed |-> Cardinality(K)]
    BY <1>2 DEF TypeOK
  <2>2. \A k \in Task : task[k].run # r
    BY <1>2 DEF NoEarlyTask
  <2>3. TasksIn(u)' = K
    BY <1>1, <1>2, <2>2 DEF TasksIn
  <2>4. Cardinality(K) \in Nat
    BY InRun
  <2> QED
    BY <2>1, <2>3, <2>4
<1>3. CASE u # r
  <2>1. run'[u] = run[u]
    BY <1>3 DEF TypeOK
  <2>2. TasksIn(u)' \in SUBSET TasksIn(u)
    BY <1>1, <1>3 DEF TasksIn
  <2>3. /\ Cardinality(TasksIn(u)) <= run[u].claimed /\ run[u].claimed <= BatchLimit
        /\ TasksIn(u) \in SUBSET Task /\ run[u].claimed \in Nat
    BY DEF RunQuota, TasksIn, TypeOK, RunRow
  <2>4. /\ Cardinality(TasksIn(u)') <= Cardinality(TasksIn(u))
        /\ Cardinality(TasksIn(u)') \in Nat /\ Cardinality(TasksIn(u)) \in Nat
    <3>1. TasksIn(u)' \in SUBSET Task
      BY <2>2, <2>3
    <3> QED
      BY <2>2, <2>3, <3>1, InRun
  <2>5. run'[u].status = "none" => \A k \in Task : task'[k].run # u
    BY <1>1, <1>3, <2>1 DEF NoEarlyTask
  <2> QED
    BY <2>1, <2>3, <2>4, <2>5
<1> QED
  BY <1>2, <1>3

LEMMA QuotaStep ==
    TypeOK /\ RunQuota /\ NoEarlyTask /\ [Next]_vars => RunQuota' /\ NoEarlyTask'
<1> SUFFICES ASSUME TypeOK, RunQuota, NoEarlyTask, [Next]_vars
             PROVE  RunQuota' /\ NoEarlyTask'
  OBVIOUS
<1> DEFINE Quota == RunQuota' /\ NoEarlyTask'
<1>1. Releases(task)
  BY DEF Releases
<1>2. ASSUME UNCHANGED run, Releases(task') PROVE Quota
  BY <1>2, ReleasedQuota
<1>3. ASSUME NEW w \in Worker, RecoverExpired(w) PROVE Quota
  <2>1. CASE Leased = Expired /\ Expired # {}
    <3>1. PICK r \in {task[k].run : k \in Expired} :
             /\ run' = [run EXCEPT ![r].status = "running"]
             /\ Lease(w, {k \in Expired : task[k].run = r}, r)
      BY <1>3, <2>1 DEF RecoverExpired
    <3> DEFINE K == {k \in Expired : task[k].run = r}
    <3>2. task' = [k \in Task |->
                     IF k \in K
                     THEN [task[k] EXCEPT !.status = "leased", !.run = r,
                             !.token = lastToken', !.expires = now + LeaseLength]
                     ELSE task[k]]
      BY <3>1, Zenon DEF Lease
    <3>3. \A k \in Task : task'[k].run = task[k].run
      BY <3>2 DEF TypeOK, TaskRow
    <3>4. \A u \in Window : /\ run'[u].claimed = run[u].claimed
                            /\ run'[u].status = "none" => run[u].status = "none"
      BY <3>1 DEF TypeOK, RunRow
    <3> QED
      BY <3>3, <3>4, ReleasedQuota DEF Releases
  <2>2. CASE ~(Leased = Expired /\ Expired # {})
    BY <1>1, <1>2, <1>3, <2>2 DEF RecoverExpired
  <2> QED
    BY <2>1, <2>2
<1>4. ASSUME NEW w \in Worker, ClaimRun(w) PROVE Quota
  <2> DEFINE r == worker[w].run
  <2>1. CASE UNCHANGED <<task, run>>
    BY <1>1, <1>2, <2>1
  <2>2. CASE run' = [run EXCEPT ![r].status = "done"] /\ UNCHANGED task
    <3>1. \A u \in Window : /\ run'[u].claimed = run[u].claimed
                            /\ run'[u].status = "none" => run[u].status = "none"
      BY <2>2 DEF TypeOK, RunRow
    <3> QED
      BY <1>1, <2>2, <3>1, ReleasedQuota
  <2>3. ASSUME NEW K \in SUBSET {k \in Task : Claimable(k)},
               Cardinality(K) <= BatchLimit, MayClaimInto(r),
               run' = [run EXCEPT ![r] = [status |-> "running",
                                          claimed |-> Cardinality(K)]],
               Lease(w, K, r)
        PROVE  Quota
    BY <2>3, ClaimedQuota DEF MayClaimInto
  <2> QED
    BY <1>4, <2>1, <2>2, <2>3 DEF ClaimRun
<1>5. ASSUME NEW w \in Worker, FinishRun(w) PROVE Quota
  <2>1. \A u \in Window : /\ run'[u].claimed = run[u].claimed
                          /\ run'[u].status = "none" => run[u].status = "none"
    BY <1>5 DEF FinishRun, TypeOK, RunRow
  <2> QED
    BY <1>1, <1>5, <2>1, ReleasedQuota DEF FinishRun
<1>6. ASSUME NEW s \in Source, NEW type \in TaskType, Enqueue(s, type) PROVE Quota
  BY <1>2, <1>6, Clock, EnqueuedReleases DEF Enqueue, TypeOK, Catalog
<1>7. ASSUME NEW k \in Seed, EnqueueRelatedSeed(k) PROVE Quota
  <2>1. NewRow(now).run = Null
    BY DEF NewRow, NoRow
  <2> QED
    BY <1>2, <1>7, <2>1 DEF EnqueueRelatedSeed, Releases, TypeOK, Task
<1>8. ASSUME NEW w \in Worker, NEW k \in Task, NEW t \in 0 .. now, Transaction(w, k, t)
      PROVE  Quota
  BY <1>2, <1>8, TransactionCommits, TransactionReleases DEF Commits
<1>9. CASE UNCHANGED <<task, run>>
  BY <1>1, <1>2, <1>9
<1>10. \/ \E w \in Worker : RecoverExpired(w) \/ ClaimRun(w) \/ FinishRun(w)
       \/ \E s \in Source, type \in TaskType : Enqueue(s, type)
       \/ \E k \in Seed : EnqueueRelatedSeed(k)
       \/ \E w \in Worker, k \in Task, t \in 0 .. now : Transaction(w, k, t)
       \/ UNCHANGED <<task, run>>
  BY Zenon DEF Next, Dispatch, Handle, Transaction, DispatchError, Cancel, Crash,
     Process, TaskError, Tick, vars
<1> QED
  BY <1>3, <1>4, <1>5, <1>6, <1>7, <1>8, <1>9, <1>10

\* A run holds at most what it claimed, and claims at most a batch: no recovery,
\* retry or repeated window adds a task to it.
THEOREM RunQuotaAlways == Spec => []RunQuota
<1>1. Init => RunQuota /\ NoEarlyTask
  <2> SUFFICES ASSUME Init PROVE RunQuota /\ NoEarlyTask
    OBVIOUS
  <2>1. \A k \in Task : task[k].run = Null
    BY DEF Init, NoRow
  <2>2. ASSUME NEW r \in Window
        PROVE  {k \in Task : task[k].run = r} = {} /\ run[r].claimed = 0
    BY <2>1 DEF Init, Window
  <2> QED
    BY <2>1, <2>2, FS_EmptySet, QueueAssumption DEF RunQuota, NoEarlyTask, Window
<1> QED
  BY <1>1, QuotaStep, TypeCorrect, PTL DEF Spec

-----------------------------------------------------------------------------
(* Merged sources *)

LEMMA MergedFields ==
    ASSUME NEW row \in SourceRow, NEW at, NEW st, NEW next
    PROVE  /\ FailedAt(row, st, next, at).merged = row.merged
           /\ FailedAt(row, st, next, at).status = row.status
           /\ RejectedAt(row, st, at).status = "invalid"
           /\ Succeeded(row, at).merged = row.merged
<1>1. /\ FailedAt(row, st, next, at).merged = row.merged
      /\ FailedAt(row, st, next, at).status = row.status
  BY DEF FailedAt, SourceRow
<1>2. RejectedAt(row, st, at).status = "invalid"
  BY DEF RejectedAt, SourceRow
<1>3. Succeeded(row, at).merged = row.merged
  BY DEF Succeeded, SourceRow
<1> QED
  BY <1>1, <1>2, <1>3

\* A success counts for a source that is not merged: a chain of tombstones is
\* never followed more than one step, and never needs to be.
LEMMA CanonicalUnmerged ==
    ASSUME TypeOK, TombstonesStayInvalid, NEW s \in Source, NEW c \in Source,
           NEW type \in TaskType, NeedsFetch(type, source[s].status),
           IF type = "validate_source" THEN MayAdopt(s, c) ELSE c = s
    PROVE  Adopted(s, type, c)[Canonical(s, type, c)].merged = NoSource
<1>1. /\ NoSource \notin Source /\ source \in [Source -> SourceRow]
      /\ \A r \in Source : source[r].merged \in Source \cup {NoSource}
  BY QueueAssumption DEF TypeOK, SourceRow
<1>2. CASE type = "refresh_articles"
  <2>1. source[s].merged = NoSource
    BY <1>2 DEF NeedsFetch, TombstonesStayInvalid
  <2>2. Adopted(s, type, c) = source /\ Canonical(s, type, c) = s
    BY <1>2 DEF Adopted, Canonical
  <2> QED
    BY <2>1, <2>2
<1>3. CASE type = "validate_source" /\ c = s
  <2>1. Adopted(s, type, c) = source
    BY <1>3 DEF Adopted
  <2> QED
    BY <1>1, <1>3, <2>1 DEF MayAdopt, Canonical
<1>4. CASE type = "validate_source" /\ c # s
  <2>1. CASE source[s].merged = NoSource /\ source[c].merged = NoSource
    <3>1. Canonical(s, type, c) = c
      BY <1>1, <1>4, <2>1 DEF Canonical
    <3>2. Adopted(s, type, c)[c] = source[c]
      BY <1>1, <1>4, <2>1 DEF Adopted
    <3> QED
      BY <2>1, <3>1, <3>2
  <2>2. CASE source[s].merged = c /\ source[c].merged = NoSource
    <3>1. Canonical(s, type, c) = c /\ Adopted(s, type, c) = source
      BY <1>1, <1>4, <2>2 DEF Canonical, Adopted
    <3> QED
      BY <2>2, <3>1
  <2>3. CASE source[s].merged = NoSource /\ source[c].merged = s
    <3>1. Canonical(s, type, c) = s /\ Adopted(s, type, c) = source
      BY <1>1, <1>4, <2>3 DEF Canonical, Adopted
    <3> QED
      BY <2>3, <3>1
  <2> QED
    BY <1>4, <2>1, <2>2, <2>3 DEF MayAdopt
<1> QED
  BY <1>2, <1>3, <1>4 DEF TaskType

\* A source that a success marks valid, or that a failure leaves as it was, is
\* no tombstone that it was not before.
LEMMA TombstoneStep ==
    TypeOK /\ TombstonesStayInvalid /\ [Next]_vars => TombstonesStayInvalid'
<1> SUFFICES ASSUME TypeOK, TombstonesStayInvalid, [Next]_vars, NEW r \in Source,
                    source'[r].merged # NoSource
             PROVE  source'[r].status = "invalid"
  BY DEF TombstonesStayInvalid
<1>1. source[r] \in SourceRow /\ (source[r].merged # NoSource => source[r].status = "invalid")
  BY DEF TypeOK, TombstonesStayInvalid
<1>2. CASE source' = source
  BY <1>1, <1>2
<1>3. ASSUME NEW w \in Worker, NEW k \in Task, NEW t \in 0 .. now, Transaction(w, k, t),
             source' # source
      PROVE  source'[r].status = "invalid"
  <2> DEFINE s == k[1]
             at == item[w][k].at
  <2>1. CASE RetrySource(w, k, t)
    <3>1. \/ source'[r] = source[r]
          \/ \E st, next : source'[r] = FailedAt(source[r], st, next, at)
      BY <2>1 DEF RetrySource, TypeOK
    <3> QED
      BY <1>1, <3>1, MergedFields
  <2>2. CASE InvalidateSource(w, k, t)
    <3>1. \/ source'[r] = source[r]
          \/ \E st : source'[r] = RejectedAt(source[r], st, at)
      BY <2>2 DEF InvalidateSource, TypeOK
    <3> QED
      BY <1>1, <3>1, MergedFields
  <2>3. CASE PersistSuccess(w, k, t)
    <3>1. s \in Source /\ k[2] \in TaskType /\ NeedsFetch(k[2], source[s].status)
      BY <2>3 DEF PersistSuccess, Records, SourceTask
    <3>2. PICK c \in Source :
             /\ IF k[2] = "validate_source" THEN MayAdopt(s, c) ELSE c = s
             /\ LET canonical == Canonical(s, k[2], c)
                    adopted == Adopted(s, k[2], c)
                IN \/ source' = adopted
                   \/ source' = [adopted EXCEPT ![canonical] = Succeeded(@, at)]
      BY <2>3 DEF PersistSuccess
    <3> DEFINE canonical == Canonical(s, k[2], c)
               adopted == Adopted(s, k[2], c)
    <3>3. adopted \in Catalog /\ canonical \in Source
      BY <3>1, AdoptedType, CanonicalType DEF TypeOK, Catalog
    <3>4. adopted[canonical].merged = NoSource
      BY <3>1, <3>2, CanonicalUnmerged
    <3>5. adopted[r].merged # NoSource => adopted[r].status = "invalid"
      <4>1. CASE adopted = source
        BY <1>1, <4>1
      <4>2. CASE adopted = [source EXCEPT ![s].status = "invalid", ![s].merged = c]
        BY <1>1, <3>1, <4>2 DEF TypeOK, SourceRow
      <4> QED
        BY <4>1, <4>2 DEF Adopted
    <3> HIDE DEF adopted, canonical
    <3>6. CASE source' = adopted
      BY <3>5, <3>6
    <3>7. CASE source' = [adopted EXCEPT ![canonical] = Succeeded(@, at)]
      <4>1. CASE r = canonical
        <5>1. source'[r] = Succeeded(adopted[r], at) /\ adopted[r] \in SourceRow
          BY <3>3, <3>7, <4>1 DEF Catalog
        <5> QED
          BY <3>4, <4>1, <5>1, MergedFields
      <4>2. CASE r # canonical
        BY <3>3, <3>5, <3>7, <4>2 DEF Catalog
      <4> QED
        BY <4>1, <4>2
    <3> QED
      BY <3>2, <3>6, <3>7 DEF adopted, canonical
  <2>4. RetrySource(w, k, t) \/ InvalidateSource(w, k, t) \/ PersistSuccess(w, k, t)
    BY <1>3 DEF Transaction, FinishStopped, DeferSourceTask, MootOutcome,
       CompleteRelated, RetryRelated, InvalidateRelated
  <2> QED
    BY <2>1, <2>2, <2>3, <2>4
<1> QED
  BY <1>2, <1>3, CatalogStep

\* Whatever is fetched through it or for it, a source merged into another stays
\* invalid.
THEOREM TombstonesAlways == Spec => []TombstonesStayInvalid
<1>1. Init => TombstonesStayInvalid
  <2> SUFFICES ASSUME Init, NEW s \in Source PROVE source[s].merged = NoSource
    BY DEF TombstonesStayInvalid
  <2> QED
    BY DEF Init, FreshSource
<1> QED
  BY <1>1, TombstoneStep, TypeCorrect, PTL DEF Spec

-----------------------------------------------------------------------------
(* Deadlines *)

\* Tokens are never issued again.
TokenInv ==
    /\ \A w \in Worker : worker[w].token <= lastToken
    /\ \A k \in Task : task[k].status = "leased" => task[k].token \in 1 .. lastToken

\* A handler that may still record what it fetched.
Held(w, k) ==
    /\ item[w][k].phase = "fetched"
    /\ task[k].status = "leased" /\ task[k].token = worker[w].token

\* What a handler may still record for a source that waits, or has stopped, is
\* moot: the retry was recorded by the one that fetched for the other task type.
Moot(row, type) == Stopped(row) \/ ~NeedsFetch(type, row.status)

DeadlineInv ==
    \A w \in Worker, k \in SourceTask :
        Held(w, k) /\ source[k[1]].next > now => Moot(source[k[1]], k[2])

\* Nothing is leased, read or written: workers and items only let go.
LetsGo ==
    /\ UNCHANGED <<lastToken, source>> /\ now' \in Window /\ now' >= now
    /\ KeepsLeases(task', {})
    /\ \A v \in Worker : worker'[v].token \in {worker[v].token, Null}
    /\ \A v \in Worker, j \in Task : item'[v][j] \in {item[v][j], NoItem}

LEMMA EndCycleLetsGo ==
    ASSUME TypeOK, NEW w \in Worker, EndCycle(w), UNCHANGED <<now, source, task, lastToken, item>>
    PROVE  LetsGo
<1>1. \A v \in Worker : worker'[v].token \in {worker[v].token, Null}
  BY DEF EndCycle, IdleWorker, TypeOK
<1>2. now \in Nat
  BY Clock
<1> QED
  BY <1>1, <1>2 DEF LetsGo, KeepsLeases, TypeOK

LEMMA StepKinds ==
    ASSUME TypeOK, [Next]_vars
    PROVE  \/ \E w \in Worker, K \in SUBSET Task : \E r :
                Lease(w, K, r) /\ UNCHANGED <<now, source>>
           \/ \E w \in Worker, k \in Task : Process(w, k)
           \/ \E w \in Worker, k \in Task, t \in 0 .. now : Transaction(w, k, t)
           \/ LetsGo
<1>1. now \in Nat
  BY Clock
<1>2. ASSUME NEW w \in Worker, RecoverExpired(w)
      PROVE  \/ \E K \in SUBSET Task : \E r : Lease(w, K, r) /\ UNCHANGED <<now, source>>
             \/ LetsGo
  <2>1. CASE Leased = Expired /\ Expired # {}
    <3>1. PICK r \in {task[k].run : k \in Expired} :
             Lease(w, {k \in Expired : task[k].run = r}, r) /\ UNCHANGED <<now, source>>
      BY <1>2, <2>1 DEF RecoverExpired
    <3> QED
      BY <3>1 DEF Expired, Leased
  <2>2. CASE ~(Leased = Expired /\ Expired # {})
    <3>1. /\ worker' = [worker EXCEPT ![w] = [@ EXCEPT !.pc = "claim", !.run = now]]
          /\ UNCHANGED <<now, source, task, run, lastToken, item>>
      BY <1>2, <2>2 DEF RecoverExpired
    <3>2. \A v \in Worker : worker'[v].token = worker[v].token
      BY <3>1 DEF TypeOK, WorkerState
    <3> QED
      BY <1>1, <3>1, <3>2 DEF LetsGo, KeepsLeases, TypeOK
  <2> QED
    BY <2>1, <2>2
<1>3. ASSUME NEW w \in Worker, ClaimRun(w)
      PROVE  \/ \E K \in SUBSET Task : \E r : Lease(w, K, r) /\ UNCHANGED <<now, source>>
             \/ LetsGo
  <2>1. \/ \E K \in SUBSET {k \in Task : Claimable(k)} :
             Lease(w, K, worker[w].run) /\ UNCHANGED <<now, source>>
        \/ EndCycle(w) /\ UNCHANGED <<now, source, task, lastToken, item>>
    BY <1>3 DEF ClaimRun
  <2> QED
    BY <2>1, EndCycleLetsGo
<1>4. ASSUME NEW w \in Worker, DispatchError(w) \/ FinishRun(w) PROVE LetsGo
  BY <1>4, EndCycleLetsGo DEF DispatchError, FinishRun
<1>5. ASSUME NEW w \in Worker, Cancel(w) PROVE LetsGo
  <2>1. \A v \in Worker : worker'[v].token = worker[v].token
    BY <1>5 DEF Cancel, TypeOK, WorkerState
  <2>2. \A v \in Worker, j \in Task : item'[v][j] \in {item[v][j], NoItem}
    BY <1>5 DEF Cancel, TypeOK
  <2> QED
    BY <1>1, <1>5, <2>1, <2>2 DEF Cancel, LetsGo, KeepsLeases, TypeOK
<1>6. ASSUME NEW w \in Worker, Crash(w) PROVE LetsGo
  <2>1. \A v \in Worker : worker'[v].token \in {worker[v].token, Null}
    BY <1>6 DEF Crash, IdleWorker, TypeOK
  <2>2. \A v \in Worker, j \in Task : item'[v][j] \in {item[v][j], NoItem}
    BY <1>6 DEF Crash, NoBatch, TypeOK
  <2> QED
    BY <1>1, <1>6, <2>1, <2>2 DEF Crash, LetsGo, KeepsLeases, TypeOK
<1>7. ASSUME NEW w \in Worker, NEW k \in Task, TaskError(w, k) PROVE LetsGo
  <2>1. \A v \in Worker : worker'[v].token = worker[v].token
    BY <1>7 DEF TaskError, TypeOK, WorkerState
  <2>2. \A v \in Worker, j \in Task : item'[v][j] \in {item[v][j], NoItem}
    BY <1>7 DEF TaskError, TypeOK
  <2> QED
    BY <1>1, <1>7, <2>1, <2>2 DEF TaskError, LetsGo, KeepsLeases, TypeOK
<1>8. CASE \/ \E s \in Source, type \in TaskType : Enqueue(s, type)
           \/ \E k \in Seed : EnqueueRelatedSeed(k)
           \/ Tick \/ UNCHANGED vars
  <2>1. KeepsLeases(task', {})
    BY <1>8, QuietSteps
  <2>2. UNCHANGED <<lastToken, source, worker, item>> /\ now' \in {now, now + 1}
    BY <1>8 DEF Enqueue, EnqueueRelatedSeed, Tick, vars
  <2>3. now' \in Window
    BY <1>8, NextType DEF Next, TypeOK
  <2> QED
    BY <1>1, <2>1, <2>2, <2>3 DEF LetsGo
<1> QED
  BY <1>2, <1>3, <1>4, <1>5, <1>6, <1>7, <1>8 DEF Next, Dispatch, Handle, Transaction

\* What a lease does to the tokens.
LEMMA LeaseTokens ==
    ASSUME TypeOK, NEW w \in Worker, NEW K \in SUBSET Task, NEW r, Lease(w, K, r)
    PROVE  /\ lastToken' = lastToken + 1
           /\ worker'[w].token = lastToken'
           /\ \A v \in Worker \ {w} : worker'[v] = worker[v] /\ item'[v] = item[v]
           /\ \A k \in Task : item'[w][k].phase # "fetched"
           /\ \A k \in K : task'[k].token = lastToken'
           /\ \A k \in Task \ K : task'[k] = task[k]
<1>1. lastToken' = lastToken + 1
  BY DEF Lease
<1>2. /\ worker'[w].token = lastToken'
      /\ \A v \in Worker \ {w} : worker'[v] = worker[v]
  <2>1. worker' = [worker EXCEPT ![w] = [IdleWorker(@.nextAt) EXCEPT
                     !.pc = "work", !.run = r, !.token = lastToken']]
    BY Zenon DEF Lease
  <2> QED
    BY <2>1 DEF TypeOK, IdleWorker
<1>3. /\ \A v \in Worker \ {w} : item'[v] = item[v]
      /\ \A k \in Task : item'[w][k].phase # "fetched"
  <2>1. item' = [item EXCEPT ![w] =
                  [k \in Task |-> IF k \in K THEN [NoItem EXCEPT !.phase = "queued"]
                                  ELSE NoItem]]
    BY Zenon DEF Lease
  <2> QED
    BY <2>1 DEF TypeOK, NoItem
<1>4. (\A k \in K : task'[k].token = lastToken') /\ \A k \in Task \ K : task'[k] = task[k]
  <2>1. task' = [k \in Task |->
                   IF k \in K
                   THEN [task[k] EXCEPT !.status = "leased", !.run = r,
                           !.token = lastToken', !.expires = now + LeaseLength]
                   ELSE task[k]]
    BY Zenon DEF Lease
  <2> QED
    BY <2>1 DEF TypeOK, TaskRow
<1> QED
  BY <1>1, <1>2, <1>3, <1>4

LEMMA TokenStep == TypeOK /\ TokenInv /\ [Next]_vars => TokenInv'
<1> SUFFICES ASSUME TypeOK, TokenInv, [Next]_vars PROVE TokenInv'
  OBVIOUS
<1>1. /\ lastToken \in Nat /\ \A v \in Worker : worker[v].token \in Nat
      /\ \A k \in Task : task[k].token \in Nat
  BY DEF TypeOK, WorkerState, TaskRow
<1>2. ASSUME NEW w \in Worker, NEW K \in SUBSET Task, NEW r, Lease(w, K, r)
      PROVE  TokenInv'
  <2>1. \A v \in Worker : worker'[v].token <= lastToken'
    BY <1>1, <1>2, LeaseTokens DEF TokenInv
  <2>2. \A k \in Task : task'[k].status = "leased" => task'[k].token \in 1 .. lastToken'
    BY <1>1, <1>2, LeaseTokens DEF TokenInv
  <2> QED
    BY <2>1, <2>2 DEF TokenInv
<1>3. ASSUME lastToken' = lastToken,
             \A j \in Task : task'[j].status = "leased" => task'[j] = task[j],
             \A v \in Worker : worker'[v].token \in {worker[v].token, Null}
      PROVE  TokenInv'
  BY <1>1, <1>3 DEF TokenInv
<1>4. ASSUME NEW w \in Worker, NEW k \in Task, NEW t \in 0 .. now, Transaction(w, k, t)
      PROVE  TokenInv'
  BY <1>3, <1>4, TransactionCommits, TransactionLeases DEF Commits, KeepsLeases
<1>5. ASSUME NEW w \in Worker, NEW k \in Task, Process(w, k) PROVE TokenInv'
  BY <1>3, <1>5 DEF Process
<1>6. CASE LetsGo
  BY <1>3, <1>6 DEF LetsGo, KeepsLeases
<1> QED
  BY <1>2, <1>4, <1>5, <1>6, StepKinds

\* Of the two tasks of a source, one fetches.
LEMMA OneFetches ==
    ASSUME NEW a \in TaskType, NEW b \in TaskType, a # b, NEW status, NeedsFetch(a, status)
    PROVE  ~NeedsFetch(b, status)
BY DEF TaskType, NeedsFetch

\* A recorded outcome: its source is not waiting any more.
LEMMA RecordsDue ==
    ASSUME TypeOK, DeadlineInv, NEW w \in Worker, NEW k \in Task, NEW t \in 0 .. now,
           Records(w, k, t)
    PROVE  /\ k \in SourceTask /\ k[1] \in Source /\ k[2] \in TaskType
           /\ NeedsFetch(k[2], source[k[1]].status) /\ ~(source[k[1]].next > now)
<1>1. k \in SourceTask /\ Held(w, k) /\ ~Moot(source[k[1]], k[2])
  BY DEF Records, Commits, Holds, Held, Moot
<1> QED
  BY <1>1, Tasks DEF DeadlineInv, Moot

\* What a success leaves of the row of a source that waits afterwards.
LEMMA SuccessKeepsWaiting ==
    ASSUME TypeOK, DeadlineInv, NEW w \in Worker, NEW k \in Task, NEW t \in 0 .. now,
           PersistSuccess(w, k, t), NEW s \in Source
    PROVE  /\ source[s].next > now => source'[s] = source[s]
           /\ source'[s].next > now => source[s].next > now
<1>1. /\ k[1] \in Source /\ k[2] \in TaskType /\ ~(source[k[1]].next > now)
  BY RecordsDue DEF PersistSuccess
<1>2. PICK c \in Source :
         LET canonical == Canonical(k[1], k[2], c)
             adopted == Adopted(k[1], k[2], c)
         IN \/ source' = adopted
            \/ /\ ~Unavailable(adopted[canonical])
               /\ source' = [adopted EXCEPT ![canonical] = Succeeded(@, item[w][k].at)]
  BY DEF PersistSuccess
<1> DEFINE canonical == Canonical(k[1], k[2], c)
           adopted == Adopted(k[1], k[2], c)
<1>3. adopted \in Catalog /\ canonical \in Source
  BY <1>1, AdoptedType, CanonicalType DEF TypeOK, Catalog
<1>4. adopted[s].next = source[s].next
  BY <1>1, AdoptedSchedule DEF SameSchedule
<1>5. s # k[1] => adopted[s] = source[s]
  BY <1>1 DEF Adopted, TypeOK
<1> HIDE DEF adopted, canonical
<1>6. CASE source' = adopted
  BY <1>1, <1>4, <1>5, <1>6
<1>7. CASE /\ ~Unavailable(adopted[canonical])
           /\ source' = [adopted EXCEPT ![canonical] = Succeeded(@, item[w][k].at)]
  <2>1. CASE s # canonical
    <3>1. source'[s] = adopted[s]
      BY <1>3, <1>7, <2>1 DEF Catalog
    <3> QED
      BY <1>1, <1>4, <1>5, <3>1
  <2>2. CASE s = canonical
    <3>1. ~(source[s].next > now)
      BY <1>4, <1>7, <2>2 DEF Unavailable
    <3>2. source'[s] = Succeeded(adopted[s], item[w][k].at) /\ adopted[s] \in SourceRow
      BY <1>3, <1>7, <2>2 DEF Catalog
    <3>3. source'[s].next \in {adopted[s].next, Null}
      BY <3>2, SucceededFields
    <3>4. ~(source'[s].next > now)
      BY <1>4, <3>1, <3>3, Clock
    <3> QED
      BY <3>1, <3>4
  <2> QED
    BY <2>1, <2>2
<1> QED
  BY <1>2, <1>6, <1>7 DEF adopted, canonical

LEMMA DeadlineTransaction ==
    ASSUME TypeOK, DeadlineInv, NEW w \in Worker, NEW k \in Task, NEW t \in 0 .. now,
           Transaction(w, k, t)
    PROVE  DeadlineInv'
<1> SUFFICES ASSUME NEW v \in Worker, NEW j \in SourceTask,
                    Held(v, j)', source'[j[1]].next > now'
             PROVE  Moot(source'[j[1]], j[2])
  BY DEF DeadlineInv
<1> DEFINE s == j[1]
<1>1. j \in Task /\ s \in Source /\ j[2] \in TaskType
  BY Tasks
<1>2. /\ now' = now /\ worker' = worker
      /\ item' = [item EXCEPT ![w][k] = NoItem]
  <2>1. Commits(w, k, t)
    BY TransactionCommits
  <2> QED
    BY <2>1 DEF Commits
<1>3. j # k /\ task'[j] = task[j]
  BY <1>1, TransactionLeases DEF KeepsLeases, Held
<1>4. Held(v, j)
  BY <1>1, <1>2, <1>3 DEF Held, TypeOK
<1>5. ASSUME source'[s] = source[s] PROVE Moot(source'[s], j[2])
  BY <1>2, <1>4, <1>5 DEF DeadlineInv
<1>6. CASE source' = source
  BY <1>5, <1>6
<1>7. CASE RetrySource(w, k, t)
  <2>1. /\ k[1] \in Source /\ k[2] \in TaskType /\ k \in SourceTask
        /\ NeedsFetch(k[2], source[k[1]].status)
    BY <1>7, RecordsDue DEF RetrySource
  <2>2. CASE s # k[1]
    BY <1>1, <1>5, <1>7, <2>2 DEF RetrySource, TypeOK
  <2>3. CASE s = k[1]
    <3>1. PICK st, next : source'[s] = FailedAt(source[s], st, next, item[w][k].at)
      BY <1>1, <1>7, <2>3 DEF RetrySource, TypeOK
    <3>2. source'[s].status = source[s].status
      BY <1>1, <3>1, MergedFields DEF TypeOK
    <3>3. j[2] # k[2]
      BY <1>3, <2>1, <2>3 DEF SourceTask
    <3> QED
      BY <1>1, <2>1, <2>3, <3>2, <3>3, OneFetches DEF Moot
  <2> QED
    BY <2>2, <2>3
<1>8. CASE InvalidateSource(w, k, t)
  <2>1. PICK st \in {"unavailable", "ineligible"} :
           source' = [source EXCEPT ![k[1]] = RejectedAt(@, st, item[w][k].at)]
    BY <1>8 DEF InvalidateSource
  <2>2. CASE s # k[1]
    BY <1>1, <1>5, <2>1, <2>2 DEF TypeOK
  <2>3. CASE s = k[1]
    <3>1. source'[s].state = st
      BY <1>1, <2>1, <2>3, RejectedFields DEF TypeOK
    <3> QED
      BY <3>1 DEF Moot, Stopped
  <2> QED
    BY <2>2, <2>3
<1>9. CASE PersistSuccess(w, k, t)
  BY <1>1, <1>2, <1>5, <1>9, SuccessKeepsWaiting
<1>10. \/ source' = source \/ RetrySource(w, k, t)
       \/ InvalidateSource(w, k, t) \/ PersistSuccess(w, k, t)
  BY DEF Transaction, FinishStopped, DeferSourceTask, MootOutcome,
     CompleteRelated, RetryRelated, InvalidateRelated
<1> QED
  BY <1>6, <1>7, <1>8, <1>9, <1>10

LEMMA DeadlineStep == TypeOK /\ TokenInv /\ DeadlineInv /\ [Next]_vars => DeadlineInv'
<1> SUFFICES ASSUME TypeOK, TokenInv, DeadlineInv, [Next]_vars PROVE DeadlineInv'
  OBVIOUS
<1>0. now \in Nat /\ \A s \in Source : source[s].next \in Nat
  BY Clock DEF TypeOK, SourceRow
<1>1. ASSUME source' = source, now' \in Nat, now' >= now,
             \A v \in Worker, j \in SourceTask : Held(v, j)' /\ source[j[1]].next > now'
                => Held(v, j)
      PROVE  DeadlineInv'
  <2> SUFFICES ASSUME NEW v \in Worker, NEW j \in SourceTask,
                      Held(v, j)', source'[j[1]].next > now'
               PROVE  Moot(source'[j[1]], j[2])
    BY DEF DeadlineInv
  <2>1. j[1] \in Source
    BY Tasks
  <2>2. source[j[1]].next > now
    BY <1>0, <1>1, <2>1
  <2> QED
    BY <1>1, <2>2 DEF DeadlineInv
<1>2. ASSUME NEW w \in Worker, NEW K \in SUBSET Task, NEW r,
             Lease(w, K, r), UNCHANGED <<now, source>>
      PROVE  DeadlineInv'
  <2>1. ASSUME NEW v \in Worker, NEW j \in SourceTask, Held(v, j)' PROVE Held(v, j)
    <3>1. v # w /\ item'[v] = item[v] /\ worker'[v] = worker[v]
      BY <1>2, <2>1, LeaseTokens, Tasks DEF Held
    <3>2. worker[v].token <= lastToken /\ lastToken \in Nat /\ lastToken' = lastToken + 1
      BY <1>2, LeaseTokens DEF TokenInv, TypeOK
    <3>3. j \in Task \ K /\ task'[j] = task[j]
      <4>1. worker'[v].token # lastToken' /\ worker[v].token \in Nat
        BY <3>1, <3>2 DEF TypeOK, WorkerState
      <4> QED
        BY <1>2, <2>1, <4>1, LeaseTokens, Tasks DEF Held
    <3> QED
      BY <2>1, <3>1, <3>3 DEF Held
  <2> QED
    BY <1>0, <1>1, <1>2, <2>1
<1>3. ASSUME NEW w \in Worker, NEW k \in Task, Process(w, k) PROVE DeadlineInv'
  <2>1. ASSUME NEW v \in Worker, NEW j \in SourceTask, Held(v, j)', source[j[1]].next > now'
        PROVE  Held(v, j)
    <3>1. CASE v = w /\ j = k
      <4>1. item'[w][k].phase = Branch(source[k[1]], k[2])
        BY <1>3, <3>1, Tasks DEF Process, TypeOK
      <4> QED
        BY <1>3, <2>1, <3>1, <4>1 DEF Held, Branch, Process
    <3>2. CASE v # w \/ j # k
      <4>1. item'[v][j] = item[v][j]
        BY <1>3, <3>2, Tasks DEF Process, TypeOK
      <4> QED
        BY <1>3, <2>1, <4>1 DEF Held, Process
    <3> QED
      BY <3>1, <3>2
  <2> QED
    BY <1>0, <1>1, <1>3, <2>1 DEF Process
<1>4. CASE LetsGo
  <2>1. ASSUME NEW v \in Worker, NEW j \in SourceTask, Held(v, j)' PROVE Held(v, j)
    <3>1. item'[v][j] = item[v][j]
      BY <1>4, <2>1, Tasks DEF LetsGo, Held, NoItem
    <3>2. task'[j] = task[j]
      BY <1>4, <2>1, Tasks DEF LetsGo, Held, KeepsLeases
    <3>3. worker'[v].token = worker[v].token
      <4>1. task[j].token # Null
        BY <2>1, <3>2, Tasks DEF Held, TokenInv
      <4> QED
        BY <1>4, <2>1, <3>2, <4>1 DEF LetsGo, Held
    <3> QED
      BY <2>1, <3>1, <3>2, <3>3 DEF Held
  <2>2. now' \in Nat
    BY <1>4, QueueAssumption DEF LetsGo, Window
  <2> QED
    BY <1>1, <1>4, <2>1, <2>2 DEF LetsGo
<1> QED
  BY <1>2, <1>3, <1>4, DeadlineTransaction, StepKinds

\* A step that changes the deadline of a waiting source stops the source.
LEMMA DeadlineMoves ==
    ASSUME TypeOK, DeadlineInv, [Next]_vars, NEW s \in Source, source[s].next > now
    PROVE  source'[s].next >= source[s].next \/ Stopped(source'[s])
<1>1. source[s].next \in Nat
  BY DEF TypeOK, SourceRow
<1>2. CASE source'[s] = source[s]
  BY <1>1, <1>2
<1>3. ASSUME NEW w \in Worker, NEW k \in Task, NEW t \in 0 .. now, Transaction(w, k, t),
             source'[s] # source[s]
      PROVE  Stopped(source'[s])
  <2>1. ~PersistSuccess(w, k, t)
    BY <1>3, SuccessKeepsWaiting
  <2>2. ~RetrySource(w, k, t)
    BY <1>3, RecordsDue DEF RetrySource, TypeOK
  <2>3. InvalidateSource(w, k, t)
    BY <1>3, <2>1, <2>2 DEF Transaction, FinishStopped, DeferSourceTask, MootOutcome,
       CompleteRelated, RetryRelated, InvalidateRelated
  <2> QED
    BY <1>3, <2>3, RecordsDue DEF InvalidateSource, TypeOK
<1> QED
  BY <1>2, <1>3, CatalogStep

\* No answer, however late, of a handler that fetched before the retry was
\* recorded brings the source's next attempt forward.
THEOREM DeadlineKeptAlways == Spec => DeadlineKept
<1>1. Init => TokenInv /\ DeadlineInv
  <2> SUFFICES ASSUME Init PROVE TokenInv /\ DeadlineInv
    OBVIOUS
  <2>1. \A k \in Task : task[k].status = "none"
    BY DEF Init, NoRow
  <2>2. lastToken = 0 /\ \A w \in Worker : worker[w].token = 0
    BY DEF Init, IdleWorker
  <2> QED
    BY <2>1, <2>2, Tasks DEF TokenInv, DeadlineInv, Held
<1>2. TypeOK /\ DeadlineInv /\ [Next]_vars => [DeadlineKeptStep]_vars
  BY DeadlineMoves DEF DeadlineKeptStep
<1> QED
  BY <1>1, <1>2, TokenStep, DeadlineStep, TypeCorrect, PTL DEF Spec, DeadlineKept
=============================================================================
