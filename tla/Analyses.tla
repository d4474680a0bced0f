------------------------------- MODULE Analyses --------------------------------
(* A reader's interest analyses: one at a time, a few a day on request, and one *)
(* a day by itself.  The row of an analysis is written first, the model is     *)
(* asked by a goroutine of the server, or by the worker, which may crash.      *)
(* internal/api/interests.go, internal/repository/interest*.go,                *)
(* cmd/worker/interests.go.                                                    *)
EXTENDS Naturals, FiniteSets, Sequences

CONSTANTS Request, Nobody,
          Daily, Monthly,        \* the attempts a day and a month allow
          Day, Month,
          Timeout,               \* of a job asked for
          Recover,               \* when a pending row is taken for abandoned
          MaxRows,
          MaxCrashes             \* crashes and writes that fail

AnalysesAssumption ==
    /\ Nobody \notin Request
    /\ {Daily, Monthly, Day, Month, Timeout, Recover, MaxRows, MaxCrashes} \subseteq Nat

VARIABLES
    row,       \* user_insights
    job,       \* the goroutine of each row, and the age of one with a deadline
    req,       \* requests for an analysis, each one transaction
    lock,      \* the advisory lock of the reader
    due,       \* the daily job is to run
    crashes

vars == <<row, job, req, lock, due, crashes>>

Row == [by : {"auto", "manual"}, status : {"pending", "done", "failed"}, age : 0 .. Month]
Idle == [at |-> "idle", failing |-> {}, allowed |-> FALSE]

TypeOK ==
    /\ row \in Seq(Row) /\ Len(row) <= MaxRows
    /\ DOMAIN job \subseteq DOMAIN row /\ \A i \in DOMAIN job : job[i] \in 0 .. Timeout
    /\ \A r \in Request :
         /\ req[r].at \in {"idle", "asked", "locked", "counted"}
         /\ req[r].failing \subseteq DOMAIN row /\ req[r].allowed \in BOOLEAN
    /\ lock \in Request \cup {Nobody} /\ due \in BOOLEAN /\ crashes \in 0 .. MaxCrashes

Init ==
    /\ row = << >> /\ job = << >> /\ lock = Nobody /\ due = FALSE /\ crashes = 0
    /\ req = [r \in Request |-> Idle]

-----------------------------------------------------------------------------
Pending == {i \in DOMAIN row : row[i].status = "pending"}
CountManualSince(window) == Cardinality({i \in DOMAIN row : row[i].by = "manual" /\ row[i].age < window})
Allowed == CountManualSince(Day) < Daily /\ CountManualSince(Month) < Monthly
Set(r, q) == req' = [req EXCEPT ![r] = q]
Without(S) == [i \in DOMAIN job \ S |-> job[i]]
With(i) == [k \in DOMAIN job \cup {i} |-> IF k = i THEN 0 ELSE job[k]]

\* A first look at the quota, without the lock.
Generate(r) ==
    /\ req[r].at = "idle" /\ Allowed /\ Set(r, [Idle EXCEPT !.at = "asked"])
    /\ UNCHANGED <<row, job, lock, due, crashes>>

TakeLockHeld(r) ==
    /\ req[r].at = "asked" /\ lock' = r
    /\ Set(r, [req[r] EXCEPT !.at = "locked"]) /\ UNCHANGED <<row, job, due, crashes>>
TakeLock(r) ==
    /\ req[r].at = "asked" /\ lock = Nobody /\ lock' = r
    /\ Set(r, [req[r] EXCEPT !.at = "locked"]) /\ UNCHANGED <<row, job, due, crashes>>

\* Rows pending for too long count as failed from here on, for this
\* transaction; the others see it when it commits.
Count(r) ==
    LET old == {i \in Pending : row[i].age > Recover}
    IN  /\ req[r].at = "locked"
        /\ Set(r, [at |-> "counted", failing |-> old, allowed |-> Allowed /\ Pending \subseteq old])
        /\ UNCHANGED <<row, job, lock, due, crashes>>

Failing(S) == [i \in DOMAIN row |-> IF i \in S THEN [row[i] EXCEPT !.status = "failed"] ELSE row[i]]

\* A refusal rolls the failing back as well; a reservation that finds another
\* pending row writes none.
ReserveManual(r) ==
    LET q == req[r]
        reserved == q.allowed /\ Pending \subseteq q.failing
    IN  /\ q.at = "counted" /\ lock' = Nobody /\ UNCHANGED <<due, crashes>>
        /\ IF reserved
           THEN /\ Len(row) < MaxRows
                /\ row' = Append(Failing(q.failing), [by |-> "manual", status |-> "pending", age |-> 0])
                /\ job' = With(Len(row) + 1) /\ Set(r, Idle)
           ELSE Set(r, Idle) /\ UNCHANGED <<row, job>>

\* Rows that a transaction under way is failing wait for it.
Held == UNION {req[r].failing : r \in Request}

\* What the goroutine has to say goes to the row if it still waits; when the
\* write fails, only the log has it.
Settled(i, s) ==
    /\ i \in DOMAIN job /\ i \notin Held /\ job' = Without({i})
    /\ row' = IF row[i].status = "pending" THEN [row EXCEPT ![i].status = s] ELSE row
    /\ UNCHANGED <<req, lock, due, crashes>>
MarkDoneWithRecs(i) == Settled(i, "done")
MarkFailed(i) == Settled(i, "failed")
Unwritten(i) ==
    /\ i \in DOMAIN job /\ crashes < MaxCrashes /\ crashes' = crashes + 1
    /\ job' = Without({i}) /\ UNCHANGED <<row, req, lock, due>>
Finish(i) == MarkDoneWithRecs(i) \/ MarkFailed(i)
runAsync(i) == Finish(i) \/ Unwritten(i)

\* The daily job: a pending row of any age keeps it from starting another.
InsertPending(by) ==
    /\ Pending \cap Held = {}
    /\ IF Pending # {} THEN UNCHANGED <<row, job>>
       ELSE /\ Len(row) < MaxRows
            /\ row' = Append(row, [by |-> by, status |-> "pending", age |-> 0])
            /\ job' = With(Len(row) + 1)
generateDailyInterests ==
    due /\ due' = FALSE /\ InsertPending("auto") /\ UNCHANGED <<req, lock, crashes>>
Daybreak == ~due /\ due' = TRUE /\ UNCHANGED <<row, job, req, lock, crashes>>

Crash(by) ==
    /\ crashes < MaxCrashes /\ crashes' = crashes + 1
    /\ job' = Without({i \in DOMAIN job : row[i].by = by})
    /\ IF by = "auto" THEN UNCHANGED <<row, req, lock>>
       ELSE req' = [r \in Request |-> Idle] /\ lock' = Nobody /\ UNCHANGED row
    /\ UNCHANGED due

Capped(n) == IF n < Month THEN n + 1 ELSE n
Tick ==
    /\ \A i \in DOMAIN job : row[i].by = "manual" => job[i] < Timeout
    /\ row' = [i \in DOMAIN row |-> [row[i] EXCEPT !.age = Capped(@)]]
    /\ job' = [i \in DOMAIN job |-> IF row[i].by = "manual" THEN job[i] + 1 ELSE job[i]]
    /\ UNCHANGED <<req, lock, due, crashes>>

Next ==
    \/ \E r \in Request : Generate(r) \/ TakeLock(r) \/ Count(r) \/ ReserveManual(r)
    \/ \E i \in DOMAIN job : runAsync(i)
    \/ generateDailyInterests \/ Daybreak \/ Tick \/ \E by \in {"auto", "manual"} : Crash(by)

Spec == Init /\ [][Next]_vars

\* Time goes on, jobs end, the cron runs every day; a reader need not ask.
FairSpec ==
    /\ Spec /\ WF_vars(Tick) /\ WF_vars(Daybreak) /\ WF_vars(generateDailyInterests)
    /\ \A i \in 1 .. MaxRows : WF_vars(i \in DOMAIN job /\ Finish(i))
    /\ \A r \in Request : WF_vars(TakeLock(r) \/ Count(r) \/ ReserveManual(r))

-----------------------------------------------------------------------------
\* However requests, the daily job, late answers and crashes cross, there is one
\* pending analysis at most, and no more attempts on request than a day and a
\* month allow, those that failed included.
QuotaKept ==
    /\ Cardinality(Pending) <= 1
    /\ CountManualSince(Day) <= Daily /\ CountManualSince(Month) <= Monthly

\* A row is settled once: an answer that comes after the row was given up does
\* not bring it back.
SettledOnceStep ==
    \A i \in DOMAIN row : row[i].status # "pending" => row'[i].status = row[i].status
SettledOnce == [][SettledOnceStep]_vars

\* "A crashed process cannot leave the user permanently pending."
PendingEnds == \A i \in 1 .. MaxRows : (i \in Pending) ~> (i \notin Pending)
=============================================================================
