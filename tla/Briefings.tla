------------------------------ MODULE Briefings --------------------------------
(* The morning briefings: at 05:00 the worker writes the digests of the last   *)
(* days, and on Mondays that of the last week; a start of the worker does the  *)
(* same at once.  Days and weeks are counted back from now, and move back as   *)
(* time passes.  cmd/worker/briefing.go, internal/repository/*_digest.go,      *)
(* internal/api/{daily,weekly*,briefing_index}.go, internal/ai/*_digest.go.    *)
EXTENDS Naturals, FiniteSets, Sequences

CONSTANTS User,
          Retried,        \* the completed days a pass goes through
          CatchUp,        \* the completed weeks a start goes through
          Attempts,       \* calls of the model for a day, the backoffs between them
          Permits,        \* summaries made at a time
          Days,           \* days of a week
          MaxFaults       \* failed queries, stops, mornings without a worker, late articles

VARIABLES
    day,        \* a completed day: without articles, without digest, or with one
    week,       \* a completed week
    weekday,    \* 1 for Monday
    night,      \* between midnight and 05:00
    cron,       \* the goroutine of the worker
    job,        \* the goroutine of each reader in the step under way
    faults

vars == <<day, week, weekday, night, cron, job, faults>>

\* A day falls back by a day, which the next pass must be there to make.
BriefingsAssumption ==
    {Retried, CatchUp, Attempts, Permits, Days, MaxFaults} \subseteq Nat /\ Retried >= 2

Missing == {"bare", "due"}
Idle == [at |-> "off", n |-> 0]
Asleep == [at |-> "asleep", plan |-> << >>, crossed |-> FALSE]
Step == [of : {"day"}, k : 1 .. Retried + 1] \cup [of : {"week"}, k : 1 .. CatchUp + 1]

TypeOK ==
    /\ day \in [User -> [1 .. Retried + 1 -> Missing \cup {"intro", "fallback"}]]
    /\ week \in [User -> [1 .. CatchUp + 1 -> Missing \cup {"intro"}]]
    /\ weekday \in 1 .. Days /\ night \in BOOLEAN
    /\ cron.at \in {"down", "asleep", "between", "step"} /\ cron.plan \in Seq(Step)
    /\ cron.crossed \in BOOLEAN /\ (cron.at = "step" => cron.plan # << >>)
    /\ \A u \in User : job[u].at \in {"off", "wait", "asking"} /\ job[u].n \in 0 .. Attempts
    /\ faults \in 0 .. MaxFaults

Init ==
    /\ day = [u \in User |-> [k \in 1 .. Retried + 1 |-> "bare"]]
    /\ week = [u \in User |-> [k \in 1 .. CatchUp + 1 |-> "bare"]]
    /\ weekday = Days /\ night = FALSE /\ cron = Asleep
    /\ job = [u \in User |-> Idle] /\ faults = 0

-----------------------------------------------------------------------------
Fault == faults < MaxFaults /\ faults' = faults + 1
DailyPass == [k \in 1 .. Retried |-> [of |-> "day", k |-> k]]
WeeklyPass(n) == [k \in 1 .. n |-> [of |-> "week", k |-> k]]
Back(s, n) == [k \in DOMAIN s |-> IF k = 1 THEN n ELSE s[k - 1]]
Older(plan, what) == [i \in DOMAIN plan |-> IF plan[i].of = what THEN [plan[i] EXCEPT !.k = @ + 1] ELSE plan[i]]

\* A pass takes its dates when it begins.  It may last beyond midnight, or
\* beyond 05:00, never both: it is over within five hours.
Crossing(what) ==
    IF cron.at \in {"between", "step"} THEN ~cron.crossed /\ cron' = [cron EXCEPT !.crossed = TRUE, !.plan = Older(@, what)]
    ELSE UNCHANGED cron

\* Weeks turn at midnight.
MondayLabel ==
    /\ ~night /\ night' = TRUE /\ weekday' = IF weekday = Days THEN 1 ELSE weekday + 1
    /\ IF weekday = Days
       THEN /\ Crossing("week")
            /\ \E new \in [User -> Missing] : week' = [u \in User |-> Back(week[u], new[u])]
       ELSE Crossing("none") /\ UNCHANGED week
    /\ UNCHANGED <<day, job, faults>>

\* Days turn at 05:00, and the worker that sleeps wakes up.
fireBriefings == [at |-> "between", crossed |-> FALSE,
                  plan |-> IF weekday = 1 THEN DailyPass \o WeeklyPass(1) ELSE DailyPass]
TodayLabel ==
    /\ night /\ night' = FALSE
    /\ \E new \in [User -> Missing] : day' = [u \in User |-> Back(day[u], new[u])]
    /\ IF cron.at = "asleep" THEN cron' = fireBriefings ELSE Crossing("day")
    /\ IF cron.at = "down" THEN Fault ELSE UNCHANGED faults
    /\ UNCHANGED <<week, weekday, job>>

Stop ==
    /\ cron.at # "down" /\ Fault /\ cron' = [Asleep EXCEPT !.at = "down"]
    /\ job' = [u \in User |-> Idle] /\ UNCHANGED <<day, week, weekday, night>>
runBriefingCatchUp ==
    /\ cron.at = "down"
    /\ cron' = [at |-> "between", crossed |-> FALSE, plan |-> DailyPass \o WeeklyPass(CatchUp)]
    /\ UNCHANGED <<day, week, weekday, night, job, faults>>

\* An article of yesterday that is fetched today.
LateArticle(u) ==
    /\ day[u][1] = "bare" /\ Fault /\ day' = [day EXCEPT ![u][1] = "due"]
    /\ UNCHANGED <<week, weekday, night, cron, job>>

-----------------------------------------------------------------------------
Of(u, s) == IF s.of = "day" THEN day[u][s.k] ELSE week[u][s.k]
DailyMissing(k) == {u \in User : day[u][k] \in Missing}
WeeklyMissing(k) == {u \in User : week[u][k] \in Missing}
UserIDsMissing(s) == IF s.of = "day" THEN DailyMissing(s.k) ELSE WeeklyMissing(s.k)
Here == Head(cron.plan)

Begin ==
    /\ cron.at = "between" /\ cron.plan # << >> /\ UNCHANGED <<day, week, weekday, night>>
    /\ \/ /\ cron' = [cron EXCEPT !.at = "step"] /\ UNCHANGED faults
          /\ job' = [u \in User |-> IF u \in UserIDsMissing(Here) THEN [at |-> "wait", n |-> 0] ELSE Idle]
       \/ /\ cron' = [cron EXCEPT !.plan = Tail(@)] /\ Fault /\ UNCHANGED job
End ==
    /\ \/ cron.at = "step" /\ (\A u \in User : job[u] = Idle)
          /\ cron' = [cron EXCEPT !.at = "between", !.plan = Tail(@)]
       \/ cron.at = "between" /\ cron.plan = << >> /\ cron' = Asleep
    /\ UNCHANGED <<day, week, weekday, night, job, faults>>

DailyUpsert(u, k, digest) == day' = [day EXCEPT ![u][k] = digest] /\ UNCHANGED week
WeeklyUpsert(u, k, intro) == week' = [week EXCEPT ![u][k] = intro] /\ UNCHANGED day
Working(u, at) == cron.at = "step" /\ job[u].at = at /\ UNCHANGED <<weekday, night, cron>>
Done(u) == job' = [job EXCEPT ![u] = Idle]

\* The articles of the day, or a query that fails: neither is tried again.
GetTopArticlesInRange(u) ==
    /\ Working(u, "wait") /\ UNCHANGED <<day, week>>
    /\ \/ Of(u, Here) = "bare" /\ Done(u) /\ UNCHANGED faults
       \/ Fault /\ Done(u)
       \/ /\ Of(u, Here) = "due" /\ Cardinality({v \in User : job[v].at = "asking"}) < Permits
          /\ job' = [job EXCEPT ![u].at = "asking"] /\ UNCHANGED faults

\* An answer that does not parse is a failed attempt too; an answer that cannot
\* be stored is not asked for again.
Answered(u) ==
    /\ Working(u, "asking") /\ Done(u)
    /\ \/ Here.of = "day" /\ DailyUpsert(u, Here.k, "intro") /\ UNCHANGED faults
       \/ Here.of = "week" /\ WeeklyUpsert(u, Here.k, "intro") /\ UNCHANGED faults
       \/ Fault /\ UNCHANGED <<day, week>>

\* A week has one attempt; a day has several, and then a list without intro.
generateDailyWithBackoff(u) ==
    /\ Working(u, "asking") /\ Here.of = "day" /\ job[u].n + 1 < Attempts
    /\ job' = [job EXCEPT ![u] = [at |-> "wait", n |-> @.n + 1]] /\ UNCHANGED <<day, week, faults>>
writeFallbackDaily(u) ==
    /\ Working(u, "asking") /\ Here.of = "day" /\ job[u].n + 1 = Attempts /\ Done(u)
    /\ \/ DailyUpsert(u, Here.k, "fallback") /\ UNCHANGED faults
       \/ Fault /\ UNCHANGED <<day, week>>
generateOneWeekly(u) ==
    /\ Working(u, "asking") /\ Here.of = "week" /\ Done(u) /\ UNCHANGED <<day, week, faults>>

Next ==
    \/ MondayLabel \/ TodayLabel \/ Stop \/ runBriefingCatchUp \/ Begin \/ End
    \/ \E u \in User : \/ LateArticle(u) \/ GetTopArticlesInRange(u) \/ Answered(u)
                       \/ generateDailyWithBackoff(u) \/ writeFallbackDaily(u) \/ generateOneWeekly(u)

Spec == Init /\ [][Next]_vars

-----------------------------------------------------------------------------
\* What the pages say of a day and of a week.
DailyGet(u) ==
    IF day[u][1] \notin Missing THEN "cached"
    ELSE IF day[u][2] \notin Missing THEN "the day before" ELSE "pending"
PendingWindow == 1 .. Retried
WeeklyGenerationMetadataAt(u, k) ==
    IF week[u][k] \notin Missing THEN "ready"
    ELSE IF k = 1 /\ weekday = 1 /\ night THEN "scheduled"
    ELSE IF k <= CatchUp THEN "pending" ELSE "not_planned"

\* Bad mornings of any kind, fewer than the days a pass goes through, cost no
\* day: one that had articles has a digest when it leaves the window that the
\* calendar shows as pending.  And one bad morning does not empty the page,
\* which falls back by a day.
BriefingKept ==
    cron.at = "asleep" =>
      \A u \in User :
        /\ faults < Retried => \A k \in DOMAIN day[u] \ PendingWindow : day[u][k] # "due"
        /\ faults <= 1 /\ "bare" \notin {day[u][1], day[u][2]} => DailyGet(u) # "pending"

\* A week that the page says is being made is made, or is still going to be:
\* "周报生成中，稍后刷新…" (frontend/src/util/weeklyGenerationStatus.ts).
WeekBeingMade ==
    \A u \in User, k \in 1 .. CatchUp + 1 :
      WeeklyGenerationMetadataAt(u, k) = "pending" /\ week[u][k] = "due" =>
        cron.at = "down" \/ \E i \in DOMAIN cron.plan : cron.plan[i] = [of |-> "week", k |-> k]
=============================================================================
