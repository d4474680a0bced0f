------------------------------- MODULE MCJobs --------------------------------
(* Small instances of the background jobs and of what they do with models and  *)
(* providers, checked together: a behaviour is one of a single part, as in     *)
(* MCReaders.                                                                  *)
EXTENDS Naturals, TLC

CONSTANTS
    Parts,                  \* the parts a run checks
    none,                   \* no worker, no site, no key
    w1, w2,                 \* workers
    site, link,             \* a source and a seed of the queue
    x, y,                   \* sources of the queue or of a batch
    admin, job, other       \* who asks for a model

VARIABLES
    part,           \* the part this behaviour is of
    s1, s2, s3, s4, s5, s6, s7, s8, s9, s10

vars == <<part, s1, s2, s3, s4, s5, s6, s7, s8, s9, s10>>

\* The slots a part leaves out keep one value.
Spare10 == s10 = 0
Spare9 == s9 = 0 /\ Spare10
Spare8 == s8 = 0 /\ Spare9
Spare7 == s7 = 0 /\ Spare8
Spare6 == s6 = 0 /\ Spare7
Spare5 == s5 = 0 /\ Spare6
Spare4 == s4 = 0 /\ Spare5
Keep4 == UNCHANGED <<s4, s5, s6, s7, s8, s9, s10>>
Keep5 == UNCHANGED <<s5, s6, s7, s8, s9, s10>>
Keep6 == UNCHANGED <<s6, s7, s8, s9, s10>>
Keep7 == UNCHANGED <<s7, s8, s9, s10>>
Keep8 == UNCHANGED <<s8, s9, s10>>
Keep9 == UNCHANGED <<s9, s10>>
Keep10 == UNCHANGED <<s10>>

\* Two transcripts: chapters that repeat a segment and leave one out, and a
\* chapter with a segment the transcript has not.
Documents == {[chapters |-> << <<1>>, <<2, 1>> >>, segments |-> <<1, 2>>],
              [chapters |-> << <<1, 3>> >>, segments |-> <<1>>]}

QS == INSTANCE ExploreQueue WITH
    now <- s1, source <- s2, task <- s3, run <- s4, lastToken <- s5,
    worker <- s6, item <- s7,
    NoSource <- none, Source <- {site}, Seed <- {link}, Worker <- {w1},
    BatchLimit <- 2, Concurrency <- 2, RetryBudget <- 1, SeedRetries <- 1,
    LeaseLength <- 1, MaxDelay <- 1, MaxTime <- 2
QC == INSTANCE ExploreQueue WITH
    now <- s1, source <- s2, task <- s3, run <- s4, lastToken <- s5,
    worker <- s6, item <- s7,
    NoSource <- none, Source <- {x, y}, Seed <- {}, Worker <- {w1},
    BatchLimit <- 2, Concurrency <- 2, RetryBudget <- 1, SeedRetries <- 1,
    LeaseLength <- 1, MaxDelay <- 1, MaxTime <- 2
PB == INSTANCE Playback WITH
    row <- s1, signals <- s2, lock <- s3, req <- s4,
    Request <- {"r1", "r2", "r3"}, NoRequest <- "none", Position <- {10, 20}
SN == INSTANCE ExploreSnapshot WITH
    cur <- s1, valid <- s2, batch <- s3, marked <- s4, gen <- s5, faults <- s6,
    Worker <- {w1, w2}, NoWorker <- none, Source <- {x, y}, MaxSources <- 1,
    StaleAfter <- 2, ColdStaleAfter <- 1, Retention <- 1, MaxSlot <- 1,
    MaxFaults <- 1
SM == INSTANCE Summarizer WITH
    job <- s1, call <- s2, bill <- s3,
    MaxAttempts <- 3, Native <- {TRUE, FALSE}
RT == INSTANCE AIRouting WITH
    env <- s1, restarts <- s2, revision <- s3, config <- s4, page <- s5,
    pinned <- s6, sent <- s7,
    Admin <- {admin}, Summary <- {job}, Home <- {"z1", "z2", "o"},
    CompanyOf <- [h \in {"z1", "z2", "o"} |-> IF h = "o" THEN "O" ELSE "Z"],
    Unrecognised <- other, None <- none, MaxRevision <- 2, MaxRestarts <- 1
EL == INSTANCE EnglishLife WITH
    now <- s1, conn <- s2, pair <- s3, job <- s4, proc <- s5, session <- s6,
    remote <- s7, left <- s8, posts <- s9, faults <- s10,
    Process <- {"p1", "p2"}, Account <- {"a1"}, Video <- {"v"},
    Document <- Documents, NoAccount <- "none", Soon <- 1, Cool <- 1,
    PairTime <- 1, MaxTime <- 3, MaxLogin <- 1, MaxRenewal <- 1,
    MaxFaults <- 1, Quota <- 1
TR == INSTANCE Transcripts WITH
    art <- s1, due <- s2, batch <- s3, reader <- s4, english <- s5,
    decided <- s6,
    Article <- {1}, MediaOf <- {"video/youtube", "audio"}, Limit <- 1,
    Defer <- 1, Poor <- {1}, MaxCapture <- 1
AN == INSTANCE Analyses WITH
    row <- s1, job <- s2, req <- s3, lock <- s4, due <- s5, crashes <- s6,
    Request <- {"r1", "r2"}, Nobody <- "nobody", Daily <- 1, Monthly <- 2,
    Day <- 3, Month <- 4, Timeout <- 1, Recover <- 2, MaxRows <- 3,
    MaxCrashes <- 1
BR == INSTANCE Briefings WITH
    day <- s1, week <- s2, weekday <- s3, night <- s4, cron <- s5, job <- s6,
    faults <- s7,
    User <- {"u1"}, Retried <- 2, CatchUp <- 1, Attempts <- 2, Permits <- 1,
    Days <- 2, MaxFaults <- 1

\* For the queue's catalog and the snapshots.
Symmetry == Permutations({w1, w2}) \cup Permutations({x, y})

\* What the steps of the part read.
View == IF part = "queue, catalog" THEN <<part, QC!CatalogView>> ELSE vars

-----------------------------------------------------------------------------
Init ==
    /\ part \in Parts
    /\ \/ part = "queue, seeds" /\ QS!Init /\ Spare8
       \/ part = "queue, catalog" /\ QC!Init /\ Spare8
       \/ part = "playback" /\ PB!Init /\ Spare5
       \/ part = "snapshot" /\ SN!Init /\ Spare7
       \/ part = "summarizer" /\ SM!Init /\ Spare4
       \/ part = "routing" /\ RT!Init /\ Spare8
       \/ part = "english-life" /\ EL!Init
       \/ part = "transcripts" /\ TR!Init /\ Spare7
       \/ part = "interests" /\ AN!Init /\ Spare7
       \/ part = "briefings" /\ BR!Init /\ Spare8

Next ==
    /\ UNCHANGED part
    /\ \/ part = "queue, seeds" /\ QS!Next /\ Keep8
       \/ part = "queue, catalog" /\ QC!Next /\ Keep8
       \/ part = "playback" /\ PB!Next /\ Keep5
       \/ part = "snapshot" /\ SN!Next /\ Keep7
       \/ part = "summarizer" /\ SM!Next /\ Keep4
       \/ part = "routing" /\ RT!Next /\ Keep8
       \/ part = "english-life" /\ EL!Next
       \/ part = "transcripts" /\ TR!Next /\ Keep7
       \/ part = "interests" /\ AN!Next /\ Keep7
       \/ part = "briefings" /\ BR!Next /\ Keep8

Spec == Init /\ [][Next]_vars

-----------------------------------------------------------------------------
TypeOK ==
    /\ part \in Parts
    /\ PB!PlaybackAssumption /\ SN!SnapshotAssumption /\ RT!RoutingAssumption
    /\ AN!AnalysesAssumption /\ EL!EnglishLifeAssumption /\ BR!BriefingsAssumption
    /\ part = "queue, seeds" => QS!TypeOK
    /\ part = "queue, catalog" => QC!TypeOK
    /\ part = "playback" => PB!TypeOK
    /\ part = "snapshot" => SN!TypeOK
    /\ part = "summarizer" => SM!TypeOK
    /\ part = "routing" => RT!TypeOK
    /\ part = "english-life" => EL!TypeOK
    /\ part = "transcripts" => TR!TypeOK
    /\ part = "interests" => AN!TypeOK
    /\ part = "briefings" => BR!TypeOK

(* Of two sources, found again, merged, stopped and put off while they are     *)
(* fetched: the count of failures and the state agree with the retry budget    *)
(* (explore_queue.go).                                                         *)
RetryBudgetKept == part = "queue, catalog" => QC!RetryBudgetKept

(* A source merged into another one stays invalid, although its own tasks may  *)
(* still be in flight (explore_catalog.go).                                    *)
TombstonesStayInvalid == part = "queue, catalog" => QC!TombstonesStayInvalid

(* An older fetch, a failure or a rediscovery that ends after the stop does    *)
(* not reactivate a stopped source (explore_queue.go, explore_catalog.go).     *)
StoppedSticky == [][part = "queue, catalog" => QC!StoppedStickyStep]_vars

(* A fetch that began before a retry deadline was set does not bring it        *)
(* forward (explore_queue.go).                                                 *)
DeadlineKept == [][part = "queue, catalog" => QC!DeadlineKeptStep]_vars

(* A snapshot is published by its claimant, with sources still valid, and      *)
(* stays as it is (explore_snapshot.go); an analysis once settled stays        *)
(* settled (interest_admission.go).                                            *)
JobStep ==
    /\ part = "snapshot" => SN!PublishedByHolderStep /\ SN!DoneKeptStep
    /\ part = "interests" => AN!SettledOnceStep
JobsFenced == [][JobStep]_vars

(* The completion signal and the completed row agree, and a published snapshot *)
(* has its sources (playback_progress.go, explore_snapshot.go); the seeds of a *)
(* claim are under the batch's one lease (explore_queue.go).                   *)
RecordsWhole ==
    /\ part = "playback" => PB!SignalMatchesRow
    /\ part = "snapshot" => SN!WholeBatch
    /\ part = "queue, seeds" => QS!OneBatch

(* What a reader saw stream in is what is kept, under the model that wrote it, *)
(* and every permit is returned (ai/summarizer.go, admission.go); no key       *)
(* reaches an endpoint it was not given for (airouting/store.go); a video      *)
(* costs one job at most, the newest cookie is kept and the text is whole      *)
(* (englishlife); an article is given up only on answers, not on trouble       *)
(* (transcript, cmd/worker/main.go).                                           *)
ProvidersKept ==
    /\ part = "summarizer" => SM!SummaryHonest
    /\ part = "routing" => RT!KeysStayHome
    /\ part = "english-life" => EL!PaidForOnce
    /\ part = "transcripts" => TR!GivenUpOnAnswers

(* Analyses stay within the day's and the month's quota, however requests and  *)
(* the daily pass meet (interest_admission.go); a briefing that exists stays,  *)
(* and a day is retried as often as promised (briefing.go).                    *)
PlansKept ==
    /\ part = "interests" => AN!QuotaKept
    /\ part = "briefings" => BR!BriefingKept
=============================================================================
