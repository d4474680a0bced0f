------------------------------- MODULE MCLive --------------------------------
(* What must happen in the end, in small instances of the parts whose          *)
(* schedulers promise it: a behaviour is one of a single part, as in           *)
(* MCReaders.                                                                  *)
EXTENDS Naturals

CONSTANTS
    Parts,                  \* the parts a run checks
    none, empty,            \* nobody, no text
    w1, a1,                 \* a worker and a request of the API
    x, y                    \* contents of an article, sources of a batch

VARIABLES
    part,           \* the part this behaviour is of
    s1, s2, s3, s4, s5, s6

vars == <<part, s1, s2, s3, s4, s5, s6>>

\* The slots a part leaves out keep one value.
Spare6 == s6 = 0
Spare5 == s5 = 0 /\ Spare6
Spare4 == s4 = 0 /\ Spare5
Keep4 == UNCHANGED <<s4, s5, s6>>
Keep5 == UNCHANGED <<s5, s6>>
Keep6 == UNCHANGED <<s6>>

Probe == {"/feed", "/rss"}
Request == {"r1"}

SJ == INSTANCE SummaryJobs WITH
    content <- s1, summary <- s2, job <- s3, call <- s4,
    Worker <- {w1}, Api <- {a1}, Browser <- {}, NoCaller <- none,
    Content <- {x, y}, NoContent <- empty, LeaseLength <- 2, CallLimit <- 1,
    MaxAttempts <- 2, MaxReset <- 1
SN == INSTANCE ExploreSnapshot WITH
    cur <- s1, valid <- s2, batch <- s3, marked <- s4, gen <- s5, faults <- s6,
    Worker <- {w1}, NoWorker <- none, Source <- {x, y}, MaxSources <- 2,
    StaleAfter <- 2, ColdStaleAfter <- 1, Retention <- 1, MaxSlot <- 1,
    MaxFaults <- 1
FP == INSTANCE FeedPreview WITH
    page <- s1, probe <- s2, channel <- s3, discovered <- s4, at <- s5,
    answer <- s6,
    Probe <- Probe, Link <- {"a", "b", "c"}, Acceptable <- {"b", "c"},
    Matches <- << <<"a">>, <<"b", "a", "c">> >>, Cap <- 2, Enough <- 1,
    Structured <- {}, Few <- 1
CL == INSTANCE Clips WITH
    feeds <- s1, article <- s2, stored <- s3, request <- s4, ocr <- s5,
    told <- s6,
    Url <- {"u"}, Request <- {"r1"}, MaxLen <- 1, MaxArticle <- 2, Batch <- 1
AR == INSTANCE AddressRace WITH
    req <- s1, att <- s2, secondary <- s3,
    Request <- Request, Images <- {TRUE, FALSE},
    Outcome <- {"won", "response", "transient", "other"}, Addresses <- 2,
    Lanes <- 1, Slots <- 2

-----------------------------------------------------------------------------
Init ==
    /\ part \in Parts
    /\ \/ part = "summary" /\ SJ!Init /\ Spare5
       \/ part = "snapshot" /\ SN!Init
       \/ part = "preview" /\ FP!Init
       \/ part = "clips" /\ CL!Init
       \/ part = "addresses" /\ AR!Init /\ Spare4

Next ==
    /\ UNCHANGED part
    /\ \/ part = "summary" /\ SJ!Next /\ Keep5
       \/ part = "snapshot" /\ SN!Next
       \/ part = "preview" /\ FP!Next
       \/ part = "clips" /\ CL!Next
       \/ part = "addresses" /\ AR!Next /\ Keep4

Spec == Init /\ [][Next]_vars

\* The fairness that each part states in its own module.
Fairness ==
    /\ \A c \in {w1, a1} : WF_(SJ!vars)(part = "summary" /\ SJ!Proceed(c))
    /\ WF_(SJ!vars)(part = "summary" /\ SJ!Read(w1))
    /\ SF_(SJ!vars)(part = "summary" /\ SJ!ClaimSummary(w1))
    /\ WF_(SJ!vars)(part = "summary" /\ SJ!GetSummaryJob)
    /\ WF_(SJ!vars)(part = "summary" /\ SJ!Tick)
    /\ WF_(SN!vars)(part = "snapshot" /\ SN!Tick)
    /\ \A s \in SN!Slot : WF_(SN!vars)(part = "snapshot" /\ SN!Generate(w1, s))
    /\ WF_(FP!vars)(part = "preview" /\ FP!Handle)
    /\ \A b \in Probe : WF_(FP!vars)(part = "preview" /\ FP!Fetched(b))
    /\ \A b \in Probe : WF_(FP!vars)(part = "preview" /\ FP!Send(b))
    /\ WF_(CL!vars)(part = "clips" /\ CL!GetPDFOCRPending)
    /\ WF_(CL!vars)(part = "clips" /\ CL!Read)
    /\ \A a \in CL!Id : SF_(CL!vars)(part = "clips" /\ CL!Attempt(a))
    /\ \A r \in Request : WF_(AR!vars)(part = "addresses" /\ AR!Go(r))
    /\ \A r \in Request : WF_(AR!vars)(part = "addresses" /\ AR!Notice(r))
    /\ \A r \in Request, i \in 1 .. 4 : WF_(AR!vars)(part = "addresses" /\ AR!RunNext(r, i))

FairSpec == Spec /\ Fairness

-----------------------------------------------------------------------------
(* An orphaned summary lease does not block its article for ever, a failed     *)
(* summary is tried again (article_summary_jobs.go), and whatever crashes or   *)
(* fails, the current slot gets its batch (explore_snapshot.go).               *)
JobsServed ==
    /\ (part = "summary" /\ SJ!Orphaned) ~> ~(part = "summary" /\ SJ!Orphaned)
    /\ (part = "summary" /\ SJ!Failing) ~> ~(part = "summary" /\ SJ!Failing)
    /\ (part = "snapshot" /\ SN!Unserved(1)) ~> ~(part = "snapshot" /\ SN!Unserved(1))

(* A clip that is a scan, which the OCR loop lists, does not stay "processing" *)
(* (pdf_ocr.go); no probe of a preview is left behind by the request that      *)
(* started it (rss/fetcher.go); and lanes and connections are never waited for *)
(* in a circle: a request ends (httpx/image_scheduler.go).                     *)
CapturesServed ==
    /\ <>[](part = "clips" /\ CL!NoScans)
         => \A a \in CL!Id : []<>(part = "clips" /\ a \notin CL!Pending)
    /\ \A b \in Probe :
          (part = "preview" /\ FP!Left(b)) ~> ~(part = "preview" /\ FP!Left(b))
    /\ \A r \in Request :
          (part = "addresses" /\ AR!Open(r)) ~> ~(part = "addresses" /\ AR!Open(r))
=============================================================================
