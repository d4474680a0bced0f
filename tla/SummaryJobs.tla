---------------------------- MODULE SummaryJobs ----------------------------
(***************************************************************************)
(* The durable lease under which an article is summarised: worker          *)
(* goroutines, API requests and results computed in a reader's browser     *)
(* claim it, ask a provider for minutes, and save what they got, while     *)
(* fetches replace the article's content.  One article: the rows of        *)
(* different articles share nothing.                                       *)
(*                                                                         *)
(* Time is what is left of a lease or of a backoff, so no clock is         *)
(* bounded.  A lease token is named by its caller: a caller that claims    *)
(* again rotates the token, so the row holds c's name exactly if c's       *)
(* latest claim is the latest of all.                                      *)
(*                                                                         *)
(* An API request runs in one transaction: its rows stay locked, and what  *)
(* it wrote unseen, until it ends.  A worker's statement is a transaction  *)
(* of its own, with the same steps.                                        *)
(***************************************************************************)
EXTENDS Integers, TLC

CONSTANTS
    Worker,      \* worker goroutines: automatic claims
    Api,         \* API requests that ask the site's provider
    Browser,     \* API requests that save what a browser computed
    NoCaller,
    Content,     \* contents of the article
    NoContent,
    LeaseLength, \* lease of a claim: 10 minutes
    CallLimit,   \* deadline of a provider call: 6 minutes
    MaxAttempts, \* attempts after which the backoff grows no more: 9
    MaxReset     \* bound: the longest wait for a task budget's reset

Caller == Worker \cup Api \cup Browser

ASSUME SummaryAssumption ==
    /\ Worker \cap Api = {} /\ Worker \cap Browser = {} /\ Api \cap Browser = {}
    /\ NoCaller \notin Caller /\ Content # {} /\ NoContent \notin Content
    /\ CallLimit \in Nat /\ LeaseLength \in Nat /\ CallLimit < LeaseLength
    /\ MaxAttempts \in Nat \ {0} /\ MaxReset \in Nat

VARIABLES
    content, \* articles.content, as committed
    summary, \* articles.summary_brief and _detailed
    job,     \* the article's row of article_summary_jobs
    call     \* what each caller is doing

vars == <<content, summary, job, call>>

\* A summary: the content it was made from, and who made it.
Summary == [of : Content, by : Caller]
NoSummary == [of |-> NoContent, by |-> NoCaller]

\* GREATEST(attempts-1,0) doublings of a minute.
Backoff[n \in Nat] == IF n <= 1 THEN 1 ELSE 2 * Backoff[n - 1]

\* left: until lease_expires_at; wait: until retry_at, 0 if past or null.
Job == [state : {"none", "running", "failed", "done"},
        holder : Caller \cup {NoCaller}, left : 0 .. LeaseLength, wait : Nat,
        attempts : 0 .. MaxAttempts]

\* content: the one summarised, which the request itself wrote if wrote.
\* prior: the summary that a browser's result may replace.
Call == [pc : {"idle", "read", "working", "produced", "locked", "saved",
               "refused", "failing", "ending"},
         content : Content \cup {NoContent}, prior : Summary \cup {NoSummary},
         wrote : BOOLEAN, spent : 0 .. CallLimit]

TypeOK ==
    /\ content \in Content
    /\ summary \in Summary \cup {NoSummary}
    /\ job \in Job
    /\ call \in [Caller -> Call]

Idle == [pc |-> "idle", content |-> NoContent, prior |-> NoSummary,
         wrote |-> FALSE, spent |-> 0]

Init ==
    /\ content \in Content /\ summary = NoSummary
    /\ job = [state |-> "none", holder |-> NoCaller, left |-> 0,
              wait |-> 0, attempts |-> 0]
    /\ call = [c \in Caller |-> Idle]

-----------------------------------------------------------------------------
Goto(c, pc) == call' = [call EXCEPT ![c].pc = pc]

\* Row locks: of the job, from the check of the lease to the end of the
\* transaction; of the article, from the first write to it.
JobLocked == \E c \in Caller : call[c].pc \in {"locked", "saved", "refused"}
ArticleLockedBy(c) == call[c].wrote \/ call[c].pc = "saved"
ArticleFree(c) == \A e \in Caller \ {c} : ~ArticleLockedBy(e)

\* The article is read before anything is claimed.  A worker picks one that has
\* no summary: GetArticlesWithoutSummary, or content just fetched.
Read(c) ==
    /\ call[c].pc = "idle"
    /\ c \in Worker => summary = NoSummary
    /\ call' = [call EXCEPT ![c] =
         [Idle EXCEPT !.pc = "read", !.content = content,
                      !.prior = IF c \in Browser THEN summary ELSE NoSummary]]
    /\ UNCHANGED <<content, summary, job>>

FreeOnceFailed == job.state # "running"
AlwaysFree == TRUE
Free == job.state # "running" \/ job.left = 0
AlwaysDue(c) == TRUE
DueUnlessFailed(c) == c \in Worker => job.state # "failed"
Due(c) == c \in Worker => job.wait = 0

ClaimSummary(c) ==
    /\ call[c].pc = "read" /\ ~JobLocked
    /\ IF Free /\ Due(c)
       THEN /\ job' = [state |-> "running", holder |-> c, left |-> LeaseLength,
                       wait |-> 0,
                       attempts |-> IF job.attempts < MaxAttempts
                                    THEN job.attempts + 1 ELSE MaxAttempts]
            /\ Goto(c, "working")
       ELSE call' = [call EXCEPT ![c] = Idle] /\ UNCHANGED job
    /\ UNCHANGED <<content, summary>>

\* A request may fetch a transcript first, and make it the content.
UpdateTranscriptContent(c) ==
    /\ c \in Api /\ call[c].pc = "working" /\ ~call[c].wrote /\ ArticleFree(c)
    /\ \E v \in Content :
         call' = [call EXCEPT ![c] = [@ EXCEPT !.content = v, !.wrote = TRUE]]
    /\ UNCHANGED <<content, summary, job>>

Produce(c) ==
    /\ call[c].pc = "working" /\ Goto(c, "produced")
    /\ UNCHANGED <<content, summary, job>>

\* The provider fails or runs into its deadline, its result is empty, or the
\* database refuses the statement that should save it.
GiveUp(c) ==
    /\ call[c].pc \in {"working", "produced"}
    /\ Goto(c, "failing") \/ Goto(c, "ending")
    /\ UNCHANGED <<content, summary, job>>

HeldOnce(c) == call[c].spent <= CallLimit
HoldsLease(c) == job.state = "running" /\ job.holder = c /\ job.left > 0
AnyContent(c) == TRUE
SameContent(c) == call[c].wrote \/ content = call[c].content
AnyPrior(c) == TRUE
SamePrior(c) == c \in Browser => summary = call[c].prior

\* completeSummary locks the lease,
LockLease(c) ==
    /\ call[c].pc = "produced"
    /\ Goto(c, IF HoldsLease(c) THEN "locked" ELSE "ending")
    /\ UNCHANGED <<content, summary, job>>

\* waits for the article, and compares it with what was read.  The title and the
\* template are compared as well: they may refuse it too.
Save(c) ==
    /\ call[c].pc = "locked" /\ ArticleFree(c)
    /\ \/ SameContent(c) /\ SamePrior(c) /\ Goto(c, "saved")
       \/ Goto(c, "refused")
    /\ UNCHANGED <<content, summary, job>>

Commit(c) ==
    /\ call[c].pc = "saved"
    /\ content' = IF call[c].wrote THEN call[c].content ELSE content
    /\ summary' = [of |-> call[c].content, by |-> c]
    /\ job' = [job EXCEPT !.state = "done", !.left = 0, !.wait = 0, !.attempts = 0]
    /\ call' = [call EXCEPT ![c] = Idle]

Rollback(c) ==
    /\ call[c].pc = "saved"
    /\ call' = [call EXCEPT ![c] = [@ EXCEPT !.pc = "failing", !.wrote = FALSE]]
    /\ UNCHANGED <<content, summary, job>>

\* The transaction of a call that saved nothing ends; a transcript it wrote is
\* committed unless the response is a server error.
EndTransaction(c) ==
    /\ call[c].pc \in {"refused", "ending"}
    /\ \/ /\ call[c].wrote
          /\ content' = call[c].content /\ summary' = NoSummary
       \/ UNCHANGED <<content, summary>>
    /\ call' = [call EXCEPT ![c] = [@ EXCEPT !.pc = "failing", !.wrote = FALSE]]
    /\ UNCHANGED job

Later(x, y) == IF x >= y THEN x ELSE y
MayFailAny(c) == job.state = "running"
MayFail(c) == job.state = "running" /\ job.holder = c

\* The failure itself may go unrecorded.  w: until the budget's reset, if that
\* was the cause.
FailSummary(c) ==
    /\ call[c].pc = "failing"
    /\ \/ /\ MayFail(c)
          /\ \E w \in 0 .. MaxReset :
               job' = [job EXCEPT !.state = "failed", !.left = 0,
                                  !.wait = Later(Backoff[job.attempts], w)]
       \/ UNCHANGED job
    /\ call' = [call EXCEPT ![c] = IF call[c].wrote THEN [@ EXCEPT !.pc = "ending"]
                                   ELSE Idle]
    /\ UNCHANGED <<content, summary>>

\* The caller's process dies, or cannot even claim.
Crash(c) ==
    /\ call[c].pc # "idle"
    /\ call' = [call EXCEPT ![c] = Idle]
    /\ UNCHANGED <<content, summary, job>>

-----------------------------------------------------------------------------
InterruptedUnsummarised ==
    job.state = "running" /\ job.left = 0 /\ summary = NoSummary
Interrupted == job.state = "running" /\ job.left = 0

\* A reader looks at the job's state.
GetSummaryJob ==
    /\ ~JobLocked /\ Interrupted
    /\ job' = [job EXCEPT !.state = "failed", !.wait = 0]
    /\ UNCHANGED <<content, summary, call>>

\* Fetches, captures and transcripts replace the content and clear the summary;
\* a clip captured again clears it even if the content is the same.
KeptSummary == summary
InvalidSummary == NoSummary

UpdateContent ==
    /\ \A c \in Caller : ~ArticleLockedBy(c)
    /\ content' \in Content /\ summary' = InvalidSummary
    /\ UNCHANGED <<job, call>>

Less(n) == IF n = 0 THEN 0 ELSE n - 1

\* A provider call does not outlive its deadline.
NoDeadline == TRUE
WithinDeadline ==
    \A c \in Caller : call[c].pc = "working" => call[c].spent < CallLimit

Tick ==
    /\ WithinDeadline
    /\ call' = [c \in Caller |->
                  IF call[c].pc = "working"
                  THEN [call[c] EXCEPT !.spent = @ + 1] ELSE call[c]]
    /\ job' = [job EXCEPT !.left = Less(@), !.wait = Less(@)]
    /\ UNCHANGED <<content, summary>>

\* What a caller that has started will do by itself.
Proceed(c) ==
    \/ ClaimSummary(c) \/ Produce(c) \/ LockLease(c) \/ Save(c)
    \/ Commit(c) \/ EndTransaction(c) \/ FailSummary(c)

Next ==
    \/ \E c \in Caller : \/ Read(c) \/ UpdateTranscriptContent(c) \/ GiveUp(c)
                         \/ Rollback(c) \/ Crash(c) \/ Proceed(c)
    \/ GetSummaryJob
    \/ UpdateContent
    \/ Tick

Spec == Init /\ [][Next]_vars

\* Calls end, because their contexts do; the worker looks for articles without
\* a summary every minute, and is not killed each time before it claims one; a
\* reader who wants this one looks again; time passes.
Fairness ==
    /\ \A c \in Caller : WF_vars(Proceed(c))
    /\ \A c \in Worker : WF_vars(Read(c)) /\ SF_vars(ClaimSummary(c))
    /\ WF_vars(GetSummaryJob)
    /\ WF_vars(Tick)

FairSpec == Spec /\ Fairness

-----------------------------------------------------------------------------
(* Properties *)

\* A summary is one of the present content, whatever was fetched while it was
\* made, or while its transaction waited.
SummaryFresh == summary # NoSummary => summary.of = content

\* The site pays for one provider call at a time for the article: the deadline
\* of a call ends before its lease does.
OneAtATime ==
    \A c, e \in Caller :
        call[c].pc = "working" /\ call[e].pc = "working" => c = e

\* Whoever is saving a result still owns the job, even past the lease's end.
SaverHolds ==
    \A c \in Caller :
        call[c].pc \in {"locked", "saved"}
            => job.state = "running" /\ job.holder = c

\* What a reader is shown of the article and who may still change it agree, in
\* whatever order the callers read, lock, write and commit.
SummaryKept == SummaryFresh /\ OneAtATime /\ SaverHolds

\* An unexpired lease is ended by its own holder only: a superseded caller
\* neither completes nor fails the job of its successor.
FencedStep ==
    job.state = "running" /\ job.left > 0 /\ job'.state # "running" =>
       \E c \in Caller : job.holder = c /\ call[c].pc \in {"saved", "failing"}
                          /\ call'[c] # call[c]
\* However old the worker's list of articles is, no automatic attempt follows
\* a failure before its backoff or the reset of the budget.
BackoffKeptStep ==
    job.wait > 0 /\ job'.state = "running" => job'.holder \notin Worker

\* Between them, a lease passes on only at its end, its expiry or its time.
LeaseKept == [][FencedStep /\ BackoffKeptStep]_vars

\* A browser's result only replaces the summary it was computed against.
NoLostSummaryStep ==
    \A c \in Browser :
       call[c].pc = "saved" /\ summary' # summary => summary = call[c].prior
NoLostSummary == [][NoLostSummaryStep]_vars

\* A lease whose caller is gone does not block the article for ever, also if
\* the article has a summary and no automatic attempt will come.
Orphaned ==
    /\ job.state = "running"
    /\ call[job.holder].pc \in {"idle", "read"}
OrphanRecovered == Orphaned ~> ~Orphaned

\* An article without a summary is tried again after a failure.
Failing == job.state = "failed" /\ summary = NoSummary
FailedRetried == Failing ~> ~Failing

\* For TLC, in runs without liveness.
Symmetry == Permutations(Worker) \cup Permutations(Content)
=============================================================================
