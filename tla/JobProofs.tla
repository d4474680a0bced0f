----------------------------- MODULE JobProofs ------------------------------
(***************************************************************************)
(* Theorems about work whose outcome a reader waits for: the claims of     *)
(* SummaryJobs, the rows of Analyses, the attempts of Transcripts, the     *)
(* halves of Summarizer, the remote jobs of EnglishLife and the calendar   *)
(* of Briefings, for every set of workers, requests, processes, articles,  *)
(* accounts, videos and readers and every length of the leases, calls,     *)
(* backoffs, quotas and passes.                                            *)
(*                                                                         *)
(* Each inductive invariant says what a caller knows at each of its steps: *)
(* a claim's call is as old as its lease while it asks the provider, who   *)
(* counts a quota holds the lock until it has inserted, a transcript's     *)
(* attempt ends on an answer only if no source erred, what is shown of a   *)
(* half is what its running call has said, who posts a video has noted     *)
(* first that it does, and a day without its digest has cost a fault for   *)
(* every pass that is over.                                                *)
(***************************************************************************)
EXTENDS SummaryJobs, NaturalsInduction, WellFoundedInduction, FiniteSetTheorems,
        SequenceTheorems, TLAPS

-----------------------------------------------------------------------------
(* The backoff is a number: the recursive function is defined for every     *)
(* count of attempts.                                                       *)

LEMMA LeastNumber ==
    ASSUME NEW T \in SUBSET Nat, T # {}
    PROVE  \E m \in T : \A k \in T : m <= k
<1>1. PICK m \in T : \A k \in T : <<k, m>> \notin OpToRel(<, Nat)
  BY NatLessThanWellFounded, WFMin
<1>2. \A k \in T : ~ (k < m)
  BY <1>1, Zenon DEF OpToRel
<1> QED
  BY <1>2

\* Beginnings of the backoff: up to n.
Step(g, m) == IF m <= 1 THEN 1 ELSE 2 * g[m - 1]
Begins(n) == {g \in [0 .. n -> Nat] : \A m \in 0 .. n : g[m] = Step(g, m)}

LEMMA BeginningExists == \A n \in Nat : Begins(n) # {}
<1> SUFFICES ASSUME NEW o \in Nat, Begins(o) = {} PROVE FALSE
  OBVIOUS
<1> DEFINE T == {n \in Nat : Begins(n) = {}}
<1>1. PICK n \in T : \A k \in T : n <= k
  <2>1. T \in SUBSET Nat /\ T # {}
    OBVIOUS
  <2> QED
    BY <2>1, LeastNumber
<1>2. CASE n <= 1
  <2> DEFINE g == [m \in 0 .. n |-> 1]
  <2>1. g \in Begins(n)
    BY <1>2 DEF Begins, Step
  <2> QED
    BY <1>1, <2>1
<1>3. CASE n > 1
  <2>1. n - 1 \in Nat /\ n - 1 \notin T
    BY <1>1, <1>3
  <2>2. PICK h : h \in Begins(n - 1)
    BY <2>1
  <2>3. h \in [0 .. n - 1 -> Nat] /\ \A m \in 0 .. n - 1 : h[m] = Step(h, m)
    BY <2>2 DEF Begins
  <2> DEFINE g == [m \in 0 .. n |-> IF m = n THEN 2 * h[n - 1] ELSE h[m]]
  <2>4. g \in [0 .. n -> Nat]
    BY <1>3, <2>3
  <2>5. ASSUME NEW m \in 0 .. n PROVE g[m] = Step(g, m)
    BY <1>3, <2>3, <2>5 DEF Step
  <2>6. g \in Begins(n)
    BY <2>4, <2>5 DEF Begins
  <2> QED
    BY <1>1, <2>6
<1> QED
  BY <1>1, <1>2, <1>3

LEMMA BeginningsAgree ==
    ASSUME NEW n \in Nat, NEW o \in Nat, NEW g \in Begins(n), NEW h \in Begins(o),
           NEW m \in 0 .. n, m <= o
    PROVE  g[m] = h[m]
<1> SUFFICES ASSUME g[m] # h[m] PROVE FALSE
  OBVIOUS
<1> DEFINE T == {k \in Nat : k <= n /\ k <= o /\ g[k] # h[k]}
<1>1. PICK k \in T : \A j \in T : k <= j
  <2>1. T \in SUBSET Nat /\ m \in T
    OBVIOUS
  <2> QED
    BY <2>1, LeastNumber
<1>2. g[k] = Step(g, k) /\ h[k] = Step(h, k)
  BY <1>1 DEF Begins
<1>3. k > 1
  BY <1>1, <1>2 DEF Step
<1>4. k - 1 \in Nat /\ k - 1 \notin T
  BY <1>1, <1>3
<1>5. g[k - 1] = h[k - 1]
  BY <1>1, <1>4
<1> QED
  BY <1>1, <1>2, <1>3, <1>5 DEF Step

LEMMA BackoffDefined == Backoff = [n \in Nat |-> Step(Backoff, n)]
<1> DEFINE begin(n) == CHOOSE g : g \in Begins(n)
           f == [n \in Nat |-> begin(n)[n]]
<1>1. \A n \in Nat : begin(n) \in Begins(n)
  BY BeginningExists
<1>2. ASSUME NEW n \in Nat PROVE f[n] = Step(f, n)
  <2>1. \A g \in Begins(n) : g[n] = Step(g, n)
    BY DEF Begins
  <2> HIDE DEF begin
  <2>3. begin(n)[n] = Step(begin(n), n)
    BY <1>1, <2>1
  <2>2. CASE n > 1
    <3>1. n - 1 \in Nat /\ n - 1 \in 0 .. n /\ n - 1 <= n - 1
      BY <2>2
    <3>2. begin(n)[n - 1] = begin(n - 1)[n - 1]
      BY <1>1, <3>1, BeginningsAgree
    <3> QED
      BY <2>2, <2>3, <3>1, <3>2 DEF Step
  <2> QED
    BY <2>2, <2>3 DEF Step
<1>3. f = [n \in Nat |-> f[n]]
  OBVIOUS
<1> HIDE DEF f
<1>4. f = [n \in Nat |-> IF n <= 1 THEN 1 ELSE 2 * f[n - 1]]
  BY <1>2, <1>3 DEF Step
<1> QED
  BY <1>4 DEF Backoff, Step

LEMMA BackoffType == \A n \in Nat : Backoff[n] \in Nat \ {0}
<1> SUFFICES ASSUME NEW o \in Nat, Backoff[o] \notin Nat \ {0} PROVE FALSE
  OBVIOUS
<1> DEFINE T == {n \in Nat : Backoff[n] \notin Nat \ {0}}
<1>1. PICK n \in T : \A k \in T : n <= k
  <2>1. T \in SUBSET Nat /\ o \in T
    OBVIOUS
  <2> QED
    BY <2>1, LeastNumber
<1>2. Backoff[n] = Step(Backoff, n)
  BY <1>1, BackoffDefined
<1>3. n > 1
  BY <1>1, <1>2 DEF Step
<1>4. n - 1 \in Nat /\ n - 1 \notin T
  BY <1>1, <1>3
<1> QED
  BY <1>1, <1>2, <1>3, <1>4 DEF Step

-----------------------------------------------------------------------------
(* Type correctness *)

LEMMA Numbers ==
    /\ LeaseLength \in Nat /\ CallLimit \in Nat /\ CallLimit < LeaseLength
    /\ MaxAttempts \in Nat \ {0} /\ MaxReset \in Nat
    /\ NoCaller \notin Caller /\ NoContent \notin Content
BY SummaryAssumption

LEMMA IdleType == Idle \in Call
BY Numbers DEF Idle, Call, NoSummary

LEMMA InitType == Init => TypeOK
BY Numbers, IdleType DEF Init, TypeOK, Job

LEMMA LaterType == \A x, y \in Nat : Later(x, y) \in Nat /\ Later(x, y) >= x
BY DEF Later

LEMMA RowType ==
    ASSUME NEW row \in Job
    PROVE  /\ \A left \in 0 .. LeaseLength, wait \in Nat :
                [row EXCEPT !.left = left, !.wait = wait] \in Job
           /\ \A wait \in Nat :
                /\ [row EXCEPT !.state = "failed", !.wait = wait] \in Job
                /\ [row EXCEPT !.state = "failed", !.left = 0, !.wait = wait] \in Job
           /\ [row EXCEPT !.state = "done", !.left = 0, !.wait = 0,
                          !.attempts = 0] \in Job
<1>1. 0 \in 0 .. LeaseLength /\ 0 \in 0 .. MaxAttempts /\ 0 \in Nat
  BY Numbers
<1> QED
  BY <1>1, Zenon DEF Job

\* The calls that a step of one caller may leave: the pc moves, or the call ends.
LEMMA GotoType ==
    ASSUME TypeOK, NEW c \in Caller,
           NEW pc \in {"idle", "read", "working", "produced", "locked", "saved",
                       "refused", "failing", "ending"},
           Goto(c, pc)
    PROVE  call' \in [Caller -> Call]
<1>1. [call[c] EXCEPT !.pc = pc] \in Call
  BY DEF TypeOK, Call
<1> QED
  BY <1>1 DEF Goto, TypeOK

\* From the read of the article on, a call has the content to be summarised.
HasContent == \A c \in Caller : call[c].pc # "idle" => call[c].content \in Content

LEMMA StepType == TypeOK /\ HasContent /\ [Next]_vars => TypeOK'
<1> SUFFICES ASSUME TypeOK, HasContent, [Next]_vars PROVE TypeOK'
  OBVIOUS
<1> USE DEF TypeOK
<1>1. ASSUME NEW c \in Caller, Read(c) PROVE TypeOK'
  <2> DEFINE prior == IF c \in Browser THEN summary ELSE NoSummary
  <2>1. [Idle EXCEPT !.pc = "read", !.content = content, !.prior = prior] \in Call
    BY IdleType DEF Call
  <2> QED
    BY <1>1, <2>1 DEF Read
<1>2. ASSUME NEW c \in Caller, ClaimSummary(c) PROVE TypeOK'
  <2>1. CASE Free /\ Due(c)
    <3> DEFINE n == IF job.attempts < MaxAttempts THEN job.attempts + 1 ELSE MaxAttempts
    <3>1. n \in 0 .. MaxAttempts
      BY Numbers DEF Job
    <3>2. job' = [state |-> "running", holder |-> c, left |-> LeaseLength,
                  wait |-> 0, attempts |-> n]
      BY <1>2, <2>1 DEF ClaimSummary
    <3> HIDE DEF n
    <3>3. job' \in Job
      BY <3>1, <3>2, Numbers DEF Job
    <3> QED
      BY <1>2, <2>1, <3>3, GotoType DEF ClaimSummary
  <2>2. CASE ~(Free /\ Due(c))
    BY <1>2, <2>2, IdleType DEF ClaimSummary
  <2> QED
    BY <2>1, <2>2
<1>3. ASSUME NEW c \in Caller, UpdateTranscriptContent(c) PROVE TypeOK'
  <2>1. PICK v \in Content :
           call' = [call EXCEPT ![c] = [@ EXCEPT !.content = v, !.wrote = TRUE]]
    BY <1>3 DEF UpdateTranscriptContent
  <2>2. [call[c] EXCEPT !.content = v, !.wrote = TRUE] \in Call
    BY DEF Call
  <2> QED
    BY <1>3, <2>1, <2>2 DEF UpdateTranscriptContent
<1>4. ASSUME NEW c \in Caller, Produce(c) \/ GiveUp(c) \/ LockLease(c) \/ Save(c)
      PROVE  TypeOK'
  BY <1>4, GotoType DEF Produce, GiveUp, LockLease, Save
<1>5. ASSUME NEW c \in Caller, Commit(c) PROVE TypeOK'
  <2>1. call[c].content \in Content
    BY <1>5 DEF Commit, HasContent
  <2>2. [of |-> call[c].content, by |-> c] \in Summary
    BY <2>1 DEF Summary
  <2>3. [job EXCEPT !.state = "done", !.left = 0, !.wait = 0, !.attempts = 0] \in Job
    BY RowType
  <2> QED
    BY <1>5, <2>1, <2>2, <2>3, IdleType DEF Commit
<1>6. ASSUME NEW c \in Caller, Rollback(c) \/ EndTransaction(c) PROVE TypeOK'
  <2>1. [call[c] EXCEPT !.pc = "failing", !.wrote = FALSE] \in Call
    BY DEF Call
  <2>2. call[c].content \in Content
    BY <1>6 DEF Rollback, EndTransaction, HasContent
  <2> QED
    BY <1>6, <2>1, <2>2 DEF Rollback, EndTransaction
<1>7. ASSUME NEW c \in Caller, FailSummary(c) PROVE TypeOK'
  <2>1. job' \in Job
    <3>1. CASE UNCHANGED job
      BY <3>1
    <3>2. ASSUME NEW w \in 0 .. MaxReset,
                 job' = [job EXCEPT !.state = "failed", !.left = 0,
                                    !.wait = Later(Backoff[job.attempts], w)]
          PROVE  job' \in Job
      <4>1. job.attempts \in Nat /\ w \in Nat
        BY Numbers DEF Job
      <4>2. Later(Backoff[job.attempts], w) \in Nat
        BY <4>1, BackoffType, LaterType
      <4> QED
        BY <3>2, <4>2, Zenon, RowType
    <3> QED
      BY <1>7, <3>1, <3>2 DEF FailSummary
  <2>2. [call[c] EXCEPT !.pc = "ending"] \in Call
    BY DEF Call
  <2> QED
    BY <1>7, <2>1, <2>2, IdleType DEF FailSummary
<1>8. ASSUME NEW c \in Caller, Crash(c) PROVE TypeOK'
  BY <1>8, IdleType DEF Crash
<1>9. CASE GetSummaryJob
  BY <1>9 DEF GetSummaryJob, Job
<1>10. CASE UpdateContent
  BY <1>10 DEF UpdateContent, InvalidSummary
<1>11. CASE Tick
  <2>1. job' \in Job
    <3>1. Less(job.left) \in 0 .. LeaseLength /\ Less(job.wait) \in Nat
      BY Numbers DEF Less, Job
    <3>2. job' = [job EXCEPT !.left = Less(@), !.wait = Less(@)]
      BY <1>11 DEF Tick
    <3> QED
      BY <3>1, <3>2, Zenon, RowType
  <2>2. ASSUME NEW c \in Caller, call[c].pc = "working"
        PROVE  [call[c] EXCEPT !.spent = @ + 1] \in Call
    BY <1>11, <2>2, Numbers DEF Tick, WithinDeadline, Call
  <2> QED
    BY <1>11, <2>1, <2>2 DEF Tick
<1>12. CASE UNCHANGED vars
  BY <1>12 DEF vars
<1> QED
  BY <1>1, <1>2, <1>3, <1>4, <1>5, <1>6, <1>7, <1>8, <1>9, <1>10, <1>11, <1>12
     DEF Next, Proceed

-----------------------------------------------------------------------------
(* The inductive invariant *)

\* A call has not spent anything before it is made, ...
AgeInv == \A c \in Caller : call[c].pc = "read" => call[c].spent = 0

\* ... and while it is made, it is as old as the lease it was made under: what
\* is left of the lease is more than what is left of the call.
WorkInv ==
    \A c \in Caller : call[c].pc = "working" =>
        /\ job.state = "running" /\ job.holder = c
        /\ job.left = LeaseLength - call[c].spent

\* The article's row is locked by one transaction, ...
LockInv ==
    \A c, e \in Caller : ArticleLockedBy(c) /\ ArticleLockedBy(e) => c = e

\* ... for which it stays as it was when it was compared.
SavedInv ==
    \A c \in Caller : call[c].pc = "saved" =>
        /\ SameContent(c)
        /\ SamePrior(c)

\* A claim ends the wait.
WaitInv == job.state = "running" => job.wait = 0

Inv == /\ TypeOK /\ HasContent /\ AgeInv /\ WorkInv /\ SaverHolds
       /\ LockInv /\ SavedInv /\ WaitInv /\ SummaryFresh

LEMMA InitInv == Init => Inv
<1> SUFFICES ASSUME Init PROVE Inv
  OBVIOUS
<1>1. \A c \in Caller : call[c].pc = "idle" /\ ~call[c].wrote
  BY DEF Init, Idle
<1>2. job.state = "none" /\ summary = NoSummary
  BY DEF Init
<1> QED
  BY <1>1, <1>2, InitType DEF Inv, HasContent, AgeInv, WorkInv, SaverHolds, LockInv,
     SavedInv, WaitInv, SummaryFresh, ArticleLockedBy

\* What a caller's step may rely on: the other calls are not touched.
LEMMA OthersKept ==
    ASSUME TypeOK, NEW c \in Caller, NEW k, call' = [call EXCEPT ![c] = k]
    PROVE  call'[c] = k /\ \A e \in Caller \ {c} : call'[e] = call[e]
BY DEF TypeOK

\* While a provider is asked, the lease has not ended.
LEMMA LeaseOutlivesCall ==
    ASSUME Inv, NEW c \in Caller, call[c].pc = "working"
    PROVE  job.state = "running" /\ job.holder = c /\ job.left > 0 /\ ~Free
<1>1. call[c].spent \in 0 .. CallLimit
  BY DEF Inv, TypeOK, Call
<1>2. job.state = "running" /\ job.holder = c /\ job.left = LeaseLength - call[c].spent
  BY DEF Inv, WorkInv
<1> QED
  BY <1>1, <1>2, Numbers DEF Free

\* Steps of one caller after which it holds no lock that it did not hold, while
\* the rows stay as they are.
LEMMA ReleaseStep ==
    ASSUME Inv, NEW c \in Caller, NEW k \in Call, UNCHANGED <<content, summary, job>>,
           call' = [call EXCEPT ![c] = k],
           k.pc # "idle" => k.content \in Content,
           k.pc = "read" => k.spent = 0,
           k.pc \notin {"working", "locked", "saved"},
           k.wrote => call[c].wrote
    PROVE  Inv'
<1> USE DEF Inv
<1>1. call'[c] = k /\ \A e \in Caller \ {c} : call'[e] = call[e]
  BY OthersKept
<1>2. TypeOK'
  BY DEF TypeOK
<1>3. HasContent' /\ AgeInv'
  BY <1>1 DEF HasContent, AgeInv
<1>4. WorkInv' /\ SaverHolds'
  BY <1>1 DEF WorkInv, SaverHolds
<1>5. LockInv'
  BY <1>1 DEF LockInv, ArticleLockedBy
<1>6. SavedInv'
  BY <1>1 DEF SavedInv, SameContent, SamePrior
<1>7. WaitInv' /\ SummaryFresh'
  BY DEF WaitInv, SummaryFresh
<1> QED
  BY <1>2, <1>3, <1>4, <1>5, <1>6, <1>7

LEMMA ReadInv == ASSUME Inv, NEW c \in Caller, Read(c) PROVE Inv'
<1> DEFINE prior == IF c \in Browser THEN summary ELSE NoSummary
           k == [Idle EXCEPT !.pc = "read", !.content = content, !.prior = prior]
<1>1. k \in Call
  BY IdleType DEF Call, Inv, TypeOK
<1>2. k.pc = "read" /\ k.content = content /\ k.spent = 0 /\ ~k.wrote /\ content \in Content
  BY DEF Idle, Inv, TypeOK
<1>3. call' = [call EXCEPT ![c] = k] /\ UNCHANGED <<content, summary, job>>
  BY DEF Read
<1> HIDE DEF k
<1> QED
  BY <1>1, <1>2, <1>3, ReleaseStep

LEMMA CrashInv == ASSUME Inv, NEW c \in Caller, Crash(c) PROVE Inv'
<1>1. Idle.pc = "idle" /\ ~Idle.wrote
  BY DEF Idle
<1> QED
  BY <1>1, IdleType, ReleaseStep DEF Crash

LEMMA GotoInv ==
    ASSUME Inv, NEW c \in Caller, call[c].pc # "idle",
           NEW pc \in {"produced", "refused", "failing", "ending"},
           Goto(c, pc), UNCHANGED <<content, summary, job>>
    PROVE  Inv'
<1> DEFINE k == [call[c] EXCEPT !.pc = pc]
<1>1. k \in Call /\ k.pc = pc /\ k.content = call[c].content /\ k.wrote = call[c].wrote
  BY DEF Inv, TypeOK, Call
<1>2. call[c].content \in Content
  BY DEF Inv, HasContent
<1>3. call' = [call EXCEPT ![c] = k]
  BY DEF Goto
<1> HIDE DEF k
<1> QED
  BY <1>1, <1>2, <1>3, ReleaseStep

LEMMA RollbackInv == ASSUME Inv, NEW c \in Caller, Rollback(c) PROVE Inv'
<1> DEFINE k == [call[c] EXCEPT !.pc = "failing", !.wrote = FALSE]
<1>1. k \in Call /\ k.pc = "failing" /\ k.content = call[c].content /\ ~k.wrote
  BY DEF Inv, TypeOK, Call
<1>2. call[c].content \in Content
  BY DEF Inv, HasContent, Rollback
<1>3. call' = [call EXCEPT ![c] = k] /\ UNCHANGED <<content, summary, job>>
  BY DEF Rollback
<1> HIDE DEF k
<1> QED
  BY <1>1, <1>2, <1>3, ReleaseStep

\* Nobody else is asking a provider when a claim succeeds, and nobody is saving.
LEMMA ClaimInv == ASSUME Inv, NEW c \in Caller, ClaimSummary(c) PROVE Inv'
<1>1. CASE ~(Free /\ Due(c))
  <2>1. Idle.pc = "idle" /\ ~Idle.wrote
    BY DEF Idle
  <2> QED
    BY <1>1, <2>1, IdleType, ReleaseStep DEF ClaimSummary
<1>2. CASE Free /\ Due(c)
  <2> USE DEF Inv
  <2> DEFINE k == [call[c] EXCEPT !.pc = "working"]
  <2>1. /\ k.pc = "working" /\ k.content = call[c].content /\ k.wrote = call[c].wrote
        /\ k.spent = 0
    BY DEF TypeOK, Call, AgeInv, ClaimSummary
  <2>2. call' = [call EXCEPT ![c] = k] /\ UNCHANGED <<content, summary>>
    BY <1>2 DEF ClaimSummary, Goto
  <2>3. /\ job'.state = "running" /\ job'.holder = c /\ job'.left = LeaseLength
        /\ job'.wait = 0
    BY <1>2 DEF ClaimSummary
  <2>4. call[c].pc = "read" /\ ~JobLocked
    BY DEF ClaimSummary
  <2>5. TypeOK'
    <3>1. [Next]_vars
      BY DEF Next, Proceed
    <3> QED
      BY <3>1, StepType
  <2> HIDE DEF k
  <2>6. call'[c] = k /\ \A e \in Caller \ {c} : call'[e] = call[e]
    BY <2>2, OthersKept
  <2>7. HasContent' /\ AgeInv'
    BY <2>1, <2>4, <2>6 DEF HasContent, AgeInv
  <2>8. WorkInv'
    <3>1. \A e \in Caller : call[e].pc # "working"
      BY <1>2, LeaseOutlivesCall
    <3> QED
      BY <2>1, <2>3, <2>6, <3>1, Numbers DEF WorkInv
  <2>9. SaverHolds'
    BY <2>1, <2>4, <2>6 DEF SaverHolds, JobLocked
  <2>10. LockInv'
    BY <2>1, <2>4, <2>6 DEF LockInv, ArticleLockedBy
  <2>11. SavedInv'
    BY <2>1, <2>2, <2>6 DEF SavedInv, SameContent, SamePrior
  <2>12. WaitInv' /\ SummaryFresh'
    BY <2>2, <2>3 DEF WaitInv, SummaryFresh
  <2> QED
    BY <2>5, <2>7, <2>8, <2>9, <2>10, <2>11, <2>12
<1> QED
  BY <1>1, <1>2

\* The article's lock is taken by the first write.
LEMMA TranscriptInv ==
    ASSUME Inv, NEW c \in Caller, UpdateTranscriptContent(c) PROVE Inv'
<1> USE DEF Inv
<1>1. PICK v \in Content :
         call' = [call EXCEPT ![c] = [@ EXCEPT !.content = v, !.wrote = TRUE]]
  BY DEF UpdateTranscriptContent
<1> DEFINE k == [call[c] EXCEPT !.content = v, !.wrote = TRUE]
<1>2. /\ k \in Call /\ k.pc = call[c].pc /\ k.content = v /\ k.wrote
      /\ k.spent = call[c].spent
  BY DEF TypeOK, Call
<1>3. call' = [call EXCEPT ![c] = k]
  BY <1>1
<1> HIDE DEF k
<1>4. call'[c] = k /\ \A e \in Caller \ {c} : call'[e] = call[e]
  BY <1>3, OthersKept
<1>5. /\ call[c].pc = "working" /\ ArticleFree(c) /\ UNCHANGED <<content, summary, job>>
  BY DEF UpdateTranscriptContent
<1>6. TypeOK'
  BY <1>2, <1>3, <1>5 DEF TypeOK
<1>7. HasContent' /\ AgeInv'
  BY <1>2, <1>4, <1>5 DEF HasContent, AgeInv
<1>8. WorkInv' /\ SaverHolds'
  BY <1>2, <1>4, <1>5 DEF WorkInv, SaverHolds
<1>9. LockInv'
  BY <1>4, <1>5 DEF LockInv, ArticleFree, ArticleLockedBy
<1>10. SavedInv'
  BY <1>2, <1>4, <1>5 DEF SavedInv, SameContent, SamePrior
<1>11. WaitInv' /\ SummaryFresh'
  BY <1>5 DEF WaitInv, SummaryFresh
<1> QED
  BY <1>6, <1>7, <1>8, <1>9, <1>10, <1>11

LEMMA LockLeaseInv == ASSUME Inv, NEW c \in Caller, LockLease(c) PROVE Inv'
<1> USE DEF Inv
<1>1. CASE ~HoldsLease(c)
  BY <1>1, GotoInv DEF LockLease
<1>2. CASE HoldsLease(c)
  <2> DEFINE k == [call[c] EXCEPT !.pc = "locked"]
  <2>1. /\ k \in Call /\ k.pc = "locked" /\ k.content = call[c].content
        /\ k.wrote = call[c].wrote
    BY DEF TypeOK, Call
  <2>2. call' = [call EXCEPT ![c] = k] /\ UNCHANGED <<content, summary, job>>
    BY <1>2 DEF LockLease, Goto
  <2> HIDE DEF k
  <2>3. call'[c] = k /\ \A e \in Caller \ {c} : call'[e] = call[e]
    BY <2>2, OthersKept
  <2>4. TypeOK'
    BY <2>1, <2>2 DEF TypeOK
  <2>5. HasContent' /\ AgeInv' /\ WorkInv'
    BY <2>1, <2>2, <2>3 DEF HasContent, AgeInv, WorkInv, LockLease
  <2>6. SaverHolds'
    BY <1>2, <2>1, <2>2, <2>3 DEF SaverHolds, HoldsLease
  <2>7. LockInv' /\ SavedInv'
    BY <2>1, <2>2, <2>3
       DEF LockInv, SavedInv, ArticleLockedBy, SameContent, SamePrior
  <2>8. WaitInv' /\ SummaryFresh'
    BY <2>2 DEF WaitInv, SummaryFresh
  <2> QED
    BY <2>4, <2>5, <2>6, <2>7, <2>8
<1> QED
  BY <1>1, <1>2

LEMMA SaveInv == ASSUME Inv, NEW c \in Caller, Save(c) PROVE Inv'
<1> USE DEF Inv
<1>1. CASE Goto(c, "refused")
  BY <1>1, GotoInv DEF Save
<1>2. CASE SameContent(c) /\ SamePrior(c) /\ Goto(c, "saved")
  <2> DEFINE k == [call[c] EXCEPT !.pc = "saved"]
  <2>1. /\ k \in Call /\ k.pc = "saved" /\ k.content = call[c].content
        /\ k.wrote = call[c].wrote /\ k.prior = call[c].prior
    BY DEF TypeOK, Call
  <2>2. call' = [call EXCEPT ![c] = k] /\ UNCHANGED <<content, summary, job>>
    BY <1>2 DEF Save, Goto
  <2> HIDE DEF k
  <2>3. call'[c] = k /\ \A e \in Caller \ {c} : call'[e] = call[e]
    BY <2>2, OthersKept
  <2>4. call[c].pc = "locked" /\ ArticleFree(c)
    BY DEF Save
  <2>5. TypeOK'
    BY <2>1, <2>2 DEF TypeOK
  <2>6. HasContent' /\ AgeInv' /\ WorkInv' /\ SaverHolds'
    BY <2>1, <2>2, <2>3, <2>4 DEF HasContent, AgeInv, WorkInv, SaverHolds
  <2>7. LockInv'
    BY <2>3, <2>4 DEF LockInv, ArticleFree, ArticleLockedBy
  <2>8. SavedInv'
    BY <1>2, <2>1, <2>2, <2>3 DEF SavedInv, SameContent, SamePrior
  <2>9. WaitInv' /\ SummaryFresh'
    BY <2>2 DEF WaitInv, SummaryFresh
  <2> QED
    BY <2>5, <2>6, <2>7, <2>8, <2>9
<1> QED
  BY <1>1, <1>2 DEF Save

\* The saver owns both rows: what the others know of them is about other steps.
LEMMA CommitInv == ASSUME Inv, NEW c \in Caller, Commit(c) PROVE Inv'
<1> USE DEF Inv
<1>1. call[c].pc = "saved" /\ call[c].content \in Content
  BY DEF Commit, HasContent
<1>2. job.state = "running" /\ job.holder = c
  BY <1>1 DEF SaverHolds
<1>3. call'[c] = Idle /\ \A e \in Caller \ {c} : call'[e] = call[e]
  BY OthersKept DEF Commit
<1>4. Idle.pc = "idle" /\ ~Idle.wrote
  BY DEF Idle
<1>5. TypeOK'
  <2>1. [Next]_vars
    BY DEF Next, Proceed
  <2> QED
    BY <2>1, StepType
<1>6. HasContent' /\ AgeInv'
  BY <1>3, <1>4 DEF HasContent, AgeInv
<1>7. WorkInv'
  BY <1>2, <1>3, <1>4 DEF WorkInv
<1>8. SaverHolds'
  BY <1>2, <1>3, <1>4 DEF SaverHolds
<1>9. LockInv' /\ SavedInv'
  BY <1>1, <1>3, <1>4 DEF LockInv, SavedInv, ArticleLockedBy
<1>10. WaitInv'
  <2>1. job'.state = "done"
    BY DEF Commit, TypeOK, Job
  <2> QED
    BY <2>1 DEF WaitInv
<1>11. SummaryFresh'
  BY <1>1 DEF SummaryFresh, Commit, SavedInv, SameContent
<1> QED
  BY <1>5, <1>6, <1>7, <1>8, <1>9, <1>10, <1>11

\* What is committed here was written under the article's lock: nobody else has
\* compared it.
LEMMA EndTransactionInv == ASSUME Inv, NEW c \in Caller, EndTransaction(c) PROVE Inv'
<1> USE DEF Inv
<1> DEFINE k == [call[c] EXCEPT !.pc = "failing", !.wrote = FALSE]
<1>1. k \in Call /\ k.pc = "failing" /\ k.content = call[c].content /\ ~k.wrote
  BY DEF TypeOK, Call
<1>2. call[c].content \in Content
  BY DEF HasContent, EndTransaction
<1>3. call' = [call EXCEPT ![c] = k] /\ UNCHANGED job
  BY DEF EndTransaction
<1> HIDE DEF k
<1>4. call'[c] = k /\ \A e \in Caller \ {c} : call'[e] = call[e]
  BY <1>3, OthersKept
<1>5. CASE UNCHANGED <<content, summary>>
  BY <1>1, <1>2, <1>3, <1>5, ReleaseStep
<1>6. CASE call[c].wrote /\ content' = call[c].content /\ summary' = NoSummary
  <2>1. TypeOK'
    BY <1>1, <1>2, <1>3, <1>6 DEF TypeOK
  <2>2. HasContent' /\ AgeInv' /\ WorkInv' /\ SaverHolds'
    BY <1>1, <1>2, <1>3, <1>4 DEF HasContent, AgeInv, WorkInv, SaverHolds
  <2>3. LockInv'
    BY <1>1, <1>4 DEF LockInv, ArticleLockedBy
  <2>4. \A e \in Caller : call'[e].pc # "saved"
    BY <1>1, <1>4, <1>6 DEF LockInv, ArticleLockedBy
  <2>5. SavedInv'
    BY <2>4 DEF SavedInv
  <2>6. WaitInv' /\ SummaryFresh'
    BY <1>3, <1>6 DEF WaitInv, SummaryFresh
  <2> QED
    BY <2>1, <2>2, <2>3, <2>5, <2>6
<1> QED
  BY <1>5, <1>6 DEF EndTransaction

\* A failure is recorded by the holder, which is not saving any more.
LEMMA FailInv == ASSUME Inv, NEW c \in Caller, FailSummary(c) PROVE Inv'
<1> USE DEF Inv
<1> DEFINE k == IF call[c].wrote THEN [call[c] EXCEPT !.pc = "ending"] ELSE Idle
<1>1. /\ k \in Call /\ k.pc \in {"ending", "idle"}
      /\ k.pc # "idle" => k.content = call[c].content
      /\ k.wrote => call[c].wrote
  BY IdleType DEF TypeOK, Call, Idle
<1>2. call' = [call EXCEPT ![c] = k] /\ UNCHANGED <<content, summary>>
  BY DEF FailSummary
<1>3. call[c].pc = "failing" /\ call[c].content \in Content
  BY DEF FailSummary, HasContent
<1>4. TypeOK'
  <2>1. [Next]_vars
    BY DEF Next, Proceed
  <2> QED
    BY <2>1, StepType
<1> HIDE DEF k
<1>5. call'[c] = k /\ \A e \in Caller \ {c} : call'[e] = call[e]
  BY <1>2, OthersKept
<1>6. CASE UNCHANGED job
  BY <1>1, <1>2, <1>3, <1>6, ReleaseStep
<1>7. CASE MayFail(c) /\ job'.state = "failed"
  <2>1. HasContent' /\ AgeInv'
    BY <1>1, <1>3, <1>5 DEF HasContent, AgeInv
  <2>2. WorkInv' /\ SaverHolds'
    BY <1>1, <1>3, <1>5, <1>7 DEF WorkInv, SaverHolds, MayFail
  <2>3. LockInv' /\ SavedInv'
    BY <1>1, <1>2, <1>5 DEF LockInv, SavedInv, ArticleLockedBy, SameContent, SamePrior
  <2>4. WaitInv' /\ SummaryFresh'
    BY <1>2, <1>7 DEF WaitInv, SummaryFresh
  <2> QED
    BY <1>4, <2>1, <2>2, <2>3, <2>4
<1>8. (MayFail(c) /\ job'.state = "failed") \/ UNCHANGED job
  BY DEF FailSummary, TypeOK, Job
<1> QED
  BY <1>6, <1>7, <1>8

LEMMA GetJobInv == ASSUME Inv, GetSummaryJob PROVE Inv'
<1> USE DEF Inv
<1>1. TypeOK'
  BY StepType DEF Next
<1>2. \A c \in Caller : call[c].pc \notin {"working", "locked", "saved"}
  BY LeaseOutlivesCall DEF GetSummaryJob, Interrupted, JobLocked
<1>3. HasContent' /\ AgeInv' /\ LockInv' /\ SummaryFresh'
  BY DEF GetSummaryJob, HasContent, AgeInv, LockInv, ArticleLockedBy, SummaryFresh
<1>4. WorkInv' /\ SaverHolds' /\ SavedInv'
  BY <1>2 DEF WorkInv, SaverHolds, SavedInv, GetSummaryJob
<1>5. WaitInv'
  BY DEF WaitInv, GetSummaryJob, TypeOK, Job
<1> QED
  BY <1>1, <1>3, <1>4, <1>5

LEMMA ContentInv == ASSUME Inv, UpdateContent PROVE Inv'
<1> USE DEF Inv
<1>1. TypeOK'
  BY StepType DEF Next
<1>2. UNCHANGED <<job, call>> /\ summary' = NoSummary
  BY DEF UpdateContent, InvalidSummary
<1>3. \A c \in Caller : call[c].pc # "saved"
  BY DEF UpdateContent, ArticleLockedBy
<1>4. HasContent' /\ AgeInv' /\ WorkInv' /\ SaverHolds' /\ LockInv' /\ WaitInv'
  BY <1>2 DEF HasContent, AgeInv, WorkInv, SaverHolds, LockInv, ArticleLockedBy, WaitInv
<1>5. SavedInv' /\ SummaryFresh'
  BY <1>2, <1>3 DEF SavedInv, SummaryFresh
<1> QED
  BY <1>1, <1>4, <1>5

\* A call and its lease age together.
LEMMA TickInv == ASSUME Inv, Tick PROVE Inv'
<1> USE DEF Inv
<1>1. TypeOK'
  BY StepType DEF Next
<1>2. UNCHANGED <<content, summary>>
  BY DEF Tick
<1>3. ASSUME NEW c \in Caller
      PROVE  /\ call'[c].pc = call[c].pc /\ call'[c].content = call[c].content
             /\ call'[c].wrote = call[c].wrote /\ call'[c].prior = call[c].prior
             /\ call[c].pc = "working" => call'[c].spent = call[c].spent + 1
             /\ call[c].pc # "working" => call'[c] = call[c]
  BY DEF Tick, TypeOK, Call
<1>4. /\ job'.state = job.state /\ job'.holder = job.holder
      /\ job'.left = Less(job.left) /\ job'.wait = Less(job.wait)
  BY DEF Tick, TypeOK, Job
<1>5. HasContent' /\ AgeInv' /\ SaverHolds'
  BY <1>3, <1>4 DEF HasContent, AgeInv, SaverHolds
<1>6. WorkInv'
  <2> SUFFICES ASSUME NEW c \in Caller, call'[c].pc = "working"
               PROVE  /\ job'.state = "running" /\ job'.holder = c
                      /\ job'.left = LeaseLength - call'[c].spent
    BY DEF WorkInv
  <2>1. call[c].pc = "working"
    BY <1>3
  <2>2. job.left > 0 /\ job.left = LeaseLength - call[c].spent
    BY <2>1, LeaseOutlivesCall DEF WorkInv
  <2>3. call[c].spent \in Nat /\ call'[c].spent = call[c].spent + 1
    BY <1>3, <2>1 DEF TypeOK, Call
  <2>4. job'.left = job.left - 1
    BY <1>4, <2>2 DEF Less
  <2> QED
    BY <1>4, <2>1, <2>2, <2>3, <2>4, Numbers DEF WorkInv
<1>7. LockInv' /\ SavedInv'
  BY <1>2, <1>3 DEF LockInv, SavedInv, ArticleLockedBy, SameContent, SamePrior
<1>8. WaitInv' /\ SummaryFresh'
  BY <1>2, <1>4 DEF WaitInv, Less, SummaryFresh
<1> QED
  BY <1>1, <1>5, <1>6, <1>7, <1>8

LEMMA StepInv == Inv /\ [Next]_vars => Inv'
<1> SUFFICES ASSUME Inv, [Next]_vars PROVE Inv'
  OBVIOUS
<1>1. ASSUME NEW c \in Caller, GiveUp(c) \/ Produce(c) PROVE Inv'
  BY <1>1, GotoInv DEF GiveUp, Produce
<1>2. ASSUME NEW c \in Caller, Proceed(c) PROVE Inv'
  BY <1>1, <1>2, ClaimInv, LockLeaseInv, SaveInv, CommitInv, EndTransactionInv, FailInv
     DEF Proceed
<1>3. CASE UNCHANGED vars
  BY <1>3 DEF vars, Inv, TypeOK, HasContent, AgeInv, WorkInv, SaverHolds, LockInv,
     SavedInv, ArticleLockedBy, SameContent, SamePrior, WaitInv, SummaryFresh
<1> QED
  BY <1>1, <1>2, <1>3, ReadInv, TranscriptInv, RollbackInv, CrashInv, GetJobInv,
     ContentInv, TickInv DEF Next

-----------------------------------------------------------------------------
(* Theorems *)

\* The inductive invariant holds, whoever claims, fetches, dies or is late.
THEOREM Invariance == Spec => []Inv
<1>1. Init => Inv
  BY InitInv
<1>2. Inv /\ [Next]_vars => Inv'
  BY StepInv
<1> QED
  BY <1>1, <1>2, PTL DEF Spec

\* Rows and calls stay what the tables and the handlers can hold.
THEOREM TypeCorrect == Spec => []TypeOK
<1>1. Inv => TypeOK
  BY DEF Inv
<1> QED
  BY <1>1, Invariance, PTL

\* The summary shown is one of the content shown, the site pays for one call at
\* a time, and whoever is saving owns the job.
THEOREM SummaryKeptAlways == Spec => []SummaryKept
<1>1. Inv => SummaryKept
  BY DEF Inv, SummaryKept, OneAtATime, WorkInv
<1> QED
  BY <1>1, Invariance, PTL

\* Only claims start an attempt, and they end the wait.
LEMMA BackoffStep == Inv /\ [Next]_vars => BackoffKeptStep
<1> SUFFICES ASSUME Inv, [Next]_vars, job.wait > 0, job'.state = "running"
             PROVE  job'.holder \notin Worker
  BY DEF BackoffKeptStep
<1>1. job.state # "running"
  BY DEF Inv, WaitInv, TypeOK, Job
<1>2. PICK c \in Caller : ClaimSummary(c) /\ Free /\ Due(c)
  <2>1. UNCHANGED job => FALSE
    BY <1>1
  <2>2. ASSUME NEW c \in Caller, Commit(c) \/ FailSummary(c) PROVE FALSE
    BY <1>1, <2>2 DEF Commit, FailSummary, Inv, TypeOK, Job
  <2>3. ASSUME GetSummaryJob \/ Tick PROVE FALSE
    BY <1>1, <2>3 DEF GetSummaryJob, Tick, Inv, TypeOK, Job
  <2> QED
    BY <2>1, <2>2, <2>3
       DEF Next, Proceed, vars, Read, ClaimSummary, UpdateTranscriptContent, Produce,
           GiveUp, LockLease, Save, Rollback, EndTransaction, Crash, UpdateContent
<1>3. job'.holder = c
  BY <1>2 DEF ClaimSummary
<1> QED
  BY <1>2, <1>3 DEF Due

\* A lease that has not expired ends with a step of its holder.
LEMMA FencedLease == Inv /\ [Next]_vars => FencedStep
<1> SUFFICES ASSUME Inv, [Next]_vars, job.state = "running", job.left > 0,
                    job'.state # "running"
             PROVE  \E c \in Caller : /\ job.holder = c
                                      /\ call[c].pc \in {"saved", "failing"}
                                      /\ call'[c] # call[c]
  BY DEF FencedStep
<1>1. PICK c \in Caller : Commit(c) \/ (FailSummary(c) /\ MayFail(c))
  <2>1. UNCHANGED job => FALSE
    OBVIOUS
  <2>2. ~GetSummaryJob /\ ~Tick
    <3>1. job \in Job
      BY DEF Inv, TypeOK
    <3>2. Tick => job'.state = job.state
      BY <3>1 DEF Tick, Job
    <3> QED
      BY <3>2 DEF GetSummaryJob, Interrupted
  <2>3. ASSUME NEW c \in Caller, ClaimSummary(c) PROVE FALSE
    BY <2>3 DEF ClaimSummary
  <2>4. \A c \in Caller : FailSummary(c) => MayFail(c)
    BY <2>1 DEF FailSummary
  <2> QED
    BY <2>1, <2>2, <2>3, <2>4
       DEF Next, Proceed, vars, Read, UpdateTranscriptContent, Produce,
           GiveUp, LockLease, Save, Rollback, EndTransaction, Crash, UpdateContent
<1>2. CASE Commit(c)
  <2>1. job.holder = c /\ call[c].pc = "saved"
    BY <1>2 DEF Commit, Inv, SaverHolds
  <2>2. call'[c] = Idle
    BY <1>2, OthersKept DEF Commit, Inv
  <2> QED
    BY <2>1, <2>2 DEF Idle
<1>3. CASE FailSummary(c) /\ MayFail(c)
  <2> DEFINE k == IF call[c].wrote THEN [call[c] EXCEPT !.pc = "ending"] ELSE Idle
  <2>1. job.holder = c /\ call[c].pc = "failing"
    BY <1>3 DEF FailSummary, MayFail
  <2>2. k.pc # "failing"
    BY DEF Idle, Inv, TypeOK, Call
  <2>3. call' = [call EXCEPT ![c] = k]
    BY <1>3 DEF FailSummary
  <2> HIDE DEF k
  <2>4. call'[c] = k
    BY <2>3, OthersKept DEF Inv
  <2> QED
    BY <2>1, <2>2, <2>4
<1> QED
  BY <1>1, <1>2, <1>3

\* A lease passes on only at its end, its expiry or its time: no superseded
\* caller ends its successor's, and no backoff is cut short by the worker.
THEOREM LeaseKeptAlways == Spec => LeaseKept
<1>1. Inv /\ [Next]_vars => [FencedStep /\ BackoffKeptStep]_vars
  BY BackoffStep, FencedLease
<1> QED
  BY <1>1, Invariance, PTL DEF Spec, LeaseKept

\* Between a browser's comparison and its commit no other summary slips in.
THEOREM NoLostSummaryAlways == Spec => NoLostSummary
<1>1. Inv => NoLostSummaryStep
  BY DEF Inv, SavedInv, SamePrior, NoLostSummaryStep, Caller
<1>2. Inv /\ [Next]_vars => [NoLostSummaryStep]_vars
  BY <1>1
<1> QED
  BY <1>2, Invariance, PTL DEF Spec, NoLostSummary

-----------------------------------------------------------------------------
(* Analyses: who has counted holds the reader's lock, and what was counted can*)
(* only have become less since.                                             *)

CONSTANTS Request, Nobody, Daily, Monthly, Day, Month, Timeout, Recover,
          MaxRows, MaxCrashes
VARIABLES row, req, lock, due, crashes

AN == INSTANCE Analyses

Attempt == [at : {"idle", "asked", "locked", "counted"}, failing : SUBSET Nat, allowed : BOOLEAN]

Attempted(S, w) == {i \in DOMAIN S : S[i].by = "manual" /\ S[i].age < w}

AnalysesInv ==
    /\ row \in Seq(AN!Row) /\ DOMAIN job \subseteq DOMAIN row
    /\ req \in [Request -> Attempt] /\ lock \in Request \cup {Nobody}
    /\ \A r \in Request :
         /\ req[r].at \in {"locked", "counted"} <=> lock = r
         /\ req[r].at = "counted" =>
              req[r].failing \subseteq AN!Pending /\ (req[r].allowed => AN!Allowed)
    /\ \A i, k \in AN!Pending : i = k
    /\ AN!CountManualSince(Day) <= Daily /\ AN!CountManualSince(Month) <= Monthly

LEMMA AttemptsFinite ==
    ASSUME NEW S \in Seq(AN!Row), NEW w
    PROVE  IsFiniteSet(Attempted(S, w)) /\ Cardinality(Attempted(S, w)) \in Nat
<1>1. IsFiniteSet(DOMAIN S)
  <2>1. DOMAIN S = 1 .. Len(S) /\ Len(S) \in Nat
    OBVIOUS
  <2> QED
    BY <2>1, FS_Interval
<1>2. Attempted(S, w) \subseteq DOMAIN S
  BY DEF Attempted
<1> QED
  BY <1>1, <1>2, FS_Subset, FS_CardinalityType

\* The Cardinality an instance brings along is the library's.
LEMMA SameCount == ASSUME NEW S PROVE AN!Cardinality(S) = Cardinality(S)
BY DEF AN!Cardinality, Cardinality, AN!IsFiniteSet, IsFiniteSet

LEMMA Windows ==
    /\ AN!CountManualSince(Day) = Cardinality(Attempted(row, Day))
    /\ AN!CountManualSince(Month) = Cardinality(Attempted(row, Month))
    /\ AN!CountManualSince(Day)' = Cardinality(Attempted(row', Day))
    /\ AN!CountManualSince(Month)' = Cardinality(Attempted(row', Month))
<1>1. AN!CountManualSince(Day) = Cardinality(Attempted(row, Day))
  BY SameCount DEF AN!CountManualSince, Attempted
<1>2. AN!CountManualSince(Month) = Cardinality(Attempted(row, Month))
  BY SameCount DEF AN!CountManualSince, Attempted
<1>3. AN!CountManualSince(Day)' = Cardinality(Attempted(row', Day))
  BY SameCount DEF AN!CountManualSince, Attempted
<1>4. AN!CountManualSince(Month)' = Cardinality(Attempted(row', Month))
  BY SameCount DEF AN!CountManualSince, Attempted
<1> QED
  BY <1>1, <1>2, <1>3, <1>4

\* Settling rows, growing older and the daily job add no attempt.
LEMMA NoMoreAttempts ==
    ASSUME AN!AnalysesAssumption, NEW S \in Seq(AN!Row), NEW T \in Seq(AN!Row), Len(T) >= Len(S),
           \A i \in DOMAIN S : T[i].by = S[i].by /\ T[i].age >= S[i].age,
           \A i \in DOMAIN T : i > Len(S) => T[i].by = "auto",
           NEW w \in Nat
    PROVE  Cardinality(Attempted(T, w)) <= Cardinality(Attempted(S, w))
<1>1. ASSUME NEW i \in Attempted(T, w) PROVE i \in Attempted(S, w)
  <2>1. i \in DOMAIN T /\ T[i].by = "manual" /\ T[i].age < w
    BY <1>1 DEF Attempted
  <2>2. i \in DOMAIN S
    BY <2>1
  <2>3. S[i] \in AN!Row /\ T[i] \in AN!Row
    BY <2>1, <2>2
  <2>4. S[i].age \in 0 .. Month /\ T[i].age \in 0 .. Month /\ T[i].age >= S[i].age
    BY <2>2, <2>3 DEF AN!Row
  <2>5. Month \in Nat
    BY DEF AN!AnalysesAssumption
  <2>6. S[i].age < w
    BY <2>1, <2>4, <2>5
  <2> QED
    BY <2>1, <2>2, <2>6 DEF Attempted
<1> QED
  BY <1>1, AttemptsFinite, FS_Subset

\* One request adds one.
LEMMA OneMoreAttempt ==
    ASSUME AN!AnalysesAssumption, NEW S \in Seq(AN!Row), NEW T \in Seq(AN!Row), Len(T) = Len(S) + 1,
           \A i \in DOMAIN S : T[i].by = S[i].by /\ T[i].age = S[i].age, NEW w \in Nat
    PROVE  Cardinality(Attempted(T, w)) <= Cardinality(Attempted(S, w)) + 1
<1>1. Attempted(T, w) \subseteq Attempted(S, w) \cup {Len(T)}
  BY DEF Attempted
<1>2. /\ IsFiniteSet(Attempted(S, w) \cup {Len(T)})
      /\ Cardinality(Attempted(S, w) \cup {Len(T)}) <= Cardinality(Attempted(S, w)) + 1
      /\ Cardinality(Attempted(S, w)) \in Nat /\ Cardinality(Attempted(T, w)) \in Nat
      /\ Cardinality(Attempted(S, w) \cup {Len(T)}) \in Nat
  BY AttemptsFinite, FS_AddElement, FS_CardinalityType
<1>3. Cardinality(Attempted(T, w)) <= Cardinality(Attempted(S, w) \cup {Len(T)})
  BY <1>1, <1>2, FS_Subset
<1> QED
  BY <1>2, <1>3

LEMMA AnalysesInit == ASSUME AN!AnalysesAssumption PROVE AN!Init => AnalysesInv
<1> SUFFICES ASSUME AN!Init PROVE AnalysesInv
  OBVIOUS
<1>1. row = << >> /\ job = << >> /\ lock = Nobody /\ req = [r \in Request |-> AN!Idle]
  BY DEF AN!Init
<1>2. AN!Pending = {} /\ Attempted(row, Day) = {} /\ Attempted(row, Month) = {}
  BY <1>1 DEF AN!Pending, Attempted
<1>3. AN!CountManualSince(Day) = 0 /\ AN!CountManualSince(Month) = 0
  BY <1>2, Windows, FS_EmptySet
<1>4. AN!Idle \in Attempt /\ AN!Idle.at = "idle"
  BY DEF AN!Idle, Attempt
<1> QED
  BY <1>1, <1>2, <1>3, <1>4 DEF AnalysesInv, AN!AnalysesAssumption

\* A request goes on, and the rows are as they were.
LEMMA Asks ==
    ASSUME AN!AnalysesAssumption, AnalysesInv, NEW r \in Request, NEW q \in Attempt,
           req' = [req EXCEPT ![r] = q], row' = row, job' = job,
           lock' \in Request \cup {Nobody}, q.at \in {"locked", "counted"} <=> lock' = r,
           lock' = lock \/ (lock = Nobody /\ lock' = r) \/ (lock = r /\ lock' = Nobody),
           q.at = "counted" => q.failing \subseteq AN!Pending /\ (q.allowed => AN!Allowed)
    PROVE  AnalysesInv'
<1>1. /\ AN!Pending' = AN!Pending /\ AN!Allowed' = AN!Allowed
      /\ AN!CountManualSince(Day)' = AN!CountManualSince(Day)
      /\ AN!CountManualSince(Month)' = AN!CountManualSince(Month)
  BY DEF AN!Pending, AN!Allowed, AN!CountManualSince
<1>2. /\ req' \in [Request -> Attempt] /\ req'[r] = q
      /\ \A e \in Request : e # r => req'[e] = req[e]
  BY DEF AnalysesInv
<1>3. ASSUME NEW e \in Request
      PROVE  /\ req'[e].at \in {"locked", "counted"} <=> lock' = e
             /\ req'[e].at = "counted" =>
                  req'[e].failing \subseteq AN!Pending /\ (req'[e].allowed => AN!Allowed)
  BY <1>2 DEF AnalysesInv, AN!AnalysesAssumption
<1> QED
  BY <1>1, <1>2, <1>3 DEF AnalysesInv

\* Nothing but rows changes, and no attempt joins.
LEMMA Writes ==
    ASSUME AN!AnalysesAssumption, AnalysesInv, UNCHANGED <<req, lock>>,
           row' \in Seq(AN!Row), DOMAIN job' \subseteq DOMAIN row', Len(row') >= Len(row),
           \A i \in DOMAIN row : row'[i].by = row[i].by /\ row'[i].age >= row[i].age,
           \A i \in DOMAIN row' : i > Len(row) => row'[i].by = "auto",
           \A i, k \in AN!Pending' : i = k,
           \A r \in Request : req[r].at = "counted" => req[r].failing \subseteq AN!Pending'
    PROVE  AnalysesInv'
<1>0. {Day, Month, Daily, Monthly} \subseteq Nat /\ row \in Seq(AN!Row)
  BY DEF AN!AnalysesAssumption, AnalysesInv
<1>1. /\ Cardinality(Attempted(row', Day)) <= Cardinality(Attempted(row, Day))
      /\ Cardinality(Attempted(row', Month)) <= Cardinality(Attempted(row, Month))
  BY <1>0, NoMoreAttempts
<1>2. /\ Cardinality(Attempted(row, Day)) \in Nat /\ Cardinality(Attempted(row', Day)) \in Nat
      /\ Cardinality(Attempted(row, Month)) \in Nat /\ Cardinality(Attempted(row', Month)) \in Nat
  BY <1>0, AttemptsFinite
<1>3. AN!Allowed => AN!Allowed'
  BY <1>0, <1>1, <1>2, Windows DEF AN!Allowed
<1>4. AN!CountManualSince(Day)' <= Daily /\ AN!CountManualSince(Month)' <= Monthly
  BY <1>0, <1>1, <1>2, Windows DEF AnalysesInv
<1> QED
  BY <1>3, <1>4 DEF AnalysesInv

LEMMA GenerateStep ==
    ASSUME AN!AnalysesAssumption, AnalysesInv, NEW r \in Request, AN!Generate(r) PROVE AnalysesInv'
<1>1. req[r] \in Attempt /\ req[r].at = "idle" /\ lock # r
  BY DEF AN!Generate, AnalysesInv
<1>2. [AN!Idle EXCEPT !.at = "asked"] \in Attempt /\ [AN!Idle EXCEPT !.at = "asked"].at = "asked"
  BY DEF AN!Idle, Attempt
<1> QED
  BY <1>1, <1>2, Asks DEF AN!Generate, AN!Set, AnalysesInv

LEMMA TakeLockStep ==
    ASSUME AN!AnalysesAssumption, AnalysesInv, NEW r \in Request, AN!TakeLock(r) PROVE AnalysesInv'
<1>1. req[r] \in Attempt /\ req[r].at = "asked" /\ lock = Nobody
  BY DEF AN!TakeLock, AnalysesInv
<1>2. [req[r] EXCEPT !.at = "locked"] \in Attempt /\ [req[r] EXCEPT !.at = "locked"].at = "locked"
  BY <1>1 DEF Attempt
<1> QED
  BY <1>1, <1>2, Asks DEF AN!TakeLock, AN!Set, AnalysesInv

LEMMA CountStep ==
    ASSUME AN!AnalysesAssumption, AnalysesInv, NEW r \in Request, AN!Count(r) PROVE AnalysesInv'
<1> DEFINE old == {i \in AN!Pending : row[i].age > Recover}
           q == [at |-> "counted", failing |-> old, allowed |-> AN!Allowed /\ AN!Pending \subseteq old]
<1>1. req[r].at = "locked" /\ lock = r /\ DOMAIN row \subseteq Nat
  BY DEF AN!Count, AnalysesInv
<1>2. old \in SUBSET Nat
  BY <1>1 DEF AN!Pending
<1>3. q \in Attempt /\ q.at = "counted" /\ q.failing = old /\ (q.allowed => AN!Allowed)
  BY <1>2 DEF Attempt
<1>4. req' = [req EXCEPT ![r] = q] /\ row' = row /\ job' = job /\ lock' = lock
  BY DEF AN!Count, AN!Set
<1> QED
  BY <1>1, <1>3, <1>4, Asks DEF AnalysesInv

\* A new row is the only pending one, and a request's is counted.
LEMMA ReserveStep ==
    ASSUME AN!AnalysesAssumption, AnalysesInv, NEW r \in Request, AN!ReserveManual(r) PROVE AnalysesInv'
<1> DEFINE q == req[r]
           reserved == q.allowed /\ AN!Pending \subseteq q.failing
           new == [by |-> "manual", status |-> "pending", age |-> 0]
<1>1. /\ q.at = "counted" /\ lock = r /\ q.failing \subseteq AN!Pending /\ (q.allowed => AN!Allowed)
      /\ lock' = Nobody /\ Nobody # r /\ req' = [req EXCEPT ![r] = AN!Idle]
  BY DEF AN!ReserveManual, AN!Set, AnalysesInv, AN!AnalysesAssumption
<1>2. AN!Idle \in Attempt /\ AN!Idle.at = "idle"
  BY DEF AN!Idle, Attempt
<1>3. CASE ~reserved
  <2>1. row' = row /\ job' = job
    BY <1>3 DEF AN!ReserveManual
  <2> QED
    BY <1>1, <1>2, <2>1, Asks DEF AnalysesInv
<1>4. CASE reserved
  <2>1. /\ row' = Append(AN!Failing(q.failing), new) /\ job' = AN!With(Len(row) + 1)
    BY <1>4 DEF AN!ReserveManual
  <2>2. row \in Seq(AN!Row) /\ DOMAIN job \subseteq DOMAIN row /\ req \in [Request -> Attempt]
    BY DEF AnalysesInv
  <2>3. new \in AN!Row
    BY DEF AN!Row, AN!AnalysesAssumption
  <2>4. \A i \in DOMAIN row : /\ AN!Failing(q.failing)[i] \in AN!Row
                              /\ AN!Failing(q.failing)[i].by = row[i].by
                              /\ AN!Failing(q.failing)[i].age = row[i].age
                              /\ AN!Failing(q.failing)[i].status # "pending"
    <3> SUFFICES ASSUME NEW i \in DOMAIN row
                 PROVE  /\ AN!Failing(q.failing)[i] \in AN!Row
                        /\ AN!Failing(q.failing)[i].by = row[i].by
                        /\ AN!Failing(q.failing)[i].age = row[i].age
                        /\ AN!Failing(q.failing)[i].status # "pending"
      OBVIOUS
    <3>1. row[i] \in AN!Row
      BY <2>2
    <3>2. CASE i \in q.failing
      <4>1. AN!Failing(q.failing)[i] = [row[i] EXCEPT !.status = "failed"]
        BY <3>2 DEF AN!Failing
      <4> QED
        BY <3>1, <4>1 DEF AN!Row
    <3>3. CASE i \notin q.failing
      <4>1. AN!Failing(q.failing)[i] = row[i]
        BY <3>3 DEF AN!Failing
      <4>2. row[i].status # "pending"
        BY <1>4, <3>3 DEF AN!Pending
      <4> QED
        BY <3>1, <4>1, <4>2
    <3> QED
      BY <3>2, <3>3
  <2>5. DOMAIN row = 1 .. Len(row) /\ Len(row) \in Nat
    BY <2>2
  <2>6. AN!Failing(q.failing) \in Seq(AN!Row) /\ Len(AN!Failing(q.failing)) = Len(row)
    BY <2>4, <2>5 DEF AN!Failing
  <2>7. /\ row' \in Seq(AN!Row) /\ Len(row') = Len(row) + 1 /\ row'[Len(row) + 1] = new
        /\ \A i \in DOMAIN row : row'[i] = AN!Failing(q.failing)[i]
    BY <2>1, <2>3, <2>5, <2>6
  <2>8. DOMAIN job' \subseteq DOMAIN row'
    BY <2>1, <2>2, <2>7 DEF AN!With
  <2>9. \A i \in AN!Pending' : i = Len(row) + 1
    BY <2>4, <2>5, <2>7 DEF AN!Pending
  <2>10. AN!CountManualSince(Day)' <= Daily /\ AN!CountManualSince(Month)' <= Monthly
    <3>1. {Day, Month, Daily, Monthly} \subseteq Nat
      BY DEF AN!AnalysesAssumption
    <3>2. /\ Cardinality(Attempted(row', Day)) <= Cardinality(Attempted(row, Day)) + 1
          /\ Cardinality(Attempted(row', Month)) <= Cardinality(Attempted(row, Month)) + 1
      BY <2>2, <2>4, <2>7, <3>1, OneMoreAttempt
    <3>3. /\ Cardinality(Attempted(row, Day)) \in Nat /\ Cardinality(Attempted(row', Day)) \in Nat
          /\ Cardinality(Attempted(row, Month)) \in Nat /\ Cardinality(Attempted(row', Month)) \in Nat
      BY <2>2, <2>7, AttemptsFinite
    <3>4. AN!CountManualSince(Day) < Daily /\ AN!CountManualSince(Month) < Monthly
      BY <1>1, <1>4 DEF AN!Allowed
    <3> QED
      BY <3>1, <3>2, <3>3, <3>4, Windows
  <2>11. /\ req' \in [Request -> Attempt] /\ req'[r] = AN!Idle
         /\ \A e \in Request : e # r => req'[e] = req[e] /\ req[e].at \notin {"locked", "counted"}
    BY <1>1, <1>2, <2>2 DEF AnalysesInv
  <2>12. \A e \in Request : req'[e].at \notin {"locked", "counted"} /\ lock' # e
    BY <1>1, <1>2, <2>11 DEF AN!AnalysesAssumption
  <2> QED
    BY <1>1, <2>7, <2>8, <2>9, <2>10, <2>11, <2>12 DEF AnalysesInv
<1> QED
  BY <1>3, <1>4

LEMMA Rows ==
    ASSUME AN!AnalysesAssumption, AnalysesInv
    PROVE  /\ row \in Seq(AN!Row) /\ DOMAIN row = 1 .. Len(row) /\ Len(row) \in Nat
           /\ DOMAIN job \subseteq DOMAIN row
           /\ \A k \in DOMAIN row : /\ row[k] \in AN!Row /\ row[k].age \in 0 .. Month
                                    /\ row[k].age \in Int /\ row[k].age >= row[k].age
<1>1. row \in Seq(AN!Row) /\ DOMAIN job \subseteq DOMAIN row /\ Month \in Nat
  BY DEF AnalysesInv, AN!AnalysesAssumption
<1>2. DOMAIN row = 1 .. Len(row) /\ Len(row) \in Nat
  BY <1>1
<1>3. ASSUME NEW k \in DOMAIN row
      PROVE  /\ row[k] \in AN!Row /\ row[k].age \in 0 .. Month
             /\ row[k].age \in Int /\ row[k].age >= row[k].age
  <2>1. row[k] \in AN!Row
    BY <1>1
  <2>2. row[k].age \in 0 .. Month
    BY <2>1 DEF AN!Row
  <2> QED
    BY <1>1, <2>1, <2>2
<1> QED
  BY <1>1, <1>2, <1>3

LEMMA SettledStep ==
    ASSUME AN!AnalysesAssumption, AnalysesInv, NEW i \in DOMAIN job, NEW s \in {"done", "failed"},
           AN!Settled(i, s)
    PROVE  AnalysesInv'
<1>1. /\ row \in Seq(AN!Row) /\ i \in DOMAIN row /\ DOMAIN job \subseteq DOMAIN row
      /\ DOMAIN job' \subseteq DOMAIN job /\ i \notin AN!Held
      /\ DOMAIN row = 1 .. Len(row) /\ Len(row) \in Nat
  BY Rows DEF AN!Settled, AN!Without
<1>2. /\ row' \in Seq(AN!Row) /\ Len(row') = Len(row)
      /\ DOMAIN row' = DOMAIN row
      /\ \A k \in DOMAIN row : /\ row'[k].by = row[k].by /\ row'[k].age = row[k].age
                               /\ k # i => row'[k] = row[k]
  <2>1. CASE row' = row
    BY <1>1, <2>1
  <2>2. CASE row' = [row EXCEPT ![i].status = s]
    <3>1. row[i] \in AN!Row /\ [row[i] EXCEPT !.status = s] \in AN!Row
      BY <1>1, Rows DEF AN!Row
    <3>2. /\ [row[i] EXCEPT !.status = s].by = row[i].by
          /\ [row[i] EXCEPT !.status = s].age = row[i].age
      BY <3>1 DEF AN!Row
    <3> QED
      BY <1>1, <2>2, <3>1, <3>2
  <2> QED
    BY <2>1, <2>2 DEF AN!Settled
<1>3. AN!Pending' \subseteq AN!Pending
  <2>1. row[i].status # "pending" => row'[i] = row[i]
    BY DEF AN!Settled
  <2> QED
    BY <1>1, <1>2, <2>1 DEF AN!Pending
<1>4. AN!Pending \ {i} \subseteq AN!Pending'
  BY <1>1, <1>2 DEF AN!Pending
<1>5. \A r \in Request : req[r].at = "counted" => req[r].failing \subseteq AN!Pending'
  BY <1>1, <1>4 DEF AnalysesInv, AN!Held
<1>7. \A k \in DOMAIN row : row'[k].by = row[k].by /\ row'[k].age >= row[k].age
  BY <1>2, Rows
<1>8. \A k, m \in AN!Pending' : k = m
  BY <1>3 DEF AnalysesInv
<1>9. /\ DOMAIN job' \subseteq DOMAIN row' /\ Len(row') >= Len(row)
      /\ \A k \in DOMAIN row' : k > Len(row) => row'[k].by = "auto"
  BY <1>1, <1>2
<1>10. UNCHANGED <<req, lock>>
  BY DEF AN!Settled
<1> QED
  BY <1>2, <1>5, <1>7, <1>8, <1>9, <1>10, Writes

LEMMA DailyStep ==
    ASSUME AN!AnalysesAssumption, AnalysesInv, AN!generateDailyInterests PROVE AnalysesInv'
<1>1. /\ row \in Seq(AN!Row) /\ DOMAIN job \subseteq DOMAIN row
      /\ DOMAIN row = 1 .. Len(row) /\ Len(row) \in Nat
  BY Rows
<1>6. \A k \in DOMAIN row : row[k].age \in 0 .. Month /\ row[k].age >= row[k].age
  BY Rows
<1>2. CASE row' = row /\ job' = job
  <2>1. AN!Pending' = AN!Pending
    BY <1>2 DEF AN!Pending
  <2> QED
    BY <1>1, <1>2, <1>6, <2>1, Writes DEF AN!generateDailyInterests, AnalysesInv
<1> DEFINE new == [by |-> "auto", status |-> "pending", age |-> 0]
<1>3. CASE AN!Pending = {} /\ row' = Append(row, new) /\ job' = AN!With(Len(row) + 1)
  <2>1. new \in AN!Row
    BY DEF AN!Row, AN!AnalysesAssumption
  <2>2. /\ row' \in Seq(AN!Row) /\ Len(row') = Len(row) + 1 /\ row'[Len(row) + 1] = new
        /\ \A k \in DOMAIN row : row'[k] = row[k]
    BY <1>1, <1>3, <2>1
  <2>3. DOMAIN job' \subseteq DOMAIN row'
    BY <1>1, <1>3, <2>2 DEF AN!With
  <2>4. \A k \in AN!Pending' : k = Len(row) + 1
    BY <1>1, <1>3, <2>2 DEF AN!Pending
  <2>5. \A k \in DOMAIN row' : k > Len(row) => row'[k].by = "auto"
    BY <1>1, <2>2
  <2>6. \A r \in Request : req[r].at = "counted" => req[r].failing \subseteq AN!Pending'
    BY <1>3 DEF AnalysesInv
  <2> QED
    BY <1>1, <1>6, <2>2, <2>3, <2>4, <2>5, <2>6, Writes DEF AN!generateDailyInterests
<1> QED
  BY <1>2, <1>3 DEF AN!generateDailyInterests, AN!InsertPending

LEMMA TickStep ==
    ASSUME AN!AnalysesAssumption, AnalysesInv, AN!Tick PROVE AnalysesInv'
<1>1. /\ row \in Seq(AN!Row) /\ DOMAIN job \subseteq DOMAIN row /\ Month \in Nat
      /\ DOMAIN row = 1 .. Len(row) /\ Len(row) \in Nat
  BY DEF AnalysesInv, AN!AnalysesAssumption
<1>2. \A k \in DOMAIN row : /\ row'[k] \in AN!Row /\ row'[k].by = row[k].by
                            /\ row'[k].status = row[k].status /\ row'[k].age >= row[k].age
  <2> SUFFICES ASSUME NEW k \in DOMAIN row
               PROVE  /\ row'[k] \in AN!Row /\ row'[k].by = row[k].by
                      /\ row'[k].status = row[k].status /\ row'[k].age >= row[k].age
    OBVIOUS
  <2>1. row[k] \in AN!Row /\ row'[k] = [row[k] EXCEPT !.age = AN!Capped(row[k].age)]
    BY <1>1 DEF AN!Tick
  <2>2. row[k].age \in 0 .. Month
    BY Rows
  <2>3. AN!Capped(row[k].age) \in 0 .. Month /\ AN!Capped(row[k].age) >= row[k].age
    BY <1>1, <2>2 DEF AN!Capped
  <2> QED
    BY <2>1, <2>3 DEF AN!Row
<1>3. DOMAIN row' = DOMAIN row /\ row' = [k \in 1 .. Len(row) |-> row'[k]]
  BY <1>1 DEF AN!Tick
<1>4. row' \in Seq(AN!Row) /\ Len(row') = Len(row)
  BY <1>1, <1>2, <1>3
<1>5. DOMAIN job' = DOMAIN job
  BY DEF AN!Tick
<1>6. AN!Pending' = AN!Pending
  BY <1>2, <1>3 DEF AN!Pending
<1>7. /\ DOMAIN job' \subseteq DOMAIN row' /\ Len(row') >= Len(row)
      /\ \A k \in DOMAIN row' : k > Len(row) => row'[k].by = "auto"
  BY <1>1, <1>3, <1>4, <1>5
<1>8. /\ \A k, m \in AN!Pending' : k = m
      /\ \A r \in Request : req[r].at = "counted" => req[r].failing \subseteq AN!Pending'
  BY <1>6 DEF AnalysesInv
<1>9. UNCHANGED <<req, lock>>
  BY DEF AN!Tick
<1> QED
  BY <1>2, <1>4, <1>7, <1>8, <1>9, Writes

\* A crash forgets jobs, and the server's forgets the requests under way.
LEMMA CrashStep ==
    ASSUME AN!AnalysesAssumption, AnalysesInv, UNCHANGED row, DOMAIN job' \subseteq DOMAIN job,
           UNCHANGED <<req, lock>> \/ (req' = [r \in Request |-> AN!Idle] /\ lock' = Nobody)
    PROVE  AnalysesInv'
<1>1. /\ AN!Pending' = AN!Pending /\ AN!Allowed' = AN!Allowed
      /\ AN!CountManualSince(Day)' = AN!CountManualSince(Day)
      /\ AN!CountManualSince(Month)' = AN!CountManualSince(Month)
  BY DEF AN!Pending, AN!Allowed, AN!CountManualSince
<1>2. AN!Idle \in Attempt /\ AN!Idle.at = "idle"
  BY DEF AN!Idle, Attempt
<1>3. /\ req' \in [Request -> Attempt] /\ lock' \in Request \cup {Nobody}
      /\ \A r \in Request :
           /\ req'[r].at \in {"locked", "counted"} <=> lock' = r
           /\ req'[r].at = "counted" => req'[r] = req[r]
  BY <1>2 DEF AnalysesInv, AN!AnalysesAssumption
<1>4. CASE UNCHANGED <<req, lock>>
  BY <1>1, <1>4 DEF AnalysesInv
<1>5. CASE req' = [r \in Request |-> AN!Idle] /\ lock' = Nobody
  <2>1. \A r \in Request : req'[r].at # "counted"
    BY <1>2, <1>5
  <2> QED
    BY <1>1, <1>3, <1>5, <2>1 DEF AnalysesInv
<1> QED
  BY <1>4, <1>5

LEMMA AnalysesStep == ASSUME AN!AnalysesAssumption, AnalysesInv, [AN!Next]_AN!vars PROVE AnalysesInv'
<1>1. CASE UNCHANGED AN!vars
  BY <1>1, CrashStep DEF AN!vars
<1>2. CASE \E r \in Request : AN!Generate(r) \/ AN!TakeLock(r) \/ AN!Count(r) \/ AN!ReserveManual(r)
  BY <1>2, GenerateStep, TakeLockStep, CountStep, ReserveStep
<1>3. CASE \E i \in DOMAIN job : AN!runAsync(i)
  <2>1. PICK i \in DOMAIN job : AN!Finish(i) \/ AN!Unwritten(i)
    BY <1>3 DEF AN!runAsync
  <2>2. CASE AN!Finish(i)
    BY <2>2, SettledStep DEF AN!Finish, AN!MarkDoneWithRecs, AN!MarkFailed
  <2>3. CASE AN!Unwritten(i)
    BY <2>3, CrashStep DEF AN!Unwritten, AN!Without
  <2> QED
    BY <2>1, <2>2, <2>3
<1>4. CASE AN!generateDailyInterests
  BY <1>4, DailyStep
<1>5. CASE AN!Daybreak
  BY <1>5, CrashStep DEF AN!Daybreak
<1>6. CASE AN!Tick
  BY <1>6, TickStep
<1>7. CASE \E by \in {"auto", "manual"} : AN!Crash(by)
  <2>1. PICK by \in {"auto", "manual"} : AN!Crash(by)
    BY <1>7
  <2> QED
    BY <2>1, CrashStep DEF AN!Crash, AN!Without
<1> QED
  BY <1>1, <1>2, <1>3, <1>4, <1>5, <1>6, <1>7 DEF AN!Next

\* However requests, the daily job, late answers and crashes cross, a reader has
\* one pending analysis at most and no more attempts than a day and a month
\* allow: the lock is held from the count to the reservation.
\* api/interests.go, repository/interest.go.
THEOREM QuotaKeptAlways == ASSUME AN!AnalysesAssumption PROVE AN!Spec => []AN!QuotaKept
<1>1. AN!Spec => []AnalysesInv
  BY AnalysesInit, AnalysesStep, PTL DEF AN!Spec
<1>2. AnalysesInv => AN!QuotaKept
  <2> SUFFICES ASSUME AnalysesInv PROVE AN!QuotaKept
    OBVIOUS
  <2>1. Cardinality(AN!Pending) <= 1
    <3>1. CASE AN!Pending = {}
      BY <3>1, FS_EmptySet
    <3>2. CASE AN!Pending # {}
      <4>1. PICK i \in AN!Pending : AN!Pending = {i}
        BY <3>2 DEF AnalysesInv
      <4> QED
        BY <4>1, FS_Singleton
    <3> QED
      BY <3>1, <3>2
  <2> QED
    BY <2>1, SameCount DEF AN!QuotaKept, AnalysesInv
<1> QED
  BY <1>1, <1>2, PTL

\* A settled row stays settled: a late answer does not bring a row back that was
\* given up, and a request that gives rows up finds them still pending.
\* repository/interest.go.
THEOREM SettledOnceAlways == ASSUME AN!AnalysesAssumption PROVE AN!Spec => AN!SettledOnce
<1>1. AN!Spec => []AnalysesInv
  BY AnalysesInit, AnalysesStep, PTL DEF AN!Spec
<1>2. AnalysesInv /\ [AN!Next]_AN!vars => [AN!SettledOnceStep]_AN!vars
  <2> SUFFICES ASSUME AnalysesInv, AN!Next, NEW i \in DOMAIN row, row[i].status # "pending"
               PROVE  row'[i].status = row[i].status
    BY DEF AN!SettledOnceStep
  <2>1. row \in Seq(AN!Row) /\ DOMAIN row = 1 .. Len(row) /\ Len(row) \in Nat
    BY DEF AnalysesInv
  <2>2. CASE UNCHANGED row
    BY <2>2
  <2>3. ASSUME NEW r \in Request, AN!ReserveManual(r), ~UNCHANGED row PROVE row'[i].status = row[i].status
    <3>1. /\ req[r].failing \subseteq AN!Pending
          /\ row' = Append(AN!Failing(req[r].failing), [by |-> "manual", status |-> "pending", age |-> 0])
      BY <2>3 DEF AN!ReserveManual, AnalysesInv
    <3>2. i \notin req[r].failing
      BY <3>1 DEF AN!Pending
    <3>3. /\ AN!Failing(req[r].failing)[i] = row[i]
          /\ DOMAIN AN!Failing(req[r].failing) = 1 .. Len(row)
      BY <2>1, <3>2 DEF AN!Failing
    <3>4. AN!Failing(req[r].failing) = [k \in 1 .. Len(row) |-> AN!Failing(req[r].failing)[k]]
      BY <2>1 DEF AN!Failing
    <3> QED
      BY <2>1, <3>1, <3>3, <3>4
  <2>4. ASSUME NEW k \in DOMAIN job, NEW s, AN!Settled(k, s) PROVE row'[i].status = row[i].status
    BY <2>1, <2>4 DEF AN!Settled
  <2>5. CASE AN!generateDailyInterests
    BY <2>1, <2>5 DEF AN!generateDailyInterests, AN!InsertPending
  <2>6. CASE AN!Tick
    <3>1. row[i] \in AN!Row /\ row'[i] = [row[i] EXCEPT !.age = AN!Capped(row[i].age)]
      BY <2>6, Rows DEF AN!Tick
    <3> QED
      BY <3>1 DEF AN!Row
  <2> QED
    BY <2>2, <2>3, <2>4, <2>5, <2>6 DEF AN!Next, AN!Generate, AN!TakeLock, AN!Count, AN!runAsync,
       AN!Finish, AN!MarkDoneWithRecs, AN!MarkFailed, AN!Unwritten, AN!Daybreak, AN!Crash
<1> QED
  BY <1>1, <1>2, PTL DEF AN!Spec, AN!SettledOnce

-----------------------------------------------------------------------------
(* Transcripts: an attempt ends on an answer only when no source erred, and *)
(* nobody appends to a body that has a text.                                *)

CONSTANTS Article, MediaOf, Limit, Defer, Poor, MaxCapture
VARIABLES art, batch, reader, english, decided

TR == INSTANCE Transcripts

Entry(x) ==
    /\ DOMAIN x = {"body", "sections", "media", "fetched", "wait"}
    /\ x.sections \in {0, 1} /\ x.fetched \in BOOLEAN
    /\ ~x.fetched => x.sections = 0

Taken(f) == /\ DOMAIN f \subseteq Article
            /\ \A a \in DOMAIN f : f[a].sections = 0

TranscriptsInv ==
    /\ DOMAIN art = Article /\ \A a \in Article : Entry(art[a])
    /\ Taken(batch) /\ Taken(reader)
    /\ \A a \in DOMAIN batch : ~art[a].fetched \/ art[a].sections = 1
    /\ DOMAIN decided = Article
    /\ \A a \in Article : art[a].fetched /\ art[a].sections = 0 => ~decided[a].error

\* "Nothing" is the answer of every source that was asked.
LEMMA NothingIsAnswer ==
    ASSUME NEW m, NEW r \in TR!Results(m), TR!EnglifeFallback(m, r) = "nothing"
    PROVE  ~ \E s \in TR!Strategy : r[s].says = "error"
<1> DEFINE with(w) == {i \in DOMAIN TR!Order : r[TR!Order[i]].says = w}
<1>1. TR!MultiFetcher(r) = IF with("text") # {} THEN "text" ELSE IF with("error") # {} THEN "error" ELSE "nothing"
  BY DEF TR!MultiFetcher
<1>2. TR!MultiFetcher(r) = "nothing" /\ with("error") = {}
  BY <1>1 DEF TR!EnglifeFallback
<1>3. \A s \in {"youtube", "bilibili", "ytdlp", "page"} : r[s].says # "error"
  <2>1. /\ DOMAIN TR!Order = 1 .. 4 /\ TR!Order[1] = "youtube" /\ TR!Order[2] = "bilibili"
        /\ TR!Order[3] = "ytdlp" /\ TR!Order[4] = "page"
    BY DEF TR!Order
  <2> QED
    BY <1>2, <2>1
<1>4. r["english"].says # "error"
  <2>1. r["english"] \in TR!Asked("english", m)
    BY DEF TR!Results
  <2>2. CASE m = "video/youtube" /\ english = "yes"
    BY <2>2 DEF TR!EnglifeFallback
  <2>3. CASE ~(m = "video/youtube" /\ english = "yes")
    <3>1. TR!Asked("english", m) = {TR!Silence}
      BY <2>3 DEF TR!Asked, TR!Applies
    <3> QED
      BY <2>1, <3>1 DEF TR!Silence
  <2> QED
    BY <2>2, <2>3
<1> QED
  BY <1>3, <1>4 DEF TR!Strategy

\* What a change of a row makes of an entry, field by field.
LEMMA Marked ==
    ASSUME NEW x, Entry(x)
    PROVE  LET y == [x EXCEPT !.fetched = TRUE] IN
           Entry(y) /\ y.fetched = TRUE /\ y.sections = x.sections
<1> DEFINE y == [x EXCEPT !.fetched = TRUE]
<1>1. DOMAIN y = DOMAIN x /\ y["fetched"] = TRUE /\ y["sections"] = x["sections"]
  BY DEF Entry
<1> HIDE DEF y
<1>2. Entry(y) /\ y.fetched = TRUE /\ y.sections = x.sections
  BY <1>1 DEF Entry
<1> QED
  BY <1>2 DEF y

LEMMA PutOff ==
    ASSUME NEW x, Entry(x), NEW n
    PROVE  LET y == [x EXCEPT !.wait = n] IN
           Entry(y) /\ y.fetched = x.fetched /\ y.sections = x.sections
<1> DEFINE y == [x EXCEPT !.wait = n]
<1>1. DOMAIN y = DOMAIN x /\ y["fetched"] = x["fetched"] /\ y["sections"] = x["sections"]
  BY DEF Entry
<1> HIDE DEF y
<1>2. Entry(y) /\ y.fetched = x.fetched /\ y.sections = x.sections
  BY <1>1 DEF Entry
<1> QED
  BY <1>2 DEF y

LEMMA Reopened ==
    ASSUME NEW x, Entry(x), x.sections = 0
    PROVE  LET y == [x EXCEPT !.fetched = FALSE, !.wait = 0] IN
           Entry(y) /\ y.fetched = FALSE /\ y.sections = x.sections
<1> DEFINE y == [x EXCEPT !.fetched = FALSE, !.wait = 0]
<1>1. DOMAIN y = DOMAIN x /\ y["fetched"] = FALSE /\ y["sections"] = x["sections"]
  BY DEF Entry
<1> HIDE DEF y
<1>2. Entry(y) /\ y.fetched = FALSE /\ y.sections = x.sections
  BY <1>1 DEF Entry
<1> QED
  BY <1>2 DEF y

LEMMA Texted ==
    ASSUME NEW x, Entry(x), NEW body
    PROVE  LET y == [[x EXCEPT !.body = body, !.sections = 1] EXCEPT !.fetched = TRUE] IN
           Entry(y) /\ y.fetched = TRUE /\ y.sections = 1
<1> DEFINE w == [x EXCEPT !.body = body, !.sections = 1]
           y == [w EXCEPT !.fetched = TRUE]
<1>1. DOMAIN w = DOMAIN x /\ w["sections"] = 1
  BY DEF Entry
<1> HIDE DEF w
<1>2. DOMAIN y = DOMAIN x /\ y["fetched"] = TRUE /\ y["sections"] = 1
  BY <1>1 DEF Entry
<1> HIDE DEF y
<1>3. Entry(y) /\ y.fetched = TRUE /\ y.sections = 1
  BY <1>2 DEF Entry
<1> QED
  BY <1>3 DEF y, w

LEMMA Recaptured ==
    ASSUME NEW x, Entry(x), NEW body, NEW m
    PROVE  LET y == [x EXCEPT !.body = body, !.sections = 0, !.media = m, !.fetched = FALSE] IN
           Entry(y) /\ y.fetched = FALSE /\ y.sections = 0
<1> DEFINE y == [x EXCEPT !.body = body, !.sections = 0, !.media = m, !.fetched = FALSE]
<1>1. DOMAIN y = DOMAIN x /\ y["fetched"] = FALSE /\ y["sections"] = 0
  BY DEF Entry
<1> HIDE DEF y
<1>2. Entry(y) /\ y.fetched = FALSE /\ y.sections = 0
  BY <1>1 DEF Entry
<1> QED
  BY <1>2 DEF y

LEMMA TranscriptsInit == TR!Init => TranscriptsInv
<1> SUFFICES ASSUME TR!Init PROVE TranscriptsInv
  OBVIOUS
<1>1. DOMAIN art = Article
  BY DEF TR!Init
<1>4. ASSUME NEW a \in Article PROVE Entry(art[a]) /\ art[a].fetched = FALSE
  <2>1. PICK m \in MediaOf : art[a] = [body |-> 0, sections |-> 0, media |-> m, fetched |-> FALSE, wait |-> 0]
    BY DEF TR!Init
  <2> QED
    BY <2>1 DEF Entry
<1>2. batch = << >> /\ reader = << >> /\ DOMAIN decided = Article
  BY DEF TR!Init
<1>3. Taken(batch) /\ Taken(reader) /\ DOMAIN batch = {}
  BY <1>2 DEF Taken
<1> QED
  BY <1>1, <1>2, <1>3, <1>4 DEF TranscriptsInv

\* An article changes: its own marks and texts, or the row of a new capture.
LEMMA OneEntry ==
    ASSUME TranscriptsInv, NEW a \in Article, NEW x, Entry(x), art' = [art EXCEPT ![a] = x],
           Taken(batch)', Taken(reader)', DOMAIN batch' \subseteq DOMAIN batch,
           a \in DOMAIN batch' => ~x.fetched \/ x.sections = 1,
           DOMAIN decided' = Article, \A b \in Article \ {a} : decided'[b] = decided[b],
           x.fetched /\ x.sections = 0 => ~decided'[a].error
    PROVE  TranscriptsInv'
<1>1. DOMAIN art' = Article /\ art'[a] = x /\ \A b \in Article \ {a} : art'[b] = art[b]
  BY DEF TranscriptsInv
<1> QED
  BY <1>1 DEF TranscriptsInv, Taken

LEMMA ReadEntry ==
    ASSUME TranscriptsInv, NEW a \in Article
    PROVE  TR!Read(a).sections = art[a].sections
BY DEF TR!Read

LEMMA WithText ==
    ASSUME TranscriptsInv, NEW a \in Article, NEW was, was.sections = 0, TR!UpdateTranscriptContent(a, was)
    PROVE  \E x : Entry(x) /\ x.fetched /\ x.sections = 1 /\ art' = [art EXCEPT ![a] = x]
<1>1. art' = [art EXCEPT ![a] = [[art[a] EXCEPT !.body = was.body, !.sections = 1] EXCEPT !.fetched = TRUE]]
  BY DEF TR!UpdateTranscriptContent, TR!appendTranscriptToContent
<1>2. Entry(art[a])
  BY DEF TranscriptsInv
<1> QED
  BY <1>1, <1>2, Texted

LEMMA BatchStep ==
    ASSUME TranscriptsInv, NEW a \in Article, TR!backfillTranscripts(a)
    PROVE  TranscriptsInv'
<1>1. a \in DOMAIN batch /\ batch' = TR!Without(batch, a) /\ UNCHANGED <<due, reader, english>>
  BY DEF TR!backfillTranscripts
<1>2. PICK r \in TR!Results(batch[a].media) :
        LET end == TR!EnglifeFallback(batch[a].media, r) IN
         /\ decided' = [decided EXCEPT ![a] = [error |-> \E s \in TR!Strategy : r[s].says = "error",
                                                trouble |-> \E s \in TR!Strategy : r[s].trouble]]
         /\ \/ end = "error" /\ TR!DeferTranscriptRetry(a)
            \/ end = "nothing" /\ TR!MarkTranscriptFetchAttempted(a)
            \/ end \in {"text", "reading"} /\ TR!UpdateTranscriptContent(a, batch[a])
  BY DEF TR!backfillTranscripts
<1> DEFINE erred == \E s \in TR!Strategy : r[s].says = "error"
           troubled == \E s \in TR!Strategy : r[s].trouble
           end == TR!EnglifeFallback(batch[a].media, r)
<1>3. decided' = [decided EXCEPT ![a] = [error |-> erred, trouble |-> troubled]]
  BY <1>2
<1>4. ~erred => ~decided'[a].error
  <2> HIDE DEF erred, troubled
  <2>1. decided'[a] = [error |-> erred, trouble |-> troubled]
    BY <1>3 DEF TranscriptsInv
  <2>3. [error |-> erred, trouble |-> troubled].error = erred
    BY Zenon
  <2>2. decided'[a].error = erred
    BY <2>1, <2>3, Zenon
  <2> QED
    BY <2>2, Zenon
<1>5. DOMAIN decided' = Article /\ \A b \in Article \ {a} : decided'[b] = decided[b]
  BY <1>3 DEF TranscriptsInv
<1>6. DOMAIN batch' = DOMAIN batch \ {a} /\ Taken(batch)' /\ Taken(reader)'
  BY <1>1 DEF TR!Without, Taken, TranscriptsInv
<1>7. Entry(art[a]) /\ (~art[a].fetched \/ art[a].sections = 1) /\ batch[a].sections = 0
  BY <1>1 DEF TranscriptsInv, Taken
<1> HIDE DEF erred, troubled
<1>8. CASE TR!DeferTranscriptRetry(a)
  <2>1. art' = [art EXCEPT ![a] = [art[a] EXCEPT !.wait = Defer]]
    BY <1>8 DEF TR!DeferTranscriptRetry
  <2> DEFINE x == [art[a] EXCEPT !.wait = Defer]
  <2>2. Entry(x) /\ x.fetched = art[a].fetched /\ x.sections = art[a].sections
    BY <1>7, PutOff
  <2>3. art' = [art EXCEPT ![a] = x]
    BY <2>1
  <2> HIDE DEF x
  <2>4. ~x.fetched \/ x.sections = 1
    BY <1>7, <2>2
  <2>5. a \notin DOMAIN batch' /\ DOMAIN batch' \subseteq DOMAIN batch
    BY <1>6
  <2>6. x.fetched /\ x.sections = 0 => ~decided'[a].error
    BY <2>4
  <2> QED
    BY <1>5, <1>6, <2>2, <2>3, <2>5, <2>6, OneEntry
<1>9. CASE end = "nothing" /\ TR!MarkTranscriptFetchAttempted(a)
  <2>1. art' = [art EXCEPT ![a] = [art[a] EXCEPT !.fetched = TRUE]]
    BY <1>9 DEF TR!MarkTranscriptFetchAttempted
  <2> DEFINE x == [art[a] EXCEPT !.fetched = TRUE]
  <2>2. Entry(x)
    BY <1>7, Marked
  <2>3. ~erred
    BY <1>9, NothingIsAnswer DEF erred
  <2>4. art' = [art EXCEPT ![a] = x]
    BY <2>1
  <2> HIDE DEF x
  <2>5. a \notin DOMAIN batch' /\ DOMAIN batch' \subseteq DOMAIN batch
    BY <1>6
  <2>6. x.fetched /\ x.sections = 0 => ~decided'[a].error
    BY <1>4, <2>3
  <2> QED
    BY <1>5, <1>6, <2>2, <2>4, <2>5, <2>6, OneEntry
<1>10. CASE TR!UpdateTranscriptContent(a, batch[a])
  <2>1. PICK x : Entry(x) /\ x.fetched /\ x.sections = 1 /\ art' = [art EXCEPT ![a] = x]
    BY <1>7, <1>10, WithText
  <2>2. a \notin DOMAIN batch' /\ DOMAIN batch' \subseteq DOMAIN batch
    BY <1>6
  <2>3. (a \in DOMAIN batch' => ~x.fetched \/ x.sections = 1) /\ (x.fetched /\ x.sections = 0 => ~decided'[a].error)
    BY <2>1
  <2> QED
    BY <1>5, <1>6, <2>1, <2>2, <2>3, OneEntry
<1> QED
  BY <1>2, <1>8, <1>9, <1>10

LEMMA RequestSteps ==
    ASSUME TranscriptsInv, NEW a \in Article, TR!Summarize(a) \/ TR!fetchTranscriptContentForSummary(a)
    PROVE  TranscriptsInv'
<1>1. CASE TR!Summarize(a)
  <2>1. reader' = [b \in {a} |-> TR!Read(a)] /\ art[a].sections = 0 /\ UNCHANGED <<art, batch, decided>>
    BY <1>1 DEF TR!Summarize, TR!articleHasTranscript, TranscriptsInv, Entry
  <2>2. Taken(reader)'
    BY <2>1, ReadEntry DEF Taken
  <2> QED
    BY <2>1, <2>2 DEF TranscriptsInv, Taken
<1>2. CASE TR!fetchTranscriptContentForSummary(a)
  <2>1. a \in DOMAIN reader /\ reader' = << >> /\ UNCHANGED <<batch, decided>>
        /\ (UNCHANGED art \/ TR!UpdateTranscriptContent(a, reader[a]))
    BY <1>2 DEF TR!fetchTranscriptContentForSummary
  <2>2. Taken(reader)' /\ Taken(batch)' /\ reader[a].sections = 0
    BY <2>1 DEF TranscriptsInv, Taken
  <2>3. CASE UNCHANGED art
    BY <2>1, <2>2, <2>3 DEF TranscriptsInv, Taken
  <2>4. CASE TR!UpdateTranscriptContent(a, reader[a])
    <3>1. PICK x : Entry(x) /\ x.fetched /\ x.sections = 1 /\ art' = [art EXCEPT ![a] = x]
      BY <2>2, <2>4, WithText
    <3>2. DOMAIN decided' = Article /\ \A b \in Article \ {a} : decided'[b] = decided[b]
      BY <2>1 DEF TranscriptsInv
    <3>3. (a \in DOMAIN batch' => ~x.fetched \/ x.sections = 1) /\ (x.fetched /\ x.sections = 0 => ~decided'[a].error)
      BY <3>1
    <3>4. DOMAIN batch' \subseteq DOMAIN batch
      BY <2>1
    <3> QED
      BY <2>2, <3>1, <3>2, <3>3, <3>4, OneEntry
  <2> QED
    BY <2>1, <2>3, <2>4
<1> QED
  BY <1>1, <1>2

\* The rows change all at once, each keeping its text.
LEMMA AllEntries ==
    ASSUME TranscriptsInv, UNCHANGED <<batch, reader, decided>>, DOMAIN art' = Article,
           \A a \in Article : /\ Entry(art'[a]) /\ art'[a].sections = art[a].sections
                              /\ art'[a].fetched => art[a].fetched
    PROVE  TranscriptsInv'
BY DEF TranscriptsInv, Taken

LEMMA TranscriptsStep == ASSUME TranscriptsInv, [TR!Next]_(TR!vars) PROVE TranscriptsInv'
<1>1. CASE UNCHANGED <<art, batch, reader, decided>>
  BY <1>1 DEF TranscriptsInv, Taken
<1>2. CASE TR!StartBatch
  <2>1. /\ UNCHANGED <<art, reader, decided>>
        /\ batch' = [a \in TR!GetMediaArticlesWithoutTranscript |-> TR!Read(a)]
    BY <1>2 DEF TR!StartBatch
  <2>2. \A a \in TR!GetMediaArticlesWithoutTranscript : a \in Article /\ ~art[a].fetched
    BY DEF TR!GetMediaArticlesWithoutTranscript, TR!Due
  <2>3. Taken(batch)'
    BY <2>1, <2>2, ReadEntry DEF Taken, TranscriptsInv, Entry
  <2> QED
    BY <2>1, <2>2, <2>3 DEF TranscriptsInv, Taken
<1>3. CASE TR!Connect
  <2>1. UNCHANGED <<batch, reader, decided>> /\ DOMAIN art' = Article
    BY <1>3 DEF TR!Connect
  <2>2. ASSUME NEW a \in Article
        PROVE  Entry(art'[a]) /\ art'[a].sections = art[a].sections /\ (art'[a].fetched => art[a].fetched)
    <3>1. Entry(art[a])
      BY DEF TranscriptsInv
    <3>2. CASE art'[a] = art[a]
      BY <3>1, <3>2
    <3>3. CASE art[a].sections = 0 /\ art'[a] = [art[a] EXCEPT !.fetched = FALSE, !.wait = 0]
      BY <3>1, <3>3, Reopened
    <3> DEFINE again == art[a].media = "video/youtube" /\ ~TR!articleHasTranscript(a)
    <3>4. again => art[a].sections = 0
      BY <3>1 DEF Entry, TR!articleHasTranscript
    <3>5. art'[a] = IF again THEN [art[a] EXCEPT !.fetched = FALSE, !.wait = 0] ELSE art[a]
      BY <1>3 DEF TR!Connect
    <3> HIDE DEF again
    <3> QED
      BY <3>2, <3>3, <3>4, <3>5
  <2> QED
    BY <2>1, <2>2, AllEntries
<1>4. CASE TR!Minute
  <2>1. /\ UNCHANGED <<batch, reader, decided>> /\ DOMAIN art' = Article
        /\ \A a \in Article : \E n : art'[a] = [art[a] EXCEPT !.wait = n]
    BY <1>4 DEF TR!Minute
  <2>2. ASSUME NEW a \in Article
        PROVE  Entry(art'[a]) /\ art'[a].sections = art[a].sections /\ (art'[a].fetched => art[a].fetched)
    <3>1. Entry(art[a])
      BY DEF TranscriptsInv
    <3>2. PICK n : art'[a] = [art[a] EXCEPT !.wait = n]
      BY <2>1
    <3> QED
      BY <3>1, <3>2, PutOff
  <2> QED
    BY <2>1, <2>2, AllEntries
<1>5. ASSUME NEW a \in Article, TR!Refused(a) PROVE TranscriptsInv'
  <2>1. UNCHANGED <<art, reader, decided>> /\ batch' = TR!Without(batch, a)
    BY <1>5 DEF TR!Refused
  <2> QED
    BY <2>1 DEF TR!Without, TranscriptsInv, Taken
<1>6. ASSUME NEW a \in Article, NEW m \in MediaOf, TR!Recapture(a, m) PROVE TranscriptsInv'
  <2> DEFINE x == [art[a] EXCEPT !.body = art[a].body + 1, !.sections = 0, !.media = m, !.fetched = FALSE]
  <2>0. art' = [art EXCEPT ![a] = [art[a] EXCEPT !.body = @ + 1, !.sections = 0, !.media = m, !.fetched = FALSE]]
    BY <1>6 DEF TR!Recapture
  <2>1. art' = [art EXCEPT ![a] = x] /\ UNCHANGED <<batch, reader, decided>>
    BY <1>6, <2>0 DEF TR!Recapture
  <2>2. Entry(art[a])
    BY DEF TranscriptsInv
  <2>3. Entry(x) /\ ~x.fetched
    BY <2>2, Recaptured
  <2> HIDE DEF x
  <2>4. Taken(batch)' /\ Taken(reader)' /\ DOMAIN decided' = Article
    BY <2>1 DEF TranscriptsInv, Taken
  <2> QED
    BY <2>1, <2>3, <2>4, OneEntry
<1> QED
  BY <1>1, <1>2, <1>3, <1>4, <1>5, <1>6, BatchStep, RequestSteps DEF TR!Next, TR!Disconnect, TR!vars

\* An article is given up only when no source that was asked ended on an error, in
\* whatever order errors, empty answers and the connection came, and never holds
\* two texts.  transcript/fetcher.go, cmd/worker/main.go (backfillTranscripts).
THEOREM GivenUpOnAnswersAlways == TR!Spec => []TR!GivenUpOnAnswers
<1>1. TR!Spec => []TranscriptsInv
  BY TranscriptsInit, TranscriptsStep, PTL DEF TR!Spec
<1>2. TranscriptsInv => TR!GivenUpOnAnswers
  BY DEF TranscriptsInv, TR!GivenUpOnAnswers, TR!articleHasTranscript, Entry
<1> QED
  BY <1>1, <1>2, PTL

-----------------------------------------------------------------------------
(* Summarizer: what is shown of a half is what its running call has said.   *)

CONSTANTS Native
VARIABLES bill

SM == INSTANCE Summarizer

Stages == Seq(SM!Half \X SM!Via)
SummaryJob ==
    [at : {"idle", "asking", "pausing", "done", "failed"}, kind : {"plain", "template", "images", "json"},
     stream : BOOLEAN, native : Native \cup {FALSE}, half : SM!Half, via : SM!Via, attempt : Nat,
     shown : [SM!Half -> Nat], stages : Stages, accepted : Stages, retried : SUBSET SM!Errors]
ProviderCall ==
    [at : {"none", "sent", "body"}, doubled : BOOLEAN, text : BOOLEAN, started : BOOLEAN,
     delta : BOOLEAN, finish : {"none", "stop", "other", "done"}]

\* Said so far by the call of the half under way.
Pieces(c) == IF c.text THEN 1 ELSE 0

\* j is the summary while call c runs for it, or none.
Told(j, c) ==
    /\ \A h \in SM!Half : j.shown[h] <= 1
    /\ j.kind = "json" => ~j.stream
    /\ ~j.stream => j.shown["brief"] = 0 /\ j.shown["detailed"] = 0
    /\ j.at \in {"idle", "asking", "pausing"} /\ j.stream =>
         /\ j.shown[j.half] = Pieces(c)
         /\ j.half = "brief" => j.shown["detailed"] = 0
         /\ j.half = "detailed" => j.shown["brief"] = 1
    /\ j.at = "pausing" => ~j.stream
    /\ j.at = "done" /\ j.stream => j.shown["brief"] = 1 /\ j.shown["detailed"] = 1

\* The record names what was accepted.
Lineage(j) ==
    j.kind # "json" =>
      /\ j.stages = j.accepted \/ j.at = "failed"
      /\ j.at \in {"asking", "pausing"} => Len(j.stages) = IF j.half = "brief" THEN 0 ELSE 1
      /\ j.at = "done" => Len(j.stages) = 2

SummarizerInv ==
    /\ job \in SummaryJob /\ call \in ProviderCall
    /\ bill \in [admitted : Nat, released : Nat, recorded : Nat]
    /\ SM!PermitsReturned
    /\ call.at # "none" => job.at = "asking"
    /\ call.text => call.at = "body"
    /\ Told(job, call) /\ Lineage(job)

LEMMA NoCallTyped == SM!NoCall \in ProviderCall /\ SM!NoCall.at = "none" /\ SM!NoCall.text = FALSE
BY DEF SM!NoCall, ProviderCall

LEMMA SummarizerInit == SM!Init => SummarizerInv
<1> SUFFICES ASSUME SM!Init PROVE SummarizerInv
  OBVIOUS
<1>1. job \in SummaryJob
  BY DEF SM!Init, SM!NoJob, SummaryJob, SM!Half, SM!Via, SM!Errors, Stages
<1>2. call \in ProviderCall /\ call.at = "none" /\ call.text = FALSE
  BY NoCallTyped DEF SM!Init
<1>3. Told(job, call) /\ Lineage(job)
  BY <1>2 DEF SM!Init, SM!NoJob, Told, Lineage, SM!Half, Pieces
<1>4. bill \in [admitted : Nat, released : Nat, recorded : Nat] /\ SM!PermitsReturned
  BY <1>2 DEF SM!Init, SM!PermitsReturned
<1> QED
  BY <1>1, <1>2, <1>3, <1>4 DEF SummarizerInv

\* A failed call leaves the half to another attempt or to the text only when
\* nothing of it was shown.
LEMMA FailedCall ==
    ASSUME NEW j \in SummaryJob, NEW c \in ProviderCall, NEW e \in SM!Errors,
           j.at = "asking", Told(j, c), Lineage(j)
    PROVE  /\ SM!CallFailed(j, e) \in SummaryJob
           /\ Told(SM!CallFailed(j, e), SM!NoCall)
           /\ Lineage(SM!CallFailed(j, e))
<1> DEFINE r == SM!CallFailed(j, e)
<1>0. /\ j.half \in SM!Half /\ j.shown[j.half] \in Nat /\ << >> \in Stages
      /\ DOMAIN j = {"at", "kind", "stream", "native", "half", "via", "attempt", "shown", "stages",
                     "accepted", "retried"}
  BY DEF SummaryJob, Stages
<1>1. ASSUME NEW q \in SummaryJob, q = [j EXCEPT !.at = "failed"]
      PROVE  Told(q, SM!NoCall) /\ Lineage(q)
  <2>1. q.at = "failed" /\ q.kind = j.kind /\ q.stream = j.stream /\ q.shown = j.shown
    BY <1>0, <1>1
  <2> QED
    BY <2>1 DEF Told, Lineage
<1>2. ASSUME ~j.stream, NEW q \in SummaryJob,
             q = [j EXCEPT !.at = "pausing", !.attempt = @ + 1, !.retried = @ \cup {e}]
      PROVE  Told(q, SM!NoCall) /\ Lineage(q)
  <2>1. q.at = "pausing" /\ q.kind = j.kind /\ q.stream = j.stream /\ q.shown = j.shown /\ q.half = j.half
        /\ q.stages = j.stages /\ q.accepted = j.accepted
    BY <1>0, <1>2
  <2> QED
    BY <1>2, <2>1 DEF Told, Lineage
<1>3. ASSUME j.shown[j.half] = 0, NEW q \in SummaryJob,
             q = [j EXCEPT !.via = "text", !.attempt = 0, !.stages = IF j.half = "brief" THEN << >> ELSE @]
      PROVE  Told(q, SM!NoCall) /\ Lineage(q)
  <2>1. q.at = "asking" /\ q.kind = j.kind /\ q.stream = j.stream /\ q.shown = j.shown /\ q.half = j.half
        /\ q.stages = (IF j.half = "brief" THEN << >> ELSE j.stages) /\ q.accepted = j.accepted
    BY <1>0, <1>3
  <2>2. Told(q, SM!NoCall)
    BY <1>3, <2>1, NoCallTyped DEF Told, Pieces
  <2>3. j.kind # "json" /\ j.half = "brief" => j.stages = << >>
    BY <1>0 DEF Lineage, SummaryJob, Stages
  <2>4. Lineage(q)
    BY <2>1, <2>3 DEF Lineage
  <2> QED
    BY <2>2, <2>4
<1>4. /\ [j EXCEPT !.at = "failed"] \in SummaryJob
      /\ [j EXCEPT !.at = "pausing", !.attempt = @ + 1, !.retried = @ \cup {e}] \in SummaryJob
      /\ [j EXCEPT !.via = "text", !.attempt = 0, !.stages = IF j.half = "brief" THEN << >> ELSE @] \in SummaryJob
  <2> DEFINE st == IF j.half = "brief" THEN << >> ELSE j.stages
             at == j.attempt + 1
             rt == j.retried \cup {e}
  <2>1. st \in Stages /\ "text" \in SM!Via /\ at \in Nat /\ rt \in SUBSET SM!Errors
    BY <1>0 DEF SummaryJob, SM!Via
  <2> HIDE DEF st, at, rt
  <2>2. [j EXCEPT !.at = "failed"] \in SummaryJob
    BY DEF SummaryJob
  <2>3. [j EXCEPT !.at = "pausing", !.attempt = at, !.retried = rt] \in SummaryJob
    BY <2>1 DEF SummaryJob
  <2>4. [j EXCEPT !.via = "text", !.attempt = 0, !.stages = st] \in SummaryJob
    BY <2>1 DEF SummaryJob
  <2> QED
    BY <2>2, <2>3, <2>4 DEF st, at, rt
<1>5. \/ r = [j EXCEPT !.at = "failed"]
      \/ ~j.stream /\ r = [j EXCEPT !.at = "pausing", !.attempt = @ + 1, !.retried = @ \cup {e}]
      \/ j.shown[j.half] = 0
         /\ r = [j EXCEPT !.via = "text", !.attempt = 0, !.stages = IF j.half = "brief" THEN << >> ELSE @]
  BY <1>0 DEF SM!CallFailed, SM!FallBack, SM!Again, SM!Failed
<1> QED
  BY <1>1, <1>2, <1>3, <1>4, <1>5

\* A complete answer of the half is one more accepted.
LEMMA AcceptedCall ==
    ASSUME NEW j \in SummaryJob, NEW c \in ProviderCall, j.at = "asking", j.stream => c.text,
           Told(j, c), Lineage(j)
    PROVE  /\ SM!Accepted(j) \in SummaryJob
           /\ Told(SM!Accepted(j), SM!NoCall)
           /\ Lineage(SM!Accepted(j))
<1> DEFINE entry == <<j.half, j.via>>
           label == <<IF Len(j.stages) = 0 THEN "brief" ELSE "detailed", j.via>>
           st == IF j.kind = "json" THEN j.stages ELSE Append(j.stages, label)
           q == [j EXCEPT !.stages = st, !.accepted = Append(@, entry)]
           r == SM!Accepted(j)
<1>0. /\ j.half \in SM!Half /\ j.via \in SM!Via /\ j.stages \in Stages /\ j.accepted \in Stages
      /\ DOMAIN j = {"at", "kind", "stream", "native", "half", "via", "attempt", "shown", "stages",
                     "accepted", "retried"}
  BY DEF SummaryJob
<1>1. entry \in SM!Half \X SM!Via /\ label \in SM!Half \X SM!Via
  BY <1>0 DEF SM!Half
<1>2. st \in Stages /\ Append(j.accepted, entry) \in Stages
  BY <1>0, <1>1 DEF Stages
<1>3. j.kind # "json" => label = entry
  BY <1>0 DEF Lineage, SM!Half
<1>4. j.kind # "json" => st = Append(j.accepted, entry) /\ Len(st) = Len(j.stages) + 1
  BY <1>0, <1>1, <1>3 DEF Lineage, Stages
<1>5. \/ /\ j.half = "detailed" \/ j.kind = "json"
         /\ r = [q EXCEPT !.at = "done"]
      \/ /\ j.half = "brief" /\ j.kind # "json"
         /\ \E v \in SM!Via : r = [q EXCEPT !.half = "detailed", !.attempt = 0, !.via = v]
  BY <1>0 DEF SM!Accepted, SM!recordSummaryRequest, SM!Via, SM!Half
<1>6. /\ q \in SummaryJob /\ q.at = j.at /\ q.kind = j.kind /\ q.stream = j.stream /\ q.shown = j.shown
      /\ q.half = j.half /\ q.stages = st /\ q.accepted = Append(j.accepted, entry) /\ DOMAIN q = DOMAIN j
  <2> DEFINE ac == Append(j.accepted, entry)
  <2> HIDE DEF st, ac
  <2>1. [j EXCEPT !.stages = st, !.accepted = ac] \in SummaryJob
    BY <1>2 DEF SummaryJob, ac
  <2> QED
    BY <1>0, <2>1 DEF ac
<1> HIDE DEF q, st, entry, label
<1>7. CASE (j.half = "detailed" \/ j.kind = "json") /\ r = [q EXCEPT !.at = "done"]
  <2>1. /\ r \in SummaryJob /\ r.at = "done" /\ r.kind = j.kind /\ r.stream = j.stream /\ r.shown = j.shown
        /\ r.stages = st /\ r.accepted = Append(j.accepted, entry)
    BY <1>0, <1>6, <1>7 DEF SummaryJob
  <2>2. Told(r, SM!NoCall)
    BY <1>7, <2>1 DEF Told, Pieces
  <2>3. j.kind # "json" => Len(j.stages) = 1
    BY <1>7 DEF Lineage
  <2>4. j.kind # "json" => r.stages = r.accepted /\ Len(r.stages) = 2
    <3> SUFFICES ASSUME j.kind # "json" PROVE r.stages = r.accepted /\ Len(r.stages) = 2
      OBVIOUS
    <3>1. st = Append(j.accepted, entry) /\ Len(st) = Len(j.stages) + 1 /\ Len(j.stages) = 1
      BY <1>4, <2>3
    <3> QED
      BY <2>1, <3>1
  <2>5. Lineage(r)
    BY <2>1, <2>4 DEF Lineage
  <2> QED
    BY <2>1, <2>2, <2>5
<1>8. CASE /\ j.half = "brief" /\ j.kind # "json"
           /\ \E v \in SM!Via : r = [q EXCEPT !.half = "detailed", !.attempt = 0, !.via = v]
  <2>1. PICK v \in SM!Via : r = [q EXCEPT !.half = "detailed", !.attempt = 0, !.via = v]
    BY <1>8
  <2>2. /\ r \in SummaryJob /\ r.at = "asking" /\ r.half = "detailed" /\ r.kind = j.kind
        /\ r.stream = j.stream /\ r.shown = j.shown /\ r.stages = st /\ r.accepted = Append(j.accepted, entry)
    <3>1. r.at = q.at /\ r.half = "detailed" /\ r.kind = q.kind /\ r.stream = q.stream
          /\ r.shown = q.shown /\ r.stages = q.stages /\ r.accepted = q.accepted
      BY <1>0, <1>6, <2>1
    <3>2. "detailed" \in SM!Half /\ 0 \in Nat
      BY DEF SM!Half
    <3>3. r \in SummaryJob
      BY <1>6, <2>1, <3>2 DEF SummaryJob
    <3> QED
      BY <1>6, <3>1, <3>3
  <2>3. Told(r, SM!NoCall)
    BY <1>8, <2>2, NoCallTyped DEF Told, Pieces
  <2>4. Len(j.stages) = 0
    BY <1>8 DEF Lineage
  <2>5. r.stages = r.accepted /\ Len(r.stages) = 1
    BY <1>4, <1>8, <2>2, <2>4
  <2>6. Lineage(r)
    BY <2>2, <2>5 DEF Lineage
  <2> QED
    BY <2>2, <2>3, <2>6
<1> QED
  BY <1>5, <1>7, <1>8

\* Permits: a call that runs has one, an ended one has given it back.
LEMMA Ends ==
    ASSUME SummarizerInv, call.at # "none", SM!Closed, call'.at = "none"
    PROVE  bill' \in [admitted : Nat, released : Nat, recorded : Nat] /\ SM!PermitsReturned'
<1>1. /\ bill \in [admitted : Nat, released : Nat, recorded : Nat]
      /\ bill.released + 1 = bill.admitted /\ bill.recorded = bill.released
  BY DEF SummarizerInv, SM!PermitsReturned
<1>2. bill' = [admitted |-> bill.admitted, released |-> bill.released + 1, recorded |-> bill.recorded + 1]
  BY <1>1 DEF SM!Closed
<1> QED
  BY <1>1, <1>2 DEF SM!PermitsReturned

LEMMA CallsEnd ==
    ASSUME SummarizerInv, call.at # "none", SM!Closed,
           \/ /\ call' = SM!NoCall
              /\ \E e \in SM!Errors : job' = SM!CallFailed(job, e)
           \/ /\ call' = SM!NoCall
              /\ job.stream => call.text
              /\ job' = SM!Accepted(job)
           \/ /\ call' = [SM!NoCall EXCEPT !.doubled = TRUE] /\ ~job.stream /\ UNCHANGED job
    PROVE  SummarizerInv'
<1>1. job.at = "asking" /\ job \in SummaryJob /\ call \in ProviderCall /\ Told(job, call) /\ Lineage(job)
  BY DEF SummarizerInv
<1>2. call' \in ProviderCall /\ call'.at = "none" /\ call'.text = FALSE
  BY NoCallTyped DEF ProviderCall
<1>3. job' \in SummaryJob /\ Told(job, call)' /\ Lineage(job)'
  <2>1. CASE call' = SM!NoCall /\ \E e \in SM!Errors : job' = SM!CallFailed(job, e)
    BY <1>1, <2>1, FailedCall
  <2>2. CASE call' = SM!NoCall /\ (job.stream => call.text) /\ job' = SM!Accepted(job)
    BY <1>1, <2>2, AcceptedCall
  <2>3. CASE call' = [SM!NoCall EXCEPT !.doubled = TRUE] /\ ~job.stream /\ UNCHANGED job
    BY <1>1, <2>3 DEF Told, Lineage
  <2> QED
    BY <2>1, <2>2, <2>3
<1> QED
  BY <1>2, <1>3, Ends DEF SummarizerInv

\* A step of the call alone.
LEMMA CallGoesOn ==
    ASSUME SummarizerInv, call.at # "none", UNCHANGED <<job, bill>>,
           call' \in ProviderCall, call'.at = "body", call'.text = call.text
    PROVE  SummarizerInv'
BY DEF SummarizerInv, SM!PermitsReturned, Told, Lineage, Pieces

LEMMA BrokenErrors == SM!Broken \subseteq SM!Errors /\ {"denied", "completion", "length", "application"} \subseteq SM!Errors
BY DEF SM!Broken, SM!Errors

LEMMA SummarizerStep == ASSUME SummarizerInv, [SM!Next]_(SM!vars) PROVE SummarizerInv'
<1>0. job \in SummaryJob /\ call \in ProviderCall
  BY DEF SummarizerInv
<1>1. CASE UNCHANGED SM!vars
  BY <1>1 DEF SM!vars, SummarizerInv, SM!PermitsReturned, Told, Lineage, Pieces
<1>2. ASSUME NEW k \in {"plain", "template", "images", "json"}, NEW s \in BOOLEAN, SM!forArticle(k, s)
      PROVE  SummarizerInv'
  <2>1. job.at = "idle" /\ UNCHANGED <<call, bill>> /\ (k = "json" => ~s)
    BY <1>2 DEF SM!forArticle
  <2>2. call.at = "none" /\ call.text = FALSE
    BY <1>0, <2>1 DEF SummarizerInv, ProviderCall
  <2>3. ASSUME NEW n \in Native, NEW v \in SM!Via,
               job' = [SM!NoJob EXCEPT !.at = "asking", !.kind = k, !.stream = s, !.native = n, !.via = v]
        PROVE  SummarizerInv'
    <3>1. /\ job' = [at |-> "asking", kind |-> k, stream |-> s, native |-> n, half |-> "brief", via |-> v,
                     attempt |-> 0, shown |-> [h \in SM!Half |-> 0], stages |-> << >>,
                     accepted |-> << >>, retried |-> {}]
      BY <2>3 DEF SM!NoJob
    <3>2. job' \in SummaryJob
      <4>1. /\ [h \in SM!Half |-> 0] \in [SM!Half -> Nat] /\ << >> \in Stages /\ "brief" \in SM!Half
            /\ {} \in SUBSET SM!Errors
        BY DEF SM!Half, Stages
      <4> DEFINE none == [h \in SM!Half |-> 0]
      <4> HIDE DEF none
      <4> QED
        BY <3>1, <4>1 DEF SummaryJob, none
    <3>3. Told(job', call) /\ Lineage(job')
      BY <2>1, <2>2, <3>1 DEF Told, Lineage, SM!Half, Pieces
    <3> QED
      BY <2>1, <2>2, <3>1, <3>2, <3>3 DEF SummarizerInv, SM!PermitsReturned
  <2>4. CASE job' = [SM!NoJob EXCEPT !.at = "failed", !.kind = k]
    <3>1. /\ job' = [at |-> "failed", kind |-> k, stream |-> FALSE, native |-> FALSE, half |-> "brief",
                     via |-> "text", attempt |-> 0, shown |-> [h \in SM!Half |-> 0],
                     stages |-> << >>, accepted |-> << >>, retried |-> {}]
      BY <2>4 DEF SM!NoJob
    <3>2. job' \in SummaryJob
      BY <3>1 DEF SummaryJob, SM!Half, SM!Via, Stages
    <3>3. Told(job', call) /\ Lineage(job')
      BY <3>1 DEF Told, Lineage, SM!Half
    <3> QED
      BY <2>1, <2>2, <3>2, <3>3 DEF SummarizerInv, SM!PermitsReturned
  <2> QED
    BY <1>2, <2>3, <2>4 DEF SM!forArticle, SM!Via
<1>3. CASE SM!doAdmitted
  <2>1. job.at = "asking" /\ call.at = "none" /\ call.text = FALSE
    BY <1>0, <1>3 DEF SM!doAdmitted, SummarizerInv, ProviderCall
  <2>2. CASE /\ call' = [call EXCEPT !.at = "sent"] /\ bill' = [bill EXCEPT !.admitted = @ + 1]
             /\ UNCHANGED job
    <3>1. call' \in ProviderCall /\ call'.at = "sent" /\ call'.text = call.text
      BY <1>0, <2>2 DEF ProviderCall
    <3>2. Told(job, call)' /\ Lineage(job)'
      BY <2>2, <3>1 DEF SummarizerInv, Told, Lineage, Pieces
    <3>3. bill' \in [admitted : Nat, released : Nat, recorded : Nat] /\ SM!PermitsReturned'
      BY <2>1, <2>2, <3>1 DEF SummarizerInv, SM!PermitsReturned
    <3> QED
      BY <2>1, <2>2, <3>1, <3>2, <3>3 DEF SummarizerInv
  <2>3. CASE job' = SM!CallFailed(job, "denied") /\ call' = SM!NoCall /\ UNCHANGED bill
    <3>1. job' \in SummaryJob /\ Told(job, call)' /\ Lineage(job)'
      BY <1>0, <2>1, <2>3, FailedCall, BrokenErrors DEF SummarizerInv
    <3> QED
      BY <2>1, <2>3, <3>1, NoCallTyped DEF SummarizerInv, SM!PermitsReturned
  <2> QED
    BY <1>3, <2>2, <2>3 DEF SM!doAdmitted
<1>4. CASE SM!NoImages
  <2>1. /\ job.at = "asking" /\ call.at = "none" /\ call.text = FALSE /\ UNCHANGED <<call, bill>>
        /\ job' = SM!CallFailed(job, "application")
    BY <1>0, <1>4 DEF SM!NoImages, SM!buildVisionMessages, SummarizerInv, ProviderCall
  <2>2. job' \in SummaryJob /\ Told(job', SM!NoCall) /\ Lineage(job')
    BY <1>0, <2>1, FailedCall, BrokenErrors DEF SummarizerInv
  <2>3. Told(job, call)'
    BY <2>1, <2>2, NoCallTyped DEF Told, Pieces
  <2> QED
    BY <2>1, <2>2, <2>3 DEF SummarizerInv, SM!PermitsReturned
<1>5. CASE SM!doCompatible \/ SM!doAnthropic
  <2>1. SM!Requested /\ call.at = "sent"
    BY <1>5 DEF SM!doCompatible, SM!doAnthropic, SM!Requested
  <2>2. CASE \E e \in SM!Broken : job' = SM!CallFailed(job, e) /\ call' = SM!NoCall /\ SM!Closed
    BY <2>1, <2>2, CallsEnd, BrokenErrors
  <2>3. CASE call' = [call EXCEPT !.at = "body"] /\ UNCHANGED <<job, bill>>
    <3>1. call' \in ProviderCall /\ call'.at = "body" /\ call'.text = call.text
      BY <1>0, <2>3 DEF ProviderCall
    <3> QED
      BY <2>1, <2>3, <3>1, CallGoesOn
  <2> QED
    BY <2>1, <2>2, <2>3 DEF SM!Requested
<1>6. CASE SM!doCallOnce
  <2>1. call.at = "body" /\ ~job.stream /\ SM!Closed
    BY <1>6 DEF SM!doCallOnce
  <2>2. \/ job' = SM!Accepted(job) /\ call' = SM!NoCall
        \/ call' = [SM!NoCall EXCEPT !.doubled = TRUE] /\ UNCHANGED job
        \/ job' = SM!CallFailed(job, "length") /\ call' = SM!NoCall
        \/ \E e \in SM!Broken \cup {"completion"} : job' = SM!CallFailed(job, e) /\ call' = SM!NoCall
    BY <1>6 DEF SM!doCallOnce
  <2> QED
    BY <2>1, <2>2, CallsEnd, BrokenErrors
<1>7. CASE SM!Delta
  <2>1. /\ call.at = "body" /\ job.stream /\ call' = [call EXCEPT !.text = TRUE] /\ UNCHANGED bill
        /\ job' = IF call.text THEN job ELSE [job EXCEPT !.shown[job.half] = @ + 1]
    BY <1>7 DEF SM!Delta
  <2>2. call' \in ProviderCall /\ call'.at = "body" /\ call'.text = TRUE
    BY <1>0, <2>1 DEF ProviderCall
  <2>3. job.at = "asking" /\ Told(job, call) /\ Lineage(job) /\ job.half \in SM!Half /\ job.shown \in [SM!Half -> Nat]
    BY <1>0, <2>1 DEF SummarizerInv, SummaryJob
  <2>4. CASE call.text
    BY <2>1, <2>2, <2>3, <2>4 DEF SummarizerInv, SM!PermitsReturned, Told, Pieces
  <2>5. CASE ~call.text
    <3>1. job.shown[job.half] = 0
      BY <2>1, <2>3, <2>5 DEF Told, Pieces
    <3> DEFINE sh == [job.shown EXCEPT ![job.half] = 1]
    <3>2. job' = [job EXCEPT !.shown = sh] /\ sh \in [SM!Half -> Nat] /\ sh[job.half] = 1
          /\ \A h \in SM!Half : h # job.half => sh[h] = job.shown[h]
      BY <2>1, <2>3, <2>5, <3>1
    <3> HIDE DEF sh
    <3>3. /\ job' \in SummaryJob /\ job'.shown = sh /\ job'.at = job.at /\ job'.half = job.half
          /\ job'.stream = job.stream /\ job'.kind = job.kind /\ job'.stages = job.stages
          /\ job'.accepted = job.accepted
      BY <1>0, <3>2 DEF SummaryJob
    <3>4. Told(job, call)'
      BY <2>2, <2>3, <3>1, <3>2, <3>3, <2>1 DEF Told, Pieces, SM!Half
    <3>5. Lineage(job)'
      BY <2>3, <3>3 DEF Lineage
    <3> QED
      BY <2>1, <2>2, <2>3, <3>3, <3>4, <3>5 DEF SummarizerInv, SM!PermitsReturned
  <2> QED
    BY <2>4, <2>5
<1>8. CASE SM!anthropicStream \/ SM!Finish
  <2>1. call.at = "body" /\ UNCHANGED <<job, bill>>
    BY <1>8 DEF SM!anthropicStream, SM!Finish
  <2>2. CASE SM!anthropicStream
    <3>1. \/ call' = [call EXCEPT !.started = TRUE]
          \/ \E f \in {"none", "stop", "other", "done"} : call' = [call EXCEPT !.delta = TRUE, !.finish = f]
          \/ call' = [call EXCEPT !.finish = "done"]
      BY <1>0, <2>2 DEF SM!anthropicStream, ProviderCall
    <3>2. call' \in ProviderCall /\ call'.at = "body" /\ call'.text = call.text
      BY <1>0, <2>1, <3>1 DEF ProviderCall
    <3> QED
      BY <2>1, <3>2, CallGoesOn
  <2>3. CASE SM!Finish
    <3>1. \E f \in {"none", "stop", "other", "done"} : call' = [call EXCEPT !.finish = f]
      BY <1>0, <2>3 DEF SM!Finish, ProviderCall
    <3>2. call' \in ProviderCall /\ call'.at = "body" /\ call'.text = call.text
      BY <1>0, <2>1, <3>1 DEF ProviderCall
    <3> QED
      BY <2>1, <3>2, CallGoesOn
  <2> QED
    BY <1>8, <2>2, <2>3
<1>9. CASE SM!readCompletionStream
  <2>1. call.at = "body" /\ job.stream /\ SM!Closed /\ call' = SM!NoCall
    BY <1>9 DEF SM!readCompletionStream
  <2>2. (call.text /\ job' = SM!Accepted(job)) \/ \E e \in SM!Errors : job' = SM!CallFailed(job, e)
    BY <1>9, BrokenErrors DEF SM!readCompletionStream
  <2> QED
    BY <2>1, <2>2, CallsEnd
<1>10. CASE SM!Pause
  <2>1. job.at = "pausing" /\ UNCHANGED <<call, bill>> /\ call.at = "none" /\ call.text = FALSE /\ ~job.stream
    BY <1>0, <1>10 DEF SM!Pause, SummarizerInv, Told, ProviderCall
  <2>2. PICK a \in {"asking", "failed"} : job' = [job EXCEPT !.at = a]
    BY <1>10 DEF SM!Pause, SM!Failed
  <2>3. /\ job' \in SummaryJob /\ job'.at = a /\ job'.half = job.half /\ job'.shown = job.shown
        /\ job'.stream = job.stream /\ job'.kind = job.kind /\ job'.stages = job.stages
        /\ job'.accepted = job.accepted
    BY <1>0, <2>2 DEF SummaryJob
  <2>4. Told(job, call)' /\ Lineage(job)'
    BY <2>1, <2>2, <2>3 DEF SummarizerInv, Told, Lineage
  <2> QED
    BY <2>1, <2>3, <2>4 DEF SummarizerInv, SM!PermitsReturned
<1> QED
  BY <1>1, <1>2, <1>3, <1>4, <1>5, <1>6, <1>7, <1>8, <1>9, <1>10 DEF SM!Next

\* What a reader saw stream in is what is kept; the record names the requests its
\* halves came from, whatever mix of images, text and attempts they were; and a
\* permit is held by a running call alone, each billed once.  ai/summarizer.go,
\* ai/admission.go, aiusage/usage.go.
THEOREM SummaryHonestAlways == SM!Spec => []SM!SummaryHonest
<1>1. SM!Spec => []SummarizerInv
  BY SummarizerInit, SummarizerStep, PTL DEF SM!Spec
<1>2. SummarizerInv => SM!SummaryHonest
  BY DEF SummarizerInv, SM!SummaryHonest, SM!KeptAsShown, SM!LineageExact, Told, Lineage, SM!Half
<1> QED
  BY <1>1, <1>2, PTL

-----------------------------------------------------------------------------
(* EnglishLife: a request for a job is sent by a process that noted it first,*)
(* and once noted it is not sent again unless the provider refused it.      *)

CONSTANTS Process, Account, Video, Document, NoAccount, Soon, Cool, PairTime,
          MaxTime, MaxLogin, MaxRenewal, MaxFaults, Quota
VARIABLES now, conn, pair, proc, session, remote, left, posts, faults

EL == INSTANCE EnglishLife

Replies == {"none", "expired", "unavailable", "quota_exhausted"}
Asking == {"looking", "submitting", "posted", "document"}
Working == Asking \cup {"closing", "checking"}
Unasked == {"none", "new"}
Texts == {<< >>} \cup {EL!Markdown(d) : d \in Document}

Conn == [account : Account \cup {NoAccount}, session : Nat, cookie : Nat, state : EL!States, at : Nat]
Integration == [status : EL!Statuses, remote : Nat, next : Nat, text : Texts]
Proc == [at : Working \cup {"idle", "pairing"}, video : Video \cup {""}, conn : Conn, job : Integration,
         reply : Replies \cup {"made"}, made : Nat]
Remote == [account : Account, video : Video, status : {"working", "ready", "failed"}]

Typed ==
    /\ now \in Nat /\ faults \in Nat /\ conn \in Conn /\ proc \in [Process -> Proc]
    /\ job \in [Account \X Video -> Integration]
    /\ session \in Seq([account : Account, cookie : Nat]) /\ remote \in Seq(Remote)
    /\ posts \subseteq [by : Process, conn : Conn, video : Video]

Exclusive == \A p, q \in Process : proc[p].at # "idle" /\ proc[q].at # "idle" => p = q

\* Nothing was made or is on its way for this account and video.
Unsent(a, v) ==
    /\ \A m \in posts : ~(m.conn.account = a /\ m.video = v)
    /\ \A i \in DOMAIN remote : ~(remote[i].account = a /\ remote[i].video = v)

\* Everything sent was noted, and sent once.
SentOnce ==
    /\ \A a \in Account, v \in Video : job[<<a, v>>].status \in Unasked => Unsent(a, v) /\ job[<<a, v>>].remote = 0
    /\ \A m \in posts : m.conn.account \in Account
    /\ \A m, n \in posts : m.conn.account = n.conn.account /\ m.video = n.video => m = n
    /\ \A m \in posts, i \in DOMAIN remote :
         ~(m.conn.account = remote[i].account /\ m.video = remote[i].video)
    /\ \A i, k \in DOMAIN remote :
         remote[i].account = remote[k].account /\ remote[i].video = remote[k].video => i = k

\* What the process at work knows.
Knows(p) ==
    /\ proc[p].at \in Working =>
         /\ proc[p].conn.account \in Account /\ conn.account \in Account
         /\ proc[p].conn.session = conn.session
    /\ proc[p].at \in Asking => proc[p].video \in Video
    /\ proc[p].at = "pairing" => proc[p].conn.account \in Account /\ proc[p].conn.session \in DOMAIN session
    /\ proc[p].at = "looking" =>
         /\ proc[p].reply = "none"
         /\ proc[p].job.status \in Unasked =>
              job[<<proc[p].conn.account, proc[p].video>>].status \in Unasked
    /\ proc[p].at = "submitting" => proc[p].reply = "none" /\ Unsent(proc[p].conn.account, proc[p].video)
    /\ proc[p].at \in {"submitting", "posted"} =>
         job[<<proc[p].conn.account, proc[p].video>>].status \notin Unasked
    /\ proc[p].at \in {"submitting", "posted", "document"} => proc[p].job.status \notin Unasked
    /\ proc[p].at \in {"looking", "submitting", "posted"} => proc[p].job.remote = 0
    /\ proc[p].at = "posted" /\ proc[p].reply \in {"expired", "quota_exhausted"} =>
         Unsent(proc[p].conn.account, proc[p].video)

\* The newest cookie is with whoever is at work, and else with the connection.
Newest(c) == c.cookie = session[c.session].cookie
Connected ==
    /\ conn.account \in Account => conn.session \in DOMAIN session
    /\ conn.account \notin Account => conn = EL!NoConn
    /\ faults = 0 =>
         /\ \A p \in Process : proc[p].at \in Working \cup {"pairing"} => Newest(proc[p].conn)
         /\ conn.account \in Account /\ (\A p \in Process : proc[p].at \notin Working) => Newest(conn)

EnglishLifeInv == Typed /\ Exclusive /\ SentOnce /\ (\A p \in Process : Knows(p)) /\ Connected

LEMMA IdleTyped ==
    ASSUME EL!EnglishLifeAssumption
    PROVE  /\ EL!NoConn \in Conn /\ EL!NoConn.account \notin Account
           /\ EL!NoJob \in Integration /\ EL!NoJob.remote = 0
           /\ EL!Idle \in Proc /\ EL!Idle.at = "idle" /\ EL!Idle.reply = "none"
<1>1. EL!NoConn \in Conn /\ EL!NoConn.account \notin Account
  BY DEF EL!NoConn, Conn, EL!States, EL!EnglishLifeAssumption
<1>2. EL!NoJob \in Integration /\ EL!NoJob.remote = 0
  BY DEF EL!NoJob, Integration, EL!Statuses, Texts
<1>3. EL!Idle \in Proc /\ EL!Idle.at = "idle" /\ EL!Idle.reply = "none"
  BY <1>1, <1>2 DEF EL!Idle, Proc, Replies
<1> QED
  BY <1>1, <1>2, <1>3

LEMMA EnglishLifeInit == ASSUME EL!EnglishLifeAssumption PROVE EL!Init => EnglishLifeInv
<1> SUFFICES ASSUME EL!Init PROVE EnglishLifeInv
  OBVIOUS
<1>1. EL!NoConn \in Conn /\ EL!NoConn.account \notin Account
  BY IdleTyped
<1>2. EL!NoJob \in Integration /\ EL!NoJob.remote = 0
  BY IdleTyped
<1>3. EL!Idle \in Proc /\ EL!Idle.at = "idle"
  BY IdleTyped
<1>4. \A p \in Process : proc[p] = EL!Idle /\ proc[p].at = "idle"
  BY <1>3 DEF EL!Init
<1>5. Typed
  BY <1>1, <1>2, <1>3 DEF EL!Init, Typed
<1>6. Exclusive /\ SentOnce /\ \A p \in Process : Knows(p)
  <2>1. \A a \in Account, v \in Video : job[<<a, v>>].remote = 0
    BY <1>2 DEF EL!Init
  <2> QED
    BY <1>4, <2>1 DEF EL!Init, Exclusive, SentOnce, Unsent, Knows, Asking, Working
<1>7. Connected
  BY <1>1, <1>4 DEF EL!Init, Connected, Working, Asking
<1> QED
  BY <1>5, <1>6, <1>7 DEF EnglishLifeInv

\* One process works at a time.
LEMMA Turns ==
    ASSUME EnglishLifeInv, NEW p \in Process, NEW r \in Proc, proc' = [proc EXCEPT ![p] = r],
           EL!Lock \/ proc[p].at # "idle"
    PROVE  /\ proc' \in [Process -> Proc] /\ proc'[p] = r /\ Exclusive'
           /\ \A q \in Process : q # p => proc'[q] = proc[q] /\ proc'[q].at = "idle"
           /\ \A q \in Process : q # p => Knows(q)'
<1>1. /\ proc' \in [Process -> Proc] /\ proc'[p] = r
      /\ \A q \in Process : q # p => proc'[q] = proc[q] /\ proc'[q].at = "idle"
  BY DEF EnglishLifeInv, Typed, Exclusive, EL!Lock
<1>2. Exclusive'
  BY <1>1 DEF Exclusive
<1>3. \A q \in Process : q # p => Knows(q)'
  BY <1>1 DEF Knows, Asking, Working
<1> QED
  BY <1>1, <1>2, <1>3

LEMMA Answers ==
    ASSUME EnglishLifeInv, NEW c \in Conn, c.session \in DOMAIN session, NEW r \in EL!request(c),
           session' = EL!rememberCookies(c, r)
    PROVE  /\ r.err \in Replies /\ r.cookie \in Nat /\ EL!Auth(c, r) \in Conn
           /\ EL!Auth(c, r).account = c.account /\ EL!Auth(c, r).session = c.session
           /\ session' \in Seq([account : Account, cookie : Nat]) /\ DOMAIN session' = DOMAIN session
           /\ Newest(c) => session'[c.session].cookie = EL!Auth(c, r).cookie
<1>1. session \in Seq([account : Account, cookie : Nat]) /\ c.cookie \in Nat
  BY DEF EnglishLifeInv, Typed, Conn
<1>2. r.err \in Replies /\ r.cookie \in Nat /\ (r.err # "none" => r.cookie = c.cookie)
  BY <1>1 DEF EL!request, Replies
<1>3. /\ EL!Auth(c, r) \in Conn /\ EL!Auth(c, r).cookie = r.cookie
      /\ EL!Auth(c, r).account = c.account /\ EL!Auth(c, r).session = c.session
  BY <1>2 DEF EL!Auth, Conn
<1> DEFINE k == IF r.err = "none" THEN r.cookie ELSE session[c.session].cookie
<1>4. session[c.session] \in [account : Account, cookie : Nat]
  BY <1>1, ElementOfSeq, c.session \in 1 .. Len(session)
<1>5. session' = [session EXCEPT ![c.session] = [session[c.session] EXCEPT !.cookie = k]]
  BY <1>1 DEF EL!rememberCookies
<1>6. /\ [session[c.session] EXCEPT !.cookie = k] \in [account : Account, cookie : Nat]
      /\ [session[c.session] EXCEPT !.cookie = k].cookie = k
  BY <1>2, <1>4
<1>7. /\ session' \in Seq([account : Account, cookie : Nat]) /\ DOMAIN session' = DOMAIN session
      /\ session'[c.session].cookie = k
  BY <1>1, <1>5, <1>6
<1>8. Newest(c) => k = EL!Auth(c, r).cookie
  BY <1>2, <1>3 DEF Newest
<1> QED
  BY <1>2, <1>3, <1>7, <1>8

\* A job is written by whoever holds the lock, and never back to one not asked for,
\* unless nothing was sent for it.
LEMMA Noted ==
    ASSUME EnglishLifeInv, NEW a \in Account, NEW v \in Video, NEW j \in Integration,
           job' = [job EXCEPT ![<<a, v>>] = j], UNCHANGED <<posts, remote>>,
           j.status \in Unasked => Unsent(a, v) /\ j.remote = 0
    PROVE  /\ SentOnce' /\ job' \in [Account \X Video -> Integration] /\ job'[<<a, v>>] = j
           /\ \A b \in Account, w \in Video : Unsent(b, w)' <=> Unsent(b, w)
<1>1. /\ job' \in [Account \X Video -> Integration] /\ job'[<<a, v>>] = j
      /\ \A b \in Account, w \in Video : <<b, w>> # <<a, v>> => job'[<<b, w>>] = job[<<b, w>>]
  BY DEF EnglishLifeInv, Typed
<1>2. \A b \in Account, w \in Video : Unsent(b, w)' <=> Unsent(b, w)
  BY DEF Unsent
<1>3. ASSUME NEW b \in Account, NEW w \in Video, job'[<<b, w>>].status \in Unasked
      PROVE  Unsent(b, w) /\ job'[<<b, w>>].remote = 0
  BY <1>1, <1>3 DEF EnglishLifeInv, SentOnce
<1> QED
  BY <1>1, <1>2, <1>3 DEF EnglishLifeInv, SentOnce

LEMMA SameSent ==
    ASSUME EnglishLifeInv, UNCHANGED <<posts, job>>, DOMAIN remote' = DOMAIN remote,
           \A i \in DOMAIN remote : /\ remote'[i].account = remote[i].account
                                  /\ remote'[i].video = remote[i].video
    PROVE  /\ SentOnce'
           /\ \A a \in Account, v \in Video : Unsent(a, v)' <=> Unsent(a, v)
<1>1. \A a \in Account, v \in Video : Unsent(a, v)' <=> Unsent(a, v)
  BY DEF Unsent
<1> QED
  BY <1>1 DEF EnglishLifeInv, SentOnce

\* What keeps Connected: the cookie is passed from hand to hand.
Renewed(c) == session'[c.session].cookie = c.cookie

LEMMA Passed ==
    ASSUME EnglishLifeInv, NEW p \in Process, NEW r \in Proc, proc' = [proc EXCEPT ![p] = r],
           EL!Lock \/ proc[p].at # "idle", faults' = faults,
           conn'.account \in Account => conn'.session \in DOMAIN session',
           conn'.account \notin Account => conn' = EL!NoConn,
           r.at \in Working \cup {"pairing"} /\ faults = 0 => Renewed(r.conn),
           r.at \notin Working /\ conn'.account \in Account /\ faults = 0 => Renewed(conn')
    PROVE  Connected'
<1>1. proc'[p] = r /\ \A q \in Process : q # p => proc'[q].at = "idle"
  BY Turns
<1> QED
  BY <1>1 DEF Connected, Working, Asking, Newest, Renewed

LEMMA Paused ==
    ASSUME EnglishLifeInv, NEW err \in Replies, conn.account \in Account
    PROVE  /\ EL!Saved(conn, err) \in Conn /\ EL!Saved(conn, err).account = conn.account
           /\ EL!Saved(conn, err).session = conn.session /\ EL!Saved(conn, err).cookie = conn.cookie
<1>1. conn \in Conn /\ now \in Nat
  BY DEF EnglishLifeInv, Typed
<1>2. EL!connectionState(err) \in EL!States
  BY DEF EL!connectionState, Replies, EL!States
<1> QED
  BY <1>1, <1>2 DEF EL!Saved, Conn

LEMMA FetchStep ==
    ASSUME EL!EnglishLifeAssumption, EnglishLifeInv, NEW p \in Process, NEW v \in Video, EL!Fetch(p, v)
    PROVE  EnglishLifeInv'
<1> DEFINE j == job[<<conn.account, v>>]
<1>1. /\ EL!Lock /\ conn # EL!NoConn /\ conn.account \in Account /\ conn.session \in DOMAIN session
      /\ UNCHANGED <<now, pair, job, remote, left, posts, faults>>
  BY DEF EL!Fetch, EnglishLifeInv, Connected
<1>2. PICK r \in EL!request(conn) :
        LET c == EL!Auth(conn, r)
            me == [EL!Idle EXCEPT !.video = v, !.conn = c,
                     !.job = IF j = EL!NoJob THEN [EL!NoJob EXCEPT !.status = "new"] ELSE j]
            err == IF conn.state = "unavailable" THEN EL!RemoteQuota(c.account) ELSE "none"
        IN  /\ session' = EL!rememberCookies(conn, r)
            /\ IF r.err # "none" THEN EL!pause(p, me, r.err)
               ELSE /\ conn' = [conn EXCEPT !.at = now,
                                  !.state = IF @ = "unavailable" THEN EL!connectionState(err) ELSE @]
                    /\ EL!Step(p, [me EXCEPT !.at = IF j.remote = 0 THEN "looking" ELSE "document"])
  BY DEF EL!Fetch
<1> DEFINE c == EL!Auth(conn, r)
           mine == IF j = EL!NoJob THEN [EL!NoJob EXCEPT !.status = "new"] ELSE j
           me == [EL!Idle EXCEPT !.video = v, !.conn = c, !.job = mine]
           err == IF conn.state = "unavailable" THEN EL!RemoteQuota(c.account) ELSE "none"
<1>3. /\ conn \in Conn /\ job \in [Account \X Video -> Integration] /\ now \in Nat /\ proc \in [Process -> Proc]
      /\ remote \in Seq(Remote) /\ posts \subseteq [by : Process, conn : Conn, video : Video] /\ faults \in Nat
  BY DEF EnglishLifeInv, Typed
<1>4. /\ r.err \in Replies /\ c \in Conn /\ c.account = conn.account /\ c.session = conn.session
      /\ session' \in Seq([account : Account, cookie : Nat]) /\ DOMAIN session' = DOMAIN session
      /\ Newest(conn) => session'[c.session].cookie = c.cookie
  BY <1>1, <1>2, <1>3, Answers
<1>5. j \in Integration /\ mine \in Integration /\ (mine.status \in Unasked => j.status \in Unasked) /\ mine.remote = j.remote
  BY <1>1, <1>3 DEF EL!NoJob, Integration, Unasked, EL!Statuses
<1> HIDE DEF c, mine
<1>15. EL!Idle \in Proc /\ EL!Idle.reply = "none"
  BY IdleTyped
<1>16. me \in Proc /\ me.video = v /\ me.conn = c /\ me.job = mine /\ me.reply = "none"
  BY <1>4, <1>5, <1>15 DEF Proc
<1> HIDE DEF me
<1>7. ASSUME NEW s \in Working
      PROVE  /\ [me EXCEPT !.at = s] \in Proc /\ [me EXCEPT !.at = s].at = s
             /\ [me EXCEPT !.at = s].conn = c /\ [me EXCEPT !.at = s].video = v
             /\ [me EXCEPT !.at = s].job = mine /\ [me EXCEPT !.at = s].reply = "none"
  BY <1>16 DEF Proc
<1>8. PICK s \in {"looking", "document", "closing"} :
        /\ proc' = [proc EXCEPT ![p] = [me EXCEPT !.at = s]]
        /\ (s = "document" => j.remote # 0) /\ (s = "looking" => j.remote = 0)
        /\ conn' \in Conn /\ conn'.account = conn.account /\ conn'.session = conn.session
  <2>1. CASE r.err # "none"
    BY <1>1, <1>2, <1>4, <2>1, Paused DEF EL!pause, EL!Step, c, mine, me
  <2>2. CASE r.err = "none"
    <3>1. EL!connectionState(err) \in EL!States /\ conn.state \in EL!States
      BY <1>3 DEF EL!connectionState, EL!RemoteQuota, EL!States, Conn
    <3>2. /\ conn' = [conn EXCEPT !.at = now,
                        !.state = IF conn.state = "unavailable" THEN EL!connectionState(err) ELSE conn.state]
          /\ EL!Step(p, [me EXCEPT !.at = IF j.remote = 0 THEN "looking" ELSE "document"])
      BY <1>2, <2>2 DEF c, mine, me
    <3>3. conn' \in Conn /\ conn'.account = conn.account /\ conn'.session = conn.session
      BY <1>3, <3>1, <3>2 DEF Conn
    <3> QED
      BY <3>2, <3>3 DEF EL!Step
  <2> QED
    BY <2>1, <2>2
<1> DEFINE you == [me EXCEPT !.at = s]
<1>9. you \in Proc /\ you.at = s /\ you.conn = c /\ you.video = v /\ you.job = mine /\ you.reply = "none"
  BY <1>7 DEF Working, Asking
<1>10. /\ proc' \in [Process -> Proc] /\ proc'[p] = you /\ Exclusive'
       /\ \A q \in Process : q # p => Knows(q)'
  BY <1>1, <1>8, <1>9, Turns
<1>11. SentOnce' /\ \A a \in Account, w \in Video : Unsent(a, w)' <=> Unsent(a, w)
  BY <1>1, SameSent
<1>12. Typed'
  BY <1>1, <1>3, <1>4, <1>8, <1>10 DEF Typed
<1>13. Knows(p)'
  <2>1. j.status \in Unasked => j.remote = 0
    BY <1>1 DEF EnglishLifeInv, SentOnce
  <2> QED
    BY <1>1, <1>4, <1>5, <1>8, <1>9, <1>10, <2>1 DEF Knows, Working, Asking
<1>14. Connected'
  <2>1. faults = 0 => Newest(conn)
    BY <1>1 DEF EnglishLifeInv, Connected, EL!Lock, Working, Asking
  <2>2. faults = 0 => Renewed(you.conn)
    BY <1>4, <1>9, <2>1 DEF Renewed
  <2>3. you.at \in Working
    BY <1>9 DEF Working, Asking
  <2> QED
    BY <1>1, <1>4, <1>8, <1>9, <2>2, <2>3, Passed
<1> QED
  BY <1>10, <1>11, <1>12, <1>13, <1>14 DEF EnglishLifeInv

\* The lock's holder goes on: what is left to show of the step.
LEMMA Works ==
    ASSUME EnglishLifeInv, NEW p \in Process, NEW r \in Proc, proc' = [proc EXCEPT ![p] = r],
           EL!Lock \/ proc[p].at # "idle", UNCHANGED <<now, faults>>,
           remote' \in Seq(Remote), posts' \subseteq [by : Process, conn : Conn, video : Video],
           job' \in [Account \X Video -> Integration], SentOnce',
           session' \in Seq([account : Account, cookie : Nat]), DOMAIN session' = DOMAIN session,
           conn.account \in Account, conn' \in Conn,
           conn'.account = conn.account, conn'.session = conn.session,
           Knows(p)',
           r.at \in Working \cup {"pairing"} /\ faults = 0 => Renewed(r.conn),
           r.at \notin Working /\ faults = 0 => Renewed(conn')
    PROVE  EnglishLifeInv'
<1>1. /\ proc' \in [Process -> Proc] /\ Exclusive' /\ \A q \in Process : q # p => Knows(q)'
  BY Turns
<1>2. Typed'
  BY <1>1 DEF EnglishLifeInv, Typed
<1>3. conn.session \in DOMAIN session
  BY DEF EnglishLifeInv, Connected
<1>4. Connected'
  BY <1>3, Passed
<1> QED
  BY <1>1, <1>2, <1>4 DEF EnglishLifeInv

\* What the holder of the lock has, before it asks the provider again.
LEMMA Holder ==
    ASSUME EnglishLifeInv, NEW p \in Process, proc[p].at \in Working
    PROVE  /\ proc[p] \in Proc /\ proc[p].at # "idle" /\ proc[p].conn \in Conn /\ proc[p].job \in Integration
           /\ proc[p].conn.account \in Account /\ conn.account \in Account /\ conn \in Conn
           /\ proc[p].conn.session = conn.session /\ conn.session \in DOMAIN session
           /\ faults = 0 => Newest(proc[p].conn)
           /\ now \in Nat /\ job \in [Account \X Video -> Integration] /\ remote \in Seq(Remote)
           /\ session \in Seq([account : Account, cookie : Nat])
           /\ posts \subseteq [by : Process, conn : Conn, video : Video]
           /\ proc[p].at \in Asking => proc[p].video \in Video
<1>1. proc[p] \in Proc
  BY DEF EnglishLifeInv, Typed
<1> QED
  BY <1>1 DEF EnglishLifeInv, Typed, Knows, Connected, Proc, Working, Asking

LEMMA LookStep ==
    ASSUME EL!EnglishLifeAssumption, EnglishLifeInv, NEW p \in Process, EL!Look(p)
    PROVE  EnglishLifeInv'
<1> DEFINE me == proc[p]
           a == me.conn.account
           v == me.video
<1>1. /\ me.at = "looking" /\ me.at \in Working /\ UNCHANGED <<now, pair, remote, left, posts, faults>>
  BY DEF EL!Look, Working, Asking
<1>2. /\ me \in Proc /\ me.at # "idle" /\ me.conn \in Conn /\ me.job \in Integration
      /\ a \in Account /\ v \in Video /\ conn.account \in Account /\ conn \in Conn
      /\ me.conn.session = conn.session /\ conn.session \in DOMAIN session
      /\ faults = 0 => Newest(me.conn)
      /\ now \in Nat /\ job \in [Account \X Video -> Integration] /\ remote \in Seq(Remote)
      /\ posts \subseteq [by : Process, conn : Conn, video : Video]
  BY <1>1, Holder DEF Asking
<1>3. /\ me.reply = "none" /\ me.job.remote = 0 /\ (me.job.status \in Unasked => job[<<a, v>>].status \in Unasked)
      /\ \A i \in EL!Listed(a, v) : i \in Nat /\ job[<<a, v>>].status \notin Unasked
  <2>1. Knows(p) /\ SentOnce
    BY DEF EnglishLifeInv
  <2>2. \A i \in EL!Listed(a, v) : i \in DOMAIN remote /\ ~Unsent(a, v)
    BY DEF EL!Listed, Unsent
  <2>3. \A i \in DOMAIN remote : i \in Nat
    BY <1>2
  <2> QED
    BY <1>1, <1>2, <2>1, <2>2, <2>3 DEF Knows, SentOnce
<1>4. PICK r \in EL!request(me.conn) :
        LET you == [me EXCEPT !.conn = EL!Auth(@, r)] IN
        /\ session' = EL!rememberCookies(me.conn, r)
        /\ \/ r.err # "none" /\ EL!pause(p, you, r.err) /\ UNCHANGED job
           \/ /\ r.err = "none" /\ UNCHANGED <<conn, job>>
              /\ \E i \in EL!Listed(a, v) :
                   EL!Step(p, [you EXCEPT !.at = "document", !.job.remote = i, !.job.status = "pending"])
           \/ /\ r.err = "none" /\ EL!Listed(a, v) = {} /\ me.job.status # "new"
              /\ EL!saveJob(p, [me.job EXCEPT !.status = "needs_attention", !.next = now + Cool])
              /\ EL!Step(p, [you EXCEPT !.at = "closing"]) /\ UNCHANGED conn
           \/ /\ r.err = "none" /\ EL!Listed(a, v) = {} /\ me.job.status = "new"
              /\ IF conn.state = "quota_exhausted" \/ left[a] = 0
                 THEN EL!pause(p, you, "quota_exhausted") /\ UNCHANGED job
                 ELSE LET j == [me.job EXCEPT !.status = "submitting", !.next = now + Soon] IN
                      /\ conn' = EL!Saved(conn, "none") /\ EL!saveJob(p, j)
                      /\ EL!Step(p, [you EXCEPT !.at = "submitting", !.job = j])
  BY DEF EL!Look
<1> DEFINE c == EL!Auth(me.conn, r)
           you == [me EXCEPT !.conn = c]
<1>5. /\ r.err \in Replies /\ c \in Conn /\ c.account = a /\ c.session = conn.session
      /\ session' \in Seq([account : Account, cookie : Nat]) /\ DOMAIN session' = DOMAIN session
      /\ faults = 0 => session'[c.session].cookie = c.cookie
  BY <1>2, <1>4, Answers
<1> HIDE DEF c
<1>6. you \in Proc /\ you.conn = c /\ you.video = v /\ you.job = me.job /\ you.reply = "none"
  BY <1>2, <1>3, <1>5 DEF Proc
<1>7. ASSUME NEW y \in Proc, y.conn = c, y.at \in Working, proc' = [proc EXCEPT ![p] = y],
             job' \in [Account \X Video -> Integration], SentOnce',
             conn' \in Conn, conn'.account = conn.account, conn'.session = conn.session, Knows(p)'
      PROVE  EnglishLifeInv'
  <2>1. faults = 0 => Renewed(y.conn)
    BY <1>5, <1>7 DEF Renewed
  <2> QED
    BY <1>1, <1>2, <1>5, <1>7, <2>1, Works
<1>8. \A e \in Replies : /\ EL!Saved(conn, e) \in Conn /\ EL!Saved(conn, e).account = conn.account
                         /\ EL!Saved(conn, e).session = conn.session
  BY <1>2, Paused
<1>9. [you EXCEPT !.at = "closing"] \in Proc /\ [you EXCEPT !.at = "closing"].conn = c
      /\ [you EXCEPT !.at = "closing"].at = "closing"
  BY <1>6 DEF Proc, Working
<1>10. job' = job => SentOnce'
  BY <1>1, SameSent
<1>11. ASSUME proc' = [proc EXCEPT ![p] = [you EXCEPT !.at = "closing"]], conn'.account = conn.account,
              conn'.session = conn.session
       PROVE  Knows(p)'
  <2>1. proc'[p] = [you EXCEPT !.at = "closing"]
    BY <1>2, <1>9, <1>11, Turns
  <2> QED
    BY <1>2, <1>5, <1>9, <1>11, <2>1 DEF Knows, Working, Asking
<1>12. CASE (\E e \in Replies : EL!pause(p, you, e)) /\ UNCHANGED job
  BY <1>2, <1>7, <1>8, <1>9, <1>10, <1>11, <1>12 DEF EL!pause, EL!Step, Working
<1>13. CASE /\ UNCHANGED <<conn, job>>
            /\ \E i \in EL!Listed(a, v) :
                 EL!Step(p, [you EXCEPT !.at = "document", !.job.remote = i, !.job.status = "pending"])
  <2>1. PICK i \in EL!Listed(a, v) :
          proc' = [proc EXCEPT ![p] = [you EXCEPT !.at = "document", !.job.remote = i, !.job.status = "pending"]]
    BY <1>13 DEF EL!Step
  <2> DEFINE y == [you EXCEPT !.at = "document", !.job.remote = i, !.job.status = "pending"]
  <2>2. i \in Nat
    BY <1>3
  <2>3. y \in Proc /\ y.conn = c /\ y.at = "document" /\ y.video = v /\ y.job.status = "pending"
    BY <1>2, <1>6, <2>2 DEF Proc, Integration, EL!Statuses, Working, Asking
  <2> HIDE DEF y
  <2>4. proc'[p] = y
    BY <1>2, <2>1, <2>3, Turns DEF y
  <2>5. Knows(p)'
    BY <1>2, <1>5, <1>13, <2>3, <2>4 DEF Knows, Working, Asking, Unasked
  <2> QED
    BY <1>2, <1>7, <1>10, <1>13, <2>1, <2>3, <2>5 DEF Working, Asking, y
<1>14. CASE /\ me.job.status # "new" /\ UNCHANGED conn
            /\ EL!saveJob(p, [me.job EXCEPT !.status = "needs_attention", !.next = now + Cool])
            /\ EL!Step(p, [you EXCEPT !.at = "closing"])
  <2> DEFINE j == [me.job EXCEPT !.status = "needs_attention", !.next = now + Cool]
  <2>3. now + Cool \in Nat
    BY <1>2 DEF EL!EnglishLifeAssumption
  <2>1. j \in Integration /\ j.status \notin Unasked
    BY <1>2, <2>3 DEF Integration, EL!Statuses, Unasked
  <2>2. job' \in [Account \X Video -> Integration] /\ SentOnce'
    BY <1>1, <1>2, <1>14, <2>1, Noted DEF EL!saveJob
  <2> QED
    BY <1>2, <1>7, <1>9, <1>11, <1>14, <2>2 DEF EL!Step, Working
<1>15. CASE /\ me.job.status = "new" /\ conn' = EL!Saved(conn, "none")
            /\ EL!saveJob(p, [me.job EXCEPT !.status = "submitting", !.next = now + Soon])
            /\ EL!Step(p, [you EXCEPT !.at = "submitting",
                             !.job = [me.job EXCEPT !.status = "submitting", !.next = now + Soon]])
  <2> DEFINE j == [me.job EXCEPT !.status = "submitting", !.next = now + Soon]
             y == [you EXCEPT !.at = "submitting", !.job = j]
  <2>8. now + Soon \in Nat
    BY <1>2 DEF EL!EnglishLifeAssumption
  <2>1. j \in Integration /\ j.status \notin Unasked /\ j.remote = 0
    BY <1>2, <1>3, <2>8 DEF Integration, EL!Statuses, Unasked
  <2>2. /\ job' \in [Account \X Video -> Integration] /\ SentOnce' /\ job'[<<a, v>>] = j
        /\ \A b \in Account, w \in Video : Unsent(b, w)' <=> Unsent(b, w)
    BY <1>1, <1>2, <1>15, <2>1, Noted DEF EL!saveJob
  <2> HIDE DEF j
  <2>3. y \in Proc /\ y.conn = c /\ y.at = "submitting" /\ y.video = v /\ y.job = j /\ y.reply = "none"
    BY <1>6, <2>1 DEF Proc, Working, Asking
  <2> HIDE DEF y
  <2>4. proc'[p] = y /\ proc' = [proc EXCEPT ![p] = y]
    BY <1>2, <1>15, <2>3, Turns DEF y, j, EL!Step
  <2>5. Unsent(a, v)
    BY <1>2, <1>3, <1>15 DEF EnglishLifeInv, SentOnce, Unasked
  <2>6. conn' \in Conn /\ conn'.account = conn.account /\ conn'.session = conn.session
    BY <1>8, <1>15 DEF Replies
  <2>7. Knows(p)'
    BY <1>2, <1>5, <2>1, <2>2, <2>3, <2>4, <2>5, <2>6 DEF Knows, Working, Asking
  <2> QED
    BY <1>7, <2>2, <2>3, <2>4, <2>6, <2>7 DEF Working, Asking
<1> QED
  BY <1>4, <1>5, <1>12, <1>13, <1>14, <1>15 DEF c, Replies

\* A request joins those on their way: the first and only one.
LEMMA SubmitStep ==
    ASSUME EL!EnglishLifeAssumption, EnglishLifeInv, NEW p \in Process, EL!Submit(p)
    PROVE  EnglishLifeInv'
<1> DEFINE me == proc[p]
           a == me.conn.account
           v == me.video
           m == [by |-> p, conn |-> me.conn, video |-> v]
           y == [me EXCEPT !.at = "posted"]
<1>1. /\ me.at = "submitting" /\ me.at \in Working /\ me.at \in Asking
      /\ UNCHANGED <<now, conn, pair, job, session, remote, left, faults>>
      /\ posts' = posts \cup {m} /\ proc' = [proc EXCEPT ![p] = y]
  BY DEF EL!Submit, EL!Step, Working, Asking
<1>2. /\ me \in Proc /\ me.at # "idle" /\ me.conn \in Conn
      /\ a \in Account /\ v \in Video /\ conn.account \in Account /\ conn \in Conn
      /\ me.conn.session = conn.session /\ conn.session \in DOMAIN session
      /\ faults = 0 => Newest(me.conn)
      /\ job \in [Account \X Video -> Integration] /\ remote \in Seq(Remote)
      /\ session \in Seq([account : Account, cookie : Nat])
      /\ posts \subseteq [by : Process, conn : Conn, video : Video]
  BY <1>1, Holder
<1>3. /\ me.reply = "none" /\ Unsent(a, v) /\ job[<<a, v>>].status \notin Unasked
      /\ me.job.status \notin Unasked /\ me.job.remote = 0
  BY <1>1 DEF EnglishLifeInv, Knows
<1>4. y \in Proc /\ y.at = "posted" /\ y.conn = me.conn /\ y.video = v /\ y.job = me.job /\ y.reply = "none"
  BY <1>2, <1>3 DEF Proc, Working, Asking
<1>5. m \in [by : Process, conn : Conn, video : Video] /\ m.conn = me.conn /\ m.video = v
  BY <1>2
<1> HIDE DEF m, y
<1>6. SentOnce'
  <2>1. \A b \in Account, w \in Video : <<b, w>> # <<a, v>> /\ Unsent(b, w) => Unsent(b, w)'
    BY <1>1, <1>5 DEF Unsent
  <2>2. \A b \in Account, w \in Video :
          job'[<<b, w>>].status \in Unasked => Unsent(b, w)' /\ job'[<<b, w>>].remote = 0
    BY <1>1, <1>2, <1>3, <2>1 DEF EnglishLifeInv, SentOnce
  <2>3. \A n \in posts : ~(n.conn.account = m.conn.account /\ n.video = m.video)
    BY <1>3, <1>5 DEF Unsent
  <2>4. \A i \in DOMAIN remote : ~(m.conn.account = remote[i].account /\ m.video = remote[i].video)
    BY <1>3, <1>5 DEF Unsent
  <2>5. m.conn.account \in Account
    BY <1>2, <1>5
  <2> QED
    BY <1>1, <2>2, <2>3, <2>4, <2>5 DEF EnglishLifeInv, SentOnce
<1>7. proc'[p] = y
  BY <1>1, <1>2, <1>4, Turns
<1>8. Knows(p)'
  BY <1>1, <1>2, <1>3, <1>4, <1>7 DEF Knows, Working, Asking
<1>9. faults = 0 => Renewed(y.conn)
  BY <1>1, <1>2, <1>4 DEF Newest, Renewed
<1>10. y.at \in Working /\ posts' \subseteq [by : Process, conn : Conn, video : Video]
  BY <1>1, <1>2, <1>4, <1>5 DEF Working, Asking
<1> QED
  BY <1>1, <1>2, <1>4, <1>6, <1>8, <1>9, <1>10, Works

\* An answer, or none.  A refusal leaves nothing behind at the provider.
LEMMA SubmittedStep ==
    ASSUME EL!EnglishLifeAssumption, EnglishLifeInv, NEW p \in Process, EL!Submitted(p)
    PROVE  EnglishLifeInv'
<1> DEFINE me == proc[p]
           a == me.conn.account
           v == me.video
           y == [me EXCEPT !.at = "closing"]
<1>1. /\ me.at = "posted" /\ me.at \in Working /\ me.at \in Asking
      /\ UNCHANGED <<now, pair, session, remote, left, posts, faults>>
  BY DEF EL!Submitted, EL!provider, Working, Asking
<1>2. /\ me \in Proc /\ me.at # "idle" /\ me.conn \in Conn /\ me.job \in Integration /\ me.made \in Nat
      /\ a \in Account /\ v \in Video /\ conn.account \in Account /\ conn \in Conn
      /\ me.conn.session = conn.session /\ conn.session \in DOMAIN session
      /\ faults = 0 => Newest(me.conn)
      /\ job \in [Account \X Video -> Integration] /\ remote \in Seq(Remote)
      /\ session \in Seq([account : Account, cookie : Nat])
      /\ posts \subseteq [by : Process, conn : Conn, video : Video]
  BY <1>1, Holder DEF Proc
<1>3. /\ me.job.status \notin Unasked /\ me.job.remote = 0
      /\ me.reply \in {"expired", "quota_exhausted"} => Unsent(a, v)
  BY <1>1 DEF EnglishLifeInv, Knows
<1>4. PICK j \in Integration :
        /\ EL!saveJob(p, j) /\ proc' = [proc EXCEPT ![p] = y]
        /\ j.status \in Unasked => Unsent(a, v) /\ j.remote = 0
        /\ conn' \in Conn /\ conn'.account = conn.account /\ conn'.session = conn.session
  <2>0. \A e \in Replies : /\ EL!Saved(conn, e) \in Conn /\ EL!Saved(conn, e).account = conn.account
                           /\ EL!Saved(conn, e).session = conn.session
    BY <1>2, Paused
  <2>1. CASE /\ me.reply = "made" /\ UNCHANGED conn /\ EL!Step(p, y)
             /\ EL!saveJob(p, [me.job EXCEPT !.status = "pending", !.remote = me.made])
    <3> DEFINE j == [me.job EXCEPT !.status = "pending", !.remote = me.made]
    <3>1. j \in Integration /\ j.status \notin Unasked
      BY <1>2 DEF Integration, EL!Statuses, Unasked
    <3> QED
      BY <1>2, <2>1, <3>1 DEF EL!Step
  <2>2. CASE /\ me.reply \in {"expired", "quota_exhausted"} /\ EL!pause(p, me, me.reply)
             /\ EL!saveJob(p, [me.job EXCEPT !.status = "new"])
    <3> DEFINE j == [me.job EXCEPT !.status = "new"]
    <3>1. j \in Integration /\ j.remote = 0
      BY <1>2, <1>3 DEF Integration, EL!Statuses
    <3> QED
      BY <1>3, <2>0, <2>2, <3>1 DEF EL!Step, EL!pause, Replies
  <2>3. CASE EL!saveJob(p, me.job) /\ EL!pause(p, me, "unavailable")
    BY <1>2, <1>3, <2>0, <2>3 DEF EL!Step, EL!pause, Replies
  <2> QED
    BY <2>1, <2>2, <2>3 DEF EL!Submitted
<1>5. y \in Proc /\ y.at = "closing" /\ y.conn = me.conn
  BY <1>2 DEF Proc, Working
<1> HIDE DEF y
<1>6. SentOnce' /\ job' \in [Account \X Video -> Integration]
  BY <1>1, <1>2, <1>4, Noted DEF EL!saveJob
<1>7. proc'[p] = y
  BY <1>2, <1>4, <1>5, Turns
<1>8. Knows(p)'
  BY <1>2, <1>4, <1>5, <1>7 DEF Knows, Working, Asking
<1>9. faults = 0 => Renewed(y.conn)
  BY <1>1, <1>2, <1>5 DEF Newest, Renewed
<1>10. y.at \in Working
  BY <1>5 DEF Working, Asking
<1> QED
  BY <1>1, <1>2, <1>4, <1>5, <1>6, <1>8, <1>9, <1>10, Works

LEMMA DocumentStep ==
    ASSUME EL!EnglishLifeAssumption, EnglishLifeInv, NEW p \in Process, EL!DocumentWithDuration(p)
    PROVE  EnglishLifeInv'
<1> DEFINE me == proc[p]
           a == me.conn.account
           v == me.video
           i == me.job.remote
<1>1. /\ me.at = "document" /\ me.at \in Working /\ me.at \in Asking
      /\ UNCHANGED <<now, pair, remote, left, posts, faults>>
  BY DEF EL!DocumentWithDuration, Working, Asking
<1>2. /\ me \in Proc /\ me.at # "idle" /\ me.conn \in Conn /\ me.job \in Integration
      /\ a \in Account /\ v \in Video /\ conn.account \in Account /\ conn \in Conn
      /\ me.conn.session = conn.session /\ conn.session \in DOMAIN session
      /\ faults = 0 => Newest(me.conn)
      /\ now \in Nat /\ job \in [Account \X Video -> Integration] /\ remote \in Seq(Remote)
      /\ posts \subseteq [by : Process, conn : Conn, video : Video]
  BY <1>1, Holder
<1>3. me.job.status \notin Unasked
  BY <1>1 DEF EnglishLifeInv, Knows
<1>4. PICK r \in EL!request(me.conn), d \in Document :
        LET you == [me EXCEPT !.conn = EL!Auth(@, r)]
            malformed == remote[i].status = "ready" /\ EL!Markdown(d) = << >>
            err == IF r.err # "none" THEN r.err ELSE IF malformed THEN "unavailable" ELSE "none"
            after == [me.job EXCEPT !.next = now + IF err = "none" THEN Soon ELSE Cool]
        IN  /\ session' = EL!rememberCookies(me.conn, r)
            /\ \/ err # "none" /\ EL!saveJob(p, after) /\ EL!pause(p, you, err)
               \/ /\ err = "none" /\ UNCHANGED conn /\ EL!Step(p, [you EXCEPT !.at = "closing"])
                  /\ EL!saveJob(p, CASE remote[i].status = "working" -> [after EXCEPT !.status = "pending"]
                                     [] remote[i].status = "failed" -> [after EXCEPT !.status = "failed"]
                                     [] OTHER -> [after EXCEPT !.status = "ready", !.text = EL!Markdown(d)])
  BY DEF EL!DocumentWithDuration
<1> DEFINE c == EL!Auth(me.conn, r)
           you == [me EXCEPT !.conn = c]
           y == [you EXCEPT !.at = "closing"]
           malformed == remote[i].status = "ready" /\ EL!Markdown(d) = << >>
           err == IF r.err # "none" THEN r.err ELSE IF malformed THEN "unavailable" ELSE "none"
           after == [me.job EXCEPT !.next = now + IF err = "none" THEN Soon ELSE Cool]
<1>5. /\ r.err \in Replies /\ c \in Conn /\ c.account = a /\ c.session = conn.session
      /\ session' \in Seq([account : Account, cookie : Nat]) /\ DOMAIN session' = DOMAIN session
      /\ faults = 0 => session'[c.session].cookie = c.cookie
  BY <1>2, <1>4, Answers
<1>6. after \in Integration /\ after.status \notin Unasked
  <2>1. now + Soon \in Nat /\ now + Cool \in Nat
    BY <1>2 DEF EL!EnglishLifeAssumption
  <2> QED
    BY <1>2, <1>3, <2>1 DEF Integration
<1>7. err \in Replies
  BY <1>5 DEF Replies
<1> HIDE DEF c, after, err
<1>8. y \in Proc /\ y.at = "closing" /\ y.conn = c
  BY <1>2, <1>5 DEF Proc, Working
<1>9. PICK j \in Integration :
        /\ EL!saveJob(p, j) /\ proc' = [proc EXCEPT ![p] = y] /\ j.status \notin Unasked
        /\ conn' \in Conn /\ conn'.account = conn.account /\ conn'.session = conn.session
  <2>1. CASE err # "none" /\ EL!saveJob(p, after) /\ EL!pause(p, you, err)
    BY <1>2, <1>6, <1>7, <2>1, Paused DEF EL!pause, EL!Step
  <2>2. ASSUME UNCHANGED conn, EL!Step(p, y),
               EL!saveJob(p, CASE remote[i].status = "working" -> [after EXCEPT !.status = "pending"]
                               [] remote[i].status = "failed" -> [after EXCEPT !.status = "failed"]
                               [] OTHER -> [after EXCEPT !.status = "ready", !.text = EL!Markdown(d)])
        PROVE  \E j \in Integration :
                 /\ EL!saveJob(p, j) /\ proc' = [proc EXCEPT ![p] = y] /\ j.status \notin Unasked
                 /\ conn' \in Conn /\ conn'.account = conn.account /\ conn'.session = conn.session
    <3>1. PICK j \in {[after EXCEPT !.status = "pending"], [after EXCEPT !.status = "failed"],
                      [after EXCEPT !.status = "ready", !.text = EL!Markdown(d)]} : EL!saveJob(p, j)
      BY <2>2
    <3>2. EL!Markdown(d) \in Texts
      BY DEF Texts
    <3>3. j \in Integration /\ j.status \notin Unasked
      BY <1>6, <3>2 DEF Integration, EL!Statuses, Unasked
    <3> QED
      BY <1>2, <2>2, <3>1, <3>3 DEF EL!Step
  <2> QED
    BY <1>4, <2>1, <2>2 DEF c, after, err
<1> HIDE DEF y
<1>10. SentOnce' /\ job' \in [Account \X Video -> Integration]
  BY <1>1, <1>2, <1>9, Noted DEF EL!saveJob
<1>11. proc'[p] = y
  BY <1>2, <1>8, <1>9, Turns
<1>12. Knows(p)'
  BY <1>2, <1>5, <1>8, <1>9, <1>11 DEF Knows, Working, Asking
<1>13. faults = 0 => Renewed(y.conn)
  BY <1>5, <1>8 DEF Renewed
<1>14. y.at \in Working
  BY <1>8 DEF Working, Asking
<1> QED
  BY <1>1, <1>2, <1>5, <1>8, <1>9, <1>10, <1>12, <1>13, <1>14, Works

LEMMA CloseStep ==
    ASSUME EL!EnglishLifeAssumption, EnglishLifeInv, NEW p \in Process, EL!Close(p)
    PROVE  EnglishLifeInv'
<1> DEFINE me == proc[p]
<1>1. /\ me.at = "closing" /\ me.at \in Working /\ proc' = [proc EXCEPT ![p] = EL!Idle]
      /\ conn' = [conn EXCEPT !.cookie = me.conn.cookie]
      /\ UNCHANGED <<now, pair, job, session, remote, left, posts, faults>>
  BY DEF EL!Close, EL!Step, EL!provider, Working
<1>2. /\ me.at # "idle" /\ me.conn \in Conn /\ conn.account \in Account /\ conn \in Conn
      /\ me.conn.session = conn.session /\ conn.session \in DOMAIN session
      /\ faults = 0 => Newest(me.conn)
      /\ job \in [Account \X Video -> Integration] /\ remote \in Seq(Remote)
      /\ session \in Seq([account : Account, cookie : Nat])
      /\ posts \subseteq [by : Process, conn : Conn, video : Video]
  BY <1>1, Holder
<1>3. /\ conn' \in Conn /\ conn'.account = conn.account /\ conn'.session = conn.session
      /\ conn'.cookie = me.conn.cookie
  BY <1>1, <1>2 DEF Conn
<1>4. EL!Idle \in Proc /\ EL!Idle.at = "idle"
  BY IdleTyped
<1>5. Knows(p)'
  <2>1. proc'[p] = EL!Idle
    BY <1>1, <1>2, <1>4, Turns
  <2> QED
    BY <1>4, <2>1 DEF Knows, Working, Asking
<1>6. faults = 0 => Renewed(conn')
  BY <1>1, <1>2, <1>3 DEF Newest, Renewed
<1>7. SentOnce'
  BY <1>1, SameSent
<1>8. EL!Idle.at \notin Working \cup {"pairing"}
  BY <1>4 DEF Working, Asking
<1> QED
  BY <1>1, <1>2, <1>3, <1>4, <1>5, <1>6, <1>7, <1>8, Works

\* An administrator's step: jobs and requests are as they were.
LEMMA Administers ==
    ASSUME EnglishLifeInv, NEW p \in Process, NEW r \in Proc, proc' = [proc EXCEPT ![p] = r],
           EL!Lock \/ proc[p].at # "idle", UNCHANGED <<now, faults, job, remote, posts>>,
           session' \in Seq([account : Account, cookie : Nat]),
           conn' \in Conn, conn'.account \in Account => conn'.session \in DOMAIN session',
           conn'.account \notin Account => conn' = EL!NoConn,
           r.at \in {"idle", "pairing", "checking"},
           r.at # "idle" => r.conn.account \in Account /\ r.conn.session \in DOMAIN session',
           r.at = "checking" => conn'.account \in Account /\ r.conn.session = conn'.session,
           r.at # "idle" /\ faults = 0 => Renewed(r.conn),
           r.at # "checking" /\ conn'.account \in Account /\ faults = 0 => Renewed(conn')
    PROVE  EnglishLifeInv'
<1>1. /\ proc' \in [Process -> Proc] /\ proc'[p] = r /\ Exclusive'
      /\ \A q \in Process : q # p => Knows(q)'
  BY Turns
<1>2. Typed'
  BY <1>1 DEF EnglishLifeInv, Typed
<1>3. SentOnce'
  BY SameSent
<1>4. Knows(p)'
  BY <1>1 DEF Knows, Working, Asking
<1>5. Connected'
  <2>1. r.at \in Working \cup {"pairing"} <=> r.at # "idle"
    BY DEF Working, Asking
  <2>2. r.at \in Working <=> r.at = "checking"
    BY DEF Working, Asking
  <2> QED
    BY <2>1, <2>2, Passed
<1> QED
  BY <1>1, <1>2, <1>3, <1>4, <1>5 DEF EnglishLifeInv

LEMMA AdministerSteps ==
    ASSUME EL!EnglishLifeAssumption, EnglishLifeInv, NEW p \in Process,
           \/ EL!CompletePair(p) \/ EL!Check(p) \/ EL!Checked(p)
           \/ \E a \in Account : EL!Complete(p, a)
    PROVE  EnglishLifeInv'
<1>1. /\ proc[p] \in Proc /\ proc[p].conn \in Conn /\ now \in Nat /\ conn \in Conn
      /\ session \in Seq([account : Account, cookie : Nat])
      /\ conn.account \in Account => conn.session \in DOMAIN session
      /\ conn.account \notin Account => conn = EL!NoConn
  BY DEF EnglishLifeInv, Typed, Connected, Proc
<1>2. EL!Idle \in Proc /\ EL!Idle.at = "idle"
  BY IdleTyped
<1>3. CASE EL!CompletePair(p)
  <2>1. /\ proc[p].at = "pairing" /\ proc' = [proc EXCEPT ![p] = EL!Idle]
        /\ UNCHANGED <<now, job, session, remote, left, posts, faults>>
        /\ conn' = conn \/ conn' = [proc[p].conn EXCEPT !.at = now]
    BY <1>3 DEF EL!CompletePair, EL!Step, EL!provider
  <2>2. /\ proc[p].conn.account \in Account /\ proc[p].conn.session \in DOMAIN session
        /\ faults = 0 => Newest(proc[p].conn)
        /\ faults = 0 /\ conn.account \in Account => Newest(conn)
    BY <2>1 DEF EnglishLifeInv, Knows, Connected, Exclusive, Working, Asking
  <2>3. /\ conn' \in Conn
        /\ conn'.account \in Account => conn'.session \in DOMAIN session'
        /\ conn'.account \notin Account => conn' = EL!NoConn
        /\ faults = 0 /\ conn'.account \in Account => Renewed(conn')
    BY <1>1, <2>1, <2>2 DEF Conn, Newest, Renewed
  <2> QED
    BY <1>1, <1>2, <2>1, <2>3, Administers
<1>4. CASE EL!Checked(p)
  <2>1. /\ proc[p].at = "checking" /\ proc' = [proc EXCEPT ![p] = EL!Idle]
        /\ UNCHANGED <<now, job, session, remote, left, posts, faults>>
        /\ conn' = [proc[p].conn EXCEPT !.at = now]
    BY <1>4 DEF EL!Checked, EL!Step, EL!provider
  <2>2. /\ proc[p].conn.account \in Account /\ proc[p].conn.session \in DOMAIN session
        /\ faults = 0 => Newest(proc[p].conn)
    BY <2>1, Holder DEF Working
  <2>3. /\ conn' \in Conn /\ conn'.account \in Account /\ conn'.session \in DOMAIN session'
        /\ faults = 0 => Renewed(conn')
    BY <1>1, <2>1, <2>2 DEF Conn, Newest, Renewed
  <2> QED
    BY <1>1, <1>2, <2>1, <2>3, Administers
<1>5. CASE EL!Check(p)
  <2>1. /\ EL!Lock /\ conn # EL!NoConn /\ conn.account \in Account /\ conn.session \in DOMAIN session
        /\ UNCHANGED <<now, conn, job, remote, left, posts, faults>>
    BY <1>1, <1>5 DEF EL!Check
  <2>2. PICK r \in EL!request(conn) :
          /\ session' = EL!rememberCookies(conn, r)
          /\ proc' = [proc EXCEPT ![p] =
                [EL!Idle EXCEPT !.at = "checking",
                   !.conn = [EL!Auth(conn, r) EXCEPT
                     !.state = EL!connectionState(IF r.err # "none" THEN r.err
                                                  ELSE EL!RemoteQuota(conn.account))]]]
    BY <1>5 DEF EL!Check, EL!Step
  <2>3. /\ r.err \in Replies /\ EL!Auth(conn, r) \in Conn /\ EL!Auth(conn, r).account = conn.account
        /\ EL!Auth(conn, r).session = conn.session
        /\ session' \in Seq([account : Account, cookie : Nat]) /\ DOMAIN session' = DOMAIN session
        /\ Newest(conn) => session'[conn.session].cookie = EL!Auth(conn, r).cookie
    BY <1>1, <2>1, <2>2, Answers
  <2> DEFINE s == EL!connectionState(IF r.err # "none" THEN r.err ELSE EL!RemoteQuota(conn.account))
             c == [EL!Auth(conn, r) EXCEPT !.state = s]
             y == [EL!Idle EXCEPT !.at = "checking", !.conn = c]
  <2>4. s \in EL!States
    BY <2>3 DEF EL!connectionState, EL!RemoteQuota, EL!States, Replies
  <2> HIDE DEF s
  <2>5. /\ c \in Conn /\ c.account = conn.account /\ c.session = conn.session
        /\ c.cookie = EL!Auth(conn, r).cookie
    BY <2>3, <2>4 DEF Conn
  <2> HIDE DEF c
  <2>6. y \in Proc /\ y.at = "checking" /\ y.conn = c
    BY <1>2, <2>5 DEF Proc, Working
  <2> HIDE DEF y
  <2>7. faults = 0 => Renewed(y.conn)
    BY <2>1, <2>3, <2>5, <2>6 DEF EnglishLifeInv, Connected, Renewed, EL!Lock, Working, Asking
  <2>8. proc' = [proc EXCEPT ![p] = y]
    BY <2>2 DEF y, c, s
  <2> QED
    BY <1>1, <2>1, <2>3, <2>5, <2>6, <2>7, <2>8, Administers
<1>6. ASSUME NEW a \in Account, EL!Complete(p, a) PROVE EnglishLifeInv'
  <2> DEFINE c == [EL!NoConn EXCEPT !.account = a, !.session = Len(session'),
                     !.state = EL!connectionState(EL!RemoteQuota(a))]
             y == [EL!Idle EXCEPT !.at = "pairing", !.conn = c]
  <2>1. /\ EL!Lock /\ session' = Append(session, [account |-> a, cookie |-> 0])
        /\ proc' = [proc EXCEPT ![p] = y] /\ UNCHANGED <<now, conn, job, remote, left, posts, faults>>
    BY <1>6 DEF EL!Complete, EL!Step
  <2>2. /\ session' \in Seq([account : Account, cookie : Nat]) /\ Len(session') = Len(session) + 1
        /\ session'[Len(session')] = [account |-> a, cookie |-> 0] /\ Len(session) \in Nat
        /\ DOMAIN session = 1 .. Len(session) /\ DOMAIN session' = 1 .. Len(session')
        /\ \A i \in DOMAIN session : session'[i] = session[i]
    <3>1. [account |-> a, cookie |-> 0] \in [account : Account, cookie : Nat]
      OBVIOUS
    <3> QED
      BY <1>1, <2>1, <3>1
  <2>3. EL!connectionState(EL!RemoteQuota(a)) \in EL!States
    BY DEF EL!connectionState, EL!RemoteQuota, EL!States
  <2>8. EL!NoConn \in Conn /\ EL!NoConn.cookie = 0 /\ Len(session') \in Nat
    BY <2>2, IdleTyped DEF EL!NoConn
  <2>4. c \in Conn /\ c.account = a /\ c.session = Len(session') /\ c.cookie = 0
    BY <2>3, <2>8 DEF Conn
  <2>9. conn'.account \in Account => conn'.session \in DOMAIN session'
    BY <1>1, <2>1, <2>2
  <2>10. Len(session') \in DOMAIN session'
    BY <2>2
  <2> HIDE DEF c
  <2>5. y \in Proc /\ y.at = "pairing" /\ y.conn = c
    BY <1>2, <2>4 DEF Proc
  <2> HIDE DEF y
  <2>6. faults = 0 => Renewed(y.conn)
    BY <2>2, <2>4, <2>5 DEF Renewed
  <2>7. faults = 0 /\ conn.account \in Account => Renewed(conn')
    BY <1>1, <2>1, <2>2 DEF EnglishLifeInv, Connected, Renewed, Newest, EL!Lock, Working, Asking
  <2> QED
    BY <1>1, <2>1, <2>2, <2>4, <2>5, <2>6, <2>7, <2>9, <2>10, Administers
<1> QED
  BY <1>3, <1>4, <1>5, <1>6

\* The provider gets to a request: it takes it off the way, and makes a job or not.
LEMMA TakeStep ==
    ASSUME EL!EnglishLifeAssumption, EnglishLifeInv, NEW m \in posts, EL!Take(m) PROVE EnglishLifeInv'
<1> DEFINE a == m.conn.account
           v == m.video
           refusal == IF session[m.conn.session].cookie # m.conn.cookie THEN "expired" ELSE EL!RemoteQuota(a)
           waits == proc[m.by].at = "posted" /\ proc[m.by].conn = m.conn /\ proc[m.by].video = v
           new == [account |-> a, video |-> v, status |-> "working"]
           reply == IF refusal = "none" THEN "made" ELSE refusal
           y == [proc[m.by] EXCEPT !.reply = reply, !.made = Len(remote')]
<1>1. /\ posts' = posts \ {m} /\ UNCHANGED <<now, conn, pair, job, session, faults>>
      /\ remote' = IF refusal = "none" THEN Append(remote, new) ELSE remote
  BY DEF EL!Take
<1>2. proc' = IF waits THEN [proc EXCEPT ![m.by] = y] ELSE proc
  BY DEF EL!Take
<1>3. Typed /\ Exclusive /\ SentOnce /\ Connected /\ \A p \in Process : Knows(p)
  BY DEF EnglishLifeInv
<1>4. m.by \in Process /\ v \in Video /\ proc[m.by] \in Proc /\ remote \in Seq(Remote) /\ a \in Account
      /\ proc \in [Process -> Proc]
  BY <1>3 DEF Typed, SentOnce
<1>5. refusal \in {"none", "expired", "quota_exhausted"}
  BY DEF EL!RemoteQuota
<1> HIDE DEF refusal
<1>6. new \in Remote /\ new.account = a /\ new.video = v
  BY <1>4 DEF Remote
<1> HIDE DEF new
<1>7. /\ remote' \in Seq(Remote) /\ DOMAIN remote \subseteq DOMAIN remote' /\ Len(remote') \in Nat
      /\ \A i \in DOMAIN remote : remote'[i] = remote[i]
      /\ \A i, k \in DOMAIN remote' \ DOMAIN remote : i = k /\ remote'[i] = new
      /\ refusal # "none" => remote' = remote
  <2>1. DOMAIN remote = 1 .. Len(remote) /\ Len(remote) \in Nat
    BY <1>4
  <2>2. CASE refusal = "none"
    <3>1. remote' = Append(remote, new)
      BY <1>1, <2>2
    <3>2. /\ remote' \in Seq(Remote) /\ Len(remote') = Len(remote) + 1 /\ remote'[Len(remote) + 1] = new
          /\ \A i \in 1 .. Len(remote) : remote'[i] = remote[i]
      BY <1>4, <1>6, <2>1, <3>1
    <3>3. DOMAIN remote' = 1 .. Len(remote) + 1
      BY <3>2
    <3> QED
      BY <2>1, <2>2, <3>2, <3>3
  <2>3. CASE refusal # "none"
    BY <1>1, <1>4, <2>1, <2>3
  <2> QED
    BY <2>2, <2>3
<1>8. ASSUME NEW b \in Account, NEW w \in Video, Unsent(b, w) PROVE Unsent(b, w)'
  <2>1. ~(a = b /\ v = w)
    BY <1>8 DEF Unsent
  <2> QED
    BY <1>1, <1>6, <1>7, <1>8, <2>1 DEF Unsent
<1>9. SentOnce'
  <2>1. \A i \in DOMAIN remote : ~(a = remote[i].account /\ v = remote[i].video)
    BY <1>3 DEF SentOnce
  <2>2. \A n \in posts' : n \in posts /\ ~(n.conn.account = a /\ n.video = v)
    BY <1>1, <1>3 DEF SentOnce
  <2>3. \A n \in posts', i \in DOMAIN remote' :
          ~(n.conn.account = remote'[i].account /\ n.video = remote'[i].video)
    BY <1>3, <1>6, <1>7, <2>2 DEF SentOnce
  <2>4. \A i, k \in DOMAIN remote' :
          remote'[i].account = remote'[k].account /\ remote'[i].video = remote'[k].video => i = k
    BY <1>3, <1>6, <1>7, <2>1 DEF SentOnce
  <2>5. \A b \in Account, w \in Video :
          job'[<<b, w>>].status \in Unasked => Unsent(b, w)' /\ job'[<<b, w>>].remote = 0
    BY <1>1, <1>3, <1>8 DEF SentOnce
  <2>6. \A n, k \in posts' : n.conn.account = k.conn.account /\ n.video = k.video => n = k
    BY <1>3, <2>2 DEF SentOnce
  <2>7. \A n \in posts' : n.conn.account \in Account
    BY <1>3, <2>2 DEF SentOnce
  <2> QED
    BY <2>3, <2>4, <2>5, <2>6, <2>7 DEF SentOnce
<1>10. refusal # "none" => Unsent(a, v)'
  <2>1. \A n \in posts' : ~(n.conn.account = a /\ n.video = v)
    BY <1>1, <1>3 DEF SentOnce
  <2> QED
    BY <1>3, <1>7, <2>1 DEF Unsent, SentOnce
<1>11. /\ y \in Proc /\ y.at = proc[m.by].at /\ y.conn = proc[m.by].conn /\ y.job = proc[m.by].job
       /\ y.video = proc[m.by].video /\ y.reply = reply
  BY <1>4, <1>5, <1>7 DEF Proc, Replies
<1> HIDE DEF y
<1>12. /\ proc' \in [Process -> Proc]
       /\ \A p \in Process : /\ proc'[p].at = proc[p].at /\ proc'[p].conn = proc[p].conn
                             /\ proc'[p].job = proc[p].job /\ proc'[p].video = proc[p].video
                             /\ proc'[p] = proc[p] \/ (p = m.by /\ waits /\ proc'[p].reply = reply)
  BY <1>2, <1>4, <1>11
<1>13. ASSUME NEW p \in Process PROVE Knows(p)'
  <2>1. CASE proc'[p] = proc[p]
    <3>1. \A b \in Account, w \in Video : Unsent(b, w) => Unsent(b, w)'
      BY <1>8
    <3> QED
      BY <1>1, <1>3, <2>1, <3>1 DEF Knows, Working, Asking
  <2>2. CASE p = m.by /\ waits /\ proc'[p].reply = reply
    <3>1. proc'[p].reply \in {"expired", "quota_exhausted"} => Unsent(a, v)'
      BY <1>5, <1>10, <2>2
    <3> QED
      BY <1>1, <1>3, <1>12, <2>2, <3>1 DEF Knows, Working, Asking
  <2> QED
    BY <1>12, <2>1, <2>2
<1>14. Typed'
  BY <1>1, <1>3, <1>7, <1>12 DEF Typed
<1>15. Connected' /\ Exclusive'
  BY <1>1, <1>3, <1>12 DEF Connected, Exclusive, Newest
<1> QED
  BY <1>9, <1>13, <1>14, <1>15 DEF EnglishLifeInv

\* A pairing begins, time goes on, the provider works, quotas are filled up.
LEMMA Elsewhere ==
    ASSUME EnglishLifeInv, UNCHANGED <<conn, job, proc, session, posts, faults>>, now' \in Nat,
           remote' \in Seq(Remote), DOMAIN remote' = DOMAIN remote,
           \A i \in DOMAIN remote : remote'[i].account = remote[i].account /\ remote'[i].video = remote[i].video
    PROVE  EnglishLifeInv'
<1>1. SentOnce' /\ \A a \in Account, v \in Video : Unsent(a, v)' <=> Unsent(a, v)
  BY SameSent
<1>2. Typed' /\ Exclusive' /\ Connected'
  BY DEF EnglishLifeInv, Typed, Exclusive, Connected, Newest
<1>3. \A p \in Process : Knows(p)'
  BY <1>1 DEF EnglishLifeInv, Knows, Working, Asking
<1> QED
  BY <1>1, <1>2, <1>3 DEF EnglishLifeInv

LEMMA ProgressStep ==
    ASSUME EnglishLifeInv, NEW i \in DOMAIN remote, NEW s \in {"ready", "failed"}, EL!Progress(i, s)
    PROVE  EnglishLifeInv'
<1>1. /\ remote \in Seq(Remote) /\ now \in Nat /\ remote' = [remote EXCEPT ![i].status = s]
      /\ UNCHANGED <<now, conn, job, proc, session, posts, faults>>
  BY DEF EL!Progress, EnglishLifeInv, Typed
<1>2. remote[i] \in Remote
  BY <1>1, ElementOfSeq, i \in 1 .. Len(remote)
<1>3. /\ [remote[i] EXCEPT !.status = s] \in Remote
      /\ [remote[i] EXCEPT !.status = s].account = remote[i].account
      /\ [remote[i] EXCEPT !.status = s].video = remote[i].video
  BY <1>2 DEF Remote
<1>4. remote' \in Seq(Remote) /\ DOMAIN remote' = DOMAIN remote
      /\ \A k \in DOMAIN remote : remote'[k] = IF k = i THEN [remote[i] EXCEPT !.status = s] ELSE remote[k]
  BY <1>1, <1>3
<1> QED
  BY <1>1, <1>3, <1>4, Elsewhere

LEMMA CrashStepEL ==
    ASSUME EL!EnglishLifeAssumption, EnglishLifeInv, NEW p \in Process, EL!Crash(p) PROVE EnglishLifeInv'
<1>1. /\ proc[p].at # "idle" /\ faults' = faults + 1 /\ proc' = [proc EXCEPT ![p] = EL!Idle]
      /\ UNCHANGED <<now, conn, pair, job, session, remote, left, posts>>
  BY DEF EL!Crash, EL!Step, EL!provider
<1>2. EL!Idle \in Proc /\ EL!Idle.at = "idle"
  BY IdleTyped
<1>3. /\ proc' \in [Process -> Proc] /\ proc'[p] = EL!Idle /\ Exclusive'
      /\ \A q \in Process : q # p => Knows(q)'
  BY <1>1, <1>2, Turns
<1>4. Knows(p)' /\ SentOnce'
  BY <1>1, <1>2, <1>3, SameSent DEF Knows, Working, Asking
<1>5. Typed' /\ faults' # 0
  BY <1>1, <1>3 DEF EnglishLifeInv, Typed
<1>6. Connected'
  BY <1>1, <1>5 DEF EnglishLifeInv, Connected
<1> QED
  BY <1>3, <1>4, <1>5, <1>6 DEF EnglishLifeInv

LEMMA DisconnectStep ==
    ASSUME EL!EnglishLifeAssumption, EnglishLifeInv, NEW p \in Process, EL!Disconnect(p) PROVE EnglishLifeInv'
<1>1. /\ EL!Lock /\ conn' = EL!NoConn /\ UNCHANGED <<now, job, proc, session, remote, left, posts, faults>>
  BY DEF EL!Disconnect, EL!provider
<1>2. EL!NoConn \in Conn /\ EL!NoConn.account \notin Account
  BY IdleTyped
<1>3. Typed' /\ Exclusive' /\ SentOnce'
  BY <1>1, <1>2, SameSent DEF EnglishLifeInv, Typed, Exclusive
<1>4. \A q \in Process : Knows(q)'
  BY <1>1 DEF EL!Lock, Knows, Working, Asking
<1>5. Connected'
  BY <1>1, <1>2 DEF EnglishLifeInv, Connected, Newest, EL!Lock, Working, Asking
<1> QED
  BY <1>3, <1>4, <1>5 DEF EnglishLifeInv

LEMMA EnglishLifeStep ==
    ASSUME EL!EnglishLifeAssumption, EnglishLifeInv, [EL!Next]_EL!vars PROVE EnglishLifeInv'
<1>0. now \in Nat /\ remote \in Seq(Remote)
  BY DEF EnglishLifeInv, Typed
<1>1. CASE UNCHANGED EL!vars
  BY <1>0, <1>1, Elsewhere DEF EL!vars
<1>2. ASSUME NEW p \in Process, EL!Pair(p) PROVE EnglishLifeInv'
  BY <1>0, <1>2, Elsewhere DEF EL!Pair, EL!provider
<1>3. ASSUME NEW a \in Account, EL!Refill(a) PROVE EnglishLifeInv'
  BY <1>0, <1>3, Elsewhere DEF EL!Refill
<1>4. CASE EL!Tick
  BY <1>0, <1>4, Elsewhere DEF EL!Tick, EL!provider
<1>5. ASSUME NEW p \in Process,
             \/ EL!CompletePair(p) \/ EL!Check(p) \/ EL!Checked(p) \/ EL!Disconnect(p)
             \/ EL!Look(p) \/ EL!Submit(p) \/ EL!Submitted(p) \/ EL!DocumentWithDuration(p)
             \/ EL!Close(p) \/ EL!Crash(p)
      PROVE  EnglishLifeInv'
  BY <1>5, AdministerSteps, DisconnectStep, LookStep, SubmitStep, SubmittedStep, DocumentStep,
     CloseStep, CrashStepEL
<1> QED
  BY <1>1, <1>2, <1>3, <1>4, <1>5, AdministerSteps, FetchStep, TakeStep, ProgressStep DEF EL!Next

\* A video costs an account at most one job at the provider, for any number of
\* processes, however answers are lost, requests arrive late and processes die
\* between noting, sending and recording one.  internal/englife/service.go.
THEOREM ChargedOnceAlways == ASSUME EL!EnglishLifeAssumption PROVE EL!Spec => []EL!ChargedOnce
<1>1. EL!Spec => []EnglishLifeInv
  BY EnglishLifeInit, EnglishLifeStep, PTL DEF EL!Spec
<1>2. EnglishLifeInv => EL!ChargedOnce
  BY DEF EnglishLifeInv, SentOnce, EL!ChargedOnce
<1> QED
  BY <1>1, <1>2, PTL

\* Whatever calls came to, the cookie that is kept is the newest the provider
\* gave, unless a process died before it could be kept.  internal/englife/store.go.
THEOREM SessionKeptAlways == ASSUME EL!EnglishLifeAssumption PROVE EL!Spec => []EL!SessionKept
<1>1. EL!Spec => []EnglishLifeInv
  BY EnglishLifeInit, EnglishLifeStep, PTL DEF EL!Spec
<1>2. EnglishLifeInv => EL!SessionKept
  BY DEF EnglishLifeInv, Connected, Newest, EL!SessionKept, EL!Lock, Working, Asking
<1> QED
  BY <1>1, <1>2, PTL

-----------------------------------------------------------------------------
(* Briefings: a day that has articles and no digest has cost a fault for    *)
(* every pass that is over, so what no fault has paid for is still in the   *)
(* plan of the pass under way.                                              *)
CONSTANTS User, Retried, CatchUp, Attempts, Permits, Days
VARIABLES day, week, weekday, night, cron

BR == INSTANCE Briefings

Digests == BR!Missing \cup {"intro", "fallback"}
PlannedSteps == [of : {"day", "week"}, k : Nat]
Routine == [at : {"down", "asleep", "between", "step"}, plan : Seq(PlannedSteps), crossed : BOOLEAN]
Digesting == [at : {"off", "wait", "asking"}, n : Nat]

BriefTyped ==
    /\ day \in [User -> [1 .. Retried + 1 -> Digests]]
    /\ cron \in Routine /\ (cron.at = "step" => cron.plan # << >>)
    /\ job \in [User -> Digesting] /\ faults \in Nat /\ night \in BOOLEAN

\* The worker is at work; and it may be at 05:00 still, since only a start of
\* the worker begins a pass at night.
Passing == cron.at \in {"between", "step"}
Turning == Passing /\ night /\ ~cron.crossed

\* What the step under way will do for a reader no more is over for the reader.
DayStep(k) == [of |-> "day", k |-> k]
Over(u, i) == cron.at = "step" /\ i = 1 /\ job[u] = BR!Idle
Ahead(u, k) == Passing /\ \E i \in DOMAIN cron.plan : cron.plan[i] = DayStep(k) /\ ~Over(u, i)

\* The faults that a day without its digest has cost, with those of a pass that
\* began by night: the worker had been stopped.
Paid(k, ahead, turning, f) ==
    /\ k > Retried => f >= Retried
    /\ k <= Retried =>
         /\ f + 1 >= k
         /\ ~ahead \/ turning => f >= k
         /\ ~ahead /\ turning => f >= k + 1

LEMMA PaidMore ==
    ASSUME Retried \in Nat, NEW k \in Int, NEW a \in BOOLEAN, NEW b \in BOOLEAN, NEW t \in BOOLEAN,
           NEW f \in Nat, NEW g \in Nat, Paid(k, a, t, f), (g >= f /\ (a => b)) \/ g = f + 1
    PROVE  Paid(k, b, t, g)
BY DEF Paid

BriefInv ==
    /\ BriefTyped
    /\ \A u \in User, k \in 1 .. Retried + 1 : day[u][k] = "due" => Paid(k, Ahead(u, k), Turning, faults)
    /\ cron.at = "down" \/ Turning => faults >= 1

LEMMA BriefInit == ASSUME BR!BriefingsAssumption, BR!Init PROVE BriefInv
<1>1. BriefTyped
  <2>1. /\ day = [u \in User |-> [k \in 1 .. Retried + 1 |-> "bare"]]
        /\ night = FALSE /\ cron = BR!Asleep /\ job = [u \in User |-> BR!Idle] /\ faults = 0
    BY DEF BR!Init
  <2>2. << >> \in Seq(PlannedSteps)
    OBVIOUS
  <2>3. cron \in Routine /\ cron.at # "step"
    BY <2>1, <2>2 DEF BR!Asleep, Routine
  <2>4. job \in [User -> Digesting]
    BY <2>1 DEF BR!Idle, Digesting
  <2> QED
    BY <2>1, <2>3, <2>4 DEF BriefTyped, Digests, BR!Missing
<1>2. \A u \in User, k \in 1 .. Retried + 1 : day[u][k] # "due"
  BY DEF BR!Init
<1>3. cron.at = "asleep"
  BY DEF BR!Init, BR!Asleep
<1> QED
  BY <1>1, <1>2, <1>3 DEF BriefInv, Turning, Passing

-----------------------------------------------------------------------------
\* A step of the plan that another reader's work, or none, ends.
LEMMA SameReader ==
    ASSUME NEW u \in User, NEW k, UNCHANGED cron, job'[u] = job[u]
    PROVE  Ahead(u, k)' = Ahead(u, k)
BY DEF Ahead, Over, Passing

\* One reader's work.
LEMMA ReaderDone ==
    ASSUME BriefInv, BR!BriefingsAssumption, NEW u \in User, NEW b \in Digesting,
           cron.at = "step", job[u] # BR!Idle, UNCHANGED <<night, cron>>,
           job' = [job EXCEPT ![u] = b], day' \in [User -> [1 .. Retried + 1 -> Digests]],
           faults' = faults \/ faults' = faults + 1,
           \A o \in User, k \in 1 .. Retried + 1 : day'[o][k] = "due" => day[o][k] = "due",
           \/ b # BR!Idle
           \/ faults' = faults + 1
           \/ \A k \in 1 .. Retried + 1 : BR!Here = DayStep(k) => day'[u][k] # "due"
    PROVE  BriefInv'
<1>1. BriefTyped'
  <2>1. job' \in [User -> Digesting] /\ faults' \in Nat
    BY DEF BriefInv, BriefTyped
  <2>2. cron' = cron /\ night' = night
    OBVIOUS
  <2> QED
    BY <2>1, <2>2 DEF BriefInv, BriefTyped
<1>2. Turning' = Turning /\ faults \in Nat /\ faults' \in Nat /\ Retried \in Nat
  BY DEF Turning, Passing, BriefInv, BriefTyped, BR!BriefingsAssumption
<1>3. (cron.at = "down" \/ Turning => faults >= 1)'
  BY <1>2 DEF BriefInv
<1>4. ASSUME NEW o \in User, NEW k \in 1 .. Retried + 1, day'[o][k] = "due"
      PROVE  Paid(k, Ahead(o, k)', Turning', faults')
  <2>1. Paid(k, Ahead(o, k), Turning, faults) /\ k \in Int
    BY <1>4 DEF BriefInv
  <2>0. Ahead(o, k) \in BOOLEAN /\ Ahead(o, k)' \in BOOLEAN /\ Turning \in BOOLEAN
    BY DEF Ahead, Turning
  <2>2. CASE faults' = faults + 1
    BY <1>2, <2>0, <2>1, <2>2, PaidMore
  <2>3. CASE Ahead(o, k) => Ahead(o, k)'
    BY <1>2, <2>0, <2>1, <2>3, PaidMore
  <2>4. CASE o # u
    <3>1. job'[o] = job[o]
      BY <2>4 DEF BriefInv, BriefTyped
    <3> QED
      BY <2>3, <3>1, SameReader
  <2>5. CASE o = u /\ faults' # faults + 1
    <3>1. ASSUME Ahead(o, k) PROVE Ahead(o, k)'
      <4>1. PICK i \in DOMAIN cron.plan : cron.plan[i] = DayStep(k)
        BY <3>1 DEF Ahead
      <4>2. job'[u] = b
        BY DEF BriefInv, BriefTyped
      <4>3. i = 1 => b # BR!Idle
        BY <1>4, <2>5, <4>1 DEF BR!Here
      <4>4. ~(cron.at = "step" /\ i = 1 /\ job'[u] = BR!Idle)
        BY <4>2, <4>3
      <4> QED
        BY <2>5, <4>1, <4>4 DEF Ahead, Over, Passing
    <3> QED
      BY <2>3, <3>1
  <2> QED
    BY <2>2, <2>4, <2>5
<1> QED
  BY <1>1, <1>3, <1>4 DEF BriefInv

LEMMA AskedBrief ==
    ASSUME BriefInv, BR!BriefingsAssumption, NEW u \in User,
           \/ BR!GetTopArticlesInRange(u) \/ BR!Answered(u)
           \/ BR!generateDailyWithBackoff(u) \/ BR!writeFallbackDaily(u) \/ BR!generateOneWeekly(u)
    PROVE  BriefInv'
<1>1. /\ day \in [User -> [1 .. Retried + 1 -> Digests]] /\ cron.plan \in Seq(PlannedSteps)
      /\ job \in [User -> Digesting] /\ job[u] \in Digesting /\ faults \in Nat
  BY DEF BriefInv, BriefTyped, Routine
<1>2. /\ cron.at = "step" /\ job[u].at \in {"wait", "asking"} /\ UNCHANGED <<weekday, night, cron>>
  BY DEF BR!GetTopArticlesInRange, BR!Answered, BR!generateDailyWithBackoff, BR!writeFallbackDaily,
         BR!generateOneWeekly, BR!Working
<1>3. job[u] # BR!Idle /\ BR!Idle \in Digesting
  BY <1>2 DEF BR!Idle, Digesting
<1>4. BR!Here \in PlannedSteps /\ BR!Here = cron.plan[1]
  <2>1. cron.plan # << >>
    BY <1>2 DEF BriefInv, BriefTyped
  <2> QED
    BY <1>1, <2>1 DEF BR!Here
\* Enough: nothing becomes due, and what is over for the reader is made, or bare,
\* or has cost a fault.
<1>5. ASSUME NEW b \in Digesting, job' = [job EXCEPT ![u] = b],
             day' \in [User -> [1 .. Retried + 1 -> Digests]], faults' = faults \/ faults' = faults + 1,
             \A o \in User, k \in 1 .. Retried + 1 : day'[o][k] = "due" => day[o][k] = "due",
             \/ b # BR!Idle
             \/ faults' = faults + 1
             \/ \A k \in 1 .. Retried + 1 : BR!Here = DayStep(k) => day'[u][k] # "due"
      PROVE  BriefInv'
  BY <1>2, <1>3, <1>5, ReaderDone
<1>6. CASE BR!GetTopArticlesInRange(u)
  <2>1. day' = day
    BY <1>6 DEF BR!GetTopArticlesInRange
  <2>2. CASE BR!Of(u, BR!Here) = "bare" /\ BR!Done(u) /\ UNCHANGED faults
    <3>1. \A k \in 1 .. Retried + 1 : BR!Here = DayStep(k) => day[u][k] # "due"
      BY <2>2 DEF BR!Of, DayStep
    <3> QED
      BY <1>1, <1>3, <1>5, <2>1, <2>2, <3>1 DEF BR!Done
  <2>3. CASE BR!Fault /\ BR!Done(u)
    BY <1>1, <1>3, <1>5, <2>1, <2>3 DEF BR!Done, BR!Fault
  <2>4. CASE job' = [job EXCEPT ![u].at = "asking"] /\ UNCHANGED faults
    <3> DEFINE b == [job[u] EXCEPT !.at = "asking"]
    <3>1. b \in Digesting /\ b # BR!Idle
      BY <1>1 DEF Digesting, BR!Idle
    <3>2. job' = [job EXCEPT ![u] = b]
      BY <2>4
    <3> HIDE DEF b
    <3> QED
      BY <1>1, <1>5, <2>1, <2>4, <3>1, <3>2
  <2> QED
    BY <1>6, <2>2, <2>3, <2>4 DEF BR!GetTopArticlesInRange
<1>7. ASSUME NEW k \in Nat, NEW d \in {"intro", "fallback"}, BR!Here = DayStep(k),
             BR!DailyUpsert(u, k, d), BR!Done(u), UNCHANGED faults
      PROVE  BriefInv'
  <2>1. day' = [day EXCEPT ![u][k] = d]
    BY <1>7 DEF BR!DailyUpsert
  <2>2. day' \in [User -> [1 .. Retried + 1 -> Digests]]
    BY <1>1, <2>1 DEF Digests
  <2>3. \A o \in User, j \in 1 .. Retried + 1 : day'[o][j] = "due" => day[o][j] = "due"
    BY <1>1, <2>1
  <2>4. \A j \in 1 .. Retried + 1 : BR!Here = DayStep(j) => day'[u][j] # "due"
    <3>1. ASSUME NEW j \in 1 .. Retried + 1, BR!Here = DayStep(j) PROVE day'[u][j] # "due"
      <4>1. j = k
        BY <1>7, <3>1 DEF DayStep
      <4> QED
        BY <1>1, <2>1, <4>1
    <3> QED
      BY <3>1
  <2> QED
    BY <1>3, <1>5, <1>7, <2>2, <2>3, <2>4 DEF BR!Done
<1>8. ASSUME BR!Done(u), UNCHANGED day, faults' = faults + 1 PROVE BriefInv'
  BY <1>1, <1>3, <1>5, <1>8 DEF BR!Done
<1>9. ASSUME BR!Done(u), UNCHANGED <<day, faults>>, BR!Here.of = "week" PROVE BriefInv'
  <2>1. \A k \in 1 .. Retried + 1 : BR!Here # DayStep(k)
    BY <1>9 DEF DayStep
  <2> QED
    BY <1>1, <1>3, <1>5, <1>9, <2>1 DEF BR!Done
<1>10. BR!Here.k \in Nat /\ (BR!Here.of = "day" => BR!Here = DayStep(BR!Here.k))
  BY <1>4 DEF PlannedSteps, DayStep
<1>11. CASE BR!Answered(u)
  <2>1. CASE BR!Here.of = "day" /\ BR!DailyUpsert(u, BR!Here.k, "intro") /\ UNCHANGED faults
    BY <1>7, <1>10, <1>11, <2>1 DEF BR!Answered
  <2>2. CASE BR!Here.of = "week" /\ BR!WeeklyUpsert(u, BR!Here.k, "intro") /\ UNCHANGED faults
    BY <1>9, <1>11, <2>2 DEF BR!Answered, BR!WeeklyUpsert
  <2>3. CASE BR!Fault /\ UNCHANGED <<day, week>>
    BY <1>8, <1>11, <2>3 DEF BR!Answered, BR!Fault
  <2> QED
    BY <1>11, <2>1, <2>2, <2>3 DEF BR!Answered
<1>12. CASE BR!generateDailyWithBackoff(u)
  <2> DEFINE b == [at |-> "wait", n |-> job[u].n + 1]
  <2>1. job' = [job EXCEPT ![u] = b] /\ UNCHANGED <<day, faults>>
    BY <1>12 DEF BR!generateDailyWithBackoff
  <2>2. b \in Digesting /\ b # BR!Idle
    BY <1>1 DEF Digesting, BR!Idle
  <2> HIDE DEF b
  <2> QED
    BY <1>1, <1>5, <2>1, <2>2
<1>13. CASE BR!writeFallbackDaily(u)
  <2>1. CASE BR!DailyUpsert(u, BR!Here.k, "fallback") /\ UNCHANGED faults
    BY <1>7, <1>10, <1>13, <2>1 DEF BR!writeFallbackDaily
  <2>2. CASE BR!Fault /\ UNCHANGED <<day, week>>
    BY <1>8, <1>13, <2>2 DEF BR!writeFallbackDaily, BR!Fault
  <2> QED
    BY <1>13, <2>1, <2>2 DEF BR!writeFallbackDaily
<1>14. CASE BR!generateOneWeekly(u)
  BY <1>9, <1>14 DEF BR!generateOneWeekly
<1> QED
  BY <1>6, <1>11, <1>12, <1>13, <1>14

-----------------------------------------------------------------------------
\* The worker goes on in its plan.
LEMMA Replanned ==
    ASSUME BriefInv, BR!BriefingsAssumption, BriefTyped', UNCHANGED day, cron.at' # "down",
           Turning' => Turning, faults' = faults \/ faults' = faults + 1,
           \A o \in User, k \in 1 .. Retried + 1 :
              day[o][k] = "due" => faults' = faults + 1 \/ (Ahead(o, k) => Ahead(o, k)')
    PROVE  BriefInv'
<1>1. faults \in Nat /\ faults' \in Nat /\ Retried \in Nat
  BY DEF BriefInv, BriefTyped, BR!BriefingsAssumption
<1>2. (cron.at = "down" \/ Turning => faults >= 1)'
  BY <1>1 DEF BriefInv
<1>3. ASSUME NEW o \in User, NEW k \in 1 .. Retried + 1, day[o][k] = "due"
      PROVE  Paid(k, Ahead(o, k)', Turning', faults')
  <2>1. Paid(k, Ahead(o, k), Turning, faults) /\ k \in Int
    BY <1>3 DEF BriefInv
  <2>2. /\ Ahead(o, k) \in BOOLEAN /\ Ahead(o, k)' \in BOOLEAN
        /\ Turning \in BOOLEAN /\ Turning' \in BOOLEAN
    BY DEF Ahead, Turning
  <2>3. Paid(k, Ahead(o, k)', Turning, faults')
    <3>1. (faults' >= faults /\ (Ahead(o, k) => Ahead(o, k)')) \/ faults' = faults + 1
      BY <1>1, <1>3
    <3> QED
      BY <1>1, <2>1, <2>2, <3>1, PaidMore
  <2> QED
    BY <1>1, <2>2, <2>3 DEF Paid
<1> QED
  BY <1>2, <1>3 DEF BriefInv

LEMMA BeginBrief ==
    ASSUME BriefInv, BR!BriefingsAssumption, BR!Begin
    PROVE  BriefInv'
<1>1. /\ cron \in Routine /\ job \in [User -> Digesting] /\ cron.plan \in Seq(PlannedSteps)
      /\ faults \in Nat /\ cron.plan # << >> /\ cron.at = "between"
      /\ UNCHANGED <<day, week, weekday, night>>
  BY DEF BriefInv, BriefTyped, Routine, BR!Begin
<1>2. CASE /\ cron' = [cron EXCEPT !.at = "step"] /\ UNCHANGED faults
           /\ job' = [u \in User |-> IF u \in BR!UserIDsMissing(BR!Here) THEN [at |-> "wait", n |-> 0] ELSE BR!Idle]
  <2>1. cron' \in Routine /\ cron'.at = "step" /\ cron'.plan = cron.plan /\ cron'.crossed = cron.crossed
    BY <1>1, <1>2 DEF Routine
  <2>2. job' \in [User -> Digesting]
    BY <1>2 DEF Digesting, BR!Idle
  <2>3. BriefTyped'
    BY <1>1, <1>2, <2>1, <2>2 DEF BriefInv, BriefTyped
  <2>4. Turning' => Turning
    BY <1>1, <2>1 DEF Turning, Passing
  <2>5. ASSUME NEW o \in User, NEW k \in 1 .. Retried + 1, day[o][k] = "due", Ahead(o, k)
        PROVE  Ahead(o, k)'
    <3>1. PICK i \in DOMAIN cron.plan : cron.plan[i] = DayStep(k)
      BY <2>5 DEF Ahead
    <3>2. i = 1 => job'[o] # BR!Idle
      <4>1. SUFFICES ASSUME i = 1 PROVE job'[o] # BR!Idle
        OBVIOUS
      <4>2. BR!Here = DayStep(k)
        BY <1>1, <3>1, <4>1 DEF BR!Here
      <4>3. o \in BR!UserIDsMissing(BR!Here)
        BY <2>5, <4>2 DEF BR!UserIDsMissing, BR!DailyMissing, BR!Missing, DayStep
      <4>4. job'[o] = [at |-> "wait", n |-> 0]
        BY <1>2, <4>3
      <4> QED
        BY <4>4 DEF BR!Idle
    <3> QED
      BY <2>1, <3>1, <3>2 DEF Ahead, Over, Passing
  <2> QED
    BY <1>1, <1>2, <2>1, <2>3, <2>4, <2>5, Replanned
<1>3. CASE cron' = [cron EXCEPT !.plan = Tail(@)] /\ BR!Fault /\ UNCHANGED job
  <2>0. Tail(cron.plan) \in Seq(PlannedSteps)
    BY <1>1
  <2>1. cron' \in Routine /\ cron'.at = "between" /\ cron'.crossed = cron.crossed
    BY <1>1, <1>3, <2>0 DEF Routine
  <2>2. faults' = faults + 1
    BY <1>3 DEF BR!Fault
  <2>3. BriefTyped'
    BY <1>1, <1>3, <2>1, <2>2 DEF BriefInv, BriefTyped
  <2>4. Turning' => Turning
    BY <1>1, <2>1 DEF Turning, Passing
  <2> QED
    BY <1>1, <2>1, <2>2, <2>3, <2>4, Replanned
<1> QED
  BY <1>2, <1>3 DEF BR!Begin

LEMMA EndBrief ==
    ASSUME BriefInv, BR!BriefingsAssumption, BR!End
    PROVE  BriefInv'
<1>1. /\ cron \in Routine /\ job \in [User -> Digesting] /\ cron.plan \in Seq(PlannedSteps)
      /\ faults \in Nat /\ UNCHANGED <<day, week, weekday, night, job, faults>>
      /\ (cron.at = "step" => cron.plan # << >>)
  BY DEF BriefInv, BriefTyped, Routine, BR!End
<1>2. CASE /\ cron.at = "step" /\ (\A u \in User : job[u] = BR!Idle)
           /\ cron' = [cron EXCEPT !.at = "between", !.plan = Tail(@)]
  <2>0. Tail(cron.plan) \in Seq(PlannedSteps)
    BY <1>1, <1>2
  <2>1. /\ cron' \in Routine /\ cron'.at = "between" /\ cron'.plan = Tail(cron.plan)
        /\ cron'.crossed = cron.crossed
    BY <1>1, <1>2, <2>0 DEF Routine
  <2>3. BriefTyped'
    BY <1>1, <2>1 DEF BriefInv, BriefTyped
  <2>4. Turning' => Turning
    BY <1>1, <1>2, <2>1 DEF Turning, Passing
  <2>5. ASSUME NEW o \in User, NEW k \in 1 .. Retried + 1, Ahead(o, k)
        PROVE  Ahead(o, k)'
    <3>1. PICK i \in DOMAIN cron.plan : cron.plan[i] = DayStep(k) /\ i # 1
      BY <1>2, <2>5 DEF Ahead, Over
    <3>2. i - 1 \in DOMAIN Tail(cron.plan) /\ Tail(cron.plan)[i - 1] = DayStep(k)
      BY <1>1, <1>2, <3>1
    <3> QED
      BY <2>1, <3>2 DEF Ahead, Over, Passing
  <2> QED
    BY <1>1, <2>1, <2>3, <2>4, <2>5, Replanned
<1>3. CASE cron.at = "between" /\ cron.plan = << >> /\ cron' = BR!Asleep
  <2>1. cron' \in Routine /\ cron'.at = "asleep"
    <3>1. << >> \in Seq(PlannedSteps)
      OBVIOUS
    <3> QED
      BY <1>3, <3>1 DEF BR!Asleep, Routine
  <2>2. BriefTyped'
    BY <1>1, <2>1 DEF BriefInv, BriefTyped
  <2>3. Turning' => Turning
    BY <2>1 DEF Turning, Passing
  <2>4. ASSUME NEW o \in User, NEW k \in 1 .. Retried + 1 PROVE ~Ahead(o, k)
    BY <1>3 DEF Ahead
  <2> QED
    BY <1>1, <2>1, <2>2, <2>3, <2>4, Replanned
<1> QED
  BY <1>2, <1>3 DEF BR!End

LEMMA StopBrief ==
    ASSUME BriefInv, BR!BriefingsAssumption, BR!Stop
    PROVE  BriefInv'
<1>1. /\ faults \in Nat /\ faults' = faults + 1 /\ UNCHANGED <<day, night>> /\ Retried \in Nat
      /\ cron' = [BR!Asleep EXCEPT !.at = "down"] /\ job' = [u \in User |-> BR!Idle]
  BY DEF BriefInv, BriefTyped, BR!Stop, BR!Fault, BR!BriefingsAssumption
<1>2. cron' \in Routine /\ cron'.at = "down"
  <2>1. << >> \in Seq(PlannedSteps)
    OBVIOUS
  <2> QED
    BY <1>1, <2>1 DEF BR!Asleep, Routine
<1>3. BriefTyped'
  BY <1>1, <1>2 DEF BriefInv, BriefTyped, BR!Idle, Digesting
<1>4. ASSUME NEW o \in User, NEW k \in 1 .. Retried + 1, day[o][k] = "due"
      PROVE  Paid(k, Ahead(o, k)', Turning', faults')
  <2>1. Paid(k, Ahead(o, k), Turning, faults) /\ k \in Int
    BY <1>4 DEF BriefInv
  <2>2. ~Turning'
    BY <1>2 DEF Turning, Passing
  <2> QED
    BY <1>1, <2>1, <2>2 DEF Paid
<1> QED
  BY <1>1, <1>3, <1>4 DEF BriefInv

\* The plans of a start and of 05:00.
LEMMA PlansAhead ==
    ASSUME Retried \in Nat, CatchUp \in Nat
    PROVE  /\ BR!DailyPass \in Seq(PlannedSteps)
           /\ BR!DailyPass \o BR!WeeklyPass(1) \in Seq(PlannedSteps)
           /\ BR!DailyPass \o BR!WeeklyPass(CatchUp) \in Seq(PlannedSteps)
           /\ \A p \in {BR!DailyPass, BR!DailyPass \o BR!WeeklyPass(1), BR!DailyPass \o BR!WeeklyPass(CatchUp)} :
                \A k \in 1 .. Retried : k \in DOMAIN p /\ p[k] = DayStep(k)
<1>1. /\ BR!DailyPass \in Seq(PlannedSteps) /\ DOMAIN BR!DailyPass = 1 .. Retried
      /\ Len(BR!DailyPass) = Retried /\ \A k \in 1 .. Retried : BR!DailyPass[k] = DayStep(k)
  <2>1. BR!DailyPass \in [1 .. Retried -> PlannedSteps]
    BY DEF BR!DailyPass, PlannedSteps
  <2>2. BR!DailyPass \in Seq(PlannedSteps)
    BY <2>1, SeqDef
  <2> QED
    BY <2>1, <2>2, LenProperties DEF BR!DailyPass, DayStep
<1>2. ASSUME NEW n \in Nat
      PROVE  /\ BR!DailyPass \o BR!WeeklyPass(n) \in Seq(PlannedSteps)
             /\ \A k \in 1 .. Retried : /\ k \in DOMAIN (BR!DailyPass \o BR!WeeklyPass(n))
                                        /\ (BR!DailyPass \o BR!WeeklyPass(n))[k] = DayStep(k)
  <2> DEFINE s == BR!DailyPass
             t == BR!WeeklyPass(n)
  <2>1. t \in [1 .. n -> PlannedSteps]
    BY DEF BR!WeeklyPass, PlannedSteps
  <2>2. t \in Seq(PlannedSteps)
    BY <2>1, SeqDef
  <2>3. s \in Seq(PlannedSteps) /\ Len(s) = Retried /\ \A k \in 1 .. Retried : s[k] = DayStep(k)
    BY <1>1
  <2> HIDE DEF s, t
  <2>4. /\ s \o t \in Seq(PlannedSteps) /\ Len(s \o t) = Retried + Len(t) /\ Len(t) \in Nat
        /\ \A k \in 1 .. Retried : (s \o t)[k] = s[k]
    BY <2>2, <2>3
  <2>5. DOMAIN (s \o t) = 1 .. (Retried + Len(t))
    BY <2>4, LenProperties
  <2> QED
    BY <2>3, <2>4, <2>5 DEF s, t
<1> QED
  BY <1>1, <1>2

LEMMA CatchUpBrief ==
    ASSUME BriefInv, BR!BriefingsAssumption, BR!runBriefingCatchUp
    PROVE  BriefInv'
<1> DEFINE p == BR!DailyPass \o BR!WeeklyPass(CatchUp)
<1>1. /\ faults \in Nat /\ UNCHANGED <<day, night, job, faults>> /\ cron.at = "down"
      /\ cron' = [at |-> "between", crossed |-> FALSE, plan |-> p]
      /\ Retried \in Nat /\ CatchUp \in Nat /\ faults >= 1
  BY DEF BriefInv, BriefTyped, BR!runBriefingCatchUp, BR!BriefingsAssumption
<1>2. p \in Seq(PlannedSteps) /\ \A k \in 1 .. Retried : k \in DOMAIN p /\ p[k] = DayStep(k)
  BY <1>1, PlansAhead
<1> HIDE DEF p
<1>3. cron' \in Routine /\ cron'.at = "between" /\ cron'.plan = p
  BY <1>1, <1>2 DEF Routine
<1>4. BriefTyped'
  BY <1>1, <1>3 DEF BriefInv, BriefTyped
<1>5. ASSUME NEW o \in User, NEW k \in 1 .. Retried + 1, day[o][k] = "due"
      PROVE  Paid(k, Ahead(o, k)', Turning', faults')
  <2>1. Paid(k, Ahead(o, k), Turning, faults) /\ k \in Int
    BY <1>5 DEF BriefInv
  <2>2. ~Ahead(o, k)
    BY <1>1 DEF Ahead, Passing
  <2>3. k <= Retried => Ahead(o, k)'
    <3>1. k <= Retried => k \in DOMAIN p /\ p[k] = DayStep(k)
      BY <1>1, <1>2
    <3> QED
      BY <1>3, <3>1 DEF Ahead, Over, Passing
  <2> QED
    BY <1>1, <2>1, <2>2, <2>3 DEF Paid
<1> QED
  BY <1>1, <1>3, <1>4, <1>5 DEF BriefInv

LEMMA LateBrief ==
    ASSUME BriefInv, BR!BriefingsAssumption, NEW u \in User, BR!LateArticle(u)
    PROVE  BriefInv'
<1>1. /\ faults \in Nat /\ faults' = faults + 1 /\ day' = [day EXCEPT ![u][1] = "due"]
      /\ UNCHANGED <<night, cron, job>> /\ Retried \in Nat /\ Retried >= 2
      /\ day \in [User -> [1 .. Retried + 1 -> Digests]]
  BY DEF BriefInv, BriefTyped, BR!LateArticle, BR!Fault, BR!BriefingsAssumption
<1>2. BriefTyped'
  BY <1>1 DEF BriefInv, BriefTyped, Digests, BR!Missing
<1>3. /\ Turning' = Turning /\ \A o \in User : \A k \in 1 .. Retried + 1 : Ahead(o, k)' = Ahead(o, k)
  BY <1>1 DEF Turning, Passing, Ahead, Over
<1>4. ASSUME NEW o \in User, NEW k \in 1 .. Retried + 1, day'[o][k] = "due"
      PROVE  Paid(k, Ahead(o, k)', Turning', faults')
  <2>1. CASE day[o][k] = "due"
    <3>1. Paid(k, Ahead(o, k), Turning, faults) /\ k \in Int
      BY <2>1 DEF BriefInv
    <3> QED
      BY <1>1, <1>3, <3>1 DEF Paid
  <2>2. CASE k = 1
    BY <1>1, <1>3, <2>2 DEF Paid, BriefInv
  <2> QED
    BY <1>1, <1>4, <2>1, <2>2
<1>5. (cron.at = "down" \/ Turning => faults >= 1)'
  BY <1>1
<1> QED
  BY <1>2, <1>4, <1>5 DEF BriefInv

-----------------------------------------------------------------------------
\* A pass goes on while the day or the week turns.
LEMMA Crossed ==
    ASSUME BriefTyped, NEW what, BR!Crossing(what), Passing
    PROVE  /\ ~cron.crossed /\ cron' \in Routine /\ cron'.at = cron.at /\ cron'.crossed
           /\ DOMAIN cron'.plan = DOMAIN cron.plan /\ (cron.plan # << >> => cron'.plan # << >>)
           /\ \A i \in DOMAIN cron.plan :
                cron'.plan[i] = IF cron.plan[i].of = what
                                THEN [of |-> what, k |-> cron.plan[i].k + 1] ELSE cron.plan[i]
<1> DEFINE p == cron.plan
           w == BR!Older(cron.plan, what)
<1>1. /\ ~cron.crossed /\ cron' = [cron EXCEPT !.crossed = TRUE, !.plan = w] /\ cron \in Routine
      /\ p \in Seq(PlannedSteps)
  BY DEF BR!Crossing, Passing, BriefTyped, Routine
<1>2. DOMAIN p = 1 .. Len(p) /\ Len(p) \in Nat /\ \A i \in DOMAIN p : p[i] \in PlannedSteps
  BY <1>1, LenProperties
<1>3. \A i \in DOMAIN p :
        w[i] = IF p[i].of = what THEN [of |-> what, k |-> p[i].k + 1] ELSE p[i]
  <2>1. ASSUME NEW i \in DOMAIN p, p[i].of = what
        PROVE  [p[i] EXCEPT !.k = @ + 1] = [of |-> what, k |-> p[i].k + 1]
    BY <1>2, <2>1 DEF PlannedSteps
  <2> QED
    BY <2>1 DEF BR!Older
<1>4. ASSUME NEW i \in DOMAIN p PROVE w[i] \in PlannedSteps
  <2>1. /\ p[i] \in PlannedSteps /\ p[i].of \in {"day", "week"} /\ p[i].k \in Nat
        /\ w[i] = IF p[i].of = what THEN [of |-> what, k |-> p[i].k + 1] ELSE p[i]
    BY <1>2, <1>3 DEF PlannedSteps
  <2>2. ASSUME what \in {"day", "week"} PROVE [of |-> what, k |-> p[i].k + 1] \in PlannedSteps
    <3>1. \A n \in Nat : [of |-> what, k |-> n] \in PlannedSteps
      BY <2>2 DEF PlannedSteps
    <3>2. p[i].k + 1 \in Nat
      BY <2>1
    <3> QED
      BY <3>1, <3>2
  <2> HIDE DEF w, p
  <2>3. CASE p[i].of = what
    BY <2>1, <2>2, <2>3
  <2>4. CASE p[i].of # what
    BY <2>1, <2>4
  <2> QED
    BY <2>3, <2>4
<1>5. w \in [1 .. Len(p) -> PlannedSteps] /\ DOMAIN w = DOMAIN p
  BY <1>2, <1>4 DEF BR!Older
<1>6. w \in Seq(PlannedSteps)
  BY <1>2, <1>5, SeqDef
<1>7. p # << >> => w # << >>
  BY <1>2, <1>5, <1>6
<1> HIDE DEF w
<1>8. cron' \in Routine /\ cron'.at = cron.at /\ cron'.crossed = TRUE /\ cron'.plan = w
  BY <1>1, <1>6 DEF Routine
<1> QED
  BY <1>1, <1>3, <1>5, <1>7, <1>8

LEMMA MidnightBrief ==
    ASSUME BriefInv, BR!BriefingsAssumption, BR!MondayLabel
    PROVE  BriefInv'
<1>1. /\ ~night /\ night' = TRUE /\ UNCHANGED <<day, job, faults>> /\ cron \in Routine /\ BriefTyped
      /\ \E what \in {"week", "none"} : BR!Crossing(what)
  BY DEF BriefInv, BriefTyped, BR!MondayLabel
<1>2. PICK what \in {"week", "none"} : BR!Crossing(what)
  BY <1>1
<1>3. CASE Passing
  <2>1. /\ cron' \in Routine /\ cron'.at = cron.at /\ cron'.crossed
        /\ DOMAIN cron'.plan = DOMAIN cron.plan /\ (cron.plan # << >> => cron'.plan # << >>)
        /\ \A i \in DOMAIN cron.plan :
             cron'.plan[i] = IF cron.plan[i].of = what
                             THEN [of |-> what, k |-> cron.plan[i].k + 1] ELSE cron.plan[i]
    BY <1>1, <1>2, <1>3, Crossed
  <2>2. BriefTyped'
    BY <1>1, <2>1 DEF BriefTyped
  <2>3. ASSUME NEW o \in User, NEW k \in 1 .. Retried + 1, Ahead(o, k) PROVE Ahead(o, k)'
    <3>1. PICK i \in DOMAIN cron.plan : cron.plan[i] = DayStep(k) /\ ~Over(o, i)
      BY <2>3 DEF Ahead
    <3>2. i \in DOMAIN cron'.plan /\ cron'.plan[i] = DayStep(k)
      <4>1. cron.plan[i].of # what
        BY <3>1 DEF DayStep
      <4> QED
        BY <2>1, <3>1, <4>1
    <3>3. ~(cron'.at = "step" /\ i = 1 /\ job'[o] = BR!Idle)
      BY <1>1, <2>1, <3>1 DEF Over
    <3> QED
      BY <1>3, <2>1, <3>2, <3>3 DEF Ahead, Over, Passing
  <2>4. ~Turning' /\ cron.at' # "down"
    BY <1>3, <2>1 DEF Turning, Passing
  <2> QED
    BY <1>1, <2>2, <2>3, <2>4, Replanned
<1>4. CASE ~Passing
  <2>1. cron' = cron
    BY <1>2, <1>4 DEF BR!Crossing, Passing
  <2>2. BriefTyped'
    BY <1>1, <2>1 DEF BriefTyped
  <2>3. ~Turning /\ ~Turning' /\ \A o \in User : \A k \in 1 .. Retried + 1 : Ahead(o, k)' = Ahead(o, k)
    BY <1>1, <1>4, <2>1 DEF Turning, Passing, Ahead, Over
  <2>4. faults' = faults /\ cron'.at = cron.at
    BY <1>1, <2>1
  <2>5. ASSUME NEW o \in User, NEW k \in 1 .. Retried + 1, day'[o][k] = "due"
        PROVE  Paid(k, Ahead(o, k)', Turning', faults')
    <3>1. Paid(k, Ahead(o, k), Turning, faults)
      BY <1>1, <2>5 DEF BriefInv
    <3> QED
      BY <2>3, <2>4, <3>1 DEF Paid
  <2> QED
    BY <2>2, <2>3, <2>4, <2>5 DEF BriefInv
<1> QED
  BY <1>3, <1>4

LEMMA MorningBrief ==
    ASSUME BriefInv, BR!BriefingsAssumption, BR!TodayLabel
    PROVE  BriefInv'
<1>1. /\ night /\ night' = FALSE /\ UNCHANGED job /\ cron \in Routine /\ BriefTyped
      /\ Retried \in Nat /\ Retried >= 2 /\ CatchUp \in Nat /\ faults \in Nat
  BY DEF BriefInv, BriefTyped, BR!TodayLabel, BR!BriefingsAssumption
<1>2. PICK new \in [User -> BR!Missing] : day' = [u \in User |-> BR!Back(day[u], new[u])]
  BY DEF BR!TodayLabel
<1>3. ASSUME NEW o \in User
      PROVE  /\ day'[o] \in [1 .. Retried + 1 -> Digests]
             /\ \A k \in 1 .. Retried + 1 : k # 1 => k - 1 \in 1 .. Retried /\ day'[o][k] = day[o][k - 1]
  <2>1. day[o] \in [1 .. Retried + 1 -> Digests] /\ new[o] \in Digests
    BY DEF BriefInv, BriefTyped, Digests
  <2>2. ASSUME NEW k \in 1 .. Retried + 1, k # 1 PROVE k - 1 \in 1 .. Retried /\ k - 1 \in 1 .. Retried + 1
    BY <1>1, <2>2
  <2>3. day'[o] = [k \in 1 .. Retried + 1 |-> IF k = 1 THEN new[o] ELSE day[o][k - 1]]
    BY <1>2, <2>1 DEF BR!Back
  <2>4. \A k \in 1 .. Retried + 1 :
          (IF k = 1 THEN new[o] ELSE day[o][k - 1]) \in Digests
    BY <2>1, <2>2
  <2>5. day'[o] \in [1 .. Retried + 1 -> Digests]
    BY <2>3, <2>4
  <2>6. ASSUME NEW k \in 1 .. Retried + 1, k # 1 PROVE day'[o][k] = day[o][k - 1]
    BY <2>3, <2>6
  <2> QED
    BY <2>2, <2>5, <2>6
<1>4. day' \in [User -> [1 .. Retried + 1 -> Digests]]
  BY <1>2, <1>3
<1>5. ~Turning'
  BY <1>1 DEF Turning
\* What was due yesterday.
<1>6. ASSUME NEW o \in User, NEW k \in 1 .. Retried + 1, day'[o][k] = "due", k # 1
      PROVE  k - 1 \in 1 .. Retried /\ Paid(k - 1, Ahead(o, k - 1), Turning, faults)
  <2>1. k - 1 \in 1 .. Retried /\ k - 1 \in 1 .. Retried + 1 /\ day[o][k - 1] = "due"
    BY <1>1, <1>3, <1>6
  <2> QED
    BY <2>1 DEF BriefInv
<1>7. CASE cron.at = "asleep"
  <2>1. faults' = faults /\ cron' = BR!fireBriefings
    BY <1>7 DEF BR!TodayLabel
  <2> DEFINE p == IF weekday = 1 THEN BR!DailyPass \o BR!WeeklyPass(1) ELSE BR!DailyPass
  <2>2. p \in Seq(PlannedSteps) /\ \A k \in 1 .. Retried : k \in DOMAIN p /\ p[k] = DayStep(k)
    BY <1>1, PlansAhead
  <2>3. cron' = [at |-> "between", crossed |-> FALSE, plan |-> p]
    BY <2>1 DEF BR!fireBriefings
  <2> HIDE DEF p
  <2>4. cron' \in Routine /\ cron'.at = "between" /\ cron'.plan = p
    BY <2>2, <2>3 DEF Routine
  <2>5. BriefTyped'
    BY <1>1, <1>4, <2>1, <2>4 DEF BriefTyped
  <2>6. ASSUME NEW o \in User, NEW k \in 1 .. Retried + 1, day'[o][k] = "due"
        PROVE  Paid(k, Ahead(o, k)', Turning', faults')
    <3>1. k <= Retried => Ahead(o, k)'
      <4>1. k <= Retried => k \in DOMAIN p /\ p[k] = DayStep(k)
        BY <1>1, <2>2
      <4> QED
        BY <2>4, <4>1 DEF Ahead, Over, Passing
    <3>2. k \in Int /\ k >= 1 /\ k <= Retried + 1
      BY <1>1
    <3>3. k # 1 => faults >= k - 1
      <4>1. k # 1 => ~Ahead(o, k - 1)
        BY <1>7 DEF Ahead, Passing
      <4> QED
        BY <1>1, <1>6, <2>6, <3>2, <4>1 DEF Paid
    <3> QED
      BY <1>1, <1>5, <2>1, <3>1, <3>2, <3>3 DEF Paid
  <2>7. (cron.at = "down" \/ Turning => faults >= 1)'
    BY <1>5, <2>4
  <2> QED
    BY <2>5, <2>6, <2>7 DEF BriefInv
<1>8. CASE Passing
  <2>1. faults' = faults /\ BR!Crossing("day")
    BY <1>8 DEF BR!TodayLabel, Passing
  <2>2. /\ ~cron.crossed /\ cron' \in Routine /\ cron'.at = cron.at
        /\ DOMAIN cron'.plan = DOMAIN cron.plan /\ (cron.plan # << >> => cron'.plan # << >>)
        /\ \A i \in DOMAIN cron.plan :
             cron'.plan[i] = IF cron.plan[i].of = "day"
                             THEN [of |-> "day", k |-> cron.plan[i].k + 1] ELSE cron.plan[i]
    BY <1>1, <1>8, <2>1, Crossed
  <2>3. Turning /\ faults >= 1
    BY <1>1, <1>8, <2>2 DEF Turning, BriefInv
  <2>4. BriefTyped'
    BY <1>1, <1>4, <2>1, <2>2 DEF BriefTyped
  <2>5. ASSUME NEW o \in User, NEW k \in 1 .. Retried + 1, k # 1, Ahead(o, k - 1) PROVE Ahead(o, k)'
    <3>1. PICK i \in DOMAIN cron.plan : cron.plan[i] = DayStep(k - 1) /\ ~Over(o, i)
      BY <2>5 DEF Ahead
    <3>2. i \in DOMAIN cron'.plan /\ cron'.plan[i] = DayStep(k)
      <4>1. cron.plan[i].of = "day" /\ cron.plan[i].k + 1 = k
        BY <1>1, <3>1 DEF DayStep
      <4> QED
        BY <2>2, <3>1, <4>1 DEF DayStep
    <3>3. ~(cron'.at = "step" /\ i = 1 /\ job'[o] = BR!Idle)
      BY <1>1, <2>2, <3>1 DEF Over
    <3> QED
      BY <1>8, <2>2, <3>2, <3>3 DEF Ahead, Over, Passing
  <2>6. ASSUME NEW o \in User, NEW k \in 1 .. Retried + 1, day'[o][k] = "due"
        PROVE  Paid(k, Ahead(o, k)', Turning', faults')
    <3>1. k \in Int /\ k >= 1 /\ k <= Retried + 1
      BY <1>1
    <3>2. CASE k = 1
      BY <1>1, <1>5, <2>1, <2>3, <3>2 DEF Paid
    <3>3. CASE k # 1
      <4>1. /\ faults >= k - 1
            /\ ~Ahead(o, k - 1) => faults >= k
        BY <1>1, <1>6, <2>3, <2>6, <3>1, <3>3 DEF Paid
      <4>2. Ahead(o, k - 1) => Ahead(o, k)'
        BY <2>5, <3>3
      <4> QED
        BY <1>1, <1>5, <2>1, <3>1, <4>1, <4>2 DEF Paid
    <3> QED
      BY <3>2, <3>3
  <2>7. (cron.at = "down" \/ Turning => faults >= 1)'
    BY <2>1, <2>3
  <2> QED
    BY <2>4, <2>6, <2>7 DEF BriefInv
<1>9. CASE cron.at = "down"
  <2>1. faults' = faults + 1 /\ cron' = cron
    BY <1>9 DEF BR!TodayLabel, BR!Crossing, BR!Fault
  <2>2. BriefTyped'
    <3>0. night' \in BOOLEAN
      BY <1>1
    <3>1. faults' \in Nat /\ night' \in BOOLEAN
      <4>1. faults \in Nat /\ faults' = faults + 1
        BY <1>1, <2>1
      <4> QED
        BY <3>0, <4>1
    <3>2. cron' \in Routine /\ cron'.at # "step" /\ job' \in [User -> Digesting]
      BY <1>1, <1>9, <2>1 DEF BriefTyped
    <3> QED
      BY <1>4, <3>1, <3>2 DEF BriefTyped
  <2>3. ASSUME NEW o \in User, NEW k \in 1 .. Retried + 1, day'[o][k] = "due"
        PROVE  Paid(k, Ahead(o, k)', Turning', faults')
    <3>1. k \in Int /\ k >= 1 /\ k <= Retried + 1
      BY <1>1
    <3>2. k # 1 => faults >= k - 1
      <4>1. k # 1 => ~Ahead(o, k - 1)
        BY <1>9 DEF Ahead, Passing
      <4> QED
        BY <1>1, <1>6, <2>3, <3>1, <4>1 DEF Paid
    <3> QED
      BY <1>1, <1>5, <2>1, <3>1, <3>2 DEF Paid
  <2>4. (cron.at = "down" \/ Turning => faults >= 1)'
    BY <1>1, <2>1
  <2> QED
    BY <2>2, <2>3, <2>4 DEF BriefInv
<1>10. cron.at = "asleep" \/ cron.at = "down" \/ Passing
  BY <1>1 DEF Routine, Passing
<1> QED
  BY <1>7, <1>8, <1>9, <1>10

LEMMA BriefStep == ASSUME BR!BriefingsAssumption, BriefInv, [BR!Next]_BR!vars PROVE BriefInv'
<1>1. CASE UNCHANGED BR!vars
  <2>1. UNCHANGED <<day, week, weekday, night, cron, job, faults>>
    BY <1>1 DEF BR!vars
  <2>2. BriefTyped' /\ Turning' = Turning /\ cron.at' = cron.at /\ faults' = faults
    BY <2>1 DEF BriefInv, BriefTyped, Turning, Passing
  <2>3. \A o \in User : \A k \in 1 .. Retried + 1 : Ahead(o, k)' = Ahead(o, k)
    BY <2>1 DEF Ahead, Over, Passing
  <2>4. ASSUME NEW o \in User, NEW k \in 1 .. Retried + 1, day'[o][k] = "due"
        PROVE  Paid(k, Ahead(o, k)', Turning', faults')
    <3>1. Paid(k, Ahead(o, k), Turning, faults)
      BY <2>1, <2>4 DEF BriefInv
    <3> QED
      BY <2>2, <2>3, <3>1 DEF Paid
  <2> QED
    BY <2>2, <2>4 DEF BriefInv
<1> QED
  BY <1>1, AskedBrief, BeginBrief, EndBrief, StopBrief, CatchUpBrief, LateBrief, MidnightBrief, MorningBrief
     DEF BR!Next

\* The calendar of internal/scheduler: the days a pass goes through have their
\* digest, or a text in its place, before they leave the window, unless as many
\* mornings were spoiled, by a stop of the worker or by the routing, as a pass
\* goes through; and a reader is not told that yesterday's is pending for ever.
THEOREM BriefingKeptAlways == ASSUME BR!BriefingsAssumption PROVE BR!Spec => []BR!BriefingKept
<1>1. BriefInv => BR!BriefingKept
  <2> SUFFICES ASSUME BriefInv, cron.at = "asleep", NEW u \in User
               PROVE  /\ faults < Retried => \A k \in DOMAIN day[u] \ BR!PendingWindow : day[u][k] # "due"
                      /\ faults <= 1 /\ "bare" \notin {day[u][1], day[u][2]} => BR!DailyGet(u) # "pending"
    BY DEF BR!BriefingKept
  <2>1. /\ Retried \in Nat /\ Retried >= 2 /\ faults \in Nat
        /\ day[u] \in [1 .. Retried + 1 -> Digests]
    BY DEF BR!BriefingsAssumption, BriefInv, BriefTyped
  <2>2. ~Turning /\ \A k : ~Ahead(u, k)
    BY DEF Turning, Ahead, Passing
  <2>3. ASSUME NEW k \in 1 .. Retried + 1, day[u][k] = "due"
        PROVE  faults >= IF k > Retried THEN Retried ELSE k
    <3>1. Paid(k, Ahead(u, k), Turning, faults) /\ k \in Int
      BY <2>3 DEF BriefInv
    <3> QED
      BY <2>1, <2>2, <3>1 DEF Paid
  <2>4. ASSUME faults < Retried, NEW k \in DOMAIN day[u] \ BR!PendingWindow
        PROVE  day[u][k] # "due"
    <3>1. k \in 1 .. Retried + 1 /\ k > Retried
      BY <2>1, <2>4 DEF BR!PendingWindow
    <3> QED
      BY <2>1, <2>3, <2>4, <3>1
  <2>5. ASSUME faults <= 1, "bare" \notin {day[u][1], day[u][2]}
        PROVE  BR!DailyGet(u) # "pending"
    <3>1. 2 \in 1 .. Retried + 1 /\ ~(2 > Retried)
      BY <2>1
    <3>2. day[u][2] # "due"
      BY <2>1, <2>3, <2>5, <3>1
    <3>3. day[u][2] \notin BR!Missing
      BY <2>5, <3>2 DEF BR!Missing
    <3> QED
      BY <3>3 DEF BR!DailyGet
  <2> QED
    BY <2>4, <2>5
<1> QED
  BY <1>1, BriefInit, BriefStep, PTL DEF BR!Spec

=============================================================================
