# RSS Pal: a TLA+ model of its server

RSS Pal is a self-hosted feed reader. A Go server answers API requests, Go
worker processes fetch feeds, explore new sources, summarise articles and build
recommendations, and PostgreSQL holds everything that outlives a process. The
parts that are hard to get right are the ones where several processes, or
several requests, work on the same rows with a network call of minutes in
between: queues with leases, budgets, generation of batches, saving of results
that may be out of date, codes that may be used once, quotas, restores. This
directory models those parts, checks them with TLC on small instances, and
proves the most important results with TLAPS for every value of the constants.

All source paths below are relative to `src/backend/` unless they begin with
another directory.

## 1. Inventory

### 1.1 Components of the worker and its queues

**Explore fetch queue** (`ExploreQueue`; `internal/repository/explore_queue.go`,
`explore_retry.go`, `explore_processor.go`, `explore_related_processor.go`,
`explore_related_tasks.go`; the scheduler in `cmd/worker/explore.go` and
`explore_runtime.go`; the source rows in `explore_catalog.go`)

- State: `recommended_feeds` (fetch state, failures, next retry, validation
  status, last check, merge target), `explore_fetch_queue` and
  `explore_related_tasks` (status, lease token, run, expiry, not-before),
  `explore_fetch_runs`; in each worker process the cycle flags and the handler
  pool.
- Operations: `Enqueue` from provider syncs, due-source scans and
  subscriptions; `Produce` of related-site seeds; a minute tick that runs
  `RecoverExpired`, else `ClaimRun`; the pool's `Process`, which reads the
  source without a lock, fetches, and persists one outcome in a transaction
  fenced by the lease token; `FinishRun`.
- Hard: leases that expire under a live handler, crashes between claim and
  outcome, two dispatchers in one window, outcomes out of order, a source that
  is stopped while tasks of it are pending, aliases that turn out to be one
  feed, a budget of retries.

**Explore snapshots** (`ExploreSnapshot`; `explore_snapshot.go`,
`cmd/worker/explore.go`, `internal/explore/ranker.go`). Batches by user and
slot, claimed by one of several workers, ranked for minutes, published under a
fence. Hard: takeover of a claim whose owner is alive, sources that turn
invalid meanwhile, commits reported as failed, marks in memory that outlive
their reason.

**Providers and related sites** (`Registry`, `RelatedSeeds`;
`internal/explore/registry.go`, `related.go`, `repository/explore_registry.go`).
Directories of feeds, fetched conditionally; the evidence that an entry was
shown; the round robin of seeds. Only a mark in a worker's memory keeps two
synchronizations apart: a second process (`--refresh-explore-once`,
`cmd/worker/main.go:117-127`) and one that outlasts its window of hours can meet
another. Hard: an answer "not modified" stands for a document of which a stopped
synchronization materialised half; one that is overtaken must write nothing.

**Feeds** (`Feeds`; `cmd/worker/main.go`, `subscription.go`,
`internal/rss/fetcher.go`, `repository/feed.go`, `api/feed.go`). Due feeds, the
dispatcher and its limits, conditional fetches, batches of new articles,
backoff, "fetch now". Hard: a validator that is stored although a part of its
document is not.

**Looking at an address** (`FeedPreview`; `rss/fetcher.go`, `resolver.go`).
Probes of well-known paths at once, of which the first good answers win.

**Network clients** (`AddressRace`; `httpx/address_fallback.go`,
`image_scheduler.go`). Several addresses of one site; lanes, connections, a
second attempt and its promotion, shared by all image requests.

**Article summary jobs** (`SummaryJobs`;
`repository/article_summary_jobs.go` and its callers). One leased job for an
article, shared by the worker, API requests and browsers that compute the
result themselves, while the content is replaced.

**AI summarizer, routing, images** (`Summarizer`, `AIRouting`, `ImageCache`;
`internal/ai`, `airouting`, `imagefetch`). Two halves of a summary with
attempts, fallbacks and streaming; whose key goes to whose endpoint; the
pictures a model is shown.

**Transcripts, English-life, PDF and OCR** (`Transcripts`, `EnglishLife`,
`Clips`). Texts for videos from several sources that fail in different ways; a
paid third party with one session for the installation; scans that a loop of
the worker reads.

**Interest analyses, briefings, classification** (`Analyses`, `Briefings`,
`Profile`). Daily and nightly jobs next to readers' own requests; quotas,
missed nights, crashes; what signals and the model's classification make of
interests and tags.

**Task budget** (`TaskBudget`, `Admission`; `internal/taskbudget/budget.go`).
Charges and leases of every paid task, checked and written by different
statements at different instants.

### 1.2 Components that serve readers

**Request transaction** (`RequestTx`; `api/rls.go`, `after_commit.go`,
`committed_json.go`, `savepoint.go`). Every authenticated request is one
transaction that ends after its handler has answered. Hard: the answer, the
commit and the hooks that follow it can part.

**Accounts** (`SignIn`, `Registration`, `Tokens`, `AuthGuard`;
`api/account_auth.go`, `account_oauth.go`, `auth.go`, `auth_abuse.go` and their
repositories). Codes, OAuth flows, tickets, invitations, share links that admit,
passwords, access and refresh tokens, limits of attempts. Hard: everything that
may be used once and is presented twice; a session that changes while a
provider is asked.

**Shares and the phone shortcut** (`Sharing`, `ShareAssets`, `Shortcut`;
`api/share.go`, `shortcut.go` and their repositories). Links that freeze a
text; keys that capture until they are revoked.

**Reading progress** (`Reading`, `Playback`; `repository/progress*.go`,
`playback_progress.go`, `api/article_read_range.go`). Positions from several
devices, bulk marks, undo within minutes; the signal for a completed episode.

**Captures** (`Clips`, `LinkSets`; `api/bookmarklet*.go`,
`extension_ingest.go`, `repository/link_set.go`, `article_capture_drafts.go`,
`cmd/worker/linkset.go`, `pdf_ocr.go`). Pages, PDFs, batches of the extension,
on rows that may be an article of the reader's own feed; articles that are lists
of links, with drafts, notes and children.

**Explore for a reader** (`ExploreReader`, `ExploreCopies`; `api/explore.go`,
`repository/explore_article_state.go`, `explorecontent/article_content.go`,
`explore/subscribe*.go`, `content_repair.go`). The page, saving, exposures,
retention; the original fetched under a lease, the subscriber's copy, the repair
of old bodies.

**Backup** (`BackupFiles`, `Restore`; `internal/backup`). A directory that two
processes write and prune; archives restored into a database with other serial
numbers.

**YouTube relay** (`YouTubeRelay`; `internal/youtuberelay/service.go`). Sessions
in memory under a mutex that is left while a video is resolved.

How they interact: processes meet only in the database, by row locks, advisory
locks, `SKIP LOCKED`, unique indexes and tokens; requests also by the transaction
each of them runs in; the relay, the address race and the summarizer's permits in
the memory of one process. Articles are the rows most parts touch: a component's
model has the columns it reads and the writers of those columns, whichever
component they belong to (a capture in `SummaryJobs` and `Transcripts`, the
worker's classification of pages in `LinkSets`, a re-capture in `ImageCache`).

### 1.3 What is not modelled, or partly

`PROJECT.json` gives the reason for each. Not modelled: the Explore interest
profile (a pure computation that only the ranking sees), operations monitoring
(observes, decides nothing), the source directory and summary evaluation (static
data, an offline tool), the repair tools (run once by hand), the Reddit
collection (depends on a browser), the web frontend and the extension (clients,
present as concurrent requests), deployment.

Conversions without state are abstracted everywhere: parsing of feeds, pages,
captions and PDFs, prompts, scores, formatting, signatures and encryption. What
remains of a conversion is what the control depends on: an empty result, a
failure, a length class, an order. Partly modelled are therefore: feed parsing,
ranking, the content of digests, lists and searches over articles, the
administrator's pages of the Explore catalog, OPML import, the upload of
backups.

## 2. Modules

One module for each component, named above, with its properties at the end.
A component with a run of its own is checked as it stands, by a configuration
named after it; `MCReaders`, `MCContent`, `MCJobs` and `MCLive` put the others
together. The theorems are in `ExploreQueueProofs`, `TaskBudgetProofs`,
`JobProofs`, `NetworkProofs`, `ContentProofs`, `AccountProofs` and
`RecordProofs` (section 5). `Admission` is the abstract specification
that `TaskBudget` implements.

`PROJECT.json` ("map") gives for each definition the lines it stands for. A
definition that is not in the map and stands just before one that is, with the
same parameters (`HoldsAnyToken` before `Holds`), is a mutated form of it: used
nowhere, it shows that the property named for it in `PROJECT.json` would notice
the bug.

### Parts of one run

`MCReaders`, `MCContent`, `MCJobs` and `MCLive` check many components in one
run. Each has a variable `part` that never changes and a row of slots `s1`,
`s2`, ... that the part's module reads under the names of its own variables
(`INSTANCE Reading WITH row <- s1, ...`). A behaviour of the run is a behaviour
of one component, and the slots it does not need keep one value; the properties
are stated by part. Nothing is lost: the components put together share no
variable, and where two of them do write the same row in the code, each model
has the writers it needs itself. The constant `Parts` chooses the parts, so one
can also be checked alone.

### Granularity

A database transaction that is serialised by row locks from its first write is
one action (`ExploreQueue`, `ExploreSnapshot`, most of `LinkSets`, `Clips`).
Where the code reads before it locks, or where locks are held across statements
that others can come between, each statement is an action and the lock is a
variable or follows from the program counters (`TaskBudget`, `SummaryJobs`,
`Playback`, `Reading`, `SignIn`, `Registration`, `Shortcut`, `Analyses`). In
`YouTubeRelay`, `AddressRace` and `Summarizer` an action is a critical section, a
channel operation or an answer of the other side.

PostgreSQL's `CURRENT_TIMESTAMP` is the start of a transaction, so a handler of
the queue that waited for a lock compares with an instant earlier than the one
at which it takes effect; the model lets it pick any instant since its read.
`clock_timestamp()` in `TaskBudget`, `SummaryJobs` and `Analyses` is the instant
itself. In most other modules time is kept as an age or as what is left of a
term, so that no clock bounds the run.

A commit whose answer is lost is modelled where callers act on it: `Commit` of
`TaskBudget`, `ClaimError` and `PublishError` of `ExploreSnapshot`, `Rollback`
after a save in `SummaryJobs`, and in general in `RequestTx`.

Random tokens are numbers or names of which no two are alike. `Sharing` draws
its codes from a set small enough to collide, as the code provides for.

### How the state corresponds

- `ExploreQueue`: `source`, `task`, `run` are the tables' rows, one row for the
  history of each (source, task type), because partial unique indexes allow one
  active row and a closed row is never reopened; `worker` and `item` are the
  cycle and the pool of each process.
- `TaskBudget`: `used` and `leases` are the two tables for one bucket; `lock` is
  the advisory lock; `call[c].pc` is the last statement done.
- `SummaryJobs`: `content`, `summary`, `job` are rows as committed;
  `call[c].wrote` and the program counters are what an open transaction has
  written and locked.
- `ExploreSnapshot`: `batch` by slot, with its sources; `marked` is
  `snapshotSlots`; slot 0 is the cold-start slot.
- `Feeds`: `site` is the publisher's version, `feed[f].tag` the validator kept,
  `work[f]["worker"]` and `work[f]["manual"]` the fetches under way.
- `Reading`: `row[a].at` names the write a row was last touched by, which stands
  for `last_read_at`; `undo` is `ReadUndo`'s table; its field `real` is kept for
  the property only: what the mark really replaced.
- `Restore`: `article` and `tag` are tables by serial number; `disk` the
  archives; `expected` is kept for the property only.
- `EnglishLife`, `Summarizer`, `Transcripts`: the other side (the provider, the
  model, the sources) is a part of the state as far as the code can find out.
- The variables of every other module are commented where they are declared.

## 3. Runs

| Run | Question | Bounds |
|---|---|---|
| `queue_lease` | Do leases, fences and run quotas hold with two workers, takeovers and crashes? | 1 source (2 task types), 2 workers, batch of 1, lease 1, time 1..3 |
| `task_budget` | Are the limits kept, and is `Acquire` atomic? | 2 calls, 2 users and the site, 2 days, costs to 2, lease expiry within the run |
| `summary_jobs` | Are summaries fresh and callers fenced? | 1 worker, 1 API request, 1 browser, 2 contents |
| `youtube_relay` | Do capacity, index and single refresh hold? | 2 owners, 4 tickets, 2 starts, 2 streams |
| `readers` | Is what belongs to a reader kept: accounts, shares, progress, tags, backups? | 12 parts: 1 to 4 requests on the same row each |
| `content` | Is what is fetched and captured complete, of its URL, and reachable? | 14 parts: workers and requests on one or two rows each |
| `jobs` | Are records whole, quotas and bills exact, plans carried out, and the queue's sources kept under concurrent outcomes and merges? | 10 parts, with a crash or a fault each |
| `live` | Do orphans, failures, slots, scans, probes and image requests end? | 5 parts under fairness |
| `feeds_live` | Is a feed caught up? | 1 feed, 2 versions of 2 items, 1 new article to a fetch, a restart |
| `playback_benign` | violation: is an ignored duplicate benign? | 3 requests, 2 positions |
| `youtube_refresh` | violation: is a refresh transparent to every stream? | 1 owner, 2 streams |
| `rescan` | violation: is a scan that is sent again on the OCR loop's list? | the part "clips" of `content` |

What the runs of parts check, by property:

- `readers`. `AccountsKept`: a code, a ticket, an invitation serves once; a
  method belongs to who proved it; no window of the guard admits more than its
  limit. `AccountsSettled` (steps): a method never changes hands; a revoked share
  admits nobody; a password change that another overtook fails; a refresh token
  buys nothing after its logout; a refused attempt does not prolong a window.
  `SharesKept`: a reader told "saved" finds all of it; a disconnected phone
  captures nothing; only images are rewritten. `ReadersSettled` (steps): an undo
  restores what its mark replaced and nothing newer; a link keeps its text.
  `DataKept`: interests are earned, tags are their readers', pruning leaves no
  hole, a restored note is on its author's article.
- `content`. `FeedsKept`, `CapturesKept`, `ExploreKept`, `SourcesKept`,
  `NetworkKept`: a validator never hides an article, a note survives every
  transfer, a scan that nobody has read is not shown as ready, a saved article
  survives retention, what a page shows can be acted on, the body is of the URL and
  the summary of the body, evidence was really shown where no two synchronizations
  of a provider have met, and of two that meet the overtaken one writes nothing
  more, each owner's newest site has its turn, the one lane
  for second attempts has one holder, a file found is a whole picture.
- `jobs`. Of the queue, with two sources that may be one feed and a worker with two
  handlers: `RetryBudgetKept`, `TombstonesStayInvalid`, and the steps `StoppedSticky`
  and `DeadlineKept`. `RecordsWhole`: the signal for a completed episode is there once, with
  the completion; a batch is whole; seeds and sources share one lease.
  `ProvidersKept`: what streamed in is what was kept, and each permit is returned
  and billed; no key leaves its company; a video is paid for once; an article is
  given up only on answers. `PlansKept`: quotas of analyses, nights of briefings.
  `JobsFenced` (steps): only the latest claim publishes, a published batch never
  changes, an analysis is settled once.

Why the bounds suffice. Every property relates at most two actors to one row
and one later actor: the runs have two actors on each contended row, and time
enough for a lease to expire, be taken over, and for the first holder to come
back. In `queue_lease` a lease of one tick within three allows two takeovers of
one task. A batch of one task makes every second claim one that the quota must
refuse. In the part "queue, catalog" of `jobs` two sources are what a merge needs, and both handlers
of the pool hold one of them. A retry budget of one shows the last retry and the
exhaustion; the code's six only adds counting, which the theorem covers for every
budget. In `task_budget` the limits are small against the number of calls, so
each is reached. `Reading` has three requests, a mark, its undo and a device
between them, over two articles, which two marks can lock crosswise. `Restore`
has two readers whose feeds have one URL and a database made anew. `Shortcut` has
two phones with one code, a capture and the revocation. `AddressRace` has two
addresses, each tried twice, and in a second part two requests for the one lane.
`Registry` has one provider and two synchronizations, which may meet, and in a second
part two providers, of which one finds related sites.
`BackupFiles` has weeks of two days and months of three, so that a week straddles
a month, and archives grow old enough to be kept by month. A `Briefings` pass goes
through two days, and one morning is spoiled.
`EnglishLife` has two processes, a renewal of the cookie and one fault, which is
a lost answer, a late request or a crash. That each property can fail within
these bounds is shown by its mutant in `PROJECT.json`.

What TLC cannot bound soundly is in the guards, under names that begin with
`Max`, and `ResolveLimit` in the relay. Symmetry is used in safety runs only,
over sets whose elements nothing chooses among. The queue is checked with a `VIEW` (at
the end of `ExploreQueue`): of a closed row, of a run and of the token counter it keeps
what some step or the run's properties read.

Deadlock is checked in `queue_lease` and in the runs of the budget, the summary jobs and
the relay, where something is always possible. The runs of parts and `feeds_live`
switch the check off: most of their parts have a bound that ends a behaviour, a
last request answered or a last fault used up.

### Fairness

- `SummaryJobs`: a caller that has started goes on (`WF` of `Proceed`): every
  provider call has a deadline of six minutes and every statement a context. The
  worker's loop reads the articles without a summary every minute (`WF` of
  `Read`). `SF` of a worker's `ClaimSummary`: the worker is not killed each time
  between reading and claiming, and a claim that finds the row locked by a save,
  which is short, finds it free later. `WF` of `GetSummaryJob`: a reader who
  wants the article looks again; without one the code gives no guarantee for an
  article that has a summary, as the comment in `GetSummaryJob` says.
- `ExploreSnapshot`: `WF` of `Generate` for each worker and slot: the minute
  ticker starts it, and each step is a bounded call. Faults are finite in number;
  an empty ranking counts as one. The slot itself may pass: `NextSlot` is not
  held back.
- `Feeds`: `WF` of the cycle and of time; `SF` of the dispatch, of an answer that
  is no failure, of the storage of each item and of the end of a fetch. That is:
  the limits are shared with fetches that end, a site that is asked again and
  again answers some time, and neither the database nor a restart strikes each
  time. The promise is for a feed that stays active and whose reader does not
  hold a transaction on it for ever (`Undisturbed`).
- `Clips`: `WF` of the OCR cycle, `SF` of an attempt on a scan that keeps being
  found: a cycle takes a few and the oldest first. The promise is for clips, which
  the loop lists, and for a reader who stops sending scans again (`NoScans`).
- `FeedPreview`: `WF` of the handler and of each probe: requests have deadlines
  and goroutines run.
- `AddressRace`: `WF` of a request's loop, of its look at ended attempts and of
  each attempt: connections have deadlines, and goroutines run.
- `Tick`, where there is one: time passes.

## 4. Findings

1. *A duplicate signal is not benign* (`playback_benign`). `Put` ignores the
   unique violation of the `completed_listen` insert, but in PostgreSQL the
   violation has aborted the request's transaction. The commit rolls back, the
   position written by `Upsert` is lost, and the client has had status 200. The
   comment at `internal/api/playback.go:84` calls it expected and benign. It
   happens when two `PUT`s report the completion at about the same time, since
   `Upsert` then returns `NewlyCompleted` to both, although its comment
   (`playback_progress.go:54`) says exactly once.
2. *A refresh is not transparent to both streams* (`youtube_refresh`). Of the
   video and audio requests whose URLs expired together, one refreshes the
   session and the other fails, even after the new URLs are there
   (`service.go:399`).
3. *A scan that is sent again may be on nobody's list* (`rescan`). A capture finds
   the newest article of its URL, which may be one of the reader's own feed, and puts
   it into "processing" "so the worker's GetPDFOCRPending picks it up on the next
   tick" (`api/bookmarklet_pdf.go:107-110`; also `repository/article.go:2029-2032`).
   `GetPDFOCRPending` lists clips only (`article.go:2073-2075`): the article stays in
   "processing" until it is captured anew as something else, or a summary lifts it.
   `ClipScanDecided` is therefore about clips.

### Stated and not kept

These are stated in the modules, do not hold, and are in no configuration. Each
can be seen by adding it to its run: the first three are defined in `MCReaders`
and `MCContent` too, for `Parts = {"restore"}` with `Tags = 2`,
`Parts = {"image cache"}`, and `Parts = {"profile"}` with `Passes = 2`.

- `Restore!TagsReconnected`: `backup/snapshot_saved.go:30-32` promises that tags
  are reconnected to restored articles. `restore.go:269-272` maps the article's
  id and inserts the archive's tag id unchanged, while the tags themselves got
  new ids: in a database with other serial numbers the article has another tag
  (another reader's, in the shortest behaviour), or a foreign key undoes the
  whole restore.
- `ImageCache!ImageOfUrl`: "paths[i] is the on-disk JPEG for the URL gotURLs[i]"
  (`imagefetch.go:64-65`). The file is named by the place of the URL in the list
  and any file of that name is a hit (`imagefetch.go:126-132`): after a capture
  with other images the old one is handed over under the new URL.
- `Profile!ClassifiedOnce`: "Always cache (even empty) so we don't retry forever"
  (`cmd/worker/classify.go:61`). An empty category is stored as NULL
  (`repository/article.go:1431`), which is what the next pass selects
  (`article.go:1409`).
- `Analyses!PendingEnds`: "A crashed process cannot leave the user permanently
  pending" (`interest_admission.go:28-29`). Only a manual request fails the old
  row, and a refusal by the quota rolls that back; the daily job never does
  (`FairSpec` of the module, in which a reader need not ask).
- `Clips!AcceptedStored`: an item counted as accepted is "newly created"
  (`internal/extension/normalizer/types.go:26`). It is counted right after its
  insert (`extension_ingest.go:210-215`), and the inserts of a batch share one
  transaction: when a later insert fails, whatever the reason, the loop only notes
  the error, and the items counted before are rolled back while the answer tells of
  them. (Another request with the same items is no reason: what the extension sends
  are clips, `extension/normalizer/twitter.go:58`, which the unique index leaves
  out.) It needs two `Url`s.
- `Reading!ListMarkable`: an article saved twice (`preference.go:32` has no
  conflict clause) is twice in the statement that marks the saved list, which
  then fails, although the filters are meant to match what the list shows
  (`progress.go:103-105`). It needs `MaxSaves = 2`.
- `Transcripts!TroubleRetried`: a page or captions that were served but could not
  be read count as "no text", and the article is given up.
- `Briefings!WeekBeingMade`: a week whose Monday was missed is shown as being
  made, and made only when the worker starts again or the reader asks.

### Observed, and contradicted by no document

- `Clips!ReadyHasText` is false. OCR of blank pages, or of pages that are drawings
  only, gives an empty text (`pdfextract/ocr.go:118-121`, `markdown.go:19-24`), which
  is written and marked ready (`cmd/worker/pdf_ocr.go:151-162`). What holds is
  `ReadBeforeReady`: no scan is ready that nobody has read.
- The OCR loop writes by id, so that its result may replace a page that the reader
  captured under the same URL meanwhile. And a scan sent again that has a text from
  before, and no summary, may be lifted to "ready" by a summary of that text; the
  loop then does not read it.
- `EvidenceWasShown` is false of a provider whose synchronizations have met, which is
  what its exemption (`overlapped`) says. Y, begun at 3, fetches the directory while
  it lists a and b; X, begun at 2, is slow and fetches it when it lists b only, and
  records that validator; T, at 4, sends it and is answered 304; Y, which nothing has
  overtaken yet, records its own document as materialised at 3. The record of T's 304
  then renews what Y materialised, a among it, and later answers 304 do so again,
  until the directory changes.
- Logout ignores the error of its revocation (`api/auth.go:198`): when the database
  refuses it, the answer is 200 all the same and the refresh token goes on to work.
  `LogoutEnds` is about revocations that were stored.
- `ClaimSummary` takes a job that is `done`. A worker whose list is old may
  therefore generate again an article that was summarised by hand in the
  meantime, and replace that summary (the content is the same, so
  `SummaryFresh` holds).
- Two `Start`s of one owner at the same time make two sessions. Sweeping the
  older drops the owner's index entry, which by then belongs to the younger
  (`service.go:488`).
- `FinishRun` looks at the run's status only, so a superseded worker may close
  a run that another has recovered. Tasks are not affected. A shutdown during
  the hand-out of jobs leaves the rest leased until the whole lease has passed
  (`cmd/worker/explore.go:347`); then they are recovered.
- The worker writes whether a page's links can be followed from a page it read
  minutes before (`cmd/worker/linkset.go:101`), over a reader's own decision.

## 5. Proofs

The provers take the modules' `ASSUME`s and nothing else. Those of
`ExploreQueue`, `TaskBudget`, `SummaryJobs`, `YouTubeRelay` and `Feeds` are
evaluated by TLC in their runs. The modules that only take part in a run of parts
state theirs as an operator, which is a hypothesis of the theorems and a conjunct
of the run's `TypeOK`:

- in `MCJobs`, those of `ExploreSnapshot`, `Playback`, `AIRouting`, `Analyses`,
  `EnglishLife` and `Briefings`;
- in `MCReaders`, those of `Registration`, `SignIn`, `Tokens`, `AuthGuard`,
  `Sharing`, `Shortcut`, `Reading`, `Profile`, `BackupFiles` and `Restore`;
- in `MCContent`, those of `Registry`, `Clips`, `LinkSets`, `ExploreReader` and
  `AddressRace`.

`RequestTx`, `Transcripts`, `Summarizer`, `ExploreCopies` and `ImageCache` need
none. Each says what the code's own constants say (a lease, a limit, a term is
positive; a ticket of two minutes lives no longer than a flow of ten; there are
more connections than lanes, 4 and 3; a pass goes through two days at least) and that the model's values are apart.

| Module | Proved, for every value of the constants |
|---|---|
| `ExploreQueueProofs` | `OneBatch`, `RunQuota`, `RetryBudgetKept`, `PendingSound` and its two parts, `TombstonesStayInvalid`; steps: `Fenced`, `StoppedSticky`, `DeadlineKept` |
| `TaskBudgetProofs` | the daily and concurrency limits and `LimitsKept`, `LeaseHeld`, `Ledger`; the refinement `Atomic` |
| `JobProofs` | of `SummaryJobs`: `SummaryKept` (`SummaryFresh`, `SaverHolds`); steps: `LeaseKept`, `NoLostSummary`; of `Analyses`: `QuotaKept`; steps: `SettledOnce`; of `Transcripts`: `GivenUpOnAnswers`; of `Summarizer`: `SummaryHonest`; of `EnglishLife`: `ChargedOnce`, `SessionKept`; of `Briefings`: `BriefingKept` |
| `NetworkProofs` | of `YouTubeRelay`: `RelayKept` (capacity, index, single refresh); of `AddressRace`: `RaceFair` (`FirstHasSlot`, `LaneHeldOnce`, `FailedForReason`); of `ImageCache`: `FilesWhole` |
| `ContentProofs` | of `Feeds`: `NothingMissed`, `StatusMirrored`; of `ExploreCopies`: `BodyOfUrl`, `SummaryOfBody`; of `Registry`: `EvidenceWasShown`; steps: `NoStaleWrite`; of `Clips`: `ReadBeforeReady`; of `LinkSets`: `NotesKept`; of `ExploreReader`: `SavedHasCopy`, `ExposureSpaced`, `ShownActionable` |
| `AccountProofs` | of `Registration`: `CodeAdmitsOne`; steps: `AdmittedByLiveShare`, `ChangesFenced`; of `SignIn`: `SingleUse`, `LinkedByOwner`; steps: `MethodKept`; of `AuthGuard`: `WindowKept`; steps: `WindowFixed`; of `Tokens`, steps: `LogoutEnds` |
| `RecordProofs` | of `ExploreSnapshot`: `WholeBatch`; steps: `PublishedByHolder`, `DoneKept`; of `RequestTx`: `SavedMeansDurable`, `AllOrNothing`; of `Sharing`, steps: `LinkSettled`; of `Shortcut`: `RevokedIsRevoked`; of `AIRouting`: `KeysStayHome`; of `Reading`, steps: `ProgressKept`; of `Playback`: `SignalMatchesRow`; of `Profile`: `ProfileKept`; of `BackupFiles`: `Covered`; of `Restore`: `NotesOwned` |

The runs `readers`, `content` and `jobs` state a property by part, a theorem states
it for its component alone. Of `AccountsKept`, `AccountsSettled`, `ReadersSettled`,
`DataKept`, `CapturesKept`, `ExploreKept`, `NetworkKept`, `RecordsWhole`,
`PlansKept` and `JobsFenced` every part is proved; of `SharesKept`, `FeedsKept`,
`SourcesKept` and `ProvidersKept` all but one (below).

**ExploreQueueProofs.** Type correctness first. The main invariant says that all
leased tasks carry one run, one token and one expiry, that no token is higher
than the last drawn, and that every worker at work holds a token already drawn:
`OneBatch` is not inductive by itself, because a claim is safe only if nothing
else is leased and because a fresh token must differ from those that late
handlers still hold. `Fenced` follows from a step's guard on the token and from
this invariant. `NoPendingForStopped`, `PendingRespectsRetry`, their conjunction
`PendingSound`, and `RetryBudgetKept` are proved for the source rows, with one
step for each action that writes a row or a task: an enqueue looks at the row
under its lock, an outcome that stops or delays a source settles or moves the
sibling in the same transaction. `StoppedSticky` is an action property: every
action that writes a row is guarded by the row's own state. `RunQuota` needs that
no task belongs to the run of a window still to come, so that a new run starts
from zero; a claim then adds what its guard left room for, and every other step
takes tasks out of a run or leaves them. `TombstonesStayInvalid` is inductive
once types are known. `DeadlineKept` is about the two handlers of one source: when
one has recorded a retry, what the other may still record for that source must not
bring the deadline forward. Tokens are never drawn twice (`TokenInv`), so the
handlers whose answers still count are those of the present claim, and of a source
that waits such a handler fetched for a stage that the source is not in
(`DeadlineInv`), which its outcome leaves alone.

**TaskBudgetProofs.** The inductive invariant `Inv` says what a call knows at
each program counter: only the lock's holder is between its statements, so
charges cannot have grown since it checked, and leases that were not expired
when it counted can only have become fewer. From it: the daily and the
concurrency limits, together `LimitsKept`; that a working task's lease is in the
table; and that every step of `TaskBudget` is a step of `Admission` or a stutter,
with `used`, `leases` and the clock mapped to themselves. `AtomicAdmission` is
the refinement theorem for every value of the constants; the run checks it as a
property. `Ledger` says that the site's charge is the sum of the users'. The sum
is a recursive function on finite sets of users; that it has a value for each,
and grows by what one user's charge grows, is shown by a least counterexample
(`WFMin` on the natural numbers), which needs no operator as a parameter.

**JobProofs.** The invariant of `SummaryJobs` relates the clock of a call to that of its
lease: while a provider is asked, the job is still the caller's, and what is left
of the lease is its length less what the call has spent, because the provider's
deadline of six minutes comes first (`WorkInv`). And it says who holds which row
lock at each program counter: a save that has compared text and prior summary has
the article's row, so they are still what it compared (`LockInv`, `SavedInv`).
Hence a summary is of the present text, two savers exclude each other, a lease is
handed on only when it is over, and a browser's result replaces only the summary
it was computed against.

In `Analyses` who has counted holds the reader's lock until it has inserted, so
what it counted can only have become fewer; and one row at most is pending
(`AnalysesInv`). In `Transcripts` an article that was looked at and has no
transcript got no error from any source it was decided on, since errors leave it to
be taken again (`TranscriptsInv`). In `Summarizer` what is shown of a half is what
the call under way has said, a retry begins from nothing shown, and each permit is
with one call (`Told`, `Lineage`). In `EnglishLife` a job is noted before it is
sent: of an account and a video that no row says was asked for, nothing is on its
way and nothing was made (`Unsent`); a process between noting and sending still
knows that nothing was sent, because one process at a time is at work
(`Exclusive`); and the newest cookie is with that process, or else kept
(`Connected`).

The invariant of `Briefings` is an account. A day that is due and k days back has
been through k passes, and each that is over has cost a fault, whatever form it
took: a stop, a routing that was away, a model that failed. So what the faults
have not paid for is still in the plan of the pass under way (`Paid`, `Ahead`). The
one gap, a pass that is still at work at the next 05:00, needs a start of the worker
by night, which a stop has paid for already (`Turning`). The bound is exact: with as
many faults as a pass goes through days (three in the code), a day can be lost.

**NetworkProofs.** In `YouTubeRelay` sessions and resolving starts together stay
within capacity: a start takes its room before it resolves, and turns it into a
session or gives it back. The owner index points only to live sessions of that
owner; and a session that refreshes has one stream that does it, whichever streams
wait. In `AddressRace` the attempts that have taken the lane and not given it back
are one or none, as the mark says (`OneHolder`), while a promotion by the loop may
cross the attempt's own end. `FirstHasSlot` is a count: a request that is an image
has one first attempt and at most one second, at most `Lanes` images are under way
(`Admission`), and of their second attempts only the lane's holder has a connection,
so when a first attempt asks for one, fewer than `Lanes + 1` are in use
(`Watching`, with what the loop forgets and remembers, `Begun` and `Firm`). `FailedForReason` needs that an
address in the queue of retries was asked once, to the end, and that the addresses
below the next were asked (`Queued`, `Heard`). In `ImageCache` only a whole
temporary file is renamed (`ImagesInv`).

**ContentProofs.** In `Feeds` what each fetch under way carries is related to the
row it will write: a validator is stored only after everything of its version is
stored, by this fetch or another, whatever restarts, manual refreshes and failures
came between. `NothingMissed` follows: a feed whose validator is the publisher's
present one has all of its articles. `StatusMirrored` says that the two columns
which tell whether a feed is fetched agree. The backoff is a power of two under a
cap and the maximum of two times, both shown to be numbers here. The other
invariants too say what each request under way carries. In `ExploreCopies` a body
on its way to a copy is the feed's own text or the page of that URL, and a summary
is of the body it stands next to (`CopiesInv`). In `Registry` what was last
materialised was in the document whose validator is kept (`Materialized`), so a 304
may renew it: so it is for every provider whose synchronizations have not met, of
which the one under way is alone and the latest begun (`Listing`). For
`NoStaleWrite`, where they have met, each writes what it observed at its own time
only, and a write looks at the provider's row first (`SyncStep`). In `Clips` a row
that is not read has no text, so that no summary makes it ready, and every other
writer that does has read it (`Sound`). In `LinkSets` a
note that a reader was told is saved is on the draft, or on the child, or with the
request that carries it from one to the other and holds the locks of both
(`Holds`, `Written`). In `ExploreReader` who saves has the article's row
(`Locking`), and who counts an exposure is alone and has seen every earlier one
(`Counted`); `ShownActionable` is a fact about four queries written apart, with no
induction.

**AccountProofs.** In `Registration` a request that has found its code valid holds
the code's row lock, alone for an invitation, so what it found is still so
(`LockInv`, `FoundInv`); and of the requests that inserted an account under one
name, none of them committed, there is one (`NameInv`). In `SignIn` a code that
has signed in is consumed, a round trip that resolves presents the session it was
bound to, and one that has not come so far has not been used (`CodeInv`,
`FlowInv`); with the accounts made for methods (`OneAccountEach`) this gives the
three properties. `MethodKept` and `ChangesFenced` are steps: no request moves a
method to another account, and of the password changes that verified one hash one
takes effect. For `AuthGuard` the row of an open window has counted at least what
was let through in it (`CountInv`), so the limit on the one is a limit on the
other. For `Tokens` a request that renews a session holds a token that was issued.

**RecordProofs.** For `ExploreSnapshot` everything follows from the one lemma
`Writes`, that a batch is written in five ways only: claimed (or taken over),
published or failed by the holder of the claim, deleted when it is old, and grown
older. Each property is then a case for each. The invariant of `RequestTx`
(`HandlerInv`) says of a handler that runs that nothing of it is durable yet and
that, while its transaction is usable, what it has done and is required is among
what a commit would write (`Running`); of one that is over, that all or none is
there (`Ended`). A link of `Sharing` keeps what its row was inserted with, because
only a revocation writes that row again. In `Shortcut` a request that pairs,
connects or revokes holds the owner's row alone and captures share it
(`HolderInv`); so the key a capture found connected is connected when it commits
(`KeyInv`), and a code that was exchanged is not the present one (`SpentInv`). In
`AIRouting` a stored key stays with the endpoint it was typed in for
(`CredentialFits`). `ProgressKept` of `Reading` is the longest: what an open
request has written is what it would write now, since it has the row's lock
(`WrittenInv`); an undo that is open has its token to itself (`UndoInv`); and what
a mark saw is what it replaces. A mark compares a row with the one it saw, unless
there is none, when it inserts; so a row must never go away under a mark that saw
one. Only an undo takes a row away, and it does so for a mark that found none:
then every mark still open found none either, since no mark begins on a row that
is read (`MarkInv`, `ReplacedInv`). A request of `Playback` that has written the row
alone holds its lock, and the completion it read can only have come true since
(`PlaybackInv`): who added the signal found none, and who thought it added already
was right. In `Profile` whoever is credited gave a strong signal once, since a
signal taken back leaves the credit it earned (`ProfileInv`). `Covered` of
`BackupFiles` needs that what a pass is still to remove is not the newest of its
bucket on the day (`Superseded`), and that for each archive there ever was one is
listed of its week or, when that week's has gone, of the month of that week's
(`Stood`): a week and a month, not a month. A day that ends within a pass breaks
this, as TLC showed with buckets that straddle one another; a pass takes seconds
and follows the day's backup, so `Tick` waits for it. In `Restore` what a restore
has done so far leaves the rows that were there alone (`Carried`), for each prefix
of the archive, by a least counterexample as in `Ledger`.

**Only model-checked.** All liveness (`CaughtUp`, `JobsServed`, `CapturesServed`),
which is out of the prover's reach; and the type invariants of the runs of parts,
of which the proofs state only what they use. Of the safety properties these four,
each of which rests on what a recursive computation yields for every input:

- `EveryOwnerReached` of `RelatedSeeds`: a round robin whose cursor goes around by
  remainders of division, for which the provers have no theory;
- `NothingOverlooked` of `FeedPreview`: which probe wins is a fold over the answers;
- `ImagesOnly` of `ShareAssets`: the rewriting of a page is an induction over it;
- `WholeText` of `EnglishLife`: it joins the parts of a document in sorted order,
  and that a set has a sorted order is an induction over sets.

Where a recursive function is only needed to have a value, or to keep one fact from
step to step, a least counterexample (`WFMin` over the natural numbers) stands for
the induction: the backoffs, the sum of `Ledger`, the rows of `Restore`, the walk of
the retention.

## 6. Plan

Done: the queue, the task budget with its abstract specification, summary jobs,
playback, snapshots, the relay; then accounts, shares, reading progress, feeds,
captures, Explore's pages and copies, the providers, AI, transcripts, analyses
and briefings, the address race, backup and restore.

What is left, in order of worth:

1. An abstract lease (a task is executed by one holder at a time, and a late
   answer changes nothing) that `SummaryJobs`, `ExploreCopies` and the queue
   implement.
2. The administrator's pages of the Explore catalog, OPML import, the debounce of
   the backup trigger.
3. The four properties that section 5 leaves to TLC.
