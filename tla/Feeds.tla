------------------------------- MODULE Feeds -------------------------------
(* Subscriptions: the worker's fetch cycle, a reader's "fetch now" and the *)
(* settings of a feed.  cmd/worker/main.go and subscription.go,            *)
(* internal/rss/fetcher.go, internal/api/feed.go, repository/feed.go.      *)
(*                                                                         *)
(* A site publishes versions of its document; version v shows the items    *)
(* Items(v) and its validator (ETag, Last-Modified) is v, 0 when none is   *)
(* kept.  The due time of a feed is the time still to wait.                *)
EXTENDS Naturals, FiniteSets, FiniteSetsExt

CONSTANTS
    Feed, OwnerOf,  \* OwnerOf[f]: whose subscription it is
    Html,           \* the feeds scraped from a page: they have no validator
    MaxVersion, Window,
    Batch,          \* new articles one fetch stores (maxNewArticlesPerFeed)
    GlobalLimit, OwnerLimit,
    Interval, Soon, Base, MaxWait, MaxFailures,
    MaxRestarts     \* restarts of the worker

ASSUME FeedsAssumption ==
    /\ Html \subseteq Feed
    /\ MaxVersion \in Nat \ {0} /\ Window \in Nat \ {0} /\ Batch \in Nat
    /\ MaxWait \in Nat /\ Interval \in 0..MaxWait /\ Soon \in 0..MaxWait
    /\ Base \in Nat /\ MaxFailures \in Nat /\ MaxRestarts \in Nat

VARIABLES
    site,           \* site[f]: version the publisher serves
    feed,           \* feed[f]: status, on (is_active), tag, wait, failures
    article,        \* article[f]: items stored
    work,           \* work[f][p]: what process p is doing with the feed
    restarts

vars == <<site, feed, article, work, restarts>>

Version == 1..MaxVersion
Items(v) == v..(v + Window - 1)
Item == 1..(MaxVersion + Window - 1)
Process == {"worker", "manual"}
Row == [status : {"none", "active", "paused", "archived", "gone"}, on : BOOLEAN,
        tag : 0..MaxVersion, wait : 0..MaxWait, failures : 0..MaxFailures]
Work == [at : {"idle", "queued", "fetch", "store"}, tag : 0..MaxVersion,
         version : 0..MaxVersion, todo : SUBSET Item, making : SUBSET Item,
         made : SUBSET Item, pending : BOOLEAN, failed : BOOLEAN]
Idle == [at |-> "idle", tag |-> 0, version |-> 0, todo |-> {}, making |-> {},
         made |-> {}, pending |-> FALSE, failed |-> FALSE]

TypeOK ==
    /\ site \in [Feed -> Version]
    /\ feed \in [Feed -> Row]
    /\ article \in [Feed -> SUBSET Item]
    /\ work \in [Feed -> [Process -> Work]]
    /\ restarts \in 0..MaxRestarts

Init ==
    /\ site = [f \in Feed |-> 1]
    /\ feed = [f \in Feed |-> [status |-> "none", on |-> FALSE, tag |-> 0,
                               wait |-> 0, failures |-> 0]]
    /\ article = [f \in Feed |-> {}]
    /\ work = [f \in Feed |-> [p \in Process |-> Idle]]
    /\ restarts = 0

Live(f) == feed[f].status \notin {"none", "gone"}
Least(a, b) == IF a <= b THEN a ELSE b
Becomes(f, p, w) == work' = [work EXCEPT ![f][p] = w]

-----------------------------------------------------------------------------
\* What a fetch writes to the row; a feed deleted meanwhile has no row.
Writes(f, row) == feed' = IF Live(f) THEN [feed EXCEPT ![f] = row] ELSE feed

Backoff(n) == Least(MaxWait, Base * 2 ^ Least(n, 7))

RecordFetchFailure(f) ==
    Writes(f, [feed[f] EXCEPT !.wait = Backoff(feed[f].failures),
                              !.failures = Least(@ + 1, MaxFailures)])

UpdateFetchInfo(f, tag) ==
    Writes(f, [feed[f] EXCEPT !.tag = tag, !.wait = Interval, !.failures = 0])

CompleteFetchAlways(f, tag, pending) ==
    Writes(f, [feed[f] EXCEPT !.tag = tag, !.failures = 0,
                              !.wait = IF pending THEN Soon ELSE Interval])
\* The validator is kept only when nothing of the document is left to store.
CompleteFetch(f, tag, pending) ==
    Writes(f, [feed[f] EXCEPT !.tag = IF pending THEN 0 ELSE tag, !.failures = 0,
                              !.wait = IF pending THEN Soon ELSE Interval])

-----------------------------------------------------------------------------
\* One cycle of the subscription loop.  The rows are read once, so a feed is
\* fetched with the validator it had when the cycle began; the next cycle
\* waits for every fetch of this one.
shouldFetch(f) == feed[f].wait = 0
GetAllActive == {f \in Feed : feed[f].status = "active"}
Running == {f \in Feed : work[f]["worker"].at \in {"fetch", "store"}}

fetchAllFeeds ==
    /\ \A f \in Feed : work[f]["worker"] = Idle
    /\ \E f \in GetAllActive : shouldFetch(f)
    /\ work' = [f \in Feed |->
         IF f \in GetAllActive /\ shouldFetch(f)
         THEN [work[f] EXCEPT !["worker"] = [Idle EXCEPT !.at = "queued", !.tag = feed[f].tag]]
         ELSE work[f]]
    /\ UNCHANGED <<site, feed, article, restarts>>

\* A waiting feed takes a slot of its owner and of the process.  The budget
\* may refuse it (admitBackground); then nothing is written.
dispatchSubscriptionFeeds(f) ==
    /\ work[f]["worker"].at = "queued"
    /\ Cardinality(Running) < GlobalLimit
    /\ Cardinality({g \in Running : OwnerOf[g] = OwnerOf[f]}) < OwnerLimit
    /\ \/ Becomes(f, "worker", [work[f]["worker"] EXCEPT !.at = "fetch"])
       \/ Becomes(f, "worker", Idle)
    /\ UNCHANGED <<site, feed, article, restarts>>

-----------------------------------------------------------------------------
\* A reader fetches the feed now, in the transaction of the request.
FetchNow(f) ==
    /\ Live(f)
    /\ work[f]["manual"] = Idle
    /\ Becomes(f, "manual", [Idle EXCEPT !.at = "fetch", !.tag = feed[f].tag])
    /\ UNCHANGED <<site, feed, article, restarts>>

\* The publisher answers: not modified, or the document it serves now.  A page
\* is scraped anew each time and gives no validator.
NotModified(f, tag) == f \notin Html /\ tag = site[f]
Document(f) == Items(site[f])
Tag(f, w) == IF f \in Html THEN 0 ELSE w.version

Answer(f, p) ==
    LET w == work[f][p] IN
    /\ w.at = "fetch"
    /\ IF NotModified(f, w.tag)
       THEN (UpdateFetchInfo(f, w.tag) \/ UNCHANGED feed) /\ Becomes(f, p, Idle)
       ELSE /\ Becomes(f, p, [w EXCEPT !.at = "store", !.version = site[f],
                                       !.todo = Document(f)])
            /\ UNCHANGED feed
    /\ UNCHANGED <<site, article, restarts>>

\* A failed request: the worker records it, the handler only answers.
FetchError(f, p) ==
    /\ work[f][p].at = "fetch"
    /\ (p = "worker" /\ RecordFetchFailure(f)) \/ UNCHANGED feed
    /\ Becomes(f, p, Idle)
    /\ UNCHANGED <<site, article, restarts>>

\* Each item is looked up, newest first.  The worker hands a new one to a
\* goroutine; the handler stores it before the next.  Past the batch the rest
\* stays pending.
Exists(f, p, i) == i \in article[f] \cup work[f][p].made

Scan(f, p, i) ==
    LET w == work[f][p]
        q == Cardinality(w.making) + Cardinality(w.made)
    IN  /\ w.at = "store" /\ i \in w.todo /\ i = Max(w.todo)
        /\ p = "manual" => w.making = {}
        /\ \/ Exists(f, p, i) /\ Becomes(f, p, [w EXCEPT !.todo = @ \ {i}])
           \/ /\ ~Exists(f, p, i)
              /\ Becomes(f, p,
                   IF q >= Batch THEN [w EXCEPT !.todo = {}, !.pending = TRUE]
                   ELSE [w EXCEPT !.todo = @ \ {i}, !.making = @ \cup {i}])
        /\ UNCHANGED <<site, feed, article, restarts>>

\* ON CONFLICT DO NOTHING: an article another fetch has stored is no error; a
\* row that a transaction has not committed makes the insert wait.
CreateSubscriptionArticle(f, p, i) ==
    LET w == work[f][p] IN
    /\ w.at = "store" /\ i \in w.making /\ Live(f)
    /\ p = "worker" => i \notin work[f]["manual"].made
    /\ Becomes(f, p, [w EXCEPT !.making = @ \ {i}, !.made = @ \cup {i}])
    /\ article' = IF p = "worker" THEN [article EXCEPT ![f] = @ \cup {i}] ELSE article
    /\ UNCHANGED <<site, feed, restarts>>

\* A look-up or an insert fails (for ever when the feed is gone).  The worker
\* lets its other goroutines end; the handler's transaction is rolled back.
StorageFailed(f, p) ==
    LET w == work[f][p] IN
    /\ w.at = "store" /\ w.todo \cup w.making # {}
    /\ Becomes(f, p,
         IF p = "manual" THEN Idle
         ELSE IF w.making # {} THEN [w EXCEPT !.failed = TRUE, !.making = @ \ {Max(@)},
                                             !.made = @ \cup {Max(w.making)}]
         ELSE [w EXCEPT !.failed = TRUE, !.todo = {}])
    /\ UNCHANGED <<site, feed, article, restarts>>

\* The worker acknowledges the document unless something was not stored.
Finish(f) ==
    LET w == work[f]["worker"] IN
    /\ w.at = "store" /\ w.todo = {} /\ w.making = {}
    /\ \/ /\ IF w.failed THEN RecordFetchFailure(f)
             ELSE CompleteFetch(f, Tag(f, w), w.pending)
       \/ UNCHANGED feed
    /\ Becomes(f, "worker", Idle)
    /\ UNCHANGED <<site, article, restarts>>

\* The handler's articles and its acknowledgement commit together, or not.
Commit(f) ==
    LET w == work[f]["manual"] IN
    /\ w.at = "store" /\ w.todo = {} /\ w.making = {}
    /\ \/ /\ CompleteFetch(f, Tag(f, w), w.pending)
          /\ article' = IF Live(f) THEN [article EXCEPT ![f] = @ \cup w.made] ELSE article
       \/ UNCHANGED <<feed, article>>
    /\ Becomes(f, "manual", Idle)
    /\ UNCHANGED <<site, restarts>>

-----------------------------------------------------------------------------
\* The settings of a feed.  "status" and "is_active" are kept alike.
Create(f) ==
    /\ feed[f].status = "none"
    /\ feed' = [feed EXCEPT ![f] = [status |-> "active", on |-> TRUE, tag |-> 0,
                                    wait |-> 0, failures |-> 0]]
    /\ UNCHANGED <<site, article, work, restarts>>

SetActive(f, on) ==
    feed' = [feed EXCEPT ![f].on = on, ![f].status = IF on THEN "active" ELSE "paused"]

SetStatus(f, s) == feed' = [feed EXCEPT ![f].status = s, ![f].on = (s = "active")]

Update(f, on) ==
    /\ Live(f)
    /\ SetActive(f, on)
    /\ UNCHANGED <<site, article, work, restarts>>

UpdateStatus(f, s) ==
    /\ Live(f)
    /\ SetStatus(f, s)
    /\ UNCHANGED <<site, article, work, restarts>>

\* Deleting a feed deletes its articles; fetches that are running go on.
Delete(f) ==
    /\ Live(f)
    /\ feed' = [feed EXCEPT ![f] = [status |-> "gone", on |-> FALSE, tag |-> 0,
                                    wait |-> 0, failures |-> 0]]
    /\ article' = [article EXCEPT ![f] = {}]
    /\ UNCHANGED <<site, work, restarts>>

\* The publisher moves on: old items leave the document.
Publish(f) ==
    /\ site[f] < MaxVersion
    /\ site' = [site EXCEPT ![f] = @ + 1]
    /\ UNCHANGED <<feed, article, work, restarts>>

Restart ==
    /\ restarts < MaxRestarts
    /\ \E f \in Feed : work[f]["worker"] # Idle
    /\ work' = [f \in Feed |-> [work[f] EXCEPT !["worker"] = Idle]]
    /\ restarts' = restarts + 1
    /\ UNCHANGED <<site, feed, article>>

Tick ==
    /\ \E f \in Feed : feed[f].wait > 0
    /\ feed' = [f \in Feed |-> IF feed[f].wait > 0 THEN [feed[f] EXCEPT !.wait = @ - 1]
                               ELSE feed[f]]
    /\ UNCHANGED <<site, article, work, restarts>>

Settings(f) ==
    \/ Create(f) \/ Delete(f)
    \/ \E on \in BOOLEAN : Update(f, on)
    \/ \E s \in {"active", "paused", "archived"} : UpdateStatus(f, s)

Store(f, p) ==
    \/ StorageFailed(f, p)
    \/ \E i \in Item : Scan(f, p, i) \/ CreateSubscriptionArticle(f, p, i)

Next ==
    \/ fetchAllFeeds \/ Restart \/ Tick
    \/ \E f \in Feed :
         \/ dispatchSubscriptionFeeds(f) \/ FetchNow(f) \/ Finish(f) \/ Commit(f)
         \/ Settings(f) \/ Publish(f)
         \/ \E p \in Process : Answer(f, p) \/ FetchError(f, p) \/ Store(f, p)

Spec == Init /\ [][Next]_vars

\* The loop keeps running, requests end and time passes; the budget, the publisher and the
\* database do not refuse for ever.
DispatchFetch(f) == dispatchSubscriptionFeeds(f) /\ work'[f]["worker"].at = "fetch"
Answered(f) == Answer(f, "worker") /\ (work'[f]["worker"].at = "store" \/ feed' # feed)
Finished(f) == Finish(f) /\ feed' # feed

Fairness ==
    /\ WF_vars(fetchAllFeeds) /\ WF_vars(Tick)
    /\ \A f \in Feed :
         /\ SF_vars(DispatchFetch(f))
         /\ SF_vars(Answered(f))
         /\ WF_vars(Store(f, "manual")) /\ WF_vars(Commit(f)) /\ WF_vars(Finish(f))
         /\ SF_vars(Finished(f))
         /\ \A i \in Item : /\ SF_vars(Scan(f, "worker", i))
                            /\ SF_vars(CreateSubscriptionArticle(f, "worker", i))

FairSpec == Spec /\ Fairness

-----------------------------------------------------------------------------
\* A validator is kept only for a document all of whose items are stored, so
\* that "not modified" never hides an article: through a worker and a handler
\* that fetch the feed at once, full batches, failures and restarts.
NothingMissed ==
    \A f \in Feed : Live(f) /\ feed[f].tag # 0 => Items(feed[f].tag) \subseteq article[f]

\* The two columns that say whether a feed is fetched never disagree
\* ("paused in UI, still fetched by worker").
StatusMirrored == \A f \in Feed : feed[f].on <=> feed[f].status = "active"

\* A feed that stays active is caught up again and again: every item the
\* publisher still shows is stored, although a fetch stores a batch at most
\* and failures make it wait (createArticle, RecordFetchFailure).
Undisturbed(f) == feed[f].status = "active" /\ work[f]["manual"] = Idle
Current(f) == Items(site[f]) \subseteq article[f]
CaughtUp == \A f \in Feed : <>[]Undisturbed(f) => []<>Current(f)

\* For TLC: all feeds belong to one reader.
OneOwner == [f \in Feed |-> "owner"]
=============================================================================
