--------------------------- MODULE ContentProofs ----------------------------
(***************************************************************************)
(* Theorems about where articles come from and what is kept of them: the   *)
(* fetches of Feeds, the extractions of ExploreCopies, the directories of  *)
(* Registry, the captures of Clips, the notes of LinkSets and the picks of *)
(* ExploreReader, for every set of feeds, URLs, providers, pages, links    *)
(* and sources, and every size of documents, batches and windows.          *)
(*                                                                         *)
(* The invariant of Feeds says what a fetch under way knows: the items of  *)
(* the document whose validator it sent are stored, and those of the one   *)
(* it got are stored, being stored, or still to be looked up, unless it    *)
(* has noticed that it leaves some out.  The others likewise say of every  *)
(* request under way what it carries: the URL its page was extracted from, *)
(* the document its entries come from and whether another synchronization  *)
(* has met it, the URLs it is for, where its note is to go, and the        *)
(* article it has locked; and of every row that it was read.               *)
(***************************************************************************)
EXTENDS Feeds, WellFoundedInduction, FiniteSetTheorems, SequenceTheorems, TLAPS

-----------------------------------------------------------------------------
(* Type correctness *)

LEMMA Numbers ==
    /\ MaxVersion \in Nat \ {0} /\ Window \in Nat \ {0}
    /\ MaxWait \in Nat /\ Interval \in 0..MaxWait /\ Soon \in 0..MaxWait
    /\ Base \in Nat /\ MaxFailures \in Nat /\ MaxRestarts \in Nat
BY FeedsAssumption

\* The newest of some items is one of them.
LEMMA MaxIsItem ==
    ASSUME NEW S \in SUBSET Item, S # {}
    PROVE  Max(S) \in S
<1> DEFINE K == MaxVersion + Window - 1
           T == {K - x : x \in S}
<1>1. K \in Nat /\ \A x \in S : x \in 1..K
  BY Numbers DEF Item
<1> HIDE DEF K
<1>2. T \subseteq Nat /\ T # {}
  BY <1>1
<1>3. PICK m \in T : \A k \in T : <<k, m>> \notin OpToRel(<, Nat)
  BY <1>2, NatLessThanWellFounded, WFMin
<1>4. \A k \in T : ~ (k < m)
  BY <1>2, <1>3, Zenon DEF OpToRel
<1>5. PICK x \in S : m = K - x
  BY <1>3
<1>6. ASSUME NEW y \in S PROVE x >= y
  <2>1. ~ (K - y < K - x)
    BY <1>4, <1>5
  <2>2. x \in Nat /\ y \in Nat
    BY <1>1
  <2> QED
    BY <1>1, <2>1, <2>2
<1> QED
  BY <1>6 DEF Max

LEMMA BackoffType == \A n \in Nat : Backoff(n) \in 0..MaxWait
<1> SUFFICES ASSUME NEW n \in Nat PROVE Backoff(n) \in 0..MaxWait
  OBVIOUS
<1> DEFINE k == Least(n, 7)
<1>1. k \in {0, 1, 2, 3, 4, 5, 6, 7}
  BY DEF Least
<1>2. /\ 2^0 \in Nat /\ 2^1 \in Nat /\ 2^2 \in Nat /\ 2^3 \in Nat
      /\ 2^4 \in Nat /\ 2^5 \in Nat /\ 2^6 \in Nat /\ 2^7 \in Nat
  OBVIOUS
<1> HIDE DEF k
<1>3. 2^k \in Nat
  BY <1>1, <1>2
<1> DEFINE x == Base * 2^k
<1>4. x \in Nat
  BY <1>3, Numbers
<1> HIDE DEF x
<1>5. Least(MaxWait, x) \in 0..MaxWait
  BY <1>4, Numbers DEF Least
<1> QED
  BY <1>5 DEF Backoff, k, x

LEMMA IdleType == Idle \in Work
BY Numbers DEF Idle, Work

LEMMA InitType == Init => TypeOK
BY Numbers, IdleType DEF Init, TypeOK, Row, Version

\* What the fetches write to a row.
LEMMA WriteTypes ==
    ASSUME TypeOK, NEW f \in Feed
    PROVE  /\ RecordFetchFailure(f) => feed' \in [Feed -> Row]
           /\ \A tag \in 0..MaxVersion :
                 UpdateFetchInfo(f, tag) => feed' \in [Feed -> Row]
           /\ \A tag \in 0..MaxVersion, pending \in BOOLEAN :
                 CompleteFetch(f, tag, pending) => feed' \in [Feed -> Row]
<1> USE DEF TypeOK
<1>1. feed[f] \in Row /\ feed[f].failures \in Nat
  BY Numbers DEF Row
<1>2. Least(feed[f].failures + 1, MaxFailures) \in 0..MaxFailures
  BY <1>1, Numbers DEF Least
<1>3. Backoff(feed[f].failures) \in 0..MaxWait
  BY <1>1, BackoffType
<1>0. 0 \in 0..MaxFailures /\ 0 \in 0..MaxVersion
  BY Numbers
<1>4. RecordFetchFailure(f) => feed' \in [Feed -> Row]
  <2> DEFINE new == [feed[f] EXCEPT !.wait = Backoff(feed[f].failures),
                                    !.failures = Least(@ + 1, MaxFailures)]
  <2>1. new \in Row
    BY <1>1, <1>2, <1>3 DEF Row
  <2> QED
    BY <2>1 DEF RecordFetchFailure, Writes
<1>5. ASSUME NEW tag \in 0..MaxVersion, UpdateFetchInfo(f, tag)
      PROVE  feed' \in [Feed -> Row]
  <2> DEFINE new == [feed[f] EXCEPT !.tag = tag, !.wait = Interval, !.failures = 0]
  <2>1. new \in Row
    BY <1>1, <1>0, Numbers DEF Row
  <2> QED
    BY <1>5, <2>1 DEF UpdateFetchInfo, Writes
<1>6. ASSUME NEW tag \in 0..MaxVersion, NEW pending \in BOOLEAN,
             CompleteFetch(f, tag, pending)
      PROVE  feed' \in [Feed -> Row]
  <2> DEFINE new == [feed[f] EXCEPT !.tag = IF pending THEN 0 ELSE tag, !.failures = 0,
                              !.wait = IF pending THEN Soon ELSE Interval]
  <2> DEFINE kept == IF pending THEN 0 ELSE tag
             wait == IF pending THEN Soon ELSE Interval
  <2>2. kept \in 0..MaxVersion /\ wait \in 0..MaxWait
    BY <1>0, Numbers
  <2> HIDE DEF kept, wait
  <2>3. [feed[f] EXCEPT !.tag = kept, !.failures = 0, !.wait = wait] \in Row
    BY <1>1, <1>0, <2>2 DEF Row
  <2>1. new \in Row
    BY <2>3 DEF kept, wait
  <2> QED
    BY <1>6, <2>1 DEF CompleteFetch, Writes
<1> QED
  BY <1>4, <1>5, <1>6

LEMMA BecomesType ==
    ASSUME TypeOK, NEW f \in Feed, NEW p \in Process, NEW w \in Work,
           Becomes(f, p, w)
    PROVE  work' \in [Feed -> [Process -> Work]]
BY DEF TypeOK, Becomes

\* The fields of a fetch under way.
LEMMA WorkFields ==
    ASSUME TypeOK, NEW f \in Feed, NEW p \in Process
    PROVE  LET w == work[f][p] IN
           /\ w \in Work /\ w.tag \in 0..MaxVersion /\ w.version \in 0..MaxVersion
           /\ w.todo \in SUBSET Item /\ w.making \in SUBSET Item
           /\ w.made \in SUBSET Item /\ w.pending \in BOOLEAN /\ w.failed \in BOOLEAN
BY DEF TypeOK, Work

\* What a fetch may become.
LEMMA WorkSteps ==
    ASSUME NEW w \in Work, NEW i \in Item
    PROVE  /\ [w EXCEPT !.at = "fetch"] \in Work
           /\ [w EXCEPT !.todo = @ \ {i}] \in Work
           /\ [w EXCEPT !.todo = {}, !.pending = TRUE] \in Work
           /\ [w EXCEPT !.todo = @ \ {i}, !.making = @ \cup {i}] \in Work
           /\ [w EXCEPT !.making = @ \ {i}, !.made = @ \cup {i}] \in Work
           /\ [w EXCEPT !.failed = TRUE, !.making = @ \ {i},
                        !.made = @ \cup {i}] \in Work
           /\ [w EXCEPT !.failed = TRUE, !.todo = {}] \in Work
BY DEF Work

LEMMA NewWork ==
    ASSUME TypeOK, NEW f \in Feed
    PROVE  /\ [Idle EXCEPT !.at = "fetch", !.tag = feed[f].tag] \in Work
           /\ [Idle EXCEPT !.at = "queued", !.tag = feed[f].tag] \in Work
<1>1. feed[f].tag \in 0..MaxVersion
  BY DEF TypeOK, Row
<1> QED
  BY <1>1, IdleType DEF Work

LEMMA DocumentType ==
    ASSUME TypeOK, NEW f \in Feed
    PROVE  Document(f) \in SUBSET Item /\ site[f] \in 0..MaxVersion
<1>1. site[f] \in 1..MaxVersion
  BY DEF TypeOK, Version
<1>2. ASSUME NEW x \in site[f]..(site[f] + Window - 1) PROVE x \in Item
  BY <1>1, Numbers DEF Item
<1> QED
  BY <1>1, <1>2, Numbers DEF Document, Items

LEMMA StepType == TypeOK /\ [Next]_vars => TypeOK'
<1> SUFFICES ASSUME TypeOK, [Next]_vars PROVE TypeOK'
  OBVIOUS
<1>0. /\ site \in [Feed -> Version] /\ feed \in [Feed -> Row]
      /\ article \in [Feed -> SUBSET Item] /\ restarts \in 0..MaxRestarts
      /\ work \in [Feed -> [Process -> Work]]
  BY DEF TypeOK
<1>1. CASE fetchAllFeeds
  <2> DEFINE W(f) == IF f \in GetAllActive /\ shouldFetch(f)
         THEN [work[f] EXCEPT !["worker"] = [Idle EXCEPT !.at = "queued", !.tag = feed[f].tag]]
         ELSE work[f]
  <2>1. ASSUME NEW f \in Feed PROVE W(f) \in [Process -> Work]
    <3>1. [Idle EXCEPT !.at = "queued", !.tag = feed[f].tag] \in Work
      BY NewWork
    <3> QED
      BY <1>0, <3>1
  <2>2. work' = [f \in Feed |-> W(f)]
    BY <1>1 DEF fetchAllFeeds
  <2> HIDE DEF W
  <2>3. work' \in [Feed -> [Process -> Work]]
    BY <2>1, <2>2
  <2> QED
    BY <1>0, <1>1, <2>3 DEF TypeOK, fetchAllFeeds
<1>2. CASE Restart
  <2>1. work' \in [Feed -> [Process -> Work]]
    BY <1>0, <1>2, IdleType DEF Restart
  <2>2. restarts' \in 0..MaxRestarts
    BY <1>0, <1>2, Numbers DEF Restart
  <2> QED
    BY <1>0, <1>2, <2>1, <2>2 DEF TypeOK, Restart
<1>3. CASE Tick
  <2>1. ASSUME NEW f \in Feed, feed[f].wait > 0
        PROVE  [feed[f] EXCEPT !.wait = @ - 1] \in Row
    <3>1. feed[f] \in Row /\ feed[f].wait \in 0..MaxWait
      BY <1>0 DEF Row
    <3>2. feed[f].wait - 1 \in 0..MaxWait
      BY <2>1, <3>1, Numbers
    <3> QED
      BY <3>1, <3>2 DEF Row
  <2>2. feed' \in [Feed -> Row]
    BY <1>0, <1>3, <2>1 DEF Tick
  <2> QED
    BY <1>0, <1>3, <2>2 DEF TypeOK, Tick
<1>4. ASSUME NEW f \in Feed, dispatchSubscriptionFeeds(f) PROVE TypeOK'
  <2>1. work' \in [Feed -> [Process -> Work]]
    <3>1. [work[f]["worker"] EXCEPT !.at = "fetch"] \in Work
      BY WorkFields DEF Process, Work
    <3> QED
      BY <1>4, <3>1, IdleType, BecomesType DEF dispatchSubscriptionFeeds, Process
  <2> QED
    BY <1>0, <1>4, <2>1 DEF TypeOK, dispatchSubscriptionFeeds
<1>5. ASSUME NEW f \in Feed, FetchNow(f) PROVE TypeOK'
  <2>1. work' \in [Feed -> [Process -> Work]]
    BY <1>5, NewWork, BecomesType DEF FetchNow, Process
  <2> QED
    BY <1>0, <1>5, <2>1 DEF TypeOK, FetchNow
<1>6. ASSUME NEW f \in Feed, NEW p \in Process, Answer(f, p) PROVE TypeOK'
  <2>1. work[f][p] \in Work /\ work[f][p].tag \in 0..MaxVersion
    BY WorkFields
  <2>2. [work[f][p] EXCEPT !.at = "store", !.version = site[f],
                           !.todo = Document(f)] \in Work
    BY <2>1, DocumentType DEF Work
  <2>3. work' \in [Feed -> [Process -> Work]]
    BY <1>6, <2>2, IdleType, BecomesType DEF Answer
  <2>4. feed' \in [Feed -> Row]
    BY <1>0, <1>6, <2>1, WriteTypes DEF Answer
  <2> QED
    BY <1>0, <1>6, <2>3, <2>4 DEF TypeOK, Answer
<1>7. ASSUME NEW f \in Feed, NEW p \in Process, FetchError(f, p) PROVE TypeOK'
  <2>1. work' \in [Feed -> [Process -> Work]]
    BY <1>7, IdleType, BecomesType DEF FetchError
  <2>2. feed' \in [Feed -> Row]
    BY <1>0, <1>7, WriteTypes DEF FetchError
  <2> QED
    BY <1>0, <1>7, <2>1, <2>2 DEF TypeOK, FetchError
<1>8. ASSUME NEW f \in Feed, NEW p \in Process, NEW i \in Item, Scan(f, p, i)
      PROVE  TypeOK'
  <2>1. PICK w \in Work : Becomes(f, p, w)
    BY <1>8, WorkFields, WorkSteps DEF Scan
  <2>2. work' \in [Feed -> [Process -> Work]]
    BY <2>1, BecomesType
  <2> QED
    BY <1>0, <1>8, <2>2 DEF TypeOK, Scan
<1>9. ASSUME NEW f \in Feed, NEW p \in Process, NEW i \in Item,
             CreateSubscriptionArticle(f, p, i)
      PROVE  TypeOK'
  <2>1. PICK w \in Work : Becomes(f, p, w)
    BY <1>9, WorkFields, WorkSteps DEF CreateSubscriptionArticle
  <2>2. work' \in [Feed -> [Process -> Work]]
    BY <2>1, BecomesType
  <2>3. article' \in [Feed -> SUBSET Item]
    BY <1>0, <1>9 DEF CreateSubscriptionArticle
  <2> QED
    BY <1>0, <1>9, <2>2, <2>3 DEF TypeOK, CreateSubscriptionArticle
<1>10. ASSUME NEW f \in Feed, NEW p \in Process, StorageFailed(f, p) PROVE TypeOK'
  <2> DEFINE w == work[f][p]
  <2>1. w \in Work /\ w.making \in SUBSET Item
    BY WorkFields
  <2>2. PICK v \in Work : Becomes(f, p, v)
    <3>1. CASE p = "manual"
      BY <1>10, <3>1, IdleType DEF StorageFailed
    <3>2. CASE p # "manual" /\ w.making # {}
      <4>1. Max(w.making) \in Item
        BY <2>1, <3>2, MaxIsItem
      <4>2. [w EXCEPT !.failed = TRUE, !.making = @ \ {Max(w.making)},
                      !.made = @ \cup {Max(w.making)}] \in Work
        BY <2>1, <4>1, WorkSteps
      <4> QED
        BY <1>10, <3>2, <4>2 DEF StorageFailed
    <3>3. CASE p # "manual" /\ w.making = {}
      <4>1. [w EXCEPT !.failed = TRUE, !.todo = {}] \in Work
        BY <2>1 DEF Work
      <4> QED
        BY <1>10, <3>3, <4>1 DEF StorageFailed
    <3> QED
      BY <3>1, <3>2, <3>3
  <2>3. work' \in [Feed -> [Process -> Work]]
    BY <2>2, BecomesType
  <2> QED
    BY <1>0, <1>10, <2>3 DEF TypeOK, StorageFailed
<1>11. ASSUME NEW f \in Feed, Finish(f) PROVE TypeOK'
  <2> DEFINE w == work[f]["worker"]
  <2>1. work' \in [Feed -> [Process -> Work]]
    BY <1>11, IdleType, BecomesType DEF Finish, Process
  <2>2. Tag(f, w) \in 0..MaxVersion /\ w.pending \in BOOLEAN
    BY WorkFields, Numbers DEF Tag, Process
  <2>3. feed' \in [Feed -> Row]
    <3> HIDE DEF w
    <3>1. RecordFetchFailure(f) \/ CompleteFetch(f, Tag(f, w), w.pending) \/ feed' = feed
      BY <1>11 DEF Finish, w
    <3> QED
      BY <1>0, <2>2, <3>1, WriteTypes
  <2> QED
    BY <1>0, <1>11, <2>1, <2>3 DEF TypeOK, Finish
<1>12. ASSUME NEW f \in Feed, Commit(f) PROVE TypeOK'
  <2> DEFINE w == work[f]["manual"]
  <2>1. work' \in [Feed -> [Process -> Work]]
    BY <1>12, IdleType, BecomesType DEF Commit, Process
  <2>2. Tag(f, w) \in 0..MaxVersion /\ w.pending \in BOOLEAN /\ w.made \in SUBSET Item
    BY WorkFields, Numbers DEF Tag, Process
  <2>3. feed' \in [Feed -> Row]
    <3> HIDE DEF w
    <3>1. CompleteFetch(f, Tag(f, w), w.pending) \/ feed' = feed
      BY <1>12 DEF Commit, w
    <3> QED
      BY <1>0, <2>2, <3>1, WriteTypes
  <2>4. article' \in [Feed -> SUBSET Item]
    BY <1>0, <1>12, <2>2 DEF Commit
  <2> QED
    BY <1>0, <1>12, <2>1, <2>3, <2>4 DEF TypeOK, Commit
<1>13. ASSUME NEW f \in Feed, Settings(f) PROVE TypeOK'
  <2>1. feed' \in [Feed -> Row]
    <3>1. feed[f] \in Row /\ 0 \in 0..MaxVersion /\ 0 \in 0..MaxWait
          /\ 0 \in 0..MaxFailures
      BY <1>0, Numbers
    <3>2. CASE Create(f) \/ Delete(f)
      <4> DEFINE new(s) == [status |-> s, on |-> (s = "active"), tag |-> 0,
                            wait |-> 0, failures |-> 0]
      <4>1. new("active") \in Row /\ new("gone") \in Row
        BY <3>1 DEF Row
      <4>2. feed' = [feed EXCEPT ![f] = new("active")]
              \/ feed' = [feed EXCEPT ![f] = new("gone")]
        BY <3>2 DEF Create, Delete
      <4> HIDE DEF new
      <4> QED
        BY <1>0, <4>1, <4>2
    <3>3. ASSUME NEW on \in BOOLEAN, Update(f, on) PROVE feed' \in [Feed -> Row]
      <4> DEFINE new == [feed[f] EXCEPT !.on = on,
                                        !.status = IF on THEN "active" ELSE "paused"]
      <4>1. new \in Row
        BY <3>1 DEF Row
      <4>2. feed' = [feed EXCEPT ![f] = new]
        BY <1>0, <3>3 DEF Update, SetActive
      <4> QED
        BY <1>0, <4>1, <4>2
    <3>4. ASSUME NEW s \in {"active", "paused", "archived"}, UpdateStatus(f, s)
          PROVE  feed' \in [Feed -> Row]
      <4> DEFINE new == [feed[f] EXCEPT !.status = s, !.on = (s = "active")]
      <4>1. new \in Row
        BY <3>1 DEF Row
      <4>2. feed' = [feed EXCEPT ![f] = new]
        BY <1>0, <3>4 DEF UpdateStatus, SetStatus
      <4> QED
        BY <1>0, <4>1, <4>2
    <3> QED
      BY <1>13, <3>2, <3>3, <3>4 DEF Settings
  <2>2. article' \in [Feed -> SUBSET Item]
    BY <1>0, <1>13 DEF Settings, Create, Delete, Update, UpdateStatus
  <2>3. UNCHANGED <<site, work, restarts>>
    BY <1>13 DEF Settings, Create, Delete, Update, UpdateStatus
  <2> QED
    BY <1>0, <2>1, <2>2, <2>3 DEF TypeOK
<1>14. ASSUME NEW f \in Feed, Publish(f) PROVE TypeOK'
  <2>1. site' \in [Feed -> Version]
    BY <1>0, <1>14, Numbers DEF Publish, Version
  <2> QED
    BY <1>0, <1>14, <2>1 DEF TypeOK, Publish
<1>15. CASE UNCHANGED vars
  BY <1>0, <1>15 DEF vars, TypeOK
<1> QED
  BY <1>1, <1>2, <1>3, <1>4, <1>5, <1>6, <1>7, <1>8, <1>9, <1>10, <1>11, <1>12,
     <1>13, <1>14, <1>15 DEF Next, Store

\* Every variable keeps its type; whatever a failure's backoff, it is bounded.
THEOREM TypeCorrect == Spec => []TypeOK
BY InitType, StepType, PTL DEF Spec

-----------------------------------------------------------------------------
(* The inductive invariant *)

\* What process p of a feed whose stored items are A knows while it does w.
WorkFits(p, w, A) ==
    /\ w.tag # 0 => Items(w.tag) \subseteq A
    /\ p = "manual" => ~w.failed
    /\ p = "worker" /\ ~w.failed => w.made \subseteq A
    /\ w.at = "store" /\ ~w.failed /\ ~w.pending =>
          Items(w.version) \subseteq w.todo \cup w.making \cup w.made \cup A

RowFits(r, A) == r.tag # 0 => Items(r.tag) \subseteq A

\* A feed that is not there yet is not fetched; of one that was deleted a fetch
\* may believe anything.
FeedFits(f) ==
    /\ feed[f].status = "none" => \A p \in Process : work[f][p] = Idle
    /\ Live(f) => /\ RowFits(feed[f], article[f])
                  /\ \A p \in Process : WorkFits(p, work[f][p], article[f])

Inv == TypeOK /\ \A f \in Feed : FeedFits(f)

LEMMA FitsMore ==
    ASSUME NEW A, NEW B, A \subseteq B, NEW p, NEW w, NEW r
    PROVE  (WorkFits(p, w, A) => WorkFits(p, w, B)) /\ (RowFits(r, A) => RowFits(r, B))
BY DEF WorkFits, RowFits

LEMMA IdleFits == \A p, A : WorkFits(p, Idle, A)
BY DEF WorkFits, Idle

LEMMA Untouched ==
    ASSUME NEW f \in Feed, FeedFits(f),
           feed'[f] = feed[f], work'[f] = work[f], article'[f] = article[f]
    PROVE  FeedFits(f)'
BY DEF FeedFits, Live

\* A step of one process of a feed, that stores articles or none.
LEMMA OwnStep ==
    ASSUME TypeOK, NEW f \in Feed, FeedFits(f), NEW p \in Process, NEW w,
           Becomes(f, p, w), feed[f].status # "none",
           feed'[f].status = feed[f].status, article[f] \subseteq article'[f],
           Live(f) => RowFits(feed'[f], article'[f]),
           Live(f) => WorkFits(p, w, article'[f])
    PROVE  FeedFits(f)'
<1>1. work'[f][p] = w /\ \A q \in Process \ {p} : work'[f][q] = work[f][q]
  BY DEF TypeOK, Becomes
<1>2. Live(f)' <=> Live(f)
  BY DEF Live
<1>3. ASSUME Live(f), NEW q \in Process
      PROVE  WorkFits(q, work'[f][q], article'[f])
  <2>1. CASE q = p
    BY <1>1, <1>3, <2>1
  <2>2. CASE q # p
    <3>1. WorkFits(q, work[f][q], article[f])
      BY <1>3 DEF FeedFits
    <3>2. WorkFits(q, work[f][q], article'[f])
      BY <3>1, FitsMore
    <3> QED
      BY <1>1, <2>2, <3>2
  <2> QED
    BY <2>1, <2>2
<1> QED
  BY <1>2, <1>3 DEF FeedFits

\* The operations of one feed.
Operation(f) ==
    \/ dispatchSubscriptionFeeds(f) \/ FetchNow(f) \/ Finish(f) \/ Commit(f)
    \/ Settings(f) \/ Publish(f)
    \/ \E p \in Process : Answer(f, p) \/ FetchError(f, p) \/ Store(f, p)

LEMMA Elsewhere ==
    ASSUME TypeOK, NEW f \in Feed, NEW g \in Feed, g # f, Operation(f)
    PROVE  feed'[g] = feed[g] /\ work'[g] = work[g] /\ article'[g] = article[g]
<1>1. feed'[g] = feed[g]
  <2>1. ASSUME NEW row, Writes(f, row) PROVE feed'[g] = feed[g]
    BY <2>1 DEF TypeOK, Writes
  <2>2. \/ feed' = feed
        \/ \E row : Writes(f, row)
        \/ \E row : feed' = [feed EXCEPT ![f] = row]
    <3>1. CASE Settings(f)
      BY <3>1, Zenon DEF Settings, Create, Delete, Update, UpdateStatus, SetActive, SetStatus
    <3>2. CASE \E p \in Process : Answer(f, p) \/ FetchError(f, p) \/ Store(f, p)
      BY <3>2, Zenon DEF Answer, FetchError, Store, StorageFailed, Scan,
         CreateSubscriptionArticle, UpdateFetchInfo, RecordFetchFailure
    <3>3. CASE Finish(f) \/ Commit(f)
      BY <3>3, Zenon DEF Finish, Commit, RecordFetchFailure, CompleteFetch
    <3>4. CASE dispatchSubscriptionFeeds(f) \/ FetchNow(f) \/ Publish(f)
      BY <3>4 DEF dispatchSubscriptionFeeds, FetchNow, Publish
    <3> QED
      BY <3>1, <3>2, <3>3, <3>4 DEF Operation
  <2> QED
    BY <2>1, <2>2 DEF TypeOK
<1>2. work'[g] = work[g]
  <2>1. work' = work \/ \E p \in Process : \E w : Becomes(f, p, w)
    <3>1. CASE Settings(f) \/ Publish(f)
      BY <3>1 DEF Settings, Create, Delete, Update, UpdateStatus, Publish
    <3>2. CASE \E p \in Process : Answer(f, p) \/ FetchError(f, p) \/ Store(f, p)
      BY <3>2, Zenon DEF Answer, FetchError, Store, StorageFailed, Scan,
         CreateSubscriptionArticle
    <3>3. CASE \/ dispatchSubscriptionFeeds(f) \/ FetchNow(f)
               \/ Finish(f) \/ Commit(f)
      BY <3>3, Zenon DEF dispatchSubscriptionFeeds, FetchNow, Finish, Commit, Process
    <3> QED
      BY <3>1, <3>2, <3>3 DEF Operation
  <2> QED
    BY <2>1 DEF TypeOK, Becomes
<1>3. article'[g] = article[g]
  <2>1. article' = article \/ \E A : article' = [article EXCEPT ![f] = A]
    <3>1. CASE Settings(f) \/ Publish(f)
      BY <3>1 DEF Settings, Create, Delete, Update, UpdateStatus, Publish
    <3>2. CASE \E p \in Process : Answer(f, p) \/ FetchError(f, p) \/ Store(f, p)
      BY <3>2, Zenon DEF Answer, FetchError, Store, StorageFailed, Scan,
         CreateSubscriptionArticle
    <3>3. CASE \/ dispatchSubscriptionFeeds(f) \/ FetchNow(f)
               \/ Finish(f) \/ Commit(f)
      BY <3>3, Zenon DEF dispatchSubscriptionFeeds, FetchNow, Finish, Commit
    <3> QED
      BY <3>1, <3>2, <3>3 DEF Operation
  <2> QED
    BY <2>1 DEF TypeOK
<1> QED
  BY <1>1, <1>2, <1>3

\* What a fetch writes to the row leaves its status.
SameStatus(f) ==
    feed'[f].status = feed[f].status /\ feed'[f].on = feed[f].on

LEMMA WritesRow ==
    ASSUME TypeOK, NEW f \in Feed, NEW tag, NEW pending
    PROVE  /\ RecordFetchFailure(f) =>
                 SameStatus(f) /\ feed'[f].tag = feed[f].tag
           /\ UpdateFetchInfo(f, tag) =>
                 SameStatus(f) /\ (Live(f) => feed'[f].tag = tag)
           /\ CompleteFetch(f, tag, pending) =>
                 /\ SameStatus(f)
                 /\ Live(f) => feed'[f].tag = IF pending THEN 0 ELSE tag
<1>1. feed[f] \in Row /\ feed \in [Feed -> Row]
  BY DEF TypeOK
<1>2. ASSUME NEW row, Writes(f, row), row.status = feed[f].status,
             row.on = feed[f].on
      PROVE  SameStatus(f) /\ (Live(f) => feed'[f] = row) /\ (~Live(f) => feed' = feed)
  BY <1>1, <1>2 DEF Writes, SameStatus
<1>3. ASSUME RecordFetchFailure(f)
      PROVE  SameStatus(f) /\ feed'[f].tag = feed[f].tag
  <2> DEFINE row == [feed[f] EXCEPT !.wait = Backoff(feed[f].failures),
                                    !.failures = Least(@ + 1, MaxFailures)]
  <2>1. row.status = feed[f].status /\ row.on = feed[f].on /\ row.tag = feed[f].tag
    BY <1>1 DEF Row
  <2>2. Writes(f, row)
    BY <1>3 DEF RecordFetchFailure
  <2> HIDE DEF row
  <2> QED
    BY <1>2, <2>1, <2>2
<1>4. ASSUME UpdateFetchInfo(f, tag)
      PROVE  SameStatus(f) /\ (Live(f) => feed'[f].tag = tag)
  <2> DEFINE row == [feed[f] EXCEPT !.tag = tag, !.wait = Interval, !.failures = 0]
  <2>1. row.status = feed[f].status /\ row.on = feed[f].on /\ row.tag = tag
    BY <1>1 DEF Row
  <2>2. Writes(f, row)
    BY <1>4 DEF UpdateFetchInfo
  <2> HIDE DEF row
  <2> QED
    BY <1>2, <2>1, <2>2
<1>5. ASSUME CompleteFetch(f, tag, pending)
      PROVE  /\ SameStatus(f)
             /\ Live(f) => feed'[f].tag = IF pending THEN 0 ELSE tag
  <2> DEFINE kept == IF pending THEN 0 ELSE tag
             row == [feed[f] EXCEPT !.tag = kept, !.failures = 0,
                              !.wait = IF pending THEN Soon ELSE Interval]
  <2>1. row.status = feed[f].status /\ row.on = feed[f].on /\ row.tag = kept
    BY <1>1 DEF Row
  <2>2. Writes(f, row)
    BY <1>5 DEF CompleteFetch
  <2> HIDE DEF row
  <2> QED
    BY <1>2, <2>1, <2>2
<1> QED
  BY <1>3, <1>4, <1>5

\* One lemma for each kind of step.
LEMMA FetchFits ==
    ASSUME TypeOK, NEW f \in Feed, FeedFits(f),
           \/ dispatchSubscriptionFeeds(f) \/ FetchNow(f)
           \/ \E p \in Process : FetchError(f, p)
    PROVE  FeedFits(f)'
<1>1. article' = article /\ article[f] \subseteq article'[f]
  BY DEF dispatchSubscriptionFeeds, FetchNow, FetchError
<1>2. CASE dispatchSubscriptionFeeds(f)
  <2> DEFINE w == work[f]["worker"]
  <2>1. feed' = feed /\ w.at = "queued" /\ "worker" \in Process
    BY <1>2 DEF dispatchSubscriptionFeeds, Process
  <2>2. feed[f].status # "none"
    BY <2>1 DEF FeedFits, Idle
  <2>3. PICK v \in {Idle, [w EXCEPT !.at = "fetch"]} : Becomes(f, "worker", v)
    BY <1>2, Zenon DEF dispatchSubscriptionFeeds
  <2>4. Live(f) => WorkFits("worker", v, article'[f])
    <3>1. w \in Work
      BY <2>1, WorkFields
    <3>2. Live(f) => WorkFits("worker", [w EXCEPT !.at = "fetch"], article[f])
      BY <2>1, <3>1 DEF FeedFits, WorkFits, Work
    <3> QED
      BY <1>1, <2>3, <3>2, IdleFits
  <2>5. Live(f) => RowFits(feed'[f], article'[f])
    BY <1>1, <2>1 DEF FeedFits
  <2> HIDE DEF w
  <2> QED
    BY <1>1, <2>1, <2>2, <2>3, <2>4, <2>5, OwnStep
<1>3. CASE FetchNow(f)
  <2> DEFINE v == [Idle EXCEPT !.at = "fetch", !.tag = feed[f].tag]
  <2>1. feed' = feed /\ Live(f) /\ "manual" \in Process /\ Becomes(f, "manual", v)
    BY <1>3 DEF FetchNow, Process
  <2>2. feed[f].status # "none" /\ RowFits(feed[f], article[f])
    BY <2>1 DEF Live, FeedFits
  <2>3. WorkFits("manual", v, article[f])
    BY <2>2 DEF WorkFits, RowFits, Idle
  <2> HIDE DEF v
  <2> QED
    BY <1>1, <2>1, <2>2, <2>3, OwnStep
<1>4. ASSUME NEW p \in Process, FetchError(f, p) PROVE FeedFits(f)'
  <2>1. work[f][p].at = "fetch" /\ Becomes(f, p, Idle)
    BY <1>4 DEF FetchError
  <2>2. feed[f].status # "none"
    BY <2>1 DEF FeedFits, Idle
  <2>3. feed'[f].status = feed[f].status /\ feed'[f].tag = feed[f].tag
    BY <1>4, WritesRow DEF FetchError, SameStatus
  <2>4. Live(f) => RowFits(feed'[f], article'[f])
    BY <1>1, <2>3 DEF FeedFits, RowFits
  <2> QED
    BY <1>1, <2>1, <2>2, <2>3, <2>4, IdleFits, OwnStep
<1> QED
  BY <1>2, <1>3, <1>4

LEMMA AnswerFits ==
    ASSUME TypeOK, NEW f \in Feed, FeedFits(f), NEW p \in Process, Answer(f, p)
    PROVE  FeedFits(f)'
<1> DEFINE w == work[f][p]
           v == [w EXCEPT !.at = "store", !.version = site[f], !.todo = Document(f)]
<1>1. w \in Work /\ w.at = "fetch" /\ article' = article
  BY WorkFields DEF Answer
<1>2. feed[f].status # "none"
  BY <1>1 DEF FeedFits, Idle
<1>3. Live(f) => RowFits(feed[f], article[f]) /\ WorkFits(p, w, article[f])
  BY DEF FeedFits
<1>4. CASE NotModified(f, w.tag)
  <2>1. Becomes(f, p, Idle) /\ (UpdateFetchInfo(f, w.tag) \/ feed' = feed)
    BY <1>4 DEF Answer
  <2>2. feed'[f].status = feed[f].status
    BY <2>1, WritesRow DEF SameStatus
  <2>3. Live(f) => RowFits(feed'[f], article'[f])
    <3>1. Live(f) => feed'[f].tag = w.tag \/ feed'[f] = feed[f]
      BY <2>1, WritesRow
    <3> QED
      BY <1>1, <1>3, <3>1 DEF RowFits, WorkFits
  <2> QED
    BY <1>1, <1>2, <2>1, <2>2, <2>3, IdleFits, OwnStep
<1>5. CASE ~NotModified(f, w.tag)
  <2>1. Becomes(f, p, v) /\ feed' = feed
    BY <1>5 DEF Answer
  <2>2. Live(f) => WorkFits(p, v, article[f])
    BY <1>1, <1>3 DEF WorkFits, Work, Document
  <2> HIDE DEF v
  <2> QED
    BY <1>1, <1>2, <1>3, <2>1, <2>2, OwnStep
<1> QED
  BY <1>4, <1>5

LEMMA ScanFits ==
    ASSUME TypeOK, NEW f \in Feed, FeedFits(f), NEW p \in Process, NEW i \in Item,
           Scan(f, p, i)
    PROVE  FeedFits(f)'
<1> DEFINE w == work[f][p]
           seen == [w EXCEPT !.todo = @ \ {i}]
           full == [w EXCEPT !.todo = {}, !.pending = TRUE]
           new == [w EXCEPT !.todo = @ \ {i}, !.making = @ \cup {i}]
<1>1. w \in Work /\ w.at = "store" /\ article' = article /\ feed' = feed
  BY WorkFields DEF Scan
<1>2. feed[f].status # "none"
  BY <1>1 DEF FeedFits, Idle
<1>3. Live(f) => RowFits(feed[f], article[f]) /\ WorkFits(p, w, article[f])
  BY DEF FeedFits
<1>4. CASE Exists(f, p, i) /\ Becomes(f, p, seen)
  <2>1. Live(f) => WorkFits(p, seen, article[f])
    BY <1>1, <1>3, <1>4 DEF WorkFits, Work, Exists
  <2> HIDE DEF seen
  <2> QED
    BY <1>1, <1>2, <1>3, <1>4, <2>1, OwnStep
<1>5. CASE Becomes(f, p, full)
  <2>1. Live(f) => WorkFits(p, full, article[f])
    BY <1>1, <1>3 DEF WorkFits, Work
  <2> HIDE DEF full
  <2> QED
    BY <1>1, <1>2, <1>3, <1>5, <2>1, OwnStep
<1>6. CASE Becomes(f, p, new)
  <2>1. Live(f) => WorkFits(p, new, article[f])
    BY <1>1, <1>3 DEF WorkFits, Work
  <2> HIDE DEF new
  <2> QED
    BY <1>1, <1>2, <1>3, <1>6, <2>1, OwnStep
<1> QED
  BY <1>4, <1>5, <1>6 DEF Scan

LEMMA StoreFits ==
    ASSUME TypeOK, NEW f \in Feed, FeedFits(f), NEW p \in Process, Store(f, p)
    PROVE  FeedFits(f)'
<1> DEFINE w == work[f][p]
<1>1. w \in Work /\ w.at = "store"
  BY WorkFields DEF Store, StorageFailed, Scan, CreateSubscriptionArticle
<1>2. feed[f].status # "none"
  BY <1>1 DEF FeedFits, Idle
<1>3. Live(f) => RowFits(feed[f], article[f]) /\ WorkFits(p, w, article[f])
  BY DEF FeedFits
<1>4. ASSUME NEW i \in Item, CreateSubscriptionArticle(f, p, i) PROVE FeedFits(f)'
  <2> DEFINE v == [w EXCEPT !.making = @ \ {i}, !.made = @ \cup {i}]
  <2>1. Becomes(f, p, v) /\ feed' = feed
    BY <1>4 DEF CreateSubscriptionArticle
  <2>2. article'[f] = IF p = "worker" THEN article[f] \cup {i} ELSE article[f]
    BY <1>4 DEF CreateSubscriptionArticle, TypeOK
  <2>3. Live(f) => WorkFits(p, v, article'[f])
    BY <1>1, <1>3, <2>2 DEF WorkFits, Work, Process
  <2>4. Live(f) => RowFits(feed'[f], article'[f])
    BY <1>3, <2>1, <2>2, FitsMore
  <2> HIDE DEF v
  <2> QED
    BY <1>2, <2>1, <2>2, <2>3, <2>4, OwnStep
<1>5. CASE StorageFailed(f, p)
  <2>1. article' = article /\ feed' = feed
    BY <1>5 DEF StorageFailed
  <2>2. CASE p = "manual"
    <3>1. Becomes(f, p, Idle)
      BY <1>5, <2>2 DEF StorageFailed
    <3> QED
      BY <1>2, <1>3, <2>1, <3>1, IdleFits, OwnStep
  <2>3. CASE p # "manual"
    <3>1. PICK v : /\ Becomes(f, p, v)
                   /\ v \in {[w EXCEPT !.failed = TRUE, !.making = @ \ {Max(@)},
                                       !.made = @ \cup {Max(w.making)}],
                             [w EXCEPT !.failed = TRUE, !.todo = {}]}
      BY <1>5, <2>3 DEF StorageFailed
    <3>2. v.failed /\ v.tag = w.tag
      BY <1>1, <3>1 DEF Work
    <3>3. Live(f) => WorkFits(p, v, article[f])
      BY <1>3, <2>3, <3>2 DEF WorkFits
    <3> QED
      BY <1>2, <1>3, <2>1, <3>1, <3>3, OwnStep
  <2> QED
    BY <2>2, <2>3
<1> QED
  BY <1>4, <1>5, ScanFits DEF Store

LEMMA EndFits ==
    ASSUME TypeOK, NEW f \in Feed, FeedFits(f), Finish(f) \/ Commit(f)
    PROVE  FeedFits(f)'
<1>1. CASE Finish(f)
  <2> DEFINE w == work[f]["worker"]
  <2>1. /\ w.at = "store" /\ w.todo = {} /\ w.making = {} /\ article' = article
        /\ Becomes(f, "worker", Idle) /\ "worker" \in Process
    BY <1>1 DEF Finish, Process
  <2>2. feed[f].status # "none"
    BY <2>1 DEF FeedFits, Idle
  <2>3. Live(f) => RowFits(feed[f], article[f]) /\ WorkFits("worker", w, article[f])
    BY <2>1 DEF FeedFits
  <2>4. \/ feed' = feed \/ RecordFetchFailure(f)
        \/ ~w.failed /\ CompleteFetch(f, Tag(f, w), w.pending)
    BY <1>1 DEF Finish
  <2> HIDE DEF w
  <2>5. feed'[f].status = feed[f].status
    BY <2>4, WritesRow DEF SameStatus
  <2>6. Live(f) => \/ feed'[f].tag = feed[f].tag
                   \/ ~w.failed /\ feed'[f].tag = IF w.pending THEN 0 ELSE Tag(f, w)
    BY <2>4, WritesRow
  <2>7. Live(f) => RowFits(feed'[f], article'[f])
    BY <2>1, <2>3, <2>6 DEF RowFits, WorkFits, Tag
  <2> QED
    BY <2>1, <2>2, <2>5, <2>7, IdleFits, OwnStep
<1>2. CASE Commit(f)
  <2> DEFINE w == work[f]["manual"]
  <2>1. /\ w.at = "store" /\ w.todo = {} /\ w.making = {}
        /\ Becomes(f, "manual", Idle) /\ "manual" \in Process
    BY <1>2 DEF Commit, Process
  <2>2. feed[f].status # "none"
    BY <2>1 DEF FeedFits, Idle
  <2>3. Live(f) => RowFits(feed[f], article[f]) /\ WorkFits("manual", w, article[f])
    BY <2>1 DEF FeedFits
  <2>4. \/ feed' = feed /\ article' = article
        \/ /\ CompleteFetch(f, Tag(f, w), w.pending)
           /\ article'[f] = IF Live(f) THEN article[f] \cup w.made ELSE article[f]
    BY <1>2 DEF Commit, TypeOK
  <2> HIDE DEF w
  <2>5. feed'[f].status = feed[f].status /\ article[f] \subseteq article'[f]
    BY <2>4, WritesRow DEF SameStatus
  <2>6. Live(f) => \/ feed'[f] = feed[f] /\ article' = article
                   \/ /\ feed'[f].tag = IF w.pending THEN 0 ELSE Tag(f, w)
                      /\ article'[f] = article[f] \cup w.made
    BY <2>4, WritesRow
  <2>7. Live(f) => RowFits(feed'[f], article'[f])
    BY <2>1, <2>3, <2>6 DEF RowFits, WorkFits, Tag
  <2> QED
    BY <2>1, <2>2, <2>5, <2>7, IdleFits, OwnStep
<1> QED
  BY <1>1, <1>2

LEMMA SettingsFit ==
    ASSUME TypeOK, NEW f \in Feed, FeedFits(f), Settings(f)
    PROVE  FeedFits(f)'
<1>0. feed[f] \in Row /\ feed \in [Feed -> Row] /\ work' = work
  BY DEF TypeOK, Settings, Create, Delete, Update, UpdateStatus
<1>1. CASE Create(f)
  <2>1. \A p \in Process : work[f][p] = Idle
    BY <1>1 DEF Create, FeedFits
  <2>2. feed'[f].tag = 0 /\ feed'[f].status = "active"
    BY <1>0, <1>1 DEF Create
  <2> QED
    BY <1>0, <2>1, <2>2, IdleFits DEF FeedFits, RowFits
<1>2. CASE Delete(f)
  <2>1. feed'[f].status = "gone"
    BY <1>0, <1>2 DEF Delete
  <2> QED
    BY <2>1 DEF FeedFits, Live
<1>3. CASE \/ \E on \in BOOLEAN : Update(f, on)
           \/ \E s \in {"active", "paused", "archived"} : UpdateStatus(f, s)
  <2>1. feed'[f].tag = feed[f].tag /\ feed'[f].status # "none"
    <3>1. CASE \E on \in BOOLEAN : Update(f, on)
      BY <1>0, <3>1 DEF Update, SetActive, Row
    <3>2. CASE \E s \in {"active", "paused", "archived"} : UpdateStatus(f, s)
      BY <1>0, <3>2 DEF UpdateStatus, SetStatus, Row
    <3> QED
      BY <1>3, <3>1, <3>2
  <2>2. Live(f) /\ article' = article
    BY <1>3 DEF Update, UpdateStatus
  <2> QED
    BY <1>0, <2>1, <2>2 DEF FeedFits, RowFits
<1> QED
  BY <1>1, <1>2, <1>3 DEF Settings

\* The steps of the whole worker.
LEMMA WorkerFits ==
    ASSUME TypeOK, NEW f \in Feed, FeedFits(f), fetchAllFeeds \/ Restart \/ Tick
    PROVE  FeedFits(f)'
<1>0. work \in [Feed -> [Process -> Work]] /\ feed[f] \in Row
  BY DEF TypeOK
<1>1. CASE fetchAllFeeds
  <2>1. feed' = feed /\ article' = article
    BY <1>1 DEF fetchAllFeeds
  <2>2. CASE ~ (f \in GetAllActive /\ shouldFetch(f))
    <3>1. work'[f] = work[f]
      BY <1>1, <2>2 DEF fetchAllFeeds
    <3> QED
      BY <2>1, <3>1, Untouched
  <2>3. CASE f \in GetAllActive /\ shouldFetch(f)
    <3> DEFINE v == [Idle EXCEPT !.at = "queued", !.tag = feed[f].tag]
    <3>1. work'[f] = [work[f] EXCEPT !["worker"] = v]
      BY <1>1, <2>3 DEF fetchAllFeeds
    <3>2. feed[f].status = "active" /\ Live(f)
      BY <2>3 DEF GetAllActive, Live
    <3>3. WorkFits("worker", v, article[f])
      BY <3>2 DEF FeedFits, RowFits, WorkFits, Idle
    <3> HIDE DEF v
    <3>4. \A p \in Process : work'[f][p] = IF p = "worker" THEN v ELSE work[f][p]
      BY <1>0, <3>1
    <3>5. \A p \in Process : WorkFits(p, work'[f][p], article'[f])
      BY <2>1, <3>2, <3>3, <3>4 DEF FeedFits
    <3> QED
      BY <2>1, <3>2, <3>5 DEF FeedFits
  <2> QED
    BY <2>2, <2>3
<1>2. CASE Restart
  <2>1. feed' = feed /\ article' = article
    BY <1>2 DEF Restart
  <2>2. \A p \in Process : work'[f][p] = IF p = "worker" THEN Idle ELSE work[f][p]
    BY <1>0, <1>2 DEF Restart
  <2>3. Live(f) => \A p \in Process : WorkFits(p, work'[f][p], article'[f])
    BY <2>1, <2>2, IdleFits DEF FeedFits
  <2> QED
    BY <2>1, <2>2, <2>3 DEF FeedFits, Live
<1>3. CASE Tick
  <2>1. feed'[f].status = feed[f].status /\ feed'[f].tag = feed[f].tag
    BY <1>0, <1>3 DEF Tick, Row
  <2>2. work' = work /\ article' = article
    BY <1>3 DEF Tick
  <2> QED
    BY <2>1, <2>2 DEF FeedFits, Live, RowFits
<1> QED
  BY <1>1, <1>2, <1>3

LEMMA StepInv == Inv /\ [Next]_vars => Inv'
<1> SUFFICES ASSUME Inv, [Next]_vars, NEW g \in Feed PROVE FeedFits(g)'
  BY StepType DEF Inv
<1>0. TypeOK /\ FeedFits(g)
  BY DEF Inv
<1>1. CASE UNCHANGED vars
  BY <1>0, <1>1, Untouched DEF vars
<1>2. CASE fetchAllFeeds \/ Restart \/ Tick
  BY <1>0, <1>2, WorkerFits
<1>3. ASSUME NEW f \in Feed, Operation(f), f # g PROVE FeedFits(g)'
  BY <1>0, <1>3, Elsewhere, Untouched
<1>4. CASE Operation(g)
  <2>1. CASE Publish(g)
    BY <1>0, <2>1, Untouched DEF Publish
  <2> QED
    BY <1>0, <1>4, <2>1, FetchFits, AnswerFits, StoreFits, EndFits, SettingsFit
       DEF Operation
<1> QED
  BY <1>1, <1>2, <1>3, <1>4 DEF Next, Operation

LEMMA InitInv == Init => Inv
BY InitType DEF Init, Inv, FeedFits, Live

\* The inductive invariant holds, through the worker's fetch and a reader's of
\* the same feed, pauses, deletions and restarts.
THEOREM Invariance == Spec => []Inv
BY InitInv, StepInv, PTL DEF Spec

\* "Not modified" never hides an article: the validator a feed keeps is of a
\* document all of whose items are stored, however the worker's fetch and a
\* reader's interleave, whatever fails, and whatever the batch leaves out.
THEOREM NothingMissedAlways == Spec => []NothingMissed
<1>1. Inv => NothingMissed
  BY DEF Inv, FeedFits, RowFits, NothingMissed
<1> QED
  BY <1>1, Invariance, PTL

-----------------------------------------------------------------------------
(* Whether a feed is fetched *)

\* A step writes a feed's two columns together, or neither.
LEMMA StatusStep ==
    ASSUME TypeOK, [Next]_vars, NEW f \in Feed
    PROVE  SameStatus(f) \/ (feed'[f].on <=> feed'[f].status = "active")
<1>0. feed \in [Feed -> Row] /\ feed[f] \in Row
  BY DEF TypeOK
<1>1. CASE feed' = feed
  BY <1>1 DEF SameStatus
<1>2. CASE Tick
  BY <1>0, <1>2 DEF Tick, SameStatus, Row
<1>3. ASSUME NEW g \in Feed, Operation(g), g # f PROVE SameStatus(f)
  BY <1>3, Elsewhere DEF SameStatus
<1>4. CASE Settings(f)
  <2>1. CASE Create(f) \/ Delete(f)
    BY <1>0, <2>1 DEF Create, Delete
  <2>2. CASE \E on \in BOOLEAN : Update(f, on)
    BY <1>0, <2>2 DEF Update, SetActive, Row
  <2>3. CASE \E s \in {"active", "paused", "archived"} : UpdateStatus(f, s)
    BY <1>0, <2>3 DEF UpdateStatus, SetStatus, Row
  <2> QED
    BY <1>4, <2>1, <2>2, <2>3 DEF Settings
<1>5. CASE Finish(f) \/ Commit(f)
  BY <1>1, <1>5, WritesRow DEF Finish, Commit
<1>6. ASSUME NEW p \in Process, Answer(f, p) \/ FetchError(f, p) PROVE SameStatus(f)
  BY <1>6, WritesRow DEF Answer, FetchError, SameStatus
<1>7. ASSUME NEW p \in Process, Store(f, p) PROVE feed' = feed
  BY <1>7 DEF Store, StorageFailed, Scan, CreateSubscriptionArticle
<1>8. CASE \/ fetchAllFeeds \/ Restart \/ UNCHANGED vars
           \/ dispatchSubscriptionFeeds(f) \/ FetchNow(f) \/ Publish(f)
  BY <1>1, <1>8 DEF fetchAllFeeds, Restart, vars, dispatchSubscriptionFeeds, FetchNow,
     Publish
<1>9. CASE Operation(f)
  BY <1>1, <1>4, <1>5, <1>6, <1>7, <1>8, <1>9 DEF Operation
<1> QED
  BY <1>2, <1>3, <1>8, <1>9 DEF Next, Operation

\* The two columns that say whether a feed is fetched agree in every state:
\* "paused" in the list is paused for the worker.
THEOREM StatusMirroredAlways == Spec => []StatusMirrored
<1>1. Init => StatusMirrored
  BY DEF Init, StatusMirrored
<1>2. TypeOK /\ StatusMirrored /\ [Next]_vars => StatusMirrored'
  BY StatusStep DEF StatusMirrored, SameStatus
<1> QED
  BY <1>1, <1>2, TypeCorrect, PTL DEF Spec

-----------------------------------------------------------------------------
(* ExploreCopies: a page is named by the URL it was extracted from, from the*)
(* lease on to the copies in the readers' libraries.                        *)

CONSTANTS Url, Reader, Nobody, MaxLen, MaxRefresh, MaxRead
VARIABLES row, cache, reader, sub, copy, summary, refreshes, reads

EC == INSTANCE ExploreCopies

Origin == {"raw", "norm"}
CopyRow == [body : EC!Text, summary : EC!Text]

CopiesTyped ==
    /\ row \in [url : Url, body : EC!Body, ver : 0 .. 1, legacy : EC!Text]
    /\ cache \in [status : {"none", "fetching", "failed", "fetched"}, url : Url \cup {Nobody},
                  body : EC!Text, token : Reader \cup {Nobody}, expired : BOOLEAN, due : BOOLEAN]
    /\ reader \in [Reader -> [at : {"free", "open", "claimed", "charged", "done"},
                              url : Url \cup {Nobody}, seen : EC!Text]]
    /\ sub \in [at : {"free", "read", "write"}, url : Url \cup {Nobody}, body : EC!Text]
    /\ copy \in [Url -> CopyRow]
    /\ summary \in [at : {"idle", "writing"}, url : Url \cup {Nobody}, body : EC!Text]
    /\ sub.at # "free" => sub.url \in Url
    /\ summary.at = "writing" => summary.url \in Url

\* A body under way to a copy is the feed's text or the page of its URL.
Named(b, u) == b # EC!None => b[1] \in Origin \cup {u}

CopiesInv ==
    /\ CopiesTyped
    /\ row.body[1] \in Origin
    /\ cache.body # EC!None => cache.body[1] = cache.url
    /\ sub.at # "free" => Named(sub.body, sub.url)
    /\ \A u \in Url : Named(copy[u].body, u)
    /\ \A u \in Url : copy[u].summary # EC!None => copy[u].summary = copy[u].body

LEMMA Normal ==
    ASSUME NEW b \in EC!Text
    PROVE  /\ b # EC!None => b \in EC!Body
           /\ b \in EC!Body => EC!NormalizeFeedContent(b) \in EC!Body
           /\ EC!NormalizeFeedContent(b) \in EC!Text
           /\ EC!NormalizeFeedContent(b)[1] \in {b[1], "norm"}
<1>1. b = EC!None \/ b \in EC!Body
  BY DEF EC!Text
<1>2. CASE b \in EC!Body
  BY <1>2 DEF EC!Body, EC!NormalizeFeedContent, EC!Text
<1>3. CASE b = EC!None /\ b \notin EC!Body
  <2>1. b[1] = "none" /\ EC!NormalizeFeedContent(b) = b
    BY <1>3 DEF EC!None, EC!NormalizeFeedContent
  <2> QED
    BY <1>3, <2>1
<1> QED
  BY <1>1, <1>2, <1>3

LEMMA CopiesInit == EC!Init => CopiesInv
<1> SUFFICES ASSUME EC!Init PROVE CopiesInv
  OBVIOUS
<1>0. PICK u \in Url, b \in EC!Body :
        /\ b[1] \in {"raw", "norm"}
        /\ row = [url |-> u, body |-> b, legacy |-> EC!None, ver |-> IF b[1] = "raw" THEN 0 ELSE 1]
        /\ copy \in {[v \in Url |-> IF v = u THEN [body |-> c, summary |-> c] ELSE EC!NoCopy] :
                     c \in {b, EC!None}}
  BY DEF EC!Init
<1>1. PICK c \in {b, EC!None} :
        /\ b[1] \in {"raw", "norm"}
        /\ row = [url |-> u, body |-> b, legacy |-> EC!None, ver |-> IF b[1] = "raw" THEN 0 ELSE 1]
        /\ copy = [v \in Url |-> IF v = u THEN [body |-> c, summary |-> c] ELSE EC!NoCopy]
  BY <1>0
<1>2. b \in EC!Text /\ c \in EC!Text /\ EC!None \in EC!Text
  BY <1>1 DEF EC!Text
<1>3. copy \in [Url -> CopyRow]
  BY <1>1, <1>2 DEF EC!NoCopy, CopyRow
<1>4. \A v \in Url : Named(copy[v].body, v) /\ copy[v].summary = copy[v].body
  BY <1>1 DEF EC!NoCopy, Named, Origin
<1>5. row \in [url : Url, body : EC!Body, ver : 0 .. 1, legacy : EC!Text] /\ row.body[1] \in Origin
  BY <1>1, <1>2 DEF Origin
<1>6. /\ sub = [at |-> "free", url |-> Nobody, body |-> EC!None]
      /\ summary = [at |-> "idle", url |-> Nobody, body |-> EC!None]
      /\ reader = [r \in Reader |-> [at |-> "free", url |-> Nobody, seen |-> EC!None]]
      /\ cache = [status |-> "none", url |-> Nobody, body |-> EC!None, token |-> Nobody,
                  expired |-> FALSE, due |-> FALSE]
  BY DEF EC!Init, EC!NoSub, EC!Idle, EC!Free, EC!NoCache
<1>7. CopiesTyped
  BY <1>2, <1>3, <1>5, <1>6 DEF CopiesTyped
<1> QED
  BY <1>4, <1>5, <1>6, <1>7 DEF CopiesInv

\* The lease and its holders: the library is not touched.
LEMMA Leases ==
    ASSUME CopiesInv, UNCHANGED <<sub, copy, summary>>,
           row' \in [url : Url, body : EC!Body, ver : 0 .. 1, legacy : EC!Text], row'.body[1] \in Origin,
           cache' \in [status : {"none", "fetching", "failed", "fetched"}, url : Url \cup {Nobody},
                       body : EC!Text, token : Reader \cup {Nobody}, expired : BOOLEAN, due : BOOLEAN],
           cache'.body # EC!None => cache'.body[1] = cache'.url,
           reader' \in [Reader -> [at : {"free", "open", "claimed", "charged", "done"},
                                   url : Url \cup {Nobody}, seen : EC!Text]]
    PROVE  CopiesInv'
BY DEF CopiesInv, CopiesTyped, Named

LEMMA LeaseSteps ==
    ASSUME CopiesInv, NEW r \in Reader,
           \/ EC!FetchArticleContent(r) \/ EC!Claim(r) \/ EC!charge(r) \/ EC!Fail(r) \/ EC!Crash(r)
           \/ \E b \in Url \X (1 .. MaxLen) : EC!Store(r, b)
    PROVE  CopiesInv'
<1> DEFINE R == [at : {"free", "open", "claimed", "charged", "done"}, url : Url \cup {Nobody}, seen : EC!Text]
           C == [status : {"none", "fetching", "failed", "fetched"}, url : Url \cup {Nobody},
                 body : EC!Text, token : Reader \cup {Nobody}, expired : BOOLEAN, due : BOOLEAN]
<1>1. /\ row \in [url : Url, body : EC!Body, ver : 0 .. 1, legacy : EC!Text] /\ row.body[1] \in Origin
      /\ cache \in C /\ (cache.body # EC!None => cache.body[1] = cache.url) /\ reader \in [Reader -> R]
      /\ EC!None \in EC!Text /\ row.body \in EC!Text
  BY DEF CopiesInv, CopiesTyped, EC!Text
<1>2. reader[r] \in R
  BY <1>1
<1>3. EC!Done \in R /\ EC!Free \in R
  BY <1>1 DEF EC!Done, EC!Free
<1>4. EC!NoCache \in C /\ EC!NoCache.body = EC!None
  BY <1>1 DEF EC!NoCache
<1> DEFINE failed == [cache EXCEPT !.status = "failed", !.due = FALSE, !.expired = FALSE]
<1>5. failed \in C /\ failed.body = cache.body /\ failed.url = cache.url
  BY <1>1
<1>6. CASE EC!FetchArticleContent(r)
  <2>1. [EC!Free EXCEPT !.at = "open", !.url = row.url] \in R
    BY <1>1, <1>3
  <2> QED
    BY <1>1, <1>6, <2>1, Leases DEF EC!FetchArticleContent, EC!Becomes
<1>7. CASE EC!Claim(r)
  <2> DEFINE q == reader[r]
             y == [q EXCEPT !.at = "claimed", !.seen = row.body]
             c == [status |-> "fetching", url |-> q.url, token |-> r, expired |-> FALSE, due |-> FALSE,
                   body |-> IF cache.url = q.url THEN cache.body ELSE EC!None]
  <2>1. y \in R
    BY <1>1, <1>2
  <2>2. c \in C /\ (c.body # EC!None => c.body[1] = c.url)
    BY <1>1, <1>2
  <2>3. /\ UNCHANGED <<row, sub, copy, summary>>
        /\ \/ cache' = c /\ reader' = [reader EXCEPT ![r] = y]
           \/ cache' = cache /\ reader' = [reader EXCEPT ![r] = EC!Done]
    BY <1>7 DEF EC!Claim, EC!Becomes
  <2> HIDE DEF c, y
  <2>4. reader' \in [Reader -> R] /\ cache' \in C /\ (cache'.body # EC!None => cache'.body[1] = cache'.url)
    BY <1>1, <1>3, <2>1, <2>2, <2>3
  <2> QED
    BY <1>1, <2>3, <2>4, Leases
<1>8. CASE EC!charge(r)
  <2>1. [reader[r] EXCEPT !.at = "charged"] \in R
    BY <1>2
  <2>2. reader' \in [Reader -> R] /\ cache' \in {cache, EC!NoCache} /\ UNCHANGED <<row, sub, copy, summary>>
    BY <1>1, <1>3, <1>8, <2>1 DEF EC!charge, EC!Becomes
  <2> QED
    BY <1>1, <1>4, <2>2, Leases
<1>9. ASSUME EC!fail(r), UNCHANGED <<row, sub, copy, summary>> PROVE CopiesInv'
  <2>1. cache' \in {cache, failed} /\ reader' = [reader EXCEPT ![r] = EC!Done]
    BY <1>9 DEF EC!fail, EC!Becomes
  <2> HIDE DEF failed
  <2>2. reader' \in [Reader -> R] /\ cache' \in C /\ (cache'.body # EC!None => cache'.body[1] = cache'.url)
    BY <1>1, <1>3, <1>5, <2>1
  <2> QED
    BY <1>1, <1>9, <2>2, Leases
<1>10. ASSUME NEW b \in Url \X (1 .. MaxLen), EC!Store(r, b) PROVE CopiesInv'
  <2> DEFINE c == [cache EXCEPT !.status = "fetched", !.body = b]
  <2>1. b[1] = reader[r].url /\ b \in EC!Text /\ UNCHANGED <<row, sub, copy, summary>>
    BY <1>10 DEF EC!Store, EC!Text, EC!Body
  <2>2. c \in C /\ c.body = b /\ c.url = cache.url
    BY <1>1, <2>1
  <2>3. \/ EC!fail(r)
        \/ cache.url = reader[r].url /\ cache' = c /\ reader' = [reader EXCEPT ![r] = EC!Done]
    BY <1>10 DEF EC!Store, EC!Mine, EC!Becomes
  <2> HIDE DEF c
  <2>4. CASE cache.url = reader[r].url /\ cache' = c /\ reader' = [reader EXCEPT ![r] = EC!Done]
    <3>1. reader' \in [Reader -> R] /\ cache' \in C /\ cache'.body[1] = cache'.url
      BY <1>1, <1>3, <2>1, <2>2, <2>4
    <3> QED
      BY <1>1, <2>1, <3>1, Leases
  <2> QED
    BY <1>9, <2>1, <2>3, <2>4
<1>11. CASE EC!Crash(r)
  BY <1>1, <1>3, <1>11, Leases DEF EC!Crash, EC!Becomes
<1>12. CASE EC!Fail(r)
  BY <1>9, <1>12 DEF EC!Fail
<1> QED
  BY <1>6, <1>7, <1>8, <1>10, <1>11, <1>12

LEMMA SourceSteps ==
    ASSUME CopiesInv,
           \/ \E u \in Url, b \in {EC!None} \cup ({"norm"} \X (1 .. MaxLen)) : EC!UpsertArticle(u, b)
           \/ EC!Time
    PROVE  CopiesInv'
<1> DEFINE PageRow == [url : Url, body : EC!Body, ver : 0 .. 1, legacy : EC!Text]
<1>1. /\ row \in PageRow /\ row.body[1] \in Origin /\ EC!None \in EC!Text /\ row.body \in EC!Text
      /\ CopiesTyped /\ (cache.body # EC!None => cache.body[1] = cache.url)
  BY DEF CopiesInv, CopiesTyped, EC!Text
<1>2. ASSUME NEW u \in Url, NEW b \in {EC!None} \cup ({"norm"} \X (1 .. MaxLen)), EC!UpsertArticle(u, b)
      PROVE  CopiesInv'
  <2>1. UNCHANGED <<cache, reader, sub, copy, summary>>
    BY <1>2 DEF EC!UpsertArticle
  <2>2. CASE b = EC!None
    <3>1. row' = [row EXCEPT !.url = u]
      BY <1>2, <2>2 DEF EC!UpsertArticle
    <3>2. row' \in PageRow /\ row'.body = row.body
      BY <1>1, <3>1
    <3> QED
      BY <1>1, <2>1, <3>2, Leases DEF CopiesTyped
  <2>3. CASE b # EC!None
    <3>1. /\ b \in EC!Body /\ b[1] \in Origin
          /\ row' = [url |-> u, body |-> b, ver |-> 1,
                     legacy |-> IF row.ver = 0 THEN row.body ELSE row.legacy]
      BY <1>2, <2>3 DEF EC!UpsertArticle, EC!Body, Origin
    <3>2. row' \in PageRow /\ row'.body = b
      BY <1>1, <3>1
    <3> QED
      BY <1>1, <2>1, <3>1, <3>2, Leases DEF CopiesTyped
  <2> QED
    BY <2>2, <2>3
<1>3. CASE EC!Time
  <2>1. /\ UNCHANGED <<row, reader, sub, copy, summary>>
        /\ cache' = [cache EXCEPT !.expired = TRUE] \/ cache' = [cache EXCEPT !.due = TRUE]
    BY <1>3 DEF EC!Time
  <2>2. /\ cache' \in [status : {"none", "fetching", "failed", "fetched"}, url : Url \cup {Nobody},
                       body : EC!Text, token : Reader \cup {Nobody}, expired : BOOLEAN, due : BOOLEAN]
        /\ cache'.body = cache.body /\ cache'.url = cache.url
    BY <1>1, <2>1 DEF CopiesTyped
  <2> QED
    BY <1>1, <2>1, <2>2, Leases DEF CopiesTyped
<1> QED
  BY <1>2, <1>3

\* The library: bodies come from the subscription or the repair, and a summary
\* goes when its body does.
LEMMA LibrarySteps ==
    ASSUME CopiesInv,
           \/ EC!Subscribe \/ EC!loadCopiedOriginals \/ EC!copyExploreArticles
           \/ EC!UpdateSummary \/ \E u \in Url : EC!Summarize(u)
    PROVE  CopiesInv'
<1>1. /\ CopiesTyped /\ row.body[1] \in Origin /\ (cache.body # EC!None => cache.body[1] = cache.url)
      /\ (sub.at # "free" => Named(sub.body, sub.url)) /\ (\A u \in Url : Named(copy[u].body, u))
      /\ \A u \in Url : copy[u].summary # EC!None => copy[u].summary = copy[u].body
      /\ EC!None \in EC!Text /\ row.body \in EC!Text /\ row.body \in EC!Body
  BY DEF CopiesInv, CopiesTyped, EC!Text
<1>2. CASE EC!Subscribe
  <2> DEFINE b == EC!NormalizeFeedContent(row.body)
  <2>1. b \in EC!Text /\ b[1] \in Origin
    BY <1>1, Normal DEF Origin
  <2>2. sub' = [at |-> "read", url |-> row.url, body |-> b] /\ UNCHANGED <<row, cache, reader, copy, summary>>
    BY <1>2 DEF EC!Subscribe
  <2> HIDE DEF b
  <2> QED
    BY <1>1, <2>1, <2>2 DEF CopiesInv, CopiesTyped, Named
<1>3. CASE EC!loadCopiedOriginals
  <2>1. PICK b \in {sub.body, cache.body} :
          /\ sub' = [sub EXCEPT !.at = "write", !.body = b] /\ sub.at = "read"
          /\ b = sub.body \/ cache.url = sub.url
          /\ UNCHANGED <<row, cache, reader, copy, summary>>
    BY <1>3 DEF EC!loadCopiedOriginals
  <2>2. b \in EC!Text /\ Named(b, sub.url)
    BY <1>1, <2>1 DEF CopiesTyped, Named
  <2> QED
    BY <1>1, <2>1, <2>2 DEF CopiesInv, CopiesTyped, Named
<1>4. CASE EC!copyExploreArticles
  <2> DEFINE c == EC!Upserted(copy[sub.url], sub.body)
  <2>1. sub.at = "write" /\ sub.url \in Url /\ sub' = EC!NoSub /\ UNCHANGED <<row, cache, reader, summary>>
    BY <1>1, <1>4 DEF EC!copyExploreArticles, CopiesTyped
  <2>2. copy[sub.url] \in CopyRow /\ sub.body \in EC!Text
    BY <1>1, <2>1 DEF CopiesTyped
  <2>3. c \in CopyRow /\ c.body \in {sub.body, copy[sub.url].body} /\ (c.summary # EC!None => c.summary = c.body)
    BY <1>1, <2>1, <2>2 DEF EC!Upserted, EC!Accepted, CopyRow
  <2>4. copy' = copy \/ copy' = [copy EXCEPT ![sub.url] = c]
    BY <1>4 DEF EC!copyExploreArticles
  <2> HIDE DEF c
  <2>5. /\ copy' \in [Url -> CopyRow] /\ \A u \in Url : Named(copy'[u].body, u)
        /\ \A u \in Url : copy'[u].summary # EC!None => copy'[u].summary = copy'[u].body
    BY <1>1, <2>1, <2>3, <2>4 DEF CopiesTyped, Named
  <2> QED
    BY <1>1, <2>1, <2>5 DEF CopiesInv, CopiesTyped, EC!NoSub, Named
<1>5. CASE EC!UpdateSummary
  <2> DEFINE c == [copy[summary.url] EXCEPT !.summary = summary.body]
  <2>1. /\ summary.url \in Url /\ summary.body \in EC!Text /\ summary' = EC!Idle
        /\ copy[summary.url] \in CopyRow /\ UNCHANGED <<row, cache, reader, sub>>
    BY <1>1, <1>5 DEF EC!UpdateSummary, CopiesTyped
  <2>2. c \in CopyRow /\ c.body = copy[summary.url].body /\ c.summary = summary.body
    BY <2>1 DEF CopyRow
  <2>3. copy' = copy \/ (copy[summary.url].body = summary.body /\ copy' = [copy EXCEPT ![summary.url] = c])
    BY <1>5 DEF EC!UpdateSummary
  <2> HIDE DEF c
  <2>4. /\ copy' \in [Url -> CopyRow] /\ \A u \in Url : Named(copy'[u].body, u)
        /\ \A u \in Url : copy'[u].summary # EC!None => copy'[u].summary = copy'[u].body
    BY <1>1, <2>1, <2>2, <2>3 DEF CopiesTyped
  <2> QED
    BY <1>1, <2>1, <2>4 DEF CopiesInv, CopiesTyped, EC!Idle, Named
<1>6. ASSUME NEW u \in Url, EC!Summarize(u) PROVE CopiesInv'
  <2>1. copy[u].body \in EC!Text
    BY <1>1 DEF CopiesTyped, CopyRow
  <2>2. /\ summary' = [at |-> "writing", url |-> u, body |-> copy[u].body]
        /\ UNCHANGED <<row, cache, reader, sub, copy>>
    BY <1>6 DEF EC!Summarize
  <2> QED
    BY <1>1, <2>1, <2>2 DEF CopiesInv, CopiesTyped, Named
<1> QED
  BY <1>2, <1>3, <1>4, <1>5, <1>6

LEMMA RepairStep == ASSUME CopiesInv, EC!RepairContent PROVE CopiesInv'
<1> DEFINE fixed == EC!NormalizeFeedContent(row.body)
           new(u) == [body |-> EC!NormalizeFeedContent(copy[u].body), summary |-> EC!None]
<1>1. /\ CopiesTyped /\ row.body[1] \in Origin /\ (\A u \in Url : Named(copy[u].body, u))
      /\ \A u \in Url : copy[u].summary # EC!None => copy[u].summary = copy[u].body
      /\ EC!None \in EC!Text /\ row.body \in EC!Text /\ row.body \in EC!Body
  BY DEF CopiesInv, CopiesTyped, EC!Text
<1>2. fixed \in EC!Body /\ fixed[1] \in Origin
  BY <1>1, Normal DEF Origin
<1> HIDE DEF fixed
<1>3. /\ UNCHANGED <<cache, reader, sub, summary>>
      /\ row' = row \/ row' = [row EXCEPT !.body = fixed, !.ver = 1, !.legacy = row.body]
      /\ \A u \in Url : copy'[u] = copy[u] \/ (copy[u].body # EC!None /\ copy'[u] = new(u))
      /\ copy' = [u \in Url |-> copy'[u]]
  BY DEF EC!RepairContent, EC!Legacy, fixed
<1>4. row' \in [url : Url, body : EC!Body, ver : 0 .. 1, legacy : EC!Text] /\ row'.body[1] \in Origin
  <2>1. row \in [url : Url, body : EC!Body, ver : 0 .. 1, legacy : EC!Text]
    BY <1>1 DEF CopiesTyped
  <2>2. CASE row' = [row EXCEPT !.body = fixed, !.ver = 1, !.legacy = row.body]
    <3> DEFINE n == [row EXCEPT !.body = fixed, !.ver = 1, !.legacy = row.body]
    <3>4. fixed \in EC!Body /\ row.body \in EC!Text /\ 1 \in 0 .. 1
      BY <1>1, <1>2
    <3>1. n \in [url : Url, body : EC!Body, ver : 0 .. 1, legacy : EC!Text]
      BY <2>1, <3>4
    <3>2. n.body = fixed
      BY <2>1
    <3> HIDE DEF n
    <3>3. row' = n
      BY <2>2 DEF n
    <3> QED
      BY <1>2, <3>1, <3>2, <3>3
  <2> QED
    BY <1>1, <1>3, <2>1, <2>2
<1>5. ASSUME NEW u \in Url
      PROVE  /\ copy'[u] \in CopyRow /\ Named(copy'[u].body, u)
             /\ copy'[u].summary # EC!None => copy'[u].summary = copy'[u].body
  <2>1. copy[u] \in CopyRow /\ copy[u].body \in EC!Text
    BY <1>1 DEF CopiesTyped, CopyRow
  <2>2. CASE copy'[u] = copy[u]
    BY <1>1, <2>1, <2>2
  <2>3. CASE copy[u].body # EC!None /\ copy'[u] = new(u)
    <3>1. /\ new(u).body \in EC!Text /\ new(u).body[1] \in {copy[u].body[1], "norm"}
      BY <2>1, Normal
    <3>2. new(u) \in CopyRow /\ new(u).summary = EC!None
      BY <1>1, <3>1 DEF CopyRow
    <3> QED
      BY <1>1, <2>3, <3>1, <3>2 DEF Named, Origin
  <2> QED
    BY <1>3, <2>2, <2>3
<1>6. copy' \in [Url -> CopyRow]
  BY <1>3, <1>5
<1> QED
  BY <1>1, <1>3, <1>4, <1>5, <1>6 DEF CopiesInv, CopiesTyped, Named

LEMMA CopiesStep == ASSUME CopiesInv, [EC!Next]_EC!vars PROVE CopiesInv'
<1>1. CASE UNCHANGED EC!vars
  BY <1>1 DEF EC!vars, CopiesInv, CopiesTyped, Named
<1>2. CASE EC!Next
  BY <1>2, LeaseSteps, SourceSteps, LibrarySteps, RepairStep DEF EC!Next
<1> QED
  BY <1>1, <1>2

\* Nothing is passed off as the text of another URL: neither the original kept
\* under a URL, whoever took the lease over, nor what a copy took over from it.
\* repository/explore_catalog.go, explore/subscribe_content.go.
THEOREM BodyOfUrlAlways == EC!Spec => []EC!BodyOfUrl
<1>1. EC!Spec => []CopiesInv
  BY CopiesInit, CopiesStep, PTL DEF EC!Spec
<1>2. CopiesInv => EC!BodyOfUrl
  BY DEF CopiesInv, EC!BodyOfUrl, Named, Origin
<1> QED
  BY <1>1, <1>2, PTL

\* A summary shown with a copy is of the copy's body, whichever of the
\* subscription, the repair and the worker writes first.
\* explore/content_repair.go, repository/explore_catalog.go.
THEOREM SummaryOfBodyAlways == EC!Spec => []EC!SummaryOfBody
<1>1. EC!Spec => []CopiesInv
  BY CopiesInit, CopiesStep, PTL DEF EC!Spec
<1>2. CopiesInv => EC!SummaryOfBody
  BY DEF CopiesInv, EC!SummaryOfBody
<1> QED
  BY <1>1, <1>2, PTL

-----------------------------------------------------------------------------
(* Registry: what a directory's validator says to be unchanged is the         *)
(* document whose entries were last materialized, where no two              *)
(* synchronizations of it have met; where they have, none that another has  *)
(* overtaken writes.                                                        *)

CONSTANTS Provider, Related, Trusted, Entry, UrlOf, Doc, Worker, Fresh,
          Listed, MaxTime, MaxSource
VARIABLES now, doc, provider, source, seen, shown, overlapped

RY == INSTANCE Registry

Versions == {0} \cup DOMAIN Doc
Sync == [at : {"idle", "fetch", "upsert", "same", "fail", "done"}, p : Provider \cup {""},
         now : 0 .. MaxTime, etag : Versions, got : Versions, left : SUBSET Entry]
Directory == [etag : Versions, sync : Nat, success : Nat, built : Nat, failures : Nat]
Observation == Provider \X Entry \X (1 .. MaxSource)
Showing == Provider \X Entry

RegistryTyped ==
    /\ now \in 0 .. MaxTime
    /\ doc \in [Provider -> DOMAIN Doc]
    /\ provider \in [Provider -> Directory]
    /\ seen \in [Observation -> Nat]
    /\ shown \in [Showing -> Nat]
    /\ work \in [Worker -> Sync]

Dated(p) ==
    /\ provider[p].sync <= now
    /\ provider[p].success <= provider[p].sync /\ provider[p].built <= provider[p].sync

\* The entries materialized last were in the document kept.
Materialized(p) ==
    /\ provider[p].etag # 0 => provider[p].built > 0
    /\ provider[p].built > 0 /\ p \notin Related =>
         \A o \in Observation : o[1] = p /\ seen[o] = provider[p].built => o[2] \in Doc[provider[p].etag]

\* A synchronization has a time of its own.
Underway(w) ==
    LET q == work[w] IN
    q # RY!Idle => q.p \in Provider /\ q.now <= now /\ q.now # provider[q.p].sync
Apart(v, w) ==
    v # w /\ work[v] # RY!Idle /\ work[w] # RY!Idle => work[v].now # work[w].now

\* One that has met no other of its provider is the last one begun.
Listing(w) ==
    LET q == work[w] IN
    q # RY!Idle /\ q.p \notin overlapped =>
      /\ \A v \in Worker : v # w /\ work[v] # RY!Idle => work[v].p # q.p
      /\ provider[q.p].sync < q.now /\ provider[q.p].built < q.now
      /\ q.at \in {"fetch", "same"} => \A o \in Observation : o[1] = q.p => seen[o] < q.now
      /\ q.at \in {"fetch", "same"} => q.etag = IF q.p \in Related THEN 0 ELSE provider[q.p].etag
      /\ q.at = "same" => /\ q.etag # 0 /\ q.got = q.etag
                          /\ \A k \in Doc[q.got] : shown[<<q.p, k>>] >= q.now
      /\ q.at = "upsert" => /\ q.got # 0 /\ q.left \subseteq Doc[q.got]
                            /\ \A k \in Doc[q.got] : shown[<<q.p, k>>] >= q.now
                            /\ \A o \in Observation : o[1] = q.p /\ seen[o] = q.now => o[2] \in Doc[q.got]

RegistryInv ==
    /\ RegistryTyped
    /\ RY!EvidenceWasShown
    /\ \A o \in Observation : seen[o] <= now
    /\ \A p \in Provider : Dated(p) /\ (p \in overlapped \/ Materialized(p))
    /\ \A w \in Worker : Underway(w) /\ Listing(w)
    /\ \A v, w \in Worker : Apart(v, w)

LEMMA Documents ==
    RY!RegistryAssumption =>
      /\ DOMAIN Doc = 1 .. Len(Doc) /\ Len(Doc) \in Nat \ {0}
      /\ \A v \in DOMAIN Doc : Doc[v] \subseteq Entry
      /\ RY!Idle \in Sync /\ RY!Idle.at = "idle"
      /\ \A q \in Sync : q.now \in Nat
<1> SUFFICES ASSUME RY!RegistryAssumption
             PROVE  /\ DOMAIN Doc = 1 .. Len(Doc) /\ Len(Doc) \in Nat \ {0}
                    /\ \A v \in DOMAIN Doc : Doc[v] \subseteq Entry
                    /\ RY!Idle \in Sync /\ RY!Idle.at = "idle"
                    /\ \A q \in Sync : q.now \in Nat
  OBVIOUS
<1>1. DOMAIN Doc = 1 .. Len(Doc) /\ Len(Doc) \in Nat \ {0} /\ \A v \in DOMAIN Doc : Doc[v] \subseteq Entry
  BY DEF RY!RegistryAssumption
<1>2. RY!Idle \in Sync /\ RY!Idle.at = "idle"
  BY DEF RY!Idle, Sync, Versions, RY!RegistryAssumption
<1>3. \A q \in Sync : q.now \in Nat
  <2>1. MaxTime \in Nat
    BY DEF RY!RegistryAssumption
  <2>2. \A q \in Sync : q.now \in 0 .. MaxTime
    BY DEF Sync
  <2> QED
    BY <2>1, <2>2
<1> QED
  BY <1>1, <1>2, <1>3

LEMMA RegistryInit == ASSUME RY!RegistryAssumption, RY!Init PROVE RegistryInv
<1>1. RegistryTyped
  <2>1. now \in 0 .. MaxTime /\ doc \in [Provider -> DOMAIN Doc]
    BY Documents DEF RY!RegistryAssumption, RY!Init
  <2>2. provider \in [Provider -> Directory]
    BY DEF RY!Init, Directory, Versions
  <2>3. seen \in [Observation -> Nat] /\ shown \in [Showing -> Nat]
    BY DEF RY!Init, Observation, Showing
  <2> QED
    BY <2>1, <2>2, <2>3, Documents DEF RY!Init, RegistryTyped
<1>2. RY!EvidenceWasShown /\ \A o \in Observation : seen[o] <= now
  BY DEF RY!Init, RY!EvidenceWasShown, Observation
<1>3. \A p \in Provider : Dated(p) /\ Materialized(p)
  BY DEF RY!Init, Dated, Materialized
<1>4. \A v \in Worker : work[v] = RY!Idle
  BY DEF RY!Init
<1>5. \A w \in Worker : Underway(w) /\ Listing(w)
  BY <1>4 DEF Underway, Listing
<1>6. \A v, w \in Worker : Apart(v, w)
  BY <1>4 DEF Apart
<1> QED
  BY <1>1, <1>2, <1>3, <1>5, <1>6 DEF RegistryInv

\* A step of a synchronization: it writes its own provider's row, evidence and
\* answer, with its own time, and the rows only while none has overtaken it.
LEMMA SyncStep ==
    ASSUME RY!RegistryAssumption, RegistryInv, NEW w \in Worker, NEW x \in Sync, NEW p \in Provider,
           work[w] # RY!Idle, p = work[w].p, RY!Becomes(w, x),
           x = RY!Idle \/ (x.p = p /\ x.now = work[w].now /\ UNCHANGED provider),
           UNCHANGED <<now, doc, overlapped>>,
           provider' \in [Provider -> Directory], seen' \in [Observation -> Nat],
           shown' \in [Showing -> Nat],
           \A d \in Provider : provider'[d] # provider[d] =>
             /\ d = p /\ ~RY!Superseded(work[w]) /\ provider'[d].sync = work[w].now
             /\ provider'[d].success \in {provider[d].success, work[w].now}
             /\ provider'[d].built \in {provider[d].built, work[w].now},
           \A o \in Observation : seen'[o] # seen[o] =>
             o[1] = p /\ ~RY!Superseded(work[w]) /\ seen'[o] = work[w].now /\ seen'[o] > seen[o],
           \A o \in Showing : shown'[o] # shown[o] => o[1] = p,
           p \notin overlapped =>
             /\ \A o \in Observation : o[1] = p => seen'[o] <= shown'[<<o[1], o[2]>>]
             /\ Materialized(p)' /\ Listing(w)'
    PROVE  RegistryInv' /\ RY!NoStaleWriteStep
<1> DEFINE t == work[w].now
<1>0. /\ work \in [Worker -> Sync] /\ provider \in [Provider -> Directory] /\ seen \in [Observation -> Nat]
      /\ now \in Nat /\ t \in Nat /\ t <= now /\ t # provider[p].sync
  <2>1. work \in [Worker -> Sync] /\ provider \in [Provider -> Directory] /\ seen \in [Observation -> Nat]
        /\ now \in Nat
    BY DEF RegistryInv, RegistryTyped
  <2>2. t <= now /\ t # provider[p].sync
    BY DEF RegistryInv, Underway
  <2>3. work[w] \in Sync
    BY <2>1
  <2>4. t \in Nat
    BY <2>3, Documents
  <2> QED
    BY <2>1, <2>2, <2>4
<1>1. work' = [work EXCEPT ![w] = x] /\ work'[w] = x /\ work' \in [Worker -> Sync]
  BY <1>0 DEF RY!Becomes
<1>2. RegistryTyped'
  BY <1>1 DEF RegistryInv, RegistryTyped
<1>3. provider[p].sync \in Nat /\ (~RY!Superseded(work[w]) => provider[p].sync < t)
  <2>1. provider[p].sync \in Nat
    BY <1>0 DEF Directory
  <2> QED
    BY <1>0, <2>1 DEF RY!Superseded
<1>4. \A d \in Provider :
        /\ provider'[d] \in Directory /\ provider[d] \in Directory /\ Dated(d)
        /\ provider'[d] # provider[d] => /\ d = p /\ provider'[d].sync = t /\ provider[d].sync < t
                                         /\ provider'[d].success \in {provider[d].success, t}
                                         /\ provider'[d].built \in {provider[d].built, t}
  BY <1>0, <1>3 DEF RegistryInv
<1>5. \A d \in Provider : Dated(d)'
  BY <1>0, <1>4 DEF Dated, Directory
<1>6. \A o \in Observation : seen[o] \in Nat /\ seen[o] <= now /\ seen'[o] \in Nat /\ seen'[o] <= now
  BY <1>0 DEF RegistryInv
<1>7. RY!EvidenceWasShown'
  <2> SUFFICES ASSUME NEW o \in Observation, o[1] \notin overlapped
               PROVE  seen'[o] <= shown'[<<o[1], o[2]>>]
    BY <1>2 DEF RY!EvidenceWasShown, RegistryTyped
  <2>1. CASE o[1] = p
    BY <2>1
  <2>2. CASE o[1] # p
    <3>1. <<o[1], o[2]>> \in Showing /\ <<o[1], o[2]>>[1] # p
      BY <2>2 DEF Observation, Showing
    <3>2. shown'[<<o[1], o[2]>>] = shown[<<o[1], o[2]>>] /\ seen'[o] = seen[o]
      BY <2>2, <3>1
    <3>3. seen[o] <= shown[<<o[1], o[2]>>]
      BY <1>0 DEF RegistryInv, RY!EvidenceWasShown
    <3> QED
      BY <3>2, <3>3
  <2> QED
    BY <2>1, <2>2
<1>8. \A d \in Provider : d \in overlapped' \/ Materialized(d)'
  <2> SUFFICES ASSUME NEW d \in Provider, d \notin overlapped, d # p PROVE Materialized(d)'
    OBVIOUS
  <2>1. Materialized(d) /\ provider'[d] = provider[d] /\ \A o \in Observation : o[1] = d => seen'[o] = seen[o]
    BY DEF RegistryInv
  <2> QED
    BY <2>1 DEF Materialized
<1>9. ASSUME NEW v \in Worker, v # w PROVE Underway(v)' /\ Listing(v)'
  <2> SUFFICES ASSUME work[v] # RY!Idle PROVE Underway(v)' /\ Listing(v)'
    BY <1>1 DEF Underway, Listing
  <2> DEFINE u == work[v]
  <2>1. work'[v] = u /\ u.p \in Provider /\ u.now <= now /\ u.now # provider[u.p].sync /\ u.now # t
    BY <1>1, <1>9 DEF RegistryInv, Underway, Apart
  <2>2. Underway(v)'
    BY <1>4, <2>1 DEF Underway
  <2>3. Listing(v)'
    <3> SUFFICES ASSUME u.p \notin overlapped PROVE Listing(v)'
      BY <2>1 DEF Listing
    <3>1. p # u.p /\ Listing(v)
      BY <1>9 DEF RegistryInv, Listing
    <3>2. provider'[u.p] = provider[u.p] /\ \A o \in Observation : o[1] = u.p => seen'[o] = seen[o]
      BY <2>1, <3>1
    <3>3. u.got # 0 => \A k \in Doc[u.got] : shown'[<<u.p, k>>] = shown[<<u.p, k>>]
      <4>1. \A k \in Entry : <<u.p, k>> \in Showing /\ <<u.p, k>>[1] # p
        BY <2>1, <3>1 DEF Showing
      <4>2. u.got # 0 => Doc[u.got] \subseteq Entry
        BY <1>0, Documents DEF Sync, Versions
      <4> QED
        BY <4>1, <4>2
    <3>4. \A z \in Worker : z # v /\ work'[z] # RY!Idle => work'[z].p # u.p
      BY <1>1, <1>9, <2>1, <3>1 DEF Listing
    <3> QED
      BY <2>1, <3>1, <3>2, <3>3, <3>4 DEF Listing
  <2> QED
    BY <2>2, <2>3
<1>10. Underway(w)' /\ Listing(w)'
  BY <1>0, <1>1 DEF Underway, Listing
<1>11. \A v, u \in Worker : Apart(v, u)'
  BY <1>1 DEF RegistryInv, Apart
<1>12. RY!NoStaleWriteStep
  <2>1. \A d \in Provider : provider'[d] # provider[d] =>
          provider'[d].sync > provider[d].sync /\ provider'[d].success >= provider[d].success
          /\ provider'[d].built >= provider[d].built
    BY <1>0, <1>4 DEF Dated, Directory
  <2>2. \A o \in Observation : seen'[o] # seen[o] => seen'[o] > seen[o] /\ seen'[o] >= provider'[o[1]].sync
    BY <1>0, <1>3, <1>4
  <2> QED
    BY <1>0, <2>1, <2>2 DEF RY!NoStaleWriteStep
<1> QED
  BY <1>2, <1>5, <1>6, <1>7, <1>8, <1>9, <1>10, <1>11, <1>12 DEF RegistryInv

LEMMA LoadStep ==
    ASSUME RY!RegistryAssumption, RegistryInv, NEW w \in Worker, NEW p \in Provider,
           RY!LoadDueProviders(w, p)
    PROVE  RegistryInv' /\ RY!NoStaleWriteStep
<1> DEFINE e == IF p \in Related THEN 0 ELSE provider[p].etag
           q == [RY!Idle EXCEPT !.at = "fetch", !.p = p, !.now = now + 1, !.etag = e]
           met == \E v \in Worker : work[v].p = p
<1>1. /\ work[w] = RY!Idle /\ now < MaxTime /\ now' = now + 1 /\ RY!Becomes(w, q)
      /\ UNCHANGED <<doc, provider, source, seen, shown>>
  BY DEF RY!LoadDueProviders
<1>2. overlapped \subseteq overlapped' /\ \A v \in Worker : work[v].p = p => p \in overlapped'
  <2>1. overlapped' = IF met THEN overlapped \cup {p} ELSE overlapped
    BY DEF RY!LoadDueProviders
  <2> QED
    BY <2>1
<1> HIDE DEF met
<1>3. q.at = "fetch" /\ q.p = p /\ q.now = now + 1 /\ q.etag = e
  <2> HIDE DEF e
  <2> QED
    BY DEF RY!Idle
<1>4. now + 1 \in 0 .. MaxTime /\ now \in 0 .. MaxTime /\ MaxTime \in Nat
      /\ \A d \in Provider : provider[d] \in Directory
  BY <1>1 DEF RegistryInv, RegistryTyped, RY!RegistryAssumption
<1>5. q \in Sync
  <2>1. e \in Versions
    BY <1>4 DEF Versions, Directory
  <2>2. RY!Idle \in Sync
    BY Documents
  <2> HIDE DEF e
  <2> QED
    BY <1>4, <2>1, <2>2 DEF Sync
<1>6. work' = [work EXCEPT ![w] = q] /\ work \in [Worker -> Sync]
  BY <1>1 DEF RY!Becomes, RegistryInv, RegistryTyped
<1>7. work'[w] = q /\ work' \in [Worker -> Sync] /\ \A v \in Worker : v # w => work'[v] = work[v]
  BY <1>5, <1>6
<1>8. RegistryTyped'
  BY <1>1, <1>4, <1>7 DEF RegistryInv, RegistryTyped
<1>9. \A o \in Observation : seen[o] \in Nat /\ seen[o] < now + 1
  BY <1>4 DEF RegistryInv, RegistryTyped
<1>10. \A d \in Provider : /\ provider[d].sync < now + 1 /\ provider[d].built < now + 1
                           /\ Dated(d)' /\ (d \in overlapped' \/ Materialized(d)')
  <2> SUFFICES ASSUME NEW d \in Provider
               PROVE  /\ provider[d].sync < now + 1 /\ provider[d].built < now + 1
                      /\ Dated(d)' /\ (d \in overlapped' \/ Materialized(d)')
    OBVIOUS
  <2>1. Dated(d) /\ (d \in overlapped \/ Materialized(d)) /\ provider[d] \in Directory
    BY <1>4 DEF RegistryInv
  <2>2. provider[d].sync < now + 1 /\ provider[d].built < now + 1 /\ Dated(d)'
    BY <1>1, <1>4, <2>1 DEF Dated, Directory
  <2>3. Materialized(d) => Materialized(d)'
    BY <1>1 DEF Materialized
  <2> QED
    BY <1>2, <2>1, <2>2, <2>3
<1>11. \A v \in Worker : v # w /\ work[v] # RY!Idle =>
         work[v].p \in Provider /\ work[v].now <= now /\ work[v].now # provider[work[v].p].sync /\ work[v].now \in Nat
  BY <1>6, Documents DEF RegistryInv, Underway
<1>12. \A v \in Worker : Underway(v)' /\ Listing(v)'
  <2>1. Underway(w)'
    BY <1>1, <1>3, <1>4, <1>7, <1>10 DEF Underway, Directory
  <2>2. Listing(w)'
    <3>1. p \notin overlapped' => \A v \in Worker : work[v].p # p
      BY <1>2
    <3> QED
      BY <1>1, <1>3, <1>7, <1>9, <1>10, <3>1 DEF Listing
  <2>3. ASSUME NEW v \in Worker, v # w PROVE Underway(v)' /\ Listing(v)'
    <3>1. work'[v] = work[v]
      BY <1>7, <2>3
    <3>2. Underway(v)'
      BY <1>1, <1>4, <1>11, <2>3, <3>1 DEF Underway
    <3>3. Listing(v)'
      <4> SUFFICES ASSUME work[v] # RY!Idle, work[v].p \notin overlapped' PROVE Listing(v)'
        BY <3>1 DEF Listing
      <4>1. Listing(v) /\ work[v].p \notin overlapped /\ work[v].p # p
        BY <1>2 DEF RegistryInv
      <4>2. \A z \in Worker : z # v /\ work'[z] # RY!Idle => work'[z].p # work[v].p
        BY <1>3, <1>7, <4>1 DEF Listing
      <4> QED
        BY <1>1, <3>1, <4>1, <4>2 DEF Listing
    <3> QED
      BY <3>2, <3>3
  <2> QED
    BY <2>1, <2>2, <2>3
<1>13. \A v, u \in Worker : Apart(v, u)'
  <2> SUFFICES ASSUME NEW v \in Worker, NEW u \in Worker, v # u, work'[v] # RY!Idle, work'[u] # RY!Idle
               PROVE  work'[v].now # work'[u].now
    BY DEF Apart
  <2>1. \A z \in Worker : z # w /\ work'[z] # RY!Idle => work'[z].now \in Nat /\ work'[z].now <= now
    BY <1>7, <1>11
  <2>2. work'[w].now = now + 1
    BY <1>3, <1>7
  <2>3. v # w /\ u # w => work'[v].now # work'[u].now
    BY <1>7 DEF RegistryInv, Apart
  <2> HIDE DEF q
  <2> QED
    BY <1>4, <2>1, <2>2, <2>3
<1>14. \A o \in Observation : seen[o]' <= now'
  BY <1>1, <1>9, <1>4 DEF RegistryInv
<1>15. RY!EvidenceWasShown'
  BY <1>1, <1>2 DEF RegistryInv, RY!EvidenceWasShown
<1>16. RY!NoStaleWriteStep
  BY <1>1 DEF RY!NoStaleWriteStep
<1> QED
  BY <1>8, <1>10, <1>12, <1>13, <1>14, <1>15, <1>16 DEF RegistryInv

\* What is known of a synchronization that is about to step.
LEMMA OfSync ==
    ASSUME RY!RegistryAssumption, RegistryInv, NEW w \in Worker, work[w].at # "idle"
    PROVE  /\ work[w] # RY!Idle /\ work[w] \in Sync /\ work[w].p \in Provider
           /\ work[w].now \in Nat /\ work[w].now <= now /\ now \in Nat
           /\ work[w].p \notin overlapped => Listing(w) /\ Materialized(work[w].p)
           /\ \A o \in Observation : seen[o] \in Nat
           /\ \A o \in Observation : o[1] \notin overlapped => seen[o] <= shown[<<o[1], o[2]>>]
<1>1. work \in [Worker -> Sync] /\ seen \in [Observation -> Nat] /\ now \in Nat
  BY DEF RegistryInv, RegistryTyped
<1>2. work[w] # RY!Idle /\ work[w] \in Sync
  BY <1>1, Documents
<1>3. work[w].p \in Provider /\ work[w].now <= now /\ Listing(w)
  BY <1>2 DEF RegistryInv, Underway
<1>4. work[w].p \notin overlapped => Materialized(work[w].p)
  BY <1>3 DEF RegistryInv
<1>5. \A o \in Observation : o[1] \notin overlapped => seen[o] <= shown[<<o[1], o[2]>>]
  BY <1>1 DEF RegistryInv, RY!EvidenceWasShown
<1> QED
  BY <1>1, <1>2, <1>3, <1>4, <1>5, Documents

\* A synchronization that goes on without writing, or ends.
LEMMA QuietStep ==
    ASSUME RY!RegistryAssumption, RegistryInv, NEW w \in Worker, work[w].at # "idle",
           NEW x \in Sync, RY!Becomes(w, x),
           x = RY!Idle \/ (x.p = work[w].p /\ x.now = work[w].now),
           UNCHANGED <<now, doc, provider, seen, shown, overlapped>>,
           work[w].p \notin overlapped => Listing(w)'
    PROVE  RegistryInv' /\ RY!NoStaleWriteStep
<1>1. PICK p \in Provider : p = work[w].p /\ work[w] # RY!Idle /\ work[w] \in Sync
  BY OfSync
<1>2. provider' \in [Provider -> Directory] /\ seen' \in [Observation -> Nat] /\ shown' \in [Showing -> Nat]
  BY DEF RegistryInv, RegistryTyped
<1>3. p \notin overlapped => Materialized(p)'
  BY <1>1, OfSync DEF Materialized
<1>4. p \notin overlapped => \A o \in Observation : o[1] = p => seen'[o] <= shown'[<<o[1], o[2]>>]
  BY <1>1, OfSync
<1> QED
  BY <1>1, <1>2, <1>3, <1>4, SyncStep

LEMMA QuietSteps ==
    ASSUME RY!RegistryAssumption, RegistryInv, NEW w \in Worker, RY!UpsertFails(w) \/ RY!SyncEnds(w)
    PROVE  RegistryInv' /\ RY!NoStaleWriteStep
<1> DEFINE q == work[w]
<1>1. q.at # "idle" /\ UNCHANGED <<now, doc, provider, seen, shown, overlapped>>
  BY DEF RY!UpsertFails, RY!SyncEnds
<1>2. q \in Sync /\ q # RY!Idle /\ RY!Idle \in Sync
  BY <1>1, OfSync, Documents
<1>3. CASE RY!Becomes(w, RY!Idle)
  <2>1. Listing(w)'
    BY <1>3 DEF RY!Becomes, Listing, RegistryInv, RegistryTyped
  <2> QED
    BY <1>1, <1>2, <1>3, <2>1, QuietStep
<1>4. CASE q.at = "upsert" /\ RY!Becomes(w, [q EXCEPT !.at = "fail"])
  <2> DEFINE n == [q EXCEPT !.at = "fail"]
  <2>1. n \in Sync /\ n.at = "fail" /\ n.p = q.p /\ n.now = q.now
    BY <1>2 DEF Sync
  <2> HIDE DEF n
  <2>2. work' = [work EXCEPT ![w] = n]
    BY <1>4 DEF RY!Becomes, n
  <2>3. q.p \notin overlapped => Listing(w)'
    BY <1>1, <1>2, <2>1, <2>2, OfSync DEF Listing, RegistryInv, RegistryTyped
  <2> QED
    BY <1>1, <1>4, <2>1, <2>3, QuietStep DEF n
<1>5. CASE q.at = "upsert" /\ \E k \in q.left : RY!Becomes(w, [q EXCEPT !.left = @ \ {k}])
  <2>1. PICK k \in q.left : RY!Becomes(w, [q EXCEPT !.left = @ \ {k}])
    BY <1>5
  <2> DEFINE n == [q EXCEPT !.left = @ \ {k}]
  <2>2. n \in Sync /\ n.at = "upsert" /\ n.p = q.p /\ n.now = q.now /\ n.got = q.got /\ n.left \subseteq q.left
    BY <1>2, <1>5 DEF Sync
  <2> HIDE DEF n
  <2>3. work' = [work EXCEPT ![w] = n]
    BY <2>1 DEF RY!Becomes, n
  <2>4. q.p \notin overlapped => Listing(w)'
    BY <1>1, <1>2, <1>5, <2>2, <2>3, OfSync DEF Listing, RegistryInv, RegistryTyped
  <2> QED
    BY <1>1, <2>1, <2>2, <2>4, QuietStep DEF n
<1> QED
  BY <1>3, <1>4, <1>5 DEF RY!UpsertFails, RY!SyncEnds

LEMMA FetchStep ==
    ASSUME RY!RegistryAssumption, RegistryInv, NEW w \in Worker, RY!Fetch(w)
    PROVE  RegistryInv' /\ RY!NoStaleWriteStep
<1> DEFINE q == work[w]
           v == doc[q.p]
<1>1. q.at = "fetch" /\ UNCHANGED <<now, doc, provider, seen, overlapped>>
  BY DEF RY!Fetch
<1>p. PICK p \in Provider : p = q.p
  BY <1>1, OfSync
<1>2. /\ q \in Sync /\ q # RY!Idle /\ p = q.p /\ q.now <= now /\ q.now \in Nat /\ now \in Nat
      /\ work \in [Worker -> Sync]
  BY <1>1, <1>p, OfSync DEF RegistryInv, RegistryTyped
<1>3. v \in DOMAIN Doc /\ v # 0 /\ Doc[v] \subseteq Entry
  BY <1>2, Documents DEF RegistryInv, RegistryTyped
<1>4. CASE RY!Becomes(w, [q EXCEPT !.at = "fail"]) /\ UNCHANGED shown
  <2> DEFINE n == [q EXCEPT !.at = "fail"]
  <2>1. n \in Sync /\ n.at = "fail" /\ n.p = q.p /\ n.now = q.now
    BY <1>2 DEF Sync
  <2> HIDE DEF n
  <2>2. work' = [work EXCEPT ![w] = n]
    BY <1>4 DEF RY!Becomes, n
  <2>3. p \notin overlapped => Listing(w)'
    BY <1>1, <1>2, <1>4, <2>1, <2>2, OfSync DEF Listing
  <2> QED
    BY <1>1, <1>2, <1>4, <2>1, <2>3, QuietStep DEF n
<1>5. CASE /\ shown' = [o \in Showing |-> IF o[1] = p /\ o[2] \in Doc[v] THEN now ELSE shown[o]]
           /\ RY!Becomes(w, IF q.etag = v THEN [q EXCEPT !.at = "same", !.got = v]
                            ELSE [q EXCEPT !.at = "upsert", !.got = v, !.left = Doc[v]])
  <2> DEFINE n == IF q.etag = v THEN [q EXCEPT !.at = "same", !.got = v]
                  ELSE [q EXCEPT !.at = "upsert", !.got = v, !.left = Doc[v]]
  <2>1. n \in Sync /\ n.p = p /\ n.now = q.now /\ n.etag = q.etag /\ n.got = v
        /\ (n.at = "same" <=> q.etag = v) /\ (n.at = "upsert" <=> q.etag # v) /\ n.at \in {"same", "upsert"}
        /\ (n.at = "upsert" => n.left = Doc[v])
    BY <1>2, <1>3 DEF Sync, Versions
  <2>2. RY!Becomes(w, n)
    BY <1>5
  <2> HIDE DEF n
  <2>3. work' = [work EXCEPT ![w] = n] /\ work'[w] = n
    BY <1>2, <2>2 DEF RY!Becomes
  <2>4. /\ provider' \in [Provider -> Directory] /\ seen' \in [Observation -> Nat]
        /\ shown \in [Showing -> Nat] /\ shown' \in [Showing -> Nat]
        /\ \A o \in Observation : seen[o] <= now
    BY <1>1, <1>2, <1>5 DEF RegistryInv, RegistryTyped
  <2>5. \A k \in Doc[v] : shown'[<<p, k>>] >= q.now
    BY <1>2, <1>3, <1>5 DEF Showing
  <2>6. ASSUME p \notin overlapped
        PROVE  /\ \A o \in Observation : o[1] = p => seen'[o] <= shown'[<<o[1], o[2]>>]
               /\ Materialized(p)' /\ Listing(w)'
    <3>1. ASSUME NEW o \in Observation, o[1] = p PROVE seen'[o] <= shown'[<<o[1], o[2]>>]
      <4>1. seen[o] <= shown[<<o[1], o[2]>>] /\ seen[o] <= now /\ seen'[o] = seen[o]
        BY <1>1, <1>2, <2>4, <2>6, <3>1, OfSync
      <4>2. <<o[1], o[2]>> \in Showing
        BY DEF Observation, Showing
      <4> QED
        BY <1>5, <4>1, <4>2
    <3>2. Materialized(p)'
      BY <1>1, <1>2, <2>6, OfSync DEF Materialized
    <3>3. Listing(w)'
      <4>1. Listing(w) /\ \A z \in Worker : z # w => work'[z] = work[z]
        BY <1>1, <1>2, <2>3, <2>6, OfSync
      <4>2. \A o \in Observation : o[1] = p => seen[o] < q.now /\ seen[o] # q.now
        BY <1>1, <1>2, <2>6, <4>1, OfSync DEF Listing
      <4> QED
        BY <1>1, <1>2, <1>3, <2>1, <2>3, <2>5, <2>6, <4>1, <4>2 DEF Listing
    <3> QED
      BY <3>1, <3>2, <3>3
  <2>7. \A o \in Showing : shown'[o] # shown[o] => o[1] = p
    BY <1>5
  <2> QED
    BY <1>1, <1>2, <2>1, <2>2, <2>4, <2>6, <2>7, SyncStep
<1> QED
  BY <1>4, <1>5, <1>p DEF RY!Fetch, Showing

\* An entry of the document is materialized: a synchronization only writes its
\* own time.
LEMMA UpsertStep ==
    ASSUME RY!RegistryAssumption, RegistryInv, NEW w \in Worker, RY!UpsertCandidate(w)
    PROVE  RegistryInv' /\ RY!NoStaleWriteStep
<1> DEFINE q == work[w]
<1>1. q.at = "upsert" /\ UNCHANGED <<now, doc, provider, shown, overlapped>>
  BY DEF RY!UpsertCandidate
<1>p. PICK p \in Provider : p = q.p
  BY <1>1, OfSync
<1>2. /\ q \in Sync /\ q # RY!Idle /\ p = q.p /\ q.now <= now /\ q.now \in Nat /\ now \in Nat
      /\ work \in [Worker -> Sync] /\ RY!Idle \in Sync
  BY <1>1, <1>p, OfSync, Documents DEF RegistryInv, RegistryTyped
<1>3. PICK k \in q.left :
        IF RY!Superseded(q)
        THEN /\ RY!Becomes(w, IF p \in Related THEN [q EXCEPT !.left = @ \ {k}] ELSE [q EXCEPT !.at = "done"])
             /\ UNCHANGED seen
        ELSE /\ \E s : seen' = [seen EXCEPT ![<<p, k, s>>] = RY!Larger(@, q.now)]
             /\ RY!Becomes(w, [q EXCEPT !.left = @ \ {k}])
  BY <1>2 DEF RY!UpsertCandidate
<1> DEFINE n == [q EXCEPT !.left = @ \ {k}]
           d == [q EXCEPT !.at = "done"]
<1>4. n \in Sync /\ n.at = "upsert" /\ n.p = p /\ n.now = q.now /\ n.got = q.got /\ n.left \subseteq q.left
  BY <1>1, <1>2 DEF Sync
<1>5. d \in Sync /\ d.at = "done" /\ d.p = p /\ d.now = q.now
  BY <1>1, <1>2 DEF Sync
<1> HIDE DEF n, d
<1>6. RY!Becomes(w, n) \/ (RY!Becomes(w, d) /\ UNCHANGED seen)
  BY <1>3 DEF n, d
<1>7. CASE UNCHANGED seen /\ RY!Becomes(w, d)
  <2>1. p \notin overlapped => Listing(w)'
    BY <1>1, <1>2, <1>5, <1>7, OfSync DEF Listing, RY!Becomes
  <2> QED
    BY <1>1, <1>2, <1>5, <1>7, <2>1, QuietStep
<1>8. CASE UNCHANGED seen /\ RY!Becomes(w, n)
  <2>1. p \notin overlapped => Listing(w)'
    BY <1>1, <1>2, <1>4, <1>8, OfSync DEF Listing, RY!Becomes
  <2> QED
    BY <1>1, <1>2, <1>4, <1>8, <2>1, QuietStep
<1>9. CASE ~RY!Superseded(q)
  <2>1. PICK s : seen' = [seen EXCEPT ![<<p, k, s>>] = RY!Larger(@, q.now)]
    BY <1>3, <1>9
  <2>2. work' = [work EXCEPT ![w] = n] /\ work'[w] = n /\ \A z \in Worker : z # w => work'[z] = work[z]
    BY <1>2, <1>3, <1>9 DEF n, RY!Becomes
  <2>3. /\ seen \in [Observation -> Nat] /\ provider' \in [Provider -> Directory]
        /\ shown' \in [Showing -> Nat]
    BY <1>1 DEF RegistryInv, RegistryTyped
  <2>4. \A o \in Observation :
          seen'[o] = seen[o] \/ (seen'[o] = q.now /\ seen'[o] > seen[o] /\ o[1] = p /\ o[2] = k)
    <3> SUFFICES ASSUME NEW o \in Observation, o = <<p, k, s>>
                 PROVE  seen'[o] = seen[o] \/ (seen'[o] = q.now /\ seen'[o] > seen[o])
      BY <2>1, <2>3
    <3>1. seen'[o] = RY!Larger(seen[o], q.now) /\ seen[o] \in Nat
      BY <2>1, <2>3
    <3> QED
      BY <1>2, <3>1 DEF RY!Larger
  <2>5. seen' \in [Observation -> Nat]
    <3>1. DOMAIN seen' = Observation /\ seen' = [o \in DOMAIN seen' |-> seen'[o]]
      BY <2>1, <2>3
    <3>2. \A o \in Observation : seen'[o] \in Nat
      BY <1>2, <2>3, <2>4
    <3> QED
      BY <3>1, <3>2
  <2>6. ASSUME p \notin overlapped
        PROVE  /\ \A o \in Observation : o[1] = p => seen'[o] <= shown'[<<o[1], o[2]>>]
               /\ Materialized(p)' /\ Listing(w)'
    <3>1. /\ Listing(w) /\ q.got # 0 /\ k \in Doc[q.got] /\ q.left \subseteq Doc[q.got]
          /\ \A j \in Doc[q.got] : shown[<<p, j>>] >= q.now
          /\ provider[p].built < q.now
      BY <1>1, <1>2, <2>6, OfSync DEF Listing
    <3>2. ASSUME NEW o \in Observation, o[1] = p PROVE seen'[o] <= shown'[<<o[1], o[2]>>]
      <4>1. seen[o] <= shown[<<o[1], o[2]>>]
        BY <1>1, <1>2, <2>6, <3>2, OfSync
      <4>2. shown[<<p, k>>] >= q.now
        BY <3>1
      <4> QED
        BY <1>1, <1>2, <2>4, <3>2, <4>1, <4>2
    <3>3. Materialized(p)'
      <4>1. Materialized(p)
        BY <1>1, <1>2, <2>6, OfSync
      <4>2. \A o \in Observation : seen'[o] = provider[p].built => seen[o] = provider[p].built
        <5>1. provider[p].built \in Nat
          BY <1>1, <2>3 DEF Directory
        <5> QED
          BY <1>2, <2>4, <3>1, <5>1
      <4> QED
        BY <1>1, <4>1, <4>2 DEF Materialized
    <3>4. Listing(w)'
      <4>1. \A o \in Observation : o[1] = p /\ seen'[o] = q.now => o[2] \in Doc[q.got]
        <5>1. \A o \in Observation : o[1] = p /\ seen[o] = q.now => o[2] \in Doc[q.got]
          BY <1>1, <1>2, <2>6, <3>1 DEF Listing
        <5> QED
          BY <2>4, <3>1, <5>1
      <4> QED
        BY <1>1, <1>2, <1>4, <2>2, <2>6, <3>1, <4>1 DEF Listing
    <3> QED
      BY <3>2, <3>3, <3>4
  <2>7. RY!Becomes(w, n)
    BY <2>2 DEF RY!Becomes
  <2> QED
    BY <1>1, <1>2, <1>4, <1>9, <2>3, <2>4, <2>5, <2>6, <2>7, SyncStep
<1> QED
  BY <1>3, <1>6, <1>7, <1>8, <1>9

\* A synchronization that none has overtaken records its outcome, and ends.
LEMMA Recorded ==
    ASSUME RY!RegistryAssumption, RegistryInv, NEW w \in Worker, NEW p \in Provider,
           work[w].at # "idle", p = work[w].p, ~RY!Superseded(work[w]),
           RY!Becomes(w, RY!Idle), UNCHANGED <<now, doc, shown, overlapped>>,
           NEW entry \in Directory, provider' = [provider EXCEPT ![p] = entry],
           entry.sync = work[w].now,
           entry.success \in {provider[p].success, work[w].now},
           entry.built \in {provider[p].built, work[w].now},
           seen' \in [Observation -> Nat],
           \A o \in Observation : seen'[o] # seen[o] =>
             /\ o[1] = p /\ seen'[o] = work[w].now /\ seen'[o] > seen[o]
             /\ p \notin overlapped => seen'[o] <= shown[<<p, o[2]>>],
           p \notin overlapped => Materialized(p)'
    PROVE  RegistryInv' /\ RY!NoStaleWriteStep
<1>1. work[w] # RY!Idle /\ RY!Idle \in Sync /\ work' = [work EXCEPT ![w] = RY!Idle]
  BY OfSync, Documents DEF RY!Becomes
<1>2. provider \in [Provider -> Directory] /\ provider' \in [Provider -> Directory] /\ shown' \in [Showing -> Nat]
      /\ work \in [Worker -> Sync]
  BY DEF RegistryInv, RegistryTyped
<1>3. \A d \in Provider : provider'[d] # provider[d] => d = p /\ provider'[d] = entry
  BY <1>2
<1>4. Listing(w)'
  BY <1>1, <1>2 DEF Listing
<1>5. ASSUME p \notin overlapped, NEW o \in Observation, o[1] = p
      PROVE  seen'[o] <= shown'[<<o[1], o[2]>>]
  BY <1>5, OfSync
<1>6. \A d \in Provider : provider'[d] # provider[d] =>
        /\ d = p /\ ~RY!Superseded(work[w]) /\ provider'[d].sync = work[w].now
        /\ provider'[d].success \in {provider[d].success, work[w].now}
        /\ provider'[d].built \in {provider[d].built, work[w].now}
  BY <1>3
<1>7. \A o \in Observation : seen'[o] # seen[o] =>
        o[1] = p /\ ~RY!Superseded(work[w]) /\ seen'[o] = work[w].now /\ seen'[o] > seen[o]
  OBVIOUS
<1>8. \A o \in Showing : shown'[o] # shown[o] => o[1] = p
  OBVIOUS
<1> QED
  BY <1>1, <1>2, <1>4, <1>5, <1>6, <1>7, <1>8, SyncStep

\* A superseded synchronization's outcome is dropped.
LEMMA Dropped ==
    ASSUME RY!RegistryAssumption, RegistryInv, NEW w \in Worker, work[w].at # "idle",
           RY!Becomes(w, RY!Idle), UNCHANGED <<now, doc, provider, seen, shown, overlapped>>
    PROVE  RegistryInv' /\ RY!NoStaleWriteStep
<1>1. Listing(w)'
  BY DEF RY!Becomes, Listing, RegistryInv, RegistryTyped
<1> QED
  BY <1>1, Documents, QuietStep

LEMMA SuccessStep ==
    ASSUME RY!RegistryAssumption, RegistryInv, NEW w \in Worker, RY!RecordSuccess(w)
    PROVE  RegistryInv' /\ RY!NoStaleWriteStep
<1> DEFINE q == work[w]
<1>1. q.at = "upsert" /\ UNCHANGED <<now, doc, seen, shown, overlapped>> /\ RY!Becomes(w, RY!Idle)
  BY DEF RY!RecordSuccess
<1>2. CASE RY!Superseded(q)
  BY <1>1, <1>2, Dropped DEF RY!RecordSuccess
<1>3. CASE ~RY!Superseded(q)
  <2>1. PICK p \in Provider : p = q.p
    BY <1>1, OfSync
  <2>2. q \in Sync /\ q.now \in Nat /\ provider \in [Provider -> Directory] /\ seen' \in [Observation -> Nat]
    BY <1>1, OfSync DEF RegistryInv, RegistryTyped
  <2> DEFINE e == IF p \in Related THEN 0 ELSE q.got
             entry == [etag |-> e, sync |-> q.now, success |-> q.now, built |-> q.now, failures |-> 0]
  <2>3. provider' = [provider EXCEPT ![p] = entry]
    BY <1>3, <2>1 DEF RY!RecordSuccess, RY!Synced
  <2>4. e \in Versions
    BY <2>2 DEF Sync, Versions
  <2>5. entry \in Directory /\ entry.sync = q.now /\ entry.built = q.now /\ entry.success = q.now /\ entry.etag = e
    BY <2>2, <2>4 DEF Directory
  <2> HIDE DEF entry
  <2>6. p \notin overlapped => Materialized(p)'
    <3> SUFFICES ASSUME p \notin overlapped PROVE Materialized(p)'
      OBVIOUS
    <3>1. provider[p].sync < q.now /\ \A o \in Observation : o[1] = p /\ seen[o] = q.now => o[2] \in Doc[q.got]
      BY <1>1, <2>1, OfSync DEF Listing
    <3>2. provider'[p] = entry /\ q.now > 0
      BY <2>2, <2>3, <3>1 DEF Directory
    <3> QED
      BY <1>1, <2>5, <3>1, <3>2 DEF Materialized
  <2>7. \A o \in Observation : seen'[o] = seen[o]
    BY <1>1
  <2> QED
    BY <1>1, <1>3, <2>1, <2>2, <2>3, <2>5, <2>6, <2>7, Recorded
<1> QED
  BY <1>2, <1>3

\* An answer that nothing changed refreshes what the document it stands for
\* lists, which was shown.
LEMMA NotModifiedStep ==
    ASSUME RY!RegistryAssumption, RegistryInv, NEW w \in Worker, RY!RecordNotModified(w)
    PROVE  RegistryInv' /\ RY!NoStaleWriteStep
<1> DEFINE q == work[w]
<1>1. q.at = "same" /\ UNCHANGED <<now, doc, shown, overlapped>> /\ RY!Becomes(w, RY!Idle)
  BY DEF RY!RecordNotModified
<1>2. CASE RY!Superseded(q)
  BY <1>1, <1>2, Dropped DEF RY!RecordNotModified
<1>3. CASE ~RY!Superseded(q)
  <2>1. PICK p \in Provider : p = q.p
    BY <1>1, OfSync
  <2>2. q \in Sync /\ q.now \in Nat /\ provider \in [Provider -> Directory] /\ seen \in [Observation -> Nat]
    BY <1>1, OfSync DEF RegistryInv, RegistryTyped
  <2> DEFINE e == IF p \in Related THEN 0 ELSE q.got
             entry == [etag |-> e, sync |-> q.now, success |-> q.now, built |-> q.now, failures |-> 0]
  <2>3. /\ provider' = [provider EXCEPT ![p] = entry]
        /\ seen' = [o \in Observation |-> IF o[1] = p /\ seen[o] > 0 /\ RY!Represented(p, o[2])
                                          THEN RY!Larger(seen[o], q.now) ELSE seen[o]]
    BY <1>3, <2>1, <2>2 DEF RY!RecordNotModified, RY!Synced
  <2>4. e \in Versions
    BY <2>2 DEF Sync, Versions
  <2>5. entry \in Directory /\ entry.sync = q.now /\ entry.built = q.now /\ entry.success = q.now /\ entry.etag = e
    BY <2>2, <2>4 DEF Directory
  <2>6. \A o \in Observation :
          IF o[1] = p /\ seen[o] > 0 /\ RY!Represented(p, o[2])
          THEN seen'[o] = RY!Larger(seen[o], q.now) ELSE seen'[o] = seen[o]
    BY <2>3
  <2>7. \A o \in Observation : seen'[o] # seen[o] =>
          o[1] = p /\ RY!Represented(p, o[2]) /\ seen'[o] = q.now /\ seen'[o] > seen[o]
    BY <2>2, <2>6 DEF RY!Larger
  <2>8. seen' \in [Observation -> Nat]
    <3>1. \A o \in Observation : seen'[o] \in Nat
      BY <2>2, <2>7
    <3>2. DOMAIN seen' = Observation /\ seen' = [o \in DOMAIN seen' |-> seen'[o]]
      BY <2>3
    <3> QED
      BY <3>1, <3>2
  <2> HIDE DEF entry
  <2>9. ASSUME p \notin overlapped
        PROVE  /\ \A o \in Observation : seen'[o] # seen[o] => seen'[o] <= shown[<<p, o[2]>>]
               /\ Materialized(p)'
    <3>1. /\ q.etag # 0 /\ q.got = q.etag /\ p \notin Related /\ q.got = provider[p].etag
          /\ provider[p].sync < q.now /\ provider[p].built < q.now
          /\ \A k \in Doc[q.got] : shown[<<p, k>>] >= q.now
          /\ \A o \in Observation : o[1] = p => seen[o] < q.now
      BY <1>1, <2>1, <2>9, OfSync DEF Listing
    <3>2. \A k \in Entry : RY!Represented(p, k) => k \in Doc[q.got]
      <4> SUFFICES ASSUME NEW k \in Entry, RY!Represented(p, k) PROVE k \in Doc[q.got]
        OBVIOUS
      <4>1. PICK s \in 1 .. MaxSource : seen[<<p, k, s>>] = provider[p].built
        BY DEF RY!Represented
      <4>2. <<p, k, s>> \in Observation /\ provider[p].built > 0
        BY DEF Observation, RY!Represented
      <4>3. Materialized(p)
        BY <1>1, <2>1, <2>9, OfSync
      <4> QED
        BY <3>1, <4>1, <4>2, <4>3 DEF Materialized
    <3>3. \A o \in Observation : o[2] \in Entry
      BY DEF Observation
    <3>4. \A o \in Observation : seen'[o] # seen[o] => seen'[o] <= shown[<<p, o[2]>>]
      <4> SUFFICES ASSUME NEW o \in Observation, seen'[o] # seen[o] PROVE seen'[o] <= shown[<<p, o[2]>>]
        OBVIOUS
      <4>1. o[2] \in Doc[q.got] /\ seen'[o] = q.now
        BY <2>7, <3>2, <3>3
      <4>2. shown[<<p, o[2]>>] >= q.now /\ <<p, o[2]>> \in Showing
        BY <3>1, <3>3, <4>1 DEF Showing
      <4>3. shown \in [Showing -> Nat]
        BY DEF RegistryInv, RegistryTyped
      <4> QED
        BY <2>2, <4>1, <4>2, <4>3
    <3>5. \A o \in Observation : o[1] = p /\ seen'[o] = q.now => o[2] \in Doc[q.got]
      BY <2>2, <2>7, <3>1, <3>2, <3>3
    <3>6. provider'[p] = entry /\ q.now > 0
      BY <2>2, <2>3, <3>1 DEF Directory
    <3>7. Materialized(p)'
      BY <1>1, <2>5, <3>1, <3>5, <3>6 DEF Materialized
    <3> QED
      BY <3>4, <3>7
  <2>10. \A o \in Observation : seen'[o] # seen[o] =>
           /\ o[1] = p /\ seen'[o] = q.now /\ seen'[o] > seen[o]
           /\ p \notin overlapped => seen'[o] <= shown[<<p, o[2]>>]
    BY <2>7, <2>9
  <2>11. provider' = [provider EXCEPT ![p] = entry] /\ (p \notin overlapped => Materialized(p)')
    BY <2>3, <2>9
  <2> HIDE DEF e
  <2> QED
    BY <1>1, <1>3, <2>1, <2>5, <2>8, <2>10, <2>11, Recorded
<1> QED
  BY <1>2, <1>3

LEMMA FailureStep ==
    ASSUME RY!RegistryAssumption, RegistryInv, NEW w \in Worker, RY!RecordFailure(w)
    PROVE  RegistryInv' /\ RY!NoStaleWriteStep
<1> DEFINE q == work[w]
<1>1. q.at # "idle" /\ UNCHANGED <<now, doc, seen, shown, overlapped>> /\ RY!Becomes(w, RY!Idle)
  BY DEF RY!RecordFailure
<1>2. CASE RY!Superseded(q)
  BY <1>1, <1>2, Dropped DEF RY!RecordFailure
<1>3. CASE ~RY!Superseded(q)
  <2>1. PICK p \in Provider : p = q.p
    BY <1>1, OfSync
  <2>2. q.now \in Nat /\ provider \in [Provider -> Directory] /\ seen' \in [Observation -> Nat]
    BY <1>1, OfSync DEF RegistryInv, RegistryTyped
  <2> DEFINE d == provider[p]
             entry == [d EXCEPT !.sync = q.now, !.failures = @ + 1]
  <2>3. provider' = [provider EXCEPT ![p] = entry]
    BY <1>3, <2>1, <2>2 DEF RY!RecordFailure
  <2>4. /\ entry \in Directory /\ entry.sync = q.now /\ entry.built = d.built /\ entry.success = d.success
        /\ entry.etag = d.etag
    <3>1. d \in Directory
      BY <2>2
    <3>2. d.failures + 1 \in Nat /\ DOMAIN d = {"etag", "sync", "success", "built", "failures"}
      BY <3>1 DEF Directory
    <3> HIDE DEF d
    <3>3. entry \in Directory
      BY <2>2, <3>1, <3>2 DEF Directory
    <3> QED
      BY <3>1, <3>2, <3>3 DEF Directory
  <2> HIDE DEF entry
  <2>5. p \notin overlapped => Materialized(p)'
    <3>1. provider'[p] = entry
      BY <2>2, <2>3
    <3>2. p \notin overlapped => Materialized(p)
      BY <1>1, <2>1, OfSync
    <3> QED
      BY <1>1, <2>4, <3>1, <3>2 DEF Materialized
  <2>6. \A o \in Observation : seen'[o] = seen[o]
    BY <1>1
  <2> QED
    BY <1>1, <1>3, <2>1, <2>2, <2>3, <2>4, <2>5, <2>6, Recorded
<1> QED
  BY <1>2, <1>3

LEMMA RegistryStep ==
    ASSUME RY!RegistryAssumption, RegistryInv, [RY!Next]_(RY!vars)
    PROVE  RegistryInv' /\ RY!NoStaleWriteStep
<1>1. CASE UNCHANGED <<now, provider, seen, work, shown, overlapped>> /\ doc' \in [Provider -> DOMAIN Doc]
  BY <1>1 DEF RegistryInv, RegistryTyped, RY!EvidenceWasShown, Dated, Materialized, Underway, Apart,
              Listing, RY!NoStaleWriteStep
<1>2. ASSUME NEW p \in Provider, RY!Publish(p) PROVE RegistryInv' /\ RY!NoStaleWriteStep
  BY <1>1, <1>2 DEF RY!Publish, RY!Version, RegistryInv, RegistryTyped
<1>3. ASSUME NEW s, NEW u, RY!Validate(s, u) PROVE RegistryInv' /\ RY!NoStaleWriteStep
  BY <1>1, <1>3 DEF RY!Validate, RegistryInv, RegistryTyped
<1>4. CASE UNCHANGED RY!vars
  BY <1>1, <1>4 DEF RY!vars, RegistryInv, RegistryTyped
<1> QED
  BY <1>2, <1>3, <1>4, LoadStep, FetchStep, UpsertStep, QuietSteps, SuccessStep, NotModifiedStep,
     FailureStep DEF RY!Next

\* The evidence for a source of a provider of which no two synchronizations have
\* met is never younger than the last time its entry was in what the provider
\* answered: "not modified" keeps alive what the document lists and not what was
\* taken out of it.  And however many meet, a provider's row and its evidence are
\* only written by a synchronization that none begun later has overtaken.
\* explore/registry.go, repository/explore_registry.go.
THEOREM EvidenceWasShownAlways ==
    ASSUME RY!RegistryAssumption PROVE RY!Spec => []RY!EvidenceWasShown /\ RY!NoStaleWrite
<1>1. RegistryInv /\ [RY!Next]_(RY!vars) => RegistryInv' /\ [RY!NoStaleWriteStep]_(RY!vars)
  BY RegistryStep
<1>2. RY!Init => RegistryInv
  BY RegistryInit
<1>3. RegistryInv => RY!EvidenceWasShown
  BY DEF RegistryInv
<1> QED
  BY <1>1, <1>2, <1>3, PTL DEF RY!Spec, RY!NoStaleWrite

-----------------------------------------------------------------------------
(* Clips: a row that is ready was read, and so was one that has a text,      *)
(* which a summary may lift to ready.                                       *)

CONSTANTS Request, MaxArticle
VARIABLES feeds, stored, request, ocr, told

CL == INSTANCE Clips

Page == [url : Url, clip : BOOLEAN, state : {"ready", "processing", "failed"},
         text : Nat, images : Nat, summary : BOOLEAN, read : BOOLEAN]
Sound(x) == x \in Page /\ (x.state = "ready" \/ x.text > 0 => x.read)

\* A request is for URLs.
Brings(q) ==
    /\ DOMAIN q = {"at", "todo", "len", "images", "keep", "found", "made", "aborted"}
    /\ q.todo \in Seq(Url) /\ q.images \in Nat /\ q.len \in Nat
    /\ q.made \subseteq Url /\ IsFiniteSet(q.made)
    /\ q.at \in {"page", "pdf", "scan", "create"} => q.todo # << >>

ClipsInv ==
    /\ article \in Seq(Page)
    /\ \A a \in DOMAIN article : Sound(article[a])
    /\ DOMAIN request = Request /\ \A r \in Request : Brings(request[r])

LEMMA Lengths ==
    ASSUME CL!ClipsAssumption, NEW len \in CL!Len0
    PROVE  len \in Nat
<1>1. MaxLen \in Nat
  BY DEF CL!ClipsAssumption
<1> QED
  BY <1>1 DEF CL!Len0

LEMMA FreeBrings == Brings(CL!Free)
<1>1. << >> \in Seq(Url) /\ {} \subseteq Url /\ IsFiniteSet({})
  BY FS_EmptySet
<1> QED
  BY <1>1 DEF CL!Free, Brings

LEMMA ClipsInit == CL!Init => ClipsInv
<1> SUFFICES ASSUME CL!Init PROVE ClipsInv
  OBVIOUS
<1>1. article = << >> /\ DOMAIN request = Request /\ \A r \in Request : request[r] = CL!Free
  BY DEF CL!Init
<1> QED
  BY <1>1, FreeBrings DEF ClipsInv

\* A request goes on; the library stays, has one row written, or gets more rows.
LEMMA RequestGoesOn ==
    ASSUME ClipsInv, NEW r \in Request, NEW q, Brings(q), CL!Becomes(r, q)
    PROVE  DOMAIN request' = Request /\ \A o \in Request : Brings(request'[o])
BY DEF ClipsInv, CL!Becomes

LEMMA OneWritten ==
    ASSUME ClipsInv, NEW a, NEW x, article' = [article EXCEPT ![a] = x],
           a \in DOMAIN article => Sound(x)
    PROVE  article' \in Seq(Page) /\ \A b \in DOMAIN article' : Sound(article'[b])
<1>1. DOMAIN article' = DOMAIN article
  OBVIOUS
<1>2. \A b \in DOMAIN article' : article'[b] = article[b] \/ (a \in DOMAIN article /\ article'[b] = x)
  OBVIOUS
<1>3. \A b \in DOMAIN article' : Sound(article'[b])
  BY <1>1, <1>2 DEF ClipsInv
<1>4. \A b \in DOMAIN article' : article'[b] \in Page
  BY <1>3 DEF Sound
<1>5. article \in Seq(Page) /\ article' = [b \in DOMAIN article |-> article'[b]]
  BY DEF ClipsInv
<1>6. DOMAIN article = 1 .. Len(article) /\ Len(article) \in Nat
  BY <1>5
<1>7. article' \in [1 .. Len(article) -> Page]
  BY <1>1, <1>4, <1>5, <1>6
<1>8. article' \in Seq(Page)
  BY <1>6, <1>7, SeqDef
<1> QED
  BY <1>3, <1>8

LEMMA MoreRows ==
    ASSUME ClipsInv, NEW s \in Seq(Page), CL!Add(s), \A i \in DOMAIN s : Sound(s[i])
    PROVE  article' \in Seq(Page) /\ \A b \in DOMAIN article' : Sound(article'[b])
<1>1. article' = article \o s /\ article \in Seq(Page)
  <2>1. article' = article \o s
    BY DEF CL!Add
  <2> QED
    BY <2>1 DEF ClipsInv
<1>2. article' \in Seq(Page)
  BY <1>1
<1>3. ASSUME NEW b \in DOMAIN article' PROVE Sound(article'[b])
  <2>1. CASE b \in DOMAIN article
    <3>1. article'[b] = article[b]
      BY <1>1, <2>1
    <3> QED
      BY <2>1, <3>1 DEF ClipsInv
  <2>2. CASE b \notin DOMAIN article
    <3>1. article'[b] = s[b - Len(article)] /\ b - Len(article) \in DOMAIN s
      BY <1>1, <2>2
    <3> QED
      BY <3>1
  <2> QED
    BY <2>1, <2>2
<1> QED
  BY <1>2, <1>3

\* The rows the code writes.
LEMMA NewRowSound ==
    ASSUME NEW u \in Url, NEW len \in Nat, NEW images \in Nat, NEW clip \in BOOLEAN,
           NEW state \in {"ready", "processing"}, state = "processing" => len = 0
    PROVE  Sound(CL!NewRow(u, len, images, state, clip))
<1> DEFINE y == CL!NewRow(u, len, images, state, clip)
           read == state = "ready"
<1>1. read \in BOOLEAN
  OBVIOUS
<1>2. y = [url |-> u, clip |-> clip, state |-> state, text |-> len, images |-> images,
           summary |-> FALSE, read |-> read]
  BY DEF CL!NewRow
<1>3. state = "ready" \/ len > 0 => read
  OBVIOUS
<1> HIDE DEF y, read
<1>4. y \in Page /\ y.state = state /\ y.text = len /\ y.read = read
  BY <1>1, <1>2 DEF Page
<1> QED
  BY <1>3, <1>4 DEF Sound, y

LEMMA RefreshedSound ==
    ASSUME NEW x \in Page, NEW len \in Nat, NEW images \in Nat
    PROVE  /\ Sound(CL!Refreshed(x, len, images))
           /\ Sound([x EXCEPT !.text = len, !.state = "ready", !.summary = FALSE, !.read = TRUE])
<1>1. Sound(CL!Refreshed(x, len, images))
  <2> DEFINE y == CL!Refreshed(x, len, images)
  <2>1. y \in Page
    BY DEF CL!Refreshed, Page
  <2>2. y.read = TRUE
    BY DEF CL!Refreshed, Page
  <2> QED
    BY <2>1, <2>2 DEF Sound
<1>2. Sound([x EXCEPT !.text = len, !.state = "ready", !.summary = FALSE, !.read = TRUE])
  <2> DEFINE y == [x EXCEPT !.text = len, !.state = "ready", !.summary = FALSE, !.read = TRUE]
  <2>1. y \in Page
    BY DEF Page
  <2>2. y.read = TRUE
    BY DEF Page
  <2> QED
    BY <2>1, <2>2 DEF Sound
<1> QED
  BY <1>1, <1>2

\* Only a row with a text can be made ready by its summary.
LEMMA MarkedSound ==
    ASSUME NEW x, Sound(x)
    PROVE  /\ Sound([x EXCEPT !.state = "failed"])
           /\ Sound([x EXCEPT !.state = "processing"])
           /\ x.text > 0 => Sound([x EXCEPT !.summary = TRUE, !.state = IF @ = "processing" THEN "ready" ELSE @])
BY DEF Sound, Page

LEMMA FinishCaptureStep ==
    ASSUME ClipsInv, NEW r \in Request, CL!FinishCapture(r)
    PROVE  ClipsInv'
<1> DEFINE q == request[r]
<1>1. q.len \in Nat /\ q.images \in Nat /\ q.todo[1] \in Url
  BY DEF ClipsInv, Brings, CL!FinishCapture
<1>2. DOMAIN request' = Request /\ \A o \in Request : Brings(request'[o])
  BY FreeBrings, RequestGoesOn DEF CL!FinishCapture
<1>3. \/ UNCHANGED article
      \/ article' = [article EXCEPT ![q.found] = CL!Refreshed(article[q.found], q.len, q.images)]
      \/ CL!Add(<<CL!NewRow(q.todo[1], q.len, q.images, "ready", TRUE)>>)
  BY DEF CL!FinishCapture
<1>4. CASE UNCHANGED article
  BY <1>2, <1>4 DEF ClipsInv
<1>5. CASE article' = [article EXCEPT ![q.found] = CL!Refreshed(article[q.found], q.len, q.images)]
  <2>1. q.found \in DOMAIN article => article[q.found] \in Page
    BY DEF ClipsInv, Sound
  <2>2. q.found \in DOMAIN article => Sound(CL!Refreshed(article[q.found], q.len, q.images))
    BY <1>1, <2>1, RefreshedSound
  <2> QED
    BY <1>2, <1>5, <2>2, OneWritten DEF ClipsInv
<1>6. CASE CL!Add(<<CL!NewRow(q.todo[1], q.len, q.images, "ready", TRUE)>>)
  <2> DEFINE x == CL!NewRow(q.todo[1], q.len, q.images, "ready", TRUE)
  <2>1. Sound(x)
    <3>1. TRUE \in BOOLEAN /\ "ready" \in {"ready", "processing"} /\ "ready" # "processing" /\ 0 \in Nat
      OBVIOUS
    <3> QED
      BY <1>1, <3>1, NewRowSound
  <2> HIDE DEF x
  <2>2. <<x>> \in Seq(Page) /\ \A i \in DOMAIN <<x>> : Sound(<<x>>[i])
    BY <2>1 DEF Sound
  <2>3. CL!Add(<<x>>)
    BY <1>6 DEF x
  <2> QED
    BY <1>2, <2>2, <2>3, MoreRows DEF ClipsInv
<1> QED
  BY <1>3, <1>4, <1>5, <1>6

LEMMA PDFStep ==
    ASSUME ClipsInv, NEW r \in Request, CL!processPDFCapture(r)
    PROVE  ClipsInv'
<1> DEFINE q == request[r]
           x == IF q.at = "scan" THEN CL!NewRow(q.todo[1], 0, 0, "processing", TRUE)
                ELSE CL!NewRow(q.todo[1], q.len, 0, "ready", TRUE)
<1>1. q.len \in Nat /\ q.todo[1] \in Url
  BY DEF ClipsInv, Brings, CL!processPDFCapture
<1>2. DOMAIN request' = Request /\ \A o \in Request : Brings(request'[o])
  BY FreeBrings, RequestGoesOn DEF CL!processPDFCapture
<1>3. \/ UNCHANGED article
      \/ article' = [article EXCEPT ![q.found].state = "processing"]
      \/ article' = [article EXCEPT ![q.found] = [@ EXCEPT !.text = q.len, !.state = "ready", !.summary = FALSE, !.read = TRUE]]
      \/ CL!Add(<<x>>)
  BY DEF CL!processPDFCapture
<1>4. CASE UNCHANGED article
  BY <1>2, <1>4 DEF ClipsInv
<1>5. q.found \in DOMAIN article => Sound(article[q.found]) /\ article[q.found] \in Page
  BY DEF ClipsInv, Sound
<1>6. CASE article' = [article EXCEPT ![q.found].state = "processing"]
  <2>1. article' = [article EXCEPT ![q.found] = [article[q.found] EXCEPT !.state = "processing"]]
    BY <1>6
  <2> QED
    BY <1>2, <1>5, <2>1, MarkedSound, OneWritten DEF ClipsInv
<1>7. CASE article' = [article EXCEPT ![q.found] = [@ EXCEPT !.text = q.len, !.state = "ready", !.summary = FALSE, !.read = TRUE]]
  <2>1. article' = [article EXCEPT ![q.found] =
                      [article[q.found] EXCEPT !.text = q.len, !.state = "ready", !.summary = FALSE, !.read = TRUE]]
    BY <1>7
  <2> QED
    BY <1>1, <1>2, <1>5, <2>1, RefreshedSound, OneWritten DEF ClipsInv
<1>8. CASE CL!Add(<<x>>)
  <2>1. Sound(CL!NewRow(q.todo[1], 0, 0, "processing", TRUE))
    <3>1. TRUE \in BOOLEAN /\ "processing" \in {"ready", "processing"} /\ 0 \in Nat
      OBVIOUS
    <3> QED
      BY <1>1, <3>1, NewRowSound
  <2>2. Sound(CL!NewRow(q.todo[1], q.len, 0, "ready", TRUE))
    <3>1. TRUE \in BOOLEAN /\ "ready" \in {"ready", "processing"} /\ "ready" # "processing" /\ 0 \in Nat
      OBVIOUS
    <3> QED
      BY <1>1, <3>1, NewRowSound
  <2>3. Sound(x)
    BY <2>1, <2>2
  <2> HIDE DEF x
  <2>4. <<x>> \in Seq(Page) /\ \A i \in DOMAIN <<x>> : Sound(<<x>>[i])
    BY <2>3 DEF Sound
  <2> QED
    BY <1>2, <1>8, <2>4, MoreRows DEF ClipsInv
<1> QED
  BY <1>3, <1>4, <1>6, <1>7, <1>8

LEMMA CapturesStep ==
    ASSUME CL!ClipsAssumption, ClipsInv, NEW r \in Request, NEW u \in Url, NEW len \in CL!Len0,
           \/ CL!CapturePDF(r, u, len)
           \/ \E i \in 0..1, mode \in CL!Mode : CL!Capture(r, u, len, i, mode)
    PROVE  ClipsInv'
<1>1. UNCHANGED article /\ len \in Nat
  BY Lengths DEF CL!CapturePDF, CL!Capture
<1>2. \E q : Brings(q) /\ CL!Becomes(r, q)
  <2>1. CASE CL!CapturePDF(r, u, len)
    <3> DEFINE at == IF len = 0 THEN "scan" ELSE "pdf"
               a == CL!FindByOwnerAndURL(u)
               q == [CL!Free EXCEPT !.at = at, !.todo = <<u>>, !.len = len, !.found = a]
    <3>1. CL!Becomes(r, q)
      BY <2>1 DEF CL!CapturePDF
    <3>2. at \in {"scan", "pdf"}
      OBVIOUS
    <3> HIDE DEF at, a
    <3>3. Brings(q)
      BY <1>1, <3>2, FreeBrings DEF Brings, CL!Free
    <3> QED
      BY <3>1, <3>3
  <2>2. CASE \E i \in 0..1, mode \in CL!Mode : CL!Capture(r, u, len, i, mode)
    <3>1. PICK i \in 0..1, mode \in CL!Mode : CL!Capture(r, u, len, i, mode)
      BY <2>2
    <3> DEFINE a == IF mode = "new" THEN 0 ELSE CL!FindByOwnerAndURL(u)
               keep == /\ a # 0 /\ mode # "force"
                       /\ \/ mode = "skip"
                          \/ CL!shouldPromptDuplicate(article[a], len, i)
               q == [CL!Free EXCEPT !.at = "page", !.todo = <<u>>, !.len = len,
                                    !.images = i, !.found = a, !.keep = keep]
    <3>2. CL!Becomes(r, q)
      BY <3>1 DEF CL!Capture
    <3> HIDE DEF a, keep
    <3>3. /\ q.todo = <<u>> /\ q.images = i /\ q.made = {} /\ q.at = "page" /\ q.len = len
          /\ DOMAIN q = DOMAIN CL!Free
      BY DEF CL!Free
    <3>4. CL!Free.made = {} /\ <<u>> \in Seq(Url) /\ <<u>> # << >>
      BY DEF CL!Free
    <3> HIDE DEF q
    <3>5. Brings(q)
      BY <1>1, <3>3, <3>4, FreeBrings DEF Brings
    <3> QED
      BY <3>2, <3>5
  <2> QED
    BY <2>1, <2>2
<1> QED
  BY <1>1, <1>2, RequestGoesOn DEF ClipsInv

\* A feed of the reader's brings a new article.
LEMMA SubscriptionStep ==
    ASSUME CL!ClipsAssumption, ClipsInv, NEW u \in Url, NEW len \in CL!Len0,
           CL!CreateSubscriptionArticle(u, len)
    PROVE  ClipsInv'
<1> DEFINE x == CL!NewRow(u, len, 0, "ready", FALSE)
<1>1. Sound(x)
  <2>1. len \in Nat /\ 0 \in Nat /\ FALSE \in BOOLEAN /\ "ready" \in {"ready", "processing"}
        /\ "ready" # "processing"
    BY Lengths
  <2> QED
    BY <2>1, NewRowSound
<1>2. CL!Add(<<x>>) /\ UNCHANGED request
  BY DEF CL!CreateSubscriptionArticle
<1> HIDE DEF x
<1>3. <<x>> \in Seq(Page) /\ \A i \in DOMAIN <<x>> : Sound(<<x>>[i])
  BY <1>1 DEF Sound
<1> QED
  BY <1>2, <1>3, MoreRows DEF ClipsInv

LEMMA BatchSteps ==
    ASSUME ClipsInv, NEW r \in Request,
           CL!IngestFind(r) \/ CL!IngestCreate(r) \/ \E items \in CL!Batches : CL!Ingest(r, items)
    PROVE  ClipsInv'
<1>1. UNCHANGED article
  BY DEF CL!IngestFind, CL!IngestCreate, CL!Ingest
<1> DEFINE q == request[r]
<1>2. Brings(q)
  BY DEF ClipsInv
<1>3. \E y : Brings(y) /\ CL!Becomes(r, y)
  <2>1. CASE CL!IngestFind(r)
    <3>1. q.todo # << >> /\ (CL!Becomes(r, [q EXCEPT !.todo = Tail(@)]) \/ CL!Becomes(r, [q EXCEPT !.at = "create"]))
          /\ q.at = "find"
      BY <2>1 DEF CL!IngestFind
    <3>2. Tail(q.todo) \in Seq(Url)
      BY <1>2, <3>1 DEF Brings
    <3>3. Brings([q EXCEPT !.todo = Tail(q.todo)]) /\ Brings([q EXCEPT !.at = "create"])
      BY <1>2, <3>1, <3>2 DEF Brings
    <3> QED
      BY <3>1, <3>3
  <2>2. CASE CL!IngestCreate(r)
    <3> DEFINE u == Head(q.todo)
    <3>1. \/ CL!Becomes(r, [q EXCEPT !.at = "find", !.todo = Tail(@), !.aborted = TRUE])
          \/ CL!Becomes(r, [q EXCEPT !.at = "find", !.todo = Tail(@), !.made = @ \cup {u}])
      BY <2>2 DEF CL!IngestCreate
    <3>2. q.at = "create"
      BY <2>2 DEF CL!IngestCreate
    <3>3. Tail(q.todo) \in Seq(Url) /\ u \in Url
      BY <1>2, <3>2 DEF Brings
    <3>4. q.made \cup {u} \subseteq Url /\ IsFiniteSet(q.made \cup {u})
      BY <1>2, <3>3, FS_AddElement DEF Brings
    <3> DEFINE m == q.made \cup {u}
               t == Tail(q.todo)
    <3>5. \/ CL!Becomes(r, [q EXCEPT !.at = "find", !.todo = t, !.aborted = TRUE])
          \/ CL!Becomes(r, [q EXCEPT !.at = "find", !.todo = t, !.made = m])
      BY <3>1
    <3>6. t \in Seq(Url) /\ m \subseteq Url /\ IsFiniteSet(m)
      BY <3>3, <3>4
    <3> HIDE DEF m, t
    <3>7. Brings([q EXCEPT !.at = "find", !.todo = t, !.aborted = TRUE])
      BY <1>2, <3>6 DEF Brings
    <3>8. Brings([q EXCEPT !.at = "find", !.todo = t, !.made = m])
      BY <1>2, <3>6 DEF Brings
    <3> QED
      BY <3>5, <3>7, <3>8
  <2>3. CASE \E items \in CL!Batches : CL!Ingest(r, items)
    <3>1. PICK items \in CL!Batches : CL!Becomes(r, [CL!Free EXCEPT !.at = "find", !.todo = items])
      BY <2>3 DEF CL!Ingest
    <3>2. items \in Seq(Url)
      <4>1. ASSUME NEW u \in Url, items = <<u>> PROVE items \in Seq(Url)
        BY <4>1
      <4>2. ASSUME NEW u \in Url, NEW v \in Url, items = <<u, v>> PROVE items \in Seq(Url)
        BY <4>2
      <4> QED
        BY <4>1, <4>2 DEF CL!Batches
    <3>3. Brings([CL!Free EXCEPT !.at = "find", !.todo = items])
      BY <3>2, FreeBrings DEF Brings, CL!Free
    <3> QED
      BY <3>1, <3>3
  <2> QED
    BY <2>1, <2>2, <2>3
<1> QED
  BY <1>1, <1>3, RequestGoesOn DEF ClipsInv

LEMMA BatchEnds ==
    ASSUME CL!ClipsAssumption, ClipsInv, NEW r \in Request, CL!IngestEnd(r)
    PROVE  ClipsInv'
<1> DEFINE q == request[r]
<1>1. Brings(q)
  BY DEF ClipsInv
<1>2. DOMAIN request' = Request /\ \A o \in Request : Brings(request'[o])
  BY FreeBrings, RequestGoesOn DEF CL!IngestEnd
<1>3. \/ UNCHANGED article
      \/ \E s \in CL!SetToSeqs(q.made), len \in CL!Len0 :
           CL!Add([i \in DOMAIN s |-> CL!NewRow(s[i], len, 0, "ready", TRUE)])
  BY DEF CL!IngestEnd
<1>4. CASE UNCHANGED article
  BY <1>2, <1>4 DEF ClipsInv
<1>5. ASSUME NEW s \in CL!SetToSeqs(q.made), NEW len \in CL!Len0,
             CL!Add([i \in DOMAIN s |-> CL!NewRow(s[i], len, 0, "ready", TRUE)])
      PROVE  ClipsInv'
  <2> DEFINE n == Cardinality(q.made)
             t == [i \in DOMAIN s |-> CL!NewRow(s[i], len, 0, "ready", TRUE)]
  <2>1. n \in Nat
    BY <1>1, FS_CardinalityType DEF Brings
  <2>2. CL!Cardinality(q.made) = n
    BY DEF CL!Cardinality, Cardinality
  <2>3. s \in [1 .. n -> q.made]
    BY <2>2 DEF CL!SetToSeqs
  <2>4. ASSUME NEW i \in 1 .. n PROVE Sound(t[i])
    <3>1. s[i] \in Url /\ t[i] = CL!NewRow(s[i], len, 0, "ready", TRUE)
      BY <1>1, <2>3 DEF Brings
    <3>2. TRUE \in BOOLEAN /\ "ready" \in {"ready", "processing"} /\ "ready" # "processing"
          /\ len \in Nat /\ 0 \in Nat
      BY Lengths
    <3> QED
      BY <3>1, <3>2, NewRowSound
  <2>5. DOMAIN t = 1 .. n /\ CL!Add(t)
    BY <1>5, <2>3
  <2> HIDE DEF n, t
  <2>6. \A i \in 1 .. n : t[i] \in Page
    BY <2>4 DEF Sound
  <2>7. t = [i \in 1 .. n |-> t[i]]
    BY <2>5 DEF t
  <2>8. t \in Seq(Page)
    BY <2>1, <2>6, <2>7
  <2> QED
    BY <1>2, <2>4, <2>5, <2>8, MoreRows DEF ClipsInv
<1> QED
  BY <1>3, <1>4, <1>5

LEMMA ScanSteps ==
    ASSUME CL!ClipsAssumption, ClipsInv, CL!MarkPDFFailed \/ (\E len \in CL!Len0 : CL!runOnePDFOCR(len))
                     \/ \E a \in DOMAIN article : CL!UpdateSummary(a)
    PROVE  ClipsInv'
<1>0. \A a \in DOMAIN article : article[a] \in Page /\ Sound(article[a])
  BY DEF ClipsInv, Sound
<1>1. CASE CL!MarkPDFFailed
  <2> DEFINE a == Head(ocr)
  <2>1. article' = [article EXCEPT ![a] = [article[a] EXCEPT !.state = "failed"]] /\ UNCHANGED request
    BY <1>1 DEF CL!MarkPDFFailed
  <2> HIDE DEF a
  <2> QED
    BY <1>0, <2>1, MarkedSound, OneWritten DEF ClipsInv
<1>2. ASSUME NEW len \in CL!Len0, CL!runOnePDFOCR(len) PROVE ClipsInv'
  <2> DEFINE a == Head(ocr)
  <2>1. article' = [article EXCEPT ![a] = [article[a] EXCEPT !.text = len, !.state = "ready",
                                                               !.summary = FALSE, !.read = TRUE]]
        /\ UNCHANGED request
    BY <1>2 DEF CL!runOnePDFOCR
  <2>2. len \in Nat /\ 0 \in Nat
    BY Lengths
  <2> HIDE DEF a
  <2> QED
    BY <1>0, <2>1, <2>2, RefreshedSound, OneWritten DEF ClipsInv
<1>3. ASSUME NEW a \in DOMAIN article, CL!UpdateSummary(a) PROVE ClipsInv'
  <2>1. article' = [article EXCEPT ![a] =
            [article[a] EXCEPT !.summary = TRUE, !.state = IF @ = "processing" THEN "ready" ELSE @]]
        /\ UNCHANGED request /\ article[a].text > 0
    BY <1>3 DEF CL!UpdateSummary
  <2> QED
    BY <1>0, <2>1, MarkedSound, OneWritten DEF ClipsInv
<1> QED
  BY <1>1, <1>2, <1>3

LEMMA ClipsStep == ASSUME CL!ClipsAssumption, ClipsInv, [CL!Next]_(CL!vars) PROVE ClipsInv'
<1>1. CASE UNCHANGED <<article, request>>
  BY <1>1 DEF ClipsInv
<1> QED
  BY <1>1, FinishCaptureStep, PDFStep, CapturesStep, BatchSteps, BatchEnds, ScanSteps, SubscriptionStep
     DEF CL!Next, CL!vars, CL!GetPDFOCRPending, CL!NotRead, CL!Restart

\* A scan that nobody has read is never shown as ready, whichever of the
\* captures, the summaries and the OCR loop wrote its row last.
\* bookmarklet.go, bookmarklet_pdf.go, extension_ingest.go, pdf_ocr.go.
THEOREM ReadBeforeReadyAlways == ASSUME CL!ClipsAssumption PROVE CL!Spec => []CL!ReadBeforeReady
<1>1. CL!Spec => []ClipsInv
  BY ClipsInit, ClipsStep, PTL DEF CL!Spec
<1>2. ClipsInv => CL!ReadBeforeReady
  BY DEF ClipsInv, Sound, CL!ReadBeforeReady
<1> QED
  BY <1>1, <1>2, PTL

-----------------------------------------------------------------------------
(* LinkSets: a saved note is on the draft or on the child, and the transaction*)
(* that decides where it goes holds the parent's row from reading whether   *)
(* there is a child until it has written.                                   *)

CONSTANTS Parent, Link, Note, MaxAttempts, NoteLimit
VARIABLES parent, candidate, child, draft, note, lock, check, fetch, said

LS == INSTANCE LinkSets

Notes == Seq(Note)
Draft == [on : BOOLEAN, note : Notes]
Child == [state : {"none", "processing", "ready", "failed"}, attempts : Int, text : BOOLEAN]
Made(p, l) == child[p][l].state # "none"
Capture(q) ==
    /\ DOMAIN q = {"at", "p", "links", "note", "fetched"}
    /\ q.note \in Notes
    /\ q.at \in {"found", "save"} => \E l \in Link : q.links = {l}
    /\ q.at # "idle" => q.p \in Parent

LinksTyped ==
    /\ child \in [Parent -> [Link -> Child]]
    /\ draft \in [Parent -> [Link -> Draft]]
    /\ note \in [Parent -> [Link -> Notes]]
    /\ said \in [Parent -> [Link -> SUBSET Note]]
    /\ fetch \in [Parent -> [Link -> {"idle", "taken", "failed"}]]
    /\ DOMAIN lock = Parent
    /\ DOMAIN request = Request /\ \A r \in Request : Capture(request[r])

\* What a transaction in progress relies on.
Holds(r) ==
    /\ request[r].at \in {"save", "batch"} => lock[request[r].p] = r
    /\ request[r].at = "save" => \A l \in request[r].links : request[r].fetched <=> Made(request[r].p, l)

Written(p, l) ==
    /\ said[p][l] \subseteq LS!Range(draft[p][l].note) \cup LS!Range(note[p][l])
    /\ draft[p][l].on => ~Made(p, l)
    /\ ~draft[p][l].on => draft[p][l].note = << >>
    /\ fetch[p][l] # "idle" => Made(p, l)

LinkSetsInv ==
    /\ LinksTyped
    /\ \A r \in Request : Holds(r)
    /\ \A p \in Parent, l \in Link : Written(p, l)

-----------------------------------------------------------------------------
\* Joining texts loses no note.
LEMMA Joined ==
    ASSUME NEW s \in Notes, NEW t \in Notes
    PROVE  /\ LS!Range(s \o t) = LS!Range(s) \cup LS!Range(t)
           /\ s \o t \in Notes
<1>1. s \o t \in Notes
  BY DEF Notes
<1>2. \A i \in DOMAIN s : i \in DOMAIN (s \o t) /\ (s \o t)[i] = s[i]
  BY DEF Notes
<1>3. \A i \in DOMAIN t : i + Len(s) \in DOMAIN (s \o t) /\ (s \o t)[i + Len(s)] = t[i]
  BY DEF Notes
<1>4. ASSUME NEW i \in DOMAIN (s \o t)
      PROVE  (s \o t)[i] \in LS!Range(s) \cup LS!Range(t)
  <2>1. CASE i <= Len(s)
    <3>1. i \in DOMAIN s /\ (s \o t)[i] = s[i]
      BY <2>1 DEF Notes
    <3> QED
      BY <3>1 DEF LS!Range
  <2>2. CASE ~(i <= Len(s))
    <3>1. i - Len(s) \in DOMAIN t /\ (s \o t)[i] = t[i - Len(s)]
      BY <2>2 DEF Notes
    <3> QED
      BY <3>1 DEF LS!Range
  <2> QED
    BY <2>1, <2>2
<1>5. LS!Range(s \o t) \subseteq LS!Range(s) \cup LS!Range(t)
  BY <1>4 DEF LS!Range
<1>6. LS!Range(s) \subseteq LS!Range(s \o t)
  BY <1>2 DEF LS!Range
<1>7. LS!Range(t) \subseteq LS!Range(s \o t)
  BY <1>3 DEF LS!Range
<1> QED
  BY <1>1, <1>5, <1>6, <1>7

LEMMA SuffixNotes ==
    ASSUME NEW s \in Notes, NEW t \in Notes, LS!IsSuffix(s, t)
    PROVE  LS!Range(s) \subseteq LS!Range(t)
<1> DEFINE rs == LS!Reverse(s)
           rt == LS!Reverse(t)
<1>1. /\ rs = [i \in 1 .. Len(s) |-> s[(Len(s) - i) + 1]]
      /\ rt = [i \in 1 .. Len(t) |-> t[(Len(t) - i) + 1]]
  BY DEF LS!Reverse
<1>2. /\ Len(s) \in Nat /\ DOMAIN s = 1 .. Len(s) /\ \A i \in 1 .. Len(s) : s[i] \in Note
      /\ Len(t) \in Nat /\ DOMAIN t = 1 .. Len(t) /\ \A i \in 1 .. Len(t) : t[i] \in Note
  BY DEF Notes
<1>3. \A i \in 1 .. Len(s) : s[(Len(s) - i) + 1] \in Note
  BY <1>2
<1>4. \A i \in 1 .. Len(t) : t[(Len(t) - i) + 1] \in Note
  BY <1>2
<1>5. rs \in Seq(Note) /\ Len(rs) = Len(s) /\ rt \in Seq(Note) /\ Len(rt) = Len(t)
  BY <1>1, <1>2, <1>3, <1>4
<1>6. Len(rs) <= Len(rt) /\ SubSeq(rs, 1, Len(rs)) = SubSeq(rt, 1, Len(rs))
  BY DEF LS!IsSuffix, LS!IsPrefix
<1> HIDE DEF rs, rt
<1>7. \A i \in 1 .. Len(s) : rs[i] = rt[i]
  BY <1>2, <1>5, <1>6
<1>8. ASSUME NEW i \in 1 .. Len(s) PROVE s[i] \in LS!Range(t)
  <2> DEFINE k == (Len(s) - i) + 1
             m == (Len(t) - k) + 1
  <2>1. k \in 1 .. Len(s) /\ (Len(s) - k) + 1 = i
    BY <1>2
  <2>2. Len(s) <= Len(t)
    BY <1>5, <1>6
  <2>3. k \in 1 .. Len(t) /\ m \in 1 .. Len(t)
    BY <1>2, <2>1, <2>2
  <2> HIDE DEF k
  <2>4. rs[k] = s[i] /\ rt[k] = t[m]
    BY <1>1, <2>1, <2>3
  <2> QED
    BY <1>2, <1>7, <2>1, <2>3, <2>4 DEF LS!Range
<1> QED
  BY <1>2, <1>8 DEF LS!Range

LEMMA MergeKeeps ==
    ASSUME NEW s \in Notes, NEW t \in Notes
    PROVE  /\ LS!Merge(s, t) \in Notes
           /\ LS!Range(s) \cup LS!Range(t) \subseteq LS!Range(LS!Merge(s, t))
BY SuffixNotes, Joined DEF LS!Merge

LEMMA Empty == << >> \in Notes /\ LS!Range(<< >>) = {}
BY DEF Notes, LS!Range

-----------------------------------------------------------------------------
LEMMA QuietCapture == Capture(LS!Quiet) /\ LS!Quiet.at = "idle"
BY Empty DEF Capture, LS!Quiet

LEMMA RequestTurns ==
    ASSUME LinksTyped, NEW r \in Request, NEW q, Capture(q), LS!Becomes(r, q)
    PROVE  /\ DOMAIN request' = Request /\ request'[r] = q
           /\ \A o \in Request : Capture(request'[o]) /\ (o # r => request'[o] = request[o])
BY DEF LinksTyped, LS!Becomes

LEMMA LinkSetsInit == LS!Init => LinkSetsInv
<1> SUFFICES ASSUME LS!Init PROVE LinkSetsInv
  OBVIOUS
<1>1. \A p \in Parent, l \in Link :
        /\ child[p][l] = [state |-> "none", attempts |-> 0, text |-> FALSE]
        /\ draft[p][l] = [on |-> FALSE, note |-> << >>]
        /\ note[p][l] = << >> /\ said[p][l] = {} /\ fetch[p][l] = "idle"
  BY DEF LS!Init
<1>2. \A r \in Request : request[r] = LS!Quiet
  BY DEF LS!Init
<1>3. LinksTyped
  <2>1. child \in [Parent -> [Link -> Child]]
    BY DEF LS!Init, Child
  <2>2. draft \in [Parent -> [Link -> Draft]]
    BY Empty DEF LS!Init, Draft
  <2>3. note \in [Parent -> [Link -> Notes]]
    BY Empty DEF LS!Init
  <2>4. said \in [Parent -> [Link -> SUBSET Note]]
    BY DEF LS!Init
  <2>5. fetch \in [Parent -> [Link -> {"idle", "taken", "failed"}]]
    BY DEF LS!Init
  <2> QED
    BY <1>2, <2>1, <2>2, <2>3, <2>4, <2>5, QuietCapture DEF LS!Init, LinksTyped
<1>4. \A r \in Request : Holds(r)
  BY <1>2, QuietCapture DEF Holds
<1>5. \A p \in Parent, l \in Link : Written(p, l)
  BY <1>1 DEF Written, Made
<1> QED
  BY <1>3, <1>4, <1>5 DEF LinkSetsInv

\* The reader's transactions.
LEMMA CaptureStep ==
    ASSUME LinkSetsInv, NEW r \in Request, NEW l \in Link,
           NEW n \in {<< >>} \cup {<<m>> : m \in Note}, NEW h, LS!CaptureFromShortcut(r, l, n, h)
    PROVE  LinkSetsInv'
<1>1. PICK p \in Parent :
        LS!Becomes(r, [LS!Quiet EXCEPT !.at = "found", !.p = p, !.links = {l}, !.note = n])
  BY DEF LS!CaptureFromShortcut
<1>2. UNCHANGED <<child, draft, note, lock, fetch, said>>
  BY DEF LS!CaptureFromShortcut
<1> DEFINE q == [LS!Quiet EXCEPT !.at = "found", !.p = p, !.links = {l}, !.note = n]
<1>3. n \in Notes
  <2>1. ASSUME NEW m \in Note PROVE <<m>> \in Notes
    BY DEF Notes
  <2> QED
    BY <2>1, Empty
<1>4. Capture(q) /\ q.at = "found"
  BY <1>3 DEF Capture, LS!Quiet
<1> HIDE DEF q
<1>5. LS!Becomes(r, q)
  BY <1>1 DEF q
<1>6. LinksTyped /\ LinksTyped'
  BY <1>2, <1>4, <1>5, RequestTurns DEF LinkSetsInv, LinksTyped
<1>7. \A o \in Request : Holds(o)'
  BY <1>2, <1>4, <1>5, <1>6, RequestTurns DEF LinkSetsInv, Holds, Made
<1> QED
  BY <1>2, <1>6, <1>7 DEF LinkSetsInv, Written, Made

LEMMA LockStep ==
    ASSUME LS!LinkSetsAssumption, LinkSetsInv, NEW r \in Request, LS!LockSource(r)
    PROVE  LinkSetsInv'
<1> DEFINE q == request[r]
<1>1. UNCHANGED <<child, draft, note, fetch, said>> /\ q.at = "found" /\ lock[q.p] = Nobody
  BY DEF LS!LockSource
<1>2. Capture(q) /\ LinksTyped
  BY DEF LinkSetsInv, LinksTyped
<1>3. PICK l \in Link : q.links = {l}
  BY <1>1, <1>2 DEF Capture
<1>4. q.p \in Parent
  BY <1>1, <1>2 DEF Capture
<1>5. ASSUME NEW x, Capture(x), LS!Becomes(r, x),
             \/ UNCHANGED lock /\ x.at = "idle"
             \/ /\ lock' = [lock EXCEPT ![q.p] = r] /\ x.p = q.p
                /\ \A k \in x.links : x.fetched <=> Made(q.p, k)
      PROVE  LinkSetsInv'
  <2>1. /\ request'[r] = x /\ \A o \in Request : o # r => request'[o] = request[o]
        /\ DOMAIN request' = Request /\ \A o \in Request : Capture(request'[o])
    BY <1>2, <1>5, RequestTurns
  <2>2. LinksTyped'
    BY <1>1, <1>2, <1>5, <2>1 DEF LinksTyped
  <2>3. Holds(r)'
    BY <1>1, <1>2, <1>4, <1>5, <2>1 DEF Holds, Made, LinksTyped
  <2>4. ASSUME NEW o \in Request, o # r PROVE Holds(o)'
    <3>1. Holds(o) /\ request'[o] = request[o]
      BY <2>1, <2>4 DEF LinkSetsInv
    <3>2. request[o].at \in {"save", "batch"} => request[o].p # q.p
      BY <1>1, <3>1 DEF Holds, LS!LinkSetsAssumption
    <3>3. request[o].at \in {"save", "batch"} => lock'[request[o].p] = lock[request[o].p]
      <4>1. request[o].at \in {"save", "batch"} => request[o].p \in Parent
        BY <1>2 DEF LinksTyped, Capture
      <4> QED
        BY <1>2, <1>5, <3>2, <4>1 DEF LinksTyped
    <3> QED
      BY <1>1, <3>1, <3>3 DEF Holds, Made
  <2> QED
    BY <1>1, <2>2, <2>3, <2>4 DEF LinkSetsInv, Written, Made
<1>6. CASE LS!Becomes(r, LS!Quiet) /\ UNCHANGED lock
  BY <1>5, <1>6, QuietCapture
<1>7. CASE lock' = [lock EXCEPT ![q.p] = r] /\ LS!Becomes(r, [q EXCEPT !.at = "save", !.fetched = LS!Exists(q.p, l)])
  <2> DEFINE f == LS!Exists(q.p, l)
             x == [q EXCEPT !.at = "save", !.fetched = f]
  <2>1. f <=> Made(q.p, l)
    BY DEF LS!Exists, Made
  <2> HIDE DEF f
  <2>2. LS!Becomes(r, x)
    BY <1>7 DEF f
  <2>3. x.p = q.p /\ x.links = {l} /\ x.note = q.note /\ x.at = "save" /\ DOMAIN x = DOMAIN q
    BY <1>2, <1>3 DEF Capture
  <2>4. x.fetched = f
    BY <1>2, Zenon DEF Capture
  <2> HIDE DEF x
  <2>5. Capture(x)
    BY <1>2, <1>4, <2>3 DEF Capture
  <2>6. \A k \in x.links : x.fetched <=> Made(q.p, k)
    BY <2>1, <2>3, <2>4
  <2> QED
    BY <1>5, <1>7, <2>2, <2>3, <2>5, <2>6
<1> QED
  BY <1>3, <1>6, <1>7 DEF LS!LockSource

\* A transaction that ends gives its row up; the others keep theirs.
LEMMA TransactionEnds ==
    ASSUME LinkSetsInv, NEW r \in Request, request[r].at \in {"save", "batch"},
           LS!Becomes(r, LS!Quiet), lock' = [lock EXCEPT ![request[r].p] = Nobody],
           \A p \in Parent \ {request[r].p}, l \in Link : Made(p, l)' <=> Made(p, l)
    PROVE  /\ DOMAIN lock' = Parent /\ DOMAIN request' = Request
           /\ \A o \in Request : Capture(request'[o]) /\ Holds(o)'
<1> DEFINE q == request[r]
<1>1. Capture(q) /\ LinksTyped /\ q.p \in Parent /\ lock[q.p] = r
  BY DEF LinkSetsInv, LinksTyped, Capture, Holds
<1>2. /\ request'[r] = LS!Quiet /\ \A o \in Request : o # r => request'[o] = request[o]
      /\ DOMAIN request' = Request /\ \A o \in Request : Capture(request'[o])
  BY <1>1, QuietCapture, RequestTurns
<1>3. DOMAIN lock' = Parent
  BY <1>1 DEF LinksTyped
<1>4. Holds(r)'
  BY <1>2, QuietCapture DEF Holds
<1>5. ASSUME NEW o \in Request, o # r PROVE Holds(o)'
  <2>1. Holds(o) /\ request'[o] = request[o]
    BY <1>2, <1>5 DEF LinkSetsInv
  <2>2. CASE request[o].at \in {"save", "batch"}
    <3>1. request[o].p \in Parent /\ request[o].p # q.p
      BY <1>1, <1>5, <2>1, <2>2 DEF Holds, LinksTyped, Capture
    <3>2. lock'[request[o].p] = o
      BY <1>1, <2>1, <2>2, <3>1 DEF Holds, LinksTyped
    <3>3. request[o].at = "save" => \E l \in Link : request[o].links = {l}
      BY <1>1 DEF LinksTyped, Capture
    <3>4. request[o].at = "save" =>
             \A l \in request[o].links : Made(request[o].p, l)' <=> Made(request[o].p, l)
      BY <2>1, <3>1, <3>3
    <3>5. request'[o].at = "save" =>
             \A l \in request'[o].links : request'[o].fetched <=> Made(request[o].p, l)'
      BY <2>1, <3>4 DEF Holds
    <3> QED
      BY <2>1, <3>2, <3>5 DEF Holds, Made
  <2>3. CASE request[o].at \notin {"save", "batch"}
    BY <2>1, <2>3 DEF Holds
  <2> QED
    BY <2>2, <2>3
<1> QED
  BY <1>2, <1>3, <1>4, <1>5

LEMMA SaveStep ==
    ASSUME LinkSetsInv, NEW r \in Request, LS!AddShortcutCaptureDraft(r)
    PROVE  LinkSetsInv'
<1> DEFINE q == request[r]
<1>1. /\ q.at = "save" /\ UNCHANGED <<child, fetch>> /\ LS!Becomes(r, LS!Quiet)
      /\ lock' = [lock EXCEPT ![q.p] = Nobody]
  BY DEF LS!AddShortcutCaptureDraft
<1>2. LinksTyped /\ Capture(q)
  BY DEF LinkSetsInv, LinksTyped
<1>3. PICK p \in Parent : p = q.p
  BY <1>1, <1>2 DEF Capture
<1>4. PICK l \in Link : q.links = {l}
  BY <1>1, <1>2 DEF Capture
<1>5. PICK t \in Notes : t = q.note
  BY <1>2 DEF Capture
<1>6. q.fetched <=> Made(p, l)
  BY <1>1, <1>3, <1>4 DEF LinkSetsInv, Holds
<1>7. /\ DOMAIN lock' = Parent /\ DOMAIN request' = Request
      /\ \A o \in Request : Capture(request'[o]) /\ Holds(o)'
  <2>1. \A k \in Parent \ {request[r].p}, j \in Link : Made(k, j)' <=> Made(k, j)
    BY <1>1 DEF Made
  <2> QED
    BY <1>1, <2>1, TransactionEnds
<1> DEFINE onChild == LS!Merge(note[p][l], t)
           onDraft == LS!Merge(draft[p][l].note, t)
<1>8. /\ note[p][l] \in Notes /\ draft[p][l].note \in Notes /\ said[p][l] \subseteq Note
      /\ Written(p, l) /\ LS!Range(t) \subseteq Note
  <2>1. LS!Range(t) \subseteq Note
    BY DEF LS!Range, Notes
  <2> QED
    BY <1>2, <2>1 DEF LinkSetsInv, LinksTyped, Draft
<1>9. /\ onChild \in Notes /\ LS!Range(note[p][l]) \cup LS!Range(t) \subseteq LS!Range(onChild)
      /\ onDraft \in Notes /\ LS!Range(draft[p][l].note) \cup LS!Range(t) \subseteq LS!Range(onDraft)
  BY <1>8, MergeKeeps
<1>10. \/ /\ q.fetched /\ UNCHANGED draft
          /\ note' = [note EXCEPT ![p][l] = onChild]
          /\ said' = [said EXCEPT ![p][l] = @ \cup LS!Range(t)]
       \/ /\ ~q.fetched /\ UNCHANGED note
          /\ draft' = [draft EXCEPT ![p][l] = [on |-> TRUE, note |-> onDraft]]
          /\ said' = [said EXCEPT ![p][l] = @ \cup LS!Range(t)]
       \/ UNCHANGED <<draft, note, said>>
  BY <1>3, <1>4, <1>5 DEF LS!AddShortcutCaptureDraft
<1> HIDE DEF onChild, onDraft
<1>11. CASE UNCHANGED <<draft, note, said>>
  BY <1>1, <1>2, <1>7, <1>11 DEF LinkSetsInv, LinksTyped, Written, Made
<1>12. CASE /\ q.fetched /\ UNCHANGED draft
            /\ note' = [note EXCEPT ![p][l] = onChild]
            /\ said' = [said EXCEPT ![p][l] = @ \cup LS!Range(t)]
  <2>1. note' \in [Parent -> [Link -> Notes]] /\ said' \in [Parent -> [Link -> SUBSET Note]]
    BY <1>2, <1>8, <1>9, <1>12 DEF LinksTyped
  <2>2. note'[p][l] = onChild /\ said'[p][l] = said[p][l] \cup LS!Range(t)
    BY <1>2, <1>12 DEF LinksTyped
  <2>3. \A k \in Parent, j \in Link : ~(k = p /\ j = l) => note'[k][j] = note[k][j] /\ said'[k][j] = said[k][j]
    BY <1>2, <1>12 DEF LinksTyped
  <2>4. Written(p, l)'
    BY <1>1, <1>8, <1>9, <1>12, <2>2 DEF Written, Made
  <2>5. ASSUME NEW k \in Parent, NEW j \in Link, ~(k = p /\ j = l) PROVE Written(k, j)'
    BY <1>1, <1>12, <2>3, <2>5 DEF LinkSetsInv, Written, Made
  <2> QED
    BY <1>1, <1>2, <1>7, <1>12, <2>1, <2>4, <2>5 DEF LinkSetsInv, LinksTyped
<1>13. CASE /\ ~q.fetched /\ UNCHANGED note
            /\ draft' = [draft EXCEPT ![p][l] = [on |-> TRUE, note |-> onDraft]]
            /\ said' = [said EXCEPT ![p][l] = @ \cup LS!Range(t)]
  <2>0. [on |-> TRUE, note |-> onDraft] \in Draft
    BY <1>9 DEF Draft
  <2>1. draft' \in [Parent -> [Link -> Draft]] /\ said' \in [Parent -> [Link -> SUBSET Note]]
    BY <1>2, <1>8, <1>13, <2>0 DEF LinksTyped
  <2>2. draft'[p][l] = [on |-> TRUE, note |-> onDraft] /\ said'[p][l] = said[p][l] \cup LS!Range(t)
    BY <1>2, <1>13 DEF LinksTyped
  <2>3. \A k \in Parent, j \in Link : ~(k = p /\ j = l) => draft'[k][j] = draft[k][j] /\ said'[k][j] = said[k][j]
    BY <1>2, <1>13 DEF LinksTyped
  <2>4. Written(p, l)'
    BY <1>1, <1>6, <1>8, <1>9, <1>13, <2>2 DEF Written, Made
  <2>5. ASSUME NEW k \in Parent, NEW j \in Link, ~(k = p /\ j = l) PROVE Written(k, j)'
    BY <1>1, <1>13, <2>3, <2>5 DEF LinkSetsInv, Written, Made
  <2> QED
    BY <1>1, <1>2, <1>7, <1>13, <2>1, <2>4, <2>5 DEF LinkSetsInv, LinksTyped
<1> QED
  BY <1>10, <1>11, <1>12, <1>13

LEMMA DeleteStep ==
    ASSUME LinkSetsInv, NEW p \in Parent, NEW links, LS!DeleteCaptureDrafts(p, links)
    PROVE  LinkSetsInv'
<1>1. /\ draft' = [draft EXCEPT ![p] = [l \in Link |->
                     IF l \in links THEN [on |-> FALSE, note |-> << >>] ELSE draft[p][l]]]
      /\ said' = [said EXCEPT ![p] = [l \in Link |->
                    IF l \in links /\ draft[p][l].on THEN {} ELSE said[p][l]]]
      /\ UNCHANGED <<child, note, lock, request, fetch>>
  BY DEF LS!DeleteCaptureDrafts
<1>2. LinksTyped /\ [on |-> FALSE, note |-> << >>] \in Draft
  BY Empty DEF LinkSetsInv, Draft
<1>3. draft' \in [Parent -> [Link -> Draft]]
  BY <1>1, <1>2 DEF LinksTyped
<1>4. said' \in [Parent -> [Link -> SUBSET Note]]
  BY <1>1, <1>2 DEF LinksTyped
<1>5. ASSUME NEW k \in Parent, NEW l \in Link PROVE Written(k, l)'
  <2>1. Written(k, l)
    BY DEF LinkSetsInv
  <2>2. CASE k # p \/ l \notin links
    <3>1. draft'[k][l] = draft[k][l] /\ said'[k][l] = said[k][l]
      BY <1>1, <1>2, <2>2 DEF LinksTyped
    <3> QED
      BY <1>1, <2>1, <3>1 DEF Written, Made
  <2>3. CASE k = p /\ l \in links /\ draft[p][l].on
    <3>1. draft'[k][l] = [on |-> FALSE, note |-> << >>] /\ said'[k][l] = {}
      BY <1>1, <1>2, <2>3 DEF LinksTyped
    <3> QED
      BY <1>1, <2>1, <3>1 DEF Written, Made
  <2>4. CASE k = p /\ l \in links /\ ~draft[p][l].on
    <3>1. draft'[k][l] = [on |-> FALSE, note |-> << >>] /\ said'[k][l] = said[k][l]
      BY <1>1, <1>2, <2>4 DEF LinksTyped
    <3>2. draft[k][l].note = << >>
      BY <2>1, <2>4 DEF Written
    <3> QED
      BY <1>1, <2>1, <3>1, <3>2 DEF Written, Made
  <2> QED
    BY <2>2, <2>3, <2>4
<1>6. LinksTyped' /\ \A r \in Request : Holds(r)'
  BY <1>1, <1>2, <1>3, <1>4 DEF LinkSetsInv, LinksTyped, Holds, Made
<1> QED
  BY <1>5, <1>6 DEF LinkSetsInv

LEMMA BatchBegins ==
    ASSUME LS!LinkSetsAssumption, LinkSetsInv, NEW r \in Request, NEW p \in Parent, NEW links,
           LS!BeginBatchFetch(r, p, links)
    PROVE  LinkSetsInv'
<1> DEFINE x == [LS!Quiet EXCEPT !.at = "batch", !.p = p, !.links = links]
<1>1. /\ lock[p] = Nobody /\ lock' = [lock EXCEPT ![p] = r] /\ LS!Becomes(r, x)
      /\ UNCHANGED <<child, draft, note, fetch, said>>
  BY DEF LS!BeginBatchFetch
<1>2. LinksTyped
  BY DEF LinkSetsInv
<1>3. Capture(x) /\ x.at = "batch" /\ x.p = p
  BY Empty DEF Capture, LS!Quiet
<1> HIDE DEF x
<1>4. /\ request'[r] = x /\ \A o \in Request : o # r => request'[o] = request[o]
      /\ DOMAIN request' = Request /\ \A o \in Request : Capture(request'[o])
  BY <1>1, <1>2, <1>3, RequestTurns
<1>5. LinksTyped'
  BY <1>1, <1>2, <1>4 DEF LinksTyped
<1>6. Holds(r)'
  BY <1>1, <1>2, <1>3, <1>4 DEF Holds, LinksTyped
<1>7. ASSUME NEW o \in Request, o # r PROVE Holds(o)'
  <2>1. Holds(o) /\ request'[o] = request[o]
    BY <1>4, <1>7 DEF LinkSetsInv
  <2>2. request[o].at \in {"save", "batch"} => request[o].p # p
    BY <1>1, <2>1 DEF Holds, LS!LinkSetsAssumption
  <2>3. request[o].at \in {"save", "batch"} => lock'[request[o].p] = lock[request[o].p]
    <3>1. request[o].at \in {"save", "batch"} => request[o].p \in Parent
      BY <1>2 DEF LinksTyped, Capture
    <3> QED
      BY <1>1, <1>2, <2>2, <3>1 DEF LinksTyped
  <2> QED
    BY <1>1, <2>1, <2>3 DEF Holds, Made
<1> QED
  BY <1>1, <1>5, <1>6, <1>7 DEF LinkSetsInv, Written, Made

LEMMA EnableStep ==
    ASSUME LinkSetsInv, NEW r \in Request, LS!EnableAndInsertLinkSetChildren(r)
    PROVE  LinkSetsInv'
<1> DEFINE q == request[r]
<1>1. /\ q.at = "batch" /\ UNCHANGED <<fetch, said>> /\ LS!Becomes(r, LS!Quiet)
      /\ lock' = [lock EXCEPT ![q.p] = Nobody]
  BY DEF LS!EnableAndInsertLinkSetChildren
<1>2. LinksTyped /\ Capture(q)
  BY DEF LinkSetsInv, LinksTyped
<1>3. PICK p \in Parent : p = q.p
  BY <1>1, <1>2 DEF Capture
<1> DEFINE links == q.links
           moved(l) == LS!Transferred(p, l)
<1>4. \/ UNCHANGED <<child, note, draft>>
      \/ /\ child' = [child EXCEPT ![p] = [l \in Link |->
                        IF l \in links /\ ~LS!Exists(p, l) THEN LS!NewChild ELSE child[p][l]]]
         /\ note' = [note EXCEPT ![p] = [l \in Link |-> IF l \in links THEN moved(l) ELSE note[p][l]]]
         /\ draft' = [draft EXCEPT ![p] = [l \in Link |->
                        IF l \in links THEN [on |-> FALSE, note |-> << >>] ELSE draft[p][l]]]
  BY <1>3 DEF LS!EnableAndInsertLinkSetChildren
<1>5. CASE UNCHANGED <<child, note, draft>>
  <2>1. \A k \in Parent \ {request[r].p}, j \in Link : Made(k, j)' <=> Made(k, j)
    BY <1>5 DEF Made
  <2>2. /\ DOMAIN lock' = Parent /\ DOMAIN request' = Request
        /\ \A o \in Request : Capture(request'[o]) /\ Holds(o)'
    BY <1>1, <2>1, TransactionEnds
  <2> QED
    BY <1>1, <1>2, <1>5, <2>2 DEF LinkSetsInv, LinksTyped, Written, Made
<1>6. CASE /\ child' = [child EXCEPT ![p] = [l \in Link |->
                        IF l \in links /\ ~LS!Exists(p, l) THEN LS!NewChild ELSE child[p][l]]]
           /\ note' = [note EXCEPT ![p] = [l \in Link |-> IF l \in links THEN moved(l) ELSE note[p][l]]]
           /\ draft' = [draft EXCEPT ![p] = [l \in Link |->
                        IF l \in links THEN [on |-> FALSE, note |-> << >>] ELSE draft[p][l]]]
  <2>1. \A l \in Link : /\ moved(l) \in Notes
                        /\ LS!Range(note[p][l]) \cup LS!Range(draft[p][l].note) \subseteq LS!Range(moved(l))
    <3>1. \A l \in Link : note[p][l] \in Notes /\ draft[p][l].note \in Notes
      BY <1>2 DEF LinksTyped, Draft
    <3> QED
      BY <3>1, MergeKeeps DEF LS!Transferred
  <2>2. LS!NewChild \in Child /\ LS!NewChild.state # "none" /\ [on |-> FALSE, note |-> << >>] \in Draft
    BY Empty DEF LS!NewChild, Child, Draft
  <2> HIDE DEF moved
  <2>3. child' \in [Parent -> [Link -> Child]]
    BY <1>2, <1>6, <2>2 DEF LinksTyped
  <2>4. note' \in [Parent -> [Link -> Notes]]
    BY <1>2, <1>6, <2>1 DEF LinksTyped
  <2>5. draft' \in [Parent -> [Link -> Draft]]
    BY <1>2, <1>6, <2>2 DEF LinksTyped
  <2>6. \A k \in Parent \ {p}, l \in Link :
           child'[k][l] = child[k][l] /\ note'[k][l] = note[k][l] /\ draft'[k][l] = draft[k][l]
    BY <1>2, <1>6 DEF LinksTyped
  <2>7. \A l \in Link \ links :
           child'[p][l] = child[p][l] /\ note'[p][l] = note[p][l] /\ draft'[p][l] = draft[p][l]
    BY <1>2, <1>6 DEF LinksTyped
  <2>8. \A l \in Link \cap links :
           /\ child'[p][l] = LS!NewChild \/ (child'[p][l] = child[p][l] /\ Made(p, l))
           /\ note'[p][l] = moved(l) /\ draft'[p][l] = [on |-> FALSE, note |-> << >>]
    BY <1>2, <1>6 DEF LinksTyped, LS!Exists, Made
  <2>9. /\ DOMAIN lock' = Parent /\ DOMAIN request' = Request
        /\ \A o \in Request : Capture(request'[o]) /\ Holds(o)'
    <3>1. \A k \in Parent \ {request[r].p}, j \in Link : Made(k, j)' <=> Made(k, j)
      BY <1>3, <2>6 DEF Made
    <3> QED
      BY <1>1, <3>1, TransactionEnds
  <2>10. ASSUME NEW k \in Parent, NEW l \in Link PROVE Written(k, l)'
    <3>1. Written(k, l)
      BY DEF LinkSetsInv
    <3>2. CASE k # p \/ l \notin links
      <4>1. child'[k][l] = child[k][l] /\ note'[k][l] = note[k][l] /\ draft'[k][l] = draft[k][l]
        BY <2>6, <2>7, <3>2
      <4> QED
        BY <1>1, <3>1, <4>1 DEF Written, Made
    <3>3. CASE k = p /\ l \in links
      <4>1. draft'[p][l].on = FALSE /\ draft'[p][l].note = << >>
        BY <2>8, <3>3
      <4>2. Made(p, l)'
        BY <2>2, <2>8, <3>3 DEF Made
      <4>3. said'[p][l] \subseteq LS!Range(note'[p][l])
        BY <1>1, <2>1, <2>8, <3>1, <3>3 DEF Written
      <4> QED
        BY <3>3, <4>1, <4>2, <4>3 DEF Written
    <3> QED
      BY <3>2, <3>3
  <2> QED
    BY <1>1, <1>2, <2>3, <2>4, <2>5, <2>9, <2>10 DEF LinkSetsInv, LinksTyped
<1> QED
  BY <1>4, <1>5, <1>6

LEMMA NoteStep ==
    ASSUME LinkSetsInv, NEW p \in Parent, NEW l \in Link,
           NEW n \in {<< >>} \cup {<<m>> : m \in Note}, LS!UpdateCaptureNote(p, l, n)
    PROVE  LinkSetsInv'
<1>1. /\ Made(p, l) /\ note' = [note EXCEPT ![p][l] = n] /\ said' = [said EXCEPT ![p][l] = LS!Range(n)]
      /\ UNCHANGED <<child, draft, lock, request, fetch>>
  BY DEF LS!UpdateCaptureNote, LS!Exists, Made
<1>2. LinksTyped
  BY DEF LinkSetsInv
<1>3. n \in Notes
  <2>1. ASSUME NEW m \in Note PROVE <<m>> \in Notes
    BY DEF Notes
  <2> QED
    BY <2>1, Empty
<1>4. LS!Range(n) \subseteq Note
  BY <1>3 DEF LS!Range, Notes
<1>5. note' \in [Parent -> [Link -> Notes]] /\ said' \in [Parent -> [Link -> SUBSET Note]]
  BY <1>1, <1>2, <1>3, <1>4 DEF LinksTyped
<1>6. note'[p][l] = n /\ said'[p][l] = LS!Range(n)
  BY <1>1, <1>2 DEF LinksTyped
<1>7. \A k \in Parent, j \in Link : ~(k = p /\ j = l) => note'[k][j] = note[k][j] /\ said'[k][j] = said[k][j]
  BY <1>1, <1>2 DEF LinksTyped
<1>8. ASSUME NEW k \in Parent, NEW j \in Link PROVE Written(k, j)'
  BY <1>1, <1>6, <1>7 DEF LinkSetsInv, Written, Made
<1> QED
  BY <1>1, <1>2, <1>5, <1>8 DEF LinkSetsInv, LinksTyped, Holds, Made

\* The worker changes no note, and never whether a link has a child.
LEMMA SameChildren ==
    ASSUME LinkSetsInv, UNCHANGED <<draft, note, lock, request, said>>,
           child' \in [Parent -> [Link -> Child]],
           fetch' \in [Parent -> [Link -> {"idle", "taken", "failed"}]],
           \A p \in Parent, l \in Link : (Made(p, l)' <=> Made(p, l)) /\ (fetch'[p][l] # "idle" => Made(p, l))
    PROVE  LinkSetsInv'
<1>1. LinksTyped'
  BY DEF LinkSetsInv, LinksTyped
<1>2. ASSUME NEW p \in Parent, NEW l \in Link PROVE Written(p, l)'
  <2>1. Written(p, l) /\ (Made(p, l)' <=> Made(p, l)) /\ (fetch'[p][l] # "idle" => Made(p, l))
    BY DEF LinkSetsInv
  <2> QED
    BY <2>1 DEF Written
<1>3. ASSUME NEW r \in Request PROVE Holds(r)'
  <2>1. Holds(r) /\ Capture(request[r])
    BY DEF LinkSetsInv, LinksTyped
  <2>2. request[r].at = "save" => request[r].p \in Parent /\ request[r].links \subseteq Link
    BY <2>1 DEF Capture
  <2>3. request'[r] = request[r] /\ lock' = lock
    OBVIOUS
  <2>4. ASSUME NEW l \in request[r].links, request[r].at = "save"
        PROVE  Made(request[r].p, l)' <=> Made(request[r].p, l)
    BY <2>2, <2>3, <2>4 DEF Made
  <2> QED
    BY <2>1, <2>3, <2>4 DEF Holds, Made
<1> QED
  BY <1>1, <1>2, <1>3 DEF LinkSetsInv

LEMMA ChildStays ==
    ASSUME LinkSetsInv, NEW p \in Parent, NEW l \in Link, NEW d \in Child,
           child' = [child EXCEPT ![p][l] = d], d.state # "none" <=> Made(p, l),
           UNCHANGED <<draft, note, lock, request, said>>,
           NEW job \in {"idle", "taken", "failed"}, job # "idle" => Made(p, l),
           fetch' = [fetch EXCEPT ![p][l] = job]
    PROVE  LinkSetsInv'
<1>1. LinksTyped
  BY DEF LinkSetsInv
<1>2. /\ child' \in [Parent -> [Link -> Child]]
      /\ fetch' \in [Parent -> [Link -> {"idle", "taken", "failed"}]]
  BY <1>1 DEF LinksTyped
<1>3. ASSUME NEW k \in Parent, NEW j \in Link
      PROVE  (Made(k, j)' <=> Made(k, j)) /\ (fetch'[k][j] # "idle" => Made(k, j))
  <2>1. CASE k = p /\ j = l
    <3>1. child'[k][j] = d /\ fetch'[k][j] = job
      BY <1>1, <2>1 DEF LinksTyped
    <3> QED
      BY <2>1, <3>1 DEF Made
  <2>2. CASE ~(k = p /\ j = l)
    <3>1. child'[k][j] = child[k][j] /\ fetch'[k][j] = fetch[k][j] /\ Written(k, j)
      BY <1>1, <2>2 DEF LinkSetsInv, LinksTyped
    <3> QED
      BY <3>1 DEF Made, Written
  <2> QED
    BY <2>1, <2>2
<1> QED
  BY <1>2, <1>3, SameChildren

LEMMA WorkerStep ==
    ASSUME LinkSetsInv, NEW p \in Parent, NEW l \in Link,
           LS!Fetched(p, l) \/ LS!NotAdmitted(p, l) \/ LS!UpdateSummary(p, l)
           \/ LS!IncrementRefetchAttempts(p, l) \/ LS!MarkFailedAfterRetries(p, l)
    PROVE  LinkSetsInv'
<1> DEFINE c == child[p][l]
<1>1. LinksTyped /\ Written(p, l) /\ UNCHANGED <<draft, note, lock, request, said>>
  BY DEF LinkSetsInv, LS!Fetched, LS!NotAdmitted, LS!UpdateSummary, LS!IncrementRefetchAttempts,
         LS!MarkFailedAfterRetries
<1>2. /\ c \in Child /\ child = [child EXCEPT ![p][l] = c]
      /\ fetch[p][l] \in {"idle", "taken", "failed"} /\ fetch = [fetch EXCEPT ![p][l] = fetch[p][l]]
      /\ (fetch[p][l] # "idle" => c.state # "none") /\ (Made(p, l) <=> c.state # "none")
  BY <1>1 DEF LinksTyped, Written, Made
<1>3. CASE LS!Fetched(p, l)
  <2>1. /\ child' = [child EXCEPT ![p][l] = LS!UpdateContent(c)] \/ child' = [child EXCEPT ![p][l] = LS!processPDFChild(c)]
        /\ fetch' = [fetch EXCEPT ![p][l] = "idle"] /\ fetch[p][l] = "taken"
    BY <1>3 DEF LS!Fetched, LS!Turns
  <2>2. /\ LS!UpdateContent(c) \in Child /\ LS!UpdateContent(c).state # "none"
        /\ LS!processPDFChild(c) \in Child /\ LS!processPDFChild(c).state # "none"
    <3> DEFINE st == IF c.state = "failed" THEN "ready" ELSE c.state
    <3>1. st \in {"none", "processing", "ready", "failed"} /\ st # "none"
      BY <1>2, <2>1 DEF Child
    <3>2. LS!UpdateContent(c) = [c EXCEPT !.state = st, !.attempts = 0, !.text = TRUE]
      BY DEF LS!UpdateContent
    <3> HIDE DEF st
    <3> DEFINE d == LS!UpdateContent(c)
    <3>5. d = [state |-> st, attempts |-> 0, text |-> TRUE]
      BY <1>2, <3>2 DEF Child
    <3>3. d \in Child /\ d.state = st
      BY <3>1, <3>5 DEF Child
    <3>4. LS!processPDFChild(c) \in Child /\ LS!processPDFChild(c).state = "ready"
      BY <1>2 DEF LS!processPDFChild, Child
    <3> QED
      BY <3>1, <3>3, <3>4
  <2> QED
    BY <1>1, <1>2, <2>1, <2>2, ChildStays
<1>4. CASE LS!NotAdmitted(p, l)
  <2>1. child' = child /\ fetch' = [fetch EXCEPT ![p][l] = "idle"]
    BY <1>4 DEF LS!NotAdmitted, LS!Turns
  <2> QED
    BY <1>1, <1>2, <2>1, ChildStays
<1>5. CASE LS!UpdateSummary(p, l)
  <2>1. child' = [child EXCEPT ![p][l] = [c EXCEPT !.state = "ready"]] /\ fetch' = fetch /\ c.state = "processing"
    BY <1>5 DEF LS!UpdateSummary
  <2>2. [c EXCEPT !.state = "ready"] \in Child /\ [c EXCEPT !.state = "ready"].state # "none"
    BY <1>2 DEF Child
  <2> QED
    BY <1>1, <1>2, <2>1, <2>2, ChildStays
<1>6. CASE LS!IncrementRefetchAttempts(p, l)
  <2> DEFINE n == IF c.attempts < MaxAttempts THEN c.attempts + 1 ELSE c.attempts
             d == [c EXCEPT !.attempts = n]
  <2>1. child' = [child EXCEPT ![p][l] = d] /\ fetch' = [fetch EXCEPT ![p][l] = "failed"] /\ fetch[p][l] = "taken"
    BY <1>6 DEF LS!IncrementRefetchAttempts, LS!Turns
  <2>2. n \in Int
    BY <1>2 DEF Child
  <2> HIDE DEF n
  <2>3. d \in Child /\ d.state = c.state
    BY <1>2, <2>2 DEF Child
  <2> QED
    BY <1>1, <1>2, <2>1, <2>3, ChildStays
<1>7. CASE LS!MarkFailedAfterRetries(p, l)
  <2>1. /\ child' = [child EXCEPT ![p][l] = [c EXCEPT !.state = "failed"]] \/ child' = child
        /\ fetch' = [fetch EXCEPT ![p][l] = "idle"] /\ fetch[p][l] = "failed"
    BY <1>7 DEF LS!MarkFailedAfterRetries, LS!Turns
  <2>2. [c EXCEPT !.state = "failed"] \in Child /\ [c EXCEPT !.state = "failed"].state # "none"
    BY <1>2 DEF Child
  <2> QED
    BY <1>1, <1>2, <2>1, <2>2, ChildStays
<1> QED
  BY <1>3, <1>4, <1>5, <1>6, <1>7

LEMMA CycleSteps ==
    ASSUME LinkSetsInv, LS!processQueuedChildren \/ LS!Restart
    PROVE  LinkSetsInv'
<1>1. child' = child /\ UNCHANGED <<draft, note, lock, request, said>> /\ LinksTyped
  BY DEF LinkSetsInv, LS!processQueuedChildren, LS!Restart
<1>2. CASE LS!processQueuedChildren
  <2>1. fetch' = [k \in Parent |-> [j \in Link |->
                   IF LS!GetProcessingChildren(k, j) THEN "taken" ELSE "idle"]]
    BY <1>2 DEF LS!processQueuedChildren
  <2>2. fetch' \in [Parent -> [Link -> {"idle", "taken", "failed"}]]
    BY <2>1
  <2>3. \A k \in Parent, j \in Link : fetch'[k][j] # "idle" => Made(k, j)
    BY <2>1 DEF LS!GetProcessingChildren, Made
  <2>4. \A k \in Parent, j \in Link : Made(k, j)' <=> Made(k, j)
    BY <1>1 DEF Made
  <2>5. child' \in [Parent -> [Link -> Child]]
    BY <1>1 DEF LinksTyped
  <2> QED
    BY <1>1, <2>2, <2>3, <2>4, <2>5, SameChildren
<1>3. CASE LS!Restart
  <2>1. fetch' = [k \in Parent |-> [j \in Link |-> "idle"]]
    BY <1>3 DEF LS!Restart
  <2>2. fetch' \in [Parent -> [Link -> {"idle", "taken", "failed"}]]
    BY <2>1
  <2>3. \A k \in Parent, j \in Link : fetch'[k][j] = "idle"
    BY <2>1
  <2>4. \A k \in Parent, j \in Link : Made(k, j)' <=> Made(k, j)
    BY <1>1 DEF Made
  <2>5. child' \in [Parent -> [Link -> Child]]
    BY <1>1 DEF LinksTyped
  <2> QED
    BY <1>1, <2>2, <2>3, <2>4, <2>5, SameChildren
<1> QED
  BY <1>2, <1>3

LEMMA NotesUntouched ==
    ASSUME LinkSetsInv, UNCHANGED <<child, draft, note, lock, request, fetch, said>>
    PROVE  LinkSetsInv'
BY DEF LinkSetsInv, LinksTyped, Holds, Written, Made

LEMMA ReaderStep ==
    ASSUME LinkSetsInv, NEW p \in Parent, LS!Reader(p)
    PROVE  LinkSetsInv'
<1>1. CASE LS!ConfirmLinkSetSuggestion(p) \/ LS!Hide(p)
  BY <1>1, NotesUntouched DEF LS!ConfirmLinkSetSuggestion, LS!Hide
<1>2. ASSUME NEW found \in SUBSET Link, LS!GetCandidates(p, found) \/ LS!Refetched(p, found) PROVE LinkSetsInv'
  BY <1>2, NotesUntouched DEF LS!GetCandidates, LS!Refetched
<1> QED
  BY <1>1, <1>2, DeleteStep, NoteStep DEF LS!Reader

LEMMA LinkSetsStep ==
    ASSUME LS!LinkSetsAssumption, LinkSetsInv, [LS!Next]_(LS!vars)
    PROVE  LinkSetsInv'
<1>1. CASE UNCHANGED LS!vars
  BY <1>1, NotesUntouched DEF LS!vars
<1>2. ASSUME NEW r \in Request,
             \/ LS!LockSource(r) \/ LS!AddShortcutCaptureDraft(r) \/ LS!EnableAndInsertLinkSetChildren(r)
             \/ \E l \in Link, n \in {<< >>} \cup {<<m>> : m \in Note}, h \in Parent \cup {Nobody} :
                  LS!CaptureFromShortcut(r, l, n, h)
             \/ \E p \in Parent, ls \in SUBSET Link \ {{}} : LS!BeginBatchFetch(r, p, ls)
      PROVE  LinkSetsInv'
  BY <1>2, LockStep, SaveStep, EnableStep, CaptureStep, BatchBegins
<1>3. CASE LS!processQueuedChildren \/ LS!Restart
  BY <1>3, CycleSteps
<1>4. ASSUME NEW p \in Parent, LS!Worker(p) PROVE LinkSetsInv'
  <2>1. CASE LS!FindArticlesNeedingCheck(p) \/ LS!Unchecked(p)
    BY <2>1, NotesUntouched DEF LS!FindArticlesNeedingCheck, LS!Unchecked
  <2>2. ASSUME NEW found, NEW enough,
               LS!detectLinkSetCandidates(p, found, enough) \/ LS!detectLinkSetSuggestions(p, found, enough)
        PROVE  LinkSetsInv'
    BY <2>2, NotesUntouched DEF LS!detectLinkSetCandidates, LS!detectLinkSetSuggestions, LS!Detected
  <2> QED
    BY <1>4, <2>1, <2>2, WorkerStep DEF LS!Worker
<1> QED
  BY <1>1, <1>2, <1>3, <1>4, ReaderStep DEF LS!Next

\* A note the reader was told is saved is on the draft, which no child then
\* hides, or on the child, however the shortcut, the confirmation, the reader's
\* corrections and the worker's fetches interleave.
\* link_set.go, article_capture_drafts.go, capture_note.go.
THEOREM NotesKeptAlways ==
    ASSUME LS!LinkSetsAssumption PROVE LS!Spec => []LS!NotesKept
<1>1. LS!Spec => []LinkSetsInv
  BY LinkSetsInit, LinkSetsStep, PTL DEF LS!Spec
<1>2. LinkSetsInv => LS!NotesKept
  BY DEF LinkSetsInv, Written, LS!NotesKept, LS!Exists, Made
<1> QED
  BY <1>1, <1>2, PTL

-----------------------------------------------------------------------------
(* ExploreReader: who holds the lock of a source writes about an article that*)
(* is there, and who counts an exposure has looked at all that count.       *)

CONSTANTS Source, Topic, SourceOf, TopicOf, HealthOf, ColdMax, PerSource,
          Keep, Few, MaxBatch, MaxChange
VARIABLES batch, feedback, state, events, changes

ER == INSTANCE ExploreReader

Deed(q) ==
    /\ DOMAIN q = {"at", "id", "time", "saved", "set"}
    /\ q.at \in {"visible", "saving", "exposed", "counting"} => q.id \in ER!Article
    /\ q.at \in {"exposed", "counting"} => q.time \in Nat

BatchRow == [status : {"pending", "done", "failed"}, sources : SUBSET Source, recent : BOOLEAN]

ReaderTyped ==
    /\ now \in Nat /\ article \subseteq ER!Article /\ batch \in Seq(BatchRow)
    /\ DOMAIN state = {"saved", "skipped"}
    /\ events \in [ER!Article -> SUBSET Nat]
    /\ DOMAIN request = Request /\ \A r \in Request : Deed(request[r])

Locking == \A r \in Request : request[r].at = "saving" => request[r].id \in article

Counted ==
    /\ \A r \in Request : request[r].at = "counting" =>
         \A e \in events[request[r].id] : e + Window < request[r].time
    /\ \A r, o \in Request : request[r].at = "counting" /\ request[o].at = "counting"
                             /\ request[r].id = request[o].id => r = o

ReaderInv == ReaderTyped /\ Locking /\ Counted /\ ER!SavedHasCopy /\ ER!ExposureSpaced

LEMMA ReaderInit == ER!Init => ReaderInv
<1> SUFFICES ASSUME ER!Init PROVE ReaderInv
  OBVIOUS
<1>1. /\ now = 0 /\ article = ER!Article /\ batch = << >> /\ state = [saved |-> {}, skipped |-> {}]
      /\ events = [a \in ER!Article |-> {}] /\ DOMAIN request = Request
      /\ \A r \in Request : request[r] = ER!Free
  BY DEF ER!Init
<1>2. Deed(ER!Free) /\ ER!Free.at = "free"
  BY DEF Deed, ER!Free
<1>3. ReaderTyped
  BY <1>1, <1>2 DEF ReaderTyped
<1>4. ER!SavedHasCopy /\ ER!ExposureSpaced
  BY <1>1 DEF ER!SavedHasCopy, ER!ExposureSpaced
<1>5. Locking /\ Counted
  BY <1>1, <1>2 DEF Locking, Counted
<1> QED
  BY <1>3, <1>4, <1>5 DEF ReaderInv

-----------------------------------------------------------------------------
LEMMA DeedTurns ==
    ASSUME ReaderTyped, NEW r \in Request, NEW q, Deed(q), ER!Becomes(r, q)
    PROVE  /\ DOMAIN request' = Request /\ request'[r] = q
           /\ \A o \in Request : Deed(request'[o]) /\ (o # r => request'[o] = request[o])
BY DEF ReaderTyped, ER!Becomes

LEMMA DoneDeed == Deed(ER!Done) /\ ER!Done.at = "done"
BY DEF Deed, ER!Done, ER!Free

\* A request turns to q while nothing else changes.
LEMMA TurnStep ==
    ASSUME ReaderInv, NEW r \in Request, NEW q, Deed(q), ER!Becomes(r, q),
           UNCHANGED <<now, article, batch, state, events>>,
           q.at = "saving" => q.id \in article,
           q.at = "counting" => ~ER!Counting(q.id) /\ \A e \in events[q.id] : e + Window < q.time
    PROVE  ReaderInv'
<1>1. /\ DOMAIN request' = Request /\ request'[r] = q
      /\ \A o \in Request : Deed(request'[o]) /\ (o # r => request'[o] = request[o])
  BY DeedTurns DEF ReaderInv
<1>2. ReaderTyped' /\ Locking'
  BY <1>1 DEF ReaderInv, ReaderTyped, Locking
<1>3. Counted'
  <2>1. ASSUME NEW o \in Request, request'[o].at = "counting"
        PROVE  \A e \in events[request'[o].id] : e + Window < request'[o].time
    BY <1>1, <2>1 DEF ReaderInv, Counted
  <2>2. ASSUME NEW o \in Request, NEW p \in Request, request'[o].at = "counting",
               request'[p].at = "counting", request'[o].id = request'[p].id
        PROVE  o = p
    BY <1>1, <2>2 DEF ReaderInv, Counted, ER!Counting
  <2> QED
    BY <2>1, <2>2 DEF Counted
<1> QED
  BY <1>2, <1>3 DEF ReaderInv, ER!SavedHasCopy, ER!ExposureSpaced

LEMMA RequestTurn ==
    ASSUME ER!ExploreReaderAssumption, ReaderInv, NEW r \in Request,
           \/ ER!lockExploreSourceForWrite(r) \/ ER!LockExposure(r) \/ ER!CommitInterests(r)
           \/ \E topics : ER!ReplaceInterests(r, topics)
           \/ \E a \in ER!Article : \/ \E on \in BOOLEAN : ER!UpdateArticleState(r, a, on)
                                    \/ ER!RecordArticleEvent(r, a)
    PROVE  ReaderInv'
<1> DEFINE q == request[r]
<1>1. UNCHANGED <<now, article, batch, state, events>> /\ Deed(q) /\ ReaderTyped
  BY DEF ReaderInv, ReaderTyped, ER!lockExploreSourceForWrite, ER!LockExposure, ER!CommitInterests,
         ER!ReplaceInterests, ER!UpdateArticleState, ER!RecordArticleEvent
<1>2. CASE ER!CommitInterests(r)
  BY <1>1, <1>2, DoneDeed, TurnStep DEF ER!CommitInterests
<1>3. ASSUME NEW topics, ER!ReplaceInterests(r, topics) PROVE ReaderInv'
  <2> DEFINE x == [ER!Free EXCEPT !.at = "replacing", !.set = topics]
  <2>1. Deed(x) /\ x.at = "replacing"
    BY DEF Deed, ER!Free
  <2>2. ER!Becomes(r, x)
    BY <1>3 DEF ER!ReplaceInterests
  <2> HIDE DEF x
  <2> QED
    BY <1>1, <2>1, <2>2, TurnStep
<1>4. ASSUME NEW a \in ER!Article, NEW on \in BOOLEAN, ER!UpdateArticleState(r, a, on) PROVE ReaderInv'
  <2> DEFINE x == [ER!Free EXCEPT !.at = "visible", !.id = a, !.saved = on]
  <2>1. Deed(x) /\ x.at = "visible"
    BY DEF Deed, ER!Free
  <2>2. ER!Becomes(r, x)
    BY <1>4 DEF ER!UpdateArticleState
  <2> HIDE DEF x
  <2> QED
    BY <1>1, <2>1, <2>2, TurnStep
<1>5. ASSUME NEW a \in ER!Article, ER!RecordArticleEvent(r, a) PROVE ReaderInv'
  <2> DEFINE x == [ER!Free EXCEPT !.at = "exposed", !.id = a, !.time = now]
  <2>1. Deed(x) /\ x.at = "exposed"
    BY <1>1 DEF Deed, ER!Free, ReaderTyped
  <2>2. ER!Becomes(r, x)
    BY <1>5 DEF ER!RecordArticleEvent
  <2> HIDE DEF x
  <2> QED
    BY <1>1, <2>1, <2>2, TurnStep
<1>6. CASE ER!lockExploreSourceForWrite(r)
  <2> DEFINE x == [q EXCEPT !.at = "saving"]
  <2>1. /\ q.at = "visible"
        /\ \/ ER!Becomes(r, ER!Done)
           \/ q.id \in article /\ ER!Becomes(r, x)
    BY <1>6 DEF ER!lockExploreSourceForWrite
  <2>2. x.at = "saving" /\ x.id = q.id /\ DOMAIN x = DOMAIN q
    BY <1>1 DEF Deed
  <2> HIDE DEF x
  <2>3. Deed(x)
    BY <1>1, <2>1, <2>2 DEF Deed
  <2>4. CASE ER!Becomes(r, ER!Done)
    BY <1>1, <2>4, DoneDeed, TurnStep
  <2>5. CASE q.id \in article /\ ER!Becomes(r, x)
    BY <1>1, <2>2, <2>3, <2>5, TurnStep
  <2> QED
    BY <2>1, <2>4, <2>5
<1>7. CASE ER!LockExposure(r)
  <2> DEFINE x == [q EXCEPT !.at = "counting"]
  <2>1. /\ q.at = "exposed" /\ ~ER!Counting(q.id)
        /\ \/ ER!Becomes(r, ER!Done)
           \/ ~ER!Duplicate(q) /\ ER!Becomes(r, x)
    BY <1>7 DEF ER!LockExposure
  <2>2. x.at = "counting" /\ x.id = q.id /\ x.time = q.time /\ DOMAIN x = DOMAIN q
    BY <1>1 DEF Deed
  <2> HIDE DEF x
  <2>3. Deed(x)
    BY <1>1, <2>1, <2>2 DEF Deed
  <2>4. CASE ER!Becomes(r, ER!Done)
    BY <1>1, <2>4, DoneDeed, TurnStep
  <2>5. CASE ~ER!Duplicate(q) /\ ER!Becomes(r, x)
    <3>1. \A e \in events[q.id] : ~(e + Window >= q.time)
      BY <2>5 DEF ER!Duplicate
    <3>2. q.id \in ER!Article /\ q.time \in Nat
      BY <1>1, <2>1 DEF Deed
    <3>3. events[q.id] \subseteq Nat /\ Window \in Nat
      BY <1>1, <3>2 DEF ReaderTyped, ER!ExploreReaderAssumption
    <3>4. \A e \in events[q.id] : e + Window < q.time
      BY <3>1, <3>2, <3>3
    <3> QED
      BY <1>1, <2>1, <2>2, <2>3, <2>5, <3>4, TurnStep
  <2> QED
    BY <2>1, <2>4, <2>5
<1> QED
  BY <1>2, <1>3, <1>4, <1>5, <1>6, <1>7

LEMMA CommitStateStep ==
    ASSUME ReaderInv, NEW r \in Request, ER!CommitState(r)
    PROVE  ReaderInv'
<1> DEFINE q == request[r]
           u == UrlOf[q.id]
<1>1. /\ q.at = "saving" /\ ER!Becomes(r, ER!Done)
      /\ UNCHANGED <<now, article, batch, events>>
      /\ \/ state' = [state EXCEPT !.saved = ER!Set(@, u, q.saved)]
         \/ state' = [state EXCEPT !.skipped = ER!Set(@, u, q.saved)]
         \/ UNCHANGED state
  BY DEF ER!CommitState
<1>2. /\ DOMAIN request' = Request /\ request'[r] = ER!Done
      /\ \A o \in Request : Deed(request'[o]) /\ (o # r => request'[o] = request[o])
  BY <1>1, DoneDeed, DeedTurns DEF ReaderInv
<1>3. DOMAIN state = {"saved", "skipped"} /\ q.id \in article
  BY <1>1 DEF ReaderInv, ReaderTyped, Locking
<1>4. DOMAIN state' = {"saved", "skipped"} /\ state'.saved \subseteq state.saved \cup {u}
  BY <1>1, <1>3 DEF ER!Set
<1>5. ReaderTyped' /\ Locking' /\ Counted'
  BY <1>1, <1>2, <1>4, DoneDeed DEF ReaderInv, ReaderTyped, Locking, Counted
<1>6. ER!SavedHasCopy'
  BY <1>1, <1>3, <1>4 DEF ReaderInv, ER!SavedHasCopy
<1> QED
  BY <1>1, <1>5, <1>6 DEF ReaderInv, ER!ExposureSpaced

LEMMA CommitExposureStep ==
    ASSUME ER!ExploreReaderAssumption, ReaderInv, NEW r \in Request, ER!CommitExposure(r)
    PROVE  ReaderInv'
<1> DEFINE q == request[r]
<1>1. /\ q.at = "counting" /\ ER!Becomes(r, ER!Done)
      /\ UNCHANGED <<now, article, batch, state>>
      /\ \/ events' = [events EXCEPT ![q.id] = @ \cup {q.time}]
         \/ UNCHANGED events
  BY DEF ER!CommitExposure
<1>2. /\ DOMAIN request' = Request /\ request'[r] = ER!Done
      /\ \A o \in Request : Deed(request'[o]) /\ (o # r => request'[o] = request[o])
  BY <1>1, DoneDeed, DeedTurns DEF ReaderInv
<1>3. q.id \in ER!Article /\ q.time \in Nat /\ Window \in Nat
  BY <1>1 DEF ReaderInv, ReaderTyped, Deed, ER!ExploreReaderAssumption
<1>4. events \in [ER!Article -> SUBSET Nat]
  BY DEF ReaderInv, ReaderTyped
<1>5. /\ events' \in [ER!Article -> SUBSET Nat]
      /\ events'[q.id] \subseteq events[q.id] \cup {q.time}
      /\ \A a \in ER!Article : a # q.id => events'[a] = events[a]
  BY <1>1, <1>3, <1>4
<1>6. \A e \in events[q.id] : e + Window < q.time
  BY <1>1 DEF ReaderInv, Counted
<1>7. ReaderTyped' /\ Locking'
  BY <1>1, <1>2, <1>5, DoneDeed DEF ReaderInv, ReaderTyped, Locking
<1>8. Counted'
  <2>1. ASSUME NEW o \in Request, request'[o].at = "counting"
        PROVE  /\ o # r /\ request'[o] = request[o] /\ request[o].id # q.id
               /\ request[o].id \in ER!Article
    BY <1>1, <1>2, <2>1, DoneDeed DEF ReaderInv, Counted, ReaderTyped, Deed
  <2>2. ASSUME NEW o \in Request, request'[o].at = "counting"
        PROVE  \A e \in events'[request'[o].id] : e + Window < request'[o].time
    BY <1>5, <2>1, <2>2 DEF ReaderInv, Counted
  <2> QED
    BY <2>1, <2>2 DEF ReaderInv, Counted
<1>9. ER!ExposureSpaced'
  <2>1. SUFFICES ASSUME NEW a \in ER!Article, NEW e \in events'[a], NEW f \in events'[a], e < f
                 PROVE  e + Window < f
    BY DEF ER!ExposureSpaced
  <2>2. CASE a # q.id
    BY <1>5, <2>1, <2>2 DEF ReaderInv, ER!ExposureSpaced
  <2>3. CASE a = q.id
    <3>1. e \in events[a] \cup {q.time} /\ f \in events[a] \cup {q.time} /\ e \in Nat /\ f \in Nat
      BY <1>3, <1>5, <2>3
    <3>2. CASE e \in events[a] /\ f \in events[a]
      BY <3>2, <2>1 DEF ReaderInv, ER!ExposureSpaced
    <3>3. CASE f = q.time
      BY <1>6, <2>1, <2>3, <3>1, <3>3
    <3>4. CASE e = q.time /\ f \in events[a]
      BY <1>3, <1>6, <2>1, <2>3, <3>1, <3>4
    <3> QED
      BY <3>1, <3>2, <3>3, <3>4
  <2> QED
    BY <2>2, <2>3
<1> QED
  BY <1>1, <1>7, <1>8, <1>9 DEF ReaderInv, ER!SavedHasCopy

\* Fetching and retention remove no saved article and none of a source that is locked.
LEMMA SourceStep ==
    ASSUME ReaderInv, NEW s \in Source, NEW cut,
           \/ ER!RetainArticles(s, cut)
           \/ \E A \in SUBSET ER!Article : ER!UpsertArticles(s, A, cut)
    PROVE  ReaderInv'
<1>1. /\ ~ER!Locked(s) /\ UNCHANGED <<now, batch, state, request>>
      /\ events' = [a \in ER!Article |-> IF a \in article' THEN events[a] ELSE {}]
  BY DEF ER!RetainArticles, ER!UpsertArticles
<1>2. PICK A, ok : /\ A \in SUBSET ER!Article
                     /\ article' = (article \cup A) \ ER!Shed(article \cup A, s, cut, ok)
  <2>1. CASE ER!RetainArticles(s, cut)
    <3>1. article' = (article \cup {}) \ ER!Shed(article \cup {}, s, cut, source[s].ok)
      <4>1. article \cup {} = article
        OBVIOUS
      <4> QED
        BY <2>1, <4>1 DEF ER!RetainArticles
    <3> QED
      BY <3>1
  <2>2. CASE \E A \in SUBSET ER!Article : ER!UpsertArticles(s, A, cut)
    BY <2>2 DEF ER!UpsertArticles
  <2> QED
    BY <2>1, <2>2
<1>3. \A a \in article : a \notin article' => SourceOf[a] = s /\ UrlOf[a] \notin state.saved
  BY <1>2 DEF ER!Shed
<1>4. article' \subseteq ER!Article
  BY <1>2 DEF ReaderInv, ReaderTyped
<1>5. events' \in [ER!Article -> SUBSET Nat] /\ \A a \in ER!Article : events'[a] \subseteq events[a]
  <2>1. events \in [ER!Article -> SUBSET Nat]
    BY DEF ReaderInv, ReaderTyped
  <2> QED
    BY <1>1, <2>1
<1>6. ReaderTyped'
  BY <1>1, <1>4, <1>5 DEF ReaderInv, ReaderTyped
<1>7. Locking'
  BY <1>1, <1>3 DEF ReaderInv, Locking, ER!Locked
<1>8. Counted'
  BY <1>1, <1>5 DEF ReaderInv, ReaderTyped, Deed, Counted
<1>9. ER!SavedHasCopy'
  BY <1>1, <1>3 DEF ReaderInv, ER!SavedHasCopy
<1>10. ER!ExposureSpaced'
  BY <1>5 DEF ReaderInv, ER!ExposureSpaced
<1> QED
  BY <1>6, <1>7, <1>8, <1>9, <1>10 DEF ReaderInv

LEMMA BatchesStep ==
    ASSUME ReaderInv,
           \/ ER!StartBatch \/ \E S \in SUBSET Source : ER!FinishBatch(S)
           \/ \E i \in DOMAIN batch : ER!AgeBatch(i)
    PROVE  ReaderInv'
<1>1. UNCHANGED <<now, article, state, events, request>> /\ batch \in Seq(BatchRow)
  BY DEF ReaderInv, ReaderTyped, ER!StartBatch, ER!FinishBatch, ER!AgeBatch
<1>2. batch' \in Seq(BatchRow)
  <2>1. CASE ER!StartBatch
    <3> DEFINE b == [status |-> "pending", sources |-> {}, recent |-> TRUE]
    <3>1. b \in BatchRow /\ batch' = Append(batch, b)
      BY <2>1 DEF ER!StartBatch, BatchRow
    <3> HIDE DEF b
    <3> QED
      BY <1>1, <3>1
  <2>2. ASSUME NEW S \in SUBSET Source, ER!FinishBatch(S) PROVE batch' \in Seq(BatchRow)
    <3> DEFINE to == IF S = {} THEN "failed" ELSE "done"
    <3>1. PICK i \in DOMAIN batch :
            batch' = [batch EXCEPT ![i].status = to, ![i].sources = S]
      BY <2>2 DEF ER!FinishBatch
    <3>2. to \in {"pending", "done", "failed"}
      OBVIOUS
    <3> HIDE DEF to
    <3>3. batch[i] \in BatchRow
      BY <1>1
    <3>4. [[batch[i] EXCEPT !.status = to] EXCEPT !.sources = S] \in BatchRow
      BY <3>2, <3>3 DEF BatchRow
    <3>5. batch' = [batch EXCEPT ![i] = [[batch[i] EXCEPT !.status = to] EXCEPT !.sources = S]]
      BY <1>1, <3>1, <3>3 DEF BatchRow
    <3> QED
      BY <1>1, <3>4, <3>5
  <2>3. ASSUME NEW i \in DOMAIN batch, ER!AgeBatch(i) PROVE batch' \in Seq(BatchRow)
    <3>1. batch' = [batch EXCEPT ![i].recent = FALSE] /\ batch[i] \in BatchRow
      BY <1>1, <2>3 DEF ER!AgeBatch
    <3>2. [batch[i] EXCEPT !.recent = FALSE] \in BatchRow
      BY <3>1 DEF BatchRow
    <3> QED
      BY <1>1, <3>1, <3>2
  <2> QED
    BY <2>1, <2>2, <2>3
<1>3. ReaderTyped'
  BY <1>1, <1>2 DEF ReaderInv, ReaderTyped
<1> QED
  BY <1>1, <1>3 DEF ReaderInv, Locking, Counted, ER!SavedHasCopy, ER!ExposureSpaced

LEMMA CatalogStep == ASSUME ER!ExploreReaderAssumption, ReaderInv, [ER!Next]_ER!vars PROVE ReaderInv'
<1> DEFINE quiet == UNCHANGED <<article, batch, state, events, request>>
<1>1. ASSUME quiet, now' \in Nat PROVE ReaderInv'
  BY <1>1 DEF ReaderInv, ReaderTyped, Locking, Counted, ER!SavedHasCopy, ER!ExposureSpaced
<1>2. now \in Nat
  BY DEF ReaderInv, ReaderTyped
<1>3. CASE UNCHANGED ER!vars
  BY <1>1, <1>2, <1>3 DEF ER!vars
<1>4. ASSUME NEW r \in Request,
             \/ ER!lockExploreSourceForWrite(r) \/ ER!LockExposure(r) \/ ER!CommitInterests(r)
             \/ \E topics \in SUBSET Topic : ER!ReplaceInterests(r, topics)
             \/ \E a \in ER!Article : \/ \E on \in BOOLEAN : ER!UpdateArticleState(r, a, on)
                                      \/ ER!RecordArticleEvent(r, a)
      PROVE  ReaderInv'
  BY <1>4, RequestTurn
<1>5. ASSUME \E kind \in ER!Kind, x \in Source \cup Topic : ER!CreateFeedback(kind, x) PROVE ReaderInv'
  BY <1>1, <1>2, <1>5 DEF ER!CreateFeedback
<1>6. ASSUME \E f \in feedback : ER!DeleteFeedback(f) PROVE ReaderInv'
  BY <1>1, <1>2, <1>6 DEF ER!DeleteFeedback
<1>7. CASE ER!ClearNegativeFeedback
  BY <1>1, <1>2, <1>7 DEF ER!ClearNegativeFeedback
<1>8. CASE ER!Tick
  BY <1>1, <1>2, <1>8 DEF ER!Tick
<1>9. ASSUME NEW s \in Source,
             \/ ER!Subscribe(s) \/ \E what \in {"ok", "fresh", "seen"} : ER!Decline(s, what)
      PROVE  ReaderInv'
  BY <1>1, <1>2, <1>9 DEF ER!Subscribe, ER!Decline
<1> QED
  BY <1>3, <1>4, <1>5, <1>6, <1>7, <1>8, <1>9, CommitStateStep, CommitExposureStep, SourceStep,
     BatchesStep
     DEF ER!Next

\* A saved article stays in the cache: who saves holds its source's row, and the
\* retention of that source waits for it.  UpdateArticleState and RetainArticles
\* of repository/explore_catalog.go.
THEOREM SavedHasCopyAlways == ASSUME ER!ExploreReaderAssumption PROVE ER!Spec => []ER!SavedHasCopy
<1>1. ReaderInv => ER!SavedHasCopy
  BY DEF ReaderInv
<1> QED
  BY <1>1, ReaderInit, CatalogStep, PTL DEF ER!Spec

\* The exposures of an article that count lie more than the window apart, in
\* whatever order the requests take the lock under which they look.
THEOREM ExposureSpacedAlways == ASSUME ER!ExploreReaderAssumption PROVE ER!Spec => []ER!ExposureSpaced
<1>1. ReaderInv => ER!ExposureSpaced
  BY DEF ReaderInv
<1> QED
  BY <1>1, ReaderInit, CatalogStep, PTL DEF ER!Spec

-----------------------------------------------------------------------------
\* The latest published batch is one of the reader's.
LEMMA LatestIsBatch ==
    ASSUME ReaderTyped
    PROVE  \/ ER!Latest = 0
           \/ ER!Latest \in DOMAIN batch /\ batch[ER!Latest].status = "done"
<1> DEFINE n == Len(batch)
           S == {0} \cup {i \in DOMAIN batch : batch[i].status = "done"}
           T == {n - i : i \in S}
<1>1. n \in Nat /\ DOMAIN batch = 1..n
  BY DEF ReaderTyped
<1> HIDE DEF n
<1>2. \A i \in S : i \in 0..n
  BY <1>1
<1>3. 0 \in S
  OBVIOUS
<1> HIDE DEF S
<1>4. T \subseteq Nat /\ T # {}
  BY <1>1, <1>2, <1>3
<1>5. PICK m \in T : \A k \in T : <<k, m>> \notin OpToRel(<, Nat)
  BY <1>4, NatLessThanWellFounded, WFMin
<1>6. \A k \in T : ~ (k < m)
  BY <1>4, <1>5, Zenon DEF OpToRel
<1>7. PICK i \in S : m = n - i
  BY <1>5
<1>8. ASSUME NEW j \in S PROVE i >= j
  <2>1. ~ (n - j < n - i)
    BY <1>6, <1>7
  <2>2. i \in 0..n /\ j \in 0..n
    BY <1>2
  <2> QED
    BY <1>1, <2>1, <2>2
<1>9. ER!Max(S) \in S
  BY <1>8 DEF ER!Max
<1> QED
  BY <1>9 DEF ER!Latest, S

LEMMA ShownInv == ReaderTyped => ER!ShownActionable
<1> SUFFICES ASSUME ReaderTyped PROVE ER!ShownActionable
  OBVIOUS
<1>1. \A a \in ER!SavedPage : ER!GetVisibleArticle(a)
  BY DEF ER!SavedPage, ER!GetVisibleArticle
<1>2. \A S : \A a \in ER!ArticlesOf(S) : a \in article /\ SourceOf[a] \in S
  BY DEF ER!ArticlesOf, ER!Newest, ER!Of
<1>3. ASSUME ER!Latest = 0 \/ batch[ER!Latest].recent, NEW a \in ER!Page
      PROVE  /\ ER!GetVisibleArticle(a) /\ SourceOf[a] \in ER!GetSources
             /\ ER!CanHide(SourceOf[a]) /\ ER!CanDampen(TopicOf[SourceOf[a]])
  <2>1. CASE ER!Cold
    <3>1. a \in article /\ SourceOf[a] \in ER!ColdSources
      BY <1>2, <1>3, <2>1 DEF ER!Page
    <3> QED
      BY <2>1, <3>1 DEF ER!GetVisibleArticle, ER!GetSources, ER!CanHide, ER!CanDampen
  <2>2. CASE ~ER!Cold
    <3>1. a \in article /\ SourceOf[a] \in ER!LatestSources
      <4>1. a \in ER!BatchPage
        BY <1>3, <2>2 DEF ER!Page
      <4> QED
        BY <1>2, <4>1 DEF ER!BatchPage
    <3>2. /\ ER!Latest \in DOMAIN batch /\ batch[ER!Latest].status = "done"
          /\ batch[ER!Latest].recent /\ ER!LatestSources = batch[ER!Latest].sources
      BY <1>3, <2>2, LatestIsBatch DEF ER!Cold, ER!LatestSources
    <3>3. SourceOf[a] \in ER!Recent
      BY <3>1, <3>2 DEF ER!Recent
    <3>4. a \in ER!Of(SourceOf[a])
      BY <3>1 DEF ER!Of
    <3> QED
      BY <2>2, <3>1, <3>3, <3>4 DEF ER!GetVisibleArticle, ER!GetSources, ER!CanHide, ER!CanDampen
  <2> QED
    BY <2>1, <2>2
<1> QED
  BY <1>1, <1>3 DEF ER!ShownActionable

\* What a page shows can be opened, its source is listed and can be hidden, and
\* its topic dampened: the four queries agree on what the latest batch says.
THEOREM ShownActionableAlways == ASSUME ER!ExploreReaderAssumption PROVE ER!Spec => []ER!ShownActionable
<1>1. ReaderInv => ER!ShownActionable
  BY ShownInv DEF ReaderInv
<1> QED
  BY <1>1, ReaderInit, CatalogStep, PTL DEF ER!Spec

=============================================================================
