---------------------------- MODULE ExploreReader ----------------------------
(* What one reader sees of Explore and does with it: the recommendation    *)
(* page, the list of its sources, feedback and interests, saved and        *)
(* skipped articles, and the events of reading, while sources are fetched, *)
(* fail and shed old articles.  internal/api/explore.go,                   *)
(* repository/explore.go, explore_article_state.go, explore_discovery.go,  *)
(* the source query of explore/subscribe.go, and the retention of          *)
(* explore_catalog.go.                                                     *)
(*                                                                         *)
(* Articles are numbered from the oldest to the newest.  What another      *)
(* reader saves would only keep more articles.                             *)
EXTENDS Naturals, Sequences, FiniteSets, FiniteSetsExt

CONSTANTS
    Source, Topic, Request,
    SourceOf,       \* the source of each article, a sequence
    UrlOf,          \* its normalized URL: sources may share one
    TopicOf,        \* the topic of each source
    HealthOf,       \* the order of health scores: every source has its own
    ColdMax,        \* sources of the cold page (12)
    PerSource,      \* articles shown of a source (5)
    Keep, Few,      \* articles retention keeps: at most, and of the old ones
    Window,         \* time in which an exposure counts once
    MaxTime, MaxBatch, MaxChange

ExploreReaderAssumption ==
    {ColdMax, PerSource, Keep, Few, Window, MaxTime, MaxBatch, MaxChange} \subseteq Nat

VARIABLES
    now,
    source,         \* is it valid, fetched recently, seen by a provider
    article,        \* the cached articles
    batch,          \* the reader's batches, oldest slot first
    feeds,          \* sources whose URL the reader has subscribed to
    feedback,       \* hidden sources, dampened and boosted topics
    state,          \* saved and skipped URLs
    events,         \* times at which an exposure of each article counted
    request, changes

vars == <<now, source, article, batch, feeds, feedback, state, events, request,
          changes>>

Article == DOMAIN SourceOf
Url == {UrlOf[a] : a \in Article}
Kind == {"hide", "dampen", "boost"}
Free == [at |-> "free", id |-> 0, time |-> 0, saved |-> FALSE, set |-> {}]
Done == [Free EXCEPT !.at = "done"]     \* bound: each request once

TypeOK ==
    /\ now \in 0..MaxTime /\ changes \in 0..MaxChange
    /\ source \in [Source -> [ok : BOOLEAN, fresh : BOOLEAN, seen : BOOLEAN]]
    /\ article \subseteq Article /\ feeds \subseteq Source
    /\ Len(batch) <= MaxBatch
    /\ \A i \in DOMAIN batch :
         batch[i] \in [status : {"pending", "done", "failed"}, sources : SUBSET Source,
                       recent : BOOLEAN]
    /\ feedback \subseteq Kind \X (Source \cup Topic)
    /\ state \in [saved : SUBSET Url, skipped : SUBSET Url]
    /\ events \in [Article -> SUBSET (0..MaxTime)]
    /\ \A r \in Request :
         request[r].at \in {"free", "done", "visible", "saving", "exposed", "counting",
                            "replacing"}

Init ==
    /\ now = 0 /\ changes = 0
    /\ source = [s \in Source |-> [ok |-> TRUE, fresh |-> TRUE, seen |-> TRUE]]
    /\ article = Article /\ batch = << >> /\ feeds = {} /\ feedback = {}
    /\ state = [saved |-> {}, skipped |-> {}]
    /\ events = [a \in Article |-> {}]
    /\ request = [r \in Request |-> Free]

Becomes(r, q) == request' = [request EXCEPT ![r] = q]
Change == changes < MaxChange /\ changes' = changes + 1
NoChange == UNCHANGED changes

-----------------------------------------------------------------------------
Latest == Max({0} \cup {i \in DOMAIN batch : batch[i].status = "done"})
LatestSources == IF Latest = 0 THEN {} ELSE batch[Latest].sources
Recent == UNION {batch[i].sources :
                   i \in {j \in DOMAIN batch : batch[j].status = "done" /\ batch[j].recent}}

Of(s) == {a \in article : SourceOf[a] = s}
Newest(A, n) == {a \in A : Cardinality({b \in A : b > a}) < n}

Hidden(s) == <<"hide", s>> \in feedback
Dampened(s) == <<"dampen", TopicOf[s]>> \in feedback

\* The best sources, whatever the batches say: the page of a reader without a
\* batch, and the fallback of one whose batch is exhausted.
Candidate(s) ==
    /\ source[s].ok /\ source[s].seen /\ Of(s) # {}
    /\ ~Hidden(s) /\ ~Dampened(s) /\ s \notin feeds

Best(S) == {s \in S : Cardinality({t \in S : HealthOf[t] > HealthOf[s]}) < ColdMax}
ColdSources == Best({s \in Source : Candidate(s) /\ source[s].fresh})

ArticlesOf(S) ==
    UNION {Newest({a \in Of(s) : UrlOf[a] \notin state.skipped}, PerSource) : s \in S}

BatchPage ==
    ArticlesOf({s \in LatestSources : /\ source[s].ok /\ source[s].fresh
                                      /\ ~Hidden(s) /\ ~Dampened(s)})

useExploreExhaustedFallback == Latest # 0 /\ ColdSources # {} /\ BatchPage = {}
Cold == Latest = 0 \/ useExploreExhaustedFallback

Page == IF Cold THEN ArticlesOf(ColdSources) ELSE BatchPage
GetSources == IF Cold THEN ColdSources ELSE {s \in LatestSources : Of(s) # {}}

\* A saved URL appears once, in its newest copy.
SavedPage ==
    {a \in article : /\ UrlOf[a] \in state.saved
                     /\ \A b \in article : UrlOf[b] = UrlOf[a] => b <= a}

GetVisibleArticle(a) ==
    /\ a \in article
    /\ \/ SourceOf[a] \in Recent \cup feeds \cup ColdSources
       \/ UrlOf[a] \in state.saved \cup state.skipped

\* The sources a subscription accepts.
Promotable(s) ==
    /\ source[s].ok
    /\ s \in Recent \cup feeds \cup Best({t \in Source : Candidate(t)})

-----------------------------------------------------------------------------
\* Hiding and dampening are for what is shown, or was hidden already.
CanHide(s) == s \in LatestSources \cup ColdSources \/ Hidden(s)
CanDampen(t) ==
    \/ \E s \in LatestSources \cup ColdSources : TopicOf[s] = t
    \/ <<"dampen", t>> \in feedback

CreateFeedback(kind, x) ==
    /\ kind = "hide" => x \in Source /\ CanHide(x)
    /\ kind = "dampen" => x \in Topic /\ CanDampen(x)
    /\ kind = "boost" => x \in Topic
    /\ Change /\ feedback' = feedback \cup {<<kind, x>>}
    /\ UNCHANGED <<now, source, article, batch, feeds, state, events, request>>

DeleteFeedback(f) ==
    /\ f \in feedback
    /\ Change /\ feedback' = feedback \ {f}
    /\ UNCHANGED <<now, source, article, batch, feeds, state, events, request>>

ClearNegativeFeedback ==
    /\ Change /\ feedback' = {f \in feedback : f[1] = "boost"}
    /\ UNCHANGED <<now, source, article, batch, feeds, state, events, request>>

\* One replacement at a time; its rows are visible once it commits.
ReplaceInterests(r, topics) ==
    /\ request[r] = Free /\ \A o \in Request : request[o].at # "replacing"
    /\ Change /\ Becomes(r, [Free EXCEPT !.at = "replacing", !.set = topics])
    /\ UNCHANGED <<now, source, article, batch, feeds, feedback, state, events>>

\* What another request boosted after the delete stays; a topic of both makes
\* the unique index refuse the insert.
CommitInterests(r) ==
    LET q == request[r] IN
    /\ q.at = "replacing"
    /\ \/ feedback' = {f \in feedback : f[1] # "boost"} \cup {<<"boost", t>> : t \in q.set}
       \/ feedback' = feedback                          \* rolled back
    /\ Becomes(r, Done) /\ NoChange
    /\ UNCHANGED <<now, source, article, batch, feeds, state, events>>

-----------------------------------------------------------------------------
\* Saving: the article is visible, its source is locked, and it is still there.
UpdateArticleState(r, a, saved) ==
    /\ request[r] = Free /\ GetVisibleArticle(a)
    /\ Becomes(r, [Free EXCEPT !.at = "visible", !.id = a, !.saved = saved])
    /\ NoChange
    /\ UNCHANGED <<now, source, article, batch, feeds, feedback, state, events>>

Locked(s) == \E r \in Request : request[r].at = "saving" /\ SourceOf[request[r].id] = s

lockExploreSourceForWrite(r) ==
    LET q == request[r] IN
    /\ q.at = "visible" /\ ~Locked(SourceOf[q.id])
    /\ Becomes(r, IF q.id \in article THEN [q EXCEPT !.at = "saving"] ELSE Done)
    /\ NoChange
    /\ UNCHANGED <<now, source, article, batch, feeds, feedback, state, events>>

Set(S, u, on) == IF on THEN S \cup {u} ELSE S \ {u}

\* One request sets one of the two flags; the other keeps its value.
CommitState(r) ==
    LET q == request[r]
        u == UrlOf[q.id]
    IN  /\ q.at = "saving"
        /\ \/ state' = [state EXCEPT !.saved = Set(@, u, q.saved)]
           \/ state' = [state EXCEPT !.skipped = Set(@, u, q.saved)]
           \/ UNCHANGED state                           \* rolled back
        /\ Becomes(r, Done) /\ NoChange
        /\ UNCHANGED <<now, source, article, batch, feeds, feedback, events>>

-----------------------------------------------------------------------------
\* The time of an event is taken when the request comes in.  Clicks and
\* completed reads are recorded as they come; nothing here reads them.
RecordArticleEvent(r, a) ==
    /\ request[r] = Free /\ GetVisibleArticle(a)
    /\ Becomes(r, [Free EXCEPT !.at = "exposed", !.id = a, !.time = now])
    /\ NoChange
    /\ UNCHANGED <<now, source, article, batch, feeds, feedback, state, events>>

NeverCounting(a) == FALSE
Counting(a) == \E r \in Request : request[r].at = "counting" /\ request[r].id = a

\* Exposures of one article are counted one at a time.
Duplicate(q) == \E e \in events[q.id] : e + Window >= q.time

LockExposure(r) ==
    LET q == request[r] IN
    /\ q.at = "exposed" /\ ~Counting(q.id)
    /\ Becomes(r, IF Duplicate(q) THEN Done ELSE [q EXCEPT !.at = "counting"])
    /\ NoChange
    /\ UNCHANGED <<now, source, article, batch, feeds, feedback, state, events>>

CommitExposure(r) ==
    LET q == request[r] IN
    /\ q.at = "counting"
    /\ \/ q.id \in article /\ events' = [events EXCEPT ![q.id] = @ \cup {q.time}]
       \/ UNCHANGED events                              \* rolled back
    /\ Becomes(r, Done) /\ NoChange
    /\ UNCHANGED <<now, source, article, batch, feeds, feedback, state>>

-----------------------------------------------------------------------------
\* The worker.  A fetch that brings the articles A of a source also sheds the
\* old ones (those up to "cut"), except what is saved.
Shed(A, s, cut, ok) ==
    LET mine == {a \in A : SourceOf[a] = s}
        Position(a) == Cardinality({b \in mine : b >= a})
    IN  {a \in mine : /\ UrlOf[a] \notin state.saved
                      /\ \/ Position(a) > Keep
                         \/ a <= cut /\ (~ok \/ Position(a) > Few)}

\* The rows of events go with their article.
UpsertArticles(s, A, cut) ==
    /\ ~Locked(s) /\ \A a \in A : SourceOf[a] = s
    /\ Change
    /\ article' = (article \cup A) \ Shed(article \cup A, s, cut, TRUE)
    /\ events' = [a \in Article |-> IF a \in article' THEN events[a] ELSE {}]
    /\ source' = [source EXCEPT ![s] = [@ EXCEPT !.ok = TRUE, !.fresh = TRUE]]
    /\ UNCHANGED <<now, batch, feeds, feedback, state, request>>

RetainArticles(s, cut) ==
    /\ ~Locked(s) /\ Change
    /\ article' = article \ Shed(article, s, cut, source[s].ok)
    /\ events' = [a \in Article |-> IF a \in article' THEN events[a] ELSE {}]
    /\ UNCHANGED <<now, source, batch, feeds, feedback, state, request>>

\* A source breaks or is invalidated, is not fetched for twelve hours, or is no
\* longer seen in an enabled directory.
Decline(s, what) ==
    /\ source[s][what] /\ Change
    /\ source' = [source EXCEPT ![s][what] = FALSE]
    /\ UNCHANGED <<now, article, batch, feeds, feedback, state, events, request>>

\* Batches of the reader: started, published or failed, and a month old.
StartBatch ==
    /\ Len(batch) < MaxBatch /\ \A i \in DOMAIN batch : batch[i].status # "pending"
    /\ batch' = Append(batch, [status |-> "pending", sources |-> {}, recent |-> TRUE])
    /\ NoChange
    /\ UNCHANGED <<now, source, article, feeds, feedback, state, events, request>>

FinishBatch(S) ==
    \E i \in DOMAIN batch :
      /\ batch[i].status = "pending" /\ \A s \in S : source[s].ok
      /\ batch' = [batch EXCEPT ![i].status = IF S = {} THEN "failed" ELSE "done",
                                ![i].sources = S]
      /\ NoChange
      /\ UNCHANGED <<now, source, article, feeds, feedback, state, events, request>>

AgeBatch(i) ==
    /\ batch[i].status = "done" /\ batch[i].recent /\ Change
    /\ batch' = [batch EXCEPT ![i].recent = FALSE]
    /\ UNCHANGED <<now, source, article, feeds, feedback, state, events, request>>

Subscribe(s) ==
    /\ Promotable(s) /\ s \notin feeds /\ Change
    /\ feeds' = feeds \cup {s}
    /\ UNCHANGED <<now, source, article, batch, feedback, state, events, request>>

Tick ==
    /\ now < MaxTime /\ now' = now + 1 /\ NoChange
    /\ UNCHANGED <<source, article, batch, feeds, feedback, state, events, request>>

Next ==
    \/ \E r \in Request :
         \/ lockExploreSourceForWrite(r) \/ CommitState(r)
         \/ LockExposure(r) \/ CommitExposure(r) \/ CommitInterests(r)
         \/ \E topics \in SUBSET Topic : ReplaceInterests(r, topics)
         \/ \E a \in Article :
              \/ \E on \in BOOLEAN : UpdateArticleState(r, a, on)
              \/ RecordArticleEvent(r, a)
    \/ \E kind \in Kind, x \in Source \cup Topic : CreateFeedback(kind, x)
    \/ \E f \in feedback : DeleteFeedback(f)
    \/ ClearNegativeFeedback \/ StartBatch \/ Tick
    \/ \E S \in SUBSET Source : FinishBatch(S)
    \/ \E i \in DOMAIN batch : AgeBatch(i)
    \/ \E s \in Source :
         \/ Subscribe(s)
         \/ \E what \in {"ok", "fresh", "seen"} : Decline(s, what)
         \/ \E cut \in {0} \cup Article :
              \/ RetainArticles(s, cut)
              \/ \E A \in SUBSET Article : UpsertArticles(s, A, cut)

Spec == Init /\ [][Next]_vars

-----------------------------------------------------------------------------
\* A saved article stays in the cache, however the save races the retention
\* of its source (UpdateArticleState against RetainArticles).
SavedHasCopy == \A u \in state.saved : \E a \in article : UrlOf[a] = u

\* Exposures of an article that count lie more than the window apart, whatever
\* the order in which the requests reach the lock.
ExposureSpaced ==
    \A a \in Article : \A e, f \in events[a] : e < f => e + Window < f

\* What is shown can be acted on: four queries written apart agree.  An article
\* on a page can be opened, its source is listed, and can be hidden or its
\* topic dampened, while the batch is not a month old.
ShownActionable ==
    /\ \A a \in SavedPage : GetVisibleArticle(a)
    /\ (Latest = 0 \/ batch[Latest].recent) =>
         \A a \in Page :
           /\ GetVisibleArticle(a) /\ SourceOf[a] \in GetSources
           /\ CanHide(SourceOf[a]) /\ CanDampen(TopicOf[SourceOf[a]])

\* The sources of the cold page can be subscribed to.
ColdSubscribable == Cold => \A s \in ColdSources : Promotable(s)
=============================================================================
