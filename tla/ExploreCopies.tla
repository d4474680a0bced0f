---------------------------- MODULE ExploreCopies ----------------------------
(* The bodies of one Explore article: the feed's text, the original page   *)
(* that readers fetch under a lease, the copies a subscription imports     *)
(* into the reader's library, and the repair of legacy HTML bodies.        *)
(* internal/explore/subscribe.go, subscribe_content.go, content_repair.go, *)
(* explorecontent/article_content.go, repository/explore_catalog.go.       *)
(*                                                                         *)
(* A body is <<origin, length>>: "raw" HTML of an older version of the     *)
(* program, its "norm"alized form, which is shorter, or a page, named by   *)
(* its URL.  A lease token is named by the attempt that drew it.           *)
EXTENDS Naturals, FiniteSets

CONSTANTS
    Url,            \* the URLs an article had, all with one normalized form
    Reader,         \* attempts to fetch the original, each made once
    Nobody,
    MaxLen,
    MaxRefresh, MaxRead     \* bounds: feed updates; copies made

VARIABLES
    row,            \* the explore_articles row
    cache,          \* the explore_article_content row
    reader,         \* attempts to fetch the original
    sub,            \* the subscription under way
    copy,           \* the imported articles, by URL
    summary,        \* the summary the worker is writing
    refreshes, reads

vars == <<row, cache, reader, sub, copy, summary, refreshes, reads>>

None == <<"none", 0>>
Body == ({"raw", "norm"} \cup Url) \X (1..MaxLen)
Text == Body \cup {None}

Len(b) == IF b[1] = "raw" THEN b[2] + 1 ELSE b[2]
NormalizeFeedContent(b) == IF b[1] = "raw" THEN <<"norm", b[2]>> ELSE b

NoCache == [status |-> "none", url |-> Nobody, body |-> None, token |-> Nobody,
            expired |-> FALSE, due |-> FALSE]
Free == [at |-> "free", url |-> Nobody, seen |-> None]
Done == [Free EXCEPT !.at = "done"]
NoCopy == [body |-> None, summary |-> None]
NoSub == [at |-> "free", url |-> Nobody, body |-> None]
Idle == [at |-> "idle", url |-> Nobody, body |-> None]

TypeOK ==
    /\ row \in [url : Url, body : Body, ver : 0..1, legacy : Text]
    /\ cache.status \in {"none", "fetching", "failed", "fetched"}
    /\ cache.body \in Text /\ cache.token \in Reader \cup {Nobody}
    /\ \A r \in Reader : reader[r].at \in {"free", "open", "claimed", "charged", "done"}
    /\ sub.at \in {"free", "read", "write"} /\ sub.body \in Text
    /\ copy \in [Url -> [body : Text, summary : Text]]
    /\ summary.at \in {"idle", "writing"}
    /\ refreshes \in 0..MaxRefresh /\ reads \in 0..MaxRead

Init ==
    /\ \E u \in Url, b \in Body :
         /\ b[1] \in {"raw", "norm"}
         /\ row = [url |-> u, body |-> b, legacy |-> None,
                   ver |-> IF b[1] = "raw" THEN 0 ELSE 1]
         \* what an older version imported
         /\ copy \in {[v \in Url |-> IF v = u THEN [body |-> c, summary |-> c]
                                     ELSE NoCopy] : c \in {b, None}}
    /\ cache = NoCache /\ reader = [r \in Reader |-> Free] /\ sub = NoSub
    /\ summary = Idle /\ refreshes = 0 /\ reads = 0

Becomes(r, q) == reader' = [reader EXCEPT ![r] = q]

-----------------------------------------------------------------------------
\* A fetch of the source rewrites the row, unless it is older than the row.
\* A body that replaces a legacy one leaves its hash.
UpsertArticle(u, b) ==
    /\ refreshes < MaxRefresh /\ refreshes' = refreshes + 1
    /\ row' = IF b = None THEN [row EXCEPT !.url = u]
              ELSE [url |-> u, body |-> b, ver |-> 1,
                    legacy |-> IF row.ver = 0 THEN row.body ELSE row.legacy]
    /\ UNCHANGED <<cache, reader, sub, copy, summary, reads>>

-----------------------------------------------------------------------------
\* A reader who may see the article asks for the original ...
FetchArticleContent(r) ==
    /\ reader[r] = Free
    /\ Becomes(r, [Free EXCEPT !.at = "open", !.url = row.url])
    /\ UNCHANGED <<row, cache, sub, copy, summary, refreshes, reads>>

Claimable(u) ==
    \/ cache.status = "none" \/ cache.url # u
    \/ cache.status = "fetching" /\ cache.expired
    \/ cache.status = "failed" /\ cache.due
    \/ cache.status = "fetched" /\ Len(cache.body) < Len(row.body)

\* ... and takes the lease, if the row still has that URL.
Claim(r) ==
    LET q == reader[r] IN
    /\ q.at = "open"
    /\ IF row.url = q.url /\ Claimable(q.url)
       THEN /\ cache' = [status |-> "fetching", url |-> q.url, token |-> r,
                         expired |-> FALSE, due |-> FALSE,
                         body |-> IF cache.url = q.url THEN cache.body ELSE None]
            /\ Becomes(r, [q EXCEPT !.at = "claimed", !.seen = row.body])
       ELSE Becomes(r, Done) /\ UNCHANGED cache
    /\ UNCHANGED <<row, sub, copy, summary, refreshes, reads>>

Mine(r) ==
    /\ cache.token = r /\ cache.status = "fetching" /\ cache.url = reader[r].url

\* A refusal of the budget is this caller's alone: the lease goes.
charge(r) ==
    /\ reader[r].at = "claimed"
    /\ \/ Becomes(r, [reader[r] EXCEPT !.at = "charged"]) /\ UNCHANGED cache
       \/ /\ Becomes(r, Done)
          /\ cache' = IF Mine(r) THEN NoCache ELSE cache
    /\ UNCHANGED <<row, sub, copy, summary, refreshes, reads>>

fail(r) ==
    /\ cache' = IF Mine(r) THEN [cache EXCEPT !.status = "failed", !.due = FALSE,
                                              !.expired = FALSE]
                ELSE cache
    /\ Becomes(r, Done)

acceptableBody(b, old) == Len(b) >= Len(old)

\* The page is stored under the lease if the row is still what it was.
Store(r, b) ==
    LET q == reader[r] IN
    /\ q.at = "charged" /\ b[1] = q.url
    /\ IF acceptableBody(b, q.seen) /\ Mine(r) /\ ~cache.expired
            /\ row.url = cache.url /\ row.body = q.seen
       THEN cache' = [cache EXCEPT !.status = "fetched", !.body = b] /\ Becomes(r, Done)
       ELSE fail(r)
    /\ UNCHANGED <<row, sub, copy, summary, refreshes, reads>>

Fail(r) ==
    /\ reader[r].at = "charged" /\ fail(r)
    /\ UNCHANGED <<row, sub, copy, summary, refreshes, reads>>

\* The server stops.
Crash(r) ==
    /\ reader[r].at \in {"claimed", "charged"} /\ Becomes(r, Done)
    /\ UNCHANGED <<row, cache, sub, copy, summary, refreshes, reads>>

Time ==
    /\ \/ cache.status = "fetching" /\ ~cache.expired /\ cache' = [cache EXCEPT !.expired = TRUE]
       \/ cache.status = "failed" /\ ~cache.due /\ cache' = [cache EXCEPT !.due = TRUE]
    /\ UNCHANGED <<row, reader, sub, copy, summary, refreshes, reads>>

-----------------------------------------------------------------------------
\* A subscription reads the cached article, and on another connection the
\* original, and writes the longer one into the library.  One at a time for
\* an owner and URL: the advisory lock is held until the end.
Subscribe ==
    /\ sub.at = "free" /\ reads < MaxRead /\ reads' = reads + 1
    /\ sub' = [at |-> "read", url |-> row.url, body |-> NormalizeFeedContent(row.body)]
    /\ UNCHANGED <<row, cache, reader, copy, summary, refreshes>>

loadCopiedOriginals ==
    /\ sub.at = "read"
    /\ sub' = [sub EXCEPT !.at = "write",
                 !.body = IF /\ cache.status = "fetched" /\ cache.url = sub.url
                             /\ Len(cache.body) > Len(@)
                          THEN cache.body ELSE @]
    /\ UNCHANGED <<row, cache, reader, copy, summary, refreshes, reads>>

Accepted(b, old) == b # None /\ Len(b) >= Len(old)

UpsertedWithSummary(c, b) ==
    [body |-> IF Accepted(b, c.body) THEN b ELSE c.body, summary |-> c.summary]
Upserted(c, b) ==
    [body |-> IF Accepted(b, c.body) THEN b ELSE c.body,
     summary |-> IF c.body # b /\ Accepted(b, c.body) THEN None ELSE c.summary]

copyExploreArticles ==
    /\ sub.at = "write"
    /\ \/ copy' = [copy EXCEPT ![sub.url] = Upserted(@, sub.body)]
       \/ UNCHANGED copy                                \* rolled back
    /\ sub' = NoSub
    /\ UNCHANGED <<row, cache, reader, summary, refreshes, reads>>

\* The worker summarizes a copy and stores the summary if the body is the same.
Summarize(u) ==
    /\ summary = Idle /\ copy[u].body # None /\ copy[u].summary = None
    /\ summary' = [at |-> "writing", url |-> u, body |-> copy[u].body]
    /\ UNCHANGED <<row, cache, reader, sub, copy, refreshes, reads>>

UpdateSummary ==
    /\ summary.at = "writing"
    /\ copy' = IF copy[summary.url].body = summary.body
               THEN [copy EXCEPT ![summary.url].summary = summary.body] ELSE copy
    /\ summary' = Idle
    /\ UNCHANGED <<row, cache, reader, sub, refreshes, reads>>

-----------------------------------------------------------------------------
\* The repair locks the row and its copies.  It converts the copies that are
\* exactly the legacy body, or have its hash, and no others.
Legacy(u) ==
    /\ u = row.url /\ copy[u].body # None
    /\ copy[u].body = IF row.ver = 0 THEN row.body ELSE row.legacy

RepairContent ==
    LET fixed == NormalizeFeedContent(row.body) IN
    /\ row' = IF row.ver = 0 THEN [row EXCEPT !.body = fixed, !.ver = 1, !.legacy = row.body]
              ELSE row
    /\ copy' = [u \in Url |->
                  IF Legacy(u) /\ copy[u].body # fixed
                       /\ NormalizeFeedContent(copy[u].body) # copy[u].body
                  THEN [body |-> NormalizeFeedContent(copy[u].body), summary |-> None]
                  ELSE copy[u]]
    /\ UNCHANGED <<cache, reader, sub, summary, refreshes, reads>>

Next ==
    \/ \E u \in Url, b \in {None} \cup ({"norm"} \X (1..MaxLen)) : UpsertArticle(u, b)
    \/ \E r \in Reader :
         \/ FetchArticleContent(r) \/ Claim(r) \/ charge(r) \/ Fail(r) \/ Crash(r)
         \/ \E b \in Url \X (1..MaxLen) : Store(r, b)
    \/ Time \/ Subscribe \/ loadCopiedOriginals \/ copyExploreArticles
    \/ UpdateSummary \/ RepairContent
    \/ \E u \in Url : Summarize(u)

Spec == Init /\ [][Next]_vars

-----------------------------------------------------------------------------
\* Nothing is passed off as the text of another URL: the original kept under a
\* URL was extracted from it, whoever took the lease over and however the
\* article moved meanwhile, and so was what a copy took over from it.
BodyOfUrl ==
    /\ cache.body # None => cache.body[1] = cache.url
    /\ \A u \in Url : copy[u].body # None => copy[u].body[1] \in {"raw", "norm", u}

\* A summary shown with a copy is of the copy's body, though subscriptions, the
\* repair and the worker write it at the same time.
SummaryOfBody ==
    \A u \in Url : copy[u].summary # None => copy[u].summary = copy[u].body
=============================================================================
