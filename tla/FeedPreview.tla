---------------------------- MODULE FeedPreview ----------------------------
(* Looking at an address before subscribing: a feed as it stands, the feed a *)
(* page names, the links scraped from the page, and feeds found by probing    *)
(* well-known paths at once.  internal/rss/fetcher.go, resolver.go.           *)
EXTENDS Naturals, FiniteSets, Sequences

CONSTANTS
    Probe,          \* the probed addresses
    Link,           \* links of the page
    Acceptable,     \* links of this host with a title, not navigation
    Structured,     \* the links its structured data (JSON-LD) names
    Matches,        \* Matches[k]: the links selector k finds, in page order
    Cap, Enough, Few

VARIABLES
    page,           \* what the address is: "feed", "linked", "page", "error"
    probe,          \* probe[b]: "off", "running", "found", "sent", "ended"
    channel,        \* the one-slot channel: {} or the address in it
    discovered,
    at,             \* where the handler is
    answer

vars == <<page, probe, channel, discovered, at, answer>>

None == [kind |-> "none", items |-> 0, feed |-> {}]

TypeOK ==
    /\ page \in {"feed", "linked", "page", "error"}
    /\ probe \in [Probe -> {"off", "running", "found", "sent", "ended"}]
    /\ channel \in SUBSET Probe /\ Cardinality(channel) <= 1
    /\ discovered \in SUBSET Probe
    /\ at \in {"start", "linked", "probe", "wait", "choose", "again", "done"}
    /\ answer \in [kind : {"none", "rss", "html", "error"}, items : 0..Cap,
                   feed : {{}} \cup {{b} : b \in Probe} \cup {{"page"}}]

Init ==
    /\ page \in {"feed", "linked", "page", "error"}
    /\ probe = [b \in Probe |-> "off"]
    /\ channel = {} /\ discovered = {}
    /\ at = "start" /\ answer = None

-----------------------------------------------------------------------------
\* Structured data wins when it names enough articles.  Otherwise the links of
\* one selector are taken in page order, each once, while there is room; a
\* selector that leaves enough of them is the last.
Take[n \in 0..Cardinality(Link), k \in DOMAIN Matches, items \in SUBSET Link] ==
    IF n = Len(Matches[k]) \/ Cardinality(items) >= Cap THEN items
    ELSE LET l == Matches[k][n + 1]
         IN  Take[n + 1, k, IF l \in Acceptable THEN items \cup {l} ELSE items]

extractJSONLDArticles == Structured \cap Acceptable

scrapeHTMLArticles ==
    LET From[k \in 1..(Len(Matches) + 1), items \in SUBSET Link] ==
          IF k > Len(Matches) \/ Cardinality(items) >= Enough THEN items
          ELSE From[k + 1, Take[0, k, items]]
    IN  IF Cardinality(extractJSONLDArticles) >= Few THEN extractJSONLDArticles
        ELSE From[1, {}]

Answers(kind, n, feed) ==
    /\ answer' = [kind |-> kind, items |-> n, feed |-> feed]
    /\ at' = "done"

Html == Cardinality(scrapeHTMLArticles)

-----------------------------------------------------------------------------
\* The address itself: a failure, a document that parses with items, or a page.
Preview ==
    /\ at = "start"
    /\ CASE page = "error" -> Answers("error", 0, {})
         [] page = "feed" -> Answers("rss", Cap, {"page"})
         [] page = "linked" -> at' = "linked" /\ UNCHANGED answer
         [] page = "page" -> at' = "probe" /\ UNCHANGED answer
    /\ UNCHANGED <<page, probe, channel, discovered>>

\* The feed the page names, if it can be read; otherwise probing follows.
Linked ==
    /\ at = "linked"
    /\ \/ Answers("rss", Cap, {"page"})
       \/ at' = "probe" /\ UNCHANGED answer
    /\ UNCHANGED <<page, probe, channel, discovered>>

StartProbes ==
    /\ at = "probe"
    /\ probe' = [b \in Probe |-> "running"]
    /\ at' = "wait"
    /\ UNCHANGED <<page, channel, discovered, answer>>

\* A probe ends with a feed, or without one; cancelling ends it too.
Fetched(b) ==
    /\ probe[b] = "running"
    /\ \/ at # "done" /\ probe' = [probe EXCEPT ![b] = "found"]
       \/ probe' = [probe EXCEPT ![b] = "ended"]
    /\ UNCHANGED <<page, channel, discovered, at, answer>>

\* The send never blocks: a probe that finds the slot taken drops its address.
Send(b) ==
    /\ probe[b] = "found"
    /\ \/ channel = {} /\ channel' = {b} /\ probe' = [probe EXCEPT ![b] = "sent"]
       \/ channel # {} /\ probe' = [probe EXCEPT ![b] = "ended"] /\ UNCHANGED channel
    /\ UNCHANGED <<page, discovered, at, answer>>

\* The handler waits for the first address or for five seconds; when both
\* have happened the select takes either.
Receive ==
    /\ at = "wait"
    /\ \/ channel # {} /\ discovered' = channel /\ channel' = {}
       \/ UNCHANGED <<discovered, channel>>
    /\ at' = "choose"
    /\ UNCHANGED <<page, probe, answer>>

\* Links enough on the page are the answer; otherwise the feed that was found,
\* read again, and failing that the page as it is.
Choose ==
    /\ at = "choose"
    /\ IF Html >= Few \/ discovered = {}
       THEN Answers("html", Html, discovered)
       ELSE at' = "again" /\ UNCHANGED answer
    /\ UNCHANGED <<page, probe, channel, discovered>>

ReadAgain ==
    /\ at = "again"
    /\ Answers("rss", Cap, discovered) \/ Answers("html", Html, {})
    /\ UNCHANGED <<page, probe, channel, discovered>>

Next ==
    \/ Preview \/ Linked \/ StartProbes \/ Receive \/ Choose \/ ReadAgain
    \/ \E b \in Probe : Fetched(b) \/ Send(b)

Handle == Preview \/ Linked \/ StartProbes \/ Receive \/ Choose \/ ReadAgain
Fairness ==
    /\ WF_vars(Handle)
    /\ \A b \in Probe : WF_vars(Fetched(b)) /\ WF_vars(Send(b))

Spec == Init /\ [][Next]_vars
FairSpec == Spec /\ Fairness

-----------------------------------------------------------------------------
\* No probe outlives the request by more than its own read: nobody receives
\* once the handler has chosen, and a probe must not wait for that.
Left(b) == probe[b] \in {"running", "found"}
ProbesEnd == \A b \in Probe : Left(b) ~> ~Left(b)

\* An empty answer means that the page has no link to offer and no feed was
\* found in time or could be read again (Preview).
NothingOverlooked ==
    at = "done" /\ answer.kind = "html" /\ answer.items = 0 =>
      \A k \in DOMAIN Matches, i \in 1..Cardinality(Link) :
         i <= Len(Matches[k]) => Matches[k][i] \notin Acceptable
=============================================================================
