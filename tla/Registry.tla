------------------------------- MODULE Registry -------------------------------
(* Directories of feeds, synchronized into candidate sources with the evidence *)
(* that lets a source be validated, and the sites related to what readers      *)
(* already follow.  internal/explore/registry.go, related.go, provider.go,     *)
(* fetcher.go, repository/explore_registry.go.                                 *)
(*                                                                             *)
(* Nothing but a mark in the scheduler's memory keeps two synchronizations     *)
(* apart: a window's may outlast its window, and the maintenance invocation    *)
(* --refresh-explore-once runs one in a second process (cmd/worker/main.go).   *)
(* Every synchronization reads the clock once, when it loads the providers,    *)
(* and no two read the same time.  A directory always sends validators, and    *)
(* does not go back to an earlier version of its document.                     *)
EXTENDS Naturals, Sequences, FiniteSets

CONSTANTS
    Provider,
    Related,                \* the provider that follows links of known sites
    Trusted,                \* one listing is evidence enough, or occurs twice
    Entry,                  \* external keys of directory entries
    UrlOf,                  \* the feed URL of an entry
    Doc,                    \* the entries of each version of the document
    Worker,                 \* what synchronizes: windows' goroutines, processes
    Interval, Fresh, Listed,        \* between syncs; 7 days; 30 days
    MaxTime, MaxSource              \* bounds

RegistryAssumption ==
    /\ {MaxTime, MaxSource} \subseteq Nat \ {0}
    /\ Doc # << >> /\ Doc \in Seq(SUBSET Entry)

VARIABLES
    now,
    doc,            \* the version each directory has
    provider,       \* the explore_registry_providers rows
    source,         \* the recommended_feeds rows, by id
    seen,           \* last_seen_at of the explore_source_observations rows
    work,           \* synchronizations under way
    shown,          \* when each entry was last in what a provider answered
    overlapped      \* providers of which two synchronizations met

vars == <<now, doc, provider, source, seen, work, shown, overlapped>>

Version == DOMAIN Doc
Larger(a, b) == IF a > b THEN a ELSE b
Idle == [at |-> "idle", p |-> "", now |-> 0, etag |-> 0, got |-> 0, left |-> {}]

TypeOK ==
    /\ now \in 0..MaxTime
    /\ provider \in [Provider -> [etag : {0} \cup Version, sync : 0..MaxTime,
                                  success : 0..MaxTime, built : 0..MaxTime,
                                  failures : 0..MaxTime]]
    /\ \A s \in 1..Len(source) : source[s].status \in {"pending", "valid", "merged"}
    /\ seen \in [Provider \X Entry \X (1..MaxSource) -> 0..MaxTime]
    /\ \A w \in Worker : work[w].at \in {"idle", "fetch", "upsert", "same", "fail", "done"}
    /\ overlapped \subseteq Provider

Init ==
    /\ now = 1 /\ doc = [p \in Provider |-> 1] /\ source = <<>>
    /\ provider = [p \in Provider |-> [etag |-> 0, sync |-> 0, success |-> 0,
                                       built |-> 0, failures |-> 0]]
    /\ seen = [o \in Provider \X Entry \X (1..MaxSource) |-> 0]
    /\ work = [w \in Worker |-> Idle] /\ shown = [o \in Provider \X Entry |-> 0]
    /\ overlapped = {}

Becomes(w, q) == work' = [work EXCEPT ![w] = q]

-----------------------------------------------------------------------------
\* A provider is due an interval after its last sync, doubled for every
\* failure in a row, six times at most.
Due(p) ==
    LET n == provider[p].failures IN
    provider[p].sync + Interval * 2 ^ (IF n > 6 THEN 6 ELSE n) <= now + 1

LoadDueProviders(w, p) ==
    /\ work[w] = Idle /\ now < MaxTime /\ Due(p)
    /\ now' = now + 1
    /\ Becomes(w, [Idle EXCEPT !.at = "fetch", !.p = p, !.now = now + 1,
                               !.etag = IF p \in Related THEN 0 ELSE provider[p].etag])
    /\ overlapped' = IF \E v \in Worker : work[v].p = p THEN overlapped \cup {p}
                     ELSE overlapped
    /\ UNCHANGED <<doc, provider, source, seen, shown>>

\* The directory's editors.
Publish(p) ==
    /\ doc[p] + 1 \in Version /\ doc' = [doc EXCEPT ![p] = @ + 1]
    /\ UNCHANGED <<now, provider, source, seen, work, shown, overlapped>>

\* Unreachable, not understood, not modified, or a document.
Fetch(w) ==
    LET q == work[w]
        v == doc[q.p] IN
    /\ q.at = "fetch"
    /\ \/ Becomes(w, [q EXCEPT !.at = "fail"]) /\ UNCHANGED shown
       \/ /\ shown' = [o \in Provider \X Entry |->
                         IF o[1] = q.p /\ o[2] \in Doc[v] THEN now ELSE shown[o]]
          /\ Becomes(w, IF q.etag = v THEN [q EXCEPT !.at = "same", !.got = v]
                        ELSE [q EXCEPT !.at = "upsert", !.got = v, !.left = Doc[v]])
    /\ UNCHANGED <<now, doc, provider, source, seen, overlapped>>

-----------------------------------------------------------------------------
\* The verified source that this entry led to before, if there is just one.
Canonical(p, k) ==
    {s \in 1..Len(source) : seen[<<p, k, s>>] > 0 /\ source[s].status = "valid"}

\* The row that has the normalized URL: a directory never makes a second one.
AtUrl(u) == {s \in 1..Len(source) : source[s].url = u}

NeverSuperseded(q) == FALSE
\* Another synchronization, begun later, has recorded its outcome.
Superseded(q) == q.now < provider[q.p].sync

\* One candidate at a time, each in a transaction that holds the provider's row
\* and the lock of the URL.  A superseded synchronization ends silently; any
\* other error, of the queue too, fails it.  The related sites go on.
UpsertCandidate(w) ==
    LET q == work[w]
        p == q.p IN
    /\ q.at = "upsert" /\ q.left # {}
    /\ \E k \in q.left :
         IF Superseded(q)
         THEN /\ Becomes(w, IF p \in Related THEN [q EXCEPT !.left = @ \ {k}]
                            ELSE [q EXCEPT !.at = "done"])
              /\ UNCHANGED <<source, seen>>
         ELSE /\ \E s \in IF Cardinality(Canonical(p, k)) = 1 THEN Canonical(p, k)
                          ELSE IF AtUrl(UrlOf[k]) # {} THEN AtUrl(UrlOf[k])
                          ELSE {Len(source) + 1} :
                   /\ s <= MaxSource
                   /\ source' = IF s > Len(source)
                                THEN Append(source, [url |-> UrlOf[k], status |-> "pending"])
                                ELSE source
                   /\ seen' = [seen EXCEPT ![<<p, k, s>>] = Larger(@, q.now)]
              /\ Becomes(w, [q EXCEPT !.left = @ \ {k}])
    /\ UNCHANGED <<now, doc, provider, shown, overlapped>>

UpsertFails(w) ==
    LET q == work[w] IN
    /\ q.at = "upsert" /\ q.left # {}
    /\ \/ q.p \notin Related /\ Becomes(w, [q EXCEPT !.at = "fail"])
       \/ q.p \in Related /\ \E k \in q.left : Becomes(w, [q EXCEPT !.left = @ \ {k}])
    /\ UNCHANGED <<now, doc, provider, source, seen, shown, overlapped>>

Synced(q) == [etag |-> IF q.p \in Related THEN 0 ELSE q.got, sync |-> q.now,
              success |-> q.now, built |-> q.now, failures |-> 0]

\* The results of a superseded synchronization are dropped.
RecordSuccess(w) ==
    LET q == work[w] IN
    /\ q.at = "upsert" /\ q.left = {}
    /\ provider' = IF Superseded(q) THEN provider ELSE [provider EXCEPT ![q.p] = Synced(q)]
    /\ Becomes(w, Idle)
    /\ UNCHANGED <<now, doc, source, seen, shown, overlapped>>

\* What the unchanged document lists is what the last one materialized.
Represented(p, k) ==
    /\ provider[p].built > 0
    /\ \E s \in 1..MaxSource : seen[<<p, k, s>>] = provider[p].built

RecordNotModified(w) ==
    LET q == work[w] IN
    /\ q.at = "same"
    /\ IF Superseded(q) THEN UNCHANGED <<provider, seen>>
       ELSE /\ provider' = [provider EXCEPT ![q.p] = Synced(q)]
            /\ seen' = [o \in DOMAIN seen |->
                          IF o[1] = q.p /\ seen[o] > 0 /\ Represented(q.p, o[2])
                          THEN Larger(seen[o], q.now) ELSE seen[o]]
    /\ Becomes(w, Idle)
    /\ UNCHANGED <<now, doc, source, shown, overlapped>>

\* Also what is left to do when a success cannot be recorded.
RecordFailure(w) ==
    LET q == work[w] IN
    /\ \/ q.at = "fail"
       \/ q.at = "upsert" /\ q.left = {}
       \/ q.at = "same"
    /\ provider' = IF Superseded(q) THEN provider
                   ELSE [provider EXCEPT ![q.p].sync = q.now, ![q.p].failures = @ + 1]
    /\ Becomes(w, Idle)
    /\ UNCHANGED <<now, doc, source, seen, shown, overlapped>>

\* Superseded, or the worker stops.
SyncEnds(w) ==
    /\ work[w].at \in {"done", "fetch", "upsert", "same"} /\ Becomes(w, Idle)
    /\ UNCHANGED <<now, doc, provider, source, seen, shown, overlapped>>

-----------------------------------------------------------------------------
\* An observation counts while its provider keeps answering and it is recent.
usableEvidence(o) ==
    /\ seen[o] > 0 /\ provider[o[1]].success > 0
    /\ provider[o[1]].success + Fresh >= now /\ seen[o] + Listed >= now

HasSourceConfidence(s) ==
    LET by == {o[1] : o \in {x \in DOMAIN seen : x[3] = s /\ usableEvidence(x)}} IN
    by \cap Trusted # {} \/ Cardinality(by) > 1

\* The queue fetches the source and finds the feed under some URL, its own or
\* that of an alternate; if another source has it, this one is merged into it.
Validate(s, u) ==
    /\ s <= Len(source) /\ source[s].status = "pending" /\ HasSourceConfidence(s)
    /\ source' = IF AtUrl(u) \ {s} # {} THEN [source EXCEPT ![s].status = "merged"]
                 ELSE [source EXCEPT ![s] = [url |-> u, status |-> "valid"]]
    /\ UNCHANGED <<now, doc, provider, seen, work, shown, overlapped>>

Next ==
    \/ \E w \in Worker :
         \/ \E p \in Provider : LoadDueProviders(w, p)
         \/ Fetch(w) \/ UpsertCandidate(w) \/ UpsertFails(w) \/ RecordSuccess(w)
         \/ RecordNotModified(w) \/ RecordFailure(w) \/ SyncEnds(w)
    \/ \E p \in Provider : Publish(p)
    \/ \E s \in 1..MaxSource, k \in Entry : Validate(s, UrlOf[k])

Spec == Init /\ [][Next]_vars

-----------------------------------------------------------------------------
\* The evidence for a source is never younger than the last time its entry was
\* in what the provider answered: an answer that nothing changed keeps alive
\* what the document lists, and not what was taken out of it, though a sync in
\* between failed half way.  Said of the providers of which no two
\* synchronizations have met: a slow one may store the validator of a document
\* that a quick one, begun later, did not materialize.
EvidenceWasShown ==
    \A o \in DOMAIN seen : seen[o] <= shown[<<o[1], o[2]>>] \/ o[1] \in overlapped

\* However many meet, in whatever order they fetch, write and record: what a
\* provider's row says is only ever replaced by a synchronization begun later,
\* and evidence only written by one that none begun later has overtaken.
NoStaleWriteStep ==
    /\ \A p \in Provider : provider'[p] # provider[p] =>
          /\ provider'[p].sync > provider[p].sync
          /\ provider'[p].success >= provider[p].success
          /\ provider'[p].built >= provider[p].built
    /\ \A o \in DOMAIN seen : seen'[o] # seen[o] =>
          seen'[o] > seen[o] /\ seen'[o] >= provider'[o[1]].sync
NoStaleWrite == [][NoStaleWriteStep]_vars
=============================================================================
