------------------------------ MODULE LinkSets ------------------------------
(* Articles that are lists of links: the worker detects them, the reader   *)
(* puts links aside as drafts with a note, confirms a batch, and the worker*)
(* fetches the children.  cmd/worker/linkset.go, repository/link_set.go,   *)
(* article_capture_drafts.go, capture_note.go and their handlers.          *)
(*                                                                         *)
(* One reader owns every article.  A note text is a sequence of the notes  *)
(* that were joined into it.                                               *)
EXTENDS Naturals, Sequences, SequencesExt

CONSTANTS
    Parent, Link, Note, Request,
    Nobody,
    MaxAttempts,    \* failed fetches after which a child has failed
    NoteLimit       \* notes that fit in one text

LinkSetsAssumption ==
    Nobody \notin Request \cup Parent /\ {MaxAttempts, NoteLimit} \subseteq Nat

VARIABLES
    parent,         \* parent[p]: kind of its feed ("clip" also for one-off link
                    \* sets), extendable, suggested, body (links it mentions), hidden
    candidate,      \* candidate[p]: cached candidates
    child,          \* child[p][l]: state, attempts, text (content stored)
    draft,          \* draft[p][l]: on, note
    note,           \* note[p][l]: the note kept with the child
    lock,           \* lock[p]: the transaction that holds the parent's row
    request,        \* request[r]: a transaction of the reader
    check,          \* check[p]: the worker's look at a parent
    fetch,          \* fetch[p][l]: the worker's fetch of a child
    said            \* history: notes the reader was told are saved

vars == <<parent, candidate, child, draft, note, lock, request, check, fetch, said>>

Flag == {"unset", "true", "false"}
Text == UNION {[1..n -> Note] : n \in 0..NoteLimit}
Job == {"idle", "taken", "failed"}
Quiet == [at |-> "idle", p |-> Nobody, links |-> {}, note |-> << >>, fetched |-> FALSE]

TypeOK ==
    /\ parent \in [Parent -> [kind : {"clip", "rss"}, extendable : Flag, suggested : Flag,
                              body : SUBSET Link, hidden : BOOLEAN]]
    /\ candidate \in [Parent -> SUBSET Link]
    /\ child \in [Parent -> [Link ->
         [state : {"none", "processing", "ready", "failed"},
          attempts : 0..MaxAttempts, text : BOOLEAN]]]
    /\ draft \in [Parent -> [Link -> [on : BOOLEAN, note : Text]]]
    /\ note \in [Parent -> [Link -> Text]]
    /\ lock \in [Parent -> Request \cup {Nobody}]
    /\ request \in [Request ->
         [at : {"idle", "found", "save", "batch"}, p : Parent \cup {Nobody},
          links : SUBSET Link, note : Text, fetched : BOOLEAN]]
    /\ check \in [Parent -> {"idle", "link", "suggestion"}]
    /\ fetch \in [Parent -> [Link -> Job]]
    /\ said \in [Parent -> [Link -> SUBSET Note]]

Init ==
    /\ parent \in [Parent -> [kind : {"clip", "rss"}, extendable : {"unset"},
                              suggested : {"unset"}, body : SUBSET Link, hidden : {FALSE}]]
    /\ candidate = [p \in Parent |-> {}]
    /\ child = [p \in Parent |-> [l \in Link |->
                  [state |-> "none", attempts |-> 0, text |-> FALSE]]]
    /\ draft = [p \in Parent |-> [l \in Link |-> [on |-> FALSE, note |-> << >>]]]
    /\ note = [p \in Parent |-> [l \in Link |-> << >>]]
    /\ lock = [p \in Parent |-> Nobody]
    /\ request = [r \in Request |-> Quiet]
    /\ check = [p \in Parent |-> "idle"]
    /\ fetch = [p \in Parent |-> [l \in Link |-> "idle"]]
    /\ said = [p \in Parent |-> [l \in Link |-> {}]]

Becomes(r, q) == request' = [request EXCEPT ![r] = q]
Exists(p, l) == child[p][l].state # "none"

\* A text that ends in the new one is left as it is; a text that would grow
\* past the limit refuses the whole transaction.
Merge(old, new) == IF IsSuffix(new, old) THEN old ELSE old \o new
Fits(text) == Len(text) <= NoteLimit

-----------------------------------------------------------------------------
\* The phone's shortcut puts a link aside.  The source is the one visible
\* article that mentions it; with none or several nothing is written.
Sources(l) == {p \in Parent : ~parent[p].hidden /\ l \in parent[p].body}

CaptureFromShortcut(r, l, text, hint) ==
    /\ request[r] = Quiet
    /\ \E p \in Parent :
         /\ Sources(l) \cap (IF hint = Nobody THEN Parent ELSE {hint}) = {p}
         /\ Becomes(r, [Quiet EXCEPT !.at = "found", !.p = p, !.links = {l}, !.note = text])
    /\ UNCHANGED <<parent, candidate, child, draft, note, lock, check, fetch, said>>

\* FOR UPDATE on the source: its body and its children are read again.
LockSource(r) ==
    LET q == request[r] IN
    /\ q.at = "found" /\ lock[q.p] = Nobody
    /\ \E l \in q.links :
         IF l \in parent[q.p].body
         THEN /\ lock' = [lock EXCEPT ![q.p] = r]
              /\ Becomes(r, [q EXCEPT !.at = "save", !.fetched = Exists(q.p, l)])
         ELSE Becomes(r, Quiet) /\ UNCHANGED lock
    /\ UNCHANGED <<parent, candidate, child, draft, note, check, fetch, said>>

\* The note goes to the child if there is one, else to the draft; both rows
\* are upserts and the transaction commits.
AddShortcutCaptureDraft(r) ==
    LET q == request[r] IN
    /\ q.at = "save"
    /\ \E l \in q.links :
         LET onChild == Merge(note[q.p][l], q.note)
             onDraft == Merge(draft[q.p][l].note, q.note)
         IN  \/ /\ q.fetched /\ Fits(onChild)
                /\ note' = [note EXCEPT ![q.p][l] = onChild]
                /\ said' = [said EXCEPT ![q.p][l] = @ \cup Range(q.note)]
                /\ UNCHANGED draft
             \/ /\ ~q.fetched /\ Fits(onDraft)
                /\ draft' = [draft EXCEPT ![q.p][l] = [on |-> TRUE, note |-> onDraft]]
                /\ said' = [said EXCEPT ![q.p][l] = @ \cup Range(q.note)]
                /\ UNCHANGED note
             \/ UNCHANGED <<draft, note, said>>          \* too long, or an error
    /\ lock' = [lock EXCEPT ![q.p] = Nobody]
    /\ Becomes(r, Quiet)
    /\ UNCHANGED <<parent, candidate, child, check, fetch>>

\* What the reader sees as pending hides the links already fetched.
ListCaptureDrafts(p) == {l \in Link : draft[p][l].on /\ ~Exists(p, l)}

DeleteCaptureDrafts(p, links) ==
    /\ links \cap ListCaptureDrafts(p) # {}
    /\ draft' = [draft EXCEPT ![p] = [l \in Link |->
                   IF l \in links THEN [on |-> FALSE, note |-> << >>] ELSE @[l]]]
    /\ said' = [said EXCEPT ![p] = [l \in Link |->
                  IF l \in links /\ draft[p][l].on THEN {} ELSE @[l]]]
    /\ UNCHANGED <<parent, candidate, child, note, lock, request, check, fetch>>

-----------------------------------------------------------------------------
\* The reader confirms a batch.  The UPDATE of the parent takes its row ...
BeginBatchFetch(r, p, links) ==
    /\ request[r] = Quiet /\ lock[p] = Nobody
    /\ lock' = [lock EXCEPT ![p] = r]
    /\ Becomes(r, [Quiet EXCEPT !.at = "batch", !.p = p, !.links = links])
    /\ UNCHANGED <<parent, candidate, child, draft, note, check, fetch, said>>

\* ... and every link becomes a child, an existing one staying as it is, and
\* takes the note of its draft along.
Transferred(p, l) == Merge(note[p][l], draft[p][l].note)
NewChild == [state |-> "processing", attempts |-> 0, text |-> FALSE]

EnableAndInsertLinkSetChildren(r) ==
    LET q == request[r] IN
    /\ q.at = "batch"
    /\ \/ /\ \A l \in q.links : Fits(Transferred(q.p, l))
          /\ parent' = [parent EXCEPT ![q.p].extendable = "true"]
          /\ child' = [child EXCEPT ![q.p] = [l \in Link |->
                         IF l \in q.links /\ ~Exists(q.p, l) THEN NewChild ELSE @[l]]]
          /\ note' = [note EXCEPT ![q.p] = [l \in Link |->
                        IF l \in q.links THEN Transferred(q.p, l) ELSE @[l]]]
          /\ draft' = [draft EXCEPT ![q.p] = [l \in Link |->
                         IF l \in q.links THEN [on |-> FALSE, note |-> << >>] ELSE @[l]]]
       \/ UNCHANGED <<parent, child, note, draft>>
    /\ lock' = [lock EXCEPT ![q.p] = Nobody]
    /\ Becomes(r, Quiet)
    /\ UNCHANGED <<candidate, check, fetch, said>>

\* The reader rewrites or clears the note of a child.
UpdateCaptureNote(p, l, text) ==
    /\ Exists(p, l)
    /\ note' = [note EXCEPT ![p][l] = text]
    /\ said' = [said EXCEPT ![p][l] = Range(text)]
    /\ UNCHANGED <<parent, candidate, child, draft, lock, request, check, fetch>>

ConfirmLinkSetSuggestion(p) ==
    /\ parent[p].extendable # "true" /\ parent[p].suggested = "true"
    /\ lock[p] = Nobody
    /\ parent' = [parent EXCEPT ![p].extendable = "true"]
    /\ UNCHANGED <<candidate, child, draft, note, lock, request, check, fetch, said>>

\* Without cached candidates the page is read again and they are cached.
GetCandidates(p, found) ==
    /\ candidate[p] = {}
    /\ candidate' = [candidate EXCEPT ![p] = found]
    /\ UNCHANGED <<parent, child, draft, note, lock, request, check, fetch, said>>

Hide(p) ==
    /\ parent' = [parent EXCEPT ![p].hidden = ~@]
    /\ UNCHANGED <<candidate, child, draft, note, lock, request, check, fetch, said>>

\* A fetch replaces the parent's content, hence the links it mentions.
Refetched(p, body) ==
    /\ lock[p] = Nobody /\ body # parent[p].body
    /\ parent' = [parent EXCEPT ![p].body = body]
    /\ UNCHANGED <<candidate, child, draft, note, lock, request, check, fetch, said>>

-----------------------------------------------------------------------------
\* The worker looks once at each new article, as a link set if it is a clip,
\* for a suggestion if it comes from a feed.
FindArticlesNeedingCheck(p) ==
    /\ parent[p].extendable = "unset" /\ check[p] = "idle"
    /\ \/ parent[p].kind = "clip" /\ check' = [check EXCEPT ![p] = "link"]
       \/ /\ parent[p].kind = "rss" /\ parent[p].suggested = "unset"
          /\ check' = [check EXCEPT ![p] = "suggestion"]
    /\ UNCHANGED <<parent, candidate, child, draft, note, lock, request, fetch, said>>

\* A page with too few links, or that cannot be read, is a plain article.  The
\* candidates are cached first; a failure to cache does not stop the flag.
Caches(p, found) ==
    candidate' = [candidate EXCEPT ![p] = found] \/ UNCHANGED candidate

Flagged(enough) == IF enough THEN "true" ELSE "false"

Detected(p, found, enough) ==
    /\ lock[p] = Nobody
    /\ IF enough THEN Caches(p, found) ELSE UNCHANGED candidate
    /\ check' = [check EXCEPT ![p] = "idle"]
    /\ UNCHANGED <<child, draft, note, lock, request, fetch, said>>

detectLinkSetCandidates(p, found, enough) ==
    /\ check[p] = "link"
    /\ parent' = [parent EXCEPT ![p].extendable = Flagged(enough)]
    /\ Detected(p, found, enough)

detectLinkSetSuggestions(p, found, enough) ==
    /\ check[p] = "suggestion"
    /\ parent' = [parent EXCEPT ![p].suggested = Flagged(enough)]
    /\ Detected(p, found, enough)

\* The budget refuses, or the write fails: the article stays unchecked.
Unchecked(p) ==
    /\ check[p] # "idle"
    /\ check' = [check EXCEPT ![p] = "idle"]
    /\ UNCHANGED <<parent, candidate, child, draft, note, lock, request, fetch, said>>

-----------------------------------------------------------------------------
\* One cycle fetches the children that are processing, a few at a time; the
\* next begins when all are done.
GetProcessingChildren(p, l) ==
    child[p][l].state = "processing" /\ child[p][l].attempts < MaxAttempts

processQueuedChildren ==
    /\ \A p \in Parent, l \in Link : fetch[p][l] = "idle"
    /\ \E p \in Parent, l \in Link : GetProcessingChildren(p, l)
    /\ fetch' = [p \in Parent |-> [l \in Link |->
                   IF GetProcessingChildren(p, l) THEN "taken" ELSE "idle"]]
    /\ UNCHANGED <<parent, candidate, child, draft, note, lock, request, check, said>>

Turns(p, l, job) == fetch' = [fetch EXCEPT ![p][l] = job]

\* A page's text is stored and the child waits for its summary; a PDF is ready
\* at once.  A refusal of the budget leaves the child as it was.
UpdateContent(c) == [c EXCEPT !.state = IF @ = "failed" THEN "ready" ELSE @,
                              !.attempts = 0, !.text = TRUE]
processPDFChild(c) == [c EXCEPT !.state = "ready", !.text = TRUE]

Fetched(p, l) ==
    /\ fetch[p][l] = "taken"
    /\ \/ child' = [child EXCEPT ![p][l] = UpdateContent(@)]
       \/ child' = [child EXCEPT ![p][l] = processPDFChild(@)]
    /\ Turns(p, l, "idle")
    /\ UNCHANGED <<parent, candidate, draft, note, lock, request, check, said>>

NotAdmitted(p, l) ==
    /\ fetch[p][l] = "taken"
    /\ Turns(p, l, "idle")
    /\ UNCHANGED <<parent, candidate, child, draft, note, lock, request, check, said>>

\* A failure is counted in one statement and judged in the next.
IncrementRefetchAttempts(p, l) ==
    /\ fetch[p][l] = "taken"
    /\ child' = [child EXCEPT ![p][l].attempts = IF @ < MaxAttempts THEN @ + 1 ELSE @]
    /\ Turns(p, l, "failed")
    /\ UNCHANGED <<parent, candidate, draft, note, lock, request, check, said>>

MarkFailedAfterRetries(p, l) ==
    /\ fetch[p][l] = "failed"
    /\ IF child[p][l].attempts >= MaxAttempts
       THEN child' = [child EXCEPT ![p][l].state = "failed"]
       ELSE UNCHANGED child
    /\ Turns(p, l, "idle")
    /\ UNCHANGED <<parent, candidate, draft, note, lock, request, check, said>>

\* A summary of the stored text ends "processing".
UpdateSummary(p, l) ==
    /\ child[p][l].text /\ child[p][l].state = "processing"
    /\ child' = [child EXCEPT ![p][l].state = "ready"]
    /\ UNCHANGED <<parent, candidate, draft, note, lock, request, check, fetch, said>>

\* A restarted worker forgets what it was fetching.
Restart ==
    /\ check' = [p \in Parent |-> "idle"]
    /\ fetch' = [p \in Parent |-> [l \in Link |-> "idle"]]
    /\ fetch # fetch' \/ check # check'
    /\ UNCHANGED <<parent, candidate, child, draft, note, lock, request, said>>

Reader(p) ==
    \/ ConfirmLinkSetSuggestion(p) \/ Hide(p)
    \/ \E found \in SUBSET Link :
         GetCandidates(p, found) \/ DeleteCaptureDrafts(p, found) \/ Refetched(p, found)
    \/ \E l \in Link, n \in {<< >>} \cup {<<m>> : m \in Note} : UpdateCaptureNote(p, l, n)

Worker(p) ==
    \/ FindArticlesNeedingCheck(p) \/ Unchecked(p)
    \/ \E found \in SUBSET Link, enough \in BOOLEAN :
         detectLinkSetCandidates(p, found, enough) \/ detectLinkSetSuggestions(p, found, enough)
    \/ \E l \in Link : \/ Fetched(p, l) \/ NotAdmitted(p, l) \/ UpdateSummary(p, l)
                       \/ IncrementRefetchAttempts(p, l) \/ MarkFailedAfterRetries(p, l)

Next ==
    \/ \E r \in Request :
         \/ LockSource(r) \/ AddShortcutCaptureDraft(r) \/ EnableAndInsertLinkSetChildren(r)
         \/ \E l \in Link, n \in {<< >>} \cup {<<m>> : m \in Note}, h \in Parent \cup {Nobody} :
              CaptureFromShortcut(r, l, n, h)
         \/ \E p \in Parent, ls \in SUBSET Link \ {{}} : BeginBatchFetch(r, p, ls)
    \/ processQueuedChildren \/ Restart
    \/ \E p \in Parent : Reader(p) \/ Worker(p)

Spec == Init /\ [][Next]_vars

-----------------------------------------------------------------------------
\* A note the reader was told is saved stays readable until the reader clears
\* it: on the draft, which no child then hides, or on the child, whatever the
\* order of the shortcut, the confirmation and the worker's fetch.
NotesKept ==
    \A p \in Parent, l \in Link :
      /\ said[p][l] \subseteq Range(draft[p][l].note) \cup Range(note[p][l])
      /\ draft[p][l].on => ~Exists(p, l)
=============================================================================
