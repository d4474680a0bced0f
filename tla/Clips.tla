-------------------------------- MODULE Clips --------------------------------
(* What a browser sends to the reader's library: pages and PDFs clipped by *)
(* the bookmarklet, scanned PDFs that a loop of the worker reads by OCR,   *)
(* and batches of items from the extension.  internal/api/bookmarklet.go,  *)
(* bookmarklet_pdf.go, extension_ingest.go, cmd/worker/pdf_ocr.go,         *)
(* extension/normalizer, repository/article.go, feed.go.                   *)
(*                                                                         *)
(* One reader, with clips and the articles of a feed of his own, which a   *)
(* capture of the same URL finds as well.  A text is its length, in a few  *)
(* classes; article ids are positions, so that the oldest comes first.     *)
EXTENDS Naturals, Sequences, FiniteSets, FiniteSetsExt, SequencesExt

CONSTANTS
    Url, Request,
    MaxLen,         \* longest text
    MaxArticle,     \* articles the library holds
    Batch           \* scans one cycle reads (maxPDFOCRPerCycle)

ClipsAssumption == {MaxLen, MaxArticle, Batch} \subseteq Nat

VARIABLES
    feeds,          \* the reader's own feeds: "clip", "extension"
    article,        \* rows: url, clip, state, text, images, summary, read
    stored,         \* articles whose page images are on disk
    request,        \* capture requests, each a transaction
    ocr,            \* scans the running cycle has still to read, oldest first
    told            \* items the extension was told are accepted

vars == <<feeds, article, stored, request, ocr, told>>

Id == 1..MaxArticle
Len0 == 0..MaxLen
Row == [url : Url, clip : BOOLEAN, state : {"ready", "processing", "failed"},
        text : Len0, images : 0..1, summary : BOOLEAN,
        read : BOOLEAN]     \* its content was written, though it may be empty
Free == [at |-> "free", todo |-> << >>, len |-> 0, images |-> 0, keep |-> FALSE,
         found |-> 0, made |-> {}, aborted |-> FALSE]
Mode == {"ask", "force", "new", "skip"}

TypeOK ==
    /\ feeds \subseteq {"clip", "extension"}
    /\ Len(article) <= MaxArticle /\ \A a \in DOMAIN article : article[a] \in Row
    /\ stored \subseteq DOMAIN article
    /\ \A r \in Request :
         /\ request[r].at \in {"free", "page", "pdf", "scan", "find", "create"}
         /\ request[r].found \in 0..Len(article) /\ request[r].made \subseteq Url
    /\ \A i \in DOMAIN ocr : ocr[i] \in DOMAIN article
    /\ told \subseteq Url

Init ==
    /\ feeds = {} /\ article = << >> /\ stored = {} /\ ocr = << >> /\ told = {}
    /\ request = [r \in Request |-> Free]

Becomes(r, q) == request' = [request EXCEPT ![r] = q]

\* The newest article of the reader with this URL, whatever its feed.
FindByOwnerAndURL(u) ==
    Max({0} \cup {a \in DOMAIN article : article[a].url = u})

Add(rows) == article' = article \o rows

-----------------------------------------------------------------------------
\* The reader is asked when the new text has fewer images, or is not half as
\* long again as the old one.
shouldPromptDuplicate(old, len, images) ==
    /\ old.text # 0
    /\ images < old.images \/ 2 * len < 3 * old.text

\* A page is extracted, and the article it may refresh is read.
Capture(r, u, len, images, mode) ==
    LET a == IF mode = "new" THEN 0 ELSE FindByOwnerAndURL(u) IN
    /\ request[r] = Free /\ len > 0
    /\ Becomes(r, [Free EXCEPT !.at = "page", !.todo = <<u>>, !.len = len,
                               !.images = images, !.found = a,
                               !.keep = /\ a # 0 /\ mode # "force"
                                        /\ \/ mode = "skip"
                                           \/ shouldPromptDuplicate(article[a], len, images)])
    /\ UNCHANGED <<feeds, article, stored, ocr, told>>

\* UpdateContent lifts "failed", and clearing the summary lifts "processing".
Refreshed(row, len, images) ==
    [row EXCEPT !.text = len, !.images = images, !.state = "ready",
                !.summary = FALSE, !.read = TRUE]

NewRow(u, len, images, state, clip) ==
    [url |-> u, clip |-> clip, state |-> state, text |-> len, images |-> images,
     summary |-> FALSE, read |-> state = "ready"]

\* Another request may create the clip feed meanwhile; the unique index then
\* fails this one.
GetOrCreateFeed(kind) == feeds' = feeds \cup {kind}

FinishCapture(r) ==
    LET q == request[r] IN
    /\ q.at = "page"
    /\ \/ /\ q.found # 0
          /\ IF q.keep THEN UNCHANGED article
             ELSE article' = [article EXCEPT ![q.found] = Refreshed(@, q.len, q.images)]
          /\ UNCHANGED feeds
       \/ /\ q.found = 0 /\ Len(article) < MaxArticle
          /\ Add(<<NewRow(q.todo[1], q.len, q.images, "ready", TRUE)>>)
          /\ GetOrCreateFeed("clip")
       \/ UNCHANGED <<article, feeds>>                 \* rolled back
    /\ Becomes(r, Free)
    /\ UNCHANGED <<stored, ocr, told>>

-----------------------------------------------------------------------------
\* A PDF is uploaded or fetched.  Without a text layer it is a scan.
CapturePDF(r, u, len) ==
    /\ request[r] = Free
    /\ Becomes(r, [Free EXCEPT !.at = IF len = 0 THEN "scan" ELSE "pdf", !.todo = <<u>>,
                               !.len = len, !.found = FindByOwnerAndURL(u)])
    /\ UNCHANGED <<feeds, article, stored, ocr, told>>

\* What is found may be an article of a feed.  The page images are written once
\* the transaction has committed.
stagePDFImages(a) == stored' = stored \cup {a}

processPDFCapture(r) ==
    LET q == request[r]
        stub == NewRow(q.todo[1], 0, 0, "processing", TRUE)
        full == NewRow(q.todo[1], q.len, 0, "ready", TRUE)
    IN  /\ q.at \in {"pdf", "scan"}
        /\ \/ /\ q.found # 0
              /\ IF q.at = "scan"
                 THEN /\ article' = [article EXCEPT ![q.found].state = "processing"]
                      /\ UNCHANGED stored
                 ELSE /\ article' = [article EXCEPT ![q.found] =
                                       [@ EXCEPT !.text = q.len, !.state = "ready",
                                                 !.summary = FALSE, !.read = TRUE]]
                      /\ stagePDFImages(q.found)
              /\ GetOrCreateFeed("clip")
           \/ /\ q.found = 0 /\ Len(article) < MaxArticle
              /\ Add(<<IF q.at = "scan" THEN stub ELSE full>>)
              /\ stagePDFImages(Len(article) + 1)
              /\ GetOrCreateFeed("clip")
           \/ UNCHANGED <<article, feeds, stored>>     \* rolled back
        /\ Becomes(r, Free)
        /\ UNCHANGED <<ocr, told>>

-----------------------------------------------------------------------------
\* What the loop lists: clips only.
Pending == {a \in DOMAIN article : article[a].clip /\ article[a].state = "processing"}

Oldest(S, n) == SubSeq(SetToSortSeq(S, <), 1, Min({n, Cardinality(S)}))

\* One cycle at a time takes the oldest scans ...
GetPDFOCRPending ==
    /\ ocr = << >> /\ Pending # {}
    /\ ocr' = Oldest(Pending, Batch)
    /\ UNCHANGED <<feeds, article, stored, request, told>>

\* ... and reads them one by one.  The budget may refuse; a page that cannot
\* be fetched or read fails the article; a failed write leaves it for the next
\* cycle.  Every write is made by id, whatever became of the article.  The text
\* of blank pages is empty.
NotRead ==
    /\ ocr # << >>
    /\ ocr' = Tail(ocr)
    /\ UNCHANGED <<feeds, article, stored, request, told>>

LeavePDF ==
    /\ ocr # << >> /\ ocr' = Tail(ocr)
    /\ UNCHANGED <<feeds, article, stored, request, told>>
MarkPDFFailed ==
    /\ ocr # << >>
    /\ article' = [article EXCEPT ![Head(ocr)].state = "failed"]
    /\ ocr' = Tail(ocr)
    /\ UNCHANGED <<feeds, stored, request, told>>

runOnePDFOCR(len) ==
    /\ ocr # << >>
    /\ article' = [article EXCEPT ![Head(ocr)] =
                     [@ EXCEPT !.text = len, !.state = "ready", !.summary = FALSE,
                               !.read = TRUE]]
    /\ stored' = stored \cup {Head(ocr)}
    /\ ocr' = Tail(ocr)
    /\ UNCHANGED <<feeds, request, told>>

UpdateSummaryAny(a) ==
    /\ article' = [article EXCEPT ![a].summary = TRUE,
                     ![a].state = IF @ = "processing" THEN "ready" ELSE @]
    /\ UNCHANGED <<feeds, stored, request, ocr, told>>
\* A summary of an article with a text, by the worker or asked for, lifts
\* "processing" too.
UpdateSummary(a) ==
    /\ article[a].text > 0
    /\ article' = [article EXCEPT ![a].summary = TRUE,
                     ![a].state = IF @ = "processing" THEN "ready" ELSE @]
    /\ UNCHANGED <<feeds, stored, request, ocr, told>>

Restart ==
    /\ ocr # << >> /\ ocr' = << >>
    /\ UNCHANGED <<feeds, article, stored, request, told>>

-----------------------------------------------------------------------------
\* A new item of a feed of the reader's, whose text may be empty.  One that the
\* feed has already is left out.
CreateSubscriptionArticle(u, len) ==
    /\ Len(article) < MaxArticle
    /\ \A a \in DOMAIN article : article[a].url = u => article[a].clip
    /\ Add(<<NewRow(u, len, 0, "ready", FALSE)>>)
    /\ UNCHANGED <<feeds, stored, request, ocr, told>>

\* The extension sends a batch.  Each item is looked up, then inserted in the
\* transaction of the request; an item that fails is noted and the loop goes
\* on, in a transaction the database has by then aborted.
Ingest(r, items) ==
    /\ request[r] = Free /\ items # << >>
    /\ Becomes(r, [Free EXCEPT !.at = "find", !.todo = items])
    /\ GetOrCreateFeed("extension")
    /\ UNCHANGED <<article, stored, ocr, told>>

Found(q, u) == ~q.aborted /\ (FindByOwnerAndURL(u) # 0 \/ u \in q.made)

IngestFind(r) ==
    LET q == request[r] IN
    /\ q.at = "find" /\ q.todo # << >>
    /\ Becomes(r, IF Found(q, Head(q.todo)) THEN [q EXCEPT !.todo = Tail(@)]
                  ELSE [q EXCEPT !.at = "create"])
    /\ UNCHANGED <<feeds, article, stored, ocr, told>>

\* Any insert may fail: a title too long, a byte that the database refuses.
IngestCreate(r) ==
    LET q == request[r] IN
    /\ q.at = "create"
    /\ \/ ~q.aborted /\ Becomes(r, [q EXCEPT !.at = "find", !.todo = Tail(@),
                                             !.made = @ \cup {Head(q.todo)}])
       \/ Becomes(r, [q EXCEPT !.at = "find", !.todo = Tail(@), !.aborted = TRUE])
    /\ UNCHANGED <<feeds, article, stored, ocr, told>>

\* The answer counts what was inserted; then the middleware commits.  What the
\* extension sends are clips, so that no index keeps two batches apart.
IngestEnd(r) ==
    LET q == request[r]
        rows == SetToSeqs(q.made)
    IN  /\ q.at = "find" /\ q.todo = << >>
        /\ Len(article) + Cardinality(q.made) <= MaxArticle
        /\ told' = told \cup q.made
        /\ IF q.aborted THEN UNCHANGED article
           ELSE \E s \in rows, len \in Len0 :
                  Add([i \in DOMAIN s |-> NewRow(s[i], len, 0, "ready", TRUE)])
        /\ Becomes(r, Free)
        /\ UNCHANGED <<feeds, stored, ocr>>

Batches == {<<u>> : u \in Url} \cup {<<u, v>> : u \in Url, v \in Url}

Next ==
    \/ \E r \in Request :
         \/ FinishCapture(r) \/ processPDFCapture(r)
         \/ IngestFind(r) \/ IngestCreate(r) \/ IngestEnd(r)
         \/ \E items \in Batches : Ingest(r, items)
         \/ \E u \in Url, len \in Len0 :
              \/ CapturePDF(r, u, len)
              \/ \E i \in 0..1, mode \in Mode : Capture(r, u, len, i, mode)
    \/ GetPDFOCRPending \/ NotRead \/ MarkPDFFailed \/ Restart
    \/ \E len \in Len0 : runOnePDFOCR(len)
    \/ \E a \in DOMAIN article : UpdateSummary(a)
    \/ \E u \in Url, len \in Len0 : CreateSubscriptionArticle(u, len)

Spec == Init /\ [][Next]_vars

\* The loop runs every minute, and the budget and the database do not refuse
\* an article's owner for ever.
Attempt(a) ==
    /\ ocr # << >> /\ Head(ocr) = a
    /\ MarkPDFFailed \/ \E len \in Len0 : runOnePDFOCR(len)

Read == NotRead \/ MarkPDFFailed \/ \E len \in Len0 : runOnePDFOCR(len)
Fairness ==
    /\ WF_vars(GetPDFOCRPending)
    /\ WF_vars(Read)
    /\ \A a \in Id : SF_vars(Attempt(a))

FairSpec == Spec /\ Fairness

-----------------------------------------------------------------------------
\* A scan that nobody has read is never shown as ready, whatever the order of
\* captures, summaries, failures and OCR, all of which write the row by its id:
\* a ready row without a text is a blank one.
ReadBeforeReady ==
    \A a \in DOMAIN article : article[a].state = "ready" => article[a].read

\* A clip that is a scan does not stay "processing": it is read or fails,
\* although a cycle takes a few and the oldest go first (GetPDFOCRPending), once
\* the reader has stopped sending the older ones again.
NoScans == \A r \in Request : request[r].at # "scan"
ClipScanDecided == <>[]NoScans => \A a \in Id : []<>(a \notin Pending)

\* What is sent again is put back into "processing" "so the worker's
\* GetPDFOCRPending picks it up" (bookmarklet_pdf.go): the loop lists it.
RescanListed ==
    \A a \in DOMAIN article : article[a].state = "processing" => a \in Pending

\* What is shown as ready has a text.
ReadyHasText ==
    \A a \in DOMAIN article : article[a].state = "ready" => article[a].text > 0

\* What the answer counts as accepted is stored ("newly created articles").
AcceptedStored == \A u \in told : FindByOwnerAndURL(u) # 0
=============================================================================
