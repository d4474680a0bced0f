------------------------------ MODULE MCContent ------------------------------
(* Small instances of the parts that fetch, capture and show content, checked  *)
(* together: a behaviour is one of a single part, as in MCReaders.             *)
EXTENDS Naturals

CONSTANT Parts      \* the parts a run checks

VARIABLES
    part,           \* the part this behaviour is of
    s1, s2, s3, s4, s5, s6, s7, s8, s9, s10

vars == <<part, s1, s2, s3, s4, s5, s6, s7, s8, s9, s10>>

\* The slots a part leaves out keep one value.
Spare10 == s10 = 0
Spare9 == s9 = 0 /\ Spare10
Spare8 == s8 = 0 /\ Spare9
Spare7 == s7 = 0 /\ Spare8
Spare6 == s6 = 0 /\ Spare7
Spare5 == s5 = 0 /\ Spare6
Spare4 == s4 = 0 /\ Spare5
Keep4 == UNCHANGED <<s4, s5, s6, s7, s8, s9, s10>>
Keep5 == UNCHANGED <<s5, s6, s7, s8, s9, s10>>
Keep6 == UNCHANGED <<s6, s7, s8, s9, s10>>
Keep7 == UNCHANGED <<s7, s8, s9, s10>>
Keep9 == UNCHANGED <<s9, s10>>
Keep10 == UNCHANGED <<s10>>

FD == INSTANCE Feeds WITH
    site <- s1, feed <- s2, article <- s3, work <- s4, restarts <- s5,
    Feed <- {"f"}, OwnerOf <- [f \in {"f"} |-> "o"], Html <- {},
    MaxVersion <- 2, Window <- 2, Batch <- 1, GlobalLimit <- 1,
    OwnerLimit <- 1, Interval <- 1, Soon <- 1, Base <- 1, MaxWait <- 1,
    MaxFailures <- 1, MaxRestarts <- 1
FH == INSTANCE Feeds WITH
    site <- s1, feed <- s2, article <- s3, work <- s4, restarts <- s5,
    Feed <- {"f"}, OwnerOf <- [f \in {"f"} |-> "o"], Html <- {"f"},
    MaxVersion <- 1, Window <- 2, Batch <- 1, GlobalLimit <- 1,
    OwnerLimit <- 1, Interval <- 1, Soon <- 1, Base <- 1, MaxWait <- 1,
    MaxFailures <- 1, MaxRestarts <- 1
FP == INSTANCE FeedPreview WITH
    page <- s1, probe <- s2, channel <- s3, discovered <- s4, at <- s5,
    answer <- s6,
    Probe <- {"/feed", "/rss"}, Link <- {"a", "b", "c"},
    Acceptable <- {"b", "c"}, Matches <- << <<"a">>, <<"b", "a", "c">> >>,
    Cap <- 2, Enough <- 1, Structured <- {}, Few <- 1
FS == INSTANCE FeedPreview WITH
    page <- s1, probe <- s2, channel <- s3, discovered <- s4, at <- s5,
    answer <- s6,
    Probe <- {"/feed", "/rss"}, Link <- {"a", "b", "c"},
    Acceptable <- {"b", "c"}, Matches <- << <<"a">>, <<"b", "a", "c">> >>,
    Cap <- 2, Enough <- 1, Structured <- {"a", "c"}, Few <- 1
LS == INSTANCE LinkSets WITH
    parent <- s1, candidate <- s2, child <- s3, draft <- s4, note <- s5,
    lock <- s6, request <- s7, check <- s8, fetch <- s9, said <- s10,
    Parent <- {"p"}, Link <- {"l"}, Note <- {"n", "m"},
    Request <- {"r1", "r2"}, Nobody <- "nobody", MaxAttempts <- 1,
    NoteLimit <- 2
CL == INSTANCE Clips WITH
    feeds <- s1, article <- s2, stored <- s3, request <- s4, ocr <- s5,
    told <- s6,
    Url <- {"u"}, Request <- {"r1"}, MaxLen <- 2, MaxArticle <- 2, Batch <- 1
ER == INSTANCE ExploreReader WITH
    now <- s1, source <- s2, article <- s3, batch <- s4, feeds <- s5,
    feedback <- s6, state <- s7, events <- s8, request <- s9, changes <- s10,
    Source <- {"s1", "s2"}, Topic <- {"t1"}, Request <- {"r1", "r2"},
    SourceOf <- <<"s1", "s2">>, UrlOf <- <<"u1", "u1">>,
    TopicOf <- [s \in {"s1", "s2"} |-> "t1"],
    HealthOf <- [s \in {"s1", "s2"} |-> IF s = "s1" THEN 2 ELSE 1],
    ColdMax <- 1, PerSource <- 1, Keep <- 1, Few <- 0, Window <- 1,
    MaxTime <- 2, MaxBatch <- 1, MaxChange <- 1
EC == INSTANCE ExploreCopies WITH
    row <- s1, cache <- s2, reader <- s3, sub <- s4, copy <- s5,
    summary <- s6, refreshes <- s7, reads <- s8,
    Url <- {"u1", "u2"}, Reader <- {"r1", "r2"}, Nobody <- "nobody",
    MaxLen <- 2, MaxRefresh <- 1, MaxRead <- 1
RY == INSTANCE Registry WITH
    now <- s1, doc <- s2, provider <- s3, source <- s4, seen <- s5,
    work <- s6, shown <- s7, overlapped <- s8,
    Provider <- {"d"}, Related <- {}, Trusted <- {"d"},
    Entry <- {"a", "b"}, UrlOf <- [e \in {"a", "b"} |-> e],
    Doc <- << {"a", "b"}, {"b"} >>, Worker <- {"w1", "w2"}, Interval <- 1,
    Fresh <- 1, Listed <- 2, MaxTime <- 4, MaxSource <- 2
RS == INSTANCE Registry WITH
    now <- s1, doc <- s2, provider <- s3, source <- s4, seen <- s5,
    work <- s6, shown <- s7, overlapped <- s8,
    Provider <- {"d", "r"}, Related <- {"r"}, Trusted <- {"d"},
    Entry <- {"a", "b"}, UrlOf <- [e \in {"a", "b"} |-> e],
    Doc <- << {"a", "b"}, {"b"} >>, Worker <- {"w1"}, Interval <- 1,
    Fresh <- 1, Listed <- 2, MaxTime <- 4, MaxSource <- 2
RL == INSTANCE RelatedSeeds WITH
    rows <- s1, window <- s2, visited <- s3,
    Owners <- 3, Row <- {"a", "A", "b", "x"},
    Canonical <- [r \in {"a", "A", "b", "x"} |-> CASE r = "x" -> "" [] r = "b" -> "b" [] OTHER -> "a"],
    PerOwner <- 2, Limit <- 2
AR == INSTANCE AddressRace WITH
    req <- s1, att <- s2, secondary <- s3,
    Request <- {"r1"}, Images <- {TRUE, FALSE},
    Outcome <- {"won", "response", "transient", "other"}, Addresses <- 2,
    Lanes <- 1, Slots <- 2
AI == INSTANCE AddressRace WITH
    req <- s1, att <- s2, secondary <- s3,
    Request <- {"r1", "r2"}, Images <- {TRUE}, Outcome <- {"transient"},
    Addresses <- 2, Lanes <- 2, Slots <- 3
IC == INSTANCE ImageCache WITH
    images <- s1, dir <- s2, file <- s3, tmp <- s4, run <- s5, sweep <- s6,
    edits <- s7, crashes <- s8,
    Url <- {"u", "v", "l"}, Local <- {"l"}, Place <- {1, 2}, TTL <- 1,
    MaxEdits <- 1, MaxCrashes <- 1

-----------------------------------------------------------------------------
Init ==
    /\ part \in Parts
    /\ \/ part = "feeds" /\ FD!Init /\ Spare6
       \/ part = "page feed" /\ FH!Init /\ Spare6
       \/ part = "preview" /\ FP!Init /\ Spare7
       \/ part = "structured page" /\ FS!Init /\ Spare7
       \/ part = "link sets" /\ LS!Init
       \/ part = "clips" /\ CL!Init /\ Spare7
       \/ part = "explore reader" /\ ER!Init
       \/ part = "explore copies" /\ EC!Init /\ Spare9
       \/ part = "registry" /\ RY!Init /\ Spare9
       \/ part = "related sites" /\ RS!Init /\ Spare9
       \/ part = "seeds" /\ RL!Init /\ Spare4
       \/ part = "addresses" /\ AR!Init /\ Spare4
       \/ part = "image lanes" /\ AI!Init /\ Spare4
       \/ part = "image cache" /\ IC!Init /\ Spare9

Next ==
    /\ UNCHANGED part
    /\ \/ part = "feeds" /\ FD!Next /\ Keep6
       \/ part = "page feed" /\ FH!Next /\ Keep6
       \/ part = "preview" /\ FP!Next /\ Keep7
       \/ part = "structured page" /\ FS!Next /\ Keep7
       \/ part = "link sets" /\ LS!Next
       \/ part = "clips" /\ CL!Next /\ Keep7
       \/ part = "explore reader" /\ ER!Next
       \/ part = "explore copies" /\ EC!Next /\ Keep9
       \/ part = "registry" /\ RY!Next /\ Keep9
       \/ part = "related sites" /\ RS!Next /\ Keep9
       \/ part = "seeds" /\ RL!Next /\ Keep4
       \/ part = "addresses" /\ AR!Next /\ Keep4
       \/ part = "image lanes" /\ AI!Next /\ Keep4
       \/ part = "image cache" /\ IC!Next /\ Keep9

Spec == Init /\ [][Next]_vars

-----------------------------------------------------------------------------
TypeOK ==
    /\ part \in Parts
    /\ LS!LinkSetsAssumption /\ CL!ClipsAssumption /\ ER!ExploreReaderAssumption
    /\ RY!RegistryAssumption /\ RS!RegistryAssumption
    /\ AR!AddressRaceAssumption /\ AI!AddressRaceAssumption
    /\ part = "feeds" => FD!TypeOK
    /\ part = "page feed" => FH!TypeOK
    /\ part = "preview" => FP!TypeOK
    /\ part = "structured page" => FS!TypeOK
    /\ part = "link sets" => LS!TypeOK
    /\ part = "clips" => CL!TypeOK
    /\ part = "explore reader" => ER!TypeOK
    /\ part = "explore copies" => EC!TypeOK
    /\ part = "registry" => RY!TypeOK
    /\ part = "related sites" => RS!TypeOK
    /\ part = "seeds" => RL!TypeOK
    /\ part = "addresses" => AR!TypeOK
    /\ part = "image lanes" => AI!TypeOK
    /\ part = "image cache" => IC!TypeOK

(* A validator is kept only for a document whose items are all stored, through *)
(* a worker and a request that fetch a feed at once, full batches and restarts *)
(* (cmd/worker/main.go, repository/feed.go); the two columns that say whether  *)
(* a feed is fetched agree; and a preview that offers nothing has overlooked   *)
(* nothing (rss/fetcher.go).                                                   *)
FeedsKept ==
    /\ part = "feeds" => FD!NothingMissed /\ FD!StatusMirrored
    /\ part = "page feed" => FH!NothingMissed /\ FH!StatusMirrored
    /\ part = "preview" => FP!NothingOverlooked
    /\ part = "structured page" => FS!NothingOverlooked

(* A note on a link survives the candidate's transfer, the second request and  *)
(* the worker (link_set.go), and a scan that nobody has read is not shown as   *)
(* ready, whatever wrote its row (bookmarklet_pdf.go, pdf_ocr.go, article.go). *)
CapturesKept ==
    /\ part = "link sets" => LS!NotesKept
    /\ part = "clips" => CL!ReadBeforeReady

(* A saved article outlives the retention and a batch's replacement, an        *)
(* exposure is counted once an interval, and what a page shows can be acted on *)
(* (repository/explore.go, explore_article_state.go, api/explore.go).          *)
ExploreKept ==
    part = "explore reader" => ER!SavedHasCopy /\ ER!ExposureSpaced /\ ER!ShownActionable

(* The original kept under a URL is that URL's and its summary is of that text *)
(* (article_content.go, content_repair.go); a source's evidence is no younger  *)
(* than the last time its entry was shown, a synchronization that another,     *)
(* begun later, has overtaken writes nothing, and every subscriber's newest    *)
(* site gets its turn as a seed (explore_registry.go).                         *)
SourcesKept ==
    /\ [](/\ part = "explore copies" => EC!BodyOfUrl /\ EC!SummaryOfBody
          /\ part = "registry" => RY!EvidenceWasShown
          /\ part = "related sites" => RS!EvidenceWasShown
          /\ part = "seeds" => RL!EveryOwnerReached)
    /\ [][/\ part = "registry" => RY!NoStaleWriteStep
          /\ part = "related sites" => RS!NoStaleWriteStep]_vars

(* First attempts always find a connection, a lane has one holder at most, a   *)
(* request fails only for a reason (httpx/image_scheduler.go); and a crash or  *)
(* a sweep never leaves a half image (imagefetch.go).                          *)
NetworkKept ==
    /\ part = "addresses" => AR!RaceFair
    /\ part = "image lanes" => AI!RaceFair
    /\ part = "image cache" => IC!FilesWhole

(* "paths[i] is the on-disk JPEG for the URL gotURLs[i]"                       *)
(* (imagefetch/imagefetch.go): a picture that is handed over is that of the    *)
(* URL it is handed over with.                                                 *)
ImageOfUrl == part = "image cache" => IC!ImageOfUrl

(* "so the worker's GetPDFOCRPending picks it up" (bookmarklet_pdf.go): what a *)
(* reader sends again and is put back into "processing" is on the loop's list. *)
RescanListed == part = "clips" => CL!RescanListed
=============================================================================
