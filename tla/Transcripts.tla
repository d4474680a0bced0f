----------------------------- MODULE Transcripts -----------------------------
(* Texts for videos and recordings: the worker asks the sources in turn for a  *)
(* batch of articles a minute, a reader's request for a summary asks for one,  *)
(* and readers capture articles again meanwhile.                               *)
(* cmd/worker/main.go (backfillTranscripts), internal/transcript/*,            *)
(* internal/api/article.go, internal/repository/article.go.                    *)
EXTENDS Naturals, FiniteSets, FiniteSetsExt

CONSTANTS Article,        \* numbers, the newest the highest
          MediaOf,        \* what an article can be a recording of
          Limit, Defer,   \* articles a batch, minutes
          Poor,           \* articles whose owner can be out of budget
          MaxCapture

VARIABLES
    art,        \* the articles
    due,        \* whether a minute passed since the last batch
    batch,      \* what the worker read of the articles of its batch
    reader,     \* what a request read of its article
    english,    \* the connection to the service that makes reading texts
    decided     \* per article, whether a source its last attempt asked erred

vars == <<art, due, batch, reader, english, decided>>

Strategy == {"youtube", "bilibili", "ytdlp", "page", "english"}
Order == <<"youtube", "bilibili", "ytdlp", "page">>
Answer == [says : {"text", "nothing", "error"}, trouble : BOOLEAN]
Silence == [says |-> "nothing", trouble |-> FALSE]
Untried == [error |-> FALSE, trouble |-> FALSE]
Media == {"video/youtube", "video/bilibili", "audio"}
Unread == [body |-> 0, sections |-> 0, media |-> "none"]

TypeOK ==
    /\ \A a \in Article :
         /\ art[a].body \in 0 .. MaxCapture /\ art[a].sections \in 0 .. 2
         /\ art[a].media \in Media /\ art[a].fetched \in BOOLEAN /\ art[a].wait \in 0 .. Defer
    /\ due \in BOOLEAN /\ english \in {"yes", "no", "error"}
    /\ DOMAIN batch \subseteq Article /\ DOMAIN reader \subseteq Article
    /\ decided \in [Article -> [error : BOOLEAN, trouble : BOOLEAN]]

Init ==
    /\ art \in [Article -> {[body |-> 0, sections |-> 0, media |-> m, fetched |-> FALSE, wait |-> 0] :
                              m \in MediaOf}]
    /\ due = TRUE /\ batch = << >> /\ reader = << >> /\ english = "no"
    /\ decided = [a \in Article |-> Untried]

-----------------------------------------------------------------------------
\* Each source, by how its requests went.  Trouble is a request that failed or
\* an answer that could not be read.
Said(what, trouble) == [says |-> what, trouble |-> trouble]
Answers == {Said("text", FALSE), Said("nothing", FALSE), Said("error", TRUE)}

\* A watch page without the player's data, or captions that cannot be read,
\* count as no captions.
YouTubeCC == Answers \cup {Said("nothing", TRUE)}

\* So does an answer of the service that cannot be read.
BilibiliCC == Answers \cup {Said("nothing", TRUE)}

\* One run for each language; the first text ends it, and a failed run counts
\* when no later one has a text.
YTDLP == Answers \cup {Said("text", TRUE)}

\* The page itself, the subtitle files it links, and the page it announces:
\* only the first must be reachable.
HTMLPageScraper ==
    {IF ~page THEN Said("error", TRUE)
     ELSE IF inline THEN Said("text", FALSE)
     ELSE IF linked = "text" \/ next = "text" THEN Said("text", "error" \in {linked, next})
     ELSE Said("nothing", "error" \in {linked, next}) :
        page, inline \in BOOLEAN, linked, next \in {"none", "error", "text"}}

English == Answers

Applies(s, m) ==
    CASE s = "youtube" -> m = "video/youtube"
      [] s = "bilibili" -> m = "video/bilibili"
      [] s = "ytdlp" -> m \in {"video/youtube", "video/bilibili"}
      [] s = "page" -> TRUE
      [] s = "english" -> m = "video/youtube" /\ english = "yes"

Asked(s, m) ==
    IF ~Applies(s, m) THEN {Silence}
    ELSE CASE s = "youtube" -> YouTubeCC [] s = "bilibili" -> BilibiliCC [] s = "ytdlp" -> YTDLP
           [] s = "page" -> HTMLPageScraper [] s = "english" -> English

\* The first text wins; an error counts when there is none.
MultiFetcher(r) ==
    LET with(w) == {i \in DOMAIN Order : r[Order[i]].says = w} IN
    IF with("text") # {} THEN "text" ELSE IF with("error") # {} THEN "error" ELSE "nothing"

\* The connected service has the last word, whatever the others' errors.
EnglifeFallback(m, r) ==
    LET first == MultiFetcher(r) IN
    IF first = "text" \/ m # "video/youtube" THEN first
    ELSE IF english = "yes" /\ r["english"].says = "text" THEN "reading"
    ELSE IF english = "error" \/ "error" \in {first, r["english"].says} THEN "error"
    ELSE "nothing"

Results(m) ==
    [youtube : Asked("youtube", m), bilibili : Asked("bilibili", m), ytdlp : Asked("ytdlp", m),
     page : Asked("page", m), english : Asked("english", m)]

-----------------------------------------------------------------------------
Without(f, a) == [b \in DOMAIN f \ {a} |-> f[b]]
Read(a) == [body |-> art[a].body, sections |-> art[a].sections, media |-> art[a].media]

\* The newest that have not been tried and are not put off.
Due == {a \in Article : ~art[a].fetched /\ art[a].wait = 0}
GetMediaArticlesWithoutTranscript ==
    {a \in Due : Cardinality({b \in Due : b > a}) < Limit}

StartBatch ==
    /\ due /\ DOMAIN batch = {} /\ due' = FALSE
    /\ batch' = [a \in GetMediaArticlesWithoutTranscript |-> Read(a)]
    /\ UNCHANGED <<art, reader, english, decided>>

\* The body that was read, with the text behind it.
appendTranscriptToContent(a, was) ==
    [art[a] EXCEPT !.body = was.body, !.sections = was.sections + 1]
UpdateTranscriptContent(a, was) ==
    art' = [art EXCEPT ![a] = [appendTranscriptToContent(a, was) EXCEPT !.fetched = TRUE]]
DeferTranscriptRetry(a) == art' = [art EXCEPT ![a].wait = Defer]
MarkTranscriptFetchAttempted(a) == art' = [art EXCEPT ![a].fetched = TRUE]

backfillTranscripts(a) ==
    /\ a \in DOMAIN batch /\ batch' = Without(batch, a)
    /\ \E r \in Results(batch[a].media) :
         LET end == EnglifeFallback(batch[a].media, r) IN
         /\ decided' = [decided EXCEPT ![a] = [error |-> \E s \in Strategy : r[s].says = "error",
                                                trouble |-> \E s \in Strategy : r[s].trouble]]
         /\ \/ end = "error" /\ DeferTranscriptRetry(a)
            \/ end = "nothing" /\ MarkTranscriptFetchAttempted(a)
            \/ end \in {"text", "reading"} /\ UpdateTranscriptContent(a, batch[a])
    /\ UNCHANGED <<due, reader, english>>

\* No place in the owner's budget: the article is left as it is.
Refused(a) ==
    /\ a \in DOMAIN batch \cap Poor /\ batch' = Without(batch, a)
    /\ UNCHANGED <<art, due, reader, english, decided>>

-----------------------------------------------------------------------------
\* A summary is asked for of an article that has no text yet.
articleHasTranscript(a) == art[a].sections > 0
Summarize(a) ==
    /\ DOMAIN reader = {} /\ ~articleHasTranscript(a)
    /\ reader' = [b \in {a} |-> Read(a)]
    /\ UNCHANGED <<art, due, batch, english, decided>>

fetchTranscriptContentForSummary(a) ==
    /\ a \in DOMAIN reader /\ reader' = << >>
    /\ \E r \in Results(reader[a].media) :
         IF EnglifeFallback(reader[a].media, r) \in {"text", "reading"}
         THEN UpdateTranscriptContent(a, reader[a]) ELSE UNCHANGED art
    /\ UNCHANGED <<due, batch, english, decided>>

\* The page is captured again: its body and its recording replace the old ones.
Recapture(a, m) ==
    /\ art[a].body < MaxCapture
    /\ art' = [art EXCEPT ![a] = [art[a] EXCEPT !.body = @ + 1, !.sections = 0, !.media = m, !.fetched = FALSE]]
    /\ UNCHANGED <<due, batch, reader, english, decided>>

\* A service newly connected gets the videos nothing was found for.
Connect ==
    /\ english # "yes" /\ english' = "yes"
    /\ art' = [a \in Article |->
                 IF art[a].media = "video/youtube" /\ ~articleHasTranscript(a)
                 THEN [art[a] EXCEPT !.fetched = FALSE, !.wait = 0] ELSE art[a]]
    /\ UNCHANGED <<due, batch, reader, decided>>

Disconnect ==
    /\ english = "yes" /\ english' \in {"no", "error"}
    /\ UNCHANGED <<art, due, batch, reader, decided>>

Minute ==
    /\ due' = TRUE
    /\ art' = [a \in Article |-> [art[a] EXCEPT !.wait = IF @ = 0 THEN 0 ELSE @ - 1]]
    /\ ~due \/ \E a \in Article : art[a].wait > 0
    /\ UNCHANGED <<batch, reader, english, decided>>

Next ==
    \/ StartBatch \/ Connect \/ Disconnect \/ Minute
    \/ \E a \in Article : backfillTranscripts(a) \/ Refused(a) \/ Summarize(a)
                          \/ fetchTranscriptContentForSummary(a)
    \/ \E a \in Article, m \in MediaOf : Recapture(a, m)

Spec == Init /\ [][Next]_vars
FairSpec == /\ Spec /\ WF_vars(StartBatch) /\ WF_vars(Minute)
            /\ \A a \in Article : WF_vars(backfillTranscripts(a))

-----------------------------------------------------------------------------
\* An article is given up only when no source it asked ended on an error, in
\* whatever order errors, empty answers and the connection came; and no two
\* texts end up in one body when the worker and a reader fetch it together.
GivenUpOnAnswers ==
    \A a \in Article :
       /\ art[a].sections <= 1
       /\ art[a].fetched /\ ~articleHasTranscript(a) => ~decided[a].error

\* Only articles no source had trouble with are given up.
TroubleRetried ==
    \A a \in Article : art[a].fetched /\ ~articleHasTranscript(a) => ~decided[a].trouble

\* Putting articles off keeps the others' turn: each is tried some time.
EachHasTurn == \A a \in Article : (~art[a].fetched) ~> (art[a].fetched \/ a \in DOMAIN batch)
=============================================================================
