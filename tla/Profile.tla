-------------------------------- MODULE Profile --------------------------------
(* What a reader's signals and the model's classification of the articles make *)
(* of the reader's interests and tags.  A signal is one request transaction:   *)
(* it inserts the signal, reads the classification cached for the article and  *)
(* credits it; the worker classifies the articles without a category, caches   *)
(* the answer, credits it to the readers whose signals it sees, and binds the  *)
(* proposed tags.  cmd/worker/classify.go, internal/api/{preference,user_tag,  *)
(* signalweight}.go, internal/repository/{preference,user_tag}.go,             *)
(* internal/service/autotag_service.go, internal/autotag.                      *)
EXTENDS Naturals, FiniteSets, Functions

CONSTANTS User, Article, Request, Name,
          Kind,              \* the signals given: "save", "like", "dislike", "read", "glance"
          Answer,            \* what the model says: [topic, tags, category], None for nothing valid
          None,
          Similar,           \* pairs of names autotag takes for the same, each with itself
          Generic,           \* names autotag never binds
          MaxSignals, MaxTags, MaxPasses

ProfileAssumption == {MaxSignals, MaxTags, MaxPasses} \subseteq Nat

VARIABLES class,     \* articles.topic, tags, category
          signal,    \* user_preferences
          weight,    \* interest_topics, interest_tags, interest_categories
          tag,       \* user_tags
          bound,     \* article_user_tags
          dismissed, \* tag_suggestion_dismissals
          req,       \* requests that give a signal
          work,      \* the classification pass
          passes,
          ever       \* history: the readers who gave an article a strong signal

vars == <<class, signal, weight, tag, bound, dismissed, req, work, passes, ever>>
tags == <<tag, bound, dismissed>>

Unclassified == [topic |-> None, tags |-> {}, category |-> None]
Asleep == [at |-> "idle", article |-> None, answer |-> Unclassified, users |-> << >>, names |-> {}, user |-> None]
Idle == [at |-> "idle", user |-> None, article |-> None, kind |-> "none", credit |-> {}]

(* The signal strengths, in quarters; a tag gets half of what a topic gets.    *)
Strength == [k \in Kind |-> CASE k = "save" -> 8 [] k = "like" -> 4 [] k = "read" -> 2 [] OTHER -> 0]
Dampen == 2
Share(i, strength) == IF i[1] = "tag" THEN strength \div 2 ELSE strength
Topics(c) == (IF c.topic = None THEN {} ELSE {<<"topic", c.topic>>}) \cup {<<"tag", t>> : t \in c.tags}
Interests(c) == Topics(c) \cup (IF c.category = None THEN {} ELSE {<<"category", c.category>>})

TypeOK ==
    /\ class \in [Article -> Answer \cup {Unclassified}]
    /\ signal \subseteq User \X Article \X Kind
    /\ \A u \in User : DOMAIN weight[u] \subseteq UNION {Interests(c) : c \in Answer}
    /\ \A u \in User : \A i \in DOMAIN weight[u] : weight[u][i] \in Nat
    /\ \A t \in tag : t.id \in 1 .. MaxTags /\ t.user \in User /\ t.name \in Name
    /\ bound \subseteq Article \X (1 .. MaxTags) /\ dismissed \subseteq User \X Article \X Name
    /\ \A r \in Request : req[r].at \in {"idle", "added", "applied", "done"}
    /\ work.at \in {"idle", "asked", "cached", "crediting", "binding"} /\ work.names \subseteq Name
    /\ passes \in 0 .. MaxPasses /\ ever \subseteq User \X Article

Init ==
    /\ class = [a \in Article |-> Unclassified] /\ signal = {} /\ weight = [u \in User |-> << >>]
    /\ tag = {} /\ bound = {} /\ dismissed = {} /\ ever = {} /\ passes = 0
    /\ req = [r \in Request |-> Idle] /\ work = Asleep

-----------------------------------------------------------------------------
(* The three interest tables. *)
Raised(w, credit) ==      \* UpsertTopic, UpsertCategory, UpsertTag; credit: pairs of interest and amount
    [i \in DOMAIN w \cup {x[1] : x \in credit} |->
        (IF i \in DOMAIN w THEN w[i] ELSE 0) + (IF \E x \in credit : x[1] = i
                                                THEN (CHOOSE x \in credit : x[1] = i)[2] ELSE 0)]
Lowered(w, cut) ==        \* DampenTopic, DampenTag: a row there is, and never below 0
    [i \in DOMAIN w |-> IF \E x \in cut : x[1] = i
                        THEN LET n == (CHOOSE x \in cut : x[1] = i)[2] IN IF w[i] < n THEN 0 ELSE w[i] - n
                        ELSE w[i]]

(* Only topics and tags fade, and the ones already near nothing do not.        *)
DecayAll ==
    /\ weight' = [u \in User |-> [i \in DOMAIN weight[u] |->
                     IF i[1] # "category" THEN (weight[u][i] * 98) \div 100 ELSE weight[u][i]]]
    /\ weight' # weight
    /\ UNCHANGED <<class, signal, tags, req, work, passes, ever>>
Forget(u, i) ==           \* DeleteTopic, DeleteTag
    /\ i \in DOMAIN weight[u] /\ i[1] # "category"
    /\ weight' = [weight EXCEPT ![u] = Restrict(@, DOMAIN @ \ {i})]
    /\ UNCHANGED <<class, signal, tags, req, work, passes, ever>>

-----------------------------------------------------------------------------
(* A signal: the row, the cached classification and the credits commit as one. *)
Step(r, q) == req' = [req EXCEPT ![r] = q]
Uncommitted(r) == IF req[r].at \in {"added", "applied"} THEN {<<req[r].user, req[r].article, req[r].kind>>} ELSE {}

Add(r, u, a, k) ==
    /\ req[r].at = "idle" /\ Cardinality({s \in Request : req[s].at # "idle"}) < MaxSignals
    /\ Step(r, [Idle EXCEPT !.at = "added", !.user = u, !.article = a, !.kind = k])
    /\ UNCHANGED <<class, signal, weight, tags, work, passes, ever>>

(* applyCachedClassification, dampenCachedClassification: nothing when no      *)
(* topic is cached or the signal is weak; each statement may fail by itself.   *)
Apply(r) ==
    LET q == req[r]  c == class[q.article]
        amount == IF q.kind = "dislike" THEN Dampen ELSE Strength[q.kind]
    IN  /\ q.at = "added"
        /\ \E done \in (IF c.topic = None \/ amount = 0 THEN {{}} ELSE SUBSET Topics(c)) :
             Step(r, [q EXCEPT !.at = "applied", !.credit = {<<i, Share(i, amount)>> : i \in done}])
        /\ UNCHANGED <<class, signal, weight, tags, work, passes, ever>>
Commit(r) ==
    LET q == req[r] IN
    /\ q.at = "applied" /\ Step(r, [Idle EXCEPT !.at = "done"])
    /\ signal' = signal \cup Uncommitted(r)
    /\ weight' = [weight EXCEPT ![q.user] = IF q.kind = "dislike" THEN Lowered(@, q.credit)
                                            ELSE Raised(@, q.credit)]
    /\ ever' = IF Strength[q.kind] > 0 THEN ever \cup {<<q.user, q.article>>} ELSE ever
    /\ UNCHANGED <<class, tags, work, passes>>
Unsave(u, a) ==
    /\ <<u, a, "save">> \in signal /\ signal' = signal \ {<<u, a, "save">>}
    /\ UNCHANGED <<class, weight, tags, req, work, passes, ever>>

-----------------------------------------------------------------------------
(* The worker. *)
Rest == UNCHANGED <<signal, req, passes, ever>>
FindArticlesNeedingClassification == {a \in Article : class[a].category = None}
ClassifyArticle(a) ==
    /\ work.at = "idle" /\ passes < MaxPasses /\ a \in FindArticlesNeedingClassification
    /\ \E c \in Answer : work' = [Asleep EXCEPT !.at = "asked", !.article = a, !.answer = c]
    /\ passes' = passes + 1 /\ UNCHANGED <<class, signal, weight, tags, req, ever>>
SetClassification ==
    /\ work.at = "asked" /\ class' = [class EXCEPT ![work.article] = work.answer]
    /\ work' = [work EXCEPT !.at = "cached"] /\ UNCHANGED <<weight, tags>> /\ Rest
StrengthOf(u, a) ==
    LET s == {Strength[x[3]] : x \in {y \in signal : y[1] = u /\ y[2] = a}}
    IN  IF s = {} THEN 0 ELSE CHOOSE n \in s : \A o \in s : o <= n
GetUsersWithStrongSignal ==
    LET strong == {u \in User : StrengthOf(u, work.article) > 0} IN
    /\ work.at = "cached"
    /\ work' = [work EXCEPT !.at = "crediting", !.users = [u \in strong |-> StrengthOf(u, work.article)]]
    /\ UNCHANGED <<class, weight, tags>> /\ Rest
Finished == [work EXCEPT !.at = "crediting", !.users = Restrict(@, DOMAIN @ \ {work.user}),
                         !.names = {}, !.user = None]
CreditUser(u) ==
    /\ work.at = "crediting" /\ u \in DOMAIN work.users
    /\ \E done \in SUBSET Interests(work.answer) :
         weight' = [weight EXCEPT ![u] = Raised(@, {<<i, Share(i, work.users[u])>> : i \in done})]
    /\ LET mine  == {t.name : t \in {x \in tag : x.user = u}}
           vocab == mine \cup UNION {class[a].tags : a \in Article}
           Resolve(n) == IF \E v \in vocab \ Generic : <<n, v>> \in Similar
                         THEN CHOOSE v \in vocab \ Generic : /\ <<n, v>> \in Similar
                                                             /\ \A o \in mine \ Generic : <<n, o>> \in Similar => v \in mine
                         ELSE n
       IN  work' = [work EXCEPT !.at = "binding", !.user = u,
                                !.names = {Resolve(n) : n \in work.answer.tags \ Generic}]
    /\ UNCHANGED <<class, tags>> /\ Rest
NoTagger(u) ==            \* the vocabulary could not be read
    /\ work.at = "binding" /\ work.user = u /\ work' = Finished
    /\ UNCHANGED <<class, weight, tags>> /\ Rest
EndArticle ==
    /\ work.at = "crediting" /\ DOMAIN work.users = {} /\ work' = Asleep
    /\ UNCHANGED <<class, weight, tags>> /\ Rest
Failed ==                 \* the update or the query fails: the next article
    /\ work.at \in {"asked", "cached"} /\ work' = Asleep
    /\ UNCHANGED <<class, weight, tags>> /\ Rest

-----------------------------------------------------------------------------
(* The reader's tags. *)
Others == UNCHANGED <<class, signal, weight, req, passes, ever>>
TagOf(u, n) == {t \in tag : t.user = u /\ t.name = n}
With(u, n) ==             \* the insert that finds the row there is
    IF TagOf(u, n) # {} THEN {tag}
    ELSE {tag \cup {[id |-> i, user |-> u, name |-> n]} :
              i \in {j \in 1 .. MaxTags : \A t \in tag : t.id < j /\ \A k \in 1 .. j - 1 : \E s \in tag : s.id >= k}}
CreateTag(u, n) ==
    /\ tag' \in With(u, n) /\ tag' # tag /\ UNCHANGED <<bound, dismissed, work>> /\ Others
BindByName(a, u, n) ==
    /\ tag' \in With(u, n)
    /\ bound' = bound \cup {<<a, t.id>> : t \in {x \in tag' : x.user = u /\ x.name = n}}
    /\ UNCHANGED dismissed /\ Others
AddArticleTag(a, u, n) == BindByName(a, u, n) /\ bound' # bound /\ UNCHANGED work
BindGeneratedTags(n) ==
    /\ work.at = "binding" /\ n \in work.names /\ BindByName(work.article, work.user, n)
    /\ work' = IF work.names = {n} THEN Finished ELSE [work EXCEPT !.names = @ \ {n}]
RenameTag(u, t, n) ==
    /\ t \in tag /\ t.user = u /\ TagOf(u, n) = {}
    /\ tag' = (tag \ {t}) \cup {[t EXCEPT !.name = n]} /\ UNCHANGED <<bound, dismissed, work>> /\ Others
DeleteTag(u, t) ==
    /\ t \in tag /\ t.user = u /\ tag' = tag \ {t}
    /\ bound' = {b \in bound : b[2] # t.id} /\ UNCHANGED <<dismissed, work>> /\ Others
Unbind(a, t) ==
    /\ t \in tag /\ <<a, t.id>> \in bound /\ bound' = bound \ {<<a, t.id>>}
    /\ UNCHANGED <<tag, dismissed, work>> /\ Others
SuggestionsForArticle(a, u) ==
    {n \in class[a].tags : /\ <<u, a, n>> \notin dismissed
                           /\ \A t \in TagOf(u, n) : <<a, t.id>> \notin bound}
DismissSuggestion(u, a, n) ==
    /\ n \in SuggestionsForArticle(a, u) /\ dismissed' = dismissed \cup {<<u, a, n>>}
    /\ UNCHANGED <<tag, bound, work>> /\ Others

Next ==
    \/ DecayAll \/ SetClassification \/ GetUsersWithStrongSignal \/ EndArticle \/ Failed
    \/ \E r \in Request : \/ Apply(r) \/ Commit(r)
                          \/ \E u \in User, a \in Article, k \in Kind : Add(r, u, a, k)
    \/ \E a \in Article : ClassifyArticle(a)
    \/ \E u \in User : \/ CreditUser(u) \/ NoTagger(u)
                       \/ \E i \in DOMAIN weight[u] : Forget(u, i)
                       \/ \E a \in Article : Unsave(u, a)
    \/ \E n \in Name : \/ BindGeneratedTags(n)
                       \/ \E u \in User : \/ CreateTag(u, n) \/ \E t \in tag : RenameTag(u, t, n)
                                          \/ \E a \in Article : AddArticleTag(a, u, n) \/ DismissSuggestion(u, a, n)
    \/ \E t \in tag : \/ \E u \in User : DeleteTag(u, t)
                      \/ \E a \in Article : Unbind(a, t)

Spec == Init /\ [][Next]_vars

-----------------------------------------------------------------------------
(* A reader's profile shows only what the reader asked for: an interest is     *)
(* there for a signal the reader once gave, whatever dislikes, passes of the   *)
(* worker and fading came between (DampenTopic updates, it never inserts;      *)
(* GetUsersWithStrongSignal keeps the readers above 0).                        *)
InterestEarned == \A u \in User : DOMAIN weight[u] # {} => \E a \in Article : <<u, a>> \in ever

(* A reader has one tag of a name, and an article carries only tags there are, *)
(* whether the reader, a rename or the worker's binding was last.              *)
TagsSound ==
    /\ \A s, t \in tag : (s.user = t.user /\ s.name = t.name) \/ s.id = t.id => s = t
    /\ \A b \in bound : \E t \in tag : t.id = b[2]
ProfileKept == InterestEarned /\ TagsSound

(* An article is classified once: an answer that came back is not asked for    *)
(* again ("Always cache (even empty) so we don't retry forever",               *)
(* cmd/worker/classify.go).                                                    *)
ClassifiedOnce ==
    \A a \in Article : class[a] # Unclassified /\ work.at = "asked" => work.article # a
=============================================================================
