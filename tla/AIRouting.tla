------------------------------- MODULE AIRouting -------------------------------
(* Which company's model a summary goes to: the configuration administrators   *)
(* edit at the same time, keys that are sealed or come from the environment,   *)
(* and summaries that go on while both change.                                 *)
(* internal/airouting/{store,providers}.go, internal/api/admin_ai.go,          *)
(* internal/ai/article_model.go.                                               *)
(*                                                                             *)
(* A home is a company with one of its endpoints.  A key is named by the home  *)
(* it was issued for.                                                          *)
EXTENDS Naturals

CONSTANTS Admin, Summary, Home, CompanyOf, Unrecognised, None, MaxRevision, MaxRestarts

VARIABLES
    env,        \* the home the server's environment names, or an unknown one
    restarts,
    revision,
    config,
    page,       \* the revision each administrator's page was loaded at
    pinned,     \* the target of each summary
    sent        \* keys and models sent to an endpoint

vars == <<env, restarts, revision, config, page, pinned, sent>>

Company == {CompanyOf[h] : h \in Home}

\* A key is some home's, and the environment may name none of them.
RoutingAssumption ==
    /\ Home # {} /\ CompanyOf \in [Home -> Company]
    /\ None \notin Home /\ Unrecognised \notin Home /\ Unrecognised # None

EndpointOf(c) == {h \in Home : CompanyOf[h] = c}
Credential == [at : Home \cup {None}, key : Home \cup {None}, inherited : BOOLEAN]
Nothing == [at |-> None, key |-> None, inherited |-> FALSE]
Target == [at : Home \cup {Unrecognised}, key : Home \cup {Unrecognised},
           model : Company \cup {Unrecognised}, vision : Company \cup {Unrecognised}]

TypeOK ==
    /\ env \in Home \cup {Unrecognised} /\ restarts \in 0 .. MaxRestarts
    /\ revision \in 0 .. MaxRevision /\ page \in [Admin -> 0 .. MaxRevision]
    /\ config \in [small : Company, large : Company, credential : [Company -> Credential]]
    /\ pinned \in [Summary -> Target \cup {None}]

\* An installation nobody has configured works from its environment, as the
\* first company when that is not known.
NewStore(e) ==
    LET at == IF e = Unrecognised THEN CHOOSE h \in Home : TRUE ELSE e
        c == CompanyOf[at]
    IN  [small |-> c, large |-> c,
         credential |-> [d \in Company |-> IF d = c THEN [at |-> at, key |-> None, inherited |-> TRUE]
                                           ELSE Nothing]]

Init ==
    /\ env \in Home \cup {Unrecognised} /\ restarts = 0 /\ revision = 0
    /\ config = NewStore(env)
    /\ page = [a \in Admin |-> 0] /\ pinned = [s \in Summary |-> None] /\ sent = {}

-----------------------------------------------------------------------------
\* A sealed key, or the environment's where that is for the same endpoint.
keyFor(c) ==
    IF c.key # None THEN c.key
    ELSE IF c.inherited /\ c.at = env THEN env ELSE None

View(a) ==
    /\ page' = [page EXCEPT ![a] = revision]
    /\ UNCHANGED <<env, restarts, revision, config, pinned, sent>>

\* A key that is typed in belongs to the endpoint chosen with it.  Another
\* endpoint without its key is refused where there was one.
Refused(old, h, typed) == ~typed /\ old.at # h /\ (old.key # None \/ old.inherited)
Entered(old, h, typed) ==
    IF typed THEN [at |-> h, key |-> h, inherited |-> FALSE]
    ELSE IF old.at # h THEN [Nothing EXCEPT !.at = h] ELSE old

\* The row is locked, and the page must not be stale.
Save(a, h, typed, small, large) ==
    LET c == CompanyOf[h]
        old == config.credential[c]
        after == [config.credential EXCEPT ![c] = Entered(old, h, typed)]
    IN  /\ page[a] = revision /\ revision < MaxRevision /\ ~Refused(old, h, typed)
        /\ \A d \in {small, large} : after[d].at # None /\ keyFor(after[d]) # None
        /\ config' = [small |-> small, large |-> large, credential |-> after]
        /\ revision' = revision + 1 /\ page' = [page EXCEPT ![a] = revision + 1]
        /\ UNCHANGED <<env, restarts, pinned, sent>>

\* The list of a company's models, with a key just typed in or the stored one,
\* which must be for that endpoint.
Key(h, typed) ==
    LET c == config.credential[CompanyOf[h]] IN
    IF typed THEN h ELSE IF c.at = h THEN keyFor(c) ELSE None

FetchModels(h, typed) ==
    /\ Key(h, typed) # None
    /\ sent' = sent \cup {[key |-> Key(h, typed), at |-> h, model |-> CompanyOf[h]]}
    /\ UNCHANGED <<env, restarts, revision, config, page, pinned>>

-----------------------------------------------------------------------------
\* The environment's company serves what nobody configured; otherwise the
\* length of the article picks the company.
Resolve(large) ==
    LET d == IF large THEN config.large ELSE config.small
        c == config.credential[d]
    IN  IF revision = 0 /\ env = Unrecognised
        THEN {[at |-> env, key |-> env, model |-> env]}
        ELSE IF c.at = None \/ keyFor(c) = None THEN {}
        ELSE {[at |-> c.at, key |-> keyFor(c), model |-> d]}

\* The target is pinned for the whole summary.  The environment's model for
\* images goes along to the environment's own endpoint and key only.
Mine(e) == IF e = Unrecognised THEN e ELSE CompanyOf[e]
forArticle(s, large) ==
    /\ pinned[s] = None
    /\ \E t \in Resolve(large), separate \in BOOLEAN :
         pinned' = [pinned EXCEPT ![s] =
            [at |-> t.at, key |-> t.key, model |-> t.model,
             vision |-> IF t.at # env \/ t.key # env \/ ~separate THEN t.model ELSE Mine(env)]]
    /\ UNCHANGED <<env, restarts, revision, config, page, sent>>

\* A call of the summary, with images or without; redirects are not followed.
Call(s, vision) ==
    LET t == pinned[s] IN
    /\ t # None
    /\ sent' = sent \cup {[key |-> t.key, at |-> t.at, model |-> IF vision THEN t.vision ELSE t.model]}
    /\ UNCHANGED <<env, restarts, revision, config, page, pinned>>

End(s) ==
    /\ pinned[s] # None /\ pinned' = [pinned EXCEPT ![s] = None]
    /\ UNCHANGED <<env, restarts, revision, config, page, sent>>

\* The server comes back with another environment; its summaries are gone.
Restart(e) ==
    /\ restarts < MaxRestarts /\ restarts' = restarts + 1 /\ env' = e
    /\ config' = IF revision = 0 THEN NewStore(e) ELSE config
    /\ pinned' = [s \in Summary |-> None] /\ UNCHANGED <<revision, page, sent>>

Next ==
    \/ \E a \in Admin : View(a)
    \/ \E a \in Admin, h \in Home, typed \in BOOLEAN, small, large \in Company :
         Save(a, h, typed, small, large)
    \/ \E h \in Home, typed \in BOOLEAN : FetchModels(h, typed)
    \/ \E s \in Summary, b \in BOOLEAN : forArticle(s, b) \/ Call(s, b)
    \/ \E s \in Summary : End(s)
    \/ \E e \in Home \cup {Unrecognised} : Restart(e)

Spec == Init /\ [][Next]_vars

-----------------------------------------------------------------------------
\* No key ever reaches an endpoint it was not issued for, and no endpoint is
\* asked for another company's model: not when an endpoint is changed without
\* its key, when the environment of an inherited key is replaced, or when the
\* configuration changes between the two halves of a summary.
KeysStayHome ==
    \A m \in sent : m.key = m.at /\ m.model = Mine(m.at)
=============================================================================
