------------------------------ MODULE RequestTx ------------------------------
(* The transaction every authenticated request runs in: what its handler       *)
(* writes, what it answers, and what is left to run when the transaction ends. *)
(* internal/api/rls.go, public_token.go, after_commit.go, committed_json.go,   *)
(* savepoint.go, explore.go, repository/tx.go.                                 *)
(*                                                                             *)
(* A handler makes one required write, in two statements, and one that it does *)
(* not insist on, each at most once.                                           *)
CONSTANTS Request

VARIABLES
    request,
    db          \* the durable writes, <<request, write>>

vars == <<request, db>>

Required == {"first", "second"}
Write == Required \cup {"extra"}

Fresh == [at |-> "new", by |-> "session", tx |-> "none", done |-> {}, pending |-> {},
          status |-> 200, sent |-> FALSE, deferred |-> FALSE, errors |-> FALSE,
          early |-> FALSE, hooks |-> FALSE, ran |-> {}, told |-> "nothing"]

TypeOK ==
    /\ request \in [Request ->
         [at : {"new", "handler", "panic", "ending", "done"}, by : {"session", "token"},
          tx : {"none", "open", "aborted", "committed", "rolledback"},
          done : SUBSET Write, pending : SUBSET Write, status : {200, 400, 500},
          sent : BOOLEAN, deferred : BOOLEAN, errors : BOOLEAN, early : BOOLEAN,
          hooks : BOOLEAN, ran : SUBSET {"commit", "rollback"},
          told : {"nothing", "ok", "saved", "error"}]]
    /\ db \subseteq Request \X Write

Init == request = [r \in Request |-> Fresh] /\ db = {}

Becomes(r, q) == request' = [request EXCEPT ![r] = q]
Handling(r) == request[r].at = "handler"
Usable(q) == q.tx = "open"

-----------------------------------------------------------------------------
\* BeginTx and the settings of row-level security; any failure is a 500.
RLSTxMiddleware(r) ==
    /\ request[r].at = "new" /\ UNCHANGED db
    /\ \/ Becomes(r, [Fresh EXCEPT !.at = "handler", !.tx = "open"])
       \/ Becomes(r, [Fresh EXCEPT !.at = "done", !.status = 500, !.told = "error"])

\* The same for a capture key, whose owner is looked up in the transaction.
PublicTokenMiddleware(r) ==
    /\ request[r].at = "new" /\ UNCHANGED db
    /\ \/ Becomes(r, [Fresh EXCEPT !.at = "handler", !.by = "token", !.tx = "open"])
       \/ \E s \in {400, 500} :                     \* no such key; no answer
            Becomes(r, [Fresh EXCEPT !.at = "done", !.by = "token", !.tx = "rolledback",
                                     !.status = s, !.told = "error"])

-----------------------------------------------------------------------------
\* A statement.  One that fails aborts the transaction, and the handler tells
\* of it or swallows the error.
Exec(r, w) ==
    LET q == request[r] IN
    /\ Handling(r) /\ w \in Required \ q.done /\ UNCHANGED db
    /\ \/ /\ Usable(q)
          /\ Becomes(r, [q EXCEPT !.done = @ \cup {w}, !.pending = @ \cup {w}])
       \/ \E e \in BOOLEAN :
            Becomes(r, [q EXCEPT !.done = @ \cup {w}, !.errors = @ \/ e,
                                 !.tx = IF q.tx = "open" THEN "aborted" ELSE @])

\* A write inside a savepoint: what fails in it is undone alone.  If there is
\* no savepoint to be had, the transaction is beyond use already.
bestEffort(r) ==
    LET q == request[r] IN
    /\ Handling(r) /\ "extra" \notin q.done /\ UNCHANGED db
    /\ \/ Usable(q) /\ Becomes(r, [q EXCEPT !.done = @ \cup {"extra"},
                                            !.pending = @ \cup {"extra"}])
       \/ Becomes(r, [q EXCEPT !.done = @ \cup {"extra"}])

\* Work for after the commit, and for after a rollback.
afterCommit(r) ==
    /\ Handling(r) /\ ~request[r].hooks /\ UNCHANGED db
    /\ Becomes(r, [request[r] EXCEPT !.hooks = TRUE])

\* An answer at once, or one that waits for the commit.
Answer(r) ==
    LET q == request[r] IN
    /\ Handling(r) /\ ~q.sent /\ ~q.deferred /\ UNCHANGED db
    /\ \E s \in {200, 400, 500} :
         Becomes(r, [q EXCEPT !.status = s, !.sent = TRUE,
                              !.told = IF s = 200 THEN "ok" ELSE "error"])

jsonAfterCommit(r) ==
    LET q == request[r] IN
    /\ Handling(r) /\ ~q.sent /\ ~q.deferred /\ UNCHANGED db
    /\ Becomes(r, [q EXCEPT !.deferred = TRUE])

\* A handler that only read gives the connection back before it goes on.
FetchArticleContent(r) ==
    LET q == request[r] IN
    /\ Handling(r) /\ q.by = "session" /\ q.done = {} /\ UNCHANGED db
    /\ ~q.sent /\ ~q.deferred /\ ~q.hooks
    /\ IF Usable(q) THEN Becomes(r, [q EXCEPT !.tx = "committed", !.early = TRUE,
                                              !.done = Write])
       ELSE Becomes(r, [q EXCEPT !.status = 500, !.sent = TRUE, !.told = "error"])

\* The client goes away: the driver rolls back.
Disconnect(r) ==
    /\ Handling(r) /\ Usable(request[r]) /\ UNCHANGED db
    /\ Becomes(r, [request[r] EXCEPT !.tx = "aborted"])

Panic(r) ==
    /\ Handling(r) /\ Becomes(r, [request[r] EXCEPT !.at = "panic"]) /\ UNCHANGED db

-----------------------------------------------------------------------------
Hooks(q, kind) == IF q.hooks THEN q.ran \cup {kind} ELSE q.ran

RolledBack(q) ==
    [q EXCEPT !.at = "done", !.tx = IF @ = "committed" THEN @ ELSE "rolledback",
              !.pending = {}, !.ran = Hooks(q, "rollback")]

\* gin answers a panic with a 500.
Recover(r) ==
    /\ request[r].at = "panic" /\ UNCHANGED db
    /\ Becomes(r, [RolledBack(request[r]) EXCEPT
                     !.told = IF request[r].sent THEN @ ELSE "error"])

\* The deferred answer says that the work is saved.
Committed(q) ==
    [q EXCEPT !.at = "done", !.tx = "committed", !.pending = {}, !.ran = Hooks(q, "commit"),
              !.told = IF q.deferred THEN "saved" ELSE @]

Rejected(q) ==
    [RolledBack(q) EXCEPT !.told = IF q.deferred /\ ~q.sent THEN "error" ELSE @]

\* The handler returned.
End(r) ==
    LET q == request[r]
        made == {<<r, w>> : w \in q.pending} IN
    /\ Handling(r)
    /\ \/ q.early /\ Becomes(r, Committed(q)) /\ UNCHANGED db
       \/ /\ ~q.early /\ (q.status = 500 \/ q.errors)
          /\ Becomes(r, RolledBack(q)) /\ UNCHANGED db
       \/ /\ ~q.early /\ q.status # 500 /\ ~q.errors
          /\ \/ Usable(q) /\ db' = db \cup made /\ Becomes(r, Committed(q))
             \/ Becomes(r, Rejected(q)) /\ UNCHANGED db
             \* the database committed and the connection broke
             \/ Usable(q) /\ db' = db \cup made /\ Becomes(r, Rejected(q))

Next == \E r \in Request :
    \/ RLSTxMiddleware(r) \/ PublicTokenMiddleware(r)
    \/ \E w \in Required : Exec(r, w)
    \/ bestEffort(r) \/ afterCommit(r) \/ Answer(r) \/ jsonAfterCommit(r)
    \/ FetchArticleContent(r) \/ Disconnect(r) \/ Panic(r) \/ Recover(r) \/ End(r)

Spec == Init /\ [][Next]_vars

-----------------------------------------------------------------------------
\* A client that is told its work is saved finds it saved, and background work
\* for a commit starts from durable data: neither comes of a transaction that
\* failed in the middle, was refused at its commit or lost its client.
SavedMeansDurable ==
    \A r \in Request :
        LET q == request[r]
            mine == {w \in Write : <<r, w>> \in db}
        IN  (q.told = "saved" \/ "commit" \in q.ran) /\ ~q.early
                => q.done \cap Required \subseteq mine

\* A request's required writes are durable together or not at all, and a failed
\* extra never takes them along; of its two kinds of hooks one runs.
AllOrNothing ==
    \A r \in Request :
        LET q == request[r]
            mine == {w \in Write : <<r, w>> \in db}
        IN  /\ mine \cap Required \in {{}, q.done \cap Required}
            /\ IF q.at = "done" /\ q.hooks THEN q.ran \in {{"commit"}, {"rollback"}}
                                           ELSE q.ran = {}
=============================================================================
