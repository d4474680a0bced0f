------------------------------ MODULE Playback ------------------------------
(***************************************************************************)
(* PUT /articles/:id/playback of one listener and one episode: the row of  *)
(* playback_progress, and the signal "completed_listen" that goes with its *)
(* completion.  A request is one transaction of three statements, and ends *)
(* in the middleware, which commits it unless the status says otherwise.   *)
(***************************************************************************)
EXTENDS Integers

CONSTANTS
    Request,    \* requests in progress: tabs, devices, retried calls
    NoRequest,
    Position    \* positions in the episode

PlaybackAssumption ==
    /\ NoRequest \notin Request /\ Position # {}

VARIABLES
    row,     \* the row of playback_progress, as committed; no row: not completed
    signals, \* committed rows completed_listen of user_preferences
    lock,    \* the transaction that has written the row
    req      \* each request

vars == <<row, signals, lock, req>>

Row == [position : Position, completed : BOOLEAN]

\* got: the row was read; put: it was written; added: so was the signal;
\* aborted: PostgreSQL accepts no further statement of the transaction.
\* saw: the completion read; newly: what Upsert returned.
Req == [pc : {"idle", "began", "got", "put", "added", "aborted"},
        wants : Row, saw : BOOLEAN, newly : BOOLEAN]

TypeOK ==
    /\ row \in Row /\ signals \in {0, 1}
    /\ lock \in Request \cup {NoRequest}
    /\ req \in [Request -> Req]

At(pc, wants, saw, newly) == [pc |-> pc, wants |-> wants, saw |-> saw, newly |-> newly]
Nothing == [position |-> CHOOSE p \in Position : TRUE, completed |-> FALSE]
Idle == At("idle", Nothing, FALSE, FALSE)

Init ==
    /\ row \in [position : Position, completed : {FALSE}] /\ signals = 0
    /\ lock = NoRequest
    /\ req = [r \in Request |-> Idle]

-----------------------------------------------------------------------------
Put(r) ==
    /\ req[r].pc = "idle"
    /\ \E wants \in Row :
         req' = [req EXCEPT ![r] = At("began", wants, FALSE, FALSE)]
    /\ UNCHANGED <<row, signals, lock>>

\* Upsert reads the row,
Get(r) ==
    /\ req[r].pc = "began"
    /\ req' = [req EXCEPT ![r] = At("got", req[r].wants, row.completed, FALSE)]
    /\ UNCHANGED <<row, signals, lock>>

\* and writes it, after whoever is writing it has ended.
Newly(r) == ~req[r].saw /\ req[r].wants.completed

Upsert(r) ==
    /\ req[r].pc = "got" /\ lock = NoRequest
    /\ lock' = r
    /\ req' = [req EXCEPT ![r] = At("put", req[r].wants, req[r].saw, Newly(r))]
    /\ UNCHANGED <<row, signals>>

\* The unique index on completed_listen; its violation is ignored by Put, not by
\* the transaction.  Other errors of the statement are logged, and end alike.
NotIndexed == FALSE
SignalExists == signals > 0

Add(r) ==
    /\ req[r].pc = "put" /\ req[r].newly
    /\ req' = [req EXCEPT ![r] = At(IF SignalExists THEN "aborted" ELSE "added",
                                   req[r].wants, req[r].saw, TRUE)]
    /\ UNCHANGED <<row, signals, lock>>

\* is_completed is only ever set.
Merged(wants) == [wants EXCEPT !.completed = @ \/ row.completed]

Commit(r) ==
    /\ \/ req[r].pc = "put" /\ ~req[r].newly
       \/ req[r].pc = "added"
    /\ row' = Merged(req[r].wants)
    /\ signals' = IF req[r].pc = "added" THEN signals + 1 ELSE signals
    /\ lock' = NoRequest
    /\ req' = [req EXCEPT ![r] = Idle]

\* The commit of an aborted transaction rolls it back.  The status is already
\* 200, and the error only logged.
CommitAborted(r) ==
    /\ req[r].pc = "aborted"
    /\ lock' = NoRequest
    /\ req' = [req EXCEPT ![r] = Idle]
    /\ UNCHANGED <<row, signals>>

\* An error of Upsert, with status 500; or the server dies.
Fail(r) ==
    /\ req[r].pc # "idle"
    /\ lock' = IF lock = r THEN NoRequest ELSE lock
    /\ req' = [req EXCEPT ![r] = Idle]
    /\ UNCHANGED <<row, signals>>

Next ==
    \E r \in Request : \/ Put(r) \/ Get(r) \/ Upsert(r) \/ Add(r)
                       \/ Commit(r) \/ CommitAborted(r) \/ Fail(r)

Spec == Init /\ [][Next]_vars

-----------------------------------------------------------------------------
(* Properties *)

\* The recommender counts a listener's completion of an episode once, and only
\* together with the completion itself, however many requests report it.
SignalMatchesRow == signals = IF row.completed THEN 1 ELSE 0

\* "Expected and benign": a PUT whose signal was already written by another is
\* answered with 200, so its position is saved.
DuplicateBenign ==
    [][\A r \in Request :
          CommitAborted(r) => row'.position = req[r].wants.position]_vars
=============================================================================
