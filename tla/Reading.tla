-------------------------------- MODULE Reading --------------------------------
(* One reader's progress over the articles of a list, from several devices:    *)
(* saving a position, starting over, marking part of the list read in one      *)
(* statement, and taking that back within ten minutes.  Every request is one   *)
(* READ COMMITTED transaction; its statement works on a snapshot, waits for    *)
(* the rows other transactions hold, and looks at them again.                  *)
(* internal/repository/progress*.go, internal/api/{preference,                 *)
(* article_read_range}.go.                                                     *)
EXTENDS Naturals, FiniteSets, Functions

CONSTANTS Article,           \* in the order of the list, numbers
          Scopes,            \* what hiding and the feed, tag and source filters may leave of it
          Request, Nobody,
          Started,           \* articles with some progress at first
          MaxSaves           \* a bound on the 'save' signals there are

VARIABLES row,       \* reading_progress
          saves,     \* 'save' signals of each article
          lock,      \* whose uncommitted write a row waits for
          req,       \* the requests
          undo,      \* reading_read_undo, by the request that marked
          events     \* completed-read events, of each article

vars == <<row, saves, lock, req, undo, events>>

None == [pos |-> 0, done |-> FALSE, at |-> "no row"]
Full == 2
Rows == [pos : 0 .. Full, done : BOOLEAN, at : Request \cup {Nobody, "no row"}]
NoUndo == [snap |-> << >>, real |-> << >>]
Work(at, op, token, snap, todo, wrote) ==
    [at |-> at, op |-> op, token |-> token, snap |-> snap, todo |-> todo, wrote |-> wrote]
Rest(how, op, token) == Work(how, op, token, << >>, {}, << >>)
Fresh == Rest("idle", "none", Nobody)

ReadingAssumption ==
    /\ Article \subseteq Nat /\ IsFiniteSet(Article) /\ Started \subseteq Article
    /\ Scopes \subseteq SUBSET Article /\ IsFiniteSet(Request)
    /\ Nobody \notin Request /\ "no row" \notin Request \cup {Nobody} /\ MaxSaves \in Nat

TypeOK ==
    /\ row \in [Article -> Rows]
    /\ saves \in [Article -> 0 .. MaxSaves]
    /\ lock \in [Article -> Request \cup {Nobody}]
    /\ \A r \in Request :
         /\ req[r].at \in {"idle", "open", "done", "not found", "failed"}
         /\ req[r].op \in {"none", "mark", "undo", "reset", "update", "complete"}
         /\ req[r].todo \subseteq Article /\ DOMAIN req[r].wrote \subseteq Article
         /\ \A a \in DOMAIN req[r].wrote : req[r].wrote[a] \in Rows /\ lock[a] = r
         /\ DOMAIN undo[r].snap = DOMAIN undo[r].real
    /\ events \in [Article -> 0 .. Cardinality(Request)]

Init ==
    /\ row = [a \in Article |-> IF a \in Started THEN [pos |-> 1, done |-> FALSE, at |-> Nobody] ELSE None]
    /\ saves = [a \in Article |-> 0]
    /\ lock = [a \in Article |-> Nobody] /\ req = [r \in Request |-> Fresh]
    /\ undo = [r \in Request |-> NoUndo] /\ events = [a \in Article |-> 0]

-----------------------------------------------------------------------------
Update(r, q) == req' = [req EXCEPT ![r] = q]
Open(r, op, todo) ==
    /\ req[r].at = "idle" /\ UNCHANGED <<row, saves, lock, undo, events>>
    /\ Update(r, Work("open", op, Nobody, row, todo, << >>))

Add(a) ==
    /\ SumFunction(saves) < MaxSaves /\ saves' = [saves EXCEPT ![a] = @ + 1]
    /\ UNCHANGED <<row, lock, req, undo, events>>
DeleteSignal(a) ==
    /\ saves[a] > 0 /\ saves' = [saves EXCEPT ![a] = 0]
    /\ UNCHANGED <<row, lock, req, undo, events>>

\* The part of the list a request names: all of it, or what lies on one side of
\* an anchor, the anchor included.  Read rows are left out afterwards, so that
\* a read anchor serves too.
Listed(S, saved) == {a \in S : saved => saves[a] > 0}
Bounded(S, side, anchor) ==
    CASE side = "all" -> S
      [] side = "single" -> S \cap {anchor}
      [] side = "above" -> {a \in S : a <= anchor}
      [] side = "below" -> {a \in S : a >= anchor}

\* An article saved twice is in the saved list twice, and one statement may not
\* write the same row twice.
executeReadMutation(r, S, saved, side, anchor) ==
    /\ req[r].at = "idle"
    /\ LET todo == {a \in Bounded(Listed(S, saved), side, anchor) : ~row[a].done}
           refused(how) == /\ Update(r, Rest(how, "mark", Nobody))
                           /\ UNCHANGED <<row, saves, lock, undo, events>>
       IN  IF side # "all" /\ anchor \notin Listed(S, saved) THEN refused("not found")
           ELSE IF saved /\ \E a \in todo : saves[a] > 1 THEN refused("failed")
           ELSE Open(r, "mark", todo)
MarkAllRead(r, S, saved) == executeReadMutation(r, S, saved, "all", 0)
Directions == {"single", "above", "below"}
MarkReadRange(r, S, saved) ==
    \E side \in Directions, a \in Article : executeReadMutation(r, S, saved, side, a)

Upsert(r, a) == \E op \in {"update", "complete"} : Open(r, op, {a})
Reset(r, a) == Open(r, "reset", {a})

MarkedOnce(r, snap) == {a \in DOMAIN snap : row[a].done}
\* What an undo finds as its mark left it.
Marked(r, snap) == {a \in DOMAIN snap : row[a] = [pos |-> Full, done |-> TRUE, at |-> r]}
UndoMarkRead(r, t) ==
    /\ req[r].at = "idle" /\ UNCHANGED <<row, saves, lock, events>>
    /\ IF undo[t] = NoUndo
       THEN Update(r, Rest("not found", "undo", t)) /\ UNCHANGED undo
       ELSE /\ \A s \in Request : req[s].at = "open" => req[s].token # t
            /\ Update(r, Work("open", "undo", t, undo[t].snap, Marked(t, undo[t].snap), << >>))
            /\ UNCHANGED undo

Expire(t) ==
    /\ undo[t] # NoUndo /\ \A s \in Request : req[s].at = "open" => req[s].token # t
    /\ undo' = [undo EXCEPT ![t] = NoUndo] /\ UNCHANGED <<row, saves, lock, req, events>>

-----------------------------------------------------------------------------
\* What becomes of a row, as it is when its turn comes.
Greatest(x, y) == IF x > y THEN x ELSE y
Written(r, a) ==
    LET q == req[r]
        new == [pos |-> Full, done |-> TRUE, at |-> r]
    IN  CASE q.op = "mark" -> IF row[a] = None \/ (~row[a].done /\ row[a] = q.snap[a]) THEN new ELSE row[a]
          [] q.op = "undo" -> IF a \in Marked(q.token, q.snap) THEN q.snap[a] ELSE row[a]
          [] q.op = "reset" -> IF row[a] = None THEN None ELSE [pos |-> 0, done |-> FALSE, at |-> r]
          [] q.op = "update" -> [pos |-> Greatest(row[a].pos, 1), done |-> row[a].done, at |-> r]
          [] q.op = "complete" -> [pos |-> Full, done |-> TRUE, at |-> r]

\* The request with that row written.
Wrote(r, a) ==
    LET q == req[r] IN
    Work("open", q.op, q.token, q.snap, q.todo \ {a},
         [b \in DOMAIN q.wrote \cup {a} |-> IF b = a THEN Written(r, a) ELSE q.wrote[b]])

WriteUnlocked(r, a) ==
    /\ req[r].at = "open" /\ a \in req[r].todo
    /\ lock' = [lock EXCEPT ![a] = r]
    /\ Update(r, Wrote(r, a))
    /\ UNCHANGED <<row, saves, undo, events>>
Write(r, a) ==
    /\ req[r].at = "open" /\ a \in req[r].todo /\ lock[a] = Nobody
    /\ lock' = [lock EXCEPT ![a] = r]
    /\ Update(r, Wrote(r, a))
    /\ UNCHANGED <<row, saves, undo, events>>

Changed(r) == {a \in DOMAIN req[r].wrote : req[r].wrote[a] # row[a]}
Released(r) == [a \in Article |-> IF lock[a] = r THEN Nobody ELSE lock[a]]

\* The rows, the token and the event become visible together.
Commit(r) ==
    LET q == req[r] IN
    /\ q.at = "open" /\ q.todo = {}
    /\ row' = [a \in Article |-> IF a \in DOMAIN q.wrote THEN q.wrote[a] ELSE row[a]]
    /\ lock' = Released(r) /\ Update(r, Rest("done", q.op, q.token))
    /\ undo' = CASE q.op = "mark" /\ Changed(r) # {} ->
                      [undo EXCEPT ![r] = [snap |-> Restrict(q.snap, Changed(r)), real |-> Restrict(row, Changed(r))]]
                 [] q.op = "undo" -> [undo EXCEPT ![q.token] = NoUndo]
                 [] OTHER -> undo
    /\ events' = [a \in Article |-> IF q.op = "complete" /\ a \in DOMAIN q.wrote /\ ~q.snap[a].done
                                    THEN events[a] + 1 ELSE events[a]]
    /\ UNCHANGED saves

\* Two statements that wait for each other: the database ends one.
Deadlocked(r) ==
    /\ \E s \in Request \ {r} : \E a \in req[r].todo, b \in req[s].todo : lock[a] = s /\ lock[b] = r
    /\ lock' = Released(r) /\ Update(r, Rest("failed", req[r].op, Nobody))
    /\ UNCHANGED <<row, saves, undo, events>>

Next ==
    \/ \E a \in Article : Add(a) \/ DeleteSignal(a)
    \/ \E t \in Request : Expire(t)
    \/ \E r \in Request :
         \/ \E S \in Scopes, saved \in BOOLEAN : MarkAllRead(r, S, saved) \/ MarkReadRange(r, S, saved)
         \/ \E a \in Article : Upsert(r, a) \/ Reset(r, a) \/ Write(r, a)
         \/ \E t \in Request : UndoMarkRead(r, t)
         \/ Commit(r) \/ Deadlocked(r)

Spec == Init /\ [][Next]_vars

-----------------------------------------------------------------------------
\* Taking a mark back gives every article exactly the progress the mark
\* replaced, whatever another device stored while the mark waited, and touches
\* none that was read since; nothing else but starting over makes one unread.
Undone(r) == req[r].op = "undo" /\ req[r].at = "open" /\ req'[r].at = "done"
ProgressKeptStep ==
    \A a \in Article : row'[a] # row[a] =>
      \/ \E r \in Request : /\ Undone(r) /\ row[a].at = req[r].token
                            /\ row'[a] = undo[req[r].token].real[a]
      \/ \E r \in Request : req[r].op = "reset" /\ row'[a].at = r
      \/ row'[a].pos >= row[a].pos /\ (row[a].done => row'[a].done)
ProgressKept == [][ProgressKeptStep]_vars

\* A mark of what the list shows is never refused (progress.go:103-106).
ListMarkable == \A r \in Request : req[r].op = "mark" => req[r].at # "failed"
=============================================================================
