---------------------------- MODULE RecordProofs -----------------------------
(***************************************************************************)
(* Theorems about records that several processes or requests meet on: the  *)
(* snapshots of ExploreSnapshot for any number of workers, sources and     *)
(* slots, what a request of RequestTx saves, the links of Sharing, the     *)
(* phones' keys of Shortcut, the stored keys of AIRouting, the progress of *)
(* Reading and the completion of Playback, the tags of Profile, the        *)
(* archives of BackupFiles and what Restore brings back.                   *)
(*                                                                         *)
(* For snapshots all goes through one lemma, that a batch is written in    *)
(* five ways only: claimed, published or failed under the claim's token,   *)
(* deleted when it is old, and grown older.  For a request the inductive   *)
(* invariant says at each place of the handler what a commit would make    *)
(* durable; for a phone, who holds its owner's row; for routing, that a    *)
(* stored key is kept with the endpoint it was given for; for progress,    *)
(* that what an open request has written is what it would write now, and   *)
(* that no row goes away under a mark that saw one; for a completion, that *)
(* who writes the row alone holds it, and what it read can only have come  *)
(* true since; for a tag, that whoever is credited once gave a strong      *)
(* signal; for an archive still to be removed, that something newer of its *)
(* bucket is listed; for a restored row, that the rows that were there     *)
(* keep their number and their owner.                                      *)
(***************************************************************************)
EXTENDS ExploreSnapshot, FiniteSetTheorems, WellFoundedInduction, TLAPS

CONSTANTS
    \* of RequestTx, Sharing and Shortcut
    Request,
    Owner, Code, MaxAttempts, MaxTime, MaxVersion,
    Secret, Nobody,
    \* of Reading and Playback
    Article, Scopes, Started, MaxSaves,
    NoRequest, Position,
    \* of AIRouting
    Admin, Summary, Home, CompanyOf, Unrecognised, None, MaxRevision, MaxRestarts

VARIABLES
    request, db,
    now, article, share, creating,
    pairing, connection, owner, sharers, spent, captured,
    row, saves, lock, req, undo, events, signals,
    env, restarts, revision, config, page, pinned, sent

\* Each theorem is about the specification of one of them.
TX == INSTANCE RequestTx
SH == INSTANCE Sharing
SC == INSTANCE Shortcut
RD == INSTANCE Reading
RT == INSTANCE AIRouting
PB == INSTANCE Playback

-----------------------------------------------------------------------------
(* How a batch changes *)

Claims(s) == \E w \in Worker :
    (batch[s].status = "none" \/ TakeOver(s)) /\ batch'[s] = Claimed(w, s)

Publishes(s) == \E w \in Worker, r \in SUBSET Source :
    /\ gen[w][s].pc = "claimed" /\ Holds(w, s)
    /\ r \subseteq gen[w][s].cands /\ Publishable(r)
    /\ batch'[s] = Done(batch[s], r)

Fails(s) == \E w \in Worker :
    /\ Holds(w, s)
    /\ batch'[s] = [batch[s] EXCEPT !.status = "failed", !.token = NoWorker]

Deletes(s) == Old(s) /\ batch'[s] = NoBatch

Ages(s) ==
    /\ batch[s].status = "pending" /\ batch[s].age < StaleAfter
    /\ batch'[s] = [batch[s] EXCEPT !.age = @ + 1]

Written(s) ==
    batch'[s] = batch[s] \/ Claims(s) \/ Publishes(s) \/ Fails(s) \/ Deletes(s) \/ Ages(s)

LEMMA Writes ==
    ASSUME TypeOK, [Next]_vars
    PROVE  \A s \in Slot : Written(s)
<1>0. batch \in [Slot -> Batch] /\ gen \in [Worker -> [Slot -> Gen]]
  BY DEF TypeOK
<1> USE DEF Written
<1>1. ASSUME NEW w \in Worker, NEW s \in Slot, Claim(w, s) \/ ClaimError(w, s)
      PROVE  \A t \in Slot : Written(t)
  <2>1. \/ batch' = batch
        \/ /\ batch[s].status = "none" \/ TakeOver(s)
           /\ batch' = [batch EXCEPT ![s] = Claimed(w, s)]
    BY <1>1 DEF Claim, ClaimError
  <2>2. \A t \in Slot : t = s \/ batch'[t] = batch[t]
    BY <1>0, <2>1
  <2>3. Written(s)
    BY <1>0, <2>1 DEF Claims
  <2> QED
    BY <2>2, <2>3
<1>2. ASSUME NEW w \in Worker, NEW s \in Slot, Publish(w, s) \/ PublishError(w, s)
      PROVE  \A t \in Slot : Written(t)
  <2>1. gen[w][s].pc = "claimed" /\ gen[w][s].cands \subseteq Source
    BY <1>0, <1>2 DEF Publish, PublishError, Gen
  <2>2. CASE batch' = batch
    BY <2>2
  <2>3. CASE \E r \in Rankings(w, s) :
               /\ Holds(w, s) /\ Publishable(r)
               /\ batch' = [batch EXCEPT ![s] = Done(batch[s], r)]
    <3>1. PICK r \in Rankings(w, s) :
               /\ Holds(w, s) /\ Publishable(r)
               /\ batch' = [batch EXCEPT ![s] = Done(batch[s], r)]
      BY <2>3
    <3>2. r \in SUBSET Source /\ r \subseteq gen[w][s].cands
      BY <2>1 DEF Rankings
    <3>3. \A t \in Slot : t = s \/ batch'[t] = batch[t]
      BY <1>0, <3>1
    <3>4. batch'[s] = Done(batch[s], r)
      BY <1>0, <3>1
    <3>5. Publishes(s)
      BY <2>1, <3>1, <3>2, <3>4 DEF Publishes
    <3> QED
      BY <3>3, <3>5
  <2> QED
    BY <1>2, <2>2, <2>3 DEF Publish, PublishError
<1>3. ASSUME NEW w \in Worker, NEW s \in Slot, Fail(w, s)
      PROVE  \A t \in Slot : Written(t)
  <2>1. CASE ~Holds(w, s)
    BY <1>3, <2>1 DEF Fail
  <2>2. CASE Holds(w, s)
    <3>1. batch' = [batch EXCEPT ![s].status = "failed", ![s].token = NoWorker]
      BY <1>3, <2>2 DEF Fail
    <3>2. /\ batch'[s] = [batch[s] EXCEPT !.status = "failed", !.token = NoWorker]
          /\ \A t \in Slot : t = s \/ batch'[t] = batch[t]
      BY <1>0, <3>1
    <3> QED
      BY <2>2, <3>2 DEF Fails
  <2> QED
    BY <2>1, <2>2
<1>4. CASE Cleanup
  BY <1>4 DEF Cleanup, Deletes
<1>5. CASE Tick
  BY <1>5 DEF Tick, Ages
<1>6. CASE UNCHANGED batch
  BY <1>6
<1> QED
  BY <1>1, <1>2, <1>3, <1>4, <1>5, <1>6
     DEF Next, Generate, Start, LoadCandidates, InputError, FailError, Crash,
         ChangeSource, NextSlot, vars

-----------------------------------------------------------------------------
(* Type correctness *)

LEMMA InitType == ASSUME SnapshotAssumption PROVE Init => TypeOK
BY DEF SnapshotAssumption, Init, TypeOK, Slot, Batch, NoBatch, Gen, Idle

LEMMA BatchTypes ==
    ASSUME SnapshotAssumption, TypeOK, [Next]_vars
    PROVE  \A s \in Slot : batch'[s] \in Batch
<1> SUFFICES ASSUME NEW s \in Slot PROVE batch'[s] \in Batch
  OBVIOUS
<1>0. /\ batch[s] \in Batch /\ cur \in Slot /\ StaleAfter \in Nat /\ 0 \in Slot
      /\ NoWorker \notin Worker /\ MaxSlot \in Nat
  BY DEF TypeOK, SnapshotAssumption, Slot
<1>1. CASE Claims(s)
  <2>1. PICK w \in Worker : batch'[s] = Claimed(w, s)
    BY <1>1 DEF Claims
  <2>2. batch[s].born \in Slot
    BY <1>0 DEF Batch
  <2> QED
    BY <1>0, <2>1, <2>2 DEF Claimed, Batch
<1>2. CASE Publishes(s)
  <2>1. PICK r \in SUBSET Source : batch'[s] = Done(batch[s], r)
    BY <1>2 DEF Publishes
  <2> QED
    BY <1>0, <2>1 DEF Done, Batch
<1>3. CASE Fails(s)
  BY <1>0, <1>3 DEF Fails, Batch
<1>4. CASE Deletes(s)
  BY <1>0, <1>4 DEF Deletes, NoBatch, Batch
<1>5. CASE Ages(s)
  <2>1. batch[s].age + 1 \in 0 .. StaleAfter
    BY <1>0, <1>5 DEF Ages, Batch
  <2> QED
    BY <1>0, <1>5, <2>1 DEF Ages, Batch
<1> QED
  BY <1>0, <1>1, <1>2, <1>3, <1>4, <1>5, Writes DEF Written

LEMMA StepType ==
    ASSUME SnapshotAssumption, TypeOK, [Next]_vars
    PROVE  TypeOK'
<1>0. /\ cur \in Slot /\ valid \subseteq Source /\ batch \in [Slot -> Batch]
      /\ marked \in [Worker -> SUBSET Slot] /\ gen \in [Worker -> [Slot -> Gen]]
      /\ faults \in 0 .. MaxFaults /\ MaxFaults \in Nat /\ MaxSlot \in Nat
      /\ Idle \in Gen /\ {} \in SUBSET Slot
  BY DEF TypeOK, SnapshotAssumption, Gen, Idle
<1>1. ASSUME NEW w \in Worker, NEW s \in Slot,
             \/ Generate(w, s) \/ ClaimError(w, s) \/ InputError(w, s)
             \/ PublishError(w, s) \/ FailError(w, s)
      PROVE  /\ Fault \/ NoFault
             /\ UNCHANGED <<cur, valid>>
             /\ batch' = batch \/ \E b : batch' = [batch EXCEPT ![s] = b]
  <2>1. CASE Start(w, s) \/ LoadCandidates(w, s) \/ Claim(w, s)
    BY <2>1 DEF Start, LoadCandidates, Claim
  <2>2. CASE Publish(w, s) \/ PublishError(w, s)
    BY <2>2 DEF Publish, PublishError
  <2>3. CASE Fail(w, s)
    BY <2>3 DEF Fail
  <2>4. CASE ClaimError(w, s) \/ InputError(w, s) \/ FailError(w, s)
    BY <2>4 DEF ClaimError, InputError, FailError
  <2> QED
    BY <1>1, <2>1, <2>2, <2>3, <2>4 DEF Generate
<1>2. /\ faults' \in 0 .. MaxFaults /\ cur' \in Slot /\ valid' \subseteq Source
      /\ DOMAIN batch' = Slot /\ batch' = [s \in Slot |-> batch'[s]]
  <2>1. CASE \E w \in Worker, s \in Slot :
               Generate(w, s) \/ ClaimError(w, s) \/ InputError(w, s)
                 \/ PublishError(w, s) \/ FailError(w, s)
    <3>1. PICK w \in Worker, s \in Slot :
               Generate(w, s) \/ ClaimError(w, s) \/ InputError(w, s)
                 \/ PublishError(w, s) \/ FailError(w, s)
      BY <2>1
    <3> QED
      BY <1>0, <1>1, <3>1 DEF Fault, NoFault
  <2>2. CASE (\E w \in Worker : Crash(w)) \/ (\E x \in Source : ChangeSource(x))
    BY <1>0, <2>2 DEF Crash, ChangeSource, Fault
  <2>3. CASE Cleanup \/ NextSlot \/ Tick
    BY <1>0, <2>3 DEF Cleanup, NextSlot, Tick, NoFault, Slot
  <2>4. CASE UNCHANGED vars
    BY <1>0, <2>4 DEF vars
  <2> QED
    BY <2>1, <2>2, <2>3, <2>4 DEF Next
<1>4. ASSUME NEW w \in Worker, NEW s \in Slot, NEW new \in Gen,
             gen' = [gen EXCEPT ![w][s] = new]
      PROVE  gen' \in [Worker -> [Slot -> Gen]]
  BY <1>0, <1>4
<1>5. ASSUME NEW w \in Worker, NEW s \in Slot,
             NEW pc \in {"started", "claimed", "failing"}, Goto(w, s, pc)
      PROVE  gen' \in [Worker -> [Slot -> Gen]]
  <2>1. [gen[w][s] EXCEPT !.pc = pc] \in Gen
    <3>1. gen[w][s] \in Gen
      BY <1>0
    <3> QED
      BY <3>1 DEF Gen
  <2>2. gen' = [gen EXCEPT ![w][s] = [gen[w][s] EXCEPT !.pc = pc]]
    BY <1>0, <1>5 DEF Goto
  <2> QED
    BY <1>4, <2>1, <2>2
<1>6. ASSUME NEW w \in Worker, NEW s \in Slot, NEW b \in BOOLEAN, Finish(w, s, b)
      PROVE  /\ gen' \in [Worker -> [Slot -> Gen]]
             /\ marked' \in [Worker -> SUBSET Slot]
  BY <1>0, <1>4, <1>6 DEF Finish
<1>7. ASSUME NEW w \in Worker, NEW s \in Slot,
             \/ Generate(w, s) \/ ClaimError(w, s) \/ InputError(w, s)
             \/ PublishError(w, s) \/ FailError(w, s)
      PROVE  gen' \in [Worker -> [Slot -> Gen]] /\ marked' \in [Worker -> SUBSET Slot]
  <2>1. CASE Start(w, s)
    BY <1>0, <1>5, <2>1 DEF Start
  <2>2. CASE LoadCandidates(w, s)
    <3>1. [pc |-> "loaded", cands |-> valid] \in Gen
      BY <1>0 DEF Gen
    <3> QED
      BY <1>0, <1>4, <2>2, <3>1 DEF LoadCandidates
  <2>3. CASE Claim(w, s)
    BY <1>0, <1>5, <1>6, <2>3 DEF Claim, RetryUnowned
  <2>4. CASE Publish(w, s) \/ PublishError(w, s)
    BY <1>0, <1>5, <1>6, <2>4 DEF Publish, PublishError
  <2>5. CASE Fail(w, s) \/ FailError(w, s) \/ ClaimError(w, s) \/ InputError(w, s)
    BY <1>0, <1>5, <1>6, <2>5 DEF Fail, FailError, ClaimError, InputError
  <2> QED
    BY <1>7, <2>1, <2>2, <2>3, <2>4, <2>5 DEF Generate
<1>8. gen' \in [Worker -> [Slot -> Gen]] /\ marked' \in [Worker -> SUBSET Slot]
  <2>1. ASSUME NEW w \in Worker, Crash(w)
        PROVE  gen' \in [Worker -> [Slot -> Gen]] /\ marked' \in [Worker -> SUBSET Slot]
    BY <1>0, <2>1 DEF Crash
  <2> QED
    BY <1>0, <1>7, <2>1 DEF Next, ChangeSource, Cleanup, NextSlot, Tick, vars
<1> QED
  BY <1>2, <1>8, BatchTypes DEF TypeOK

\* Every variable keeps its type: a token is in a row exactly while it is
\* pending.
THEOREM TypeCorrect == ASSUME SnapshotAssumption PROVE Spec => []TypeOK
<1>1. Init => TypeOK
  BY InitType
<1>2. TypeOK /\ [Next]_vars => TypeOK'
  BY StepType
<1> QED
  BY <1>1, <1>2, PTL DEF Spec

-----------------------------------------------------------------------------
(* Whole batches, and published ones *)

LEMMA StepWhole ==
    ASSUME SnapshotAssumption, TypeOK, WholeBatch, [Next]_vars
    PROVE  WholeBatch'
<1> SUFFICES ASSUME NEW s \in Slot
             PROVE  /\ batch'[s].status = "done" <=> batch'[s].sources # {}
                    /\ Cardinality(batch'[s].sources) <= MaxSources
  BY DEF WholeBatch
<1>0. /\ batch[s] \in Batch /\ MaxSources \in Nat
      /\ batch[s].status = "done" <=> batch[s].sources # {}
      /\ Cardinality(batch[s].sources) <= MaxSources
  BY DEF TypeOK, SnapshotAssumption, WholeBatch
<1>1. Cardinality({}) <= MaxSources
  BY <1>0, FS_EmptySet
<1>2. CASE Claims(s)
  BY <1>1, <1>2 DEF Claims, Claimed
<1>3. CASE Publishes(s)
  BY <1>0, <1>3 DEF Publishes, Done, Publishable, Batch
<1>4. CASE Fails(s)
  BY <1>0, <1>4 DEF Fails, Holds, Batch
<1>5. CASE Deletes(s)
  BY <1>1, <1>5 DEF Deletes, NoBatch
<1>6. CASE Ages(s)
  BY <1>0, <1>6 DEF Ages, Batch
<1> QED
  BY <1>0, <1>2, <1>3, <1>4, <1>5, <1>6, Writes DEF Written

LEMMA InitWhole == ASSUME SnapshotAssumption PROVE Init => WholeBatch
<1>1. Cardinality({}) = 0 /\ MaxSources \in Nat
  BY FS_EmptySet DEF SnapshotAssumption
<1>2. NoBatch.status = "none" /\ NoBatch.sources = {}
  BY DEF NoBatch
<1>3. Init => \A s \in Slot : batch[s] = NoBatch
  BY DEF Init
<1> QED
  BY <1>1, <1>2, <1>3 DEF WholeBatch

\* A batch that is shown is whole, and nothing is in one that is not.
THEOREM WholeBatchAlways == ASSUME SnapshotAssumption PROVE Spec => []WholeBatch
<1>1. Init => WholeBatch
  BY InitWhole
<1>2. TypeOK /\ WholeBatch /\ [Next]_vars => WholeBatch'
  BY StepWhole
<1> QED
  BY <1>1, <1>2, TypeCorrect, PTL DEF Spec

\* Only the latest claimant publishes, what it read and what is still valid,
\* whoever takes over, dies or comes late.
THEOREM PublishedByHolderAlways ==
    ASSUME SnapshotAssumption PROVE Spec => PublishedByHolder
<1>1. ASSUME TypeOK, [Next]_vars PROVE PublishedByHolderStep
  <2> SUFFICES ASSUME NEW s \in Slot, batch[s].status # "done", batch'[s].status = "done"
               PROVE  /\ batch'[s].sources \subseteq valid
                      /\ \E w \in Worker :
                           /\ batch[s].token = w /\ gen[w][s].pc = "claimed"
                           /\ batch'[s].sources \subseteq gen[w][s].cands
    BY DEF PublishedByHolderStep
  <2>1. batch[s] \in Batch
    BY <1>1 DEF TypeOK
  <2>2. ~Claims(s) /\ ~Deletes(s)
    <3>1. \A w : Claimed(w, s).status = "pending"
      BY DEF Claimed
    <3>2. NoBatch.status = "none"
      BY DEF NoBatch
    <3> QED
      BY <3>1, <3>2, Zenon DEF Claims, Deletes
  <2>3. ~Fails(s) /\ ~Ages(s)
    BY <2>1 DEF Fails, Ages, Batch
  <2>4. Publishes(s)
    BY <1>1, <2>2, <2>3, Writes DEF Written
  <2> QED
    BY <2>1, <2>4 DEF Publishes, Publishable, Done, Holds, Batch
<1>2. TypeOK /\ [Next]_vars => PublishedByHolderStep
  BY <1>1
<1> QED
  BY <1>2, TypeCorrect, PTL DEF Spec, PublishedByHolder

\* What a reader was shown stays as it is until it is deleted for its age.
THEOREM DoneKeptAlways == ASSUME SnapshotAssumption PROVE Spec => DoneKept
<1>1. ASSUME TypeOK, [Next]_vars PROVE DoneKeptStep
  <2> SUFFICES ASSUME NEW s \in Slot, batch[s].status = "done", batch'[s] # batch[s]
               PROVE  Old(s) /\ batch'[s] = NoBatch
    BY DEF DoneKeptStep
  <2>1. ~Claims(s) /\ ~Publishes(s) /\ ~Fails(s) /\ ~Ages(s)
    BY DEF Claims, TakeOver, Publishes, Fails, Holds, Ages
  <2> QED
    BY <1>1, <2>1, Writes DEF Written, Deletes
<1>2. TypeOK /\ [Next]_vars => DoneKeptStep
  BY <1>1
<1> QED
  BY <1>2, TypeCorrect, PTL DEF Spec, DoneKept

-----------------------------------------------------------------------------
(* Transactions of requests: what a handler still has before it and what is   *)
(* durable of it.                                                             *)

Mine(r, d) == {w \in TX!Write : <<r, w>> \in d}

\* While the handler runs nothing is durable, nothing has run after it and
\* nobody has been told so; as long as its transaction is usable, what it has
\* done and insists on is what a commit makes durable; and one that gave its
\* connection back early has nothing to write.
Running(q, mine) ==
    /\ mine = {} /\ q.ran = {} /\ q.told # "saved"
    /\ q.tx = "open" => q.done \cap TX!Required \subseteq q.pending
    /\ q.pending \subseteq q.done
    /\ q.early => q.pending = {} /\ q.done = TX!Write

\* The required writes, all or none of them.
Whole(mine, done) == mine \cap TX!Required \in {{}, done \cap TX!Required}

\* When it is over, one of the two kinds of work ran if any was asked for.
Ended(q, mine) ==
    /\ Whole(mine, q.done)
    /\ q.ran = {} \/ q.ran = {"commit"} \/ q.ran = {"rollback"}
    /\ q.ran = {} <=> ~q.hooks
    /\ (q.told = "saved" \/ "commit" \in q.ran) /\ ~q.early
          => q.done \cap TX!Required \subseteq mine

Sound(r, q, d) ==
    IF q.at = "done" THEN Ended(q, Mine(r, d)) ELSE Running(q, Mine(r, d))

HandlerInv == TX!TypeOK /\ \A r \in Request : Sound(r, request[r], db)

LEMMA RequestInit == TX!Init => HandlerInv
<1> SUFFICES ASSUME TX!Init PROVE HandlerInv
  OBVIOUS
<1>1. TX!TypeOK
  BY DEF TX!Init, TX!TypeOK, TX!Fresh
<1>2. Running(TX!Fresh, {}) /\ TX!Fresh.at = "new"
  BY DEF Running, TX!Fresh
<1> QED
  BY <1>1, <1>2 DEF TX!Init, HandlerInv, Sound, Mine

CodeOf == {200, 400, 500}
Row == [at : {"new", "handler", "panic", "ending", "done"}, by : {"session", "token"},
        tx : {"none", "open", "aborted", "committed", "rolledback"},
        done : SUBSET TX!Write, pending : SUBSET TX!Write, status : CodeOf,
        sent : BOOLEAN, deferred : BOOLEAN, errors : BOOLEAN, early : BOOLEAN,
        hooks : BOOLEAN, ran : SUBSET {"commit", "rollback"},
        told : {"nothing", "ok", "saved", "error"}]

LEMMA RequestType == TX!TypeOK <=> request \in [Request -> Row] /\ db \subseteq Request \X TX!Write
BY DEF TX!TypeOK, Row, CodeOf

\* A field of a row is set to one of its values.
LEMMA SetAt ==
    ASSUME NEW q \in Row, NEW v \in {"new", "handler", "panic", "ending", "done"}
    PROVE  [q EXCEPT !.at = v] \in Row
BY DEF Row

LEMMA SetBy ==
    ASSUME NEW q \in Row, NEW v \in {"session", "token"}
    PROVE  [q EXCEPT !.by = v] \in Row
BY DEF Row

LEMMA SetTx ==
    ASSUME NEW q \in Row, NEW v \in {"none", "open", "aborted", "committed", "rolledback"}
    PROVE  [q EXCEPT !.tx = v] \in Row
BY DEF Row

LEMMA SetDone ==
    ASSUME NEW q \in Row, NEW v \in SUBSET TX!Write
    PROVE  [q EXCEPT !.done = v] \in Row
BY DEF Row

LEMMA SetPending ==
    ASSUME NEW q \in Row, NEW v \in SUBSET TX!Write
    PROVE  [q EXCEPT !.pending = v] \in Row
BY DEF Row

LEMMA SetStatus ==
    ASSUME NEW q \in Row, NEW v \in CodeOf
    PROVE  [q EXCEPT !.status = v] \in Row
BY DEF Row

LEMMA SetSent ==
    ASSUME NEW q \in Row, NEW v \in BOOLEAN
    PROVE  [q EXCEPT !.sent = v] \in Row
BY DEF Row

LEMMA SetDeferred ==
    ASSUME NEW q \in Row, NEW v \in BOOLEAN
    PROVE  [q EXCEPT !.deferred = v] \in Row
BY DEF Row

LEMMA SetErrors ==
    ASSUME NEW q \in Row, NEW v \in BOOLEAN
    PROVE  [q EXCEPT !.errors = v] \in Row
BY DEF Row

LEMMA SetEarly ==
    ASSUME NEW q \in Row, NEW v \in BOOLEAN
    PROVE  [q EXCEPT !.early = v] \in Row
BY DEF Row

LEMMA SetHooks ==
    ASSUME NEW q \in Row, NEW v \in BOOLEAN
    PROVE  [q EXCEPT !.hooks = v] \in Row
BY DEF Row

LEMMA SetRan ==
    ASSUME NEW q \in Row, NEW v \in SUBSET {"commit", "rollback"}
    PROVE  [q EXCEPT !.ran = v] \in Row
BY DEF Row

LEMMA SetTold ==
    ASSUME NEW q \in Row, NEW v \in {"nothing", "ok", "saved", "error"}
    PROVE  [q EXCEPT !.told = v] \in Row
BY DEF Row

\* A row's fields hold their values.
LEMMA Fields ==
    ASSUME NEW q \in Row
    PROVE  /\ q.at \in {"new", "handler", "panic", "ending", "done"}
           /\ q.tx \in {"none", "open", "aborted", "committed", "rolledback"}
           /\ q.done \subseteq TX!Write /\ q.pending \subseteq TX!Write
           /\ q.sent \in BOOLEAN /\ q.deferred \in BOOLEAN /\ q.errors \in BOOLEAN
           /\ q.early \in BOOLEAN /\ q.hooks \in BOOLEAN
           /\ q.ran \subseteq {"commit", "rollback"}
           /\ q.told \in {"nothing", "ok", "saved", "error"}
BY DEF Row

LEMMA FreshRow == TX!Fresh \in Row
BY DEF TX!Fresh, Row, CodeOf

\* A step writes one request's row, and of the database its own part.
LEMMA OneRequest ==
    ASSUME HandlerInv, NEW r \in Request, NEW q \in Row, TX!Becomes(r, q),
           db' \subseteq Request \X TX!Write,
           \A e \in Request : e # r => Mine(e, db') = Mine(e, db),
           Sound(r, q, db')
    PROVE  HandlerInv'
<1>1. request \in [Request -> Row] /\ db \subseteq Request \X TX!Write
  BY RequestType DEF HandlerInv
<1>2. request' \in [Request -> Row]
  BY <1>1 DEF TX!Becomes
<1>3. TX!TypeOK'
  BY <1>2 DEF TX!TypeOK, Row, CodeOf
<1>4. ASSUME NEW e \in Request PROVE Sound(e, request'[e], db')
  <2>1. CASE e = r
    BY <1>1, <2>1 DEF TX!Becomes
  <2>2. CASE e # r
    <3>1. Mine(e, db') = Mine(e, db) /\ request'[e] = request[e]
      BY <1>1, <2>2 DEF TX!Becomes
    <3> QED
      BY <3>1 DEF Sound, HandlerInv
  <2> QED
    BY <2>1, <2>2
<1> QED
  BY <1>3, <1>4 DEF HandlerInv

\* A step that commits nothing.
LEMMA NothingDurable ==
    ASSUME HandlerInv, NEW r \in Request, NEW q \in Row, TX!Becomes(r, q), db' = db,
           request[r].at # "done",
           Running(request[r], {}) => Sound(r, q, db)
    PROVE  HandlerInv'
<1>1. Running(request[r], Mine(r, db)) /\ Mine(r, db) = {}
  BY DEF HandlerInv, Sound, Running
<1>2. db' \subseteq Request \X TX!Write
  BY RequestType DEF HandlerInv
<1>3. Sound(r, q, db')
  BY <1>1
<1> QED
  BY <1>2, <1>3, OneRequest

\* What is told at the end of a transaction that was given up.
LEMMA GivenUp ==
    ASSUME NEW q \in Row, q.ran = {}, NEW t \in {"nothing", "ok", "error"},
           NEW D, Whole(D, q.done),
           NEW e, e = [TX!RolledBack(q) EXCEPT !.told = t]
    PROVE  e \in Row /\ e.at = "done" /\ Ended(e, D)
<1> DEFINE x == IF q.tx = "committed" THEN q.tx ELSE "rolledback"
           h == IF q.hooks THEN {"rollback"} ELSE {}
           a == [q EXCEPT !.at = "done"]
           b == [a EXCEPT !.tx = x]
           c == [b EXCEPT !.pending = {}]
           d == [c EXCEPT !.ran = h]
           p == [d EXCEPT !.told = t]
<1>0. h \in SUBSET {"commit", "rollback"} /\ t \in {"nothing", "ok", "saved", "error"}
  OBVIOUS
<1>1. TX!RolledBack(q) = d
  BY DEF TX!RolledBack, TX!Hooks
<1>2. a \in Row
  BY SetAt
<1>3. b \in Row
  <2> HIDE DEF a
  <2> QED
    BY <1>2, SetTx, Fields
<1>4. c \in Row
  <2> HIDE DEF b
  <2> QED
    BY <1>3, SetPending
<1>5. d \in Row
  <2> HIDE DEF c, h
  <2> QED
    BY <1>0, <1>4, SetRan
<1>6. p \in Row
  <2> HIDE DEF d
  <2> QED
    BY <1>0, <1>5, SetTold
<1>7. p.at = "done" /\ p.done = q.done /\ p.told = t /\ p.hooks = q.hooks /\ p.ran = h
  BY DEF Row
<1>8. Ended(p, D)
  <2> HIDE DEF p
  <2> QED
    BY <1>7, Fields DEF Ended
<1> QED
  BY <1>1, <1>6, <1>7, <1>8

LEMMA Keeping ==
    ASSUME NEW q \in Row, q.ran = {}, q.told # "saved",
           NEW D, Whole(D, q.done)
    PROVE  TX!RolledBack(q) \in Row /\ TX!RolledBack(q).at = "done" /\ Ended(TX!RolledBack(q), D)
<1>1. q.told \in {"nothing", "ok", "error"}
  BY Fields
<1>2. TX!RolledBack(q) = [TX!RolledBack(q) EXCEPT !.told = q.told]
  BY DEF TX!RolledBack, Row
<1> QED
  BY <1>1, <1>2, GivenUp

\* What a commit makes of it: the answer that waited says so.
LEMMA Committing ==
    ASSUME NEW q \in Row, q.ran = {}, q.told # "saved",
           NEW D, Whole(D, q.done),
           q.early \/ q.done \cap TX!Required \subseteq D
    PROVE  /\ TX!Committed(q) \in Row /\ TX!Committed(q).at = "done"
           /\ Ended(TX!Committed(q), D)
<1> DEFINE h == IF q.hooks THEN {"commit"} ELSE {}
           t == IF q.deferred THEN "saved" ELSE q.told
           a == [q EXCEPT !.at = "done"]
           b == [a EXCEPT !.tx = "committed"]
           c == [b EXCEPT !.pending = {}]
           d == [c EXCEPT !.ran = h]
           p == [d EXCEPT !.told = t]
<1>0. h \in SUBSET {"commit", "rollback"} /\ t \in {"nothing", "ok", "saved", "error"}
  BY Fields
<1>1. TX!Committed(q) = p
  BY DEF TX!Committed, TX!Hooks, Row
<1>2. a \in Row
  BY SetAt
<1>3. b \in Row
  <2> HIDE DEF a
  <2> QED
    BY <1>2, SetTx
<1>4. c \in Row
  <2> HIDE DEF b
  <2> QED
    BY <1>3, SetPending
<1>5. d \in Row
  <2> HIDE DEF c, h
  <2> QED
    BY <1>0, <1>4, SetRan
<1>6. p \in Row
  <2> HIDE DEF d, t
  <2> QED
    BY <1>0, <1>5, SetTold
<1>7. /\ p.at = "done" /\ p.done = q.done /\ p.told = t /\ p.hooks = q.hooks /\ p.ran = h
      /\ p.early = q.early
  BY DEF Row
<1>8. Ended(p, D)
  <2> HIDE DEF p
  <2> QED
    BY <1>7, Fields DEF Ended
<1> QED
  BY <1>1, <1>6, <1>7, <1>8

\* What a request is told that gets no transaction, or a bad token.
Refusal(f, s) == [[f EXCEPT !.status = s] EXCEPT !.told = "error"]

LEMMA Refuses ==
    ASSUME NEW f \in Row, f.at = "done" /\ f.ran = {} /\ f.hooks = FALSE, NEW s \in CodeOf
    PROVE  Refusal(f, s) \in Row /\ Ended(Refusal(f, s), {})
<1> DEFINE g == [f EXCEPT !.status = s]
           h == [g EXCEPT !.told = "error"]
<1>1. g \in Row
  BY SetStatus
<1>2. g.at = "done" /\ g.ran = {} /\ g.hooks = FALSE
  BY DEF Row
<1>3. h = Refusal(f, s)
  BY DEF Refusal
<1> HIDE DEF g
<1>4. h \in Row
  BY <1>1, SetTold
<1>5. h.at = "done" /\ h.ran = {} /\ h.hooks = FALSE /\ h.told = "error"
  BY <1>1, <1>2 DEF Row
<1> HIDE DEF h
<1> QED
  BY <1>3, <1>4, <1>5 DEF Ended, Whole

\* A request begins, or is refused.
LEMMA Begins ==
    ASSUME HandlerInv, NEW r \in Request, TX!RLSTxMiddleware(r) \/ TX!PublicTokenMiddleware(r)
    PROVE  HandlerInv'
<1>1. PICK p : /\ TX!Becomes(r, p) /\ db' = db /\ request[r].at = "new"
               /\ \/ p = [TX!Fresh EXCEPT !.at = "handler", !.tx = "open"]
                  \/ p = [TX!Fresh EXCEPT !.at = "handler", !.by = "token", !.tx = "open"]
                  \/ p = [TX!Fresh EXCEPT !.at = "done", !.status = 500, !.told = "error"]
                  \/ \E s \in {400, 500} :
                        p = [TX!Fresh EXCEPT !.at = "done", !.by = "token", !.tx = "rolledback",
                                             !.status = s, !.told = "error"]
  BY DEF TX!RLSTxMiddleware, TX!PublicTokenMiddleware
<1>2. p \in Row /\ IF p.at = "done" THEN Ended(p, {}) ELSE Running(p, {})
  <2> DEFINE a == [TX!Fresh EXCEPT !.at = "handler"]
             b == [a EXCEPT !.by = "token"]
             c == [TX!Fresh EXCEPT !.at = "done"]
             d == [c EXCEPT !.by = "token"]
             e == [d EXCEPT !.tx = "rolledback"]
  <2>1. a \in Row /\ c \in Row
    BY FreshRow, SetAt
  <2>2. b \in Row /\ d \in Row
    <3> HIDE DEF a, c
    <3> QED
      BY <2>1, SetBy
  <2>3. e \in Row
    <3> HIDE DEF d
    <3> QED
      BY <2>2, SetTx
  <2>4. CASE p = [a EXCEPT !.tx = "open"] \/ p = [b EXCEPT !.tx = "open"]
    <3>1. p \in Row
      <4> HIDE DEF a, b
      <4> QED
        BY <2>1, <2>2, <2>4, SetTx
    <3>2. /\ p.at = "handler" /\ p.ran = {} /\ p.told = "nothing" /\ p.done = {}
          /\ p.pending = {} /\ p.early = FALSE
      <4>1. CASE p = [a EXCEPT !.tx = "open"]
        BY <4>1 DEF TX!Fresh
      <4>2. CASE p = [b EXCEPT !.tx = "open"]
        BY <4>2 DEF TX!Fresh
      <4> QED
        BY <2>4, <4>1, <4>2
    <3> QED
      BY <3>1, <3>2 DEF Running
  <2>6. /\ c.at = "done" /\ c.ran = {} /\ c.hooks = FALSE
        /\ e.at = "done" /\ e.ran = {} /\ e.hooks = FALSE
    BY DEF TX!Fresh
  <2>7. CASE \E s \in {400, 500} : \/ p = [[c EXCEPT !.status = s] EXCEPT !.told = "error"]
                                   \/ p = [[e EXCEPT !.status = s] EXCEPT !.told = "error"]
    <3> HIDE DEF c, e
    <3>1. PICK s \in {400, 500} : \/ p = [[c EXCEPT !.status = s] EXCEPT !.told = "error"]
                                  \/ p = [[e EXCEPT !.status = s] EXCEPT !.told = "error"]
      BY <2>7
    <3>2. s \in CodeOf
      BY DEF CodeOf
    <3>3. CASE p = [[c EXCEPT !.status = s] EXCEPT !.told = "error"]
      <4>1. c \in Row /\ c.at = "done" /\ c.ran = {} /\ c.hooks = FALSE
        BY <2>1, <2>6
      <4>2. c \in Row /\ s \in CodeOf
        BY <3>2, <4>1
      <4>3. Refusal(c, s) \in Row
        BY <4>1, <4>2, Refuses
      <4>4. p.at = "done"
        BY <3>3, <4>1 DEF Row
      <4>5. Ended(Refusal(c, s), {})
        BY <4>1, <4>2, Refuses
      <4>6. p = Refusal(c, s)
        BY <3>3 DEF Refusal
      <4> QED
        BY <4>3, <4>4, <4>5, <4>6
    <3>4. CASE p = [[e EXCEPT !.status = s] EXCEPT !.told = "error"]
      <4>1. e \in Row /\ e.at = "done" /\ e.ran = {} /\ e.hooks = FALSE
        BY <2>3, <2>6
      <4>2. e \in Row /\ s \in CodeOf
        BY <3>2, <4>1
      <4>3. Refusal(e, s) \in Row
        BY <4>1, <4>2, Refuses
      <4>4. p.at = "done"
        BY <3>4, <4>1 DEF Row
      <4>5. Ended(Refusal(e, s), {})
        BY <4>1, <4>2, Refuses
      <4>6. p = Refusal(e, s)
        BY <3>4 DEF Refusal
      <4> QED
        BY <4>3, <4>4, <4>5, <4>6
    <3> QED
      BY <3>1, <3>3, <3>4
  <2> QED
    BY <1>1, <2>4, <2>7
<1>3. Running(request[r], {}) => Sound(r, p, db)
  <2>1. Mine(r, db) = {}
    BY <1>1 DEF HandlerInv, Sound, Running
  <2> QED
    BY <1>2, <2>1 DEF Sound
<1> QED
  BY <1>1, <1>2, <1>3, NothingDurable

\* A statement of the handler.
LEMMA Handles ==
    ASSUME HandlerInv, NEW r \in Request,
           \/ \E w \in TX!Required : TX!Exec(r, w)
           \/ TX!bestEffort(r) \/ TX!afterCommit(r) \/ TX!Answer(r) \/ TX!jsonAfterCommit(r)
           \/ TX!FetchArticleContent(r) \/ TX!Disconnect(r) \/ TX!Panic(r)
    PROVE  HandlerInv'
<1> DEFINE q == request[r]
<1>0. /\ q \in Row /\ q.at = "handler" /\ db' = db
      /\ Running(q, {}) /\ Mine(r, db) = {}
  <2>1. q \in Row /\ q.at = "handler" /\ db' = db
    BY RequestType DEF HandlerInv, TX!Exec, TX!bestEffort, TX!afterCommit, TX!Answer,
       TX!jsonAfterCommit, TX!FetchArticleContent, TX!Disconnect, TX!Panic, TX!Handling
  <2>2. Running(q, Mine(r, db))
    BY <2>1 DEF HandlerInv, Sound
  <2> QED
    BY <2>1, <2>2 DEF Running
<1>a. SUFFICES \E p \in Row : TX!Becomes(r, p) /\ p.at # "done" /\ Running(p, {})
  BY <1>0, NothingDurable DEF Sound
<1>1. CASE \E w \in TX!Required : TX!Exec(r, w)
  <2>1. PICK w \in TX!Required : TX!Exec(r, w)
    BY <1>1
  <2>2. w \notin q.done /\ w \in TX!Write /\ ~q.early
    BY <2>1, <1>0 DEF TX!Exec, Running, TX!Write
  <2> DEFINE D == q.done \cup {w}
             a == [q EXCEPT !.done = D]
  <2>3. D \in SUBSET TX!Write
    BY <1>0, <2>2, Fields
  <2>4. a \in Row
    <3> HIDE DEF q, D
    <3> QED
      BY <1>0, <2>3, SetDone
  <2>5. CASE TX!Usable(q) /\ TX!Becomes(r, [q EXCEPT !.done = @ \cup {w}, !.pending = @ \cup {w}])
    <3> DEFINE P == q.pending \cup {w}
               p == [a EXCEPT !.pending = P]
    <3>1. p = [q EXCEPT !.done = @ \cup {w}, !.pending = @ \cup {w}]
      OBVIOUS
    <3>2. P \in SUBSET TX!Write
      BY <1>0, <2>2, Fields
    <3>3. p \in Row
      <4> HIDE DEF a, P
      <4> QED
        BY <2>4, <3>2, SetPending
    <3>4. /\ p.at = q.at /\ p.ran = q.ran /\ p.told = q.told /\ p.tx = q.tx
          /\ p.done = D /\ p.pending = P /\ p.early = q.early
      BY <1>0 DEF Row
    <3>5. Running(p, {})
      <4> HIDE DEF p
      <4> QED
        BY <1>0, <2>2, <3>4 DEF Running
    <3> QED
      BY <1>0, <2>5, <3>1, <3>3, <3>4, <3>5
  <2>6. CASE \E e \in BOOLEAN :
                TX!Becomes(r, [q EXCEPT !.done = @ \cup {w}, !.errors = @ \/ e,
                                        !.tx = IF q.tx = "open" THEN "aborted" ELSE @])
    <3>1. PICK e \in BOOLEAN :
                TX!Becomes(r, [q EXCEPT !.done = @ \cup {w}, !.errors = @ \/ e,
                                        !.tx = IF q.tx = "open" THEN "aborted" ELSE @])
      BY <2>6
    <3> DEFINE x == IF q.tx = "open" THEN "aborted" ELSE q.tx
               f == q.errors \/ e
               b == [a EXCEPT !.errors = f]
               p == [b EXCEPT !.tx = x]
    <3>2. p = [q EXCEPT !.done = @ \cup {w}, !.errors = @ \/ e,
                        !.tx = IF q.tx = "open" THEN "aborted" ELSE @]
      OBVIOUS
    <3>3. f \in BOOLEAN
      OBVIOUS
    <3>4. x \in {"none", "open", "aborted", "committed", "rolledback"}
      BY <1>0, Fields
    <3>5. b \in Row
      <4> HIDE DEF a, f
      <4> QED
        BY <2>4, <3>3, SetErrors
    <3>6. p \in Row
      <4> HIDE DEF b, x
      <4> QED
        BY <3>4, <3>5, SetTx
    <3>7. /\ p.at = q.at /\ p.ran = q.ran /\ p.told = q.told /\ p.tx = x
          /\ p.done = D /\ p.pending = q.pending /\ p.early = q.early
      BY <1>0 DEF Row
    <3>8. Running(p, {})
      <4> HIDE DEF p
      <4> QED
        BY <1>0, <2>2, <3>7 DEF Running
    <3> QED
      BY <1>0, <3>1, <3>2, <3>6, <3>7, <3>8
  <2> QED
    BY <2>1, <2>5, <2>6 DEF TX!Exec
<1>2. CASE TX!bestEffort(r)
  <2>1. "extra" \notin q.done /\ "extra" \in TX!Write /\ "extra" \notin TX!Required /\ ~q.early
    BY <1>2, <1>0 DEF TX!bestEffort, Running, TX!Write, TX!Required
  <2> DEFINE D == q.done \cup {"extra"}
             a == [q EXCEPT !.done = D]
             P == q.pending \cup {"extra"}
             p == [a EXCEPT !.pending = P]
  <2>2. D \in SUBSET TX!Write /\ P \in SUBSET TX!Write
    BY <1>0, <2>1, Fields
  <2>3. a \in Row
    <3>1. q \in Row /\ D \in SUBSET TX!Write
      BY <1>0, <2>2
    <3> HIDE DEF q, D
    <3> QED
      BY <3>1, SetDone
  <2>4. p \in Row
    <3> HIDE DEF a, P
    <3> QED
      BY <2>2, <2>3, SetPending
  <2>5. /\ p.at = q.at /\ p.ran = q.ran /\ p.told = q.told /\ p.tx = q.tx
        /\ p.done = D /\ p.pending = P /\ p.early = q.early
        /\ a.at = q.at /\ a.ran = q.ran /\ a.told = q.told /\ a.tx = q.tx
        /\ a.done = D /\ a.pending = q.pending /\ a.early = q.early
    BY <1>0 DEF Row
  <2>6. Running(p, {}) /\ Running(a, {})
    <3> HIDE DEF p, a
    <3> QED
      BY <1>0, <2>1, <2>5 DEF Running
  <2>7. TX!Becomes(r, p) \/ TX!Becomes(r, a)
    BY <1>2 DEF TX!bestEffort
  <2>8. p.at # "done" /\ a.at # "done"
    BY <1>0, <2>5
  <2> HIDE DEF p, a
  <2> QED
    BY <2>3, <2>4, <2>6, <2>7, <2>8
<1>3. CASE TX!afterCommit(r)
  <2> DEFINE p == [q EXCEPT !.hooks = TRUE]
  <2>1. p \in Row
    BY <1>0, SetHooks
  <2>2. /\ p.at = q.at /\ p.ran = q.ran /\ p.told = q.told /\ p.tx = q.tx
        /\ p.done = q.done /\ p.pending = q.pending /\ p.early = q.early
    BY <1>0 DEF Row
  <2>3. Running(p, {})
    <3> HIDE DEF p
    <3> QED
      BY <1>0, <2>2 DEF Running
  <2> QED
    BY <1>0, <1>3, <2>1, <2>2, <2>3 DEF TX!afterCommit
<1>4. CASE TX!Answer(r)
  <2>1. PICK s \in {200, 400, 500} :
             TX!Becomes(r, [q EXCEPT !.status = s, !.sent = TRUE,
                                     !.told = IF s = 200 THEN "ok" ELSE "error"])
    BY <1>4 DEF TX!Answer
  <2> DEFINE t == IF s = 200 THEN "ok" ELSE "error"
             a == [q EXCEPT !.status = s]
             b == [a EXCEPT !.sent = TRUE]
             p == [b EXCEPT !.told = t]
  <2>2. t \in {"nothing", "ok", "saved", "error"} /\ t # "saved"
    OBVIOUS
  <2>3. a \in Row
    <3>1. q \in Row /\ s \in CodeOf
      BY <1>0 DEF CodeOf
    <3> HIDE DEF q
    <3> QED
      BY <3>1, SetStatus
  <2>4. b \in Row
    <3> HIDE DEF a
    <3> QED
      BY <2>3, SetSent
  <2>5. p \in Row
    <3> HIDE DEF b, t
    <3> QED
      BY <2>2, <2>4, SetTold
  <2>6. /\ p.at = q.at /\ p.ran = q.ran /\ p.told = t /\ p.tx = q.tx
        /\ p.done = q.done /\ p.pending = q.pending /\ p.early = q.early
    BY <1>0 DEF Row
  <2>7. Running(p, {})
    <3> HIDE DEF p, t
    <3> QED
      BY <1>0, <2>2, <2>6 DEF Running
  <2>8. TX!Becomes(r, p)
    BY <2>1
  <2>9. p.at # "done"
    BY <1>0, <2>6
  <2> HIDE DEF p
  <2> QED
    BY <2>5, <2>7, <2>8, <2>9
<1>5. CASE TX!jsonAfterCommit(r)
  <2> DEFINE p == [q EXCEPT !.deferred = TRUE]
  <2>1. p \in Row
    BY <1>0, SetDeferred
  <2>2. /\ p.at = q.at /\ p.ran = q.ran /\ p.told = q.told /\ p.tx = q.tx
        /\ p.done = q.done /\ p.pending = q.pending /\ p.early = q.early
    BY <1>0 DEF Row
  <2>3. Running(p, {})
    <3> HIDE DEF p
    <3> QED
      BY <1>0, <2>2 DEF Running
  <2> QED
    BY <1>0, <1>5, <2>1, <2>2, <2>3 DEF TX!jsonAfterCommit
<1>6. CASE TX!FetchArticleContent(r)
  <2>1. CASE TX!Usable(q)
    <3> DEFINE a == [q EXCEPT !.tx = "committed"]
               b == [a EXCEPT !.early = TRUE]
               p == [b EXCEPT !.done = TX!Write]
    <3>1. a \in Row
      BY <1>0, SetTx
    <3>2. b \in Row
      <4> HIDE DEF a
      <4> QED
        BY <3>1, SetEarly
    <3>3. p \in Row
      <4> HIDE DEF b
      <4> QED
        BY <3>2, SetDone
    <3>4. /\ p.at = q.at /\ p.ran = q.ran /\ p.told = q.told /\ p.tx = "committed"
          /\ p.done = TX!Write /\ p.pending = q.pending /\ p.early
      BY <1>0 DEF Row
    <3>5. q.done = {}
      BY <1>6 DEF TX!FetchArticleContent
    <3>6. Running(p, {})
      <4> HIDE DEF p
      <4> QED
        BY <1>0, <3>4, <3>5, Fields DEF Running
    <3>7. TX!Becomes(r, p)
      BY <1>6, <2>1 DEF TX!FetchArticleContent
    <3> QED
      BY <1>0, <3>3, <3>4, <3>6, <3>7
  <2>2. CASE ~TX!Usable(q)
    <3> DEFINE a == [q EXCEPT !.status = 500]
               b == [a EXCEPT !.sent = TRUE]
               p == [b EXCEPT !.told = "error"]
    <3>1. a \in Row
      <4>1. 500 \in CodeOf /\ q \in Row
        BY <1>0 DEF CodeOf
      <4> QED
        BY <4>1, SetStatus
    <3>2. b \in Row
      <4> HIDE DEF a
      <4> QED
        BY <3>1, SetSent
    <3>3. p \in Row
      <4> HIDE DEF b
      <4> QED
        BY <3>2, SetTold
    <3>4. /\ p.at = q.at /\ p.ran = q.ran /\ p.told = "error" /\ p.tx = q.tx
          /\ p.done = q.done /\ p.pending = q.pending /\ p.early = q.early
      BY <1>0 DEF Row
    <3>5. Running(p, {})
      <4> HIDE DEF p
      <4> QED
        BY <1>0, <3>4 DEF Running
    <3>6. TX!Becomes(r, p)
      BY <1>6, <2>2 DEF TX!FetchArticleContent
    <3> QED
      BY <1>0, <3>3, <3>4, <3>5, <3>6
  <2> QED
    BY <2>1, <2>2
<1>7. CASE TX!Disconnect(r)
  <2> DEFINE p == [q EXCEPT !.tx = "aborted"]
  <2>1. p \in Row
    BY <1>0, SetTx
  <2>2. /\ p.at = q.at /\ p.ran = q.ran /\ p.told = q.told /\ p.tx = "aborted"
        /\ p.done = q.done /\ p.pending = q.pending /\ p.early = q.early
    BY <1>0 DEF Row
  <2>3. Running(p, {})
    <3> HIDE DEF p
    <3> QED
      BY <1>0, <2>2 DEF Running
  <2> QED
    BY <1>0, <1>7, <2>1, <2>2, <2>3 DEF TX!Disconnect
<1>8. CASE TX!Panic(r)
  <2> DEFINE p == [q EXCEPT !.at = "panic"]
  <2>1. p \in Row
    BY <1>0, SetAt
  <2>2. /\ p.at = "panic" /\ p.ran = q.ran /\ p.told = q.told /\ p.tx = q.tx
        /\ p.done = q.done /\ p.pending = q.pending /\ p.early = q.early
    BY <1>0 DEF Row
  <2>3. Running(p, {})
    <3> HIDE DEF p
    <3> QED
      BY <1>0, <2>2 DEF Running
  <2> QED
    BY <1>0, <1>8, <2>1, <2>2, <2>3 DEF TX!Panic
<1> QED
  BY <1>1, <1>2, <1>3, <1>4, <1>5, <1>6, <1>7, <1>8

\* A handler returned or panicked, and what it wrote is there or not.
LEMMA Ends ==
    ASSUME HandlerInv, NEW r \in Request, TX!Recover(r) \/ TX!End(r)
    PROVE  HandlerInv'
<1> DEFINE q == request[r]
           made == {<<r, w>> : w \in q.pending}
<1>0. /\ q \in Row /\ q.at \in {"handler", "panic"} /\ Running(q, {}) /\ Mine(r, db) = {}
      /\ db \subseteq Request \X TX!Write
  <2>1. q \in Row /\ q.at \in {"handler", "panic"} /\ db \subseteq Request \X TX!Write
    BY RequestType DEF HandlerInv, TX!Recover, TX!End, TX!Handling
  <2>2. Running(q, Mine(r, db))
    BY <2>1 DEF HandlerInv, Sound
  <2> QED
    BY <2>1, <2>2 DEF Running
<1>1. q.ran = {} /\ q.told # "saved" /\ q.told \in {"nothing", "ok", "saved", "error"}
  BY <1>0, Fields DEF Running
<1>2. /\ db \cup made \subseteq Request \X TX!Write
      /\ \A e \in Request : e # r => Mine(e, db \cup made) = Mine(e, db)
      /\ Mine(r, db \cup made) = q.pending
  BY <1>0, Fields DEF Mine
<1>3. /\ Whole({}, q.done)
      /\ TX!Usable(q) => /\ Whole(q.pending, q.done)
                         /\ q.done \cap TX!Required \subseteq q.pending
  BY <1>0 DEF TX!Usable, Running, Whole
<1>4. ASSUME NEW p \in Row, NEW d, d \in {db, db \cup made}, TX!Becomes(r, p), db' = d,
             p.at = "done", Ended(p, Mine(r, d))
      PROVE  HandlerInv'
  BY <1>0, <1>2, <1>4, OneRequest DEF Sound
<1> HIDE DEF q, made
<1>5. ASSUME NEW d \in {db, db \cup made}, db' = d, d = db \/ TX!Usable(q), TX!Becomes(r, TX!Rejected(q))
      PROVE  HandlerInv'
  <2> DEFINE t == IF q.deferred /\ ~q.sent THEN "error" ELSE q.told
             p == [TX!RolledBack(q) EXCEPT !.told = t]
  <2>1. t \in {"nothing", "ok", "error"}
    BY <1>1
  <2>2. TX!Rejected(q) = p
    BY DEF TX!Rejected, TX!RolledBack
  <2>3. Whole(Mine(r, d), q.done)
    BY <1>0, <1>2, <1>3, <1>5
  <2>4. p \in Row /\ p.at = "done" /\ Ended(p, Mine(r, d))
    <3> DEFINE D == Mine(r, d)
    <3>1. Whole(D, q.done)
      BY <2>3
    <3>4. p = [TX!RolledBack(q) EXCEPT !.told = t]
      OBVIOUS
    <3> HIDE DEF t, D, p
    <3>2. p \in Row /\ p.at = "done" /\ Ended(p, D)
      <4>1. q \in Row /\ q.ran = {}
        BY <1>0, <1>1
      <4> QED
        BY <2>1, <3>1, <3>4, <4>1, GivenUp
    <3> QED
      BY <3>2 DEF D
  <2> HIDE DEF p
  <2> QED
    BY <1>4, <1>5, <2>2, <2>4
<1>6. CASE TX!Recover(r)
  <2> DEFINE t == IF q.sent THEN q.told ELSE "error"
             p == [TX!RolledBack(q) EXCEPT !.told = t]
  <2>1. t \in {"nothing", "ok", "error"}
    BY <1>1
  <2>2. TX!Becomes(r, p) /\ db' = db
    BY <1>6 DEF TX!Recover, TX!RolledBack, q
  <2>3. p \in Row /\ p.at = "done" /\ Ended(p, {})
    <3> HIDE DEF t
    <3> QED
      BY <1>0, <1>1, <1>3, <2>1, GivenUp
  <2> HIDE DEF p
  <2> QED
    BY <1>0, <1>4, <2>2, <2>3
<1>7. CASE TX!End(r)
  <2>1. CASE q.early /\ TX!Becomes(r, TX!Committed(q)) /\ UNCHANGED db
    BY <1>0, <1>1, <1>3, <1>4, <2>1, Committing
  <2>2. CASE TX!Becomes(r, TX!RolledBack(q)) /\ UNCHANGED db
    BY <1>0, <1>1, <1>3, <1>4, <2>2, Keeping
  <2>3. CASE TX!Usable(q) /\ db' = db \cup made /\ TX!Becomes(r, TX!Committed(q))
    BY <1>0, <1>1, <1>2, <1>3, <1>4, <2>3, Committing
  <2>4. CASE TX!Becomes(r, TX!Rejected(q)) /\ UNCHANGED db
    BY <1>5, <2>4
  <2>5. CASE TX!Usable(q) /\ db' = db \cup made /\ TX!Becomes(r, TX!Rejected(q))
    BY <1>5, <2>5
  <2> QED
    BY <1>7, <2>1, <2>2, <2>3, <2>4, <2>5 DEF TX!End, q, made
<1> QED
  BY <1>6, <1>7

LEMMA RequestStep == ASSUME HandlerInv, [TX!Next]_(TX!vars) PROVE HandlerInv'
<1>1. CASE UNCHANGED TX!vars
  BY <1>1 DEF TX!vars, HandlerInv, TX!TypeOK, Sound, Mine
<1> QED
  BY <1>1, Begins, Handles, Ends DEF TX!Next

\* A client that is told its work is saved finds it saved, and work left for
\* after the commit starts from durable data (committed_json.go, after_commit.go).
THEOREM SavedMeansDurableAlways == TX!Spec => []TX!SavedMeansDurable
<1>1. HandlerInv => TX!SavedMeansDurable
  BY Fields, RequestType DEF HandlerInv, Sound, Running, Ended, Mine, TX!SavedMeansDurable
<1> QED
  BY <1>1, RequestInit, RequestStep, PTL DEF TX!Spec

\* The required writes of a request are durable together or not at all, and one
\* of its two kinds of hooks runs (RLSTxMiddleware).
THEOREM AllOrNothingAlways == TX!Spec => []TX!AllOrNothing
<1>1. ASSUME HandlerInv PROVE TX!AllOrNothing
  <2> SUFFICES ASSUME NEW r \in Request
               PROVE  /\ Mine(r, db) \cap TX!Required \in {{}, request[r].done \cap TX!Required}
                      /\ IF request[r].at = "done" /\ request[r].hooks
                         THEN request[r].ran \in {{"commit"}, {"rollback"}}
                         ELSE request[r].ran = {}
    BY DEF TX!AllOrNothing, Mine
  <2> QED
    BY <1>1 DEF HandlerInv, Sound, Running, Ended, Whole
<1> QED
  BY <1>1, RequestInit, RequestStep, PTL DEF TX!Spec

-----------------------------------------------------------------------------
(* Links: a row is made once and only ever revoked.                           *)

ShareRow == [by : Owner \cup {"none"}, snapshot : SH!Version, expires : 0..SH!Never,
             revoked : BOOLEAN]
Creation == [on : BOOLEAN, snapshot : SH!Version, expires : 0..SH!Never, attempt : Nat]

SharingInv ==
    /\ now \in 0..MaxTime /\ article \in SH!Version
    /\ share \in [Code -> ShareRow] /\ creating \in [Owner -> Creation]

LEMMA SharingInit == ASSUME SH!SharingAssumption PROVE SH!Init => SharingInv
BY DEF SH!SharingAssumption, SH!Init, SharingInv, ShareRow, Creation, SH!NoShare, SH!Resting,
   SH!Version, SH!Never

\* What is left of a link that was handed out.
Settles == \A c \in Code : share[c] # SH!NoShare =>
    /\ share'[c].by = share[c].by /\ share'[c].snapshot = share[c].snapshot
    /\ share'[c].expires = share[c].expires /\ (share[c].revoked => share'[c].revoked)

LEMMA Settled ==
    ASSUME SH!SharingAssumption, SharingInv, SharingInv', Settles, now' >= now
    PROVE  SH!LinkSettledStep
<1> SUFFICES ASSUME NEW c \in Code, share[c] # SH!NoShare
             PROVE  /\ SH!GetPublic(c)' \in {0, SH!GetPublic(c)}
                    /\ share'[c].by = share[c].by
  BY DEF SH!LinkSettledStep
<1>1. /\ share[c] \in ShareRow /\ share'[c] \in ShareRow /\ now \in Nat /\ now' \in Nat
  BY DEF SharingInv, SH!SharingAssumption
<1>2. share[c].expires \in Nat
  BY <1>1 DEF ShareRow, SH!Never, SH!SharingAssumption
<1>3. SH!GetActive(c)' => SH!GetActive(c)
  BY <1>1, <1>2 DEF SH!GetActive, Settles, ShareRow
<1> QED
  BY <1>3 DEF SH!GetPublic, Settles

LEMMA SharingStep ==
    ASSUME SH!SharingAssumption, SharingInv, [SH!Next]_(SH!vars)
    PROVE  SharingInv' /\ SH!LinkSettledStep
<1>0. /\ now \in 0..MaxTime /\ article \in SH!Version /\ MaxTime \in Nat /\ MaxVersion \in Nat
      /\ share \in [Code -> ShareRow] /\ creating \in [Owner -> Creation] /\ "none" \notin Owner
  BY DEF SharingInv, SH!SharingAssumption
<1>1. CASE SH!Tick \/ SH!Edit \/ UNCHANGED SH!vars
  <2>1. SharingInv' /\ now' >= now /\ share' = share
    BY <1>0, <1>1 DEF SH!Tick, SH!Edit, SH!vars, SharingInv, SH!Version
  <2> QED
    BY <2>1, Settled DEF Settles
<1>2. ASSUME NEW o \in Owner, SH!Create(o)
      PROVE  SharingInv' /\ SH!LinkSettledStep
  <2>1. PICK e \in (now + 1)..SH!Never :
          creating' = [creating EXCEPT ![o] = [on |-> TRUE, snapshot |-> article,
                                               expires |-> e, attempt |-> 0]]
    BY <1>2 DEF SH!Create
  <2>2. [on |-> TRUE, snapshot |-> article, expires |-> e, attempt |-> 0] \in Creation
    BY <1>0 DEF Creation, SH!Never
  <2>3. UNCHANGED <<now, article, share>>
    BY <1>2 DEF SH!Create
  <2>4. SharingInv'
    BY <1>0, <2>1, <2>2, <2>3 DEF SharingInv
  <2> QED
    BY <1>0, <2>3, <2>4, Settled DEF Settles
<1>3. ASSUME NEW o \in Owner, SH!CreateWithShortCode(o)
      PROVE  SharingInv' /\ SH!LinkSettledStep
  <2> DEFINE q == creating[o]
             made == [by |-> o, snapshot |-> q.snapshot, expires |-> q.expires, revoked |-> FALSE]
  <2>1. UNCHANGED <<now, article>> /\ q \in Creation
    BY <1>0, <1>3 DEF SH!CreateWithShortCode
  <2>2. made \in ShareRow /\ SH!Resting \in Creation /\ [q EXCEPT !.attempt = @ + 1] \in Creation
    BY <1>0, <2>1 DEF ShareRow, Creation, SH!Resting, SH!Version, SH!Never
  <2> HIDE DEF made
  <2>3. CASE \E c \in Code : /\ SH!Free(c) /\ share' = [share EXCEPT ![c] = made]
                             /\ creating' = [creating EXCEPT ![o] = SH!Resting]
    <3>1. SharingInv'
      BY <1>0, <2>1, <2>2, <2>3 DEF SharingInv
    <3>2. Settles
      BY <1>0, <2>3 DEF Settles, SH!Free
    <3> QED
      BY <1>0, <2>1, <3>1, <3>2, Settled
  <2>4. CASE /\ UNCHANGED share
             /\ creating' = [creating EXCEPT ![o] = IF q.attempt + 1 = MaxAttempts
                                                    THEN SH!Resting ELSE [q EXCEPT !.attempt = @ + 1]]
    <3>1. SharingInv'
      BY <1>0, <2>1, <2>2, <2>4 DEF SharingInv
    <3> QED
      BY <1>0, <2>1, <2>4, <3>1, Settled DEF Settles
  <2> QED
    BY <1>3, <2>3, <2>4 DEF SH!CreateWithShortCode, made
<1>4. ASSUME NEW o \in Owner, NEW c \in Code, SH!Revoke(o, c)
      PROVE  SharingInv' /\ SH!LinkSettledStep
  <2>1. /\ UNCHANGED <<now, article, creating>>
        /\ share' = [share EXCEPT ![c].revoked = TRUE]
    BY <1>4 DEF SH!Revoke
  <2>2. SharingInv'
    BY <1>0, <2>1 DEF SharingInv, ShareRow
  <2>3. Settles
    BY <1>0, <2>1 DEF Settles, ShareRow
  <2> QED
    BY <1>0, <2>1, <2>2, <2>3, Settled
<1> QED
  BY <1>1, <1>2, <1>3, <1>4 DEF SH!Next

\* A link shows one text as long as it works, and never works again once it has
\* been revoked or has expired (CreateWithShortCode, GetPublic).
THEOREM LinkSettledAlways == ASSUME SH!SharingAssumption PROVE SH!Spec => SH!LinkSettled
BY SharingInit, SharingStep, PTL DEF SH!Spec, SH!LinkSettled

-----------------------------------------------------------------------------
(* The phone's shortcut: who holds the user's row, and what it keeps as it    *)
(* was found.                                                                 *)

Phone == [does : {"none", "pair", "connect", "revoke", "capture"},
          at : {"new", "read", "locked", "done"},
          secret : Secret \cup {Nobody}, key : Secret \cup {Nobody}]

ShortcutType ==
    /\ now \in 0..MaxTime /\ request \in [Request -> Phone]
    /\ pairing \in [code : Secret \cup {Nobody}, until : Nat]
    /\ connection \subseteq Secret /\ spent \subseteq Secret \X Secret
    /\ owner \in Request \cup {Nobody} /\ sharers \subseteq Request

Alone(r) == request[r].at = "locked" /\ request[r].does \in {"pair", "connect", "revoke"}

HolderInv ==
    /\ \A r \in Request : Alone(r) <=> owner = r
    /\ \A r \in Request : r \in sharers <=> SC!Is(r, "capture", "locked")
    /\ owner # Nobody => sharers = {}

SpentInv ==
    /\ pairing.code = Nobody => pairing.until = 0
    /\ \A p \in spent : p[1] # pairing.code

KeyInv == \A r \in Request : SC!Is(r, "capture", "locked") => request[r].key \in connection

ShortcutInv == ShortcutType /\ HolderInv /\ SpentInv /\ KeyInv /\ SC!RevokedIsRevoked

LEMMA ShortcutInit == ASSUME SC!ShortcutAssumption PROVE SC!Init => ShortcutInv
<1> SUFFICES ASSUME SC!Init PROVE ShortcutInv
  OBVIOUS
<1>1. ShortcutType
  BY DEF SC!ShortcutAssumption, SC!Init, ShortcutType, SC!NoCode, SC!New, SC!Phase, Phone
<1> QED
  BY <1>1 DEF SC!ShortcutAssumption, SC!Init, ShortcutInv, HolderInv, SpentInv, KeyInv, Alone,
     SC!Is, SC!New, SC!Phase, SC!NoCode, SC!RevokedIsRevoked

\* A request's row is its own.
LEMMA OwnRow ==
    ASSUME ShortcutType, NEW r \in Request, NEW q \in Phone, SC!Becomes(r, q)
    PROVE  /\ request' \in [Request -> Phone] /\ request'[r] = q
           /\ \A e \in Request : e # r => request'[e] = request[e]
BY DEF ShortcutType, SC!Becomes

LEMMA Rows ==
    ASSUME NEW q \in Phone
    PROVE  /\ SC!Done \in Phone /\ SC!New \in Phone
           /\ SC!Done.at = "done" /\ SC!New.at = "new"
           /\ [q EXCEPT !.at = "locked"] \in Phone
BY DEF Phone, SC!Done, SC!New, SC!Phase

\* A request takes the row for itself.
LEMMA TakesRow ==
    ASSUME SC!ShortcutAssumption, ShortcutInv, NEW r \in Request, NEW q \in Phone,
           SC!Becomes(r, q), SC!lockShortcutUser(r), request[r].at \in {"new", "read"},
           q.at = "locked", q.does \in {"pair", "connect", "revoke"},
           UNCHANGED <<now, pairing, connection, spent, captured>>
    PROVE  ShortcutInv'
<1>1. /\ request' \in [Request -> Phone] /\ request'[r] = q
      /\ \A e \in Request : e # r => request'[e] = request[e]
  BY OwnRow DEF ShortcutInv
<1>2. sharers = {} /\ owner = Nobody /\ owner' = r /\ sharers' = sharers
  BY DEF SC!lockShortcutUser, ShortcutInv, HolderInv, SC!Is, ShortcutType
<1>3. ShortcutType'
  BY <1>1, <1>2 DEF ShortcutInv, ShortcutType
<1>4. HolderInv'
  BY <1>1, <1>2 DEF ShortcutInv, HolderInv, Alone, SC!Is, SC!ShortcutAssumption
<1>5. SpentInv' /\ KeyInv' /\ SC!RevokedIsRevoked'
  BY <1>1 DEF ShortcutInv, SpentInv, KeyInv, SC!Is, SC!RevokedIsRevoked
<1> QED
  BY <1>3, <1>4, <1>5 DEF ShortcutInv

\* A request that held the row, or none, has ended and lets go.
LEMMA LetsGo ==
    ASSUME SC!ShortcutAssumption, ShortcutInv, NEW r \in Request, SC!Becomes(r, SC!Done),
           SC!Unlock(r)
    PROVE  /\ request' \in [Request -> Phone]
           /\ owner' \in Request \cup {Nobody} /\ sharers' \subseteq Request
           /\ HolderInv'
           /\ \A e \in Request : SC!Is(e, "capture", "locked")' =>
                 SC!Is(e, "capture", "locked") /\ request'[e] = request[e]
<1>1. /\ request' \in [Request -> Phone] /\ request'[r] = SC!Done /\ SC!Done.at = "done"
      /\ \A e \in Request : e # r => request'[e] = request[e]
  <2>1. request[r] \in Phone
    BY DEF ShortcutInv, ShortcutType
  <2> QED
    BY <2>1, OwnRow, Rows DEF ShortcutInv
<1>2. owner' = (IF owner = r THEN Nobody ELSE owner) /\ sharers' = sharers \ {r}
  BY DEF SC!Unlock
<1>3. HolderInv'
  BY <1>1, <1>2 DEF ShortcutInv, HolderInv, Alone, SC!Is, SC!ShortcutAssumption, ShortcutType
<1> QED
  BY <1>1, <1>2, <1>3 DEF ShortcutInv, ShortcutType, SC!Is

\* Nothing is locked or let go, and only what is no lock holder changes.
LEMMA Waits ==
    ASSUME SC!ShortcutAssumption, ShortcutInv, NEW r \in Request, NEW q \in Phone,
           SC!Becomes(r, q), request[r].at \in {"new", "read"}, q.at \in {"read", "done"},
           UNCHANGED <<now, pairing, connection, owner, sharers, spent, captured>>
    PROVE  ShortcutInv'
<1>1. /\ request' \in [Request -> Phone] /\ request'[r] = q
      /\ \A e \in Request : e # r => request'[e] = request[e]
  BY OwnRow DEF ShortcutInv
<1>2. ShortcutType'
  BY <1>1 DEF ShortcutInv, ShortcutType
<1>3. HolderInv'
  BY <1>1 DEF ShortcutInv, HolderInv, Alone, SC!Is
<1>4. SpentInv' /\ KeyInv' /\ SC!RevokedIsRevoked'
  BY <1>1 DEF ShortcutInv, SpentInv, KeyInv, SC!Is, SC!RevokedIsRevoked
<1> QED
  BY <1>2, <1>3, <1>4 DEF ShortcutInv

LEMMA ShortcutStep ==
    ASSUME SC!ShortcutAssumption, ShortcutInv, [SC!Next]_(SC!vars)
    PROVE  ShortcutInv'
<1>0. /\ now \in 0..MaxTime /\ request \in [Request -> Phone] /\ MaxTime \in Nat
      /\ pairing \in [code : Secret \cup {Nobody}, until : Nat]
      /\ connection \subseteq Secret /\ spent \subseteq Secret \X Secret
      /\ Nobody \notin Secret /\ Nobody \notin Request
  BY DEF ShortcutInv, ShortcutType, SC!ShortcutAssumption
<1>1. CASE SC!Tick \/ UNCHANGED SC!vars
  <2>1. ShortcutType' /\ UNCHANGED <<pairing, connection, request, owner, sharers, spent, captured>>
    BY <1>0, <1>1 DEF SC!Tick, SC!vars, ShortcutInv, ShortcutType
  <2> QED
    BY <2>1 DEF ShortcutInv, HolderInv, SpentInv, KeyInv, Alone, SC!Is, SC!RevokedIsRevoked
<1>2. ASSUME NEW r \in Request, SC!Pair(r) \/ SC!Revoke(r)
      PROVE  ShortcutInv'
  <2>1. PICK d \in {"pair", "revoke"} :
          SC!Becomes(r, SC!Phase(d, "locked", Nobody, Nobody))
    BY <1>2 DEF SC!Pair, SC!Revoke
  <2> DEFINE q == SC!Phase(d, "locked", Nobody, Nobody)
  <2>2. SC!Becomes(r, q) /\ q \in Phone
    BY <2>1 DEF Phone, SC!Phase
  <2>3. q.at = "locked" /\ q.does \in {"pair", "connect", "revoke"}
    BY <2>1 DEF SC!Phase
  <2>4. request[r].at = "new"
    BY <1>2 DEF SC!Pair, SC!Revoke, SC!New, SC!Phase
  <2>5. SC!lockShortcutUser(r) /\ UNCHANGED <<now, pairing, connection, spent, captured>>
    BY <1>2 DEF SC!Pair, SC!Revoke
  <2> HIDE DEF q
  <2> QED
    BY <2>2, <2>3, <2>4, <2>5, TakesRow
<1>3. ASSUME NEW r \in Request, SC!LockConnect(r)
      PROVE  ShortcutInv'
  <2> DEFINE q == [request[r] EXCEPT !.at = "locked"]
  <2>1. q \in Phone /\ q.at = "locked" /\ q.does = "connect"
    BY <1>0, <1>3 DEF SC!LockConnect, SC!Is, Phone
  <2>2. SC!Becomes(r, q) /\ SC!lockShortcutUser(r) /\ request[r].at = "read"
    BY <1>3 DEF SC!LockConnect, SC!Is
  <2>3. UNCHANGED <<now, pairing, connection, spent, captured>>
    BY <1>3 DEF SC!LockConnect
  <2> HIDE DEF q
  <2> QED
    BY <2>1, <2>2, <2>3, TakesRow
<1>4. ASSUME NEW r \in Request,
             SC!Rollback(r) \/ SC!CommitPair(r) \/ SC!CommitConnect(r) \/ SC!CommitRevoke(r)
                \/ SC!CommitCapture(r)
      PROVE  ShortcutInv'
  <2>1. SC!Becomes(r, SC!Done) /\ SC!Unlock(r) /\ now' = now /\ request[r].at = "locked"
    BY <1>4 DEF SC!Rollback, SC!CommitPair, SC!CommitConnect, SC!CommitRevoke, SC!CommitCapture,
       SC!Is
  <2>2. /\ request' \in [Request -> Phone]
        /\ owner' \in Request \cup {Nobody} /\ sharers' \subseteq Request
        /\ HolderInv'
        /\ \A e \in Request : SC!Is(e, "capture", "locked")' =>
              SC!Is(e, "capture", "locked") /\ request'[e] = request[e]
    BY <2>1, LetsGo
  <2>3. CASE SC!Rollback(r)
    <3>1. UNCHANGED <<pairing, connection, spent, captured>>
      BY <2>3 DEF SC!Rollback
    <3> QED
      BY <1>0, <2>1, <2>2, <3>1 DEF ShortcutInv, ShortcutType, SpentInv, KeyInv,
         SC!RevokedIsRevoked
  <2>4. CASE SC!CommitPair(r)
    <3>1. PICK s \in Secret \ SC!Drawn : pairing' = [code |-> s, until |-> now + 1]
      BY <2>4 DEF SC!CommitPair
    <3>2. \A p \in spent : p[1] # s
      BY <3>1 DEF SC!Drawn
    <3>3. UNCHANGED <<connection, spent, captured>>
      BY <2>4 DEF SC!CommitPair
    <3>4. ShortcutType'
      BY <1>0, <2>1, <2>2, <3>1, <3>3 DEF ShortcutType
    <3> QED
      BY <1>0, <2>2, <3>1, <3>2, <3>3, <3>4 DEF ShortcutInv, SpentInv, KeyInv,
         SC!RevokedIsRevoked
  <2>5. CASE SC!CommitConnect(r)
    <3> DEFINE code == request[r].secret
    <3>1. captured' = captured
      BY <2>5 DEF SC!CommitConnect
    <3>2. CASE UNCHANGED <<pairing, connection, spent>>
      BY <1>0, <2>1, <2>2, <3>1, <3>2 DEF ShortcutInv, ShortcutType, SpentInv, KeyInv,
         SC!RevokedIsRevoked
    <3>3. CASE SC!Valid(code) /\ ~UNCHANGED <<pairing, connection, spent>>
      <4>1. PICK key \in Secret : /\ pairing' = SC!NoCode /\ connection' = connection \cup {key}
                                  /\ spent' = spent \cup {<<code, key>>}
        BY <2>5, <3>3 DEF SC!CommitConnect
      <4>2. pairing.code = code /\ pairing.until > 0
        BY <1>0, <3>3 DEF SC!Valid
      <4>3. code \in Secret /\ \A p \in spent : p[1] # code
        BY <1>0, <4>2 DEF ShortcutInv, SpentInv
      <4> HIDE DEF code
      <4>4. ShortcutType'
        BY <1>0, <2>1, <2>2, <4>1, <4>3 DEF ShortcutType, SC!NoCode
      <4>5. SpentInv'
        BY <1>0, <4>1, <4>3 DEF SpentInv, SC!NoCode
      <4>6. KeyInv'
        BY <2>2, <4>1 DEF ShortcutInv, KeyInv
      <4>7. SC!RevokedIsRevoked'
        BY <3>1, <4>1, <4>3 DEF ShortcutInv, SC!RevokedIsRevoked
      <4> QED
        BY <2>2, <4>4, <4>5, <4>6, <4>7 DEF ShortcutInv
    <3> QED
      BY <2>5, <3>2, <3>3 DEF SC!CommitConnect
  <2>6. CASE SC!CommitRevoke(r)
    <3>1. /\ pairing' = SC!NoCode /\ connection' = {} /\ UNCHANGED <<spent, captured>>
      BY <2>6 DEF SC!CommitRevoke
    <3>2. \A e \in Request : ~SC!Is(e, "capture", "locked")
      <4>1. owner = r
        BY <2>6 DEF SC!CommitRevoke, SC!Is, ShortcutInv, HolderInv, Alone
      <4> QED
        BY <1>0, <4>1 DEF ShortcutInv, HolderInv
    <3>3. ShortcutType'
      BY <1>0, <2>1, <2>2, <3>1 DEF ShortcutType, SC!NoCode
    <3>4. SpentInv'
      BY <1>0, <3>1 DEF SpentInv, SC!NoCode
    <3> QED
      BY <2>2, <3>1, <3>2, <3>3, <3>4 DEF ShortcutInv, KeyInv, SC!RevokedIsRevoked
  <2>7. CASE SC!CommitCapture(r)
    <3>1. /\ captured' = captured \cup {<<request[r].key, request[r].key \in connection>>}
          /\ UNCHANGED <<pairing, connection, spent>>
      BY <2>7 DEF SC!CommitCapture
    <3>2. request[r].key \in connection
      BY <2>7 DEF SC!CommitCapture, ShortcutInv, KeyInv
    <3> DEFINE new == <<request[r].key, request[r].key \in connection>>
    <3>3. captured' = captured \cup {new} /\ new[2]
      BY <3>1, <3>2
    <3> HIDE DEF new
    <3>4. \A c \in captured' : c[2]
      BY <3>3 DEF ShortcutInv, SC!RevokedIsRevoked
    <3>5. SC!RevokedIsRevoked'
      BY <3>1, <3>4 DEF ShortcutInv, SC!RevokedIsRevoked
    <3> QED
      BY <1>0, <2>1, <2>2, <3>1, <3>5 DEF ShortcutInv, ShortcutType, SpentInv, KeyInv
  <2> QED
    BY <1>4, <2>3, <2>4, <2>5, <2>6, <2>7
<1>5. ASSUME NEW r \in Request, SC!Connect(r)
      PROVE  ShortcutInv'
  <2> DEFINE q == SC!Phase("connect", "read", pairing.code, Nobody)
  <2>1. q \in Phone /\ SC!Becomes(r, q)
    <3>1. pairing.code \in Secret \cup {Nobody}
      BY <1>0
    <3> QED
      BY <1>5, <3>1 DEF SC!Connect, SC!Phase, Phone
  <2>2. q.at = "read"
    BY DEF SC!Phase
  <2>3. request[r].at = "new"
    BY <1>5 DEF SC!Connect, SC!New, SC!Phase
  <2>4. UNCHANGED <<now, pairing, connection, owner, sharers, spent, captured>>
    BY <1>5 DEF SC!Connect
  <2> HIDE DEF q
  <2> QED
    BY <2>1, <2>2, <2>3, <2>4, Waits
<1>6. ASSUME NEW r \in Request, SC!ResolveShortcutOwner(r)
      PROVE  ShortcutInv'
  <2>1. PICK key \in connection :
          SC!Becomes(r, SC!Phase("capture", "read", Nobody, key))
    BY <1>6 DEF SC!ResolveShortcutOwner
  <2> DEFINE q == SC!Phase("capture", "read", Nobody, key)
  <2>2. q \in Phone /\ SC!Becomes(r, q)
    BY <1>0, <2>1 DEF Phone, SC!Phase
  <2>3. q.at = "read"
    BY DEF SC!Phase
  <2>4. request[r].at = "new"
    BY <1>6 DEF SC!ResolveShortcutOwner, SC!New, SC!Phase
  <2>5. UNCHANGED <<now, pairing, connection, owner, sharers, spent, captured>>
    BY <1>6 DEF SC!ResolveShortcutOwner
  <2> HIDE DEF q
  <2> QED
    BY <2>2, <2>3, <2>4, <2>5, Waits
<1>7. ASSUME NEW r \in Request, SC!ShareUser(r)
      PROVE  ShortcutInv'
  <2>1. /\ SC!Is(r, "capture", "read") /\ owner = Nobody
        /\ UNCHANGED <<now, pairing, connection, owner, spent, captured>>
    BY <1>7 DEF SC!ShareUser
  <2>2. CASE SC!Becomes(r, SC!Done) /\ UNCHANGED sharers
    <3>1. SC!Done \in Phone /\ SC!Done.at = "done"
      BY Rows, <1>0
    <3> QED
      BY <2>1, <2>2, <3>1, Waits DEF SC!Is
  <2>3. CASE /\ request[r].key \in connection /\ sharers' = sharers \cup {r}
             /\ SC!Becomes(r, [request[r] EXCEPT !.at = "locked"])
    <3> DEFINE q == [request[r] EXCEPT !.at = "locked"]
    <3>1. q \in Phone /\ q.at = "locked" /\ q.does = "capture" /\ q.key = request[r].key
      BY <1>0, <2>1 DEF SC!Is, Phone
    <3> HIDE DEF q
    <3>2. /\ request' \in [Request -> Phone] /\ request'[r] = q
          /\ \A e \in Request : e # r => request'[e] = request[e]
      BY <2>3, <3>1, OwnRow DEF ShortcutInv, q
    <3>3. ShortcutType'
      BY <1>0, <2>1, <2>3, <3>2 DEF ShortcutInv, ShortcutType
    <3>4. HolderInv'
      BY <1>0, <2>1, <2>3, <3>1, <3>2 DEF ShortcutInv, HolderInv, Alone, SC!Is
    <3>5. SpentInv' /\ KeyInv' /\ SC!RevokedIsRevoked'
      BY <2>1, <2>3, <3>1, <3>2 DEF ShortcutInv, SpentInv, KeyInv, SC!Is, SC!RevokedIsRevoked
    <3> QED
      BY <3>3, <3>4, <3>5 DEF ShortcutInv
  <2> QED
    BY <1>7, <2>2, <2>3 DEF SC!ShareUser
<1> QED
  BY <1>1, <1>2, <1>3, <1>4, <1>5, <1>6, <1>7 DEF SC!Next

\* A code gives one key, and nothing is captured with a key that its owner has
\* disconnected (CommitConnect, CommitRevoke, ShareUser).
THEOREM RevokedAlways == ASSUME SC!ShortcutAssumption PROVE SC!Spec => []SC!RevokedIsRevoked
<1>1. ShortcutInv => SC!RevokedIsRevoked
  BY DEF ShortcutInv
<1> QED
  BY <1>1, ShortcutInit, ShortcutStep, PTL DEF SC!Spec

-----------------------------------------------------------------------------
(* Keys of AI companies: a stored key is kept with the endpoint it was typed  *)
(* in for, under that endpoint's company, and a target goes to one home only. *)

CredentialFits(c, k) ==
    /\ k.at # None => CompanyOf[k.at] = c
    /\ k.key # None => k.key = k.at

TargetFits(t) == t.key = t.at /\ t.model = RT!Mine(t.at) /\ t.vision = RT!Mine(t.at)

RoutingInv ==
    /\ env \in Home \cup {Unrecognised}
    /\ config.small \in RT!Company /\ config.large \in RT!Company
    /\ config.credential \in [RT!Company -> RT!Credential]
    /\ \A c \in RT!Company : CredentialFits(c, config.credential[c])
    /\ pinned \in [Summary -> RT!Target \cup {None}]
    /\ \A s \in Summary : pinned[s] # None => TargetFits(pinned[s])
    /\ RT!KeysStayHome

LEMMA NewStoreFits ==
    ASSUME RT!RoutingAssumption, NEW e \in Home \cup {Unrecognised}
    PROVE  LET n == RT!NewStore(e) IN
           /\ n.small \in RT!Company /\ n.large \in RT!Company
           /\ n.credential \in [RT!Company -> RT!Credential]
           /\ \A c \in RT!Company : CredentialFits(c, n.credential[c])
<1> DEFINE at == IF e = Unrecognised THEN CHOOSE h \in Home : TRUE ELSE e
<1>1. at \in Home /\ at # None
  BY DEF RT!RoutingAssumption
<1>2. CompanyOf[at] \in RT!Company
  BY <1>1 DEF RT!Company
<1> HIDE DEF at
<1> DEFINE first == [at |-> at, key |-> None, inherited |-> TRUE]
<1>3. first \in RT!Credential /\ RT!Nothing \in RT!Credential
  BY <1>1 DEF RT!Credential, RT!Nothing
<1>4. CredentialFits(CompanyOf[at], first) /\ \A c : CredentialFits(c, RT!Nothing)
  BY <1>1 DEF CredentialFits, RT!Nothing
<1> HIDE DEF first
<1>5. RT!NewStore(e) = [small |-> CompanyOf[at], large |-> CompanyOf[at],
                        credential |-> [d \in RT!Company |->
                            IF d = CompanyOf[at] THEN first ELSE RT!Nothing]]
  BY DEF RT!NewStore, at, first
<1> QED
  BY <1>2, <1>3, <1>4, <1>5

LEMMA RoutingInit == ASSUME RT!RoutingAssumption PROVE RT!Init => RoutingInv
<1> SUFFICES ASSUME RT!Init PROVE RoutingInv
  OBVIOUS
<1>1. env \in Home \cup {Unrecognised} /\ config = RT!NewStore(env)
  BY DEF RT!Init
<1>2. /\ pinned \in [Summary -> RT!Target \cup {None}] /\ \A s \in Summary : pinned[s] = None
      /\ sent = {}
  BY DEF RT!Init
<1> QED
  BY <1>1, <1>2, NewStoreFits DEF RoutingInv, RT!KeysStayHome

\* The key that a credential gives is for its endpoint.
LEMMA KeyFor ==
    ASSUME RT!RoutingAssumption, RoutingInv, NEW c \in RT!Company,
           NEW k, k = config.credential[c], RT!keyFor(k) # None
    PROVE  RT!keyFor(k) = k.at /\ k.at \in Home /\ CompanyOf[k.at] = c
<1>1. k \in RT!Credential /\ CredentialFits(c, k)
  BY DEF RoutingInv
<1>2. k.at \in Home \cup {None} /\ k.key \in Home \cup {None} /\ env \in Home \cup {Unrecognised}
  BY <1>1 DEF RT!Credential, RoutingInv
<1> QED
  BY <1>1, <1>2 DEF RT!keyFor, CredentialFits, RT!RoutingAssumption

LEMMA Sends ==
    ASSUME RT!RoutingAssumption, RoutingInv, NEW m, m.key = m.at, m.model = RT!Mine(m.at),
           sent' = sent \cup {m}, UNCHANGED <<env, config, pinned>>
    PROVE  RoutingInv'
BY DEF RoutingInv, RT!KeysStayHome

LEMMA RoutingStep ==
    ASSUME RT!RoutingAssumption, RoutingInv, [RT!Next]_(RT!vars)
    PROVE  RoutingInv'
<1>1. ASSUME NEW a \in Admin, RT!View(a)
      PROVE  RoutingInv'
  BY <1>1 DEF RT!View, RoutingInv, RT!KeysStayHome
<1>2. ASSUME NEW a \in Admin, NEW h \in Home, NEW typed \in BOOLEAN,
             NEW small \in RT!Company, NEW large \in RT!Company,
             RT!Save(a, h, typed, small, large)
      PROVE  RoutingInv'
  <2> DEFINE c == CompanyOf[h]
             old == config.credential[c]
             k == RT!Entered(old, h, typed)
  <2>1. c \in RT!Company /\ h # None
    BY DEF RT!Company, RT!RoutingAssumption
  <2>2. old \in RT!Credential /\ CredentialFits(c, old)
    BY <2>1 DEF RoutingInv
  <2>3. k \in RT!Credential
    BY <2>1, <2>2 DEF RT!Entered, RT!Credential, RT!Nothing
  <2>4. CredentialFits(c, k)
    BY <2>1, <2>2 DEF RT!Entered, RT!Credential, RT!Nothing, CredentialFits
  <2>5. /\ config'.small = small /\ config'.large = large
        /\ config'.credential = [config.credential EXCEPT ![c] = k]
        /\ UNCHANGED <<env, pinned, sent>>
    BY <1>2 DEF RT!Save
  <2> HIDE DEF c, k
  <2>6. /\ config'.credential \in [RT!Company -> RT!Credential]
        /\ \A d \in RT!Company : CredentialFits(d, config'.credential[d])
    BY <2>1, <2>3, <2>4, <2>5 DEF RoutingInv
  <2> QED
    BY <2>5, <2>6 DEF RoutingInv, RT!KeysStayHome
<1>3. ASSUME NEW h \in Home, NEW typed \in BOOLEAN, RT!FetchModels(h, typed)
      PROVE  RoutingInv'
  <2> DEFINE m == [key |-> RT!Key(h, typed), at |-> h, model |-> CompanyOf[h]]
  <2>1. CompanyOf[h] \in RT!Company
    BY DEF RT!Company
  <2>2. RT!Key(h, typed) = h
    BY <1>3, <2>1, KeyFor DEF RT!FetchModels, RT!Key
  <2>3. m.key = m.at /\ m.model = RT!Mine(m.at)
    BY <2>2 DEF RT!Mine, RT!RoutingAssumption
  <2>4. sent' = sent \cup {m} /\ UNCHANGED <<env, config, pinned>>
    BY <1>3 DEF RT!FetchModels
  <2> HIDE DEF m
  <2> QED
    BY <2>3, <2>4, Sends
<1>4. ASSUME NEW s \in Summary, NEW large \in BOOLEAN, RT!forArticle(s, large)
      PROVE  RoutingInv'
  <2>1. PICK t \in RT!Resolve(large), separate \in BOOLEAN :
          pinned' = [pinned EXCEPT ![s] =
            [at |-> t.at, key |-> t.key, model |-> t.model,
             vision |-> IF t.at # env \/ t.key # env \/ ~separate THEN t.model
                        ELSE RT!Mine(env)]]
    BY <1>4 DEF RT!forArticle
  <2>2. /\ t.key = t.at /\ t.model = RT!Mine(t.at) /\ t.at \in Home \cup {Unrecognised}
        /\ t.model \in RT!Company \cup {Unrecognised}
    <3> DEFINE d == IF large THEN config.large ELSE config.small
               k == config.credential[d]
    <3>1. d \in RT!Company
      BY DEF RoutingInv
    <3>2. CASE revision = 0 /\ env = Unrecognised
      BY <3>2 DEF RT!Resolve, RT!Mine
    <3>3. CASE ~(revision = 0 /\ env = Unrecognised)
      <4>1. RT!keyFor(k) # None /\ t = [at |-> k.at, key |-> RT!keyFor(k), model |-> d]
        BY <3>3 DEF RT!Resolve
      <4>2. RT!keyFor(k) = k.at /\ k.at \in Home /\ CompanyOf[k.at] = d
        BY <3>1, <4>1, KeyFor
      <4> QED
        BY <3>1, <4>1, <4>2 DEF RT!Mine, RT!RoutingAssumption
    <3> QED
      BY <3>2, <3>3
  <2> DEFINE v == IF t.at # env \/ t.key # env \/ ~separate THEN t.model ELSE RT!Mine(env)
             p == [at |-> t.at, key |-> t.key, model |-> t.model, vision |-> v]
  <2>3. v = RT!Mine(t.at)
    BY <2>2
  <2>4. p \in RT!Target /\ TargetFits(p)
    BY <2>2, <2>3 DEF RT!Target, TargetFits
  <2>5. pinned' = [pinned EXCEPT ![s] = p] /\ UNCHANGED <<env, config, sent>>
    BY <1>4, <2>1 DEF RT!forArticle
  <2> HIDE DEF p
  <2> QED
    BY <2>4, <2>5 DEF RoutingInv, RT!KeysStayHome
<1>5. ASSUME NEW s \in Summary, NEW vision \in BOOLEAN, RT!Call(s, vision)
      PROVE  RoutingInv'
  <2> DEFINE t == pinned[s]
             m == [key |-> t.key, at |-> t.at, model |-> IF vision THEN t.vision ELSE t.model]
  <2>1. TargetFits(t)
    BY <1>5 DEF RT!Call, RoutingInv
  <2>2. m.key = m.at /\ m.model = RT!Mine(m.at)
    BY <2>1 DEF TargetFits
  <2>3. sent' = sent \cup {m} /\ UNCHANGED <<env, config, pinned>>
    BY <1>5 DEF RT!Call
  <2> HIDE DEF m
  <2> QED
    BY <2>2, <2>3, Sends
<1>6. ASSUME NEW s \in Summary, RT!End(s)
      PROVE  RoutingInv'
  <2>1. /\ UNCHANGED <<env, config, sent>> /\ pinned' = [pinned EXCEPT ![s] = None]
    BY <1>6 DEF RT!End
  <2> QED
    BY <2>1 DEF RoutingInv, RT!KeysStayHome
<1>7. ASSUME NEW e \in Home \cup {Unrecognised}, RT!Restart(e)
      PROVE  RoutingInv'
  <2>1. /\ env' = e /\ UNCHANGED sent /\ pinned' = [s \in Summary |-> None]
        /\ config' = RT!NewStore(e) \/ config' = config
    BY <1>7 DEF RT!Restart
  <2> QED
    BY <2>1, NewStoreFits DEF RoutingInv, RT!KeysStayHome
<1>8. CASE UNCHANGED RT!vars
  BY <1>8 DEF RT!vars, RoutingInv, RT!KeysStayHome
<1> QED
  BY <1>1, <1>2, <1>3, <1>4, <1>5, <1>6, <1>7, <1>8 DEF RT!Next

\* No key reaches an endpoint it was not issued for, whatever administrators and
\* a restart change while summaries are under way (keyFor, forArticle).
THEOREM KeysStayHomeAlways == ASSUME RT!RoutingAssumption PROVE RT!Spec => []RT!KeysStayHome
<1>1. RoutingInv => RT!KeysStayHome
  BY DEF RoutingInv
<1> QED
  BY <1>1, RoutingInit, RoutingStep, PTL DEF RT!Spec

-----------------------------------------------------------------------------
(* Reading progress: what an open request has written is what it would write  *)
(* now, for it holds the rows, and an undo still finds what its mark replaced. *)

\* A function on S.
On(f, S) == f = [x \in S |-> f[x]]

Opened(r) == req[r].at = "open"
\* The rows a request has written or will write.
Scope(r) == req[r].todo \cup DOMAIN req[r].wrote
Marks(r) == Opened(r) /\ req[r].op = "mark"

ProgressType ==
    /\ row \in [Article -> RD!Rows] /\ lock \in [Article -> Request \cup {Nobody}]
    /\ On(req, Request) /\ On(undo, Request)
    /\ \A r \in Request : Opened(r) =>
         /\ req[r].op \in {"mark", "undo", "reset", "update", "complete"}
         /\ req[r].todo \subseteq Article /\ DOMAIN req[r].wrote \subseteq Article
    /\ \A r \in Request : ~Opened(r) => req[r].todo = {}

\* What is written is under the writer's lock.
WrittenInv ==
    \A r \in Request : Opened(r) => \A a \in DOMAIN req[r].wrote :
        lock[a] = r /\ req[r].wrote[a] = RD!Written(r, a)

\* A mark saw each of its rows unread, and without a row if there is none.
MarkInv ==
    \A r \in Request : Marks(r) => \A a \in Scope(r) :
        /\ req[r].snap[a] \in RD!Rows /\ ~req[r].snap[a].done
        /\ row[a] = RD!None => req[r].snap[a] = RD!None

\* What a mark that is over replaced.
Replaced(t, a) == undo[t] # RD!NoUndo /\ a \in DOMAIN undo[t].snap

ReplacedInv ==
    /\ \A t \in Request : undo[t] # RD!NoUndo => req[t].at = "done" /\ DOMAIN undo[t].snap \subseteq Article
    /\ \A t \in Request, a \in Article : Replaced(t, a) =>
         /\ undo[t].snap[a] = undo[t].real[a]
         /\ undo[t].snap[a] \in RD!Rows /\ ~undo[t].snap[a].done
         /\ row[a].at = t /\ row[a].done /\ undo[t].snap[a] = RD!None =>
              \A r \in Request : Marks(r) /\ a \in Scope(r) => req[r].snap[a] = RD!None

\* A token is taken back by one request at a time.
UndoInv ==
    \A r \in Request : Opened(r) =>
      IF req[r].op = "undo"
      THEN /\ req[r].token \in Request /\ undo[req[r].token] # RD!NoUndo
           /\ req[r].snap = undo[req[r].token].snap
           /\ \A s \in Request : Opened(s) /\ req[s].token = req[r].token => s = r
      ELSE req[r].token = Nobody

ProgressInv == ProgressType /\ WrittenInv /\ MarkInv /\ ReplacedInv /\ UndoInv

LEMMA ProgressInit == ASSUME RD!ReadingAssumption PROVE RD!Init => ProgressInv
<1> SUFFICES ASSUME RD!Init PROVE ProgressInv
  OBVIOUS
<1>1. /\ On(req, Request) /\ On(undo, Request)
      /\ \A r \in Request : ~Opened(r) /\ undo[r] = RD!NoUndo /\ req[r].todo = {}
  BY DEF RD!Init, On, Opened, RD!Fresh, RD!Rest, RD!Work
<1>2. row \in [Article -> RD!Rows] /\ lock \in [Article -> Request \cup {Nobody}]
  <2>1. RD!None \in RD!Rows /\ [pos |-> 1, done |-> FALSE, at |-> Nobody] \in RD!Rows
    BY DEF RD!None, RD!Rows, RD!Full
  <2> QED
    BY <2>1 DEF RD!Init
<1> QED
  BY <1>1, <1>2 DEF ProgressInv, ProgressType, WrittenInv, MarkInv, ReplacedInv, UndoInv,
     Marks, Replaced

\* What becomes of a row.
Outcome(r, a, v) ==
    \/ v = row[a]
    \/ /\ req[r].op = "mark" /\ req[r].snap[a] = row[a] /\ ~row[a].done
       /\ v = [pos |-> RD!Full, done |-> TRUE, at |-> r]
    \/ /\ req[r].op = "undo" /\ a \in DOMAIN req[r].snap /\ v = req[r].snap[a]
       /\ row[a] = [pos |-> RD!Full, done |-> TRUE, at |-> req[r].token]
    \/ /\ req[r].op = "reset" /\ v = [pos |-> 0, done |-> FALSE, at |-> r]
    \/ /\ req[r].op \in {"update", "complete"} /\ v \in RD!Rows /\ v.at = r
       /\ v.pos >= row[a].pos /\ (row[a].done => v.done)

LEMMA Outcomes ==
    ASSUME RD!ReadingAssumption, ProgressInv, NEW r \in Request, Opened(r),
           NEW a \in Article, a \in Scope(r)
    PROVE  Outcome(r, a, RD!Written(r, a))
<1>1. /\ row[a] \in RD!Rows /\ row[a].pos \in 0..2 /\ row[a].done \in BOOLEAN
  BY DEF ProgressInv, ProgressType, RD!Rows, RD!Full
<1>2. CASE req[r].op = "mark"
  <2>1. row[a] = RD!None => req[r].snap[a] = row[a] /\ ~row[a].done
    BY <1>2 DEF ProgressInv, MarkInv, Marks, RD!None
  <2> QED
    BY <1>2, <2>1 DEF RD!Written, Outcome
<1>3. CASE req[r].op = "undo"
  BY <1>3 DEF RD!Written, RD!Marked, Outcome
<1>4. CASE req[r].op = "reset"
  BY <1>4 DEF RD!Written, Outcome
<1>5. CASE req[r].op = "update"
  <2> DEFINE v == [pos |-> RD!Greatest(row[a].pos, 1), done |-> row[a].done, at |-> r]
  <2>1. RD!Written(r, a) = v
    BY <1>5 DEF RD!Written
  <2>2. RD!Greatest(row[a].pos, 1) \in 0..2 /\ RD!Greatest(row[a].pos, 1) >= row[a].pos
    BY <1>1 DEF RD!Greatest
  <2>3. v \in RD!Rows /\ v.at = r /\ v.pos >= row[a].pos /\ (row[a].done => v.done)
    BY <1>1, <2>2 DEF RD!Rows, RD!Full
  <2> QED
    BY <1>5, <2>1, <2>3 DEF Outcome
<1>6. CASE req[r].op = "complete"
  <2> DEFINE v == [pos |-> RD!Full, done |-> TRUE, at |-> r]
  <2>1. RD!Written(r, a) = v
    BY <1>6 DEF RD!Written
  <2>2. v.at = r /\ v.pos = 2 /\ v.done
    BY DEF RD!Full
  <2>3. v \in RD!Rows
    <3>1. RD!Full \in 0..RD!Full
      BY DEF RD!Full
    <3>2. r \in Request \cup {Nobody, "no row"}
      OBVIOUS
    <3> QED
      BY <3>1, <3>2 DEF RD!Rows
  <2> QED
    BY <1>1, <1>6, <2>1, <2>2, <2>3 DEF Outcome
<1> QED
  BY <1>2, <1>3, <1>4, <1>5, <1>6 DEF ProgressInv, ProgressType

LEMMA SameWritten ==
    ASSUME NEW r, NEW a, row'[a] = row[a], req'[r].op = req[r].op,
           req'[r].snap = req[r].snap, req'[r].token = req[r].token
    PROVE  RD!Written(r, a)' = RD!Written(r, a)
BY DEF RD!Written, RD!Marked

\* A request is refused, or a deadlock ends it.
LEMMA Closed ==
    ASSUME RD!ReadingAssumption, ProgressInv, NEW r \in Request, NEW q, q.at \notin {"open"}, q.todo = {},
           req' = [req EXCEPT ![r] = q], req[r].at \in {"idle", "open"},
           lock' \in [Article -> Request \cup {Nobody}],
           \A a \in Article : lock[a] # r => lock'[a] = lock[a],
           UNCHANGED <<row, undo>>
    PROVE  ProgressInv' /\ RD!ProgressKeptStep
<1>1. /\ On(req', Request) /\ ~Opened(r)' /\ undo[r] = RD!NoUndo /\ req'[r].todo = {}
      /\ \A s \in Request : s # r => req'[s] = req[s]
  <2>1. On(req, Request) /\ undo[r] = RD!NoUndo
    BY DEF ProgressInv, ProgressType, ReplacedInv
  <2>2. On(req', Request) /\ req'[r] = q /\ \A s \in Request : s # r => req'[s] = req[s]
    BY <2>1 DEF On
  <2> QED
    BY <2>1, <2>2 DEF Opened
<1>2. ProgressType'
  BY <1>1 DEF ProgressInv, ProgressType, Opened
<1>3. WrittenInv'
  <2> SUFFICES ASSUME NEW s \in Request, Opened(s)', NEW a \in DOMAIN req'[s].wrote
               PROVE  lock'[a] = s /\ req'[s].wrote[a] = RD!Written(s, a)'
    BY DEF WrittenInv
  <2>1. s # r /\ req'[s] = req[s] /\ Opened(s)
    BY <1>1 DEF Opened
  <2>2. a \in Article /\ lock[a] = s /\ req[s].wrote[a] = RD!Written(s, a)
    BY <2>1 DEF ProgressInv, ProgressType, WrittenInv
  <2>3. RD!Written(s, a)' = RD!Written(s, a)
    BY <2>1, SameWritten
  <2> QED
    BY <2>1, <2>2, <2>3
<1>4. MarkInv'
  BY <1>1 DEF ProgressInv, MarkInv, Marks, Scope, Opened
<1>5. ReplacedInv'
  BY <1>1 DEF ProgressInv, ReplacedInv, Replaced, Marks, Scope, Opened
<1>6. UndoInv'
  BY <1>1 DEF ProgressInv, UndoInv, Opened
<1> QED
  BY <1>2, <1>3, <1>4, <1>5, <1>6 DEF ProgressInv, RD!ProgressKeptStep

\* A request begins.
LEMMA Begun ==
    ASSUME RD!ReadingAssumption, ProgressInv, NEW r \in Request, req[r].at = "idle",
           NEW op \in {"mark", "reset", "update", "complete"}, NEW todo \in SUBSET Article,
           RD!Open(r, op, todo), op = "mark" => \A a \in todo : ~row[a].done
    PROVE  ProgressInv' /\ RD!ProgressKeptStep
<1> DEFINE q == RD!Work("open", op, Nobody, row, todo, << >>)
<1>0. /\ q.at = "open" /\ q.op = op /\ q.token = Nobody /\ q.snap = row /\ q.todo = todo
      /\ DOMAIN q.wrote = {}
  BY DEF RD!Work
<1>1. req' = [req EXCEPT ![r] = q] /\ UNCHANGED <<row, lock, undo>>
  BY DEF RD!Open, RD!Update
<1> HIDE DEF q
<1>2. /\ On(req', Request) /\ req'[r] = q /\ undo[r] = RD!NoUndo /\ Nobody \notin Request
      /\ \A s \in Request : s # r => req'[s] = req[s]
  <2>1. On(req, Request) /\ undo[r] = RD!NoUndo /\ Nobody \notin Request
    BY DEF ProgressInv, ProgressType, ReplacedInv, RD!ReadingAssumption
  <2>2. On(req', Request) /\ req'[r] = q /\ \A s \in Request : s # r => req'[s] = req[s]
    BY <1>1, <2>1 DEF On
  <2> QED
    BY <2>1, <2>2
<1>3. ProgressType'
  BY <1>0, <1>1, <1>2 DEF ProgressInv, ProgressType, Opened
<1>4. WrittenInv'
  <2> SUFFICES ASSUME NEW s \in Request, Opened(s)', NEW a \in DOMAIN req'[s].wrote
               PROVE  lock'[a] = s /\ req'[s].wrote[a] = RD!Written(s, a)'
    BY DEF WrittenInv
  <2>1. s # r /\ req'[s] = req[s] /\ Opened(s)
    BY <1>0, <1>2 DEF Opened
  <2>2. lock[a] = s /\ req[s].wrote[a] = RD!Written(s, a)
    BY <2>1 DEF ProgressInv, WrittenInv
  <2>3. RD!Written(s, a)' = RD!Written(s, a)
    BY <1>1, <2>1, SameWritten
  <2> QED
    BY <1>1, <2>1, <2>2, <2>3
<1>5. MarkInv'
  <2> SUFFICES ASSUME NEW s \in Request, Marks(s)', NEW a \in Scope(s)'
               PROVE  /\ req'[s].snap[a] \in RD!Rows /\ ~req'[s].snap[a].done
                      /\ row'[a] = RD!None => req'[s].snap[a] = RD!None
    BY DEF MarkInv
  <2>1. CASE s = r
    BY <1>0, <1>1, <1>2, <2>1 DEF ProgressInv, ProgressType, Marks, Scope
  <2>2. CASE s # r
    BY <1>1, <1>2, <2>2 DEF ProgressInv, MarkInv, Marks, Scope, Opened
  <2> QED
    BY <2>1, <2>2
<1>6. ReplacedInv'
  <2>1. \A t \in Request : undo[t] # RD!NoUndo => t # r
    BY <1>2
  <2>2. /\ \A s \in Request, a \in Article : s # r /\ Marks(s)' /\ (a \in Scope(s))' =>
             Marks(s) /\ a \in Scope(s) /\ req'[s] = req[s]
        /\ \A a \in Article : Marks(r)' /\ (a \in Scope(r))' => ~row[a].done
    BY <1>0, <1>2 DEF Marks, Scope, Opened
  <2> QED
    BY <1>1, <1>2, <2>1, <2>2 DEF ProgressInv, ReplacedInv, Replaced
<1>7. UndoInv'
  BY <1>0, <1>1, <1>2 DEF ProgressInv, UndoInv, Opened
<1> QED
  BY <1>1, <1>3, <1>4, <1>5, <1>6, <1>7 DEF ProgressInv, RD!ProgressKeptStep

\* An undo finds its token, which no other one has.
LEMMA UndoBegun ==
    ASSUME RD!ReadingAssumption, ProgressInv, NEW r \in Request, req[r].at = "idle",
           NEW t \in Request, undo[t] # RD!NoUndo,
           \A s \in Request : req[s].at = "open" => req[s].token # t,
           RD!Update(r, RD!Work("open", "undo", t, undo[t].snap, RD!Marked(t, undo[t].snap), << >>)),
           UNCHANGED <<row, saves, lock, events, undo>>
    PROVE  ProgressInv' /\ RD!ProgressKeptStep
<1> DEFINE q == RD!Work("open", "undo", t, undo[t].snap, RD!Marked(t, undo[t].snap), << >>)
<1>0. /\ q.at = "open" /\ q.op = "undo" /\ q.token = t /\ q.snap = undo[t].snap
      /\ q.todo \subseteq DOMAIN undo[t].snap /\ DOMAIN q.wrote = {}
  BY DEF RD!Work, RD!Marked
<1>1. req' = [req EXCEPT ![r] = q]
  BY DEF RD!Update
<1> HIDE DEF q
<1>2. /\ On(req', Request) /\ req'[r] = q /\ undo[r] = RD!NoUndo /\ Nobody \notin Request
      /\ \A s \in Request : s # r => req'[s] = req[s]
  <2>1. On(req, Request) /\ undo[r] = RD!NoUndo /\ Nobody \notin Request
    BY DEF ProgressInv, ProgressType, ReplacedInv, RD!ReadingAssumption
  <2>2. On(req', Request) /\ req'[r] = q /\ \A s \in Request : s # r => req'[s] = req[s]
    BY <1>1, <2>1 DEF On
  <2> QED
    BY <2>1, <2>2
<1>3. ProgressType'
  <2>1. q.todo \subseteq Article
    BY <1>0 DEF ProgressInv, ReplacedInv
  <2> QED
    BY <1>0, <1>2, <2>1 DEF ProgressInv, ProgressType, Opened
<1>4. WrittenInv'
  <2> SUFFICES ASSUME NEW s \in Request, Opened(s)', NEW a \in DOMAIN req'[s].wrote
               PROVE  lock'[a] = s /\ req'[s].wrote[a] = RD!Written(s, a)'
    BY DEF WrittenInv
  <2>1. s # r /\ req'[s] = req[s] /\ Opened(s)
    BY <1>0, <1>2 DEF Opened
  <2>2. lock[a] = s /\ req[s].wrote[a] = RD!Written(s, a)
    BY <2>1 DEF ProgressInv, WrittenInv
  <2>3. RD!Written(s, a)' = RD!Written(s, a)
    BY <2>1, SameWritten
  <2> QED
    BY <2>1, <2>2, <2>3
<1>5. \A s \in Request : Marks(s)' => s # r /\ Marks(s) /\ Scope(s)' = Scope(s) /\ req'[s] = req[s]
  BY <1>0, <1>2 DEF Marks, Scope, Opened
<1>6. MarkInv'
  BY <1>5 DEF ProgressInv, MarkInv
<1>7. ReplacedInv'
  BY <1>2, <1>5 DEF ProgressInv, ReplacedInv, Replaced
<1>8. UndoInv'
  <2>1. \A s \in Request : s # r /\ Opened(s)' => Opened(s) /\ req[s].token # t
    BY <1>2 DEF Opened
  <2> QED
    BY <1>0, <1>2, <2>1 DEF ProgressInv, UndoInv, Opened
<1> QED
  BY <1>3, <1>4, <1>6, <1>7, <1>8 DEF ProgressInv, RD!ProgressKeptStep

LEMMA Expired ==
    ASSUME RD!ReadingAssumption, ProgressInv, NEW t \in Request, RD!Expire(t)
    PROVE  ProgressInv' /\ RD!ProgressKeptStep
<1>1. /\ UNCHANGED <<row, lock, req>> /\ On(undo', Request) /\ undo'[t] = RD!NoUndo
      /\ \A s \in Request : s # t => undo'[s] = undo[s]
      /\ \A s \in Request : Opened(s) => req[s].token # t
  BY DEF RD!Expire, On, ProgressInv, ProgressType, Opened
<1>2. ProgressType' /\ MarkInv'
  BY <1>1 DEF ProgressInv, ProgressType, MarkInv, Marks, Scope, Opened
<1>3. WrittenInv'
  <2>1. \A s, a : RD!Written(s, a)' = RD!Written(s, a)
    BY <1>1, SameWritten
  <2> QED
    BY <1>1, <2>1 DEF ProgressInv, WrittenInv, Opened
<1>4. ReplacedInv'
  BY <1>1 DEF ProgressInv, ReplacedInv, Replaced, Marks, Scope, Opened
<1>5. UndoInv'
  BY <1>1 DEF ProgressInv, UndoInv, Opened
<1> QED
  BY <1>1, <1>2, <1>3, <1>4, <1>5 DEF ProgressInv, RD!ProgressKeptStep

LEMMA RowWritten ==
    ASSUME RD!ReadingAssumption, ProgressInv, NEW r \in Request, NEW a \in Article,
           RD!Write(r, a)
    PROVE  ProgressInv' /\ RD!ProgressKeptStep
<1> DEFINE q == RD!Wrote(r, a)
<1>0. /\ q.at = "open" /\ q.op = req[r].op /\ q.token = req[r].token /\ q.snap = req[r].snap
      /\ q.todo = req[r].todo \ {a} /\ DOMAIN q.wrote = DOMAIN req[r].wrote \cup {a}
      /\ q.wrote[a] = RD!Written(r, a)
      /\ \A b \in DOMAIN req[r].wrote : b # a => q.wrote[b] = req[r].wrote[b]
  BY DEF RD!Wrote, RD!Work
<1>1. /\ Opened(r) /\ a \in req[r].todo /\ lock[a] = Nobody
      /\ lock' = [lock EXCEPT ![a] = r] /\ req' = [req EXCEPT ![r] = q]
      /\ UNCHANGED <<row, undo>>
  BY DEF RD!Write, RD!Update, Opened
<1> HIDE DEF q
<1>2. /\ On(req', Request) /\ req'[r] = q
      /\ \A s \in Request : s # r => req'[s] = req[s]
  BY <1>1 DEF On, ProgressInv, ProgressType
<1>3. \A s \in Request : /\ Opened(s)' <=> Opened(s)
                         /\ req'[s].op = req[s].op /\ req'[s].token = req[s].token
                         /\ req'[s].snap = req[s].snap /\ req'[s].at = req[s].at
                         /\ Scope(s)' = Scope(s)
  BY <1>0, <1>1, <1>2 DEF Opened, Scope
<1>4. ProgressType'
  BY <1>0, <1>1, <1>2, <1>3 DEF ProgressInv, ProgressType, Opened
<1>5. WrittenInv'
  <2> SUFFICES ASSUME NEW s \in Request, Opened(s)', NEW b \in DOMAIN req'[s].wrote
               PROVE  lock'[b] = s /\ req'[s].wrote[b] = RD!Written(s, b)'
    BY DEF WrittenInv
  <2>1. RD!Written(s, b)' = RD!Written(s, b)
    BY <1>1, <1>3, SameWritten
  <2>2. Opened(s) /\ lock \in [Article -> Request \cup {Nobody}] /\ Nobody \notin Request
    BY <1>3 DEF ProgressInv, ProgressType, RD!ReadingAssumption
  <2>3. CASE s = r /\ b = a
    BY <1>0, <1>1, <1>2, <2>1, <2>2, <2>3
  <2>4. CASE ~(s = r /\ b = a)
    <3>1. b \in DOMAIN req[s].wrote /\ req'[s].wrote[b] = req[s].wrote[b]
      BY <1>0, <1>2, <2>4
    <3>2. b \in Article /\ lock[b] = s /\ req[s].wrote[b] = RD!Written(s, b)
      BY <2>2, <3>1 DEF ProgressInv, ProgressType, WrittenInv
    <3> QED
      BY <1>1, <2>1, <2>2, <3>1, <3>2
  <2> QED
    BY <2>3, <2>4
<1>6. MarkInv' /\ ReplacedInv'
  <2>1. \A s \in Request : (Marks(s)' <=> Marks(s)) /\ Scope(s)' = Scope(s) /\ req'[s].snap = req[s].snap
    BY <1>3 DEF Marks
  <2> QED
    BY <1>1, <1>3, <2>1 DEF ProgressInv, MarkInv, ReplacedInv, Replaced
<1>7. UndoInv'
  BY <1>1, <1>3 DEF ProgressInv, UndoInv
<1> QED
  BY <1>1, <1>4, <1>5, <1>6, <1>7 DEF ProgressInv, RD!ProgressKeptStep

\* The rows become visible, and the token with them.
LEMMA Committed ==
    ASSUME RD!ReadingAssumption, ProgressInv, NEW r \in Request, RD!Commit(r)
    PROVE  ProgressInv' /\ RD!ProgressKeptStep
<1> DEFINE q == req[r]
           W == DOMAIN q.wrote
<1>1. /\ Opened(r) /\ W \subseteq Article /\ undo[r] = RD!NoUndo /\ Scope(r) = W
      /\ q.op \in {"mark", "undo", "reset", "update", "complete"}
      /\ row \in [Article -> RD!Rows] /\ lock \in [Article -> Request \cup {Nobody}]
      /\ On(req, Request) /\ On(undo, Request)
      /\ Nobody \notin Request /\ "no row" \notin Request \cup {Nobody}
  BY DEF RD!Commit, ProgressInv, ProgressType, ReplacedInv, Opened, Scope, RD!ReadingAssumption
<1>2. \A a \in W : lock[a] = r /\ q.wrote[a] = RD!Written(r, a) /\ Outcome(r, a, q.wrote[a])
  <2> SUFFICES ASSUME NEW a \in W
               PROVE  lock[a] = r /\ q.wrote[a] = RD!Written(r, a) /\ Outcome(r, a, q.wrote[a])
    OBVIOUS
  <2>1. lock[a] = r /\ q.wrote[a] = RD!Written(r, a)
    BY <1>1 DEF ProgressInv, WrittenInv
  <2>2. a \in Article /\ a \in Scope(r) /\ Opened(r)
    BY <1>1
  <2>3. Outcome(r, a, RD!Written(r, a))
    BY <2>2, Outcomes
  <2> QED
    BY <2>1, <2>3
<1>3. /\ row' = [a \in Article |-> IF a \in W THEN q.wrote[a] ELSE row[a]]
      /\ lock' = [a \in Article |-> IF lock[a] = r THEN Nobody ELSE lock[a]]
  BY DEF RD!Commit, RD!Released
<1>4. /\ On(req', Request) /\ req'[r].at = "done" /\ req'[r].todo = {}
      /\ \A s \in Request : s # r => req'[s] = req[s]
  BY <1>1 DEF RD!Commit, RD!Update, On, RD!Rest, RD!Work
\* What undo'[t] is.
<1> DEFINE New == [snap |-> RD!Restrict(q.snap, RD!Changed(r)), real |-> RD!Restrict(row, RD!Changed(r))]
<1>5. /\ On(undo', Request)
      /\ \A t \in Request : \/ undo'[t] = undo[t] /\ (q.op = "undo" => t # q.token)
                            \/ q.op = "undo" /\ t = q.token /\ undo'[t] = RD!NoUndo
                            \/ t = r /\ q.op = "mark" /\ undo'[t] = New
  BY <1>1 DEF RD!Commit, On
<1>6. /\ DOMAIN New.snap = RD!Changed(r) /\ RD!Changed(r) \subseteq W
      /\ \A a \in RD!Changed(r) : /\ New.snap[a] = q.snap[a] /\ New.real[a] = row[a]
                                 /\ q.wrote[a] # row[a]
  BY DEF RD!Restrict, RD!Changed
<1> HIDE DEF New
<1>7. \A s \in Request : Opened(s)' =>
          s # r /\ Opened(s) /\ req'[s] = req[s] /\ Scope(s)' = Scope(s)
  BY <1>4 DEF Opened, Scope
<1>8. ASSUME NEW a \in Article
      PROVE  Outcome(r, a, row'[a]) /\ (row'[a] # row[a] => a \in W)
  <2>1. CASE a \in W
    <3>1. row'[a] = q.wrote[a]
      BY <1>3, <2>1
    <3> QED
      BY <1>2, <2>1, <3>1
  <2>2. CASE a \notin W
    <3>1. row'[a] = row[a]
      BY <1>3, <2>2
    <3> QED
      BY <3>1 DEF Outcome
  <2> QED
    BY <2>1, <2>2
<1>9. q.op = "undo" => /\ q.token \in Request /\ undo[q.token] # RD!NoUndo
                       /\ q.snap = undo[q.token].snap
                       /\ \A s \in Request : Opened(s) /\ req[s].token = q.token => s = r
  BY <1>1 DEF ProgressInv, UndoInv
<1>10. ASSUME NEW a \in Article, row'[a] # row[a], q.op = "undo"
       PROVE  /\ Replaced(q.token, a) /\ row'[a] = undo[q.token].snap[a]
              /\ row[a].at = q.token /\ row[a].done
              /\ row'[a] \in RD!Rows /\ ~row'[a].done /\ row'[a] = undo[q.token].real[a]
  <2>1. /\ a \in DOMAIN q.snap /\ row'[a] = q.snap[a]
        /\ row[a] = [pos |-> RD!Full, done |-> TRUE, at |-> q.token]
    BY <1>8, <1>10 DEF Outcome
  <2>2. Replaced(q.token, a) /\ row'[a] = undo[q.token].snap[a]
    BY <1>9, <1>10, <2>1 DEF Replaced
  <2>3. row[a].at = q.token /\ row[a].done
    BY <2>1
  <2>4. /\ undo[q.token].snap[a] = undo[q.token].real[a]
        /\ undo[q.token].snap[a] \in RD!Rows /\ ~undo[q.token].snap[a].done
    BY <1>9, <1>10, <2>2 DEF ProgressInv, ReplacedInv
  <2> QED
    BY <2>2, <2>3, <2>4
<1>11. ProgressType'
  <2>1. ASSUME NEW a \in Article PROVE row'[a] \in RD!Rows
    <3>1. row[a] \in RD!Rows
      BY <1>1
    <3>2. [pos |-> RD!Full, done |-> TRUE, at |-> r] \in RD!Rows
      <4>1. RD!Full \in 0..RD!Full
        BY DEF RD!Full
      <4>2. r \in Request \cup {Nobody, "no row"}
        OBVIOUS
      <4> QED
        BY <4>1, <4>2 DEF RD!Rows
    <3>3. [pos |-> 0, done |-> FALSE, at |-> r] \in RD!Rows
      <4>1. 0 \in 0..RD!Full
        BY DEF RD!Full
      <4>2. r \in Request \cup {Nobody, "no row"}
        OBVIOUS
      <4> QED
        BY <4>1, <4>2 DEF RD!Rows
    <3>4. CASE q.op = "undo"
      BY <1>10, <3>1, <3>4
    <3>5. CASE q.op # "undo"
      BY <1>8, <3>1, <3>2, <3>3, <3>5 DEF Outcome
    <3> QED
      BY <3>4, <3>5
  <2>2. row' \in [Article -> RD!Rows]
    BY <1>3, <2>1
  <2>3. lock' \in [Article -> Request \cup {Nobody}]
    BY <1>1, <1>3
  <2>4. ASSUME NEW s \in Request, ~Opened(s)' PROVE req'[s].todo = {}
    BY <1>4, <2>4 DEF ProgressInv, ProgressType, Opened
  <2>5. ASSUME NEW s \in Request, Opened(s)'
        PROVE  /\ req'[s].op \in {"mark", "undo", "reset", "update", "complete"}
               /\ req'[s].todo \subseteq Article /\ DOMAIN req'[s].wrote \subseteq Article
    BY <1>7, <2>5 DEF ProgressInv, ProgressType
  <2> QED
    BY <1>4, <1>5, <2>2, <2>3, <2>4, <2>5 DEF ProgressType
<1>12. WrittenInv'
  <2> SUFFICES ASSUME NEW s \in Request, Opened(s)', NEW a \in DOMAIN req'[s].wrote
               PROVE  lock'[a] = s /\ req'[s].wrote[a] = RD!Written(s, a)'
    BY DEF WrittenInv
  <2>1. s # r /\ req'[s] = req[s] /\ Opened(s)
    BY <1>7
  <2>2. a \in Article /\ lock[a] = s /\ req[s].wrote[a] = RD!Written(s, a)
    BY <2>1 DEF ProgressInv, ProgressType, WrittenInv
  <2>3. row'[a] = row[a] /\ lock'[a] = s
    BY <1>2, <1>3, <1>8, <2>1, <2>2
  <2>4. RD!Written(s, a)' = RD!Written(s, a)
    BY <2>1, <2>3, SameWritten
  <2> QED
    BY <2>1, <2>2, <2>3, <2>4
\* The other marks that have a row before them.
<1>13. ASSUME NEW s \in Request, Marks(s)', NEW a \in Scope(s)'
       PROVE  /\ s # r /\ Marks(s) /\ a \in Scope(s) /\ a \in Article
              /\ req'[s].snap = req[s].snap
              /\ req[s].snap[a] \in RD!Rows /\ ~req[s].snap[a].done
              /\ row[a] = RD!None => req[s].snap[a] = RD!None
  BY <1>7, <1>13 DEF ProgressInv, ProgressType, MarkInv, Marks, Scope
<1>14. MarkInv'
  <2> SUFFICES ASSUME NEW s \in Request, Marks(s)', NEW a \in Scope(s)'
               PROVE  /\ req'[s].snap[a] \in RD!Rows /\ ~req'[s].snap[a].done
                      /\ row'[a] = RD!None => req'[s].snap[a] = RD!None
    BY DEF MarkInv
  <2>1. ASSUME row'[a] = RD!None, row[a] # RD!None
        PROVE  req[s].snap[a] = RD!None
    <3>1. CASE q.op = "undo"
      <4>1. a \in Article /\ Marks(s) /\ a \in Scope(s) /\ q.token \in Request
        BY <1>9, <1>13, <3>1
      <4>2. /\ Replaced(q.token, a) /\ undo[q.token].snap[a] = RD!None
            /\ row[a].at = q.token /\ row[a].done
        BY <1>10, <2>1, <3>1, <4>1
      <4>3. \A e \in Request : Marks(e) /\ a \in Scope(e) => req[e].snap[a] = RD!None
        BY <4>1, <4>2 DEF ProgressInv, ReplacedInv
      <4> QED
        BY <4>1, <4>3
    <3>2. CASE q.op # "undo"
      <4>1. row'[a].at = r
        BY <1>8, <1>13, <2>1, <3>2 DEF Outcome
      <4>2. RD!None.at = "no row"
        BY DEF RD!None
      <4>3. r # "no row"
        BY <1>1
      <4> QED
        BY <2>1, <4>1, <4>2, <4>3
    <3> QED
      BY <3>1, <3>2
  <2> QED
    BY <1>13, <2>1
<1>15. ReplacedInv'
  <2>1. ASSUME NEW t \in Request, undo'[t] # RD!NoUndo
        PROVE  req'[t].at = "done" /\ DOMAIN undo'[t].snap \subseteq Article
    <3>1. CASE undo'[t] = undo[t]
      <4>1. req[t].at = "done" /\ DOMAIN undo[t].snap \subseteq Article
        BY <2>1, <3>1 DEF ProgressInv, ReplacedInv
      <4> QED
        BY <1>4, <3>1, <4>1
    <3>2. CASE t = r /\ undo'[t] = New
      BY <1>1, <1>4, <1>6, <3>2
    <3> QED
      BY <1>5, <2>1, <3>1, <3>2
  <2>2. ASSUME NEW t \in Request, NEW a \in Article, Replaced(t, a)'
        PROVE  /\ undo'[t].snap[a] = undo'[t].real[a]
               /\ undo'[t].snap[a] \in RD!Rows /\ ~undo'[t].snap[a].done
               /\ row'[a].at = t /\ row'[a].done /\ undo'[t].snap[a] = RD!None =>
                    \A s \in Request : Marks(s)' /\ (a \in Scope(s))' => req'[s].snap[a] = RD!None
    <3>1. CASE undo'[t] = undo[t] /\ (q.op = "undo" => t # q.token)
      <4>1. Replaced(t, a) /\ t # r
        BY <1>1, <2>2, <3>1 DEF Replaced
      <4>2. /\ undo[t].snap[a] = undo[t].real[a]
            /\ undo[t].snap[a] \in RD!Rows /\ ~undo[t].snap[a].done
            /\ row[a].at = t /\ row[a].done /\ undo[t].snap[a] = RD!None =>
                 \A s \in Request : Marks(s) /\ a \in Scope(s) => req[s].snap[a] = RD!None
        BY <4>1 DEF ProgressInv, ReplacedInv
      <4>3. row'[a].at = t /\ row'[a].done => row'[a] = row[a]
        <5>1. CASE q.op = "undo"
          BY <1>10, <5>1
        <5>2. CASE q.op # "undo"
          BY <1>8, <4>1, <5>2 DEF Outcome
        <5> QED
          BY <5>1, <5>2
      <4> QED
        BY <1>13, <3>1, <4>2, <4>3
    <3>2. CASE t = r /\ q.op = "mark" /\ undo'[t] = New
      <4>1. a \in RD!Changed(r) /\ a \in W
        BY <1>6, <2>2, <3>2 DEF Replaced
      <4>2. q.snap[a] = row[a] /\ ~row[a].done
        BY <1>2, <1>6, <3>2, <4>1 DEF Outcome
      <4>3. /\ undo'[t].snap[a] = row[a] /\ undo'[t].real[a] = row[a]
            /\ row[a] \in RD!Rows
        BY <1>1, <1>6, <3>2, <4>1, <4>2
      <4> QED
        BY <1>13, <4>2, <4>3
    <3> QED
      BY <1>5, <2>2, <3>1, <3>2 DEF Replaced
  <2> QED
    BY <2>1, <2>2 DEF ReplacedInv
<1>16. UndoInv'
  <2> SUFFICES ASSUME NEW s \in Request, Opened(s)'
               PROVE  IF req'[s].op = "undo"
                      THEN /\ req'[s].token \in Request /\ undo'[req'[s].token] # RD!NoUndo
                           /\ req'[s].snap = undo'[req'[s].token].snap
                           /\ \A e \in Request : Opened(e)' /\ req'[e].token = req'[s].token => e = s
                      ELSE req'[s].token = Nobody
    BY DEF UndoInv
  <2>1. s # r /\ Opened(s) /\ req'[s] = req[s]
    BY <1>7
  <2>2. CASE req[s].op = "undo"
    <3>1. /\ req[s].token \in Request /\ undo[req[s].token] # RD!NoUndo
          /\ req[s].snap = undo[req[s].token].snap
          /\ \A e \in Request : Opened(e) /\ req[e].token = req[s].token => e = s
      BY <2>1, <2>2 DEF ProgressInv, UndoInv
    <3>2. req[s].token # r /\ (q.op = "undo" => req[s].token # q.token)
      BY <1>1, <2>1, <3>1
    <3>3. undo'[req[s].token] = undo[req[s].token]
      BY <1>5, <3>1, <3>2
    <3> QED
      BY <1>7, <2>1, <2>2, <3>1, <3>3
  <2>3. CASE req[s].op # "undo"
    BY <2>1, <2>3 DEF ProgressInv, UndoInv
  <2> QED
    BY <2>2, <2>3
<1>17. RD!ProgressKeptStep
  <2> SUFFICES ASSUME NEW a \in Article, row'[a] # row[a]
               PROVE  \/ \E e \in Request : /\ RD!Undone(e) /\ row[a].at = req[e].token
                                            /\ row'[a] = undo[req[e].token].real[a]
                      \/ \E e \in Request : req[e].op = "reset" /\ row'[a].at = e
                      \/ row'[a].pos >= row[a].pos /\ (row[a].done => row'[a].done)
    BY DEF RD!ProgressKeptStep
  <2>1. CASE q.op = "undo"
    BY <1>1, <1>4, <1>10, <2>1 DEF RD!Undone, Opened
  <2>2. CASE q.op = "reset"
    BY <1>8, <2>2 DEF Outcome
  <2>3. CASE q.op = "mark"
    <3>1. row'[a].pos = 2 /\ row'[a].done
      BY <1>8, <2>3 DEF Outcome, RD!Full
    <3>2. row[a].pos \in 0..2
      BY <1>1 DEF RD!Rows, RD!Full
    <3> QED
      BY <3>1, <3>2
  <2>4. CASE q.op \in {"update", "complete"}
    BY <1>8, <2>4 DEF Outcome
  <2> QED
    BY <1>1, <2>1, <2>2, <2>3, <2>4
<1> QED
  BY <1>11, <1>12, <1>14, <1>15, <1>16, <1>17 DEF ProgressInv

LEMMA ProgressStep ==
    ASSUME RD!ReadingAssumption, ProgressInv, [RD!Next]_(RD!vars)
    PROVE  ProgressInv' /\ RD!ProgressKeptStep
<1>1. CASE (\E a \in Article : RD!Add(a) \/ RD!DeleteSignal(a)) \/ UNCHANGED RD!vars
  <2>1. UNCHANGED <<row, lock, req, undo>>
    BY <1>1 DEF RD!Add, RD!DeleteSignal, RD!vars
  <2>2. \A s, a : RD!Written(s, a)' = RD!Written(s, a)
    BY <2>1, SameWritten
  <2> QED
    BY <2>1, <2>2 DEF ProgressInv, ProgressType, WrittenInv, MarkInv, ReplacedInv, UndoInv,
       Opened, Scope, Marks, Replaced, RD!ProgressKeptStep
<1>2. ASSUME NEW t \in Request, RD!Expire(t)
      PROVE  ProgressInv' /\ RD!ProgressKeptStep
  BY <1>2, Expired
<1>3. ASSUME NEW r \in Request, NEW S \in SUBSET Article, NEW saved \in BOOLEAN, NEW side,
             NEW anchor, RD!executeReadMutation(r, S, saved, side, anchor),
             side \in {"all", "single", "above", "below"}
      PROVE  ProgressInv' /\ RD!ProgressKeptStep
  <2> DEFINE todo == {a \in RD!Bounded(RD!Listed(S, saved), side, anchor) : ~row[a].done}
  <2>1. todo \in SUBSET Article /\ \A a \in todo : ~row[a].done
    BY <1>3 DEF RD!Bounded, RD!Listed
  <2>2. req[r].at = "idle"
    BY <1>3 DEF RD!executeReadMutation
  <2>3. CASE RD!Open(r, "mark", todo)
    <3> HIDE DEF todo
    <3> QED
      BY <2>1, <2>2, <2>3, Begun
  <2>4. ASSUME NEW how \in {"not found", "failed"}, RD!Update(r, RD!Rest(how, "mark", Nobody)),
               UNCHANGED <<row, saves, lock, undo, events>>
        PROVE  ProgressInv' /\ RD!ProgressKeptStep
    <3>1. RD!Rest(how, "mark", Nobody).at \notin {"open"} /\ RD!Rest(how, "mark", Nobody).todo = {}
      BY DEF RD!Rest, RD!Work
    <3>2. lock' \in [Article -> Request \cup {Nobody}] /\ lock' = lock
      BY <2>4 DEF ProgressInv, ProgressType
    <3> QED
      BY <2>2, <2>4, <3>1, <3>2, Closed DEF RD!Update
  <2> QED
    BY <1>3, <2>3, <2>4 DEF RD!executeReadMutation
<1>4. ASSUME NEW r \in Request, NEW S \in Scopes, NEW saved \in BOOLEAN,
             RD!MarkAllRead(r, S, saved) \/ RD!MarkReadRange(r, S, saved)
      PROVE  ProgressInv' /\ RD!ProgressKeptStep
  <2>1. S \in SUBSET Article
    BY DEF RD!ReadingAssumption
  <2> QED
    BY <1>3, <1>4, <2>1 DEF RD!MarkAllRead, RD!MarkReadRange, RD!Directions
<1>5. ASSUME NEW r \in Request, NEW a \in Article, RD!Upsert(r, a) \/ RD!Reset(r, a)
      PROVE  ProgressInv' /\ RD!ProgressKeptStep
  <2>1. PICK op \in {"update", "complete", "reset"} : RD!Open(r, op, {a})
    BY <1>5 DEF RD!Upsert, RD!Reset
  <2>2. req[r].at = "idle" /\ {a} \in SUBSET Article
    BY <2>1 DEF RD!Open
  <2> QED
    BY <2>1, <2>2, Begun
<1>6. ASSUME NEW r \in Request, NEW t \in Request, RD!UndoMarkRead(r, t)
      PROVE  ProgressInv' /\ RD!ProgressKeptStep
  <2>1. req[r].at = "idle" /\ UNCHANGED <<row, saves, lock, events, undo>>
    BY <1>6 DEF RD!UndoMarkRead
  <2>2. CASE undo[t] = RD!NoUndo
    <3>1. /\ RD!Rest("not found", "undo", t).at \notin {"open"}
          /\ RD!Rest("not found", "undo", t).todo = {}
      BY DEF RD!Rest, RD!Work
    <3>2. req' = [req EXCEPT ![r] = RD!Rest("not found", "undo", t)]
      BY <1>6, <2>2 DEF RD!UndoMarkRead, RD!Update
    <3>3. lock' \in [Article -> Request \cup {Nobody}] /\ lock' = lock
      BY <2>1 DEF ProgressInv, ProgressType
    <3> QED
      BY <2>1, <3>1, <3>2, <3>3, Closed
  <2>3. CASE undo[t] # RD!NoUndo
    BY <1>6, <2>1, <2>3, UndoBegun DEF RD!UndoMarkRead
  <2> QED
    BY <2>2, <2>3
<1>7. ASSUME NEW r \in Request, RD!Deadlocked(r)
      PROVE  ProgressInv' /\ RD!ProgressKeptStep
  <2>1. /\ UNCHANGED <<row, undo>> /\ RD!Rest("failed", req[r].op, Nobody).at \notin {"open"}
        /\ RD!Rest("failed", req[r].op, Nobody).todo = {}
        /\ req' = [req EXCEPT ![r] = RD!Rest("failed", req[r].op, Nobody)]
    BY <1>7 DEF RD!Deadlocked, RD!Update, RD!Rest, RD!Work
  <2>2. /\ lock' \in [Article -> Request \cup {Nobody}]
        /\ \A a \in Article : lock[a] # r => lock'[a] = lock[a]
    BY <1>7 DEF RD!Deadlocked, RD!Released, ProgressInv, ProgressType
  <2>3. req[r].at \in {"idle", "open"}
    BY <1>7 DEF RD!Deadlocked, ProgressInv, ProgressType, Opened
  <2> QED
    BY <2>1, <2>2, <2>3, Closed
<1> QED
  BY <1>1, <1>2, <1>4, <1>5, <1>6, <1>7, RowWritten, Committed DEF RD!Next

\* Nobody's progress is taken back but by an undo, which gives each article
\* exactly what its own mark replaced, and by starting over
\* (executeReadMutation, UndoMarkRead, Reset).
THEOREM ProgressKeptAlways == ASSUME RD!ReadingAssumption PROVE RD!Spec => RD!ProgressKept
<1>1. ProgressInv /\ [RD!Next]_(RD!vars) => ProgressInv' /\ [RD!ProgressKeptStep]_(RD!vars)
  BY ProgressStep
<1> QED
  BY <1>1, ProgressInit, PTL DEF RD!Spec, RD!ProgressKept

-----------------------------------------------------------------------------
(* Playback: who has written the row holds its lock, and what it read of the  *)
(* completion can only have come true since.                                  *)

Writing(r) == req[r].pc \in {"put", "added", "aborted"}

PlaybackInv ==
    /\ PB!TypeOK /\ PB!SignalMatchesRow
    /\ \A r \in Request :
         /\ Writing(r) <=> lock = r
         /\ req[r].saw => row.completed
         /\ req[r].pc = "put" => (req[r].newly <=> ~req[r].saw /\ req[r].wants.completed)
         /\ req[r].pc = "added" => signals = 0 /\ req[r].wants.completed

LEMMA IdleRow ==
    ASSUME PB!PlaybackAssumption
    PROVE  PB!Idle \in PB!Req /\ PB!Idle.pc = "idle" /\ PB!Idle.saw = FALSE
<1>1. PB!Nothing \in PB!Row
  <2>1. (CHOOSE p \in Position : TRUE) \in Position
    BY DEF PB!PlaybackAssumption
  <2> QED
    BY <2>1 DEF PB!Nothing, PB!Row
<1> QED
  BY <1>1 DEF PB!Idle, PB!At, PB!Req

LEMMA PlaybackInit == ASSUME PB!PlaybackAssumption PROVE PB!Init => PlaybackInv
BY IdleRow DEF PB!PlaybackAssumption, PB!Init, PlaybackInv, PB!TypeOK, PB!SignalMatchesRow, PB!Row,
   Writing

\* A request's next statement, which leaves what is committed alone.
LEMMA Stated ==
    ASSUME PB!PlaybackAssumption, PlaybackInv, NEW r \in Request, NEW q \in PB!Req,
           req' = [req EXCEPT ![r] = q], UNCHANGED <<row, signals>>,
           lock' \in Request \cup {NoRequest},
           q.pc \in {"put", "added", "aborted"} <=> lock' = r,
           lock' = lock \/ (lock = NoRequest /\ lock' = r) \/ (lock = r /\ lock' = NoRequest),
           q.saw => row.completed,
           q.pc = "put" => (q.newly <=> ~q.saw /\ q.wants.completed),
           q.pc = "added" => signals = 0 /\ q.wants.completed
    PROVE  PlaybackInv'
<1>1. /\ req' \in [Request -> PB!Req] /\ req'[r] = q
      /\ \A e \in Request : e # r => req'[e] = req[e]
  BY DEF PlaybackInv, PB!TypeOK
<1>2. PB!TypeOK' /\ PB!SignalMatchesRow'
  BY <1>1 DEF PlaybackInv, PB!TypeOK, PB!SignalMatchesRow
<1>3. ASSUME NEW e \in Request
      PROVE  /\ Writing(e)' <=> lock' = e
             /\ req'[e].saw => row'.completed
             /\ req'[e].pc = "put" => (req'[e].newly <=> ~req'[e].saw /\ req'[e].wants.completed)
             /\ req'[e].pc = "added" => signals' = 0 /\ req'[e].wants.completed
  <2>1. CASE e = r
    BY <1>1, <2>1 DEF Writing
  <2>2. CASE e # r
    BY <1>1, <2>2 DEF Writing, PlaybackInv, PB!PlaybackAssumption
  <2> QED
    BY <2>1, <2>2
<1> QED
  BY <1>2, <1>3 DEF PlaybackInv

LEMMA PlaybackStep ==
    ASSUME PB!PlaybackAssumption, PlaybackInv, [PB!Next]_(PB!vars)
    PROVE  PlaybackInv'
<1>0. /\ req \in [Request -> PB!Req] /\ row \in PB!Row /\ signals \in {0, 1}
      /\ lock \in Request \cup {NoRequest} /\ NoRequest \notin Request
  BY DEF PlaybackInv, PB!TypeOK, PB!PlaybackAssumption
<1>1. ASSUME NEW r \in Request, PB!Put(r) PROVE PlaybackInv'
  <2>1. PICK wants \in PB!Row : req' = [req EXCEPT ![r] = PB!At("began", wants, FALSE, FALSE)]
    BY <1>1 DEF PB!Put
  <2> DEFINE q == PB!At("began", wants, FALSE, FALSE)
  <2>2. q \in PB!Req /\ q.pc = "began" /\ q.saw = FALSE
    BY DEF PB!At, PB!Req
  <2>3. UNCHANGED <<row, signals, lock>> /\ lock # r
    BY <1>1 DEF PB!Put, PlaybackInv, Writing
  <2> HIDE DEF q
  <2> QED
    BY <1>0, <2>1, <2>2, <2>3, Stated DEF q
<1>2. ASSUME NEW r \in Request, PB!Get(r) PROVE PlaybackInv'
  <2> DEFINE q == PB!At("got", req[r].wants, row.completed, FALSE)
  <2>1. req[r].wants \in PB!Row /\ row.completed \in BOOLEAN
    BY <1>0 DEF PB!Req, PB!Row
  <2>2. q \in PB!Req /\ q.pc = "got" /\ q.saw = row.completed
    BY <2>1 DEF PB!At, PB!Req
  <2>3. /\ UNCHANGED <<row, signals, lock>> /\ lock # r /\ req' = [req EXCEPT ![r] = q]
    BY <1>2 DEF PB!Get, PlaybackInv, Writing
  <2> HIDE DEF q
  <2> QED
    BY <1>0, <2>2, <2>3, Stated
<1>3. ASSUME NEW r \in Request, PB!Upsert(r) PROVE PlaybackInv'
  <2> DEFINE q == PB!At("put", req[r].wants, req[r].saw, PB!Newly(r))
  <2>1. /\ req[r].wants \in PB!Row /\ req[r].saw \in BOOLEAN
        /\ PB!Newly(r) = (~req[r].saw /\ req[r].wants.completed) /\ PB!Newly(r) \in BOOLEAN
    BY <1>0 DEF PB!Req, PB!Row, PB!Newly
  <2>2. /\ q \in PB!Req /\ q.pc = "put" /\ q.saw = req[r].saw
        /\ q.newly <=> ~q.saw /\ q.wants.completed
    BY <2>1 DEF PB!At, PB!Req
  <2>3. /\ UNCHANGED <<row, signals>> /\ lock = NoRequest /\ lock' = r
        /\ req' = [req EXCEPT ![r] = q]
    BY <1>3 DEF PB!Upsert
  <2>4. req[r].saw => row.completed
    BY DEF PlaybackInv
  <2> HIDE DEF q
  <2> QED
    BY <1>0, <2>2, <2>3, <2>4, Stated
<1>4. ASSUME NEW r \in Request, PB!Add(r) PROVE PlaybackInv'
  <2> DEFINE pc == IF PB!SignalExists THEN "aborted" ELSE "added"
             q == PB!At(pc, req[r].wants, req[r].saw, TRUE)
  <2>1. /\ req[r].wants \in PB!Row /\ req[r].saw \in BOOLEAN
        /\ pc \in {"aborted", "added"} /\ (pc = "added" => signals = 0)
    BY <1>0 DEF PB!Req, PB!SignalExists
  <2> HIDE DEF pc
  <2>2. q \in PB!Req /\ q.pc = pc /\ q.saw = req[r].saw /\ q.wants = req[r].wants
    BY <2>1 DEF PB!At, PB!Req
  <2>3. UNCHANGED <<row, signals, lock>> /\ req' = [req EXCEPT ![r] = q]
    BY <1>4 DEF PB!Add, pc
  <2>4. /\ req[r].saw => row.completed
        /\ lock = r /\ req[r].wants.completed
    BY <1>4 DEF PB!Add, PlaybackInv, Writing
  <2> HIDE DEF q
  <2> QED
    BY <1>0, <2>1, <2>2, <2>3, <2>4, Stated
<1>5. ASSUME NEW r \in Request, PB!Commit(r) PROVE PlaybackInv'
  <2> DEFINE wants == req[r].wants
  <2>1. wants \in PB!Row
    BY <1>0 DEF PB!Req
  <2>2. /\ row' \in PB!Row /\ row'.completed = (wants.completed \/ row.completed)
    BY <1>0, <1>5, <2>1 DEF PB!Commit, PB!Merged, PB!Row
  <2>3. lock = r /\ lock' = NoRequest
    BY <1>5 DEF PB!Commit, PlaybackInv, Writing
  <2>4. /\ req' \in [Request -> PB!Req] /\ req'[r].pc = "idle" /\ req'[r].saw = FALSE
        /\ \A e \in Request : e # r => req'[e] = req[e]
    BY <1>0, <1>5, IdleRow DEF PB!Commit
  <2>5. signals' \in {0, 1} /\ signals' = IF row'.completed THEN 1 ELSE 0
    <3>1. CASE req[r].pc = "added"
      <4>1. signals = 0 /\ wants.completed
        BY <3>1 DEF PlaybackInv
      <4>2. signals' = signals + 1
        BY <1>5, <3>1 DEF PB!Commit
      <4>3. row'.completed = TRUE
        BY <2>2, <4>1
      <4>4. signals' = 1
        BY <4>1, <4>2
      <4> QED
        BY <4>3, <4>4
    <3>2. CASE req[r].pc = "put" /\ ~req[r].newly
      <4>1. wants.completed => row.completed
        BY <3>2 DEF PlaybackInv
      <4>2. signals' = signals /\ signals = IF row.completed THEN 1 ELSE 0
        BY <1>5, <3>2 DEF PB!Commit, PlaybackInv, PB!SignalMatchesRow
      <4> QED
        BY <1>0, <2>1, <2>2, <4>1, <4>2 DEF PB!Row
    <3> QED
      BY <1>5, <3>1, <3>2 DEF PB!Commit
  <2>6. ASSUME NEW e \in Request
        PROVE  /\ Writing(e)' <=> lock' = e
               /\ req'[e].saw => row'.completed
               /\ req'[e].pc = "put" => (req'[e].newly <=> ~req'[e].saw /\ req'[e].wants.completed)
               /\ req'[e].pc = "added" => signals' = 0 /\ req'[e].wants.completed
    <3>1. CASE e = r
      BY <1>0, <2>3, <2>4, <3>1 DEF Writing
    <3>2. CASE e # r
      <4>1. ~Writing(e) /\ req'[e] = req[e] /\ lock' # e
        BY <1>0, <2>3, <2>4, <3>2 DEF PlaybackInv
      <4> QED
        BY <2>2, <4>1 DEF PlaybackInv, Writing
    <3> QED
      BY <3>1, <3>2
  <2> QED
    BY <2>2, <2>3, <2>4, <2>5, <2>6 DEF PlaybackInv, PB!TypeOK, PB!SignalMatchesRow
<1>6. ASSUME NEW r \in Request, PB!CommitAborted(r) \/ PB!Fail(r) PROVE PlaybackInv'
  <2>1. /\ req' = [req EXCEPT ![r] = PB!Idle] /\ UNCHANGED <<row, signals>>
        /\ lock' = lock \/ (lock = r /\ lock' = NoRequest)
        /\ lock' # r /\ lock' \in Request \cup {NoRequest}
    BY <1>0, <1>6 DEF PB!CommitAborted, PB!Fail, PlaybackInv, Writing
  <2> QED
    BY <2>1, IdleRow, Stated
<1>7. ASSUME UNCHANGED PB!vars PROVE PlaybackInv'
  BY <1>7 DEF PB!vars, PlaybackInv, PB!TypeOK, PB!SignalMatchesRow, Writing
<1> QED
  BY <1>1, <1>2, <1>3, <1>4, <1>5, <1>6, <1>7 DEF PB!Next

\* A listener's completion of an episode is counted once, and only with the
\* completion itself, however many requests report it (Upsert, Add).
THEOREM SignalMatchesRowAlways ==
    ASSUME PB!PlaybackAssumption PROVE PB!Spec => []PB!SignalMatchesRow
<1>1. PlaybackInv => PB!SignalMatchesRow
  BY DEF PlaybackInv
<1> QED
  BY <1>1, PlaybackInit, PlaybackStep, PTL DEF PB!Spec

-----------------------------------------------------------------------------
(* Profile: whoever is about to be credited once gave a strong signal, and  *)
(* ids and names tell a reader's tags apart.                                *)

CONSTANTS User, Name, Kind, Answer, Similar, Generic, MaxSignals, MaxTags,
          MaxPasses
VARIABLES class, signal, weight, tag, bound, dismissed, work, passes, ever

PF == INSTANCE Profile

Strong(k) == PF!Strength[k] > 0
Gave(u) == \E a \in Article : <<u, a>> \in ever

Giving(q) ==
    /\ DOMAIN q = {"at", "user", "article", "kind", "credit"}
    /\ q.at \in {"added", "applied"} => q.user \in User /\ q.article \in Article /\ q.kind \in Kind
    /\ q.at = "applied" /\ q.kind # "dislike" /\ q.credit # {} => Strong(q.kind)

Passing(w) ==
    /\ DOMAIN w = {"at", "article", "answer", "users", "names", "user"}
    /\ w.at \in {"crediting", "binding"} => DOMAIN w.users \subseteq User

ProfileInv ==
    /\ DOMAIN weight = User /\ DOMAIN req = Request
    /\ \A s \in signal : s \in User \X Article \X Kind /\ (Strong(s[3]) => <<s[1], s[2]>> \in ever)
    /\ \A r \in Request : Giving(req[r])
    /\ Passing(work)
    /\ work.at \in {"crediting", "binding"} => \A u \in DOMAIN work.users : Gave(u)
    /\ PF!InterestEarned
    /\ PF!TagsSound
    /\ \A t \in tag : DOMAIN t = {"id", "user", "name"}

LEMMA Strengths == \A k \in Kind : PF!Strength[k] \in {0, 2, 4, 8}
BY DEF PF!Strength

\* A reader's strength is that of one of the reader's signals.
LEMMA Strongest ==
    ASSUME ProfileInv, NEW u \in User, NEW a, PF!StrengthOf(u, a) > 0
    PROVE  <<u, a>> \in ever /\ a \in Article
<1> DEFINE given == {y \in signal : y[1] = u /\ y[2] = a}
           s == {PF!Strength[x[3]] : x \in given}
<1>1. \A x \in given : x \in User \X Article \X Kind
  BY DEF ProfileInv
<1>2. s \subseteq {0, 2, 4, 8}
  BY <1>1, Strengths
<1>3. PF!StrengthOf(u, a) = IF s = {} THEN 0 ELSE CHOOSE n \in s : \A o \in s : o <= n
  BY DEF PF!StrengthOf
<1> HIDE DEF s
<1>4. s # {}
  BY <1>3
<1>5. \E n \in s : \A o \in s : o <= n
  <2>1. CASE 8 \in s
    <3>1. \A o \in s : o <= 8
      BY <1>2
    <3> QED
      BY <2>1, <3>1
  <2>2. CASE 8 \notin s /\ 4 \in s
    <3>1. \A o \in s : o <= 4
      BY <1>2, <2>2
    <3> QED
      BY <2>2, <3>1
  <2>3. CASE 8 \notin s /\ 4 \notin s /\ 2 \in s
    <3>1. \A o \in s : o <= 2
      BY <1>2, <2>3
    <3> QED
      BY <2>3, <3>1
  <2>4. CASE 8 \notin s /\ 4 \notin s /\ 2 \notin s
    <3>1. \A o \in s : o = 0
      BY <1>2, <2>4
    <3> QED
      BY <1>4, <3>1
  <2> QED
    BY <2>1, <2>2, <2>3, <2>4
<1>6. PF!StrengthOf(u, a) \in s
  BY <1>3, <1>4, <1>5
<1>7. PICK x \in given : PF!Strength[x[3]] = PF!StrengthOf(u, a)
  BY <1>6 DEF s
<1> QED
  BY <1>1, <1>7 DEF ProfileInv, Strong

\* The interests a reader has afterwards.
LEMMA RaisedDomain ==
    ASSUME NEW w, NEW credit
    PROVE  DOMAIN PF!Raised(w, credit) = DOMAIN w \cup {x[1] : x \in credit}
BY DEF PF!Raised

LEMMA LoweredDomain ==
    ASSUME NEW w, NEW cut
    PROVE  DOMAIN PF!Lowered(w, cut) = DOMAIN w
BY DEF PF!Lowered

LEMMA ProfileInit == PF!Init => ProfileInv
<1> SUFFICES ASSUME PF!Init PROVE ProfileInv
  OBVIOUS
<1>1. DOMAIN weight = User /\ DOMAIN req = Request /\ signal = {} /\ tag = {} /\ bound = {}
      /\ (\A u \in User : weight[u] = << >>) /\ (\A r \in Request : req[r] = PF!Idle) /\ work = PF!Asleep
  BY DEF PF!Init
<1>2. DOMAIN << >> = {}
  OBVIOUS
<1>3. Giving(PF!Idle) /\ Passing(PF!Asleep) /\ PF!Asleep.at = "idle"
  BY DEF Giving, PF!Idle, Passing, PF!Asleep
<1>4. PF!InterestEarned /\ PF!TagsSound
  BY <1>1, <1>2 DEF PF!InterestEarned, PF!TagsSound
<1> QED
  BY <1>1, <1>3, <1>4 DEF ProfileInv

-----------------------------------------------------------------------------
\* Tags: a new one gets an id above all there are.
LEMMA MadeTag ==
    ASSUME PF!ProfileAssumption, PF!TagsSound, NEW u, NEW n, tag' \in PF!With(u, n)
    PROVE  /\ tag \subseteq tag'
           /\ \A t \in tag' \ tag : DOMAIN t = {"id", "user", "name"}
           /\ \A s, t \in tag' : (s.user = t.user /\ s.name = t.name) \/ s.id = t.id => s = t
<1>1. CASE tag' = tag
  BY <1>1 DEF PF!TagsSound
<1>2. CASE PF!TagOf(u, n) = {} /\ tag' # tag
  <2>1. PICK i \in 1 .. MaxTags : /\ tag' = tag \cup {[id |-> i, user |-> u, name |-> n]}
                                 /\ \A t \in tag : t.id < i
    BY <1>2 DEF PF!With
  <2> DEFINE x == [id |-> i, user |-> u, name |-> n]
  <2>2. x.id = i /\ x.user = u /\ x.name = n /\ DOMAIN x = {"id", "user", "name"}
    OBVIOUS
  <2> HIDE DEF x
  <2>3. \A t \in tag : t.id # i
    BY <2>1 DEF PF!ProfileAssumption
  <2>4. \A t \in tag : ~(t.user = u /\ t.name = n)
    BY <1>2 DEF PF!TagOf
  <2>5. tag' = tag \cup {x}
    BY <2>1 DEF x
  <2> QED
    BY <2>2, <2>3, <2>4, <2>5 DEF PF!TagsSound
<1> QED
  BY <1>1, <1>2 DEF PF!With

LEMMA BoundByName ==
    ASSUME PF!ProfileAssumption, PF!TagsSound, NEW a, NEW u, NEW n, PF!BindByName(a, u, n)
    PROVE  PF!TagsSound' /\ \A t \in tag' \ tag : DOMAIN t = {"id", "user", "name"}
<1>1. tag' \in PF!With(u, n) /\ bound' = bound \cup {<<a, t.id>> : t \in {x \in tag' : x.user = u /\ x.name = n}}
  BY DEF PF!BindByName
<1>2. /\ tag \subseteq tag'
      /\ \A t \in tag' \ tag : DOMAIN t = {"id", "user", "name"}
      /\ \A s, t \in tag' : (s.user = t.user /\ s.name = t.name) \/ s.id = t.id => s = t
  BY <1>1, MadeTag
<1>3. \A b \in bound' : \E t \in tag' : t.id = b[2]
  <2>1. ASSUME NEW b \in bound PROVE \E t \in tag' : t.id = b[2]
    BY <1>2 DEF PF!TagsSound
  <2>2. ASSUME NEW t \in tag', NEW b, b = <<a, t.id>> PROVE t.id = b[2]
    BY <2>2
  <2> QED
    BY <1>1, <2>1, <2>2
<1> QED
  BY <1>2, <1>3 DEF PF!TagsSound

LEMMA TagSteps ==
    ASSUME PF!ProfileAssumption, ProfileInv, NEW u, NEW n,
           \/ PF!CreateTag(u, n)
           \/ \E t \in tag : PF!RenameTag(u, t, n) \/ PF!DeleteTag(u, t)
           \/ \E a : PF!AddArticleTag(a, u, n) \/ PF!DismissSuggestion(u, a, n)
           \/ \E a, t : PF!Unbind(a, t)
    PROVE  ProfileInv'
<1>1. UNCHANGED <<signal, weight, req, work, ever>>
  BY DEF PF!CreateTag, PF!RenameTag, PF!DeleteTag, PF!AddArticleTag, PF!BindByName,
         PF!DismissSuggestion, PF!Unbind, PF!Others
<1>2. PF!TagsSound /\ \A t \in tag : DOMAIN t = {"id", "user", "name"}
  BY DEF ProfileInv
<1>3. PF!TagsSound' /\ \A t \in tag' \ tag : DOMAIN t = {"id", "user", "name"}
  <2>1. CASE PF!CreateTag(u, n)
    <3>1. tag' \in PF!With(u, n) /\ bound' = bound
      BY <2>1 DEF PF!CreateTag
    <3>2. /\ tag \subseteq tag'
          /\ \A t \in tag' \ tag : DOMAIN t = {"id", "user", "name"}
          /\ \A s, t \in tag' : (s.user = t.user /\ s.name = t.name) \/ s.id = t.id => s = t
      BY <1>2, <3>1, MadeTag
    <3> QED
      BY <1>2, <3>1, <3>2 DEF PF!TagsSound
  <2>2. ASSUME NEW t \in tag, PF!RenameTag(u, t, n) PROVE PF!TagsSound' /\ \A y \in tag' \ tag : DOMAIN y = {"id", "user", "name"}
    <3> DEFINE y == [t EXCEPT !.name = n]
    <3>1. tag' = (tag \ {t}) \cup {y} /\ bound' = bound /\ PF!TagOf(u, n) = {} /\ t.user = u
      BY <2>2 DEF PF!RenameTag
    <3>2. y.id = t.id /\ y.user = t.user /\ y.name = n /\ DOMAIN y = {"id", "user", "name"}
      BY <1>2
    <3> HIDE DEF y
    <3> QED
      BY <1>2, <3>1, <3>2 DEF PF!TagsSound, PF!TagOf
  <2>3. ASSUME NEW t \in tag, PF!DeleteTag(u, t) PROVE PF!TagsSound' /\ \A y \in tag' \ tag : DOMAIN y = {"id", "user", "name"}
    <3>1. tag' = tag \ {t} /\ bound' = {b \in bound : b[2] # t.id}
      BY <2>3 DEF PF!DeleteTag
    <3> QED
      BY <1>2, <3>1 DEF PF!TagsSound
  <2>4. ASSUME NEW a, PF!AddArticleTag(a, u, n) PROVE PF!TagsSound' /\ \A y \in tag' \ tag : DOMAIN y = {"id", "user", "name"}
    BY <1>2, <2>4, BoundByName DEF PF!AddArticleTag
  <2>5. ASSUME NEW a, PF!DismissSuggestion(u, a, n) PROVE PF!TagsSound' /\ \A y \in tag' \ tag : DOMAIN y = {"id", "user", "name"}
    BY <1>2, <2>5 DEF PF!DismissSuggestion, PF!TagsSound
  <2>6. ASSUME NEW a, NEW t, PF!Unbind(a, t) PROVE PF!TagsSound' /\ \A y \in tag' \ tag : DOMAIN y = {"id", "user", "name"}
    <3>1. tag' = tag /\ bound' = bound \ {<<a, t.id>>}
      BY <2>6 DEF PF!Unbind
    <3> QED
      BY <1>2, <3>1 DEF PF!TagsSound
  <2> QED
    BY <2>1, <2>2, <2>3, <2>4, <2>5, <2>6
<1> QED
  BY <1>1, <1>2, <1>3 DEF ProfileInv, Gave, PF!InterestEarned

-----------------------------------------------------------------------------
\* Signals.
LEMMA SignalSteps ==
    ASSUME ProfileInv, NEW r \in Request,
           \/ PF!Apply(r)
           \/ \E u \in User, a \in Article, k \in Kind : PF!Add(r, u, a, k)
    PROVE  ProfileInv'
<1> DEFINE q == req[r]
<1>1. UNCHANGED <<signal, weight, tag, bound, work, ever>> /\ Giving(q)
  BY DEF PF!Apply, PF!Add, PF!tags, ProfileInv
<1>2. \E y : Giving(y) /\ req' = [req EXCEPT ![r] = y]
  <2>1. CASE PF!Apply(r)
    <3> DEFINE c == class[q.article]
               amount == IF q.kind = "dislike" THEN PF!Dampen ELSE PF!Strength[q.kind]
               done0 == IF c.topic = None \/ amount = 0 THEN {{}} ELSE SUBSET PF!Topics(c)
    <3>1. PICK done \in done0 :
            req' = [req EXCEPT ![r] = [q EXCEPT !.at = "applied",
                                          !.credit = {<<i, PF!Share(i, amount)>> : i \in done}]]
      BY <2>1 DEF PF!Apply, PF!Step
    <3>2. q.at = "added"
      BY <2>1 DEF PF!Apply
    <3> DEFINE credit == {<<i, PF!Share(i, amount)>> : i \in done}
               y == [q EXCEPT !.at = "applied", !.credit = credit]
    <3>3. q.kind # "dislike" /\ credit # {} => Strong(q.kind)
      <4>1. credit # {} => amount # 0
        OBVIOUS
      <4>2. q.kind # "dislike" => amount \in {0, 2, 4, 8} /\ amount = PF!Strength[q.kind]
        BY <1>1, <3>2, Strengths DEF Giving
      <4> HIDE DEF credit, amount
      <4> QED
        BY <4>1, <4>2 DEF Strong
    <3>4. req' = [req EXCEPT ![r] = y]
      BY <3>1
    <3> HIDE DEF credit
    <3>5. y.at = "applied" /\ y.credit = credit /\ y.user = q.user /\ y.article = q.article
          /\ y.kind = q.kind /\ DOMAIN y = DOMAIN q
      BY <1>1 DEF Giving
    <3> HIDE DEF y
    <3>6. Giving(y)
      BY <1>1, <3>2, <3>3, <3>5 DEF Giving
    <3> QED
      BY <3>4, <3>6
  <2>2. ASSUME NEW u \in User, NEW a \in Article, NEW k \in Kind, PF!Add(r, u, a, k)
        PROVE  \E y : Giving(y) /\ req' = [req EXCEPT ![r] = y]
    <3> DEFINE y == [PF!Idle EXCEPT !.at = "added", !.user = u, !.article = a, !.kind = k]
    <3>1. req' = [req EXCEPT ![r] = y]
      BY <2>2 DEF PF!Add, PF!Step
    <3>2. Giving(y)
      BY DEF Giving, PF!Idle
    <3> QED
      BY <3>1, <3>2
  <2> QED
    BY <2>1, <2>2
<1> QED
  BY <1>1, <1>2 DEF ProfileInv, Gave, PF!InterestEarned, PF!TagsSound

LEMMA CommitStep ==
    ASSUME ProfileInv, NEW r \in Request, PF!Commit(r)
    PROVE  ProfileInv'
<1> DEFINE q == req[r]
<1>1. /\ q.at = "applied" /\ UNCHANGED <<tag, bound, work>>
      /\ signal' = signal \cup PF!Uncommitted(r)
      /\ req' = [req EXCEPT ![r] = [PF!Idle EXCEPT !.at = "done"]]
      /\ weight' = [weight EXCEPT ![q.user] = IF q.kind = "dislike" THEN PF!Lowered(@, q.credit)
                                              ELSE PF!Raised(@, q.credit)]
      /\ ever' = IF PF!Strength[q.kind] > 0 THEN ever \cup {<<q.user, q.article>>} ELSE ever
  BY DEF PF!Commit, PF!Step, PF!tags
<1>2. Giving(q) /\ q.user \in User /\ q.article \in Article /\ q.kind \in Kind
  BY <1>1 DEF ProfileInv, Giving
<1>3. signal' = signal \cup {<<q.user, q.article, q.kind>>}
  BY <1>1 DEF PF!Uncommitted
<1>4. ever \subseteq ever' /\ (Strong(q.kind) => <<q.user, q.article>> \in ever')
  BY <1>1 DEF Strong
<1>5. \A s \in signal' : s \in User \X Article \X Kind /\ (Strong(s[3]) => <<s[1], s[2]>> \in ever')
  <2>1. ASSUME NEW s \in signal PROVE s \in User \X Article \X Kind /\ (Strong(s[3]) => <<s[1], s[2]>> \in ever')
    BY <1>4 DEF ProfileInv
  <2>2. ASSUME NEW s, s = <<q.user, q.article, q.kind>>
        PROVE  s \in User \X Article \X Kind /\ (Strong(s[3]) => <<s[1], s[2]>> \in ever')
    <3>1. s[1] = q.user /\ s[2] = q.article /\ s[3] = q.kind
      BY <2>2
    <3>2. s \in User \X Article \X Kind
      BY <1>2, <2>2
    <3>3. Strong(s[3]) => <<s[1], s[2]>> \in ever'
      BY <1>4, <3>1
    <3> QED
      BY <3>2, <3>3
  <2> QED
    BY <1>3, <2>1, <2>2
<1>6. DOMAIN req' = Request /\ \A o \in Request : Giving(req'[o])
  <2>1. Giving([PF!Idle EXCEPT !.at = "done"])
    BY DEF Giving, PF!Idle
  <2> QED
    BY <1>1, <2>1 DEF ProfileInv
<1>7. PF!InterestEarned'
  <2>1. ASSUME NEW u \in User, DOMAIN weight'[u] # {} PROVE \E a \in Article : <<u, a>> \in ever'
    <3>1. CASE DOMAIN weight[u] # {}
      BY <1>4, <3>1 DEF ProfileInv, PF!InterestEarned
    <3>2. CASE DOMAIN weight[u] = {}
      <4>1. u = q.user
        BY <1>1, <2>1, <3>2 DEF ProfileInv
      <4>2. weight'[u] = IF q.kind = "dislike" THEN PF!Lowered(weight[u], q.credit) ELSE PF!Raised(weight[u], q.credit)
        BY <1>1, <4>1 DEF ProfileInv
      <4>3. q.kind # "dislike"
        BY <2>1, <3>2, <4>2, LoweredDomain
      <4>4. q.credit # {}
        <5>1. DOMAIN weight'[u] = DOMAIN weight[u] \cup {x[1] : x \in q.credit}
          BY <4>2, <4>3, RaisedDomain
        <5>2. PICK i : i \in {x[1] : x \in q.credit}
          BY <2>1, <3>2, <5>1
        <5> QED
          BY <5>2
      <4> QED
        BY <1>1, <1>2, <1>4, <4>1, <4>3, <4>4 DEF Giving
    <3> QED
      BY <3>1, <3>2
  <2> QED
    BY <2>1 DEF PF!InterestEarned
<1>8. DOMAIN weight' = User
  BY <1>1 DEF ProfileInv
<1>9. work.at \in {"crediting", "binding"} => \A u \in DOMAIN work.users : Gave(u)'
  BY <1>4 DEF ProfileInv, Gave
<1> QED
  BY <1>1, <1>5, <1>6, <1>7, <1>8, <1>9 DEF ProfileInv, PF!TagsSound

\* The reader takes back, the interests fade: no interest appears.
LEMMA FadeSteps ==
    ASSUME ProfileInv,
           \/ PF!DecayAll
           \/ \E u \in User : \/ \E i \in DOMAIN weight[u] : PF!Forget(u, i)
                            \/ \E a \in Article : PF!Unsave(u, a)
    PROVE  ProfileInv'
<1>1. UNCHANGED <<tag, bound, req, work, ever>> /\ signal' \subseteq signal
  BY DEF PF!DecayAll, PF!Forget, PF!Unsave, PF!tags
<1>2. DOMAIN weight' = User /\ \A u \in User : DOMAIN weight'[u] \subseteq DOMAIN weight[u]
  <2>1. CASE PF!DecayAll
    BY <2>1 DEF PF!DecayAll, ProfileInv
  <2>2. ASSUME NEW u \in User, NEW i \in DOMAIN weight[u], PF!Forget(u, i)
        PROVE  DOMAIN weight' = User /\ \A v \in User : DOMAIN weight'[v] \subseteq DOMAIN weight[v]
    <3>1. weight' = [weight EXCEPT ![u] = PF!Restrict(weight[u], DOMAIN weight[u] \ {i})]
      BY <2>2 DEF PF!Forget
    <3>2. DOMAIN PF!Restrict(weight[u], DOMAIN weight[u] \ {i}) \subseteq DOMAIN weight[u]
      BY DEF PF!Restrict
    <3> QED
      BY <3>1, <3>2 DEF ProfileInv
  <2>3. ASSUME NEW u \in User, NEW a \in Article, PF!Unsave(u, a)
        PROVE  DOMAIN weight' = User /\ \A v \in User : DOMAIN weight'[v] \subseteq DOMAIN weight[v]
    BY <2>3 DEF PF!Unsave, ProfileInv
  <2> QED
    BY <2>1, <2>2, <2>3
<1>3. PF!InterestEarned'
  BY <1>1, <1>2 DEF ProfileInv, PF!InterestEarned
<1> QED
  BY <1>1, <1>2, <1>3 DEF ProfileInv, Gave, PF!TagsSound

-----------------------------------------------------------------------------
\* The worker's pass.
LEMMA PassGoesOn ==
    ASSUME ProfileInv, Passing(work'), UNCHANGED <<signal, weight, tag, bound, req, ever>>,
           work'.at \in {"crediting", "binding"} => \A u \in DOMAIN work'.users : Gave(u)
    PROVE  ProfileInv'
BY DEF ProfileInv, Gave, PF!InterestEarned, PF!TagsSound

LEMMA FinishedPass ==
    ASSUME Passing(work), work.at \in {"crediting", "binding"}
    PROVE  Passing(PF!Finished) /\ DOMAIN PF!Finished.users \subseteq DOMAIN work.users
<1> DEFINE rest == PF!Restrict(work.users, DOMAIN work.users \ {work.user})
<1>1. DOMAIN rest \subseteq DOMAIN work.users
  BY DEF PF!Restrict
<1>2. PF!Finished = [work EXCEPT !.at = "crediting", !.users = rest, !.names = {}, !.user = None]
  BY DEF PF!Finished
<1> HIDE DEF rest
<1>3. PF!Finished.users = rest /\ DOMAIN PF!Finished = DOMAIN work
  BY <1>2 DEF Passing
<1> QED
  BY <1>1, <1>3 DEF Passing

LEMMA WorkSteps ==
    ASSUME ProfileInv,
           \/ PF!SetClassification \/ PF!EndArticle \/ PF!Failed
           \/ \E a \in Article : PF!ClassifyArticle(a)
           \/ \E u \in User : PF!NoTagger(u)
    PROVE  ProfileInv'
<1>1. UNCHANGED <<signal, weight, tag, bound, req, ever>> /\ Passing(work)
  BY DEF ProfileInv, PF!SetClassification, PF!EndArticle, PF!Failed, PF!ClassifyArticle, PF!NoTagger,
         PF!Rest, PF!tags
<1>2. Passing(PF!Asleep) /\ PF!Asleep.at = "idle"
  BY DEF Passing, PF!Asleep
<1>3. CASE PF!EndArticle \/ PF!Failed
  BY <1>1, <1>2, <1>3, PassGoesOn DEF PF!EndArticle, PF!Failed
<1>4. CASE PF!SetClassification
  <2>1. work' = [work EXCEPT !.at = "cached"]
    BY <1>4 DEF PF!SetClassification
  <2>2. DOMAIN work' = DOMAIN work /\ work'.at = "cached"
    BY <1>1, <2>1 DEF Passing
  <2> QED
    BY <1>1, <2>2, PassGoesOn DEF Passing
<1>5. ASSUME NEW a \in Article, PF!ClassifyArticle(a) PROVE ProfileInv'
  <2>1. PICK c \in Answer : work' = [PF!Asleep EXCEPT !.at = "asked", !.article = a, !.answer = c]
    BY <1>5 DEF PF!ClassifyArticle
  <2>2. Passing(work') /\ work'.at = "asked"
    BY <2>1 DEF Passing, PF!Asleep
  <2> QED
    BY <1>1, <2>2, PassGoesOn
<1>6. ASSUME NEW u \in User, PF!NoTagger(u) PROVE ProfileInv'
  <2>1. work' = PF!Finished /\ work.at = "binding"
    BY <1>6 DEF PF!NoTagger
  <2> QED
    BY <1>1, <2>1, FinishedPass, PassGoesOn DEF ProfileInv
<1> QED
  BY <1>3, <1>4, <1>5, <1>6

LEMMA StrongReaders ==
    ASSUME ProfileInv, PF!GetUsersWithStrongSignal
    PROVE  ProfileInv'
<1> DEFINE strong == {u \in User : PF!StrengthOf(u, work.article) > 0}
           users == [u \in strong |-> PF!StrengthOf(u, work.article)]
<1>1. UNCHANGED <<signal, weight, tag, bound, req, ever>> /\ Passing(work)
      /\ work' = [work EXCEPT !.at = "crediting", !.users = users]
  BY DEF ProfileInv, PF!GetUsersWithStrongSignal, PF!Rest, PF!tags
<1>2. DOMAIN users \subseteq User /\ \A u \in DOMAIN users : Gave(u)
  BY Strongest DEF Gave
<1> HIDE DEF users
<1>3. work'.users = users /\ DOMAIN work' = DOMAIN work
  BY <1>1 DEF Passing
<1> QED
  BY <1>1, <1>2, <1>3, PassGoesOn DEF Passing

LEMMA CreditStep ==
    ASSUME ProfileInv, NEW u \in User, PF!CreditUser(u)
    PROVE  ProfileInv'
<1>1. work.at = "crediting" /\ u \in DOMAIN work.users /\ UNCHANGED <<signal, tag, bound, req, ever>>
      /\ Passing(work)
  BY DEF ProfileInv, PF!CreditUser, PF!Rest, PF!tags
<1>2. \E names : work' = [work EXCEPT !.at = "binding", !.user = u, !.names = names]
  BY DEF PF!CreditUser
<1>3. DOMAIN work' = DOMAIN work /\ work'.users = work.users
  BY <1>1, <1>2 DEF Passing
<1>4. Gave(u)
  BY <1>1 DEF ProfileInv
<1>5. \E w : weight' = [weight EXCEPT ![u] = w]
  BY DEF PF!CreditUser
<1>6. PF!InterestEarned'
  BY <1>1, <1>4, <1>5 DEF ProfileInv, Gave, PF!InterestEarned
<1>7. DOMAIN weight' = User
  BY <1>5 DEF ProfileInv
<1> QED
  BY <1>1, <1>3, <1>6, <1>7 DEF ProfileInv, Passing, Gave, PF!TagsSound

LEMMA BindStep ==
    ASSUME PF!ProfileAssumption, ProfileInv, NEW n, PF!BindGeneratedTags(n)
    PROVE  ProfileInv'
<1>1. /\ work.at = "binding" /\ PF!BindByName(work.article, work.user, n)
      /\ work' = PF!Finished \/ work' = [work EXCEPT !.names = @ \ {n}]
      /\ UNCHANGED <<signal, weight, req, ever>> /\ Passing(work) /\ PF!TagsSound
  BY DEF ProfileInv, PF!BindGeneratedTags, PF!BindByName, PF!Others
<1>2. PF!TagsSound' /\ \A t \in tag' \ tag : DOMAIN t = {"id", "user", "name"}
  BY <1>1, BoundByName
<1>3. Passing(work') /\ DOMAIN work'.users \subseteq DOMAIN work.users
  <2>1. CASE work' = PF!Finished
    BY <1>1, <2>1, FinishedPass
  <2>2. CASE work' = [work EXCEPT !.names = @ \ {n}]
    <3>1. DOMAIN work' = DOMAIN work /\ work'.users = work.users
      BY <1>1, <2>2 DEF Passing
    <3> QED
      BY <1>1, <3>1 DEF Passing
  <2> QED
    BY <1>1, <2>1, <2>2
<1> QED
  BY <1>1, <1>2, <1>3 DEF ProfileInv, Gave, PF!InterestEarned

LEMMA ProfileStep ==
    ASSUME PF!ProfileAssumption, ProfileInv, [PF!Next]_(PF!vars)
    PROVE  ProfileInv'
<1>1. CASE UNCHANGED PF!vars
  BY <1>1 DEF PF!vars, PF!tags, ProfileInv, Gave, PF!InterestEarned, PF!TagsSound
<1>2. ASSUME NEW r \in Request, PF!Apply(r) \/ PF!Commit(r)
                          \/ \E u \in User, a \in Article, k \in Kind : PF!Add(r, u, a, k)
      PROVE  ProfileInv'
  BY <1>2, SignalSteps, CommitStep
<1>3. ASSUME NEW n \in Name, \E u \in User : \/ PF!CreateTag(u, n) \/ \E t \in tag : PF!RenameTag(u, t, n)
                                \/ \E a \in Article : PF!AddArticleTag(a, u, n) \/ PF!DismissSuggestion(u, a, n)
      PROVE  ProfileInv'
  BY <1>3, TagSteps
<1>4. ASSUME NEW t \in tag, \/ \E u \in User : PF!DeleteTag(u, t)
                            \/ \E a \in Article : PF!Unbind(a, t)
      PROVE  ProfileInv'
  BY <1>4, TagSteps
<1> QED
  BY <1>1, <1>2, <1>3, <1>4, FadeSteps, WorkSteps, StrongReaders, CreditStep, BindStep DEF PF!Next

\* A reader's profile shows an interest only if the reader once gave a strong
\* signal, a reader has one tag of a name and an article only tags there are,
\* whatever signals, fading, the worker's passes and the reader's edits meet.
\* preference.go, user_tag.go, cmd/worker/classify.go.
THEOREM ProfileKeptAlways ==
    ASSUME PF!ProfileAssumption PROVE PF!Spec => []PF!ProfileKept
<1>1. PF!Spec => []ProfileInv
  BY ProfileInit, ProfileStep, PTL DEF PF!Spec
<1>2. ProfileInv => PF!ProfileKept
  BY DEF ProfileInv, PF!ProfileKept
<1> QED
  BY <1>1, <1>2, PTL

-----------------------------------------------------------------------------
(* BackupFiles: what a pass has still to remove has something newer in its  *)
(* bucket, which is listed.                                                 *)

CONSTANTS Process, KeepAll, Weekly, Week, Month, MaxCrashes
VARIABLES file, written, run, migration, crashes

BF == INSTANCE BackupFiles

LEMMA Calendar ==
    ASSUME NEW a \in Nat, NEW b \in Nat, NEW N \in Nat \ {0}, a \div N = b \div N
    PROVE  b - a < N
OBVIOUS

\* A set of instants has a last one.
LEMMA LastInstant ==
    ASSUME NEW N \in Nat, NEW S, S \subseteq 0 .. N, S # {}
    PROVE  \E x \in S : \A y \in S : y <= x
<1> DEFINE T == {N - x : x \in S}
<1>0. \A x \in S : x \in Nat /\ x <= N
  OBVIOUS
<1>1. T \subseteq Nat /\ T # {}
  <2>1. ASSUME NEW x \in S PROVE N - x \in Nat
    BY <1>0
  <2> QED
    BY <2>1
<1>2. PICK m \in T : \A k \in T : <<k, m>> \notin OpToRel(<, Nat)
  BY <1>1, WFMin, NatLessThanWellFounded, Zenon
<1>3. \A k \in T : m <= k
  <2> SUFFICES ASSUME NEW k \in T PROVE m <= k
    OBVIOUS
  <2>1. ~(k < m)
    BY <1>1, <1>2, Zenon DEF OpToRel
  <2> QED
    BY <1>1, <2>1
<1>4. PICK x \in S : m = N - x
  OBVIOUS
<1>5. ASSUME NEW y \in S PROVE y <= x
  <2>1. m <= N - y
    BY <1>3
  <2> QED
    BY <1>4, <2>1
<1> QED
  BY <1>5

Listed(t) == <<t, "tar">> \in file \/ <<t, "json">> \in file

SameBucket(t, g) ==
    IF now - t < Weekly THEN now - g < Weekly /\ t \div Week = g \div Week
    ELSE ~(now - g < Weekly) /\ t \div Month = g \div Month

Superseded(t) == \E g \in BF!Instants : Listed(g) /\ t < g /\ SameBucket(t, g)

\* What stands for an archive is of its week; or, when the one of its week is
\* gone too, of the month of that one, and as old as to be kept by month.
StandsFor(g, t) ==
    /\ t <= g
    /\ \/ t \div Week = g \div Week
       \/ /\ ~(now - g < Weekly)
          /\ \E x \in BF!Instants : /\ t <= x /\ x <= g
                                    /\ t \div Week = x \div Week /\ x \div Month = g \div Month
Stood(t) == \E g \in BF!Instants : Listed(g) /\ StandsFor(g, t)

RetentionInv ==
    /\ BF!TypeOK
    /\ \A p \in Process : run[p].at = "pruning" => \A f \in run[p].todo : Superseded(f[1])
    /\ migration.at = "wrote" =>
         \/ <<migration.stamp, "tar">> \in file /\ <<migration.stamp, "json">> \in file
         \/ Superseded(migration.stamp)
    /\ migration.at = "removing" =>
         <<migration.stamp, "tar">> \in file \/ Superseded(migration.stamp)
    /\ \A t \in written : Stood(t)

LEMMA OnList ==
    /\ \A f \in BF!List : f[1] \in BF!Instants /\ Listed(f[1]) /\ f \in BF!Instants \X {"tar", "json"}
    /\ \A t \in BF!Instants : Listed(t) => \E f \in BF!List : f[1] = t
<1> DEFINE Tars == {<<t, "tar">> : t \in {u \in BF!Instants : <<u, "tar">> \in file}}
           Jsons == {<<t, "json">> : t \in {u \in BF!Instants : <<u, "json">> \in file
                                                           /\ <<u, "tar">> \notin file}}
<1>1. BF!List = Tars \cup Jsons
  BY DEF BF!List
<1>2. ASSUME NEW f \in BF!List
      PROVE  \E t \in BF!Instants, k \in {"tar", "json"} : f = <<t, k>> /\ f \in file
  <2>1. CASE f \in Tars
    BY <2>1
  <2>2. CASE f \in Jsons
    BY <2>2
  <2> QED
    BY <1>1, <2>1, <2>2
<1>3. ASSUME NEW t \in BF!Instants, Listed(t) PROVE \E f \in Tars \cup Jsons : f[1] = t
  <2>1. CASE <<t, "tar">> \in file
    <3>1. <<t, "tar">> \in Tars /\ <<t, "tar">>[1] = t
      BY <2>1
    <3> QED
      BY <3>1
  <2>2. CASE <<t, "json">> \in file /\ <<t, "tar">> \notin file
    <3>1. <<t, "json">> \in Jsons /\ <<t, "json">>[1] = t
      BY <2>2
    <3> QED
      BY <3>1
  <2> QED
    BY <1>3, <2>1, <2>2 DEF Listed
<1> HIDE DEF Tars, Jsons
<1> QED
  BY <1>1, <1>2, <1>3 DEF Listed

LEMMA ListedKept ==
    ASSUME now' = now, \A t \in BF!Instants : Listed(t) => Listed(t)'
    PROVE  \A t \in BF!Instants : /\ Superseded(t) => Superseded(t)'
                                  /\ Stood(t) => Stood(t)'
BY DEF Superseded, Stood, StandsFor, SameBucket

\* An archive that is superseded may go: what it stood for, what supersedes it
\* stands for.
LEMMA OneUnlisted ==
    ASSUME BF!RetentionAssumption, now \in BF!Instants, now' = now,
           NEW u \in BF!Instants, Superseded(u),
           \A t \in BF!Instants : t # u /\ Listed(t) => Listed(t)'
    PROVE  \A t \in BF!Instants : /\ Superseded(t) => Superseded(t)'
                                  /\ Stood(t) => Stood(t)'
<1>0. BF!Instants \subseteq Nat /\ Weekly \in Nat /\ now \in Nat
  BY DEF BF!Instants, BF!RetentionAssumption
<1>1. PICK h \in BF!Instants : Listed(h) /\ u < h /\ SameBucket(u, h)
  BY DEF Superseded
<1>2. Listed(h)'
  BY <1>0, <1>1
<1>3. ASSUME NEW t \in BF!Instants, Superseded(t) PROVE Superseded(t)'
  <2>1. PICK g \in BF!Instants : Listed(g) /\ t < g /\ SameBucket(t, g)
    BY <1>3 DEF Superseded
  <2>2. CASE g = u
    <3>1. t < h /\ SameBucket(t, h)
      BY <1>0, <1>1, <2>1, <2>2 DEF SameBucket
    <3> QED
      BY <1>2, <3>1 DEF Superseded, SameBucket
  <2>3. CASE g # u
    BY <2>1, <2>3 DEF Superseded, SameBucket
  <2> QED
    BY <2>2, <2>3
<1>4. ASSUME NEW t \in BF!Instants, Stood(t) PROVE Stood(t)'
  <2>1. PICK g \in BF!Instants : Listed(g) /\ StandsFor(g, t)
    BY <1>4 DEF Stood
  <2>2. CASE g = u
    <3>1. StandsFor(h, t)
      BY <1>0, <1>1, <2>1, <2>2 DEF SameBucket, StandsFor
    <3> QED
      BY <1>2, <3>1 DEF Stood, StandsFor
  <2>3. CASE g # u
    BY <2>1, <2>3 DEF Stood, StandsFor
  <2> QED
    BY <2>2, <2>3
<1> QED
  BY <1>3, <1>4

LEMMA RetentionInit == ASSUME BF!RetentionAssumption PROVE BF!Init => RetentionInv
<1> SUFFICES ASSUME BF!Init PROVE RetentionInv
  OBVIOUS
<1>0. MaxTime \in Nat /\ MaxCrashes \in Nat /\ 0 \in BF!Instants
  BY DEF BF!RetentionAssumption, BF!Instants
<1>1. written \subseteq {0} /\ (written # {} => <<0, "json">> \in file)
  BY DEF BF!Init
<1>2. BF!TypeOK
  <2>1. file \subseteq BF!Instants \X BF!Kinds
    BY <1>0 DEF BF!Init, BF!Kinds
  <2> QED
    BY <1>0, <1>1, <2>1 DEF BF!Init, BF!TypeOK, BF!Idle
<1>3. \A t \in written : Stood(t)
  BY <1>0, <1>1 DEF Stood, StandsFor, Listed
<1> QED
  BY <1>2, <1>3 DEF RetentionInv, BF!Init, BF!Idle

LEMMA RetentionStep ==
    ASSUME BF!RetentionAssumption, RetentionInv, [BF!Next]_(BF!vars)
    PROVE  RetentionInv'
<1> DEFINE Kept == \A t \in BF!Instants : /\ Superseded(t) => Superseded(t)'
                                          /\ Stood(t) => Stood(t)'
<1>0. /\ BF!Instants \subseteq Nat /\ MaxTime \in Nat /\ MaxCrashes \in Nat /\ now \in BF!Instants
      /\ BF!Instants = 0 .. MaxTime
      /\ file \subseteq BF!Instants \X BF!Kinds /\ written \subseteq BF!Instants
      /\ crashes \in 0 .. MaxCrashes
      /\ run \in [Process -> [at : {"idle", "writing", "wrote", "pruning"}, stamp : BF!Instants,
                              todo : SUBSET (BF!Instants \X {"tar", "json"})]]
      /\ migration \in [at : {"idle", "writing", "wrote", "removing"}, stamp : BF!Instants,
                        todo : SUBSET BF!Instants]
  BY DEF RetentionInv, BF!TypeOK, BF!Instants, BF!RetentionAssumption
<1>00. BF!Idle.at = "idle" /\ BF!Idle.stamp \in BF!Instants /\ BF!Idle.todo = {}
       /\ BF!Idle \in [at : {"idle"}, stamp : BF!Instants, todo : {{}}]
  BY <1>0 DEF BF!Idle
<1>1. ASSUME NEW p \in Process, BF!RunNow(p) PROVE RetentionInv'
  <2>1. Kept
    BY <1>1, ListedKept DEF BF!RunNow, Listed
  <2>2. /\ run' = [run EXCEPT ![p] = [BF!Idle EXCEPT !.at = "writing", !.stamp = now]]
        /\ file' = file \cup {<<now, "tmp">>} /\ UNCHANGED <<now, written, migration, crashes>>
    BY <1>1 DEF BF!RunNow
  <2>3. BF!TypeOK'
    <3> DEFINE q == [BF!Idle EXCEPT !.at = "writing", !.stamp = now]
    <3>1. q \in [at : {"writing"}, stamp : BF!Instants, todo : {{}}]
      BY <1>0 DEF BF!Idle
    <3> HIDE DEF q
    <3>2. run' \in [Process -> [at : {"idle", "writing", "wrote", "pruning"}, stamp : BF!Instants,
                               todo : SUBSET (BF!Instants \X {"tar", "json"})]]
      BY <1>0, <2>2, <3>1 DEF q
    <3>3. file' \subseteq BF!Instants \X BF!Kinds
      BY <1>0, <2>2 DEF BF!Kinds
    <3> QED
      BY <1>0, <2>2, <3>2, <3>3 DEF BF!TypeOK
  <2>4. \A q \in Process : run'[q].at = "pruning" => run'[q] = run[q]
    BY <1>0, <2>2 DEF BF!Idle
  <2> HIDE DEF Kept
  <2> QED
    BY <1>0, <2>1, <2>2, <2>3, <2>4 DEF RetentionInv, Kept
<1>2. ASSUME NEW p \in Process, BF!WriteFiles(p) PROVE RetentionInv'
  <2>0. PICK u \in BF!Instants : u = run[p].stamp
    BY <1>0
  <2>1. UNCHANGED <<now, migration, crashes>>
    BY <1>2 DEF BF!WriteFiles
  <2>2. \/ /\ file' = (file \ {<<u, "tmp">>}) \cup {<<u, "tar">>}
           /\ written' = written \cup {u} /\ run' = [run EXCEPT ![p].at = "wrote"]
        \/ /\ file' = file \ {<<u, "tmp">>} /\ written' = written
           /\ run' = [run EXCEPT ![p] = BF!Idle]
    BY <1>2, <2>0 DEF BF!WriteFiles
  <2>3. \A t \in BF!Instants, k \in {"tar", "json"} : <<t, k>> \in file => <<t, k>> \in file'
    BY <2>2
  <2>4. Kept
    BY <2>1, <2>3, ListedKept DEF Listed
  <2>5. BF!TypeOK'
    <3>1. file' \subseteq BF!Instants \X BF!Kinds /\ written' \subseteq BF!Instants
      BY <1>0, <2>2 DEF BF!Kinds
    <3>2. run' \in [Process -> [at : {"idle", "writing", "wrote", "pruning"}, stamp : BF!Instants,
                               todo : SUBSET (BF!Instants \X {"tar", "json"})]]
      <4>1. CASE run' = [run EXCEPT ![p].at = "wrote"]
        BY <1>0, <4>1
      <4>2. CASE run' = [run EXCEPT ![p] = BF!Idle]
        BY <1>0, <1>00, <4>2
      <4> QED
        BY <2>2, <4>1, <4>2
    <3> QED
      BY <1>0, <2>1, <3>1, <3>2 DEF BF!TypeOK
  <2>6. \A q \in Process : run'[q].at = "pruning" => run'[q] = run[q]
    BY <1>0, <1>00, <2>2
  <2>7. \A t \in written' : Stood(t)'
    <3>1. ASSUME u \in written' , u \notin written PROVE Stood(u)'
      <4>1. Listed(u)'
        BY <2>2, <3>1 DEF Listed
      <4> QED
        BY <1>0, <2>1, <4>1 DEF Stood, StandsFor
    <3>2. ASSUME NEW t \in written PROVE Stood(t)'
      BY <1>0, <2>4 DEF RetentionInv
    <3> QED
      BY <2>2, <3>1, <3>2
  <2> HIDE DEF Kept
  <2> QED
    BY <1>0, <2>1, <2>3, <2>4, <2>5, <2>6, <2>7 DEF RetentionInv, Kept
<1>3. ASSUME NEW p \in Process, BF!Prune(p) PROVE RetentionInv'
  <2> DEFINE todo == BF!List \ BF!Kept(BF!List)
  <2>1. /\ file' = file \ BF!Orphans /\ UNCHANGED <<now, written, migration, crashes>>
        /\ run' = [run EXCEPT ![p].at = "pruning", ![p].todo = todo]
    BY <1>3 DEF BF!Prune
  <2>2. \A t \in BF!Instants, k \in {"tar", "json"} : <<t, k>> \in file => <<t, k>> \in file'
    BY <2>1 DEF BF!Orphans
  <2>3. Kept
    BY <2>1, <2>2, ListedKept DEF Listed
  <2>4. \A f \in BF!List : f[1] \in BF!Instants /\ Listed(f[1])
                           /\ f \in BF!Instants \X {"tar", "json"}
    BY OnList
  <2>5. ASSUME NEW f \in todo PROVE Superseded(f[1])
    <3> DEFINE old == {g \in BF!List : now - g[1] >= KeepAll}
               alike == {g \in old : BF!Bucket(g[1]) = BF!Bucket(f[1])}
    <3>1. f \in old /\ f \notin BF!Newest(alike)
      BY DEF BF!Kept
    <3>2. PICK g \in alike : ~(g[1] <= f[1])
      BY <3>1 DEF BF!Newest
    <3>3. /\ g[1] \in BF!Instants /\ Listed(g[1]) /\ f[1] \in BF!Instants
          /\ BF!Bucket(g[1]) = BF!Bucket(f[1])
      BY <2>4, <3>1
    <3>4. f[1] < g[1]
      BY <1>0, <3>2, <3>3
    <3>5. SameBucket(f[1], g[1])
      BY <3>3 DEF BF!Bucket, SameBucket
    <3> QED
      BY <3>3, <3>4, <3>5 DEF Superseded
  <2>6. BF!TypeOK'
    BY <1>0, <2>1, <2>4 DEF BF!TypeOK
  <2>7. \A q \in Process : run'[q].at = "pruning" =>
          (run'[q].todo = run[q].todo /\ run[q].at = "pruning") \/ run'[q].todo = todo
    BY <1>0, <2>1
  <2>8. \A q \in Process : run'[q].at = "pruning" => \A f \in run'[q].todo : Superseded(f[1])'
    <3> SUFFICES ASSUME NEW q \in Process, run'[q].at = "pruning", NEW f \in run'[q].todo
                 PROVE  Superseded(f[1])'
      OBVIOUS
    <3>1. f[1] \in BF!Instants
      BY <2>6 DEF BF!TypeOK, BF!Instants
    <3> HIDE DEF todo
    <3>2. Superseded(f[1])
      BY <2>5, <2>7 DEF RetentionInv
    <3> QED
      BY <2>3, <3>1, <3>2
  <2> HIDE DEF Kept, todo
  <2> QED
    BY <1>0, <2>1, <2>2, <2>3, <2>6, <2>8 DEF RetentionInv, Kept
<1>4. ASSUME NEW p \in Process, BF!Remove(p) PROVE RetentionInv'
  <2> DEFINE Latest(g) == \A h \in run[p].todo : h[1] <= g[1]
             f == CHOOSE g \in run[p].todo : Latest(g)
  <2>0. run[p].at = "pruning" /\ UNCHANGED <<now, written, migration, crashes>>
    BY <1>4 DEF BF!Remove
  <2>1. CASE run' = [run EXCEPT ![p] = BF!Idle] /\ UNCHANGED file
    <3>1. Kept
      BY <2>0, <2>1, ListedKept DEF Listed
    <3>2. BF!TypeOK'
      BY <1>0, <1>00, <2>0, <2>1 DEF BF!TypeOK
    <3>3. \A q \in Process : run'[q].at = "pruning" => run'[q] = run[q]
      BY <1>0, <1>00, <2>1
    <3> HIDE DEF Kept
    <3> QED
      BY <1>0, <2>0, <2>1, <3>1, <3>2, <3>3 DEF RetentionInv, Kept
  <2>2. CASE run[p].todo # {} /\ f \in file
             /\ file' = file \ {f, IF f[2] = "json" THEN <<f[1], "saved">> ELSE f}
             /\ run' = [run EXCEPT ![p].todo = @ \ {f}]
    <3>1. f \in run[p].todo
      <4> DEFINE S == {h[1] : h \in run[p].todo}
      <4>1. S \subseteq 0 .. MaxTime /\ S # {}
        BY <1>0, <2>2
      <4>2. PICK x \in S : \A y \in S : y <= x
        BY <1>0, <4>1, LastInstant
      <4>3. \E g \in run[p].todo : Latest(g)
        BY <4>2
      <4> HIDE DEF Latest
      <4> QED
        BY <4>3
    <3> HIDE DEF f
    <3>2. PICK u \in BF!Instants, k \in {"tar", "json"} : f = <<u, k>>
      BY <1>0, <3>1
    <3>3. Superseded(u)
      <4>1. Superseded(f[1])
        BY <2>0, <3>1 DEF RetentionInv
      <4>2. f[1] = u
        BY <3>2
      <4> QED
        BY <4>1, <4>2
    <3>4. \A t \in BF!Instants, j \in {"tar", "json"} : t # u /\ <<t, j>> \in file => <<t, j>> \in file'
      BY <2>2, <3>2
    <3>5. Kept
      BY <1>0, <2>0, <3>3, <3>4, OneUnlisted DEF Listed
    <3>6. BF!TypeOK'
      BY <1>0, <2>0, <2>2 DEF BF!TypeOK
    <3>7. \A q \in Process : run'[q].at = "pruning" =>
            run[q].at = "pruning" /\ run'[q].todo \subseteq run[q].todo
      BY <1>0, <2>2
    <3>8. Superseded(u)'
      BY <3>3, <3>5
    <3>9. \A q \in Process : run'[q].at = "pruning" => \A g \in run'[q].todo : Superseded(g[1])'
      <4> SUFFICES ASSUME NEW q \in Process, run'[q].at = "pruning", NEW g \in run'[q].todo
                   PROVE  Superseded(g[1])'
        OBVIOUS
      <4>1. g[1] \in BF!Instants /\ Superseded(g[1])
        BY <1>0, <3>7 DEF RetentionInv
      <4> QED
        BY <3>5, <4>1
    <3>10. /\ migration.at = "wrote" =>
                \/ <<migration.stamp, "tar">> \in file' /\ <<migration.stamp, "json">> \in file'
                \/ Superseded(migration.stamp)'
           /\ migration.at = "removing" =>
                <<migration.stamp, "tar">> \in file' \/ Superseded(migration.stamp)'
      <4>1. migration.stamp \in BF!Instants /\ migration' = migration
        BY <1>0, <2>0
      <4>2. CASE migration.stamp = u
        BY <2>0, <3>8, <4>2
      <4>3. CASE migration.stamp # u
        BY <2>0, <3>4, <3>5, <4>1, <4>3 DEF RetentionInv
      <4> QED
        BY <4>2, <4>3
    <3> HIDE DEF Kept
    <3> QED
      BY <1>0, <2>0, <3>5, <3>6, <3>9, <3>10 DEF RetentionInv, Kept
  <2> QED
    BY <1>4, <2>1, <2>2 DEF BF!Remove
<1>5. ASSUME NEW p \in Process, BF!Crash(p) PROVE RetentionInv'
  <2>0. /\ run' = [run EXCEPT ![p] = BF!Idle] /\ crashes' = crashes + 1 /\ crashes < MaxCrashes
        /\ UNCHANGED <<now, file, written, migration>>
    BY <1>5 DEF BF!Crash
  <2>1. Kept
    BY <2>0, ListedKept DEF Listed
  <2>2. BF!TypeOK'
    BY <1>0, <1>00, <2>0 DEF BF!TypeOK
  <2>3. \A q \in Process : run'[q].at = "pruning" => run'[q] = run[q]
    BY <1>0, <1>00, <2>0
  <2> HIDE DEF Kept
  <2> QED
    BY <1>0, <2>0, <2>1, <2>2, <2>3 DEF RetentionInv, Kept
<1>6. ASSUME BF!Tick PROVE RetentionInv'
  <2>1. /\ now' = now + 1 /\ now' \in BF!Instants /\ UNCHANGED <<file, written, run, migration, crashes>>
        /\ \A p \in Process : run[p].at # "pruning"
        /\ migration.at \notin {"wrote", "removing"}
    BY <1>0, <1>6 DEF BF!Tick, BF!Instants
  <2>2. BF!TypeOK'
    BY <1>0, <2>1 DEF BF!TypeOK
  <2>3. ASSUME NEW t \in written PROVE Stood(t)'
    <3>1. PICK g \in BF!Instants : Listed(g) /\ StandsFor(g, t)
      BY DEF RetentionInv, Stood
    <3>2. ~(now - g < Weekly) => ~(now' - g < Weekly)
      BY <1>0, <2>1 DEF BF!RetentionAssumption
    <3>3. Listed(g)' /\ StandsFor(g, t)'
      BY <2>1, <3>1, <3>2 DEF Listed, StandsFor
    <3> QED
      BY <3>3 DEF Stood
  <2> QED
    BY <2>1, <2>2, <2>3 DEF RetentionInv
<1>7. ASSUME BF!scan PROVE RetentionInv'
  <2> DEFINE old == {f[1] : f \in {g \in BF!List : g[2] = "json"}}
  <2>1. /\ old # {} /\ UNCHANGED <<now, file, written, run, crashes>>
        /\ migration' = [BF!Idle EXCEPT !.at = "writing", !.stamp = BF!Max(old), !.todo = old]
    BY <1>7 DEF BF!scan
  <2>2. old \subseteq BF!Instants
    BY OnList
  <2>3. BF!Max(old) \in old
    <3>1. PICK x \in old : \A y \in old : y <= x
      BY <1>0, <2>1, <2>2, LastInstant
    <3>2. \A y \in old : x >= y
      BY <1>0, <2>2, <3>1
    <3> HIDE DEF old
    <3> QED
      BY <3>2 DEF BF!Max
  <2> HIDE DEF old
  <2>4. Kept
    BY <2>1, ListedKept DEF Listed
  <2>5. BF!TypeOK' /\ migration'.at = "writing"
    BY <1>0, <2>1, <2>2, <2>3 DEF BF!TypeOK, BF!Idle
  <2> HIDE DEF Kept
  <2> QED
    BY <1>0, <2>1, <2>4, <2>5 DEF RetentionInv, Kept
<1>8. ASSUME BF!migrateOne PROVE RetentionInv'
  <2>0. PICK u \in BF!Instants : u = migration.stamp
    BY <1>0
  <2>1. /\ UNCHANGED <<now, written, run, crashes>>
        /\ \/ /\ <<u, "json">> \in file /\ file' = file \cup {<<u, "tar">>}
              /\ migration' = [migration EXCEPT !.at = "wrote"]
           \/ migration' = BF!Idle /\ UNCHANGED file
    BY <1>8, <2>0 DEF BF!migrateOne
  <2>2. file \subseteq file'
    BY <2>1
  <2>3. Kept
    BY <2>1, <2>2, ListedKept DEF Listed
  <2>4. BF!TypeOK'
    <3>1. file' \subseteq BF!Instants \X BF!Kinds
      BY <1>0, <2>1 DEF BF!Kinds
    <3>2. migration' \in [at : {"idle", "writing", "wrote", "removing"}, stamp : BF!Instants,
                          todo : SUBSET BF!Instants]
      <4>1. CASE migration' = [migration EXCEPT !.at = "wrote"]
        BY <1>0, <4>1
      <4>2. CASE migration' = BF!Idle
        BY <1>0, <1>00, <4>2
      <4> QED
        BY <2>1, <4>1, <4>2
    <3> QED
      BY <1>0, <2>1, <3>1, <3>2 DEF BF!TypeOK
  <2>5. migration'.at = "wrote" =>
          <<migration'.stamp, "tar">> \in file' /\ <<migration'.stamp, "json">> \in file'
    BY <1>0, <1>00, <2>0, <2>1
  <2>6. migration'.at # "removing"
    BY <1>0, <1>00, <2>1
  <2> HIDE DEF Kept
  <2> QED
    BY <1>0, <2>1, <2>3, <2>4, <2>5, <2>6 DEF RetentionInv, Kept
<1>9. ASSUME BF!Verify PROVE RetentionInv'
  <2>0. PICK u \in BF!Instants : u = migration.stamp
    BY <1>0
  <2>1. migration.at = "wrote" /\ UNCHANGED <<now, written, run, crashes>>
    BY <1>9 DEF BF!Verify
  <2>2. \/ <<u, "tar">> \in file /\ <<u, "json">> \in file
        \/ Superseded(u)
    BY <2>0, <2>1 DEF RetentionInv
  <2>3. CASE migration' = [migration EXCEPT !.at = "removing"] /\ UNCHANGED file
    <3>1. Kept
      BY <2>1, <2>3, ListedKept DEF Listed
    <3>2. BF!TypeOK' /\ migration'.at = "removing" /\ migration'.stamp = u
      BY <1>0, <2>0, <2>1, <2>3 DEF BF!TypeOK
    <3>3. <<u, "tar">> \in file' \/ Superseded(u)'
      BY <2>2, <2>3, <3>1
    <3> HIDE DEF Kept
    <3> QED
      BY <1>0, <2>1, <3>1, <3>2, <3>3 DEF RetentionInv, Kept
  <2>4. CASE migration' = BF!Idle /\ file' = file \ {<<u, "tar">>}
    <3>1. \A t \in BF!Instants, j \in {"tar", "json"} : t # u /\ <<t, j>> \in file => <<t, j>> \in file'
      BY <2>4
    <3>2. Kept
      <4>1. CASE <<u, "json">> \in file
        <5>1. \A t \in BF!Instants : Listed(t) => Listed(t)'
          BY <2>4, <4>1 DEF Listed
        <5> QED
          BY <2>1, <5>1, ListedKept
      <4>2. CASE Superseded(u)
        BY <1>0, <2>1, <3>1, <4>2, OneUnlisted DEF Listed
      <4> QED
        BY <2>2, <4>1, <4>2
    <3>3. BF!TypeOK' /\ migration'.at = "idle"
      BY <1>0, <1>00, <2>1, <2>4 DEF BF!TypeOK
    <3> HIDE DEF Kept
    <3> QED
      BY <1>0, <2>1, <3>2, <3>3 DEF RetentionInv, Kept
  <2> QED
    BY <1>9, <2>0, <2>3, <2>4 DEF BF!Verify
<1>10. ASSUME BF!RemoveSource PROVE RetentionInv'
  <2>0. PICK u \in BF!Instants : u = migration.stamp
    BY <1>0
  <2>1. migration.at = "removing" /\ UNCHANGED <<now, written, run, crashes>>
    BY <1>10 DEF BF!RemoveSource
  <2>2. PICK gone \in SUBSET {<<u, "json">>, <<u, "saved">>} : file' = file \ gone
    BY <1>10, <2>0 DEF BF!RemoveSource
  <2>3. \A t \in BF!Instants, j \in {"tar", "json"} :
          (t # u \/ j = "tar") /\ <<t, j>> \in file => <<t, j>> \in file'
    BY <2>2
  <2>4. <<u, "tar">> \in file \/ Superseded(u)
    BY <2>0, <2>1 DEF RetentionInv
  <2>5. Kept
    <3>1. CASE <<u, "tar">> \in file
      <4>1. \A t \in BF!Instants : Listed(t) => Listed(t)'
        BY <2>3, <3>1 DEF Listed
      <4> QED
        BY <2>1, <4>1, ListedKept
    <3>2. CASE Superseded(u)
      BY <1>0, <2>1, <2>3, <3>2, OneUnlisted DEF Listed
    <3> QED
      BY <2>4, <3>1, <3>2
  <2>6. migration' = migration \/ migration' = BF!Idle
    BY <1>10 DEF BF!RemoveSource
  <2>7. BF!TypeOK'
    BY <1>0, <1>00, <2>1, <2>2, <2>6 DEF BF!TypeOK
  <2>8. migration'.at = "removing" => <<migration'.stamp, "tar">> \in file' \/ Superseded(u)'
    BY <1>00, <2>0, <2>3, <2>4, <2>5, <2>6
  <2>9. migration'.at = "removing" => migration'.stamp = u
    BY <1>00, <2>0, <2>6
  <2>10. migration'.at # "wrote"
    BY <1>00, <2>1, <2>6
  <2> HIDE DEF Kept
  <2> QED
    BY <1>0, <2>1, <2>5, <2>7, <2>8, <2>9, <2>10 DEF RetentionInv, Kept
<1>11. ASSUME UNCHANGED BF!vars PROVE RetentionInv'
  BY <1>11 DEF BF!vars, RetentionInv, BF!TypeOK, Superseded, Stood, StandsFor, SameBucket, Listed
<1> QED
  BY <1>1, <1>2, <1>3, <1>4, <1>5, <1>6, <1>7, <1>8, <1>9, <1>10, <1>11 DEF BF!Next

\* Pruning leaves no hole: an archive is removed only when one of its week, or
\* later one of its month, stays, whichever process listed first, and wherever
\* a pass or a migration stops (Prune, RemoveSource).
THEOREM CoveredAlways ==
    ASSUME BF!RetentionAssumption PROVE BF!Spec => []BF!Covered
<1>1. RetentionInv => BF!Covered
  <2> SUFFICES ASSUME RetentionInv, NEW t \in written
               PROVE  \E f \in BF!List : f[1] >= t /\ f[1] - t <= (Week - 1) + (Month - 1)
    BY DEF BF!Covered
  <2>0. BF!Instants \subseteq Nat /\ t \in Nat /\ Week \in Nat \ {0} /\ Month \in Nat \ {0}
    BY DEF BF!Instants, RetentionInv, BF!TypeOK, BF!RetentionAssumption
  <2>1. PICK g \in BF!Instants : Listed(g) /\ StandsFor(g, t)
    BY DEF RetentionInv, Stood
  <2>2. PICK f \in BF!List : f[1] = g
    BY <2>1, OnList
  <2>3. g - t <= (Week - 1) + (Month - 1)
    <3>1. CASE t \div Week = g \div Week
      <4>1. g - t < Week
        BY <2>0, <3>1, Calendar
      <4>2. g \in Nat
        BY <2>0
      <4> QED
        BY <2>0, <4>1, <4>2
    <3>2. ASSUME NEW x \in BF!Instants, t \div Week = x \div Week, x \div Month = g \div Month
          PROVE  g - t <= (Week - 1) + (Month - 1)
      <4>1. x - t < Week /\ g - x < Month
        BY <2>0, <3>2, Calendar
      <4>2. x \in Nat /\ g \in Nat
        BY <2>0
      <4> QED
        BY <2>0, <4>1, <4>2
    <3> QED
      BY <2>1, <3>1, <3>2 DEF StandsFor
  <2> QED
    BY <2>0, <2>1, <2>2, <2>3 DEF StandsFor
<1> QED
  BY <1>1, RetentionInit, RetentionStep, PTL DEF BF!Spec

-----------------------------------------------------------------------------
(* Restore: what is being restored leaves every row that was there alone, and*)
(* a number is never given twice.                                           *)

CONSTANTS Url, MaxArticle, MaxTag, MaxArchives
VARIABLES feed, link, note, serial, disk, expected

RS == INSTANCE Restore

NotesInv ==
    /\ serial.article \in Nat /\ DOMAIN serial = {"article", "tag"}
    /\ DOMAIN article \subseteq 1..serial.article
    /\ \A n \in note : n[2] \in DOMAIN article
    /\ RS!NotesOwned

\* What a restore has done so far.
Carried(acc) ==
    /\ DOMAIN acc = {"serial", "article", "map"}
    /\ acc.serial \in Nat /\ DOMAIN acc.article \subseteq 1..acc.serial
    /\ \A a \in DOMAIN article : a \in DOMAIN acc.article /\ acc.article[a] = article[a]
    /\ \A k \in DOMAIN acc.map : acc.map[k] \in DOMAIN acc.article

LEMMA ArticleCarried ==
    ASSUME NEW s, NEW feeds, NEW acc, NEW a, Carried(acc)
    PROVE  Carried(RS!RestoreArticle(s, feeds, acc, a))
<1> DEFINE was == s.rows[a]
           f == RS!loadFeedIDs(s.scoped, was, feeds)
           p == IF was.parent = 0 THEN 0 ELSE acc.map[was.parent]
           there == RS!Same(acc.article, CHOOSE o \in f : TRUE, was.url, p)
           new == acc.serial + 1
           put == [was EXCEPT !.parent = p, !.feed = CHOOSE o \in f : TRUE]
           old == CHOOSE x \in there : TRUE
           found == [acc EXCEPT !.map = RS!Put(acc.map, a, old)]
           made == [map |-> RS!Put(acc.map, a, new), serial |-> new, article |-> RS!Put(acc.article, new, put)]
<1>1. \/ RS!RestoreArticle(s, feeds, acc, a) = acc
      \/ there # {} /\ RS!RestoreArticle(s, feeds, acc, a) = found
      \/ RS!RestoreArticle(s, feeds, acc, a) = made
  BY DEF RS!RestoreArticle
<1>2. ASSUME there # {} PROVE Carried(found)
  <2>1. old \in DOMAIN acc.article
    BY <1>2 DEF RS!Same
  <2> DEFINE m == RS!Put(acc.map, a, old)
  <2> HIDE DEF old
  <2>4. DOMAIN m = DOMAIN acc.map \cup {a} /\ m[a] = old /\ \A x \in DOMAIN acc.map : x # a => m[x] = acc.map[x]
    BY DEF RS!Put
  <2> HIDE DEF m
  <2>2. \A k \in DOMAIN m : m[k] \in DOMAIN acc.article
    BY <2>1, <2>4 DEF Carried
  <2>3. /\ DOMAIN found = DOMAIN acc /\ found.map = m /\ found.serial = acc.serial
        /\ found.article = acc.article
    BY DEF Carried, m
  <2> HIDE DEF found
  <2> QED
    BY <2>2, <2>3 DEF Carried
<1>3. Carried(made)
  <2> DEFINE m == RS!Put(acc.map, a, new)
             t == RS!Put(acc.article, new, put)
  <2> HIDE DEF put
  <2>1. new \in Nat /\ new \notin DOMAIN acc.article /\ DOMAIN acc.article \cup {new} \subseteq 1..new
    BY DEF Carried
  <2> HIDE DEF new
  <2>5. DOMAIN m = DOMAIN acc.map \cup {a} /\ m[a] = new /\ \A x \in DOMAIN acc.map : x # a => m[x] = acc.map[x]
    BY DEF RS!Put
  <2>6. /\ DOMAIN t = DOMAIN acc.article \cup {new}
        /\ \A x \in DOMAIN acc.article : x # new => t[x] = acc.article[x]
    BY DEF RS!Put
  <2> HIDE DEF m, t
  <2>2. DOMAIN t = DOMAIN acc.article \cup {new} /\ \A x \in DOMAIN acc.article : t[x] = acc.article[x]
    BY <2>1, <2>6
  <2>3. \A k \in DOMAIN m : m[k] \in DOMAIN acc.article \cup {new}
    BY <2>5 DEF Carried
  <2>4. /\ DOMAIN made = {"serial", "article", "map"} /\ made.serial = new /\ made.article = t
        /\ made.map = m
    BY DEF m, t
  <2> HIDE DEF made
  <2> QED
    BY <2>1, <2>2, <2>3, <2>4 DEF Carried
<1> HIDE DEF found, made, there
<1> QED
  BY <1>1, <1>2, <1>3

-----------------------------------------------------------------------------
(* The recursive function of RestoreArticles is defined. *)

Turn(s, feeds, order, g, i) ==
    IF i = 0 THEN [serial |-> serial.article, article |-> article, map |-> << >>]
    ELSE IF i \in DOMAIN order THEN RS!RestoreArticle(s, feeds, g[i - 1], order[i])
    ELSE g[i - 1]

LEMMA SmallestNumber ==
    ASSUME NEW T \in SUBSET Nat, T # {}
    PROVE  \E m \in T : \A k \in T : m <= k
<1>1. PICK m \in T : \A k \in T : <<k, m>> \notin OpToRel(<, Nat)
  BY NatLessThanWellFounded, WFMin
<1>2. \A k \in T : ~ (k < m)
  BY <1>1, Zenon DEF OpToRel
<1> QED
  BY <1>2

LEMMA TurnsExist ==
    ASSUME NEW s, NEW feeds, NEW order, NEW o \in Nat
    PROVE  \E g : g = [i \in 0..o |-> Turn(s, feeds, order, g, i)]
<1> DEFINE Some(n) == \E g : g = [i \in 0..n |-> Turn(s, feeds, order, g, i)]
           T == {n \in Nat : ~Some(n)}
<1> SUFFICES ASSUME ~Some(o) PROVE FALSE
  OBVIOUS
<1>1. PICK n \in T : \A k \in T : n <= k
  <2>1. T \in SUBSET Nat /\ T # {}
    OBVIOUS
  <2> QED
    BY <2>1, SmallestNumber
<1>2. CASE n = 0
  <2> DEFINE g == [i \in 0..n |-> Turn(s, feeds, order, << >>, i)]
  <2>1. g = [i \in 0..n |-> Turn(s, feeds, order, g, i)]
    BY <1>2 DEF Turn
  <2> QED
    BY <1>1, <2>1
<1>3. CASE n # 0
  <2>1. n - 1 \in Nat /\ n - 1 \notin T
    BY <1>1, <1>3
  <2>2. PICK h : h = [i \in 0..n - 1 |-> Turn(s, feeds, order, h, i)]
    BY <2>1
  <2> DEFINE g == [i \in 0..n |-> IF i = n THEN Turn(s, feeds, order, h, n) ELSE h[i]]
  <2>0. ASSUME NEW i \in 0..n - 1 PROVE h[i] = Turn(s, feeds, order, h, i)
    <3> DEFINE turn(j) == Turn(s, feeds, order, h, j)
    <3>1. h = [j \in 0..n - 1 |-> turn(j)]
      BY <2>2
    <3> HIDE DEF turn
    <3>2. h[i] = turn(i)
      BY <3>1
    <3> QED
      BY <3>2 DEF turn
  <2>3. \A i \in 0..n - 1 : i \in 0..n /\ i # n /\ g[i] = h[i] /\ h[i] = Turn(s, feeds, order, h, i)
    BY <1>1, <2>0
  <2>4. ASSUME NEW i \in 0..n PROVE Turn(s, feeds, order, g, i) = Turn(s, feeds, order, h, i)
    <3>1. i = 0 \/ g[i - 1] = h[i - 1]
      BY <1>1, <2>3
    <3> HIDE DEF g
    <3> QED
      BY <3>1 DEF Turn
  <2>5. g[n] = Turn(s, feeds, order, h, n)
    BY <1>1
  <2>6. ASSUME NEW i \in 0..n PROVE g[i] = Turn(s, feeds, order, g, i)
    <3>1. i = n \/ i \in 0..n - 1
      BY <1>1
    <3> HIDE DEF g
    <3> QED
      BY <2>3, <2>4, <2>5, <3>1
  <2>7. g = [i \in 0..n |-> g[i]]
    OBVIOUS
  <2> HIDE DEF g
  <2>8. g = [i \in 0..n |-> Turn(s, feeds, order, g, i)]
    BY <2>6, <2>7
  <2> QED
    BY <1>1, <2>8
<1> QED
  BY <1>2, <1>3

LEMMA RestoreCarries ==
    ASSUME RS!RestoreAssumption, NotesInv, NEW s, NEW feeds
    PROVE  Carried(RS!RestoreArticles(s, feeds))
<1> DEFINE order == RS!orderSavedArticles(s.rows)
           done == CHOOSE g : g = [i \in 0..MaxArticle |-> Turn(s, feeds, order, g, i)]
<1>1. RS!RestoreArticles(s, feeds) = done[MaxArticle]
  BY DEF RS!RestoreArticles, Turn
<1>2. MaxArticle \in Nat
  BY DEF RS!RestoreAssumption
<1> HIDE DEF order
<1>3. done = [i \in 0..MaxArticle |-> Turn(s, feeds, order, done, i)]
  BY <1>2, TurnsExist
<1> HIDE DEF done
<1>4. \A i \in 0..MaxArticle : done[i] = Turn(s, feeds, order, done, i)
  BY <1>3
<1>5. SUFFICES ASSUME ~Carried(done[MaxArticle]) PROVE FALSE
  BY <1>1
<1> DEFINE T == {n \in 0..MaxArticle : ~Carried(done[n])}
<1>6. PICK n \in T : \A k \in T : n <= k
  <2>1. T \in SUBSET Nat /\ MaxArticle \in T
    BY <1>2, <1>5
  <2> QED
    BY <2>1, SmallestNumber
<1>7. CASE n = 0
  <2>1. done[0] = [serial |-> serial.article, article |-> article, map |-> << >>]
    BY <1>2, <1>4 DEF Turn
  <2> QED
    BY <1>6, <1>7, <2>1 DEF Carried, NotesInv
<1>8. CASE n # 0
  <2>1. n - 1 \in 0..MaxArticle /\ n - 1 \notin T
    <3>1. n \in 0..MaxArticle
      OBVIOUS
    <3>2. n - 1 \in 0..MaxArticle /\ ~(n <= n - 1)
      BY <1>2, <1>8, <3>1
    <3> QED
      BY <1>6, <3>2
  <2>2. Carried(done[n - 1])
    BY <2>1
  <2>3. done[n] = Turn(s, feeds, order, done, n)
    BY <1>4, <1>6
  <2>4. Carried(done[n])
    BY <1>8, <2>2, <2>3, ArticleCarried DEF Turn
  <2> QED
    BY <1>6, <2>4
<1> QED
  BY <1>7, <1>8

-----------------------------------------------------------------------------
LEMMA NotesInit == RS!Init => NotesInv
BY DEF RS!Init, NotesInv, RS!NotesOwned

\* Articles may come and a note on one of its author's; no row changes.
LEMMA RowsKept ==
    ASSUME NotesInv, serial'.article \in Nat, DOMAIN serial' = {"article", "tag"},
           DOMAIN article' \subseteq 1..serial'.article,
           \A n \in note' : \/ n \in note /\ n[2] \in DOMAIN article' /\ article'[n[2]] = article[n[2]]
                            \/ n[2] \in DOMAIN article' /\ article'[n[2]].feed = n[1]
    PROVE  NotesInv'
BY DEF NotesInv, RS!NotesOwned

LEMMA RestoredStep ==
    ASSUME RS!RestoreAssumption, NotesInv, NEW m, NEW s, RS!Restored(m, s)
    PROVE  NotesInv'
<1> DEFINE done == RS!RestoreArticles(s, feed \cup m.feed)
           new == {n \in s.note : /\ n[2] \in DOMAIN done.map
                                  /\ done.article[done.map[n[2]]].feed = n[1]}
<1>1. Carried(done)
  BY RestoreCarries
<1>2. /\ article' = done.article /\ note' = note \cup {<<n[1], done.map[n[2]]>> : n \in new}
      /\ serial'.article = done.serial /\ DOMAIN serial' = {"article", "tag"}
  BY DEF RS!Restored
<1> HIDE DEF done
<1>3. ASSUME NEW n \in note' PROVE
        \/ n \in note /\ n[2] \in DOMAIN article' /\ article'[n[2]] = article[n[2]]
        \/ n[2] \in DOMAIN article' /\ article'[n[2]].feed = n[1]
  <2>1. CASE n \in note
    BY <1>1, <1>2, <2>1 DEF NotesInv, Carried
  <2>2. CASE n \notin note
    <3>1. PICK o \in new : n = <<o[1], done.map[o[2]]>>
      BY <1>2, <2>2
    <3>2. o[2] \in DOMAIN done.map /\ done.article[done.map[o[2]]].feed = o[1]
      BY <3>1
    <3>3. n[1] = o[1] /\ n[2] = done.map[o[2]]
      BY <3>1
    <3> QED
      BY <1>1, <1>2, <3>2, <3>3 DEF Carried
  <2> QED
    BY <2>1, <2>2
<1> QED
  BY <1>1, <1>2, <1>3, RowsKept DEF Carried

LEMMA ArriveStep ==
    ASSUME NotesInv, NEW o, NEW u, NEW p, NEW k, RS!Arrive(o, u, p, k)
    PROVE  NotesInv'
<1> DEFINE n == serial.article + 1
           v == [feed |-> o, url |-> u, parent |-> p, kind |-> k]
<1>1. article' = RS!Put(article, n, v) /\ serial' = [serial EXCEPT !.article = n] /\ note' = note
  BY DEF RS!Arrive
<1>2. n \in Nat /\ n \notin DOMAIN article /\ DOMAIN article \cup {n} \subseteq 1..n
  BY DEF NotesInv
<1> HIDE DEF n, v
<1>3. DOMAIN article' = DOMAIN article \cup {n} /\ \A x \in DOMAIN article : x # n => article'[x] = article[x]
  BY <1>1 DEF RS!Put
<1>4. serial'.article = n /\ DOMAIN serial' = {"article", "tag"}
  BY <1>1 DEF NotesInv
<1> QED
  BY <1>1, <1>2, <1>3, <1>4, RowsKept DEF NotesInv

LEMMA ReaderSteps ==
    ASSUME NotesInv,
           \/ \E o \in RS!Owner : RS!Subscribe(o) \/ RS!Unsubscribe(o)
           \/ \E u \in User, a \in RS!Ids : RS!Note(u, a)
           \/ \E u \in User, w \in Name : RS!MakeTag(u, w)
           \/ \E a \in RS!Ids, t \in RS!TagIds : RS!TagArticle(a, t)
           \/ \E scoped \in BOOLEAN : RS!Build(scoped)
           \/ RS!Wipe
    PROVE  NotesInv'
<1>1. CASE \E o \in RS!Owner : RS!Subscribe(o)
  BY <1>1 DEF RS!Subscribe, NotesInv, RS!NotesOwned
<1>2. CASE \E o \in RS!Owner : RS!Unsubscribe(o)
  <2>1. PICK o \in RS!Owner : RS!Unsubscribe(o)
    BY <1>2
  <2> DEFINE left == {a \in DOMAIN article : article[a].feed # o}
  <2>2. /\ article' = [a \in left |-> article[a]] /\ note' = {n \in note : n[2] \in left}
        /\ UNCHANGED serial
    BY <2>1 DEF RS!Unsubscribe
  <2>3. left \subseteq DOMAIN article /\ DOMAIN article' = left /\ \A a \in left : article'[a] = article[a]
    BY <2>2
  <2> HIDE DEF left
  <2> QED
    BY <2>2, <2>3, RowsKept DEF NotesInv
<1>3. CASE \E u \in User, a \in RS!Ids : RS!Note(u, a)
  BY <1>3, RowsKept DEF RS!Note, NotesInv
<1>4. CASE \E u \in User, w \in Name : RS!MakeTag(u, w)
  <2>1. PICK u \in User, w \in Name : RS!MakeTag(u, w)
    BY <1>4
  <2>2. /\ \E n : serial' = [serial EXCEPT !.tag = n]
        /\ UNCHANGED <<article, note>>
    BY <2>1 DEF RS!MakeTag
  <2>3. serial'.article = serial.article /\ DOMAIN serial' = DOMAIN serial
    BY <2>2 DEF NotesInv
  <2> QED
    BY <2>2, <2>3, RowsKept DEF NotesInv
<1>5. CASE \E a \in RS!Ids, t \in RS!TagIds : RS!TagArticle(a, t)
  BY <1>5 DEF RS!TagArticle, NotesInv, RS!NotesOwned
<1>6. CASE \E scoped \in BOOLEAN : RS!Build(scoped)
  BY <1>6 DEF RS!Build, RS!data, NotesInv, RS!NotesOwned
<1>7. CASE RS!Wipe
  BY <1>7 DEF RS!Wipe, NotesInv, RS!NotesOwned
<1> QED
  BY <1>1, <1>2, <1>3, <1>4, <1>5, <1>6, <1>7

LEMMA RestoreStep == ASSUME RS!RestoreAssumption, NotesInv, [RS!Next]_RS!vars PROVE NotesInv'
<1>1. CASE UNCHANGED RS!vars
  BY <1>1 DEF RS!vars, NotesInv, RS!NotesOwned
<1>2. CASE RS!RestoreBackup \/ RS!RestoreBackupUpload
  BY <1>2, RestoredStep DEF RS!RestoreBackup, RS!RestoreBackupUpload
<1> QED
  BY <1>1, <1>2, ArriveStep, ReaderSteps DEF RS!Next

\* A note is only ever on an article of its author's own feed, after any number of
\* restores of archives of any shape.  backup/restore.go, Restore.
THEOREM NotesOwnedAlways == ASSUME RS!RestoreAssumption PROVE RS!Spec => []RS!NotesOwned
<1>1. NotesInv => RS!NotesOwned
  BY DEF NotesInv
<1> QED
  BY <1>1, NotesInit, RestoreStep, PTL DEF RS!Spec

=============================================================================
