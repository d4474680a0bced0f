-------------------------- MODULE ExploreSnapshot --------------------------
(***************************************************************************)
(* How a user's recommendation batches are generated: worker processes     *)
(* start a generator for the current slot and for the cold-start slot,     *)
(* each claims the batch of its (user, slot), ranks the candidate sources  *)
(* it read earlier, and publishes them under the claim's fence token,      *)
(* while fetches invalidate sources and other processes take over stale    *)
(* claims.  One user: batches of different users share nothing.            *)
(*                                                                         *)
(* A token is named by the worker that drew it.  A worker never runs two   *)
(* generators of one slot, and each generator draws a token at most once,  *)
(* so the row holds w's name exactly if w's running claim is the latest.   *)
(***************************************************************************)
EXTENDS Naturals, FiniteSets

CONSTANTS
    Worker, NoWorker,
    Source,         \* rows of recommended_feeds
    MaxSources,     \* sources of a batch: 12
    StaleAfter,     \* age at which a scheduled claim may be taken over: 45 min
    ColdStaleAfter, \* the same for the cold-start slot: 1 minute
    Retention,      \* slots after which Cleanup deletes a batch: 30 days
    MaxSlot,        \* bound: scheduled slots
    MaxFaults       \* bound: crashes, failed statements, sources that change

SnapshotAssumption ==
    /\ NoWorker \notin Worker /\ IsFiniteSet(Source)
    /\ MaxSources \in Nat \ {0} /\ Retention \in Nat \ {0}
    /\ StaleAfter \in Nat /\ ColdStaleAfter \in 1 .. StaleAfter
    /\ MaxSlot \in Nat /\ MaxFaults \in Nat

VARIABLES
    cur,    \* the schedule's current slot, 0 before the first one
    valid,  \* sources that are valid, not broken and not merged
    batch,  \* the explore_batches row of each slot, with its sources
    marked, \* snapshotSlots of each worker process
    gen,    \* the generator of each worker and slot
    faults

vars == <<cur, valid, batch, marked, gen, faults>>

Cold == 0                    \* ExploreColdStartSlotAt, before every other slot
Slot == 0 .. MaxSlot

\* age: since started_at, as far as staleness goes; born: the slot in which
\* created_at falls.
\* A token is there exactly while the batch is pending.
Batch ==
    [status : {"pending"}, token : Worker, age : 0 .. StaleAfter, born : Slot,
     sources : SUBSET Source]
      \cup [status : {"none", "failed", "done"}, token : {NoWorker},
             age : 0 .. StaleAfter, born : Slot, sources : SUBSET Source]
NoBatch == [status |-> "none", token |-> NoWorker, age |-> 0, born |-> 0,
            sources |-> {}]

\* cands: the candidates, read before the claim.
Gen == [pc : {"idle", "started", "loaded", "claimed", "failing"},
        cands : SUBSET Source]
Idle == [pc |-> "idle", cands |-> {}]

TypeOK ==
    /\ cur \in Slot /\ valid \subseteq Source
    /\ batch \in [Slot -> Batch]
    /\ marked \in [Worker -> SUBSET Slot]
    /\ gen \in [Worker -> [Slot -> Gen]]
    /\ faults \in 0 .. MaxFaults

Init ==
    /\ cur = 0 /\ valid = Source /\ faults = 0
    /\ batch = [s \in Slot |-> NoBatch]
    /\ marked = [w \in Worker |-> {}]
    /\ gen = [w \in Worker |-> [s \in Slot |-> Idle]]

-----------------------------------------------------------------------------
Fault == faults < MaxFaults /\ faults' = faults + 1
NoFault == UNCHANGED faults

Goto(w, s, pc) == gen' = [gen EXCEPT ![w][s].pc = pc]

\* A scheduled slot that must be tried again, for this user or for another, is
\* unmarked; coldRunning is cleared whatever the result.
Finish(w, s, retry) ==
    /\ gen' = [gen EXCEPT ![w][s] = Idle]
    /\ \E other \in BOOLEAN :
         marked' = [marked EXCEPT ![w] = IF retry \/ other THEN @ \ {s} ELSE @]

\* The minute tick starts the current slot's generator once, and the cold one
\* while no batch is done and none runs.
Due(w, s) ==
    IF s = Cold THEN \A t \in Slot : batch[t].status # "done"
                ELSE s = cur /\ s \notin marked[w]

Start(w, s) ==
    /\ gen[w][s].pc = "idle" /\ Due(w, s)
    /\ Goto(w, s, "started")
    /\ marked' = [marked EXCEPT ![w] = IF s = Cold THEN @ ELSE @ \cup {s}]
    /\ NoFault /\ UNCHANGED <<cur, valid, batch>>

LoadCandidates(w, s) ==
    /\ gen[w][s].pc = "started"
    /\ gen' = [gen EXCEPT ![w][s] = [pc |-> "loaded", cands |-> valid]]
    /\ NoFault /\ UNCHANGED <<cur, valid, batch, marked>>

-----------------------------------------------------------------------------
StaleLimit(s) == IF s = Cold THEN ColdStaleAfter ELSE StaleAfter

TakeOverAny(s) == batch[s].status # "none" /\ batch[s].age >= StaleLimit(s)
TakeOver(s) ==
    \/ batch[s].status = "failed"
    \/ batch[s].status = "pending" /\ batch[s].age >= StaleLimit(s)

\* The upsert keeps created_at of a row that was there.
Claimed(w, s) ==
    [status |-> "pending", token |-> w, age |-> 0, sources |-> {},
     born |-> IF batch[s].status = "none" THEN cur ELSE batch[s].born]

\* What a claim that is not owned counts as: Pending asks for a retry, NoWork
\* does not.
RetryUnlessSeen(s) == FALSE
RetryUnowned(s) == batch[s].status = "pending"

Claim(w, s) ==
    /\ gen[w][s].pc = "loaded"
    /\ IF batch[s].status = "none" \/ TakeOver(s)
       THEN /\ batch' = [batch EXCEPT ![s] = Claimed(w, s)]
            /\ Goto(w, s, "claimed") /\ UNCHANGED marked
       ELSE Finish(w, s, RetryUnowned(s)) /\ UNCHANGED batch
    /\ NoFault /\ UNCHANGED <<cur, valid>>

\* The claim returns an error, whether it committed or not.
ClaimError(w, s) ==
    /\ gen[w][s].pc = "loaded" /\ Fault
    /\ \/ UNCHANGED batch
       \/ /\ batch[s].status = "none" \/ TakeOver(s)
          /\ batch' = [batch EXCEPT ![s] = Claimed(w, s)]
    /\ Finish(w, s, TRUE) /\ UNCHANGED <<cur, valid>>

\* The candidates or the profile could not be read.
InputError(w, s) ==
    /\ gen[w][s].pc = "claimed" /\ Fault
    /\ Goto(w, s, "failing") /\ UNCHANGED <<cur, valid, batch, marked>>

HoldsAnyToken(w, s) == batch[s].status = "pending"
Holds(w, s) == batch[s].status = "pending" /\ batch[s].token = w

\* The profile decides which candidates are ranked, and may exclude them all.
Rankings(w, s) ==
    {r \in SUBSET gen[w][s].cands : Cardinality(r) <= MaxSources}

MaybeEmpty(r) == r \subseteq valid
Publishable(r) == r # {} /\ Cardinality(r) <= MaxSources /\ r \subseteq valid

DoneUnderToken(b, r) == [b EXCEPT !.status = "done", !.sources = r]
Done(b, r) == [b EXCEPT !.status = "done", !.token = NoWorker, !.sources = r]

Publish(w, s) ==
    /\ gen[w][s].pc = "claimed"
    /\ \E r \in Rankings(w, s) :
         /\ IF r = {} THEN Fault ELSE NoFault
         /\ IF Holds(w, s) /\ Publishable(r)
            THEN /\ batch' = [batch EXCEPT ![s] = Done(batch[s], r)]
                 /\ Finish(w, s, FALSE)
            ELSE Goto(w, s, "failing") /\ UNCHANGED <<batch, marked>>
    /\ UNCHANGED <<cur, valid>>

\* Publish returns an error, whether it committed or not.
PublishError(w, s) ==
    /\ gen[w][s].pc = "claimed" /\ Fault
    /\ \/ UNCHANGED batch
       \/ \E r \in Rankings(w, s) :
            /\ Holds(w, s) /\ Publishable(r)
            /\ batch' = [batch EXCEPT ![s] = Done(batch[s], r)]
    /\ Goto(w, s, "failing") /\ UNCHANGED <<cur, valid, marked>>

\* recordSnapshotFailure: persisted under the fence, or lost; either way the
\* slot is tried again.
Fail(w, s) ==
    /\ gen[w][s].pc = "failing"
    /\ batch' = IF Holds(w, s)
                THEN [batch EXCEPT ![s].status = "failed", ![s].token = NoWorker]
                ELSE batch
    /\ Finish(w, s, TRUE) /\ NoFault /\ UNCHANGED <<cur, valid>>

FailError(w, s) ==
    /\ gen[w][s].pc = "failing" /\ Fault
    /\ Finish(w, s, TRUE) /\ UNCHANGED <<cur, valid, batch>>

-----------------------------------------------------------------------------
\* A process dies, with its generators and its marks, and is started again.
Crash(w) ==
    /\ Fault
    /\ marked' = [marked EXCEPT ![w] = {}]
    /\ gen' = [gen EXCEPT ![w] = [s \in Slot |-> Idle]]
    /\ UNCHANGED <<cur, valid, batch>>

\* Fetches, merges and validation change what a source is worth.
ChangeSource(x) ==
    /\ Fault
    /\ valid' = IF x \in valid THEN valid \ {x} ELSE valid \cup {x}
    /\ UNCHANGED <<cur, batch, marked, gen>>

Old(s) == batch[s].status # "none" /\ cur - batch[s].born >= Retention
Cleanup ==
    /\ \E s \in Slot : Old(s)
    /\ batch' = [s \in Slot |-> IF Old(s) THEN NoBatch ELSE batch[s]]
    /\ NoFault /\ UNCHANGED <<cur, valid, marked, gen>>

NextSlot ==
    /\ cur < MaxSlot /\ cur' = cur + 1
    /\ NoFault /\ UNCHANGED <<valid, batch, marked, gen>>

Tick ==
    /\ \E s \in Slot : batch[s].status = "pending" /\ batch[s].age < StaleAfter
    /\ batch' = [s \in Slot |->
         IF batch[s].status = "pending" /\ batch[s].age < StaleAfter
         THEN [batch[s] EXCEPT !.age = @ + 1] ELSE batch[s]]
    /\ NoFault /\ UNCHANGED <<cur, valid, marked, gen>>

Generate(w, s) ==
    \/ Start(w, s) \/ LoadCandidates(w, s)
    \/ Claim(w, s) \/ Publish(w, s) \/ Fail(w, s)

Next ==
    \/ \E w \in Worker, s \in Slot :
         Generate(w, s) \/ ClaimError(w, s) \/ InputError(w, s)
           \/ PublishError(w, s) \/ FailError(w, s)
    \/ \E w \in Worker : Crash(w)
    \/ \E x \in Source : ChangeSource(x)
    \/ Cleanup \/ NextSlot \/ Tick

Spec == Init /\ [][Next]_vars

\* The minute ticker calls Run, every step of a generator is a bounded call,
\* and time passes.
Fairness ==
    /\ WF_vars(Tick)
    /\ \A w \in Worker, s \in Slot : WF_vars(Generate(w, s))

FairSpec == Spec /\ Fairness

-----------------------------------------------------------------------------
(* Properties *)

\* What a reader is served: the sources of a batch are all there once it is
\* done, at least one and at most twelve, and none before.
WholeBatch ==
    \A s \in Slot :
        /\ batch[s].status = "done" <=> batch[s].sources # {}
        /\ Cardinality(batch[s].sources) <= MaxSources

\* A batch is published only by the generator whose claim is the latest, with
\* sources it read as candidates and that are all still valid at the commit.
PublishedByHolderStep ==
    \A s \in Slot :
      batch[s].status # "done" /\ batch'[s].status = "done" =>
        /\ batch'[s].sources \subseteq valid
        /\ \E w \in Worker :
             /\ batch[s].token = w /\ gen[w][s].pc = "claimed"
             /\ batch'[s].sources \subseteq gen[w][s].cands
PublishedByHolder == [][PublishedByHolderStep]_vars

\* A published batch never changes; it goes only when it is old.
DoneKeptStep ==
    \A s \in Slot :
      batch[s].status = "done" /\ batch'[s] # batch[s] =>
        Old(s) /\ batch'[s] = NoBatch
DoneKept == [][DoneKeptStep]_vars

\* Whoever dies or fails, the current slot gets its batch, unless the next slot
\* begins first or no source is left.
Unserved(s) == cur = s /\ batch[s].status # "done" /\ valid # {}
SlotServed == \A s \in Slot \ {Cold} : Unserved(s) ~> ~Unserved(s)
=============================================================================
