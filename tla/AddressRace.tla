------------------------------ MODULE AddressRace ------------------------------
(* Fetching a page or an image from a site with several addresses: a page asks *)
(* all of them at once, an image one and, when that falls quiet, another,      *)
(* under limits all requests share.                                            *)
(* internal/httpx/{address_fallback,image_scheduler}.go.                       *)
EXTENDS Naturals, FiniteSets, Sequences

CONSTANTS Request, Images,       \* whether they may be for images, {TRUE, FALSE} at most
          Outcome,               \* what the tries of an address may come to, of Outcomes
          Addresses,             \* how many a site has
          Lanes,                 \* images under way
          Slots                  \* connections, for the images and for the pages

VARIABLES
    req,        \* requests
    att,        \* the attempts of each
    secondary   \* whether the one lane for a second attempt is taken

vars == <<req, att, secondary>>

\* There are more connections than images under way, by one (3 and 4).
AddressRaceAssumption == {Addresses, Lanes, Slots} \subseteq Nat /\ Lanes < Slots

Results == {"none", "won", "response", "failed", "cancelled"}
Outcomes == {"won", "response", "transient", "other"}
Fresh == [at |-> "idle", image |-> FALSE, untried |-> 1, retries |-> << >>, primary |-> 0, second |-> 0,
          first |-> FALSE, result |-> "none"]

TypeOK ==
    /\ \A r \in Request :
         /\ req[r].at \in {"idle", "lane", "loop", "select", "waiting", "done"}
         /\ req[r].image \in BOOLEAN /\ req[r].result \in Results /\ req[r].untried \in 1 .. Addresses + 1
         /\ {req[r].primary, req[r].second} \subseteq 0 .. 2 * Addresses
         /\ \A i \in DOMAIN att[r] :
              /\ att[r][i].at \in {"lane", "took", "check", "slot", "fetching", "finished", "seen"}
              /\ att[r][i].address \in 1 .. Addresses /\ att[r][i].end \in Outcomes \cup {"none", "cancelled"}
    /\ secondary \in BOOLEAN

Init == req = [r \in Request |-> Fresh] /\ att = [r \in Request |-> << >>] /\ secondary = FALSE

-----------------------------------------------------------------------------
Number(r, address) == Cardinality({i \in DOMAIN att[r] : att[r][i].address = address})
Attempt(address, n, second) ==
    [address |-> address, number |-> n, second |-> second, at |-> IF second THEN "lane" ELSE "slot",
     holds |-> FALSE, promoted |-> FALSE, yielded |-> FALSE, cancelled |-> FALSE, end |-> "none"]

\* The next address, the untried ones first.
Pending(q) == q.untried <= Addresses \/ q.retries # << >>
NextOf(q) == IF q.untried <= Addresses THEN q.untried ELSE Head(q.retries)
Without(q) == IF q.untried <= Addresses THEN [q EXCEPT !.untried = @ + 1] ELSE [q EXCEPT !.retries = Tail(@)]

UnderWay == {r \in Request : req[r].image /\ req[r].at \in {"loop", "select", "waiting"}}
Attempts == UNION {{r} \X DOMAIN att[r] : r \in Request}
Fetching(image) == {x \in Attempts : req[x[1]].image = image /\ att[x[1]][x[2]].at = "fetching"}

Set(r, i, a) == att' = [att EXCEPT ![r][i] = a]
Settle(a) == [a EXCEPT !.at = "seen", !.second = FALSE, !.promoted = FALSE, !.yielded = FALSE, !.cancelled = TRUE]
Stopped(as) == [i \in DOMAIN as |-> [as[i] EXCEPT !.cancelled = TRUE]]
Update(r, q) == req' = [req EXCEPT ![r] = q]

-----------------------------------------------------------------------------
\* A page asks every address at once; an image waits for its lane.
RoundTrip(r) ==
    /\ req[r].at = "idle" /\ UNCHANGED secondary
    /\ \/ TRUE \in Images /\ Update(r, [req[r] EXCEPT !.at = "lane", !.image = TRUE]) /\ UNCHANGED att
       \/ /\ FALSE \in Images
          /\ Update(r, [req[r] EXCEPT !.at = "select", !.untried = Addresses + 1])
            /\ att' = [att EXCEPT ![r] = [i \in 1 .. Addresses |-> Attempt(i, 1, FALSE)]]

Admitted(r) ==
    /\ req[r].at = "lane" /\ Cardinality(UnderWay) < Lanes
    /\ Update(r, [req[r] EXCEPT !.at = "loop"]) /\ UNCHANGED <<att, secondary>>

\* A second attempt that outlives the first takes its place and gives up the
\* lane, if it had it; without any attempt the next address is asked.
promote(r) ==
    LET q == req[r]
        i == q.second
    IN  /\ q.primary = 0 /\ i # 0 /\ ~att[r][i].yielded
        /\ Set(r, i, [att[r][i] EXCEPT !.second = FALSE, !.promoted = TRUE, !.holds = FALSE])
        /\ secondary' = (secondary /\ ~att[r][i].holds)
        /\ Update(r, [q EXCEPT !.at = "select", !.primary = i, !.second = 0])

launch(r) ==
    LET q == req[r] IN
    /\ q.primary = 0 /\ q.second = 0 /\ Pending(q)
    /\ att' = [att EXCEPT ![r] = Append(@, Attempt(NextOf(q), Number(r, NextOf(q)) + 1, FALSE))]
    /\ Update(r, [Without(q) EXCEPT !.at = "select", !.primary = Len(att'[r])]) /\ UNCHANGED secondary

Exhausted(r) ==
    LET q == req[r] IN
    /\ q.primary = 0 /\ q.second = 0 /\ ~Pending(q)
    /\ Update(r, [q EXCEPT !.at = "waiting", !.result = IF q.first THEN "response" ELSE "failed"])
    /\ UNCHANGED <<att, secondary>>

Settled(r) ==
    /\ req[r].primary # 0 \/ (req[r].second # 0 /\ att[r][req[r].second].yielded)
    /\ Update(r, [req[r] EXCEPT !.at = "select"]) /\ UNCHANGED <<att, secondary>>

Loop(r) ==
    /\ req[r].at = "loop"
    /\ promote(r) \/ launch(r) \/ Exhausted(r) \/ Settled(r)

\* The attempt watched was quiet for long: another is started, or the first
\* second attempt makes way for an untried address.
Watched(r) ==
    LET q == req[r] IN
    IF ~Pending(q) THEN 0
    ELSE IF q.second = 0 THEN q.primary
    ELSE IF ~att[r][q.second].yielded /\ att[r][q.second].number = 1 THEN q.second ELSE 0

Quiet(r) ==
    LET q == req[r]
        i == Watched(r)
    IN  /\ q.image /\ q.at = "select" /\ i # 0 /\ att[r][i].at = "fetching" /\ UNCHANGED secondary
        /\ IF q.second = 0
           THEN /\ att' = [att EXCEPT ![r] = Append(@, Attempt(NextOf(q), Number(r, NextOf(q)) + 1, TRUE))]
                /\ Update(r, [Without(q) EXCEPT !.at = "loop", !.second = Len(att'[r])])
           ELSE /\ Set(r, i, [att[r][i] EXCEPT !.yielded = TRUE, !.cancelled = TRUE])
                /\ Update(r, [q EXCEPT !.at = "loop"])

\* An attempt that ended: a complete answer wins, an error of the site is kept
\* for want of a better answer, and a broken or interrupted first attempt at an
\* address joins the retries.
Seen(r, i) ==
    LET a == att[r][i]
        again == a.number = 1 /\ (a.end = "transient" \/ (a.yielded /\ a.end = "cancelled"))
        freed == [req[r] EXCEPT !.primary = IF @ = i THEN 0 ELSE @, !.second = IF @ = i THEN 0 ELSE @]
        q == IF req[r].image THEN [freed EXCEPT !.at = "loop"] ELSE freed
        last == ~q.image /\ \A k \in DOMAIN att[r] \ {i} : att[r][k].at = "seen"
        kept == [q EXCEPT !.first = @ \/ a.end = "response",
                          !.retries = IF again /\ q.image THEN Append(@, a.address) ELSE @]
    IN  /\ req[r].at = "select" /\ a.at = "finished" /\ UNCHANGED secondary
        /\ att' = [att EXCEPT ![r] = LET seen == [@ EXCEPT ![i] = Settle(a)]
                                    IN  IF a.end = "won" THEN Stopped(seen) ELSE seen]
        /\ Update(r, IF a.end = "won" THEN [q EXCEPT !.at = "waiting", !.result = "won"]
                     ELSE IF last THEN [kept EXCEPT !.at = "waiting",
                                          !.result = IF kept.first THEN "response" ELSE "failed"]
                     ELSE kept)

\* The caller leaves.
Cancelled(r) ==
    /\ req[r].at \in {"lane", "select"} /\ UNCHANGED secondary
    /\ Update(r, [req[r] EXCEPT !.at = IF @ = "lane" THEN "done" ELSE "waiting", !.result = "cancelled"])
    /\ att' = [att EXCEPT ![r] = Stopped(@)]

\* Whatever the way out, the attempts were cancelled and are waited for.
Return(r) ==
    /\ req[r].at = "waiting" /\ \A i \in DOMAIN att[r] : att[r][i].at \in {"finished", "seen"}
    /\ Update(r, [Fresh EXCEPT !.at = "done", !.result = req[r].result]) /\ UNCHANGED secondary
    /\ att' = [att EXCEPT ![r] = << >>]

-----------------------------------------------------------------------------
\* A second attempt takes the lane before a connection.  It may be promoted
\* while it waits, between taking the lane and noting that, and after.
TakeLane(r, i) ==
    /\ att[r][i].at = "lane" /\ UNCHANGED req
    /\ \/ ~secondary /\ secondary' = TRUE /\ Set(r, i, [att[r][i] EXCEPT !.at = "took"])
       \/ att[r][i].promoted /\ Set(r, i, [att[r][i] EXCEPT !.at = "slot"]) /\ UNCHANGED secondary

Noted(r, i) ==
    /\ att[r][i].at = "took" /\ Set(r, i, [att[r][i] EXCEPT !.at = "check", !.holds = TRUE])
    /\ UNCHANGED <<req, secondary>>

CheckedHolding(r, i) ==
    /\ att[r][i].at = "check" /\ UNCHANGED <<req, secondary>>
    /\ Set(r, i, [att[r][i] EXCEPT !.at = "slot"])
Checked(r, i) ==
    LET a == att[r][i]
        release == a.holds /\ ~a.second
    IN  /\ a.at = "check" /\ UNCHANGED req
        /\ secondary' = (secondary /\ ~release)
        /\ Set(r, i, [a EXCEPT !.at = "slot", !.holds = @ /\ ~release])

TakeSlot(r, i) ==
    /\ att[r][i].at = "slot" /\ Cardinality(Fetching(req[r].image)) < Slots
    /\ Set(r, i, [att[r][i] EXCEPT !.at = "fetching"]) /\ UNCHANGED <<req, secondary>>

Withdrawn(r, i) ==
    /\ att[r][i].at \in {"lane", "slot"} /\ att[r][i].cancelled
    /\ Set(r, i, [att[r][i] EXCEPT !.at = "finished", !.end = "cancelled", !.holds = FALSE])
    /\ secondary' = (secondary /\ ~att[r][i].holds) /\ UNCHANGED req

\* The whole body is read before an answer counts; on the way out the
\* connection, and the lane if it is held, are free again.
fetchCandidate(r, i) ==
    /\ att[r][i].at = "fetching" /\ UNCHANGED req
    /\ secondary' = (secondary /\ ~att[r][i].holds)
    /\ \E e \in Outcome \cup {"cancelled"} :
         /\ e = "cancelled" => att[r][i].cancelled
         /\ req[r].at = "waiting" => e = "cancelled"       \* no one reads another
         /\ Set(r, i, [att[r][i] EXCEPT !.at = "finished", !.end = e, !.holds = FALSE])

Run(r, i) ==
    TakeLane(r, i) \/ Noted(r, i) \/ Checked(r, i) \/ TakeSlot(r, i) \/ Withdrawn(r, i)
      \/ fetchCandidate(r, i)

Next ==
    \E r \in Request :
       \/ RoundTrip(r) \/ Admitted(r) \/ Loop(r) \/ Quiet(r) \/ Cancelled(r) \/ Return(r)
       \/ \E i \in DOMAIN att[r] : Seen(r, i) \/ Run(r, i)

Spec == Init /\ [][Next]_vars

\* Every try of an address ends: the client has a deadline, and goroutines run.
Go(r) == Admitted(r) \/ Loop(r) \/ Return(r)
Notice(r) == \E i \in DOMAIN att[r] : Seen(r, i)
RunNext(r, i) == i \in DOMAIN att[r] /\ Run(r, i)
Fairness ==
    \A r \in Request :
       /\ WF_vars(Go(r)) /\ WF_vars(Notice(r))
       /\ \A i \in 1 .. 2 * Addresses : WF_vars(RunNext(r, i))

FairSpec == Spec /\ Fairness

-----------------------------------------------------------------------------
\* A first attempt of an image never waits for a connection: second attempts
\* and those that took over cannot use them up between them.
FirstHasSlot ==
    \A r \in Request : req[r].image => \A i \in DOMAIN att[r] :
       att[r][i].at = "slot" /\ ~att[r][i].second => Cardinality(Fetching(TRUE)) < Slots

\* The one lane is held by one attempt, and by none once its holder was
\* promoted or ended, whichever way the two crossed.
LaneHeldOnce ==
    LET holders == {x \in Attempts : att[x[1]][x[2]].at = "took" \/ att[x[1]][x[2]].holds}
    IN  /\ Cardinality(holders) = IF secondary THEN 1 ELSE 0
        /\ \A x \in holders : att[x[1]][x[2]].second \/ att[x[1]][x[2]].at \in {"took", "check"}

\* A request fails only when each address was tried to its end without an
\* answer, and no address is asked a third time.
FailedForReason ==
    \A r \in Request :
       /\ \A k \in 1 .. Addresses : Number(r, k) <= 2
       /\ req[r].at = "waiting" /\ req[r].result \in {"failed", "response"} =>
            \A k \in 1 .. Addresses : \E i \in DOMAIN att[r] :
               /\ att[r][i].address = k /\ att[r][i].at = "seen" /\ att[r][i].end # "won"
               /\ req[r].result = "failed" => att[r][i].end # "response"

\* Lanes and connections are never waited for in a circle: a request ends.
Open(r) == req[r].at \notin {"idle", "done"}
RequestsEnd == \A r \in Request : Open(r) ~> ~Open(r)

RaceFair == FirstHasSlot /\ LaneHeldOnce /\ FailedForReason
=============================================================================
