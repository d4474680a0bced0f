------------------------------ MODULE Summarizer ------------------------------
(* One article summary by a model: its two halves, each asked for with the     *)
(* article's images and, failing that, without; streamed to the reader or not; *)
(* retried or not; every call under a permit and on the bill.                  *)
(* internal/ai/{summarizer,completion,admission,anthropic,compatible,          *)
(* summary_generation,article_model}.go, internal/aiusage/usage.go.            *)
EXTENDS Naturals, Sequences

CONSTANTS MaxAttempts,    \* of a call that is not streamed
          Native          \* providers whose protocol is translated

VARIABLES
    job,      \* the summary being made
    call,     \* its call to the provider
    bill      \* calls admitted, permits released, usage records written

vars == <<job, call, bill>>

Half == {"brief", "detailed"}
Via == {"vision", "text"}
Errors == {"denied", "cancelled", "completion", "length", "timeout", "transient",
           "application"}
Broken == {"transient", "application", "cancelled", "timeout"}
NoCall == [at |-> "none", doubled |-> FALSE, text |-> FALSE, started |-> FALSE,
           delta |-> FALSE, finish |-> "none"]
NoJob == [at |-> "idle", kind |-> "plain", stream |-> FALSE, native |-> FALSE, half |-> "brief",
          via |-> "text", attempt |-> 0, shown |-> [h \in Half |-> 0], stages |-> << >>,
          accepted |-> << >>, retried |-> {}]

TypeOK ==
    /\ job.at \in {"idle", "asking", "pausing", "done", "failed"}
    /\ job.kind \in {"plain", "template", "images", "json"}
    /\ job.half \in Half /\ job.via \in Via /\ job.attempt \in 0 .. MaxAttempts
    /\ job.shown \in [Half -> 0 .. 2] /\ job.retried \subseteq Errors
    /\ job.stages \in Seq(Half \X Via) /\ job.accepted \in Seq(Half \X Via)
    /\ call.at \in {"none", "sent", "body"} /\ call.finish \in {"none", "stop", "other", "done"}
    /\ bill \in [admitted : Nat, released : Nat, recorded : Nat]

Init == job = NoJob /\ call = NoCall /\ bill = [admitted |-> 0, released |-> 0, recorded |-> 0]

-----------------------------------------------------------------------------
\* The provider and its key are chosen once, for both halves and every attempt.
forArticle(k, stream) ==
    /\ job.at = "idle" /\ UNCHANGED <<call, bill>>
    /\ k = "json" => ~stream
    /\ \/ \E n \in Native :
          job' = [NoJob EXCEPT !.at = "asking", !.kind = k, !.stream = stream, !.native = n,
                               !.via = IF k = "images" THEN "vision" ELSE "text"]
       \/ job' = [NoJob EXCEPT !.at = "failed", !.kind = k]          \* no route

\* The images left the disk: the vision half falls back at once.
buildVisionMessages == job.at = "asking" /\ job.via = "vision" /\ call.at = "none"

terminalSummaryError(e) ==
    e \in {"denied", "cancelled", "timeout", "completion", "length"}

Again(j, e) == [j EXCEPT !.at = "pausing", !.attempt = @ + 1, !.retried = @ \cup {e}]
Failed(j) == [j EXCEPT !.at = "failed"]

FallBackShown(j, e) ==
    IF terminalSummaryError(e) THEN Failed(j)
    ELSE [j EXCEPT !.via = "text", !.attempt = 0,
                   !.stages = IF j.half = "brief" THEN << >> ELSE @]
\* What a failed half falls back to: the text, from the start when it was the
\* first half and for the second half alone otherwise.
FallBack(j, e) ==
    IF terminalSummaryError(e) \/ j.shown[j.half] > 0 THEN Failed(j)
    ELSE [j EXCEPT !.via = "text", !.attempt = 0,
                   !.stages = IF j.half = "brief" THEN << >> ELSE @]

\* A call failed for good: streams are never retried, texts are unless the
\* refusal or the answer's own end says no, images only for a broken connection.
CallFailed(j, e) ==
    LET again == ~j.stream /\ j.attempt + 1 < MaxAttempts IN
    IF j.via = "vision"
    THEN IF again /\ e = "transient" THEN Again(j, e) ELSE FallBack(j, e)
    ELSE IF again /\ e \notin {"denied", "cancelled"}
                  /\ (j.kind = "json" \/ e \notin {"completion", "length"})
         THEN Again(j, e) ELSE Failed(j)

\* Only the request whose output is accepted is remembered.
recordSummaryRequest(j) ==
    [j EXCEPT !.stages = Append(@, <<IF Len(@) = 0 THEN "brief" ELSE "detailed", j.via>>)]

Accepted(j) ==
    LET q == [IF j.kind = "json" THEN j ELSE recordSummaryRequest(j)
                EXCEPT !.accepted = Append(@, <<j.half, j.via>>)] IN
    IF j.half = "detailed" \/ j.kind = "json" THEN [q EXCEPT !.at = "done"]
    ELSE [q EXCEPT !.half = "detailed", !.attempt = 0,
                   !.via = IF j.kind = "images" /\ j.via = "vision" THEN "vision" ELSE "text"]

-----------------------------------------------------------------------------
\* A permit first, then the provider.
doAdmitted ==
    /\ job.at = "asking" /\ call.at = "none"
    /\ \/ /\ call' = [call EXCEPT !.at = "sent"]
          /\ bill' = [bill EXCEPT !.admitted = @ + 1] /\ UNCHANGED job
       \/ job' = CallFailed(job, "denied") /\ call' = NoCall /\ UNCHANGED bill

NoImages == buildVisionMessages /\ ~call.doubled /\ job' = CallFailed(job, "application")
                                /\ UNCHANGED <<call, bill>>

Closed == bill' = [bill EXCEPT !.released = @ + 1, !.recorded = @ + 1]

\* The request did not come through, or its answer is not a 200.
Requested ==
    /\ call.at = "sent"
    /\ \/ \E e \in Broken :
            job' = CallFailed(job, e) /\ call' = NoCall /\ Closed
       \/ call' = [call EXCEPT !.at = "body"] /\ UNCHANGED <<job, bill>>

doCompatible == ~job.native /\ Requested

\* The same request in the provider's own protocol.
doAnthropic == job.native /\ Requested

\* The answer in one piece.  One cut off at the token limit is asked for once
\* more with twice the limit, under a permit of its own.
doCallOnce ==
    /\ call.at = "body" /\ ~job.stream /\ Closed
    /\ \/ job' = Accepted(job) /\ call' = NoCall
       \/ ~call.doubled /\ call' = [NoCall EXCEPT !.doubled = TRUE] /\ UNCHANGED job
       \/ call.doubled /\ job' = CallFailed(job, "length") /\ call' = NoCall
       \/ \E e \in Broken \cup {"completion"} :
            job' = CallFailed(job, e) /\ call' = NoCall

\* A piece of a stream is shown as it comes.
Delta ==
    /\ call.at = "body" /\ job.stream /\ call.finish # "done"
    /\ job.native => call.started
    /\ call' = [call EXCEPT !.text = TRUE]
    /\ job' = IF call.text THEN job ELSE [job EXCEPT !.shown[job.half] = @ + 1]
    /\ UNCHANGED bill

\* The events of a translated stream, which come in one order only.
anthropicStream ==
    /\ call.at = "body" /\ job.stream /\ job.native /\ UNCHANGED <<job, bill>>
    /\ \/ ~call.started /\ call' = [call EXCEPT !.started = TRUE]
       \/ \E why \in {"none", "stop", "other"} :
            /\ call.started /\ call.finish # "done"
            /\ call' = [call EXCEPT !.delta = TRUE,
                          !.finish = IF why = "none" \/ @ = "other" THEN @ ELSE why]
       \/ /\ call.started /\ call.delta /\ call.finish \in {"none", "stop"}
          /\ call' = [call EXCEPT !.finish = "done"]

Finish ==
    /\ call.at = "body" /\ job.stream /\ ~job.native /\ UNCHANGED <<job, bill>>
    /\ \E why \in {"stop", "other", "done"} :
         call' = [call EXCEPT !.finish = IF @ = "other" THEN @ ELSE why]

\* How the reading of a stream ends: complete, and with something in it; at an
\* end of file; on a broken connection.  An end of file after the reason is
\* enough, but not for a translated stream, which waits for its last event.
readCompletionStream ==
    /\ call.at = "body" /\ job.stream /\ Closed /\ call' = NoCall
    /\ \/ /\ call.finish = "done" \/ (call.finish = "stop" /\ ~job.native)
          /\ job' = IF call.text THEN Accepted(job) ELSE CallFailed(job, "completion")
       \/ call.finish = "other" /\ job' = CallFailed(job, "completion")
       \/ /\ call.finish # "done"
          /\ \E e \in Broken \cup (IF ~job.native /\ call.finish = "none" THEN {"completion"} ELSE {}) :
               job' = CallFailed(job, e)

\* The pause before another attempt, cut short when the reader leaves.
Pause ==
    /\ job.at = "pausing" /\ UNCHANGED <<call, bill>>
    /\ job' = [job EXCEPT !.at = "asking"] \/ job' = Failed(job)

Next ==
    \/ \E k \in {"plain", "template", "images", "json"}, s \in BOOLEAN : forArticle(k, s)
    \/ NoImages \/ doAdmitted \/ doCompatible \/ doAnthropic \/ doCallOnce \/ Delta \/ anthropicStream \/ Finish
    \/ readCompletionStream \/ Pause

Spec == Init /\ [][Next]_vars

-----------------------------------------------------------------------------
\* What a reader saw stream in is what was kept: one attempt's pieces for each
\* half, and no half that a stream without its end made.
KeptAsShown ==
    /\ \A h \in Half : job.shown[h] <= 1
    /\ job.at = "done" /\ job.stream => \A h \in Half : job.shown[h] = 1

\* A summary's record names the requests its halves came from, whatever mix of
\* images, text and attempts that was.
LineageExact == job.at = "done" /\ job.kind # "json" => job.stages = job.accepted
                                                       /\ Len(job.stages) = 2

\* A permit is held by a running call alone, never over a pause or a second
\* request, and every admitted call is billed once.
PermitsReturned ==
    LET running == IF call.at = "none" THEN 0 ELSE 1 IN
    bill.released + running = bill.admitted /\ bill.recorded = bill.released

SummaryHonest == KeptAsShown /\ LineageExact /\ PermitsReturned

\* An answer the model ended itself is not asked for again.
CompletionTerminal == job.retried \cap {"completion", "length"} = {}
=============================================================================
