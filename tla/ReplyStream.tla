---------------------------- MODULE ReplyStream ----------------------------
(***************************************************************************)
(* How one turn streams its answer: model requests that are retried and    *)
(* fail over while their text is already on its way to the chat            *)
(* (providers/base.py, providers/fallback_provider.py), what the runner    *)
(* does with the responses (agent/runner.py), and the segments in which    *)
(* the turn publishes the text (agent/turn_delivery.py, agent/loop.py).    *)
(***************************************************************************)
EXTENDS Integers, Sequences, FiniteSets

CONSTANTS
    Fallbacks,    \* number of fallback presets; provider 0 is the primary
    Retries,      \* number of _CHAT_RETRY_DELAYS
    MaxAsks,     \* max_iterations of the turn
    MaxParts,     \* _MAX_LENGTH_RECOVERIES
    MaxBlanks,    \* _MAX_EMPTY_RETRIES
    MaxTexts      \* deltas of one provider call (bound)

ASSUME ReplyBoundsAssumption ==
    /\ Fallbacks \in Nat /\ Retries \in Nat /\ MaxParts \in Nat
    /\ MaxAsks \in Nat \ {0} /\ MaxBlanks \in Nat \ {0} /\ MaxTexts \in Nat \ {0}

VARIABLES
    replyPhase, \* what the turn is doing
    steps,      \* iterations begun
    request,    \* its model request: see Asking
    saw,        \* the flags that remember streamed text: see Flags
    parts,      \* length_recovery_parts: was each part streamed?
    blanks,     \* empty_content_retries
    stream,     \* the current segment: _stream_open, and two ghosts: whether it
                \* has text, and which calls of this step put text into it
    result,     \* how the turn was answered
    answer,     \* ghost: the parts of the final answer
    aside       \* ghost: in this step something was streamed that is not the answer

replyVars ==
    <<replyPhase, steps, request, saw, parts, blanks, stream, result, answer, aside>>

\* wrapper: has_streamed of FallbackProvider; base: has_streamed_content of
\* chat_stream_with_retry; context: context.streamed_content of the runner;
\* segment: segment_streamed_content; last: ctx.streamed_content of the turn.
Flags == {"wrapper", "base", "context", "segment", "last"}

Errors == {"timeout", "server", "auth", "request"}
ShouldFallback == {"timeout", "server", "auth"}
Transient == {"timeout", "server"}

Over == {"done", "cancelled", "raised"}
Nobody == Fallbacks + 1     \* past the last fallback

NewSegment == [open |-> FALSE, text |-> FALSE, said |-> {}]

ReplyInit ==
    /\ replyPhase = "ready" /\ steps = 0 /\ parts = <<>> /\ blanks = 0
    /\ request = [attempt |-> 0, provider |-> 0, failed |-> "none", bare |-> FALSE,
                  texts |-> 0, repeats |-> 0]
    /\ saw = [f \in Flags |-> FALSE]
    /\ stream = NewSegment /\ result = "none" /\ answer = <<>> /\ aside = FALSE
-----------------------------------------------------------------------------
(* Segments of the stream *)

Seen(flags) == [f \in Flags |-> f \in flags \/ saw[f]]
Unseen(flags) == [f \in Flags |-> f \notin flags /\ saw[f]]

PublishText ==
    stream' = [open |-> TRUE, text |-> TRUE, said |-> stream.said \cup {"this call"}]

\* The provider is called once more.
NextCall(segment) ==
    [segment EXCEPT !.said = IF @ = {} THEN {} ELSE {"an earlier call"}]

\* Mutant: a merged end counts as closing the stream.
EndedClosed(merge) == IF merge THEN [stream EXCEPT !.open = FALSE] ELSE NewSegment
\* A merged end leaves the segment to the text that continues it.
Ended(merge) == IF merge THEN [stream EXCEPT !.open = TRUE] ELSE NewSegment

\* Only the last segment can stand for the response.
TrackedEnd == [saw EXCEPT !["last"] = saw["segment"], !["segment"] = FALSE]

EndSegment(merge) == stream' = Ended(merge) /\ saw' = TrackedEnd
-----------------------------------------------------------------------------
(* Model requests *)

Asking(attempt, provider, failed, bare) ==
    [attempt |-> attempt,     \* of _run_with_retry
     provider |-> provider,
     failed |-> failed,       \* last_response: the error of the last fallback
     bare |-> bare,           \* the final call, without the images
     texts |-> 0,
     repeats |-> request.repeats]    \* for malformed tool calls

\* An open circuit skips the primary; a fallback whose provider cannot be
\* built is skipped.
FirstProviders == IF Fallbacks = 0 THEN {0} ELSE 0..Nobody
NextProviders == (request.provider + 1)..Nobody

Ask ==
    /\ replyPhase = "ready" /\ steps < MaxAsks
    /\ replyPhase' = "calling" /\ steps' = steps + 1 /\ aside' = FALSE
    /\ \E p \in FirstProviders :
          request' = [Asking(1, p, "none", FALSE) EXCEPT !.repeats = 0]
    /\ saw' = Unseen({"wrapper", "base", "context"})
    /\ stream' = [stream EXCEPT !.said = {}]
    /\ UNCHANGED <<parts, blanks, result, answer>>

\* The request was repeated twice: now without tools, and not streamed.
Plain == request.repeats = 2

\* A delta may hold nothing but thoughts, which the progress hook keeps back.
StreamDelta ==
    /\ replyPhase = "calling" /\ ~Plain
    /\ request.provider # Nobody /\ request.texts < MaxTexts
    /\ request' = [request EXCEPT !.texts = @ + 1]
    /\ \/ saw' = Seen({"wrapper", "base", "context"}) /\ UNCHANGED stream
       \/ /\ saw' = Seen({"wrapper", "base", "context", "segment"})
          /\ PublishText
    /\ UNCHANGED <<replyPhase, steps, parts, blanks, result, answer, aside>>

\* _recover_stream closes the segment and forgets that it had text.
Recovered(stalled) == IF stalled THEN NewSegment ELSE stream
Forgets(stalled) ==
    saw' = IF stalled THEN [TrackedEnd EXCEPT !["wrapper"] = FALSE, !["base"] = FALSE]
           ELSE saw

\* Mutant: a broken stream is tried elsewhere whatever broke it.
FailsOverAnyway(k) ==
    request.provider < Fallbacks /\ (request.provider = 0 => k \in ShouldFallback)
\* After text was streamed only a stalled stream is tried elsewhere.
FailsOver(k) ==
    /\ request.provider < Fallbacks /\ (saw["wrapper"] => k = "timeout")
    /\ request.provider = 0 => k \in ShouldFallback

TryFallback(k) ==
    /\ FailsOver(k)
    /\ \E p \in NextProviders :
          request' = Asking(request.attempt, p,
                            IF request.provider = 0 THEN "none" ELSE k, request.bare)
    /\ LET stalled == saw["wrapper"] /\ k = "timeout"
       IN Forgets(stalled) /\ stream' = NextCall(Recovered(stalled))
    /\ UNCHANGED replyPhase

Stalled(k) == saw["base"] /\ k = "timeout"
Settled(k) == saw["base"] /\ k # "timeout"
MayRetry(k) == k \in Transient /\ request.attempt <= Retries /\ ~Settled(k)

\* What _run_with_retry does with an error response.
RetryOrReturn(k) ==
    \/ /\ request.bare /\ replyPhase' = "refused" /\ UNCHANGED <<request, stream, saw>>
    \/ /\ ~request.bare /\ replyPhase' = IF MayRetry(k) THEN "waiting" ELSE "refused"
       /\ Forgets(Stalled(k)) /\ stream' = Recovered(Stalled(k)) /\ UNCHANGED request
    \/ \* the request had images: once more, without them
       /\ ~request.bare /\ k \notin Transient /\ ~Settled(k) /\ replyPhase' = "calling"
       /\ \E p \in FirstProviders : request' = Asking(request.attempt, p, "none", TRUE)
       /\ saw' = Unseen({"wrapper"}) /\ stream' = NextCall(stream)

CallFails ==
    /\ replyPhase = "calling" /\ request.provider # Nobody
    /\ \/ /\ ~Plain
          /\ \E k \in Errors :
                TryFallback(k) \/ (~FailsOver(k) /\ RetryOrReturn(k))
       \/ Plain /\ replyPhase' = "refused" /\ UNCHANGED <<request, saw, stream>>
    /\ aside' = (aside \/ saw["context"])
    /\ UNCHANGED <<steps, parts, blanks, result, answer>>

\* No provider is left: the error of the last fallback asked, or one of its own.
NoProviderLeft ==
    /\ replyPhase = "calling" /\ request.provider = Nobody
    /\ RetryOrReturn(IF request.failed = "none" THEN "request" ELSE request.failed)
    /\ UNCHANGED <<steps, parts, blanks, result, answer, aside>>

AskAgain ==
    /\ replyPhase = "waiting" /\ replyPhase' = "calling"
    /\ \E p \in FirstProviders :
          request' = Asking(request.attempt + 1, p, "none", FALSE)
    /\ saw' = Unseen({"wrapper"}) /\ stream' = NextCall(stream)
    /\ UNCHANGED <<steps, parts, blanks, result, answer, aside>>

\* The wall-clock timeout of the runner ends the request, retries and all.
WallClock ==
    /\ replyPhase \in {"calling", "waiting"} /\ replyPhase' = "refused"
    /\ UNCHANGED <<steps, request, saw, parts, blanks, stream, result, answer, aside>>
-----------------------------------------------------------------------------
(* What the runner does with a response *)

Answers == replyPhase = "calling" /\ request.provider # Nobody
Part == IF "this call" \in stream.said THEN "said" ELSE "quiet"
\* Text comes in deltas or, from a few providers, only with the response.
HasText == Part = "said" \/ request.texts = 0

\* Every tool call was malformed: the request is repeated within its step.
MalformedCalls ==
    /\ Answers /\ ~Plain
    /\ \E p \in FirstProviders :
          request' = [Asking(1, p, "none", FALSE) EXCEPT !.repeats = @ + 1]
    /\ request'.repeats = 2 => request'.provider = 0    \* any: it is not streamed
    /\ saw' = Unseen({"wrapper", "base"}) /\ stream' = NextCall(stream)
    /\ aside' = (aside \/ saw["context"])
    /\ UNCHANGED <<replyPhase, steps, parts, blanks, result, answer>>

ToolCalls ==
    /\ Answers /\ ~Plain /\ replyPhase' = "tools" /\ EndSegment(FALSE)
    /\ UNCHANGED <<steps, request, parts, blanks, result, answer, aside>>

\* Nothing to show: ask again, and in the end without streaming.
BlankResponse ==
    /\ Answers /\ Part = "quiet"
    /\ blanks' = blanks + 1
    /\ replyPhase' = IF blanks' < MaxBlanks THEN "ready" ELSE "finalizing"
    /\ EndSegment(FALSE) /\ aside' = (aside \/ saw["context"])
    /\ UNCHANGED <<steps, request, parts, result, answer>>

\* Cut at the output limit: the next request continues the same message.
ContinueCut(part) ==
    /\ Len(parts) < MaxParts
    /\ parts' = Append(parts, part) /\ replyPhase' = "ready" /\ EndSegment(TRUE)
    /\ UNCHANGED <<steps, request, blanks, result, answer, aside>>

\* Mutant: a terminal part without deltas is left to the response.
LacksTailNever == FALSE
\* Parts of the message are in the chat, so its terminal part has to follow.
LacksTail == parts # <<>> /\ ~saw["context"]

FinalResponse(part) ==
    /\ replyPhase' = "answered" /\ result' = "answer"
    /\ IF LacksTail
       THEN /\ PublishText /\ saw' = Seen({"context", "segment"})
            /\ answer' = Append(parts, "said")
       ELSE UNCHANGED <<stream, saw>> /\ answer' = Append(parts, part)
    /\ UNCHANGED <<steps, request, parts, blanks, aside>>

NoAnswer(kind) ==
    /\ replyPhase' = "answered" /\ result' = kind /\ answer' = <<>>
    /\ UNCHANGED <<steps, request, saw, parts, blanks, stream, aside>>

\* A part may be cut before it has text, and a refusal may have none.
CutOrFinal ==
    /\ Answers
    /\ \/ ContinueCut(Part)
       \/ HasText /\ FinalResponse(Part)
       \/ Part = "quiet" /\ NoAnswer("empty")

Refused == replyPhase = "refused" /\ NoAnswer("error")

\* The response of a request that was not streamed.
Finalized ==
    /\ replyPhase = "finalizing"
    /\ \/ ContinueCut("quiet") \/ FinalResponse("quiet")
       \/ \E kind \in {"error", "empty"} : NoAnswer(kind)

\* A follow-up was drained: the turn goes on.
Injected ==
    /\ replyPhase = "answered" /\ replyPhase' = "ready"
    /\ parts' = <<>> /\ result' = "none" /\ answer' = <<>> /\ EndSegment(FALSE)
    /\ UNCHANGED <<steps, request, blanks, aside>>

\* What was streamed is only marked as such, unless the turn failed.
Response(kind, flags) ==
    IF kind # "error" /\ flags["last"] THEN "streamed" ELSE kind

FinishReply ==
    /\ replyPhase = "answered" /\ replyPhase' = "done" /\ EndSegment(FALSE)
    /\ result' = Response(result, TrackedEnd)
    /\ UNCHANGED <<steps, request, parts, blanks, answer, aside>>

ToolsEnd ==
    /\ replyPhase = "tools" /\ parts' = <<>>
    /\ \/ replyPhase' = "ready" /\ blanks' = 0 /\ UNCHANGED result
       \/ \* a tool failed fatally, but a follow-up came
          replyPhase' = "ready" /\ UNCHANGED <<blanks, result>>
       \/ replyPhase' = "done" /\ result' = "error" /\ UNCHANGED blanks
    /\ UNCHANGED <<steps, request, saw, stream, answer, aside>>

\* max_iterations: a closing text is streamed, behind the parts before it, unless
\* the goal goes on in another turn.
OutOfSteps ==
    /\ replyPhase = "ready" /\ steps = MaxAsks /\ replyPhase' = "done"
    /\ \/ result' = "continued" /\ UNCHANGED <<saw, stream, answer>>
       \/ /\ stream' = Ended(FALSE)
          /\ saw' = [saw EXCEPT !["segment"] = FALSE, !["last"] = TRUE]
          /\ result' = Response("answer", saw') /\ answer' = Append(parts, "said")
    /\ UNCHANGED <<steps, request, parts, blanks, aside>>

\* /stop: abort_stream closes what is open.
StopTurn ==
    /\ replyPhase \notin Over /\ replyPhase' = "cancelled"
    /\ stream' = IF stream.open THEN Ended(FALSE) ELSE stream
    /\ UNCHANGED <<steps, request, saw, parts, blanks, result, answer, aside>>

\* A save or a hook raises outside the request: the chat gets an apology.
ReplyRaises ==
    /\ replyPhase \in {"ready", "tools", "answered"} /\ replyPhase' = "raised"
    /\ UNCHANGED <<steps, request, saw, parts, blanks, stream, result, answer, aside>>

ReplyNext ==
    \/ Ask \/ StreamDelta \/ CallFails \/ NoProviderLeft \/ AskAgain \/ WallClock
    \/ MalformedCalls \/ ToolCalls \/ BlankResponse \/ CutOrFinal \/ Refused \/ Finalized
    \/ Injected \/ FinishReply \/ ToolsEnd \/ OutOfSteps \/ StopTurn \/ ReplyRaises
ReplySpec == ReplyInit /\ [][ReplyNext]_replyVars
-----------------------------------------------------------------------------
(* Properties *)

\* Type correctness of the turn's request, segments and answer.
ReplyTypeOK ==
    /\ replyPhase \in Over \cup {"ready", "calling", "waiting", "refused", "tools",
                           "finalizing", "answered"}
    /\ steps \in 0..MaxAsks /\ blanks \in 0..(MaxAsks + 1)
    /\ request.attempt \in 0..(Retries + 1) /\ request.provider \in 0..Nobody
    /\ request.failed \in Errors \cup {"none"} /\ request.texts \in 0..MaxTexts
    /\ saw \in [Flags -> BOOLEAN]
    /\ parts \in Seq({"said", "quiet"}) /\ Len(parts) <= MaxParts
    /\ answer \in Seq({"said", "quiet"}) /\ Len(answer) <= MaxParts + 1
    /\ stream.open \in BOOLEAN /\ stream.text \in BOOLEAN
    /\ stream.said \subseteq {"this call", "an earlier call"}
    /\ result \in {"none", "answer", "streamed", "error", "empty", "continued"}
    /\ aside \in BOOLEAN

\* What a request streams into one segment comes from one provider call: a
\* request that is retried or fails over after text was streamed continues in a
\* new segment, so no chat message holds two attempts at the same text.  (Only a
\* request repeated for malformed tool calls goes on in its segment.)
SegmentsHoldOneAttempt == request.repeats = 0 => Cardinality(stream.said) <= 1

\* An answer is shown once: a turn answers with the mere marker that its answer
\* was streamed only if every part of it was, and with the full text only if none
\* was.  Two cases are left out, see the README: a part that was cut without having
\* been streamed, and a step that streamed thoughts, an attempt that broke off, or
\* text before malformed tool calls.
AnswerShownOnce ==
    /\ replyPhase = "done" /\ answer # <<>> /\ ~aside
    /\ \A i \in 1..(Len(answer) - 1) : answer[i] = "said"
    => /\ result = "streamed" => \A i \in DOMAIN answer : answer[i] = "said"
       /\ result = "answer" => \A i \in DOMAIN answer : answer[i] = "quiet"

\* No chat keeps an open stream: when a turn is over, by an answer or /stop, the
\* last segment with text was closed, unless the turn raised or its goal goes on.
StreamsClosed ==
    replyPhase \in {"done", "cancelled"} /\ result # "continued" => ~stream.text
=============================================================================
