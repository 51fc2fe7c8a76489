---------------------------- MODULE DeliveryProofs ----------------------------
(***************************************************************************)
(* What holds of the stream of a turn's answer (ReplyStream) and of its    *)
(* delivery (Outbound) for every number of fallbacks, retries, steps and   *)
(* messages.                                                               *)
(***************************************************************************)
EXTENDS ReplyStream, Outbound, FiniteSetTheorems, SequenceTheorems, WellFoundedInduction,
    TLAPS

-----------------------------------------------------------------------------
(* Replies: the inductive invariant *)

RequestRecords ==
    [attempt : 0 .. Retries + 1, provider : 0 .. Nobody, failed : Errors \cup {"none"},
     bare : BOOLEAN, texts : 0 .. MaxTexts, repeats : 0 .. 2]
Segments ==
    [open : BOOLEAN, text : BOOLEAN, said : SUBSET {"this call", "an earlier call"}]
Results == {"none", "answer", "streamed", "error", "empty", "continued"}
ReplyPhases ==
    Over \cup {"ready", "calling", "waiting", "refused", "tools", "finalizing", "answered"}

\* ReplyTypeOK, with the records as a whole.
ReplyTyped ==
    /\ replyPhase \in ReplyPhases /\ request \in RequestRecords /\ stream \in Segments
    /\ saw \in [Flags -> BOOLEAN] /\ result \in Results /\ aside \in BOOLEAN
    /\ parts \in Seq({"said", "quiet"}) /\ Len(parts) <= MaxParts
    /\ answer \in Seq({"said", "quiet"}) /\ Len(answer) <= MaxParts + 1

\* A step has at most one blank response, and who waits has retries left.
ReplyCounted ==
    /\ steps \in 0 .. MaxAsks /\ blanks \in 0 .. steps
    /\ replyPhase \in {"calling", "waiting"} => blanks < steps
    /\ replyPhase = "waiting" => request.attempt <= Retries
    /\ request.provider = Nobody => request.texts = 0

\* A segment with text is open, and none is left behind by tool calls or blanks.
TextIsOpen ==
    /\ stream.text => stream.open
    /\ replyPhase = "tools" => ~stream.text /\ ~saw["segment"]
    /\ replyPhase = "finalizing" => stream = NewSegment /\ ~saw["segment"]

\* Until a request is repeated, text of its calls is known to whoever would call
\* another provider or retry, and none of it is of an earlier call.
CallsKnowText ==
    request.repeats = 0 =>
        /\ "an earlier call" \notin stream.said
        /\ replyPhase = "calling" /\ stream.said # {} => saw["wrapper"] /\ saw["base"]
        /\ replyPhase = "waiting" => stream.said = {}

\* In a step that has not gone astray, the flags of the runner and of the turn are
\* about this call's text.
FlagsAgree ==
    /\ replyPhase = "ready" => ~saw["segment"]
    /\ replyPhase = "calling" /\ ~aside =>
          /\ saw["segment"] <=> "this call" \in stream.said
          /\ saw["segment"] => saw["context"]
          /\ saw["context"] => request.texts # 0
    /\ replyPhase \in {"waiting", "finalizing"} /\ ~aside => ~saw["context"] /\ ~saw["segment"]

PartsSaid == \A i \in 1 .. Len(answer) - 1 : answer[i] = "said"

\* The flag that decides how the turn responds tells whether the last part was shown,
\* and an answer whose last part was not shown has no other.
AnswerIsKnown ==
    replyPhase = "answered" =>
        /\ result # "answer" => answer = <<>>
        /\ result = "answer" => answer # <<>>
        /\ result = "answer" /\ ~aside =>
              IF saw["segment"] THEN answer[Len(answer)] = "said"
              ELSE Len(answer) = 1 /\ answer[1] = "quiet"

\* The inductive invariant.
ReplyInv ==
    /\ ReplyTyped /\ ReplyCounted /\ TextIsOpen /\ CallsKnowText /\ FlagsAgree /\ AnswerIsKnown
    /\ AnswerShownOnce /\ StreamsClosed

-----------------------------------------------------------------------------
(* Replies: what the operators of the model yield *)

LEMMA FlagValues ==
    ASSUME ReplyTyped, NEW S \in SUBSET Flags
    PROVE  /\ Seen(S) \in [Flags -> BOOLEAN] /\ Unseen(S) \in [Flags -> BOOLEAN]
           /\ \A f \in S : Seen(S)[f] = TRUE /\ Unseen(S)[f] = FALSE
           /\ \A f \in Flags \ S : Seen(S)[f] = saw[f] /\ Unseen(S)[f] = saw[f]
  BY DEF ReplyTyped, Seen, Unseen

LEMMA EndFlags ==
    ASSUME ReplyTyped
    PROVE  /\ TrackedEnd \in [Flags -> BOOLEAN]
           /\ TrackedEnd["segment"] = FALSE /\ TrackedEnd["last"] = saw["segment"]
           /\ \A f \in {"wrapper", "base", "context"} : TrackedEnd[f] = saw[f]
  BY DEF ReplyTyped, TrackedEnd, Flags

LEMMA ForgottenFlags ==
    ASSUME ReplyTyped, saw' = [TrackedEnd EXCEPT !["wrapper"] = FALSE, !["base"] = FALSE]
    PROVE  saw' \in [Flags -> BOOLEAN] /\ saw'["context"] = saw["context"] /\ ~saw'["segment"]
<1>1. TrackedEnd \in [Flags -> BOOLEAN] /\ {"wrapper", "base", "context", "segment"} \subseteq Flags
  BY EndFlags DEF Flags
<1> QED BY <1>1, EndFlags

LEMMA UnseenFlags ==
    ASSUME ReplyTyped, saw' = Unseen({"wrapper"}) \/ saw' = Unseen({"wrapper", "base"})
    PROVE  /\ saw' \in [Flags -> BOOLEAN]
           /\ saw'["context"] = saw["context"] /\ saw'["segment"] = saw["segment"]
  BY DEF ReplyTyped, Unseen, Flags

LEMMA SegmentValues ==
    ASSUME ReplyTyped
    PROVE  /\ NewSegment \in Segments /\ NewSegment.text = FALSE /\ NewSegment.said = {}
           /\ Ended(FALSE) = NewSegment
           /\ Ended(TRUE) \in Segments /\ Ended(TRUE).open = TRUE
           /\ Ended(TRUE).text = stream.text /\ Ended(TRUE).said = stream.said
  BY DEF ReplyTyped, NewSegment, Ended, Segments

LEMMA NextCallValues ==
    ASSUME NEW s \in Segments
    PROVE  /\ NextCall(s) \in Segments /\ NextCall(s).open = s.open /\ NextCall(s).text = s.text
           /\ s.said = {} => NextCall(s).said = {}
           /\ "this call" \notin NextCall(s).said
  BY DEF NextCall, Segments

LEMMA ProvidersAreNumbers ==
    FirstProviders \in SUBSET (0 .. Nobody) /\ Nobody \in Nat /\ Nobody > Fallbacks
  BY ReplyBoundsAssumption DEF FirstProviders, Nobody

\* While the turn goes on nothing is claimed of its answer.
LEMMA GoesOn ==
    replyPhase' \notin {"answered", "done", "cancelled"} =>
        AnswerIsKnown' /\ AnswerShownOnce' /\ StreamsClosed'
  BY DEF AnswerIsKnown, AnswerShownOnce, StreamsClosed

-----------------------------------------------------------------------------
(* Replies: every step *)

LEMMA ReplyStart == ReplyInit => ReplyInv
<1> SUFFICES ASSUME ReplyInit PROVE ReplyInv
  OBVIOUS
<1>1. /\ replyPhase = "ready" /\ steps = 0 /\ parts = <<>> /\ blanks = 0 /\ stream = NewSegment
      /\ result = "none" /\ answer = <<>> /\ aside = FALSE
      /\ request = [attempt |-> 0, provider |-> 0, failed |-> "none", bare |-> FALSE,
                    texts |-> 0, repeats |-> 0]
      /\ saw \in [Flags -> BOOLEAN] /\ saw["segment"] = FALSE
  BY DEF ReplyInit, Flags
<1>2. request \in RequestRecords /\ stream \in Segments /\ ~stream.text /\ stream.said = {}
  BY <1>1, ReplyBoundsAssumption DEF RequestRecords, Segments, NewSegment, Nobody
<1>3. ReplyTyped
  <2>1. parts \in Seq({"said", "quiet"}) /\ Len(parts) = 0 /\ answer = parts
    BY <1>1
  <2>2. replyPhase \in ReplyPhases /\ result \in Results /\ aside \in BOOLEAN
    BY <1>1 DEF ReplyPhases, Results
  <2>3. Len(parts) <= MaxParts /\ Len(answer) <= MaxParts + 1
    BY <2>1, ReplyBoundsAssumption
  <2>4. saw \in [Flags -> BOOLEAN]
    BY <1>1
  <2> QED BY <1>2, <2>1, <2>2, <2>3, <2>4 DEF ReplyTyped
<1>4. ReplyCounted
  BY <1>1, ReplyBoundsAssumption DEF ReplyCounted
<1> QED BY <1>1, <1>2, <1>3, <1>4 DEF ReplyInv, TextIsOpen, CallsKnowText, FlagsAgree, AnswerIsKnown,
           AnswerShownOnce, StreamsClosed

LEMMA AskKeeps == ASSUME ReplyInv, Ask PROVE ReplyInv'
<1>1. /\ replyPhase = "ready" /\ steps < MaxAsks /\ replyPhase' = "calling" /\ steps' = steps + 1
      /\ aside' = FALSE /\ UNCHANGED <<parts, blanks, result, answer>>
  BY DEF Ask
<1>2. ReplyTyped /\ ~saw["segment"]
  BY <1>1 DEF ReplyInv, FlagsAgree
<1>3. request' \in RequestRecords /\ request'.texts = 0 /\ request'.repeats = 0
  <2>1. PICK p \in FirstProviders : request' = [Asking(1, p, "none", FALSE) EXCEPT !.repeats = 0]
    BY DEF Ask
  <2>2. 1 \in 0 .. Retries + 1 /\ p \in 0 .. Nobody
    BY ProvidersAreNumbers, ReplyBoundsAssumption
  <2>3. request' = [attempt |-> 1, provider |-> p, failed |-> "none", bare |-> FALSE,
                    texts |-> 0, repeats |-> 0]
    BY <2>1 DEF Asking
  <2> QED BY <2>2, <2>3, ReplyBoundsAssumption DEF RequestRecords
<1>4. /\ saw' \in [Flags -> BOOLEAN] /\ ~saw'["context"] /\ ~saw'["segment"]
  <2> DEFINE S == {"wrapper", "base", "context"}
  <2>1. S \in SUBSET Flags /\ "segment" \in Flags \ S /\ "context" \in S
    BY DEF Flags
  <2>2. saw' = Unseen(S)
    BY DEF Ask
  <2> HIDE DEF S
  <2> QED BY <1>2, <2>1, <2>2, FlagValues
<1>5. stream' \in Segments /\ stream'.said = {} /\ stream'.open = stream.open /\ stream'.text = stream.text
  BY <1>2 DEF Ask, ReplyTyped, Segments
<1>6. ReplyTyped'
  BY <1>1, <1>2, <1>3, <1>4, <1>5 DEF ReplyTyped, ReplyPhases
<1>8. ReplyCounted'
  BY <1>1, <1>3, ReplyBoundsAssumption DEF ReplyInv, ReplyCounted
<1>7. TextIsOpen' /\ CallsKnowText' /\ FlagsAgree'
  BY <1>1, <1>3, <1>4, <1>5 DEF ReplyInv, TextIsOpen, CallsKnowText, FlagsAgree
<1> QED BY <1>1, <1>6, <1>7, <1>8, GoesOn DEF ReplyInv

LEMMA StreamDeltaKeeps == ASSUME ReplyInv, StreamDelta PROVE ReplyInv'
<1>1. /\ replyPhase = "calling" /\ request.provider # Nobody /\ request.texts < MaxTexts
      /\ UNCHANGED <<replyPhase, steps, parts, blanks, result, answer, aside>>
  BY DEF StreamDelta
<1>2. ReplyTyped
  BY DEF ReplyInv
<1>3. /\ request' \in RequestRecords /\ request'.texts # 0 /\ request'.repeats = request.repeats
      /\ request'.provider # Nobody /\ request'.attempt = request.attempt
  <2>1. request \in RequestRecords /\ request' = [request EXCEPT !.texts = request.texts + 1]
    BY <1>2 DEF ReplyTyped, StreamDelta
  <2>2. request.texts + 1 \in 0 .. MaxTexts /\ request.texts + 1 # 0
    BY <1>1, <2>1, ReplyBoundsAssumption DEF RequestRecords
  <2> QED BY <1>1, <2>1, <2>2 DEF RequestRecords
<1>4. {"wrapper", "base", "context"} \in SUBSET Flags /\ "segment" \in Flags
      /\ {"wrapper", "base", "context", "segment"} \in SUBSET Flags
  BY DEF Flags
<1>5. CASE saw' = Seen({"wrapper", "base", "context"}) /\ UNCHANGED stream
  <2>1. /\ saw' \in [Flags -> BOOLEAN] /\ saw'["wrapper"] /\ saw'["base"] /\ saw'["context"]
        /\ saw'["segment"] = saw["segment"]
    BY <1>2, <1>4, <1>5, FlagValues
  <2>2. ReplyTyped' /\ ReplyCounted'
    BY <1>1, <1>2, <1>3, <1>5, <2>1 DEF ReplyInv, ReplyTyped, ReplyCounted
  <2>3. TextIsOpen' /\ CallsKnowText' /\ FlagsAgree'
    BY <1>1, <1>3, <1>5, <2>1 DEF ReplyInv, TextIsOpen, CallsKnowText, FlagsAgree
  <2> QED BY <1>1, <2>2, <2>3, GoesOn DEF ReplyInv
<1>6. CASE saw' = Seen({"wrapper", "base", "context", "segment"}) /\ PublishText
  <2>1. /\ saw' \in [Flags -> BOOLEAN] /\ saw'["wrapper"] /\ saw'["base"] /\ saw'["context"]
        /\ saw'["segment"]
    BY <1>2, <1>4, <1>6, FlagValues
  <2>2. stream' \in Segments /\ stream'.open /\ stream'.said = stream.said \cup {"this call"}
    BY <1>2, <1>6 DEF PublishText, ReplyTyped, Segments
  <2>3. ReplyTyped' /\ ReplyCounted'
    BY <1>1, <1>2, <1>3, <2>1, <2>2 DEF ReplyInv, ReplyTyped, ReplyCounted
  <2>4. TextIsOpen' /\ CallsKnowText' /\ FlagsAgree'
    BY <1>1, <1>3, <2>1, <2>2 DEF ReplyInv, TextIsOpen, CallsKnowText, FlagsAgree
  <2> QED BY <1>1, <2>3, <2>4, GoesOn DEF ReplyInv
<1> QED BY <1>5, <1>6 DEF StreamDelta

\* A provider is called, again or another, by whoever knows that no text is lost.
LEMMA CallsAgain ==
    ASSUME ReplyInv, replyPhase \in {"calling", "waiting"}, replyPhase' = "calling",
           UNCHANGED <<steps, parts, blanks, result, answer>>,
           request' \in RequestRecords, request'.texts = 0, saw' \in [Flags -> BOOLEAN],
           stream' \in Segments, stream'.text => stream'.open, "this call" \notin stream'.said,
           request'.repeats = 0 => stream'.said = {},
           aside' \in BOOLEAN, aside' \/ (~saw'["context"] /\ ~saw'["segment"])
    PROVE  ReplyInv'
<1>1. ReplyTyped'
  BY DEF ReplyInv, ReplyTyped, ReplyPhases
<1>2. ReplyCounted'
  BY DEF ReplyInv, ReplyCounted
<1>3. TextIsOpen' /\ CallsKnowText' /\ FlagsAgree'
  BY DEF TextIsOpen, CallsKnowText, FlagsAgree
<1> QED BY <1>1, <1>2, <1>3, GoesOn DEF ReplyInv

\* A request has failed, for good or until its next attempt.
LEMMA CallEnds ==
    ASSUME ReplyInv, replyPhase \in {"calling", "waiting"}, replyPhase' \in {"waiting", "refused"},
           UNCHANGED <<steps, request, parts, blanks, result, answer>>,
           saw' \in [Flags -> BOOLEAN],
           stream' \in Segments, stream'.text => stream'.open,
           request.repeats = 0 => "an earlier call" \notin stream'.said,
           replyPhase' = "waiting" =>
               /\ request.attempt <= Retries
               /\ request.repeats = 0 => stream'.said = {}
               /\ aside' \/ (~saw'["context"] /\ ~saw'["segment"]),
           aside' \in BOOLEAN
    PROVE  ReplyInv'
<1>1. ReplyTyped'
  BY DEF ReplyInv, ReplyTyped, ReplyPhases
<1>2. ReplyCounted'
  BY DEF ReplyInv, ReplyCounted
<1>3. TextIsOpen' /\ CallsKnowText' /\ FlagsAgree'
  BY DEF TextIsOpen, CallsKnowText, FlagsAgree
<1> QED BY <1>1, <1>2, <1>3, GoesOn DEF ReplyInv

\* What the model knows while a call is under way, as far as the next call needs it.
CallFacts ==
    /\ request \in RequestRecords /\ stream \in Segments /\ saw \in [Flags -> BOOLEAN]
    /\ stream.text => stream.open
    /\ request.repeats = 0 /\ ~(saw["wrapper"] /\ saw["base"]) => stream.said = {}
    /\ request.repeats = 0 => "an earlier call" \notin stream.said
    /\ ~aside /\ ~saw["context"] => ~saw["segment"]

LEMMA CallKnows == ReplyInv /\ replyPhase = "calling" => ReplyTyped /\ CallFacts
  BY DEF ReplyInv, ReplyTyped, TextIsOpen, CallsKnowText, FlagsAgree, CallFacts

LEMMA RetryKeeps ==
    ASSUME ReplyInv, replyPhase = "calling", NEW k \in Errors, RetryOrReturn(k),
           UNCHANGED <<steps, parts, blanks, result, answer>>,
           aside' \in BOOLEAN, aside => aside', aside' \/ ~saw["context"]
    PROVE  ReplyInv'
<1>0. ReplyTyped /\ CallFacts
  BY CallKnows
<1>1. CASE replyPhase' = "refused" /\ UNCHANGED <<request, stream, saw>>
  <2>1. saw' \in [Flags -> BOOLEAN]
    BY <1>0, <1>1 DEF CallFacts
  <2> QED BY <1>0, <1>1, <2>1, CallEnds DEF CallFacts
<1>2. CASE /\ replyPhase' = IF MayRetry(k) THEN "waiting" ELSE "refused"
           /\ Forgets(Stalled(k)) /\ stream' = Recovered(Stalled(k)) /\ UNCHANGED request
  <2>1. replyPhase' \in {"waiting", "refused"}
        /\ (replyPhase' = "waiting" => request.attempt <= Retries /\ (saw["base"] => Stalled(k)))
    BY <1>2 DEF MayRetry, Settled, Stalled
  <2>2. CASE Stalled(k)
    <3>1. stream' = NewSegment
      BY <1>2, <2>2 DEF Recovered
    <3>2. saw' \in [Flags -> BOOLEAN] /\ saw'["context"] = saw["context"] /\ ~saw'["segment"]
      BY <1>0, <1>2, <2>2, ForgottenFlags DEF Forgets
    <3>3. stream' \in Segments /\ ~stream'.text /\ stream'.said = {}
      BY <1>0, <3>1, SegmentValues
    <3> QED BY <1>0, <1>2, <2>1, <3>2, <3>3, CallEnds DEF CallFacts
  <2>3. CASE ~Stalled(k)
    <3>1. stream' = stream /\ saw' = saw
      BY <1>2, <2>3 DEF Recovered, Forgets
    <3>2. saw' \in [Flags -> BOOLEAN]
      BY <1>0, <3>1 DEF CallFacts
    <3>3. replyPhase' = "waiting" => ~saw["base"]
      BY <2>1, <2>3
    <3> QED BY <1>0, <1>2, <2>1, <3>1, <3>2, <3>3, CallEnds DEF CallFacts
  <2> QED BY <2>2, <2>3
<1>3. CASE /\ k \notin Transient /\ ~Settled(k) /\ replyPhase' = "calling"
           /\ \E p \in FirstProviders : request' = Asking(request.attempt, p, "none", TRUE)
           /\ saw' = Unseen({"wrapper"}) /\ stream' = NextCall(stream)
  <2>1. request' \in RequestRecords /\ request'.texts = 0 /\ request'.repeats = request.repeats
    <3>1. PICK p \in FirstProviders : request' = Asking(request.attempt, p, "none", TRUE)
      BY <1>3
    <3>2. request' = [attempt |-> request.attempt, provider |-> p, failed |-> "none",
                      bare |-> TRUE, texts |-> 0, repeats |-> request.repeats]
      BY <3>1 DEF Asking
    <3>3. p \in 0 .. Nobody
      BY ProvidersAreNumbers
    <3>4. request.attempt \in 0 .. Retries + 1 /\ request.repeats \in 0 .. 2
      BY <1>0 DEF CallFacts, RequestRecords
    <3>5. 0 \in 0 .. MaxTexts
      BY ReplyBoundsAssumption
    <3> QED BY <3>2, <3>3, <3>4, <3>5 DEF RequestRecords
  <2>2. /\ saw' \in [Flags -> BOOLEAN]
        /\ saw'["context"] = saw["context"] /\ saw'["segment"] = saw["segment"]
    BY <1>0, <1>3, UnseenFlags
  <2>3. ~saw["base"]
    BY <1>3 DEF Settled, Transient
  <2>4. /\ stream' \in Segments /\ stream'.open = stream.open /\ stream'.text = stream.text
        /\ stream.said = {} => stream'.said = {}
        /\ "this call" \notin stream'.said
    BY <1>0, <1>3, NextCallValues DEF CallFacts
  <2> QED BY <1>0, <1>3, <2>1, <2>2, <2>3, <2>4, CallsAgain DEF CallFacts
<1> QED BY <1>1, <1>2, <1>3 DEF RetryOrReturn

LEMMA TryFallbackKeeps ==
    ASSUME ReplyInv, replyPhase = "calling", NEW k \in Errors, TryFallback(k),
           UNCHANGED <<steps, parts, blanks, result, answer>>,
           aside' = (aside \/ saw["context"])
    PROVE  ReplyInv'
<1>0. ReplyTyped /\ CallFacts
  BY CallKnows
<1>1. request' \in RequestRecords /\ request'.texts = 0 /\ request'.repeats = request.repeats
  <2>1. PICK p \in NextProviders, f \in {"none", k} :
           request' = Asking(request.attempt, p, f, request.bare)
    BY DEF TryFallback
  <2>2. request' = [attempt |-> request.attempt, provider |-> p, failed |-> f,
                    bare |-> request.bare, texts |-> 0, repeats |-> request.repeats]
    BY <2>1 DEF Asking
  <2>3. p \in 0 .. Nobody
    <3>1. request.provider \in 0 .. Nobody
      BY <1>0 DEF CallFacts, RequestRecords
    <3> QED BY <2>1, <3>1, ProvidersAreNumbers DEF NextProviders
  <2>4. request.attempt \in 0 .. Retries + 1 /\ request.repeats \in 0 .. 2 /\ request.bare \in BOOLEAN
    BY <1>0 DEF CallFacts, RequestRecords
  <2>5. 0 \in 0 .. MaxTexts
    BY ReplyBoundsAssumption
  <2> QED BY <2>1, <2>2, <2>3, <2>4, <2>5 DEF RequestRecords
<1>2. aside' \in BOOLEAN /\ (aside' \/ (~aside /\ ~saw["context"]))
  BY Zenon
<1>3. UNCHANGED replyPhase /\ (saw["wrapper"] => k = "timeout")
  BY DEF TryFallback, FailsOver
<1>4. CASE saw["wrapper"]
  <2>1. stream' = NextCall(NewSegment)
        /\ saw' = [TrackedEnd EXCEPT !["wrapper"] = FALSE, !["base"] = FALSE]
    BY <1>3, <1>4 DEF TryFallback, Recovered, Forgets
  <2>2. saw' \in [Flags -> BOOLEAN] /\ saw'["context"] = saw["context"] /\ ~saw'["segment"]
    BY <1>0, <2>1, ForgottenFlags
  <2>3. stream' \in Segments /\ ~stream'.text /\ stream'.said = {}
    BY <1>0, <2>1, SegmentValues, NextCallValues
  <2> QED BY <1>0, <1>1, <1>2, <1>3, <2>2, <2>3, CallsAgain DEF CallFacts
<1>5. CASE ~saw["wrapper"]
  <2>1. stream' = NextCall(stream) /\ saw' = saw
    BY <1>5 DEF TryFallback, Recovered, Forgets
  <2>2. /\ stream' \in Segments /\ stream'.open = stream.open /\ stream'.text = stream.text
        /\ stream.said = {} => stream'.said = {}
        /\ "this call" \notin stream'.said
    BY <1>0, <2>1, NextCallValues DEF CallFacts
  <2>3. saw' \in [Flags -> BOOLEAN]
    BY <1>0, <2>1 DEF CallFacts
  <2> QED BY <1>0, <1>1, <1>2, <1>3, <1>5, <2>1, <2>2, <2>3, CallsAgain DEF CallFacts
<1> QED BY <1>4, <1>5

LEMMA CallFailsKeeps == ASSUME ReplyInv, CallFails PROVE ReplyInv'
<1>1. /\ replyPhase = "calling" /\ aside' = (aside \/ saw["context"])
      /\ UNCHANGED <<steps, parts, blanks, result, answer>>
  BY DEF CallFails
<1>2. aside' \in BOOLEAN /\ (aside => aside') /\ (aside' \/ ~saw["context"])
  BY <1>1, Zenon
<1>3. CASE Plain /\ replyPhase' = "refused" /\ UNCHANGED <<request, saw, stream>>
  <2>1. CallFacts
    BY <1>1, CallKnows
  <2>2. saw' \in [Flags -> BOOLEAN]
    BY <1>3, <2>1 DEF CallFacts
  <2> QED BY <1>1, <1>2, <1>3, <2>1, <2>2, CallEnds DEF CallFacts
<1>4. ASSUME NEW k \in Errors, TryFallback(k) PROVE ReplyInv'
  BY <1>1, <1>4, TryFallbackKeeps
<1>5. ASSUME NEW k \in Errors, RetryOrReturn(k) PROVE ReplyInv'
  BY <1>1, <1>2, <1>5, RetryKeeps
<1> QED BY <1>3, <1>4, <1>5 DEF CallFails

LEMMA NoProviderLeftKeeps == ASSUME ReplyInv, NoProviderLeft PROVE ReplyInv'
<1>1. /\ replyPhase = "calling" /\ request.provider = Nobody
      /\ UNCHANGED <<steps, parts, blanks, result, answer, aside>>
  BY DEF NoProviderLeft
<1>2. aside \in BOOLEAN /\ (aside \/ ~saw["context"])
  <2>1. request.texts = 0 /\ aside \in BOOLEAN
    BY <1>1 DEF ReplyInv, ReplyTyped, ReplyCounted
  <2>2. ~aside => ~saw["context"]
    BY <1>1, <2>1 DEF ReplyInv, FlagsAgree
  <2> QED BY <2>1, <2>2, Zenon
<1>3. PICK k \in Errors : RetryOrReturn(k)
  <2>1. request.failed \in Errors \cup {"none"} /\ "request" \in Errors
    BY DEF ReplyInv, ReplyTyped, RequestRecords, Errors
  <2> QED BY <2>1 DEF NoProviderLeft
<1> QED BY <1>1, <1>2, <1>3, RetryKeeps

LEMMA AskAgainKeeps == ASSUME ReplyInv, AskAgain PROVE ReplyInv'
<1>1. /\ replyPhase = "waiting" /\ replyPhase' = "calling" /\ saw' = Unseen({"wrapper"})
      /\ stream' = NextCall(stream) /\ UNCHANGED <<steps, parts, blanks, result, answer, aside>>
  BY DEF AskAgain
<1>2. /\ ReplyTyped /\ stream \in Segments
      /\ stream.text => stream.open
      /\ request.repeats = 0 => stream.said = {}
      /\ aside \in BOOLEAN /\ (aside \/ (~saw["context"] /\ ~saw["segment"]))
  BY <1>1 DEF ReplyInv, ReplyTyped, TextIsOpen, CallsKnowText, FlagsAgree
<1>3. request' \in RequestRecords /\ request'.texts = 0 /\ request'.repeats = request.repeats
  <2>1. PICK p \in FirstProviders : request' = Asking(request.attempt + 1, p, "none", FALSE)
    BY DEF AskAgain
  <2>2. request' = [attempt |-> request.attempt + 1, provider |-> p, failed |-> "none",
                    bare |-> FALSE, texts |-> 0, repeats |-> request.repeats]
    BY <2>1 DEF Asking
  <2>3. request.attempt + 1 \in 0 .. Retries + 1 /\ request.repeats \in 0 .. 2
    BY <1>1, ReplyBoundsAssumption DEF ReplyInv, ReplyTyped, ReplyCounted, RequestRecords
  <2>4. 0 \in 0 .. MaxTexts /\ p \in 0 .. Nobody
    BY ProvidersAreNumbers, ReplyBoundsAssumption
  <2> QED BY <2>2, <2>3, <2>4 DEF RequestRecords
<1>4. /\ saw' \in [Flags -> BOOLEAN]
      /\ saw'["context"] = saw["context"] /\ saw'["segment"] = saw["segment"]
  BY <1>1, <1>2, UnseenFlags
<1>5. /\ stream' \in Segments /\ stream'.open = stream.open /\ stream'.text = stream.text
      /\ stream.said = {} => stream'.said = {}
      /\ "this call" \notin stream'.said
  BY <1>1, <1>2, NextCallValues
<1> QED BY <1>1, <1>2, <1>3, <1>4, <1>5, CallsAgain

LEMMA WallClockKeeps == ASSUME ReplyInv, WallClock PROVE ReplyInv'
<1>1. /\ replyPhase \in {"calling", "waiting"} /\ replyPhase' = "refused"
      /\ UNCHANGED <<steps, request, saw, parts, blanks, stream, result, answer, aside>>
  BY DEF WallClock
<1>2. /\ stream \in Segments
      /\ stream.text => stream.open
      /\ request.repeats = 0 => "an earlier call" \notin stream.said
      /\ saw \in [Flags -> BOOLEAN] /\ aside \in BOOLEAN
  BY DEF ReplyInv, ReplyTyped, TextIsOpen, CallsKnowText
<1> QED BY <1>1, <1>2, CallEnds

LEMMA MalformedCallsKeeps == ASSUME ReplyInv, MalformedCalls PROVE ReplyInv'
<1>1. /\ replyPhase = "calling" /\ request.repeats # 2 /\ aside' = (aside \/ saw["context"])
      /\ saw' = Unseen({"wrapper", "base"}) /\ stream' = NextCall(stream)
      /\ UNCHANGED <<replyPhase, steps, parts, blanks, result, answer>>
  BY DEF MalformedCalls, Answers, Plain
<1>2. ReplyTyped /\ CallFacts
  BY <1>1, CallKnows
<1>3. aside' \in BOOLEAN /\ (aside' \/ (~aside /\ ~saw["context"]))
  BY <1>1, Zenon
<1>4. request' \in RequestRecords /\ request'.texts = 0 /\ request'.repeats # 0
  <2>1. PICK p \in FirstProviders :
           request' = [Asking(1, p, "none", FALSE) EXCEPT !.repeats = @ + 1]
    BY DEF MalformedCalls
  <2>2. request' = [attempt |-> 1, provider |-> p, failed |-> "none", bare |-> FALSE,
                    texts |-> 0, repeats |-> request.repeats + 1]
    BY <2>1 DEF Asking
  <2>3. request.repeats + 1 \in 1 .. 2
    <3>1. request.repeats \in 0 .. 2
      BY <1>2 DEF CallFacts, RequestRecords
    <3> QED BY <1>1, <3>1
  <2>4. 0 \in 0 .. MaxTexts /\ p \in 0 .. Nobody /\ 1 \in 0 .. Retries + 1
    BY ProvidersAreNumbers, ReplyBoundsAssumption
  <2> QED BY <2>2, <2>3, <2>4 DEF RequestRecords
<1>5. /\ saw' \in [Flags -> BOOLEAN]
      /\ saw'["context"] = saw["context"] /\ saw'["segment"] = saw["segment"]
  BY <1>1, <1>2, UnseenFlags
<1>6. /\ stream' \in Segments /\ stream'.open = stream.open /\ stream'.text = stream.text
      /\ "this call" \notin stream'.said
  BY <1>1, <1>2, NextCallValues DEF CallFacts
<1> QED BY <1>1, <1>2, <1>3, <1>4, <1>5, <1>6, CallsAgain DEF CallFacts

LEMMA ToolCallsKeeps == ASSUME ReplyInv, ToolCalls PROVE ReplyInv'
<1>1. /\ replyPhase = "calling" /\ replyPhase' = "tools" /\ stream' = NewSegment /\ saw' = TrackedEnd
      /\ UNCHANGED <<steps, request, parts, blanks, result, answer, aside>>
  BY SegmentValues DEF ToolCalls, Answers, EndSegment, ReplyInv
<1>2. /\ saw' \in [Flags -> BOOLEAN] /\ ~saw'["segment"]
      /\ stream' \in Segments /\ ~stream'.text /\ stream'.said = {}
  BY <1>1, EndFlags, SegmentValues DEF ReplyInv
<1>3. ReplyTyped' /\ ReplyCounted'
  BY <1>1, <1>2 DEF ReplyInv, ReplyTyped, ReplyPhases, ReplyCounted
<1>4. TextIsOpen' /\ CallsKnowText' /\ FlagsAgree'
  BY <1>1, <1>2 DEF TextIsOpen, CallsKnowText, FlagsAgree
<1> QED BY <1>1, <1>3, <1>4, GoesOn DEF ReplyInv

LEMMA BlankResponseKeeps == ASSUME ReplyInv, BlankResponse PROVE ReplyInv'
<1>1. /\ replyPhase = "calling" /\ blanks' = blanks + 1 /\ replyPhase' \in {"ready", "finalizing"}
      /\ stream' = NewSegment /\ saw' = TrackedEnd /\ aside' = (aside \/ saw["context"])
      /\ UNCHANGED <<steps, request, parts, result, answer>>
  BY SegmentValues DEF BlankResponse, Answers, EndSegment, ReplyInv
<1>2. /\ saw' \in [Flags -> BOOLEAN] /\ ~saw'["segment"] /\ saw'["context"] = saw["context"]
      /\ stream' \in Segments /\ ~stream'.text /\ stream'.said = {}
  BY <1>1, EndFlags, SegmentValues DEF ReplyInv
<1>3. aside' \in BOOLEAN /\ (aside' \/ ~saw["context"])
  BY <1>1, Zenon
<1>4. ReplyTyped'
  BY <1>1, <1>2, <1>3 DEF ReplyInv, ReplyTyped, ReplyPhases
<1>5. ReplyCounted'
  BY <1>1, ReplyBoundsAssumption DEF ReplyInv, ReplyCounted
<1>6. TextIsOpen' /\ CallsKnowText' /\ FlagsAgree'
  BY <1>1, <1>2, <1>3 DEF TextIsOpen, CallsKnowText, FlagsAgree
<1> QED BY <1>1, <1>4, <1>5, <1>6, GoesOn DEF ReplyInv

LEMMA PartAppended ==
    ASSUME ReplyTyped, NEW part \in {"said", "quiet"}
    PROVE  /\ Append(parts, part) \in Seq({"said", "quiet"})
           /\ Len(Append(parts, part)) = Len(parts) + 1 /\ Append(parts, part) # <<>>
           /\ Append(parts, part)[Len(parts) + 1] = part
           /\ Len(parts) \in Nat /\ (parts = <<>> <=> Len(parts) = 0)
<1>1. parts \in Seq({"said", "quiet"})
  BY DEF ReplyTyped
<1>2. /\ Append(parts, part) \in Seq({"said", "quiet"})
      /\ Len(Append(parts, part)) = Len(parts) + 1
      /\ Append(parts, part)[Len(parts) + 1] = part
  BY <1>1, AppendProperties
<1>3. Len(parts) \in Nat /\ (parts = <<>> <=> Len(parts) = 0)
  BY <1>1, EmptySeq, LenProperties
<1> QED BY <1>2, <1>3

LEMMA ContinueCutKeeps ==
    ASSUME ReplyInv, replyPhase \in {"calling", "finalizing"}, NEW part \in {"said", "quiet"},
           ContinueCut(part)
    PROVE  ReplyInv'
<1>1. /\ Len(parts) < MaxParts /\ parts' = Append(parts, part) /\ replyPhase' = "ready"
      /\ stream' = Ended(TRUE) /\ saw' = TrackedEnd
      /\ UNCHANGED <<steps, request, blanks, result, answer, aside>>
  BY DEF ContinueCut, EndSegment
<1>2. /\ ReplyTyped
      /\ stream.text => stream.open
      /\ request.repeats = 0 => "an earlier call" \notin stream.said
  BY DEF ReplyInv, TextIsOpen, CallsKnowText
<1>3. /\ saw' \in [Flags -> BOOLEAN] /\ ~saw'["segment"]
      /\ stream' \in Segments /\ stream'.open /\ stream'.said = stream.said
  BY <1>1, <1>2, EndFlags, SegmentValues
<1>4. parts' \in Seq({"said", "quiet"}) /\ Len(parts') <= MaxParts
  <2>1. /\ Append(parts, part) \in Seq({"said", "quiet"})
        /\ Len(Append(parts, part)) = Len(parts) + 1 /\ Len(parts) \in Nat
    BY <1>2, PartAppended
  <2>2. parts' \in Seq({"said", "quiet"}) /\ Len(parts') = Len(parts) + 1
    BY <1>1, <2>1
  <2> QED BY <1>1, <2>1, <2>2, ReplyBoundsAssumption
<1>5. ReplyTyped' /\ ReplyCounted'
  BY <1>1, <1>3, <1>4 DEF ReplyInv, ReplyTyped, ReplyPhases, ReplyCounted
<1>6. TextIsOpen' /\ CallsKnowText' /\ FlagsAgree'
  BY <1>1, <1>2, <1>3 DEF TextIsOpen, CallsKnowText, FlagsAgree
<1> QED BY <1>1, <1>5, <1>6, GoesOn DEF ReplyInv

LEMMA FinalResponseKeeps ==
    ASSUME ReplyInv, replyPhase \in {"calling", "finalizing"}, NEW part \in {"said", "quiet"},
           FinalResponse(part), ~aside => (part = "said" <=> saw["segment"]),
           ~aside /\ part = "quiet" => ~saw["context"]
    PROVE  ReplyInv'
<1>1. /\ replyPhase' = "answered" /\ result' = "answer"
      /\ UNCHANGED <<steps, request, parts, blanks, aside>>
  BY DEF FinalResponse
<1>2. /\ ReplyTyped
      /\ request.repeats = 0 => "an earlier call" \notin stream.said
  BY DEF ReplyInv, CallsKnowText
<1>3. PICK p \in {"said", "quiet"} :
         /\ answer' = Append(parts, p)
         /\ saw' \in [Flags -> BOOLEAN] /\ stream' \in Segments
         /\ stream'.text => stream'.open
         /\ request.repeats = 0 => "an earlier call" \notin stream'.said
         /\ ~aside /\ saw'["segment"] => p = "said"
         /\ ~aside /\ ~saw'["segment"] => p = "quiet" /\ parts = <<>>
  <2>1. CASE LacksTail
    <3>1. PublishText /\ saw' = Seen({"context", "segment"}) /\ answer' = Append(parts, "said")
      BY <2>1 DEF FinalResponse
    <3>2. stream' \in Segments /\ stream'.open /\ stream'.said = stream.said \cup {"this call"}
      BY <1>2, <3>1 DEF PublishText, ReplyTyped, Segments
    <3>3. saw' \in [Flags -> BOOLEAN] /\ saw'["segment"]
      <4> DEFINE S == {"context", "segment"}
      <4>1. S \in SUBSET Flags /\ "segment" \in S /\ saw' = Seen(S)
        BY <3>1 DEF Flags
      <4> HIDE DEF S
      <4> QED BY <1>2, <4>1, FlagValues
    <3> QED BY <1>2, <3>1, <3>2, <3>3
  <2>2. CASE ~LacksTail
    <3>1. UNCHANGED <<stream, saw>> /\ answer' = Append(parts, part)
      BY <2>2 DEF FinalResponse
    <3>2. saw' \in [Flags -> BOOLEAN] /\ stream' \in Segments /\ (stream'.text => stream'.open)
      BY <3>1 DEF ReplyInv, ReplyTyped, TextIsOpen
    <3>3. saw["context"] \/ parts = <<>>
      BY <2>2 DEF LacksTail
    <3> QED BY <1>2, <3>1, <3>2, <3>3
  <2> QED BY <2>1, <2>2
<1>4. /\ answer' \in Seq({"said", "quiet"}) /\ Len(answer') = Len(parts) + 1 /\ answer' # <<>>
      /\ answer'[Len(answer')] = p /\ Len(answer') <= MaxParts + 1
      /\ parts = <<>> => Len(answer') = 1
  <2>1. /\ Append(parts, p) \in Seq({"said", "quiet"}) /\ Append(parts, p) # <<>>
        /\ Len(Append(parts, p)) = Len(parts) + 1 /\ Append(parts, p)[Len(parts) + 1] = p
        /\ Len(parts) \in Nat /\ (parts = <<>> <=> Len(parts) = 0)
    BY <1>2, PartAppended
  <2>2. /\ answer' \in Seq({"said", "quiet"}) /\ answer' # <<>>
        /\ Len(answer') = Len(parts) + 1 /\ answer'[Len(parts) + 1] = p
    BY <1>3, <2>1
  <2>3. Len(parts) <= MaxParts
    BY <1>2 DEF ReplyTyped
  <2> QED BY <2>1, <2>2, <2>3, ReplyBoundsAssumption
<1>5. ReplyTyped' /\ ReplyCounted'
  BY <1>1, <1>3, <1>4 DEF ReplyInv, ReplyTyped, ReplyPhases, ReplyCounted, Results
<1>6. TextIsOpen' /\ CallsKnowText' /\ FlagsAgree'
  BY <1>1, <1>3 DEF TextIsOpen, CallsKnowText, FlagsAgree
<1>7. AnswerIsKnown'
  <2>1. ~aside /\ ~saw'["segment"] => Len(answer') = 1 /\ answer'[1] = "quiet"
    BY <1>3, <1>4
  <2>2. ~aside /\ saw'["segment"] => answer'[Len(answer')] = "said"
    BY <1>3, <1>4
  <2> QED BY <1>1, <1>4, <2>1, <2>2 DEF AnswerIsKnown
<1>8. AnswerShownOnce' /\ StreamsClosed'
  BY <1>1 DEF AnswerShownOnce, StreamsClosed
<1> QED BY <1>5, <1>6, <1>7, <1>8 DEF ReplyInv

LEMMA NoAnswerKeeps ==
    ASSUME ReplyInv, replyPhase \in {"calling", "finalizing", "refused"},
           NEW kind \in {"error", "empty"}, NoAnswer(kind)
    PROVE  ReplyInv'
<1>1. /\ replyPhase' = "answered" /\ result' = kind /\ answer' = <<>>
      /\ UNCHANGED <<steps, request, saw, parts, blanks, stream, aside>>
  BY DEF NoAnswer
<1>2. answer' \in Seq({"said", "quiet"}) /\ Len(answer') <= MaxParts + 1
  BY <1>1, ReplyBoundsAssumption
<1>3. ReplyTyped' /\ ReplyCounted'
  BY <1>1, <1>2 DEF ReplyInv, ReplyTyped, ReplyPhases, ReplyCounted, Results
<1>4. TextIsOpen' /\ CallsKnowText' /\ FlagsAgree'
  BY <1>1 DEF ReplyInv, TextIsOpen, CallsKnowText, FlagsAgree
<1>5. AnswerIsKnown' /\ AnswerShownOnce' /\ StreamsClosed'
  BY <1>1 DEF AnswerIsKnown, AnswerShownOnce, StreamsClosed
<1> QED BY <1>3, <1>4, <1>5 DEF ReplyInv

LEMMA CutOrFinalKeeps == ASSUME ReplyInv, CutOrFinal PROVE ReplyInv'
<1>1. replyPhase = "calling" /\ Part \in {"said", "quiet"}
  BY DEF CutOrFinal, Answers, Part
<1>2. CASE ContinueCut(Part)
  BY <1>1, <1>2, ContinueCutKeeps
<1>3. CASE HasText /\ FinalResponse(Part)
  <2>1. ~aside => /\ saw["segment"] <=> "this call" \in stream.said
                  /\ saw["context"] => request.texts # 0
    BY <1>1 DEF ReplyInv, FlagsAgree
  <2>2. Part = "said" <=> "this call" \in stream.said
    BY DEF Part
  <2>3. ~aside /\ Part = "quiet" => ~saw["context"]
    BY <1>3, <2>1, <2>2 DEF HasText
  <2> QED BY <1>1, <1>3, <2>1, <2>2, <2>3, FinalResponseKeeps
<1>4. CASE NoAnswer("empty")
  BY <1>1, <1>4, NoAnswerKeeps
<1> QED BY <1>2, <1>3, <1>4 DEF CutOrFinal

LEMMA RefusedKeeps == ASSUME ReplyInv, Refused PROVE ReplyInv'
  BY NoAnswerKeeps DEF Refused

LEMMA FinalizedKeeps == ASSUME ReplyInv, Finalized PROVE ReplyInv'
<1>1. replyPhase = "finalizing"
  BY DEF Finalized
<1>2. CASE ContinueCut("quiet")
  BY <1>1, <1>2, ContinueCutKeeps
<1>3. CASE FinalResponse("quiet")
  <2>1. ~aside => ~saw["context"] /\ ~saw["segment"]
    BY <1>1 DEF ReplyInv, FlagsAgree
  <2> QED BY <1>1, <1>3, <2>1, FinalResponseKeeps
<1>4. ASSUME NEW kind \in {"error", "empty"}, NoAnswer(kind) PROVE ReplyInv'
  BY <1>1, <1>4, NoAnswerKeeps
<1> QED BY <1>2, <1>3, <1>4 DEF Finalized

LEMMA InjectedKeeps == ASSUME ReplyInv, Injected PROVE ReplyInv'
<1>1. /\ replyPhase' = "ready" /\ parts' = <<>> /\ result' = "none" /\ answer' = <<>>
      /\ stream' = NewSegment /\ saw' = TrackedEnd /\ UNCHANGED <<steps, request, blanks, aside>>
  BY SegmentValues DEF Injected, EndSegment, ReplyInv
<1>2. /\ saw' \in [Flags -> BOOLEAN] /\ ~saw'["segment"]
      /\ stream' \in Segments /\ ~stream'.text /\ stream'.said = {}
  BY <1>1, EndFlags, SegmentValues DEF ReplyInv
<1>3. /\ parts' \in Seq({"said", "quiet"}) /\ Len(parts') <= MaxParts
      /\ answer' \in Seq({"said", "quiet"}) /\ Len(answer') <= MaxParts + 1
  BY <1>1, ReplyBoundsAssumption
<1>4. ReplyTyped' /\ ReplyCounted'
  BY <1>1, <1>2, <1>3 DEF ReplyInv, ReplyTyped, ReplyPhases, ReplyCounted, Results
<1>5. TextIsOpen' /\ CallsKnowText' /\ FlagsAgree'
  BY <1>1, <1>2 DEF TextIsOpen, CallsKnowText, FlagsAgree
<1> QED BY <1>1, <1>4, <1>5, GoesOn DEF ReplyInv

LEMMA FinishReplyKeeps == ASSUME ReplyInv, FinishReply PROVE ReplyInv'
<1>1. /\ replyPhase = "answered" /\ replyPhase' = "done" /\ stream' = NewSegment
      /\ saw' = TrackedEnd /\ result' = Response(result, TrackedEnd)
      /\ UNCHANGED <<steps, request, parts, blanks, answer, aside>>
  BY SegmentValues DEF FinishReply, EndSegment, ReplyInv
<1>2. /\ saw' \in [Flags -> BOOLEAN] /\ TrackedEnd["last"] = saw["segment"]
      /\ stream' \in Segments /\ ~stream'.text /\ stream'.said = {}
  BY <1>1, EndFlags, SegmentValues DEF ReplyInv
<1>3. /\ result # "error" /\ saw["segment"] => result' = "streamed"
      /\ result = "error" \/ ~saw["segment"] => result' = result
  BY <1>1, <1>2 DEF Response
<1>4. result' \in {"streamed", result}
  BY <1>1 DEF Response
<1>5. ReplyTyped' /\ ReplyCounted'
  BY <1>1, <1>2, <1>4 DEF ReplyInv, ReplyTyped, ReplyPhases, ReplyCounted, Results, Over
<1>6. TextIsOpen' /\ CallsKnowText' /\ FlagsAgree'
  BY <1>1, <1>2 DEF TextIsOpen, CallsKnowText, FlagsAgree
<1>7. AnswerShownOnce'
  <2> SUFFICES ASSUME answer # <<>>, ~aside,
                      \A i \in 1 .. Len(answer) - 1 : answer[i] = "said"
               PROVE  /\ result' = "streamed" => \A i \in DOMAIN answer : answer[i] = "said"
                      /\ result' = "answer" => \A i \in DOMAIN answer : answer[i] = "quiet"
    BY <1>1 DEF AnswerShownOnce
  <2>1. result = "answer"
    BY <1>1 DEF ReplyInv, AnswerIsKnown
  <2>2. DOMAIN answer = 1 .. Len(answer) /\ Len(answer) \in Nat
    BY DEF ReplyInv, ReplyTyped
  <2>3. CASE saw["segment"]
    <3>1. answer[Len(answer)] = "said" /\ result' = "streamed"
      BY <1>1, <1>3, <2>1, <2>3 DEF ReplyInv, AnswerIsKnown
    <3> QED BY <2>2, <3>1
  <2>4. CASE ~saw["segment"]
    <3>1. Len(answer) = 1 /\ answer[1] = "quiet" /\ result' = "answer"
      BY <1>1, <1>3, <2>1, <2>4 DEF ReplyInv, AnswerIsKnown
    <3> QED BY <2>2, <3>1
  <2> QED BY <2>3, <2>4
<1>8. AnswerIsKnown' /\ StreamsClosed'
  BY <1>1, <1>2 DEF AnswerIsKnown, StreamsClosed
<1> QED BY <1>5, <1>6, <1>7, <1>8 DEF ReplyInv

LEMMA ToolsEndKeeps == ASSUME ReplyInv, ToolsEnd PROVE ReplyInv'
<1>1. /\ replyPhase = "tools" /\ parts' = <<>> /\ blanks' \in {0, blanks}
      /\ \/ replyPhase' = "ready" /\ UNCHANGED result
         \/ replyPhase' = "done" /\ result' = "error"
      /\ UNCHANGED <<steps, request, saw, stream, answer, aside>>
  BY DEF ToolsEnd
<1>2. parts' \in Seq({"said", "quiet"}) /\ Len(parts') <= MaxParts
  BY <1>1, ReplyBoundsAssumption
<1>3. ~stream.text /\ ~saw["segment"]
  BY <1>1 DEF ReplyInv, TextIsOpen
<1>4. ReplyTyped' /\ ReplyCounted'
  BY <1>1, <1>2 DEF ReplyInv, ReplyTyped, ReplyPhases, ReplyCounted, Results, Over
<1>5. TextIsOpen' /\ CallsKnowText' /\ FlagsAgree'
  BY <1>1, <1>3 DEF ReplyInv, TextIsOpen, CallsKnowText, FlagsAgree
<1>6. AnswerIsKnown' /\ AnswerShownOnce' /\ StreamsClosed'
  BY <1>1, <1>3 DEF AnswerIsKnown, AnswerShownOnce, StreamsClosed
<1> QED BY <1>4, <1>5, <1>6 DEF ReplyInv

LEMMA OutOfStepsKeeps == ASSUME ReplyInv, OutOfSteps PROVE ReplyInv'
<1>1. replyPhase = "ready" /\ replyPhase' = "done" /\ UNCHANGED <<steps, request, parts, blanks, aside>>
  BY DEF OutOfSteps
<1>2. CASE result' = "continued" /\ UNCHANGED <<saw, stream, answer>>
  <2>1. ReplyTyped' /\ ReplyCounted'
    BY <1>1, <1>2 DEF ReplyInv, ReplyTyped, ReplyPhases, ReplyCounted, Results, Over
  <2>2. TextIsOpen' /\ CallsKnowText' /\ FlagsAgree'
    BY <1>1, <1>2 DEF ReplyInv, TextIsOpen, CallsKnowText, FlagsAgree
  <2>3. AnswerIsKnown' /\ AnswerShownOnce' /\ StreamsClosed'
    BY <1>1, <1>2 DEF AnswerIsKnown, AnswerShownOnce, StreamsClosed
  <2> QED BY <2>1, <2>2, <2>3 DEF ReplyInv
<1>3. CASE /\ stream' = Ended(FALSE)
           /\ saw' = [saw EXCEPT !["segment"] = FALSE, !["last"] = TRUE]
           /\ result' = Response("answer", saw') /\ answer' = Append(parts, "said")
  <2>1. /\ saw' \in [Flags -> BOOLEAN] /\ saw'["last"]
    BY <1>3 DEF ReplyInv, ReplyTyped, Flags
  <2>2. result' = "streamed"
    BY <1>3, <2>1 DEF Response
  <2>3. stream' \in Segments /\ ~stream'.text /\ stream'.said = {}
    BY <1>3, SegmentValues DEF ReplyInv
  <2>4. /\ answer' \in Seq({"said", "quiet"}) /\ Len(answer') = Len(parts) + 1
        /\ answer'[Len(parts) + 1] = "said" /\ Len(parts) \in Nat
    BY <1>3, PartAppended DEF ReplyInv
  <2>5. Len(answer') <= MaxParts + 1
    BY <2>4, ReplyBoundsAssumption DEF ReplyInv, ReplyTyped
  <2>6. ReplyTyped' /\ ReplyCounted'
    BY <1>1, <2>1, <2>2, <2>3, <2>4, <2>5
       DEF ReplyInv, ReplyTyped, ReplyPhases, ReplyCounted, Results, Over
  <2>7. TextIsOpen' /\ CallsKnowText' /\ FlagsAgree'
    BY <1>1, <2>3 DEF TextIsOpen, CallsKnowText, FlagsAgree
  <2>8. AnswerShownOnce'
    <3> SUFFICES ASSUME \A i \in 1 .. Len(answer') - 1 : answer'[i] = "said"
                 PROVE  \A i \in DOMAIN answer' : answer'[i] = "said"
      BY <2>2 DEF AnswerShownOnce
    <3> QED BY <2>4
  <2>9. AnswerIsKnown' /\ StreamsClosed'
    BY <1>1, <2>3 DEF AnswerIsKnown, StreamsClosed
  <2> QED BY <2>6, <2>7, <2>8, <2>9 DEF ReplyInv
<1> QED BY <1>2, <1>3 DEF OutOfSteps

LEMMA StopTurnKeeps == ASSUME ReplyInv, StopTurn PROVE ReplyInv'
<1>1. /\ replyPhase' = "cancelled" /\ stream' = IF stream.open THEN Ended(FALSE) ELSE stream
      /\ UNCHANGED <<steps, request, saw, parts, blanks, result, answer, aside>>
  BY DEF StopTurn
<1>2. ReplyTyped /\ (stream.text => stream.open)
  BY DEF ReplyInv, TextIsOpen
<1>3. /\ stream' \in Segments /\ ~stream'.text
      /\ stream'.said \subseteq stream.said
  BY <1>1, <1>2, SegmentValues DEF ReplyTyped
<1>4. ReplyTyped' /\ ReplyCounted'
  BY <1>1, <1>3 DEF ReplyInv, ReplyTyped, ReplyPhases, ReplyCounted, Over
<1>5. TextIsOpen' /\ CallsKnowText' /\ FlagsAgree'
  BY <1>1, <1>3 DEF ReplyInv, TextIsOpen, CallsKnowText, FlagsAgree
<1>6. AnswerIsKnown' /\ AnswerShownOnce' /\ StreamsClosed'
  BY <1>1, <1>3 DEF AnswerIsKnown, AnswerShownOnce, StreamsClosed
<1> QED BY <1>4, <1>5, <1>6 DEF ReplyInv

LEMMA ReplyRaisesKeeps == ASSUME ReplyInv, ReplyRaises PROVE ReplyInv'
<1>1. /\ replyPhase' = "raised"
      /\ UNCHANGED <<steps, request, saw, parts, blanks, stream, result, answer, aside>>
  BY DEF ReplyRaises
<1>2. ReplyTyped' /\ ReplyCounted'
  BY <1>1 DEF ReplyInv, ReplyTyped, ReplyPhases, ReplyCounted, Over
<1>3. TextIsOpen' /\ CallsKnowText' /\ FlagsAgree'
  BY <1>1 DEF ReplyInv, TextIsOpen, CallsKnowText, FlagsAgree
<1> QED BY <1>1, <1>2, <1>3, GoesOn DEF ReplyInv

LEMMA ReplyStep == ReplyInv /\ [ReplyNext]_replyVars => ReplyInv'
<1> SUFFICES ASSUME ReplyInv, [ReplyNext]_replyVars PROVE ReplyInv'
  OBVIOUS
<1>1. CASE UNCHANGED replyVars
  <2>1. UNCHANGED <<replyPhase, steps, request, saw, parts, blanks, stream, result, answer, aside>>
    BY <1>1 DEF replyVars
  <2>2. ReplyTyped' /\ ReplyCounted'
    BY <2>1 DEF ReplyInv, ReplyTyped, ReplyCounted
  <2>3. TextIsOpen' /\ CallsKnowText' /\ FlagsAgree'
    BY <2>1 DEF ReplyInv, TextIsOpen, CallsKnowText, FlagsAgree
  <2>4. AnswerIsKnown' /\ AnswerShownOnce' /\ StreamsClosed'
    BY <2>1 DEF ReplyInv, AnswerIsKnown, AnswerShownOnce, StreamsClosed
  <2> QED BY <2>2, <2>3, <2>4 DEF ReplyInv
<1>2. CASE ReplyNext
  BY <1>2, AskKeeps, StreamDeltaKeeps, CallFailsKeeps, NoProviderLeftKeeps, AskAgainKeeps,
     WallClockKeeps, MalformedCallsKeeps, ToolCallsKeeps, BlankResponseKeeps, CutOrFinalKeeps,
     RefusedKeeps, FinalizedKeeps, InjectedKeeps, FinishReplyKeeps, ToolsEndKeeps, OutOfStepsKeeps,
     StopTurnKeeps, ReplyRaisesKeeps DEF ReplyNext
<1> QED BY <1>1, <1>2

\* The inductive invariant of a turn's reply holds in every state.
THEOREM ReplyInvariant == ReplySpec => []ReplyInv
  BY ReplyStart, ReplyStep, PTL DEF ReplySpec

-----------------------------------------------------------------------------
(* Replies: the theorems *)

LEMMA ReplyTypes == ReplyInv => ReplyTypeOK
<1> SUFFICES ASSUME ReplyInv PROVE ReplyTypeOK
  OBVIOUS
<1>1. /\ request.attempt \in 0 .. (Retries + 1) /\ request.provider \in 0 .. Nobody
      /\ request.failed \in Errors \cup {"none"} /\ request.texts \in 0 .. MaxTexts
  BY DEF ReplyInv, ReplyTyped, RequestRecords
<1>2. /\ stream.open \in BOOLEAN /\ stream.text \in BOOLEAN
      /\ stream.said \subseteq {"this call", "an earlier call"}
  BY DEF ReplyInv, ReplyTyped, Segments
<1>3. steps \in 0 .. MaxAsks /\ blanks \in 0 .. (MaxAsks + 1)
  BY ReplyBoundsAssumption DEF ReplyInv, ReplyCounted
<1> QED BY <1>1, <1>2, <1>3 DEF ReplyInv, ReplyTyped, ReplyTypeOK, ReplyPhases, Results

\* Every variable of a turn's reply keeps its type: no request asks past the last
\* fallback or attempt, and no answer has more parts than may be recovered.
THEOREM ReplyTypeCorrect == ReplySpec => []ReplyTypeOK
  BY ReplyTypes, ReplyInvariant, PTL

\* However often a request is retried or fails over, no segment that is shown holds
\* the text of two provider calls (_recover_stream, has_streamed).
THEOREM SegmentsStayWhole == ReplySpec => []SegmentsHoldOneAttempt
<1>1. ReplyInv => SegmentsHoldOneAttempt
  <2> SUFFICES ASSUME ReplyInv, request.repeats = 0 PROVE Cardinality(stream.said) <= 1
    BY DEF SegmentsHoldOneAttempt
  <2>1. stream.said = {} \/ stream.said = {"this call"}
    <3>1. stream.said \subseteq {"this call", "an earlier call"}
      BY DEF ReplyInv, ReplyTyped, Segments
    <3> QED BY <3>1 DEF ReplyInv, CallsKnowText
  <2>2. CASE stream.said = {}
    <3>1. Cardinality(stream.said) = 0
      BY <2>2, FS_EmptySet
    <3> QED BY <3>1
  <2>3. CASE stream.said = {"this call"}
    <3>1. Cardinality(stream.said) = 1
      BY <2>3, FS_Singleton
    <3> QED BY <3>1
  <2> QED BY <2>1, <2>2, <2>3
<1> QED BY <1>1, ReplyInvariant, PTL

\* A turn whose last segment was shown answers with the marker, any other with the
\* text, and no part of an answer is shown twice or never (_TurnStream, _finish_turn).
THEOREM AnswersAreShownOnce == ReplySpec => []AnswerShownOnce
<1>1. ReplyInv => AnswerShownOnce
  BY DEF ReplyInv
<1> QED BY <1>1, ReplyInvariant, PTL

\* No segment with text is left open when a turn is over, whatever broke it off.
THEOREM StreamsAreClosed == ReplySpec => []StreamsClosed
<1>1. ReplyInv => StreamsClosed
  BY DEF ReplyInv
<1> QED BY <1>1, ReplyInvariant, PTL
-----------------------------------------------------------------------------
(* Delivery: the inductive invariant *)

Kinds == {"delta", "end", "endText", "reply", "echo", "hidden"}
Receivers == Streams \cup Sources \cup {NoText}
Mail ==
    {m \in [nr : 1 .. MaxOutbound, kind : Kinds, of : Receivers, text : Texts \cup {NoText}] :
        [kind |-> m.kind, of |-> m.of, text |-> m.text] \in Contents}

\* Messages that follow each other on the bus, the first of them after number `after'.
InRow(messages, after) == \A i \in 1 .. Len(messages) : messages[i].nr = after + i

\* How many messages are owed: what is being sent, put back and still on the bus.
Backlog == Len(sending) + Len(putBack) + Len(outbound)

DeliveryTyped ==
    /\ published \in 0 .. MaxOutbound /\ attempt \in 0 .. MaxSends
    /\ sending \in Seq(Mail) /\ putBack \in Seq(Mail) /\ outbound \in Seq(Mail)
    /\ Len(putBack) <= 1 /\ Backlog <= published
    /\ replied \in [Sources -> Texts \cup {NoText}]
    /\ shown \in Seq(Seq(Nat)) /\ \A i \in 1 .. Len(shown) : shown[i] # <<>>

\* The three places together hold the tail of what was published.
TailIsOwed ==
    /\ InRow(outbound, published - Len(outbound))
    /\ InRow(putBack, published - Len(outbound) - Len(putBack))
    /\ InRow(sending, published - Backlog)

\* What was shown is older than what is owed, but for the send that is retried.
ShownBefore ==
    \A i \in 1 .. Len(shown) :
        \/ shown[i][Len(shown[i])] <= published - Backlog
        \/ sending # <<>> /\ shown[i] = Numbers(sending)

ShownInOrder ==
    \A i, j \in 1 .. Len(shown) :
        i < j => shown[i] = shown[j] \/ shown[i][Len(shown[i])] < shown[j][1]

DeliveryInv == DeliveryTyped /\ TailIsOwed /\ ShownBefore /\ ShownInOrder

-----------------------------------------------------------------------------
(* Delivery: messages in a row *)

LEMMA RowOfNone == ASSUME NEW a PROVE InRow(<<>>, a) /\ <<>> \in Seq(Mail) /\ Len(<<>>) = 0
BY DEF InRow

LEMMA RowOfOne ==
    ASSUME NEW m \in Mail, NEW a \in Int, m.nr = a + 1
    PROVE  InRow(<<m>>, a) /\ <<m>> \in Seq(Mail) /\ Len(<<m>>) = 1
BY DEF InRow

LEMMA RowTail ==
    ASSUME NEW s \in Seq(Mail), s # <<>>, NEW a \in Int, InRow(s, a)
    PROVE  /\ Head(s) \in Mail /\ Head(s).nr = a + 1
           /\ Tail(s) \in Seq(Mail) /\ Len(Tail(s)) = Len(s) - 1 /\ InRow(Tail(s), a + 1)
<1>1. /\ Head(s) \in Mail /\ Tail(s) \in Seq(Mail) /\ Len(Tail(s)) = Len(s) - 1
      /\ \A i \in 1 .. Len(Tail(s)) : Tail(s)[i] = s[i + 1]
  BY HeadTailProperties
<1>2. Len(s) \in Nat \ {0} /\ Head(s) = s[1]
  BY EmptySeq
<1>3. s[1].nr = a + 1
  BY <1>2 DEF InRow
<1>4. ASSUME NEW i \in 1 .. Len(Tail(s)) PROVE Tail(s)[i].nr = a + 1 + i
  <2>1. i + 1 \in 1 .. Len(s)
    BY <1>1, <1>2
  <2>2. s[i + 1].nr = a + (i + 1)
    BY <2>1 DEF InRow
  <2> QED BY <1>1, <2>2
<1> QED BY <1>1, <1>2, <1>3, <1>4 DEF InRow

LEMMA RowAppend ==
    ASSUME NEW s \in Seq(Mail), NEW m \in Mail, NEW a \in Int, InRow(s, a), m.nr = a + Len(s) + 1
    PROVE  /\ Append(s, m) \in Seq(Mail) /\ Len(Append(s, m)) = Len(s) + 1
           /\ InRow(Append(s, m), a)
<1>1. /\ Append(s, m) \in Seq(Mail) /\ Len(Append(s, m)) = Len(s) + 1
      /\ \A i \in 1 .. Len(s) : Append(s, m)[i] = s[i]
      /\ Append(s, m)[Len(s) + 1] = m
  BY AppendProperties
<1>2. Len(s) \in Nat
  BY LenProperties
<1>3. ASSUME NEW i \in 1 .. Len(s) + 1 PROVE Append(s, m)[i].nr = a + i
  <2>1. CASE i \in 1 .. Len(s)
    BY <1>1, <2>1 DEF InRow
  <2>2. CASE i = Len(s) + 1
    BY <1>1, <1>2, <2>2
  <2> QED BY <1>2, <2>1, <2>2
<1> QED BY <1>1, <1>3 DEF InRow

LEMMA RowConcat ==
    ASSUME NEW s \in Seq(Mail), NEW t \in Seq(Mail), NEW a \in Int,
           InRow(s, a), InRow(t, a + Len(s))
    PROVE  s \o t \in Seq(Mail) /\ Len(s \o t) = Len(s) + Len(t) /\ InRow(s \o t, a)
<1>1. /\ s \o t \in Seq(Mail) /\ Len(s \o t) = Len(s) + Len(t)
      /\ \A i \in 1 .. Len(s) + Len(t) :
            (s \o t)[i] = IF i <= Len(s) THEN s[i] ELSE t[i - Len(s)]
  BY ConcatProperties
<1>2. Len(s) \in Nat /\ Len(t) \in Nat
  BY LenProperties
<1>3. ASSUME NEW i \in 1 .. Len(s) + Len(t) PROVE (s \o t)[i].nr = a + i
  <2>1. CASE i <= Len(s)
    BY <1>1, <1>2, <2>1 DEF InRow
  <2>2. CASE ~ (i <= Len(s))
    <3>1. i - Len(s) \in 1 .. Len(t)
      BY <1>2, <2>2
    <3>2. t[i - Len(s)].nr = a + Len(s) + (i - Len(s))
      BY <3>1 DEF InRow
    <3> QED BY <1>1, <1>2, <2>2, <3>2
  <2> QED BY <2>1, <2>2
<1> QED BY <1>1, <1>3 DEF InRow

LEMMA RowCut ==
    ASSUME NEW s \in Seq(Mail), NEW a \in Int, InRow(s, a), NEW n \in 0 .. Len(s)
    PROVE  /\ SubSeq(s, 1, n) \in Seq(Mail) /\ Len(SubSeq(s, 1, n)) = n
           /\ InRow(SubSeq(s, 1, n), a)
           /\ SubSeq(s, n + 1, Len(s)) \in Seq(Mail)
           /\ Len(SubSeq(s, n + 1, Len(s))) = Len(s) - n
           /\ InRow(SubSeq(s, n + 1, Len(s)), a + n)
<1>1. Len(s) \in Nat /\ \A i \in 1 .. Len(s) : s[i] \in Mail
  BY LenProperties, ElementOfSeq
<1>2. \A i \in 1 .. n : s[i] \in Mail
  BY <1>1
<1>3. \A i \in n + 1 .. Len(s) : s[i] \in Mail
  BY <1>1
<1>4. /\ SubSeq(s, 1, n) \in Seq(Mail)
      /\ Len(SubSeq(s, 1, n)) = IF 1 <= n THEN n - 1 + 1 ELSE 0
      /\ \A i \in 1 .. n - 1 + 1 : SubSeq(s, 1, n)[i] = s[1 + i - 1]
  BY <1>1, <1>2, SubSeqProperties
<1>5. /\ SubSeq(s, n + 1, Len(s)) \in Seq(Mail)
      /\ Len(SubSeq(s, n + 1, Len(s)))
            = IF n + 1 <= Len(s) THEN Len(s) - (n + 1) + 1 ELSE 0
      /\ \A i \in 1 .. Len(s) - (n + 1) + 1 : SubSeq(s, n + 1, Len(s))[i] = s[n + 1 + i - 1]
  <2>1. n + 1 \in Int /\ Len(s) \in Int
    BY <1>1
  <2> QED BY <2>1, <1>3, SubSeqProperties
<1>6. Len(SubSeq(s, 1, n)) = n /\ Len(SubSeq(s, n + 1, Len(s))) = Len(s) - n
  BY <1>1, <1>4, <1>5
<1>7. ASSUME NEW i \in 1 .. n PROVE SubSeq(s, 1, n)[i].nr = a + i
  <2>1. SubSeq(s, 1, n)[i] = s[i] /\ i \in 1 .. Len(s)
    BY <1>1, <1>4
  <2> QED BY <2>1 DEF InRow
<1>8. ASSUME NEW i \in 1 .. Len(s) - n PROVE SubSeq(s, n + 1, Len(s))[i].nr = a + n + i
  <2>1. SubSeq(s, n + 1, Len(s))[i] = s[n + i] /\ n + i \in 1 .. Len(s)
    BY <1>1, <1>5
  <2>2. s[n + i].nr = a + (n + i)
    BY <2>1 DEF InRow
  <2> QED BY <2>1, <2>2
<1> QED BY <1>4, <1>5, <1>6, <1>7, <1>8 DEF InRow

\* The message that does not join is put back before the rest.
LEMMA RowPutBack ==
    ASSUME NEW s \in Seq(Mail), NEW a \in Int, InRow(s, a)
    PROVE  LET rest == AfterJoining(s)
           IN  /\ rest.back \in Seq(Mail) /\ Len(rest.back) <= 1 /\ InRow(rest.back, a)
               /\ rest.bus \in Seq(Mail) /\ InRow(rest.bus, a + Len(rest.back))
               /\ Len(rest.back) + Len(rest.bus) = Len(s)
<1>1. CASE s = <<>>
  <2>1. AfterJoining(s).back = <<>> /\ AfterJoining(s).bus = <<>>
    BY <1>1 DEF AfterJoining
  <2>2. <<>> \in Seq(Mail) /\ Len(<<>>) = 0 /\ InRow(<<>>, a) /\ InRow(<<>>, a + Len(<<>>))
    BY RowOfNone
  <2>3. Len(AfterJoining(s).back) = 0 /\ Len(AfterJoining(s).bus) = 0 /\ Len(s) = 0
    BY <1>1, <2>1
  <2>4. InRow(AfterJoining(s).bus, a + Len(AfterJoining(s).back))
    BY <2>1, <2>3 DEF InRow
  <2>5. InRow(AfterJoining(s).back, a)
    BY <2>1, <2>2
  <2> QED BY <2>1, <2>2, <2>3, <2>4, <2>5
<1>2. CASE s # <<>>
  <2>1. AfterJoining(s).back = <<Head(s)>> /\ AfterJoining(s).bus = Tail(s)
    BY <1>2 DEF AfterJoining
  <2>2. /\ Head(s) \in Mail /\ Head(s).nr = a + 1
        /\ Tail(s) \in Seq(Mail) /\ Len(Tail(s)) = Len(s) - 1 /\ InRow(Tail(s), a + 1)
    BY <1>2, RowTail
  <2>3. InRow(<<Head(s)>>, a) /\ <<Head(s)>> \in Seq(Mail) /\ Len(<<Head(s)>>) = 1
    BY <2>2, RowOfOne
  <2>4. Len(s) \in Nat
    BY LenProperties
  <2> QED BY <2>1, <2>2, <2>3, <2>4
<1> QED BY <1>1, <1>2

LEMMA RowNumbers ==
    ASSUME NEW s \in Seq(Mail), s # <<>>, NEW a \in Int, InRow(s, a)
    PROVE  /\ Numbers(s) \in Seq(Nat) /\ Len(Numbers(s)) = Len(s) /\ Numbers(s) # <<>>
           /\ Numbers(s)[1] = a + 1 /\ Numbers(s)[Len(s)] = a + Len(s)
<1>1. Len(s) \in Nat \ {0} /\ DOMAIN s = 1 .. Len(s)
  BY EmptySeq, LenProperties
<1>2. \A i \in 1 .. Len(s) : s[i].nr \in Nat
  <2> SUFFICES ASSUME NEW i \in 1 .. Len(s) PROVE s[i].nr \in Nat
    OBVIOUS
  <2>1. s[i] \in Mail
    BY ElementOfSeq
  <2>2. s[i].nr \in 1 .. MaxOutbound
    BY <2>1 DEF Mail
  <2> QED BY <2>2
<1>3. Numbers(s) = [i \in 1 .. Len(s) |-> s[i].nr]
  BY <1>1 DEF Numbers
<1>4. Numbers(s) \in [1 .. Len(s) -> Nat]
  BY <1>2, <1>3
<1>5. Numbers(s) \in Seq(Nat)
  BY <1>1, <1>4
<1>6. Len(Numbers(s)) = Len(s)
  BY <1>1, <1>4, <1>5
<1>7. \A i \in 1 .. Len(s) : Numbers(s)[i] = a + i
  BY <1>3 DEF InRow
<1> QED BY <1>1, <1>5, <1>6, <1>7

\* Joining stops somewhere.
LEMMA JoiningEnds ==
    ASSUME NEW s \in Seq(Mail), NEW m
    PROVE  \E i \in 0 .. Len(s) :
               StopsAt(m, s, i) /\ \A j \in 0 .. (i - 1) : ~StopsAt(m, s, j)
<1> DEFINE T == {i \in 0 .. Len(s) : StopsAt(m, s, i)}
<1>1. Len(s) \in Nat
  BY LenProperties
<1>2. T \subseteq Nat /\ T # {}
  <2>1. Len(s) \in T
    BY <1>1 DEF StopsAt
  <2>2. T \subseteq Nat
    BY <1>1
  <2> QED BY <2>1, <2>2
<1> HIDE DEF T
<1>3. PICK n \in T : \A y \in T : ~ (<<y, n>> \in OpToRel(<, Nat))
  BY <1>2, WFMin, NatLessThanWellFounded
<1>4. \A y \in T : ~ (y < n)
  <2> SUFFICES ASSUME NEW y \in T, y < n PROVE FALSE
    OBVIOUS
  <2>1. y \in Nat /\ n \in Nat
    BY <1>2
  <2>2. <<y, n>> \in OpToRel(<, Nat)
    BY <2>1 DEF OpToRel
  <2> QED BY <1>3, <2>2
<1>5. n \in 0 .. Len(s) /\ StopsAt(m, s, n)
  BY <1>3 DEF T
<1>6. ASSUME NEW j \in 0 .. (n - 1) PROVE ~StopsAt(m, s, j)
  <2>1. j \in 0 .. Len(s) /\ j < n
    BY <1>1, <1>5
  <2>2. j \notin T
    BY <1>4, <2>1
  <2> QED BY <2>1, <2>2 DEF T
<1> QED BY <1>5, <1>6

-----------------------------------------------------------------------------
(* Delivery: the invariant is inductive *)

LEMMA DeliveryStart == OutboundInit => DeliveryInv
<1> SUFFICES ASSUME OutboundInit PROVE DeliveryInv
  OBVIOUS
<1>1. /\ published = 0 /\ attempt = 0 /\ sending = <<>> /\ putBack = <<>> /\ outbound = <<>>
      /\ shown = <<>> /\ replied \in [Sources -> Texts \cup {NoText}]
  BY DEF OutboundInit
<1>2. Len(sending) = 0 /\ Len(putBack) = 0 /\ Len(outbound) = 0 /\ Len(shown) = 0
  BY <1>1
<1>3. sending \in Seq(Mail) /\ putBack \in Seq(Mail) /\ outbound \in Seq(Mail)
      /\ shown \in Seq(Seq(Nat))
  BY <1>1
<1>4. DeliveryTyped
  BY <1>1, <1>2, <1>3, OutboundAssumption DEF DeliveryTyped, Backlog
<1>5. TailIsOwed /\ ShownBefore /\ ShownInOrder
  BY <1>2 DEF TailIsOwed, ShownBefore, ShownInOrder, InRow
<1> QED BY <1>4, <1>5 DEF DeliveryInv

\* What the invariant says of the lengths.
LEMMA Lengths ==
    ASSUME DeliveryTyped
    PROVE  /\ Len(sending) \in Nat /\ Len(putBack) \in 0 .. 1 /\ Len(outbound) \in Nat
           /\ Len(shown) \in Nat /\ published \in Nat /\ Backlog \in Nat /\ Backlog <= published
           /\ published <= MaxOutbound /\ MaxOutbound \in Nat
           /\ (sending = <<>> <=> Len(sending) = 0) /\ (putBack = <<>> <=> Len(putBack) = 0)
           /\ (outbound = <<>> <=> Len(outbound) = 0)
<1>1. /\ Len(sending) \in Nat /\ Len(putBack) \in Nat /\ Len(outbound) \in Nat
      /\ Len(shown) \in Nat
  BY LenProperties DEF DeliveryTyped
<1>2. /\ (sending = <<>> <=> Len(sending) = 0) /\ (putBack = <<>> <=> Len(putBack) = 0)
      /\ (outbound = <<>> <=> Len(outbound) = 0)
  BY EmptySeq DEF DeliveryTyped
<1>3. Len(putBack) <= 1 /\ Backlog <= published /\ published \in 0 .. MaxOutbound
  BY DEF DeliveryTyped
<1>4. Backlog \in Nat
  BY <1>1 DEF Backlog
<1> QED BY <1>1, <1>2, <1>3, <1>4, OutboundAssumption

LEMMA PublishKeeps == DeliveryInv /\ PublishOutbound => DeliveryInv'
<1> SUFFICES ASSUME DeliveryInv, PublishOutbound PROVE DeliveryInv'
  OBVIOUS
<1>1. PICK c \in Contents :
          outbound' = Append(outbound,
              [nr |-> published', kind |-> c.kind, of |-> c.of, text |-> c.text])
  BY DEF PublishOutbound
<1> DEFINE m == [nr |-> published', kind |-> c.kind, of |-> c.of, text |-> c.text]
<1>2. /\ published < MaxOutbound /\ published' = published + 1
      /\ UNCHANGED <<putBack, sending, attempt, replied, shown>>
  BY DEF PublishOutbound
<1>3. DeliveryTyped /\ TailIsOwed /\ ShownBefore /\ ShownInOrder
  BY DEF DeliveryInv
<1>4. /\ Len(sending) \in Nat /\ Len(putBack) \in 0 .. 1 /\ Len(outbound) \in Nat
      /\ published \in Nat /\ Backlog \in Nat /\ Backlog <= published
      /\ published <= MaxOutbound /\ MaxOutbound \in Nat
  BY <1>3, Lengths
<1>5. published' \in 1 .. MaxOutbound
  BY <1>2, <1>4
<1>6. m \in Mail
  <2>1. /\ c.kind \in Kinds /\ c.of \in Receivers /\ c.text \in Texts \cup {NoText}
        /\ [kind |-> c.kind, of |-> c.of, text |-> c.text] = c
    BY DEF Contents, Kinds, Receivers
  <2> QED BY <1>5, <2>1 DEF Mail
<1>7. m.nr = published + 1
  BY <1>2
<1> HIDE DEF m
<1>8. outbound \in Seq(Mail) /\ InRow(outbound, published - Len(outbound))
  BY <1>3 DEF DeliveryTyped, TailIsOwed
<1>9. /\ outbound' \in Seq(Mail) /\ Len(outbound') = Len(outbound) + 1
      /\ InRow(outbound', published - Len(outbound))
  <2>1. published - Len(outbound) \in Int /\ m.nr = (published - Len(outbound)) + Len(outbound) + 1
    BY <1>4, <1>7
  <2>2. outbound' = Append(outbound, m)
    BY <1>1 DEF m
  <2> QED BY <1>6, <1>8, <2>1, <2>2, RowAppend
<1>10. Backlog' = Backlog + 1
  BY <1>2, <1>4, <1>9 DEF Backlog
<1>11. DeliveryTyped'
  BY <1>2, <1>3, <1>4, <1>5, <1>9, <1>10, SMTT(30) DEF DeliveryTyped
<1>12. TailIsOwed'
  <2>1. /\ published' - Len(outbound') = published - Len(outbound)
        /\ published' - Len(outbound') - Len(putBack') = published - Len(outbound) - Len(putBack)
        /\ published' - Backlog' = published - Backlog
    BY <1>2, <1>4, <1>9, <1>10
  <2> QED BY <1>2, <1>3, <1>9, <2>1 DEF TailIsOwed
<1>13. ShownBefore'
  <2>1. published' - Backlog' = published - Backlog
    BY <1>2, <1>4, <1>10
  <2> QED BY <1>2, <1>3, <2>1 DEF ShownBefore, Numbers
<1>14. ShownInOrder'
  BY <1>2, <1>3 DEF ShownInOrder
<1> QED BY <1>11, <1>12, <1>13, <1>14 DEF DeliveryInv

LEMMA TakeDeltaKeeps == DeliveryInv /\ TakeDelta => DeliveryInv'
<1> SUFFICES ASSUME DeliveryInv, TakeDelta PROVE DeliveryInv'
  OBVIOUS
<1> DEFINE m == Head(Queued)
           bus == IF putBack = <<>> THEN Tail(outbound) ELSE outbound
           n == CHOOSE i \in 0 .. Len(bus) :
                    StopsAt(m, bus, i) /\ \A j \in 0 .. (i - 1) : ~StopsAt(m, bus, j)
           left == SubSeq(bus, n + 1, Len(bus))
           rest == IF StreamEnded(bus, n) THEN [back |-> <<>>, bus |-> left] ELSE AfterJoining(left)
           a == published - Backlog
<1>1. /\ sending = <<>> /\ Queued # <<>>
      /\ sending' = <<m>> \o SubSeq(bus, 1, n)
      /\ putBack' = (IF putBack = <<>> THEN <<>> ELSE Tail(putBack)) \o rest.back
      /\ outbound' = rest.bus
      /\ attempt' = 1
      /\ UNCHANGED <<published, replied, shown>>
  BY DEF TakeDelta
<1>2. DeliveryTyped /\ TailIsOwed /\ ShownBefore /\ ShownInOrder
  BY Zenon DEF DeliveryInv
<1>3. /\ Len(sending) = 0 /\ Len(putBack) \in 0 .. 1 /\ Len(outbound) \in Nat
      /\ published \in Nat /\ Backlog \in Nat /\ Backlog <= published
      /\ (putBack = <<>> <=> Len(putBack) = 0) /\ (outbound = <<>> <=> Len(outbound) = 0)
  BY <1>1, <1>2, Lengths
<1>4. /\ putBack \in Seq(Mail) /\ outbound \in Seq(Mail) /\ a \in Int
      /\ Backlog = Len(putBack) + Len(outbound)
  BY <1>2, <1>3 DEF DeliveryTyped, Backlog
<1>5. /\ a = published - Len(outbound) - Len(putBack) /\ InRow(putBack, a)
      /\ InRow(outbound, a + Len(putBack))
  <2>1. /\ a = published - Len(outbound) - Len(putBack)
        /\ a + Len(putBack) = published - Len(outbound)
    BY <1>3, <1>4
  <2> HIDE DEF a
  <2> QED BY <1>2, <2>1 DEF TailIsOwed
<1>6. /\ m \in Mail /\ m.nr = a + 1
      /\ bus \in Seq(Mail) /\ InRow(bus, a + 1) /\ Len(bus) = Backlog - 1
      /\ (IF putBack = <<>> THEN <<>> ELSE Tail(putBack)) = <<>>
  <2>1. CASE putBack = <<>>
    <3>1. Queued = outbound /\ bus = Tail(outbound)
      BY <1>4, <2>1, ConcatEmptySeq, SMTT(30) DEF Queued
    <3>2. outbound # <<>>
      BY <1>1, <3>1
    <3>3. InRow(outbound, a)
      <4>1. a + Len(putBack) = a
        BY <1>3, <1>4, <2>1
      <4> HIDE DEF a
      <4> QED BY <1>5, <4>1
    <3>4. /\ Head(outbound) \in Mail /\ Head(outbound).nr = a + 1
          /\ Tail(outbound) \in Seq(Mail) /\ Len(Tail(outbound)) = Len(outbound) - 1
          /\ InRow(Tail(outbound), a + 1)
      <4> HIDE DEF a
      <4> QED BY <1>4, <3>2, <3>3, RowTail
    <3>5. Len(outbound) = Backlog
      BY <1>3, <1>4, <2>1
    <3> QED BY <2>1, <3>1, <3>4, <3>5
  <2>2. CASE putBack # <<>>
    <3>1. bus = outbound /\ Len(putBack) = 1
      BY <1>3, <2>2
    <3>2. Head(Queued) = Head(putBack)
      <4>1. \A i \in 1 .. Len(putBack) + Len(outbound) :
               (putBack \o outbound)[i]
                  = IF i <= Len(putBack) THEN putBack[i] ELSE outbound[i - Len(putBack)]
        BY <1>4, ConcatProperties
      <4>2. Queued[1] = putBack[1]
        BY <1>3, <3>1, <4>1 DEF Queued
      <4> QED BY <4>2
    <3>3. /\ Head(putBack) \in Mail /\ Head(putBack).nr = a + 1
          /\ Tail(putBack) \in Seq(Mail) /\ Len(Tail(putBack)) = 0
      <4> HIDE DEF a
      <4> QED BY <1>4, <1>5, <2>2, <3>1, RowTail
    <3>4. Tail(putBack) = <<>>
      BY <3>3, EmptySeq
    <3>5. Len(outbound) = Backlog - 1 /\ InRow(outbound, a + 1)
      <4>1. Len(outbound) = Backlog - 1
        BY <1>3, <1>4, <3>1
      <4> HIDE DEF a
      <4> QED BY <1>5, <3>1, <4>1
    <3> QED BY <1>4, <2>2, <3>1, <3>2, <3>3, <3>4, <3>5
  <2> QED BY <2>1, <2>2
<1>7. n \in 0 .. Len(bus)
  <2> HIDE DEF m, bus
  <2> QED BY <1>6, JoiningEnds
<1>8. Backlog \in 1 .. published /\ a + 1 \in Int
  <2>1. Len(bus) \in Nat
    BY <1>6, LenProperties
  <2> HIDE DEF bus
  <2> QED BY <1>3, <1>6, <2>1
<1> HIDE DEF m, bus, n, left
<1>9. /\ SubSeq(bus, 1, n) \in Seq(Mail) /\ Len(SubSeq(bus, 1, n)) = n
      /\ InRow(SubSeq(bus, 1, n), a + 1)
      /\ left \in Seq(Mail) /\ Len(left) = Len(bus) - n /\ InRow(left, a + 1 + n)
  <2> HIDE DEF a
  <2> QED BY <1>6, <1>7, <1>8, RowCut DEF left
<1>10. /\ sending' \in Seq(Mail) /\ Len(sending') = 1 + n /\ InRow(sending', a)
  <2>3. a \in Int
    BY <1>4
  <2> HIDE DEF a
  <2>1. InRow(<<m>>, a) /\ <<m>> \in Seq(Mail) /\ Len(<<m>>) = 1
    BY <1>6, <2>3, RowOfOne
  <2> DEFINE first == <<m>>
             joined == SubSeq(bus, 1, n)
  <2>4. /\ first \in Seq(Mail) /\ Len(first) = 1 /\ InRow(first, a)
        /\ joined \in Seq(Mail) /\ Len(joined) = n /\ InRow(joined, a + 1)
        /\ sending' = first \o joined
    BY <1>1, <1>9, <2>1
  <2> HIDE DEF first, joined
  <2>5. InRow(joined, a + Len(first))
    BY <2>4
  <2> QED BY <2>3, <2>4, <2>5, RowConcat
<1>11. /\ rest.back \in Seq(Mail) /\ Len(rest.back) <= 1 /\ InRow(rest.back, a + 1 + n)
       /\ rest.bus \in Seq(Mail) /\ InRow(rest.bus, a + 1 + n + Len(rest.back))
       /\ Len(rest.back) + Len(rest.bus) = Len(bus) - n
  <2>1. a + 1 + n \in Int
    BY <1>7, <1>8
  <2> DEFINE b == a + 1 + n
  <2>2. left \in Seq(Mail) /\ Len(left) = Len(bus) - n /\ InRow(left, b) /\ b \in Int
    BY <1>9, <2>1
  <2> HIDE DEF a, b
  <2>3. /\ rest.back \in Seq(Mail) /\ Len(rest.back) <= 1 /\ InRow(rest.back, b)
        /\ rest.bus \in Seq(Mail) /\ InRow(rest.bus, b + Len(rest.back))
        /\ Len(rest.back) + Len(rest.bus) = Len(left)
    <3>1. CASE StreamEnded(bus, n)
      <4>1. rest.back = <<>> /\ rest.bus = left
        BY <3>1
      <4> HIDE DEF rest, left
      <4>2. Len(left) \in Nat /\ <<>> \in Seq(Mail) /\ Len(<<>>) = 0 /\ b + 0 = b /\ InRow(<<>>, b)
        BY <2>2, LenProperties, RowOfNone
      <4> QED BY <2>2, <4>1, <4>2
    <3>2. CASE ~StreamEnded(bus, n)
      <4>1. rest = AfterJoining(left)
        BY <3>2
      <4> HIDE DEF rest, left
      <4> QED BY <2>2, <4>1, RowPutBack
    <3> QED BY <3>1, <3>2
  <2> HIDE DEF rest, left
  <2> QED BY <2>2, <2>3 DEF b
<1> HIDE DEF rest
<1>12. putBack' = rest.back /\ outbound' = rest.bus
  BY <1>1, <1>6, <1>11, ConcatEmptySeq
<1>13. /\ Len(sending') \in Nat /\ Len(putBack') \in Nat /\ Len(outbound') \in Nat
       /\ n \in Nat /\ Len(bus) \in Nat
  <2>1. Len(bus) \in Nat /\ n \in Nat
    BY <1>6, <1>7, <1>8
  <2> QED BY <1>10, <1>11, <1>12, <2>1, LenProperties
<1>14. Backlog' = Backlog
  <2>1. Backlog' = Len(sending') + Len(putBack') + Len(outbound')
    BY DEF Backlog
  <2>2. Len(putBack') + Len(outbound') = Backlog - 1 - n /\ Backlog \in Nat
    BY <1>3, <1>6, <1>11, <1>12
  <2> QED BY <1>10, <1>13, <2>1, <2>2
<1>15. DeliveryTyped'
  <2>1. attempt' \in 0 .. MaxSends
    BY <1>1, OutboundAssumption
  <2> QED BY <1>1, <1>2, <1>10, <1>11, <1>12, <1>14, <2>1 DEF DeliveryTyped
<1>16. TailIsOwed'
  <2>1. /\ published' - Backlog' = a
        /\ published' - Len(outbound') - Len(putBack') = a + 1 + n
        /\ published' - Len(outbound') = a + 1 + n + Len(putBack')
    <3>1. /\ Len(putBack') + Len(outbound') = Backlog - 1 - n /\ published' = published
          /\ Backlog \in Nat /\ published \in Nat
      BY <1>1, <1>3, <1>6, <1>11, <1>12
    <3> QED BY <1>13, <1>14, <3>1
  <2> HIDE DEF a
  <2> QED BY <1>10, <1>11, <1>12, <2>1 DEF TailIsOwed
<1>17. ShownBefore'
  BY <1>1, <1>2, <1>14 DEF ShownBefore
<1>18. ShownInOrder'
  BY <1>1, <1>2 DEF ShownInOrder
<1> QED BY <1>15, <1>16, <1>17, <1>18 DEF DeliveryInv

LEMMA TakeOtherKeeps == DeliveryInv /\ TakeOther => DeliveryInv'
<1> SUFFICES ASSUME DeliveryInv, TakeOther PROVE DeliveryInv'
  OBVIOUS
<1> DEFINE m == Head(Queued)
           a == published - Backlog
<1>1. /\ sending = <<>> /\ Queued # <<>> /\ TakenFromQueue
      /\ \/ sending' = sending /\ attempt' = attempt
         \/ sending' = <<m>> /\ attempt' = 1
      /\ replied' = IF m.kind \in {"reply", "echo"}
                    THEN [replied EXCEPT ![m.of] = m.text] ELSE replied
      /\ published' = published /\ shown' = shown
  BY DEF TakeOther
<1>2. DeliveryTyped /\ TailIsOwed /\ ShownBefore /\ ShownInOrder
  BY DEF DeliveryInv
<1>3. /\ Len(sending) = 0 /\ Len(putBack) \in 0 .. 1 /\ Len(outbound) \in Nat
      /\ published \in Nat /\ Backlog \in Nat /\ Backlog <= published
      /\ (putBack = <<>> <=> Len(putBack) = 0) /\ (outbound = <<>> <=> Len(outbound) = 0)
  BY <1>1, <1>2, Lengths
<1>4. /\ putBack \in Seq(Mail) /\ outbound \in Seq(Mail) /\ a \in Int
      /\ Backlog = Len(putBack) + Len(outbound)
  BY <1>2, <1>3 DEF DeliveryTyped, Backlog
<1>5. /\ a = published - Len(outbound) - Len(putBack) /\ InRow(putBack, a)
      /\ InRow(outbound, a + Len(putBack))
  <2>1. /\ a = published - Len(outbound) - Len(putBack)
        /\ a + Len(putBack) = published - Len(outbound)
    BY <1>3, <1>4
  <2> HIDE DEF a
  <2> QED BY <1>2, <2>1 DEF TailIsOwed
<1> HIDE DEF a
<1>6. /\ m \in Mail /\ m.nr = a + 1
      /\ putBack' \in Seq(Mail) /\ outbound' \in Seq(Mail) /\ Len(putBack') = 0
      /\ Len(outbound') = Backlog - 1 /\ InRow(outbound', a + 1)
  <2>1. CASE putBack = <<>>
    <3>1. Queued = outbound /\ outbound' = Tail(outbound) /\ putBack' = <<>>
      BY <1>1, <1>4, <2>1, ConcatEmptySeq DEF Queued, TakenFromQueue
    <3>2. outbound # <<>>
      BY <1>1, <3>1
    <3>3. InRow(outbound, a) /\ Len(outbound) = Backlog
      <4>1. a + Len(putBack) = a /\ Len(outbound) = Backlog
        BY <1>3, <1>4, <2>1
      <4> QED BY <1>5, <4>1
    <3>4. /\ Head(outbound) \in Mail /\ Head(outbound).nr = a + 1
          /\ Tail(outbound) \in Seq(Mail) /\ Len(Tail(outbound)) = Len(outbound) - 1
          /\ InRow(Tail(outbound), a + 1)
      BY <1>4, <3>2, <3>3, RowTail
    <3> QED BY <1>3, <1>4, <2>1, <3>1, <3>3, <3>4
  <2>2. CASE putBack # <<>>
    <3>1. outbound' = outbound /\ putBack' = Tail(putBack) /\ Len(putBack) = 1
      BY <1>1, <1>3, <2>2 DEF TakenFromQueue
    <3>2. Head(Queued) = Head(putBack)
      <4>1. \A i \in 1 .. Len(putBack) + Len(outbound) :
               (putBack \o outbound)[i]
                  = IF i <= Len(putBack) THEN putBack[i] ELSE outbound[i - Len(putBack)]
        BY <1>4, ConcatProperties
      <4>2. Queued[1] = putBack[1]
        BY <1>3, <3>1, <4>1 DEF Queued
      <4> QED BY <4>2
    <3>3. /\ Head(putBack) \in Mail /\ Head(putBack).nr = a + 1
          /\ Tail(putBack) \in Seq(Mail) /\ Len(Tail(putBack)) = 0
      BY <1>4, <1>5, <2>2, <3>1, RowTail
    <3>4. Len(outbound) = Backlog - 1 /\ InRow(outbound, a + 1)
      <4>1. Len(outbound) = Backlog - 1
        BY <1>3, <1>4, <3>1
      <4> QED BY <1>5, <3>1, <4>1
    <3> QED BY <1>4, <3>1, <3>2, <3>3, <3>4
  <2> QED BY <2>1, <2>2
<1> HIDE DEF m
<1>7. Backlog >= 1 /\ a = published - Backlog
  <2>1. Len(outbound') \in Nat
    BY <1>6, LenProperties
  <2> QED BY <1>3, <1>6, <2>1 DEF a
<1>8. \/ sending' = <<>> /\ Len(sending') = 0 /\ attempt' = attempt /\ Backlog' = Backlog - 1
      \/ /\ Len(sending') = 1 /\ sending' \in Seq(Mail) /\ InRow(sending', a)
         /\ attempt' = 1 /\ Backlog' = Backlog
  <2>1. Backlog' = Len(sending') + Backlog - 1
    <3>1. Backlog' = Len(sending') + Len(putBack') + Len(outbound')
      BY DEF Backlog
    <3>2. Len(sending') \in Nat
      BY <1>1, <1>3
    <3> QED BY <1>3, <1>6, <3>1, <3>2
  <2>2. CASE sending' = sending /\ attempt' = attempt
    BY <1>1, <1>3, <2>1, <2>2
  <2>3. CASE sending' = <<m>> /\ attempt' = 1
    <3>1. InRow(<<m>>, a) /\ <<m>> \in Seq(Mail) /\ Len(<<m>>) = 1
      BY <1>4, <1>6, RowOfOne
    <3> DEFINE s == <<m>>
    <3>2. Len(s) = 1 /\ s \in Seq(Mail) /\ InRow(s, a) /\ sending' = s
      BY <2>3, <3>1
    <3> HIDE DEF s
    <3>3. Len(sending') = 1 /\ sending' \in Seq(Mail) /\ InRow(sending', a)
      BY <3>2
    <3> QED BY <1>3, <2>1, <2>3, <3>3
  <2> QED BY <1>1, <2>2, <2>3
<1>9. replied' \in [Sources -> Texts \cup {NoText}]
  <2>1. replied \in [Sources -> Texts \cup {NoText}]
    BY <1>2 DEF DeliveryTyped
  <2>2. CASE m.kind \in {"reply", "echo"}
    <3>1. [kind |-> m.kind, of |-> m.of, text |-> m.text] \in Contents
      BY <1>6 DEF Mail
    <3>2. m.of \in Sources /\ m.text \in Texts
      BY <2>2, <3>1 DEF Contents
    <3>3. replied' = [replied EXCEPT ![m.of] = m.text]
      BY <1>1, <2>2
    <3> QED BY <2>1, <3>2, <3>3
  <2>3. CASE m.kind \notin {"reply", "echo"}
    BY <1>1, <2>1, <2>3
  <2> QED BY <2>2, <2>3
<1>10. DeliveryTyped'
  <2>1. sending' \in Seq(Mail) /\ Backlog' <= published' /\ attempt' \in 0 .. MaxSends
    <3>1. attempt' = attempt \/ attempt' = 1
      BY <1>1
    <3>2. attempt' \in 0 .. MaxSends
      BY <1>2, <3>1, OutboundAssumption DEF DeliveryTyped
    <3>3. Backlog' <= published'
      BY <1>1, <1>3, <1>7, <1>8
    <3>4. sending' \in Seq(Mail)
      <4>1. CASE sending' = <<>>
        BY <4>1, RowOfNone
      <4> QED BY <1>8, <4>1
    <3> QED BY <3>2, <3>3, <3>4
  <2>2. Len(putBack') <= 1
    BY <1>6
  <2> QED BY <1>1, <1>2, <1>6, <1>9, <2>1, <2>2 DEF DeliveryTyped
<1>11. TailIsOwed'
  <2>1. /\ published' - Len(outbound') = a + 1
        /\ published' - Len(outbound') - Len(putBack') = a + 1
    BY <1>1, <1>3, <1>6, <1>7
  <2>2. InRow(putBack', a + 1)
    BY <1>6 DEF InRow
  <2>3. InRow(sending', published' - Backlog')
    <3>1. CASE Len(sending') = 0
      BY <3>1 DEF InRow
    <3>2. CASE Len(sending') = 1
      BY <1>1, <1>7, <1>8, <3>2
    <3> QED BY <1>8, <3>1, <3>2
  <2> QED BY <1>6, <2>1, <2>2, <2>3 DEF TailIsOwed
<1>12. ShownBefore'
  <2> SUFFICES ASSUME NEW i \in 1 .. Len(shown)
               PROVE  shown[i][Len(shown[i])] <= published - Backlog'
    BY <1>1 DEF ShownBefore
  <2>1. shown[i][Len(shown[i])] <= published - Backlog
    BY <1>1, <1>2 DEF ShownBefore
  <2>2. shown[i][Len(shown[i])] \in Nat
    <3>1. shown[i] \in Seq(Nat) /\ shown[i] # <<>>
      BY <1>2, ElementOfSeq DEF DeliveryTyped
    <3>2. Len(shown[i]) \in 1 .. Len(shown[i])
      BY <3>1, EmptySeq
    <3> QED BY <3>1, <3>2, ElementOfSeq
  <2> QED BY <1>3, <1>8, <2>1, <2>2
<1>13. ShownInOrder'
  BY <1>1, <1>2 DEF ShownInOrder
<1> QED BY <1>10, <1>11, <1>12, <1>13 DEF DeliveryInv

-----------------------------------------------------------------------------
(* Delivery: sends *)

\* A message given up, whether it was shown or not.
SendLeaves ==
    /\ sending # <<>> /\ sending' = <<>> /\ attempt' = 0
    /\ shown' \in {shown, Append(shown, Numbers(sending))}
    /\ published' = published /\ outbound' = outbound /\ putBack' = putBack
    /\ replied' = replied

\* A message that is kept for its next attempt.
SendStays ==
    /\ sending # <<>> /\ sending' = sending /\ attempt' \in 0 .. MaxSends
    /\ shown' \in {shown, Append(shown, Numbers(sending))}
    /\ published' = published /\ outbound' = outbound /\ putBack' = putBack
    /\ replied' = replied

LEMMA SendCases == DeliveryTyped /\ (Send \/ SendFails) => SendLeaves \/ SendStays
<1> SUFFICES ASSUME DeliveryTyped, Send \/ SendFails PROVE SendLeaves \/ SendStays
  OBVIOUS
<1>1. CASE Send
  BY <1>1 DEF Send, SendDone, SendLeaves
<1>2. CASE SendFails
  <2>1. CASE SendDone /\ UNCHANGED <<outbound, putBack>>
    BY <1>2, <2>1 DEF SendFails, SendDone, SendLeaves
  <2>2. CASE attempt < MaxSends /\ RetrySend
    <3>1. attempt' \in 0 .. MaxSends
      BY <2>2, OutboundAssumption DEF DeliveryTyped, RetrySend
    <3> QED BY <1>2, <2>2, <3>1 DEF SendFails, RetrySend, SendStays
  <2> QED BY <1>2, <2>1, <2>2 DEF SendFails
<1> QED BY <1>1, <1>2

LEMMA SentKeeps == DeliveryInv /\ (Send \/ SendFails) => DeliveryInv'
<1> SUFFICES ASSUME DeliveryInv, Send \/ SendFails PROVE DeliveryInv'
  OBVIOUS
<1> DEFINE a == published - Backlog
           now == Numbers(sending)
<1>1. DeliveryTyped /\ TailIsOwed /\ ShownBefore /\ ShownInOrder
  BY DEF DeliveryInv
<1>2. SendLeaves \/ SendStays
  BY <1>1, SendCases
<1>3. /\ sending # <<>> /\ shown' \in {shown, Append(shown, now)}
      /\ published' = published /\ outbound' = outbound /\ putBack' = putBack
      /\ replied' = replied /\ attempt' \in 0 .. MaxSends
      /\ sending' \in {<<>>, sending}
  BY <1>2, OutboundAssumption DEF SendLeaves, SendStays
<1>4. /\ Len(sending) \in Nat \ {0} /\ Len(putBack) \in 0 .. 1 /\ Len(outbound) \in Nat
      /\ Len(shown) \in Nat /\ published \in Nat /\ Backlog \in Nat /\ Backlog <= published
  BY <1>1, <1>3, Lengths
<1>5. /\ now \in Seq(Nat) /\ Len(now) = Len(sending) /\ now # <<>>
      /\ now[1] = a + 1 /\ now[Len(now)] = a + Len(sending)
  <2>1. a \in Int /\ sending \in Seq(Mail) /\ InRow(sending, a)
    BY <1>1, <1>4 DEF DeliveryTyped, TailIsOwed
  <2> HIDE DEF a
  <2> QED BY <1>3, <2>1, RowNumbers
<1>6. /\ \A i \in 1 .. Len(shown) : shown[i] \in Seq(Nat) /\ shown[i] # <<>>
                                     /\ shown[i][Len(shown[i])] \in Nat
      /\ \A i \in 1 .. Len(shown) : shown[i][Len(shown[i])] <= a \/ shown[i] = now
  <2>1. ASSUME NEW i \in 1 .. Len(shown)
        PROVE  /\ shown[i] \in Seq(Nat) /\ shown[i] # <<>>
               /\ shown[i][Len(shown[i])] \in Nat
    <3>1. shown[i] \in Seq(Nat) /\ shown[i] # <<>>
      BY <1>1, ElementOfSeq DEF DeliveryTyped
    <3>2. Len(shown[i]) \in 1 .. Len(shown[i])
      BY <3>1, EmptySeq
    <3> QED BY <3>1, <3>2, ElementOfSeq
  <2> QED BY <1>1, <2>1 DEF ShownBefore
<1> HIDE DEF now
<1>7. /\ shown' \in Seq(Seq(Nat)) /\ Len(shown') \in {Len(shown), Len(shown) + 1}
      /\ \A i \in 1 .. Len(shown) : shown'[i] = shown[i]
      /\ \A i \in 1 .. Len(shown') : i > Len(shown) => i = Len(shown) + 1 /\ shown'[i] = now
  <2>1. shown \in Seq(Seq(Nat))
    BY <1>1 DEF DeliveryTyped
  <2>2. CASE shown' = shown
    BY <1>4, <2>1, <2>2
  <2>3. CASE shown' = Append(shown, now)
    BY <1>4, <1>5, <2>1, <2>3, AppendProperties
  <2> QED BY <1>3, <2>2, <2>3
<1>8. \A i \in 1 .. Len(shown') : /\ shown'[i] # <<>>
                                  /\ shown'[i][Len(shown'[i])] <= a \/ shown'[i] = now
  <2> SUFFICES ASSUME NEW i \in 1 .. Len(shown')
               PROVE  /\ shown'[i] # <<>>
                      /\ shown'[i][Len(shown'[i])] <= a \/ shown'[i] = now
    OBVIOUS
  <2> HIDE DEF a
  <2>1. CASE i \in 1 .. Len(shown)
    BY <1>6, <1>7, <2>1
  <2>2. CASE i > Len(shown)
    BY <1>5, <1>7, <2>2
  <2> QED BY <1>4, <1>7, <2>1, <2>2
<1>9. \/ sending' = sending /\ Backlog' = Backlog
      \/ sending' = <<>> /\ Len(sending') = 0 /\ Backlog' = Backlog - Len(sending)
  <2>1. CASE sending' = sending
    BY <1>3, <2>1 DEF Backlog
  <2>2. CASE sending' = <<>>
    <3>1. Len(sending') = 0
      BY <2>2
    <3>2. Backlog' = Len(sending') + Len(putBack) + Len(outbound)
      BY <1>3 DEF Backlog
    <3>3. Backlog = Len(sending) + Len(putBack) + Len(outbound)
      BY DEF Backlog
    <3> QED BY <1>4, <2>2, <3>1, <3>2, <3>3
  <2> QED BY <1>3, <2>1, <2>2
<1>10. DeliveryTyped'
  <2>1. sending' \in Seq(Mail) /\ Backlog' <= published'
    <3>1. sending' \in Seq(Mail)
      <4>1. CASE sending' = <<>>
        BY <4>1, RowOfNone
      <4>2. CASE sending' = sending
        BY <1>1, <4>2 DEF DeliveryTyped
      <4> QED BY <1>3, <4>1, <4>2
    <3>2. Backlog' = Backlog \/ Backlog' = Backlog - Len(sending)
      BY <1>9
    <3> QED BY <1>3, <1>4, <3>1, <3>2
  <2>2. \A i \in 1 .. Len(shown') : shown'[i] # <<>>
    BY <1>8
  <2> QED BY <1>1, <1>3, <1>7, <2>1, <2>2 DEF DeliveryTyped
<1>11. TailIsOwed'
  <2>1. InRow(sending', published' - Backlog')
    <3>1. CASE sending' = sending /\ Backlog' = Backlog
      BY <1>1, <1>3, <3>1 DEF TailIsOwed
    <3>2. CASE Len(sending') = 0
      BY <3>2 DEF InRow
    <3> QED BY <1>9, <3>1, <3>2
  <2> QED BY <1>1, <1>3, <2>1 DEF TailIsOwed
<1>12. ShownBefore'
  <2>1. CASE sending' = sending /\ Backlog' = Backlog
    <3>1. Numbers(sending)' = now /\ published' - Backlog' = a
      BY <1>3, <2>1 DEF now, Numbers
    <3> QED BY <1>3, <1>8, <2>1, <3>1 DEF ShownBefore
  <2>2. CASE Backlog' = Backlog - Len(sending)
    <3>1. ASSUME NEW i \in 1 .. Len(shown')
          PROVE  shown'[i][Len(shown'[i])] <= a + Len(sending)
      <4>1. CASE shown'[i] = now
        BY <1>4, <1>5, <4>1
      <4>2. CASE shown'[i] # now
        <5>1. i \in 1 .. Len(shown) /\ shown'[i] = shown[i]
          BY <1>4, <1>7, <4>2
        <5>2. shown[i][Len(shown[i])] \in Nat /\ shown[i][Len(shown[i])] <= a
          BY <1>6, <4>2, <5>1
        <5>3. shown[i][Len(shown[i])] <= a + Len(sending)
          BY <1>4, <5>2
        <5> QED BY <5>1, <5>3
      <4> QED BY <4>1, <4>2
    <3>2. published' - Backlog' = a + Len(sending)
      BY <1>3, <1>4, <2>2
    <3> HIDE DEF a
    <3> QED BY <3>1, <3>2 DEF ShownBefore
  <2> QED BY <1>9, <2>1, <2>2
<1>13. ShownInOrder'
  <2> SUFFICES ASSUME NEW i \in 1 .. Len(shown'), NEW j \in 1 .. Len(shown'), i < j
               PROVE  shown'[i] = shown'[j] \/ shown'[i][Len(shown'[i])] < shown'[j][1]
    BY DEF ShownInOrder
  <2>1. i \in 1 .. Len(shown)
    BY <1>4, <1>7
  <2>2. CASE j \in 1 .. Len(shown)
    BY <1>1, <1>7, <2>1, <2>2 DEF ShownInOrder
  <2>3. CASE j = Len(shown) + 1
    <3>1. shown'[j] = now /\ shown'[i] = shown[i]
      BY <1>4, <1>7, <2>1, <2>3
    <3>2. CASE shown[i] = now
      BY <3>1, <3>2
    <3>3. CASE shown[i][Len(shown[i])] <= a
      <4>1. shown[i][Len(shown[i])] < now[1]
        BY <1>4, <1>5, <1>6, <2>1, <3>3
      <4> QED BY <3>1, <4>1
    <3> HIDE DEF a
    <3> QED BY <1>6, <2>1, <3>2, <3>3
  <2> QED BY <1>4, <1>7, <2>2, <2>3
<1> QED BY <1>10, <1>11, <1>12, <1>13 DEF DeliveryInv

LEMMA DeliveryStep == DeliveryInv /\ [OutboundNext]_outboundVars => DeliveryInv'
<1> SUFFICES ASSUME DeliveryInv, [OutboundNext]_outboundVars PROVE DeliveryInv'
  OBVIOUS
<1>1. CASE UNCHANGED outboundVars
  <2>1. UNCHANGED <<published, outbound, putBack, sending, attempt, replied, shown>>
    BY <1>1 DEF outboundVars
  <2>2. DeliveryTyped' /\ Backlog' = Backlog
    BY <2>1 DEF DeliveryInv, DeliveryTyped, Backlog
  <2>3. TailIsOwed' /\ ShownInOrder'
    BY <2>1, <2>2 DEF DeliveryInv, TailIsOwed, ShownInOrder
  <2>4. ShownBefore'
    BY <2>1, <2>2 DEF DeliveryInv, ShownBefore, Numbers
  <2> QED BY <2>2, <2>3, <2>4 DEF DeliveryInv
<1>2. CASE OutboundNext
  BY <1>2, PublishKeeps, TakeDeltaKeeps, TakeOtherKeeps, SentKeeps DEF OutboundNext
<1> QED BY <1>1, <1>2

\* The inductive invariant of the outbound dispatcher holds in every state.
THEOREM DeliveryInvariant == OutboundSpec => []DeliveryInv
  BY DeliveryStart, DeliveryStep, PTL DEF OutboundSpec

-----------------------------------------------------------------------------
(* Delivery: the theorems *)

\* All that is owed, as one sequence.
LEMMA OwedIsRow ==
    ASSUME DeliveryInv
    PROVE  /\ sending \o Queued \in Seq(Mail) /\ Len(sending \o Queued) = Backlog
           /\ InRow(sending \o Queued, published - Backlog)
<1>1. DeliveryTyped /\ TailIsOwed
  BY DEF DeliveryInv
<1>2. /\ Len(sending) \in Nat /\ Len(putBack) \in Nat /\ Len(outbound) \in Nat
      /\ published \in Nat /\ Backlog = Len(sending) + Len(putBack) + Len(outbound)
  BY <1>1, Lengths DEF Backlog
<1>3. sending \in Seq(Mail) /\ putBack \in Seq(Mail) /\ outbound \in Seq(Mail)
  BY <1>1 DEF DeliveryTyped
<1> DEFINE q == putBack \o outbound
           b == published - Len(outbound) - Len(putBack)
           a == published - Backlog
<1>4. b \in Int /\ a \in Int /\ b + Len(putBack) = published - Len(outbound)
      /\ a + Len(sending) = b
  BY <1>2
<1>5. InRow(putBack, b) /\ InRow(outbound, published - Len(outbound)) /\ InRow(sending, a)
  BY <1>1 DEF TailIsOwed
<1> HIDE DEF a, b
<1>6. InRow(outbound, b + Len(putBack))
  BY <1>4, <1>5
<1>7. q \in Seq(Mail) /\ Len(q) = Len(putBack) + Len(outbound) /\ InRow(q, b)
  BY <1>3, <1>4, <1>5, <1>6, RowConcat
<1> HIDE DEF q
<1>8. InRow(q, a + Len(sending))
  BY <1>4, <1>7
<1>9. sending \o q \in Seq(Mail) /\ Len(sending \o q) = Len(sending) + Len(q)
      /\ InRow(sending \o q, a)
  BY <1>3, <1>4, <1>5, <1>7, <1>8, RowConcat
<1> QED BY <1>2, <1>7, <1>9 DEF q, a, Queued

LEMMA DeliveryTypes == DeliveryInv => OutboundTypeOK
<1> SUFFICES ASSUME DeliveryInv PROVE OutboundTypeOK
  OBVIOUS
<1> DEFINE q == sending \o Queued
<1>1. q \in Seq(Mail) /\ Len(q) = Backlog /\ InRow(q, published - Backlog)
  BY OwedIsRow
<1>2. DeliveryTyped /\ Backlog \in Nat /\ Backlog <= published /\ published \in Nat
  BY Lengths DEF DeliveryInv
<1> HIDE DEF q
<1>3. ASSUME NEW m \in Range(q)
      PROVE  m.nr \in 1 .. published /\ [kind |-> m.kind, of |-> m.of, text |-> m.text] \in Contents
  <2>1. PICK i \in 1 .. Len(q) : m = q[i]
    BY <1>1, RangeEquality
  <2>2. m.nr = published - Backlog + i
    BY <1>1, <2>1 DEF InRow
  <2>3. m \in Mail
    BY <1>1, <2>1, ElementOfSeq
  <2>4. [kind |-> m.kind, of |-> m.of, text |-> m.text] \in Contents
    BY <2>3 DEF Mail
  <2>5. m.nr \in 1 .. published
    BY <1>1, <1>2, <2>1, <2>2
  <2> QED BY <2>4, <2>5
<1>4. /\ published \in 0 .. MaxOutbound /\ attempt \in 0 .. MaxSends
      /\ replied \in [Sources -> Texts \cup {NoText}]
  BY <1>2 DEF DeliveryTyped
<1> QED BY <1>3, <1>4 DEF OutboundTypeOK, q

\* What is on the way is among what was published, and a reply or an echo names a
\* source; replied keeps texts of known sources.
THEOREM OutboundTypeCorrect == OutboundSpec => []OutboundTypeOK
  BY DeliveryTypes, DeliveryInvariant, PTL

\* Whatever is joined, put back, retried, given up or dropped, messages reach the
\* platform in the order they were published, and what is still owed is the tail
\* of it without gap (_coalesce_stream_deltas, _send_with_retry).
THEOREM MessagesStayInOrder == OutboundSpec => []OutboundInOrder
<1>1. DeliveryInv => OutboundInOrder
  <2> SUFFICES ASSUME DeliveryInv PROVE OutboundInOrder
    OBVIOUS
  <2> DEFINE q == sending \o Queued
             a == published - Backlog
  <2>1. q \in Seq(Mail) /\ Len(q) = Backlog /\ InRow(q, a)
    BY OwedIsRow
  <2>2. /\ DeliveryTyped /\ ShownBefore /\ ShownInOrder
        /\ Backlog \in Nat /\ published \in Nat /\ a \in Int
    BY Lengths DEF DeliveryInv
  <2>3. Owed = Numbers(q)
    BY DEF Owed
  <2> HIDE DEF q
  <2>4. /\ DOMAIN Owed = 1 .. Len(q) /\ Len(Owed) = Len(q)
        /\ \A i \in 1 .. Len(q) : Owed[i] = a + i
        /\ Owed # <<>> => Len(q) # 0
    <3>1. Len(q) \in Nat /\ DOMAIN q = 1 .. Len(q)
      BY <2>1, LenProperties
    <3>2. Owed = [i \in 1 .. Len(q) |-> q[i].nr]
      BY <2>3, <3>1 DEF Numbers
    <3>3. \A i \in 1 .. Len(q) : Owed[i] = a + i
      BY <2>1, <3>2 DEF InRow
    <3>4. DOMAIN Owed = 1 .. Len(q)
      BY <3>2
    <3>5. CASE q = <<>>
      <4>1. Len(q) = 0
        BY <3>5
      <4>2. Owed \in [1 .. 0 -> Nat]
        BY <3>2, <4>1
      <4>3. Owed = <<>>
        BY <4>2
      <4> QED BY <3>3, <3>4, <4>1, <4>3
    <3>6. CASE q # <<>>
      <4>1. Len(Owed) = Len(q)
        BY <2>1, <2>2, <2>3, <3>6, RowNumbers
      <4> QED BY <2>1, <3>3, <3>4, <3>6, <4>1, EmptySeq
    <3> QED BY <3>5, <3>6
  <2>5. ASSUME NEW i \in DOMAIN Owed PROVE Owed[i] = published - Len(Owed) + i
    BY <2>1, <2>2, <2>4
  <2>6. /\ DOMAIN shown = 1 .. Len(shown)
        /\ \A i \in 1 .. Len(shown) : /\ shown[i] \in Seq(Nat) /\ shown[i] # <<>>
                                      /\ Last(shown[i]) = shown[i][Len(shown[i])]
                                      /\ Last(shown[i]) \in Nat
                                      /\ Head(shown[i]) = shown[i][1]
    <3>1. shown \in Seq(Seq(Nat)) /\ \A i \in 1 .. Len(shown) : shown[i] # <<>>
      BY <2>2 DEF DeliveryTyped
    <3>2. ASSUME NEW i \in 1 .. Len(shown)
          PROVE  /\ shown[i] \in Seq(Nat) /\ Last(shown[i]) = shown[i][Len(shown[i])]
                 /\ Last(shown[i]) \in Nat /\ Head(shown[i]) = shown[i][1]
      <4>1. shown[i] \in Seq(Nat) /\ shown[i] # <<>>
        BY <3>1, ElementOfSeq
      <4>2. Len(shown[i]) \in 1 .. Len(shown[i])
        BY <4>1, EmptySeq
      <4>3. Last(shown[i]) = shown[i][Len(shown[i])]
        BY DEF Last
      <4>4. Head(shown[i]) = shown[i][1]
        BY <4>1
      <4> QED BY <4>1, <4>2, <4>3, <4>4, ElementOfSeq
    <3>3. DOMAIN shown = 1 .. Len(shown)
      BY <3>1, LenProperties
    <3> QED BY <3>1, <3>2, <3>3
  <2>7. ASSUME NEW i \in DOMAIN shown, NEW j \in DOMAIN shown, i < j
        PROVE  shown[i] = shown[j] \/ Last(shown[i]) < Head(shown[j])
    BY <2>2, <2>6, <2>7 DEF ShownInOrder
  <2>8. ASSUME NEW i \in DOMAIN shown, Owed # <<>>
        PROVE  Last(shown[i]) < Head(Owed) \/ shown[i] = Numbers(sending)
    <3>1. Last(shown[i]) <= a \/ shown[i] = Numbers(sending)
      BY <2>2, <2>6 DEF ShownBefore
    <3>2. Head(Owed) = a + 1
      <4>1. Len(q) \in Nat /\ 1 \in 1 .. Len(q)
        BY <2>1, <2>2, <2>4, <2>8
      <4>2. Owed[1] = a + 1
        BY <2>4, <4>1
      <4>3. Head(Owed) = Owed[1]
        OBVIOUS
      <4> QED BY <4>2, <4>3
    <3>3. Last(shown[i]) \in Nat
      BY <2>6
    <3> HIDE DEF a
    <3> QED BY <2>2, <3>1, <3>2, <3>3
  <2> QED BY <2>5, <2>7, <2>8 DEF OutboundInOrder
<1> QED BY <1>1, DeliveryInvariant, PTL
=============================================================================
