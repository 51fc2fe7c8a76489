------------------------------- MODULE Outbound -------------------------------
(***************************************************************************)
(* The outbound dispatcher (channels/manager.py): one task that takes what *)
(* turns publish, joins the deltas of a stream that piled up, drops what a *)
(* source has been told already, and sends the rest with retries.          *)
(***************************************************************************)
EXTENDS Integers, Sequences, SequencesExt

CONSTANTS
    Streams,        \* (channel, chat, stream id)
    Sources,        \* (channel, chat, message id) that messages answer
    Texts,          \* contents
    NoText,
    MaxSends,       \* send_max_retries
    MaxOutbound     \* messages published (bound)

ASSUME OutboundAssumption ==
    NoText \notin Texts /\ MaxSends \in Nat \ {0} /\ MaxOutbound \in Nat

VARIABLES
    published,    \* messages published so far; each is known by its number
    outbound,     \* bus.outbound
    putBack,      \* pending: what coalescing took from the bus too far
    sending,      \* the message being sent: the numbers joined in it, its stream
    attempt,      \* of the send
    replied,      \* _origin_reply_fingerprints
    shown         \* ghost: what reached the platform, send by send

outboundVars == <<published, outbound, putBack, sending, attempt, replied, shown>>

\* The end of a stream may carry its last text.  A reply answers its source; an echo is the reply of a sub-agent's turn, which
\* names the source that spawned it; hidden is what is filtered, goes to no known
\* channel, or marks an answer as streamed.
Contents ==
    [kind : {"delta", "end", "endText"}, of : Streams, text : {NoText}]
    \cup [kind : {"reply", "echo"}, of : Sources, text : Texts]
    \cup [kind : {"hidden"}, of : {NoText}, text : {NoText}]

OutboundInit ==
    /\ published = 0 /\ outbound = <<>> /\ putBack = <<>> /\ sending = <<>> /\ attempt = 0
    /\ replied = [q \in Sources |-> NoText] /\ shown = <<>>

PublishOutbound ==
    /\ published < MaxOutbound /\ published' = published + 1
    /\ \E c \in Contents : outbound' = Append(outbound,
          [nr |-> published', kind |-> c.kind, of |-> c.of, text |-> c.text])
    /\ UNCHANGED <<putBack, sending, attempt, replied, shown>>
-----------------------------------------------------------------------------
Queued == putBack \o outbound
Joins(m, n) == n.kind \in {"delta", "endText"} /\ n.of = m.of

\* Joining stops behind i messages of the bus: the last one was the end of the
\* stream, there is no other, or the next one does not join.
StreamEnded(bus, i) == i > 0 /\ bus[i].kind = "endText"
StopsAt(m, bus, i) == StreamEnded(bus, i) \/ i = Len(bus) \/ ~Joins(m, bus[i + 1])

\* Mutant: the boundary is put back behind the bus.
AfterJoiningRequeued(rest) ==
    IF rest = <<>> THEN [back |-> <<>>, bus |-> <<>>]
    ELSE [back |-> <<>>, bus |-> Append(Tail(rest), Head(rest))]
\* A first message that does not join was taken from the bus as well.
AfterJoining(rest) ==
    IF rest = <<>> THEN [back |-> <<>>, bus |-> <<>>]
    ELSE [back |-> <<Head(rest)>>, bus |-> Tail(rest)]

\* A stream's deltas that follow each other on the bus, and an end that carries
\* text behind them, become one message.
TakeDelta ==
    /\ sending = <<>> /\ Queued # <<>> /\ Head(Queued).kind = "delta"
    /\ LET m == Head(Queued)
           bus == IF putBack = <<>> THEN Tail(outbound) ELSE outbound
           n == CHOOSE i \in 0..Len(bus) :
                    StopsAt(m, bus, i) /\ \A j \in 0..(i - 1) : ~StopsAt(m, bus, j)
           left == SubSeq(bus, n + 1, Len(bus))
           rest == IF StreamEnded(bus, n) THEN [back |-> <<>>, bus |-> left] ELSE AfterJoining(left)
       IN /\ sending' = <<m>> \o SubSeq(bus, 1, n)
          /\ putBack' = (IF putBack = <<>> THEN <<>> ELSE Tail(putBack)) \o rest.back
          /\ outbound' = rest.bus
    /\ attempt' = 1
    /\ UNCHANGED <<published, replied, shown>>

TakenFromQueue ==
    IF putBack = <<>>
    THEN outbound' = Tail(outbound) /\ UNCHANGED putBack
    ELSE putBack' = Tail(putBack) /\ UNCHANGED outbound

\* An echo of what its source was last told is not sent.
Suppressed(m) == m.kind = "echo" /\ replied[m.of] = m.text

TakeOther ==
    /\ sending = <<>> /\ Queued # <<>> /\ Head(Queued).kind # "delta"
    /\ TakenFromQueue
    /\ LET m == Head(Queued)
       IN /\ IF m.kind = "hidden" \/ Suppressed(m)
             THEN UNCHANGED <<sending, attempt>>
             ELSE sending' = <<m>> /\ attempt' = 1
          /\ replied' = IF m.kind \in {"reply", "echo"}
                        THEN [replied EXCEPT ![m.of] = m.text] ELSE replied
    /\ UNCHANGED <<published, shown>>

Numbers(messages) == [i \in DOMAIN messages |-> messages[i].nr]

SendDone == sending' = <<>> /\ attempt' = 0

Send ==
    /\ sending # <<>> /\ SendDone
    /\ shown' = Append(shown, Numbers(sending))
    /\ UNCHANGED <<published, outbound, putBack, replied>>

\* The next attempt holds up everything behind it.
RetrySend == attempt' = attempt + 1 /\ UNCHANGED <<sending, outbound, putBack>>

\* The platform may have shown what a failed send carried.  An error that the
\* channel calls final, or the last attempt, gives the message up.
SendFails ==
    /\ sending # <<>>
    /\ \/ attempt < MaxSends /\ RetrySend
       \/ SendDone /\ UNCHANGED <<outbound, putBack>>
    /\ shown' \in {shown, Append(shown, Numbers(sending))}
    /\ UNCHANGED <<published, replied>>

OutboundNext == PublishOutbound \/ TakeDelta \/ TakeOther \/ Send \/ SendFails
OutboundSpec == OutboundInit /\ [][OutboundNext]_outboundVars
-----------------------------------------------------------------------------
(* Properties *)

OutboundTypeOK ==
    /\ published \in 0..MaxOutbound /\ attempt \in 0..MaxSends
    /\ \A m \in Range(sending \o Queued) :
          /\ m.nr \in 1..published
          /\ [kind |-> m.kind, of |-> m.of, text |-> m.text] \in Contents
    /\ replied \in [Sources -> Texts \cup {NoText}]

Owed == Numbers(sending \o Queued)

\* Whatever is joined, put back, retried, given up or dropped: what is still owed
\* is the tail of what was published, without gap or repetition, and the platform
\* was shown what came before in that order, a message again only while its send
\* was being retried.  So no end of a stream overtakes its text, and no answer one
\* that was published before it.
OutboundInOrder ==
    /\ \A i \in DOMAIN Owed : Owed[i] = published - Len(Owed) + i
    /\ \A i, j \in DOMAIN shown :
          i < j => shown[i] = shown[j] \/ Last(shown[i]) < Head(shown[j])
    /\ \A i \in DOMAIN shown :
          Owed # <<>> => Last(shown[i]) < Head(Owed) \/ shown[i] = Numbers(sending)
=============================================================================
