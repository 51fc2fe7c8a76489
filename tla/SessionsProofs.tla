---------------------------- MODULE SessionsProofs ----------------------------
(***************************************************************************)
(* What holds of the turns of a session and their checkpoints              *)
(* (TurnCheckpoint) for every number of turns, responses, follow-ups and   *)
(* tool calls, and of the archiving of its messages (SessionMemory) for    *)
(* every number of turns, /new commands, crashes and Session objects and   *)
(* every file cap.                                                         *)
(***************************************************************************)
EXTENDS MCSessions, SequenceTheorems, FiniteSetTheorems, WellFoundedInduction, TLAPS

-----------------------------------------------------------------------------
(* The inductive invariant *)

\* Nothing in a session is from a turn later than t.
Aged(rows, c, t) ==
    /\ \A i \in 1 .. Len(rows) : rows[i].turn <= t
    /\ c # None => c.turn <= t

\* No message is there twice, and none of a checkpoint's turn but its input.
Unique(rows, c) ==
    /\ OnceEach(rows)
    /\ c # None => \A i \in 1 .. Len(rows) : rows[i].step # 0 => rows[i].turn # c.turn

\* What holds of a session in memory and on disk: of its rows and its checkpoint,
\* when t is the latest turn and u says that archiving has failed.
Good(rows, c, t, u) ==
    /\ Legal(rows) /\ Aged(rows, c, t)
    /\ u \/ Unique(rows, c)

InModel == phase \in {"model", "tools", "ended"}

\* The messages w of turn t, which has had at most n responses and k injections.
WorkGood(w, t, n, k) ==
    /\ \A i \in 1 .. Len(w) :
          /\ w[i].turn = t /\ w[i].step # 0 /\ w[i].step <= n
          /\ w[i].kind \notin {"user", "event", "reply", "notice"}
          /\ w[i].kind = "followup" => w[i].call < k
    /\ OnceEach(w)

\* A turn that has ended may have a closing message more than responses.
Reached == IF phase = "ended" THEN MaxSteps + 1 ELSE step

\* The messages of the running turn, before they are in the history.
WorkRows ==
    /\ ~InModel => work = <<>>
    /\ phase \in {"started", "restored"} => step = 0
    /\ WorkGood(work, turn, Reached, cycles)
    /\ phase # "tools" => Legal(work)

\* While tools run, their calls come last.
CallsLast ==
    phase = "tools" =>
        \E w \in Seq(Messages) :
            /\ work = Append(w, Row("calls", step, 0)) /\ Legal(w)
            /\ \A i \in 1 .. Len(w) : w[i].step < step

CheckFits ==
    /\ phase = "started" /\ check # None => check.turn < turn
    /\ phase = "restored" => check = None /\ ~pending
    /\ InModel /\ check # None => check.turn = turn /\ Durable(check) \subseteq ToSet(work)

\* What the history has of the running turn is its input.
HistoryFits ==
    /\ phase # "idle" => turn # 0
    /\ phase # "idle" =>
          \A i \in 1 .. Len(history) : history[i].step # 0 => history[i].turn < turn
    /\ phase = "started" => \A i \in 1 .. Len(history) : history[i].turn < turn
    /\ phase = "restored" =>
          \A i \in 1 .. Len(history) : history[i].turn = turn => history[i].kind = "notice"

\* The history has all that is on disk.
DiskFits ==
    \A r \in ToSet(disk.rows) : r.turn > cleared => r \in ToSet(history)

\* The session, in memory and on disk, and the running turn.
SessionInv ==
    /\ Good(history, check, turn, unarchived)
    /\ Good(disk.rows, disk.check, turn, unarchived)
    /\ DiskFits
RunInv == WorkRows /\ CallsLast /\ CheckFits /\ HistoryFits

TurnInv == TypeOK /\ SessionInv /\ RunInv

-----------------------------------------------------------------------------
(* Messages and sequences of them *)

LEMMA MessageRow ==
    ASSUME NEW t \in 0 .. MaxTurns, NEW n \in 0 .. MaxSteps + 1, NEW k \in Kinds,
           NEW c \in Nat, c <= Calls \/ c <= MaxCycles
    PROVE  [turn |-> t, step |-> n, kind |-> k, call |-> c] \in Messages
BY BoundsAssumption DEF Messages

LEMMA MessageFields ==
    ASSUME NEW r \in Messages
    PROVE  /\ r.turn \in Nat /\ r.turn <= MaxTurns /\ r.step \in Nat /\ r.step <= MaxSteps + 1
           /\ r.kind \in Kinds /\ r.call \in Nat
BY BoundsAssumption DEF Messages

LEMMA LengthIsNat == ASSUME NEW s \in Seq(Messages) PROVE Len(s) \in Nat
BY LenProperties

\* Where the rows of a concatenation come from.
LEMMA Joined ==
    ASSUME NEW a \in Seq(Messages), NEW b \in Seq(Messages)
    PROVE  /\ a \o b \in Seq(Messages) /\ Len(a \o b) = Len(a) + Len(b)
           /\ Len(a) \in Nat /\ Len(b) \in Nat
           /\ \A i \in 1 .. Len(a) : (a \o b)[i] = a[i]
           /\ \A i \in 1 .. Len(b) : (a \o b)[Len(a) + i] = b[i]
           /\ \A i \in 1 .. Len(a \o b) : i > Len(a) => i - Len(a) \in 1 .. Len(b)
                                                     /\ (a \o b)[i] = b[i - Len(a)]
           /\ \A i \in 1 .. Len(a \o b) : i <= Len(a) => i \in 1 .. Len(a)
<1>1. /\ a \o b \in Seq(Messages) /\ Len(a \o b) = Len(a) + Len(b)
      /\ \A i \in 1 .. Len(a) + Len(b) :
            (a \o b)[i] = IF i <= Len(a) THEN a[i] ELSE b[i - Len(a)]
  BY ConcatProperties
<1>2. Len(a) \in Nat /\ Len(b) \in Nat
  BY LengthIsNat
<1> QED BY <1>1, <1>2

LEMMA SetOf ==
    ASSUME NEW s \in Seq(Messages)
    PROVE  /\ \A r : r \in ToSet(s) <=> \E i \in 1 .. Len(s) : r = s[i]
           /\ ToSet(s) \subseteq Messages
<1>1. DOMAIN s = 1 .. Len(s) /\ \A i \in 1 .. Len(s) : s[i] \in Messages
  BY LenProperties, ElementOfSeq
<1> QED BY <1>1 DEF ToSet

LEMMA SetOfJoined ==
    ASSUME NEW a \in Seq(Messages), NEW b \in Seq(Messages)
    PROVE  ToSet(a \o b) = ToSet(a) \cup ToSet(b)
<1>1. /\ a \o b \in Seq(Messages) /\ Len(a \o b) = Len(a) + Len(b)
      /\ Len(a) \in Nat /\ Len(b) \in Nat
      /\ \A i \in 1 .. Len(a) : (a \o b)[i] = a[i]
      /\ \A i \in 1 .. Len(b) : (a \o b)[Len(a) + i] = b[i]
      /\ \A i \in 1 .. Len(a \o b) : i > Len(a) => i - Len(a) \in 1 .. Len(b)
                                                /\ (a \o b)[i] = b[i - Len(a)]
  BY Joined
<1>2. /\ \A r : r \in ToSet(a) <=> \E i \in 1 .. Len(a) : r = a[i]
      /\ \A r : r \in ToSet(b) <=> \E i \in 1 .. Len(b) : r = b[i]
      /\ \A r : r \in ToSet(a \o b) <=> \E i \in 1 .. Len(a \o b) : r = (a \o b)[i]
  BY <1>1, SetOf
<1>3. ASSUME NEW r \in ToSet(a \o b) PROVE r \in ToSet(a) \cup ToSet(b)
  <2>1. PICK i \in 1 .. Len(a \o b) : r = (a \o b)[i]
    BY <1>2
  <2>2. CASE i <= Len(a)
    <3>1. i \in 1 .. Len(a) /\ r = a[i]
      BY <1>1, <2>1, <2>2
    <3> QED BY <1>2, <3>1
  <2>3. CASE i > Len(a)
    BY <1>1, <1>2, <2>1, <2>3
  <2> QED BY <1>1, <2>2, <2>3
<1>4. ASSUME NEW r \in ToSet(a) PROVE r \in ToSet(a \o b)
  <2>1. PICK i \in 1 .. Len(a) : r = a[i]
    BY <1>2
  <2>2. i \in 1 .. Len(a \o b)
    BY <1>1
  <2> QED BY <1>1, <1>2, <2>1, <2>2
<1>5. ASSUME NEW r \in ToSet(b) PROVE r \in ToSet(a \o b)
  <2>1. PICK i \in 1 .. Len(b) : r = b[i]
    BY <1>2
  <2>2. Len(a) + i \in 1 .. Len(a \o b)
    BY <1>1
  <2> QED BY <1>1, <1>2, <2>1, <2>2
<1> QED BY <1>3, <1>4, <1>5

\* Calls with their results stay together in a longer history.
LEMMA LegalJoined ==
    ASSUME NEW a \in Seq(Messages), NEW b \in Seq(Messages), Legal(a), Legal(b)
    PROVE  Legal(a \o b)
<1> DEFINE s == a \o b
<1>1. /\ s \in Seq(Messages) /\ Len(s) = Len(a) + Len(b)
      /\ Len(a) \in Nat /\ Len(b) \in Nat
      /\ \A i \in 1 .. Len(a) : s[i] = a[i]
      /\ \A i \in 1 .. Len(b) : s[Len(a) + i] = b[i]
      /\ \A i \in 1 .. Len(s) : i > Len(a) => i - Len(a) \in 1 .. Len(b)
                                                /\ s[i] = b[i - Len(a)]
  BY Joined
<1>2. Calls \in Nat \ {0}
  BY BoundsAssumption
<1> HIDE DEF s
<1>3. ASSUME NEW i \in 1 .. Len(s), s[i].kind = "calls", NEW c \in 1 .. Calls
      PROVE  i + c <= Len(s) /\ s[i + c].call = c /\ s[i + c].kind \in ToolKinds
  <2>1. CASE i <= Len(a)
    <3>1. i \in 1 .. Len(a) /\ a[i].kind = "calls"
      BY <1>1, <1>3, <2>1
    <3>2. i + c <= Len(a) /\ a[i + c].call = c /\ a[i + c].kind \in ToolKinds
      BY <3>1 DEF Legal
    <3>3. i + c \in 1 .. Len(a) /\ i + c <= Len(s)
      BY <1>1, <1>2, <3>1, <3>2
    <3> QED BY <1>1, <3>2, <3>3
  <2>2. CASE i > Len(a)
    <3> DEFINE k == i - Len(a)
    <3>1. k \in 1 .. Len(b) /\ b[k].kind = "calls" /\ i = Len(a) + k
      BY <1>1, <1>3, <2>2
    <3> HIDE DEF k
    <3>2. k + c <= Len(b) /\ b[k + c].call = c /\ b[k + c].kind \in ToolKinds
      BY <3>1 DEF Legal
    <3>3. k + c \in 1 .. Len(b) /\ i + c <= Len(s) /\ i + c = Len(a) + (k + c)
      <4>1. Len(a) \in Nat /\ Len(b) \in Nat /\ Len(s) = Len(a) + Len(b)
        BY <1>1
      <4> QED BY <1>2, <3>1, <3>2, <4>1
    <3>4. s[i + c] = b[k + c]
      BY <1>1, <3>3
    <3> QED BY <3>2, <3>3, <3>4
  <2> QED BY <1>1, <2>1, <2>2
<1>4. ASSUME NEW i \in 1 .. Len(s), s[i].kind \in ToolKinds
      PROVE  LET j == i - s[i].call
             IN  j >= 1 /\ s[j].kind = "calls"
                 /\ <<s[j].turn, s[j].step>> = <<s[i].turn, s[i].step>>
  <2>1. CASE i <= Len(a)
    <3>1. i \in 1 .. Len(a) /\ s[i] = a[i] /\ a[i].kind \in ToolKinds /\ a[i].call \in Nat
      <4>1. i \in 1 .. Len(a) /\ s[i] = a[i]
        BY <1>1, <2>1
      <4> QED BY <1>4, <4>1, ElementOfSeq, MessageFields
    <3>2. /\ i - a[i].call >= 1 /\ a[i - a[i].call].kind = "calls"
          /\ a[i - a[i].call].turn = a[i].turn /\ a[i - a[i].call].step = a[i].step
      BY <3>1 DEF Legal
    <3>3. i - a[i].call \in 1 .. Len(a)
      BY <1>1, <3>1, <3>2
    <3>4. s[i - a[i].call] = a[i - a[i].call]
      BY <1>1, <3>3
    <3> QED BY <3>1, <3>2, <3>4
  <2>2. CASE i > Len(a)
    <3> DEFINE k == i - Len(a)
    <3>1. /\ k \in 1 .. Len(b) /\ s[i] = b[k] /\ b[k].kind \in ToolKinds /\ b[k].call \in Nat
          /\ i = Len(a) + k
      <4>1. k \in 1 .. Len(b) /\ s[i] = b[k] /\ i = Len(a) + k
        BY <1>1, <2>2
      <4> QED BY <1>4, <4>1, ElementOfSeq, MessageFields
    <3> HIDE DEF k
    <3>2. /\ k - b[k].call >= 1 /\ b[k - b[k].call].kind = "calls"
          /\ b[k - b[k].call].turn = b[k].turn /\ b[k - b[k].call].step = b[k].step
      BY <3>1 DEF Legal
    <3>3. /\ k - b[k].call \in 1 .. Len(b) /\ i - b[k].call = Len(a) + (k - b[k].call)
          /\ i - b[k].call >= 1
      <4>1. Len(a) \in Nat /\ Len(b) \in Nat
        BY <1>1
      <4> QED BY <3>1, <3>2, <4>1, SMTT(30)
    <3>4. s[i - b[k].call] = b[k - b[k].call]
      BY <1>1, <3>3
    <3> QED BY <3>1, <3>2, <3>3, <3>4
  <2> QED BY <1>1, <2>1, <2>2
<1>5. Legal(s)
  BY <1>3, <1>4 DEF Legal
<1> QED BY <1>5 DEF s

\* Two rows are the same message, or two results of one call.
Same(r, q) ==
    /\ r.turn = q.turn /\ r.step = q.step /\ r.call = q.call
    /\ r.kind = q.kind \/ {r.kind, q.kind} \subseteq ToolKinds

LEMMA OnceMeans ==
    ASSUME NEW s
    PROVE  OnceEach(s) <=> \A i, j \in 1 .. Len(s) : Same(s[i], s[j]) => i = j
BY DEF OnceEach, Same

LEMMA OnceJoined ==
    ASSUME NEW a \in Seq(Messages), NEW b \in Seq(Messages), OnceEach(a), OnceEach(b),
           \A i \in 1 .. Len(a), j \in 1 .. Len(b) : ~Same(a[i], b[j])
    PROVE  OnceEach(a \o b)
<1> DEFINE s == a \o b
<1>1. /\ Len(s) = Len(a) + Len(b)
      /\ Len(a) \in Nat /\ Len(b) \in Nat
      /\ \A i \in 1 .. Len(a) : s[i] = a[i]
      /\ \A i \in 1 .. Len(s) : i > Len(a) => i - Len(a) \in 1 .. Len(b)
                                                /\ s[i] = b[i - Len(a)]
  BY Joined
<1> HIDE DEF s
<1>2. /\ \A i, j \in 1 .. Len(a) : Same(a[i], a[j]) => i = j
      /\ \A i, j \in 1 .. Len(b) : Same(b[i], b[j]) => i = j
  BY OnceMeans
<1>3. \A i \in 1 .. Len(a), j \in 1 .. Len(b) : ~Same(b[j], a[i])
  BY DEF Same
<1>4. ASSUME NEW i \in 1 .. Len(s), NEW j \in 1 .. Len(s), Same(s[i], s[j]) PROVE i = j
  <2>1. CASE i <= Len(a) /\ j <= Len(a)
    <3>1. i \in 1 .. Len(a) /\ j \in 1 .. Len(a) /\ s[i] = a[i] /\ s[j] = a[j]
      BY <1>1, <2>1
    <3> QED BY <1>2, <1>4, <3>1
  <2>2. CASE i > Len(a) /\ j > Len(a)
    <3>1. /\ i - Len(a) \in 1 .. Len(b) /\ j - Len(a) \in 1 .. Len(b)
          /\ s[i] = b[i - Len(a)] /\ s[j] = b[j - Len(a)]
      BY <1>1, <2>2
    <3>2. i - Len(a) = j - Len(a)
      BY <1>2, <1>4, <3>1
    <3> QED BY <1>1, <3>2
  <2>3. CASE i <= Len(a) /\ j > Len(a)
    <3>1. /\ i \in 1 .. Len(a) /\ j - Len(a) \in 1 .. Len(b)
          /\ s[i] = a[i] /\ s[j] = b[j - Len(a)]
      BY <1>1, <2>3
    <3> QED BY <1>4, <3>1
  <2>4. CASE i > Len(a) /\ j <= Len(a)
    <3>1. /\ j \in 1 .. Len(a) /\ i - Len(a) \in 1 .. Len(b)
          /\ s[j] = a[j] /\ s[i] = b[i - Len(a)]
      BY <1>1, <2>4
    <3> QED BY <1>3, <1>4, <3>1
  <2> QED BY <1>1, <2>1, <2>2, <2>3, <2>4
<1>5. OnceEach(s)
  BY <1>4, OnceMeans
<1> QED BY <1>5 DEF s

\* A message that belongs to no call.
LEMMA OneRow ==
    ASSUME NEW r \in Messages, r.kind \notin ToolKinds \cup {"calls"}
    PROVE  /\ <<r>> \in Seq(Messages) /\ Len(<<r>>) = 1 /\ <<r>>[1] = r
           /\ Legal(<<r>>) /\ OnceEach(<<r>>)
<1>1. <<r>> \in Seq(Messages) /\ Len(<<r>>) = 1 /\ <<r>>[1] = r
  OBVIOUS
<1> DEFINE s == <<r>>
<1>2. \A i \in 1 .. Len(s) : i = 1 /\ s[i] = r
  BY <1>1
<1>3. Legal(s) /\ OnceEach(s)
  <2> HIDE DEF s
  <2> QED BY <1>2 DEF Legal, OnceEach
<1> QED BY <1>1, <1>3

-----------------------------------------------------------------------------
(* The messages of a checkpoint *)

LEMMA ToolRowsAre ==
    ASSUME NEW c, c.turn \in 1 .. MaxTurns, c.step \in 1 .. MaxSteps, NEW kind \in ToolKinds
    PROVE  /\ ToolRows(c, kind) \in Seq(Messages) /\ Len(ToolRows(c, kind)) = Calls
           /\ \A i \in 1 .. Calls :
                 ToolRows(c, kind)[i] = [turn |-> c.turn, step |-> c.step, kind |-> kind, call |-> i]
<1>1. Calls \in Nat \ {0} /\ kind \in Kinds /\ MaxSteps \in Nat
  BY BoundsAssumption DEF ToolKinds, Kinds
<1>2. ASSUME NEW i \in 1 .. Calls
      PROVE  [turn |-> c.turn, step |-> c.step, kind |-> kind, call |-> i] \in Messages
  <2>1. c.turn \in 0 .. MaxTurns /\ c.step \in 0 .. MaxSteps + 1 /\ i \in Nat /\ i <= Calls
    BY <1>1
  <2> QED BY <1>1, <2>1, MessageRow
<1>3. ToolRows(c, kind) \in [1 .. Calls -> Messages]
  BY <1>2 DEF ToolRows
<1>4. ToolRows(c, kind) \in Seq(Messages) /\ Len(ToolRows(c, kind)) = Calls
  BY <1>1, <1>3
<1> QED BY <1>4 DEF ToolRows

\* Calls and their results.
LEMMA CallBlock ==
    ASSUME NEW c, c.turn \in 1 .. MaxTurns, c.step \in 1 .. MaxSteps, NEW kind \in ToolKinds
    PROVE  LET b == <<CallsRow(c)>> \o ToolRows(c, kind)
           IN  /\ b \in Seq(Messages) /\ Len(b) = Calls + 1
               /\ b[1] = CallsRow(c) /\ CallsRow(c) \in Messages
               /\ \A i \in 1 .. Calls :
                     b[1 + i] = [turn |-> c.turn, step |-> c.step, kind |-> kind, call |-> i]
               /\ Legal(b) /\ OnceEach(b)
<1> DEFINE a == <<CallsRow(c)>>
           d == ToolRows(c, kind)
           b == a \o d
<1>1. Calls \in Nat \ {0} /\ MaxSteps \in Nat /\ ToolKinds = {"result", "interrupted"}
  BY BoundsAssumption DEF ToolKinds
<1>2. /\ d \in Seq(Messages) /\ Len(d) = Calls
      /\ \A i \in 1 .. Calls : d[i] = [turn |-> c.turn, step |-> c.step, kind |-> kind, call |-> i]
  BY ToolRowsAre
<1>3. CallsRow(c) \in Messages
  <2>1. c.turn \in 0 .. MaxTurns /\ c.step \in 0 .. MaxSteps + 1 /\ "calls" \in Kinds
        /\ 0 \in Nat /\ 0 <= Calls
    BY <1>1 DEF Kinds
  <2> QED BY <2>1, MessageRow DEF CallsRow
<1>4. a \in Seq(Messages) /\ Len(a) = 1 /\ a[1] = CallsRow(c)
  BY <1>3
<1> HIDE DEF a, d
<1>5. /\ b \in Seq(Messages) /\ Len(b) = Len(a) + Len(d)
      /\ \A i \in 1 .. Len(a) : b[i] = a[i]
      /\ \A i \in 1 .. Len(d) : b[Len(a) + i] = d[i]
      /\ \A i \in 1 .. Len(b) : i > Len(a) => i - Len(a) \in 1 .. Len(d)
                                                /\ b[i] = d[i - Len(a)]
  BY <1>2, <1>4, Joined
<1> HIDE DEF b
<1>6. /\ Len(b) = Calls + 1 /\ b[1] = CallsRow(c)
      /\ \A i \in 1 .. Calls : b[1 + i] = [turn |-> c.turn, step |-> c.step, kind |-> kind, call |-> i]
  BY <1>1, <1>2, <1>4, <1>5
<1>7. \A i \in 2 .. Calls + 1 :
          b[i] = [turn |-> c.turn, step |-> c.step, kind |-> kind, call |-> i - 1]
  <2> SUFFICES ASSUME NEW i \in 2 .. Calls + 1
               PROVE  b[i] = [turn |-> c.turn, step |-> c.step, kind |-> kind, call |-> i - 1]
    OBVIOUS
  <2>1. i - 1 \in 1 .. Calls /\ 1 + (i - 1) = i
    BY <1>1
  <2> QED BY <1>6, <2>1
<1>8. /\ b[1].kind = "calls" /\ b[1].turn = c.turn /\ b[1].step = c.step /\ b[1].call = 0
      /\ \A i \in 2 .. Calls + 1 : /\ b[i].kind = kind /\ b[i].turn = c.turn /\ b[i].step = c.step
                                   /\ b[i].call = i - 1
  <2>1. /\ b[1].kind = "calls" /\ b[1].turn = c.turn /\ b[1].step = c.step /\ b[1].call = 0
    BY <1>6 DEF CallsRow
  <2>2. ASSUME NEW i \in 2 .. Calls + 1
        PROVE  /\ b[i].kind = kind /\ b[i].turn = c.turn /\ b[i].step = c.step
               /\ b[i].call = i - 1
    <3>1. b[i] = [turn |-> c.turn, step |-> c.step, kind |-> kind, call |-> i - 1]
      BY <1>7
    <3> QED BY <3>1
  <2> QED BY <2>1, <2>2
<1>9. "calls" \notin ToolKinds /\ kind # "calls"
  BY <1>1
<1>10. Legal(b)
  <2>1. ASSUME NEW i \in 1 .. Len(b), b[i].kind = "calls", NEW n \in 1 .. Calls
        PROVE  i + n <= Len(b) /\ b[i + n].call = n /\ b[i + n].kind \in ToolKinds
    <3>1. i = 1
      BY <1>1, <1>6, <1>8, <1>9, <2>1
    <3>2. i + n \in 2 .. Calls + 1 /\ i + n - 1 = n
      BY <1>1, <3>1
    <3> QED BY <1>6, <1>8, <3>2
  <2>2. ASSUME NEW i \in 1 .. Len(b), b[i].kind \in ToolKinds
        PROVE  LET j == i - b[i].call
               IN  j >= 1 /\ b[j].kind = "calls"
                   /\ <<b[j].turn, b[j].step>> = <<b[i].turn, b[i].step>>
    <3>1. i \in 2 .. Calls + 1
      BY <1>1, <1>6, <1>8, <1>9, <2>2
    <3>2. i - b[i].call = 1
      BY <1>1, <1>8, <3>1
    <3>3. /\ b[1].turn = c.turn /\ b[1].step = c.step /\ b[1].kind = "calls"
          /\ b[i].turn = c.turn /\ b[i].step = c.step
      BY <1>8, <3>1
    <3> QED BY <3>2, <3>3
  <2> QED BY <2>1, <2>2 DEF Legal
<1>11. OnceEach(b)
  <2> SUFFICES ASSUME NEW i \in 1 .. Len(b), NEW j \in 1 .. Len(b), Same(b[i], b[j]) PROVE i = j
    BY OnceMeans
  <2>1. \A n \in 1 .. Len(b) : b[n].call = n - 1
    BY <1>1, <1>6, <1>8, SMTT(30)
  <2>2. i - 1 = j - 1
    BY <2>1 DEF Same
  <2> QED BY <1>1, <1>6, <2>2
<1> QED BY <1>3, <1>5, <1>6, <1>10, <1>11 DEF a, b, d

LEMMA RowsOfAre ==
    ASSUME NEW c \in Checkpoints
    PROVE  LET R == RowsOf(c)
           IN  /\ R \in Seq(Messages) /\ Len(R) \in Nat \ {0} /\ Legal(R) /\ OnceEach(R)
               /\ \A i \in 1 .. Len(R) :
                     /\ R[i].turn = c.turn /\ R[i].step = c.step
                     /\ R[i].kind \in ToolKinds \cup {"calls", "final"}
               /\ Len(R) # 1 => R[1].kind = "calls" /\ Len(R) = Calls + 1
<1>1. /\ c.turn \in 1 .. MaxTurns /\ c.step \in 1 .. MaxSteps
      /\ c.phase \in {"awaiting_tools", "tools_completed", "final_response"}
      /\ Calls \in Nat \ {0} /\ MaxSteps \in Nat
  BY BoundsAssumption DEF Checkpoints
<1>2. ASSUME NEW kind \in ToolKinds, RowsOf(c) = <<CallsRow(c)>> \o ToolRows(c, kind)
      PROVE  /\ RowsOf(c) \in Seq(Messages) /\ Len(RowsOf(c)) = Calls + 1
             /\ Legal(RowsOf(c)) /\ OnceEach(RowsOf(c)) /\ RowsOf(c)[1].kind = "calls"
             /\ \A i \in 1 .. Len(RowsOf(c)) :
                     /\ RowsOf(c)[i].turn = c.turn /\ RowsOf(c)[i].step = c.step
                     /\ RowsOf(c)[i].kind \in ToolKinds \cup {"calls", "final"}
  <2> DEFINE b == <<CallsRow(c)>> \o ToolRows(c, kind)
  <2>1. /\ b \in Seq(Messages) /\ Len(b) = Calls + 1 /\ b[1] = CallsRow(c)
        /\ \A i \in 1 .. Calls :
              b[1 + i] = [turn |-> c.turn, step |-> c.step, kind |-> kind, call |-> i]
        /\ Legal(b) /\ OnceEach(b)
    BY <1>1, CallBlock
  <2>2. RowsOf(c) = b
    BY <1>2
  <2> HIDE DEF b
  <2>3. ASSUME NEW i \in 1 .. Len(b)
        PROVE  /\ b[i].turn = c.turn /\ b[i].step = c.step
               /\ b[i].kind \in ToolKinds \cup {"calls", "final"}
    <3>1. CASE i = 1
      BY <2>1, <3>1 DEF CallsRow
    <3>2. CASE i # 1
      <4>1. i - 1 \in 1 .. Calls /\ 1 + (i - 1) = i
        BY <1>1, <2>1, <3>2
      <4>2. b[i] = [turn |-> c.turn, step |-> c.step, kind |-> kind, call |-> i - 1]
        BY <2>1, <4>1
      <4> QED BY <4>2
    <3> QED BY <3>1, <3>2
  <2>4. b[1].kind = "calls"
    BY <2>1 DEF CallsRow
  <2> QED BY <2>1, <2>2, <2>3, <2>4
<1>3. CASE c.phase \in {"awaiting_tools", "tools_completed"}
  <2>1. \E kind \in ToolKinds : RowsOf(c) = <<CallsRow(c)>> \o ToolRows(c, kind)
    <3>1. CASE c.phase = "awaiting_tools"
      BY <3>1 DEF RowsOf, ToolKinds
    <3>2. CASE c.phase = "tools_completed"
      BY <3>2 DEF RowsOf, ToolKinds
    <3> QED BY <1>3, <3>1, <3>2
  <2>2. PICK kind \in ToolKinds : RowsOf(c) = <<CallsRow(c)>> \o ToolRows(c, kind)
    BY <2>1
  <2>3. /\ RowsOf(c) \in Seq(Messages) /\ Len(RowsOf(c)) = Calls + 1
        /\ Legal(RowsOf(c)) /\ OnceEach(RowsOf(c)) /\ RowsOf(c)[1].kind = "calls"
        /\ \A i \in 1 .. Len(RowsOf(c)) :
              /\ RowsOf(c)[i].turn = c.turn /\ RowsOf(c)[i].step = c.step
              /\ RowsOf(c)[i].kind \in ToolKinds \cup {"calls", "final"}
    BY <1>2, <2>2
  <2> QED BY <1>1, <2>3
<1>5. CASE c.phase = "final_response"
  <2> DEFINE r == [turn |-> c.turn, step |-> c.step, kind |-> "final", call |-> 0]
  <2>1. RowsOf(c) = <<r>>
    BY <1>5 DEF RowsOf
  <2>2. r \in Messages
    <3>1. c.turn \in 0 .. MaxTurns /\ c.step \in 0 .. MaxSteps + 1 /\ "final" \in Kinds
          /\ 0 \in Nat /\ 0 <= Calls
      BY <1>1 DEF Kinds
    <3> QED BY <3>1, MessageRow
  <2>3. r.turn = c.turn /\ r.step = c.step /\ r.kind = "final" /\ r.kind \notin ToolKinds \cup {"calls"}
    BY DEF ToolKinds
  <2> HIDE DEF r
  <2>4. /\ <<r>> \in Seq(Messages) /\ Len(<<r>>) = 1 /\ <<r>>[1] = r
        /\ Legal(<<r>>) /\ OnceEach(<<r>>)
    BY <2>2, <2>3, OneRow
  <2>5. Len(RowsOf(c)) = 1 /\ RowsOf(c)[1] = r
    BY <2>1
  <2>6. \A i \in 1 .. Len(RowsOf(c)) : i = 1
    BY <2>5
  <2> QED BY <2>1, <2>3, <2>4, <2>5, <2>6
<1> QED BY <1>1, <1>3, <1>5

-----------------------------------------------------------------------------
(* Restoring *)

\* The longest overlap is one.
LEMMA OverlapIs ==
    ASSUME NEW rows \in Seq(Messages), NEW R \in Seq(Messages)
    PROVE  LET n == Overlap(rows, R)
           IN  /\ n \in 0 .. Len(R) /\ n <= Len(rows)
               /\ SubSeq(rows, Len(rows) - n + 1, Len(rows)) = SubSeq(R, 1, n)
<1> DEFINE common(n) == SubSeq(rows, Len(rows) - n + 1, Len(rows)) = SubSeq(R, 1, n)
           sizes == {n \in 0 .. Len(R) : n <= Len(rows) /\ common(n)}
           T == {m \in 0 .. Len(R) : Len(R) - m \in sizes}
<1>1. Len(rows) \in Nat /\ Len(R) \in Nat
  BY LengthIsNat
<1>2. 0 \in sizes
  <2>1. SubSeq(rows, Len(rows) + 1, Len(rows)) = <<>>
    BY <1>1, SubSeqEmpty
  <2>2. SubSeq(R, 1, 0) = <<>>
    BY SubSeqEmpty
  <2>3. Len(rows) - 0 + 1 = Len(rows) + 1
    BY <1>1
  <2> QED BY <1>1, <2>1, <2>2, <2>3
<1> HIDE DEF common
<1>3. sizes \subseteq 0 .. Len(R)
  OBVIOUS
<1> HIDE DEF sizes
<1>4. T \subseteq Nat /\ Len(R) \in T
  BY <1>1, <1>2
<1> HIDE DEF T
<1>5. PICK m \in T : \A y \in T : ~ (<<y, m>> \in OpToRel(<, Nat))
  BY <1>4, WFMin, NatLessThanWellFounded
<1>6. \A y \in T : ~ (y < m)
  BY <1>4, <1>5 DEF OpToRel
<1>7. m \in 0 .. Len(R) /\ Len(R) - m \in sizes
  BY <1>5 DEF T
<1>8. ASSUME NEW k \in sizes PROVE k <= Len(R) - m
  <2>1. k \in 0 .. Len(R)
    BY <1>3
  <2>2. Len(R) - k \in T
    <3>1. Len(R) - k \in 0 .. Len(R) /\ Len(R) - (Len(R) - k) = k
      BY <1>1, <2>1
    <3> QED BY <3>1 DEF T
  <2>3. ~ (Len(R) - k < m)
    BY <1>6, <2>2
  <2> QED BY <1>1, <1>7, <2>1, <2>3
<1>9. Overlap(rows, R) = CHOOSE n \in sizes : \A k \in sizes : k <= n
  BY DEF Overlap, sizes, common
<1>10. Overlap(rows, R) \in sizes
  BY <1>7, <1>8, <1>9
<1> QED BY <1>10 DEF sizes, common

\* Restoring adds all messages of a checkpoint, or none when they are there.
LEMMA RestoredCases ==
    ASSUME NEW rows \in Seq(Messages), NEW c \in Checkpoints, Legal(rows)
    PROVE  LET R == RowsOf(c)
           IN  \/ Restored(rows, c) = rows \o R
               \/ /\ Restored(rows, c) = rows /\ Len(R) <= Len(rows)
                  /\ \A i \in 1 .. Len(R) : rows[Len(rows) - Len(R) + i] = R[i]
<1> DEFINE R == RowsOf(c)
           n == Overlap(rows, R)
<1>1. /\ R \in Seq(Messages) /\ Len(R) \in Nat \ {0}
      /\ Len(R) # 1 => R[1].kind = "calls" /\ Len(R) = Calls + 1
  BY RowsOfAre
<1>2. Restored(rows, c) = rows \o SubSeq(R, n + 1, Len(R))
  BY NoneAssumption DEF Restored
<1> HIDE DEF R
<1>3. /\ n \in 0 .. Len(R) /\ n <= Len(rows)
      /\ SubSeq(rows, Len(rows) - n + 1, Len(rows)) = SubSeq(R, 1, n)
  BY <1>1, OverlapIs
<1>4. Len(rows) \in Nat /\ Calls \in Nat \ {0}
  BY LengthIsNat, BoundsAssumption
<1> HIDE DEF n
<1>5. \A i \in 1 .. n : rows[Len(rows) - n + i] = R[i]
  <2> SUFFICES ASSUME NEW i \in 1 .. n PROVE rows[Len(rows) - n + i] = R[i]
    OBVIOUS
  <2> DEFINE m == Len(rows) - n + 1
  <2>1. \A j \in m .. Len(rows) : rows[j] \in Messages
    BY <1>3, <1>4, ElementOfSeq
  <2>2. \A j \in 1 .. n : R[j] \in Messages
    BY <1>1, <1>3, ElementOfSeq
  <2>3. m \in Int /\ Len(rows) \in Int /\ n \in Int /\ Len(rows) - m + 1 = n
    BY <1>3, <1>4
  <2> HIDE DEF m
  <2>4. \A j \in 1 .. Len(rows) - m + 1 : SubSeq(rows, m, Len(rows))[j] = rows[m + j - 1]
    BY <2>1, <2>3, SubSeqProperties
  <2>5. \A j \in 1 .. n - 1 + 1 : SubSeq(R, 1, n)[j] = R[1 + j - 1]
    BY <2>2, <2>3, SubSeqProperties
  <2>6. SubSeq(rows, m, Len(rows))[i] = rows[m + i - 1]
    BY <2>3, <2>4
  <2>7. SubSeq(R, 1, n)[i] = R[i]
    <3>1. i \in 1 .. n - 1 + 1 /\ 1 + i - 1 = i
      BY <1>3
    <3> QED BY <2>5, <3>1
  <2>8. m + i - 1 = Len(rows) - n + i
    BY <1>3, <1>4 DEF m
  <2> QED BY <1>3, <2>6, <2>7, <2>8 DEF m
<1>6. n = 0 \/ n = Len(R)
  <2> SUFFICES ASSUME n # 0, n # Len(R) PROVE FALSE
    OBVIOUS
  <2>1. n \in 1 .. Calls /\ R[1].kind = "calls"
    <3>1. Len(R) # 1 /\ n \in 1 .. Len(R) - 1
      <4>1. Len(R) \in Nat \ {0} /\ n \in 0 .. Len(R)
        BY <1>1, <1>3
      <4>2. n >= 1
        BY <4>1
      <4>3. n < Len(R)
        BY <4>1
      <4>4. n \in 1 .. Len(R) - 1
        BY <4>1, <4>2, <4>3
      <4>5. ASSUME Len(R) = 1 PROVE FALSE
        <5>1. n < 1 /\ n \in Int
          BY <4>1, <4>3, <4>5
        <5> QED BY <4>2, <5>1
      <4> QED BY <4>4, <4>5
    <3>2. R[1].kind = "calls" /\ Len(R) = Calls + 1
      BY <1>1, <3>1
    <3> QED BY <1>4, <3>1, <3>2
  <2> DEFINE i == Len(rows) - n + 1
  <2>2. i \in 1 .. Len(rows) /\ rows[i] = R[1]
    BY <1>3, <1>4, <1>5, <2>1
  <2>3. i + Calls <= Len(rows)
    <3>1. Calls \in 1 .. Calls
      BY <1>4
    <3> HIDE DEF i
    <3> QED BY <2>1, <2>2, <3>1 DEF Legal
  <2> QED BY <1>3, <1>4, <2>1, <2>3
<1>7. CASE n = 0
  <2>1. SubSeq(R, n + 1, Len(R)) = R
    BY <1>1, <1>7, SubSeqFull
  <2> QED BY <1>2, <2>1 DEF R
<1>8. CASE n = Len(R)
  <2>1. n + 1 \in Int /\ Len(R) \in Int /\ Len(R) < n + 1
    BY <1>1, <1>8
  <2>2. SubSeq(R, n + 1, Len(R)) = <<>>
    BY <2>1, SubSeqEmpty
  <2>3. Restored(rows, c) = rows
    BY <1>2, <2>2, ConcatEmptySeq
  <2> QED BY <1>3, <1>5, <1>8, <2>3 DEF R
<1> QED BY <1>6, <1>7, <1>8

\* A later turn, or a failed archiving, leaves a good session good.
LEMMA GoodLater ==
    ASSUME NEW rows \in Seq(Messages), NEW c \in Checkpoints \cup {None},
           NEW t \in Nat, NEW t2 \in Nat, NEW u, NEW u2,
           Good(rows, c, t, u), t <= t2, u => u2
    PROVE  Good(rows, c, t2, u2)
<1>1. \A i \in 1 .. Len(rows) : rows[i].turn \in Nat
  BY ElementOfSeq, MessageFields
<1>2. c # None => c.turn \in Nat
  BY DEF Checkpoints
<1>3. Aged(rows, c, t2)
  BY <1>1, <1>2 DEF Good, Aged
<1> QED BY <1>3 DEF Good

\* A good session with more rows.
LEMMA GoodJoined ==
    ASSUME NEW rows \in Seq(Messages), NEW x \in Seq(Messages),
           NEW c \in Checkpoints \cup {None}, NEW d \in Checkpoints \cup {None},
           NEW t \in Nat, NEW u, NEW u2,
           Good(rows, c, t, u), Legal(x),
           \A j \in 1 .. Len(x) : x[j].turn <= t,
           d # None => d.turn <= t,
           u => u2,
           u2 \/ (/\ OnceEach(x) /\ \A i \in 1 .. Len(rows), j \in 1 .. Len(x) : ~Same(rows[i], x[j])
                  /\ d # None => /\ \A i \in 1 .. Len(rows) : rows[i].step # 0 => rows[i].turn # d.turn
                                 /\ \A i \in 1 .. Len(x) : x[i].step # 0 => x[i].turn # d.turn)
    PROVE  rows \o x \in Seq(Messages) /\ Good(rows \o x, d, t, u2)
<1> DEFINE s == rows \o x
<1>1. /\ s \in Seq(Messages) /\ Len(s) = Len(rows) + Len(x)
      /\ Len(rows) \in Nat /\ Len(x) \in Nat
      /\ \A i \in 1 .. Len(rows) : s[i] = rows[i]
      /\ \A i \in 1 .. Len(x) : s[Len(rows) + i] = x[i]
      /\ \A i \in 1 .. Len(s) : i > Len(rows) => i - Len(rows) \in 1 .. Len(x)
                                                /\ s[i] = x[i - Len(rows)]
      /\ \A i \in 1 .. Len(s) : i <= Len(rows) => i \in 1 .. Len(rows)
  BY Joined
<1>2. Legal(s)
  BY LegalJoined DEF Good
<1>3. ~u2 => OnceEach(s)
  BY OnceJoined DEF Good, Unique
<1> HIDE DEF s
<1>4. Aged(s, d, t)
  <2>1. ASSUME NEW i \in 1 .. Len(s) PROVE s[i].turn <= t
    <3>1. CASE i <= Len(rows)
      <4>1. i \in 1 .. Len(rows) /\ s[i] = rows[i]
        BY <1>1, <3>1
      <4> QED BY <4>1 DEF Good, Aged
    <3>2. CASE i > Len(rows)
      BY <1>1, <3>2
    <3> QED BY <1>1, <3>1, <3>2
  <2> QED BY <2>1 DEF Aged
<1>7. u2 \/ Unique(s, d)
  <2> SUFFICES ASSUME ~u2, d # None, NEW i \in 1 .. Len(s), s[i].step # 0 PROVE s[i].turn # d.turn
    BY <1>3 DEF Unique
  <2>1. CASE i <= Len(rows)
    BY <1>1, <2>1
  <2>2. CASE i > Len(rows)
    BY <1>1, <2>2
  <2> QED BY <1>1, <2>1, <2>2
<1> QED BY <1>1, <1>2, <1>4, <1>7 DEF Good, s

\* A restored session is good, and ends with what was restored.
EndsElse(rows) == Len(rows) # 0 => rows[Len(rows)].kind # "user"

LEMMA RestoredGood ==
    ASSUME NEW rows \in Seq(Messages), NEW c \in Checkpoints \cup {None}, NEW t \in Nat, NEW u,
           Good(rows, c, t, u)
    PROVE  /\ Restored(rows, c) \in Seq(Messages)
           /\ Good(Restored(rows, c), None, t, u)
           /\ c # None => EndsElse(Restored(rows, c))
           /\ ToSet(rows) \subseteq ToSet(Restored(rows, c))
           /\ c # None => ToSet(RowsOf(c)) \subseteq ToSet(Restored(rows, c))
<1>1. CASE c = None
  <2>1. Restored(rows, c) = rows
    BY <1>1 DEF Restored
  <2>2. Good(rows, None, t, u)
    BY <1>1
  <2> QED BY <1>1, <2>1, <2>2
<1>2. CASE c # None
  <2> DEFINE R == RowsOf(c)
  <2>1. c \in Checkpoints /\ Legal(rows) /\ c.turn \in Nat /\ c.step \in Nat \ {0}
    BY <1>2 DEF Good, Checkpoints
  <2>2. /\ R \in Seq(Messages) /\ Len(R) \in Nat \ {0} /\ Legal(R) /\ OnceEach(R)
        /\ \A i \in 1 .. Len(R) :
              /\ R[i].turn = c.turn /\ R[i].step = c.step
              /\ R[i].kind \in ToolKinds \cup {"calls", "final"}
    BY <2>1, RowsOfAre
  <2>3. \/ Restored(rows, c) = rows \o R
        \/ /\ Restored(rows, c) = rows /\ Len(R) <= Len(rows)
           /\ \A i \in 1 .. Len(R) : rows[Len(rows) - Len(R) + i] = R[i]
    BY <2>1, RestoredCases
  <2> HIDE DEF R
  <2>4. \A i \in 1 .. Len(R) : R[i].kind \notin UserKinds \cup {"event"}
    BY <2>2 DEF UserKinds, ToolKinds
  <2>5. CASE Restored(rows, c) = rows \o R
    <3>1. \A j \in 1 .. Len(R) : R[j].turn <= t
      BY <1>2, <2>1, <2>2 DEF Good, Aged
    <3>2. R[Len(R)].kind # "user"
      <4>1. Len(R) \in 1 .. Len(R)
        BY <2>2
      <4> QED BY <2>4, <4>1 DEF UserKinds
    <3>3. u \/ \A i \in 1 .. Len(rows), j \in 1 .. Len(R) : ~Same(rows[i], R[j])
      <4> SUFFICES ASSUME ~u, NEW i \in 1 .. Len(rows), NEW j \in 1 .. Len(R), Same(rows[i], R[j])
                   PROVE  FALSE
        OBVIOUS
      <4>1. rows[i].turn = c.turn /\ rows[i].step # 0
        BY <2>1, <2>2 DEF Same
      <4> QED BY <1>2, <4>1 DEF Good, Unique
    <3>5. rows \o R \in Seq(Messages) /\ Good(rows \o R, None, t, u)
      <4>1. /\ Legal(R) /\ OnceEach(R) /\ \A j \in 1 .. Len(R) : R[j].turn <= t
            /\ u \/ \A i \in 1 .. Len(rows), j \in 1 .. Len(R) : ~Same(rows[i], R[j])
        BY <2>2, <3>1, <3>3
      <4> QED BY <2>2, <4>1, GoodJoined
    <3>6. ToSet(rows \o R) = ToSet(rows) \cup ToSet(R)
      BY <2>2, SetOfJoined
    <3>7. EndsElse(rows \o R)
      <4>1. /\ Len(rows \o R) = Len(rows) + Len(R) /\ Len(rows) \in Nat
            /\ \A i \in 1 .. Len(R) : (rows \o R)[Len(rows) + i] = R[i]
        BY <2>2, Joined
      <4>2. Len(R) \in 1 .. Len(R)
        BY <2>2
      <4>3. (rows \o R)[Len(rows \o R)] = R[Len(R)]
        BY <4>1, <4>2
      <4> QED BY <3>2, <4>3 DEF EndsElse
    <3> QED BY <2>5, <3>5, <3>6, <3>7 DEF R
  <2>6. CASE /\ Restored(rows, c) = rows /\ Len(R) <= Len(rows)
             /\ \A i \in 1 .. Len(R) : rows[Len(rows) - Len(R) + i] = R[i]
    <3>1. Len(rows) \in Nat
      BY LengthIsNat
    <3>2. rows[Len(rows)] = R[Len(R)]
      <4>1. Len(R) \in 1 .. Len(R) /\ Len(rows) - Len(R) + Len(R) = Len(rows)
        BY <2>2, <3>1
      <4> QED BY <2>6, <4>1
    <3>3. rows[Len(rows)].kind # "user"
      <4>1. Len(R) \in 1 .. Len(R)
        BY <2>2
      <4> QED BY <2>4, <3>2, <4>1 DEF UserKinds
    <3>4. Good(rows, None, t, u) /\ EndsElse(rows)
      <4>1. Good(rows, None, t, u)
        BY DEF Good, Aged, Unique
      <4> QED BY <3>3, <4>1 DEF EndsElse
    <3>5. ToSet(R) \subseteq ToSet(rows)
      <4> SUFFICES ASSUME NEW r \in ToSet(R) PROVE r \in ToSet(rows)
        OBVIOUS
      <4>1. PICK i \in 1 .. Len(R) : r = R[i]
        BY <2>2, SetOf
      <4>2. Len(rows) - Len(R) + i \in 1 .. Len(rows)
        BY <2>2, <2>6, <3>1
      <4>3. r = rows[Len(rows) - Len(R) + i]
        BY <2>6, <4>1
      <4> QED BY <4>2, <4>3, SetOf
    <3> QED BY <2>6, <3>4, <3>5 DEF R
  <2> QED BY <2>3, <2>5, <2>6
<1> QED BY <1>1, <1>2

-----------------------------------------------------------------------------
(* The messages of a turn *)

\* A message more.
LEMMA Appended ==
    ASSUME NEW w \in Seq(Messages), NEW r \in Messages
    PROVE  /\ Append(w, r) = w \o <<r>> /\ <<r>> \in Seq(Messages) /\ Len(<<r>>) = 1 /\ <<r>>[1] = r
           /\ Append(w, r) \in Seq(Messages) /\ Len(Append(w, r)) = Len(w) + 1 /\ Len(w) \in Nat
           /\ \A i \in 1 .. Len(w) : Append(w, r)[i] = w[i]
           /\ Append(w, r)[Len(w) + 1] = r
           /\ ToSet(Append(w, r)) = ToSet(w) \cup {r}
<1>1. Append(w, r) = w \o <<r>>
  BY AppendIsConcat
<1>2. <<r>> \in Seq(Messages) /\ Len(<<r>>) = 1 /\ <<r>>[1] = r
  OBVIOUS
<1>3. /\ Append(w, r) \in Seq(Messages) /\ Len(Append(w, r)) = Len(w) + 1
      /\ \A i \in 1 .. Len(w) : Append(w, r)[i] = w[i]
      /\ Append(w, r)[Len(w) + 1] = r
  BY AppendProperties
<1>4. ToSet(<<r>>) = {r}
  BY DEF ToSet
<1>5. ToSet(Append(w, r)) = ToSet(w) \cup {r}
  BY <1>1, <1>2, <1>4, SetOfJoined
<1> QED BY <1>1, <1>2, <1>3, <1>5, LengthIsNat

LEMMA WorkJoined ==
    ASSUME NEW w \in Seq(Messages), NEW x \in Seq(Messages), NEW t, NEW n \in Nat, NEW m \in Nat,
           NEW k \in Nat, NEW l \in Nat, WorkGood(w, t, n, k), WorkGood(x, t, m, l), n <= m, k <= l,
           \A i \in 1 .. Len(w), j \in 1 .. Len(x) : ~Same(w[i], x[j])
    PROVE  w \o x \in Seq(Messages) /\ WorkGood(w \o x, t, m, l)
<1> DEFINE s == w \o x
<1>1. /\ s \in Seq(Messages) /\ Len(s) = Len(w) + Len(x)
      /\ Len(w) \in Nat /\ Len(x) \in Nat
      /\ \A i \in 1 .. Len(w) : s[i] = w[i]
      /\ \A i \in 1 .. Len(s) : i > Len(w) => i - Len(w) \in 1 .. Len(x)
                                                /\ s[i] = x[i - Len(w)]
      /\ \A i \in 1 .. Len(s) : i <= Len(w) => i \in 1 .. Len(w)
  BY Joined
<1>2. OnceEach(s)
  BY OnceJoined DEF WorkGood
<1> HIDE DEF s
<1>3. ASSUME NEW i \in 1 .. Len(s)
      PROVE  /\ s[i].turn = t /\ s[i].step # 0 /\ s[i].step <= m
             /\ s[i].kind \notin {"user", "event", "reply", "notice"}
             /\ s[i].kind = "followup" => s[i].call < l
  <2>1. CASE i <= Len(w)
    <3>1. i \in 1 .. Len(w) /\ s[i] = w[i]
      BY <1>1, <2>1
    <3>2. w[i].step \in Nat /\ w[i].call \in Nat
      BY <3>1, ElementOfSeq, MessageFields
    <3>3. /\ w[i].turn = t /\ w[i].step # 0 /\ w[i].step <= n
          /\ w[i].kind \notin {"user", "event", "reply", "notice"}
          /\ w[i].kind = "followup" => w[i].call < k
      BY <3>1 DEF WorkGood
    <3>4. w[i].step <= m /\ (w[i].kind = "followup" => w[i].call < l)
      BY <3>2, <3>3
    <3> QED BY <3>1, <3>3, <3>4
  <2>2. CASE i > Len(w)
    <3>1. i - Len(w) \in 1 .. Len(x) /\ s[i] = x[i - Len(w)]
      BY <1>1, <2>2
    <3> QED BY <3>1 DEF WorkGood
  <2> QED BY <1>1, <2>1, <2>2
<1> QED BY <1>1, <1>2, <1>3 DEF WorkGood, s

\* With more responses and injections, nothing changes.
LEMMA WorkLater ==
    ASSUME NEW w \in Seq(Messages), NEW t, NEW n \in Nat, NEW m \in Nat, NEW k \in Nat, NEW l \in Nat,
           WorkGood(w, t, n, k), n <= m, k <= l
    PROVE  WorkGood(w, t, m, l)
<1> SUFFICES ASSUME NEW i \in 1 .. Len(w)
             PROVE  w[i].step <= m /\ (w[i].kind = "followup" => w[i].call < l)
  BY DEF WorkGood
<1>1. w[i].step \in Nat /\ w[i].call \in Nat
  BY ElementOfSeq, MessageFields
<1> QED BY <1>1 DEF WorkGood

\* A message of a turn, other than a result, after its other messages.
LEMMA WorkAppended ==
    ASSUME NEW w \in Seq(Messages), NEW r \in Messages, NEW n \in Nat, NEW m \in Nat,
           NEW k \in Nat, NEW l \in Nat,
           WorkGood(w, r.turn, n, k), n <= m, k <= l, r.step # 0, r.step <= m,
           r.kind \notin {"user", "event", "reply", "notice"} \cup ToolKinds,
           r.kind = "followup" => r.call < l,
           \A i \in 1 .. Len(w) : ~Same(w[i], r)
    PROVE  /\ Append(w, r) \in Seq(Messages) /\ WorkGood(Append(w, r), r.turn, m, l)
           /\ ToSet(w) \subseteq ToSet(Append(w, r)) /\ r \in ToSet(Append(w, r))
           /\ Len(Append(w, r)) # 0
           /\ Legal(w) /\ r.kind # "calls" => Legal(Append(w, r))
<1>1. /\ Append(w, r) = w \o <<r>> /\ <<r>> \in Seq(Messages) /\ Len(<<r>>) = 1 /\ <<r>>[1] = r
      /\ Append(w, r) \in Seq(Messages) /\ Len(Append(w, r)) = Len(w) + 1 /\ Len(w) \in Nat
      /\ \A i \in 1 .. Len(w) : Append(w, r)[i] = w[i]
      /\ Append(w, r)[Len(w) + 1] = r
      /\ ToSet(Append(w, r)) = ToSet(w) \cup {r}
  BY Appended
<1> DEFINE x == <<r>>
<1>2. /\ x \in Seq(Messages) /\ \A i \in 1 .. Len(x) : i = 1 /\ x[i] = r
  BY <1>1
<1>3. Append(w, r) = w \o x
  BY <1>1
<1>4. Legal(w) /\ r.kind # "calls" => Legal(Append(w, r))
  <2> SUFFICES ASSUME Legal(w), r.kind # "calls" PROVE Legal(Append(w, r))
    OBVIOUS
  <2>1. Legal(x)
    BY OneRow
  <2> HIDE DEF x
  <2> QED BY <1>2, <1>3, <2>1, LegalJoined
<1> HIDE DEF x
<1>5. WorkGood(x, r.turn, m, l)
  <2>1. OnceEach(x)
    BY <1>2 DEF OnceEach
  <2> QED BY <1>2, <2>1 DEF WorkGood
<1>6. \A i \in 1 .. Len(w), j \in 1 .. Len(x) : ~Same(w[i], x[j])
  BY <1>2
<1>7. WorkGood(Append(w, r), r.turn, m, l)
  BY <1>2, <1>3, <1>5, <1>6, WorkJoined
<1>9. Len(Append(w, r)) # 0
  BY <1>1
<1> QED BY <1>1, <1>4, <1>7, <1>9

-----------------------------------------------------------------------------
(* What the steps have in common *)

LEMMA Typed ==
    ASSUME TypeOK
    PROVE  /\ history \in Seq(Messages) /\ work \in Seq(Messages)
           /\ pending \in BOOLEAN /\ check \in Checkpoints \cup {None}
           /\ disk.rows \in Seq(Messages) /\ disk.pending \in BOOLEAN
           /\ disk.check \in Checkpoints \cup {None}
           /\ turn \in Nat /\ turn <= MaxTurns /\ step \in Nat /\ step <= MaxSteps
           /\ cycles \in Nat /\ cycles <= MaxCycles /\ cleared \in Nat /\ cleared <= turn
           /\ continued \subseteq 1 .. turn /\ unarchived \in BOOLEAN
           /\ MaxTurns \in Nat /\ MaxSteps \in Nat \ {0} /\ MaxCycles \in Nat /\ Calls \in Nat \ {0}
BY BoundsAssumption DEF TypeOK

LEMMA NothingYet ==
    ASSUME NEW t, NEW n, NEW k
    PROVE  Legal(<<>>) /\ OnceEach(<<>>) /\ WorkGood(<<>>, t, n, k)
<1> DEFINE w == <<>>
<1>1. \A i \in 1 .. Len(w) : FALSE
  OBVIOUS
<1> HIDE DEF w
<1>2. Legal(w) /\ OnceEach(w)
  BY <1>1 DEF Legal, OnceEach
<1>3. WorkGood(w, t, n, k)
  BY <1>1, <1>2 DEF WorkGood
<1> QED BY <1>2, <1>3 DEF w

\* Between turns there is nothing to say of the running one.
LEMMA EmptyRun ==
    ASSUME phase' = "idle", work' = <<>>
    PROVE  RunInv'
<1>1. Len(work') = 0 /\ \A i \in 1 .. Len(work') : FALSE
  OBVIOUS
<1>2. Legal(work') /\ WorkGood(work', turn', Reached', cycles')
  BY NothingYet
<1>5. WorkRows'
  BY <1>2 DEF WorkRows, InModel
<1>3. CallsLast' /\ CheckFits' /\ HistoryFits'
  BY <1>1 DEF CallsLast, CheckFits, HistoryFits, InModel
<1> QED BY <1>3, <1>5 DEF RunInv

\* The session is saved, or what is on disk stays; the history only grows.
LEMMA SavedOrNot ==
    ASSUME TypeOK, SessionInv, turn' \in Nat, turn <= turn', unarchived => unarchived',
           history' \in Seq(Messages), pending' \in BOOLEAN, check' \in Checkpoints \cup {None},
           Good(history', check', turn', unarchived'),
           disk' = disk \/ disk' = Saved', cleared' = cleared,
           ToSet(history) \subseteq ToSet(history')
    PROVE  /\ SessionInv'
           /\ disk' \in [rows : Seq(Messages), pending : BOOLEAN, check : Checkpoints \cup {None}]
<1>1. CASE disk' = disk
  <2>1. Good(disk.rows, disk.check, turn', unarchived')
    <3>1. /\ disk.rows \in Seq(Messages) /\ disk.check \in Checkpoints \cup {None} /\ turn \in Nat
          /\ disk.check \in {disk.check, None}
      BY Typed
    <3>2. Good(disk.rows, disk.check, turn, unarchived)
      BY DEF SessionInv
    <3>3. unarchived => unarchived'
      OBVIOUS
    <3> QED BY <3>1, <3>2, <3>3, GoodLater
  <2>2. DiskFits'
    BY <1>1 DEF SessionInv, DiskFits
  <2> QED BY <1>1, <2>1, <2>2 DEF SessionInv, TypeOK
<1>2. CASE disk' = Saved'
  <2>1. disk'.rows = history' /\ disk'.pending = pending' /\ disk'.check = check'
    BY <1>2 DEF Saved
  <2>2. disk' \in [rows : Seq(Messages), pending : BOOLEAN, check : Checkpoints \cup {None}]
    BY <1>2 DEF Saved
  <2>3. Good(disk'.rows, disk'.check, turn', unarchived')
    BY <2>1
  <2>4. DiskFits'
    BY <2>1 DEF DiskFits
  <2> QED BY <2>2, <2>3, <2>4 DEF SessionInv
<1> QED BY <1>1, <1>2

\* A message that is no response, behind the history.
LEMMA GoodAppend ==
    ASSUME NEW rows \in Seq(Messages), NEW r \in Messages,
           NEW c \in Checkpoints \cup {None}, NEW t \in Nat, NEW u,
           Good(rows, c, t, u), r.turn <= t, r.step = 0,
           r.kind \notin ToolKinds \cup {"calls"},
           \A i \in 1 .. Len(rows) : ~Same(rows[i], r)
    PROVE  Good(Append(rows, r), c, t, u)
<1>1. Append(rows, r) = rows \o <<r>>
  BY Appended
<1> DEFINE x == <<r>>
<1>2. /\ x \in Seq(Messages) /\ Len(x) = 1 /\ Len(x) # 0 /\ x[1] = r /\ Legal(x) /\ OnceEach(x)
  BY OneRow
<1>3. Append(rows, r) = rows \o x
  BY <1>1
<1> HIDE DEF x
<1>4. \A i \in 1 .. Len(x) : i = 1 /\ x[i] = r
  BY <1>2
<1>6. c # None => c.turn <= t
  BY DEF Good, Aged
<1>7. u \/ (/\ OnceEach(x) /\ \A i \in 1 .. Len(rows), j \in 1 .. Len(x) : ~Same(rows[i], x[j])
            /\ c # None => /\ \A i \in 1 .. Len(rows) : rows[i].step # 0 => rows[i].turn # c.turn
                           /\ \A i \in 1 .. Len(x) : x[i].step # 0 => x[i].turn # c.turn)
  BY <1>2, <1>4 DEF Good, Unique
<1>8. \A j \in 1 .. Len(x) : x[j].turn <= t
  BY <1>4
<1>9. u => u
  OBVIOUS
<1>10. Good(rows \o x, c, t, u)
  BY <1>2, <1>6, <1>7, <1>8, <1>9, GoodJoined
<1> QED BY <1>3, <1>10

\* The checkpoint of the running turn fits the history, which has none of its
\* responses.
LEMMA CheckpointGood ==
    ASSUME TurnInv, InModel, NEW c \in Checkpoints, c.turn = turn
    PROVE  Good(history, c, turn, unarchived)
<1>1. Good(history, check, turn, unarchived)
  BY DEF TurnInv, SessionInv
<1>2. ASSUME NEW i \in 1 .. Len(history), history[i].step # 0 PROVE history[i].turn # c.turn
  <2>1. history[i].turn < turn
    BY <1>2 DEF TurnInv, RunInv, HistoryFits, InModel
  <2>2. history[i].turn \in Nat /\ turn \in Nat
    <3>1. history \in Seq(Messages) /\ turn \in Nat
      BY Typed DEF TurnInv
    <3>2. history[i] \in Messages
      BY <3>1, ElementOfSeq
    <3> QED BY <3>1, <3>2, MessageFields
  <2> QED BY <2>1, <2>2
<1>3. unarchived \/ Unique(history, c)
  BY <1>1, <1>2 DEF Good, Unique
<1>4. turn <= turn
  BY Typed DEF TurnInv
<1>5. Aged(history, c, turn)
  BY <1>1, <1>4 DEF Good, Aged
<1> QED BY <1>1, <1>3, <1>5 DEF Good

LEMMA AppendRows ==
    ASSUME NEW w \in Seq(Messages), NEW r \in Messages, NEW i \in 1 .. Len(Append(w, r))
    PROVE  \/ i \in 1 .. Len(w) /\ Append(w, r)[i] = w[i]
           \/ i = Len(w) + 1 /\ Append(w, r)[i] = r
<1>1. /\ Len(Append(w, r)) = Len(w) + 1 /\ Len(w) \in Nat
      /\ \A j \in 1 .. Len(w) : Append(w, r)[j] = w[j]
      /\ Append(w, r)[Len(w) + 1] = r
  BY Appended
<1> QED BY <1>1

\* A message of the running turn.
LEMMA RowIs ==
    ASSUME TypeOK, NEW k \in Kinds, NEW n \in 0 .. MaxSteps + 1, NEW c \in Nat,
           c <= Calls \/ c <= MaxCycles
    PROVE  /\ Row(k, n, c) \in Messages
           /\ Row(k, n, c).turn = turn /\ Row(k, n, c).step = n
           /\ Row(k, n, c).kind = k /\ Row(k, n, c).call = c
<1>1. turn \in 0 .. MaxTurns
  BY DEF TypeOK
<1>2. [turn |-> turn, step |-> n, kind |-> k, call |-> c] \in Messages
  BY <1>1, MessageRow
<1> QED BY <1>2 DEF Row

LEMMA InputIs ==
    ASSUME TypeOK, NEW k \in Kinds
    PROVE  /\ Row(k, 0, 0) \in Messages
           /\ Row(k, 0, 0).turn = turn /\ Row(k, 0, 0).step = 0
           /\ Row(k, 0, 0).kind = k /\ Row(k, 0, 0).call = 0
<1>1. 0 \in 0 .. MaxSteps + 1 /\ 0 \in Nat /\ 0 <= Calls
  BY BoundsAssumption
<1> QED BY <1>1, RowIs

LEMMA RestoredRows ==
    ASSUME NEW rows \in Seq(Messages), NEW c \in Checkpoints \cup {None}, Legal(rows)
    PROVE  /\ c = None => Restored(rows, c) = rows
           /\ c # None => \A r \in ToSet(Restored(rows, c)) :
                             r \in ToSet(rows) \/ (r.turn = c.turn /\ r.step # 0)
<1>1. CASE c = None
  BY <1>1 DEF Restored
<1>2. CASE c # None
  <2> DEFINE R == RowsOf(c)
  <2>1. /\ c \in Checkpoints /\ c.step # 0
    BY <1>2 DEF Checkpoints
  <2>2. /\ R \in Seq(Messages)
        /\ \A i \in 1 .. Len(R) : R[i].turn = c.turn /\ R[i].step = c.step
    BY <2>1, RowsOfAre
  <2>3. Restored(rows, c) = rows \o R \/ Restored(rows, c) = rows
    BY <2>1, RestoredCases
  <2> HIDE DEF R
  <2>4. ToSet(rows \o R) = ToSet(rows) \cup ToSet(R)
    BY <2>2, SetOfJoined
  <2>5. \A r \in ToSet(R) : r.turn = c.turn /\ r.step # 0
    BY <2>1, <2>2, SetOf
  <2> QED BY <1>2, <2>3, <2>4, <2>5
<1> QED BY <1>1, <1>2

\* A turn that goes to the model for the first time.
LEMMA StartModel ==
    ASSUME phase' = "model", work' = <<>>, step' = 0, check' = None, turn' # 0,
           \A i \in 1 .. Len(history') : history'[i].step # 0 => history'[i].turn < turn'
    PROVE  RunInv'
<1>1. Legal(work') /\ WorkGood(work', turn', Reached', cycles') /\ Len(work') = 0
  BY NothingYet
<1>2. WorkRows' /\ CallsLast'
  BY <1>1 DEF WorkRows, CallsLast, InModel
<1>3. CheckFits'
  BY DEF CheckFits
<1>4. HistoryFits'
  BY DEF HistoryFits
<1> QED BY <1>2, <1>3, <1>4 DEF RunInv

-----------------------------------------------------------------------------
(* The steps before the model runs *)

LEMMA BeginKeeps ==
    ASSUME TurnInv, Begin
    PROVE  TurnInv'
<1>1. /\ history \in Seq(Messages) /\ pending \in BOOLEAN /\ check \in Checkpoints \cup {None}
      /\ turn \in Nat /\ MaxTurns \in Nat /\ cleared \in Nat /\ cleared <= turn
      /\ continued \subseteq 1 .. turn /\ turn' = turn + 1 /\ turn < MaxTurns
  BY Typed DEF TurnInv, Begin
<1>2. turn' \in Nat /\ turn <= turn' /\ turn < turn' /\ turn' <= MaxTurns /\ turn' # 0
  BY <1>1
<1>3. /\ history' = history /\ pending' = pending /\ check' = check /\ disk' = disk /\ work' = work
      /\ cleared' = cleared /\ continued' = continued /\ unarchived' = unarchived /\ phase' = "started" /\ step' = 0 /\ cycles' = 0
      /\ phase = "idle"
  BY DEF Begin, session, past
<1>4. Good(history, check, turn, unarchived)
  BY DEF TurnInv, SessionInv
<1>5. Good(history, check, turn', unarchived)
  BY <1>1, <1>2, <1>4, GoodLater
<1>6. SessionInv'
  <2>1. Good(history', check', turn', unarchived')
    BY <1>3, <1>5
  <2> QED BY <1>1, <1>2, <1>3, <2>1, SavedOrNot DEF TurnInv
<1>7. work' = <<>>
  BY <1>3 DEF TurnInv, RunInv, WorkRows, InModel
<1>8. RunInv'
  <2>1. Legal(work') /\ WorkGood(work', turn', Reached', cycles') /\ Len(work') = 0
    BY <1>7, NothingYet
  <2>2. WorkRows' /\ CallsLast'
    BY <1>3, <1>7, <2>1 DEF WorkRows, CallsLast, InModel
  <2>3. ASSUME NEW i \in 1 .. Len(history) PROVE history[i].turn < turn'
    <3>1. history[i].turn <= turn
      BY <1>4 DEF Good, Aged
    <3>2. history[i].turn \in Nat
      BY <1>1, ElementOfSeq, MessageFields
    <3> QED BY <1>1, <1>2, <3>1, <3>2
  <2>4. check # None => check.turn < turn'
    <3>1. check # None => check.turn <= turn /\ check.turn \in Nat
      BY <1>1, <1>4 DEF Good, Aged, Checkpoints
    <3> QED BY <1>1, <1>2, <3>1
  <2>5. CheckFits'
    BY <1>3, <2>4 DEF CheckFits, InModel
  <2>6. HistoryFits'
    BY <1>2, <1>3, <2>3 DEF HistoryFits
  <2> QED BY <2>2, <2>5, <2>6 DEF RunInv
<1>9. TypeOK'
  <2>1. /\ turn' \in 0 .. MaxTurns /\ cleared \in 0 .. turn' /\ 0 \in 0 .. MaxSteps
        /\ 0 \in 0 .. MaxCycles /\ continued \subseteq 1 .. turn'
    BY <1>1, <1>2, BoundsAssumption
  <2> QED BY <1>3, <2>1 DEF TypeOK, TurnInv, Phases
<1> QED BY <1>6, <1>8, <1>9 DEF TurnInv

\* A step within a turn: what is left to show of it.
LEMMA StepKeeps ==
    ASSUME TurnInv, turn' = turn, cleared' = cleared, unarchived => unarchived', unarchived' \in BOOLEAN,
           continued' = continued \/ (turn # 0 /\ continued' = continued \cup {turn}),
           history' \in Seq(Messages), pending' \in BOOLEAN, check' \in Checkpoints \cup {None},
           Good(history', check', turn, unarchived'),
           disk' = disk \/ disk' = Saved', ToSet(history) \subseteq ToSet(history'),
           RunInv', work' \in Seq(Messages), phase' \in Phases,
           step' \in 0 .. MaxSteps, cycles' \in 0 .. MaxCycles
    PROVE  TurnInv'
<1>1. turn \in Nat /\ turn <= turn
  BY Typed DEF TurnInv
<1>2. Good(history', check', turn', unarchived')
  OBVIOUS
<1>3. /\ SessionInv'
      /\ disk' \in [rows : Seq(Messages), pending : BOOLEAN, check : Checkpoints \cup {None}]
  <2>1. turn' \in Nat /\ turn <= turn'
    BY <1>1
  <2> QED BY <1>2, <2>1, SavedOrNot DEF TurnInv
<1>4. turn' \in 0 .. MaxTurns /\ cleared' \in 0 .. turn' /\ continued' \subseteq 1 .. turn'
  <2>1. /\ turn \in 0 .. MaxTurns /\ cleared \in 0 .. turn /\ continued \subseteq 1 .. turn
        /\ turn' = turn /\ cleared' = cleared
    BY DEF TurnInv, TypeOK
  <2>2. turn # 0 => turn \in 1 .. turn
    BY <1>1
  <2>3. continued' = continued \/ (turn # 0 /\ continued' = continued \cup {turn})
    OBVIOUS
  <2>4. continued' \subseteq 1 .. turn
    BY <2>1, <2>2, <2>3
  <2> QED BY <2>1, <2>4
<1>5. TypeOK'
  BY <1>3, <1>4 DEF TypeOK
<1> QED BY <1>3, <1>5 DEF TurnInv

LEMMA RestoreTurnKeeps ==
    ASSUME TurnInv, RestoreTurn
    PROVE  TurnInv'
<1>1. /\ history \in Seq(Messages) /\ pending \in BOOLEAN /\ check \in Checkpoints \cup {None}
      /\ turn \in Nat /\ Legal(history) /\ TypeOK
  BY Typed DEF TurnInv, SessionInv, Good
<1>2. /\ phase = "started"
      /\ history' = IF check # None THEN Restored(history, check) ELSE Closed(history, pending)
      /\ pending' = FALSE /\ check' = None
      /\ turn' = turn /\ step' = step /\ cycles' = cycles
      /\ cleared' = cleared /\ continued' = continued /\ unarchived' = unarchived
  BY DEF RestoreTurn, run, past
<1>3. step = 0 /\ work = <<>>
  BY <1>2 DEF TurnInv, RunInv, WorkRows, InModel
<1>4. /\ disk' = disk \/ disk' = Saved'
      /\ phase' = "restored" \/ phase' = "idle"
      /\ work' = <<>>
  BY <1>3 DEF RestoreTurn, SaveThen, Idle
<1>5. Good(history, check, turn, unarchived)
  BY DEF TurnInv, SessionInv
<1>6. /\ turn # 0
      /\ \A i \in 1 .. Len(history) : history[i].turn < turn
      /\ check # None => check.turn < turn
  BY <1>2 DEF TurnInv, RunInv, HistoryFits, CheckFits
<1>7. \A r \in ToSet(history) : r.turn < turn
  BY <1>1, <1>6, SetOf
<1>8. /\ history' \in Seq(Messages) /\ ToSet(history) \subseteq ToSet(history')
      /\ Good(history', None, turn, unarchived)
      /\ \A r \in ToSet(history') : r.turn < turn \/ (r.step = 0 /\ r.kind = "notice")
  <2>1. CASE check # None
    <3>1. history' = Restored(history, check)
      BY <1>2, <2>1
    <3>2. /\ Restored(history, check) \in Seq(Messages)
          /\ Good(Restored(history, check), None, turn, unarchived)
          /\ ToSet(history) \subseteq ToSet(Restored(history, check))
      BY <1>1, <1>5, <2>1, RestoredGood
    <3>4. \A r \in ToSet(Restored(history, check)) : r \in ToSet(history) \/ r.turn = check.turn
      BY <1>1, <2>1, RestoredRows
    <3> QED BY <1>6, <1>7, <2>1, <3>1, <3>2, <3>4
  <2>2. CASE check = None /\ ~ (pending /\ EndsWithUser(history))
    <3>1. history' = history
      BY <1>2, <2>2 DEF Closed
    <3>3. Good(history, None, turn, unarchived)
      BY <1>5, <2>2
    <3> QED BY <1>1, <1>7, <3>1, <3>3
  <2>3. CASE check = None /\ pending /\ EndsWithUser(history)
    <3> DEFINE r == Row("notice", 0, 0)
    <3>1. history' = Append(history, r)
      BY <1>2, <2>3 DEF Closed
    <3>2. r \in Messages /\ r.turn = turn /\ r.step = 0 /\ r.kind = "notice" /\ r.call = 0
      <4>1. "notice" \in Kinds
        BY DEF Kinds
      <4> QED BY <1>1, <4>1, InputIs
    <3> HIDE DEF r
    <3>3. \A i \in 1 .. Len(history) : ~Same(history[i], r)
      <4> SUFFICES ASSUME NEW i \in 1 .. Len(history), history[i].turn = r.turn PROVE FALSE
        BY DEF Same
      <4> QED BY <1>1, <1>6, <3>2
    <3>4. Good(history, None, turn, unarchived)
      BY <1>5, <2>3
    <3>5. r.turn <= turn /\ r.kind \notin ToolKinds \cup {"calls"}
      BY <1>1, <3>2 DEF ToolKinds
    <3>6. Good(Append(history, r), None, turn, unarchived)
      BY <1>1, <3>2, <3>3, <3>4, <3>5, GoodAppend
    <3>7. Append(history, r) \in Seq(Messages) /\ ToSet(Append(history, r)) = ToSet(history) \cup {r}
      BY <1>1, <3>2, Appended
    <3> QED BY <1>7, <3>1, <3>2, <3>6, <3>7
  <2> QED BY <2>1, <2>2, <2>3
<1>9. RunInv'
  <2>1. CASE phase' = "idle"
    BY <1>4, <2>1, EmptyRun
  <2>2. CASE phase' = "restored"
    <3>1. Legal(work') /\ WorkGood(work', turn', Reached', cycles') /\ Len(work') = 0
      BY <1>4, NothingYet
    <3>2. WorkRows' /\ CallsLast'
      BY <1>2, <1>3, <1>4, <2>2, <3>1
      DEF WorkRows, CallsLast, InModel
    <3>3. CheckFits'
      BY <1>2, <2>2 DEF CheckFits, InModel
    <3>4. ASSUME NEW i \in 1 .. Len(history')
          PROVE  history'[i].turn < turn \/ (history'[i].step = 0 /\ history'[i].kind = "notice")
      <4>1. history'[i] \in ToSet(history')
        BY <1>8, SetOf
      <4> QED BY <1>8, <4>1
    <3>5. HistoryFits'
      BY <1>1, <1>2, <1>6, <2>2, <3>4 DEF HistoryFits
    <3> QED BY <3>2, <3>3, <3>5 DEF RunInv
  <2> QED BY <1>4, <2>1, <2>2
<1>10. Good(history', check', turn, unarchived')
  BY <1>2, <1>8
<1>11. /\ phase' \in Phases /\ step' \in 0 .. MaxSteps /\ cycles' \in 0 .. MaxCycles
       /\ unarchived' \in BOOLEAN /\ pending' \in BOOLEAN /\ check' \in Checkpoints \cup {None}
       /\ work' \in Seq(Messages)
  BY <1>1, <1>2, <1>3, <1>4 DEF TypeOK, Phases
<1>12. history' \in Seq(Messages) /\ ToSet(history) \subseteq ToSet(history')
  BY <1>8
<1>13. unarchived => unarchived'
  BY <1>2
<1> QED BY <1>2, <1>4, <1>9, <1>10, <1>11, <1>12, <1>13, StepKeeps

\* What the turn starts from once the session is restored.
LEMMA WhenRestored ==
    ASSUME TurnInv, phase = "restored"
    PROVE  /\ TypeOK /\ history \in Seq(Messages) /\ turn \in Nat /\ turn # 0 /\ turn <= turn
           /\ check = None /\ pending = FALSE /\ work = <<>> /\ step = 0
           /\ Good(history, None, turn, unarchived)
           /\ \A i \in 1 .. Len(history) : /\ history[i].step # 0 => history[i].turn < turn
                                           /\ history[i].turn = turn => history[i].kind = "notice"
<1>1. TypeOK /\ history \in Seq(Messages) /\ turn \in Nat /\ turn <= turn /\ pending \in BOOLEAN
  BY Typed DEF TurnInv
<1>2. check = None /\ ~pending
  BY DEF TurnInv, RunInv, CheckFits
<1>3. pending = FALSE
  BY <1>1, <1>2
<1>4. step = 0 /\ work = <<>>
  BY DEF TurnInv, RunInv, WorkRows, InModel
<1>5. Good(history, None, turn, unarchived)
  BY <1>2, <1>3 DEF TurnInv, SessionInv
<1>7. /\ turn # 0
      /\ \A i \in 1 .. Len(history) : /\ history[i].step # 0 => history[i].turn < turn
                                      /\ history[i].turn = turn => history[i].kind = "notice"
  BY DEF TurnInv, RunInv, HistoryFits
<1> QED BY <1>1, <1>2, <1>3, <1>4, <1>5, <1>7

\* A message added then.
LEMMA AddedWhenRestored ==
    ASSUME TurnInv, phase = "restored", NEW k \in {"user", "event"}
    PROVE  LET h == Append(history, Row(k, 0, 0))
           IN  /\ h \in Seq(Messages) /\ ToSet(history) \subseteq ToSet(h)
               /\ Good(h, None, turn, unarchived)
               /\ h[Len(h)] = Row(k, 0, 0) /\ Len(h) # 0
               /\ \A i \in 1 .. Len(h) : /\ h[i].step # 0 => h[i].turn < turn
                                         /\ h[i].turn = turn => h[i].kind \in {"notice", k}
<1> DEFINE r == Row(k, 0, 0)
           h == Append(history, r)
<1>1. /\ TypeOK /\ history \in Seq(Messages) /\ turn \in Nat /\ turn # 0 /\ turn <= turn
      /\ Good(history, None, turn, unarchived)
      /\ \A i \in 1 .. Len(history) : /\ history[i].step # 0 => history[i].turn < turn
                                      /\ history[i].turn = turn => history[i].kind = "notice"
  BY WhenRestored
<1>2. r \in Messages /\ r.turn = turn /\ r.step = 0 /\ r.kind = k /\ r.call = 0
  <2>1. k \in Kinds
    BY DEF Kinds, UserKinds
  <2> QED BY <1>1, <2>1, InputIs
<1> HIDE DEF r
<1>3. \A i \in 1 .. Len(history) : ~Same(history[i], r)
  <2> SUFFICES ASSUME NEW i \in 1 .. Len(history), Same(history[i], r) PROVE FALSE
    OBVIOUS
  <2>1. history[i].turn = turn /\ (history[i].kind = k \/ k \in ToolKinds)
    BY <1>2 DEF Same
  <2>2. history[i].kind = "notice" /\ k # "notice" /\ k \notin ToolKinds
    BY <1>1, <2>1 DEF ToolKinds
  <2> QED BY <2>1, <2>2
<1>4. r.turn <= turn /\ r.kind \notin ToolKinds \cup {"calls"}
  BY <1>1, <1>2 DEF ToolKinds
<1>7. Good(h, None, turn, unarchived)
  BY <1>1, <1>2, <1>3, <1>4, GoodAppend
<1>8. /\ h \in Seq(Messages) /\ Len(h) = Len(history) + 1 /\ Len(history) \in Nat
      /\ h[Len(history) + 1] = r /\ ToSet(h) = ToSet(history) \cup {r}
  BY <1>1, <1>2, Appended
<1>9. ASSUME NEW i \in 1 .. Len(h)
      PROVE  /\ h[i].step # 0 => h[i].turn < turn
             /\ h[i].turn = turn => h[i].kind \in {"notice", k}
  <2>1. (i \in 1 .. Len(history) /\ h[i] = history[i]) \/ h[i] = r
    BY <1>1, <1>2, AppendRows
  <2> HIDE DEF h
  <2> QED BY <1>1, <1>2, <2>1
<1>10. h[Len(h)] = r /\ Len(h) # 0
  BY <1>8
<1> QED BY <1>7, <1>8, <1>9, <1>10 DEF r

LEMMA PersistUserKeeps ==
    ASSUME TurnInv, PersistUserEarly
    PROVE  TurnInv'
<1> DEFINE h == Append(history, Row("user", 0, 0))
<1>1. /\ phase = "restored" /\ history' = h /\ pending' = TRUE /\ check' = check
      /\ turn' = turn /\ step' = step /\ cycles' = cycles
      /\ cleared' = cleared /\ continued' = continued /\ unarchived' = unarchived
  BY DEF PersistUserEarly, run, past
<1>2. /\ work' = <<>>
      /\ disk' = disk \/ disk' = Saved'
      /\ phase' = "model" \/ phase' = "idle"
  BY DEF PersistUserEarly, SaveThen, Idle
<1>3. check = None /\ step = 0 /\ turn # 0
  BY <1>1, WhenRestored
<1> HIDE DEF h
<1>5. /\ h \in Seq(Messages) /\ ToSet(history) \subseteq ToSet(h)
      /\ Good(h, None, turn, unarchived)
      /\ \A i \in 1 .. Len(h) : h[i].step # 0 => h[i].turn < turn
  BY <1>1, AddedWhenRestored DEF h
<1>6. RunInv'
  <2>1. CASE phase' = "idle"
    BY <1>2, <2>1, EmptyRun
  <2>2. CASE phase' = "model"
    <3>1. \A i \in 1 .. Len(history') : history'[i].step # 0 => history'[i].turn < turn'
      BY <1>1, <1>5
    <3> QED BY <1>1, <1>2, <1>3, <2>2, <3>1, StartModel
  <2> QED BY <1>2, <2>1, <2>2
<1>7. Good(history', check', turn, unarchived')
  BY <1>1, <1>3, <1>5
<1>8. /\ phase' \in Phases /\ step' \in 0 .. MaxSteps /\ cycles' \in 0 .. MaxCycles
      /\ unarchived' \in BOOLEAN /\ pending' \in BOOLEAN /\ check' \in Checkpoints \cup {None}
      /\ work' \in Seq(Messages)
  BY <1>1, <1>2 DEF TypeOK, Phases, TurnInv
<1>9. history' \in Seq(Messages) /\ ToSet(history) \subseteq ToSet(history')
  BY <1>1, <1>5
<1>10. unarchived => unarchived'
  BY <1>1
<1> QED BY <1>1, <1>2, <1>6, <1>7, <1>8, <1>9, <1>10, StepKeeps

LEMMA PersistEventKeeps ==
    ASSUME TurnInv, PersistEventEarly
    PROVE  TurnInv'
<1> DEFINE h == Append(history, Row("event", 0, 0))
<1>1. /\ phase = "restored" /\ history' = h /\ pending' = pending /\ check' = check
      /\ turn' = turn /\ step' = step /\ cycles' = cycles
      /\ cleared' = cleared /\ continued' = continued /\ unarchived' = unarchived
  BY DEF PersistEventEarly, run, past
<1>2. /\ work' = <<>>
      /\ disk' = disk \/ disk' = Saved'
      /\ phase' = "model" \/ phase' = "idle"
  BY DEF PersistEventEarly, SaveThen, Idle
<1>3. check = None /\ step = 0 /\ turn # 0
  BY <1>1, WhenRestored
<1> HIDE DEF h
<1>5. /\ h \in Seq(Messages) /\ ToSet(history) \subseteq ToSet(h)
      /\ Good(h, None, turn, unarchived)
      /\ \A i \in 1 .. Len(h) : h[i].step # 0 => h[i].turn < turn
  BY <1>1, AddedWhenRestored DEF h
<1>6. RunInv'
  <2>1. CASE phase' = "idle"
    BY <1>2, <2>1, EmptyRun
  <2>2. CASE phase' = "model"
    <3>1. \A i \in 1 .. Len(history') : history'[i].step # 0 => history'[i].turn < turn'
      BY <1>1, <1>5
    <3> QED BY <1>1, <1>2, <1>3, <2>2, <3>1, StartModel
  <2> QED BY <1>2, <2>1, <2>2
<1>7. Good(history', check', turn, unarchived')
  BY <1>1, <1>3, <1>5
<1>8. /\ phase' \in Phases /\ step' \in 0 .. MaxSteps /\ cycles' \in 0 .. MaxCycles
      /\ unarchived' \in BOOLEAN /\ pending' \in BOOLEAN /\ check' \in Checkpoints \cup {None}
      /\ work' \in Seq(Messages)
  BY <1>1, <1>2 DEF TypeOK, Phases, TurnInv
<1>9. history' \in Seq(Messages) /\ ToSet(history) \subseteq ToSet(history')
  BY <1>1, <1>5
<1>10. unarchived => unarchived'
  BY <1>1
<1> QED BY <1>1, <1>2, <1>6, <1>7, <1>8, <1>9, <1>10, StepKeeps

LEMMA PersistNothingKeeps ==
    ASSUME TurnInv, PersistNothing
    PROVE  TurnInv'
<1>1. /\ phase = "restored" /\ phase' = "model" /\ history' = history /\ pending' = pending
      /\ check' = check /\ disk' = disk /\ work' = work
      /\ turn' = turn /\ step' = step /\ cycles' = cycles
      /\ cleared' = cleared /\ continued' = continued /\ unarchived' = unarchived
  BY DEF PersistNothing, session, run, past
<1>2. /\ history \in Seq(Messages) /\ check = None /\ work = <<>> /\ step = 0 /\ turn # 0
      /\ \A i \in 1 .. Len(history) : history[i].step # 0 => history[i].turn < turn
  BY <1>1, WhenRestored
<1>3. RunInv'
  <2>1. \A i \in 1 .. Len(history') : history'[i].step # 0 => history'[i].turn < turn'
    BY <1>1, <1>2
  <2> QED BY <1>1, <1>2, <2>1, StartModel
<1>4. Good(history', check', turn, unarchived')
  BY <1>1 DEF TurnInv, SessionInv
<1>5. /\ phase' \in Phases /\ step' \in 0 .. MaxSteps /\ cycles' \in 0 .. MaxCycles
      /\ unarchived' \in BOOLEAN /\ pending' \in BOOLEAN /\ check' \in Checkpoints \cup {None}
      /\ work' \in Seq(Messages)
  BY <1>1 DEF TypeOK, Phases, TurnInv
<1>6. history' \in Seq(Messages) /\ ToSet(history) \subseteq ToSet(history')
  BY <1>1, <1>2
<1>7. unarchived => unarchived'
  BY <1>1
<1> QED BY <1>1, <1>3, <1>4, <1>5, <1>6, <1>7, StepKeeps

LEMMA CommandKeeps ==
    ASSUME TurnInv, Command
    PROVE  TurnInv'
<1> DEFINE asked == Append(history, Row("user", 0, 0))
           r == Row("reply", 0, 0)
           answered == Append(asked, r)
           half == [rows |-> asked, pending |-> TRUE, check |-> check]
<1>1. /\ phase = "restored" /\ phase' = "idle" /\ work' = <<>> /\ check' = check
      /\ turn' = turn /\ step' = step /\ cycles' = cycles
      /\ cleared' = cleared /\ continued' = continued /\ unarchived' = unarchived
  BY DEF Command, Idle, run, past
<1>2. \/ history' = answered /\ pending' = FALSE /\ disk' \in {Saved', half}
      \/ history' = asked /\ pending' = TRUE /\ disk' \in {disk, half}
  BY DEF Command
<1>3. TypeOK /\ check = None /\ history \in Seq(Messages) /\ turn \in Nat /\ turn <= turn
  BY <1>1, WhenRestored
<1>4. r \in Messages /\ r.turn = turn /\ r.step = 0 /\ r.kind = "reply" /\ r.call = 0
  <2>1. "reply" \in Kinds
    BY DEF Kinds
  <2> QED BY <1>3, <2>1, InputIs
<1> HIDE DEF r, asked
<1>6. /\ asked \in Seq(Messages) /\ ToSet(history) \subseteq ToSet(asked)
      /\ Good(asked, None, turn, unarchived)
      /\ \A i \in 1 .. Len(asked) : asked[i].turn = turn => asked[i].kind \in {"notice", "user"}
  BY <1>1, AddedWhenRestored DEF asked
<1>7. \A i \in 1 .. Len(asked) : ~Same(asked[i], r)
  <2> SUFFICES ASSUME NEW i \in 1 .. Len(asked), Same(asked[i], r) PROVE FALSE
    OBVIOUS
  <2>1. asked[i].turn = turn /\ (asked[i].kind = "reply" \/ "reply" \in ToolKinds)
    BY <1>4 DEF Same
  <2> QED BY <1>6, <2>1 DEF ToolKinds
<1>8. Good(answered, None, turn, unarchived)
  <2>1. r.turn <= turn /\ r.kind \notin ToolKinds \cup {"calls"}
    BY <1>3, <1>4 DEF ToolKinds
  <2> QED BY <1>3, <1>4, <1>6, <1>7, <2>1, GoodAppend
<1>9. answered \in Seq(Messages) /\ ToSet(answered) = ToSet(asked) \cup {r}
  BY <1>4, <1>6, Appended
<1> HIDE DEF answered
<1>10. RunInv'
  BY <1>1, EmptyRun
<1>15. pending' \in BOOLEAN
  BY <1>2
<1>11. /\ phase' \in Phases /\ step' \in 0 .. MaxSteps /\ cycles' \in 0 .. MaxCycles
       /\ unarchived' \in BOOLEAN /\ pending' \in BOOLEAN /\ check' \in Checkpoints \cup {None}
       /\ work' \in Seq(Messages) /\ (unarchived => unarchived')
       /\ turn' \in 0 .. MaxTurns /\ cleared' \in 0 .. turn' /\ continued' \subseteq 1 .. turn'
  BY <1>1, <1>3, <1>15 DEF TypeOK, Phases
<1>12. CASE history' = answered /\ pending' = FALSE /\ disk' = half
  <2>1. Good(history', check', turn', unarchived')
    BY <1>1, <1>3, <1>8, <1>12
  <2>2. disk'.rows = asked /\ disk'.pending = TRUE /\ disk'.check = check
    BY <1>12
  <2>3. Good(disk'.rows, disk'.check, turn', unarchived')
    BY <1>1, <1>3, <1>6, <2>2
  <2>4. DiskFits'
    BY <1>9, <1>12, <2>2 DEF DiskFits
  <2>5. disk' \in [rows : Seq(Messages), pending : BOOLEAN, check : Checkpoints \cup {None}]
    BY <1>3, <1>6, <1>12
  <2>6. SessionInv'
    BY <2>1, <2>3, <2>4 DEF SessionInv
  <2>7. history' \in Seq(Messages)
    BY <1>9, <1>12
  <2>8. TypeOK'
    BY <1>11, <2>5, <2>7 DEF TypeOK
  <2> QED BY <1>10, <2>6, <2>8 DEF TurnInv
<1>13. CASE history' = answered /\ pending' = FALSE /\ disk' = Saved'
  <2>1. Good(history', check', turn, unarchived')
    BY <1>1, <1>3, <1>8, <1>13
  <2>2. history' \in Seq(Messages) /\ ToSet(history) \subseteq ToSet(history')
    BY <1>6, <1>9, <1>13
  <2> QED BY <1>1, <1>10, <1>11, <1>13, <2>1, <2>2, StepKeeps
<1>14. CASE history' = asked /\ pending' = TRUE /\ disk' \in {disk, half}
  <2>1. Good(history', check', turn, unarchived')
    BY <1>1, <1>3, <1>6, <1>14
  <2>2. history' \in Seq(Messages) /\ ToSet(history) \subseteq ToSet(history')
    BY <1>6, <1>14
  <2>3. disk' = disk \/ disk' = Saved'
    BY <1>1, <1>14 DEF Saved
  <2> QED BY <1>1, <1>10, <1>11, <2>1, <2>2, <2>3, StepKeeps
<1> QED BY <1>2, <1>12, <1>13, <1>14

-----------------------------------------------------------------------------
(* The steps of the runner *)

LEMMA WhenInModel ==
    ASSUME TurnInv, InModel
    PROVE  /\ TypeOK /\ work \in Seq(Messages) /\ turn \in 1 .. MaxTurns /\ turn \in Nat
           /\ step \in Nat /\ step <= MaxSteps /\ cycles \in Nat
           /\ MaxSteps \in Nat \ {0} /\ Calls \in Nat \ {0} /\ MaxCycles \in Nat
           /\ WorkGood(work, turn, Reached, cycles)
           /\ phase # "tools" => Legal(work)
           /\ check # None => check.turn = turn /\ Durable(check) \subseteq ToSet(work)
<1>1. /\ TypeOK /\ work \in Seq(Messages) /\ turn \in Nat /\ turn <= MaxTurns /\ MaxTurns \in Nat
      /\ step \in Nat /\ step <= MaxSteps /\ cycles \in Nat
      /\ MaxSteps \in Nat \ {0} /\ Calls \in Nat \ {0} /\ MaxCycles \in Nat
  BY Typed DEF TurnInv
<1>2. turn # 0
  BY DEF TurnInv, RunInv, HistoryFits, InModel
<1>3. turn \in 1 .. MaxTurns
  BY <1>1, <1>2
<1>4. WorkGood(work, turn, Reached, cycles) /\ (phase # "tools" => Legal(work))
  BY DEF TurnInv, RunInv, WorkRows
<1>6. check # None => check.turn = turn /\ Durable(check) \subseteq ToSet(work)
  BY DEF TurnInv, RunInv, CheckFits
<1> QED BY <1>1, <1>3, <1>4, <1>6

\* What there is to show of the messages of a turn that goes on or has ended.
LEMMA RunGoesOn ==
    ASSUME TurnInv, InModel, history' = history, turn' = turn, phase' \in {"model", "ended"},
           step' \in Nat \ {0}, WorkGood(work', turn, Reached', cycles'), Legal(work'),
           check' # None => check'.turn = turn /\ Durable(check') \subseteq ToSet(work')
    PROVE  RunInv'
<1>1. WorkRows'
  BY DEF WorkRows, InModel
<1>2. CallsLast'
  BY DEF CallsLast
<1>3. CheckFits'
  BY DEF CheckFits, InModel, Durable
<1>4. HistoryFits'
  BY DEF TurnInv, RunInv, HistoryFits, InModel
<1> QED BY <1>1, <1>2, <1>3, <1>4 DEF RunInv

\* A step that leaves the session alone.
LEMMA OnlyWork ==
    ASSUME TurnInv, history' = history, pending' = pending, check' = check, disk' = disk,
           turn' = turn, cleared' = cleared, unarchived' = unarchived,
           continued' = continued \/ (turn # 0 /\ continued' = continued \cup {turn}),
           RunInv', work' \in Seq(Messages), phase' \in Phases,
           step' \in 0 .. MaxSteps, cycles' \in 0 .. MaxCycles
    PROVE  TurnInv'
<1>1. Good(history', check', turn, unarchived')
  BY DEF TurnInv, SessionInv
<1>2. /\ history' \in Seq(Messages) /\ ToSet(history) \subseteq ToSet(history')
      /\ pending' \in BOOLEAN /\ check' \in Checkpoints \cup {None} /\ unarchived' \in BOOLEAN
      /\ (unarchived => unarchived')
  BY DEF TurnInv, TypeOK
<1> QED BY <1>1, <1>2, StepKeeps

\* A step that leaves a checkpoint and may save it.
LEMMA Checkpointed ==
    ASSUME TurnInv, InModel, history' = history, pending' = pending, turn' = turn,
           cleared' = cleared, continued' = continued, unarchived' = unarchived,
           check' \in Checkpoints, check'.turn = turn, disk' = disk \/ disk' = Saved',
           RunInv', work' \in Seq(Messages), phase' \in Phases,
           step' \in 0 .. MaxSteps, cycles' \in 0 .. MaxCycles
    PROVE  TurnInv'
<1>1. Good(history, check', turn, unarchived)
  BY CheckpointGood
<1>2. Good(history', check', turn, unarchived')
  BY <1>1
<1>3. /\ history' \in Seq(Messages) /\ ToSet(history) \subseteq ToSet(history')
      /\ pending' \in BOOLEAN /\ check' \in Checkpoints \cup {None} /\ unarchived' \in BOOLEAN
      /\ (unarchived => unarchived')
  BY DEF TurnInv, TypeOK
<1> QED BY <1>2, <1>3, StepKeeps

\* Follow-ups are told apart by the cycle they were injected in.
LEMMA InjectGood ==
    ASSUME TypeOK, NEW w \in Seq(Messages), NEW n \in Nat, NEW m \in Nat, NEW i \in BOOLEAN,
           MayInject(i), WorkGood(w, turn, n, cycles), n <= m,
           step' \in Nat \ {0}, step' <= m, step' <= MaxSteps + 1, Legal(w)
    PROVE  LET x == Inject(w, i)
           IN  /\ x \in Seq(Messages) /\ WorkGood(x, turn, m, cycles')
               /\ Legal(x) /\ ToSet(w) \subseteq ToSet(x)
               /\ cycles' \in 0 .. MaxCycles /\ cycles' \in Nat /\ cycles <= cycles'
<1>1. /\ cycles \in Nat /\ cycles <= MaxCycles /\ MaxCycles \in Nat /\ MaxSteps \in Nat
      /\ turn \in Nat
  BY Typed
<1>2. CASE i = FALSE
  <2>1. Inject(w, i) = w /\ cycles' = cycles
    BY <1>2 DEF Inject, MayInject
  <2>2. WorkGood(w, turn, m, cycles)
    BY <1>1, WorkLater
  <2> QED BY <1>1, <2>1, <2>2
<1>3. CASE i = TRUE
  <2> DEFINE r == Row("followup", step', cycles)
             x == Append(w, r)
  <2>1. cycles < MaxCycles /\ cycles' = cycles + 1 /\ Inject(w, i) = x
    BY <1>3 DEF Inject, MayInject
  <2>2. r \in Messages /\ r.turn = turn /\ r.step = step' /\ r.kind = "followup" /\ r.call = cycles
    <3>1. "followup" \in Kinds
      BY DEF Kinds, UserKinds
    <3>2. step' \in 0 .. MaxSteps + 1
      BY <1>1
    <3> QED BY <1>1, <3>1, <3>2, RowIs
  <2> HIDE DEF r
  <2>3. \A j \in 1 .. Len(w) : ~Same(w[j], r)
    <3> SUFFICES ASSUME NEW j \in 1 .. Len(w), Same(w[j], r) PROVE FALSE
      OBVIOUS
    <3>1. w[j].call = cycles /\ w[j].kind = "followup"
      BY <2>2 DEF Same, ToolKinds
    <3>2. w[j].call < cycles
      BY <3>1 DEF WorkGood
    <3> QED BY <1>1, <3>1, <3>2
  <2>4. cycles' \in 0 .. MaxCycles /\ cycles' \in Nat /\ cycles <= cycles' /\ cycles < cycles'
    BY <1>1, <2>1
  <2>5. /\ r.step # 0 /\ r.step <= m
        /\ r.kind \notin {"user", "event", "reply", "notice"} \cup ToolKinds
        /\ r.kind = "followup" => r.call < cycles'
        /\ r.kind # "calls"
    BY <2>2, <2>4 DEF ToolKinds
  <2>6. WorkGood(w, r.turn, n, cycles)
    BY <2>2
  <2>7. /\ x \in Seq(Messages) /\ WorkGood(x, r.turn, m, cycles')
        /\ ToSet(w) \subseteq ToSet(x) /\ Len(x) # 0
        /\ Legal(w) /\ r.kind # "calls" => Legal(x)
    BY <1>1, <2>2, <2>3, <2>4, <2>5, <2>6, WorkAppended
  <2> QED BY <2>1, <2>2, <2>4, <2>5, <2>7
<1> QED BY <1>2, <1>3

\* Follow-ups that may be merged into the message they come behind.
LEMMA InjectOpenGood ==
    ASSUME TypeOK, NEW w \in Seq(Messages), NEW n \in Nat, NEW m \in Nat,
           MayInject(TRUE), WorkGood(w, turn, n, cycles), n <= m,
           step' \in Nat \ {0}, step' <= m, step' <= MaxSteps + 1, Legal(w), NEW x \in InjectOpen(w)
    PROVE  /\ x \in Seq(Messages) /\ WorkGood(x, turn, m, cycles')
           /\ Legal(x) /\ ToSet(w) \subseteq ToSet(x)
           /\ cycles' \in 0 .. MaxCycles /\ cycles' \in Nat
<1>1. CASE x = Inject(w, TRUE)
  BY <1>1, InjectGood
<1>2. CASE x = w
  <2>1. cycles \in Nat /\ cycles <= MaxCycles /\ MaxCycles \in Nat
    BY Typed
  <2>2. cycles' \in 0 .. MaxCycles /\ cycles' \in Nat /\ cycles <= cycles'
    BY <2>1 DEF MayInject
  <2>3. WorkGood(w, turn, m, cycles')
    BY <2>1, <2>2, WorkLater
  <2> QED BY <1>2, <2>2, <2>3
<1> QED BY <1>1, <1>2 DEF InjectOpen

\* The prompt that asks for more, behind what came of the response.
LEMMA PromptRow ==
    ASSUME TypeOK, NEW w \in Seq(Messages), step' \in 1 .. MaxSteps,
           WorkGood(w, turn, step', cycles), Legal(w),
           \A i \in 1 .. Len(w) : w[i].step < step' \/ w[i].kind \in {"partial", "final"}
    PROVE  LET x == Append(w, Row("prompt", step', 0))
           IN  /\ x \in Seq(Messages) /\ WorkGood(x, turn, step', cycles)
               /\ Legal(x) /\ ToSet(w) \subseteq ToSet(x)
<1> DEFINE b == Row("prompt", step', 0)
           x == Append(w, b)
<1>1. MaxSteps \in Nat /\ cycles \in Nat /\ cycles <= cycles /\ Calls \in Nat
  BY Typed
<1>2. step' \in Nat /\ step' # 0 /\ step' <= step'
  BY <1>1
<1>3. b \in Messages /\ b.turn = turn /\ b.step = step' /\ b.kind = "prompt"
  <2>1. step' \in 0 .. MaxSteps + 1 /\ "prompt" \in Kinds /\ 0 \in Nat /\ 0 <= Calls
    BY <1>1 DEF Kinds, UserKinds
  <2> QED BY <2>1, RowIs
<1> HIDE DEF b
<1>4. \A i \in 1 .. Len(w) : ~Same(w[i], b)
  <2> SUFFICES ASSUME NEW i \in 1 .. Len(w), Same(w[i], b) PROVE FALSE
    OBVIOUS
  <2>1. w[i].step = step' /\ (w[i].kind = "prompt" \/ "prompt" \in ToolKinds)
    BY <1>3 DEF Same
  <2> QED BY <1>2, <2>1 DEF ToolKinds
<1>5. /\ b.kind \notin {"user", "event", "reply", "notice"} \cup ToolKinds
      /\ b.kind # "followup" /\ b.kind # "calls" /\ b.step # 0 /\ b.step <= step'
      /\ WorkGood(w, b.turn, step', cycles)
  BY <1>2, <1>3 DEF ToolKinds
<1>6. /\ x \in Seq(Messages) /\ WorkGood(x, b.turn, step', cycles)
      /\ ToSet(w) \subseteq ToSet(x)
      /\ Legal(w) /\ b.kind # "calls" => Legal(x)
  BY <1>1, <1>2, <1>3, <1>4, <1>5, WorkAppended
<1> QED BY <1>3, <1>5, <1>6 DEF b

\* What a checkpoint holds for good, in each of its phases.
LEMMA DurableRows ==
    ASSUME NEW c \in Checkpoints
    PROVE  /\ c.phase = "awaiting_tools" => Durable(c) \subseteq {CallsRow(c)}
           /\ c.phase = "tools_completed" =>
                 Durable(c) \subseteq {CallsRow(c)} \cup ToSet(ToolRows(c, "result"))
           /\ c.phase = "final_response" =>
                 Durable(c) \subseteq {[turn |-> c.turn, step |-> c.step, kind |-> "final", call |-> 0]}
<1>1. c.turn \in 1 .. MaxTurns /\ c.step \in 1 .. MaxSteps
  BY DEF Checkpoints
<1>2. ASSUME NEW k \in ToolKinds, RowsOf(c) = <<CallsRow(c)>> \o ToolRows(c, k)
      PROVE  /\ ToSet(RowsOf(c)) = {CallsRow(c)} \cup ToSet(ToolRows(c, k))
             /\ \A r \in ToSet(ToolRows(c, k)) : r.kind = k
  <2> DEFINE a == <<CallsRow(c)>>
             d == ToolRows(c, k)
  <2>1. CallsRow(c) \in Messages
    BY <1>1, <1>2, CallBlock
  <2>2. a \in Seq(Messages) /\ ToSet(a) = {CallsRow(c)}
    BY <2>1 DEF ToSet
  <2>3. /\ d \in Seq(Messages) /\ Len(d) = Calls
        /\ \A i \in 1 .. Calls : d[i] = [turn |-> c.turn, step |-> c.step, kind |-> k, call |-> i]
    BY <1>1, ToolRowsAre
  <2> HIDE DEF a, d
  <2>4. ToSet(a \o d) = ToSet(a) \cup ToSet(d)
    BY <2>2, <2>3, SetOfJoined
  <2>5. \A r \in ToSet(d) : r.kind = k
    BY <2>3, SetOf
  <2> QED BY <1>2, <2>2, <2>4, <2>5 DEF a, d
<1>3. CASE c.phase = "awaiting_tools"
  <2>1. "interrupted" \in ToolKinds /\ RowsOf(c) = <<CallsRow(c)>> \o ToolRows(c, "interrupted")
    BY <1>3 DEF RowsOf, ToolKinds
  <2>2. /\ ToSet(RowsOf(c)) = {CallsRow(c)} \cup ToSet(ToolRows(c, "interrupted"))
        /\ \A r \in ToSet(ToolRows(c, "interrupted")) : r.kind = "interrupted"
    BY <1>2, <2>1
  <2> QED BY <1>3, <2>2 DEF Durable
<1>4. CASE c.phase = "tools_completed"
  <2>1. "result" \in ToolKinds /\ RowsOf(c) = <<CallsRow(c)>> \o ToolRows(c, "result")
    BY <1>4 DEF RowsOf, ToolKinds
  <2>2. ToSet(RowsOf(c)) = {CallsRow(c)} \cup ToSet(ToolRows(c, "result"))
    BY <1>2, <2>1
  <2> QED BY <1>4, <2>2 DEF Durable
<1>5. CASE c.phase = "final_response"
  <2> DEFINE r == [turn |-> c.turn, step |-> c.step, kind |-> "final", call |-> 0]
  <2>1. RowsOf(c) = <<r>>
    BY <1>5 DEF RowsOf
  <2> HIDE DEF r
  <2>2. ToSet(RowsOf(c)) = {r}
    BY <2>1 DEF ToSet
  <2>3. Durable(c) \subseteq {r}
    BY <2>2 DEF Durable
  <2> QED BY <1>5, <2>3 DEF r
<1> QED BY <1>3, <1>4, <1>5

LEMMA NewCheckpoint ==
    ASSUME TurnInv, InModel, step' \in 1 .. MaxSteps,
           NEW at \in {"awaiting_tools", "tools_completed", "final_response"}, Checkpoint(at)
    PROVE  /\ check' \in Checkpoints /\ check' # None
           /\ check'.turn = turn /\ check'.step = step' /\ check'.phase = at
<1>1. turn \in 1 .. MaxTurns
  BY WhenInModel
<1>2. check' = [turn |-> turn, step |-> step', phase |-> at]
  BY DEF Checkpoint
<1>3. check' \in Checkpoints
  BY <1>1, <1>2 DEF Checkpoints
<1> QED BY <1>2, <1>3, NoneAssumption

\* A response of the running turn, behind its other messages.
LEMMA ResponseRow ==
    ASSUME TurnInv, InModel, phase # "ended", step < MaxSteps, step' = step + 1,
           NEW k \in {"calls", "final", "closing", "partial"}
    PROVE  LET r == Row(k, step', 0)
               x == Append(work, r)
           IN  /\ r \in Messages /\ r.turn = turn /\ r.step = step' /\ r.kind = k /\ r.call = 0
               /\ x \in Seq(Messages) /\ WorkGood(x, turn, step', cycles)
               /\ ToSet(work) \subseteq ToSet(x) /\ r \in ToSet(x) /\ Len(x) # 0
               /\ Legal(work) /\ k # "calls" => Legal(x)
              
               /\ step' \in 1 .. MaxSteps /\ step' \in Nat \ {0} /\ step' <= MaxSteps + 1
               /\ \A i \in 1 .. Len(work) : work[i].step < step'
               /\ \A i \in 1 .. Len(x) : x[i].step < step' \/ x[i].kind = k
<1> DEFINE r == Row(k, step', 0)
           x == Append(work, r)
<1>1. /\ TypeOK /\ work \in Seq(Messages) /\ turn \in Nat
      /\ step \in Nat /\ MaxSteps \in Nat \ {0} /\ Calls \in Nat /\ cycles \in Nat
      /\ WorkGood(work, turn, Reached, cycles)
  BY WhenInModel
<1>2. step' \in 1 .. MaxSteps /\ step' \in Nat \ {0} /\ step' \in 0 .. MaxSteps + 1 /\ step <= step'
      /\ step < step' /\ step' <= MaxSteps + 1 /\ step' # 0 /\ step' <= step'
  BY <1>1
<1>3. WorkGood(work, turn, step, cycles)
  BY <1>1 DEF Reached
<1>4. r \in Messages /\ r.turn = turn /\ r.step = step' /\ r.kind = k /\ r.call = 0
  <2>1. k \in Kinds /\ 0 \in Nat /\ 0 <= Calls
    BY <1>1 DEF Kinds
  <2> QED BY <1>1, <1>2, <2>1, RowIs
<1> HIDE DEF r
<1>5. ASSUME NEW i \in 1 .. Len(work) PROVE work[i].step < step'
  <2>1. work[i].step \in Nat
    BY <1>1, ElementOfSeq, MessageFields
  <2>2. work[i].step <= step
    BY <1>3 DEF WorkGood
  <2> QED BY <1>1, <2>1, <2>2
<1>6. \A i \in 1 .. Len(work) : ~Same(work[i], r)
  BY <1>2, <1>4, <1>5 DEF Same
<1>7. /\ r.kind \notin {"user", "event", "reply", "notice"} \cup ToolKinds
      /\ r.kind # "followup"
  BY <1>4 DEF ToolKinds
<1>8. WorkGood(work, r.turn, step, cycles)
  BY <1>3, <1>4
<1>9. cycles <= cycles
  BY <1>1
<1>10. /\ x \in Seq(Messages) /\ WorkGood(x, r.turn, step', cycles)
       /\ ToSet(work) \subseteq ToSet(x) /\ r \in ToSet(x) /\ Len(x) # 0
       /\ Legal(work) /\ r.kind # "calls" => Legal(x)
  BY <1>1, <1>2, <1>4, <1>6, <1>7, <1>8, <1>9, WorkAppended
<1>11. \A i \in 1 .. Len(x) : x[i].step < step' \/ x[i].kind = k
  <2> SUFFICES ASSUME NEW i \in 1 .. Len(x) PROVE x[i].step < step' \/ x[i].kind = k
    OBVIOUS
  <2>1. (i \in 1 .. Len(work) /\ x[i] = work[i]) \/ x[i] = r
    BY <1>1, <1>4, AppendRows
  <2> HIDE DEF x
  <2> QED BY <1>4, <1>5, <2>1
<1> QED BY <1>1, <1>2, <1>4, <1>5, <1>7, <1>10, <1>11 DEF r

LEMMA CallToolsKeeps ==
    ASSUME TurnInv, CallTools
    PROVE  TurnInv'
<1> DEFINE r == Row("calls", step', 0)
           x == Append(work, r)
<1>1. /\ phase = "model" /\ InModel /\ step < MaxSteps /\ step' = step + 1
      /\ Checkpoint("awaiting_tools")
      /\ history' = history /\ pending' = pending /\ turn' = turn /\ cycles' = cycles
      /\ cleared' = cleared /\ continued' = continued /\ unarchived' = unarchived
  BY DEF CallTools, NextStep, past, InModel
<1>2. \/ disk' = Saved' /\ phase' = "tools" /\ work' = x
      \/ disk' = disk /\ phase' = "idle" /\ work' = <<>>
  BY DEF CallTools, SaveThen, Idle
<1>3. /\ r \in Messages /\ r.turn = turn /\ r.step = step' /\ r.kind = "calls" /\ r.call = 0
      /\ x \in Seq(Messages) /\ WorkGood(x, turn, step', cycles)
      /\ ToSet(work) \subseteq ToSet(x) /\ r \in ToSet(x) /\ Len(x) # 0
     
      /\ step' \in 1 .. MaxSteps /\ step' \in Nat \ {0}
      /\ \A i \in 1 .. Len(work) : work[i].step < step'
  BY <1>1, ResponseRow
<1>4. /\ check' \in Checkpoints /\ check' # None /\ check'.turn = turn /\ check'.step = step'
      /\ check'.phase = "awaiting_tools"
  BY <1>1, <1>3, NewCheckpoint
<1>5. Legal(work) /\ work \in Seq(Messages) /\ TypeOK
  BY <1>1, WhenInModel
<1>6. CallsRow(check') = r
  BY <1>3, <1>4 DEF CallsRow, Row
<1>7. r = Row("calls", step, 0)'
  BY <1>1 DEF Row
<1> HIDE DEF r
<1>8. RunInv'
  <2>1. CASE phase' = "idle" /\ work' = <<>>
    BY <2>1, EmptyRun
  <2>2. CASE phase' = "tools" /\ work' = x
    <3> HIDE DEF x
    <3>1. WorkRows'
      BY <1>1, <1>3, <2>2 DEF WorkRows, InModel, Reached
    <3>2. CallsLast'
      <4>1. x = Append(work, Row("calls", step, 0)')
        BY <1>7 DEF x
      <4> QED BY <1>3, <1>5, <2>2, <4>1 DEF CallsLast
    <3>4. CheckFits'
      <4>1. Durable(check') \subseteq {r}
        BY <1>4, <1>6, DurableRows
      <4>2. Durable(check') \subseteq ToSet(work')
        BY <1>3, <2>2, <4>1
      <4> QED BY <1>1, <1>4, <2>2, <4>2 DEF CheckFits, InModel, Durable
    <3>5. HistoryFits'
      BY <1>1, <2>2 DEF TurnInv, RunInv, HistoryFits
    <3> QED BY <3>1, <3>2, <3>4, <3>5 DEF RunInv
  <2> QED BY <1>2, <2>1, <2>2
<1> HIDE DEF x
<1>9. /\ work' \in Seq(Messages) /\ phase' \in Phases
      /\ disk' = disk \/ disk' = Saved'
  <2>1. <<>> \in Seq(Messages)
    BY EmptySeq
  <2>2. work' \in Seq(Messages)
    BY <1>2, <1>3, <2>1
  <2> QED BY <1>2, <2>2 DEF Phases
<1>10. step' \in 0 .. MaxSteps /\ cycles' \in 0 .. MaxCycles
  BY <1>1, <1>3, <1>5 DEF TypeOK
<1> QED BY <1>1, <1>4, <1>8, <1>9, <1>10, Checkpointed

\* The results of the tools behind their calls.
LEMMA ToolsFinished ==
    ASSUME TurnInv, phase = "tools"
    PROVE  LET x == work \o Results
           IN  /\ x \in Seq(Messages) /\ WorkGood(x, turn, step, cycles) /\ Legal(x)
              
               /\ ToSet(work) \subseteq ToSet(x) /\ ToSet(Results) \subseteq ToSet(x)
               /\ Row("calls", step, 0) \in ToSet(x)
               /\ step \in 1 .. MaxSteps
               /\ Results \in Seq(Messages)
               /\ \A r \in ToSet(x) : r.step < step \/ r.kind \in ToolKinds \cup {"calls"}
<1> DEFINE c == [turn |-> turn, step |-> step]
           calls == Row("calls", step, 0)
           x == work \o Results
<1>1. /\ InModel /\ TypeOK /\ work \in Seq(Messages) /\ turn \in 1 .. MaxTurns
      /\ step \in Nat /\ step <= MaxSteps /\ cycles \in Nat /\ MaxSteps \in Nat /\ Calls \in Nat
      /\ WorkGood(work, turn, step, cycles)
  BY WhenInModel DEF InModel, Reached
<1>2. PICK w \in Seq(Messages) :
          work = Append(w, calls) /\ Legal(w) /\ \A i \in 1 .. Len(w) : w[i].step < step
  BY DEF TurnInv, RunInv, CallsLast
<1>3. step \in 0 .. MaxSteps + 1 /\ "calls" \in Kinds /\ 0 \in Nat /\ 0 <= Calls
  BY <1>1 DEF Kinds
<1>4. calls \in Messages /\ calls.turn = turn /\ calls.step = step /\ calls.kind = "calls"
  BY <1>1, <1>3, RowIs
<1>5. c.turn = turn /\ c.step = step /\ CallsRow(c) = calls /\ Results = ToolRows(c, "result")
  BY DEF CallsRow, Row, Results
<1> HIDE DEF c, calls
<1>6. /\ Len(work) = Len(w) + 1 /\ Len(w) \in Nat
      /\ work[Len(w) + 1] = calls /\ ToSet(work) = ToSet(w) \cup {calls}
      /\ work = w \o <<calls>> /\ <<calls>> \in Seq(Messages)
  BY <1>2, <1>4, Appended
<1>7. step # 0 /\ step \in 1 .. MaxSteps
  <2>1. Len(w) + 1 \in 1 .. Len(work)
    BY <1>6
  <2>2. work[Len(w) + 1].step # 0
    BY <1>1, <2>1 DEF WorkGood
  <2> QED BY <1>1, <1>4, <1>6, <2>2
<1>8. "result" \in ToolKinds
  BY DEF ToolKinds
<1>9. /\ Results \in Seq(Messages) /\ Len(Results) = Calls
      /\ \A i \in 1 .. Calls :
            Results[i] = [turn |-> turn, step |-> step, kind |-> "result", call |-> i]
  BY <1>1, <1>5, <1>7, <1>8, ToolRowsAre
<1>10. \A i \in 1 .. Len(Results) :
           /\ Results[i].turn = turn /\ Results[i].step = step /\ Results[i].kind = "result"
           /\ Results[i].call = i
  BY <1>9
<1>11. WorkGood(Results, turn, step, cycles)
  <2>1. OnceEach(Results)
    <3> SUFFICES ASSUME NEW i \in 1 .. Len(Results), NEW j \in 1 .. Len(Results),
                        Same(Results[i], Results[j])
                 PROVE  i = j
      BY OnceMeans
    <3> QED BY <1>10 DEF Same
  <2>2. step <= step
    BY <1>1
  <2> QED BY <1>7, <1>10, <2>1, <2>2 DEF WorkGood
<1>12. \A i \in 1 .. Len(work), j \in 1 .. Len(Results) : ~Same(work[i], Results[j])
  <2> SUFFICES ASSUME NEW i \in 1 .. Len(work), NEW j \in 1 .. Len(Results), Same(work[i], Results[j])
               PROVE  FALSE
    OBVIOUS
  <2>1. work[i].step = step /\ (work[i].kind = "result" \/ work[i].kind \in ToolKinds)
    BY <1>10 DEF Same
  <2>2. (i \in 1 .. Len(w) /\ work[i] = w[i]) \/ work[i] = calls
    BY <1>2, <1>4, AppendRows
  <2>3. CASE i \in 1 .. Len(w) /\ work[i] = w[i]
    BY <1>1, <1>2, <2>1, <2>3
  <2>4. CASE work[i] = calls
    BY <1>4, <2>1, <2>4 DEF ToolKinds
  <2> QED BY <2>2, <2>3, <2>4
<1>13. x \in Seq(Messages) /\ WorkGood(x, turn, step, cycles)
  <2>1. step <= step /\ cycles <= cycles
    BY <1>1
  <2> QED BY <1>1, <1>9, <1>11, <1>12, <2>1, WorkJoined
<1>14. Legal(x)
  <2> DEFINE b == <<calls>> \o Results
  <2>1. b \in Seq(Messages) /\ Legal(b)
    BY <1>1, <1>5, <1>7, <1>8, CallBlock
  <2>2. Legal(w \o b)
    BY <1>2, <2>1, LegalJoined
  <2>3. x = w \o b
    BY <1>6, <1>9, ConcatAssociative
  <2> QED BY <2>2, <2>3
<1>15. ToSet(x) = ToSet(work) \cup ToSet(Results)
  BY <1>1, <1>9, SetOfJoined
<1>17. ASSUME NEW r \in ToSet(x) PROVE r.step < step \/ r.kind \in ToolKinds \cup {"calls"}
  <2>1. CASE r \in ToSet(w)
    BY <1>2, <2>1, SetOf
  <2>2. CASE r = calls
    BY <1>4, <2>2
  <2>3. CASE r \in ToSet(Results)
    BY <1>8, <1>9, <1>10, <2>3, SetOf
  <2> QED BY <1>6, <1>15, <1>17, <2>1, <2>2, <2>3
<1> QED BY <1>6, <1>7, <1>9, <1>13, <1>14, <1>15, <1>17 DEF calls

LEMMA ToolsDoneKeeps ==
    ASSUME TurnInv, ToolsDone
    PROVE  TurnInv'
<1>1. PICK i \in BOOLEAN :
          /\ phase = "tools" /\ step' = step /\ MayInject(i)
          /\ Checkpoint("tools_completed")
          /\ UNCHANGED <<history, pending, turn, past>>
          /\ SaveThen("model", Inject(work \o Results, i))
  BY DEF ToolsDone
<1> DEFINE w == work \o Results
           x == Inject(w, i)
<1>2. /\ history' = history /\ pending' = pending /\ turn' = turn
      /\ cleared' = cleared /\ continued' = continued /\ unarchived' = unarchived /\ InModel
  BY <1>1 DEF past, InModel
<1>3. \/ disk' = Saved' /\ phase' = "model" /\ work' = x
      \/ disk' = disk /\ phase' = "idle" /\ work' = <<>>
  BY <1>1 DEF SaveThen, Idle
<1>4. /\ w \in Seq(Messages) /\ WorkGood(w, turn, step, cycles) /\ Legal(w)
     
      /\ ToSet(Results) \subseteq ToSet(w)
      /\ Row("calls", step, 0) \in ToSet(w)
      /\ step \in 1 .. MaxSteps
  BY <1>1, ToolsFinished
<1>5. /\ TypeOK /\ MaxSteps \in Nat /\ step \in Nat
  BY Typed DEF TurnInv
<1> HIDE DEF w
<1>6. /\ x \in Seq(Messages) /\ WorkGood(x, turn, step, cycles')
      /\ Legal(x) /\ ToSet(w) \subseteq ToSet(x)
      /\ cycles' \in 0 .. MaxCycles
  <2>1. step' \in Nat \ {0} /\ step' <= step /\ step' <= MaxSteps + 1 /\ step <= step
    BY <1>1, <1>4, <1>5
  <2> QED BY <1>1, <1>4, <1>5, <2>1, InjectGood
<1> HIDE DEF x
<1>7. /\ check' \in Checkpoints /\ check' # None /\ check'.turn = turn /\ check'.step = step
      /\ check'.phase = "tools_completed"
  <2>1. step' \in 1 .. MaxSteps
    BY <1>1, <1>4
  <2> QED BY <1>1, <1>2, <2>1, NewCheckpoint
<1>8. Durable(check') \subseteq ToSet(x)
  <2>1. CallsRow(check') = Row("calls", step, 0)
    BY <1>7 DEF CallsRow, Row
  <2>2. ToolRows(check', "result") = Results
    BY <1>7 DEF ToolRows, Results
  <2>3. Durable(check') \subseteq {CallsRow(check')} \cup ToSet(ToolRows(check', "result"))
    BY <1>7, DurableRows
  <2> QED BY <1>4, <1>6, <2>1, <2>2, <2>3
<1>9. RunInv'
  <2>1. CASE phase' = "idle" /\ work' = <<>>
    BY <2>1, EmptyRun
  <2>2. CASE phase' = "model" /\ work' = x
    <3>1. Reached' = step /\ step' \in Nat \ {0}
      BY <1>1, <1>4, <2>2 DEF Reached
    <3>2. WorkGood(work', turn, Reached', cycles')
      BY <1>6, <2>2, <3>1
    <3>3. Legal(work')
      BY <1>6, <2>2
    <3>4. check'.turn = turn /\ Durable(check') \subseteq ToSet(work')
      BY <1>7, <1>8, <2>2
    <3> QED BY <1>2, <2>2, <3>1, <3>2, <3>3, <3>4, RunGoesOn
  <2> QED BY <1>3, <2>1, <2>2
<1>10. /\ work' \in Seq(Messages) /\ phase' \in Phases
       /\ disk' = disk \/ disk' = Saved'
  <2>1. <<>> \in Seq(Messages)
    BY EmptySeq
  <2>2. work' \in Seq(Messages)
    BY <1>3, <1>6, <2>1
  <2> QED BY <1>3, <2>2 DEF Phases
<1>11. step' \in 0 .. MaxSteps
  BY <1>1, <1>4
<1> QED BY <1>2, <1>6, <1>7, <1>9, <1>10, <1>11, Checkpointed

\* A turn that stops, or goes on for the follow-ups it was given.
LEMMA StopKeeps ==
    ASSUME TurnInv, InModel, NEW rows \in Seq(Messages), StopWith(rows),
           step' \in 1 .. MaxSteps, WorkGood(rows, turn, step', cycles), Legal(rows),
           ToSet(work) \subseteq ToSet(rows)
    PROVE  TurnInv'
<1>1. PICK i \in BOOLEAN :
          /\ MayInject(i)
          /\ work' = Inject(rows, i)
          /\ phase' = IF i THEN "model" ELSE "ended"
          /\ UNCHANGED <<session, disk, turn, past>>
  BY DEF StopWith
<1>2. /\ history' = history /\ pending' = pending /\ check' = check /\ disk' = disk /\ turn' = turn
      /\ cleared' = cleared /\ continued' = continued /\ unarchived' = unarchived /\ phase' \in {"model", "ended"}
  BY <1>1 DEF past, session
<1>3. TypeOK /\ MaxSteps \in Nat
  BY Typed DEF TurnInv
<1>4. /\ step' \in Nat \ {0} /\ step' \in Nat /\ step' <= step' /\ step' <= MaxSteps + 1
      /\ step' \in 0 .. MaxSteps
  BY <1>3
<1>5. /\ work' \in Seq(Messages) /\ WorkGood(work', turn, step', cycles')
      /\ Legal(work') /\ ToSet(rows) \subseteq ToSet(work')
      /\ cycles' \in 0 .. MaxCycles /\ cycles' \in Nat
  <2> DEFINE x == Inject(rows, i)
  <2>1. /\ x \in Seq(Messages) /\ WorkGood(x, turn, step', cycles')
        /\ Legal(x) /\ ToSet(rows) \subseteq ToSet(x)
        /\ cycles' \in 0 .. MaxCycles /\ cycles' \in Nat
    BY <1>1, <1>3, <1>4, InjectGood
  <2>2. work' = x
    BY <1>1
  <2> HIDE DEF x
  <2> QED BY <2>1, <2>2
<1>6. WorkGood(work', turn, Reached', cycles')
  <2>1. CASE phase' = "ended"
    <3>1. Reached' = MaxSteps + 1 /\ MaxSteps + 1 \in Nat /\ cycles' <= cycles'
      BY <1>3, <1>5, <2>1 DEF Reached
    <3> QED BY <1>4, <1>5, <3>1, WorkLater
  <2>2. CASE phase' = "model"
    <3>1. Reached' = step'
      BY <2>2 DEF Reached
    <3> QED BY <1>5, <3>1
  <2> QED BY <1>2, <2>1, <2>2
<1>7. check' # None => check'.turn = turn /\ Durable(check') \subseteq ToSet(work')
  <2>1. check # None => check.turn = turn /\ Durable(check) \subseteq ToSet(work)
    BY WhenInModel
  <2> QED BY <1>2, <1>5, <2>1
<1>8. RunInv'
  BY <1>2, <1>4, <1>5, <1>6, <1>7, RunGoesOn
<1>9. phase' \in Phases
  BY <1>2 DEF Phases
<1> QED BY <1>2, <1>4, <1>5, <1>8, <1>9, OnlyWork

LEMMA ToolsFatalKeeps ==
    ASSUME TurnInv, ToolsFatal
    PROVE  TurnInv'
<1> DEFINE r == Row("closing", step, 0)
           w == work \o Results
           x == Append(w, r)
           rows == work \o Append(Results, r)
<1>1. phase = "tools" /\ step' = step /\ InModel /\ StopWith(rows)
  BY DEF ToolsFatal, InModel
<1>2. /\ w \in Seq(Messages) /\ WorkGood(w, turn, step, cycles) /\ Legal(w)
      /\ ToSet(work) \subseteq ToSet(w)
      /\ step \in 1 .. MaxSteps /\ Results \in Seq(Messages)
      /\ \A q \in ToSet(w) : q.step < step \/ q.kind \in ToolKinds \cup {"calls"}
  BY <1>1, ToolsFinished
<1>3. /\ TypeOK /\ work \in Seq(Messages) /\ MaxSteps \in Nat /\ step \in Nat /\ cycles \in Nat
      /\ Calls \in Nat
  BY Typed DEF TurnInv
<1>4. r \in Messages /\ r.turn = turn /\ r.step = step /\ r.kind = "closing" /\ r.call = 0
  <2>1. step \in 0 .. MaxSteps + 1 /\ "closing" \in Kinds /\ 0 \in Nat /\ 0 <= Calls
    BY <1>2, <1>3 DEF Kinds
  <2> QED BY <1>3, <2>1, RowIs
<1> HIDE DEF r
<1>5. rows = x
  <2> DEFINE s == <<r>>
  <2>1. Append(Results, r) = Results \o s /\ s \in Seq(Messages) /\ Append(w, r) = w \o s
    BY <1>2, <1>4, Appended
  <2> HIDE DEF s
  <2>2. work \o (Results \o s) = (work \o Results) \o s
    <3>1. work \in Seq(Messages) /\ Results \in Seq(Messages) /\ s \in Seq(Messages)
      BY <1>2, <1>3, <2>1
    <3> HIDE DEF w, r
    <3> QED BY <3>1, ConcatAssociative
  <2> QED BY <2>1, <2>2
<1> HIDE DEF w, rows
<1>6. \A i \in 1 .. Len(w) : ~Same(w[i], r)
  <2> SUFFICES ASSUME NEW i \in 1 .. Len(w), Same(w[i], r) PROVE FALSE
    OBVIOUS
  <2>1. w[i] \in ToSet(w)
    BY <1>2, SetOf
  <2>2. w[i].step = step /\ (w[i].kind = "closing" \/ "closing" \in ToolKinds)
    BY <1>4 DEF Same
  <2>3. w[i].step < step \/ w[i].kind \in ToolKinds \cup {"calls"}
    BY <1>2, <2>1
  <2> QED BY <1>3, <2>2, <2>3 DEF ToolKinds
<1>7. /\ r.kind \notin {"user", "event", "reply", "notice"} \cup ToolKinds
      /\ r.kind # "followup" /\ r.kind # "calls" /\ r.step # 0 /\ r.step <= step
  BY <1>2, <1>3, <1>4 DEF ToolKinds
<1>8. WorkGood(w, r.turn, step, cycles) /\ step <= step /\ cycles <= cycles
  BY <1>2, <1>3, <1>4
<1>9. /\ x \in Seq(Messages) /\ WorkGood(x, r.turn, step, cycles)
      /\ ToSet(w) \subseteq ToSet(x) /\ Len(x) # 0
      /\ Legal(w) /\ r.kind # "calls" => Legal(x)
  BY <1>2, <1>3, <1>4, <1>6, <1>7, <1>8, WorkAppended
<1>10. WorkGood(x, turn, step', cycles) /\ step' \in 1 .. MaxSteps
  BY <1>1, <1>2, <1>4, <1>9
<1>11. Legal(x) /\ ToSet(work) \subseteq ToSet(x)
  BY <1>2, <1>7, <1>9
<1> QED BY <1>1, <1>5, <1>9, <1>10, <1>11, StopKeeps

LEMMA GiveUpKeeps ==
    ASSUME TurnInv, GiveUp
    PROVE  TurnInv'
<1> DEFINE x == Append(work, Row("closing", step', 0))
<1>1. /\ phase = "model" /\ InModel /\ phase # "ended" /\ step < MaxSteps /\ step' = step + 1
  BY DEF GiveUp, NextStep, InModel
<1>2. "closing" \in {"calls", "final", "closing", "partial"}
  OBVIOUS
<1>3. /\ x \in Seq(Messages) /\ WorkGood(x, turn, step', cycles)
      /\ ToSet(work) \subseteq ToSet(x)
      /\ (Legal(work) => Legal(x)) /\ step' \in 1 .. MaxSteps /\ step' <= MaxSteps + 1
  BY <1>1, <1>2, ResponseRow
<1>4. /\ Legal(work) /\ TypeOK /\ work \in Seq(Messages) /\ step \in Nat /\ MaxSteps \in Nat
      /\ WorkGood(work, turn, step, cycles)
      /\ (check # None => check.turn = turn /\ Durable(check) \subseteq ToSet(work))
  BY <1>1, WhenInModel DEF Reached
<1> HIDE DEF x
<1>5. CASE StopWith(x)
  BY <1>1, <1>3, <1>4, <1>5, StopKeeps
<1>6. CASE /\ MayInject(TRUE) /\ work' \in InjectOpen(work)
           /\ UNCHANGED <<session, disk, phase, turn, past>>
  <2>1. /\ history' = history /\ pending' = pending /\ check' = check /\ disk' = disk /\ turn' = turn
        /\ cleared' = cleared /\ continued' = continued /\ unarchived' = unarchived
        /\ phase' = "model"
    BY <1>1, <1>6 DEF session, past
  <2>2. step' \in Nat \ {0} /\ step' \in Nat /\ step <= step' /\ step' <= step' /\ step' \in 0 .. MaxSteps
    BY <1>1, <1>3, <1>4
  <2> DEFINE y == work'
  <2>3. y \in InjectOpen(work)
    BY <1>6
  <2> HIDE DEF y
  <2>4. /\ y \in Seq(Messages) /\ WorkGood(y, turn, step', cycles')
        /\ Legal(y) /\ ToSet(work) \subseteq ToSet(y)
        /\ cycles' \in 0 .. MaxCycles
    BY <1>3, <1>4, <1>6, <2>2, <2>3, InjectOpenGood
  <2>5. RunInv'
    <3>1. Reached' = step'
      BY <2>1 DEF Reached
    <3>2. WorkGood(work', turn, Reached', cycles') /\ Legal(work')
      BY <2>4, <3>1 DEF y
    <3>3. check' # None => check'.turn = turn /\ Durable(check') \subseteq ToSet(work')
      BY <1>4, <2>1, <2>4 DEF y
    <3> QED BY <1>1, <2>1, <2>2, <3>2, <3>3, RunGoesOn
  <2>6. work' \in Seq(Messages) /\ phase' \in Phases
    BY <2>1, <2>4 DEF y, Phases
  <2> QED BY <2>1, <2>2, <2>4, <2>5, <2>6, OnlyWork
<1> QED BY <1>5, <1>6 DEF GiveUp, x

LEMMA RetryKeeps ==
    ASSUME TurnInv, Retry
    PROVE  TurnInv'
<1>1. /\ phase = "model" /\ InModel /\ step < MaxSteps /\ step' = step + 1
      /\ history' = history /\ pending' = pending /\ check' = check /\ disk' = disk /\ turn' = turn
      /\ cleared' = cleared /\ continued' = continued /\ unarchived' = unarchived
      /\ phase' = "model" /\ work' = work /\ cycles' = cycles
  BY DEF Retry, NextStep, InModel, session, past
<1>2. /\ Legal(work) /\ TypeOK /\ work \in Seq(Messages) /\ step \in Nat /\ MaxSteps \in Nat
      /\ WorkGood(work, turn, step, cycles) /\ cycles \in Nat
      /\ (check # None => check.turn = turn /\ Durable(check) \subseteq ToSet(work))
  BY <1>1, WhenInModel DEF Reached
<1>3. step' \in Nat \ {0} /\ step' \in Nat /\ step <= step' /\ cycles <= cycles /\ step' \in 0 .. MaxSteps
  BY <1>1, <1>2
<1>4. WorkGood(work, turn, step', cycles)
  BY <1>2, <1>3, WorkLater
<1>5. RunInv'
  <2>1. Reached' = step'
    BY <1>1 DEF Reached
  <2>2. WorkGood(work', turn, Reached', cycles') /\ Legal(work')
    BY <1>1, <1>2, <1>4, <2>1
  <2>3. check' # None => check'.turn = turn /\ Durable(check') \subseteq ToSet(work')
    BY <1>1, <1>2
  <2> QED BY <1>1, <1>3, <2>2, <2>3, RunGoesOn
<1>6. work' \in Seq(Messages) /\ phase' \in Phases /\ cycles' \in 0 .. MaxCycles
  BY <1>1, <1>2 DEF Phases, TypeOK
<1> QED BY <1>1, <1>3, <1>5, <1>6, OnlyWork

LEMMA AnswerKeeps ==
    ASSUME TurnInv, Answer
    PROVE  TurnInv'
<1> DEFINE r == Row("final", step', 0)
           w == Append(work, r)
<1>1. PICK i \in BOOLEAN, g \in BOOLEAN :
          /\ phase = "model" /\ NextStep /\ MayInject(i)
          /\ Checkpoint("final_response")
          /\ UNCHANGED <<history, pending, turn, past>>
          /\ SaveThen(IF i \/ g THEN "model" ELSE "ended",
                      IF i \/ ~g THEN Inject(w, i) ELSE Append(w, Row("prompt", step', 0)))
  BY DEF Answer
<1> DEFINE x == IF i \/ ~g THEN Inject(w, i) ELSE Append(w, Row("prompt", step', 0))
<1>2. /\ history' = history /\ pending' = pending /\ turn' = turn
      /\ cleared' = cleared /\ continued' = continued /\ unarchived' = unarchived /\ InModel /\ phase = "model"
      /\ phase # "ended" /\ step < MaxSteps /\ step' = step + 1
  BY <1>1 DEF past, InModel, NextStep
<1>3. \/ disk' = Saved' /\ phase' \in {"model", "ended"} /\ work' = x
      \/ disk' = disk /\ phase' = "idle" /\ work' = <<>>
  BY <1>1 DEF SaveThen, Idle
<1>4. /\ r.turn = turn /\ r.step = step' /\ r.kind = "final" /\ r.call = 0
      /\ w \in Seq(Messages) /\ WorkGood(w, turn, step', cycles)
     
      /\ r \in ToSet(w) /\ (Legal(work) => Legal(w))
      /\ step' \in 1 .. MaxSteps /\ step' \in Nat \ {0} /\ step' <= MaxSteps + 1
      /\ \A j \in 1 .. Len(w) : w[j].step < step' \/ w[j].kind = "final"
  BY <1>2, ResponseRow
<1>5. TypeOK /\ MaxSteps \in Nat /\ step \in Nat /\ Legal(w)
  <2>1. Legal(work)
    BY <1>2, WhenInModel
  <2> QED BY <1>4, <2>1, Typed DEF TurnInv
<1>6. r = [turn |-> turn, step |-> step', kind |-> "final", call |-> 0]
  BY DEF Row
<1> HIDE DEF r, w
<1>7. /\ x \in Seq(Messages) /\ WorkGood(x, turn, step', cycles')
      /\ Legal(x) /\ ToSet(w) \subseteq ToSet(x)
      /\ cycles' \in 0 .. MaxCycles /\ cycles' \in Nat
  <2>1. step' \in Nat /\ step' <= step'
    BY <1>4
  <2>2. CASE i \/ ~g
    <3>1. x = Inject(w, i)
      BY <2>2
    <3> HIDE DEF x
    <3> QED BY <1>1, <1>4, <1>5, <2>1, <3>1, InjectGood
  <2>3. CASE ~i /\ g
    <3>1. x = Append(w, Row("prompt", step', 0)) /\ cycles' = cycles
      BY <1>1, <2>3 DEF MayInject
    <3>2. cycles \in Nat /\ cycles <= MaxCycles /\ MaxCycles \in Nat
      BY Typed DEF TurnInv
    <3> HIDE DEF x
    <3> QED BY <1>4, <1>5, <3>1, <3>2, PromptRow
  <2> QED BY <2>2, <2>3
<1> HIDE DEF x
<1>8. /\ check' \in Checkpoints /\ check' # None /\ check'.turn = turn /\ check'.step = step'
      /\ check'.phase = "final_response"
  BY <1>1, <1>2, <1>4, NewCheckpoint
<1>9. Durable(check') \subseteq ToSet(x)
  <2>1. Durable(check') \subseteq
            {[turn |-> check'.turn, step |-> check'.step, kind |-> "final", call |-> 0]}
    BY <1>8, DurableRows
  <2>2. Durable(check') \subseteq {r}
    BY <1>6, <1>8, <2>1
  <2> QED BY <1>4, <1>7, <2>2
<1>10. RunInv'
  <2>1. CASE phase' = "idle" /\ work' = <<>>
    BY <2>1, EmptyRun
  <2>2. CASE phase' \in {"model", "ended"} /\ work' = x
    <3>1. WorkGood(work', turn, Reached', cycles')
      <4>1. CASE phase' = "ended"
        <5>1. Reached' = MaxSteps + 1 /\ MaxSteps + 1 \in Nat /\ cycles' <= cycles'
          BY <1>5, <1>7, <4>1 DEF Reached
        <5>2. step' \in Nat
          BY <1>4
        <5>3. WorkGood(work', turn, step', cycles') /\ work' \in Seq(Messages)
          BY <1>7, <2>2
        <5> QED BY <1>4, <1>7, <5>1, <5>2, <5>3, WorkLater
      <4>2. CASE phase' = "model"
        <5>1. Reached' = step'
          BY <4>2 DEF Reached
        <5> QED BY <1>7, <2>2, <5>1
      <4> QED BY <2>2, <4>1, <4>2
    <3>2. Legal(work')
      BY <1>7, <2>2
    <3>3. check'.turn = turn /\ Durable(check') \subseteq ToSet(work')
      BY <1>8, <1>9, <2>2
    <3> QED BY <1>2, <1>4, <2>2, <3>1, <3>2, <3>3, RunGoesOn
  <2> QED BY <1>3, <2>1, <2>2
<1>11. /\ work' \in Seq(Messages) /\ phase' \in Phases
       /\ disk' = disk \/ disk' = Saved'
  <2>1. <<>> \in Seq(Messages)
    BY EmptySeq
  <2>2. work' \in Seq(Messages)
    BY <1>3, <1>7, <2>1
  <2> QED BY <1>3, <2>2 DEF Phases
<1>12. step' \in 0 .. MaxSteps
  BY <1>4
<1> QED BY <1>2, <1>7, <1>8, <1>10, <1>11, <1>12, Checkpointed

LEMMA TruncatedKeeps ==
    ASSUME TurnInv, Truncated
    PROVE  TurnInv'
<1> DEFINE a == Row("partial", step', 0)
           b == Row("prompt", step', 0)
<1>1. /\ phase = "model" /\ InModel /\ phase # "ended" /\ step < MaxSteps /\ step' = step + 1
      /\ history' = history /\ pending' = pending /\ check' = check /\ disk' = disk /\ turn' = turn
      /\ cycles' = cycles /\ cleared' = cleared /\ continued' = continued
      /\ unarchived' = unarchived /\ phase' = "model"
  BY DEF Truncated, NextStep, InModel, session, past
<1>2. /\ a \in Messages
      /\ Append(work, a) \in Seq(Messages) /\ WorkGood(Append(work, a), turn, step', cycles)
      /\ ToSet(work) \subseteq ToSet(Append(work, a))
      /\ (Legal(work) => Legal(Append(work, a)))
      /\ step' \in 1 .. MaxSteps /\ step' \in Nat \ {0}
      /\ \A i \in 1 .. Len(work) : work[i].step < step'
      /\ \A i \in 1 .. Len(Append(work, a)) :
            Append(work, a)[i].step < step' \/ Append(work, a)[i].kind = "partial"
  BY <1>1, ResponseRow
<1>3. /\ TypeOK /\ work \in Seq(Messages) /\ MaxSteps \in Nat /\ step \in Nat /\ cycles \in Nat
      /\ Legal(work) /\ WorkGood(work, turn, step, cycles) /\ Calls \in Nat
      /\ (check # None => check.turn = turn /\ Durable(check) \subseteq ToSet(work))
  BY <1>1, WhenInModel DEF Reached
<1>4. step' \in Nat /\ step <= step' /\ cycles <= cycles
  BY <1>1, <1>2, <1>3
<1>5. b \in Messages
  <2>1. step' \in 0 .. MaxSteps + 1 /\ "prompt" \in Kinds /\ 0 \in Nat /\ 0 <= Calls
    BY <1>2, <1>3 DEF Kinds, UserKinds
  <2> QED BY <1>3, <2>1, RowIs
<1>6. work' = work \o Append(<<>>, b) \/ work' = work \o Append(<<a>>, b)
  BY DEF Truncated
<1> HIDE DEF a, b
<1>7. PICK w \in {work, Append(work, a)} : work' = Append(w, b)
  <2>1. work \o Append(<<>>, b) = Append(work, b)
    BY <1>3, <1>5, Appended
  <2>2. work \o Append(<<a>>, b) = Append(Append(work, a), b)
    <3> DEFINE s == <<a>>
               t == <<b>>
               y == Append(work, a)
    <3>1. y = work \o s /\ s \in Seq(Messages)
      BY <1>2, <1>3, Appended
    <3>2. Append(y, b) = y \o t /\ t \in Seq(Messages)
      BY <1>2, <1>5, Appended
    <3> HIDE DEF s, t, y
    <3>3. Append(s, b) = s \o t
      BY <1>5, <3>1, Appended DEF t
    <3>4. (work \o s) \o t = work \o (s \o t)
      BY <1>3, <3>1, <3>2, ConcatAssociative
    <3>5. work \o Append(s, b) = Append(y, b)
      BY <3>1, <3>2, <3>3, <3>4
    <3> QED BY <3>5 DEF s, y
  <2> QED BY <1>6, <2>1, <2>2
<1>8. /\ w \in Seq(Messages) /\ WorkGood(w, turn, step', cycles) /\ Legal(w)
      /\ ToSet(work) \subseteq ToSet(w)
      /\ \A i \in 1 .. Len(w) : w[i].step < step' \/ w[i].kind \in {"partial", "final"}
  <2>1. CASE w = work
    <3>1. WorkGood(work, turn, step', cycles)
      BY <1>3, <1>4, WorkLater
    <3> QED BY <1>2, <1>3, <2>1, <3>1
  <2>2. CASE w = Append(work, a)
    BY <1>2, <1>3, <2>2
  <2> QED BY <1>7, <2>1, <2>2
<1> DEFINE x == Append(w, b)
<1>9. /\ x \in Seq(Messages) /\ WorkGood(x, turn, step', cycles)
      /\ Legal(x) /\ ToSet(w) \subseteq ToSet(x)
  BY <1>2, <1>3, <1>8, PromptRow DEF b
<1>10. work' = x
  BY <1>7
<1> HIDE DEF x
<1>11. RunInv'
  <2>1. Reached' = step'
    BY <1>1 DEF Reached
  <2>2. WorkGood(work', turn, Reached', cycles') /\ Legal(work')
    BY <1>1, <1>9, <1>10, <2>1
  <2>3. check' # None => check'.turn = turn /\ Durable(check') \subseteq ToSet(work')
    BY <1>1, <1>3, <1>8, <1>9, <1>10
  <2> QED BY <1>1, <1>2, <2>2, <2>3, RunGoesOn
<1>12. /\ work' \in Seq(Messages) /\ phase' \in Phases
       /\ step' \in 0 .. MaxSteps /\ cycles' \in 0 .. MaxCycles
  BY <1>1, <1>2, <1>3, <1>9, <1>10 DEF Phases, TypeOK
<1> QED BY <1>1, <1>11, <1>12, OnlyWork

LEMMA ExhaustedKeeps ==
    ASSUME TurnInv, Exhausted
    PROVE  TurnInv'
<1> DEFINE r == Row("closing", step + 1, 0)
<1>1. PICK i \in BOOLEAN, continues \in BOOLEAN :
          /\ phase = "model" /\ step = MaxSteps /\ step' = step
          /\ MayInject(i)
          /\ \E rows \in (IF i THEN InjectOpen(work) ELSE {work}) :
                work' = IF continues THEN rows ELSE Append(rows, r)
          /\ phase' = "ended"
          /\ continued' = IF continues THEN continued \cup {turn} ELSE continued
          /\ UNCHANGED <<session, disk, turn, cleared, unarchived>>
  BY DEF Exhausted
<1>15. PICK w \in (IF i THEN InjectOpen(work) ELSE {work}) :
          work' = IF continues THEN w ELSE Append(w, r)
  BY <1>1
<1> DEFINE x == Append(w, r)
<1>2. /\ history' = history /\ pending' = pending /\ check' = check /\ disk' = disk /\ turn' = turn
      /\ cleared' = cleared /\ unarchived' = unarchived /\ InModel /\ phase = "model"
      /\ step = MaxSteps /\ step' = step /\ phase' = "ended"
  BY <1>1 DEF past, session, InModel
<1>3. /\ TypeOK /\ work \in Seq(Messages) /\ MaxSteps \in Nat \ {0} /\ step \in Nat \ {0}
      /\ cycles \in Nat /\ Calls \in Nat /\ turn \in Nat
      /\ WorkGood(work, turn, step, cycles) /\ Legal(work)
      /\ (check # None => check.turn = turn /\ Durable(check) \subseteq ToSet(work))
  <2>1. step \in Nat /\ MaxSteps \in Nat \ {0}
    BY <1>2, WhenInModel
  <2>2. step # 0
    BY <1>2, <2>1
  <2> QED BY <1>2, <2>1, <2>2, WhenInModel DEF Reached
<1>4. /\ w \in Seq(Messages) /\ WorkGood(w, turn, step, cycles')
      /\ Legal(w) /\ ToSet(work) \subseteq ToSet(w)
      /\ cycles' \in 0 .. MaxCycles /\ cycles' \in Nat
  <2>1. step' \in Nat \ {0} /\ step' <= step /\ step' <= MaxSteps + 1 /\ step <= step /\ step \in Nat
    BY <1>2, <1>3
  <2>2. CASE i
    <3>1. MayInject(TRUE) /\ w \in InjectOpen(work)
      BY <1>1, <1>15, <2>2
    <3> QED BY <1>3, <2>1, <3>1, InjectOpenGood
  <2>3. CASE ~i
    <3>1. w = work /\ cycles' = cycles
      BY <1>1, <1>15, <2>3 DEF MayInject
    <3>2. cycles <= MaxCycles /\ MaxCycles \in Nat
      BY <1>3, Typed
    <3> QED BY <1>3, <3>1, <3>2
  <2> QED BY <2>2, <2>3
<1>5. r \in Messages /\ r.turn = turn /\ r.step = step + 1 /\ r.kind = "closing" /\ r.call = 0
  <2>1. step + 1 \in 0 .. MaxSteps + 1 /\ "closing" \in Kinds /\ 0 \in Nat /\ 0 <= Calls
    BY <1>2, <1>3 DEF Kinds
  <2> QED BY <1>3, <2>1, RowIs
<1>6. work' = w \/ work' = x
  BY <1>15
<1> HIDE DEF r
<1>7. \A j \in 1 .. Len(w) : ~Same(w[j], r)
  <2> SUFFICES ASSUME NEW j \in 1 .. Len(w), Same(w[j], r) PROVE FALSE
    OBVIOUS
  <2>1. w[j].step = step + 1
    BY <1>5 DEF Same
  <2>2. w[j].step <= step
    BY <1>4 DEF WorkGood
  <2> QED BY <1>3, <2>1, <2>2
<1>8. /\ r.kind \notin {"user", "event", "reply", "notice"} \cup ToolKinds
      /\ r.kind # "followup" /\ r.kind # "calls" /\ r.step # 0 /\ r.step <= MaxSteps + 1
      /\ step <= MaxSteps + 1 /\ MaxSteps + 1 \in Nat /\ cycles' <= cycles' /\ step \in Nat
      /\ WorkGood(w, r.turn, step, cycles')
  BY <1>2, <1>3, <1>4, <1>5 DEF ToolKinds
<1>9. /\ x \in Seq(Messages) /\ WorkGood(x, r.turn, MaxSteps + 1, cycles')
      /\ ToSet(w) \subseteq ToSet(x) /\ Len(x) # 0
      /\ Legal(w) /\ r.kind # "calls" => Legal(x)
  BY <1>4, <1>5, <1>7, <1>8, WorkAppended
<1>10. WorkGood(w, turn, MaxSteps + 1, cycles')
  BY <1>4, <1>8, WorkLater
<1> HIDE DEF x
<1>11. /\ work' \in Seq(Messages) /\ WorkGood(work', turn, MaxSteps + 1, cycles')
       /\ Legal(work') /\ ToSet(work) \subseteq ToSet(work')
  <2>1. CASE work' = w
    BY <1>4, <1>10, <2>1
  <2>2. CASE work' = x
    BY <1>4, <1>5, <1>8, <1>9, <2>2
  <2> QED BY <1>6, <2>1, <2>2
<1>12. RunInv'
  <2>1. Reached' = MaxSteps + 1
    BY <1>2 DEF Reached
  <2>2. WorkGood(work', turn, Reached', cycles')
    BY <1>11, <2>1
  <2>3. check' # None => check'.turn = turn /\ Durable(check') \subseteq ToSet(work')
    BY <1>2, <1>3, <1>11
  <2>4. phase' \in {"model", "ended"} /\ step' \in Nat \ {0}
    BY <1>2, <1>3
  <2> QED BY <1>2, <1>11, <2>2, <2>3, <2>4, RunGoesOn
<1>13. phase' \in Phases /\ step' \in 0 .. MaxSteps
  BY <1>2, <1>3 DEF Phases
<1>14. continued' = continued \/ (turn # 0 /\ continued' = continued \cup {turn})
  <2>1. turn # 0
    BY <1>2, WhenInModel
  <2> QED BY <1>1, <2>1
<1> QED BY <1>2, <1>4, <1>11, <1>12, <1>13, <1>14, OnlyWork

-----------------------------------------------------------------------------
(* The end of a turn *)

\* When no row is answered yet, all of them are kept.
LEMMA UnansweredAll ==
    ASSUME NEW w \in Seq(Messages), \A i \in 1 .. Len(w) : ~Answered(w[i])
    PROVE  Unanswered(w) = w
<1> DEFINE kept == {i \in DOMAIN w : ~Answered(w[i])}
           nth(n) == CHOOSE i \in kept : Cardinality(kept \cap 1 .. i) = n
<1>1. Unanswered(w) = [n \in 1 .. Cardinality(kept) |-> w[nth(n)]]
  BY DEF Unanswered
<1>2. DOMAIN w = 1 .. Len(w) /\ Len(w) \in Nat
  BY LenProperties
<1>3. kept = 1 .. Len(w)
  BY <1>2
<1> HIDE DEF kept
<1>4. \A i \in 0 .. Len(w) : Cardinality(1 .. i) = i
  <2> SUFFICES ASSUME NEW i \in 0 .. Len(w) PROVE Cardinality(1 .. i) = i
    OBVIOUS
  <2>1. 1 \in Int /\ i \in Int /\ (1 > i => i = 0) /\ i - 1 + 1 = i
    BY <1>2
  <2>2. Cardinality(1 .. i) = IF 1 > i THEN 0 ELSE i - 1 + 1
    BY <2>1, FS_Interval
  <2> QED BY <2>1, <2>2
<1>5. Cardinality(kept) = Len(w)
  <2>1. Len(w) \in 0 .. Len(w)
    BY <1>2
  <2> QED BY <1>3, <1>4, <2>1
<1>6. \A i \in kept : Cardinality(kept \cap 1 .. i) = i
  <2> SUFFICES ASSUME NEW i \in 1 .. Len(w) PROVE Cardinality(kept \cap 1 .. i) = i
    BY <1>3
  <2>1. kept \cap 1 .. i = 1 .. i
    BY <1>2, <1>3
  <2>2. i \in 0 .. Len(w)
    BY <1>2
  <2> QED BY <1>4, <2>1, <2>2
<1>7. ASSUME NEW n \in 1 .. Len(w) PROVE nth(n) = n
  <2>1. n \in kept /\ Cardinality(kept \cap 1 .. n) = n
    BY <1>3, <1>6
  <2>2. nth(n) \in kept /\ Cardinality(kept \cap 1 .. nth(n)) = n
    BY <2>1
  <2> HIDE DEF nth
  <2> QED BY <1>6, <2>2
<1> HIDE DEF nth
<1>8. Unanswered(w) = [n \in 1 .. Len(w) |-> w[n]]
  BY <1>1, <1>5, <1>7
<1>9. w = [n \in 1 .. Len(w) |-> w[n]]
  BY <1>2
<1> QED BY <1>8, <1>9

\* The messages of a turn that has ended, behind the history.
LEMMA TurnLands ==
    ASSUME TurnInv, phase = "ended", NEW d \in Checkpoints \cup {None}, NEW u2,
           d # None => d.turn <= turn, unarchived => u2, u2 \/ d = None
    PROVE  LET h == history \o Unanswered(work)
           IN  /\ h \in Seq(Messages) /\ Good(h, d, turn, u2)
               /\ ToSet(h) = ToSet(history) \cup ToSet(work) /\ Unanswered(work) = work
<1>1. /\ history \in Seq(Messages) /\ work \in Seq(Messages) /\ turn \in Nat /\ InModel
      /\ check \in Checkpoints \cup {None} /\ step \in Nat
  BY Typed DEF TurnInv, InModel
<1>2. /\ Legal(work) /\ WorkGood(work, turn, Reached, cycles)
  BY <1>1, WhenInModel
<1>4. Good(history, check, turn, unarchived)
  BY DEF TurnInv, SessionInv
<1>5. \A i \in 1 .. Len(history) : history[i].step # 0 => history[i].turn < turn
  BY DEF TurnInv, RunInv, HistoryFits
<1>6. \A j \in 1 .. Len(work) : /\ work[j].turn = turn /\ work[j].step # 0
                                /\ work[j].kind \notin {"user", "event", "reply", "notice"}
  BY <1>2 DEF WorkGood
<1>7. ASSUME NEW i \in 1 .. Len(history), NEW j \in 1 .. Len(work),
             history[i].turn = work[j].turn, history[i].step = work[j].step
      PROVE  FALSE
  <2>1. history[i].turn < turn /\ history[i].turn = turn
    BY <1>5, <1>6, <1>7
  <2> QED BY <1>1, <2>1
<1>8. Unanswered(work) = work
  <2> SUFFICES ASSUME NEW j \in 1 .. Len(work), Answered(work[j]) PROVE FALSE
    BY <1>1, UnansweredAll
  <2>1. PICK h \in ToSet(history) : h.turn = work[j].turn /\ h.step = work[j].step
    BY DEF Answered
  <2>2. PICK i \in 1 .. Len(history) : h = history[i]
    BY <1>1, SetOf
  <2> QED BY <1>7, <2>1, <2>2
<1>9. \A i \in 1 .. Len(history), j \in 1 .. Len(work) : ~Same(history[i], work[j])
  BY <1>7 DEF Same
<1>11. \A j \in 1 .. Len(work) : work[j].turn <= turn
  BY <1>1, <1>6
<1>13. OnceEach(work)
  BY <1>2 DEF WorkGood
<1>14. u2 \/ (/\ OnceEach(work)
              /\ \A i \in 1 .. Len(history), j \in 1 .. Len(work) : ~Same(history[i], work[j])
              /\ d # None => /\ \A i \in 1 .. Len(history) : history[i].step # 0 => history[i].turn # d.turn
                             /\ \A i \in 1 .. Len(work) : work[i].step # 0 => work[i].turn # d.turn)
  BY <1>9, <1>13
<1>15. Good(history, check, turn, u2)
  <2>1. turn <= turn
    BY <1>1
  <2>2. unarchived => u2
    OBVIOUS
  <2>3. /\ history \in Seq(Messages) /\ check \in Checkpoints \cup {None} /\ turn \in Nat
    BY <1>1
  <2>4. \A u, v : Good(history, check, turn, u) /\ (u => v) => Good(history, check, turn, v)
    BY <2>1, <2>3, GoodLater
  <2> QED BY <1>4, <2>2, <2>4
<1>16. history \o work \in Seq(Messages) /\ Good(history \o work, d, turn, u2)
  <2>1. /\ (d # None => d.turn <= turn)
        /\ check \in Checkpoints \cup {None} /\ d \in Checkpoints \cup {None}
    BY <1>1
  <2>2. history \in Seq(Messages) /\ work \in Seq(Messages) /\ turn \in Nat /\ Legal(work)
    BY <1>1, <1>2
  <2> DEFINE fresh ==
               /\ OnceEach(work)
               /\ \A i \in 1 .. Len(history), j \in 1 .. Len(work) : ~Same(history[i], work[j])
               /\ d # None => /\ \A i \in 1 .. Len(history) : history[i].step # 0 => history[i].turn # d.turn
                              /\ \A i \in 1 .. Len(work) : work[i].step # 0 => work[i].turn # d.turn
  <2>3. \A v : Good(history, check, turn, v) /\ (v \/ fresh) =>
                 history \o work \in Seq(Messages) /\ Good(history \o work, d, turn, v)
    <3> SUFFICES ASSUME NEW v, Good(history, check, turn, v), v \/ fresh
                 PROVE  history \o work \in Seq(Messages) /\ Good(history \o work, d, turn, v)
      OBVIOUS
    <3>1. v => v
      OBVIOUS
    <3> QED BY <1>11, <2>1, <2>2, <3>1, GoodJoined
  <2>4. u2 \/ fresh
    BY <1>14
  <2> HIDE DEF fresh
  <2> QED BY <1>15, <2>3, <2>4
<1>17. ToSet(history \o work) = ToSet(history) \cup ToSet(work)
  BY <1>1, SetOfJoined
<1> QED BY <1>8, <1>16, <1>17

LEMMA PersistTurnKeeps ==
    ASSUME TurnInv, PersistTurn
    PROVE  TurnInv'
<1> DEFINE h == history \o Unanswered(work)
<1>1. /\ phase = "ended" /\ history' = h /\ pending' = FALSE /\ check' = None
      /\ turn' = turn /\ step' = step /\ cycles' = cycles
      /\ cleared' = cleared /\ continued' = continued /\ unarchived' = unarchived
      /\ phase' = "idle" /\ work' = <<>>
  BY DEF PersistTurn, SaveThen, Idle, CheckAfter, run, past
<1>2. disk' = disk \/ disk' = Saved'
  BY DEF PersistTurn, SaveThen
<1>3. h \in Seq(Messages) /\ Good(h, None, turn, unarchived) /\ ToSet(history) \subseteq ToSet(h)
  BY <1>1, TurnLands
<1> HIDE DEF h
<1>4. Good(history', check', turn, unarchived')
  BY <1>1, <1>3
<1>5. RunInv'
  BY <1>1, EmptyRun
<1>6. /\ phase' \in Phases /\ step' \in 0 .. MaxSteps /\ cycles' \in 0 .. MaxCycles
      /\ unarchived' \in BOOLEAN /\ pending' \in BOOLEAN /\ check' \in Checkpoints \cup {None}
      /\ work' \in Seq(Messages)
  <2>1. step' \in 0 .. MaxSteps /\ cycles' \in 0 .. MaxCycles /\ unarchived' \in BOOLEAN
    BY <1>1 DEF TypeOK, TurnInv
  <2>2. work' \in Seq(Messages)
    BY <1>1, EmptySeq
  <2>3. phase' \in Phases /\ pending' \in BOOLEAN /\ check' \in Checkpoints \cup {None}
    BY <1>1 DEF Phases
  <2> QED BY <2>1, <2>2, <2>3
<1>8. unarchived => unarchived'
  BY <1>1
<1>7. history' \in Seq(Messages) /\ ToSet(history) \subseteq ToSet(history')
  BY <1>1, <1>3
<1> QED BY <1>1, <1>2, <1>4, <1>5, <1>6, <1>7, <1>8, StepKeeps

LEMMA ArchivingFailsKeeps ==
    ASSUME TurnInv, ArchivingFails
    PROVE  TurnInv'
<1> DEFINE h == history \o Unanswered(work)
           q == TRUE
<1>1. /\ phase = "ended" /\ history' = h /\ pending' = pending /\ check' = check
      /\ turn' = turn /\ step' = step /\ cycles' = cycles
      /\ cleared' = cleared /\ continued' = continued /\ unarchived' = TRUE
      /\ phase' = "idle" /\ work' = <<>> /\ disk' = disk
  BY DEF ArchivingFails, Idle, run
<1>2. q
  OBVIOUS
<1> HIDE DEF q
<1>3. check \in Checkpoints \cup {None} /\ (check # None => check.turn <= turn)
  BY Typed DEF TurnInv, SessionInv, Good, Aged
<1>4. /\ h \in Seq(Messages) /\ Good(h, check, turn, q) /\ ToSet(history) \subseteq ToSet(h)
  BY <1>1, <1>2, <1>3, TurnLands
<1> HIDE DEF h
<1>5. Good(history', check', turn, unarchived')
  BY <1>1, <1>4 DEF q
<1>6. RunInv'
  BY <1>1, EmptyRun
<1>7. /\ phase' \in Phases /\ step' \in 0 .. MaxSteps /\ cycles' \in 0 .. MaxCycles
      /\ unarchived' \in BOOLEAN /\ pending' \in BOOLEAN /\ check' \in Checkpoints \cup {None}
      /\ work' \in Seq(Messages) /\ (unarchived => unarchived')
  BY <1>1 DEF TypeOK, Phases, TurnInv
<1>8. history' \in Seq(Messages) /\ ToSet(history) \subseteq ToSet(history')
  BY <1>1, <1>4
<1> QED BY <1>1, <1>5, <1>6, <1>7, <1>8, StepKeeps

\* A session that is left between turns.
LEMMA LeftIdle ==
    ASSUME TurnInv, phase' = "idle", work' = <<>>, turn' = turn, step' = step, cycles' = cycles
    PROVE  /\ RunInv' /\ phase' \in Phases /\ work' \in Seq(Messages)
           /\ step' \in 0 .. MaxSteps /\ cycles' \in 0 .. MaxCycles
<1>1. step' \in 0 .. MaxSteps /\ cycles' \in 0 .. MaxCycles
  BY DEF TypeOK, TurnInv
<1>2. work' \in Seq(Messages)
  BY EmptySeq
<1>3. phase' \in Phases
  BY DEF Phases
<1> QED BY <1>1, <1>2, <1>3, EmptyRun

\* Restoring the session in memory.
LEMMA RestoredSession ==
    ASSUME TurnInv
    PROVE  /\ Restored(history, check) \in Seq(Messages)
           /\ Good(Restored(history, check), None, turn, unarchived)
           /\ ToSet(history) \subseteq ToSet(Restored(history, check))
<1>1. history \in Seq(Messages) /\ turn \in Nat /\ check \in Checkpoints \cup {None}
  BY Typed DEF TurnInv
<1>2. Good(history, check, turn, unarchived)
  BY DEF TurnInv, SessionInv
<1> QED BY <1>1, <1>2, RestoredGood

LEMMA FailKeeps ==
    ASSUME TurnInv, Fail
    PROVE  TurnInv'
<1>1. /\ history' = history /\ pending' = pending /\ check' = check /\ disk' = disk
      /\ turn' = turn /\ step' = step /\ cycles' = cycles
      /\ cleared' = cleared /\ continued' = continued /\ unarchived' = unarchived
      /\ phase' = "idle" /\ work' = <<>>
  BY DEF Fail, Idle, session, run, past
<1>2. /\ RunInv' /\ phase' \in Phases /\ work' \in Seq(Messages)
      /\ step' \in 0 .. MaxSteps /\ cycles' \in 0 .. MaxCycles
  BY <1>1, LeftIdle
<1> QED BY <1>1, <1>2, OnlyWork

LEMMA CancelKeeps ==
    ASSUME TurnInv, Cancel
    PROVE  TurnInv'
<1>1. /\ history' = Restored(history, check) /\ check' = None
      /\ pending' = (pending /\ check = None)
      /\ turn' = turn /\ step' = step /\ cycles' = cycles
      /\ cleared' = cleared /\ continued' = continued /\ unarchived' = unarchived
      /\ phase' = "idle" /\ work' = <<>>
  BY DEF Cancel, Idle, run, past
<1>2. disk' = disk \/ disk' = Saved'
  BY DEF Cancel
<1>4. /\ history' \in Seq(Messages)
      /\ Good(history', None, turn, unarchived)
      /\ ToSet(history) \subseteq ToSet(history')
  BY <1>1, RestoredSession
<1>5. Good(history', check', turn, unarchived')
  BY <1>1, <1>4
<1>6. unarchived' \in BOOLEAN /\ pending' \in BOOLEAN
  <2>1. unarchived \in BOOLEAN
    BY Typed DEF TurnInv
  <2> QED BY <1>1, <2>1
<1>7. check' \in Checkpoints \cup {None}
  BY <1>1
<1>8. /\ RunInv' /\ phase' \in Phases /\ work' \in Seq(Messages)
      /\ step' \in 0 .. MaxSteps /\ cycles' \in 0 .. MaxCycles
  BY <1>1, LeftIdle
<1>9. unarchived => unarchived'
  BY <1>1
<1> QED BY <1>1, <1>2, <1>4, <1>5, <1>6, <1>7, <1>8, <1>9, StepKeeps

LEMMA NewKeeps ==
    ASSUME TurnInv, New
    PROVE  TurnInv'
<1> DEFINE third == [rows |-> Restored(history, check), pending |-> pending', check |-> None]
<1>1. /\ history' = <<>> /\ check' = None
      /\ turn' = turn /\ step' = step /\ cycles' = cycles
      /\ cleared' = turn /\ continued' = continued /\ unarchived' = unarchived
      /\ phase' = "idle" /\ work' = <<>> /\ phase # "idle"
  BY DEF New, Idle, run
<1>2. disk' \in {disk, Saved', third}
  BY DEF New
<1>3. /\ history \in Seq(Messages) /\ turn \in Nat /\ turn <= turn /\ pending \in BOOLEAN
      /\ disk.rows \in Seq(Messages) /\ disk.check \in Checkpoints \cup {None}
      /\ unarchived \in BOOLEAN
  BY Typed DEF TurnInv
<1>4. pending' \in BOOLEAN
  <2>1. CASE phase = "restored" /\ UNCHANGED pending
    BY <1>3, <2>1
  <2>2. CASE pending' = (pending /\ check = None)
    BY <2>2
  <2> QED BY <2>1, <2>2 DEF New
<1> DEFINE s == Restored(history, check)
           z == <<>>
<1>5. s \in Seq(Messages) /\ Good(s, None, turn, unarchived)
  BY RestoredSession
<1>6. z \in Seq(Messages) /\ Len(z) = 0 /\ Legal(z) /\ OnceEach(z)
  BY NothingYet, EmptySeq
<1> HIDE DEF s, z
<1>7. Good(z, None, turn, unarchived)
  BY <1>6 DEF Good, Aged, Unique
<1>8. Good(history', check', turn', unarchived') /\ history' \in Seq(Messages)
  <2>1. history' = z
    BY <1>1 DEF z
  <2> QED BY <1>1, <1>6, <1>7, <2>1
<1>9. /\ Good(disk'.rows, disk'.check, turn', unarchived')
      /\ disk' \in [rows : Seq(Messages), pending : BOOLEAN, check : Checkpoints \cup {None}]
  <2>1. CASE disk' = disk
    <3>1. Good(disk.rows, disk.check, turn, unarchived)
      BY DEF TurnInv, SessionInv
    <3>2. disk \in [rows : Seq(Messages), pending : BOOLEAN, check : Checkpoints \cup {None}]
      BY DEF TurnInv, TypeOK
    <3> QED BY <1>1, <2>1, <3>1, <3>2
  <2>2. CASE disk' = Saved'
    <3>1. disk'.rows = history' /\ disk'.pending = pending' /\ disk'.check = check'
      BY <2>2 DEF Saved
    <3>2. check' \in Checkpoints \cup {None}
      BY <1>1
    <3>3. disk' \in [rows : Seq(Messages), pending : BOOLEAN, check : Checkpoints \cup {None}]
      BY <1>4, <1>8, <2>2, <3>2 DEF Saved
    <3> QED BY <1>8, <3>1, <3>3
  <2>3. CASE disk' = third
    <3>1. disk' = [rows |-> s, pending |-> pending', check |-> None]
      BY <2>3 DEF s
    <3>2. disk'.rows = s /\ disk'.pending = pending' /\ disk'.check = None
      BY <3>1
    <3>3. disk' \in [rows : Seq(Messages), pending : BOOLEAN, check : Checkpoints \cup {None}]
      BY <1>4, <1>5, <3>1
    <3> QED BY <1>1, <1>5, <3>2, <3>3
  <2> QED BY <1>2, <2>1, <2>2, <2>3
<1>10. DiskFits'
  <2>1. disk'.rows \in Seq(Messages)
    BY <1>9
  <2>2. \A i \in 1 .. Len(disk'.rows) : disk'.rows[i].turn <= turn
    BY <1>1, <1>9 DEF Good, Aged
  <2>3. ASSUME NEW r \in ToSet(disk'.rows), r.turn > turn PROVE FALSE
    <3>1. PICK i \in 1 .. Len(disk'.rows) : r = disk'.rows[i]
      BY <2>1, SetOf
    <3>2. r.turn \in Nat
      BY <2>1, SetOf, MessageFields
    <3>3. r.turn <= turn
      BY <2>2, <3>1
    <3> QED BY <1>3, <2>3, <3>2, <3>3
  <2> QED BY <1>1, <2>3 DEF DiskFits
<1>11. /\ RunInv' /\ phase' \in Phases /\ work' \in Seq(Messages)
       /\ step' \in 0 .. MaxSteps /\ cycles' \in 0 .. MaxCycles
  BY <1>1, LeftIdle
<1>12. turn' \in 0 .. MaxTurns /\ cleared' \in 0 .. turn' /\ check' \in Checkpoints \cup {None}
       /\ unarchived' \in BOOLEAN /\ continued' \subseteq 1 .. turn'
  <2>1. turn \in 0 .. MaxTurns /\ turn \in 0 .. turn /\ continued \subseteq 1 .. turn
    BY <1>3 DEF TurnInv, TypeOK
  <2> QED BY <1>1, <1>3, <2>1
<1>13. TypeOK'
  BY <1>4, <1>8, <1>9, <1>11, <1>12 DEF TypeOK
<1>14. SessionInv'
  BY <1>8, <1>9, <1>10 DEF SessionInv
<1> QED BY <1>11, <1>13, <1>14 DEF TurnInv

LEMMA CrashKeeps ==
    ASSUME TurnInv, Crash
    PROVE  TurnInv'
<1>1. /\ history' = disk.rows /\ pending' = disk.pending /\ check' = disk.check /\ disk' = disk
      /\ turn' = turn /\ step' = step /\ cycles' = cycles
      /\ cleared' = cleared /\ continued' = continued /\ unarchived' = unarchived
      /\ phase' = "idle" /\ work' = <<>>
  BY DEF Crash, Idle, run, past
<1>2. /\ RunInv' /\ phase' \in Phases /\ work' \in Seq(Messages)
      /\ step' \in 0 .. MaxSteps /\ cycles' \in 0 .. MaxCycles
  BY <1>1, LeftIdle
<1>3. Good(disk.rows, disk.check, turn, unarchived)
  BY DEF TurnInv, SessionInv
<1>4. SessionInv'
  <2>1. DiskFits'
    BY <1>1 DEF DiskFits
  <2> QED BY <1>1, <1>3, <2>1 DEF SessionInv
<1>5. TypeOK'
  <2>1. /\ disk.rows \in Seq(Messages) /\ disk.pending \in BOOLEAN
        /\ disk.check \in Checkpoints \cup {None}
    BY Typed DEF TurnInv
  <2> QED BY <1>1, <1>2, <2>1 DEF TurnInv, TypeOK
<1> QED BY <1>2, <1>4, <1>5 DEF TurnInv

LEMMA RunSame ==
    ASSUME TurnInv, history' = history, pending' = pending, check' = check, phase' = phase,
           turn' = turn, step' = step, cycles' = cycles, work' = work
    PROVE  RunInv'
<1>1. WorkRows /\ CallsLast /\ CheckFits /\ HistoryFits
  BY DEF TurnInv, RunInv
<1>2. WorkRows'
  BY <1>1 DEF WorkRows, InModel, Reached
<1>3. CallsLast'
  BY <1>1 DEF CallsLast, Row
<1>5. CheckFits'
  BY <1>1 DEF CheckFits, InModel, Durable
<1>6. HistoryFits'
  BY <1>1 DEF HistoryFits
<1> QED BY <1>2, <1>3, <1>5, <1>6 DEF RunInv

LEMMA FlushKeeps ==
    ASSUME TurnInv, Flush
    PROVE  TurnInv'
<1>1. /\ history' = history /\ pending' = pending /\ check' = check /\ disk' = Saved
      /\ phase' = phase /\ turn' = turn /\ step' = step /\ cycles' = cycles
      /\ work' = work /\ cleared' = cleared /\ continued' = continued /\ unarchived' = unarchived
  BY DEF Flush, session, run, past
<1>2. disk' = Saved'
  BY <1>1 DEF Saved
<1>3. RunInv'
  BY <1>1, RunSame
<1>4. Good(history', check', turn, unarchived')
  BY <1>1 DEF TurnInv, SessionInv
<1>5. /\ history' \in Seq(Messages) /\ ToSet(history) \subseteq ToSet(history')
      /\ work' \in Seq(Messages) /\ phase' \in Phases
      /\ step' \in 0 .. MaxSteps /\ cycles' \in 0 .. MaxCycles
      /\ pending' \in BOOLEAN /\ check' \in Checkpoints \cup {None} /\ unarchived' \in BOOLEAN
  BY <1>1 DEF TurnInv, TypeOK
<1>6. unarchived => unarchived'
  BY <1>1
<1> QED BY <1>1, <1>2, <1>3, <1>4, <1>5, <1>6, StepKeeps

-----------------------------------------------------------------------------
(* The theorems *)

LEMMA TurnInit == Init => TurnInv
<1> SUFFICES ASSUME Init PROVE TurnInv
  OBVIOUS
<1>1. /\ history = <<>> /\ work = <<>> /\ check = None /\ pending = FALSE
      /\ disk = [rows |-> history, pending |-> pending, check |-> check]
      /\ phase = "idle" /\ turn = 0 /\ step = 0 /\ cycles = 0 /\ cleared = 0 /\ continued = {}
      /\ unarchived = FALSE
  BY DEF Init, Saved
<1>2. disk.rows = history /\ disk.pending = pending /\ disk.check = check
  BY <1>1
<1> DEFINE z == <<>>
<1>3. z \in Seq(Messages) /\ Len(z) = 0 /\ Legal(z) /\ OnceEach(z)
  BY NothingYet, EmptySeq
<1>4. WorkGood(z, turn, Reached, cycles)
  BY NothingYet
<1>5. history = z /\ work = z
  BY <1>1
<1> HIDE DEF z
<1>6. Good(z, None, 0, unarchived)
  BY <1>3 DEF Good, Aged, Unique
<1>7. SessionInv
  <2>1. DiskFits
    BY <1>2 DEF DiskFits
  <2> QED BY <1>1, <1>2, <1>5, <1>6, <2>1 DEF SessionInv
<1>8. RunInv
  <2>1. WorkRows
    BY <1>1, <1>3, <1>4, <1>5 DEF WorkRows, InModel
  <2>2. CallsLast /\ CheckFits /\ HistoryFits
    BY <1>1, <1>3, <1>5 DEF CallsLast, CheckFits, HistoryFits, InModel
  <2> QED BY <2>1, <2>2 DEF RunInv
<1>9. TypeOK
  <2>1. history \in Seq(Messages) /\ work \in Seq(Messages)
    BY <1>3, <1>5
  <2>2. pending \in BOOLEAN /\ check \in Checkpoints \cup {None}
    BY <1>1
  <2>3. disk \in [rows : Seq(Messages), pending : BOOLEAN, check : Checkpoints \cup {None}]
    BY <1>1, <2>1, <2>2
  <2>4. /\ phase \in Phases /\ turn \in 0 .. MaxTurns /\ step \in 0 .. MaxSteps
        /\ cycles \in 0 .. MaxCycles /\ cleared \in 0 .. turn /\ unarchived \in BOOLEAN
        /\ continued \subseteq 1 .. turn
    <3>1. MaxTurns \in Nat /\ MaxSteps \in Nat /\ MaxCycles \in Nat
      BY BoundsAssumption
    <3>2. turn = 0 /\ step = 0 /\ cycles = 0 /\ cleared = 0 /\ phase = "idle" /\ unarchived = FALSE
          /\ continued = {}
      BY <1>1
    <3>3. turn \in 0 .. MaxTurns /\ step \in 0 .. MaxSteps /\ cycles \in 0 .. MaxCycles
      BY <3>1, <3>2
    <3>4. cleared \in 0 .. turn
      BY <3>2
    <3> QED BY <3>2, <3>3, <3>4 DEF Phases
  <2> QED BY <2>1, <2>2, <2>3, <2>4 DEF TypeOK
<1> QED BY <1>7, <1>8, <1>9 DEF TurnInv

LEMMA TurnStep == TurnInv /\ [Next]_vars => TurnInv'
<1> SUFFICES ASSUME TurnInv, [Next]_vars PROVE TurnInv'
  OBVIOUS
<1>1. CASE Prepare
  BY <1>1, BeginKeeps, RestoreTurnKeeps, PersistUserKeeps, PersistEventKeeps, PersistNothingKeeps,
     CommandKeeps DEF Prepare
<1>2. CASE Model
  BY <1>2, CallToolsKeeps, ToolsDoneKeeps, ToolsFatalKeeps, AnswerKeeps, TruncatedKeeps,
     RetryKeeps, GiveUpKeeps, ExhaustedKeeps DEF Model
<1>3. CASE Finish
  BY <1>3, PersistTurnKeeps, ArchivingFailsKeeps, FailKeeps, CancelKeeps, NewKeeps, CrashKeeps,
     FlushKeeps DEF Finish
<1>4. CASE UNCHANGED vars
  <2>1. /\ history' = history /\ pending' = pending /\ check' = check /\ disk' = disk
        /\ phase' = phase /\ turn' = turn /\ step' = step /\ cycles' = cycles
        /\ work' = work /\ cleared' = cleared /\ continued' = continued /\ unarchived' = unarchived
    BY <1>4 DEF vars, session, run, past
  <2>2. RunInv'
    BY <2>1, RunSame
  <2>3. /\ work' \in Seq(Messages) /\ phase' \in Phases
        /\ step' \in 0 .. MaxSteps /\ cycles' \in 0 .. MaxCycles
    BY <2>1 DEF TurnInv, TypeOK
  <2> QED BY <2>1, <2>2, <2>3, OnlyWork
<1> QED BY <1>1, <1>2, <1>3, <1>4 DEF Next

\* The invariant holds in every state: the session, in memory and on disk, and
\* the messages of the running turn always fit together.
THEOREM TurnInvariant == Spec => []TurnInv
<1> QED BY TurnInit, TurnStep, PTL DEF Spec

\* Type correctness: messages, checkpoints and counters stay in their bounds,
\* max_iterations and the injection cycles among them.
THEOREM SessionTypeCorrect == Spec => []TypeOK
<1>1. TurnInv => TypeOK
  BY DEF TurnInv
<1> QED BY <1>1, TurnInvariant, PTL

\* Restoring a checkpoint, after any interruption and in memory or from the
\* disk, gives a history in which every tool call has its results and no result
\* is without its call.
THEOREM RestoredStaysLegal == Spec => []RestoredIsLegal
<1>1. TurnInv => RestoredIsLegal
  <2> SUFFICES ASSUME TurnInv PROVE RestoredIsLegal
    OBVIOUS
  <2>1. /\ history \in Seq(Messages) /\ turn \in Nat /\ check \in Checkpoints \cup {None}
        /\ disk.rows \in Seq(Messages) /\ disk.check \in Checkpoints \cup {None}
    BY Typed DEF TurnInv
  <2>2. /\ Good(history, check, turn, unarchived)
        /\ Good(disk.rows, disk.check, turn, unarchived)
    BY DEF TurnInv, SessionInv
  <2>3. Good(Restored(history, check), None, turn, unarchived)
    BY <2>1, <2>2, RestoredGood
  <2>4. Good(Restored(disk.rows, disk.check), None, turn, unarchived)
    BY <2>1, <2>2, RestoredGood
  <2> QED BY <2>3, <2>4 DEF Good, RestoredIsLegal
<1> QED BY <1>1, TurnInvariant, PTL

\* Restoring repeats no message that the history has already and answers no
\* call twice, as long as archiving never failed.
THEOREM RestoredStaysOnce == Spec => []RestoredOnce
<1>1. TurnInv => RestoredOnce
  <2> SUFFICES ASSUME TurnInv, ~unarchived PROVE RestoredOnce
    BY DEF RestoredOnce
  <2>1. /\ history \in Seq(Messages) /\ turn \in Nat /\ check \in Checkpoints \cup {None}
        /\ disk.rows \in Seq(Messages) /\ disk.check \in Checkpoints \cup {None}
    BY Typed DEF TurnInv
  <2>2. /\ Good(history, check, turn, unarchived)
        /\ Good(disk.rows, disk.check, turn, unarchived)
    BY DEF TurnInv, SessionInv
  <2>3. Good(Restored(history, check), None, turn, unarchived)
    BY <2>1, <2>2, RestoredGood
  <2>4. Good(Restored(disk.rows, disk.check), None, turn, unarchived)
    BY <2>1, <2>2, RestoredGood
  <2> QED BY <2>3, <2>4 DEF Good, Unique, RestoredOnce
<1> QED BY <1>1, TurnInvariant, PTL

-----------------------------------------------------------------------------
(* A user's message is closed before the input of another turn *)

Open(rows) == Len(rows) # 0 /\ rows[Len(rows)].kind = "user"

\* A user's message at the end of the rows is marked as pending by p, unless its
\* turn is in d, the turns that a goal continued; and so is the turn of one
\* before another turn's input.
Marked(rows, p, d) ==
    /\ Open(rows) => p \/ rows[Len(rows)].turn \in d
    /\ \A i \in 1 .. Len(rows) - 1 :
          rows[i].kind = "user" /\ rows[i + 1].kind \in {"user", "event"} => rows[i].turn \in d

\* The session in memory and on disk is marked, a message that is open while
\* the model runs is the running turn's input, and a turn that has ended
\* without a message of its own is continued.
ClosedInv ==
    /\ Marked(history, pending, continued)
    /\ Marked(disk.rows, disk.pending, continued)
    /\ InModel /\ Open(history) =>
          history[Len(history)].turn = turn \/ history[Len(history)].turn \in continued
    /\ phase = "ended" /\ Len(work) = 0 => turn \in continued

LEMMA MarkedLater ==
    ASSUME NEW rows, NEW p \in BOOLEAN, NEW q \in BOOLEAN, NEW d, NEW e, Marked(rows, p, d),
           p => q, d \subseteq e
    PROVE  Marked(rows, q, e)
BY DEF Marked

\* What ends with something else needs no mark.
LEMMA MarkedElse ==
    ASSUME NEW rows, NEW p \in BOOLEAN, NEW q \in BOOLEAN, NEW d, Marked(rows, p, d), ~Open(rows)
    PROVE  Marked(rows, q, d)
BY DEF Marked

\* Messages of other kinds behind the rows.
LEMMA MarkedJoined ==
    ASSUME NEW rows \in Seq(Messages), NEW x \in Seq(Messages),
           NEW p \in BOOLEAN, NEW q \in BOOLEAN, NEW d,
           Marked(rows, p, d), \A i \in 1 .. Len(x) : x[i].kind \notin {"user", "event"},
           Len(x) = 0 => Marked(rows, q, d)
    PROVE  Marked(rows \o x, q, d)
<1> DEFINE s == rows \o x
<1>1. /\ s \in Seq(Messages) /\ Len(s) = Len(rows) + Len(x)
      /\ Len(rows) \in Nat /\ Len(x) \in Nat
      /\ \A i \in 1 .. Len(rows) : s[i] = rows[i]
      /\ \A i \in 1 .. Len(x) : s[Len(rows) + i] = x[i]
      /\ \A i \in 1 .. Len(s) : i > Len(rows) => i - Len(rows) \in 1 .. Len(x)
                                                /\ s[i] = x[i - Len(rows)]
  BY Joined
<1>2. CASE Len(x) = 0
  <2>1. x = <<>>
    BY <1>2, EmptySeq
  <2>2. rows \o x = rows
    BY <2>1, ConcatEmptySeq
  <2> QED BY <1>2, <2>2
<1>3. CASE Len(x) # 0
  <2> HIDE DEF s
  <2>1. ~Open(s)
    <3>1. Len(x) \in 1 .. Len(x) /\ Len(s) = Len(rows) + Len(x)
      BY <1>1, <1>3
    <3>2. s[Len(s)] = x[Len(x)]
      BY <1>1, <3>1
    <3> QED BY <3>1, <3>2 DEF Open
  <2>2. ASSUME NEW i \in 1 .. Len(s) - 1, s[i].kind = "user", s[i + 1].kind \in {"user", "event"}
        PROVE  s[i].turn \in d
    <3>1. i + 1 \in 1 .. Len(s)
      BY <1>1
    <3>2. i + 1 <= Len(rows)
      <4> SUFFICES ASSUME i + 1 > Len(rows) PROVE FALSE
        BY <1>1
      <4>1. i + 1 - Len(rows) \in 1 .. Len(x) /\ s[i + 1] = x[i + 1 - Len(rows)]
        BY <1>1, <3>1
      <4> QED BY <2>2, <4>1
    <3>3. i \in 1 .. Len(rows) /\ i \in 1 .. Len(rows) - 1 /\ i + 1 \in 1 .. Len(rows)
      BY <1>1, <3>1, <3>2
    <3>4. s[i] = rows[i] /\ s[i + 1] = rows[i + 1]
      BY <1>1, <3>3
    <3> QED BY <2>2, <3>3, <3>4 DEF Marked
  <2>3. Marked(s, q, d)
    BY <2>1, <2>2 DEF Marked
  <2> QED BY <2>3 DEF s
<1> QED BY <1>2, <1>3

\* A message behind the rows: a turn's input must not find one open.
LEMMA MarkedAppended ==
    ASSUME NEW rows \in Seq(Messages), NEW r \in Messages,
           NEW p \in BOOLEAN, NEW q \in BOOLEAN, NEW d,
           Marked(rows, p, d), r.kind = "user" => q,
           r.kind \in {"user", "event"} /\ Open(rows) => rows[Len(rows)].turn \in d
    PROVE  Append(rows, r) \in Seq(Messages) /\ Marked(Append(rows, r), q, d)
<1> DEFINE s == Append(rows, r)
<1>1. /\ s \in Seq(Messages) /\ Len(s) = Len(rows) + 1 /\ Len(rows) \in Nat
      /\ \A i \in 1 .. Len(rows) : s[i] = rows[i]
      /\ s[Len(rows) + 1] = r
  BY Appended
<1> HIDE DEF s
<1>2. Open(s) => q
  <2>1. s[Len(s)] = r
    BY <1>1
  <2> QED BY <2>1 DEF Open
<1>3. ASSUME NEW i \in 1 .. Len(s) - 1, s[i].kind = "user", s[i + 1].kind \in {"user", "event"}
      PROVE  s[i].turn \in d
  <2>1. i \in 1 .. Len(rows) /\ s[i] = rows[i]
    BY <1>1
  <2>2. CASE i = Len(rows)
    <3>1. s[i + 1] = r /\ s[i] = rows[Len(rows)] /\ Len(rows) # 0
      BY <1>1, <2>1, <2>2
    <3> QED BY <1>3, <3>1 DEF Open
  <2>3. CASE i # Len(rows)
    <3>1. i \in 1 .. Len(rows) - 1 /\ i + 1 \in 1 .. Len(rows)
      BY <1>1, <2>1, <2>3
    <3>2. s[i + 1] = rows[i + 1]
      BY <1>1, <3>1
    <3> QED BY <1>3, <2>1, <3>1, <3>2 DEF Marked
  <2> QED BY <2>2, <2>3
<1>4. Marked(s, q, d)
  BY <1>2, <1>3 DEF Marked
<1> QED BY <1>1, <1>4 DEF s

\* Restoring the session from its checkpoint closes what was open.
LEMMA MarkedRestored ==
    ASSUME TurnInv, ClosedInv, NEW q \in BOOLEAN, pending /\ check = None => q
    PROVE  Marked(Restored(history, check), q, continued)
<1> DEFINE s == Restored(history, check)
<1>1. /\ history \in Seq(Messages) /\ turn \in Nat /\ check \in Checkpoints \cup {None}
      /\ pending \in BOOLEAN
  BY Typed DEF TurnInv
<1>2. Good(history, check, turn, unarchived) /\ Legal(history)
  BY DEF TurnInv, SessionInv, Good
<1>3. Marked(history, pending, continued)
  BY DEF ClosedInv
<1>4. CASE check = None
  <2>1. s = history
    BY <1>4 DEF Restored
  <2>2. pending => q
    BY <1>4
  <2>3. Marked(history, q, continued)
    BY <1>1, <1>3, <2>2, MarkedLater
  <2> QED BY <2>1, <2>3
<1>5. CASE check # None
  <2> DEFINE R == RowsOf(check)
  <2>1. check \in Checkpoints
    BY <1>1, <1>5
  <2>2. /\ R \in Seq(Messages) /\ Len(R) \in Nat \ {0}
        /\ \A i \in 1 .. Len(R) : R[i].kind \in ToolKinds \cup {"calls", "final"}
    BY <2>1, RowsOfAre
  <2>3. s = history \o R \/ s = history
    BY <1>1, <1>2, <2>1, RestoredCases
  <2>4. EndsElse(s)
    BY <1>1, <1>2, <1>5, RestoredGood
  <2> HIDE DEF R, s
  <2>5. CASE s = history \o R
    <3>1. \A i \in 1 .. Len(R) : R[i].kind \notin {"user", "event"}
      BY <2>2 DEF ToolKinds
    <3> QED BY <1>1, <1>3, <2>2, <2>5, <3>1, MarkedJoined DEF s
  <2>6. CASE s = history
    <3>1. ~Open(history)
      BY <2>4, <2>6 DEF Open, EndsElse
    <3>2. Marked(history, q, continued)
      BY <1>1, <1>3, <3>1, MarkedElse
    <3> QED BY <2>6, <3>2 DEF s
  <2> QED BY <2>3, <2>5, <2>6
<1> QED BY <1>4, <1>5

\* A step that saves the session as it now is, or not at all.
LEMMA StillClosed ==
    ASSUME TurnInv, ClosedInv, continued' = continued,
           Marked(history', pending', continued), disk' = disk \/ disk' = Saved',
           InModel' /\ Open(history') =>
               history'[Len(history')].turn = turn' \/ history'[Len(history')].turn \in continued,
           phase' # "ended"
    PROVE  ClosedInv'
<1>1. Marked(disk'.rows, disk'.pending, continued)
  <2>1. CASE disk' = disk
    BY <2>1 DEF ClosedInv
  <2>2. CASE disk' = Saved'
    <3>1. disk'.rows = history' /\ disk'.pending = pending'
      BY <2>2 DEF Saved
    <3> QED BY <3>1
  <2> QED BY <2>1, <2>2
<1>2. /\ Marked(history', pending', continued') /\ Marked(disk'.rows, disk'.pending, continued')
  BY <1>1
<1> QED BY <1>2 DEF ClosedInv, Marked, Open

\* What the end of a turn adds to the history closes its input.
LEMMA MarkedLanded ==
    ASSUME TurnInv, ClosedInv, phase = "ended", NEW q \in BOOLEAN
    PROVE  Marked(history \o Unanswered(work), q, continued)
<1>1. /\ history \in Seq(Messages) /\ work \in Seq(Messages) /\ pending \in BOOLEAN /\ InModel
  BY Typed DEF TurnInv, InModel
<1>2. Unanswered(work) = work
  <2> DEFINE u == TRUE
  <2>1. u
    OBVIOUS
  <2> HIDE DEF u
  <2> QED BY <2>1, TurnLands
<1>3. \A i \in 1 .. Len(work) : work[i].kind \notin {"user", "event"}
  BY <1>1, WhenInModel DEF WorkGood
<1>4. Marked(history, pending, continued)
  BY DEF ClosedInv
<1>5. Len(work) = 0 => Marked(history, q, continued)
  <2>1. Len(work) = 0 /\ Open(history) => history[Len(history)].turn \in continued
    BY <1>1 DEF ClosedInv
  <2> QED BY <1>4, <2>1 DEF Marked
<1> QED BY <1>1, <1>2, <1>3, <1>4, <1>5, MarkedJoined

LEMMA ClosedPrepares ==
    ASSUME TurnInv, ClosedInv, Prepare
    PROVE  ClosedInv'
<1>1. /\ history \in Seq(Messages) /\ pending \in BOOLEAN /\ TypeOK
  BY Typed DEF TurnInv
<1>2. Marked(history, pending, continued)
  BY DEF ClosedInv
<1>3. ASSUME phase = "restored"
      PROVE  /\ pending = FALSE
             /\ Open(history) => history[Len(history)].turn \in continued
  <2>1. pending = FALSE
    BY <1>3, WhenRestored
  <2> QED BY <1>2, <2>1 DEF Marked
<1> DEFINE asked == Append(history, Row("user", 0, 0))
<1>4. ASSUME phase = "restored"
      PROVE  /\ asked \in Seq(Messages) /\ asked[Len(asked)].turn = turn
             /\ Marked(asked, TRUE, continued)
  <2> DEFINE r == Row("user", 0, 0)
             q == TRUE
  <2>1. r \in Messages /\ r.turn = turn /\ r.kind = "user"
    <3>1. "user" \in Kinds
      BY DEF Kinds, UserKinds
    <3> QED BY <1>1, <3>1, InputIs
  <2>2. q \in BOOLEAN /\ q
    OBVIOUS
  <2> HIDE DEF r, q
  <2>3. Append(history, r) \in Seq(Messages) /\ Marked(Append(history, r), q, continued)
    BY <1>1, <1>2, <1>3, <1>4, <2>1, <2>2, MarkedAppended
  <2>4. /\ Len(Append(history, r)) = Len(history) + 1 /\ Append(history, r)[Len(history) + 1] = r
    BY <1>1, <2>1, Appended
  <2>5. Append(history, r)[Len(Append(history, r))].turn = turn
    BY <2>1, <2>4
  <2> QED BY <2>3, <2>5 DEF r, q
<1> HIDE DEF asked
<1>5. CASE Begin
  <2>1. /\ history' = history /\ pending' = pending /\ disk' = disk /\ continued' = continued
        /\ phase' = "started"
    BY <1>5 DEF Begin, session, past
  <2> QED BY <1>2, <2>1, StillClosed DEF InModel
<1>6. CASE RestoreTurn
  <2>1. /\ history' = IF check # None THEN Restored(history, check) ELSE Closed(history, pending)
        /\ pending' = FALSE /\ continued' = continued
        /\ phase' = "restored" \/ phase' = "idle"
        /\ disk' = disk \/ disk' = Saved'
    BY <1>6 DEF RestoreTurn, SaveThen, Idle, past
  <2>2. Marked(history', FALSE, continued)
    <3> DEFINE q == FALSE
    <3>1. q \in BOOLEAN /\ ~q
      OBVIOUS
    <3> HIDE DEF q
    <3>2. CASE check # None
      <4>1. Marked(Restored(history, check), q, continued)
        BY <3>1, <3>2, MarkedRestored
      <4> QED BY <2>1, <3>2, <4>1 DEF q
    <3>3. CASE check = None /\ pending /\ EndsWithUser(history)
      <4> DEFINE r == Row("notice", 0, 0)
      <4>1. r \in Messages /\ r.kind = "notice"
        <5>1. "notice" \in Kinds
          BY DEF Kinds
        <5> QED BY <1>1, <5>1, InputIs
      <4>2. history' = Append(history, r)
        BY <2>1, <3>3 DEF Closed
      <4> HIDE DEF r
      <4>3. Marked(Append(history, r), q, continued)
        BY <1>1, <1>2, <3>1, <4>1, MarkedAppended
      <4> QED BY <4>2, <4>3 DEF q
    <3>4. CASE check = None /\ ~pending
      <4>1. history' = history
        BY <2>1, <3>4 DEF Closed
      <4>2. pending => q
        BY <3>4
      <4>3. continued \subseteq continued
        OBVIOUS
      <4>4. Marked(history, q, continued)
        BY <1>1, <1>2, <3>1, <4>2, <4>3, MarkedLater
      <4> QED BY <4>1, <4>4 DEF q
    <3>5. CASE check = None /\ ~EndsWithUser(history)
      <4>1. history' = history
        BY <2>1, <3>5 DEF Closed
      <4>2. ~Open(history)
        BY <1>1, <3>5 DEF Open, EndsWithUser, Last, UserKinds
      <4>3. Marked(history, q, continued)
        BY <1>1, <1>2, <3>1, <4>2, MarkedElse
      <4> QED BY <4>1, <4>3 DEF q
    <3> QED BY <3>2, <3>3, <3>4, <3>5
  <2>3. Marked(history', pending', continued)
    BY <2>1, <2>2
  <2> QED BY <2>1, <2>3, StillClosed DEF InModel
<1>7. CASE PersistUserEarly
  <2>1. /\ phase = "restored" /\ history' = asked /\ pending' = TRUE /\ continued' = continued
        /\ turn' = turn /\ phase' \in {"model", "idle"}
        /\ disk' = disk \/ disk' = Saved'
    BY <1>7 DEF PersistUserEarly, SaveThen, Idle, past, run, asked
  <2>2. Marked(history', pending', continued) /\ history'[Len(history')].turn = turn'
    BY <1>4, <2>1
  <2>3. phase' # "ended"
    BY <2>1
  <2> QED BY <2>1, <2>2, <2>3, StillClosed
<1>8. CASE PersistEventEarly
  <2> DEFINE r == Row("event", 0, 0)
  <2>1. /\ phase = "restored" /\ history' = Append(history, r) /\ pending' = pending
        /\ continued' = continued /\ phase' \in {"model", "idle"}
        /\ disk' = disk \/ disk' = Saved'
    BY <1>8 DEF PersistEventEarly, SaveThen, Idle, past
  <2>2. r \in Messages /\ r.kind = "event"
    <3>1. "event" \in Kinds
      BY DEF Kinds
    <3> QED BY <1>1, <3>1, InputIs
  <2> HIDE DEF r
  <2>3. Marked(history', pending', continued)
    BY <1>1, <1>2, <1>3, <2>1, <2>2, MarkedAppended
  <2>4. /\ Len(history') = Len(history) + 1 /\ history'[Len(history) + 1] = r
    BY <1>1, <2>1, <2>2, Appended
  <2>5. ~Open(history')
    BY <2>2, <2>4 DEF Open
  <2>6. phase' # "ended" /\ ~(InModel' /\ Open(history'))
    BY <2>1, <2>5
  <2> QED BY <2>1, <2>3, <2>6, StillClosed
<1>9. CASE PersistNothing
  <2>1. /\ phase = "restored" /\ history' = history /\ pending' = pending /\ disk' = disk
        /\ continued' = continued /\ phase' = "model"
    BY <1>9 DEF PersistNothing, session, past
  <2>2. Open(history') => history'[Len(history')].turn \in continued
    BY <1>3, <2>1
  <2> QED BY <1>2, <2>1, <2>2, StillClosed
<1>10. CASE Command
  <2> DEFINE r == Row("reply", 0, 0)
             half == [rows |-> asked, pending |-> TRUE, check |-> check]
  <2>1. /\ phase = "restored" /\ phase' = "idle" /\ continued' = continued
        /\ \/ history' = Append(asked, r) /\ pending' = FALSE /\ disk' \in {Saved', half}
           \/ history' = asked /\ pending' = TRUE /\ disk' \in {disk, half}
    BY <1>10 DEF Command, Idle, past, asked
  <2>2. r \in Messages /\ r.kind = "reply"
    <3>1. "reply" \in Kinds
      BY DEF Kinds
    <3> QED BY <1>1, <3>1, InputIs
  <2> HIDE DEF r
  <2>3. Marked(Append(asked, r), FALSE, continued)
    <3> DEFINE p == TRUE
               q == FALSE
    <3>1. p \in BOOLEAN /\ q \in BOOLEAN /\ Marked(asked, p, continued) /\ asked \in Seq(Messages)
      BY <1>4, <2>1
    <3> HIDE DEF p, q
    <3>2. Marked(Append(asked, r), q, continued)
      BY <2>2, <3>1, MarkedAppended
    <3> QED BY <3>2 DEF q
  <2>4. Marked(history', pending', continued)
    BY <1>4, <2>1, <2>3
  <2>5. Marked(disk'.rows, disk'.pending, continued)
    <3>1. CASE disk' = Saved'
      <4>1. disk'.rows = history' /\ disk'.pending = pending'
        BY <3>1 DEF Saved
      <4> QED BY <2>4, <4>1
    <3>2. CASE disk' = disk
      BY <3>2 DEF ClosedInv
    <3>3. CASE disk' = half
      <4>1. disk'.rows = asked /\ disk'.pending = TRUE
        BY <3>3
      <4> QED BY <1>4, <2>1, <4>1
    <3> QED BY <2>1, <3>1, <3>2, <3>3
  <2> QED BY <2>1, <2>4, <2>5 DEF ClosedInv, InModel
<1> QED BY <1>5, <1>6, <1>7, <1>8, <1>9, <1>10 DEF Prepare

LEMMA ClosedInModel ==
    ASSUME TurnInv, ClosedInv, Model
    PROVE  ClosedInv'
<1>1. InModel /\ history' = history /\ pending' = pending /\ turn' = turn
  BY DEF Model, CallTools, ToolsDone, ToolsFatal, Answer, Truncated, Retry, GiveUp, Exhausted,
         StopWith, InModel, session
<1>2. disk' = disk \/ disk' = Saved'
  BY DEF Model, CallTools, ToolsDone, ToolsFatal, Answer, Truncated, Retry, GiveUp, Exhausted,
         StopWith, SaveThen
<1>3. continued \subseteq continued'
  BY DEF Model, CallTools, ToolsDone, ToolsFatal, Answer, Truncated, Retry, GiveUp, Exhausted,
         StopWith, past
<1>4. pending \in BOOLEAN /\ work \in Seq(Messages) /\ TypeOK /\ step \in Nat /\ MaxSteps \in Nat
  BY Typed DEF TurnInv
<1>5. Marked(history', pending', continued')
  <2>1. pending => pending
    OBVIOUS
  <2> QED BY <1>1, <1>3, <1>4, <2>1, MarkedLater DEF ClosedInv
<1>6. Marked(disk'.rows, disk'.pending, continued')
  <2>1. CASE disk' = disk
    <3>1. disk.pending \in BOOLEAN /\ (disk.pending => disk.pending)
      BY Typed DEF TurnInv
    <3> QED BY <1>3, <2>1, <3>1, MarkedLater DEF ClosedInv
  <2>2. CASE disk' = Saved'
    <3>1. disk'.rows = history' /\ disk'.pending = pending'
      BY <2>2 DEF Saved
    <3> QED BY <1>5, <3>1
  <2> QED BY <1>2, <2>1, <2>2
<1>7. InModel' /\ Open(history') =>
          history'[Len(history')].turn = turn' \/ history'[Len(history')].turn \in continued'
  BY <1>1, <1>3 DEF ClosedInv, Open
<1>8. ASSUME phase' = "ended", Len(work') = 0 PROVE turn' \in continued'
  <2>1. \A w \in Seq(Messages), r \in Messages : Len(Append(w, r)) # 0
    BY Appended
  <2>2. ASSUME NEW w \in Seq(Messages), Len(w) # 0, NEW i \in BOOLEAN, work' = Inject(w, i),
               step' \in 0 .. MaxSteps + 1, cycles \in Nat, cycles <= MaxCycles
        PROVE  FALSE
    <3>1. "followup" \in Kinds
      BY DEF Kinds, UserKinds
    <3>2. Row("followup", step', cycles) \in Messages
      BY <1>4, <2>2, <3>1, RowIs
    <3>3. Len(Append(w, Row("followup", step', cycles))) # 0
      BY <2>1, <3>2
    <3> QED BY <1>8, <2>2, <3>3 DEF Inject
  <2>3. cycles \in Nat /\ cycles <= MaxCycles
    BY Typed DEF TurnInv
  <2>4. ASSUME NEW w \in Seq(Messages), Len(w) # 0, StopWith(w), step' \in 0 .. MaxSteps + 1
        PROVE  FALSE
    <3>1. PICK i \in BOOLEAN : work' = Inject(w, i)
      BY <2>4 DEF StopWith
    <3> QED BY <2>2, <2>3, <2>4, <3>1
  <2>5. CASE ToolsFatal
    <3> DEFINE r == Row("closing", step, 0)
               w == work \o Append(Results, r)
    <3>1. phase = "tools" /\ step' = step /\ StopWith(w)
      BY <2>5 DEF ToolsFatal
    <3>2. Results \in Seq(Messages) /\ step \in 1 .. MaxSteps
      BY <3>1, ToolsFinished
    <3>3. r \in Messages
      <4>1. step \in 0 .. MaxSteps + 1 /\ "closing" \in Kinds /\ 0 \in Nat /\ 0 <= Calls
        BY <1>4, Typed DEF Kinds
      <4> QED BY <1>4, <4>1, RowIs
    <3> HIDE DEF r
    <3>4. Append(Results, r) \in Seq(Messages) /\ Len(Append(Results, r)) # 0
      BY <2>1, <3>2, <3>3, Appended
    <3> DEFINE x == Append(Results, r)
    <3> HIDE DEF x
    <3>5. w \in Seq(Messages) /\ Len(w) = Len(work) + Len(x) /\ Len(work) \in Nat /\ Len(x) \in Nat
      BY <1>4, <3>4, Joined DEF x
    <3>6. Len(w) # 0 /\ step' \in 0 .. MaxSteps + 1
      BY <1>4, <3>1, <3>2, <3>4, <3>5 DEF x
    <3> HIDE DEF w
    <3> QED BY <2>4, <3>1, <3>5, <3>6
  <2>6. CASE GiveUp
    <3> DEFINE w == Append(work, Row("closing", step', 0))
    <3>1. /\ phase = "model" /\ InModel /\ phase # "ended" /\ step < MaxSteps /\ step' = step + 1
          /\ StopWith(w)
      BY <1>8, <2>6 DEF GiveUp, NextStep, InModel
    <3>2. "closing" \in {"calls", "final", "closing", "partial"}
      OBVIOUS
    <3>3. w \in Seq(Messages) /\ Len(w) # 0 /\ step' \in 1 .. MaxSteps
      BY <3>1, <3>2, ResponseRow
    <3>4. step' \in 0 .. MaxSteps + 1
      BY <1>4, <3>3
    <3> HIDE DEF w
    <3> QED BY <2>4, <3>1, <3>3, <3>4
  <2>7. CASE Answer
    <3> DEFINE w == Append(work, Row("final", step', 0))
    <3>1. PICK i \in BOOLEAN, g \in BOOLEAN :
              SaveThen(IF i \/ g THEN "model" ELSE "ended",
                       IF i \/ ~g THEN Inject(w, i) ELSE Append(w, Row("prompt", step', 0)))
      BY <2>7 DEF Answer
    <3>2. work' = Inject(w, i)
      BY <1>8, <3>1 DEF SaveThen, Idle
    <3>3. phase = "model" /\ InModel /\ phase # "ended" /\ step < MaxSteps /\ step' = step + 1
      BY <2>7 DEF Answer, NextStep, InModel
    <3>4. "final" \in {"calls", "final", "closing", "partial"}
      OBVIOUS
    <3>5. w \in Seq(Messages) /\ Len(w) # 0 /\ step' \in 1 .. MaxSteps
      BY <3>3, <3>4, ResponseRow
    <3>6. step' \in 0 .. MaxSteps + 1
      BY <1>4, <3>5
    <3> HIDE DEF w
    <3> QED BY <2>2, <2>3, <3>2, <3>5, <3>6
  <2>8. CASE Exhausted
    <3>1. PICK i \in BOOLEAN, continues \in BOOLEAN :
              /\ step = MaxSteps /\ step' = step /\ MayInject(i)
              /\ \E rows \in (IF i THEN InjectOpen(work) ELSE {work}) :
                    work' = IF continues THEN rows ELSE Append(rows, Row("closing", step + 1, 0))
              /\ continued' = IF continues THEN continued \cup {turn} ELSE continued
      BY <2>8 DEF Exhausted
    <3>2. CASE continues
      BY <1>1, <3>1, <3>2
    <3>3. CASE ~continues
      <4>1. PICK rows \in (IF i THEN InjectOpen(work) ELSE {work}) :
                work' = Append(rows, Row("closing", step + 1, 0))
        BY <3>1, <3>3
      <4>2. rows \in Seq(Messages)
        <5>1. CASE rows = work
          BY <1>4, <5>1
        <5>2. CASE rows = Append(work, Row("followup", step', cycles))
          <6>1. "followup" \in Kinds /\ step' \in 0 .. MaxSteps + 1
            BY <1>4, <3>1 DEF Kinds, UserKinds
          <6>2. Row("followup", step', cycles) \in Messages
            BY <1>4, <2>3, <6>1, RowIs
          <6> QED BY <1>4, <5>2, <6>2, Appended
        <5> QED BY <4>1, <5>1, <5>2 DEF InjectOpen, Inject
      <4>3. Row("closing", step + 1, 0) \in Messages
        <5>1. step + 1 \in 0 .. MaxSteps + 1 /\ "closing" \in Kinds /\ 0 \in Nat /\ 0 <= Calls
          BY <1>4, <3>1, Typed DEF Kinds
        <5> QED BY <1>4, <5>1, RowIs
      <4> QED BY <1>8, <2>1, <4>1, <4>2, <4>3
    <3> QED BY <3>2, <3>3
  <2>9. CASE CallTools \/ ToolsDone \/ Truncated \/ Retry
    BY <1>8, <2>9 DEF CallTools, ToolsDone, Truncated, Retry, SaveThen, Idle
  <2> QED BY <2>5, <2>6, <2>7, <2>8, <2>9 DEF Model
<1> QED BY <1>5, <1>6, <1>7, <1>8 DEF ClosedInv, Marked, Open

LEMMA ClosedFinishes ==
    ASSUME TurnInv, ClosedInv, Finish
    PROVE  ClosedInv'
<1>1. /\ history \in Seq(Messages) /\ pending \in BOOLEAN /\ disk.pending \in BOOLEAN
  BY Typed DEF TurnInv
<1>2. Marked(history, pending, continued) /\ Marked(disk.rows, disk.pending, continued)
  BY DEF ClosedInv
<1>3. CASE PersistTurn
  <2> DEFINE q == FALSE
  <2>1. /\ phase = "ended" /\ history' = history \o Unanswered(work) /\ pending' = q
        /\ continued' = continued /\ phase' = "idle"
        /\ disk' = disk \/ disk' = Saved'
    BY <1>3 DEF PersistTurn, SaveThen, Idle, past
  <2>2. q \in BOOLEAN
    OBVIOUS
  <2> HIDE DEF q
  <2>3. Marked(history', pending', continued)
    BY <2>1, <2>2, MarkedLanded
  <2> QED BY <2>1, <2>3, StillClosed DEF InModel
<1>4. CASE ArchivingFails
  <2>1. /\ phase = "ended" /\ history' = history \o Unanswered(work) /\ pending' = pending
        /\ continued' = continued /\ phase' = "idle" /\ disk' = disk
    BY <1>4 DEF ArchivingFails, Idle
  <2>2. Marked(history', pending', continued)
    BY <1>1, <2>1, MarkedLanded
  <2> QED BY <2>1, <2>2, StillClosed DEF InModel
<1>5. CASE Fail
  <2>1. /\ history' = history /\ pending' = pending /\ disk' = disk
        /\ continued' = continued /\ phase' = "idle"
    BY <1>5 DEF Fail, Idle, session, past
  <2> QED BY <1>2, <2>1, StillClosed DEF InModel
<1>6. CASE Cancel
  <2>1. /\ history' = Restored(history, check) /\ pending' = (pending /\ check = None)
        /\ continued' = continued /\ phase' = "idle"
        /\ disk' = disk \/ disk' = Saved'
    BY <1>6 DEF Cancel, Idle, past
  <2> DEFINE q == pending /\ check = None
  <2>2. q \in BOOLEAN /\ (pending /\ check = None => q) /\ pending' = q
    BY <2>1
  <2> HIDE DEF q
  <2>3. Marked(Restored(history, check), q, continued)
    BY <2>2, MarkedRestored
  <2>4. Marked(history', pending', continued)
    BY <2>1, <2>2, <2>3
  <2> QED BY <2>1, <2>4, StillClosed DEF InModel
<1>7. CASE New
  <2> DEFINE s == Restored(history, check)
             third == [rows |-> s, pending |-> pending', check |-> None]
  <2>1. /\ history' = <<>> /\ continued' = continued /\ phase' = "idle"
        /\ disk' \in {disk, Saved', third}
    BY <1>7 DEF New, Idle
  <2>2. pending' \in BOOLEAN /\ (pending /\ check = None => pending')
    <3>1. CASE phase = "restored" /\ UNCHANGED pending
      BY <1>1, <3>1
    <3>2. CASE pending' = (pending /\ check = None)
      BY <3>2
    <3> QED BY <1>7, <3>1, <3>2 DEF New
  <2> DEFINE q == pending'
  <2>3. q \in BOOLEAN /\ (pending /\ check = None => q)
    BY <2>2
  <2> HIDE DEF q
  <2>4. Marked(s, q, continued)
    BY <2>3, MarkedRestored
  <2> HIDE DEF s
  <2>5. Marked(history', pending', continued)
    <3>1. Len(history') = 0 /\ \A i \in 1 .. Len(history') - 1 : FALSE
      BY <2>1
    <3> QED BY <3>1 DEF Marked, Open
  <2>6. Marked(disk'.rows, disk'.pending, continued)
    <3>1. CASE disk' = disk
      BY <1>2, <3>1
    <3>2. CASE disk' = Saved'
      <4>1. disk'.rows = history' /\ disk'.pending = pending'
        BY <3>2 DEF Saved
      <4> QED BY <2>5, <4>1
    <3>3. CASE disk' = third
      <4>1. disk'.rows = s /\ disk'.pending = q
        BY <3>3 DEF q
      <4> QED BY <2>4, <4>1
    <3> QED BY <2>1, <3>1, <3>2, <3>3
  <2> QED BY <2>1, <2>5, <2>6 DEF ClosedInv, InModel
<1>8. CASE Crash
  <2>1. /\ history' = disk.rows /\ pending' = disk.pending /\ disk' = disk
        /\ continued' = continued /\ phase' = "idle"
    BY <1>8 DEF Crash, Idle, past
  <2> QED BY <1>2, <2>1, StillClosed DEF InModel
<1>9. CASE Flush
  <2>1. /\ history' = history /\ pending' = pending /\ disk'.rows = history
        /\ disk'.pending = pending /\ continued' = continued /\ phase' = phase /\ turn' = turn
        /\ work' = work
    BY <1>9 DEF Flush, Saved, session, run, past
  <2> QED BY <1>2, <2>1 DEF ClosedInv, InModel, Open
<1> QED BY <1>3, <1>4, <1>5, <1>6, <1>7, <1>8, <1>9 DEF Finish

\* No input of another turn is added behind a user's message whose turn was cut
\* short, unless a goal carried that turn on in a new one: the notice, or what
\* the checkpoint restored, comes before it, in memory and, after a crash, in
\* what the disk had.
THEOREM UserTurnsStayClosed == Spec => []UserTurnsClosed
<1>1. Init => ClosedInv
  <2> SUFFICES ASSUME Init PROVE ClosedInv
    OBVIOUS
  <2>1. history = <<>> /\ phase = "idle" /\ disk.rows = history /\ disk.pending = pending
    BY DEF Init, Saved
  <2>2. Len(history) = 0 /\ \A i \in 1 .. Len(history) - 1 : FALSE
    BY <2>1
  <2> QED BY <2>1, <2>2 DEF ClosedInv, Marked, Open, InModel
<1>2. TurnInv /\ ClosedInv /\ [Next]_vars => ClosedInv'
  <2> SUFFICES ASSUME TurnInv, ClosedInv, [Next]_vars PROVE ClosedInv'
    OBVIOUS
  <2>1. CASE Next
    BY <2>1, ClosedPrepares, ClosedInModel, ClosedFinishes DEF Next
  <2>2. CASE UNCHANGED vars
    <3>1. /\ history' = history /\ pending' = pending /\ disk' = disk /\ phase' = phase
          /\ turn' = turn /\ work' = work /\ continued' = continued
      BY <2>2 DEF vars, session, run, past
    <3> QED BY <3>1 DEF ClosedInv, InModel, Marked, Open
  <2> QED BY <2>1, <2>2
<1>3. ClosedInv => UserTurnsClosed
  BY DEF ClosedInv, Marked, UserTurnsClosed
<1> QED BY <1>1, <1>2, <1>3, TurnInvariant, PTL DEF Spec

-----------------------------------------------------------------------------
(* What a step may not do *)

\* Outside of /new and of a crash the history only grows.
LEMMA HistoryGrows ==
    ASSUME TurnInv, Next, ~New, ~Crash
    PROVE  ToSet(history) \subseteq ToSet(history')
<1>1. /\ history \in Seq(Messages) /\ turn \in Nat /\ check \in Checkpoints \cup {None}
      /\ pending \in BOOLEAN /\ TypeOK
  BY Typed DEF TurnInv
<1>2. \A k \in Kinds : Append(history, Row(k, 0, 0)) \in Seq(Messages)
                       /\ ToSet(history) \subseteq ToSet(Append(history, Row(k, 0, 0)))
  <2> SUFFICES ASSUME NEW k \in Kinds
               PROVE  /\ Append(history, Row(k, 0, 0)) \in Seq(Messages)
                      /\ ToSet(history) \subseteq ToSet(Append(history, Row(k, 0, 0)))
    OBVIOUS
  <2>1. Row(k, 0, 0) \in Messages
    BY <1>1, InputIs
  <2> QED BY <1>1, <2>1, Appended
<1>3. {"user", "event", "notice", "reply"} \subseteq Kinds
  BY DEF Kinds, UserKinds
<1>4. ToSet(history) \subseteq ToSet(Restored(history, check))
  BY RestoredSession
<1>5. CASE RestoreTurn
  <2>1. history' = Restored(history, check) \/ history' = Closed(history, pending)
    BY <1>5 DEF RestoreTurn
  <2>2. Closed(history, pending) = history \/ Closed(history, pending) = Append(history, Row("notice", 0, 0))
    BY DEF Closed
  <2> QED BY <1>2, <1>3, <1>4, <2>1, <2>2
<1>6. CASE PersistUserEarly
  BY <1>2, <1>3, <1>6 DEF PersistUserEarly
<1>7. CASE PersistEventEarly
  BY <1>2, <1>3, <1>7 DEF PersistEventEarly
<1>8. CASE Command
  <2> DEFINE a == Append(history, Row("user", 0, 0))
  <2>1. history' = a \/ history' = Append(a, Row("reply", 0, 0))
    BY <1>8 DEF Command
  <2>2. a \in Seq(Messages) /\ ToSet(history) \subseteq ToSet(a)
    BY <1>2, <1>3
  <2>3. Row("reply", 0, 0) \in Messages
    BY <1>1, <1>3, InputIs
  <2> HIDE DEF a
  <2>4. ToSet(a) \subseteq ToSet(Append(a, Row("reply", 0, 0)))
    BY <2>2, <2>3, Appended
  <2> QED BY <2>1, <2>2, <2>4
<1>9. CASE PersistTurn \/ ArchivingFails
  <2>1. phase = "ended" /\ history' = history \o Unanswered(work)
    BY <1>9 DEF PersistTurn, ArchivingFails
  <2> DEFINE u == TRUE
  <2>2. u
    OBVIOUS
  <2> HIDE DEF u
  <2>3. ToSet(history \o Unanswered(work)) = ToSet(history) \cup ToSet(work)
    BY <2>1, <2>2, TurnLands
  <2> QED BY <2>1, <2>3
<1>10. CASE Cancel
  BY <1>4, <1>10 DEF Cancel
<1>11. CASE Begin \/ PersistNothing \/ Fail \/ Flush
  BY <1>11 DEF Begin, PersistNothing, Fail, Flush, session
<1>12. CASE CallTools \/ ToolsDone \/ Answer
  BY <1>12 DEF CallTools, ToolsDone, Answer
<1>13. CASE ToolsFatal \/ GiveUp \/ Truncated \/ Retry \/ Exhausted
  BY <1>13 DEF ToolsFatal, GiveUp, Truncated, Retry, Exhausted, StopWith, session
<1> QED BY <1>5, <1>6, <1>7, <1>8, <1>9, <1>10, <1>11, <1>12, <1>13 DEF Next, Prepare, Model, Finish

LEMMA CheckLands ==
    ASSUME TurnInv, Next, check # None, check' # check, check.turn > cleared'
    PROVE  \/ check' # None /\ check'.turn = check.turn
           \/ Durable(check) \subseteq ToSet(history')
           \/ <<history', check'>> = <<disk.rows, disk.check>>
<1>1. /\ history \in Seq(Messages) /\ turn \in Nat /\ check \in Checkpoints \cup {None}
  BY Typed DEF TurnInv
<1>2. Good(history, check, turn, unarchived)
  BY DEF TurnInv, SessionInv
<1>3. Durable(check) \subseteq ToSet(Restored(history, check))
  <2>1. ToSet(RowsOf(check)) \subseteq ToSet(Restored(history, check))
    BY <1>1, <1>2, RestoredGood
  <2> QED BY <2>1 DEF Durable
<1>4. CASE RestoreTurn
  BY <1>3, <1>4 DEF RestoreTurn
<1>5. CASE Cancel
  BY <1>3, <1>5 DEF Cancel
<1>6. CASE New
  <2>1. cleared' = turn
    BY <1>6 DEF New
  <2>2. check.turn <= turn /\ check.turn \in Nat
    BY <1>1, <1>2 DEF Good, Aged, Checkpoints
  <2> QED BY <1>1, <2>1, <2>2
<1>7. CASE Crash
  BY <1>7 DEF Crash
<1>8. CASE PersistTurn
  <2>1. phase = "ended" /\ history' = history \o Unanswered(work) /\ InModel
    BY <1>8 DEF PersistTurn, InModel
  <2> DEFINE u == TRUE
  <2>2. u
    OBVIOUS
  <2> HIDE DEF u
  <2>3. ToSet(history \o Unanswered(work)) = ToSet(history) \cup ToSet(work)
    BY <2>1, <2>2, TurnLands
  <2>4. Durable(check) \subseteq ToSet(work)
    BY <2>1, WhenInModel
  <2> QED BY <2>1, <2>3, <2>4
<1>9. CASE CallTools \/ ToolsDone \/ Answer
  <2>1. InModel
    BY <1>9 DEF CallTools, ToolsDone, Answer, InModel
  <2>2. check.turn = turn
    BY <2>1, WhenInModel
  <2>3. PICK at \in {"awaiting_tools", "tools_completed", "final_response"} : Checkpoint(at)
    BY <1>9 DEF CallTools, ToolsDone, Answer
  <2>4. step' \in 1 .. MaxSteps
    <3>1. step \in Nat /\ MaxSteps \in Nat
      BY Typed DEF TurnInv
    <3>2. CASE CallTools \/ Answer
      <4>1. step < MaxSteps /\ step' = step + 1
        BY <3>2 DEF CallTools, Answer, NextStep
      <4> QED BY <3>1, <4>1
    <3>3. CASE ToolsDone
      <4>1. phase = "tools" /\ step' = step
        BY <3>3 DEF ToolsDone
      <4> QED BY <4>1, ToolsFinished
    <3> QED BY <1>9, <3>2, <3>3
  <2>5. check' # None /\ check'.turn = turn
    BY <2>1, <2>3, <2>4, NewCheckpoint
  <2> QED BY <2>2, <2>5
<1>10. CASE Begin \/ PersistUserEarly \/ PersistEventEarly \/ PersistNothing \/ Command
  BY <1>10 DEF Begin, PersistUserEarly, PersistEventEarly, PersistNothing, Command, session
<1>11. CASE ToolsFatal \/ GiveUp \/ Truncated \/ Retry \/ Exhausted
  BY <1>11 DEF ToolsFatal, GiveUp, Truncated, Retry, Exhausted, StopWith, session
<1>12. CASE ArchivingFails \/ Fail \/ Flush
  BY <1>12 DEF ArchivingFails, Fail, Flush, session
<1> QED BY <1>4, <1>5, <1>6, <1>7, <1>8, <1>9, <1>10, <1>11, <1>12 DEF Next, Prepare, Model, Finish

LEMMA DiskStep ==
    ASSUME TurnInv, Next, NEW r \in ToSet(disk.rows), r.turn > cleared'
    PROVE  r \in ToSet(disk'.rows)
<1>1. /\ history \in Seq(Messages) /\ disk.rows \in Seq(Messages) /\ turn \in Nat /\ TypeOK
  BY Typed DEF TurnInv
<1>2. CASE disk' = disk
  BY <1>2
<1>3. CASE New
  <2>1. cleared' = turn
    BY <1>3 DEF New
  <2>2. PICK i \in 1 .. Len(disk.rows) : r = disk.rows[i]
    BY <1>1, SetOf
  <2>3. r.turn <= turn
    BY <2>2 DEF TurnInv, SessionInv, Good, Aged
  <2>4. r.turn \in Nat
    BY <1>1, SetOf, MessageFields
  <2> QED BY <1>1, <2>1, <2>3, <2>4
<1>4. CASE ~New /\ disk' # disk
  <2>1. cleared' = cleared
    BY <1>4 DEF Next, Prepare, Model, Finish, Begin, RestoreTurn, PersistUserEarly,
                PersistEventEarly, PersistNothing, Command, CallTools, ToolsDone, ToolsFatal,
                StopWith, Answer, Truncated, Retry, GiveUp, Exhausted, PersistTurn, ArchivingFails,
                Fail, Cancel, Crash, Flush, past
  <2>2. r \in ToSet(history)
    BY <2>1 DEF TurnInv, SessionInv, DiskFits
  <2>3. ~Crash
    BY <1>4 DEF Crash
  <2>4. r \in ToSet(history')
    BY <1>4, <2>2, <2>3, HistoryGrows
  <2>5. CASE disk' = Saved'
    <3>1. disk'.rows = history'
      BY <2>5 DEF Saved
    <3> QED BY <2>4, <3>1
  <2>6. CASE disk' = Saved
    <3>1. disk'.rows = history
      BY <2>6 DEF Saved
    <3> QED BY <2>2, <3>1
  <2>7. CASE Command /\ disk' # Saved'
    <3> DEFINE a == Append(history, Row("user", 0, 0))
    <3>1. disk' = [rows |-> a, pending |-> TRUE, check |-> check]
      BY <1>4, <2>7 DEF Command
    <3>2. Row("user", 0, 0) \in Messages
      <4>1. "user" \in Kinds
        BY DEF Kinds, UserKinds
      <4> QED BY <1>1, <4>1, InputIs
    <3>3. ToSet(history) \subseteq ToSet(a)
      <4> DEFINE q == Row("user", 0, 0)
      <4> HIDE DEF q
      <4>1. ToSet(Append(history, q)) = ToSet(history) \cup {q}
        BY <1>1, <3>2, Appended DEF q
      <4> QED BY <4>1 DEF q
    <3> HIDE DEF a
    <3>4. disk'.rows = a
      BY <3>1
    <3> QED BY <2>2, <3>3, <3>4
  <2>8. disk' = Saved' \/ disk' = Saved \/ Command
    <3>1. CASE Prepare
      BY <1>4, <3>1 DEF Prepare, Begin, RestoreTurn, PersistUserEarly, PersistEventEarly,
                        PersistNothing, SaveThen
    <3>2. CASE Model
      BY <1>4, <3>2 DEF Model, CallTools, ToolsDone, ToolsFatal, StopWith, Answer, Truncated,
                        Retry, GiveUp, Exhausted, SaveThen
    <3>3. CASE Finish
      BY <1>4, <2>3, <3>3 DEF Finish, PersistTurn, ArchivingFails, Fail, Cancel, Flush, SaveThen
    <3> QED BY <3>1, <3>2, <3>3 DEF Next
  <2> QED BY <2>5, <2>6, <2>7, <2>8
<1> QED BY <1>2, <1>3, <1>4

\* No save puts an older copy of the session over a newer one: what is on disk
\* stays there until /new clears the session, through crashes as well.
THEOREM DiskIsKept == Spec => DiskKeeps
<1>1. TurnInv /\ [Next]_vars =>
          [\A r \in ToSet(disk.rows) : r.turn > cleared' => r \in ToSet(disk'.rows)]_vars
  BY DiskStep
<1> QED BY <1>1, TurnInvariant, PTL DEF Spec, DiskKeeps

\* A checkpoint is given up only for a newer one of its turn, for a history that
\* holds what it had, or with all of the memory in a crash.
THEOREM CheckpointsLand == Spec => CheckpointLands
<1>1. TurnInv /\ [Next]_vars =>
          [ (check # None /\ check' # check /\ check.turn > cleared') =>
               \/ check' # None /\ check'.turn = check.turn
               \/ Durable(check) \subseteq ToSet(history')
               \/ <<history', check'>> = <<disk.rows, disk.check>> ]_vars
  BY CheckLands
<1> QED BY <1>1, TurnInvariant, PTL DEF Spec, CheckpointLands

-----------------------------------------------------------------------------
(* Memory: the inductive invariant *)

Waiters == {"turn", "after", "idle"}
Told == 1 .. 2 * MaxTalks
MemorySessions == [msgs : Seq(Told), lc : Nat]
Batches == [who : Waiters, obj : Objects, end : Nat, chunk : SUBSET Told]
TalkRecords ==
    [phase : {"none", "queued", "ready", "running"}, kind : TalkKinds \cup {"bus"},
     obj : Objects \cup {NoObject}, n : 0 .. MaxTalks]

\* The latest message there is anywhere.
Latest == CASE talk.phase \in {"queued", "ready"} -> 2 * talks - 2
            [] talk.phase = "running" -> 2 * talks - 1
            [] OTHER -> 2 * talks

MemoryTyped ==
    /\ sessionFile \in MemorySessions /\ objects \in [Objects -> MemorySessions]
    /\ cachedSession \in Objects \cup {NoObject} /\ talk \in TalkRecords
    /\ consolidating # NoTask => consolidating \in Batches
    /\ lockWaiters \in Seq(Waiters) /\ snapshots \subseteq SUBSET Told
    /\ archivingIdle \in BOOLEAN /\ overtaken \in BOOLEAN
    /\ talks \in 0 .. MaxTalks /\ deaths \in Nat

\* Messages rise, the user's and the agent's by turns.
Rising(m) ==
    /\ \A i, j \in 1 .. Len(m) : i < j => m[i] < m[j]
    /\ \A i \in 1 .. Len(m) - 1 : IsUsers(m[i]) <=> ~IsUsers(m[i + 1])
Below(m, top) == \A i \in 1 .. Len(m) : m[i] <= top

\* A session as it is saved, when u says that a consolidation was overtaken.
Fits(s, top, u) ==
    /\ Rising(s.msgs) /\ Below(s.msgs, top) /\ Len(s.msgs) <= FileCap
    /\ u \/ s.lc <= Len(s.msgs)
SessionsFit ==
    /\ Fits(sessionFile, Latest, overtaken)
    /\ \A o \in Objects : Fits(objects[o], Latest, overtaken)

\* Message x may follow those of m.
Follows(m, x) ==
    Len(m) # 0 => m[Len(m)] < x /\ (IsUsers(m[Len(m)]) <=> ~IsUsers(x))

\* Session t is s with message x added.
Grows(s, x, t) == t \in MemorySessions /\ t.msgs = Append(s.msgs, x) /\ t.lc = s.lc

\* The last message of m is a user's without an answer.
OpenEnd(m) == Len(m) # 0 /\ IsUsers(m[Len(m)])

\* A turn that has stored its user's message ends the session it holds with it.
TalkHolds ==
    /\ talk.phase = "none" <=> talk.obj = NoObject
    /\ talk.phase # "none" =>
          /\ talk.n = talks /\ talks # 0
          /\ talk.phase = "running" <=> OpenEnd(objects[talk.obj].msgs)

\* A turn asks for one consolidation, before it is ready.
NoTurn(q) == \A i \in 1 .. Len(q) : q[i] # "turn"
OneTurn(q) == \A i, j \in 1 .. Len(q) : q[i] = "turn" /\ q[j] = "turn" => i = j
TurnConsolidates == consolidating # NoTask /\ consolidating.who = "turn"
TurnWaits ==
    /\ OneTurn(lockWaiters)
    /\ talk.phase # "queued" => NoTurn(lockWaiters) /\ ~TurnConsolidates
    /\ TurnConsolidates => NoTurn(lockWaiters)

MemoryShape == MemoryTyped /\ SessionsFit /\ TalkHolds /\ TurnWaits

\* Who holds the session holds what is on file, and the batch that is being archived
\* is what the session has up to its end.
Together ==
    ~overtaken =>
        /\ talk.obj \in {NoObject, cachedSession}
        /\ cachedSession # NoObject => objects[cachedSession] = sessionFile
        /\ consolidating # NoTask =>
              /\ consolidating.obj = cachedSession
              /\ sessionFile.lc <= consolidating.end
              /\ consolidating.end <= Len(sessionFile.msgs)
              /\ consolidating.chunk =
                    {sessionFile.msgs[i] : i \in sessionFile.lc + 1 .. consolidating.end}

\* What the cursor has passed is archived, and what was saved is accounted for.
Accounted ==
    ~overtaken =>
        /\ Elements(sessionFile.msgs) \ Unarchived(sessionFile) \subseteq archived
        /\ saved \subseteq archived \cup abandoned \cup (UNION snapshots) \cup Unarchived(sessionFile)

\* What is archived, on its way there and still in the session is apart, and new
\* messages are later than all of it.
Apart ==
    ~overtaken /\ deaths = 0 =>
        /\ archivedAgain = {}
        /\ Unarchived(sessionFile) \cap archived = {}
        /\ \A c \in snapshots : c \cap archived = {} /\ c \cap Elements(sessionFile.msgs) = {}
        /\ \A c, d \in snapshots : c # d => c \cap d = {}
        /\ \A x \in archived \cup UNION snapshots :
              /\ x \in Nat /\ x <= Latest
              /\ Len(sessionFile.msgs) # 0 => x <= sessionFile.msgs[Len(sessionFile.msgs)]

\* The inductive invariant.
MemoryInv == MemoryShape /\ Together /\ Accounted /\ Apart

-----------------------------------------------------------------------------
(* Memory: what the operators of the model yield *)

LEMMA Parity ==
    ASSUME NEW n \in Int
    PROVE  /\ IsUsers(2 * n - 1) /\ ~IsUsers(2 * n)
           /\ IsUsers(n) <=> ~IsUsers(n + 1)
  BY DEF IsUsers

LEMMA Appending ==
    ASSUME NEW m \in Seq(Told), NEW x \in Told, Rising(m), Follows(m, x)
    PROVE  /\ Append(m, x) \in Seq(Told) /\ Rising(Append(m, x))
           /\ Len(Append(m, x)) = Len(m) + 1
           /\ \A i \in 1 .. Len(m) : Append(m, x)[i] = m[i]
           /\ Append(m, x)[Len(m) + 1] = x
<1> USE DEF Follows
<1> DEFINE a == Append(m, x)
<1>1. /\ a \in Seq(Told) /\ Len(a) = Len(m) + 1 /\ \A i \in 1 .. Len(m) : a[i] = m[i]
      /\ a[Len(m) + 1] = x /\ Len(m) \in Nat /\ \A i \in 1 .. Len(m) : m[i] \in Int
      /\ x \in Int
  <2>1. MaxTalks \in Nat
    BY MemoryAssumption
  <2>2. Told \subseteq Int
    BY <2>1 DEF Told
  <2>3. \A i \in 1 .. Len(m) : m[i] \in Told
    BY ElementOfSeq
  <2>4. a \in Seq(Told) /\ Len(a) = Len(m) + 1 /\ \A i \in 1 .. Len(m) : a[i] = m[i]
    OBVIOUS
  <2>5. a[Len(m) + 1] = x /\ Len(m) \in Nat
    OBVIOUS
  <2> QED BY <2>2, <2>3, <2>4, <2>5
<1> HIDE DEF a
<1>2. ASSUME NEW i \in 1 .. Len(a), NEW j \in 1 .. Len(a), i < j PROVE a[i] < a[j]
  <2>1. CASE j <= Len(m)
    BY <2>1, <1>1, <1>2 DEF Rising
  <2>2. CASE j = Len(m) + 1
    <3>1. i \in 1 .. Len(m) /\ Len(m) \in 1 .. Len(m) /\ a[i] = m[i] /\ a[j] = x /\ m[Len(m)] < x
      BY <2>2, <1>1, <1>2
    <3>2. m[i] <= m[Len(m)]
      <4>1. CASE i = Len(m)
        BY <4>1, <3>1, <1>1
      <4>2. CASE i < Len(m)
        BY <4>2, <3>1, <1>1 DEF Rising
      <4> QED BY <4>1, <4>2, <3>1, <1>1
    <3> QED BY <3>1, <3>2, <1>1
  <2> QED BY <2>1, <2>2, <1>1
<1>3. ASSUME NEW i \in 1 .. Len(a) - 1 PROVE IsUsers(a[i]) <=> ~IsUsers(a[i + 1])
  <2>1. CASE i = Len(m)
    <3>1. Len(m) # 0 /\ a[i] = m[Len(m)] /\ a[i + 1] = x
      BY <2>1, <1>1
    <3> QED BY <3>1
  <2>2. CASE i < Len(m)
    <3>1. i \in 1 .. Len(m) - 1 /\ a[i] = m[i] /\ a[i + 1] = m[i + 1]
      BY <2>2, <1>1
    <3> QED BY <3>1 DEF Rising
  <2> QED BY <2>1, <2>2, <1>1
<1>4. Rising(a)
  BY <1>2, <1>3 DEF Rising
<1> QED BY <1>1, <1>4 DEF a

\* Every second message is a user's, so the cap finds one to cut at.
LEMMA CutAtUsers ==
    ASSUME NEW s \in MemorySessions, Rising(s.msgs), Len(s.msgs) > FileCap
    PROVE  KeptFrom(s) \in Len(s.msgs) - FileCap + 1 .. Len(s.msgs)
<1> DEFINE a == Len(s.msgs) - FileCap + 1
           P(i) == /\ IsUsers(s.msgs[i])
                   /\ \A k \in a .. i - 1 : ~IsUsers(s.msgs[k])
<1>1. /\ Len(s.msgs) \in Nat /\ FileCap \in Nat /\ FileCap > 1 /\ a \in Int
      /\ a \in a .. Len(s.msgs) /\ a + 1 \in a .. Len(s.msgs) /\ a \in 1 .. Len(s.msgs) - 1
  <2>1. s.msgs \in Seq(Told)
    BY DEF MemorySessions
  <2>2. Len(s.msgs) \in Nat
    BY <2>1
  <2>3. FileCap \in Nat /\ FileCap > 1
    BY MemoryAssumption
  <2> QED BY <2>2, <2>3
<1>2. IsUsers(s.msgs[a]) <=> ~IsUsers(s.msgs[a + 1])
  BY <1>1 DEF Rising
<1>3. \E i \in a .. Len(s.msgs) : P(i)
  <2>1. CASE IsUsers(s.msgs[a])
    <3>1. a .. a - 1 = {}
      BY <1>1
    <3>2. P(a)
      BY <3>1, <2>1
    <3> QED BY <3>2, <1>1
  <2>2. CASE ~IsUsers(s.msgs[a])
    <3>1. \A k \in a .. (a + 1) - 1 : k = a
      BY <1>1
    <3>2. P(a + 1)
      BY <3>1, <2>2, <1>2
    <3> QED BY <3>2, <1>1
  <2> QED BY <2>1, <2>2
<1>4. KeptFrom(s) = CHOOSE i \in a .. Len(s.msgs) : P(i)
  <2>1. ~(Len(s.msgs) <= FileCap)
    BY <1>1
  <2> QED BY <2>1, Zenon DEF KeptFrom
<1> HIDE DEF P, a
<1>5. (CHOOSE i \in a .. Len(s.msgs) : P(i)) \in a .. Len(s.msgs)
  BY <1>3
<1> QED BY <1>4, <1>5 DEF a

LEMMA ToldNumbers == MaxTalks \in Nat /\ Told \subseteq Nat /\ \A x \in Told : x > 0
<1>1. MaxTalks \in Nat
  BY MemoryAssumption
<1> QED BY <1>1 DEF Told

LEMMA SessionFields ==
    ASSUME NEW s \in MemorySessions
    PROVE  /\ s.msgs \in Seq(Told) /\ s.lc \in Nat /\ Len(s.msgs) \in Nat
           /\ DOMAIN s.msgs = 1 .. Len(s.msgs)
           /\ \A i \in 1 .. Len(s.msgs) : s.msgs[i] \in Told /\ s.msgs[i] \in Nat
<1>1. s.msgs \in Seq(Told) /\ s.lc \in Nat
  BY DEF MemorySessions
<1>2. \A i \in 1 .. Len(s.msgs) : s.msgs[i] \in Told
  BY <1>1, ElementOfSeq
<1>3. Len(s.msgs) \in Nat /\ DOMAIN s.msgs = 1 .. Len(s.msgs)
  BY <1>1
<1> QED BY <1>1, <1>2, <1>3, ToldNumbers

LEMMA InElements ==
    ASSUME NEW m \in Seq(Told), NEW x
    PROVE  x \in Elements(m) <=> \E i \in 1 .. Len(m) : x = m[i]
BY DEF Elements

LEMMA InUnarchived ==
    ASSUME NEW s \in MemorySessions, NEW x
    PROVE  x \in Unarchived(s) <=> \E i \in 1 .. Len(s.msgs) : i > s.lc /\ x = s.msgs[i]
BY SessionFields DEF Unarchived

LEMMA Separate ==
    ASSUME NEW m \in Seq(Told), Rising(m),
           NEW i \in 1 .. Len(m), NEW j \in 1 .. Len(m), m[i] = m[j]
    PROVE  i = j
<1>1. m[i] \in Told /\ m[j] \in Told
  BY ElementOfSeq
<1>2. m[i] \in Nat /\ m[j] \in Nat /\ i \in Nat /\ j \in Nat
  <2>1. Len(m) \in Nat
    OBVIOUS
  <2>2. i \in Nat /\ j \in Nat
    BY <2>1
  <2>3. m[i] \in Nat /\ m[j] \in Nat
    BY <1>1, ToldNumbers
  <2> QED BY <2>2, <2>3
<1>3. ~(i < j) /\ ~(j < i)
  BY <1>2 DEF Rising
<1> QED BY <1>2, <1>3

LEMMA Trimming ==
    ASSUME NEW s \in MemorySessions, Rising(s.msgs)
    PROVE  /\ Trimmed(s) \in MemorySessions /\ Rising(Trimmed(s).msgs)
           /\ Len(Trimmed(s).msgs) <= FileCap
           /\ Len(s.msgs) # 0 =>
                 /\ Len(Trimmed(s).msgs) # 0
                 /\ Trimmed(s).msgs[Len(Trimmed(s).msgs)] = s.msgs[Len(s.msgs)]
           /\ Elements(Trimmed(s).msgs) \subseteq Elements(s.msgs)
           /\ Unarchived(Trimmed(s)) = Unarchived(s) \cap Elements(Trimmed(s).msgs)
           /\ s.lc <= Len(s.msgs) => Trimmed(s).lc <= Len(Trimmed(s).msgs)
<1> DEFINE k == KeptFrom(s)
           t == Trimmed(s)
<1>0. /\ s.msgs \in Seq(Told) /\ s.lc \in Nat /\ Len(s.msgs) \in Nat /\ FileCap \in Nat
      /\ FileCap > 1
  BY SessionFields, MemoryAssumption
<1>1. CASE Len(s.msgs) <= FileCap
  <2>1. KeptFrom(s) = 1
    BY <1>1 DEF KeptFrom
  <2>2. Trimmed(s) = s
    BY <2>1 DEF Trimmed
  <2>3. Unarchived(s) \subseteq Elements(s.msgs)
    BY DEF Unarchived, Elements
  <2> QED BY <1>1, <2>2, <2>3
<1>2. CASE Len(s.msgs) > FileCap
  <2>1. k \in 2 .. Len(s.msgs) /\ k >= Len(s.msgs) - FileCap + 1
    <3>1. k \in Len(s.msgs) - FileCap + 1 .. Len(s.msgs)
      BY <1>2, CutAtUsers
    <3> QED BY <3>1, <1>0, <1>2
  <2>2. /\ t.msgs = SubSeq(s.msgs, k, Len(s.msgs)) /\ t.lc = CursorAfterTrim(s)
        /\ t = [msgs |-> SubSeq(s.msgs, k, Len(s.msgs)), lc |-> CursorAfterTrim(s)]
    <3>1. k # 1
      BY <2>1
    <3> DEFINE v == SubSeq(s.msgs, k, Len(s.msgs))
               c == CursorAfterTrim(s)
    <3>2. t = [msgs |-> v, lc |-> c]
      BY <3>1, Zenon DEF Trimmed
    <3> HIDE DEF t, v, c
    <3>3. t.msgs = v /\ t.lc = c
      BY <3>2
    <3> QED BY <3>2, <3>3 DEF v, c
  <2>3. t.lc = IF s.lc >= k THEN s.lc - k + 1 ELSE 0
    BY <2>2 DEF CursorAfterTrim
  <2> HIDE DEF k, t
  <2>4. /\ t.msgs \in Seq(Told) /\ Len(t.msgs) = Len(s.msgs) - k + 1
        /\ \A i \in 1 .. Len(t.msgs) : t.msgs[i] = s.msgs[i + k - 1]
    <3> DEFINE q == s.msgs
               v == SubSeq(q, k, Len(q))
    <3>0. q \in Seq(Told) /\ Len(q) \in Nat /\ k \in 1 .. Len(q)
      BY <1>0, <2>1
    <3> HIDE DEF q
    <3>5. \A i \in k .. Len(q) : q[i] \in Told
      <4>1. \A i \in k .. Len(q) : i \in 1 .. Len(q)
        BY <3>0
      <4> QED BY <4>1, <3>0, ElementOfSeq
    <3>6. k \in Int /\ Len(q) \in Int /\ k <= Len(q)
      BY <3>0
    <3>1. /\ v \in Seq(Told) /\ Len(v) = IF k <= Len(q) THEN Len(q) - k + 1 ELSE 0
          /\ \A i \in 1 .. Len(q) - k + 1 : v[i] = q[k + i - 1]
      BY <3>5, <3>6, SubSeqProperties
    <3>2. Len(v) = Len(q) - k + 1
      BY <3>1, <3>6
    <3>3. \A i \in 1 .. Len(q) - k + 1 : v[i] = q[i + k - 1]
      <4>1. \A i \in 1 .. Len(q) - k + 1 : k + i - 1 = i + k - 1
        BY <3>6
      <4> QED BY <4>1, <3>1
    <3>4. t.msgs = v
      BY <2>2 DEF q
    <3> QED BY <3>1, <3>2, <3>3, <3>4 DEF q
  <2>5. t.lc \in Nat
    BY <2>3, <2>1, <1>0
  <2>6. t \in MemorySessions
    BY <2>2, <2>4, <2>5 DEF MemorySessions
  <2>7. \A i \in 1 .. Len(t.msgs) : i + k - 1 \in 1 .. Len(s.msgs) /\ i + k - 1 \in Nat
    BY <2>4, <2>1, <1>0
  <2>8. Rising(t.msgs)
    <3>1. ASSUME NEW i \in 1 .. Len(t.msgs), NEW j \in 1 .. Len(t.msgs), i < j
          PROVE t.msgs[i] < t.msgs[j]
      <4>1. i + k - 1 < j + k - 1
        BY <3>1, <2>1, <1>0, <2>4
      <4>2. t.msgs[i] = s.msgs[i + k - 1] /\ t.msgs[j] = s.msgs[j + k - 1]
        BY <2>4
      <4> QED BY <4>1, <4>2, <2>7 DEF Rising
    <3>2. ASSUME NEW i \in 1 .. Len(t.msgs) - 1
          PROVE IsUsers(t.msgs[i]) <=> ~IsUsers(t.msgs[i + 1])
      <4>1. /\ i + k - 1 \in 1 .. Len(s.msgs) - 1 /\ i \in 1 .. Len(t.msgs)
            /\ i + 1 \in 1 .. Len(t.msgs) /\ (i + k - 1) + 1 = (i + 1) + k - 1
        BY <2>1, <1>0, <2>4
      <4>2. t.msgs[i] = s.msgs[i + k - 1] /\ t.msgs[i + 1] = s.msgs[(i + k - 1) + 1]
        BY <2>4, <4>1
      <4> QED BY <4>1, <4>2 DEF Rising
    <3> QED BY <3>1, <3>2 DEF Rising
  <2>9. Len(t.msgs) <= FileCap /\ Len(t.msgs) # 0 /\ t.msgs[Len(t.msgs)] = s.msgs[Len(s.msgs)]
    <3>1. Len(t.msgs) <= FileCap /\ Len(t.msgs) \in 1 .. Len(t.msgs)
      BY <2>1, <2>4, <1>0
    <3>2. Len(t.msgs) + k - 1 = Len(s.msgs) /\ Len(t.msgs) # 0
      BY <2>1, <2>4, <1>0
    <3> QED BY <3>1, <3>2, <2>4
  <2>10. Elements(t.msgs) \subseteq Elements(s.msgs)
    <3>1. ASSUME NEW x \in Elements(t.msgs) PROVE x \in Elements(s.msgs)
      <4>1. PICK i \in 1 .. Len(t.msgs) : x = t.msgs[i]
        BY <3>1, <2>4, InElements
      <4>2. x = s.msgs[i + k - 1] /\ i + k - 1 \in 1 .. Len(s.msgs)
        BY <4>1, <2>4, <2>7
      <4> QED BY <4>2, <1>0, InElements
    <3> QED BY <3>1
  <2>11. ASSUME NEW x PROVE x \in Unarchived(t) <=> x \in Unarchived(s) /\ x \in Elements(t.msgs)
    <3>1. ASSUME x \in Unarchived(t) PROVE x \in Unarchived(s) /\ x \in Elements(t.msgs)
      <4>1. PICK i \in 1 .. Len(t.msgs) : i > t.lc /\ x = t.msgs[i]
        BY <3>1, <2>6, InUnarchived
      <4>2. i + k - 1 > s.lc
        BY <4>1, <2>3, <2>1, <1>0, <2>4
      <4>3. x = s.msgs[i + k - 1] /\ i + k - 1 \in 1 .. Len(s.msgs)
        BY <4>1, <2>4, <2>7
      <4>4. x \in Unarchived(s)
        BY <4>2, <4>3, InUnarchived
      <4>5. x \in Elements(t.msgs)
        BY <4>1, <2>4, InElements
      <4> QED BY <4>4, <4>5
    <3>2. ASSUME x \in Unarchived(s), x \in Elements(t.msgs) PROVE x \in Unarchived(t)
      <4>1. PICK i \in 1 .. Len(s.msgs) : i > s.lc /\ x = s.msgs[i]
        BY <3>2, InUnarchived
      <4>2. PICK j \in 1 .. Len(t.msgs) : x = t.msgs[j]
        BY <3>2, <2>4, InElements
      <4>3. s.msgs[i] = s.msgs[j + k - 1] /\ j + k - 1 \in 1 .. Len(s.msgs)
        BY <4>1, <4>2, <2>4, <2>7
      <4>4. i = j + k - 1
        BY <4>3, <1>0, Separate
      <4>5. j > t.lc
        BY <4>1, <4>4, <2>3, <2>1, <1>0, <2>4
      <4> QED BY <4>5, <4>2, <2>6, InUnarchived
    <3> QED BY <3>1, <3>2
  <2>12. s.lc <= Len(s.msgs) => t.lc <= Len(t.msgs)
    BY <2>1, <2>3, <2>4, <1>0
  <2>13. Unarchived(t) = Unarchived(s) \cap Elements(t.msgs)
    BY <2>11
  <2> QED BY <2>6, <2>8, <2>9, <2>10, <2>12, <2>13 DEF t
<1> QED BY <1>0, <1>1, <1>2

LEMMA TrimmedWhole ==
    ASSUME NEW s, Len(s.msgs) <= FileCap PROVE KeptFrom(s) = 1 /\ Trimmed(s) = s
<1>1. KeptFrom(s) = 1
  BY DEF KeptFrom
<1> QED BY <1>1 DEF Trimmed

LEMMA LastIsLatest ==
    ASSUME NEW m \in Seq(Told), Rising(m), NEW x \in Elements(m)
    PROVE  Len(m) # 0 /\ m[Len(m)] \in Nat /\ x \in Nat /\ x <= m[Len(m)]
<1>1. PICK i \in 1 .. Len(m) : x = m[i]
  BY InElements
<1>2. Len(m) \in Nat
  OBVIOUS
<1>3. i \in Nat /\ i <= Len(m) /\ Len(m) \in 1 .. Len(m) /\ Len(m) # 0
  BY <1>1, <1>2
<1>4. m[i] \in Nat /\ m[Len(m)] \in Nat
  BY <1>3, ElementOfSeq, ToldNumbers
<1>5. i < Len(m) => m[i] < m[Len(m)]
  BY <1>3 DEF Rising
<1> QED BY <1>1, <1>2, <1>3, <1>4, <1>5

LEMMA AppendedSession ==
    ASSUME NEW s \in MemorySessions, NEW x \in Told, Rising(s.msgs), Follows(s.msgs, x),
           NEW t, Grows(s, x, t)
    PROVE  /\ t \in MemorySessions /\ Rising(t.msgs) /\ t.lc = s.lc
           /\ Len(t.msgs) = Len(s.msgs) + 1 /\ t.msgs[Len(t.msgs)] = x
           /\ Elements(t.msgs) = Elements(s.msgs) \cup {x}
           /\ s.lc <= Len(s.msgs) => Unarchived(t) = Unarchived(s) \cup {x}
<1> DEFINE m == s.msgs
           a == Append(m, x)
<1>1. m \in Seq(Told) /\ s.lc \in Nat /\ Len(m) \in Nat
  BY SessionFields
<1>2. t.msgs = a /\ t.lc = s.lc
  BY DEF Grows
<1>3. /\ a \in Seq(Told) /\ Rising(a) /\ Len(a) = Len(m) + 1
      /\ \A i \in 1 .. Len(m) : a[i] = m[i]
      /\ a[Len(m) + 1] = x
  BY <1>1, Appending
<1>4. s.msgs = m
  OBVIOUS
<1> HIDE DEF a, m
<1>5. t \in MemorySessions
  BY DEF Grows
<1>6. \A i \in 1 .. Len(a) : i \in 1 .. Len(m) \/ i = Len(m) + 1
  BY <1>1, <1>3
<1>7. (1 .. Len(m)) \subseteq 1 .. Len(a) /\ Len(m) + 1 \in 1 .. Len(a)
  BY <1>1, <1>3
<1>8. ASSUME NEW y PROVE y \in Elements(a) <=> y \in Elements(m) \/ y = x
  <2>1. y \in Elements(a) <=> \E i \in 1 .. Len(a) : y = a[i]
    BY <1>3, InElements
  <2>2. y \in Elements(m) <=> \E i \in 1 .. Len(m) : y = m[i]
    BY <1>1, InElements
  <2>3. (\E i \in 1 .. Len(a) : y = a[i]) => (\E i \in 1 .. Len(m) : y = m[i]) \/ y = x
    BY <1>3, <1>6
  <2>4. (\E i \in 1 .. Len(m) : y = m[i]) \/ y = x => (\E i \in 1 .. Len(a) : y = a[i])
    BY <1>3, <1>7
  <2> QED BY <2>1, <2>2, <2>3, <2>4
<1>9. ASSUME NEW y, s.lc <= Len(m) PROVE y \in Unarchived(t) <=> y \in Unarchived(s) \/ y = x
  <2>1. y \in Unarchived(t) <=> \E i \in 1 .. Len(a) : i > s.lc /\ y = a[i]
    <3>1. y \in Unarchived(t) <=> \E i \in 1 .. Len(t.msgs) : i > t.lc /\ y = t.msgs[i]
      BY <1>5, InUnarchived
    <3>2. t.msgs = a /\ t.lc = s.lc
      BY <1>2
    <3> QED BY <3>1, <3>2, Zenon
  <2>2. y \in Unarchived(s) <=> \E i \in 1 .. Len(m) : i > s.lc /\ y = m[i]
    BY <1>4, InUnarchived
  <2>3. Len(m) + 1 > s.lc
    BY <1>1, <1>9
  <2>4. (\E i \in 1 .. Len(a) : i > s.lc /\ y = a[i]) =>
             (\E i \in 1 .. Len(m) : i > s.lc /\ y = m[i]) \/ y = x
    BY <1>3, <1>6
  <2>5. (\E i \in 1 .. Len(m) : i > s.lc /\ y = m[i]) \/ y = x =>
             (\E i \in 1 .. Len(a) : i > s.lc /\ y = a[i])
    BY <1>3, <1>7, <2>3
  <2> QED BY <2>1, <2>2, <2>4, <2>5
<1>10. Elements(a) = Elements(m) \cup {x}
  BY <1>8
<1>11. s.lc <= Len(m) => Unarchived(t) = Unarchived(s) \cup {x}
  BY <1>9
<1>12. t.msgs[Len(t.msgs)] = x
  BY <1>2, <1>3
<1> QED BY <1>2, <1>3, <1>4, <1>5, <1>10, <1>11, <1>12

LEMMA AdvancedSession ==
    ASSUME NEW s \in MemorySessions, Rising(s.msgs), NEW e \in Nat,
           NEW t, t = [s EXCEPT !.lc = e]
    PROVE  /\ t \in MemorySessions /\ t.msgs = s.msgs /\ t.lc = e
           /\ (s.lc <= e /\ e <= Len(s.msgs)) =>
                 LET chunk == {s.msgs[i] : i \in s.lc + 1 .. e} IN
                 chunk \subseteq Unarchived(s) /\ Unarchived(t) = Unarchived(s) \ chunk
<1>1. /\ s.msgs \in Seq(Told) /\ s.lc \in Nat /\ Len(s.msgs) \in Nat
      /\ t.msgs = s.msgs /\ t.lc = e
  BY SessionFields DEF MemorySessions
<1>2. t \in MemorySessions
  BY <1>1 DEF MemorySessions
<1> DEFINE chunk == {s.msgs[i] : i \in s.lc + 1 .. e}
<1>3. ASSUME s.lc <= e, e <= Len(s.msgs)
      PROVE  chunk \subseteq Unarchived(s) /\ Unarchived(t) = Unarchived(s) \ chunk
  <2>1. \A i \in s.lc + 1 .. e : i \in 1 .. Len(s.msgs) /\ i > s.lc
    BY <1>1, <1>3
  <2>2. ASSUME NEW y \in chunk PROVE y \in Unarchived(s)
    <3>1. PICK i \in s.lc + 1 .. e : y = s.msgs[i]
      OBVIOUS
    <3> QED BY <3>1, <2>1, InUnarchived
  <2>3. ASSUME NEW y \in Unarchived(t) PROVE y \in Unarchived(s) /\ y \notin chunk
    <3>0. \E i \in 1 .. Len(t.msgs) : i > t.lc /\ y = t.msgs[i]
      BY <1>2, InUnarchived
    <3>1. PICK i \in 1 .. Len(s.msgs) : i > e /\ y = s.msgs[i]
      BY <3>0, <1>1
    <3>2. i > s.lc
      BY <3>1, <1>1, <1>3
    <3>3. ASSUME NEW j \in s.lc + 1 .. e, y = s.msgs[j] PROVE FALSE
      <4>1. i = j
        BY <3>1, <3>3, <2>1, <1>1, Separate
      <4> QED BY <4>1, <3>1, <1>1
    <3> QED BY <3>1, <3>2, <3>3, InUnarchived
  <2>4. ASSUME NEW y \in Unarchived(s), y \notin chunk PROVE y \in Unarchived(t)
    <3>1. PICK i \in 1 .. Len(s.msgs) : i > s.lc /\ y = s.msgs[i]
      BY InUnarchived
    <3>2. ~(i \in s.lc + 1 .. e)
      BY <3>1, <2>4
    <3>3. i > e
      BY <3>1, <3>2, <1>1
    <3>4. \E j \in 1 .. Len(t.msgs) : j > t.lc /\ y = t.msgs[j]
      BY <3>1, <3>3, <1>1
    <3> QED BY <3>4, <1>2, InUnarchived
  <2> QED BY <2>2, <2>3, <2>4
<1> QED BY <1>1, <1>2, <1>3

LEMMA LatestNumber ==
    ASSUME MemoryTyped, TalkHolds
    PROVE  /\ Latest \in Nat /\ Latest <= 2 * talks /\ talks \in Nat /\ talks <= MaxTalks
           /\ talk.phase \in {"queued", "ready"} => Latest = 2 * talks - 2
           /\ talk.phase = "running" => Latest = 2 * talks - 1
           /\ talk.phase = "none" => Latest = 2 * talks
<1>1. talks \in Nat /\ MaxTalks \in Nat /\ talks <= MaxTalks
  BY MemoryAssumption DEF MemoryTyped
<1>2. talk.phase \in {"none", "queued", "ready", "running"}
  BY DEF MemoryTyped, TalkRecords
<1>3. talk.phase # "none" => talks # 0
  BY DEF TalkHolds
<1> QED BY <1>1, <1>2, <1>3 DEF Latest

LEMMA Spare ==
    ASSUME NEW a \in Objects \cup {NoObject}, NEW b \in Objects \cup {NoObject}
    PROVE  \E o \in Objects : o \notin {a, b, NoObject}
<1>1. PICK z \in Objects : TRUE
  BY MemoryAssumption
<1> DEFINE x == IF a = NoObject THEN z ELSE a
           y == IF b = NoObject THEN z ELSE b
<1>2. x \in Objects /\ y \in Objects
  BY <1>1
<1>3. PICK o \in Objects : o \notin {x, y}
  BY <1>2, MemoryAssumption
<1>4. o # NoObject
  BY MemoryAssumption
<1> QED BY <1>3, <1>4

\* There is an object that nobody holds.
LEMMA FreshObject ==
    ASSUME MemoryTyped, cachedSession = NoObject \/ consolidating = NoTask
    PROVE  /\ NewObject \in Objects /\ NewObject \notin Held /\ NewObject # NoObject
           /\ NewObject # talk.obj /\ NewObject # cachedSession
           /\ consolidating # NoTask => NewObject # consolidating.obj
<1>1. talk.obj \in Objects \cup {NoObject} /\ cachedSession \in Objects \cup {NoObject}
  BY DEF MemoryTyped, TalkRecords
<1>2. consolidating # NoTask => consolidating.obj \in Objects
  BY DEF MemoryTyped, Batches
<1>3. \E o \in Objects : o \notin Held /\ o # NoObject
  <2>1. CASE consolidating = NoTask
    <3>1. Held = {cachedSession, talk.obj}
      BY <2>1 DEF Held
    <3> QED BY <3>1, <1>1, Spare
  <2>2. CASE consolidating # NoTask /\ cachedSession = NoObject
    <3>1. Held = {NoObject, talk.obj, consolidating.obj}
      BY <2>2 DEF Held
    <3> QED BY <3>1, <2>2, <1>1, <1>2, Spare
  <2> QED BY <2>1, <2>2
<1>4. NewObject \in Objects /\ NewObject \notin Held
  BY <1>3 DEF NewObject
<1> QED BY <1>4, MemoryAssumption DEF Held

LEMMA LoadedSession ==
    ASSUME MemoryTyped, SessionsFit
    PROVE  /\ Loaded \in MemorySessions /\ Loaded.msgs = sessionFile.msgs
           /\ Fits(Loaded, Latest, FALSE)
           /\ ~overtaken => Loaded = sessionFile
<1>1. sessionFile \in MemorySessions /\ sessionFile.lc \in Nat /\ Len(sessionFile.msgs) \in Nat
  BY SessionFields DEF MemoryTyped
<1>2. CASE sessionFile.lc > Len(sessionFile.msgs)
  <2>1. Loaded = [sessionFile EXCEPT !.lc = 0]
    BY <1>2 DEF Loaded
  <2>2. Loaded \in MemorySessions /\ Loaded.msgs = sessionFile.msgs /\ Loaded.lc = 0
    BY <1>1, <2>1 DEF MemorySessions
  <2>3. overtaken
    BY <1>1, <1>2 DEF SessionsFit, Fits
  <2> QED BY <1>1, <2>2, <2>3 DEF SessionsFit, Fits
<1>3. CASE ~(sessionFile.lc > Len(sessionFile.msgs))
  <2>1. Loaded = sessionFile
    BY <1>3 DEF Loaded
  <2> QED BY <1>1, <1>3, <2>1 DEF SessionsFit, Fits
<1> QED BY <1>2, <1>3

LEMMA OpenedFacts ==
    ASSUME MemoryTyped, SessionsFit
    PROVE  /\ Opened \in Objects /\ Opened # NoObject /\ OpenedSession \in MemorySessions
           /\ Fits(OpenedSession, Latest, overtaken)
           /\ cachedSession # NoObject => /\ Opened = cachedSession
                                          /\ OpenedSession = objects[cachedSession]
           /\ cachedSession = NoObject => /\ Opened # talk.obj
                                          /\ consolidating # NoTask => Opened # consolidating.obj
           /\ cachedSession = NoObject /\ ~overtaken => OpenedSession = sessionFile
<1>1. CASE cachedSession = NoObject
  <2>1. Opened = NewObject /\ OpenedSession = Loaded
    BY <1>1 DEF Opened, OpenedSession
  <2> QED BY <1>1, <2>1, FreshObject, LoadedSession DEF Fits
<1>2. CASE cachedSession # NoObject
  <2>1. Opened = cachedSession /\ OpenedSession = objects[cachedSession]
    BY <1>2 DEF Opened, OpenedSession
  <2>2. cachedSession \in Objects
    BY <1>2 DEF MemoryTyped
  <2> QED BY <1>2, <2>1, <2>2 DEF MemoryTyped, SessionsFit
<1> QED BY <1>1, <1>2

LEMMA ClosedFits ==
    ASSUME NEW s \in MemorySessions, NEW n \in Nat, n <= MaxTalks,
           Rising(s.msgs), Below(s.msgs, 2 * n)
    PROVE  /\ ~OpenEnd(s.msgs) => ClosedSession(s) = s
           /\ OpenEnd(s.msgs) =>
                 LET t == ClosedSession(s)
                     x == s.msgs[Len(s.msgs)] + 1 IN
                 /\ t # s /\ x \in Told /\ x <= 2 * n
                 /\ Grows(s, x, t) /\ Follows(s.msgs, x)
                 /\ t \in MemorySessions /\ Rising(t.msgs) /\ t.lc = s.lc
                 /\ Len(t.msgs) = Len(s.msgs) + 1 /\ t.msgs[Len(t.msgs)] = x
                 /\ Elements(t.msgs) = Elements(s.msgs) \cup {x} /\ ~OpenEnd(t.msgs)
                 /\ Below(t.msgs, 2 * n)
                 /\ s.lc <= Len(s.msgs) => Unarchived(t) = Unarchived(s) \cup {x}
<1>1. s.msgs \in Seq(Told) /\ Len(s.msgs) \in Nat /\ (s.msgs # <<>> <=> Len(s.msgs) # 0)
  <2>1. s.msgs \in Seq(Told)
    BY SessionFields
  <2> QED BY <2>1, EmptySeq
<1>2. ASSUME ~OpenEnd(s.msgs) PROVE ClosedSession(s) = s
  <2>1. ~(s.msgs # <<>> /\ IsUsers(s.msgs[Len(s.msgs)]))
    BY <1>1, <1>2 DEF OpenEnd
  <2> QED BY <2>1 DEF ClosedSession
<1>3. ASSUME OpenEnd(s.msgs)
      PROVE  LET t == ClosedSession(s)
                 x == s.msgs[Len(s.msgs)] + 1 IN
             /\ t # s /\ x \in Told /\ x <= 2 * n
             /\ Grows(s, x, t) /\ Follows(s.msgs, x)
             /\ t \in MemorySessions /\ Rising(t.msgs) /\ t.lc = s.lc
             /\ Len(t.msgs) = Len(s.msgs) + 1 /\ t.msgs[Len(t.msgs)] = x
             /\ Elements(t.msgs) = Elements(s.msgs) \cup {x} /\ ~OpenEnd(t.msgs)
             /\ Below(t.msgs, 2 * n)
             /\ s.lc <= Len(s.msgs) => Unarchived(t) = Unarchived(s) \cup {x}
  <2> DEFINE l == s.msgs[Len(s.msgs)]
             x == l + 1
             t == ClosedSession(s)
  <2>1. Len(s.msgs) # 0 /\ IsUsers(l) /\ Len(s.msgs) \in 1 .. Len(s.msgs)
    BY <1>1, <1>3 DEF OpenEnd
  <2>2. l \in Told /\ l \in Nat /\ l > 0 /\ l <= 2 * n
    <3>1. l \in Told
      BY <2>1, SessionFields
    <3>2. l <= 2 * n
      BY <2>1 DEF Below
    <3> QED BY <3>1, <3>2, ToldNumbers
  <2> HIDE DEF l
  <2>3. l # 2 * n
    <3>1. ~IsUsers(2 * n)
      BY DEF IsUsers
    <3> QED BY <3>1, <2>1
  <2>4. x \in Nat /\ x <= 2 * n /\ x > 0 /\ l < x
    BY <2>2, <2>3
  <2>5. x \in Told
    <3>1. x <= 2 * MaxTalks
      BY <2>4, ToldNumbers
    <3> QED BY <3>1, <2>4, ToldNumbers DEF Told
  <2>6. ~IsUsers(x)
    BY <2>1, <2>2 DEF IsUsers
  <2>7. t \in MemorySessions /\ t.msgs = Append(s.msgs, x) /\ t.lc = s.lc
    <3>1. s.msgs # <<>> /\ IsUsers(s.msgs[Len(s.msgs)])
      BY <1>1, <2>1 DEF l
    <3> DEFINE a == Append(s.msgs, x)
    <3>2. t = [s EXCEPT !.msgs = a]
      BY <3>1 DEF ClosedSession, l
    <3> HIDE DEF x
    <3>3. a \in Seq(Told)
      BY <1>1, <2>5
    <3> HIDE DEF t, a
    <3>4. t \in MemorySessions /\ t.msgs = a /\ t.lc = s.lc
      BY <3>2, <3>3 DEF MemorySessions
    <3> QED BY <3>4 DEF a
  <2>8. Follows(s.msgs, x)
    BY <2>1, <2>4, <2>6 DEF l, Follows
  <2> HIDE DEF t, x
  <2>13. Grows(s, x, t)
    BY <2>7 DEF Grows
  <2>9. /\ t \in MemorySessions /\ Rising(t.msgs) /\ t.lc = s.lc
        /\ Len(t.msgs) = Len(s.msgs) + 1 /\ t.msgs[Len(t.msgs)] = x
        /\ Elements(t.msgs) = Elements(s.msgs) \cup {x}
        /\ s.lc <= Len(s.msgs) => Unarchived(t) = Unarchived(s) \cup {x}
    BY <2>5, <2>8, <2>13, AppendedSession
  <2>10. t # s
    BY <2>9, <1>1
  <2>11. ~OpenEnd(t.msgs)
    BY <2>6, <2>9 DEF OpenEnd
  <2>12. Below(t.msgs, 2 * n)
    <3> SUFFICES ASSUME NEW i \in 1 .. Len(t.msgs) PROVE t.msgs[i] <= 2 * n
      BY DEF Below
    <3>1. t.msgs \in Seq(Told)
      BY <2>9, SessionFields
    <3>2. t.msgs[i] \in Elements(t.msgs)
      BY <3>1, InElements
    <3>3. t.msgs[i] <= t.msgs[Len(t.msgs)] /\ t.msgs[i] \in Nat
      BY <3>1, <3>2, <2>9, LastIsLatest
    <3> QED BY <3>3, <2>9, <2>4
  <2> QED BY <2>4, <2>5, <2>8, <2>9, <2>10, <2>11, <2>12, <2>13 DEF x, t, l
<1> QED BY <1>2, <1>3


-----------------------------------------------------------------------------
(* Memory: what a save, an opened session and the queue keep *)

LEMMA FitsStay ==
    ASSUME NEW s \in MemorySessions, NEW a \in Nat, NEW b \in Nat, a <= b,
           NEW u \in BOOLEAN, NEW v \in BOOLEAN, u => v, Fits(s, a, u)
    PROVE  Fits(s, b, v)
<1>1. ASSUME NEW i \in 1 .. Len(s.msgs) PROVE s.msgs[i] <= b
  <2>1. s.msgs[i] \in Nat /\ s.msgs[i] <= a
    BY SessionFields DEF Fits, Below
  <2> QED BY <2>1
<1> QED BY <1>1 DEF Fits, Below

\* What every session there is keeps fits when nothing but the latest message changes.
LEMMA SessionsFitStay ==
    ASSUME MemoryTyped, SessionsFit, Latest \in Nat, Latest' \in Nat, Latest <= Latest',
           overtaken' \in BOOLEAN, overtaken => overtaken'
    PROVE  /\ Fits(sessionFile, Latest', overtaken')
           /\ \A p \in Objects : objects[p] \in MemorySessions /\ Fits(objects[p], Latest', overtaken')
<1>1. overtaken \in BOOLEAN /\ sessionFile \in MemorySessions
  BY DEF MemoryTyped
<1>2. \A p \in Objects : objects[p] \in MemorySessions
  BY DEF MemoryTyped
<1>3. Fits(sessionFile, Latest', overtaken')
  BY <1>1, FitsStay DEF SessionsFit
<1>4. ASSUME NEW p \in Objects PROVE Fits(objects[p], Latest', overtaken')
  <2>1. Fits(objects[p], Latest, overtaken) /\ objects[p] \in MemorySessions
    BY <1>2 DEF SessionsFit
  <2> QED BY <2>1, <1>1, FitsStay
<1> QED BY <1>2, <1>3, <1>4

LEMMA TrimmedEnd ==
    ASSUME NEW s \in MemorySessions, Rising(s.msgs)
    PROVE  /\ OpenEnd(Trimmed(s).msgs) <=> OpenEnd(s.msgs)
           /\ \A top \in Nat : Below(s.msgs, top) => Below(Trimmed(s).msgs, top)
<1> DEFINE t == Trimmed(s)
<1>1. /\ t \in MemorySessions /\ Elements(t.msgs) \subseteq Elements(s.msgs)
      /\ Len(s.msgs) # 0 => Len(t.msgs) # 0 /\ t.msgs[Len(t.msgs)] = s.msgs[Len(s.msgs)]
  BY Trimming
<1> HIDE DEF t
<1>2. s.msgs \in Seq(Told) /\ t.msgs \in Seq(Told) /\ Len(t.msgs) \in Nat
  BY <1>1, SessionFields
<1>3. ASSUME Len(s.msgs) = 0 PROVE Len(t.msgs) = 0
  <2>1. ASSUME Len(t.msgs) # 0 PROVE FALSE
    <3>1. 1 \in 1 .. Len(t.msgs)
      BY <2>1, <1>2
    <3>2. t.msgs[1] \in Elements(t.msgs)
      BY <3>1, <1>2, InElements
    <3>3. \E i \in 1 .. Len(s.msgs) : t.msgs[1] = s.msgs[i]
      BY <3>2, <1>1, <1>2, InElements
    <3> QED BY <3>3, <1>3
  <2> QED BY <2>1
<1>4. OpenEnd(t.msgs) <=> OpenEnd(s.msgs)
  BY <1>1, <1>3 DEF OpenEnd
<1>5. ASSUME NEW top \in Nat, Below(s.msgs, top) PROVE Below(t.msgs, top)
  <2> SUFFICES ASSUME NEW i \in 1 .. Len(t.msgs) PROVE t.msgs[i] <= top
    BY DEF Below
  <2>1. t.msgs[i] \in Elements(t.msgs)
    BY <1>2, InElements
  <2>2. PICK j \in 1 .. Len(s.msgs) : t.msgs[i] = s.msgs[j]
    BY <2>1, <1>1, <1>2, InElements
  <2> QED BY <2>2, <1>5 DEF Below
<1> QED BY <1>4, <1>5 DEF t

\* A session that fits, but for its length, is saved as one that fits.
LEMMA SaveFits ==
    ASSUME MemoryTyped, SessionsFit, NEW o \in Objects, NEW s \in MemorySessions, NEW arch,
           Save(o, s, arch), Latest \in Nat, Latest' \in Nat, Latest <= Latest',
           Rising(s.msgs), Below(s.msgs, Latest'), overtaken \/ s.lc <= Len(s.msgs)
    PROVE  /\ sessionFile' \in MemorySessions /\ objects' \in [Objects -> MemorySessions]
           /\ cachedSession' \in Objects \cup {NoObject} /\ overtaken' \in BOOLEAN
           /\ SessionsFit' /\ (overtaken => overtaken')
           /\ objects'[o] = Trimmed(s) /\ \A p \in Objects \ {o} : objects'[p] = objects[p]
           /\ OpenEnd(objects'[o].msgs) <=> OpenEnd(s.msgs)
<1> DEFINE t == Trimmed(s)
<1>1. /\ t \in MemorySessions /\ Rising(t.msgs) /\ Len(t.msgs) <= FileCap
      /\ s.lc <= Len(s.msgs) => t.lc <= Len(t.msgs)
  BY Trimming
<1>2. Below(t.msgs, Latest') /\ (OpenEnd(t.msgs) <=> OpenEnd(s.msgs))
  BY TrimmedEnd
<1>3. /\ sessionFile' = t /\ objects' = [objects EXCEPT ![o] = t] /\ cachedSession' = o
      /\ overtaken' = (overtaken \/ CutUnder(o, s))
  BY DEF Save
<1> HIDE DEF t
<1>4. overtaken' \in BOOLEAN /\ (overtaken => overtaken')
  BY <1>3 DEF MemoryTyped, CutUnder
<1>5. objects \in [Objects -> MemorySessions]
  BY DEF MemoryTyped
<1>6. /\ objects' \in [Objects -> MemorySessions] /\ objects'[o] = t
      /\ \A p \in Objects \ {o} : objects'[p] = objects[p]
  BY <1>1, <1>3, <1>5
<1>7. Fits(t, Latest', overtaken')
  BY <1>1, <1>2, <1>4 DEF Fits
<1>8. \A p \in Objects : Fits(objects[p], Latest', overtaken')
  BY <1>4, SessionsFitStay
<1>9. \A p \in Objects : Fits(objects'[p], Latest', overtaken')
  BY <1>6, <1>7, <1>8
<1>10. SessionsFit'
  BY <1>3, <1>7, <1>9 DEF SessionsFit
<1> QED BY <1>1, <1>2, <1>3, <1>4, <1>6, <1>10 DEF t

\* get_or_create() changes no object that anybody holds.
LEMMA OpenFits ==
    ASSUME MemoryTyped, SessionsFit, Latest \in Nat, Latest' \in Nat, Latest <= Latest',
           objects' = [objects EXCEPT ![Opened] = OpenedSession],
           cachedSession' = Opened, sessionFile' = sessionFile, overtaken' = overtaken
    PROVE  /\ sessionFile' \in MemorySessions /\ objects' \in [Objects -> MemorySessions]
           /\ cachedSession' \in Objects \cup {NoObject} /\ overtaken' \in BOOLEAN
           /\ SessionsFit' /\ objects'[Opened] = OpenedSession
           /\ \A p \in Objects \ {Opened} : objects'[p] = objects[p]
           /\ talk.obj # NoObject => objects'[talk.obj] = objects[talk.obj]
<1>1. /\ Opened \in Objects /\ OpenedSession \in MemorySessions
      /\ Fits(OpenedSession, Latest, overtaken)
      /\ cachedSession # NoObject => Opened = cachedSession /\ OpenedSession = objects[cachedSession]
      /\ cachedSession = NoObject => Opened # talk.obj
  BY OpenedFacts
<1>2. /\ objects \in [Objects -> MemorySessions] /\ overtaken \in BOOLEAN
      /\ talk.obj \in Objects \cup {NoObject} /\ sessionFile \in MemorySessions
  BY DEF MemoryTyped, TalkRecords
<1> DEFINE o == Opened
           s == OpenedSession
<1>3. /\ objects' \in [Objects -> MemorySessions] /\ objects'[o] = s
      /\ \A p \in Objects \ {o} : objects'[p] = objects[p]
  <2> HIDE DEF o, s
  <2>1. o \in Objects /\ s \in MemorySessions /\ objects' = [objects EXCEPT ![o] = s]
    BY <1>1 DEF o, s
  <2> QED BY <2>1, <1>2
<1> HIDE DEF o, s
<1>4. Fits(s, Latest', overtaken')
  BY <1>1, <1>2, FitsStay DEF s
<1>5. Fits(sessionFile, Latest', overtaken') /\ \A p \in Objects : Fits(objects[p], Latest', overtaken')
  BY <1>2, SessionsFitStay
<1>6. SessionsFit'
  BY <1>3, <1>4, <1>5 DEF SessionsFit
<1>7. talk.obj # NoObject => objects'[talk.obj] = objects[talk.obj]
  BY <1>1, <1>2, <1>3 DEF o, s
<1> QED BY <1>1, <1>2, <1>3, <1>6, <1>7 DEF o, s


LEMMA QueueAppend ==
    ASSUME NEW q \in Seq(Waiters), NEW w \in Waiters
    PROVE  /\ Append(q, w) \in Seq(Waiters)
           /\ OneTurn(q) /\ w # "turn" => OneTurn(Append(q, w))
           /\ NoTurn(q) => OneTurn(Append(q, w))
           /\ NoTurn(q) /\ w # "turn" => NoTurn(Append(q, w))
<1> DEFINE a == Append(q, w)
<1>1. /\ a \in Seq(Waiters) /\ Len(a) = Len(q) + 1 /\ Len(q) \in Nat
      /\ \A i \in 1 .. Len(q) : a[i] = q[i]
      /\ a[Len(q) + 1] = w
  OBVIOUS
<1> HIDE DEF a
<1>2. \A i \in 1 .. Len(a) : i \in 1 .. Len(q) \/ i = Len(q) + 1
  BY <1>1
<1>3. OneTurn(q) /\ w # "turn" => OneTurn(a)
  BY <1>1, <1>2 DEF OneTurn
<1>4. NoTurn(q) => OneTurn(a)
  BY <1>1, <1>2 DEF NoTurn, OneTurn
<1>5. NoTurn(q) /\ w # "turn" => NoTurn(a)
  BY <1>1, <1>2 DEF NoTurn
<1> QED BY <1>1, <1>3, <1>4, <1>5 DEF a

LEMMA QueueTail ==
    ASSUME NEW q \in Seq(Waiters), q # <<>>
    PROVE  /\ Head(q) \in Waiters /\ Tail(q) \in Seq(Waiters)
           /\ OneTurn(q) => OneTurn(Tail(q)) /\ (Head(q) = "turn" => NoTurn(Tail(q)))
           /\ NoTurn(q) => NoTurn(Tail(q)) /\ Head(q) # "turn"
<1> DEFINE a == Tail(q)
           h == Head(q)
<1>1. /\ a \in Seq(Waiters) /\ Len(a) = Len(q) - 1 /\ Len(q) \in Nat /\ Len(q) # 0
      /\ \A i \in 1 .. Len(a) : a[i] = q[i + 1]
      /\ h = q[1] /\ h \in Waiters
  OBVIOUS
<1> HIDE DEF a, h
<1>2. \A i \in 1 .. Len(a) : i + 1 \in 1 .. Len(q) /\ i + 1 # 1 /\ i \in Nat
  BY <1>1
<1>3. 1 \in 1 .. Len(q)
  BY <1>1
<1>4. ASSUME OneTurn(q) PROVE OneTurn(a)
  <2> SUFFICES ASSUME NEW i \in 1 .. Len(a), NEW j \in 1 .. Len(a), a[i] = "turn", a[j] = "turn"
               PROVE  i = j
    BY DEF OneTurn
  <2>1. i + 1 = j + 1
    BY <1>1, <1>2, <1>4 DEF OneTurn
  <2> QED BY <2>1, <1>2
<1>5. ASSUME OneTurn(q), h = "turn" PROVE NoTurn(a)
  BY <1>1, <1>2, <1>3, <1>5 DEF OneTurn, NoTurn
<1>6. NoTurn(q) => NoTurn(a) /\ h # "turn"
  BY <1>1, <1>2, <1>3 DEF NoTurn
<1> QED BY <1>1, <1>4, <1>5, <1>6 DEF a, h

\* The cancelled turn leaves the queue.
LEMMA QueueRemove ==
    ASSUME NEW q \in Seq(Waiters), OneTurn(q)
    PROVE  RemoveFirst(q, "turn") \in Seq(Waiters) /\ NoTurn(RemoveFirst(q, "turn"))
<1>1. CASE ~\E i \in 1 .. Len(q) : q[i] = "turn"
  <2>1. RemoveFirst(q, "turn") = q
    BY <1>1 DEF RemoveFirst
  <2> QED BY <1>1, <2>1 DEF NoTurn
<1>2. CASE \E i \in 1 .. Len(q) : q[i] = "turn"
  <2> DEFINE I == {i \in 1 .. Len(q) : q[i] = "turn"}
             k == Min(I)
  <2>1. PICK n \in 1 .. Len(q) : q[n] = "turn"
    BY <1>2
  <2>2. I = {n} /\ Len(q) \in Nat /\ n \in Int
    BY <2>1 DEF OneTurn
  <2>3. k = n
    <3>1. \A x \in I : x = n
      BY <2>2
    <3>2. n \in I /\ \A y \in I : n <= y
      BY <2>2
    <3> HIDE DEF I
    <3> QED BY <3>1, <3>2 DEF Min
  <2>4. RemoveFirst(q, "turn") = RemoveAt(q, k)
    BY <1>2, <2>2 DEF RemoveFirst, SelectInSeq
  <2> HIDE DEF k, I
  <2> DEFINE a == SubSeq(q, 1, n - 1)
             b == SubSeq(q, n + 1, Len(q))
  <2>5. RemoveFirst(q, "turn") = a \o b
    BY <2>3, <2>4 DEF RemoveAt
  <2>6. /\ a \in Seq(Waiters) /\ Len(a) = n - 1
        /\ \A i \in 1 .. n - 1 : a[i] = q[i]
    <3>1. \A i \in 1 .. n - 1 : q[i] \in Waiters
      BY <2>1, <2>2, ElementOfSeq
    <3>2. 1 \in Int /\ n - 1 \in Int /\ 1 + (n - 1) - 1 = n - 1 /\ n >= 1
      BY <2>1, <2>2
    <3> DEFINE m == n - 1
    <3>3. m \in Int /\ \A i \in 1 .. m : q[i] \in Waiters
      BY <3>1, <3>2
    <3>4. m >= 0
      BY <3>2, <2>2
    <3> HIDE DEF m
    <3>5. /\ SubSeq(q, 1, m) \in Seq(Waiters)
          /\ Len(SubSeq(q, 1, m)) = IF 1 <= m THEN m - 1 + 1 ELSE 0
          /\ \A i \in 1 .. m - 1 + 1 : SubSeq(q, 1, m)[i] = q[1 + i - 1]
      BY <3>3, SubSeqProperties
    <3>6. Len(SubSeq(q, 1, m)) = m
      BY <3>3, <3>4, <3>5
    <3>7. \A i \in 1 .. m : SubSeq(q, 1, m)[i] = q[i]
      <4>1. \A i \in 1 .. m : i \in 1 .. m - 1 + 1 /\ 1 + i - 1 = i
        BY <3>3
      <4> QED BY <4>1, <3>5
    <3> QED BY <3>5, <3>6, <3>7 DEF m
  <2>7. /\ b \in Seq(Waiters) /\ Len(b) = Len(q) - n
        /\ \A i \in 1 .. Len(q) - n : b[i] = q[n + i]
    <3>1. \A i \in n + 1 .. Len(q) : q[i] \in Waiters
      <4>1. \A i \in n + 1 .. Len(q) : i \in 1 .. Len(q)
        BY <2>1, <2>2
      <4> QED BY <4>1, ElementOfSeq
    <3> DEFINE m == n + 1
               l == Len(q)
    <3>2. m \in Int /\ l \in Int /\ l - m + 1 = l - n /\ m <= l + 1
      BY <2>1, <2>2
    <3>3. \A i \in m .. l : q[i] \in Waiters
      BY <3>1
    <3> HIDE DEF m, l
    <3>4. /\ SubSeq(q, m, l) \in Seq(Waiters)
          /\ Len(SubSeq(q, m, l)) = IF m <= l THEN l - m + 1 ELSE 0
          /\ \A i \in 1 .. l - m + 1 : SubSeq(q, m, l)[i] = q[m + i - 1]
      BY <3>2, <3>3, SubSeqProperties
    <3>5. Len(SubSeq(q, m, l)) = l - n
      BY <3>2, <3>4, <2>2 DEF m
    <3>6. \A i \in 1 .. l - n : SubSeq(q, m, l)[i] = q[n + i]
      <4>1. \A i \in 1 .. l - n : i \in 1 .. l - m + 1 /\ m + i - 1 = n + i
        BY <3>2, <2>2 DEF m
      <4> QED BY <4>1, <3>4
    <3> QED BY <3>4, <3>5, <3>6 DEF m, l
  <2> HIDE DEF a, b
  <2>8. /\ a \o b \in Seq(Waiters) /\ Len(a \o b) = Len(a) + Len(b)
        /\ \A i \in 1 .. Len(a) + Len(b) :
              (a \o b)[i] = IF i <= Len(a) THEN a[i] ELSE b[i - Len(a)]
    <3>1. a \in Seq(Waiters) /\ b \in Seq(Waiters)
      BY <2>6, <2>7
    <3> QED BY <3>1, ConcatProperties
  <2>9. ASSUME NEW i \in 1 .. Len(a \o b) PROVE (a \o b)[i] # "turn"
    <3>1. CASE i <= n - 1
      <4>0. i \in 1 .. n - 1 /\ i \in 1 .. Len(q) /\ i # n /\ i <= Len(a)
        BY <3>1, <2>1, <2>2, <2>6, <2>8
      <4>1. (a \o b)[i] = q[i] /\ i \in 1 .. Len(q) /\ i # n
        BY <4>0, <2>6, <2>8
      <4> QED BY <4>1, <2>1 DEF OneTurn
    <3>2. CASE i >= n
      <4> DEFINE j == i - (n - 1)
      <4>1. /\ (a \o b)[i] = b[j] /\ j \in 1 .. Len(q) - n
            /\ n + j \in 1 .. Len(q) /\ n + j # n
        <5>1. i \in 1 .. Len(a) + Len(b) /\ i > Len(a) /\ j = i - Len(a)
          BY <3>2, <2>1, <2>2, <2>6, <2>8
        <5>2. (a \o b)[i] = b[j]
          BY <5>1, <2>6, <2>8
        <5> QED BY <5>1, <5>2, <2>1, <2>2, <2>6, <2>7
      <4>2. b[j] = q[n + j]
        BY <4>1, <2>7
      <4> HIDE DEF j
      <4> QED BY <4>1, <4>2, <2>1 DEF OneTurn
    <3>3. i \in Int
      BY <2>8
    <3> QED BY <3>1, <3>2, <3>3, <2>2
  <2> QED BY <2>5, <2>8, <2>9 DEF NoTurn
<1> QED BY <1>1, <1>2


-----------------------------------------------------------------------------
(* Memory: every step keeps the shape *)

LEMMA TurnFields ==
    ASSUME MemoryTyped
    PROVE  /\ talk.phase \in {"none", "queued", "ready", "running"}
           /\ talk.kind \in TalkKinds \cup {"bus"} /\ talk.obj \in Objects \cup {NoObject}
           /\ talk.n \in 0 .. MaxTalks /\ NoTalk \in TalkRecords
           /\ \A p \in {"none", "queued", "ready", "running"} :
                 LET t == [talk EXCEPT !.phase = p] IN
                 t \in TalkRecords /\ t.phase = p /\ t.obj = talk.obj /\ t.n = talk.n
           /\ consolidating # NoTask =>
                 /\ consolidating.who \in Waiters /\ consolidating.obj \in Objects
                 /\ consolidating.end \in Nat /\ consolidating.chunk \in SUBSET Told
<1>1. talk \in TalkRecords /\ MaxTalks \in Nat
  BY ToldNumbers DEF MemoryTyped
<1>2. NoTalk \in TalkRecords
  BY <1>1 DEF NoTalk, TalkRecords
<1>3. ASSUME NEW p \in {"none", "queued", "ready", "running"}
      PROVE  LET t == [talk EXCEPT !.phase = p] IN
             t \in TalkRecords /\ t.phase = p /\ t.obj = talk.obj /\ t.n = talk.n
  BY <1>1 DEF TalkRecords
<1>4. consolidating # NoTask =>
         /\ consolidating.who \in Waiters /\ consolidating.obj \in Objects
         /\ consolidating.end \in Nat /\ consolidating.chunk \in SUBSET Told
  BY DEF MemoryTyped, Batches
<1>5. /\ talk.phase \in {"none", "queued", "ready", "running"}
      /\ talk.kind \in TalkKinds \cup {"bus"} /\ talk.obj \in Objects \cup {NoObject}
      /\ talk.n \in 0 .. MaxTalks
  BY <1>1 DEF TalkRecords
<1> QED BY <1>2, <1>3, <1>4, <1>5

LEMMA StartShape ==
    ASSUME MemoryShape, NEW kind \in TalkKinds, StartTalk(kind)
    PROVE  MemoryShape'
<1> USE DEF MemoryShape
<1>1. /\ talk.phase = "none" /\ talks' = talks + 1 /\ talks < MaxTalks /\ deaths' = deaths
      /\ lockWaiters' = Append(lockWaiters, "turn") /\ UNCHANGED <<consolidating, archivingIdle, snapshots>>
  BY DEF StartTalk
<1>2. talks \in Nat /\ Latest = 2 * talks /\ talks <= MaxTalks
  BY <1>1, LatestNumber
<1>3. /\ Opened \in Objects /\ Opened # NoObject /\ OpenedSession \in MemorySessions
      /\ Fits(OpenedSession, Latest, overtaken)
  BY OpenedFacts
<1>4. /\ talk' \in TalkRecords /\ talk'.phase = "queued" /\ talk'.obj = Opened
      /\ talk'.n = talks' /\ talks' \in 0 .. MaxTalks /\ talks' # 0
  <2>1. talk' = [phase |-> "queued", kind |-> kind, obj |-> Opened, n |-> talks + 1]
    BY DEF StartTalk
  <2>2. talks + 1 \in 0 .. MaxTalks /\ talks + 1 # 0
    BY <1>1, <1>2, ToldNumbers
  <2> QED BY <1>1, <1>3, <2>1, <2>2 DEF TalkRecords
<1>5. Latest' = 2 * talks /\ Latest' \in Nat /\ Latest \in Nat /\ Latest <= Latest'
  <2>1. Latest' = 2 * talks' - 2
    BY <1>4 DEF Latest
  <2> QED BY <2>1, <1>1, <1>2
<1>6. Rising(OpenedSession.msgs) /\ Below(OpenedSession.msgs, 2 * talks)
  BY <1>2, <1>3 DEF Fits
<1>7. /\ sessionFile' \in MemorySessions /\ objects' \in [Objects -> MemorySessions]
      /\ cachedSession' \in Objects \cup {NoObject} /\ overtaken' \in BOOLEAN
      /\ SessionsFit' /\ ~OpenEnd(objects'[Opened].msgs)
  <2> DEFINE s == ClosedSession(OpenedSession)
  <2>0. /\ OpenEnd(OpenedSession.msgs) =>
              /\ s # OpenedSession /\ s \in MemorySessions /\ Rising(s.msgs)
              /\ s.lc = OpenedSession.lc /\ Len(s.msgs) = Len(OpenedSession.msgs) + 1
              /\ ~OpenEnd(s.msgs) /\ Below(s.msgs, 2 * talks)
        /\ ~OpenEnd(OpenedSession.msgs) => s = OpenedSession
    BY <1>2, <1>3, <1>6, ClosedFits
  <2>1. CASE OpenEnd(OpenedSession.msgs)
    <3>1. /\ s # OpenedSession /\ s \in MemorySessions /\ Rising(s.msgs)
          /\ s.lc = OpenedSession.lc /\ Len(s.msgs) = Len(OpenedSession.msgs) + 1
          /\ ~OpenEnd(s.msgs) /\ Below(s.msgs, 2 * talks)
      BY <2>0, <2>1
    <3>2. Save(Opened, s, {})
      BY <3>1 DEF StartTalk
    <3> HIDE DEF s
    <3>3. overtaken \/ s.lc <= Len(s.msgs)
      BY <3>1, <1>3, SessionFields DEF Fits
    <3> QED BY <3>1, <3>2, <3>3, <1>3, <1>5, SaveFits
  <2>2. CASE ~OpenEnd(OpenedSession.msgs)
    <3>1. s = OpenedSession
      BY <2>0, <2>2
    <3>2. /\ objects' = [objects EXCEPT ![Opened] = OpenedSession] /\ cachedSession' = Opened
          /\ sessionFile' = sessionFile /\ overtaken' = overtaken
      BY <3>1 DEF StartTalk
    <3>3. /\ sessionFile' \in MemorySessions /\ objects' \in [Objects -> MemorySessions]
          /\ cachedSession' \in Objects \cup {NoObject} /\ overtaken' \in BOOLEAN
          /\ SessionsFit' /\ objects'[Opened] = OpenedSession
      BY <3>2, <1>5, OpenFits
    <3> QED BY <3>3, <2>2
  <2> QED BY <2>1, <2>2
<1>8. lockWaiters' \in Seq(Waiters) /\ OneTurn(lockWaiters') /\ ~TurnConsolidates'
  <2>1. lockWaiters \in Seq(Waiters) /\ NoTurn(lockWaiters) /\ ~TurnConsolidates
    BY <1>1 DEF MemoryTyped, TurnWaits
  <2> QED BY <2>1, <1>1, QueueAppend DEF TurnConsolidates, Waiters
<1>9. MemoryTyped'
  BY <1>1, <1>4, <1>7, <1>8 DEF MemoryTyped
<1>10. TalkHolds' /\ TurnWaits'
  BY <1>3, <1>4, <1>7, <1>8 DEF TalkHolds, TurnWaits
<1> QED BY <1>7, <1>9, <1>10

\* A turn's message follows what the turn's session ends with.
LEMMA AddedFits ==
    ASSUME MemoryShape, talk.phase \in {"ready", "running"}, NEW x,
           x = IF talk.phase = "ready" THEN 2 * talk.n - 1 ELSE 2 * talk.n,
           NEW s, s = [objects[talk.obj] EXCEPT !.msgs = Append(@, x)]
    PROVE  /\ talk.obj \in Objects /\ talk.n = talks /\ talks \in 1 .. MaxTalks
           /\ x \in Told /\ Latest < x /\ x \in Nat /\ Latest \in Nat
           /\ s \in MemorySessions /\ s.msgs = Append(objects[talk.obj].msgs, x)
           /\ s.lc = objects[talk.obj].lc /\ Rising(s.msgs) /\ Below(s.msgs, x)
           /\ overtaken \/ s.lc <= Len(s.msgs)
           /\ OpenEnd(s.msgs) <=> talk.phase = "ready"
<1> USE DEF MemoryShape
<1>1. /\ talk.obj \in Objects /\ talk.n = talks /\ talks # 0
      /\ talk.phase = "running" <=> OpenEnd(objects[talk.obj].msgs)
  BY TurnFields DEF TalkHolds
<1>2. talks \in Nat /\ talks <= MaxTalks /\ Latest \in Nat /\ MaxTalks \in Nat
  BY LatestNumber, ToldNumbers
<1>3. Latest = x - 1 /\ x \in Nat /\ x \in Told /\ Latest < x
  <2>1. CASE talk.phase = "ready"
    <3>1. Latest = 2 * talks - 2 /\ x = 2 * talks - 1
      BY <2>1, <1>1, LatestNumber
    <3> QED BY <3>1, <1>1, <1>2 DEF Told
  <2>2. CASE talk.phase = "running"
    <3>1. Latest = 2 * talks - 1 /\ x = 2 * talks
      BY <2>2, <1>1, LatestNumber
    <3> QED BY <3>1, <1>1, <1>2 DEF Told
  <2> QED BY <2>1, <2>2
<1> DEFINE f == objects[talk.obj]
           a == Append(f.msgs, x)
<1>4. f \in MemorySessions /\ Fits(f, Latest, overtaken)
  BY <1>1 DEF MemoryTyped, SessionsFit
<1>5. f.msgs \in Seq(Told) /\ f.lc \in Nat /\ Len(f.msgs) \in Nat
  BY <1>4, SessionFields
<1>6. IsUsers(x) <=> talk.phase = "ready"
  <2>1. CASE talk.phase = "ready"
    BY <2>1, <1>1, <1>2 DEF IsUsers
  <2>2. CASE talk.phase = "running"
    BY <2>2, <1>1, <1>2 DEF IsUsers
  <2> QED BY <2>1, <2>2
<1> HIDE DEF f
<1>7. s \in MemorySessions /\ s.msgs = a /\ s.lc = f.lc
  <2>1. a \in Seq(Told)
    BY <1>3, <1>5
  <2>2. s = [f EXCEPT !.msgs = a]
    BY DEF f
  <2> HIDE DEF a
  <2> QED BY <2>1, <2>2, <1>4 DEF MemorySessions
<1>8. Follows(f.msgs, x)
  <2> USE DEF Follows
  <2> SUFFICES ASSUME Len(f.msgs) # 0
               PROVE  /\ f.msgs[Len(f.msgs)] < x
                      /\ IsUsers(f.msgs[Len(f.msgs)]) <=> ~IsUsers(x)
    OBVIOUS
  <2>1. Len(f.msgs) \in 1 .. Len(f.msgs)
    BY <1>5
  <2>2. f.msgs[Len(f.msgs)] \in Nat /\ f.msgs[Len(f.msgs)] <= Latest
    BY <2>1, <1>4, SessionFields DEF Fits, Below
  <2>3. IsUsers(f.msgs[Len(f.msgs)]) <=> talk.phase = "running"
    BY <1>1 DEF OpenEnd, f
  <2> QED BY <2>2, <2>3, <1>2, <1>3, <1>6
<1>9. /\ Rising(s.msgs) /\ Len(s.msgs) = Len(f.msgs) + 1 /\ s.msgs[Len(s.msgs)] = x
  <2>1. Rising(f.msgs) /\ f \in MemorySessions
    BY <1>4 DEF Fits
  <2>2. Grows(f, x, s)
    BY <1>7 DEF Grows
  <2>3. x \in Told
    BY <1>3
  <2> QED BY ONLY <2>1, <2>2, <2>3, <1>8, AppendedSession
<1>10. Below(s.msgs, x)
  <2> SUFFICES ASSUME NEW i \in 1 .. Len(s.msgs) PROVE s.msgs[i] <= x
    BY DEF Below
  <2>1. s.msgs \in Seq(Told)
    BY <1>7, SessionFields
  <2>2. s.msgs[i] \in Elements(s.msgs)
    BY <2>1, InElements
  <2> QED BY <2>1, <2>2, <1>9, LastIsLatest
<1>11. overtaken \/ s.lc <= Len(s.msgs)
  BY <1>4, <1>5, <1>7, <1>9 DEF Fits
<1>12. OpenEnd(s.msgs) <=> talk.phase = "ready"
  BY <1>5, <1>6, <1>9 DEF OpenEnd
<1> QED BY <1>1, <1>2, <1>3, <1>7, <1>9, <1>10, <1>11, <1>12 DEF f


LEMMA PersistShape ==
    ASSUME MemoryShape, PersistUser
    PROVE  MemoryShape'
<1> USE DEF MemoryShape
<1> DEFINE x == 2 * talk.n - 1
           o == talk.obj
           s == [objects[o] EXCEPT !.msgs = Append(@, x)]
<1>1. /\ talk.phase = "ready" /\ Save(o, s, {}) /\ talk' = [talk EXCEPT !.phase = "running"]
      /\ UNCHANGED <<consolidating, lockWaiters, archivingIdle, snapshots, talks, deaths>>
  BY DEF PersistUser, AddMessage, memoryBounds
<1>2. /\ talk' \in TalkRecords /\ talk'.phase = "running" /\ talk'.obj = o /\ talk'.n = talk.n
  BY <1>1, TurnFields
<1>3. /\ o \in Objects /\ talk.n = talks /\ talks \in 1 .. MaxTalks
      /\ x \in Told /\ Latest < x /\ x \in Nat /\ Latest \in Nat
      /\ s \in MemorySessions /\ s.lc = objects[o].lc /\ Rising(s.msgs) /\ Below(s.msgs, x)
      /\ overtaken \/ s.lc <= Len(s.msgs)
      /\ OpenEnd(s.msgs)
  BY <1>1, AddedFits
<1>4. Latest' = x
  BY <1>1, <1>2, <1>3 DEF Latest
<1> HIDE DEF s, x
<1>5. Latest <= Latest' /\ Latest' \in Nat
  BY <1>3, <1>4
<1>6. /\ sessionFile' \in MemorySessions /\ objects' \in [Objects -> MemorySessions]
      /\ cachedSession' \in Objects \cup {NoObject} /\ overtaken' \in BOOLEAN
      /\ SessionsFit' /\ OpenEnd(objects'[o].msgs)
  BY <1>1, <1>3, <1>4, <1>5, SaveFits
<1>7. MemoryTyped'
  BY <1>1, <1>2, <1>6 DEF MemoryTyped
<1>8. TalkHolds'
  <2>1. talks # 0 /\ o # NoObject /\ talks' = talks /\ talk.n = talks
    <3>1. talks # 0
      BY <1>3, ToldNumbers
    <3>2. o # NoObject
      BY <1>3, MemoryAssumption
    <3>3. talks' = talks
      BY <1>1
    <3>4. talk.n = talks
      BY <1>3
    <3> QED BY <3>1, <3>2, <3>3, <3>4
  <2>2. /\ talk'.phase = "running" /\ talk'.obj # NoObject /\ talk'.n = talks' /\ talks' # 0
        /\ OpenEnd(objects'[talk'.obj].msgs)
    BY <2>1, <1>2, <1>6
  <2> QED BY <2>2 DEF TalkHolds
<1>9. TurnWaits'
  BY <1>1, <1>2 DEF TurnWaits, TurnConsolidates
<1> QED BY <1>6, <1>7, <1>8, <1>9

LEMMA NoTurnHolds ==
    ASSUME talk' = NoTalk
    PROVE  TalkHolds' /\ talk'.phase = "none" /\ talk' \in TalkRecords /\ talk'.obj = NoObject
<1>1. MaxTalks \in Nat
  BY ToldNumbers
<1>2. talk' \in TalkRecords /\ talk'.phase = "none" /\ talk'.obj = NoObject
  BY <1>1 DEF NoTalk, TalkRecords
<1> QED BY <1>2 DEF TalkHolds

LEMMA EndShape ==
    ASSUME MemoryShape, EndTalk
    PROVE  MemoryShape'
<1> USE DEF MemoryShape
<1> DEFINE x == 2 * talk.n
           o == talk.obj
           s == [objects[o] EXCEPT !.msgs = Append(@, x)]
<1>1. /\ talk.phase = "running" /\ Save(o, s, {}) /\ talk' = NoTalk
      /\ lockWaiters' = Append(lockWaiters, "after")
      /\ UNCHANGED <<consolidating, archivingIdle, snapshots, talks, deaths>>
  BY DEF EndTalk, AddMessage, memoryBounds
<1>2. talk' \in TalkRecords /\ talk'.phase = "none" /\ TalkHolds'
  BY <1>1, NoTurnHolds
<1>3. /\ o \in Objects /\ talk.n = talks /\ talks \in 1 .. MaxTalks
      /\ x \in Told /\ Latest < x /\ x \in Nat /\ Latest \in Nat
      /\ s \in MemorySessions /\ s.lc = objects[o].lc /\ Rising(s.msgs) /\ Below(s.msgs, x)
      /\ overtaken \/ s.lc <= Len(s.msgs)
  BY <1>1, AddedFits
<1>4. Latest' = x
  BY <1>1, <1>2, <1>3 DEF Latest
<1> HIDE DEF s, x
<1>5. Latest <= Latest' /\ Latest' \in Nat
  BY <1>3, <1>4
<1>6. /\ sessionFile' \in MemorySessions /\ objects' \in [Objects -> MemorySessions]
      /\ cachedSession' \in Objects \cup {NoObject} /\ overtaken' \in BOOLEAN
      /\ SessionsFit'
  BY <1>1, <1>3, <1>4, <1>5, SaveFits
<1>7. lockWaiters \in Seq(Waiters) /\ NoTurn(lockWaiters) /\ ~TurnConsolidates
  BY <1>1 DEF MemoryTyped, TurnWaits
<1>8. lockWaiters' \in Seq(Waiters) /\ NoTurn(lockWaiters')
  BY <1>1, <1>7, QueueAppend DEF Waiters
<1>9. MemoryTyped'
  BY <1>1, <1>2, <1>6, <1>8 DEF MemoryTyped
<1>10. TurnWaits'
  BY <1>1, <1>2, <1>7, <1>8 DEF TurnWaits, TurnConsolidates, NoTurn, OneTurn
<1> QED BY <1>2, <1>6, <1>9, <1>10

\* Restoring into the session that is open closes a user's message, too.
LEMMA ClosedSaves ==
    ASSUME MemoryShape, Save(Opened, ClosedSession(OpenedSession), {}), OpenEnd(OpenedSession.msgs),
           Latest' = 2 * talks, talks \in Nat, talks <= MaxTalks, Latest \in Nat, Latest <= 2 * talks
    PROVE  /\ sessionFile' \in MemorySessions /\ objects' \in [Objects -> MemorySessions]
           /\ cachedSession' \in Objects \cup {NoObject} /\ overtaken' \in BOOLEAN
           /\ SessionsFit' /\ ~OpenEnd(objects'[Opened].msgs)
<1> USE DEF MemoryShape
<1> DEFINE s == ClosedSession(OpenedSession)
           top == 2 * talks
<1>1. /\ Opened \in Objects /\ OpenedSession \in MemorySessions
      /\ Fits(OpenedSession, Latest, overtaken)
  BY OpenedFacts
<1>2. top \in Nat /\ Latest <= top /\ overtaken \in BOOLEAN /\ Latest' = top
  BY DEF MemoryTyped
<1>3. Fits(OpenedSession, top, overtaken)
  <2> HIDE DEF top
  <2> QED BY <1>1, <1>2, FitsStay
<1>4. Rising(OpenedSession.msgs) /\ Below(OpenedSession.msgs, 2 * talks)
  BY <1>3 DEF Fits
<1>5. /\ s \in MemorySessions /\ Rising(s.msgs)
      /\ s.lc = OpenedSession.lc /\ Len(s.msgs) = Len(OpenedSession.msgs) + 1
      /\ ~OpenEnd(s.msgs) /\ Below(s.msgs, 2 * talks)
  BY <1>1, <1>4, ClosedFits
<1>6. Save(Opened, s, {})
  OBVIOUS
<1> HIDE DEF s
<1>7. overtaken \/ s.lc <= Len(s.msgs)
  BY <1>1, <1>5, SessionFields DEF Fits
<1>8. Below(s.msgs, Latest') /\ Latest' \in Nat /\ Latest <= Latest'
  BY <1>2, <1>5
<1> HIDE DEF top
<1> QED BY <1>1, <1>5, <1>6, <1>7, <1>8, SaveFits

LEMMA InterruptShape ==
    ASSUME MemoryShape, Interrupt
    PROVE  MemoryShape'
<1> USE DEF MemoryShape
<1>1. /\ talk.phase # "none" /\ talk' = NoTalk
      /\ lockWaiters' = RemoveFirst(lockWaiters, "turn")
      /\ consolidating' = IF consolidating # NoTask /\ consolidating.who = "turn"
                          THEN NoTask ELSE consolidating
      /\ UNCHANGED <<archivingIdle, snapshots, talks, deaths>>
  BY DEF Interrupt, memoryBounds
<1>2. talk' \in TalkRecords /\ talk'.phase = "none" /\ TalkHolds'
  BY <1>1, NoTurnHolds
<1>3. talks \in Nat /\ talks <= MaxTalks /\ Latest \in Nat /\ Latest <= 2 * talks
  BY LatestNumber
<1>4. Latest' = 2 * talks
  BY <1>1, <1>2 DEF Latest
<1>5. /\ sessionFile' \in MemorySessions /\ objects' \in [Objects -> MemorySessions]
      /\ cachedSession' \in Objects \cup {NoObject} /\ overtaken' \in BOOLEAN
      /\ SessionsFit'
  <2>1. CASE UNCHANGED <<sessionFile, cachedSession, objects, overtaken>>
    <3>1. Latest <= Latest' /\ Latest' \in Nat /\ overtaken' \in BOOLEAN
      BY <2>1, <1>3, <1>4 DEF MemoryTyped
    <3>2. /\ Fits(sessionFile, Latest', overtaken')
          /\ \A p \in Objects : Fits(objects[p], Latest', overtaken')
      BY <2>1, <3>1, <1>3, SessionsFitStay
    <3> QED BY <2>1, <3>2 DEF MemoryTyped, SessionsFit
  <2>2. CASE /\ OpenedSession.msgs # <<>> /\ IsUsers(OpenedSession.msgs[Len(OpenedSession.msgs)])
             /\ Save(Opened, ClosedSession(OpenedSession), {})
    <3>1. OpenedSession.msgs \in Seq(Told)
      BY OpenedFacts, SessionFields
    <3>2. OpenEnd(OpenedSession.msgs)
      BY <2>2, <3>1, EmptySeq DEF OpenEnd
    <3> QED BY <2>2, <3>2, <1>3, <1>4, ClosedSaves
  <2> QED BY <2>1, <2>2 DEF Interrupt
<1>6. lockWaiters' \in Seq(Waiters) /\ NoTurn(lockWaiters')
  BY <1>1, QueueRemove DEF MemoryTyped, TurnWaits
<1>7. ~TurnConsolidates' /\ (consolidating' # NoTask => consolidating' \in Batches)
  BY <1>1 DEF TurnConsolidates, MemoryTyped
<1>8. MemoryTyped'
  BY <1>1, <1>2, <1>5, <1>6, <1>7 DEF MemoryTyped
<1>9. TurnWaits'
  BY <1>6, <1>7 DEF TurnWaits, NoTurn, OneTurn
<1> QED BY <1>2, <1>5, <1>8, <1>9


LEMMA NewShape ==
    ASSUME MemoryShape, NewSession
    PROVE  MemoryShape'
<1> USE DEF MemoryShape
<1>1. /\ talk.phase = "none" /\ objects' = [objects EXCEPT ![Opened] = EmptySession]
      /\ sessionFile' = EmptySession /\ cachedSession' = NoObject
      /\ snapshots' = snapshots \cup ({Unarchived(OpenedSession)} \ {{}})
      /\ overtaken' = (overtaken \/ consolidating # NoTask)
      /\ UNCHANGED <<talk, consolidating, lockWaiters, archivingIdle, talks, deaths>>
  BY DEF NewSession
<1>2. Opened \in Objects /\ OpenedSession \in MemorySessions
  BY OpenedFacts
<1>3. EmptySession \in MemorySessions /\ EmptySession.msgs = <<>> /\ EmptySession.lc = 0
  <2>1. <<>> \in Seq(Told)
    OBVIOUS
  <2> QED BY <2>1 DEF EmptySession, MemorySessions
<1>4. overtaken' \in BOOLEAN /\ (overtaken => overtaken')
  BY <1>1 DEF MemoryTyped
<1>5. Latest \in Nat /\ Latest' \in Nat /\ Latest <= Latest'
  <2>1. Latest \in Nat /\ Latest' = Latest
    BY <1>1, LatestNumber DEF Latest
  <2> QED BY <2>1
<1>6. Fits(EmptySession, Latest', overtaken')
  <2>1. FileCap \in Nat /\ Len(EmptySession.msgs) = 0 /\ EmptySession.lc = 0
    BY <1>3, MemoryAssumption
  <2> QED BY <2>1 DEF Fits, Rising, Below
<1>7. \A p \in Objects : Fits(objects[p], Latest', overtaken')
  BY <1>4, <1>5, SessionsFitStay
<1>8. objects \in [Objects -> MemorySessions]
  BY DEF MemoryTyped
<1> DEFINE e == EmptySession
<1>9. e \in MemorySessions /\ Fits(e, Latest', overtaken') /\ objects' = [objects EXCEPT ![Opened] = e]
  BY <1>1, <1>3, <1>6
<1> HIDE DEF e
<1>10. objects' \in [Objects -> MemorySessions] /\ \A p \in Objects : Fits(objects'[p], Latest', overtaken')
  BY <1>2, <1>7, <1>8, <1>9
<1>11. SessionsFit'
  BY <1>1, <1>6, <1>10 DEF SessionsFit
<1>12. Unarchived(OpenedSession) \subseteq Told
  <2>1. ASSUME NEW y \in Unarchived(OpenedSession) PROVE y \in Told
    <3>1. PICK i \in 1 .. Len(OpenedSession.msgs) : y = OpenedSession.msgs[i]
      BY <1>2, InUnarchived
    <3> QED BY <3>1, <1>2, SessionFields
  <2> QED BY <2>1
<1>13. snapshots' \subseteq SUBSET Told
  BY <1>1, <1>12 DEF MemoryTyped
<1>14. MemoryTyped'
  BY <1>1, <1>3, <1>4, <1>10, <1>13 DEF MemoryTyped
<1>15. TalkHolds' /\ TurnWaits'
  BY <1>1 DEF TalkHolds, TurnWaits, TurnConsolidates
<1> QED BY <1>11, <1>14, <1>15

LEMMA SnapshotShape ==
    ASSUME MemoryShape, NEW chunk \in snapshots, SnapshotArchived(chunk)
    PROVE  MemoryShape'
<1> USE DEF MemoryShape
<1>1. /\ snapshots' = snapshots \ {chunk}
      /\ UNCHANGED <<sessionFile, cachedSession, objects, talk, consolidating,
                     lockWaiters, archivingIdle, talks, deaths, overtaken>>
  BY DEF SnapshotArchived, memoryBounds
<1>2. Latest' = Latest
  BY <1>1 DEF Latest
<1>3. MemoryTyped'
  BY <1>1 DEF MemoryTyped
<1>4. SessionsFit'
  BY <1>1, <1>2 DEF SessionsFit
<1>5. TalkHolds' /\ TurnWaits'
  BY <1>1 DEF TalkHolds, TurnWaits, TurnConsolidates
<1> QED BY <1>3, <1>4, <1>5

\* The turn stays as it is, or has waited for its consolidation.
TurnGoesOn ==
    /\ talk' \in TalkRecords /\ talk'.obj = talk.obj /\ talk'.n = talk.n /\ talks' = talks
    /\ \/ talk'.phase = talk.phase
       \/ talk.phase = "queued" /\ talk'.phase = "ready"

\* Such a step keeps the turn's session if that keeps its end.
LEMMA HoldsStay ==
    ASSUME MemoryTyped, TalkHolds, TurnGoesOn,
           talk.obj # NoObject => (OpenEnd(objects'[talk.obj].msgs) <=> OpenEnd(objects[talk.obj].msgs))
    PROVE  TalkHolds'
<1>1. CASE talk.phase = "none"
  BY <1>1 DEF TalkHolds, TurnGoesOn
<1>2. CASE talk.phase # "none"
  <2>1. talk.obj # NoObject /\ talk'.phase # "none"
    BY <1>2 DEF TalkHolds, TurnGoesOn
  <2> QED BY <1>2, <2>1 DEF TalkHolds, TurnGoesOn
<1> QED BY <1>1, <1>2

LEMMA LatestStay ==
    ASSUME MemoryTyped, TalkHolds, TurnGoesOn
    PROVE  Latest' = Latest /\ Latest \in Nat /\ Latest' \in Nat /\ Latest <= Latest'
<1>1. Latest \in Nat
  BY LatestNumber
<1>2. Latest' = Latest
  BY DEF Latest, TurnGoesOn
<1> QED BY <1>1, <1>2

LEMMA CheckShape ==
    ASSUME MemoryShape, CheckExpired
    PROVE  MemoryShape'
<1> USE DEF MemoryShape
<1>1. /\ objects' = [objects EXCEPT ![Opened] = OpenedSession] /\ cachedSession' = Opened
      /\ UNCHANGED <<sessionFile, talk, consolidating, snapshots, talks, deaths, overtaken>>
  BY DEF CheckExpired, memoryBounds, memoryGhosts
<1>2. Latest \in Nat /\ Latest' \in Nat /\ Latest <= Latest'
  <2>1. Latest \in Nat /\ Latest' = Latest
    BY <1>1, LatestNumber DEF Latest
  <2> QED BY <2>1
<1>3. /\ sessionFile' \in MemorySessions /\ objects' \in [Objects -> MemorySessions]
      /\ cachedSession' \in Objects \cup {NoObject} /\ overtaken' \in BOOLEAN
      /\ SessionsFit'
      /\ talk.obj # NoObject => objects'[talk.obj] = objects[talk.obj]
  BY <1>1, <1>2, OpenFits
<1>4. /\ lockWaiters' \in Seq(Waiters) /\ archivingIdle' \in BOOLEAN
      /\ OneTurn(lockWaiters') /\ (NoTurn(lockWaiters) => NoTurn(lockWaiters'))
  <2>1. lockWaiters \in Seq(Waiters) /\ OneTurn(lockWaiters) /\ archivingIdle \in BOOLEAN
    BY DEF MemoryTyped, TurnWaits
  <2>2. CASE archivingIdle' = TRUE /\ lockWaiters' = Append(lockWaiters, "idle")
    BY <2>1, <2>2, QueueAppend DEF Waiters
  <2>3. CASE UNCHANGED <<archivingIdle, lockWaiters>>
    BY <2>1, <2>3
  <2> QED BY <2>2, <2>3 DEF CheckExpired
<1>5. MemoryTyped'
  BY <1>1, <1>3, <1>4 DEF MemoryTyped
<1>6. TalkHolds'
  <2>1. TurnGoesOn
    BY <1>1 DEF TurnGoesOn, MemoryTyped
  <2> QED BY <2>1, <1>3, HoldsStay
<1>7. TurnWaits'
  BY <1>1, <1>4 DEF TurnWaits, TurnConsolidates
<1> QED BY <1>3, <1>5, <1>6, <1>7

LEMMA BatchTyped ==
    ASSUME NEW who \in Waiters, NEW o \in Objects, NEW s \in MemorySessions,
           NEW e \in Nat, e <= Len(s.msgs)
    PROVE  /\ Consolidation(who, o, s, e) \in Batches
           /\ Consolidation(who, o, s, e).who = who /\ Consolidation(who, o, s, e).obj = o
           /\ Consolidation(who, o, s, e).end = e
           /\ Consolidation(who, o, s, e).chunk = {s.msgs[i] : i \in s.lc + 1 .. e}
<1> DEFINE c == {s.msgs[i] : i \in s.lc + 1 .. e}
<1>1. \A i \in s.lc + 1 .. e : s.msgs[i] \in Told
  <2>1. s.lc \in Nat /\ Len(s.msgs) \in Nat
    BY SessionFields
  <2>2. \A i \in s.lc + 1 .. e : i \in 1 .. Len(s.msgs)
    BY <2>1
  <2> QED BY <2>2, SessionFields
<1>2. c \in SUBSET Told
  BY <1>1
<1>3. Consolidation(who, o, s, e) = [who |-> who, obj |-> o, end |-> e, chunk |-> c]
  BY DEF Consolidation
<1> HIDE DEF c
<1>4. /\ Consolidation(who, o, s, e) \in Batches
      /\ Consolidation(who, o, s, e).who = who /\ Consolidation(who, o, s, e).obj = o
      /\ Consolidation(who, o, s, e).end = e
      /\ Consolidation(who, o, s, e).chunk = c
  BY <1>2, <1>3 DEF Batches
<1> QED BY <1>4 DEF c

LEMMA BoundaryEnds ==
    ASSUME NEW s \in MemorySessions, NEW i \in Boundaries(s)
    PROVE  i - 1 \in Nat /\ i - 1 <= Len(s.msgs) /\ s.lc <= i - 1
<1>1. s.lc \in Nat /\ Len(s.msgs) \in Nat /\ DOMAIN s.msgs = 1 .. Len(s.msgs)
  BY SessionFields
<1>2. i \in DOMAIN s.msgs /\ i > s.lc + 1
  BY DEF Boundaries
<1> QED BY <1>1, <1>2


LEMMA ReleaseGoesOn ==
    ASSUME MemoryTyped, NEW who \in Waiters, Released(who), talks' = talks,
           who = "turn" => talk.phase = "queued"
    PROVE  /\ TurnGoesOn /\ consolidating' = NoTask /\ archivingIdle' \in BOOLEAN
           /\ who = "turn" => talk'.phase = "ready"
           /\ who # "turn" => talk' = talk
<1>1. /\ consolidating' = NoTask
      /\ talk' = IF who = "turn" THEN [talk EXCEPT !.phase = "ready"] ELSE talk
      /\ archivingIdle' = (archivingIdle /\ who # "idle")
  BY DEF Released
<1>2. archivingIdle' \in BOOLEAN
  BY <1>1 DEF MemoryTyped
<1>3. CASE who = "turn"
  <2>1. /\ talk' \in TalkRecords /\ talk'.phase = "ready" /\ talk'.obj = talk.obj
        /\ talk'.n = talk.n
    BY <1>1, <1>3, TurnFields
  <2> QED BY <1>1, <1>2, <1>3, <2>1 DEF TurnGoesOn
<1>4. CASE who # "turn"
  BY <1>1, <1>2, <1>4 DEF TurnGoesOn, MemoryTyped
<1> QED BY <1>3, <1>4

LEMMA TokensShape ==
    ASSUME MemoryShape, ConsolidateTokens
    PROVE  MemoryShape'
<1> USE DEF MemoryShape
<1> DEFINE who == Head(lockWaiters)
<1>1. /\ consolidating = NoTask /\ lockWaiters # <<>> /\ who # "idle"
      /\ lockWaiters' = Tail(lockWaiters)
      /\ objects' = [objects EXCEPT ![Opened] = OpenedSession] /\ cachedSession' = Opened
      /\ UNCHANGED <<sessionFile, snapshots, talks, deaths, overtaken>>
      /\ \/ Released(who)
         \/ \E i \in Boundaries(OpenedSession) :
               /\ consolidating' = Consolidation(who, Opened, OpenedSession, i - 1)
               /\ UNCHANGED <<talk, archivingIdle>>
  BY DEF ConsolidateTokens, memoryBounds, memoryGhosts
<1>2. /\ who \in Waiters /\ lockWaiters' \in Seq(Waiters) /\ OneTurn(lockWaiters')
      /\ who = "turn" => NoTurn(lockWaiters') /\ talk.phase = "queued"
      /\ NoTurn(lockWaiters) => NoTurn(lockWaiters') /\ who # "turn"
  <2>1. lockWaiters \in Seq(Waiters) /\ OneTurn(lockWaiters)
    BY DEF MemoryTyped, TurnWaits
  <2>2. /\ who \in Waiters /\ lockWaiters' \in Seq(Waiters) /\ OneTurn(lockWaiters')
        /\ who = "turn" => NoTurn(lockWaiters')
        /\ NoTurn(lockWaiters) => NoTurn(lockWaiters') /\ who # "turn"
    BY <1>1, <2>1, QueueTail
  <2>3. who = "turn" => talk.phase = "queued"
    BY <2>2 DEF TurnWaits
  <2> QED BY <2>2, <2>3
<1> HIDE DEF who
<1>3. Opened \in Objects /\ OpenedSession \in MemorySessions
  BY OpenedFacts
<1>4. /\ TurnGoesOn /\ archivingIdle' \in BOOLEAN
      /\ consolidating' # NoTask => consolidating' \in Batches /\ consolidating'.who = who
      /\ TurnConsolidates' => who = "turn" /\ talk' = talk
      /\ talk'.phase # talk.phase => who = "turn" /\ consolidating' = NoTask
  <2>1. CASE Released(who)
    <3>1. /\ TurnGoesOn /\ consolidating' = NoTask /\ archivingIdle' \in BOOLEAN
          /\ who # "turn" => talk' = talk
      BY <1>1, <1>2, <2>1, ReleaseGoesOn
    <3> QED BY <3>1 DEF TurnConsolidates
  <2>2. ASSUME NEW i \in Boundaries(OpenedSession),
               consolidating' = Consolidation(who, Opened, OpenedSession, i - 1),
               UNCHANGED <<talk, archivingIdle>>
        PROVE  /\ TurnGoesOn /\ archivingIdle' \in BOOLEAN
               /\ consolidating' # NoTask => consolidating' \in Batches /\ consolidating'.who = who
               /\ TurnConsolidates' => who = "turn" /\ talk' = talk
               /\ talk'.phase # talk.phase => who = "turn" /\ consolidating' = NoTask
    <3>1. consolidating' \in Batches /\ consolidating'.who = who
      <4>1. i - 1 \in Nat /\ i - 1 <= Len(OpenedSession.msgs)
        BY <1>3, BoundaryEnds
      <4> QED BY <4>1, <1>2, <1>3, <2>2, BatchTyped
    <3>2. TurnGoesOn /\ archivingIdle' \in BOOLEAN
      BY <1>1, <2>2 DEF TurnGoesOn, MemoryTyped
    <3> QED BY <2>2, <3>1, <3>2 DEF TurnConsolidates
  <2> QED BY <1>1, <2>1, <2>2
<1>5. /\ sessionFile' \in MemorySessions /\ objects' \in [Objects -> MemorySessions]
      /\ cachedSession' \in Objects \cup {NoObject} /\ overtaken' \in BOOLEAN
      /\ SessionsFit'
      /\ talk.obj # NoObject => objects'[talk.obj] = objects[talk.obj]
  BY <1>1, <1>4, LatestStay, OpenFits
<1>6. MemoryTyped'
  BY <1>1, <1>2, <1>4, <1>5 DEF MemoryTyped, TurnGoesOn
<1>7. TalkHolds'
  BY <1>4, <1>5, HoldsStay
<1>8. TurnWaits'
  <2>1. talk'.phase # "queued" => NoTurn(lockWaiters') /\ ~TurnConsolidates'
    <3>1. CASE talk.phase = "queued"
      BY <3>1, <1>2, <1>4 DEF TurnConsolidates
    <3>2. CASE talk.phase # "queued"
      BY <3>2, <1>2, <1>4 DEF TurnWaits
    <3> QED BY <3>1, <3>2
  <2> QED BY <2>1, <1>2, <1>4 DEF TurnWaits
<1> QED BY <1>5, <1>6, <1>7, <1>8

LEMMA CompactShape ==
    ASSUME MemoryShape, CompactIdle
    PROVE  MemoryShape'
<1> USE DEF MemoryShape
<1> DEFINE o == NewObject
<1>1. /\ consolidating = NoTask /\ lockWaiters # <<>> /\ Head(lockWaiters) = "idle"
      /\ lockWaiters' = Tail(lockWaiters)
      /\ objects' = [objects EXCEPT ![o] = Loaded] /\ cachedSession' = o
      /\ overtaken' = (overtaken \/ talk.phase # "none")
      /\ UNCHANGED <<sessionFile, snapshots, talks, deaths>>
      /\ \/ Released("idle")
         \/ /\ consolidating' = Consolidation("idle", o, Loaded, Len(Loaded.msgs))
            /\ UNCHANGED <<talk, archivingIdle>>
  BY DEF CompactIdle, memoryBounds
<1>2. /\ lockWaiters' \in Seq(Waiters) /\ OneTurn(lockWaiters')
      /\ NoTurn(lockWaiters) => NoTurn(lockWaiters')
  <2>1. lockWaiters \in Seq(Waiters) /\ OneTurn(lockWaiters)
    BY DEF MemoryTyped, TurnWaits
  <2> QED BY <1>1, <2>1, QueueTail
<1>3. o \in Objects /\ o # talk.obj
  BY <1>1, FreshObject
<1>4. Loaded \in MemorySessions /\ Fits(Loaded, Latest, FALSE) /\ Len(Loaded.msgs) \in Nat
  BY LoadedSession, SessionFields
<1> HIDE DEF o
<1>5. /\ TurnGoesOn /\ archivingIdle' \in BOOLEAN /\ talk' = talk /\ ~TurnConsolidates'
      /\ consolidating' # NoTask => consolidating' \in Batches
  <2>1. CASE Released("idle")
    <3>1. /\ TurnGoesOn /\ consolidating' = NoTask /\ archivingIdle' \in BOOLEAN /\ talk' = talk
      BY <1>1, <2>1, ReleaseGoesOn DEF Waiters
    <3> QED BY <3>1 DEF TurnConsolidates
  <2>2. CASE /\ consolidating' = Consolidation("idle", o, Loaded, Len(Loaded.msgs))
             /\ UNCHANGED <<talk, archivingIdle>>
    <3>1. consolidating' \in Batches /\ consolidating'.who = "idle"
      <4>1. "idle" \in Waiters /\ Len(Loaded.msgs) <= Len(Loaded.msgs)
        BY <1>4 DEF Waiters
      <4> QED BY <4>1, <1>3, <1>4, <2>2, BatchTyped
    <3>2. TurnGoesOn /\ archivingIdle' \in BOOLEAN
      BY <1>1, <2>2 DEF TurnGoesOn, MemoryTyped
    <3> QED BY <2>2, <3>1, <3>2 DEF TurnConsolidates
  <2> QED BY <1>1, <2>1, <2>2
<1>6. Latest \in Nat /\ Latest' \in Nat /\ Latest <= Latest'
  BY <1>5, LatestStay
<1>7. overtaken' \in BOOLEAN /\ (overtaken => overtaken') /\ overtaken \in BOOLEAN
  BY <1>1 DEF MemoryTyped
<1>8. /\ Fits(sessionFile, Latest', overtaken')
      /\ \A p \in Objects : Fits(objects[p], Latest', overtaken')
  BY <1>6, <1>7, SessionsFitStay
<1> DEFINE s == Loaded
<1>9. s \in MemorySessions /\ Fits(s, Latest', overtaken')
  <2>1. FALSE \in BOOLEAN /\ (FALSE => overtaken')
    OBVIOUS
  <2> QED BY <2>1, <1>4, <1>6, <1>7, FitsStay
<1>10. objects \in [Objects -> MemorySessions] /\ objects' = [objects EXCEPT ![o] = s]
  BY <1>1 DEF MemoryTyped
<1> HIDE DEF s
<1>11. /\ objects' \in [Objects -> MemorySessions]
       /\ \A p \in Objects \ {o} : objects'[p] = objects[p]
       /\ \A p \in Objects : Fits(objects'[p], Latest', overtaken')
  BY <1>3, <1>8, <1>9, <1>10
<1>12. SessionsFit'
  BY <1>1, <1>8, <1>11 DEF SessionsFit
<1>13. MemoryTyped'
  BY <1>1, <1>2, <1>3, <1>5, <1>7, <1>11 DEF MemoryTyped, TurnGoesOn
<1>14. TalkHolds'
  <2>1. talk.obj # NoObject => objects'[talk.obj] = objects[talk.obj]
    <3>1. talk.obj \in Objects \cup {NoObject}
      BY TurnFields
    <3> QED BY <3>1, <1>3, <1>11
  <2> QED BY <2>1, <1>5, HoldsStay
<1>15. TurnWaits'
  BY <1>2, <1>5 DEF TurnWaits
<1> QED BY <1>12, <1>13, <1>14, <1>15


\* The session as it is when a batch has been archived.
LEMMA AdvancedFits ==
    ASSUME MemoryShape, Together, consolidating # NoTask, NEW summarized \in BOOLEAN,
           NEW s, s = Advanced(summarized)
    PROVE  /\ consolidating.obj \in Objects /\ consolidating.who \in Waiters
           /\ consolidating.end \in Nat /\ objects[consolidating.obj] \in MemorySessions
           /\ s \in MemorySessions /\ s.msgs = objects[consolidating.obj].msgs
           /\ s.lc = consolidating.end /\ Rising(s.msgs) /\ Below(s.msgs, Latest)
           /\ Len(s.msgs) <= FileCap /\ KeptFrom(s) = 1 /\ Trimmed(s) = s
           /\ overtaken \/ s.lc <= Len(s.msgs)
<1> USE DEF MemoryShape
<1> DEFINE f == objects[consolidating.obj]
           e == consolidating.end
<1>1. consolidating.obj \in Objects /\ consolidating.who \in Waiters /\ e \in Nat
  BY TurnFields
<1>2. f \in MemorySessions /\ Fits(f, Latest, overtaken)
  BY <1>1 DEF MemoryTyped, SessionsFit
<1>3. s = [f EXCEPT !.lc = e]
  BY DEF Advanced
<1>4. ~overtaken => e <= Len(f.msgs)
  <2> SUFFICES ASSUME ~overtaken PROVE e <= Len(f.msgs)
    OBVIOUS
  <2>1. /\ consolidating.obj = cachedSession /\ e <= Len(sessionFile.msgs)
        /\ cachedSession # NoObject => objects[cachedSession] = sessionFile
    BY DEF Together
  <2>2. cachedSession # NoObject
    BY <1>1, <2>1, MemoryAssumption
  <2> QED BY <2>1, <2>2
<1> HIDE DEF f, e
<1>5. s \in MemorySessions /\ s.msgs = f.msgs /\ s.lc = e
  BY <1>1, <1>2, <1>3, AdvancedSession DEF Fits
<1>6. Rising(s.msgs) /\ Below(s.msgs, Latest) /\ Len(s.msgs) <= FileCap
  BY <1>2, <1>5 DEF Fits
<1>7. KeptFrom(s) = 1 /\ Trimmed(s) = s
  BY <1>6, TrimmedWhole
<1>8. overtaken \/ s.lc <= Len(s.msgs)
  BY <1>4, <1>5 DEF MemoryTyped
<1> QED BY <1>1, <1>2, <1>5, <1>6, <1>7, <1>8 DEF f, e

LEMMA ArchiveShape ==
    ASSUME MemoryShape, Together, NEW summarized \in BOOLEAN, ArchiveEnds(summarized)
    PROVE  MemoryShape' /\ TurnGoesOn
<1> USE DEF MemoryShape
<1> DEFINE who == consolidating.who
           o == consolidating.obj
           s == Advanced(summarized)
<1>1. /\ consolidating # NoTask /\ Save(o, s, consolidating.chunk)
      /\ UNCHANGED <<lockWaiters, snapshots, talks, deaths>>
      /\ \/ Released(who)
         \/ /\ who # "idle"
            /\ \E i \in Boundaries(Trimmed(s)) :
                  consolidating' = Consolidation(who, o, Trimmed(s), i - 1)
            /\ UNCHANGED <<talk, archivingIdle>>
  BY DEF ArchiveEnds, memoryBounds
<1>2. /\ o \in Objects /\ who \in Waiters /\ s \in MemorySessions
      /\ s.msgs = objects[o].msgs /\ Rising(s.msgs) /\ Below(s.msgs, Latest)
      /\ Len(s.msgs) <= FileCap /\ Trimmed(s) = s
      /\ overtaken \/ s.lc <= Len(s.msgs)
  BY <1>1, AdvancedFits
<1>3. who = "turn" => TurnConsolidates /\ talk.phase = "queued" /\ NoTurn(lockWaiters)
  BY <1>1 DEF TurnConsolidates, TurnWaits
<1> HIDE DEF who, s
<1>4. /\ TurnGoesOn /\ archivingIdle' \in BOOLEAN
      /\ consolidating' # NoTask => consolidating' \in Batches /\ consolidating'.who = who
      /\ TurnConsolidates' => who = "turn" /\ talk' = talk
      /\ talk'.phase # talk.phase => who = "turn" /\ consolidating' = NoTask
  <2>1. CASE Released(who)
    <3>1. /\ TurnGoesOn /\ consolidating' = NoTask /\ archivingIdle' \in BOOLEAN
          /\ who # "turn" => talk' = talk
      BY <1>1, <1>2, <1>3, <2>1, ReleaseGoesOn
    <3> QED BY <3>1 DEF TurnConsolidates
  <2>2. ASSUME NEW i \in Boundaries(Trimmed(s)),
               consolidating' = Consolidation(who, o, Trimmed(s), i - 1),
               UNCHANGED <<talk, archivingIdle>>
        PROVE  /\ TurnGoesOn /\ archivingIdle' \in BOOLEAN
               /\ consolidating' # NoTask => consolidating' \in Batches /\ consolidating'.who = who
               /\ TurnConsolidates' => who = "turn" /\ talk' = talk
               /\ talk'.phase # talk.phase => who = "turn" /\ consolidating' = NoTask
    <3>1. consolidating' \in Batches /\ consolidating'.who = who
      <4>1. i \in Boundaries(s) /\ consolidating' = Consolidation(who, o, s, i - 1)
        BY <2>2, <1>2
      <4>2. i - 1 \in Nat /\ i - 1 <= Len(s.msgs)
        BY <4>1, <1>2, BoundaryEnds
      <4> QED BY <4>1, <4>2, <1>2, BatchTyped
    <3>2. TurnGoesOn /\ archivingIdle' \in BOOLEAN
      BY <1>1, <2>2 DEF TurnGoesOn, MemoryTyped
    <3> QED BY <2>2, <3>1, <3>2 DEF TurnConsolidates
  <2> QED BY <1>1, <2>1, <2>2
<1>5. Latest' = Latest /\ Latest \in Nat /\ Latest' \in Nat /\ Latest <= Latest'
  BY <1>4, LatestStay
<1>6. /\ sessionFile' \in MemorySessions /\ objects' \in [Objects -> MemorySessions]
      /\ cachedSession' \in Objects \cup {NoObject} /\ overtaken' \in BOOLEAN
      /\ SessionsFit' /\ \A p \in Objects \ {o} : objects'[p] = objects[p]
      /\ OpenEnd(objects'[o].msgs) <=> OpenEnd(s.msgs)
  <2>1. Below(s.msgs, Latest')
    BY <1>2, <1>5
  <2> QED BY <2>1, <1>1, <1>2, <1>5, SaveFits
<1>7. MemoryTyped'
  BY <1>1, <1>4, <1>6 DEF MemoryTyped, TurnGoesOn
<1>8. TalkHolds'
  <2>1. talk.obj # NoObject => (OpenEnd(objects'[talk.obj].msgs) <=> OpenEnd(objects[talk.obj].msgs))
    <3>1. talk.obj \in Objects \cup {NoObject}
      BY TurnFields
    <3> QED BY <3>1, <1>2, <1>6
  <2> QED BY <2>1, <1>4, HoldsStay
<1>9. TurnWaits'
  <2>1. OneTurn(lockWaiters') /\ lockWaiters' = lockWaiters
    BY <1>1 DEF TurnWaits
  <2>2. talk'.phase # "queued" => NoTurn(lockWaiters') /\ ~TurnConsolidates'
    <3>1. CASE talk.phase = "queued"
      <4> SUFFICES ASSUME talk'.phase # "queued"
                   PROVE  NoTurn(lockWaiters') /\ ~TurnConsolidates'
        OBVIOUS
      <4>1. who = "turn" /\ consolidating' = NoTask
        BY <3>1, <1>4
      <4> QED BY <4>1, <2>1, <1>3 DEF TurnConsolidates
    <3>2. CASE talk.phase # "queued"
      BY <3>2, <2>1, <1>3, <1>4 DEF TurnWaits
    <3> QED BY <3>1, <3>2
  <2>3. TurnConsolidates' => NoTurn(lockWaiters')
    BY <2>1, <1>3, <1>4
  <2> QED BY <2>1, <2>2, <2>3 DEF TurnWaits
<1> QED BY <1>4, <1>6, <1>7, <1>8, <1>9

LEMMA DieShape ==
    ASSUME MemoryShape, Die
    PROVE  MemoryShape'
<1> USE DEF MemoryShape
<1>1. /\ deaths' = deaths + 1
      /\ cachedSession' = NoObject /\ objects' = [o \in Objects |-> EmptySession]
      /\ talk' = NoTalk /\ consolidating' = NoTask
      /\ lockWaiters' = <<>> /\ archivingIdle' = FALSE /\ snapshots' = {}
      /\ UNCHANGED <<sessionFile, talks, overtaken>>
  BY DEF Die
<1>2. talk' \in TalkRecords /\ talk'.phase = "none" /\ TalkHolds'
  BY <1>1, NoTurnHolds
<1>3. Latest \in Nat /\ Latest' \in Nat /\ Latest <= Latest'
  <2>1. Latest \in Nat /\ Latest <= 2 * talks /\ talks \in Nat
    BY LatestNumber
  <2>2. Latest' = 2 * talks
    BY <1>1, <1>2 DEF Latest
  <2> QED BY <2>1, <2>2
<1>4. EmptySession \in MemorySessions /\ Fits(EmptySession, Latest', overtaken')
  <2>1. <<>> \in Seq(Told) /\ Len(<<>>) = 0
    OBVIOUS
  <2>2. EmptySession \in MemorySessions /\ EmptySession.msgs = <<>> /\ EmptySession.lc = 0
    BY <2>1 DEF EmptySession, MemorySessions
  <2>3. FileCap \in Nat /\ Len(EmptySession.msgs) = 0 /\ EmptySession.lc = 0
    BY <2>1, <2>2, MemoryAssumption
  <2> QED BY <2>2, <2>3 DEF Fits, Rising, Below
<1> DEFINE e == EmptySession
<1>5. Fits(sessionFile, Latest', overtaken') /\ overtaken' \in BOOLEAN
  BY <1>1, <1>3, SessionsFitStay DEF MemoryTyped
<1>6. /\ objects' \in [Objects -> MemorySessions]
      /\ \A o \in Objects : Fits(objects'[o], Latest', overtaken')
  <2>1. e \in MemorySessions /\ Fits(e, Latest', overtaken') /\ objects' = [o \in Objects |-> e]
    BY <1>1, <1>4
  <2> HIDE DEF e
  <2> QED BY <2>1
<1>7. SessionsFit'
  BY <1>1, <1>5, <1>6 DEF SessionsFit
<1>8. lockWaiters' \in Seq(Waiters) /\ OneTurn(lockWaiters') /\ NoTurn(lockWaiters')
  BY <1>1 DEF OneTurn, NoTurn
<1>9. deaths' \in Nat
  BY <1>1 DEF MemoryTyped
<1>10. MemoryTyped'
  BY <1>1, <1>2, <1>5, <1>6, <1>8, <1>9 DEF MemoryTyped
<1>11. TurnWaits'
  BY <1>1, <1>8 DEF TurnWaits, TurnConsolidates
<1> QED BY <1>2, <1>7, <1>10, <1>11


-----------------------------------------------------------------------------
(* Memory: every step accounts for the messages *)

Known == archived \cup UNION snapshots
LaterThanKnown(x) == \A z \in Known : z < x

LEMMA SaveAccounts ==
    ASSUME ~overtaken, Accounted, NEW o, NEW s \in MemorySessions, NEW arch, Rising(s.msgs),
           Save(o, s, arch), snapshots' = snapshots, abandoned' = abandoned,
           Unarchived(sessionFile) \subseteq Unarchived(s) \cup arch,
           Elements(s.msgs) \ Unarchived(s) \subseteq archived \cup arch
    PROVE  Accounted'
<1> DEFINE t == Trimmed(s)
<1>1. Elements(t.msgs) \subseteq Elements(s.msgs) /\ Unarchived(t) = Unarchived(s) \cap Elements(t.msgs)
  BY Trimming
<1>2. /\ sessionFile' = t /\ saved' = saved \cup Elements(t.msgs)
      /\ archived' = archived \cup arch \cup (Unarchived(s) \ Elements(t.msgs))
  BY DEF Save, Archives, DroppedRaw
<1>3. /\ Elements(sessionFile.msgs) \ Unarchived(sessionFile) \subseteq archived
      /\ saved \subseteq archived \cup abandoned \cup (UNION snapshots) \cup Unarchived(sessionFile)
  BY DEF Accounted
<1> DEFINE E == Elements(t.msgs)
           U == Unarchived(t)
           V == Unarchived(s)
           W == Unarchived(sessionFile)
           A == UNION snapshots
<1>4. Elements(sessionFile.msgs)' = E /\ Unarchived(sessionFile)' = U /\ (UNION snapshots)' = A
  <2>1. sessionFile' = t
    BY <1>2
  <2>2. (UNION snapshots)' = UNION snapshots'
    OBVIOUS
  <2> HIDE DEF t
  <2> QED BY <2>1, <2>2
<1>5. /\ U = V \cap E /\ W \subseteq V \cup arch /\ E \ V \subseteq archived \cup arch
      /\ saved \subseteq archived \cup abandoned \cup A \cup W
      /\ saved' = saved \cup E /\ archived' = archived \cup arch \cup (V \ E)
  <2>1. U = V \cap E /\ W \subseteq V \cup arch
    BY <1>1
  <2>2. saved \subseteq archived \cup abandoned \cup A \cup W
    BY <1>3
  <2>3. saved' = saved \cup E /\ archived' = archived \cup arch \cup (V \ E)
    BY <1>2
  <2>4. E \subseteq Elements(s.msgs) /\ Elements(s.msgs) \ V \subseteq archived \cup arch
    BY <1>1
  <2> HIDE DEF E, U, V, W, A, t
  <2>5. E \ V \subseteq archived \cup arch
    BY <2>4
  <2> QED BY <2>1, <2>2, <2>3, <2>5
<1> HIDE DEF E, U, V, W, A, t
<1>6. E \ U \subseteq archived'
  BY <1>5
<1>7. saved' \subseteq archived' \cup abandoned \cup A \cup U
  <2> SUFFICES ASSUME NEW y \in saved' PROVE y \in archived' \cup abandoned \cup A \cup U
    OBVIOUS
  <2>1. CASE y \in saved
    BY <2>1, <1>5
  <2>2. CASE y \in E
    BY <2>2, <1>5
  <2> QED BY <2>1, <2>2, <1>5
<1>8. /\ (Elements(sessionFile.msgs) \ Unarchived(sessionFile))' \subseteq archived'
      /\ saved' \subseteq archived' \cup abandoned' \cup (UNION snapshots)' \cup Unarchived(sessionFile)'
  BY <1>4, <1>6, <1>7
<1> QED BY <1>8 DEF Accounted

LEMMA SaveApart ==
    ASSUME ~overtaken, deaths = 0, deaths' = deaths, Apart, MemoryTyped, SessionsFit,
           NEW o, NEW s \in MemorySessions, NEW arch, Rising(s.msgs), Save(o, s, arch),
           snapshots' = snapshots, Latest \in Nat, Latest' \in Nat, Latest <= Latest',
           Below(s.msgs, Latest'), arch \subseteq Unarchived(sessionFile),
           Unarchived(s) \cap arch = {},
           \A y \in Unarchived(s) : y \in Unarchived(sessionFile) \/ LaterThanKnown(y),
           \A y \in Elements(s.msgs) : y \in Elements(sessionFile.msgs) \/ LaterThanKnown(y),
           Len(sessionFile.msgs) # 0 /\ Len(s.msgs) # 0 =>
              sessionFile.msgs[Len(sessionFile.msgs)] <= s.msgs[Len(s.msgs)],
           arch \subseteq Elements(s.msgs)
    PROVE  Apart'
<1> DEFINE t == Trimmed(s)
           f == sessionFile
           dropped == Unarchived(s) \ Elements(t.msgs)
<1>1. /\ Elements(t.msgs) \subseteq Elements(s.msgs) /\ t \in MemorySessions
      /\ Unarchived(t) = Unarchived(s) \cap Elements(t.msgs)
      /\ Len(s.msgs) # 0 => t.msgs[Len(t.msgs)] = s.msgs[Len(s.msgs)]
  BY Trimming
<1>2. /\ sessionFile' = t /\ archived' = archived \cup arch \cup dropped
      /\ archivedAgain' = archivedAgain \cup ((arch \cup dropped) \cap archived)
  BY DEF Save, Archives, DroppedRaw
<1>3. /\ archivedAgain = {} /\ Unarchived(f) \cap archived = {}
      /\ \A c \in snapshots : c \cap archived = {} /\ c \cap Elements(f.msgs) = {}
      /\ \A c, d \in snapshots : c # d => c \cap d = {}
      /\ \A x \in Known : x \in Nat /\ x <= Latest /\ (Len(f.msgs) # 0 => x <= f.msgs[Len(f.msgs)])
  BY DEF Apart, Known
<1>4. /\ f \in MemorySessions /\ s.msgs \in Seq(Told) /\ f.msgs \in Seq(Told)
      /\ Len(s.msgs) \in Nat /\ Len(f.msgs) \in Nat /\ t.msgs \in Seq(Told)
  BY <1>1, SessionFields DEF MemoryTyped
<1>5. /\ Unarchived(s) \subseteq Elements(s.msgs) /\ Unarchived(f) \subseteq Elements(f.msgs)
  BY DEF Unarchived, Elements
<1>6. \A y \in Elements(s.msgs) : y \in Nat /\ y <= Latest'
  <2> SUFFICES ASSUME NEW y \in Elements(s.msgs) PROVE y \in Nat /\ y <= Latest'
    OBVIOUS
  <2>1. PICK i \in 1 .. Len(s.msgs) : y = s.msgs[i]
    BY <1>4, InElements
  <2> QED BY <2>1, SessionFields DEF Below
<1> HIDE DEF t, f
<1>7. \A y \in Unarchived(s) : y \notin archived
  <2> SUFFICES ASSUME NEW y \in Unarchived(s), y \in archived PROVE FALSE
    OBVIOUS
  <2>1. y \in Known /\ y \in Nat
    BY <1>5, <1>6 DEF Known
  <2>2. ~LaterThanKnown(y)
    BY <2>1 DEF LaterThanKnown
  <2> QED BY <2>2, <1>3 DEF f
<1>8. \A c \in snapshots : c \cap Elements(s.msgs) = {}
  <2> SUFFICES ASSUME NEW c \in snapshots, NEW y \in c, y \in Elements(s.msgs) PROVE FALSE
    OBVIOUS
  <2>1. y \in Known /\ y \in Nat
    BY <1>6 DEF Known
  <2>2. ~LaterThanKnown(y)
    BY <2>1 DEF LaterThanKnown
  <2> QED BY <2>2, <1>3 DEF f
<1>9. archivedAgain' = {}
  <2>1. arch \cap archived = {}
    BY <1>3 DEF f
  <2>2. dropped \cap archived = {}
    BY <1>7
  <2> HIDE DEF dropped
  <2> QED BY <2>1, <2>2, <1>2, <1>3
<1>10. Unarchived(t) \cap archived' = {}
  <2>1. \A y \in Unarchived(t) : y \in Unarchived(s) /\ y \in Elements(t.msgs)
    BY <1>1
  <2>2. \A y \in archived' : y \in archived \/ y \in arch \/ y \notin Elements(t.msgs)
    BY <1>2
  <2> QED BY <2>1, <2>2, <1>7
<1>11. \A c \in snapshots : c \cap archived' = {} /\ c \cap Elements(t.msgs) = {}
  <2> SUFFICES ASSUME NEW c \in snapshots
               PROVE  c \cap archived' = {} /\ c \cap Elements(t.msgs) = {}
    OBVIOUS
  <2>1. c \cap Elements(s.msgs) = {} /\ c \cap archived = {}
    BY <1>3, <1>8
  <2>2. \A y \in archived' : y \in archived \/ y \in Elements(s.msgs)
    BY <1>2, <1>5
  <2> QED BY <2>1, <2>2, <1>1
<1>12. \A x \in archived' \cup UNION snapshots :
          x \in Nat /\ x <= Latest' /\ (Len(t.msgs) # 0 => x <= t.msgs[Len(t.msgs)])
  <2> SUFFICES ASSUME NEW x \in archived' \cup UNION snapshots
               PROVE  x \in Nat /\ x <= Latest' /\ (Len(t.msgs) # 0 => x <= t.msgs[Len(t.msgs)])
    OBVIOUS
  <2>1. x \in Known \/ x \in Elements(s.msgs)
    BY <1>2, <1>5 DEF Known
  <2>2. x \in Nat /\ x <= Latest'
    BY <2>1, <1>3, <1>6
  <2>3. ASSUME Len(t.msgs) # 0 PROVE x <= t.msgs[Len(t.msgs)]
    <3>1. Len(s.msgs) # 0
      <4>1. 1 \in 1 .. Len(t.msgs)
        BY <2>3, <1>4
      <4>2. t.msgs[1] \in Elements(s.msgs)
        BY <4>1, <1>1, <1>4, InElements
      <4>3. \E i \in 1 .. Len(s.msgs) : t.msgs[1] = s.msgs[i]
        BY <4>2, <1>4, InElements
      <4> QED BY <4>3, <1>4
    <3> DEFINE l == s.msgs[Len(s.msgs)]
    <3>2. l \in Elements(s.msgs) /\ l \in Nat /\ t.msgs[Len(t.msgs)] = l
      <4>1. Len(s.msgs) \in 1 .. Len(s.msgs)
        BY <3>1, <1>4
      <4>2. l \in Elements(s.msgs)
        BY <4>1, <1>4, InElements
      <4> QED BY <4>2, <3>1, <1>1, <1>6
    <3>3. CASE x \in Elements(s.msgs)
      BY <3>2, <3>3, <1>4, LastIsLatest
    <3>4. CASE x \in Known
      <4>1. CASE Len(f.msgs) # 0
        <5> DEFINE k == f.msgs[Len(f.msgs)]
        <5>1. x <= k /\ k <= l /\ x \in Nat
          BY <3>1, <3>4, <4>1, <1>3 DEF f
        <5>2. k \in Nat
          <6>1. Len(f.msgs) \in 1 .. Len(f.msgs)
            BY <4>1, <1>4
          <6> QED BY <6>1, <1>4, SessionFields
        <5> HIDE DEF k, l
        <5> QED BY <5>1, <5>2, <3>2
      <4>2. CASE Len(f.msgs) = 0
        <5>1. l \notin Elements(f.msgs)
          <6>1. \A i \in 1 .. Len(f.msgs) : FALSE
            BY <4>2
          <6> QED BY <6>1, <1>4, InElements
        <5>2. LaterThanKnown(l)
          BY <5>1, <3>2 DEF f
        <5>3. x < l
          BY <5>2, <3>4 DEF LaterThanKnown
        <5> HIDE DEF l
        <5> QED BY <5>3, <2>2, <3>2
      <4> QED BY <4>1, <4>2
    <3> QED BY <2>1, <3>3, <3>4
  <2> QED BY <2>2, <2>3
<1>13. Unarchived(sessionFile)' = Unarchived(t) /\ sessionFile' = t
  BY <1>2
<1> QED BY <1>3, <1>9, <1>10, <1>11, <1>12, <1>13 DEF Apart


LEMMA HeldIsFile ==
    ASSUME MemoryShape, Together, ~overtaken
    PROVE  /\ OpenedSession = sessionFile
           /\ talk.obj # NoObject => talk.obj = cachedSession /\ objects[talk.obj] = sessionFile
           /\ consolidating # NoTask =>
                 /\ consolidating.obj = cachedSession /\ cachedSession # NoObject
                 /\ objects[consolidating.obj] = sessionFile
<1>1. consolidating # NoTask => consolidating.obj \in Objects
  BY TurnFields DEF MemoryShape
<1>2. consolidating # NoTask => consolidating.obj # NoObject
  BY <1>1, MemoryAssumption
<1> QED BY <1>2, OpenedFacts DEF MemoryShape, Together

\* A message added to the session that is on file.
LEMMA AddedKeeps ==
    ASSUME MemoryInv, ~overtaken', NEW o \in Objects, NEW s \in MemorySessions, NEW x \in Told,
           Save(o, s, {}), Rising(s.msgs), Grows(sessionFile, x, s), cachedSession # NoObject => o = cachedSession,
           Follows(sessionFile.msgs, x),
           Len(sessionFile.msgs) # 0 \/ Latest < x,
           Latest \in Nat, Latest' \in Nat, Latest <= Latest', Below(s.msgs, Latest'),
           snapshots' = snapshots, abandoned' = abandoned, deaths' = deaths,
           consolidating' \in {NoTask, consolidating}, talk'.obj \in {NoObject, o}
    PROVE  Together' /\ Accounted' /\ Apart'
<1> DEFINE f == sessionFile
<1>0. ~overtaken /\ ~CutUnder(o, s)
  BY DEF Save
<1>1. /\ f \in MemorySessions /\ Rising(f.msgs) /\ Below(f.msgs, Latest)
      /\ f.lc <= Len(f.msgs) /\ f.lc \in Nat
      /\ f.msgs \in Seq(Told) /\ Len(f.msgs) \in Nat /\ MemoryTyped /\ SessionsFit
  BY <1>0, SessionFields DEF MemoryInv, MemoryShape, MemoryTyped, SessionsFit, Fits
<1>21. /\ s.lc = f.lc /\ s.msgs = Append(f.msgs, x)
  BY DEF Grows
<1>22. Grows(f, x, s) /\ Follows(f.msgs, x)
  OBVIOUS
<1>2. /\ Elements(s.msgs) = Elements(f.msgs) \cup {x} /\ Unarchived(s) = Unarchived(f) \cup {x}
      /\ Len(s.msgs) = Len(f.msgs) + 1 /\ s.msgs[Len(s.msgs)] = x
  <2> HIDE DEF f
  <2> QED BY <1>1, <1>22, AppendedSession
<1>3. \A i \in 1 .. Len(f.msgs) : s.msgs[i] = f.msgs[i]
  BY <1>1, <1>21
<1>4. ASSUME deaths = 0 PROVE LaterThanKnown(x)
  <2> SUFFICES ASSUME NEW z \in Known PROVE z < x
    BY DEF LaterThanKnown
  <2>1. x \in Nat
    BY ToldNumbers
  <2>2. z \in Nat /\ z <= Latest /\ (Len(f.msgs) # 0 => z <= f.msgs[Len(f.msgs)])
    BY <1>0, <1>4 DEF MemoryInv, Apart, Known
  <2>3. Len(f.msgs) # 0 => f.msgs[Len(f.msgs)] \in Nat
    <3>1. Len(f.msgs) # 0 => Len(f.msgs) \in 1 .. Len(f.msgs)
      BY <1>1
    <3> QED BY <3>1, <1>1, SessionFields
  <2> DEFINE l == f.msgs[Len(f.msgs)]
  <2>4. (Len(f.msgs) # 0 => l < x) /\ (Len(f.msgs) # 0 \/ Latest < x)
    BY DEF Follows
  <2> HIDE DEF l
  <2>5. (Len(f.msgs) # 0 => l \in Nat /\ z <= l)
    BY <2>2, <2>3 DEF l
  <2> QED BY <2>1, <2>2, <2>4, <2>5
<1>5. Accounted'
  <2>1. Accounted
    BY DEF MemoryInv
  <2>2. Unarchived(sessionFile) \subseteq Unarchived(s) \cup {}
    BY <1>2
  <2>3. Elements(s.msgs) \ Unarchived(s) \subseteq archived \cup {}
    <3>1. Elements(f.msgs) \ Unarchived(f) \subseteq archived
      BY <1>0 DEF MemoryInv, Accounted
    <3> QED BY <3>1, <1>2
  <2> QED BY <2>1, <2>2, <2>3, <1>0, SaveAccounts
<1>6. Apart'
  <2>1. CASE deaths # 0
    BY <2>1 DEF Apart
  <2>2. CASE deaths = 0
    <3>1. Apart /\ deaths' = deaths
      BY DEF MemoryInv
    <3>2. LaterThanKnown(x)
      BY <1>4, <2>2
    <3>3. \A y \in Unarchived(s) : y \in Unarchived(sessionFile) \/ LaterThanKnown(y)
      BY <1>2, <3>2
    <3>4. \A y \in Elements(s.msgs) : y \in Elements(sessionFile.msgs) \/ LaterThanKnown(y)
      BY <1>2, <3>2
    <3>5. Len(sessionFile.msgs) # 0 /\ Len(s.msgs) # 0 =>
             sessionFile.msgs[Len(sessionFile.msgs)] <= s.msgs[Len(s.msgs)]
      <4> DEFINE l == sessionFile.msgs[Len(sessionFile.msgs)]
      <4>1. Len(f.msgs) # 0 => l \in Nat /\ l < x
        <5>1. Len(f.msgs) # 0 => Len(f.msgs) \in 1 .. Len(f.msgs)
          BY <1>1
        <5> QED BY <5>1, <1>1, SessionFields DEF Follows
      <4>2. s.msgs[Len(s.msgs)] = x /\ x \in Nat
        BY <1>2, ToldNumbers
      <4> HIDE DEF l
      <4>3. Len(f.msgs) # 0 => l <= s.msgs[Len(s.msgs)]
        BY <4>1, <4>2
      <4> QED BY <4>3 DEF l
    <3> DEFINE arch == {}
    <3>6. /\ arch \subseteq Unarchived(sessionFile) /\ Unarchived(s) \cap arch = {}
          /\ arch \subseteq Elements(s.msgs) /\ Save(o, s, arch)
      OBVIOUS
    <3> HIDE DEF arch, f
    <3> QED BY <3>1, <3>3, <3>4, <3>5, <3>6, <1>0, <1>1, <2>2, SaveApart
  <2> QED BY <2>1, <2>2
<1>7. Together'
  <2> DEFINE t == Trimmed(s)
  <2>1. /\ sessionFile' = t /\ cachedSession' = o /\ objects' = [objects EXCEPT ![o] = t]
    BY DEF Save
  <2>2. objects'[o] = sessionFile'
    <3> HIDE DEF t
    <3>1. objects \in [Objects -> MemorySessions]
      BY <1>1 DEF MemoryTyped
    <3> QED BY <2>1, <3>1
  <2>3. ASSUME consolidating' # NoTask
        PROVE  /\ consolidating'.obj = o
               /\ s.lc <= consolidating'.end /\ consolidating'.end <= Len(s.msgs)
               /\ consolidating'.chunk = {s.msgs[i] : i \in s.lc + 1 .. consolidating'.end}
               /\ sessionFile' = s
    <3> DEFINE e == consolidating.end
    <3>1. /\ consolidating' = consolidating /\ consolidating # NoTask
          /\ consolidating.obj = o /\ f.lc <= e /\ e <= Len(f.msgs) /\ e \in Nat
          /\ consolidating.chunk = {f.msgs[i] : i \in f.lc + 1 .. e}
      <4>1. consolidating' = consolidating /\ consolidating # NoTask
        BY <2>3
      <4>2. /\ consolidating.obj = o
        BY <4>1, <1>0, HeldIsFile DEF MemoryInv
      <4>3. e \in Nat
        BY <4>1, <1>1, TurnFields
      <4> QED BY <4>1, <4>2, <4>3, <1>0 DEF MemoryInv, Together
    <3>2. ~(KeptFrom(s) > 1)
      BY <1>0, <3>1 DEF CutUnder
    <3>3. Len(s.msgs) <= FileCap
      <4>1. FileCap \in Nat /\ Len(s.msgs) \in Nat
        BY MemoryAssumption, SessionFields
      <4>2. ASSUME Len(s.msgs) > FileCap PROVE FALSE
        <5>1. KeptFrom(s) \in Len(s.msgs) - FileCap + 1 .. Len(s.msgs)
          BY <4>2, CutAtUsers
        <5> QED BY <5>1, <4>1, <4>2, <3>2
      <4> QED BY <4>1, <4>2
    <3>4. t = s
      BY <3>3, TrimmedWhole
    <3>5. f.lc + 1 .. e \subseteq 1 .. Len(f.msgs)
      BY <3>1, <1>1
    <3>6. consolidating.chunk = {s.msgs[i] : i \in s.lc + 1 .. e}
      <4>1. \A i \in f.lc + 1 .. e : s.msgs[i] = f.msgs[i]
        BY <3>5, <1>3
      <4>2. {f.msgs[i] : i \in f.lc + 1 .. e} = {s.msgs[i] : i \in f.lc + 1 .. e}
        BY <4>1
      <4> QED BY <4>2, <3>1, <1>21
    <3>7. e <= Len(s.msgs)
      BY <3>1, <1>1, <1>2
    <3> QED BY <3>1, <3>4, <3>6, <3>7, <2>1, <1>21
  <2> HIDE DEF t
  <2> QED BY <2>1, <2>2, <2>3 DEF Together
<1> QED BY <1>5, <1>6, <1>7


LEMMA FileStays ==
    ASSUME MemoryInv, overtaken => overtaken', Latest \in Nat, Latest' \in Nat, Latest <= Latest',
           sessionFile' = sessionFile, snapshots' = snapshots, saved' = saved,
           abandoned' = abandoned, archived' = archived, archivedAgain' = archivedAgain,
           deaths' = deaths
    PROVE  Accounted' /\ Apart'
<1>1. Unarchived(sessionFile)' = Unarchived(sessionFile)
      /\ Elements(sessionFile.msgs)' = Elements(sessionFile.msgs)
      /\ (UNION snapshots)' = UNION snapshots
  OBVIOUS
<1>2. Accounted'
  BY <1>1 DEF MemoryInv, Accounted
<1>3. ASSUME ~overtaken', deaths' = 0
      PROVE  \A x \in archived' \cup UNION snapshots' :
                /\ x \in Nat /\ x <= Latest'
                /\ Len(sessionFile'.msgs) # 0 => x <= sessionFile'.msgs[Len(sessionFile'.msgs)]
  <2> SUFFICES ASSUME NEW x \in archived \cup UNION snapshots
               PROVE /\ x \in Nat /\ x <= Latest'
                     /\ Len(sessionFile.msgs) # 0 => x <= sessionFile.msgs[Len(sessionFile.msgs)]
    OBVIOUS
  <2>1. /\ x \in Nat /\ x <= Latest
        /\ Len(sessionFile.msgs) # 0 => x <= sessionFile.msgs[Len(sessionFile.msgs)]
    BY <1>3 DEF MemoryInv, Apart
  <2> QED BY <2>1
<1>4. Apart'
  BY <1>1, <1>3 DEF MemoryInv, Apart
<1> QED BY <1>2, <1>4

\* Batch b is what object o has on file up to the batch's end.
BatchOf(b, o, f) ==
    /\ b.obj = o /\ f.lc <= b.end /\ b.end <= Len(f.msgs)
    /\ b.chunk = {f.msgs[i] : i \in f.lc + 1 .. b.end}

LEMMA OpenTogether ==
    ASSUME MemoryShape, Together, ~overtaken, sessionFile' = sessionFile,
           objects' = [objects EXCEPT ![Opened] = OpenedSession], cachedSession' = Opened,
           talk'.obj \in {NoObject, talk.obj, Opened},
           \/ consolidating' \in {NoTask, consolidating}
           \/ BatchOf(consolidating', Opened, sessionFile)
    PROVE  Together'
<1>1. Opened \in Objects /\ OpenedSession = sessionFile /\ OpenedSession \in MemorySessions
  BY OpenedFacts, HeldIsFile DEF MemoryShape
<1>2. cachedSession # NoObject => Opened = cachedSession
  BY DEF Opened
<1>3. objects'[Opened] = sessionFile
  <2> DEFINE s == OpenedSession
             o == Opened
  <2>1. objects \in [Objects -> MemorySessions] /\ objects' = [objects EXCEPT ![o] = s]
    BY DEF MemoryShape, MemoryTyped
  <2>2. o \in Objects /\ s \in MemorySessions /\ s = sessionFile
    BY <1>1
  <2> HIDE DEF o, s
  <2>3. objects'[o] = s
    BY <2>1, <2>2
  <2> QED BY <2>2, <2>3 DEF o
<1>4. talk'.obj \in {NoObject, Opened}
  BY <1>2, HeldIsFile
<1>5. consolidating' # NoTask => BatchOf(consolidating', Opened, sessionFile)
  <2>1. consolidating # NoTask => BatchOf(consolidating, Opened, sessionFile)
    BY <1>2, HeldIsFile DEF Together, BatchOf
  <2> QED BY <2>1
<1> QED BY <1>3, <1>4, <1>5 DEF Together, BatchOf

LEMMA ClosedKeeps ==
    ASSUME MemoryInv, ~overtaken', Save(Opened, ClosedSession(OpenedSession), {}),
           OpenEnd(OpenedSession.msgs),
           Latest' = 2 * talks, talks \in Nat, talks <= MaxTalks, Latest \in Nat, Latest <= 2 * talks,
           snapshots' = snapshots, abandoned' = abandoned, deaths' = deaths,
           consolidating' \in {NoTask, consolidating}, talk'.obj \in {NoObject, Opened}
    PROVE  Together' /\ Accounted' /\ Apart'
<1> DEFINE f == sessionFile
           s == ClosedSession(f)
           x == f.msgs[Len(f.msgs)] + 1
           top == 2 * talks
<1>1. ~overtaken /\ MemoryShape /\ MemoryTyped /\ SessionsFit
  BY DEF Save, MemoryInv, MemoryShape
<1>2. OpenedSession = f /\ Opened \in Objects /\ (cachedSession # NoObject => Opened = cachedSession)
  BY <1>1, OpenedFacts, HeldIsFile DEF MemoryInv
<1>3. f \in MemorySessions /\ Fits(f, Latest, overtaken)
  BY <1>1 DEF MemoryTyped, SessionsFit
<1>4. top \in Nat /\ Latest <= top /\ overtaken \in BOOLEAN /\ Latest' = top /\ Latest' \in Nat
  BY <1>1 DEF MemoryTyped
<1>5. Rising(f.msgs) /\ Below(f.msgs, 2 * talks)
  <2>1. Fits(f, top, overtaken)
    <3> HIDE DEF top, f
    <3> QED BY <1>3, <1>4, FitsStay
  <2> QED BY <2>1 DEF Fits
<1>6. OpenEnd(f.msgs) /\ Save(Opened, s, {})
  BY <1>2
<1> HIDE DEF f
<1>7. /\ x \in Told /\ Grows(f, x, s) /\ Follows(f.msgs, x) /\ s \in MemorySessions
      /\ Rising(s.msgs) /\ Below(s.msgs, 2 * talks)
  BY <1>3, <1>5, <1>6, ClosedFits
<1>8. Len(f.msgs) # 0
  BY <1>6 DEF OpenEnd
<1> HIDE DEF s, x, top
<1>9. Below(s.msgs, Latest') /\ Latest <= Latest'
  BY <1>7, <1>4 DEF top
<1>10. /\ Grows(sessionFile, x, s) /\ Follows(sessionFile.msgs, x)
       /\ Len(sessionFile.msgs) # 0 \/ Latest < x
  BY <1>7, <1>8 DEF f
<1> QED BY ONLY MemoryInv, ~overtaken', snapshots' = snapshots, abandoned' = abandoned, deaths' = deaths,
            consolidating' \in {NoTask, consolidating}, talk'.obj \in {NoObject, Opened},
            Latest \in Nat, <1>2, <1>4, <1>6, <1>7, <1>9, <1>10, AddedKeeps

LEMMA StartKeeps ==
    ASSUME MemoryInv, NEW kind \in TalkKinds, StartTalk(kind), ~overtaken'
    PROVE  Together' /\ Accounted' /\ Apart'
<1> DEFINE s == ClosedSession(OpenedSession)
<1>1. MemoryShape /\ MemoryTyped /\ SessionsFit /\ TalkHolds /\ Together
  BY DEF MemoryInv, MemoryShape
<1>2. /\ talk.phase = "none" /\ talks' = talks + 1 /\ deaths' = deaths
      /\ talk' = [phase |-> "queued", kind |-> kind, obj |-> Opened, n |-> talks + 1]
      /\ UNCHANGED <<consolidating, snapshots, abandoned>>
      /\ IF s # OpenedSession THEN Save(Opened, s, {})
         ELSE /\ objects' = [objects EXCEPT ![Opened] = OpenedSession] /\ cachedSession' = Opened
              /\ UNCHANGED <<sessionFile, archived, archivedAgain, saved, overtaken>>
  BY DEF StartTalk
<1>3. talk'.phase = "queued" /\ talk'.obj = Opened
  BY <1>2
<1>4. /\ talks \in Nat /\ talks <= MaxTalks /\ Latest = 2 * talks /\ Latest \in Nat
      /\ Latest <= 2 * talks /\ Latest' = 2 * talks /\ Latest' \in Nat /\ Latest <= Latest'
  <2>1. talks \in Nat /\ Latest = 2 * talks /\ talks <= MaxTalks /\ Latest \in Nat
    BY <1>1, <1>2, LatestNumber
  <2>2. Latest' = 2 * talks' - 2
    BY <1>3 DEF Latest
  <2> QED BY <2>1, <2>2, <1>2
<1>5. OpenedSession \in MemorySessions /\ Rising(OpenedSession.msgs) /\ Below(OpenedSession.msgs, 2 * talks)
  BY <1>1, <1>4, OpenedFacts DEF Fits
<1>6. /\ OpenEnd(OpenedSession.msgs) => s # OpenedSession
      /\ ~OpenEnd(OpenedSession.msgs) => s = OpenedSession
  BY <1>4, <1>5, ClosedFits
<1> HIDE DEF s
<1>7. CASE OpenEnd(OpenedSession.msgs)
  <2>1. Save(Opened, s, {})
    BY <1>2, <1>6, <1>7
  <2> QED BY <1>2, <1>3, <1>4, <1>7, <2>1, ClosedKeeps DEF s
<1>8. CASE ~OpenEnd(OpenedSession.msgs)
  <2>1. /\ objects' = [objects EXCEPT ![Opened] = OpenedSession] /\ cachedSession' = Opened
        /\ UNCHANGED <<sessionFile, archived, archivedAgain, saved, overtaken>>
    BY <1>2, <1>6, <1>8
  <2>2. Accounted' /\ Apart'
    BY <1>2, <1>4, <2>1, FileStays
  <2>3. Together'
    BY <1>1, <1>2, <1>3, <2>1, OpenTogether
  <2> QED BY <2>2, <2>3
<1> QED BY <1>7, <1>8


\* The turn's own messages.
LEMMA SpokenKeeps ==
    ASSUME MemoryInv, talk.phase \in {"ready", "running"}, ~overtaken', NEW x,
           x = IF talk.phase = "ready" THEN 2 * talk.n - 1 ELSE 2 * talk.n,
           AddMessage(x), Latest' = x, talk'.obj \in {NoObject, talk.obj},
           snapshots' = snapshots, abandoned' = abandoned, deaths' = deaths,
           consolidating' = consolidating
    PROVE  Together' /\ Accounted' /\ Apart'
<1> DEFINE o == talk.obj
           s == [objects[o] EXCEPT !.msgs = Append(@, x)]
<1>1. Save(o, s, {}) /\ ~overtaken /\ MemoryShape /\ MemoryTyped /\ SessionsFit /\ Together
  BY DEF AddMessage, Save, MemoryInv, MemoryShape
<1>2. /\ o \in Objects /\ x \in Told /\ Latest < x /\ x \in Nat /\ Latest \in Nat
      /\ s \in MemorySessions /\ s.msgs = Append(objects[o].msgs, x)
      /\ s.lc = objects[o].lc /\ Rising(s.msgs) /\ Below(s.msgs, x)
      /\ talk.phase = "running" <=> OpenEnd(objects[o].msgs)
  BY <1>1, AddedFits DEF MemoryShape, TalkHolds
<1>3. o = cachedSession /\ objects[o] = sessionFile
  <2>1. o # NoObject
    BY <1>2, MemoryAssumption
  <2> QED BY <2>1, <1>1, HeldIsFile
<1> HIDE DEF s
<1>4. Grows(sessionFile, x, s)
  BY <1>2, <1>3 DEF Grows
<1>5. Follows(sessionFile.msgs, x)
  <2> DEFINE m == sessionFile.msgs
  <2> SUFFICES ASSUME Len(m) # 0 PROVE m[Len(m)] < x /\ (IsUsers(m[Len(m)]) <=> ~IsUsers(x))
    BY DEF Follows
  <2>1. sessionFile \in MemorySessions /\ Below(m, Latest)
    BY <1>1 DEF MemoryTyped, SessionsFit, Fits
  <2>2. Len(m) \in 1 .. Len(m)
    <3>1. Len(m) \in Nat
      BY <2>1, SessionFields
    <3> QED BY <3>1
  <2>3. m[Len(m)] \in Nat /\ m[Len(m)] <= Latest
    BY <2>1, <2>2, SessionFields DEF Below
  <2>4. IsUsers(m[Len(m)]) <=> talk.phase = "running"
    BY <1>2, <1>3 DEF OpenEnd
  <2>5. IsUsers(x) <=> talk.phase = "ready"
    <3>1. talk.n \in Nat
      <4>1. talk.n \in 0 .. MaxTalks /\ MaxTalks \in Nat
        BY <1>1, TurnFields, ToldNumbers
      <4> QED BY <4>1
    <3>2. CASE talk.phase = "ready"
      BY <3>1, <3>2 DEF IsUsers
    <3>3. CASE talk.phase = "running"
      BY <3>1, <3>3 DEF IsUsers
    <3> QED BY <3>2, <3>3
  <2> HIDE DEF m
  <2> QED BY <2>3, <2>4, <2>5, <1>2
<1>6. /\ Latest' \in Nat /\ Latest <= Latest' /\ Below(s.msgs, Latest')
      /\ consolidating' \in {NoTask, consolidating} /\ talk'.obj \in {NoObject, o}
      /\ cachedSession # NoObject => o = cachedSession
      /\ Len(sessionFile.msgs) # 0 \/ Latest < x
  BY <1>2, <1>3
<1> HIDE DEF o
<1> QED BY ONLY MemoryInv, ~overtaken', snapshots' = snapshots, abandoned' = abandoned,
            deaths' = deaths, <1>1, <1>2, <1>4, <1>5, <1>6, AddedKeeps

LEMMA PersistKeeps ==
    ASSUME MemoryInv, PersistUser, ~overtaken'
    PROVE  Together' /\ Accounted' /\ Apart'
<1> DEFINE x == 2 * talk.n - 1
<1>1. /\ talk.phase = "ready" /\ AddMessage(x) /\ talk' = [talk EXCEPT !.phase = "running"]
      /\ UNCHANGED <<consolidating, snapshots, talks, deaths, abandoned>>
  BY DEF PersistUser, memoryBounds
<1>2. MemoryTyped /\ TalkHolds
  BY DEF MemoryInv, MemoryShape
<1>3. talk'.phase = "running" /\ talk'.obj = talk.obj
  BY <1>1, <1>2, TurnFields
<1>4. Latest' = x
  <2>1. talk.n = talks
    BY <1>1, <1>2 DEF TalkHolds
  <2> QED BY <2>1, <1>1, <1>3 DEF Latest
<1>5. x = IF talk.phase = "ready" THEN 2 * talk.n - 1 ELSE 2 * talk.n
  BY <1>1
<1> HIDE DEF x
<1> QED BY <1>1, <1>3, <1>4, <1>5, SpokenKeeps

LEMMA EndKeeps ==
    ASSUME MemoryInv, EndTalk, ~overtaken'
    PROVE  Together' /\ Accounted' /\ Apart'
<1> DEFINE x == 2 * talk.n
<1>1. /\ talk.phase = "running" /\ AddMessage(x) /\ talk' = NoTalk
      /\ UNCHANGED <<consolidating, snapshots, talks, deaths, abandoned>>
  BY DEF EndTalk, memoryBounds
<1>2. MemoryTyped /\ TalkHolds
  BY DEF MemoryInv, MemoryShape
<1>3. talk'.phase = "none" /\ talk'.obj = NoObject
  BY <1>1, NoTurnHolds
<1>4. Latest' = x
  <2>1. talk.n = talks
    BY <1>1, <1>2 DEF TalkHolds
  <2> QED BY <2>1, <1>1, <1>3 DEF Latest
<1>5. x = IF talk.phase = "ready" THEN 2 * talk.n - 1 ELSE 2 * talk.n
  BY <1>1
<1> HIDE DEF x
<1> QED BY <1>1, <1>3, <1>4, <1>5, SpokenKeeps

LEMMA InterruptKeeps ==
    ASSUME MemoryInv, Interrupt, ~overtaken'
    PROVE  Together' /\ Accounted' /\ Apart'
<1>1. /\ talk' = NoTalk /\ consolidating' \in {NoTask, consolidating}
      /\ UNCHANGED <<snapshots, talks, deaths, abandoned>>
  BY DEF Interrupt, memoryBounds
<1>2. MemoryShape /\ MemoryTyped /\ TalkHolds /\ SessionsFit /\ Together
  BY DEF MemoryInv, MemoryShape
<1>3. talk'.phase = "none" /\ talk'.obj = NoObject
  BY <1>1, NoTurnHolds
<1>4. /\ talks \in Nat /\ talks <= MaxTalks /\ Latest \in Nat
      /\ Latest <= 2 * talks /\ Latest' = 2 * talks /\ Latest' \in Nat /\ Latest <= Latest'
  <2>1. talks \in Nat /\ Latest <= 2 * talks /\ talks <= MaxTalks /\ Latest \in Nat
    BY <1>2, LatestNumber
  <2>2. Latest' = 2 * talks
    BY <1>1, <1>3 DEF Latest
  <2> QED BY <2>1, <2>2
<1>5. CASE UNCHANGED <<sessionFile, cachedSession, objects, archived, archivedAgain, saved, overtaken>>
  <2>1. Accounted' /\ Apart'
    BY <1>1, <1>4, <1>5, FileStays
  <2>2. Together'
    <3>1. /\ cachedSession # NoObject => objects[cachedSession] = sessionFile
          /\ consolidating # NoTask =>
                /\ consolidating.obj = cachedSession
                /\ sessionFile.lc <= consolidating.end
                /\ consolidating.end <= Len(sessionFile.msgs)
                /\ consolidating.chunk =
                      {sessionFile.msgs[i] : i \in sessionFile.lc + 1 .. consolidating.end}
      BY <1>2, <1>5 DEF Together
    <3> QED BY <3>1, <1>1, <1>3, <1>5 DEF Together
  <2> QED BY <2>1, <2>2
<1>6. CASE /\ OpenedSession.msgs # <<>> /\ IsUsers(OpenedSession.msgs[Len(OpenedSession.msgs)])
           /\ Save(Opened, ClosedSession(OpenedSession), {})
  <2>1. OpenedSession.msgs \in Seq(Told)
    BY <1>2, OpenedFacts, SessionFields
  <2>2. OpenEnd(OpenedSession.msgs)
    BY <1>6, <2>1, EmptySeq DEF OpenEnd
  <2> QED BY <1>1, <1>3, <1>4, <1>6, <2>2, ClosedKeeps
<1> QED BY <1>5, <1>6 DEF Interrupt

LEMMA CheckKeeps ==
    ASSUME MemoryInv, CheckExpired, ~overtaken'
    PROVE  Together' /\ Accounted' /\ Apart'
<1>1. /\ objects' = [objects EXCEPT ![Opened] = OpenedSession] /\ cachedSession' = Opened
      /\ UNCHANGED <<sessionFile, talk, consolidating, snapshots, talks, deaths>>
      /\ UNCHANGED <<archived, archivedAgain, saved, abandoned, overtaken>>
  BY DEF CheckExpired, memoryBounds, memoryGhosts
<1>2. MemoryShape /\ MemoryTyped /\ TalkHolds /\ Together
  BY DEF MemoryInv, MemoryShape
<1>3. TurnGoesOn
  BY <1>1, <1>2 DEF TurnGoesOn, MemoryTyped
<1>4. Accounted' /\ Apart'
  BY <1>1, <1>2, <1>3, LatestStay, FileStays
<1>5. Together'
  BY <1>1, <1>2, OpenTogether
<1> QED BY <1>4, <1>5

\* A batch is taken from the session as it is on file.
LEMMA BatchTaken ==
    ASSUME NEW f \in MemorySessions, NEW who \in Waiters, NEW o \in Objects,
           NEW e \in Nat, f.lc <= e, e <= Len(f.msgs)
    PROVE  BatchOf(Consolidation(who, o, f, e), o, f)
BY BatchTyped DEF BatchOf

LEMMA TokensKeeps ==
    ASSUME MemoryInv, ConsolidateTokens, ~overtaken'
    PROVE  Together' /\ Accounted' /\ Apart'
<1> DEFINE who == Head(lockWaiters)
<1>1. /\ consolidating = NoTask /\ lockWaiters # <<>>
      /\ objects' = [objects EXCEPT ![Opened] = OpenedSession] /\ cachedSession' = Opened
      /\ UNCHANGED <<sessionFile, snapshots, talks, deaths>>
      /\ UNCHANGED <<archived, archivedAgain, saved, abandoned, overtaken>>
      /\ \/ Released(who)
         \/ \E i \in Boundaries(OpenedSession) :
               /\ consolidating' = Consolidation(who, Opened, OpenedSession, i - 1)
               /\ UNCHANGED <<talk, archivingIdle>>
  BY DEF ConsolidateTokens, memoryBounds, memoryGhosts
<1>2. MemoryShape /\ MemoryTyped /\ TalkHolds /\ TurnWaits /\ SessionsFit /\ Together /\ ~overtaken
  BY <1>1 DEF MemoryInv, MemoryShape
<1>3. who \in Waiters /\ (who = "turn" => talk.phase = "queued")
  <2>1. lockWaiters \in Seq(Waiters)
    BY <1>2 DEF MemoryTyped
  <2>2. who \in Waiters /\ (NoTurn(lockWaiters) => who # "turn")
    BY <1>1, <2>1, QueueTail
  <2> QED BY <2>2, <1>2 DEF TurnWaits
<1> HIDE DEF who
<1>4. /\ Opened \in Objects /\ OpenedSession = sessionFile /\ OpenedSession \in MemorySessions
  BY <1>2, OpenedFacts, HeldIsFile
<1>5. /\ TurnGoesOn
      /\ consolidating' = NoTask \/ BatchOf(consolidating', Opened, sessionFile)
  <2>1. CASE Released(who)
    BY <1>1, <1>2, <1>3, <2>1, ReleaseGoesOn
  <2>2. ASSUME NEW i \in Boundaries(OpenedSession),
               consolidating' = Consolidation(who, Opened, OpenedSession, i - 1),
               UNCHANGED <<talk, archivingIdle>>
        PROVE  TurnGoesOn /\ BatchOf(consolidating', Opened, sessionFile)
    <3>1. TurnGoesOn
      BY <1>1, <1>2, <2>2 DEF TurnGoesOn, MemoryTyped
    <3>2. i - 1 \in Nat /\ i - 1 <= Len(OpenedSession.msgs) /\ OpenedSession.lc <= i - 1
      BY <1>4, BoundaryEnds
    <3>3. BatchOf(consolidating', Opened, OpenedSession)
      BY <1>3, <1>4, <2>2, <3>2, BatchTaken
    <3> QED BY <3>1, <3>3, <1>4
  <2> QED BY <1>1, <2>1, <2>2
<1>6. Accounted' /\ Apart'
  BY <1>1, <1>2, <1>5, LatestStay, FileStays
<1>7. Together'
  <2>1. talk'.obj \in {NoObject, talk.obj, Opened}
    BY <1>5 DEF TurnGoesOn
  <2> QED BY <2>1, <1>1, <1>2, <1>5, OpenTogether
<1> QED BY <1>6, <1>7


LEMMA CompactKeeps ==
    ASSUME MemoryInv, CompactIdle, ~overtaken'
    PROVE  Together' /\ Accounted' /\ Apart'
<1> DEFINE o == NewObject
<1>1. /\ consolidating = NoTask
      /\ objects' = [objects EXCEPT ![o] = Loaded] /\ cachedSession' = o
      /\ overtaken' = (overtaken \/ talk.phase # "none")
      /\ UNCHANGED <<sessionFile, snapshots, talks, deaths>>
      /\ UNCHANGED <<archived, archivedAgain, saved, abandoned>>
      /\ \/ Released("idle")
         \/ /\ consolidating' = Consolidation("idle", o, Loaded, Len(Loaded.msgs))
            /\ UNCHANGED <<talk, archivingIdle>>
  BY DEF CompactIdle, memoryBounds
<1>2. MemoryShape /\ MemoryTyped /\ TalkHolds /\ SessionsFit /\ Together /\ ~overtaken
  BY <1>1 DEF MemoryInv, MemoryShape
<1>3. o \in Objects
  BY <1>1, <1>2, FreshObject
<1>4. Loaded = sessionFile /\ sessionFile \in MemorySessions /\ sessionFile.lc <= Len(sessionFile.msgs)
      /\ Len(sessionFile.msgs) \in Nat
  BY <1>2, LoadedSession, SessionFields DEF SessionsFit, Fits, MemoryTyped
<1> HIDE DEF o
<1>5. /\ TurnGoesOn /\ talk' = talk
      /\ consolidating' = NoTask \/ BatchOf(consolidating', o, sessionFile)
  <2>0. "idle" \in Waiters
    BY DEF Waiters
  <2>1. CASE Released("idle")
    BY <1>1, <1>2, <2>0, <2>1, ReleaseGoesOn
  <2>2. CASE /\ consolidating' = Consolidation("idle", o, Loaded, Len(Loaded.msgs))
             /\ UNCHANGED <<talk, archivingIdle>>
    <3>1. TurnGoesOn /\ talk' = talk
      BY <1>1, <1>2, <2>2 DEF TurnGoesOn, MemoryTyped
    <3>2. Len(sessionFile.msgs) <= Len(sessionFile.msgs)
      BY <1>4
    <3>3. BatchOf(consolidating', o, sessionFile)
      BY <1>3, <1>4, <2>0, <2>2, <3>2, BatchTaken
    <3> QED BY <3>1, <3>3
  <2> QED BY <1>1, <2>1, <2>2
<1>6. Accounted' /\ Apart'
  BY <1>1, <1>2, <1>5, LatestStay, FileStays
<1>7. Together'
  <2>1. talk'.obj = NoObject
    BY <1>1, <1>2, <1>5 DEF TalkHolds
  <2>2. objects'[o] = sessionFile
    <3> DEFINE s == Loaded
    <3>1. objects \in [Objects -> MemorySessions] /\ objects' = [objects EXCEPT ![o] = s]
      BY <1>1, <1>2 DEF MemoryTyped
    <3>2. s = sessionFile
      BY <1>4
    <3> HIDE DEF s
    <3> QED BY <3>1, <3>2, <1>3
  <2> QED BY <2>1, <2>2, <1>1, <1>5 DEF Together, BatchOf
<1> QED BY <1>6, <1>7

LEMMA ArchiveKeeps ==
    ASSUME MemoryInv, NEW summarized \in BOOLEAN, ArchiveEnds(summarized), ~overtaken'
    PROVE  Together' /\ Accounted' /\ Apart'
<1> DEFINE f == sessionFile
           s == Advanced(summarized)
           o == consolidating.obj
           who == consolidating.who
           chunk == consolidating.chunk
           e == consolidating.end
<1>1. /\ consolidating # NoTask /\ Save(o, s, chunk)
      /\ UNCHANGED <<snapshots, talks, deaths, abandoned>>
      /\ \/ Released(who)
         \/ /\ \E i \in Boundaries(Trimmed(s)) :
                  consolidating' = Consolidation(who, o, Trimmed(s), i - 1)
            /\ UNCHANGED <<talk, archivingIdle>>
  BY DEF ArchiveEnds, memoryBounds
<1>2. MemoryShape /\ MemoryTyped /\ TalkHolds /\ SessionsFit /\ Together /\ ~overtaken
      /\ Accounted /\ Apart
  BY <1>1 DEF MemoryInv, MemoryShape, Save
<1>3. /\ o \in Objects /\ who \in Waiters /\ e \in Nat /\ s \in MemorySessions
      /\ s.msgs = objects[o].msgs /\ s.lc = e /\ Rising(s.msgs) /\ Below(s.msgs, Latest)
      /\ Trimmed(s) = s
  BY <1>1, <1>2, AdvancedFits
<1>4. o = cachedSession /\ objects[o] = f /\ f \in MemorySessions /\ Rising(f.msgs)
  BY <1>1, <1>2, HeldIsFile DEF MemoryTyped, SessionsFit, Fits
<1>5. f.lc <= e /\ e <= Len(f.msgs) /\ chunk = {f.msgs[i] : i \in f.lc + 1 .. e}
  BY <1>1, <1>2 DEF Together
<1>6. chunk \subseteq Unarchived(f) /\ Unarchived(s) = Unarchived(f) \ chunk
  <2>1. s = [f EXCEPT !.lc = e]
    BY <1>4 DEF Advanced
  <2> HIDE DEF s, f, e, chunk
  <2> QED BY <2>1, <1>3, <1>4, <1>5, AdvancedSession
<1>7. Elements(s.msgs) = Elements(f.msgs)
  BY <1>3, <1>4
<1>8. TurnGoesOn /\ (consolidating' = NoTask \/ BatchOf(consolidating', o, s))
  <2>1. CASE Released(who)
    <3>1. who = "turn" => talk.phase = "queued"
      BY <1>1, <1>2 DEF TurnWaits, TurnConsolidates, MemoryShape
    <3> QED BY <1>1, <1>2, <1>3, <2>1, <3>1, ReleaseGoesOn
  <2>2. ASSUME NEW i \in Boundaries(Trimmed(s)),
               consolidating' = Consolidation(who, o, Trimmed(s), i - 1),
               UNCHANGED <<talk, archivingIdle>>
        PROVE  TurnGoesOn /\ BatchOf(consolidating', o, s)
    <3>1. TurnGoesOn
      BY <1>1, <1>2, <2>2 DEF TurnGoesOn, MemoryTyped
    <3>2. i \in Boundaries(s) /\ consolidating' = Consolidation(who, o, s, i - 1)
      BY <2>2, <1>3
    <3> HIDE DEF s, o, who
    <3>3. i - 1 \in Nat /\ i - 1 <= Len(s.msgs) /\ s.lc <= i - 1
      BY <3>2, <1>3, BoundaryEnds
    <3> QED BY <3>1, <3>2, <3>3, <1>3, BatchTaken
  <2> QED BY <1>1, <2>1, <2>2
<1>9. Latest' = Latest /\ Latest \in Nat /\ Latest' \in Nat /\ Latest <= Latest'
  BY <1>2, <1>8, LatestStay
<1>10. Unarchived(f) \subseteq Elements(f.msgs)
  BY DEF Unarchived, Elements
<1> HIDE DEF f, s, o, who, e, chunk
<1>11. Accounted'
  <2>1. Unarchived(sessionFile) \subseteq Unarchived(s) \cup chunk
    BY <1>6 DEF f
  <2>2. Elements(s.msgs) \ Unarchived(s) \subseteq archived \cup chunk
    <3>1. Elements(f.msgs) \ Unarchived(f) \subseteq archived
      BY <1>2 DEF Accounted, f
    <3> QED BY <3>1, <1>6, <1>7
  <2> QED BY <2>1, <2>2, <1>1, <1>2, <1>3, SaveAccounts
<1>12. Apart'
  <2>1. CASE deaths # 0
    BY <2>1, <1>1 DEF Apart
  <2>2. CASE deaths = 0
    <3>1. chunk \subseteq Unarchived(sessionFile) /\ Unarchived(s) \cap chunk = {}
      BY <1>6 DEF f
    <3>2. \A y \in Unarchived(s) : y \in Unarchived(sessionFile) \/ LaterThanKnown(y)
      BY <1>6 DEF f
    <3>3. \A y \in Elements(s.msgs) : y \in Elements(sessionFile.msgs) \/ LaterThanKnown(y)
      BY <1>7 DEF f
    <3>4. Len(sessionFile.msgs) # 0 /\ Len(s.msgs) # 0 =>
             sessionFile.msgs[Len(sessionFile.msgs)] <= s.msgs[Len(s.msgs)]
      <4> SUFFICES ASSUME Len(s.msgs) # 0 PROVE s.msgs[Len(s.msgs)] <= s.msgs[Len(s.msgs)]
        BY <1>3, <1>4 DEF f
      <4>1. Len(s.msgs) \in Nat
        BY <1>3, SessionFields
      <4>2. Len(s.msgs) \in 1 .. Len(s.msgs)
        BY <4>1
      <4>3. s.msgs[Len(s.msgs)] \in Nat
        BY <4>2, <1>3, SessionFields
      <4> QED BY <4>3
    <3>5. chunk \subseteq Elements(s.msgs) /\ Below(s.msgs, Latest') /\ deaths' = deaths
      BY <1>1, <1>3, <1>6, <1>7, <1>9, <1>10
    <3> QED BY <3>1, <3>2, <3>3, <3>4, <3>5, <2>2, <1>1, <1>2, <1>3, <1>9, SaveApart
  <2> QED BY <2>1, <2>2
<1>13. Together'
  <2>1. sessionFile' = s /\ cachedSession' = o /\ objects' = [objects EXCEPT ![o] = s]
    BY <1>1, <1>3 DEF Save
  <2>2. objects'[o] = s
    <3>1. objects \in [Objects -> MemorySessions]
      BY <1>2 DEF MemoryTyped
    <3> QED BY <2>1, <3>1, <1>3
  <2>3. talk'.obj \in {NoObject, o}
    BY <1>2, <1>4, <1>8 DEF Together, TurnGoesOn
  <2> QED BY <2>1, <2>2, <2>3, <1>8 DEF Together, BatchOf
<1> QED BY <1>11, <1>12, <1>13


LEMMA NewSessionKeeps ==
    ASSUME MemoryInv, NewSession, ~overtaken'
    PROVE  Together' /\ Accounted' /\ Apart'
<1> DEFINE f == sessionFile
           U == Unarchived(f)
           E == Elements(f.msgs)
<1>1. /\ talk.phase = "none" /\ sessionFile' = EmptySession /\ cachedSession' = NoObject
      /\ snapshots' = snapshots \cup ({Unarchived(OpenedSession)} \ {{}})
      /\ overtaken' = (overtaken \/ consolidating # NoTask)
      /\ UNCHANGED <<talk, consolidating, talks, deaths, archived, archivedAgain, saved, abandoned>>
  BY DEF NewSession
<1>2. MemoryShape /\ MemoryTyped /\ TalkHolds /\ SessionsFit /\ Together /\ ~overtaken
      /\ Accounted /\ Apart /\ consolidating = NoTask
  BY <1>1 DEF MemoryInv, MemoryShape
<1>3. OpenedSession = f /\ f \in MemorySessions /\ Below(f.msgs, Latest) /\ f.msgs \in Seq(Told)
  BY <1>2, HeldIsFile, SessionFields DEF MemoryTyped, SessionsFit, Fits
<1>4. Latest' = Latest /\ Latest \in Nat
  BY <1>1, <1>2, LatestNumber DEF Latest
<1>5. /\ Unarchived(sessionFile)' = {} /\ Elements(sessionFile.msgs)' = {}
      /\ Len(sessionFile'.msgs) = 0
  <2>1. sessionFile'.msgs = <<>> /\ DOMAIN <<>> = {} /\ Len(<<>>) = 0
    BY <1>1 DEF EmptySession
  <2>2. \A i \in DOMAIN sessionFile'.msgs : FALSE
    BY <2>1
  <2>3. Unarchived(sessionFile') = {}
    BY <2>2 DEF Unarchived
  <2>4. Elements(sessionFile'.msgs) = {}
    BY <2>2 DEF Elements
  <2> QED BY <2>1, <2>3, <2>4
<1>6. U \subseteq E /\ \A y \in E : y \in Nat /\ y <= Latest
  <2>1. U \subseteq E
    BY DEF Unarchived, Elements
  <2>2. ASSUME NEW y \in E PROVE y \in Nat /\ y <= Latest
    <3>1. PICK i \in 1 .. Len(f.msgs) : y = f.msgs[i]
      BY <1>3, InElements
    <3> QED BY <3>1, <1>3, SessionFields DEF Below
  <2> QED BY <2>1, <2>2
<1>7. snapshots' = snapshots \cup ({U} \ {{}})
  BY <1>1, <1>3
<1>8. /\ E \ U \subseteq archived
      /\ saved \subseteq archived \cup abandoned \cup (UNION snapshots) \cup U
  BY <1>2 DEF Accounted
<1>9. /\ archivedAgain = {} \/ deaths # 0
      /\ deaths = 0 =>
            /\ archivedAgain = {} /\ U \cap archived = {}
            /\ \A c \in snapshots : c \cap archived = {} /\ c \cap E = {}
            /\ \A c, d \in snapshots : c # d => c \cap d = {}
            /\ \A x \in archived \cup UNION snapshots : x \in Nat /\ x <= Latest
  BY <1>2 DEF Apart
<1> HIDE DEF U, E, f
<1>10. UNION snapshots' = (UNION snapshots) \cup U
  BY <1>7
<1>11. Accounted'
  <2>1. /\ (Elements(sessionFile.msgs) \ Unarchived(sessionFile))' \subseteq archived'
        /\ saved' \subseteq archived' \cup abandoned' \cup (UNION snapshots)' \cup Unarchived(sessionFile)'
    BY <1>1, <1>5, <1>8, <1>10
  <2> QED BY <2>1 DEF Accounted
<1>12. Apart'
  <2> SUFFICES ASSUME deaths = 0 PROVE Apart'
    BY <1>1 DEF Apart
  <2>1. \A c \in snapshots' : c \cap archived = {}
    BY <1>7, <1>9
  <2>2. \A c, d \in snapshots' : c # d => c \cap d = {}
    <3> SUFFICES ASSUME NEW c \in snapshots', NEW d \in snapshots', c # d PROVE c \cap d = {}
      OBVIOUS
    <3>1. CASE c \in snapshots /\ d \in snapshots
      BY <3>1, <1>9
    <3>2. CASE c \in snapshots /\ d = U
      BY <3>2, <1>6, <1>9
    <3>3. CASE c = U /\ d \in snapshots
      BY <3>3, <1>6, <1>9
    <3> QED BY <3>1, <3>2, <3>3, <1>7
  <2>3. \A x \in archived \cup UNION snapshots' : x \in Nat /\ x <= Latest
    BY <1>6, <1>9, <1>10
  <2> QED BY <2>1, <2>2, <2>3, <1>1, <1>4, <1>5, <1>9 DEF Apart
<1>13. Together'
  <2>1. talk'.obj = NoObject
    BY <1>1, <1>2 DEF TalkHolds
  <2> QED BY <2>1, <1>1, <1>2 DEF Together
<1> QED BY <1>11, <1>12, <1>13

LEMMA SnapshotKeeps ==
    ASSUME MemoryInv, NEW chunk \in snapshots, SnapshotArchived(chunk), ~overtaken'
    PROVE  Together' /\ Accounted' /\ Apart'
<1>1. /\ snapshots' = snapshots \ {chunk} /\ archived' = archived \cup chunk
      /\ archivedAgain' = archivedAgain \cup (chunk \cap archived)
      /\ UNCHANGED <<sessionFile, cachedSession, objects, talk, consolidating>>
      /\ UNCHANGED <<talks, deaths, saved, abandoned, overtaken>>
  BY DEF SnapshotArchived, Archives, memoryBounds
<1>2. Together /\ Accounted /\ Apart /\ ~overtaken /\ MemoryTyped /\ TalkHolds
  BY <1>1 DEF MemoryInv, MemoryShape
<1>3. Latest' = Latest
  BY <1>1 DEF Latest
<1> DEFINE U == Unarchived(sessionFile)
           E == Elements(sessionFile.msgs)
           l == sessionFile.msgs[Len(sessionFile.msgs)]
<1>4. Unarchived(sessionFile)' = U /\ Elements(sessionFile.msgs)' = E
  BY <1>1
<1>5. /\ E \ U \subseteq archived /\ U \subseteq E
      /\ saved \subseteq archived \cup abandoned \cup (UNION snapshots) \cup U
  <2>1. U \subseteq E
    BY DEF Unarchived, Elements
  <2> QED BY <2>1, <1>2 DEF Accounted
<1>6. deaths = 0 =>
         /\ archivedAgain = {} /\ U \cap archived = {}
         /\ \A c \in snapshots : c \cap archived = {} /\ c \cap E = {}
         /\ \A c, d \in snapshots : c # d => c \cap d = {}
         /\ \A x \in archived \cup UNION snapshots :
               x \in Nat /\ x <= Latest /\ (Len(sessionFile.msgs) # 0 => x <= l)
  BY <1>2 DEF Apart
<1> HIDE DEF U, E, l
<1>7. UNION snapshots \subseteq (UNION snapshots') \cup chunk /\ UNION snapshots' \subseteq UNION snapshots
  BY <1>1
<1>8. Accounted'
  <2>1. saved' \subseteq archived' \cup abandoned' \cup (UNION snapshots') \cup U
    BY <1>1, <1>5, <1>7
  <2>2. E \ U \subseteq archived'
    BY <1>1, <1>5
  <2> QED BY <2>1, <2>2, <1>4 DEF Accounted
<1>9. Apart'
  <2> SUFFICES ASSUME deaths = 0 PROVE Apart'
    BY <1>1 DEF Apart
  <2>1. archivedAgain' = {}
    BY <1>1, <1>6
  <2>2. U \cap archived' = {}
    BY <1>1, <1>5, <1>6
  <2>3. \A c \in snapshots' : c \cap archived' = {} /\ c \cap E = {}
    BY <1>1, <1>6
  <2>4. \A c, d \in snapshots' : c # d => c \cap d = {}
    BY <1>1, <1>6
  <2>5. \A x \in archived' \cup UNION snapshots' :
           x \in Nat /\ x <= Latest /\ (Len(sessionFile.msgs) # 0 => x <= l)
    <3> SUFFICES ASSUME NEW x \in archived' \cup UNION snapshots' PROVE x \in archived \cup UNION snapshots
      BY <1>6
    <3> QED BY <1>1, <1>7
  <2> QED BY <2>1, <2>2, <2>3, <2>4, <2>5, <1>1, <1>3, <1>4 DEF Apart, l
<1>10. Together'
  BY <1>1, <1>2 DEF Together
<1> QED BY <1>8, <1>9, <1>10

LEMMA DieKeeps ==
    ASSUME MemoryInv, Die, ~overtaken'
    PROVE  Together' /\ Accounted' /\ Apart'
<1>1. /\ deaths' = deaths + 1 /\ cachedSession' = NoObject /\ talk' = NoTalk
      /\ consolidating' = NoTask /\ snapshots' = {} /\ abandoned' = abandoned \cup UNION snapshots
      /\ UNCHANGED <<sessionFile, saved, overtaken>> /\ archived \subseteq archived'
  BY DEF Die, Archives
<1>2. Accounted /\ deaths \in Nat /\ ~overtaken
  BY <1>1 DEF MemoryInv, MemoryShape, MemoryTyped
<1>3. Apart'
  <2>1. deaths' # 0
    BY <1>1, <1>2
  <2> QED BY <2>1 DEF Apart
<1>4. Together'
  BY <1>1, NoTurnHolds DEF Together
<1>5. Accounted'
  <2> DEFINE U == Unarchived(sessionFile)
             E == Elements(sessionFile.msgs)
  <2>1. Unarchived(sessionFile)' = U /\ Elements(sessionFile.msgs)' = E
    BY <1>1
  <2>2. E \ U \subseteq archived /\ saved \subseteq archived \cup abandoned \cup (UNION snapshots) \cup U
    BY <1>2 DEF Accounted
  <2> HIDE DEF U, E
  <2>3. E \ U \subseteq archived' /\ saved' \subseteq archived' \cup abandoned' \cup U
    BY <1>1, <2>2
  <2> QED BY <2>1, <2>3 DEF Accounted
<1> QED BY <1>3, <1>4, <1>5


-----------------------------------------------------------------------------
(* Memory: the theorems *)

LEMMA MemoryStarts ==
    ASSUME MemoryInit
    PROVE  MemoryInv
<1>1. /\ sessionFile = EmptySession /\ cachedSession = NoObject
      /\ objects = [o \in Objects |-> EmptySession]
      /\ talk = NoTalk /\ consolidating = NoTask
      /\ lockWaiters = <<>> /\ archivingIdle = FALSE /\ snapshots = {}
      /\ talks = 0 /\ deaths = 0
      /\ archived = {} /\ archivedAgain = {} /\ saved = {} /\ abandoned = {}
      /\ overtaken = FALSE
  BY DEF MemoryInit
<1>2. /\ EmptySession \in MemorySessions /\ EmptySession.msgs = <<>> /\ EmptySession.lc = 0
      /\ Len(EmptySession.msgs) = 0
  <2>1. <<>> \in Seq(Told) /\ Len(<<>>) = 0
    OBVIOUS
  <2> QED BY <2>1 DEF EmptySession, MemorySessions
<1>3. talk \in TalkRecords /\ talk.phase = "none" /\ talk.obj = NoObject /\ MaxTalks \in Nat
  BY <1>1, ToldNumbers DEF NoTalk, TalkRecords
<1>4. MemoryTyped
  <2> DEFINE e == EmptySession
  <2>1. objects = [o \in Objects |-> e] /\ e \in MemorySessions
    BY <1>1, <1>2
  <2> HIDE DEF e
  <2>2. objects \in [Objects -> MemorySessions]
    BY <2>1
  <2>3. lockWaiters \in Seq(Waiters) /\ snapshots \subseteq SUBSET Told
    BY <1>1
  <2>4. talks \in 0 .. MaxTalks /\ deaths \in Nat
    BY <1>1, <1>3
  <2>5. sessionFile \in MemorySessions /\ cachedSession \in Objects \cup {NoObject}
    BY <1>1, <1>2
  <2>6. archivingIdle \in BOOLEAN /\ overtaken \in BOOLEAN /\ consolidating = NoTask
    BY <1>1
  <2> QED BY <2>2, <2>3, <2>4, <2>5, <2>6, <1>3 DEF MemoryTyped
<1>5. \A u \in BOOLEAN : Fits(EmptySession, Latest, u)
  <2>1. FileCap \in Nat
    BY MemoryAssumption
  <2> QED BY <2>1, <1>2 DEF Fits, Rising, Below
<1>6. SessionsFit
  BY <1>1, <1>5 DEF SessionsFit
<1>7. TalkHolds
  BY <1>3 DEF TalkHolds
<1>8. TurnWaits
  BY <1>1 DEF TurnWaits, OneTurn, NoTurn, TurnConsolidates
<1>9. Unarchived(sessionFile) = {} /\ Elements(sessionFile.msgs) = {}
  <2>1. \A i \in DOMAIN sessionFile.msgs : FALSE
    BY <1>1, <1>2
  <2> QED BY <2>1 DEF Unarchived, Elements
<1>10. Together /\ Accounted /\ Apart
  <2>1. UNION snapshots = {}
    BY <1>1
  <2> QED BY <2>1, <1>1, <1>2, <1>3, <1>9 DEF Together, Accounted, Apart
<1> QED BY <1>4, <1>6, <1>7, <1>8, <1>10 DEF MemoryInv, MemoryShape

\* Once overtaken, there is nothing but the shape to keep.
LEMMA OvertakenKeeps ==
    ASSUME overtaken'
    PROVE  Together' /\ Accounted' /\ Apart'
BY DEF Together, Accounted, Apart

LEMMA MemoryStep ==
    ASSUME MemoryInv, [MemoryNext]_memoryVars
    PROVE  MemoryInv'
<1> USE DEF MemoryInv
<1>1. ASSUME NEW kind \in TalkKinds, StartTalk(kind) PROVE MemoryInv'
  BY <1>1, StartShape, StartKeeps, OvertakenKeeps
<1>2. CASE PersistUser
  BY <1>2, PersistShape, PersistKeeps, OvertakenKeeps
<1>3. CASE EndTalk
  BY <1>3, EndShape, EndKeeps, OvertakenKeeps
<1>4. CASE Interrupt
  BY <1>4, InterruptShape, InterruptKeeps, OvertakenKeeps
<1>5. CASE NewSession
  BY <1>5, NewShape, NewSessionKeeps, OvertakenKeeps
<1>6. ASSUME NEW chunk \in snapshots, SnapshotArchived(chunk) PROVE MemoryInv'
  BY <1>6, SnapshotShape, SnapshotKeeps, OvertakenKeeps
<1>7. CASE CheckExpired
  BY <1>7, CheckShape, CheckKeeps, OvertakenKeeps
<1>8. CASE ConsolidateTokens
  BY <1>8, TokensShape, TokensKeeps, OvertakenKeeps
<1>9. CASE CompactIdle
  BY <1>9, CompactShape, CompactKeeps, OvertakenKeeps
<1>10. ASSUME NEW summarized \in BOOLEAN, ArchiveEnds(summarized) PROVE MemoryInv'
  BY <1>10, ArchiveShape, ArchiveKeeps, OvertakenKeeps
<1>11. CASE Die
  BY <1>11, DieShape, DieKeeps, OvertakenKeeps
<1>12. CASE UNCHANGED memoryVars
  <2>1. /\ UNCHANGED <<sessionFile, cachedSession, objects, talk, consolidating, lockWaiters>>
        /\ UNCHANGED <<archivingIdle, snapshots, talks, deaths>>
        /\ UNCHANGED <<archived, archivedAgain, saved, abandoned, overtaken>>
    BY <1>12 DEF memoryVars, memoryTasks, memoryBounds, memoryGhosts
  <2>2. Latest' = Latest
    BY <2>1 DEF Latest
  <2>3. MemoryTyped' /\ SessionsFit'
    BY <2>1, <2>2 DEF MemoryShape, MemoryTyped, SessionsFit
  <2>4. TalkHolds' /\ TurnWaits'
    BY <2>1 DEF MemoryShape, TalkHolds, TurnWaits, TurnConsolidates
  <2>5. Together'
    BY <2>1 DEF Together
  <2>6. Accounted'
    BY <2>1 DEF Accounted
  <2>7. Apart'
    BY <2>1, <2>2 DEF Apart
  <2> QED BY <2>3, <2>4, <2>5, <2>6, <2>7 DEF MemoryShape
<1> QED BY <1>1, <1>2, <1>3, <1>4, <1>5, <1>6, <1>7, <1>8, <1>9, <1>10, <1>11, <1>12
        DEF MemoryNext, Consolidate

\* The inductive invariant holds in every state of every run of turns, /new,
\* the idle scan, consolidations and crashes on one session.
THEOREM MemoryInvariant == MemorySpec => []MemoryInv
<1>1. MemoryInit => MemoryInv
  BY MemoryStarts
<1>2. MemoryInv /\ [MemoryNext]_memoryVars => MemoryInv'
  BY MemoryStep
<1> QED BY <1>1, <1>2, PTL DEF MemorySpec

LEMMA MemoryTypes ==
    ASSUME MemoryInv
    PROVE  MemoryTypeOK
<1>1. MemoryTyped /\ SessionsFit /\ TalkHolds
  BY DEF MemoryInv, MemoryShape
<1> DEFINE IsSession(s) ==
             /\ DOMAIN s.msgs = 1 .. Len(s.msgs) /\ Elements(s.msgs) \subseteq 1 .. 2 * MaxTalks
             /\ s.lc \in Nat /\ (overtaken \/ s.lc <= Len(s.msgs))
             /\ Len(s.msgs) <= FileCap
<1>2. ASSUME NEW s \in MemorySessions, Fits(s, Latest, overtaken) PROVE IsSession(s)
  <2>1. Elements(s.msgs) \subseteq 1 .. 2 * MaxTalks
    <3> SUFFICES ASSUME NEW y \in Elements(s.msgs) PROVE y \in 1 .. 2 * MaxTalks
      OBVIOUS
    <3>1. PICK i \in 1 .. Len(s.msgs) : y = s.msgs[i]
      BY SessionFields, InElements
    <3>2. y \in Told
      BY <3>1, SessionFields
    <3> QED BY <3>2 DEF Told
  <2> QED BY <2>1, <1>2, SessionFields DEF Fits
<1> HIDE DEF IsSession
<1>3. IsSession(sessionFile) /\ \A o \in Objects : IsSession(objects[o])
  <2>1. sessionFile \in MemorySessions /\ Fits(sessionFile, Latest, overtaken)
    BY <1>1 DEF MemoryTyped, SessionsFit
  <2>2. ASSUME NEW o \in Objects
        PROVE  objects[o] \in MemorySessions /\ Fits(objects[o], Latest, overtaken)
    BY <1>1 DEF MemoryTyped, SessionsFit
  <2> QED BY <2>1, <2>2, <1>2
<1>4. /\ talk.phase \in {"none", "queued", "ready", "running"}
      /\ talk.obj \in IF talk.phase = "none" THEN {NoObject} ELSE Objects
  BY <1>1, TurnFields DEF TalkHolds
<1>5. \A i \in DOMAIN lockWaiters : lockWaiters[i] \in {"turn", "after", "idle"}
  <2>1. lockWaiters \in Seq(Waiters)
    BY <1>1 DEF MemoryTyped
  <2>2. \A i \in DOMAIN lockWaiters : lockWaiters[i] \in Waiters
    BY <2>1
  <2> QED BY <2>2 DEF Waiters
<1>6. \A chunk \in snapshots : chunk \subseteq 1 .. 2 * MaxTalks
  BY <1>1 DEF MemoryTyped, Told
<1>7. /\ cachedSession \in Objects \cup {NoObject} /\ archivingIdle \in BOOLEAN
      /\ overtaken \in BOOLEAN
  BY <1>1 DEF MemoryTyped
<1> QED BY <1>3, <1>4, <1>5, <1>6, <1>7 DEF MemoryTypeOK, IsSession

\* The sessions on file and in memory, the turn, the queue for the lock and the
\* snapshots are what MemoryTypeOK says: no session that is kept is longer than
\* the file cap, and no cursor is beyond its session unless a consolidation was
\* overtaken.
THEOREM MemoryTypeCorrect == MemorySpec => []MemoryTypeOK
<1>1. MemoryInv => MemoryTypeOK
  BY MemoryTypes
<1> QED BY <1>1, MemoryInvariant, PTL

LEMMA CurrentIsFile ==
    ASSUME MemoryInv, ~overtaken
    PROVE  CurrentSession = sessionFile /\ Loaded = sessionFile
<1>1. Loaded = sessionFile
  BY LoadedSession DEF MemoryInv, MemoryShape
<1> QED BY <1>1 DEF CurrentSession, MemoryInv, Together

\* No message that was ever saved is lost: as long as no consolidation was
\* overtaken, each is archived, on its way there, or after the cursor of the
\* session as the next turn will read it (what a crash cut off /new apart).
THEOREM SavedIsRemembered == MemorySpec => []NothingForgotten
<1>1. ASSUME MemoryInv PROVE NothingForgotten
  BY <1>1, CurrentIsFile DEF MemoryInv, Accounted, NothingForgotten, Remembered
<1> QED BY <1>1, MemoryInvariant, PTL

\* No message is archived twice unless a consolidation was overtaken or the
\* process died, however turns, /new, the idle scan and the file cap meet.
THEOREM ArchivedStaysOnce == MemorySpec => []ArchivedOnce
<1>1. ASSUME MemoryInv PROVE ArchivedOnce
  <2>1. deaths \in Nat
    BY <1>1 DEF MemoryInv, MemoryShape, MemoryTyped
  <2> QED BY <1>1, <2>1 DEF MemoryInv, Apart, ArchivedOnce
<1> QED BY <1>1, MemoryInvariant, PTL

\* Unless one was overtaken, the turn and the consolidation hold the object in
\* the cache, and that object holds what is on file.
THEOREM SessionStaysOne == MemorySpec => []OneSession
<1>1. ASSUME MemoryInv PROVE OneSession
  BY <1>1, CurrentIsFile DEF MemoryInv, Together, OneSession
<1> QED BY <1>1, MemoryInvariant, PTL

\* The two modules side by side, as the run has them, keep both type invariants.
THEOREM SessionsTypesCorrect == SessionsSpec => []SessionsTypeOK
<1>1. SessionsInit => TurnInv /\ MemoryInv
  BY TurnInit, MemoryStarts DEF SessionsInit
<1>2. TurnInv /\ MemoryInv /\ [SessionsNext]_<<vars, memoryVars, shown>> => TurnInv' /\ MemoryInv'
  <2> SUFFICES ASSUME TurnInv, MemoryInv, [SessionsNext]_<<vars, memoryVars, shown>>
               PROVE  TurnInv' /\ MemoryInv'
    OBVIOUS
  <2>1. [Next]_vars /\ [MemoryNext]_memoryVars
    BY DEF SessionsNext, Shows
  <2> QED BY <2>1, TurnStep, MemoryStep
<1>3. TurnInv => TypeOK
  BY DEF TurnInv
<1>4. MemoryInv => MemoryTypeOK
  BY MemoryTypes
<1> QED BY <1>1, <1>2, <1>3, <1>4, PTL DEF SessionsSpec, SessionsTypeOK
=============================================================================
