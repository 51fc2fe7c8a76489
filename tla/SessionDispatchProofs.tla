------------------------ MODULE SessionDispatchProofs ------------------------
(***************************************************************************)
(* Theorems about SessionDispatch for every set of sessions and messages,  *)
(* every gate size and every queue capacity: lemmas about its queues, type *)
(* correctness, and the inductive invariant by which locks, gate, queues   *)
(* and the places of messages agree, whoever is cancelled and whenever.    *)
(***************************************************************************)
EXTENDS SessionDispatch, SequenceTheorems, FiniteSetTheorems, TLAPS

-----------------------------------------------------------------------------
(* What the operations of a queue do to the set that the queue lists *)

\* The empty queue lists nothing, and only it does.
LEMMA ListsEmpty ==
    /\ Lists(<<>>, {})
    /\ \A E : \A q \in Seq(E) : Lists(q, {}) => q = <<>>
<1>1. Lists(<<>>, {})
  BY DEF Lists, ToSet
<1>2. ASSUME NEW E, NEW q \in Seq(E), Lists(q, {}) PROVE q = <<>>
  <2>1. Len(q) = 0
    <3>1. \A i \in 1..Len(q) : q[i] \in ToSet(q)
      BY DEF ToSet
    <3>2. ToSet(q) = {}
      BY <1>2 DEF Lists
    <3> QED BY <3>1, <3>2, LenProperties
  <2> QED BY <2>1, EmptySeq
<1> QED BY <1>1, <1>2

\* Appending an element that is not listed yet lists it too.
LEMMA ListsAppend ==
    ASSUME NEW E, NEW q \in Seq(E), NEW m \in E, NEW S, Lists(q, S), m \notin S
    PROVE  Lists(Append(q, m), S \cup {m})
<1> DEFINE r == Append(q, m)
<1>1. /\ r \in Seq(E) /\ Len(r) = Len(q) + 1
      /\ \A i \in 1..Len(q) : r[i] = q[i]
      /\ r[Len(q) + 1] = m
  BY AppendProperties
<1>2. Len(q) \in Nat /\ DOMAIN q = 1..Len(q) /\ DOMAIN r = 1..(Len(q) + 1)
  BY <1>1, LenProperties
<1>3. \A i \in 1..Len(q) : q[i] \in S
  BY <1>2 DEF Lists, ToSet
<1>4. ToSet(r) = S \cup {m}
  <2>1. \A x \in S : \E i \in DOMAIN r : r[i] = x
    BY <1>1, <1>2 DEF Lists, ToSet
  <2>2. m \in ToSet(r)
    BY <1>1, <1>2 DEF ToSet
  <2>3. \A i \in DOMAIN r : r[i] \in S \cup {m}
    BY <1>1, <1>2, <1>3
  <2> QED BY <2>1, <2>2, <2>3 DEF ToSet
<1>5. ASSUME NEW i \in DOMAIN r, NEW j \in DOMAIN r, r[i] = r[j] PROVE i = j
  BY <1>1, <1>2, <1>3, <1>5 DEF Lists
<1> QED BY <1>4, <1>5 DEF Lists

\* A suffix lists what the dropped prefix does not hold.
LEMMA ListsSuffix ==
    ASSUME NEW E, NEW q \in Seq(E), NEW S, Lists(q, S), NEW n \in 0..Len(q)
    PROVE  /\ SubSeq(q, n+1, Len(q)) \in Seq(E)
           /\ Lists(SubSeq(q, n+1, Len(q)), S \ {q[i] : i \in 1..n})
<1> DEFINE r == SubSeq(q, n+1, Len(q))
<1>1. Len(q) \in Nat /\ DOMAIN q = 1..Len(q) /\ n \in Nat /\ n <= Len(q)
  BY LenProperties
<1>2. \A i \in n+1..Len(q) : q[i] \in E
  BY <1>1
<1>3. /\ r \in Seq(E) /\ Len(r) = Len(q) - n
      /\ \A i \in 1..(Len(q) - n) : r[i] = q[i + n]
  <2> DEFINE k == n+1
             l == Len(q)
  <2>1. k \in Int /\ l \in Int /\ \A i \in k..l : q[i] \in E
    BY <1>1, <1>2
  <2>2. r = SubSeq(q, k, l)
    OBVIOUS
  <2> HIDE DEF k, l, r
  <2>3. /\ r \in Seq(E)
        /\ Len(r) = IF k <= l THEN l - k + 1 ELSE 0
        /\ \A i \in 1..(l - k + 1) : r[i] = q[k + i - 1]
    BY <2>1, <2>2, SubSeqProperties
  <2>4. k = n+1 /\ l = Len(q)
    BY DEF k, l
  <2>5. l - k + 1 = Len(q) - n /\ (k <= l \/ Len(q) - n = 0)
    <3>1. n \in Int /\ Len(q) \in Int /\ n <= Len(q)
      BY <1>1
    <3>2. \A a, b \in Int : a <= b =>
             b - (a+1) + 1 = b - a /\ (a+1 <= b \/ b - a = 0)
      OBVIOUS
    <3> QED BY <2>4, <3>1, <3>2, Zenon
  <2>6. Len(r) = Len(q) - n
    <3>1. Len(r) = l - k + 1 \/ (~(k <= l) /\ Len(r) = 0)
      BY <2>3, Zenon
    <3> QED BY <2>5, <3>1
  <2>7. ASSUME NEW i \in 1..(Len(q) - n) PROVE r[i] = q[i + n]
    <3>1. k + i - 1 = i + n
      BY <1>1, <2>4
    <3> QED BY <2>3, <2>5, <3>1
  <2> QED BY <2>3, <2>6, <2>7
<1> HIDE DEF r
<1>4. DOMAIN r = 1..(Len(q) - n)
  BY <1>3, LenProperties
<1>5. ToSet(r) = S \ {q[i] : i \in 1..n}
  <2>1. ASSUME NEW i \in DOMAIN r PROVE r[i] \in S \ {q[k] : k \in 1..n}
    <3>1. i + n \in DOMAIN q /\ r[i] = q[i + n]
      BY <1>1, <1>3, <1>4
    <3>2. ASSUME NEW k \in 1..n PROVE r[i] # q[k]
      <4>1. k \in DOMAIN q /\ k # i + n
        BY <1>1, <1>4
      <4> QED BY <3>1, <4>1 DEF Lists
    <3>3. r[i] \in S
      BY <3>1 DEF Lists, ToSet
    <3> QED BY <3>2, <3>3
  <2>2. ASSUME NEW x \in S \ {q[i] : i \in 1..n} PROVE \E i \in DOMAIN r : r[i] = x
    <3>1. PICK k \in 1..Len(q) : q[k] = x
      BY <1>1 DEF Lists, ToSet
    <3>2. k \notin 1..n
      BY <3>1, <2>2
    <3>3. k - n \in 1..(Len(q) - n) /\ (k - n) + n = k
      BY <1>1, <3>2
    <3>4. k - n \in DOMAIN r /\ r[k - n] = q[k]
      BY <1>3, <1>4, <3>3
    <3> QED BY <3>1, <3>4
  <2> QED BY <2>1, <2>2 DEF ToSet
<1>6. ASSUME NEW i \in DOMAIN r, NEW j \in DOMAIN r, r[i] = r[j] PROVE i = j
  <2>1. i + n \in DOMAIN q /\ j + n \in DOMAIN q /\ q[i + n] = q[j + n]
    BY <1>1, <1>3, <1>4, <1>6
  <2>2. i + n = j + n
    BY <2>1 DEF Lists
  <2> QED BY <1>1, <1>4, <2>2
<1> QED BY <1>3, <1>5, <1>6 DEF Lists, r

\* Taking the head leaves a queue that lists the others.
LEMMA ListsTail ==
    ASSUME NEW E, NEW q \in Seq(E), NEW S, Lists(q, S), q # <<>>
    PROVE  /\ Head(q) \in S /\ Tail(q) \in Seq(E)
           /\ Lists(Tail(q), S \ {Head(q)})
<1>1. Len(q) \in Nat /\ DOMAIN q = 1..Len(q) /\ Len(q) > 0 /\ Head(q) = q[1]
  BY EmptySeq, LenProperties
<1>2. Tail(q) = SubSeq(q, 2, Len(q))
  BY TailIsSubSeq
<1>3. {q[i] : i \in 1..1} = {Head(q)}
  BY <1>1
<1>4. 1 \in 0..Len(q) /\ 1+1 = 2
  BY <1>1
<1>5. /\ SubSeq(q, 1+1, Len(q)) \in Seq(E)
      /\ Lists(SubSeq(q, 1+1, Len(q)), S \ {q[i] : i \in 1..1})
  BY <1>4, ListsSuffix
<1>6. Lists(Tail(q), S \ {Head(q)}) /\ Tail(q) \in Seq(E)
  BY <1>2, <1>3, <1>4, <1>5
<1>7. Head(q) \in S
  BY <1>1 DEF Lists, ToSet
<1> QED BY <1>6, <1>7

\* Queues that list disjoint sets can be joined.
LEMMA ListsConcat ==
    ASSUME NEW E, NEW q \in Seq(E), NEW r \in Seq(E), NEW S, NEW T,
           Lists(q, S), Lists(r, T), S \cap T = {}
    PROVE  q \o r \in Seq(E) /\ Lists(q \o r, S \cup T)
<1> DEFINE c == q \o r
<1>1. /\ c \in Seq(E) /\ Len(c) = Len(q) + Len(r)
      /\ \A i \in 1..Len(q) : c[i] = q[i]
      /\ \A i \in 1..Len(r) : c[Len(q) + i] = r[i]
  BY ConcatProperties, LenProperties
<1>2. /\ Len(q) \in Nat /\ DOMAIN q = 1..Len(q)
      /\ Len(r) \in Nat /\ DOMAIN r = 1..Len(r)
      /\ DOMAIN c = 1..(Len(q) + Len(r))
  BY <1>1, LenProperties
<1>3. (\A i \in 1..Len(q) : q[i] \in S) /\ (\A i \in 1..Len(r) : r[i] \in T)
  BY <1>2 DEF Lists, ToSet
<1>4. ASSUME NEW i \in DOMAIN c
      PROVE  \/ i \in 1..Len(q) /\ c[i] = q[i] /\ c[i] \in S
             \/ i - Len(q) \in 1..Len(r) /\ c[i] = r[i - Len(q)] /\ c[i] \in T
  <2>1. CASE i <= Len(q)
    BY <1>1, <1>2, <1>3, <2>1
  <2>2. CASE i > Len(q)
    <3>1. i - Len(q) \in 1..Len(r) /\ i = Len(q) + (i - Len(q))
      BY <1>2, <2>2
    <3> QED BY <1>1, <1>3, <3>1
  <2> QED BY <1>2, <2>1, <2>2
<1>5. ToSet(c) = S \cup T
  <2>1. \A i \in DOMAIN c : c[i] \in S \cup T
    BY <1>4
  <2>2. ASSUME NEW x \in S PROVE \E i \in DOMAIN c : c[i] = x
    <3>1. PICK k \in 1..Len(q) : q[k] = x
      BY <1>2 DEF Lists, ToSet
    <3> QED BY <1>1, <1>2, <3>1
  <2>3. ASSUME NEW x \in T PROVE \E i \in DOMAIN c : c[i] = x
    <3>1. PICK k \in 1..Len(r) : r[k] = x
      BY <1>2 DEF Lists, ToSet
    <3>2. Len(q) + k \in DOMAIN c /\ c[Len(q) + k] = x
      BY <1>1, <1>2, <3>1
    <3> QED BY <3>2
  <2> QED BY <2>1, <2>2, <2>3 DEF ToSet
<1>6. ASSUME NEW i \in DOMAIN c, NEW j \in DOMAIN c, c[i] = c[j] PROVE i = j
  <2>1. CASE i \in 1..Len(q) /\ c[i] = q[i] /\ c[i] \in S
    <3>1. j \in 1..Len(q) /\ c[j] = q[j]
      BY <1>4, <1>6, <2>1
    <3> QED BY <1>2, <1>6, <2>1, <3>1 DEF Lists
  <2>2. CASE i - Len(q) \in 1..Len(r) /\ c[i] = r[i - Len(q)] /\ c[i] \in T
    <3>1. j - Len(q) \in 1..Len(r) /\ c[j] = r[j - Len(q)]
      BY <1>4, <1>6, <2>2
    <3>2. i - Len(q) = j - Len(q)
      BY <1>2, <1>6, <2>2, <3>1 DEF Lists
    <3> QED BY <1>2, <3>2
  <2> QED BY <1>4, <2>1, <2>2
<1> QED BY <1>1, <1>5, <1>6 DEF Lists

\* Removing a waiter from a queue over E leaves a queue over E.
LEMMA WithoutType ==
    ASSUME NEW E, NEW q \in Seq(E), NEW m
    PROVE  Without(q, m) \in Seq(E)
<1>1. CASE \E i \in DOMAIN q : q[i] = m
  <2>1. PICK k \in DOMAIN q : k = CHOOSE i \in DOMAIN q : q[i] = m
    BY <1>1
  <2>2. \A i \in 1 .. k-1 : q[i] \in E
    BY <2>1, LenProperties
  <2>3. \A i \in k+1 .. Len(q) : q[i] \in E
    BY <2>1, LenProperties
  <2>4. SubSeq(q, 1, k-1) \in Seq(E)
    BY <2>1, <2>2, SubSeqProperties, LenProperties
  <2>5. SubSeq(q, k+1, Len(q)) \in Seq(E)
    BY <2>1, <2>3, SubSeqProperties, LenProperties
  <2>6. RemoveAt(q, k) \in Seq(E)
    BY <2>4, <2>5 DEF RemoveAt
  <2> QED BY <1>1, <2>1, <2>6 DEF Without
<1>2. CASE ~ \E i \in DOMAIN q : q[i] = m
  BY <1>2 DEF Without
<1> QED BY <1>1, <1>2

\* A waiter that leaves is no longer listed; the others still are.
LEMMA ListsWithout ==
    ASSUME NEW E, NEW q \in Seq(E), NEW S, Lists(q, S), NEW m
    PROVE  Without(q, m) \in Seq(E) /\ Lists(Without(q, m), S \ {m})
<1>0. Len(q) \in Nat /\ DOMAIN q = 1..Len(q)
  BY LenProperties
<1>1. CASE \E i \in DOMAIN q : q[i] = m
  <2>1. PICK k \in DOMAIN q : k = CHOOSE i \in DOMAIN q : q[i] = m
    BY <1>1
  <2>2. q[k] = m /\ k \in 1..Len(q)
    BY <1>0, <1>1, <2>1
  <2> DEFINE a == SubSeq(q, 1, k-1)
             b == SubSeq(q, k+1, Len(q))
  <2>3. Without(q, m) = a \o b
    BY <1>1, <2>1 DEF Without, RemoveAt
  <2>4. b \in Seq(E) /\ Lists(b, S \ {q[i] : i \in 1..k})
    BY <1>0, <2>2, ListsSuffix
  <2>5. \A i \in 1..k-1 : q[i] \in E
    BY <1>0, <2>2
  <2>6. /\ a \in Seq(E) /\ Len(a) = k-1
        /\ \A i \in 1..k-1 : a[i] = q[i]
    BY <1>0, <2>2, <2>5, SubSeqProperties
  <2>7. DOMAIN a = 1..k-1
    BY <2>6, LenProperties
  <2>8. Lists(a, {q[i] : i \in 1..k-1})
    <3>1. ToSet(a) = {q[i] : i \in 1..k-1}
      BY <2>6, <2>7 DEF ToSet
    <3>2. \A i, j \in DOMAIN a : a[i] = a[j] => i = j
      BY <1>0, <2>2, <2>6, <2>7 DEF Lists
    <3> QED BY <3>1, <3>2 DEF Lists
  <2>9. {q[i] : i \in 1..k-1} \cap (S \ {q[i] : i \in 1..k}) = {}
    BY <2>2
  <2>10. {q[i] : i \in 1..k-1} \cup (S \ {q[i] : i \in 1..k}) = S \ {m}
    <3>1. \A i \in 1..k-1 : q[i] \in S /\ q[i] # m
      BY <1>0, <2>2 DEF Lists, ToSet
    <3>2. {q[i] : i \in 1..k} = {q[i] : i \in 1..k-1} \cup {m}
      <4>1. \A i \in 1..k : i \in 1..k-1 \/ i = k
        BY <2>2
      <4>2. \A i \in 1..k-1 : i \in 1..k
        BY <2>2
      <4> QED BY <2>2, <4>1, <4>2
    <3> QED BY <3>1, <3>2
  <2>11. a \o b \in Seq(E) /\ Lists(a \o b, {q[i] : i \in 1..k-1} \cup (S \ {q[i] : i \in 1..k}))
    BY <2>4, <2>6, <2>8, <2>9, ListsConcat
  <2> QED BY <2>3, <2>10, <2>11
<1>2. CASE ~ \E i \in DOMAIN q : q[i] = m
  BY <1>2 DEF Without, Lists, ToSet
<1> QED BY <1>1, <1>2

-----------------------------------------------------------------------------
(* Type correctness *)

\* Draining takes messages off the front of a queue of messages.
LEMMA DrainType ==
    ASSUME NEW q \in Seq(Messages), NEW n \in Nat
    PROVE  SubSeq(q, n+1, Len(q)) \in Seq(Messages)
<1>1. \A i \in n+1 .. Len(q) : q[i] \in Messages
  BY LenProperties
<1> QED BY <1>1, SubSeqProperties, LenProperties

-----------------------------------------------------------------------------
(* Type correctness, one lemma per group of actions.                        *)

LEMMA TypeInit == Init => TypeOK
BY MessagesAssumption DEF Init, TypeOK, Places, Fates

LEMMA TypeEnvironment ==
    ASSUME TypeOK, NEW m \in Messages, Publish(m) \/ CallDirect(m) \/ AbandonDirect(m)
    PROVE  TypeOK'
<1> USE DEF TypeOK, Places, Fates, bus, locks, turns, tasks, store, Move
<1>1. CASE Publish(m)
  BY <1>1 DEF Publish
<1>2. CASE CallDirect(m)
  BY <1>2 DEF CallDirect
<1>3. CASE AbandonDirect(m)
  BY <1>3 DEF AbandonDirect
<1> QED BY <1>1, <1>2, <1>3

LEMMA ConsumeType ==
    ASSUME TypeOK, NEW m \in Messages, Consume(m)
    PROVE  inbound' \in Seq(Messages)
BY HeadTailProperties DEF TypeOK, Consume

LEMMA TypeRunLoop ==
    ASSUME TypeOK, RunLoop
    PROVE  TypeOK'
<1> USE MessagesAssumption
        DEF TypeOK, Places, Fates, bus, locks, turns, tasks, store, Move, Settle
<1>1. ASSUME NEW m \in Messages, DropUnbound(m) PROVE TypeOK'
  <2>1. inbound' \in Seq(Messages)
    BY <1>1, ConsumeType DEF DropUnbound
  <2> QED BY <1>1, <2>1 DEF DropUnbound
<1>2. ASSUME NEW m \in Messages, RunInline(m) PROVE TypeOK'
  <2>1. inbound' \in Seq(Messages)
    BY <1>2, ConsumeType DEF RunInline
  <2> QED BY <1>2, <2>1 DEF RunInline, CancelActive
<1>3. ASSUME NEW m \in Messages, FinishInline(m) PROVE TypeOK'
  <2>1. pending' \in [Messages -> Seq(Messages)] /\ pendingQueues' \in [Sessions -> Messages \cup {None}]
    <3>1. CASE KindOf[m] = "stop" /\ SessionActive(SessionOf[m])
      <4>1. pendingQueues[SessionOf[m]] \in Messages
        BY <3>1 DEF SessionActive
      <4>2. pending' = [pending EXCEPT ![pendingQueues[SessionOf[m]]] = <<>>]
        BY <1>3, <3>1 DEF FinishInline
      <4>3. pendingQueues' = [pendingQueues EXCEPT ![SessionOf[m]] = None]
        BY <1>3, <3>1 DEF FinishInline
      <4> QED BY <4>1, <4>2, <4>3
    <3>2. CASE ~(KindOf[m] = "stop" /\ SessionActive(SessionOf[m]))
      <4>1. UNCHANGED turns
        BY <1>3, <3>2 DEF FinishInline
      <4> QED BY <4>1
    <3> QED BY <3>1, <3>2
  <2>2. at' \in [Messages -> Places] /\ fate' \in [Messages -> Fates]
    BY <1>3 DEF FinishInline
  <2>3. cached' \subseteq Sessions /\ discarding' \subseteq Sessions
    BY <1>3 DEF FinishInline
  <2> QED BY <1>3, <2>1, <2>2, <2>3 DEF FinishInline
<1>4. ASSUME NEW m \in Messages, Defer(m) PROVE TypeOK'
  <2>1. inbound' \in Seq(Messages)
    BY <1>4, ConsumeType DEF Defer
  <2> QED BY <1>4, <2>1 DEF Defer
<1>5. ASSUME NEW m \in Messages, RouteFollowUp(m) PROVE TypeOK'
  <2>1. inbound' \in Seq(Messages)
    BY <1>5, ConsumeType DEF RouteFollowUp
  <2>2. pendingQueues[SessionOf[m]] \in Messages
    BY <1>5 DEF RouteFollowUp, SessionActive
  <2>3. pending' \in [Messages -> Seq(Messages)]
    <3> DEFINE o == pendingQueues[SessionOf[m]]
    <3>1. pending' = [pending EXCEPT ![o] = Append(@, m)]
      BY <1>5 DEF RouteFollowUp
    <3>2. Append(pending[o], m) \in Seq(Messages)
      BY <2>2, AppendProperties
    <3> QED BY <2>2, <3>1, <3>2
  <2>4. /\ at' = [at EXCEPT ![m] = "queued"]
        /\ UNCHANGED <<fate, deferred, waiters, locks, pendingQueues, tasks, store>>
    BY <1>5 DEF RouteFollowUp
  <2> QED BY <2>1, <2>3, <2>4
<1>6. ASSUME NEW m \in Messages, CreateTask(m) PROVE TypeOK'
  <2>1. inbound' \in Seq(Messages)
    BY <1>6, ConsumeType DEF CreateTask
  <2> QED BY <1>6, <2>1 DEF CreateTask
<1> QED BY <1>1, <1>2, <1>3, <1>4, <1>5, <1>6 DEF RunLoop

LEMMA TypeAdvance ==
    ASSUME TypeOK, NEW m \in Messages, Advance(m)
    PROVE  TypeOK'
<1> USE MessagesAssumption
        DEF TypeOK, Places, Fates, bus, locks, turns, tasks, store, Move
<1>1. ASSUME BeginTurn(m)
      PROVE  /\ at' \in [Messages -> Places] /\ cached' \subseteq Sessions
             /\ pendingQueues' \in [Sessions -> Messages \cup {None}]
             /\ cancel' \subseteq Messages
             /\ activeTasks' \in [Sessions -> SUBSET Messages]
             /\ joining' \in [Messages -> SUBSET Messages]
  <2>1. at' \in [Messages -> Places]
    BY <1>1 DEF BeginTurn, OpenSession
  <2>2. cached' \subseteq Sessions
    BY <1>1 DEF BeginTurn, OpenSession
  <2>3. pendingQueues' \in [Sessions -> Messages \cup {None}]
    BY <1>1 DEF BeginTurn, OpenSession
  <2>4. /\ cancel' \subseteq Messages
        /\ activeTasks' \in [Sessions -> SUBSET Messages]
        /\ joining' \in [Messages -> SUBSET Messages]
    <3>1. CASE CancelActive(m)
      BY <3>1 DEF CancelActive
    <3>2. CASE UNCHANGED <<cancel, activeTasks, joining>>
      BY <3>2
    <3> QED BY <1>1, <3>1, <3>2 DEF BeginTurn, OpenSession
  <2> QED BY <2>1, <2>2, <2>3, <2>4
<1>2. ASSUME WithLock(m)
      PROVE  /\ at' \in [Messages -> Places] /\ cached' \subseteq Sessions
             /\ pendingQueues' \in [Sessions -> Messages \cup {None}]
             /\ cancel' \subseteq Messages
             /\ activeTasks' \in [Sessions -> SUBSET Messages]
             /\ joining' \in [Messages -> SUBSET Messages]
             /\ lock' \in [Sessions -> Messages \cup {None}]
             /\ gate' \subseteq Messages /\ gateQueue' \in Seq(Messages)
  <2>1. lock' \in [Sessions -> Messages \cup {None}]
    BY <1>2 DEF WithLock
  <2>2. CASE IsDirect(m) \/ GateFree
    <3>1. BeginTurn(m) /\ gate' = (IF IsDirect(m) THEN gate ELSE gate \cup {m}) /\ UNCHANGED gateQueue
      BY <1>2, <2>2 DEF WithLock
    <3> QED BY <1>1, <2>1, <3>1
  <2>3. CASE ~(IsDirect(m) \/ GateFree)
    <3>1. /\ at' = [at EXCEPT ![m] = "gateWait"]
          /\ gateQueue' = Append(gateQueue, m)
          /\ UNCHANGED <<gate, cached, pendingQueues, cancel, activeTasks, joining>>
      BY <1>2, <2>3 DEF WithLock
    <3>2. gateQueue' \in Seq(Messages)
      BY <3>1, AppendProperties
    <3> QED BY <2>1, <3>1, <3>2
  <2> QED BY <2>2, <2>3
<1>3. CASE Start(m)
  <2>1. CASE LockFree(SessionOf[m])
    BY <1>2, <1>3, <2>1 DEF Start
  <2>2. CASE ~LockFree(SessionOf[m])
    <3>1. /\ at' = [at EXCEPT ![m] = "lockWait"]
          /\ lockQueue' = [lockQueue EXCEPT ![SessionOf[m]] = Append(@, m)]
          /\ UNCHANGED <<lock, gate, gateQueue, cached, pendingQueues,
                         cancel, activeTasks, joining>>
          /\ UNCHANGED <<fate, bus, pending, inline, discarding>>
      BY <1>3, <2>2 DEF Start
    <3>2. Append(lockQueue[SessionOf[m]], m) \in Seq(Messages)
      BY AppendProperties
    <3> QED BY <3>1, <3>2
  <2> QED BY <2>1, <2>2
<1>4. CASE AcquireLock(m)
  <2>1. lockQueue' \in [Sessions -> Seq(Messages)]
    BY <1>4, HeadTailProperties DEF AcquireLock
  <2> QED BY <1>2, <1>4, <2>1 DEF AcquireLock
<1>5. CASE TakeGate(m)
  <2>1. gateQueue' \in Seq(Messages)
    BY <1>5, HeadTailProperties DEF TakeGate
  <2> QED BY <1>1, <1>5, <2>1 DEF TakeGate
<1> QED BY <1>3, <1>4, <1>5 DEF Advance

LEMMA TypeDrain ==
    ASSUME TypeOK, NEW m \in Messages, Drain(m)
    PROVE  TypeOK'
<1> USE DEF TypeOK, Places, Fates, bus, locks, turns, tasks, store
<1>1. pending' \in [Messages -> Seq(Messages)]
  BY DrainType, BoundsAssumption, LenProperties DEF Drain
<1> QED BY <1>1 DEF Drain

LEMMA TypeRepublish ==
    ASSUME TypeOK, NEW seq \in Seq(Messages), NEW s \in Sessions,
           NEW m \in Messages, NEW f \in Fates, Republish(seq, s, m, f)
    PROVE  /\ inbound' \in Seq(Messages)
           /\ deferred' \in [Sessions -> Seq(Messages)]
           /\ at' \in [Messages -> Places] /\ fate' \in [Messages -> Fates]
<1>1. NextDeferred(s) \in Seq(Messages) /\ RestDeferred(s) \in Seq(Messages)
  BY HeadTailProperties DEF TypeOK, NextDeferred, RestDeferred
<1> QED BY <1>1, ConcatProperties DEF Republish, TypeOK, Places

LEMMA TypeEnd ==
    ASSUME TypeOK, NEW m \in Messages, End(m)
    PROVE  TypeOK'
<1> USE MessagesAssumption
        DEF TypeOK, Places, Fates, bus, locks, turns, tasks, store, Move, Settle, TaskDone
<1>1. ASSUME NEW f \in Fates, EndTurn(m, f) PROVE TypeOK'
  <2>1. Republish(pending[m], SessionOf[m], m, f)
    BY <1>1 DEF EndTurn, Leftovers
  <2>2. /\ inbound' \in Seq(Messages)
        /\ deferred' \in [Sessions -> Seq(Messages)]
        /\ at' \in [Messages -> Places] /\ fate' \in [Messages -> Fates]
    BY <2>1, TypeRepublish
  <2>3. cached' \subseteq Sessions
    BY <1>1 DEF EndTurn, CacheAfter
  <2>4. pendingQueues' \in [Sessions -> Messages \cup {None}]
    BY <1>1 DEF EndTurn, WithdrawQueue
  <2>5. waiters' \subseteq Messages
    BY <1>1 DEF EndTurn, StillWaiting
  <2>6. /\ pending' = [pending EXCEPT ![m] = <<>>]
        /\ joining' = [joining EXCEPT ![m] = {}]
        /\ lock' = [lock EXCEPT ![SessionOf[m]] = None]
        /\ gate' = gate \ {m}
        /\ cancel' = cancel \ {m}
        /\ activeTasks' = [activeTasks EXCEPT ![SessionOf[m]] = @ \ {m}]
        /\ UNCHANGED <<inline, lockQueue, gateQueue, discarding>>
    BY <1>1 DEF EndTurn
  <2> QED BY <2>2, <2>3, <2>4, <2>5, <2>6
<1>2. ASSUME NEW f \in Fates, EndDirect(m, f) PROVE TypeOK'
  BY <1>2 DEF EndDirect
<1>3. CASE CancelUnstarted(m)
  BY <1>3 DEF CancelUnstarted
<1>4. CASE CancelWaiting(m)
  <2>1. Without(gateQueue, m) \in Seq(Messages)
    BY WithoutType
  <2>2. Without(lockQueue[SessionOf[m]], m) \in Seq(Messages)
    BY WithoutType
  <2>3. CASE IsDirect(m)
    BY <1>4, <2>1, <2>2, <2>3 DEF CancelWaiting
  <2>4. CASE ~IsDirect(m)
    <3>1. /\ inbound' \in Seq(Messages)
          /\ deferred' \in [Sessions -> Seq(Messages)]
          /\ at' \in [Messages -> Places] /\ fate' \in [Messages -> Fates]
      BY <1>4, <2>4, TypeRepublish, EmptySeq DEF CancelWaiting
    <3> QED BY <1>4, <2>1, <2>2, <3>1 DEF CancelWaiting
  <2> QED BY <2>3, <2>4
<1> QED BY <1>1, <1>2, <1>3, <1>4 DEF End

LEMMA TypeStep == TypeOK /\ [Next]_vars => TypeOK'
<1> SUFFICES ASSUME TypeOK, [Next]_vars PROVE TypeOK'
  OBVIOUS
<1>1. CASE UNCHANGED vars
  BY <1>1 DEF TypeOK, vars, bus, locks, turns, tasks, store
<1>2. CASE Next
  BY <1>2, TypeEnvironment, TypeRunLoop, TypeAdvance, TypeDrain, TypeEnd DEF Next
<1> QED BY <1>1, <1>2

\* Every queue, lock and set of the dispatcher only ever holds messages, every
\* message is in one of its places.
THEOREM TypeCorrect == Spec => []TypeOK
BY TypeInit, TypeStep, PTL DEF Spec

-----------------------------------------------------------------------------
(* The inductive invariant *)

\* A task holds its session's lock exactly while it is inside `async with`.
LockInv ==
    \A m \in Messages, s \in Sessions :
        lock[s] = m <=> at[m] \in HoldLock /\ SessionOf[m] = s

\* The gate's slots are taken by the bus turns that run.
GateInv ==
    /\ gate = {m \in Messages : at[m] \in InTurn /\ ~IsDirect(m)}
    /\ Cardinality(gate) <= GateSlots
    /\ \A m \in Messages : at[m] = "gateWait" => ~IsDirect(m)

\* A published queue belongs to a bus turn that runs in that session.
QueueInv ==
    \A s \in Sessions : pendingQueues[s] # None =>
        /\ SessionOf[pendingQueues[s]] = s
        /\ at[pendingQueues[s]] \in InTurn
        /\ ~IsDirect(pendingQueues[s])

InlineInv == inline # None => at[inline] = "inline"

\* The inductive invariant.
IInv ==
    /\ TypeOK /\ LockInv /\ GateInv /\ QueueInv /\ InlineInv
    /\ BusHoldsOnce /\ FollowUpsHeldOnce /\ WaitersQueued

-----------------------------------------------------------------------------
(* What a step leaves alone.                                                *)

\* The step moves no message to or from place p.
Same(p) == \A t \in Messages : at'[t] = p <=> at[t] = p
\* It starts and ends no turn, and nobody takes or leaves a lock.
SameTurns == \A t \in Messages : /\ at'[t] \in InTurn <=> at[t] \in InTurn
                                 /\ at'[t] \in HoldLock <=> at[t] \in HoldLock

LEMMA BusSame ==
    ASSUME BusHoldsOnce, UNCHANGED <<inbound, deferred>>, Same("inbound"), Same("deferred")
    PROVE  BusHoldsOnce'
<1>1. {t \in Messages : at'[t] = "inbound"} = {t \in Messages : at[t] = "inbound"}
  BY DEF Same
<1>2. \A s \in Sessions : Placed("deferred", s)' = Placed("deferred", s)
  BY DEF Same, Placed
<1> QED BY <1>1, <1>2 DEF BusHoldsOnce

LEMMA FollowUpsSame ==
    ASSUME FollowUpsHeldOnce, UNCHANGED <<pendingQueues, pending>>, Same("queued")
    PROVE  FollowUpsHeldOnce'
<1>1. \A s \in Sessions : Placed("queued", s)' = Placed("queued", s)
  BY DEF Same, Placed
<1> QED BY <1>1 DEF FollowUpsHeldOnce

LEMMA WaitersSame ==
    ASSUME WaitersQueued, UNCHANGED <<gateQueue, lockQueue>>, Same("gateWait"), Same("lockWait")
    PROVE  WaitersQueued'
<1>1. {t \in Messages : at'[t] = "gateWait"} = {t \in Messages : at[t] = "gateWait"}
  BY DEF Same
<1>2. \A s \in Sessions : Placed("lockWait", s)' = Placed("lockWait", s)
  BY DEF Same, Placed
<1> QED BY <1>1, <1>2 DEF WaitersQueued

LEMMA TurnsSame ==
    ASSUME LockInv, GateInv, QueueInv, UNCHANGED <<lock, gate, pendingQueues>>,
           SameTurns, Same("gateWait"), TypeOK
    PROVE  LockInv' /\ GateInv' /\ QueueInv'
<1>1. LockInv'
  BY DEF LockInv, SameTurns
<1>2. GateInv'
  <2>1. {m \in Messages : at'[m] \in InTurn /\ ~IsDirect(m)}
          = {m \in Messages : at[m] \in InTurn /\ ~IsDirect(m)}
    BY DEF SameTurns
  <2> QED BY <2>1 DEF GateInv, Same, IsDirect
<1>3. QueueInv'
  <2>1. \A s \in Sessions : pendingQueues[s] # None => pendingQueues[s] \in Messages
    BY DEF TypeOK
  <2> QED BY <2>1 DEF QueueInv, SameTurns, IsDirect
<1> QED BY <1>1, <1>2, <1>3

LEMMA InlineSame ==
    ASSUME InlineInv, UNCHANGED inline, Same("inline"), TypeOK
    PROVE  InlineInv'
<1>1. inline # None => inline \in Messages
  BY DEF TypeOK
<1> QED BY <1>1 DEF InlineInv, Same

\* What moving one message does to the sets that the queues list.
LEMMA Moved ==
    ASSUME TypeOK, NEW m \in Messages, NEW p, NEW q, at[m] = q, p # q, Move(m, p)
    PROVE  /\ at'[m] = p /\ \A t \in Messages : t # m => at'[t] = at[t]
           /\ {t \in Messages : at'[t] = p} = {t \in Messages : at[t] = p} \cup {m}
           /\ {t \in Messages : at'[t] = q} = {t \in Messages : at[t] = q} \ {m}
           /\ Placed(p, SessionOf[m])' = Placed(p, SessionOf[m]) \cup {m}
           /\ Placed(q, SessionOf[m])' = Placed(q, SessionOf[m]) \ {m}
           /\ \A s \in Sessions : s # SessionOf[m] =>
                 Placed(p, s)' = Placed(p, s) /\ Placed(q, s)' = Placed(q, s)
           /\ \A r : r # p /\ r # q => Same(r)
<1>1. at'[m] = p /\ \A t \in Messages : t # m => at'[t] = at[t]
  BY DEF Move, TypeOK
<1>2. /\ {t \in Messages : at'[t] = p} = {t \in Messages : at[t] = p} \cup {m}
      /\ {t \in Messages : at'[t] = q} = {t \in Messages : at[t] = q} \ {m}
  BY <1>1
<1>3. /\ Placed(p, SessionOf[m])' = Placed(p, SessionOf[m]) \cup {m}
      /\ Placed(q, SessionOf[m])' = Placed(q, SessionOf[m]) \ {m}
  BY <1>1 DEF Placed
<1>4. ASSUME NEW s \in Sessions, s # SessionOf[m]
      PROVE  Placed(p, s)' = Placed(p, s) /\ Placed(q, s)' = Placed(q, s)
  BY <1>1, <1>4 DEF Placed
<1>5. \A r : r # p /\ r # q => Same(r)
  BY <1>1 DEF Same
<1> QED BY <1>1, <1>2, <1>3, <1>4, <1>5

\* A message that is in none of these places can be moved to a new one without
\* anybody's lock or turn changing.
LEMMA MovedOutside ==
    ASSUME TypeOK, NEW m \in Messages, NEW p, Move(m, p),
           p \notin HoldLock, at[m] \notin HoldLock
    PROVE  SameTurns
BY DEF TypeOK, Move, SameTurns, HoldLock, InTurn

-----------------------------------------------------------------------------
(* The environment and the run loop.                                        *)

LEMMA InvEnvironment ==
    ASSUME IInv, NEW m \in Messages, Publish(m) \/ CallDirect(m) \/ AbandonDirect(m)
    PROVE  LockInv' /\ GateInv' /\ QueueInv' /\ InlineInv'
           /\ BusHoldsOnce' /\ FollowUpsHeldOnce' /\ WaitersQueued'
<1> USE DEF IInv, bus, locks, turns, tasks, store
<1>1. CASE Publish(m)
  <2>1. /\ at[m] = "unsent" /\ Move(m, "inbound") /\ inbound' = Append(inbound, m)
        /\ UNCHANGED <<deferred, locks, turns, inline>>
    BY <1>1 DEF Publish
  <2>2. BusHoldsOnce'
    <3> DEFINE S == {t \in Messages : at[t] = "inbound"}
    <3>a. inbound \in Seq(Messages) /\ Lists(inbound, S) /\ m \notin S
      BY <2>1 DEF BusHoldsOnce, TypeOK
    <3>b. Lists(Append(inbound, m), S \cup {m})
      BY <3>a, ListsAppend
    <3>c. TypeOK /\ at[m] = "unsent" /\ Move(m, "inbound")
      BY <2>1
    <3>d. {t \in Messages : at'[t] = "inbound"} = S \cup {m}
      BY <3>c, Moved
    <3> HIDE DEF S
    <3>1. Lists(inbound', {t \in Messages : at'[t] = "inbound"})
      BY <2>1, <3>b, <3>d
    <3>2. Same("deferred")
      BY <2>1, Moved
    <3>3. \A s \in Sessions : Placed("deferred", s)' = Placed("deferred", s)
      BY <3>2 DEF Same, Placed
    <3> QED BY <2>1, <3>1, <3>3 DEF BusHoldsOnce
  <2>3. Same("queued") /\ Same("gateWait") /\ Same("lockWait") /\ Same("inline")
    BY <2>1, Moved
  <2>4. SameTurns
    BY <2>1, MovedOutside DEF HoldLock, InTurn
  <2> QED BY <2>1, <2>2, <2>3, <2>4, FollowUpsSame, WaitersSame, TurnsSame, InlineSame
<1>2. CASE CallDirect(m)
  <2>1. /\ at[m] = "unsent" /\ Move(m, "created")
        /\ UNCHANGED <<bus, locks, turns, inline>>
    BY <1>2 DEF CallDirect
  <2>2. /\ Same("inbound") /\ Same("deferred") /\ Same("queued")
        /\ Same("gateWait") /\ Same("lockWait") /\ Same("inline")
    BY <2>1, Moved
  <2>3. SameTurns
    BY <2>1, MovedOutside DEF HoldLock, InTurn
  <2> QED BY <2>1, <2>2, <2>3, BusSame, FollowUpsSame, WaitersSame, TurnsSame, InlineSame
<1>3. CASE AbandonDirect(m)
  <2>1. UNCHANGED <<at, bus, locks, turns, inline>>
    BY <1>3 DEF AbandonDirect
  <2>2. SameTurns /\ \A p : Same(p)
    BY <2>1 DEF Same, SameTurns
  <2> QED BY <2>1, <2>2, BusSame, FollowUpsSame, WaitersSame, TurnsSame, InlineSame
<1> QED BY <1>1, <1>2, <1>3

\* The message that is consumed is no longer on the bus.
LEMMA Consumed ==
    ASSUME IInv, NEW m \in Messages, Consume(m)
    PROVE  /\ at[m] = "inbound"
           /\ inbound' \in Seq(Messages)
           /\ Lists(inbound', {t \in Messages : at[t] = "inbound"} \ {m})
<1>1. /\ inbound \in Seq(Messages) /\ inbound # <<>> /\ m = Head(inbound)
      /\ inbound' = Tail(inbound)
      /\ Lists(inbound, {t \in Messages : at[t] = "inbound"})
  BY DEF IInv, TypeOK, BusHoldsOnce, Consume
<1>2. /\ Head(inbound) \in {t \in Messages : at[t] = "inbound"} /\ Tail(inbound) \in Seq(Messages)
      /\ Lists(Tail(inbound), {t \in Messages : at[t] = "inbound"} \ {Head(inbound)})
  BY <1>1, ListsTail
<1> QED BY <1>1, <1>2

\* The bus after its first message has been moved to another place.
LEMMA ConsumedTo ==
    ASSUME IInv, NEW m \in Messages, Consume(m), NEW p, p # "inbound", p # "deferred",
           Move(m, p), UNCHANGED deferred
    PROVE  BusHoldsOnce'
<1>a. /\ TypeOK /\ at[m] = "inbound"
      /\ Lists(inbound', {t \in Messages : at[t] = "inbound"} \ {m})
  BY Consumed DEF IInv
<1>1. Lists(inbound', {t \in Messages : at'[t] = "inbound"})
  BY <1>a, Moved
<1>2. Same("deferred")
  BY <1>a, Moved
<1>3. \A s \in Sessions : Placed("deferred", s)' = Placed("deferred", s)
  BY <1>2 DEF Same, Placed
<1> QED BY <1>1, <1>3 DEF BusHoldsOnce, IInv

\* Queues kept by session, after message m has joined the one of its session.
LEMMA Joined ==
    ASSUME TypeOK, NEW Q \in [Sessions -> Seq(Messages)], NEW m \in Messages,
           NEW p, NEW q, at[m] = q, p # q, Move(m, p),
           \A s \in Sessions : Lists(Q[s], Placed(p, s)),
           NEW R, R = [Q EXCEPT ![SessionOf[m]] = Append(@, m)]
    PROVE  \A s \in Sessions : Lists(R[s], Placed(p, s)')
<1> SUFFICES ASSUME NEW s \in Sessions PROVE Lists(R[s], Placed(p, s)')
  OBVIOUS
<1>1. CASE s = SessionOf[m]
  <2>1. m \notin Placed(p, s)
    BY DEF Placed
  <2>2. Lists(Append(Q[s], m), Placed(p, s) \cup {m})
    BY <2>1, ListsAppend
  <2>3. Placed(p, s)' = Placed(p, s) \cup {m}
    <3>1. at'[m] = p /\ \A t \in Messages : t # m => at'[t] = at[t]
      BY DEF Move, TypeOK
    <3> QED BY <1>1, <3>1 DEF Placed
  <2>4. R[s] = Append(Q[s], m)
    BY <1>1
  <2> QED BY <2>2, <2>3, <2>4
<1>2. CASE s # SessionOf[m]
  <2>1. Placed(p, s)' = Placed(p, s)
    BY <1>2, Moved
  <2>2. R[s] = Q[s]
    BY <1>2
  <2> QED BY <2>1, <2>2
<1> QED BY <1>1, <1>2

LEMMA InvRouting ==
    ASSUME IInv, NEW m \in Messages,
           DropUnbound(m) \/ RunInline(m) \/ Defer(m) \/ RouteFollowUp(m) \/ CreateTask(m)
    PROVE  LockInv' /\ GateInv' /\ QueueInv' /\ InlineInv'
           /\ BusHoldsOnce' /\ FollowUpsHeldOnce' /\ WaitersQueued'
<1>0. /\ TypeOK /\ LockInv /\ GateInv /\ QueueInv /\ InlineInv
      /\ BusHoldsOnce /\ FollowUpsHeldOnce /\ WaitersQueued
  BY DEF IInv
<1>1. ASSUME NEW p, p \notin HoldLock \cup {"inbound"}, Consume(m), Move(m, p),
             UNCHANGED <<lock, gate, pendingQueues>>, p # "gateWait"
      PROVE  LockInv' /\ GateInv' /\ QueueInv' /\ (\A r : r # p /\ r # "inbound" => Same(r))
  <2>1. at[m] = "inbound" /\ at[m] \notin HoldLock
    BY <1>1, Consumed DEF HoldLock, InTurn
  <2>2. \A r : r # p /\ r # "inbound" => Same(r)
    BY <1>0, <1>1, <2>1, Moved
  <2>3. SameTurns
    BY <1>0, <1>1, <2>1, MovedOutside
  <2>4. Same("gateWait")
    BY <1>1, <2>2
  <2> QED BY <1>0, <1>1, <2>2, <2>3, <2>4, TurnsSame
<1>2. CASE DropUnbound(m)
  <2>1. /\ Consume(m) /\ Move(m, "done")
        /\ UNCHANGED <<deferred, inline, lock, lockQueue, gate, gateQueue, pendingQueues, pending>>
    BY <1>2 DEF DropUnbound, Settle, locks, turns, tasks
  <2>2. /\ LockInv' /\ GateInv' /\ QueueInv'
        /\ Same("inline") /\ Same("queued") /\ Same("gateWait") /\ Same("lockWait")
    BY <1>1, <2>1 DEF HoldLock, InTurn
  <2>3. BusHoldsOnce'
    BY <2>1, ConsumedTo
  <2> QED BY <1>0, <2>1, <2>2, <2>3, FollowUpsSame, WaitersSame, InlineSame
<1>3. CASE RunInline(m)
  <2>1. /\ Consume(m) /\ Move(m, "inline") /\ inline' = m
        /\ UNCHANGED <<deferred, lock, lockQueue, gate, gateQueue, pendingQueues, pending>>
    BY <1>3 DEF RunInline, locks, turns
  <2>2. /\ LockInv' /\ GateInv' /\ QueueInv'
        /\ Same("queued") /\ Same("gateWait") /\ Same("lockWait")
    BY <1>1, <2>1 DEF HoldLock, InTurn
  <2>3. BusHoldsOnce'
    BY <2>1, ConsumedTo
  <2>4. InlineInv'
    BY <1>0, <2>1 DEF InlineInv, Move, TypeOK
  <2> QED BY <1>0, <2>1, <2>2, <2>3, <2>4, FollowUpsSame, WaitersSame
<1>4. CASE Defer(m)
  <2>1. /\ Consume(m) /\ Move(m, "deferred")
        /\ deferred' = [deferred EXCEPT ![SessionOf[m]] = Append(@, m)]
        /\ UNCHANGED <<inline, lock, lockQueue, gate, gateQueue, pendingQueues, pending>>
    BY <1>4 DEF Defer, locks, turns, tasks
  <2>2. /\ LockInv' /\ GateInv' /\ QueueInv'
        /\ Same("inline") /\ Same("queued") /\ Same("gateWait") /\ Same("lockWait")
    BY <1>1, <2>1 DEF HoldLock, InTurn
  <2>3. BusHoldsOnce'
    <3>1. /\ at[m] = "inbound"
          /\ Lists(inbound', {t \in Messages : at[t] = "inbound"} \ {m})
      BY <2>1, Consumed
    <3>2. {t \in Messages : at'[t] = "inbound"} = {t \in Messages : at[t] = "inbound"} \ {m}
      BY <1>0, <2>1, <3>1, Moved
    <3>3. /\ deferred \in [Sessions -> Seq(Messages)]
          /\ \A s \in Sessions : Lists(deferred[s], Placed("deferred", s))
      BY <1>0 DEF BusHoldsOnce, TypeOK
    <3>4. \A s \in Sessions : Lists(deferred'[s], Placed("deferred", s)')
      BY <1>0, <2>1, <3>1, <3>3, Joined
    <3> QED BY <3>1, <3>2, <3>4 DEF BusHoldsOnce
  <2> QED BY <1>0, <2>1, <2>2, <2>3, FollowUpsSame, WaitersSame, InlineSame
<1>5. CASE RouteFollowUp(m)
  <2> DEFINE s == SessionOf[m]
             o == pendingQueues[s]
  <2>1. /\ Consume(m) /\ Move(m, "queued") /\ o # None
        /\ pending' = [pending EXCEPT ![o] = Append(@, m)]
        /\ UNCHANGED <<deferred, inline, lock, lockQueue, gate, gateQueue, pendingQueues>>
    BY <1>5 DEF RouteFollowUp, SessionActive, locks, tasks
  <2>2. /\ LockInv' /\ GateInv' /\ QueueInv'
        /\ Same("inline") /\ Same("gateWait") /\ Same("lockWait")
    BY <1>1, <2>1 DEF HoldLock, InTurn
  <2>3. BusHoldsOnce'
    BY <2>1, ConsumedTo
  <2>4. s \in Sessions /\ o \in Messages /\ SessionOf[o] = s /\ at[m] = "inbound"
    BY <1>0, <2>1, Consumed, MessagesAssumption DEF TypeOK, QueueInv
  <2>5. FollowUpsHeldOnce'
    <3>1. ASSUME NEW r \in Sessions
          PROVE  IF pendingQueues'[r] = None THEN Placed("queued", r)' = {}
                 ELSE Lists(pending'[pendingQueues'[r]], Placed("queued", r)')
      <4>1. CASE r = s
        <5>1. Lists(pending[o], Placed("queued", s)) /\ pending[o] \in Seq(Messages)
          BY <1>0, <2>1, <2>4 DEF FollowUpsHeldOnce, TypeOK
        <5>2. m \notin Placed("queued", s)
          BY <2>4 DEF Placed
        <5>3. Lists(Append(pending[o], m), Placed("queued", s) \cup {m})
          BY <5>1, <5>2, ListsAppend
        <5>4. Placed("queued", s)' = Placed("queued", s) \cup {m}
          BY <1>0, <2>1, <2>4, Moved
        <5>5. pending'[o] = Append(pending[o], m)
          BY <1>0, <2>1, <2>4 DEF TypeOK
        <5> QED BY <2>1, <4>1, <5>3, <5>4, <5>5
      <4>2. CASE r # s
        <5>1. Placed("queued", r)' = Placed("queued", r)
          BY <1>0, <2>1, <2>4, <4>2, Moved
        <5>2. pendingQueues[r] # None => pendingQueues[r] \in Messages /\ pendingQueues[r] # o
          BY <1>0, <2>4, <4>2 DEF QueueInv, TypeOK
        <5>3. pendingQueues[r] # None => pending'[pendingQueues[r]] = pending[pendingQueues[r]]
          BY <1>0, <2>1, <5>2 DEF TypeOK
        <5> QED BY <1>0, <2>1, <5>1, <5>3 DEF FollowUpsHeldOnce
      <4> QED BY <4>1, <4>2
    <3>2. ASSUME NEW t \in Messages, pending'[t] # <<>> PROVE pendingQueues'[SessionOf[t]] = t
      <4>1. CASE t = o
        BY <2>1, <2>4, <4>1
      <4>2. CASE t # o
        BY <1>0, <2>1, <2>4, <3>2, <4>2 DEF FollowUpsHeldOnce, TypeOK
      <4> QED BY <4>1, <4>2
    <3> QED BY <3>1, <3>2 DEF FollowUpsHeldOnce
  <2> QED BY <1>0, <2>1, <2>2, <2>3, <2>5, WaitersSame, InlineSame
<1>6. CASE CreateTask(m)
  <2>1. /\ Consume(m) /\ Move(m, "created")
        /\ UNCHANGED <<deferred, inline, lock, lockQueue, gate, gateQueue, pendingQueues, pending>>
    BY <1>6 DEF CreateTask, locks, turns
  <2>2. /\ LockInv' /\ GateInv' /\ QueueInv'
        /\ Same("inline") /\ Same("queued") /\ Same("gateWait") /\ Same("lockWait")
    BY <1>1, <2>1 DEF HoldLock, InTurn
  <2>3. BusHoldsOnce'
    BY <2>1, ConsumedTo
  <2> QED BY <1>0, <2>1, <2>2, <2>3, FollowUpsSame, WaitersSame, InlineSame
<1> QED BY <1>2, <1>3, <1>4, <1>5, <1>6

\* The follow-ups that the command m throws away.
Stops(m)     == KindOf[m] = "stop" /\ SessionActive(SessionOf[m])
Discarded(m) == IF Stops(m) THEN Placed("queued", SessionOf[m]) ELSE {}

\* A command settles itself and, if it is /stop, exactly the follow-ups that
\* are still queued in its session.
LEMMA FinishMoves ==
    ASSUME IInv, NEW m \in Messages, FinishInline(m)
    PROVE  /\ at[m] = "inline"
           /\ \A t \in Messages :
                 at'[t] = IF t \in Discarded(m) \cup {m} THEN "done" ELSE at[t]
<1> DEFINE s == SessionOf[m]
           drained == IF Stops(m) THEN ToSet(pending[pendingQueues[s]]) ELSE {}
<1>1. /\ inline = m
      /\ at' = [t \in Messages |-> IF t \in drained \cup {m} THEN "done" ELSE at[t]]
  BY DEF FinishInline, Stops
<1>2. at[m] = "inline" /\ s \in Sessions
  BY <1>1, MessagesAssumption DEF IInv, InlineInv
<1>3. drained = Discarded(m)
  BY <1>2 DEF IInv, FollowUpsHeldOnce, Lists, SessionActive, Stops, Discarded
<1> HIDE DEF drained
<1> QED BY <1>1, <1>2, <1>3

LEMMA InvFinishInline ==
    ASSUME IInv, NEW m \in Messages, FinishInline(m)
    PROVE  LockInv' /\ GateInv' /\ QueueInv' /\ InlineInv'
           /\ BusHoldsOnce' /\ FollowUpsHeldOnce' /\ WaitersQueued'
<1> DEFINE s == SessionOf[m]
           stops == KindOf[m] = "stop" /\ SessionActive(s)
<1>0. /\ TypeOK /\ LockInv /\ GateInv /\ QueueInv /\ InlineInv
      /\ BusHoldsOnce /\ FollowUpsHeldOnce /\ WaitersQueued
  BY DEF IInv
<1>1. /\ inline = m /\ inline' = None
      /\ UNCHANGED <<inbound, deferred, lock, lockQueue, gate, gateQueue>>
      /\ IF stops
         THEN /\ pending' = [pending EXCEPT ![pendingQueues[s]] = <<>>]
              /\ pendingQueues' = [pendingQueues EXCEPT ![s] = None]
         ELSE UNCHANGED turns
  BY DEF FinishInline, bus, locks
<1>2. at[m] = "inline" /\ s \in Sessions
  BY FinishMoves, MessagesAssumption
<1>4. \A t \in Messages : IF t = m \/ (stops /\ at[t] = "queued" /\ SessionOf[t] = s)
                          THEN at'[t] = "done" ELSE at'[t] = at[t]
  <2>1. Discarded(m) = IF stops THEN Placed("queued", s) ELSE {}
    BY DEF Discarded, Stops
  <2> QED BY <2>1, FinishMoves DEF Placed
<1>5. /\ SameTurns /\ Same("inbound") /\ Same("deferred")
      /\ Same("gateWait") /\ Same("lockWait")
  BY <1>2, <1>4 DEF SameTurns, Same, InTurn, HoldLock
<1>6. BusHoldsOnce' /\ WaitersQueued'
  BY <1>0, <1>1, <1>5, BusSame, WaitersSame
<1>7. InlineInv'
  BY <1>1 DEF InlineInv
<1>8. CASE ~stops
  <2>1. UNCHANGED <<pending, pendingQueues>> /\ Same("queued")
    BY <1>1, <1>2, <1>4, <1>8 DEF turns, Same
  <2> QED BY <1>0, <1>1, <1>5, <1>6, <1>7, <2>1, TurnsSame, FollowUpsSame
<1>9. CASE stops
  <2> DEFINE o == pendingQueues[s]
  <2>1. /\ o \in Messages /\ SessionOf[o] = s /\ o # None
        /\ pending' = [pending EXCEPT ![o] = <<>>]
        /\ pendingQueues' = [pendingQueues EXCEPT ![s] = None]
    BY <1>0, <1>1, <1>2, <1>9 DEF TypeOK, QueueInv, SessionActive
  <2>2. pendingQueues'[s] = None /\ \A r \in Sessions : r # s => pendingQueues'[r] = pendingQueues[r]
    BY <1>0, <1>2, <2>1 DEF TypeOK
  <2>3. pending'[o] = <<>> /\ \A t \in Messages : t # o => pending'[t] = pending[t]
    BY <1>0, <2>1 DEF TypeOK
  <2>4. LockInv'
    BY <1>0, <1>1, <1>5 DEF LockInv, SameTurns
  <2>5. GateInv'
    <3>1. {t \in Messages : at'[t] \in InTurn /\ ~IsDirect(t)}
            = {t \in Messages : at[t] \in InTurn /\ ~IsDirect(t)}
      BY <1>5 DEF SameTurns
    <3> QED BY <1>0, <1>1, <1>5, <3>1 DEF GateInv, Same, IsDirect
  <2>6. QueueInv'
    <3>1. \A r \in Sessions : pendingQueues[r] # None => pendingQueues[r] \in Messages
      BY <1>0 DEF TypeOK
    <3> QED BY <1>0, <1>5, <2>2, <3>1 DEF QueueInv, SameTurns, IsDirect
  <2>7. FollowUpsHeldOnce'
    <3>1. Placed("queued", s)' = {}
      BY <1>4, <1>9 DEF Placed
    <3>2. ASSUME NEW r \in Sessions, r # s
          PROVE  IF pendingQueues'[r] = None THEN Placed("queued", r)' = {}
                 ELSE Lists(pending'[pendingQueues'[r]], Placed("queued", r)')
      <4>1. Placed("queued", r)' = Placed("queued", r)
        BY <1>2, <1>4, <3>2 DEF Placed
      <4>2. pendingQueues[r] # None => pendingQueues[r] \in Messages /\ pendingQueues[r] # o
        BY <1>0, <2>1, <3>2 DEF QueueInv, TypeOK
      <4> QED BY <1>0, <2>2, <2>3, <3>2, <4>1, <4>2 DEF FollowUpsHeldOnce
    <3>3. ASSUME NEW t \in Messages, pending'[t] # <<>> PROVE pendingQueues'[SessionOf[t]] = t
      <4>1. t # o /\ pending[t] # <<>>
        BY <2>3, <3>3
      <4>2. pendingQueues[SessionOf[t]] = t
        BY <1>0, <4>1 DEF FollowUpsHeldOnce
      <4>3. SessionOf[t] \in Sessions /\ SessionOf[t] # s
        BY <4>1, <4>2, MessagesAssumption
      <4> QED BY <2>2, <4>2, <4>3
    <3> QED BY <2>2, <3>1, <3>2, <3>3 DEF FollowUpsHeldOnce
  <2> QED BY <1>6, <1>7, <2>4, <2>5, <2>6, <2>7
<1> QED BY <1>8, <1>9

-----------------------------------------------------------------------------
(* A task takes the lock and the gate and its turn begins.                  *)

LEMMA TurnBegins ==
    ASSUME IInv, NEW m \in Messages, BeginTurn(m),
           at[m] \in {"created", "lockWait", "gateWait"},
           lock[SessionOf[m]] \in {None, m},
           lock' = [lock EXCEPT ![SessionOf[m]] = m],
           gate' = IF IsDirect(m) THEN gate ELSE gate \cup {m},
           ~IsDirect(m) => Cardinality(gate) < GateSlots,
           UNCHANGED <<inbound, deferred, pending, inline>>
    PROVE  LockInv' /\ GateInv' /\ QueueInv' /\ InlineInv'
           /\ BusHoldsOnce' /\ FollowUpsHeldOnce'
           /\ at'[m] \in InTurn /\ \A t \in Messages : t # m => at'[t] = at[t]
<1> DEFINE s == SessionOf[m]
<1>0. /\ TypeOK /\ LockInv /\ GateInv /\ QueueInv /\ InlineInv
      /\ BusHoldsOnce /\ FollowUpsHeldOnce
  BY DEF IInv
<1>1. s \in Sessions /\ None \notin Messages
  BY MessagesAssumption
<1>2. at'[m] \in InTurn /\ \A t \in Messages : t # m => at'[t] = at[t]
  BY <1>0 DEF BeginTurn, OpenSession, Move, TypeOK, InTurn
<1>3. pendingQueues' = IF IsDirect(m) THEN pendingQueues ELSE [pendingQueues EXCEPT ![s] = m]
  BY DEF BeginTurn
<1>4. pendingQueues[s] = None
  <2> SUFFICES ASSUME pendingQueues[s] # None PROVE FALSE
    OBVIOUS
  <2> DEFINE o == pendingQueues[s]
  <2>1. o \in Messages /\ SessionOf[o] = s /\ at[o] \in InTurn
    BY <1>0, <1>1 DEF QueueInv, TypeOK
  <2>2. lock[s] = o
    BY <1>0, <1>1, <2>1 DEF LockInv, HoldLock
  <2>3. o = m
    BY <1>1, <2>1, <2>2
  <2> QED BY <2>1, <2>3 DEF InTurn
<1>5. \A p : p \notin InTurn \cup {"created", "lockWait", "gateWait"} => Same(p)
  BY <1>2 DEF Same
<1>6. LockInv'
  <2>1. lock'[s] = m /\ \A r \in Sessions : r # s => lock'[r] = lock[r]
    BY <1>0, <1>1 DEF TypeOK
  <2> QED BY <1>0, <1>1, <1>2, <2>1 DEF LockInv, HoldLock
<1>7. GateInv'
  <2>1. IsDirect(m) = IsDirect(m)' /\ m \notin gate
    BY <1>0 DEF IsDirect, GateInv, InTurn
  <2>2. gate' = {t \in Messages : at'[t] \in InTurn /\ ~IsDirect(t)}
    BY <1>0, <1>2 DEF GateInv, InTurn
  <2>3. \A t \in Messages : at'[t] = "gateWait" => at[t] = "gateWait"
    BY <1>2 DEF InTurn
  <2>4. IsFiniteSet(gate)
    BY <1>0, FS_Subset, MessagesAssumption DEF TypeOK
  <2>5. Cardinality(gate') <= GateSlots
    <3>1. CASE IsDirect(m)
      BY <1>0, <3>1 DEF GateInv
    <3>2. CASE ~IsDirect(m)
      <4>1. Cardinality(gate \cup {m}) = Cardinality(gate) + 1 /\ Cardinality(gate) \in Nat
        BY <2>1, <2>4, FS_AddElement, FS_CardinalityType
      <4> QED BY <3>2, <4>1, BoundsAssumption
    <3> QED BY <3>1, <3>2
  <2> QED BY <1>0, <2>2, <2>3, <2>5 DEF GateInv, IsDirect
<1>8. QueueInv'
  <2>1. \A r \in Sessions : pendingQueues[r] # None => pendingQueues[r] \in Messages
    BY <1>0 DEF TypeOK
  <2>2. \A r \in Sessions : r # s => pendingQueues'[r] = pendingQueues[r]
    BY <1>0, <1>1, <1>3 DEF TypeOK
  <2>3. pendingQueues'[s] = IF IsDirect(m) THEN None ELSE m
    BY <1>0, <1>1, <1>3, <1>4 DEF TypeOK
  <2>4. ASSUME NEW r \in Sessions, pendingQueues'[r] # None
        PROVE  /\ SessionOf[pendingQueues'[r]] = r
               /\ at'[pendingQueues'[r]] \in InTurn
               /\ ~IsDirect(pendingQueues'[r])
    <3>1. CASE r = s
      BY <1>2, <2>3, <2>4, <3>1
    <3>2. CASE r # s
      BY <1>0, <1>2, <2>1, <2>2, <2>4, <3>2 DEF QueueInv
    <3> QED BY <3>1, <3>2
  <2> QED BY <2>4 DEF QueueInv, IsDirect
<1>9. BusHoldsOnce' /\ InlineInv'
  <2>1. Same("inbound") /\ Same("deferred") /\ Same("inline")
    BY <1>5 DEF InTurn
  <2> QED BY <1>0, <2>1, BusSame, InlineSame
<1>10. FollowUpsHeldOnce'
  <2>1. \A r \in Sessions : Placed("queued", r)' = Placed("queued", r)
    BY <1>2, <1>5 DEF Placed, Same, InTurn
  <2>2. \A r \in Sessions : r # s => pendingQueues'[r] = pendingQueues[r]
    BY <1>0, <1>1, <1>3 DEF TypeOK
  <2>3. pendingQueues'[s] = IF IsDirect(m) THEN None ELSE m
    BY <1>0, <1>1, <1>3, <1>4 DEF TypeOK
  <2>4. Placed("queued", s) = {} /\ pending[m] = <<>>
    BY <1>0, <1>1, <1>4 DEF FollowUpsHeldOnce
  <2>5. ASSUME NEW r \in Sessions
        PROVE  IF pendingQueues'[r] = None THEN Placed("queued", r) = {}
               ELSE Lists(pending[pendingQueues'[r]], Placed("queued", r))
    <3>1. CASE r = s
      <4>1. Lists(<<>>, {})
        BY ListsEmpty
      <4> QED BY <2>3, <2>4, <3>1, <4>1
    <3>2. CASE r # s
      BY <1>0, <2>2, <3>2 DEF FollowUpsHeldOnce
    <3> QED BY <3>1, <3>2
  <2>6. ASSUME NEW t \in Messages, pending[t] # <<>> PROVE pendingQueues'[SessionOf[t]] = t
    <3>1. pendingQueues[SessionOf[t]] = t
      BY <1>0, <2>6 DEF FollowUpsHeldOnce
    <3>2. SessionOf[t] \in Sessions /\ SessionOf[t] # s
      BY <1>1, <1>4, <3>1, MessagesAssumption
    <3> QED BY <2>2, <3>1, <3>2
  <2> QED BY <2>1, <2>5, <2>6 DEF FollowUpsHeldOnce
<1> QED BY <1>2, <1>6, <1>7, <1>8, <1>9, <1>10

\* With the lock taken, the turn begins or its task queues for the gate.
LEMMA LockTaken ==
    ASSUME IInv, NEW m \in Messages, WithLock(m),
           at[m] \in {"created", "lockWait"}, lock[SessionOf[m]] = None,
           UNCHANGED <<bus, pending, inline>>
    PROVE  /\ LockInv' /\ GateInv' /\ QueueInv' /\ InlineInv'
           /\ BusHoldsOnce' /\ FollowUpsHeldOnce'
           /\ at'[m] \in InTurn \cup {"gateWait"}
           /\ \A t \in Messages : t # m => at'[t] = at[t]
           /\ Lists(gateQueue', {t \in Messages : at'[t] = "gateWait"})
<1>0. /\ TypeOK /\ LockInv /\ GateInv /\ QueueInv /\ InlineInv
      /\ BusHoldsOnce /\ FollowUpsHeldOnce /\ WaitersQueued
  BY DEF IInv
<1>1. lock' = [lock EXCEPT ![SessionOf[m]] = m] /\ UNCHANGED <<inbound, deferred, pending, inline>>
  BY DEF WithLock, bus
<1>2. CASE IsDirect(m) \/ GateFree
  <2>1. /\ BeginTurn(m) /\ UNCHANGED gateQueue
        /\ gate' = IF IsDirect(m) THEN gate ELSE gate \cup {m}
        /\ ~IsDirect(m) => Cardinality(gate) < GateSlots
    BY <1>2 DEF WithLock, GateFree
  <2>2. /\ LockInv' /\ GateInv' /\ QueueInv' /\ InlineInv'
        /\ BusHoldsOnce' /\ FollowUpsHeldOnce'
        /\ at'[m] \in InTurn /\ \A t \in Messages : t # m => at'[t] = at[t]
    BY <1>1, <2>1, TurnBegins
  <2>3. {t \in Messages : at'[t] = "gateWait"} = {t \in Messages : at[t] = "gateWait"}
    BY <2>2 DEF InTurn
  <2> QED BY <1>0, <2>1, <2>2, <2>3 DEF WaitersQueued
<1>3. CASE ~(IsDirect(m) \/ GateFree)
  <2>1. /\ Move(m, "gateWait") /\ gateQueue' = Append(gateQueue, m) /\ ~IsDirect(m)
        /\ UNCHANGED <<gate, pendingQueues>>
    BY <1>3 DEF WithLock
  <2>2. at'[m] = "gateWait" /\ \A t \in Messages : t # m => at'[t] = at[t]
    BY <1>0, <2>1 DEF Move, TypeOK
  <2>3. Lists(gateQueue', {t \in Messages : at'[t] = "gateWait"})
    <3> DEFINE S == {t \in Messages : at[t] = "gateWait"}
    <3>1. gateQueue \in Seq(Messages) /\ Lists(gateQueue, S) /\ m \notin S
      BY <1>0 DEF WaitersQueued, TypeOK
    <3>2. Lists(Append(gateQueue, m), S \cup {m})
      BY <3>1, ListsAppend
    <3>3. {t \in Messages : at'[t] = "gateWait"} = S \cup {m}
      BY <2>2
    <3> HIDE DEF S
    <3> QED BY <2>1, <3>2, <3>3
  <2>4. /\ Same("inbound") /\ Same("deferred") /\ Same("queued") /\ Same("inline")
        /\ \A t \in Messages : at'[t] \in InTurn <=> at[t] \in InTurn
    BY <2>2 DEF Same, InTurn
  <2>5. LockInv'
    <3>1. /\ lock'[SessionOf[m]] = m
          /\ \A r \in Sessions : r # SessionOf[m] => lock'[r] = lock[r]
      BY <1>0, <1>1, MessagesAssumption DEF TypeOK
    <3> QED BY <1>0, <2>2, <3>1, MessagesAssumption DEF LockInv, HoldLock
  <2>6. GateInv'
    <3>1. {t \in Messages : at'[t] \in InTurn /\ ~IsDirect(t)}
            = {t \in Messages : at[t] \in InTurn /\ ~IsDirect(t)}
      BY <2>4
    <3> QED BY <1>0, <2>1, <2>2, <3>1 DEF GateInv, IsDirect
  <2>7. QueueInv'
    <3>1. \A r \in Sessions : pendingQueues[r] # None => pendingQueues[r] \in Messages
      BY <1>0 DEF TypeOK
    <3> QED BY <1>0, <2>1, <2>4, <3>1 DEF QueueInv, IsDirect
  <2>8. BusHoldsOnce' /\ FollowUpsHeldOnce' /\ InlineInv'
    BY <1>0, <1>1, <2>1, <2>4, BusSame, FollowUpsSame, InlineSame
  <2> QED BY <2>2, <2>3, <2>5, <2>6, <2>7, <2>8
<1> QED BY <1>2, <1>3

LEMMA InvAdvance ==
    ASSUME IInv, NEW m \in Messages, Advance(m)
    PROVE  LockInv' /\ GateInv' /\ QueueInv' /\ InlineInv'
           /\ BusHoldsOnce' /\ FollowUpsHeldOnce' /\ WaitersQueued'
<1> DEFINE s == SessionOf[m]
<1>0. /\ TypeOK /\ LockInv /\ GateInv /\ QueueInv /\ InlineInv
      /\ BusHoldsOnce /\ FollowUpsHeldOnce /\ WaitersQueued /\ s \in Sessions
  BY MessagesAssumption DEF IInv
<1>1. CASE Start(m)
  <2>1. at[m] = "created" /\ UNCHANGED <<bus, pending, inline>>
    BY <1>1 DEF Start
  <2>2. CASE LockFree(s)
    <3>1. WithLock(m) /\ UNCHANGED lockQueue /\ lock[s] = None
      BY <1>1, <2>2 DEF Start, LockFree
    <3>2. /\ LockInv' /\ GateInv' /\ QueueInv' /\ InlineInv'
          /\ BusHoldsOnce' /\ FollowUpsHeldOnce'
          /\ at'[m] \in InTurn \cup {"gateWait"}
          /\ \A t \in Messages : t # m => at'[t] = at[t]
          /\ Lists(gateQueue', {t \in Messages : at'[t] = "gateWait"})
      BY <2>1, <3>1, LockTaken
    <3>3. \A r \in Sessions : Placed("lockWait", r)' = Placed("lockWait", r)
      BY <2>1, <3>2 DEF Placed, InTurn
    <3> QED BY <1>0, <3>1, <3>2, <3>3 DEF WaitersQueued
  <2>3. CASE ~LockFree(s)
    <3>1. /\ Move(m, "lockWait")
          /\ lockQueue' = [lockQueue EXCEPT ![s] = Append(@, m)]
          /\ UNCHANGED <<lock, gate, gateQueue, pendingQueues, inbound, deferred, pending, inline>>
      BY <1>1, <2>3 DEF Start, bus
    <3>2. /\ Same("inbound") /\ Same("deferred") /\ Same("queued")
          /\ Same("gateWait") /\ Same("inline")
      BY <1>0, <2>1, <3>1, Moved
    <3>3. SameTurns
      BY <1>0, <2>1, <3>1, MovedOutside DEF HoldLock, InTurn
    <3>4. WaitersQueued'
      <4>1. /\ lockQueue \in [Sessions -> Seq(Messages)]
            /\ \A r \in Sessions : Lists(lockQueue[r], Placed("lockWait", r))
        BY <1>0 DEF WaitersQueued, TypeOK
      <4>2. \A r \in Sessions : Lists(lockQueue'[r], Placed("lockWait", r)')
        BY <1>0, <2>1, <3>1, <4>1, Joined
      <4>3. {t \in Messages : at'[t] = "gateWait"} = {t \in Messages : at[t] = "gateWait"}
        BY <3>2 DEF Same
      <4> QED BY <1>0, <3>1, <4>2, <4>3 DEF WaitersQueued
    <3> QED BY <1>0, <3>1, <3>2, <3>3, <3>4, BusSame, FollowUpsSame, TurnsSame, InlineSame
  <2> QED BY <2>2, <2>3
<1>2. CASE AcquireLock(m)
  <2>1. /\ at[m] = "lockWait" /\ lock[s] = None /\ WithLock(m)
        /\ lockQueue[s] # <<>> /\ m = Head(lockQueue[s])
        /\ lockQueue' = [lockQueue EXCEPT ![s] = Tail(@)]
        /\ UNCHANGED <<bus, pending, inline>>
    BY <1>2 DEF AcquireLock, NextForLock
  <2>2. /\ LockInv' /\ GateInv' /\ QueueInv' /\ InlineInv'
        /\ BusHoldsOnce' /\ FollowUpsHeldOnce'
        /\ at'[m] \in InTurn \cup {"gateWait"}
        /\ \A t \in Messages : t # m => at'[t] = at[t]
        /\ Lists(gateQueue', {t \in Messages : at'[t] = "gateWait"})
    BY <2>1, LockTaken
  <2>3. ASSUME NEW r \in Sessions PROVE Lists(lockQueue'[r], Placed("lockWait", r)')
    <3>1. CASE r = s
      <4>1. lockQueue[s] \in Seq(Messages) /\ Lists(lockQueue[s], Placed("lockWait", s))
        BY <1>0 DEF WaitersQueued, TypeOK
      <4>2. Lists(Tail(lockQueue[s]), Placed("lockWait", s) \ {Head(lockQueue[s])})
        BY <2>1, <4>1, ListsTail
      <4>3. Placed("lockWait", s)' = Placed("lockWait", s) \ {m}
        BY <2>2 DEF Placed, InTurn
      <4>4. lockQueue'[s] = Tail(lockQueue[s])
        BY <1>0, <2>1 DEF TypeOK
      <4> QED BY <2>1, <3>1, <4>2, <4>3, <4>4
    <3>2. CASE r # s
      <4>1. Placed("lockWait", r)' = Placed("lockWait", r)
        BY <2>2, <3>2 DEF Placed
      <4>2. lockQueue'[r] = lockQueue[r]
        BY <1>0, <2>1, <3>2 DEF TypeOK
      <4> QED BY <1>0, <4>1, <4>2 DEF WaitersQueued
    <3> QED BY <3>1, <3>2
  <2> QED BY <2>2, <2>3 DEF WaitersQueued
<1>3. CASE TakeGate(m)
  <2>1. /\ at[m] = "gateWait" /\ gateQueue # <<>> /\ m = Head(gateQueue)
        /\ Cardinality(gate) < GateSlots
        /\ gateQueue' = Tail(gateQueue) /\ gate' = gate \cup {m}
        /\ BeginTurn(m)
        /\ UNCHANGED <<inbound, deferred, lock, lockQueue, pending, inline>>
    BY <1>3 DEF TakeGate, bus
  <2>2. lock[s] = m /\ ~IsDirect(m)
    BY <1>0, <2>1 DEF LockInv, GateInv, HoldLock
  <2>3. lock' = [lock EXCEPT ![s] = m]
    BY <1>0, <2>1, <2>2 DEF TypeOK
  <2>4. /\ LockInv' /\ GateInv' /\ QueueInv' /\ InlineInv'
        /\ BusHoldsOnce' /\ FollowUpsHeldOnce'
        /\ at'[m] \in InTurn /\ \A t \in Messages : t # m => at'[t] = at[t]
    BY <2>1, <2>2, <2>3, TurnBegins
  <2>5. WaitersQueued'
    <3> DEFINE S == {t \in Messages : at[t] = "gateWait"}
    <3>1. gateQueue \in Seq(Messages) /\ Lists(gateQueue, S)
      BY <1>0 DEF WaitersQueued, TypeOK
    <3>2. Lists(Tail(gateQueue), S \ {Head(gateQueue)})
      BY <2>1, <3>1, ListsTail
    <3>3. {t \in Messages : at'[t] = "gateWait"} = S \ {m}
      BY <2>4 DEF InTurn
    <3>4. \A r \in Sessions : Placed("lockWait", r)' = Placed("lockWait", r)
      BY <2>1, <2>4 DEF Placed, InTurn
    <3> HIDE DEF S
    <3>5. Lists(gateQueue', {t \in Messages : at'[t] = "gateWait"})
      BY <2>1, <3>2, <3>3
    <3> QED BY <1>0, <2>1, <3>4, <3>5 DEF WaitersQueued
  <2> QED BY <1>0, <2>4, <2>5
<1> QED BY <1>1, <1>2, <1>3 DEF Advance

-----------------------------------------------------------------------------
(* The running turn takes follow-ups; a turn or its task ends.              *)

\* The follow-ups that the turn of m takes in one drain.
DrainSize(m) == IF Len(pending[m]) < InjectLimit THEN Len(pending[m]) ELSE InjectLimit
Taken(m)     == {pending[m][i] : i \in 1..DrainSize(m)}

\* A drain takes follow-ups of the session off the front of the queue that the
\* session publishes.
LEMMA DrainMoves ==
    ASSUME IInv, NEW m \in Messages, Drain(m)
    PROVE  /\ at[m] = "turn" /\ Taken(m) # {} /\ pendingQueues[SessionOf[m]] = m
           /\ Taken(m) \subseteq Placed("queued", SessionOf[m])
           /\ \A t \in Messages : at'[t] = IF t \in Taken(m) THEN "done" ELSE at[t]
           /\ \E rest \in Seq(Messages) :
                 /\ Lists(rest, Placed("queued", SessionOf[m]) \ Taken(m))
                 /\ pending' = [pending EXCEPT ![m] = rest]
<1> DEFINE s == SessionOf[m]
           n == DrainSize(m)
           rest == SubSeq(pending[m], n + 1, Len(pending[m]))
<1>0. /\ TypeOK /\ FollowUpsHeldOnce
      /\ s \in Sessions /\ pending[m] \in Seq(Messages)
  BY MessagesAssumption DEF IInv, TypeOK
<1>1. /\ at[m] = "turn" /\ n > 0 /\ pending' = [pending EXCEPT ![m] = rest]
      /\ at' = [t \in Messages |-> IF t \in Taken(m) THEN "done" ELSE at[t]]
  BY DEF Drain, DrainSize, Taken
<1>2. n \in 0 .. Len(pending[m])
  BY <1>0, LenProperties, BoundsAssumption DEF DrainSize
<1>3. pendingQueues[s] = m
  <2>1. Len(pending[m]) # 0
    BY <1>1, <1>2
  <2>2. pending[m] # <<>>
    BY <1>0, <2>1, EmptySeq
  <2> QED BY <1>0, <2>2 DEF FollowUpsHeldOnce
<1> HIDE DEF n
<1>4. /\ Lists(pending[m], Placed("queued", s))
      /\ rest \in Seq(Messages) /\ Lists(rest, Placed("queued", s) \ Taken(m))
  <2>1. Lists(pending[m], Placed("queued", s))
    BY <1>0, <1>3, MessagesAssumption DEF FollowUpsHeldOnce
  <2>2. Taken(m) = {pending[m][i] : i \in 1..n}
    BY DEF Taken, n
  <2> QED BY <1>0, <1>2, <2>1, <2>2, ListsSuffix
<1>5. Taken(m) \subseteq Placed("queued", s) /\ Taken(m) # {}
  <2>1. Taken(m) = {pending[m][i] : i \in 1..n}
    BY DEF Taken, n
  <2>2. \A i \in 1..n : i \in DOMAIN pending[m]
    BY <1>0, <1>2, LenProperties
  <2>3. 1 \in 1..n
    BY <1>1, <1>2
  <2> QED BY <1>4, <2>1, <2>2, <2>3 DEF Lists, ToSet
<1> HIDE DEF rest
<1> QED BY <1>1, <1>3, <1>4, <1>5

LEMMA InvDrain ==
    ASSUME IInv, NEW m \in Messages, Drain(m)
    PROVE  LockInv' /\ GateInv' /\ QueueInv' /\ InlineInv'
           /\ BusHoldsOnce' /\ FollowUpsHeldOnce' /\ WaitersQueued'
<1> DEFINE s == SessionOf[m]
           taken == Taken(m)
<1>0. /\ TypeOK /\ LockInv /\ GateInv /\ QueueInv /\ InlineInv
      /\ BusHoldsOnce /\ FollowUpsHeldOnce /\ WaitersQueued /\ s \in Sessions
  BY MessagesAssumption DEF IInv
<1>1. UNCHANGED <<inbound, deferred, inline, lock, lockQueue, gate, gateQueue, pendingQueues>>
  BY DEF Drain, bus, locks, tasks
<1>2. PICK rest \in Seq(Messages) :
         /\ Lists(rest, Placed("queued", s) \ taken)
         /\ pending' = [pending EXCEPT ![m] = rest]
  BY DrainMoves
<1>3. pendingQueues[s] = m
  BY DrainMoves
<1> HIDE DEF taken
<1>6. \A t \in Messages : IF t \in taken THEN at[t] = "queued" /\ SessionOf[t] = s /\ at'[t] = "done"
                          ELSE at'[t] = at[t]
  BY DrainMoves DEF Placed, taken
<1>7. /\ SameTurns /\ Same("inbound") /\ Same("deferred") /\ Same("inline")
      /\ Same("gateWait") /\ Same("lockWait")
  BY <1>6 DEF SameTurns, Same, InTurn, HoldLock
<1>8. FollowUpsHeldOnce'
  <2>1. Placed("queued", s)' = Placed("queued", s) \ taken
    BY <1>6 DEF Placed
  <2>2. pending'[m] = rest /\ \A t \in Messages : t # m => pending'[t] = pending[t]
    BY <1>0, <1>2 DEF TypeOK
  <2>3. ASSUME NEW r \in Sessions, r # s
        PROVE  IF pendingQueues[r] = None THEN Placed("queued", r)' = {}
               ELSE Lists(pending'[pendingQueues[r]], Placed("queued", r)')
    <3>1. Placed("queued", r)' = Placed("queued", r)
      BY <1>6, <2>3 DEF Placed
    <3>2. pendingQueues[r] # None => pendingQueues[r] \in Messages /\ pendingQueues[r] # m
      BY <1>0, <2>3 DEF QueueInv, TypeOK
    <3> QED BY <1>0, <2>2, <3>1, <3>2 DEF FollowUpsHeldOnce
  <2>4. \A t \in Messages : pending'[t] # <<>> => pendingQueues[SessionOf[t]] = t
    BY <1>0, <1>3, <2>2 DEF FollowUpsHeldOnce
  <2>5. ASSUME NEW r \in Sessions
        PROVE  IF pendingQueues[r] = None THEN Placed("queued", r)' = {}
               ELSE Lists(pending'[pendingQueues[r]], Placed("queued", r)')
    <3>1. CASE r = s
      BY <1>2, <1>3, <2>1, <2>2, <3>1, MessagesAssumption
    <3> QED BY <2>3, <3>1
  <2> QED BY <1>1, <2>4, <2>5 DEF FollowUpsHeldOnce
<1> QED BY <1>0, <1>1, <1>7, <1>8, BusSame, WaitersSame, TurnsSame, InlineSame

\* What is sent round again is on the bus, once, and nothing else has moved.
LEMMA SentBack ==
    ASSUME IInv, NEW m \in Messages, NEW s \in Sessions, NEW f \in Fates,
           NEW seq \in Seq(Messages), NEW Q \in SUBSET Messages, Lists(seq, Q),
           \A t \in Q : at[t] = "queued", at[m] \in TaskLive,
           Republish(seq, s, m, f)
    PROVE  /\ BusHoldsOnce' /\ at'[m] = "done"
           /\ \A t \in Messages :
                 \/ t = m
                 \/ t \in Q /\ at'[t] = "inbound"
                 \/ t \notin Q /\ at[t] = "deferred" /\ at'[t] = "inbound"
                 \/ t \notin Q /\ at'[t] = at[t]
<1> DEFINE next == NextDeferred(s)
           rest == RestDeferred(s)
           D == ToSet(next)
           I == {t \in Messages : at[t] = "inbound"}
<1>0. /\ TypeOK /\ BusHoldsOnce
      /\ inbound \in Seq(Messages) /\ Lists(inbound, I)
      /\ deferred \in [Sessions -> Seq(Messages)] /\ Lists(deferred[s], Placed("deferred", s))
  BY DEF IInv, TypeOK, BusHoldsOnce
<1>1. /\ next \in Seq(Messages) /\ Lists(next, D) /\ D \subseteq Placed("deferred", s)
      /\ rest \in Seq(Messages) /\ Lists(rest, Placed("deferred", s) \ D)
  <2>1. CASE deferred[s] = <<>>
    <3>1. next = <<>> /\ rest = <<>>
      BY <2>1 DEF NextDeferred, RestDeferred
    <3>2. Lists(<<>>, {}) /\ D = {}
      BY <3>1, ListsEmpty DEF Lists
    <3>3. Placed("deferred", s) = {}
      BY <1>0, <2>1, <3>2 DEF Lists
    <3>4. Placed("deferred", s) \ D = {} /\ <<>> \in Seq(Messages)
      BY <3>2, <3>3
    <3> HIDE DEF D, next, rest
    <3> QED BY <3>1, <3>2, <3>4
  <2>2. CASE deferred[s] # <<>>
    <3>1. next = <<Head(deferred[s])>> /\ rest = Tail(deferred[s])
      BY <2>2 DEF NextDeferred, RestDeferred
    <3>2. /\ Head(deferred[s]) \in Placed("deferred", s) /\ Tail(deferred[s]) \in Seq(Messages)
          /\ Lists(Tail(deferred[s]), Placed("deferred", s) \ {Head(deferred[s])})
      BY <1>0, <2>2, ListsTail
    <3>3. Head(deferred[s]) \in Messages
      BY <3>2 DEF Placed
    <3>4. next \in Seq(Messages) /\ D = {Head(deferred[s])} /\ Lists(next, D)
      BY <3>1, <3>3 DEF Lists, ToSet
    <3> QED BY <3>1, <3>2, <3>4
  <2> QED BY <2>1, <2>2
<1> HIDE DEF next, rest
<1>2. /\ inbound' = inbound \o (seq \o next)
      /\ deferred' = [deferred EXCEPT ![s] = rest]
      /\ at' = [t \in Messages |-> CASE t = m -> "done"
                                     [] t \in ToSet(seq \o next) -> "inbound"
                                     [] OTHER -> at[t]]
  BY DEF Republish, next, rest
<1>3. seq \o next \in Seq(Messages) /\ Lists(seq \o next, Q \cup D)
  <2>1. Q \cap D = {}
    BY <1>1 DEF Placed
  <2> QED BY <1>1, <2>1, ListsConcat
<1>4. ToSet(seq \o next) = Q \cup D
  BY <1>3 DEF Lists
<1> HIDE DEF D
<1>5. \A t \in D : t \in Messages /\ at[t] = "deferred" /\ SessionOf[t] = s
  BY <1>1 DEF Placed
<1>6. m \notin Q \cup D \cup I
  BY <1>5 DEF TaskLive, HoldLock, InTurn
<1>7. ASSUME NEW t \in Messages
      PROVE  at'[t] = IF t = m THEN "done" ELSE IF t \in Q \cup D THEN "inbound" ELSE at[t]
  <2>1. at'[t] = CASE t = m -> "done" [] t \in Q \cup D -> "inbound" [] OTHER -> at[t]
    BY <1>2, <1>4
  <2>2. CASE t = m
    BY <1>6, <2>1, <2>2
  <2>3. CASE t # m /\ t \in Q \cup D
    BY <2>1, <2>3
  <2>4. CASE t # m /\ t \notin Q \cup D
    BY <2>1, <2>4
  <2> QED BY <2>2, <2>3, <2>4
<1>8. Lists(inbound', {t \in Messages : at'[t] = "inbound"})
  <2>1. I \cap (Q \cup D) = {}
    BY <1>5
  <2>2. Lists(inbound \o (seq \o next), I \cup (Q \cup D))
    BY <1>0, <1>3, <2>1, ListsConcat
  <2>3. {t \in Messages : at'[t] = "inbound"} = I \cup (Q \cup D)
    BY <1>5, <1>6, <1>7
  <2> QED BY <1>2, <2>2, <2>3
<1>9. ASSUME NEW r \in Sessions PROVE Lists(deferred'[r], Placed("deferred", r)')
  <2>1. at[m] # "deferred"
    BY DEF TaskLive, HoldLock, InTurn
  <2>2. CASE r = s
    <3>1. Placed("deferred", s)' = Placed("deferred", s) \ D
      BY <1>5, <1>6, <1>7, <2>1 DEF Placed
    <3>2. deferred'[s] = rest
      BY <1>0, <1>2
    <3> QED BY <1>1, <2>2, <3>1, <3>2
  <2>3. CASE r # s
    <3>1. Placed("deferred", r)' = Placed("deferred", r)
      BY <1>5, <1>6, <1>7, <2>1, <2>3 DEF Placed
    <3>2. deferred'[r] = deferred[r]
      BY <1>0, <1>2, <2>3
    <3> QED BY <1>0, <3>1, <3>2 DEF BusHoldsOnce
  <2> QED BY <2>2, <2>3
<1> QED BY <1>5, <1>7, <1>8, <1>9 DEF BusHoldsOnce

\* The follow-ups that are sent round again when the turn of m ends.
Left(m) == IF pendingQueues[SessionOf[m]] = m THEN Placed("queued", SessionOf[m]) ELSE {}

\* A turn that ends sends round again exactly what is queued for it, and the
\* next deferred turn; it was the session's only turn.
LEMMA EndMoves ==
    ASSUME IInv, NEW m \in Messages, NEW f \in Fates, EndTurn(m, f)
    PROVE  /\ at[m] \in InTurn /\ lock[SessionOf[m]] = m
           /\ pendingQueues[SessionOf[m]] \in {None, m}
           /\ BusHoldsOnce' /\ at'[m] = "done"
           /\ \A t \in Messages :
                 \/ t = m
                 \/ t \in Left(m) /\ at'[t] = "inbound"
                 \/ t \notin Left(m) /\ at[t] = "deferred" /\ at'[t] = "inbound"
                 \/ t \notin Left(m) /\ at'[t] = at[t]
<1> DEFINE s == SessionOf[m]
<1>0. /\ TypeOK /\ LockInv /\ GateInv /\ QueueInv /\ FollowUpsHeldOnce
      /\ s \in Sessions /\ pending[m] \in Seq(Messages) /\ None \notin Messages
  BY MessagesAssumption DEF IInv, TypeOK
<1>1. at[m] \in InTurn /\ Republish(pending[m], s, m, f)
  BY DEF EndTurn, Leftovers
<1>2. lock[s] = m
  BY <1>0, <1>1 DEF LockInv, HoldLock
<1>3. pendingQueues[s] \in {None, m}
  <2> SUFFICES ASSUME pendingQueues[s] # None PROVE pendingQueues[s] = m
    OBVIOUS
  <2> DEFINE o == pendingQueues[s]
  <2>1. o \in Messages /\ SessionOf[o] = s /\ at[o] \in InTurn
    BY <1>0 DEF QueueInv, TypeOK
  <2>2. lock[s] = o
    BY <1>0, <2>1 DEF LockInv, HoldLock
  <2> QED BY <1>2, <2>2
<1>4. Lists(pending[m], Left(m)) /\ Left(m) \subseteq Placed("queued", s)
  <2>1. CASE pendingQueues[s] = m
    BY <1>0, <2>1 DEF FollowUpsHeldOnce, Left
  <2>2. CASE pendingQueues[s] # m
    <3>1. pending[m] = <<>> /\ Left(m) = {}
      BY <1>0, <2>2 DEF FollowUpsHeldOnce, Left
    <3> QED BY <3>1, ListsEmpty
  <2> QED BY <2>1, <2>2
<1> DEFINE Q == Left(m)
<1>5. Q \in SUBSET Messages /\ (\A t \in Q : at[t] = "queued") /\ at[m] \in TaskLive
      /\ Lists(pending[m], Q)
  BY <1>1, <1>4 DEF Placed, TaskLive, HoldLock
<1> HIDE DEF Q
<1>6. /\ BusHoldsOnce' /\ at'[m] = "done"
      /\ \A t \in Messages :
            \/ t = m
            \/ t \in Q /\ at'[t] = "inbound"
            \/ t \notin Q /\ at[t] = "deferred" /\ at'[t] = "inbound"
            \/ t \notin Q /\ at'[t] = at[t]
  BY <1>0, <1>1, <1>5, SentBack
<1> QED BY <1>1, <1>2, <1>3, <1>6 DEF Q

LEMMA InvEndTurn ==
    ASSUME IInv, NEW m \in Messages, NEW f \in Fates, EndTurn(m, f)
    PROVE  LockInv' /\ GateInv' /\ QueueInv' /\ InlineInv'
           /\ BusHoldsOnce' /\ FollowUpsHeldOnce' /\ WaitersQueued'
<1> DEFINE s == SessionOf[m]
           Q == Left(m)
<1>0. /\ TypeOK /\ LockInv /\ GateInv /\ QueueInv /\ InlineInv
      /\ BusHoldsOnce /\ FollowUpsHeldOnce /\ WaitersQueued
      /\ s \in Sessions /\ pending[m] \in Seq(Messages) /\ None \notin Messages
  BY MessagesAssumption DEF IInv, TypeOK
<1>1. /\ at[m] \in InTurn /\ ~IsDirect(m)
      /\ pendingQueues' = [r \in Sessions |-> IF pendingQueues[r] = m THEN None ELSE pendingQueues[r]]
      /\ pending' = [pending EXCEPT ![m] = <<>>]
      /\ lock' = [lock EXCEPT ![s] = None] /\ gate' = gate \ {m}
      /\ UNCHANGED <<inline, lockQueue, gateQueue>>
  BY DEF EndTurn, WithdrawQueue, TaskDone
<1>2. lock[s] = m
  BY EndMoves
<1>3. pendingQueues[s] \in {None, m}
  BY EndMoves
<1>5. Q \subseteq Placed("queued", s) /\ \A t \in Q : at[t] = "queued"
  BY DEF Left, Placed
<1>4. Q = IF pendingQueues[s] = m THEN Placed("queued", s) ELSE {}
  BY DEF Left
<1>6. /\ BusHoldsOnce' /\ at'[m] = "done"
      /\ \A t \in Messages :
            \/ t = m
            \/ t \in Q /\ at'[t] = "inbound"
            \/ t \notin Q /\ at[t] = "deferred" /\ at'[t] = "inbound"
            \/ t \notin Q /\ at'[t] = at[t]
  BY EndMoves
<1> HIDE DEF Q
<1>7. \A t \in Messages : t # m =>
         /\ at'[t] \in InTurn <=> at[t] \in InTurn
         /\ at'[t] \in HoldLock <=> at[t] \in HoldLock
         /\ at'[t] = "gateWait" <=> at[t] = "gateWait"
  BY <1>5, <1>6 DEF InTurn, HoldLock
<1>8. Same("gateWait") /\ Same("lockWait") /\ Same("inline")
  BY <1>1, <1>5, <1>6 DEF Same, InTurn
<1>9. LockInv'
  <2>1. lock'[s] = None /\ \A r \in Sessions : r # s => lock'[r] = lock[r]
    BY <1>0, <1>1 DEF TypeOK
  <2>2. at'[m] \notin HoldLock
    BY <1>6 DEF HoldLock, InTurn
  <2> QED BY <1>0, <1>2, <1>7, <2>1, <2>2 DEF LockInv
<1>10. GateInv'
  <2>1. gate' = {t \in Messages : at'[t] \in InTurn /\ ~IsDirect(t)}
    BY <1>0, <1>1, <1>6, <1>7 DEF GateInv, InTurn
  <2>2. Cardinality(gate') <= GateSlots
    <3>1. IsFiniteSet(gate) /\ gate' \subseteq gate
      BY <1>0, <1>1, FS_Subset, MessagesAssumption DEF TypeOK
    <3>2. Cardinality(gate') <= Cardinality(gate) /\ IsFiniteSet(gate')
      BY <3>1, FS_Subset
    <3>3. Cardinality(gate') \in Nat /\ Cardinality(gate) \in Nat /\ Cardinality(gate) <= GateSlots
      BY <1>0, <3>1, <3>2, FS_CardinalityType DEF GateInv
    <3> QED BY <3>2, <3>3, BoundsAssumption
  <2>3. \A t \in Messages : at'[t] = "gateWait" => at[t] = "gateWait"
    BY <1>8 DEF Same
  <2> QED BY <1>0, <2>1, <2>2, <2>3 DEF GateInv, IsDirect
<1>11. QueueInv'
  <2>1. \A r \in Sessions : pendingQueues'[r] # None =>
           pendingQueues'[r] = pendingQueues[r] /\ pendingQueues[r] # m /\ pendingQueues[r] \in Messages
    BY <1>0, <1>1 DEF TypeOK
  <2> QED BY <1>0, <1>7, <2>1 DEF QueueInv, IsDirect
<1>12. FollowUpsHeldOnce'
  <2>1. pending'[m] = <<>> /\ \A t \in Messages : t # m => pending'[t] = pending[t]
    BY <1>0, <1>1 DEF TypeOK
  <2>2. \A r \in Sessions : r # s => pendingQueues[r] # m
    BY <1>0 DEF QueueInv
  <2>3. pendingQueues'[s] = None /\ \A r \in Sessions : r # s => pendingQueues'[r] = pendingQueues[r]
    BY <1>0, <1>1, <1>3, <2>2
  <2>4. Placed("queued", s)' = {}
    <3>1. Q = Placed("queued", s)
      BY <1>0, <1>3, <1>4 DEF FollowUpsHeldOnce
    <3> QED BY <1>1, <1>6, <3>1 DEF Placed, InTurn
  <2>5. ASSUME NEW r \in Sessions, r # s
        PROVE  IF pendingQueues'[r] = None THEN Placed("queued", r)' = {}
               ELSE Lists(pending'[pendingQueues'[r]], Placed("queued", r)')
    <3>1. Placed("queued", r)' = Placed("queued", r)
      BY <1>1, <1>5, <1>6, <2>5 DEF Placed, InTurn
    <3>2. pendingQueues[r] # None => pendingQueues[r] \in Messages
      BY <1>0 DEF TypeOK
    <3> QED BY <1>0, <2>1, <2>2, <2>3, <2>5, <3>1, <3>2 DEF FollowUpsHeldOnce
  <2>6. ASSUME NEW t \in Messages, pending'[t] # <<>> PROVE pendingQueues'[SessionOf[t]] = t
    <3>1. t # m /\ pendingQueues[SessionOf[t]] = t
      BY <1>0, <2>1, <2>6 DEF FollowUpsHeldOnce
    <3>2. SessionOf[t] \in Sessions
      BY MessagesAssumption
    <3> QED BY <1>1, <3>1, <3>2
  <2> QED BY <2>3, <2>4, <2>5, <2>6 DEF FollowUpsHeldOnce
<1> QED BY <1>0, <1>1, <1>6, <1>8, <1>9, <1>10, <1>11, <1>12, WaitersSame, InlineSame

\* A direct turn ends.
LEMMA InvEndDirect ==
    ASSUME IInv, NEW m \in Messages, NEW f \in Fates, EndDirect(m, f)
    PROVE  LockInv' /\ GateInv' /\ QueueInv' /\ InlineInv'
           /\ BusHoldsOnce' /\ FollowUpsHeldOnce' /\ WaitersQueued'
<1> DEFINE s == SessionOf[m]
<1>0. /\ TypeOK /\ LockInv /\ GateInv /\ QueueInv /\ InlineInv
      /\ BusHoldsOnce /\ FollowUpsHeldOnce /\ WaitersQueued
      /\ s \in Sessions /\ None \notin Messages
  BY MessagesAssumption DEF IInv
<1>1. /\ IsDirect(m) /\ at[m] = "turn" /\ Move(m, "done")
      /\ lock' = [lock EXCEPT ![s] = None]
      /\ UNCHANGED <<inbound, deferred, inline, lockQueue, gate, gateQueue, pendingQueues, pending>>
  BY DEF EndDirect, Settle, TaskDone, bus, turns
<1>2. /\ at'[m] = "done" /\ \A t \in Messages : t # m => at'[t] = at[t]
      /\ Same("inbound") /\ Same("deferred") /\ Same("queued")
      /\ Same("gateWait") /\ Same("lockWait") /\ Same("inline")
  BY <1>0, <1>1, Moved
<1>3. LockInv'
  <2>1. lock'[s] = None /\ lock[s] = m /\ \A r \in Sessions : r # s => lock'[r] = lock[r]
    BY <1>0, <1>1 DEF TypeOK, LockInv, HoldLock, InTurn
  <2> QED BY <1>0, <1>2, <2>1 DEF LockInv, HoldLock, InTurn
<1>4. GateInv'
  <2>1. {t \in Messages : at'[t] \in InTurn /\ ~IsDirect(t)}
          = {t \in Messages : at[t] \in InTurn /\ ~IsDirect(t)}
    BY <1>1, <1>2
  <2> QED BY <1>0, <1>1, <1>2, <2>1 DEF GateInv, Same, IsDirect
<1>5. QueueInv'
  <2>1. \A r \in Sessions : pendingQueues[r] # None =>
           pendingQueues[r] \in Messages /\ pendingQueues[r] # m
    BY <1>0, <1>1 DEF TypeOK, QueueInv
  <2> QED BY <1>0, <1>1, <1>2, <2>1 DEF QueueInv, IsDirect
<1> QED BY <1>0, <1>1, <1>2, <1>3, <1>4, <1>5, BusSame, FollowUpsSame, WaitersSame, InlineSame

\* A task cancelled while it waits only lets the next deferred turn go.
LEMMA WaitingMoves ==
    ASSUME IInv, NEW m \in Messages, CancelWaiting(m)
    PROVE  /\ at[m] \in {"lockWait", "gateWait"} /\ at'[m] = "done" /\ BusHoldsOnce'
           /\ \A t \in Messages : t # m =>
                 at'[t] = at[t] \/ (at[t] = "deferred" /\ at'[t] = "inbound")
<1> DEFINE s == SessionOf[m]
<1>0. /\ TypeOK /\ BusHoldsOnce /\ s \in Sessions /\ at[m] \in {"lockWait", "gateWait"}
  BY MessagesAssumption DEF IInv, CancelWaiting
<1>1. CASE IsDirect(m)
  <2>1. Move(m, "done") /\ UNCHANGED <<inbound, deferred>>
    BY <1>1 DEF CancelWaiting, Settle
  <2>2. /\ at'[m] = "done" /\ \A t \in Messages : t # m => at'[t] = at[t]
        /\ Same("inbound") /\ Same("deferred")
    BY <1>0, <2>1 DEF Move, TypeOK, Same
  <2> QED BY <1>0, <2>1, <2>2, BusSame
<1>2. CASE ~IsDirect(m)
  <2>1. Republish(<<>>, s, m, "cancelled")
    BY <1>2 DEF CancelWaiting
  <2> DEFINE Q == {}
             seq == <<>>
             f == "cancelled"
  <2>2. seq \in Seq(Messages) /\ Lists(seq, Q) /\ Q \in SUBSET Messages
        /\ \A t \in Q : at[t] = "queued"
    BY ListsEmpty
  <2>3. at[m] \in TaskLive /\ f \in Fates /\ Republish(seq, s, m, f)
    BY <1>0, <2>1 DEF TaskLive, HoldLock, Fates
  <2>4. \A t : t \notin Q
    OBVIOUS
  <2> HIDE DEF Q, seq, f
  <2>5. /\ BusHoldsOnce' /\ at'[m] = "done"
        /\ \A t \in Messages :
              \/ t = m
              \/ t \in Q /\ at'[t] = "inbound"
              \/ t \notin Q /\ at[t] = "deferred" /\ at'[t] = "inbound"
              \/ t \notin Q /\ at'[t] = at[t]
    BY <1>0, <2>2, <2>3, SentBack
  <2> QED BY <1>0, <2>4, <2>5
<1> QED BY <1>1, <1>2

\* A task is cancelled before its turn began.
LEMMA InvCancelled ==
    ASSUME IInv, NEW m \in Messages, CancelUnstarted(m) \/ CancelWaiting(m)
    PROVE  LockInv' /\ GateInv' /\ QueueInv' /\ InlineInv'
           /\ BusHoldsOnce' /\ FollowUpsHeldOnce' /\ WaitersQueued'
<1> DEFINE s == SessionOf[m]
<1>0. /\ TypeOK /\ LockInv /\ GateInv /\ QueueInv /\ InlineInv
      /\ BusHoldsOnce /\ FollowUpsHeldOnce /\ WaitersQueued
      /\ s \in Sessions /\ None \notin Messages
  BY MessagesAssumption DEF IInv
<1>1. CASE CancelUnstarted(m)
  <2>1. /\ at[m] = "created" /\ Move(m, "done")
        /\ UNCHANGED <<bus, locks, turns, inline>>
    BY <1>1 DEF CancelUnstarted, Settle, TaskDone
  <2>2. /\ Same("inbound") /\ Same("deferred") /\ Same("queued")
        /\ Same("gateWait") /\ Same("lockWait") /\ Same("inline")
    BY <1>0, <2>1, Moved
  <2>3. SameTurns
    BY <1>0, <2>1, MovedOutside DEF HoldLock, InTurn
  <2> QED BY <1>0, <2>1, <2>2, <2>3, BusSame, FollowUpsSame, WaitersSame, TurnsSame, InlineSame
        DEF bus, locks, turns
<1>2. CASE CancelWaiting(m)
  <2>1. /\ at[m] \in {"lockWait", "gateWait"}
        /\ lockQueue' = [lockQueue EXCEPT ![s] = Without(@, m)]
        /\ gateQueue' = Without(gateQueue, m)
        /\ lock' = IF lock[s] = m THEN [lock EXCEPT ![s] = None] ELSE lock
        /\ UNCHANGED <<inline, gate, pendingQueues, pending>>
    BY <1>2 DEF CancelWaiting, TaskDone, turns
  <2>2. /\ BusHoldsOnce' /\ at'[m] = "done"
        /\ \A t \in Messages : t # m =>
              at'[t] = at[t] \/ (at[t] = "deferred" /\ at'[t] = "inbound")
    BY <1>2, WaitingMoves
  <2>3. \A t \in Messages :
           /\ at'[t] \in InTurn <=> at[t] \in InTurn
           /\ at'[t] \in HoldLock <=> (at[t] \in HoldLock /\ t # m)
           /\ at'[t] = "gateWait" <=> (at[t] = "gateWait" /\ t # m)
           /\ at'[t] = "lockWait" <=> (at[t] = "lockWait" /\ t # m)
    BY <2>1, <2>2 DEF InTurn, HoldLock
  <2>4. Same("queued") /\ Same("inline")
    BY <2>1, <2>2 DEF Same
  <2>5. LockInv'
    <3>1. CASE lock[s] = m
      <4>1. lock'[s] = None /\ \A r \in Sessions : r # s => lock'[r] = lock[r]
        BY <1>0, <2>1, <3>1 DEF TypeOK
      <4> QED BY <1>0, <2>3, <3>1, <4>1 DEF LockInv
    <3>2. CASE lock[s] # m
      BY <1>0, <2>1, <2>3, <3>2 DEF LockInv
    <3> QED BY <3>1, <3>2
  <2>6. GateInv'
    <3>1. {t \in Messages : at'[t] \in InTurn /\ ~IsDirect(t)}
            = {t \in Messages : at[t] \in InTurn /\ ~IsDirect(t)}
      BY <2>3
    <3> QED BY <1>0, <2>1, <2>3, <3>1 DEF GateInv, IsDirect
  <2>7. QueueInv'
    <3>1. \A r \in Sessions : pendingQueues[r] # None => pendingQueues[r] \in Messages
      BY <1>0 DEF TypeOK
    <3> QED BY <1>0, <2>1, <2>3, <3>1 DEF QueueInv, IsDirect
  <2>8. WaitersQueued'
    <3> DEFINE S == {t \in Messages : at[t] = "gateWait"}
    <3>1. gateQueue \in Seq(Messages) /\ Lists(gateQueue, S)
      BY <1>0 DEF WaitersQueued, TypeOK
    <3>2. Lists(Without(gateQueue, m), S \ {m})
      BY <3>1, ListsWithout
    <3>3. {t \in Messages : at'[t] = "gateWait"} = S \ {m}
      BY <2>3
    <3> HIDE DEF S
    <3>4. Lists(gateQueue', {t \in Messages : at'[t] = "gateWait"})
      BY <2>1, <3>2, <3>3
    <3>5. ASSUME NEW r \in Sessions PROVE Lists(lockQueue'[r], Placed("lockWait", r)')
      <4>1. lockQueue[r] \in Seq(Messages) /\ Lists(lockQueue[r], Placed("lockWait", r))
        BY <1>0 DEF WaitersQueued, TypeOK
      <4>2. CASE r = s
        <5>a. lockQueue[s] \in Seq(Messages) /\ Lists(lockQueue[s], Placed("lockWait", s))
          BY <1>0 DEF WaitersQueued, TypeOK
        <5>1. Lists(Without(lockQueue[s], m), Placed("lockWait", s) \ {m})
          BY <5>a, ListsWithout
        <5>2. Placed("lockWait", s)' = Placed("lockWait", s) \ {m}
          BY <2>3 DEF Placed
        <5>3. lockQueue'[s] = Without(lockQueue[s], m)
          BY <1>0, <2>1 DEF TypeOK
        <5> QED BY <4>2, <5>1, <5>2, <5>3
      <4>3. CASE r # s
        <5>1. Placed("lockWait", r)' = Placed("lockWait", r)
          BY <2>3, <4>3 DEF Placed
        <5>2. lockQueue'[r] = lockQueue[r]
          BY <1>0, <2>1, <4>3 DEF TypeOK
        <5> QED BY <4>1, <5>1, <5>2
      <4> QED BY <4>2, <4>3
    <3> QED BY <3>4, <3>5 DEF WaitersQueued
  <2> QED BY <1>0, <2>1, <2>2, <2>4, <2>5, <2>6, <2>7, <2>8, FollowUpsSame, InlineSame
<1> QED BY <1>1, <1>2

-----------------------------------------------------------------------------
(* The theorems.                                                            *)

LEMMA InvInit == Init => IInv
<1> SUFFICES ASSUME Init PROVE IInv
  OBVIOUS
<1>1. TypeOK
  BY TypeInit
<1>2. LockInv /\ QueueInv /\ InlineInv
  BY MessagesAssumption DEF Init, LockInv, QueueInv, InlineInv, HoldLock, InTurn
<1>3. GateInv
  <2>1. gate = {m \in Messages : at[m] \in InTurn /\ ~IsDirect(m)}
    BY DEF Init, InTurn
  <2>2. Cardinality(gate) = 0
    BY FS_EmptySet DEF Init
  <2> QED BY <2>1, <2>2, BoundsAssumption DEF Init, GateInv
<1>4. BusHoldsOnce /\ FollowUpsHeldOnce /\ WaitersQueued
  <2>1. Lists(<<>>, {})
    BY ListsEmpty
  <2>2. \A p \in Places, s \in Sessions : p # "unsent" => Placed(p, s) = {}
    BY DEF Init, Placed
  <2>3. \A p \in Places : p # "unsent" => {m \in Messages : at[m] = p} = {}
    BY DEF Init
  <2> QED BY <2>1, <2>2, <2>3 DEF Init, BusHoldsOnce, FollowUpsHeldOnce, WaitersQueued, Places
<1> QED BY <1>1, <1>2, <1>3, <1>4 DEF IInv

LEMMA InvStep == IInv /\ [Next]_vars => IInv'
<1> SUFFICES ASSUME IInv, [Next]_vars PROVE IInv'
  OBVIOUS
<1>1. TypeOK /\ TypeOK'
  BY TypeStep DEF IInv
<1>2. CASE UNCHANGED vars
  <2>1. SameTurns /\ (\A p : Same(p))
        /\ UNCHANGED <<inbound, deferred, inline, lock, lockQueue, gate, gateQueue,
                       pendingQueues, pending>>
    BY <1>2 DEF SameTurns, Same, vars, bus, locks, turns, tasks
  <2> QED BY <1>1, <2>1, BusSame, FollowUpsSame, WaitersSame, TurnsSame, InlineSame DEF IInv
<1>3. CASE RunLoop
  <2>1. PICK m \in Messages : \/ DropUnbound(m) \/ RunInline(m) \/ FinishInline(m)
                              \/ Defer(m) \/ RouteFollowUp(m) \/ CreateTask(m)
    BY <1>3 DEF RunLoop
  <2>2. LockInv' /\ GateInv' /\ QueueInv' /\ InlineInv'
        /\ BusHoldsOnce' /\ FollowUpsHeldOnce' /\ WaitersQueued'
    BY <2>1, InvRouting, InvFinishInline
  <2> QED BY <1>1, <2>2 DEF IInv
<1>4. ASSUME NEW m \in Messages,
             \/ Publish(m) \/ CallDirect(m) \/ AbandonDirect(m)
             \/ Advance(m) \/ Drain(m) \/ End(m)
      PROVE  IInv'
  <2>1. End(m) => \/ \E f \in Fates : EndTurn(m, f) \/ EndDirect(m, f)
                  \/ CancelUnstarted(m) \/ CancelWaiting(m)
    BY DEF End
  <2>2. LockInv' /\ GateInv' /\ QueueInv' /\ InlineInv'
        /\ BusHoldsOnce' /\ FollowUpsHeldOnce' /\ WaitersQueued'
    BY <1>4, <2>1, InvEnvironment, InvAdvance, InvDrain, InvEndTurn, InvEndDirect, InvCancelled
  <2> QED BY <1>1, <2>2 DEF IInv
<1> QED BY <1>2, <1>3, <1>4 DEF Next

LEMMA InvHolds == Spec => []IInv
BY InvInit, InvStep, PTL DEF Spec

\* Two turns of one session, direct calls included, never overlap, whatever is
\* cancelled and however many sessions, messages and gate slots there are.
THEOREM SerialSessions == Spec => []TurnsAreSerial
<1>1. IInv => TurnsAreSerial
  BY MessagesAssumption DEF IInv, LockInv, TurnsAreSerial, HoldLock
<1> QED BY <1>1, InvHolds, PTL

\* A cancellation at any point neither leaks nor doubles a slot of the gate.
THEOREM GateHolds == Spec => []GateBoundsTurns
<1>1. IInv => GateBoundsTurns
  BY DEF IInv, GateInv, GateBoundsTurns
<1> QED BY <1>1, InvHolds, PTL

\* No waiting task or late clean-up touches the queue of the running turn.
THEOREM QueueOwned == Spec => []QueueBelongsToTurn
<1>1. ASSUME IInv PROVE QueueBelongsToTurn
  <2> SUFFICES ASSUME NEW s \in Sessions, pendingQueues[s] # None
               PROVE  /\ lock[s] = pendingQueues[s]
                      /\ at[pendingQueues[s]] \in InTurn
                      /\ ~IsDirect(pendingQueues[s])
    BY DEF QueueBelongsToTurn
  <2>1. /\ pendingQueues[s] \in Messages /\ SessionOf[pendingQueues[s]] = s
        /\ at[pendingQueues[s]] \in InTurn /\ ~IsDirect(pendingQueues[s])
    BY <1>1 DEF IInv, TypeOK, QueueInv
  <2> QED BY <1>1, <2>1 DEF IInv, LockInv, HoldLock
<1> QED BY <1>1, InvHolds, PTL

\* Republished or deferred however often, a message is on the bus or in its
\* session's deferred queue exactly as often as it is there: once.
THEOREM NothingRunsTwice == Spec => []BusHoldsOnce
<1>1. IInv => BusHoldsOnce
  BY DEF IInv
<1> QED BY <1>1, InvHolds, PTL

\* A follow-up is in the queue of a turn that will take it or send it round.
THEOREM FollowUpsKept == Spec => []FollowUpsHeldOnce
<1>1. IInv => FollowUpsHeldOnce
  BY DEF IInv
<1> QED BY <1>1, InvHolds, PTL

\* Nobody waits for a lock or the gate without standing in its queue.
THEOREM NobodyForgotten == Spec => []WaitersQueued
<1>1. IInv => WaitersQueued
  BY DEF IInv
<1> QED BY <1>1, InvHolds, PTL
=============================================================================
