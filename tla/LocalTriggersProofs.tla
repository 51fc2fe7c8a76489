------------------------- MODULE LocalTriggersProofs -------------------------
(***************************************************************************)
(* At-least-once delivery of LocalTriggers for every number of triggers,   *)
(* deliveries and kills, every batch size and every attempt limit.         *)
(***************************************************************************)
EXTENDS LocalTriggers, TLAPS

\* Nothing is known of a delivery before it is accepted.
Fresh(d) ==
    d \notin accepted => starts[d] = 0 /\ d \notin batch /\ \A dir \in Dirs : ~Has(dir, d)

\* AcceptedNotLost for one delivery.
Kept(d) ==
    d \in accepted /\ trigger[TriggerOf[d]] # "deleted" =>
        d \in settled \/ \E dir \in Dirs : Has(dir, d)

\* A second copy is where the claimed one would go, and no worker runs.
Copies(d) ==
    /\ ~(Has("inbox", d) /\ Has("failed", d))
    /\ Has("processing", d) =>
          \A dir \in {"inbox", "failed"} :
             Has(dir, d) => worker = "down" /\ dir = RetryDir(disk["processing"][d])

\* ClaimedIsInBatch for one delivery.
Claimed(d) ==
    worker = "up" /\ Has("processing", d) =>
        d \in batch /\ disk["processing"][d] = attempts[d]

\* What the worker holds in memory is nowhere else to be delivered, and only
\* the turn it awaits is not counted in the attempts yet.
Held(d) ==
    d \in batch =>
        /\ worker = "up" /\ ~Has("inbox", d) /\ ~Has("failed", d)
        /\ attempts[d] < MaxAttempts
        /\ \/ starts[d] <= attempts[d]
           \/ starts[d] = attempts[d] + 1 /\ submitted /\ \A e \in batch : d <= e

\* The attempts of a file count the turns started for it.
Counted(d) ==
    /\ Has("inbox", d) => starts[d] <= disk["inbox"][d] /\ disk["inbox"][d] < MaxAttempts
    /\ Has("processing", d) =>
          starts[d] <= disk["processing"][d] + 1 /\ disk["processing"][d] < MaxAttempts
    /\ starts[d] <= MaxAttempts

Good(d) == Fresh(d) /\ Kept(d) /\ Copies(d) /\ Claimed(d) /\ Held(d) /\ Counted(d)

\* The inductive invariant.
DeliveryInv == TypeOK /\ \A d \in Deliveries : Good(d)

LEMMA RequeuedType ==
    ASSUME TypeOK, NEW n, NEW unlinked, NEW written \in SUBSET Deliveries,
           \A d \in written : n[d] \in 0 .. MaxAttempts - 1,
           disk' = Requeued(n, unlinked, written)
    PROVE  disk' \in [Dirs -> [Deliveries -> Absent .. MaxAttempts]]
<1>1. ASSUME NEW dir \in Dirs, NEW d \in Deliveries
      PROVE  (CASE dir = "processing" /\ d \in unlinked -> Absent
                [] dir # "processing" /\ d \in written /\ dir = RetryDir(n[d]) -> n[d] + 1
                [] OTHER -> disk[dir][d]) \in Absent .. MaxAttempts
  <2>1. disk[dir][d] \in Absent .. MaxAttempts
    BY DEF TypeOK
  <2>2. d \in written => n[d] + 1 \in Absent .. MaxAttempts
    BY BoundsAssumption DEF Absent
  <2>3. Absent \in Absent .. MaxAttempts
    BY BoundsAssumption DEF Absent
  <2> QED BY <2>1, <2>2, <2>3
<1> QED BY <1>1 DEF Requeued, NextAttempt

-----------------------------------------------------------------------------
(* Every action preserves the invariant.                                    *)

LEMMA InvInit == Init => DeliveryInv
<1> SUFFICES ASSUME Init PROVE DeliveryInv
  OBVIOUS
<1>1. TypeOK
  <2>1. disk \in [Dirs -> [Deliveries -> Absent .. MaxAttempts]]
    BY BoundsAssumption DEF Init, Absent
  <2>2. attempts \in [Deliveries -> 0 .. MaxAttempts]
    BY BoundsAssumption DEF Init
  <2> QED BY <2>1, <2>2 DEF Init, TypeOK
<1>2. ASSUME NEW d \in Deliveries PROVE Good(d)
  <2>1. \A dir \in Dirs : ~Has(dir, d)
    BY DEF Init, Has
  <2>2. /\ d \notin accepted /\ d \notin batch
        /\ starts[d] = 0 /\ 0 <= MaxAttempts
    BY BoundsAssumption DEF Init
  <2> QED BY <2>1, <2>2 DEF Good, Fresh, Kept, Copies, Claimed, Held, Counted, Dirs
<1> QED BY <1>1, <1>2 DEF DeliveryInv

\* A deletion, whole or interrupted, erases files of its trigger only.
LEMMA DeleteErases ==
    ASSUME NEW t \in Triggers, Delete(t)
    PROVE  \E n \in 0 .. 3, gone \in SUBSET Deliveries : disk' = Erase(t, n, gone)
<1>1. CASE disk' = Erase(t, 3, {})
  BY <1>1
<1>2. ASSUME NEW n \in 0 .. 2,
             NEW gone \in SUBSET {d \in Files(EraseOrder[n + 1]) : TriggerOf[d] = t},
             disk' = Erase(t, n, gone)
      PROVE  \E k \in 0 .. 3, lost \in SUBSET Deliveries : disk' = Erase(t, k, lost)
  <2>1. gone \in SUBSET Deliveries /\ n \in 0 .. 3
    BY DEF Files
  <2> QED BY <1>2, <2>1
<1> QED BY <1>1, <1>2 DEF Delete

LEMMA InvUsers ==
    ASSUME DeliveryInv, Users
    PROVE  DeliveryInv'
<1> USE DEF DeliveryInv, memory, history
<1>1. ASSUME NEW t \in Triggers, Create(t) PROVE DeliveryInv'
  <2>1. TypeOK'
    BY <1>1 DEF TypeOK, Create
  <2>2. ASSUME NEW d \in Deliveries PROVE Good(d)'
    <3>1. Good(d) /\ (trigger'[TriggerOf[d]] # "deleted" => trigger[TriggerOf[d]] # "deleted")
      BY <1>1, DeliveriesAssumption DEF TypeOK, Create
    <3> QED BY <1>1, <3>1 DEF Create, Good, Fresh, Kept, Copies, Claimed, Held, Counted, Has
  <2> QED BY <2>1, <2>2
<1>2. ASSUME NEW t \in Triggers, NEW state \in {"enabled", "disabled"}, Enable(t, state)
      PROVE  DeliveryInv'
  <2>1. TypeOK'
    BY <1>2 DEF TypeOK, Enable
  <2>2. ASSUME NEW d \in Deliveries PROVE Good(d)'
    <3>1. Good(d) /\ (trigger'[TriggerOf[d]] # "deleted" => trigger[TriggerOf[d]] # "deleted")
      BY <1>2, DeliveriesAssumption DEF TypeOK, Enable
    <3> QED BY <1>2, <3>1 DEF Enable, Good, Fresh, Kept, Copies, Claimed, Held, Counted, Has
  <2> QED BY <2>1, <2>2
<1>3. ASSUME NEW t \in Triggers, Delete(t) PROVE DeliveryInv'
  <2>1. PICK n \in 0 .. 3, gone \in SUBSET Deliveries : disk' = Erase(t, n, gone)
    BY <1>3, DeleteErases
  <2>2. ASSUME NEW d \in Deliveries, NEW dir \in Dirs
        PROVE  \/ disk'[dir][d] = disk[dir][d]
               \/ disk'[dir][d] = Absent /\ TriggerOf[d] = t
    BY <2>1 DEF Erase
  <2>3. disk' \in [Dirs -> [Deliveries -> Absent .. MaxAttempts]]
    <3>1. \A dir \in Dirs, d \in Deliveries : disk'[dir][d] \in Absent .. MaxAttempts
      BY <2>2, BoundsAssumption DEF TypeOK, Absent
    <3> QED BY <2>1, <3>1 DEF Erase
  <2>4. TypeOK'
    <3>1. kills' \in Nat
      BY <1>3 DEF TypeOK, Delete, Kill
    <3> QED BY <1>3, <2>3, <3>1 DEF TypeOK, Delete
  <2>5. ASSUME NEW d \in Deliveries PROVE Good(d)'
    <3>1. Good(d)
      OBVIOUS
    <3>2. \A dir \in Dirs : Has(dir, d)' => Has(dir, d) /\ disk'[dir][d] = disk[dir][d]
      BY <2>2 DEF Has
    <3>3. UNCHANGED <<worker, batch, attempts, submitted, accepted, settled, starts>>
      BY <1>3 DEF Delete
    <3>4. Kept(d)'
      <4>1. CASE TriggerOf[d] = t
        BY <1>3, <4>1 DEF Kept, Delete, TypeOK
      <4>2. CASE TriggerOf[d] # t
        <5>1. \A dir \in Dirs : Has(dir, d)' <=> Has(dir, d)
          BY <2>2, <4>2 DEF Has
        <5>2. trigger'[TriggerOf[d]] = trigger[TriggerOf[d]]
          BY <1>3, <4>2, DeliveriesAssumption DEF Delete, TypeOK
        <5> QED BY <3>1, <3>3, <5>1, <5>2 DEF Good, Kept
      <4> QED BY <4>1, <4>2
    <3>5. Fresh(d)' /\ Held(d)'
      BY <3>1, <3>2, <3>3 DEF Good, Fresh, Held, Dirs
    <3>6. Copies(d)' /\ Claimed(d)' /\ Counted(d)'
      BY <3>1, <3>2, <3>3 DEF Good, Copies, Claimed, Counted, Dirs
    <3> QED BY <3>4, <3>5, <3>6 DEF Good
  <2> QED BY <2>4, <2>5
<1>4. ASSUME NEW x \in Deliveries, Enqueue(x) PROVE DeliveryInv'
  <2>1. x \notin accepted
    BY <1>4, DeliveriesAssumption DEF Enqueue
  <2>2. TypeOK'
    BY <1>4, BoundsAssumption DEF TypeOK, Enqueue, Dirs, Absent
  <2>3. ASSUME NEW d \in Deliveries PROVE Good(d)'
    <3>1. CASE d = x
      <4>1. starts[d] = 0 /\ d \notin batch /\ ~Has("processing", d) /\ ~Has("failed", d)
        BY <2>1, <3>1 DEF Good, Fresh, Dirs
      <4>2. /\ disk'["inbox"][d] = 0
            /\ disk'["processing"][d] = disk["processing"][d]
            /\ disk'["failed"][d] = disk["failed"][d]
        BY <1>4, <3>1 DEF Enqueue, TypeOK, Dirs
      <4>3. d \in accepted'
        BY <1>4, <3>1 DEF Enqueue
      <4> QED BY <1>4, <4>1, <4>2, <4>3, BoundsAssumption
              DEF Enqueue, Good, Fresh, Kept, Copies, Claimed, Held, Counted, Has, Dirs, Absent
    <3>2. CASE d # x
      <4>1. Good(d)
        OBVIOUS
      <4>2. \A dir \in Dirs : disk'[dir][d] = disk[dir][d]
        BY <1>4, <3>2 DEF Enqueue, TypeOK
      <4>3. d \in accepted' <=> d \in accepted
        BY <1>4, <3>2 DEF Enqueue
      <4> QED BY <1>4, <4>1, <4>2, <4>3
              DEF Enqueue, Good, Fresh, Kept, Copies, Claimed, Held, Counted, Has, Dirs
    <3> QED BY <3>1, <3>2
  <2> QED BY <2>2, <2>3
<1> QED BY <1>1, <1>2, <1>3, <1>4 DEF Users

LEMMA InvStart ==
    ASSUME DeliveryInv, Start
    PROVE  DeliveryInv'
<1> USE DEF DeliveryInv, memory, history
<1>1. PICK unlinked \in SUBSET LeftBehind, written \in SUBSET LeftBehind :
         /\ unlinked \subseteq written
         /\ disk' = Requeued(disk["processing"], unlinked, written)
         /\ worker' = "up" => unlinked = LeftBehind
  <2>1. CASE worker' = "up" /\ disk' = Requeued(disk["processing"], LeftBehind, LeftBehind)
    BY <2>1
  <2>2. CASE Forget /\ \E k \in LeftBehind :
                LET before == {d \in LeftBehind : d < k}
                IN  disk' = Requeued(disk["processing"], before, before \cup {k})
    <3>1. PICK k \in LeftBehind :
             disk' = Requeued(disk["processing"], {d \in LeftBehind : d < k},
                              {d \in LeftBehind : d < k} \cup {k})
      BY <2>2
    <3>2. worker' # "up"
      BY <2>2 DEF Forget
    <3> DEFINE before == {d \in LeftBehind : d < k}
    <3>3. before \in SUBSET LeftBehind /\ before \cup {k} \in SUBSET LeftBehind
      OBVIOUS
    <3>4. before \subseteq before \cup {k}
      OBVIOUS
    <3>5. disk' = Requeued(disk["processing"], before, before \cup {k})
      BY <3>1
    <3> HIDE DEF before
    <3> QED BY <3>2, <3>3, <3>4, <3>5
  <2> QED BY <2>1, <2>2 DEF Start
<1>2. /\ worker = "down" /\ worker' \in {"up", "down"}
      /\ UNCHANGED <<trigger, attempts, accepted, settled, starts>>
      /\ batch' \in {batch, {}} /\ submitted' \in {submitted, FALSE} /\ kills' \in Nat
  <2>1. worker = "down" /\ UNCHANGED <<trigger, accepted, settled, starts>>
    BY DEF Start
  <2>2. CASE worker' = "up" /\ UNCHANGED <<batch, attempts, submitted, kills>>
    BY <2>1, <2>2 DEF TypeOK
  <2>3. CASE Kill /\ Forget
    <3>1. kills' \in Nat
      BY <2>3 DEF TypeOK, Kill
    <3>2. worker' = "down" /\ batch' = {} /\ submitted' = FALSE /\ attempts' = attempts
      BY <2>3 DEF Forget
    <3> QED BY <2>1, <3>1, <3>2
  <2> QED BY <2>2, <2>3 DEF Start
<1>3. \A d \in Deliveries : d \notin batch
  BY <1>2 DEF Good, Held
<1>4. \A d \in LeftBehind : disk["processing"][d] \in 0 .. MaxAttempts - 1
  BY BoundsAssumption DEF LeftBehind, Files, Has, Good, Counted, TypeOK, Dirs, Absent
<1>5. TypeOK'
  <2>1. disk' \in [Dirs -> [Deliveries -> Absent .. MaxAttempts]]
    BY <1>1, <1>4, RequeuedType DEF LeftBehind, Files
  <2> QED BY <1>2, <2>1 DEF TypeOK
<1>6. ASSUME NEW d \in Deliveries PROVE Good(d)'
  <2> DEFINE p == disk["processing"][d]
             target == RetryDir(p)
  <2>1. Good(d) /\ d \notin batch'
    BY <1>2, <1>3
  <2>2. /\ disk'["processing"][d] = IF d \in unlinked THEN Absent ELSE p
        /\ \A dir \in {"inbox", "failed"} :
              disk'[dir][d] = IF d \in written /\ dir = target THEN p + 1 ELSE disk[dir][d]
    BY <1>1 DEF Requeued, Dirs, NextAttempt
  <2>3. d \in LeftBehind <=> Has("processing", d)
    BY DEF LeftBehind, Files
  <2>4. target \in {"inbox", "failed"} /\ (target = "inbox" <=> p + 1 < MaxAttempts)
    <3>1. p \in Int /\ MaxAttempts \in Nat
      BY BoundsAssumption DEF TypeOK, Dirs, Absent
    <3> QED BY <3>1 DEF RetryDir
  <2>5. CASE d \in written
    <3>1. Has("processing", d) /\ p \in 0 .. MaxAttempts - 1 /\ p + 1 # Absent
      BY <1>4, <2>3, <2>5 DEF Absent
    <3>2. \A dir \in {"inbox", "failed"} :
             Has(dir, d)' <=> dir = target
      BY <2>1, <2>2, <2>5, <3>1 DEF Good, Copies, Has
    <3>3. Has("processing", d)' => worker' = "down" /\ disk'["processing"][d] = p
      BY <1>1, <1>2, <2>2, <2>3, <3>1 DEF Has
    <3>4. d \in accepted
      BY <2>1, <3>1 DEF Good, Fresh, Dirs
    <3>5. Fresh(d)' /\ Kept(d)'
      BY <1>2, <2>4, <3>2, <3>4 DEF Fresh, Kept, Dirs
    <3>6. Copies(d)' /\ Claimed(d)' /\ Held(d)'
      BY <2>1, <2>4, <3>2, <3>3 DEF Copies, Claimed, Held
    <3>7. Counted(d)'
      <4>1. starts'[d] <= p + 1 /\ starts'[d] <= MaxAttempts
        BY <1>2, <2>1, <3>1 DEF Good, Counted
      <4>2. Has("inbox", d)' => disk'["inbox"][d] = p + 1 /\ p + 1 < MaxAttempts
        BY <2>2, <2>4, <2>5, <3>2
      <4> QED BY <3>1, <3>3, <4>1, <4>2, BoundsAssumption DEF Counted
    <3> QED BY <3>5, <3>6, <3>7 DEF Good
  <2>6. CASE d \notin written
    <3>1. \A dir \in Dirs : disk'[dir][d] = disk[dir][d]
      BY <1>1, <2>2, <2>6 DEF Dirs
    <3>2. worker' = "up" => ~Has("processing", d)
      BY <1>1, <2>3, <2>6
    <3> QED BY <1>2, <2>1, <3>1, <3>2
            DEF Good, Fresh, Kept, Copies, Claimed, Held, Counted, Has, Dirs
  <2> QED BY <2>5, <2>6
<1> QED BY <1>5, <1>6

LEMMA InvClaim ==
    ASSUME DeliveryInv, Claim
    PROVE  DeliveryInv'
<1>1. PICK claimed \in SUBSET Oldest :
         /\ disk' = Moved(claimed)
         /\ \/ /\ worker' = "up" /\ batch' = claimed /\ claimed = Oldest
               /\ attempts' = [d \in Deliveries |->
                                IF d \in Oldest THEN disk["inbox"][d] ELSE attempts[d]]
               /\ UNCHANGED <<submitted, kills>>
            \/ Kill /\ Forget
  <2>1. CASE /\ disk' = Moved(Oldest) /\ batch' = Oldest
             /\ attempts' = [d \in Deliveries |->
                               IF d \in Oldest THEN disk["inbox"][d] ELSE attempts[d]]
             /\ UNCHANGED <<worker, submitted, kills>>
    <3>1. worker' = "up"
      BY <2>1 DEF Claim
    <3> QED BY <2>1, <3>1
  <2>2. CASE Kill /\ Forget /\ \E k \in Oldest : disk' = Moved({d \in Oldest : d < k})
    <3>1. PICK k \in Oldest : disk' = Moved({d \in Oldest : d < k})
      BY <2>2
    <3>2. {d \in Oldest : d < k} \in SUBSET Oldest
      OBVIOUS
    <3> QED BY <2>2, <3>1, <3>2
  <2> QED BY <2>1, <2>2 DEF Claim
<1>2. /\ worker = "up" /\ batch = {}
      /\ UNCHANGED <<trigger, accepted, settled, starts>>
  BY DEF Claim, history
<1>3. ASSUME NEW d \in claimed
      PROVE  d \in Deliveries /\ disk["inbox"][d] # Absent
  BY DEF Oldest, Files, Has
<1>4. ASSUME NEW d \in Deliveries
      PROVE  /\ disk'["processing"][d] =
                   IF d \in claimed THEN disk["inbox"][d] ELSE disk["processing"][d]
             /\ disk'["inbox"][d] = IF d \in claimed THEN Absent ELSE disk["inbox"][d]
             /\ disk'["failed"][d] = disk["failed"][d]
  BY <1>1 DEF Moved, Dirs
<1>5. TypeOK'
  <2>1. disk' \in [Dirs -> [Deliveries -> Absent .. MaxAttempts]]
    <3>1. \A dir \in Dirs, d \in Deliveries : disk'[dir][d] \in Absent .. MaxAttempts
      BY <1>4, BoundsAssumption DEF DeliveryInv, TypeOK, Dirs, Absent
    <3> QED BY <1>1, <3>1 DEF Moved
  <2>2. CASE worker' = "up" /\ batch' = claimed /\ UNCHANGED <<submitted, kills>> /\
             attempts' = [d \in Deliveries |->
                            IF d \in Oldest THEN disk["inbox"][d] ELSE attempts[d]]
    <3>1. \A d \in Oldest : disk["inbox"][d] \in 0 .. MaxAttempts
      BY BoundsAssumption DEF Oldest, Files, Has, Absent, DeliveryInv, TypeOK, Dirs
    <3>2. attempts' \in [Deliveries -> 0 .. MaxAttempts]
      BY <2>2, <3>1 DEF DeliveryInv, TypeOK
    <3>3. batch' \subseteq Deliveries
      BY <2>2, <1>3
    <3> QED BY <1>2, <2>1, <2>2, <3>2, <3>3 DEF DeliveryInv, TypeOK
  <2>3. CASE Kill /\ Forget
    <3>1. kills' \in Nat
      BY <2>3 DEF DeliveryInv, TypeOK, Kill
    <3> QED BY <1>2, <2>1, <2>3, <3>1 DEF DeliveryInv, TypeOK, Forget
  <2> QED BY <1>1, <2>2, <2>3
<1>6. ASSUME NEW d \in Deliveries PROVE Good(d)'
  <2>1. Good(d) /\ ~Has("processing", d)
    BY <1>2 DEF DeliveryInv, Good, Claimed
  <2>2. worker' = "up" \/ (worker' = "down" /\ batch' = {})
    BY <1>1 DEF Forget
  <2>3. CASE d \in claimed
    <3>1. Has("inbox", d) /\ ~Has("failed", d) /\ d \in accepted
      BY <1>3, <2>1, <2>3 DEF Good, Copies, Fresh, Has, Dirs
    <3>2. ~Has("inbox", d)' /\ ~Has("failed", d)' /\ Has("processing", d)'
      BY <1>4, <2>3, <3>1 DEF Has
    <3>3. worker' = "up" => d \in batch' /\ attempts'[d] = disk["inbox"][d]
      BY <1>1, <2>3 DEF Forget
    <3>4. /\ disk'["processing"][d] = disk["inbox"][d]
          /\ starts'[d] <= disk["inbox"][d] /\ disk["inbox"][d] < MaxAttempts
          /\ disk["inbox"][d] \in Int /\ starts'[d] \in Nat /\ MaxAttempts \in Nat
      BY <1>2, <1>4, <2>1, <2>3, <3>1, BoundsAssumption
         DEF Good, Counted, DeliveryInv, TypeOK, Dirs, Absent
    <3>5. Fresh(d)' /\ Kept(d)'
      BY <1>2, <3>1, <3>2 DEF Fresh, Kept, Dirs
    <3>6. Copies(d)' /\ Claimed(d)'
      BY <3>2, <3>3, <3>4 DEF Copies, Claimed
    <3>7. Held(d)'
      BY <2>2, <3>2, <3>3, <3>4 DEF Held
    <3>8. Counted(d)'
      BY <3>2, <3>4 DEF Counted
    <3> QED BY <3>5, <3>6, <3>7, <3>8 DEF Good
  <2>4. CASE d \notin claimed
    <3>1. \A dir \in Dirs : disk'[dir][d] = disk[dir][d]
      BY <1>4, <2>4 DEF Dirs
    <3>2. d \notin batch'
      BY <1>1, <2>4 DEF Forget
    <3> QED BY <1>2, <2>1, <3>1, <3>2
            DEF Good, Fresh, Kept, Copies, Claimed, Held, Counted, Has, Dirs
  <2> QED BY <2>3, <2>4
<1> QED BY <1>5, <1>6 DEF DeliveryInv

\* Only the first delivery of the batch can have a turn that is not counted.
LEMMA RestCounted ==
    ASSUME DeliveryInv, NEW d, Handling(d), NEW e \in batch, e # d
    PROVE  starts[e] <= attempts[e]
<1>1. d \in Nat /\ e \in Nat /\ d \in batch /\ d <= e
  BY DeliveriesAssumption DEF DeliveryInv, TypeOK, Handling
<1>2. ~ \A x \in batch : e <= x
  BY <1>1
<1> QED BY <1>1, <1>2 DEF DeliveryInv, TypeOK, Good, Held

LEMMA InvAcknowledge ==
    ASSUME DeliveryInv, NEW d \in Deliveries, Handling(d), Acknowledge(d)
    PROVE  DeliveryInv'
<1>1. TypeOK'
  <2>1. disk' \in [Dirs -> [Deliveries -> Absent .. MaxAttempts]]
    BY BoundsAssumption DEF DeliveryInv, TypeOK, Acknowledge, Dirs, Absent
  <2> QED BY <2>1 DEF DeliveryInv, TypeOK, Acknowledge
<1>2. ASSUME NEW e \in Deliveries PROVE Good(e)'
  <2>1. Good(e) /\ UNCHANGED <<trigger, worker, attempts, accepted, starts>>
    BY DEF DeliveryInv, Acknowledge
  <2>2. CASE e = d
    <3>1. /\ disk'["processing"][e] = Absent
          /\ disk'["inbox"][e] = disk["inbox"][e] /\ disk'["failed"][e] = disk["failed"][e]
      BY <2>2 DEF Acknowledge, DeliveryInv, TypeOK, Dirs
    <3>2. e \in settled' /\ e \notin batch' /\ e \in accepted
      BY <2>1, <2>2 DEF Acknowledge, Handling, Good, Fresh
    <3> QED BY <2>1, <3>1, <3>2
            DEF Good, Fresh, Kept, Copies, Claimed, Held, Counted, Has
  <2>3. CASE e # d
    <3>1. \A dir \in Dirs : disk'[dir][e] = disk[dir][e]
      BY <2>3 DEF Acknowledge, DeliveryInv, TypeOK
    <3>2. (e \in batch' <=> e \in batch) /\ (e \in settled' <=> e \in settled)
      BY <2>3 DEF Acknowledge
    <3>3. e \in batch => starts[e] <= attempts[e]
      BY <2>3, RestCounted
    <3> QED BY <2>1, <3>1, <3>2, <3>3
            DEF Good, Fresh, Kept, Copies, Claimed, Held, Counted, Has, Dirs
  <2> QED BY <2>2, <2>3
<1> QED BY <1>1, <1>2 DEF DeliveryInv

LEMMA InvSubmit ==
    ASSUME DeliveryInv, NEW d \in Deliveries, Submit(d)
    PROVE  DeliveryInv'
<1>1. TypeOK'
  BY DEF DeliveryInv, TypeOK, Submit
<1>2. ASSUME NEW e \in Deliveries PROVE Good(e)'
  <2>1. /\ Good(e) /\ ~submitted /\ submitted'
        /\ UNCHANGED <<trigger, disk, worker, batch, attempts, accepted, settled>>
    BY DEF DeliveryInv, Submit
  <2>2. CASE e = d
    <3>1. /\ e \in batch /\ worker = "up" /\ \A x \in batch : e <= x
          /\ starts'[e] = starts[e] + 1
      BY <2>2 DEF Submit, Handling, DeliveryInv, TypeOK
    <3>2. /\ e \in accepted /\ ~Has("inbox", e) /\ ~Has("failed", e)
          /\ starts[e] <= attempts[e] /\ attempts[e] < MaxAttempts
          /\ Has("processing", e) => disk["processing"][e] = attempts[e]
      BY <2>1, <3>1 DEF Good, Fresh, Held, Claimed
    <3>3. starts[e] \in Nat /\ attempts[e] \in Nat /\ MaxAttempts \in Nat
      BY BoundsAssumption DEF DeliveryInv, TypeOK
    <3>4. /\ starts'[e] <= MaxAttempts /\ starts'[e] <= attempts[e] + 1
          /\ starts'[e] <= attempts[e] \/ starts'[e] = attempts[e] + 1
      BY <3>1, <3>2, <3>3
    <3>5. Fresh(e)' /\ Kept(e)' /\ Copies(e)' /\ Claimed(e)'
      BY <2>1, <3>1, <3>2 DEF Good, Fresh, Kept, Copies, Claimed, Has
    <3>6. Held(e)' /\ Counted(e)'
      BY <2>1, <3>1, <3>2, <3>4 DEF Good, Held, Counted, Has
    <3> QED BY <3>5, <3>6 DEF Good
  <2>3. CASE e # d
    <3>1. starts'[e] = starts[e]
      BY <2>3 DEF Submit, DeliveryInv, TypeOK
    <3> QED BY <2>1, <3>1
            DEF Good, Fresh, Kept, Copies, Claimed, Held, Counted, Has
  <2> QED BY <2>2, <2>3
<1> QED BY <1>1, <1>2 DEF DeliveryInv

\* Retry and Cancelled: the worker gives one delivery of its batch back.
LEMMA InvGivenBack ==
    ASSUME DeliveryInv, NEW d \in Deliveries, Handling(d), Retry(d) \/ Cancelled(d)
    PROVE  DeliveryInv'
<1>1. PICK unlinked \in {{}, {d}} :
         /\ disk' = Requeued(attempts, unlinked, {d})
         /\ worker' \in {"up", "down"} /\ submitted' = FALSE
         /\ worker' = "up" => unlinked = {d} /\ batch' = batch \ {d}
         /\ worker' = "down" => batch' = {}
         /\ \/ UNCHANGED attempts
            \/ attempts' = [attempts EXCEPT ![d] = @ + 1]
         /\ kills' \in Nat
  <2>1. CASE /\ disk' = Requeued(attempts, {d}, {d})
             /\ attempts' = [attempts EXCEPT ![d] = NextAttempt(@)]
             /\ batch' = batch \ {d} /\ submitted' = FALSE
             /\ UNCHANGED <<worker, kills>>
    <3>1. worker' = "up" /\ kills' \in Nat
      BY <2>1 DEF Handling, DeliveryInv, TypeOK
    <3>2. attempts' = [attempts EXCEPT ![d] = @ + 1]
      BY <2>1 DEF NextAttempt
    <3> QED BY <2>1, <3>1, <3>2
  <2>2. CASE Kill /\ Forget /\ \E u \in {{}, {d}} : disk' = Requeued(attempts, u, {d})
    <3>1. kills' \in Nat
      BY <2>2 DEF Kill, DeliveryInv, TypeOK
    <3> QED BY <2>2, <3>1 DEF Forget
  <2> QED BY <2>1, <2>2 DEF Retry, Cancelled
<1>2. /\ UNCHANGED <<trigger, accepted, settled, starts>>
      /\ d \in batch /\ worker = "up"
  BY DEF Retry, Cancelled, Handling, history
<1>3. /\ Good(d) /\ attempts[d] \in 0 .. MaxAttempts - 1 /\ MaxAttempts \in Nat
      /\ starts[d] \in Nat /\ starts[d] <= attempts[d] + 1
  BY <1>2, BoundsAssumption DEF DeliveryInv, TypeOK, Good, Held
<1>4. TypeOK'
  <2>1. disk' \in [Dirs -> [Deliveries -> Absent .. MaxAttempts]]
    <3>1. TypeOK /\ {d} \in SUBSET Deliveries /\ \A e \in {d} : attempts[e] \in 0 .. MaxAttempts - 1
      BY <1>3 DEF DeliveryInv
    <3> QED BY <1>1, <3>1, RequeuedType
  <2>2. attempts' \in [Deliveries -> 0 .. MaxAttempts]
    BY <1>1, <1>3 DEF DeliveryInv, TypeOK
  <2>3. batch' \subseteq Deliveries
    BY <1>1 DEF DeliveryInv, TypeOK
  <2> QED BY <1>1, <1>2, <2>1, <2>2, <2>3 DEF DeliveryInv, TypeOK
<1>5. ASSUME NEW e \in Deliveries PROVE Good(e)'
  <2>1. CASE e = d
    <3> DEFINE target == RetryDir(attempts[d])
    <3>1. target \in {"inbox", "failed"} /\ (target = "inbox" <=> attempts[d] + 1 < MaxAttempts)
      BY <1>3 DEF RetryDir
    <3>2. /\ disk'["processing"][d] = IF d \in unlinked THEN Absent ELSE disk["processing"][d]
          /\ \A dir \in {"inbox", "failed"} :
                disk'[dir][d] = IF dir = target THEN attempts[d] + 1 ELSE disk[dir][d]
      BY <1>1 DEF Requeued, Dirs, NextAttempt
    <3>3. /\ d \in accepted /\ d \notin batch' /\ ~Has("inbox", d) /\ ~Has("failed", d)
          /\ Has("processing", d) => disk["processing"][d] = attempts[d]
      BY <1>1, <1>2, <1>3 DEF Good, Fresh, Held, Claimed
    <3>4. \A dir \in {"inbox", "failed"} : Has(dir, d)' <=> dir = target
      BY <1>3, <3>2, <3>3 DEF Has, Absent
    <3>5. Has("processing", d)' =>
             worker' = "down" /\ disk'["processing"][d] = attempts[d]
      BY <1>1, <3>2, <3>3 DEF Has
    <3>6. Fresh(d)' /\ Kept(d)'
      BY <1>2, <3>1, <3>3, <3>4 DEF Fresh, Kept, Dirs
    <3>7. Copies(d)' /\ Claimed(d)' /\ Held(d)'
      BY <3>1, <3>3, <3>4, <3>5 DEF Copies, Claimed, Held
    <3>8. Counted(d)'
      <4>1. starts'[d] <= attempts[d] + 1 /\ starts'[d] <= MaxAttempts
        BY <1>2, <1>3
      <4>2. Has("inbox", d)' =>
               disk'["inbox"][d] = attempts[d] + 1 /\ attempts[d] + 1 < MaxAttempts
        BY <3>1, <3>2, <3>4
      <4> QED BY <1>3, <3>5, <4>1, <4>2 DEF Counted
    <3> QED BY <2>1, <3>6, <3>7, <3>8 DEF Good
  <2>2. CASE e # d
    <3>1. \A dir \in Dirs : disk'[dir][e] = disk[dir][e]
      BY <1>1, <2>2 DEF Requeued
    <3>2. Good(e) /\ attempts'[e] = attempts[e]
      BY <1>1, <2>2 DEF DeliveryInv, TypeOK
    <3>3. e \in batch => starts[e] <= attempts[e]
      BY <2>2, RestCounted
    <3>4. (e \in batch' => e \in batch /\ worker' = "up") /\ (worker' = "up" /\ e \in batch => e \in batch')
      BY <1>1, <2>2
    <3>5. Fresh(e)' /\ Kept(e)' /\ Counted(e)'
      BY <1>2, <3>1, <3>2, <3>4 DEF Good, Fresh, Kept, Counted, Has, Dirs
    <3>6. Copies(e)' /\ Claimed(e)'
      BY <1>2, <3>1, <3>2, <3>4 DEF Good, Copies, Claimed, Has, Dirs
    <3>7. Held(e)'
      BY <1>2, <3>1, <3>2, <3>3, <3>4 DEF Good, Held, Has, Dirs
    <3> QED BY <3>5, <3>6, <3>7 DEF Good
  <2> QED BY <2>1, <2>2
<1> QED BY <1>4, <1>5 DEF DeliveryInv

LEMMA InvCrash ==
    ASSUME DeliveryInv, Crash
    PROVE  DeliveryInv'
<1>1. /\ worker' = "down" /\ batch' = {} /\ submitted' = FALSE
      /\ UNCHANGED <<trigger, disk, attempts, accepted, settled, starts>>
      /\ kills' \in Nat
  <2>1. kills' \in Nat
    BY DEF Crash, Kill, DeliveryInv, TypeOK
  <2> QED BY <2>1 DEF Crash, Forget, history
<1>2. TypeOK'
  BY <1>1 DEF DeliveryInv, TypeOK
<1>3. ASSUME NEW d \in Deliveries PROVE Good(d)'
  <2>1. Good(d)
    BY DEF DeliveryInv
  <2> QED BY <1>1, <2>1 DEF Good, Fresh, Kept, Copies, Claimed, Held, Counted, Has
<1> QED BY <1>2, <1>3 DEF DeliveryInv

LEMMA InvStep ==
    ASSUME DeliveryInv, [Next]_vars
    PROVE  DeliveryInv'
<1>1. CASE Users
  BY <1>1, InvUsers
<1>2. CASE Start
  BY <1>2, InvStart
<1>3. CASE Claim
  BY <1>3, InvClaim
<1>4. CASE Handle
  <2>1. ASSUME NEW d \in Deliveries, Drop(d) \/ TurnOver(d) PROVE DeliveryInv'
    BY <2>1, InvAcknowledge DEF Drop, TurnOver
  <2> QED BY <1>4, <2>1, InvSubmit DEF Handle
<1>5. CASE Crash
  BY <1>5, InvCrash
<1>6. CASE \E d \in Deliveries : Retry(d) \/ Cancelled(d)
  <2>1. PICK d \in Deliveries : Retry(d) \/ Cancelled(d)
    BY <1>6
  <2>2. Handling(d)
    BY <2>1 DEF Retry, Cancelled
  <2> QED BY <2>1, <2>2, InvGivenBack
<1>7. CASE UNCHANGED vars
  BY <1>7 DEF vars, DeliveryInv, TypeOK, Good, Fresh, Kept, Copies, Claimed, Held, Counted, Has
<1> QED BY <1>1, <1>2, <1>3, <1>4, <1>5, <1>6, <1>7 DEF Next

\* The invariant holds throughout.
LEMMA InvAlways == Spec => []DeliveryInv
<1>1. Init => DeliveryInv
  BY InvInit
<1>2. DeliveryInv /\ [Next]_vars => DeliveryInv'
  BY InvStep
<1> QED BY <1>1, <1>2, PTL DEF Spec

-----------------------------------------------------------------------------
(* Theorems                                                                 *)

\* An accepted delivery is on disk until it is acknowledged or its trigger is
\* deleted: the store's write-then-unlink order survives every kill.
THEOREM NothingLost == Spec => []AcceptedNotLost
<1>1. DeliveryInv => AcceptedNotLost
  <2> SUFFICES ASSUME DeliveryInv, NEW d \in accepted, trigger[TriggerOf[d]] # "deleted"
               PROVE  d \in settled \/ \E dir \in Dirs : Has(dir, d)
    BY DEF AcceptedNotLost
  <2>1. d \in Deliveries
    BY DEF DeliveryInv, TypeOK
  <2> QED BY <2>1 DEF DeliveryInv, Good, Kept
<1> QED BY <1>1, InvAlways, PTL

\* No delivery waits twice: the copies that a kill leaves are resolved by the
\* recovery before the worker claims again.
THEOREM NothingTwice == Spec => []OneLiveCopy
<1>1. DeliveryInv => OneLiveCopy
  BY DEF DeliveryInv, Good, Copies, OneLiveCopy
<1> QED BY <1>1, InvAlways, PTL

\* What lies in processing while the worker runs is what the worker holds.
THEOREM NothingRots == Spec => []ClaimedIsInBatch
<1>1. DeliveryInv => ClaimedIsInBatch
  BY DEF DeliveryInv, Good, Claimed, ClaimedIsInBatch, Files
<1> QED BY <1>1, InvAlways, PTL

\* No delivery reaches the agent more than MaxAttempts times, whatever crashes.
THEOREM AttemptsBound == Spec => []StartsBounded
<1>1. DeliveryInv => StartsBounded
  BY DEF DeliveryInv, Good, Counted, StartsBounded
<1> QED BY <1>1, InvAlways, PTL

-----------------------------------------------------------------------------
(* The queue as DeliveryQueue promises it: what the refinement needs more.  *)

\* A second copy has the attempts that the recovery will write again.
CopiesCount(d) ==
    Has("processing", d) =>
        \A dir \in {"inbox", "failed"} :
            Has(dir, d) => disk[dir][d] = disk["processing"][d] + 1

\* Nothing is left of what was acknowledged.
GoneForGood(d) ==
    d \in settled => d \in accepted /\ d \notin batch /\ \A dir \in Dirs : ~Has(dir, d)

\* The turn the worker waits for is that of the delivery it handles.
AwaitsItsTurn == submitted => \E d \in batch : (\A e \in batch : d <= e) /\ starts[d] > 0

QueueInv ==
    /\ DeliveryInv /\ AwaitsItsTurn
    /\ \A d \in Deliveries : CopiesCount(d) /\ GoneForGood(d)

LEMMA QueueInit == Init => QueueInv
<1> SUFFICES ASSUME Init PROVE QueueInv
  OBVIOUS
<1>1. \A d \in Deliveries, dir \in Dirs : ~Has(dir, d)
  BY DEF Init, Has
<1>2. DeliveryInv /\ ~submitted /\ settled = {}
  BY InvInit DEF Init
<1> QED BY <1>1, <1>2 DEF QueueInv, AwaitsItsTurn, CopiesCount, GoneForGood, Dirs

\* The delivery being handled is claimed, unless its trigger was deleted.
LEMMA HandledIsClaimed ==
    ASSUME QueueInv, NEW d \in Deliveries, Handling(d)
    PROVE  /\ d \in accepted /\ d \notin settled /\ ~Has("inbox", d) /\ ~Has("failed", d)
           /\ attempts[d] \in 0 .. MaxAttempts - 1
           /\ Has("processing", d) => disk["processing"][d] = attempts[d]
           /\ Has("processing", d) \/ Deleted(d)
           /\ submitted => starts[d] > 0
<1>1. d \in batch /\ worker = "up" /\ Good(d) /\ GoneForGood(d)
  BY DEF Handling, QueueInv, DeliveryInv
<1>2. d \in accepted /\ d \notin settled /\ ~Has("inbox", d) /\ ~Has("failed", d)
  BY <1>1 DEF Good, Fresh, Held, GoneForGood
<1>3. attempts[d] \in 0 .. MaxAttempts - 1
  BY <1>1, BoundsAssumption DEF QueueInv, DeliveryInv, TypeOK, Good, Held
<1>4. Has("processing", d) => disk["processing"][d] = attempts[d]
  BY <1>1 DEF Good, Claimed
<1>5. Has("processing", d) \/ Deleted(d)
  BY <1>1, <1>2 DEF Good, Kept, Deleted, Dirs
<1>6. ASSUME submitted PROVE starts[d] > 0
  <2>1. PICK e \in batch : (\A x \in batch : e <= x) /\ starts[e] > 0
    BY <1>6 DEF QueueInv, AwaitsItsTurn
  <2>2. e \in Nat /\ d \in Nat /\ e <= d /\ d <= e
    BY <1>1, <2>1, DeliveriesAssumption DEF Handling, QueueInv, DeliveryInv, TypeOK
  <2> QED BY <2>1, <2>2
<1> QED BY <1>2, <1>3, <1>4, <1>5, <1>6

-----------------------------------------------------------------------------
(* Deliveries that are retried or recovered.                                *)

Retried(n, unlinked, written) ==
    /\ disk' = Requeued(n, unlinked, written)
    /\ UNCHANGED <<trigger, accepted, settled, starts>>
    /\ ~submitted' /\ batch' \subseteq batch
    /\ written \subseteq Deliveries /\ unlinked \subseteq written
    /\ \A d \in written :
          /\ d \in accepted /\ d \notin settled /\ n[d] \in 0 .. MaxAttempts - 1
          /\ Has("processing", d) => disk["processing"][d] = n[d]
          /\ Has("processing", d) \/ Deleted(d)

LEMMA StartRetries ==
    ASSUME QueueInv, Start
    PROVE  \E unlinked, written : Retried(disk["processing"], unlinked, written)
<1>1. PICK unlinked \in SUBSET LeftBehind, written \in SUBSET LeftBehind :
         /\ unlinked \subseteq written
         /\ disk' = Requeued(disk["processing"], unlinked, written)
  <2>1. CASE disk' = Requeued(disk["processing"], LeftBehind, LeftBehind)
    BY <2>1
  <2>2. CASE \E k \in LeftBehind :
                LET before == {d \in LeftBehind : d < k}
                IN  disk' = Requeued(disk["processing"], before, before \cup {k})
    <3>1. PICK k \in LeftBehind :
             disk' = Requeued(disk["processing"], {d \in LeftBehind : d < k},
                              {d \in LeftBehind : d < k} \cup {k})
      BY <2>2
    <3> DEFINE before == {d \in LeftBehind : d < k}
    <3>2. before \in SUBSET LeftBehind /\ before \cup {k} \in SUBSET LeftBehind
      OBVIOUS
    <3>3. disk' = Requeued(disk["processing"], before, before \cup {k})
      BY <3>1
    <3> HIDE DEF before
    <3> QED BY <3>2, <3>3
  <2> QED BY <2>1, <2>2 DEF Start
<1>2. UNCHANGED <<trigger, accepted, settled, starts>> /\ worker = "down"
  BY DEF Start, history
<1>3. batch = {}
  BY <1>2 DEF QueueInv, DeliveryInv, TypeOK, Good, Held
<1>4. ~submitted
  BY <1>3 DEF QueueInv, AwaitsItsTurn
<1>5. ~submitted' /\ batch' \subseteq batch
  BY <1>3, <1>4 DEF Start, Forget, memory
<1>6. ASSUME NEW d \in LeftBehind
      PROVE  /\ d \in Deliveries /\ Has("processing", d) /\ d \in accepted /\ d \notin settled
             /\ disk["processing"][d] \in 0 .. MaxAttempts - 1
  <2>1. d \in Deliveries /\ Has("processing", d)
    BY DEF LeftBehind, Files
  <2>2. Good(d) /\ GoneForGood(d)
    BY <2>1 DEF QueueInv, DeliveryInv
  <2>3. d \in accepted /\ d \notin settled
    BY <2>1, <2>2 DEF Good, Fresh, GoneForGood, Dirs
  <2>4. disk["processing"][d] \in 0 .. MaxAttempts - 1
    BY <2>1, <2>2, BoundsAssumption
       DEF Has, Good, Counted, QueueInv, DeliveryInv, TypeOK, Dirs, Absent
  <2> QED BY <2>1, <2>3, <2>4
<1>7. Retried(disk["processing"], unlinked, written)
  BY <1>1, <1>2, <1>5, <1>6 DEF Retried
<1> QED BY <1>7

LEMMA GivenBackRetries ==
    ASSUME QueueInv, NEW d \in Deliveries, Retry(d) \/ Cancelled(d)
    PROVE  \E unlinked, written : Retried(attempts, unlinked, written)
<1>1. PICK unlinked \in {{}, {d}} : disk' = Requeued(attempts, unlinked, {d})
  BY DEF Retry, Cancelled
<1>2. Handling(d) /\ UNCHANGED <<trigger, accepted, settled, starts>>
  BY DEF Retry, Cancelled, history
<1>3. ~submitted' /\ batch' \subseteq batch
  BY DEF Retry, Cancelled, Forget
<1>4. /\ d \in accepted /\ d \notin settled /\ attempts[d] \in 0 .. MaxAttempts - 1
      /\ Has("processing", d) => disk["processing"][d] = attempts[d]
      /\ Has("processing", d) \/ Deleted(d)
  BY <1>2, HandledIsClaimed
<1>5. Retried(attempts, unlinked, {d})
  BY <1>1, <1>2, <1>3, <1>4 DEF Retried
<1> QED BY <1>5

\* What retrying does to the files of one delivery.
LEMMA RetriedFiles ==
    ASSUME QueueInv, NEW n, NEW unlinked, NEW written, Retried(n, unlinked, written),
           NEW d \in Deliveries
    PROVE  /\ disk'["processing"][d] = IF d \in unlinked THEN Absent ELSE disk["processing"][d]
           /\ \A dir \in {"inbox", "failed"} :
                 disk'[dir][d] = IF d \in written /\ dir = RetryDir(n[d]) THEN n[d] + 1
                                 ELSE disk[dir][d]
           /\ d \in written =>
                 /\ RetryDir(n[d]) \in {"inbox", "failed"} /\ n[d] + 1 # Absent
                 /\ RetryDir(n[d]) = "failed" <=> n[d] + 1 >= MaxAttempts
<1>1. disk' = Requeued(n, unlinked, written)
  BY DEF Retried
<1>2. d \in written => n[d] \in 0 .. MaxAttempts - 1
  BY DEF Retried
<1> QED BY <1>1, <1>2, BoundsAssumption DEF Requeued, Dirs, NextAttempt, RetryDir, Absent

LEMMA RetriedKeeps ==
    ASSUME QueueInv, DeliveryInv', NEW n, NEW unlinked, NEW written,
           Retried(n, unlinked, written)
    PROVE  QueueInv'
<1>1. AwaitsItsTurn'
  BY DEF Retried, AwaitsItsTurn
<1>2. ASSUME NEW d \in Deliveries PROVE CopiesCount(d)' /\ GoneForGood(d)'
  <2>1. CopiesCount(d) /\ GoneForGood(d)
    BY DEF QueueInv
  <2>2. /\ disk'["processing"][d] = IF d \in unlinked THEN Absent ELSE disk["processing"][d]
        /\ \A dir \in {"inbox", "failed"} :
              disk'[dir][d] = IF d \in written /\ dir = RetryDir(n[d]) THEN n[d] + 1
                              ELSE disk[dir][d]
    BY RetriedFiles
  <2>3. Has("processing", d)' => Has("processing", d) /\ disk'["processing"][d] = disk["processing"][d]
    BY <2>2 DEF Has
  <2>4. d \in written =>
           d \notin settled /\ (Has("processing", d) => disk["processing"][d] = n[d])
    BY DEF Retried
  <2>5. CopiesCount(d)'
    BY <2>1, <2>2, <2>3, <2>4 DEF CopiesCount, Has
  <2>6. GoneForGood(d)'
    <3> SUFFICES ASSUME d \in settled' PROVE GoneForGood(d)'
      BY DEF GoneForGood
    <3>1. d \in settled /\ d \notin written /\ accepted' = accepted /\ batch' \subseteq batch
      BY <2>4 DEF Retried
    <3>2. \A dir \in Dirs : ~Has(dir, d)'
      BY <2>1, <2>2, <2>3, <3>1 DEF GoneForGood, Has, Dirs
    <3> QED BY <2>1, <3>1, <3>2 DEF GoneForGood
  <2> QED BY <2>5, <2>6
<1> QED BY <1>1, <1>2 DEF QueueInv

\* A delivery spends a try unless the copy is already written, or nobody counts
\* because its trigger is deleted.
Spends(d) == ~Deleted(d) /\ ~Has("inbox", d) /\ ~Has("failed", d)

LEMMA RetriedStatus ==
    ASSUME QueueInv, NEW n, NEW unlinked, NEW written, Retried(n, unlinked, written),
           NEW d \in Deliveries
    PROVE  /\ ~(d \in written /\ Spends(d)) => Status(d)' = Status(d) /\ Tries(d)' = Tries(d)
           /\ d \in written /\ Spends(d) =>
                 /\ Status(d) = "waiting" /\ Tries(d)' = Tries(d) + 1
                 /\ Status(d)' = IF Tries(d) + 1 >= MaxAttempts THEN "failed" ELSE "waiting"
<1> DEFINE p == disk["processing"][d]
<1>1. /\ disk'["processing"][d] = IF d \in unlinked THEN Absent ELSE p
      /\ \A dir \in {"inbox", "failed"} :
            disk'[dir][d] = IF d \in written /\ dir = RetryDir(n[d]) THEN n[d] + 1
                            ELSE disk[dir][d]
      /\ d \in written =>
            /\ RetryDir(n[d]) \in {"inbox", "failed"} /\ n[d] + 1 # Absent
            /\ RetryDir(n[d]) = "failed" <=> n[d] + 1 >= MaxAttempts
  BY RetriedFiles
<1>2. UNCHANGED <<trigger, accepted, settled>> /\ (d \in unlinked => d \in written)
  BY DEF Retried
<1>3. Deleted(d)' <=> Deleted(d)
  BY <1>2 DEF Deleted
<1>4. d \in written =>
         /\ d \in accepted /\ d \notin settled
         /\ Has("processing", d) => p = n[d]
         /\ Has("processing", d) \/ Deleted(d)
  BY DEF Retried
<1>5. CASE d \notin written
  <2>1. \A dir \in Dirs : disk'[dir][d] = disk[dir][d]
    BY <1>1, <1>2, <1>5 DEF Dirs
  <2> QED BY <1>2, <1>3, <1>5, <2>1 DEF Status, Tries, OnDisk, Furthest, Has, Dirs
<1>6. CASE Deleted(d)
  <2>1. d \in accepted /\ d \in accepted'
    BY <1>2, <1>6 DEF Deleted
  <2> QED BY <1>3, <1>6, <2>1 DEF Status, Tries, OnDisk, Furthest, Spends
<1>7. CASE d \in written /\ Spends(d)
  <2>1. /\ d \in accepted /\ d \in accepted' /\ ~Deleted(d) /\ Has("processing", d) /\ p = n[d]
        /\ ~Has("inbox", d) /\ ~Has("failed", d)
    BY <1>2, <1>4, <1>7 DEF Spends
  <2>2. Status(d) = "waiting" /\ Tries(d) = n[d]
    BY <2>1 DEF Status, Tries, OnDisk, Furthest
  <2>3. CASE RetryDir(n[d]) = "failed"
    <3>1. Has("failed", d)' /\ disk'["failed"][d] = n[d] + 1
      BY <1>1, <1>7, <2>3 DEF Has
    <3> QED BY <1>1, <1>3, <1>7, <2>1, <2>2, <2>3, <3>1 DEF Status, Tries, OnDisk, Furthest
  <2>4. CASE RetryDir(n[d]) = "inbox"
    <3>1. Has("inbox", d)' /\ disk'["inbox"][d] = n[d] + 1 /\ ~Has("failed", d)'
      BY <1>1, <1>7, <2>1, <2>4 DEF Has
    <3> QED BY <1>1, <1>3, <1>7, <2>1, <2>2, <2>4, <3>1 DEF Status, Tries, OnDisk, Furthest
  <2> QED BY <1>1, <1>7, <2>3, <2>4
<1>8. CASE d \in written /\ ~Deleted(d) /\ (Has("inbox", d) \/ Has("failed", d))
  <2>1. Has("processing", d) /\ p = n[d] /\ d \in accepted
    BY <1>4, <1>8
  <2>2. \A dir \in {"inbox", "failed"} :
           Has(dir, d) => dir = RetryDir(n[d]) /\ disk[dir][d] = n[d] + 1
    BY <2>1 DEF QueueInv, DeliveryInv, Good, Copies, CopiesCount
  <2>3. \A dir \in {"inbox", "failed"} : disk'[dir][d] = disk[dir][d]
    BY <1>1, <1>8, <2>2
  <2>4. Has("inbox", d)' = Has("inbox", d) /\ Has("failed", d)' = Has("failed", d)
    BY <2>3 DEF Has
  <2> QED BY <1>2, <1>3, <1>8, <2>1, <2>3, <2>4 DEF Status, Tries, OnDisk, Furthest, Spends
<1> QED BY <1>5, <1>6, <1>7, <1>8 DEF Spends

\* Some of them spend a try; nobody else notices.
LEMMA RetriedRefines ==
    ASSUME QueueInv, NEW n, NEW unlinked, NEW written, Retried(n, unlinked, written)
    PROVE  Queue!Next
<1> DEFINE S == {d \in written : Spends(d)}
<1>1. written \subseteq Deliveries /\ UNCHANGED <<trigger, starts>>
  BY DEF Retried
<1>2. \A d \in Deliveries :
         /\ d \notin S => Status(d)' = Status(d) /\ Tries(d)' = Tries(d)
         /\ d \in S =>
               /\ Status(d) = "waiting" /\ Tries(d)' = Tries(d) + 1
               /\ Status(d)' = IF Tries(d) + 1 >= MaxAttempts THEN "failed" ELSE "waiting"
  BY RetriedStatus
<1>3. S \in SUBSET Deliveries
  BY <1>1
<1> HIDE DEF S
<1>4. S \in SUBSET Queue!Waiting
  BY <1>2, <1>3 DEF Queue!Waiting
<1>5. Queue!SpendTry(S)
  BY <1>1, <1>2, <1>3 DEF Queue!SpendTry
<1> QED BY <1>4, <1>5 DEF Queue!Next

-----------------------------------------------------------------------------
(* The other actions.                                                       *)

\* The files of a delivery stay as they are, for whoever looks at them.
LEMMA SameFiles ==
    ASSUME NEW d, \A dir \in Dirs : disk'[dir][d] = disk[dir][d],
           d \in accepted' <=> d \in accepted, d \in settled' <=> d \in settled,
           Deleted(d)' <=> Deleted(d)
    PROVE  Status(d)' = Status(d) /\ Tries(d)' = Tries(d)
  BY DEF Status, Tries, OnDisk, Furthest, Has, Dirs

\* Files that only disappear, with their trigger, disturb no invariant.
LEMMA UsersKeep ==
    ASSUME QueueInv, DeliveryInv', Users
    PROVE  QueueInv'
<1>1. ASSUME \A dir \in Dirs, d \in Deliveries : disk'[dir][d] \in {disk[dir][d], Absent},
             UNCHANGED <<memory, settled, starts>>, accepted \subseteq accepted'
      PROVE  QueueInv'
  <2>1. UNCHANGED <<batch, submitted>>
    BY <1>1 DEF memory
  <2>2. \A dir \in Dirs, d \in Deliveries :
           Has(dir, d)' => Has(dir, d) /\ disk'[dir][d] = disk[dir][d]
    BY <1>1 DEF Has
  <2>3. ASSUME NEW d \in Deliveries PROVE CopiesCount(d)' /\ GoneForGood(d)'
    <3>1. CopiesCount(d) /\ GoneForGood(d)
      BY DEF QueueInv
    <3>2. CopiesCount(d)'
      BY <2>2, <3>1 DEF CopiesCount, Dirs
    <3>3. GoneForGood(d)'
      BY <1>1, <2>1, <2>2, <3>1 DEF GoneForGood
    <3> QED BY <3>2, <3>3
  <2> QED BY <1>1, <2>1, <2>3 DEF QueueInv, AwaitsItsTurn
<1>2. CASE \E t \in Triggers : Create(t) \/ \E state \in {"enabled", "disabled"} : Enable(t, state)
  BY <1>1, <1>2 DEF Create, Enable, history
<1>3. ASSUME NEW t \in Triggers, Delete(t) PROVE QueueInv'
  <2>1. PICK n \in 0 .. 3, gone \in SUBSET Deliveries : disk' = Erase(t, n, gone)
    BY <1>3, DeleteErases
  <2>2. \A dir \in Dirs, d \in Deliveries : disk'[dir][d] \in {disk[dir][d], Absent}
    BY <2>1 DEF Erase
  <2> QED BY <1>1, <1>3, <2>2 DEF Delete, history
<1>4. ASSUME NEW e \in Deliveries, Enqueue(e) PROVE QueueInv'
  <2>1. /\ UNCHANGED <<batch, submitted, settled, starts>>
        /\ e \notin accepted /\ accepted' = accepted \cup {e}
        /\ disk' = [disk EXCEPT !["inbox"][e] = 0]
    BY <1>4 DEF Enqueue, memory
  <2>2. ASSUME NEW d \in Deliveries, d # e PROVE \A dir \in Dirs : disk'[dir][d] = disk[dir][d]
    BY <2>1, <2>2 DEF QueueInv, DeliveryInv, TypeOK
  <2>3. ~Has("processing", e) /\ e \notin settled
    BY <2>1 DEF QueueInv, DeliveryInv, Good, Fresh, GoneForGood, Dirs
  <2>4. disk'["processing"][e] = disk["processing"][e]
    BY <2>1 DEF QueueInv, DeliveryInv, TypeOK, Dirs
  <2>5. CopiesCount(e)' /\ GoneForGood(e)'
    BY <2>1, <2>3, <2>4 DEF CopiesCount, GoneForGood, Has
  <2>6. ASSUME NEW d \in Deliveries, d # e PROVE CopiesCount(d)' /\ GoneForGood(d)'
    <3>1. CopiesCount(d) /\ GoneForGood(d)
      BY DEF QueueInv
    <3> QED BY <2>1, <2>2, <2>6, <3>1 DEF CopiesCount, GoneForGood, Has, Dirs
  <2>7. AwaitsItsTurn'
    BY <2>1 DEF QueueInv, AwaitsItsTurn
  <2> QED BY <2>5, <2>6, <2>7 DEF QueueInv
<1> QED BY <1>2, <1>3, <1>4 DEF Users

LEMMA UsersRefine ==
    ASSUME QueueInv, Users
    PROVE  Queue!Next
<1> USE DEF history
<1>0. TypeOK /\ \A d \in Deliveries : TriggerOf[d] \in Triggers
  BY DeliveriesAssumption DEF QueueInv, DeliveryInv
<1>1. ASSUME NEW t \in Triggers, NEW state \in {"enabled", "disabled"},
             trigger[t] # "deleted", trigger' = [trigger EXCEPT ![t] = state],
             UNCHANGED <<disk, accepted, settled, starts>>
      PROVE  Queue!Next
  <2>1. \A d \in Deliveries : Deleted(d)' <=> Deleted(d)
    BY <1>0, <1>1 DEF Deleted, TypeOK
  <2>2. \A d \in Deliveries : Status(d)' = Status(d) /\ Tries(d)' = Tries(d)
    BY <1>1, <2>1, SameFiles
  <2>3. Queue!Change(t, state)
    BY <1>1, <2>2 DEF Queue!Change
  <2> QED BY <2>3 DEF Queue!Next
<1>2. CASE \E t \in Triggers : Create(t)
  BY <1>1, <1>2 DEF Create
<1>3. CASE \E t \in Triggers, state \in {"enabled", "disabled"} : Enable(t, state)
  BY <1>1, <1>3 DEF Enable
<1>4. ASSUME NEW t \in Triggers, Delete(t) PROVE Queue!Next
  <2> DEFINE ofT(d) == TriggerOf[d] = t /\ Status(d) # "unseen"
  <2>1. PICK n \in 0 .. 3, gone \in SUBSET Deliveries : disk' = Erase(t, n, gone)
    BY <1>4, DeleteErases
  <2>2. /\ trigger' = [trigger EXCEPT ![t] = "deleted"]
        /\ UNCHANGED <<accepted, settled, starts>>
    BY <1>4 DEF Delete
  <2>3. ASSUME NEW d \in Deliveries
        PROVE  /\ Status(d)' = IF ofT(d) THEN "deleted" ELSE Status(d)
               /\ Tries(d)' = IF ofT(d) THEN 0 ELSE Tries(d)
    <3>1. ofT(d) <=> TriggerOf[d] = t /\ d \in accepted
      BY DEF Status
    <3>2. CASE TriggerOf[d] = t /\ d \in accepted
      <4>1. Deleted(d)'
        BY <1>0, <2>2, <3>2 DEF Deleted, TypeOK
      <4> QED BY <2>2, <3>1, <3>2, <4>1 DEF Status, Tries
    <3>3. CASE TriggerOf[d] # t
      <4>1. Deleted(d)' <=> Deleted(d)
        BY <1>0, <2>2, <3>3 DEF Deleted, TypeOK
      <4>2. \A dir \in Dirs : disk'[dir][d] = disk[dir][d]
        BY <2>1, <3>3 DEF Erase
      <4> QED BY <2>2, <3>1, <3>3, <4>1, <4>2, SameFiles
    <3>4. CASE d \notin accepted
      <4>1. \A dir \in Dirs : ~Has(dir, d) /\ ~Has(dir, d)'
        BY <2>1, <3>4 DEF Erase, QueueInv, DeliveryInv, Good, Fresh, Has
      <4>2. d \notin accepted'
        BY <2>2, <3>4
      <4> QED BY <3>1, <3>4, <4>1, <4>2 DEF Status, Tries, OnDisk, Furthest, Dirs
    <3> QED BY <3>2, <3>3, <3>4
  <2>4. Queue!Delete(t)
    BY <2>2, <2>3 DEF Queue!Delete
  <2> QED BY <2>4 DEF Queue!Next
<1>5. ASSUME NEW e \in Deliveries, Enqueue(e) PROVE Queue!Next
  <2>1. /\ e \notin accepted /\ trigger[TriggerOf[e]] = "enabled"
        /\ disk' = [disk EXCEPT !["inbox"][e] = 0] /\ accepted' = accepted \cup {e}
        /\ UNCHANGED <<trigger, settled, starts>>
    BY <1>5 DEF Enqueue
  <2>2. ASSUME NEW d \in Deliveries, d # e PROVE Status(d)' = Status(d) /\ Tries(d)' = Tries(d)
    <3>1. \A dir \in Dirs : disk'[dir][d] = disk[dir][d]
      BY <1>0, <2>1, <2>2 DEF TypeOK
    <3>2. (d \in accepted' <=> d \in accepted) /\ (Deleted(d)' <=> Deleted(d))
      BY <2>1, <2>2 DEF Deleted
    <3> QED BY <2>1, <3>1, <3>2, SameFiles
  <2>3. /\ disk'["inbox"][e] = 0 /\ disk'["failed"][e] = disk["failed"][e]
        /\ \A dir \in Dirs : ~Has(dir, e)
    BY <1>0, <2>1 DEF TypeOK, QueueInv, DeliveryInv, Good, Fresh, Dirs
  <2>4. Has("inbox", e)' /\ ~Has("failed", e)' /\ ~Deleted(e)' /\ e \in accepted'
    BY <2>1, <2>3 DEF Has, Deleted, Absent, Dirs
  <2>5. /\ Status(e) = "unseen" /\ Tries(e) = 0
        /\ Status(e)' = "waiting" /\ Tries(e)' = 0
    BY <2>1, <2>3, <2>4 DEF Status, Tries, OnDisk, Furthest, Dirs
  <2>6. Queue!Accept(e)
    BY <2>1, <2>2, <2>5 DEF Queue!Accept, Queue!Takes
  <2> QED BY <2>6 DEF Queue!Next
<1> QED BY <1>2, <1>3, <1>4, <1>5 DEF Users

\* What a claim, whole or interrupted, moves.
LEMMA ClaimMoves ==
    ASSUME QueueInv, Claim
    PROVE  \E claimed \in SUBSET Files("inbox") :
              /\ disk' = Moved(claimed) /\ batch' \subseteq claimed \cup batch
              /\ ~submitted' /\ UNCHANGED <<trigger, accepted, settled, starts>>
<1>1. ~submitted
  BY DEF Claim, QueueInv, AwaitsItsTurn
<1>2. UNCHANGED <<trigger, accepted, settled, starts>>
  BY DEF Claim, history
<1>3. CASE disk' = Moved(Oldest) /\ batch' = Oldest /\ UNCHANGED submitted
  <2>1. Oldest \in SUBSET Files("inbox")
    BY DEF Oldest
  <2> QED BY <1>1, <1>2, <1>3, <2>1
<1>4. CASE Forget /\ \E k \in Oldest : disk' = Moved({d \in Oldest : d < k})
  <2>1. PICK k \in Oldest : disk' = Moved({d \in Oldest : d < k})
    BY <1>4
  <2>2. {d \in Oldest : d < k} \in SUBSET Files("inbox")
    BY DEF Oldest
  <2>3. ~submitted' /\ batch' = {}
    BY <1>4 DEF Forget
  <2> QED BY <1>2, <2>1, <2>2, <2>3
<1> QED BY <1>3, <1>4 DEF Claim

LEMMA ClaimKeeps ==
    ASSUME QueueInv, DeliveryInv', Claim
    PROVE  /\ QueueInv'
           /\ UNCHANGED <<trigger, [d \in Deliveries |-> Status(d)],
                          [d \in Deliveries |-> Tries(d)], starts>>
<1>1. PICK claimed \in SUBSET Files("inbox") :
         /\ disk' = Moved(claimed) /\ batch' \subseteq claimed \cup batch
         /\ ~submitted' /\ UNCHANGED <<trigger, accepted, settled, starts>>
  BY ClaimMoves
<1>2. batch = {}
  BY DEF Claim
<1>3. ASSUME NEW d \in Deliveries
      PROVE  /\ CopiesCount(d)' /\ GoneForGood(d)'
             /\ Status(d)' = Status(d) /\ Tries(d)' = Tries(d)
  <2>1. CopiesCount(d) /\ GoneForGood(d) /\ Good(d) /\ (Deleted(d)' <=> Deleted(d))
    BY <1>1 DEF QueueInv, DeliveryInv, Deleted
  <2>2. CASE d \in claimed
    <3>1. Has("inbox", d) /\ ~Has("failed", d)
      BY <2>1, <2>2 DEF Files, Good, Copies
    <3>2. /\ disk'["processing"][d] = disk["inbox"][d] /\ disk'["inbox"][d] = Absent
          /\ disk'["failed"][d] = disk["failed"][d]
      BY <1>1, <2>2 DEF Moved, Dirs
    <3>3. Has("processing", d)' /\ ~Has("inbox", d)' /\ ~Has("failed", d)'
      BY <3>1, <3>2 DEF Has
    <3>4. d \notin settled
      BY <2>1, <3>1 DEF GoneForGood, Dirs
    <3>5. CopiesCount(d)' /\ GoneForGood(d)'
      BY <1>1, <3>3, <3>4 DEF CopiesCount, GoneForGood
    <3>6. Status(d)' = Status(d) /\ Tries(d)' = Tries(d)
      BY <1>1, <2>1, <3>1, <3>2, <3>3 DEF Status, Tries, OnDisk, Furthest
    <3> QED BY <3>5, <3>6
  <2>3. CASE d \notin claimed
    <3>1. \A dir \in Dirs : disk'[dir][d] = disk[dir][d]
      BY <1>1, <2>3 DEF Moved
    <3>2. Status(d)' = Status(d) /\ Tries(d)' = Tries(d)
      BY <1>1, <2>1, <3>1, SameFiles
    <3>3. d \notin batch'
      BY <1>1, <1>2, <2>3
    <3>4. CopiesCount(d)' /\ GoneForGood(d)'
      BY <1>1, <2>1, <3>1, <3>3 DEF CopiesCount, GoneForGood, Has, Dirs
    <3> QED BY <3>2, <3>4
  <2> QED BY <2>2, <2>3
<1>4. AwaitsItsTurn'
  BY <1>1 DEF AwaitsItsTurn
<1> QED BY <1>1, <1>3, <1>4 DEF QueueInv

LEMMA AcknowledgeKeeps ==
    ASSUME QueueInv, DeliveryInv', NEW d \in Deliveries, Handling(d), Acknowledge(d),
           submitted \/ ~Deliverable(d)
    PROVE  /\ QueueInv'
           /\ \/ Queue!Next
              \/ UNCHANGED <<trigger, [e \in Deliveries |-> Status(e)],
                             [e \in Deliveries |-> Tries(e)], starts>>
<1>1. /\ disk' = [disk EXCEPT !["processing"][d] = Absent] /\ settled' = settled \cup {d}
      /\ batch' = batch \ {d} /\ ~submitted' /\ UNCHANGED <<trigger, accepted, starts>>
  BY DEF Acknowledge
<1>2. /\ d \in accepted /\ ~Has("inbox", d) /\ ~Has("failed", d)
      /\ Has("processing", d) \/ Deleted(d)
      /\ submitted => starts[d] > 0
  BY HandledIsClaimed
<1>3. \A dir \in Dirs : ~Has(dir, d)'
  BY <1>1, <1>2 DEF QueueInv, DeliveryInv, TypeOK, Has, Dirs
<1>4. ASSUME NEW e \in Deliveries, e # d PROVE \A dir \in Dirs : disk'[dir][e] = disk[dir][e]
  BY <1>1, <1>4 DEF QueueInv, DeliveryInv, TypeOK
<1>5. \A e \in Deliveries : Deleted(e)' <=> Deleted(e)
  BY <1>1 DEF Deleted
<1>6. QueueInv'
  <2>1. CopiesCount(d)' /\ GoneForGood(d)'
    BY <1>1, <1>2, <1>3 DEF CopiesCount, GoneForGood, Dirs
  <2>2. ASSUME NEW e \in Deliveries, e # d PROVE CopiesCount(e)' /\ GoneForGood(e)'
    <3>1. CopiesCount(e) /\ GoneForGood(e)
      BY DEF QueueInv
    <3>2. \A dir \in Dirs : disk'[dir][e] = disk[dir][e]
      BY <1>4, <2>2
    <3> QED BY <1>1, <2>2, <3>1, <3>2 DEF CopiesCount, GoneForGood, Has, Dirs
  <2>3. AwaitsItsTurn'
    BY <1>1 DEF AwaitsItsTurn
  <2> QED BY <2>1, <2>2, <2>3 DEF QueueInv
<1>7. ASSUME NEW e \in Deliveries, e # d PROVE Status(e)' = Status(e) /\ Tries(e)' = Tries(e)
  <2>1. e \in settled' <=> e \in settled
    BY <1>1, <1>7
  <2> QED BY <1>1, <1>4, <1>5, <1>7, <2>1, SameFiles
<1>8. CASE Deleted(d)
  <2>1. Status(d)' = Status(d) /\ Tries(d)' = Tries(d)
    BY <1>1, <1>2, <1>5, <1>8 DEF Status, Tries
  <2> QED BY <1>1, <1>6, <1>7, <2>1
<1>9. CASE ~Deleted(d)
  <2>1. Status(d) = "waiting"
    BY <1>2, <1>9 DEF Status, OnDisk, Furthest
  <2>2. Status(d)' = "done" /\ Tries(d)' = 0
    BY <1>1, <1>2, <1>3, <1>5, <1>9 DEF Status, Tries, OnDisk, Furthest, Dirs
  <2>3. starts[d] > 0 \/ ~Queue!Takes(d) \/ TriggerOf[d] \notin Reachable
    BY <1>2 DEF Deliverable, Queue!Takes
  <2>4. Queue!Settle(d)
    BY <1>1, <1>7, <2>1, <2>2, <2>3 DEF Queue!Settle
  <2> QED BY <1>6, <2>4 DEF Queue!Next
<1> QED BY <1>8, <1>9

LEMMA SubmitKeeps ==
    ASSUME QueueInv, DeliveryInv', NEW d \in Deliveries, Submit(d)
    PROVE  QueueInv' /\ Queue!Next
<1>1. /\ Handling(d) /\ ~submitted /\ Deliverable(d) /\ starts' = [starts EXCEPT ![d] = @ + 1]
      /\ UNCHANGED <<trigger, disk, worker, batch, attempts, accepted, settled>>
  BY DEF Submit
<1>2. /\ d \in accepted /\ ~Has("inbox", d) /\ ~Has("failed", d)
      /\ Has("processing", d) => disk["processing"][d] = attempts[d]
      /\ Has("processing", d) \/ Deleted(d)
  BY <1>1, HandledIsClaimed
<1>3. ~Deleted(d)
  BY <1>1 DEF Deliverable, Deleted
<1>4. starts[d] \in Nat /\ starts[d] <= attempts[d]
  BY <1>1 DEF QueueInv, DeliveryInv, TypeOK, Good, Held, Handling
<1>5. \A e \in Deliveries : Status(e)' = Status(e) /\ Tries(e)' = Tries(e)
  BY <1>1, SameFiles DEF Deleted
<1>6. Status(d) = "waiting" /\ Tries(d) = attempts[d]
  BY <1>2, <1>3 DEF Status, Tries, OnDisk, Furthest
<1>7. Queue!HandOver(d)
  BY <1>1, <1>4, <1>5, <1>6 DEF Queue!HandOver, Queue!Takes, Deliverable
<1>8. starts'[d] > 0
  BY <1>1, <1>4 DEF QueueInv, DeliveryInv, TypeOK
<1>9. AwaitsItsTurn'
  BY <1>1, <1>8 DEF AwaitsItsTurn, Handling
<1>10. \A e \in Deliveries : CopiesCount(e)' /\ GoneForGood(e)'
  BY <1>1 DEF QueueInv, CopiesCount, GoneForGood, Has
<1> QED BY <1>7, <1>9, <1>10 DEF QueueInv, Queue!Next

LEMMA RestKeeps ==
    ASSUME QueueInv, DeliveryInv', Crash \/ UNCHANGED vars
    PROVE  /\ QueueInv'
           /\ UNCHANGED <<trigger, [d \in Deliveries |-> Status(d)],
                          [d \in Deliveries |-> Tries(d)], starts>>
<1>1. /\ UNCHANGED <<trigger, disk, accepted, settled, starts>>
      /\ (~submitted' /\ batch' = {}) \/ UNCHANGED <<submitted, batch>>
  BY DEF Crash, Forget, history, vars
<1>2. \A d \in Deliveries : Status(d)' = Status(d) /\ Tries(d)' = Tries(d)
  BY <1>1, SameFiles DEF Deleted
<1>3. \A d \in Deliveries : CopiesCount(d)' /\ GoneForGood(d)'
  BY <1>1 DEF QueueInv, CopiesCount, GoneForGood, Has
<1>4. AwaitsItsTurn'
  BY <1>1 DEF QueueInv, AwaitsItsTurn
<1> QED BY <1>1, <1>2, <1>3, <1>4 DEF QueueInv

LEMMA QueueStep ==
    ASSUME QueueInv, [Next]_vars
    PROVE  /\ QueueInv'
           /\ \/ Queue!Next
              \/ UNCHANGED <<trigger, [d \in Deliveries |-> Status(d)],
                             [d \in Deliveries |-> Tries(d)], starts>>
<1>0. DeliveryInv'
  BY InvStep DEF QueueInv
<1>1. CASE Users
  BY <1>0, <1>1, UsersKeep, UsersRefine
<1>2. CASE Start
  BY <1>0, <1>2, StartRetries, RetriedKeeps, RetriedRefines
<1>3. CASE Claim
  BY <1>0, <1>3, ClaimKeeps
<1>4. ASSUME NEW d \in Deliveries, Drop(d) \/ TurnOver(d)
      PROVE  /\ QueueInv'
             /\ \/ Queue!Next
                \/ UNCHANGED <<trigger, [e \in Deliveries |-> Status(e)],
                               [e \in Deliveries |-> Tries(e)], starts>>
  BY <1>0, <1>4, AcknowledgeKeeps DEF Drop, TurnOver
<1>5. ASSUME NEW d \in Deliveries, Submit(d) PROVE QueueInv' /\ Queue!Next
  BY <1>0, <1>5, SubmitKeeps
<1>6. CASE \E d \in Deliveries : Retry(d) \/ Cancelled(d)
  BY <1>0, <1>6, GivenBackRetries, RetriedKeeps, RetriedRefines
<1>7. CASE Crash \/ UNCHANGED vars
  BY <1>0, <1>7, RestKeeps
<1> QED BY <1>1, <1>2, <1>3, <1>4, <1>5, <1>6, <1>7 DEF Next, Handle

-----------------------------------------------------------------------------
(* The refinement                                                           *)

\* The files of the store and the worker's memory implement DeliveryQueue: what
\* claims, retries, recoveries and deletions do to a delivery, killed half-way or
\* not, is one step of it or none (claim_deliveries, _retry_delivery_unlocked,
\* recover_processing_deliveries, delete, acknowledge_delivery).
THEOREM QueueImplements == Spec => ImplementsQueue
<1>1. Init => Queue!Init
  <2> SUFFICES ASSUME Init PROVE Queue!Init
    OBVIOUS
  <2>1. \A d \in Deliveries, dir \in Dirs : ~Has(dir, d)
    BY DEF Init, Has
  <2>2. \A d \in Deliveries : Status(d) = "unseen" /\ Tries(d) = 0
    BY <2>1 DEF Init, Status, Tries, OnDisk, Furthest, Dirs
  <2> QED BY <2>2 DEF Init, Queue!Init
<1>2. QueueInv /\ [Next]_vars
        => [Queue!Next]_<<trigger, [d \in Deliveries |-> Status(d)],
                          [d \in Deliveries |-> Tries(d)], starts>>
  BY QueueStep
<1>3. QueueInv /\ [Next]_vars => QueueInv'
  BY QueueStep
<1> QED BY <1>1, <1>2, <1>3, QueueInit, PTL DEF Spec, ImplementsQueue, Queue!Spec
=============================================================================
