---------------------------- MODULE LocalTriggers ----------------------------
(***************************************************************************)
(* The durable queue of local trigger deliveries (nanobot/triggers):       *)
(* scripts enqueue files, the gateway's worker claims a batch, submits     *)
(* each delivery as a turn of its session and acknowledges it by deleting  *)
(* its file.  Every store method runs under one file lock, so it is one    *)
(* step, unless its process is killed half-way.                            *)
(***************************************************************************)
EXTENDS Integers, FiniteSets

CONSTANTS
    Triggers,
    Deliveries,    \* numbers, in the order in which file names sort
    TriggerOf,     \* the trigger each delivery is for
    Reachable,     \* triggers whose channel is enabled in this gateway
    MaxAttempts,   \* _MAX_DELIVERY_ATTEMPTS
    BatchSize,     \* batch_size of run_local_trigger_queue()
    MaxKills       \* bound: processes killed in a behaviour

ASSUME DeliveriesAssumption ==
    /\ Deliveries \subseteq Nat /\ IsFiniteSet(Deliveries)
    /\ TriggerOf \in [Deliveries -> Triggers]
    /\ Reachable \subseteq Triggers
ASSUME BoundsAssumption ==
    /\ MaxAttempts \in Nat \ {0}
    /\ BatchSize \in Nat \ {0}
    /\ MaxKills \in Nat

VARIABLES
    trigger,     \* triggers.json: what each trigger is
    disk,        \* the attempts each delivery file of a directory records
    worker,      \* whether the gateway's worker runs
    batch,       \* claimed deliveries it has not handled yet
    attempts,    \* attempts of the deliveries in its memory
    submitted,   \* whether it awaits the turn of the first one
    accepted,    \* deliveries that were ever enqueued
    settled,     \* deliveries it acknowledged
    starts,      \* turns submitted for each delivery
    kills        \* processes killed so far

vars == <<trigger, disk, worker, batch, attempts, submitted,
          accepted, settled, starts, kills>>
memory  == <<batch, attempts, submitted>>
history == <<accepted, settled, starts>>

Dirs   == {"inbox", "processing", "failed"}
Absent == -1
Has(dir, d) == disk[dir][d] # Absent
Files(dir)  == {d \in Deliveries : Has(dir, d)}

Init ==
    /\ trigger \in [Triggers -> {"enabled", "none"}]
    /\ disk = [dir \in Dirs |-> [d \in Deliveries |-> Absent]]
    /\ worker = "down"
    /\ batch = {} /\ submitted = FALSE
    /\ attempts = [d \in Deliveries |-> 0]
    /\ accepted = {} /\ settled = {} /\ kills = 0
    /\ starts = [d \in Deliveries |-> 0]

\* The process that acts is killed in the middle of the action.
Kill == kills < MaxKills /\ kills' = kills + 1

\* What survives the worker: the disk.
Forget == batch' = {} /\ submitted' = FALSE /\ worker' = "down" /\ UNCHANGED attempts

-----------------------------------------------------------------------------
(* Users and scripts, in processes of their own.                            *)

Create(t) ==
    /\ trigger[t] = "none"
    /\ trigger' = [trigger EXCEPT ![t] = "enabled"]
    /\ UNCHANGED <<disk, worker, memory, history, kills>>

Enable(t, state) ==
    /\ trigger[t] \in {"enabled", "disabled"}
    /\ trigger' = [trigger EXCEPT ![t] = state]
    /\ UNCHANGED <<disk, worker, memory, history, kills>>

\* The files of trigger t are removed directory by directory: all of the
\* first n directories' and those of `gone` in the next one.
EraseOrder == <<"inbox", "processing", "failed">>
Erase(t, n, gone) ==
    LET reached(dir, d) == \E i \in 1 .. 3 :
            dir = EraseOrder[i] /\ (i <= n \/ (i = n + 1 /\ d \in gone))
    IN  [dir \in Dirs |-> [d \in Deliveries |->
            IF TriggerOf[d] = t /\ reached(dir, d) THEN Absent ELSE disk[dir][d]]]

\* The trigger is saved away before its files are removed.
Delete(t) ==
    /\ trigger[t] \in {"enabled", "disabled"}
    /\ trigger' = [trigger EXCEPT ![t] = "deleted"]
    /\ \/ disk' = Erase(t, 3, {}) /\ UNCHANGED kills
       \/ /\ Kill
          /\ \E n \in 0 .. 2 :
                \E gone \in SUBSET {d \in Files(EraseOrder[n + 1]) : TriggerOf[d] = t} :
                    disk' = Erase(t, n, gone)
    /\ UNCHANGED <<worker, memory, history>>

\* Names begin with a clock's milliseconds, so they need not sort in the order
\* of the calls.  A script that is killed before it has saved the trigger leaves
\* the same file; one whose save fails takes the file back.
Enqueue(d) ==
    /\ d \notin accepted
    /\ trigger[TriggerOf[d]] = "enabled"
    /\ disk' = [disk EXCEPT !["inbox"][d] = 0]
    /\ accepted' = accepted \cup {d}
    /\ UNCHANGED <<trigger, worker, memory, settled, starts, kills>>

-----------------------------------------------------------------------------
(* The store as the worker uses it.                                         *)

\* Mutant: an interrupted delivery does not count as an attempt.
NextAttemptFree(n) == n
NextAttempt(n) == n + 1

\* Mutant: one attempt too many.
RetryDirLate(n) == IF n + 1 > MaxAttempts THEN "failed" ELSE "inbox"
\* Where a delivery with n attempts goes when it is tried once more.
RetryDir(n) == IF n + 1 >= MaxAttempts THEN "failed" ELSE "inbox"

\* Mutant: the claimed file goes away before its new copy is written.
RequeuedUnlinkFirst(n, unlinked, written) ==
    [dir \in Dirs |-> [d \in Deliveries |->
        CASE dir = "processing" /\ d \in written -> Absent
          [] dir # "processing" /\ d \in unlinked /\ dir = RetryDir(n[d]) -> NextAttempt(n[d])
          [] OTHER -> disk[dir][d]]]
\* _retry_delivery_unlocked() of the deliveries in `written`, which n gives the
\* attempts of; the claimed files of `unlinked` are already gone.
Requeued(n, unlinked, written) ==
    [dir \in Dirs |-> [d \in Deliveries |->
        CASE dir = "processing" /\ d \in unlinked -> Absent
          [] dir # "processing" /\ d \in written /\ dir = RetryDir(n[d]) -> NextAttempt(n[d])
          [] OTHER -> disk[dir][d]]]

\* Mutant: the worker starts without looking for interrupted deliveries.
LeftBehindIgnored == {}
\* recover_processing_deliveries() retries whatever is in processing.
LeftBehind == Files("processing")

\* The worker starts, or is killed while it recovers the deliveries in order.
Start ==
    /\ worker = "down"
    /\ \/ /\ worker' = "up"
          /\ disk' = Requeued(disk["processing"], LeftBehind, LeftBehind)
          /\ UNCHANGED <<memory, kills>>
       \/ /\ Kill /\ Forget
          /\ \E k \in LeftBehind :
                LET before == {d \in LeftBehind : d < k}
                IN  disk' = Requeued(disk["processing"], before, before \cup {k})
    /\ UNCHANGED <<trigger, history>>

\* The oldest files of the inbox, at most BatchSize of them.
Oldest ==
    LET older(d) == {e \in Files("inbox") : e < d}
    IN  {d \in Files("inbox") : Cardinality(older(d)) < BatchSize}

\* claim_deliveries(): os.replace() moves one file after the other.
Moved(claimed) ==
    [dir \in Dirs |-> [d \in Deliveries |->
        CASE d \in claimed /\ dir = "processing" -> disk["inbox"][d]
          [] d \in claimed /\ dir = "inbox"      -> Absent
          [] OTHER -> disk[dir][d]]]

Claim ==
    /\ worker = "up" /\ batch = {} /\ Files("inbox") # {}
    /\ \/ /\ disk' = Moved(Oldest)
          /\ batch' = Oldest
          /\ attempts' = [d \in Deliveries |->
                            IF d \in Oldest THEN disk["inbox"][d] ELSE attempts[d]]
          /\ UNCHANGED <<worker, submitted, kills>>
       \/ /\ Kill /\ Forget
          /\ \E k \in Oldest : disk' = Moved({d \in Oldest : d < k})
    /\ UNCHANGED <<trigger, history>>

-----------------------------------------------------------------------------
(* The worker handles the deliveries of its batch in the order of their names. *)

Handling(d) == worker = "up" /\ d \in batch /\ \A e \in batch : d <= e

Deliverable(d) == trigger[TriggerOf[d]] = "enabled" /\ TriggerOf[d] \in Reachable

Acknowledge(d) ==
    /\ disk' = [disk EXCEPT !["processing"][d] = Absent]
    /\ settled' = settled \cup {d}
    /\ batch' = batch \ {d} /\ submitted' = FALSE
    /\ UNCHANGED <<trigger, worker, attempts, accepted, starts, kills>>

\* A delivery whose trigger is gone, disabled or unreachable is dropped.
Drop(d) ==
    /\ Handling(d) /\ ~submitted /\ ~Deliverable(d)
    /\ Acknowledge(d)

\* The turn is submitted; the worker waits for it.
Submit(d) ==
    /\ Handling(d) /\ ~submitted /\ Deliverable(d)
    /\ submitted' = TRUE
    /\ starts' = [starts EXCEPT ![d] = @ + 1]
    /\ UNCHANGED <<trigger, disk, worker, batch, attempts, accepted, settled, kills>>

\* The turn was answered, or reached the agent and failed there.
TurnOver(d) == Handling(d) /\ submitted /\ Acknowledge(d)

\* Any other error before, during or after the turn: the delivery is retried.
Retry(d) ==
    /\ Handling(d) /\ (submitted \/ Deliverable(d))
    /\ \/ /\ disk' = Requeued(attempts, {d}, {d})
          /\ attempts' = [attempts EXCEPT ![d] = NextAttempt(@)]
          /\ batch' = batch \ {d} /\ submitted' = FALSE
          /\ UNCHANGED <<worker, kills>>
       \/ Kill /\ Forget /\ disk' = Requeued(attempts, {}, {d})
    /\ UNCHANGED <<trigger, history>>

\* The worker is cancelled while it waits: the delivery is retried, the rest
\* of the batch stays claimed until the next start.
Cancelled(d) ==
    /\ Handling(d) /\ submitted
    /\ Kill /\ Forget
    /\ disk' = Requeued(attempts, {d}, {d})
    /\ UNCHANGED <<trigger, history>>

\* The gateway is killed, or the worker dies of an error outside its handlers.
Crash ==
    /\ worker = "up" /\ Kill /\ Forget
    /\ UNCHANGED <<trigger, disk, history>>

-----------------------------------------------------------------------------
Users ==
    \/ \E t \in Triggers : Create(t) \/ Delete(t)
    \/ \E t \in Triggers, state \in {"enabled", "disabled"} : Enable(t, state)
    \/ \E d \in Deliveries : Enqueue(d)

Handle == \E d \in Deliveries : Drop(d) \/ Submit(d) \/ TurnOver(d)

Next ==
    \/ Users \/ Start \/ Claim \/ Handle \/ Crash
    \/ \E d \in Deliveries : Retry(d) \/ Cancelled(d)

\* The gateway is started again, the worker polls its queue and handles its
\* batch, and a submitted turn ends (SessionDispatch: SubmittersAreAnswered).
Fairness == WF_vars(Start) /\ WF_vars(Claim) /\ WF_vars(Handle)

Spec == Init /\ [][Next]_vars
FairSpec == Spec /\ Fairness

-----------------------------------------------------------------------------
(* Properties *)

TypeOK ==
    /\ trigger \in [Triggers -> {"none", "enabled", "disabled", "deleted"}]
    /\ disk \in [Dirs -> [Deliveries -> Absent .. MaxAttempts]]
    /\ worker \in {"up", "down"} /\ submitted \in BOOLEAN
    /\ attempts \in [Deliveries -> 0 .. MaxAttempts]
    /\ batch \subseteq Deliveries /\ accepted \subseteq Deliveries /\ settled \subseteq Deliveries
    /\ starts \in [Deliveries -> Nat]
    /\ kills \in Nat

\* docs/automations.md: "The local trigger queue is at-least-once".  Whatever
\* is killed and whenever, a delivery that was accepted is on disk until it
\* has been acknowledged, unless its trigger was deleted.
AcceptedNotLost ==
    \A d \in accepted :
        trigger[TriggerOf[d]] # "deleted" => d \in settled \/ \E dir \in Dirs : Has(dir, d)

\* What is still to be delivered is on disk once: an old copy is only ever
\* left in processing, behind a newer one, while no worker runs.
OneLiveCopy ==
    \A d \in Deliveries :
        /\ ~(Has("inbox", d) /\ Has("failed", d))
        /\ worker = "up" =>
              ~(Has("processing", d) /\ (Has("inbox", d) \/ Has("failed", d)))

\* While the worker runs, nothing rots in processing: each claimed file is in
\* the worker's batch, with the attempts the file records.
ClaimedIsInBatch ==
    worker = "up" =>
        \A d \in Files("processing") :
            d \in batch /\ disk["processing"][d] = attempts[d]

\* _MAX_DELIVERY_ATTEMPTS bounds how often a delivery reaches the agent, over
\* crashes, restarts and retries together.
StartsBounded == \A d \in Deliveries : starts[d] <= MaxAttempts

\* Every accepted delivery leaves the queue in the end: acknowledged, failed
\* for good or deleted with its trigger.
EveryDeliveryLeaves ==
    \A d \in Deliveries :
        d \in accepted ~> ~Has("inbox", d) /\ ~Has("processing", d)

\* What the files say of a delivery: its most advanced copy counts.
Deleted(d) == d \in accepted /\ trigger[TriggerOf[d]] = "deleted"
Furthest(d) ==
    IF Has("failed", d) THEN "failed" ELSE IF Has("inbox", d) THEN "inbox" ELSE "processing"
OnDisk(d) == Has(Furthest(d), d)
Status(d) ==
    IF d \notin accepted THEN "unseen"
    ELSE IF Deleted(d)   THEN "deleted"
    ELSE IF OnDisk(d)    THEN IF Furthest(d) = "failed" THEN "failed" ELSE "waiting"
    ELSE IF d \in settled THEN "done" ELSE "lost"
Tries(d) == IF OnDisk(d) /\ ~Deleted(d) THEN disk[Furthest(d)][d] ELSE 0

Queue == INSTANCE DeliveryQueue WITH
            status <- [d \in Deliveries |-> Status(d)],
            tries  <- [d \in Deliveries |-> Tries(d)],
            handed <- starts

\* The store and its worker implement DeliveryQueue, whatever is killed and
\* however far it got: nothing accepted is lost, what was acknowledged or has
\* failed is never submitted again, nor what was deleted, each try submits a
\* delivery once, and only the last one of _MAX_DELIVERY_ATTEMPTS fails it.
ImplementsQueue == Queue!Spec
=============================================================================
