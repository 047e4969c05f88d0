------------------------------- MODULE Outbox -------------------------------
(***************************************************************************)
(* The transactional outbox and its publishers: the outbox_events table    *)
(* (internal/outbox), the OutboxPublisher loop of every worker process     *)
(* (internal/worker/outbox_publisher.go) and the broker's store with its   *)
(* duplicate window (internal/platform/messaging, used as a library).      *)
(*                                                                         *)
(* One outbox row per event.  A row's lease is only its status             *)
(* 'processing' and its updated_at: no owner is recorded, and MarkSent,    *)
(* MarkRetry and MarkFailed update the row by id alone, so a publisher     *)
(* whose lease was recovered still writes.  Wall-clock conditions          *)
(* (next_retry_at <= now, updated_at < staleBefore, the duplicate window)  *)
(* become steps that the clock may take at any time.                       *)
(***************************************************************************)
EXTENDS EventStream, FiniteSets

CONSTANTS
    Publisher,   \* worker processes running an OutboxPublisher
    NoEvent,     \* "no event in hand"
    MaxRetries,  \* OutboxPublisher.maxRetries
    BatchSize    \* OutboxPublisher.batchSize

ASSUME OutboxConstants ==
    /\ MaxRetries \in Nat \ {0}
    /\ BatchSize \in Nat \ {0}
    /\ NoEvent \notin Event

VARIABLES
    status,      \* outbox_events.status; "absent" before EnqueueTx, "purged" after cleanup
    retryCount,  \* outbox_events.retry_count
    due,         \* rows with next_retry_at <= now()
    pc,          \* control point of each publisher in processBatch
    batch,       \* events of the locked batch not handled yet
    seen,        \* Event.RetryCount as LockPending returned it
    cur,         \* the event in hand
    window,      \* message ids inside the stream's duplicate window
    late         \* publishes that returned an error and may still be stored

rowVars == <<status, retryCount, due>>
pubVars == <<pc, batch, seen, cur>>
brokerVars == <<window, late, log>>
outboxVars == <<rowVars, pubVars, brokerVars>>

Status == {"absent", "pending", "processing", "retry", "sent", "failed", "purged"}
PublisherControl == {"idle", "batch", "acked", "errored"}

OutboxTypeOK ==
    /\ status \in [Event -> Status]
    /\ retryCount \in [Event -> 0..MaxRetries]
    /\ due \in SUBSET Event
    /\ pc \in [Publisher -> PublisherControl]
    /\ batch \in [Publisher -> SUBSET Event]
    /\ seen \in [Publisher -> [Event -> 0..MaxRetries]]
    /\ cur \in [Publisher -> Event \cup {NoEvent}]
    /\ window \in SUBSET Event
    /\ late \in SUBSET Event
    /\ log \in [Event -> 0..MaxCopies]

OutboxInit ==
    /\ status = [e \in Event |-> "absent"]
    /\ retryCount = [e \in Event |-> 0]
    /\ due = {}
    /\ pc = [p \in Publisher |-> "idle"]
    /\ batch = [p \in Publisher |-> {}]
    /\ seen = [p \in Publisher |-> [e \in Event |-> 0]]
    /\ cur = [p \in Publisher |-> NoEvent]
    /\ window = {}
    /\ late = {}
    /\ log = [e \in Event |-> 0]

-----------------------------------------------------------------------------
(* The table *)

\* EnqueueTx: the row commits with the domain fact, due at once.
EnqueueTx(e) ==
    /\ status[e] = "absent"
    /\ status' = [status EXCEPT ![e] = "pending"]
    /\ retryCount' = [retryCount EXCEPT ![e] = 0]
    /\ due' = due \cup {e}
    /\ UNCHANGED <<pubVars, brokerVars>>

\* The clock passes next_retry_at.
RetryDue(e) ==
    /\ status[e] = "retry"
    /\ e \notin due
    /\ due' = due \cup {e}
    /\ UNCHANGED <<status, retryCount, pubVars, brokerVars>>

Claimable == {e \in due : status[e] \in {"pending", "retry"}}

\* Seeded defect: recovery looks for the wrong status.
RecoverRetryOnly(S) ==
    /\ S \subseteq {e \in Event : status[e] = "retry"}
    /\ due' = due \cup S
    /\ UNCHANGED <<status, retryCount, pubVars, brokerVars>>

\* RecoverStaleProcessing, called by an idle publisher's maintenance and by the
\* reconcile command: the rows S have updated_at before the cutoff.
RecoverStaleProcessing(S) ==
    /\ S \subseteq {e \in Event : status[e] = "processing"}
    /\ status' = [e \in Event |-> IF e \in S THEN "retry" ELSE status[e]]
    /\ due' = due \cup S
    /\ UNCHANGED <<retryCount, pubVars, brokerVars>>

\* cmd/maintenance deletes sent rows after seven days.
PurgeSent(e) ==
    /\ status[e] = "sent"
    /\ status' = [status EXCEPT ![e] = "purged"]
    /\ UNCHANGED <<retryCount, due, pubVars, brokerVars>>

-----------------------------------------------------------------------------
(* The broker (external): a message id inside the window stores nothing new. *)

Store(e) ==
    /\ IF e \in window THEN log' = log
       ELSE /\ log[e] < MaxCopies
            /\ log' = [log EXCEPT ![e] = @ + 1]
    /\ window' = window \cup {e}

\* The window forgets e.  Bound: MaxCopies, so that a publish always fits.
WindowExpires(e) ==
    /\ e \in window
    /\ log[e] < MaxCopies
    /\ window' = window \ {e}
    /\ UNCHANGED <<rowVars, pubVars, late, log>>

\* A publish whose caller saw an error (ack lost, timeout, reconnect buffer)
\* reaches the stream after all.
LateStore(e) ==
    /\ e \in late
    /\ Store(e)
    /\ late' = late \ {e}
    /\ UNCHANGED <<rowVars, pubVars>>

-----------------------------------------------------------------------------
(* The publisher: processBatch *)

\* LockPending: claim up to BatchSize due rows that no other statement has locked.
LockPending(p) ==
    /\ pc[p] = "idle"
    /\ \E S \in SUBSET Claimable :
        /\ S # {}
        /\ Cardinality(S) <= BatchSize
        /\ status' = [e \in Event |-> IF e \in S THEN "processing" ELSE status[e]]
        /\ batch' = [batch EXCEPT ![p] = S]
        /\ seen' = [seen EXCEPT ![p] = [e \in Event |-> IF e \in S THEN retryCount[e] ELSE 0]]
    /\ pc' = [pc EXCEPT ![p] = "batch"]
    /\ UNCHANGED <<retryCount, due, cur, brokerVars>>

Take(p, e, next) ==
    /\ pc[p] = "batch"
    /\ e \in batch[p]
    /\ batch' = [batch EXCEPT ![p] = @ \ {e}]
    /\ cur' = [cur EXCEPT ![p] = e]
    /\ pc' = [pc EXCEPT ![p] = next]
    /\ UNCHANGED seen

\* Seeded defect: the publish is fire-and-forget; success is assumed before it is stored.
PublishUnconfirmed(p, e) ==
    /\ Take(p, e, "acked")
    /\ late' = late \cup {e}
    /\ UNCHANGED <<rowVars, window, log>>

\* PublishEvent returned the stream's acknowledgement.
PublishAcked(p, e) ==
    /\ Take(p, e, "acked")
    /\ Store(e)
    /\ UNCHANGED <<rowVars, late>>

\* PublishEvent returned an error: the message is lost or still under way.
PublishError(p, e) ==
    /\ Take(p, e, "errored")
    /\ late' = late \cup {e}
    /\ UNCHANGED <<rowVars, window, log>>

\* The for-loop goes on with the rest of the batch.
Continue(p) ==
    /\ pc' = [pc EXCEPT ![p] = IF batch[p] = {} THEN "idle" ELSE "batch"]
    /\ cur' = [cur EXCEPT ![p] = NoEvent]
    /\ seen' = [seen EXCEPT ![p][cur[p]] = 0]
    /\ UNCHANGED batch

\* UPDATE ... WHERE id: a purged row matches nothing.
Present(e) == status[e] # "purged"

MarkSent(p) ==
    /\ pc[p] = "acked"
    /\ status' = [status EXCEPT ![cur[p]] = IF Present(cur[p]) THEN "sent" ELSE @]
    /\ Continue(p)
    /\ UNCHANGED <<retryCount, due, brokerVars>>

\* Seeded defect: the retry counter saved is the one read, without this attempt.
MarkRetryUncounted(p) ==
    LET e == cur[p] IN
    /\ pc[p] = "errored"
    /\ seen[p][e] + 1 < MaxRetries
    /\ status' = [status EXCEPT ![e] = IF Present(e) THEN "retry" ELSE @]
    /\ retryCount' = [retryCount EXCEPT ![e] = IF Present(e) THEN seen[p][e] ELSE @]
    /\ due' = due \ {e}
    /\ Continue(p)
    /\ UNCHANGED brokerVars

MarkRetry(p) ==
    LET e == cur[p] IN
    /\ pc[p] = "errored"
    /\ seen[p][e] + 1 < MaxRetries
    /\ status' = [status EXCEPT ![e] = IF Present(e) THEN "retry" ELSE @]
    /\ retryCount' = [retryCount EXCEPT ![e] = IF Present(e) THEN seen[p][e] + 1 ELSE @]
    /\ due' = due \ {e}
    /\ Continue(p)
    /\ UNCHANGED brokerVars

MarkFailed(p) ==
    LET e == cur[p] IN
    /\ pc[p] = "errored"
    /\ seen[p][e] + 1 >= MaxRetries
    /\ status' = [status EXCEPT ![e] = IF Present(e) THEN "failed" ELSE @]
    /\ retryCount' = [retryCount EXCEPT ![e] = IF Present(e) THEN seen[p][e] + 1 ELSE @]
    /\ Continue(p)
    /\ UNCHANGED <<due, brokerVars>>

\* The UPDATE itself fails (database error, cancelled context): only logged.
MarkError(p) ==
    /\ pc[p] \in {"acked", "errored"}
    /\ Continue(p)
    /\ UNCHANGED <<rowVars, brokerVars>>

\* The worker process dies and restarts; its rows stay 'processing'.
Crash(p) ==
    /\ pc[p] # "idle"
    /\ pc' = [pc EXCEPT ![p] = "idle"]
    /\ batch' = [batch EXCEPT ![p] = {}]
    /\ cur' = [cur EXCEPT ![p] = NoEvent]
    /\ seen' = [seen EXCEPT ![p] = [e \in Event |-> 0]]
    /\ UNCHANGED <<rowVars, brokerVars>>

-----------------------------------------------------------------------------
Mark(p) == MarkSent(p) \/ MarkRetry(p) \/ MarkFailed(p)

Publish(p) == \E e \in Event : PublishAcked(p, e) \/ PublishError(p, e)

PublisherStep(p) ==
    \/ LockPending(p)
    \/ Publish(p)
    \/ Mark(p)
    \/ MarkError(p)
    \/ Crash(p)

TableStep ==
    \/ \E e \in Event : EnqueueTx(e) \/ RetryDue(e) \/ PurgeSent(e)
    \/ \E S \in SUBSET Event \ {{}} : RecoverStaleProcessing(S)

BrokerStep == \E e \in Event : WindowExpires(e) \/ LateStore(e)

OutboxNext == TableStep \/ BrokerStep \/ \E p \in Publisher : PublisherStep(p)

OutboxSpec == OutboxInit /\ [][OutboxNext]_outboxVars

-----------------------------------------------------------------------------
(* What the code promises *)

\* "Mark the Outbox row `sent` only after the JetStream publish acknowledgement":
\* a row that is sent, or was cleaned up after it was sent, has its event in the
\* stream, although MarkSent is not fenced by the lease.
SentWasStored ==
    \A e \in Event : status[e] \in {"sent", "purged"} => log[e] > 0

\* The retry budget of processBatch: a row that a publisher may still claim or
\* holds has budget left, and a row is given up only when its budget is used,
\* whatever stale publishers write over it.
RetryBudget ==
    \A e \in Event :
        /\ status[e] \in {"pending", "processing", "retry"} => retryCount[e] < MaxRetries
        /\ status[e] = "failed" => retryCount[e] = MaxRetries

\* A message outside the duplicate window can be stored once more (the bound
\* MaxCopies never blocks a publisher) and one inside it is in the stream.
WindowSound ==
    \A e \in Event : IF e \in window THEN log[e] > 0 ELSE log[e] < MaxCopies

\* What the publishers carry: an acknowledged event is in the stream, an event in
\* hand or in the batch was read with budget left.
InHandSound ==
    \A p \in Publisher :
        /\ pc[p] = "acked" => cur[p] \in Event /\ log[cur[p]] > 0
        /\ pc[p] = "errored" => cur[p] \in Event /\ seen[p][cur[p]] < MaxRetries
        /\ \A e \in batch[p] : seen[p][e] < MaxRetries

\* The inductive invariant of the outbox.
OutboxInv == OutboxTypeOK /\ SentWasStored /\ RetryBudget /\ WindowSound /\ InHandSound

\* A worker that keeps reaching a step is not killed there every time, the
\* database does not reject every update, the poll loop takes the oldest due
\* rows first and maintenance recovers expired leases.  Nothing is assumed of
\* the broker.
OutboxFairness ==
    /\ \A e \in Event : WF_outboxVars(RetryDue(e)) /\ WF_outboxVars(RecoverStaleProcessing({e}))
    /\ \A p \in Publisher, e \in Event :
        /\ SF_outboxVars(LockPending(p) /\ e \in batch'[p])
        /\ SF_outboxVars(PublishAcked(p, e) \/ PublishError(p, e))
        /\ SF_outboxVars(Mark(p) /\ cur[p] = e)

OutboxFairSpec == OutboxSpec /\ OutboxFairness

\* Every row ends sent or failed and stays so: publishers that overwrite each
\* other's outcome after a lease recovery cannot keep a row alternating, even
\* while the broker rejects everything.
RowSettles ==
    \A e \in Event : <>[](status[e] \in {"absent", "sent", "failed", "purged"})
=============================================================================
