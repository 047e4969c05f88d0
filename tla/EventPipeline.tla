---------------------------- MODULE EventPipeline ----------------------------
(***************************************************************************)
(* The event pipeline end to end: the outbox with its publishers (Outbox)  *)
(* and the durable consumer (EventConsumer), joined by the stream: `log`   *)
(* is the variable they share.  It implements EventDelivery.               *)
(***************************************************************************)
EXTENDS Outbox, EventConsumer

outboxOnly == <<status, retryCount, due, pc, batch, seen, cur, window, late>>
consumerOnly == <<msg, deliveries, hpc, hmsg, hdel, processed, behavior, effect,
                  refreshed, dlq>>
vars == <<outboxOnly, log, consumerOnly>>

Init == OutboxInit /\ ConsumerInit

OutboxStep == OutboxNext /\ UNCHANGED consumerOnly

\* A replay stores a copy under a fresh message id.  Bound: a copy is left for a
\* publish that the duplicate window no longer absorbs.
ReplayStep(e) ==
    /\ Replay(e)
    /\ e \in window \/ log[e] + 1 < MaxCopies
    /\ UNCHANGED outboxOnly

ConsumerStep ==
    /\ ServerStep \/ \E h \in Handler : HandlerStep(h)
    /\ UNCHANGED outboxOnly

Next == OutboxStep \/ ConsumerStep \/ \E e \in Event : ReplayStep(e)

Spec == Init /\ [][Next]_vars

-----------------------------------------------------------------------------
(* The refinement of EventDelivery *)

\* An event is accepted when its outbox row commits with the domain fact and
\* applied when its counter change commits; a second change would have no image.
deliveryBar ==
    [e \in Event |->
        CASE effect[e] = 1 -> "applied"
          [] effect[e] > 1 -> "applied twice"
          [] OTHER -> IF status[e] = "absent" THEN "none" ELSE "accepted"]

Delivery == INSTANCE EventDelivery WITH delivery <- deliveryBar

\* The pipeline implements EventDelivery: an event takes effect at most once and
\* only after EnqueueTx committed it, whatever is retried, duplicated, replayed
\* or lost between the outbox, the stream, the consumer and the database.
ImplementsDelivery == Delivery!Spec

\* At every moment an accepted event is still owed by the outbox (or reported
\* failed there), on its way in the stream, applied, in the dead-letter stream,
\* or dropped by the stream's retention limits: no interleaving of unfenced row
\* updates, lost acks and crashes makes it disappear.
NoEventLost ==
    \A e \in Event :
        \/ status[e] \in {"absent", "pending", "processing", "retry", "failed"}
        \/ e \in processed \cup dlq
        \/ \E k \in 1..log[e] : msg[<<e, k>>] \in {"ready", "pending", "discarded"}

\* Nothing of an event exists in the stream, in the publishers' hands, in the consumer's
\* tables or in the dead-letter stream before EnqueueTx commits its row.
RowFirst ==
    \A e \in Event : status[e] = "absent" =>
        /\ log[e] = 0 /\ e \notin late \cup processed \cup dlq
        /\ \A p \in Publisher : e \notin batch[p] /\ cur[p] # e

\* A handler works on a copy that the stream has stored.
HeldWasStored == \A h \in Handler : hpc[h] # "idle" => Stored(hmsg[h])

\* The inductive invariant of the pipeline: those of its parts, and what links them.
PipelineInv == OutboxInv /\ ConsumerInv /\ RowFirst /\ HeldWasStored

Fairness ==
    /\ \A e \in Event :
        /\ WF_vars(OutboxStep /\ (RetryDue(e) \/ RecoverStaleProcessing({e})))
        /\ \A p \in Publisher :
            /\ SF_vars(OutboxStep /\ LockPending(p) /\ e \in batch'[p])
            /\ SF_vars(OutboxStep /\ (PublishAcked(p, e) \/ PublishError(p, e)))
            /\ SF_vars(OutboxStep /\ Mark(p) /\ cur[p] = e)
    /\ \A m \in Msg :
        /\ WF_vars(ConsumerStep /\ AckWaitExpires(m))
        /\ SF_vars(ConsumerStep /\ \E h \in Handler : Deliver(h, m))
        /\ \A c \in HandlerControl \ {"idle"} :
            SF_vars(ConsumerStep /\ \E h \in Handler :
                        hmsg[h] = m /\ hpc[h] = c /\ Progress(h))

FairSpec == Spec /\ Fairness

\* Every accepted event comes to an end somebody can see: applied, dead-lettered,
\* reported failed in the outbox, or dropped by the stream's retention limits.
EventReachesOutcome ==
    \A e \in Event :
        status[e] # "absent" ~>
            \/ e \in processed \cup dlq
            \/ status[e] = "failed"
            \/ \E k \in 1..log[e] : msg[<<e, k>>] = "discarded"

\* Every stored copy is settled in the end, also while the outbox stores more.
CopiesSettle == EveryCopySettles
=============================================================================
