---------------------------- MODULE EventConsumer ----------------------------
(***************************************************************************)
(* The durable consumer of the event stream: EventConsumer.handleMessage   *)
(* and handleFailure, EventProcessor.Process, the transaction of           *)
(* Repository.ApplyEvent, and dlqctl's replay (internal/worker,            *)
(* cmd/dlqctl), over JetStream's explicit-ack delivery (external).         *)
(*                                                                         *)
(* A message is a copy <<e, k>> of event e: a publish outside the          *)
(* duplicate window and a replay each store one more copy.  The server     *)
(* redelivers without limit (MaxDeliver -1); the limit is the handler's.   *)
(* What the derived counters and Redis keys become is the subject of       *)
(* NoteCounters; here a commit has one effect per event, a refresh is a    *)
(* mark that refreshDerivedData ran after that commit.                     *)
(***************************************************************************)
EXTENDS EventStream

CONSTANTS
    Handler,     \* consumer callbacks, one per worker process
    NoMsg,       \* "no message in hand"
    MaxDeliver   \* EventConsumer.maxDeliver

ASSUME ConsumerConstants ==
    /\ MaxDeliver \in Nat \ {0}
    /\ NoMsg \notin Event \X (1..MaxCopies)

Msg == Event \X (1..MaxCopies)

VARIABLES
    msg,         \* server-side state of each copy
    deliveries,  \* NumDelivered of each copy, counted up to MaxDeliver
    hpc,         \* control point of each handler
    hmsg,        \* the copy each handler works on
    hdel,        \* metadata.NumDelivered it was given
    processed,   \* processed_events: events with an idempotency marker
    behavior,    \* behavior_events, by source_event_id
    effect,      \* how often an event's counter change was committed
    refreshed,   \* events whose derived Redis data was refreshed after their commit
    dlq          \* events in the dead-letter stream

srvVars == <<log, msg, deliveries>>
hndVars == <<hpc, hmsg, hdel>>
dbVars == <<processed, behavior, effect>>
consumerVars == <<srvVars, hndVars, dbVars, refreshed, dlq>>

MsgState == {"ready", "pending", "acked", "termed", "discarded"}
HandlerControl == {"idle", "process", "tx", "refresh", "ack", "failure", "term"}

ConsumerTypeOK ==
    /\ log \in [Event -> 0..MaxCopies]
    /\ msg \in [Msg -> MsgState]
    /\ deliveries \in [Msg -> 0..MaxDeliver]
    /\ hpc \in [Handler -> HandlerControl]
    /\ hmsg \in [Handler -> Msg \cup {NoMsg}]
    /\ hdel \in [Handler -> 0..MaxDeliver]
    /\ processed \in SUBSET Event
    /\ behavior \in SUBSET Event
    /\ effect \in [Event -> Nat]
    /\ refreshed \in SUBSET Event
    /\ dlq \in SUBSET Event

ConsumerInit ==
    /\ log = [e \in Event |-> 0]
    /\ msg = [m \in Msg |-> "ready"]
    /\ deliveries = [m \in Msg |-> 0]
    /\ hpc = [h \in Handler |-> "idle"]
    /\ hmsg = [h \in Handler |-> NoMsg]
    /\ hdel = [h \in Handler |-> 0]
    /\ processed = {}
    /\ behavior = {}
    /\ effect = [e \in Event |-> 0]
    /\ refreshed = {}
    /\ dlq = {}

-----------------------------------------------------------------------------
(* The stream and the server side of the durable consumer (external) *)

Stored(m) == m[2] <= log[m[1]]
Live(m) == Stored(m) /\ msg[m] \in {"ready", "pending"}

\* A publisher stores one more copy of e.
Arrive(e) ==
    /\ log[e] < MaxCopies
    /\ log' = [log EXCEPT ![e] = @ + 1]
    /\ UNCHANGED <<msg, deliveries, hndVars, dbVars, refreshed, dlq>>

Deliver(h, m) ==
    /\ hpc[h] = "idle"
    /\ Stored(m)
    /\ msg[m] = "ready"
    /\ msg' = [msg EXCEPT ![m] = "pending"]
    /\ deliveries' = [deliveries EXCEPT ![m] = IF @ < MaxDeliver THEN @ + 1 ELSE @]
    /\ hpc' = [hpc EXCEPT ![h] = "process"]
    /\ hmsg' = [hmsg EXCEPT ![h] = m]
    /\ hdel' = [hdel EXCEPT ![h] = deliveries'[m]]
    /\ UNCHANGED <<log, dbVars, refreshed, dlq>>

\* AckWait passes: the copy will be redelivered, even while a handler works on it.
AckWaitExpires(m) ==
    /\ msg[m] = "pending"
    /\ msg' = [msg EXCEPT ![m] = "ready"]
    /\ UNCHANGED <<log, deliveries, hndVars, dbVars, refreshed, dlq>>

\* MaxAge or MaxBytes with DiscardOld removes a copy nobody settled.
Discard(m) ==
    /\ Live(m)
    /\ msg' = [msg EXCEPT ![m] = "discarded"]
    /\ UNCHANGED <<log, deliveries, hndVars, dbVars, refreshed, dlq>>

\* An ack, nak or term of a copy that is already settled has no effect.
Settle(m, s) == msg' = [msg EXCEPT ![m] = IF @ \in {"ready", "pending"} THEN s ELSE @]

-----------------------------------------------------------------------------
(* handleMessage: Process *)

ev(h) == hmsg[h][1]

Goto(h, next) ==
    /\ hpc' = [hpc EXCEPT ![h] = next]
    /\ UNCHANGED <<hmsg, hdel>>

\* The callback returns.
Return(h) ==
    /\ hpc' = [hpc EXCEPT ![h] = "idle"]
    /\ hmsg' = [hmsg EXCEPT ![h] = NoMsg]
    /\ hdel' = [hdel EXCEPT ![h] = 0]

\* The validation of Process refuses the envelope.  Which events it refuses is data:
\* an event refused at every delivery is a behaviour of this action.
Reject(h) ==
    /\ hpc[h] = "process"
    /\ Goto(h, "failure")
    /\ UNCHANGED <<srvVars, dbVars, refreshed, dlq>>

\* Handlers whose transaction holds the uncommitted marker of e.
Claimants(e) == {h \in Handler : hpc[h] = "tx" /\ ev(h) = e}

\* Seeded defect: the marker is checked first and inserted with the commit, so
\* two handlers may both pass the check.
ClaimByLookup(h) ==
    /\ hpc[h] = "process"
    /\ Goto(h, IF ev(h) \in processed THEN "refresh" ELSE "tx")
    /\ UNCHANGED <<srvVars, dbVars, refreshed, dlq>>

\* Seeded defect: a duplicate is acknowledged at once, without the refresh.
ClaimSkipsRefresh(h) ==
    /\ hpc[h] = "process"
    /\ Claimants(ev(h)) = {}
    /\ Goto(h, IF ev(h) \in processed THEN "ack" ELSE "tx")
    /\ UNCHANGED <<srvVars, dbVars, refreshed, dlq>>

\* claimEvent: INSERT ... ON CONFLICT DO NOTHING waits for an uncommitted marker
\* of the same event, then inserts its own or finds the event processed.
ClaimEvent(h) ==
    /\ hpc[h] = "process"
    /\ Claimants(ev(h)) = {}
    /\ Goto(h, IF ev(h) \in processed THEN "refresh" ELSE "tx")
    /\ UNCHANGED <<srvVars, dbVars, refreshed, dlq>>

\* Begin, claim or a later statement fails or times out: nothing is committed.
ApplyError(h) ==
    /\ hpc[h] \in {"process", "tx"}
    /\ Goto(h, "failure")
    /\ UNCHANGED <<srvVars, dbVars, refreshed, dlq>>

\* Seeded defect: the marker is not part of the transaction.
CommitApplyUnmarked(h) ==
    /\ behavior' = behavior \cup {ev(h)}
    /\ effect' = [effect EXCEPT ![ev(h)] = @ + 1]
    /\ UNCHANGED processed

\* The marker, the behaviour fact and the counters become visible together.
CommitApply(h) ==
    /\ processed' = processed \cup {ev(h)}
    /\ behavior' = behavior \cup {ev(h)}
    /\ effect' = [effect EXCEPT ![ev(h)] = @ + 1]

\* Commit; "failure" when the server committed and the answer was lost.
ApplyCommit(h, next) ==
    /\ hpc[h] = "tx"
    /\ CommitApply(h)
    /\ Goto(h, next)
    /\ UNCHANGED <<srvVars, refreshed, dlq>>

\* refreshDerivedData runs for duplicates too; its error is logged and dropped.
RefreshDerivedData(h) ==
    /\ hpc[h] = "refresh"
    /\ refreshed' = refreshed \cup {ev(h)}
    /\ Goto(h, "ack")
    /\ UNCHANGED <<srvVars, dbVars, dlq>>

\* DoubleAck.
Ack(h) ==
    /\ hpc[h] = "ack"
    /\ Settle(hmsg[h], "acked")
    /\ Return(h)
    /\ UNCHANGED <<log, deliveries, dbVars, refreshed, dlq>>

-----------------------------------------------------------------------------
(* handleFailure *)

Nak(h) ==
    /\ hpc[h] = "failure"
    /\ hdel[h] < MaxDeliver
    /\ Settle(hmsg[h], "ready")
    /\ Return(h)
    /\ UNCHANGED <<log, deliveries, dbVars, refreshed, dlq>>

DeadLetter(h) ==
    /\ hpc[h] = "failure"
    /\ hdel[h] >= MaxDeliver
    /\ dlq' = dlq \cup {ev(h)}
    /\ Goto(h, "term")
    /\ UNCHANGED <<srvVars, dbVars, refreshed>>

\* PublishDeadLetter returned an error (stored or not): nak and try again.
DeadLetterError(h) ==
    /\ hpc[h] = "failure"
    /\ hdel[h] >= MaxDeliver
    /\ dlq' \in {dlq, dlq \cup {ev(h)}}
    /\ Settle(hmsg[h], "ready")
    /\ Return(h)
    /\ UNCHANGED <<log, deliveries, dbVars, refreshed>>

\* Seeded defect: the dead-lettered message is not terminated.
TermSkipped(h) ==
    /\ hpc[h] = "term"
    /\ Return(h)
    /\ UNCHANGED <<srvVars, dbVars, refreshed, dlq>>

Term(h) ==
    /\ hpc[h] = "term"
    /\ Settle(hmsg[h], "termed")
    /\ Return(h)
    /\ UNCHANGED <<log, deliveries, dbVars, refreshed, dlq>>

\* The ack, nak or term call fails, or the process dies: an open transaction
\* rolls back and the copy stays unsettled until AckWait passes.
Abandon(h) ==
    /\ hpc[h] # "idle"
    /\ Return(h)
    /\ UNCHANGED <<srvVars, dbVars, refreshed, dlq>>

\* dlqctl --replay: the original message under a fresh message id.  Bound: MaxCopies.
Replay(e) ==
    /\ e \in dlq
    /\ log[e] < MaxCopies
    /\ log' = [log EXCEPT ![e] = @ + 1]
    /\ UNCHANGED <<msg, deliveries, hndVars, dbVars, refreshed, dlq>>

-----------------------------------------------------------------------------
ProcessStep(h) == Reject(h) \/ ClaimEvent(h) \/ ApplyError(h)
CommitStep(h) == ApplyCommit(h, "refresh") \/ ApplyCommit(h, "failure")
AckStep(h) == RefreshDerivedData(h) \/ Ack(h)
FailureStep(h) == Nak(h) \/ DeadLetter(h) \/ Term(h)

Progress(h) == ProcessStep(h) \/ CommitStep(h) \/ AckStep(h) \/ FailureStep(h)

HandlerStep(h) ==
    \/ Progress(h)
    \/ DeadLetterError(h)
    \/ Abandon(h)

ServerStep ==
    \/ \E m \in Msg : AckWaitExpires(m) \/ Discard(m)
    \/ \E h \in Handler, m \in Msg : Deliver(h, m)

ConsumerNext ==
    \/ ServerStep
    \/ \E h \in Handler : HandlerStep(h)
    \/ \E e \in Event : Replay(e) \/ Arrive(e)

ConsumerSpec == ConsumerInit /\ [][ConsumerNext]_consumerVars

-----------------------------------------------------------------------------
(* What the code promises *)

\* "Concurrent duplicate consumers are serialized by the unique constraint": the
\* marker, the behaviour fact and exactly one counter change commit together, for
\* any interleaving of redeliveries, replays, lost commit answers and crashes.
EffectExactlyOnce ==
    /\ behavior = processed
    /\ \A e \in Event : effect[e] = IF e \in processed THEN 1 ELSE 0

\* At most one open transaction claims an event, and only an unprocessed one.
ClaimExclusive ==
    \A h \in Handler : hpc[h] = "tx" =>
        /\ ev(h) \notin processed
        /\ \A g \in Handler : hpc[g] = "tx" /\ ev(g) = ev(h) => g = h

\* "DoubleAck only after the database work succeeds": an acknowledged copy's event
\* is applied and its derived data was refreshed after the commit; a terminated
\* copy's event is in the dead-letter stream.  No settled copy loses its event.
SettledIsAccounted ==
    \A m \in Msg :
        /\ msg[m] = "acked" => m[1] \in processed \cap refreshed
        /\ msg[m] = "termed" => m[1] \in dlq

\* An event reaches the dead-letter stream only after handleFailure saw it
\* delivered maxDeliver times.
DeadLetterEarned ==
    \A e \in dlq : \E m \in Msg : m[1] = e /\ deliveries[m] = MaxDeliver

\* What the handlers carry between their steps.
HandlerSound ==
    \A h \in Handler :
        /\ hpc[h] # "idle" => hmsg[h] \in Msg /\ hdel[h] <= deliveries[hmsg[h]]
        /\ hpc[h] \in {"refresh", "ack"} => ev(h) \in processed
        /\ hpc[h] = "ack" => ev(h) \in refreshed
        /\ hpc[h] = "term" => ev(h) \in dlq

\* The inductive invariant of the consumer.
ConsumerInv ==
    /\ ConsumerTypeOK
    /\ EffectExactlyOnce
    /\ ClaimExclusive
    /\ SettledIsAccounted
    /\ DeadLetterEarned
    /\ HandlerSound

\* The server redelivers, AckWait passes, and a handler that keeps reaching a
\* step is not killed there every time; acks, dead-letter publishes and terms do
\* not fail forever.  Nothing is assumed of the database.
ConsumerFairness ==
    /\ \A m \in Msg : WF_consumerVars(AckWaitExpires(m))
    /\ \A m \in Msg : SF_consumerVars(\E h \in Handler : Deliver(h, m))
    /\ \A c \in HandlerControl \ {"idle"} : SF_consumerVars(\E h \in Handler : hpc[h] = c /\ Progress(h))

ConsumerFairSpec == ConsumerSpec /\ ConsumerFairness

\* Every stored copy is settled in the end: applied and acknowledged, moved to
\* the dead-letter stream, or dropped by the stream's own limits.
EveryCopySettles ==
    \A m \in Msg : Stored(m) ~> msg[m] \in {"acked", "termed", "discarded"}
=============================================================================
