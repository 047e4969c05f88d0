------------------------- MODULE EventPipelineProofs -------------------------
(***************************************************************************)
(* Proofs about the event pipeline, for any sets of events, publishers and *)
(* handlers and any limits: the outbox keeps OutboxInv, the consumer keeps *)
(* ConsumerInv, both together keep PipelineInv, lose no event and          *)
(* implement EventDelivery.                                                *)
(***************************************************************************)
EXTENDS EventPipeline, TLAPS

-----------------------------------------------------------------------------
(* The outbox *)

\* What a step of one publisher's loop leaves in its hands after Continue.
LEMMA ContinueSound ==
    ASSUME OutboxTypeOK, InHandSound, NEW p \in Publisher, cur[p] \in Event, Continue(p)
    PROVE  /\ pc' \in [Publisher -> PublisherControl]
           /\ batch' \in [Publisher -> SUBSET Event]
           /\ seen' \in [Publisher -> [Event -> 0..MaxRetries]]
           /\ cur' \in [Publisher -> Event \cup {NoEvent}]
           /\ \A q \in Publisher : pc'[q] \in {"acked", "errored"}
                => q # p /\ pc'[q] = pc[q] /\ cur'[q] = cur[q] /\ seen'[q] = seen[q]
           /\ \A q \in Publisher : \A e \in batch'[q] : seen'[q][e] < MaxRetries
  <1>1. 0 \in 0..MaxRetries /\ 0 < MaxRetries
    BY OutboxConstants, StreamConstants
  <1>2. /\ pc' \in [Publisher -> PublisherControl]
        /\ batch' = batch
        /\ cur' \in [Publisher -> Event \cup {NoEvent}]
    BY DEF Continue, OutboxTypeOK, PublisherControl
  <1>3. seen' = [seen EXCEPT ![p] = [seen[p] EXCEPT ![cur[p]] = 0]]
    BY DEF Continue, OutboxTypeOK
  <1>4. seen' \in [Publisher -> [Event -> 0..MaxRetries]]
    BY <1>1, <1>3 DEF OutboxTypeOK
  <1>5. ASSUME NEW q \in Publisher, pc'[q] \in {"acked", "errored"}
        PROVE  q # p /\ pc'[q] = pc[q] /\ cur'[q] = cur[q] /\ seen'[q] = seen[q]
    BY <1>3, <1>5 DEF Continue, OutboxTypeOK
  <1>6. ASSUME NEW q \in Publisher, NEW e \in batch'[q]
        PROVE  seen'[q][e] < MaxRetries
    BY <1>1, <1>2, <1>3, <1>6 DEF OutboxTypeOK, InHandSound
  <1>7. QED
    BY <1>2, <1>4, <1>5, <1>6 DEF OutboxTypeOK

\* The broker's store: it only adds, the stored event is in the stream, and the
\* duplicate window keeps its meaning.
LEMMA StoreSound ==
    ASSUME OutboxTypeOK, WindowSound, NEW e \in Event, Store(e)
    PROVE  /\ window' \in SUBSET Event
           /\ log' \in [Event -> 0..MaxCopies]
           /\ log'[e] > 0
           /\ \A f \in Event : log[f] > 0 => log'[f] > 0
           /\ \A f \in Event : IF f \in window' THEN log'[f] > 0 ELSE log'[f] < MaxCopies
  <1>1. CASE e \in window
    BY <1>1 DEF Store, OutboxTypeOK, WindowSound
  <1>2. CASE e \notin window
    <2>1. log[e] \in Nat /\ log[e] + 1 \in 0..MaxCopies /\ log[e] + 1 > 0
      BY <1>2, OutboxConstants, StreamConstants DEF Store, OutboxTypeOK
    <2>2. log' = [log EXCEPT ![e] = log[e] + 1] /\ window' = window \cup {e}
      BY <1>2 DEF Store
    <2>3. QED
      BY <2>1, <2>2 DEF OutboxTypeOK, WindowSound
  <1>3. QED
    BY <1>1, <1>2

\* The initial state satisfies the inductive invariant.
LEMMA OutboxInitInv == OutboxInit => OutboxInv
  BY OutboxConstants, StreamConstants
     DEF OutboxInit, OutboxInv, OutboxTypeOK, Status, PublisherControl, SentWasStored, RetryBudget,
         WindowSound, InHandSound

\* Steps of the table: enqueue, clock, recovery, cleanup.
LEMMA TableStepInv == OutboxInv /\ TableStep => OutboxInv'
  <1> SUFFICES ASSUME OutboxInv, TableStep PROVE OutboxInv'
    OBVIOUS
  <1> USE DEF OutboxInv
  <1>1. ASSUME NEW e \in Event, EnqueueTx(e) PROVE OutboxInv'
    BY <1>1, OutboxConstants, StreamConstants DEF EnqueueTx, OutboxTypeOK, Status, SentWasStored, RetryBudget, WindowSound,
       InHandSound, pubVars, brokerVars
  <1>2. ASSUME NEW e \in Event, RetryDue(e) PROVE OutboxInv'
    BY <1>2 DEF RetryDue, OutboxTypeOK, SentWasStored, RetryBudget, WindowSound,
       InHandSound, pubVars, brokerVars
  <1>3. ASSUME NEW e \in Event, PurgeSent(e) PROVE OutboxInv'
    BY <1>3 DEF PurgeSent, OutboxTypeOK, Status, SentWasStored, RetryBudget, WindowSound,
       InHandSound, pubVars, brokerVars
  <1>4. ASSUME NEW S \in SUBSET Event, RecoverStaleProcessing(S) PROVE OutboxInv'
    BY <1>4 DEF RecoverStaleProcessing, OutboxTypeOK, Status, SentWasStored, RetryBudget,
       WindowSound, InHandSound, pubVars, brokerVars
  <1>5. QED
    BY <1>1, <1>2, <1>3, <1>4 DEF TableStep

\* Steps of the broker alone.
LEMMA BrokerStepInv == OutboxInv /\ BrokerStep => OutboxInv'
  <1> SUFFICES ASSUME OutboxInv, BrokerStep PROVE OutboxInv'
    OBVIOUS
  <1> USE DEF OutboxInv
  <1>1. ASSUME NEW e \in Event, WindowExpires(e) PROVE OutboxInv'
    BY <1>1 DEF WindowExpires, OutboxTypeOK, SentWasStored, RetryBudget, WindowSound,
       InHandSound, rowVars, pubVars
  <1>2. ASSUME NEW e \in Event, LateStore(e) PROVE OutboxInv'
    <2>1. Store(e)
      BY <1>2 DEF LateStore
    <2>2. QED
      BY <1>2, <2>1, StoreSound DEF LateStore, OutboxTypeOK, SentWasStored, RetryBudget,
         WindowSound, InHandSound, rowVars, pubVars
  <1>3. QED
    BY <1>1, <1>2 DEF BrokerStep

\* Claiming rows.
LEMMA LockPendingInv ==
    ASSUME OutboxInv, NEW p \in Publisher, LockPending(p) PROVE OutboxInv'
  <1> USE DEF OutboxInv
  <1>1. PICK S \in SUBSET Claimable :
            /\ status' = [e \in Event |-> IF e \in S THEN "processing" ELSE status[e]]
            /\ batch' = [batch EXCEPT ![p] = S]
            /\ seen' = [seen EXCEPT ![p] = [e \in Event |-> IF e \in S THEN retryCount[e] ELSE 0]]
    BY DEF LockPending
  <1>2. S \subseteq Event /\ \A e \in S : retryCount[e] < MaxRetries /\ status[e] \in {"pending", "retry"}
    BY DEF Claimable, OutboxTypeOK, RetryBudget
  <1>3. OutboxTypeOK'
    BY <1>1, <1>2, OutboxConstants, StreamConstants DEF LockPending, OutboxTypeOK, Status, PublisherControl, brokerVars
  <1>4. SentWasStored' /\ RetryBudget' /\ WindowSound'
    BY <1>1, <1>2 DEF LockPending, OutboxTypeOK, SentWasStored, RetryBudget, WindowSound, brokerVars
  <1>5. InHandSound'
    BY <1>1, <1>2 DEF LockPending, OutboxTypeOK, PublisherControl, InHandSound, brokerVars
  <1>6. QED
    BY <1>3, <1>4, <1>5

\* Publishing, whatever the broker answers.
LEMMA PublishInv ==
    ASSUME OutboxInv, NEW p \in Publisher, Publish(p) PROVE OutboxInv'
  <1> USE DEF OutboxInv
  <1>1. ASSUME NEW e \in Event, PublishAcked(p, e) PROVE OutboxInv'
    <2>1. Store(e) /\ Take(p, e, "acked")
      BY <1>1 DEF PublishAcked
    <2>2. OutboxTypeOK'
      BY <1>1, <2>1, StoreSound DEF PublishAcked, Take, OutboxTypeOK, PublisherControl, rowVars
    <2>3. SentWasStored' /\ RetryBudget' /\ WindowSound'
      BY <1>1, <2>1, StoreSound DEF PublishAcked, OutboxTypeOK, SentWasStored, RetryBudget,
         WindowSound, rowVars
    <2>4. InHandSound'
      BY <2>1, StoreSound DEF Take, OutboxTypeOK, PublisherControl, InHandSound
    <2>5. QED
      BY <2>2, <2>3, <2>4
  <1>2. ASSUME NEW e \in Event, PublishError(p, e) PROVE OutboxInv'
    BY <1>2 DEF PublishError, Take, OutboxTypeOK, PublisherControl, SentWasStored, RetryBudget,
       WindowSound, InHandSound, rowVars
  <1>3. QED
    BY <1>1, <1>2 DEF Publish

\* Recording the outcome, unfenced.
LEMMA MarkInv ==
    ASSUME OutboxInv, NEW p \in Publisher, Mark(p) \/ MarkError(p) PROVE OutboxInv'
  <1> USE DEF OutboxInv
  <1>1. Continue(p) /\ cur[p] \in Event /\ log' = log /\ window' = window /\ late' = late
    BY DEF Mark, MarkSent, MarkRetry, MarkFailed, MarkError, InHandSound, brokerVars
  <1>2. InHandSound'
    BY <1>1, ContinueSound DEF InHandSound
  <1>3. /\ pc' \in [Publisher -> PublisherControl]
        /\ batch' \in [Publisher -> SUBSET Event]
        /\ seen' \in [Publisher -> [Event -> 0..MaxRetries]]
        /\ cur' \in [Publisher -> Event \cup {NoEvent}]
    BY <1>1, ContinueSound
  <1>4. ASSUME OutboxTypeOK', SentWasStored', RetryBudget' PROVE OutboxInv'
    BY <1>1, <1>2, <1>4 DEF WindowSound
  <1>5. CASE MarkSent(p)
    <2>1. log[cur[p]] > 0
      BY <1>5 DEF MarkSent, InHandSound
    <2>2. OutboxTypeOK' /\ SentWasStored' /\ RetryBudget'
      BY <1>1, <1>3, <1>5, <2>1 DEF MarkSent, OutboxTypeOK, Status, SentWasStored, RetryBudget
    <2>3. QED
      BY <1>4, <2>2
  <1>6. CASE MarkRetry(p)
    <2>1. seen[p][cur[p]] \in 0..MaxRetries /\ seen[p][cur[p]] + 1 < MaxRetries
      BY <1>1, <1>6 DEF MarkRetry, OutboxTypeOK
    <2>2. OutboxTypeOK' /\ SentWasStored' /\ RetryBudget'
      BY <1>1, <1>3, <1>6, <2>1, OutboxConstants, StreamConstants
         DEF MarkRetry, OutboxTypeOK, Status, SentWasStored, RetryBudget, Present
    <2>3. QED
      BY <1>4, <2>2
  <1>7. CASE MarkFailed(p)
    <2>0. seen[p][cur[p]] \in 0..MaxRetries
      BY <1>1 DEF OutboxTypeOK
    <2>b. seen[p][cur[p]] < MaxRetries /\ seen[p][cur[p]] + 1 >= MaxRetries
      BY <1>7 DEF MarkFailed, InHandSound
    <2>1. seen[p][cur[p]] \in 0..MaxRetries /\ seen[p][cur[p]] + 1 = MaxRetries
      BY <2>0, <2>b, OutboxConstants, StreamConstants
    <2>2. OutboxTypeOK' /\ SentWasStored' /\ RetryBudget'
      BY <1>1, <1>3, <1>7, <2>1, OutboxConstants, StreamConstants
         DEF MarkFailed, OutboxTypeOK, Status, SentWasStored, RetryBudget, Present
    <2>3. QED
      BY <1>4, <2>2
  <1>8. CASE MarkError(p)
    BY <1>1, <1>3, <1>4, <1>8 DEF MarkError, OutboxTypeOK, SentWasStored, RetryBudget, rowVars
  <1>9. QED
    BY <1>5, <1>6, <1>7, <1>8 DEF Mark

\* A crash drops what the publisher had in hand.
LEMMA CrashInv ==
    ASSUME OutboxInv, NEW p \in Publisher, Crash(p) PROVE OutboxInv'
  BY OutboxConstants, StreamConstants
     DEF OutboxInv, Crash, OutboxTypeOK, PublisherControl, SentWasStored, RetryBudget, WindowSound,
         InHandSound, rowVars, brokerVars

\* Every step preserves the inductive invariant.
LEMMA OutboxNextInv == OutboxInv /\ [OutboxNext]_outboxVars => OutboxInv'
  <1> SUFFICES ASSUME OutboxInv, [OutboxNext]_outboxVars PROVE OutboxInv'
    OBVIOUS
  <1>1. CASE TableStep
    BY <1>1, TableStepInv
  <1>2. CASE BrokerStep
    BY <1>2, BrokerStepInv
  <1>3. ASSUME NEW p \in Publisher, PublisherStep(p) PROVE OutboxInv'
    BY <1>3, LockPendingInv, PublishInv, MarkInv, CrashInv DEF PublisherStep
  <1>4. CASE UNCHANGED outboxVars
    BY <1>4 DEF outboxVars, rowVars, pubVars, brokerVars, OutboxInv, OutboxTypeOK, SentWasStored,
       RetryBudget, WindowSound, InHandSound
  <1>5. QED
    BY <1>1, <1>2, <1>3, <1>4 DEF OutboxNext

\* The outbox of any size keeps its inductive invariant.
THEOREM OutboxInvariant == OutboxSpec => []OutboxInv
  BY OutboxInitInv, OutboxNextInv, PTL DEF OutboxSpec

\* A row is marked sent only for an event the stream has stored: processBatch
\* calls MarkSent after PublishEvent's acknowledgement, and no stale publisher,
\* recovery, crash or cleanup can break the implication.
THEOREM SentOnlyAfterStored == OutboxSpec => []SentWasStored
  BY OutboxInvariant, PTL DEF OutboxInv

\* A claimable row always has retry budget left and a failed row has used it
\* all, although MarkRetry and MarkFailed write a counter read under a lease that
\* may have been recovered.
THEOREM RetryBudgetKept == OutboxSpec => []RetryBudget
  BY OutboxInvariant, PTL DEF OutboxInv

-----------------------------------------------------------------------------
(* The consumer *)

\* A handler that is not idle holds a copy of an event.
LEMMA InHand ==
    ASSUME ConsumerInv, NEW h \in Handler, hpc[h] # "idle"
    PROVE  hmsg[h] \in Msg /\ ev(h) \in Event
BY DEF ConsumerInv, HandlerSound, Msg, ev

LEMMA ConsumerInitInv == ConsumerInit => ConsumerInv
BY ConsumerConstants, StreamConstants
DEF ConsumerInit, ConsumerInv, ConsumerTypeOK, EffectExactlyOnce, ClaimExclusive, SettledIsAccounted,
    DeadLetterEarned, HandlerSound, HandlerControl, MsgState

\* Steps of the server that touch no handler.
LEMMA ServerInv ==
    ASSUME ConsumerInv,
           \/ \E e \in Event : Arrive(e) \/ Replay(e)
           \/ \E m \in Msg : AckWaitExpires(m) \/ Discard(m)
    PROVE  ConsumerInv'
<1>1. ConsumerTypeOK'
    BY ConsumerConstants, StreamConstants DEF ConsumerInv, ConsumerTypeOK, Arrive, Replay, AckWaitExpires, Discard,
        MsgState, hndVars, dbVars
<1>2. UNCHANGED <<deliveries, hndVars, dbVars, refreshed, dlq>>
    BY DEF Arrive, Replay, AckWaitExpires, Discard
<1>3. \A m \in Msg : msg'[m] \in {"acked", "termed"} => msg'[m] = msg[m]
    BY DEF ConsumerInv, ConsumerTypeOK, Arrive, Replay, AckWaitExpires, Discard
<1>4. SettledIsAccounted'
    BY <1>2, <1>3 DEF ConsumerInv, SettledIsAccounted, dbVars
<1>. QED BY <1>1, <1>2, <1>4 DEF ConsumerInv, EffectExactlyOnce, ClaimExclusive,
            DeadLetterEarned, HandlerSound, ev, hndVars, dbVars

LEMMA DeliverInv ==
    ASSUME ConsumerInv, NEW h \in Handler, NEW m \in Msg, Deliver(h, m)
    PROVE  ConsumerInv'
<1>1. ConsumerTypeOK'
    BY ConsumerConstants, StreamConstants DEF ConsumerInv, ConsumerTypeOK, Deliver, MsgState, HandlerControl, dbVars
<1>2. \A n \in Msg : deliveries[n] <= deliveries'[n] /\ deliveries'[n] <= MaxDeliver
    BY ConsumerConstants, StreamConstants DEF ConsumerInv, ConsumerTypeOK, Deliver
<1>3. EffectExactlyOnce'
    BY DEF ConsumerInv, EffectExactlyOnce, Deliver, dbVars
<1>4. ClaimExclusive'
    BY DEF ConsumerInv, ConsumerTypeOK, ClaimExclusive, Deliver, dbVars, ev
<1>5. SettledIsAccounted'
    BY DEF ConsumerInv, ConsumerTypeOK, SettledIsAccounted, Deliver, dbVars
<1>6. DeadLetterEarned'
    BY <1>2, ConsumerConstants, StreamConstants DEF ConsumerInv, ConsumerTypeOK, DeadLetterEarned, Deliver
<1>7. HandlerSound'
  <2>1. ASSUME NEW g \in Handler, g # h
        PROVE  /\ hpc'[g] = hpc[g] /\ hmsg'[g] = hmsg[g] /\ hdel'[g] = hdel[g]
               /\ hmsg[g] \in Msg /\ hdel[g] <= deliveries[hmsg[g]]
                    => hdel[g] <= deliveries'[hmsg[g]]
      BY <1>2, <2>1, ConsumerConstants, StreamConstants DEF ConsumerInv, ConsumerTypeOK, Deliver
  <2>2. hpc'[h] = "process" /\ hmsg'[h] = m /\ hdel'[h] <= deliveries'[m]
      BY <1>1 DEF ConsumerInv, ConsumerTypeOK, Deliver
  <2>. QED BY <2>1, <2>2 DEF ConsumerInv, HandlerSound, Deliver, dbVars, ev
<1>. QED BY <1>1, <1>3, <1>4, <1>5, <1>6, <1>7 DEF ConsumerInv

\* A handler goes on without touching the server or the database.
LEMMA GotoInv ==
    ASSUME ConsumerInv, NEW h \in Handler,
           NEW next \in {"tx", "refresh", "failure"},
           hpc[h] # "idle",
           Goto(h, next),
           next = "tx" => ev(h) \notin processed /\ Claimants(ev(h)) = {},
           next = "refresh" => ev(h) \in processed,
           UNCHANGED <<srvVars, dbVars, refreshed, dlq>>
    PROVE  ConsumerInv'
<1>1. ConsumerTypeOK'
    BY DEF ConsumerInv, ConsumerTypeOK, Goto, HandlerControl, srvVars, dbVars
<1>2. ClaimExclusive'
    BY DEF ConsumerInv, ConsumerTypeOK, ClaimExclusive, Goto, Claimants, dbVars, ev
<1>3. HandlerSound'
    BY DEF ConsumerInv, ConsumerTypeOK, HandlerSound, Goto, srvVars, dbVars, ev
<1>. QED BY <1>1, <1>2, <1>3 DEF ConsumerInv, EffectExactlyOnce, SettledIsAccounted,
            DeadLetterEarned, srvVars, dbVars

LEMMA ProcessStepInv ==
    ASSUME ConsumerInv, NEW h \in Handler, ProcessStep(h)
    PROVE  ConsumerInv'
BY GotoInv DEF ProcessStep, Reject, ClaimEvent, ApplyError

\* The commit: marker, fact and counter change together.
LEMMA ApplyCommitInv ==
    ASSUME ConsumerInv, NEW h \in Handler, NEW next \in {"refresh", "failure"},
           ApplyCommit(h, next)
    PROVE  ConsumerInv'
<1>1. ev(h) \in Event /\ ev(h) \notin processed /\ hmsg[h] \in Msg
    BY InHand DEF ApplyCommit, ConsumerInv, ClaimExclusive
<1>2. ConsumerTypeOK'
    BY <1>1 DEF ConsumerInv, ConsumerTypeOK, ApplyCommit, CommitApply, Goto, HandlerControl, srvVars
<1>3. EffectExactlyOnce'
    BY <1>1 DEF ConsumerInv, ConsumerTypeOK, EffectExactlyOnce, ApplyCommit, CommitApply
<1>4. ClaimExclusive'
    BY DEF ConsumerInv, ConsumerTypeOK, ClaimExclusive, ApplyCommit, CommitApply, Goto, ev
<1>5. SettledIsAccounted'
    BY DEF ConsumerInv, SettledIsAccounted, ApplyCommit, CommitApply, srvVars
<1>6. HandlerSound'
    BY DEF ConsumerInv, ConsumerTypeOK, HandlerSound, ApplyCommit, CommitApply, Goto, srvVars, ev
<1>7. DeadLetterEarned'
    BY DEF ConsumerInv, DeadLetterEarned, ApplyCommit, srvVars
<1>. QED BY <1>2, <1>3, <1>4, <1>5, <1>6, <1>7 DEF ConsumerInv

LEMMA RefreshInv ==
    ASSUME ConsumerInv, NEW h \in Handler, RefreshDerivedData(h)
    PROVE  ConsumerInv'
<1>1. ev(h) \in Event
    BY InHand DEF RefreshDerivedData
<1>2. ConsumerTypeOK'
    BY <1>1 DEF ConsumerInv, ConsumerTypeOK, RefreshDerivedData, Goto, HandlerControl, srvVars, dbVars
<1>3. ClaimExclusive'
    BY DEF ConsumerInv, ConsumerTypeOK, ClaimExclusive, RefreshDerivedData, Goto, dbVars, ev
<1>4. HandlerSound'
    BY DEF ConsumerInv, ConsumerTypeOK, HandlerSound, RefreshDerivedData, Goto, srvVars, dbVars, ev
<1>5. SettledIsAccounted'
    BY DEF ConsumerInv, SettledIsAccounted, RefreshDerivedData, srvVars, dbVars
<1>. QED BY <1>2, <1>3, <1>4, <1>5 DEF ConsumerInv, EffectExactlyOnce, DeadLetterEarned,
            RefreshDerivedData, srvVars, dbVars

\* A handler settles its copy, or leaves it, and returns; the dead-letter stream
\* may have grown by an event that earned it.
LEMMA ReturnInv ==
    ASSUME ConsumerInv, NEW h \in Handler, hpc[h] # "idle",
           Return(h),
           msg' \in [Msg -> MsgState],
           \A m \in Msg : msg'[m] = "acked" => msg[m] = "acked" \/ m[1] \in processed \cap refreshed,
           \A m \in Msg : msg'[m] = "termed" => msg[m] = "termed" \/ m[1] \in dlq,
           dlq' \in SUBSET Event,
           dlq \subseteq dlq',
           \A e \in dlq' \ dlq : \E m \in Msg : m[1] = e /\ deliveries[m] = MaxDeliver,
           UNCHANGED <<log, deliveries, dbVars, refreshed>>
    PROVE  ConsumerInv'
<1>1. ConsumerTypeOK'
    BY ConsumerConstants, StreamConstants DEF ConsumerInv, ConsumerTypeOK, Return, HandlerControl, dbVars
<1>2. ClaimExclusive'
    BY DEF ConsumerInv, ConsumerTypeOK, ClaimExclusive, Return, dbVars, ev
<1>3. HandlerSound'
    BY DEF ConsumerInv, ConsumerTypeOK, HandlerSound, Return, dbVars, ev
<1>4. SettledIsAccounted'
    BY DEF ConsumerInv, SettledIsAccounted, dbVars
<1>5. DeadLetterEarned'
    BY DEF ConsumerInv, DeadLetterEarned
<1>. QED BY <1>1, <1>2, <1>3, <1>4, <1>5 DEF ConsumerInv, EffectExactlyOnce, dbVars

\* An event in hand at its last delivery has earned the dead-letter stream.
LEMMA LastDelivery ==
    ASSUME ConsumerInv, NEW h \in Handler, hpc[h] = "failure", hdel[h] >= MaxDeliver
    PROVE  hmsg[h] \in Msg /\ hmsg[h][1] = ev(h) /\ deliveries[hmsg[h]] = MaxDeliver
<1>1. hmsg[h] \in Msg /\ hdel[h] <= deliveries[hmsg[h]]
    BY DEF ConsumerInv, HandlerSound
<1>2. deliveries[hmsg[h]] \in 0..MaxDeliver /\ hdel[h] \in 0..MaxDeliver
    BY <1>1 DEF ConsumerInv, ConsumerTypeOK
<1>. QED BY <1>1, <1>2, ConsumerConstants, StreamConstants DEF ev

LEMMA SettleStepInv ==
    ASSUME ConsumerInv, NEW h \in Handler,
           Ack(h) \/ Nak(h) \/ DeadLetterError(h) \/ Term(h) \/ Abandon(h)
    PROVE  ConsumerInv'
<1>1. CASE Ack(h)
  <2>1. ev(h) \in processed \cap refreshed /\ hmsg[h] \in Msg /\ hmsg[h][1] = ev(h)
      BY <1>1, InHand DEF Ack, ConsumerInv, HandlerSound, ev
  <2>. QED BY <1>1, <2>1, ReturnInv DEF Ack, Settle, ConsumerInv, ConsumerTypeOK, MsgState
<1>2. CASE Nak(h)
    BY <1>2, InHand, ReturnInv DEF Nak, Settle, ConsumerInv, ConsumerTypeOK, MsgState
<1>3. CASE DeadLetterError(h)
  <2>1. hmsg[h] \in Msg /\ hmsg[h][1] = ev(h) /\ deliveries[hmsg[h]] = MaxDeliver /\ ev(h) \in Event
      BY <1>3, LastDelivery, InHand DEF DeadLetterError
  <2>. QED BY <1>3, <2>1, ReturnInv DEF DeadLetterError, Settle, ConsumerInv, ConsumerTypeOK, MsgState
<1>4. CASE Term(h)
  <2>1. ev(h) \in dlq /\ hmsg[h] \in Msg /\ hmsg[h][1] = ev(h)
      BY <1>4, InHand DEF Term, ConsumerInv, HandlerSound, ev
  <2>. QED BY <1>4, <2>1, ReturnInv DEF Term, Settle, ConsumerInv, ConsumerTypeOK, MsgState
<1>5. CASE Abandon(h)
    BY <1>5, ReturnInv DEF Abandon, ConsumerInv, ConsumerTypeOK, srvVars
<1>. QED BY <1>1, <1>2, <1>3, <1>4, <1>5

LEMMA DeadLetterInv ==
    ASSUME ConsumerInv, NEW h \in Handler, DeadLetter(h)
    PROVE  ConsumerInv'
<1>1. hmsg[h] \in Msg /\ hmsg[h][1] = ev(h) /\ deliveries[hmsg[h]] = MaxDeliver /\ ev(h) \in Event
    BY LastDelivery, InHand DEF DeadLetter
<1>2. ConsumerTypeOK'
    BY <1>1 DEF ConsumerInv, ConsumerTypeOK, DeadLetter, Goto, HandlerControl, srvVars, dbVars
<1>3. ClaimExclusive'
    BY DEF ConsumerInv, ConsumerTypeOK, ClaimExclusive, DeadLetter, Goto, dbVars, ev
<1>4. HandlerSound'
    BY DEF ConsumerInv, ConsumerTypeOK, HandlerSound, DeadLetter, Goto, srvVars, dbVars, ev
<1>5. SettledIsAccounted'
    BY DEF ConsumerInv, SettledIsAccounted, DeadLetter, srvVars, dbVars
<1>6. DeadLetterEarned'
    BY <1>1 DEF ConsumerInv, DeadLetterEarned, DeadLetter, srvVars
<1>. QED BY <1>2, <1>3, <1>4, <1>5, <1>6 DEF ConsumerInv, EffectExactlyOnce, DeadLetter, dbVars

LEMMA ConsumerNextInv == ConsumerInv /\ [ConsumerNext]_consumerVars => ConsumerInv'
<1>. SUFFICES ASSUME ConsumerInv, [ConsumerNext]_consumerVars PROVE ConsumerInv'
    OBVIOUS
<1>1. CASE \/ \E e \in Event : Arrive(e) \/ Replay(e)
           \/ \E m \in Msg : AckWaitExpires(m) \/ Discard(m)
    BY <1>1, ServerInv
<1>2. ASSUME NEW h \in Handler, NEW m \in Msg, Deliver(h, m) PROVE ConsumerInv'
    BY <1>2, DeliverInv
<1>3. ASSUME NEW h \in Handler, HandlerStep(h) PROVE ConsumerInv'
  <2>1. CASE ProcessStep(h)
      BY <2>1, ProcessStepInv
  <2>2. CASE CommitStep(h)
      BY <2>2, ApplyCommitInv DEF CommitStep
  <2>3. CASE RefreshDerivedData(h)
      BY <2>3, RefreshInv
  <2>4. CASE DeadLetter(h)
      BY <2>4, DeadLetterInv
  <2>5. CASE Ack(h) \/ Nak(h) \/ DeadLetterError(h) \/ Term(h) \/ Abandon(h)
      BY <2>5, SettleStepInv
  <2>. QED BY <1>3, <2>1, <2>2, <2>3, <2>4, <2>5 DEF HandlerStep, Progress, AckStep, FailureStep
<1>4. CASE UNCHANGED consumerVars
    BY <1>4 DEF consumerVars, srvVars, hndVars, dbVars, ConsumerInv, ConsumerTypeOK, EffectExactlyOnce,
        ClaimExclusive, SettledIsAccounted, DeadLetterEarned, HandlerSound, ev
<1>. QED BY <1>1, <1>2, <1>3, <1>4 DEF ConsumerNext, ServerStep

-----------------------------------------------------------------------------
\* The inductive invariant of the consumer holds in every reachable state.
THEOREM ConsumerInvariant == ConsumerSpec => []ConsumerInv
<1>1. ConsumerInit => ConsumerInv
    BY ConsumerInitInv
<1>2. ConsumerInv /\ [ConsumerNext]_consumerVars => ConsumerInv'
    BY ConsumerNextInv
<1>. QED BY <1>1, <1>2, PTL DEF ConsumerSpec

\* Every event's marker, behaviour fact and single counter change commit together,
\* whatever is redelivered, replayed, lost or killed.
THEOREM AppliedExactlyOnce == ConsumerSpec => []EffectExactlyOnce
<1>1. ConsumerInv => EffectExactlyOnce
    BY DEF ConsumerInv
<1>. QED BY <1>1, ConsumerInvariant, PTL

\* An acknowledged copy's event is applied and refreshed, a terminated copy's event
\* is in the dead-letter stream.
THEOREM SettledCopiesAccounted == ConsumerSpec => []SettledIsAccounted
<1>1. ConsumerInv => SettledIsAccounted
    BY DEF ConsumerInv
<1>. QED BY <1>1, ConsumerInvariant, PTL

\* An event is dead-lettered only after a copy of it has used up its deliveries.
THEOREM DeadLettersEarned == ConsumerSpec => []DeadLetterEarned
<1>1. ConsumerInv => DeadLetterEarned
    BY DEF ConsumerInv
<1>. QED BY <1>1, ConsumerInvariant, PTL

-----------------------------------------------------------------------------
(* The pipeline *)

LEMMA PipelineInitInv == Init => PipelineInv
<1>. SUFFICES ASSUME Init PROVE PipelineInv
    OBVIOUS
<1>1. OutboxInv /\ ConsumerInv
    BY OutboxInitInv, ConsumerInitInv DEF Init
<1>2. RowFirst /\ HeldWasStored
    BY OutboxConstants DEF Init, OutboxInit, ConsumerInit, RowFirst, HeldWasStored
<1>. QED BY <1>1, <1>2 DEF PipelineInv

\* The consumer sees of the other side only how many copies there are.
LEMMA ConsumerUntouched ==
    ASSUME ConsumerInv, UNCHANGED consumerOnly, log' \in [Event -> 0..MaxCopies]
    PROVE  ConsumerInv'
BY DEF consumerOnly, ConsumerInv, ConsumerTypeOK, EffectExactlyOnce, ClaimExclusive,
    SettledIsAccounted, DeadLetterEarned, HandlerSound, ev

\* The outbox sees of the consumer nothing but a replay, which leaves room for a publish.
LEMMA OutboxUntouched ==
    ASSUME OutboxInv, UNCHANGED outboxOnly,
           UNCHANGED log \/ \E e \in Event : ReplayStep(e)
    PROVE  OutboxInv'
<1>1. CASE UNCHANGED log
    BY <1>1 DEF outboxOnly, OutboxInv, OutboxTypeOK, SentWasStored, RetryBudget, WindowSound,
        InHandSound
<1>2. ASSUME NEW e \in Event, ReplayStep(e) PROVE OutboxInv'
  <2>1. /\ log[e] \in Nat /\ log[e] + 1 \in 0..MaxCopies
        /\ log' = [log EXCEPT ![e] = log[e] + 1]
        /\ e \in window \/ log[e] + 1 < MaxCopies
      BY <1>2, StreamConstants DEF ReplayStep, Replay, OutboxInv, OutboxTypeOK
  <2>2. log' \in [Event -> 0..MaxCopies] /\ \A f \in Event : log[f] > 0 => log'[f] > 0
      BY <2>1 DEF OutboxInv, OutboxTypeOK
  <2>3. \A f \in Event : IF f \in window THEN log'[f] > 0 ELSE log'[f] < MaxCopies
      BY <2>1 DEF OutboxInv, OutboxTypeOK, WindowSound
  <2>. QED BY <2>2, <2>3 DEF outboxOnly, OutboxInv, OutboxTypeOK, SentWasStored, RetryBudget,
              WindowSound, InHandSound
<1>. QED BY <1>1, <1>2

\* No step takes a copy out of the stream.
LEMMA LogGrows ==
    ASSUME PipelineInv, [Next]_vars, NEW e \in Event
    PROVE  log[e] \in Nat /\ log'[e] \in Nat /\ log[e] <= log'[e]
<1>1. log \in [Event -> 0..MaxCopies] /\ MaxCopies \in Nat
    BY StreamConstants DEF PipelineInv, OutboxInv, OutboxTypeOK
<1>2. \/ UNCHANGED log
      \/ \E f \in Event : Store(f)
      \/ \E f \in Event : log' = [log EXCEPT ![f] = @ + 1]
  <2>1. CASE OutboxStep
    <3>1. CASE TableStep
        BY <3>1 DEF TableStep, EnqueueTx, RetryDue, PurgeSent, RecoverStaleProcessing, brokerVars
    <3>2. CASE BrokerStep
        BY <3>2 DEF BrokerStep, WindowExpires, LateStore
    <3>3. ASSUME NEW p \in Publisher, PublisherStep(p)
          PROVE  UNCHANGED log \/ \E f \in Event : Store(f)
        BY <3>3 DEF PublisherStep, LockPending, Publish, PublishAcked, PublishError, Mark,
            MarkSent, MarkRetry, MarkFailed, MarkError, Crash, brokerVars
    <3>. QED BY <2>1, <3>1, <3>2, <3>3 DEF OutboxStep, OutboxNext
  <2>2. CASE ConsumerStep
    <3>1. CASE ServerStep
        BY <3>1 DEF ServerStep, AckWaitExpires, Discard, Deliver
    <3>2. ASSUME NEW h \in Handler, HandlerStep(h) PROVE UNCHANGED log
        BY <3>2 DEF HandlerStep, Progress, ProcessStep, CommitStep, AckStep, FailureStep, Reject,
            ClaimEvent, ApplyError, ApplyCommit, RefreshDerivedData, Ack, Nak, DeadLetter, Term,
            DeadLetterError, Abandon, srvVars
    <3>. QED BY <2>2, <3>1, <3>2 DEF ConsumerStep
  <2>3. CASE \E f \in Event : ReplayStep(f)
      BY <2>3 DEF ReplayStep, Replay
  <2>4. CASE UNCHANGED vars
      BY <2>4 DEF vars
  <2>. QED BY <2>1, <2>2, <2>3, <2>4 DEF Next
<1>3. CASE UNCHANGED log
    BY <1>1, <1>3
<1>4. ASSUME NEW f \in Event, log' = [log EXCEPT ![f] = @ + 1]
      PROVE  log[e] \in Nat /\ log'[e] \in Nat /\ log[e] <= log'[e]
    BY <1>1, <1>4
<1>5. ASSUME NEW f \in Event, Store(f)
      PROVE  log[e] \in Nat /\ log'[e] \in Nat /\ log[e] <= log'[e]
    BY <1>3, <1>4, <1>5 DEF Store
<1>. QED BY <1>2, <1>3, <1>4, <1>5

\* An event in the hands of a handler has a row.
LEMMA HeldHasRow ==
    ASSUME PipelineInv, NEW h \in Handler, hpc[h] # "idle"
    PROVE  ev(h) \in Event /\ status[ev(h)] # "absent"
<1>1. hmsg[h] \in Msg /\ ev(h) \in Event /\ Stored(hmsg[h])
    BY InHand DEF PipelineInv, HeldWasStored
<1>2. hmsg[h][2] \in Nat /\ hmsg[h][2] >= 1 /\ hmsg[h][2] <= log[ev(h)]
    BY <1>1, StreamConstants DEF Msg, Stored, ev
<1>. QED BY <1>1, <1>2 DEF PipelineInv, RowFirst

\* What the outbox does to rows, publishes under way and hands: no row goes away, and what
\* is stored, handed out or under way has a row.
LEMMA OutboxRows ==
    ASSUME PipelineInv, OutboxStep
    PROVE  /\ RowFirst'
           /\ \/ \E e \in Event : EnqueueTx(e)
              \/ \A e \in Event : status'[e] = "absent" <=> status[e] = "absent"
<1>. USE DEF PipelineInv, OutboxInv, OutboxTypeOK
<1>1. processed' = processed /\ dlq' = dlq
    BY DEF OutboxStep, consumerOnly
<1>2. ASSUME NEW e \in Event, EnqueueTx(e) PROVE RowFirst'
    BY <1>1, <1>2 DEF EnqueueTx, RowFirst, pubVars, brokerVars
<1>3. ASSUME \A e \in Event : status'[e] = "absent" <=> status[e] = "absent",
             \A e \in Event : status[e] = "absent" =>
                 /\ log'[e] = 0 /\ e \notin late'
                 /\ \A p \in Publisher : e \notin batch'[p] /\ cur'[p] # e
      PROVE  RowFirst'
    BY <1>1, <1>3 DEF RowFirst
<1>4. ASSUME NEW e \in Event, Store(e), status[e] # "absent", NEW f \in Event, status[f] = "absent"
      PROVE  log'[f] = 0
    BY <1>4 DEF Store, RowFirst
<1>5. CASE \/ \E e \in Event : RetryDue(e) \/ PurgeSent(e)
           \/ \E S \in SUBSET Event : RecoverStaleProcessing(S)
  <2>1. \A e \in Event : status'[e] = "absent" <=> status[e] = "absent"
      BY <1>5 DEF RetryDue, PurgeSent, RecoverStaleProcessing
  <2>2. UNCHANGED <<log, late, batch, cur>>
      BY <1>5 DEF RetryDue, PurgeSent, RecoverStaleProcessing, pubVars, brokerVars
  <2>. QED BY <1>3, <2>1, <2>2 DEF RowFirst
<1>6. ASSUME NEW e \in Event, WindowExpires(e) \/ LateStore(e) PROVE RowFirst' /\ status' = status
  <2>1. UNCHANGED <<status, batch, cur>> /\ late' \subseteq late
      BY <1>6 DEF WindowExpires, LateStore, rowVars, pubVars
  <2>2. \A f \in Event : status[f] = "absent" => log'[f] = 0
    <3>1. CASE WindowExpires(e)
        BY <3>1 DEF WindowExpires, RowFirst
    <3>2. CASE LateStore(e)
        BY <1>4, <3>2 DEF LateStore, RowFirst
    <3>. QED BY <1>6, <3>1, <3>2
  <2>. QED BY <1>3, <2>1, <2>2 DEF RowFirst
<1>7. ASSUME NEW p \in Publisher, LockPending(p)
      PROVE  RowFirst' /\ \A e \in Event : status'[e] = "absent" <=> status[e] = "absent"
  <2>1. PICK S \in SUBSET Claimable :
            /\ status' = [e \in Event |-> IF e \in S THEN "processing" ELSE status[e]]
            /\ batch' = [batch EXCEPT ![p] = S]
      BY <1>7 DEF LockPending
  <2>2. \A e \in S : status[e] # "absent"
      BY DEF Claimable
  <2>3. \A e \in Event : status'[e] = "absent" <=> status[e] = "absent"
      BY <2>1, <2>2
  <2>4. UNCHANGED <<log, late, cur>>
      BY <1>7 DEF LockPending, brokerVars
  <2>5. \A e \in Event, q \in Publisher : status[e] = "absent" => e \notin batch'[q]
      BY <2>1, <2>2 DEF RowFirst
  <2>. QED BY <1>3, <2>3, <2>4, <2>5 DEF RowFirst
<1>8. ASSUME NEW p \in Publisher, NEW e \in Event, PublishAcked(p, e) \/ PublishError(p, e)
      PROVE  RowFirst' /\ status' = status
  <2>1. e \in batch[p] /\ status[e] # "absent"
      BY <1>8 DEF PublishAcked, PublishError, Take, RowFirst
  <2>2. /\ batch' = [batch EXCEPT ![p] = @ \ {e}] /\ cur' = [cur EXCEPT ![p] = e]
        /\ status' = status /\ late' \subseteq late \cup {e}
      BY <1>8 DEF PublishAcked, PublishError, Take, rowVars
  <2>3. \A f \in Event : status[f] = "absent" => log'[f] = 0
      BY <1>4, <1>8, <2>1 DEF PublishAcked, PublishError, RowFirst
  <2>4. \A f \in Event : status[f] = "absent" =>
            \A q \in Publisher : f \notin batch'[q] /\ cur'[q] # f
      BY <2>1, <2>2 DEF RowFirst
  <2>5. \A f \in Event : status[f] = "absent" => f \notin late'
      BY <2>1, <2>2 DEF RowFirst
  <2>. QED BY <1>3, <2>2, <2>3, <2>4, <2>5
<1>9. ASSUME NEW p \in Publisher, Mark(p) \/ MarkError(p)
      PROVE  RowFirst' /\ \A e \in Event : status'[e] = "absent" <=> status[e] = "absent"
  <2>1. cur[p] \in Event /\ status[cur[p]] # "absent"
      BY <1>9 DEF Mark, MarkSent, MarkRetry, MarkFailed, MarkError, InHandSound, RowFirst
  <2>2. \A e \in Event : status'[e] = "absent" <=> status[e] = "absent"
      BY <1>9, <2>1 DEF Mark, MarkSent, MarkRetry, MarkFailed, MarkError, Present, rowVars
  <2>3. UNCHANGED <<log, late, batch>> /\ cur' = [cur EXCEPT ![p] = NoEvent]
      BY <1>9 DEF Mark, MarkSent, MarkRetry, MarkFailed, MarkError, Continue, brokerVars
  <2>4. \A e \in Event, q \in Publisher : cur'[q] = e => cur[q] = e
      BY <2>3, OutboxConstants
  <2>. QED BY <1>3, <2>2, <2>3, <2>4 DEF RowFirst
<1>10. ASSUME NEW p \in Publisher, Crash(p) PROVE RowFirst' /\ status' = status
  <2>1. UNCHANGED <<status, log, late>> /\ batch' = [batch EXCEPT ![p] = {}]
        /\ cur' = [cur EXCEPT ![p] = NoEvent]
      BY <1>10 DEF Crash, rowVars, brokerVars
  <2>2. \A e \in Event, q \in Publisher :
            (cur'[q] = e => cur[q] = e) /\ (e \in batch'[q] => e \in batch[q])
      BY <2>1, OutboxConstants
  <2>. QED BY <1>3, <2>1, <2>2 DEF RowFirst
<1>11. CASE \E e \in Event : RetryDue(e) \/ PurgeSent(e)
    BY <1>5, <1>11 DEF RetryDue, PurgeSent
<1>12. CASE \E S \in SUBSET Event : RecoverStaleProcessing(S)
    BY <1>5, <1>12 DEF RecoverStaleProcessing
<1>. QED BY <1>2, <1>6, <1>7, <1>8, <1>9, <1>10, <1>11, <1>12
         DEF OutboxStep, OutboxNext, TableStep, BrokerStep, PublisherStep, Publish

\* What the consumer records about events: those in the hands of its handlers.
LEMMA ConsumerRows ==
    ASSUME PipelineInv, ConsumerStep
    PROVE  /\ UNCHANGED <<outboxOnly, log>>
           /\ \/ UNCHANGED <<effect, processed>>
              \/ \E h \in Handler, next \in {"refresh", "failure"} : ApplyCommit(h, next)
           /\ \A e \in dlq' \ dlq : \E h \in Handler : hpc[h] # "idle" /\ ev(h) = e
           /\ \A h \in Handler : hpc'[h] # "idle" => Stored(hmsg'[h])
<1>. USE DEF PipelineInv, ConsumerInv, ConsumerTypeOK
<1>1. ASSUME NEW h \in Handler, \A g \in Handler \ {h} : hpc'[g] = hpc[g] /\ hmsg'[g] = hmsg[g],
             hpc'[h] # "idle" => Stored(hmsg'[h])
      PROVE  \A g \in Handler : hpc'[g] # "idle" => Stored(hmsg'[g])
    BY <1>1 DEF HeldWasStored
<1>2. ASSUME NEW m \in Msg, AckWaitExpires(m) \/ Discard(m)
      PROVE  UNCHANGED <<log, effect, processed, dlq, hpc, hmsg>>
    BY <1>2 DEF AckWaitExpires, Discard, hndVars, dbVars
<1>3. ASSUME NEW h \in Handler, NEW m \in Msg, Deliver(h, m)
      PROVE  /\ UNCHANGED <<log, effect, processed, dlq>>
             /\ \A g \in Handler : hpc'[g] # "idle" => Stored(hmsg'[g])
    BY <1>1, <1>3 DEF Deliver, dbVars
<1>4. ASSUME NEW h \in Handler, HandlerStep(h)
      PROVE  /\ UNCHANGED log
             /\ UNCHANGED <<effect, processed>> \/ CommitStep(h)
             /\ \A e \in dlq' \ dlq : hpc[h] # "idle" /\ ev(h) = e
             /\ \A g \in Handler : hpc'[g] # "idle" => Stored(hmsg'[g])
  <2>1. UNCHANGED log
      BY <1>4 DEF HandlerStep, Progress, ProcessStep, CommitStep, AckStep, FailureStep, Reject,
          ClaimEvent, ApplyError, ApplyCommit, RefreshDerivedData, Ack, Nak, DeadLetter, Term,
          DeadLetterError, Abandon, srvVars
  <2>2. UNCHANGED <<effect, processed>> \/ CommitStep(h)
      BY <1>4 DEF HandlerStep, Progress, ProcessStep, AckStep, FailureStep, Reject,
          ClaimEvent, ApplyError, RefreshDerivedData, Ack, Nak, DeadLetter, Term,
          DeadLetterError, Abandon, dbVars
  <2>3. dlq' = dlq \/ DeadLetter(h) \/ DeadLetterError(h)
      BY <1>4 DEF HandlerStep, Progress, ProcessStep, CommitStep, AckStep, FailureStep, Reject,
          ClaimEvent, ApplyError, ApplyCommit, RefreshDerivedData, Ack, Nak, Term, Abandon
  <2>4. \A e \in dlq' \ dlq : hpc[h] # "idle" /\ ev(h) = e
      BY <2>3 DEF DeadLetter, DeadLetterError
  <2>5. hpc[h] # "idle" /\ (Return(h) \/ \E next \in HandlerControl : Goto(h, next))
      BY <1>4 DEF HandlerStep, Progress, ProcessStep, CommitStep, AckStep, FailureStep, Reject,
          ClaimEvent, ApplyError, ApplyCommit, RefreshDerivedData, Ack, Nak, DeadLetter, Term,
          DeadLetterError, Abandon, HandlerControl
  <2>6. Stored(hmsg[h])
      BY <2>5 DEF HeldWasStored
  <2>. QED BY <1>1, <2>1, <2>2, <2>4, <2>5, <2>6 DEF Return, Goto
<1>5. CASE ServerStep
    BY <1>2, <1>3, <1>5 DEF ServerStep, HeldWasStored, ConsumerStep
<1>6. CASE \E h \in Handler : HandlerStep(h)
    BY <1>4, <1>6 DEF ConsumerStep, CommitStep
<1>. QED BY <1>5, <1>6 DEF ConsumerStep

LEMMA PipelineNextInv == PipelineInv /\ [Next]_vars => PipelineInv'
<1>. SUFFICES ASSUME PipelineInv, [Next]_vars PROVE PipelineInv'
    OBVIOUS
<1>1. ASSUME UNCHANGED <<hpc, hmsg>> PROVE HeldWasStored'
  <2>. SUFFICES ASSUME NEW h \in Handler, hpc[h] # "idle" PROVE hmsg[h][2] <= log'[hmsg[h][1]]
      BY <1>1 DEF HeldWasStored, Stored
  <2>1. hmsg[h] \in Msg /\ hmsg[h][1] \in Event /\ hmsg[h][2] \in Nat
      BY InHand, StreamConstants DEF PipelineInv, Msg
  <2>2. hmsg[h][2] <= log[hmsg[h][1]]
      BY DEF PipelineInv, HeldWasStored, Stored
  <2>. QED BY <2>1, <2>2, LogGrows
<1>2. CASE OutboxStep
  <2>1. OutboxInv' /\ RowFirst'
      BY <1>2, OutboxNextInv, OutboxRows DEF OutboxStep, PipelineInv
  <2>2. ConsumerInv'
      BY <1>2, <2>1, ConsumerUntouched DEF OutboxStep, PipelineInv, OutboxInv, OutboxTypeOK
  <2>. QED BY <1>1, <1>2, <2>1, <2>2 DEF OutboxStep, consumerOnly, PipelineInv
<1>3. CASE ConsumerStep
  <2>1. OutboxInv' /\ ConsumerInv'
      BY <1>3, ConsumerRows, OutboxUntouched, ConsumerNextInv
         DEF PipelineInv, ConsumerStep, ConsumerNext
  <2>2. HeldWasStored'
      BY <1>3, ConsumerRows DEF HeldWasStored, Stored
  <2>3. ASSUME NEW e \in Event, status[e] = "absent" PROVE e \notin processed' \cup dlq'
    <3>1. e \notin processed \cup dlq
        BY <2>3 DEF PipelineInv, RowFirst
    <3>2. \A h \in Handler : hpc[h] # "idle" => ev(h) # e
        BY <2>3, HeldHasRow
    <3>3. processed' = processed \/ \E h \in Handler : hpc[h] # "idle" /\ processed' = processed \cup {ev(h)}
        BY <1>3, ConsumerRows DEF ApplyCommit, CommitApply
    <3>4. \A f \in dlq' \ dlq : \E h \in Handler : hpc[h] # "idle" /\ ev(h) = f
        BY <1>3, ConsumerRows
    <3>. QED BY <3>1, <3>2, <3>3, <3>4
  <2>4. RowFirst'
      BY <1>3, <2>3, ConsumerRows DEF PipelineInv, RowFirst, outboxOnly
  <2>. QED BY <2>1, <2>2, <2>4 DEF PipelineInv
<1>4. ASSUME NEW e \in Event, ReplayStep(e) PROVE PipelineInv'
  <2>1. OutboxInv' /\ ConsumerInv'
      BY <1>4, OutboxUntouched, ConsumerNextInv DEF PipelineInv, ReplayStep, ConsumerNext
  <2>2. HeldWasStored'
      BY <1>1, <1>4 DEF ReplayStep, Replay, hndVars
  <2>3. e \in dlq /\ status[e] # "absent" /\ log' = [log EXCEPT ![e] = @ + 1]
      BY <1>4 DEF ReplayStep, Replay, PipelineInv, RowFirst
  <2>4. UNCHANGED <<processed, dlq, status, late, batch, cur>>
      BY <1>4 DEF ReplayStep, Replay, outboxOnly, dbVars
  <2>5. RowFirst'
      BY <2>3, <2>4 DEF PipelineInv, RowFirst, OutboxInv, OutboxTypeOK
  <2>. QED BY <2>1, <2>2, <2>5 DEF PipelineInv
<1>5. CASE UNCHANGED vars
  <2>1. OutboxInv' /\ ConsumerInv'
      BY <1>5, OutboxUntouched, ConsumerUntouched DEF vars, PipelineInv, OutboxInv, OutboxTypeOK
  <2>2. RowFirst' /\ HeldWasStored'
      BY <1>1, <1>5 DEF vars, outboxOnly, consumerOnly, PipelineInv, RowFirst
  <2>. QED BY <2>1, <2>2 DEF PipelineInv
<1>. QED BY <1>2, <1>3, <1>4, <1>5 DEF Next

\* The parts keep their invariants when they work on one stream, replays beside publishes
\* included, and nothing about an event exists before its row.
THEOREM PipelineInvariant == Spec => []PipelineInv
<1>. QED BY PipelineInitInv, PipelineNextInv, PTL DEF Spec

\* No accepted event disappears between the outbox and the consumer's tables: what the
\* outbox no longer owes is in the stream, applied or in the dead-letter stream
\* (processBatch, handleMessage, handleFailure).
THEOREM PipelineLosesNothing == Spec => []NoEventLost
<1>1. ASSUME PipelineInv PROVE NoEventLost
  <2>. SUFFICES ASSUME NEW e \in Event, status[e] \in {"sent", "purged"},
                       e \notin processed \cup dlq
                PROVE  \E k \in 1..log[e] : msg[<<e, k>>] \in {"ready", "pending", "discarded"}
      BY <1>1 DEF NoEventLost, PipelineInv, OutboxInv, OutboxTypeOK, Status
  <2>1. log[e] \in 1..MaxCopies
      BY <1>1, StreamConstants DEF PipelineInv, OutboxInv, OutboxTypeOK, SentWasStored
  <2>2. <<e, 1>> \in Msg
      BY StreamConstants DEF Msg
  <2>3. msg[<<e, 1>>] \in MsgState /\ msg[<<e, 1>>] \notin {"acked", "termed"}
      BY <1>1, <2>2 DEF PipelineInv, ConsumerInv, ConsumerTypeOK, SettledIsAccounted
  <2>. QED BY <2>1, <2>3 DEF MsgState
<1>. QED BY <1>1, PipelineInvariant, PTL

-----------------------------------------------------------------------------
(* The refinement of EventDelivery *)

\* Under the invariant an event has one of the three images.
LEMMA DeliveryImage ==
    ASSUME PipelineInv, NEW e \in Event
    PROVE  deliveryBar[e] = IF e \in processed THEN "applied"
                            ELSE IF status[e] = "absent" THEN "none" ELSE "accepted"
<1>1. effect[e] = IF e \in processed THEN 1 ELSE 0
    BY DEF PipelineInv, ConsumerInv, EffectExactlyOnce
<1>2. CASE e \in processed
    BY <1>1, <1>2 DEF deliveryBar
<1>3. CASE e \notin processed
  <2>1. effect[e] = 0 /\ ~(effect[e] = 1) /\ ~(effect[e] > 1)
      BY <1>1, <1>3
  <2>2. deliveryBar[e] = IF status[e] = "absent" THEN "none" ELSE "accepted"
      BY <2>1 DEF deliveryBar
  <2>. QED BY <1>3, <2>2
<1>. QED BY <1>2, <1>3

\* Every step of the pipeline is a step of EventDelivery or changes nothing it can see.
LEMMA DeliveryStep ==
    ASSUME PipelineInv, PipelineInv', [Next]_vars
    PROVE  [Delivery!Next]_deliveryBar
<1>. DEFINE Image(e, done, row) == IF e \in done THEN "applied"
                                   ELSE IF row = "absent" THEN "none" ELSE "accepted"
<1>1. \A e \in Event : deliveryBar[e] = Image(e, processed, status[e])
    BY DeliveryImage
<1>2. \A e \in Event : deliveryBar'[e] = Image(e, processed', status'[e])
  <2>. SUFFICES ASSUME NEW e \in Event PROVE deliveryBar'[e] = Image(e, processed', status'[e])
      OBVIOUS
  <2>1. effect'[e] = IF e \in processed' THEN 1 ELSE 0
      BY DEF PipelineInv, ConsumerInv, EffectExactlyOnce
  <2>2. CASE e \in processed'
      BY <2>1, <2>2 DEF deliveryBar
  <2>3. CASE e \notin processed'
    <3>1. effect'[e] = 0 /\ ~(effect'[e] = 1) /\ ~(effect'[e] > 1)
        BY <2>1, <2>3
    <3>2. deliveryBar'[e] = IF status'[e] = "absent" THEN "none" ELSE "accepted"
        BY <3>1 DEF deliveryBar
    <3>. QED BY <2>3, <3>2
  <2>. QED BY <2>2, <2>3
<1>3. /\ deliveryBar = [e \in Event |-> deliveryBar[e]]
      /\ deliveryBar' = [e \in Event |-> deliveryBar'[e]]
    BY DEF deliveryBar
<1>4. ASSUME NEW e \in Event, \A f \in Event \ {e} : deliveryBar'[f] = deliveryBar[f]
      PROVE  deliveryBar' = [deliveryBar EXCEPT ![e] = deliveryBar'[e]]
    BY <1>3, <1>4
<1>5. ASSUME \A e \in Event : deliveryBar'[e] = deliveryBar[e] PROVE deliveryBar' = deliveryBar
    BY <1>3, <1>5
<1>6. CASE OutboxStep
  <2>1. processed' = processed
      BY <1>6 DEF OutboxStep, consumerOnly
  <2>2. ASSUME NEW e \in Event, EnqueueTx(e) PROVE Delivery!Accept(e)
    <3>1. status[e] = "absent" /\ status' = [status EXCEPT ![e] = "pending"] /\ e \notin processed
        BY <2>2 DEF EnqueueTx, PipelineInv, RowFirst
    <3>2. deliveryBar[e] = "none" /\ deliveryBar'[e] = "accepted"
        BY <1>1, <1>2, <2>1, <3>1 DEF PipelineInv, OutboxInv, OutboxTypeOK
    <3>3. \A f \in Event \ {e} : deliveryBar'[f] = deliveryBar[f]
        BY <1>1, <1>2, <2>1, <3>1 DEF PipelineInv, OutboxInv, OutboxTypeOK
    <3>. QED BY <1>4, <3>2, <3>3 DEF Delivery!Accept
  <2>3. CASE \A e \in Event : status'[e] = "absent" <=> status[e] = "absent"
      BY <1>1, <1>2, <1>5, <2>1, <2>3
  <2>. QED BY <1>6, <2>2, <2>3, OutboxRows DEF Delivery!Next
<1>7. CASE ConsumerStep
  <2>1. status' = status
      BY <1>7 DEF ConsumerStep, outboxOnly
  <2>2. CASE processed' = processed
      BY <1>1, <1>2, <1>5, <2>1, <2>2
  <2>3. ASSUME NEW h \in Handler, NEW next \in {"refresh", "failure"}, ApplyCommit(h, next)
        PROVE  Delivery!Apply(ev(h))
    <3>1. ev(h) \in Event /\ status[ev(h)] # "absent" /\ ev(h) \notin processed
        BY <2>3, HeldHasRow DEF ApplyCommit, PipelineInv, ConsumerInv, ClaimExclusive
    <3>2. processed' = processed \cup {ev(h)}
        BY <2>3 DEF ApplyCommit, CommitApply
    <3>3. deliveryBar[ev(h)] = "accepted" /\ deliveryBar'[ev(h)] = "applied"
        BY <1>1, <1>2, <3>1, <3>2
    <3>4. \A f \in Event \ {ev(h)} : deliveryBar'[f] = deliveryBar[f]
        BY <1>1, <1>2, <2>1, <3>2
    <3>. QED BY <1>4, <3>1, <3>3, <3>4 DEF Delivery!Apply
  <2>4. \A h \in Handler, next \in {"refresh", "failure"} : ApplyCommit(h, next) => ev(h) \in Event
      BY HeldHasRow DEF ApplyCommit
  <2>. QED BY <1>7, <2>2, <2>3, <2>4, ConsumerRows DEF Delivery!Next
<1>8. CASE (\E e \in Event : ReplayStep(e)) \/ UNCHANGED vars
  <2>1. UNCHANGED <<status, processed>>
      BY <1>8 DEF ReplayStep, Replay, vars, outboxOnly, consumerOnly, dbVars
  <2>. QED BY <1>1, <1>2, <1>5, <2>1
<1>. QED BY <1>6, <1>7, <1>8 DEF Next

\* The pipeline implements EventDelivery: an event takes effect at most once, and only
\* after its row was committed, with any number of publishers, handlers, copies, replays,
\* crashes and lost answers.
THEOREM PipelineImplementsDelivery == Spec => ImplementsDelivery
<1>1. Init => Delivery!Init
    BY DEF Init, OutboxInit, ConsumerInit, Delivery!Init, deliveryBar
<1>2. PipelineInv /\ PipelineInv' /\ [Next]_vars => [Delivery!Next]_deliveryBar
    BY DeliveryStep
<1>. QED BY <1>1, <1>2, PipelineInvariant, PTL DEF Spec, ImplementsDelivery, Delivery!Spec
=============================================================================
