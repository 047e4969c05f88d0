-------------------------- MODULE VectorIndexProofs --------------------------
(***************************************************************************)
(* A completed vector index is exact, for any number of builders, chunks,  *)
(* batches, deletions and faults.                                          *)
(***************************************************************************)
EXTENDS VectorIndex, FiniteSetTheorems, WellFoundedInduction, TLAPS

\* A non-empty set of chunks has a last one.
LEMMA LastExists ==
    ASSUME NEW S \in SUBSET Chunk, S # {}
    PROVE  \E c \in S : \A d \in S : d <= c
<1>0. \A c \in S : c \in Nat /\ c <= NChunks
  BY VectorConstants DEF Chunk
<1> DEFINE T == {NChunks - c : c \in S}
<1>1. T \subseteq Nat /\ T # {}
  <2>1. NChunks \in Nat
    BY VectorConstants
  <2>2. \A c \in S : NChunks - c \in Nat
    BY <1>0, <2>1
  <2> QED BY <2>2
<1>2. PICK x \in T : \A y \in T : ~(<<y, x>> \in OpToRel(<, Nat))
  <2> HIDE DEF T
  <2> QED BY <1>1, NatLessThanWellFounded, WFMin, Zenon
<1>3. \A y \in T : ~(y < x)
  BY <1>1, <1>2, Zenon DEF OpToRel
<1>4. PICK c \in S : x = NChunks - c
  OBVIOUS
<1>5. \A d \in S : d <= c
  <2>1. \A d \in S : ~(NChunks - d < NChunks - c)
    BY <1>3, <1>4
  <2> QED BY <2>1, <1>0, VectorConstants
<1> QED BY <1>5

\* Last returns a member, or 0.
LEMMA LastType ==
    ASSUME NEW S \in SUBSET Chunk
    PROVE  Last(S) \in 0..NChunks
<1>1. CASE S = {}
  BY <1>1, VectorConstants DEF Last
<1>2. CASE S # {}
  <2>1. Last(S) \in S
    BY <1>2, LastExists DEF Last
  <2>2. Chunk \subseteq 0..NChunks
    BY VectorConstants DEF Chunk
  <2> QED BY <2>1, <2>2
<1> QED BY <1>1, <1>2

\* Sets of chunks are finite.
LEMMA CountType ==
    ASSUME NEW S \in SUBSET Chunk
    PROVE  Cardinality(S) \in Nat
<1>1. IsFiniteSet(Chunk)
  BY FS_Interval, VectorConstants DEF Chunk
<1> QED BY <1>1, FS_Subset, FS_CardinalityType

-----------------------------------------------------------------------------
\* The two observations of the collection, primed.
LEMMA Observations ==
    ASSUME TypeOK
    PROVE  /\ Present \in SUBSET Chunk /\ Good \in SUBSET Present
           /\ points' = points => Present' = Present /\ Good' = Good
BY DEF TypeOK, Present, Good, Point

LEMMA TypeInit == Init => TypeOK
<1> SUFFICES ASSUME Init PROVE TypeOK
  OBVIOUS
<1>1. 0 \in 0..NChunks /\ 0 \in 0..MaxDeletes /\ 0 \in 0..MaxFaults /\ 0 \in Nat
  BY VectorConstants
<1>2. /\ points \in [Chunk -> Point] /\ pc \in [Builder -> Control]
      /\ man \in [Builder -> SUBSET Chunk] /\ todo \in [Builder -> SUBSET Chunk]
      /\ after \in [Builder -> 0..NChunks] /\ count \in [Builder -> Nat]
  BY <1>1 DEF Init, Point, Control
<1> QED BY <1>1, <1>2 DEF Init, TypeOK, Status

\* Type correctness of the control row's statements.
LEMMA TypeRow ==
    ASSUME TypeOK, NEW b \in Builder,
           AcquireVectorIndex(b) \/ LeaseExpires \/ SaveVectorIndexCheckpoint(b)
             \/ CompleteVectorIndex(b) \/ MarkVectorIndexFailed(b)
    PROVE  TypeOK'
<1> USE VectorConstants DEF TypeOK, Status, Control, Goto, envVars, storeVars, builderVars, touchVars
<1>1. CASE AcquireVectorIndex(b)
  BY <1>1 DEF AcquireVectorIndex
<1>2. CASE LeaseExpires
  BY <1>2 DEF LeaseExpires, Fault
<1>3. CASE SaveVectorIndexCheckpoint(b)
  BY <1>3 DEF SaveVectorIndexCheckpoint, AfterSave
<1>4. CASE CompleteVectorIndex(b)
  <2>1. man[b] \in SUBSET Chunk
    OBVIOUS
  <2>2. /\ status' \in Status /\ lease' \in Builder \cup {None} /\ expired' \in BOOLEAN
        /\ indexed' \in SUBSET Chunk /\ pc' \in [Builder -> Control]
    <3>1. CASE Holds(b) /\ ckPoints = count[b]
      BY <1>4, <2>1, <3>1 DEF CompleteVectorIndex
    <3>2. CASE ~(Holds(b) /\ ckPoints = count[b])
      BY <1>4, <3>2 DEF CompleteVectorIndex
    <3> QED BY <3>1, <3>2
  <2> QED BY <1>4, <2>2 DEF CompleteVectorIndex
<1>5. CASE MarkVectorIndexFailed(b)
  BY <1>5 DEF MarkVectorIndexFailed
<1> QED BY <1>1, <1>2, <1>3, <1>4, <1>5

\* Type correctness of the steps that prepare the collection.
LEMMA TypePrepare ==
    ASSUME TypeOK, NEW b \in Builder, Prepare(b)
    PROVE  TypeOK'
<1> USE VectorConstants DEF TypeOK, Control, Goto, envVars, storeVars, rowVars, touchVars
<1>0. Present \in SUBSET Chunk
  BY Observations
<1>1. CASE ListVectorManifest(b)
  BY <1>1 DEF ListVectorManifest
<1>2. CASE DropCollection(b)
  <2>1. points' \in [Chunk -> Point]
    BY <1>2 DEF DropCollection, Point
  <2>2. after' \in [Builder -> 0..NChunks] /\ count' \in [Builder -> Nat]
    BY <1>2 DEF DropCollection
  <2> QED BY <1>2, <2>1, <2>2 DEF DropCollection, Touch
<1>3. CASE CreateCollection(b)
  BY <1>3 DEF CreateCollection, Touch
<1>4. CASE Inspect(b)
  <2> DEFINE kept == Rewind(man[b], after[b])
  <2>1. kept \in SUBSET Chunk
    BY DEF Rewind
  <2>2. Last(kept) \in 0..NChunks /\ Cardinality(kept) \in Nat
    BY <2>1, LastType, CountType
  <2> HIDE DEF kept
  <2>3. todo' \in [Builder -> SUBSET Chunk]
    BY <1>0, <1>4 DEF Inspect
  <2>4. after' \in [Builder -> 0..NChunks] /\ count' \in [Builder -> Nat]
    BY <2>2, <1>4 DEF Inspect, kept
  <2> QED BY <2>3, <2>4, <1>4 DEF Inspect
<1>5. CASE DeletePoints(b)
  BY <1>5 DEF DeletePoints, AfterDelete, Touch, Point
<1> QED BY <1>1, <1>2, <1>3, <1>4, <1>5 DEF Prepare

\* Type correctness of the batches, the audit and the failures.
LEMMA TypeBuild ==
    ASSUME TypeOK, NEW b \in Builder,
           ListVectorChunks(b) \/ Upsert(b) \/ AuditWithManifest(b) \/ Fail(b) \/ Crash(b)
    PROVE  TypeOK'
<1> USE VectorConstants DEF TypeOK, Control, Goto, envVars, storeVars, rowVars, touchVars
<1>1. CASE ListVectorChunks(b)
  <2>1. Batch(after[b]) \in SUBSET Chunk
    BY DEF Batch
  <2> QED BY <1>1, <2>1 DEF ListVectorChunks
<1>2. CASE Upsert(b)
  <2>1. Last(todo[b]) \in 0..NChunks /\ Cardinality(todo[b]) \in Nat
    BY LastType, CountType
  <2>2. points' \in [Chunk -> Point]
    BY <1>2 DEF Upsert, Point
  <2>3. after' \in [Builder -> 0..NChunks] /\ count' \in [Builder -> Nat]
    BY <1>2, <2>1 DEF Upsert
  <2> QED BY <1>2, <2>2, <2>3 DEF Upsert, Touch
<1>3. CASE AuditWithManifest(b)
  <2>1. todo' \in [Builder -> SUBSET Chunk]
    BY <1>3, Observations DEF AuditWithManifest
  <2>2. pc' \in [Builder -> Control]
    BY <1>3 DEF AuditWithManifest
  <2> QED BY <1>3, <2>1, <2>2 DEF AuditWithManifest
<1>4. CASE Fail(b)
  BY <1>4 DEF Fail, Fault
<1>5. CASE Crash(b)
  BY <1>5 DEF Crash, Fault
<1> QED BY <1>1, <1>2, <1>3, <1>4, <1>5

\* Type correctness of the rest of the system.
LEMMA TypeEnvironment ==
    ASSUME TypeOK, AuditOrphans \/ RepairOrphans \/ (\E c \in Chunk : DeleteSource(c))
                     \/ (\E c \in Chunk, p \in {"absent", "stale"} : Damage(c, p))
    PROVE  TypeOK'
<1> USE VectorConstants DEF TypeOK, envVars, storeVars, rowVars, builderVars, touchVars
<1>1. CASE AuditOrphans
  BY <1>1, Observations DEF AuditOrphans
<1>2. CASE RepairOrphans
  BY <1>2 DEF RepairOrphans, TouchFromOutside, Point
<1>3. ASSUME NEW c \in Chunk, DeleteSource(c) PROVE TypeOK'
  BY <1>3 DEF DeleteSource
<1>4. ASSUME NEW c \in Chunk, NEW p \in {"absent", "stale"}, Damage(c, p) PROVE TypeOK'
  BY <1>4 DEF Damage, TouchFromOutside, Fault, Point
<1> QED BY <1>1, <1>2, <1>3, <1>4

LEMMA TypeNext ==
    ASSUME TypeOK, [Next]_vars
    PROVE  TypeOK'
<1>1. CASE UNCHANGED vars
  BY <1>1 DEF TypeOK, vars, rowVars, storeVars, builderVars, envVars, touchVars
<1>2. CASE EnvironmentStep
  <2>1. CASE LeaseExpires
    <3>1. CASE Builder = {}
      BY <2>1, <3>1 DEF LeaseExpires, TypeOK
    <3>2. CASE Builder # {}
      BY <2>1, <3>2, TypeRow
    <3> QED BY <3>1, <3>2
  <2> QED BY <1>2, <2>1, TypeEnvironment DEF EnvironmentStep
<1>3. ASSUME NEW b \in Builder, BuilderStep(b) PROVE TypeOK'
  BY <1>3, TypeRow, TypePrepare, TypeBuild DEF BuilderStep, Progress
<1> QED BY <1>1, <1>2, <1>3 DEF Next

-----------------------------------------------------------------------------
\* What VectorInv says of the builder that holds the lease.
AuditedBy(b) ==
    lease = b /\ pc[b] \in {"prune", "final", "complete"} =>
        /\ audited \in {b, None}
        /\ audited = b =>
            /\ exists
            /\ man[b] \subseteq Good
            /\ Present \ man[b] = IF pc[b] = "prune" THEN todo[b] ELSE {}

\* What it says of a completed index.
Finished ==
    status = "completed" =>
        /\ lease = None
        /\ audited # None => pc[audited] = "idle"

LEMMA Parts == VectorInv <=> TypeOK /\ (\A b \in Builder : AuditedBy(b)) /\ Finished /\ CompletedExact
BY DEF VectorInv, AuditedBy, Finished

\* A step that leaves the collection, the audit and the row alone and takes b to a
\* control point before the audit or after the failure.
LEMMA Elsewhere ==
    ASSUME VectorInv, NEW b \in Builder, TypeOK',
           NEW next \in Control \ {"prune", "final", "complete"},
           pc[b] # "idle", Goto(b, next),
           UNCHANGED <<status, lease, indexed, exists, points, touchVars>>,
           \A c \in Builder \ {b} : man'[c] = man[c] /\ todo'[c] = todo[c]
    PROVE  VectorInv'
<1>0. UNCHANGED <<Present, Good>>
  BY Observations, Parts
<1>1. ASSUME NEW c \in Builder PROVE AuditedBy(c)'
  <2>1. CASE c = b
    BY <2>1, Parts DEF AuditedBy, Goto, TypeOK
  <2>2. CASE c # b
    <3>1. pc'[c] = pc[c] /\ man'[c] = man[c] /\ todo'[c] = todo[c]
      BY <2>2 DEF Goto, VectorInv, TypeOK
    <3> QED BY <1>0, <3>1, Parts DEF AuditedBy, touchVars
  <2> QED BY <2>1, <2>2
<1>2. Finished'
  BY Parts DEF Finished, Goto, TypeOK, touchVars
<1>3. CompletedExact'
  BY <1>0, Parts DEF CompletedExact, touchVars
<1> QED BY <1>1, <1>2, <1>3, Parts DEF VectorInv, AuditedBy, Finished

\* A builder's call that changes the collection before its audit: whoever was
\* audited before is not any more, unless it is the caller itself.
LEMMA Touched ==
    ASSUME VectorInv, NEW b \in Builder, TypeOK',
           NEW next \in Control \ {"prune", "final", "complete"},
           pc[b] # "idle", Goto(b, next), Touch(b),
           UNCHANGED <<status, lease, indexed, man, todo>>
    PROVE  VectorInv'
<1>1. ASSUME NEW c \in Builder PROVE AuditedBy(c)'
  <2>1. CASE c = b
    BY <2>1, Parts DEF AuditedBy, Goto, TypeOK
  <2>2. CASE c # b
    <3>1. pc'[c] = pc[c]
      BY <2>2 DEF Goto, VectorInv, TypeOK
    <3>2. lease' = c /\ pc'[c] \in {"prune", "final", "complete"} => audited' = None
      BY <2>2, <3>1, Parts DEF AuditedBy, Touch
    <3>3. None \notin Builder
      BY VectorConstants
    <3> QED BY <3>2, <3>3 DEF AuditedBy
  <2> QED BY <2>1, <2>2
<1>2. status = "completed" => audited # b
  BY Parts, VectorConstants DEF Finished
<1>3. status' = "completed" => audited' = None
  BY <1>2 DEF Touch
<1>4. Finished'
  BY <1>3, Parts DEF Finished
<1>5. CompletedExact'
  BY <1>3 DEF CompletedExact
<1> QED BY <1>1, <1>4, <1>5, Parts DEF VectorInv, AuditedBy, Finished

\* Something else changes the collection.
LEMMA TouchedFromOutside ==
    ASSUME VectorInv, TypeOK', TouchFromOutside,
           UNCHANGED <<status, lease, pc>>
    PROVE  VectorInv'
<1>1. ASSUME NEW c \in Builder PROVE AuditedBy(c)'
  BY VectorConstants DEF AuditedBy, TouchFromOutside
<1>2. Finished' /\ CompletedExact'
  BY Parts DEF Finished, CompletedExact, TouchFromOutside
<1> QED BY <1>1, <1>2 DEF VectorInv, AuditedBy, Finished

\* Nothing the invariant speaks of changes, except that a lease is lost for good.
LEMMA Untouched ==
    ASSUME VectorInv, TypeOK',
           UNCHANGED <<status, lease, indexed, exists, points, touchVars, pc, man, todo>>
    PROVE  VectorInv'
<1>0. UNCHANGED <<Present, Good>>
  BY Observations, Parts
<1>1. ASSUME NEW c \in Builder PROVE AuditedBy(c)'
  BY <1>0, Parts DEF AuditedBy, touchVars
<1>2. Finished' /\ CompletedExact'
  BY <1>0, Parts DEF Finished, CompletedExact, touchVars
<1> QED BY <1>1, <1>2 DEF VectorInv, AuditedBy, Finished

-----------------------------------------------------------------------------
\* The statements on the control row preserve the invariant.
LEMMA InvRow ==
    ASSUME VectorInv, TypeOK', NEW b \in Builder,
           AcquireVectorIndex(b) \/ SaveVectorIndexCheckpoint(b)
             \/ CompleteVectorIndex(b) \/ MarkVectorIndexFailed(b)
    PROVE  VectorInv'
<1>0. None \notin Builder /\ TypeOK
  BY VectorConstants, Parts
<1>1. CASE AcquireVectorIndex(b)
  <2>1. ASSUME NEW c \in Builder PROVE AuditedBy(c)'
    BY <1>0, <1>1 DEF AcquireVectorIndex, AuditedBy, Goto, TypeOK
  <2>2. Finished' /\ CompletedExact'
    BY <1>1 DEF AcquireVectorIndex, Finished, CompletedExact
  <2> QED BY <2>1, <2>2 DEF VectorInv, AuditedBy, Finished
<1>2. CASE SaveVectorIndexCheckpoint(b)
  <2>0. /\ UNCHANGED <<status, lease, indexed, exists, points, touchVars, man, todo>>
        /\ pc[b] \in {"resume", "save", "final"}
    BY <1>2 DEF SaveVectorIndexCheckpoint, storeVars, AfterSave
  <2>1. CASE Holds(b) /\ pc[b] = "final"
    <3>0. Goto(b, "complete")
      BY <1>2, <2>1 DEF SaveVectorIndexCheckpoint, AfterSave
    <3>1. UNCHANGED <<Present, Good>>
      BY <1>0, <2>0, Observations
    <3>2. ASSUME NEW c \in Builder PROVE AuditedBy(c)'
      <4>1. CASE c = b
        BY <1>0, <2>0, <2>1, <3>0, <3>1, <4>1, Parts DEF AuditedBy, Goto, TypeOK, touchVars
      <4>2. CASE c # b
        BY <1>0, <2>0, <2>1, <4>2 DEF AuditedBy, Holds
      <4> QED BY <4>1, <4>2
    <3>3. Finished' /\ CompletedExact'
      BY <2>0, <2>1 DEF Finished, CompletedExact, Holds
    <3> QED BY <3>2, <3>3 DEF VectorInv, AuditedBy, Finished
  <2>2. CASE Holds(b) /\ pc[b] # "final"
    <3>1. Goto(b, "list")
      BY <1>2, <2>0, <2>2 DEF SaveVectorIndexCheckpoint, AfterSave
    <3> QED BY <2>0, <3>1, Elsewhere DEF Control
  <2>3. CASE ~Holds(b)
    <3>1. Goto(b, "failing")
      BY <1>2, <2>3 DEF SaveVectorIndexCheckpoint
    <3> QED BY <2>0, <3>1, Elsewhere DEF Control
  <2> QED BY <2>1, <2>2, <2>3
<1>3. CASE CompleteVectorIndex(b)
  <2>0. /\ UNCHANGED <<exists, points, touchVars, man, todo>>
        /\ pc[b] = "complete"
    BY <1>3 DEF CompleteVectorIndex, storeVars
  <2>1. CASE Holds(b) /\ ckPoints = count[b]
    <3>0. status' = "completed" /\ lease' = None /\ indexed' = man[b] /\ Goto(b, "idle")
      BY <1>3, <2>1 DEF CompleteVectorIndex
    <3>1. UNCHANGED <<Present, Good>> /\ Good \in SUBSET Present
      BY <1>0, <2>0, Observations
    <3>2. /\ audited \in {b, None}
          /\ audited = b => exists /\ man[b] \subseteq Good /\ Present \ man[b] = {}
      BY <2>0, <2>1, Parts DEF AuditedBy, Holds
    <3>3. ASSUME NEW c \in Builder PROVE AuditedBy(c)'
      BY <1>0, <3>0 DEF AuditedBy
    <3>4. Finished'
      BY <1>0, <2>0, <3>0, <3>2 DEF Finished, Goto, TypeOK, touchVars
    <3>5. CompletedExact'
      <4>1. audited # None => Present = man[b] /\ Good = man[b] /\ exists
        BY <3>1, <3>2
      <4> QED BY <2>0, <3>0, <3>1, <4>1 DEF CompletedExact, touchVars
    <3> QED BY <3>3, <3>4, <3>5 DEF VectorInv, AuditedBy, Finished
  <2>2. CASE ~(Holds(b) /\ ckPoints = count[b])
    <3>1. Goto(b, "failing") /\ UNCHANGED <<status, lease, indexed>>
      BY <1>3, <2>2 DEF CompleteVectorIndex
    <3> QED BY <2>0, <3>1, Elsewhere DEF Control
  <2> QED BY <2>1, <2>2
<1>4. CASE MarkVectorIndexFailed(b)
  <2>0. /\ UNCHANGED <<indexed, exists, points, touchVars, man, todo>>
        /\ pc[b] = "failing" /\ Goto(b, "idle")
    BY <1>4 DEF MarkVectorIndexFailed, storeVars
  <2>1. CASE status = "building" /\ lease = b
    <3>1. status' = "failed" /\ lease' = None
      BY <1>4, <2>1 DEF MarkVectorIndexFailed
    <3> QED BY <1>0, <3>1 DEF VectorInv, CompletedExact
  <2>2. CASE ~(status = "building" /\ lease = b)
    <3>1. UNCHANGED <<status, lease>>
      BY <1>4, <2>2 DEF MarkVectorIndexFailed
    <3> QED BY <2>0, <3>1, Elsewhere DEF Control
  <2> QED BY <2>1, <2>2
<1> QED BY <1>1, <1>2, <1>3, <1>4

\* Pruning leaves the audited collection exact.
LEMMA InvPrune ==
    ASSUME VectorInv, TypeOK', NEW b \in Builder, DeletePoints(b), exists, pc[b] = "prune"
    PROVE  VectorInv'
<1>0. None \notin Builder /\ TypeOK
  BY VectorConstants, Parts
<1>1. /\ UNCHANGED <<status, lease, indexed, exists, man, todo>>
      /\ points' = [c \in Chunk |-> IF c \in todo[b] THEN "absent" ELSE points[c]]
      /\ Touch(b) /\ Goto(b, "final")
  BY DEF DeletePoints, AfterDelete, rowVars
<1>2. Present' = Present \ todo[b] /\ Good' = Good \ todo[b]
  BY <1>0, <1>1 DEF Present, Good, TypeOK
<1>3. ASSUME NEW c \in Builder PROVE AuditedBy(c)'
  <2>1. CASE c = b
    <3>1. pc'[b] = "final"
      BY <1>0, <1>1 DEF Goto, TypeOK
    <3>2. lease = b => audited \in {b, None} /\ audited' = audited
      BY <1>0, <1>1, Parts DEF AuditedBy, Touch
    <3>3. lease = b /\ audited = b => man[b] \subseteq Good /\ Present \ man[b] = todo[b]
      BY Parts DEF AuditedBy
    <3>4. lease = b /\ audited = b => man[b] \subseteq Good' /\ Present' \ man[b] = {}
      BY <1>2, <3>3
    <3> QED BY <1>1, <2>1, <3>1, <3>2, <3>4 DEF AuditedBy
  <2>2. CASE c # b
    <3>1. pc'[c] = pc[c]
      BY <1>0, <1>1, <2>2 DEF Goto, TypeOK
    <3>2. lease' = c /\ pc'[c] \in {"prune", "final", "complete"} => audited' = None
      BY <1>1, <2>2, <3>1, Parts DEF AuditedBy, Touch
    <3> QED BY <1>0, <3>2 DEF AuditedBy
  <2> QED BY <2>1, <2>2
<1>4. status' = "completed" => audited' = None
  BY <1>0, <1>1, Parts DEF Finished, Touch
<1>5. Finished' /\ CompletedExact'
  BY <1>1, <1>4, Parts DEF Finished, CompletedExact
<1> QED BY <1>3, <1>5 DEF VectorInv, AuditedBy, Finished

\* The audit establishes it.
LEMMA InvAudit ==
    ASSUME VectorInv, TypeOK', NEW b \in Builder, AuditWithManifest(b)
    PROVE  VectorInv'
<1>0. None \notin Builder /\ TypeOK
  BY VectorConstants, Parts
<1> DEFINE orphans == Present \ man[b]
           exact == exists /\ man[b] \subseteq Good /\ Cardinality(man[b]) = count[b]
           next == CASE orphans = {} /\ exact -> "final"
                     [] orphans = {} /\ ~exact -> "failing"
                     [] orphans # {} /\ exact -> "prune"
                     [] orphans # {} /\ ~exact -> "pruneAndFail"
<1>1. /\ UNCHANGED <<status, lease, indexed, exists, points, man>>
      /\ audited' = IF lease = b THEN b ELSE audited
      /\ todo' = [todo EXCEPT ![b] = orphans]
      /\ Goto(b, next) /\ pc[b] = "audit"
  BY DEF AuditWithManifest, rowVars, storeVars
<1>2. UNCHANGED <<Present, Good>>
  BY <1>0, <1>1, Observations
<1>3. ASSUME NEW c \in Builder PROVE AuditedBy(c)'
  <2>1. CASE c = b
    <3>1. pc'[b] = next /\ todo'[b] = orphans
      BY <1>0, <1>1 DEF Goto, TypeOK
    <3>2. next \in {"prune", "final", "complete"} => exact /\ (next # "prune" => orphans = {})
      OBVIOUS
    <3> HIDE DEF next
    <3> QED BY <1>1, <1>2, <2>1, <3>1, <3>2 DEF AuditedBy
  <2>2. CASE c # b
    <3>1. pc'[c] = pc[c] /\ todo'[c] = todo[c]
      BY <1>0, <1>1, <2>2 DEF Goto, TypeOK
    <3>2. lease = c => audited' = audited
      BY <1>1, <2>2
    <3> QED BY <1>1, <1>2, <3>1, <3>2, Parts DEF AuditedBy
  <2> QED BY <2>1, <2>2
<1>4. status = "completed" => lease = None /\ audited' = audited /\ audited # b
  BY <1>0, <1>1, Parts DEF Finished
<1>5. Finished'
  BY <1>0, <1>1, <1>4, Parts DEF Finished, Goto, TypeOK
<1>6. CompletedExact'
  BY <1>1, <1>2, <1>4, Parts DEF CompletedExact
<1> QED BY <1>3, <1>5, <1>6 DEF VectorInv, AuditedBy, Finished

\* The other steps of a builder.
LEMMA InvBuild ==
    ASSUME VectorInv, TypeOK', NEW b \in Builder,
           Prepare(b) \/ ListVectorChunks(b) \/ Upsert(b) \/ Fail(b) \/ Crash(b)
    PROVE  VectorInv'
<1> USE DEF Control, rowVars, storeVars
<1>0. TypeOK
  BY Parts
<1>1. CASE ListVectorManifest(b)
  <2>1. PICK next \in {"failing", "drop", "inspect"} : Goto(b, next)
    BY <1>1 DEF ListVectorManifest
  <2> QED BY <1>0, <1>1, <2>1, Elsewhere DEF ListVectorManifest, TypeOK
<1>2. CASE DropCollection(b)
  BY <1>2, Touched DEF DropCollection
<1>3. CASE CreateCollection(b)
  <2>1. CASE exists
    BY <1>0, <1>3, <2>1, Elsewhere DEF CreateCollection, TypeOK
  <2>2. CASE ~exists
    BY <1>3, <2>2, Touched DEF CreateCollection
  <2> QED BY <2>1, <2>2
<1>4. CASE Inspect(b)
  <2>1. PICK next \in {"resume", "delete", "drop"} : Goto(b, next)
    BY <1>4 DEF Inspect
  <2>2. \A c \in Builder \ {b} : todo'[c] = todo[c]
    BY <1>0, <1>4 DEF Inspect, TypeOK
  <2>3. UNCHANGED <<status, lease, indexed, exists, points, touchVars, man>> /\ pc[b] # "idle"
    BY <1>4 DEF Inspect
  <2> QED BY <2>1, <2>2, <2>3, Elsewhere
<1>5. CASE DeletePoints(b)
  <2>1. CASE ~exists
    BY <1>5, <2>1, Elsewhere DEF DeletePoints, AfterDelete
  <2>2. CASE exists /\ pc[b] = "prune"
    BY <1>5, <2>2, InvPrune
  <2>3. CASE exists /\ pc[b] # "prune"
    <3>1. PICK next \in {"resume", "failing"} : Goto(b, next)
      BY <1>5, <2>3 DEF DeletePoints, AfterDelete
    <3> QED BY <1>5, <2>3, <3>1, Touched DEF DeletePoints, AfterDelete
  <2> QED BY <2>1, <2>2, <2>3
<1>6. CASE ListVectorChunks(b)
  <2>1. PICK next \in {"audit", "upsert"} : Goto(b, next)
    BY <1>6 DEF ListVectorChunks
  <2> QED BY <1>0, <1>6, <2>1, Elsewhere DEF ListVectorChunks, TypeOK
<1>7. CASE Upsert(b)
  <2>1. CASE exists
    BY <1>7, <2>1, Touched DEF Upsert
  <2>2. CASE ~exists
    BY <1>7, <2>2, Elsewhere DEF Upsert
  <2> QED BY <2>1, <2>2
<1>8. CASE Fail(b)
  BY <1>8, Elsewhere DEF Fail
<1>9. CASE Crash(b)
  BY <1>9, Elsewhere DEF Crash
<1> QED BY <1>1, <1>2, <1>3, <1>4, <1>5, <1>6, <1>7, <1>8, <1>9 DEF Prepare

-----------------------------------------------------------------------------
LEMMA InvInit == Init => VectorInv
<1> SUFFICES ASSUME Init PROVE VectorInv
  OBVIOUS
<1>1. TypeOK
  BY TypeInit
<1>2. status = "failed" /\ lease = None /\ None \notin Builder
  BY VectorConstants DEF Init
<1> QED BY <1>1, <1>2 DEF VectorInv, CompletedExact

LEMMA InvNext ==
    ASSUME VectorInv, [Next]_vars
    PROVE  VectorInv'
<1>0. TypeOK'
  BY TypeNext, Parts
<1>1. CASE UNCHANGED vars
  BY <1>0, <1>1, Untouched DEF vars, rowVars, storeVars, builderVars
<1>2. CASE EnvironmentStep
  <2>1. CASE LeaseExpires
    BY <1>0, <2>1, Untouched DEF LeaseExpires, storeVars, builderVars
  <2>2. CASE AuditOrphans
    BY <1>0, <2>2, Untouched DEF AuditOrphans, rowVars, storeVars, builderVars
  <2>3. CASE RepairOrphans
    BY <1>0, <2>3, TouchedFromOutside DEF RepairOrphans, rowVars, builderVars
  <2>4. ASSUME NEW c \in Chunk, DeleteSource(c) PROVE VectorInv'
    BY <1>0, <2>4, Untouched DEF DeleteSource, rowVars, storeVars, builderVars
  <2>5. ASSUME NEW c \in Chunk, NEW p \in {"absent", "stale"}, Damage(c, p) PROVE VectorInv'
    BY <1>0, <2>5, TouchedFromOutside DEF Damage, rowVars, builderVars
  <2> QED BY <1>2, <2>1, <2>2, <2>3, <2>4, <2>5 DEF EnvironmentStep
<1>3. ASSUME NEW b \in Builder, BuilderStep(b) PROVE VectorInv'
  BY <1>0, <1>3, InvRow, InvAudit, InvBuild DEF BuilderStep, Progress
<1> QED BY <1>1, <1>2, <1>3 DEF Next

\* VectorInv: leases, audits and completions of any number of builders keep to it,
\* whatever fails, crashes, expires or is damaged in between.
THEOREM VectorInvariant == Spec => []VectorInv
<1>1. Init => VectorInv
  BY InvInit
<1>2. VectorInv /\ [Next]_vars => VectorInv'
  BY InvNext
<1> QED BY <1>1, <1>2, PTL DEF Spec

\* A completed index has exactly the points of its manifest until something other
\* than its builder touches the collection after the audit (Build, auditWithManifest,
\* CompleteVectorIndex).
THEOREM CompletedIndexExact == Spec => []CompletedExact
<1>1. VectorInv => CompletedExact
  BY Parts
<1> QED BY <1>1, VectorInvariant, PTL

-----------------------------------------------------------------------------
(* The checkpoint is durable *)

\* The parts of DurableInv: the manifest covers what is eligible, a batch has no holes,
\* and where the lease holder stands.
Listed(b) == pc[b] \notin {"idle", "manifest", "failing"} => eligible \subseteq man[b]

Contiguous(b) ==
    pc[b] = "upsert" => \A c \in eligible : after[b] < c /\ c <= Last(todo[b]) => c \in todo[b]

Standing(b) ==
    lease = b /\ pc[b] # "idle" /\ ~outside =>
        /\ pc[b] = "manifest" => after[b] = ckChunk
        /\ pc[b] = "drop" => \A c \in eligible : ckChunk < c
        /\ pc[b] \in {"delete", "prune", "pruneAndFail"} => todo[b] \cap eligible \cap Good = {}
        /\ \A c \in eligible : c <= after[b] => points[c] = "good"

LEMMA DurableParts ==
    DurableInv <=> /\ ~exists => Present = {}
                   /\ \A b \in Builder : Listed(b) /\ Contiguous(b) /\ Standing(b)
                   /\ CheckpointDurable
BY DEF DurableInv, Listed, Contiguous, Standing, AfterDelete

LEMMA DurablePartsNext ==
    ASSUME ~exists' => Present' = {},
           \A b \in Builder : Listed(b)' /\ Contiguous(b)' /\ Standing(b)',
           CheckpointDurable'
    PROVE  DurableInv'
BY DEF DurableInv, Listed, Contiguous, Standing, AfterDelete

\* A step of b that leaves the others where they are: what the others stand on is not
\* changed without b holding the lease, or the touch is recorded.
LEMMA DurableStep ==
    ASSUME TypeOK, TypeOK', DurableInv, NEW b \in Builder,
           \A c \in Builder \ {b} : /\ pc'[c] = pc[c] /\ man'[c] = man[c]
                                    /\ after'[c] = after[c] /\ todo'[c] = todo[c],
           eligible' = eligible, lease' \in {lease, b, None}, outside => outside',
           points' = points \/ (lease # b => outside'), ckChunk' = ckChunk \/ lease = b,
           ~exists' => Present' = {},
           Listed(b)', Contiguous(b)', Standing(b)', CheckpointDurable'
    PROVE  DurableInv'
<1>1. ASSUME NEW c \in Builder, c # b PROVE Listed(c)' /\ Contiguous(c)' /\ Standing(c)'
  <2>1. Listed(c) /\ Contiguous(c) /\ Standing(c)
    BY DurableParts
  <2>2. Listed(c)' /\ Contiguous(c)'
    BY <1>1, <2>1 DEF Listed, Contiguous, Last
  <2>3. ASSUME lease' = c, pc'[c] # "idle", ~outside'
        PROVE  lease = c /\ points' = points /\ Good' = Good /\ ckChunk' = ckChunk /\ ~outside
    <3>1. lease = c /\ lease # b
      BY <1>1, <2>3, VectorConstants
    <3> QED BY <2>3, <3>1, Observations DEF TypeOK
  <2>4. Standing(c)'
    BY <1>1, <2>1, <2>3 DEF Standing
  <2> QED BY <2>2, <2>4
<1> QED BY <1>1, DurablePartsNext

\* The points up to the last of Rewind are good.
LEMMA RewindGood ==
    ASSUME NEW S \in SUBSET Chunk, NEW c \in 0..NChunks, NEW d \in S, d <= Last(Rewind(S, c))
    PROVE  d \in Good
<1>0. \A e \in S : e \in Nat /\ e > 0
  BY VectorConstants DEF Chunk
<1>1. Rewind(S, c) \in SUBSET Chunk /\ Rewind(S, c) \in SUBSET S
  BY DEF Rewind
<1>2. Rewind(S, c) # {}
  BY <1>0 DEF Last
<1>3. Last(Rewind(S, c)) \in Rewind(S, c)
  BY <1>1, <1>2, LastExists DEF Last
<1>4. /\ Last(Rewind(S, c)) \in Nat /\ Last(Rewind(S, c)) <= c
      /\ \A g \in S : g <= c /\ g \notin Good => Last(Rewind(S, c)) < g
  <2> DEFINE x == Last(Rewind(S, c))
  <2>1. x \in Rewind(S, c) /\ x \in Nat
    BY <1>0, <1>1, <1>3
  <2> HIDE DEF x
  <2>2. x <= c /\ \A g \in S : g <= c /\ g \notin Good => x < g
    BY <2>1 DEF Rewind
  <2> QED BY <2>1, <2>2 DEF x
<1>5. d <= c
  BY <1>0, <1>4, VectorConstants
<1> QED BY <1>0, <1>4, <1>5

\* A batch has no holes.
LEMMA BatchContiguous ==
    ASSUME TypeOK, NEW a \in 0..NChunks, Batch(a) # {},
           NEW c \in eligible, a < c, c <= Last(Batch(a))
    PROVE  c \in Batch(a)
<1> DEFINE x == Last(Batch(a))
           upTo(y) == {d \in eligible : a < d /\ d <= y}
<1>0. eligible \in SUBSET Chunk /\ \A e \in eligible : e \in Nat
  BY VectorConstants DEF TypeOK, Chunk
<1>1. Batch(a) \in SUBSET Chunk
  BY <1>0 DEF Batch
<1>2. x \in Batch(a)
  BY <1>1, LastExists DEF Last
<1>3. x \in eligible /\ Cardinality(upTo(x)) <= BatchSize
  BY <1>2 DEF Batch
<1>4. upTo(c) \in SUBSET upTo(x) /\ upTo(x) \in SUBSET Chunk /\ upTo(c) \in SUBSET Chunk
  BY <1>0, <1>3
<1>5. IsFiniteSet(upTo(x))
  <2>1. IsFiniteSet(Chunk)
    BY FS_Interval, VectorConstants DEF Chunk
  <2> HIDE DEF upTo, x
  <2> QED BY <1>4, <2>1, FS_Subset
<1>6. Cardinality(upTo(c)) <= BatchSize
  <2> HIDE DEF upTo, x
  <2>1. Cardinality(upTo(c)) \in Nat /\ Cardinality(upTo(x)) \in Nat
    BY <1>4, CountType
  <2>2. Cardinality(upTo(c)) <= Cardinality(upTo(x))
    BY <1>4, <1>5, FS_Subset
  <2> QED BY <1>3, <2>1, <2>2, VectorConstants
<1> QED BY <1>6 DEF Batch

\* The statements on the control row.
LEMMA DurableRow ==
    ASSUME TypeOK, TypeOK', DurableInv, NEW b \in Builder,
           AcquireVectorIndex(b) \/ SaveVectorIndexCheckpoint(b)
             \/ CompleteVectorIndex(b) \/ MarkVectorIndexFailed(b)
    PROVE  DurableInv'
<1>0. Listed(b) /\ Contiguous(b) /\ Standing(b) /\ CheckpointDurable /\ (~exists => Present = {})
  BY DurableParts
<1>n. None \notin Builder
  BY VectorConstants
<1>1. /\ \A c \in Builder \ {b} : /\ pc'[c] = pc[c] /\ man'[c] = man[c]
                                   /\ after'[c] = after[c] /\ todo'[c] = todo[c]
      /\ UNCHANGED <<eligible, outside, points, exists>>
  BY DEF AcquireVectorIndex, SaveVectorIndexCheckpoint, CompleteVectorIndex,
         MarkVectorIndexFailed, Goto, TypeOK, envVars, touchVars, storeVars
<1>2. UNCHANGED <<Present, Good>>
  BY <1>1, Observations
<1>3. CASE AcquireVectorIndex(b)
  <2>1. /\ lease' = b /\ ckChunk' = ckChunk /\ after'[b] = ckChunk /\ pc'[b] = "manifest"
    BY <1>3 DEF AcquireVectorIndex, Goto, TypeOK
  <2>2. CheckpointDurable'
    BY <1>0, <1>1, <2>1 DEF CheckpointDurable
  <2>3. Listed(b)' /\ Contiguous(b)' /\ Standing(b)'
    BY <1>0, <1>1, <2>1 DEF Listed, Contiguous, Standing, CheckpointDurable
  <2> QED BY <1>0, <1>1, <1>2, <2>1, <2>2, <2>3, DurableStep
<1>4. CASE SaveVectorIndexCheckpoint(b)
  <2>1. /\ pc[b] \in {"resume", "save", "final"} /\ UNCHANGED <<lease, man, after, todo>>
        /\ \/ ckChunk' = after[b] /\ lease = b /\ pc'[b] \in {"list", "complete"}
           \/ ckChunk' = ckChunk /\ pc'[b] = "failing"
    BY <1>4 DEF SaveVectorIndexCheckpoint, AfterSave, Holds, Goto, TypeOK
  <2>2. CheckpointDurable'
    BY <1>0, <1>1, <2>1 DEF CheckpointDurable, Standing
  <2>3. Listed(b)' /\ Contiguous(b)'
    BY <1>0, <1>1, <2>1 DEF Listed, Contiguous
  <2>4. Standing(b)'
    BY <1>0, <1>1, <2>1 DEF Standing
  <2> QED BY <1>0, <1>1, <1>2, <2>1, <2>2, <2>3, <2>4, DurableStep
<1>5. CASE CompleteVectorIndex(b)
  <2>1. /\ pc[b] = "complete" /\ UNCHANGED <<ckChunk, man, after, todo>>
        /\ \/ lease' = None /\ pc'[b] = "idle"
           \/ lease' = lease /\ pc'[b] = "failing"
    BY <1>5 DEF CompleteVectorIndex, Goto, TypeOK
  <2>2. CheckpointDurable'
    BY <1>0, <1>1, <2>1 DEF CheckpointDurable
  <2>3. Listed(b)' /\ Contiguous(b)' /\ Standing(b)'
    BY <1>0, <1>1, <2>1 DEF Listed, Contiguous, Standing
  <2> QED BY <1>0, <1>1, <1>2, <2>1, <2>2, <2>3, DurableStep
<1>6. CASE MarkVectorIndexFailed(b)
  <2>1. pc'[b] = "idle" /\ UNCHANGED ckChunk /\ lease' \in {lease, None}
    BY <1>6 DEF MarkVectorIndexFailed, Goto, TypeOK
  <2>2. CheckpointDurable'
    BY <1>0, <1>1, <2>1 DEF CheckpointDurable
  <2>3. Listed(b)' /\ Contiguous(b)' /\ Standing(b)'
    BY <2>1 DEF Listed, Contiguous, Standing
  <2> QED BY <1>0, <1>1, <1>2, <2>1, <2>2, <2>3, DurableStep
<1> QED BY <1>3, <1>4, <1>5, <1>6

\* A step that changes neither the collection nor the row, and takes b to a control
\* point that asks for nothing new.
LEMMA DurableQuiet ==
    ASSUME TypeOK, TypeOK', DurableInv, NEW b \in Builder,
           \A c \in Builder \ {b} : /\ pc'[c] = pc[c] /\ man'[c] = man[c]
                                    /\ after'[c] = after[c] /\ todo'[c] = todo[c],
           UNCHANGED <<eligible, lease, outside, points, ckChunk>>, exists => exists',
           Listed(b)', Contiguous(b)', Standing(b)'
    PROVE  DurableInv'
<1>1. CheckpointDurable /\ (~exists => Present = {})
  BY DurableParts
<1>2. CheckpointDurable' /\ Present' = Present
  BY <1>1, Observations DEF CheckpointDurable
<1> QED BY <1>1, <1>2, DurableStep

\* The steps that prepare the collection.
LEMMA DurablePrepare ==
    ASSUME TypeOK, TypeOK', DurableInv, NEW b \in Builder, Prepare(b)
    PROVE  DurableInv'
<1>0. Listed(b) /\ Contiguous(b) /\ Standing(b) /\ CheckpointDurable /\ (~exists => Present = {})
  BY DurableParts
<1>e. eligible \in SUBSET Chunk /\ \A c \in eligible : c \in Nat /\ c > 0
  <2>1. \A c \in Chunk : c \in Nat /\ c > 0
    BY VectorConstants DEF Chunk
  <2> QED BY <2>1 DEF TypeOK
<1>1. /\ \A c \in Builder \ {b} : /\ pc'[c] = pc[c] /\ man'[c] = man[c]
                                   /\ after'[c] = after[c] /\ todo'[c] = todo[c]
      /\ UNCHANGED <<eligible, lease, ckChunk>>
  BY DEF Prepare, ListVectorManifest, DropCollection, CreateCollection, Inspect, DeletePoints,
         Goto, TypeOK, envVars, rowVars
<1>2. CASE ListVectorManifest(b)
  <2>1. /\ pc[b] = "manifest" /\ man'[b] = eligible
        /\ UNCHANGED <<after, todo, outside, points, exists>>
        /\ \/ pc'[b] \in {"failing", "inspect"}
           \/ pc'[b] = "drop" /\ count[b] = 0 /\ ValidCheckpoint(eligible, after[b], count[b])
    BY <1>2 DEF ListVectorManifest, Goto, TypeOK, storeVars, touchVars
  <2>2. pc'[b] = "drop" => after[b] = 0
    BY <2>1 DEF ValidCheckpoint
  <2>3. Standing(b)'
    BY <1>0, <1>1, <1>e, <2>1, <2>2 DEF Standing
  <2>4. Listed(b)' /\ Contiguous(b)'
    BY <1>1, <2>1 DEF Listed, Contiguous
  <2> QED BY <1>1, <2>1, <2>3, <2>4, DurableQuiet
<1>3. CASE DropCollection(b)
  <2>1. /\ pc[b] = "drop" /\ pc'[b] = "create" /\ after'[b] = 0 /\ man' = man
        /\ outside' = (outside \/ lease # b)
        /\ points' = [c \in Chunk |-> "absent"]
    BY <1>3 DEF DropCollection, Goto, TypeOK, Touch
  <2>2. Present' = {}
    BY <2>1 DEF Present
  <2>3. CheckpointDurable'
    <3> SUFFICES ASSUME ~outside', NEW c \in eligible, c <= ckChunk PROVE FALSE
      BY <1>1 DEF CheckpointDurable
    <3>1. lease = b /\ ~outside
      BY <2>1
    <3>2. ckChunk < c
      BY <1>0, <2>1, <3>1 DEF Standing
    <3>3. ckChunk \in Nat
      BY VectorConstants DEF TypeOK
    <3> QED BY <1>e, <3>2, <3>3
  <2>4. Standing(b)'
    BY <1>1, <1>e, <2>1 DEF Standing
  <2>5. Listed(b)' /\ Contiguous(b)'
    BY <1>0, <1>1, <2>1 DEF Listed, Contiguous
  <2> QED BY <1>1, <2>1, <2>2, <2>3, <2>4, <2>5, DurableStep
<1>4. CASE CreateCollection(b)
  <2>1. /\ pc[b] = "create" /\ pc'[b] \in {"failing", "resume"} /\ exists'
        /\ UNCHANGED <<points, man, after, todo>>
        /\ outside => outside'
        /\ outside' \in {outside, outside \/ lease # b}
    BY <1>4 DEF CreateCollection, Goto, TypeOK, Touch, touchVars
  <2>2. CheckpointDurable'
    BY <1>0, <1>1, <2>1 DEF CheckpointDurable
  <2>3. Standing(b)'
    BY <1>0, <1>1, <2>1 DEF Standing
  <2>4. Listed(b)' /\ Contiguous(b)'
    BY <1>0, <1>1, <2>1 DEF Listed, Contiguous
  <2> QED BY <1>1, <2>1, <2>2, <2>3, <2>4, DurableStep
<1>5. CASE Inspect(b)
  <2> DEFINE kept == Rewind(man[b], after[b])
  <2>1. /\ pc[b] = "inspect" /\ UNCHANGED <<points, exists, outside, man>>
    BY <1>5 DEF Inspect, storeVars, touchVars
  <2>2. eligible \subseteq man[b] /\ man[b] \in SUBSET Chunk /\ after[b] \in 0..NChunks
    BY <1>0, <2>1 DEF Listed, TypeOK
  <2>3. Listed(b)'
    BY <1>1, <2>1, <2>2 DEF Listed
  <2>4. CASE exists
    <3>1. /\ after'[b] = Last(kept) /\ pc'[b] \in {"resume", "delete"}
          /\ todo'[b] = Present \ (man[b] \cap Good)
      BY <1>5, <2>4 DEF Inspect, Goto, TypeOK
    <3>2. ASSUME NEW c \in eligible, c <= Last(kept) PROVE points[c] = "good"
      BY <2>2, <3>2, RewindGood DEF Good
    <3>3. Good' = Good
      BY <2>1, Observations
    <3> HIDE DEF kept
    <3>4. Standing(b)'
      BY <1>1, <2>1, <2>2, <3>1, <3>2, <3>3 DEF Standing
    <3>5. Contiguous(b)'
      BY <3>1 DEF Contiguous
    <3> QED BY <1>1, <2>1, <2>3, <3>4, <3>5, DurableQuiet
  <2>5. CASE ~exists
    <3>1. pc'[b] = "drop" /\ UNCHANGED <<after, todo>>
      BY <1>5, <2>5 DEF Inspect, Goto, TypeOK
    <3>2. ASSUME ~outside, NEW c \in eligible PROVE ckChunk < c
      <4>1. points[c] # "good"
        BY <1>0, <1>e, <2>5 DEF Present
      <4>2. ~(c <= ckChunk) /\ ckChunk \in Nat
        BY <1>0, <3>2, <4>1, VectorConstants DEF CheckpointDurable, TypeOK
      <4> QED BY <1>e, <4>2
    <3>3. Standing(b)'
      BY <1>0, <1>1, <2>1, <3>1, <3>2 DEF Standing
    <3>4. Contiguous(b)'
      BY <3>1 DEF Contiguous
    <3> QED BY <1>1, <2>1, <2>3, <3>3, <3>4, DurableQuiet
  <2> QED BY <2>4, <2>5
<1>6. CASE DeletePoints(b)
  <2>1. /\ pc[b] \in {"delete", "prune", "pruneAndFail"} /\ UNCHANGED <<exists, man, after, todo>>
        /\ pc'[b] \in {"resume", "final", "failing"}
    BY <1>6 DEF DeletePoints, AfterDelete, Goto, TypeOK
  <2>2. Listed(b)' /\ Contiguous(b)'
    BY <1>0, <1>1, <2>1 DEF Listed, Contiguous
  <2>3. CASE exists
    <3>1. /\ points' = [c \in Chunk |-> IF c \in todo[b] THEN "absent" ELSE points[c]]
          /\ outside' = (outside \/ lease # b)
      BY <1>6, <2>3 DEF DeletePoints, Touch
    <3>2. ASSUME ~outside', NEW c \in eligible, points[c] = "good" PROVE points'[c] = "good"
      <4>1. c \in Chunk /\ c \notin todo[b]
        BY <1>0, <1>e, <2>1, <3>1, <3>2 DEF Standing, Good
      <4> QED BY <3>1, <3>2, <4>1
    <3>3. CheckpointDurable'
      BY <1>0, <1>1, <3>1, <3>2 DEF CheckpointDurable
    <3>4. Standing(b)'
      BY <1>0, <1>1, <2>1, <3>1, <3>2 DEF Standing
    <3> QED BY <1>1, <2>1, <2>2, <2>3, <3>1, <3>3, <3>4, DurableStep
  <2>4. CASE ~exists
    <3>1. UNCHANGED <<points, outside>> /\ pc'[b] = "failing"
      BY <1>6, <2>4 DEF DeletePoints, Goto, TypeOK, touchVars
    <3>2. Standing(b)'
      BY <1>0, <1>1, <2>1, <3>1 DEF Standing
    <3> QED BY <1>1, <2>1, <2>2, <3>1, <3>2, DurableQuiet
  <2> QED BY <2>3, <2>4
<1> QED BY <1>2, <1>3, <1>4, <1>5, <1>6 DEF Prepare

\* The batches, the audit and the failures.
LEMMA DurableBuild ==
    ASSUME TypeOK, TypeOK', DurableInv, NEW b \in Builder,
           ListVectorChunks(b) \/ Upsert(b) \/ AuditWithManifest(b) \/ Fail(b) \/ Crash(b)
    PROVE  DurableInv'
<1>0. Listed(b) /\ Contiguous(b) /\ Standing(b) /\ CheckpointDurable /\ (~exists => Present = {})
  BY DurableParts
<1>e. eligible \in SUBSET Chunk /\ \A c \in eligible : c \in Nat /\ c > 0
  <2>1. \A c \in Chunk : c \in Nat /\ c > 0
    BY VectorConstants DEF Chunk
  <2> QED BY <2>1 DEF TypeOK
<1>1. /\ \A c \in Builder \ {b} : /\ pc'[c] = pc[c] /\ man'[c] = man[c]
                                   /\ after'[c] = after[c] /\ todo'[c] = todo[c]
      /\ UNCHANGED <<eligible, lease, ckChunk, exists, man>>
  BY DEF ListVectorChunks, Upsert, AuditWithManifest, Fail, Crash, Goto, TypeOK, envVars, rowVars,
         storeVars
<1>2. CASE ListVectorChunks(b)
  <2>1. /\ pc[b] = "list" /\ todo'[b] = Batch(after[b]) /\ UNCHANGED <<after, points, outside>>
        /\ pc'[b] = IF Batch(after[b]) = {} THEN "audit" ELSE "upsert"
    BY <1>2 DEF ListVectorChunks, Goto, TypeOK, storeVars, touchVars
  <2>2. Contiguous(b)'
    <3>1. after[b] \in 0..NChunks
      BY DEF TypeOK
    <3> QED BY <1>1, <2>1, <3>1, BatchContiguous DEF Contiguous
  <2>3. Listed(b)' /\ Standing(b)'
    BY <1>0, <1>1, <2>1 DEF Listed, Standing
  <2> QED BY <1>1, <2>1, <2>2, <2>3, DurableQuiet
<1>3. CASE Upsert(b)
  <2>1. pc[b] = "upsert" /\ todo' = todo /\ pc'[b] \in {"save", "failing"}
    BY <1>3 DEF Upsert, Goto, TypeOK
  <2>2. Listed(b)' /\ Contiguous(b)'
    BY <1>0, <1>1, <2>1 DEF Listed, Contiguous
  <2>3. CASE exists
    <3>1. /\ points' = [c \in Chunk |-> IF c \in todo[b] THEN "good" ELSE points[c]]
          /\ outside' = (outside \/ lease # b) /\ after'[b] = Last(todo[b])
      BY <1>3, <2>3 DEF Upsert, Touch, TypeOK
    <3>2. \A c \in eligible : points[c] = "good" \/ c \in todo[b] => points'[c] = "good"
      BY <1>e, <3>1
    <3>3. CheckpointDurable'
      BY <1>0, <1>1, <3>1, <3>2 DEF CheckpointDurable
    <3>4. ASSUME ~outside', NEW c \in eligible, c <= Last(todo[b]) PROVE points'[c] = "good"
      <4>1. after[b] \in Nat
        BY VectorConstants DEF TypeOK
      <4>2. c <= after[b] => points[c] = "good"
        BY <1>0, <2>1, <3>1, <3>4 DEF Standing
      <4>3. after[b] < c => c \in todo[b]
        BY <1>0, <2>1, <3>4 DEF Contiguous
      <4> QED BY <1>e, <3>2, <4>1, <4>2, <4>3
    <3>5. Standing(b)'
      BY <1>1, <2>1, <3>1, <3>4 DEF Standing
    <3> QED BY <1>1, <2>2, <2>3, <3>1, <3>3, <3>5, DurableStep
  <2>4. CASE ~exists
    <3>1. UNCHANGED <<points, outside, after>> /\ pc'[b] = "failing"
      BY <1>3, <2>4 DEF Upsert, Goto, TypeOK, touchVars
    <3>2. Standing(b)'
      BY <1>0, <1>1, <2>1, <3>1 DEF Standing
    <3> QED BY <1>1, <2>1, <2>2, <3>1, <3>2, DurableQuiet
  <2> QED BY <2>3, <2>4
<1>4. CASE AuditWithManifest(b)
  <2>1. /\ pc[b] = "audit" /\ todo'[b] = Present \ man[b] /\ UNCHANGED <<after, points, outside>>
        /\ pc'[b] \in {"final", "failing", "prune", "pruneAndFail"}
    BY <1>4 DEF AuditWithManifest, Goto, TypeOK, storeVars
  <2>2. Listed(b)' /\ Contiguous(b)'
    BY <1>0, <1>1, <2>1 DEF Listed, Contiguous
  <2>3. todo'[b] \cap eligible = {}
    BY <1>0, <2>1 DEF Listed
  <2>4. Standing(b)'
    BY <1>0, <1>1, <2>1, <2>3 DEF Standing
  <2> QED BY <1>1, <2>1, <2>2, <2>4, DurableQuiet
<1>5. CASE Fail(b) \/ Crash(b)
  <2>1. /\ pc[b] # "idle" /\ pc'[b] \in {"failing", "idle"}
        /\ UNCHANGED <<after, todo, points, outside>>
    BY <1>5 DEF Fail, Crash, Goto, TypeOK, storeVars, touchVars
  <2>2. Listed(b)' /\ Contiguous(b)' /\ Standing(b)'
    BY <1>0, <1>1, <2>1 DEF Listed, Contiguous, Standing
  <2> QED BY <1>1, <2>1, <2>2, DurableQuiet
<1> QED BY <1>2, <1>3, <1>4, <1>5

\* The rest of the system.
LEMMA DurableEnvironment ==
    ASSUME TypeOK, TypeOK', DurableInv, EnvironmentStep
    PROVE  DurableInv'
<1>0. /\ \A b \in Builder : Listed(b) /\ Contiguous(b) /\ Standing(b)
      /\ CheckpointDurable /\ (~exists => Present = {})
  BY DurableParts
<1>1. UNCHANGED <<lease, ckChunk, builderVars, exists>> /\ eligible' \subseteq eligible
  BY DEF EnvironmentStep, LeaseExpires, AuditOrphans, RepairOrphans, DeleteSource, Damage, rowVars,
         storeVars, envVars
<1>2. \A b \in Builder : Listed(b)' /\ Contiguous(b)'
  BY <1>0, <1>1 DEF Listed, Contiguous, builderVars, Last
<1>3. CASE UNCHANGED <<points, outside>>
  <2>1. Present' = Present /\ Good' = Good
    BY <1>3, Observations
  <2>2. \A b \in Builder : Standing(b)'
    BY <1>0, <1>1, <1>3, <2>1 DEF Standing, builderVars
  <2>3. CheckpointDurable'
    BY <1>0, <1>1, <1>3 DEF CheckpointDurable
  <2> QED BY <1>0, <1>1, <1>2, <2>1, <2>2, <2>3, DurablePartsNext
<1>4. CASE outside' /\ (~exists => Present' = {})
  <2>1. CheckpointDurable' /\ \A b \in Builder : Standing(b)'
    BY <1>4 DEF CheckpointDurable, Standing
  <2> QED BY <1>1, <1>2, <1>4, <2>1, DurablePartsNext
<1>5. CASE RepairOrphans
  <2>1. outside' /\ points' = [c \in Chunk |-> IF c \in repair THEN "absent" ELSE points[c]]
    BY <1>5 DEF RepairOrphans, TouchFromOutside
  <2>2. Present' \subseteq Present
    BY <2>1 DEF Present
  <2> QED BY <1>0, <1>4, <2>1, <2>2
<1>6. ASSUME NEW c \in Chunk, NEW p \in {"absent", "stale"}, Damage(c, p) PROVE DurableInv'
  <2>1. outside' /\ points[c] = "good"
    BY <1>6 DEF Damage, TouchFromOutside
  <2>2. exists
    BY <1>0, <2>1 DEF Present
  <2> QED BY <1>4, <2>1, <2>2
<1>7. CASE LeaseExpires \/ AuditOrphans \/ \E c \in Chunk : DeleteSource(c)
  BY <1>3, <1>7 DEF LeaseExpires, AuditOrphans, DeleteSource, storeVars, touchVars
<1> QED BY <1>5, <1>6, <1>7 DEF EnvironmentStep

LEMMA DurableNext ==
    ASSUME TypeOK, DurableInv, [Next]_vars
    PROVE  DurableInv'
<1>0. TypeOK'
  BY TypeNext
<1>1. CASE UNCHANGED vars
  <2>1. UNCHANGED <<Present, Good>>
    BY <1>1, Observations DEF vars, storeVars
  <2> QED BY <1>1, <2>1 DEF DurableInv, CheckpointDurable, vars, rowVars, storeVars, builderVars,
          envVars, touchVars, Last, AfterDelete
<1>2. ASSUME NEW b \in Builder, BuilderStep(b) PROVE DurableInv'
  BY <1>0, <1>2, DurableRow, DurablePrepare, DurableBuild DEF BuilderStep, Progress
<1> QED BY <1>0, <1>1, <1>2, DurableEnvironment DEF Next

\* Everything still eligible up to the checkpoint is in the collection, whichever
\* builders crash or take over, unless it was touched from outside
\* (SaveVectorIndexCheckpoint after each acknowledged upsert, planVectorResume).
THEOREM CheckpointIsDurable == Spec => []CheckpointDurable
<1>1. Init => DurableInv
  <2> SUFFICES ASSUME Init PROVE DurableInv
    OBVIOUS
  <2>1. Present = {} /\ \A c \in eligible : ~(c <= ckChunk)
    BY VectorConstants DEF Init, Present, Chunk
  <2> QED BY <2>1 DEF Init, DurableInv, CheckpointDurable
<1>2. VectorInv /\ DurableInv /\ [Next]_vars => DurableInv'
  BY DurableNext, Parts
<1>3. DurableInv => CheckpointDurable
  BY DEF DurableInv
<1> QED BY <1>1, <1>2, <1>3, VectorInvariant, PTL DEF Spec
=============================================================================
