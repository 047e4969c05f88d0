----------------------------- MODULE VectorIndex -----------------------------
(***************************************************************************)
(* The build of one vector index: VectorIndexer.Build and Audit            *)
(* (internal/retrieval/vector_index.go), the control row with its lease    *)
(* and checkpoint in PostgreSQL (vector_repository.go) and the collection  *)
(* in Qdrant (qdrant.go, used as a service).                               *)
(*                                                                         *)
(* Every statement on the control row is fenced by the lease token; calls  *)
(* to Qdrant are not, so a builder whose lease was taken over still writes *)
(* there until its next statement fails.  A token is good for one Build;   *)
(* a builder has one Build at a time, so the builder stands for its token. *)
(* Chunks are numbered in the order of their ids, the manifest is a set.   *)
(***************************************************************************)
EXTENDS Naturals, FiniteSets

CONSTANTS
    NChunks,     \* chunks of the ingestion run
    Builder,     \* processes running Build
    None,        \* no lease
    BatchSize,   \* VectorIndexOptions.BatchSize
    MaxDeletes,  \* bound: source deletions
    MaxFaults    \* bound: failed calls, crashes, leases lost by a live builder, damaged points

ASSUME VectorConstants ==
    /\ NChunks \in Nat \ {0}
    /\ BatchSize \in Nat \ {0}
    /\ MaxDeletes \in Nat
    /\ MaxFaults \in Nat
    /\ None \notin Builder

Chunk == 1..NChunks

VARIABLES
    status,      \* retrieval_vector_indexes.status
    lease,       \* lease_token, as the builder it was given to
    expired,     \* lease_expires_at <= clock_timestamp()
    ckChunk,     \* checkpoint_chunk_id
    ckPoints,    \* checkpoint_point_count
    indexed,     \* the manifest behind index_checksum, once completed
    eligible,    \* chunks that vectorChunkEligibilitySQL admits now
    exists,      \* the collection exists in Qdrant
    points,      \* its points, by content_hash
    pc,          \* control point of each builder
    man,         \* the manifest it listed
    after,       \* afterChunkID
    count,       \* pointCount
    todo,        \* the points of its next call
    repair,      \* orphans an operator's audit is about to delete
    outside,     \* history: something other than the lease holder touched the collection
    audited,     \* history: lease holder of the last audit, if nobody else touched the collection since
    deletes,     \* history: source deletions
    faults       \* history: faults

rowVars == <<status, lease, expired, ckChunk, ckPoints, indexed>>
storeVars == <<exists, points>>
builderVars == <<pc, man, after, count, todo>>
envVars == <<eligible, repair, deletes>>
touchVars == <<outside, audited>>
vars == <<rowVars, storeVars, builderVars, envVars, touchVars, faults>>

Status == {"failed", "building", "completed"}
Point == {"absent", "good", "stale"}
Control == {"idle", "manifest", "drop", "create", "inspect", "delete", "resume", "list",
            "upsert", "save", "audit", "prune", "pruneAndFail", "final", "complete", "failing"}

TypeOK ==
    /\ status \in Status
    /\ lease \in Builder \cup {None}
    /\ expired \in BOOLEAN
    /\ ckChunk \in 0..NChunks
    /\ ckPoints \in Nat
    /\ indexed \in SUBSET Chunk
    /\ eligible \in SUBSET Chunk
    /\ exists \in BOOLEAN
    /\ points \in [Chunk -> Point]
    /\ pc \in [Builder -> Control]
    /\ man \in [Builder -> SUBSET Chunk]
    /\ after \in [Builder -> 0..NChunks]
    /\ count \in [Builder -> Nat]
    /\ todo \in [Builder -> SUBSET Chunk]
    /\ repair \in SUBSET Chunk
    /\ outside \in BOOLEAN
    /\ audited \in Builder \cup {None}
    /\ deletes \in 0..MaxDeletes
    /\ faults \in 0..MaxFaults

\* The control row as the INSERT of AcquireVectorIndex leaves it.
Init ==
    /\ status = "failed"
    /\ lease = None
    /\ expired = FALSE
    /\ ckChunk = 0
    /\ ckPoints = 0
    /\ indexed = {}
    /\ eligible = Chunk
    /\ exists = FALSE
    /\ points = [c \in Chunk |-> "absent"]
    /\ pc = [b \in Builder |-> "idle"]
    /\ man = [b \in Builder |-> {}]
    /\ after = [b \in Builder |-> 0]
    /\ count = [b \in Builder |-> 0]
    /\ todo = [b \in Builder |-> {}]
    /\ repair = {}
    /\ outside = FALSE
    /\ audited = None
    /\ deletes = 0
    /\ faults = 0

Present == {c \in Chunk : points[c] # "absent"}

Good == {c \in Chunk : points[c] = "good"}

\* The last chunk of S, 0 when there is none.
Last(S) == IF S = {} THEN 0 ELSE CHOOSE c \in S : \A d \in S : d <= c

Goto(b, next) == pc' = [pc EXCEPT ![b] = next]

-----------------------------------------------------------------------------
(* The control row *)

Holds(b) == status = "building" /\ lease = b /\ ~expired

\* AcquireVectorIndex; the builder goes on from the row's checkpoint.  A completed
\* index ends Build after an audit that changes nothing, a leased one with an error.
AcquireVectorIndex(b) ==
    /\ pc[b] = "idle"
    /\ status # "completed"
    /\ lease = None \/ expired
    /\ status' = "building"
    /\ lease' = b
    /\ expired' = FALSE
    /\ after' = [after EXCEPT ![b] = ckChunk]
    /\ count' = [count EXCEPT ![b] = ckPoints]
    /\ Goto(b, "manifest")
    /\ UNCHANGED <<ckChunk, ckPoints, indexed, storeVars, man, todo, envVars, touchVars, faults>>

\* One fault more, while the bound allows it.
Fault == faults < MaxFaults /\ faults' = faults + 1

\* The clock passes lease_expires_at: the holder crashed, or was too slow.
LeaseExpires ==
    /\ lease # None
    /\ ~expired
    /\ expired' = TRUE
    /\ IF pc[lease] = "idle" THEN UNCHANGED faults ELSE Fault
    /\ UNCHANGED <<status, lease, ckChunk, ckPoints, indexed, storeVars, builderVars, envVars, touchVars>>

AfterSave == [resume |-> "list", save |-> "list", final |-> "complete"]

\* SaveVectorIndexCheckpoint renews the lease, or reports it lost.
SaveVectorIndexCheckpoint(b) ==
    /\ pc[b] \in DOMAIN AfterSave
    /\ IF Holds(b)
       THEN /\ ckChunk' = after[b]
            /\ ckPoints' = count[b]
            /\ Goto(b, AfterSave[pc[b]])
       ELSE /\ Goto(b, "failing")
            /\ UNCHANGED <<ckChunk, ckPoints>>
    /\ UNCHANGED <<status, lease, expired, indexed, storeVars, man, after, count, todo, envVars, touchVars, faults>>

\* CompleteVectorIndex: fenced, and only for the checkpoint the builder saved last.
CompleteVectorIndex(b) ==
    /\ pc[b] = "complete"
    /\ IF Holds(b) /\ ckPoints = count[b]
       THEN /\ status' = "completed"
            /\ lease' = None
            /\ expired' = FALSE
            /\ indexed' = man[b]
            /\ Goto(b, "idle")
       ELSE /\ Goto(b, "failing")
            /\ UNCHANGED <<status, lease, expired, indexed>>
    /\ UNCHANGED <<ckChunk, ckPoints, storeVars, man, after, count, todo, envVars, touchVars, faults>>

\* The deferred MarkVectorIndexFailed: fenced by the token, expired or not.
MarkVectorIndexFailed(b) ==
    /\ pc[b] = "failing"
    /\ IF status = "building" /\ lease = b
       THEN status' = "failed" /\ lease' = None /\ expired' = FALSE
       ELSE UNCHANGED <<status, lease, expired>>
    /\ Goto(b, "idle")
    /\ UNCHANGED <<ckChunk, ckPoints, indexed, storeVars, man, after, count, todo, envVars, touchVars, faults>>

-----------------------------------------------------------------------------
(* Build: the manifest and prepareCollection *)

\* validateVectorCheckpoint: the n-th entry of the manifest S is c.
ValidCheckpoint(S, c, n) ==
    IF n = 0 THEN c = 0 ELSE c \in S /\ Cardinality({d \in S : d <= c}) = n

ListVectorManifest(b) ==
    /\ pc[b] = "manifest"
    /\ man' = [man EXCEPT ![b] = eligible]
    /\ Goto(b, IF ~ValidCheckpoint(eligible, after[b], count[b]) THEN "failing"
               ELSE IF count[b] = 0 THEN "drop" ELSE "inspect")
    /\ UNCHANGED <<rowVars, storeVars, after, count, todo, envVars, touchVars, faults>>

\* A call of b changes the collection.
Touch(b) ==
    /\ outside' = (outside \/ lease # b)
    /\ audited' = IF audited = b THEN b ELSE None

\* Something that is not a builder changes the collection.
TouchFromOutside == outside' = TRUE /\ audited' = None

\* RecreateCollection, first call.
DropCollection(b) ==
    /\ pc[b] = "drop"
    /\ exists' = FALSE
    /\ points' = [c \in Chunk |-> "absent"]
    /\ Touch(b)
    /\ after' = [after EXCEPT ![b] = 0]
    /\ count' = [count EXCEPT ![b] = 0]
    /\ Goto(b, "create")
    /\ UNCHANGED <<rowVars, man, todo, envVars, faults>>

\* RecreateCollection, second call: an error when another builder was faster.
CreateCollection(b) ==
    /\ pc[b] = "create"
    /\ exists' = TRUE
    /\ Goto(b, IF exists THEN "failing" ELSE "resume")
    /\ IF exists THEN UNCHANGED touchVars ELSE Touch(b)
    /\ UNCHANGED <<rowVars, points, man, after, count, todo, envVars, faults>>

\* planVectorResume: everything in the manifest up to the checkpoint is there,
\* or the checkpoint moves back to the last entry before the first gap.
Rewind(S, c) ==
    LET gaps == {d \in S : d <= c /\ d \notin Good}
    IN  {d \in S : d <= c /\ \A g \in gaps : d < g}

\* Seeded defect: the checkpoint is trusted, gaps before it are not looked for.
InspectTrusting(b) ==
    /\ pc[b] = "inspect"
    /\ IF exists
       THEN /\ todo' = [todo EXCEPT ![b] = Present \ (man[b] \cap Good)]
            /\ Goto(b, IF todo'[b] = {} THEN "resume" ELSE "delete")
       ELSE Goto(b, "drop") /\ UNCHANGED todo
    /\ UNCHANGED <<rowVars, storeVars, man, after, count, envVars, touchVars, faults>>

\* CollectionExists, ListPointManifest and planVectorResume.
Inspect(b) ==
    LET kept == Rewind(man[b], after[b]) IN
    /\ pc[b] = "inspect"
    /\ IF exists
       THEN /\ todo' = [todo EXCEPT ![b] = Present \ (man[b] \cap Good)]
            /\ after' = [after EXCEPT ![b] = Last(kept)]
            /\ count' = [count EXCEPT ![b] = Cardinality(kept)]
            /\ Goto(b, IF todo'[b] = {} THEN "resume" ELSE "delete")
       ELSE Goto(b, "drop") /\ UNCHANGED <<after, count, todo>>
    /\ UNCHANGED <<rowVars, storeVars, man, envVars, touchVars, faults>>

AfterDelete == [delete |-> "resume", prune |-> "final", pruneAndFail |-> "failing"]

\* DeletePoints: orphans and mismatched points of the plan, orphans of the audit.
DeletePoints(b) ==
    /\ pc[b] \in DOMAIN AfterDelete
    /\ IF exists
       THEN /\ points' = [c \in Chunk |-> IF c \in todo[b] THEN "absent" ELSE points[c]]
            /\ Touch(b)
            /\ Goto(b, AfterDelete[pc[b]])
       ELSE Goto(b, "failing") /\ UNCHANGED <<points, touchVars>>
    /\ UNCHANGED <<rowVars, exists, man, after, count, todo, envVars, faults>>

-----------------------------------------------------------------------------
(* Build: the batches, the audit *)

\* The first BatchSize eligible chunks behind a.
Batch(a) ==
    {c \in eligible : a < c /\ Cardinality({d \in eligible : a < d /\ d <= c}) <= BatchSize}

\* ListVectorChunks looks at what is eligible now; then the embedding.
ListVectorChunks(b) ==
    /\ pc[b] = "list"
    /\ todo' = [todo EXCEPT ![b] = Batch(after[b])]
    /\ Goto(b, IF todo'[b] = {} THEN "audit" ELSE "upsert")
    /\ UNCHANGED <<rowVars, storeVars, man, after, count, envVars, touchVars, faults>>

\* Seeded defect: the upsert is not waited for and does not happen.
UpsertUnconfirmed(b) ==
    /\ pc[b] = "upsert"
    /\ after' = [after EXCEPT ![b] = Last(todo[b])]
    /\ count' = [count EXCEPT ![b] = @ + Cardinality(todo[b])]
    /\ Goto(b, "save")
    /\ UNCHANGED <<rowVars, storeVars, man, todo, envVars, touchVars, faults>>

Upsert(b) ==
    /\ pc[b] = "upsert"
    /\ IF exists
       THEN /\ points' = [c \in Chunk |-> IF c \in todo[b] THEN "good" ELSE points[c]]
            /\ Touch(b)
            /\ after' = [after EXCEPT ![b] = Last(todo[b])]
            /\ count' = [count EXCEPT ![b] = @ + Cardinality(todo[b])]
            /\ Goto(b, "save")
       ELSE Goto(b, "failing") /\ UNCHANGED <<points, after, count, touchVars>>
    /\ UNCHANGED <<rowVars, exists, man, todo, envVars, faults>>

\* Seeded defect: the audit compares the number of points only.
AuditByCount(b) ==
    LET exact == exists /\ Cardinality(Present) = count[b] /\ Cardinality(man[b]) = count[b] IN
    /\ pc[b] = "audit"
    /\ audited' = IF lease = b THEN b ELSE audited
    /\ Goto(b, IF exact THEN "final" ELSE "failing")
    /\ UNCHANGED <<rowVars, storeVars, man, after, count, todo, envVars, outside, faults>>

\* auditWithManifest compares point by point; orphans are deleted in any case.
AuditWithManifest(b) ==
    LET orphans == Present \ man[b]
        exact == exists /\ man[b] \subseteq Good /\ Cardinality(man[b]) = count[b]
    IN
    /\ pc[b] = "audit"
    /\ audited' = IF lease = b THEN b ELSE audited
    /\ todo' = [todo EXCEPT ![b] = orphans]
    /\ Goto(b, CASE orphans = {} /\ exact -> "final"
                 [] orphans = {} /\ ~exact -> "failing"
                 [] orphans # {} /\ exact -> "prune"
                 [] orphans # {} /\ ~exact -> "pruneAndFail")
    /\ UNCHANGED <<rowVars, storeVars, man, after, count, envVars, outside, faults>>

\* A statement or a call fails.
Fail(b) ==
    /\ pc[b] \notin {"idle", "failing"}
    /\ Fault
    /\ Goto(b, "failing")
    /\ UNCHANGED <<rowVars, storeVars, man, after, count, todo, envVars, touchVars>>

\* The process dies, or MarkVectorIndexFailed itself fails: the lease stays.
Crash(b) ==
    /\ pc[b] # "idle"
    /\ Fault
    /\ Goto(b, "idle")
    /\ UNCHANGED <<rowVars, storeVars, man, after, count, todo, envVars, touchVars>>

-----------------------------------------------------------------------------
(* The rest of the system *)

\* vectorindex --audit-only --repair-orphans: no lease is taken.
AuditOrphans ==
    /\ repair = {}
    /\ exists
    /\ repair' = Present \ eligible
    /\ repair' # {}
    /\ UNCHANGED <<rowVars, storeVars, builderVars, eligible, deletes, touchVars, faults>>

RepairOrphans ==
    /\ repair # {}
    /\ points' = [c \in Chunk |-> IF c \in repair THEN "absent" ELSE points[c]]
    /\ TouchFromOutside
    /\ repair' = {}
    /\ UNCHANGED <<rowVars, exists, builderVars, eligible, deletes, faults>>

\* A source is deleted: its chunks leave the manifest.
DeleteSource(c) ==
    /\ c \in eligible
    /\ deletes < MaxDeletes
    /\ eligible' = eligible \ {c}
    /\ deletes' = deletes + 1
    /\ UNCHANGED <<rowVars, storeVars, builderVars, repair, touchVars, faults>>

\* Qdrant loses a point or serves an older one (a restored snapshot).
Damage(c, p) ==
    /\ points[c] = "good"
    /\ Fault
    /\ points' = [points EXCEPT ![c] = p]
    /\ TouchFromOutside
    /\ UNCHANGED <<rowVars, exists, builderVars, envVars>>

-----------------------------------------------------------------------------
Prepare(b) ==
    \/ ListVectorManifest(b) \/ DropCollection(b) \/ CreateCollection(b)
    \/ Inspect(b) \/ DeletePoints(b)

Progress(b) ==
    \/ Prepare(b)
    \/ ListVectorChunks(b) \/ Upsert(b)
    \/ SaveVectorIndexCheckpoint(b)
    \/ AuditWithManifest(b)
    \/ CompleteVectorIndex(b)
    \/ MarkVectorIndexFailed(b)

BuilderStep(b) == AcquireVectorIndex(b) \/ Progress(b) \/ Fail(b) \/ Crash(b)

EnvironmentStep ==
    \/ LeaseExpires
    \/ AuditOrphans
    \/ RepairOrphans
    \/ \E c \in Chunk : DeleteSource(c)
    \/ \E c \in Chunk, p \in {"absent", "stale"} : Damage(c, p)

Next == EnvironmentStep \/ \E b \in Builder : BuilderStep(b)

Spec == Init /\ [][Next]_vars

-----------------------------------------------------------------------------
(* What the code promises *)

\* "Index completion requires exact equality between frozen PostgreSQL chunk
\* ids/content hashes and Qdrant point ids": whatever was damaged, dropped, orphaned
\* or half written before, a completed index has exactly the points of its manifest,
\* until something other than its builder touches the collection after the audit (a
\* builder that lost its lease, an operator's repair, Qdrant).
CompletedExact ==
    status = "completed" /\ audited # None => exists /\ Present = indexed /\ Good = indexed

\* Inductive: from the audit of the lease holder to its completion the collection
\* stays exact, apart from orphans about to be pruned, unless it is touched; a
\* completed index has no lease and its builder is done.
VectorInv ==
    /\ TypeOK
    /\ \A b \in Builder : lease = b /\ pc[b] \in {"prune", "final", "complete"} =>
        /\ audited \in {b, None}
        /\ audited = b =>
            /\ exists
            /\ man[b] \subseteq Good
            /\ Present \ man[b] = IF pc[b] = "prune" THEN todo[b] ELSE {}
    /\ status = "completed" =>
        /\ lease = None
        /\ audited # None => pc[audited] = "idle"
    /\ CompletedExact

\* "a checkpoint after each acknowledged Qdrant batch": whatever builders crash or
\* take over, everything still eligible up to the checkpoint is in the collection,
\* unless it was touched from outside.
CheckpointDurable ==
    ~outside => \A c \in eligible : c <= ckChunk => points[c] = "good"

\* Why: while nobody else touches the collection, everything still eligible up to where
\* the lease holder stands is there, it drops the collection only when the checkpoint
\* covers nothing, and it deletes no good point of an eligible chunk.
DurableInv ==
    /\ ~exists => Present = {}
    /\ \A b \in Builder :
        /\ pc[b] \notin {"idle", "manifest", "failing"} => eligible \subseteq man[b]
        /\ pc[b] = "upsert" =>
            \A c \in eligible : after[b] < c /\ c <= Last(todo[b]) => c \in todo[b]
        /\ lease = b /\ pc[b] # "idle" /\ ~outside =>
            /\ pc[b] = "manifest" => after[b] = ckChunk
            /\ pc[b] = "drop" => \A c \in eligible : ckChunk < c
            /\ pc[b] \in DOMAIN AfterDelete => todo[b] \cap eligible \cap Good = {}
            /\ \A c \in eligible : c <= after[b] => points[c] = "good"
    /\ CheckpointDurable

\* "A failed build resumes from that checkpoint; missing or stale checkpoint points
\* rewind to the earliest gap": a Build that is run again after finitely many failed
\* calls, crashes, lost leases and damaged points completes, whatever mixture of
\* checkpoint and collection they left behind.
BuildCompletes == <>(status = "completed")

\* The same as long as no source is deleted during the build.
BuildCompletesUndisturbed == <>(status = "completed" \/ deletes > 0)

\* Operators run Build again when it failed, processes run, the clock goes on.
Fairness ==
    /\ WF_vars(LeaseExpires)
    /\ \A b \in Builder : WF_vars(AcquireVectorIndex(b)) /\ WF_vars(Progress(b))

FairSpec == Spec /\ Fairness
=============================================================================
