-------------------------- MODULE EvidenceIngestion --------------------------
(***************************************************************************)
(* The evidence store of one project (internal/evidence, cmd/evidence):    *)
(* processes that ingest frozen dataset versions into documents and        *)
(* reconcile the lifecycle of the documents, while the registry of sources *)
(* (triggers of migrations 000009, 000012 and 000016) and the freezing of  *)
(* dataset versions (internal/dataset) go on.                              *)
(*                                                                         *)
(* A document is named by what its key hashes: the dataset version, the    *)
(* source key and the source version.  Its chunks and citations are        *)
(* written in the transaction that creates it and are immutable, so they   *)
(* are part of its name.  Transactions run at READ COMMITTED: a statement  *)
(* sees what was committed when it started, and an UPDATE reads a row      *)
(* again when another transaction changed it first.                        *)
(***************************************************************************)
EXTENDS Naturals, FiniteSets

CONSTANTS
    Note,         \* sources that become documents of their own (note, note_media)
    Cluster,      \* groups of comments that share a cluster document
    Fact,         \* (type, subject, date) of daily facts
    Run,          \* ids of ingestion runs
    Process,      \* invocations of cmd/evidence at a time
    NoRun,        \* a process that only reconciles
    NoDoc,        \* a process that saves no document
    MaxVersion,   \* bound: versions of a source or fact
    MaxChanges,   \* bound: edits and deletions of sources and facts
    MaxDatasets,  \* bound: frozen dataset versions
    MaxStarts     \* bound: invocations of cmd/evidence

ASSUME EvidenceConstants ==
    /\ Note \cap Cluster = {} /\ Note \cap Fact = {} /\ Cluster \cap Fact = {}
    /\ MaxVersion \in Nat \ {0} /\ MaxDatasets \in Nat \ {0} /\ MaxStarts \in Nat /\ MaxChanges \in Nat
    /\ NoRun \notin Run

Source == Note \cup Cluster
Key == Source \cup Fact
Dataset == 1..MaxDatasets
Version == 1..MaxVersion
Doc == Dataset \X Key \X Version

KeyOf(d) == d[2]
VersionOf(d) == d[3]

ASSUME NoDocAssumption == NoDoc \notin Doc

VARIABLES
    version,     \* latest version of a source or fact
    live,        \* sources whose latest version is not deleted
    frozen,      \* number of frozen dataset versions
    snapshot,    \* dataset_version_sources: the version of a member, 0 for none
    status,      \* ingestion_runs.status
    dataset,     \* ingestion_runs.dataset_version_id
    factInput,   \* ingestion_run_fact_inputs
    output,      \* ingestion_runs.output_checksum: the documents it covers
    linked,      \* ingestion_run_documents
    lifecycle,   \* evidence_documents.lifecycle_status
    indexed,     \* <<source, version>> whose index_status is 'indexed'
    pc,          \* control point of each process
    run,         \* the run it works on, or NoRun
    todo,        \* documents it has still to save
    doc,         \* the document its SaveDocument is about
    victims,     \* the ready documents its superseding UPDATE found
    starts,      \* invocations so far
    touched,     \* history: keys changed since its reconcile began
    raced,       \* history: notes edited or saved between two statements of a reconcile
    overlapped   \* history: keys saved by two transactions at a time

registryVars == <<version, live>>
datasetVars == <<frozen, snapshot>>
runVars == <<status, dataset, factInput, output>>
storeVars == <<linked, lifecycle, indexed>>
saveVars == <<todo, doc, victims>>
procVars == <<pc, run, starts, saveVars>>
histVars == <<touched, raced, overlapped>>
vars == <<registryVars, datasetVars, runVars, storeVars, procVars, histVars>>

Status == {"none", "running", "failed", "completed"}
Lifecycle == {"absent", "ready", "stale", "superseded", "deleted"}
Retired == {"stale", "superseded", "deleted"}
Reconciling == {"stale", "superseded", "deleted", "facts"}
Saving == {"save", "relink", "write", "commit"}
Control == {"idle", "reuse", "link", "finish", "return", "failing"}
               \cup Reconciling \cup Saving

TypeOK ==
    /\ version \in [Key -> Version]
    /\ live \in [Source -> BOOLEAN]
    /\ frozen \in 0..MaxDatasets
    /\ snapshot \in [Dataset -> [Source -> 0..MaxVersion]]
    /\ status \in [Run -> Status]
    /\ dataset \in [Run -> Dataset]
    /\ factInput \in [Run -> [Fact -> Version]]
    /\ output \in [Run -> SUBSET Doc]
    /\ linked \in [Run -> SUBSET Doc]
    /\ lifecycle \in [Doc -> Lifecycle]
    /\ indexed \subseteq Source \X Version
    /\ pc \in [Process -> Control]
    /\ run \in [Process -> Run \cup {NoRun}]
    /\ todo \in [Process -> SUBSET Doc]
    /\ doc \in [Process -> Doc \cup {NoDoc}]
    /\ victims \in [Process -> SUBSET Doc]
    /\ starts \in 0..MaxStarts
    /\ touched \in [Process -> SUBSET Key]
    /\ raced \subseteq Note
    /\ overlapped \subseteq Key

Init ==
    /\ version = [k \in Key |-> 1]
    /\ live = [k \in Source |-> TRUE]
    /\ frozen = 0
    /\ snapshot = [d \in Dataset |-> [k \in Source |-> 0]]
    /\ status = [r \in Run |-> "none"]
    /\ dataset = [r \in Run |-> 1]
    /\ factInput = [r \in Run |-> [f \in Fact |-> 1]]
    /\ output = [r \in Run |-> {}]
    /\ linked = [r \in Run |-> {}]
    /\ lifecycle = [d \in Doc |-> "absent"]
    /\ indexed = {}
    /\ pc = [p \in Process |-> "idle"]
    /\ run = [p \in Process |-> NoRun]
    /\ todo = [p \in Process |-> {}]
    /\ doc = [p \in Process |-> NoDoc]
    /\ victims = [p \in Process |-> {}]
    /\ starts = 0
    /\ touched = [p \in Process |-> {}]
    /\ raced = {}
    /\ overlapped = {}

-----------------------------------------------------------------------------
(* The source registry and the freezing of dataset versions *)

\* An older version is marked deleted when a newer one is captured, and every
\* version when the source is deleted.
Gone(k, v) == ~live[k] \/ v < version[k]

\* A newer version exists that is not deleted.
HasSuccessor(k, v) == live[k] /\ v < version[k]

\* The processes that are reconciling, or have just done so, learn that k changed.
Touch(k) == touched' = [p \in Process |-> IF pc[p] \in Reconciling \cup {"reuse"}
                                          THEN touched[p] \cup {k} ELSE touched[p]]

\* A note changes between the two statements about notes of a ReconcileLifecycle.
Race(k) == raced' = IF k \in Note /\ \E p \in Process : pc[p] = "deleted"
                    THEN raced \cup {k} ELSE raced

Changes == Cardinality({s \in Key \X Version : s[2] < version[s[1]]})
               + Cardinality({k \in Source : ~live[k]})

\* A note, media row, comment or daily fact is updated: a trigger captures the
\* next version and marks the older ones deleted.
CaptureVersion(k) ==
    /\ k \in Source => live[k]
    /\ version[k] < MaxVersion /\ Changes < MaxChanges
    /\ version' = [version EXCEPT ![k] = @ + 1]
    /\ indexed' = {s \in indexed : s[1] # k}
    /\ Touch(k)
    /\ Race(k)
    /\ UNCHANGED <<live, datasetVars, runVars, linked, lifecycle, procVars, overlapped>>

DeleteSource(k) ==
    /\ live[k] /\ Changes < MaxChanges
    /\ live' = [live EXCEPT ![k] = FALSE]
    /\ indexed' = {s \in indexed : s[1] # k}
    /\ Touch(k)
    /\ UNCHANGED <<version, datasetVars, runVars, linked, lifecycle, procVars,
                   raced, overlapped>>

\* Freeze holds the registry still while it copies the live sources, and reuses
\* the latest snapshot when nothing changed.
Freeze ==
    LET members == [k \in Source |-> IF live[k] THEN version[k] ELSE 0]
    IN  /\ frozen < MaxDatasets
        /\ \E k \in Source : members[k] # 0
        /\ frozen > 0 => snapshot[frozen] # members
        /\ frozen' = frozen + 1
        /\ snapshot' = [snapshot EXCEPT ![frozen + 1] = members]
        /\ UNCHANGED <<registryVars, runVars, storeVars, procVars, histVars>>

-----------------------------------------------------------------------------
(* Ingest: BeginRun *)

\* The documents of a run: built from the frozen sources of its dataset version
\* and from the facts it froze when it began.
Documents(r) ==
    {<<dataset[r], k, snapshot[dataset[r]][k]>> :
        k \in {s \in Source : snapshot[dataset[r]][s] # 0}}
    \cup {<<dataset[r], f, factInput[r][f]>> : f \in Fact}

StartReconciling(p, r) ==
    /\ pc[p] = "idle" /\ starts < MaxStarts
    /\ starts' = starts + 1
    /\ pc' = [pc EXCEPT ![p] = "stale"]
    /\ run' = [run EXCEPT ![p] = r]
    /\ touched' = [touched EXCEPT ![p] = {}]
    /\ UNCHANGED <<registryVars, datasetVars, storeVars, saveVars, raced, overlapped>>

\* A new run: its fact inputs are the latest facts.
CreateRun(p, r, d) ==
    /\ StartReconciling(p, r)
    /\ status[r] = "none" /\ d \in 1..frozen
    /\ status' = [status EXCEPT ![r] = "running"]
    /\ dataset' = [dataset EXCEPT ![r] = d]
    /\ factInput' = [factInput EXCEPT ![r] = [f \in Fact |-> version[f]]]
    /\ UNCHANGED output

\* A known run: one that failed is running again, one that is running may have
\* another process at work.  A completed run is returned as it is, without a step.
ResumeRun(p, r) ==
    /\ StartReconciling(p, r)
    /\ status[r] \in {"running", "failed"}
    /\ status' = [status EXCEPT ![r] = "running"]
    /\ UNCHANGED <<dataset, factInput, output>>

\* Service.Reconcile
Reconcile(p) == StartReconciling(p, NoRun) /\ UNCHANGED runVars

-----------------------------------------------------------------------------
(* ReconcileLifecycle: four statements, each a transaction of its own *)

Ready(keys) == {d \in Doc : lifecycle[d] = "ready" /\ KeyOf(d) \in keys}

Statement(p, from, to, found, newStatus) ==
    /\ pc[p] = from
    /\ lifecycle' = [d \in Doc |-> IF d \in found THEN newStatus ELSE lifecycle[d]]
    /\ pc' = [pc EXCEPT ![p] = to]
    /\ UNCHANGED <<registryVars, datasetVars, runVars, linked, indexed, run, starts, saveVars, histVars>>

StaleClusters(p) ==
    Statement(p, "stale", "superseded",
        {d \in Ready(Cluster) : Gone(KeyOf(d), VersionOf(d))}, "stale")

\* Seeded defect: the two statements about notes in the opposite order.
SupersededNotesLate(p) ==
    Statement(p, "superseded", "deleted",
        {d \in Ready(Note) : Gone(KeyOf(d), VersionOf(d))}, "deleted")

SupersededNotes(p) ==
    Statement(p, "superseded", "deleted",
        {d \in Ready(Note) : HasSuccessor(KeyOf(d), VersionOf(d))}, "superseded")

DeletedNotes(p) ==
    Statement(p, "deleted", "facts",
        {d \in Ready(Note) : Gone(KeyOf(d), VersionOf(d))}, "deleted")

\* Seeded defect: the latest fact is compared with the version after next.
SupersededFactsOffByOne(p) ==
    Statement(p, "facts", IF run[p] = NoRun THEN "return" ELSE "reuse",
        {d \in Ready(Fact) : VersionOf(d) + 1 < version[KeyOf(d)]}, "superseded")

SupersededFacts(p) ==
    Statement(p, "facts", IF run[p] = NoRun THEN "return" ELSE "reuse",
        {d \in Ready(Fact) : VersionOf(d) < version[KeyOf(d)]}, "superseded")

-----------------------------------------------------------------------------
(* LinkReusableDocuments: a query and the INSERT of the links, one batch *)

\* The query: documents that are ready need not be saved.
FindReusable(p) ==
    /\ pc[p] = "reuse"
    /\ todo' = [todo EXCEPT ![p] = {d \in Documents(run[p]) : lifecycle[d] # "ready"}]
    /\ pc' = [pc EXCEPT ![p] = "link"]
    /\ touched' = [touched EXCEPT ![p] = {}]
    /\ UNCHANGED <<registryVars, datasetVars, runVars, storeVars, run, starts, doc, victims,
                   raced, overlapped>>

\* The INSERT does not look at the lifecycle again.  A trigger keeps the links of
\* a completed run as they are: no row may be inserted, not even a known one.
LinkReusable(p) ==
    LET reused == Documents(run[p]) \ todo[p]
    IN  /\ pc[p] = "link"
        /\ reused # {} => status[run[p]] # "completed"
        /\ linked' = [linked EXCEPT ![run[p]] = @ \cup reused]
        /\ pc' = [pc EXCEPT ![p] = "save"]
        /\ UNCHANGED <<registryVars, datasetVars, runVars, lifecycle, indexed, run, starts,
                       saveVars, histVars>>

-----------------------------------------------------------------------------
(* SaveDocument.  The documents of a run have different keys, so the eight    *)
(* writers of a process cannot meet on a document: one at a time, in any      *)
(* order, stands for them.                                                    *)

\* The look-up.  A document that exists must be ready: one that was retired
\* fails the run.
LookUp(p, d) ==
    /\ pc[p] = "save" /\ d \in todo[p]
    /\ doc' = [doc EXCEPT ![p] = d]
    /\ pc' = [pc EXCEPT ![p] = CASE lifecycle[d] = "absent" -> "write"
                                 [] lifecycle[d] = "ready" -> "relink"
                                 [] OTHER -> "failing"]
    /\ UNCHANGED <<registryVars, datasetVars, runVars, storeVars, run, starts, todo, victims, histVars>>

Saved(p) ==
    /\ linked' = [linked EXCEPT ![run[p]] = @ \cup {doc[p]}]
    /\ todo' = [todo EXCEPT ![p] = @ \ {doc[p]}]
    /\ doc' = [doc EXCEPT ![p] = NoDoc]
    /\ victims' = [victims EXCEPT ![p] = {}]
    /\ pc' = [pc EXCEPT ![p] = "save"]
    /\ UNCHANGED <<registryVars, datasetVars, runVars, indexed, run, starts>>

RelinkDocument(p) ==
    /\ pc[p] = "relink"
    /\ status[run[p]] # "completed"
    /\ Saved(p)
    /\ UNCHANGED <<lifecycle, histVars>>

\* The INSERTs and the superseding UPDATE.  An INSERT of the same document waits
\* for the transaction that inserted it; the UPDATE finds what is committed.
WriteDocument(p) ==
    /\ pc[p] = "write"
    /\ status[run[p]] # "completed"
    /\ \A q \in Process : ~(pc[q] = "commit" /\ doc[q] = doc[p])
    /\ victims' = [victims EXCEPT ![p] = Ready({KeyOf(doc[p])}) \ {doc[p]}]
    /\ pc' = [pc EXCEPT ![p] = "commit"]
    /\ UNCHANGED <<registryVars, datasetVars, runVars, storeVars, run, starts, todo, doc, histVars>>

\* Who else is about to commit a document of this key.
Rival(p) == \E q \in Process \ {p} : pc[q] = "commit" /\ KeyOf(doc[q]) = KeyOf(doc[p])

CommitWith(p, publish, supersede) ==
    /\ pc[p] = "commit"
    /\ lifecycle' = [d \in Doc |-> IF d = doc[p] /\ publish THEN "ready"
                                   ELSE IF d \in supersede THEN "superseded"
                                   ELSE lifecycle[d]]
    /\ Saved(p)
    /\ Touch(KeyOf(doc[p]))
    /\ Race(KeyOf(doc[p]))
    /\ overlapped' = IF Rival(p) THEN overlapped \cup {KeyOf(doc[p])} ELSE overlapped

StillReady(p) == {d \in victims[p] : lifecycle[d] = "ready"}

\* Seeded defect: publishes whatever the state of the document.
CommitDocumentPublishAlways(p) == CommitWith(p, TRUE, StillReady(p))

\* Seeded defect: older documents of the key are left ready.
CommitDocumentKeepOld(p) == CommitWith(p, lifecycle[doc[p]] = "absent", {})

\* The commit: a document this transaction inserted is ready; one that another
\* process inserted since the look-up keeps its state; the documents found are
\* superseded unless they were retired first.
CommitDocument(p) == CommitWith(p, lifecycle[doc[p]] = "absent", StillReady(p))

-----------------------------------------------------------------------------
(* CompleteRun, MarkFailed and the end of a process *)

\* Seeded defect: does not wait for the writers.
CheckRunEarly(p) ==
    /\ pc[p] = "save"
    /\ pc' = [pc EXCEPT ![p] = "finish"]
    /\ UNCHANGED <<registryVars, datasetVars, runVars, storeVars, run, starts, saveVars, histVars>>

\* The first statement: every linked document must be ready.
CheckRun(p) ==
    /\ pc[p] = "save" /\ todo[p] = {}
    /\ pc' = [pc EXCEPT ![p] = IF \A d \in linked[run[p]] : lifecycle[d] = "ready"
                               THEN "finish" ELSE "failing"]
    /\ UNCHANGED <<registryVars, datasetVars, runVars, storeVars, run, starts, saveVars, histVars>>

\* The UPDATE of the run and of its sources, and the commit.  When another
\* process completed the run first, that is returned; when it marked the run
\* failed, this process fails too.
CompleteRun(p) ==
    LET r == run[p]
    IN  /\ pc[p] = "finish"
        /\ IF status[r] = "running"
           THEN /\ status' = [status EXCEPT ![r] = "completed"]
                /\ output' = [output EXCEPT ![r] = linked[r]]
                /\ indexed' = indexed \cup
                       {s \in Source \X Version :
                           /\ \E d \in linked[r] : KeyOf(d) = s[1] /\ VersionOf(d) = s[2]
                           /\ ~Gone(s[1], s[2])}
           ELSE UNCHANGED <<status, output, indexed>>
        /\ pc' = [pc EXCEPT ![p] = IF status[r] = "failed" THEN "failing" ELSE "return"]
        /\ UNCHANGED <<registryVars, datasetVars, dataset, factInput, linked, lifecycle,
                       run, starts, saveVars, histVars>>

Leave(p) ==
    /\ pc' = [pc EXCEPT ![p] = "idle"]
    /\ run' = [run EXCEPT ![p] = NoRun]
    /\ todo' = [todo EXCEPT ![p] = {}]
    /\ doc' = [doc EXCEPT ![p] = NoDoc]
    /\ victims' = [victims EXCEPT ![p] = {}]
    /\ touched' = [touched EXCEPT ![p] = {}]
    /\ UNCHANGED <<registryVars, datasetVars, storeVars, starts, raced, overlapped>>

\* Audit only reads; Ingest returns its verdict and leaves the run completed.
Return(p) == pc[p] = "return" /\ Leave(p) /\ UNCHANGED runVars

\* An error of any call, the refusal of a link by the trigger included, rolls
\* back and ends in MarkFailed; a process that only reconciles just ends.
Fail(p) ==
    /\ pc[p] \in Control \ {"idle", "return", "failing"}
    /\ run[p] # NoRun
    /\ todo' = [todo EXCEPT ![p] = {}]
    /\ doc' = [doc EXCEPT ![p] = NoDoc]
    /\ victims' = [victims EXCEPT ![p] = {}]
    /\ pc' = [pc EXCEPT ![p] = "failing"]
    /\ touched' = [touched EXCEPT ![p] = {}]
    /\ UNCHANGED <<registryVars, datasetVars, runVars, storeVars, run, starts, raced, overlapped>>

MarkFailed(p) ==
    /\ pc[p] = "failing"
    /\ status' = [status EXCEPT ![run[p]] = IF @ = "running" THEN "failed" ELSE @]
    /\ Leave(p)
    /\ UNCHANGED <<dataset, factInput, output>>

\* The process dies, or MarkFailed is lost: the run keeps its status.
Crash(p) == pc[p] # "idle" /\ Leave(p) /\ UNCHANGED runVars

-----------------------------------------------------------------------------

ProcessStep(p) ==
    \/ \E r \in Run : ResumeRun(p, r) \/ \E d \in Dataset : CreateRun(p, r, d)
    \/ Reconcile(p)
    \/ StaleClusters(p) \/ SupersededNotes(p) \/ DeletedNotes(p) \/ SupersededFacts(p)
    \/ FindReusable(p) \/ LinkReusable(p)
    \/ \E d \in Doc : LookUp(p, d)
    \/ RelinkDocument(p) \/ WriteDocument(p) \/ CommitDocument(p)
    \/ CheckRun(p) \/ CompleteRun(p) \/ Return(p)
    \/ Fail(p) \/ MarkFailed(p) \/ Crash(p)

Next ==
    \/ \E k \in Key : CaptureVersion(k)
    \/ \E k \in Source : DeleteSource(k)
    \/ Freeze
    \/ \E p \in Process : ProcessStep(p)

Spec == Init /\ [][Next]_vars

-----------------------------------------------------------------------------
(* Properties *)

\* A completed run covers exactly the documents of its frozen inputs, and every
\* one of them was published: however many processes worked on the run, whichever
\* of them failed, crashed or resumed, and whoever marked it failed in between
\* (Ingest, CompleteRun, MarkFailed).
CompletedExact ==
    \A r \in Run : status[r] = "completed" =>
        /\ linked[r] = Documents(r) /\ output[r] = Documents(r)
        /\ \A d \in Documents(r) : lifecycle[d] # "absent"

\* What a process has done and has yet to do add up to its run.
Progress(p) ==
    /\ run[p] \in Run => status[run[p]] # "none"
    /\ pc[p] \in Saving \cup {"reuse", "link", "finish", "failing"} => run[p] \in Run
    /\ pc[p] \in Saving \cup {"link"} => todo[p] \subseteq Documents(run[p])
    /\ pc[p] \in Saving \cup {"finish"} => Documents(run[p]) \ todo[p] \subseteq linked[run[p]]
    /\ pc[p] = "link" => \A d \in Documents(run[p]) \ todo[p] : lifecycle[d] # "absent"
    /\ pc[p] \in {"relink", "write", "commit"} => doc[p] \in todo[p]
    /\ pc[p] = "relink" => lifecycle[doc[p]] # "absent"
    /\ pc[p] = "finish" => todo[p] = {}

ProgressExact == \A p \in Process : Progress(p)

\* Links lead to published documents of the run, and a run has a frozen dataset.
LinksExact ==
    \A r \in Run :
        /\ status[r] # "none" => dataset[r] <= frozen
        /\ status[r] = "none" => linked[r] = {}
        /\ linked[r] \subseteq Documents(r)
        /\ \A d \in linked[r] : lifecycle[d] # "absent"

\* A source is marked indexed only in a version that is not gone and that a
\* completed run covers.
IndexedCovered ==
    \A s \in indexed :
        /\ ~Gone(s[1], s[2])
        /\ \E r \in Run : status[r] = "completed"
                           /\ \E d \in linked[r] : KeyOf(d) = s[1] /\ VersionOf(d) = s[2]

\* The inductive invariant.
EvidenceInv == TypeOK /\ CompletedExact /\ ProgressExact /\ LinksExact /\ IndexedCovered

\* A document that was retired is never served as current again, although
\* SaveDocument publishes what it finds and two processes may save the same
\* document; and a completed run keeps its status and its output, although a
\* process that failed late marks it failed (migration 000016, MarkFailed).
HistoryImmutable ==
    [][ /\ \A d \in Doc : lifecycle[d] \in Retired => lifecycle'[d] = lifecycle[d]
        /\ \A r \in Run : status[r] = "completed" =>
               status'[r] = "completed" /\ output'[r] = output[r] /\ linked'[r] = linked[r]
      ]_vars

\* When ReconcileLifecycle returns to Ingest, no document of a source that is gone
\* and no fact that has a later version is ready, except for the keys that somebody
\* changed or saved since its first statement.
ReconciledUnlessTouched ==
    \A p \in Process : pc[p] = "reuse" =>
        \A d \in Ready(Key \ touched[p]) :
            IF KeyOf(d) \in Fact THEN VersionOf(d) = version[KeyOf(d)]
            ELSE ~Gone(KeyOf(d), VersionOf(d))

\* Why: each statement leaves no such document of its kind, and from then on only keys
\* that are touched get one; a published fact is no later than the latest one.
ReconcileInv ==
    /\ \A r \in Run, f \in Fact : factInput[r][f] <= version[f]
    /\ \A d \in Doc : KeyOf(d) \in Fact /\ lifecycle[d] # "absent" =>
           VersionOf(d) <= version[KeyOf(d)]
    /\ \A p \in Process : \A d \in Ready(Key \ touched[p]) :
        /\ KeyOf(d) \in Cluster /\ pc[p] \in {"superseded", "deleted", "facts", "reuse"} =>
               ~Gone(KeyOf(d), VersionOf(d))
        /\ KeyOf(d) \in Note /\ pc[p] \in {"facts", "reuse"} => ~Gone(KeyOf(d), VersionOf(d))
        /\ KeyOf(d) \in Fact /\ pc[p] = "reuse" => VersionOf(d) = version[KeyOf(d)]

\* Retrieval in the scope of a run serves ready and superseded documents whose
\* source was not deleted.
Servable(d) ==
    /\ lifecycle[d] \in {"ready", "superseded"}
    /\ KeyOf(d) \in Source =>
           ~Gone(KeyOf(d), VersionOf(d)) \/ HasSuccessor(KeyOf(d), VersionOf(d))

\* A completed run goes on serving the notes and facts it covers as long as they
\* are not deleted, whatever is edited, ingested and reconciled later; except for
\* notes edited or saved between the statements SupersededNotes and DeletedNotes
\* of some ReconcileLifecycle, whose documents the second takes for deleted.
HistoryServedUnlessRaced ==
    \A r \in Run : status[r] = "completed" =>
        \A d \in linked[r] :
            KeyOf(d) \in Fact \/ (KeyOf(d) \in Note \ raced /\ live[KeyOf(d)]) => Servable(d)

\* At most one document of a source is current, unless two processes committed
\* documents of the source at a time: neither superseding UPDATE sees the other.
OneReadyUnlessOverlapped ==
    \A d, e \in Ready(Key \ overlapped) : KeyOf(d) = KeyOf(e) => d = e

\* Why: a transaction about to commit has found every ready document of its key,
\* unless another one of the key committed since.
ReadyFound ==
    \A p \in Process : pc[p] = "commit" /\ KeyOf(doc[p]) \notin overlapped =>
        Ready({KeyOf(doc[p])}) \ {doc[p]} \subseteq victims[p]

\* Why history is served: facts are only ever superseded, notes only deleted when
\* their source is or when they raced, and between the two statements about notes
\* a ready document has a successor only when it raced.
HistoryInv ==
    /\ \A d \in Doc :
        /\ KeyOf(d) \in Fact => lifecycle[d] \in {"absent", "ready", "superseded"}
        /\ KeyOf(d) \in Note => lifecycle[d] # "stale"
        /\ KeyOf(d) \in Note \ raced /\ lifecycle[d] = "deleted" => ~live[KeyOf(d)]
    /\ \A p \in Process : pc[p] = "deleted" =>
           \A d \in Ready(Note \ raced) : ~HasSuccessor(KeyOf(d), VersionOf(d))
=============================================================================
