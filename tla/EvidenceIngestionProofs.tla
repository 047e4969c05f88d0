---------------------- MODULE EvidenceIngestionProofs ----------------------
(***************************************************************************)
(* Proofs about EvidenceIngestion: a completed run covers exactly its      *)
(* frozen inputs, and what is retired or completed never changes, for any  *)
(* number of sources, facts, runs, processes and dataset versions.         *)
(***************************************************************************)
EXTENDS EvidenceIngestion, TLAPS

\* The parts of a document's name.
LEMMA DocParts ==
    ASSUME NEW d \in Doc
    PROVE  KeyOf(d) \in Key /\ VersionOf(d) \in Version
BY DEF Doc, KeyOf, VersionOf

\* The documents of a run are documents (BuildSourceDocuments,
\* BuildFactDocuments).
LEMMA DocumentsAreDocs ==
    ASSUME TypeOK, NEW r \in Run
    PROVE  Documents(r) \subseteq Doc
<1>1. ASSUME NEW k \in Source, snapshot[dataset[r]][k] # 0
      PROVE  <<dataset[r], k, snapshot[dataset[r]][k]>> \in Doc
  <2>1. dataset[r] \in Dataset /\ k \in Key
    BY DEF TypeOK, Key
  <2>2. snapshot[dataset[r]][k] \in 0..MaxVersion
    BY <2>1 DEF TypeOK
  <2>3. snapshot[dataset[r]][k] \in Version
    BY <1>1, <2>2, EvidenceConstants DEF Version
  <2> QED BY <2>1, <2>3 DEF Doc
<1>2. ASSUME NEW f \in Fact
      PROVE  <<dataset[r], f, factInput[r][f]>> \in Doc
  BY DEF TypeOK, Doc, Key
<1> QED BY <1>1, <1>2 DEF Documents

\* The initial state.
LEMMA InitInv == Init => EvidenceInv
<1> SUFFICES ASSUME Init PROVE EvidenceInv
  OBVIOUS
<1>1. TypeOK
  BY EvidenceConstants DEF Init, TypeOK, Version, Dataset, Status, Lifecycle, Control, Source, Key
<1>2. CompletedExact /\ IndexedCovered
  BY DEF Init, CompletedExact, IndexedCovered
<1>3. ProgressExact
  BY EvidenceConstants DEF Init, Progress, ProgressExact, Saving
<1>4. LinksExact
  BY DEF Init, LinksExact
<1> QED BY <1>1, <1>2, <1>3, <1>4 DEF EvidenceInv

-----------------------------------------------------------------------------
(* Types *)

\* A statement of ReconcileLifecycle keeps the types.
LEMMA StatementType ==
    ASSUME TypeOK, NEW p \in Process, NEW from, NEW to \in Control, NEW found,
           NEW newStatus \in Lifecycle, Statement(p, from, to, found, newStatus)
    PROVE  TypeOK'
<1>1. lifecycle' \in [Doc -> Lifecycle]
  BY DEF TypeOK, Statement
<1>2. pc' \in [Process -> Control]
  BY DEF TypeOK, Statement
<1> QED BY <1>1, <1>2 DEF TypeOK, Statement, registryVars, datasetVars, runVars, saveVars, histVars

\* The end of a SaveDocument keeps the types of what it changes.
LEMMA SavedType ==
    ASSUME TypeOK, NEW p \in Process, run[p] \in Run, doc[p] \in Doc, Saved(p),
           lifecycle' \in [Doc -> Lifecycle], touched' \in [Process -> SUBSET Key],
           raced' \subseteq Note, overlapped' \subseteq Key
    PROVE  TypeOK'
<1>1. linked' \in [Run -> SUBSET Doc]
  BY DEF TypeOK, Saved
<1>2. todo' \in [Process -> SUBSET Doc] /\ victims' \in [Process -> SUBSET Doc]
      /\ doc' \in [Process -> Doc \cup {NoDoc}]
  BY DEF TypeOK, Saved
<1>3. pc' \in [Process -> Control]
  BY DEF TypeOK, Saved, Control, Saving
<1> QED BY <1>1, <1>2, <1>3 DEF TypeOK, Saved, registryVars, datasetVars, runVars

\* A process that leaves keeps the types.
LEMMA LeaveType ==
    ASSUME TypeOK, NEW p \in Process, Leave(p), status' \in [Run -> Status],
           UNCHANGED <<dataset, factInput, output>>
    PROVE  TypeOK'
<1>1. pc' \in [Process -> Control] /\ run' \in [Process -> Run \cup {NoRun}]
  BY DEF TypeOK, Leave, Control
<1>2. todo' \in [Process -> SUBSET Doc] /\ victims' \in [Process -> SUBSET Doc]
      /\ doc' \in [Process -> Doc \cup {NoDoc}]
  BY DEF TypeOK, Leave
<1>3. touched' \in [Process -> SUBSET Key]
  BY DEF TypeOK, Leave
<1> QED BY <1>1, <1>2, <1>3 DEF TypeOK, Leave, registryVars, datasetVars, storeVars

\* A process that starts keeps the types.
LEMMA StartType ==
    ASSUME TypeOK, NEW p \in Process, NEW r \in Run \cup {NoRun}, StartReconciling(p, r),
           status' \in [Run -> Status], dataset' \in [Run -> Dataset],
           factInput' \in [Run -> [Fact -> Version]], output' = output
    PROVE  TypeOK'
<1>1. pc' \in [Process -> Control] /\ run' \in [Process -> Run \cup {NoRun}]
  BY DEF TypeOK, StartReconciling, Control, Reconciling
<1>2. starts' \in 0..MaxStarts
  BY EvidenceConstants DEF TypeOK, StartReconciling
<1>3. touched' \in [Process -> SUBSET Key]
  BY DEF TypeOK, StartReconciling
<1> QED BY <1>1, <1>2, <1>3
        DEF TypeOK, StartReconciling, registryVars, datasetVars, storeVars, saveVars

\* Every step keeps the types.
LEMMA TypeStep == EvidenceInv /\ [Next]_vars => TypeOK'
<1> SUFFICES ASSUME EvidenceInv, [Next]_vars PROVE TypeOK'
  OBVIOUS
<1>t. TypeOK /\ ProgressExact
  BY DEF EvidenceInv
<1>0. CASE UNCHANGED vars
  BY <1>0, <1>t DEF TypeOK, vars, registryVars, datasetVars, runVars, storeVars, procVars,
                    saveVars, histVars
<1>1. ASSUME NEW k \in Key, CaptureVersion(k) PROVE TypeOK'
  <2>1. version' \in [Key -> Version]
    BY <1>1, <1>t, EvidenceConstants DEF TypeOK, CaptureVersion, Version
  <2>2. touched' \in [Process -> SUBSET Key] /\ raced' \subseteq Note
    BY <1>1, <1>t DEF TypeOK, CaptureVersion, Touch, Race
  <2> QED BY <1>1, <1>t, <2>1, <2>2
          DEF TypeOK, CaptureVersion, datasetVars, runVars, procVars, saveVars
<1>2. ASSUME NEW k \in Source, DeleteSource(k) PROVE TypeOK'
  <2>1. touched' \in [Process -> SUBSET Key]
    BY <1>2, <1>t DEF TypeOK, DeleteSource, Touch, Key
  <2> QED BY <1>2, <1>t, <2>1 DEF TypeOK, DeleteSource, datasetVars, runVars, procVars, saveVars
<1>3. CASE Freeze
  <2> DEFINE members == [k \in Source |-> IF live[k] THEN version[k] ELSE 0]
  <2>1. members \in [Source -> 0..MaxVersion]
    BY <1>t, EvidenceConstants DEF TypeOK, Version, Key
  <2>2. snapshot' \in [Dataset -> [Source -> 0..MaxVersion]] /\ frozen' \in 0..MaxDatasets
    BY <1>3, <1>t, <2>1, EvidenceConstants DEF TypeOK, Freeze, Dataset
  <2> QED BY <1>3, <1>t, <2>2
          DEF TypeOK, Freeze, registryVars, runVars, storeVars, procVars, saveVars, histVars
<1>4. ASSUME NEW p \in Process, ProcessStep(p) PROVE TypeOK'
  <2>1. ASSUME NEW r \in Run, ResumeRun(p, r) PROVE TypeOK'
    BY <2>1, <1>t, StartType DEF TypeOK, ResumeRun, Status
  <2>2. ASSUME NEW r \in Run, NEW d \in Dataset, CreateRun(p, r, d) PROVE TypeOK'
    <3>1. [f \in Fact |-> version[f]] \in [Fact -> Version]
      BY <1>t DEF TypeOK, Key
    <3> QED BY <2>2, <1>t, <3>1, StartType DEF TypeOK, CreateRun, Status
  <2>3. CASE Reconcile(p)
    BY <2>3, <1>t, StartType DEF TypeOK, Reconcile, runVars
  <2>4. CASE StaleClusters(p)
    BY <2>4, <1>t, StatementType DEF StaleClusters, Control, Reconciling, Lifecycle
  <2>5. CASE SupersededNotes(p)
    BY <2>5, <1>t, StatementType DEF SupersededNotes, Control, Reconciling, Lifecycle
  <2>6. CASE DeletedNotes(p)
    BY <2>6, <1>t, StatementType DEF DeletedNotes, Control, Reconciling, Lifecycle
  <2>7. CASE SupersededFacts(p)
    BY <2>7, <1>t, StatementType DEF SupersededFacts, Control, Lifecycle
  <2>8. CASE FindReusable(p)
    <3>1. run[p] \in Run
      BY <2>8, <1>t DEF Progress, ProgressExact, FindReusable
    <3>2. todo' \in [Process -> SUBSET Doc] /\ touched' \in [Process -> SUBSET Key]
      BY <2>8, <1>t, <3>1, DocumentsAreDocs DEF TypeOK, FindReusable
    <3>3. pc' \in [Process -> Control]
      BY <2>8, <1>t DEF TypeOK, FindReusable, Control
    <3> QED BY <2>8, <1>t, <3>2, <3>3
            DEF TypeOK, FindReusable, registryVars, datasetVars, runVars, storeVars
  <2>9. CASE LinkReusable(p)
    <3>1. run[p] \in Run
      BY <2>9, <1>t DEF Progress, ProgressExact, LinkReusable
    <3>2. linked' \in [Run -> SUBSET Doc]
      BY <2>9, <1>t, <3>1, DocumentsAreDocs DEF TypeOK, LinkReusable
    <3>3. pc' \in [Process -> Control]
      BY <2>9, <1>t DEF TypeOK, LinkReusable, Control, Saving
    <3> QED BY <2>9, <1>t, <3>2, <3>3
            DEF TypeOK, LinkReusable, registryVars, datasetVars, runVars, saveVars, histVars
  <2>10. ASSUME NEW d \in Doc, LookUp(p, d) PROVE TypeOK'
    <3>1. pc' \in [Process -> Control] /\ doc' \in [Process -> Doc \cup {NoDoc}]
      BY <2>10, <1>t DEF TypeOK, LookUp, Control, Saving
    <3> QED BY <2>10, <1>t, <3>1
            DEF TypeOK, LookUp, registryVars, datasetVars, runVars, storeVars, histVars
  <2>11. CASE RelinkDocument(p)
    <3>1. run[p] \in Run /\ doc[p] \in Doc
      BY <2>11, <1>t DEF TypeOK, Progress, ProgressExact, RelinkDocument, Saving
    <3> QED BY <2>11, <1>t, <3>1, SavedType DEF TypeOK, RelinkDocument, histVars
  <2>12. CASE WriteDocument(p)
    <3>1. pc' \in [Process -> Control] /\ victims' \in [Process -> SUBSET Doc]
      BY <2>12, <1>t DEF TypeOK, WriteDocument, Control, Saving, Ready
    <3> QED BY <2>12, <1>t, <3>1
            DEF TypeOK, WriteDocument, registryVars, datasetVars, runVars, storeVars, histVars
  <2>13. CASE CommitDocument(p)
    <3>1. run[p] \in Run /\ doc[p] \in Doc
      BY <2>13, <1>t DEF TypeOK, Progress, ProgressExact, CommitDocument, CommitWith, Saving
    <3>2. lifecycle' \in [Doc -> Lifecycle]
      BY <2>13, <1>t DEF TypeOK, CommitDocument, CommitWith, Lifecycle
    <3>3. touched' \in [Process -> SUBSET Key] /\ raced' \subseteq Note /\ overlapped' \subseteq Key
      BY <2>13, <1>t, <3>1, DocParts DEF TypeOK, CommitDocument, CommitWith, Touch, Race
    <3> QED BY <2>13, <1>t, <3>1, <3>2, <3>3, SavedType DEF CommitDocument, CommitWith
  <2>14. CASE CheckRun(p)
    <3>1. pc' \in [Process -> Control]
      BY <2>14, <1>t DEF TypeOK, CheckRun, Control
    <3> QED BY <2>14, <1>t, <3>1
            DEF TypeOK, CheckRun, registryVars, datasetVars, runVars, storeVars, saveVars, histVars
  <2>15. CASE CompleteRun(p)
    <3>1. run[p] \in Run
      BY <2>15, <1>t DEF Progress, ProgressExact, CompleteRun
    <3>2. status' \in [Run -> Status] /\ output' \in [Run -> SUBSET Doc]
      <4>1. CASE status[run[p]] = "running"
        <5>1. /\ status' = [status EXCEPT ![run[p]] = "completed"]
              /\ output' = [output EXCEPT ![run[p]] = linked[run[p]]]
          BY <2>15, <4>1, Zenon DEF CompleteRun
        <5> QED BY <1>t, <3>1, <5>1 DEF TypeOK, Status
      <4>2. CASE status[run[p]] # "running"
        <5>1. UNCHANGED <<status, output>>
          BY <2>15, <4>2, Zenon DEF CompleteRun
        <5> QED BY <1>t, <5>1 DEF TypeOK
      <4> QED BY <4>1, <4>2
    <3>3. indexed' \subseteq Source \X Version
      <4>1. indexed \subseteq Source \X Version
        BY <1>t DEF TypeOK
      <4>2. CASE status[run[p]] = "running"
        <5>1. indexed' = indexed \cup
                  {s \in Source \X Version :
                      /\ \E d \in linked[run[p]] : KeyOf(d) = s[1] /\ VersionOf(d) = s[2]
                      /\ ~Gone(s[1], s[2])}
          BY <2>15, <4>2, Zenon DEF CompleteRun
        <5> QED BY <4>1, <5>1, Zenon
      <4>3. CASE status[run[p]] # "running"
        BY <2>15, <4>1, <4>3 DEF CompleteRun
      <4> QED BY <4>2, <4>3
    <3>4. pc' \in [Process -> Control]
      BY <2>15, <1>t DEF TypeOK, CompleteRun, Control
    <3> QED BY <2>15, <1>t, <3>2, <3>3, <3>4
            DEF TypeOK, CompleteRun, registryVars, datasetVars, saveVars, histVars
  <2>16. CASE Return(p)
    BY <2>16, <1>t, LeaveType DEF TypeOK, Return, runVars
  <2>17. CASE Fail(p)
    <3>1. pc' \in [Process -> Control] /\ todo' \in [Process -> SUBSET Doc]
          /\ victims' \in [Process -> SUBSET Doc] /\ doc' \in [Process -> Doc \cup {NoDoc}]
          /\ touched' \in [Process -> SUBSET Key]
      BY <2>17, <1>t DEF TypeOK, Fail, Control
    <3> QED BY <2>17, <1>t, <3>1
            DEF TypeOK, Fail, registryVars, datasetVars, runVars, storeVars
  <2>18. CASE MarkFailed(p)
    BY <2>18, <1>t, LeaveType DEF TypeOK, MarkFailed, Status
  <2>19. CASE Crash(p)
    BY <2>19, <1>t, LeaveType DEF TypeOK, Crash, runVars
  <2> QED BY <1>4, <2>1, <2>2, <2>3, <2>4, <2>5, <2>6, <2>7, <2>8, <2>9, <2>10, <2>11, <2>12,
             <2>13, <2>14, <2>15, <2>16, <2>17, <2>18, <2>19 DEF ProcessStep
<1> QED BY <1>0, <1>1, <1>2, <1>3, <1>4 DEF Next

-----------------------------------------------------------------------------
(* What a step leaves alone *)

\* A run that exists goes on existing and keeps its inputs: the dataset version
\* and the facts it froze.
LEMMA InputsKept ==
    ASSUME EvidenceInv, [Next]_vars, NEW r \in Run, status[r] # "none"
    PROVE  /\ status'[r] # "none" /\ Documents(r)' = Documents(r)
           /\ dataset'[r] = dataset[r] /\ frozen' >= frozen
<1>t. TypeOK /\ ProgressExact /\ LinksExact
  BY DEF EvidenceInv
<1> DEFINE Kept == /\ status'[r] # "none" /\ dataset'[r] = dataset[r] /\ frozen' >= frozen
                   /\ factInput'[r] = factInput[r] /\ snapshot'[dataset[r]] = snapshot[dataset[r]]
<1> SUFFICES Kept
  BY DEF Documents
<1>u. ASSUME UNCHANGED <<datasetVars, runVars>> PROVE Kept
  BY <1>u, <1>t DEF datasetVars, runVars, TypeOK
<1>0. CASE UNCHANGED vars
  BY <1>0, <1>u DEF vars
<1>1. ASSUME NEW k \in Key, CaptureVersion(k) PROVE Kept
  BY <1>1, <1>u DEF CaptureVersion
<1>2. ASSUME NEW k \in Source, DeleteSource(k) PROVE Kept
  BY <1>2, <1>u DEF DeleteSource
<1>3. CASE Freeze
  <2>1. dataset[r] <= frozen /\ dataset[r] \in Dataset /\ frozen \in 0..MaxDatasets
    BY <1>t DEF LinksExact, TypeOK
  <2>2. dataset[r] # frozen + 1
    BY <2>1, EvidenceConstants DEF Dataset
  <2> QED BY <1>3, <1>t, <2>1, <2>2 DEF Freeze, runVars, TypeOK
<1>4. ASSUME NEW p \in Process, ProcessStep(p) PROVE Kept
  <2>1. ASSUME NEW q \in Run, ResumeRun(p, q) PROVE Kept
    BY <2>1, <1>t DEF ResumeRun, StartReconciling, datasetVars, TypeOK
  <2>2. ASSUME NEW q \in Run, NEW d \in Dataset, CreateRun(p, q, d) PROVE Kept
    BY <2>2, <1>t DEF CreateRun, StartReconciling, datasetVars, TypeOK
  <2>3. CASE Reconcile(p)
    BY <2>3, <1>u DEF Reconcile, StartReconciling
  <2>4. CASE StaleClusters(p) \/ SupersededNotes(p) \/ DeletedNotes(p) \/ SupersededFacts(p)
    BY <2>4, <1>u DEF StaleClusters, SupersededNotes, DeletedNotes, SupersededFacts, Statement
  <2>5. CASE FindReusable(p) \/ LinkReusable(p)
    BY <2>5, <1>u DEF FindReusable, LinkReusable
  <2>6. ASSUME NEW d \in Doc, LookUp(p, d) PROVE Kept
    BY <2>6, <1>u DEF LookUp
  <2>7. CASE RelinkDocument(p) \/ WriteDocument(p) \/ CommitDocument(p)
    BY <2>7, <1>u DEF RelinkDocument, WriteDocument, CommitDocument, CommitWith, Saved
  <2>8. CASE CheckRun(p) \/ Fail(p)
    BY <2>8, <1>u DEF CheckRun, Fail
  <2>9. CASE CompleteRun(p)
    <3>1. /\ UNCHANGED <<datasetVars, dataset, factInput>>
          /\ status' = status \/ status' = [status EXCEPT ![run[p]] = "completed"]
      BY <2>9, Zenon DEF CompleteRun
    <3> QED BY <1>t, <3>1 DEF TypeOK, datasetVars
  <2>10. CASE Return(p) \/ Crash(p)
    BY <2>10, <1>u DEF Return, Crash, Leave
  <2>11. CASE MarkFailed(p)
    BY <2>11, <1>t DEF MarkFailed, Leave, datasetVars, TypeOK
  <2> QED BY <1>4, <2>1, <2>2, <2>3, <2>4, <2>5, <2>6, <2>7, <2>8, <2>9, <2>10, <2>11
          DEF ProcessStep
<1> QED BY <1>0, <1>1, <1>2, <1>3, <1>4 DEF Next

\* A published document stays published, and one that was retired stays as it is
\* (ReconcileLifecycle and SaveDocument only retire what is ready, SaveDocument
\* only publishes what it inserted).
LEMMA LifecycleKept ==
    ASSUME EvidenceInv, [Next]_vars, NEW e \in Doc
    PROVE  /\ lifecycle[e] # "absent" => lifecycle'[e] # "absent"
           /\ lifecycle[e] \in Retired => lifecycle'[e] = lifecycle[e]
<1>t. TypeOK /\ ProgressExact
  BY DEF EvidenceInv
<1> DEFINE Kept == /\ lifecycle[e] # "absent" => lifecycle'[e] # "absent"
                   /\ lifecycle[e] \in Retired => lifecycle'[e] = lifecycle[e]
<1>u. ASSUME UNCHANGED lifecycle PROVE Kept
  BY <1>u
<1>v. ASSUME NEW p \in Process, NEW from, NEW to, NEW keys, NEW found \in SUBSET Ready(keys),
             NEW newStatus \in Retired, Statement(p, from, to, found, newStatus)
      PROVE  Kept
  BY <1>v DEF Statement, Ready, Retired
<1>0. CASE UNCHANGED vars
  BY <1>0, <1>u DEF vars, storeVars
<1>1. ASSUME NEW k \in Key, CaptureVersion(k) PROVE Kept
  BY <1>1, <1>u DEF CaptureVersion
<1>2. ASSUME NEW k \in Source, DeleteSource(k) PROVE Kept
  BY <1>2, <1>u DEF DeleteSource
<1>3. CASE Freeze
  BY <1>3, <1>u DEF Freeze, storeVars
<1>4. ASSUME NEW p \in Process, ProcessStep(p) PROVE Kept
  <2>1. ASSUME NEW q \in Run, ResumeRun(p, q) \/ \E d \in Dataset : CreateRun(p, q, d) PROVE Kept
    BY <2>1, <1>u DEF ResumeRun, CreateRun, StartReconciling, storeVars
  <2>3. CASE Reconcile(p)
    BY <2>3, <1>u DEF Reconcile, StartReconciling, storeVars
  <2>4. CASE StaleClusters(p)
    BY <2>4, <1>v DEF StaleClusters, Retired
  <2>5. CASE SupersededNotes(p)
    BY <2>5, <1>v DEF SupersededNotes, Retired
  <2>6. CASE DeletedNotes(p)
    BY <2>6, <1>v DEF DeletedNotes, Retired
  <2>7. CASE SupersededFacts(p)
    BY <2>7, <1>v DEF SupersededFacts, Retired
  <2>8. CASE FindReusable(p) \/ LinkReusable(p)
    BY <2>8, <1>u DEF FindReusable, LinkReusable, storeVars
  <2>9. ASSUME NEW d \in Doc, LookUp(p, d) PROVE Kept
    BY <2>9, <1>u DEF LookUp, storeVars
  <2>10. CASE RelinkDocument(p) \/ WriteDocument(p)
    BY <2>10, <1>u DEF RelinkDocument, WriteDocument, storeVars
  <2>11. CASE CommitDocument(p)
    <3>1. lifecycle' = [d \in Doc |-> IF d = doc[p] /\ lifecycle[doc[p]] = "absent" THEN "ready"
                                      ELSE IF d \in StillReady(p) THEN "superseded"
                                      ELSE lifecycle[d]]
      BY <2>11 DEF CommitDocument, CommitWith
    <3>2. e \in StillReady(p) => lifecycle[e] = "ready"
      BY DEF StillReady
    <3> QED BY <3>1, <3>2 DEF Retired
  <2>12. CASE CheckRun(p) \/ Fail(p)
    BY <2>12, <1>u DEF CheckRun, Fail, storeVars
  <2>13. CASE CompleteRun(p)
    BY <2>13, <1>u, Zenon DEF CompleteRun
  <2>14. CASE Return(p) \/ Crash(p) \/ MarkFailed(p)
    BY <2>14, <1>u DEF Return, Crash, MarkFailed, Leave, storeVars
  <2> QED BY <1>4, <2>1, <2>3, <2>4, <2>5, <2>6, <2>7, <2>8, <2>9, <2>10, <2>11, <2>12, <2>13,
             <2>14 DEF ProcessStep
<1> QED BY <1>0, <1>1, <1>2, <1>3, <1>4 DEF Next

\* Links are only added, to a run that exists, and lead to published documents of
\* the run (LinkReusableDocuments, SaveDocument).
LEMMA LinksKept ==
    ASSUME EvidenceInv, [Next]_vars, NEW r \in Run
    PROVE  \/ linked'[r] = linked[r]
           \/ /\ status[r] # "none" /\ linked[r] \subseteq linked'[r]
              /\ linked'[r] \subseteq linked[r] \cup Documents(r)
              /\ \A d \in linked'[r] \ linked[r] : lifecycle'[d] # "absent"
<1>t. TypeOK /\ ProgressExact
  BY DEF EvidenceInv
<1> DEFINE Kept == \/ linked'[r] = linked[r]
                   \/ /\ status[r] # "none" /\ linked[r] \subseteq linked'[r]
                      /\ linked'[r] \subseteq linked[r] \cup Documents(r)
                      /\ \A d \in linked'[r] \ linked[r] : lifecycle'[d] # "absent"
<1>u. ASSUME UNCHANGED linked PROVE Kept
  BY <1>u
<1>v. ASSUME NEW p \in Process, pc[p] \in {"relink", "commit"}, Saved(p),
             lifecycle'[doc[p]] # "absent"
      PROVE  Kept
  <2>1. run[p] \in Run /\ status[run[p]] # "none" /\ doc[p] \in Documents(run[p])
    BY <1>v, <1>t DEF Progress, ProgressExact, Saving
  <2> QED BY <1>v, <1>t, <2>1 DEF Saved, TypeOK
<1>0. CASE UNCHANGED vars
  BY <1>0, <1>u DEF vars, storeVars
<1>1. ASSUME NEW k \in Key, CaptureVersion(k) PROVE Kept
  BY <1>1, <1>u DEF CaptureVersion
<1>2. ASSUME NEW k \in Source, DeleteSource(k) PROVE Kept
  BY <1>2, <1>u DEF DeleteSource
<1>3. CASE Freeze
  BY <1>3, <1>u DEF Freeze, storeVars
<1>4. ASSUME NEW p \in Process, ProcessStep(p) PROVE Kept
  <2>1. ASSUME NEW q \in Run, ResumeRun(p, q) \/ \E d \in Dataset : CreateRun(p, q, d) PROVE Kept
    BY <2>1, <1>u DEF ResumeRun, CreateRun, StartReconciling, storeVars
  <2>3. CASE Reconcile(p)
    BY <2>3, <1>u DEF Reconcile, StartReconciling, storeVars
  <2>4. CASE StaleClusters(p) \/ SupersededNotes(p) \/ DeletedNotes(p) \/ SupersededFacts(p)
    BY <2>4, <1>u DEF StaleClusters, SupersededNotes, DeletedNotes, SupersededFacts, Statement
  <2>5. CASE FindReusable(p)
    BY <2>5, <1>u DEF FindReusable, storeVars
  <2>6. CASE LinkReusable(p)
    <3>1. /\ run[p] \in Run /\ status[run[p]] # "none"
          /\ \A d \in Documents(run[p]) \ todo[p] : lifecycle[d] # "absent"
      BY <2>6, <1>t DEF Progress, ProgressExact, LinkReusable
    <3>2. /\ linked' = [linked EXCEPT ![run[p]] = @ \cup (Documents(run[p]) \ todo[p])]
          /\ lifecycle' = lifecycle
      BY <2>6 DEF LinkReusable
    <3> QED BY <1>t, <3>1, <3>2 DEF TypeOK
  <2>7. ASSUME NEW d \in Doc, LookUp(p, d) PROVE Kept
    BY <2>7, <1>u DEF LookUp, storeVars
  <2>8. CASE RelinkDocument(p)
    BY <2>8, <1>t, <1>v DEF RelinkDocument, Progress, ProgressExact
  <2>9. CASE WriteDocument(p)
    BY <2>9, <1>u DEF WriteDocument, storeVars
  <2>10. CASE CommitDocument(p)
    <3>1. doc[p] \in Doc
      BY <2>10, <1>t DEF TypeOK, Progress, ProgressExact, CommitDocument, CommitWith
    <3>2. lifecycle'[doc[p]] # "absent"
      BY <2>10, <3>1 DEF CommitDocument, CommitWith
    <3> QED BY <2>10, <1>v, <3>2 DEF CommitDocument, CommitWith
  <2>11. CASE CheckRun(p) \/ Fail(p)
    BY <2>11, <1>u DEF CheckRun, Fail, storeVars
  <2>12. CASE CompleteRun(p)
    BY <2>12, <1>u, Zenon DEF CompleteRun
  <2>13. CASE Return(p) \/ Crash(p) \/ MarkFailed(p)
    BY <2>13, <1>u DEF Return, Crash, MarkFailed, Leave, storeVars
  <2> QED BY <1>4, <2>1, <2>3, <2>4, <2>5, <2>6, <2>7, <2>8, <2>9, <2>10, <2>11, <2>12, <2>13
          DEF ProcessStep
<1> QED BY <1>0, <1>1, <1>2, <1>3, <1>4 DEF Next

\* Status and output change only while the run is not completed; it becomes
\* completed in CompleteRun, when a process has saved all of its documents.
LEMMA RunKept ==
    ASSUME EvidenceInv, [Next]_vars, NEW r \in Run
    PROVE  /\ status[r] = "completed" => status'[r] = "completed" /\ output'[r] = output[r]
           /\ status[r] # "completed" /\ status'[r] = "completed" =>
                  /\ status[r] # "none" /\ Documents(r) \subseteq linked[r]
                  /\ linked'[r] = linked[r] /\ output'[r] = linked[r]
<1>t. TypeOK /\ ProgressExact
  BY DEF EvidenceInv
<1> DEFINE Kept == /\ status[r] = "completed" => status'[r] = "completed" /\ output'[r] = output[r]
                   /\ status[r] # "completed" /\ status'[r] = "completed" =>
                          /\ status[r] # "none" /\ Documents(r) \subseteq linked[r]
                          /\ linked'[r] = linked[r] /\ output'[r] = linked[r]
<1>u. ASSUME UNCHANGED <<status, output>> PROVE Kept
  BY <1>u
<1>0. CASE UNCHANGED vars
  BY <1>0, <1>u DEF vars, runVars
<1>1. ASSUME NEW k \in Key, CaptureVersion(k) PROVE Kept
  BY <1>1, <1>u DEF CaptureVersion, runVars
<1>2. ASSUME NEW k \in Source, DeleteSource(k) PROVE Kept
  BY <1>2, <1>u DEF DeleteSource, runVars
<1>3. CASE Freeze
  BY <1>3, <1>u DEF Freeze, runVars
<1>4. ASSUME NEW p \in Process, ProcessStep(p) PROVE Kept
  <2>1. ASSUME NEW q \in Run, ResumeRun(p, q) PROVE Kept
    BY <2>1, <1>t DEF ResumeRun, TypeOK
  <2>2. ASSUME NEW q \in Run, NEW d \in Dataset, CreateRun(p, q, d) PROVE Kept
    BY <2>2, <1>t DEF CreateRun, TypeOK
  <2>3. CASE Reconcile(p)
    BY <2>3, <1>u DEF Reconcile, runVars
  <2>4. CASE StaleClusters(p) \/ SupersededNotes(p) \/ DeletedNotes(p) \/ SupersededFacts(p)
    BY <2>4, <1>u DEF StaleClusters, SupersededNotes, DeletedNotes, SupersededFacts, Statement, runVars
  <2>5. CASE FindReusable(p) \/ LinkReusable(p)
    BY <2>5, <1>u DEF FindReusable, LinkReusable, runVars
  <2>6. ASSUME NEW d \in Doc, LookUp(p, d) PROVE Kept
    BY <2>6, <1>u DEF LookUp, runVars
  <2>7. CASE RelinkDocument(p) \/ WriteDocument(p) \/ CommitDocument(p)
    BY <2>7, <1>u DEF RelinkDocument, WriteDocument, CommitDocument, CommitWith, Saved, runVars
  <2>8. CASE CheckRun(p) \/ Fail(p)
    BY <2>8, <1>u DEF CheckRun, Fail, runVars
  <2>9. CASE CompleteRun(p)
    <3>1. run[p] \in Run /\ Documents(run[p]) \subseteq linked[run[p]]
      BY <2>9, <1>t DEF Progress, ProgressExact, CompleteRun
    <3>2. CASE status[run[p]] = "running"
      <4>1. /\ status' = [status EXCEPT ![run[p]] = "completed"]
            /\ output' = [output EXCEPT ![run[p]] = linked[run[p]]]
            /\ linked' = linked
        BY <2>9, <3>2, Zenon DEF CompleteRun
      <4> QED BY <1>t, <3>1, <3>2, <4>1 DEF TypeOK
    <3>3. CASE status[run[p]] # "running"
      <4>1. UNCHANGED <<status, output>>
        BY <2>9, <3>3, Zenon DEF CompleteRun
      <4> QED BY <4>1, <1>u
    <3> QED BY <3>2, <3>3
  <2>10. CASE Return(p) \/ Crash(p)
    BY <2>10, <1>u DEF Return, Crash, runVars
  <2>11. CASE MarkFailed(p)
    BY <2>11, <1>t DEF MarkFailed, TypeOK
  <2> QED BY <1>4, <2>1, <2>2, <2>3, <2>4, <2>5, <2>6, <2>7, <2>8, <2>9, <2>10, <2>11
          DEF ProcessStep
<1> QED BY <1>0, <1>1, <1>2, <1>3, <1>4 DEF Next

-----------------------------------------------------------------------------
(* The parts of the invariant *)

\* A step keeps what completed runs cover.
LEMMA CompletedStep ==
    ASSUME EvidenceInv, [Next]_vars
    PROVE  CompletedExact'
<1> SUFFICES ASSUME NEW r \in Run, status'[r] = "completed"
             PROVE  /\ linked'[r] = Documents(r)' /\ output'[r] = Documents(r)'
                    /\ \A d \in Documents(r)' : lifecycle'[d] # "absent"
  BY DEF CompletedExact
<1>t. TypeOK /\ CompletedExact /\ LinksExact
  BY DEF EvidenceInv
<1>0. status[r] # "none" /\ Documents(r)' = Documents(r)
  <2>1. status[r] # "none"
    BY RunKept
  <2> QED BY <2>1, InputsKept
<1>1. CASE status[r] = "completed"
  BY <1>0, <1>1, <1>t, RunKept, LinksKept, LifecycleKept, DocumentsAreDocs DEF CompletedExact
<1>2. CASE status[r] # "completed"
  BY <1>0, <1>2, <1>t, RunKept, LifecycleKept, DocumentsAreDocs DEF LinksExact
<1> QED BY <1>1, <1>2

\* A run that begins has a frozen dataset version (BeginRun).
LEMMA RunBegins ==
    ASSUME EvidenceInv, [Next]_vars, NEW r \in Run, status[r] = "none", status'[r] # "none"
    PROVE  dataset'[r] <= frozen'
<1>t. TypeOK /\ ProgressExact
  BY DEF EvidenceInv
<1>1. PICK p \in Process : ProcessStep(p) /\ status' # status
  BY DEF Next, vars, runVars, CaptureVersion, DeleteSource, Freeze
<1>2. ASSUME NEW q \in Run, ResumeRun(p, q) PROVE FALSE
  BY <1>2, <1>t DEF ResumeRun, TypeOK
<1>3. ASSUME NEW q \in Run, NEW d \in Dataset, CreateRun(p, q, d) PROVE dataset'[r] <= frozen'
  BY <1>3, <1>t DEF CreateRun, StartReconciling, datasetVars, TypeOK
<1>4. CASE CompleteRun(p)
  <2>1. run[p] \in Run /\ status[run[p]] # "none"
    BY <1>4, <1>t DEF CompleteRun, Progress, ProgressExact
  <2>2. status' = status \/ status' = [status EXCEPT ![run[p]] = "completed"]
    BY <1>4, Zenon DEF CompleteRun
  <2> QED BY <1>t, <2>1, <2>2 DEF TypeOK
<1>5. CASE MarkFailed(p)
  BY <1>5, <1>t DEF MarkFailed, TypeOK
<1> QED BY <1>1, <1>2, <1>3, <1>4, <1>5
        DEF ProcessStep, Reconcile, StaleClusters, SupersededNotes, DeletedNotes, SupersededFacts,
            Statement, FindReusable, LinkReusable, LookUp, RelinkDocument, WriteDocument,
            CommitDocument, CommitWith, Saved, CheckRun, Return, Fail, Crash, runVars

\* A step keeps the links exact.
LEMMA LinksStep ==
    ASSUME EvidenceInv, [Next]_vars
    PROVE  LinksExact'
<1> SUFFICES ASSUME NEW r \in Run
             PROVE  /\ status'[r] # "none" => dataset'[r] <= frozen'
                    /\ status'[r] = "none" => linked'[r] = {}
                    /\ linked'[r] \subseteq Documents(r)'
                    /\ \A d \in linked'[r] : lifecycle'[d] # "absent"
  BY DEF LinksExact
<1>t. TypeOK /\ LinksExact
  BY DEF EvidenceInv
<1>t2. TypeOK'
  BY TypeStep
<1>1. CASE status[r] = "none"
  <2>1. linked'[r] = {}
    BY <1>1, <1>t, LinksKept DEF LinksExact
  <2> QED BY <1>1, <2>1, RunBegins
<1>2. CASE status[r] # "none"
  <2>1. /\ status'[r] # "none" /\ Documents(r)' = Documents(r)
        /\ dataset'[r] = dataset[r] /\ frozen' >= frozen
    BY <1>2, InputsKept
  <2>2. dataset'[r] <= frozen'
    BY <1>2, <1>t, <1>t2, <2>1 DEF LinksExact, TypeOK, Dataset
  <2>3. linked[r] \subseteq Documents(r) /\ \A d \in linked[r] : lifecycle'[d] # "absent"
    BY <1>t, LifecycleKept DEF LinksExact, TypeOK
  <2> QED BY <2>1, <2>2, <2>3, LinksKept
<1> QED BY <1>1, <1>2

\* A source that is marked indexed stays covered until it changes.
LEMMA IndexedStep ==
    ASSUME EvidenceInv, [Next]_vars
    PROVE  IndexedCovered'
<1>t. TypeOK /\ IndexedCovered
  BY DEF EvidenceInv
<1> DEFINE Covers(r, s) == \E d \in linked[r] : KeyOf(d) = s[1] /\ VersionOf(d) = s[2]
<1>1. ASSUME NEW s \in indexed PROVE \E r \in Run : status'[r] = "completed" /\ Covers(r, s)'
  <2>1. PICK r \in Run : status[r] = "completed" /\ Covers(r, s)
    BY <1>1, <1>t DEF IndexedCovered
  <2>2. status'[r] = "completed" /\ linked[r] \subseteq linked'[r]
    BY <2>1, RunKept, LinksKept
  <2> QED BY <2>1, <2>2
<1>2. ASSUME UNCHANGED <<registryVars, indexed>> PROVE IndexedCovered'
  BY <1>1, <1>2, <1>t DEF IndexedCovered, Gone, registryVars
<1>3. ASSUME NEW k \in Key, CaptureVersion(k) PROVE IndexedCovered'
  <2>1. /\ version' = [version EXCEPT ![k] = @ + 1] /\ live' = live
        /\ indexed' = {s \in indexed : s[1] # k}
    BY <1>3 DEF CaptureVersion
  <2>2. ASSUME NEW s \in indexed, s[1] # k PROVE ~Gone(s[1], s[2])'
    <3>1. s[1] \in Key /\ ~Gone(s[1], s[2])
      BY <2>2, <1>t DEF TypeOK, IndexedCovered, Key
    <3> QED BY <2>1, <2>2, <3>1, <1>t DEF Gone, TypeOK
  <2> QED BY <1>1, <2>1, <2>2 DEF IndexedCovered
<1>4. ASSUME NEW k \in Source, DeleteSource(k) PROVE IndexedCovered'
  <2>1. /\ live' = [live EXCEPT ![k] = FALSE] /\ version' = version
        /\ indexed' = {s \in indexed : s[1] # k}
    BY <1>4 DEF DeleteSource
  <2>2. ASSUME NEW s \in indexed, s[1] # k PROVE ~Gone(s[1], s[2])'
    <3>1. s[1] \in Source /\ ~Gone(s[1], s[2])
      BY <2>2, <1>t DEF TypeOK, IndexedCovered
    <3> QED BY <2>1, <2>2, <3>1, <1>t DEF Gone, TypeOK
  <2> QED BY <1>1, <2>1, <2>2 DEF IndexedCovered
<1>5. ASSUME NEW p \in Process, CompleteRun(p) PROVE IndexedCovered'
  <2>0. PICK q \in Run : q = run[p]
    BY <1>5, Zenon DEF CompleteRun, EvidenceInv, Progress, ProgressExact
  <2>1. UNCHANGED registryVars /\ linked' = linked
    BY <1>5, Zenon DEF CompleteRun
  <2>2. CASE status[q] = "running"
    <3>1. /\ status' = [status EXCEPT ![q] = "completed"]
          /\ indexed' = indexed \cup {s \in Source \X Version : Covers(q, s) /\ ~Gone(s[1], s[2])}
      BY <1>5, <2>0, <2>2, Zenon DEF CompleteRun
    <3>2. status'[q] = "completed"
      BY <1>t, <2>1, <3>1 DEF TypeOK
    <3>3. \A s \in indexed' : ~Gone(s[1], s[2])'
      <4>1. \A s \in indexed' : ~Gone(s[1], s[2])
        BY <1>t, <3>1, Zenon DEF IndexedCovered
      <4> QED BY <2>1, <4>1 DEF Gone, registryVars
    <3>4. \A s \in indexed' : \E r \in Run : status'[r] = "completed" /\ Covers(r, s)'
      <4>1. \A s : Covers(q, s)' <=> Covers(q, s)
        BY <2>1
      <4> HIDE DEF Covers
      <4> QED BY <1>1, <2>1, <3>1, <3>2, <4>1, Zenon
    <3> QED BY <3>3, <3>4, Zenon DEF IndexedCovered
  <2>3. CASE status[q] # "running"
    <3>1. UNCHANGED <<registryVars, indexed>>
      BY <1>5, <2>0, <2>3, Zenon DEF CompleteRun
    <3> QED BY <3>1, <1>2
  <2> QED BY <2>2, <2>3
<1>6. CASE UNCHANGED vars
  BY <1>6, <1>2 DEF vars, storeVars
<1>7. CASE Freeze
  BY <1>7, <1>2 DEF Freeze, storeVars
<1>8. ASSUME NEW p \in Process, ProcessStep(p), ~CompleteRun(p) PROVE IndexedCovered'
  <2>1. UNCHANGED <<registryVars, indexed>>
    BY <1>8
       DEF ProcessStep, ResumeRun, CreateRun, Reconcile, StartReconciling, StaleClusters,
           SupersededNotes, DeletedNotes, SupersededFacts, Statement, FindReusable, LinkReusable,
           LookUp, RelinkDocument, WriteDocument, CommitDocument, CommitWith, Saved, CheckRun,
           Return, Fail, MarkFailed, Crash, Leave, storeVars
  <2> QED BY <2>1, <1>2
<1> QED BY <1>3, <1>4, <1>5, <1>6, <1>7, <1>8 DEF Next

\* A process that takes no step keeps its progress, whatever the others do.
LEMMA ProgressFrame ==
    ASSUME EvidenceInv, [Next]_vars, NEW q \in Process,
           pc'[q] = pc[q], run'[q] = run[q], todo'[q] = todo[q], doc'[q] = doc[q]
    PROVE  Progress(q)'
<1>t. TypeOK /\ Progress(q)
  BY DEF EvidenceInv, ProgressExact
<1>1. CASE run[q] \notin Run
  BY <1>1, <1>t DEF Progress, Saving
<1>2. CASE run[q] \in Run
  <2>0. PICK r \in Run : r = run[q]
    BY <1>2
  <2>1. status'[r] # "none" /\ Documents(r)' = Documents(r)
    BY <1>t, <2>0, InputsKept DEF Progress
  <2>2. linked[r] \subseteq linked'[r]
    BY LinksKept
  <2>3. \A d \in Doc : lifecycle[d] # "absent" => lifecycle'[d] # "absent"
    BY LifecycleKept
  <2>4. Documents(r) \subseteq Doc
    BY <1>t, DocumentsAreDocs
  <2>5. Documents(run[q])' = Documents(run[q])
    BY <2>0, <2>1 DEF Documents
  <2>6. pc[q] = "relink" => lifecycle'[doc[q]] # "absent"
    BY <1>t, <2>0, <2>3, <2>4 DEF Progress, Saving
  <2> QED BY <1>t, <2>0, <2>1, <2>2, <2>3, <2>4, <2>5, <2>6 DEF Progress
<1> QED BY <1>1, <1>2

\* What a step of p leaves to the other processes.
LEMMA OthersKept ==
    ASSUME TypeOK, NEW p \in Process, ProcessStep(p), NEW q \in Process \ {p}
    PROVE  pc'[q] = pc[q] /\ run'[q] = run[q] /\ todo'[q] = todo[q] /\ doc'[q] = doc[q]
<1>1. CASE CompleteRun(p)
  <2>1. pc' = [pc EXCEPT ![p] = IF status[run[p]] = "failed" THEN "failing" ELSE "return"]
        /\ UNCHANGED <<run, saveVars>>
    BY <1>1, Zenon DEF CompleteRun
  <2> QED BY <2>1 DEF TypeOK, saveVars
<1>2. CASE ~CompleteRun(p)
  BY <1>2
     DEF TypeOK, ProcessStep, ResumeRun, CreateRun, Reconcile, StartReconciling, StaleClusters,
         SupersededNotes, DeletedNotes, SupersededFacts, Statement, FindReusable, LinkReusable,
         LookUp, RelinkDocument, WriteDocument, CommitDocument, CommitWith, Saved, CheckRun,
         Return, Fail, MarkFailed, Crash, Leave, saveVars
<1> QED BY <1>1, <1>2

\* A step keeps the progress of every process.
LEMMA ProgressStep ==
    ASSUME EvidenceInv, [Next]_vars
    PROVE  ProgressExact'
<1>t. TypeOK /\ ProgressExact /\ LinksExact
  BY DEF EvidenceInv
<1>u. ASSUME UNCHANGED procVars PROVE ProgressExact'
  BY <1>u, ProgressFrame DEF procVars, saveVars, ProgressExact
<1>1. CASE UNCHANGED vars
  BY <1>1, <1>u DEF vars
<1>2. ASSUME NEW k \in Key, CaptureVersion(k) PROVE ProgressExact'
  BY <1>2, <1>u DEF CaptureVersion
<1>3. ASSUME NEW k \in Source, DeleteSource(k) PROVE ProgressExact'
  BY <1>3, <1>u DEF DeleteSource
<1>4. CASE Freeze
  BY <1>4, <1>u DEF Freeze
<1>5. ASSUME NEW p \in Process, ProcessStep(p) PROVE ProgressExact'
  <2>a. ASSUME NEW q \in Process \ {p} PROVE Progress(q)'
    BY <1>5, <1>t, <2>a, OthersKept, ProgressFrame
  <2> SUFFICES Progress(p)'
    BY <2>a DEF ProgressExact
  <2>b. Progress(p)
    BY <1>t DEF ProgressExact
  <2>c. \A r \in Run : status[r] # "none" => status'[r] # "none" /\ Documents(r)' = Documents(r)
    BY InputsKept
  <2>d. ASSUME pc'[p] \in {"idle", "return"} \cup Reconciling,
               run'[p] \in Run => status'[run'[p]] # "none"
        PROVE  Progress(p)'
    BY <2>d DEF Progress, Saving, Reconciling
  <2>e. ASSUME pc'[p] = "failing", run'[p] = run[p], run[p] \in Run PROVE Progress(p)'
    BY <2>b, <2>c, <2>e DEF Progress, Saving
  <2>1. ASSUME NEW r \in Run, ResumeRun(p, r) PROVE Progress(p)'
    <3>1. pc'[p] = "stale" /\ run'[p] = r /\ status'[r] # "none"
      BY <1>t, <2>1 DEF ResumeRun, StartReconciling, TypeOK
    <3> QED BY <2>d, <3>1 DEF Reconciling
  <2>2. ASSUME NEW r \in Run, NEW d \in Dataset, CreateRun(p, r, d) PROVE Progress(p)'
    <3>1. pc'[p] = "stale" /\ run'[p] = r /\ status'[r] # "none"
      BY <1>t, <2>2 DEF CreateRun, StartReconciling, TypeOK
    <3> QED BY <2>d, <3>1 DEF Reconciling
  <2>3. CASE Reconcile(p)
    <3>1. pc'[p] = "stale" /\ run'[p] = NoRun
      BY <1>t, <2>3 DEF Reconcile, StartReconciling, TypeOK
    <3> QED BY <2>d, <3>1, EvidenceConstants DEF Reconciling
  <2>4. CASE StaleClusters(p) \/ SupersededNotes(p) \/ DeletedNotes(p)
    <3>1. pc'[p] \in Reconciling /\ run' = run /\ status' = status
      BY <1>t, <2>4 DEF StaleClusters, SupersededNotes, DeletedNotes, Statement, Reconciling,
                        runVars, TypeOK
    <3> QED BY <2>b, <2>d, <3>1 DEF Progress
  <2>5. CASE SupersededFacts(p)
    <3>1. /\ pc'[p] = IF run[p] = NoRun THEN "return" ELSE "reuse"
          /\ run' = run /\ status' = status
      BY <1>t, <2>5 DEF SupersededFacts, Statement, runVars, TypeOK
    <3>2. run[p] \in Run \cup {NoRun}
      BY <1>t DEF TypeOK
    <3>3. CASE run[p] = NoRun
      BY <2>b, <2>d, <3>1, <3>3 DEF Progress
    <3>4. CASE run[p] \in Run
      BY <2>b, <3>1, <3>4, EvidenceConstants DEF Progress, Saving
    <3> QED BY <3>2, <3>3, <3>4
  <2>6. CASE FindReusable(p)
    <3>1. /\ run[p] \in Run /\ run' = run /\ lifecycle' = lifecycle /\ pc'[p] = "link"
          /\ todo'[p] = {d \in Documents(run[p]) : lifecycle[d] # "ready"}
          /\ status' = status
      BY <1>t, <2>b, <2>6 DEF FindReusable, Progress, storeVars, runVars, TypeOK
    <3>2. Documents(run[p])' = Documents(run[p])
      BY <2>6, <3>1 DEF FindReusable, Documents, runVars, datasetVars
    <3> QED BY <2>b, <3>1, <3>2 DEF Progress, Saving
  <2>7. CASE LinkReusable(p)
    <3>1. /\ run[p] \in Run /\ run' = run /\ pc'[p] = "save" /\ todo' = todo /\ status' = status
          /\ linked'[run[p]] = linked[run[p]] \cup (Documents(run[p]) \ todo[p])
          /\ todo[p] \subseteq Documents(run[p])
      BY <1>t, <2>b, <2>7 DEF LinkReusable, Progress, saveVars, runVars, TypeOK
    <3>2. Documents(run[p])' = Documents(run[p])
      BY <2>7, <3>1 DEF LinkReusable, Documents, runVars, datasetVars
    <3> QED BY <2>b, <3>1, <3>2 DEF Progress, Saving
  <2>8. ASSUME NEW d \in Doc, LookUp(p, d) PROVE Progress(p)'
    <3>1. /\ run[p] \in Run /\ run' = run /\ todo' = todo /\ status' = status
          /\ linked' = linked /\ lifecycle' = lifecycle /\ doc'[p] = d /\ d \in todo[p]
          /\ pc[p] = "save"
          /\ pc'[p] = CASE lifecycle[d] = "absent" -> "write"
                        [] lifecycle[d] = "ready" -> "relink"
                        [] OTHER -> "failing"
      BY <1>t, <2>b, <2>8 DEF LookUp, Progress, Saving, storeVars, runVars, TypeOK
    <3>2. Documents(run[p])' = Documents(run[p])
      BY <2>8, <3>1 DEF LookUp, Documents, runVars, datasetVars
    <3>3. CASE lifecycle[d] = "absent"
      BY <2>b, <3>1, <3>2, <3>3 DEF Progress, Saving
    <3>4. CASE lifecycle[d] = "ready"
      BY <2>b, <3>1, <3>2, <3>4 DEF Progress, Saving
    <3>5. CASE lifecycle[d] \notin {"absent", "ready"}
      <4>1. pc'[p] = "failing"
        BY <3>1, <3>5
      <4> QED BY <2>e, <3>1, <4>1
    <3> QED BY <3>3, <3>4, <3>5
  <2>9. ASSUME pc[p] \in {"relink", "commit"}, Saved(p) PROVE Progress(p)'
    <3>1. /\ run[p] \in Run /\ run' = run /\ pc'[p] = "save" /\ status' = status
          /\ linked'[run[p]] = linked[run[p]] \cup {doc[p]}
          /\ todo'[p] = todo[p] \ {doc[p]}
      BY <1>t, <2>b, <2>9 DEF Saved, Progress, Saving, runVars, TypeOK
    <3>2. Documents(run[p])' = Documents(run[p])
      BY <2>9, <3>1 DEF Saved, Documents, runVars, datasetVars
    <3> QED BY <2>b, <2>9, <3>1, <3>2 DEF Progress, Saving
  <2>10. CASE RelinkDocument(p) \/ CommitDocument(p)
    BY <2>9, <2>10 DEF RelinkDocument, CommitDocument, CommitWith
  <2>11. CASE WriteDocument(p)
    <3>1. /\ pc[p] = "write" /\ pc'[p] = "commit" /\ run' = run /\ status' = status
          /\ todo' = todo /\ doc' = doc /\ linked' = linked
      BY <1>t, <2>11 DEF WriteDocument, storeVars, runVars, TypeOK
    <3>2. Documents(run[p])' = Documents(run[p])
      BY <2>11, <3>1 DEF WriteDocument, Documents, runVars, datasetVars
    <3> QED BY <2>b, <3>1, <3>2 DEF Progress, Saving
  <2>12. CASE CheckRun(p)
    <3>1. /\ pc[p] = "save" /\ pc'[p] \in {"finish", "failing"} /\ run' = run /\ status' = status
          /\ todo' = todo /\ todo[p] = {} /\ linked' = linked
      BY <1>t, <2>12 DEF CheckRun, storeVars, saveVars, runVars, TypeOK
    <3>2. Documents(run[p])' = Documents(run[p])
      BY <2>12, <3>1 DEF CheckRun, Documents, runVars, datasetVars
    <3> QED BY <2>b, <3>1, <3>2 DEF Progress, Saving
  <2>13. CASE CompleteRun(p)
    <3>1. /\ pc[p] = "finish" /\ run' = run
          /\ pc' = [pc EXCEPT ![p] = IF status[run[p]] = "failed" THEN "failing" ELSE "return"]
      BY <2>13, Zenon DEF CompleteRun
    <3>2. pc'[p] \in {"failing", "return"} /\ run[p] \in Run
      BY <1>t, <2>b, <3>1 DEF Progress, TypeOK
    <3> QED BY <2>b, <2>c, <2>d, <2>e, <3>1, <3>2 DEF Progress
  <2>14. CASE Return(p) \/ MarkFailed(p) \/ Crash(p)
    <3>1. pc'[p] = "idle" /\ run'[p] = NoRun
      BY <1>t, <2>14 DEF Return, MarkFailed, Crash, Leave, TypeOK
    <3> QED BY <2>d, <3>1, EvidenceConstants
  <2>15. CASE Fail(p)
    <3>1. pc'[p] = "failing" /\ run' = run /\ run[p] \in Run
      BY <1>t, <2>15 DEF Fail, TypeOK
    <3> QED BY <2>e, <3>1
  <2> QED BY <1>5, <2>1, <2>2, <2>3, <2>4, <2>5, <2>6, <2>7, <2>8, <2>10, <2>11, <2>12, <2>13,
             <2>14, <2>15 DEF ProcessStep
<1> QED BY <1>1, <1>2, <1>3, <1>4, <1>5 DEF Next

-----------------------------------------------------------------------------
(* Theorems *)

\* The inductive invariant: a completed run covers exactly the documents of its
\* frozen inputs, whichever processes created, resumed, failed and completed it.
THEOREM EvidenceInvariant == Spec => []EvidenceInv
<1>1. Init => EvidenceInv
  BY InitInv
<1>2. EvidenceInv /\ [Next]_vars => EvidenceInv'
  BY TypeStep, CompletedStep, ProgressStep, LinksStep, IndexedStep DEF EvidenceInv
<1> QED BY <1>1, <1>2, PTL DEF Spec

\* A completed run covers exactly its frozen inputs (Ingest, CompleteRun, MarkFailed).
THEOREM CompletedRunsExact == Spec => []CompletedExact
<1>1. EvidenceInv => CompletedExact
  BY DEF EvidenceInv
<1> QED BY <1>1, EvidenceInvariant, PTL

\* Retired documents and completed runs never change (SaveDocument,
\* ReconcileLifecycle, CompleteRun, MarkFailed).
THEOREM HistoryIsImmutable == Spec => HistoryImmutable
<1> DEFINE Kept == /\ \A d \in Doc : lifecycle[d] \in Retired => lifecycle'[d] = lifecycle[d]
                   /\ \A r \in Run : status[r] = "completed" =>
                          status'[r] = "completed" /\ output'[r] = output[r]
                          /\ linked'[r] = linked[r]
<1>1. EvidenceInv /\ [Next]_vars => [Kept]_vars
  <2> SUFFICES ASSUME EvidenceInv, [Next]_vars PROVE Kept
    OBVIOUS
  <2>1. ASSUME NEW d \in Doc, lifecycle[d] \in Retired PROVE lifecycle'[d] = lifecycle[d]
    BY <2>1, LifecycleKept
  <2>2. ASSUME NEW r \in Run, status[r] = "completed"
        PROVE  /\ status'[r] = "completed" /\ output'[r] = output[r]
               /\ linked'[r] = linked[r]
    BY <2>2, RunKept, LinksKept DEF EvidenceInv, CompletedExact
  <2> QED BY <2>1, <2>2
<1> QED BY <1>1, EvidenceInvariant, PTL DEF Spec, HistoryImmutable

-----------------------------------------------------------------------------
(* One ready document per source *)

\* Only a SaveDocument that commits makes a document ready, records a race or an
\* overlap, and changes what a process has found before it commits.
LEMMA OnlyCommitPublishes ==
    ASSUME EvidenceInv, [Next]_vars, \A p \in Process : ~CommitDocument(p)
    PROVE  /\ \A e \in Doc : lifecycle'[e] = "ready" => lifecycle[e] = "ready"
           /\ overlapped' = overlapped
           /\ \A q \in Process : pc'[q] = "commit" =>
                  \/ pc[q] = "commit" /\ doc'[q] = doc[q] /\ victims'[q] = victims[q]
                  \/ WriteDocument(q)
<1>t. TypeOK
  BY DEF EvidenceInv
<1> DEFINE Goal == /\ \A e \in Doc : lifecycle'[e] = "ready" => lifecycle[e] = "ready"
                   /\ overlapped' = overlapped
                   /\ \A q \in Process : pc'[q] = "commit" =>
                          \/ pc[q] = "commit" /\ doc'[q] = doc[q] /\ victims'[q] = victims[q]
                          \/ WriteDocument(q)
<1>u. ASSUME UNCHANGED <<procVars, lifecycle, overlapped>> PROVE Goal
  BY <1>u DEF procVars, saveVars
<1>v. ASSUME NEW p \in Process, NEW c \in Control \ {"commit"}, pc'[p] = c,
             \A q \in Process \ {p} :
                 pc'[q] = pc[q] /\ doc'[q] = doc[q] /\ victims'[q] = victims[q],
             \A e \in Doc : lifecycle'[e] = "ready" => lifecycle[e] = "ready",
             overlapped' = overlapped
      PROVE  Goal
  BY <1>v
<1>0. CASE UNCHANGED vars
  BY <1>0, <1>u DEF vars, storeVars, histVars
<1>1. ASSUME NEW k \in Key, CaptureVersion(k) PROVE Goal
  BY <1>1, <1>u DEF CaptureVersion
<1>2. ASSUME NEW k \in Source, DeleteSource(k) PROVE Goal
  BY <1>2, <1>u DEF DeleteSource
<1>3. CASE Freeze
  BY <1>3, <1>u DEF Freeze, storeVars, histVars
<1>4. ASSUME NEW p \in Process, ProcessStep(p) PROVE Goal
  <2>1. CASE \E r \in Run : ResumeRun(p, r) \/ \E d \in Dataset : CreateRun(p, r, d)
    <3>1. pc' = [pc EXCEPT ![p] = "stale"] /\ UNCHANGED <<storeVars, saveVars, overlapped>>
      BY <2>1 DEF ResumeRun, CreateRun, StartReconciling
    <3> QED BY <1>t, <1>v, <3>1 DEF TypeOK, Control, Reconciling, storeVars, saveVars
  <2>2. CASE Reconcile(p)
    <3>1. pc' = [pc EXCEPT ![p] = "stale"] /\ UNCHANGED <<storeVars, saveVars, overlapped>>
      BY <2>2 DEF Reconcile, StartReconciling
    <3> QED BY <1>t, <1>v, <3>1 DEF TypeOK, Control, Reconciling, storeVars, saveVars
  <2>3. CASE StaleClusters(p) \/ SupersededNotes(p) \/ DeletedNotes(p) \/ SupersededFacts(p)
    <3>1. ASSUME NEW from, NEW to \in {"superseded", "deleted", "facts", "return", "reuse"},
                 NEW found, NEW newStatus \in Retired, Statement(p, from, to, found, newStatus)
          PROVE  Goal
      <4>1. \A e \in Doc : lifecycle'[e] = "ready" => lifecycle[e] = "ready"
        BY <3>1 DEF Statement, Retired
      <4>2. pc' = [pc EXCEPT ![p] = to] /\ UNCHANGED <<saveVars, overlapped>>
        BY <3>1 DEF Statement, histVars
      <4> QED BY <1>t, <1>v, <4>1, <4>2 DEF TypeOK, Control, Reconciling, saveVars
    <3> HIDE DEF Goal
    <3>2. CASE StaleClusters(p)
      BY <3>1, <3>2 DEF StaleClusters, Retired
    <3>3. CASE SupersededNotes(p)
      BY <3>1, <3>3 DEF SupersededNotes, Retired
    <3>4. CASE DeletedNotes(p)
      BY <3>1, <3>4 DEF DeletedNotes, Retired
    <3>5. CASE SupersededFacts(p)
      BY <3>1, <3>5 DEF SupersededFacts, Retired
    <3> QED BY <2>3, <3>2, <3>3, <3>4, <3>5
  <2>4. CASE FindReusable(p)
    <3>1. pc' = [pc EXCEPT ![p] = "link"] /\ UNCHANGED <<storeVars, doc, victims, overlapped>>
      BY <2>4 DEF FindReusable
    <3> QED BY <1>t, <1>v, <3>1 DEF TypeOK, Control, storeVars
  <2>5. CASE LinkReusable(p)
    <3>1. pc' = [pc EXCEPT ![p] = "save"] /\ UNCHANGED <<lifecycle, saveVars, overlapped>>
      BY <2>5 DEF LinkReusable, histVars
    <3> QED BY <1>t, <1>v, <3>1 DEF TypeOK, Control, Saving, saveVars
  <2>6. ASSUME NEW d \in Doc, LookUp(p, d) PROVE Goal
    <3>1. /\ pc'[p] \in {"write", "relink", "failing"} /\ UNCHANGED <<lifecycle, victims, overlapped>>
          /\ \A q \in Process \ {p} : pc'[q] = pc[q] /\ doc'[q] = doc[q]
      BY <1>t, <2>6 DEF TypeOK, LookUp, histVars, storeVars
    <3> QED BY <1>v, <3>1 DEF Control, Saving
  <2>7. CASE RelinkDocument(p)
    <3>1. /\ pc'[p] = "save" /\ UNCHANGED <<lifecycle, overlapped>>
          /\ \A q \in Process \ {p} :
                 pc'[q] = pc[q] /\ doc'[q] = doc[q] /\ victims'[q] = victims[q]
      BY <1>t, <2>7 DEF TypeOK, RelinkDocument, Saved, histVars
    <3> QED BY <1>v, <3>1 DEF Control, Saving
  <2>8. CASE WriteDocument(p)
    <3>1. /\ UNCHANGED <<lifecycle, doc, overlapped>>
          /\ \A q \in Process \ {p} : pc'[q] = pc[q] /\ victims'[q] = victims[q]
      BY <1>t, <2>8 DEF TypeOK, WriteDocument, histVars, storeVars
    <3> QED BY <2>8, <3>1
  <2>9. CASE CheckRun(p)
    <3>1. /\ pc'[p] \in {"finish", "failing"} /\ UNCHANGED <<lifecycle, saveVars, overlapped>>
          /\ \A q \in Process \ {p} : pc'[q] = pc[q]
      BY <1>t, <2>9 DEF TypeOK, CheckRun, histVars, storeVars
    <3> QED BY <1>v, <3>1 DEF Control, saveVars
  <2>10. CASE CompleteRun(p)
    <3>1. /\ pc' = [pc EXCEPT ![p] = IF status[run[p]] = "failed" THEN "failing" ELSE "return"]
          /\ UNCHANGED <<lifecycle, saveVars, histVars>>
      BY <2>10, Zenon DEF CompleteRun
    <3>2. pc'[p] \in {"failing", "return"} /\ \A q \in Process \ {p} : pc'[q] = pc[q]
      BY <1>t, <3>1 DEF TypeOK
    <3> QED BY <1>v, <3>1, <3>2 DEF Control, saveVars, histVars
  <2>11. CASE Return(p) \/ MarkFailed(p) \/ Crash(p)
    <3>1. /\ pc'[p] = "idle" /\ UNCHANGED <<lifecycle, overlapped>>
          /\ \A q \in Process \ {p} :
                 pc'[q] = pc[q] /\ doc'[q] = doc[q] /\ victims'[q] = victims[q]
      BY <1>t, <2>11 DEF TypeOK, Return, MarkFailed, Crash, Leave, storeVars
    <3> QED BY <1>v, <3>1 DEF Control
  <2>12. CASE Fail(p)
    <3>1. /\ pc'[p] = "failing" /\ UNCHANGED <<lifecycle, overlapped>>
          /\ \A q \in Process \ {p} :
                 pc'[q] = pc[q] /\ doc'[q] = doc[q] /\ victims'[q] = victims[q]
      BY <1>t, <2>12 DEF TypeOK, Fail, storeVars
    <3> QED BY <1>v, <3>1 DEF Control
  <2> QED BY <1>4, <2>1, <2>2, <2>3, <2>4, <2>5, <2>6, <2>7, <2>8, <2>9, <2>10, <2>11, <2>12
          DEF ProcessStep
<1> QED BY <1>0, <1>1, <1>2, <1>3, <1>4 DEF Next

\* A step keeps one ready document per source.
LEMMA OneReadyStep ==
    ASSUME EvidenceInv, [Next]_vars, OneReadyUnlessOverlapped, ReadyFound
    PROVE  OneReadyUnlessOverlapped' /\ ReadyFound'
<1>t. TypeOK /\ ProgressExact
  BY DEF EvidenceInv
<1>1. CASE \A p \in Process : ~CommitDocument(p)
  <2>1. OneReadyUnlessOverlapped'
    BY <1>1, OnlyCommitPublishes DEF OneReadyUnlessOverlapped, Ready
  <2>2. ASSUME NEW q \in Process, pc'[q] = "commit", KeyOf(doc'[q]) \notin overlapped'
        PROVE  Ready({KeyOf(doc[q])})' \ {doc'[q]} \subseteq victims'[q]
    <3>1. CASE pc[q] = "commit" /\ doc'[q] = doc[q] /\ victims'[q] = victims[q]
      BY <1>1, <2>2, <3>1, OnlyCommitPublishes DEF ReadyFound, Ready, KeyOf
    <3>2. CASE WriteDocument(q)
      BY <1>t, <3>2 DEF WriteDocument, Ready, TypeOK, storeVars, KeyOf
    <3> QED BY <1>1, <2>2, <3>1, <3>2, OnlyCommitPublishes
  <2> QED BY <2>1, <2>2 DEF ReadyFound
<1>2. ASSUME NEW p \in Process, CommitDocument(p)
      PROVE  OneReadyUnlessOverlapped' /\ ReadyFound'
  <2>1. /\ pc[p] = "commit" /\ doc[p] \in Doc
        /\ \A e \in Doc \ {doc[p]} : lifecycle'[e] = "ready" =>
               lifecycle[e] = "ready" /\ e \notin victims[p]
    BY <1>t, <1>2 DEF TypeOK, Progress, ProgressExact, CommitDocument, CommitWith, StillReady
  <2>2. overlapped \subseteq overlapped' /\ (Rival(p) => KeyOf(doc[p]) \in overlapped')
    BY <1>2 DEF CommitDocument, CommitWith
  <2>3. ASSUME NEW e \in Doc, lifecycle'[e] = "ready", KeyOf(e) = KeyOf(doc[p]),
               KeyOf(e) \notin overlapped'
        PROVE  e = doc[p]
    BY <2>1, <2>2, <2>3 DEF ReadyFound, Ready
  <2>4. OneReadyUnlessOverlapped'
    <3> SUFFICES ASSUME NEW d \in Doc, NEW e \in Doc, lifecycle'[d] = "ready",
                        lifecycle'[e] = "ready", KeyOf(d) = KeyOf(e), KeyOf(d) \notin overlapped'
                 PROVE  d = e
      BY DEF OneReadyUnlessOverlapped, Ready
    <3>1. CASE KeyOf(d) = KeyOf(doc[p])
      BY <2>3, <3>1
    <3>2. CASE KeyOf(d) # KeyOf(doc[p])
      <4>1. d # doc[p] /\ e # doc[p]
        BY <3>2
      <4>2. d \in Ready(Key \ overlapped) /\ e \in Ready(Key \ overlapped)
        BY <2>1, <2>2, <4>1, DocParts DEF Ready
      <4> QED BY <4>2 DEF OneReadyUnlessOverlapped
    <3> QED BY <3>1, <3>2
  <2>5. ASSUME NEW q \in Process, pc'[q] = "commit", KeyOf(doc'[q]) \notin overlapped'
        PROVE  Ready({KeyOf(doc[q])})' \ {doc'[q]} \subseteq victims'[q]
    <3>1. /\ q # p /\ pc[q] = "commit" /\ doc'[q] = doc[q] /\ victims'[q] = victims[q]
      BY <1>t, <1>2, <2>5 DEF TypeOK, CommitDocument, CommitWith, Saved
    <3>2. KeyOf(doc[q]) # KeyOf(doc[p])
      BY <2>2, <2>5, <3>1 DEF Rival
    <3>3. ASSUME NEW e \in Doc, lifecycle'[e] = "ready", KeyOf(e) = KeyOf(doc[q]) , e # doc[q]
          PROVE  e \in victims[q]
      BY <2>1, <2>2, <2>5, <3>1, <3>2, <3>3 DEF ReadyFound, Ready
    <3> QED BY <3>1, <3>3 DEF Ready, KeyOf
  <2> QED BY <2>4, <2>5 DEF ReadyFound
<1> QED BY <1>1, <1>2

\* At most one document of a source is current, unless two transactions saved
\* documents of it at a time (the superseding UPDATE of SaveDocument).
THEOREM SourceHasOneReady == Spec => []OneReadyUnlessOverlapped
<1>1. Init => OneReadyUnlessOverlapped /\ ReadyFound
  BY DEF Init, OneReadyUnlessOverlapped, ReadyFound, Ready
<1>2. EvidenceInv /\ OneReadyUnlessOverlapped /\ ReadyFound /\ [Next]_vars
        => (OneReadyUnlessOverlapped /\ ReadyFound)'
  BY OneReadyStep
<1> QED BY <1>1, <1>2, EvidenceInvariant, PTL DEF Spec

-----------------------------------------------------------------------------
(* History is served *)

\* The steps that HistoryInv does not notice: they leave the registry, the
\* documents and the history alone, and no process enters the second statement
\* about notes.
LEMMA QuietStep ==
    ASSUME EvidenceInv, [Next]_vars,
           \A k \in Key : ~CaptureVersion(k), \A k \in Source : ~DeleteSource(k),
           \A p \in Process : /\ ~StaleClusters(p) /\ ~SupersededNotes(p) /\ ~DeletedNotes(p)
                              /\ ~SupersededFacts(p) /\ ~CommitDocument(p)
    PROVE  /\ UNCHANGED <<version, live, lifecycle, raced>>
           /\ \A q \in Process : pc'[q] = "deleted" => pc[q] = "deleted"
<1>t. TypeOK
  BY DEF EvidenceInv
<1>1. CASE UNCHANGED vars
  BY <1>1 DEF vars, registryVars, storeVars, histVars, procVars
<1>2. CASE Freeze
  BY <1>2 DEF Freeze, registryVars, storeVars, histVars, procVars
<1>3. ASSUME NEW p \in Process, CompleteRun(p)
      PROVE  /\ UNCHANGED <<version, live, lifecycle, raced>>
             /\ \A q \in Process : pc'[q] = "deleted" => pc[q] = "deleted"
  <2>1. /\ pc' = [pc EXCEPT ![p] = IF status[run[p]] = "failed" THEN "failing" ELSE "return"]
        /\ UNCHANGED <<registryVars, lifecycle, histVars>>
    BY <1>3, Zenon DEF CompleteRun
  <2> QED BY <1>t, <2>1 DEF TypeOK, registryVars, histVars
<1>4. ASSUME NEW p \in Process, ProcessStep(p), ~CompleteRun(p)
      PROVE  /\ UNCHANGED <<version, live, lifecycle, raced>>
             /\ \A q \in Process : pc'[q] = "deleted" => pc[q] = "deleted"
  BY <1>t, <1>4
     DEF TypeOK, ProcessStep, ResumeRun, CreateRun, Reconcile, StartReconciling, FindReusable,
         LinkReusable, LookUp, RelinkDocument, WriteDocument, Saved, CheckRun, Return, Fail,
         MarkFailed, Crash, Leave, registryVars, storeVars, histVars
<1> QED BY <1>1, <1>2, <1>3, <1>4 DEF Next

\* A step keeps the reasons why history is served.
LEMMA HistoryStep ==
    ASSUME EvidenceInv, [Next]_vars, HistoryInv
    PROVE  HistoryInv'
<1>t. TypeOK /\ ProgressExact
  BY DEF EvidenceInv
<1>d. \A d \in Doc : KeyOf(d) \in Key /\ VersionOf(d) \in Version
  BY DocParts
<1>k. \A d \in Doc : /\ ~(KeyOf(d) \in Note /\ KeyOf(d) \in Fact)
                     /\ ~(KeyOf(d) \in Note /\ KeyOf(d) \in Cluster)
                     /\ ~(KeyOf(d) \in Cluster /\ KeyOf(d) \in Fact)
  BY EvidenceConstants
<1>n. Note \subseteq Source /\ Source \subseteq Key
  BY DEF Source, Key
<1>s. ASSUME NEW p \in Process, NEW from, NEW to \in Control \ {"deleted"}, NEW found,
             NEW newStatus, Statement(p, from, to, found, newStatus), newStatus # "ready",
             \A d \in Doc : d \in found =>
                 /\ KeyOf(d) \in Fact => newStatus = "superseded"
                 /\ KeyOf(d) \in Note => newStatus # "stale"
                 /\ KeyOf(d) \in Note \ raced /\ newStatus = "deleted" => ~live[KeyOf(d)]
      PROVE  HistoryInv'
  <2>1. /\ \A d \in Doc : lifecycle'[d] = IF d \in found THEN newStatus ELSE lifecycle[d]
        /\ UNCHANGED <<version, live, raced>>
        /\ \A q \in Process : pc'[q] = "deleted" => pc[q] = "deleted"
    BY <1>s, <1>t DEF Statement, TypeOK, registryVars, histVars
  <2> QED BY <1>s, <2>1 DEF HistoryInv, Ready, HasSuccessor
<1>1. ASSUME NEW k \in Key, CaptureVersion(k) PROVE HistoryInv'
  <2>1. /\ version' = [version EXCEPT ![k] = @ + 1] /\ UNCHANGED <<live, lifecycle, pc>>
        /\ raced \subseteq raced'
        /\ (k \in Note /\ \E p \in Process : pc[p] = "deleted") => k \in raced'
    BY <1>1 DEF CaptureVersion, Race, procVars
  <2>2. ASSUME NEW p \in Process, pc'[p] = "deleted", NEW d \in Ready(Note \ raced)'
        PROVE  ~HasSuccessor(KeyOf(d), VersionOf(d))'
    <3>1. d \in Ready(Note \ raced) /\ KeyOf(d) # k /\ KeyOf(d) \in Key
      BY <2>1, <2>2, <1>d DEF Ready
    <3> QED BY <1>t, <2>1, <2>2, <3>1 DEF HistoryInv, HasSuccessor, TypeOK
  <2> QED BY <2>1, <2>2 DEF HistoryInv
<1>2. ASSUME NEW k \in Source, DeleteSource(k) PROVE HistoryInv'
  <2>1. /\ live' = [live EXCEPT ![k] = FALSE] /\ UNCHANGED <<version, lifecycle, raced, pc>>
    BY <1>2 DEF DeleteSource, procVars
  <2>2. \A j \in Source : live'[j] => live[j]
    BY <1>t, <2>1 DEF TypeOK
  <2> QED BY <1>n, <2>1, <2>2 DEF HistoryInv, HasSuccessor, Ready
<1>3. ASSUME NEW p \in Process, StaleClusters(p) PROVE HistoryInv'
  BY <1>3, <1>s, <1>k DEF StaleClusters, Ready, Control, Reconciling
<1>4. ASSUME NEW p \in Process, SupersededNotes(p) PROVE HistoryInv'
  <2> DEFINE found == {d \in Ready(Note) : HasSuccessor(KeyOf(d), VersionOf(d))}
  <2>1. /\ \A d \in Doc : lifecycle'[d] = IF d \in found THEN "superseded" ELSE lifecycle[d]
        /\ UNCHANGED <<version, live, raced>>
    BY <1>4 DEF SupersededNotes, Statement, registryVars, histVars
  <2>2. \A d \in Doc : d \in found => KeyOf(d) \in Note
    BY DEF Ready
  <2>3. ASSUME NEW d \in Ready(Note \ raced)' PROVE ~HasSuccessor(KeyOf(d), VersionOf(d))'
    BY <2>1, <2>3 DEF Ready, HasSuccessor
  <2> HIDE DEF found
  <2> QED BY <1>k, <2>1, <2>2, <2>3 DEF HistoryInv
<1>5. ASSUME NEW p \in Process, DeletedNotes(p) PROVE HistoryInv'
  <2> DEFINE found == {d \in Ready(Note) : Gone(KeyOf(d), VersionOf(d))}
  <2>1. Statement(p, "deleted", "facts", found, "deleted")
    BY <1>5 DEF DeletedNotes
  <2>2. ASSUME NEW d \in Doc, d \in found
        PROVE  /\ KeyOf(d) \in Note /\ (KeyOf(d) \notin raced => ~live[KeyOf(d)])
    <3>1. pc[p] = "deleted" /\ d \in Ready(Note) /\ Gone(KeyOf(d), VersionOf(d))
      BY <2>1, <2>2 DEF Statement
    <3> QED BY <3>1 DEF HistoryInv, Ready, Gone, HasSuccessor
  <2> HIDE DEF found
  <2> QED BY <1>s, <1>k, <2>1, <2>2 DEF Control, Reconciling
<1>6. ASSUME NEW p \in Process, SupersededFacts(p) PROVE HistoryInv'
  BY <1>6, <1>s, <1>k DEF SupersededFacts, Ready, Control
<1>7. ASSUME NEW p \in Process, CommitDocument(p) PROVE HistoryInv'
  <2>1. /\ doc[p] \in Doc /\ pc[p] = "commit"
        /\ UNCHANGED <<version, live>> /\ raced \subseteq raced'
        /\ (KeyOf(doc[p]) \in Note /\ \E q \in Process : pc[q] = "deleted") =>
               KeyOf(doc[p]) \in raced'
    BY <1>t, <1>7 DEF TypeOK, Progress, ProgressExact, CommitDocument, CommitWith, Saved, Race,
                      registryVars
  <2>2. \A q \in Process : pc'[q] = "deleted" => pc[q] = "deleted"
    BY <1>t, <1>7 DEF TypeOK, CommitDocument, CommitWith, Saved
  <2>3. \A e \in Doc : \/ lifecycle'[e] = lifecycle[e]
                       \/ e = doc[p] /\ lifecycle'[e] = "ready"
                       \/ lifecycle'[e] = "superseded"
    BY <1>7 DEF CommitDocument, CommitWith
  <2>4. ASSUME NEW q \in Process, pc'[q] = "deleted", NEW d \in Ready(Note \ raced)'
        PROVE  ~HasSuccessor(KeyOf(d), VersionOf(d))'
    <3>1. d \in Ready(Note \ raced)
      BY <2>1, <2>2, <2>3, <2>4 DEF Ready
    <3> QED BY <2>1, <2>2, <2>4, <3>1 DEF HistoryInv, HasSuccessor
  <2> QED BY <2>1, <2>3, <2>4 DEF HistoryInv
<1>8. CASE /\ \A k \in Key : ~CaptureVersion(k) /\ \A j \in Source : ~DeleteSource(j)
           /\ \A p \in Process : /\ ~StaleClusters(p) /\ ~SupersededNotes(p) /\ ~DeletedNotes(p)
                                 /\ ~SupersededFacts(p) /\ ~CommitDocument(p)
  <2>1. /\ UNCHANGED <<version, live, lifecycle, raced>>
        /\ \A q \in Process : pc'[q] = "deleted" => pc[q] = "deleted"
    BY <1>8, QuietStep DEF Source, Key
  <2> QED BY <2>1 DEF HistoryInv, Ready, HasSuccessor
<1> QED BY <1>1, <1>2, <1>3, <1>4, <1>5, <1>6, <1>7, <1>8

\* A completed run goes on serving its notes and facts, unless they are deleted or
\* raced a ReconcileLifecycle.
THEOREM CompletedRunsServeHistory == Spec => []HistoryServedUnlessRaced
<1>1. Init => HistoryInv
  BY DEF Init, HistoryInv, Ready
<1>2. EvidenceInv /\ HistoryInv /\ [Next]_vars => HistoryInv'
  BY HistoryStep
<1>3. EvidenceInv /\ HistoryInv => HistoryServedUnlessRaced
  <2> SUFFICES ASSUME EvidenceInv, HistoryInv, NEW r \in Run, status[r] = "completed",
                      NEW d \in linked[r],
                      KeyOf(d) \in Fact \/ (KeyOf(d) \in Note \ raced /\ live[KeyOf(d)])
               PROVE  Servable(d)
    BY DEF HistoryServedUnlessRaced
  <2>1. d \in Doc /\ lifecycle[d] \in Lifecycle /\ lifecycle[d] # "absent"
    BY DEF EvidenceInv, TypeOK, LinksExact
  <2>2. lifecycle[d] \in {"ready", "superseded"}
    BY <2>1 DEF HistoryInv, Lifecycle
  <2>3. KeyOf(d) \in Source => live[KeyOf(d)]
    BY EvidenceConstants DEF Source
  <2> QED BY <2>2, <2>3 DEF Servable, Gone, HasSuccessor
<1> QED BY <1>1, <1>2, <1>3, EvidenceInvariant, PTL DEF Spec

-----------------------------------------------------------------------------
(* Reconciled unless touched *)

\* The control points between the first statement of a reconcile and its end.
Reconciled == {"superseded", "deleted", "facts", "reuse"}

\* What the statements so far leave of a ready document.
Current(p, d) ==
    /\ KeyOf(d) \in Cluster /\ pc[p] \in Reconciled => ~Gone(KeyOf(d), VersionOf(d))
    /\ KeyOf(d) \in Note /\ pc[p] \in {"facts", "reuse"} => ~Gone(KeyOf(d), VersionOf(d))
    /\ KeyOf(d) \in Fact /\ pc[p] = "reuse" => VersionOf(d) = version[KeyOf(d)]

FactsKnown ==
    /\ \A r \in Run, f \in Fact : factInput[r][f] <= version[f]
    /\ \A d \in Doc : KeyOf(d) \in Fact /\ lifecycle[d] # "absent" =>
           VersionOf(d) <= version[KeyOf(d)]

LEMMA ReconcileParts ==
    ReconcileInv <=> /\ FactsKnown
                     /\ \A p \in Process : \A d \in Ready(Key \ touched[p]) : Current(p, d)
BY DEF ReconcileInv, FactsKnown, Current, Reconciled

\* The steps that a reconcile does not notice.
LEMMA UnnoticedStep ==
    ASSUME EvidenceInv, [Next]_vars,
           \A k \in Key : ~CaptureVersion(k), \A k \in Source : ~DeleteSource(k),
           \A p \in Process : /\ ~StaleClusters(p) /\ ~SupersededNotes(p) /\ ~DeletedNotes(p)
                              /\ ~SupersededFacts(p) /\ ~CommitDocument(p)
    PROVE  /\ UNCHANGED <<version, live, lifecycle>>
           /\ \A q \in Process : pc'[q] \in Reconciled => pc'[q] = pc[q] /\ touched'[q] = touched[q]
           /\ \A r \in Run, f \in Fact : factInput'[r][f] \in {factInput[r][f], version[f]}
<1>t. TypeOK
  BY DEF EvidenceInv
<1>v. UNCHANGED <<version, live, lifecycle>>
  BY QuietStep
<1>1. CASE UNCHANGED vars
  BY <1>1, <1>v DEF vars, runVars, histVars, procVars
<1>2. CASE Freeze
  BY <1>2, <1>v DEF Freeze, runVars, histVars, procVars
<1>3. ASSUME NEW p \in Process, CompleteRun(p)
      PROVE  /\ \A q \in Process : pc'[q] \in Reconciled => pc'[q] = pc[q] /\ touched'[q] = touched[q]
             /\ factInput' = factInput
  <2>1. /\ pc' = [pc EXCEPT ![p] = IF status[run[p]] = "failed" THEN "failing" ELSE "return"]
        /\ UNCHANGED <<factInput, histVars>>
    BY <1>3, Zenon DEF CompleteRun
  <2> QED BY <1>t, <2>1 DEF TypeOK, histVars, Reconciled
<1>4. ASSUME NEW p \in Process, NEW r \in Run, NEW d \in Dataset, CreateRun(p, r, d)
      PROVE  /\ \A q \in Process : pc'[q] \in Reconciled => pc'[q] = pc[q] /\ touched'[q] = touched[q]
             /\ \A s \in Run, f \in Fact : factInput'[s][f] \in {factInput[s][f], version[f]}
  <2>1. factInput' = [factInput EXCEPT ![r] = [f \in Fact |-> version[f]]]
    BY <1>4 DEF CreateRun
  <2>2. pc' = [pc EXCEPT ![p] = "stale"] /\ touched' = [touched EXCEPT ![p] = {}]
    BY <1>4 DEF CreateRun, StartReconciling
  <2>3. \A s \in Run, f \in Fact : factInput'[s][f] \in {factInput[s][f], version[f]}
    BY <1>t, <2>1 DEF TypeOK
  <2> QED BY <1>t, <2>2, <2>3 DEF TypeOK, Reconciled
<1>5. ASSUME NEW p \in Process, ProcessStep(p), ~CompleteRun(p),
             \A r \in Run, d \in Dataset : ~CreateRun(p, r, d)
      PROVE  /\ \A q \in Process : pc'[q] \in Reconciled => pc'[q] = pc[q] /\ touched'[q] = touched[q]
             /\ factInput' = factInput
  BY <1>t, <1>5
     DEF TypeOK, ProcessStep, ResumeRun, Reconcile, StartReconciling, FindReusable,
         LinkReusable, LookUp, RelinkDocument, WriteDocument, Saved, CheckRun, Return, Fail,
         MarkFailed, Crash, Leave, runVars, histVars, Reconciled
<1> QED BY <1>v, <1>1, <1>2, <1>3, <1>4, <1>5 DEF Next

\* One statement of a reconcile: it retires what it finds, so what is left ready of its
\* kind is current.
LEMMA StatementReconciles ==
    ASSUME EvidenceInv, ReconcileInv, NEW p \in Process, NEW from, NEW to, NEW found,
           NEW newStatus \in Retired, Statement(p, from, to, found, newStatus),
           found \subseteq {d \in Doc : lifecycle[d] = "ready"},
           \A d \in Ready(Key \ touched[p]) : d \notin found =>
               /\ KeyOf(d) \in Cluster /\ to \in Reconciled => ~Gone(KeyOf(d), VersionOf(d))
               /\ KeyOf(d) \in Note /\ to \in {"facts", "reuse"} => ~Gone(KeyOf(d), VersionOf(d))
               /\ KeyOf(d) \in Fact /\ to = "reuse" => VersionOf(d) = version[KeyOf(d)]
    PROVE  ReconcileInv'
<1>t. TypeOK
  BY DEF EvidenceInv
<1>1. /\ \A d \in Doc : lifecycle'[d] = IF d \in found THEN newStatus ELSE lifecycle[d]
      /\ UNCHANGED <<version, live, touched, factInput>>
      /\ pc'[p] = to /\ \A q \in Process \ {p} : pc'[q] = pc[q]
  BY <1>t DEF Statement, TypeOK, registryVars, histVars, runVars
<1>2. /\ FactsKnown
      /\ \A q \in Process : \A d \in Ready(Key \ touched[q]) : Current(q, d)
  BY ReconcileParts
<1>3. \A d \in Doc : lifecycle'[d] = "ready" => lifecycle[d] = "ready" /\ d \notin found
  BY <1>1 DEF Retired
<1>4. FactsKnown'
  BY <1>1, <1>2 DEF FactsKnown
<1>5. ASSUME NEW q \in Process, NEW d \in Ready(Key \ touched[q])' PROVE Current(q, d)'
  <2>1. d \in Ready(Key \ touched[q]) /\ d \notin found
    BY <1>1, <1>3 DEF Ready
  <2>2. CASE q = p
    BY <1>1, <2>1, <2>2 DEF Current, Gone
  <2>3. CASE q # p
    BY <1>1, <1>2, <2>1, <2>3 DEF Current, Gone
  <2> QED BY <2>2, <2>3
<1> QED BY <1>4, <1>5 DEF ReconcileInv, FactsKnown, Current, Reconciled

LEMMA ReconcileStep ==
    ASSUME EvidenceInv, [Next]_vars, ReconcileInv
    PROVE  ReconcileInv'
<1>t. TypeOK /\ ProgressExact
  BY DEF EvidenceInv
<1>p. /\ FactsKnown
      /\ \A q \in Process : \A d \in Ready(Key \ touched[q]) : Current(q, d)
  BY ReconcileParts
<1>r. (FactsKnown' /\ \A q \in Process : \A d \in Ready(Key \ touched[q])' : Current(q, d)')
        => ReconcileInv'
  BY DEF ReconcileInv, FactsKnown, Current, Reconciled
<1>d. \A d \in Doc : KeyOf(d) \in Key /\ VersionOf(d) \in Version
  BY DocParts
<1>v. Version \subseteq Nat /\ \A k \in Key : version[k] \in Nat
  BY <1>t, EvidenceConstants DEF Version, TypeOK
<1>k. \A d \in Doc : /\ ~(KeyOf(d) \in Note /\ KeyOf(d) \in Fact)
                     /\ ~(KeyOf(d) \in Note /\ KeyOf(d) \in Cluster)
                     /\ ~(KeyOf(d) \in Cluster /\ KeyOf(d) \in Fact)
  BY EvidenceConstants
<1>f. Reconciled \subseteq Reconciling \cup {"reuse"}
  BY DEF Reconciled, Reconciling
\* A key changes or a document of it is published: those who reconcile are told.
<1>c. ASSUME NEW k \in Key, Touch(k), FactsKnown',
             \A q \in Process : pc'[q] \in Reconciled => pc'[q] = pc[q],
             \A j \in Key \ {k} : version'[j] = version[j],
             \A j \in Source \ {k} : live'[j] = live[j],
             \A d \in Doc : KeyOf(d) # k /\ lifecycle'[d] = "ready" => lifecycle[d] = "ready"
      PROVE  ReconcileInv'
  <2> SUFFICES ASSUME NEW q \in Process, NEW d \in Ready(Key \ touched[q])' PROVE Current(q, d)'
    BY <1>c, <1>r
  <2>1. CASE pc'[q] \notin Reconciled
    BY <2>1 DEF Current, Reconciled
  <2>2. CASE pc'[q] \in Reconciled
    <3>1. pc'[q] = pc[q] /\ touched'[q] = touched[q] \cup {k}
      BY <1>c, <1>f, <2>2 DEF Touch
    <3>2. d \in Ready(Key \ touched[q]) /\ KeyOf(d) # k /\ KeyOf(d) \in Key
      BY <1>c, <3>1 DEF Ready
    <3>3. version'[KeyOf(d)] = version[KeyOf(d)] /\ (KeyOf(d) \in Source => live'[KeyOf(d)] = live[KeyOf(d)])
      BY <1>c, <3>2
    <3> QED BY <1>p, <3>1, <3>2, <3>3 DEF Current, Gone, Source
  <2> QED BY <2>1, <2>2
<1>1. ASSUME NEW k \in Key, CaptureVersion(k) PROVE ReconcileInv'
  <2>1. /\ version' = [version EXCEPT ![k] = @ + 1] /\ Touch(k)
        /\ UNCHANGED <<live, lifecycle, pc, factInput>>
    BY <1>1 DEF CaptureVersion, procVars, runVars
  <2>2. \A j \in Key : version'[j] \in Nat /\ version[j] <= version'[j]
    BY <1>t, <1>v, <2>1 DEF TypeOK
  <2>3. FactsKnown'
    <3>1. \A r \in Run, f \in Fact : factInput[r][f] \in Nat /\ f \in Key
      BY <1>t, <1>v DEF TypeOK, Key
    <3>2. \A d \in Doc : KeyOf(d) \in Key /\ VersionOf(d) \in Nat /\ version[KeyOf(d)] \in Nat
      BY <1>d, <1>v
    <3>3. \A r \in Run, f \in Fact : factInput[r][f] <= version'[f]
      BY <1>p, <1>v, <2>2, <3>1 DEF FactsKnown
    <3>4. \A d \in Doc : KeyOf(d) \in Fact /\ lifecycle[d] # "absent" =>
             VersionOf(d) <= version'[KeyOf(d)]
      BY <1>p, <2>2, <3>2 DEF FactsKnown
    <3> QED BY <2>1, <3>3, <3>4 DEF FactsKnown
  <2>4. \A j \in Key \ {k} : version'[j] = version[j]
    BY <1>t, <2>1 DEF TypeOK
  <2> QED BY <1>c, <2>1, <2>3, <2>4
<1>2. ASSUME NEW k \in Source, DeleteSource(k) PROVE ReconcileInv'
  <2>1. /\ live' = [live EXCEPT ![k] = FALSE] /\ Touch(k) /\ k \in Key
        /\ UNCHANGED <<version, lifecycle, pc, factInput>>
    BY <1>2 DEF DeleteSource, procVars, runVars, Key
  <2>2. FactsKnown' /\ \A j \in Source \ {k} : live'[j] = live[j]
    BY <1>p, <1>t, <2>1 DEF FactsKnown, TypeOK
  <2> QED BY <1>c, <2>1, <2>2
<1>3. ASSUME NEW p \in Process, StaleClusters(p) PROVE ReconcileInv'
  <2> DEFINE found == {d \in Ready(Cluster) : Gone(KeyOf(d), VersionOf(d))}
  <2>1. Statement(p, "stale", "superseded", found, "stale")
    BY <1>3 DEF StaleClusters
  <2>2. /\ found \subseteq {d \in Doc : lifecycle[d] = "ready"}
        /\ \A d \in Ready(Key \ touched[p]) : d \notin found =>
               (KeyOf(d) \in Cluster => ~Gone(KeyOf(d), VersionOf(d)))
    BY DEF Ready
  <2> HIDE DEF found
  <2> QED BY <2>1, <2>2, StatementReconciles DEF Retired, Reconciled
<1>4. ASSUME NEW p \in Process, SupersededNotes(p) PROVE ReconcileInv'
  <2> DEFINE found == {d \in Ready(Note) : HasSuccessor(KeyOf(d), VersionOf(d))}
  <2>1. Statement(p, "superseded", "deleted", found, "superseded") /\ pc[p] = "superseded"
    BY <1>4 DEF SupersededNotes, Statement
  <2>2. found \subseteq {d \in Doc : lifecycle[d] = "ready"}
    BY DEF Ready
  <2>3. \A d \in Ready(Key \ touched[p]) : KeyOf(d) \in Cluster => ~Gone(KeyOf(d), VersionOf(d))
    BY <1>p, <2>1 DEF Current, Reconciled
  <2> HIDE DEF found
  <2> QED BY <2>1, <2>2, <2>3, StatementReconciles, SMTT(30) DEF Retired, Reconciled
<1>5. ASSUME NEW p \in Process, DeletedNotes(p) PROVE ReconcileInv'
  <2> DEFINE found == {d \in Ready(Note) : Gone(KeyOf(d), VersionOf(d))}
  <2>1. Statement(p, "deleted", "facts", found, "deleted") /\ pc[p] = "deleted"
    BY <1>5 DEF DeletedNotes, Statement
  <2>2. /\ found \subseteq {d \in Doc : lifecycle[d] = "ready"}
        /\ \A d \in Ready(Key \ touched[p]) : d \notin found =>
               (KeyOf(d) \in Note => ~Gone(KeyOf(d), VersionOf(d)))
    BY DEF Ready
  <2>3. \A d \in Ready(Key \ touched[p]) : KeyOf(d) \in Cluster => ~Gone(KeyOf(d), VersionOf(d))
    BY <1>p, <2>1 DEF Current, Reconciled
  <2>4. "deleted" \in Retired /\ "facts" # "reuse"
    BY DEF Retired
  <2> HIDE DEF found
  <2> QED BY <2>1, <2>2, <2>3, <2>4, StatementReconciles
<1>6. ASSUME NEW p \in Process, SupersededFacts(p) PROVE ReconcileInv'
  <2> DEFINE found == {d \in Ready(Fact) : VersionOf(d) < version[KeyOf(d)]}
             to == IF run[p] = NoRun THEN "return" ELSE "reuse"
  <2>1. Statement(p, "facts", to, found, "superseded") /\ pc[p] = "facts"
    BY <1>6 DEF SupersededFacts, Statement
  <2>2. found \subseteq {d \in Doc : lifecycle[d] = "ready"}
    BY DEF Ready
  <2>3. \A d \in Ready(Key \ touched[p]) : d \notin found =>
               (KeyOf(d) \in Fact => VersionOf(d) = version[KeyOf(d)])
    <3> SUFFICES ASSUME NEW d \in Doc, lifecycle[d] = "ready", d \notin found, KeyOf(d) \in Fact
                 PROVE  VersionOf(d) = version[KeyOf(d)]
      BY DEF Ready
    <3>1. VersionOf(d) <= version[KeyOf(d)] /\ ~(VersionOf(d) < version[KeyOf(d)])
      BY <1>p DEF FactsKnown, Ready
    <3>2. VersionOf(d) \in Nat /\ version[KeyOf(d)] \in Nat
      BY <1>d, <1>v
    <3> QED BY <3>1, <3>2
  <2>4. \A d \in Ready(Key \ touched[p]) :
            KeyOf(d) \in Cluster \cup Note => ~Gone(KeyOf(d), VersionOf(d))
    BY <1>p, <2>1 DEF Current, Reconciled
  <2>5. "superseded" \in Retired
    BY DEF Retired
  <2> HIDE DEF found, to
  <2> QED BY <2>1, <2>2, <2>3, <2>4, <2>5, StatementReconciles, SMTT(30)
<1>7. ASSUME NEW p \in Process, CommitDocument(p) PROVE ReconcileInv'
  <2>1. /\ doc[p] \in Doc /\ pc[p] = "commit" /\ run[p] \in Run /\ doc[p] \in Documents(run[p])
        /\ UNCHANGED <<version, live, factInput>> /\ Touch(KeyOf(doc[p]))
    BY <1>t, <1>7 DEF TypeOK, Progress, ProgressExact, CommitDocument, CommitWith, Saved,
                      registryVars, runVars, Saving
  <2>2. \A q \in Process : pc'[q] \in Reconciled => pc'[q] = pc[q]
    BY <1>t, <1>7 DEF TypeOK, CommitDocument, CommitWith, Saved, Reconciled
  <2>3. \A e \in Doc : \/ lifecycle'[e] = lifecycle[e]
                       \/ e = doc[p] /\ lifecycle'[e] = "ready"
                       \/ lifecycle[e] = "ready" /\ lifecycle'[e] = "superseded"
    BY <1>7 DEF CommitDocument, CommitWith, StillReady
  <2>4. KeyOf(doc[p]) \in Fact => VersionOf(doc[p]) = factInput[run[p]][KeyOf(doc[p])]
    <3>1. KeyOf(doc[p]) \in Fact => KeyOf(doc[p]) \notin Source
      BY EvidenceConstants DEF Source
    <3> QED BY <2>1, <3>1 DEF Documents, KeyOf, VersionOf
  <2>5. FactsKnown'
    BY <1>p, <2>1, <2>3, <2>4 DEF FactsKnown
  <2>6. KeyOf(doc[p]) \in Key
    BY <1>d, <2>1
  <2> QED BY <1>c, <2>1, <2>2, <2>3, <2>5, <2>6
<1>8. CASE /\ \A k \in Key : ~CaptureVersion(k) /\ \A j \in Source : ~DeleteSource(j)
           /\ \A p \in Process : /\ ~StaleClusters(p) /\ ~SupersededNotes(p) /\ ~DeletedNotes(p)
                                 /\ ~SupersededFacts(p) /\ ~CommitDocument(p)
  <2>1. /\ UNCHANGED <<version, live, lifecycle>>
        /\ \A q \in Process : pc'[q] \in Reconciled => pc'[q] = pc[q] /\ touched'[q] = touched[q]
        /\ \A r \in Run, f \in Fact : factInput'[r][f] \in {factInput[r][f], version[f]}
    BY <1>8, UnnoticedStep DEF Source, Key
  <2>2. FactsKnown'
    <3>1. \A f \in Fact : version[f] \in Nat
      BY <1>v DEF Key
    <3> QED BY <1>p, <2>1, <3>1 DEF FactsKnown
  <2>3. ASSUME NEW q \in Process, NEW d \in Ready(Key \ touched[q])' PROVE Current(q, d)'
    <3>1. CASE pc'[q] \notin Reconciled
      BY <3>1 DEF Current, Reconciled
    <3>2. CASE pc'[q] \in Reconciled
      BY <1>p, <2>1, <3>2 DEF Current, Gone, Ready
    <3> QED BY <3>1, <3>2
  <2> QED BY <1>r, <2>2, <2>3
<1> QED BY <1>1, <1>2, <1>3, <1>4, <1>5, <1>6, <1>7, <1>8

\* ReconcileLifecycle returns to Ingest with no ready document of a source that is gone
\* and no outdated fact, but for keys changed or saved since its first statement.
THEOREM ReconcileLeavesNothingStale == Spec => []ReconciledUnlessTouched
<1>1. Init => ReconcileInv
  <2> SUFFICES ASSUME Init PROVE ReconcileInv
    OBVIOUS
  <2>1. Ready(Key) = {} /\ \A p \in Process : Ready(Key \ touched[p]) = {}
    BY DEF Init, Ready
  <2>2. \A f \in Fact : f \in Key
    BY DEF Key
  <2> QED BY <2>1, <2>2 DEF Init, ReconcileInv
<1>2. EvidenceInv /\ ReconcileInv /\ [Next]_vars => ReconcileInv'
  BY ReconcileStep
<1>3. ReconcileInv => ReconciledUnlessTouched
  <2> SUFFICES ASSUME ReconcileInv, NEW p \in Process, pc[p] = "reuse",
                      NEW d \in Ready(Key \ touched[p])
               PROVE  IF KeyOf(d) \in Fact THEN VersionOf(d) = version[KeyOf(d)]
                      ELSE ~Gone(KeyOf(d), VersionOf(d))
    BY DEF ReconciledUnlessTouched
  <2>1. KeyOf(d) \in Note \cup Cluster \cup Fact
    BY DEF Ready, Key, Source
  <2> QED BY <2>1 DEF ReconcileInv
<1> QED BY <1>1, <1>2, <1>3, EvidenceInvariant, PTL DEF Spec
=============================================================================
