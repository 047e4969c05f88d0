--------------------------- MODULE BenchmarkReview ---------------------------
(***************************************************************************)
(* The review of a retrieval benchmark (internal/evalreview,               *)
(* cmd/benchmarkreview): one operator runs init, draft, prepare, audit and *)
(* freeze in a workspace directory; two reviewers label the cases (see     *)
(* ReviewServer); an adjudicator edits adjudications.jsonl.  They share    *)
(* nothing but files.                                                      *)
(*                                                                         *)
(* Every file is written to a temporary name and renamed, so a write is    *)
(* one step; what is not atomic are the commands that write several files, *)
(* and the reading of a file and the later use of it.  A file that does    *)
(* not exist is None.                                                      *)
(***************************************************************************)
EXTENDS ReviewAgreement, SequencesExt

CONSTANTS
    Case,       \* cases of the matrix
    Expected,   \* per case: the answerability its task type demands
    Label,      \* what a reviewer can say of a case: answerability and relevance grade
    Person,     \* pseudonyms
    MaxUpsets,  \* bound: edits by hand, crashes and failed writes
    None

Slot == {"reviewer_a", "reviewer_b"}
VARIABLES
    plan,       \* the workspace: "absent", "partial" or "done"
    authored,   \* authored_cases.jsonl: author, query text, candidate references, validity
    report,     \* draft_report.json: what it was made for
    sources,    \* resolved_sources.jsonl: the references it resolves
    assignment, \* per slot: assignments.jsonl
    final,      \* per slot: submissions.jsonl
    decisions,  \* adjudications.jsonl: per case a decision or None
    ledger,     \* review_ledger.jsonl
    summary,    \* review_summary.private.json
    approved,   \* approved_cases.jsonl
    public,     \* review_summary.json in the public directory
    op,         \* the operator's command: where it is and what it has read
    upsets,     \* edits by hand, crashes and failed writes so far
    hurt,       \* history: commands interrupted between two of their files
    revised,    \* history: the authored cases were edited after 'prepare' read them
    raced,      \* history: a file was edited between its reading and its checksum
    reaudited   \* history: an audit wrote its files after a freeze had begun to

fileVars == <<plan, authored, report, sources, assignment, final,
              decisions, ledger, summary, approved, public>>
outVars == <<ledger, summary, approved, public>>
history == <<hurt, revised, raced, reaudited>>
vars == <<fileVars, op, upsets, history>>

Idle == [pc |-> "idle"]
NoLabels == [c \in Case |-> None]
Complete(labels) == \A c \in Case : labels[c] # None

Init ==
    /\ plan = "absent" /\ authored = None /\ report = None /\ sources = None
    /\ assignment = [s \in Slot |-> None]
    /\ final = [s \in Slot |-> None]
    /\ decisions = NoLabels
    /\ ledger = None /\ summary = None /\ approved = None /\ public = None
    /\ op = Idle
    /\ upsets = 0
    /\ hurt = {} /\ revised = FALSE /\ raced = FALSE /\ reaudited = FALSE

-----------------------------------------------------------------------------
(* init, draft and prepare.                                                *)

\* VerifyWorkspace: matrix and plan are there, and are the deterministic ones.
WorkspaceVerified == plan = "done"

\* ValidateAuthoredMatrix: every slot has one case, no query is asked twice, every case
\* has an author and candidates.
MatrixValid(cases) == cases.valid

\* InitializeWorkspace: the directory must not exist; three files follow.
InitializeWorkspace ==
    /\ op.pc = "idle" /\ plan = "absent"
    /\ plan' = "partial"
    /\ op' = [pc |-> "init"]
    /\ UNCHANGED <<authored, report, sources, assignment, final, decisions,
                   outVars, upsets, history>>

FinishInit ==
    /\ op.pc = "init"
    /\ plan' = "done"
    /\ op' = Idle
    /\ UNCHANGED <<authored, report, sources, assignment, final, decisions,
                   outVars, upsets, history>>

\* GenerateDrafts yields a valid matrix by one author, or an error.
GenerateDrafts(person) == [author |-> person, query |-> 0, refs |-> 0, valid |-> TRUE]

\* draft: nothing it writes may exist.
Draft(person) ==
    /\ op.pc = "idle" /\ WorkspaceVerified
    /\ authored = None /\ report = None /\ sources = None
    /\ authored' = GenerateDrafts(person)
    /\ op' = [pc |-> "draft"]
    /\ UNCHANGED <<plan, report, sources, assignment, final, decisions,
                   outVars, upsets, history>>

\* The checksum of the authored cases goes into the report.
FinishDraft ==
    /\ op.pc = "draft"
    /\ report' = authored
    /\ op' = Idle
    /\ UNCHANGED <<plan, authored, sources, assignment, final, decisions,
                   outVars, upsets, history>>

\* VerifyDraftArtifacts.
DraftVerified == authored # None /\ report # None /\ report = authored /\ MatrixValid(authored)

\* ResolveSources answers for every reference of the frozen snapshot, or fails.
ResolveSources(cases) == cases.refs

\* Prepare: what a reviewer is given; the expected answers are left out.
Assignment(cases, reviewer) == [reviewer |-> reviewer, query |-> cases.query, refs |-> cases.refs]

\* prepare: nobody reviews their own cases, no reviewer fills both slots, nothing that
\* prepare writes or a reviewer finished may exist; the sources come first.
Prepare(who) ==
    /\ op.pc = "idle" /\ WorkspaceVerified /\ DraftVerified
    /\ sources = None /\ \A s \in Slot : assignment[s] = None /\ final[s] = None
    /\ who["reviewer_a"] # who["reviewer_b"]
    /\ \A s \in Slot : who[s] # authored.author
    /\ sources' = ResolveSources(authored)
    /\ op' = [pc |-> "prepare", read |-> authored, who |-> who, left |-> Slot]
    /\ UNCHANGED <<plan, authored, report, assignment, final, decisions,
                   outVars, upsets, history>>

\* The slots are written in the random order of a Go map.
Distribute(s) ==
    /\ op.pc = "prepare" /\ s \in op.left
    /\ assignment' = [assignment EXCEPT ![s] = Assignment(op.read, op.who[s])]
    /\ op' = IF op.left = {s} THEN Idle ELSE [op EXCEPT !.left = @ \ {s}]
    /\ UNCHANGED <<plan, authored, report, sources, final, decisions,
                   outVars, upsets, history>>

\* A reviewer finishes: submissions.jsonl appears, complete, once (ReviewServer).
FinishReview(s, labels) ==
    /\ plan = "done" /\ assignment[s] # None /\ final[s] = None
    /\ final' = [final EXCEPT ![s] = labels]
    /\ UNCHANGED <<plan, authored, report, sources, assignment, decisions, outVars, op,
                   upsets, history>>

-----------------------------------------------------------------------------
(* Work by hand.                                                           *)

ByHand == UNCHANGED <<plan, report, sources, assignment, final, outVars, op,
                      hurt, reaudited>>

\* An author rewords a query, proposes another source, or breaks or mends the file.
EditAuthored(field) ==
    /\ authored # None /\ upsets < MaxUpsets
    /\ upsets' = upsets + 1
    /\ authored' = IF field = "valid" THEN [authored EXCEPT !.valid = ~@]
                   ELSE [authored EXCEPT ![field] = @ + 1]
    /\ revised' = (revised \/ sources # None)
    /\ raced' = (raced \/ op.pc = "checksum")
    /\ UNCHANGED decisions /\ ByHand

\* An adjudicator decides some cases of the queue that an audit wrote, or decides them anew.
Adjudicate(person, labels) ==
    /\ ledger # None /\ upsets < MaxUpsets
    /\ upsets' = upsets + 1
    /\ decisions' = [c \in Case |-> IF labels[c] = None THEN decisions[c]
                                   ELSE [by |-> person, said |-> labels[c]]]
    /\ decisions' # decisions
    /\ raced' = (raced \/ op.pc = "checksum")
    /\ UNCHANGED <<authored, revised>> /\ ByHand

-----------------------------------------------------------------------------
(* audit and freeze.                                                       *)

Inputs == [authored |-> authored, sources |-> sources, reviews |-> final,
           decisions |-> decisions]

Answerable(label) == IF label.answer = "answerable" THEN 1 ELSE 0

\* calculateAgreement and its gates, over some of the cases.
Agree(r, cases) ==
    LET order == SetToSeq(cases)
        says(s, i) == r.reviews[s][order[i]]
        answers(s) == [i \in DOMAIN order |-> Answerable(says(s, i))]
        grades(s) == [i \in DOMAIN order |-> says(s, i).grade]
    IN  /\ Round4(CohenKappa(answers("reviewer_a"), answers("reviewer_b"), 2)) >= 8000
        /\ Round4(QuadraticWeightedKappa(grades("reviewer_a"), grades("reviewer_b"), 4)) >= 7000

\* validateFinalSemantics, for one candidate source per case.
FinalSemantics(c, label) ==
    /\ label.answer = Expected[c]
    /\ CASE Expected[c] = "answerable" -> label.grade >= 2
         [] Expected[c] = "insufficient_evidence" -> label.grade = 1
         [] OTHER -> label.grade < 2

Author(r) == r.authored.author
Reviewers == {assignment[s].reviewer : s \in Slot}

\* validateJudgments: the judged sources are the candidates of the authored case.
JudgmentsFit(r, s) == assignment[s].refs = r.authored.refs

\* validateReviewSet: one reviewer, not the author, has judged every case.
ReviewSetValid(r, s) ==
    /\ Complete(r.reviews[s])
    /\ assignment[s].reviewer # Author(r)
    /\ JudgmentsFit(r, s)

\* Seeded defect: an adjudicator may be one of the reviewers.
AdjudicationValidAnyJudge(r, decision) == decision.by # Author(r)

\* validateAdjudication: a third person decides.
AdjudicationValid(r, decision) == decision.by \notin {Author(r)} \cup Reviewers

\* Audit refuses anything but two complete, independent reviews of the authored pool,
\* and decisions by third persons.
AuditAccepts(r) ==
    /\ MatrixValid(r.authored) /\ ResolveSources(r.authored) = r.sources
    /\ \A s \in Slot : ReviewSetValid(r, s)
    /\ assignment["reviewer_a"].reviewer # assignment["reviewer_b"].reviewer
    /\ \A c \in Case : r.decisions[c] # None => AdjudicationValid(r, r.decisions[c])

\* The gates of the summary.  A case stands for a task type.
Ready(r) ==
    /\ Complete(r.decisions)
    /\ \A c \in Case : FinalSemantics(c, r.decisions[c].said)
    /\ Agree(r, Case) /\ \A c \in Case : Agree(r, {c})

\* audit: the files are read and judged ...
Audit(freeze) ==
    /\ op.pc = "idle" /\ WorkspaceVerified
    /\ authored # None /\ sources # None /\ \A s \in Slot : final[s] # None
    /\ AuditAccepts(Inputs)
    /\ op' = [pc |-> "checksum", freeze |-> freeze, read |-> Inputs]
    /\ UNCHANGED <<fileVars, upsets, history>>

\* ... their checksums are taken from the files once more; freeze goes on if every gate
\* is passed and neither of its results exists.
ChecksumInputs ==
    /\ op.pc = "checksum"
    /\ op' = CASE ~op.freeze -> [pc |-> "record", freeze |-> FALSE, read |-> op.read, sums |-> Inputs]
               [] op.freeze /\ Ready(op.read) /\ approved = None /\ public = None ->
                     [pc |-> "approve", freeze |-> TRUE, read |-> op.read, sums |-> Inputs]
               [] OTHER -> Idle
    /\ UNCHANGED <<fileVars, upsets, history>>

\* FreezeApprovedCases writes the cases first.
Approve ==
    /\ op.pc = "approve"
    /\ approved' = op.read
    /\ op' = [op EXCEPT !.pc = "record"]
    /\ UNCHANGED <<plan, authored, report, sources, assignment, final, decisions,
                   ledger, summary, public, upsets, history>>

\* WriteAuditArtifacts: the ledger with the queue of open cases ...
RecordLedger ==
    /\ op.pc = "record"
    /\ ledger' = op.read
    /\ op' = [op EXCEPT !.pc = "summarise"]
    /\ reaudited' = (reaudited \/ (~op.freeze /\ approved # None))
    /\ UNCHANGED <<plan, authored, report, sources, assignment, final, decisions,
                   summary, approved, public, upsets, hurt, revised, raced>>

\* ... and the private summary.
RecordSummary ==
    /\ op.pc = "summarise"
    /\ summary' = [status |-> IF Ready(op.read) THEN "ready_to_freeze" ELSE "review_in_progress",
                   sums |-> op.sums]
    /\ op' = IF op.freeze THEN [op EXCEPT !.pc = "seal"] ELSE Idle
    /\ UNCHANGED <<plan, authored, report, sources, assignment, final, decisions,
                   ledger, approved, public, upsets, history>>

Sealed == [status |-> "review_frozen", sums |-> op.sums, approved |-> approved]

Seal ==
    /\ op.pc = "seal"
    /\ summary' = Sealed
    /\ op' = [op EXCEPT !.pc = "publish"]
    /\ UNCHANGED <<plan, authored, report, sources, assignment, final, decisions,
                   ledger, approved, public, upsets, history>>

PublishSummary ==
    /\ op.pc = "publish"
    /\ public' = Sealed
    /\ op' = Idle
    /\ UNCHANGED <<plan, authored, report, sources, assignment, final, decisions,
                   ledger, summary, approved, upsets, history>>

\* Seeded defect: a failed draft leaves its cases behind.
CommandFailsUncleaned ==
    /\ op.pc # "idle" /\ upsets < MaxUpsets
    /\ upsets' = upsets + 1
    /\ plan' = IF op.pc = "init" THEN "absent" ELSE plan
    /\ hurt' = hurt \cup ({op.pc} \cap {"prepare", "record", "summarise", "seal", "publish"})
    /\ op' = Idle
    /\ UNCHANGED <<authored, report, sources, assignment, final, decisions, outVars,
                   revised, raced, reaudited>>

\* A write fails.  init and draft take back what they wrote; prepare and freeze do not.
CommandFails ==
    /\ op.pc # "idle" /\ upsets < MaxUpsets
    /\ upsets' = upsets + 1
    /\ plan' = IF op.pc = "init" THEN "absent" ELSE plan
    /\ authored' = IF op.pc = "draft" THEN None ELSE authored
    /\ hurt' = hurt \cup ({op.pc} \cap {"prepare", "record", "summarise", "seal", "publish"})
    /\ op' = Idle
    /\ UNCHANGED <<report, sources, assignment, final, decisions, outVars,
                   revised, raced, reaudited>>

\* The operator's process dies and takes nothing back.
CommandDies ==
    /\ op.pc # "idle" /\ upsets < MaxUpsets
    /\ upsets' = upsets + 1
    /\ hurt' = hurt \cup ({op.pc} \cap {"init", "draft", "prepare", "record", "summarise", "seal", "publish"})
    /\ op' = Idle
    /\ UNCHANGED <<fileVars, revised, raced, reaudited>>

Next ==
    \/ InitializeWorkspace \/ FinishInit \/ FinishDraft
    \/ \E p \in Person : Draft(p)
    \/ \E who \in [Slot -> Person] : Prepare(who)
    \/ \E s \in Slot : Distribute(s)
    \/ \E s \in Slot, labels \in [Case -> Label] : FinishReview(s, labels)
    \/ \E field \in {"query", "refs", "valid"} : EditAuthored(field)
    \/ \E p \in Person, labels \in [Case -> Label \cup {None}] : Adjudicate(p, labels)
    \/ \E freeze \in BOOLEAN : Audit(freeze)
    \/ ChecksumInputs \/ Approve \/ RecordLedger \/ RecordSummary \/ Seal \/ PublishSummary
    \/ CommandFails \/ CommandDies

Spec == Init /\ [][Next]_vars

-----------------------------------------------------------------------------
\* Approved cases rest on two complete reviews by different persons, neither of them the
\* author, and on decisions of a third person that fit the task; the reviews are the
\* finished ones, and the reviewers saw the approved wording unless the cases were
\* edited after 'prepare' (Audit, FreezeApprovedCases).
ApprovedEarned ==
    approved # None =>
        LET taken == Reviewers \cup {Author(approved)}
        IN  /\ assignment["reviewer_a"].reviewer # assignment["reviewer_b"].reviewer
            /\ Author(approved) \notin Reviewers
            /\ \A c \in Case : LET d == approved.decisions[c]
                              IN  d # None /\ FinalSemantics(c, d.said) /\ d.by \notin taken
            /\ \A s \in Slot : approved.reviews[s] = final[s]
            /\ ~revised => \A s \in Slot : approved.authored.query = assignment[s].query

\* Part of WorkspaceConsistent.  The published summary vouches for the approved cases and, unless a file was edited
\* while the command ran, for the decisions they rest on; ledger and private summary
\* agree with it unless an audit was run again (WriteAuditArtifacts).
PublishedAgrees ==
    public # None =>
        /\ public.approved = approved
        /\ ~raced => public.sums = approved
        /\ ~reaudited => ledger = approved /\ summary = public

\* Part of WorkspaceConsistent.  A command that was not interrupted between two of its files has left all of them: no
\* later command is refused for half of a set (draft, prepare, FreezeApprovedCases).
NeverHalfDone ==
    op.pc = "idle" =>
        /\ plan = "partial" => "init" \in hurt
        /\ (authored = None) # (report = None) => "draft" \in hurt
        /\ sources # None /\ (\E s \in Slot : assignment[s] = None) => "prepare" \in hurt
        /\ approved # None /\ public = None => hurt \cap {"record", "summarise", "seal", "publish"} # {}

\* The files of the workspace fit together at every moment, whatever was edited by hand
\* or interrupted: what is published agrees with what was approved, and half of a set of
\* files is only left behind by an interruption (cmd/benchmarkreview, FreezeApprovedCases).
WorkspaceConsistent == PublishedAgrees /\ NeverHalfDone

-----------------------------------------------------------------------------
(* Why it holds: the parts of the inductive invariant *)

Cases == [author : Person, query : Nat, refs : Nat, valid : BOOLEAN]
Handout == [reviewer : Person, query : Nat, refs : Nat]
Reviews == [Case -> Label]
Decisions == [Case -> [by : Person, said : Label] \cup {None}]
Evidence == [authored : Cases, sources : Nat, reviews : [Slot -> Reviews], decisions : Decisions]
SealedSummary == [status : {"review_frozen"}, sums : Evidence, approved : Evidence]
Summary == SealedSummary \cup [status : {"ready_to_freeze", "review_in_progress"}, sums : Evidence]

Recording == {"record", "summarise", "seal", "publish"}
Auditing == {"checksum", "approve"} \cup Recording

Command ==
    [pc : {"idle", "init", "draft"}]
    \cup [pc : {"prepare"}, read : Cases, who : [Slot -> Person], left : SUBSET Slot]
    \cup [pc : {"checksum"}, freeze : BOOLEAN, read : Evidence]
    \cup [pc : Auditing \ {"checksum"}, freeze : BOOLEAN, read : Evidence, sums : Evidence]

TypeOK ==
    /\ plan \in {"absent", "partial", "done"}
    /\ authored \in Cases \cup {None} /\ report \in Cases \cup {None} /\ sources \in Nat \cup {None}
    /\ assignment \in [Slot -> Handout \cup {None}] /\ final \in [Slot -> Reviews \cup {None}]
    /\ decisions \in Decisions
    /\ ledger \in Evidence \cup {None} /\ approved \in Evidence \cup {None}
    /\ summary \in Summary \cup {None} /\ public \in SealedSummary \cup {None}
    /\ op \in Command /\ upsets \in Nat
    /\ revised \in BOOLEAN /\ raced \in BOOLEAN /\ reaudited \in BOOLEAN

\* What an audit accepted stays acceptable: the reviews and who made them are final.
Judged(r) ==
    /\ AuditAccepts(r)
    /\ \A s \in Slot : final[s] # None /\ r.reviews[s] = final[s]
    /\ ~revised => \A s \in Slot : r.authored.query = assignment[s].query

\* The files follow from each other.
FilesFollow ==
    /\ sources # None => authored # None
    /\ \A s \in Slot : assignment[s] # None =>
          sources # None /\ (~revised => assignment[s].query = authored.query)
    /\ \A s \in Slot : final[s] # None => assignment[s] # None
    /\ approved # None => Judged(approved) /\ Ready(approved)
    /\ public # None => approved # None

\* How far init, draft and prepare are.
MakesWorkspace ==
    /\ op.pc = "init" => plan = "partial"
    /\ op.pc = "draft" => authored # None /\ report = None /\ sources = None
    /\ op.pc = "prepare" =>
          /\ sources # None /\ op.left # {} /\ (~revised => op.read.query = authored.query)
          /\ \A s \in Slot : s \in op.left <=> assignment[s] = None

\* What audit and freeze hold, and which of their files are written.
AuditHolds ==
    /\ op.pc \in Auditing => Judged(op.read)
    /\ op.pc = "checksum" /\ ~raced => op.read = Inputs
    /\ op.pc \in {"approve"} \cup Recording /\ op.freeze /\ ~raced => op.sums = op.read
    /\ op.pc = "approve" => op.freeze /\ Ready(op.read) /\ approved = None /\ public = None
    /\ op.pc \in Recording /\ op.freeze => approved = op.read /\ public = None
    /\ op.pc = "summarise" =>
          IF op.freeze THEN ledger = op.read ELSE approved # None => reaudited
    /\ op.pc \in {"seal", "publish"} => op.freeze /\ ledger = op.read
    /\ op.pc = "publish" => summary = Sealed

\* Half of a set of files is the command's at work, or an interruption's.
HalvesAccounted ==
    /\ plan = "partial" => op.pc = "init" \/ "init" \in hurt
    /\ (authored = None) # (report = None) => op.pc = "draft" \/ "draft" \in hurt
    /\ sources # None /\ (\E s \in Slot : assignment[s] = None) =>
          op.pc = "prepare" \/ "prepare" \in hurt
    /\ approved # None /\ public = None =>
          (op.pc \in Recording /\ op.freeze) \/ hurt \cap Recording # {}

\* The inductive invariant.
WorkspaceInv ==
    TypeOK /\ FilesFollow /\ PublishedAgrees /\ MakesWorkspace /\ AuditHolds /\ HalvesAccounted
=============================================================================
