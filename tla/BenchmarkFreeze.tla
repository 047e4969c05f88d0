--------------------------- MODULE BenchmarkFreeze ---------------------------
(***************************************************************************)
(* From authored cases to saved evaluations (internal/evalbench,           *)
(* internal/retrievaleval and the commands evalfreeze and retrievaleval):  *)
(* a freeze stages two directories, stores the benchmark, and renames the  *)
(* directories to their targets; an evaluation trusts only what it can     *)
(* verify in the public directory.                                         *)
(*                                                                         *)
(* A digest is the value it digests.  A file of cases is a function from   *)
(* lines, which are those of the authored file in every file made from it. *)
(* A directory is a record of its files and of the freeze that made it     *)
(* (`by`); `aside` holds the directories that are at no target: stages,    *)
(* and what somebody moved away.                                           *)
(***************************************************************************)
EXTENDS Integers, FiniteSets, Sequences, SequencesExt

CONSTANTS
    Freezer,           \* runs of evalfreeze
    BenchmarkId,       \* benchmark ids, each with its own version
    Authored,          \* authored files: sequences of cases
    CaseCount,
    DevelopmentCases,
    MaxMoves,          \* bound: what is done to the directories by hand
    None

VARIABLES
    freezer, aside, privateDir, publicDir,
    benchmarks,        \* frozen rows of retrieval_benchmarks with their cases
    evaluator,         \* a run of retrievaleval
    moves

freezeVars == <<freezer, aside, privateDir, publicDir, benchmarks, evaluator, moves>>

Ended == [pc |-> "ended"]
Idle == [pc |-> "idle"]
Absent == [kind |-> "absent"]   \* no directory at a target

FreezeInit ==
    /\ freezer = [f \in Freezer |-> [pc |-> "new"]]
    /\ aside = {} /\ privateDir = Absent /\ publicDir = Absent
    /\ benchmarks = {} /\ evaluator = Idle /\ moves = 0

-----------------------------------------------------------------------------
(* Freezing authored cases.                                                *)

\* validateAuthoredSemantics.  `dual` says that the metadata for two principals is there.
SemanticsValid(c) ==
    LET types == {c.gold[i].type : i \in DOMAIN c.gold}
    IN  /\ \A i \in DOMAIN c.gold : c.gold[i].note > 0
        /\ types \subseteq {"note", "note_body", "note_media", "note_comment"}
        /\ CASE c.task \in {"no_relevant_document", "out_of_domain_noise"} ->
                  c.gold = <<>> /\ c.answerable = "false"
             [] c.task = "insufficient_evidence" -> c.gold # <<>> /\ c.answerable = "false"
             [] c.task = "authorization_boundary" -> c.gold # <<>> /\ c.dual
             [] c.task = "ocr_detail" -> "note_media" \in types
             [] OTHER -> c.gold # <<>> /\ c.answerable # "false"

\* checksumCase covers the metadata, hence the benchmark's version, but not the nonce.
ChecksumCase(c) == <<c.id, c.split, c.query>>

CommitmentHash(nonce, checksum) == <<nonce, checksum>>

\* normalizeCommitmentNonce: a nonce is drawn if the author gave none.
Nonce(f, given) == IF given = None THEN f ELSE given

\* A case as it is frozen.
Seal(f, id, c) ==
    LET nonce == Nonce(f, c.nonce)
        sum == ChecksumCase([id |-> id, split |-> c.split, query |-> c.query])
    IN  [id |-> id, split |-> c.split, query |-> c.query, nonce |-> nonce,
         checksum |-> sum, commitment |-> CommitmentHash(nonce, sum)]

LinesOf(cases, split) == {i \in DOMAIN cases : cases[i].split = split}
OfSplit(cases, split) == Restrict(cases, LinesOf(cases, split))

\* buildManifest and buildManifestFromCommitments, without the counts by task and review.
BuildManifest(id, commitments) ==
    [id |-> id, count |-> Len(commitments),
     development |-> Cardinality(LinesOf(commitments, "development")),
     holdout |-> Cardinality(LinesOf(commitments, "holdout")),
     checksum |-> <<id, [i \in DOMAIN commitments |-> commitments[i].commitment]>>]

\* What FreezeAuthored accepts.
FreezeAccepts(cases) ==
    /\ Len(cases) = CaseCount
    /\ \A i \in DOMAIN cases : cases[i].split \in {"development", "holdout"} /\ SemanticsValid(cases[i])
    /\ \A i, j \in DOMAIN cases : cases[i].query = cases[j].query => i = j
    /\ Cardinality(LinesOf(cases, "development")) = DevelopmentCases

FreezeAuthored(f, id, cases) == [i \in DOMAIN cases |-> Seal(f, id, cases[i])]

\* WriteArtifacts.
PrivateArtifacts(f, id, sealed) ==
    [kind |-> "private", by |-> f, manifest |-> BuildManifest(id, sealed), cases |-> sealed]

\* WritePublicArtifacts: holdout cases are only committed to.
PublicArtifacts(f, id, sealed) ==
    [kind |-> "public", by |-> f, manifest |-> BuildManifest(id, sealed),
     cases |-> OfSplit(sealed, "development"),
     commitments |-> [i \in DOMAIN sealed |->
                        [split |-> sealed[i].split, commitment |-> sealed[i].commitment]]]

-----------------------------------------------------------------------------
(* Verification.                                                           *)

\* readVerifiedCases: what is wrong with one line, and what two lines may not share.
VerifiedCases(cases, requiredSplit) ==
    /\ \A i \in DOMAIN cases :
          LET c == cases[i]
          IN  /\ requiredSplit # None => c.split = requiredSplit
              /\ c.checksum = ChecksumCase(c)
              /\ c.nonce # None \/ c.commitment # None =>
                    c.nonce # None /\ c.commitment = CommitmentHash(c.nonce, c.checksum)
    /\ \A i, j \in DOMAIN cases :
          cases[i].checksum = cases[j].checksum \/ cases[i].query = cases[j].query => i = j

VerifyFullArtifacts(dir) ==
    VerifiedCases(dir.cases, None) /\ BuildManifest(dir.manifest.id, dir.cases) = dir.manifest

VerifyPublicArtifacts(dir) ==
    LET shown == {dir.cases[i].commitment : i \in DOMAIN dir.cases}
        committed == dir.commitments
    IN  /\ VerifiedCases(dir.cases, "development")
        /\ \A i \in DOMAIN dir.cases : dir.cases[i].nonce # None
        /\ \A i, j \in DOMAIN committed : committed[i].commitment = committed[j].commitment => i = j
        /\ \A i \in DOMAIN committed :
              committed[i].split = "development" <=> committed[i].commitment \in shown
        /\ Cardinality(LinesOf(committed, "development")) = Cardinality(DOMAIN dir.cases)
        /\ BuildManifest(dir.manifest.id, committed) = dir.manifest

VerifyArtifacts(dir) ==
    /\ dir # Absent
    /\ IF dir.kind = "private" THEN VerifyFullArtifacts(dir) ELSE VerifyPublicArtifacts(dir)

\* Seeded defect: some of the sealed cases are enough.
VerifySealedSome(manifest, dir, cases) ==
    LET sealed == {dir.commitments[i].commitment : i \in LinesOf(dir.commitments, "holdout")}
    IN  \A i \in DOMAIN cases : cases[i].nonce # None /\ cases[i].commitment \in sealed

\* VerifySealedCases, after VerifyArtifacts gave the manifest and the file of commitments
\* is opened again.
VerifySealedCases(manifest, dir, cases) ==
    LET sealed == {dir.commitments[i].commitment : i \in LinesOf(dir.commitments, "holdout")}
    IN  /\ Cardinality(DOMAIN cases) = manifest.holdout
        /\ \A i \in DOMAIN cases : cases[i].nonce # None /\ cases[i].commitment \in sealed
        /\ \A i, j \in DOMAIN cases : cases[i].commitment = cases[j].commitment => i = j

-----------------------------------------------------------------------------
(* The command evalfreeze.                                                 *)

\* StageArtifacts; stages that do not verify are removed again.
StageArtifacts(f, id, file) ==
    LET sealed == FreezeAuthored(f, id, file)
        new == {PrivateArtifacts(f, id, sealed), PublicArtifacts(f, id, sealed)}
    IN  /\ freezer[f].pc = "new"
        /\ FreezeAccepts(file)
        /\ publicDir = Absent /\ privateDir = Absent
        /\ \A dir \in new : VerifyArtifacts(dir)
        /\ aside' = aside \cup new
        /\ freezer' = [freezer EXCEPT ![f] = [pc |-> "staged"]]
        /\ UNCHANGED <<privateDir, publicDir, benchmarks, evaluator, moves>>

\* The directory that a freeze has staged and not yet renamed.
Stage(f, kind) == CHOOSE dir \in aside : dir.by = f /\ dir.kind = kind

StoredIds == {b.id : b \in benchmarks}

\* SaveFrozen, one transaction.  Every failure keeps the stages, also that of a commit
\* whose answer is lost.
SaveFrozen(f, outcome) ==
    /\ freezer[f].pc = "staged"
    /\ LET staged == Stage(f, "private")
       IN  /\ outcome = "refused" <=> staged.manifest.id \in StoredIds
           /\ benchmarks' = IF outcome \in {"refused", "failed"} THEN benchmarks
                            ELSE benchmarks \cup {[id |-> staged.manifest.id, cases |-> staged.cases]}
    /\ freezer' = [freezer EXCEPT ![f] = IF outcome = "ok" THEN [pc |-> "saved"] ELSE Ended]
    /\ UNCHANGED <<aside, privateDir, publicDir, evaluator, moves>>

\* Publish: two renames, each of which fails if its target exists by now.
PublishPrivate(f) ==
    /\ freezer[f].pc = "saved"
    /\ IF privateDir = Absent
       THEN /\ privateDir' = Stage(f, "private") /\ aside' = aside \ {Stage(f, "private")}
            /\ freezer' = [freezer EXCEPT ![f] = [pc |-> "private"]]
       ELSE freezer' = [freezer EXCEPT ![f] = Ended] /\ UNCHANGED <<privateDir, aside>>
    /\ UNCHANGED <<publicDir, benchmarks, evaluator, moves>>

PublishPublic(f) ==
    /\ freezer[f].pc = "private"
    /\ freezer' = [freezer EXCEPT ![f] = Ended]
    /\ IF publicDir = Absent
       THEN publicDir' = Stage(f, "public") /\ aside' = aside \ {Stage(f, "public")}
       ELSE UNCHANGED <<publicDir, aside>>
    /\ UNCHANGED <<privateDir, benchmarks, evaluator, moves>>

FreezerDies(f) ==
    /\ freezer[f].pc \in {"staged", "saved", "private"}
    /\ freezer' = [freezer EXCEPT ![f] = Ended]
    /\ UNCHANGED <<aside, privateDir, publicDir, benchmarks, evaluator, moves>>

-----------------------------------------------------------------------------
(* What people do to the directories.                                      *)

\* Does the evaluator see another public directory than the one it verified?
Swapped == IF evaluator.pc = "verified" THEN [evaluator EXCEPT !.swapped = TRUE] ELSE evaluator

\* The directories are moved away, for another freeze.
MoveAside ==
    /\ moves < MaxMoves /\ publicDir # Absent
    /\ aside' = aside \cup ({privateDir, publicDir} \ {Absent})
    /\ privateDir' = Absent /\ publicDir' = Absent
    /\ evaluator' = Swapped /\ moves' = moves + 1
    /\ UNCHANGED <<freezer, benchmarks>>

\* A directory that is preserved for recovery, of a freeze that has ended, is put at its
\* target, perhaps the wrong one of two.
Recover(dir) ==
    /\ moves < MaxMoves /\ freezer[dir.by] = Ended
    /\ \/ dir.kind = "private" /\ privateDir = Absent
          /\ privateDir' = dir /\ UNCHANGED <<publicDir, evaluator>>
       \/ dir.kind = "public" /\ publicDir = Absent
          /\ publicDir' = dir /\ evaluator' = Swapped /\ UNCHANGED privateDir
    /\ aside' = aside \ {dir} /\ moves' = moves + 1
    /\ UNCHANGED <<freezer, benchmarks>>

\* A case with other words, its checksum and commitment made to fit.
Reseal(c) ==
    LET new == [c EXCEPT !.query = "edited"]
        sum == ChecksumCase(new)
    IN  [new EXCEPT !.checksum = sum, !.commitment = CommitmentHash(c.nonce, sum)]

\* Edits of public files, each of which passes some of the checks: a development case is
\* reworded, with a new commitment; the development cases are dropped; a commitment is
\* dropped and the counts of the manifest made to fit.
Reworded(dir, line) ==
    LET old == dir.cases[line]
        new == Reseal(old)
    IN  [dir EXCEPT !.cases[line] = new,
                    !.commitments = [i \in DOMAIN @ |->
                        IF @[i].commitment = old.commitment
                        THEN [@[i] EXCEPT !.commitment = new.commitment] ELSE @[i]]]

PublicEdits(dir) ==
    {Reworded(dir, line) : line \in DOMAIN dir.cases}
    \cup {[dir EXCEPT !.cases = <<>>],
          [dir EXCEPT !.commitments = Front(@), !.manifest.count = @ - 1, !.manifest.holdout = @ - 1]}

EditPublic ==
    /\ moves < MaxMoves /\ publicDir # Absent /\ VerifyArtifacts(publicDir)
    /\ publicDir' \in PublicEdits(publicDir)
    /\ evaluator' = Swapped /\ moves' = moves + 1
    /\ UNCHANGED <<freezer, aside, privateDir, benchmarks>>

\* Lines somebody puts into the private input of a holdout evaluation: some of a private
\* directory's, one perhaps without its nonce.
PrivateLines ==
    UNION {LET lines == {dir.cases[i] : i \in DOMAIN dir.cases}
           IN  lines \cup {[c EXCEPT !.nonce = None, !.commitment = None] : c \in lines}
             : dir \in {d \in aside \cup {privateDir} : d.kind = "private"}}

-----------------------------------------------------------------------------
(* The command retrievaleval.                                              *)

\* LoadCases up to the verified manifest; a holdout's private input is read before.
LoadManifest(split, input) ==
    /\ evaluator.pc = "idle"
    /\ split = "development" => input = <<>>
    /\ split = "holdout" => VerifiedCases(input, "holdout")
    /\ VerifyArtifacts(publicDir)
    /\ evaluator' = [pc |-> "verified", split |-> split, manifest |-> publicDir.manifest,
                     cases |-> input, swapped |-> FALSE]
    /\ UNCHANGED <<freezer, aside, privateDir, publicDir, benchmarks, moves>>

\* The rest of LoadCases reads the public directory again.
LoadCases ==
    /\ evaluator.pc = "verified"
    /\ \/ /\ publicDir # Absent
          /\ evaluator.split = "development" /\ VerifiedCases(publicDir.cases, "development")
          /\ evaluator' = [evaluator EXCEPT !.pc = "loaded", !.cases = publicDir.cases]
       \/ /\ publicDir # Absent
          /\ evaluator.split = "holdout"
          /\ VerifySealedCases(evaluator.manifest, publicDir, evaluator.cases)
          /\ evaluator' = [evaluator EXCEPT !.pc = "loaded"]
    /\ UNCHANGED <<freezer, aside, privateDir, publicDir, benchmarks, moves>>

\* Evaluator.Run has one result for each case.  Another dataset than the manifest's, a
\* search that fails or a retriever that changes meanwhile ends the command instead.
Run ==
    /\ evaluator.pc = "loaded"
    /\ evaluator.cases # <<>>
    /\ evaluator' = [evaluator EXCEPT !.pc = "evaluated"]
    /\ UNCHANGED <<freezer, aside, privateDir, publicDir, benchmarks, moves>>

\* Save: a row under an id that is stored, with the checksum of the manifest that was
\* loaded, which is not compared with the stored one.
SaveEvaluation ==
    /\ evaluator.pc = "evaluated"
    /\ evaluator.manifest.id \in StoredIds
    /\ evaluator' = [evaluator EXCEPT !.pc = "saved"]
    /\ UNCHANGED <<freezer, aside, privateDir, publicDir, benchmarks, moves>>

\* The command ends: it fails, dies, or has published its report.
EvaluationEnds ==
    /\ evaluator.pc # "idle"
    /\ evaluator' = Idle
    /\ UNCHANGED <<freezer, aside, privateDir, publicDir, benchmarks, moves>>

FreezeNext ==
    \/ \E f \in Freezer :
          \/ \E id \in BenchmarkId, file \in Authored : StageArtifacts(f, id, file)
          \/ \E outcome \in {"ok", "lost", "refused", "failed"} : SaveFrozen(f, outcome)
          \/ PublishPrivate(f) \/ PublishPublic(f) \/ FreezerDies(f)
    \/ MoveAside \/ (\E dir \in aside : Recover(dir)) \/ EditPublic
    \/ LoadManifest("development", <<>>)
    \/ evaluator.pc = "idle" /\ publicDir # Absent
          /\ \E input \in BoundedSeq(PrivateLines, CaseCount - DevelopmentCases) :
                LoadManifest("holdout", input)
    \/ LoadCases \/ Run \/ SaveEvaluation \/ EvaluationEnds

FreezeSpec == FreezeInit /\ [][FreezeNext]_freezeVars

-----------------------------------------------------------------------------
\* Part of BenchmarkTraceable.  The nonces of a stored benchmark exist in no table: some
\* private directory has them, wherever its freeze ended and whatever was retried.
NoncesKept ==
    \A b \in benchmarks :
        \E dir \in aside \cup ({privateDir} \ {Absent}) : dir.kind = "private" /\ dir.cases = b.cases

\* Part of BenchmarkTraceable.  Until somebody moves them, the published directories are
\* those of one freeze, whose benchmark is stored.
PublishedTogether ==
    moves = 0 /\ publicDir # Absent =>
        /\ privateDir # Absent /\ privateDir.by = publicDir.by
        /\ \E b \in benchmarks : publicDir.manifest = BuildManifest(b.id, b.cases) /\ b.cases = privateDir.cases

\* Part of BenchmarkTraceable.  A saved evaluation with the manifest of the stored
\* benchmark ran on all its cases of that split and no others, unless the public
\* directory was changed between the two times it is read.
EvaluatedAsFrozen ==
    evaluator.pc = "saved" /\ ~evaluator.swapped =>
        \A b \in benchmarks :
            evaluator.manifest = BuildManifest(b.id, b.cases) =>
                ToSet(evaluator.cases) = ToSet(OfSplit(b.cases, evaluator.split))

\* A frozen benchmark can be traced from its evaluations to its private cases, after
\* freezes that race, die or lose the answer of their commit and after hand recovery
\* (docs/16: "verified staging paths are preserved in structured logs for recovery rather
\* than discarding the nonces"; VerifySealedCases: "proves that private holdout cases
\* match the public nonce commitments").
BenchmarkTraceable == NoncesKept /\ PublishedTogether /\ EvaluatedAsFrozen

-----------------------------------------------------------------------------
(* Why it holds: the parts of the inductive invariant                      *)

Split == {"development", "holdout"}
Query == {"edited"} \cup (UNION {{file[i].query : i \in DOMAIN file} : file \in Authored})
NonceValue == {None} \cup Freezer \cup (UNION {{file[i].nonce : i \in DOMAIN file} : file \in Authored})
Checksum == BenchmarkId \X Split \X Query
Commitment == (NonceValue \X Checksum) \cup {None}
EvalCase == [id : BenchmarkId, split : Split, query : Query, nonce : NonceValue,
             checksum : Checksum, commitment : Commitment]

IsCaseFile(cases) == DOMAIN cases \subseteq 1..CaseCount /\ cases \in [DOMAIN cases -> EvalCase]

IsDirectory(dir) ==
    /\ IsCaseFile(dir.cases)
    /\ \/ dir \in [kind : {"private"}, by : Freezer, manifest : {dir.manifest}, cases : {dir.cases}]
       \/ /\ dir \in [kind : {"public"}, by : Freezer, manifest : {dir.manifest}, cases : {dir.cases},
                      commitments : {dir.commitments}]
          /\ \E n \in 0..CaseCount : DOMAIN dir.commitments = 1..n

IsEvaluation(e) ==
    /\ IsCaseFile(e.cases)
    /\ e \in [pc : {"verified", "loaded", "evaluated", "saved"}, split : Split,
              manifest : {e.manifest}, cases : {e.cases}, swapped : BOOLEAN]

FreezeTypeOK ==
    /\ freezer \in [Freezer -> [pc : {"new", "staged", "saved", "private", "ended"}]]
    /\ \A dir \in aside \cup ({privateDir, publicDir} \ {Absent}) : IsDirectory(dir)
    /\ \A b \in benchmarks : IsCaseFile(b.cases)
    /\ evaluator = Idle \/ IsEvaluation(evaluator)
    /\ moves \in Nat

Directories == aside \cup ({privateDir, publicDir} \ {Absent})

\* The staged directory of this kind is still to be renamed.
Awaits(f, kind) ==
    freezer[f].pc \in {"staged", "saved"} \/ (freezer[f].pc = "private" /\ kind = "public")

\* Stages wait for their freeze alone; what is at a target left its stage.
StagesKept ==
    /\ \A dir \in Directories : freezer[dir.by].pc # "new"
    /\ privateDir # Absent =>
          privateDir.kind = "private" /\ freezer[privateDir.by].pc \in {"private", "ended"}
    /\ publicDir # Absent => publicDir.kind = "public" /\ freezer[publicDir.by] = Ended
    /\ \A f \in Freezer, kind \in {"private", "public"} : Awaits(f, kind) =>
          \E dir \in aside :
             /\ dir.by = f /\ dir.kind = kind
             /\ \A other \in aside : other.by = f /\ other.kind = kind => other = dir

Sealed(cases) ==
    \A i \in DOMAIN cases :
        /\ cases[i].checksum = ChecksumCase(cases[i])
        /\ cases[i].commitment = CommitmentHash(cases[i].nonce, cases[i].checksum)

\* Private directories and stored benchmarks are as they were frozen.
PrivateIntact ==
    /\ \A dir \in Directories : dir.kind = "private" =>
          Sealed(dir.cases) /\ dir.manifest = BuildManifest(dir.manifest.id, dir.cases)
    /\ \A b \in benchmarks : Sealed(b.cases)

IsStored(dir) == [id |-> dir.manifest.id, cases |-> dir.cases] \in benchmarks

\* A freeze publishes what it has stored; before anybody moves a directory, the two of a
\* freeze have one manifest, and the private one is published first.
StoredFirst ==
    /\ \A dir \in aside : dir.kind = "private" /\ freezer[dir.by].pc = "saved" => IsStored(dir)
    /\ moves = 0 =>
          /\ \A d, e \in Directories : d.by = e.by => d.manifest = e.manifest
          /\ privateDir # Absent => IsStored(privateDir)
          /\ publicDir # Absent => privateDir # Absent /\ privateDir.by = publicDir.by
          /\ \A f \in Freezer : freezer[f].pc = "private" => privateDir # Absent /\ privateDir.by = f

\* The cases fit as many of the manifest's commitments as it counts for their split.
FitsManifest(cases, split, manifest) ==
    LET committed == manifest.checksum[2]
    IN  /\ \A i \in DOMAIN cases :
              /\ cases[i].split = split /\ cases[i].checksum = ChecksumCase(cases[i])
              /\ cases[i].commitment = CommitmentHash(cases[i].nonce, cases[i].checksum)
        /\ \E lines \in SUBSET DOMAIN committed :
              /\ Cardinality(lines) = manifest[split]
              /\ {cases[i].commitment : i \in DOMAIN cases} = {committed[i] : i \in lines}

\* What the evaluation has verified so far.
EvaluationSound ==
    evaluator # Idle /\ ~evaluator.swapped =>
        IF evaluator.pc = "verified"
        THEN /\ publicDir # Absent /\ VerifyArtifacts(publicDir)
             /\ evaluator.manifest = publicDir.manifest
             /\ evaluator.split = "holdout" => VerifiedCases(evaluator.cases, "holdout")
        ELSE FitsManifest(evaluator.cases, evaluator.split, evaluator.manifest)

\* The inductive invariant.
FreezeInv == FreezeTypeOK /\ StagesKept /\ PrivateIntact /\ NoncesKept /\ StoredFirst /\ EvaluationSound
=============================================================================
