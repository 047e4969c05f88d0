-------------------------- MODULE MCRetrievalReview --------------------------
(***************************************************************************)
(* A small instance for TLC of retrieval and of the benchmark it is judged *)
(* by.  An initial choice decides what runs, for the parts share no state: *)
(* RetrievalSearch, with two index builders and no search ("build") or a   *)
(* search beside one builder ("search"); the workspace commands            *)
(* (BenchmarkReview), the servers of one reviewer (ReviewServer), freezes  *)
(* and evaluations of benchmarks (BenchmarkFreeze), the behaviour          *)
(* simulator (SimulationRun); or nothing runs, and `input` is an argument  *)
(* for a pure part (HybridRanking, DraftCases).                            *)
(***************************************************************************)
EXTENDS RetrievalSearch, HybridRanking, DraftCases, TLC

CONSTANTS b2, c1, c2, Case, Expected, Label, p1, p2, p3, Person, MaxUpsets, Server, MaxPuts,
          MaxFailures, Sessions, MaxSteps, BatchSize, Project, MaxAttempts,
          Freezer, BenchmarkId, Authored, CaseCount, DevelopmentCases

VARIABLES
    part, input,
    plan, authored, report, sources, assignment, final, decisions, ledger, summary,
    approved, published, op, upsets, hurt, revised, raced, reaudited,
    progress, submitted, server, puts, failures, acked, shared, doubled,
    sim, dir, stored, attempts,
    freezer, aside, privateDir, publicDir, benchmarks, evaluator, handled

workspaceVars == <<plan, authored, report, sources, assignment, final, decisions, ledger,
                   summary, approved, published, op, upsets, hurt, revised, raced, reaudited>>
serverVars == <<progress, submitted, server, puts, failures, acked, shared, doubled>>
simVars == <<sim, dir, stored, attempts>>
freezeVars == <<freezer, aside, privateDir, publicDir, benchmarks, evaluator, handled>>
mcVars == <<part, input, vars, workspaceVars, serverVars, simVars, freezeVars>>

Workspace == INSTANCE BenchmarkReview WITH public <- published
Reviewer == INSTANCE ReviewServer
Simulation == INSTANCE SimulationRun WITH row <- stored
Frozen == INSTANCE BenchmarkFreeze WITH moves <- handled

\* No label and no set of labels is taken for an absent one.
ASSUME ReviewConstants ==
    /\ None \notin Reviewer!Given /\ None \notin Reviewer!Labels
    /\ MaxPuts \in Nat /\ MaxFailures \in Nat

\* Config.Validate (internal/simulator/models.go:199); project ids are a BIGSERIAL column.
ASSUME SimulationConstants ==
    /\ Sessions \in Nat \ {0} /\ MaxSteps \in Nat \ {0, 1} /\ 0 \notin Project
    /\ None \notin Simulation!Output

\* No file of the workspace is taken for an absent one.
ASSUME WorkspaceConstants ==
    None \notin Nat \cup Workspace!Cases \cup Workspace!Handout \cup Workspace!Reviews
             \cup Workspace!Evidence \cup Workspace!SealedSummary

\* Authored files are sequences; an absent split is no split.
ASSUME FreezeConstants ==
    /\ CaseCount \in Nat /\ DevelopmentCases \in 0..CaseCount /\ None \notin {"development", "holdout"}
    /\ \A file \in Authored : DOMAIN file = 1..Len(file)

MCExpected == (c1 :> "answerable") @@ (c2 :> "no_relevant_document")

MCLabel == {[answer |-> "answerable", grade |-> 3], [answer |-> "no_relevant_document", grade |-> 0]}

\* Bound: sizes of the corpora, below and above 193 times 5, and ordinals.
MCCorpora == ((32..70) \cup (560..600) \cup (760..780) \cup (950..970)) \X (0..3)

Term(name, kind, idf) == [name |-> name, kind |-> kind, idf |-> idf]

\* Two terms and one that is not indexed; and eight terms, of which the subject `a` is
\* the most frequent and comes too late to be searched for.
MCQueries ==
    {<<Term("a", "subject", 2), Term("b", "numeric", 6), Term("x", "plain", 0)>>,
     <<Term("a", "subject", 1), Term("s", "subject", 5), Term("t", "subject", 5),
       Term("u", "subject", 4), Term("v", "subject", 3), Term("b", "numeric", 6),
       Term("p", "plain", 9), Term("q", "plain", 2)>>}

\* Bound: four chunks of three documents of one note.  The vector store reports a chunk
\* with a similarity, or not at all.
Found(similarity) == [hit |-> TRUE, vector |-> similarity]

NotFound == [hit |-> FALSE, vector |-> 0]

Chunk(id, lexemes, point) ==
    [id |-> id, lexemes |-> lexemes, hit |-> point.hit, vector |-> point.vector,
     doc |-> <<1, 1, 2, 3>>[id], note |-> 1,
     preferred |-> id # 3, position |-> id = 1, trigram |-> IF id = 4 THEN One ELSE 0]

MCPoints ==
    <<{NotFound, Found(-200000), Found(950000)}, {NotFound, Found(950000)},
      {Found(500000), Found(950000)}, {NotFound, Found(950000)}>>

MCChunks(id) ==
    {Chunk(id, lexemes, point) : lexemes \in {{}, {"a"}, {"a", "b"}}, point \in MCPoints[id]}

\* The query names no note, the note, the note and a position, or a note without chunks.
MCScopes ==
    {[hinted |-> {}, positioned |-> FALSE], [hinted |-> {1}, positioned |-> FALSE],
     [hinted |-> {1}, positioned |-> TRUE], [hinted |-> {2}, positioned |-> FALSE]}

MCSearches ==
    {[chunks |-> {a, b, c, d}, query |-> query, limit |-> limit,
      hinted |-> scope.hinted, positioned |-> scope.positioned] :
        a \in MCChunks(1), b \in MCChunks(2), c \in MCChunks(3), d \in MCChunks(4),
        query \in MCQueries, limit \in {1, 3}, scope \in MCScopes}

Authoring(split, query, task, gold, answerable) ==
    [split |-> split, query |-> query, task |-> task, gold |-> gold, answerable |-> answerable,
     dual |-> FALSE, nonce |-> None]

NoteSource == <<[type |-> "note", note |-> 1]>>

\* The author gave one nonce; the others are drawn.
MCFile ==
    <<Authoring("development", "q1", "fact", NoteSource, "none"),
      [Authoring("holdout", "q2", "no_relevant_document", <<>>, "false") EXCEPT !.nonce = "n"],
      Authoring("holdout", "q3", "insufficient_evidence", NoteSource, "false")>>

\* This file, another version of it, and two that are refused.
MCAuthored ==
    {MCFile, [MCFile EXCEPT ![1].query = "q4"], [MCFile EXCEPT ![2].query = "q1"], [MCFile EXCEPT ![1].task = "ocr_detail"]}

\* The search part at rest, in the runs of another part.
IdleSearch == Init /\ member /\ public /\ row = "none"

MCInit ==
    /\ Workspace!Init /\ Reviewer!Init /\ Simulation!SimInit /\ Frozen!FreezeInit
    /\ \/ part \in {"build", "search"} /\ input = None /\ Init
       \/ part \in {"workspace", "server", "simulation", "freeze"} /\ input = None /\ IdleSearch
       \/ part = "draft" /\ input \in MCCorpora /\ IdleSearch
       \/ part = "ranking" /\ input \in MCSearches /\ IdleSearch
    /\ part # "simulation" => stored = "none"

\* People are interchangeable: the first author is p1 and the first reviewers p2 and p3.
FirstNamed ==
    decisions = [c \in Case |-> None] /\ (\A s \in DOMAIN assignment : assignment[s] = None) =>
        /\ authored = None /\ authored' # None => authored'.author = p1
        /\ op.pc = "idle" /\ op'.pc = "prepare" =>
              op'.who["reviewer_a"] = p2 /\ op'.who["reviewer_b"] = p3

MCNext ==
    \/ part = "build" /\ Next /\ request' = request
                       /\ UNCHANGED <<part, input, workspaceVars, serverVars, simVars, freezeVars>>
    \/ part = "search" /\ Next /\ builder'[b2] = builder[b2]
                        /\ UNCHANGED <<part, input, workspaceVars, serverVars, simVars, freezeVars>>
    \/ part = "workspace" /\ Workspace!Next /\ FirstNamed
                          /\ UNCHANGED <<part, input, vars, serverVars, simVars, freezeVars>>
    \/ part = "server" /\ Reviewer!Next
                       /\ UNCHANGED <<part, input, vars, workspaceVars, simVars, freezeVars>>
    \/ part = "simulation" /\ Simulation!SimNext
                           /\ UNCHANGED <<part, input, vars, workspaceVars, serverVars, freezeVars>>
    \/ part = "freeze" /\ Frozen!FreezeNext
                       /\ UNCHANGED <<part, input, vars, workspaceVars, serverVars, simVars>>

MCSpec == MCInit /\ [][MCNext]_mcVars

\* BenchmarkReview: what is approved was reviewed by two and decided by a third person.
ApprovedEarned == Workspace!ApprovedEarned

\* BenchmarkReview: the files of the workspace fit together.
WorkspaceConsistent == Workspace!WorkspaceConsistent

\* ReviewServer: acknowledged labels survive failed writes, restarts and finalization.
LabelsSurvive == Reviewer!LabelsSurvive

\* ReviewServer: a submitted review never changes.
SubmittedImmutable == Reviewer!SubmittedImmutable

\* SimulationRun: a final report stands for whole output.
SimulationHonest == Simulation!SimulationHonest

\* BenchmarkFreeze: saved evaluations can be traced to a stored benchmark and its cases.
BenchmarkTraceable == Frozen!BenchmarkTraceable

\* HybridRanking: hybrid answers rest on the vector store and lose nothing good.
AnswerSound == part = "ranking" => AnswerSoundFor(input)

\* DraftCases: the loops that fill a candidate pool end, but for three corpus sizes.
DraftPoolFills == part = "draft" => PoolFillsFor(input[1], input[2])
=============================================================================
