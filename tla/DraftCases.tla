----------------------------- MODULE DraftCases -----------------------------
(***************************************************************************)
(* Filling the candidate pool of a drafted case (internal/evalreview/      *)
(* draft.go, buildDraftCase).  Sources are their positions in the sorted   *)
(* corpus.  The loops that fill a pool walk the corpus in a ring with a    *)
(* fixed stride until enough different sources are found: they end only if *)
(* the walk meets enough of them.                                          *)
(***************************************************************************)
EXTENDS Naturals, FiniteSets

MinimumNotes == 512
TargetCasesPerTask == 32
PoolSize == 6
ProjectPoolSize == 5

\* Positions that the walk from `start` meets, endlessly.
Walk(n, start, stride) == {(start + offset * stride) % n : offset \in 1..n}

\* pickNote, for a case whose stable index is `start`.
PickNote(n, start, ordinal) == (start + ordinal * 149) % n

\* The pool of a case whose sources of its own are `added` (its target, their media, peers
\* and project sources): the loop adds what the walk meets until there are PoolSize, which
\* it reaches if there are as many here.
Pool(n, start, added) == added \cup Walk(n, start, 193)

\* Seeded defect: a stride with many divisors.
PublicPoolComposite(n, start, ordinal) == {PickNote(n, start, ordinal)} \cup Walk(n, start, 192)

\* The smallest pool of public notes: the target has no media and no peers.
PublicPool(n, start, ordinal) == Pool(n, start, {PickNote(n, start, ordinal)})

\* The pool of an authorization case.
ProjectPool(n, ordinal) == {ordinal % n} \cup Walk(n, ordinal, 7)

\* indexDraftCorpus refuses smaller corpora.
CorpusAccepted(n) == n >= MinimumNotes

\* Every corpus that indexDraftCorpus accepts fills every pool, and the loops end, unless
\* its number of notes is 193 times 3, 4 or 5; a corpus of 32 project sources or more
\* always fills the pool of an authorization case (buildDraftCase).
PoolFillsFor(n, ordinal) ==
    /\ CorpusAccepted(n) /\ n \notin {193 * 3, 193 * 4, 193 * 5}
            => Cardinality(PublicPool(n, 0, ordinal)) >= PoolSize
    /\ n >= TargetCasesPerTask => Cardinality(ProjectPool(n, ordinal)) >= ProjectPoolSize
=============================================================================
