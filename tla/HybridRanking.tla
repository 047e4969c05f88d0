---------------------------- MODULE HybridRanking ----------------------------
(***************************************************************************)
(* What a hybrid search finds, how it scores it and which results it keeps *)
(* (internal/retrieval: service.go, vector_retriever.go, query.go).  Pure: *)
(* a search is a query and the chunks of the run, each with the similarity *)
(* that the vector store reports for it, if it reports it.                 *)
(*                                                                         *)
(* Scores are in millionths (One is 1.0), rounded down where the code has  *)
(* float64.  A query is a sequence of distinct terms, each with its kind   *)
(* and its inverse document frequency, 0 for a term that is not indexed.   *)
(***************************************************************************)
EXTENDS Integers, Sequences, SequencesExt, FiniteSetsExt

One == 1000000
MissingTermWeight == 8
MaxChunksPerNote == 2
MaxCandidateTerms == 12
MinimumHybridScore == 600000

Clamp(x) == IF x < 0 THEN 0 ELSE IF x > One THEN One ELSE x

\* The members of S by the strict total order `before`, a set of pairs: the i-th has
\* i - 1 before it.
InOrder(S, before) ==
    [i \in 1..Cardinality(S) |-> CHOOSE x \in S : Cardinality({y \in S : <<y, x>> \in before}) = i - 1]

-----------------------------------------------------------------------------
(* Terms and lexical matching.  Terms of a query are their positions in it. *)

Indexed(query) == {i \in DOMAIN query : query[i].idf > 0}

OfKind(query, kind) == {i \in Indexed(query) : query[i].kind = kind}

\* sort.SliceStable by inverse document frequency; the position breaks ties.
ByFrequency(query, positions) ==
    InOrder(positions, {p \in positions \X positions :
                          \/ query[p[1]].idf > query[p[2]].idf
                          \/ query[p[1]].idf = query[p[2]].idf /\ p[1] < p[2]})

\* appendWeighted: the first `maximum` terms that are not there yet, up to the limit.
AppendWeighted(query, result, positions, maximum) ==
    LET new == ByFrequency(query, positions \ ToSet(result))
        room == MaxCandidateTerms - Len(result)
    IN  result \o SubSeq(new, 1, Min({Len(new), maximum, room}))

\* selectCandidateTerms: subjects, then numbers, then what is rarest.
SelectCandidateTerms(query) ==
    LET subjects == AppendWeighted(query, <<>>, OfKind(query, "subject"), 4)
        numbers == AppendWeighted(query, subjects, OfKind(query, "numeric"), 4)
        chosen == AppendWeighted(query, numbers, Indexed(query), MaxCandidateTerms)
    IN  [k \in DOMAIN chosen |-> query[chosen[k]]]

\* Positions of the terms that a chunk holds.
Held(chunk, terms) == {i \in DOMAIN terms : terms[i].name \in chunk.lexemes}

\* BuildTSQuery: every term of a query of one or two, else any two of the first six.
Matches(chunk, terms) ==
    LET used == Min({Len(terms), 6})
    IN  used > 0 /\ Cardinality(Held(chunk, terms) \cap 1..used) >= Min({2, used})

-----------------------------------------------------------------------------
(* Retrieval.  External: ts_rank_cd and the similarities.  The lists are   *)
(* shorter than DefaultCandidateLimit.                                     *)

\* Any score that grows with the matched terms will do.
FTSScore(chunk, terms) == 100000 * Cardinality(Held(chunk, terms))

\* SearchLexicalCandidates: chunks that match, and chunks of the preferred type of a
\* hinted note (at the preferred position, if the query names one).
Finds(chunk, search, terms) ==
    \/ Matches(chunk, terms)
    \/ chunk.note \in search.hinted /\ chunk.preferred /\ (search.positioned => chunk.position)

\* ... by full-text score, trigram similarity and id.
LexicalOrder(chunks, terms) ==
    {p \in chunks \X chunks :
       LET fts == FTSScore(p[1], terms) - FTSScore(p[2], terms)
           trigram == p[1].trigram - p[2].trigram
       IN  fts > 0 \/ (fts = 0 /\ (trigram > 0 \/ (trigram = 0 /\ p[1].id < p[2].id)))}

LexicalCandidates(search, terms) ==
    LET found == {c \in search.chunks : Finds(c, search, terms)}
    IN  InOrder(found, LexicalOrder(found, terms))

\* vectorFilter: the vector store only sees the hinted notes and the preferred position,
\* if the query names them.
PassesFilter(chunk, search) ==
    /\ search.hinted # {} => chunk.note \in search.hinted
    /\ search.positioned => chunk.position

\* What Query returns: the nearest points within the limit, of any similarity.
Hits(search) == {c \in search.chunks : c.hit /\ PassesFilter(c, search)}

\* The hits by similarity; LoadAuthorizedCandidates keeps their order.
VectorOrder(chunks) ==
    {p \in chunks \X chunks : \/ p[1].vector > p[2].vector
                              \/ p[1].vector = p[2].vector /\ p[1].id < p[2].id}

VectorCandidates(search) == InOrder(Hits(search), VectorOrder(Hits(search)))

\* Reciprocal rank, counted from 0.
RRF(rank) == One \div (61 + rank)

\* appendRanked: the contribution of a list to a chunk's score.
RankIn(list, chunk) ==
    IF chunk \in ToSet(list)
    THEN RRF((CHOOSE i \in DOMAIN list : list[i] = chunk) - 1) ELSE 0

\* The similarity of a merged candidate: one that the lexical list holds too takes over
\* a positive one only.
Similarity(lexical, vector, chunk) ==
    IF chunk \in ToSet(vector) /\ (chunk.vector > 0 \/ chunk \notin ToSet(lexical))
    THEN chunk.vector ELSE 0

\* hybridRetriever.Retrieve: a candidate per chunk that either list holds.
Merge(lexical, vector, terms) ==
    {[chunk |-> c,
      fts |-> IF c \in ToSet(lexical) THEN FTSScore(c, terms) ELSE 0,
      trigram |-> IF c \in ToSet(lexical) THEN c.trigram ELSE 0,
      vector |-> Similarity(lexical, vector, c),
      rrf |-> RankIn(lexical, c) + RankIn(vector, c)] : c \in ToSet(lexical) \cup ToSet(vector)}

-----------------------------------------------------------------------------
(* Ranking.                                                                *)

Weight(query, positions) ==
    LET sum[k \in 0..Len(query)] ==
            IF k = 0 THEN 0 ELSE sum[k - 1] + (IF k \in positions THEN query[k].idf ELSE 0)
    IN  sum[Len(query)]

\* The weight of all query terms; one that is not indexed counts as very rare.
TotalWeight(query) ==
    LET missing == {i \in DOMAIN query : query[i].idf = 0}
    IN  Max({1, Weight(query, Indexed(query)) + MissingTermWeight * Cardinality(missing)})

\* rankCandidates: coverage, full-text score, trigrams and the hints of the query.
LexicalConfidence(candidate, search) ==
    LET matched == Weight(search.query, Held(candidate.chunk, search.query))
        coverage == (matched * One) \div TotalWeight(search.query)
        fts == ((candidate.fts \div 1000) * One) \div (candidate.fts \div 1000 + 250)
        hints == (IF candidate.chunk.note \in search.hinted THEN 340000 ELSE 0)
                 + (IF candidate.chunk.preferred THEN 140000 ELSE 0)
                 + (IF search.positioned /\ candidate.chunk.position THEN 80000 ELSE 0)
    IN  Clamp((coverage * 78 + fts * 14 + Clamp(candidate.trigram) * 8) \div 100 + hints)

\* Seeded defect: the reciprocal ranks are scaled as if there were one list only.
ConfidenceOneList(candidate, search) ==
    (Clamp(candidate.rrf * 61) * 45 + Clamp(candidate.vector) * 35
        + LexicalConfidence(candidate, search) * 20) \div 100

\* rankHybridCandidates: at most 0.45 from the ranks, 0.35 from the similarity and 0.20
\* from the terms.
Confidence(candidate, search) ==
    (Clamp((candidate.rrf * 61) \div 2) * 45 + Clamp(candidate.vector) * 35
        + LexicalConfidence(candidate, search) * 20) \div 100

\* ... by confidence and id.
ResultOrder(results) ==
    {p \in results \X results : \/ p[1].confidence > p[2].confidence
                                \/ p[1].confidence = p[2].confidence /\ p[1].chunk.id < p[2].chunk.id}

Rank(candidates, search) ==
    LET scored == {[chunk |-> c.chunk, confidence |-> Confidence(c, search)] : c \in candidates}
    IN  InOrder(scored, ResultOrder(scored))

\* The bar of a result: the minimum of the mode, and 0.72 of the best.
Threshold(ranked) == Max({MinimumHybridScore, (ranked[1].confidence * 72) \div 100})

\* One chunk per document, two per note, `limit` in all: whether the k-th result joins
\* those at the ranks `kept`.
Takes(ranked, limit, kept, k) ==
    /\ Cardinality(kept) < limit
    /\ ranked[k].confidence >= Threshold(ranked)
    /\ \A i \in kept : ranked[i].chunk.doc # ranked[k].chunk.doc
    /\ Cardinality({i \in kept : ranked[i].chunk.note = ranked[k].chunk.note}) < MaxChunksPerNote

\* selectDiverse: the ranks of the results that are kept of the first k.
SelectDiverse(ranked, limit) ==
    LET kept[k \in 0..Len(ranked)] ==
            IF k = 0 THEN {}
            ELSE kept[k - 1] \cup {j \in {k} : Takes(ranked, limit, kept[k - 1], j)}
    IN  kept[Len(ranked)]

\* What Service.Search ranks in hybrid mode.
Ranked(search) ==
    LET terms == SelectCandidateTerms(search.query)
    IN  Rank(Merge(LexicalCandidates(search, terms), VectorCandidates(search), terms), search)

\* The ranks of its answer: none if the best is below the bar.
Answer(search) ==
    LET ranked == Ranked(search)
    IN  IF ranked = <<>> THEN {}
        ELSE IF ranked[1].confidence < MinimumHybridScore THEN {}
        ELSE SelectDiverse(ranked, search.limit)

\* What a search is: chunks with ids of their own, and at least one result asked for.
IsQuery(query) ==
    Len(query) \in Nat /\ DOMAIN query = 1..Len(query) /\ \A i \in DOMAIN query : query[i].idf \in Nat

IsSearch(search) ==
    /\ IsQuery(search.query)
    /\ IsFiniteSet(search.chunks)
    /\ \A c \in search.chunks :
          c.id \in Int /\ c.hit \in BOOLEAN /\ c.vector \in Int /\ c.trigram \in Int
    /\ \A c, d \in search.chunks : c.id = d.id => c = d
    /\ search.limit \in Nat \ {0}

-----------------------------------------------------------------------------
\* No hybrid answer rests on words alone: every result was found by the vector store,
\* so it is of a note and at a position that the query names, if it names any; and one
\* that shares no term with the query and is of no hinted note has a similarity of at
\* least 0.94.  And nothing good is lost: if both retrievers put the same chunk first,
\* with a similarity of 0.43 or more, there is an answer; and a chunk above the bar is
\* left out only for better ranked results, of its document, two of its note, or as many
\* as were asked for (hybridRetriever.Retrieve, rankHybridCandidates, selectDiverse).
AnswerSoundFor(search) ==
    LET lexical == LexicalCandidates(search, SelectCandidateTerms(search.query))
        vector == VectorCandidates(search)
        ranked == Ranked(search)
        answer == Answer(search)
        Better(k) == {j \in answer : j < k}
    IN  /\ \A k \in answer :
              LET chunk == ranked[k].chunk
              IN  /\ chunk.hit /\ PassesFilter(chunk, search)
                  /\ \/ Held(chunk, search.query) # {} \/ chunk.note \in search.hinted
                     \/ chunk.vector >= 940000
        /\ lexical # <<>> /\ vector # <<>> =>
              (lexical[1] = vector[1] /\ vector[1].vector >= 430000 => answer # {})
        /\ answer # {} => \A k \in DOMAIN ranked \ answer :
              \/ ranked[k].confidence < Threshold(ranked)
              \/ Cardinality(Better(k)) = search.limit
              \/ \E j \in Better(k) : ranked[j].chunk.doc = ranked[k].chunk.doc
              \/ Cardinality({j \in Better(k) : ranked[j].chunk.note = ranked[k].chunk.note})
                    = MaxChunksPerNote
=============================================================================
