------------------------ MODULE RetrievalReviewProofs ------------------------
(***************************************************************************)
(* Proofs about retrieval (RetrievalSearch), the review and the freezing   *)
(* of the benchmark it is judged by (ReviewServer, BenchmarkReview,        *)
(* BenchmarkFreeze), the behaviour simulator (SimulationRun), and two      *)
(* calculations: the quotas of a benchmark draft (DraftCases) and the      *)
(* ranking of a hybrid search (HybridRanking).                             *)
(***************************************************************************)
EXTENDS MCRetrievalReview, SequenceTheorems, FiniteSetTheorems, WellFoundedInduction, TLAPS

-----------------------------------------------------------------------------
(* RetrievalSearch: what the searches read moves *)

LEMMA MoveKeeps ==
    ASSUME SearchInv, NEW m \in BOOLEAN, NEW p \in BOOLEAN, NEW l \in SUBSET Doc,
           NEW g \in SUBSET Doc, Move(m, p, l, g)
    PROVE  SearchInv'
<1>. USE DEF SearchInv
<1>1. /\ member' = m /\ public' = p /\ live' = l /\ gone' = g
      /\ moves < MaxMoves /\ moves' = moves + 1
      /\ turned' = (turned \/ p # public)
      /\ UNCHANGED <<payload, row, stats, builder, lock, built, request>>
      /\ during' = [q \in Request |-> IF request[q].pc = "idle" THEN during[q] ELSE
                      [docs |-> during[q].docs \cup Readable(m, p, l, g),
                       scopes |-> during[q].scopes \cup {AccessOf(m, p)}]]
  BY DEF Move, indexVars
<1>2. Readable(m, p, l, g) \in SUBSET Doc /\ AccessOf(m, p) \in Scope \cup {"none"}
  BY DEF Readable, AccessOf, Scope
<1>3. during' \in [Request -> [docs : SUBSET Doc, scopes : SUBSET (Scope \cup {"none"})]]
  BY <1>1, <1>2 DEF TypeOK
<1>4. TypeOK'
  BY <1>1, <1>3, SearchConstants DEF TypeOK
<1>5. ASSUME NEW q \in Request
      PROVE  /\ during[q].docs \subseteq during'[q].docs
             /\ during[q].scopes \subseteq during'[q].scopes
             /\ request[q].pc # "idle" => /\ Readable(m, p, l, g) \subseteq during'[q].docs
                                          /\ AccessOf(m, p) \in during'[q].scopes
  BY <1>1
<1>6. GatheredWasReadable'
  BY <1>1, <1>5 DEF GatheredWasReadable
<1>7. ServedWasReadable'
  BY <1>1, <1>5 DEF ServedWasReadable
<1>8. StatsComplete'
  BY <1>1 DEF StatsComplete, TypeOK
<1>. QED BY <1>4, <1>6, <1>7, <1>8

WorldStep ==
    \/ ChangeMembership \/ ChangeVisibility
    \/ \E d \in Doc : RetireDocument(d) \/ DeleteSource(d) \/ RestoreSource(d)

LEMMA WorldKeeps ==
    ASSUME SearchInv, WorldStep
    PROVE  SearchInv'
<1>0. /\ member \in BOOLEAN /\ public \in BOOLEAN /\ live \in SUBSET Doc /\ gone \in SUBSET Doc
      /\ (~member) \in BOOLEAN /\ (~public) \in BOOLEAN
  BY DEF SearchInv, TypeOK
<1>1. CASE ChangeMembership
  BY <1>0, <1>1, MoveKeeps DEF ChangeMembership
<1>2. CASE ChangeVisibility
  BY <1>0, <1>2, MoveKeeps DEF ChangeVisibility
<1>3. ASSUME NEW d \in Doc, RetireDocument(d) \/ DeleteSource(d) \/ RestoreSource(d)
      PROVE  SearchInv'
  <2>1. live \ {d} \in SUBSET Doc /\ gone \ {d} \in SUBSET Doc /\ gone \cup {d} \in SUBSET Doc
    BY <1>0
  <2>. QED BY <1>0, <1>3, <2>1, MoveKeeps DEF RetireDocument, DeleteSource, RestoreSource
<1>. QED BY <1>1, <1>2, <1>3 DEF WorldStep

-----------------------------------------------------------------------------
(* RetrievalSearch: BuildLexicalIndex *)

LEMMA VisibilityStatsFacts ==
    ASSUME TypeOK, StatsComplete
    PROVE  /\ VisibilityStats \in [Scope -> (SUBSET Doc) \cup {None}]
           /\ VisibilityStats["member"] = Doc /\ VisibilityStats["public"] # None
           /\ ~turned => VisibilityStats["public"] = IF public THEN PublicDoc ELSE {}
BY SearchConstants DEF VisibilityStats, TypeOK, StatsComplete, Scope

BuildStep(b) ==
    \/ LockBuild(b) \/ LoadIndex(b) \/ StartBuild(b) \/ CompleteBuild(b)
    \/ FailBuild(b) \/ CrashBuild(b) \/ MarkIndexFailed(b)

LEMMA BuildKeeps ==
    ASSUME SearchInv, NEW b \in Builder, BuildStep(b)
    PROVE  SearchInv'
<1>. USE DEF SearchInv
<1>1. /\ UNCHANGED <<member, public, live, gone, moves, turned, payload, request, during>>
      /\ builder' \in [Builder -> {"idle", "waiting", "loaded", "building", "failing"}]
      /\ lock' \in Builder \cup {None} /\ built' \in BOOLEAN
  BY DEF BuildStep, LockBuild, LoadIndex, StartBuild, CompleteBuild, FailBuild, CrashBuild,
         MarkIndexFailed, worldVars, TypeOK
<1>2. \/ stats' = stats /\ row' \in {"none", "failed", "completed"} /\ built' = built
         /\ (row = "completed" => row' = "completed")
      \/ stats' = VisibilityStats /\ row' = "completed"
  BY DEF BuildStep, LockBuild, LoadIndex, StartBuild, CompleteBuild, FailBuild, CrashBuild,
         MarkIndexFailed, TypeOK
<1>3. TypeOK'
  BY <1>1, <1>2, VisibilityStatsFacts DEF TypeOK
<1>4. GatheredWasReadable' /\ ServedWasReadable'
  BY <1>1 DEF GatheredWasReadable, ServedWasReadable
<1>5. StatsComplete'
  BY <1>1, <1>2, VisibilityStatsFacts, SearchConstants DEF StatsComplete
<1>. QED BY <1>3, <1>4, <1>5

-----------------------------------------------------------------------------
(* RetrievalSearch: the steps of a search *)

\* What a search may be after a step, given what it saw during it.
Sound(r, d) ==
    /\ \A c \in {r.lexical, r.vector} : c # None => c \subseteq d.docs
    /\ r.access # None => r.access \in d.scopes
    /\ r.pc \in {"retrieve", "stats"} => r.access # None
    /\ r.result \subseteq d.docs
    /\ r.ranked # None => r.ranked \in d.scopes

LEMMA SoundSearches ==
    ASSUME SearchInv, NEW q \in Request
    PROVE  request[q] \in RequestType /\ Sound(request[q], during[q])
BY DEF SearchInv, TypeOK, GatheredWasReadable, ServedWasReadable, Sound

LEMMA SearchKeeps ==
    ASSUME SearchInv, NEW q \in Request, NEW new \in RequestType, Advance(q, new),
           new.pc # "idle", Sound(new, during'[q]),
           \/ UNCHANGED during /\ request[q].pc # "idle"
           \/ during' = [during EXCEPT ![q] = [docs |-> Readable(member, public, live, gone),
                                              scopes |-> {AccessOf(member, public)}]]
    PROVE  SearchInv'
<1>. USE DEF SearchInv
<1>1. /\ request' = [request EXCEPT ![q] = new]
      /\ UNCHANGED <<member, public, live, gone, moves, turned, payload, row, stats, builder, lock, built>>
  BY DEF Advance, worldVars, indexVars
<1>2. Readable(member, public, live, gone) \in SUBSET Doc /\ AccessOf(member, public) \in Scope \cup {"none"}
  BY DEF Readable, AccessOf, Scope, TypeOK
<1>3. /\ during' \in [Request -> [docs : SUBSET Doc, scopes : SUBSET (Scope \cup {"none"})]]
      /\ \A o \in Request \ {q} : during'[o] = during[o]
      /\ Readable(member, public, live, gone) \subseteq during'[q].docs
      /\ AccessOf(member, public) \in during'[q].scopes
  BY <1>2 DEF TypeOK, GatheredWasReadable
<1>4. TypeOK'
  BY <1>1, <1>3 DEF TypeOK
<1>5. \A o \in Request : request'[o] = IF o = q THEN new ELSE request[o]
  BY <1>1 DEF TypeOK
<1>6. GatheredWasReadable'
  BY <1>1, <1>3, <1>5 DEF GatheredWasReadable, Sound
<1>7. ServedWasReadable'
  BY <1>1, <1>3, <1>5 DEF ServedWasReadable, Sound
<1>8. StatsComplete'
  BY <1>1 DEF StatsComplete
<1>. QED BY <1>4, <1>6, <1>7, <1>8

LEMMA IdleFields ==
    /\ Idle \in RequestType
    /\ Idle.pc = "idle" /\ Idle.mode = None /\ Idle.access = None /\ Idle.ranked = None
    /\ Idle.lexical = None /\ Idle.vector = None /\ Idle.result = {}
BY DEF Idle, RequestType

LEMMA AnsweredSound ==
    ASSUME NEW r \in RequestType, NEW d, Sound(r, d), NEW result \in SUBSET Doc,
           result \subseteq d.docs
    PROVE  /\ Answered(r, result) \in RequestType /\ Answered(r, result).pc = "done"
           /\ Sound(Answered(r, result), d)
<1>. DEFINE x == Idle
<1>1. Answered(r, result) = [x EXCEPT !.pc = "done", !.ranked = r.ranked, !.result = result]
  BY DEF Answered
<1>2. x \in RequestType /\ x.access = None /\ x.lexical = None /\ x.vector = None
  BY IdleFields
<1>. HIDE DEF x
<1>3. /\ Answered(r, result) \in RequestType
      /\ Answered(r, result).pc = "done" /\ Answered(r, result).access = None
      /\ Answered(r, result).lexical = None /\ Answered(r, result).vector = None
      /\ Answered(r, result).ranked = r.ranked /\ Answered(r, result).result = result
  BY <1>1, <1>2 DEF RequestType
<1>. QED BY <1>3 DEF Sound

LEMMA ResolveKeeps ==
    ASSUME SearchInv, NEW q \in Request
    PROVE  /\ \A mode \in Mode : ResolveScope(q, mode) => SearchInv'
           /\ ResolveAccess(q) => SearchInv'
           /\ GetTermStats(q) => SearchInv'
<1>. DEFINE r == request[q]
<1>0. r \in RequestType /\ Sound(r, during[q]) /\ {} \in SUBSET Doc /\ {} \subseteq during[q].docs
  BY SoundSearches
<1>1. ASSUME NEW mode \in Mode, ResolveScope(q, mode) PROVE SearchInv'
  <2>. DEFINE n == IF mode # "vector" /\ row # "completed" THEN None ELSE mode
              new == [Idle EXCEPT !.pc = "access", !.mode = n]
  <2>1. /\ Advance(q, new)
        /\ during' = [during EXCEPT ![q] = [docs |-> Readable(member, public, live, gone),
                                           scopes |-> {AccessOf(member, public)}]]
    BY <1>1 DEF ResolveScope
  <2>2. n \in Mode \cup {None}
    OBVIOUS
  <2>. HIDE DEF n
  <2>3. new \in RequestType /\ new.pc # "idle" /\ Sound(new, during'[q])
    <3>. DEFINE x == Idle
    <3>1. /\ x \in RequestType /\ x.access = None /\ x.lexical = None /\ x.vector = None
          /\ x.ranked = None /\ x.result = {}
      BY IdleFields
    <3>2. new = [x EXCEPT !.pc = "access", !.mode = n]
      OBVIOUS
    <3>. HIDE DEF x, new
    <3>. QED BY <2>2, <3>1, <3>2 DEF RequestType, Sound
  <2>. HIDE DEF new
  <2>. QED BY <2>1, <2>3, SearchKeeps
<1>2. ASSUME ResolveAccess(q) PROVE SearchInv'
  <2>. DEFINE a == AccessOf(member, public)
  <2>1. /\ r.pc = "access" /\ UNCHANGED during
        /\ Advance(q, IF a = "none" \/ r.mode = None THEN Answered(r, {})
                      ELSE [r EXCEPT !.access = a, !.pc = "stats"])
    BY <1>2 DEF ResolveAccess
  <2>2. CASE a = "none" \/ r.mode = None
    BY <1>0, <2>1, <2>2, AnsweredSound, SearchKeeps
  <2>3. CASE ~(a = "none" \/ r.mode = None)
    <3>. DEFINE new == [r EXCEPT !.access = a, !.pc = "stats"]
    <3>1. a \in Scope /\ a \in during[q].scopes
      BY <2>1, <2>3 DEF AccessOf, Scope, SearchInv, GatheredWasReadable
    <3>2. a # None => new \in RequestType /\ new.pc # "idle" /\ Sound(new, during[q])
      BY <1>0, <3>1 DEF RequestType, Sound
    <3>3. a # None
      BY <3>1, SearchConstants DEF Scope
    <3>4. Advance(q, new)
      BY <2>1, <2>3
    <3>. HIDE DEF new
    <3>. QED BY <2>1, <3>2, <3>3, <3>4, SearchKeeps
  <2>. QED BY <2>2, <2>3
<1>3. ASSUME GetTermStats(q) PROVE SearchInv'
  <2>. DEFINE found == r.mode # "vector" /\ stats[r.access] \notin {None, {}}
              new == [r EXCEPT !.pc = "retrieve", !.ranked = IF found THEN r.access ELSE None]
  <2>1. /\ r.pc = "stats" /\ UNCHANGED during
        /\ Advance(q, IF r.mode = "lexical" /\ ~found THEN Answered(r, {}) ELSE new)
    BY <1>3 DEF GetTermStats
  <2>2. CASE r.mode = "lexical" /\ ~found
    <3>1. Advance(q, Answered(r, {}))
      BY <2>1, <2>2
    <3>. QED BY <1>0, <2>1, <3>1, AnsweredSound, SearchKeeps
  <2>3. CASE ~(r.mode = "lexical" /\ ~found)
    <3>1. Advance(q, new)
      BY <2>1, <2>3
    <3>2. new \in RequestType /\ new.pc # "idle" /\ Sound(new, during[q])
      <4>. HIDE DEF found
      <4>. QED BY <1>0, <2>1 DEF RequestType, Sound
    <3>. HIDE DEF new
    <3>. QED BY <2>1, <3>1, <3>2, SearchKeeps
  <2>. QED BY <2>2, <2>3
<1>. QED BY <1>1, <1>2, <1>3

LEMMA RetrieveKeeps ==
    ASSUME SearchInv, NEW q \in Request
    PROVE  /\ SearchLexicalCandidates(q) => SearchInv'
           /\ QueryVectorStore(q) => SearchInv'
           /\ LoadAuthorizedCandidates(q) => SearchInv'
<1>. DEFINE r == request[q]
            readable == Readable(member, public, live, gone)
<1>0. r \in RequestType /\ Sound(r, during[q])
  BY SoundSearches
<1>1. readable \in SUBSET Doc /\ (r.pc = "retrieve" => readable \subseteq during[q].docs)
  BY DEF Readable, SearchInv, TypeOK, GatheredWasReadable
<1>2. ASSUME SearchLexicalCandidates(q) PROVE SearchInv'
  <2>1. PICK c \in SUBSET readable : Advance(q, [r EXCEPT !.lexical = c])
    BY <1>2 DEF SearchLexicalCandidates
  <2>2. r.pc = "retrieve" /\ UNCHANGED during
    BY <1>2 DEF SearchLexicalCandidates
  <2>. DEFINE new == [r EXCEPT !.lexical = c]
  <2>3. new \in RequestType /\ new.pc # "idle" /\ Sound(new, during[q])
    <3>. HIDE DEF readable
    <3>. QED BY <1>0, <1>1, <2>2 DEF RequestType, Sound
  <2>. HIDE DEF new
  <2>. QED BY <2>1, <2>2, <2>3, SearchKeeps DEF new
<1>3. ASSUME QueryVectorStore(q) PROVE SearchInv'
  <2>1. PICK h \in SUBSET VectorFilter(r.access) : Advance(q, [r EXCEPT !.hits = h])
    BY <1>3 DEF QueryVectorStore
  <2>2. r.pc = "retrieve" /\ UNCHANGED during
    BY <1>3 DEF QueryVectorStore
  <2>3. h \in SUBSET Doc
    BY DEF VectorFilter, SearchInv, TypeOK
  <2>. DEFINE new == [r EXCEPT !.hits = h]
  <2>4. new \in RequestType /\ new.pc # "idle" /\ Sound(new, during[q])
    BY <1>0, <2>2, <2>3 DEF RequestType, Sound
  <2>. HIDE DEF new
  <2>. QED BY <2>1, <2>2, <2>4, SearchKeeps DEF new
<1>4. ASSUME LoadAuthorizedCandidates(q) PROVE SearchInv'
  <2>. DEFINE v == r.hits \cap readable
              new == [r EXCEPT !.vector = v, !.hits = {}]
  <2>1. r.pc = "retrieve" /\ UNCHANGED during /\ Advance(q, new)
    BY <1>4 DEF LoadAuthorizedCandidates
  <2>2. v \in SUBSET Doc /\ v \subseteq during[q].docs
    BY <1>1, <2>1
  <2>. HIDE DEF v
  <2>3. new \in RequestType /\ new.pc # "idle" /\ Sound(new, during[q])
    BY <1>0, <2>1, <2>2 DEF RequestType, Sound
  <2>. HIDE DEF new
  <2>. QED BY <2>1, <2>3, SearchKeeps
<1>. QED BY <1>2, <1>3, <1>4

LEMMA AnswerKeeps ==
    ASSUME SearchInv, NEW q \in Request
    PROVE  /\ FailSearch(q) => SearchInv'
           /\ SelectResults(q) => SearchInv'
           /\ LoadCitations(q) => SearchInv'
<1>. DEFINE r == request[q]
<1>0. r \in RequestType /\ Sound(r, during[q])
  BY SoundSearches
<1>1. ASSUME NEW s \in SUBSET Doc, s \subseteq during[q].docs
      PROVE  /\ Answered(r, s) \in RequestType /\ Answered(r, s).pc = "done"
             /\ Sound(Answered(r, s), during[q])
  BY <1>0, <1>1, AnsweredSound
<1>2. {} \in SUBSET Doc /\ {} \subseteq during[q].docs
      /\ r.result \in SUBSET Doc /\ r.result \subseteq during[q].docs
  BY <1>0 DEF RequestType, Sound
<1>3. ASSUME FailSearch(q) PROVE SearchInv'
  BY <1>1, <1>2, <1>3, SearchKeeps DEF FailSearch
<1>4. ASSUME LoadCitations(q) PROVE SearchInv'
  BY <1>1, <1>2, <1>4, SearchKeeps DEF LoadCitations
<1>5. ASSUME SelectResults(q) PROVE SearchInv'
  <2>. DEFINE candidates == (IF r.lexical = None THEN {} ELSE r.lexical)
                            \cup (IF r.vector = None THEN {} ELSE r.vector)
  <2>1. candidates \in SUBSET Doc /\ candidates \subseteq during[q].docs
    BY <1>0 DEF RequestType, Sound
  <2>2. PICK s \in SUBSET candidates :
          Advance(q, IF s = {} THEN Answered(r, {}) ELSE [Answered(r, s) EXCEPT !.pc = "citations"])
    BY <1>5 DEF SelectResults
  <2>3. r.pc # "idle" /\ UNCHANGED during
    BY <1>5 DEF SelectResults
  <2>. HIDE DEF candidates
  <2>4. s \in SUBSET Doc /\ s \subseteq during[q].docs
    BY <2>1
  <2>5. CASE s = {}
    BY <1>1, <1>2, <2>2, <2>3, <2>5, SearchKeeps
  <2>6. CASE s # {}
    <3>. DEFINE done == Answered(r, s)
                new == [done EXCEPT !.pc = "citations"]
    <3>1. done \in RequestType /\ Sound(done, during[q])
      BY <1>1, <2>4
    <3>2. Advance(q, new)
      BY <2>2, <2>6
    <3>. HIDE DEF done
    <3>3. new \in RequestType /\ new.pc # "idle" /\ Sound(new, during[q])
      BY <3>1 DEF RequestType, Sound
    <3>. HIDE DEF new
    <3>. QED BY <2>3, <3>2, <3>3, SearchKeeps
  <2>. QED BY <2>5, <2>6
<1>. QED BY <1>3, <1>4, <1>5

\* Searches, index builds and the changes they race with keep SearchInv: whatever a
\* search has gathered was readable to its principal at some time during it, and the
\* scoped statistics are whole (Service.Search, BuildLexicalIndex).
THEOREM SearchInvariant == Spec => []SearchInv
<1>1. Init => SearchInv
  <2>. SUFFICES ASSUME Init PROVE SearchInv
    OBVIOUS
  <2>1. \A q \in Request : request[q] = Idle
    BY DEF Init
  <2>2. TypeOK
    <3>1. request \in [Request -> RequestType]
      BY IdleFields DEF Init
    <3>2. /\ stats \in [Scope -> (SUBSET Doc) \cup {None}]
          /\ during \in [Request -> [docs : SUBSET Doc, scopes : SUBSET (Scope \cup {"none"})]]
          /\ builder \in [Builder -> {"idle", "waiting", "loaded", "building", "failing"}]
      BY DEF Init
    <3>5. payload \in [live : SUBSET Doc, public : SUBSET Doc]
      <4>1. (IF public THEN PublicDoc ELSE {}) \in SUBSET Doc
        BY SearchConstants
      <4>. QED BY <4>1 DEF Init
    <3>3. /\ live \subseteq Doc /\ gone \subseteq Doc /\ moves \in 0..MaxMoves
          /\ row \in {"none", "failed", "completed"} /\ lock \in Builder \cup {None}
      BY SearchConstants DEF Init
    <3>4. member \in BOOLEAN /\ public \in BOOLEAN /\ turned \in BOOLEAN /\ built \in BOOLEAN
      BY Zenon DEF Init
    <3>. QED BY <3>1, <3>2, <3>3, <3>4, <3>5 DEF TypeOK
  <2>3. GatheredWasReadable /\ ServedWasReadable
    BY <2>1, IdleFields DEF GatheredWasReadable, ServedWasReadable
  <2>4. StatsComplete
    BY DEF Init, StatsComplete, Scope
  <2>. QED BY <2>2, <2>3, <2>4 DEF SearchInv
<1>2. SearchInv /\ [Next]_vars => SearchInv'
  <2>. SUFFICES ASSUME SearchInv, [Next]_vars PROVE SearchInv'
    OBVIOUS
  <2>1. CASE UNCHANGED vars
    BY <2>1 DEF vars, worldVars, indexVars, SearchInv, TypeOK, GatheredWasReadable,
                ServedWasReadable, StatsComplete
  <2>. QED BY <2>1, WorldKeeps, BuildKeeps, ResolveKeeps, RetrieveKeeps, AnswerKeeps
           DEF Next, WorldStep, BuildStep
<1>. QED BY <1>1, <1>2, PTL DEF Spec

\* For any documents, searches and builders, a search returns only documents that were
\* readable to its principal at some time during it, whatever the copies in the vector
\* store say, and ranks them with statistics of a scope the principal held
\* (LoadAuthorizedCandidates, SearchLexicalCandidates, GetTermStats).
THEOREM SearchServesReadable == Spec => []ServedWasReadable
BY SearchInvariant, PTL DEF SearchInv

\* For any number of builders that fail, die or wait for the lock, an index that one of
\* them has returned stays completed and has scoped statistics, and these cover the run
\* (BuildLexicalIndex, ensureVisibilityStats, markIndexFailed).
THEOREM IndexStatsWhole == Spec => []StatsComplete
BY SearchInvariant, PTL DEF SearchInv

-----------------------------------------------------------------------------
(* ReviewServer *)

LEMMA ServerFields ==
    ASSUME Reviewer!TypeOK, NEW i \in Server
    PROVE  /\ server[i].pc \in {"down", "up", "saving", "finalizing"}
           /\ server[i].pc # "down" => server[i].labels \in Reviewer!Labels
           /\ server[i].pc = "up" => server[i].finalized \in BOOLEAN
           /\ server[i].pc = "saving" => server[i].case \in Case /\ server[i].before \in Reviewer!Labels
BY DEF Reviewer!TypeOK, Reviewer!ServerType, Reviewer!Down

LEMMA ServerStates ==
    /\ Reviewer!Down \in Reviewer!ServerType /\ Reviewer!Down.pc = "down"
    /\ \A l \in Reviewer!Labels, f \in BOOLEAN :
          /\ Reviewer!Up(l, f) \in Reviewer!ServerType
          /\ Reviewer!Up(l, f).pc = "up" /\ Reviewer!Up(l, f).labels = l
          /\ Reviewer!Up(l, f).finalized = f
    /\ \A l \in Reviewer!Labels : [pc |-> "finalizing", labels |-> l] \in Reviewer!ServerType
    /\ \A l, k \in Reviewer!Labels, c \in Case :
          [pc |-> "saving", case |-> c, before |-> k, labels |-> l] \in Reviewer!ServerType
BY DEF Reviewer!ServerType, Reviewer!Down, Reviewer!Up

LEMMA KeptType ==
    ASSUME Reviewer!TypeOK
    PROVE  /\ Reviewer!NoLabels \in Reviewer!Labels /\ Reviewer!Kept \in Reviewer!Labels
           /\ Reviewer!Load = Reviewer!Up(Reviewer!Kept, submitted # None)
<1>1. Reviewer!NoLabels \in Reviewer!Labels
  BY DEF Reviewer!NoLabels, Reviewer!Labels
<1>2. progress \in Reviewer!Labels \cup {None} /\ submitted \in Reviewer!Labels \cup {None}
  BY DEF Reviewer!TypeOK
<1>3. Reviewer!Kept \in Reviewer!Labels
  BY <1>1, <1>2 DEF Reviewer!Kept
<1>4. Reviewer!Load = Reviewer!Up(Reviewer!Kept, submitted # None)
  <2>1. CASE submitted # None
    BY <2>1 DEF Reviewer!Load, Reviewer!Kept, Reviewer!Up
  <2>2. CASE submitted = None
    BY <2>2 DEF Reviewer!Load, Reviewer!Kept, Reviewer!Up
  <2>. QED BY <2>1, <2>2
<1>. QED BY <1>1, <1>3, <1>4

\* What a server must be, given what is on disk and whether it was ever shared.
Knows(v) ==
    /\ v.pc = "up" => v.labels = Reviewer!Kept /\ (v.finalized <=> submitted # None)
    /\ v.pc = "saving" => submitted = None /\ v.before = Reviewer!Kept
    /\ v.pc = "finalizing" => submitted = None /\ v.labels = Reviewer!Kept

Alone(i) == \A j \in Server \ {i} : server[j].pc = "down"

\* A step of one server that writes no file and acknowledges nothing.
LEMMA QuietServerKeeps ==
    ASSUME Reviewer!ServerInv, NEW i \in Server, NEW v \in Reviewer!ServerType,
           server' = [server EXCEPT ![i] = v], UNCHANGED <<progress, submitted, acked>>,
           puts' \in 0..MaxPuts, failures' \in 0..MaxFailures,
           shared' \in BOOLEAN, shared => shared', doubled' \in BOOLEAN, doubled => doubled',
           ~shared' => (v.pc = "down" \/ Alone(i)) /\ Knows(v),
           v.pc = "saving" => Reviewer!Adds(v),
           v.pc = "finalizing" => /\ \A c \in Case : v.labels[c] # None
                                  /\ ~doubled' => /\ submitted = None
                                                 /\ \A j \in Server \ {i} : server[j].pc # "finalizing"
    PROVE  Reviewer!ServerInv'
<1>. USE DEF Reviewer!ServerInv
<1>1. Reviewer!TypeOK'
  BY DEF Reviewer!TypeOK
<1>2. \A j \in Server : server'[j] = IF j = i THEN v ELSE server[j]
  BY DEF Reviewer!TypeOK
<1>3. Reviewer!Kept' = Reviewer!Kept
  BY DEF Reviewer!Kept, Reviewer!NoLabels
<1>4. Reviewer!ServerKnows'
  <2>. SUFFICES ASSUME ~shared' PROVE Reviewer!ServerKnows'
    BY DEF Reviewer!ServerKnows
  <2>1. Reviewer!ServerKnows /\ ~shared
    OBVIOUS
  <2>2. \A j, k \in Server : server'[j].pc # "down" /\ server'[k].pc # "down" => j = k
    BY <1>2, <2>1 DEF Reviewer!ServerKnows, Alone
  <2>3. \A c \in Case : Reviewer!Version(Reviewer!Kept'[c]) >= acked'[c]
    BY <1>3, <2>1 DEF Reviewer!ServerKnows
  <2>4. \A j \in Server :
          /\ server'[j].pc = "up" => /\ server'[j].labels = Reviewer!Kept'
                                     /\ server'[j].finalized <=> submitted' # None
          /\ server'[j].pc = "saving" => submitted' = None /\ server'[j].before = Reviewer!Kept'
          /\ server'[j].pc = "finalizing" => submitted' = None /\ server'[j].labels = Reviewer!Kept'
    BY <1>2, <1>3, <2>1 DEF Reviewer!ServerKnows, Knows
  <2>. QED BY <2>2, <2>3, <2>4 DEF Reviewer!ServerKnows, Reviewer!Version
<1>5. Reviewer!OneFinalizes'
  BY <1>2 DEF Reviewer!OneFinalizes
<1>6. Reviewer!SavingAdds'
  <2>1. \A j \in Server : server'[j].pc = "saving" => Reviewer!Adds(server'[j])
    BY <1>2 DEF Reviewer!SavingAdds
  <2>. QED BY <2>1 DEF Reviewer!SavingAdds, Reviewer!Adds, Reviewer!Version
<1>. QED BY <1>1, <1>4, <1>5, <1>6

\* Under ~shared, who is up is alone and knows what is on disk.
LEMMA UpFacts ==
    ASSUME Reviewer!ServerInv, NEW i \in Server, server[i].pc # "down"
    PROVE  ~shared => Alone(i) /\ Knows(server[i])
BY DEF Reviewer!ServerInv, Reviewer!ServerKnows, Alone, Knows

LEMMA StartStopKeeps ==
    ASSUME Reviewer!ServerInv, NEW i \in Server, Reviewer!Start(i) \/ Reviewer!Stop(i)
    PROVE  Reviewer!ServerInv'
<1>. USE DEF Reviewer!files, Reviewer!history
<1>0. /\ puts \in 0..MaxPuts /\ failures \in 0..MaxFailures /\ shared \in BOOLEAN
      /\ doubled \in BOOLEAN
  BY DEF Reviewer!ServerInv, Reviewer!TypeOK
<1>1. CASE Reviewer!Start(i)
  <2>. DEFINE v == Reviewer!Up(Reviewer!Kept, submitted # None)
  <2>1. /\ server' = [server EXCEPT ![i] = v]
        /\ shared' = (shared \/ \E j \in Server : server[j].pc # "down")
        /\ UNCHANGED <<progress, submitted, puts, failures, acked, doubled>>
    BY <1>1, KeptType DEF Reviewer!Start, Reviewer!ServerInv
  <2>2. (submitted # None) \in BOOLEAN
    OBVIOUS
  <2>3. /\ v \in Reviewer!ServerType /\ v.pc = "up" /\ v.labels = Reviewer!Kept
        /\ v.finalized <=> (submitted # None)
    BY <2>2, KeptType, ServerStates DEF Reviewer!ServerInv
  <2>. HIDE DEF v
  <2>4. ~shared' => Alone(i) /\ Knows(v)
    BY <2>1, <2>3 DEF Alone, Knows
  <2>5. shared' \in BOOLEAN /\ (shared => shared')
    BY <2>1
  <2>. QED BY <1>0, <2>1, <2>3, <2>4, <2>5, QuietServerKeeps
<1>2. CASE Reviewer!Stop(i)
  <2>1. /\ server' = [server EXCEPT ![i] = Reviewer!Down]
        /\ UNCHANGED <<progress, submitted, puts, failures, acked, shared, doubled>>
    BY <1>2 DEF Reviewer!Stop
  <2>2. Knows(Reviewer!Down)
    BY ServerStates DEF Knows
  <2>. QED BY <1>0, <2>1, <2>2, ServerStates, QuietServerKeeps
<1>. QED BY <1>1, <1>2

LEMMA LabelsPlus ==
    ASSUME NEW l \in Reviewer!Labels, NEW c \in Case, NEW label \in Label
    PROVE  LET k == [l EXCEPT ![c] = [said |-> label, n |-> Reviewer!Version(@) + 1]]
           IN  /\ k \in Reviewer!Labels
               /\ k[c] # None /\ k[c].n > Reviewer!Version(l[c])
               /\ \A d \in Case \ {c} : k[d] = l[d]
<1>1. Reviewer!Version(l[c]) \in Nat
  BY DEF Reviewer!Version, Reviewer!Labels, Reviewer!Given
<1>. DEFINE g == [said |-> label, n |-> Reviewer!Version(l[c]) + 1]
<1>2. g \in Reviewer!Given /\ g # None /\ g.n > Reviewer!Version(l[c])
  BY <1>1, ReviewConstants DEF Reviewer!Given
<1>. HIDE DEF g
<1>3. /\ [l EXCEPT ![c] = g] \in Reviewer!Labels /\ [l EXCEPT ![c] = g][c] = g
      /\ \A d \in Case \ {c} : [l EXCEPT ![c] = g][d] = l[d]
  BY <1>2 DEF Reviewer!Labels
<1>. QED BY <1>2, <1>3 DEF g

LEMMA ReviewKeeps ==
    ASSUME Reviewer!ServerInv, NEW i \in Server, NEW c \in Case, NEW label \in Label,
           Reviewer!Review(i, c, label)
    PROVE  Reviewer!ServerInv'
<1>. DEFINE k == [server[i].labels EXCEPT ![c] = [said |-> label, n |-> Reviewer!Version(@) + 1]]
            v == [pc |-> "saving", case |-> c, before |-> server[i].labels, labels |-> k]
<1>0. /\ puts \in 0..MaxPuts /\ failures \in 0..MaxFailures /\ shared \in BOOLEAN
      /\ doubled \in BOOLEAN /\ MaxPuts \in Nat
  BY ReviewConstants DEF Reviewer!ServerInv, Reviewer!TypeOK
<1>1. /\ server[i].pc = "up" /\ ~server[i].finalized /\ puts < MaxPuts /\ puts' = puts + 1
      /\ server' = [server EXCEPT ![i] = v]
      /\ UNCHANGED <<progress, submitted, failures, acked, shared, doubled>>
  BY DEF Reviewer!Review, Reviewer!files, Reviewer!history
<1>2. server[i].labels \in Reviewer!Labels
  BY <1>1, ServerFields DEF Reviewer!ServerInv
<1>3. /\ k \in Reviewer!Labels
      /\ k[c] # None /\ k[c].n > Reviewer!Version(server[i].labels[c])
      /\ \A d \in Case \ {c} : k[d] = server[i].labels[d]
  BY <1>2, LabelsPlus
<1>. HIDE DEF k
<1>4. v \in Reviewer!ServerType
  BY <1>2, <1>3, ServerStates
<1>5. v.pc = "saving" /\ v.case = c /\ v.before = server[i].labels /\ v.labels = k
  OBVIOUS
<1>. HIDE DEF v
<1>6. Reviewer!Adds(v)
  BY <1>3, <1>5 DEF Reviewer!Adds
<1>7. ~shared' => Alone(i) /\ Knows(v)
  BY <1>1, <1>5, <1>6, UpFacts DEF Knows
<1>8. puts' \in 0..MaxPuts
  BY <1>0, <1>1
<1>. QED BY <1>0, <1>1, <1>4, <1>5, <1>6, <1>7, <1>8, QuietServerKeeps

LEMMA SaveFailsKeeps ==
    ASSUME Reviewer!ServerInv, NEW i \in Server, Reviewer!SaveFails(i)
    PROVE  Reviewer!ServerInv'
<1>. DEFINE v == Reviewer!Up(server[i].before, FALSE)
<1>0. /\ puts \in 0..MaxPuts /\ failures \in 0..MaxFailures /\ shared \in BOOLEAN
      /\ doubled \in BOOLEAN /\ MaxFailures \in Nat
  BY ReviewConstants DEF Reviewer!ServerInv, Reviewer!TypeOK
<1>1. /\ server[i].pc = "saving" /\ failures < MaxFailures /\ failures' = failures + 1
      /\ server' = [server EXCEPT ![i] = v]
      /\ UNCHANGED <<progress, submitted, puts, acked, shared, doubled>>
  BY DEF Reviewer!SaveFails, Reviewer!files, Reviewer!history
<1>2. server[i].before \in Reviewer!Labels
  BY <1>1, ServerFields DEF Reviewer!ServerInv
<1>3. /\ v \in Reviewer!ServerType /\ v.pc = "up" /\ v.labels = server[i].before
      /\ v.finalized = FALSE
  BY <1>2, ServerStates
<1>. HIDE DEF v
<1>4. ~shared' => Alone(i) /\ Knows(v)
  BY <1>1, <1>3, UpFacts DEF Knows
<1>5. failures' \in 0..MaxFailures
  BY <1>0, <1>1
<1>. QED BY <1>0, <1>1, <1>3, <1>4, <1>5, QuietServerKeeps

LEMMA FinalizeKeeps ==
    ASSUME Reviewer!ServerInv, NEW i \in Server, Reviewer!Finalize(i)
    PROVE  Reviewer!ServerInv'
<1>. DEFINE v == [pc |-> "finalizing", labels |-> server[i].labels]
<1>0. /\ puts \in 0..MaxPuts /\ failures \in 0..MaxFailures /\ shared \in BOOLEAN
      /\ doubled \in BOOLEAN
  BY DEF Reviewer!ServerInv, Reviewer!TypeOK
<1>1. /\ server[i].pc = "up" /\ submitted = None
      /\ \A c \in Case : server[i].labels[c] # None
      /\ server' = [server EXCEPT ![i] = v]
      /\ doubled' = (doubled \/ \E j \in Server : server[j].pc = "finalizing")
      /\ UNCHANGED <<progress, submitted, puts, failures, acked, shared>>
  BY DEF Reviewer!Finalize, Reviewer!files
<1>2. server[i].labels \in Reviewer!Labels
  BY <1>1, ServerFields DEF Reviewer!ServerInv
<1>3. v \in Reviewer!ServerType /\ v.pc = "finalizing" /\ v.labels = server[i].labels
  BY <1>2, ServerStates
<1>. HIDE DEF v
<1>4. ~shared' => Alone(i) /\ Knows(v)
  BY <1>1, <1>3, UpFacts DEF Knows
<1>5. doubled' \in BOOLEAN /\ (doubled => doubled')
  BY <1>0, <1>1
<1>. QED BY <1>0, <1>1, <1>3, <1>4, <1>5, QuietServerKeeps

LEMMA SubmitFailsKeeps ==
    ASSUME Reviewer!ServerInv, NEW i \in Server, Reviewer!SubmitFails(i)
    PROVE  Reviewer!ServerInv'
<1>. DEFINE v == Reviewer!Up(server[i].labels, FALSE)
<1>0. /\ puts \in 0..MaxPuts /\ failures \in 0..MaxFailures /\ shared \in BOOLEAN
      /\ doubled \in BOOLEAN /\ MaxFailures \in Nat
  BY ReviewConstants DEF Reviewer!ServerInv, Reviewer!TypeOK
<1>1. /\ server[i].pc = "finalizing" /\ failures < MaxFailures /\ failures' = failures + 1
      /\ server' = [server EXCEPT ![i] = v]
      /\ UNCHANGED <<progress, submitted, puts, acked, shared, doubled>>
  BY DEF Reviewer!SubmitFails, Reviewer!files, Reviewer!history
<1>2. server[i].labels \in Reviewer!Labels
  BY <1>1, ServerFields DEF Reviewer!ServerInv
<1>3. /\ v \in Reviewer!ServerType /\ v.pc = "up" /\ v.labels = server[i].labels
      /\ v.finalized = FALSE
  BY <1>2, ServerStates
<1>. HIDE DEF v
<1>4. ~shared' => Alone(i) /\ Knows(v)
  BY <1>1, <1>3, UpFacts DEF Knows
<1>5. failures' \in 0..MaxFailures
  BY <1>0, <1>1
<1>. QED BY <1>0, <1>1, <1>3, <1>4, <1>5, QuietServerKeeps

\* Writing a file: what is on disk becomes what the server holds.
LEMMA WriteKeeps ==
    ASSUME Reviewer!ServerInv, NEW i \in Server, NEW f \in BOOLEAN, server[i].pc # "down",
           server' = [server EXCEPT ![i] = Reviewer!Up(server[i].labels, f)],
           UNCHANGED <<puts, failures, shared, doubled>>,
           progress' \in Reviewer!Labels \cup {None}, submitted' \in Reviewer!Labels \cup {None},
           acked' \in [Case -> Nat],
           ~shared => /\ Reviewer!Kept' = server[i].labels /\ (f <=> submitted' # None)
                      /\ \A c \in Case : Reviewer!Version(server[i].labels[c]) >= acked'[c],
           ~doubled /\ submitted' # submitted =>
               \A j \in Server \ {i} : server[j].pc # "finalizing"
    PROVE  Reviewer!ServerInv'
<1>. DEFINE v == Reviewer!Up(server[i].labels, f)
<1>1. v \in Reviewer!ServerType /\ v.pc = "up" /\ v.labels = server[i].labels /\ v.finalized = f
  BY ServerStates, ServerFields DEF Reviewer!ServerInv
<1>2. server' = [server EXCEPT ![i] = v]
  OBVIOUS
<1>. HIDE DEF v
<1>3. \A j \in Server : server'[j] = IF j = i THEN v ELSE server[j]
  BY <1>2 DEF Reviewer!ServerInv, Reviewer!TypeOK
<1>4. Reviewer!TypeOK'
  BY <1>1, <1>2 DEF Reviewer!ServerInv, Reviewer!TypeOK
<1>5. Reviewer!ServerKnows'
  <2>. SUFFICES ASSUME ~shared' PROVE Reviewer!ServerKnows'
    BY DEF Reviewer!ServerKnows
  <2>1. ~shared /\ Alone(i)
    BY UpFacts
  <2>2. \A j \in Server : server'[j].pc # "down" => j = i
    BY <1>3, <2>1 DEF Alone
  <2>3. \A c \in Case : Reviewer!Version(Reviewer!Kept'[c]) >= acked'[c]
    BY <2>1
  <2>4. \A j \in Server :
          /\ server'[j].pc = "up" => /\ server'[j].labels = Reviewer!Kept'
                                     /\ server'[j].finalized <=> submitted' # None
          /\ server'[j].pc \notin {"saving", "finalizing"}
    BY <1>1, <1>3, <2>1, <2>2
  <2>. QED BY <2>2, <2>3, <2>4 DEF Reviewer!ServerKnows, Reviewer!Version
<1>6. Reviewer!OneFinalizes'
  BY <1>1, <1>3 DEF Reviewer!ServerInv, Reviewer!OneFinalizes
<1>7. Reviewer!SavingAdds'
  <2>1. \A j \in Server : server'[j].pc = "saving" => Reviewer!Adds(server'[j])
    BY <1>1, <1>3 DEF Reviewer!ServerInv, Reviewer!SavingAdds
  <2>. QED BY <2>1 DEF Reviewer!SavingAdds, Reviewer!Adds, Reviewer!Version
<1>. QED BY <1>4, <1>5, <1>6, <1>7 DEF Reviewer!ServerInv

LEMMA SaveProgressKeeps ==
    ASSUME Reviewer!ServerInv, NEW i \in Server, Reviewer!SaveProgress(i)
    PROVE  Reviewer!ServerInv'
<1>. DEFINE v == server[i]
<1>1. /\ v.pc = "saving" /\ progress' = v.labels
      /\ acked' = [acked EXCEPT ![v.case] = v.labels[v.case].n]
      /\ server' = [server EXCEPT ![i] = Reviewer!Up(server[i].labels, FALSE)]
      /\ UNCHANGED <<submitted, puts, failures, shared, doubled>>
  BY DEF Reviewer!SaveProgress
<1>2. v.labels \in Reviewer!Labels /\ v.before \in Reviewer!Labels /\ v.case \in Case
  BY <1>1, ServerFields DEF Reviewer!ServerInv
<1>3. /\ submitted \in Reviewer!Labels \cup {None} /\ acked \in [Case -> Nat]
  BY DEF Reviewer!ServerInv, Reviewer!TypeOK
<1>3a. v.labels # None
  BY <1>2, ReviewConstants
<1>. SUFFICES /\ acked' \in [Case -> Nat]
              /\ ~shared => /\ Reviewer!Kept' = server[i].labels /\ submitted' = None
                            /\ \A c \in Case : Reviewer!Version(server[i].labels[c]) >= acked'[c]
  BY <1>1, <1>2, <1>3, WriteKeeps
<1>. HIDE DEF v
<1>4. v.labels[v.case] # None /\ Reviewer!Adds(v)
  BY <1>1 DEF Reviewer!ServerInv, Reviewer!SavingAdds, Reviewer!Adds, v
<1>5. v.labels[v.case].n \in Nat
  BY <1>2, <1>4 DEF Reviewer!Labels, Reviewer!Given
<1>6. acked' \in [Case -> Nat] /\ \A c \in Case : acked'[c] = IF c = v.case THEN v.labels[v.case].n ELSE acked[c]
  BY <1>1, <1>2, <1>3, <1>5
<1>7. ASSUME ~shared
      PROVE  /\ Reviewer!Kept' = v.labels /\ submitted' = None
             /\ \A c \in Case : Reviewer!Version(v.labels[c]) >= acked'[c]
  <2>1. submitted = None /\ v.before = Reviewer!Kept
    BY <1>1, <1>7, UpFacts DEF Knows, v
  <2>2. Reviewer!Kept' = v.labels
    BY <1>1, <1>3a, <2>1 DEF Reviewer!Kept
  <2>3. \A c \in Case : Reviewer!Version(v.before[c]) >= acked[c]
    BY <1>7, <2>1 DEF Reviewer!ServerInv, Reviewer!ServerKnows
  <2>4. \A c \in Case : Reviewer!Version(v.labels[c]) >= acked'[c]
    <3>. SUFFICES ASSUME NEW c \in Case PROVE Reviewer!Version(v.labels[c]) >= acked'[c]
      OBVIOUS
    <3>1. CASE c = v.case
      BY <1>4, <1>5, <1>6, <3>1 DEF Reviewer!Version
    <3>2. CASE c # v.case
      BY <1>4, <1>6, <2>3, <3>2 DEF Reviewer!Adds
    <3>. QED BY <3>1, <3>2
  <2>. QED BY <1>1, <2>1, <2>2, <2>4
<1>. QED BY <1>6, <1>7 DEF v

\* Who writes the final file writes a label for every case, over no other unless two
\* servers were finalizing.
LEMMA SubmitWrites ==
    ASSUME Reviewer!ServerInv, NEW i \in Server, Reviewer!Submit(i)
    PROVE  /\ submitted' \in Reviewer!Labels /\ \A c \in Case : submitted'[c] # None
           /\ ~doubled => submitted = None /\ \A j \in Server \ {i} : server[j].pc # "finalizing"
<1>1. server[i].pc = "finalizing" /\ submitted' = server[i].labels
  BY DEF Reviewer!Submit
<1>2. submitted' \in Reviewer!Labels
  BY <1>1, ServerFields DEF Reviewer!ServerInv
<1>. QED BY <1>1, <1>2 DEF Reviewer!ServerInv, Reviewer!OneFinalizes

LEMMA SubmitKeeps ==
    ASSUME Reviewer!ServerInv, NEW i \in Server, Reviewer!Submit(i)
    PROVE  Reviewer!ServerInv'
<1>1. /\ server[i].pc = "finalizing" /\ submitted' = server[i].labels
      /\ server' = [server EXCEPT ![i] = Reviewer!Up(server[i].labels, TRUE)]
      /\ UNCHANGED <<progress, puts, failures, acked, shared, doubled>>
  BY DEF Reviewer!Submit, Reviewer!history
<1>2. submitted' # None
  BY SubmitWrites, ReviewConstants
<1>3. Reviewer!Kept' = server[i].labels
  BY <1>1, <1>2 DEF Reviewer!Kept
<1>4. ~shared => \A c \in Case : Reviewer!Version(server[i].labels[c]) >= acked'[c]
  <2>. SUFFICES ASSUME ~shared PROVE server[i].labels = Reviewer!Kept
    BY <1>1 DEF Reviewer!ServerInv, Reviewer!ServerKnows
  <2>. QED BY <1>1, UpFacts DEF Knows
<1>5. acked' \in [Case -> Nat] /\ progress' \in Reviewer!Labels \cup {None}
  BY <1>1 DEF Reviewer!ServerInv, Reviewer!TypeOK
<1>. QED BY <1>1, <1>2, <1>3, <1>4, <1>5, SubmitWrites, WriteKeeps

\* The inductive invariant, for any number of servers, cases, labels, puts and failures.
THEOREM ReviewServerInvariant == Reviewer!Spec => []Reviewer!ServerInv
<1>1. Reviewer!Init => Reviewer!ServerInv
  <2>. SUFFICES ASSUME Reviewer!Init PROVE Reviewer!ServerInv
    OBVIOUS
  <2>. USE DEF Reviewer!Init
  <2>1. /\ \A i \in Server : server[i] = Reviewer!Down
        /\ Reviewer!Down \in Reviewer!ServerType /\ Reviewer!Down.pc = "down"
    BY ServerStates
  <2>2. Reviewer!TypeOK
    <3>1. server \in [Server -> Reviewer!ServerType]
      BY <2>1
    <3>2. puts \in 0..MaxPuts /\ failures \in 0..MaxFailures /\ acked \in [Case -> Nat]
      BY ReviewConstants
    <3>3. shared \in BOOLEAN /\ doubled \in BOOLEAN
      OBVIOUS
    <3>. QED BY <3>1, <3>2, <3>3 DEF Reviewer!TypeOK
  <2>3. Reviewer!ServerKnows
    <3>1. \A c \in Case : Reviewer!Version(Reviewer!Kept[c]) >= acked[c]
      BY DEF Reviewer!Kept, Reviewer!NoLabels, Reviewer!Version
    <3>. QED BY <2>1, <3>1 DEF Reviewer!ServerKnows
  <2>4. Reviewer!SavingAdds /\ Reviewer!OneFinalizes
    BY <2>1 DEF Reviewer!SavingAdds, Reviewer!OneFinalizes
  <2>. QED BY <2>2, <2>3, <2>4 DEF Reviewer!ServerInv
<1>2. Reviewer!ServerInv /\ [Reviewer!Next]_Reviewer!vars => Reviewer!ServerInv'
  <2>. SUFFICES ASSUME Reviewer!ServerInv, [Reviewer!Next]_Reviewer!vars PROVE Reviewer!ServerInv'
    OBVIOUS
  <2>1. CASE Reviewer!Next
    <3>1. PICK i \in Server :
            \/ Reviewer!Start(i) \/ Reviewer!SaveProgress(i) \/ Reviewer!SaveFails(i)
            \/ Reviewer!Finalize(i) \/ Reviewer!Submit(i) \/ Reviewer!SubmitFails(i) \/ Reviewer!Stop(i)
            \/ \E c \in Case, label \in Label : Reviewer!Review(i, c, label)
      BY <2>1 DEF Reviewer!Next
    <3>. QED BY <3>1, StartStopKeeps, ReviewKeeps, SaveProgressKeeps, SaveFailsKeeps, FinalizeKeeps,
                SubmitKeeps, SubmitFailsKeeps
  <2>2. CASE UNCHANGED Reviewer!vars
    BY <2>2 DEF Reviewer!vars, Reviewer!files, Reviewer!history, Reviewer!ServerInv,
       Reviewer!TypeOK, Reviewer!SavingAdds, Reviewer!Adds, Reviewer!ServerKnows,
       Reviewer!OneFinalizes, Reviewer!Kept, Reviewer!Version, Reviewer!NoLabels
  <2>. QED BY <2>1, <2>2
<1>. QED BY <1>1, <1>2, PTL DEF Reviewer!Spec

\* Whatever writes fail and whenever a server stops, an acknowledged label stays on disk
\* and what is on disk is what an idle server shows, as long as one server at a time was
\* up (handleReview, writeProgress, NewReviewServer).
THEOREM AcknowledgedLabelsSurvive == Reviewer!Spec => []LabelsSurvive
<1>1. Reviewer!ServerInv => LabelsSurvive
  BY DEF LabelsSurvive, Reviewer!LabelsSurvive, Reviewer!ServerInv, Reviewer!ServerKnows
<1>. QED BY <1>1, ReviewServerInvariant, PTL

\* A submitted review is complete and is never written again, with any number of servers,
\* unless two were finalizing at the same time (handleFinalize).
THEOREM SubmittedReviewKept == Reviewer!Spec => SubmittedImmutable
<1>. DEFINE A == /\ submitted # None /\ ~doubled => submitted' = submitted
                 /\ submitted' # submitted => \A c \in Case : submitted'[c] # None
<1>1. Reviewer!ServerInv /\ [Reviewer!Next]_Reviewer!vars => [A]_Reviewer!vars
  <2>. SUFFICES ASSUME Reviewer!ServerInv, Reviewer!Next PROVE A
    OBVIOUS
  <2>1. PICK i \in Server : Reviewer!Submit(i) \/ UNCHANGED submitted
    BY DEF Reviewer!Next, Reviewer!Start, Reviewer!SaveProgress, Reviewer!SaveFails,
       Reviewer!Finalize, Reviewer!SubmitFails, Reviewer!Stop, Reviewer!Review, Reviewer!files
  <2>. QED BY <2>1, SubmitWrites
<1>. QED BY <1>1, ReviewServerInvariant, PTL DEF Reviewer!Spec, SubmittedImmutable, Reviewer!SubmittedImmutable

-----------------------------------------------------------------------------
(* BenchmarkReview *)

\* What an audit accepted stays accepted while the reviews and the assignments stay.
LEMMA JudgedStable ==
    ASSUME UNCHANGED <<assignment, final>>, revised => revised', NEW r
    PROVE  Workspace!Judged(r) => Workspace!Judged(r)'
BY DEF Workspace!Judged, Workspace!AuditAccepts, Workspace!ReviewSetValid, Workspace!JudgmentsFit,
       Workspace!AdjudicationValid, Workspace!Reviewers, Workspace!Author

LEMMA NotNone ==
    \A x \in Nat \cup Workspace!Cases \cup Workspace!Handout \cup Workspace!Reviews
             \cup Workspace!Evidence \cup Workspace!SealedSummary : x # None
BY WorkspaceConstants

LEMMA CommandFields ==
    ASSUME Workspace!TypeOK
    PROVE  /\ op.pc \in {"idle", "init", "draft", "prepare", "checksum", "approve", "record",
                         "summarise", "seal", "publish"}
           /\ op.pc = "prepare" => op.read \in Workspace!Cases /\ op.who \in [Workspace!Slot -> Person]
                                   /\ op.left \in SUBSET Workspace!Slot
           /\ op.pc \in Workspace!Auditing => op.freeze \in BOOLEAN /\ op.read \in Workspace!Evidence
           /\ op.pc \in Workspace!Auditing \ {"checksum"} => op.sums \in Workspace!Evidence
BY DEF Workspace!TypeOK, Workspace!Command, Workspace!Auditing, Workspace!Recording

LEMMA CommandForms ==
    /\ Workspace!Idle \in Workspace!Command /\ Workspace!Idle.pc = "idle"
    /\ [pc |-> "init"] \in Workspace!Command /\ [pc |-> "draft"] \in Workspace!Command
    /\ \A r \in Workspace!Cases, w \in [Workspace!Slot -> Person], l \in SUBSET Workspace!Slot :
          [pc |-> "prepare", read |-> r, who |-> w, left |-> l] \in Workspace!Command
    /\ \A f \in BOOLEAN, r \in Workspace!Evidence :
          [pc |-> "checksum", freeze |-> f, read |-> r] \in Workspace!Command
    /\ \A k \in {"approve"} \cup Workspace!Recording, f \in BOOLEAN, r \in Workspace!Evidence, u \in Workspace!Evidence :
          [pc |-> k, freeze |-> f, read |-> r, sums |-> u] \in Workspace!Command
BY DEF Workspace!Idle, Workspace!Command, Workspace!Auditing, Workspace!Recording

\* A command goes on to its next file with what it holds.
LEMMA MovesOn ==
    ASSUME Workspace!TypeOK, op.pc \in {"approve"} \cup Workspace!Recording,
           NEW k \in {"approve"} \cup Workspace!Recording, op' = [op EXCEPT !.pc = k]
    PROVE  /\ op' \in Workspace!Command
           /\ op'.pc = k /\ op'.freeze = op.freeze /\ op'.read = op.read /\ op'.sums = op.sums
<1>1. op \in [pc : Workspace!Auditing \ {"checksum"}, freeze : BOOLEAN, read : Workspace!Evidence,
              sums : Workspace!Evidence]
  BY DEF Workspace!TypeOK, Workspace!Command, Workspace!Recording
<1>2. k \in Workspace!Auditing \ {"checksum"}
  BY DEF Workspace!Auditing, Workspace!Recording
<1>3. op' \in [pc : Workspace!Auditing \ {"checksum"}, freeze : BOOLEAN, read : Workspace!Evidence,
              sums : Workspace!Evidence]
      /\ op'.pc = k /\ op'.freeze = op.freeze /\ op'.read = op.read /\ op'.sums = op.sums
  BY <1>1, <1>2
<1>. QED BY <1>3 DEF Workspace!Command

\* The checksums are of evidence, once there is all of it.
LEMMA InputsType ==
    ASSUME Workspace!TypeOK, authored # None, sources # None,
           \A s \in Workspace!Slot : final[s] # None
    PROVE  /\ Workspace!Inputs \in Workspace!Evidence
           /\ Workspace!Inputs.authored = authored /\ Workspace!Inputs.reviews = final
BY DEF Workspace!TypeOK, Workspace!Inputs, Workspace!Evidence

LEMMA EvidenceFields ==
    ASSUME NEW r \in Workspace!Evidence
    PROVE  r.authored \in Workspace!Cases /\ r.reviews \in [Workspace!Slot -> Workspace!Reviews]
BY DEF Workspace!Evidence

\* The frame of an action: the parts it leaves alone.
LEMMA FilesFrame ==
    ASSUME Workspace!FilesFollow, UNCHANGED <<authored, sources, assignment, final, approved, published>>,
           revised => revised'
    PROVE  Workspace!FilesFollow'
BY JudgedStable DEF Workspace!FilesFollow

LEMMA PublishedFrame ==
    ASSUME Workspace!PublishedAgrees, UNCHANGED <<approved, published, ledger, summary>>,
           raced => raced', reaudited => reaudited'
    PROVE  Workspace!PublishedAgrees'
BY DEF Workspace!PublishedAgrees

LEMMA AuditFrame ==
    ASSUME Workspace!AuditHolds,
           UNCHANGED <<op, assignment, final, approved, published, ledger, summary>>,
           UNCHANGED <<authored, sources, decisions>> \/ (op.pc = "checksum" => raced'),
           revised => revised', raced => raced', reaudited => reaudited'
    PROVE  Workspace!AuditHolds'
BY JudgedStable DEF Workspace!AuditHolds, Workspace!Auditing, Workspace!Recording, Workspace!Inputs,
   Workspace!Sealed

LEMMA NoAudit ==
    ASSUME op'.pc \in {"idle", "init", "draft", "prepare"} PROVE Workspace!AuditHolds'
BY DEF Workspace!AuditHolds, Workspace!Auditing, Workspace!Recording

LEMMA NoMaking ==
    ASSUME op'.pc \notin {"init", "draft", "prepare"} PROVE Workspace!MakesWorkspace'
BY DEF Workspace!MakesWorkspace

LEMMA InitializeWorkspaceKeeps ==
    ASSUME Workspace!WorkspaceInv, Workspace!InitializeWorkspace
    PROVE  Workspace!WorkspaceInv'
<1>0. /\ op.pc = "idle" /\ plan' = "partial" /\ op' \in Workspace!Command /\ op'.pc = "init"
      /\ UNCHANGED <<authored, report, sources, assignment, final, decisions, ledger, summary,
                     approved, published, upsets, hurt, revised, raced, reaudited>>
  BY CommandForms DEF Workspace!InitializeWorkspace, Workspace!outVars, Workspace!history
<1>. USE DEF Workspace!WorkspaceInv
<1>1. Workspace!TypeOK'
  BY <1>0 DEF Workspace!TypeOK
<1>2. Workspace!FilesFollow' /\ Workspace!PublishedAgrees' /\ Workspace!AuditHolds'
  BY <1>0, FilesFrame, PublishedFrame, NoAudit
<1>3. Workspace!MakesWorkspace'
  BY <1>0 DEF Workspace!MakesWorkspace
<1>4. Workspace!HalvesAccounted'
  BY <1>0 DEF Workspace!HalvesAccounted, Workspace!Recording
<1>. QED BY <1>1, <1>2, <1>3, <1>4

LEMMA FinishInitKeeps ==
    ASSUME Workspace!WorkspaceInv, Workspace!FinishInit
    PROVE  Workspace!WorkspaceInv'
<1>0. /\ op.pc = "init" /\ plan' = "done" /\ op' \in Workspace!Command /\ op'.pc = "idle"
      /\ UNCHANGED <<authored, report, sources, assignment, final, decisions, ledger, summary,
                     approved, published, upsets, hurt, revised, raced, reaudited>>
  BY CommandForms DEF Workspace!FinishInit, Workspace!outVars, Workspace!history
<1>. USE DEF Workspace!WorkspaceInv
<1>1. Workspace!TypeOK'
  BY <1>0 DEF Workspace!TypeOK
<1>2. Workspace!FilesFollow' /\ Workspace!PublishedAgrees' /\ Workspace!AuditHolds' /\ Workspace!MakesWorkspace'
  BY <1>0, FilesFrame, PublishedFrame, NoAudit, NoMaking
<1>3. Workspace!HalvesAccounted'
  BY <1>0 DEF Workspace!HalvesAccounted, Workspace!Recording
<1>. QED BY <1>1, <1>2, <1>3

LEMMA DraftKeeps ==
    ASSUME Workspace!WorkspaceInv, NEW p \in Person, Workspace!Draft(p)
    PROVE  Workspace!WorkspaceInv'
<1>0. /\ op.pc = "idle" /\ op' \in Workspace!Command /\ op'.pc = "draft"
      /\ authored = None /\ report = None /\ sources = None
      /\ authored' = Workspace!GenerateDrafts(p)
      /\ UNCHANGED <<plan, report, sources, assignment, final, decisions, ledger, summary,
                     approved, published, upsets, hurt, revised, raced, reaudited>>
  BY CommandForms DEF Workspace!Draft, Workspace!outVars, Workspace!history
<1>. USE DEF Workspace!WorkspaceInv
<1>1. authored' \in Workspace!Cases /\ authored' # None
  BY <1>0, NotNone DEF Workspace!GenerateDrafts, Workspace!Cases
<1>2. Workspace!TypeOK'
  BY <1>0, <1>1 DEF Workspace!TypeOK
<1>3. Workspace!FilesFollow'
  BY <1>0, <1>1, JudgedStable DEF Workspace!FilesFollow
<1>4. Workspace!PublishedAgrees' /\ Workspace!AuditHolds'
  BY <1>0, PublishedFrame, NoAudit
<1>5. Workspace!MakesWorkspace'
  BY <1>0, <1>1 DEF Workspace!MakesWorkspace
<1>6. Workspace!HalvesAccounted'
  BY <1>0, <1>1 DEF Workspace!HalvesAccounted, Workspace!Recording
<1>. QED BY <1>2, <1>3, <1>4, <1>5, <1>6

LEMMA FinishDraftKeeps ==
    ASSUME Workspace!WorkspaceInv, Workspace!FinishDraft
    PROVE  Workspace!WorkspaceInv'
<1>0. /\ op.pc = "draft" /\ op' \in Workspace!Command /\ op'.pc = "idle" /\ report' = authored
      /\ UNCHANGED <<plan, authored, sources, assignment, final, decisions, ledger, summary,
                     approved, published, upsets, hurt, revised, raced, reaudited>>
  BY CommandForms DEF Workspace!FinishDraft, Workspace!outVars, Workspace!history
<1>. USE DEF Workspace!WorkspaceInv
<1>1. Workspace!TypeOK'
  BY <1>0 DEF Workspace!TypeOK
<1>2. Workspace!FilesFollow' /\ Workspace!PublishedAgrees' /\ Workspace!AuditHolds' /\ Workspace!MakesWorkspace'
  BY <1>0, FilesFrame, PublishedFrame, NoAudit, NoMaking
<1>3. Workspace!HalvesAccounted'
  BY <1>0 DEF Workspace!HalvesAccounted, Workspace!Recording
<1>. QED BY <1>1, <1>2, <1>3

LEMMA PrepareKeeps ==
    ASSUME Workspace!WorkspaceInv, NEW who \in [Workspace!Slot -> Person], Workspace!Prepare(who)
    PROVE  Workspace!WorkspaceInv'
<1>. DEFINE w == [pc |-> "prepare", read |-> authored, who |-> who, left |-> Workspace!Slot]
<1>0. /\ op.pc = "idle" /\ op' = w /\ authored # None
      /\ sources = None /\ sources' = authored.refs
      /\ \A s \in Workspace!Slot : assignment[s] = None /\ final[s] = None
      /\ UNCHANGED <<plan, authored, report, assignment, final, decisions, ledger, summary,
                     approved, published, upsets, hurt, revised, raced, reaudited>>
  BY DEF Workspace!Prepare, Workspace!outVars, Workspace!history, Workspace!DraftVerified,
     Workspace!ResolveSources
<1>. USE DEF Workspace!WorkspaceInv
<1>1. authored \in Workspace!Cases
  BY <1>0 DEF Workspace!TypeOK
<1>2. sources' \in Nat /\ sources' # None
  BY <1>0, <1>1, NotNone DEF Workspace!Cases
<1>3. /\ w \in Workspace!Command /\ w.pc = "prepare" /\ w.read = authored
      /\ w.left = Workspace!Slot
  BY <1>1, CommandForms
<1>3a. op' \in Workspace!Command /\ op'.pc = "prepare" /\ op'.read = authored /\ op'.left = Workspace!Slot
  BY <1>0, <1>3
<1>. HIDE DEF w
<1>4. Workspace!TypeOK'
  BY <1>0, <1>2, <1>3a DEF Workspace!TypeOK
<1>5. Workspace!FilesFollow'
  BY <1>0, <1>2, JudgedStable DEF Workspace!FilesFollow
<1>6. Workspace!PublishedAgrees' /\ Workspace!AuditHolds'
  BY <1>0, <1>3a, PublishedFrame, NoAudit
<1>7. Workspace!MakesWorkspace'
  BY <1>0, <1>2, <1>3a DEF Workspace!MakesWorkspace, Workspace!Slot
<1>8. Workspace!HalvesAccounted'
  BY <1>0, <1>3a DEF Workspace!HalvesAccounted, Workspace!Recording
<1>. QED BY <1>4, <1>5, <1>6, <1>7, <1>8

LEMMA DistributeKeeps ==
    ASSUME Workspace!WorkspaceInv, NEW s \in Workspace!Slot, Workspace!Distribute(s)
    PROVE  Workspace!WorkspaceInv'
<1>. USE DEF Workspace!WorkspaceInv
<1>. DEFINE h == Workspace!Assignment(op.read, op.who[s])
<1>0. /\ op.pc = "prepare" /\ s \in op.left
      /\ assignment' = [assignment EXCEPT ![s] = h]
      /\ op' = IF op.left = {s} THEN Workspace!Idle ELSE [op EXCEPT !.left = @ \ {s}]
      /\ UNCHANGED <<plan, authored, report, sources, final, decisions, ledger, summary,
                     approved, published, upsets, hurt, revised, raced, reaudited>>
  BY DEF Workspace!Distribute, Workspace!outVars, Workspace!history
<1>1. h \in Workspace!Handout /\ h # None /\ h.query = op.read.query
  <2>1. op.read \in Workspace!Cases /\ op.who[s] \in Person
    BY <1>0, CommandFields
  <2>. QED BY <2>1, NotNone DEF Workspace!Assignment, Workspace!Handout, Workspace!Cases
<1>. HIDE DEF h
<1>2. \A t \in Workspace!Slot : assignment'[t] = IF t = s THEN h ELSE assignment[t]
  BY <1>0 DEF Workspace!TypeOK
<1>3. \/ op.left = {s} /\ op' \in Workspace!Command /\ op'.pc = "idle"
      \/ op.left # {s} /\ op' \in Workspace!Command /\ op'.pc = "prepare" /\ op'.read = op.read
         /\ op'.left = op.left \ {s}
  <2>1. CASE op.left = {s}
    BY <1>0, <2>1, CommandForms
  <2>2. CASE op.left # {s}
    <3>1. op \in [pc : {"prepare"}, read : Workspace!Cases, who : [Workspace!Slot -> Person],
                  left : SUBSET Workspace!Slot]
      BY <1>0 DEF Workspace!TypeOK, Workspace!Command, Workspace!Auditing, Workspace!Recording
    <3>2. op' \in [pc : {"prepare"}, read : Workspace!Cases, who : [Workspace!Slot -> Person],
                   left : SUBSET Workspace!Slot]
          /\ op'.pc = "prepare" /\ op'.read = op.read /\ op'.left = op.left \ {s}
      BY <1>0, <2>2, <3>1
    <3>. QED BY <2>2, <3>2 DEF Workspace!Command
  <2>. QED BY <2>1, <2>2
<1>4. approved = None
  <2>1. assignment[s] = None
    BY <1>0 DEF Workspace!MakesWorkspace
  <2>. QED BY <2>1 DEF Workspace!FilesFollow, Workspace!Judged
<1>5. Workspace!TypeOK'
  BY <1>0, <1>1, <1>3 DEF Workspace!TypeOK
<1>6. Workspace!FilesFollow'
  <2>1. sources # None /\ (~revised => op.read.query = authored.query)
    BY <1>0 DEF Workspace!MakesWorkspace
  <2>. QED BY <1>0, <1>1, <1>2, <1>4, <2>1 DEF Workspace!FilesFollow
<1>7. Workspace!PublishedAgrees' /\ Workspace!AuditHolds'
  BY <1>0, <1>3, PublishedFrame, NoAudit
<1>8. Workspace!MakesWorkspace'
  BY <1>0, <1>1, <1>2, <1>3 DEF Workspace!MakesWorkspace
<1>9. Workspace!HalvesAccounted'
  <2>1. op'.pc = "idle" => \A t \in Workspace!Slot : assignment'[t] # None
    BY <1>0, <1>1, <1>2, <1>3 DEF Workspace!MakesWorkspace
  <2>. QED BY <1>0, <1>3, <1>4, <2>1 DEF Workspace!HalvesAccounted, Workspace!Recording
<1>. QED BY <1>5, <1>6, <1>7, <1>8, <1>9

LEMMA FinishReviewKeeps ==
    ASSUME Workspace!WorkspaceInv, NEW s \in Workspace!Slot, NEW labels \in [Case -> Label],
           Workspace!FinishReview(s, labels)
    PROVE  Workspace!WorkspaceInv'
<1>. USE DEF Workspace!WorkspaceInv
<1>0. /\ assignment[s] # None /\ final[s] = None /\ final' = [final EXCEPT ![s] = labels]
      /\ UNCHANGED <<plan, authored, report, sources, assignment, decisions, ledger, summary,
                     approved, published, op, upsets, hurt, revised, raced, reaudited>>
  BY DEF Workspace!FinishReview, Workspace!outVars, Workspace!history
<1>1. labels \in Workspace!Reviews
  BY DEF Workspace!Reviews
<1>2. \A t \in Workspace!Slot : final'[t] = IF t = s THEN labels ELSE final[t]
  BY <1>0 DEF Workspace!TypeOK
<1>3. approved = None /\ op.pc \notin Workspace!Auditing
  BY <1>0 DEF Workspace!FilesFollow, Workspace!AuditHolds, Workspace!Judged
<1>4. Workspace!TypeOK'
  BY <1>0, <1>1 DEF Workspace!TypeOK
<1>5. Workspace!FilesFollow'
  BY <1>0, <1>2, <1>3 DEF Workspace!FilesFollow
<1>6. Workspace!PublishedAgrees'
  BY <1>0, PublishedFrame
<1>7. Workspace!AuditHolds'
  BY <1>0, <1>3 DEF Workspace!AuditHolds, Workspace!Auditing, Workspace!Recording
<1>8. Workspace!MakesWorkspace' /\ Workspace!HalvesAccounted'
  BY <1>0 DEF Workspace!MakesWorkspace, Workspace!HalvesAccounted
<1>. QED BY <1>4, <1>5, <1>6, <1>7, <1>8

LEMMA EditedCases ==
    ASSUME NEW a \in Workspace!Cases, NEW field \in {"query", "refs", "valid"}
    PROVE  (IF field = "valid" THEN [a EXCEPT !.valid = ~@] ELSE [a EXCEPT ![field] = @ + 1])
               \in Workspace!Cases
<1>1. CASE field = "valid"
  BY <1>1 DEF Workspace!Cases
<1>2. CASE field = "query"
  <2>1. [a EXCEPT !.query = @ + 1] \in Workspace!Cases
    BY DEF Workspace!Cases
  <2>. QED BY <1>2, <2>1
<1>3. CASE field = "refs"
  <2>1. [a EXCEPT !.refs = @ + 1] \in Workspace!Cases
    BY DEF Workspace!Cases
  <2>. QED BY <1>3, <2>1
<1>. QED BY <1>1, <1>2, <1>3

LEMMA EditAuthoredKeeps ==
    ASSUME Workspace!WorkspaceInv, NEW field \in {"query", "refs", "valid"},
           Workspace!EditAuthored(field)
    PROVE  Workspace!WorkspaceInv'
<1>. USE DEF Workspace!WorkspaceInv
<1>0. /\ authored # None /\ upsets' = upsets + 1
      /\ authored' = IF field = "valid" THEN [authored EXCEPT !.valid = ~@]
                     ELSE [authored EXCEPT ![field] = @ + 1]
      /\ revised' = (revised \/ sources # None) /\ raced' = (raced \/ op.pc = "checksum")
      /\ UNCHANGED <<plan, report, sources, assignment, final, decisions, ledger, summary,
                     approved, published, op, hurt, reaudited>>
  BY DEF Workspace!EditAuthored, Workspace!ByHand, Workspace!outVars
<1>1. authored' \in Workspace!Cases /\ authored' # None
  <2>1. authored \in Workspace!Cases
    BY <1>0 DEF Workspace!TypeOK
  <2>. QED BY <1>0, <2>1, EditedCases, NotNone
<1>2. /\ revised' \in BOOLEAN /\ (revised => revised') /\ (~revised' => sources = None)
      /\ raced' \in BOOLEAN /\ (raced => raced') /\ (op.pc = "checksum" => raced')
  BY <1>0 DEF Workspace!TypeOK
<1>3. Workspace!TypeOK'
  BY <1>0, <1>1, <1>2 DEF Workspace!TypeOK
<1>4. Workspace!FilesFollow'
  BY <1>0, <1>1, <1>2, JudgedStable DEF Workspace!FilesFollow
<1>5. Workspace!PublishedAgrees' /\ Workspace!AuditHolds'
  BY <1>0, <1>2, PublishedFrame, AuditFrame
<1>6. Workspace!MakesWorkspace'
  BY <1>0, <1>1, <1>2 DEF Workspace!MakesWorkspace
<1>7. Workspace!HalvesAccounted'
  BY <1>0, <1>1 DEF Workspace!HalvesAccounted
<1>. QED BY <1>3, <1>4, <1>5, <1>6, <1>7

LEMMA AdjudicateKeeps ==
    ASSUME Workspace!WorkspaceInv, NEW p \in Person, NEW labels \in [Case -> Label \cup {None}],
           Workspace!Adjudicate(p, labels)
    PROVE  Workspace!WorkspaceInv'
<1>. USE DEF Workspace!WorkspaceInv
<1>0. /\ upsets' = upsets + 1
      /\ decisions' = [c \in Case |-> IF labels[c] = None THEN decisions[c]
                                     ELSE [by |-> p, said |-> labels[c]]]
      /\ raced' = (raced \/ op.pc = "checksum")
      /\ UNCHANGED <<plan, authored, report, sources, assignment, final, ledger, summary,
                     approved, published, op, hurt, revised, reaudited>>
  BY DEF Workspace!Adjudicate, Workspace!ByHand, Workspace!outVars
<1>1. decisions' \in Workspace!Decisions
  <2>1. decisions \in Workspace!Decisions
    BY DEF Workspace!TypeOK
  <2>2. \A c \in Case : labels[c] # None => [by |-> p, said |-> labels[c]] \in [by : Person, said : Label]
    OBVIOUS
  <2>. QED BY <1>0, <2>1, <2>2 DEF Workspace!Decisions
<1>2. raced' \in BOOLEAN /\ (raced => raced') /\ (op.pc = "checksum" => raced')
  BY <1>0 DEF Workspace!TypeOK
<1>3. Workspace!TypeOK'
  BY <1>0, <1>1, <1>2 DEF Workspace!TypeOK
<1>4. Workspace!FilesFollow' /\ Workspace!PublishedAgrees' /\ Workspace!AuditHolds'
  BY <1>0, <1>2, FilesFrame, PublishedFrame, AuditFrame
<1>5. Workspace!MakesWorkspace' /\ Workspace!HalvesAccounted'
  BY <1>0 DEF Workspace!MakesWorkspace, Workspace!HalvesAccounted
<1>. QED BY <1>3, <1>4, <1>5

LEMMA AuditKeeps ==
    ASSUME Workspace!WorkspaceInv, NEW freeze \in BOOLEAN, Workspace!Audit(freeze)
    PROVE  Workspace!WorkspaceInv'
<1>. USE DEF Workspace!WorkspaceInv
<1>. DEFINE w == [pc |-> "checksum", freeze |-> freeze, read |-> Workspace!Inputs]
<1>0. /\ op.pc = "idle" /\ authored # None /\ sources # None
      /\ \A s \in Workspace!Slot : final[s] # None
      /\ Workspace!AuditAccepts(Workspace!Inputs) /\ op' = w
      /\ UNCHANGED <<plan, authored, report, sources, assignment, final, decisions, ledger,
                     summary, approved, published, upsets, hurt, revised, raced, reaudited>>
  BY DEF Workspace!Audit, Workspace!fileVars, Workspace!history
<1>1. /\ Workspace!Inputs \in Workspace!Evidence
      /\ Workspace!Inputs.authored = authored /\ Workspace!Inputs.reviews = final
  BY <1>0, InputsType
<1>2. w \in Workspace!Command /\ w.pc = "checksum" /\ w.read = Workspace!Inputs
  BY <1>1, CommandForms
<1>. HIDE DEF w
<1>3. op' \in Workspace!Command /\ op'.pc = "checksum" /\ op'.read = Workspace!Inputs
  BY <1>0, <1>2
<1>4. Workspace!TypeOK'
  BY <1>0, <1>3 DEF Workspace!TypeOK
<1>5. Workspace!FilesFollow' /\ Workspace!PublishedAgrees' /\ Workspace!MakesWorkspace'
  BY <1>0, <1>3, FilesFrame, PublishedFrame, NoMaking
<1>6. Workspace!AuditHolds'
  <2>1. Workspace!Judged(Workspace!Inputs)
    <3>1. ~revised => \A s \in Workspace!Slot : authored.query = assignment[s].query
      BY <1>0 DEF Workspace!FilesFollow
    <3>. QED BY <1>0, <1>1, <3>1 DEF Workspace!Judged
  <2>2. Workspace!Judged(op.read)'
    BY <1>0, <1>3, <2>1, JudgedStable
  <2>3. Workspace!Inputs' = Workspace!Inputs
    BY <1>0 DEF Workspace!Inputs
  <2>. QED BY <1>3, <2>2, <2>3 DEF Workspace!AuditHolds, Workspace!Recording
<1>7. Workspace!HalvesAccounted'
  BY <1>0, <1>3 DEF Workspace!HalvesAccounted, Workspace!Recording
<1>. QED BY <1>4, <1>5, <1>6, <1>7

LEMMA ChecksumInputsKeeps ==
    ASSUME Workspace!WorkspaceInv, Workspace!ChecksumInputs
    PROVE  Workspace!WorkspaceInv'
<1>. USE DEF Workspace!WorkspaceInv
<1>. DEFINE w(k, f) == [pc |-> k, freeze |-> f, read |-> op.read, sums |-> Workspace!Inputs]
<1>0. /\ op.pc = "checksum"
      /\ op' = CASE ~op.freeze -> w("record", FALSE)
                 [] op.freeze /\ Workspace!Ready(op.read) /\ approved = None /\ published = None ->
                       w("approve", TRUE)
                 [] OTHER -> Workspace!Idle
      /\ UNCHANGED <<plan, authored, report, sources, assignment, final, decisions, ledger,
                     summary, approved, published, upsets, hurt, revised, raced, reaudited>>
  BY DEF Workspace!ChecksumInputs, Workspace!fileVars, Workspace!history
<1>1. op.freeze \in BOOLEAN /\ op.read \in Workspace!Evidence /\ Workspace!Judged(op.read)
  BY <1>0, CommandFields DEF Workspace!Auditing, Workspace!AuditHolds
<1>2. Workspace!Inputs \in Workspace!Evidence
  BY <1>1, InputsType DEF Workspace!Judged, Workspace!FilesFollow, Workspace!Slot
<1>3. \A k \in {"record", "approve"}, f \in BOOLEAN :
        /\ w(k, f) \in Workspace!Command /\ w(k, f).pc = k /\ w(k, f).freeze = f
        /\ w(k, f).read = op.read /\ w(k, f).sums = Workspace!Inputs
  BY <1>1, <1>2, CommandForms DEF Workspace!Recording
<1>. HIDE DEF w
<1>4. /\ op' \in Workspace!Command
      /\ \/ op'.pc = "idle"
         \/ op'.pc = "record" /\ op'.freeze = FALSE /\ op'.read = op.read
         \/ /\ op'.pc = "approve" /\ op'.freeze = TRUE /\ op'.read = op.read
            /\ op'.sums = Workspace!Inputs
            /\ Workspace!Ready(op.read) /\ approved = None /\ published = None
  <2>1. CASE ~op.freeze
    BY <1>0, <1>3, <2>1
  <2>2. CASE op.freeze /\ Workspace!Ready(op.read) /\ approved = None /\ published = None
    BY <1>0, <1>3, <2>2
  <2>3. CASE op.freeze /\ ~(Workspace!Ready(op.read) /\ approved = None /\ published = None)
    BY <1>0, <2>3, CommandForms
  <2>. QED BY <1>1, <2>1, <2>2, <2>3
<1>5. Workspace!TypeOK'
  BY <1>0, <1>4, ZenonT(60) DEF Workspace!TypeOK
<1>6. Workspace!FilesFollow' /\ Workspace!PublishedAgrees' /\ Workspace!MakesWorkspace'
  BY <1>0, <1>4, FilesFrame, PublishedFrame, NoMaking
<1>7. Workspace!AuditHolds'
  <2>1. ~raced => Workspace!Inputs = op.read
    BY <1>0 DEF Workspace!AuditHolds
  <2>2. op'.read = op.read => Workspace!Judged(op.read)'
    BY <1>0, <1>1, JudgedStable
  <2>. QED BY <1>0, <1>4, <2>1, <2>2 DEF Workspace!AuditHolds, Workspace!Auditing, Workspace!Recording
<1>8. Workspace!HalvesAccounted'
  BY <1>0, <1>4 DEF Workspace!HalvesAccounted, Workspace!Recording
<1>. QED BY <1>5, <1>6, <1>7, <1>8

LEMMA ApproveKeeps ==
    ASSUME Workspace!WorkspaceInv, Workspace!Approve
    PROVE  Workspace!WorkspaceInv'
<1>. USE DEF Workspace!WorkspaceInv
<1>0. /\ op.pc = "approve" /\ approved' = op.read /\ op' = [op EXCEPT !.pc = "record"]
      /\ UNCHANGED <<plan, authored, report, sources, assignment, final, decisions, ledger,
                     summary, published, upsets, hurt, revised, raced, reaudited>>
  BY DEF Workspace!Approve, Workspace!history
<1>1. /\ op' \in Workspace!Command /\ op'.pc = "record" /\ op'.freeze = op.freeze
      /\ op'.read = op.read /\ op'.sums = op.sums
  BY <1>0, MovesOn DEF Workspace!Recording
<1>2. op.read \in Workspace!Evidence /\ op.read # None
  BY <1>0, CommandFields, NotNone DEF Workspace!Auditing
<1>3. /\ Workspace!Judged(op.read) /\ Workspace!Ready(op.read) /\ op.freeze
      /\ published = None /\ (~raced => op.sums = op.read)
  BY <1>0 DEF Workspace!AuditHolds, Workspace!Auditing
<1>4. Workspace!TypeOK'
  BY <1>0, <1>1, <1>2 DEF Workspace!TypeOK
<1>5. Workspace!FilesFollow'
  BY <1>0, <1>3, JudgedStable DEF Workspace!FilesFollow
<1>6. Workspace!PublishedAgrees'
  BY <1>0, <1>3 DEF Workspace!PublishedAgrees
<1>7. Workspace!MakesWorkspace'
  BY <1>1, NoMaking
<1>8. Workspace!AuditHolds'
  BY <1>0, <1>1, <1>3, JudgedStable DEF Workspace!AuditHolds, Workspace!Auditing, Workspace!Recording
<1>9. Workspace!HalvesAccounted'
  BY <1>0, <1>1, <1>3 DEF Workspace!HalvesAccounted, Workspace!Recording
<1>. QED BY <1>4, <1>5, <1>6, <1>7, <1>8, <1>9

LEMMA RecordLedgerKeeps ==
    ASSUME Workspace!WorkspaceInv, Workspace!RecordLedger
    PROVE  Workspace!WorkspaceInv'
<1>. USE DEF Workspace!WorkspaceInv
<1>0. /\ op.pc = "record" /\ ledger' = op.read /\ op' = [op EXCEPT !.pc = "summarise"]
      /\ reaudited' = (reaudited \/ (~op.freeze /\ approved # None))
      /\ UNCHANGED <<plan, authored, report, sources, assignment, final, decisions,
                     summary, approved, published, upsets, hurt, revised, raced>>
  BY DEF Workspace!RecordLedger
<1>1. /\ op' \in Workspace!Command /\ op'.pc = "summarise" /\ op'.freeze = op.freeze
      /\ op'.read = op.read /\ op'.sums = op.sums
  BY <1>0, MovesOn DEF Workspace!Recording
<1>2. op.read \in Workspace!Evidence
  BY <1>0, CommandFields DEF Workspace!Auditing, Workspace!Recording
<1>3. /\ Workspace!Judged(op.read)
      /\ op.freeze => approved = op.read /\ published = None /\ (~raced => op.sums = op.read)
  BY <1>0 DEF Workspace!AuditHolds, Workspace!Auditing, Workspace!Recording
<1>3a. /\ reaudited' \in BOOLEAN /\ (reaudited => reaudited')
       /\ ~op.freeze /\ approved # None => reaudited'
  BY <1>0 DEF Workspace!TypeOK
<1>4. Workspace!TypeOK'
  BY <1>0, <1>1, <1>2, <1>3a DEF Workspace!TypeOK
<1>5. Workspace!FilesFollow' /\ Workspace!MakesWorkspace'
  BY <1>0, <1>1, FilesFrame, NoMaking
<1>6. Workspace!PublishedAgrees'
  <2>1. published # None => approved # None
    BY DEF Workspace!FilesFollow
  <2>. QED BY <1>0, <1>3, <1>3a, <2>1 DEF Workspace!PublishedAgrees
<1>7. Workspace!AuditHolds'
  BY <1>0, <1>1, <1>3, <1>3a, JudgedStable DEF Workspace!AuditHolds, Workspace!Auditing, Workspace!Recording
<1>8. Workspace!HalvesAccounted'
  BY <1>0, <1>1 DEF Workspace!HalvesAccounted, Workspace!Recording
<1>. QED BY <1>4, <1>5, <1>6, <1>7, <1>8

LEMMA RecordSummaryKeeps ==
    ASSUME Workspace!WorkspaceInv, Workspace!RecordSummary
    PROVE  Workspace!WorkspaceInv'
<1>. USE DEF Workspace!WorkspaceInv
<1>0. /\ op.pc = "summarise"
      /\ summary' = [status |-> IF Workspace!Ready(op.read) THEN "ready_to_freeze"
                                ELSE "review_in_progress", sums |-> op.sums]
      /\ op' = IF op.freeze THEN [op EXCEPT !.pc = "seal"] ELSE Workspace!Idle
      /\ UNCHANGED <<plan, authored, report, sources, assignment, final, decisions, ledger,
                     approved, published, upsets, hurt, revised, raced, reaudited>>
  BY DEF Workspace!RecordSummary, Workspace!history
<1>1. op.freeze \in BOOLEAN /\ op.read \in Workspace!Evidence /\ op.sums \in Workspace!Evidence
  BY <1>0, CommandFields DEF Workspace!Auditing, Workspace!Recording
<1>2. /\ op' \in Workspace!Command
      /\ \/ ~op.freeze /\ op'.pc = "idle"
         \/ /\ op.freeze /\ op'.pc = "seal" /\ op'.freeze = op.freeze
            /\ op'.read = op.read /\ op'.sums = op.sums
  <2>1. CASE op.freeze
    BY <1>0, <2>1, MovesOn DEF Workspace!Recording
  <2>2. CASE ~op.freeze
    BY <1>0, <2>2, CommandForms
  <2>. QED BY <1>1, <2>1, <2>2
<1>3. /\ Workspace!Judged(op.read)
      /\ IF op.freeze THEN ledger = op.read ELSE approved # None => reaudited
      /\ op.freeze => approved = op.read /\ published = None /\ (~raced => op.sums = op.read)
  BY <1>0 DEF Workspace!AuditHolds, Workspace!Auditing, Workspace!Recording
<1>4. Workspace!TypeOK'
  <2>1. summary' \in Workspace!Summary
    BY <1>0, <1>1 DEF Workspace!Summary
  <2>. QED BY <1>0, <1>2, <2>1 DEF Workspace!TypeOK
<1>5. Workspace!FilesFollow' /\ Workspace!MakesWorkspace'
  BY <1>0, <1>2, FilesFrame, NoMaking
<1>6. Workspace!PublishedAgrees'
  <2>1. published # None => approved # None
    BY DEF Workspace!FilesFollow
  <2>. QED BY <1>0, <1>1, <1>3, <2>1 DEF Workspace!PublishedAgrees
<1>7. Workspace!AuditHolds'
  BY <1>0, <1>2, <1>3, JudgedStable DEF Workspace!AuditHolds, Workspace!Auditing, Workspace!Recording
<1>8. Workspace!HalvesAccounted'
  BY <1>0, <1>2 DEF Workspace!HalvesAccounted, Workspace!Recording
<1>. QED BY <1>4, <1>5, <1>6, <1>7, <1>8

LEMMA SealedType ==
    ASSUME Workspace!TypeOK, op.sums \in Workspace!Evidence, approved # None
    PROVE  /\ Workspace!Sealed \in Workspace!SealedSummary /\ Workspace!Sealed # None
           /\ Workspace!Sealed.sums = op.sums /\ Workspace!Sealed.approved = approved
BY NotNone DEF Workspace!TypeOK, Workspace!Sealed, Workspace!SealedSummary

LEMMA SealKeeps ==
    ASSUME Workspace!WorkspaceInv, Workspace!Seal
    PROVE  Workspace!WorkspaceInv'
<1>. USE DEF Workspace!WorkspaceInv
<1>0. /\ op.pc = "seal" /\ summary' = Workspace!Sealed /\ op' = [op EXCEPT !.pc = "publish"]
      /\ UNCHANGED <<plan, authored, report, sources, assignment, final, decisions, ledger,
                     approved, published, upsets, hurt, revised, raced, reaudited>>
  BY DEF Workspace!Seal, Workspace!history
<1>1. /\ op' \in Workspace!Command /\ op'.pc = "publish" /\ op'.freeze = op.freeze
      /\ op'.read = op.read /\ op'.sums = op.sums
  BY <1>0, MovesOn DEF Workspace!Recording
<1>2. op.read \in Workspace!Evidence /\ op.read # None /\ op.sums \in Workspace!Evidence
  BY <1>0, CommandFields, NotNone DEF Workspace!Auditing, Workspace!Recording
<1>3. /\ Workspace!Judged(op.read) /\ op.freeze /\ ledger = op.read
      /\ approved = op.read /\ published = None /\ (~raced => op.sums = op.read)
  BY <1>0 DEF Workspace!AuditHolds, Workspace!Auditing, Workspace!Recording
<1>4. Workspace!TypeOK'
  BY <1>0, <1>1, <1>2, <1>3, SealedType DEF Workspace!TypeOK, Workspace!Summary
<1>5. Workspace!FilesFollow' /\ Workspace!MakesWorkspace'
  BY <1>0, <1>1, FilesFrame, NoMaking
<1>6. Workspace!PublishedAgrees'
  BY <1>0, <1>3 DEF Workspace!PublishedAgrees
<1>7. Workspace!AuditHolds'
  <2>1. summary' = Workspace!Sealed'
    BY <1>0, <1>1 DEF Workspace!Sealed
  <2>. QED BY <1>0, <1>1, <1>3, <2>1, JudgedStable DEF Workspace!AuditHolds, Workspace!Auditing, Workspace!Recording
<1>8. Workspace!HalvesAccounted'
  BY <1>0, <1>1, <1>3 DEF Workspace!HalvesAccounted, Workspace!Recording
<1>. QED BY <1>4, <1>5, <1>6, <1>7, <1>8

LEMMA PublishSummaryKeeps ==
    ASSUME Workspace!WorkspaceInv, Workspace!PublishSummary
    PROVE  Workspace!WorkspaceInv'
<1>. USE DEF Workspace!WorkspaceInv
<1>0. /\ op.pc = "publish" /\ published' = Workspace!Sealed
      /\ op' \in Workspace!Command /\ op'.pc = "idle"
      /\ UNCHANGED <<plan, authored, report, sources, assignment, final, decisions, ledger,
                     summary, approved, upsets, hurt, revised, raced, reaudited>>
  BY CommandForms DEF Workspace!PublishSummary, Workspace!history
<1>1. op.read \in Workspace!Evidence /\ op.read # None /\ op.sums \in Workspace!Evidence
  BY <1>0, CommandFields, NotNone DEF Workspace!Auditing, Workspace!Recording
<1>2. /\ op.freeze /\ ledger = op.read /\ approved = op.read /\ summary = Workspace!Sealed
      /\ ~raced => op.sums = op.read
  BY <1>0 DEF Workspace!AuditHolds, Workspace!Recording
<1>3. /\ published' \in Workspace!SealedSummary /\ published' # None
      /\ published'.sums = op.sums /\ published'.approved = approved
  BY <1>0, <1>1, <1>2, SealedType
<1>4. Workspace!TypeOK'
  BY <1>0, <1>3 DEF Workspace!TypeOK
<1>5. Workspace!FilesFollow'
  BY <1>0, <1>1, <1>2, JudgedStable DEF Workspace!FilesFollow
<1>6. Workspace!PublishedAgrees'
  BY <1>0, <1>2, <1>3 DEF Workspace!PublishedAgrees
<1>7. Workspace!MakesWorkspace' /\ Workspace!AuditHolds'
  BY <1>0, NoMaking, NoAudit
<1>8. Workspace!HalvesAccounted'
  BY <1>0, <1>3 DEF Workspace!HalvesAccounted, Workspace!Recording
<1>. QED BY <1>4, <1>5, <1>6, <1>7, <1>8

LEMMA CommandFailsKeeps ==
    ASSUME Workspace!WorkspaceInv, Workspace!CommandFails
    PROVE  Workspace!WorkspaceInv'
<1>. USE DEF Workspace!WorkspaceInv
<1>0. /\ op.pc # "idle" /\ upsets' = upsets + 1
      /\ plan' = (IF op.pc = "init" THEN "absent" ELSE plan)
      /\ authored' = (IF op.pc = "draft" THEN None ELSE authored)
      /\ hurt' = hurt \cup ({op.pc} \cap {"prepare", "record", "summarise", "seal", "publish"})
      /\ op' \in Workspace!Command /\ op'.pc = "idle"
      /\ UNCHANGED <<report, sources, assignment, final, decisions, ledger, summary, approved,
                     published, revised, raced, reaudited>>
  BY CommandForms DEF Workspace!CommandFails, Workspace!outVars
<1>1. op.pc = "draft" => /\ report = None /\ sources = None
                         /\ \A s \in Workspace!Slot : assignment[s] = None
  BY DEF Workspace!MakesWorkspace, Workspace!FilesFollow
<1>2. Workspace!TypeOK'
  BY <1>0 DEF Workspace!TypeOK
<1>3. Workspace!FilesFollow'
  BY <1>0, <1>1, JudgedStable DEF Workspace!FilesFollow
<1>4. Workspace!PublishedAgrees' /\ Workspace!MakesWorkspace' /\ Workspace!AuditHolds'
  BY <1>0, PublishedFrame, NoMaking, NoAudit
<1>5. Workspace!HalvesAccounted'
  <2>1. hurt \subseteq hurt' /\ (op.pc \in {"prepare"} \cup Workspace!Recording => op.pc \in hurt')
    BY <1>0 DEF Workspace!Recording
  <2>2. plan' = "partial" => "init" \in hurt'
    BY <1>0, <2>1 DEF Workspace!HalvesAccounted
  <2>3. (authored' = None) # (report' = None) => "draft" \in hurt'
    BY <1>0, <1>1, <2>1 DEF Workspace!HalvesAccounted
  <2>4. sources' # None /\ (\E s \in Workspace!Slot : assignment'[s] = None) => "prepare" \in hurt'
    BY <1>0, <2>1 DEF Workspace!HalvesAccounted
  <2>5. approved' # None /\ published' = None => hurt' \cap Workspace!Recording # {}
    BY <1>0, <2>1 DEF Workspace!HalvesAccounted
  <2>. QED BY <2>2, <2>3, <2>4, <2>5 DEF Workspace!HalvesAccounted, Workspace!Recording
<1>. QED BY <1>2, <1>3, <1>4, <1>5

LEMMA CommandDiesKeeps ==
    ASSUME Workspace!WorkspaceInv, Workspace!CommandDies
    PROVE  Workspace!WorkspaceInv'
<1>. USE DEF Workspace!WorkspaceInv
<1>0. /\ op.pc # "idle" /\ upsets' = upsets + 1
      /\ hurt' = hurt \cup ({op.pc} \cap {"init", "draft", "prepare", "record", "summarise", "seal", "publish"})
      /\ op' \in Workspace!Command /\ op'.pc = "idle"
      /\ UNCHANGED <<plan, authored, report, sources, assignment, final, decisions, ledger,
                     summary, approved, published, revised, raced, reaudited>>
  BY CommandForms DEF Workspace!CommandDies, Workspace!fileVars
<1>1. Workspace!TypeOK'
  BY <1>0 DEF Workspace!TypeOK
<1>2. /\ Workspace!FilesFollow' /\ Workspace!PublishedAgrees' /\ Workspace!MakesWorkspace'
      /\ Workspace!AuditHolds'
  BY <1>0, FilesFrame, PublishedFrame, NoMaking, NoAudit
<1>3. Workspace!HalvesAccounted'
  <2>1. /\ hurt \subseteq hurt'
        /\ op.pc \in {"init", "draft", "prepare"} \cup Workspace!Recording => op.pc \in hurt'
    BY <1>0 DEF Workspace!Recording
  <2>. QED BY <1>0, <2>1 DEF Workspace!HalvesAccounted, Workspace!Recording
<1>. QED BY <1>1, <1>2, <1>3

\* The inductive invariant of the workspace commands, for any cases, labels, persons and
\* number of edits, crashes and failed writes.
THEOREM WorkspaceInvariant == Workspace!Spec => []Workspace!WorkspaceInv
<1>1. Workspace!Init => Workspace!WorkspaceInv
  <2>. SUFFICES ASSUME Workspace!Init PROVE Workspace!WorkspaceInv
    OBVIOUS
  <2>1. /\ plan = "absent" /\ authored = None /\ report = None /\ sources = None
        /\ assignment = [s \in Workspace!Slot |-> None] /\ final = [s \in Workspace!Slot |-> None]
        /\ decisions = [c \in Case |-> None] /\ ledger = None /\ summary = None /\ approved = None
        /\ published = None /\ upsets = 0 /\ revised = FALSE /\ raced = FALSE /\ reaudited = FALSE
        /\ op \in Workspace!Command /\ op.pc = "idle"
    BY CommandForms DEF Workspace!Init, Workspace!NoLabels
  <2>2. Workspace!TypeOK
    <3>1. revised \in BOOLEAN /\ raced \in BOOLEAN /\ reaudited \in BOOLEAN
      BY <2>1
    <3>. QED BY <2>1, <3>1 DEF Workspace!TypeOK, Workspace!Decisions
  <2>3. /\ Workspace!FilesFollow /\ Workspace!PublishedAgrees /\ Workspace!MakesWorkspace
        /\ Workspace!AuditHolds /\ Workspace!HalvesAccounted
    BY <2>1 DEF Workspace!FilesFollow, Workspace!PublishedAgrees, Workspace!MakesWorkspace,
       Workspace!AuditHolds, Workspace!HalvesAccounted, Workspace!Auditing, Workspace!Recording
  <2>. QED BY <2>2, <2>3 DEF Workspace!WorkspaceInv
<1>2. Workspace!WorkspaceInv /\ [Workspace!Next]_Workspace!vars => Workspace!WorkspaceInv'
  <2>. SUFFICES ASSUME Workspace!WorkspaceInv, [Workspace!Next]_Workspace!vars
                PROVE  Workspace!WorkspaceInv'
    OBVIOUS
  <2>1. CASE Workspace!Next
    BY <2>1, InitializeWorkspaceKeeps, FinishInitKeeps, DraftKeeps, FinishDraftKeeps, PrepareKeeps,
       DistributeKeeps, FinishReviewKeeps, EditAuthoredKeeps, AdjudicateKeeps, AuditKeeps,
       ChecksumInputsKeeps, ApproveKeeps, RecordLedgerKeeps, RecordSummaryKeeps, SealKeeps,
       PublishSummaryKeeps, CommandFailsKeeps, CommandDiesKeeps DEF Workspace!Next
  <2>2. CASE UNCHANGED Workspace!vars
    <3>1. UNCHANGED <<plan, authored, report, sources, assignment, final, decisions, ledger,
                      summary, approved, published, op, upsets, hurt, revised, raced, reaudited>>
      BY <2>2 DEF Workspace!vars, Workspace!fileVars, Workspace!history
    <3>2. Workspace!FilesFollow' /\ Workspace!PublishedAgrees' /\ Workspace!AuditHolds'
      BY <3>1, FilesFrame, PublishedFrame, AuditFrame DEF Workspace!WorkspaceInv
    <3>3. Workspace!TypeOK' /\ Workspace!MakesWorkspace' /\ Workspace!HalvesAccounted'
      BY <3>1 DEF Workspace!WorkspaceInv, Workspace!TypeOK, Workspace!MakesWorkspace,
         Workspace!HalvesAccounted
    <3>. QED BY <3>2, <3>3 DEF Workspace!WorkspaceInv
  <2>. QED BY <2>1, <2>2
<1>. QED BY <1>1, <1>2, PTL DEF Workspace!Spec

\* Approved cases rest on two complete reviews by different persons, neither the author,
\* and on fitting decisions of a third, whatever was edited, interrupted or run again
\* (Audit, validateReviewSet, validateAdjudication, FreezeApprovedCases).
THEOREM ApprovalIsEarned == Workspace!Spec => []ApprovedEarned
<1>1. Workspace!WorkspaceInv => ApprovedEarned
  <2>. SUFFICES ASSUME Workspace!WorkspaceInv, approved # None PROVE ApprovedEarned
    BY DEF ApprovedEarned, Workspace!ApprovedEarned
  <2>. DEFINE a == assignment["reviewer_a"].reviewer
              b == assignment["reviewer_b"].reviewer
              taken == Workspace!Reviewers \cup {Workspace!Author(approved)}
  <2>1. Workspace!Judged(approved) /\ Workspace!Ready(approved)
    BY DEF Workspace!WorkspaceInv, Workspace!FilesFollow
  <2>2. Workspace!Reviewers = {a, b}
    BY DEF Workspace!Reviewers, Workspace!Slot
  <2>3. a # b /\ a # Workspace!Author(approved) /\ b # Workspace!Author(approved)
    BY <2>1 DEF Workspace!Judged, Workspace!AuditAccepts, Workspace!ReviewSetValid, Workspace!Slot
  <2>4. a # b /\ Workspace!Author(approved) \notin Workspace!Reviewers
    BY <2>2, <2>3
  <2>5. \A c \in Case : LET d == approved.decisions[c]
                        IN  d # None /\ Workspace!FinalSemantics(c, d.said) /\ d.by \notin taken
    BY <2>1 DEF Workspace!Judged, Workspace!AuditAccepts, Workspace!Ready, Workspace!Complete,
       Workspace!AdjudicationValid
  <2>6. /\ \A s \in Workspace!Slot : approved.reviews[s] = final[s]
        /\ ~revised => \A s \in Workspace!Slot : approved.authored.query = assignment[s].query
    BY <2>1 DEF Workspace!Judged
  <2>. QED BY <2>4, <2>5, <2>6 DEF ApprovedEarned, Workspace!ApprovedEarned
<1>. QED BY <1>1, WorkspaceInvariant, PTL

\* The published summary, the approved cases, the ledger and the private summary agree,
\* and half of a set of files is left behind by an interruption only
\* (WriteAuditArtifacts, FreezeApprovedCases, cmd/benchmarkreview).
THEOREM WorkspaceFitsTogether == Workspace!Spec => []WorkspaceConsistent
<1>1. Workspace!WorkspaceInv => WorkspaceConsistent
  <2>. SUFFICES ASSUME Workspace!WorkspaceInv PROVE Workspace!NeverHalfDone
    BY DEF WorkspaceConsistent, Workspace!WorkspaceConsistent, Workspace!WorkspaceInv
  <2>. QED BY DEF Workspace!WorkspaceInv, Workspace!HalvesAccounted, Workspace!NeverHalfDone,
                  Workspace!Recording
<1>. QED BY <1>1, WorkspaceInvariant, PTL

-----------------------------------------------------------------------------
(* SimulationRun *)

LEMMA ProcessFields ==
    ASSUME Simulation!TypeOK, sim # Simulation!Off
    PROVE  sim \in Simulation!Running
BY DEF Simulation!TypeOK

LEMMA RunningIsNotOff == \A r \in Simulation!Running : r # Simulation!Off
BY DEF Simulation!Running, Simulation!Off

LEMMA LinkedAppend ==
    ASSUME NEW events \in Seq(Simulation!Event), NEW e \in Simulation!Event,
           Simulation!Linked(events), e.sequence = 1 <=> e.state = "feed_impression",
           events # <<>> => Simulation!Follows(events[Len(events)], e.session, e.sequence)
    PROVE  /\ Append(events, e) \in Seq(Simulation!Event) /\ Append(events, e) # <<>>
           /\ Len(Append(events, e)) = Len(events) + 1
           /\ Append(events, e)[Len(events) + 1] = e
           /\ Simulation!Linked(Append(events, e))
<1>. DEFINE a == Append(events, e)
<1>1. /\ a \in Seq(Simulation!Event) /\ a # <<>> /\ Len(a) = Len(events) + 1
      /\ a[Len(events) + 1] = e /\ Len(events) \in Nat
      /\ \A i \in 1..Len(events) : a[i] = events[i]
  BY AppendProperties, LenProperties
<1>. HIDE DEF a
<1>2. Simulation!Linked(a)
  <2>. SUFFICES ASSUME NEW i \in 1..Len(a)
                PROVE  /\ a[i].sequence = 1 <=> a[i].state = "feed_impression"
                       /\ i < Len(a) => Simulation!Follows(a[i], a[i + 1].session, a[i + 1].sequence)
    BY DEF Simulation!Linked
  <2>1. CASE i = Len(events) + 1
    BY <1>1, <2>1
  <2>2. CASE i < Len(events)
    BY <1>1, <2>2 DEF Simulation!Linked
  <2>3. CASE i = Len(events)
    BY <1>1, <2>3 DEF Simulation!Linked
  <2>. QED BY <1>1, <2>1, <2>2, <2>3
<1>. QED BY <1>1, <1>2 DEF a

LEMMA LinkedIsWhole ==
    ASSUME NEW events \in Seq(Simulation!Event), Simulation!Linked(events), events # <<>>,
           events[Len(events)].state = "session_exited"
    PROVE  Simulation!WholeSessions(events)
<1>1. DOMAIN events = 1..Len(events) /\ Len(events) \in Nat
  OBVIOUS
<1>2. ASSUME NEW i \in 1..Len(events)
      PROVE  LET e == events[i]
                 last == i = Len(events)
             IN  /\ e.sequence = 1 <=> e.state = "feed_impression"
                 /\ IF e.state = "session_exited"
                    THEN last \/ (events[i + 1].session = e.session + 1 /\ events[i + 1].sequence = 1)
                    ELSE ~last /\ events[i + 1].session = e.session
                               /\ events[i + 1].sequence = e.sequence + 1
  <2>1. CASE i = Len(events)
    BY <2>1 DEF Simulation!Linked
  <2>2. CASE i < Len(events)
    BY <2>2 DEF Simulation!Linked, Simulation!Follows
  <2>3. i = Len(events) \/ i < Len(events)
    BY <1>1
  <2>. QED BY <2>1, <2>2, <2>3
<1>. QED BY <1>1, <1>2 DEF Simulation!WholeSessions

\* What a process that has ended leaves in its directory.
LEMMA LeftType ==
    ASSUME NEW d \in Simulation!Output \cup {None}
    PROVE  /\ Simulation!Left(d) \in Simulation!Output \cup {None}
           /\ d \in Simulation!Output => /\ Simulation!Left(d) \in Simulation!Output
                                         /\ Simulation!Left(d).report = d.report
           /\ d # None /\ d.report = "final" => Simulation!Left(d) = d
<1>1. CASE d = None \/ d.report = "final"
  BY <1>1 DEF Simulation!Left
<1>2. CASE d # None /\ d.report # "final"
  <2>. DEFINE e == [d EXCEPT !.written = <<>>, !.reported = 0]
  <2>0. d \in Simulation!Output /\ <<>> \in Seq(Simulation!Event)
    BY <1>2
  <2>1. e \in Simulation!Output /\ e.report = d.report
    BY <2>0 DEF Simulation!Output
  <2>. QED BY <1>2, <2>1 DEF Simulation!Left
<1>. QED BY <1>1, <1>2

\* The process is gone, and the directory honest.
LEMMA OffKeeps ==
    ASSUME Simulation!SimulationInv, sim' = Simulation!Off, dir' \in Simulation!Output \cup {None},
           Simulation!HonestOutput(dir'), UNCHANGED stored, attempts' \in Nat
    PROVE  Simulation!SimulationInv'
<1>1. Simulation!TypeOK'
  BY DEF Simulation!SimulationInv, Simulation!TypeOK
<1>2. Simulation!SessionControl' /\ Simulation!FilesKept'
  BY DEF Simulation!SessionControl, Simulation!FilesKept, Simulation!Off
<1>3. Simulation!SimulationHonest'
  BY DEF Simulation!SimulationInv, Simulation!SimulationHonest
<1>. QED BY <1>1, <1>2, <1>3 DEF Simulation!SimulationInv

LEMMA AbortKeeps ==
    ASSUME Simulation!SimulationInv, NEW output \in Simulation!Output \cup {None},
           Simulation!HonestOutput(output), Simulation!Abort(output),
           sim.files => output # None /\ (output.report = "final" => output.db),
           UNCHANGED <<stored, attempts>>
    PROVE  Simulation!SimulationInv'
<1>1. sim' = Simulation!Off /\ attempts' \in Nat
  BY DEF Simulation!Abort, Simulation!SimulationInv, Simulation!TypeOK
<1>2. CASE ~sim.files
  BY <1>1, <1>2, OffKeeps DEF Simulation!Abort
<1>3. CASE sim.files
  <2>. DEFINE d == Simulation!Left(output)
  <2>1. /\ output \in Simulation!Output /\ d \in Simulation!Output /\ d.report = output.report
        /\ output.report = "final" => d = output
    BY <1>3, LeftType
  <2>2. dir' = [d EXCEPT !.failure = TRUE]
    BY <1>3 DEF Simulation!Abort
  <2>. HIDE DEF d
  <2>3. /\ dir' \in Simulation!Output /\ dir'.report = d.report /\ dir'.profiles = d.profiles
        /\ dir'.events = d.events /\ dir'.written = d.written /\ dir'.reported = d.reported
        /\ dir'.db = d.db
    BY <2>1, <2>2 DEF Simulation!Output
  <2>4. Simulation!HonestOutput(dir')
    BY <1>3, <2>1, <2>3 DEF Simulation!HonestOutput
  <2>. QED BY <1>1, <2>3, <2>4, OffKeeps
<1>. QED BY <1>2, <1>3

LEMMA EmptyOutput ==
    ASSUME NEW b \in BOOLEAN
    PROVE  LET fresh == [Simulation!Empty EXCEPT !.db = b]
               spoiled == [Simulation!Empty EXCEPT !.failure = TRUE, !.db = TRUE]
           IN  /\ fresh \in Simulation!Output /\ fresh # None /\ fresh.report = "absent"
               /\ fresh.written = <<>> /\ ~fresh.failure /\ fresh.db = b
               /\ spoiled \in Simulation!Output /\ spoiled.report = "absent"
<1>. DEFINE fresh == [Simulation!Empty EXCEPT !.db = b]
            spoiled == [Simulation!Empty EXCEPT !.failure = TRUE, !.db = TRUE]
<1>1. <<>> \in Seq(Simulation!Event)
  OBVIOUS
<1>2. /\ fresh \in Simulation!Output /\ fresh.report = "absent" /\ fresh.written = <<>>
      /\ fresh.failure = FALSE /\ fresh.db = b
  BY <1>1 DEF Simulation!Empty, Simulation!Output
<1>3. spoiled \in Simulation!Output /\ spoiled.report = "absent"
  BY <1>1 DEF Simulation!Empty, Simulation!Output
<1>. QED BY <1>2, <1>3, SimulationConstants

LEMMA StartRunKeeps ==
    ASSUME Simulation!SimulationInv, NEW files \in BOOLEAN, NEW db \in BOOLEAN,
           NEW replace \in BOOLEAN, Simulation!Start(files, db, replace)
    PROVE  Simulation!SimulationInv'
<1>. DEFINE w == [pc |-> "profiles", files |-> files, db |-> db, batch |-> <<>>,
                  session |-> 1, sequence |-> 1, state |-> "feed_impression", comments |-> FALSE]
            spoiled == [Simulation!Empty EXCEPT !.failure = TRUE, !.db = TRUE]
            fresh == [Simulation!Empty EXCEPT !.db = db]
<1>0. /\ sim = Simulation!Off /\ attempts' \in Nat /\ stored' = stored
      /\ dir \in Simulation!Output \cup {None} /\ Simulation!HonestOutput(dir)
  BY DEF Simulation!Start, Simulation!SimulationInv, Simulation!TypeOK, Simulation!SimulationHonest
<1>1. /\ spoiled \in Simulation!Output /\ spoiled.report = "absent"
      /\ fresh \in Simulation!Output /\ fresh # None /\ fresh.report = "absent"
      /\ fresh.written = <<>> /\ ~fresh.failure /\ fresh.db = db
  BY EmptyOutput
<1>2. \/ sim' = sim /\ (dir' = dir \/ dir' = spoiled)
      \/ sim' = w /\ dir' = (IF files THEN fresh ELSE dir)
  BY DEF Simulation!Start
<1>. HIDE DEF spoiled, fresh
<1>3. CASE sim' = sim
  <2>1. dir' = dir \/ dir' = spoiled
    <3>1. w.pc # Simulation!Off.pc
      BY DEF Simulation!Off
    <3>. QED BY <1>0, <1>2, <1>3, <3>1
  <2>2. dir' \in Simulation!Output \cup {None} /\ Simulation!HonestOutput(dir')
    BY <1>0, <1>1, <2>1 DEF Simulation!HonestOutput
  <2>. QED BY <1>0, <1>3, <2>2, OffKeeps
<1>4. CASE sim' = w /\ dir' = (IF files THEN fresh ELSE dir)
  <2>1. 1 \in 1..Sessions /\ 1 \in 1..MaxSteps /\ 1 # MaxSteps
    BY SimulationConstants
  <2>2. w \in Simulation!Running
    BY <2>1 DEF Simulation!Running, Simulation!State
  <2>3. /\ w.pc = "profiles" /\ w.session = 1 /\ w.sequence = 1 /\ w.state = "feed_impression"
        /\ w.files = files /\ w.db = db
    OBVIOUS
  <2>. HIDE DEF w
  <2>4. dir' \in Simulation!Output \cup {None} /\ Simulation!HonestOutput(dir')
    BY <1>0, <1>1, <1>4 DEF Simulation!HonestOutput
  <2>5. Simulation!TypeOK'
    BY <1>0, <1>4, <2>2, <2>4 DEF Simulation!TypeOK, Simulation!SimulationInv
  <2>6. Simulation!SessionControl'
    BY <1>4, <2>1, <2>3 DEF Simulation!SessionControl, Simulation!Generating
  <2>7. Simulation!FilesKept'
    <3>1. Simulation!Linked(<<>>)
      BY DEF Simulation!Linked
    <3>. QED BY <1>1, <1>4, <2>3, <3>1 DEF Simulation!FilesKept, Simulation!Generating
  <2>8. Simulation!SimulationHonest'
    BY <1>0, <2>4 DEF Simulation!SimulationHonest, Simulation!SimulationInv
  <2>. QED BY <2>5, <2>6, <2>7, <2>8 DEF Simulation!SimulationInv
<1>. QED BY <1>2, <1>3, <1>4

LEMMA WriteProfilesKeeps ==
    ASSUME Simulation!SimulationInv, NEW c \in BOOLEAN, Simulation!WriteProfiles(c)
    PROVE  Simulation!SimulationInv'
<1>1. /\ sim \in Simulation!Running /\ sim # Simulation!Off /\ sim.pc = "profiles"
      /\ sim' = [sim EXCEPT !.pc = "events", !.comments = c]
      /\ UNCHANGED <<dir, stored, attempts>>
  BY ProcessFields DEF Simulation!WriteProfiles, Simulation!SimulationInv
<1>2. /\ sim' \in Simulation!Running /\ sim'.pc = "events" /\ sim'.files = sim.files
      /\ sim'.db = sim.db /\ sim'.session = sim.session /\ sim'.sequence = sim.sequence
      /\ sim'.state = sim.state
  BY <1>1 DEF Simulation!Running
<1>3. Simulation!TypeOK'
  BY <1>1, <1>2 DEF Simulation!TypeOK, Simulation!SimulationInv
<1>4. Simulation!SessionControl'
  BY <1>1, <1>2 DEF Simulation!SessionControl, Simulation!Generating, Simulation!SimulationInv
<1>5. Simulation!FilesKept'
  BY <1>1, <1>2 DEF Simulation!FilesKept, Simulation!Generating, Simulation!SimulationInv
<1>6. Simulation!SimulationHonest'
  BY <1>1 DEF Simulation!SimulationHonest, Simulation!SimulationInv
<1>. QED BY <1>3, <1>4, <1>5, <1>6 DEF Simulation!SimulationInv

LEMMA WriteReportKeeps ==
    ASSUME Simulation!SimulationInv, Simulation!WriteReport
    PROVE  Simulation!SimulationInv'
<1>. DEFINE d == [dir EXCEPT !.report = "tmp", !.reported = Len(dir.written)]
<1>1. /\ sim \in Simulation!Running /\ sim # Simulation!Off /\ sim.pc = "close"
      /\ sim' = [sim EXCEPT !.pc = IF sim.files THEN "profiles.ndjson" ELSE "commit"]
      /\ dir' = (IF sim.files THEN d ELSE dir)
      /\ UNCHANGED <<stored, attempts>>
  BY ProcessFields DEF Simulation!WriteReport, Simulation!SimulationInv
<1>2. /\ sim' \in Simulation!Running
      /\ sim'.pc = (IF sim.files THEN "profiles.ndjson" ELSE "commit") /\ sim'.files = sim.files
      /\ sim'.db = sim.db /\ sim'.session = sim.session /\ sim'.sequence = sim.sequence
      /\ sim'.state = sim.state /\ sim'.batch = sim.batch
  BY <1>1 DEF Simulation!Running
<1>2a. sim' # Simulation!Off
  BY <1>2, RunningIsNotOff
<1>3. sim.files => /\ d \in Simulation!Output /\ d.report = "tmp" /\ d.written = dir.written
                   /\ d.reported = Len(d.written) /\ d.failure = dir.failure /\ d.db = dir.db
  <2>. SUFFICES ASSUME sim.files PROVE dir \in Simulation!Output /\ Len(dir.written) \in Nat
    BY DEF Simulation!Output
  <2>1. dir \in Simulation!Output
    BY <1>1 DEF Simulation!TypeOK, Simulation!FilesKept, Simulation!SimulationInv
  <2>. QED BY <2>1, LenProperties DEF Simulation!Output
<1>. HIDE DEF d
<1>4. Simulation!TypeOK'
  BY <1>1, <1>2, <1>3 DEF Simulation!TypeOK, Simulation!SimulationInv
<1>5. Simulation!SessionControl'
  BY <1>1, <1>2 DEF Simulation!SessionControl, Simulation!Generating, Simulation!SimulationInv
<1>6. Simulation!FilesKept'
  <2>. SUFFICES ASSUME sim.files PROVE Simulation!FilesKept'
    BY <1>2 DEF Simulation!FilesKept
  <2>1. d # None
    BY <1>3, SimulationConstants
  <2>. QED BY <1>1, <1>2, <1>3, <2>1 DEF Simulation!FilesKept, Simulation!Generating, Simulation!SimulationInv
<1>7. Simulation!SimulationHonest'
  BY <1>1, <1>3 DEF Simulation!SimulationHonest, Simulation!HonestOutput, Simulation!SimulationInv
<1>. QED BY <1>4, <1>5, <1>6, <1>7 DEF Simulation!SimulationInv

LEMMA RenameOutputKeeps ==
    ASSUME Simulation!SimulationInv, Simulation!RenameOutput
    PROVE  Simulation!SimulationInv'
<1>1. /\ sim \in Simulation!Running /\ sim # Simulation!Off /\ UNCHANGED <<stored, attempts>>
      /\ \/ sim.pc = "profiles.ndjson" /\ dir' = [dir EXCEPT !.profiles = "final"]
            /\ sim' = [sim EXCEPT !.pc = "events.ndjson"]
         \/ sim.pc = "events.ndjson" /\ dir' = [dir EXCEPT !.events = "final"]
            /\ sim' = [sim EXCEPT !.pc = "report.json"]
         \/ sim.pc = "report.json" /\ dir' = [dir EXCEPT !.report = "final"]
            /\ sim' = [sim EXCEPT !.pc = "commit"]
  BY ProcessFields DEF Simulation!RenameOutput, Simulation!SimulationInv
<1>2. /\ sim' \in Simulation!Running /\ sim'.files = sim.files
      /\ sim'.db = sim.db /\ sim'.session = sim.session /\ sim'.sequence = sim.sequence
      /\ sim'.state = sim.state /\ sim'.batch = sim.batch
      /\ \/ sim.pc = "profiles.ndjson" /\ sim'.pc = "events.ndjson"
         \/ sim.pc = "events.ndjson" /\ sim'.pc = "report.json"
         \/ sim.pc = "report.json" /\ sim'.pc = "commit"
  BY <1>1 DEF Simulation!Running
<1>3. sim.files
  BY <1>1 DEF Simulation!SessionControl, Simulation!SimulationInv
<1>4. dir \in Simulation!Output
  BY <1>1, <1>3 DEF Simulation!TypeOK, Simulation!FilesKept, Simulation!SimulationInv
<1>5. /\ dir' \in Simulation!Output /\ dir'.written = dir.written /\ dir'.reported = dir.reported
      /\ dir'.failure = dir.failure /\ dir'.db = dir.db
      /\ dir'.profiles = (IF sim.pc = "profiles.ndjson" THEN "final" ELSE dir.profiles)
      /\ dir'.events = (IF sim.pc = "events.ndjson" THEN "final" ELSE dir.events)
      /\ dir'.report = (IF sim.pc = "report.json" THEN "final" ELSE dir.report)
  BY <1>1, <1>4 DEF Simulation!Output
<1>6. Simulation!TypeOK'
  BY <1>1, <1>2, <1>5 DEF Simulation!TypeOK, Simulation!SimulationInv
<1>7. Simulation!SessionControl'
  BY <1>1, <1>2, <1>3 DEF Simulation!SessionControl, Simulation!Generating, Simulation!SimulationInv
<1>8. Simulation!FilesKept'
  <2>1. dir' # None
    BY <1>5, SimulationConstants
  <2>. QED BY <1>1, <1>2, <1>3, <1>5, <2>1 DEF Simulation!FilesKept, Simulation!Generating, Simulation!SimulationInv
<1>9. Simulation!SimulationHonest'
  <2>. SUFFICES ASSUME dir'.report = "final" PROVE Simulation!HonestOutput(dir')
    BY <1>1 DEF Simulation!SimulationHonest, Simulation!HonestOutput, Simulation!SimulationInv
  <2>1. sim.pc = "report.json"
    BY <1>1, <1>2, <1>3, <1>5 DEF Simulation!FilesKept, Simulation!SimulationInv
  <2>2. /\ dir.profiles = "final" /\ dir.events = "final" /\ ~dir.failure
        /\ dir.written # <<>> /\ dir.written[Len(dir.written)].session = Sessions
        /\ Simulation!WholeSessions(dir.written) /\ dir.reported = Len(dir.written)
    <3>1. dir.written \in Seq(Simulation!Event)
      BY <1>4 DEF Simulation!Output
    <3>. QED BY <1>1, <1>3, <2>1, <3>1, LinkedIsWhole DEF Simulation!FilesKept,
                Simulation!Generating, Simulation!SimulationInv
  <2>. QED BY <1>5, <2>1, <2>2 DEF Simulation!HonestOutput
<1>. QED BY <1>6, <1>7, <1>8, <1>9 DEF Simulation!SimulationInv

\* What is flushed names project 0, which is none.
LEMMA FlushFails ==
    ASSUME NEW batch \in Seq(Simulation!Event), batch # <<>>
    PROVE  ~Simulation!FlushEvents(batch)
<1>1. 1 \in DOMAIN batch /\ batch[1] \in Simulation!Event
  BY EmptySeq, LenProperties, ElementOfSeq
<1>. QED BY <1>1, SimulationConstants DEF Simulation!FlushEvents, Simulation!Event

LEMMA CommitRunKeeps ==
    ASSUME Simulation!SimulationInv, Simulation!CommitRun
    PROVE  Simulation!SimulationInv'
<1>1. /\ sim \in Simulation!Running /\ sim # Simulation!Off /\ sim.pc = "commit"
      /\ attempts' = attempts /\ attempts \in Nat /\ dir \in Simulation!Output \cup {None}
      /\ Simulation!HonestOutput(dir) /\ sim.db \in BOOLEAN /\ sim.files \in BOOLEAN
  BY ProcessFields DEF Simulation!CommitRun, Simulation!SimulationInv, Simulation!TypeOK,
     Simulation!SimulationHonest, Simulation!Running
<1>2. CASE sim.db
  <2>1. ~Simulation!FlushEvents(sim.batch)
    <3>1. sim.batch \in Seq(Simulation!Event)
      BY <1>1 DEF Simulation!Running
    <3>2. sim.batch # <<>>
      BY <1>1, <1>2 DEF Simulation!SessionControl, Simulation!Generating, Simulation!SimulationInv
    <3>. QED BY <3>1, <3>2, FlushFails
  <2>2. Simulation!Abort(dir) /\ stored' = stored
    BY <1>2, <2>1 DEF Simulation!CommitRun
  <2>3. sim.files => dir # None /\ dir.db
    BY <1>1, <1>2 DEF Simulation!FilesKept, Simulation!SimulationInv
  <2>. QED BY <1>1, <2>2, <2>3, AbortKeeps
<1>3. CASE ~sim.db
  <2>1. sim' = Simulation!Off /\ dir' = dir /\ stored' = stored
    BY <1>3 DEF Simulation!CommitRun
  <2>. QED BY <1>1, <2>1, OffKeeps
<1>. QED BY <1>1, <1>2, <1>3

LEMMA SimulationFailsKeeps ==
    ASSUME Simulation!SimulationInv, Simulation!SimulationFails
    PROVE  Simulation!SimulationInv'
<1>1. /\ sim # Simulation!Off /\ (sim.pc = "commit" => sim.db) /\ Simulation!Abort(dir)
      /\ UNCHANGED <<stored, attempts>> /\ dir \in Simulation!Output \cup {None}
      /\ Simulation!HonestOutput(dir)
  BY DEF Simulation!SimulationFails, Simulation!SimulationInv, Simulation!TypeOK,
     Simulation!SimulationHonest
<1>2. sim.files => dir # None /\ (dir.report = "final" => dir.db)
  BY <1>1 DEF Simulation!FilesKept, Simulation!SimulationInv
<1>. QED BY <1>1, <1>2, AbortKeeps

LEMMA SimulationDiesKeeps ==
    ASSUME Simulation!SimulationInv, Simulation!SimulationDies
    PROVE  Simulation!SimulationInv'
<1>1. /\ sim' = Simulation!Off /\ dir' = Simulation!Left(dir) /\ stored' = stored
      /\ attempts' \in Nat /\ dir \in Simulation!Output \cup {None}
      /\ Simulation!HonestOutput(dir)
  BY DEF Simulation!SimulationDies, Simulation!SimulationInv, Simulation!TypeOK,
     Simulation!SimulationHonest
<1>2. dir' \in Simulation!Output \cup {None} /\ Simulation!HonestOutput(dir')
  <2>1. dir # None => dir \in Simulation!Output
    BY <1>1
  <2>2. dir = None => dir' = None
    BY <1>1 DEF Simulation!Left
  <2>. QED BY <1>1, <2>1, <2>2, LeftType DEF Simulation!HonestOutput
<1>. QED BY <1>1, <1>2, OffKeeps

LEMMA Continues ==
    ASSUME Simulation!SimulationInv, sim # Simulation!Off, sim.pc = "events",
           NEW batch \in Seq(Simulation!Event), NEW state \in Simulation!State, NEW c \in BOOLEAN,
           state # "feed_impression", sim.sequence = MaxSteps - 1 => state = "session_exited",
           sim' = Simulation!Continue(batch, state, c)
    PROVE  /\ sim' \in Simulation!Running /\ sim'.files = sim.files /\ sim'.db = sim.db
           /\ sim'.batch = batch
           /\ sim'.sequence = 1 <=> sim'.state = "feed_impression"
           /\ sim'.sequence = MaxSteps => sim'.state = "session_exited"
           /\ \/ /\ sim'.pc = "events"
                 /\ IF sim.state = "session_exited"
                    THEN sim'.session = sim.session + 1 /\ sim'.sequence = 1
                    ELSE sim'.session = sim.session /\ sim'.sequence = sim.sequence + 1
              \/ sim'.pc = "close" /\ sim.state = "session_exited" /\ sim.session = Sessions
<1>0. /\ sim \in Simulation!Running /\ (sim.sequence = MaxSteps => sim.state = "session_exited")
      /\ sim.sequence = 1 <=> sim.state = "feed_impression"
      /\ MaxSteps \in Nat \ {0, 1} /\ Sessions \in Nat \ {0}
  BY ProcessFields, SimulationConstants DEF Simulation!SessionControl, Simulation!SimulationInv
<1>1. /\ sim.sequence \in 1..MaxSteps /\ sim.session \in 1..Sessions
      /\ sim.state \in Simulation!State
  BY <1>0 DEF Simulation!Running
<1>2. CASE sim.state # "session_exited" /\ sim.sequence < MaxSteps
  <2>1. sim' = [sim EXCEPT !.batch = batch, !.sequence = @ + 1, !.state = state]
    BY <1>2 DEF Simulation!Continue
  <2>2. sim.sequence + 1 \in 1..MaxSteps /\ sim.sequence + 1 # 1
    BY <1>0, <1>1, <1>2
  <2>3. /\ sim' \in Simulation!Running /\ sim'.files = sim.files /\ sim'.db = sim.db
        /\ sim'.batch = batch /\ sim'.pc = "events" /\ sim'.session = sim.session
        /\ sim'.sequence = sim.sequence + 1 /\ sim'.state = state
    BY <1>0, <2>1, <2>2, ZenonT(60) DEF Simulation!Running
  <2>4. sim'.sequence = MaxSteps => sim'.state = "session_exited"
    BY <1>0, <1>1, <2>3
  <2>. QED BY <1>2, <2>2, <2>3, <2>4
<1>3. CASE ~(sim.state # "session_exited" /\ sim.sequence < MaxSteps) /\ sim.session < Sessions
  <2>1. sim' = [sim EXCEPT !.batch = batch, !.session = @ + 1, !.sequence = 1,
                           !.state = "feed_impression", !.comments = c]
    BY <1>3 DEF Simulation!Continue
  <2>2. sim.session + 1 \in 1..Sessions /\ 1 \in 1..MaxSteps /\ 1 # MaxSteps
        /\ "feed_impression" \in Simulation!State /\ sim.state = "session_exited"
    BY <1>0, <1>1, <1>3 DEF Simulation!State
  <2>3. /\ sim' \in Simulation!Running /\ sim'.files = sim.files /\ sim'.db = sim.db
        /\ sim'.batch = batch /\ sim'.pc = "events" /\ sim'.session = sim.session + 1
        /\ sim'.sequence = 1 /\ sim'.state = "feed_impression"
    BY <1>0, <2>1, <2>2 DEF Simulation!Running
  <2>. QED BY <2>2, <2>3
<1>4. CASE ~(sim.state # "session_exited" /\ sim.sequence < MaxSteps) /\ ~(sim.session < Sessions)
  <2>1. sim' = [sim EXCEPT !.pc = "close", !.batch = batch]
    BY <1>4 DEF Simulation!Continue
  <2>2. sim.state = "session_exited" /\ sim.session = Sessions
    BY <1>0, <1>1, <1>4
  <2>3. /\ sim' \in Simulation!Running /\ sim'.files = sim.files /\ sim'.db = sim.db
        /\ sim'.batch = batch /\ sim'.pc = "close" /\ sim'.sequence = sim.sequence
        /\ sim'.state = sim.state
    BY <1>0, <2>1 DEF Simulation!Running
  <2>. QED BY <1>0, <2>2, <2>3
<1>. QED BY <1>2, <1>3, <1>4

LEMMA NextStatesMoveOn ==
    ASSUME NEW s \in Simulation!State, NEW c \in BOOLEAN, NEW t \in Simulation!NextStates(s, c)
    PROVE  t # "feed_impression"
<1>1. CASE s = "feed_impression"
  BY <1>1 DEF Simulation!NextStates
<1>2. CASE s = "note_viewed"
  BY <1>2 DEF Simulation!NextStates
<1>3. CASE s = "comments_viewed"
  BY <1>3 DEF Simulation!NextStates
<1>4. CASE s = "session_exited"
  BY <1>4 DEF Simulation!NextStates
<1>5. CASE s \in {"media_viewed", "comment_liked", "acted"}
  BY <1>5 DEF Simulation!NextStates
<1>. QED BY <1>1, <1>2, <1>3, <1>4, <1>5 DEF Simulation!State

LEMMA WriteEventKeeps ==
    ASSUME Simulation!SimulationInv, NEW c \in BOOLEAN, NEW s \in Simulation!State,
           Simulation!WriteEvent(s, c)
    PROVE  Simulation!SimulationInv'
<1>. DEFINE event == Simulation!MakeEvent(sim.session, sim.sequence, sim.state)
            batch == IF sim.db THEN Append(sim.batch, event) ELSE <<>>
            written == Append(dir.written, event)
            output == IF sim.files THEN [dir EXCEPT !.written = written] ELSE dir
            rest == IF Len(batch) = BatchSize THEN <<>> ELSE batch
<1>0. /\ sim # Simulation!Off /\ sim.pc = "events"
      /\ s \in Simulation!StepsFrom(sim.state, sim.sequence, sim.comments)
      /\ IF Len(batch) = BatchSize /\ ~Simulation!FlushEvents(batch)
         THEN Simulation!Abort(output)
         ELSE dir' = output /\ sim' = Simulation!Continue(rest, s, c)
      /\ UNCHANGED <<stored, attempts>>
  BY DEF Simulation!WriteEvent
<1>1. /\ sim \in Simulation!Running /\ sim.batch \in Seq(Simulation!Event)
      /\ sim.session \in 1..Sessions /\ sim.sequence \in 1..MaxSteps /\ sim.state \in Simulation!State
      /\ sim.comments \in BOOLEAN /\ sim.files \in BOOLEAN /\ sim.db \in BOOLEAN
      /\ dir \in Simulation!Output \cup {None} /\ Simulation!HonestOutput(dir)
  BY <1>0, ProcessFields DEF Simulation!Running, Simulation!SimulationInv, Simulation!TypeOK,
     Simulation!SimulationHonest
<1>2. /\ event \in Simulation!Event /\ event.session = sim.session
      /\ event.sequence = sim.sequence /\ event.state = sim.state
  BY <1>1, SimulationConstants DEF Simulation!MakeEvent, Simulation!Event
<1>. HIDE DEF event
<1>3. s # "feed_impression" /\ (sim.sequence = MaxSteps - 1 => s = "session_exited")
  BY <1>0, <1>1, NextStatesMoveOn DEF Simulation!StepsFrom
<1>4. /\ batch \in Seq(Simulation!Event) /\ (sim.db => batch # <<>>)
  BY <1>1, <1>2, AppendProperties
<1>5. sim.files => /\ output \in Simulation!Output /\ output.written = written
                   /\ output.report = dir.report /\ output.failure = dir.failure
                   /\ output.db = dir.db /\ output.report # "final"
                   /\ written \in Seq(Simulation!Event) /\ Simulation!Linked(written)
                   /\ Len(written) > 0 /\ written # <<>> /\ written[Len(written)] = event
                   /\ dir.db = sim.db /\ ~dir.failure
  <2>. SUFFICES ASSUME sim.files
                PROVE  /\ output \in Simulation!Output /\ output.written = written
                       /\ output.report = dir.report /\ output.failure = dir.failure
                       /\ output.db = dir.db /\ output.report # "final"
                       /\ written \in Seq(Simulation!Event) /\ Simulation!Linked(written)
                       /\ Len(written) > 0 /\ written # <<>> /\ written[Len(written)] = event
                       /\ dir.db = sim.db /\ ~dir.failure
    OBVIOUS
  <2>1. /\ dir \in Simulation!Output /\ Simulation!Linked(dir.written) /\ dir.report # "final"
        /\ dir.db = sim.db /\ ~dir.failure
        /\ dir.written # <<>> =>
              Simulation!Follows(dir.written[Len(dir.written)], sim.session, sim.sequence)
    BY <1>0, <1>1 DEF Simulation!FilesKept, Simulation!Generating, Simulation!SimulationInv
  <2>2. dir.written \in Seq(Simulation!Event) /\ Len(dir.written) \in Nat
    BY <2>1, LenProperties DEF Simulation!Output
  <2>3. event.sequence = 1 <=> event.state = "feed_impression"
    BY <1>0, <1>2 DEF Simulation!SessionControl, Simulation!SimulationInv
  <2>4. /\ written \in Seq(Simulation!Event) /\ written # <<>> /\ Simulation!Linked(written)
        /\ Len(written) = Len(dir.written) + 1 /\ written[Len(dir.written) + 1] = event
    BY <1>2, <2>1, <2>2, <2>3, LinkedAppend
  <2>. HIDE DEF written
  <2>5. /\ output \in Simulation!Output /\ output.written = written
        /\ output.report = dir.report /\ output.failure = dir.failure /\ output.db = dir.db
    BY <2>1, <2>4 DEF Simulation!Output
  <2>. QED BY <2>1, <2>2, <2>4, <2>5
<1>6. output \in Simulation!Output \cup {None} /\ Simulation!HonestOutput(output)
      /\ (~sim.files => output = dir) /\ (sim.files => output # None)
  BY <1>1, <1>5, SimulationConstants DEF Simulation!HonestOutput
<1>. HIDE DEF batch, written, output
<1>7. CASE Len(batch) = BatchSize /\ ~Simulation!FlushEvents(batch)
  BY <1>0, <1>5, <1>6, <1>7, AbortKeeps
<1>8. CASE ~(Len(batch) = BatchSize /\ ~Simulation!FlushEvents(batch))
  <2>1. rest \in Seq(Simulation!Event) /\ (sim.db => rest # <<>>)
    <3>1. sim.db => Len(batch) # BatchSize
      BY <1>4, <1>8, FlushFails
    <3>2. <<>> \in Seq(Simulation!Event)
      OBVIOUS
    <3>. QED BY <1>4, <3>1, <3>2
  <2>. HIDE DEF rest
  <2>2. dir' = output /\ sim' = Simulation!Continue(rest, s, c)
    BY <1>0, <1>8
  <2>3. /\ sim' \in Simulation!Running /\ sim'.files = sim.files /\ sim'.db = sim.db
        /\ sim'.batch = rest
        /\ sim'.sequence = 1 <=> sim'.state = "feed_impression"
        /\ sim'.sequence = MaxSteps => sim'.state = "session_exited"
        /\ \/ /\ sim'.pc = "events"
              /\ IF sim.state = "session_exited"
                 THEN sim'.session = sim.session + 1 /\ sim'.sequence = 1
                 ELSE sim'.session = sim.session /\ sim'.sequence = sim.sequence + 1
           \/ sim'.pc = "close" /\ sim.state = "session_exited" /\ sim.session = Sessions
    BY <1>0, <1>3, <2>1, <2>2, Continues
  <2>4. Simulation!TypeOK'
    BY <1>0, <1>6, <2>2, <2>3 DEF Simulation!TypeOK, Simulation!SimulationInv
  <2>5. Simulation!SessionControl'
    BY <2>1, <2>3 DEF Simulation!SessionControl, Simulation!Generating
  <2>6. Simulation!FilesKept'
    <3>. SUFFICES ASSUME sim.files PROVE Simulation!FilesKept'
      BY <2>3 DEF Simulation!FilesKept
    <3>1. /\ dir' # None /\ dir'.db = sim'.db /\ ~dir'.failure /\ dir'.written = written
          /\ dir'.report # "final" /\ Simulation!Linked(dir'.written)
      BY <1>5, <1>6, <2>2, <2>3
    <3>2. CASE sim'.pc = "events"
      <4>1. Simulation!Follows(event, sim'.session, sim'.sequence)
        BY <1>2, <2>3, <3>2 DEF Simulation!Follows
      <4>. QED BY <1>5, <3>1, <3>2, <4>1 DEF Simulation!FilesKept, Simulation!Generating
    <3>3. CASE sim'.pc = "close"
      BY <1>2, <1>5, <2>3, <3>1, <3>3 DEF Simulation!FilesKept, Simulation!Generating
    <3>. QED BY <2>3, <3>2, <3>3
  <2>7. Simulation!SimulationHonest'
    BY <1>0, <1>6, <2>2 DEF Simulation!SimulationHonest, Simulation!SimulationInv
  <2>. QED BY <2>4, <2>5, <2>6, <2>7 DEF Simulation!SimulationInv
<1>. QED BY <1>7, <1>8

\* The inductive invariant of the simulator, for any numbers of sessions and steps, any
\* batch size and any number of runs of the command.
THEOREM SimulationInvariant == Simulation!SimSpec => []Simulation!SimulationInv
<1>1. Simulation!SimInit => Simulation!SimulationInv
  BY DEF Simulation!SimInit, Simulation!SimulationInv, Simulation!TypeOK,
     Simulation!SessionControl, Simulation!FilesKept, Simulation!SimulationHonest,
     Simulation!HonestOutput
<1>2. Simulation!SimulationInv /\ [Simulation!SimNext]_Simulation!simVars
        => Simulation!SimulationInv'
  <2>. SUFFICES ASSUME Simulation!SimulationInv, [Simulation!SimNext]_Simulation!simVars
                PROVE  Simulation!SimulationInv'
    OBVIOUS
  <2>1. CASE Simulation!SimNext
    BY <2>1, StartRunKeeps, WriteProfilesKeeps, WriteEventKeeps, WriteReportKeeps,
       RenameOutputKeeps, CommitRunKeeps, SimulationFailsKeeps, SimulationDiesKeeps
       DEF Simulation!SimNext
  <2>2. CASE UNCHANGED Simulation!simVars
    BY <2>2 DEF Simulation!simVars, Simulation!SimulationInv, Simulation!TypeOK,
       Simulation!SessionControl, Simulation!FilesKept, Simulation!SimulationHonest,
       Simulation!Generating
  <2>. QED BY <2>1, <2>2
<1>. QED BY <1>1, <1>2, PTL DEF Simulation!SimSpec

\* A final report stands for whole output of whole sessions, and no run is ever stored,
\* whatever fails, dies or is replaced (FileSink.Complete, MultiSink.Complete, flushEvents).
THEOREM SimulationIsHonest == Simulation!SimSpec => []SimulationHonest
<1>1. Simulation!SimulationInv => SimulationHonest
  BY DEF Simulation!SimulationInv, SimulationHonest
<1>. QED BY <1>1, SimulationInvariant, PTL

-----------------------------------------------------------------------------
(* BenchmarkFreeze: verified files and manifests *)

\* A set has at least as many members as its image, and as many if no two share one.
LEMMA ImageCounts ==
    ASSUME NEW S, IsFiniteSet(S), NEW g
    PROVE  LET T == {g[i] : i \in S}
           IN  /\ IsFiniteSet(T) /\ Cardinality(T) \in Nat /\ Cardinality(S) \in Nat
               /\ Cardinality(T) <= Cardinality(S)
               /\ (\A i, j \in S : g[i] = g[j] => i = j) => Cardinality(T) = Cardinality(S)
<1>. DEFINE T == {g[i] : i \in S}
            h == [i \in S |-> g[i]]
<1>1. h \in Surjection(S, T)
  BY DEF Surjection
<1>2. (\A i, j \in S : g[i] = g[j] => i = j) => h \in Injection(S, T)
  BY DEF Injection, IsInjective
<1>3. /\ IsFiniteSet(T) /\ Cardinality(T) <= Cardinality(S)
      /\ Cardinality(T) = Cardinality(S) <=> h \in Injection(S, T)
  <2>. HIDE DEF T, h
  <2>. QED BY <1>1, FS_Surjection
<1>4. Cardinality(T) \in Nat /\ Cardinality(S) \in Nat
  <2>. HIDE DEF T
  <2>. QED BY <1>3, FS_CardinalityType
<1>. QED BY <1>2, <1>3, <1>4

\* The instance counts as its environment does.
LEMMA CardinalitySame == \A S : Frozen!Cardinality(S) = Cardinality(S)
BY Zenon DEF Frozen!Cardinality, Cardinality

\* Equal digests of two parts have equal parts.
LEMMA PairParts ==
    ASSUME NEW a, NEW b, NEW x, NEW y, <<a, b>> = <<x, y>>
    PROVE  a = x /\ b = y
OBVIOUS

\* Sets of lines are finite.
LEMMA LinesFinite ==
    ASSUME NEW S \in SUBSET (1..CaseCount)
    PROVE  IsFiniteSet(S) /\ Cardinality(S) \in Nat
<1>1. IsFiniteSet(1..CaseCount)
  BY FS_Interval, FreezeConstants
<1>. QED BY <1>1, FS_Subset, FS_CardinalityType

\* A commitment determines its case.
LEMMA CaseOfCommitment ==
    ASSUME NEW c \in Frozen!EvalCase, NEW d \in Frozen!EvalCase, c.commitment = d.commitment,
           c.checksum = Frozen!ChecksumCase(c), d.checksum = Frozen!ChecksumCase(d),
           c.commitment = Frozen!CommitmentHash(c.nonce, c.checksum),
           d.commitment = Frozen!CommitmentHash(d.nonce, d.checksum)
    PROVE  c = d
<1>1. c.nonce = d.nonce /\ c.checksum = d.checksum
  <2>1. <<c.nonce, c.checksum>> = <<d.nonce, d.checksum>>
    BY DEF Frozen!CommitmentHash
  <2>. QED BY <2>1, PairParts
<1>2. c.id = d.id /\ c.split = d.split /\ c.query = d.query
  BY <1>1 DEF Frozen!ChecksumCase
<1>. QED BY <1>1, <1>2 DEF Frozen!EvalCase

\* What fits the manifest of a stored benchmark is all of its cases of that split.
LEMMA FittingIsFrozen ==
    ASSUME NEW cases, NEW frozen, NEW id, NEW split \in {"development", "holdout"},
           Frozen!IsCaseFile(cases), Frozen!IsCaseFile(frozen), Frozen!Sealed(frozen),
           Frozen!FitsManifest(cases, split, Frozen!BuildManifest(id, frozen))
    PROVE  Frozen!ToSet(cases) = Frozen!ToSet(Frozen!OfSplit(frozen, split))
<1>. DEFINE manifest == Frozen!BuildManifest(id, frozen)
            committed == [i \in DOMAIN frozen |-> frozen[i].commitment]
            L == Frozen!LinesOf(frozen, split)
<1>1. manifest.checksum[2] = committed /\ manifest[split] = Cardinality(L)
  BY CardinalitySame DEF Frozen!BuildManifest
<1>0. Frozen!FitsManifest(cases, split, manifest)
  OBVIOUS
<1>. HIDE DEF manifest
<1>2. PICK D \in SUBSET DOMAIN frozen :
         /\ Cardinality(D) = Cardinality(L)
         /\ {cases[i].commitment : i \in DOMAIN cases} = {committed[i] : i \in D}
  <2>1. PICK D \in SUBSET DOMAIN manifest.checksum[2] :
           /\ Frozen!Cardinality(D) = manifest[split]
           /\ {cases[i].commitment : i \in DOMAIN cases} = {manifest.checksum[2][i] : i \in D}
    BY <1>0 DEF Frozen!FitsManifest
  <2>2. DOMAIN committed = DOMAIN frozen
    OBVIOUS
  <2>. HIDE DEF committed
  <2>3. /\ D \in SUBSET DOMAIN frozen /\ Cardinality(D) = Cardinality(L)
        /\ {cases[i].commitment : i \in DOMAIN cases} = {committed[i] : i \in D}
    BY <1>1, <2>1, <2>2, CardinalitySame
  <2>. QED BY <2>3
<1>3. ASSUME NEW i \in DOMAIN cases, NEW j \in DOMAIN frozen, cases[i].commitment = committed[j]
      PROVE  cases[i] = frozen[j]
  <2>1. cases[i] \in Frozen!EvalCase /\ frozen[j] \in Frozen!EvalCase
    BY DEF Frozen!IsCaseFile
  <2>. QED BY <1>3, <2>1, CaseOfCommitment DEF Frozen!FitsManifest, Frozen!Sealed
<1>4. \A i \in DOMAIN cases : cases[i].split = split
  BY DEF Frozen!FitsManifest
<1>5. \A j \in D : \E i \in DOMAIN cases : cases[i] = frozen[j]
  <2>1. \A j \in D : committed[j] \in {cases[i].commitment : i \in DOMAIN cases}
    BY <1>2
  <2>2. \A j \in D : \E i \in DOMAIN cases : cases[i].commitment = committed[j]
    BY <2>1
  <2>. HIDE DEF committed
  <2>. QED BY <1>3, <2>2
<1>6. \A i \in DOMAIN cases : \E j \in D : cases[i] = frozen[j]
  <2>1. \A i \in DOMAIN cases : cases[i].commitment \in {committed[j] : j \in D}
    BY <1>2
  <2>2. \A i \in DOMAIN cases : \E j \in D : cases[i].commitment = committed[j]
    BY <2>1
  <2>. HIDE DEF committed
  <2>. QED BY <1>3, <2>2
<1>7. D \subseteq L
  BY <1>2, <1>4, <1>5 DEF Frozen!LinesOf
<1>8. IsFiniteSet(L)
  BY LinesFinite DEF Frozen!LinesOf, Frozen!IsCaseFile
<1>9. D = L
  <2>. HIDE DEF L
  <2>. QED BY <1>2, <1>7, <1>8, FS_Subset
<1>10. Frozen!ToSet(cases) = {frozen[j] : j \in L}
  BY <1>5, <1>6, <1>9 DEF Frozen!ToSet
<1>11. Frozen!ToSet(Frozen!OfSplit(frozen, split)) = {frozen[j] : j \in L}
  BY DEF Frozen!ToSet, Frozen!OfSplit, Frozen!Restrict
<1>. QED BY <1>10, <1>11

\* What the manifest of a verified public directory says of its commitments.
LEMMA PublicManifest ==
    ASSUME NEW d, Frozen!IsDirectory(d), d.kind = "public", Frozen!VerifyArtifacts(d)
    PROVE  /\ Frozen!VerifyPublicArtifacts(d)
           /\ d.manifest.checksum[2] = [i \in DOMAIN d.commitments |-> d.commitments[i].commitment]
           /\ \A split \in {"development", "holdout"} :
                 d.manifest[split] = Cardinality(Frozen!LinesOf(d.commitments, split))
           /\ DOMAIN d.commitments \subseteq 1..CaseCount
           /\ \A i, j \in DOMAIN d.commitments :
                 d.commitments[i].commitment = d.commitments[j].commitment => i = j
<1>1. Frozen!VerifyPublicArtifacts(d)
  BY DEF Frozen!VerifyArtifacts
<1>2. d.manifest = Frozen!BuildManifest(d.manifest.id, d.commitments)
  BY <1>1 DEF Frozen!VerifyPublicArtifacts
<1>3. /\ d.manifest.checksum[2] = [i \in DOMAIN d.commitments |-> d.commitments[i].commitment]
      /\ d.manifest["development"] = Cardinality(Frozen!LinesOf(d.commitments, "development"))
      /\ d.manifest["holdout"] = Cardinality(Frozen!LinesOf(d.commitments, "holdout"))
  <2>. DEFINE m == Frozen!BuildManifest(d.manifest.id, d.commitments)
  <2>1. /\ m.checksum[2] = [i \in DOMAIN d.commitments |-> d.commitments[i].commitment]
        /\ m["development"] = Cardinality(Frozen!LinesOf(d.commitments, "development"))
        /\ m["holdout"] = Cardinality(Frozen!LinesOf(d.commitments, "holdout"))
    BY CardinalitySame DEF Frozen!BuildManifest
  <2>. HIDE DEF m
  <2>2. d.manifest = m
    BY <1>2 DEF m
  <2>. QED BY <2>1, <2>2
<1>4. DOMAIN d.commitments \subseteq 1..CaseCount
  BY FreezeConstants DEF Frozen!IsDirectory
<1>5. \A i, j \in DOMAIN d.commitments :
         d.commitments[i].commitment = d.commitments[j].commitment => i = j
  BY <1>1 DEF Frozen!VerifyPublicArtifacts
<1>. QED BY <1>1, <1>3, <1>4, <1>5

\* A part with as many members is the whole.
LEMMA SameCommitments ==
    ASSUME NEW T, NEW U, IsFiniteSet(T), Cardinality(T) \in Nat, Cardinality(U) \in Nat,
           U \subseteq T, Cardinality(T) <= Cardinality(U)
    PROVE  T = U
BY FS_Subset

\* The development cases of a verified public directory.
LEMMA DevelopmentFits ==
    ASSUME NEW d, Frozen!IsDirectory(d), d.kind = "public", Frozen!VerifyArtifacts(d)
    PROVE  Frozen!FitsManifest(d.cases, "development", d.manifest)
<1>. DEFINE c == d.cases
            m == d.commitments
            D == Frozen!LinesOf(m, "development")
            shown == [i \in DOMAIN c |-> c[i].commitment]
            promised == [i \in DOMAIN m |-> m[i].commitment]
<1>1. /\ Frozen!VerifyPublicArtifacts(d)
      /\ d.manifest.checksum[2] = promised
      /\ d.manifest["development"] = Cardinality(D)
      /\ D \in SUBSET (1..CaseCount) /\ D \subseteq DOMAIN m
      /\ \A i, j \in D : promised[i] = promised[j] => i = j
  BY PublicManifest DEF Frozen!LinesOf
<1>2. /\ \A i \in DOMAIN c :
            /\ c[i].split = "development" /\ c[i].checksum = Frozen!ChecksumCase(c[i])
            /\ c[i].commitment = Frozen!CommitmentHash(c[i].nonce, c[i].checksum)
      /\ Cardinality(D) = Cardinality(DOMAIN c)
      /\ DOMAIN c \in SUBSET (1..CaseCount)
  BY <1>1, FreezeConstants, CardinalitySame
     DEF Frozen!VerifyPublicArtifacts, Frozen!VerifiedCases, Frozen!IsDirectory, Frozen!IsCaseFile
<1>3. {promised[i] : i \in D} \subseteq {shown[i] : i \in DOMAIN c}
  <2>. SUFFICES ASSUME NEW i \in D PROVE promised[i] \in {shown[j] : j \in DOMAIN c}
    OBVIOUS
  <2>1. i \in DOMAIN m /\ m[i].split = "development"
    BY DEF Frozen!LinesOf
  <2>2. m[i].commitment \in {c[j].commitment : j \in DOMAIN c}
    BY <1>1, <2>1 DEF Frozen!VerifyPublicArtifacts
  <2>. QED BY <2>1, <2>2
<1>4. {shown[i] : i \in DOMAIN c} = {promised[i] : i \in D}
  <2>. DEFINE T == {shown[i] : i \in DOMAIN c}
              U == {promised[i] : i \in D}
  <2>1. IsFiniteSet(DOMAIN c) /\ IsFiniteSet(D)
    BY <1>1, <1>2, LinesFinite
  <2>. HIDE DEF shown, promised, D, c
  <2>2. IsFiniteSet(T) /\ Cardinality(T) \in Nat /\ Cardinality(T) <= Cardinality(DOMAIN c)
    BY <2>1, ImageCounts
  <2>3. Cardinality(U) \in Nat /\ Cardinality(U) = Cardinality(D)
    <3>1. \A i, j \in D : promised[i] = promised[j] => i = j
      BY <1>1
    <3>. QED BY <2>1, <3>1, ImageCounts
  <2>4. U \subseteq T
    BY <1>3
  <2>. HIDE DEF T, U
  <2>5. T = U
    BY <1>2, <2>2, <2>3, <2>4, SameCommitments
  <2>. QED BY <2>5 DEF T, U
<1>5. {c[i].commitment : i \in DOMAIN c} = {promised[i] : i \in D}
  BY <1>4
<1>6. D \in SUBSET DOMAIN promised /\ Frozen!Cardinality(D) = d.manifest["development"]
  BY <1>1, CardinalitySame
<1>. HIDE DEF promised, D
<1>. QED BY <1>1, <1>2, <1>5, <1>6, ZenonT(60) DEF Frozen!FitsManifest

\* The private cases that VerifySealedCases accepts.
LEMMA HoldoutFits ==
    ASSUME NEW d, Frozen!IsDirectory(d), d.kind = "public", Frozen!VerifyArtifacts(d),
           NEW c, Frozen!IsCaseFile(c), Frozen!VerifiedCases(c, "holdout"),
           Frozen!VerifySealedCases(d.manifest, d, c)
    PROVE  Frozen!FitsManifest(c, "holdout", d.manifest)
<1>. DEFINE m == d.commitments
            D == Frozen!LinesOf(m, "holdout")
            given == [i \in DOMAIN c |-> c[i].commitment]
            promised == [i \in DOMAIN m |-> m[i].commitment]
<1>1. /\ d.manifest.checksum[2] = promised
      /\ d.manifest["holdout"] = Cardinality(D)
      /\ D \in SUBSET (1..CaseCount) /\ D \subseteq DOMAIN m
  BY PublicManifest DEF Frozen!LinesOf
<1>2. /\ \A i \in DOMAIN c :
            /\ c[i].split = "holdout" /\ c[i].checksum = Frozen!ChecksumCase(c[i])
            /\ c[i].commitment = Frozen!CommitmentHash(c[i].nonce, c[i].checksum)
      /\ Cardinality(D) = Cardinality(DOMAIN c)
      /\ DOMAIN c \in SUBSET (1..CaseCount)
      /\ \A i, j \in DOMAIN c : given[i] = given[j] => i = j
  BY <1>1, FreezeConstants, CardinalitySame
     DEF Frozen!VerifySealedCases, Frozen!VerifiedCases, Frozen!IsCaseFile
<1>3. {given[i] : i \in DOMAIN c} \subseteq {promised[i] : i \in D}
  <2>. SUFFICES ASSUME NEW i \in DOMAIN c PROVE given[i] \in {promised[j] : j \in D}
    OBVIOUS
  <2>1. c[i].commitment \in {m[j].commitment : j \in D}
    BY DEF Frozen!VerifySealedCases
  <2>. QED BY <1>1, <2>1
<1>4. {promised[i] : i \in D} = {given[i] : i \in DOMAIN c}
  <2>. DEFINE T == {promised[i] : i \in D}
              U == {given[i] : i \in DOMAIN c}
  <2>1. IsFiniteSet(DOMAIN c) /\ IsFiniteSet(D)
    BY <1>1, <1>2, LinesFinite
  <2>. HIDE DEF given, promised, D
  <2>2. IsFiniteSet(T) /\ Cardinality(T) \in Nat /\ Cardinality(T) <= Cardinality(D)
    BY <2>1, ImageCounts
  <2>3. Cardinality(U) \in Nat /\ Cardinality(U) = Cardinality(DOMAIN c)
    <3>1. \A i, j \in DOMAIN c : given[i] = given[j] => i = j
      BY <1>2
    <3>. QED BY <2>1, <3>1, ImageCounts
  <2>4. U \subseteq T
    BY <1>3
  <2>. HIDE DEF T, U
  <2>5. T = U
    BY <1>2, <2>2, <2>3, <2>4, SameCommitments
  <2>. QED BY <2>5 DEF T, U
<1>5. {c[i].commitment : i \in DOMAIN c} = {promised[i] : i \in D}
  BY <1>4
<1>6. D \in SUBSET DOMAIN promised /\ Frozen!Cardinality(D) = d.manifest["holdout"]
  BY <1>1, CardinalitySame
<1>. HIDE DEF promised, D, given, m
<1>7. \E lines \in SUBSET DOMAIN d.manifest.checksum[2] :
         /\ Frozen!Cardinality(lines) = d.manifest["holdout"]
         /\ {c[i].commitment : i \in DOMAIN c} = {d.manifest.checksum[2][i] : i \in lines}
  BY <1>1, <1>5, <1>6
<1>. QED BY <1>2, <1>7 DEF Frozen!FitsManifest

-----------------------------------------------------------------------------
(* BenchmarkFreeze: directories *)

\* Of either kind, a directory has a freeze that made it and a file of cases.
LEMMA DirectoryParts ==
    ASSUME NEW d, Frozen!IsDirectory(d)
    PROVE  /\ d.by \in Freezer /\ d.kind \in {"private", "public"} /\ d # Frozen!Absent
           /\ Frozen!IsCaseFile(d.cases)
BY DEF Frozen!IsDirectory, Frozen!Absent

LEMMA EmptyFile == Frozen!IsCaseFile(<<>>)
BY FreezeConstants DEF Frozen!IsCaseFile

\* The one directory a freeze has staged and not renamed.
LEMMA StageOf ==
    ASSUME Frozen!FreezeInv, NEW f \in Freezer, NEW kind \in {"private", "public"},
           Frozen!Awaits(f, kind)
    PROVE  /\ Frozen!Stage(f, kind) \in aside
           /\ Frozen!Stage(f, kind).by = f /\ Frozen!Stage(f, kind).kind = kind
           /\ \A d \in aside : d.by = f /\ d.kind = kind => d = Frozen!Stage(f, kind)
<1>1. PICK d \in aside : /\ d.by = f /\ d.kind = kind
                         /\ \A e \in aside : e.by = f /\ e.kind = kind => e = d
  BY DEF Frozen!FreezeInv, Frozen!StagesKept
<1>2. Frozen!Stage(f, kind) \in aside /\ Frozen!Stage(f, kind).by = f /\ Frozen!Stage(f, kind).kind = kind
  BY <1>1 DEF Frozen!Stage
<1>. QED BY <1>1, <1>2

\* Steps that touch neither the evaluator nor a public directory it could look at.
LEMMA EvaluatorApart ==
    ASSUME Frozen!EvaluationSound, UNCHANGED evaluator,
           publicDir' = publicDir \/ publicDir = Frozen!Absent
    PROVE  Frozen!EvaluationSound'
BY DEF Frozen!EvaluationSound

\* Steps that change the public directory under an evaluator that has verified it.
LEMMA EvaluatorSwapped ==
    ASSUME Frozen!EvaluationSound, evaluator' = Frozen!Swapped,
           evaluator = Frozen!Idle \/ Frozen!IsEvaluation(evaluator)
    PROVE  /\ Frozen!EvaluationSound'
           /\ evaluator' = Frozen!Idle \/ Frozen!IsEvaluation(evaluator')
<1>1. CASE evaluator = Frozen!Idle \/ evaluator.pc # "verified"
  <2>1. evaluator' = evaluator
    BY <1>1 DEF Frozen!Swapped, Frozen!Idle
  <2>. QED BY <1>1, <2>1 DEF Frozen!EvaluationSound
<1>2. CASE evaluator # Frozen!Idle /\ evaluator.pc = "verified"
  <2>1. evaluator' = [evaluator EXCEPT !.swapped = TRUE] /\ Frozen!IsEvaluation(evaluator)
    BY <1>2 DEF Frozen!Swapped
  <2>2. Frozen!IsEvaluation(evaluator') /\ evaluator'.swapped = TRUE
    BY <2>1 DEF Frozen!IsEvaluation
  <2>. QED BY <2>2 DEF Frozen!EvaluationSound
<1>. QED BY <1>1, <1>2

\* Steps of the evaluator alone.
LEMMA EvaluatorAlone ==
    ASSUME Frozen!FreezeInv, UNCHANGED <<freezer, aside, privateDir, publicDir, benchmarks, handled>>,
           evaluator' = Frozen!Idle \/ Frozen!IsEvaluation(evaluator'),
           Frozen!EvaluationSound'
    PROVE  Frozen!FreezeInv'
<1>1. Frozen!FreezeTypeOK'
  BY DEF Frozen!FreezeInv, Frozen!FreezeTypeOK
<1>2. Frozen!StagesKept' /\ Frozen!PrivateIntact' /\ Frozen!NoncesKept' /\ Frozen!StoredFirst'
  BY DEF Frozen!FreezeInv, Frozen!StagesKept, Frozen!PrivateIntact, Frozen!NoncesKept,
     Frozen!StoredFirst, Frozen!Directories, Frozen!Awaits, Frozen!IsStored
<1>. QED BY <1>1, <1>2 DEF Frozen!FreezeInv

\* The lines of private directories are cases, without their nonces too.
LEMMA PrivateLinesAreCases ==
    ASSUME Frozen!FreezeInv
    PROVE  Frozen!PrivateLines \subseteq Frozen!EvalCase
<1>. DEFINE Blank(c) == [c EXCEPT !.nonce = None, !.commitment = None]
            Private == {e \in aside \cup {privateDir} : e.kind = "private"}
            Of(d) == {d.cases[i] : i \in DOMAIN d.cases}
            Given(d) == Of(d) \cup {Blank(c) : c \in Of(d)}
<1>1. Frozen!PrivateLines = UNION {Given(d) : d \in Private}
  BY DEF Frozen!PrivateLines
<1>2. ASSUME NEW d \in Private, NEW i \in DOMAIN d.cases
      PROVE  d.cases[i] \in Frozen!EvalCase
  <2>1. d # Frozen!Absent
    BY DEF Frozen!Absent
  <2>2. Frozen!IsCaseFile(d.cases)
    BY <2>1 DEF Frozen!FreezeInv, Frozen!FreezeTypeOK, Frozen!IsDirectory
  <2>. QED BY <2>2 DEF Frozen!IsCaseFile
<1>3. ASSUME NEW c \in Frozen!EvalCase
      PROVE  Blank(c) \in Frozen!EvalCase
  <2>1. None \in Frozen!NonceValue
    BY DEF Frozen!NonceValue
  <2>2. None \in Frozen!Commitment
    BY DEF Frozen!Commitment
  <2>. DEFINE d == [c EXCEPT !.nonce = None]
  <2>3. d \in Frozen!EvalCase
    BY <2>1 DEF Frozen!EvalCase
  <2>4. [d EXCEPT !.commitment = None] \in Frozen!EvalCase
    <3>. HIDE DEF d
    <3>. QED BY <2>2, <2>3 DEF Frozen!EvalCase
  <2>. QED BY <2>4
<1>4. ASSUME NEW d \in Private, NEW x \in Given(d)
      PROVE  x \in Frozen!EvalCase
  <2>. HIDE DEF Private, Blank
  <2>. QED BY <1>2, <1>3
<1>. HIDE DEF Private, Given
<1>. QED BY <1>1, <1>4

\* A manifest that was just verified is that of the public directory.
LEMMA LoadManifestKeeps ==
    ASSUME Frozen!FreezeInv, NEW split \in {"development", "holdout"}, NEW lines,
           Frozen!IsCaseFile(lines), Frozen!LoadManifest(split, lines)
    PROVE  Frozen!FreezeInv'
<1>1. /\ Frozen!VerifyArtifacts(publicDir) /\ (split = "holdout" => Frozen!VerifiedCases(lines, "holdout"))
      /\ evaluator' = [pc |-> "verified", split |-> split, manifest |-> publicDir.manifest,
                       cases |-> lines, swapped |-> FALSE]
      /\ UNCHANGED <<freezer, aside, privateDir, publicDir, benchmarks, handled>>
  BY DEF Frozen!LoadManifest
<1>2. publicDir # Frozen!Absent
  BY <1>1 DEF Frozen!VerifyArtifacts
<1>3. Frozen!IsEvaluation(evaluator')
  BY <1>1 DEF Frozen!IsEvaluation, Frozen!Split
<1>4. Frozen!VerifyArtifacts(publicDir')
  BY <1>1
<1>5. Frozen!EvaluationSound'
  BY <1>1, <1>2, <1>4 DEF Frozen!EvaluationSound
<1>. QED BY <1>1, <1>3, <1>5, EvaluatorAlone

\* The cases loaded fit the manifest, unless the directory was swapped.
LEMMA LoadCasesKeeps ==
    ASSUME Frozen!FreezeInv, Frozen!LoadCases
    PROVE  Frozen!FreezeInv'
<1>. DEFINE ev == evaluator
<1>1. /\ ev.pc = "verified" /\ publicDir # Frozen!Absent
      /\ \/ /\ ev.split = "development"
            /\ evaluator' = [evaluator EXCEPT !.pc = "loaded", !.cases = publicDir.cases]
         \/ /\ ev.split = "holdout" /\ Frozen!VerifySealedCases(ev.manifest, publicDir, ev.cases)
            /\ evaluator' = [evaluator EXCEPT !.pc = "loaded"]
      /\ UNCHANGED <<freezer, aside, privateDir, publicDir, benchmarks, handled>>
  BY DEF Frozen!LoadCases
<1>2. ev # Frozen!Idle
  BY <1>1 DEF Frozen!Idle
<1>3. Frozen!IsEvaluation(ev) /\ Frozen!IsDirectory(publicDir) /\ publicDir.kind = "public"
  BY <1>1, <1>2 DEF Frozen!FreezeInv, Frozen!FreezeTypeOK, Frozen!StagesKept
<1>4. Frozen!IsCaseFile(publicDir.cases)
  BY <1>3, DirectoryParts
<1>5. /\ Frozen!IsEvaluation(evaluator') /\ evaluator'.pc = "loaded"
      /\ evaluator'.split = ev.split /\ evaluator'.manifest = ev.manifest
      /\ evaluator'.swapped = ev.swapped
      /\ evaluator'.cases = IF ev.split = "development" THEN publicDir.cases ELSE ev.cases
  BY <1>1, <1>3, <1>4 DEF Frozen!IsEvaluation
<1>6. ASSUME ~ev.swapped
      PROVE  Frozen!FitsManifest(evaluator'.cases, ev.split, ev.manifest)
  <2>1. /\ Frozen!VerifyArtifacts(publicDir) /\ ev.manifest = publicDir.manifest
        /\ ev.split = "holdout" => Frozen!VerifiedCases(ev.cases, "holdout")
    BY <1>1, <1>2, <1>6 DEF Frozen!FreezeInv, Frozen!EvaluationSound
  <2>2. CASE ev.split = "development"
    <3>1. Frozen!FitsManifest(publicDir.cases, "development", publicDir.manifest)
      BY <1>3, <2>1, DevelopmentFits
    <3>. QED BY <1>5, <2>1, <2>2, <3>1
  <2>3. CASE ev.split = "holdout"
    <3>1. Frozen!IsCaseFile(ev.cases)
      BY <1>3 DEF Frozen!IsEvaluation
    <3>2. Frozen!VerifySealedCases(publicDir.manifest, publicDir, ev.cases)
      BY <1>1, <2>1, <2>3
    <3>3. Frozen!FitsManifest(ev.cases, "holdout", publicDir.manifest)
      <4>. HIDE DEF ev
      <4>. QED BY <1>3, <2>1, <2>3, <3>1, <3>2, HoldoutFits
    <3>. QED BY <1>5, <2>1, <2>3, <3>3
  <2>. QED BY <1>1, <2>2, <2>3
<1>7. Frozen!EvaluationSound'
  BY <1>5, <1>6 DEF Frozen!EvaluationSound
<1>. QED BY <1>1, <1>5, <1>7, EvaluatorAlone

\* After loading, an evaluation keeps its cases and its manifest.
LEMMA EvaluationKeeps ==
    ASSUME Frozen!FreezeInv, Frozen!Run \/ Frozen!SaveEvaluation \/ Frozen!EvaluationEnds
    PROVE  Frozen!FreezeInv'
<1>1. UNCHANGED <<freezer, aside, privateDir, publicDir, benchmarks, handled>>
  BY DEF Frozen!Run, Frozen!SaveEvaluation, Frozen!EvaluationEnds
<1>2. CASE Frozen!EvaluationEnds
  <2>1. evaluator' = Frozen!Idle
    BY <1>2 DEF Frozen!EvaluationEnds
  <2>2. Frozen!EvaluationSound'
    BY <2>1 DEF Frozen!EvaluationSound
  <2>. QED BY <1>1, <2>1, <2>2, EvaluatorAlone
<1>3. CASE Frozen!Run \/ Frozen!SaveEvaluation
  <2>1. /\ evaluator.pc \in {"loaded", "evaluated"}
        /\ \E pc \in {"evaluated", "saved"} : evaluator' = [evaluator EXCEPT !.pc = pc]
    BY <1>3 DEF Frozen!Run, Frozen!SaveEvaluation
  <2>2. evaluator # Frozen!Idle
    BY <2>1 DEF Frozen!Idle
  <2>3. Frozen!IsEvaluation(evaluator)
    BY <2>2 DEF Frozen!FreezeInv, Frozen!FreezeTypeOK
  <2>4. /\ Frozen!IsEvaluation(evaluator') /\ evaluator'.pc # "verified"
        /\ evaluator'.cases = evaluator.cases /\ evaluator'.split = evaluator.split
        /\ evaluator'.manifest = evaluator.manifest /\ evaluator'.swapped = evaluator.swapped
    BY <2>1, <2>3 DEF Frozen!IsEvaluation
  <2>5. ~evaluator.swapped => Frozen!FitsManifest(evaluator.cases, evaluator.split, evaluator.manifest)
    BY <2>1, <2>2 DEF Frozen!FreezeInv, Frozen!EvaluationSound
  <2>6. Frozen!EvaluationSound'
    BY <2>4, <2>5 DEF Frozen!EvaluationSound
  <2>. QED BY <1>1, <2>4, <2>6, EvaluatorAlone
<1>. QED BY <1>2, <1>3

-----------------------------------------------------------------------------
(* BenchmarkFreeze: the freezing steps *)

\* What the invariant says of the directories, wherever they are.
LEMMA DirectoriesTyped ==
    ASSUME Frozen!FreezeInv
    PROVE  /\ \A d \in Frozen!Directories :
                 /\ Frozen!IsDirectory(d) /\ d.by \in Freezer /\ d.kind \in {"private", "public"}
                 /\ d # Frozen!Absent /\ freezer[d.by].pc # "new"
           /\ aside \subseteq Frozen!Directories
           /\ privateDir # Frozen!Absent => privateDir \in Frozen!Directories
           /\ publicDir # Frozen!Absent => publicDir \in Frozen!Directories
           /\ freezer \in [Freezer -> [pc : {"new", "staged", "saved", "private", "ended"}]]
<1>1. \A d \in Frozen!Directories : Frozen!IsDirectory(d)
  BY DEF Frozen!FreezeInv, Frozen!FreezeTypeOK, Frozen!Directories
<1>2. \A d \in Frozen!Directories : freezer[d.by].pc # "new"
  BY DEF Frozen!FreezeInv, Frozen!StagesKept
<1>3. \A d \in Frozen!Directories :
         d.by \in Freezer /\ d.kind \in {"private", "public"} /\ d # Frozen!Absent
  BY <1>1, DirectoryParts
<1>4. freezer \in [Freezer -> [pc : {"new", "staged", "saved", "private", "ended"}]]
  BY DEF Frozen!FreezeInv, Frozen!FreezeTypeOK
<1>. QED BY <1>1, <1>2, <1>3, <1>4 DEF Frozen!Directories

\* A step of one freeze leaves the others where they are.
LEMMA FreezerSteps ==
    ASSUME Frozen!FreezeInv, NEW f \in Freezer,
           NEW at \in {"staged", "saved", "private", "ended"},
           freezer' = [freezer EXCEPT ![f] = [pc |-> at]]
    PROVE  /\ freezer' \in [Freezer -> [pc : {"new", "staged", "saved", "private", "ended"}]]
           /\ freezer'[f] = [pc |-> at] /\ freezer'[f].pc = at
           /\ \A g \in Freezer : g # f => freezer'[g] = freezer[g]
BY DEF Frozen!FreezeInv, Frozen!FreezeTypeOK

\* The type invariant, by the directories.
LEMMA TypeKeeps ==
    ASSUME freezer' \in [Freezer -> [pc : {"new", "staged", "saved", "private", "ended"}]],
           \A d \in Frozen!Directories' : Frozen!IsDirectory(d),
           \A b \in benchmarks' : Frozen!IsCaseFile(b.cases),
           evaluator' = Frozen!Idle \/ Frozen!IsEvaluation(evaluator'), handled' \in Nat
    PROVE  Frozen!FreezeTypeOK'
BY DEF Frozen!FreezeTypeOK, Frozen!Directories

\* A freeze that ends without touching a directory.
LEMMA FreezerEnds ==
    ASSUME Frozen!FreezeInv, NEW f \in Freezer,
           freezer' = [freezer EXCEPT ![f] = Frozen!Ended],
           UNCHANGED <<aside, privateDir, publicDir, benchmarks, evaluator, handled>>
    PROVE  Frozen!FreezeInv'
<1>1. /\ freezer' \in [Freezer -> [pc : {"new", "staged", "saved", "private", "ended"}]]
      /\ freezer'[f] = Frozen!Ended /\ freezer'[f].pc = "ended"
      /\ \A g \in Freezer : g # f => freezer'[g] = freezer[g]
  BY FreezerSteps DEF Frozen!Ended
<1>2. Frozen!Directories' = Frozen!Directories
  BY DEF Frozen!Directories
<1>3. Frozen!FreezeTypeOK'
  BY <1>1, <1>2, TypeKeeps, DirectoriesTyped DEF Frozen!FreezeInv, Frozen!FreezeTypeOK
<1>4. Frozen!StagesKept'
  <2>1. \A g \in Freezer, kind \in {"private", "public"} : Frozen!Awaits(g, kind)' => Frozen!Awaits(g, kind)
    BY <1>1 DEF Frozen!Awaits
  <2>. QED BY <1>1, <1>2, <2>1, DirectoriesTyped DEF Frozen!FreezeInv, Frozen!StagesKept
<1>5. Frozen!PrivateIntact' /\ Frozen!NoncesKept'
  BY <1>2 DEF Frozen!FreezeInv, Frozen!PrivateIntact, Frozen!NoncesKept
<1>6. Frozen!StoredFirst'
  BY <1>1, <1>2, DirectoriesTyped DEF Frozen!FreezeInv, Frozen!StoredFirst, Frozen!IsStored
<1>7. Frozen!EvaluationSound'
  BY EvaluatorApart DEF Frozen!FreezeInv
<1>. QED BY <1>3, <1>4, <1>5, <1>6, <1>7 DEF Frozen!FreezeInv

\* What is stored is what the freeze has staged, and stays staged.
LEMMA SaveFrozenKeeps ==
    ASSUME Frozen!FreezeInv, NEW f \in Freezer, NEW outcome, Frozen!SaveFrozen(f, outcome)
    PROVE  Frozen!FreezeInv'
<1>. DEFINE staged == Frozen!Stage(f, "private")
            record == [id |-> staged.manifest.id, cases |-> staged.cases]
<1>1. /\ freezer[f].pc = "staged"
      /\ benchmarks' = benchmarks \/ benchmarks' = benchmarks \cup {record}
      /\ \/ /\ freezer' = [freezer EXCEPT ![f] = [pc |-> "saved"]]
            /\ benchmarks' = benchmarks \cup {record}
         \/ freezer' = [freezer EXCEPT ![f] = [pc |-> "ended"]]
      /\ UNCHANGED <<aside, privateDir, publicDir, evaluator, handled>>
  BY DEF Frozen!SaveFrozen, Frozen!Ended
<1>2. /\ staged \in aside /\ staged.by = f /\ staged.kind = "private"
      /\ \A d \in aside : d.by = f /\ d.kind = "private" => d = staged
  BY <1>1, StageOf DEF Frozen!Awaits
<1>. HIDE DEF staged
<1>3. PICK at \in {"saved", "ended"} :
         /\ freezer' = [freezer EXCEPT ![f] = [pc |-> at]]
         /\ at = "saved" => benchmarks' = benchmarks \cup {record}
  BY <1>1
<1>4. /\ freezer' \in [Freezer -> [pc : {"new", "staged", "saved", "private", "ended"}]]
      /\ freezer'[f] = [pc |-> at] /\ freezer'[f].pc = at
      /\ \A g \in Freezer : g # f => freezer'[g] = freezer[g]
  BY <1>3, FreezerSteps
<1>5. Frozen!Directories' = Frozen!Directories
  BY <1>1 DEF Frozen!Directories
<1>6. Frozen!IsCaseFile(staged.cases) /\ Frozen!Sealed(staged.cases)
  BY <1>2, DirectoriesTyped, DirectoryParts DEF Frozen!FreezeInv, Frozen!PrivateIntact
<1>7. Frozen!FreezeTypeOK'
  <2>1. \A b \in benchmarks' : Frozen!IsCaseFile(b.cases)
    BY <1>1, <1>6 DEF Frozen!FreezeInv, Frozen!FreezeTypeOK
  <2>. QED BY <1>1, <1>4, <1>5, <2>1, TypeKeeps, DirectoriesTyped DEF Frozen!FreezeInv, Frozen!FreezeTypeOK
<1>8. Frozen!StagesKept'
  <2>1. \A g \in Freezer, kind \in {"private", "public"} : Frozen!Awaits(g, kind)' => Frozen!Awaits(g, kind)
    BY <1>1, <1>4 DEF Frozen!Awaits
  <2>2. \A d \in Frozen!Directories : freezer'[d.by].pc # "new"
    BY <1>4, DirectoriesTyped
  <2>3. freezer[f] # Frozen!Ended /\ freezer[f].pc \notin {"private", "ended"}
    BY <1>1 DEF Frozen!Ended
  <2>4. /\ privateDir # Frozen!Absent =>
              privateDir.kind = "private" /\ freezer'[privateDir.by].pc \in {"private", "ended"}
        /\ publicDir # Frozen!Absent => publicDir.kind = "public" /\ freezer'[publicDir.by] = Frozen!Ended
    BY <1>4, <2>3, DirectoriesTyped DEF Frozen!FreezeInv, Frozen!StagesKept
  <2>. QED BY <1>1, <1>5, <2>1, <2>2, <2>4 DEF Frozen!FreezeInv, Frozen!StagesKept
<1>9. Frozen!PrivateIntact'
  BY <1>1, <1>5, <1>6 DEF Frozen!FreezeInv, Frozen!PrivateIntact
<1>10. Frozen!NoncesKept'
  BY <1>1, <1>2 DEF Frozen!FreezeInv, Frozen!NoncesKept
<1>11. Frozen!StoredFirst'
  <2>1. benchmarks \subseteq benchmarks'
    BY <1>1
  <2>2. \A d \in aside : d.kind = "private" /\ freezer'[d.by].pc = "saved" =>
           [id |-> d.manifest.id, cases |-> d.cases] \in benchmarks'
    <3>. SUFFICES ASSUME NEW d \in aside, d.kind = "private", freezer'[d.by].pc = "saved"
                  PROVE  [id |-> d.manifest.id, cases |-> d.cases] \in benchmarks'
      OBVIOUS
    <3>1. CASE d.by = f
      BY <1>2, <1>3, <1>4, <3>1
    <3>2. CASE d.by # f
      <4>1. freezer[d.by].pc = "saved"
        BY <1>4, <3>2, DirectoriesTyped
      <4>. QED BY <2>1, <4>1 DEF Frozen!FreezeInv, Frozen!StoredFirst, Frozen!IsStored
    <3>. QED BY <3>1, <3>2
  <2>3. \A g \in Freezer : freezer'[g].pc = "private" => freezer[g].pc = "private"
    BY <1>4
  <2>. QED BY <1>1, <1>5, <2>1, <2>2, <2>3 DEF Frozen!FreezeInv, Frozen!StoredFirst, Frozen!IsStored
<1>12. Frozen!EvaluationSound'
  BY <1>1, EvaluatorApart DEF Frozen!FreezeInv
<1>. QED BY <1>7, <1>8, <1>9, <1>10, <1>11, <1>12 DEF Frozen!FreezeInv

\* The private stage of a freeze that has stored its benchmark moves to its target.
LEMMA PublishPrivateKeeps ==
    ASSUME Frozen!FreezeInv, NEW f \in Freezer, Frozen!PublishPrivate(f)
    PROVE  Frozen!FreezeInv'
<1>. DEFINE staged == Frozen!Stage(f, "private")
<1>1. CASE privateDir # Frozen!Absent
  BY <1>1, FreezerEnds DEF Frozen!PublishPrivate
<1>2. CASE privateDir = Frozen!Absent
  <2>1. /\ freezer[f].pc = "saved"
        /\ privateDir' = staged /\ aside' = aside \ {staged}
        /\ freezer' = [freezer EXCEPT ![f] = [pc |-> "private"]]
        /\ UNCHANGED <<publicDir, benchmarks, evaluator, handled>>
    BY <1>2 DEF Frozen!PublishPrivate
  <2>2. /\ staged \in aside /\ staged.by = f /\ staged.kind = "private"
    BY <2>1, StageOf DEF Frozen!Awaits
  <2>. HIDE DEF staged
  <2>3. /\ freezer' \in [Freezer -> [pc : {"new", "staged", "saved", "private", "ended"}]]
        /\ freezer'[f] = [pc |-> "private"] /\ freezer'[f].pc = "private"
        /\ \A g \in Freezer : g # f => freezer'[g] = freezer[g]
    BY <2>1, FreezerSteps
  <2>4. staged # Frozen!Absent
    BY <2>2, DirectoriesTyped
  <2>5. Frozen!Directories' = Frozen!Directories
    BY <1>2, <2>1, <2>2, <2>4 DEF Frozen!Directories
  <2>6. Frozen!FreezeTypeOK'
    BY <2>1, <2>3, <2>5, TypeKeeps, DirectoriesTyped DEF Frozen!FreezeInv, Frozen!FreezeTypeOK
  <2>7. Frozen!StagesKept'
    <3>1. \A d \in Frozen!Directories : freezer'[d.by].pc # "new"
      BY <2>3, DirectoriesTyped
    <3>2. publicDir # Frozen!Absent => publicDir.kind = "public" /\ freezer'[publicDir.by] = Frozen!Ended
      <4>1. freezer[f] # Frozen!Ended
        BY <2>1 DEF Frozen!Ended
      <4>. QED BY <2>3, <4>1, DirectoriesTyped DEF Frozen!FreezeInv, Frozen!StagesKept
    <3>3. ASSUME NEW g \in Freezer, NEW kind \in {"private", "public"}, Frozen!Awaits(g, kind)'
          PROVE  \E d \in aside' : /\ d.by = g /\ d.kind = kind
                                  /\ \A e \in aside' : e.by = g /\ e.kind = kind => e = d
      <4>1. Frozen!Awaits(g, kind) /\ ~(g = f /\ kind = "private")
        BY <2>1, <2>3, <3>3 DEF Frozen!Awaits
      <4>2. PICK d \in aside : /\ d.by = g /\ d.kind = kind
                               /\ \A e \in aside : e.by = g /\ e.kind = kind => e = d
        BY <4>1 DEF Frozen!FreezeInv, Frozen!StagesKept
      <4>. QED BY <2>1, <2>2, <4>1, <4>2
    <3>. QED BY <2>1, <2>2, <2>3, <2>5, <3>1, <3>2, <3>3 DEF Frozen!StagesKept
  <2>8. Frozen!PrivateIntact'
    BY <2>1, <2>5 DEF Frozen!FreezeInv, Frozen!PrivateIntact
  <2>9. Frozen!NoncesKept'
    BY <1>2, <2>1, <2>4 DEF Frozen!FreezeInv, Frozen!NoncesKept
  <2>10. Frozen!StoredFirst'
    <3>1. \A d \in aside' : d.kind = "private" /\ freezer'[d.by].pc = "saved" =>
             [id |-> d.manifest.id, cases |-> d.cases] \in benchmarks'
      BY <2>1, <2>3, DirectoriesTyped DEF Frozen!FreezeInv, Frozen!StoredFirst, Frozen!IsStored
    <3>2. [id |-> staged.manifest.id, cases |-> staged.cases] \in benchmarks
      BY <2>1, <2>2 DEF Frozen!FreezeInv, Frozen!StoredFirst, Frozen!IsStored
    <3>3. handled = 0 => publicDir = Frozen!Absent /\ \A g \in Freezer : freezer[g].pc # "private"
      BY <1>2 DEF Frozen!FreezeInv, Frozen!StoredFirst
    <3>4. handled = 0 => \A d, e \in Frozen!Directories : d.by = e.by => d.manifest = e.manifest
      BY DEF Frozen!FreezeInv, Frozen!StoredFirst
    <3>. QED BY <2>1, <2>2, <2>3, <2>4, <2>5, <3>1, <3>2, <3>3, <3>4 DEF Frozen!StoredFirst, Frozen!IsStored
  <2>11. Frozen!EvaluationSound'
    BY <2>1, EvaluatorApart DEF Frozen!FreezeInv
  <2>. QED BY <2>6, <2>7, <2>8, <2>9, <2>10, <2>11 DEF Frozen!FreezeInv
<1>. QED BY <1>1, <1>2

\* The public stage follows, while the private one of the same freeze is still there.
LEMMA PublishPublicKeeps ==
    ASSUME Frozen!FreezeInv, NEW f \in Freezer, Frozen!PublishPublic(f)
    PROVE  Frozen!FreezeInv'
<1>. DEFINE staged == Frozen!Stage(f, "public")
<1>1. CASE publicDir # Frozen!Absent
  BY <1>1, FreezerEnds DEF Frozen!PublishPublic
<1>2. CASE publicDir = Frozen!Absent
  <2>1. /\ freezer[f].pc = "private"
        /\ publicDir' = staged /\ aside' = aside \ {staged}
        /\ freezer' = [freezer EXCEPT ![f] = Frozen!Ended]
        /\ UNCHANGED <<privateDir, benchmarks, evaluator, handled>>
    BY <1>2 DEF Frozen!PublishPublic
  <2>2. /\ staged \in aside /\ staged.by = f /\ staged.kind = "public"
    BY <2>1, StageOf DEF Frozen!Awaits
  <2>. HIDE DEF staged
  <2>3. /\ freezer' \in [Freezer -> [pc : {"new", "staged", "saved", "private", "ended"}]]
        /\ freezer'[f] = Frozen!Ended /\ freezer'[f].pc = "ended"
        /\ \A g \in Freezer : g # f => freezer'[g] = freezer[g]
    BY <2>1, FreezerSteps DEF Frozen!Ended
  <2>4. staged # Frozen!Absent
    BY <2>2, DirectoriesTyped
  <2>5. Frozen!Directories' = Frozen!Directories
    BY <1>2, <2>1, <2>2, <2>4 DEF Frozen!Directories
  <2>6. Frozen!FreezeTypeOK'
    BY <2>1, <2>3, <2>5, TypeKeeps, DirectoriesTyped DEF Frozen!FreezeInv, Frozen!FreezeTypeOK
  <2>7. Frozen!StagesKept'
    <3>1. \A d \in Frozen!Directories : freezer'[d.by].pc # "new"
      BY <2>3, DirectoriesTyped
    <3>2. privateDir # Frozen!Absent =>
             privateDir.kind = "private" /\ freezer'[privateDir.by].pc \in {"private", "ended"}
      BY <2>3, DirectoriesTyped DEF Frozen!FreezeInv, Frozen!StagesKept
    <3>3. ASSUME NEW g \in Freezer, NEW kind \in {"private", "public"}, Frozen!Awaits(g, kind)'
          PROVE  \E d \in aside' : /\ d.by = g /\ d.kind = kind
                                  /\ \A e \in aside' : e.by = g /\ e.kind = kind => e = d
      <4>1. Frozen!Awaits(g, kind) /\ g # f
        BY <2>1, <2>3, <3>3 DEF Frozen!Awaits
      <4>2. PICK d \in aside : /\ d.by = g /\ d.kind = kind
                               /\ \A e \in aside : e.by = g /\ e.kind = kind => e = d
        BY <4>1 DEF Frozen!FreezeInv, Frozen!StagesKept
      <4>. QED BY <2>1, <2>2, <4>1, <4>2
    <3>. QED BY <2>1, <2>2, <2>3, <2>5, <3>1, <3>2, <3>3 DEF Frozen!StagesKept
  <2>8. Frozen!PrivateIntact'
    BY <2>1, <2>5 DEF Frozen!FreezeInv, Frozen!PrivateIntact
  <2>9. Frozen!NoncesKept'
    BY <2>1, <2>2 DEF Frozen!FreezeInv, Frozen!NoncesKept
  <2>10. Frozen!StoredFirst'
    <3>1. \A d \in aside' : d.kind = "private" /\ freezer'[d.by].pc = "saved" =>
             [id |-> d.manifest.id, cases |-> d.cases] \in benchmarks'
      BY <2>1, <2>3, DirectoriesTyped DEF Frozen!FreezeInv, Frozen!StoredFirst, Frozen!IsStored
    <3>2. handled = 0 => privateDir # Frozen!Absent /\ privateDir.by = f
      BY <2>1 DEF Frozen!FreezeInv, Frozen!StoredFirst
    <3>3. \A g \in Freezer : freezer'[g].pc = "private" => freezer[g].pc = "private"
      BY <2>3
    <3>. QED BY <2>1, <2>2, <2>5, <3>1, <3>2, <3>3 DEF Frozen!FreezeInv, Frozen!StoredFirst, Frozen!IsStored
  <2>11. Frozen!EvaluationSound'
    BY <1>2, <2>1, EvaluatorApart DEF Frozen!FreezeInv
  <2>. QED BY <2>6, <2>7, <2>8, <2>9, <2>10, <2>11 DEF Frozen!FreezeInv
<1>. QED BY <1>1, <1>2

\* Each freeze finds its stages among the directories that remain aside.
LEMMA MoveAsideKeeps ==
    ASSUME Frozen!FreezeInv, Frozen!MoveAside
    PROVE  Frozen!FreezeInv'
<1>1. /\ aside' = aside \cup ({privateDir, publicDir} \ {Frozen!Absent})
      /\ privateDir' = Frozen!Absent /\ publicDir' = Frozen!Absent
      /\ evaluator' = Frozen!Swapped /\ handled' = handled + 1
      /\ UNCHANGED <<freezer, benchmarks>>
  BY DEF Frozen!MoveAside
<1>2. Frozen!Directories' = Frozen!Directories
  BY <1>1 DEF Frozen!Directories
<1>3. handled' \in Nat /\ handled' # 0
  BY <1>1 DEF Frozen!FreezeInv, Frozen!FreezeTypeOK
<1>4. Frozen!EvaluationSound' /\ (evaluator' = Frozen!Idle \/ Frozen!IsEvaluation(evaluator'))
  BY <1>1, EvaluatorSwapped DEF Frozen!FreezeInv, Frozen!FreezeTypeOK
<1>5. Frozen!FreezeTypeOK'
  BY <1>1, <1>2, <1>3, <1>4, TypeKeeps, DirectoriesTyped DEF Frozen!FreezeInv, Frozen!FreezeTypeOK
<1>6. ASSUME NEW d \in aside', d \notin aside
      PROVE  /\ freezer[d.by].pc \in {"private", "ended"}
             /\ d.kind = "private" \/ freezer[d.by].pc = "ended"
  BY <1>1, <1>6 DEF Frozen!FreezeInv, Frozen!StagesKept, Frozen!Ended
<1>7. Frozen!StagesKept'
  <2>1. ASSUME NEW g \in Freezer, NEW kind \in {"private", "public"}, Frozen!Awaits(g, kind)'
        PROVE  \E d \in aside' : /\ d.by = g /\ d.kind = kind
                                /\ \A e \in aside' : e.by = g /\ e.kind = kind => e = d
    <3>1. Frozen!Awaits(g, kind)
      BY <1>1, <2>1 DEF Frozen!Awaits
    <3>2. PICK d \in aside : /\ d.by = g /\ d.kind = kind
                             /\ \A e \in aside : e.by = g /\ e.kind = kind => e = d
      BY <3>1 DEF Frozen!FreezeInv, Frozen!StagesKept
    <3>3. \A e \in aside' : e.by = g /\ e.kind = kind => e \in aside
      BY <1>6, <3>1 DEF Frozen!Awaits
    <3>. QED BY <1>1, <3>2, <3>3
  <2>2. \A d \in Frozen!Directories : freezer[d.by].pc # "new"
    BY DirectoriesTyped
  <2>. QED BY <1>1, <1>2, <2>1, <2>2 DEF Frozen!StagesKept
<1>8. Frozen!PrivateIntact'
  BY <1>1, <1>2 DEF Frozen!FreezeInv, Frozen!PrivateIntact
<1>9. Frozen!NoncesKept'
  BY <1>1 DEF Frozen!FreezeInv, Frozen!NoncesKept
<1>10. Frozen!StoredFirst'
  BY <1>1, <1>3, <1>6 DEF Frozen!FreezeInv, Frozen!StoredFirst, Frozen!IsStored
<1>. QED BY <1>4, <1>5, <1>7, <1>8, <1>9, <1>10 DEF Frozen!FreezeInv

\* Recovering the directory of an ended freeze takes no stage from another.
LEMMA RecoverKeeps ==
    ASSUME Frozen!FreezeInv, NEW d \in aside, Frozen!Recover(d)
    PROVE  Frozen!FreezeInv'
<1>1. /\ freezer[d.by] = Frozen!Ended /\ freezer[d.by].pc = "ended"
      /\ aside' = aside \ {d} /\ handled' = handled + 1
      /\ UNCHANGED <<freezer, benchmarks>>
      /\ \/ /\ d.kind = "private" /\ privateDir = Frozen!Absent /\ privateDir' = d
            /\ publicDir' = publicDir /\ evaluator' = evaluator
         \/ /\ d.kind = "public" /\ publicDir = Frozen!Absent /\ publicDir' = d
            /\ privateDir' = privateDir /\ evaluator' = Frozen!Swapped
  BY DEF Frozen!Recover, Frozen!Ended
<1>2. d # Frozen!Absent
  BY DirectoriesTyped
<1>3. Frozen!Directories' = Frozen!Directories
  BY <1>1, <1>2 DEF Frozen!Directories
<1>4. handled' \in Nat /\ handled' # 0
  BY <1>1 DEF Frozen!FreezeInv, Frozen!FreezeTypeOK
<1>5. evaluator = Frozen!Idle \/ Frozen!IsEvaluation(evaluator)
  BY DEF Frozen!FreezeInv, Frozen!FreezeTypeOK
<1>6. Frozen!EvaluationSound' /\ (evaluator' = Frozen!Idle \/ Frozen!IsEvaluation(evaluator'))
  <2>1. CASE evaluator' = evaluator /\ publicDir' = publicDir
    BY <1>5, <2>1, EvaluatorApart DEF Frozen!FreezeInv
  <2>2. CASE evaluator' = Frozen!Swapped
    BY <1>5, <2>2, EvaluatorSwapped DEF Frozen!FreezeInv
  <2>. QED BY <1>1, <2>1, <2>2
<1>7. Frozen!FreezeTypeOK'
  BY <1>1, <1>3, <1>4, <1>6, TypeKeeps, DirectoriesTyped DEF Frozen!FreezeInv, Frozen!FreezeTypeOK
<1>8. Frozen!StagesKept'
  <2>1. ASSUME NEW g \in Freezer, NEW kind \in {"private", "public"}, Frozen!Awaits(g, kind)'
        PROVE  \E x \in aside' : /\ x.by = g /\ x.kind = kind
                                /\ \A e \in aside' : e.by = g /\ e.kind = kind => e = x
    <3>1. Frozen!Awaits(g, kind) /\ g # d.by
      BY <1>1, <2>1 DEF Frozen!Awaits
    <3>2. PICK x \in aside : /\ x.by = g /\ x.kind = kind
                             /\ \A e \in aside : e.by = g /\ e.kind = kind => e = x
      BY <3>1 DEF Frozen!FreezeInv, Frozen!StagesKept
    <3>. QED BY <1>1, <3>1, <3>2
  <2>2. \A x \in Frozen!Directories : freezer[x.by].pc # "new"
    BY DirectoriesTyped
  <2>. QED BY <1>1, <1>3, <2>1, <2>2 DEF Frozen!FreezeInv, Frozen!StagesKept
<1>9. Frozen!PrivateIntact'
  BY <1>1, <1>3 DEF Frozen!FreezeInv, Frozen!PrivateIntact
<1>10. Frozen!NoncesKept'
  BY <1>1, <1>2 DEF Frozen!FreezeInv, Frozen!NoncesKept
<1>11. Frozen!StoredFirst'
  BY <1>1, <1>4 DEF Frozen!FreezeInv, Frozen!StoredFirst, Frozen!IsStored
<1>. QED BY <1>6, <1>7, <1>8, <1>9, <1>10, <1>11 DEF Frozen!FreezeInv

\* An edited public directory is one, of the same freeze.
LEMMA EditedDirectory ==
    ASSUME NEW d, Frozen!IsDirectory(d), d.kind = "public", NEW e \in Frozen!PublicEdits(d)
    PROVE  Frozen!IsDirectory(e) /\ e.kind = "public" /\ e.by = d.by
<1>1. /\ d \in [kind : {"public"}, by : Freezer, manifest : {d.manifest}, cases : {d.cases},
                 commitments : {d.commitments}]
      /\ Frozen!IsCaseFile(d.cases)
  BY DEF Frozen!IsDirectory
<1>2. PICK n \in 0..CaseCount : DOMAIN d.commitments = 1..n
  BY DEF Frozen!IsDirectory
<1>3. CASE e = [d EXCEPT !.cases = <<>>]
  <2>1. e \in [kind : {"public"}, by : Freezer, manifest : {e.manifest}, cases : {e.cases},
               commitments : {e.commitments}]
    BY <1>1, <1>3
  <2>2. e.cases = <<>> /\ e.commitments = d.commitments /\ e.by = d.by /\ e.kind = "public"
    BY <1>1, <1>3
  <2>. QED BY <1>2, <2>1, <2>2, EmptyFile DEF Frozen!IsDirectory
<1>4. CASE e = [d EXCEPT !.commitments = Frozen!Front(@), !.manifest.count = @ - 1, !.manifest.holdout = @ - 1]
  <2>1. e \in [kind : {"public"}, by : Freezer, manifest : {e.manifest}, cases : {e.cases},
               commitments : {e.commitments}]
    BY <1>1, <1>4
  <2>2. e.cases = d.cases /\ e.commitments = Frozen!Front(d.commitments) /\ e.by = d.by /\ e.kind = "public"
    BY <1>1, <1>4
  <2>3. \E m \in 0..CaseCount : DOMAIN e.commitments = 1..m
    <3>1. Len(d.commitments) = n
      BY <1>2
    <3>2. DOMAIN Frozen!Front(d.commitments) = 1..(n - 1)
      BY <3>1 DEF Frozen!Front
    <3>3. CASE n = 0
      BY <2>2, <3>2, <3>3, FreezeConstants
    <3>4. CASE n # 0
      BY <2>2, <3>2, <3>4, FreezeConstants
    <3>. QED BY <3>3, <3>4
  <2>. QED BY <1>1, <2>1, <2>2, <2>3 DEF Frozen!IsDirectory
<1>5. ASSUME NEW line \in DOMAIN d.cases, e = Frozen!Reworded(d, line)
      PROVE  Frozen!IsDirectory(e) /\ e.kind = "public" /\ e.by = d.by
  <2>. DEFINE old == d.cases[line]
              new == Frozen!Reseal(old)
              cs == [d.cases EXCEPT ![line] = new]
              ms == [i \in DOMAIN d.commitments |->
                        IF d.commitments[i].commitment = old.commitment
                        THEN [d.commitments[i] EXCEPT !.commitment = new.commitment]
                        ELSE d.commitments[i]]
  <2>1. e = [d EXCEPT !.cases = cs, !.commitments = ms]
    BY <1>1, <1>5 DEF Frozen!Reworded
  <2>2. new \in Frozen!EvalCase
    <3>1. old \in Frozen!EvalCase
      BY <1>1 DEF Frozen!IsCaseFile
    <3>. DEFINE reworded == [old EXCEPT !.query = "edited"]
    <3>2. "edited" \in Frozen!Query
      BY DEF Frozen!Query
    <3>3. reworded \in Frozen!EvalCase /\ reworded.nonce = old.nonce
      BY <3>1, <3>2 DEF Frozen!EvalCase
    <3>. DEFINE sum == Frozen!ChecksumCase(reworded)
    <3>. HIDE DEF reworded
    <3>4. sum \in Frozen!Checksum
      BY <3>3 DEF Frozen!ChecksumCase, Frozen!Checksum, Frozen!EvalCase
    <3>. HIDE DEF sum
    <3>5. Frozen!CommitmentHash(old.nonce, sum) \in Frozen!Commitment
      <4>1. old.nonce \in Frozen!NonceValue
        BY <3>1 DEF Frozen!EvalCase
      <4>. QED BY <3>4, <4>1 DEF Frozen!CommitmentHash, Frozen!Commitment
    <3>. DEFINE half == [reworded EXCEPT !.checksum = sum]
    <3>6. half \in Frozen!EvalCase
      BY <3>3, <3>4 DEF Frozen!EvalCase
    <3>7. new = [half EXCEPT !.commitment = Frozen!CommitmentHash(old.nonce, sum)]
      BY DEF Frozen!Reseal, reworded, sum
    <3>. HIDE DEF half
    <3>. QED BY <3>5, <3>6, <3>7 DEF Frozen!EvalCase
  <2>. HIDE DEF new
  <2>3. Frozen!IsCaseFile(cs)
    BY <1>1, <2>2 DEF Frozen!IsCaseFile
  <2>4. DOMAIN ms = 1..n
    BY <1>2
  <2>. HIDE DEF cs, ms
  <2>5. /\ e.cases = cs /\ e.commitments = ms /\ e.by = d.by /\ e.kind = "public"
        /\ e \in [kind : {"public"}, by : Freezer, manifest : {e.manifest}, cases : {e.cases},
                  commitments : {e.commitments}]
    BY <1>1, <2>1
  <2>. QED BY <2>3, <2>4, <2>5 DEF Frozen!IsDirectory
<1>. QED BY <1>3, <1>4, <1>5 DEF Frozen!PublicEdits

\* Edits of public files touch no private one.
LEMMA EditPublicKeeps ==
    ASSUME Frozen!FreezeInv, Frozen!EditPublic
    PROVE  Frozen!FreezeInv'
<1>1. /\ publicDir # Frozen!Absent /\ publicDir' \in Frozen!PublicEdits(publicDir)
      /\ evaluator' = Frozen!Swapped /\ handled' = handled + 1
      /\ UNCHANGED <<freezer, aside, privateDir, benchmarks>>
  BY DEF Frozen!EditPublic
<1>2. Frozen!IsDirectory(publicDir) /\ publicDir.kind = "public" /\ publicDir \in Frozen!Directories
  BY <1>1, DirectoriesTyped DEF Frozen!FreezeInv, Frozen!StagesKept
<1>3. Frozen!IsDirectory(publicDir') /\ publicDir'.kind = "public" /\ publicDir'.by = publicDir.by
  BY <1>1, <1>2, EditedDirectory
<1>4. \A d \in Frozen!Directories' : d \in Frozen!Directories \/ d = publicDir'
  BY <1>1 DEF Frozen!Directories
<1>5. handled' \in Nat /\ handled' # 0
  BY <1>1 DEF Frozen!FreezeInv, Frozen!FreezeTypeOK
<1>6. Frozen!EvaluationSound' /\ (evaluator' = Frozen!Idle \/ Frozen!IsEvaluation(evaluator'))
  BY <1>1, EvaluatorSwapped DEF Frozen!FreezeInv, Frozen!FreezeTypeOK
<1>7. Frozen!FreezeTypeOK'
  <2>1. \A d \in Frozen!Directories' : Frozen!IsDirectory(d)
    BY <1>3, <1>4, DirectoriesTyped
  <2>. QED BY <1>1, <1>5, <1>6, <2>1, TypeKeeps, DirectoriesTyped DEF Frozen!FreezeInv, Frozen!FreezeTypeOK
<1>8. Frozen!StagesKept'
  <2>1. \A d \in Frozen!Directories' : freezer'[d.by].pc # "new"
    BY <1>1, <1>2, <1>3, <1>4, DirectoriesTyped
  <2>2. \A g \in Freezer, kind \in {"private", "public"} : Frozen!Awaits(g, kind)' = Frozen!Awaits(g, kind)
    BY <1>1 DEF Frozen!Awaits
  <2>. QED BY <1>1, <1>3, <2>1, <2>2 DEF Frozen!FreezeInv, Frozen!StagesKept
<1>9. Frozen!PrivateIntact'
  BY <1>1, <1>3, <1>4 DEF Frozen!FreezeInv, Frozen!PrivateIntact
<1>10. Frozen!NoncesKept'
  BY <1>1 DEF Frozen!FreezeInv, Frozen!NoncesKept
<1>11. Frozen!StoredFirst'
  BY <1>1, <1>5 DEF Frozen!FreezeInv, Frozen!StoredFirst, Frozen!IsStored
<1>. QED BY <1>6, <1>7, <1>8, <1>9, <1>10, <1>11 DEF Frozen!FreezeInv

\* What is frozen of an authored file.
LEMMA FrozenFile ==
    ASSUME NEW f \in Freezer, NEW id \in BenchmarkId, NEW file \in Authored, Frozen!FreezeAccepts(file)
    PROVE  LET sealed == Frozen!FreezeAuthored(f, id, file)
           IN  DOMAIN sealed = 1..CaseCount /\ Frozen!IsCaseFile(sealed) /\ Frozen!Sealed(sealed)
<1>. DEFINE sealed == Frozen!FreezeAuthored(f, id, file)
<1>1. DOMAIN file = 1..CaseCount
  BY FreezeConstants DEF Frozen!FreezeAccepts
<1>2. DOMAIN sealed = 1..CaseCount /\ \A i \in 1..CaseCount : sealed[i] = Frozen!Seal(f, id, file[i])
  BY <1>1 DEF Frozen!FreezeAuthored
<1>3. sealed = [i \in 1..CaseCount |-> sealed[i]]
  BY <1>1 DEF Frozen!FreezeAuthored
<1>. HIDE DEF sealed
<1>4. ASSUME NEW i \in 1..CaseCount
      PROVE  /\ sealed[i] \in Frozen!EvalCase
             /\ sealed[i].checksum = Frozen!ChecksumCase(sealed[i])
             /\ sealed[i].commitment = Frozen!CommitmentHash(sealed[i].nonce, sealed[i].checksum)
  <2>. DEFINE c == file[i]
              nonce == Frozen!Nonce(f, c.nonce)
              sum == Frozen!ChecksumCase([id |-> id, split |-> c.split, query |-> c.query])
  <2>1. nonce \in Frozen!NonceValue
    <3>. DEFINE Of(a) == {a[j].nonce : j \in DOMAIN a}
    <3>0. c.nonce \in Of(file)
      BY <1>1
    <3>1. c.nonce \in UNION {Of(a) : a \in Authored}
      <4>. HIDE DEF Of, c
      <4>. QED BY <3>0
    <3>. QED BY <3>1 DEF Frozen!Nonce, Frozen!NonceValue
  <2>2. c.query \in Frozen!Query
    <3>. DEFINE Of(a) == {a[j].query : j \in DOMAIN a}
    <3>0. c.query \in Of(file)
      BY <1>1
    <3>1. c.query \in UNION {Of(a) : a \in Authored}
      <4>. HIDE DEF Of, c
      <4>. QED BY <3>0
    <3>. QED BY <3>1 DEF Frozen!Query
  <2>3. c.split \in Frozen!Split
    BY <1>1 DEF Frozen!FreezeAccepts, Frozen!Split
  <2>4. sum = <<id, c.split, c.query>>
    BY DEF Frozen!ChecksumCase
  <2>5. sum \in Frozen!Checksum
    BY <2>2, <2>3, <2>4 DEF Frozen!Checksum
  <2>6. Frozen!CommitmentHash(nonce, sum) \in Frozen!Commitment
    BY <2>1, <2>5 DEF Frozen!CommitmentHash, Frozen!Commitment
  <2>7. sealed[i] = [id |-> id, split |-> c.split, query |-> c.query, nonce |-> nonce,
                     checksum |-> sum, commitment |-> Frozen!CommitmentHash(nonce, sum)]
    BY <1>2 DEF Frozen!Seal
  <2>. HIDE DEF nonce, sum, c
  <2>8. sealed[i] \in Frozen!EvalCase
    BY <2>1, <2>2, <2>3, <2>5, <2>6, <2>7 DEF Frozen!EvalCase
  <2>9. Frozen!ChecksumCase(sealed[i]) = sum
    BY <2>4, <2>7 DEF Frozen!ChecksumCase
  <2>. QED BY <2>7, <2>8, <2>9
<1>5. Frozen!IsCaseFile(sealed)
  <2>1. DOMAIN sealed = 1..CaseCount
    BY <1>2
  <2>2. sealed \in [1..CaseCount -> Frozen!EvalCase]
    BY <1>3, <1>4
  <2>. QED BY <2>1, <2>2 DEF Frozen!IsCaseFile
<1>6. Frozen!Sealed(sealed)
  BY <1>2, <1>4 DEF Frozen!Sealed
<1>. QED BY <1>2, <1>5, <1>6 DEF sealed

\* A new freeze adds its two stages, with one manifest.
LEMMA StageArtifactsKeeps ==
    ASSUME Frozen!FreezeInv, NEW f \in Freezer, NEW id \in BenchmarkId, NEW file \in Authored,
           Frozen!StageArtifacts(f, id, file)
    PROVE  Frozen!FreezeInv'
<1>. DEFINE sealed == Frozen!FreezeAuthored(f, id, file)
            manifest == Frozen!BuildManifest(id, sealed)
            private == Frozen!PrivateArtifacts(f, id, sealed)
            shown == Frozen!PublicArtifacts(f, id, sealed)
<1>1. /\ freezer[f].pc = "new" /\ Frozen!FreezeAccepts(file)
      /\ publicDir = Frozen!Absent /\ privateDir = Frozen!Absent
      /\ aside' = aside \cup {private, shown}
      /\ freezer' = [freezer EXCEPT ![f] = [pc |-> "staged"]]
      /\ UNCHANGED <<privateDir, publicDir, benchmarks, evaluator, handled>>
  BY DEF Frozen!StageArtifacts
<1>2. DOMAIN sealed = 1..CaseCount /\ Frozen!IsCaseFile(sealed) /\ Frozen!Sealed(sealed)
  BY <1>1, FrozenFile
<1>3. private = [kind |-> "private", by |-> f, manifest |-> manifest, cases |-> sealed]
  BY DEF Frozen!PrivateArtifacts
<1>. DEFINE commitments == [i \in DOMAIN sealed |->
                              [split |-> sealed[i].split, commitment |-> sealed[i].commitment]]
            development == Frozen!OfSplit(sealed, "development")
<1>4. shown = [kind |-> "public", by |-> f, manifest |-> manifest, cases |-> development,
               commitments |-> commitments]
  BY DEF Frozen!PublicArtifacts
<1>5. Frozen!IsCaseFile(development)
  <2>1. /\ DOMAIN development \subseteq DOMAIN sealed
        /\ development = [i \in DOMAIN development |-> sealed[i]]
    BY DEF Frozen!OfSplit, Frozen!Restrict, Frozen!LinesOf
  <2>. HIDE DEF development, sealed
  <2>2. /\ \A i \in DOMAIN development : sealed[i] \in Frozen!EvalCase
        /\ DOMAIN development \subseteq 1..CaseCount
    BY <1>2, <2>1 DEF Frozen!IsCaseFile
  <2>3. development \in [DOMAIN development -> Frozen!EvalCase]
    BY <2>1, <2>2
  <2>. QED BY <2>2, <2>3 DEF Frozen!IsCaseFile
<1>6. manifest.id = id /\ DOMAIN commitments = 1..CaseCount
  BY <1>2 DEF Frozen!BuildManifest
<1>. HIDE DEF manifest, development, commitments
<1>7. private = [kind |-> "private", by |-> f, manifest |-> manifest, cases |-> sealed]
      /\ Frozen!IsDirectory(private)
  <2>. HIDE DEF private, sealed
  <2>. QED BY <1>2, <1>3 DEF Frozen!IsDirectory
<1>8. shown.kind = "public" /\ shown.by = f /\ shown.manifest = manifest /\ Frozen!IsDirectory(shown)
  <2>1. CaseCount \in 0..CaseCount
    BY FreezeConstants
  <2>. HIDE DEF shown, sealed
  <2>2. /\ shown.kind = "public" /\ shown.by = f /\ shown.manifest = manifest
        /\ shown.cases = development /\ shown.commitments = commitments
    BY <1>4
  <2>3. shown \in [kind : {"public"}, by : Freezer, manifest : {shown.manifest}, cases : {shown.cases},
                   commitments : {shown.commitments}]
    BY <1>4
  <2>. QED BY <1>5, <1>6, <2>1, <2>2, <2>3 DEF Frozen!IsDirectory
<1>9. /\ private.kind = "private" /\ private.by = f /\ private.manifest = manifest
      /\ private.cases = sealed
  BY <1>7
<1>10. manifest = Frozen!BuildManifest(id, sealed)
  BY DEF manifest
<1>. HIDE DEF private, shown, sealed
<1>11. /\ freezer' \in [Freezer -> [pc : {"new", "staged", "saved", "private", "ended"}]]
       /\ freezer'[f].pc = "staged"
       /\ \A g \in Freezer : g # f => freezer'[g] = freezer[g]
  BY <1>1, FreezerSteps
<1>12. Frozen!Directories' = Frozen!Directories \cup {private, shown}
  BY <1>1 DEF Frozen!Directories
<1>13. \A d \in Frozen!Directories : d.by # f
  BY <1>1, DirectoriesTyped
<1>14. Frozen!FreezeTypeOK'
  <2>1. \A d \in Frozen!Directories' : Frozen!IsDirectory(d)
    BY <1>7, <1>8, <1>12, DirectoriesTyped
  <2>. QED BY <1>1, <1>11, <2>1, TypeKeeps DEF Frozen!FreezeInv, Frozen!FreezeTypeOK
<1>15. Frozen!StagesKept'
  <2>1. \A d \in Frozen!Directories' : freezer'[d.by].pc # "new"
    BY <1>8, <1>9, <1>11, <1>12, <1>13, DirectoriesTyped
  <2>2. ASSUME NEW g \in Freezer, NEW kind \in {"private", "public"}, Frozen!Awaits(g, kind)'
        PROVE  \E d \in aside' : /\ d.by = g /\ d.kind = kind
                                /\ \A e \in aside' : e.by = g /\ e.kind = kind => e = d
    <3>1. CASE g = f
      <4>1. \A d \in aside' : d.by = g => d \in {private, shown}
        BY <1>1, <1>13, <3>1, DirectoriesTyped
      <4>. QED BY <1>1, <1>8, <1>9, <3>1, <4>1
    <3>2. CASE g # f
      <4>1. Frozen!Awaits(g, kind)
        BY <1>11, <2>2, <3>2 DEF Frozen!Awaits
      <4>2. PICK d \in aside : /\ d.by = g /\ d.kind = kind
                               /\ \A e \in aside : e.by = g /\ e.kind = kind => e = d
        BY <4>1 DEF Frozen!FreezeInv, Frozen!StagesKept
      <4>. QED BY <1>1, <1>8, <1>9, <3>2, <4>2
    <3>. QED BY <3>1, <3>2
  <2>. QED BY <1>1, <2>1, <2>2 DEF Frozen!StagesKept
<1>16. Frozen!PrivateIntact'
  BY <1>1, <1>2, <1>6, <1>8, <1>9, <1>10, <1>12 DEF Frozen!FreezeInv, Frozen!PrivateIntact
<1>17. Frozen!NoncesKept'
  BY <1>1 DEF Frozen!FreezeInv, Frozen!NoncesKept
<1>18. Frozen!StoredFirst'
  <2>1. \A d \in aside' : d.kind = "private" /\ freezer'[d.by].pc = "saved" =>
           [id |-> d.manifest.id, cases |-> d.cases] \in benchmarks'
    <3>. SUFFICES ASSUME NEW d \in aside', d.kind = "private", freezer'[d.by].pc = "saved"
                  PROVE  [id |-> d.manifest.id, cases |-> d.cases] \in benchmarks'
      OBVIOUS
    <3>1. d.by # f
      BY <1>11
    <3>2. d \in aside /\ d.by \in Freezer
      BY <1>1, <1>8, <1>9, <3>1, DirectoriesTyped
    <3>3. freezer[d.by].pc = "saved"
      BY <1>11, <3>1, <3>2
    <3>. QED BY <1>1, <3>2, <3>3 DEF Frozen!FreezeInv, Frozen!StoredFirst, Frozen!IsStored
  <2>2. handled = 0 => \A d, e \in Frozen!Directories' : d.by = e.by => d.manifest = e.manifest
    BY <1>8, <1>9, <1>12, <1>13 DEF Frozen!FreezeInv, Frozen!StoredFirst
  <2>3. handled = 0 => \A g \in Freezer : freezer'[g].pc # "private"
    BY <1>1, <1>11 DEF Frozen!FreezeInv, Frozen!StoredFirst
  <2>. QED BY <1>1, <2>1, <2>2, <2>3 DEF Frozen!StoredFirst, Frozen!IsStored
<1>19. Frozen!EvaluationSound'
  BY <1>1, EvaluatorApart DEF Frozen!FreezeInv
<1>. QED BY <1>14, <1>15, <1>16, <1>17, <1>18, <1>19 DEF Frozen!FreezeInv

\* A private input of a holdout evaluation is a file of cases.
LEMMA HoldoutInput ==
    ASSUME Frozen!FreezeInv, NEW lines \in Frozen!BoundedSeq(Frozen!PrivateLines, CaseCount - DevelopmentCases)
    PROVE  Frozen!IsCaseFile(lines)
<1>1. PICK n \in 0..(CaseCount - DevelopmentCases) : lines \in [1..n -> Frozen!PrivateLines]
  BY DEF Frozen!BoundedSeq, Frozen!SeqOf
<1>2. lines \in [1..n -> Frozen!EvalCase]
  BY <1>1, PrivateLinesAreCases
<1>3. DOMAIN lines = 1..n /\ 1..n \subseteq 1..CaseCount
  BY <1>1, FreezeConstants
<1>. QED BY <1>2, <1>3 DEF Frozen!IsCaseFile

-----------------------------------------------------------------------------
\* BenchmarkFreeze: stages wait for their freeze, private directories and stored benchmarks
\* are as they were frozen, a freeze publishes what it has stored, and what an evaluation
\* has loaded fits the manifest it verified, unless the public directory was swapped.
THEOREM FreezeInvariant == Frozen!FreezeSpec => []Frozen!FreezeInv
<1>1. Frozen!FreezeInit => Frozen!FreezeInv
  <2>. SUFFICES ASSUME Frozen!FreezeInit
                PROVE  Frozen!FreezeInv
    OBVIOUS
  <2>1. /\ freezer = [f \in Freezer |-> [pc |-> "new"]] /\ evaluator = Frozen!Idle /\ handled = 0
        /\ aside = {} /\ privateDir = Frozen!Absent /\ publicDir = Frozen!Absent /\ benchmarks = {}
        /\ Frozen!Directories = {}
    BY DEF Frozen!FreezeInit, Frozen!Directories
  <2>2. freezer \in [Freezer -> [pc : {"new", "staged", "saved", "private", "ended"}]]
    BY <2>1
  <2>3. Frozen!FreezeTypeOK
    BY <2>1, <2>2 DEF Frozen!FreezeTypeOK
  <2>4. Frozen!StagesKept
    BY <2>1 DEF Frozen!StagesKept, Frozen!Awaits
  <2>5. Frozen!PrivateIntact /\ Frozen!NoncesKept /\ Frozen!StoredFirst /\ Frozen!EvaluationSound
    BY <2>1 DEF Frozen!PrivateIntact, Frozen!NoncesKept, Frozen!StoredFirst, Frozen!EvaluationSound
  <2>. QED BY <2>3, <2>4, <2>5 DEF Frozen!FreezeInv
<1>2. Frozen!FreezeInv /\ [Frozen!FreezeNext]_(Frozen!freezeVars) => Frozen!FreezeInv'
  <2>. SUFFICES ASSUME Frozen!FreezeInv, [Frozen!FreezeNext]_(Frozen!freezeVars)
                PROVE  Frozen!FreezeInv'
    OBVIOUS
  <2>1. CASE \E f \in Freezer, id \in BenchmarkId, file \in Authored : Frozen!StageArtifacts(f, id, file)
    BY <2>1, StageArtifactsKeeps
  <2>2. CASE \E f \in Freezer : \E outcome \in {"ok", "lost", "refused", "failed"} : Frozen!SaveFrozen(f, outcome)
    BY <2>2, SaveFrozenKeeps
  <2>3. CASE \E f \in Freezer : Frozen!PublishPrivate(f) \/ Frozen!PublishPublic(f)
    BY <2>3, PublishPrivateKeeps, PublishPublicKeeps
  <2>4. CASE \E f \in Freezer : Frozen!FreezerDies(f)
    BY <2>4, FreezerEnds DEF Frozen!FreezerDies
  <2>5. CASE Frozen!MoveAside \/ (\E d \in aside : Frozen!Recover(d)) \/ Frozen!EditPublic
    BY <2>5, MoveAsideKeeps, RecoverKeeps, EditPublicKeeps
  <2>6. CASE Frozen!LoadManifest("development", <<>>)
    BY <2>6, EmptyFile, LoadManifestKeeps
  <2>7. CASE \E lines \in Frozen!BoundedSeq(Frozen!PrivateLines, CaseCount - DevelopmentCases) :
                Frozen!LoadManifest("holdout", lines)
    BY <2>7, HoldoutInput, LoadManifestKeeps
  <2>8. CASE Frozen!LoadCases \/ Frozen!Run \/ Frozen!SaveEvaluation \/ Frozen!EvaluationEnds
    BY <2>8, LoadCasesKeeps, EvaluationKeeps
  <2>9. CASE UNCHANGED Frozen!freezeVars
    <3>1. UNCHANGED <<freezer, aside, privateDir, publicDir, benchmarks, handled, evaluator>>
      BY <2>9 DEF Frozen!freezeVars
    <3>2. evaluator' = Frozen!Idle \/ Frozen!IsEvaluation(evaluator')
      BY <3>1 DEF Frozen!FreezeInv, Frozen!FreezeTypeOK
    <3>3. Frozen!EvaluationSound'
      BY <3>1, EvaluatorApart DEF Frozen!FreezeInv
    <3>. QED BY <3>1, <3>2, <3>3, EvaluatorAlone
  <2>. QED BY <2>1, <2>2, <2>3, <2>4, <2>5, <2>6, <2>7, <2>8, <2>9 DEF Frozen!FreezeNext
<1>. QED BY <1>1, <1>2, PTL DEF Frozen!FreezeSpec

\* The nonces of every stored benchmark are in a private directory, the two published
\* directories are those of one stored freeze until somebody moves them, and a saved
\* evaluation with a stored manifest ran on exactly the cases of its split, for any freezes,
\* files and hand moves.
THEOREM BenchmarksTraceable == Frozen!FreezeSpec => []BenchmarkTraceable
<1>1. Frozen!FreezeInv => BenchmarkTraceable
  <2>. SUFFICES ASSUME Frozen!FreezeInv
                PROVE  Frozen!PublishedTogether /\ Frozen!EvaluatedAsFrozen
    BY DEF BenchmarkTraceable, Frozen!BenchmarkTraceable, Frozen!FreezeInv
  <2>1. Frozen!PublishedTogether
    <3>. SUFFICES ASSUME handled = 0, publicDir # Frozen!Absent
                  PROVE  /\ privateDir # Frozen!Absent /\ privateDir.by = publicDir.by
                         /\ \E b \in benchmarks : /\ publicDir.manifest = Frozen!BuildManifest(b.id, b.cases)
                                                 /\ b.cases = privateDir.cases
      BY DEF Frozen!PublishedTogether
    <3>1. privateDir # Frozen!Absent /\ privateDir.by = publicDir.by
      BY DEF Frozen!FreezeInv, Frozen!StoredFirst
    <3>2. privateDir \in Frozen!Directories /\ publicDir \in Frozen!Directories
      BY <3>1, DirectoriesTyped
    <3>3. privateDir.manifest = publicDir.manifest
      BY <3>1, <3>2 DEF Frozen!FreezeInv, Frozen!StoredFirst
    <3>4. privateDir.kind = "private"
      BY <3>1 DEF Frozen!FreezeInv, Frozen!StagesKept
    <3>5. privateDir.manifest = Frozen!BuildManifest(privateDir.manifest.id, privateDir.cases)
      BY <3>2, <3>4 DEF Frozen!FreezeInv, Frozen!PrivateIntact
    <3>. DEFINE b == [id |-> privateDir.manifest.id, cases |-> privateDir.cases]
    <3>6. b \in benchmarks
      BY <3>1 DEF Frozen!FreezeInv, Frozen!StoredFirst, Frozen!IsStored
    <3>7. b.id = privateDir.manifest.id /\ b.cases = privateDir.cases
      OBVIOUS
    <3>. HIDE DEF b
    <3>. QED BY <3>1, <3>3, <3>5, <3>6, <3>7
  <2>2. Frozen!EvaluatedAsFrozen
    <3>. SUFFICES ASSUME evaluator.pc = "saved", ~evaluator.swapped, NEW b \in benchmarks,
                         evaluator.manifest = Frozen!BuildManifest(b.id, b.cases)
                  PROVE  Frozen!ToSet(evaluator.cases) = Frozen!ToSet(Frozen!OfSplit(b.cases, evaluator.split))
      BY DEF Frozen!EvaluatedAsFrozen
    <3>1. evaluator # Frozen!Idle
      BY DEF Frozen!Idle
    <3>2. Frozen!FitsManifest(evaluator.cases, evaluator.split, evaluator.manifest)
      BY <3>1 DEF Frozen!FreezeInv, Frozen!EvaluationSound
    <3>3. Frozen!IsCaseFile(evaluator.cases) /\ evaluator.split \in {"development", "holdout"}
      BY <3>1 DEF Frozen!FreezeInv, Frozen!FreezeTypeOK, Frozen!IsEvaluation, Frozen!Split
    <3>4. Frozen!IsCaseFile(b.cases) /\ Frozen!Sealed(b.cases)
      BY DEF Frozen!FreezeInv, Frozen!FreezeTypeOK, Frozen!PrivateIntact
    <3>. QED BY <3>2, <3>3, <3>4, FittingIsFrozen
  <2>. QED BY <2>1, <2>2
<1>. QED BY <1>1, FreezeInvariant, PTL
-----------------------------------------------------------------------------
(* DraftCases: where the walks through a corpus lead *)

\* Two steps of a walk at different distances, less than twice the length of the ring
\* apart and not just one round apart, end at different positions.
LEMMA StepsApart ==
    ASSUME NEW n \in Nat \ {0}, NEW a \in Nat, NEW b \in Nat, a < b, b - a < 2 * n, b - a # n
    PROVE  a % n # b % n
<1>. DEFINE p == a \div n
            q == b \div n
<1>1. /\ p \in Int /\ a = n * p + (a % n) /\ a % n \in 0..(n - 1)
      /\ q \in Int /\ b = n * q + (b % n) /\ b % n \in 0..(n - 1)
  BY Z3
<1>2. SUFFICES ASSUME a % n = b % n PROVE FALSE
  OBVIOUS
<1>. HIDE DEF p, q
<1>3. b - a = n * (q - p)
  BY <1>1, <1>2
<1>4. PICK d \in Int : d = q - p
  BY <1>1
<1>5. b - a = n * d
  BY <1>3, <1>4
<1>6. CASE d <= 0
  <2>1. n * d <= 0
    BY <1>6
  <2>. QED BY <1>5, <2>1
<1>7. CASE d = 1
  BY <1>5, <1>7
<1>8. CASE d >= 2
  <2>1. n * d >= 2 * n
    BY <1>8
  <2>. QED BY <1>5, <2>1
<1>. QED BY <1>6, <1>7, <1>8

\* A walk whose first `steps` positions all differ meets at least as many.
LEMMA WalkMeets ==
    ASSUME NEW n \in Nat \ {0}, NEW start \in Nat, NEW stride \in Nat \ {0}, NEW steps \in 1..n,
           \A d \in 1..(steps - 1) : d * stride < 2 * n /\ d * stride # n
    PROVE  /\ IsFiniteSet(Walk(n, start, stride))
           /\ Cardinality(Walk(n, start, stride)) \in Nat
           /\ Cardinality(Walk(n, start, stride)) >= steps
<1>. DEFINE g == [offset \in 1..n |-> (start + offset * stride) % n]
            First == 1..steps
            All == 1..n
            T == {g[i] : i \in First}
            W == {g[i] : i \in All}
<1>1. W = Walk(n, start, stride)
  BY DEF Walk
<1>2. \A i, j \in First : g[i] = g[j] => i = j
  <2>1. \A i, j \in 1..steps : i < j => g[i] # g[j]
    <3>. TAKE i, j \in 1..steps
    <3>. HAVE i < j
    <3>1. j - i \in 1..(steps - 1) /\ i \in 1..n /\ j \in 1..n
      OBVIOUS
    <3>2. PICK a, b \in Nat : a = start + i * stride /\ b = start + j * stride
      BY <3>1
    <3>3. b - a = (j - i) * stride
      BY <3>1, <3>2
    <3>4. (j - i) * stride < 2 * n /\ (j - i) * stride # n
      BY <3>1
    <3>5. (j - i) * stride > 0
      BY <3>1
    <3>6. a % n # b % n
      <4>1. a < b /\ b - a < 2 * n /\ b - a # n
        BY <3>2, <3>3, <3>4, <3>5
      <4>. QED BY <4>1, StepsApart
    <3>7. g[i] = a % n /\ g[j] = b % n
      BY <3>1, <3>2
    <3>. QED BY <3>6, <3>7
  <2>. HIDE DEF g
  <2>. QED BY <2>1
<1>3. IsFiniteSet(First) /\ Cardinality(First) = steps /\ IsFiniteSet(All)
  <2>1. 1 \in Int /\ steps \in Int /\ n \in Int /\ steps >= 1
    OBVIOUS
  <2>2. steps - 1 + 1 = steps
    BY <2>1
  <2>. QED BY <2>1, <2>2, FS_Interval
<1>0. First \subseteq All
  OBVIOUS
<1>. HIDE DEF g, First, All
<1>4. Cardinality(T) = steps
  BY <1>2, <1>3, ImageCounts
<1>5. IsFiniteSet(W) /\ Cardinality(W) \in Nat
  BY <1>3, ImageCounts
<1>6. T \subseteq W
  BY <1>0
<1>. HIDE DEF T, W
<1>7. Cardinality(T) <= Cardinality(W)
  BY <1>5, <1>6, FS_Subset
<1>. QED BY <1>1, <1>4, <1>5, <1>7

\* A source more makes no pool smaller.
LEMMA OneMore ==
    ASSUME NEW S, IsFiniteSet(S), NEW x
    PROVE  Cardinality({x} \cup S) \in Nat /\ Cardinality({x} \cup S) >= Cardinality(S)
<1>1. {x} \cup S = S \cup {x}
  OBVIOUS
<1>2. IsFiniteSet(S \cup {x}) /\ S \subseteq S \cup {x}
  BY FS_AddElement
<1>3. Cardinality(S \cup {x}) \in Nat /\ Cardinality(S \cup {x}) >= Cardinality(S)
  BY <1>2, FS_CardinalityType, FS_Subset
<1>. QED BY <1>1, <1>3

\* The pool of public notes, wherever its walk starts.
LEMMA PublicPoolFills ==
    ASSUME NEW n \in Nat, CorpusAccepted(n), n \notin {193 * 3, 193 * 4, 193 * 5},
           NEW start \in Nat, NEW ordinal \in Nat
    PROVE  Cardinality(PublicPool(n, start, ordinal)) >= PoolSize
<1>. DEFINE stride == 193
            steps == 6
<1>0. 193 * 3 = 579 /\ 193 * 4 = 772 /\ 193 * 5 = 965
  OBVIOUS
<1>1. n \in Nat \ {0} /\ stride \in Nat \ {0} /\ steps \in 1..n
  BY DEF CorpusAccepted, MinimumNotes
<1>2. \A d \in 1..(steps - 1) : d * stride < 2 * n /\ d * stride # n
  <2>1. \A d \in 1..(steps - 1) : d \in {1, 2, 3, 4, 5}
    OBVIOUS
  <2>2. n >= 512 /\ n # 579 /\ n # 772 /\ n # 965
    BY <1>0 DEF CorpusAccepted, MinimumNotes
  <2>. QED BY <2>1, <2>2
<1>. HIDE DEF stride, steps
<1>3. /\ IsFiniteSet(Walk(n, start, stride)) /\ Cardinality(Walk(n, start, stride)) \in Nat
      /\ Cardinality(Walk(n, start, stride)) >= steps
  BY <1>1, <1>2, WalkMeets
<1>4. PublicPool(n, start, ordinal) = {PickNote(n, start, ordinal)} \cup Walk(n, start, stride)
  BY DEF PublicPool, Pool, stride
<1>. QED BY <1>3, <1>4, OneMore DEF PoolSize, steps

\* DraftCases: every accepted corpus fills every pool, whatever its size
\* (buildDraftCase).
THEOREM PoolsFill == \A n, ordinal \in Nat : PoolFillsFor(n, ordinal)
<1>. TAKE n, ordinal \in Nat
<1>1. ASSUME CorpusAccepted(n), n \notin {193 * 3, 193 * 4, 193 * 5}
      PROVE  Cardinality(PublicPool(n, 0, ordinal)) >= PoolSize
  BY <1>1, PublicPoolFills
<1>2. ASSUME n >= TargetCasesPerTask
      PROVE  Cardinality(ProjectPool(n, ordinal)) >= ProjectPoolSize
  <2>1. n \in Nat \ {0} /\ n >= 32 /\ 7 \in Nat \ {0} /\ 5 \in 1..n
    BY <1>2 DEF TargetCasesPerTask
  <2>2. \A d \in 1..(5 - 1) : d * 7 < 2 * n /\ d * 7 # n
    <3>1. \A d \in 1..4 : d \in {1, 2, 3, 4}
      OBVIOUS
    <3>. QED BY <2>1, <3>1
  <2>3. /\ IsFiniteSet(Walk(n, ordinal, 7)) /\ Cardinality(Walk(n, ordinal, 7)) \in Nat
        /\ Cardinality(Walk(n, ordinal, 7)) >= 5
    BY <2>1, <2>2, WalkMeets
  <2>. QED BY <2>3, OneMore DEF ProjectPool, ProjectPoolSize
<1>. QED BY <1>1, <1>2 DEF PoolFillsFor

\* Whole rounds do not move a walk.
LEMMA RoundsDrop ==
    ASSUME NEW n \in Nat \ {0}, NEW m \in Nat, NEW q \in Nat
    PROVE  (m + n * q) % n = m % n
<1>. DEFINE d == m \div n
            r == m % n
            a == m + n * q
<1>1. m = n * d + r /\ r \in 0..(n - 1) /\ d \in Int
  OBVIOUS
<1>. HIDE DEF d, r
<1>2. a = n * (d + q) + r
  BY <1>1
<1>3. d + q \in Int /\ a \in Int
  BY <1>1
<1>. HIDE DEF a
<1>4. a % n = r
  BY <1>1, <1>2, <1>3
<1>. QED BY <1>4 DEF a, r

\* A walk around a ring that is `rounds` strides long meets no more than `rounds` positions.
LEMMA WalkReturns ==
    ASSUME NEW rounds \in Nat \ {0}, NEW stride \in Nat \ {0}, NEW start \in Nat
    PROVE  /\ IsFiniteSet(Walk(rounds * stride, start, stride))
           /\ Cardinality(Walk(rounds * stride, start, stride)) \in Nat
           /\ Cardinality(Walk(rounds * stride, start, stride)) <= rounds
<1>. DEFINE n == rounds * stride
            Steps == 0..(rounds - 1)
            g == [j \in Steps |-> (start + j * stride) % n]
            T == {g[j] : j \in Steps}
<1>1. n \in Nat \ {0}
  <2>1. n > 0
    OBVIOUS
  <2>. QED BY <2>1
<1>2. ASSUME NEW offset \in 1..n PROVE (start + offset * stride) % n \in T
  <2>. DEFINE q == offset \div rounds
              j == offset % rounds
              m == start + j * stride
  <2>1. q \in Nat /\ j \in Steps /\ offset = rounds * q + j
    <3>. HIDE DEF n
    <3>. QED BY <1>1
  <2>. HIDE DEF q, j
  <2>2. start + offset * stride = m + n * q
    <3>0. PICK u \in Nat : u = rounds * q
      BY <2>1
    <3>1. offset * stride = u * stride + j * stride
      BY <2>1, <3>0
    <3>2. u * stride = n * q
      BY <2>1, <3>0
    <3>. QED BY <2>1, <3>1, <3>2
  <2>3. j \in Nat /\ j * stride \in Nat
    BY <2>1
  <2>4. m \in Nat
    BY <2>3
  <2>. HIDE DEF n, m
  <2>5. (m + n * q) % n = m % n
    BY <1>1, <2>1, <2>4, RoundsDrop
  <2>6. g[j] = m % n
    BY <2>1 DEF m
  <2>. QED BY <2>1, <2>2, <2>5, <2>6
<1>3. IsFiniteSet(Steps) /\ Cardinality(Steps) = rounds
  <2>1. 0 \in Int /\ rounds - 1 \in Int /\ ~(0 > rounds - 1) /\ (rounds - 1) - 0 + 1 = rounds
    OBVIOUS
  <2>. QED BY <2>1, FS_Interval
<1>. HIDE DEF Steps, g
<1>4. IsFiniteSet(T) /\ Cardinality(T) \in Nat /\ Cardinality(T) <= rounds
  BY <1>3, ImageCounts
<1>5. Walk(n, start, stride) \subseteq T
  <2>. HIDE DEF n, T
  <2>. QED BY <1>2 DEF Walk
<1>. HIDE DEF T
<1>6. /\ IsFiniteSet(Walk(n, start, stride)) /\ Cardinality(Walk(n, start, stride)) \in Nat
      /\ Cardinality(Walk(n, start, stride)) <= Cardinality(T)
  BY <1>4, <1>5, FS_Subset, FS_CardinalityType
<1>. QED BY <1>3, <1>4, <1>6

\* DraftCases: what the sizes that PoolFillsFor leaves out mean.  In a corpus of 193 times
\* 3, 4 or 5 notes the pool of a case stays too small, and its loop does not end, exactly
\* if the case adds fewer than 3, 2 or 1 sources of its own that the walk does not meet;
\* so a target alone never suffices in the two smaller ones (buildDraftCase).
THEOREM PoolStarves ==
    ASSUME NEW rounds \in {3, 4, 5}, NEW start \in Nat, NEW added, IsFiniteSet(added)
    PROVE  LET n == rounds * 193
           IN  /\ CorpusAccepted(n)
               /\ Cardinality(Pool(n, start, added)) < PoolSize
                     <=> Cardinality(added \ Walk(n, start, 193)) < PoolSize - rounds
               /\ rounds # 5 => \A ordinal \in Nat : Cardinality(PublicPool(n, start, ordinal)) < PoolSize
<1>. DEFINE n == rounds * 193
            stride == 193
            W == Walk(n, start, stride)
<1>1. CorpusAccepted(n)
  BY DEF CorpusAccepted, MinimumNotes
<1>2. stride \in Nat \ {0} /\ rounds \in Nat \ {0} /\ n = rounds * stride /\ n \in Nat \ {0}
  OBVIOUS
<1>3. rounds \in 1..n /\ \A d \in 1..(rounds - 1) : d * stride < 2 * n /\ d * stride # n
  <2>1. \A d \in 1..(rounds - 1) : d \in {1, 2, 3, 4} /\ d < rounds
    OBVIOUS
  <2>. QED BY <2>1
<1>. HIDE DEF n, stride
<1>4. IsFiniteSet(W) /\ Cardinality(W) = rounds
  <2>1. Cardinality(W) \in Nat /\ Cardinality(W) >= rounds
    BY <1>2, <1>3, WalkMeets
  <2>2. IsFiniteSet(W) /\ Cardinality(W) <= rounds
    BY <1>2, WalkReturns
  <2>. QED BY <1>2, <2>1, <2>2
<1>5. \A own : Pool(n, start, own) = own \cup W
  BY DEF Pool, stride
<1>. HIDE DEF W
<1>6. ASSUME NEW own, IsFiniteSet(own)
      PROVE  /\ Cardinality(own \ W) \in Nat
             /\ Cardinality(Pool(n, start, own)) = Cardinality(own \ W) + rounds
  <2>. DEFINE rest == own \ W
  <2>1. IsFiniteSet(rest)
    BY <1>6, FS_Difference
  <2>2. rest \cup W = Pool(n, start, own) /\ rest \cap W = {}
    BY <1>5
  <2>. HIDE DEF rest
  <2>3. Cardinality(rest \cup W) = Cardinality(rest) + Cardinality(W) - Cardinality(rest \cap W)
    BY <1>4, <2>1, FS_Union
  <2>4. Cardinality(rest) \in Nat /\ Cardinality({}) = 0
    BY <2>1, FS_CardinalityType, FS_EmptySet
  <2>5. Cardinality(Pool(n, start, own)) = Cardinality(rest) + rounds
    <3>1. Cardinality(rest \cup W) = Cardinality(rest) + rounds - 0
      BY <1>4, <2>2, <2>3, <2>4
    <3>2. rounds \in Nat /\ Cardinality(rest) \in Nat
      BY <1>2, <2>4
    <3>3. Cardinality(rest \cup W) = Cardinality(rest) + rounds
      BY <3>1, <3>2
    <3>. QED BY <2>2, <3>3
  <2>. QED BY <2>4, <2>5 DEF rest
<1>7. Cardinality(Pool(n, start, added)) < PoolSize <=> Cardinality(added \ W) < PoolSize - rounds
  BY <1>2, <1>6 DEF PoolSize
<1>8. ASSUME rounds # 5, NEW ordinal \in Nat
      PROVE  Cardinality(PublicPool(n, start, ordinal)) < PoolSize
  <2>. DEFINE x == PickNote(n, start, ordinal)
  <2>. HIDE DEF x
  <2>1. IsFiniteSet({x}) /\ Cardinality({x}) = 1
    BY FS_Singleton
  <2>2. Cardinality({x} \ W) \in Nat /\ Cardinality(Pool(n, start, {x})) = Cardinality({x} \ W) + rounds
    BY <1>6, <2>1
  <2>3. Cardinality({x} \ W) <= 1
    <3>1. {x} \ W \subseteq {x}
      OBVIOUS
    <3>. QED BY <2>1, <2>2, <3>1, FS_Subset
  <2>4. rounds <= 4 /\ rounds \in Nat
    BY <1>8
  <2>5. Cardinality(Pool(n, start, {x})) < PoolSize
    BY <2>2, <2>3, <2>4 DEF PoolSize
  <2>. QED BY <2>5 DEF PublicPool, x
<1>. QED BY <1>1, <1>7, <1>8 DEF n, W, stride

-----------------------------------------------------------------------------
(* HybridRanking: recursions over prefixes, and sorting *)

\* What holds at 0 and, from each number below n, at the next, holds up to n.
LEMMA PrefixInduction ==
    ASSUME NEW n \in Nat, NEW S, 0 \in S, \A k \in 1..n : k - 1 \in S => k \in S
    PROVE  0..n \subseteq S
<1>. DEFINE T == {k \in 0..n : k \notin S}
<1>1. SUFFICES ASSUME T # {} PROVE FALSE
  OBVIOUS
<1>2. T \subseteq Nat
  OBVIOUS
<1>3. PICK x \in T : \A y \in T : ~(<<y, x>> \in OpToRel(<, Nat))
  <2>. HIDE DEF T
  <2>. QED BY <1>1, <1>2, NatLessThanWellFounded, WFMin, Zenon
<1>4. \A y \in T : ~(y < x)
  BY <1>2, <1>3, Zenon DEF OpToRel
<1>5. x \in 1..n /\ x - 1 \in 0..n /\ x - 1 < x /\ x \notin S
  OBVIOUS
<1>6. x - 1 \in S
  BY <1>4, <1>5
<1>. QED BY <1>5, <1>6

\* The functions on 0..n that start with x0 and then follow `step`.
Runs(n, X, x0, step) == {f \in [0..n -> X] : f[0] = x0 /\ \A k \in 1..n : f[k] = step[k][f[k - 1]]}

\* A recursion over the prefixes 0..n has a solution.
LEMMA PrefixRecursion ==
    ASSUME NEW n, n \in Nat, NEW X, NEW x0, x0 \in X, NEW step, step \in [1..n -> [X -> X]]
    PROVE  Runs(n, X, x0, step) # {}
<1>. DEFINE S == {m \in 0..n : Runs(m, X, x0, step) # {}}
<1>1. 0 \in S
  <2>. DEFINE f == [k \in 0..0 |-> x0]
  <2>1. f \in [0..0 -> X] /\ f[0] = x0
    OBVIOUS
  <2>2. 0 \in 0..n /\ 1..0 = {}
    OBVIOUS
  <2>. HIDE DEF f
  <2>3. f \in Runs(0, X, x0, step)
    BY <2>1, <2>2 DEF Runs
  <2>. QED BY <2>2, <2>3
<1>2. ASSUME NEW k \in 1..n, k - 1 \in S PROVE k \in S
  <2>1. k \in 0..n
    OBVIOUS
  <2>2. PICK f \in [0..(k - 1) -> X] : f[0] = x0 /\ \A i \in 1..(k - 1) : f[i] = step[i][f[i - 1]]
    BY <1>2 DEF Runs
  <2>. DEFINE g == [i \in 0..k |-> IF i = k THEN step[k][f[k - 1]] ELSE f[i]]
  <2>3. g \in [0..k -> X]
    <3>1. f[k - 1] \in X
      BY <2>2
    <3>2. \A i \in 0..k : i # k => i \in 0..(k - 1)
      OBVIOUS
    <3>. QED BY <3>1, <3>2, <2>2
  <2>4. g[0] = x0
    BY <2>2
  <2>5. ASSUME NEW i \in 1..k PROVE g[i] = step[i][g[i - 1]]
    <3>1. CASE i = k
      <4>1. g[k - 1] = f[k - 1]
        OBVIOUS
      <4>. QED BY <3>1, <4>1
    <3>2. CASE i # k
      <4>1. i \in 1..(k - 1) /\ i \in 0..k /\ i - 1 \in 0..k /\ i - 1 # k
        BY <3>2
      <4>2. g[i] = f[i] /\ g[i - 1] = f[i - 1]
        BY <4>1, <3>2
      <4>. QED BY <2>2, <4>1, <4>2
    <3>. QED BY <3>1, <3>2
  <2>. HIDE DEF g
  <2>6. g \in Runs(k, X, x0, step)
    BY <2>3, <2>4, <2>5 DEF Runs
  <2>. QED BY <2>1, <2>6
<1>. HIDE DEF S
<1>3. 0..n \subseteq S
  BY <1>1, <1>2, PrefixInduction
<1>4. n \in 0..n
  OBVIOUS
<1>. QED BY <1>3, <1>4 DEF S

-----------------------------------------------------------------------------
\* `before` puts the members of S in an order.
Orders(S, before) ==
    /\ \A x \in S : <<x, x>> \notin before
    /\ \A x, y \in S : x = y \/ <<x, y>> \in before \/ <<y, x>> \in before
    /\ \A x, y, z \in S : <<x, y>> \in before /\ <<y, z>> \in before => <<x, z>> \in before

\* InOrder lists the members of a finite set, each once and in order.
LEMMA InOrderSorts ==
    ASSUME NEW S, IsFiniteSet(S), NEW before, Orders(S, before)
    PROVE  LET seq == InOrder(S, before)
           IN  /\ Cardinality(S) \in Nat /\ Len(seq) = Cardinality(S) /\ seq \in Seq(S)
               /\ DOMAIN seq = 1..Cardinality(S)
               /\ ToSet(seq) = S
               /\ \A i, j \in DOMAIN seq : seq[i] = seq[j] => i = j
               /\ \A i, j \in DOMAIN seq : i < j => <<seq[i], seq[j]>> \in before
<1>. DEFINE n == Cardinality(S)
            Below(x) == {y \in S : <<y, x>> \in before}
            rank == [x \in S |-> Cardinality(Below(x))]
            seq == InOrder(S, before)
<1>1. n \in Nat
  BY FS_CardinalityType
<1>2. ASSUME NEW x \in S
      PROVE  IsFiniteSet(Below(x)) /\ Cardinality(Below(x)) \in Nat /\ Cardinality(Below(x)) < n
  <2>1. Below(x) \in SUBSET S /\ x \notin Below(x)
    BY DEF Orders
  <2>2. Below(x) # S
    BY <2>1
  <2>. HIDE DEF Below
  <2>3. IsFiniteSet(Below(x)) /\ Cardinality(Below(x)) <= n /\ Cardinality(Below(x)) # n
    BY <2>1, <2>2, FS_Subset
  <2>4. Cardinality(Below(x)) \in Nat
    BY <2>3, FS_CardinalityType
  <2>. QED BY <1>1, <2>3, <2>4
<1>3. ASSUME NEW x \in S, NEW y \in S, <<x, y>> \in before
      PROVE  Cardinality(Below(x)) < Cardinality(Below(y))
  <2>1. Below(x) \in SUBSET Below(y) /\ x \in Below(y) /\ x \notin Below(x)
    BY <1>3 DEF Orders
  <2>2. Below(x) # Below(y)
    BY <2>1
  <2>3. /\ IsFiniteSet(Below(y)) /\ Cardinality(Below(y)) \in Nat /\ Cardinality(Below(x)) \in Nat
    BY <1>2
  <2>. HIDE DEF Below
  <2>4. Cardinality(Below(x)) <= Cardinality(Below(y)) /\ Cardinality(Below(x)) # Cardinality(Below(y))
    BY <2>1, <2>2, <2>3, FS_Subset
  <2>. QED BY <2>3, <2>4
<1>4. \A x \in S : rank[x] \in 0..(n - 1)
  BY <1>1, <1>2
<1>5. \A x, y \in S : <<x, y>> \in before => rank[x] < rank[y]
  BY <1>3
<1>6. ASSUME NEW x \in S, NEW y \in S
      PROVE  /\ rank[x] = rank[y] => x = y
             /\ rank[x] < rank[y] => <<x, y>> \in before
  <2>1. rank[x] \in Nat /\ rank[y] \in Nat
    BY <1>1, <1>4
  <2>2. (<<x, y>> \in before => rank[x] < rank[y]) /\ (<<y, x>> \in before => rank[y] < rank[x])
    BY <1>5
  <2>3. x = y \/ <<x, y>> \in before \/ <<y, x>> \in before
    BY DEF Orders
  <2>. HIDE DEF rank
  <2>4. ~(rank[x] < rank[x]) /\ ~(rank[x] < rank[y] /\ rank[y] < rank[x])
    BY <2>1
  <2>. QED BY <2>2, <2>3, <2>4
<1>7. /\ \A x, y \in S : rank[x] = rank[y] => x = y
      /\ \A x, y \in S : rank[x] < rank[y] => <<x, y>> \in before
  <2>. HIDE DEF rank
  <2>. QED BY <1>6
<1>8. \A i \in 1..n : \E x \in S : rank[x] = i - 1
  <2>. DEFINE T == 0..(n - 1)
  <2>1. IsFiniteSet(T) /\ Cardinality(T) = n
    <3>1. 0 \in Int /\ n - 1 \in Int /\ (n - 1) - 0 + 1 = n /\ (0 > n - 1 => n = 0)
      BY <1>1
    <3>. HIDE DEF n
    <3>. QED BY <3>1, FS_Interval
  <2>2. rank \in Injection(S, T)
    <3>1. rank \in [S -> T]
      BY <1>4
    <3>. HIDE DEF rank, T
    <3>. QED BY <1>7, <3>1 DEF Injection, IsInjective
  <2>. HIDE DEF rank, T
  <2>3. rank \in Surjection(S, T)
    BY <2>1, <2>2, FS_Injection
  <2>4. \A k \in T : \E x \in S : rank[x] = k
    BY <2>3 DEF Surjection
  <2>5. \A i \in 1..n : i - 1 \in T
    BY <1>1 DEF T
  <2>. QED BY <2>4, <2>5
<1>9. /\ DOMAIN seq = 1..n
      /\ \A i \in 1..n : seq[i] \in S /\ rank[seq[i]] = i - 1
  <2>1. DOMAIN seq = 1..n
    BY DEF InOrder
  <2>2. ASSUME NEW i \in 1..n PROVE seq[i] \in S /\ Cardinality(Below(seq[i])) = i - 1
    <3>1. \E x \in S : Cardinality(Below(x)) = i - 1
      BY <1>8
    <3>. QED BY <3>1 DEF InOrder
  <2>. QED BY <2>1, <2>2
<1>10. seq \in Seq(S) /\ Len(seq) = n
  <2>1. seq \in [1..n -> S]
    <3>1. \A i \in 1..n : (CHOOSE x \in S : Cardinality({y \in S : <<y, x>> \in before}) = i - 1) \in S
      BY <1>9 DEF InOrder
    <3>. QED BY <3>1 DEF InOrder
  <2>. HIDE DEF seq, n
  <2>2. seq \in Seq(S)
    BY <1>1, <2>1
  <2>. QED BY <1>1, <1>9, <2>2, LenProperties
<1>11. ToSet(seq) = S
  <2>1. ToSet(seq) \subseteq S
    BY <1>9 DEF ToSet
  <2>2. ASSUME NEW x \in S PROVE x \in ToSet(seq)
    <3>1. rank[x] + 1 \in 1..n
      BY <1>1, <1>4
    <3>2. rank[seq[rank[x] + 1]] = rank[x] /\ seq[rank[x] + 1] \in S
      <4>. HIDE DEF rank
      <4>. QED BY <3>1, <1>9, <1>4
    <3>3. seq[rank[x] + 1] = x
      BY <1>7, <3>2
    <3>. QED BY <1>9, <3>1, <3>3 DEF ToSet
  <2>. QED BY <2>1, <2>2
<1>12. ASSUME NEW i \in 1..n, NEW j \in 1..n, seq[i] = seq[j] PROVE i = j
  <2>. HIDE DEF rank, seq, n
  <2>1. i - 1 = j - 1
    BY <1>9, <1>12
  <2>. QED BY <1>1, <2>1
<1>13. ASSUME NEW i \in 1..n, NEW j \in 1..n, i < j PROVE <<seq[i], seq[j]>> \in before
  <2>. HIDE DEF rank, seq, n
  <2>1. seq[i] \in S /\ seq[j] \in S /\ rank[seq[i]] = i - 1 /\ rank[seq[j]] = j - 1
    BY <1>9
  <2>2. i - 1 < j - 1
    BY <1>1, <1>13
  <2>. QED BY <1>7, <2>1, <2>2
<1>. QED BY <1>1, <1>9, <1>10, <1>11, <1>12, <1>13

-----------------------------------------------------------------------------
\* The smaller and the larger of two numbers, and the least of three.
LEMMA MinMax ==
    ASSUME NEW a \in Int, NEW b \in Int
    PROVE  /\ Min({a, b}) = (IF a <= b THEN a ELSE b)
           /\ Max({a, b}) = (IF a >= b THEN a ELSE b)
<1>1. Min({a, b}) \in {a, b} /\ Min({a, b}) <= a /\ Min({a, b}) <= b
  <2>1. \E x \in {a, b} : \A y \in {a, b} : x <= y
    OBVIOUS
  <2>. QED BY <2>1 DEF Min
<1>2. Max({a, b}) \in {a, b} /\ Max({a, b}) >= a /\ Max({a, b}) >= b
  <2>1. \E x \in {a, b} : \A y \in {a, b} : x >= y
    OBVIOUS
  <2>. QED BY <2>1 DEF Max
<1>. QED BY <1>1, <1>2

LEMMA MinOfThree ==
    ASSUME NEW a \in Int, NEW b \in Int, NEW c \in Int
    PROVE  Min({a, b, c}) \in Int /\ Min({a, b, c}) <= a
<1>1. \E x \in {a, b, c} : \A y \in {a, b, c} : x <= y
  <2>1. CASE a <= b /\ a <= c
    BY <2>1
  <2>2. CASE b <= a /\ b <= c
    BY <2>2
  <2>3. CASE c <= a /\ c <= b
    BY <2>3
  <2>. QED BY <2>1, <2>2, <2>3
<1>. QED BY <1>1 DEF Min

-----------------------------------------------------------------------------
(* The terms that are searched for *)

LEMMA AppendedPositions ==
    ASSUME NEW query, IsQuery(query), NEW result \in Seq(DOMAIN query),
           NEW positions \in SUBSET DOMAIN query, NEW maximum \in Nat
    PROVE  AppendWeighted(query, result, positions, maximum) \in Seq(DOMAIN query)
<1>. DEFINE S == positions \ ToSet(result)
            before == {p \in S \X S : \/ query[p[1]].idf > query[p[2]].idf
                                      \/ query[p[1]].idf = query[p[2]].idf /\ p[1] < p[2]}
            new == InOrder(S, before)
            room == MaxCandidateTerms - Len(result)
            k == Min({Len(new), maximum, room})
<1>1. IsFiniteSet(S)
  <2>1. 1 \in Int /\ Len(query) \in Int /\ S \in SUBSET (1..Len(query))
    BY DEF IsQuery
  <2>. HIDE DEF S
  <2>. QED BY <2>1, FS_Interval, FS_Subset
<1>2. Orders(S, before)
  <2>1. \A x \in S : x \in Int /\ query[x].idf \in Int
    BY DEF IsQuery
  <2>2. \A x, y \in S : <<x, y>> \in before <=>
                          (query[x].idf > query[y].idf \/ (query[x].idf = query[y].idf /\ x < y))
    OBVIOUS
  <2>. HIDE DEF S, before
  <2>. QED BY <2>1, <2>2 DEF Orders
<1>3. new \in Seq(DOMAIN query) /\ Len(new) \in Nat
  <2>1. S \subseteq DOMAIN query
    OBVIOUS
  <2>. HIDE DEF S, before
  <2>2. new \in Seq(S) /\ Len(new) \in Nat
    BY <1>1, <1>2, InOrderSorts
  <2>. HIDE DEF new
  <2>. QED BY <2>1, <2>2, SeqMonotonic
<1>4. k \in Int /\ k <= Len(new)
  <2>1. room \in Int
    BY LenProperties DEF MaxCandidateTerms
  <2>2. Len(new) \in Int /\ maximum \in Int
    BY <1>3
  <2>. HIDE DEF new, room
  <2>. QED BY <2>1, <2>2, MinOfThree, Zenon
<1>5. AppendWeighted(query, result, positions, maximum) = result \o SubSeq(new, 1, k)
  BY DEF AppendWeighted, ByFrequency
<1>. HIDE DEF new, k
<1>6. SubSeq(new, 1, k) \in Seq(DOMAIN query)
  BY <1>3, <1>4
<1>. QED BY <1>5, <1>6, ConcatProperties

\* Only terms of the query are searched for.
LEMMA TermsOfQuery ==
    ASSUME NEW query, IsQuery(query)
    PROVE  LET terms == SelectCandidateTerms(query)
           IN  /\ Len(terms) \in Nat /\ DOMAIN terms = 1..Len(terms)
               /\ \A k \in DOMAIN terms : \E i \in DOMAIN query : terms[k] = query[i]
<1>. DEFINE subjects == AppendWeighted(query, <<>>, OfKind(query, "subject"), 4)
            numbers == AppendWeighted(query, subjects, OfKind(query, "numeric"), 4)
            chosen == AppendWeighted(query, numbers, Indexed(query), MaxCandidateTerms)
            terms == SelectCandidateTerms(query)
<1>1. /\ OfKind(query, "subject") \in SUBSET DOMAIN query
      /\ OfKind(query, "numeric") \in SUBSET DOMAIN query
      /\ Indexed(query) \in SUBSET DOMAIN query
      /\ 4 \in Nat /\ MaxCandidateTerms \in Nat /\ <<>> \in Seq(DOMAIN query)
  BY DEF OfKind, Indexed, MaxCandidateTerms
<1>2. subjects \in Seq(DOMAIN query)
  BY <1>1, AppendedPositions
<1>3. numbers \in Seq(DOMAIN query)
  <2>. HIDE DEF subjects
  <2>. QED BY <1>1, <1>2, AppendedPositions
<1>4. chosen \in Seq(DOMAIN query)
  <2>. HIDE DEF numbers
  <2>. QED BY <1>1, <1>3, AppendedPositions
<1>5. terms = [k \in DOMAIN chosen |-> query[chosen[k]]]
  BY DEF SelectCandidateTerms
<1>. HIDE DEF chosen, terms
<1>6. Len(chosen) \in Nat /\ DOMAIN chosen = 1..Len(chosen) /\ \A k \in DOMAIN chosen : chosen[k] \in DOMAIN query
  BY <1>4, LenProperties
<1>7. DOMAIN terms = 1..Len(chosen) /\ \A k \in DOMAIN terms : \E i \in DOMAIN query : terms[k] = query[i]
  BY <1>5, <1>6
<1>8. Len(terms) = Len(chosen)
  BY <1>5, <1>6
<1>. QED BY <1>6, <1>7, <1>8 DEF terms

\* Held counts a finite set; what holds a term searched for, holds a term of the query.
LEMMA HeldFinite ==
    ASSUME NEW terms, Len(terms) \in Nat, DOMAIN terms = 1..Len(terms), NEW chunk
    PROVE  IsFiniteSet(Held(chunk, terms)) /\ Cardinality(Held(chunk, terms)) \in Nat
<1>1. 1 \in Int /\ Len(terms) \in Int /\ Held(chunk, terms) \in SUBSET (1..Len(terms))
  BY DEF Held
<1>2. IsFiniteSet(Held(chunk, terms))
  <2>. DEFINE D == 1..Len(terms)
  <2>1. IsFiniteSet(D)
    BY <1>1, FS_Interval
  <2>. QED BY <1>1, <2>1, FS_Subset
<1>. QED BY <1>2, FS_CardinalityType

LEMMA MatchesShare ==
    ASSUME NEW query, IsQuery(query), NEW chunk, Matches(chunk, SelectCandidateTerms(query))
    PROVE  Held(chunk, query) # {}
<1>. DEFINE terms == SelectCandidateTerms(query)
            used == Min({Len(terms), 6})
<1>1. Len(terms) \in Nat /\ \A k \in DOMAIN terms : \E i \in DOMAIN query : terms[k] = query[i]
  BY TermsOfQuery
<1>2. used \in Int /\ Min({2, used}) = (IF 2 <= used THEN 2 ELSE used)
  <2>. HIDE DEF terms
  <2>1. used \in Int
    BY <1>1, MinMax
  <2>. HIDE DEF used
  <2>. QED BY <2>1, MinMax
<1>3. used > 0 /\ Cardinality(Held(chunk, terms) \cap 1..used) >= Min({2, used})
  BY DEF Matches
<1>. HIDE DEF used
<1>4. Held(chunk, terms) \cap 1..used # {}
  <2>1. Cardinality(Held(chunk, terms) \cap 1..used) # 0
    BY <1>2, <1>3
  <2>. QED BY <2>1, FS_EmptySet
<1>5. PICK k \in DOMAIN terms : terms[k].name \in chunk.lexemes
  BY <1>4 DEF Held
<1>. HIDE DEF terms
<1>. QED BY <1>1, <1>5 DEF Held

-----------------------------------------------------------------------------
(* The two lists *)

LEMMA LexicalList ==
    ASSUME NEW search, IsSearch(search)
    PROVE  LET terms == SelectCandidateTerms(search.query)
               list == LexicalCandidates(search, terms)
           IN  /\ ToSet(list) = {c \in search.chunks : Finds(c, search, terms)}
               /\ Len(list) \in Nat /\ DOMAIN list = 1..Len(list)
               /\ \A i, j \in DOMAIN list : list[i] = list[j] => i = j
<1>. DEFINE terms == SelectCandidateTerms(search.query)
            list == LexicalCandidates(search, terms)
            found == {c \in search.chunks : Finds(c, search, terms)}
            before == LexicalOrder(found, terms)
<1>1. Len(terms) \in Nat /\ DOMAIN terms = 1..Len(terms)
  BY TermsOfQuery DEF IsSearch
<1>2. list = InOrder(found, before)
  BY DEF LexicalCandidates
<1>. HIDE DEF terms
<1>3. IsFiniteSet(found)
  BY FS_Subset DEF IsSearch
<1>4. Orders(found, before)
  <2>1. \A c \in found : c.id \in Int /\ c.trigram \in Int /\ FTSScore(c, terms) \in Int
    <3>1. \A c : FTSScore(c, terms) \in Int
      BY <1>1, HeldFinite DEF FTSScore
    <3>. QED BY <3>1 DEF IsSearch
  <2>2. \A c, d \in found : c.id = d.id => c = d
    BY DEF IsSearch
  <2>3. \A c, d \in found : <<c, d>> \in before <=>
          (\/ FTSScore(c, terms) > FTSScore(d, terms)
           \/ FTSScore(c, terms) = FTSScore(d, terms) /\ c.trigram > d.trigram
           \/ FTSScore(c, terms) = FTSScore(d, terms) /\ c.trigram = d.trigram /\ c.id < d.id)
    <3>. HIDE DEF found
    <3>. QED BY <2>1 DEF LexicalOrder
  <2>. HIDE DEF found, before
  <2>. QED BY <2>1, <2>2, <2>3 DEF Orders
<1>. HIDE DEF list, found, before
<1>5. /\ ToSet(list) = found /\ Len(list) = Cardinality(found) /\ DOMAIN list = 1..Cardinality(found)
      /\ Cardinality(found) \in Nat /\ \A i, j \in DOMAIN list : list[i] = list[j] => i = j
  BY <1>2, <1>3, <1>4, InOrderSorts
<1>. QED BY <1>5 DEF list, found, terms

LEMMA VectorList ==
    ASSUME NEW search, IsSearch(search)
    PROVE  LET list == VectorCandidates(search)
           IN  /\ ToSet(list) = Hits(search)
               /\ Len(list) \in Nat /\ DOMAIN list = 1..Len(list)
               /\ \A i, j \in DOMAIN list : list[i] = list[j] => i = j
<1>. DEFINE list == VectorCandidates(search)
            hits == Hits(search)
            before == VectorOrder(hits)
<1>0. hits \subseteq search.chunks
  BY DEF Hits
<1>1. list = InOrder(hits, before)
  BY DEF VectorCandidates
<1>. HIDE DEF hits
<1>2. IsFiniteSet(hits)
  BY <1>0, FS_Subset DEF IsSearch
<1>3. Orders(hits, before)
  <2>1. \A c \in hits : c.id \in Int /\ c.vector \in Int
    BY <1>0 DEF IsSearch
  <2>2. \A c, d \in hits : c.id = d.id => c = d
    BY <1>0 DEF IsSearch
  <2>3. \A c, d \in hits : <<c, d>> \in before <=>
          (c.vector > d.vector \/ (c.vector = d.vector /\ c.id < d.id))
    BY <2>1 DEF VectorOrder
  <2>. HIDE DEF before
  <2>. QED BY <2>1, <2>2, <2>3 DEF Orders
<1>. HIDE DEF list, before
<1>4. /\ ToSet(list) = hits /\ Len(list) = Cardinality(hits) /\ DOMAIN list = 1..Cardinality(hits)
      /\ Cardinality(hits) \in Nat /\ \A i, j \in DOMAIN list : list[i] = list[j] => i = j
  BY <1>1, <1>2, <1>3, InOrderSorts
<1>. QED BY <1>4 DEF list, hits

-----------------------------------------------------------------------------
(* Scores *)

\* No rank is worth more than the first.
LEMMA RRFBound ==
    ASSUME NEW rank, rank \in Nat
    PROVE  RRF(rank) \in Nat /\ RRF(rank) <= 16393
<1>. DEFINE d == 61 + rank
            q == One \div d
<1>1. d \in Nat \ {0} /\ d >= 61
  OBVIOUS
<1>. HIDE DEF d
<1>2. q \in Int /\ One \in Nat
  BY <1>1 DEF One
<1>3. RRF(rank) = q
  BY DEF RRF, d
<1>4. PICK r \in 0..(d - 1) : One = d * q + r
  <2>1. One = d * q + (One % d) /\ (One % d) \in 0..(d - 1)
    BY <1>1, <1>2
  <2>. QED BY <2>1
<1>. HIDE DEF q
<1>5. q >= 0
  <2>1. SUFFICES ASSUME q <= -1 PROVE FALSE
    BY <1>2
  <2>2. d * q <= -d
    BY <1>1, <1>2, <2>1
  <2>. QED BY <1>1, <1>2, <1>4, <2>2
<1>6. q <= 16393
  <2>1. PICK p \in Int : p = rank * q /\ p >= 0
    BY <1>2, <1>5
  <2>2. d * q = 61 * q + p
    BY <1>2, <2>1 DEF d
  <2>3. 61 * q <= One
    BY <1>1, <1>2, <1>4, <2>1, <2>2
  <2>4. 61 * q <= 1000000
    BY <2>3 DEF One
  <2>. QED BY <1>2, <2>4
<1>. QED BY <1>2, <1>3, <1>5, <1>6

LEMMA RankInBound ==
    ASSUME NEW list, Len(list) \in Nat, DOMAIN list = 1..Len(list), NEW chunk
    PROVE  /\ RankIn(list, chunk) \in Nat /\ RankIn(list, chunk) <= 16393
           /\ chunk \notin ToSet(list) => RankIn(list, chunk) = 0
<1>1. CASE chunk \in ToSet(list)
  <2>. DEFINE place == CHOOSE i \in DOMAIN list : list[i] = chunk
  <2>1. place \in DOMAIN list
    BY <1>1 DEF ToSet
  <2>2. RankIn(list, chunk) = RRF(place - 1)
    BY <1>1 DEF RankIn
  <2>. HIDE DEF place
  <2>3. place - 1 \in Nat
    BY <2>1
  <2>. QED BY <1>1, <2>2, <2>3, RRFBound
<1>2. CASE chunk \notin ToSet(list)
  BY <1>2 DEF RankIn
<1>. QED BY <1>1, <1>2

LEMMA FirstRank ==
    ASSUME NEW list, Len(list) \in Nat, DOMAIN list = 1..Len(list), list # <<>>, Len(list) # 0,
           \A i, j \in DOMAIN list : list[i] = list[j] => i = j
    PROVE  list[1] \in ToSet(list) /\ RankIn(list, list[1]) = 16393
<1>1. 1 \in DOMAIN list /\ list[1] \in ToSet(list)
  BY DEF ToSet
<1>2. (CHOOSE i \in DOMAIN list : list[i] = list[1]) = 1
  BY <1>1
<1>3. RankIn(list, list[1]) = RRF(1 - 1)
  BY <1>1, <1>2 DEF RankIn
<1>4. 1 - 1 = 0 /\ RRF(0) = 16393
  BY DEF RRF, One
<1>. QED BY <1>1, <1>3, <1>4

\* The weight of terms is a natural number, that of none 0.
LEMMA WeightType ==
    ASSUME NEW query, IsQuery(query), NEW positions
    PROVE  /\ Weight(query, positions) \in Nat
           /\ positions \cap DOMAIN query = {} => Weight(query, positions) = 0
<1>. DEFINE n == Len(query)
            W(k) == IF k \in positions THEN query[k].idf ELSE 0
            X == IF positions \cap DOMAIN query = {} THEN {0} ELSE Nat
            step == [k \in 1..n |-> [x \in X |-> x + W(k)]]
            Solution(f) == f = [k \in 0..n |-> IF k = 0 THEN 0 ELSE f[k - 1] + W(k)]
            sum == CHOOSE f : Solution(f)
<1>1. n \in Nat /\ 0 \in X /\ X \subseteq Nat
  BY DEF IsQuery
<1>2. \A k \in 1..n, x \in X : x + W(k) \in X
  BY DEF IsQuery
<1>3. \E f : Solution(f)
  <2>1. step \in [1..n -> [X -> X]]
    <3>. HIDE DEF n, W, X
    <3>. QED BY <1>2
  <2>. HIDE DEF n, X, step
  <2>2. PICK f \in [0..n -> X] : f[0] = 0 /\ \A k \in 1..n : f[k] = step[k][f[k - 1]]
    <3>1. Runs(n, X, 0, step) # {}
      BY <1>1, <2>1, PrefixRecursion
    <3>. QED BY <3>1 DEF Runs
  <2>3. \A k \in 1..n : f[k] = f[k - 1] + W(k)
    <3>1. \A k \in 1..n : f[k - 1] \in X
      BY <1>1, <2>2
    <3>. QED BY <2>2, <3>1 DEF step
  <2>. HIDE DEF W
  <2>4. \A k \in 0..n : f[k] = IF k = 0 THEN 0 ELSE f[k - 1] + W(k)
    BY <1>1, <2>2, <2>3
  <2>5. Solution(f)
    BY <2>2, <2>4
  <2>. QED BY <2>5
<1>4. Solution(sum)
  <2>. HIDE DEF Solution
  <2>. QED BY <1>3
<1>. HIDE DEF sum
<1>5. sum[0] = 0 /\ \A k \in 1..n : sum[k] = sum[k - 1] + W(k)
  <2>. HIDE DEF W
  <2>1. 0 \in 0..n /\ \A k \in 1..n : k \in 0..n /\ k # 0
    BY <1>1
  <2>. QED BY <1>4, <2>1
<1>6. \A k \in 0..n : sum[k] \in X
  <2>. DEFINE S == {k \in 0..n : sum[k] \in X}
  <2>1. 0 \in S
    BY <1>1, <1>5
  <2>2. ASSUME NEW k \in 1..n, k - 1 \in S PROVE k \in S
    <3>. HIDE DEF n, W, X
    <3>1. k \in 0..n /\ sum[k - 1] \in X
      BY <1>1, <2>2
    <3>2. sum[k] = sum[k - 1] + W(k)
      BY <1>5
    <3>3. sum[k] \in X
      BY <1>2, <3>1, <3>2
    <3>. QED BY <3>1, <3>3
  <2>. HIDE DEF S
  <2>3. 0..n \subseteq S
    BY <1>1, <2>1, <2>2, PrefixInduction
  <2>. QED BY <2>3 DEF S
<1>7. Weight(query, positions) = sum[n]
  BY DEF Weight, sum
<1>8. Weight(query, positions) \in X
  BY <1>1, <1>6, <1>7
<1>. QED BY <1>1, <1>8

LEMMA TotalWeightPositive ==
    ASSUME NEW query, IsQuery(query)
    PROVE  TotalWeight(query) \in Nat \ {0}
<1>. DEFINE missing == {i \in DOMAIN query : query[i].idf = 0}
            w == Weight(query, Indexed(query))
            t == w + MissingTermWeight * Cardinality(missing)
<1>1. Cardinality(missing) \in Nat
  <2>1. 1 \in Int /\ Len(query) \in Int /\ missing \in SUBSET (1..Len(query))
    BY DEF IsQuery
  <2>. HIDE DEF missing
  <2>. QED BY <2>1, FS_Interval, FS_Subset, FS_CardinalityType
<1>2. w \in Nat
  BY WeightType
<1>. HIDE DEF missing, w
<1>3. t \in Nat
  BY <1>1, <1>2 DEF MissingTermWeight
<1>4. TotalWeight(query) = Max({1, t})
  BY DEF TotalWeight, missing, w
<1>. HIDE DEF t
<1>5. Max({1, t}) = IF 1 >= t THEN 1 ELSE t
  BY <1>3, MinMax
<1>. QED BY <1>3, <1>4, <1>5

LEMMA ClampBound ==
    ASSUME NEW x \in Int
    PROVE  Clamp(x) \in 0..One /\ (x <= 0 => Clamp(x) = 0) /\ (x >= 0 => Clamp(x) <= x)
           /\ (x \in 0..One => Clamp(x) = x)
<1>1. One \in Nat
  BY DEF One
<1>. QED BY <1>1 DEF Clamp

\* The part of the words is a share of One, and at most 0.22 for a chunk that holds no
\* word of the query, is of no hinted note and is no lexical candidate.
LEMMA LexicalConfidenceBound ==
    ASSUME NEW search, IsSearch(search), NEW candidate, candidate.fts \in Nat, candidate.trigram \in Int
    PROVE  /\ LexicalConfidence(candidate, search) \in 0..One
           /\ /\ candidate.fts = 0 /\ candidate.trigram = 0
              /\ candidate.chunk.note \notin search.hinted
              /\ Held(candidate.chunk, search.query) = {}
              => LexicalConfidence(candidate, search) <= 220000
<1>. DEFINE held == Held(candidate.chunk, search.query)
            matched == Weight(search.query, held)
            total == TotalWeight(search.query)
            coverage == (matched * One) \div total
            f == candidate.fts \div 1000
            fts == (f * One) \div (f + 250)
            tri == Clamp(candidate.trigram)
            hinted == IF candidate.chunk.note \in search.hinted THEN 340000 ELSE 0
            preferred == IF candidate.chunk.preferred THEN 140000 ELSE 0
            positioned == IF search.positioned /\ candidate.chunk.position THEN 80000 ELSE 0
            hints == hinted + preferred + positioned
            x == (coverage * 78 + fts * 14 + tri * 8) \div 100 + hints
<1>1. matched \in Nat /\ total \in Nat \ {0} /\ (held = {} => matched = 0)
  BY WeightType, TotalWeightPositive DEF IsSearch
<1>2. LexicalConfidence(candidate, search) = Clamp(x)
  BY DEF LexicalConfidence
<1>3. hints \in Nat /\ (candidate.chunk.note \notin search.hinted => hints <= 220000)
  OBVIOUS
<1>4. tri \in Int /\ (candidate.trigram = 0 => tri = 0)
  BY ClampBound
<1>5. f \in Nat /\ (candidate.fts = 0 => f = 0)
  OBVIOUS
<1>. HIDE DEF hints, tri, f, held, matched, total
<1>6. fts \in Int /\ (candidate.fts = 0 => fts = 0)
  BY <1>5 DEF One
<1>7. coverage \in Int /\ (held = {} => coverage = 0)
  <2>1. coverage \in Int
    BY <1>1 DEF One
  <2>2. ASSUME held = {} PROVE coverage = 0
    <3>1. matched * One = 0
      BY <1>1, <2>2 DEF One
    <3>2. 0 \div total = 0
      BY <1>1
    <3>. QED BY <3>1, <3>2
  <2>. QED BY <2>1, <2>2
<1>. HIDE DEF fts, coverage
<1>8. x \in Int
  BY <1>3, <1>4, <1>6, <1>7
<1>9. ASSUME candidate.fts = 0, candidate.trigram = 0, candidate.chunk.note \notin search.hinted, held = {}
      PROVE  x <= 220000 /\ x >= 0
  BY <1>3, <1>4, <1>6, <1>7, <1>9
<1>. HIDE DEF x
<1>10. Clamp(x) \in 0..One /\ (x >= 0 => Clamp(x) <= x)
  BY <1>8, ClampBound
<1>11. ASSUME candidate.fts = 0, candidate.trigram = 0, candidate.chunk.note \notin search.hinted, held = {}
       PROVE  Clamp(x) <= 220000
  BY <1>8, <1>9, <1>10, <1>11
<1>. QED BY <1>2, <1>10, <1>11 DEF held

\* What a confidence of 0.6 takes: both lists, or one list and the vector store; the last
\* two bounds are those of AnswerSoundFor.
LEMMA ConfidenceBounds ==
    ASSUME NEW search, IsSearch(search), NEW candidate, candidate.fts \in Nat, candidate.trigram \in Int,
           candidate.vector \in Int, candidate.rrf \in Nat
    PROVE  /\ Confidence(candidate, search) \in Int
           /\ candidate.rrf <= 16393 /\ candidate.vector <= 0 => Confidence(candidate, search) < 600000
           /\ candidate.rrf <= 16393 /\ LexicalConfidence(candidate, search) <= 220000
              /\ Confidence(candidate, search) >= 600000 => candidate.vector >= 940000
           /\ candidate.rrf = 32786 /\ candidate.vector >= 430000 => Confidence(candidate, search) >= 600000
<1>. DEFINE l == LexicalConfidence(candidate, search)
            v == Clamp(candidate.vector)
            half == (candidate.rrf * 61) \div 2
            r == Clamp(half)
            x == (r * 45 + v * 35 + l * 20) \div 100
<1>1. l \in Int /\ l >= 0 /\ l <= 1000000
  <2>1. l \in 0..One
    BY LexicalConfidenceBound
  <2>. HIDE DEF l
  <2>2. One \in Nat
    BY DEF One
  <2>3. l \in Int /\ l >= 0 /\ l <= One
    BY <2>1, <2>2
  <2>. QED BY <2>3 DEF One
<1>2. /\ v \in Int /\ v >= 0 /\ v <= 1000000 /\ (candidate.vector <= 0 => v = 0)
      /\ (candidate.vector >= 0 => v <= candidate.vector)
      /\ (candidate.vector >= 430000 => v >= 430000)
  BY DEF Clamp, One
<1>3. half \in Nat /\ (candidate.rrf <= 16393 => half <= 499986) /\ (candidate.rrf = 32786 => half = 999973)
  OBVIOUS
<1>. HIDE DEF half
<1>4. r \in Nat /\ (candidate.rrf <= 16393 => r <= 499986) /\ (candidate.rrf = 32786 => r = 999973)
  BY <1>3 DEF Clamp, One
<1>5. Confidence(candidate, search) = x
  BY DEF Confidence, half
<1>. HIDE DEF l, v, r
<1>6. x \in Int
  BY <1>1, <1>2, <1>4
<1>7. ASSUME candidate.rrf <= 16393, candidate.vector <= 0 PROVE x < 600000
  BY <1>1, <1>2, <1>4, <1>7
<1>8. ASSUME candidate.rrf <= 16393, l <= 220000, x >= 600000 PROVE candidate.vector >= 940000
  <2>1. v >= 940000
    BY <1>1, <1>2, <1>4, <1>8
  <2>. QED BY <1>2, <2>1
<1>9. ASSUME candidate.rrf = 32786, candidate.vector >= 430000 PROVE x >= 600000
  BY <1>1, <1>2, <1>4, <1>9
<1>. HIDE DEF x
<1>. QED BY <1>5, <1>6, <1>7, <1>8, <1>9 DEF l

-----------------------------------------------------------------------------
(* The candidates and their ranks *)

\* What a candidate of a search has to do with its chunk.
CandidateOf(candidate, search) ==
    LET chunk == candidate.chunk
    IN  /\ chunk \in search.chunks
        /\ candidate.fts \in Nat /\ candidate.trigram \in Int /\ candidate.vector \in Int
        /\ candidate.rrf \in Nat
        /\ chunk \notin Hits(search) => candidate.vector = 0 /\ candidate.rrf <= 16393
        /\ candidate.vector \in {0, chunk.vector}
        /\ Held(chunk, search.query) = {} /\ chunk.note \notin search.hinted =>
              candidate.fts = 0 /\ candidate.trigram = 0 /\ candidate.rrf <= 16393

LEMMA Candidates ==
    ASSUME NEW search, IsSearch(search)
    PROVE  LET terms == SelectCandidateTerms(search.query)
               lexical == LexicalCandidates(search, terms)
               vector == VectorCandidates(search)
               merged == Merge(lexical, vector, terms)
           IN  /\ IsFiniteSet(merged)
               /\ \A c \in merged : CandidateOf(c, search)
               /\ \A c, d \in merged : c.chunk = d.chunk => c = d
               /\ lexical # <<>> /\ vector # <<>> /\ lexical[1] = vector[1] =>
                     \E c \in merged : /\ c.chunk = vector[1] /\ c.rrf = 32786
                                       /\ vector[1].vector > 0 => c.vector = vector[1].vector
<1>. DEFINE terms == SelectCandidateTerms(search.query)
            lexical == LexicalCandidates(search, terms)
            vector == VectorCandidates(search)
            found == ToSet(lexical) \cup ToSet(vector)
            cand == [c \in found |->
                      [chunk |-> c,
                       fts |-> IF c \in ToSet(lexical) THEN FTSScore(c, terms) ELSE 0,
                       trigram |-> IF c \in ToSet(lexical) THEN c.trigram ELSE 0,
                       vector |-> Similarity(lexical, vector, c),
                       rrf |-> RankIn(lexical, c) + RankIn(vector, c)]]
            merged == Merge(lexical, vector, terms)
<1>1. /\ ToSet(lexical) = {c \in search.chunks : Finds(c, search, terms)}
      /\ Len(lexical) \in Nat /\ DOMAIN lexical = 1..Len(lexical)
      /\ \A i, j \in DOMAIN lexical : lexical[i] = lexical[j] => i = j
  BY LexicalList
<1>2. /\ ToSet(vector) = Hits(search) /\ Hits(search) \subseteq search.chunks
      /\ Len(vector) \in Nat /\ DOMAIN vector = 1..Len(vector)
      /\ \A i, j \in DOMAIN vector : vector[i] = vector[j] => i = j
  BY VectorList DEF Hits
<1>3. merged = {cand[c] : c \in found}
  BY DEF Merge
<1>4. \A c : FTSScore(c, terms) \in Nat
  <2>1. Len(terms) \in Nat /\ DOMAIN terms = 1..Len(terms)
    BY TermsOfQuery DEF IsSearch
  <2>. HIDE DEF terms
  <2>2. \A c : Cardinality(Held(c, terms)) \in Nat
    BY <2>1, HeldFinite
  <2>. QED BY <2>2 DEF FTSScore
<1>5. \A c \in ToSet(lexical) : Held(c, search.query) # {} \/ c.note \in search.hinted
  BY <1>1, MatchesShare DEF Finds, IsSearch
<1>. HIDE DEF terms, lexical, vector
<1>6. ASSUME NEW c \in found
      PROVE  CandidateOf(cand[c], search) /\ cand[c].chunk = c
  <2>1. c \in search.chunks /\ c.trigram \in Int /\ c.vector \in Int
    BY <1>1, <1>2 DEF IsSearch
  <2>2. /\ Similarity(lexical, vector, c) \in {0, c.vector}
        /\ c \notin ToSet(vector) => Similarity(lexical, vector, c) = 0
    BY DEF Similarity
  <2>3. /\ RankIn(lexical, c) \in Nat /\ RankIn(lexical, c) <= 16393
        /\ c \notin ToSet(lexical) => RankIn(lexical, c) = 0
    BY <1>1, RankInBound
  <2>4. /\ RankIn(vector, c) \in Nat /\ RankIn(vector, c) <= 16393
        /\ c \notin ToSet(vector) => RankIn(vector, c) = 0
    BY <1>2, RankInBound
  <2>5. /\ cand[c].chunk = c
        /\ cand[c].fts = IF c \in ToSet(lexical) THEN FTSScore(c, terms) ELSE 0
        /\ cand[c].trigram = IF c \in ToSet(lexical) THEN c.trigram ELSE 0
        /\ cand[c].vector = Similarity(lexical, vector, c)
        /\ cand[c].rrf = RankIn(lexical, c) + RankIn(vector, c)
    OBVIOUS
  <2>. HIDE DEF cand, found
  <2>6. /\ cand[c].fts \in Nat /\ cand[c].trigram \in Int /\ cand[c].vector \in Int /\ cand[c].rrf \in Nat
    BY <1>4, <2>1, <2>2, <2>3, <2>4, <2>5
  <2>7. ASSUME c \notin Hits(search) PROVE cand[c].vector = 0 /\ cand[c].rrf <= 16393
    BY <1>2, <2>2, <2>3, <2>4, <2>5, <2>7
  <2>8. cand[c].vector \in {0, c.vector}
    BY <2>2, <2>5
  <2>9. ASSUME Held(c, search.query) = {}, c.note \notin search.hinted
        PROVE  cand[c].fts = 0 /\ cand[c].trigram = 0 /\ cand[c].rrf <= 16393
    <3>1. c \notin ToSet(lexical)
      BY <1>5, <2>9
    <3>. QED BY <2>3, <2>4, <2>5, <3>1
  <2>. QED BY <2>1, <2>5, <2>6, <2>7, <2>8, <2>9 DEF CandidateOf
<1>. HIDE DEF cand, merged
<1>7. IsFiniteSet(merged)
  <2>1. found \in SUBSET search.chunks
    BY <1>1, <1>2
  <2>. HIDE DEF found
  <2>2. IsFiniteSet(found)
    BY <2>1, FS_Subset DEF IsSearch
  <2>. QED BY <1>3, <2>2, ImageCounts
<1>8. ASSUME lexical # <<>>, vector # <<>>, lexical[1] = vector[1]
      PROVE  \E c \in merged : /\ c.chunk = vector[1] /\ c.rrf = 32786
                               /\ vector[1].vector > 0 => c.vector = vector[1].vector
  <2>1. Len(lexical) # 0 /\ Len(vector) # 0
    BY <1>8, <1>1, <1>2
  <2>2. lexical[1] \in ToSet(lexical) /\ RankIn(lexical, lexical[1]) = 16393
    BY <1>8, <1>1, <2>1, FirstRank
  <2>3. vector[1] \in ToSet(vector) /\ RankIn(vector, vector[1]) = 16393
    BY <1>8, <1>2, <2>1, FirstRank
  <2>4. vector[1] \in found /\ cand[vector[1]] \in merged
    BY <1>3, <2>3
  <2>5. cand[vector[1]].rrf = 32786
    <3>1. cand[vector[1]].rrf = RankIn(lexical, vector[1]) + RankIn(vector, vector[1])
      BY <2>4 DEF cand
    <3>. QED BY <1>8, <2>2, <2>3, <3>1
  <2>6. vector[1].vector > 0 => cand[vector[1]].vector = vector[1].vector
    BY <2>3, <2>4 DEF cand, Similarity
  <2>. QED BY <1>6, <2>4, <2>5, <2>6
<1>. HIDE DEF found
<1>9. \A c \in merged : CandidateOf(c, search)
  BY <1>3, <1>6
<1>10. \A c, d \in merged : c.chunk = d.chunk => c = d
  BY <1>3, <1>6
<1>. QED BY <1>7, <1>8, <1>9, <1>10 DEF terms, lexical, vector, merged

\* The ranks of the candidates: each candidate once, the most confident first.
LEMMA Ranks ==
    ASSUME NEW search, IsSearch(search), NEW merged, IsFiniteSet(merged),
           \A c \in merged : CandidateOf(c, search),
           \A c, d \in merged : c.chunk = d.chunk => c = d
    PROVE  LET ranked == Rank(merged, search)
           IN  /\ Len(ranked) \in Nat /\ DOMAIN ranked = 1..Len(ranked)
               /\ \A k \in DOMAIN ranked : \E c \in merged :
                     ranked[k].chunk = c.chunk /\ ranked[k].confidence = Confidence(c, search)
               /\ \A c \in merged : \E k \in DOMAIN ranked :
                     ranked[k].chunk = c.chunk /\ ranked[k].confidence = Confidence(c, search)
               /\ \A k \in DOMAIN ranked :
                     ranked[k].confidence \in Int /\ ranked[1].confidence >= ranked[k].confidence
<1>. DEFINE result == [c \in merged |-> [chunk |-> c.chunk, confidence |-> Confidence(c, search)]]
            scored == {result[c] : c \in merged}
            before == ResultOrder(scored)
            ranked == InOrder(scored, before)
<1>1. Rank(merged, search) = ranked
  <2>1. {[chunk |-> c.chunk, confidence |-> Confidence(c, search)] : c \in merged} = scored
    OBVIOUS
  <2>. QED BY <2>1, Zenon DEF Rank
<1>2. \A c \in merged : result[c].chunk = c.chunk /\ result[c].confidence = Confidence(c, search)
  OBVIOUS
<1>3. \A c \in merged : c.chunk \in search.chunks /\ Confidence(c, search) \in Int
  <2>. TAKE c \in merged
  <2>1. c.fts \in Nat /\ c.trigram \in Int /\ c.vector \in Int /\ c.rrf \in Nat /\ c.chunk \in search.chunks
    BY DEF CandidateOf
  <2>. QED BY <2>1, ConfidenceBounds
<1>. HIDE DEF result
<1>4. IsFiniteSet(scored)
  BY ImageCounts
<1>5. Orders(scored, before)
  <2>1. \A r \in scored : r.confidence \in Int /\ r.chunk.id \in Int
    BY <1>2, <1>3 DEF IsSearch
  <2>2. \A r, s \in scored : r.chunk.id = s.chunk.id => r = s
    <3>. SUFFICES ASSUME NEW c \in merged, NEW d \in merged, result[c].chunk.id = result[d].chunk.id
                  PROVE  result[c] = result[d]
      OBVIOUS
    <3>1. c.chunk = d.chunk
      BY <1>2, <1>3 DEF IsSearch
    <3>. QED BY <3>1
  <2>3. \A r, s \in scored : <<r, s>> \in before <=>
          (r.confidence > s.confidence \/ (r.confidence = s.confidence /\ r.chunk.id < s.chunk.id))
    <3>. HIDE DEF scored
    <3>. QED BY DEF ResultOrder
  <2>. HIDE DEF scored, before
  <2>. QED BY <2>1, <2>2, <2>3 DEF Orders
<1>. HIDE DEF ranked, before
<1>6. /\ ToSet(ranked) = scored /\ Len(ranked) \in Nat /\ DOMAIN ranked = 1..Len(ranked)
      /\ \A i, j \in DOMAIN ranked : i < j => <<ranked[i], ranked[j]>> \in before
  <2>. HIDE DEF scored
  <2>. QED BY <1>4, <1>5, InOrderSorts DEF ranked
<1>7. \A k \in DOMAIN ranked : \E c \in merged : ranked[k] = result[c]
  BY <1>6 DEF ToSet
<1>8. \A c \in merged : \E k \in DOMAIN ranked : ranked[k] = result[c]
  BY <1>6 DEF ToSet
<1>9. ASSUME NEW k \in DOMAIN ranked
      PROVE  ranked[k].confidence \in Int /\ ranked[1].confidence >= ranked[k].confidence
  <2>1. 1 \in DOMAIN ranked /\ k \in Nat /\ (k = 1 \/ 1 < k)
    BY <1>6
  <2>2. ranked[k].confidence \in Int /\ ranked[1].confidence \in Int
    BY <1>2, <1>3, <1>7, <2>1
  <2>3. CASE 1 < k
    <3>1. <<ranked[1], ranked[k]>> \in before
      BY <1>6, <2>1, <2>3
    <3>2. ranked[1].confidence >= ranked[k].confidence
      <4>. HIDE DEF scored
      <4>. QED BY <2>2, <3>1 DEF before, ResultOrder
    <3>. QED BY <2>2, <3>2
  <2>. QED BY <2>1, <2>2, <2>3
<1>. HIDE DEF scored
<1>. QED BY <1>1, <1>2, <1>6, <1>7, <1>8, <1>9

\* What selectDiverse keeps: a rank joins those before it exactly if it may.
Greedy(kept, ranked, limit) ==
    /\ kept \subseteq 1..Len(ranked)
    /\ \A k \in 1..Len(ranked) :
          LET before == {j \in kept : j < k}
          IN  /\ k \in kept <=> Takes(ranked, limit, before, k)
              /\ Cardinality(before) \in Nat /\ Cardinality(before) <= limit
              /\ \A note : LET same == {i \in before : ranked[i].chunk.note = note}
                           IN  Cardinality(same) \in Nat /\ Cardinality(same) <= MaxChunksPerNote

LEMMA Selected ==
    ASSUME NEW ranked, NEW limit, limit \in Nat \ {0}, Len(ranked) \in Nat
    PROVE  Greedy(SelectDiverse(ranked, limit), ranked, limit)
<1>. DEFINE n == Len(ranked)
            X == SUBSET (1..n)
            Next1(x, k) == x \cup {j \in {k} : Takes(ranked, limit, x, j)}
            step == [k \in 1..n |-> [x \in X |-> Next1(x, k)]]
            Solution(f) == f = [k \in 0..n |-> IF k = 0 THEN {} ELSE Next1(f[k - 1], k)]
            kept == CHOOSE f : Solution(f)
            Same(x, note) == {i \in x : ranked[i].chunk.note = note}
<1>1. n \in Nat /\ {} \in X
  OBVIOUS
<1>2. \A k \in 1..n, x \in X : Next1(x, k) \in X
  OBVIOUS
<1>3. \E f : Solution(f)
  <2>1. step \in [1..n -> [X -> X]]
    <3>. HIDE DEF n, Next1, X
    <3>. QED BY <1>2
  <2>. HIDE DEF n, X, step
  <2>2. PICK f \in [0..n -> X] : f[0] = {} /\ \A k \in 1..n : f[k] = step[k][f[k - 1]]
    <3>1. Runs(n, X, {}, step) # {}
      BY <1>1, <2>1, PrefixRecursion
    <3>. QED BY <3>1 DEF Runs
  <2>3. \A k \in 1..n : f[k] = Next1(f[k - 1], k)
    <3>1. \A k \in 1..n : f[k - 1] \in X
      BY <1>1, <2>2
    <3>. HIDE DEF Next1
    <3>. QED BY <2>2, <3>1 DEF step
  <2>. HIDE DEF Next1
  <2>4. \A k \in 0..n : f[k] = IF k = 0 THEN {} ELSE Next1(f[k - 1], k)
    BY <1>1, <2>2, <2>3
  <2>5. Solution(f)
    BY <2>2, <2>4
  <2>. QED BY <2>5
<1>4. Solution(kept)
  <2>. HIDE DEF Solution
  <2>. QED BY <1>3
<1>5. SelectDiverse(ranked, limit) = kept[n]
  BY DEF SelectDiverse
<1>. HIDE DEF kept
<1>6. kept[0] = {} /\ \A k \in 1..n : kept[k] = Next1(kept[k - 1], k)
  <2>. HIDE DEF Next1
  <2>1. 0 \in 0..n /\ \A k \in 1..n : k \in 0..n /\ k # 0
    BY <1>1
  <2>. QED BY <1>4, <2>1
<1>. HIDE DEF Solution, n
<1>7. \A k \in 1..n : /\ kept[k] = kept[k - 1] \cup {j \in {k} : Takes(ranked, limit, kept[k - 1], j)}
                      /\ k \in kept[k] <=> (k \in kept[k - 1] \/ Takes(ranked, limit, kept[k - 1], k))
  BY <1>6
\* The first k, and what is kept of them.
<1>8. \A m \in 0..n : kept[m] \subseteq 1..m
  <2>. DEFINE S == {m \in 0..n : kept[m] \subseteq 1..m}
  <2>1. 0 \in S
    BY <1>1, <1>6
  <2>2. ASSUME NEW k \in 1..n, k - 1 \in S PROVE k \in S
    <3>1. k \in 0..n /\ kept[k - 1] \subseteq 1..(k - 1) /\ 1..(k - 1) \subseteq 1..k /\ k \in 1..k
      BY <1>1, <2>2
    <3>2. kept[k] \subseteq kept[k - 1] \cup {k}
      BY <1>7
    <3>. QED BY <3>1, <3>2
  <2>. HIDE DEF S
  <2>3. 0..n \subseteq S
    BY <1>1, <2>1, <2>2, PrefixInduction
  <2>. QED BY <2>3 DEF S
<1>9. \A m \in 0..n : \A k \in 0..m : {j \in kept[m] : j <= k} = kept[k]
  <2>. DEFINE S == {m \in 0..n : \A k \in 0..m : {j \in kept[m] : j <= k} = kept[k]}
  <2>1. 0 \in S
    BY <1>1, <1>6
  <2>2. ASSUME NEW m \in 1..n, m - 1 \in S PROVE m \in S
    <3>1. m \in 0..n /\ m - 1 \in 0..n /\ \A k \in 0..(m - 1) : {j \in kept[m - 1] : j <= k} = kept[k]
      BY <1>1, <2>2
    <3>2. ASSUME NEW k \in 0..m PROVE {j \in kept[m] : j <= k} = kept[k]
      <4>1. CASE k = m
        <5>1. \A j \in kept[m] : j <= m
          BY <1>1, <1>8, <3>1
        <5>. QED BY <4>1, <5>1
      <4>2. CASE k # m
        <5>1. k \in 0..(m - 1) /\ ~(m <= k)
          BY <1>1, <4>2
        <5>2. kept[m - 1] \subseteq kept[m] /\ kept[m] \subseteq kept[m - 1] \cup {m}
          BY <1>7
        <5>3. {j \in kept[m] : j <= k} = {j \in kept[m - 1] : j <= k}
          BY <5>1, <5>2
        <5>. QED BY <3>1, <5>1, <5>3
      <4>. QED BY <4>1, <4>2
    <3>. QED BY <3>1, <3>2
  <2>. HIDE DEF S
  <2>3. 0..n \subseteq S
    BY <1>1, <2>1, <2>2, PrefixInduction
  <2>. QED BY <2>3 DEF S
\* Neither bound is exceeded.
<1>10. \A m \in 0..n : /\ IsFiniteSet(kept[m]) /\ Cardinality(kept[m]) \in Nat /\ Cardinality(kept[m]) <= limit
                       /\ \A note : /\ Cardinality(Same(kept[m], note)) \in Nat
                                    /\ Cardinality(Same(kept[m], note)) <= MaxChunksPerNote
  <2>. DEFINE Bounded(x) == /\ IsFiniteSet(x) /\ Cardinality(x) \in Nat /\ Cardinality(x) <= limit
                            /\ \A note : /\ Cardinality(Same(x, note)) \in Nat
                                         /\ Cardinality(Same(x, note)) <= MaxChunksPerNote
              S == {m \in 0..n : Bounded(kept[m])}
  <2>1. 0 \in S
    <3>1. \A note : Same({}, note) = {}
      OBVIOUS
    <3>2. Bounded({})
      BY <3>1, FS_EmptySet DEF MaxChunksPerNote
    <3>3. 0 \in 0..n
      BY <1>1
    <3>. HIDE DEF Bounded
    <3>. QED BY <1>6, <3>2, <3>3
  <2>2. ASSUME NEW m \in 1..n, m - 1 \in S PROVE m \in S
    <3>. DEFINE x == kept[m - 1]
    <3>1. m \in 0..n /\ Bounded(x) /\ m \notin x
      <4>1. m \in 0..n /\ m - 1 \in 0..n /\ m \notin 1..(m - 1)
        BY <1>1
      <4>. QED BY <1>8, <2>2, <4>1
    <3>2. CASE ~Takes(ranked, limit, x, m)
      <4>1. kept[m] = x \cup {j \in {m} : Takes(ranked, limit, x, j)}
        BY <1>7
      <4>2. {j \in {m} : Takes(ranked, limit, x, j)} = {}
        BY <3>2
      <4>3. kept[m] = x
        BY <4>1, <4>2
      <4>. QED BY <3>1, <4>3
    <3>3. CASE Takes(ranked, limit, x, m)
      <4>1. kept[m] = x \cup {m}
        BY <1>7, <3>3
      <4>2. /\ Cardinality(x) < limit
            /\ Cardinality(Same(x, ranked[m].chunk.note)) < MaxChunksPerNote
        BY <3>3 DEF Takes
      <4>. HIDE DEF x
      <4>3. IsFiniteSet(kept[m]) /\ Cardinality(kept[m]) = Cardinality(x) + 1
        BY <3>1, <4>1, FS_AddElement
      <4>4. ASSUME NEW note
            PROVE  /\ Cardinality(Same(kept[m], note)) \in Nat
                   /\ Cardinality(Same(kept[m], note)) <= MaxChunksPerNote
        <5>1. IsFiniteSet(Same(x, note)) /\ m \notin Same(x, note)
          BY <3>1, FS_Subset
        <5>2. CASE ranked[m].chunk.note = note
          <6>1. Same(kept[m], note) = Same(x, note) \cup {m}
            BY <4>1, <5>2
          <6>2. Cardinality(Same(x, note)) \in Nat /\ Cardinality(Same(x, note)) < MaxChunksPerNote
            BY <3>1, <4>2, <5>2
          <6>. HIDE DEF Same
          <6>3. Cardinality(Same(kept[m], note)) = Cardinality(Same(x, note)) + 1
            BY <5>1, <6>1, FS_AddElement
          <6>. QED BY <6>2, <6>3 DEF MaxChunksPerNote
        <5>3. CASE ranked[m].chunk.note # note
          <6>1. Same(kept[m], note) = Same(x, note)
            BY <4>1, <5>3
          <6>. QED BY <3>1, <6>1
        <5>. QED BY <5>2, <5>3
      <4>5. Cardinality(kept[m]) \in Nat /\ Cardinality(kept[m]) <= limit
        BY <3>1, <4>2, <4>3
      <4>. QED BY <3>1, <4>3, <4>4, <4>5
    <3>. QED BY <3>2, <3>3
  <2>. HIDE DEF S
  <2>3. 0..n \subseteq S
    BY <1>1, <2>1, <2>2, PrefixInduction
  <2>. QED BY <2>3 DEF S
<1>11. ASSUME NEW k \in 1..n
       PROVE  {j \in kept[n] : j < k} = kept[k - 1] /\ (k \in kept[n] <=> Takes(ranked, limit, kept[k - 1], k))
  <2>1. k \in 0..n /\ k - 1 \in 0..n /\ n \in 0..n /\ kept[n] \subseteq 1..n
    BY <1>1, <1>8
  <2>2. \A j \in kept[n] : j < k <=> j <= k - 1
    BY <1>1, <2>1
  <2>3. {j \in kept[n] : j <= k - 1} = kept[k - 1] /\ {j \in kept[n] : j <= k} = kept[k]
    BY <1>9, <2>1
  <2>4. k \in kept[n] <=> k \in kept[k]
    <3>1. k <= k
      BY <1>1
    <3>. QED BY <2>3, <3>1
  <2>5. k \notin kept[k - 1]
    <3>1. k \notin 1..(k - 1)
      BY <1>1
    <3>. QED BY <1>8, <2>1, <3>1
  <2>6. {j \in kept[n] : j < k} = kept[k - 1]
    BY <2>2, <2>3
  <2>. QED BY <1>7, <2>4, <2>5, <2>6
<1>12. ASSUME NEW k \in 1..n
       PROVE  LET b == {j \in kept[n] : j < k}
              IN  /\ k \in kept[n] <=> Takes(ranked, limit, b, k)
                  /\ Cardinality(b) \in Nat /\ Cardinality(b) <= limit
                  /\ \A note : Cardinality(Same(b, note)) \in Nat /\ Cardinality(Same(b, note)) <= MaxChunksPerNote
  <2>1. k - 1 \in 0..n
    BY <1>1
  <2>. HIDE DEF Same
  <2>. QED BY <1>10, <1>11, <2>1
<1>13. kept[n] \subseteq 1..n
  BY <1>1, <1>8
<1>. QED BY <1>5, <1>12, <1>13 DEF Greedy, n

\* The bar is at least 0.6, and the best result passes it if it has that.
LEMMA Bar ==
    ASSUME NEW ranked, ranked[1].confidence \in Int
    PROVE  /\ Threshold(ranked) \in Int /\ Threshold(ranked) >= 600000
           /\ ranked[1].confidence >= 600000 => ranked[1].confidence >= Threshold(ranked)
<1>. DEFINE best == ranked[1].confidence
            share == (best * 72) \div 100
<1>1. share \in Int /\ (best >= 0 => share <= best)
  OBVIOUS
<1>. HIDE DEF share
<1>2. Threshold(ranked) = Max({MinimumHybridScore, share}) /\ MinimumHybridScore \in Int
  BY DEF Threshold, MinimumHybridScore, share
<1>3. Threshold(ranked) = IF MinimumHybridScore >= share THEN MinimumHybridScore ELSE share
  BY <1>1, <1>2, MinMax
<1>4. best \in Int
  OBVIOUS
<1>. HIDE DEF best
<1>5. /\ Threshold(ranked) \in Int /\ Threshold(ranked) >= 600000
      /\ best >= 600000 => best >= Threshold(ranked)
  BY <1>1, <1>3, <1>4 DEF MinimumHybridScore
<1>. QED BY <1>5 DEF best

\* HybridRanking: every hybrid answer is sound, for every query, corpus and similarity
\* (hybridRetriever.Retrieve, rankHybridCandidates, selectDiverse).
THEOREM AnswersAreSound ==
    ASSUME NEW search, IsSearch(search)
    PROVE  AnswerSoundFor(search)
<1>. DEFINE terms == SelectCandidateTerms(search.query)
            lexical == LexicalCandidates(search, terms)
            vector == VectorCandidates(search)
            merged == Merge(lexical, vector, terms)
            ranked == Ranked(search)
            answer == Answer(search)
            kept == SelectDiverse(ranked, search.limit)
            Better(k) == {j \in answer : j < k}
<1>1. /\ IsFiniteSet(merged)
      /\ \A c \in merged : CandidateOf(c, search)
      /\ \A c, d \in merged : c.chunk = d.chunk => c = d
      /\ lexical # <<>> /\ vector # <<>> /\ lexical[1] = vector[1] =>
            \E c \in merged : /\ c.chunk = vector[1] /\ c.rrf = 32786
                              /\ vector[1].vector > 0 => c.vector = vector[1].vector
  BY Candidates
<1>2. ranked = Rank(merged, search)
  BY DEF Ranked
<1>. HIDE DEF merged, lexical, vector, ranked
<1>3. /\ Len(ranked) \in Nat /\ DOMAIN ranked = 1..Len(ranked)
      /\ \A k \in DOMAIN ranked : \E c \in merged :
            ranked[k].chunk = c.chunk /\ ranked[k].confidence = Confidence(c, search)
      /\ \A c \in merged : \E k \in DOMAIN ranked :
            ranked[k].chunk = c.chunk /\ ranked[k].confidence = Confidence(c, search)
      /\ \A k \in DOMAIN ranked :
            ranked[k].confidence \in Int /\ ranked[1].confidence >= ranked[k].confidence
  BY <1>1, <1>2, Ranks, SMTT(30)
<1>4. search.limit \in Nat \ {0}
  BY DEF IsSearch
<1>5. /\ kept \subseteq 1..Len(ranked)
      /\ \A k \in 1..Len(ranked) :
            LET b == {j \in kept : j < k}
            IN  /\ k \in kept <=> Takes(ranked, search.limit, b, k)
                /\ Cardinality(b) \in Nat /\ Cardinality(b) <= search.limit
                /\ \A note : LET same == {i \in b : ranked[i].chunk.note = note}
                             IN  Cardinality(same) \in Nat /\ Cardinality(same) <= MaxChunksPerNote
  <2>1. Greedy(kept, ranked, search.limit)
    BY <1>3, <1>4, Selected
  <2>. HIDE DEF kept
  <2>. QED BY <2>1 DEF Greedy
<1>6. answer = IF ranked = <<>> THEN {}
               ELSE IF ranked[1].confidence < MinimumHybridScore THEN {} ELSE kept
  BY DEF Answer, ranked
<1>. HIDE DEF kept, answer
<1>7. ASSUME NEW k \in answer
      PROVE  /\ ranked[k].chunk.hit /\ PassesFilter(ranked[k].chunk, search)
             /\ \/ Held(ranked[k].chunk, search.query) # {} \/ ranked[k].chunk.note \in search.hinted
                \/ ranked[k].chunk.vector >= 940000
  <2>1. k \in kept /\ k \in 1..Len(ranked)
    BY <1>5, <1>6, <1>7
  <2>2. ranked[k].confidence >= Threshold(ranked)
    BY <1>5, <2>1 DEF Takes
  <2>3. 1 \in DOMAIN ranked /\ ranked[1].confidence \in Int /\ ranked[k].confidence \in Int
    BY <1>3, <2>1
  <2>4. ranked[k].confidence >= 600000
    BY <2>2, <2>3, Bar
  <2>5. PICK c \in merged : ranked[k].chunk = c.chunk /\ ranked[k].confidence = Confidence(c, search)
    BY <1>3, <2>1
  <2>6. CandidateOf(c, search)
    BY <1>1
  <2>7. /\ c.fts \in Nat /\ c.trigram \in Int /\ c.vector \in Int /\ c.rrf \in Nat
        /\ c.chunk.vector \in Int
    BY <2>6 DEF CandidateOf, IsSearch
  <2>8. c.chunk.hit /\ PassesFilter(c.chunk, search)
    <3>1. SUFFICES ASSUME c.chunk \notin Hits(search) PROVE FALSE
      BY DEF Hits
    <3>2. c.vector <= 0 /\ c.rrf <= 16393
      BY <2>6, <3>1 DEF CandidateOf
    <3>3. Confidence(c, search) < 600000 /\ Confidence(c, search) \in Int
      BY <2>7, <3>2, ConfidenceBounds
    <3>. QED BY <2>4, <2>5, <3>3
  <2>9. ASSUME Held(c.chunk, search.query) = {}, c.chunk.note \notin search.hinted
        PROVE  c.chunk.vector >= 940000
    <3>1. c.fts = 0 /\ c.trigram = 0 /\ c.rrf <= 16393 /\ c.vector \in {0, c.chunk.vector}
      BY <2>6, <2>9 DEF CandidateOf
    <3>2. LexicalConfidence(c, search) <= 220000
      BY <2>7, <2>9, <3>1, LexicalConfidenceBound
    <3>3. c.vector >= 940000
      BY <2>4, <2>5, <2>7, <3>1, <3>2, ConfidenceBounds
    <3>. QED BY <3>1, <3>3
  <2>. QED BY <2>5, <2>8, <2>9
<1>8. ASSUME lexical # <<>>, vector # <<>>, lexical[1] = vector[1], vector[1].vector >= 430000
      PROVE  answer # {}
  <2>1. PICK c \in merged : /\ c.chunk = vector[1] /\ c.rrf = 32786
                            /\ vector[1].vector > 0 => c.vector = vector[1].vector
    BY <1>1, <1>8
  <2>2. /\ c.fts \in Nat /\ c.trigram \in Int /\ c.vector \in Int /\ c.rrf \in Nat
        /\ c.chunk.vector \in Int
    BY <1>1 DEF CandidateOf, IsSearch
  <2>3. Confidence(c, search) >= 600000 /\ Confidence(c, search) \in Int
    BY <1>8, <2>1, <2>2, ConfidenceBounds
  <2>4. PICK k \in DOMAIN ranked : ranked[k].confidence = Confidence(c, search)
    BY <1>3
  <2>5. /\ 1 \in 1..Len(ranked) /\ ranked[1].confidence \in Int
        /\ ranked[1].confidence >= ranked[k].confidence
    <3>1. 1 \in 1..Len(ranked) /\ 1 \in DOMAIN ranked
      BY <1>3
    <3>. QED BY <1>3, <3>1
  <2>6. ranked[1].confidence >= 600000
    BY <2>3, <2>4, <2>5
  <2>7. Takes(ranked, search.limit, {}, 1)
    <3>1. ranked[1].confidence >= Threshold(ranked)
      BY <2>5, <2>6, Bar
    <3>2. Cardinality({}) = 0
      BY FS_EmptySet
    <3>3. {i \in {} : ranked[i].chunk.note = ranked[1].chunk.note} = {}
      OBVIOUS
    <3>4. 0 < search.limit /\ 0 < MaxChunksPerNote
      BY <1>4 DEF MaxChunksPerNote
    <3>. QED BY <3>1, <3>2, <3>3, <3>4 DEF Takes
  <2>8. {j \in kept : j < 1} = {}
    <3>1. kept \subseteq 1..Len(ranked)
      BY <1>5
    <3>2. \A j \in 1..Len(ranked) : ~(j < 1)
      BY <1>3
    <3>. QED BY <3>1, <3>2
  <2>9. 1 \in kept
    BY <1>5, <2>5, <2>7, <2>8
  <2>10. ranked # <<>> /\ ~(ranked[1].confidence < MinimumHybridScore)
    BY <1>3, <2>5, <2>6 DEF MinimumHybridScore
  <2>. QED BY <1>6, <2>9, <2>10
<1>9. ASSUME answer # {}, NEW k \in DOMAIN ranked \ answer
      PROVE  \/ ranked[k].confidence < Threshold(ranked)
             \/ Cardinality(Better(k)) = search.limit
             \/ \E j \in Better(k) : ranked[j].chunk.doc = ranked[k].chunk.doc
             \/ Cardinality({j \in Better(k) : ranked[j].chunk.note = ranked[k].chunk.note}) = MaxChunksPerNote
  <2>1. answer = kept
    BY <1>6, <1>9
  <2>. DEFINE b == {j \in kept : j < k}
              same == {i \in b : ranked[i].chunk.note = ranked[k].chunk.note}
  <2>2. k \in 1..Len(ranked) /\ k \notin kept
    BY <1>3, <1>9, <2>1
  <2>3. /\ ~Takes(ranked, search.limit, b, k)
        /\ Cardinality(b) \in Nat /\ Cardinality(b) <= search.limit
        /\ Cardinality(same) \in Nat /\ Cardinality(same) <= MaxChunksPerNote
    BY <1>5, <2>2
  <2>4. ranked[k].confidence \in Int /\ Threshold(ranked) \in Int
    <3>1. 1 \in DOMAIN ranked
      BY <1>3, <2>2
    <3>. QED BY <1>3, <1>9, <3>1, Bar
  <2>5. b = Better(k)
    BY <2>1
  <2>. HIDE DEF Better
  <2>6. CASE ~(Cardinality(b) < search.limit)
    <3>1. Cardinality(b) = search.limit
      BY <1>4, <2>3, <2>6
    <3>. QED BY <2>5, <3>1
  <2>7. CASE ~(ranked[k].confidence >= Threshold(ranked))
    BY <2>4, <2>7
  <2>8. CASE ~(\A i \in b : ranked[i].chunk.doc # ranked[k].chunk.doc)
    <3>. HIDE DEF b
    <3>. QED BY <2>5, <2>8
  <2>9. CASE ~(Cardinality(same) < MaxChunksPerNote)
    <3>1. Cardinality(same) = MaxChunksPerNote
      BY <2>3, <2>9 DEF MaxChunksPerNote
    <3>2. same = {j \in Better(k) : ranked[j].chunk.note = ranked[k].chunk.note}
      BY <2>5
    <3>. QED BY <3>1, <3>2
  <2>. QED BY <2>3, <2>6, <2>7, <2>8, <2>9 DEF Takes
<1>. QED BY <1>7, <1>8, <1>9 DEF AnswerSoundFor, lexical, vector, ranked, answer

-----------------------------------------------------------------------------
(* The pure parts of the instance: their argument never changes *)

\* What is an argument, and of which part.
InputTyped ==
    /\ part = "ranking" => input \in MCSearches
    /\ part = "draft" => input \in MCCorpora

\* The searches of the instance are searches.
LEMMA InstanceSearches == \A search \in MCSearches : IsSearch(search)
<1>1. ASSUME NEW search \in MCSearches PROVE IsSearch(search)
  <2>1. PICK a \in MCChunks(1), b \in MCChunks(2), c \in MCChunks(3), d \in MCChunks(4),
             query \in MCQueries, limit \in {1, 3}, scope \in MCScopes :
             search = [chunks |-> {a, b, c, d}, query |-> query, limit |-> limit,
                       hinted |-> scope.hinted, positioned |-> scope.positioned]
    BY <1>1 DEF MCSearches
  <2>2. search.chunks = {a, b, c, d} /\ search.query \in MCQueries /\ search.limit \in {1, 3}
    BY <2>1
  <2>3. \A id \in 1..4 : \A x \in MCChunks(id) :
           x.id = id /\ x.hit \in BOOLEAN /\ x.vector \in Int /\ x.trigram \in Int
    <3>. DEFINE Point == [hit : BOOLEAN, vector : Int]
    <3>1. NotFound \in Point /\ \A similarity \in Int : Found(similarity) \in Point
      BY DEF NotFound, Found
    <3>. HIDE DEF Point
    <3>2. Found(-200000) \in Point /\ Found(500000) \in Point /\ Found(950000) \in Point
      BY <3>1, SMT
    <3>3. \A id \in 1..4 : MCPoints[id] \subseteq Point
      BY <3>1, <3>2, SMT DEF MCPoints
    <3>4. \A id \in 1..4 : \A point \in MCPoints[id] : point.hit \in BOOLEAN /\ point.vector \in Int
      BY <3>3 DEF Point
    <3>5. One \in Int
      BY DEF One
    <3>. QED BY <3>4, <3>5 DEF MCChunks, Chunk
  <2>4. a.id = 1 /\ b.id = 2 /\ c.id = 3 /\ d.id = 4
    BY <2>3
  <2>5. \A x \in search.chunks : x.id \in Int /\ x.hit \in BOOLEAN /\ x.vector \in Int /\ x.trigram \in Int
    BY <2>2, <2>3
  <2>6. \A x, y \in search.chunks : x.id = y.id => x = y
    BY <2>2, <2>4
  <2>7. IsFiniteSet(search.chunks)
    <3>1. IsFiniteSet({a}) /\ IsFiniteSet({b}) /\ IsFiniteSet({c}) /\ IsFiniteSet({d})
      BY FS_Singleton
    <3>2. IsFiniteSet({a} \cup {b}) /\ IsFiniteSet({c} \cup {d})
      BY <3>1, FS_Union
    <3>3. IsFiniteSet(({a} \cup {b}) \cup ({c} \cup {d}))
      BY <3>2, FS_Union
    <3>4. ({a} \cup {b}) \cup ({c} \cup {d}) = {a, b, c, d}
      OBVIOUS
    <3>. QED BY <2>2, <3>3, <3>4
  <2>8. IsQuery(search.query)
    <3>1. CASE search.query = <<Term("a", "subject", 2), Term("b", "numeric", 6), Term("x", "plain", 0)>>
      BY <3>1 DEF Term, IsQuery
    <3>2. CASE search.query =
                 <<Term("a", "subject", 1), Term("s", "subject", 5), Term("t", "subject", 5),
                   Term("u", "subject", 4), Term("v", "subject", 3), Term("b", "numeric", 6),
                   Term("p", "plain", 9), Term("q", "plain", 2)>>
      BY <3>2 DEF Term, IsQuery
    <3>. QED BY <2>1, <3>1, <3>2 DEF MCQueries
  <2>9. search.limit \in Nat \ {0}
    BY <2>1
  <2>. QED BY <2>5, <2>6, <2>7, <2>8, <2>9 DEF IsSearch
<1>. QED BY <1>1

\* The argument keeps its type.
LEMMA InputStays == MCSpec => []InputTyped
<1>1. MCInit => InputTyped
  BY DEF MCInit, InputTyped
<1>2. InputTyped /\ [MCNext]_mcVars => InputTyped'
  <2>1. MCNext \/ UNCHANGED mcVars => part' = part /\ input' = input
    BY DEF MCNext, mcVars
  <2>. QED BY <2>1 DEF InputTyped
<1>. QED BY <1>1, <1>2, PTL DEF MCSpec

\* HybridRanking: the answers that the instance checks are sound, as every answer is
\* (AnswersAreSound).
THEOREM InstanceAnswersSound == MCSpec => []AnswerSound
<1>1. InputTyped => AnswerSound
  BY InstanceSearches, AnswersAreSound DEF InputTyped, AnswerSound
<1>. QED BY <1>1, InputStays, PTL

\* DraftCases: the pools that the instance checks fill, as every pool does (PoolsFill).
THEOREM InstancePoolsFill == MCSpec => []DraftPoolFills
<1>1. InputTyped => DraftPoolFills
  BY PoolsFill DEF InputTyped, DraftPoolFills, MCCorpora
<1>. QED BY <1>1, InputStays, PTL
=============================================================================
