--------------------------- MODULE RetrievalSearch ---------------------------
(***************************************************************************)
(* Searching the evidence of one ingestion run, and building the lexical   *)
(* index the search depends on (internal/retrieval: repository.go,         *)
(* service.go, vector_retriever.go).                                       *)
(*                                                                         *)
(* A search is a series of statements, each with its own snapshot: scope,  *)
(* access, term statistics, candidates (in hybrid mode two retrievers run  *)
(* concurrently), citations.  Memberships, visibility, document life cycle *)
(* and source deletions move between them.  The vector store filters by a  *)
(* copy of visibility and life cycle made when the points were indexed.    *)
(*                                                                         *)
(* Scores decide which of the candidates are selected; here any choice may *)
(* be made (HybridRanking has the arithmetic).                             *)
(***************************************************************************)
EXTENDS Naturals, FiniteSets

CONSTANTS
    Doc,        \* documents of the ingestion run
    PublicDoc,  \* the documents whose visibility is 'public'
    Builder,    \* processes running BuildLexicalIndex
    Request,    \* searches
    Limit,      \* DefaultCandidateLimit
    MaxMoves,   \* bound: changes of what the searches read
    None

ASSUME SearchConstants ==
    /\ PublicDoc \subseteq Doc /\ Limit \in Nat \ {0} /\ MaxMoves \in Nat /\ IsFiniteSet(Doc)
    /\ None \notin Builder \cup {"public", "member"} /\ \A docs \in SUBSET Doc : docs # None

Mode == {"lexical", "vector", "hybrid"}
Scope == {"public", "member"}

VARIABLES
    member,     \* the principal is an active member of the project
    public,     \* projects.visibility = 'public'
    live,       \* documents with lifecycle_status 'ready' or 'superseded'
    gone,       \* documents with a deleted source and no newer active version of it
    payload,    \* documents whose point says 'ready' or 'superseded', and is public
    row,        \* retrieval_lexical_indexes: "none", "failed" or "completed"
    stats,      \* retrieval_lexeme_visibility_stats: documents counted, per scope, or None
    builder,    \* per builder: where it is
    lock,       \* holder of the advisory lock, or None
    request,    \* per search: where it is and what it has read
    during,     \* history: documents readable and scopes held at some time in a search
    moves,      \* history: changes so far
    turned,     \* history: the project's visibility changed
    built       \* history: BuildLexicalIndex has returned an index

worldVars == <<member, public, live, gone, moves, turned>>
indexVars == <<row, stats, builder, lock, built>>
vars == <<worldVars, payload, indexVars, request, during>>

\* The authorization condition of both candidate queries.
Readable(m, p, l, g) == {d \in l \ g : m \/ (p /\ d \in PublicDoc)}

\* ResolveAccess.
AccessOf(m, p) == IF m THEN "member" ELSE IF p THEN "public" ELSE "none"

Idle == [pc |-> "idle", mode |-> None, access |-> None, ranked |-> None,
         hits |-> None, lexical |-> None, vector |-> None, result |-> {}]

RequestType ==
    [pc : {"idle", "access", "stats", "retrieve", "citations", "done"}, mode : Mode \cup {None},
     access : Scope \cup {None}, ranked : Scope \cup {None}, hits : (SUBSET Doc) \cup {None},
     lexical : (SUBSET Doc) \cup {None}, vector : (SUBSET Doc) \cup {None}, result : SUBSET Doc]

TypeOK ==
    /\ member \in BOOLEAN /\ public \in BOOLEAN /\ turned \in BOOLEAN
    /\ live \subseteq Doc /\ gone \subseteq Doc /\ moves \in 0..MaxMoves
    /\ payload \in [live : SUBSET Doc, public : SUBSET Doc]
    /\ row \in {"none", "failed", "completed"}
    /\ stats \in [Scope -> (SUBSET Doc) \cup {None}]
    /\ builder \in [Builder -> {"idle", "waiting", "loaded", "building", "failing"}]
    /\ lock \in Builder \cup {None} /\ built \in BOOLEAN
    /\ request \in [Request -> RequestType]
    /\ during \in [Request -> [docs : SUBSET Doc, scopes : SUBSET (Scope \cup {"none"})]]

\* The ingestion run is completed and its points are indexed.  The lexical index is
\* not built yet, or was completed before migration 000018 added the scoped statistics.
Init ==
    /\ member \in BOOLEAN /\ public \in BOOLEAN
    /\ live = Doc /\ gone = {} /\ moves = 0 /\ turned = FALSE
    /\ payload = [live |-> Doc, public |-> IF public THEN PublicDoc ELSE {}]
    /\ row \in {"none", "completed"}
    /\ stats = [s \in Scope |-> None]
    /\ builder = [b \in Builder |-> "idle"]
    /\ lock = None /\ built = FALSE
    /\ request = [q \in Request |-> Idle]
    /\ during = [q \in Request |-> [docs |-> {}, scopes |-> {}]]

-----------------------------------------------------------------------------
(* The world a search looks at.                                            *)

Move(m, p, l, g) ==
    /\ moves < MaxMoves /\ moves' = moves + 1
    /\ <<m, p, l, g>> # <<member, public, live, gone>>
    /\ member' = m /\ public' = p /\ live' = l /\ gone' = g
    /\ turned' = (turned \/ p # public)
    /\ during' = [q \in Request |-> IF request[q].pc = "idle" THEN during[q] ELSE
                     [docs |-> during[q].docs \cup Readable(m, p, l, g),
                      scopes |-> during[q].scopes \cup {AccessOf(m, p)}]]
    /\ UNCHANGED <<payload, indexVars, request>>

ChangeMembership == Move(~member, public, live, gone)
ChangeVisibility == Move(member, ~public, live, gone)
RetireDocument(d) == Move(member, public, live \ {d}, gone)
DeleteSource(d) == Move(member, public, live, gone \cup {d})
RestoreSource(d) == Move(member, public, live, gone \ {d})

-----------------------------------------------------------------------------
(* BuildLexicalIndex.                                                      *)

\* pg_advisory_xact_lock: one builder of the run at a time.
LockBuild(b) ==
    /\ builder[b] = "idle" /\ lock = None
    /\ lock' = b
    /\ builder' = [builder EXCEPT ![b] = "waiting"]
    /\ UNCHANGED <<worldVars, payload, row, stats, built, request, during>>

\* ensureVisibilityStats, once per ingestion run.  Documents count whatever their life
\* cycle; the public part uses the project's visibility of this moment.
VisibilityStats ==
    IF stats["member"] # None \/ stats["public"] # None THEN stats
    ELSE [s \in Scope |-> IF s = "member" THEN Doc ELSE IF public THEN PublicDoc ELSE {}]

\* The run and the index are read under the lock.  A completed index only gets its
\* scoped statistics, if they are missing.
LoadIndex(b) ==
    /\ builder[b] = "waiting"
    /\ IF row = "completed"
       THEN /\ stats' = VisibilityStats
            /\ builder' = [builder EXCEPT ![b] = "idle"]
            /\ lock' = None /\ built' = TRUE
       ELSE /\ builder' = [builder EXCEPT ![b] = "loaded"]
            /\ UNCHANGED <<stats, lock, built>>
    /\ UNCHANGED <<worldVars, payload, row, request, during>>

\* The INSERT ... ON CONFLICT DO UPDATE takes the row; nobody sees 'building'.
StartBuild(b) ==
    /\ builder[b] = "loaded"
    /\ builder' = [builder EXCEPT ![b] = "building"]
    /\ UNCHANGED <<worldVars, payload, row, stats, lock, built, request, during>>

\* Seeded defect: the scoped statistics are left to the next build.
CompleteBuildUnscoped(b) ==
    /\ builder[b] = "building"
    /\ row' = "completed"
    /\ builder' = [builder EXCEPT ![b] = "idle"]
    /\ lock' = None /\ built' = TRUE
    /\ UNCHANGED <<worldVars, payload, stats, request, during>>

\* Statistics, checksum, status and scoped statistics commit together.
CompleteBuild(b) ==
    /\ builder[b] = "building"
    /\ row' = "completed"
    /\ stats' = VisibilityStats
    /\ builder' = [builder EXCEPT ![b] = "idle"]
    /\ lock' = None /\ built' = TRUE
    /\ UNCHANGED <<worldVars, payload, request, during>>

\* Any statement fails, the context ends while the builder waits for the lock (it never
\* had it), or the process is told to stop: the transaction rolls back.
FailBuild(b) ==
    /\ \/ builder[b] \in {"waiting", "loaded", "building"} /\ lock' = None
       \/ builder[b] = "idle" /\ lock # None /\ UNCHANGED lock
    /\ builder' = [builder EXCEPT ![b] = "failing"]
    /\ UNCHANGED <<worldVars, payload, row, stats, built, request, during>>

\* The process dies instead, and marks nothing.
CrashBuild(b) ==
    /\ builder[b] # "idle"
    /\ builder' = [builder EXCEPT ![b] = "idle"]
    /\ lock' = IF lock = b THEN None ELSE lock
    /\ UNCHANGED <<worldVars, payload, row, stats, built, request, during>>

\* markIndexFailed, on its own connection and without the lock: it waits for the row
\* while another builder has it, and leaves a completed index alone.
MarkIndexFailed(b) ==
    /\ builder[b] = "failing" /\ \A o \in Builder : builder[o] # "building"
    /\ row' = IF row = "completed" THEN row ELSE "failed"
    /\ builder' = [builder EXCEPT ![b] = "idle"]
    /\ UNCHANGED <<worldVars, payload, stats, lock, built, request, during>>

-----------------------------------------------------------------------------
(* Service.Search.                                                         *)

Advance(q, new) ==
    /\ request' = [request EXCEPT ![q] = new]
    /\ UNCHANGED <<worldVars, payload, indexVars>>

\* The answer goes out; what the search had read is forgotten.
Answered(r, result) == [Idle EXCEPT !.pc = "done", !.ranked = r.ranked, !.result = result]

\* ResolveScope; a mode whose index is not completed is refused (validateScopeIndex).
\* The vector index is completed throughout.
ResolveScope(q, mode) ==
    /\ request[q].pc = "idle" /\ during[q].scopes = {}
    /\ during' = [during EXCEPT ![q] = [docs |-> Readable(member, public, live, gone),
                                        scopes |-> {AccessOf(member, public)}]]
    /\ Advance(q, [Idle EXCEPT !.pc = "access", !.mode =
                      IF mode # "vector" /\ row # "completed" THEN None ELSE mode])

\* ResolveAccess: without access the answer is empty and names nothing; only then is a
\* missing index an error.
ResolveAccess(q) ==
    /\ request[q].pc = "access"
    /\ LET a == AccessOf(member, public)
       IN Advance(q, IF a = "none" \/ request[q].mode = None THEN Answered(request[q], {})
                     ELSE [request[q] EXCEPT !.access = a, !.pc = "stats"])
    /\ UNCHANGED during

\* GetTermStats for the access scope.  A lexical search without indexed terms ends.
GetTermStats(q) ==
    LET r == request[q]
        found == r.mode # "vector" /\ stats[r.access] \notin {None, {}}
    IN  /\ r.pc = "stats"
        /\ Advance(q, IF r.mode = "lexical" /\ ~found THEN Answered(r, {})
                      ELSE [r EXCEPT !.pc = "retrieve", !.ranked = IF found THEN r.access ELSE None])
        /\ UNCHANGED during

\* SearchLexicalCandidates: matching documents that are readable now, at most Limit.
SearchLexicalCandidates(q) ==
    LET r == request[q]
    IN  /\ r.pc = "retrieve" /\ r.mode # "vector" /\ r.lexical = None
        /\ \E c \in SUBSET Readable(member, public, live, gone) :
              /\ Cardinality(c) <= Limit
              /\ Advance(q, [r EXCEPT !.lexical = c])
        /\ UNCHANGED during

\* vectorFilter on the payload copies: the access scope of the request decides.
VectorFilter(a) == IF a = "public" THEN payload.live \cap payload.public ELSE payload.live

\* The query is embedded and sent to the vector store.
QueryVectorStore(q) ==
    LET r == request[q]
    IN  /\ r.pc = "retrieve" /\ r.mode # "lexical" /\ r.hits = None
        /\ \E h \in SUBSET VectorFilter(r.access) :
              /\ Cardinality(h) <= Limit
              /\ Advance(q, [r EXCEPT !.hits = h])
        /\ UNCHANGED during

\* Seeded defect: the hits are loaded by id without asking PostgreSQL again.
LoadCandidatesUnchecked(q) ==
    LET r == request[q]
    IN  /\ r.pc = "retrieve" /\ r.mode # "lexical" /\ r.vector = None /\ r.hits # None
        /\ Advance(q, [r EXCEPT !.vector = r.hits, !.hits = {}])
        /\ UNCHANGED during

\* LoadAuthorizedCandidates: PostgreSQL decides which of the hits are readable now.
LoadAuthorizedCandidates(q) ==
    LET r == request[q]
    IN  /\ r.pc = "retrieve" /\ r.mode # "lexical" /\ r.vector = None /\ r.hits # None
        /\ Advance(q, [r EXCEPT !.vector = r.hits \cap Readable(member, public, live, gone),
                                !.hits = {}])
        /\ UNCHANGED during

\* The embedder, the vector store or the database fails, or the deadline passes.
FailSearch(q) ==
    /\ request[q].pc \in {"access", "stats", "retrieve", "citations"}
    /\ Advance(q, Answered(request[q], {}))
    /\ UNCHANGED during

Fetched(r) == /\ r.mode # "vector" => r.lexical # None
              /\ r.mode # "lexical" => r.vector # None

\* group.Wait, merge, rank and select: any of the candidates may pass the threshold.
SelectResults(q) ==
    LET r == request[q]
        candidates == (IF r.lexical = None THEN {} ELSE r.lexical)
                      \cup (IF r.vector = None THEN {} ELSE r.vector)
    IN  /\ r.pc = "retrieve" /\ Fetched(r)
        /\ \E s \in SUBSET candidates :
              Advance(q, IF s = {} THEN Answered(r, {})
                         ELSE [Answered(r, s) EXCEPT !.pc = "citations"])
        /\ UNCHANGED during

\* LoadCitations asks for no permission; the answer goes out.
LoadCitations(q) ==
    /\ request[q].pc = "citations"
    /\ Advance(q, Answered(request[q], request[q].result))
    /\ UNCHANGED during

Next ==
    \/ ChangeMembership \/ ChangeVisibility
    \/ \E d \in Doc : RetireDocument(d) \/ DeleteSource(d) \/ RestoreSource(d)
    \/ \E b \in Builder : LockBuild(b) \/ LoadIndex(b) \/ StartBuild(b) \/ CompleteBuild(b)
    \/ \E b \in Builder : FailBuild(b) \/ CrashBuild(b) \/ MarkIndexFailed(b)
    \/ \E q \in Request, mode \in Mode : ResolveScope(q, mode)
    \/ \E q \in Request : ResolveAccess(q) \/ GetTermStats(q)
    \/ \E q \in Request : SearchLexicalCandidates(q) \/ QueryVectorStore(q)
    \/ \E q \in Request : LoadAuthorizedCandidates(q) \/ FailSearch(q)
    \/ \E q \in Request : SelectResults(q) \/ LoadCitations(q)

Spec == Init /\ [][Next]_vars

-----------------------------------------------------------------------------
\* Whatever the copies in the vector store say, a search returns only documents that
\* were readable at some time during it, and ranks them with the statistics of a scope
\* the principal held during it (LoadAuthorizedCandidates, GetTermStats; docs/18:
\* "PostgreSQL remains the final membership, visibility ... and deletion authority").
ServedWasReadable ==
    \A q \in Request :
        /\ request[q].result \subseteq during[q].docs
        /\ request[q].ranked # None => request[q].ranked \in during[q].scopes

\* An index that a builder has returned, its own or one that was there, is completed and
\* has scoped statistics, whatever other builders do or fail to do.  Scoped statistics
\* cover the whole run for members and, unless the project's visibility changed, all
\* public documents for everybody (BuildLexicalIndex, ensureVisibilityStats).
StatsComplete ==
    /\ built => row = "completed" /\ stats["member"] # None
    /\ stats["member"] # None => stats["member"] = Doc
    /\ (stats["member"] = None) = (stats["public"] = None)
    /\ stats["member"] # None => row = "completed"
    /\ stats["public"] # None /\ ~turned => stats["public"] = IF public THEN PublicDoc ELSE {}

-----------------------------------------------------------------------------
(* Why it holds: the parts of the inductive invariant *)

\* What a search has gathered so far was readable, or was its scope, at some time in it,
\* and so is what it can gather now.
GatheredWasReadable ==
    \A q \in Request :
        LET r == request[q]
            d == during[q]
        IN  /\ \A c \in {r.lexical, r.vector} : c # None => c \subseteq d.docs
            /\ r.access # None => r.access \in d.scopes
            /\ r.pc \in {"retrieve", "stats"} => r.access # None
            /\ r.pc # "idle" => /\ Readable(member, public, live, gone) \subseteq d.docs
                               /\ AccessOf(member, public) \in d.scopes

\* The inductive invariant.
SearchInv == TypeOK /\ GatheredWasReadable /\ ServedWasReadable /\ StatsComplete
=============================================================================
