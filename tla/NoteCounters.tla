---------------------------- MODULE NoteCounters ----------------------------
(***************************************************************************)
(* The derived counters of one note: the facts the API writes              *)
(* (internal/note), the rebuild a worker runs for each event               *)
(* (internal/worker/repository.go), the periodic and the full repair       *)
(* (internal/reconcile/repository.go) and the hot score the API writes     *)
(* after an edit (internal/note/service.go).                               *)
(*                                                                         *)
(* PostgreSQL runs each statement at READ COMMITTED: an UPDATE whose       *)
(* values come from a WITH clause counts the facts in the snapshot taken   *)
(* when the statement starts; when it reaches the row, and another         *)
(* transaction changed it meanwhile, the row's own columns and the WHERE   *)
(* clause are read again, the counts are not.  So a rebuild and a repair   *)
(* are two steps, snapshot and write.  A relative increment is one.        *)
(*                                                                         *)
(* Events are applied once (EventConsumer) and in any order; only the      *)
(* number of unprocessed events of each sort matters here.                 *)
(***************************************************************************)
EXTENDS Naturals, FiniteSets

CONSTANTS
    User,        \* users; also the name of a user's comment or share
    Worker,      \* worker processes applying events
    Repair,      \* subset of {"scheduled", "full"}: the repairs in use
    None,        \* "no statement under way"
    MaxChanges,  \* bound: fact changes
    MaxViews     \* bound: view events

Kind == {"like", "collect", "comment", "share"}

Stmt == [counts : [Kind -> Nat], view : Nat, overtaken : BOOLEAN]

ASSUME CounterConstants ==
    /\ IsFiniteSet(User)
    /\ Repair \subseteq {"scheduled", "full"}
    /\ MaxChanges \in Nat
    /\ MaxViews \in Nat
    /\ None \notin Stmt

Fact == Kind \X User

VARIABLES
    facts,       \* note_likes, note_collects, active note_comments, note_shares
    published,   \* notes.status = 'published'
    counts,      \* like_count, collect_count, comment_count, share_count
    view,        \* notes.view_count
    hot,         \* notes.hot_score
    changed,     \* unprocessed events that call for a rebuild, in no worker's hands
    viewed,      \* unprocessed note.viewed events
    rebuild,     \* per worker: the rebuild statement under way, or None
    repair,      \* per repair: the UPDATE under way, or None
    edit,        \* an API request in refreshNoteRanking: the counters it read, or None
    made,        \* history: fact changes so far
    seenViews,   \* history: view events so far
    applied,     \* history: view events applied while the note was published
    lost,        \* history: a rebuild event ended in the dead-letter stream
    overtaken    \* history: counts were written from a snapshot older than the last write

factVars == <<facts, published, made, seenViews>>
rowVars == <<counts, view, hot>>
eventVars == <<changed, viewed, applied, lost>>
stmtVars == <<rebuild, repair, edit>>
vars == <<factVars, rowVars, eventVars, stmtVars, overtaken>>

Count(S) == [k \in Kind |-> Cardinality({f \in S : f[1] = k})]

Score(v, c) == v + 3 * c["like"] + 8 * c["collect"] + 6 * c["comment"] + 5 * c["share"]

TypeOK ==
    /\ facts \in SUBSET Fact
    /\ published \in BOOLEAN
    /\ counts \in [Kind -> Nat]
    /\ view \in Nat
    /\ hot \in Nat
    /\ changed \in Nat
    /\ viewed \in Nat
    /\ rebuild \in [Worker -> Stmt \cup {None}]
    /\ repair \in [Repair -> Stmt \cup {None}]
    /\ edit \in Stmt \cup {None}
    /\ made \in 0..MaxChanges
    /\ seenViews \in 0..MaxViews
    /\ applied \in Nat
    /\ lost \in BOOLEAN
    /\ overtaken \in BOOLEAN

\* CreateNote committed the row and its note.created event.
Init ==
    /\ facts = {}
    /\ published = TRUE
    /\ counts = [k \in Kind |-> 0]
    /\ view = 0
    /\ hot = 0
    /\ changed = 1
    /\ viewed = 0
    /\ rebuild = [w \in Worker |-> None]
    /\ repair = [r \in Repair |-> None]
    /\ edit = None
    /\ made = 0
    /\ seenViews = 0
    /\ applied = 0
    /\ lost = FALSE
    /\ overtaken = FALSE

\* What a statement or a request has read and will write: counts c, the view count.
Snapshot(c) == [counts |-> c, view |-> view, overtaken |-> FALSE]

-----------------------------------------------------------------------------
(* The API: facts and their events commit together.  An insert or delete    *)
(* that changes nothing (ON CONFLICT DO NOTHING, no row) enqueues nothing.  *)
(* publishedNoteProjectID is read earlier in the transaction and locks       *)
(* nothing, so a request that passed it may commit after SoftDeleteNote.     *)

\* A fact is inserted, and its event enqueued.
AddFact(f) ==
    /\ f \notin facts
    /\ made < MaxChanges
    /\ facts' = facts \cup {f}
    /\ changed' = changed + 1
    /\ made' = made + 1
    /\ UNCHANGED <<published, seenViews, rowVars, viewed, applied, lost, stmtVars, overtaken>>

\* Seeded defect: the removal commits without its event.
RemoveFactSilently(f) ==
    /\ f \in facts
    /\ made < MaxChanges
    /\ facts' = facts \ {f}
    /\ made' = made + 1
    /\ UNCHANGED <<published, seenViews, rowVars, eventVars, stmtVars, overtaken>>

\* A fact is deleted, or a comment's status set to 0, and the event enqueued.
RemoveFact(f) ==
    /\ f \in facts
    /\ made < MaxChanges
    /\ facts' = facts \ {f}
    /\ changed' = changed + 1
    /\ made' = made + 1
    /\ UNCHANGED <<published, seenViews, rowVars, viewed, applied, lost, stmtVars, overtaken>>

LikeNote(u) == AddFact(<<"like", u>>)
CollectNote(u) == AddFact(<<"collect", u>>)
ShareNote(u) == AddFact(<<"share", u>>)
CreateComment(u) == AddFact(<<"comment", u>>)

\* UnlikeNote, UncollectNote; a share is never taken back.
RemoveNoteInteraction(k, u) == k \in {"like", "collect"} /\ RemoveFact(<<k, u>>)

SoftDeleteComment(u) == RemoveFact(<<"comment", u>>)

RecordNoteView ==
    /\ seenViews < MaxViews
    /\ viewed' = viewed + 1
    /\ seenViews' = seenViews + 1
    /\ UNCHANGED <<facts, published, made, rowVars, changed, applied, lost, stmtVars, overtaken>>

\* SoftDeleteNote; its note.deleted event touches no counter.
SoftDeleteNote ==
    /\ published
    /\ published' = FALSE
    /\ UNCHANGED <<facts, made, seenViews, rowVars, eventVars, stmtVars, overtaken>>

\* refreshNoteRanking after UpdateNote, first half: GetNoteRankingStats.
GetNoteRankingStats ==
    /\ published
    /\ edit = None
    /\ edit' = Snapshot(counts)
    /\ UNCHANGED <<factVars, rowVars, eventVars, rebuild, repair, overtaken>>

\* Second half: UpdateNoteHotScore writes the score read before.
UpdateNoteHotScore ==
    /\ edit # None
    /\ hot' = IF published THEN Score(edit.view, edit.counts) ELSE hot
    /\ edit' = None
    /\ UNCHANGED <<factVars, counts, view, eventVars, rebuild, repair, overtaken>>

-----------------------------------------------------------------------------
(* The worker: rebuildDerivedCounters *)

\* Every statement that has its snapshot is now older than the row.
Overtake(stmts) ==
    [s \in DOMAIN stmts |->
        IF stmts[s] = None THEN None ELSE [stmts[s] EXCEPT !.overtaken = TRUE]]

\* rebuildNoteCounters starts: the counts of its snapshot.
BeginRebuild(w) ==
    /\ rebuild[w] = None
    /\ changed > 0
    /\ changed' = changed - 1
    /\ rebuild' = [rebuild EXCEPT ![w] = Snapshot(Count(facts))]
    /\ UNCHANGED <<factVars, rowVars, viewed, applied, lost, repair, edit, overtaken>>

\* Seeded defect: the rebuild also writes back the view count of its snapshot.
CommitRebuildLosesViews(w) ==
    /\ rebuild[w] # None
    /\ counts' = rebuild[w].counts
    /\ view' = rebuild[w].view
    /\ hot' = Score(view', counts')
    /\ overtaken' = (overtaken \/ rebuild[w].overtaken)
    /\ rebuild' = Overtake([rebuild EXCEPT ![w] = None])
    /\ repair' = Overtake(repair)
    /\ UNCHANGED <<factVars, eventVars, edit>>

\* The UPDATE reaches the row and ApplyEvent commits.
CommitRebuild(w) ==
    /\ rebuild[w] # None
    /\ counts' = rebuild[w].counts
    /\ hot' = Score(view, counts')
    /\ overtaken' = (overtaken \/ rebuild[w].overtaken)
    /\ rebuild' = Overtake([rebuild EXCEPT ![w] = None])
    /\ repair' = Overtake(repair)
    /\ UNCHANGED <<factVars, view, eventVars, edit>>

\* ApplyEvent rolls back; the event will be delivered again.
AbortRebuild(w) ==
    /\ rebuild[w] # None
    /\ rebuild' = [rebuild EXCEPT ![w] = None]
    /\ changed' = changed + 1
    /\ UNCHANGED <<factVars, rowVars, viewed, applied, lost, repair, edit, overtaken>>

\* incrementNoteView: a no-op on a deleted note.
IncrementNoteView ==
    /\ viewed > 0
    /\ viewed' = viewed - 1
    /\ view' = IF published THEN view + 1 ELSE view
    /\ hot' = IF published THEN hot + 1 ELSE hot
    /\ applied' = IF published THEN applied + 1 ELSE applied
    /\ UNCHANGED <<factVars, counts, changed, lost, stmtVars, overtaken>>

\* An event that kept failing moves to the dead-letter stream unapplied.
LoseRebuild ==
    /\ changed > 0
    /\ changed' = changed - 1
    /\ lost' = TRUE
    /\ UNCHANGED <<factVars, rowVars, viewed, applied, stmtVars, overtaken>>

LoseView ==
    /\ viewed > 0
    /\ viewed' = viewed - 1
    /\ UNCHANGED <<factVars, rowVars, changed, applied, lost, stmtVars, overtaken>>

-----------------------------------------------------------------------------
(* The reconciler: ReconcileCounters ("scheduled", one at a time behind the  *)
(* lock on reconcile_state) and ReconcileAllCounters ("full")                *)

Distinct(c, h) == counts # c \/ hot # h

\* The statement starts: `desired` is computed for rows that differ from it.
BeginRepair(r) ==
    LET c == Count(facts) IN
    /\ repair[r] = None
    /\ Distinct(c, Score(view, c))
    /\ repair' = [repair EXCEPT ![r] = Snapshot(c)]
    /\ UNCHANGED <<factVars, rowVars, eventVars, rebuild, edit, overtaken>>

\* The scheduled repair's hot_score is part of `desired`, the full repair adds
\* up the row's own view_count.
RepairScore(r) == Score(IF r = "full" THEN view ELSE repair[r].view, repair[r].counts)

\* Seeded defect: the repair restores the counts but not the hot score.
CommitRepairCountsOnly(r) ==
    /\ repair[r] # None
    /\ counts' = repair[r].counts
    /\ overtaken' = (overtaken \/ repair[r].overtaken)
    /\ rebuild' = Overtake(rebuild)
    /\ repair' = Overtake([repair EXCEPT ![r] = None])
    /\ UNCHANGED <<factVars, view, hot, eventVars, edit>>

\* The UPDATE reaches the row, checks that it still differs, and commits.
CommitRepair(r) ==
    /\ repair[r] # None
    /\ IF Distinct(repair[r].counts, RepairScore(r))
       THEN /\ counts' = repair[r].counts
            /\ hot' = RepairScore(r)
            /\ overtaken' = (overtaken \/ repair[r].overtaken)
            /\ rebuild' = Overtake(rebuild)
            /\ repair' = Overtake([repair EXCEPT ![r] = None])
       ELSE /\ repair' = [repair EXCEPT ![r] = None]
            /\ UNCHANGED <<counts, hot, overtaken, rebuild>>
    /\ UNCHANGED <<factVars, view, eventVars, edit>>

AbortRepair(r) ==
    /\ repair[r] # None
    /\ repair' = [repair EXCEPT ![r] = None]
    /\ UNCHANGED <<factVars, rowVars, eventVars, rebuild, edit, overtaken>>

-----------------------------------------------------------------------------
ApiStep ==
    \/ \E u \in User : LikeNote(u) \/ CollectNote(u) \/ ShareNote(u) \/ CreateComment(u)
    \/ \E k \in Kind, u \in User : RemoveNoteInteraction(k, u)
    \/ \E u \in User : SoftDeleteComment(u)
    \/ RecordNoteView
    \/ SoftDeleteNote
    \/ GetNoteRankingStats
    \/ UpdateNoteHotScore

WorkerStep(w) == BeginRebuild(w) \/ CommitRebuild(w) \/ AbortRebuild(w)

RepairStep(r) == BeginRepair(r) \/ CommitRepair(r) \/ AbortRepair(r)

Next ==
    \/ ApiStep
    \/ \E w \in Worker : WorkerStep(w)
    \/ IncrementNoteView \/ LoseRebuild \/ LoseView
    \/ \E r \in Repair : RepairStep(r)

Spec == Init /\ [][Next]_vars

-----------------------------------------------------------------------------
(* What the code promises *)

\* The view counter is incremented, never rebuilt: it is the number of views
\* applied, whatever rebuilds, repairs and hot-score writes rewrite the row.
ViewExact == view = applied

Exact == counts = Count(facts)

Quiescent ==
    /\ changed = 0
    /\ \A w \in Worker : rebuild[w] = None
    /\ \A r \in Repair : repair[r] = None

\* "Counter values are rebuilt from fact tables so delivery order is harmless": with every
\* event applied and no statement under way the counters are exact, but only as long as
\* no statement wrote counts over a row that another one had written since its snapshot.
ExactUnlessOvertaken == Quiescent /\ ~lost /\ ~overtaken => Exact

\* A rebuild is still to come whose write will be right or will count as overtaken.
Owed ==
    \/ changed > 0
    \/ \E w \in Worker :
        /\ rebuild[w] # None
        /\ rebuild[w].overtaken \/ rebuild[w].counts = Count(facts)

Stale(stmt) == stmt # None /\ ~stmt.overtaken /\ stmt.counts # Count(facts)

\* Why ExactUnlessOvertaken holds: whenever the row, or a write that nothing
\* overtook, disagrees with the facts, a rebuild is owed.
DisagreementIsOwed ==
    ~lost /\ ~overtaken /\ ~Owed =>
        /\ Exact
        /\ \A w \in Worker : ~Stale(rebuild[w])
        /\ \A r \in Repair : ~Stale(repair[r])

\* The inductive invariant of the counters.
CountersInv == TypeOK /\ ViewExact /\ DisagreementIsOwed

\* The reconciler runs on a ticker and its transaction does not fail every time;
\* started API calls finish.  Nothing is assumed of workers and events.
Fairness ==
    /\ \A r \in Repair : WF_vars(BeginRepair(r)) /\ SF_vars(CommitRepair(r))
    /\ WF_vars(UpdateNoteHotScore)

FairSpec == Spec /\ Fairness

\* "The scheduled reconciler repairs": when the facts stop changing, counters and
\* hot score become right and stay right, after lost events, overtaken rebuilds
\* and stale score writes.
CountersConverge == <>[](Exact /\ hot = Score(view, counts))
=============================================================================
