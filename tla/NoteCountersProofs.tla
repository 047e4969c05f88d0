------------------------- MODULE NoteCountersProofs -------------------------
(* Proofs about NoteCounters, for every number of users, workers and events. *)
EXTENDS NoteCounters, FiniteSetTheorems, TLAPS

-----------------------------------------------------------------------------
(* The operators *)

\* Counting a set of facts yields natural numbers.
LEMMA CountType ==
    ASSUME NEW S \in SUBSET Fact
    PROVE  Count(S) \in [Kind -> Nat]
<1>1. IsFiniteSet(Kind)
  <2>1. IsFiniteSet({"like"})
      BY FS_Singleton
  <2>2. IsFiniteSet({"like"} \cup {"collect"})
      BY <2>1, FS_AddElement
  <2>3. IsFiniteSet(({"like"} \cup {"collect"}) \cup {"comment"})
      BY <2>2, FS_AddElement
  <2>4. IsFiniteSet((({"like"} \cup {"collect"}) \cup {"comment"}) \cup {"share"})
      BY <2>3, FS_AddElement
  <2>5. Kind = (({"like"} \cup {"collect"}) \cup {"comment"}) \cup {"share"}
      BY DEF Kind
  <2>. QED BY <2>4, <2>5
<1>2. IsFiniteSet(Fact)
    BY <1>1, FS_Product, CounterConstants DEF Fact
<1>3. ASSUME NEW k \in Kind
      PROVE  Cardinality({f \in S : f[1] = k}) \in Nat
    BY <1>2, FS_Subset, FS_CardinalityType
<1>. QED BY <1>3 DEF Count

\* The hot score of natural counts is a natural number.
LEMMA ScoreType ==
    ASSUME NEW v \in Nat, NEW c \in [Kind -> Nat]
    PROVE  Score(v, c) \in Nat
<1>1. c["like"] \in Nat /\ c["collect"] \in Nat /\ c["comment"] \in Nat /\ c["share"] \in Nat
    BY DEF Kind
<1>. QED BY <1>1 DEF Score

\* A snapshot of natural counts is a statement that nothing has overtaken.
LEMMA SnapshotType ==
    ASSUME view \in Nat, NEW c \in [Kind -> Nat]
    PROVE  /\ Snapshot(c) \in Stmt
           /\ Snapshot(c) # None
           /\ Snapshot(c).counts = c
           /\ Snapshot(c).overtaken = FALSE
<1>1. Snapshot(c) \in Stmt
    BY DEF Snapshot, Stmt
<1>. QED BY <1>1, CounterConstants DEF Snapshot

\* Overtaking leaves no statement fresh and starts or ends none.
LEMMA OvertakeType ==
    ASSUME NEW D, NEW stmts \in [D -> Stmt \cup {None}]
    PROVE  /\ Overtake(stmts) \in [D -> Stmt \cup {None}]
           /\ \A s \in D : stmts[s] = None => Overtake(stmts)[s] = None
           /\ \A s \in D : stmts[s] # None =>
                Overtake(stmts)[s] # None /\ Overtake(stmts)[s].overtaken
<1>1. ASSUME NEW s \in D, stmts[s] # None
      PROVE  /\ [stmts[s] EXCEPT !.overtaken = TRUE] \in Stmt
             /\ [stmts[s] EXCEPT !.overtaken = TRUE].overtaken
             /\ [stmts[s] EXCEPT !.overtaken = TRUE] # None
    BY <1>1, CounterConstants DEF Stmt
<1>. QED BY <1>1 DEF Overtake

\* A statement that is under way was started.
LEMMA StmtFields ==
    ASSUME NEW s \in Stmt \cup {None}, s # None
    PROVE  s.counts \in [Kind -> Nat] /\ s.view \in Nat /\ s.overtaken \in BOOLEAN
BY DEF Stmt

-----------------------------------------------------------------------------
(* The inductive invariant *)

LEMMA InitInv == Init => CountersInv
<1>. SUFFICES ASSUME Init PROVE CountersInv
    OBVIOUS
<1>1. TypeOK
  <2>1. rebuild \in [Worker -> Stmt \cup {None}] /\ repair \in [Repair -> Stmt \cup {None}]
      BY DEF Init
  <2>2. counts \in [Kind -> Nat]
      BY DEF Init
  <2>3. published \in BOOLEAN /\ lost \in BOOLEAN /\ overtaken \in BOOLEAN
      BY Zenon DEF Init
  <2>. QED BY <2>1, <2>2, <2>3, CounterConstants DEF Init, TypeOK
<1>2. ViewExact
    BY DEF Init, ViewExact
<1>3. Owed
    BY DEF Init, Owed
<1>. QED BY <1>1, <1>2, <1>3 DEF CountersInv, DisagreementIsOwed

\* A step of the API: a changed fact always leaves an event behind.
LEMMA ApiStepInv == CountersInv /\ ApiStep => CountersInv'
<1>. SUFFICES ASSUME CountersInv, ApiStep PROVE CountersInv'
    OBVIOUS
<1>. USE DEF CountersInv
<1>1. ASSUME NEW f \in Fact, AddFact(f) \/ RemoveFact(f) PROVE CountersInv'
  <2>1. TypeOK'
      BY <1>1, CounterConstants DEF TypeOK, AddFact, RemoveFact, rowVars, stmtVars
  <2>2. ViewExact'
      BY <1>1 DEF ViewExact, AddFact, RemoveFact, rowVars
  <2>3. Owed'
      BY <1>1 DEF AddFact, RemoveFact, Owed, TypeOK
  <2>. QED BY <2>1, <2>2, <2>3 DEF DisagreementIsOwed
<1>2. CASE RecordNoteView
  <2>1. TypeOK'
      BY <1>2, CounterConstants DEF TypeOK, RecordNoteView, rowVars, stmtVars
  <2>. QED BY <1>2, <2>1 DEF RecordNoteView, rowVars, stmtVars, ViewExact,
              DisagreementIsOwed, Owed, Exact, Stale
<1>3. CASE SoftDeleteNote
  <2>1. TypeOK'
      BY <1>3 DEF TypeOK, SoftDeleteNote, rowVars, eventVars, stmtVars
  <2>. QED BY <1>3, <2>1 DEF SoftDeleteNote, rowVars, eventVars, stmtVars, ViewExact,
              DisagreementIsOwed, Owed, Exact, Stale
<1>4. CASE GetNoteRankingStats
  <2>1. TypeOK'
      BY <1>4, SnapshotType DEF TypeOK, GetNoteRankingStats, factVars, rowVars, eventVars
  <2>. QED BY <1>4, <2>1 DEF GetNoteRankingStats, factVars, rowVars, eventVars, ViewExact,
              DisagreementIsOwed, Owed, Exact, Stale
<1>5. CASE UpdateNoteHotScore
  <2>1. Score(edit.view, edit.counts) \in Nat
      BY <1>5, StmtFields, ScoreType DEF UpdateNoteHotScore, TypeOK
  <2>2. TypeOK'
      BY <1>5, <2>1 DEF TypeOK, UpdateNoteHotScore, factVars, eventVars
  <2>. QED BY <1>5, <2>2 DEF UpdateNoteHotScore, factVars, eventVars, ViewExact,
              DisagreementIsOwed, Owed, Exact, Stale
<1>6. ASSUME NEW u \in User, \/ LikeNote(u) \/ CollectNote(u) \/ ShareNote(u)
                              \/ CreateComment(u) \/ SoftDeleteComment(u)
      PROVE  CountersInv'
  <2>1. \A k \in Kind : <<k, u>> \in Fact
      BY DEF Fact
  <2>. QED BY <1>1, <1>6, <2>1 DEF LikeNote, CollectNote, ShareNote, CreateComment,
              SoftDeleteComment, Kind
<1>7. ASSUME NEW k \in Kind, NEW u \in User, RemoveNoteInteraction(k, u)
      PROVE  CountersInv'
    BY <1>1, <1>7 DEF RemoveNoteInteraction, Fact
<1>. QED BY <1>2, <1>3, <1>4, <1>5, <1>6, <1>7 DEF ApiStep

\* A step of a worker.  A commit turns every other statement into an overtaken
\* one; an abort gives the event back.
LEMMA WorkerStepInv ==
    ASSUME CountersInv, NEW w \in Worker, WorkerStep(w)
    PROVE  CountersInv'
<1>. USE DEF CountersInv
<1>1. CASE BeginRebuild(w)
  <2>1. Count(facts) \in [Kind -> Nat]
      BY CountType DEF TypeOK
  <2>2. /\ Snapshot(Count(facts)) \in Stmt
        /\ Snapshot(Count(facts)) # None
        /\ Snapshot(Count(facts)).counts = Count(facts)
        /\ Snapshot(Count(facts)).overtaken = FALSE
      BY <2>1, SnapshotType DEF TypeOK
  <2>3. TypeOK'
      BY <1>1, <2>2 DEF TypeOK, BeginRebuild, factVars, rowVars
  <2>4. Owed'
      BY <1>1, <2>2 DEF BeginRebuild, TypeOK, Owed, factVars
  <2>. QED BY <1>1, <2>3, <2>4 DEF BeginRebuild, rowVars, ViewExact, DisagreementIsOwed
<1>2. CASE CommitRebuild(w)
  <2>1. rebuild[w] \in Stmt \cup {None} /\ rebuild[w] # None
      BY <1>2 DEF CommitRebuild, TypeOK
  <2>2. /\ rebuild[w].counts \in [Kind -> Nat]
        /\ rebuild[w].overtaken \in BOOLEAN
      BY <2>1, StmtFields
  <2>3. [rebuild EXCEPT ![w] = None] \in [Worker -> Stmt \cup {None}]
      BY DEF TypeOK
  <2>4. /\ rebuild' \in [Worker -> Stmt \cup {None}]
        /\ rebuild'[w] = None
        /\ \A v \in Worker \ {w} : rebuild[v] # None =>
              rebuild'[v] # None /\ rebuild'[v].overtaken
        /\ \A v \in Worker \ {w} : rebuild[v] = None => rebuild'[v] = None
    <3>. DEFINE others == [rebuild EXCEPT ![w] = None]
    <3>1. rebuild' = Overtake(others)
        BY <1>2 DEF CommitRebuild
    <3>2. /\ Overtake(others) \in [Worker -> Stmt \cup {None}]
          /\ \A v \in Worker : others[v] = None => Overtake(others)[v] = None
          /\ \A v \in Worker : others[v] # None =>
                Overtake(others)[v] # None /\ Overtake(others)[v].overtaken
      <4>. HIDE DEF others
      <4>1. others \in [Worker -> Stmt \cup {None}]
          BY <2>3 DEF others
      <4>. QED BY <4>1, OvertakeType
    <3>3. others[w] = None /\ \A v \in Worker \ {w} : others[v] = rebuild[v]
        BY DEF TypeOK
    <3>. HIDE DEF others
    <3>. QED BY <3>1, <3>2, <3>3
  <2>5. /\ repair' \in [Repair -> Stmt \cup {None}]
        /\ \A r \in Repair : repair'[r] # None => repair'[r].overtaken
      BY <1>2, OvertakeType DEF CommitRebuild, TypeOK
  <2>6. Score(view, rebuild[w].counts) \in Nat
      BY <2>2, ScoreType DEF TypeOK
  <2>7. overtaken' \in BOOLEAN
    <3>1. overtaken' = (overtaken \/ rebuild[w].overtaken)
        BY <1>2 DEF CommitRebuild
    <3>2. (overtaken \/ rebuild[w].overtaken) \in BOOLEAN
        OBVIOUS
    <3>. QED BY <3>1, <3>2
  <2>8. TypeOK'
      BY <1>2, <2>2, <2>4, <2>5, <2>6, <2>7 DEF TypeOK, CommitRebuild, factVars, eventVars
  <2>9. ViewExact'
      BY <1>2 DEF ViewExact, CommitRebuild, eventVars
  <2>10. ASSUME ~lost', ~overtaken', ~Owed'
         PROVE  Exact' /\ (\A v \in Worker : ~Stale(rebuild[v])')
                       /\ (\A r \in Repair : ~Stale(repair[r])')
    <3>1. \A v \in Worker \ {w} : rebuild[v] = None
        BY <2>4, <2>10 DEF Owed
    <3>2. rebuild[w].counts = Count(facts) /\ ~rebuild[w].overtaken
        BY <1>2, <2>1, <2>2, <2>10, <3>1
        DEF CommitRebuild, DisagreementIsOwed, Owed, Stale, eventVars
    <3>3. Exact'
        BY <1>2, <3>2 DEF CommitRebuild, Exact, factVars
    <3>. QED BY <2>4, <2>5, <3>1, <3>3 DEF Stale
  <2>. QED BY <2>8, <2>9, <2>10 DEF DisagreementIsOwed
<1>3. CASE AbortRebuild(w)
  <2>1. TypeOK'
      BY <1>3 DEF TypeOK, AbortRebuild, factVars, rowVars
  <2>2. Owed'
      BY <1>3 DEF AbortRebuild, TypeOK, Owed
  <2>. QED BY <1>3, <2>1, <2>2 DEF AbortRebuild, rowVars, ViewExact, DisagreementIsOwed
<1>. QED BY <1>1, <1>2, <1>3 DEF WorkerStep

\* Views and lost events do not touch the counts.
LEMMA EventStepInv ==
    ASSUME CountersInv, IncrementNoteView \/ LoseRebuild \/ LoseView
    PROVE  CountersInv'
<1>. USE DEF CountersInv
<1>1. CASE IncrementNoteView
  <2>1. TypeOK'
      BY <1>1 DEF TypeOK, IncrementNoteView, factVars, stmtVars
  <2>2. ViewExact'
      BY <1>1 DEF TypeOK, IncrementNoteView, ViewExact
  <2>. QED BY <1>1, <2>1, <2>2 DEF IncrementNoteView, factVars, stmtVars,
              DisagreementIsOwed, Owed, Exact, Stale
<1>2. CASE LoseRebuild
  <2>1. TypeOK'
      BY <1>2 DEF TypeOK, LoseRebuild, factVars, rowVars, stmtVars
  <2>. QED BY <1>2, <2>1 DEF LoseRebuild, rowVars, ViewExact, DisagreementIsOwed
<1>3. CASE LoseView
  <2>1. TypeOK'
      BY <1>3 DEF TypeOK, LoseView, factVars, rowVars, stmtVars
  <2>. QED BY <1>3, <2>1 DEF LoseView, factVars, rowVars, stmtVars, ViewExact,
              DisagreementIsOwed, Owed, Exact, Stale
<1>. QED BY <1>1, <1>2, <1>3

\* A step of a repair.
LEMMA RepairStepInv ==
    ASSUME CountersInv, NEW r \in Repair, RepairStep(r)
    PROVE  CountersInv'
<1>. USE DEF CountersInv
<1>1. CASE BeginRepair(r)
  <2>1. Count(facts) \in [Kind -> Nat]
      BY CountType DEF TypeOK
  <2>2. /\ Snapshot(Count(facts)) \in Stmt
        /\ Snapshot(Count(facts)).counts = Count(facts)
      BY <2>1, SnapshotType DEF TypeOK
  <2>3. TypeOK'
      BY <1>1, <2>2 DEF TypeOK, BeginRepair, factVars, rowVars, eventVars
  <2>4. \A q \in Repair : ~Stale(repair[q]) => ~Stale(repair[q])'
      BY <1>1, <2>2 DEF BeginRepair, Stale, TypeOK, factVars
  <2>. QED BY <1>1, <2>3, <2>4 DEF BeginRepair, factVars, rowVars, eventVars, ViewExact,
              DisagreementIsOwed, Owed, Exact, Stale
<1>2. CASE CommitRepair(r) /\ Distinct(repair[r].counts, RepairScore(r))
  <2>1. repair[r] \in Stmt \cup {None} /\ repair[r] # None
      BY <1>2 DEF CommitRepair, TypeOK
  <2>2. /\ repair[r].counts \in [Kind -> Nat]
        /\ repair[r].view \in Nat
        /\ repair[r].overtaken \in BOOLEAN
      BY <2>1, StmtFields
  <2>3. [repair EXCEPT ![r] = None] \in [Repair -> Stmt \cup {None}]
      BY DEF TypeOK
  <2>4. /\ repair' \in [Repair -> Stmt \cup {None}]
        /\ \A q \in Repair : repair'[q] # None => repair'[q].overtaken
    <3>. DEFINE others == [repair EXCEPT ![r] = None]
    <3>1. repair' = Overtake(others)
        BY <1>2 DEF CommitRepair
    <3>2. /\ Overtake(others) \in [Repair -> Stmt \cup {None}]
          /\ \A q \in Repair : others[q] = None => Overtake(others)[q] = None
          /\ \A q \in Repair : others[q] # None => Overtake(others)[q].overtaken
      <4>. HIDE DEF others
      <4>1. others \in [Repair -> Stmt \cup {None}]
          BY <2>3 DEF others
      <4>. QED BY <4>1, OvertakeType
    <3>. HIDE DEF others
    <3>. QED BY <3>1, <3>2
  <2>5. /\ rebuild' \in [Worker -> Stmt \cup {None}]
        /\ \A w \in Worker : rebuild[w] # None =>
              rebuild'[w] # None /\ rebuild'[w].overtaken
        /\ \A w \in Worker : rebuild[w] = None => rebuild'[w] = None
      BY <1>2, OvertakeType DEF CommitRepair, TypeOK
  <2>6. RepairScore(r) \in Nat
      BY <2>2, ScoreType DEF RepairScore, TypeOK
  <2>7. overtaken' \in BOOLEAN
    <3>1. overtaken' = (overtaken \/ repair[r].overtaken)
        BY <1>2 DEF CommitRepair
    <3>2. (overtaken \/ repair[r].overtaken) \in BOOLEAN
        OBVIOUS
    <3>. QED BY <3>1, <3>2
  <2>8. TypeOK'
      BY <1>2, <2>2, <2>4, <2>5, <2>6, <2>7 DEF TypeOK, CommitRepair, factVars, eventVars
  <2>9. ViewExact'
      BY <1>2 DEF ViewExact, CommitRepair, eventVars
  <2>10. ASSUME ~lost', ~overtaken', ~Owed'
         PROVE  Exact' /\ (\A w \in Worker : ~Stale(rebuild[w])')
                       /\ (\A q \in Repair : ~Stale(repair[q])')
    <3>1. \A w \in Worker : rebuild[w] = None
        BY <2>5, <2>10 DEF Owed
    <3>2. repair[r].counts = Count(facts) /\ ~repair[r].overtaken
        BY <1>2, <2>1, <2>2, <2>10, <3>1
        DEF CommitRepair, DisagreementIsOwed, Owed, Stale, eventVars
    <3>3. Exact'
        BY <1>2, <3>2 DEF CommitRepair, Exact, factVars
    <3>. QED BY <2>4, <2>5, <3>1, <3>3 DEF Stale
  <2>. QED BY <2>8, <2>9, <2>10 DEF DisagreementIsOwed
<1>3. CASE \/ AbortRepair(r)
           \/ CommitRepair(r) /\ ~Distinct(repair[r].counts, RepairScore(r))
  <2>1. /\ repair' = [repair EXCEPT ![r] = None]
        /\ UNCHANGED <<factVars, rowVars, eventVars, rebuild, edit, overtaken>>
      BY <1>3 DEF AbortRepair, CommitRepair, rowVars
  <2>2. TypeOK'
      BY <2>1 DEF TypeOK, factVars, rowVars, eventVars
  <2>3. \A q \in Repair : ~Stale(repair[q]) => ~Stale(repair[q])'
      BY <2>1 DEF Stale, TypeOK, factVars
  <2>. QED BY <2>1, <2>2, <2>3 DEF factVars, rowVars, eventVars, ViewExact,
              DisagreementIsOwed, Owed, Exact, Stale
<1>. QED BY <1>1, <1>2, <1>3 DEF RepairStep

LEMMA NextInv == CountersInv /\ [Next]_vars => CountersInv'
<1>. SUFFICES ASSUME CountersInv, [Next]_vars PROVE CountersInv'
    OBVIOUS
<1>1. CASE ApiStep
    BY <1>1, ApiStepInv
<1>2. ASSUME NEW w \in Worker, WorkerStep(w) PROVE CountersInv'
    BY <1>2, WorkerStepInv
<1>3. CASE IncrementNoteView \/ LoseRebuild \/ LoseView
    BY <1>3, EventStepInv
<1>4. ASSUME NEW r \in Repair, RepairStep(r) PROVE CountersInv'
    BY <1>4, RepairStepInv
<1>5. CASE UNCHANGED vars
    BY <1>5 DEF vars, factVars, rowVars, eventVars, stmtVars, CountersInv, TypeOK,
        ViewExact, DisagreementIsOwed, Owed, Exact, Stale
<1>. QED BY <1>1, <1>2, <1>3, <1>4, <1>5 DEF Next

-----------------------------------------------------------------------------
(* What it gives *)

\* Whenever the row or a write that nothing overtook disagrees with the facts, a
\* rebuild is owed; and the view counter is the number of views applied.
THEOREM CountersInvariant == Spec => []CountersInv
<1>1. Init => CountersInv
    BY InitInv
<1>2. CountersInv /\ [Next]_vars => CountersInv'
    BY NextInv
<1>. QED BY <1>1, <1>2, PTL DEF Spec

\* With every event applied and nothing under way the counters are exact, unless
\* an event was lost or a statement wrote counts over a newer write: the part of
\* "delivery order is harmless" that does hold.
THEOREM CountersExactUnlessOvertaken == Spec => []ExactUnlessOvertaken
<1>1. CountersInv => ExactUnlessOvertaken
    BY DEF CountersInv, DisagreementIsOwed, ExactUnlessOvertaken, Quiescent, Owed
<1>. QED BY <1>1, CountersInvariant, PTL

\* Rebuilds, repairs and score writes never lose or double an applied view.
THEOREM ViewCountExact == Spec => []ViewExact
<1>1. CountersInv => ViewExact
    BY DEF CountersInv
<1>. QED BY <1>1, CountersInvariant, PTL
=============================================================================
