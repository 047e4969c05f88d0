--------------------------- MODULE NoteCacheProofs ---------------------------
(***************************************************************************)
(* Proofs about what the note service keeps in Redis: the detail cache and *)
(* the ranking of a note (NoteCache), and the pages of its comments        *)
(* (CommentPages).                                                         *)
(***************************************************************************)
EXTENDS NoteCache, CommentPages, FiniteSetTheorems, WellFoundedInduction, TLAPS

-----------------------------------------------------------------------------
(* The scripts *)

AnyScript == RemovalScript \cup RefreshBegun \cup
    {<<>>, <<"del">>, <<"set">>, <<"zadd">>, <<"replace">>,
     <<"del", "set", "stats", "zadd">>, <<"set", "stats", "zadd">>}

\* Which calls the scripts begin with, and how they go on.
LEMMA ScriptFacts ==
    /\ AnyScript \subseteq Seq(Call)
    /\ Head(<<"del">>) = "del" /\ Tail(<<"del">>) = <<>>
    /\ Head(<<"set">>) = "set" /\ Tail(<<"set">>) = <<>>
    /\ Head(<<"zadd">>) = "zadd" /\ Tail(<<"zadd">>) = <<>>
    /\ Head(<<"zrem">>) = "zrem" /\ Tail(<<"zrem">>) = <<>>
    /\ Head(<<"replace">>) = "replace" /\ Tail(<<"replace">>) = <<>>
    /\ Head(<<"del", "zrem">>) = "del" /\ Tail(<<"del", "zrem">>) = <<"zrem">>
    /\ Head(<<"stats", "zadd">>) = "stats" /\ Tail(<<"stats", "zadd">>) = <<"zadd">>
    /\ Head(<<"del", "stats", "zadd">>) = "del"
    /\ Tail(<<"del", "stats", "zadd">>) = <<"stats", "zadd">>
    /\ Head(<<"set", "stats", "zadd">>) = "set"
    /\ Tail(<<"set", "stats", "zadd">>) = <<"stats", "zadd">>
    /\ Head(<<"del", "set", "stats", "zadd">>) = "del"
    /\ Tail(<<"del", "set", "stats", "zadd">>) = <<"set", "stats", "zadd">>
BY DEF AnyScript, RemovalScript, RefreshBegun, Call

LEMMA ScriptsDiffer ==
    /\ <<>> \notin RemovalScript \cup RefreshBegun
    /\ <<"zadd">> \notin RemovalScript \cup RefreshBegun \cup {<<>>}
    /\ <<"replace">> \notin RemovalScript \cup RefreshBegun \cup {<<>>, <<"zadd">>}
    /\ <<"del">> \notin RemovalScript \cup RefreshBegun \cup {<<>>, <<"zadd">>}
    /\ <<"set">> \notin RemovalScript \cup RefreshBegun \cup {<<>>, <<"zadd">>}
    /\ <<"set", "stats", "zadd">> \notin RemovalScript \cup RefreshBegun \cup {<<>>, <<"zadd">>}
    /\ <<"del", "set", "stats", "zadd">> \notin RemovalScript \cup RefreshBegun \cup {<<>>, <<"zadd">>}
    /\ RemovalScript \cap RefreshBegun = {}
BY DEF RemovalScript, RefreshBegun

\* What is left of a script that is at the given call.
LEMMA AtCallShape ==
    ASSUME ScriptShapes, NEW a \in Actor
    PROVE  /\ script[a] \in AnyScript
           /\ ~Idle(a) => Tail(script[a]) \in AnyScript
           /\ AtCall(a, "del") => script[a] \in
                {<<"del">>, <<"del", "zrem">>, <<"del", "stats", "zadd">>, <<"del", "set", "stats", "zadd">>}
           /\ AtCall(a, "set") => script[a] \in {<<"set">>, <<"set", "stats", "zadd">>}
           /\ AtCall(a, "stats") => script[a] = <<"stats", "zadd">>
           /\ AtCall(a, "zadd") => script[a] = <<"zadd">>
           /\ AtCall(a, "zrem") => script[a] = <<"zrem">>
           /\ AtCall(a, "replace") => script[a] = <<"replace">>
<1>1. script[a] \in AnyScript
  BY DEF ScriptShapes, AnyScript, Actor
<1>. QED BY <1>1, ScriptFacts DEF AnyScript, RemovalScript, RefreshBegun, AtCall, Idle

\* The shapes that the role of an actor allows it.
ShapeFor(a) ==
    {s \in AnyScript :
        /\ a \in Request => s # <<"replace">>
        /\ a \in Worker => s \in RemovalScript \cup RefreshBegun \cup {<<>>, <<"zadd">>}
        /\ a \in Reconciler => s \in {<<>>, <<"replace">>}}

LEMMA ShapesByRole == ScriptShapes <=> \A a \in Actor : script[a] \in ShapeFor(a)
<1>. DEFINE R == RemovalScript \cup RefreshBegun \cup
          {<<>>, <<"del">>, <<"set">>, <<"zadd">>,
           <<"del", "set", "stats", "zadd">>, <<"set", "stats", "zadd">>}
<1>1. /\ AnyScript = R \cup {<<"replace">>}
      /\ <<"replace">> \notin R
      /\ RemovalScript \cup RefreshBegun \cup {<<>>, <<"zadd">>} \subseteq R
      /\ {<<>>, <<"replace">>} \subseteq AnyScript
  BY ScriptsDiffer DEF AnyScript, RemovalScript, RefreshBegun
<1>2. ScriptShapes <=>
        /\ \A r \in Request : script[r] \in R
        /\ \A w \in Worker : script[w] \in RemovalScript \cup RefreshBegun \cup {<<>>, <<"zadd">>}
        /\ \A c \in Reconciler : script[c] \in {<<>>, <<"replace">>}
  BY DEF ScriptShapes
<1>. HIDE DEF R
<1>. QED BY <1>1, <1>2, CacheConstants DEF ShapeFor, Actor

LEMMA ShapesByRoleNext == ScriptShapes' <=> (\A a \in Actor : script[a] \in ShapeFor(a))'
BY ShapesByRole, PTL

-----------------------------------------------------------------------------
(* The type and the shapes of the scripts: one step per action *)

LEMMA ShapeStep ==
    ASSUME TypeOK, ScriptShapes, NEW a \in Actor, NEW s \in ShapeFor(a),
           script' = [script EXCEPT ![a] = s]
    PROVE  ScriptShapes' /\ script' \in [Actor -> Seq(Call)]
<1>1. \A b \in Actor : script'[b] \in ShapeFor(b)
  BY ShapesByRole DEF TypeOK
<1>2. s \in Seq(Call)
  BY ScriptFacts DEF ShapeFor
<1>. QED BY <1>1, <1>2, ShapesByRoleNext DEF TypeOK

LEMMA ShapesAllowed ==
    /\ \A r \in Request :
          /\ {<<"set", "stats", "zadd">>, <<"del", "set", "stats", "zadd">>, <<"del", "zrem">>,
              <<"del">>, <<"set">>} \subseteq ShapeFor(r)
    /\ \A w \in Worker : {<<"del", "zrem">>, <<"del", "stats", "zadd">>} \subseteq ShapeFor(w)
    /\ \A c \in Reconciler : <<"replace">> \in ShapeFor(c)
    /\ \A a \in Actor : <<>> \in ShapeFor(a)
<1>1. /\ {<<"set", "stats", "zadd">>, <<"del", "set", "stats", "zadd">>, <<"del">>, <<"set">>,
          <<"del", "zrem">>} \subseteq AnyScript \ {<<"replace">>}
      /\ {<<"del", "zrem">>, <<"del", "stats", "zadd">>, <<>>} \subseteq
            (AnyScript \cap (RemovalScript \cup RefreshBegun \cup {<<>>})) \ {<<"replace">>}
      /\ <<"replace">> \in AnyScript
  BY DEF AnyScript, RemovalScript, RefreshBegun
<1>. QED BY <1>1, CacheConstants DEF ShapeFor, Actor

\* A commit of a request.
LEMMA CommitKeeps ==
    ASSUME NoteCacheInv, NEW r \in Request, NEW v, NEW k \in EventKind, NEW s \in ShapeFor(r),
           Commit(r, v, k, s), published' \in BOOLEAN,
           \/ k = "change" /\ v = version /\ published /\ published' /\ s \notin RemovalScript
           \/ k = "update" /\ v = version + 1 /\ published' /\ s \notin RemovalScript
              /\ (published \/ version = 0)
           \/ k = "delete" /\ v = version + 1 /\ published /\ ~published'
    PROVE  NoteCacheInv'
<1>. USE DEF NoteCacheInv
<1>1. /\ r \in Actor /\ r \notin Worker
      /\ script' = [script EXCEPT ![r] = s]
      /\ val' = [val EXCEPT ![r] = v]
      /\ version \in Nat /\ writes \in Nat /\ MaxWrites \in Nat /\ events["change"] \in Nat
      /\ UNCHANGED <<cache, rank, kind, raced, dropped>>
      /\ writes < MaxWrites /\ writes' = writes + 1
      /\ version' = v
      /\ events' = [events EXCEPT ![k] = events[k] + 1]
      /\ events \in [EventKind -> Nat]
  BY CacheConstants DEF Commit, Run, Actor, TypeOK, Version, redisVars, EventKind
<1>2. ScriptShapes' /\ script' \in [Actor -> Seq(Call)]
  BY <1>1, ShapeStep
<1>3. VersionBudget'
  BY <1>1 DEF VersionBudget, EventKind
<1>4. version' \in Version
  BY <1>1, <1>3 DEF VersionBudget, Version, EventKind
<1>5. TypeOK'
  BY <1>1, <1>2, <1>4 DEF TypeOK
<1>6. HandFits'
  BY <1>1 DEF HandFits, Idle, TypeOK
<1>7. events'[k] > 0 /\ \A j \in EventKind : events'[j] >= events[j]
  BY <1>1
<1>8. CachePending'
  BY <1>7 DEF CachePending
<1>9. RankPending'
  BY <1>7 DEF RankPending
<1>10. RemovalFinal'
  <2>1. CASE k = "delete"
    BY <1>1, <2>1 DEF RemovalFinal
  <2>2. CASE k # "delete"
    <3>1. events'["delete"] = events["delete"]
      BY <1>1, <2>2 DEF EventKind
    <3>2. \A a \in Actor : script'[a] \in RemovalScript => script[a] \in RemovalScript
      BY <1>1, <2>2 DEF TypeOK
    <3>3. version' = 0 => ~published'
      BY <1>1, <2>2 DEF RemovalFinal
    <3>. QED BY <1>1, <2>2, <3>1, <3>2, <3>3 DEF RemovalFinal
  <2>. QED BY <2>1, <2>2
<1>. QED BY <1>2, <1>3, <1>5, <1>6, <1>8, <1>9, <1>10

\* A step of a request or a reconciler that commits nothing: the entry and the rank stay,
\* or are right, or were stored from an outdated read.
LEMMA OutsiderKeeps ==
    ASSUME NoteCacheInv, NEW a \in Actor \ Worker, NEW s \in ShapeFor(a),
           script' = [script EXCEPT ![a] = s],
           s \in RemovalScript => script[a] \in RemovalScript,
           val' \in [Actor -> Version \cup {None}], \A b \in Actor \ {a} : val'[b] = val[b],
           UNCHANGED <<version, published, events, kind, writes>>,
           raced' \in BOOLEAN, raced => raced', dropped' \in BOOLEAN, dropped => dropped',
           cache' \in Version \cup {None}, rank' \in Version \cup {None},
           cache' = cache \/ cache' \in {None, Entry} \/ raced',
           rank' = rank \/ rank' = Entry \/ raced'
    PROVE  NoteCacheInv'
<1>. USE DEF NoteCacheInv
<1>1. ScriptShapes' /\ script' \in [Actor -> Seq(Call)]
  BY ShapeStep
<1>2. TypeOK' /\ VersionBudget'
  BY <1>1 DEF TypeOK, VersionBudget
<1>3. \A w \in Worker : script'[w] = script[w] /\ val'[w] = val[w]
  BY DEF TypeOK, Actor
<1>4. HandFits'
  BY <1>3 DEF HandFits, Idle
<1>5. RemovalFinal'
  <2>1. \A b \in Actor : script'[b] \in RemovalScript => script[b] \in RemovalScript
    BY DEF TypeOK
  <2>. QED BY <2>1 DEF RemovalFinal
<1>6. CachePending'
  BY <1>3 DEF CachePending, CacheFresh, Entry, AtCall, Idle
<1>7. RankPending'
  BY <1>3 DEF RankPending, Entry
<1>. QED BY <1>1, <1>2, <1>4, <1>5, <1>6, <1>7

LEMMA RequestKeeps ==
    ASSUME NoteCacheInv, NEW r \in Request, RequestStep(r)
    PROVE  NoteCacheInv'
<1>. USE DEF NoteCacheInv
<1>0. published \in BOOLEAN /\ r \in Actor
  BY DEF TypeOK, Actor
<1>1. CASE CreateNote(r)
  <2>1. Commit(r, version + 1, "update", <<"set", "stats", "zadd">>)
    BY <1>1 DEF CreateNote
  <2>. QED BY <1>1, <2>1, CommitKeeps, ShapesAllowed, ScriptsDiffer DEF CreateNote, EventKind
<1>2. CASE UpdateNote(r)
  BY <1>0, <1>2, CommitKeeps, ShapesAllowed, ScriptsDiffer DEF UpdateNote, EventKind
<1>3. CASE DeleteNote(r)
  BY <1>3, CommitKeeps, ShapesAllowed DEF DeleteNote, EventKind
<1>4. CASE Interact(r)
  BY <1>0, <1>4, CommitKeeps, ShapesAllowed, ScriptsDiffer DEF Interact, EventKind
<1>5. CASE GetNote(r)
  <2>1. /\ script' = [script EXCEPT ![r] = <<"set">>]
        /\ val' = [val EXCEPT ![r] = version]
        /\ r \notin Worker
        /\ UNCHANGED <<version, published, events, cache, rank, kind, writes, raced, dropped>>
    BY <1>5, CacheConstants DEF GetNote, Run, rowVars, redisVars
  <2>2. <<"set">> \in ShapeFor(r) \ RemovalScript
    BY ShapesAllowed, ScriptsDiffer
  <2>. QED BY <1>0, <2>1, <2>2, OutsiderKeeps DEF TypeOK
<1>. QED BY <1>1, <1>2, <1>3, <1>4, <1>5 DEF RequestStep

LEMMA ReconcilerKeeps ==
    ASSUME NoteCacheInv, NEW c \in Reconciler, ListNoteRankings(c)
    PROVE  NoteCacheInv'
<1>. USE DEF NoteCacheInv
<1>1. /\ script' = [script EXCEPT ![c] = <<"replace">>]
      /\ val' = [val EXCEPT ![c] = IF published THEN version ELSE None]
      /\ c \in Actor \ Worker
      /\ UNCHANGED <<version, published, events, cache, rank, kind, writes, raced, dropped>>
  BY CacheConstants DEF ListNoteRankings, Run, rowVars, redisVars, Actor
<1>2. <<"replace">> \in ShapeFor(c) \ RemovalScript
  BY ShapesAllowed, ScriptsDiffer
<1>3. val' \in [Actor -> Version \cup {None}] /\ \A b \in Actor \ {c} : val'[b] = val[b]
  BY <1>1 DEF TypeOK
<1>. QED BY <1>1, <1>2, <1>3, OutsiderKeeps DEF TypeOK

-----------------------------------------------------------------------------
(* Workers *)

LEMMA ApplyEventKeeps ==
    ASSUME NoteCacheInv, NEW w \in Worker, NEW k \in EventKind, ApplyEvent(w, k)
    PROVE  NoteCacheInv'
<1>. USE DEF NoteCacheInv
<1>. DEFINE s == RefreshScript(k)
<1>1. /\ w \in Actor /\ events[k] > 0
      /\ script' = [script EXCEPT ![w] = s]
      /\ val' = [val EXCEPT ![w] = None]
      /\ kind' = [kind EXCEPT ![w] = k]
      /\ events' = [events EXCEPT ![k] = events[k] - 1]
      /\ version' = IF k = "change" THEN version + 1 ELSE version
      /\ UNCHANGED <<published, writes, cache, rank, raced, dropped>>
      /\ events \in [EventKind -> Nat] /\ version \in Nat
  BY DEF ApplyEvent, Run, redisVars, Actor, TypeOK, Version
<1>2. /\ s = IF k = "delete" THEN <<"del", "zrem">> ELSE <<"del", "stats", "zadd">>
      /\ s \in ShapeFor(w) /\ s # <<>> /\ Head(s) = "del"
      /\ k = "delete" => s \in RemovalScript
      /\ k # "delete" => s \in RefreshBegun
      /\ s \in RemovalScript => k = "delete"
  BY ShapesAllowed, ScriptsDiffer, ScriptFacts DEF RefreshScript, RemovalScript, RefreshBegun
<1>. HIDE DEF s
<1>3. ScriptShapes' /\ script' \in [Actor -> Seq(Call)]
  BY <1>1, <1>2, ShapeStep
<1>4. VersionBudget'
  BY <1>1 DEF VersionBudget, EventKind, TypeOK
<1>5. version' \in Version /\ events' \in [EventKind -> Nat]
  BY <1>1, <1>4, CacheConstants DEF VersionBudget, Version, EventKind, TypeOK
<1>6. TypeOK'
  BY <1>1, <1>3, <1>5 DEF TypeOK
<1>7. HandFits'
  BY <1>1, <1>2 DEF HandFits, Idle, TypeOK, Actor
<1>8. CachePending'
  BY <1>1, <1>2, <1>6 DEF CachePending, AtCall, Idle, TypeOK
<1>9. RemovalFinal'
  <2>1. k = "delete" => version > 0 /\ ~published
    BY <1>1 DEF RemovalFinal
  <2>2. events'["delete"] > 0 => events["delete"] > 0
    BY <1>1 DEF EventKind
  <2>3. \A a \in Actor : script'[a] \in RemovalScript =>
            script[a] \in RemovalScript \/ k = "delete"
    BY <1>1, <1>2 DEF TypeOK
  <2>4. published => version # 0
    BY DEF RemovalFinal
  <2>. QED BY <1>1, <2>1, <2>2, <2>3, <2>4 DEF RemovalFinal
<1>10. RankPending'
  <2>1. CASE k = "delete"
    <3>1. ~published
      BY <1>1, <2>1 DEF RemovalFinal
    <3>. QED BY <1>1, <1>2, <1>6, <2>1, <3>1 DEF RankPending, TypeOK
  <2>2. CASE k # "delete"
    <3>1. CASE published
      BY <1>1, <1>2, <1>6, <2>2, <3>1 DEF RankPending, TypeOK
    <3>2. CASE ~published
      <4>1. Entry' = Entry /\ events'["delete"] = events["delete"]
        BY <1>1, <2>2, <3>2 DEF Entry, EventKind
      <4>2. \A x \in Worker : script[x] \in RemovalScript => script'[x] \in RemovalScript
        BY <1>1, ScriptsDiffer DEF ApplyEvent, Idle, TypeOK, Actor
      <4>. QED BY <1>1, <3>2, <4>1, <4>2 DEF RankPending
    <3>. QED BY <3>1, <3>2
  <2>. QED BY <2>1, <2>2
<1>. QED BY <1>3, <1>4, <1>6, <1>7, <1>8, <1>9, <1>10

LEMMA CrashWorkerKeeps ==
    ASSUME NoteCacheInv, NEW w \in Worker, CrashWorker(w)
    PROVE  NoteCacheInv'
<1>. USE DEF NoteCacheInv
<1>. DEFINE k == IF kind[w] = "delete" THEN "delete" ELSE "update"
<1>1. /\ w \in Actor /\ ~Idle(w) /\ k \in {"delete", "update"}
      /\ script' = [script EXCEPT ![w] = <<>>]
      /\ val' = [val EXCEPT ![w] = None]
      /\ kind' = [kind EXCEPT ![w] = None]
      /\ events' = [events EXCEPT ![k] = events[k] + 1]
      /\ UNCHANGED <<version, published, writes, cache, rank, raced, dropped>>
      /\ events \in [EventKind -> Nat]
      /\ k = "delete" <=> script[w] \in RemovalScript
  BY DEF CrashWorker, Run, rowVars, redisVars, Actor, TypeOK, HandFits
<1>. HIDE DEF k
<1>2. ScriptShapes' /\ script' \in [Actor -> Seq(Call)]
  BY <1>1, ShapeStep, ShapesAllowed
<1>3. /\ events' \in [EventKind -> Nat] /\ events'[k] > 0
      /\ events'["change"] = events["change"]
      /\ \A j \in EventKind : events'[j] >= events[j]
  BY <1>1 DEF EventKind
<1>4. TypeOK' /\ VersionBudget'
  BY <1>1, <1>2, <1>3 DEF TypeOK, VersionBudget
<1>5. HandFits'
  BY <1>1 DEF HandFits, Idle, TypeOK, Actor
<1>6. CachePending'
  BY <1>1, <1>3 DEF CachePending, EventKind
<1>7. RemovalFinal'
  <2>1. k = "delete" => version > 0 /\ ~published
    BY <1>1 DEF RemovalFinal
  <2>2. events'["delete"] > 0 => events["delete"] > 0 \/ k = "delete"
    BY <1>1 DEF EventKind
  <2>3. \A a \in Actor : script'[a] \in RemovalScript => script[a] \in RemovalScript
    BY <1>1, ScriptsDiffer DEF TypeOK
  <2>. QED BY <1>1, <2>1, <2>2, <2>3 DEF RemovalFinal
<1>8. RankPending'
  <2>1. CASE published
    <3>1. k = "update"
      BY <1>1, <2>1 DEF RemovalFinal
    <3>. QED BY <1>1, <1>3, <2>1, <3>1 DEF RankPending
  <2>2. CASE ~published
    <3>1. CASE k = "delete"
      BY <1>1, <1>3, <2>2, <3>1 DEF RankPending
    <3>2. CASE k = "update"
      <4>1. Entry' = Entry /\ events'["delete"] = events["delete"]
        BY <1>1, <3>2 DEF Entry, EventKind
      <4>2. \A x \in Worker : script[x] \in RemovalScript => script'[x] \in RemovalScript
        BY <1>1, <3>2 DEF TypeOK, Actor
      <4>. QED BY <1>1, <2>2, <4>1, <4>2 DEF RankPending
    <3>. QED BY <1>1, <3>1, <3>2
  <2>. QED BY <2>1, <2>2
<1>. QED BY <1>2, <1>4, <1>5, <1>6, <1>7, <1>8

-----------------------------------------------------------------------------
(* The calls of the scripts *)

LEMMA TailAllowed ==
    ASSUME ScriptShapes, NEW a \in Actor, ~Idle(a)
    PROVE  /\ Tail(script[a]) \in ShapeFor(a)
           /\ Tail(script[a]) \in RemovalScript => script[a] \in RemovalScript
           /\ script[a] \in RemovalScript => Tail(script[a]) \in RemovalScript \cup {<<>>}
<1>1. script[a] \in ShapeFor(a) /\ Tail(script[a]) \in AnyScript
  BY ShapesByRole, AtCallShape
<1>2. \A s \in AnyScript \ {<<>>} :
        /\ Tail(s) # <<"replace">>
        /\ Tail(s) \in RemovalScript => s \in RemovalScript
        /\ s \in RemovalScript => Tail(s) \in RemovalScript \cup {<<>>}
        /\ s \in RemovalScript \cup RefreshBegun \cup {<<"zadd">>} =>
              Tail(s) \in RemovalScript \cup RefreshBegun \cup {<<>>, <<"zadd">>}
        /\ s = <<"replace">> => Tail(s) = <<>>
  <2>. SUFFICES ASSUME NEW s \in AnyScript \ {<<>>}
                PROVE  /\ Tail(s) # <<"replace">>
                       /\ Tail(s) \in RemovalScript => s \in RemovalScript
                       /\ s \in RemovalScript => Tail(s) \in RemovalScript \cup {<<>>}
                       /\ s \in RemovalScript \cup RefreshBegun \cup {<<"zadd">>} =>
                             Tail(s) \in RemovalScript \cup RefreshBegun \cup {<<>>, <<"zadd">>}
                       /\ s = <<"replace">> => Tail(s) = <<>>
    OBVIOUS
  <2>1. CASE s \in RemovalScript
    <3>1. Tail(s) \in {<<"zrem">>, <<>>}
      BY <2>1, ScriptFacts DEF RemovalScript
    <3>. QED BY <2>1, <3>1, ScriptsDiffer DEF RemovalScript
  <2>2. CASE s \in RefreshBegun \cup {<<"zadd">>}
    <3>1. Tail(s) \in {<<"stats", "zadd">>, <<"zadd">>, <<>>}
      BY <2>2, ScriptFacts DEF RefreshBegun
    <3>. QED BY <2>2, <3>1, ScriptsDiffer DEF RefreshBegun
  <2>3. CASE s \in {<<"del">>, <<"set">>, <<"replace">>}
    BY <2>3, ScriptFacts, ScriptsDiffer
  <2>4. CASE s \in {<<"del", "set", "stats", "zadd">>, <<"set", "stats", "zadd">>}
    <3>1. Tail(s) \in {<<"set", "stats", "zadd">>, <<"stats", "zadd">>}
      BY <2>4, ScriptFacts
    <3>2. Tail(s) \notin RemovalScript \cup {<<"replace">>} /\ s # <<"replace">>
      BY <2>4, <3>1 DEF RemovalScript
    <3>. QED BY <2>4, <3>2, ScriptsDiffer
  <2>. QED BY <2>1, <2>2, <2>3, <2>4 DEF AnyScript
<1>. QED BY <1>1, <1>2 DEF ShapeFor, Idle

\* What every call leaves alone.
LEMMA CallFrame ==
    ASSUME NoteCacheInv, NEW a \in Actor, Step(a) \/ CallFails(a) \/ Die(a)
    PROVE  /\ ~Idle(a)
           /\ UNCHANGED <<version, published, events, kind, writes>>
           /\ \/ script' = [script EXCEPT ![a] = Tail(script[a])]
              \/ script' = [script EXCEPT ![a] = <<>>]
           /\ val' \in [Actor -> Version \cup {None}]
           /\ \A b \in Actor \ {a} : val'[b] = val[b]
           /\ raced' \in BOOLEAN /\ (raced => raced')
           /\ dropped' \in BOOLEAN /\ (dropped => dropped')
           /\ cache' \in Version \cup {None} /\ rank' \in Version \cup {None}
<1>. USE DEF NoteCacheInv, TypeOK, rowVars, redisVars, AtCall
<1>1. CASE Del(a) \/ Set(a) \/ ZAdd(a) \/ ZRem(a) \/ Replace(a)
  BY <1>1 DEF Del, Set, ZAdd, ZRem, Replace, Proceed, Outdated
<1>2. CASE Stats(a)
  BY <1>2 DEF Stats
<1>3. CASE CallFails(a) \/ Die(a)
  BY <1>3 DEF CallFails, Die
<1>. QED BY <1>1, <1>2, <1>3 DEF Step

\* What the calls store is right, or came from an outdated read.
LEMMA CallStores ==
    ASSUME NoteCacheInv, NEW a \in Actor, Step(a) \/ CallFails(a) \/ Die(a)
    PROVE  /\ cache' = cache \/ cache' \in {None, Entry} \/ raced'
           /\ rank' = rank \/ rank' = Entry \/ raced'
<1>. USE DEF NoteCacheInv, redisVars
<1>1. CASE Set(a) \/ ZAdd(a) \/ Replace(a)
  BY <1>1 DEF Set, ZAdd, Replace, Outdated, Entry
<1>2. CASE Del(a) \/ Stats(a) \/ CallFails(a) \/ Die(a)
  BY <1>2 DEF Del, Stats, CallFails, Die
<1>3. CASE ZRem(a)
  <2>1. script[a] \in RemovalScript
    BY <1>3, AtCallShape DEF ZRem, RemovalScript
  <2>2. ~published
    BY <2>1 DEF RemovalFinal
  <2>. QED BY <1>3, <2>2 DEF ZRem, Entry
<1>. QED BY <1>1, <1>2, <1>3 DEF Step

LEMMA WorkerCallKeeps ==
    ASSUME NoteCacheInv, NEW w \in Worker, Step(w) \/ CallFails(w) \/ Die(w)
    PROVE  NoteCacheInv'
<1>. USE DEF NoteCacheInv
<1>0. w \in Actor
  BY DEF Actor
<1>1. PICK s \in {Tail(script[w]), <<>>} : script' = [script EXCEPT ![w] = s]
  BY <1>0, CallFrame
<1>2. /\ s \in ShapeFor(w)
      /\ s \in RemovalScript => script[w] \in RemovalScript
      /\ script[w] \in RemovalScript => s \in RemovalScript \cup {<<>>}
  BY <1>0, CallFrame, TailAllowed, ShapesAllowed, ScriptsDiffer
<1>3. ScriptShapes' /\ script' \in [Actor -> Seq(Call)]
  BY <1>0, <1>1, <1>2, ShapeStep
<1>4. TypeOK' /\ VersionBudget'
  BY <1>0, <1>3, CallFrame DEF TypeOK, VersionBudget
<1>5. HandFits'
  BY <1>0, <1>1, <1>2, CallFrame DEF HandFits, Idle, TypeOK, Actor
<1>6. RemovalFinal'
  <2>1. \A b \in Actor : script'[b] \in RemovalScript => script[b] \in RemovalScript
    BY <1>1, <1>2 DEF TypeOK
  <2>. QED BY <1>0, <2>1, CallFrame DEF RemovalFinal
<1>7. \A x \in Worker \ {w} : script'[x] = script[x] /\ val'[x] = val[x]
  BY <1>0, <1>1, CallFrame DEF TypeOK, Actor
<1>8. CachePending'
  <2>1. CASE AtCall(w, "del")
    <3>1. Del(w) \/ dropped'
      BY <2>1, CacheConstants
         DEF Step, Set, Stats, ZAdd, ZRem, Replace, CallFails, Die, AtCall
    <3>2. CASE Del(w)
      BY <3>2 DEF Del, CachePending, CacheFresh
    <3>. QED BY <3>1, <3>2 DEF CachePending
  <2>2. CASE ~AtCall(w, "del")
    <3>1. \A x \in Worker : AtCall(x, "del") => AtCall(x, "del")'
      BY <1>7, <2>2 DEF AtCall, Idle
    <3>2. Entry' = Entry
      BY <1>0, CallFrame DEF Entry
    <3>. QED BY <1>0, <3>1, <3>2, CallFrame, CallStores DEF CachePending, CacheFresh
  <2>. QED BY <2>1, <2>2
<1>9. RankPending'
  <2>1. Entry' = Entry
    BY <1>0, CallFrame DEF Entry
  <2>2. rank' = rank \/ rank' = Entry' \/ raced'
    BY <1>0, <2>1, CallStores
  <2>3. CASE dropped'
    BY <2>3 DEF RankPending
  <2>4. CASE Del(w)
    <3>1. /\ script[w] \in RemovalScript => script'[w] \in RemovalScript
          /\ script[w] \in RefreshBegun => script'[w] \in RefreshBegun
          /\ script[w] # <<"zadd">>
      <4>1. script' = [script EXCEPT ![w] = Tail(script[w])]
        BY <2>4 DEF Del, Proceed
      <4>. QED BY <1>0, <2>4, <4>1, AtCallShape, ScriptFacts
               DEF Del, RemovalScript, RefreshBegun, TypeOK
    <3>. QED BY <1>0, <1>7, <2>1, <2>2, <3>1, CallFrame DEF RankPending
  <2>5. CASE Stats(w)
    <3>1. script[w] = <<"stats", "zadd">>
      BY <1>0, <2>5, AtCallShape DEF Stats
    <3>2. published => script'[w] = <<"zadd">> /\ val'[w] = version
      BY <1>0, <2>5, <3>1, ScriptFacts DEF Stats, TypeOK
    <3>3. script[w] \notin RemovalScript
      BY <3>1 DEF RemovalScript
    <3>. QED BY <1>0, <1>7, <2>1, <2>2, <3>2, <3>3, CallFrame DEF RankPending
  <2>6. CASE ZAdd(w) \/ ZRem(w)
    <3>1. CASE ZAdd(w)
      <4>1. rank' = Entry' \/ raced'
        BY <2>1, <3>1 DEF ZAdd, Outdated, Entry
      <4>. QED BY <4>1 DEF RankPending
    <3>2. CASE ZRem(w)
      <4>1. ~published
        BY <1>0, <3>2, AtCallShape DEF ZRem, RemovalScript, RemovalFinal
      <4>. QED BY <2>1, <3>2, <4>1 DEF ZRem, Entry, RankPending
    <3>. QED BY <2>6, <3>1, <3>2
  <2>7. Del(w) \/ Stats(w) \/ ZAdd(w) \/ ZRem(w) \/ dropped'
    <3>1. ~Set(w) /\ ~Replace(w)
      BY <1>0, AtCallShape, SMTT(30) DEF Set, Replace, ScriptShapes, RemovalScript, RefreshBegun
    <3>2. ~Die(w)
      BY DEF Die
    <3>. QED BY <3>1, <3>2 DEF Step, CallFails
  <2>. QED BY <2>3, <2>4, <2>5, <2>6, <2>7
<1>. QED BY <1>3, <1>4, <1>5, <1>6, <1>8, <1>9

LEMMA CallKeeps ==
    ASSUME NoteCacheInv, NEW a \in Actor, Step(a) \/ CallFails(a) \/ Die(a)
    PROVE  NoteCacheInv'
<1>1. CASE a \in Worker
  BY <1>1, WorkerCallKeeps
<1>2. CASE a \notin Worker
  <2>1. PICK s \in {Tail(script[a]), <<>>} : script' = [script EXCEPT ![a] = s]
    BY CallFrame
  <2>2. s \in ShapeFor(a) /\ (s \in RemovalScript => script[a] \in RemovalScript)
    BY CallFrame, TailAllowed, ShapesAllowed, ScriptsDiffer DEF NoteCacheInv
  <2>. QED BY <1>2, <2>1, <2>2, CallFrame, CallStores, OutsiderKeeps
<1>. QED BY <1>1, <1>2

-----------------------------------------------------------------------------
(* Lost events and expiry *)

LEMMA RestKeeps ==
    ASSUME NoteCacheInv, Expire \/ \E k \in EventKind : LoseEvent(k)
    PROVE  NoteCacheInv'
<1>. USE DEF NoteCacheInv, rowVars, redisVars, actorVars
<1>1. CASE Expire
  <2>1. UNCHANGED <<version, published, events, rank, script, val, kind, writes, raced, dropped>>
        /\ cache' = None
    BY <1>1 DEF Expire
  <2>. QED BY <2>1 DEF TypeOK, ScriptShapes, VersionBudget, HandFits, RemovalFinal, CachePending,
                       RankPending, Idle, AtCall, CacheFresh, Entry
<1>2. ASSUME NEW k \in EventKind, LoseEvent(k)
      PROVE  NoteCacheInv'
  <2>1. /\ UNCHANGED <<version, published, cache, rank, script, val, kind, writes, raced>>
        /\ dropped' = TRUE
        /\ events' = [events EXCEPT ![k] = events[k] - 1]
        /\ events[k] > 0
    BY <1>2 DEF LoseEvent
  <2>2. events' \in [EventKind -> Nat] /\ \A j \in EventKind : events'[j] <= events[j]
    BY <2>1 DEF TypeOK
  <2>3. TypeOK' /\ VersionBudget'
    BY <2>1, <2>2 DEF TypeOK, VersionBudget, EventKind, Version
  <2>4. ScriptShapes' /\ HandFits' /\ CachePending' /\ RankPending'
    BY <2>1 DEF ScriptShapes, HandFits, Idle, CachePending, RankPending
  <2>5. RemovalFinal'
    BY <2>1, <2>2 DEF RemovalFinal, EventKind, TypeOK
  <2>. QED BY <2>3, <2>4, <2>5
<1>. QED BY <1>1, <1>2

-----------------------------------------------------------------------------
(* The theorems *)

\* What the note service, the workers and the reconciler do to Redis keeps NoteCacheInv:
\* a stale entry or a wrong rank is always about to be put right, unless a call failed,
\* an event was lost or an outdated read was stored.
THEOREM NoteCacheInvariant == Spec => []NoteCacheInv
<1>1. Init => NoteCacheInv
  <2>. SUFFICES ASSUME Init PROVE NoteCacheInv
    OBVIOUS
  <2>1. TypeOK /\ VersionBudget
    <3>1. 0 \in Version /\ <<>> \in Seq(Call)
      BY CacheConstants DEF Version
    <3>2. VersionBudget
      BY DEF Init, VersionBudget, EventKind
    <3>3. /\ events \in [EventKind -> Nat] /\ script \in [Actor -> Seq(Call)]
          /\ val \in [Actor -> Version \cup {None}] /\ kind \in [Worker -> EventKind \cup {None}]
      BY <3>1 DEF Init
    <3>4. 0 \in 0..MaxWrites
      BY CacheConstants
    <3>5. /\ version \in Version /\ published \in BOOLEAN /\ writes \in 0..MaxWrites
          /\ cache \in Version \cup {None} /\ rank \in Version \cup {None}
          /\ raced \in BOOLEAN /\ dropped \in BOOLEAN
      BY <3>1, <3>4, Zenon DEF Init
    <3>. QED BY <3>2, <3>3, <3>5 DEF TypeOK
  <2>2. ScriptShapes /\ HandFits
    BY DEF Init, ScriptShapes, HandFits, Idle, Actor
  <2>3. RemovalFinal
    BY ScriptsDiffer DEF Init, RemovalFinal, EventKind
  <2>4. CachePending /\ RankPending
    BY DEF Init, CachePending, RankPending, CacheFresh, Entry
  <2>. QED BY <2>1, <2>2, <2>3, <2>4 DEF NoteCacheInv
<1>2. NoteCacheInv /\ [Next]_vars => NoteCacheInv'
  <2>. SUFFICES ASSUME NoteCacheInv, [Next]_vars PROVE NoteCacheInv'
    OBVIOUS
  <2>1. ASSUME NEW w \in Worker, WorkerStep(w)
        PROVE  NoteCacheInv'
    BY <2>1, ApplyEventKeeps, CrashWorkerKeeps DEF WorkerStep
  <2>2. CASE UNCHANGED vars
    BY <2>2 DEF vars, rowVars, redisVars, actorVars, NoteCacheInv, TypeOK, ScriptShapes,
                VersionBudget, HandFits, RemovalFinal, CachePending, RankPending, Idle, AtCall,
                CacheFresh, Entry
  <2>. QED BY <2>1, <2>2, RequestKeeps, ReconcilerKeeps, CallKeeps, RestKeeps DEF Next
<1>. QED BY <1>1, <1>2, PTL DEF Spec

\* When every event is applied and nobody is in mid-script, the cache entry is absent or
\* current and the ranking is right, for any number of requests, workers, reconcilers and
\* writes, unless an outdated read was stored, a call failed or an event was lost
\* (Service.GetNote, UpdateNote, EventProcessor.refreshDerivedData).
THEOREM CacheRightUnlessRaced == Spec => []RightUnlessRaced
<1>1. NoteCacheInv => RightUnlessRaced
  <2>. SUFFICES ASSUME NoteCacheInv, Quiet, ~raced, ~dropped PROVE CacheFresh /\ rank = Entry
    BY DEF RightUnlessRaced
  <2>1. \A w \in Worker : script[w] = <<>>
    BY DEF Quiet, Idle, Actor
  <2>2. CacheFresh
    BY <2>1 DEF NoteCacheInv, CachePending, AtCall, Idle, Quiet
  <2>3. rank = Entry
    BY <2>1, ScriptsDiffer DEF NoteCacheInv, RankPending, Quiet, EventKind
  <2>. QED BY <2>2, <2>3
<1>. QED BY <1>1, NoteCacheInvariant, PTL

-----------------------------------------------------------------------------
(* Pages of comments *)

LEMMA MinOf ==
    ASSUME NEW T, T \subseteq Nat, T # {}
    PROVE  Min(T) \in T /\ \A y \in T : Min(T) <= y
<1>1. PICK x \in T : \A y \in T : ~(<<y, x>> \in OpToRel(<, Nat))
  BY NatLessThanWellFounded, WFMin, Zenon
<1>2. \A y \in T : ~(y < x)
  BY <1>1, Zenon DEF OpToRel
<1>3. x \in T /\ \A y \in T : x =< y
  BY <1>2
<1>. QED BY <1>3 DEF Min

\* The last comments: there are some, and they are an upper part.
LEMMA LatestFacts ==
    ASSUME NEW S, S \subseteq Comment, NEW n \in Nat \ {0}
    PROVE  /\ Latest(S, n) \subseteq S
           /\ S # {} => Latest(S, n) # {}
           /\ \A c \in Latest(S, n), d \in S : d > c => d \in Latest(S, n)
<1>. DEFINE Above(c) == {d \in S : d > c}
<1>0. S \subseteq Nat /\ IsFiniteSet(S)
  BY CommentConstants, FS_Subset
<1>1. \A c \in S : IsFiniteSet(Above(c)) /\ Cardinality(Above(c)) \in Nat
  <2>. TAKE c \in S
  <2>1. Above(c) \in SUBSET S
    OBVIOUS
  <2>. HIDE DEF Above
  <2>. QED BY <1>0, <2>1, FS_Subset, FS_CardinalityType
<1>2. Latest(S, n) = {c \in S : Cardinality(Above(c)) < n}
  BY DEF Latest
<1>3. ASSUME NEW c \in S, NEW d \in S, d > c
      PROVE  Cardinality(Above(d)) < Cardinality(Above(c))
  <2>1. Above(d) \in SUBSET Above(c) /\ d \in Above(c) /\ d \notin Above(d)
    <3>1. c \in Nat /\ d \in Nat /\ ~(d > d)
      BY <1>0
    <3>2. \A e \in S : e > d => e > c
      BY <1>0, <1>3, <3>1
    <3>. QED BY <1>3, <3>1, <3>2
  <2>. HIDE DEF Above
  <2>2. /\ Cardinality(Above(d)) <= Cardinality(Above(c))
        /\ Cardinality(Above(d)) # Cardinality(Above(c))
    BY <1>1, <2>1, FS_Subset
  <2>. QED BY <1>1, <2>2
<1>4. ASSUME S # {} PROVE Latest(S, n) # {}
  <2>. DEFINE T == {Cardinality(Above(c)) : c \in S}
  <2>1. T \subseteq Nat /\ T # {}
    <3>. HIDE DEF Above
    <3>. QED BY <1>1, <1>4
  <2>2. Min(T) \in T /\ \A y \in T : Min(T) <= y
    <3>. HIDE DEF T
    <3>. QED BY <2>1, MinOf
  <2>3. PICK c \in S : Cardinality(Above(c)) = Min(T)
    BY <2>2
  <2>4. Above(c) = {}
    <3>. SUFFICES ASSUME NEW d \in S, d > c PROVE FALSE
      OBVIOUS
    <3>1. Cardinality(Above(d)) < Cardinality(Above(c))
      BY <1>3
    <3>2. Cardinality(Above(d)) \in T
      OBVIOUS
    <3>. HIDE DEF T, Above
    <3>. QED BY <1>1, <2>1, <2>2, <2>3, <3>1, <3>2
  <2>5. Cardinality(Above(c)) = 0
    BY <2>4, FS_EmptySet
  <2>. QED BY <1>2, <2>5
<1>. HIDE DEF Above
<1>. QED BY <1>1, <1>2, <1>3, <1>4

\* A part of a set cut off at its latest n, with the cursor that comes with it.
LEMMA CutFacts ==
    ASSUME NEW S, S \subseteq Comment, NEW n \in Nat \ {0}, Latest(S, n) # S
    PROVE  /\ Min(Latest(S, n)) \in Latest(S, n)
           /\ Min(Latest(S, n)) \in Nat \ {0}
           /\ Latest(S, n) = {k \in S : k >= Min(Latest(S, n))}
<1>. DEFINE L == Latest(S, n)
<1>1. L \subseteq S /\ L # {} /\ S \subseteq Nat \ {0}
  BY LatestFacts, CommentConstants
<1>2. Min(L) \in L /\ \A y \in L : Min(L) <= y
  <2>. HIDE DEF L
  <2>. QED BY <1>1, MinOf
<1>3. \A c \in L, d \in S : d > c => d \in L
  BY LatestFacts
<1>. HIDE DEF L
<1>4. L = {k \in S : k >= Min(L)}
  <2>1. \A k \in S : k >= Min(L) => k = Min(L) \/ k > Min(L)
    <3>. DEFINE m == Min(L)
    <3>1. m \in Nat /\ S \subseteq Nat
      BY <1>1, <1>2
    <3>. HIDE DEF m
    <3>2. \A k \in S : k >= m => k = m \/ k > m
      BY <3>1
    <3>. QED BY <3>2 DEF m
  <2>2. \A k \in S : k >= Min(L) => k \in L
    BY <1>2, <1>3, <2>1
  <2>3. \A k \in L : k \in S /\ k >= Min(L)
    BY <1>1, <1>2
  <2>. QED BY <2>2, <2>3
<1>. QED BY <1>1, <1>2, <1>4 DEF L

\* A page read from a set is an upper part of it, given by its cursor.
LEMMA ReadPageFacts ==
    ASSUME NEW S, S \subseteq Comment, NEW n \in Nat \ {0}, active \subseteq Comment
    PROVE  /\ ReadPage(S, n) \in PageType
           /\ ReadPage(S, n).asOf = active
           /\ ReadPage(S, n).next # 0 => ReadPage(S, n).next \in ReadPage(S, n).items
           /\ ReadPage(S, n).items = {k \in S : k >= ReadPage(S, n).next}
<1>1. S \subseteq Nat /\ Latest(S, n) \subseteq S
  BY CommentConstants, LatestFacts
<1>. DEFINE L == Latest(S, n)
            m == IF L # S THEN Min(L) ELSE 0
<1>2. ReadPage(S, n) = [items |-> L, next |-> m, asOf |-> active]
  BY DEF ReadPage
<1>3. m \in Nat /\ (m # 0 => m \in L) /\ L = {k \in S : k >= m}
  <2>1. CASE L = S
    <3>1. m = 0 /\ \A k \in S : k >= 0
      BY <1>1, <2>1
    <3>. QED BY <2>1, <3>1
  <2>2. CASE L # S
    BY <2>2, CutFacts
  <2>. QED BY <2>1, <2>2
<1>. HIDE DEF L, m
<1>4. L \subseteq Comment
  BY <1>1 DEF L
<1>. QED BY <1>2, <1>3, <1>4 DEF PageType

\* A shorter first page is one too.
LEMMA LimitFacts ==
    ASSUME NEW page \in PageType, PageOf(page), NEW n \in Nat \ {0}
    PROVE  /\ LimitCommentPage(page, n) \in PageType
           /\ LimitCommentPage(page, n).asOf = page.asOf
           /\ PageOf(LimitCommentPage(page, n))
<1>. DEFINE L == Latest(page.items, n)
<1>1. page.items \subseteq Comment /\ page.items \subseteq Nat /\ L \subseteq page.items
  BY CommentConstants, LatestFacts DEF PageType
<1>2. CASE L = page.items
  BY <1>2 DEF LimitCommentPage
<1>3. CASE L # page.items
  <2>. DEFINE m == Min(L)
  <2>1. m \in L /\ m \in Nat \ {0} /\ L = {k \in page.items : k >= m}
    BY <1>1, <1>3, CutFacts
  <2>2. LimitCommentPage(page, n) = [page EXCEPT !.items = L, !.next = m]
    BY <1>3 DEF LimitCommentPage
  <2>. HIDE DEF L, m
  <2>3. L = {k \in page.asOf : k >= m}
    <3>1. page.next <= m /\ page.next \in Nat /\ page.asOf \subseteq Nat
      BY <1>1, <2>1, CommentConstants DEF PageOf, PageType
    <3>2. \A k \in page.asOf : k >= m => k >= page.next
      BY <2>1, <3>1
    <3>. QED BY <2>1, <3>2 DEF PageOf
  <2>. QED BY <1>1, <2>1, <2>2, <2>3 DEF PageType, PageOf
<1>. QED BY <1>2, <1>3

LEMMA ShowFields ==
    ASSUME NEW x \in ClientType, NEW page \in PageType
    PROVE  /\ Show(x, page) \in ClientType
           /\ Show(x, page).pc = IF page.next = 0 THEN "done" ELSE "paging"
           /\ Show(x, page).limit = IF page.next = 0 THEN 0 ELSE x.limit
           /\ Show(x, page).next = page.next
           /\ Show(x, page).shown = x.shown \cup page.items
           /\ Show(x, page).twice = x.twice \cup (x.shown \cap page.items)
           /\ Show(x, page).asOf = x.asOf
BY DEF Show, ClientType, PageType

LEMMA ShowFirstSplits ==
    ASSUME NEW x \in ClientType, x.shown = {}, x.twice = {}, x.limit # 0,
           NEW page \in PageType, PageOf(page)
    PROVE  ShowFirst(x, page) \in ClientType /\ SplitAtCursor(ShowFirst(x, page))
<1>. DEFINE y == [x EXCEPT !.asOf = page.asOf]
            q == LimitCommentPage(page, x.limit)
<1>1. x.limit \in Nat \ {0}
  BY CommentConstants DEF ClientType
<1>2. q \in PageType /\ q.asOf = page.asOf /\ PageOf(q)
  BY <1>1, LimitFacts
<1>3. /\ y \in ClientType /\ y.shown = {} /\ y.twice = {} /\ y.limit = x.limit
      /\ y.asOf = page.asOf
  BY DEF ClientType, PageType
<1>4. ShowFirst(x, page) = Show(y, q)
  BY DEF ShowFirst
<1>. HIDE DEF y, q
<1>5. Show(y, q).shown = q.items /\ Show(y, q).twice = {}
  <2>1. /\ Show(y, q).shown = y.shown \cup q.items
        /\ Show(y, q).twice = y.twice \cup (y.shown \cap q.items)
    BY <1>2, <1>3, ShowFields
  <2>2. {} \cup q.items = q.items /\ {} \cup ({} \cap q.items) = {}
    OBVIOUS
  <2>. QED BY <1>3, <2>1, <2>2
<1>. QED BY <1>1, <1>2, <1>3, <1>4, <1>5, ShowFields DEF SplitAtCursor, PageOf

LEMMA ShowNextSplits ==
    ASSUME CommentTypeOK, NEW x \in ClientType, SplitAtCursor(x), x.pc = "paging"
    PROVE  LET page == ReadPage({k \in active : k < x.next}, x.limit)
           IN  Show(x, page) \in ClientType /\ SplitAtCursor(Show(x, page))
<1>. DEFINE S == {k \in active : k < x.next}
            q == ReadPage(S, x.limit)
<1>1. /\ x.limit \in Nat \ {0} /\ S \subseteq Comment /\ active \subseteq Comment
      /\ x.next \in Nat /\ active \subseteq Nat /\ x.shown \subseteq Nat
  BY CommentConstants DEF ClientType, SplitAtCursor, CommentTypeOK
<1>2. /\ q \in PageType
      /\ q.next # 0 => q.next \in q.items
      /\ q.items = {k \in S : k >= q.next}
  <2>1. /\ ReadPage(S, x.limit) \in PageType
        /\ ReadPage(S, x.limit).next # 0 => ReadPage(S, x.limit).next \in ReadPage(S, x.limit).items
        /\ ReadPage(S, x.limit).items = {k \in S : k >= ReadPage(S, x.limit).next}
    <3>. DEFINE n == x.limit
    <3>1. n \in Nat \ {0} /\ S \subseteq Comment /\ active \subseteq Comment
      BY <1>1
    <3>. HIDE DEF S, n
    <3>2. /\ ReadPage(S, n) \in PageType
          /\ ReadPage(S, n).next # 0 => ReadPage(S, n).next \in ReadPage(S, n).items
          /\ ReadPage(S, n).items = {k \in S : k >= ReadPage(S, n).next}
      BY <3>1, ReadPageFacts
    <3>. QED BY <3>2 DEF n
  <2>. QED BY <2>1
<1>. HIDE DEF q
<1>3. x.shown \cap q.items = {}
  <2>1. \A k \in q.items : k \in Nat /\ ~(k >= x.next)
    <3>1. \A k \in q.items : k \in Nat /\ k < x.next
      BY <1>1, <1>2
    <3>2. \A k \in Nat : k < x.next => ~(k >= x.next)
      BY <1>1
    <3>. QED BY <3>1, <3>2
  <2>. QED BY <2>1 DEF SplitAtCursor
<1>4. q.next \in Nat /\ (q.next # 0 => q.next < x.next)
  BY <1>1, <1>2 DEF PageType
<1>5. \A k \in x.shown \cup q.items : k >= q.next
  <2>1. \A k \in x.shown : k >= q.next
    <3>1. \A k \in x.shown : k >= x.next
      BY DEF SplitAtCursor
    <3>. QED BY <1>1, <1>4, <3>1
  <2>. QED BY <1>2, <2>1
<1>6. \A k \in x.asOf \cap active : k >= q.next => k \in x.shown \cup q.items
  <2>. SUFFICES ASSUME NEW k \in x.asOf \cap active, k >= q.next
                PROVE  k \in x.shown \cup q.items
    OBVIOUS
  <2>1. CASE k >= x.next
    BY <2>1 DEF SplitAtCursor
  <2>2. CASE ~(k >= x.next)
    <3>1. k < x.next
      <4>1. k \in Nat /\ x.next \in Nat
        BY <1>1
      <4>. QED BY <2>2, <4>1
    <3>. QED BY <1>2, <3>1
  <2>. QED BY <2>1, <2>2
<1>7. Show(x, q).twice = {}
  BY <1>2, <1>3, ShowFields DEF SplitAtCursor
<1>8. SplitAtCursor(Show(x, q))
  BY <1>2, <1>5, <1>6, <1>7, ShowFields DEF SplitAtCursor
<1>9. Show(x, q) \in ClientType
  BY <1>2, ShowFields
<1>. QED BY <1>8, <1>9 DEF q

-----------------------------------------------------------------------------
(* Every step on the comments keeps CommentInv *)

LEMMA CommentWriteKeeps ==
    ASSUME CommentInv, NEW k \in Comment, CreateComment(k) \/ SoftDeleteComment(k)
    PROVE  CommentInv'
<1>. USE DEF CommentInv
<1>1. /\ UNCHANGED <<cached, load, client>>
      /\ pending' = pending + 1 /\ changes < MaxChanges /\ changes' = changes + 1
      /\ active \cup deleted \subseteq active' \cup deleted'
      /\ active' \subseteq Comment /\ deleted' \subseteq Comment
      /\ active' \cap (active \cup deleted) \subseteq active
  BY DEF CreateComment, SoftDeleteComment, CommentTypeOK
<1>2. CommentTypeOK'
  BY <1>1, CommentConstants DEF CommentTypeOK
<1>3. PagesKept'
  <2>1. \A page : PageOf(page) => PageOf(page)'
    BY <1>1 DEF PageOf
  <2>. QED BY <1>1, <2>1 DEF PagesKept, PageOf
<1>4. \A c \in Client : SplitAtCursor(client[c])'
  <2>. TAKE c \in Client
  <2>1. client[c].asOf \cap active' \subseteq client[c].asOf \cap active
    BY <1>1 DEF SplitAtCursor
  <2>. QED BY <1>1, <2>1 DEF SplitAtCursor
<1>. QED BY <1>2, <1>3, <1>4

\* The entry goes: InvalidateCommentFirstPage and its TTL.
LEMMA InvalidateKeeps ==
    ASSUME CommentInv, InvalidateCommentFirstPage \/ ExpireFirstPage
    PROVE  CommentInv'
<1>1. /\ UNCHANGED <<active, deleted, load, client, changes>>
      /\ cached' \in {Nothing, cached} /\ pending' \in Nat
  BY DEF InvalidateCommentFirstPage, ExpireFirstPage, CommentInv, CommentTypeOK
<1>. QED BY <1>1 DEF CommentInv, CommentTypeOK, PagesKept, PageOf, SplitAtCursor

\* One client changes.
LEMMA ClientKeeps ==
    ASSUME CommentInv, NEW c \in Client, NEW x \in ClientType, SplitAtCursor(x),
           client' = [client EXCEPT ![c] = x],
           load' \in [Process -> [pc : {"none", "check", "store"}, page : PageType \cup {Nothing}]],
           \A p \in Process : load'[p].pc = "store" => load'[p] = load[p],
           UNCHANGED <<active, deleted, cached, pending, changes>>
    PROVE  CommentInv'
<1>1. CommentTypeOK'
  BY DEF CommentInv, CommentTypeOK
<1>2. PagesKept'
  BY DEF CommentInv, PagesKept, PageOf
<1>3. \A d \in Client : SplitAtCursor(client[d])'
  <2>. TAKE d \in Client
  <2>1. client'[d] = IF d = c THEN x ELSE client[d]
    BY DEF CommentInv, CommentTypeOK
  <2>. QED BY <2>1 DEF CommentInv, SplitAtCursor
<1>. QED BY <1>1, <1>2, <1>3 DEF CommentInv

\* The clients that wait for a load all change.
LEMMA AllWaitingKeep ==
    ASSUME CommentInv, NEW p \in Process, NEW G,
           \A c \in WaitingAt(p) : G[c] \in ClientType /\ SplitAtCursor(G[c]),
           client' = [c \in Client |-> IF c \in WaitingAt(p) THEN G[c] ELSE client[c]],
           load' = [load EXCEPT ![p] = NoLoad],
           cached' \in PageType \cup {Nothing}, cached' # Nothing => PageOf(cached'),
           UNCHANGED <<active, deleted, pending, changes>>
    PROVE  CommentInv'
<1>1. NoLoad \in [pc : {"none", "check", "store"}, page : PageType \cup {Nothing}]
  BY DEF NoLoad
<1>2. CommentTypeOK'
  BY <1>1 DEF CommentInv, CommentTypeOK
<1>3. PagesKept'
  <2>1. \A q \in Process : load'[q].pc = "store" => load'[q] = load[q]
    BY DEF CommentInv, CommentTypeOK, NoLoad
  <2>. QED BY <2>1 DEF CommentInv, PagesKept, PageOf
<1>4. \A d \in Client : SplitAtCursor(client[d])'
  <2>. TAKE d \in Client
  <2>1. client'[d] = IF d \in WaitingAt(p) THEN G[d] ELSE client[d]
    OBVIOUS
  <2>. QED BY <2>1 DEF CommentInv, SplitAtCursor
<1>. QED BY <1>2, <1>3, <1>4 DEF CommentInv

LEMMA NewClientSplits == NewClient \in ClientType /\ SplitAtCursor(NewClient)
BY DEF NewClient, ClientType, SplitAtCursor

\* A page of the cache or of a load is delivered.
LEMMA DeliverKeeps ==
    ASSUME CommentInv, NEW p \in Process, NEW page \in PageType, PageOf(page), Deliver(p, page),
           cached' \in {page, cached}, UNCHANGED <<active, deleted, pending, changes>>
    PROVE  CommentInv'
<1>. DEFINE G == [c \in Client |-> ShowFirst(client[c], page)]
<1>1. ASSUME NEW c \in WaitingAt(p)
      PROVE  c \in Client /\ ShowFirst(client[c], page) \in ClientType
             /\ SplitAtCursor(ShowFirst(client[c], page))
  <2>1. c \in Client /\ client[c].pc = "waiting" /\ client[c] \in ClientType
    BY DEF WaitingAt, CommentInv, CommentTypeOK
  <2>2. client[c].shown = {} /\ client[c].twice = {} /\ client[c].limit # 0
    BY <2>1 DEF CommentInv, SplitAtCursor
  <2>. QED BY <2>1, <2>2, ShowFirstSplits
<1>2. \A c \in WaitingAt(p) : G[c] \in ClientType /\ SplitAtCursor(G[c])
  BY <1>1
<1>3. /\ client' = [c \in Client |-> IF c \in WaitingAt(p) THEN G[c] ELSE client[c]]
      /\ load' = [load EXCEPT ![p] = NoLoad]
  BY DEF Deliver
<1>4. cached' \in PageType \cup {Nothing} /\ (cached' # Nothing => PageOf(cached'))
  BY DEF CommentInv, CommentTypeOK, PagesKept
<1>. HIDE DEF G
<1>. QED BY <1>2, <1>3, <1>4, AllWaitingKeep

LEMMA LoadKeeps ==
    ASSUME CommentInv, NEW p \in Process,
           LoadFromCache(p) \/ LoadFromDatabase(p) \/ StoreFirstPage(p) \/ LoadFails(p)
    PROVE  CommentInv'
<1>1. CASE LoadFromCache(p)
  <2>1. cached \in PageType /\ PageOf(cached)
    BY <1>1 DEF LoadFromCache, CommentInv, CommentTypeOK, PagesKept
  <2>2. Deliver(p, cached) /\ cached' = cached /\ UNCHANGED <<active, deleted, pending, changes>>
    BY <1>1 DEF LoadFromCache
  <2>. QED BY <2>1, <2>2, DeliverKeeps
<1>2. CASE StoreFirstPage(p)
  <2>1. load[p].page \in PageType /\ PageOf(load[p].page)
    BY <1>2 DEF StoreFirstPage, CommentInv, CommentTypeOK, PagesKept
  <2>2. /\ Deliver(p, load[p].page) /\ cached' \in {load[p].page, cached}
        /\ UNCHANGED <<active, deleted, pending, changes>>
    BY <1>2 DEF StoreFirstPage
  <2>. QED BY <2>1, <2>2, DeliverKeeps
<1>3. CASE LoadFails(p)
  <2>. DEFINE G == [c \in Client |-> NewClient]
  <2>1. \A c \in WaitingAt(p) : c \in Client
    BY DEF WaitingAt
  <2>2. \A c \in WaitingAt(p) : G[c] \in ClientType /\ SplitAtCursor(G[c])
    BY <2>1, NewClientSplits
  <2>3. /\ client' = [c \in Client |-> IF c \in WaitingAt(p) THEN G[c] ELSE client[c]]
        /\ load' = [load EXCEPT ![p] = NoLoad]
        /\ UNCHANGED <<active, deleted, cached, pending, changes>>
    BY <1>3 DEF LoadFails
  <2>4. cached' \in PageType \cup {Nothing} /\ (cached' # Nothing => PageOf(cached'))
    BY <2>3 DEF CommentInv, CommentTypeOK, PagesKept
  <2>. HIDE DEF G
  <2>. QED BY <2>2, <2>3, <2>4, AllWaitingKeep
<1>4. CASE LoadFromDatabase(p)
  <2>. DEFINE q == ReadPage(active, FullLimit)
  <2>1. active \subseteq Comment /\ active \subseteq Nat /\ FullLimit \in Nat \ {0}
    BY CommentConstants DEF CommentInv, CommentTypeOK
  <2>2. /\ q \in PageType /\ q.asOf = active
        /\ q.next # 0 => q.next \in q.items
        /\ q.items = {k \in active : k >= q.next}
    <3>. DEFINE S == active
                n == FullLimit
    <3>1. S \subseteq Comment /\ n \in Nat \ {0}
      BY <2>1
    <3>. HIDE DEF S, n
    <3>2. /\ ReadPage(S, n) \in PageType /\ ReadPage(S, n).asOf = active
          /\ ReadPage(S, n).next # 0 => ReadPage(S, n).next \in ReadPage(S, n).items
          /\ ReadPage(S, n).items = {k \in S : k >= ReadPage(S, n).next}
      BY <2>1, <3>1, ReadPageFacts, ZenonT(60)
    <3>. QED BY <3>2 DEF S, n
  <2>3. /\ load' = [load EXCEPT ![p] = [pc |-> "store", page |-> q]]
        /\ UNCHANGED <<active, deleted, cached, pending, client, changes>>
    BY <1>4 DEF LoadFromDatabase
  <2>. HIDE DEF q
  <2>4. PageOf(q)
    BY <2>2 DEF PageOf, PageType
  <2>5. CommentTypeOK'
    BY <2>2, <2>3 DEF CommentInv, CommentTypeOK
  <2>6. PagesKept'
    BY <2>2, <2>3, <2>4 DEF CommentInv, CommentTypeOK, PagesKept, PageOf
  <2>7. \A c \in Client : SplitAtCursor(client[c])'
    BY <2>3 DEF CommentInv, SplitAtCursor
  <2>. QED BY <2>5, <2>6, <2>7 DEF CommentInv
<1>. QED BY <1>1, <1>2, <1>3, <1>4

LEMMA ServeKeeps ==
    ASSUME CommentInv, NEW c \in Client, NEW n \in PageLimit, ServeCached(c, n)
    PROVE  CommentInv'
<1>0. /\ client[c] \in ClientType /\ client[c].shown = {} /\ client[c].twice = {} /\ n # 0
  BY CommentConstants DEF CommentInv, CommentTypeOK, SplitAtCursor, ServeCached
<1>. DEFINE x == [client[c] EXCEPT !.limit = n]
<1>1. x \in ClientType /\ x.shown = {} /\ x.twice = {} /\ x.limit = n
  BY <1>0 DEF ClientType
<1>2. cached \in PageType /\ PageOf(cached)
  BY DEF ServeCached, CommentInv, CommentTypeOK, PagesKept
<1>3. /\ client' = [client EXCEPT ![c] = ShowFirst(x, cached)]
      /\ UNCHANGED <<active, deleted, cached, pending, load, changes>>
  BY DEF ServeCached
<1>. HIDE DEF x
<1>4. ShowFirst(x, cached) \in ClientType /\ SplitAtCursor(ShowFirst(x, cached))
  BY <1>0, <1>1, <1>2, ShowFirstSplits
<1>. QED BY <1>3, <1>4, ClientKeeps DEF CommentInv, CommentTypeOK

LEMMA MissKeeps ==
    ASSUME CommentInv, NEW c \in Client, NEW n \in PageLimit, NEW p \in Process,
           MissCached(c, n, p)
    PROVE  CommentInv'
<1>0. /\ client[c] \in ClientType /\ SplitAtCursor(client[c]) /\ client[c].pc = "idle"
      /\ client[c].shown = {} /\ n # 0
  BY CommentConstants DEF CommentInv, CommentTypeOK, SplitAtCursor, MissCached
<1>. DEFINE x == [client[c] EXCEPT !.pc = "waiting", !.limit = n, !.process = p]
<1>1. x \in ClientType /\ SplitAtCursor(x)
  BY <1>0 DEF ClientType, SplitAtCursor
<1>2. /\ client' = [client EXCEPT ![c] = x]
      /\ load' = IF load[p].pc = "none" THEN [load EXCEPT ![p].pc = "check"] ELSE load
      /\ UNCHANGED <<active, deleted, cached, pending, changes>>
  BY DEF MissCached
<1>3. /\ load' \in [Process -> [pc : {"none", "check", "store"}, page : PageType \cup {Nothing}]]
      /\ \A q \in Process : load'[q].pc = "store" => load'[q] = load[q]
  BY <1>2 DEF CommentInv, CommentTypeOK
<1>. HIDE DEF x
<1>. QED BY <1>1, <1>2, <1>3, ClientKeeps

LEMMA ReaderKeeps ==
    ASSUME CommentInv, NEW c \in Client, Leave(c) \/ ListNextPage(c)
    PROVE  CommentInv'
<1>1. CASE Leave(c)
  BY <1>1, NewClientSplits, ClientKeeps DEF Leave, CommentInv, CommentTypeOK
<1>2. CASE ListNextPage(c)
  <2>. DEFINE q == ReadPage({k \in active : k < client[c].next}, client[c].limit)
  <2>1. client[c] \in ClientType /\ SplitAtCursor(client[c]) /\ client[c].pc = "paging"
    BY <1>2 DEF ListNextPage, CommentInv, CommentTypeOK
  <2>2. Show(client[c], q) \in ClientType /\ SplitAtCursor(Show(client[c], q))
    BY <2>1, ShowNextSplits DEF CommentInv
  <2>3. /\ client' = [client EXCEPT ![c] = Show(client[c], q)]
        /\ UNCHANGED <<active, deleted, cached, pending, load, changes>>
    BY <1>2 DEF ListNextPage
  <2>. HIDE DEF q
  <2>. QED BY <2>2, <2>3, ClientKeeps DEF CommentInv, CommentTypeOK
<1>. QED BY <1>1, <1>2

\* Every first page that is cached, loaded or served is the upper part of the comments
\* that were there when it was read, and every client's cursor splits what it has seen
\* from what it has not (Service.ListComments, limitCommentPage).
THEOREM CommentInvariant == CommentSpec => []CommentInv
<1>1. CommentInit => CommentInv
  <2>. SUFFICES ASSUME CommentInit PROVE CommentInv
    OBVIOUS
  <2>1. CommentTypeOK
    BY CommentConstants, NewClientSplits DEF CommentInit, CommentTypeOK, NoLoad
  <2>2. PagesKept
    BY DEF CommentInit, PagesKept, NoLoad
  <2>3. \A c \in Client : SplitAtCursor(client[c])
    BY NewClientSplits DEF CommentInit
  <2>. QED BY <2>1, <2>2, <2>3 DEF CommentInv
<1>2. CommentInv /\ [CommentNext]_commentVars => CommentInv'
  <2>. SUFFICES ASSUME CommentInv, [CommentNext]_commentVars PROVE CommentInv'
    OBVIOUS
  <2>1. CASE UNCHANGED commentVars
    BY <2>1 DEF commentVars, CommentInv, CommentTypeOK, PagesKept, PageOf, SplitAtCursor
  <2>2. ASSUME NEW c \in Client, NEW n \in PageLimit, ServeCached(c, n)
        PROVE  CommentInv'
    BY <2>2, ServeKeeps
  <2>. QED BY <2>1, <2>2, CommentWriteKeeps, InvalidateKeeps, LoadKeeps, MissKeeps, ReaderKeeps
           DEF CommentNext
<1>. QED BY <1>1, <1>2, PTL DEF CommentSpec

\* No client is shown a comment twice, and one that has read to the end was shown every
\* comment that was there when its first page was read and still is, for any number of
\* comments, clients, processes and page sizes, whatever copy of the first page it got.
THEOREM CommentPagesFit == CommentSpec => []PagesFit
<1>1. CommentInv => PagesFit
  <2>. SUFFICES ASSUME CommentInv, NEW c \in Client
                PROVE  /\ client[c].twice = {}
                       /\ client[c].pc = "done" => client[c].asOf \cap active \subseteq client[c].shown
    BY DEF PagesFit
  <2>1. \A k \in active : k >= 0
    BY CommentConstants DEF CommentInv, CommentTypeOK
  <2>. QED BY <2>1 DEF CommentInv, SplitAtCursor
<1>. QED BY <1>1, CommentInvariant, PTL
=============================================================================
