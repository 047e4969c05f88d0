------------------------------ MODULE NoteCache ------------------------------
(***************************************************************************)
(* The derived Redis data of one note, its detail cache and its place in   *)
(* the hot ranking, against the row in PostgreSQL: the API's read-through  *)
(* and write-through (internal/note/service.go), the refresh a worker runs *)
(* after each event (internal/worker/event_processor.go) and the           *)
(* reconciler's replacement (internal/reconcile/reconciler.go).            *)
(*                                                                         *)
(* Every commit that changes the row gives it the next version; a cached   *)
(* entry or a ranking score is the version it was made from.  After its    *)
(* commit or read an actor has a script of Redis calls to run, one step    *)
(* each, so that the scripts of several actors interleave.                 *)
(***************************************************************************)
EXTENDS Naturals, Sequences

CONSTANTS
    Request,     \* API requests under way
    Worker,      \* worker processes refreshing derived data
    Reconciler,  \* reconciler passes under way
    None,        \* no entry, nothing read
    CallsFail,   \* whether calls may fail
    MaxWrites    \* bound: API writes

ASSUME CacheConstants ==
    /\ CallsFail \in BOOLEAN
    /\ MaxWrites \in Nat \ {0}
    /\ None \notin Nat
    /\ Request \cap Worker = {}
    /\ (Request \cup Worker) \cap Reconciler = {}

Actor == Request \cup Worker \cup Reconciler

VARIABLES
    version,     \* version of the committed row; 0 before CreateNote
    published,   \* notes.status = 'published'
    events,      \* unprocessed events of each kind
    cache,       \* note:<id>
    rank,        \* the note's member in ranking:notes:daily
    script,      \* per actor: the Redis calls left
    val,         \* per actor: the version it read, or None
    kind,        \* per worker: the kind of the event in hand, or None
    writes,      \* history: API writes so far
    raced,       \* history: an entry or score was stored from an outdated read
    dropped      \* history: a call failed or an event was lost

rowVars == <<version, published, writes>>
redisVars == <<cache, rank>>
actorVars == <<script, val, kind>>
vars == <<rowVars, events, redisVars, actorVars, raced, dropped>>

\* "change": the worker's commit changes the row (a counter rebuild);
\* "update": it does not (note.updated, and the rebuild of a
\* new note); "delete": the note.deleted event.
EventKind == {"change", "update", "delete"}
Call == {"del", "set", "stats", "zadd", "zrem", "replace"}
Version == 0..(2 * MaxWrites)

TypeOK ==
    /\ version \in Version
    /\ published \in BOOLEAN
    /\ events \in [EventKind -> Nat]
    /\ cache \in Version \cup {None}
    /\ rank \in Version \cup {None}
    /\ script \in [Actor -> Seq(Call)]
    /\ val \in [Actor -> Version \cup {None}]
    /\ kind \in [Worker -> EventKind \cup {None}]
    /\ writes \in 0..MaxWrites
    /\ raced \in BOOLEAN
    /\ dropped \in BOOLEAN

Init ==
    /\ version = 0
    /\ published = FALSE
    /\ events = [k \in EventKind |-> 0]
    /\ cache = None
    /\ rank = None
    /\ script = [a \in Actor |-> <<>>]
    /\ val = [a \in Actor |-> None]
    /\ kind = [w \in Worker |-> None]
    /\ writes = 0
    /\ raced = FALSE
    /\ dropped = FALSE

Idle(a) == script[a] = <<>>

Run(a, calls, v) ==
    /\ script' = [script EXCEPT ![a] = calls]
    /\ val' = [val EXCEPT ![a] = v]

-----------------------------------------------------------------------------
(* API requests: the commit with its event, then the script *)

\* The transaction commits: the row moves to version v, an event k is enqueued.
Commit(r, v, k, calls) ==
    /\ Idle(r)
    /\ writes < MaxWrites
    /\ writes' = writes + 1
    /\ version' = v
    /\ events' = [events EXCEPT ![k] = @ + 1]
    /\ Run(r, calls, v)
    /\ UNCHANGED <<redisVars, kind, raced, dropped>>

CreateNote(r) ==
    /\ version = 0
    /\ published' = TRUE
    /\ Commit(r, 1, "update", <<"set", "stats", "zadd">>)

UpdateNote(r) ==
    /\ published
    /\ Commit(r, version + 1, "update", <<"del", "set", "stats", "zadd">>)
    /\ UNCHANGED published

DeleteNote(r) ==
    /\ published
    /\ published' = FALSE
    /\ Commit(r, version + 1, "delete", <<"del", "zrem">>)

\* LikeNote, CollectNote, ShareNote, CreateComment and their reverses: the row is
\* left to the worker.
Interact(r) ==
    /\ published
    /\ Commit(r, version, "change", <<"del">>)
    /\ UNCHANGED published

\* GetNote saw a miss some time ago (an entry may have come since) and now loads
\* the row; concurrent misses of a process share one load.
GetNote(r) ==
    /\ Idle(r)
    /\ published
    /\ Run(r, <<"set">>, version)
    /\ UNCHANGED <<rowVars, events, redisVars, kind, raced, dropped>>

-----------------------------------------------------------------------------
(* Workers and the reconciler *)

\* Seeded defect: an event that leaves the row alone is not refreshed.
RefreshScriptChangesOnly(k) ==
    CASE k = "delete" -> <<"del", "zrem">>
      [] k = "change" -> <<"del", "stats", "zadd">>
      [] OTHER -> <<"stats", "zadd">>

\* refreshDerivedData by event type.
RefreshScript(k) ==
    IF k = "delete" THEN <<"del", "zrem">> ELSE <<"del", "stats", "zadd">>

\* ApplyEvent commits (a duplicate changes nothing), then refreshDerivedData.
ApplyEvent(w, k) ==
    /\ Idle(w)
    /\ events[k] > 0
    /\ events' = [events EXCEPT ![k] = @ - 1]
    /\ version' = IF k = "change" THEN version + 1 ELSE version
    /\ kind' = [kind EXCEPT ![w] = k]
    /\ Run(w, RefreshScript(k), None)
    /\ UNCHANGED <<published, writes, redisVars, raced, dropped>>

\* The worker dies before its ack: the event comes again, as a duplicate.
CrashWorker(w) ==
    /\ ~Idle(w)
    /\ events' = [events EXCEPT ![IF kind[w] = "delete" THEN "delete" ELSE "update"] = @ + 1]
    /\ kind' = [kind EXCEPT ![w] = None]
    /\ Run(w, <<>>, None)
    /\ UNCHANGED <<rowVars, redisVars, raced, dropped>>

\* RunOnce lists the published notes with their scores; the replacement follows.
ListNoteRankings(c) ==
    /\ Idle(c)
    /\ Run(c, <<"replace">>, IF published THEN version ELSE None)
    /\ UNCHANGED <<rowVars, events, redisVars, kind, raced, dropped>>

\* Seeded defect: entries are stored without a TTL.
ExpireNever == FALSE /\ UNCHANGED vars

\* TTL of the cache entry.
Expire ==
    /\ cache # None
    /\ cache' = None
    /\ UNCHANGED <<rowVars, events, rank, actorVars, raced, dropped>>

-----------------------------------------------------------------------------
(* The calls of the scripts *)

\* The script goes on.
Proceed(a) ==
    /\ script' = [script EXCEPT ![a] = Tail(@)]
    /\ UNCHANGED <<rowVars, events, kind>>

AtCall(a, call) == ~Idle(a) /\ Head(script[a]) = call

Outdated(a) == val[a] # (IF published THEN version ELSE None)

Del(a) ==
    /\ AtCall(a, "del")
    /\ cache' = None
    /\ Proceed(a)
    /\ UNCHANGED <<rank, val, raced, dropped>>

\* setNoteCache stores what the actor read or wrote, whatever happened since.
Set(a) ==
    /\ AtCall(a, "set")
    /\ cache' = val[a]
    /\ raced' = (raced \/ Outdated(a))
    /\ Proceed(a)
    /\ UNCHANGED <<rank, val, dropped>>

\* GetNoteRankingStats; a note that is not published ends the refresh.
Stats(a) ==
    /\ AtCall(a, "stats")
    /\ val' = [val EXCEPT ![a] = IF published THEN version ELSE None]
    /\ script' = [script EXCEPT ![a] = IF published THEN Tail(@) ELSE <<>>]
    /\ UNCHANGED <<rowVars, events, kind, redisVars, raced, dropped>>

ZAdd(a) ==
    /\ AtCall(a, "zadd")
    /\ rank' = val[a]
    /\ raced' = (raced \/ Outdated(a))
    /\ Proceed(a)
    /\ UNCHANGED <<cache, val, dropped>>

ZRem(a) ==
    /\ AtCall(a, "zrem")
    /\ rank' = None
    /\ Proceed(a)
    /\ UNCHANGED <<cache, val, raced, dropped>>

\* Seeded defect: the old ranking keys are not deleted before the members are added.
ReplaceAddsOnly(a) ==
    /\ AtCall(a, "replace")
    /\ cache' \in {None, cache}
    /\ rank' = IF val[a] = None THEN rank ELSE val[a]
    /\ raced' = (raced \/ Outdated(a))
    /\ Proceed(a)
    /\ UNCHANGED <<val, dropped>>

\* replaceRedisDerivedData: one MULTI deletes the cache keys its scan saw (an
\* entry stored after the scan survives) and replaces the rankings.
Replace(a) ==
    /\ AtCall(a, "replace")
    /\ cache' \in {None, cache}
    /\ rank' = val[a]
    /\ raced' = (raced \/ Outdated(a))
    /\ Proceed(a)
    /\ UNCHANGED <<val, dropped>>

\* A call fails.  A request ignores that in invalidateNoteCache, setNoteCache and
\* removeNoteRanking and goes on; every other refresh gives up.
CallFails(a) ==
    /\ CallsFail
    /\ ~Idle(a)
    /\ script' = [script EXCEPT ![a] =
                    IF a \in Request /\ Head(@) # "stats" THEN Tail(@) ELSE <<>>]
    /\ dropped' = TRUE
    /\ UNCHANGED <<rowVars, events, redisVars, val, kind, raced>>

\* An event that kept failing moves to the dead-letter stream unapplied.
LoseEvent(k) ==
    /\ CallsFail
    /\ events[k] > 0
    /\ events' = [events EXCEPT ![k] = @ - 1]
    /\ dropped' = TRUE
    /\ UNCHANGED <<rowVars, redisVars, actorVars, raced>>

\* The API process or the reconciler dies in mid-script.
Die(a) ==
    /\ a \notin Worker
    /\ ~Idle(a)
    /\ script' = [script EXCEPT ![a] = <<>>]
    /\ UNCHANGED <<rowVars, events, redisVars, val, kind, raced, dropped>>

Step(a) == Del(a) \/ Set(a) \/ Stats(a) \/ ZAdd(a) \/ ZRem(a) \/ Replace(a)

RequestStep(r) ==
    \/ CreateNote(r) \/ UpdateNote(r) \/ DeleteNote(r) \/ Interact(r)
    \/ GetNote(r)

WorkerStep(w) == CrashWorker(w) \/ \E k \in EventKind : ApplyEvent(w, k)

Next ==
    \/ \E r \in Request : RequestStep(r)
    \/ \E w \in Worker : WorkerStep(w)
    \/ \E c \in Reconciler : ListNoteRankings(c)
    \/ \E a \in Actor : Step(a) \/ CallFails(a) \/ Die(a)
    \/ \E k \in EventKind : LoseEvent(k)
    \/ Expire

Spec == Init /\ [][Next]_vars

-----------------------------------------------------------------------------
(* What the code promises *)

Entry == IF published THEN version ELSE None

Quiet ==
    /\ version > 0
    /\ \A k \in EventKind : events[k] = 0
    /\ \A a \in Actor : Idle(a)

CacheFresh == cache \in {None, Entry}

\* As long as no actor stored what an outdated read gave it, no call failed and
\* no event was lost, the cache and the ranking are right when every event is applied: each
\* path that changes the row is followed by an invalidation and a refresh, even
\* when API processes and workers die between their commit and their refresh.  The first
\* exception is wider than the documentation has it ("preventing a read during event lag
\* from leaving stale data cached for the full TTL"): such a read sets `raced`.
RightUnlessRaced == Quiet /\ ~raced /\ ~dropped => CacheFresh /\ rank = Entry

-----------------------------------------------------------------------------
(* Why it holds: the parts of the inductive invariant *)

RemovalScript == {<<"del", "zrem">>, <<"zrem">>}
RefreshBegun == {<<"del", "stats", "zadd">>, <<"stats", "zadd">>}

\* What is left of the script of a request, a worker or a reconciler.
ScriptShapes ==
    /\ \A r \in Request : script[r] \in RemovalScript \cup RefreshBegun \cup
          {<<>>, <<"del">>, <<"set">>, <<"zadd">>,
           <<"del", "set", "stats", "zadd">>, <<"set", "stats", "zadd">>}
    /\ \A w \in Worker : script[w] \in RemovalScript \cup RefreshBegun \cup {<<>>, <<"zadd">>}
    /\ \A c \in Reconciler : script[c] \in {<<>>, <<"replace">>}

\* The row's version, with the changes still to come, never runs ahead of the writes.
VersionBudget == version + events["change"] <= writes

\* A worker has the event in hand whose refresh it runs: a crash gives it back.
HandFits == \A w \in Worker : ~Idle(w) => (kind[w] = "delete" <=> script[w] \in RemovalScript)

\* Who removes the note acts for a deletion, and a deletion is final.
RemovalFinal ==
    /\ version = 0 => ~published
    /\ events["delete"] > 0 \/ (\E a \in Actor : script[a] \in RemovalScript) =>
          version > 0 /\ ~published

\* A stale entry is about to be deleted: by a worker, or after an event is applied.
CachePending ==
    \/ raced \/ dropped \/ CacheFresh
    \/ \E k \in EventKind : events[k] > 0
    \/ \E w \in Worker : AtCall(w, "del")

\* A wrong rank is about to be put right: by a worker that will read the row or has read
\* its present version, or after an event of the right kind is applied.
RankPending ==
    \/ raced \/ dropped \/ rank = Entry
    \/ /\ published
       /\ \/ events["change"] > 0 \/ events["update"] > 0
          \/ \E w \in Worker : script[w] \in RefreshBegun
          \/ \E w \in Worker : script[w] = <<"zadd">> /\ val[w] = version
    \/ /\ ~published
       /\ events["delete"] > 0 \/ \E w \in Worker : script[w] \in RemovalScript

\* The inductive invariant.
NoteCacheInv ==
    /\ TypeOK /\ ScriptShapes /\ VersionBudget
    /\ HandFits /\ RemovalFinal /\ CachePending /\ RankPending

-----------------------------------------------------------------------------
(* What becomes of it in the end *)

\* Scripts that started run on or die, the entry's TTL passes, the reconciler
\* runs on its ticker and does not fail every time.  Nothing is assumed of
\* requests, workers or events.
Fairness ==
    /\ WF_vars(Expire)
    /\ \A a \in Actor \ Reconciler : WF_vars(Step(a))
    /\ \A c \in Reconciler : WF_vars(ListNoteRankings(c)) /\ SF_vars(Step(c))

FairSpec == Spec /\ Fairness

\* "The scheduled reconciler repairs Redis state from PostgreSQL": once the note is
\* no longer written, the ranking becomes right and stays right, after races,
\* failed calls and deaths; a deleted note that a late ZADD or a replacement put
\* back leaves the ranking again.
RankingConverges == <>[](version > 0 => rank = Entry)

\* A stale entry does not stay: it lives at most until its TTL, and once the note
\* is no longer written no load brings it back.
CacheConverges == <>[]CacheFresh
=============================================================================
