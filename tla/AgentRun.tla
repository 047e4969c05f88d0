------------------------------ MODULE AgentRun ------------------------------
(***************************************************************************)
(* The control plane of agent runs: internal/agent and the guards of the   *)
(* agent_* tables (migrations 000024 to 000028).                           *)
(*                                                                         *)
(* CreateRun reads the retrieval scope, the caller's access and the prompt *)
(* in three statements, hashes what it read, and only then opens the       *)
(* transaction that inserts the run or replays the one with the same key.  *)
(* Everything it read may have moved by then.                              *)
(*                                                                         *)
(* The executor that dispatches a run, writes its claims and citations and *)
(* completes it is not part of the repository: it is any writer that the   *)
(* triggers let through.  A guard of a child row reads the run's status    *)
(* without locking it, and a foreign key locks only the run's key, so a    *)
(* child write is two steps: the guarded statement, and its commit.        *)
(***************************************************************************)
EXTENDS Naturals, FiniteSets

CONSTANTS
    Attempt,     \* executions of POST /agent/runs
    Form,        \* valid requests: [user, key, query, pin, needs]
    User,        \* requesters
    RunId,       \* agent_runs.id: numbers stand for the order of the UUIDs
    Claim,       \* agent_claims.id
    PageLimit,   \* ListRunsInput.Limit
    MaxIngest,   \* bound: ingestion runs of the dataset version
    Bounds,      \* bounds of a behaviour: [moves, updates, writes, lists]
    None

Index == {"lexical", "vector"}
NoKey == "none"
Terminal == {"succeeded", "failed", "cancelled"}
Status == {"queued", "running"} \cup Terminal

\* A row of agent_runs: the request is its user, key and hash, the rest moves with
\* the status.
RunType ==
    [user : User, key : {f.key : f \in Form},
     hash : {f.query : f \in Form} \X
            [mode : SUBSET Index, ingestion : 0..MaxIngest, access : {"public", "member"}],
     at : Nat, ingestion : 1..MaxIngest, status : Status, cancel : BOOLEAN, bound : BOOLEAN]

\* A claim with its support status and whether a supporting citation exists.
ClaimType == [run : RunId, support : {"proposed", "supported", "conflicted"}, cited : BOOLEAN]

ASSUME AgentConstants ==
    /\ None \notin RunType \cup ClaimType
    /\ PageLimit \in Nat \ {0} /\ MaxIngest \in Nat \ {0}
    /\ Bounds \subseteq [moves : Nat, updates : Nat, writes : Nat, lists : Nat]
    /\ RunId \subseteq Nat
    /\ \A f \in Form : f.user \in User /\ f.pin \in 0..MaxIngest /\ f.needs \subseteq Index

VARIABLES
    completed,   \* number of completed ingestion runs: the newest has that number
    indexed,     \* completed indexes: pairs <<ingestion run, index>>
    access,      \* ResolveAccess of the project, per user
    prompt,      \* status of the default prompt version
    model,       \* status of the model version
    clock,       \* the database's clock
    attempt,     \* per attempt: where it is and what it has read
    runs,        \* agent_runs
    claims,      \* agent_claims and their citations
    writes,      \* child statements past their guard, not committed
    list,        \* one client paging through GET /agent/runs
    left,        \* bound: scope changes, run updates, child writes and listings to come
    raced        \* history: runs that ended while a child write was under way

scopeVars == <<completed, indexed, access, prompt, model>>
vars == <<scopeVars, left, clock, attempt, runs, claims, writes, list, raced>>

Fresh == [pc |-> "idle", form |-> None, ingestion |-> 0, built |-> {},
          access |-> None, at |-> 0, run |-> None]

AttemptType ==
    [pc : {"idle", "access", "prompt", "begin", "insert", "created", "replayed",
           "conflict", "forbidden", "unavailable", "error"},
     form : Form \cup {None}, ingestion : 0..MaxIngest, built : SUBSET Index,
     access : {None, "none", "public", "member"}, at : Nat, run : RunId \cup {None}]

ListType ==
    [pc : {"idle", "paging", "done"}, user : User \cup {None}, admin : BOOLEAN, at : Nat,
     id : Nat, seen : SUBSET RunId, shown : Nat, base : SUBSET RunId]

TypeOK ==
    /\ completed \in 0..MaxIngest
    /\ indexed \subseteq (1..MaxIngest) \X Index
    /\ access \in [User -> {"none", "public", "member"}]
    /\ prompt \in {"frozen", "retired"} /\ model \in {"frozen", "retired"}
    /\ clock \in Nat
    /\ left \in [moves : Nat, updates : Nat, writes : Nat, lists : Nat]
    /\ attempt \in [Attempt -> AttemptType]
    /\ runs \in [RunId -> RunType \cup {None}]
    /\ claims \in [Claim -> ClaimType \cup {None}]
    /\ writes \subseteq Claim \X {"insert", "support", "doubt", "cite"} \X RunId
    /\ list \in ListType
    /\ raced \subseteq RunId

Init ==
    /\ completed = 1
    /\ indexed = {<<1, "lexical">>, <<1, "vector">>}
    /\ access = [u \in User |-> "member"]
    /\ prompt = "frozen" /\ model = "frozen"
    /\ clock = 1 /\ left \in Bounds
    /\ attempt = [a \in Attempt |-> Fresh]
    /\ runs = [r \in RunId |-> None]
    /\ claims = [c \in Claim |-> None]
    /\ writes = {}
    /\ list = [pc |-> "idle", user |-> None, admin |-> FALSE, at |-> 0, id |-> 0,
               seen |-> {}, shown |-> 0, base |-> {}]
    /\ raced = {}

-----------------------------------------------------------------------------
(* What the rest of the platform does to the scope of a run.               *)

Moved ==
    /\ left.moves > 0
    /\ left' = [left EXCEPT !.moves = @ - 1]
    /\ UNCHANGED <<clock, attempt, runs, claims, writes, list, raced>>

\* A newer ingestion run of the dataset version completes.
CompleteIngestion ==
    /\ completed < MaxIngest
    /\ completed' = completed + 1
    /\ UNCHANGED <<indexed, access, prompt, model>> /\ Moved

\* BuildLexicalIndex or the vector builder completes the index of a run.
CompleteIndex(i, x) ==
    /\ i \in 1..completed /\ <<i, x>> \notin indexed
    /\ indexed' = indexed \cup {<<i, x>>}
    /\ UNCHANGED <<completed, access, prompt, model>> /\ Moved

\* A membership is granted or withdrawn, the project becomes public or private.
ChangeAccess(u, x) ==
    /\ x # access[u]
    /\ access' = [access EXCEPT ![u] = x]
    /\ UNCHANGED <<completed, indexed, prompt, model>> /\ Moved

\* guard_agent_definition_immutable: frozen to retired, never back.
RetirePrompt ==
    /\ prompt = "frozen" /\ prompt' = "retired"
    /\ UNCHANGED <<completed, indexed, access, model>> /\ Moved

RetireModel ==
    /\ model = "frozen" /\ model' = "retired"
    /\ UNCHANGED <<completed, indexed, access, prompt>> /\ Moved

-----------------------------------------------------------------------------
(* CreateRun.                                                              *)

Step(a, new) ==
    /\ attempt' = [attempt EXCEPT ![a] = new]
    /\ UNCHANGED <<scopeVars, left, claims, writes, list, raced>>

\* Service.CreateRun up to ResolveScope: the newest completed run, or the pinned one,
\* with the indexes that are completed for it.
ResolveScope(a, f) ==
    LET i == IF f.pin = 0 THEN completed ELSE f.pin
    IN  /\ attempt[a].pc = "idle"
        /\ Step(a, IF i \notin 1..completed
                   THEN [Fresh EXCEPT !.pc = "unavailable", !.form = f]
                   ELSE [Fresh EXCEPT !.pc = "access", !.form = f, !.ingestion = i,
                                      !.built = {x \in Index : <<i, x>> \in indexed}])
        /\ UNCHANGED <<clock, runs>>

\* validateScopeForMode: every index the mode needs was completed when the scope was read.
ScopeUsable(t) == t.form.needs \subseteq t.built

\* ResolveAccess, then validateScopeForMode on the scope read before.
ResolveAccess(a) ==
    LET t == attempt[a]
    IN  /\ t.pc = "access"
        /\ Step(a, [t EXCEPT !.access = access[t.form.user],
                             !.pc = IF access[t.form.user] = "none" THEN "forbidden"
                                    ELSE IF ~ScopeUsable(t) THEN "unavailable"
                                    ELSE "prompt"])
        /\ UNCHANGED <<clock, runs>>

\* GetPromptVersion: only a frozen prompt is found.
GetPromptVersion(a) ==
    /\ attempt[a].pc = "prompt"
    /\ Step(a, [attempt[a] EXCEPT !.pc = IF prompt = "frozen" THEN "begin" ELSE "unavailable"])
    /\ UNCHANGED <<clock, runs>>

\* The retrieval contract: the dataset, index and embedding checksums are those of the
\* ingestion run, so the mode, the run and the access scope tell contracts apart.
RetrievalContract(t) == [mode |-> t.form.needs, ingestion |-> t.ingestion, access |-> t.access]

\* hashRunRequest; there is one default prompt, and the budget is part of the query.
RequestHash(t) == <<t.form.query, RetrievalContract(t)>>

\* BeginTxx: now() of the transaction is the run's created_at.  The clock may not
\* have advanced since another transaction began.
BeginCreate(a) ==
    /\ attempt[a].pc = "begin"
    /\ \E t \in {clock, clock + 1} :
          /\ clock' = t
          /\ Step(a, [attempt[a] EXCEPT !.pc = "insert", !.at = t])
    /\ UNCHANGED runs

Existing(user, key) ==
    {r \in RunId : runs[r] # None /\ runs[r].user = user /\ runs[r].key = key}

NewRun(t) ==
    [user |-> t.form.user, key |-> t.form.key, hash |-> RequestHash(t), at |-> t.at,
     ingestion |-> t.ingestion, status |-> "queued", cancel |-> FALSE, bound |-> FALSE]

\* Seeded defect: the replay does not compare the request hashes.
CreateRunAnyHash(a) ==
    LET t == attempt[a]
        old == IF t.form.key = NoKey THEN {} ELSE Existing(t.form.user, t.form.key)
    IN  /\ t.pc = "insert"
        /\ \/ /\ old = {}
              /\ \E r \in RunId :
                    /\ runs[r] = None
                    /\ runs' = [runs EXCEPT ![r] = NewRun(t)]
                    /\ Step(a, [t EXCEPT !.pc = "created", !.run = r])
           \/ /\ old # {}
              /\ \E r \in old : Step(a, [t EXCEPT !.pc = "replayed", !.run = r])
              /\ UNCHANGED runs
        /\ UNCHANGED clock

\* Repository.CreateRun.  validate_agent_run runs before the conflict is looked for,
\* so a replay fails too once the prompt is retired.  A concurrent insert of the same
\* key makes this one wait for its commit; the whole is one step at the commit.
CreateRun(a) ==
    LET t == attempt[a]
        old == IF t.form.key = NoKey THEN {} ELSE Existing(t.form.user, t.form.key)
    IN  /\ t.pc = "insert"
        /\ \/ /\ prompt # "frozen"
              /\ Step(a, [t EXCEPT !.pc = "error"])
              /\ UNCHANGED runs
           \/ /\ prompt = "frozen" /\ old = {}
              /\ \E r \in RunId :
                    /\ runs[r] = None
                    /\ runs' = [runs EXCEPT ![r] = NewRun(t)]
                    /\ Step(a, [t EXCEPT !.pc = "created", !.run = r])
           \/ /\ prompt = "frozen" /\ old # {}
              /\ \E r \in old :
                    Step(a, IF runs[r].hash = RequestHash(t)
                            THEN [t EXCEPT !.pc = "replayed", !.run = r]
                            ELSE [t EXCEPT !.pc = "conflict", !.run = r])
              /\ UNCHANGED runs
        /\ UNCHANGED clock

-----------------------------------------------------------------------------
(* Updates of a run, all through validate_agent_run.                       *)

\* The transitions validate_agent_run accepts.
ValidTransition(old, new) ==
    \/ old = new /\ old \notin Terminal
    \/ old = "queued" /\ new \in {"running", "failed", "cancelled"}
    \/ old = "running" /\ new \in Terminal

ChangeRun(r, new) ==
    /\ runs' = [runs EXCEPT ![r] = new]
    /\ raced' = IF new.status \in Terminal /\ \E w \in writes : w[3] = r
                THEN raced \cup {r} ELSE raced
    /\ left.updates > 0 /\ left' = [left EXCEPT !.updates = @ - 1]
    /\ UNCHANGED <<scopeVars, clock, attempt, claims, writes, list>>

\* Seeded defect: a run in the queue is marked only, its status stays.
CancelRunMarkOnly(u, admin, r) ==
    /\ runs[r] # None /\ (admin \/ runs[r].user = u)
    /\ runs[r].status \in {"queued", "running"}
    /\ ChangeRun(r, [runs[r] EXCEPT !.cancel = TRUE])

\* Service.CancelRun and Repository.CancelRun; a terminal run is answered with a
\* conflict, a run of somebody else with not found.
CancelRun(u, admin, r) ==
    /\ runs[r] # None /\ (admin \/ runs[r].user = u)
    /\ runs[r].status \in {"queued", "running"}
    /\ ChangeRun(r, [runs[r] EXCEPT !.cancel = TRUE,
                        !.status = IF @ = "queued" THEN "cancelled" ELSE @])

\* The executor dispatches a run: a frozen model is bound, once.
Dispatch(r) ==
    /\ runs[r] # None /\ ~runs[r].bound /\ model = "frozen"
    /\ runs[r].status = "queued" /\ ValidTransition("queued", "running")
    /\ ChangeRun(r, [runs[r] EXCEPT !.status = "running", !.bound = TRUE])

Supported(c) == claims[c].support = "supported" /\ claims[c].cited

\* Seeded defect: the completion guard looks at the support status only.
FinishUncited(r, s) ==
    /\ runs[r] # None /\ s \in Terminal /\ ValidTransition(runs[r].status, s)
    /\ s = "succeeded" => \A c \in Claim : claims[c] # None /\ claims[c].run = r
                                             => claims[c].support = "supported"
    /\ ChangeRun(r, [runs[r] EXCEPT !.status = s])

\* The executor ends a run.  enforce_agent_run_dispatch_and_completion reads the
\* claims that are committed.
Finish(r, s) ==
    /\ runs[r] # None /\ s \in Terminal /\ ValidTransition(runs[r].status, s)
    /\ s = "succeeded" => \A c \in Claim : claims[c] # None /\ claims[c].run = r => Supported(c)
    /\ ChangeRun(r, [runs[r] EXCEPT !.status = s])

-----------------------------------------------------------------------------
(* Claims and citations.  Tool calls pass the same guard as claims.         *)

\* guard_agent_run_child, validate_agent_claim_citation: the run is not terminal.
StartWrite(c, op, r) ==
    /\ runs[r] # None /\ runs[r].status \notin Terminal
    /\ IF op = "insert"
       THEN claims[c] = None /\ \A w \in writes : w[1] # c
       ELSE claims[c] # None /\ claims[c].run = r /\ \A w \in writes : w[1] # c
    /\ left.writes > 0 /\ left' = [left EXCEPT !.writes = @ - 1]
    /\ writes' = writes \cup {<<c, op, r>>}
    /\ UNCHANGED <<scopeVars, clock, attempt, runs, claims, list, raced>>

\* The transaction of the child write commits.
CommitWrite(w) ==
    /\ w \in writes
    /\ writes' = writes \ {w}
    /\ claims' = [claims EXCEPT ![w[1]] =
          CASE w[2] = "insert"  -> [run |-> w[3], support |-> "proposed", cited |-> FALSE]
            [] w[2] = "support" -> [@ EXCEPT !.support = "supported"]
            [] w[2] = "doubt"   -> [@ EXCEPT !.support = "conflicted"]
            [] w[2] = "cite"    -> [@ EXCEPT !.cited = TRUE]]
    /\ UNCHANGED <<scopeVars, left, clock, attempt, runs, list, raced>>

-----------------------------------------------------------------------------
(* ListRuns: pages by (created_at, id), newest first.                      *)

Visible == {r \in RunId : runs[r] # None /\ (list.admin \/ runs[r].user = list.user)}

Before(r, at, id) == runs[r].at < at \/ (runs[r].at = at /\ r < id)

\* Seeded defect: the keyset condition compares the timestamps only.
AfterCursorByTime == {r \in Visible : list.shown = 0 \/ runs[r].at < list.at}

\* The keyset condition of the query.
AfterCursor == {r \in Visible : list.shown = 0 \/ Before(r, list.at, list.id)}

\* The row the next cursor is made of, encoded and decoded without loss.
LastOf(page) == CHOOSE r \in page : \A q \in page : q = r \/ Before(r, runs[q].at, q)

StartList(u, admin) ==
    /\ list.pc = "idle" /\ left.lists > 0
    /\ left' = [left EXCEPT !.lists = @ - 1]
    /\ list' = [list EXCEPT !.pc = "paging", !.user = u, !.admin = admin]
    /\ UNCHANGED <<scopeVars, clock, attempt, runs, claims, writes, raced>>

\* One page: limit + 1 rows are read, the last one of a full page is the next cursor.
\* base remembers what was there when the first page was read.
NextPage ==
    LET rest == AfterCursor
        page == {r \in rest : Cardinality({q \in rest : Before(r, runs[q].at, q)}) < PageLimit}
        last == LastOf(page)
    IN  /\ list.pc = "paging"
        /\ list' = [list EXCEPT
              !.seen = @ \cup page,
              !.shown = @ + Cardinality(page),
              !.base = IF list.shown = 0 THEN Visible ELSE @,
              !.pc = IF page = rest THEN "done" ELSE "paging",
              !.at = IF page = rest THEN @ ELSE runs[last].at,
              !.id = IF page = rest THEN @ ELSE last]
        /\ UNCHANGED <<scopeVars, left, clock, attempt, runs, claims, writes, raced>>

Next ==
    \/ CompleteIngestion
    \/ \E i \in 1..MaxIngest, x \in Index : CompleteIndex(i, x)
    \/ \E u \in User, x \in {"none", "public", "member"} : ChangeAccess(u, x)
    \/ RetirePrompt
    \/ RetireModel
    \/ \E a \in Attempt, f \in Form : ResolveScope(a, f)
    \/ \E a \in Attempt : ResolveAccess(a)
    \/ \E a \in Attempt : GetPromptVersion(a)
    \/ \E a \in Attempt : BeginCreate(a)
    \/ \E a \in Attempt : CreateRun(a)
    \/ \E u \in User, admin \in BOOLEAN, r \in RunId : CancelRun(u, admin, r)
    \/ \E r \in RunId : Dispatch(r)
    \/ \E r \in RunId, s \in Terminal : Finish(r, s)
    \/ \E c \in Claim, op \in {"insert", "support", "doubt", "cite"}, r \in RunId :
          StartWrite(c, op, r)
    \/ \E w \in writes : CommitWrite(w)
    \/ \E u \in User, admin \in BOOLEAN : StartList(u, admin)
    \/ NextPage

Spec == Init /\ [][Next]_vars

-----------------------------------------------------------------------------
Answered == {a \in Attempt : attempt[a].pc \in {"created", "replayed"}}

\* Every attempt that is answered with a run is answered with a run of its own
\* requester and of exactly the request it resolved, and all attempts under one
\* key with the same run, whatever moved between them (Repository.CreateRun).
ReplayIsTheRun ==
    /\ \A a \in Answered :
          LET t == attempt[a] IN
             runs[t.run].user = t.form.user /\ runs[t.run].hash = RequestHash(t)
    /\ \A a, b \in Answered :
          attempt[a].form.user = attempt[b].form.user
          /\ attempt[a].form.key = attempt[b].form.key /\ attempt[a].form.key # NoKey
          => attempt[a].run = attempt[b].run

\* A succeeded run has only supported claims with a supporting citation (docs/22:
\* "supported/cited claims before success"), except for runs that ended while a child
\* write was past its guard (guard_agent_run_child reads the status without a lock).
SupportedUnlessRaced ==
    \A r \in RunId \ raced : runs[r] # None /\ runs[r].status = "succeeded" =>
        \A c \in Claim : claims[c] # None /\ claims[c].run = r => Supported(c)

\* Paging shows every run that was there at the first page, and none twice, however
\* many runs are created meanwhile with the same timestamps (ListRuns).
PagesComplete ==
    /\ list.shown = Cardinality(list.seen)
    /\ list.pc = "done" => list.base \subseteq list.seen

\* A run's request never changes, an ended run never changes at all, and a run that
\* was cancelled in the queue is never dispatched (validate_agent_run, CancelRun).
LineageFrozen ==
    [][\A r \in RunId : runs[r] # None =>
          /\ runs'[r] # None
          /\ runs[r].hash = runs'[r].hash /\ runs[r].user = runs'[r].user
          /\ runs[r].at = runs'[r].at /\ runs[r].key = runs'[r].key
          /\ runs[r].status \in Terminal => runs'[r] = runs[r]
          /\ runs[r].bound => runs'[r].bound
          /\ ~runs[r].bound /\ runs'[r].bound => ~runs[r].cancel]_vars

-----------------------------------------------------------------------------
(* What the properties rest on.                                            *)

Created == {r \in RunId : runs[r] # None}

\* An attempt carries the request it was called with and what it has read, and one that
\* was answered names a stored run of its user, key and hash.
AttemptsAnswered ==
    \A a \in Attempt : LET t == attempt[a] IN
        /\ t.pc # "idle" => t.form \in Form
        /\ t.pc \in {"access", "prompt", "begin", "insert"} => t.ingestion \in 1..MaxIngest
        /\ t.pc \in {"prompt", "begin", "insert"} => t.access \in {"public", "member"}
        /\ t.pc \in {"created", "replayed"} =>
              /\ t.run \in Created
              /\ runs[t.run].user = t.form.user /\ runs[t.run].key = t.form.key
              /\ runs[t.run].hash = RequestHash(t)

\* The unique index on (requester, idempotency key).
KeysUnique ==
    \A r, s \in Created :
        runs[r].user = runs[s].user /\ runs[r].key = runs[s].key /\ runs[r].key # NoKey => r = s

\* A cancelled run has left the queue.
CancelledLeftQueue == \A r \in Created : runs[r].cancel => runs[r].status # "queued"

\* A child write under way is about a claim of its run, alone on that claim; a run that
\* ended with none under way has none since.
WritesGuarded ==
    /\ \A w \in writes : IF w[2] = "insert" THEN claims[w[1]] = None
                          ELSE claims[w[1]] # None /\ claims[w[1]].run = w[3]
    /\ \A v, w \in writes : v[1] = w[1] => v = w
    /\ \A r \in Created \ raced : runs[r].status \in Terminal => \A w \in writes : w[3] # r

\* What the client has seen is at or past its cursor; what it has yet to see of the first
\* page's runs is visible and before the cursor.
CursorSplits ==
    /\ IsFiniteSet(Created)
    /\ list.seen \cup list.base \subseteq Visible
    /\ list.shown = Cardinality(list.seen)
    /\ list.pc = "idle" => list.seen = {} /\ list.base = {}
    /\ list.pc = "paging" /\ list.shown # 0 =>
          /\ \A r \in list.seen : ~Before(r, list.at, list.id)
          /\ \A r \in list.base \ list.seen : Before(r, list.at, list.id)
    /\ list.pc = "done" => list.base \subseteq list.seen

\* The inductive invariant.
AgentInv ==
    /\ TypeOK
    /\ AttemptsAnswered /\ KeysUnique /\ CancelledLeftQueue
    /\ WritesGuarded /\ SupportedUnlessRaced
    /\ CursorSplits
=============================================================================
