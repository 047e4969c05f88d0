--------------------------- MODULE AgentRunProofs ---------------------------
(***************************************************************************)
(* Proofs about AgentRun: replay under an idempotency key, frozen lineage, *)
(* supported claims of succeeded runs, and complete pages.                 *)
(***************************************************************************)
EXTENDS AgentRun, FiniteSetTheorems, WellFoundedInduction, TLAPS

ChildOp == {"insert", "support", "doubt", "cite"}

\* The steps of CreateRun, of updates of a run, of child writes and of the listing.
CreateStep ==
    \/ \E a \in Attempt, f \in Form : ResolveScope(a, f)
    \/ \E a \in Attempt : ResolveAccess(a) \/ GetPromptVersion(a) \/ BeginCreate(a) \/ CreateRun(a)

MoveStep ==
    \/ CompleteIngestion
    \/ \E i \in 1..MaxIngest, x \in Index : CompleteIndex(i, x)
    \/ \E u \in User, x \in {"none", "public", "member"} : ChangeAccess(u, x)
    \/ RetirePrompt
    \/ RetireModel

UpdateStep(r) ==
    \/ \E u \in User, admin \in BOOLEAN : CancelRun(u, admin, r)
    \/ Dispatch(r)
    \/ \E s \in Terminal : Finish(r, s)

WriteStep ==
    \/ \E c \in Claim, op \in ChildOp, r \in RunId : StartWrite(c, op, r)
    \/ \E w \in writes : CommitWrite(w)

ListStep == (\E u \in User, admin \in BOOLEAN : StartList(u, admin)) \/ NextPage

LEMMA StepCases ==
    ASSUME [Next]_vars
    PROVE  \/ MoveStep \/ CreateStep \/ \E r \in RunId : UpdateStep(r)
           \/ WriteStep \/ ListStep \/ UNCHANGED vars
BY DEF Next, MoveStep, CreateStep, UpdateStep, WriteStep, ListStep, ChildOp

-----------------------------------------------------------------------------
(* What each kind of step does to the runs and the claims *)

\* What an attempt in state t has made of the runs: nothing, a replay, or a new run.
Outcome(t) ==
    \/ runs' = runs /\ t.pc \notin {"created", "replayed"}
    \/ /\ runs' = runs /\ t.pc = "replayed" /\ t.run \in Created
       /\ runs[t.run].user = t.form.user /\ runs[t.run].key = t.form.key
       /\ runs[t.run].hash = RequestHash(t)
    \/ /\ t.pc = "created" /\ t.run \in RunId \ Created
       /\ NewRun(t) \in RunType
       /\ runs' = [runs EXCEPT ![t.run] = NewRun(t)]
       /\ t.form.key = NoKey \/ Existing(t.form.user, t.form.key) = {}

\* What a step of CreateRun leaves of an attempt.
LEMMA CreateShape ==
    ASSUME AgentInv, CreateStep
    PROVE  \E a \in Attempt, t \in AttemptType :
             /\ attempt' = [attempt EXCEPT ![a] = t]
             /\ UNCHANGED <<scopeVars, left, claims, writes, list, raced>>
             /\ clock' \in Nat
             /\ t.pc # "idle" /\ t.form \in Form
             /\ t.pc \in {"access", "prompt", "begin", "insert"} => t.ingestion \in 1..MaxIngest
             /\ t.pc \in {"prompt", "begin", "insert"} => t.access \in {"public", "member"}
             /\ Outcome(t)
<1>. USE AgentConstants
<1>0. /\ attempt \in [Attempt -> AttemptType] /\ clock \in Nat /\ completed \in 0..MaxIngest
      /\ access \in [User -> {"none", "public", "member"}]
      /\ runs \in [RunId -> RunType \cup {None}]
    BY DEF AgentInv, TypeOK
<1>1. ASSUME NEW a \in Attempt, NEW f \in Form, ResolveScope(a, f)
      PROVE  \E t \in AttemptType :
             /\ attempt' = [attempt EXCEPT ![a] = t]
             /\ UNCHANGED <<scopeVars, left, claims, writes, list, raced>>
             /\ clock' \in Nat /\ runs' = runs
             /\ t.pc \in {"access", "unavailable"} /\ t.form \in Form
             /\ t.pc = "access" => t.ingestion \in 1..MaxIngest
  <2>. DEFINE i == IF f.pin = 0 THEN completed ELSE f.pin
              b == {x \in Index : <<i, x>> \in indexed}
              no == [Fresh EXCEPT !.pc = "unavailable", !.form = f]
              yes == [Fresh EXCEPT !.pc = "access", !.form = f, !.ingestion = i, !.built = b]
  <2>1. no \in AttemptType /\ no.pc = "unavailable" /\ no.form = f
    <3>1. 0 \in 0..MaxIngest /\ {} \in SUBSET Index /\ 0 \in Nat
        OBVIOUS
    <3>. QED BY <3>1 DEF Fresh, AttemptType
  <2>2. ASSUME i \in 1..completed
        PROVE yes \in AttemptType /\ yes.pc = "access" /\ yes.form = f /\ yes.ingestion = i
    <3>1. i \in 0..MaxIngest /\ b \in SUBSET Index
        BY <1>0, <2>2
    <3>. HIDE DEF i, b
    <3>. QED BY <3>1 DEF Fresh, AttemptType
  <2>3. \/ i \notin 1..completed /\ Step(a, no)
        \/ i \in 1..completed /\ Step(a, yes)
      BY <1>1 DEF ResolveScope
  <2>4. UNCHANGED <<clock, runs>>
      BY <1>1 DEF ResolveScope
  <2>. HIDE DEF i, no, yes, b
  <2>. QED BY <1>0, <2>1, <2>2, <2>3, <2>4 DEF Step
<1>2. ASSUME NEW a \in Attempt, ResolveAccess(a) \/ GetPromptVersion(a) \/ BeginCreate(a)
      PROVE  \E t \in AttemptType :
             /\ attempt' = [attempt EXCEPT ![a] = t]
             /\ UNCHANGED <<scopeVars, left, claims, writes, list, raced>>
             /\ clock' \in Nat /\ runs' = runs
             /\ t.pc \in {"forbidden", "unavailable", "prompt", "begin", "insert"}
             /\ t.form \in Form /\ t.ingestion \in 1..MaxIngest
             /\ t.pc \in {"prompt", "begin", "insert"} => t.access \in {"public", "member"}
  <2>1. /\ attempt[a] \in AttemptType /\ attempt[a].form \in Form
        /\ attempt[a].ingestion \in 1..MaxIngest
        /\ attempt[a].pc \in {"prompt", "begin", "insert"} => attempt[a].access \in {"public", "member"}
        /\ attempt[a].pc \in {"access", "prompt", "begin"}
      BY <1>0, <1>2 DEF AgentInv, AttemptsAnswered, ResolveAccess, GetPromptVersion, BeginCreate
  <2>2. CASE ResolveAccess(a)
    <3>. DEFINE t == attempt[a]
                n == IF access[t.form.user] = "none" THEN "forbidden"
                     ELSE IF ~ScopeUsable(t) THEN "unavailable" ELSE "prompt"
                new == [t EXCEPT !.access = access[t.form.user], !.pc = n]
    <3>1. Step(a, new) /\ UNCHANGED <<clock, runs>>
        BY <2>2 DEF ResolveAccess
    <3>2. access[t.form.user] \in {"none", "public", "member"}
        BY <1>0, <2>1
    <3>3. new \in AttemptType /\ new.form = t.form /\ new.ingestion = t.ingestion
        BY <2>1, <3>2 DEF AttemptType
    <3>4. /\ new.pc \in {"forbidden", "unavailable", "prompt"} /\ new.access = access[t.form.user]
          /\ new.pc = "prompt" => access[t.form.user] # "none"
        BY <2>1, <3>2 DEF AttemptType
    <3>. HIDE DEF new, n
    <3>. QED BY <1>0, <2>1, <3>1, <3>2, <3>3, <3>4 DEF Step
  <2>3. CASE GetPromptVersion(a)
    <3>. DEFINE n == IF prompt = "frozen" THEN "begin" ELSE "unavailable"
                new == [attempt[a] EXCEPT !.pc = n]
    <3>1. Step(a, new) /\ UNCHANGED <<clock, runs>> /\ attempt[a].pc = "prompt"
        BY <2>3 DEF GetPromptVersion
    <3>2. new \in AttemptType /\ new.pc = n /\ new.form = attempt[a].form
          /\ new.ingestion = attempt[a].ingestion /\ new.access = attempt[a].access
        BY <2>1 DEF AttemptType
    <3>. QED BY <1>0, <2>1, <3>1, <3>2 DEF Step
  <2>4. CASE BeginCreate(a)
    <3>1. PICK c \in {clock, clock + 1} :
             clock' = c /\ Step(a, [attempt[a] EXCEPT !.pc = "insert", !.at = c])
        BY <2>4 DEF BeginCreate
    <3>. DEFINE new == [attempt[a] EXCEPT !.pc = "insert", !.at = c]
    <3>2. c \in Nat /\ runs' = runs /\ attempt[a].pc = "begin"
        BY <1>0, <2>4 DEF BeginCreate
    <3>3. new \in AttemptType /\ new.pc = "insert" /\ new.form = attempt[a].form
          /\ new.ingestion = attempt[a].ingestion /\ new.access = attempt[a].access
        BY <2>1, <3>2 DEF AttemptType
    <3>. QED BY <1>0, <2>1, <3>1, <3>2, <3>3 DEF Step
  <2>. QED BY <1>2, <2>2, <2>3, <2>4
<1>3. ASSUME NEW a \in Attempt, CreateRun(a)
      PROVE  \E t \in AttemptType :
             /\ attempt' = [attempt EXCEPT ![a] = t]
             /\ UNCHANGED <<scopeVars, left, claims, writes, list, raced>>
             /\ clock' \in Nat
             /\ t.pc \in {"error", "conflict", "replayed", "created"} /\ t.form \in Form
             /\ Outcome(t)
  <2>. DEFINE t == attempt[a]
              old == IF t.form.key = NoKey THEN {} ELSE Existing(t.form.user, t.form.key)
  <2>1. /\ t \in AttemptType /\ t.form \in Form /\ t.ingestion \in 1..MaxIngest
        /\ t.access \in {"public", "member"} /\ clock' = clock
      BY <1>0, <1>3 DEF AgentInv, AttemptsAnswered, CreateRun
  <2>2. ASSUME NEW r \in RunId, NEW p \in {"created", "replayed", "conflict"}
        PROVE  LET n == [t EXCEPT !.pc = p, !.run = r] IN
               /\ n \in AttemptType /\ n.pc = p /\ n.form = t.form /\ n.run = r
               /\ RequestHash(n) = RequestHash(t) /\ NewRun(n) = NewRun(t)
      BY <2>1 DEF AttemptType, RequestHash, RetrievalContract, NewRun
  <2>3. ASSUME Step(a, [t EXCEPT !.pc = "error"]), runs' = runs
        PROVE  \E n \in AttemptType :
                 /\ attempt' = [attempt EXCEPT ![a] = n]
                 /\ n.pc = "error" /\ n.form = t.form /\ Outcome(n)
    <3>. DEFINE n == [t EXCEPT !.pc = "error"]
    <3>1. n \in AttemptType /\ n.pc = "error" /\ n.form = t.form
        BY <2>1 DEF AttemptType
    <3>. HIDE DEF n, t
    <3>. QED BY <2>3, <3>1 DEF Step, Outcome, n
  <2>4. ASSUME NEW r \in RunId, runs[r] = None, old = {}, runs' = [runs EXCEPT ![r] = NewRun(t)],
               Step(a, [t EXCEPT !.pc = "created", !.run = r])
        PROVE  \E n \in AttemptType :
                 /\ attempt' = [attempt EXCEPT ![a] = n]
                 /\ n.pc = "created" /\ n.form = t.form /\ Outcome(n)
    <3>. DEFINE n == [t EXCEPT !.pc = "created", !.run = r]
    <3>1. /\ n \in AttemptType /\ n.pc = "created" /\ n.form = t.form /\ n.run = r
          /\ NewRun(n) = NewRun(t)
        BY <2>2
    <3>2. RequestHash(t) \in {f.query : f \in Form} \X
              [mode : SUBSET Index, ingestion : 0..MaxIngest, access : {"public", "member"}]
        BY <2>1 DEF RequestHash, RetrievalContract
    <3>3. t.at \in Nat /\ t.form.user \in User /\ t.form.key \in {f.key : f \in Form}
        BY <2>1 DEF AttemptType
    <3>4. NewRun(t) \in RunType
        BY <2>1, <3>2, <3>3 DEF NewRun, RunType, Status
    <3>5. t.form.key = NoKey \/ Existing(t.form.user, t.form.key) = {}
        BY <2>4
    <3>6. r \in RunId \ Created
        BY <2>4 DEF Created
    <3>. HIDE DEF n, t
    <3>. QED BY <2>4, <3>1, <3>4, <3>5, <3>6 DEF Step, Outcome, n
  <2>5. ASSUME NEW r \in RunId, r \in old, runs' = runs, runs[r].hash = RequestHash(t),
               Step(a, [t EXCEPT !.pc = "replayed", !.run = r])
        PROVE  \E n \in AttemptType :
                 /\ attempt' = [attempt EXCEPT ![a] = n]
                 /\ n.pc = "replayed" /\ n.form = t.form /\ Outcome(n)
    <3>. DEFINE n == [t EXCEPT !.pc = "replayed", !.run = r]
    <3>1. /\ n \in AttemptType /\ n.pc = "replayed" /\ n.form = t.form /\ n.run = r
          /\ RequestHash(n) = RequestHash(t)
        BY <2>2
    <3>2. r \in Created /\ runs[r].user = t.form.user /\ runs[r].key = t.form.key
        BY <2>5 DEF Existing, Created
    <3>. HIDE DEF n, t
    <3>. QED BY <2>5, <3>1, <3>2 DEF Step, Outcome, n
  <2>6. ASSUME NEW r \in RunId, runs' = runs,
               Step(a, [t EXCEPT !.pc = "conflict", !.run = r])
        PROVE  \E n \in AttemptType :
                 /\ attempt' = [attempt EXCEPT ![a] = n]
                 /\ n.pc = "conflict" /\ n.form = t.form /\ Outcome(n)
    <3>. DEFINE n == [t EXCEPT !.pc = "conflict", !.run = r]
    <3>1. n \in AttemptType /\ n.pc = "conflict" /\ n.form = t.form
        BY <2>2
    <3>. HIDE DEF n, t
    <3>. QED BY <2>6, <3>1 DEF Step, Outcome, n
  <2>7. \E n \in AttemptType :
          /\ attempt' = [attempt EXCEPT ![a] = n]
          /\ n.pc \in {"error", "conflict", "replayed", "created"} /\ n.form = t.form /\ Outcome(n)
    <3>1. old \subseteq RunId
        BY DEF Existing
    <3>2. \/ runs' = runs /\ Step(a, [t EXCEPT !.pc = "error"])
          \/ /\ old = {}
             /\ \E r \in RunId : /\ runs[r] = None /\ runs' = [runs EXCEPT ![r] = NewRun(t)]
                                 /\ Step(a, [t EXCEPT !.pc = "created", !.run = r])
          \/ /\ runs' = runs
             /\ \E r \in old : \/ /\ runs[r].hash = RequestHash(t)
                                  /\ Step(a, [t EXCEPT !.pc = "replayed", !.run = r])
                               \/ Step(a, [t EXCEPT !.pc = "conflict", !.run = r])
        BY <1>3, Zenon DEF CreateRun
    <3>. HIDE DEF t, old
    <3>. QED BY <2>3, <2>4, <2>5, <2>6, <3>1, <3>2
  <2>8. UNCHANGED <<scopeVars, left, claims, writes, list, raced>>
      BY <1>3 DEF CreateRun, Step
  <2>. QED BY <1>0, <2>1, <2>7, <2>8
<1>. QED
  <2>1. ASSUME NEW t \in AttemptType, runs' = runs, t.pc \notin {"created", "replayed"}
        PROVE  Outcome(t)
      BY <2>1 DEF Outcome
  <2>. QED BY <1>1, <1>2, <1>3, <2>1 DEF CreateStep

\* What an update leaves of a run.
LEMMA UpdateShape ==
    ASSUME AgentInv, NEW r \in RunId, UpdateStep(r)
    PROVE  \E n \in RunType :
             /\ r \in Created /\ runs[r].status \notin Terminal
             /\ runs' = [runs EXCEPT ![r] = n]
             /\ n.user = runs[r].user /\ n.key = runs[r].key
             /\ n.hash = runs[r].hash /\ n.at = runs[r].at
             /\ n.cancel => n.status # "queued"
             /\ runs[r].bound => n.bound
             /\ ~runs[r].bound /\ n.bound => ~runs[r].cancel
             /\ n.status = "succeeded" =>
                   \A c \in Claim : claims[c] # None /\ claims[c].run = r => Supported(c)
             /\ ChangeRun(r, n)
<1>. USE AgentConstants
<1>0. runs[r] \in RunType \cup {None} /\ runs[r] # None /\ r \in Created
    BY DEF AgentInv, TypeOK, UpdateStep, CancelRun, Dispatch, Finish, Created
<1>1. runs[r] \in RunType
    BY <1>0
<1>2. runs[r].cancel => runs[r].status # "queued"
    BY <1>0 DEF AgentInv, CancelledLeftQueue
<1>3. ASSUME NEW u \in User, NEW admin \in BOOLEAN, CancelRun(u, admin, r)
      PROVE  \E n \in RunType :
             /\ n.user = runs[r].user /\ n.key = runs[r].key
             /\ n.hash = runs[r].hash /\ n.at = runs[r].at
             /\ n.status \in {"running", "cancelled"} /\ n.bound = runs[r].bound
             /\ runs[r].status \in {"queued", "running"}
             /\ ChangeRun(r, n)
  <2>. DEFINE st == IF runs[r].status = "queued" THEN "cancelled" ELSE runs[r].status
              n == [runs[r] EXCEPT !.cancel = TRUE, !.status = st]
  <2>1. /\ ChangeRun(r, [runs[r] EXCEPT !.cancel = TRUE,
                             !.status = IF @ = "queued" THEN "cancelled" ELSE @])
        /\ runs[r].status \in {"queued", "running"}
      BY <1>3 DEF CancelRun
  <2>2. [runs[r] EXCEPT !.cancel = TRUE, !.status = IF @ = "queued" THEN "cancelled" ELSE @] = n
      BY <1>1 DEF RunType
  <2>3. st \in {"running", "cancelled"}
      BY <2>1
  <2>4. /\ n \in RunType /\ n.user = runs[r].user /\ n.key = runs[r].key
        /\ n.hash = runs[r].hash /\ n.at = runs[r].at
        /\ n.status = st /\ n.bound = runs[r].bound
      BY <1>1, <2>3 DEF RunType, Status, Terminal
  <2>5. ChangeRun(r, n)
      BY <2>1, <2>2
  <2>. HIDE DEF n, st
  <2>. QED BY <2>1, <2>3, <2>4, <2>5
<1>4. ASSUME Dispatch(r)
      PROVE  \E n \in RunType :
             /\ n.user = runs[r].user /\ n.key = runs[r].key
             /\ n.hash = runs[r].hash /\ n.at = runs[r].at
             /\ n.status = "running" /\ n.bound /\ runs[r].status = "queued"
             /\ ChangeRun(r, n)
  <2>. DEFINE n == [runs[r] EXCEPT !.status = "running", !.bound = TRUE]
  <2>1. /\ n \in RunType /\ n.user = runs[r].user /\ n.key = runs[r].key
        /\ n.hash = runs[r].hash /\ n.at = runs[r].at
        /\ n.status = "running" /\ n.bound
      BY <1>1 DEF RunType, Status
  <2>2. ChangeRun(r, n) /\ runs[r].status = "queued"
      BY <1>4 DEF Dispatch
  <2>. HIDE DEF n
  <2>. QED BY <2>1, <2>2
<1>5. ASSUME NEW s \in Terminal, Finish(r, s)
      PROVE  \E n \in RunType :
             /\ n.user = runs[r].user /\ n.key = runs[r].key
             /\ n.hash = runs[r].hash /\ n.at = runs[r].at
             /\ n.status \in Terminal /\ n.bound = runs[r].bound /\ runs[r].status \notin Terminal
             /\ n.status = "succeeded" =>
                   \A c \in Claim : claims[c] # None /\ claims[c].run = r => Supported(c)
             /\ ChangeRun(r, n)
  <2>. DEFINE n == [runs[r] EXCEPT !.status = s]
  <2>1. /\ n \in RunType /\ n.user = runs[r].user /\ n.key = runs[r].key
        /\ n.hash = runs[r].hash /\ n.at = runs[r].at
        /\ n.status = s /\ n.bound = runs[r].bound
      BY <1>1 DEF RunType, Status
  <2>2. /\ ChangeRun(r, n) /\ runs[r].status \notin Terminal
        /\ s = "succeeded" =>
              \A c \in Claim : claims[c] # None /\ claims[c].run = r => Supported(c)
      BY <1>5 DEF Finish, ValidTransition, Terminal
  <2>. HIDE DEF n
  <2>. QED BY <2>1, <2>2
<1>6. \A n : ChangeRun(r, n) => runs' = [runs EXCEPT ![r] = n]
    BY DEF ChangeRun
<1>7. {"queued", "running"} \cap Terminal = {} /\ "cancelled" # "queued" /\ "succeeded" \in Terminal
    BY DEF Terminal
<1>8. CASE \E u \in User, admin \in BOOLEAN : CancelRun(u, admin, r)
    BY <1>0, <1>3, <1>6, <1>7, <1>8
<1>9. CASE Dispatch(r)
    BY <1>0, <1>2, <1>4, <1>6, <1>7, <1>9
<1>10. CASE \E s \in Terminal : Finish(r, s)
    BY <1>0, <1>5, <1>6, <1>7, <1>10
<1>. QED BY <1>8, <1>9, <1>10 DEF UpdateStep

\* What a step may do to the stored runs.
Kept(r) ==
    /\ runs'[r] \in RunType
    /\ runs[r].hash = runs'[r].hash /\ runs[r].user = runs'[r].user
    /\ runs[r].at = runs'[r].at /\ runs[r].key = runs'[r].key
    /\ runs[r].status \in Terminal => runs'[r] = runs[r]
    /\ runs[r].bound => runs'[r].bound
    /\ ~runs[r].bound /\ runs'[r].bound => ~runs[r].cancel

\* Every stored run is kept, and at most one run appears.
LEMMA RunsKept ==
    ASSUME AgentInv, [Next]_vars
    PROVE  /\ runs' \in [RunId -> RunType \cup {None}]
           /\ \A r \in Created : Kept(r)
           /\ \E r \in RunId \cup {None} : Created' \subseteq Created \cup {r}
<1>. USE AgentConstants
<1>0. /\ runs \in [RunId -> RunType \cup {None}] /\ Created \subseteq RunId
      /\ \A r \in Created : runs[r] \in RunType
    BY DEF AgentInv, TypeOK, Created
<1>1. CASE runs' = runs
    BY <1>0, <1>1 DEF Kept, Created
<1>2. ASSUME NEW s \in RunId \ Created, NEW n \in RunType, runs' = [runs EXCEPT ![s] = n]
      PROVE  /\ runs' \in [RunId -> RunType \cup {None}]
             /\ \A r \in Created : Kept(r)
             /\ Created' \subseteq Created \cup {s}
    BY <1>0, <1>2 DEF Kept, Created
<1>3. ASSUME NEW s \in RunId, UpdateStep(s)
      PROVE  /\ runs' \in [RunId -> RunType \cup {None}]
             /\ \A r \in Created : Kept(r)
             /\ Created' \subseteq Created
    BY <1>0, <1>3, UpdateShape DEF Kept, Created
<1>4. CASE CreateStep
    BY <1>1, <1>2, <1>4, CreateShape DEF Outcome
<1>5. CASE MoveStep \/ WriteStep \/ ListStep \/ UNCHANGED vars
    BY <1>1, <1>5 DEF MoveStep, WriteStep, ListStep, vars, CompleteIngestion, CompleteIndex,
        ChangeAccess, RetirePrompt, RetireModel, Moved, StartWrite, CommitWrite, StartList, NextPage
<1>. QED BY <1>3, <1>4, <1>5, StepCases

\* Only CreateRun and the updates change the runs or the attempts.
LEMMA RunsSame ==
    ASSUME MoveStep \/ WriteStep \/ ListStep \/ UNCHANGED vars
    PROVE  UNCHANGED <<clock, attempt, runs, raced>>
BY DEF MoveStep, WriteStep, ListStep, vars, CompleteIngestion, CompleteIndex, ChangeAccess,
    RetirePrompt, RetireModel, Moved, StartWrite, CommitWrite, StartList, NextPage

\* Only child writes change the claims.
LEMMA ClaimsSame ==
    ASSUME NEW r \in RunId,
           MoveStep \/ ListStep \/ CreateStep \/ UpdateStep(r) \/ UNCHANGED vars
    PROVE  UNCHANGED <<claims, writes>>
BY DEF MoveStep, ListStep, CreateStep, UpdateStep, vars, CompleteIngestion, CompleteIndex,
    ChangeAccess, RetirePrompt, RetireModel, Moved, StartList, NextPage, ResolveScope,
    ResolveAccess, GetPromptVersion, BeginCreate, CreateRun, Step, CancelRun, Dispatch, Finish,
    ChangeRun

\* A committed child write leaves a claim of its run.
LEMMA CommitShape ==
    ASSUME AgentInv, NEW w \in writes, CommitWrite(w)
    PROVE  \E n \in ClaimType : /\ n.run = w[3] /\ claims' = [claims EXCEPT ![w[1]] = n]
                                /\ w \in Claim \X ChildOp \X RunId
<1>. DEFINE old == claims[w[1]]
<1>1. /\ w \in Claim \X ChildOp \X RunId /\ w[1] \in Claim /\ w[3] \in RunId
      /\ w[2] \in {"insert", "support", "doubt", "cite"}
    BY DEF AgentInv, TypeOK, ChildOp
<1>2. w[2] # "insert" => old \in ClaimType /\ old.run = w[3]
    BY <1>1 DEF AgentInv, TypeOK, WritesGuarded
<1>3. CASE w[2] = "insert"
  <2>. DEFINE n == [run |-> w[3], support |-> "proposed", cited |-> FALSE]
  <2>1. claims' = [claims EXCEPT ![w[1]] = n]
      BY <1>3 DEF CommitWrite
  <2>2. n \in ClaimType /\ n.run = w[3]
      BY <1>1 DEF ClaimType
  <2>. QED BY <1>1, <2>1, <2>2
<1>4. CASE w[2] = "support"
  <2>. DEFINE n == [old EXCEPT !.support = "supported"]
  <2>1. claims' = [claims EXCEPT ![w[1]] = n]
      BY <1>4 DEF CommitWrite
  <2>2. n \in ClaimType /\ n.run = w[3]
      BY <1>2, <1>4 DEF ClaimType
  <2>. QED BY <1>1, <2>1, <2>2
<1>5. CASE w[2] = "doubt"
  <2>. DEFINE n == [old EXCEPT !.support = "conflicted"]
  <2>1. claims' = [claims EXCEPT ![w[1]] = n]
      BY <1>5 DEF CommitWrite
  <2>2. n \in ClaimType /\ n.run = w[3]
      BY <1>2, <1>5 DEF ClaimType
  <2>. QED BY <1>1, <2>1, <2>2
<1>6. CASE w[2] = "cite"
  <2>. DEFINE n == [old EXCEPT !.cited = TRUE]
  <2>1. claims' = [claims EXCEPT ![w[1]] = n]
      BY <1>6 DEF CommitWrite
  <2>2. n \in ClaimType /\ n.run = w[3]
      BY <1>2, <1>6 DEF ClaimType
  <2>. QED BY <1>1, <2>1, <2>2
<1>. QED BY <1>1, <1>3, <1>4, <1>5, <1>6

-----------------------------------------------------------------------------
(* Replay under an idempotency key *)

LEMMA AttemptsNext ==
    ASSUME AgentInv, [Next]_vars PROVE AttemptsAnswered'
<1>1. \A r \in Created : Kept(r) /\ r \in Created'
    BY RunsKept, AgentConstants DEF Kept, Created
<1>2. ASSUME NEW a \in Attempt, attempt'[a] = attempt[a]
      PROVE  LET t == attempt'[a] IN
        /\ t.pc # "idle" => t.form \in Form
        /\ t.pc \in {"access", "prompt", "begin", "insert"} => t.ingestion \in 1..MaxIngest
        /\ t.pc \in {"prompt", "begin", "insert"} => t.access \in {"public", "member"}
        /\ t.pc \in {"created", "replayed"} =>
              /\ t.run \in Created'
              /\ runs'[t.run].user = t.form.user /\ runs'[t.run].key = t.form.key
              /\ runs'[t.run].hash = RequestHash(t)
    BY <1>1, <1>2 DEF AgentInv, AttemptsAnswered, Kept
<1>3. CASE attempt' = attempt
    BY <1>2, <1>3 DEF AttemptsAnswered, RequestHash, RetrievalContract
<1>4. CASE CreateStep
  <2>1. PICK a \in Attempt, t \in AttemptType :
             /\ attempt' = [attempt EXCEPT ![a] = t]
             /\ t.pc # "idle" /\ t.form \in Form
             /\ t.pc \in {"access", "prompt", "begin", "insert"} => t.ingestion \in 1..MaxIngest
             /\ t.pc \in {"prompt", "begin", "insert"} => t.access \in {"public", "member"}
             /\ Outcome(t)
      BY <1>4, CreateShape
  <2>2. /\ attempt \in [Attempt -> AttemptType] /\ runs \in [RunId -> RunType \cup {None}]
        /\ None \notin RunType
      BY AgentConstants DEF AgentInv, TypeOK
  <2>3. attempt'[a] = t /\ \A b \in Attempt \ {a} : attempt'[b] = attempt[b]
      BY <2>1, <2>2
  <2>4. t.pc \in {"created", "replayed"} =>
              /\ t.run \in Created'
              /\ runs'[t.run].user = t.form.user /\ runs'[t.run].key = t.form.key
              /\ runs'[t.run].hash = RequestHash(t)
      BY <2>1, <2>2 DEF Outcome, Created, NewRun
  <2>. QED BY <1>2, <2>1, <2>3, <2>4 DEF AttemptsAnswered, RequestHash, RetrievalContract
<1>5. ASSUME NEW r \in RunId, UpdateStep(r) PROVE attempt' = attempt
    BY <1>5 DEF UpdateStep, CancelRun, Dispatch, Finish, ChangeRun
<1>. QED BY <1>3, <1>4, <1>5, RunsSame, StepCases

LEMMA KeysNext ==
    ASSUME AgentInv, [Next]_vars PROVE KeysUnique' /\ CancelledLeftQueue'
<1>0. /\ runs \in [RunId -> RunType \cup {None}] /\ None \notin RunType
      /\ KeysUnique /\ CancelledLeftQueue
    BY AgentConstants DEF AgentInv, TypeOK
<1>1. CASE runs' = runs
    BY <1>0, <1>1 DEF KeysUnique, CancelledLeftQueue, Created
<1>2. ASSUME NEW r \in RunId, UpdateStep(r) PROVE KeysUnique' /\ CancelledLeftQueue'
  <2>1. PICK n \in RunType : 
             /\ r \in Created /\ runs' = [runs EXCEPT ![r] = n]
             /\ n.user = runs[r].user /\ n.key = runs[r].key
             /\ n.cancel => n.status # "queued"
      BY <1>2, UpdateShape
  <2>2. \A q \in Created' : q \in Created /\ runs'[q].user = runs[q].user /\ runs'[q].key = runs[q].key
      BY <1>0, <2>1 DEF Created
  <2>3. KeysUnique'
      BY <1>0, <2>2 DEF KeysUnique
  <2>4. CancelledLeftQueue'
      BY <1>0, <2>1, <2>2 DEF CancelledLeftQueue, Created
  <2>. QED BY <2>3, <2>4
<1>3. ASSUME NEW t \in AttemptType, t.run \in RunId \ Created, NewRun(t) \in RunType,
             runs' = [runs EXCEPT ![t.run] = NewRun(t)],
             t.form.key = NoKey \/ Existing(t.form.user, t.form.key) = {}
      PROVE  KeysUnique' /\ CancelledLeftQueue'
  <2>. DEFINE n == t.run
  <2>1. /\ runs'[n].user = t.form.user /\ runs'[n].key = t.form.key /\ runs'[n].cancel = FALSE
        /\ \A q \in Created' \ {n} : q \in Created /\ runs'[q] = runs[q]
      BY <1>0, <1>3 DEF Created, NewRun
  <2>2. \A q \in Created : runs[q].user = t.form.user /\ runs[q].key = t.form.key => t.form.key = NoKey
      BY <1>3 DEF Existing, Created
  <2>. HIDE DEF n
  <2>3. KeysUnique'
      BY <1>0, <2>1, <2>2 DEF KeysUnique
  <2>4. CancelledLeftQueue'
      BY <1>0, <2>1 DEF CancelledLeftQueue
  <2>. QED BY <2>3, <2>4
<1>4. CASE CreateStep
    BY <1>1, <1>3, <1>4, CreateShape DEF Outcome
<1>. QED BY <1>1, <1>2, <1>4, RunsSame, StepCases

-----------------------------------------------------------------------------
(* Child writes and supported claims *)

LEMMA WritesNext ==
    ASSUME AgentInv, [Next]_vars PROVE WritesGuarded' /\ SupportedUnlessRaced'
<1>0. /\ runs \in [RunId -> RunType \cup {None}] /\ None \notin RunType \cup ClaimType
      /\ claims \in [Claim -> ClaimType \cup {None}]
      /\ writes \subseteq Claim \X ChildOp \X RunId
      /\ WritesGuarded /\ SupportedUnlessRaced
    BY AgentConstants DEF AgentInv, TypeOK, ChildOp
<1>1. CASE UNCHANGED <<runs, claims, writes, raced>>
    BY <1>0, <1>1 DEF WritesGuarded, SupportedUnlessRaced, Supported, Created
<1>2. CASE CreateStep
  <2>1. UNCHANGED <<claims, writes, raced>>
      BY <1>2, CreateShape
  <2>2. ASSUME NEW r \in RunId, runs'[r] # None, runs'[r].status \in Terminal
        PROVE  runs[r] = runs'[r]
    <3>1. PICK t \in AttemptType : Outcome(t)
        BY <1>2, CreateShape
    <3>2. NewRun(t).status = "queued" /\ "queued" \notin Terminal
        BY DEF NewRun, Terminal
    <3>. QED BY <1>0, <2>2, <3>1, <3>2 DEF Outcome
  <2>3. "succeeded" \in Terminal
      BY DEF Terminal
  <2>. QED BY <1>0, <2>1, <2>2, <2>3 DEF WritesGuarded, SupportedUnlessRaced, Supported, Created
<1>3. ASSUME NEW r \in RunId, UpdateStep(r) PROVE WritesGuarded' /\ SupportedUnlessRaced'
  <2>1. PICK n \in RunType :
             /\ r \in Created /\ runs' = [runs EXCEPT ![r] = n]
             /\ n.status = "succeeded" =>
                   \A c \in Claim : claims[c] # None /\ claims[c].run = r => Supported(c)
             /\ ChangeRun(r, n)
      BY <1>3, UpdateShape
  <2>2. /\ UNCHANGED <<claims, writes>> /\ raced \subseteq raced'
        /\ n.status \in Terminal /\ r \notin raced' => \A w \in writes : w[3] # r
      BY <2>1 DEF ChangeRun
  <2>3. runs'[r] = n /\ \A q \in RunId \ {r} : runs'[q] = runs[q]
      BY <1>0, <2>1
  <2>4. WritesGuarded'
      BY <1>0, <2>2, <2>3 DEF WritesGuarded, Created
  <2>5. SupportedUnlessRaced'
      BY <1>0, <2>1, <2>2, <2>3 DEF SupportedUnlessRaced, Supported
  <2>. QED BY <2>4, <2>5
<1>4. ASSUME NEW c \in Claim, NEW op \in ChildOp, NEW r \in RunId, StartWrite(c, op, r)
      PROVE  WritesGuarded' /\ SupportedUnlessRaced'
  <2>1. UNCHANGED <<runs, claims, raced>> /\ writes' = writes \cup {<<c, op, r>>}
      BY <1>4 DEF StartWrite
  <2>2. SupportedUnlessRaced'
      BY <1>0, <2>1 DEF SupportedUnlessRaced, Supported
  <2>3. \A v, w \in writes' : v[1] = w[1] => v = w
      BY <1>0, <1>4, <2>1 DEF WritesGuarded, StartWrite
  <2>4. \A w \in writes' : IF w[2] = "insert" THEN claims[w[1]] = None
                           ELSE claims[w[1]] # None /\ claims[w[1]].run = w[3]
    <3>. SUFFICES ASSUME NEW w \in writes'
                  PROVE  IF w[2] = "insert" THEN claims[w[1]] = None
                         ELSE claims[w[1]] # None /\ claims[w[1]].run = w[3]
        OBVIOUS
    <3>1. CASE w \in writes
        BY <1>0, <3>1 DEF WritesGuarded
    <3>2. CASE w = <<c, op, r>>
        BY <1>4, <3>2 DEF StartWrite
    <3>. QED BY <2>1, <3>1, <3>2
  <2>5. \A q \in Created \ raced : runs[q].status \in Terminal => \A w \in writes' : w[3] # q
      BY <1>0, <1>4, <2>1 DEF WritesGuarded, StartWrite
  <2>. QED BY <2>1, <2>2, <2>3, <2>4, <2>5 DEF WritesGuarded, Created
<1>5. ASSUME NEW w \in writes, CommitWrite(w) PROVE WritesGuarded' /\ SupportedUnlessRaced'
  <2>1. PICK n \in ClaimType : /\ n.run = w[3] /\ claims' = [claims EXCEPT ![w[1]] = n]
                               /\ w \in Claim \X ChildOp \X RunId
      BY <1>5, CommitShape
  <2>2. UNCHANGED <<runs, raced>> /\ writes' = writes \ {w}
      BY <1>5 DEF CommitWrite
  <2>3. \A v \in writes' : v[1] # w[1] /\ v[1] \in Claim
      BY <1>0, <2>2 DEF WritesGuarded
  <2>4. /\ claims'[w[1]] = n /\ w[1] \in Claim
        /\ \A c \in Claim \ {w[1]} : claims'[c] = claims[c]
      BY <1>0, <2>1
  <2>5. WritesGuarded'
      BY <1>0, <2>2, <2>3, <2>4 DEF WritesGuarded, Created
  <2>6. ASSUME NEW r \in RunId \ raced, runs[r] # None, runs[r].status = "succeeded",
               NEW c \in Claim, claims'[c] # None, claims'[c].run = r
        PROVE  Supported(c)'
    <3>1. w[3] # r
        BY <1>0, <2>6 DEF WritesGuarded, Created, Terminal
    <3>2. claims'[c] = claims[c]
        BY <2>1, <2>4, <2>6, <3>1
    <3>3. Supported(c)
        BY <1>0, <2>6, <3>2 DEF SupportedUnlessRaced
    <3>. QED BY <3>2, <3>3 DEF Supported
  <2>7. SupportedUnlessRaced'
      BY <2>2, <2>6 DEF SupportedUnlessRaced
  <2>. QED BY <2>5, <2>7
<1>6. CASE \/ MoveStep \/ ListStep \/ UNCHANGED vars
    BY <1>1, <1>6, RunsSame DEF MoveStep, ListStep, vars, CompleteIngestion, CompleteIndex,
        ChangeAccess, RetirePrompt, RetireModel, Moved, StartList, NextPage
<1>. QED BY <1>2, <1>3, <1>4, <1>5, <1>6, StepCases DEF WriteStep

-----------------------------------------------------------------------------
(* Pages *)

\* A finite set has a minimal element under any strict order.
LEMMA MinimalExists ==
    ASSUME NEW S, IsFiniteSet(S), S # {}, NEW R,
           \A x \in S : <<x, x>> \notin R,
           \A x, y, z \in S : <<x, y>> \in R /\ <<y, z>> \in R => <<x, z>> \in R
    PROVE  \E x \in S : \A y \in S : <<y, x>> \notin R
<1>. DEFINE Below(x) == {y \in S : <<y, x>> \in R}
            T == {Cardinality(Below(x)) : x \in S}
<1>1. \A x \in S : IsFiniteSet(Below(x)) /\ Cardinality(Below(x)) \in Nat
  <2>. TAKE x \in S
  <2>1. Below(x) \in SUBSET S
      OBVIOUS
  <2>. HIDE DEF Below
  <2>. QED BY <2>1, FS_Subset, FS_CardinalityType
<1>2. T \subseteq Nat /\ T # {}
  <2>. HIDE DEF Below
  <2>. QED BY <1>1
<1>3. PICK n \in T : \A m \in T : ~(<<m, n>> \in OpToRel(<, Nat))
  <2>. HIDE DEF T
  <2>. QED BY <1>2, NatLessThanWellFounded, WFMin, Zenon
<1>4. \A m \in T : ~(m < n)
    BY <1>2, <1>3, Zenon DEF OpToRel
<1>5. PICK x \in S : n = Cardinality(Below(x))
    OBVIOUS
<1>6. ASSUME NEW y \in S, <<y, x>> \in R PROVE FALSE
  <2>1. Below(y) \in SUBSET Below(x) /\ y \in Below(x) /\ y \notin Below(y)
      BY <1>6
  <2>. HIDE DEF Below
  <2>2. Cardinality(Below(y)) <= Cardinality(Below(x)) /\ Cardinality(Below(y)) # Cardinality(Below(x))
      BY <1>1, <2>1, FS_Subset
  <2>3. Cardinality(Below(y)) < Cardinality(Below(x))
      BY <1>1, <2>2
  <2>. QED BY <1>4, <1>5, <2>3
<1>. QED BY <1>6

\* (created_at, id) orders the stored runs strictly and totally.
LEMMA BeforeOrder ==
    ASSUME TypeOK
    PROVE  /\ Created \subseteq Nat /\ \A r \in Created : runs[r].at \in Nat
           /\ \A r \in Created : ~Before(r, runs[r].at, r)
           /\ \A q, r \in Created : q # r => Before(q, runs[r].at, r) \/ Before(r, runs[q].at, q)
           /\ \A q, r \in Created, at, id \in Nat :
                 Before(q, runs[r].at, r) /\ Before(r, at, id) => Before(q, at, id)
<1>1. Created \subseteq Nat /\ \A r \in Created : runs[r].at \in Nat
    BY AgentConstants DEF TypeOK, RunType, Created
<1>2. \A r \in Created : ~Before(r, runs[r].at, r)
    BY <1>1 DEF Before
<1>3. \A q, r \in Created : q # r => Before(q, runs[r].at, r) \/ Before(r, runs[q].at, q)
    BY <1>1 DEF Before
<1>4. ASSUME NEW q \in Created, NEW r \in Created, NEW at \in Nat, NEW id \in Nat,
             Before(q, runs[r].at, r), Before(r, at, id)
      PROVE  Before(q, at, id)
  <2>1. q \in Nat /\ r \in Nat /\ runs[q].at \in Nat /\ runs[r].at \in Nat
      BY <1>1
  <2>. QED BY <1>4, <2>1 DEF Before
<1>. QED BY <1>1, <1>2, <1>3, <1>4

\* A non-empty finite set of stored runs has a newest and an oldest one.
LEMMA ExtremesExist ==
    ASSUME TypeOK, NEW S \in SUBSET Created, IsFiniteSet(S), S # {}
    PROVE  /\ \E r \in S : \A q \in S : ~Before(r, runs[q].at, q)
           /\ \E r \in S : \A q \in S : q = r \/ Before(r, runs[q].at, q)
<1>0. \A p, q, r \in S : Before(p, runs[q].at, q) /\ Before(q, runs[r].at, r) => Before(p, runs[r].at, r)
    BY BeforeOrder
<1>1. \A r \in S : ~Before(r, runs[r].at, r)
    BY BeforeOrder
<1>2. \E r \in S : \A q \in S : ~Before(r, runs[q].at, q)
  <2>. DEFINE R == {p \in S \X S : Before(p[2], runs[p[1]].at, p[1])}
  <2>1. \A q, r \in S : <<q, r>> \in R <=> Before(r, runs[q].at, q)
      OBVIOUS
  <2>. HIDE DEF R
  <2>2. \E r \in S : \A q \in S : <<q, r>> \notin R
    <3>1. \A x \in S : <<x, x>> \notin R
        BY <1>1, <2>1
    <3>2. \A x, y, z \in S : <<x, y>> \in R /\ <<y, z>> \in R => <<x, z>> \in R
        BY <1>0, <2>1
    <3>. QED BY <3>1, <3>2, MinimalExists
  <2>. QED BY <2>1, <2>2
<1>3. \E r \in S : \A q \in S : ~Before(q, runs[r].at, r)
  <2>. DEFINE R == {p \in S \X S : Before(p[1], runs[p[2]].at, p[2])}
  <2>1. \A q, r \in S : <<q, r>> \in R <=> Before(q, runs[r].at, r)
      OBVIOUS
  <2>. HIDE DEF R
  <2>2. \E r \in S : \A q \in S : <<q, r>> \notin R
    <3>1. \A x \in S : <<x, x>> \notin R
        BY <1>1, <2>1
    <3>2. \A x, y, z \in S : <<x, y>> \in R /\ <<y, z>> \in R => <<x, z>> \in R
        BY <1>0, <2>1
    <3>. QED BY <3>1, <3>2, MinimalExists
  <2>. QED BY <2>1, <2>2
<1>. QED BY <1>2, <1>3, BeforeOrder

\* The runs of rest that are newer than r, and the page NextPage reads of rest.
Newer(rest, r) == {q \in rest : Before(r, runs[q].at, q)}
PageOf(rest) == {r \in rest : Cardinality(Newer(rest, r)) < PageLimit}

\* A page is empty only if there is nothing to read, and what it leaves is older than
\* everything on it.
LEMMA PageIsNewest ==
    ASSUME TypeOK, NEW rest \in SUBSET Created, IsFiniteSet(rest), rest # {}
    PROVE  /\ PageOf(rest) # {} /\ PageOf(rest) \subseteq rest /\ IsFiniteSet(PageOf(rest))
           /\ \A r \in PageOf(rest), q \in rest \ PageOf(rest) : Before(q, runs[r].at, r)
<1>1. \A r \in rest : IsFiniteSet(Newer(rest, r)) /\ Cardinality(Newer(rest, r)) \in Nat
  <2>. TAKE r \in rest
  <2>1. Newer(rest, r) \in SUBSET rest
      BY DEF Newer
  <2>. QED BY <2>1, FS_Subset, FS_CardinalityType
<1>2. PageOf(rest) \in SUBSET rest
    BY DEF PageOf
<1>3. PageOf(rest) # {}
  <2>1. PICK r \in rest : \A q \in rest : ~Before(r, runs[q].at, q)
      BY ExtremesExist
  <2>2. Newer(rest, r) = {}
      BY <2>1 DEF Newer
  <2>3. Cardinality(Newer(rest, r)) < PageLimit
      BY <2>2, FS_EmptySet, AgentConstants
  <2>. QED BY <2>3 DEF PageOf
<1>4. ASSUME NEW r \in PageOf(rest), NEW q \in rest \ PageOf(rest), ~Before(q, runs[r].at, r)
      PROVE  FALSE
  <2>1. r \in rest /\ r # q /\ Before(r, runs[q].at, q)
      BY <1>2, <1>4, BeforeOrder
  <2>2. Newer(rest, q) \in SUBSET Newer(rest, r)
    <3>. SUFFICES ASSUME NEW x \in rest, Before(q, runs[x].at, x) PROVE Before(r, runs[x].at, x)
        BY DEF Newer
    <3>. QED BY <2>1, BeforeOrder
  <2>3. Cardinality(Newer(rest, q)) <= Cardinality(Newer(rest, r))
      BY <1>1, <2>1, <2>2, FS_Subset
  <2>4. Cardinality(Newer(rest, r)) < PageLimit
      BY DEF PageOf
  <2>5. Cardinality(Newer(rest, q)) < PageLimit
      BY <1>1, <2>1, <2>3, <2>4, AgentConstants
  <2>. QED BY <2>5 DEF PageOf
<1>. QED BY <1>2, <1>3, <1>4, FS_Subset

\* The last row of a page is its oldest.
LEMMA LastIsOldest ==
    ASSUME TypeOK, NEW page \in SUBSET Created, IsFiniteSet(page), page # {}
    PROVE  /\ LastOf(page) \in page
           /\ \A q \in page : q = LastOf(page) \/ Before(LastOf(page), runs[q].at, q)
<1>1. \E r \in page : \A q \in page : q = r \/ Before(r, runs[q].at, q)
    BY ExtremesExist
<1>. QED BY <1>1 DEF LastOf

\* The cursor splits the runs of the first page also when it moves.
LEMMA PageNext ==
    ASSUME AgentInv, NextPage PROVE CursorSplits' /\ list' \in ListType
<1>. DEFINE rest == AfterCursor
            page == PageOf(rest)
            last == LastOf(page)
            base == IF list.shown = 0 THEN Visible ELSE list.base
            seen == list.seen \cup page
<1>0. TypeOK /\ CursorSplits /\ list \in ListType /\ list.at \in Nat /\ list.id \in Nat
    BY DEF AgentInv, TypeOK, ListType
<1>1. /\ list.pc = "paging" /\ UNCHANGED runs
      /\ list' = [list EXCEPT !.seen = seen, !.shown = list.shown + Cardinality(page),
                             !.base = base,
                             !.pc = IF page = rest THEN "done" ELSE "paging",
                             !.at = IF page = rest THEN list.at ELSE runs[last].at,
                             !.id = IF page = rest THEN list.id ELSE last]
    BY <1>0 DEF NextPage, PageOf, Newer, ListType
<1>2. Visible \in SUBSET Created /\ rest \in SUBSET Visible /\ IsFiniteSet(Visible) /\ IsFiniteSet(rest)
  <2>1. Visible \in SUBSET Created /\ rest \in SUBSET Visible
      BY DEF Visible, Created, AfterCursor
  <2>. HIDE DEF rest
  <2>. QED BY <1>0, <2>1, FS_Subset DEF CursorSplits
<1>3. \A r \in rest : list.shown = 0 \/ Before(r, list.at, list.id)
    BY DEF AfterCursor
<1>4. list.seen \in SUBSET Visible /\ IsFiniteSet(list.seen) /\ list.base \in SUBSET Visible
    BY <1>0, <1>2, FS_Subset DEF CursorSplits
<1>5. list.shown = 0 => list.seen = {}
    BY <1>0, <1>4, FS_EmptySet DEF CursorSplits
<1>6. base \in SUBSET Visible /\ base \ list.seen \subseteq rest
  <2>1. CASE list.shown = 0
      BY <2>1 DEF AfterCursor
  <2>2. CASE list.shown # 0
      BY <1>0, <1>1, <1>4, <2>2 DEF CursorSplits, AfterCursor
  <2>. QED BY <2>1, <2>2
<1>7. page \in SUBSET rest /\ IsFiniteSet(page)
  <2>1. page \in SUBSET rest
      BY DEF PageOf
  <2>. HIDE DEF page, rest
  <2>. QED BY <1>2, <2>1, FS_Subset
<1>. HIDE DEF rest, page, last, base
<1>8. list.seen \cap page = {}
    BY <1>0, <1>1, <1>3, <1>5, <1>7 DEF CursorSplits
<1>9. /\ Cardinality(page) \in Nat /\ Cardinality(list.seen) \in Nat
      /\ Cardinality(seen) = list.shown + Cardinality(page)
  <2>1. Cardinality(page) \in Nat /\ Cardinality(list.seen) \in Nat
      BY <1>4, <1>7, FS_CardinalityType
  <2>2. Cardinality(list.seen \cup page) =
            Cardinality(list.seen) + Cardinality(page) - Cardinality(list.seen \cap page)
      BY <1>4, <1>7, FS_Union
  <2>3. Cardinality(list.seen \cap page) = 0
      BY <1>8, FS_EmptySet
  <2>. QED BY <1>0, <2>1, <2>2, <2>3 DEF CursorSplits
<1>10. seen \in SUBSET Visible /\ Visible \subseteq RunId
    BY <1>2, <1>4, <1>7 DEF Visible
<1>11. ASSUME page # rest
       PROVE  /\ last \in page /\ last \in Nat /\ runs[last].at \in Nat
              /\ list.shown + Cardinality(page) # 0
              /\ \A r \in seen : ~Before(r, runs[last].at, last)
              /\ \A r \in base \ seen : Before(r, runs[last].at, last)
  <2>1. /\ page # {} /\ page \in SUBSET Created
        /\ \A r \in page, q \in rest \ page : Before(q, runs[r].at, r)
    <3>1. rest # {} /\ rest \in SUBSET Created
        BY <1>2, <1>7, <1>11
    <3>. QED BY <1>0, <1>2, <1>7, <3>1, PageIsNewest DEF page
  <2>2. last \in page /\ \A q \in page : q = last \/ Before(last, runs[q].at, q)
      BY <1>0, <1>7, <2>1, LastIsOldest DEF last
  <2>3. last \in Created /\ last \in Nat /\ runs[last].at \in Nat
      BY <1>0, <2>1, <2>2, BeforeOrder
  <2>4. Cardinality(page) # 0
      BY <1>7, <2>1, FS_EmptySet
  <2>5. ASSUME NEW r \in page PROVE ~Before(r, runs[last].at, last)
    <3>1. r \in Created /\ r \in Nat /\ runs[r].at \in Nat
        BY <1>0, <2>1, BeforeOrder
    <3>2. Before(r, runs[last].at, last) /\ Before(last, runs[r].at, r) => Before(r, runs[r].at, r)
        BY <1>0, <2>3, <3>1, BeforeOrder
    <3>3. ~Before(r, runs[r].at, r)
        BY <1>0, <3>1, BeforeOrder
    <3>. QED BY <2>2, <3>2, <3>3
  <2>6. ASSUME NEW r \in list.seen PROVE ~Before(r, runs[last].at, last)
    <3>1. list.shown # 0
        BY <1>5
    <3>2. ~Before(r, list.at, list.id) /\ Before(last, list.at, list.id)
        BY <1>0, <1>1, <1>3, <1>7, <2>2, <3>1 DEF CursorSplits
    <3>3. r \in Created
        BY <1>2, <1>4
    <3>. QED BY <1>0, <2>3, <3>2, <3>3, BeforeOrder
  <2>7. \A r \in base \ seen : Before(r, runs[last].at, last)
      BY <1>6, <2>1, <2>2
  <2>8. list.shown + Cardinality(page) # 0
      BY <1>0, <1>9, <2>4 DEF ListType
  <2>9. \A r \in seen : ~Before(r, runs[last].at, last)
      BY <2>5, <2>6
  <2>. QED BY <2>2, <2>3, <2>7, <2>8, <2>9
<1>12. page = rest => base \subseteq seen
    BY <1>6
<1>13. /\ list'.seen = seen /\ list'.base = base /\ list'.user = list.user /\ list'.admin = list.admin
       /\ list'.shown = list.shown + Cardinality(page)
       /\ list'.pc = IF page = rest THEN "done" ELSE "paging"
       /\ list'.at = IF page = rest THEN list.at ELSE runs[last].at
       /\ list'.id = IF page = rest THEN list.id ELSE last
       /\ list' \in ListType
  <2>. DEFINE pc == IF page = rest THEN "done" ELSE "paging"
              at == IF page = rest THEN list.at ELSE runs[last].at
              id == IF page = rest THEN list.id ELSE last
              shown == list.shown + Cardinality(page)
  <2>1. pc \in {"done", "paging"} /\ at \in Nat /\ id \in Nat
      BY <1>0, <1>11
  <2>2. seen \in SUBSET RunId /\ base \in SUBSET RunId /\ shown \in Nat
      BY <1>0, <1>6, <1>9, <1>10 DEF ListType
  <2>3. list' = [list EXCEPT !.seen = seen, !.shown = shown, !.base = base,
                             !.pc = pc, !.at = at, !.id = id]
      BY <1>1
  <2>. HIDE DEF seen, pc, at, id, shown
  <2>4. /\ list'.seen = seen /\ list'.base = base /\ list'.user = list.user
        /\ list'.admin = list.admin /\ list'.shown = shown /\ list'.pc = pc
        /\ list'.at = at /\ list'.id = id /\ list' \in ListType
      BY <1>0, <2>1, <2>2, <2>3 DEF ListType
  <2>. QED BY <2>4 DEF pc, at, id, shown
<1>14. Created' = Created /\ Visible' = Visible
    BY <1>1, <1>13 DEF Created, Visible
<1>15. \A r, at, id : Before(r, at, id)' <=> Before(r, at, id)
    BY <1>1 DEF Before
<1>. HIDE DEF seen
<1>16. CASE page = rest
    BY <1>0, <1>6, <1>9, <1>10, <1>12, <1>13, <1>14, <1>16 DEF CursorSplits
<1>17. CASE page # rest
  <2>1. /\ list'.pc = "paging" /\ list'.at = runs[last].at /\ list'.id = last
      BY <1>13, <1>17
  <2>2. /\ \A r \in seen : ~(Before(r, list.at, list.id)')
        /\ \A r \in base \ seen : Before(r, list.at, list.id)'
      BY <1>1, <1>11, <1>17, <2>1 DEF Before
  <2>3. list'.shown = Cardinality(list'.seen) /\ list'.seen \cup list'.base \subseteq Visible'
        /\ IsFiniteSet(Created')
      BY <1>0, <1>6, <1>9, <1>10, <1>13, <1>14 DEF CursorSplits
  <2>. QED BY <1>13, <2>1, <2>2, <2>3 DEF CursorSplits
<1>. QED BY <1>13, <1>16, <1>17

LEMMA CursorNext ==
    ASSUME AgentInv, [Next]_vars PROVE CursorSplits' /\ list' \in ListType
<1>0. TypeOK /\ CursorSplits /\ list \in ListType
    BY DEF AgentInv, TypeOK
<1>1. IsFiniteSet(Created')
  <2>1. PICK r \in RunId \cup {None} : Created' \subseteq Created \cup {r}
      BY RunsKept
  <2>2. IsFiniteSet(Created \cup {r})
      BY <1>0, FS_AddElement DEF CursorSplits
  <2>. QED BY <2>1, <2>2, FS_Subset
<1>2. \A r \in Created : r \in Created' /\ runs'[r].user = runs[r].user /\ runs'[r].at = runs[r].at
    BY RunsKept, AgentConstants DEF Kept, Created
<1>3. CASE list' = list
  <2>1. Visible \subseteq Created /\ \A r \in Visible : r \in Visible' /\ runs'[r].at = runs[r].at
      BY <1>2, <1>3 DEF Visible, Created
  <2>2. list.seen \cup list.base \subseteq Visible
      BY <1>0 DEF CursorSplits
  <2>3. \A r \in list.seen \cup list.base :
            (Before(r, list.at, list.id)') <=> Before(r, list.at, list.id)
      BY <1>3, <2>1, <2>2 DEF Before
  <2>. QED BY <1>0, <1>1, <1>3, <2>1, <2>2, <2>3 DEF CursorSplits
<1>4. ASSUME NEW u \in User, NEW admin \in BOOLEAN, StartList(u, admin)
      PROVE  CursorSplits' /\ list' \in ListType
  <2>1. /\ list.pc = "idle" /\ list.seen = {} /\ list.shown = 0
        /\ list' = [list EXCEPT !.pc = "paging", !.user = u, !.admin = admin] /\ runs' = runs
    <3>1. list.pc = "idle" /\ list.seen = {} /\ list.shown = Cardinality(list.seen)
        BY <1>0, <1>4 DEF StartList, CursorSplits
    <3>. QED BY <1>4, <3>1, FS_EmptySet DEF StartList
  <2>2. /\ list'.pc = "paging" /\ list'.seen = {} /\ list'.shown = 0 /\ list'.base = list.base
        /\ list' \in ListType
      BY <1>0, <2>1 DEF ListType
  <2>3. list.base = {}
      BY <1>0, <2>1 DEF CursorSplits
  <2>. QED BY <1>1, <2>2, <2>3, FS_EmptySet DEF CursorSplits
<1>5. CASE ListStep
    BY <1>4, <1>5, PageNext DEF ListStep
<1>6. CASE MoveStep \/ WriteStep \/ UNCHANGED vars
    BY <1>3, <1>6, <1>0 DEF MoveStep, WriteStep, vars, CompleteIngestion, CompleteIndex, ChangeAccess,
        RetirePrompt, RetireModel, Moved, StartWrite, CommitWrite
<1>7. CASE CreateStep
    BY <1>0, <1>3, <1>7, CreateShape
<1>8. ASSUME NEW r \in RunId, UpdateStep(r) PROVE CursorSplits' /\ list' \in ListType
    BY <1>0, <1>3, <1>8 DEF UpdateStep, CancelRun, Dispatch, Finish, ChangeRun
<1>. QED BY <1>5, <1>6, <1>7, <1>8, StepCases

-----------------------------------------------------------------------------
(* The inductive invariant and the properties *)

LEMMA TypeNext ==
    ASSUME AgentInv, [Next]_vars PROVE TypeOK'
<1>. USE AgentConstants
<1>0. TypeOK
    BY DEF AgentInv
<1>1. list' \in ListType /\ runs' \in [RunId -> RunType \cup {None}]
    BY RunsKept, CursorNext
<1>2. CASE MoveStep
  <2>1. left' \in [moves : Nat, updates : Nat, writes : Nat, lists : Nat]
    <3>1. Moved
        BY <1>2 DEF MoveStep, CompleteIngestion, CompleteIndex, ChangeAccess,
            RetirePrompt, RetireModel
    <3>. QED BY <1>0, <3>1 DEF Moved, TypeOK
  <2>2. UNCHANGED <<clock, attempt, claims, writes, raced>>
      BY <1>2 DEF MoveStep, CompleteIngestion, CompleteIndex, ChangeAccess,
          RetirePrompt, RetireModel, Moved
  <2>3. /\ completed' \in 0..MaxIngest /\ indexed' \subseteq (1..MaxIngest) \X Index
        /\ access' \in [User -> {"none", "public", "member"}]
        /\ prompt' \in {"frozen", "retired"} /\ model' \in {"frozen", "retired"}
    <3>1. CASE CompleteIngestion
        BY <1>0, <3>1 DEF CompleteIngestion, TypeOK
    <3>2. ASSUME NEW i \in 1..MaxIngest, NEW x \in Index, CompleteIndex(i, x)
          PROVE  /\ indexed' \subseteq (1..MaxIngest) \X Index
                 /\ UNCHANGED <<completed, access, prompt, model>>
        BY <1>0, <3>2 DEF CompleteIndex, TypeOK
    <3>3. CASE \E u \in User, x \in {"none", "public", "member"} : ChangeAccess(u, x)
        BY <1>0, <3>3 DEF ChangeAccess, TypeOK
    <3>4. CASE RetirePrompt \/ RetireModel
        BY <1>0, <3>4 DEF RetirePrompt, RetireModel, TypeOK
    <3>. QED BY <1>0, <1>2, <3>1, <3>2, <3>3, <3>4 DEF MoveStep, TypeOK
  <2>. QED BY <1>0, <1>1, <2>1, <2>2, <2>3 DEF TypeOK
<1>3. CASE CreateStep
  <2>1. PICK a \in Attempt, t \in AttemptType :
             /\ attempt' = [attempt EXCEPT ![a] = t] /\ clock' \in Nat
             /\ UNCHANGED <<scopeVars, left, claims, writes, list, raced>>
      BY <1>3, CreateShape
  <2>2. attempt' \in [Attempt -> AttemptType]
      BY <1>0, <2>1 DEF TypeOK
  <2>. QED BY <1>0, <1>1, <2>1, <2>2 DEF TypeOK, scopeVars
<1>4. ASSUME NEW r \in RunId, UpdateStep(r) PROVE TypeOK'
  <2>1. /\ UNCHANGED <<scopeVars, clock, attempt, claims, writes>>
        /\ left' \in [moves : Nat, updates : Nat, writes : Nat, lists : Nat]
        /\ raced' \subseteq RunId
      BY <1>0, <1>4, UpdateShape DEF ChangeRun, TypeOK
  <2>. QED BY <1>0, <1>1, <2>1 DEF TypeOK, scopeVars
<1>5. ASSUME NEW c \in Claim, NEW op \in ChildOp, NEW r \in RunId, StartWrite(c, op, r)
      PROVE  TypeOK'
  <2>1. /\ left' \in [moves : Nat, updates : Nat, writes : Nat, lists : Nat]
        /\ writes' \subseteq Claim \X {"insert", "support", "doubt", "cite"} \X RunId
        /\ UNCHANGED <<scopeVars, clock, attempt, claims, raced>>
      BY <1>0, <1>5 DEF StartWrite, TypeOK, ChildOp
  <2>. QED BY <1>0, <1>1, <2>1 DEF TypeOK, scopeVars
<1>6. ASSUME NEW w \in writes, CommitWrite(w) PROVE TypeOK'
  <2>1. claims' \in [Claim -> ClaimType \cup {None}]
      BY <1>0, <1>6, CommitShape DEF TypeOK
  <2>2. /\ writes' \subseteq writes
        /\ UNCHANGED <<scopeVars, left, clock, attempt, raced>>
      BY <1>6 DEF CommitWrite
  <2>. QED BY <1>0, <1>1, <2>1, <2>2 DEF TypeOK, scopeVars
<1>7. CASE ListStep
  <2>1. /\ left' \in [moves : Nat, updates : Nat, writes : Nat, lists : Nat]
        /\ UNCHANGED <<scopeVars, clock, attempt, claims, writes, raced>>
    <3>1. ASSUME NEW u \in User, NEW admin \in BOOLEAN, StartList(u, admin)
          PROVE  /\ left' \in [moves : Nat, updates : Nat, writes : Nat, lists : Nat]
                 /\ UNCHANGED <<scopeVars, clock, attempt, claims, writes, raced>>
        BY <1>0, <3>1 DEF StartList, TypeOK
    <3>2. CASE NextPage
        BY <1>0, <3>2 DEF NextPage, TypeOK
    <3>. QED BY <1>7, <3>1, <3>2 DEF ListStep
  <2>. QED BY <1>0, <1>1, <2>1 DEF TypeOK, scopeVars
<1>8. CASE UNCHANGED vars
    BY <1>0, <1>8 DEF TypeOK, vars, scopeVars
<1>. QED BY <1>2, <1>3, <1>4, <1>5, <1>6, <1>7, <1>8, StepCases DEF WriteStep

LEMMA AgentInitInv == Init => AgentInv
<1>. SUFFICES ASSUME Init PROVE AgentInv
    OBVIOUS
<1>. USE AgentConstants DEF Init
<1>1. Fresh \in AttemptType /\ Fresh.pc = "idle"
  <2>1. 0 \in 0..MaxIngest /\ {} \in SUBSET Index
      OBVIOUS
  <2>. QED BY <2>1 DEF Fresh, AttemptType
<1>2. list \in ListType
    BY DEF ListType
<1>3. TypeOK
  <2>1. indexed \subseteq (1..MaxIngest) \X Index /\ completed \in 0..MaxIngest
      BY DEF Index
  <2>. QED BY <1>1, <1>2, <2>1 DEF TypeOK
<1>4. Created = {}
    BY DEF Created
<1>5. AttemptsAnswered
    BY <1>1 DEF AttemptsAnswered
<1>6. KeysUnique /\ CancelledLeftQueue /\ WritesGuarded /\ SupportedUnlessRaced
    BY <1>4 DEF KeysUnique, CancelledLeftQueue, WritesGuarded, SupportedUnlessRaced
<1>7. CursorSplits
    BY <1>4, FS_EmptySet DEF CursorSplits
<1>. QED BY <1>3, <1>5, <1>6, <1>7 DEF AgentInv

\* The inductive invariant: the rows are well formed, answers and keys match the stored
\* runs, child writes are guarded, and the cursor splits the list.
THEOREM AgentInvariant == Spec => []AgentInv
<1>1. AgentInv /\ [Next]_vars => AgentInv'
    BY TypeNext, AttemptsNext, KeysNext, WritesNext, CursorNext DEF AgentInv
<1>. QED BY <1>1, AgentInitInv, PTL DEF Spec

\* An idempotency key answers with the one run of its requester and its exact request,
\* for any number of concurrent attempts and whatever moves between them (CreateRun).
THEOREM ReplaysExact == Spec => []ReplayIsTheRun
<1>1. ASSUME AgentInv PROVE ReplayIsTheRun
  <2>1. \A a \in Answered : LET t == attempt[a] IN
           /\ t.run \in Created
           /\ runs[t.run].user = t.form.user /\ runs[t.run].key = t.form.key
           /\ runs[t.run].hash = RequestHash(t)
      BY <1>1 DEF AgentInv, AttemptsAnswered, Answered
  <2>2. KeysUnique
      BY <1>1 DEF AgentInv
  <2>. QED BY <2>1, <2>2 DEF ReplayIsTheRun, KeysUnique
<1>. QED BY <1>1, AgentInvariant, PTL

\* A succeeded run has only supported and cited claims, unless it ended while a child
\* write was past its guard (enforce_agent_run_dispatch_and_completion).
THEOREM SuccessIsSupported == Spec => []SupportedUnlessRaced
<1>1. AgentInv => SupportedUnlessRaced
    BY DEF AgentInv
<1>. QED BY <1>1, AgentInvariant, PTL

\* Keyset paging shows every run of the first page's view exactly once, for every page
\* size and every order of insertions meanwhile (ListRuns).
THEOREM ListingComplete == Spec => []PagesComplete
<1>1. AgentInv => PagesComplete
    BY DEF AgentInv, CursorSplits, PagesComplete
<1>. QED BY <1>1, AgentInvariant, PTL

\* The request of a run and an ended run never change, and a run cancelled in the queue
\* is never dispatched (validate_agent_run, CancelRun).
THEOREM RunLineageFrozen == Spec => LineageFrozen
<1>1. ASSUME AgentInv, [Next]_vars
      PROVE  [\A r \in RunId : runs[r] # None =>
                /\ runs'[r] # None
                /\ runs[r].hash = runs'[r].hash /\ runs[r].user = runs'[r].user
                /\ runs[r].at = runs'[r].at /\ runs[r].key = runs'[r].key
                /\ runs[r].status \in Terminal => runs'[r] = runs[r]
                /\ runs[r].bound => runs'[r].bound
                /\ ~runs[r].bound /\ runs'[r].bound => ~runs[r].cancel]_vars
    BY <1>1, RunsKept, AgentConstants DEF Kept, Created
<1>. QED BY <1>1, AgentInvariant, PTL DEF Spec, LineageFrozen
=============================================================================
