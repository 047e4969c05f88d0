--------------------------- MODULE RefreshSessions ---------------------------
(***************************************************************************)
(* The refresh sessions of one user: login, rotation with reuse detection, *)
(* logout and the clean-up of old rows (internal/auth, cmd/maintenance).   *)
(* Every statement names one user or one of a user's tokens, so one user   *)
(* is enough.                                                              *)
(*                                                                         *)
(* RotateSession is one READ COMMITTED transaction.  SELECT ... FOR UPDATE *)
(* waits for the row and then reads its newest version; the revoking       *)
(* UPDATE of the reuse path looks for rows in the snapshot it takes when   *)
(* it starts, waits for those another transaction has locked, and reads    *)
(* them again.  A session that commits meanwhile is not in the snapshot.   *)
(***************************************************************************)
EXTENDS Naturals

CONSTANTS
    Request,     \* RotateSession calls under way
    None,        \* no session
    MaxSessions  \* bound: rows of user_sessions

ASSUME SessionConstants ==
    /\ MaxSessions \in Nat \ {0}
    /\ None \notin 1..MaxSessions

Session == 1..MaxSessions

VARIABLES
    issued,      \* ids taken from the sequence
    state,       \* "live" when revoked is FALSE
    expired,     \* sessions with expires_at in the past
    replacedBy,  \* user_sessions.replaced_by_session_id
    pc,          \* control point of each request in RotateSession
    tok,         \* the session it presented, whose row it has locked
    snap,        \* the rows its revoking UPDATE found
    parent,      \* history: the session this one replaced, or None
    login,       \* history: the login this session goes back to
    detected,    \* history: sessions whose reuse was detected and answered
    doomed,      \* history: sessions found by the revocations so far
    escaped      \* history: replacements that committed during a revocation

txVars == <<pc, tok, snap>>
rowVars == <<issued, state, expired, replacedBy>>
histVars == <<parent, login, detected, doomed, escaped>>
vars == <<rowVars, txVars, histVars>>

State == {"absent", "live", "revoked", "purged"}
Control == {"idle", "rotate", "detect", "revoke"}

TypeOK ==
    /\ issued \in 0..MaxSessions
    /\ state \in [Session -> State]
    /\ expired \in SUBSET Session
    /\ replacedBy \in [Session -> Session \cup {None}]
    /\ pc \in [Request -> Control]
    /\ tok \in [Request -> Session \cup {None}]
    /\ snap \in [Request -> SUBSET Session]
    /\ parent \in [Session -> Session \cup {None}]
    /\ login \in [Session -> Session]
    /\ detected \in SUBSET Session
    /\ doomed \in SUBSET Session
    /\ escaped \in SUBSET Session

Init ==
    /\ issued = 0
    /\ state = [s \in Session |-> "absent"]
    /\ expired = {}
    /\ replacedBy = [s \in Session |-> None]
    /\ pc = [r \in Request |-> "idle"]
    /\ tok = [r \in Request |-> None]
    /\ snap = [r \in Request |-> {}]
    /\ parent = [s \in Session |-> None]
    /\ login = [s \in Session |-> s]
    /\ detected = {}
    /\ doomed = {}
    /\ escaped = {}

Locked(s) == \E r \in Request : tok[r] = s

Present(s) == state[s] \in {"live", "revoked"}

\* The transaction of r ends and releases its locks.
End(r) ==
    /\ pc' = [pc EXCEPT ![r] = "idle"]
    /\ tok' = [tok EXCEPT ![r] = None]
    /\ snap' = [snap EXCEPT ![r] = {}]

-----------------------------------------------------------------------------
(* Login, logout, the clock and the clean-up *)

\* issueTokens after Register or Login.
CreateSession ==
    /\ issued < MaxSessions
    /\ issued' = issued + 1
    /\ state' = [state EXCEPT ![issued + 1] = "live"]
    /\ UNCHANGED <<expired, replacedBy, txVars, histVars>>

\* Logout: one UPDATE by token hash.
RevokeSessionByRefreshHash(s) ==
    /\ Present(s)
    /\ ~Locked(s)
    /\ state' = [state EXCEPT ![s] = "revoked"]
    /\ UNCHANGED <<issued, expired, replacedBy, txVars, histVars>>

\* The clock passes expires_at.
Expire(s) ==
    /\ Present(s)
    /\ s \notin expired
    /\ expired' = expired \cup {s}
    /\ UNCHANGED <<issued, state, replacedBy, txVars, histVars>>

\* cmd/maintenance deletes revoked or expired rows not touched for 30 days;
\* references to them become NULL.
PurgeSessions(S) ==
    /\ \A s \in S :
        /\ Present(s) /\ ~Locked(s)
        /\ state[s] = "revoked" \/ s \in expired
    /\ \A t \in Session : replacedBy[t] \in S => ~Locked(t)
    /\ state' = [s \in Session |-> IF s \in S THEN "purged" ELSE state[s]]
    /\ replacedBy' = [s \in Session |->
                        IF s \in S \/ replacedBy[s] \in S THEN None ELSE replacedBy[s]]
    /\ UNCHANGED <<issued, expired, txVars, histVars>>

-----------------------------------------------------------------------------
(* RotateSession *)

Usable(s) == state[s] = "live" /\ s \notin expired

\* SELECT ... FOR UPDATE.  An unknown token, and an unusable one that was never
\* replaced, end the call with nothing changed.
LockSession(r, s) ==
    /\ pc[r] = "idle"
    /\ Present(s)
    /\ ~Locked(s)
    /\ Usable(s) \/ replacedBy[s] # None
    /\ pc' = [pc EXCEPT ![r] = IF Usable(s) THEN "rotate" ELSE "detect"]
    /\ tok' = [tok EXCEPT ![r] = s]
    /\ UNCHANGED <<rowVars, snap, histVars>>

\* Revocations under way that have found session s.
Revokers(s) == {r \in Request : pc[r] = "revoke" /\ s \in snap[r]}

\* Seeded defect: the replaced session is not revoked.
CommitRotationKeepsOld(r) ==
    LET s == tok[r]
        n == issued + 1
    IN
    /\ pc[r] = "rotate"
    /\ issued < MaxSessions
    /\ issued' = n
    /\ state' = [state EXCEPT ![n] = "live"]
    /\ replacedBy' = [replacedBy EXCEPT ![s] = n]
    /\ End(r)
    /\ parent' = [parent EXCEPT ![n] = s]
    /\ login' = [login EXCEPT ![n] = login[s]]
    /\ escaped' = IF Revokers(s) # {} THEN escaped \cup {n} ELSE escaped
    /\ UNCHANGED <<expired, detected, doomed>>

\* The replacement is inserted, the old session revoked, and both commit.
CommitRotation(r) ==
    LET s == tok[r]
        n == issued + 1
    IN
    /\ pc[r] = "rotate"
    /\ issued < MaxSessions
    /\ issued' = n
    /\ state' = [state EXCEPT ![s] = "revoked", ![n] = "live"]
    /\ replacedBy' = [replacedBy EXCEPT ![s] = n]
    /\ End(r)
    /\ parent' = [parent EXCEPT ![n] = s]
    /\ login' = [login EXCEPT ![n] = login[s]]
    /\ escaped' = IF Revokers(s) # {} THEN escaped \cup {n} ELSE escaped
    /\ UNCHANGED <<expired, detected, doomed>>

\* Reuse: UPDATE ... WHERE user_id AND revoked = FALSE starts.
BeginRevocation(r) ==
    /\ pc[r] = "detect"
    /\ pc' = [pc EXCEPT ![r] = "revoke"]
    /\ snap' = [snap EXCEPT ![r] = {s \in Session : state[s] = "live"}]
    /\ UNCHANGED <<rowVars, tok, histVars>>

\* Rows of the snapshot that other transactions have locked.
Awaited(r) == {s \in snap[r] : \E q \in Request \ {r} : tok[q] = s}

\* Seeded defect: only the presented session is revoked.
CommitRevocationOfToken(r) ==
    /\ pc[r] = "revoke"
    /\ Awaited(r) = {}
    /\ state' = [state EXCEPT ![tok[r]] = "revoked"]
    /\ detected' = detected \cup {tok[r]}
    /\ doomed' = doomed \cup snap[r]
    /\ End(r)
    /\ UNCHANGED <<issued, expired, replacedBy, parent, login, escaped>>

\* Seeded defect: the UPDATE skips locked rows.
CommitRevocationSkipsLocked(r) ==
    /\ pc[r] = "revoke"
    /\ state' = [s \in Session |->
                    IF s \in snap[r] \ Awaited(r) /\ state[s] = "live" THEN "revoked" ELSE state[s]]
    /\ detected' = detected \cup {tok[r]}
    /\ doomed' = doomed \cup snap[r]
    /\ End(r)
    /\ UNCHANGED <<issued, expired, replacedBy, parent, login, escaped>>

\* It has every row, reads them again, revokes those still live, and commits.
CommitRevocation(r) ==
    /\ pc[r] = "revoke"
    /\ Awaited(r) = {}
    /\ state' = [s \in Session |->
                    IF s \in snap[r] /\ state[s] = "live" THEN "revoked" ELSE state[s]]
    /\ detected' = detected \cup {tok[r]}
    /\ doomed' = doomed \cup snap[r]
    /\ End(r)
    /\ UNCHANGED <<issued, expired, replacedBy, parent, login, escaped>>

\* A statement fails or the process dies: the transaction rolls back.
Rollback(r) ==
    /\ pc[r] # "idle"
    /\ End(r)
    /\ UNCHANGED <<rowVars, histVars>>

-----------------------------------------------------------------------------
RequestStep(r) ==
    \/ \E s \in Session : LockSession(r, s)
    \/ CommitRotation(r)
    \/ BeginRevocation(r)
    \/ CommitRevocation(r)
    \/ Rollback(r)

Next ==
    \/ CreateSession
    \/ \E s \in Session : RevokeSessionByRefreshHash(s) \/ Expire(s)
    \/ \E S \in SUBSET Session \ {{}} : PurgeSessions(S)
    \/ \E r \in Request : RequestStep(r)

Spec == Init /\ [][Next]_vars

-----------------------------------------------------------------------------
(* What the code promises *)

\* "successful rotations ... want 1": however many requests present one token at
\* the same time, it is replaced at most once.
RotatedOnce ==
    \A s, t \in Session : parent[s] # None /\ parent[s] = parent[t] => s = t

\* A login has at most one live session at any time, whatever rotations, logouts,
\* revocations and clean-ups run concurrently.
OneLivePerLogin ==
    \A s, t \in Session :
        state[s] = "live" /\ state[t] = "live" /\ login[s] = login[t] => s = t

\* "winner session should be revoked after replay detection": once a reuse was
\* answered, the session that replaced the reused one is not live.
WinnerRevoked ==
    \A s \in Session : parent[s] \in detected => state[s] # "live"

\* A reuse ends the user's sessions for good: a live session does not descend from
\* one that a revocation found, except one whose rotation had locked its parent
\* first and committed while the revocation waited for it.
RevocationEndsChains ==
    \A s \in Session : state[s] = "live" /\ parent[s] \in doomed => s \in escaped

\* Rows exist up to the last id issued, and histories point backwards.
Sequence ==
    /\ \A s \in Session :
        /\ state[s] = "absent" <=> s > issued
        /\ parent[s] # None => s <= issued /\ parent[s] < s
        /\ IF s > issued THEN login[s] = s ELSE login[s] <= s
        /\ replacedBy[s] # None => parent[replacedBy[s]] = s
    /\ \A s \in detected \cup doomed : state[s] \in {"revoked", "purged"}

\* A replaced session is not live.
ReplacedIsOver ==
    \A s \in Session : parent[s] # None => state[parent[s]] \in {"revoked", "purged"}

\* What a transaction under way relies on: its row is its own; a session it is
\* about to replace is live; a session it answers for was replaced, and neither
\* the replacement nor a child of a row it found escapes it unnoticed.
TxSound ==
    \A r \in Request :
        /\ pc[r] # "idle" <=> tok[r] # None
        /\ \A q \in Request : tok[r] # None /\ tok[q] = tok[r] => q = r
        /\ pc[r] = "rotate" => state[tok[r]] = "live"
        /\ pc[r] \in {"detect", "revoke"} => state[tok[r]] \in {"revoked", "purged"}
        /\ \A s \in snap[r] : state[s] # "absent"
        /\ pc[r] = "revoke" =>
            \A s \in Session : state[s] = "live" =>
                /\ parent[s] = tok[r] => s \in snap[r]
                /\ parent[s] \in snap[r] => s \in escaped

\* The inductive invariant of the sessions.
SessionsInv ==
    /\ TypeOK
    /\ Sequence
    /\ ReplacedIsOver
    /\ TxSound
    /\ RotatedOnce
    /\ OneLivePerLogin
    /\ WinnerRevoked
    /\ RevocationEndsChains

=============================================================================
