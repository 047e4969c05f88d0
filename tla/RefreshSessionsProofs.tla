------------------------ MODULE RefreshSessionsProofs ------------------------
(* Proofs about RefreshSessions, for every number of sessions and requests.   *)
EXTENDS RefreshSessions, TLAPS

Over == {"revoked", "purged"}

LEMMA InitInv == Init => SessionsInv
BY SessionConstants
DEF Init, SessionsInv, TypeOK, Sequence, ReplacedIsOver, TxSound, RotatedOnce,
    OneLivePerLogin, WinnerRevoked, RevocationEndsChains, Session, State, Control

\* Steps after which the same sessions exist, none became live and the histories
\* are unchanged keep everything that does not concern the transactions.
LEMMA RowsInv ==
    ASSUME SessionsInv, TypeOK', TxSound',
           \A s \in Session : /\ state'[s] = "live" => state[s] = "live"
                              /\ state'[s] = "absent" <=> state[s] = "absent"
                              /\ replacedBy'[s] # None => replacedBy'[s] = replacedBy[s],
           UNCHANGED <<issued, histVars>>
    PROVE  SessionsInv'
<1>1. \A s \in Session : state[s] \in Over => state'[s] \in Over
    BY DEF SessionsInv, TypeOK, State, Over
<1>2. Sequence'
    BY <1>1 DEF SessionsInv, TypeOK, Sequence, histVars, Over
<1>3. ReplacedIsOver'
    BY <1>1 DEF SessionsInv, TypeOK, ReplacedIsOver, histVars, Over
<1>4. RotatedOnce' /\ OneLivePerLogin' /\ WinnerRevoked' /\ RevocationEndsChains'
    BY DEF SessionsInv, RotatedOnce, OneLivePerLogin, WinnerRevoked, RevocationEndsChains, histVars
<1>. QED BY <1>2, <1>3, <1>4 DEF SessionsInv

\* Steps of the rows that no transaction holds.
LEMMA OutsideInv ==
    ASSUME SessionsInv,
           \/ \E s \in Session : RevokeSessionByRefreshHash(s) \/ Expire(s)
           \/ \E S \in SUBSET Session : PurgeSessions(S)
    PROVE  SessionsInv'
<1>1. TypeOK'
    BY DEF SessionsInv, TypeOK, RevokeSessionByRefreshHash, Expire, PurgeSessions, State, txVars, histVars
<1>2. \A s \in Session : /\ state'[s] = "live" => state[s] = "live"
                         /\ state'[s] = "absent" <=> state[s] = "absent"
                         /\ state[s] \in Over => state'[s] \in Over
                         /\ replacedBy'[s] # None => replacedBy'[s] = replacedBy[s]
    BY DEF SessionsInv, TypeOK, RevokeSessionByRefreshHash, Expire, PurgeSessions, Present, Over
<1>3. \A r \in Request : tok[r] \in Session => state'[tok[r]] = state[tok[r]]
    BY DEF SessionsInv, TypeOK, RevokeSessionByRefreshHash, Expire, PurgeSessions, Locked
<1>4. UNCHANGED <<issued, txVars, histVars>>
    BY DEF RevokeSessionByRefreshHash, Expire, PurgeSessions
<1>5. \A r \in Request : tok[r] # None => tok[r] \in Session
    BY DEF SessionsInv, TypeOK
<1>6. TxSound'
    BY <1>2, <1>3, <1>4, <1>5, SessionConstants
    DEF SessionsInv, TypeOK, TxSound, txVars, histVars, Over
<1>. QED BY <1>1, <1>2, <1>4, <1>6, RowsInv

LEMMA CreateInv ==
    ASSUME SessionsInv, CreateSession
    PROVE  SessionsInv'
<1>. DEFINE n == issued + 1
<1>1. n \in Session /\ state[n] = "absent" /\ issued \in Nat
    BY SessionConstants DEF SessionsInv, TypeOK, CreateSession, Session, Sequence
<1>2. \A s \in Session : s # n => state'[s] = state[s]
    BY DEF SessionsInv, TypeOK, CreateSession
<1>3. state'[n] = "live" /\ parent[n] = None /\ login[n] = n /\ None \notin Session
    BY <1>1, SessionConstants DEF SessionsInv, TypeOK, CreateSession, Sequence, Session
<1>4. TypeOK'
  <2>1. issued' \in 0..MaxSessions
      BY <1>1, SessionConstants DEF CreateSession
  <2>. QED BY <1>1, <2>1 DEF SessionsInv, TypeOK, CreateSession, State, txVars, histVars
<1>5. Sequence'
  <2>1. \A s \in Session : s > issued' <=> s > issued /\ s # n
      BY <1>1 DEF CreateSession, Session
  <2>2. \A s \in Session : s <= issued => s <= issued'
      BY <1>1 DEF CreateSession, Session
  <2>3. \A s \in Session : IF s > issued' THEN login[s] = s ELSE login[s] <= s
      BY <1>1, <1>3, <2>1 DEF SessionsInv, Sequence, Session
  <2>4. \A s \in Session : state'[s] = "absent" <=> s > issued'
      BY <1>2, <1>3, <2>1 DEF SessionsInv, Sequence
  <2>5. \A s \in detected \cup doomed : state'[s] \in {"revoked", "purged"}
      BY <1>1, <1>2 DEF SessionsInv, TypeOK, Sequence
  <2>. QED BY <2>2, <2>3, <2>4, <2>5 DEF SessionsInv, Sequence, CreateSession, histVars
<1>6. ReplacedIsOver'
    BY <1>1, <1>2, <1>3 DEF SessionsInv, TypeOK, ReplacedIsOver, CreateSession, histVars
<1>7. TxSound'
  <2>1. \A r \in Request : tok[r] # None => state'[tok[r]] = state[tok[r]]
      BY <1>1, <1>2 DEF SessionsInv, TypeOK, TxSound, Control
  <2>2. \A s \in Session : state[s] # "absent" => state'[s] = state[s]
      BY <1>1, <1>2
  <2>3. \A r \in Request : n \notin snap[r]
      BY <1>1 DEF SessionsInv, TxSound
  <2>4. \A r \in Request : None \notin snap[r]
      BY <1>3 DEF SessionsInv, TypeOK
  <2>. QED BY <1>1, <1>2, <1>3, <2>1, <2>2, <2>3, <2>4
          DEF SessionsInv, TypeOK, TxSound, CreateSession, txVars, histVars
<1>8. OneLivePerLogin'
  <2>1. \A s \in Session : state[s] = "live" => login[s] # n
      BY <1>1 DEF SessionsInv, TypeOK, Sequence, Session
  <2>. QED BY <1>1, <1>2, <1>3, <2>1 DEF SessionsInv, OneLivePerLogin, CreateSession, histVars
<1>9. RotatedOnce' /\ WinnerRevoked' /\ RevocationEndsChains'
    BY <1>2, <1>3 DEF SessionsInv, TypeOK, RotatedOnce, WinnerRevoked, RevocationEndsChains,
        CreateSession, histVars
<1>. QED BY <1>4, <1>5, <1>6, <1>7, <1>8, <1>9 DEF SessionsInv

\* A request locks its row, takes its snapshot or rolls back: no row changes.
LEMMA LockInv ==
    ASSUME SessionsInv, NEW r \in Request,
           \/ \E s \in Session : LockSession(r, s)
           \/ BeginRevocation(r)
           \/ Rollback(r)
    PROVE  SessionsInv'
<1>1. UNCHANGED <<rowVars, histVars>>
    BY DEF LockSession, BeginRevocation, Rollback
<1>2. TypeOK'
    BY DEF SessionsInv, TypeOK, LockSession, BeginRevocation, Rollback, End, Control, rowVars, histVars
<1>3. TxSound'
  <2>1. ASSUME NEW s \in Session, LockSession(r, s) PROVE TxSound'
    <3>1. None # s /\ \A q \in Request : tok[q] # s
        BY <2>1, SessionConstants DEF LockSession, Locked, Session
    <3>2. ~Usable(s) => state[s] \in {"revoked", "purged"}
      <4>1. CASE replacedBy[s] # None
        <5>1. replacedBy[s] \in Session /\ parent[replacedBy[s]] = s
            BY <4>1 DEF SessionsInv, TypeOK, Sequence
        <5>. QED BY <3>1, <5>1 DEF SessionsInv, ReplacedIsOver
      <4>. QED BY <4>1, <2>1 DEF LockSession
    <3>. QED BY <1>1, <2>1, <3>1, <3>2
            DEF SessionsInv, TypeOK, TxSound, LockSession, Usable, rowVars, histVars
  <2>2. CASE BeginRevocation(r)
    <3>1. \A s \in Session : state[s] = "live" => parent[s] \notin snap'[r]
        BY <2>2, SessionConstants DEF SessionsInv, TypeOK, ReplacedIsOver, BeginRevocation, Session
    <3>. QED BY <1>1, <2>2, <3>1 DEF SessionsInv, TypeOK, TxSound, BeginRevocation, rowVars, histVars
  <2>3. CASE Rollback(r)
      BY <1>1, <2>3 DEF SessionsInv, TypeOK, TxSound, Rollback, End, rowVars, histVars
  <2>. QED BY <2>1, <2>2, <2>3
<1>. QED BY <1>1, <1>2, <1>3, RowsInv DEF rowVars

LEMMA RevocationInv ==
    ASSUME SessionsInv, NEW r \in Request, CommitRevocation(r)
    PROVE  SessionsInv'
<1>1. tok[r] \in Session /\ state[tok[r]] \in Over
    BY DEF SessionsInv, TypeOK, TxSound, CommitRevocation, Over
<1>2. TypeOK'
    BY <1>1 DEF SessionsInv, TypeOK, CommitRevocation, End, Control, State
<1>3. \A s \in Session : /\ state'[s] = "live" => state[s] = "live" /\ s \notin snap[r]
                         /\ state'[s] = "absent" <=> state[s] = "absent"
                         /\ state[s] \in Over => state'[s] = state[s]
    BY DEF SessionsInv, TypeOK, CommitRevocation, Over
<1>4. \A s \in snap[r] : state'[s] \in Over
    BY DEF SessionsInv, TypeOK, TxSound, CommitRevocation, Over, State
<1>5. Sequence'
  <2>1. \A s \in detected' \cup doomed' : state'[s] \in Over
    <3>1. \A s \in detected \cup doomed : s \in Session /\ state[s] \in Over
        BY DEF SessionsInv, TypeOK, Sequence, Over
    <3>2. detected' \cup doomed' = (detected \cup doomed) \cup ({tok[r]} \cup snap[r])
        BY DEF CommitRevocation
    <3>. QED BY <1>1, <1>3, <1>4, <3>1, <3>2
  <2>. QED BY <1>3, <2>1 DEF SessionsInv, Sequence, CommitRevocation, Over
<1>6. ReplacedIsOver'
    BY <1>3 DEF SessionsInv, TypeOK, ReplacedIsOver, CommitRevocation, Over
<1>7. TxSound'
  <2>1. \A q \in Request : q # r /\ tok[q] # None => state'[tok[q]] = state[tok[q]]
      BY DEF SessionsInv, TypeOK, CommitRevocation, Awaited
  <2>2. \A q \in Request : IF q = r THEN pc'[q] = "idle" /\ tok'[q] = None /\ snap'[q] = {}
                           ELSE pc'[q] = pc[q] /\ tok'[q] = tok[q] /\ snap'[q] = snap[q]
      BY DEF SessionsInv, TypeOK, CommitRevocation, End
  <2>3. UNCHANGED <<parent, escaped>>
      BY DEF CommitRevocation
  <2>4. \A q \in Request : \A s \in snap[q] : s \in Session /\ state[s] # "absent"
      BY DEF SessionsInv, TypeOK, TxSound
  <2>. QED BY <1>3, <2>1, <2>2, <2>3, <2>4 DEF SessionsInv, TxSound, Control
<1>8. WinnerRevoked'
    BY <1>3 DEF SessionsInv, TypeOK, WinnerRevoked, TxSound, CommitRevocation
<1>9. RevocationEndsChains'
    BY <1>3 DEF SessionsInv, TypeOK, RevocationEndsChains, TxSound, CommitRevocation
<1>10. RotatedOnce' /\ OneLivePerLogin'
    BY <1>3 DEF SessionsInv, RotatedOnce, OneLivePerLogin, CommitRevocation
<1>. QED BY <1>2, <1>5, <1>6, <1>7, <1>8, <1>9, <1>10 DEF SessionsInv

LEMMA RotationInv ==
    ASSUME SessionsInv, NEW r \in Request, CommitRotation(r)
    PROVE  SessionsInv'
<1>. DEFINE s == tok[r]
            n == issued + 1
<1>1. n \in Session /\ issued \in Nat /\ s \in Session /\ None \notin Session
    BY SessionConstants DEF SessionsInv, TypeOK, TxSound, CommitRotation, Session
<1>2. state[n] = "absent" /\ parent[n] = None /\ state[s] = "live" /\ s # n /\ s <= issued
    BY <1>1 DEF SessionsInv, TypeOK, TxSound, Sequence, CommitRotation, Session
<1>3. /\ state'[n] = "live" /\ parent'[n] = s /\ login'[n] = login[s] /\ state'[s] = "revoked"
      /\ \A t \in Session : t # n /\ t # s => state'[t] = state[t]
      /\ \A t \in Session : t # n => parent'[t] = parent[t] /\ login'[t] = login[t]
    BY <1>1, <1>2 DEF SessionsInv, TypeOK, CommitRotation
<1>4. \A t \in Session : parent[t] # s /\ parent[t] # n
    BY <1>1, <1>2 DEF SessionsInv, TypeOK, ReplacedIsOver, Sequence, Session
<1>5. s \notin detected /\ s \notin doomed /\ n \notin detected /\ n \notin doomed
    BY <1>2 DEF SessionsInv, Sequence
<1>6. TypeOK'
  <2>1. issued' \in 0..MaxSessions
      BY <1>1, SessionConstants DEF CommitRotation
  <2>. QED BY <1>1, <2>1 DEF SessionsInv, TypeOK, CommitRotation, End, State, Control
<1>7. Sequence'
  <2>1. \A t \in Session : t > issued' <=> t > issued /\ t # n
      BY <1>1 DEF CommitRotation, Session
  <2>2. \A t \in Session : state'[t] = "absent" <=> t > issued'
      BY <1>1, <1>2, <1>3, <2>1 DEF SessionsInv, Sequence
  <2>3. \A t \in Session : parent'[t] # None => t <= issued' /\ parent'[t] < t
      BY <1>1, <1>2, <1>3 DEF SessionsInv, TypeOK, Sequence, CommitRotation, Session
  <2>4. \A t \in Session : IF t > issued' THEN login'[t] = t ELSE login'[t] <= t
    <3>1. login[s] <= n
        BY <1>1, <1>2 DEF SessionsInv, TypeOK, Sequence, Session
    <3>. QED BY <1>3, <2>1, <3>1 DEF SessionsInv, Sequence
  <2>5. \A t \in Session : replacedBy'[t] # None => parent'[replacedBy'[t]] = t
    <3>1. \A t \in Session : replacedBy[t] # n
        BY <1>1, <1>2 DEF SessionsInv, TypeOK, Sequence
    <3>2. \A t \in Session : t # s => replacedBy'[t] = replacedBy[t]
        BY DEF SessionsInv, TypeOK, CommitRotation
    <3>3. replacedBy'[s] = n
        BY <1>1 DEF SessionsInv, TypeOK, CommitRotation
    <3>. QED BY <1>3, <3>1, <3>2, <3>3 DEF SessionsInv, TypeOK, Sequence
  <2>6. \A t \in detected' \cup doomed' : state'[t] \in {"revoked", "purged"}
      BY <1>3, <1>5 DEF SessionsInv, TypeOK, Sequence, CommitRotation
  <2>. QED BY <2>2, <2>3, <2>4, <2>5, <2>6 DEF Sequence
<1>8. ReplacedIsOver'
    BY <1>1, <1>3, <1>4 DEF SessionsInv, TypeOK, ReplacedIsOver
<1>9. RotatedOnce'
    BY <1>1, <1>3, <1>4 DEF SessionsInv, RotatedOnce
<1>10. OneLivePerLogin'
    BY <1>1, <1>2, <1>3 DEF SessionsInv, OneLivePerLogin
<1>11. WinnerRevoked'
  <2>1. detected' = detected
      BY DEF CommitRotation
  <2>. QED BY <1>1, <1>3, <1>5, <2>1 DEF SessionsInv, WinnerRevoked
<1>12. RevocationEndsChains'
    BY <1>3, <1>5 DEF SessionsInv, RevocationEndsChains, CommitRotation
<1>13. TxSound'
  <2>1. \A q \in Request : IF q = r THEN pc'[q] = "idle" /\ tok'[q] = None /\ snap'[q] = {}
                           ELSE pc'[q] = pc[q] /\ tok'[q] = tok[q] /\ snap'[q] = snap[q]
      BY DEF SessionsInv, TypeOK, CommitRotation, End
  <2>2. \A q \in Request : q # r /\ tok[q] # None => tok[q] # s /\ tok[q] # n /\ state'[tok[q]] = state[tok[q]]
      BY <1>1, <1>2, <1>3 DEF SessionsInv, TypeOK, TxSound, Control
  <2>3. \A q \in Request : \A t \in snap[q] : t \in Session /\ state'[t] # "absent" /\ t # n
      BY <1>1, <1>2, <1>3 DEF SessionsInv, TypeOK, TxSound
  <2>4. \A q \in Request : pc[q] = "revoke" /\ s \in snap[q] => n \in escaped'
      BY DEF CommitRotation, Revokers
  <2>5. escaped \subseteq escaped'
      BY DEF CommitRotation
  <2>6. ASSUME NEW q \in Request, q # r, pc[q] = "revoke", NEW t \in Session, state'[t] = "live"
        PROVE  /\ parent'[t] = tok[q] => t \in snap[q]
               /\ parent'[t] \in snap[q] => t \in escaped'
    <3>1. CASE t = n
        BY <1>3, <2>2, <2>4, <2>6, <3>1 DEF SessionsInv, TxSound
    <3>2. CASE t # n
        BY <1>3, <2>5, <2>6, <3>2 DEF SessionsInv, TxSound
    <3>. QED BY <3>1, <3>2
  <2>. QED BY <2>1, <2>2, <2>3, <2>6 DEF SessionsInv, TxSound
<1>. QED BY <1>6, <1>7, <1>8, <1>9, <1>10, <1>11, <1>12, <1>13 DEF SessionsInv

LEMMA NextInv == SessionsInv /\ [Next]_vars => SessionsInv'
<1>. SUFFICES ASSUME SessionsInv, [Next]_vars PROVE SessionsInv'
    OBVIOUS
<1>1. CASE CreateSession
    BY <1>1, CreateInv
<1>2. CASE \/ \E s \in Session : RevokeSessionByRefreshHash(s) \/ Expire(s)
           \/ \E S \in SUBSET Session \ {{}} : PurgeSessions(S)
    BY <1>2, OutsideInv
<1>3. ASSUME NEW r \in Request, RequestStep(r) PROVE SessionsInv'
    BY <1>3, LockInv, RotationInv, RevocationInv DEF RequestStep
<1>4. CASE UNCHANGED vars
  <2>1. TypeOK' /\ TxSound'
      BY <1>4 DEF SessionsInv, TypeOK, TxSound, vars, rowVars, txVars, histVars
  <2>. QED BY <1>4, <2>1, RowsInv DEF vars, rowVars
<1>. QED BY <1>1, <1>2, <1>3, <1>4 DEF Next

-----------------------------------------------------------------------------
\* The inductive invariant of the sessions holds in every reachable state.
THEOREM SessionsInvariant == Spec => []SessionsInv
<1>1. Init => SessionsInv
    BY InitInv
<1>2. SessionsInv /\ [Next]_vars => SessionsInv'
    BY NextInv
<1>. QED BY <1>1, <1>2, PTL DEF Spec

\* A login has at most one live session, for any number of concurrent requests.
THEOREM LoginHasOneLiveSession == Spec => []OneLivePerLogin
<1>1. SessionsInv => OneLivePerLogin
    BY DEF SessionsInv
<1>. QED BY <1>1, SessionsInvariant, PTL

\* Once a reuse was answered, the replacement of the reused session is not live.
THEOREM ReuseRevokesWinner == Spec => []WinnerRevoked
<1>1. SessionsInv => WinnerRevoked
    BY DEF SessionsInv
<1>. QED BY <1>1, SessionsInvariant, PTL

\* A refresh token is exchanged for one new session at most.
THEOREM TokenRotatedOnce == Spec => []RotatedOnce
<1>1. SessionsInv => RotatedOnce
    BY DEF SessionsInv
<1>. QED BY <1>1, SessionsInvariant, PTL

\* A revoked chain has no live session but those that escaped the revocation.
THEOREM RevocationIsFinal == Spec => []RevocationEndsChains
<1>1. SessionsInv => RevocationEndsChains
    BY DEF SessionsInv
<1>. QED BY <1>1, SessionsInvariant, PTL
=============================================================================
