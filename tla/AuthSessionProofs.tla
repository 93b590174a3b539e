-------------------------- MODULE AuthSessionProofs --------------------------
(***************************************************************************)
(* Proofs about AuthSession, for any set of users, requests and tokens and *)
(* any lifetimes.  IInv is inductive: each lemma below shows that a step   *)
(* from a state of IInv re-establishes one group of its conjuncts, action  *)
(* by action; the theorems read the properties off IInv.                   *)
(***************************************************************************)
EXTENDS AuthSession, TLAPS

\* The empty database and idle requests satisfy the invariant.
LEMMA InitInv == Init => IInv
BY AuthConstants
DEF Init, IInv, TypeOK, RequestTypes, StoreTypes, StoreTypes, RequestTypes, LocalsInv, RowsInv, RotationInv, SessionInv, QuietInv, ReplayInv,
    HeldInv, RedeemedOnce, OneUnspentPerSession, QuietSessionsStayEnded, ReplayDetected,
    HeldTokensTracked, Rotates, Rotating, Unspent, Steps

\* Control moves, returns and starts of requests keep the locals in their types.
LEMMA GotoTypes ==
    ASSUME RequestTypes, NEW r \in Requests, NEW s \in Steps, Goto(r, s)
    PROVE  RequestTypes'
BY DEF RequestTypes, Goto, localVars

LEMMA ReturnTypes ==
    ASSUME RequestTypes, NEW r \in Requests, ReturnResult(r)
    PROVE  RequestTypes'
BY DEF RequestTypes, ReturnResult, Return, Steps

LEMMA RejectTypes ==
    ASSUME RequestTypes, NEW r \in Requests, Return(r),
           NEW kind \in {"no", "replay"}, NEW t, Reject(kind, t)
    PROVE  RequestTypes'
<1>1. missed' \subseteq {"replay"}
  BY DEF RequestTypes, Reject
<1> QED BY <1>1 DEF RequestTypes, Return, Steps

LEMMA EnterTypes ==
    ASSUME RequestTypes, NEW r \in Requests, NEW u \in Users \cup {NoUser},
           NEW t \in Tokens \cup {NoToken}, NEW kind \in {"no", "replay"}, NEW s \in Steps,
           Enter(r, u, t, kind, s), UNCHANGED missed
    PROVE  RequestTypes'
BY DEF RequestTypes, Enter

\* Every step keeps the locals of the requests in their types.
LEMMA RequestTypesStep == IInv /\ [Next]_vars => RequestTypes'
<1> SUFFICES ASSUME IInv, [Next]_vars
             PROVE  RequestTypes'
  OBVIOUS
<1>t. RequestTypes /\ StoreTypes
  BY DEF IInv, TypeOK
<1>s. /\ {"issue", "logout", "status", "islive", "mark", "revoke", "getuser", "reply"} \subseteq Steps
      /\ \A r \in Requests : stale[r] \in {"no", "replay"}
  BY <1>t DEF Steps, RequestTypes
<1>1. CASE Purge
  BY <1>1, <1>t DEF Purge, RequestTypes, reqVars, localVars
<1>2. CASE Restart
  BY <1>2, <1>t DEF Restart, RequestTypes, Steps
<1>3. CASE Tick
  BY <1>3, <1>t DEF Tick, RequestTypes, reqVars, localVars
<1>4. ASSUME NEW r \in Requests, RequestStep(r)
      PROVE  RequestTypes'
  <2>1. ASSUME NEW u \in Users, NEW b \in BOOLEAN, Register(r, u, b) PROVE RequestTypes'
    BY <2>1, <1>t, <1>s, EnterTypes, ReturnTypes DEF Register
  <2>2. ASSUME NEW u \in Users, Login(r, u) PROVE RequestTypes'
    BY <2>2, <1>t, <1>s, EnterTypes DEF Login
  <2>3. ASSUME NEW t \in Tokens, Logout(r, t) PROVE RequestTypes'
    <3>1. owner[t] \in Users \cup {NoUser}
      BY <1>t DEF StoreTypes
    <3> QED BY <2>3, <3>1, <1>t, <1>s, EnterTypes DEF Logout
  <2>4. ASSUME NEW t \in Tokens, RefreshParse(r, t) PROVE RequestTypes'
    <3>1. owner[t] \in Users \cup {NoUser}
      BY <1>t DEF StoreTypes
    <3>2. CASE ParseOK(RefreshExp(t))
      BY <2>4, <3>1, <3>2, <1>t, <1>s, EnterTypes DEF RefreshParse
    <3>3. CASE ~ParseOK(RefreshExp(t))
      BY <2>4, <3>3, <1>t, RejectTypes DEF RefreshParse
    <3> QED BY <3>2, <3>3
  <2>5. ASSUME RefreshStatus(r) PROVE RequestTypes'
    BY <2>5, <1>t, <1>s, GotoTypes, RejectTypes DEF RefreshStatus
  <2>6. ASSUME RefreshIsLive(r) PROVE RequestTypes'
    BY <2>6, <1>t, <1>s, GotoTypes, RejectTypes DEF RefreshIsLive
  <2>7. ASSUME NEW b \in BOOLEAN, MarkUsed(r, b) PROVE RequestTypes'
    BY <2>7, <1>t, <1>s, GotoTypes, ReturnTypes DEF MarkUsed
  <2>8. ASSUME RefreshGetUser(r) PROVE RequestTypes'
    BY <2>8, <1>t, <1>s, GotoTypes DEF RefreshGetUser
  <2>9. ASSUME NEW t \in Tokens, Issue(r, t) PROVE RequestTypes'
    BY <2>9, <1>t DEF Issue, RequestTypes, Steps
  <2>10. ASSUME NEW b \in BOOLEAN, Track(r, b) PROVE RequestTypes'
    BY <2>10, <1>t, <1>s, GotoTypes, ReturnTypes DEF Track
  <2>11. ASSUME NEW b \in BOOLEAN, Reply(r, b) PROVE RequestTypes'
    BY <2>11, <1>t, ReturnTypes DEF Reply
  <2>12. ASSUME NEW b \in BOOLEAN, ReplayRevoke(r, b) PROVE RequestTypes'
    BY <2>12, <1>t, ReturnTypes DEF ReplayRevoke
  <2>13. ASSUME LogoutRevoke(r) PROVE RequestTypes'
    BY <2>13, <1>t, ReturnTypes DEF LogoutRevoke
  <2>14. ASSUME StepError(r) PROVE RequestTypes'
    BY <2>14, <1>t, ReturnTypes DEF StepError
  <2> QED BY <1>4, <2>1, <2>2, <2>3, <2>4, <2>5, <2>6, <2>7, <2>8, <2>9, <2>10,
             <2>11, <2>12, <2>13, <2>14 DEF RequestStep
<1>5. CASE UNCHANGED vars
  BY <1>5, <1>t DEF vars, RequestTypes, reqVars, localVars
<1> QED BY <1>1, <1>2, <1>3, <1>4, <1>5 DEF Next

\* Every step keeps the tables and the claims in their types.
LEMMA StoreTypesStep == IInv /\ [Next]_vars => StoreTypes'
<1> SUFFICES ASSUME IInv, [Next]_vars
             PROVE  StoreTypes'
  OBVIOUS
<1> USE AuthConstants
    DEF vars, authVars, rowVars, reqVars, localVars,
        Goto, Enter, Return, ReturnResult, Reject,
        IInv, TypeOK, StoreTypes, RequestTypes, LocalsInv, Steps
<1>1. CASE Purge
  BY <1>1 DEF Purge, RefreshExp
<1>2. CASE Restart
  BY <1>2 DEF Restart
<1>3. CASE Tick
  BY <1>3 DEF Tick
<1>4. ASSUME NEW r \in Requests, RequestStep(r)
      PROVE  StoreTypes'
  <2>1. ASSUME NEW u \in Users, NEW b \in BOOLEAN, Register(r, u, b) PROVE StoreTypes'
    BY <2>1 DEF Register
  <2>2. ASSUME NEW u \in Users, Login(r, u) PROVE StoreTypes'
    BY <2>2 DEF Login
  <2>3. ASSUME NEW t \in Tokens, Logout(r, t) PROVE StoreTypes'
    BY <2>3 DEF Logout
  <2>4. ASSUME NEW t \in Tokens, RefreshParse(r, t) PROVE StoreTypes'
    BY <2>4 DEF RefreshParse
  <2>5. ASSUME RefreshStatus(r) PROVE StoreTypes'
    BY <2>5 DEF RefreshStatus
  <2>6. ASSUME RefreshIsLive(r) PROVE StoreTypes'
    BY <2>6 DEF RefreshIsLive
  <2>7. ASSUME NEW b \in BOOLEAN, MarkUsed(r, b) PROVE StoreTypes'
    BY <2>7 DEF MarkUsed, Unspent
  <2>8. ASSUME RefreshGetUser(r) PROVE StoreTypes'
    BY <2>8 DEF RefreshGetUser
  <2>9. ASSUME NEW t \in Tokens, Issue(r, t) PROVE StoreTypes'
    BY <2>9 DEF Issue
  <2>10. ASSUME NEW b \in BOOLEAN, Track(r, b) PROVE StoreTypes'
    BY <2>10 DEF Track
  <2>11. ASSUME NEW b \in BOOLEAN, Reply(r, b) PROVE StoreTypes'
    BY <2>11 DEF Reply
  <2>12. ASSUME NEW b \in BOOLEAN, ReplayRevoke(r, b) PROVE StoreTypes'
    BY <2>12 DEF ReplayRevoke, RevokeUser, SessionsOf, InFlight, Unspent
  <2>13. ASSUME LogoutRevoke(r) PROVE StoreTypes'
    BY <2>13 DEF LogoutRevoke, RevokeUser, SessionsOf, InFlight, Unspent
  <2>14. ASSUME StepError(r) PROVE StoreTypes'
    BY <2>14 DEF StepError
  <2> HIDE DEF vars, authVars, rowVars, reqVars, localVars,
        Goto, Enter, Return, ReturnResult, Reject,
        IInv, TypeOK, StoreTypes, RequestTypes, LocalsInv, Steps
  <2> QED BY <1>4, <2>1, <2>2, <2>3, <2>4, <2>5, <2>6, <2>7, <2>8, <2>9, <2>10,
             <2>11, <2>12, <2>13, <2>14 DEF RequestStep
<1>5. CASE UNCHANGED vars
  BY <1>5
<1> QED BY <1>1, <1>2, <1>3, <1>4, <1>5 DEF Next

\* Every step keeps the locals of the requests and the table consistent; a jti is
\* tracked by one request only because Issue draws fresh ones.
LEMMA BasicStep == IInv /\ [Next]_vars => (LocalsInv /\ RowsInv)'
<1> SUFFICES ASSUME IInv, [Next]_vars
             PROVE  (LocalsInv /\ RowsInv)'
  OBVIOUS
<1> USE AuthConstants
    DEF vars, authVars, rowVars, reqVars, localVars,
        Goto, Enter, Return, ReturnResult, Reject,
        IInv, TypeOK, StoreTypes, RequestTypes, LocalsInv, RowsInv
<1>1. CASE Purge
  BY <1>1 DEF Purge, RefreshExp
<1>2. CASE Restart
  BY <1>2 DEF Restart
<1>3. CASE Tick
  BY <1>3 DEF Tick
<1>4. ASSUME NEW r \in Requests, RequestStep(r)
      PROVE  (LocalsInv /\ RowsInv)'
  <2>1. ASSUME NEW u \in Users, NEW b \in BOOLEAN, Register(r, u, b) PROVE (LocalsInv /\ RowsInv)'
    BY <2>1 DEF Register
  <2>2. ASSUME NEW u \in Users, Login(r, u) PROVE (LocalsInv /\ RowsInv)'
    BY <2>2 DEF Login
  <2>3. ASSUME NEW t \in Tokens, Logout(r, t) PROVE (LocalsInv /\ RowsInv)'
    BY <2>3 DEF Logout
  <2>4. ASSUME NEW t \in Tokens, RefreshParse(r, t) PROVE (LocalsInv /\ RowsInv)'
    BY <2>4 DEF RefreshParse
  <2>5. ASSUME RefreshStatus(r) PROVE (LocalsInv /\ RowsInv)'
    BY <2>5 DEF RefreshStatus
  <2>6. ASSUME RefreshIsLive(r) PROVE (LocalsInv /\ RowsInv)'
    BY <2>6 DEF RefreshIsLive
  <2>7. ASSUME NEW b \in BOOLEAN, MarkUsed(r, b) PROVE (LocalsInv /\ RowsInv)'
    BY <2>7 DEF MarkUsed, Unspent
  <2>8. ASSUME RefreshGetUser(r) PROVE (LocalsInv /\ RowsInv)'
    BY <2>8 DEF RefreshGetUser
  <2>9. ASSUME NEW t \in Tokens, Issue(r, t) PROVE (LocalsInv /\ RowsInv)'
    BY <2>9 DEF Issue
  <2>10. ASSUME NEW b \in BOOLEAN, Track(r, b) PROVE (LocalsInv /\ RowsInv)'
    BY <2>10 DEF Track
  <2>11. ASSUME NEW b \in BOOLEAN, Reply(r, b) PROVE (LocalsInv /\ RowsInv)'
    BY <2>11 DEF Reply
  <2>12. ASSUME NEW b \in BOOLEAN, ReplayRevoke(r, b) PROVE (LocalsInv /\ RowsInv)'
    BY <2>12 DEF ReplayRevoke, RevokeUser, SessionsOf, InFlight, Unspent
  <2>13. ASSUME LogoutRevoke(r) PROVE (LocalsInv /\ RowsInv)'
    BY <2>13 DEF LogoutRevoke, RevokeUser, SessionsOf, InFlight, Unspent
  <2>14. ASSUME StepError(r) PROVE (LocalsInv /\ RowsInv)'
    BY <2>14 DEF StepError
  <2> HIDE DEF vars, authVars, rowVars, reqVars, localVars,
        Goto, Enter, Return, ReturnResult, Reject,
        IInv, TypeOK, StoreTypes, RequestTypes, LocalsInv, RowsInv
  <2> QED BY <1>4, <2>1, <2>2, <2>3, <2>4, <2>5, <2>6, <2>7, <2>8, <2>9, <2>10,
             <2>11, <2>12, <2>13, <2>14 DEF RequestStep
<1>5. CASE UNCHANGED vars
  BY <1>5
<1> QED BY <1>1, <1>2, <1>3, <1>4, <1>5 DEF Next

\* Every step keeps rotation linear.  MarkUsed is the step that matters: a row it
\* updates is unspent, hence not burnt, hence nobody rotates it already.
LEMMA RotationStep == IInv /\ [Next]_vars => RotationInv'
<1> SUFFICES ASSUME IInv, [Next]_vars
             PROVE  RotationInv'
  OBVIOUS
<1> USE AuthConstants
    DEF vars, authVars, rowVars, reqVars, localVars,
        Goto, Enter, Return, ReturnResult, Reject,
        IInv, TypeOK, StoreTypes, RequestTypes, LocalsInv, RowsInv, RotationInv, RedeemedOnce, Burnt, Pending,
        Rotates, Rotating, Unspent
<1>1. CASE Purge
  BY <1>1 DEF Purge, RefreshExp
<1>2. CASE Restart
  BY <1>2 DEF Restart
<1>3. CASE Tick
  BY <1>3 DEF Tick
<1>4. ASSUME NEW r \in Requests, RequestStep(r)
      PROVE  RotationInv'
  <2>1. ASSUME NEW u \in Users, NEW b \in BOOLEAN, Register(r, u, b) PROVE RotationInv'
    BY <2>1 DEF Register
  <2>2. ASSUME NEW u \in Users, Login(r, u) PROVE RotationInv'
    BY <2>2 DEF Login
  <2>3. ASSUME NEW t \in Tokens, Logout(r, t) PROVE RotationInv'
    BY <2>3 DEF Logout
  <2>4. ASSUME NEW t \in Tokens, RefreshParse(r, t) PROVE RotationInv'
    BY <2>4 DEF RefreshParse
  <2>5. ASSUME RefreshStatus(r) PROVE RotationInv'
    BY <2>5 DEF RefreshStatus
  <2>6. ASSUME RefreshIsLive(r) PROVE RotationInv'
    BY <2>6 DEF RefreshIsLive
  <2>7. ASSUME NEW b \in BOOLEAN, MarkUsed(r, b) PROVE RotationInv'
    BY <2>7 DEF MarkUsed, Unspent
  <2>8. ASSUME RefreshGetUser(r) PROVE RotationInv'
    BY <2>8 DEF RefreshGetUser
  <2>9. ASSUME NEW t \in Tokens, Issue(r, t) PROVE RotationInv'
    BY <2>9 DEF Issue
  <2>10. ASSUME NEW b \in BOOLEAN, Track(r, b) PROVE RotationInv'
    BY <2>10 DEF Track
  <2>11. ASSUME NEW b \in BOOLEAN, Reply(r, b) PROVE RotationInv'
    BY <2>11 DEF Reply
  <2>12. ASSUME NEW b \in BOOLEAN, ReplayRevoke(r, b) PROVE RotationInv'
    BY <2>12 DEF ReplayRevoke, RevokeUser, SessionsOf, InFlight, Unspent
  <2>13. ASSUME LogoutRevoke(r) PROVE RotationInv'
    BY <2>13 DEF LogoutRevoke, RevokeUser, SessionsOf, InFlight, Unspent
  <2>14. ASSUME StepError(r) PROVE RotationInv'
    BY <2>14 DEF StepError
  <2> HIDE DEF vars, authVars, rowVars, reqVars, localVars,
        Goto, Enter, Return, ReturnResult, Reject,
        IInv, TypeOK, StoreTypes, RequestTypes, LocalsInv, RowsInv, RotationInv, RedeemedOnce, Burnt, Pending,
        Rotates, Rotating, Unspent
  <2> QED BY <1>4, <2>1, <2>2, <2>3, <2>4, <2>5, <2>6, <2>7, <2>8, <2>9, <2>10,
             <2>11, <2>12, <2>13, <2>14 DEF RequestStep
<1>5. CASE UNCHANGED vars
  BY <1>5
<1> QED BY <1>1, <1>2, <1>3, <1>4, <1>5 DEF Next

\* Request r carries on no session before or after the step, and no other request moves.
Outside(r) ==
    /\ ~(pc[r] \in Rotating /\ tok[r] # NoToken)
    /\ ~(pc'[r] \in Rotating /\ tok'[r] # NoToken)
    /\ pc'[r] # "track"
    /\ \A q \in Requests \ {r} : pc'[q] = pc[q] /\ tok'[q] = tok[q] /\ mint'[q] = mint[q]

\* Such a step does not concern sessions if it adds no token and no row.
LEMMA OutsideSession ==
    ASSUME IInv, NEW r \in Requests, Outside(r), UNCHANGED <<signed, owner, root, tracked>>,
           used \subseteq used', revoked \subseteq revoked'
    PROVE  SessionInv'
BY DEF IInv, SessionInv, OneUnspentPerSession, Rotates, Rotating, Unspent, Outside

\* Every step keeps at most one redeemable token or one rotation per session.
LEMMA SessionStep == IInv /\ [Next]_vars => SessionInv'
<1> SUFFICES ASSUME IInv, [Next]_vars
             PROVE  SessionInv'
  OBVIOUS
<1> USE AuthConstants
    DEF vars, authVars, rowVars, reqVars, localVars,
        Goto, Enter, Return, ReturnResult, Reject,
        IInv, TypeOK, StoreTypes, RequestTypes, LocalsInv, RowsInv, RotationInv, SessionInv, OneUnspentPerSession,
        Burnt, Pending, Rotates, Rotating, Unspent
<1>1. CASE Purge
  BY <1>1 DEF Purge, RefreshExp
<1>2. CASE Restart
  BY <1>2 DEF Restart
<1>3. CASE Tick
  BY <1>3 DEF Tick
<1>4. ASSUME NEW r \in Requests, RequestStep(r)
      PROVE  SessionInv'
  <2>1. ASSUME NEW u \in Users, NEW b \in BOOLEAN, Register(r, u, b) PROVE SessionInv'
    <3>1. Outside(r)
      BY <2>1 DEF Register, Outside
    <3>2. UNCHANGED <<signed, owner, root, tracked, used, revoked>>
      BY <2>1 DEF Register
    <3> QED BY ONLY IInv, <3>1, <3>2, OutsideSession
  <2>2. ASSUME NEW u \in Users, Login(r, u) PROVE SessionInv'
    BY <2>2 DEF Login
  <2>3. ASSUME NEW t \in Tokens, Logout(r, t) PROVE SessionInv'
    BY <2>3 DEF Logout
  <2>4. ASSUME NEW t \in Tokens, RefreshParse(r, t) PROVE SessionInv'
    <3>1. Outside(r)
      BY <2>4 DEF RefreshParse, Outside
    <3>2. UNCHANGED <<signed, owner, root, tracked, used, revoked>>
      BY <2>4 DEF RefreshParse
    <3> QED BY ONLY IInv, <3>1, <3>2, OutsideSession
  <2>5. ASSUME RefreshStatus(r) PROVE SessionInv'
    <3>1. Outside(r)
      BY <2>5 DEF RefreshStatus, Outside
    <3>2. UNCHANGED <<signed, owner, root, tracked, used, revoked>>
      BY <2>5 DEF RefreshStatus
    <3> QED BY ONLY IInv, <3>1, <3>2, OutsideSession
  <2>6. ASSUME RefreshIsLive(r) PROVE SessionInv'
    <3>1. Outside(r)
      BY <2>6 DEF RefreshIsLive, Outside
    <3>2. UNCHANGED <<signed, owner, root, tracked, used, revoked>>
      BY <2>6 DEF RefreshIsLive
    <3> QED BY ONLY IInv, <3>1, <3>2, OutsideSession
  <2>7. ASSUME NEW b \in BOOLEAN, MarkUsed(r, b) PROVE SessionInv'
    <3>1. CASE Unspent(tok[r]) /\ b
      BY <2>7, <3>1 DEF MarkUsed
    <3>2. CASE ~(Unspent(tok[r]) /\ b)
      <4>1. Outside(r)
        BY <2>7, <3>2 DEF MarkUsed, Outside
      <4>2. UNCHANGED <<signed, owner, root, tracked, revoked>> /\ used \subseteq used'
        BY <2>7, <3>2 DEF MarkUsed
      <4> QED BY ONLY IInv, <4>1, <4>2, OutsideSession
    <3> QED BY <3>1, <3>2
  <2>8. ASSUME RefreshGetUser(r) PROVE SessionInv'
    BY <2>8 DEF RefreshGetUser
  <2>9. ASSUME NEW t \in Tokens, Issue(r, t) PROVE SessionInv'
    BY <2>9 DEF Issue
  <2>10. ASSUME NEW b \in BOOLEAN, Track(r, b) PROVE SessionInv'
    BY <2>10 DEF Track
  <2>11. ASSUME NEW b \in BOOLEAN, Reply(r, b) PROVE SessionInv'
    BY <2>11 DEF Reply
  <2>12. ASSUME NEW b \in BOOLEAN, ReplayRevoke(r, b) PROVE SessionInv'
    BY <2>12 DEF ReplayRevoke, RevokeUser, SessionsOf, InFlight, Unspent
  <2>13. ASSUME LogoutRevoke(r) PROVE SessionInv'
    BY <2>13 DEF LogoutRevoke, RevokeUser, SessionsOf, InFlight, Unspent
  <2>14. ASSUME StepError(r) PROVE SessionInv'
    BY <2>14 DEF StepError
  <2> HIDE DEF vars, authVars, rowVars, reqVars, localVars,
        Goto, Enter, Return, ReturnResult, Reject,
        IInv, TypeOK, StoreTypes, RequestTypes, LocalsInv, RowsInv, RotationInv, SessionInv, OneUnspentPerSession,
        Burnt, Pending, Rotates, Rotating, Unspent
  <2> QED BY <1>4, <2>1, <2>2, <2>3, <2>4, <2>5, <2>6, <2>7, <2>8, <2>9, <2>10,
             <2>11, <2>12, <2>13, <2>14 DEF RequestStep
<1>5. CASE UNCHANGED vars
  BY <1>5
<1> QED BY <1>1, <1>2, <1>3, <1>4, <1>5 DEF Next

\* Every step leaves ended sessions ended: RevokeUser revokes all unspent tokens of a
\* session because they have one owner, and only a rotation in flight could add one.
LEMMA QuietStep == IInv /\ [Next]_vars => QuietInv'
<1> SUFFICES ASSUME IInv, [Next]_vars
             PROVE  QuietInv'
  OBVIOUS
<1> USE AuthConstants
    DEF vars, authVars, rowVars, reqVars, localVars,
        Goto, Enter, Return, ReturnResult, Reject,
        IInv, TypeOK, StoreTypes, RequestTypes, LocalsInv, RowsInv, SessionInv, QuietInv, QuietSessionsStayEnded,
        Rotates, Rotating, Unspent
<1>1. CASE Purge
  BY <1>1 DEF Purge, RefreshExp
<1>2. CASE Restart
  BY <1>2 DEF Restart
<1>3. CASE Tick
  BY <1>3 DEF Tick
<1>4. ASSUME NEW r \in Requests, RequestStep(r)
      PROVE  QuietInv'
  <2>1. ASSUME NEW u \in Users, NEW b \in BOOLEAN, Register(r, u, b) PROVE QuietInv'
    BY <2>1 DEF Register
  <2>2. ASSUME NEW u \in Users, Login(r, u) PROVE QuietInv'
    BY <2>2 DEF Login
  <2>3. ASSUME NEW t \in Tokens, Logout(r, t) PROVE QuietInv'
    BY <2>3 DEF Logout
  <2>4. ASSUME NEW t \in Tokens, RefreshParse(r, t) PROVE QuietInv'
    BY <2>4 DEF RefreshParse
  <2>5. ASSUME RefreshStatus(r) PROVE QuietInv'
    BY <2>5 DEF RefreshStatus
  <2>6. ASSUME RefreshIsLive(r) PROVE QuietInv'
    BY <2>6 DEF RefreshIsLive
  <2>7. ASSUME NEW b \in BOOLEAN, MarkUsed(r, b) PROVE QuietInv'
    BY <2>7 DEF MarkUsed, Unspent
  <2>8. ASSUME RefreshGetUser(r) PROVE QuietInv'
    BY <2>8 DEF RefreshGetUser
  <2>9. ASSUME NEW t \in Tokens, Issue(r, t) PROVE QuietInv'
    BY <2>9 DEF Issue
  <2>10. ASSUME NEW b \in BOOLEAN, Track(r, b) PROVE QuietInv'
    BY <2>10 DEF Track
  <2>11. ASSUME NEW b \in BOOLEAN, Reply(r, b) PROVE QuietInv'
    BY <2>11 DEF Reply
  <2>12. ASSUME NEW b \in BOOLEAN, ReplayRevoke(r, b) PROVE QuietInv'
    BY <2>12 DEF ReplayRevoke, RevokeUser, SessionsOf, InFlight, Unspent
  <2>13. ASSUME LogoutRevoke(r) PROVE QuietInv'
    BY <2>13 DEF LogoutRevoke, RevokeUser, SessionsOf, InFlight, Unspent
  <2>14. ASSUME StepError(r) PROVE QuietInv'
    BY <2>14 DEF StepError
  <2> HIDE DEF vars, authVars, rowVars, reqVars, localVars,
        Goto, Enter, Return, ReturnResult, Reject,
        IInv, TypeOK, StoreTypes, RequestTypes, LocalsInv, RowsInv, SessionInv, QuietInv, QuietSessionsStayEnded,
        Rotates, Rotating, Unspent
  <2> QED BY <1>4, <2>1, <2>2, <2>3, <2>4, <2>5, <2>6, <2>7, <2>8, <2>9, <2>10,
             <2>11, <2>12, <2>13, <2>14 DEF RequestStep
<1>5. CASE UNCHANGED vars
  BY <1>5
<1> QED BY <1>1, <1>2, <1>3, <1>4, <1>5 DEF Next

\* Every step keeps replays on their way to the alarm and held tokens tracked; the
\* purge is harmless because the leeway is no longer than its grace.
LEMMA ReplayStep == IInv /\ [Next]_vars => (ReplayInv /\ HeldInv)'
<1> SUFFICES ASSUME IInv, [Next]_vars
             PROVE  (ReplayInv /\ HeldInv)'
  OBVIOUS
<1> USE AuthConstants
    DEF vars, authVars, rowVars, reqVars, localVars,
        Goto, Enter, Return, ReturnResult, Reject,
        IInv, TypeOK, StoreTypes, RequestTypes, LocalsInv, RowsInv, ReplayInv, ReplayDetected, HeldInv,
        HeldTokensTracked, Burnt, Pending, Unspent, ParseOK, RefreshExp
<1>1. CASE Purge
  BY <1>1 DEF Purge, RefreshExp
<1>2. CASE Restart
  BY <1>2 DEF Restart
<1>3. CASE Tick
  BY <1>3 DEF Tick
<1>4. ASSUME NEW r \in Requests, RequestStep(r)
      PROVE  (ReplayInv /\ HeldInv)'
  <2>1. ASSUME NEW u \in Users, NEW b \in BOOLEAN, Register(r, u, b) PROVE (ReplayInv /\ HeldInv)'
    BY <2>1 DEF Register
  <2>2. ASSUME NEW u \in Users, Login(r, u) PROVE (ReplayInv /\ HeldInv)'
    BY <2>2 DEF Login
  <2>3. ASSUME NEW t \in Tokens, Logout(r, t) PROVE (ReplayInv /\ HeldInv)'
    BY <2>3 DEF Logout
  <2>4. ASSUME NEW t \in Tokens, RefreshParse(r, t) PROVE (ReplayInv /\ HeldInv)'
    BY <2>4 DEF RefreshParse
  <2>5. ASSUME RefreshStatus(r) PROVE (ReplayInv /\ HeldInv)'
    BY <2>5 DEF RefreshStatus
  <2>6. ASSUME RefreshIsLive(r) PROVE (ReplayInv /\ HeldInv)'
    BY <2>6 DEF RefreshIsLive
  <2>7. ASSUME NEW b \in BOOLEAN, MarkUsed(r, b) PROVE (ReplayInv /\ HeldInv)'
    BY <2>7 DEF MarkUsed, Unspent
  <2>8. ASSUME RefreshGetUser(r) PROVE (ReplayInv /\ HeldInv)'
    BY <2>8 DEF RefreshGetUser
  <2>9. ASSUME NEW t \in Tokens, Issue(r, t) PROVE (ReplayInv /\ HeldInv)'
    BY <2>9 DEF Issue
  <2>10. ASSUME NEW b \in BOOLEAN, Track(r, b) PROVE (ReplayInv /\ HeldInv)'
    BY <2>10 DEF Track
  <2>11. ASSUME NEW b \in BOOLEAN, Reply(r, b) PROVE (ReplayInv /\ HeldInv)'
    BY <2>11 DEF Reply
  <2>12. ASSUME NEW b \in BOOLEAN, ReplayRevoke(r, b) PROVE (ReplayInv /\ HeldInv)'
    BY <2>12 DEF ReplayRevoke, RevokeUser, SessionsOf, InFlight, Unspent
  <2>13. ASSUME LogoutRevoke(r) PROVE (ReplayInv /\ HeldInv)'
    BY <2>13 DEF LogoutRevoke, RevokeUser, SessionsOf, InFlight, Unspent
  <2>14. ASSUME StepError(r) PROVE (ReplayInv /\ HeldInv)'
    BY <2>14 DEF StepError
  <2> HIDE DEF vars, authVars, rowVars, reqVars, localVars,
        Goto, Enter, Return, ReturnResult, Reject,
        IInv, TypeOK, StoreTypes, RequestTypes, LocalsInv, RowsInv, ReplayInv, ReplayDetected, HeldInv,
        HeldTokensTracked, Burnt, Pending, Unspent, ParseOK, RefreshExp
  <2> QED BY <1>4, <2>1, <2>2, <2>3, <2>4, <2>5, <2>6, <2>7, <2>8, <2>9, <2>10,
             <2>11, <2>12, <2>13, <2>14 DEF RequestStep
<1>5. CASE UNCHANGED vars
  BY <1>5
<1> QED BY <1>1, <1>2, <1>3, <1>4, <1>5 DEF Next

\* IInv is an invariant of the specification.
THEOREM Invariance == Spec => []IInv
<1>1. IInv /\ [Next]_vars => IInv'
  BY RequestTypesStep, StoreTypesStep, BasicStep, RotationStep, SessionStep, QuietStep, ReplayStep DEF IInv, TypeOK
<1> QED BY InitInv, <1>1, PTL DEF Spec

\* Type correctness, for all constants.
THEOREM TypeCorrect == Spec => []TypeOK
<1>1. IInv => TypeOK BY DEF IInv
<1> QED BY Invariance, <1>1, PTL

\* A refresh token is exchanged for at most one new token, however many requests
\* race to redeem it and whatever fails in between.
THEOREM AtMostOnceRedemption == Spec => []RedeemedOnce
<1>1. IInv => RedeemedOnce BY DEF IInv, RotationInv
<1> QED BY Invariance, <1>1, PTL

\* A session never has two redeemable refresh tokens.
THEOREM SingleUnspent == Spec => []OneUnspentPerSession
<1>1. IInv => OneUnspentPerSession BY DEF IInv, SessionInv
<1> QED BY Invariance, <1>1, PTL

\* A revoked token is never exchanged: a burnt parent is redeemed or has no row, and
\* no row is both redeemed and revoked.
THEOREM RevocationFinal == Spec => []RevokedNeverRotated
<1>1. IInv => RevokedNeverRotated
  BY AuthConstants DEF IInv, TypeOK, StoreTypes, RowsInv, RotationInv, RevokedNeverRotated, Burnt
<1> QED BY Invariance, <1>1, PTL

\* A session revoked while nothing rotates it stays ended.
THEOREM QuietRevocationComplete == Spec => []QuietSessionsStayEnded
<1>1. IInv => QuietSessionsStayEnded BY DEF IInv, QuietInv
<1> QED BY Invariance, <1>1, PTL

\* A replay within the lifetime of the JWT always reaches the alarm.
THEOREM ReplayAlwaysDetected == Spec => []ReplayDetected
<1>1. IInv => ReplayDetected BY DEF IInv, ReplayInv
<1> QED BY Invariance, <1>1, PTL

\* Every token a client can still present has a row.
THEOREM HeldAlwaysTracked == Spec => []HeldTokensTracked
<1>1. IInv => HeldTokensTracked BY DEF IInv, HeldInv
<1> QED BY Invariance, <1>1, PTL

\* No step makes a token redeemable that was signed and is not: only Track adds a row,
\* and only for a pending token; marks are never cleared and the clock never goes back.
LEMMA DeadStep == IInv /\ [Next]_vars => StaysDead
<1> SUFFICES ASSUME IInv, [Next]_vars
             PROVE  StaysDead
  OBVIOUS
<1> USE AuthConstants
    DEF vars, authVars, rowVars, reqVars, localVars,
        Goto, Enter, Return, ReturnResult, Reject,
        IInv, TypeOK, StoreTypes, RequestTypes, LocalsInv, RowsInv, StaysDead, IsLive, Unspent, Pending, RefreshExp
<1>1. CASE Purge
  BY <1>1 DEF Purge, RefreshExp
<1>2. CASE Restart
  BY <1>2 DEF Restart
<1>3. CASE Tick
  BY <1>3 DEF Tick
<1>4. ASSUME NEW r \in Requests, RequestStep(r)
      PROVE  StaysDead
  <2>1. ASSUME NEW u \in Users, NEW b \in BOOLEAN, Register(r, u, b) PROVE StaysDead
    BY <2>1 DEF Register
  <2>2. ASSUME NEW u \in Users, Login(r, u) PROVE StaysDead
    BY <2>2 DEF Login
  <2>3. ASSUME NEW t \in Tokens, Logout(r, t) PROVE StaysDead
    BY <2>3 DEF Logout
  <2>4. ASSUME NEW t \in Tokens, RefreshParse(r, t) PROVE StaysDead
    BY <2>4 DEF RefreshParse
  <2>5. ASSUME RefreshStatus(r) PROVE StaysDead
    BY <2>5 DEF RefreshStatus
  <2>6. ASSUME RefreshIsLive(r) PROVE StaysDead
    BY <2>6 DEF RefreshIsLive
  <2>7. ASSUME NEW b \in BOOLEAN, MarkUsed(r, b) PROVE StaysDead
    BY <2>7 DEF MarkUsed, Unspent
  <2>8. ASSUME RefreshGetUser(r) PROVE StaysDead
    BY <2>8 DEF RefreshGetUser
  <2>9. ASSUME NEW t \in Tokens, Issue(r, t) PROVE StaysDead
    BY <2>9 DEF Issue
  <2>10. ASSUME NEW b \in BOOLEAN, Track(r, b) PROVE StaysDead
    BY <2>10 DEF Track
  <2>11. ASSUME NEW b \in BOOLEAN, Reply(r, b) PROVE StaysDead
    BY <2>11 DEF Reply
  <2>12. ASSUME NEW b \in BOOLEAN, ReplayRevoke(r, b) PROVE StaysDead
    BY <2>12 DEF ReplayRevoke, RevokeUser, SessionsOf, InFlight, Unspent
  <2>13. ASSUME LogoutRevoke(r) PROVE StaysDead
    BY <2>13 DEF LogoutRevoke, RevokeUser, SessionsOf, InFlight, Unspent
  <2>14. ASSUME StepError(r) PROVE StaysDead
    BY <2>14 DEF StepError
  <2> HIDE DEF vars, authVars, rowVars, reqVars, localVars,
        Goto, Enter, Return, ReturnResult, Reject,
        IInv, TypeOK, StoreTypes, RequestTypes, LocalsInv, RowsInv, StaysDead, IsLive, Unspent, Pending, RefreshExp
  <2> QED BY <1>4, <2>1, <2>2, <2>3, <2>4, <2>5, <2>6, <2>7, <2>8, <2>9, <2>10,
             <2>11, <2>12, <2>13, <2>14 DEF RequestStep
<1>5. CASE UNCHANGED vars
  BY <1>5
<1> QED BY <1>1, <1>2, <1>3, <1>4, <1>5 DEF Next

\* A dead token stays dead.
THEOREM DeadForever == Spec => DeadTokensStayDead
<1>1. IInv /\ [Next]_vars => StaysDead
  BY DeadStep
<1> QED BY Invariance, <1>1, PTL DEF Spec, DeadTokensStayDead, StaysDead
=============================================================================
