----------------------------- MODULE AuthSession -----------------------------
(***************************************************************************)
(* Sessions of the SmartClass backend: the auth service (register, login,  *)
(* refresh with rotation and replay detection, logout), the Postgres table *)
(* refresh_tokens behind it, the JWT issuer and the hourly purge.          *)
(*                                                                         *)
(* Every HTTP request is a process that takes one step per database        *)
(* statement, so that requests interleave exactly where the code lets      *)
(* them: the service holds no lock and opens no transaction.  A statement  *)
(* is atomic (a single-statement UPDATE re-evaluates its WHERE clause on   *)
(* the locked row).  Each statement may fail without effect, or be         *)
(* committed while the caller gets an error (its context is cancelled, the *)
(* connection drops), and the whole server may restart at any time.        *)
(*                                                                         *)
(* A refresh token is named by its jti.  The columns user_id and           *)
(* expires_at of its row repeat the claims of the JWT (issuePair tracks    *)
(* what Issue returned), so both live in owner and iat.                    *)
(***************************************************************************)
EXTENDS Naturals

CONSTANTS
    Users,       \* accounts somebody may register
    Requests,    \* requests that may be in flight at once
    Tokens,      \* refresh jtis the issuer may draw (uuid.New, never repeated)
    NoToken,     \* no token: the request is not a refresh
    NoUser,      \* the request has not established whom it is for
    AccessTTL,   \* JWT_ACCESS_TTL
    RefreshTTL,  \* JWT_REFRESH_TTL
    Leeway,      \* the 30 s Parse tolerates after exp
    PurgeGrace,  \* the day an expired row is kept
    MaxTime      \* bound on the clock

ASSUME AuthConstants ==
    /\ NoToken \notin Tokens
    /\ NoUser \notin Users
    /\ AccessTTL \in Nat /\ RefreshTTL \in Nat
    /\ Leeway \in Nat /\ PurgeGrace \in Nat /\ MaxTime \in Nat
    /\ Leeway =< PurgeGrace

VARIABLES
    now,         \* the clock shared by the service and the database
    accounts,    \* table users
    signed,      \* jtis a JWT was signed for
    owner, iat,  \* claims of a signed jti: user and time of issue
    tracked,     \* table refresh_tokens: jtis that have a row
    used,        \* rows with used_at IS NOT NULL
    revoked,     \* rows with revoked_at IS NOT NULL
    held,        \* tokens that reached a client (or whoever copied them)
    pc, tok, who, mint,  \* per request: step, presented jti, user, new jti
    parent,      \* history: the token a token was issued for, NoToken after a login
    root,        \* history: the login token that started the session
    stale,       \* history: whether the request presented an already redeemed token
    missed,      \* history: the kinds of replay that were refused without an alarm
    quiet        \* history: sessions revoked by RevokeUser while no rotation of theirs was in flight

authVars == <<accounts, signed, owner, iat, held, parent, root>>
rowVars  == <<tracked, used, revoked, quiet>>
localVars == <<tok, who, mint, stale>>
reqVars  == <<pc, localVars, missed>>
vars     == <<now, authVars, rowVars, reqVars>>

Steps    == {"idle", "status", "islive", "mark", "revoke", "getuser", "issue",
             "track", "reply", "logout"}

\* Steps of a refresh between the commit of MarkUsed and the commit of Track.
Rotating == {"getuser", "issue", "track"}

RefreshExp(t) == iat[t] + RefreshTTL
AccessExp(t)  == iat[t] + AccessTTL

\* jwt.WithLeeway: a JWT is accepted until exp + leeway.
ParseOK(exp) == now < exp + Leeway

\* RefreshStatus: a row that is neither used nor revoked; IsLive adds the clock.
Unspent(t) == t \in tracked /\ t \notin used /\ t \notin revoked
IsLive(t)  == Unspent(t) /\ now < RefreshExp(t)

-----------------------------------------------------------------------------
Init ==
    /\ now = 0
    /\ accounts = {} /\ signed = {} /\ held = {}
    /\ owner = [t \in Tokens |-> NoUser]
    /\ iat = [t \in Tokens |-> 0]
    /\ parent = [t \in Tokens |-> NoToken]
    /\ root = [t \in Tokens |-> t]
    /\ tracked = {} /\ used = {} /\ revoked = {} /\ quiet = {}
    /\ pc = [r \in Requests |-> "idle"]
    /\ tok = [r \in Requests |-> NoToken]
    /\ who = [r \in Requests |-> NoUser]
    /\ mint = [r \in Requests |-> NoToken]
    /\ stale = [r \in Requests |-> "no"]
    /\ missed = {}

\* Control of request r moves to another step of its handler.
Goto(r, step) ==
    /\ pc' = [pc EXCEPT ![r] = step]
    /\ UNCHANGED <<localVars, missed>>

\* The handler of r returns; its locals are gone.
Return(r) ==
    /\ pc' = [pc EXCEPT ![r] = "idle"]
    /\ tok' = [tok EXCEPT ![r] = NoToken]
    /\ who' = [who EXCEPT ![r] = NoUser]
    /\ mint' = [mint EXCEPT ![r] = NoToken]
    /\ stale' = [stale EXCEPT ![r] = "no"]

\* The handler of r returns after a replay alarm, an error or a success ...
ReturnResult(r) == Return(r) /\ UNCHANGED missed

\* ... or with ErrInvalidRefresh and no alarm, for the reason the history keeps
\* (a row that is gone cannot tell a replay).
Reject(kind, t) ==
    missed' = IF kind # "no" /\ t \in tracked THEN missed \cup {kind} ELSE missed

\* A request for user u that presents token t reaches its first statement.
Enter(r, u, t, kind, step) ==
    /\ pc' = [pc EXCEPT ![r] = step]
    /\ who' = [who EXCEPT ![r] = u]
    /\ tok' = [tok EXCEPT ![r] = t]
    /\ stale' = [stale EXCEPT ![r] = kind]
    /\ UNCHANGED mint

-----------------------------------------------------------------------------
\* Register: users.Create, whose unique index on the e-mail refuses a second
\* account.  A taken e-mail, an invalid role or a hash error changes nothing.
Register(r, u, ack) ==
    /\ pc[r] = "idle"
    /\ u \notin accounts
    /\ accounts' = accounts \cup {u}
    /\ IF ack THEN Enter(r, u, NoToken, "no", "issue") /\ UNCHANGED missed
              ELSE ReturnResult(r)
    /\ UNCHANGED <<now, signed, owner, iat, held, parent, root, rowVars>>

\* Login: GetByEmail and the bcrypt comparison succeed; a failure changes nothing.
Login(r, u) ==
    /\ pc[r] = "idle"
    /\ u \in accounts
    /\ Enter(r, u, NoToken, "no", "issue")
    /\ UNCHANGED <<now, authVars, rowVars, missed>>

\* Logout behind the Authn middleware: the access JWT of t's pair must parse.
Logout(r, t) ==
    /\ pc[r] = "idle"
    /\ t \in held
    /\ ParseOK(AccessExp(t))
    /\ Enter(r, owner[t], NoToken, "no", "logout")
    /\ UNCHANGED <<now, authVars, rowVars, missed>>

\* Refresh, first part: Parse and the Kind check, on any JWT a client holds; a refusal
\* has no effect.
RefreshParse(r, t) ==
    /\ pc[r] = "idle"
    /\ t \in held
    /\ ParseOK(RefreshExp(t))
    /\ Enter(r, owner[t], t, IF t \in tracked \cap used THEN "replay" ELSE "no", "status")
    /\ UNCHANGED <<now, authVars, rowVars, missed>>

\* Mutant: IsLive is checked before IsUsed, so a redeemed row is refused quietly.
RefreshStatus_LiveFirst(r) ==
    /\ pc[r] = "status"
    /\ \/ Unspent(tok[r]) /\ Goto(r, "islive")
       \/ ~Unspent(tok[r]) /\ Reject(stale[r], tok[r]) /\ Return(r)
    /\ UNCHANGED <<now, authVars, rowVars>>

\* Refresh: store.Status and the branches on the row it read.
RefreshStatus(r) ==
    /\ pc[r] = "status"
    /\ \/ Unspent(tok[r]) /\ Goto(r, "islive")
       \/ tok[r] \in tracked \cap used /\ Goto(r, "revoke")
       \/ /\ tok[r] \notin tracked \/ tok[r] \in revoked \ used
          /\ Reject(stale[r], tok[r]) /\ Return(r)
    /\ UNCHANGED <<now, authVars, rowVars>>

\* Refresh: status.IsLive(timeNow()) on the row read before.
RefreshIsLive(r) ==
    /\ pc[r] = "islive"
    /\ IF now < RefreshExp(tok[r])
       THEN Goto(r, "mark")
       ELSE Reject(stale[r], tok[r]) /\ Return(r)
    /\ UNCHANGED <<now, authVars, rowVars>>

\* Mutant: the UPDATE lacks used_at IS NULL.
MarkUsed_Unguarded(r, ack) ==
    /\ pc[r] = "mark"
    /\ IF tok[r] \in tracked \ revoked
       THEN /\ used' = used \cup {tok[r]}
            /\ IF ack THEN Goto(r, "getuser") ELSE ReturnResult(r)
       ELSE UNCHANGED used /\ Goto(r, "revoke")
    /\ UNCHANGED <<now, authVars, tracked, revoked, quiet>>

\* MarkUsed: UPDATE ... SET used_at WHERE used_at IS NULL AND revoked_at IS NULL;
\* no row updated means ErrRefreshAlreadyUsed, which revokes.
MarkUsed(r, ack) ==
    /\ pc[r] = "mark"
    /\ IF Unspent(tok[r])
       THEN /\ used' = used \cup {tok[r]}
            /\ IF ack THEN Goto(r, "getuser") ELSE ReturnResult(r)
       ELSE UNCHANGED used /\ Goto(r, "revoke")
    /\ UNCHANGED <<now, authVars, tracked, revoked, quiet>>

\* users.GetByID; nothing deletes a user, so the account is found.
RefreshGetUser(r) ==
    /\ pc[r] = "getuser"
    /\ Goto(r, "issue")
    /\ UNCHANGED <<now, authVars, rowVars>>

\* issuer.Issue: sign a pair with a fresh jti at the current time.
Issue(r, t) ==
    /\ pc[r] = "issue"
    /\ t \notin signed
    /\ signed' = signed \cup {t}
    /\ owner' = [owner EXCEPT ![t] = who[r]]
    /\ iat' = [iat EXCEPT ![t] = now]
    /\ parent' = [parent EXCEPT ![t] = tok[r]]
    /\ root' = [root EXCEPT ![t] = IF tok[r] = NoToken THEN t ELSE root[tok[r]]]
    /\ mint' = [mint EXCEPT ![r] = t]
    /\ pc' = [pc EXCEPT ![r] = "track"]
    /\ UNCHANGED <<now, accounts, held, rowVars, tok, who, stale, missed>>

\* store.Track: INSERT the row of the new jti.
Track(r, ack) ==
    /\ pc[r] = "track"
    /\ tracked' = tracked \cup {mint[r]}
    /\ IF ack THEN Goto(r, "reply") ELSE ReturnResult(r)
    /\ UNCHANGED <<now, authVars, used, revoked, quiet>>

\* The response with the pair; it may never arrive.
Reply(r, delivered) ==
    /\ pc[r] = "reply"
    /\ held' = IF delivered THEN held \cup {mint[r]} ELSE held
    /\ ReturnResult(r)
    /\ UNCHANGED <<now, accounts, signed, owner, iat, parent, root, rowVars>>

-----------------------------------------------------------------------------
\* Sessions of u that have a row, and whether a refresh of session s is between
\* its MarkUsed and its Track.
SessionsOf(u) == {root[t] : t \in {x \in tracked : owner[x] = u}}
InFlight(s) == \E r \in Requests : pc[r] \in Rotating /\ tok[r] # NoToken /\ root[tok[r]] = s

\* Mutant: tokens issued in the current instant escape.
RevokeUser_OlderOnly(u) ==
    /\ revoked' = revoked \cup {t \in Tokens : Unspent(t) /\ owner[t] = u /\ iat[t] < now}
    /\ quiet' = quiet \cup {s \in SessionsOf(u) : ~InFlight(s)}

\* RevokeUser: one UPDATE over the unspent rows of u.
RevokeUser(u) ==
    /\ revoked' = revoked \cup {t \in Tokens : Unspent(t) /\ owner[t] = u}
    /\ quiet' = quiet \cup {s \in SessionsOf(u) : ~InFlight(s)}

\* Replay detected: RevokeUser, whose error is only logged, then a 401.
ReplayRevoke(r, done) ==
    /\ pc[r] = "revoke"
    /\ IF done THEN RevokeUser(who[r]) ELSE UNCHANGED <<revoked, quiet>>
    /\ ReturnResult(r)
    /\ UNCHANGED <<now, authVars, tracked, used>>

\* Logout: RevokeUser.
LogoutRevoke(r) ==
    /\ pc[r] = "logout"
    /\ RevokeUser(who[r])
    /\ ReturnResult(r)
    /\ UNCHANGED <<now, authVars, tracked, used>>

\* Mutant: a failed refresh gives the token back.
StepError_Unburns(r) ==
    /\ pc[r] \in {"status", "mark", "getuser", "issue", "track", "logout"}
    /\ used' = used \ {tok[r]}
    /\ ReturnResult(r)
    /\ UNCHANGED <<now, authVars, tracked, revoked, quiet>>

\* A call of the step fails without effect and the handler returns its error.
StepError(r) ==
    /\ pc[r] \in {"status", "mark", "getuser", "issue", "track", "logout"}
    /\ ReturnResult(r)
    /\ UNCHANGED <<now, authVars, rowVars>>

-----------------------------------------------------------------------------
\* Mutant: rows go the moment they expire.
Purge_NoGrace ==
    LET gone == {t \in tracked : RefreshExp(t) =< now}
    IN  /\ gone # {}
        /\ tracked' = tracked \ gone
        /\ used' = used \ gone
        /\ revoked' = revoked \ gone
        /\ UNCHANGED <<now, authVars, quiet, reqVars>>

\* purgeExpiredRefreshTokens: DELETE rows that expired more than the grace ago.
Purge ==
    LET gone == {t \in tracked : RefreshExp(t) + PurgeGrace < now}
    IN  /\ gone # {}
        /\ tracked' = tracked \ gone
        /\ used' = used \ gone
        /\ revoked' = revoked \ gone
        /\ UNCHANGED <<now, authVars, quiet, reqVars>>

\* The process stops and starts again: requests in flight are lost.
Restart ==
    /\ \E r \in Requests : pc[r] # "idle"
    /\ pc' = [r \in Requests |-> "idle"]
    /\ tok' = [r \in Requests |-> NoToken]
    /\ who' = [r \in Requests |-> NoUser]
    /\ mint' = [r \in Requests |-> NoToken]
    /\ stale' = [r \in Requests |-> "no"]
    /\ UNCHANGED <<now, authVars, rowVars, missed>>

Tick ==
    /\ now < MaxTime
    /\ now' = now + 1
    /\ UNCHANGED <<authVars, rowVars, reqVars>>

RequestStep(r) ==
    \/ \E u \in Users : Login(r, u) \/ \E ack \in BOOLEAN : Register(r, u, ack)
    \/ \E t \in Tokens : Logout(r, t) \/ RefreshParse(r, t) \/ Issue(r, t)
    \/ RefreshStatus(r) \/ RefreshIsLive(r) \/ RefreshGetUser(r)
    \/ LogoutRevoke(r) \/ StepError(r)
    \/ \E b \in BOOLEAN : MarkUsed(r, b) \/ Track(r, b) \/ Reply(r, b) \/ ReplayRevoke(r, b)

Next == Purge \/ Restart \/ Tick \/ \E r \in Requests : RequestStep(r)

Spec == Init /\ [][Next]_vars

-----------------------------------------------------------------------------
RequestTypes ==
    /\ pc \in [Requests -> Steps]
    /\ tok \in [Requests -> Tokens \cup {NoToken}]
    /\ who \in [Requests -> Users \cup {NoUser}]
    /\ mint \in [Requests -> Tokens \cup {NoToken}]
    /\ stale \in [Requests -> {"no", "replay"}]
    /\ missed \subseteq {"replay"}

StoreTypes ==
    /\ now \in Nat
    /\ accounts \subseteq Users
    /\ signed \subseteq Tokens
    /\ owner \in [Tokens -> Users \cup {NoUser}]
    /\ iat \in [Tokens -> Nat]
    /\ tracked \subseteq Tokens /\ used \subseteq tracked /\ revoked \subseteq tracked
    /\ held \subseteq Tokens
    /\ parent \in [Tokens -> Tokens \cup {NoToken}]
    /\ root \in [Tokens -> Tokens]
    /\ quiet \subseteq Tokens

\* Types of the tables, the claims and the locals of the requests; used_at and
\* revoked_at exist only in rows.
TypeOK == RequestTypes /\ StoreTypes

\* Rotation is linear: whatever requests race to redeem a refresh token, at most
\* one new token is ever signed for it (MarkUsed decides the race, not Status).
RedeemedOnce ==
    \A s, t \in signed : s # t /\ parent[s] = parent[t] => parent[s] = NoToken

\* A session (a login and the rotations that follow it) never has two refresh
\* tokens that could both still be redeemed.
OneUnspentPerSession ==
    \A s, t \in Tokens : Unspent(s) /\ Unspent(t) /\ root[s] = root[t] => s = t

\* A token revoked by a logout or by replay detection is never exchanged for a
\* new one, also when the revocation lands between Status and MarkUsed.
RevokedNeverRotated ==
    \A t \in signed : parent[t] \notin revoked

\* RevokeUser ends for good every session of the user that has no rotation in
\* flight at that moment: none of its tokens is ever redeemable again.
QuietSessionsStayEnded ==
    \A t \in Tokens : Unspent(t) => root[t] \notin quiet

\* A redeemed token presented again while its JWT still parses is recognised as
\* a replay (or the request fails on the database), unless its row is gone.
ReplayDetected == "replay" \notin missed

\* Every refresh token a client holds and Parse still accepts has a row, so it
\* can be rotated or revoked: issuePair hands out no untracked token and the
\* purge removes none too early.
HeldTokensTracked ==
    \A t \in held : ParseOK(RefreshExp(t)) => t \in tracked

\* A token about to be tracked by some request.
Pending(t) == \E r \in Requests : pc[r] = "track" /\ mint[r] = t

\* No token that is dead now is redeemable after the step.
StaysDead == \A t \in Tokens : (t \in signed /\ ~IsLive(t) /\ ~Pending(t)) => ~IsLive(t)'

\* A token that is spent, revoked, expired, purged or was never tracked does not
\* become redeemable again, whatever fails or restarts.
DeadTokensStayDead == [][StaysDead]_vars

-----------------------------------------------------------------------------
(* The inductive invariant behind the properties above.                    *)

\* A token that was redeemed, or whose row came and went or never came.
Burnt(t) == t \in used \/ (t \notin tracked /\ ~Pending(t))

\* Request r carries on a session it has burnt a token of.
Rotates(r) == pc[r] \in Rotating /\ tok[r] # NoToken

\* The locals of a request agree with the step it is at.
LocalsInv ==
    \A r \in Requests :
        /\ pc[r] = "idle" => tok[r] = NoToken /\ mint[r] = NoToken
        /\ tok[r] # NoToken => tok[r] \in signed /\ who[r] = owner[tok[r]]
        /\ pc[r] \in {"status", "islive", "mark", "revoke", "getuser"} => tok[r] # NoToken
        /\ pc[r] \in {"issue", "track", "reply", "logout"} => who[r] \in Users
        /\ pc[r] \in {"track", "reply"} => mint[r] \in signed
        /\ pc[r] = "track" => mint[r] \notin tracked
        /\ \A q \in Requests :
              (pc[r] = "track" /\ pc[q] = "track" /\ mint[r] = mint[q]) => r = q

\* Rows belong to signed tokens and no row is both redeemed and revoked.
RowsInv ==
    /\ tracked \subseteq signed /\ held \subseteq signed
    /\ used \cap revoked = {}
    /\ \A t \in signed : owner[t] \in Users

\* A token is burnt before a token is signed for it, and by one request only.
RotationInv ==
    /\ \A t \in signed : parent[t] # NoToken => parent[t] \in signed /\ Burnt(parent[t])
    /\ \A r \in Requests : Rotates(r) => Burnt(tok[r])
    /\ \A r \in Requests : Rotates(r) /\ pc[r] # "track" =>
           /\ \A t \in signed : parent[t] # tok[r]
           /\ \A q \in Requests : Rotates(q) /\ pc[q] # "track" /\ tok[q] = tok[r] => q = r
    /\ RedeemedOnce

\* All tokens of a session have one owner; a session that a request carries on has
\* no redeemable token and no second request that carries it on.
SessionInv ==
    /\ \A t \in signed : root[t] \in signed /\ owner[root[t]] = owner[t]
    /\ \A r \in Requests : pc[r] = "track" =>
           IF tok[r] = NoToken
           THEN root[mint[r]] = mint[r] /\ \A t \in signed \ {mint[r]} : root[t] # mint[r]
           ELSE root[mint[r]] = root[tok[r]]
    /\ \A r \in Requests : Rotates(r) => \A t \in Tokens : Unspent(t) => root[t] # root[tok[r]]
    /\ \A r, q \in Requests : Rotates(r) /\ Rotates(q) /\ root[tok[r]] = root[tok[q]] => r = q
    /\ OneUnspentPerSession

\* An ended session is known by its login token, and nothing carries it on.
QuietInv ==
    /\ quiet \subseteq signed
    /\ \A r \in Requests : Rotates(r) => root[tok[r]] \notin quiet
    /\ \A r \in Requests : pc[r] = "track" /\ tok[r] = NoToken => mint[r] \notin quiet
    /\ QuietSessionsStayEnded

\* A request that presented a redeemed token can only reach the alarm.
ReplayInv ==
    /\ \A r \in Requests : stale[r] = "replay" =>
           pc[r] \in {"status", "revoke"} /\ Burnt(tok[r])
    /\ ReplayDetected

\* A token in a response or with a client has a row as long as Parse accepts it.
HeldInv ==
    /\ \A r \in Requests : pc[r] = "reply" /\ ParseOK(RefreshExp(mint[r])) => mint[r] \in tracked
    /\ HeldTokensTracked

IInv == /\ TypeOK /\ LocalsInv /\ RowsInv /\ RotationInv
        /\ SessionInv /\ QuietInv /\ ReplayInv /\ HeldInv

=============================================================================
