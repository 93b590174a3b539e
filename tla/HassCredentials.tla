--------------------------- MODULE HassCredentials ---------------------------
(***************************************************************************)
(* The access token that the backend holds for Home Assistant (HA): the    *)
(* bootstrap that obtains it (background loop and requests alike), its     *)
(* refresh, and SetToken, by which an administrator replaces it.           *)
(*                                                                         *)
(* s.mu guards the copy in memory; Bootstrap holds it over all its network *)
(* and database calls, everybody else for single assignments only.         *)
(* refreshMu is held over a whole refresh.  A call to HA or to the         *)
(* database succeeds, fails without an effect, or fails after its effect   *)
(* (its answer is lost); every failure draws on a budget, so that each     *)
(* behaviour has finitely many.  Tokens are drawn from a pool from which a *)
(* token may be drawn again when nothing refers to it any more.            *)
(***************************************************************************)
EXTENDS Naturals

CONSTANTS
    Reqs,           \* requests in flight at once that need the token
    Admins,         \* requests in flight at once that set it
    Boot,           \* the goroutine that runs BootstrapWithRetry
    Tokens,         \* access tokens HA can issue for our OAuth grant
    Manual,         \* long-lived tokens an administrator may paste
    None,
    Steps,          \* onboarding steps after the owner: core_config, integration, analytics
    SaveAttempts,   \* attempts to persist a refreshed token, 4
    FinishAttempts, \* passes of FinishOnboarding, 5
    MaxFaults,      \* bound on failed calls
    MaxRestarts     \* bound on restarts of the backend

ASSUME HassConstants ==
    /\ Boot \notin Reqs \cup Admins
    /\ None \notin Reqs \cup Admins \cup {Boot} \cup Tokens \cup Manual
    /\ Tokens \subseteq Nat /\ Tokens \cap Manual = {}
    /\ SaveAttempts \in Nat \ {0} /\ FinishAttempts \in Nat
    /\ MaxFaults \in Nat /\ MaxRestarts \in Nat

VARIABLES
    creds,          \* s.creds: the token in memory, or None
    bootstrapErr,   \* s.bootstrapErr
    mu, refreshMu,  \* holder of the mutex, or None
    row,            \* hass_config: the stored token, or None
    pc, new, att,   \* per process: step, token it was issued or pasted, attempts made
    ha,             \* HA: owner exists, our password fits, onboarding steps to do
    stale,          \* tokens with less than 60 s to live
    faults, restarts,
    blip,           \* history: a login failed although HA would have let us in
    drift           \* history: a save failed, or two writers of the token overlapped

memVars == <<creds, bootstrapErr, mu, refreshMu>>
procVars == <<pc, new, att>>
haVars == <<ha, stale>>
vars == <<memVars, row, procVars, haVars, faults, restarts, blip, drift>>

Procs == Reqs \cup Admins \cup {Boot}

\* A manual token has no expiry; an OAuth token comes with a refresh token.
NeedsRefresh(t) == t \in Tokens /\ t \in stale

InUse == {creds, row} \cup {new[p] : p \in Procs}

\* The next token HA issues.
Issued(t) == t \in Tokens \ InUse /\ \A u \in Tokens \ InUse : t <= u

Init ==
    /\ creds = None /\ bootstrapErr = "nil" /\ mu = None /\ refreshMu = None
    /\ row = None
    /\ pc = [p \in Procs |-> IF p = Boot THEN "boot" ELSE "idle"]
    /\ new = [p \in Procs |-> None]
    /\ att = [p \in Procs |-> 0]
    /\ ha \in {[owner |-> FALSE, pw |-> FALSE, todo |-> Steps],
               [owner |-> TRUE, pw |-> FALSE, todo |-> {}],
               [owner |-> TRUE, pw |-> TRUE, todo |-> Steps]}
    /\ stale = {}
    /\ faults = 0 /\ restarts = 0 /\ blip = FALSE /\ drift = FALSE

-----------------------------------------------------------------------------
(* HA and the database as their clients see them.                          *)

Fault == faults < MaxFaults /\ faults' = faults + 1
Fine == UNCHANGED faults

\* An authenticated call: an answer that decodes, or an error.
requestJSON(ok) == IF ok THEN Fine ELSE Fault

\* GET /api/states.
ListEntities(ok) == requestJSON(ok)

\* GET /api/onboarding; a 404 reads as "all done".
OnboardingStatus(ok) == IF ok THEN Fine ELSE Fault

\* POST /api/onboarding/users: the code, ErrAlreadyOnboarded on a 403, any other error
\* before or after the owner was created.
CreateOwner(out) ==
    \/ out = "forbidden" /\ ha.owner /\ Fine /\ UNCHANGED ha
    \/ out = "ok" /\ ~ha.owner /\ Fine /\ ha' = [ha EXCEPT !.owner = TRUE, !.pw = TRUE]
    \/ out = "error" /\ Fault /\ UNCHANGED ha
    \/ out = "error" /\ ~ha.owner /\ Fault /\ ha' = [ha EXCEPT !.owner = TRUE, !.pw = TRUE]

\* POST /auth/token, for a code or for a refresh token, which stays valid.
tokenRequest(p, ok) ==
    IF ok THEN /\ Fine
               /\ \E t \in Tokens : /\ Issued(t)
                                    /\ new' = [new EXCEPT ![p] = t]
                                    /\ stale' = (stale \cap InUse) \ {t}
          ELSE Fault /\ UNCHANGED <<new, stale>>

\* The login flow: opened, submitted, and its code exchanged.
LoginWithPassword(p, ok) ==
    IF ok THEN ha.pw /\ tokenRequest(p, TRUE) /\ UNCHANGED blip
          ELSE /\ UNCHANGED <<new, stale>>
               /\ \/ ~ha.pw /\ Fine /\ UNCHANGED blip
                  \/ ha.pw /\ Fault /\ blip' = TRUE

\* One POST per pending step; the steps in done were taken, the others failed.
postOnboardingSteps(done) ==
    /\ done \subseteq ha.todo
    /\ ha' = [ha EXCEPT !.todo = @ \ done]
    /\ IF done = ha.todo THEN Fine ELSE Fault

\* pgRepo.Load: the stored token, errNoRow as None, or another error.
Load(t, ok) == IF ok THEN t = row /\ Fine ELSE t = None /\ Fault

\* pgRepo.Save of token t: done, refused, or done with its answer lost.
Save(t, ok) ==
    IF ok THEN row' = t /\ Fine ELSE row' \in {row, t} /\ Fault

-----------------------------------------------------------------------------
Goto(p, step) == pc' = [pc EXCEPT ![p] = step]

\* The end of a call of Credentials; refreshMu is released if p holds it.
Done(p) ==
    /\ Goto(p, IF p = Boot THEN "done" ELSE "idle")
    /\ refreshMu' = IF refreshMu = p THEN None ELSE refreshMu

\* Mutant: requests wait for the bootstrap to succeed, as the background loop does.
Return_Waits(p, ok) ==
    /\ mu' = None
    /\ Goto(p, IF ~ok THEN IF p = Boot THEN "backoff" ELSE "boot"
               ELSE IF p = Boot THEN "cred" ELSE "idle")

\* Bootstrap returns: a request has its answer, BootstrapWithRetry goes on to the
\* self-check (which starts with Credentials) or to its backoff.
Return(p, ok) ==
    /\ mu' = None
    /\ Goto(p, IF p # Boot THEN "idle" ELSE IF ok THEN "cred" ELSE "backoff")

\* Another writer is between its two writes, to memory and to the row.
MidWrite(p) == \E q \in Procs \ {p} : pc[q] \in {"setmem", "persist"}

\* Bootstrap up to repo.Load, which may fail.
BootLoad(p) ==
    /\ pc[p] = "boot" /\ mu = None
    /\ \/ creds # None /\ Return(p, TRUE) /\ Fine /\ UNCHANGED <<creds, drift>>
       \/ /\ creds = None /\ Load(None, FALSE)
          /\ Return(p, FALSE) /\ UNCHANGED <<creds, drift>>
       \/ /\ creds = None /\ row # None /\ Load(row, TRUE)
          /\ creds' = row /\ drift' = MidWrite(p)
          /\ mu' = p /\ Goto(p, "resume")
       \/ /\ creds = None /\ Load(None, TRUE)
          /\ mu' = p /\ Goto(p, "onboard") /\ UNCHANGED <<creds, drift>>
    /\ UNCHANGED <<bootstrapErr, refreshMu, row, new, att, haVars, restarts, blip>>

\* A stored token was loaded: onboarding steps that are still pending are resumed.
Resume(p) ==
    /\ pc[p] = "resume"
    /\ \E ok \in BOOLEAN :
        /\ OnboardingStatus(ok)
        /\ IF ok /\ ha.todo # {}
           THEN Goto(p, "finish") /\ UNCHANGED mu
           ELSE Return(p, TRUE)
    /\ UNCHANGED <<creds, bootstrapErr, refreshMu, row, new, att, haVars, restarts, blip, drift>>

\* No row: HA says whether it has an owner.
Onboard(p) ==
    /\ pc[p] = "onboard"
    /\ \E ok \in BOOLEAN :
        /\ OnboardingStatus(ok)
        /\ IF ok THEN /\ Goto(p, IF ha.owner THEN "login" ELSE "create")
                      /\ UNCHANGED <<bootstrapErr, mu>>
                 ELSE bootstrapErr' = "upstream" /\ Return(p, FALSE)
    /\ UNCHANGED <<creds, refreshMu, row, new, att, haVars, restarts, blip, drift>>

\* Mutant: an existing owner is taken for somebody else's.
Login_Skipped(p) ==
    /\ pc[p] = "login"
    /\ bootstrapErr' = "already" /\ Return(p, FALSE)
    /\ UNCHANGED <<creds, refreshMu, row, new, att, haVars, faults, restarts, blip, drift>>

\* There is an owner: log in with our password; every error means ErrAlreadyOnboarded.
Login(p) ==
    /\ pc[p] = "login"
    /\ \E ok \in BOOLEAN :
        /\ LoginWithPassword(p, ok)
        /\ IF ok THEN Goto(p, "finish") /\ UNCHANGED <<bootstrapErr, mu>>
                 ELSE bootstrapErr' = "already" /\ Return(p, FALSE)
    /\ UNCHANGED <<creds, refreshMu, row, att, ha, restarts, drift>>

\* There is none: create it.
Create(p) ==
    /\ pc[p] = "create"
    /\ \E out \in {"ok", "forbidden", "error"} :
        /\ CreateOwner(out)
        /\ IF out = "ok"
           THEN Goto(p, "exchange") /\ UNCHANGED <<bootstrapErr, mu>>
           ELSE /\ bootstrapErr' = IF out = "forbidden" THEN "already" ELSE "upstream"
                /\ Return(p, FALSE)
    /\ UNCHANGED <<creds, refreshMu, row, new, att, stale, restarts, blip, drift>>

Exchange(p) ==
    /\ pc[p] = "exchange"
    /\ \E ok \in BOOLEAN :
        /\ tokenRequest(p, ok)
        /\ IF ok THEN Goto(p, "finish") /\ UNCHANGED <<bootstrapErr, mu>>
                 ELSE bootstrapErr' = "upstream" /\ Return(p, FALSE)
    /\ UNCHANGED <<creds, refreshMu, row, att, ha, restarts, blip, drift>>

\* FinishOnboarding: a pass posts what is still pending; it ends when HA has nothing
\* left to do or after FinishAttempts passes, and its result is only logged.
FinishOnboarding(p) ==
    /\ pc[p] = "finish"
    /\ \/ /\ ha.todo # {} /\ att[p] < FinishAttempts
          /\ att' = [att EXCEPT ![p] = @ + 1]
          /\ \/ OnboardingStatus(FALSE) /\ UNCHANGED ha
             \/ \E done \in SUBSET Steps : postOnboardingSteps(done)
          /\ UNCHANGED <<mu, pc>>
       \/ /\ ha.todo = {} \/ att[p] = FinishAttempts
          /\ IF creds # None THEN Return(p, TRUE) ELSE Goto(p, "save") /\ UNCHANGED mu
          /\ att' = [att EXCEPT ![p] = 0]
          /\ Fine /\ UNCHANGED ha
    /\ UNCHANGED <<creds, bootstrapErr, refreshMu, row, new, stale, restarts, blip, drift>>

\* The end of Bootstrap: the token is stored, then kept; an error is returned, and
\* bootstrapErr stays what it was.
BootSave(p) ==
    /\ pc[p] = "save"
    /\ \E ok \in BOOLEAN :
        /\ Save(new[p], ok)
        /\ IF ok THEN creds' = new[p] ELSE UNCHANGED creds
        /\ Return(p, ok)
        /\ drift' = (drift \/ MidWrite(p))
    /\ new' = [new EXCEPT ![p] = None]
    /\ UNCHANGED <<bootstrapErr, refreshMu, att, haVars, restarts, blip>>

\* Mutant: the loop has no way out.
Backoff_Forever ==
    /\ pc[Boot] = "backoff" /\ mu = None
    /\ Goto(Boot, "boot")
    /\ UNCHANGED <<memVars, row, new, att, haVars, faults, restarts, blip, drift>>

\* BootstrapWithRetry after a failed attempt: it looks at the last recorded error,
\* whoever recorded it, and gives up or waits and tries again.
Backoff ==
    /\ pc[Boot] = "backoff" /\ mu = None
    /\ Goto(Boot, IF bootstrapErr = "already" THEN "gaveup" ELSE "boot")
    /\ UNCHANGED <<memVars, row, new, att, haVars, faults, restarts, blip, drift>>

-----------------------------------------------------------------------------
\* Any endpoint or driver that needs the token calls Credentials.
CallCredentials(r) ==
    /\ pc[r] = "idle"
    /\ Goto(r, "cred")
    /\ UNCHANGED <<memVars, row, new, att, haVars, faults, restarts, blip, drift>>

\* Credentials, first look at the token.
Credentials(p) ==
    /\ pc[p] = "cred" /\ mu = None
    /\ \/ creds = None /\ Goto(p, "boot") /\ UNCHANGED refreshMu
       \/ creds # None /\ ~NeedsRefresh(creds) /\ Done(p)
       \/ creds # None /\ NeedsRefresh(creds) /\ Goto(p, "lock") /\ UNCHANGED refreshMu
    /\ UNCHANGED <<creds, bootstrapErr, mu, row, new, att, haVars, faults, restarts, blip, drift>>

LockRefresh(p) ==
    /\ pc[p] = "lock" /\ refreshMu = None
    /\ refreshMu' = p /\ Goto(p, "recheck")
    /\ UNCHANGED <<creds, bootstrapErr, mu, row, new, att, haVars, faults, restarts, blip, drift>>

\* Mutant: whoever saw an old token refreshes it.
Recheck_Dropped(p) ==
    /\ pc[p] = "recheck" /\ mu = None
    /\ Goto(p, "refresh")
    /\ UNCHANGED <<memVars, row, new, att, haVars, faults, restarts, blip, drift>>

\* Second look, under refreshMu.  s.creds is never nil again, so the bootstrap at this
\* place of the code cannot be reached.
Recheck(p) ==
    /\ pc[p] = "recheck" /\ mu = None
    /\ IF NeedsRefresh(creds) THEN Goto(p, "refresh") /\ UNCHANGED refreshMu ELSE Done(p)
    /\ UNCHANGED <<creds, bootstrapErr, mu, row, new, att, haVars, faults, restarts, blip, drift>>

\* RefreshAccessToken, without s.mu.
RefreshAccessToken(p) ==
    /\ pc[p] = "refresh"
    /\ \E ok \in BOOLEAN :
        /\ tokenRequest(p, ok)
        /\ IF ok THEN Goto(p, "apply") /\ UNCHANGED refreshMu ELSE Done(p)
    /\ UNCHANGED <<creds, bootstrapErr, mu, row, att, ha, restarts, blip, drift>>

\* The new token replaces whatever is in memory now.
ApplyRefresh(p) ==
    /\ pc[p] = "apply" /\ mu = None
    /\ creds' = new[p]
    /\ Goto(p, "persist")
    /\ drift' = (drift \/ MidWrite(p))
    /\ UNCHANGED <<bootstrapErr, mu, refreshMu, row, new, att, haVars, faults, restarts, blip>>

\* The snapshot is saved, with retries; the caller may leave between two of them, and
\* the last failure is recorded under s.mu.
Persist(p) ==
    /\ pc[p] = "persist"
    /\ \E ok \in BOOLEAN :
        /\ Save(new[p], ok)
        /\ \/ /\ ok /\ Done(p) /\ new' = [new EXCEPT ![p] = None]
             /\ att' = [att EXCEPT ![p] = 0]
             /\ drift' = (drift \/ MidWrite(p)) /\ UNCHANGED bootstrapErr
          \/ /\ ~ok /\ att[p] + 1 < SaveAttempts
             /\ att' = [att EXCEPT ![p] = @ + 1]
             /\ drift' = (drift \/ MidWrite(p))
             /\ UNCHANGED <<pc, refreshMu, new, bootstrapErr>>
          \/ /\ ~ok /\ att[p] + 1 < SaveAttempts          \* ctx.Done
             /\ Done(p) /\ new' = [new EXCEPT ![p] = None]
             /\ att' = [att EXCEPT ![p] = 0]
             /\ drift' = TRUE /\ UNCHANGED bootstrapErr
          \/ /\ ~ok /\ att[p] + 1 = SaveAttempts /\ mu = None
             /\ Done(p) /\ new' = [new EXCEPT ![p] = None]
             /\ att' = [att EXCEPT ![p] = 0]
             /\ bootstrapErr' = "save" /\ drift' = TRUE
    /\ UNCHANGED <<creds, mu, haVars, restarts, blip>>

-----------------------------------------------------------------------------
\* POST /hass/token: ListEntities with the pasted token must work.
SetToken(r) ==
    /\ pc[r] = "idle"
    /\ \E m \in Manual :
        \/ ListEntities(TRUE) /\ Goto(r, "setsave") /\ new' = [new EXCEPT ![r] = m]
        \/ ListEntities(FALSE) /\ UNCHANGED <<pc, new>>
    /\ UNCHANGED <<memVars, row, att, haVars, restarts, blip, drift>>

\* The row first ...
SetSave(r) ==
    /\ pc[r] = "setsave"
    /\ \E ok \in BOOLEAN :
        /\ Save(new[r], ok)
        /\ Goto(r, IF ok THEN "setmem" ELSE "idle")
        /\ new' = IF ok THEN new ELSE [new EXCEPT ![r] = None]
        /\ drift' = (drift \/ ~ok \/ MidWrite(r))
    /\ UNCHANGED <<memVars, att, haVars, restarts, blip>>

\* Handler.setToken answers with Status, which calls Credentials.
AnswerStatus(r) == Goto(r, "cred")

\* Mutant: only the row is replaced.
SetMem_Skipped(r) ==
    /\ pc[r] = "setmem" /\ mu = None
    /\ bootstrapErr' = "nil"
    /\ AnswerStatus(r) /\ new' = [new EXCEPT ![r] = None]
    /\ drift' = (drift \/ MidWrite(r))
    /\ UNCHANGED <<creds, mu, refreshMu, row, att, haVars, faults, restarts, blip>>

\* ... then memory.
SetMem(r) ==
    /\ pc[r] = "setmem" /\ mu = None
    /\ creds' = new[r] /\ bootstrapErr' = "nil"
    /\ AnswerStatus(r) /\ new' = [new EXCEPT ![r] = None]
    /\ drift' = (drift \/ MidWrite(r))
    /\ UNCHANGED <<mu, refreshMu, row, att, haVars, faults, restarts, blip>>

-----------------------------------------------------------------------------
\* A human finishes HA's own welcome wizard, with a password of their own.
HumanOnboards ==
    /\ ~ha.owner
    /\ ha' = [owner |-> TRUE, pw |-> FALSE, todo |-> {}]
    /\ UNCHANGED <<memVars, row, procVars, stale, faults, restarts, blip, drift>>

\* Time passes: the token in memory, or the stored one when there is none in memory,
\* has less than 60 s left.  Tokens live for half an hour, far longer than a request.
Expire(t) ==
    /\ t \in Tokens \ stale
    /\ t = IF creds = None THEN row ELSE creds
    /\ stale' = stale \cup {t}
    /\ UNCHANGED <<memVars, row, procVars, ha, faults, restarts, blip, drift>>

\* The backend stops or crashes at any point and starts again.
Restart ==
    /\ restarts < MaxRestarts
    /\ restarts' = restarts + 1
    /\ creds' = None /\ bootstrapErr' = "nil" /\ mu' = None /\ refreshMu' = None
    /\ pc' = [p \in Procs |-> IF p = Boot THEN "boot" ELSE "idle"]
    /\ new' = [p \in Procs |-> None]
    /\ att' = [p \in Procs |-> 0]
    /\ drift' = FALSE /\ blip' = FALSE
    /\ UNCHANGED <<row, haVars, faults>>

\* What a process that is not idle does next.
Run(p) ==
    \/ BootLoad(p) \/ Resume(p) \/ Onboard(p) \/ Login(p) \/ Create(p) \/ Exchange(p)
    \/ FinishOnboarding(p) \/ BootSave(p)
    \/ Credentials(p) \/ LockRefresh(p) \/ Recheck(p)
    \/ RefreshAccessToken(p) \/ ApplyRefresh(p) \/ Persist(p)
    \/ SetSave(p) \/ SetMem(p)
    \/ p = Boot /\ Backoff

Next ==
    \/ \E p \in Procs : Run(p)
    \/ \E r \in Reqs : CallCredentials(r)
    \/ \E r \in Admins : SetToken(r)
    \/ HumanOnboards \/ Restart
    \/ \E t \in Tokens : Expire(t)

\* Calls return (the client has a timeout of 120 s), and Go hands a mutex to a goroutine
\* that has waited long enough, however often others take it.
Fairness == \A p \in Procs : SF_vars(Run(p))

Spec == Init /\ [][Next]_vars /\ Fairness

-----------------------------------------------------------------------------
Active == {"boot", "resume", "onboard", "login", "create", "exchange", "finish", "save",
           "cred", "lock", "recheck", "refresh", "apply", "persist"}

\* Who holds which mutex at which step.
LocksOK ==
    \A p \in Procs :
        /\ pc[p] \in {"resume", "onboard", "login", "create", "exchange", "finish", "save"}
              <=> mu = p
        /\ pc[p] \in {"recheck", "refresh", "apply", "persist"} <=> refreshMu = p

MemOK ==
    /\ creds \in Tokens \cup Manual \cup {None} /\ row \in Tokens \cup Manual \cup {None}
    /\ bootstrapErr \in {"nil", "already", "upstream", "save"}
    /\ mu \in Procs \cup {None} /\ refreshMu \in Procs \cup {None}

ProcsOK ==
    /\ pc \in [Procs -> Active \cup {"idle", "setsave", "setmem", "backoff", "gaveup", "done"}]
    /\ new \in [Procs -> Tokens \cup Manual \cup {None}]
    /\ att \in [Procs -> 0 .. SaveAttempts + FinishAttempts]

WorldOK ==
    /\ ha \in [owner : BOOLEAN, pw : BOOLEAN, todo : SUBSET Steps] /\ stale \subseteq Tokens
    /\ blip \in BOOLEAN /\ drift \in BOOLEAN

BudgetOK == faults \in 0 .. MaxFaults /\ restarts \in 0 .. MaxRestarts

TypeOK == MemOK /\ ProcsOK /\ WorldOK /\ BudgetOK /\ LocksOK

\* A refresh replaces a token that is about to expire, or one that an administrator set
\* while it was under way: however many callers saw the old token, no refreshed token
\* is thrown away by a second refresh.
RefreshReplacesOld ==
    [][\A p \in Procs : ApplyRefresh(p) => creds \in stale \cup Manual]_vars

\* Memory and database agree whenever no writer is between its two writes, unless a
\* save failed for good or two writers overlapped since the token was loaded.
AgreeUnlessDrift ==
    /\ TypeOK
    /\ (~drift /\ creds # None /\ \A p \in Procs : pc[p] \notin {"setmem", "persist"})
          => creds = row

\* What the background loop gives up on, whoever met it: an HA that has an owner and would
\* not let us in, or a login that failed for any other reason, a lost answer included (more
\* than its comments say: GivesUpForGood).  A failure of any other call never ends the loop.
GaveUpExplained == pc[Boot] = "gaveup" => ha.owner /\ (~ha.pw \/ blip)

\* The background loop ends without a token only in a state that lasts, as its comments say:
\* it tries "until it succeeds or ctx is cancelled", and what it stops on is "a permanent
\* state that requires admin intervention (SetToken) to resolve".  BootstrapWithRetry.
GivesUpForGood == pc[Boot] = "gaveup" => ha.owner /\ ~ha.pw

\* The bootstrap keeps trying through failures and restarts until there is a token,
\* or the loop gives up.
BootstrapEnds == <>(pc[Boot] \in {"done", "gaveup"})

\* No call of Credentials and no SetToken waits for ever, as there is no cycle of locks;
\* and when calls have stopped failing, a request that needs the token obtains it in an
\* HA that is ours, even after the background loop has given up.
RequestsServed ==
    /\ \A r \in Reqs \cup Admins : pc[r] # "idle" ~> pc[r] = "idle"
    /\ \A r \in Reqs :
        (pc[r] = "cred" /\ faults = MaxFaults /\ restarts = MaxRestarts /\ ha.pw) ~> creds # None
=============================================================================
