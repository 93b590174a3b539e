----------------------------- MODULE HassProofs -----------------------------
(***************************************************************************)
(* Proofs about the two modules of the hass package.                       *)
(*                                                                         *)
(* HassCredentials, for any number of requests and administrators, any     *)
(* pool of tokens and any budget of faults and restarts: a refresh         *)
(* replaces an old token, memory and row agree, and the background loop    *)
(* gives up only for a reason.                                             *)
(*                                                                         *)
(* HassFlows, for any handlers, flow ids and number of requests: pending   *)
(* flows are tracked, a refusal has a reason, and a scrub stays with its   *)
(* own handler.                                                            *)
(***************************************************************************)
EXTENDS HassCredentials, HassFlows, TLAPS

-----------------------------------------------------------------------------
(* The inductive invariant of HassCredentials.                             *)

\* What a process carries at a step: the token it was issued, or the one pasted.
CarryInv ==
    \A p \in Procs :
        /\ pc[p] \in {"save", "apply", "persist"} => new[p] \in Tokens
        /\ pc[p] = "finish" /\ creds = None => new[p] \in Tokens
        /\ pc[p] \in {"setsave", "setmem"} => new[p] \in Manual

\* Bootstrap goes on to obtain a token only while there is none, as it holds s.mu; a
\* refresh starts from a token, and from an old one.
HeldInv ==
    \A p \in Procs :
        /\ pc[p] \in {"onboard", "login", "create", "exchange", "save"} => creds = None
        /\ pc[p] \in {"resume", "lock", "recheck", "persist"} => creds # None
        /\ pc[p] \in {"refresh", "apply"} => creds \in stale \cup Manual

\* Without drift at most one writer is between its two writes; SetToken has written the
\* row by then, a refresh the memory; and without a writer the two agree.
AgreeInv ==
    ~drift =>
        /\ \A p, q \in Procs :
             pc[p] \in {"setmem", "persist"} /\ pc[q] \in {"setmem", "persist"} => p = q
        /\ \A p \in Procs :
             /\ pc[p] = "setmem" => row = new[p]
             /\ pc[p] = "persist" => creds = new[p]
        /\ (creds # None /\ \A p \in Procs : pc[p] \notin {"setmem", "persist"})
             => creds = row

\* HA has an owner, and does not let us in or failed to.
Barred == ha.owner /\ (~ha.pw \/ blip)

\* The recorded error is true, and so is what the bootstrap found out: an owner does not
\* go away, and one that appears before ours is created is not ours.
BarredInv ==
    /\ bootstrapErr = "already" \/ pc[Boot] = "gaveup" => Barred
    /\ \A p \in Procs : /\ pc[p] = "login" => ha.owner
                        /\ pc[p] = "create" => ~ha.owner \/ ~ha.pw

IInv == TypeOK /\ CarryInv /\ HeldInv /\ AgreeInv /\ BarredInv

-----------------------------------------------------------------------------
(* HassCredentials: the invariant holds.                                   *)

\* What Bootstrap does up to repo.Load: it returns, it has loaded the row, or it goes on
\* to HA without a row.
LEMMA BootLoadDoes ==
  ASSUME NEW p \in Procs, BootLoad(p)
  PROVE  /\ pc[p] = "boot" /\ mu = None
         /\ UNCHANGED <<bootstrapErr, refreshMu, row, new, att, ha, stale, restarts, blip>>
         /\ faults' = faults \/ (faults < MaxFaults /\ faults' = faults + 1)
         /\ \/ /\ UNCHANGED <<creds, drift, mu>>
               /\ \E step \in {"idle", "cred", "backoff"} : pc' = [pc EXCEPT ![p] = step]
            \/ /\ creds = None /\ row # None /\ creds' = row /\ drift' = MidWrite(p)
               /\ mu' = p /\ pc' = [pc EXCEPT ![p] = "resume"]
            \/ /\ creds = None /\ UNCHANGED <<creds, drift>>
               /\ mu' = p /\ pc' = [pc EXCEPT ![p] = "onboard"]
BY DEF BootLoad, Load, Return, Goto, haVars, Fine, Fault

\* Every step takes and gives back s.mu and refreshMu where LocksOK says.
LEMMA LocksStep == TypeOK /\ [Next]_vars => LocksOK'
<1> SUFFICES ASSUME TypeOK, [Next]_vars PROVE LocksOK'
  OBVIOUS
<1> USE HassConstants DEF TypeOK, MemOK, ProcsOK, LocksOK, Procs
<1>1. ASSUME NEW p \in Procs, BootLoad(p) PROVE LocksOK'
  BY <1>1, BootLoadDoes
<1>2. ASSUME NEW p \in Procs, Resume(p) PROVE LocksOK'
  BY <1>2 DEF Resume, Return, Goto
<1>3. ASSUME NEW p \in Procs, Onboard(p) PROVE LocksOK'
  BY <1>3 DEF Onboard, Return, Goto
<1>4. ASSUME NEW p \in Procs, Login(p) PROVE LocksOK'
  BY <1>4 DEF Login, Return, Goto
<1>5. ASSUME NEW p \in Procs, Create(p) PROVE LocksOK'
  BY <1>5 DEF Create, Return, Goto
<1>6. ASSUME NEW p \in Procs, Exchange(p) PROVE LocksOK'
  BY <1>6 DEF Exchange, Return, Goto
<1>7. ASSUME NEW p \in Procs, FinishOnboarding(p) PROVE LocksOK'
  BY <1>7
    DEF FinishOnboarding, OnboardingStatus, postOnboardingSteps, Return, Goto, Fine, Fault
<1>8. ASSUME NEW p \in Procs, BootSave(p) PROVE LocksOK'
  BY <1>8 DEF BootSave, Return, Goto
<1>9. ASSUME NEW p \in Procs, Credentials(p) PROVE LocksOK'
  BY <1>9 DEF Credentials, Done, Goto
<1>10. ASSUME NEW p \in Procs, LockRefresh(p) PROVE LocksOK'
  BY <1>10 DEF LockRefresh, Goto
<1>11. ASSUME NEW p \in Procs, Recheck(p) PROVE LocksOK'
  BY <1>11 DEF Recheck, Done, Goto
<1>12. ASSUME NEW p \in Procs, RefreshAccessToken(p) PROVE LocksOK'
  BY <1>12 DEF RefreshAccessToken, Done, Goto
<1>13. ASSUME NEW p \in Procs, ApplyRefresh(p) PROVE LocksOK'
  BY <1>13 DEF ApplyRefresh, Goto
<1>14. ASSUME NEW p \in Procs, Persist(p) PROVE LocksOK'
  BY <1>14 DEF Persist, Done, Goto
<1>15. ASSUME NEW p \in Procs, SetSave(p) PROVE LocksOK'
  BY <1>15 DEF SetSave, Goto, memVars
<1>16. ASSUME NEW p \in Procs, SetMem(p) PROVE LocksOK'
  BY <1>16 DEF SetMem, AnswerStatus, Goto
<1>17. CASE Backoff
  BY <1>17 DEF Backoff, Goto, memVars
<1>18. ASSUME NEW r \in Reqs, CallCredentials(r) PROVE LocksOK'
  BY <1>18 DEF CallCredentials, Goto, memVars
<1>19. ASSUME NEW r \in Admins, SetToken(r) PROVE LocksOK'
  BY <1>19 DEF SetToken, ListEntities, requestJSON, Goto, Fine, Fault, memVars, haVars
<1>20. ASSUME NEW t \in Tokens, Expire(t) PROVE LocksOK'
  BY <1>20 DEF Expire, memVars, procVars
<1>21. CASE HumanOnboards
  BY <1>21 DEF HumanOnboards, memVars, procVars
<1>22. CASE Restart
  BY <1>22 DEF Restart
<1>23. CASE UNCHANGED vars
  BY <1>23 DEF vars, memVars, procVars, haVars
<1> QED
  BY <1>1, <1>2, <1>3, <1>4, <1>5, <1>6, <1>7, <1>8, <1>9, <1>10, <1>11, <1>12,
     <1>13, <1>14, <1>15, <1>16, <1>17, <1>18, <1>19, <1>20, <1>21, <1>22, <1>23
  DEF Next, Run

\* Every step preserves the types.
LEMMA TypeStep == TypeOK /\ [Next]_vars => TypeOK'
<1> SUFFICES ASSUME TypeOK, [Next]_vars PROVE TypeOK'
  OBVIOUS
<1> USE HassConstants DEF TypeOK, Procs
<1>0. LocksOK'
  BY LocksStep
<1>1. ASSUME NEW p \in Procs, BootLoad(p) PROVE TypeOK'
  <2>1. MemOK' /\ LocksOK'
    BY <1>1, BootLoadDoes, <1>0 DEF MemOK
  <2>2. ProcsOK'
    BY <1>1, BootLoadDoes DEF ProcsOK, Active
  <2>3. WorldOK'
    BY <1>1, BootLoadDoes DEF WorldOK, MidWrite
  <2>4. BudgetOK'
    BY <1>1, BootLoadDoes DEF BudgetOK
  <2> QED BY <2>1, <2>2, <2>3, <2>4
<1>2. ASSUME NEW p \in Procs, Resume(p) PROVE TypeOK'
  BY <1>2, <1>0
    DEF MemOK, ProcsOK, WorldOK, BudgetOK, Active, Resume, OnboardingStatus, Return, Goto,
        Fine, Fault, haVars
<1>3. ASSUME NEW p \in Procs, Onboard(p) PROVE TypeOK'
  BY <1>3, <1>0
    DEF MemOK, ProcsOK, WorldOK, BudgetOK, Active, Onboard, OnboardingStatus, Return,
        Goto, Fine, Fault, haVars
<1>4. ASSUME NEW p \in Procs, Login(p) PROVE TypeOK'
  <2>1. MemOK' /\ LocksOK'
    BY <1>4, <1>0 DEF MemOK, Login, Return
  <2>2. ProcsOK'
    BY <1>4 DEF ProcsOK, Active, Login, LoginWithPassword, tokenRequest, Return, Goto
  <2>3. WorldOK'
    BY <1>4 DEF WorldOK, Login, LoginWithPassword, tokenRequest
  <2>4. BudgetOK'
    BY <1>4 DEF BudgetOK, Login, LoginWithPassword, tokenRequest, Fine, Fault
  <2> QED BY <2>1, <2>2, <2>3, <2>4
<1>5. ASSUME NEW p \in Procs, Create(p) PROVE TypeOK'
  <2>1. MemOK' /\ LocksOK'
    BY <1>5, <1>0 DEF MemOK, Create, Return
  <2>2. ProcsOK'
    BY <1>5 DEF ProcsOK, Active, Create, Return, Goto
  <2>3. WorldOK'
    BY <1>5 DEF WorldOK, Create, CreateOwner
  <2>4. BudgetOK'
    BY <1>5 DEF BudgetOK, Create, CreateOwner, Fine, Fault
  <2> QED BY <2>1, <2>2, <2>3, <2>4
<1>6. ASSUME NEW p \in Procs, Exchange(p) PROVE TypeOK'
  <2>1. MemOK' /\ LocksOK'
    BY <1>6, <1>0 DEF MemOK, Exchange, Return
  <2>2. ProcsOK'
    BY <1>6 DEF ProcsOK, Active, Exchange, tokenRequest, Return, Goto
  <2>3. WorldOK'
    BY <1>6 DEF WorldOK, Exchange, tokenRequest
  <2>4. BudgetOK'
    BY <1>6 DEF BudgetOK, Exchange, tokenRequest, Fine, Fault
  <2> QED BY <2>1, <2>2, <2>3, <2>4
<1>7. ASSUME NEW p \in Procs, FinishOnboarding(p) PROVE TypeOK'
  BY <1>7, <1>0
    DEF MemOK, ProcsOK, WorldOK, BudgetOK, Active, FinishOnboarding, OnboardingStatus,
        postOnboardingSteps, Return, Goto, Fine, Fault
<1>8. ASSUME NEW p \in Procs, BootSave(p) PROVE TypeOK'
  BY <1>8, <1>0
    DEF MemOK, ProcsOK, WorldOK, BudgetOK, Active, BootSave, Save, Return, Goto, MidWrite,
        Fine, Fault, haVars
<1>9. ASSUME NEW p \in Procs, Credentials(p) PROVE TypeOK'
  BY <1>9, <1>0
    DEF MemOK, ProcsOK, WorldOK, BudgetOK, Active, Credentials, Done, Goto, haVars
<1>10. ASSUME NEW p \in Procs, LockRefresh(p) PROVE TypeOK'
  BY <1>10, <1>0 DEF MemOK, ProcsOK, WorldOK, BudgetOK, Active, LockRefresh, Goto, haVars
<1>11. ASSUME NEW p \in Procs, Recheck(p) PROVE TypeOK'
  BY <1>11, <1>0 DEF MemOK, ProcsOK, WorldOK, BudgetOK, Active, Recheck, Done, Goto, haVars
<1>12. ASSUME NEW p \in Procs, RefreshAccessToken(p) PROVE TypeOK'
  <2>1. MemOK' /\ LocksOK'
    BY <1>12, <1>0 DEF MemOK, RefreshAccessToken, Done
  <2>2. ProcsOK'
    BY <1>12 DEF ProcsOK, Active, RefreshAccessToken, tokenRequest, Done, Goto
  <2>3. WorldOK'
    BY <1>12 DEF WorldOK, RefreshAccessToken, tokenRequest
  <2>4. BudgetOK'
    BY <1>12 DEF BudgetOK, RefreshAccessToken, tokenRequest, Fine, Fault
  <2> QED BY <2>1, <2>2, <2>3, <2>4
<1>13. ASSUME NEW p \in Procs, ApplyRefresh(p) PROVE TypeOK'
  BY <1>13, <1>0
    DEF MemOK, ProcsOK, WorldOK, BudgetOK, Active, ApplyRefresh, Goto, MidWrite, haVars
<1>14. ASSUME NEW p \in Procs, Persist(p) PROVE TypeOK'
  <2>1. MemOK' /\ LocksOK'
    BY <1>14, <1>0 DEF MemOK, Persist, ProcsOK, Save, Done
  <2>2. ProcsOK'
    <3> USE <1>14 DEF ProcsOK, Active, Persist, Done, Goto
    <3>1. pc' \in [Procs -> Active \cup {"idle", "setsave", "setmem", "backoff", "gaveup",
                                           "done"}]
      OBVIOUS
    <3>2. new' \in [Procs -> Tokens \cup Manual \cup {None}]
      OBVIOUS
    <3>3. att' \in [Procs -> 0 .. SaveAttempts + FinishAttempts]
      OBVIOUS
    <3> QED BY <3>1, <3>2, <3>3
  <2>3. WorldOK'
    BY <1>14 DEF WorldOK, Persist, MidWrite, haVars
  <2>4. BudgetOK'
    BY <1>14 DEF BudgetOK, Persist, Save, Fine, Fault
  <2> QED BY <2>1, <2>2, <2>3, <2>4
<1>15. ASSUME NEW p \in Procs, SetSave(p) PROVE TypeOK'
  BY <1>15, <1>0
    DEF MemOK, ProcsOK, WorldOK, BudgetOK, Active, SetSave, Save, Goto, MidWrite, Fine,
        Fault, memVars, haVars
<1>16. ASSUME NEW p \in Procs, SetMem(p) PROVE TypeOK'
  BY <1>16, <1>0
    DEF MemOK, ProcsOK, WorldOK, BudgetOK, Active, SetMem, AnswerStatus, Goto, MidWrite,
        haVars
<1>17. CASE Backoff
  BY <1>17, <1>0
    DEF MemOK, ProcsOK, WorldOK, BudgetOK, Active, Backoff, Goto, memVars, haVars
<1>18. ASSUME NEW r \in Reqs, CallCredentials(r) PROVE TypeOK'
  BY <1>18, <1>0
    DEF MemOK, ProcsOK, WorldOK, BudgetOK, Active, CallCredentials, Goto, memVars, haVars
<1>19. ASSUME NEW r \in Admins, SetToken(r) PROVE TypeOK'
  BY <1>19, <1>0
    DEF MemOK, ProcsOK, WorldOK, BudgetOK, Active, SetToken, ListEntities, requestJSON,
        Goto, Fine, Fault, memVars, haVars
<1>20. ASSUME NEW t \in Tokens, Expire(t) PROVE TypeOK'
  BY <1>20, <1>0 DEF MemOK, ProcsOK, WorldOK, BudgetOK, Active, Expire, memVars, procVars
<1>21. CASE HumanOnboards
  BY <1>21, <1>0
    DEF MemOK, ProcsOK, WorldOK, BudgetOK, Active, HumanOnboards, memVars, procVars
<1>22. CASE Restart
  <2>1. MemOK' /\ LocksOK'
    BY <1>22, <1>0 DEF MemOK, Restart
  <2>2. ProcsOK'
    BY <1>22 DEF ProcsOK, Active, Restart
  <2>3. WorldOK'
    BY <1>22 DEF WorldOK, Restart, haVars
  <2>4. BudgetOK'
    BY <1>22 DEF BudgetOK, Restart
  <2> QED BY <2>1, <2>2, <2>3, <2>4
<1>23. CASE UNCHANGED vars
  BY <1>23, <1>0
    DEF MemOK, ProcsOK, WorldOK, BudgetOK, Active, vars, memVars, procVars, haVars
<1> QED
  BY <1>1, <1>2, <1>3, <1>4, <1>5, <1>6, <1>7, <1>8, <1>9, <1>10, <1>11, <1>12,
     <1>13, <1>14, <1>15, <1>16, <1>17, <1>18, <1>19, <1>20, <1>21, <1>22, <1>23
  DEF Next, Run

\* A token is issued or pasted before the step that uses it.
LEMMA CarryStep == IInv /\ [Next]_vars => CarryInv'
<1> SUFFICES ASSUME IInv, [Next]_vars PROVE CarryInv'
  OBVIOUS
<1> USE HassConstants
  DEF IInv, TypeOK, MemOK, ProcsOK, WorldOK, LocksOK, CarryInv, HeldInv, Procs
<1>1. ASSUME NEW p \in Procs, BootLoad(p) PROVE CarryInv'
  BY <1>1, BootLoadDoes
<1>2. ASSUME NEW p \in Procs, Resume(p) PROVE CarryInv'
  BY <1>2 DEF Resume, Return, Goto
<1>3. ASSUME NEW p \in Procs, Onboard(p) PROVE CarryInv'
  BY <1>3 DEF Onboard, Return, Goto
<1>4. ASSUME NEW p \in Procs, Login(p) PROVE CarryInv'
  BY <1>4 DEF Login, LoginWithPassword, tokenRequest, Return, Goto
<1>5. ASSUME NEW p \in Procs, Create(p) PROVE CarryInv'
  BY <1>5 DEF Create, Return, Goto
<1>6. ASSUME NEW p \in Procs, Exchange(p) PROVE CarryInv'
  BY <1>6 DEF Exchange, tokenRequest, Return, Goto
<1>7. ASSUME NEW p \in Procs, FinishOnboarding(p) PROVE CarryInv'
  BY <1>7
    DEF FinishOnboarding, OnboardingStatus, postOnboardingSteps, Return, Goto, Fine, Fault
<1>8. ASSUME NEW p \in Procs, BootSave(p) PROVE CarryInv'
  BY <1>8 DEF BootSave, Return, Goto
<1>9. ASSUME NEW p \in Procs, Credentials(p) PROVE CarryInv'
  BY <1>9 DEF Credentials, Done, Goto
<1>10. ASSUME NEW p \in Procs, LockRefresh(p) PROVE CarryInv'
  BY <1>10 DEF LockRefresh, Goto
<1>11. ASSUME NEW p \in Procs, Recheck(p) PROVE CarryInv'
  BY <1>11 DEF Recheck, Done, Goto
<1>12. ASSUME NEW p \in Procs, RefreshAccessToken(p) PROVE CarryInv'
  BY <1>12 DEF RefreshAccessToken, tokenRequest, Done, Goto
<1>13. ASSUME NEW p \in Procs, ApplyRefresh(p) PROVE CarryInv'
  BY <1>13 DEF ApplyRefresh, Goto
<1>14. ASSUME NEW p \in Procs, Persist(p) PROVE CarryInv'
  BY <1>14 DEF Persist, Done, Goto
<1>15. ASSUME NEW p \in Procs, SetSave(p) PROVE CarryInv'
  BY <1>15 DEF SetSave, Goto, memVars
<1>16. ASSUME NEW p \in Procs, SetMem(p) PROVE CarryInv'
  BY <1>16 DEF SetMem, AnswerStatus, Goto
<1>17. CASE Backoff
  BY <1>17 DEF Backoff, Goto, memVars
<1>18. ASSUME NEW r \in Reqs, CallCredentials(r) PROVE CarryInv'
  BY <1>18 DEF CallCredentials, Goto, memVars
<1>19. ASSUME NEW r \in Admins, SetToken(r) PROVE CarryInv'
  BY <1>19 DEF SetToken, ListEntities, requestJSON, Goto, Fine, Fault, memVars, haVars
<1>20. ASSUME NEW t \in Tokens, Expire(t) PROVE CarryInv'
  BY <1>20 DEF Expire, memVars, procVars
<1>21. CASE HumanOnboards
  BY <1>21 DEF HumanOnboards, memVars, procVars
<1>22. CASE Restart
  BY <1>22 DEF Restart
<1>23. CASE UNCHANGED vars
  BY <1>23 DEF vars, memVars, procVars, haVars
<1> QED
  BY <1>1, <1>2, <1>3, <1>4, <1>5, <1>6, <1>7, <1>8, <1>9, <1>10, <1>11, <1>12,
     <1>13, <1>14, <1>15, <1>16, <1>17, <1>18, <1>19, <1>20, <1>21, <1>22, <1>23
  DEF Next, Run

\* While Bootstrap obtains a token nobody else sets one, and while a refresh is under way
\* the token it replaces stays old, or is replaced by an administrator's.
LEMMA HeldStep == IInv /\ [Next]_vars => HeldInv'
<1> SUFFICES ASSUME IInv, [Next]_vars PROVE HeldInv'
  OBVIOUS
<1> USE HassConstants
  DEF IInv, TypeOK, MemOK, ProcsOK, WorldOK, LocksOK, CarryInv, HeldInv, Procs
<1>1. ASSUME NEW p \in Procs, BootLoad(p) PROVE HeldInv'
  BY <1>1, BootLoadDoes
<1>2. ASSUME NEW p \in Procs, Resume(p) PROVE HeldInv'
  BY <1>2 DEF Resume, Return, Goto, haVars
<1>3. ASSUME NEW p \in Procs, Onboard(p) PROVE HeldInv'
  BY <1>3 DEF Onboard, Return, Goto, haVars
<1>4. ASSUME NEW p \in Procs, Login(p) PROVE HeldInv'
  BY <1>4 DEF Login, LoginWithPassword, tokenRequest, Issued, InUse, Return, Goto
<1>5. ASSUME NEW p \in Procs, Create(p) PROVE HeldInv'
  BY <1>5 DEF Create, Return, Goto
<1>6. ASSUME NEW p \in Procs, Exchange(p) PROVE HeldInv'
  BY <1>6 DEF Exchange, tokenRequest, Issued, InUse, Return, Goto
<1>7. ASSUME NEW p \in Procs, FinishOnboarding(p) PROVE HeldInv'
  BY <1>7
    DEF FinishOnboarding, OnboardingStatus, postOnboardingSteps, Return, Goto, Fine, Fault
<1>8. ASSUME NEW p \in Procs, BootSave(p) PROVE HeldInv'
  BY <1>8 DEF BootSave, Return, Goto, haVars
<1>9. ASSUME NEW p \in Procs, Credentials(p) PROVE HeldInv'
  BY <1>9 DEF Credentials, NeedsRefresh, Done, Goto, haVars
<1>10. ASSUME NEW p \in Procs, LockRefresh(p) PROVE HeldInv'
  BY <1>10 DEF LockRefresh, Goto, haVars
<1>11. ASSUME NEW p \in Procs, Recheck(p) PROVE HeldInv'
  BY <1>11 DEF Recheck, NeedsRefresh, Done, Goto, haVars
<1>12. ASSUME NEW p \in Procs, RefreshAccessToken(p) PROVE HeldInv'
  BY <1>12 DEF RefreshAccessToken, tokenRequest, Issued, InUse, Done, Goto
<1>13. ASSUME NEW p \in Procs, ApplyRefresh(p) PROVE HeldInv'
  BY <1>13 DEF ApplyRefresh, Goto, haVars
<1>14. ASSUME NEW p \in Procs, Persist(p) PROVE HeldInv'
  BY <1>14 DEF Persist, Done, Goto, haVars
<1>15. ASSUME NEW p \in Procs, SetSave(p) PROVE HeldInv'
  BY <1>15 DEF SetSave, Goto, memVars, haVars
<1>16. ASSUME NEW p \in Procs, SetMem(p) PROVE HeldInv'
  BY <1>16 DEF SetMem, AnswerStatus, Goto, haVars
<1>17. CASE Backoff
  BY <1>17 DEF Backoff, Goto, memVars, haVars
<1>18. ASSUME NEW r \in Reqs, CallCredentials(r) PROVE HeldInv'
  BY <1>18 DEF CallCredentials, Goto, memVars, haVars
<1>19. ASSUME NEW r \in Admins, SetToken(r) PROVE HeldInv'
  BY <1>19 DEF SetToken, ListEntities, requestJSON, Goto, Fine, Fault, memVars, haVars
<1>20. ASSUME NEW t \in Tokens, Expire(t) PROVE HeldInv'
  BY <1>20 DEF Expire, memVars, procVars
<1>21. CASE HumanOnboards
  BY <1>21 DEF HumanOnboards, memVars, procVars
<1>22. CASE Restart
  BY <1>22 DEF Restart, haVars
<1>23. CASE UNCHANGED vars
  BY <1>23 DEF vars, memVars, procVars, haVars
<1> QED
  BY <1>1, <1>2, <1>3, <1>4, <1>5, <1>6, <1>7, <1>8, <1>9, <1>10, <1>11, <1>12,
     <1>13, <1>14, <1>15, <1>16, <1>17, <1>18, <1>19, <1>20, <1>21, <1>22, <1>23
  DEF Next, Run

\* Memory and row stay in agreement, or drift is recorded.
LEMMA AgreeStep == IInv /\ [Next]_vars => AgreeInv'
<1> SUFFICES ASSUME IInv, [Next]_vars PROVE AgreeInv'
  OBVIOUS
<1> USE HassConstants
  DEF IInv, TypeOK, MemOK, ProcsOK, WorldOK, LocksOK, CarryInv, HeldInv, AgreeInv, Procs
<1>1. ASSUME NEW p \in Procs, BootLoad(p) PROVE AgreeInv'
  <2>1. CASE creds' = creds /\ drift' = drift
    BY <1>1, <2>1, BootLoadDoes
  <2>2. CASE creds' = row /\ row # None /\ drift' = MidWrite(p)
    <3>1. ~drift' => \A q \in Procs \ {p} : pc[q] \notin {"setmem", "persist"}
      BY <2>2 DEF MidWrite
    <3>2. \A q \in Procs : q # p => pc'[q] = pc[q]
      BY <1>1, BootLoadDoes
    <3>3. pc'[p] \notin {"setmem", "persist"}
      BY <1>1, BootLoadDoes
    <3> QED BY <1>1, <2>2, <3>1, <3>2, <3>3, BootLoadDoes
  <2> QED BY <1>1, <2>1, <2>2, BootLoadDoes
<1>2. ASSUME NEW p \in Procs, Resume(p) PROVE AgreeInv'
  BY <1>2 DEF Resume, Return, Goto
<1>3. ASSUME NEW p \in Procs, Onboard(p) PROVE AgreeInv'
  BY <1>3 DEF Onboard, Return, Goto
<1>4. ASSUME NEW p \in Procs, Login(p) PROVE AgreeInv'
  BY <1>4 DEF Login, LoginWithPassword, tokenRequest, Return, Goto
<1>5. ASSUME NEW p \in Procs, Create(p) PROVE AgreeInv'
  BY <1>5 DEF Create, Return, Goto
<1>6. ASSUME NEW p \in Procs, Exchange(p) PROVE AgreeInv'
  BY <1>6 DEF Exchange, tokenRequest, Return, Goto
<1>7. ASSUME NEW p \in Procs, FinishOnboarding(p) PROVE AgreeInv'
  BY <1>7
    DEF FinishOnboarding, OnboardingStatus, postOnboardingSteps, Return, Goto, Fine, Fault
<1>8. ASSUME NEW p \in Procs, BootSave(p) PROVE AgreeInv'
  <2>1. SUFFICES ASSUME ~drift' PROVE AgreeInv'
    OBVIOUS
  <2>2. ~drift /\ \A q \in Procs \ {p} : pc[q] \notin {"setmem", "persist"}
    BY <1>8, <2>1 DEF BootSave, MidWrite
  <2>3. \A q \in Procs : pc'[q] \notin {"setmem", "persist"}
    BY <1>8, <2>2 DEF BootSave, Return, Goto
  <2>4. creds' # None => creds' = row'
    BY <1>8 DEF BootSave, Save
  <2> QED BY <2>1, <2>3, <2>4
<1>9. ASSUME NEW p \in Procs, Credentials(p) PROVE AgreeInv'
  BY <1>9 DEF Credentials, Done, Goto
<1>10. ASSUME NEW p \in Procs, LockRefresh(p) PROVE AgreeInv'
  BY <1>10 DEF LockRefresh, Goto
<1>11. ASSUME NEW p \in Procs, Recheck(p) PROVE AgreeInv'
  BY <1>11 DEF Recheck, Done, Goto
<1>12. ASSUME NEW p \in Procs, RefreshAccessToken(p) PROVE AgreeInv'
  BY <1>12 DEF RefreshAccessToken, tokenRequest, Done, Goto
<1>13. ASSUME NEW p \in Procs, ApplyRefresh(p) PROVE AgreeInv'
  BY <1>13 DEF ApplyRefresh, Goto, MidWrite
<1>14. ASSUME NEW p \in Procs, Persist(p) PROVE AgreeInv'
  BY <1>14 DEF Persist, Save, Done, MidWrite, Goto
<1>15. ASSUME NEW p \in Procs, SetSave(p) PROVE AgreeInv'
  <2>1. SUFFICES ASSUME ~drift' PROVE AgreeInv'
    OBVIOUS
  <2>2. ~drift /\ \A q \in Procs \ {p} : pc[q] \notin {"setmem", "persist"}
    BY <1>15, <2>1 DEF SetSave, MidWrite
  <2>3. /\ row' = new[p] /\ new' = new /\ creds' = creds
        /\ pc' = [pc EXCEPT ![p] = "setmem"]
    BY <1>15, <2>1 DEF SetSave, Save, Goto, memVars
  <2> QED BY <2>1, <2>2, <2>3
<1>16. ASSUME NEW p \in Procs, SetMem(p) PROVE AgreeInv'
  BY <1>16 DEF SetMem, AnswerStatus, Goto, MidWrite
<1>17. CASE Backoff
  BY <1>17 DEF Backoff, Goto, memVars
<1>18. ASSUME NEW r \in Reqs, CallCredentials(r) PROVE AgreeInv'
  BY <1>18 DEF CallCredentials, Goto, memVars
<1>19. ASSUME NEW r \in Admins, SetToken(r) PROVE AgreeInv'
  BY <1>19 DEF SetToken, ListEntities, requestJSON, Goto, Fine, Fault, memVars, haVars
<1>20. ASSUME NEW t \in Tokens, Expire(t) PROVE AgreeInv'
  BY <1>20 DEF Expire, memVars, procVars
<1>21. CASE HumanOnboards
  BY <1>21 DEF HumanOnboards, memVars, procVars
<1>22. CASE Restart
  BY <1>22 DEF Restart
<1>23. CASE UNCHANGED vars
  BY <1>23 DEF vars, memVars, procVars, haVars
<1> QED
  BY <1>1, <1>2, <1>3, <1>4, <1>5, <1>6, <1>7, <1>8, <1>9, <1>10, <1>11, <1>12,
     <1>13, <1>14, <1>15, <1>16, <1>17, <1>18, <1>19, <1>20, <1>21, <1>22, <1>23
  DEF Next, Run

\* The recorded reason for giving up stays true.
LEMMA BarredStep == IInv /\ [Next]_vars => BarredInv'
<1> SUFFICES ASSUME IInv, [Next]_vars PROVE BarredInv'
  OBVIOUS
<1> USE HassConstants
  DEF IInv, TypeOK, MemOK, ProcsOK, WorldOK, LocksOK, BarredInv, Barred, Procs
<1>1. ASSUME NEW p \in Procs, BootLoad(p) PROVE BarredInv'
  BY <1>1, BootLoadDoes
<1>2. ASSUME NEW p \in Procs, Resume(p) PROVE BarredInv'
  BY <1>2 DEF Resume, Return, Goto, haVars
<1>3. ASSUME NEW p \in Procs, Onboard(p) PROVE BarredInv'
  BY <1>3 DEF Onboard, Return, Goto, haVars
<1>4. ASSUME NEW p \in Procs, Login(p) PROVE BarredInv'
  BY <1>4 DEF Login, LoginWithPassword, Return, Goto
<1>5. ASSUME NEW p \in Procs, Create(p) PROVE BarredInv'
  BY <1>5 DEF Create, CreateOwner, Return, Goto
<1>6. ASSUME NEW p \in Procs, Exchange(p) PROVE BarredInv'
  BY <1>6 DEF Exchange, Return, Goto
<1>7. ASSUME NEW p \in Procs, FinishOnboarding(p) PROVE BarredInv'
  BY <1>7
    DEF FinishOnboarding, OnboardingStatus, postOnboardingSteps, Return, Goto, Fine, Fault
<1>8. ASSUME NEW p \in Procs, BootSave(p) PROVE BarredInv'
  BY <1>8 DEF BootSave, Return, Goto, haVars
<1>9. ASSUME NEW p \in Procs, Credentials(p) PROVE BarredInv'
  BY <1>9 DEF Credentials, Done, Goto, haVars
<1>10. ASSUME NEW p \in Procs, LockRefresh(p) PROVE BarredInv'
  BY <1>10 DEF LockRefresh, Goto, haVars
<1>11. ASSUME NEW p \in Procs, Recheck(p) PROVE BarredInv'
  BY <1>11 DEF Recheck, Done, Goto, haVars
<1>12. ASSUME NEW p \in Procs, RefreshAccessToken(p) PROVE BarredInv'
  BY <1>12 DEF RefreshAccessToken, Done, Goto
<1>13. ASSUME NEW p \in Procs, ApplyRefresh(p) PROVE BarredInv'
  BY <1>13 DEF ApplyRefresh, Goto, haVars
<1>14. ASSUME NEW p \in Procs, Persist(p) PROVE BarredInv'
  BY <1>14 DEF Persist, Done, Goto, haVars
<1>15. ASSUME NEW p \in Procs, SetSave(p) PROVE BarredInv'
  BY <1>15 DEF SetSave, Goto, memVars, haVars
<1>16. ASSUME NEW p \in Procs, SetMem(p) PROVE BarredInv'
  BY <1>16 DEF SetMem, AnswerStatus, Goto, haVars
<1>17. CASE Backoff
  BY <1>17 DEF Backoff, Goto, memVars, haVars
<1>18. ASSUME NEW r \in Reqs, CallCredentials(r) PROVE BarredInv'
  BY <1>18 DEF CallCredentials, Goto, memVars, haVars
<1>19. ASSUME NEW r \in Admins, SetToken(r) PROVE BarredInv'
  BY <1>19 DEF SetToken, ListEntities, requestJSON, Goto, Fine, Fault, memVars, haVars
<1>20. ASSUME NEW t \in Tokens, Expire(t) PROVE BarredInv'
  BY <1>20 DEF Expire, memVars, procVars
<1>21. CASE HumanOnboards
  BY <1>21 DEF HumanOnboards, memVars, procVars
<1>22. CASE Restart
  BY <1>22 DEF Restart, haVars
<1>23. CASE UNCHANGED vars
  BY <1>23 DEF vars, memVars, procVars, haVars
<1> QED
  BY <1>1, <1>2, <1>3, <1>4, <1>5, <1>6, <1>7, <1>8, <1>9, <1>10, <1>11, <1>12,
     <1>13, <1>14, <1>15, <1>16, <1>17, <1>18, <1>19, <1>20, <1>21, <1>22, <1>23
  DEF Next, Run

\* The backend starts in a state that satisfies the invariant, with the row empty and HA
\* untouched, somebody else's, or ours.
LEMMA InitInv == Init => IInv
<1> SUFFICES ASSUME Init PROVE IInv
  OBVIOUS
<1> USE HassConstants DEF Init, Procs
<1>1. TypeOK
  <2>1. MemOK /\ BudgetOK
    BY DEF MemOK, BudgetOK
  <2>2. ProcsOK
    BY DEF ProcsOK, Active
  <2>3. LocksOK
    BY DEF LocksOK
  <2>4. ha \in [owner : BOOLEAN, pw : BOOLEAN, todo : SUBSET Steps]
    <3>1. PICK o \in BOOLEAN, w \in BOOLEAN, d \in SUBSET Steps :
            ha = [owner |-> o, pw |-> w, todo |-> d]
      BY Zenon
    <3> QED BY <3>1
  <2>5. WorldOK
    BY <2>4 DEF WorldOK
  <2> QED BY <2>1, <2>2, <2>3, <2>5 DEF TypeOK
<1>2. CarryInv /\ HeldInv
  BY DEF CarryInv, HeldInv
<1>3. AgreeInv /\ BarredInv
  BY DEF AgreeInv, BarredInv
<1> QED BY <1>1, <1>2, <1>3 DEF IInv

\* IInv is an invariant of HassCredentials.
LEMMA Invariance == Spec => []IInv
<1>1. IInv /\ [Next]_vars => IInv'
  BY TypeStep, CarryStep, HeldStep, AgreeStep, BarredStep DEF IInv
<1> QED BY <1>1, InitInv, PTL DEF Spec

\* Types and mutexes are right, and the token in memory is the stored one unless a writer is
\* at work, a save failed for good or two writers overlapped: however many requests refresh
\* and administrators paste tokens, and wherever calls fail.
THEOREM CredentialsAgree == Spec => []AgreeUnlessDrift
<1>1. IInv => AgreeUnlessDrift
  BY DEF IInv, AgreeInv, AgreeUnlessDrift
<1> QED BY <1>1, Invariance, PTL

\* BootstrapWithRetry gives up only when HA has an owner and would not let us in, or a login
\* failed for another reason.
THEOREM GivingUpHasReason == Spec => []GaveUpExplained
<1>1. IInv => GaveUpExplained
  BY DEF IInv, BarredInv, Barred, GaveUpExplained
<1> QED BY <1>1, Invariance, PTL

\* A refresh never replaces a token that was refreshed already, by whichever of the callers
\* that saw the old one: the second look under refreshMu is enough.
THEOREM RefreshesOnlyOld == Spec => RefreshReplacesOld
<1>1. ASSUME IInv, NEW p \in Procs, ApplyRefresh(p) PROVE creds \in stale \cup Manual
  BY <1>1 DEF IInv, HeldInv, ApplyRefresh
<1>2. IInv => \A p \in Procs : ApplyRefresh(p) => creds \in stale \cup Manual
  BY <1>1
<1> QED BY <1>2, Invariance, PTL DEF RefreshReplacesOld, Spec

\* Nobody holds s.mu and refreshMu at once, and nobody waits for refreshMu with s.mu held:
\* the mutexes cannot form a cycle.
LockOrder == \A p \in Procs : mu = p => refreshMu # p /\ pc[p] # "lock"

\* Bootstrap, which holds s.mu over its calls, never takes refreshMu, and a refresh takes
\* s.mu for single steps only.
THEOREM LocksInOrder == Spec => []LockOrder
<1>1. IInv => LockOrder
  BY DEF IInv, TypeOK, LocksOK, LockOrder
<1> QED BY <1>1, Invariance, PTL

\* Once there is a token, a refresh that waits for refreshMu or has it finds one, so that
\* the bootstrap in the second half of Credentials, which the model leaves out, is dead code.
SecondLookFindsToken ==
    \A p \in Procs : pc[p] \in {"lock", "recheck", "refresh", "apply"} => creds # None

\* Every look at s.creds after the first one that found a token finds one.
THEOREM SecondLookNeverEmpty == Spec => []SecondLookFindsToken
<1>1. IInv => SecondLookFindsToken
  BY HassConstants DEF IInv, TypeOK, WorldOK, HeldInv, SecondLookFindsToken
<1> QED BY <1>1, Invariance, PTL

\* s.creds becomes nil again only when the backend restarts.
TokenStays == [][creds # None /\ creds' = None => Restart]_vars

\* Bootstrap, a refresh and SetToken replace a token by a token.
THEOREM TokenAlwaysStays == Spec => TokenStays
<1>1. ASSUME IInv, Next, creds # None, creds' = None PROVE Restart
  <2> USE <1>1, HassConstants DEF IInv, CarryInv
  <2>1. ASSUME NEW p \in Procs PROVE ~BootLoad(p) /\ ~BootSave(p)
    BY BootLoadDoes DEF BootSave, HeldInv
  <2>2. ASSUME NEW p \in Procs PROVE ~ApplyRefresh(p) /\ ~SetMem(p)
    BY DEF ApplyRefresh, SetMem
  <2>3. ASSUME NEW p \in Procs, Run(p), ~BootLoad(p), ~BootSave(p), ~ApplyRefresh(p), ~SetMem(p)
        PROVE  FALSE
    BY <2>3 DEF Run, Resume, Onboard, Login, Create, Exchange, FinishOnboarding, Credentials,
                LockRefresh, Recheck, RefreshAccessToken, Persist, SetSave, Backoff, memVars
  <2>4. ASSUME NEW r \in Reqs \cup Admins, CallCredentials(r) \/ SetToken(r) PROVE FALSE
    BY <2>4 DEF CallCredentials, SetToken, memVars
  <2>5. ~HumanOnboards /\ \A t \in Tokens : ~Expire(t)
    BY DEF HumanOnboards, Expire, memVars
  <2> QED BY <2>1, <2>2, <2>3, <2>4, <2>5 DEF Next
<1>2. IInv /\ [Next]_vars => [creds # None /\ creds' = None => Restart]_vars
  BY <1>1
<1> QED BY <1>2, Invariance, PTL DEF TokenStays, Spec

-----------------------------------------------------------------------------
(* The inductive invariant of HassFlows.                                   *)

\* What a request carries at a step: an id only while it aborts or is to remember or abort
\* its flow, a list only while it aborts what is listed.
RequestInv ==
    \A r \in FlowReqs :
        /\ req[r].pc = "idle" => req[r].try = 1
        /\ req[r].pc \in {"probe", "probed"} => req[r].handler = Xiaomi
        /\ req[r].pc \in {"idle", "pop", "list", "abortlist", "start", "probe"}
              => req[r].id = NoFlow
        /\ req[r].pc # "abortlist" => req[r].todo = {}
        /\ req[r].pc = "refused" => req[r].id \notin Flows

\* What is remembered or carried for a handler is, while it is pending, that handler's.
OwnedInv ==
    \A f \in open :
        /\ \A h \in Handlers : last[h] = f.id => f.handler = h
        /\ \A r \in FlowReqs :
             req[r].id = f.id \/ f.id \in req[r].todo => f.handler = req[r].handler

\* A flow somebody started over the API is lost, remembered or carried.
TrackedInv ==
    \A f \in open :
        f.source = "user" => \/ f.id \in lost \/ last[f.handler] = f.id
                             \/ \E r \in InFlight : req[r].id = f.id

\* Requests in flight for one handler have met: both are excused.
MeetInv ==
    \A r, q \in InFlight : r # q /\ req[r].handler = req[q].handler => r \in excused

\* The flows of r's handler that HA started itself and r does not have on its list.
Unlisted(r) ==
    {f \in PendingFor(req[r].handler) : f.source = "other" /\ f.id \notin req[r].todo}

\* The flows of r's handler that were started over the API.
Asked(r) == {f \in PendingFor(req[r].handler) : f.source = "user"}

\* A request that is not excused has the handler to itself.  What was pending when it
\* began it knows and aborts; what is left when it starts its flow HA started meanwhile,
\* one flow per try at least.
CleanInv(r) ==
    /\ req[r].pc \in {"abortprev", "list", "abortlist", "start", "remember", "refused"}
          => last[req[r].handler] = NoFlow
    /\ req[r].pc = "pop" => \A f \in Asked(r) : f.id = last[req[r].handler]
    /\ req[r].pc = "abortprev" => \A f \in Asked(r) : f.id = req[r].id
    /\ req[r].pc \in {"list", "abortlist", "start"} => Asked(r) = {}
    /\ req[r].pc \in {"abortlist", "start"} /\ Unlisted(r) # {} => spawns[r] >= req[r].try
    /\ spawns[r] + 1 >= req[r].try
    /\ req[r].pc = "refused" => spawns[r] = 2

AllClean == \A r \in InFlight \ excused : CleanInv(r)

FlowInv ==
    FlowTypeOK /\ RequestInv /\ OwnedInv /\ TrackedInv /\ MeetInv /\ AllClean

-----------------------------------------------------------------------------
(* HassFlows: the steps, as the proofs take them apart.                    *)

\* The POST of StartFlow or of the self-check: HA opens a flow and answers with its id, or
\* opens one and the answer is lost, or nothing is opened and the request ends.
PostForm(r) ==
    \E f \in FreeIds :
        /\ open' = open \cup {[id |-> f, handler |-> req[r].handler, source |-> "user"]}
        /\ \/ req[r].pc = "start" /\ Step(r, "remember", f, {})
           \/ req[r].pc = "probe" /\ Step(r, "probed", f, {})
        /\ UNCHANGED <<lost, excused, spawns>>

PostLost(r) ==
    \E f \in FreeIds :
        /\ open' = open \cup {[id |-> f, handler |-> req[r].handler, source |-> "user"]}
        /\ lost' = lost \cup {f} /\ End(r)

PostNone(r) == End(r) /\ UNCHANGED <<open, lost>>

\* StartFlow is refused, for the first or the second time.
PostRetry(r) ==
    /\ req[r].pc = "start" /\ req[r].try = 1 /\ PendingFor(req[r].handler) # {}
    /\ req' = [req EXCEPT ![r].pc = "pop", ![r].try = 2]
    /\ UNCHANGED <<open, lost, excused, spawns>>

PostRefused(r) ==
    /\ req[r].pc = "start" /\ req[r].try = 2 /\ PendingFor(req[r].handler) # {}
    /\ \E f \in {NoFlow, DeadFlow} : Step(r, "refused", f, {})
    /\ UNCHANGED <<open, lost, excused, spawns>>

\* The flow was over as it began, or the self-check was refused with an id.
PostDead(r) ==
    /\ \/ req[r].pc = "start" /\ \E f \in {NoFlow, DeadFlow} : Step(r, "remember", f, {})
       \/ req[r].pc = "probe" /\ Step(r, "probed", DeadFlow, {})
    /\ UNCHANGED <<open, lost, excused, spawns>>

Post(r) ==
    /\ req[r].pc \in {"start", "probe"} /\ UNCHANGED last
    /\ \/ PostForm(r) \/ PostLost(r) \/ PostNone(r)
       \/ PostRetry(r) \/ PostRefused(r) \/ PostDead(r)

\* What HA lists for r's handler.
Listed(r) == {f.id : f \in ListInProgressFlows \cap PendingFor(req[r].handler)}

\* A request for h begins, at the first step of StartFlow or of the self-check.
Begins(r, h) == Begin(r, h, "pop") \/ (h = Xiaomi /\ Begin(r, h, "probe"))

\* A user ends flow f.
Ends(f) == Closed(f) /\ UNCHANGED <<last, req, excused, spawns>>

\* The other requests are as they were.
OthersKeep(r) == \A q \in FlowReqs \ {r} : req'[q] = req[q]

\* A step of r changes where it is and what it carries.
LEMMA StepDoes ==
  ASSUME RequestsOK, NEW r \in FlowReqs, NEW id \in Ids, NEW todo \in SUBSET Flows,
         NEW step \in {"list", "abortprev", "abortlist", "start", "remember", "refused",
                       "probed"},
         Step(r, step, id, todo)
  PROVE  /\ RequestsOK' /\ OthersKeep(r)
         /\ req'[r].pc = step /\ req'[r].id = id /\ req'[r].todo = todo
         /\ req'[r].handler = req[r].handler /\ req'[r].try = req[r].try
<1> DEFINE R == [pc : {"idle", "pop", "abortprev", "list", "abortlist", "start",
                       "remember", "refused", "probe", "probed"},
                 handler : Handlers, try : {1, 2}, id : Ids, todo : SUBSET Flows]
           x == [req[r] EXCEPT !.pc = step, !.id = id, !.todo = todo]
<1>1. req \in [FlowReqs -> R] /\ req[r] \in R
  BY DEF RequestsOK
<1>2. /\ x \in R /\ x.pc = step /\ x.id = id /\ x.todo = todo
      /\ x.handler = req[r].handler /\ x.try = req[r].try
  BY <1>1
<1>3. req' = [req EXCEPT ![r] = x]
  BY <1>1 DEF Step
<1> HIDE DEF x
<1>4. req' \in [FlowReqs -> R] /\ req'[r] = x /\ OthersKeep(r)
  BY <1>1, <1>2, <1>3 DEF OthersKeep
<1> QED BY <1>2, <1>4 DEF RequestsOK

\* A request that ends is idle, and carries nothing.
LEMMA EndDoes ==
  ASSUME RequestsOK, NEW r \in FlowReqs, End(r)
  PROVE  /\ RequestsOK' /\ OthersKeep(r)
         /\ req'[r].pc = "idle" /\ req'[r].id = NoFlow /\ req'[r].todo = {}
         /\ req'[r].handler = Xiaomi /\ req'[r].try = 1
BY FlowConstants DEF RequestsOK, End, Idle, Ids, OthersKeep

\* A flow was opened for r, which carries its id on to the next step.
LEMMA FormDoes ==
  ASSUME RequestsOK, NEW r \in FlowReqs, PostForm(r)
  PROVE  \E f \in FreeIds :
           /\ open' = open \cup {[id |-> f, handler |-> req[r].handler, source |-> "user"]}
           /\ UNCHANGED <<lost, excused, spawns>>
           /\ RequestsOK' /\ OthersKeep(r)
           /\ \/ req[r].pc = "start" /\ req'[r].pc = "remember"
              \/ req[r].pc = "probe" /\ req'[r].pc = "probed"
           /\ req'[r].id = f /\ req'[r].todo = {}
           /\ req'[r].handler = req[r].handler /\ req'[r].try = req[r].try
<1>1. PICK f \in FreeIds :
        /\ open' = open \cup {[id |-> f, handler |-> req[r].handler, source |-> "user"]}
        /\ UNCHANGED <<lost, excused, spawns>>
        /\ \/ req[r].pc = "start" /\ Step(r, "remember", f, {})
           \/ req[r].pc = "probe" /\ Step(r, "probed", f, {})
  BY DEF PostForm
<1>2. f \in Ids
  BY DEF FreeIds, Ids
<1>3. CASE req[r].pc = "start" /\ Step(r, "remember", f, {})
  BY <1>1, <1>2, <1>3, StepDoes
<1>4. CASE req[r].pc = "probe" /\ Step(r, "probed", f, {})
  BY <1>1, <1>2, <1>4, StepDoes
<1> QED BY <1>1, <1>3, <1>4

\* No flow is pending for r, which goes on with the id of none.
LEMMA DeadDoes ==
  ASSUME RequestsOK, NEW r \in FlowReqs, PostDead(r)
  PROVE  /\ UNCHANGED <<open, lost, excused, spawns>>
         /\ RequestsOK' /\ OthersKeep(r)
         /\ \/ req[r].pc = "start" /\ req'[r].pc = "remember"
            \/ req[r].pc = "probe" /\ req'[r].pc = "probed"
         /\ req'[r].id \in {NoFlow, DeadFlow} /\ req'[r].todo = {}
         /\ req'[r].handler = req[r].handler /\ req'[r].try = req[r].try
<1>1. CASE req[r].pc = "start" /\ \E f \in {NoFlow, DeadFlow} : Step(r, "remember", f, {})
  <2>1. PICK f \in {NoFlow, DeadFlow} : Step(r, "remember", f, {})
    BY <1>1
  <2> QED BY <1>1, <2>1, StepDoes DEF PostDead, Ids
<1>2. CASE req[r].pc = "probe" /\ Step(r, "probed", DeadFlow, {})
  BY <1>2, StepDoes DEF PostDead, Ids
<1> QED BY <1>1, <1>2 DEF PostDead

\* StartFlow posts once.
LEMMA StartCallPosts == ASSUME NEW r \in FlowReqs, StartCall(r) PROVE Post(r)
BY DEF StartCall, ClientStartFlow, Opened, Post, PostForm, PostLost, PostNone, PostRetry,
       PostRefused, PostDead

\* So does the self-check, for the handler it began with.
LEMMA ProbeStartPosts ==
  ASSUME RequestInv, NEW r \in FlowReqs, ProbeStart(r) PROVE Post(r)
<1>0. req[r].pc = "probe" /\ req[r].handler = Xiaomi /\ UNCHANGED last
  BY DEF RequestInv, ProbeStart
<1>1. CASE End(r) /\ UNCHANGED <<open, lost>>
  BY <1>0, <1>1 DEF Post, PostNone
<1>2. ASSUME NEW out \in Answers, NEW f \in Ids, ClientStartFlow(Xiaomi, out, f),
             IF f = NoFlow THEN End(r)
             ELSE Step(r, "probed", f, {}) /\ UNCHANGED <<excused, spawns>>
      PROVE  Post(r)
  <2> USE <1>0, <1>2, FlowConstants DEF Post
  <2>1. CASE out = "form" /\ Opened(f, Xiaomi, "user") /\ UNCHANGED lost
    BY <2>1 DEF PostForm, Opened, FreeIds
  <2>2. CASE out # "error" /\ f \in {NoFlow, DeadFlow} /\ UNCHANGED <<open, lost>>
    BY <2>2 DEF PostNone, PostDead
  <2>3. CASE out = "error" /\ f = NoFlow /\ UNCHANGED <<open, lost>>
    BY <2>3 DEF PostNone
  <2>4. CASE /\ f = NoFlow
             /\ \E g \in Flows : Opened(g, Xiaomi, "user") /\ lost' = lost \cup {g}
    BY <2>4 DEF PostLost, Opened
  <2> QED BY <2>1, <2>2, <2>3, <2>4 DEF ClientStartFlow
<1> QED BY <1>1, <1>2 DEF ProbeStart

\* The steps of the proofs cover every step of the specification.
LEMMA FlowSteps ==
  ASSUME RequestInv, [FlowNext]_flowVars
  PROVE  \/ \E r \in FlowReqs :
              \/ popLastFlow(r) \/ ScrubPrevious(r) \/ ScrubList(r) \/ ScrubListed(r)
              \/ Post(r) \/ rememberFlow(r) \/ ProbeAbort(r)
              \/ \E h \in Handlers : Begins(r, h)
         \/ \E f \in Flows : Ends(f)
         \/ \E h \in Handlers : Spawn(h)
         \/ HaRestart \/ ForgetFlows \/ UNCHANGED flowVars
<1>1. ASSUME NEW r \in FlowReqs, Serve(r)
      PROVE  \/ popLastFlow(r) \/ ScrubPrevious(r) \/ ScrubList(r) \/ ScrubListed(r)
             \/ Post(r) \/ rememberFlow(r) \/ ProbeAbort(r)
  BY <1>1, StartCallPosts, ProbeStartPosts DEF Serve
<1>2. ASSUME NEW r \in FlowReqs, SelfCheck(r) \/ \E h \in Handlers : StartFlow(r, h)
      PROVE  \E h \in Handlers : Begins(r, h)
  BY <1>2, FlowConstants DEF SelfCheck, StartFlow, Begins
<1>3. ASSUME NEW f \in Flows, StepFlow(f) \/ UserAbort(f) PROVE Ends(f)
  BY <1>3 DEF StepFlow, UserAbort, AbortFlow, Ends
<1> QED BY <1>1, <1>2, <1>3 DEF FlowNext

-----------------------------------------------------------------------------
(* HassFlows: the invariant holds.                                         *)

\* Requests keep their type.
LEMMA RequestsStep == ASSUME FlowTypeOK, RequestInv, [FlowNext]_flowVars PROVE RequestsOK'
<1> USE FlowConstants DEF FlowTypeOK
<1>1. ASSUME NEW r \in FlowReqs, popLastFlow(r) PROVE RequestsOK'
  BY <1>1, StepDoes DEF popLastFlow, RequestsOK
<1>2. ASSUME NEW r \in FlowReqs, ScrubPrevious(r) PROVE RequestsOK'
  BY <1>2, StepDoes DEF ScrubPrevious, Ids
<1>3. ASSUME NEW r \in FlowReqs, ScrubList(r) PROVE RequestsOK'
  <2>1. Listed(r) \in SUBSET Flows
    BY DEF OpenOK, Listed, ListInProgressFlows
  <2> QED BY <1>3, <2>1, StepDoes DEF ScrubList, Listed, Ids
<1>4. ASSUME NEW r \in FlowReqs, ScrubListed(r) PROVE RequestsOK'
  <2>1. PICK todo \in SUBSET Flows, step \in {"abortlist", "start"} :
          Step(r, step, NoFlow, todo)
    BY <1>4 DEF ScrubListed, RequestsOK
  <2> QED BY <2>1, StepDoes DEF Ids
<1>5. ASSUME NEW r \in FlowReqs, Post(r) PROVE RequestsOK'
  <2> USE <1>5 DEF Post
  <2>1. CASE PostForm(r)
    BY <2>1, FormDoes
  <2>2. CASE PostLost(r)
    BY <2>2, EndDoes DEF PostLost
  <2>3. CASE PostNone(r)
    BY <2>3, EndDoes DEF PostNone
  <2>4. CASE PostRetry(r)
    BY <2>4 DEF PostRetry, RequestsOK
  <2>5. CASE PostRefused(r)
    BY <2>5, StepDoes DEF PostRefused, Ids
  <2>6. CASE PostDead(r)
    BY <2>6, StepDoes DEF PostDead, Ids
  <2> QED BY <2>1, <2>2, <2>3, <2>4, <2>5, <2>6
<1>6. ASSUME NEW r \in FlowReqs, rememberFlow(r) PROVE RequestsOK'
  BY <1>6, EndDoes DEF rememberFlow
<1>7. ASSUME NEW r \in FlowReqs, ProbeAbort(r) PROVE RequestsOK'
  BY <1>7, EndDoes DEF ProbeAbort
<1>8. ASSUME NEW r \in FlowReqs, NEW h \in Handlers, Begins(r, h) PROVE RequestsOK'
  BY <1>8 DEF Begins, Begin, RequestsOK
<1>9. ASSUME NEW f \in Flows, Ends(f) PROVE RequestsOK'
  BY <1>9 DEF Ends, RequestsOK
<1>10. ASSUME NEW h \in Handlers, Spawn(h) PROVE RequestsOK'
  BY <1>10 DEF Spawn, RequestsOK
<1>11. CASE HaRestart
  BY <1>11 DEF HaRestart, RequestsOK
<1>12. CASE ForgetFlows
  BY <1>12 DEF ForgetFlows, Idle, Ids, RequestsOK
<1>13. CASE UNCHANGED flowVars
  BY <1>13 DEF flowVars, RequestsOK
<1> QED
  BY <1>1, <1>2, <1>3, <1>4, <1>5, <1>6, <1>7, <1>8, <1>9, <1>10, <1>11, <1>12, <1>13,
     FlowSteps

\* Every step preserves the types.
LEMMA FlowTypeStep == ASSUME FlowTypeOK, RequestInv, [FlowNext]_flowVars PROVE FlowTypeOK'
<1> USE FlowConstants DEF FlowTypeOK
<1>0. RequestsOK'
  BY RequestsStep
<1>1. ASSUME NEW r \in FlowReqs, popLastFlow(r) PROVE FlowTypeOK'
  <2>1. OpenOK' /\ last' \in [Handlers -> Ids]
    BY <1>1 DEF OpenOK, Ids, popLastFlow
  <2>2. HistoryOK'
    BY <1>1 DEF HistoryOK, InFlight, Pending, popLastFlow, RequestsOK, Step
  <2> QED BY <1>0, <2>1, <2>2
<1>2. ASSUME NEW r \in FlowReqs, ScrubPrevious(r) PROVE FlowTypeOK'
  <2>1. OpenOK' /\ last' \in [Handlers -> Ids]
    BY <1>2 DEF OpenOK, Ids, ScrubPrevious, AbortFlow, Closed
  <2>2. HistoryOK'
    BY <1>2
      DEF HistoryOK, InFlight, Pending, ScrubPrevious, RequestsOK, Step, AbortFlow,
          Closed, Excuse
  <2> QED BY <1>0, <2>1, <2>2
<1>3. ASSUME NEW r \in FlowReqs, ScrubList(r) PROVE FlowTypeOK'
  BY <1>3, <1>0
    DEF OpenOK, RequestsOK, HistoryOK, InFlight, Pending, Ids, ScrubList,
        ListInProgressFlows, PendingFor, Excuse, Step
<1>4. ASSUME NEW r \in FlowReqs, ScrubListed(r) PROVE FlowTypeOK'
  <2>1. OpenOK' /\ last' \in [Handlers -> Ids]
    BY <1>4 DEF OpenOK, Ids, ScrubListed, AbortFlow, Closed
  <2>2. HistoryOK'
    BY <1>4
      DEF HistoryOK, InFlight, Pending, ScrubListed, RequestsOK, Step, AbortFlow, Closed,
          Excuse
  <2> QED BY <1>0, <2>1, <2>2
<1>5. ASSUME NEW r \in FlowReqs, Post(r) PROVE FlowTypeOK'
  <2> USE <1>5 DEF Post
  <2>1. CASE PostForm(r)
    <3>1. OpenOK' /\ last' \in [Handlers -> Ids]
      BY <2>1, FormDoes DEF OpenOK, Ids, RequestsOK, FreeIds, Pending
    <3>2. HistoryOK'
      BY <2>1, FormDoes DEF HistoryOK, InFlight, Pending, OthersKeep
    <3> QED BY <1>0, <3>1, <3>2
  <2>2. CASE PostLost(r)
    <3>1. OpenOK' /\ last' \in [Handlers -> Ids]
      BY <2>2 DEF OpenOK, Ids, PostLost, RequestsOK, FreeIds, Pending
    <3>2. HistoryOK'
      <4>1. lost' \subseteq Pending'
        <5>1. PICK f \in FreeIds :
                /\ open' = open \cup {[id |-> f, handler |-> req[r].handler, source |-> "user"]}
                /\ lost' = lost \cup {f}
          BY <2>2, <1>0 DEF OpenOK, RequestsOK, HistoryOK, InFlight, Pending, Ids, PostLost
        <5> QED BY <5>1 DEF HistoryOK, Pending
      <4>2. excused' \subseteq InFlight' /\ spawns' \in [FlowReqs -> 0 .. 2]
        BY <2>2, <1>0
          DEF OpenOK, RequestsOK, HistoryOK, InFlight, Pending, Ids, PostLost, End, Idle,
              HistoryOK, InFlight, RequestsOK
      <4> QED BY <4>1, <4>2 DEF HistoryOK
    <3> QED BY <1>0, <3>1, <3>2
  <2>3. CASE PostNone(r)
    BY <2>3, <1>0
      DEF OpenOK, RequestsOK, HistoryOK, InFlight, Pending, Ids, PostNone, End, Idle
  <2>4. CASE PostRetry(r)
    BY <2>4, <1>0 DEF OpenOK, RequestsOK, HistoryOK, InFlight, Pending, Ids, PostRetry
  <2>5. CASE PostRefused(r)
    BY <2>5, <1>0
      DEF OpenOK, RequestsOK, HistoryOK, InFlight, Pending, Ids, PostRefused, Step
  <2>6. CASE PostDead(r)
    <3>1. OpenOK' /\ last' \in [Handlers -> Ids]
      BY <2>6 DEF OpenOK, Ids, PostDead
    <3>2. HistoryOK'
      BY <2>6, DeadDoes DEF HistoryOK, InFlight, Pending, OthersKeep
    <3> QED BY <1>0, <3>1, <3>2
  <2> QED BY <2>1, <2>2, <2>3, <2>4, <2>5, <2>6
<1>6. ASSUME NEW r \in FlowReqs, rememberFlow(r) PROVE FlowTypeOK'
  BY <1>6, <1>0
    DEF OpenOK, RequestsOK, HistoryOK, InFlight, Pending, Ids, rememberFlow, End, Idle
<1>7. ASSUME NEW r \in FlowReqs, ProbeAbort(r) PROVE FlowTypeOK'
  BY <1>7, <1>0
    DEF OpenOK, RequestsOK, HistoryOK, InFlight, Pending, Ids, ProbeAbort, AbortFlow,
        Closed, End, Idle
<1>8. ASSUME NEW r \in FlowReqs, NEW h \in Handlers, Begins(r, h) PROVE FlowTypeOK'
  BY <1>8, <1>0
    DEF OpenOK, RequestsOK, HistoryOK, InFlight, Pending, Ids, Begins, Begin, PendingFor
<1>9. ASSUME NEW f \in Flows, Ends(f) PROVE FlowTypeOK'
  BY <1>9, <1>0 DEF OpenOK, RequestsOK, HistoryOK, InFlight, Pending, Ids, Ends, Closed
<1>10. ASSUME NEW h \in Handlers, Spawn(h) PROVE FlowTypeOK'
  BY <1>10, <1>0
    DEF OpenOK, RequestsOK, HistoryOK, InFlight, Pending, Ids, Spawn, Opened, FreeIds,
        Known
<1>11. CASE HaRestart
  BY <1>11, <1>0 DEF OpenOK, RequestsOK, HistoryOK, InFlight, Pending, Ids, HaRestart
<1>12. CASE ForgetFlows
  BY <1>12, <1>0
    DEF OpenOK, RequestsOK, HistoryOK, InFlight, Pending, Ids, ForgetFlows, Idle
<1>13. CASE UNCHANGED flowVars
  BY <1>13, <1>0 DEF OpenOK, RequestsOK, HistoryOK, InFlight, Pending, Ids, flowVars
<1> QED
  BY <1>1, <1>2, <1>3, <1>4, <1>5, <1>6, <1>7, <1>8, <1>9, <1>10, <1>11, <1>12, <1>13,
     FlowSteps

\* Every step takes up, carries and drops ids and lists as RequestInv says.
LEMMA RequestStep == ASSUME FlowTypeOK, RequestInv, [FlowNext]_flowVars PROVE RequestInv'
<1> USE FlowConstants DEF FlowTypeOK, RequestsOK, RequestInv, Ids
<1>1. ASSUME NEW r \in FlowReqs, popLastFlow(r) PROVE RequestInv'
  BY <1>1 DEF popLastFlow, Step
<1>2. ASSUME NEW r \in FlowReqs, ScrubPrevious(r) PROVE RequestInv'
  BY <1>2 DEF ScrubPrevious, Step
<1>3. ASSUME NEW r \in FlowReqs, ScrubList(r) PROVE RequestInv'
  BY <1>3 DEF ScrubList, Step
<1>4. ASSUME NEW r \in FlowReqs, ScrubListed(r) PROVE RequestInv'
  BY <1>4 DEF ScrubListed, Step
<1>5. ASSUME NEW r \in FlowReqs, Post(r) PROVE RequestInv'
  <2> USE <1>5 DEF Post
  <2>1. CASE PostForm(r)
    BY <2>1, FormDoes DEF OthersKeep
  <2>2. CASE PostLost(r)
    BY <2>2 DEF PostLost, End, Idle
  <2>3. CASE PostNone(r)
    BY <2>3 DEF PostNone, End, Idle
  <2>4. CASE PostRetry(r)
    BY <2>4 DEF PostRetry
  <2>5. CASE PostRefused(r)
    BY <2>5 DEF PostRefused, Step
  <2>6. CASE PostDead(r)
    BY <2>6, DeadDoes DEF OthersKeep
  <2> QED BY <2>1, <2>2, <2>3, <2>4, <2>5, <2>6
<1>6. ASSUME NEW r \in FlowReqs, rememberFlow(r) PROVE RequestInv'
  BY <1>6 DEF rememberFlow, End, Idle
<1>7. ASSUME NEW r \in FlowReqs, ProbeAbort(r) PROVE RequestInv'
  BY <1>7 DEF ProbeAbort, End, Idle
<1>8. ASSUME NEW r \in FlowReqs, NEW h \in Handlers, Begins(r, h) PROVE RequestInv'
  BY <1>8 DEF Begins, Begin
<1>9. ASSUME NEW f \in Flows, Ends(f) PROVE RequestInv'
  BY <1>9 DEF Ends
<1>10. ASSUME NEW h \in Handlers, Spawn(h) PROVE RequestInv'
  BY <1>10 DEF Spawn
<1>11. CASE HaRestart
  BY <1>11 DEF HaRestart
<1>12. CASE ForgetFlows
  BY <1>12 DEF ForgetFlows, Idle
<1>13. CASE UNCHANGED flowVars
  BY <1>13 DEF flowVars
<1> QED
  BY <1>1, <1>2, <1>3, <1>4, <1>5, <1>6, <1>7, <1>8, <1>9, <1>10, <1>11, <1>12, <1>13,
     FlowSteps

\* An id is drawn only when nothing refers to it, so that what is remembered or carried for
\* a handler stays that handler's.
LEMMA OwnedStep == ASSUME FlowInv, [FlowNext]_flowVars PROVE OwnedInv'
<1> USE FlowConstants
  DEF FlowInv, FlowTypeOK, OpenOK, RequestsOK, RequestInv, OwnedInv, Pending, Ids
<1>1. ASSUME NEW r \in FlowReqs, popLastFlow(r) PROVE OwnedInv'
  BY <1>1 DEF popLastFlow, Step
<1>2. ASSUME NEW r \in FlowReqs, ScrubPrevious(r) PROVE OwnedInv'
  BY <1>2 DEF ScrubPrevious, AbortFlow, Closed, Step
<1>3. ASSUME NEW r \in FlowReqs, ScrubList(r) PROVE OwnedInv'
  BY <1>3 DEF ScrubList, ListInProgressFlows, PendingFor, Step
<1>4. ASSUME NEW r \in FlowReqs, ScrubListed(r) PROVE OwnedInv'
  BY <1>4 DEF ScrubListed, AbortFlow, Closed, Step
<1>5. ASSUME NEW r \in FlowReqs, Post(r) PROVE OwnedInv'
  <2> USE <1>5 DEF Post
  <2>1. CASE PostForm(r)
    BY <2>1, FormDoes DEF FreeIds, Known, OthersKeep
  <2>2. CASE PostLost(r)
    BY <2>2 DEF PostLost, FreeIds, Known, End, Idle
  <2>3. CASE PostNone(r)
    BY <2>3 DEF PostNone, End, Idle
  <2>4. CASE PostRetry(r)
    BY <2>4 DEF PostRetry
  <2>5. CASE PostRefused(r)
    BY <2>5 DEF PostRefused, Step
  <2>6. CASE PostDead(r)
    BY <2>6 DEF PostDead, Step
  <2> QED BY <2>1, <2>2, <2>3, <2>4, <2>5, <2>6
<1>6. ASSUME NEW r \in FlowReqs, rememberFlow(r) PROVE OwnedInv'
  BY <1>6 DEF rememberFlow, End, Idle
<1>7. ASSUME NEW r \in FlowReqs, ProbeAbort(r) PROVE OwnedInv'
  BY <1>7 DEF ProbeAbort, AbortFlow, Closed, End, Idle
<1>8. ASSUME NEW r \in FlowReqs, NEW h \in Handlers, Begins(r, h) PROVE OwnedInv'
  BY <1>8 DEF Begins, Begin, PendingFor
<1>9. ASSUME NEW f \in Flows, Ends(f) PROVE OwnedInv'
  BY <1>9 DEF Ends, Closed
<1>10. ASSUME NEW h \in Handlers, Spawn(h) PROVE OwnedInv'
  BY <1>10 DEF Spawn, Opened, FreeIds, Known
<1>11. CASE HaRestart
  BY <1>11 DEF HaRestart
<1>12. CASE ForgetFlows
  BY <1>12 DEF ForgetFlows, Idle
<1>13. CASE UNCHANGED flowVars
  BY <1>13 DEF flowVars
<1> QED
  BY <1>1, <1>2, <1>3, <1>4, <1>5, <1>6, <1>7, <1>8, <1>9, <1>10, <1>11, <1>12, <1>13,
     FlowSteps

\* Every step that drops an id closes its flow, hands it on or records it as lost: what
\* rememberFlow overwrites unrecorded is NoFlow, as the request has the handler to itself.
LEMMA TrackedStep == ASSUME FlowInv, [FlowNext]_flowVars PROVE TrackedInv'
<1> USE FlowConstants
  DEF FlowInv, FlowTypeOK, OpenOK, RequestsOK, RequestInv, TrackedInv, AllClean, CleanInv,
      OwnedInv, Pending, Ids, InFlight
<1>1. ASSUME NEW r \in FlowReqs, popLastFlow(r) PROVE TrackedInv'
  BY <1>1 DEF popLastFlow, Step
<1>2. ASSUME NEW r \in FlowReqs, ScrubPrevious(r) PROVE TrackedInv'
  BY <1>2 DEF ScrubPrevious, AbortFlow, Closed, Step
<1>3. ASSUME NEW r \in FlowReqs, ScrubList(r) PROVE TrackedInv'
  BY <1>3 DEF ScrubList, ListInProgressFlows, Step
<1>4. ASSUME NEW r \in FlowReqs, ScrubListed(r) PROVE TrackedInv'
  BY <1>4 DEF ScrubListed, AbortFlow, Closed, Step
<1>5. ASSUME NEW r \in FlowReqs, Post(r) PROVE TrackedInv'
  <2> USE <1>5 DEF Post
  <2>1. CASE PostForm(r)
    BY <2>1, FormDoes DEF FreeIds, Known, OthersKeep
  <2>2. CASE PostLost(r)
    BY <2>2 DEF PostLost, FreeIds, Known, End, Idle
  <2>3. CASE PostNone(r)
    BY <2>3 DEF PostNone, End, Idle
  <2>4. CASE PostRetry(r)
    BY <2>4 DEF PostRetry
  <2>5. CASE PostRefused(r)
    BY <2>5 DEF PostRefused, Step
  <2>6. CASE PostDead(r)
    BY <2>6 DEF PostDead, Step
  <2> QED BY <2>1, <2>2, <2>3, <2>4, <2>5, <2>6
<1>6. ASSUME NEW r \in FlowReqs, rememberFlow(r) PROVE TrackedInv'
  BY <1>6 DEF rememberFlow, End, Idle
<1>7. ASSUME NEW r \in FlowReqs, ProbeAbort(r) PROVE TrackedInv'
  BY <1>7 DEF ProbeAbort, AbortFlow, Closed, End, Idle
<1>8. ASSUME NEW r \in FlowReqs, NEW h \in Handlers, Begins(r, h) PROVE TrackedInv'
  BY <1>8 DEF Begins, Begin
<1>9. ASSUME NEW f \in Flows, Ends(f) PROVE TrackedInv'
  BY <1>9 DEF Ends, Closed
<1>10. ASSUME NEW h \in Handlers, Spawn(h) PROVE TrackedInv'
  BY <1>10 DEF Spawn, Opened, FreeIds, Known
<1>11. CASE HaRestart
  BY <1>11 DEF HaRestart
<1>12. CASE ForgetFlows
  BY <1>12 DEF ForgetFlows, Idle
<1>13. CASE UNCHANGED flowVars
  BY <1>13 DEF flowVars
<1> QED
  BY <1>1, <1>2, <1>3, <1>4, <1>5, <1>6, <1>7, <1>8, <1>9, <1>10, <1>11, <1>12, <1>13,
     FlowSteps

\* Requests that meet are excused until they end.
LEMMA MeetStep == ASSUME FlowInv, [FlowNext]_flowVars PROVE MeetInv'
<1> USE FlowConstants DEF FlowInv, FlowTypeOK, RequestsOK, MeetInv, InFlight
<1>1. ASSUME NEW r \in FlowReqs, popLastFlow(r) PROVE MeetInv'
  BY <1>1 DEF popLastFlow, Step
<1>2. ASSUME NEW r \in FlowReqs, ScrubPrevious(r) PROVE MeetInv'
  BY <1>2 DEF ScrubPrevious, Excuse, Step
<1>3. ASSUME NEW r \in FlowReqs, ScrubList(r) PROVE MeetInv'
  <2>1. /\ InFlight' \subseteq InFlight
        /\ \A q \in FlowReqs : req'[q].handler = req[q].handler
    BY <1>3 DEF ScrubList, Step
  <2>2. excused \subseteq excused'
    BY <1>3 DEF ScrubList, Excuse
  <2> HIDE DEF InFlight
  <2>3. InFlight \subseteq FlowReqs
    BY DEF InFlight
  <2> QED BY <2>1, <2>2, <2>3
<1>4. ASSUME NEW r \in FlowReqs, ScrubListed(r) PROVE MeetInv'
  BY <1>4 DEF ScrubListed, Excuse, Step
<1>5. ASSUME NEW r \in FlowReqs, Post(r) PROVE MeetInv'
  <2> USE <1>5 DEF Post
  <2>1. CASE PostForm(r)
    BY <2>1, FormDoes DEF OthersKeep
  <2>2. CASE PostLost(r)
    BY <2>2 DEF PostLost, End, Idle
  <2>3. CASE PostNone(r)
    BY <2>3 DEF PostNone, End, Idle
  <2>4. CASE PostRetry(r)
    BY <2>4 DEF PostRetry
  <2>5. CASE PostRefused(r)
    BY <2>5 DEF PostRefused, Step
  <2>6. CASE PostDead(r)
    BY <2>6 DEF PostDead, Step
  <2> QED BY <2>1, <2>2, <2>3, <2>4, <2>5, <2>6
<1>6. ASSUME NEW r \in FlowReqs, rememberFlow(r) PROVE MeetInv'
  BY <1>6 DEF rememberFlow, End, Idle
<1>7. ASSUME NEW r \in FlowReqs, ProbeAbort(r) PROVE MeetInv'
  BY <1>7 DEF ProbeAbort, End, Idle
<1>8. ASSUME NEW r \in FlowReqs, NEW h \in Handlers, Begins(r, h) PROVE MeetInv'
  BY <1>8 DEF Begins, Begin
<1>9. ASSUME NEW f \in Flows, Ends(f) PROVE MeetInv'
  BY <1>9 DEF Ends
<1>10. ASSUME NEW h \in Handlers, Spawn(h) PROVE MeetInv'
  BY <1>10 DEF Spawn
<1>11. CASE HaRestart
  BY <1>11 DEF HaRestart
<1>12. CASE ForgetFlows
  BY <1>12 DEF ForgetFlows, Idle
<1>13. CASE UNCHANGED flowVars
  BY <1>13 DEF flowVars
<1> QED
  BY <1>1, <1>2, <1>3, <1>4, <1>5, <1>6, <1>7, <1>8, <1>9, <1>10, <1>11, <1>12, <1>13,
     FlowSteps

\* A request of which nothing changes, and for whose handler no flow is opened, stays clean.
LEMMA CleanKept ==
  ASSUME NEW q \in FlowReqs, CleanInv(q), req'[q] = req[q], spawns'[q] = spawns[q],
         last'[req[q].handler] = last[req[q].handler],
         \A f \in open' : f \in open \/ f.handler # req[q].handler
  PROVE  CleanInv(q)'
BY DEF CleanInv, Asked, Unlisted, PendingFor

\* What r does for handler h leaves the requests for other handlers clean, and those for h
\* are excused.
LEMMA OthersClean ==
  ASSUME FlowInv, NEW r \in FlowReqs, NEW h \in Handlers, OthersKeep(r),
         excused \subseteq excused' \cup {r},
         \A q \in InFlight \ {r} : req[q].handler = h => q \in excused',
         \A q \in FlowReqs \ {r} : spawns'[q] = spawns[q],
         \A k \in Handlers \ {h} : last'[k] = last[k],
         \A f \in open' : f \in open \/ f.handler = h
  PROVE  \A q \in InFlight' \ excused' : q # r => CleanInv(q)'
<1> TAKE q \in InFlight' \ excused'
<1> HAVE q # r
<1>1. q \in FlowReqs /\ req'[q] = req[q] /\ q \in InFlight
  BY DEF InFlight, OthersKeep
<1>2. CleanInv(q) /\ req[q].handler # h /\ req[q].handler \in Handlers
  BY <1>1 DEF FlowInv, AllClean, FlowTypeOK, RequestsOK
<1> QED BY <1>1, <1>2, CleanKept

\* In particular for a request in flight, which has met the others for its handler.
LEMMA OthersStayClean ==
  ASSUME FlowInv, NEW r \in InFlight, OthersKeep(r), excused \subseteq excused' \cup {r},
         \A q \in FlowReqs \ {r} : spawns'[q] = spawns[q],
         \A k \in Handlers \ {req[r].handler} : last'[k] = last[k],
         \A f \in open' : f \in open \/ f.handler = req[r].handler
  PROVE  \A q \in InFlight' \ excused' : q # r => CleanInv(q)'
<1>1. r \in FlowReqs /\ req[r].handler \in Handlers
  BY DEF InFlight, FlowInv, FlowTypeOK, RequestsOK
<1>2. \A q \in InFlight \ {r} : req[q].handler = req[r].handler => q \in excused'
  BY <1>1 DEF FlowInv, MeetInv
<1> QED BY <1>1, <1>2, OthersClean

\* Whatever HA answers to a POST, the requests stay clean: a refusal shows that HA started
\* a flow after the list was taken.
LEMMA PostClean == ASSUME FlowInv, NEW r \in FlowReqs, Post(r) PROVE AllClean'
<1> USE DEF FlowInv, FlowTypeOK
<1>0. r \in InFlight /\ (r \notin excused => CleanInv(r)) /\ req[r].handler \in Handlers
  BY DEF Post, InFlight, AllClean, RequestsOK
<1>1. CASE PostForm(r)
  <2>1. PICK f \in FreeIds :
          /\ open' = open \cup {[id |-> f, handler |-> req[r].handler, source |-> "user"]}
          /\ UNCHANGED <<lost, excused, spawns>> /\ OthersKeep(r)
          /\ \/ req[r].pc = "start" /\ req'[r].pc = "remember"
             \/ req[r].pc = "probe" /\ req'[r].pc = "probed"
          /\ req'[r].handler = req[r].handler /\ req'[r].try = req[r].try
    BY <1>1, FormDoes
  <2>2. \A q \in InFlight' \ excused' : q # r => CleanInv(q)'
    BY <1>0, <2>1, OthersStayClean DEF Post
  <2>3. r \in InFlight' \ excused' => CleanInv(r)'
    BY <1>0, <2>1 DEF CleanInv, Post
  <2> QED BY <2>2, <2>3 DEF AllClean, InFlight
<1>2. ASSUME End(r), \A f \in open' : f \in open \/ f.handler = req[r].handler
      PROVE  AllClean'
  <2>1. OthersKeep(r) /\ req'[r].pc = "idle"
    BY <1>2, EndDoes
  <2>2. excused' = excused \ {r} /\ \A q \in FlowReqs \ {r} : spawns'[q] = spawns[q]
    BY <1>2 DEF End, HistoryOK
  <2>3. \A q \in InFlight' \ excused' : q # r => CleanInv(q)'
    BY <1>0, <1>2, <2>1, <2>2, OthersStayClean DEF Post
  <2> QED BY <2>1, <2>3 DEF AllClean, InFlight
<1>3. CASE PostLost(r)
  BY <1>2, <1>3 DEF PostLost
<1>4. CASE PostNone(r)
  BY <1>2, <1>4 DEF PostNone
<1>5. ASSUME req[r].pc = "start", r \notin excused, PendingFor(req[r].handler) # {}
      PROVE  Asked(r) = {} /\ spawns[r] >= req[r].try /\ last[req[r].handler] = NoFlow
  <2>1. req[r].todo = {} /\ Asked(r) = {} /\ last[req[r].handler] = NoFlow
    BY <1>0, <1>5 DEF RequestInv, CleanInv
  <2>2. Unlisted(r) # {}
    BY <1>5, <2>1 DEF Unlisted, Asked, PendingFor, OpenOK
  <2> QED BY <1>0, <1>5, <2>1, <2>2 DEF CleanInv
<1>6. CASE PostRetry(r)
  <2>1. /\ OthersKeep(r) /\ req'[r].pc = "pop" /\ req'[r].try = 2
        /\ req'[r].handler = req[r].handler
    BY <1>6 DEF PostRetry, OthersKeep, RequestsOK
  <2>2. \A q \in InFlight' \ excused' : q # r => CleanInv(q)'
    BY <1>0, <1>6, <2>1, OthersStayClean DEF Post, PostRetry
  <2>3. r \notin excused => Asked(r) = {} /\ spawns[r] >= 1
    BY <1>5, <1>6 DEF PostRetry
  <2>4. Asked(r)' = Asked(r) /\ spawns'[r] = spawns[r] /\ excused' = excused
    BY <1>6, <2>1 DEF PostRetry, Asked, PendingFor
  <2>5. r \in InFlight' \ excused' => CleanInv(r)'
    BY <2>1, <2>3, <2>4 DEF CleanInv, HistoryOK
  <2> QED BY <2>2, <2>5 DEF AllClean, InFlight
<1>7. CASE PostRefused(r)
  <2>1. OthersKeep(r) /\ req'[r].pc = "refused" /\ req'[r].handler = req[r].handler
    BY <1>7 DEF PostRefused, Step, OthersKeep, RequestsOK
  <2>2. req'[r].try = 2
    BY <1>7 DEF PostRefused, Step, RequestsOK
  <2>3. \A q \in InFlight' \ excused' : q # r => CleanInv(q)'
    BY <1>0, <1>7, <2>1, OthersStayClean DEF Post, PostRefused
  <2>4. r \notin excused => spawns[r] = 2 /\ last[req[r].handler] = NoFlow
    BY <1>5, <1>7 DEF PostRefused, HistoryOK
  <2>5. r \in InFlight' \ excused' => CleanInv(r)'
    BY <1>7, <2>1, <2>2, <2>4 DEF Post, PostRefused, CleanInv
  <2> QED BY <2>3, <2>5 DEF AllClean, InFlight
<1>8. CASE PostDead(r)
  <2>1. /\ OthersKeep(r) /\ UNCHANGED <<open, lost, excused, spawns>>
        /\ req[r].pc = "start" \/ req'[r].pc = "probed"
        /\ req'[r].pc \in {"remember", "probed"}
        /\ req'[r].handler = req[r].handler /\ req'[r].try = req[r].try
    BY <1>8, DeadDoes
  <2>2. \A q \in InFlight' \ excused' : q # r => CleanInv(q)'
    BY <1>0, <2>1, OthersStayClean DEF Post
  <2>3. r \in InFlight' \ excused' => CleanInv(r)'
    BY <1>0, <2>1 DEF CleanInv, Post
  <2> QED BY <2>2, <2>3 DEF AllClean, InFlight
<1> QED BY <1>1, <1>3, <1>4, <1>6, <1>7, <1>8 DEF Post

\* A request that begins is excused, with the ones it meets, unless it has the handler to
\* itself and knows what is pending there.
LEMMA BeginClean ==
  ASSUME FlowInv, NEW r \in FlowReqs, NEW h \in Handlers, Begins(r, h) PROVE AllClean'
<1> USE FlowConstants DEF FlowInv, FlowTypeOK
<1>1. PICK step \in {"pop", "probe"} : Begin(r, h, step)
  BY DEF Begins
<1>2. /\ req[r].pc = "idle" /\ OthersKeep(r) /\ req'[r].pc = step
      /\ req'[r].handler = h /\ req'[r].try = req[r].try
      /\ UNCHANGED <<open, last, lost, spawns>>
  BY <1>1 DEF Begin, OthersKeep, RequestsOK
<1>3. /\ excused \subseteq excused'
      /\ \A q \in InFlight \ {r} : req[q].handler = h => q \in excused'
  BY <1>1 DEF Begin
<1>4. \A q \in InFlight' \ excused' : q # r => CleanInv(q)'
  BY <1>2, <1>3, OthersClean
<1>5. r \notin excused' => \A f \in PendingFor(h) : f.source = "user" => f.id = last[h]
  BY <1>1 DEF Begin
<1>6. req[r].try = 1 /\ spawns[r] \in 0 .. 2
  BY <1>2 DEF RequestInv, HistoryOK
<1>7. r \in InFlight' \ excused' => CleanInv(r)'
  BY <1>2, <1>5, <1>6 DEF CleanInv, Asked, PendingFor
<1> QED BY <1>4, <1>7 DEF AllClean, InFlight

\* A flow that HA starts is counted by the request in flight for its handler.
LEMMA SpawnClean == ASSUME FlowInv, NEW h \in Handlers, Spawn(h) PROVE AllClean'
<1> USE DEF FlowInv, FlowTypeOK
<1>0. SUFFICES ASSUME NEW q \in InFlight \ excused PROVE CleanInv(q)'
  BY DEF AllClean, InFlight, Spawn
<1>1. PICK f \in Flows : open' = open \cup {[id |-> f, handler |-> h, source |-> "other"]}
  BY DEF Spawn, Opened
<1>2. q \in FlowReqs /\ CleanInv(q) /\ spawns[q] \in 0 .. 2 /\ req[q].try \in {1, 2}
  BY DEF AllClean, InFlight, HistoryOK, RequestsOK
<1>3. req' = req /\ last' = last
  BY DEF Spawn
<1>4. CASE req[q].handler # h
  <2>1. spawns'[q] = spawns[q]
    BY <1>2, <1>4 DEF Spawn
  <2> QED BY <1>1, <1>2, <1>3, <1>4, <2>1, CleanKept
<1>5. CASE req[q].handler = h
  <2>1. spawns'[q] = IF spawns[q] < 2 THEN spawns[q] + 1 ELSE spawns[q]
    BY <1>2, <1>5 DEF Spawn
  <2>2. spawns'[q] >= req[q].try /\ (spawns[q] = 2 => spawns'[q] = 2)
    BY <1>2, <2>1 DEF CleanInv
  <2>3. Asked(q)' = Asked(q)
    BY <1>1, <1>3 DEF Asked, PendingFor
  <2> QED BY <1>2, <1>3, <2>1, <2>2, <2>3 DEF CleanInv
<1> QED BY <1>4, <1>5

\* Every step leaves the requests that are not excused clean.
LEMMA CleanStep == ASSUME FlowInv, [FlowNext]_flowVars PROVE AllClean'
<1>1. ASSUME NEW r \in FlowReqs, popLastFlow(r) PROVE AllClean'
  <2> USE <1>1 DEF popLastFlow, FlowInv, FlowTypeOK
  <2>1. r \in InFlight /\ OthersKeep(r)
    BY DEF InFlight, OthersKeep, RequestsOK, Step
  <2>2. /\ excused \subseteq excused' \cup {r}
        /\ \A q \in FlowReqs \ {r} : spawns'[q] = spawns[q]
    BY DEF HistoryOK
  <2>3. \A f \in open' : f \in open
    OBVIOUS
  <2>4. \A q \in InFlight' \ excused' : q # r => CleanInv(q)'
    BY <2>1, <2>2, <2>3, OthersStayClean
  <2>5. r \in InFlight' \ excused' => CleanInv(r)'
    BY FlowConstants
   
      DEF OpenOK, RequestsOK, HistoryOK, RequestInv, AllClean, InFlight, CleanInv, Asked,
          Unlisted, PendingFor, Ids, Step
  <2> QED BY <2>4, <2>5 DEF AllClean, InFlight
<1>2. ASSUME NEW r \in FlowReqs, ScrubPrevious(r) PROVE AllClean'
  <2> USE <1>2 DEF ScrubPrevious, FlowInv, FlowTypeOK
  <2>1. r \in InFlight /\ OthersKeep(r)
    BY DEF InFlight, OthersKeep, RequestsOK, Step
  <2>2. /\ excused \subseteq excused' \cup {r}
        /\ \A q \in FlowReqs \ {r} : spawns'[q] = spawns[q]
    BY DEF HistoryOK, Excuse
  <2>3. \A f \in open' : f \in open
    BY DEF AbortFlow, Closed
  <2>4. \A q \in InFlight' \ excused' : q # r => CleanInv(q)'
    BY <2>1, <2>2, <2>3, OthersStayClean
  <2>5. r \in InFlight' \ excused' => CleanInv(r)'
    BY FlowConstants
   
      DEF OpenOK, RequestsOK, HistoryOK, RequestInv, AllClean, InFlight, CleanInv, Asked,
          Unlisted, PendingFor, Ids, AbortFlow, Closed, Excuse, Step
  <2> QED BY <2>4, <2>5 DEF AllClean, InFlight
<1>3. ASSUME NEW r \in FlowReqs, ScrubList(r) PROVE AllClean'
  <2> USE <1>3 DEF ScrubList, FlowInv, FlowTypeOK
  <2>1. r \in InFlight /\ OthersKeep(r)
    BY DEF InFlight, OthersKeep, RequestsOK, Step
  <2>2. /\ excused \subseteq excused' \cup {r}
        /\ \A q \in FlowReqs \ {r} : spawns'[q] = spawns[q]
    BY DEF HistoryOK, Excuse
  <2>3. \A f \in open' : f \in open
    OBVIOUS
  <2>4. \A q \in InFlight' \ excused' : q # r => CleanInv(q)'
    BY <2>1, <2>2, <2>3, OthersStayClean
  <2>5. r \in InFlight' \ excused' => CleanInv(r)'
    <3>1. SUFFICES ASSUME r \notin excused' PROVE CleanInv(r)'
      OBVIOUS
    <3>2. Step(r, "abortlist", NoFlow, Listed(r))
      BY <3>1 DEF Excuse, Listed
    <3>3. /\ req'[r].pc = "abortlist" /\ req'[r].handler = req[r].handler
          /\ req'[r].try = req[r].try /\ req'[r].todo = Listed(r)
      BY <3>2 DEF Step, RequestsOK
    <3>4. r \notin excused /\ CleanInv(r) /\ Asked(r)' = {}
      BY <2>1, <3>1, <3>3 DEF Excuse, AllClean, CleanInv, Asked, PendingFor
    <3>5. Unlisted(r)' = {}
      BY <3>3 DEF Unlisted, Listed, ListInProgressFlows, PendingFor
    <3> QED BY <3>3, <3>4, <3>5 DEF CleanInv
  <2> QED BY <2>4, <2>5 DEF AllClean, InFlight
<1>4. ASSUME NEW r \in FlowReqs, ScrubListed(r) PROVE AllClean'
  <2> USE <1>4 DEF ScrubListed, FlowInv, FlowTypeOK
  <2>1. r \in InFlight /\ OthersKeep(r)
    BY DEF InFlight, OthersKeep, RequestsOK, Step
  <2>2. /\ excused \subseteq excused' \cup {r}
        /\ \A q \in FlowReqs \ {r} : spawns'[q] = spawns[q]
    BY DEF HistoryOK, Excuse
  <2>3. \A f \in open' : f \in open
    BY DEF AbortFlow, Closed
  <2>4. \A q \in InFlight' \ excused' : q # r => CleanInv(q)'
    BY <2>1, <2>2, <2>3, OthersStayClean
  <2>5. r \in InFlight' \ excused' => CleanInv(r)'
    BY FlowConstants
   
      DEF OpenOK, RequestsOK, HistoryOK, RequestInv, AllClean, InFlight, CleanInv, Asked,
          Unlisted, PendingFor, Ids, AbortFlow, Closed, Excuse, Step
  <2> QED BY <2>4, <2>5 DEF AllClean, InFlight
<1>5. ASSUME NEW r \in FlowReqs, Post(r) PROVE AllClean'
  BY <1>5, PostClean
<1>6. ASSUME NEW r \in FlowReqs, rememberFlow(r) PROVE AllClean'
  <2> USE <1>6 DEF rememberFlow, FlowInv, FlowTypeOK
  <2>1. r \in InFlight /\ OthersKeep(r)
    BY DEF InFlight, OthersKeep, RequestsOK, End
  <2>2. /\ excused \subseteq excused' \cup {r}
        /\ \A q \in FlowReqs \ {r} : spawns'[q] = spawns[q]
    BY DEF HistoryOK, End
  <2>3. \A f \in open' : f \in open
    OBVIOUS
  <2>4. \A q \in InFlight' \ excused' : q # r => CleanInv(q)'
    BY <2>1, <2>2, <2>3, OthersStayClean
  <2>5. r \in InFlight' \ excused' => CleanInv(r)'
    BY FlowConstants
   
      DEF OpenOK, RequestsOK, HistoryOK, RequestInv, AllClean, InFlight, CleanInv, Asked,
          Unlisted, PendingFor, Ids, End, Idle
  <2> QED BY <2>4, <2>5 DEF AllClean, InFlight
<1>7. ASSUME NEW r \in FlowReqs, ProbeAbort(r) PROVE AllClean'
  <2> USE <1>7 DEF ProbeAbort, FlowInv, FlowTypeOK
  <2>1. r \in InFlight /\ OthersKeep(r)
    BY DEF InFlight, OthersKeep, RequestsOK, End
  <2>2. /\ excused \subseteq excused' \cup {r}
        /\ \A q \in FlowReqs \ {r} : spawns'[q] = spawns[q]
    BY DEF HistoryOK, End
  <2>3. \A f \in open' : f \in open
    BY DEF AbortFlow, Closed
  <2>4. \A q \in InFlight' \ excused' : q # r => CleanInv(q)'
    BY <2>1, <2>2, <2>3, OthersStayClean
  <2>5. r \in InFlight' \ excused' => CleanInv(r)'
    BY FlowConstants
   
      DEF OpenOK, RequestsOK, HistoryOK, RequestInv, AllClean, InFlight, CleanInv, Asked,
          Unlisted, PendingFor, Ids, AbortFlow, Closed, End, Idle
  <2> QED BY <2>4, <2>5 DEF AllClean, InFlight
<1>8. ASSUME NEW r \in FlowReqs, NEW h \in Handlers, Begins(r, h) PROVE AllClean'
  BY <1>8, BeginClean
<1>9. ASSUME NEW f \in Flows, Ends(f) PROVE AllClean'
  BY <1>9, CleanKept DEF Ends, Closed, FlowInv, AllClean, InFlight
<1>10. ASSUME NEW h \in Handlers, Spawn(h) PROVE AllClean'
  BY <1>10, SpawnClean
<1>11. CASE HaRestart
  BY <1>11, CleanKept DEF HaRestart, FlowInv, AllClean, InFlight
<1>12. CASE ForgetFlows
  BY <1>12 DEF ForgetFlows, Idle, AllClean, InFlight
<1>13. CASE UNCHANGED flowVars
  BY <1>13, CleanKept DEF flowVars, FlowInv, AllClean, InFlight
<1> QED
  BY <1>1, <1>2, <1>3, <1>4, <1>5, <1>6, <1>7, <1>8, <1>9, <1>10, <1>11, <1>12, <1>13,
     FlowSteps DEF FlowInv

\* Nothing is pending, remembered or in flight at first.
LEMMA FlowInitInv == FlowInit => FlowInv
<1> SUFFICES ASSUME FlowInit PROVE FlowInv
  OBVIOUS
<1> USE FlowConstants DEF FlowInit, Idle
<1>1. FlowTypeOK
  BY DEF FlowTypeOK, OpenOK, RequestsOK, HistoryOK, Ids
<1>2. RequestInv /\ OwnedInv /\ TrackedInv
  BY DEF RequestInv, OwnedInv, TrackedInv
<1>3. MeetInv /\ AllClean
  BY DEF MeetInv, AllClean, InFlight
<1> QED BY <1>1, <1>2, <1>3 DEF FlowInv

\* FlowInv is an invariant of HassFlows.
LEMMA FlowInvariance == FlowSpec => []FlowInv
<1>1. ASSUME FlowInv, [FlowNext]_flowVars PROVE FlowInv'
  <2>1. FlowTypeOK' /\ RequestInv'
    BY <1>1, FlowTypeStep, RequestStep DEF FlowInv
  <2>2. OwnedInv' /\ TrackedInv' /\ MeetInv' /\ AllClean'
    BY <1>1, OwnedStep, TrackedStep, MeetStep, CleanStep
  <2> QED BY <2>1, <2>2 DEF FlowInv
<1> QED BY <1>1, FlowInitInv, PTL DEF FlowSpec

\* A pending flow that was started over the API is remembered in lastFlowByHandler or in the
\* hands of a request, unless a call about it failed or calls overlapped.
THEOREM PendingAlwaysTracked == FlowSpec => []PendingIsTracked
<1>1. FlowInv => PendingIsTracked
  BY DEF FlowInv, TrackedInv, PendingIsTracked
<1> QED BY <1>1, FlowInvariance, PTL

\* StartFlow answers already_in_progress only after a failed call, an overlap, a flow lost
\* before, or two flows that HA started while it ran: scrubbing twice removes the rest.
THEOREM RefusalsHaveReason == FlowSpec => []RefusalExplained
<1>1. ASSUME FlowInv, NEW r \in FlowReqs, req[r].pc = "refused"
      PROVE  r \in excused \/ spawns[r] = 2
  BY <1>1 DEF FlowInv, AllClean, CleanInv, InFlight
<1>2. FlowInv => RefusalExplained
  BY <1>1 DEF RefusalExplained
<1> QED BY <1>2, FlowInvariance, PTL

\* A scrub, of the remembered flow or of the listed ones, aborts no flow of another
\* integration, also when ids are drawn again.
THEOREM ScrubsStayOwn == FlowSpec => ScrubsOwnHandler
<1>1. ASSUME FlowInv, NEW r \in FlowReqs, ScrubPrevious(r) \/ ScrubListed(r)
      PROVE  open \ open' \subseteq PendingFor(req[r].handler)
  <2>1. CASE ScrubPrevious(r)
    BY <2>1, <1>1 DEF ScrubPrevious, AbortFlow, Closed, FlowInv, OwnedInv, PendingFor
  <2>2. CASE ScrubListed(r)
    BY <2>2, <1>1 DEF ScrubListed, AbortFlow, Closed, FlowInv, OwnedInv, PendingFor
  <2> QED BY <1>1, <2>1, <2>2
<1>2. FlowInv => \A r \in FlowReqs : ScrubPrevious(r) \/ ScrubListed(r)
                    => open \ open' \subseteq PendingFor(req[r].handler)
  BY <1>1
<1> QED BY <1>2, FlowInvariance, PTL DEF FlowSpec, ScrubsOwnHandler
=============================================================================
