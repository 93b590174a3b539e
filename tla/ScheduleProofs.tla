---------------------------- MODULE ScheduleProofs ----------------------------
(***************************************************************************)
(* Proofs about Schedule, for any number of lessons and requests and any   *)
(* day length: IInv is inductive, so lessons overlap only through phantoms.*)
(***************************************************************************)
EXTENDS Schedule, TLAPS

\* The empty timetable satisfies the invariant.
LEMMA InitInv == Init => IInv
BY ScheduleConstants
DEF Init, IInv, TypeOK, DraftInv, CheckedInv, IdleInv, ReadsStable, LessonsWellFormed,
    OnlyPhantomsOverlap, Present, Busy, Slots, Minutes, Idle

\* Every step keeps the variables in their types.
LEMMA TypeStep == IInv /\ [Next]_vars => TypeOK'
<1> SUFFICES ASSUME IInv, [Next]_vars
             PROVE  TypeOK'
  OBVIOUS
<1> USE ScheduleConstants DEF IInv, TypeOK, Slots, Minutes, Drafts, Idle, tableVars
<1>1. ASSUME NEW p \in Procs, NEW id \in Lessons, NEW slot \in Slots, Create(p, id, slot)
      PROVE  TypeOK'
  BY <1>1 DEF Create, Start
<1>2. ASSUME NEW p \in Procs, NEW id \in Lessons, NEW slot \in Slots,
             NEW given \in SUBSET {"day", "start", "end"}, Update(p, id, slot, given)
      PROVE  TypeOK'
  BY <1>2 DEF Update, Start, Merge
<1>3. ASSUME NEW id \in Lessons, Delete(id)
      PROVE  TypeOK'
  BY <1>3 DEF Delete
<1>4. ASSUME NEW p \in Procs, Select(p)
      PROVE  TypeOK'
  BY <1>4 DEF Select
<1>5. ASSUME NEW p \in Procs, NEW x \in Lessons, LockRow(p, x)
      PROVE  TypeOK'
  BY <1>5 DEF LockRow
<1>6. ASSUME NEW p \in Procs, CheckOverlap(p)
      PROVE  TypeOK'
  <2>1. CASE Conflict(p) /\ End(p)
    BY <1>6, <2>1 DEF CheckOverlap, End
  <2>2. CASE ~Conflict(p)
    BY <1>6, <2>2 DEF CheckOverlap
  <2> QED BY <1>6, <2>1, <2>2 DEF CheckOverlap
<1>7. ASSUME NEW p \in Procs, WriteUpdate(p)
      PROVE  TypeOK'
  <2>1. CASE table[draft[p].id] = NoLesson
    <3>1. End(p) /\ UNCHANGED tableVars
      BY <1>7, <2>1 DEF WriteUpdate
    <3> QED BY <3>1 DEF End
  <2>2. CASE table[draft[p].id] # NoLesson
    BY <1>7, <2>2 DEF WriteUpdate
  <2> QED BY <2>1, <2>2
<1>8. ASSUME NEW p \in Procs, WriteInsert(p)
      PROVE  TypeOK'
  BY <1>8 DEF WriteInsert
<1>9. ASSUME NEW p \in Procs, Commit(p)
      PROVE  TypeOK'
  BY <1>9 DEF Commit, End, Unread
<1>10. ASSUME NEW p \in Procs, Abort(p)
      PROVE  TypeOK'
  BY <1>10 DEF Abort, End
<1>11. ASSUME NEW p \in Procs, DeadlockAbort(p)
      PROVE  TypeOK'
  BY <1>11 DEF DeadlockAbort, End
<1>12. CASE UNCHANGED vars
  BY <1>12 DEF vars
<1> HIDE DEF IInv, TypeOK, Slots, Minutes, Drafts, Idle, tableVars
<1> QED BY <1>1, <1>2, <1>3, <1>4, <1>5, <1>6, <1>7, <1>8, <1>9, <1>10, <1>11, <1>12 DEF Next, create, update, delete, Progress

\* Every step keeps drafts valid and lessons under creation out of everyone's sight.
LEMMA DraftStep == IInv /\ [Next]_vars => (DraftInv /\ IdleInv)'
<1> SUFFICES ASSUME IInv, [Next]_vars
             PROVE  (DraftInv /\ IdleInv)'
  OBVIOUS
<1> USE ScheduleConstants DEF IInv, TypeOK, DraftInv, IdleInv, Busy, Present, Slots, Minutes, Valid,
             Drafts, tableVars
<1>1. ASSUME NEW p \in Procs, NEW id \in Lessons, NEW slot \in Slots, Create(p, id, slot)
      PROVE  (DraftInv /\ IdleInv)'
  BY <1>1 DEF Create, Start
<1>2. ASSUME NEW p \in Procs, NEW id \in Lessons, NEW slot \in Slots,
             NEW given \in SUBSET {"day", "start", "end"}, Update(p, id, slot, given)
      PROVE  (DraftInv /\ IdleInv)'
  BY <1>2 DEF Update, Start
<1>3. ASSUME NEW id \in Lessons, Delete(id)
      PROVE  (DraftInv /\ IdleInv)'
  BY <1>3 DEF Delete
<1>4. ASSUME NEW p \in Procs, Select(p)
      PROVE  (DraftInv /\ IdleInv)'
  BY <1>4 DEF Select
<1>5. ASSUME NEW p \in Procs, NEW x \in Lessons, LockRow(p, x)
      PROVE  (DraftInv /\ IdleInv)'
  BY <1>5 DEF LockRow
<1>6. ASSUME NEW p \in Procs, CheckOverlap(p)
      PROVE  (DraftInv /\ IdleInv)'
  <2>1. CASE Conflict(p) /\ End(p)
    BY <1>6, <2>1 DEF CheckOverlap, End
  <2>2. CASE ~Conflict(p)
    BY <1>6, <2>2 DEF CheckOverlap
  <2> QED BY <1>6, <2>1, <2>2 DEF CheckOverlap
<1>7. ASSUME NEW p \in Procs, WriteUpdate(p)
      PROVE  (DraftInv /\ IdleInv)'
  <2>1. CASE table[draft[p].id] = NoLesson
    <3>1. End(p) /\ UNCHANGED tableVars
      BY <1>7, <2>1 DEF WriteUpdate
    <3> QED BY <3>1 DEF End
  <2>2. CASE table[draft[p].id] # NoLesson
    BY <1>7, <2>2 DEF WriteUpdate
  <2> QED BY <2>1, <2>2
<1>8. ASSUME NEW p \in Procs, WriteInsert(p)
      PROVE  (DraftInv /\ IdleInv)'
  BY <1>8 DEF WriteInsert
<1>9. ASSUME NEW p \in Procs, Commit(p)
      PROVE  (DraftInv /\ IdleInv)'
  BY <1>9 DEF Commit, End, Unread
<1>10. ASSUME NEW p \in Procs, Abort(p)
      PROVE  (DraftInv /\ IdleInv)'
  BY <1>10 DEF Abort, End
<1>11. ASSUME NEW p \in Procs, DeadlockAbort(p)
      PROVE  (DraftInv /\ IdleInv)'
  BY <1>11 DEF DeadlockAbort, End
<1>12. CASE UNCHANGED vars
  BY <1>12 DEF vars
<1> HIDE DEF IInv, TypeOK, DraftInv, IdleInv, Busy, Present, Slots, Minutes, Valid,
             Drafts, tableVars
<1> QED BY <1>1, <1>2, <1>3, <1>4, <1>5, <1>6, <1>7, <1>8, <1>9, <1>10, <1>11, <1>12 DEF Next, create, update, delete, Progress

\* A transaction that passed its check keeps its draft and the rows it has read.
LEMMA CheckedStep == IInv /\ [Next]_vars => CheckedInv'
<1> SUFFICES ASSUME IInv, [Next]_vars
             PROVE  CheckedInv'
  OBVIOUS
<1> USE ScheduleConstants DEF IInv, TypeOK, CheckedInv, Conflict, Overlaps, tableVars
<1>1. ASSUME NEW p \in Procs, NEW id \in Lessons, NEW slot \in Slots, Create(p, id, slot)
      PROVE  CheckedInv'
  BY <1>1 DEF Create, Start
<1>2. ASSUME NEW p \in Procs, NEW id \in Lessons, NEW slot \in Slots,
             NEW given \in SUBSET {"day", "start", "end"}, Update(p, id, slot, given)
      PROVE  CheckedInv'
  BY <1>2 DEF Update, Start
<1>3. ASSUME NEW id \in Lessons, Delete(id)
      PROVE  CheckedInv'
  BY <1>3 DEF Delete
<1>4. ASSUME NEW p \in Procs, Select(p)
      PROVE  CheckedInv'
  BY <1>4 DEF Select
<1>5. ASSUME NEW p \in Procs, NEW x \in Lessons, LockRow(p, x)
      PROVE  CheckedInv'
  BY <1>5 DEF LockRow
<1>6. ASSUME NEW p \in Procs, CheckOverlap(p)
      PROVE  CheckedInv'
  BY <1>6 DEF CheckOverlap, End
<1>7. ASSUME NEW p \in Procs, WriteUpdate(p)
      PROVE  CheckedInv'
  BY <1>7 DEF WriteUpdate, End
<1>8. ASSUME NEW p \in Procs, WriteInsert(p)
      PROVE  CheckedInv'
  BY <1>8 DEF WriteInsert
<1>9. ASSUME NEW p \in Procs, Commit(p)
      PROVE  CheckedInv'
  BY <1>9 DEF Commit, End, Unread
<1>10. ASSUME NEW p \in Procs, Abort(p)
      PROVE  CheckedInv'
  BY <1>10 DEF Abort, End
<1>11. ASSUME NEW p \in Procs, DeadlockAbort(p)
      PROVE  CheckedInv'
  BY <1>11 DEF DeadlockAbort, End
<1>12. CASE UNCHANGED vars
  BY <1>12 DEF vars
<1> HIDE DEF IInv, TypeOK, CheckedInv, Conflict, Overlaps, tableVars
<1> QED BY <1>1, <1>2, <1>3, <1>4, <1>5, <1>6, <1>7, <1>8, <1>9, <1>10, <1>11, <1>12 DEF Next, create, update, delete, Progress

\* No step changes a row that another transaction has read and locked: a commit writes a
\* row it has locked or a new one, and a delete waits for the lock.
LEMMA ReadsStep == IInv /\ [Next]_vars => ReadsStable'
<1> SUFFICES ASSUME IInv, [Next]_vars
             PROVE  ReadsStable'
  OBVIOUS
<1> USE ScheduleConstants DEF IInv, TypeOK, DraftInv, IdleInv, Busy, Present, ReadsStable, Slots, Minutes,
             Drafts, tableVars
<1>1. ASSUME NEW p \in Procs, NEW id \in Lessons, NEW slot \in Slots, Create(p, id, slot)
      PROVE  ReadsStable'
  BY <1>1 DEF Create, Start
<1>2. ASSUME NEW p \in Procs, NEW id \in Lessons, NEW slot \in Slots,
             NEW given \in SUBSET {"day", "start", "end"}, Update(p, id, slot, given)
      PROVE  ReadsStable'
  BY <1>2 DEF Update, Start
<1>3. ASSUME NEW id \in Lessons, Delete(id)
      PROVE  ReadsStable'
  BY <1>3 DEF Delete
<1>4. ASSUME NEW p \in Procs, Select(p)
      PROVE  ReadsStable'
  BY <1>4 DEF Select
<1>5. ASSUME NEW p \in Procs, NEW x \in Lessons, LockRow(p, x)
      PROVE  ReadsStable'
  BY <1>5 DEF LockRow
<1>6. ASSUME NEW p \in Procs, CheckOverlap(p)
      PROVE  ReadsStable'
  BY <1>6 DEF CheckOverlap, End
<1>7. ASSUME NEW p \in Procs, WriteUpdate(p)
      PROVE  ReadsStable'
  BY <1>7 DEF WriteUpdate, End
<1>8. ASSUME NEW p \in Procs, WriteInsert(p)
      PROVE  ReadsStable'
  BY <1>8 DEF WriteInsert
<1>9. ASSUME NEW p \in Procs, Commit(p)
      PROVE  ReadsStable'
  BY <1>9 DEF Commit, End, Unread
<1>10. ASSUME NEW p \in Procs, Abort(p)
      PROVE  ReadsStable'
  BY <1>10 DEF Abort, End
<1>11. ASSUME NEW p \in Procs, DeadlockAbort(p)
      PROVE  ReadsStable'
  BY <1>11 DEF DeadlockAbort, End
<1>12. CASE UNCHANGED vars
  BY <1>12 DEF vars
<1> HIDE DEF IInv, TypeOK, DraftInv, IdleInv, Busy, Present, ReadsStable, Slots, Minutes,
             Drafts, tableVars
<1> QED BY <1>1, <1>2, <1>3, <1>4, <1>5, <1>6, <1>7, <1>8, <1>9, <1>10, <1>11, <1>12 DEF Next, create, update, delete, Progress

\* A commit adds overlaps only with lessons its SELECT did not find: those it found are
\* as they were when the check passed.
LEMMA TableStep == IInv /\ [Next]_vars => (LessonsWellFormed /\ OnlyPhantomsOverlap)'
<1> SUFFICES ASSUME IInv, [Next]_vars
             PROVE  (LessonsWellFormed /\ OnlyPhantomsOverlap)'
  OBVIOUS
<1> USE ScheduleConstants DEF IInv, TypeOK, DraftInv, CheckedInv, Conflict, Overlaps, Busy, Present,
             ReadsStable, LessonsWellFormed, OnlyPhantomsOverlap, tableVars
<1>1. ASSUME NEW p \in Procs, NEW id \in Lessons, NEW slot \in Slots, Create(p, id, slot)
      PROVE  (LessonsWellFormed /\ OnlyPhantomsOverlap)'
  BY <1>1 DEF Create, Start
<1>2. ASSUME NEW p \in Procs, NEW id \in Lessons, NEW slot \in Slots,
             NEW given \in SUBSET {"day", "start", "end"}, Update(p, id, slot, given)
      PROVE  (LessonsWellFormed /\ OnlyPhantomsOverlap)'
  BY <1>2 DEF Update, Start
<1>3. ASSUME NEW id \in Lessons, Delete(id)
      PROVE  (LessonsWellFormed /\ OnlyPhantomsOverlap)'
  BY <1>3 DEF Delete
<1>4. ASSUME NEW p \in Procs, Select(p)
      PROVE  (LessonsWellFormed /\ OnlyPhantomsOverlap)'
  BY <1>4 DEF Select
<1>5. ASSUME NEW p \in Procs, NEW x \in Lessons, LockRow(p, x)
      PROVE  (LessonsWellFormed /\ OnlyPhantomsOverlap)'
  BY <1>5 DEF LockRow
<1>6. ASSUME NEW p \in Procs, CheckOverlap(p)
      PROVE  (LessonsWellFormed /\ OnlyPhantomsOverlap)'
  BY <1>6 DEF CheckOverlap, End
<1>7. ASSUME NEW p \in Procs, WriteUpdate(p)
      PROVE  (LessonsWellFormed /\ OnlyPhantomsOverlap)'
  BY <1>7 DEF WriteUpdate, End
<1>8. ASSUME NEW p \in Procs, WriteInsert(p)
      PROVE  (LessonsWellFormed /\ OnlyPhantomsOverlap)'
  BY <1>8 DEF WriteInsert
<1>9. ASSUME NEW p \in Procs, Commit(p)
      PROVE  (LessonsWellFormed /\ OnlyPhantomsOverlap)'
  BY <1>9 DEF Commit, End, Unread
<1>10. ASSUME NEW p \in Procs, Abort(p)
      PROVE  (LessonsWellFormed /\ OnlyPhantomsOverlap)'
  BY <1>10 DEF Abort, End
<1>11. ASSUME NEW p \in Procs, DeadlockAbort(p)
      PROVE  (LessonsWellFormed /\ OnlyPhantomsOverlap)'
  BY <1>11 DEF DeadlockAbort, End
<1>12. CASE UNCHANGED vars
  BY <1>12 DEF vars
<1> HIDE DEF IInv, TypeOK, DraftInv, CheckedInv, Conflict, Overlaps, Busy, Present,
             ReadsStable, LessonsWellFormed, OnlyPhantomsOverlap, tableVars
<1> QED BY <1>1, <1>2, <1>3, <1>4, <1>5, <1>6, <1>7, <1>8, <1>9, <1>10, <1>11, <1>12 DEF Next, create, update, delete, Progress

\* IInv is an invariant of the specification.
THEOREM Invariance == Spec => []IInv
<1>1. IInv /\ [Next]_vars => IInv'
  BY TypeStep, DraftStep, CheckedStep, ReadsStep, TableStep DEF IInv
<1> QED BY InitInv, <1>1, PTL DEF Spec

\* Type correctness, for all constants.
THEOREM TypeCorrect == Spec => []TypeOK
<1>1. IInv => TypeOK BY DEF IInv
<1> QED BY Invariance, <1>1, PTL

\* What a transaction has read stays as it is until it ends.
THEOREM LocksProtectReads == Spec => []ReadsStable
<1>1. IInv => ReadsStable BY DEF IInv
<1> QED BY Invariance, <1>1, PTL

\* Every stored lesson starts before it ends.
THEOREM StoredLessonsValid == Spec => []LessonsWellFormed
<1>1. IInv => LessonsWellFormed BY DEF IInv
<1> QED BY Invariance, <1>1, PTL

\* Lessons overlap only if the later write did not see the other lesson.
THEOREM OverlapNeedsPhantom == Spec => []OnlyPhantomsOverlap
<1>1. IInv => OnlyPhantomsOverlap BY DEF IInv
<1> QED BY Invariance, <1>1, PTL

\* NoSelfConflict: an update that has the day to itself passes the check, since the only
\* row it can have read and locked is the one it replaces.
THEOREM SelfNeverConflicts == Spec => NoSelfConflict
<1> DEFINE Passes(p) ==
             (/\ pc[p] = "locking" /\ todo[p] = {} /\ CheckOverlap(p)
              /\ \A x \in Lessons \ {draft[p].id} : ~Present(x)) => pc'[p] = "write"
<1>1. IInv /\ [Next]_vars => \A p \in Procs : Passes(p)
  <2> SUFFICES ASSUME IInv, NEW p \in Procs, CheckOverlap(p),
                      \A x \in Lessons \ {draft[p].id} : ~Present(x)
               PROVE  pc'[p] = "write"
    OBVIOUS
  <2>1. ASSUME NEW q \in peers[p] PROVE q.id = draft[p].id
    <3>1. q.id \in Lessons /\ q.slot \in Slots /\ table[q.id] = q.slot
      BY DEF IInv, TypeOK, ReadsStable
    <3>2. Present(q.id)
      BY <3>1, ScheduleConstants DEF Present, Slots, Minutes
    <3> QED BY <3>1, <3>2
  <2>2. ~Conflict(p)
    BY <2>1 DEF Conflict
  <2> QED BY <2>2 DEF CheckOverlap, IInv, TypeOK
<1>2. IInv /\ [Next]_vars => [\A p \in Procs : Passes(p)]_vars
  BY <1>1
<1> QED BY <1>2, Invariance, PTL DEF Spec, NoSelfConflict
=============================================================================
