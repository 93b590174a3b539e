------------------------------ MODULE Schedule ------------------------------
(***************************************************************************)
(* The timetable of one classroom: create, update and delete of lessons,   *)
(* and the transaction withOverlapCheck that is to keep lessons from       *)
(* overlapping.                                                            *)
(*                                                                         *)
(* The repository runs SELECT ... FOR UPDATE, an overlap check in Go, the  *)
(* write and COMMIT at Postgres' default level READ COMMITTED.  What that  *)
(* means is modelled as the code meets it: the SELECT finds the rows that  *)
(* are committed when it starts, locks them one by one, waits for a row    *)
(* another transaction has locked, and then reads its newest version,      *)
(* which it drops if it was deleted or moved to another day; a row that is *)
(* inserted or moved to the day after the SELECT started is not found.     *)
(* Classrooms do not interact: the query and a lesson's row keep to one.   *)
(* Authorization is left out: a refusal has no effect.                     *)
(***************************************************************************)
EXTENDS Integers

CONSTANTS
    Lessons,    \* lesson ids uuid.New may draw
    Procs,      \* requests in flight at once
    Days,       \* days of the week in use
    DayLength,  \* 24*60, the first TimeOfDay that is not Valid
    NoLesson,   \* no row with this id
    Free        \* no transaction holds the row's lock

ASSUME ScheduleConstants ==
    /\ Days \subseteq 1..7
    /\ DayLength \in Nat
    /\ Free \notin Procs
    /\ NoLesson \notin [day : Days, start : 0 .. DayLength - 1, end : 0 .. DayLength - 1]

VARIABLES
    table,      \* lessons: committed slot per id, or NoLesson
    born,       \* ids drawn so far
    lock,       \* row locks
    pc, draft,  \* per request: step; the lesson it wants to write
    todo, peers,  \* per request: rows its SELECT has still to lock; rows it has read
    phantoms    \* history: pairs of which the later write did not see the other lesson

tableVars == <<table, born, phantoms>>
vars == <<table, born, lock, pc, draft, todo, peers, phantoms>>

Minutes == 0 .. DayLength - 1
Slots == [day : Days, start : Minutes, end : Minutes]

\* DayOfWeek.Valid, TimeOfDay.Valid and EndsAt > StartsAt.
Valid(s) == s.start < s.end

Overlaps(a, b) == a.day = b.day /\ a.start < b.end /\ b.start < a.end

Idle == [id |-> NoLesson, op |-> "none", slot |-> NoLesson]

Init ==
    /\ table = [x \in Lessons |-> NoLesson]
    /\ born = {}
    /\ lock = [x \in Lessons |-> Free]
    /\ pc = [p \in Procs |-> "idle"]
    /\ draft = [p \in Procs |-> Idle]
    /\ todo = [p \in Procs |-> {}]
    /\ peers = [p \in Procs |-> {}]
    /\ phantoms = {}

Start(p, id, op, slot) ==
    /\ pc[p] = "idle"
    /\ Valid(slot)
    /\ draft' = [draft EXCEPT ![p] = [id |-> id, op |-> op, slot |-> slot]]
    /\ pc' = [pc EXCEPT ![p] = "begin"]

\* Service.Create, up to the call of CreateIfNoOverlap.
Create(p, id, slot) ==
    /\ id \notin born
    /\ born' = born \cup {id}
    /\ Start(p, id, "create", slot)
    /\ UNCHANGED <<table, lock, todo, peers, phantoms>>

\* The fields given replace those of the row read.
Merge(old, new, given) ==
    [day   |-> IF "day" \in given THEN new.day ELSE old.day,
     start |-> IF "start" \in given THEN new.start ELSE old.start,
     end   |-> IF "end" \in given THEN new.end ELSE old.end]

\* Service.Update, up to the call of UpdateIfNoOverlap: the row is read outside the
\* transaction and the fields that were given replace those of the copy.
Update(p, id, slot, given) ==
    /\ table[id] # NoLesson
    /\ Start(p, id, "update",
             Merge(table[id], slot, given))
    /\ UNCHANGED <<table, born, lock, todo, peers, phantoms>>

\* Service.Delete: DELETE waits for the row's lock.
Delete(id) ==
    /\ table[id] # NoLesson
    /\ lock[id] = Free
    /\ table' = [table EXCEPT ![id] = NoLesson]
    /\ phantoms' = {pair \in phantoms : id \notin pair}
    /\ UNCHANGED <<born, lock, pc, draft, todo, peers>>

-----------------------------------------------------------------------------
\* BEGIN; SELECT ... WHERE day_of_week = $2 FOR UPDATE starts: its snapshot.
Select(p) ==
    /\ pc[p] = "begin"
    /\ todo' = [todo EXCEPT ![p] =
                  {x \in Lessons : table[x] # NoLesson /\ table[x].day = draft[p].slot.day}]
    /\ pc' = [pc EXCEPT ![p] = "locking"]
    /\ UNCHANGED <<tableVars, lock, draft, peers>>

\* Mutant: a plain SELECT without FOR UPDATE.
LockRow_Plain(p, x) ==
    /\ pc[p] = "locking"
    /\ x \in todo[p]
    /\ todo' = [todo EXCEPT ![p] = @ \ {x}]
    /\ peers' = IF table[x] # NoLesson /\ table[x].day = draft[p].slot.day
                THEN [peers EXCEPT ![p] = @ \cup {[id |-> x, slot |-> table[x]]}]
                ELSE peers
    /\ UNCHANGED <<tableVars, lock, pc, draft>>

\* The SELECT gets the lock of row x and reads the version that is there now.
LockRow(p, x) ==
    /\ pc[p] = "locking"
    /\ x \in todo[p]
    /\ lock[x] \in {Free, p}
    /\ todo' = [todo EXCEPT ![p] = @ \ {x}]
    /\ lock' = IF table[x] # NoLesson THEN [lock EXCEPT ![x] = p] ELSE lock
    /\ peers' = IF table[x] # NoLesson /\ table[x].day = draft[p].slot.day
                THEN [peers EXCEPT ![p] = @ \cup {[id |-> x, slot |-> table[x]]}]
                ELSE peers
    /\ UNCHANGED <<tableVars, pc, draft>>

\* COMMIT or ROLLBACK releases the locks of p's transaction; the request returns.
End(p) ==
    /\ lock' = [x \in Lessons |-> IF lock[x] = p THEN Free ELSE lock[x]]
    /\ pc' = [pc EXCEPT ![p] = "idle"]
    /\ draft' = [draft EXCEPT ![p] = Idle]
    /\ todo' = [todo EXCEPT ![p] = {}]
    /\ peers' = [peers EXCEPT ![p] = {}]

Conflict(p) ==
    \E q \in peers[p] : q.id # draft[p].id /\ Overlaps(q.slot, draft[p].slot)

\* Mutants: the check counts the lesson itself; a conflict keeps the transaction open.
CheckOverlap_WithSelf(p) ==
    /\ pc[p] = "locking"
    /\ todo[p] = {}
    /\ \/ /\ \E q \in peers[p] : Overlaps(q.slot, draft[p].slot)
          /\ End(p)
       \/ /\ ~\E q \in peers[p] : Overlaps(q.slot, draft[p].slot)
          /\ pc' = [pc EXCEPT ![p] = "write"]
          /\ UNCHANGED <<lock, draft, todo, peers>>
    /\ UNCHANGED tableVars

CheckOverlap_NoRollback(p) ==
    /\ pc[p] = "locking"
    /\ todo[p] = {}
    /\ IF Conflict(p)
       THEN /\ pc' = [pc EXCEPT ![p] = "idle"]
            /\ draft' = [draft EXCEPT ![p] = Idle]
            /\ peers' = [peers EXCEPT ![p] = {}]
            /\ UNCHANGED <<lock, todo>>
       ELSE /\ pc' = [pc EXCEPT ![p] = "write"]
            /\ UNCHANGED <<lock, draft, todo, peers>>
    /\ UNCHANGED tableVars

\* The loop over the rows read; ErrConflict rolls back.
CheckOverlap(p) ==
    /\ pc[p] = "locking"
    /\ todo[p] = {}
    /\ \/ Conflict(p) /\ End(p)
       \/ /\ ~Conflict(p)
          /\ pc' = [pc EXCEPT ![p] = "write"]
          /\ UNCHANGED <<lock, draft, todo, peers>>
    /\ UNCHANGED tableVars

\* writeFn of an update: UPDATE ... WHERE id = $1 waits for the row's lock; a row
\* that is gone is ErrNotFound, which rolls back.
WriteUpdate(p) ==
    /\ pc[p] = "write" /\ draft[p].op = "update"
    /\ \/ /\ table[draft[p].id] = NoLesson
          /\ End(p)
       \/ /\ table[draft[p].id] # NoLesson
          /\ lock[draft[p].id] \in {Free, p}
          /\ lock' = [lock EXCEPT ![draft[p].id] = p]
          /\ pc' = [pc EXCEPT ![p] = "commit"]
          /\ UNCHANGED <<draft, todo, peers>>
    /\ UNCHANGED tableVars

\* writeFn of a create: the new row is nobody else's to see or to lock.
WriteInsert(p) ==
    /\ pc[p] = "write" /\ draft[p].op = "create"
    /\ pc' = [pc EXCEPT ![p] = "commit"]
    /\ UNCHANGED <<tableVars, lock, draft, todo, peers>>

\* Lessons of the day that p's transaction has not read.
Unread(p) ==
    {x \in Lessons \ {draft[p].id} :
        /\ table[x] # NoLesson /\ table[x].day = draft[p].slot.day
        /\ \A q \in peers[p] : q.id # x}

\* COMMIT makes the write visible.
Commit(p) ==
    /\ pc[p] = "commit"
    /\ table' = [table EXCEPT ![draft[p].id] = draft[p].slot]
    /\ phantoms' = {pair \in phantoms : draft[p].id \notin pair}
                     \cup {{draft[p].id, x} : x \in Unread(p)}
    /\ End(p)
    /\ UNCHANGED born

\* A statement fails, or the request's context ends: the deferred Rollback.
Abort(p) ==
    /\ pc[p] # "idle"
    /\ End(p)
    /\ UNCHANGED tableVars

\* p waits for a row that q has locked.
WaitsFor(p, q) ==
    /\ q # p
    /\ \/ pc[p] = "locking" /\ \E x \in todo[p] : lock[x] = q
       \/ pc[p] = "write" /\ draft[p].op = "update" /\ lock[draft[p].id] = q

\* Postgres' deadlock detector fails one of two transactions that wait for each
\* other, for instance two updates that move lessons to each other's day.
DeadlockAbort(p) ==
    /\ \E q \in Procs : WaitsFor(p, q) /\ WaitsFor(q, p)
    /\ End(p)
    /\ UNCHANGED tableVars

Progress(p) ==
    \/ Select(p) \/ CheckOverlap(p) \/ WriteUpdate(p) \/ WriteInsert(p) \/ Commit(p)
    \/ \E x \in Lessons : LockRow(p, x)

\* The handlers: a request with any times that ParseTimeOfDay accepts, or any of its
\* fields left out; what does not parse is refused with no effect.
create(p) == \E id \in Lessons, slot \in Slots : Create(p, id, slot)

update(p) ==
    \E id \in Lessons, slot \in Slots, given \in SUBSET {"day", "start", "end"} :
        Update(p, id, slot, given)

delete == \E id \in Lessons : Delete(id)

Next ==
    \/ \E p \in Procs : create(p) \/ update(p) \/ Progress(p) \/ Abort(p) \/ DeadlockAbort(p)
    \/ delete

Spec == Init /\ [][Next]_vars

-----------------------------------------------------------------------------
Drafts == [id : Lessons, op : {"create", "update"}, slot : Slots]

\* Rows, locks and the state of the requests; a request that writes has read its rows.
TypeOK ==
    /\ table \in [Lessons -> Slots \cup {NoLesson}]
    /\ born \subseteq Lessons
    /\ lock \in [Lessons -> Procs \cup {Free}]
    /\ pc \in [Procs -> {"idle", "begin", "locking", "write", "commit"}]
    /\ draft \in [Procs -> Drafts \cup {Idle}]
    /\ \A p \in Procs : pc[p] # "idle" => draft[p] \in Drafts
    /\ todo \in [Procs -> SUBSET Lessons]
    /\ peers \in [Procs -> SUBSET [id : Lessons, slot : Slots]]

Present(x) == table[x] # NoLesson

\* Two lessons of the classroom overlap only if the later of the two writes did not
\* see the other lesson, which entered the day after its SELECT had started: among
\* the rows it did find, the row locks keep the check valid until the commit.
OnlyPhantomsOverlap ==
    \A x, y \in Lessons :
        x # y /\ Present(x) /\ Present(y) /\ Overlaps(table[x], table[y]) => {x, y} \in phantoms

\* Whatever updates race with each other on copies they read earlier, a stored lesson
\* starts before it ends, because every update writes the whole checked copy.
LessonsWellFormed == \A x \in Lessons : Present(x) => Valid(table[x])

\* What a transaction read and locked is still so when it writes.
ReadsStable ==
    \A p \in Procs : \A q \in peers[p] : lock[q.id] = p /\ table[q.id] = q.slot

\* A request can go on, or it waits for another request that can: conflicts and errors
\* release their locks, no transaction waits for a lock that nobody is going to release,
\* and those that wait for each other are resolved.  withOverlapCheck's deferred Rollback.
CanGoOn(p) == ENABLED Progress(p) \/ ENABLED DeadlockAbort(p)
NobodyStuck ==
    \A p \in Procs : pc[p] # "idle" =>
        CanGoOn(p) \/ \E q \in Procs : WaitsFor(p, q) /\ pc[q] # "idle" /\ CanGoOn(q)

\* Moving or stretching a lesson over its own old slot is no conflict with itself: an
\* update that has the day to itself is not refused by the overlap check.
NoSelfConflict ==
    [][\A p \in Procs :
        (/\ pc[p] = "locking" /\ todo[p] = {} /\ CheckOverlap(p)
         /\ \A x \in Lessons \ {draft[p].id} : ~Present(x))
            => pc'[p] = "write"]_vars

-----------------------------------------------------------------------------
(* The inductive invariant behind OnlyPhantomsOverlap.                     *)

Busy(p) == pc[p] # "idle"

\* A draft is valid; a lesson being created has no row and is nobody else's draft; a
\* row is written under its lock.
DraftInv ==
    /\ \A x \in Lessons : Present(x) => x \in born
    /\ \A p \in Procs : Busy(p) =>
          /\ Valid(draft[p].slot) /\ draft[p].id \in born
          /\ draft[p].op = "create" =>
                /\ ~Present(draft[p].id)
                /\ \A q \in Procs \ {p} : Busy(q) => draft[q].id # draft[p].id
          /\ pc[p] = "commit" /\ draft[p].op = "update" => lock[draft[p].id] = p

\* A transaction past its check conflicts with nothing it has read.
CheckedInv == \A p \in Procs : pc[p] \in {"write", "commit"} => ~Conflict(p)

IdleInv == \A p \in Procs : ~Busy(p) => peers[p] = {}

IInv == /\ TypeOK /\ DraftInv /\ CheckedInv /\ IdleInv
        /\ ReadsStable /\ LessonsWellFormed /\ OnlyPhantomsOverlap

\* postgres.go: the locking "prevents the TOCTOU race where two concurrent Create calls
\* both pass the application-level overlap check and then both INSERT".
NoOverlap ==
    \A x, y \in Lessons :
        x # y /\ Present(x) /\ Present(y) => ~Overlaps(table[x], table[y])
=============================================================================
