---------------------------- MODULE AccessProofs ----------------------------
(***************************************************************************)
(* Proofs about Access, for any number of users, classrooms and requests.  *)
(***************************************************************************)
EXTENDS Access, SequenceTheorems, TLAPS

Args == {<<>>} \cup {<<v>> : v \in Users} \cup (Passwords \X Passwords)

Requests ==
    [pc : {"idle", "row", "member", "user", "act"},
     op : {"", "get", "members", "watch", "profile", "password"} \cup Mutating,
     who : Users \cup {""}, asked : Seq(Rooms), granted : SUBSET Rooms, arg : Args,
     copy : Users \cup Passwords \cup {""}]

\* The locals of a request fit its step and its operation.
Fits(q) ==
    /\ q.pc # "idle" => q.who \in Users
    /\ q.pc = "idle" => q.granted = {}
    /\ q.pc \in {"row", "member"} <=> q.asked # <<>>
    /\ q.op \in {"assign", "unassign"} => \E v \in Users : q.arg = <<v>>
    /\ q.op = "password" => q.pc \in {"user", "act"} /\ q.arg \in Passwords \X Passwords
    /\ q.op = "password" /\ q.pc = "act" => q.arg[1] = q.copy

ReqInv ==
    /\ rooms \in [Rooms -> Users \cup {None, Deleted}]
    /\ password \in [Users -> Passwords]
    /\ right \in [Reqs -> SUBSET Rooms]
    /\ req \in [Reqs -> Requests]
    /\ \A r \in Reqs : Fits(req[r])

\* The two tables and who was unassigned: memberships are of classrooms that exist, and the
\* creator of a classroom is a member unless unassigned.
TableInv ==
    /\ members \subseteq Rooms \X Users /\ left \subseteq Rooms \X Users
    /\ members \cap left = {}
    /\ \A m \in members \cup left : Exists(m[1])
    /\ \A c \in Rooms : Exists(c) => <<c, rooms[c]>> \in members \cup left

\* What was granted, and what the first query found about the classroom at hand.
RightInv ==
    \A r \in Reqs :
      /\ req[r].granted \subseteq right[r]
      /\ req[r].pc = "member" /\ (req[r].op \in Mutating \/ req[r].copy = req[r].who)
            => Head(req[r].asked) \in right[r]

IInv == ReqInv /\ TableInv /\ RightInv
-----------------------------------------------------------------------------
\* The empty tables satisfy the invariant.
LEMMA InitInv == Init => IInv
<1> SUFFICES ASSUME Init PROVE IInv
  OBVIOUS
<1> USE AccessConstants DEF Init, Idle
<1>1. ReqInv
  BY EmptySeq DEF ReqInv, Fits, Requests, Args
<1>2. TableInv
  BY DEF TableInv, Exists
<1>3. RightInv
  BY DEF RightInv
<1> QED BY <1>1, <1>2, <1>3 DEF IInv

\* The history of rights, the second conjunct of Next.
Remembers ==
    right' = [r \in Reqs |-> IF req'[r].pc = "idle" THEN {} ELSE right[r] \cup Rights(r)']

\* A step that gives a request new locals that fit keeps ReqInv.
LEMMA Replaced ==
  ASSUME ReqInv, Remembers, NEW r \in Reqs, NEW q \in Requests, Fits(q),
         req' = [req EXCEPT ![r] = q],
         rooms' \in [Rooms -> Users \cup {None, Deleted}], password' \in [Users -> Passwords]
  PROVE  ReqInv'
<1>1. right' \in [Reqs -> SUBSET Rooms]
  BY DEF ReqInv, Remembers, Rights
<1>2. req' \in [Reqs -> Requests]
  BY DEF ReqInv
<1>3. ASSUME NEW s \in Reqs PROVE Fits(req'[s])
  BY DEF ReqInv
<1> QED BY <1>1, <1>2, <1>3 DEF ReqInv, Fits

\* The locals of an idle request fit.
LEMMA IdleFits == Idle \in Requests /\ Fits(Idle) /\ Idle.pc = "idle" /\ Idle.granted = {}
BY EmptySeq DEF Idle, Requests, Args, Fits

\* A request that asks for classrooms fits.
LEMMA AsksFits ==
  ASSUME NEW op \in {"get", "members", "watch"} \cup Mutating, NEW u \in Users,
         NEW rs \in Seq(Rooms), rs # <<>>, NEW arg \in Args,
         op \in {"assign", "unassign"} => \E v \in Users : arg = <<v>>
  PROVE  Asks(op, u, rs, arg) \in Requests /\ Fits(Asks(op, u, rs, arg))
BY EmptySeq DEF Asks, Idle, Requests, Fits, Mutating

\* What is left of the classrooms asked for.
LEMMA TailOfOne ==
  ASSUME NEW S, NEW s \in Seq(S), s # <<>>
  PROVE  Head(s) \in S /\ Tail(s) \in Seq(S) /\ (Len(s) = 1 <=> Tail(s) = <<>>)
<1>1. Head(s) \in S /\ Tail(s) \in Seq(S) /\ Len(Tail(s)) = Len(s) - 1
  BY HeadTailProperties
<1>2. Len(s) \in Nat /\ (Tail(s) = <<>> <=> Len(Tail(s)) = 0)
  BY <1>1, EmptySeq
<1> QED BY <1>1, <1>2

\* The locals of a request that was granted the classroom at hand fit.
LEMMA GrantedFits ==
  ASSUME ReqInv, NEW r \in Reqs, req[r].pc \in {"row", "member"}
  PROVE  /\ Granted(r) \in Requests /\ Fits(Granted(r))
         /\ Head(req[r].asked) \in Rooms
<1>1. req[r].asked \in Seq(Rooms) /\ req[r].asked # <<>> /\ req[r] \in Requests /\ Fits(req[r])
  BY DEF ReqInv, Requests, Fits
<1>2. /\ Head(req[r].asked) \in Rooms /\ Tail(req[r].asked) \in Seq(Rooms)
      /\ Len(req[r].asked) = 1 <=> Tail(req[r].asked) = <<>>
  BY <1>1, TailOfOne
<1>3. Granted(r) \in Requests
  BY <1>1, <1>2 DEF Granted, Requests
<1>4. /\ Granted(r).pc = IF Len(req[r].asked) = 1 THEN "act" ELSE "row"
      /\ Granted(r).asked = Tail(req[r].asked)
      /\ Granted(r).op = req[r].op /\ Granted(r).who = req[r].who
      /\ Granted(r).arg = req[r].arg /\ Granted(r).copy = req[r].copy
  BY <1>1 DEF Granted, Requests
<1>5. req[r].op # "password"
  BY <1>1 DEF Fits
<1>6. Fits(Granted(r))
  BY <1>1, <1>2, <1>4, <1>5 DEF Fits
<1> QED BY <1>2, <1>3, <1>6

\* Handlers start requests that fit.
LEMMA HandleStep ==
  ASSUME ReqInv, Remembers, NEW r \in Reqs, NEW u \in Users, Handle(r, u)
  PROVE  /\ ReqInv'
         /\ \E q \in Requests : q.granted = {} /\ q.pc # "member" /\ req' = [req EXCEPT ![r] = q]
         /\ UNCHANGED <<rooms, members, password, left>>
<1> DEFINE New(q) == q \in Requests /\ Fits(q) /\ q.granted = {} /\ q.pc # "member"
<1>1. ASSUME NEW q, New(q), Begin(r, q)
      PROVE  /\ ReqInv'
             /\ \E p \in Requests : p.granted = {} /\ p.pc # "member" /\ req' = [req EXCEPT ![r] = p]
             /\ UNCHANGED <<rooms, members, password, left>>
  <2>1. ReqInv'
    BY <1>1, Replaced DEF Begin, ReqInv
  <2> QED BY <1>1, <2>1 DEF Begin
<1>2. ASSUME NEW op \in {"get", "members", "watch"} \cup Mutating, NEW rs \in Seq(Rooms), rs # <<>>,
             NEW arg \in Args, op \in {"assign", "unassign"} => \E v \in Users : arg = <<v>>
      PROVE  New(Asks(op, u, rs, arg))
  BY <1>2, AsksFits DEF Asks, Idle
<1>3. \A c \in Rooms : <<c>> \in Seq(Rooms) /\ <<c>> # <<>>
  OBVIOUS
<1>4. \A c, d \in Rooms : <<c, d>> \in Seq(Rooms) /\ <<c, d>> # <<>>
  OBVIOUS
<1>5. <<>> \in Args /\ \A v \in Users : <<v>> \in Args
  BY DEF Args
<1>6. New([Idle EXCEPT !.pc = "user", !.op = "profile", !.who = u])
  BY EmptySeq DEF Idle, Requests, Fits, Args
<1>7. ASSUME NEW p \in Passwords, NEW q \in Passwords
      PROVE  New([Idle EXCEPT !.pc = "user", !.op = "password", !.who = u, !.arg = <<p, q>>])
  <2> DEFINE new == [Idle EXCEPT !.pc = "user", !.op = "password", !.who = u, !.arg = <<p, q>>]
  <2>1. /\ new.pc = "user" /\ new.op = "password" /\ new.who = u /\ new.asked = <<>>
        /\ new.granted = {} /\ new.arg = <<p, q>>
    BY DEF Idle
  <2>2. new \in Requests
    BY IdleFits DEF Requests, Args
  <2> HIDE DEF new
  <2>3. Fits(new)
    BY <2>1 DEF Fits
  <2> QED BY <2>1, <2>2, <2>3 DEF new
<1> HIDE DEF New
<1>8. CASE \E c \in Rooms : get(r, u, c) \/ listMembers(r, u, c) \/ update(r, u, c) \/ delete(r, u, c)
  BY <1>8, <1>1, <1>2, <1>3, <1>5 DEF get, listMembers, update, delete, Mutating
<1>9. CASE \E c \in Rooms, v \in Users : assign(r, u, c, v) \/ unassign(r, u, c, v)
  BY <1>9, <1>1, <1>2, <1>3, <1>5 DEF assign, unassign, Mutating
<1>10. CASE \E c, d \in Rooms : c # d /\ Serve(r, u, <<c, d>>)
  BY <1>10, <1>1, <1>2, <1>4, <1>5 DEF Serve
<1>11. CASE updateMe(r, u) \/ \E current, next \in Passwords : changePassword(r, u, current, next)
  BY <1>11, <1>1, <1>6, <1>7 DEF updateMe, changePassword
<1> QED BY <1>8, <1>9, <1>10, <1>11 DEF Handle

\* Every step keeps the locals of requests fitting.
LEMMA ReqStep == ReqInv /\ [Next]_vars => ReqInv'
<1> SUFFICES ASSUME ReqInv, [Next]_vars PROVE ReqInv'
  OBVIOUS
<1>1. CASE UNCHANGED vars
  BY <1>1 DEF vars, ReqInv, Fits
<1>2. ASSUME NEW r \in Reqs, NEW u \in Users, Handle(r, u), Remembers
      PROVE  ReqInv'
  BY <1>2, HandleStep
<1>3. ASSUME NEW c \in Rooms, NEW u \in Users, Create(c, u), Remembers
      PROVE  ReqInv'
  BY <1>3 DEF Create, InsertClassroom, ReqInv, Fits, Remembers, Rights
<1>4. ASSUME NEW r \in Reqs, Proceed(r), Remembers
      PROVE  ReqInv'
  <2> USE <1>4
  <2>1. ASSUME End(r), rooms' \in [Rooms -> Users \cup {None, Deleted}],
               password' \in [Users -> Passwords]
        PROVE  ReqInv'
    BY <2>1, IdleFits, Replaced DEF End
  <2>2. ASSUME req' = [req EXCEPT ![r] = Granted(r)], req[r].pc \in {"row", "member"},
               UNCHANGED <<rooms, password>>
        PROVE  ReqInv'
    BY <2>2, GrantedFits, Replaced DEF ReqInv
  <2>3. CASE GetByID(r)
    <3> DEFINE c == Head(req[r].asked)
    <3>1. CASE Exists(c) /\ req[r].who \in Admins
      BY <2>3, <3>1, <2>2 DEF GetByID
    <3>2. CASE ~(Exists(c) /\ req[r].who \in Admins) /\ Exists(c) /\ Passes(r, c)
      <4> DEFINE q == [req[r] EXCEPT !.pc = "member", !.copy = rooms[c]]
      <4>1. req' = [req EXCEPT ![r] = q] /\ UNCHANGED <<rooms, password>>
        BY <2>3, <3>2 DEF GetByID, ReqInv
      <4>2. q \in Requests /\ Fits(q)
        BY <2>3, <3>2 DEF GetByID, ReqInv, Requests, Fits, Exists
      <4> HIDE DEF q
      <4> QED BY <4>1, <4>2, Replaced DEF ReqInv
    <3>3. CASE ~(Exists(c) /\ req[r].who \in Admins) /\ ~(Exists(c) /\ Passes(r, c))
      BY <2>3, <3>3, <2>1 DEF GetByID, ReqInv
    <3> QED BY <3>1, <3>2, <3>3
  <2>4. CASE IsMember(r)
    BY <2>4, <2>1, <2>2 DEF IsMember, ReqInv
  <2>5. CASE \/ Get(r) \/ Members(r) \/ Upgrade(r) \/ Update(r) \/ UpdateUser(r) \/ Fail(r)
             \/ \E c \in Rooms : Assign(r, c) \/ Unassign(r, c)
    BY <2>5, <2>1 DEF Get, Members, Upgrade, Update, UpdateUser, Fail, Assign, Unassign, Acts, ReqInv
  <2>6. ASSUME NEW c \in Rooms, Delete(r, c)
        PROVE  ReqInv'
    BY <2>6, <2>1 DEF Delete, DeleteClassroom, Acts, ReqInv
  <2>7. CASE UpdatePassword(r)
    BY <2>7, <2>1 DEF UpdatePassword, Acts, ReqInv, Requests, Fits
  <2>8. ASSUME LoadUser(r), req[r].pc = "user", UNCHANGED <<rooms, password>>,
               req[r].op = "password" => req[r].arg[1] = password[req[r].who]
        PROVE  ReqInv'
    <3> DEFINE q == [req[r] EXCEPT !.pc = "act", !.copy = password[req[r].who]]
    <3>1. req' = [req EXCEPT ![r] = q]
      BY <2>8 DEF LoadUser, ReqInv
    <3>2. req[r] \in Requests /\ Fits(req[r]) /\ password[req[r].who] \in Passwords
      BY <2>8 DEF ReqInv, Fits
    <3>3. q \in Requests
      BY <3>2 DEF Requests
    <3>4. /\ q.pc = "act" /\ q.copy = password[req[r].who] /\ q.op = req[r].op
          /\ q.who = req[r].who /\ q.asked = req[r].asked /\ q.arg = req[r].arg
      BY <3>2 DEF Requests
    <3> HIDE DEF q
    <3>5. Fits(q)
      BY <2>8, <3>2, <3>4 DEF Fits
    <3> QED BY <2>8, <3>1, <3>3, <3>5, Replaced DEF ReqInv
  <2>9. CASE UpdateProfile(r)
    BY <2>9, <2>8 DEF UpdateProfile
  <2>10. CASE ChangePassword(r)
    BY <2>10, <2>8, <2>1 DEF ChangePassword, ReqInv
  <2> QED BY <2>3, <2>4, <2>5, <2>6, <2>7, <2>9, <2>10 DEF Proceed
<1> QED BY <1>1, <1>2, <1>3, <1>4 DEF Next, Remembers

\* Every step keeps the tables in order.
LEMMA TableStep == IInv /\ [Next]_vars => TableInv'
<1> SUFFICES ASSUME IInv, [Next]_vars PROVE TableInv'
  OBVIOUS
<1> USE AccessConstants DEF IInv
<1>1. CASE UNCHANGED <<rooms, members, left>>
  BY <1>1 DEF TableInv, Exists
<1>2. ASSUME NEW c \in Rooms, NEW u \in Users, Create(c, u)
      PROVE  TableInv'
  <2>1. ~Exists(c) /\ rooms' = [rooms EXCEPT ![c] = u] /\ members' = members \cup {<<c, u>>}
        /\ left' = left
    BY <1>2 DEF Create, InsertClassroom, Exists
  <2>2. \A d \in Rooms : Exists(d)' <=> d = c \/ Exists(d)
    BY <2>1 DEF Exists, ReqInv
  <2>3. \A m \in members \cup left : m[1] # c
    BY <2>1 DEF TableInv
  <2>4. (members \subseteq Rooms \X Users /\ left \subseteq Rooms \X Users /\ members \cap left = {})'
    BY <2>1, <2>3 DEF TableInv
  <2>5. \A m \in members' \cup left' : Exists(m[1])'
    BY <2>1, <2>2 DEF TableInv
  <2>6. \A d \in Rooms : Exists(d)' => <<d, rooms'[d]>> \in members' \cup left'
    BY <2>1, <2>2 DEF TableInv, ReqInv
  <2> QED BY <2>4, <2>5, <2>6 DEF TableInv
<1>3. ASSUME NEW r \in Reqs, NEW c \in Rooms, Delete(r, c)
      PROVE  TableInv'
  <2>1. /\ \A d \in Rooms : Exists(d)' <=> d # c /\ Exists(d)
        /\ \A d \in Rooms : d # c => rooms'[d] = rooms[d]
    BY <1>3 DEF Delete, DeleteClassroom, Exists, ReqInv
  <2>2. members' = {m \in members : m[1] # c} /\ left' = {m \in left : m[1] # c}
    BY <1>3 DEF Delete, DeleteClassroom
  <2>3. \A m \in members' \cup left' : Exists(m[1])'
    BY <2>1, <2>2 DEF TableInv
  <2>4. \A d \in Rooms : Exists(d)' => <<d, rooms'[d]>> \in members' \cup left'
    BY <2>1, <2>2 DEF TableInv
  <2> QED BY <2>2, <2>3, <2>4 DEF TableInv
<1>4. ASSUME NEW r \in Reqs, NEW c \in Rooms, Assign(r, c) \/ Unassign(r, c)
      PROVE  TableInv'
  <2>1. PICK v \in Users : req[r].arg = <<v>>
    BY <1>4 DEF Assign, Unassign, Acts, ReqInv, Fits
  <2>2. rooms' = rooms /\ \A d : Exists(d)' <=> Exists(d)
    BY <1>4 DEF Assign, Unassign, Exists
  <2>3. CASE InsertMember(c, v)
    BY <2>2, <2>3 DEF InsertMember, TableInv
  <2>4. CASE DeleteMember(c, v)
    BY <2>2, <2>4 DEF DeleteMember, TableInv
  <2> QED BY <1>4, <2>1, <2>3, <2>4 DEF Assign, Unassign
<1>5. ASSUME NEW r \in Reqs, NEW u \in Users, Handle(r, u), Remembers
      PROVE  TableInv'
  BY <1>1, <1>5, HandleStep
<1>6. ASSUME NEW r \in Reqs, Proceed(r)
      PROVE  TableInv'
  BY <1>1, <1>3, <1>4, <1>6
     DEF Proceed, GetByID, IsMember, Get, Members, Upgrade, Update, UpdateProfile, ChangePassword,
         UpdateUser, UpdatePassword, Fail
<1> QED BY <1>1, <1>2, <1>5, <1>6 DEF Next, vars, Remembers

\* Every step that grants a classroom remembers that the caller had the right to it.
LEMMA RightStep == IInv /\ [Next]_vars => RightInv'
<1> SUFFICES ASSUME IInv, [Next]_vars PROVE RightInv'
  OBVIOUS
<1>0. ReqInv'
  BY ReqStep DEF IInv
<1> DEFINE Right(r) ==
      /\ req[r].granted \subseteq right[r]
      /\ req[r].pc = "member" /\ (req[r].op \in Mutating \/ req[r].copy = req[r].who)
            => Head(req[r].asked) \in right[r]
<1>1. CASE UNCHANGED vars
  BY <1>1 DEF vars, IInv, RightInv
<1>2. ASSUME Remembers, NEW r \in Reqs, req'[r].pc # "idle"
      PROVE  right'[r] = right[r] \cup Rights(r)'
  BY <1>2 DEF Remembers
<1>3. ASSUME Remembers, NEW r \in Reqs, req'[r] = req[r]
      PROVE  Right(r)'
  <2>1. CASE req[r].pc = "idle"
    BY <1>3, <2>1 DEF IInv, ReqInv, Fits
  <2>2. CASE req[r].pc # "idle"
    BY <1>2, <1>3, <2>2 DEF IInv, RightInv
  <2> QED BY <2>1, <2>2
<1>4. ASSUME Remembers, NEW r \in Reqs, \A s \in Reqs \ {r} : req'[s] = req[s], Right(r)'
      PROVE  RightInv'
  BY <1>3, <1>4 DEF RightInv
<1>5. ASSUME NEW r \in Reqs, NEW u \in Users, Handle(r, u), Remembers
      PROVE  RightInv'
  <2>1. PICK q \in Requests : q.granted = {} /\ q.pc # "member" /\ req' = [req EXCEPT ![r] = q]
    BY <1>5, HandleStep DEF IInv
  <2>2. req'[r] = q /\ \A s \in Reqs \ {r} : req'[s] = req[s]
    BY <2>1 DEF IInv, ReqInv
  <2> QED BY <1>4, <1>5, <2>1, <2>2
<1>6. ASSUME NEW c \in Rooms, NEW u \in Users, Create(c, u), Remembers
      PROVE  RightInv'
  BY <1>3, <1>6 DEF Create, RightInv
<1>7. ASSUME NEW r \in Reqs, Proceed(r), Remembers
      PROVE  RightInv'
  <2>1. ASSUME End(r) PROVE RightInv'
    <3>1. req'[r] = Idle /\ \A s \in Reqs \ {r} : req'[s] = req[s]
      BY <2>1 DEF End, IInv, ReqInv
    <3>2. req'[r].granted = {} /\ req'[r].pc = "idle"
      BY <3>1, IdleFits
    <3> QED BY <1>4, <1>7, <3>1, <3>2
  <2>2. ASSUME req' = [req EXCEPT ![r] = Granted(r)], req[r].pc \in {"row", "member"},
               rooms' = rooms, members' = members,
               \/ Head(req[r].asked) \in right[r]
               \/ Allowed(req[r].who, req[r].op, Head(req[r].asked))
        PROVE  RightInv'
    <3> DEFINE c == Head(req[r].asked)
    <3>1. req'[r] = Granted(r) /\ \A s \in Reqs \ {r} : req'[s] = req[s]
      BY <2>2 DEF IInv, ReqInv
    <3>2. /\ Granted(r).granted = req[r].granted \cup {c}
          /\ Granted(r).pc \in {"row", "act"}
          /\ Granted(r).who = req[r].who /\ Granted(r).op = req[r].op
      BY DEF Granted, IInv, ReqInv, Requests
    <3>3. Allowed(req[r].who, req[r].op, c) => c \in Rights(r)'
      BY <2>2, <3>1, <3>2, GrantedFits DEF Rights, Allowed, Exists, IInv
    <3>4. Right(r)'
      BY <1>2, <1>7, <2>2, <3>1, <3>2, <3>3 DEF IInv, RightInv
    <3> QED BY <1>4, <1>7, <3>1, <3>4
  <2>3. CASE GetByID(r)
    <3> DEFINE c == Head(req[r].asked)
    <3>1. CASE Exists(c) /\ req[r].who \in Admins
      BY <2>3, <3>1, <2>2 DEF GetByID, Allowed
    <3>2. CASE ~(Exists(c) /\ req[r].who \in Admins) /\ Exists(c) /\ Passes(r, c)
      <4>1. /\ req'[r] = [req[r] EXCEPT !.pc = "member", !.copy = rooms[c]]
            /\ \A s \in Reqs \ {r} : req'[s] = req[s]
            /\ rooms' = rooms /\ members' = members
        BY <2>3, <3>2 DEF GetByID, IInv, ReqInv
      <4>2. /\ req'[r].pc = "member" /\ req'[r].copy = rooms[c]
            /\ req'[r].granted = req[r].granted /\ req'[r].asked = req[r].asked
            /\ req'[r].who = req[r].who /\ req'[r].op = req[r].op
        <5>1. req[r] \in Requests
          BY DEF IInv, ReqInv
        <5> QED BY <4>1, <5>1 DEF Requests
      <4>3. c \in Rooms
        BY <2>3, GrantedFits DEF GetByID, IInv
      <4>4. req[r].op \in Mutating \/ rooms[c] = req[r].who => c \in Rights(r)'
        BY <3>2, <4>1, <4>2, <4>3 DEF Rights, Allowed, Exists, Passes
      <4>5. Right(r)'
        BY <1>2, <1>7, <4>2, <4>4 DEF IInv, RightInv
      <4> QED BY <1>4, <1>7, <4>1, <4>5
    <3>3. CASE ~(Exists(c) /\ req[r].who \in Admins) /\ ~(Exists(c) /\ Passes(r, c))
      BY <2>3, <3>3, <2>1 DEF GetByID
    <3> QED BY <3>1, <3>2, <3>3
  <2>4. CASE IsMember(r)
    <3> DEFINE c == Head(req[r].asked)
    <3>1. CASE <<c, req[r].who>> \in members \/ req[r].copy = req[r].who
      <4>1. <<c, req[r].who>> \in members => Exists(c)
        BY DEF IInv, TableInv
      <4>2. req[r].pc = "member"
        BY <2>4 DEF IsMember
      <4>3. c \in right[r] \/ Allowed(req[r].who, req[r].op, c)
        BY <3>1, <4>1, <4>2 DEF IInv, RightInv, Allowed
      <4> QED BY <2>4, <3>1, <4>2, <4>3, <2>2 DEF IsMember
    <3> QED BY <2>4, <3>1, <2>1 DEF IsMember
  <2>5. ASSUME LoadUser(r) PROVE RightInv'
    <3>1. /\ req'[r].pc = "act" /\ req'[r].granted = req[r].granted
          /\ \A s \in Reqs \ {r} : req'[s] = req[s]
      BY <2>5 DEF LoadUser, IInv, ReqInv, Requests
    <3>2. Right(r)'
      BY <1>2, <1>7, <3>1 DEF IInv, RightInv
    <3> QED BY <1>4, <1>7, <3>1, <3>2
  <2>6. End(r) \/ LoadUser(r) \/ GetByID(r) \/ IsMember(r)
    BY <1>7 DEF Proceed, Get, Members, Upgrade, Update, UpdateProfile, ChangePassword, UpdateUser,
                UpdatePassword, Fail, Delete, Assign, Unassign, Acts
  <2> QED BY <2>1, <2>3, <2>4, <2>5, <2>6
<1> QED BY <1>1, <1>5, <1>6, <1>7 DEF Next, Remembers
-----------------------------------------------------------------------------
\* IInv is an invariant of the specification.
THEOREM Invariance == Spec => []IInv
<1>1. IInv /\ [Next]_vars => IInv'
  BY ReqStep, TableStep, RightStep DEF IInv
<1> QED BY <1>1, InitInv, PTL DEF Spec

\* Whoever acts on classrooms, or listens to their topics, had the right to each of them at
\* some instant since the request began, although authorize reads the classroom and the
\* membership in two queries and the act is a third (classroom.Service.authorize).
THEOREM AccessAlwaysJustified == Spec => []AccessJustified
<1>1. IInv => AccessJustified
  BY DEF IInv, RightInv, AccessJustified
<1> QED BY <1>1, Invariance, PTL

\* ListForUser shows a user just the classrooms that authorize lets the user see, but for
\* creators who were unassigned; no membership outlives its classroom.
THEOREM ListsAlwaysAgree == Spec => []ListsAgree
<1>1. ASSUME IInv PROVE ListsAgree
  <2>1. TypeOK
    BY <1>1 DEF IInv, ReqInv, TableInv, Requests, Fits, TypeOK
  <2>2. ASSUME NEW u \in Users, NEW c \in Rooms
        PROVE  c \in ListForPrincipal(u)
                 <=> Allowed(u, "get", c) /\ (u \in Admins \/ <<c, u>> \notin left)
    <3>1. CASE u \in Admins
      BY <3>1 DEF ListForPrincipal, Allowed
    <3>2. CASE u \notin Admins
      <4>1. <<c, u>> \in members => Exists(c) /\ <<c, u>> \notin left
        BY <1>1 DEF IInv, TableInv
      <4>2. Exists(c) /\ rooms[c] = u /\ <<c, u>> \notin left => <<c, u>> \in members
        BY <1>1 DEF IInv, TableInv
      <4> QED BY <3>2, <4>1, <4>2 DEF ListForPrincipal, ListForUser, Allowed, Mutating
    <3> QED BY <3>1, <3>2
  <2> QED BY <1>1, <2>1, <2>2 DEF IInv, TableInv, ListsAgree
<1> QED BY <1>1, Invariance, PTL

\* A password changes only by the request of its owner that proved the password it read, and
\* to the one it asked for; UpdateProfile, which writes back a copy of the row, never.
THEOREM PasswordOnlyByOwner == Spec => PasswordByOwner
<1> DEFINE Owned == \A u \in Users : password'[u] # password[u] =>
             \E r \in Reqs : /\ req[r].op = "password" /\ req[r].who = u /\ req[r].pc = "act"
                             /\ req[r].arg = <<req[r].copy, password'[u]>>
<1>1. ASSUME IInv, [Next]_vars PROVE Owned
  <2>1. CASE password' = password
    BY <2>1
  <2>2. ASSUME NEW r \in Reqs, UpdatePassword(r) PROVE Owned
    <3>1. /\ req[r].pc = "act" /\ req[r].op = "password"
          /\ password' = [password EXCEPT ![req[r].who] = req[r].arg[2]]
      BY <2>2 DEF UpdatePassword, Acts
    <3>2. /\ req[r].arg \in Passwords \X Passwords /\ req[r].arg[1] = req[r].copy
          /\ req[r].who \in Users
      BY <1>1, <3>1 DEF IInv, ReqInv, Fits
    <3>3. req[r].arg = <<req[r].copy, req[r].arg[2]>>
      BY <3>2
    <3> QED BY <1>1, <3>1, <3>2, <3>3 DEF IInv, ReqInv
  <2>3. ASSUME NEW r \in Reqs, NEW u \in Users, Handle(r, u), Remembers PROVE password' = password
    BY <1>1, <2>3, HandleStep DEF IInv
  <2>4. ASSUME NEW r \in Reqs, Proceed(r), ~UpdatePassword(r) PROVE password' = password
    BY <2>4 DEF Proceed, GetByID, IsMember, Get, Members, Upgrade, Update, UpdateProfile,
                ChangePassword, UpdateUser, Fail, Delete, Assign, Unassign
  <2> QED BY <1>1, <2>1, <2>2, <2>3, <2>4 DEF Next, Remembers, Create, vars
<1>2. IInv /\ [Next]_vars => [Owned]_vars
  BY <1>1
<1> QED BY <1>2, Invariance, PTL DEF Spec, PasswordByOwner
=============================================================================
