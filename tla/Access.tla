------------------------------- MODULE Access -------------------------------
(***************************************************************************)
(* Classrooms, who may see and change them, and the accounts of users.     *)
(* Every request on a classroom is authorized by two queries, one for the  *)
(* classroom's row and one for the caller's membership, and then acts with *)
(* another statement: all of them separate, so that other requests come in *)
(* between.  A WebSocket upgrade asks for several classrooms and is        *)
(* authorized for each in turn.  A statement may fail at any time, which   *)
(* ends the request.  Roles never change.                                  *)
(***************************************************************************)
EXTENDS Naturals, Sequences

CONSTANTS
    Users, Admins,  \* accounts, and those of them with the role admin
    Rooms,          \* classroom ids uuid.New may draw
    Reqs,           \* requests in flight at once
    Passwords,
    Initial         \* the password an account has at first

None == "none"      \* no classroom has been created with this id
Deleted == "deleted"

ASSUME AccessConstants ==
    /\ Admins \subseteq Users /\ Initial \in Passwords
    /\ None \notin Users /\ Deleted \notin Users

VARIABLES
    rooms,      \* the classrooms table: created_by, None or Deleted
    members,    \* the classroom_users table
    password,   \* users.password_hash
    req,        \* requests
    right,      \* history: classrooms the caller of a request had the right to at some
                \* instant since it began
    left        \* history: memberships that Unassign took back

vars == <<rooms, members, password, req, right, left>>

\* A request: asked are the classrooms it is still to be authorized for, copy is what it
\* has read of the row at hand.
Idle == [pc |-> "idle", op |-> "", who |-> "", asked |-> <<>>, granted |-> {}, arg |-> <<>>,
         copy |-> ""]

Mutating == {"update", "delete", "assign", "unassign"}

Init ==
    /\ rooms = [c \in Rooms |-> None] /\ members = {}
    /\ password = [u \in Users |-> Initial]
    /\ req = [r \in Reqs |-> Idle]
    /\ right = [r \in Reqs |-> {}] /\ left = {}

Exists(c) == rooms[c] \in Users

Begin(r, request) ==
    /\ req[r].pc = "idle"
    /\ req' = [req EXCEPT ![r] = request]
    /\ UNCHANGED <<rooms, members, password, left>>

\* The request is answered, refused, or a statement of it failed.
End(r) == req' = [req EXCEPT ![r] = Idle]

-----------------------------------------------------------------------------
(* The handlers take the principal from the token and start to authorize.  *)

Asks(op, u, rs, arg) == [Idle EXCEPT !.pc = "row", !.op = op, !.who = u, !.asked = rs, !.arg = arg]

get(r, u, c) == Begin(r, Asks("get", u, <<c>>, <<>>))
listMembers(r, u, c) == Begin(r, Asks("members", u, <<c>>, <<>>))
update(r, u, c) == Begin(r, Asks("update", u, <<c>>, <<>>))
delete(r, u, c) == Begin(r, Asks("delete", u, <<c>>, <<>>))
assign(r, u, c, v) == Begin(r, Asks("assign", u, <<c>>, <<v>>))
unassign(r, u, c, v) == Begin(r, Asks("unassign", u, <<c>>, <<v>>))

\* An upgrade whose ticket is consumed, with the classrooms of the topics it asks for.
Serve(r, u, rs) == Begin(r, Asks("watch", u, rs, <<>>))

-----------------------------------------------------------------------------
(* authorize.                                                              *)

\* The request once the classroom at hand is granted: authorizeTopics goes on with the next.
Granted(r) ==
    [req[r] EXCEPT !.granted = @ \cup {Head(req[r].asked)}, !.asked = Tail(@),
                   !.pc = IF Len(req[r].asked) = 1 THEN "act" ELSE "row"]

\* Mutant: a member passes for the creator.
Passes_Members(r, c) == <<c, req[r].who>> \in members \/ req[r].op \notin Mutating

\* What decides after the first query: whether the caller may go on to the second.
Passes(r, c) == rooms[c] = req[r].who \/ req[r].op \notin Mutating

\* The row of the classroom: one that is not there is not found, an admin is let through,
\* and nobody but its creator may change it.
GetByID(r) ==
    LET c == Head(req[r].asked) IN
    /\ req[r].pc = "row"
    /\ IF Exists(c) /\ req[r].who \in Admins THEN req' = [req EXCEPT ![r] = Granted(r)]
       ELSE IF Exists(c) /\ Passes(r, c)
       THEN req' = [req EXCEPT ![r].pc = "member", ![r].copy = rooms[c]]
       ELSE End(r)
    /\ UNCHANGED <<rooms, members, password, left>>

\* The membership; the creator needs none.
IsMember(r) ==
    LET c == Head(req[r].asked) IN
    /\ req[r].pc = "member"
    /\ IF <<c, req[r].who>> \in members \/ req[r].copy = req[r].who
       THEN req' = [req EXCEPT ![r] = Granted(r)]
       ELSE End(r)
    /\ UNCHANGED <<rooms, members, password, left>>

-----------------------------------------------------------------------------
(* The statements on the two tables, each atomic.  A foreign key of         *)
(* classroom_users refuses a membership in a classroom that is gone, and    *)
(* takes the memberships of a deleted classroom along.                      *)

InsertClassroom(c, u) == rooms[c] = None /\ rooms' = [rooms EXCEPT ![c] = u]

DeleteClassroom(c) ==
    /\ rooms' = [rooms EXCEPT ![c] = IF Exists(c) THEN Deleted ELSE @]
    /\ members' = {m \in members : m[1] # c}
    /\ left' = {m \in left : m[1] # c}

InsertMember(c, v) ==
    /\ members' = IF Exists(c) THEN members \cup {<<c, v>>} ELSE members
    /\ left' = left \ {<<c, v>>}

DeleteMember(c, v) ==
    /\ members' = members \ {<<c, v>>}
    /\ left' = IF Exists(c) THEN left \cup {<<c, v>>} ELSE left

-----------------------------------------------------------------------------
(* The acts of a request, on the one classroom that was granted.           *)

\* Mutant: the creator is made a member by a second, separate request.
Create_RowOnly(c, u) == InsertClassroom(c, u) /\ UNCHANGED <<members, password, req, left>>

\* One transaction: the classroom and its creator's membership.
Create(c, u) ==
    /\ InsertClassroom(c, u)
    /\ members' = members \cup {<<c, u>>}
    /\ UNCHANGED <<password, req, left>>

Acts(r, op) == req[r].pc = "act" /\ req[r].op = op /\ End(r)

Get(r) == Acts(r, "get") /\ UNCHANGED <<rooms, members, password, left>>
Members(r) == Acts(r, "members") /\ UNCHANGED <<rooms, members, password, left>>

\* An upgrade whose topics are all granted registers its connection with the hub.
Upgrade(r) == Acts(r, "watch") /\ UNCHANGED <<rooms, members, password, left>>

\* Name and description are written, to no row when the classroom is gone.
Update(r) == Acts(r, "update") /\ UNCHANGED <<rooms, members, password, left>>

Delete(r, c) ==
    /\ c \in req[r].granted /\ Acts(r, "delete") /\ DeleteClassroom(c)
    /\ UNCHANGED password

Assign(r, c) ==
    /\ c \in req[r].granted /\ Acts(r, "assign") /\ InsertMember(c, req[r].arg[1])
    /\ UNCHANGED <<rooms, password>>

Unassign(r, c) ==
    /\ c \in req[r].granted /\ Acts(r, "unassign") /\ DeleteMember(c, req[r].arg[1])
    /\ UNCHANGED <<rooms, password>>

\* What GET /classrooms shows, its pages of limit and offset put together: List to an
\* admin, ListForUser to anybody else.
ListForUser(u) == {c \in Rooms : <<c, u>> \in members}
ListForPrincipal(u) == IF u \in Admins THEN {c \in Rooms : Exists(c)} ELSE ListForUser(u)

-----------------------------------------------------------------------------
(* Accounts.                                                               *)

updateMe(r, u) == Begin(r, [Idle EXCEPT !.pc = "user", !.op = "profile", !.who = u])
changePassword(r, u, current, next) ==
    Begin(r, [Idle EXCEPT !.pc = "user", !.op = "password", !.who = u, !.arg = <<current, next>>])

LoadUser(r) == req' = [req EXCEPT ![r].pc = "act", ![r].copy = password[req[r].who]]

\* The row is read, and the fields of the request are put into the copy.
UpdateProfile(r) ==
    /\ req[r].pc = "user" /\ req[r].op = "profile" /\ LoadUser(r)
    /\ UNCHANGED <<rooms, members, password, left>>

\* The row is read; a password that does not match it ends the request.
ChangePassword(r) ==
    /\ req[r].pc = "user" /\ req[r].op = "password"
    /\ IF req[r].arg[1] = password[req[r].who] THEN LoadUser(r) ELSE End(r)
    /\ UNCHANGED <<rooms, members, password, left>>

\* Mutant: the update of a profile writes all columns of the copy.
UpdateUser_WholeRow(r) ==
    /\ Acts(r, "profile")
    /\ password' = [password EXCEPT ![req[r].who] = req[r].copy]
    /\ UNCHANGED <<rooms, members, left>>

\* The update of a profile writes the columns of the copy it read, but the password.
UpdateUser(r) ==
    /\ Acts(r, "profile")
    /\ UNCHANGED <<rooms, members, password, left>>

UpdatePassword(r) ==
    /\ Acts(r, "password")
    /\ password' = [password EXCEPT ![req[r].who] = req[r].arg[2]]
    /\ UNCHANGED <<rooms, members, left>>

-----------------------------------------------------------------------------
\* A query or statement fails, a topic has another shape, or the caller goes away.
Fail(r) == req[r].pc # "idle" /\ End(r) /\ UNCHANGED <<rooms, members, password, left>>

\* The right that a request of kind op needs to classroom c.
Allowed(u, op, c) ==
    Exists(c) /\ (u \in Admins \/ rooms[c] = u \/ (op \notin Mutating /\ <<c, u>> \in members))

Rights(r) == {c \in Rooms : req[r].pc # "idle" /\ Allowed(req[r].who, req[r].op, c)}

Handle(r, u) ==
    \/ \E c \in Rooms : get(r, u, c) \/ listMembers(r, u, c) \/ update(r, u, c) \/ delete(r, u, c)
    \/ \E c \in Rooms, v \in Users : assign(r, u, c, v) \/ unassign(r, u, c, v)
    \/ \E c, d \in Rooms : c # d /\ Serve(r, u, <<c, d>>)
    \/ updateMe(r, u) \/ \E current, next \in Passwords : changePassword(r, u, current, next)

Proceed(r) ==
    \/ GetByID(r) \/ IsMember(r) \/ Get(r) \/ Members(r) \/ Upgrade(r) \/ Update(r)
    \/ UpdateProfile(r) \/ ChangePassword(r) \/ UpdateUser(r) \/ UpdatePassword(r)
    \/ Fail(r) \/ \E c \in Rooms : Delete(r, c) \/ Assign(r, c) \/ Unassign(r, c)

Next ==
    /\ \/ \E r \in Reqs, u \in Users : Handle(r, u)
       \/ \E r \in Reqs : Proceed(r)
       \/ \E c \in Rooms, u \in Users : Create(c, u)
    /\ right' = [r \in Reqs |-> IF req'[r].pc = "idle" THEN {} ELSE right[r] \cup Rights(r)']

Spec == Init /\ [][Next]_vars

-----------------------------------------------------------------------------
(* Properties.                                                             *)

TypeOK ==
    /\ rooms \in [Rooms -> Users \cup {None, Deleted}]
    /\ members \subseteq Rooms \X Users /\ left \subseteq Rooms \X Users
    /\ password \in [Users -> Passwords]
    /\ \A r \in Reqs :
         /\ req[r].pc \in {"idle", "row", "member", "user", "act"}
         /\ req[r].pc \in {"row", "member"} <=> req[r].asked # <<>>

\* Although the two queries of an authorization and the act are apart, whoever gets to act
\* on a classroom, or to listen to all topics it asked for, had the right to each of them
\* at some instant since the request began.  (Not longer: a connection keeps its topics
\* when its user loses the membership.)  classroom.Service.authorize, ws.authorizeTopics.
AccessJustified == \A r \in Reqs : req[r].granted \subseteq right[r]

\* A membership belongs to a classroom that exists, and the list of classrooms shows a user
\* just those that authorize would let the user see, but for creators who were unassigned:
\* they keep every right and lose sight of their classroom.
\* PostgresRepository.Create, Delete, Assign, ListForUser.
ListsAgree ==
    /\ TypeOK
    /\ \A m \in members : Exists(m[1])
    /\ \A u \in Users, c \in Rooms :
         c \in ListForPrincipal(u) <=> Allowed(u, "get", c) /\ (u \in Admins \/ <<c, u>> \notin left)

\* A password is changed only by a request of its owner that proved an earlier one and to
\* the new one it asks for: no update of a profile that read the row before undoes it.
\* user.Service.UpdateProfile and ChangePassword.
PasswordByOwner ==
    [][\A u \in Users : password'[u] # password[u] =>
         \E r \in Reqs : /\ req[r].op = "password" /\ req[r].who = u /\ req[r].pc = "act"
                         /\ req[r].arg = <<req[r].copy, password'[u]>>]_vars
=============================================================================
