---------------------------- MODULE NotifyProofs ----------------------------
(***************************************************************************)
(* Proofs about Notify, for any devices, members, tokens and requests in   *)
(* flight, and any high-water mark: alerts are throttled per condition,    *)
(* batches are stored whole, and no push drops a token but one that FCM    *)
(* called invalid.                                                         *)
(***************************************************************************)
EXTENDS Notify, SequenceTheorems, TLAPS

Requests == [pc : {"done", "item", "alert", "insert"}, batch : Seq(Readings), i : Nat,
             cond : {<<>>} \cup Conditions, seen : Nat, stored : Nat, ok : BOOLEAN]
PushPcs == {"off", "list", "send", "fetch", "post", "remove"}
Pushes == [pc : PushPcs, todo : SUBSET Tokens, at : SUBSET Tokens]

\* What a request remembers fits its step: its place in the batch is within the batch, the
\* readings before it are published, and nothing is stored before the end.
Fits(q) ==
    /\ q.pc \in {"item", "insert"} => q.i \in 1 .. Len(q.batch)
    /\ q.pc = "item" => q.seen = q.i - 1
    /\ q.pc = "insert" => q.seen = Len(q.batch)
    /\ q.pc = "alert" => q.batch = <<>> \/ (q.i \in 1 .. Len(q.batch) /\ q.seen = q.i)
    /\ q.pc # "done" => q.stored = 0 /\ q.ok = TRUE
    /\ q.pc = "done" => /\ q.stored \in {0, Len(q.batch)}
                        /\ q.ok = TRUE => q.stored = Len(q.batch)
                        /\ q.stored = Len(q.batch) => q.seen = Len(q.batch)

ReqInv == req \in [Reqs -> Requests] /\ \A r \in Reqs : Fits(req[r])

\* A goroutine that has listed the user's tokens has some left, and only such a one.
Lists(p) == p.pc \notin {"off", "list"} <=> p.todo # {}

PushInv ==
    /\ push \in [Reqs -> [Goroutines -> Pushes]]
    /\ \A r \in Reqs, g \in Goroutines : Lists(push[r][g])

\* Alerts let through are counted by the throttle's fresh entries: eviction takes none.
ThrottleInv ==
    /\ lastAlert \in [Conditions -> {"none", "fresh", "old"}]
    /\ raised \in [Conditions -> {0, 1}]
    /\ \A c \in Conditions : raised[c] = 1 <=> lastAlert[c] = "fresh"

UnreadInv == unread \in [Users -> 0 .. MaxUnread]

\* Registered tokens are in the table unless FCM called them invalid, and it called invalid
\* all that are about to be removed.
TokenInv ==
    /\ tokens \in [Users -> SUBSET Tokens]
    /\ wanted \subseteq Users \X Tokens /\ disowned \subseteq wanted
    /\ \A u \in Users, t \in Tokens : <<u, t>> \in wanted =>
         /\ t \in tokens[u] \/ <<u, t>> \in disowned
         /\ Removing(u, t) => <<u, t>> \in disowned

IInv == ReqInv /\ PushInv /\ ThrottleInv /\ UnreadInv /\ TokenInv
-----------------------------------------------------------------------------
\* A slot that is free, and the request that an offline device starts.
LEMMA DoneFits == Done \in Requests /\ Fits(Done)
BY EmptySeq, LenProperties DEF Done, Requests, Fits

\* The state the server starts in satisfies the invariant.
LEMMA InitInv == Init => IInv
<1> SUFFICES ASSUME Init PROVE IInv
  OBVIOUS
<1>1. ReqInv
  BY DoneFits DEF Init, ReqInv
<1>2. PushInv
  BY DEF Init, PushInv, Pushes, PushPcs, Lists, Off
<1>3. ThrottleInv
  BY DEF Init, ThrottleInv
<1>4. UnreadInv
  BY NotifyConstants DEF Init, UnreadInv
<1>5. TokenInv
  BY DEF Init, TokenInv, Removing, Off
<1> QED BY <1>1, <1>2, <1>3, <1>4, <1>5 DEF IInv

\* A reading breaks one of the rules or none.
LEMMA BrokenIsRule == ASSUME NEW x PROVE Broken(x) \in Rules \cup {""}
BY DEF Broken, Rules

\* Beyond the high-water mark or not, the entry of k becomes fresh and no other key starts
\* or stops being fresh.
LEMMA EvictedKeepsFresh ==
  ASSUME ThrottleInv, NEW k \in Conditions
  PROVE  /\ Evicted(k) \in [Conditions -> {"none", "fresh", "old"}]
         /\ \A q \in Conditions : Evicted(k)[q] = "fresh" <=> q = k \/ lastAlert[q] = "fresh"
<1> DEFINE entries == [lastAlert EXCEPT ![k] = "fresh"]
           kept == [q \in Conditions |-> IF entries[q] = "old" THEN "none" ELSE entries[q]]
<1>1. /\ entries \in [Conditions -> {"none", "fresh", "old"}]
      /\ \A q \in Conditions : entries[q] = "fresh" <=> q = k \/ lastAlert[q] = "fresh"
  BY DEF ThrottleInv
<1>2. Evicted(k) = entries \/ Evicted(k) = kept
  BY DEF Evicted
<1> HIDE DEF entries
<1>3. /\ kept \in [Conditions -> {"none", "fresh", "old"}]
      /\ \A q \in Conditions : kept[q] = "fresh" <=> entries[q] = "fresh"
  BY <1>1
<1> HIDE DEF kept
<1> QED BY <1>1, <1>2, <1>3

\* The throttle lets one alert of a condition through and then remembers it.
LEMMA ThrottleKeeps ==
  ASSUME ThrottleInv, NEW c \in Conditions, NEW suppressed \in BOOLEAN, throttle(c, suppressed)
  PROVE  ThrottleInv'
<1>1. CASE lastAlert[c] = "fresh"
  BY <1>1 DEF throttle, Key, ThrottleInv
<1>2. CASE lastAlert[c] # "fresh"
  <2>1. lastAlert' = Evicted(c) /\ raised' = [raised EXCEPT ![c] = IF @ = 2 THEN 2 ELSE @ + 1]
    BY <1>2 DEF throttle, Key
  <2>2. raised[c] = 0
    BY <1>2 DEF ThrottleInv
  <2>3. raised' = [raised EXCEPT ![c] = 1]
    BY <2>1, <2>2 DEF ThrottleInv
  <2> QED BY <2>1, <2>3, EvictedKeepsFresh DEF ThrottleInv
<1> QED BY <1>1, <1>2

\* What NextItem makes of a request that handles a reading, or an alert: the next reading of
\* the batch, its insertion, or the end when there is no batch.
LEMMA NextItemIs ==
  ASSUME ReqInv, NEW r \in Reqs, req[r].pc \in {"item", "alert"}
  PROVE  LET q == req[r]  n == NextItem(r) IN
         IF q.batch = <<>> THEN n = Done
         ELSE /\ n \in Requests /\ n.batch = q.batch /\ n.stored = 0 /\ n.ok = TRUE
              /\ n.seen = q.seen /\ q.i \in 1 .. Len(q.batch)
              /\ \/ n.pc = "insert" /\ n.i = q.i /\ q.i = Len(q.batch)
                 \/ n.pc = "item" /\ n.i = q.i + 1 /\ n.i \in 1 .. Len(q.batch)
<1> DEFINE q == req[r]
<1>1. q \in Requests /\ Fits(q) /\ q.pc \in {"item", "alert"}
  BY DEF ReqInv
<1>2. CASE q.batch = <<>>
  BY <1>2 DEF NextItem
<1>3. CASE q.batch # <<>> /\ q.i = Len(q.batch)
  <2> DEFINE n == [q EXCEPT !.pc = "insert", !.cond = <<>>]
  <2>1. NextItem(r) = n
    BY <1>3 DEF NextItem
  <2> HIDE DEF q
  <2>2. /\ n \in Requests /\ n.pc = "insert" /\ n.batch = q.batch /\ n.i = q.i
        /\ n.seen = q.seen /\ n.stored = q.stored /\ n.ok = q.ok
    BY <1>1 DEF Requests
  <2> HIDE DEF n
  <2> QED BY <1>1, <1>3, <2>1, <2>2 DEF Fits, q
<1>4. CASE q.batch # <<>> /\ q.i # Len(q.batch)
  <2> DEFINE n == [q EXCEPT !.pc = "item", !.i = @ + 1, !.cond = <<>>]
  <2>1. NextItem(r) = n
    BY <1>4 DEF NextItem
  <2> HIDE DEF q
  <2>2. /\ n \in Requests /\ n.pc = "item" /\ n.batch = q.batch /\ n.i = q.i + 1
        /\ n.seen = q.seen /\ n.stored = q.stored /\ n.ok = q.ok
    <3>1. q.i + 1 \in Nat
      BY <1>1 DEF Requests
    <3> DEFINE k == q.i + 1
    <3>2. n = [q EXCEPT !.pc = "item", !.i = k, !.cond = <<>>] /\ k \in Nat
      BY <1>1, <3>1 DEF Requests
    <3> HIDE DEF k, n
    <3>3. n \in Requests /\ n.i = k
      BY <1>1, <3>2 DEF Requests
    <3> QED BY <1>1, <3>2, <3>3 DEF Requests, k
  <2>3. q.batch \in Seq(Readings) /\ Len(q.batch) \in Nat
    BY <1>1, LenProperties DEF Requests
  <2> HIDE DEF n
  <2>4. q.i \in 1 .. Len(q.batch) /\ n.i \in 1 .. Len(q.batch)
    BY <1>1, <1>4, <2>2, <2>3 DEF Fits
  <2> QED BY <1>1, <1>4, <2>1, <2>2, <2>4 DEF Fits, q
<1> QED BY <1>2, <1>3, <1>4

\* One more reading of it is published.
LEMMA PublishedIs ==
  ASSUME NEW n \in Requests
  PROVE  /\ Published(n) \in Requests /\ Published(n).pc = n.pc /\ Published(n).batch = n.batch
         /\ Published(n).i = n.i /\ Published(n).seen = n.seen + 1
         /\ Published(n).stored = n.stored /\ Published(n).ok = n.ok
<1> DEFINE k == n.seen + 1
           p == [n EXCEPT !.seen = k]
<1>1. Published(n) = p /\ k \in Nat
  BY DEF Published, Requests
<1> HIDE DEF k
<1>2. p \in Requests /\ p.pc = n.pc /\ p.batch = n.batch /\ p.i = n.i /\ p.seen = k
      /\ p.stored = n.stored /\ p.ok = n.ok
  BY <1>1 DEF Requests
<1> HIDE DEF p
<1> QED BY <1>1, <1>2 DEF k

\* After a reading that is published, and after an alert, the request fits its next step.
LEMMA NextFits ==
  ASSUME ReqInv, NEW r \in Reqs
  PROVE  /\ req[r].pc = "item" =>
              Published(NextItem(r)) \in Requests /\ Fits(Published(NextItem(r)))
         /\ req[r].pc = "alert" => NextItem(r) \in Requests /\ Fits(NextItem(r))
<1> DEFINE q == req[r]
           n == NextItem(r)
<1>1. q \in Requests /\ Fits(q) /\ Len(q.batch) \in Nat /\ q.i \in Nat
  BY LenProperties DEF ReqInv, Requests
<1>2. ASSUME q.pc = "item" PROVE Published(n) \in Requests /\ Fits(Published(n))
  <2>1. q.batch # <<>> /\ q.seen = q.i - 1
    BY <1>1, <1>2, EmptySeq DEF Fits
  <2>2. /\ n \in Requests /\ n.batch = q.batch /\ n.stored = 0 /\ n.ok = TRUE
        /\ n.seen = q.seen /\ q.i \in 1 .. Len(q.batch)
        /\ \/ n.pc = "insert" /\ n.i = q.i /\ q.i = Len(q.batch)
           \/ n.pc = "item" /\ n.i = q.i + 1 /\ n.i \in 1 .. Len(q.batch)
    BY <1>2, <2>1, NextItemIs
  <2> HIDE DEF n, q
  <2> QED BY <1>1, <2>1, <2>2, PublishedIs DEF Fits
<1>3. ASSUME q.pc = "alert" PROVE n \in Requests /\ Fits(n)
  <2>1. CASE q.batch = <<>>
    BY <1>3, <2>1, DoneFits, NextItemIs
  <2>2. CASE q.batch # <<>>
    <3>1. /\ n \in Requests /\ n.batch = q.batch /\ n.stored = 0 /\ n.ok = TRUE
          /\ n.seen = q.seen /\ q.i \in 1 .. Len(q.batch)
          /\ \/ n.pc = "insert" /\ n.i = q.i /\ q.i = Len(q.batch)
             \/ n.pc = "item" /\ n.i = q.i + 1 /\ n.i \in 1 .. Len(q.batch)
      BY <1>3, <2>2, NextItemIs
    <3>2. q.seen = q.i
      BY <1>1, <1>3, <2>2 DEF Fits
    <3> HIDE DEF n, q
    <3> QED BY <1>1, <3>1, <3>2 DEF Fits
  <2> QED BY <2>1, <2>2
<1> QED BY <1>2, <1>3

\* A step that gives one slot a request that fits keeps the requests fitting.
LEMMA ReqSet ==
  ASSUME ReqInv, NEW r \in Reqs, NEW q \in Requests, Fits(q), req' = [req EXCEPT ![r] = q]
  PROVE  ReqInv'
BY DEF ReqInv

\* A step of a request that handles a reading keeps the requests and the throttle right.
LEMMA ItemKeeps ==
  ASSUME IInv, NEW r \in Reqs, Item(r)
  PROVE  ReqInv' /\ ThrottleInv'
<1> DEFINE q == req[r]
           reading == q.batch[q.i]
           rule == Broken(reading)
           c == <<reading.dev, rule>>
<1>1. q \in Requests /\ Fits(q) /\ q.pc = "item"
  BY DEF IInv, ReqInv, Item
<1>2. reading \in Readings /\ reading.dev \in Devices
  <2>1. reading \in Readings
    BY <1>1, ElementOfSeq DEF Requests, Fits
  <2> HIDE DEF reading
  <2> QED BY <2>1 DEF Readings
<1>3. Published(NextItem(r)) \in Requests /\ Fits(Published(NextItem(r)))
  BY <1>1, NextFits DEF IInv
<1>4. \/ req' = [req EXCEPT ![r].pc = "done", ![r].ok = FALSE] /\ UNCHANGED <<lastAlert, raised>>
      \/ req' = [req EXCEPT ![r] = Published(NextItem(r))] /\ UNCHANGED <<lastAlert, raised>>
      \/ /\ rule # ""
         /\ \E suppressed \in BOOLEAN :
              /\ throttle(c, suppressed)
              /\ req' = [req EXCEPT ![r] = Published(IF suppressed THEN NextItem(r) ELSE warn(r, c))]
  BY DEF Item
<1> HIDE DEF reading, rule
<1>5. CASE req' = [req EXCEPT ![r].pc = "done", ![r].ok = FALSE] /\ UNCHANGED <<lastAlert, raised>>
  <2> DEFINE n == [q EXCEPT !.pc = "done", !.ok = FALSE]
  <2>1. req' = [req EXCEPT ![r] = n]
    BY <1>5 DEF IInv, ReqInv
  <2> HIDE DEF q
  <2>2. n \in Requests /\ n.pc = "done" /\ n.ok = FALSE /\ n.stored = q.stored /\ n.batch = q.batch
    BY <1>1 DEF Requests
  <2> HIDE DEF n
  <2>3. Fits(n)
    BY <1>1, <2>2, LenProperties DEF Fits, Requests
  <2> QED BY <1>5, <2>1, <2>2, <2>3, ReqSet DEF IInv, ThrottleInv
<1>6. CASE req' = [req EXCEPT ![r] = Published(NextItem(r))] /\ UNCHANGED <<lastAlert, raised>>
  BY <1>3, <1>6, ReqSet DEF IInv, ThrottleInv
<1>7. ASSUME rule # "", NEW suppressed \in BOOLEAN, throttle(c, suppressed),
             req' = [req EXCEPT ![r] = Published(IF suppressed THEN NextItem(r) ELSE warn(r, c))]
      PROVE  ReqInv' /\ ThrottleInv'
  <2>1. c \in Conditions
    <3>1. rule \in Rules
      BY <1>7, BrokenIsRule DEF rule
    <3> QED BY <1>2, <3>1 DEF Conditions
  <2>2. ThrottleInv'
    BY <1>7, <2>1, ThrottleKeeps DEF IInv
  <2>3. Published(warn(r, c)) \in Requests /\ Fits(Published(warn(r, c)))
    <3> DEFINE n == [q EXCEPT !.pc = "alert", !.cond = c]
    <3>1. warn(r, c) = n
      BY DEF warn
    <3> HIDE DEF q, c
    <3>2. /\ n \in Requests /\ n.pc = "alert" /\ n.batch = q.batch /\ n.i = q.i
          /\ n.seen = q.seen /\ n.stored = q.stored /\ n.ok = q.ok
      BY <1>1, <2>1 DEF Requests
    <3>3. q.i \in Nat /\ q.seen = q.i - 1 /\ q.i \in 1 .. Len(q.batch)
      BY <1>1 DEF Requests, Fits
    <3> HIDE DEF n
    <3> QED BY <1>1, <3>1, <3>2, <3>3, PublishedIs DEF Fits
  <2>4. ReqInv'
    BY <1>3, <1>7, <2>3, ReqSet DEF IInv
  <2> QED BY <2>2, <2>4
<1> QED BY <1>4, <1>5, <1>6, <1>7

\* The end of Ingest: the batch is stored, or not, and the answer says which or is lost.
LEMMA InsertKeeps == ASSUME IInv, NEW r \in Reqs, Insert(r) PROVE ReqInv'
<1> DEFINE q == req[r]
<1>1. q \in Requests /\ Fits(q) /\ q.pc = "insert"
  BY DEF IInv, ReqInv, Insert
<1>2. PICK k \in {0, Len(q.batch)}, ok \in BOOLEAN :
        /\ req' = [req EXCEPT ![r] = [q EXCEPT !.pc = "done", !.stored = k, !.ok = ok]]
        /\ ok = TRUE => k = Len(q.batch)
  <2>1. CASE InsertRows(r)
    <3>1. q = [q EXCEPT !.ok = TRUE]
      BY <1>1 DEF Requests, Fits
    <3>2. [q EXCEPT !.pc = "done", !.stored = Len(q.batch)]
            = [q EXCEPT !.pc = "done", !.stored = Len(q.batch), !.ok = TRUE]
      BY <1>1 DEF Requests, Fits
    <3> QED BY <2>1, <3>2 DEF InsertRows, IInv, ReqInv
  <2>2. ASSUME NEW k \in {0, Len(q.batch)},
               req' = [req EXCEPT ![r].pc = "done", ![r].stored = k, ![r].ok = FALSE]
        PROVE  req' = [req EXCEPT ![r] = [q EXCEPT !.pc = "done", !.stored = k, !.ok = FALSE]]
    BY <2>2 DEF IInv, ReqInv
  <2> QED BY <2>1, <2>2 DEF Insert
<1> DEFINE n == [q EXCEPT !.pc = "done", !.stored = k, !.ok = ok]
<1> HIDE DEF q
<1>3. Len(q.batch) \in Nat /\ k \in Nat
  BY <1>1, <1>2, LenProperties DEF Requests
<1>4. /\ n \in Requests /\ n.pc = "done" /\ n.ok = ok /\ n.stored = k
      /\ n.batch = q.batch /\ n.seen = q.seen
  BY <1>1, <1>3 DEF Requests
<1>5. req' = [req EXCEPT ![r] = n]
  BY <1>2
<1> HIDE DEF n
<1>6. Fits(n)
  BY <1>1, <1>2, <1>3, <1>4 DEF Fits
<1> QED BY <1>4, <1>5, <1>6, ReqSet DEF IInv

\* A goroutine takes a step; only one that comes to a removal adds to the removals.
LEMMA PushSet ==
  ASSUME PushInv, NEW r \in Reqs, NEW g \in Goroutines, NEW x \in Pushes, Lists(x),
         push' = [push EXCEPT ![r][g] = x]
  PROVE  /\ PushInv'
         /\ \A u \in Users, t \in Tokens : Removing(u, t)' =>
              Removing(u, t) \/ (x.pc = "remove" /\ g[1] = u /\ t \in x.at)
<1>1. PushInv'
  BY DEF PushInv
<1>2. /\ push'[r][g] = x
      /\ \A q \in Reqs, h \in Goroutines : q # r \/ h # g => push'[q][h] = push[q][h]
  BY DEF PushInv
<1> QED BY <1>1, <1>2 DEF Removing

\* What becomes of a goroutine when it is done with a token.
LEMMA TriedIs ==
  ASSUME NEW p \in Pushes, NEW t, NEW answer
  PROVE  Tried(p, t, answer) \in Pushes /\ Lists(Tried(p, t, answer)) /\ Tried(p, t, answer).pc # "remove"
<1> DEFINE S == p.todo \ {t}
<1>1. S \in SUBSET Tokens
  BY DEF Pushes
<1>2. \/ S # {} /\ Tried(p, t, answer) = [pc |-> "send", todo |-> S, at |-> {}]
      \/ Tried(p, t, answer) = [pc |-> "off", todo |-> {}, at |-> {}]
  BY DEF Tried, Off
<1> HIDE DEF S
<1> QED BY <1>1, <1>2 DEF Pushes, PushPcs, Lists

\* Each goroutine lists the user's tokens and then tries them one by one, with the OAuth token
\* there is or a new one; none of this touches the table, and FCM called invalid what the
\* goroutine is going to remove.
LEMMA PushKeeps ==
  ASSUME IInv, NEW r \in Reqs, NEW g \in Goroutines,
         PushList(r, g) \/ Fetch(r, g) \/ Fetched(r, g) \/ PushSend(r, g)
  PROVE  PushInv' /\ TokenInv'
<1> DEFINE p == push[r][g]
<1>1. p \in Pushes /\ Lists(p) /\ g[1] \in Users
  BY DEF IInv, PushInv, Goroutines
<1>2. UNCHANGED <<tokens, wanted>>
  BY DEF PushList, Fetch, Fetched, PushSend
<1>3. ASSUME NEW x \in Pushes, Lists(x), x.pc # "remove", push' = [push EXCEPT ![r][g] = x],
             UNCHANGED disowned
      PROVE  PushInv' /\ TokenInv'
  <2>1. PushInv' /\ \A u \in Users, t \in Tokens : Removing(u, t)' => Removing(u, t)
    BY <1>3, PushSet DEF IInv
  <2> QED BY <1>2, <1>3, <2>1 DEF IInv, TokenInv
<1>4. CASE PushList(r, g)
  <2> DEFINE S == tokens[g[1]]
             sent == [Off EXCEPT !.pc = "send", !.todo = S]
  <2>1. S \in SUBSET Tokens
    BY <1>1 DEF IInv, TokenInv
  <2>2. (S # {} /\ push' = [push EXCEPT ![r][g] = sent]) \/ push' = [push EXCEPT ![r][g] = Off]
    BY <1>4 DEF PushList, ListByUser
  <2>3. UNCHANGED disowned
    BY <1>4 DEF PushList
  <2> HIDE DEF S
  <2>4. /\ S # {} => sent \in Pushes /\ Lists(sent) /\ sent.pc # "remove"
        /\ Off \in Pushes /\ Lists(Off) /\ Off.pc # "remove"
    BY <2>1 DEF Pushes, PushPcs, Lists, Off
  <2> HIDE DEF sent
  <2> QED BY <1>3, <2>2, <2>3, <2>4
<1>5. ASSUME p.pc \in {"send", "fetch"}, NEW pc \in {"fetch", "post"},
             push' = [push EXCEPT ![r][g].pc = pc], UNCHANGED disowned
      PROVE  PushInv' /\ TokenInv'
  <2> DEFINE x == [p EXCEPT !.pc = pc]
  <2>1. push' = [push EXCEPT ![r][g] = x]
    BY <1>5 DEF IInv, PushInv
  <2> HIDE DEF p
  <2>2. x \in Pushes /\ Lists(x) /\ x.pc # "remove"
    BY <1>1, <1>5 DEF Pushes, PushPcs, Lists
  <2> HIDE DEF x
  <2> QED BY <1>3, <1>5, <2>1, <2>2
<1>6. CASE Fetch(r, g)
  BY <1>5, <1>6 DEF Fetch
<1>7. CASE Fetched(r, g)
  <2>1. UNCHANGED disowned /\ p.pc = "fetch"
    BY <1>7 DEF Fetched
  <2>2. CASE push' = [push EXCEPT ![r][g].pc = "post"]
    BY <1>5, <2>1, <2>2
  <2>3. ASSUME NEW t, push' = [push EXCEPT ![r][g] = Tried(p, t, "error")]
        PROVE  PushInv' /\ TokenInv'
    BY <1>1, <1>3, <2>1, <2>3, TriedIs
  <2> QED BY <1>7, <2>2, <2>3 DEF Fetched
<1>8. CASE PushSend(r, g)
  <2>1. PICK t \in p.todo, answer \in Answers(r) :
          /\ push' = [push EXCEPT ![r][g] =
                         IF Removable(answer) THEN [@ EXCEPT !.pc = "remove", !.at = {t}]
                         ELSE Tried(@, t, answer)]
          /\ disowned' = IF answer = "invalid" THEN disowned \cup ({<<g[1], t>>} \cap wanted)
                         ELSE disowned
    BY <1>8 DEF PushSend
  <2>2. t \in Tokens
    BY <1>1 DEF Pushes
  <2>3. CASE answer # "invalid"
    <3>1. push' = [push EXCEPT ![r][g] = Tried(p, t, answer)] /\ UNCHANGED disowned
      BY <2>1, <2>3 DEF Removable, IInv, PushInv
    <3> QED BY <1>1, <1>3, <3>1, TriedIs
  <2>4. CASE answer = "invalid"
    <3> DEFINE x == [p EXCEPT !.pc = "remove", !.at = {t}]
    <3>1. push' = [push EXCEPT ![r][g] = x]
      BY <2>1, <2>4 DEF Removable, IInv, PushInv
    <3>2. disowned' = disowned \cup ({<<g[1], t>>} \cap wanted)
      BY <2>1, <2>4
    <3> HIDE DEF p
    <3>3. x \in Pushes /\ Lists(x) /\ x.at = {t}
      BY <1>1, <2>1, <2>2 DEF Pushes, PushPcs, Lists
    <3> HIDE DEF x
    <3>4. /\ PushInv'
          /\ \A u \in Users, o \in Tokens : Removing(u, o)' => Removing(u, o) \/ (g[1] = u /\ o = t)
      BY <3>1, <3>3, PushSet DEF IInv
    <3> QED BY <1>2, <3>2, <3>4 DEF IInv, TokenInv
  <2> QED BY <2>3, <2>4
<1> QED BY <1>4, <1>6, <1>7, <1>8

\* A removal takes away what FCM called invalid, and nothing else.
LEMMA RemoveKeeps ==
  ASSUME IInv, NEW r \in Reqs, NEW g \in Goroutines, Remove(r, g)
  PROVE  PushInv' /\ TokenInv'
<1> DEFINE p == push[r][g]
<1>1. p \in Pushes /\ g[1] \in Users
  BY DEF IInv, PushInv, Goroutines
<1>2. PICK t \in p.at : /\ push' = [push EXCEPT ![r][g] = Tried(p, t, "invalid")]
                        /\ UNCHANGED tokens \/ tokens' = [tokens EXCEPT ![g[1]] = @ \ {t}]
  BY DEF Remove, DeleteByToken, IInv, PushInv
<1>3. t \in Tokens /\ Removing(g[1], t) /\ UNCHANGED <<wanted, disowned>>
  BY <1>1 DEF Remove, Removing, Pushes
<1>4. PushInv' /\ \A u \in Users, o \in Tokens : Removing(u, o)' => Removing(u, o)
  <2> HIDE DEF p
  <2>1. LET x == Tried(p, t, "invalid") IN x \in Pushes /\ Lists(x) /\ x.pc # "remove"
    BY <1>1, TriedIs
  <2> QED BY <1>2, <2>1, PushSet DEF IInv
<1>5. tokens' \in [Users -> SUBSET Tokens]
  BY <1>1, <1>2 DEF IInv, TokenInv
<1>6. \A u \in Users : \A o \in tokens[u] : o \in tokens'[u] \/ (u = g[1] /\ o = t)
  BY <1>1, <1>2 DEF IInv, TokenInv
<1> QED BY <1>3, <1>4, <1>5, <1>6 DEF IInv, TokenInv

\* Registration and logout keep table and wishes in step.
LEMMA UsersKeepTokens ==
  ASSUME IInv, NEW u \in Users, NEW t \in Tokens, Register(u, t) \/ Unregister(u, t)
  PROVE  TokenInv'
<1>1. \A v \in Users, o \in Tokens : Removing(v, o)' <=> Removing(v, o)
  BY DEF Register, Unregister, Removing
<1>2. CASE Register(u, t)
  <2>1. /\ tokens' = [tokens EXCEPT ![u] = @ \cup {t}] /\ wanted' = wanted \cup {<<u, t>>}
        /\ disowned' = IF Removing(u, t) THEN disowned \cup {<<u, t>>} ELSE disowned \ {<<u, t>>}
    BY <1>2 DEF Register, Save
  <2>2. \A v \in Users, o \in Tokens : <<v, o>> = <<u, t>> <=> v = u /\ o = t
    OBVIOUS
  <2>3. tokens' \in [Users -> SUBSET Tokens] /\ t \in tokens'[u]
        /\ \A v \in Users : \A o \in tokens[v] : o \in tokens'[v]
    BY <2>1 DEF IInv, TokenInv
  <2>4. wanted' \subseteq Users \X Tokens /\ disowned' \subseteq wanted'
    BY <2>1 DEF IInv, TokenInv
  <2> QED BY <1>1, <2>1, <2>2, <2>3, <2>4 DEF IInv, TokenInv
<1>3. CASE Unregister(u, t)
  <2>1. /\ tokens' = [tokens EXCEPT ![u] = @ \ {t}] /\ wanted' = wanted \ {<<u, t>>}
        /\ disowned' = disowned \ {<<u, t>>}
    BY <1>3 DEF Unregister, DeleteByToken
  <2>2. \A v \in Users, o \in Tokens : <<v, o>> = <<u, t>> <=> v = u /\ o = t
    OBVIOUS
  <2>3. tokens' \in [Users -> SUBSET Tokens]
        /\ \A v \in Users : \A o \in tokens[v] : o \in tokens'[v] \/ (v = u /\ o = t)
    BY <2>1 DEF IInv, TokenInv
  <2>4. wanted' \subseteq Users \X Tokens /\ disowned' \subseteq wanted'
    BY <2>1 DEF IInv, TokenInv
  <2> QED BY <1>1, <2>1, <2>2, <2>3, <2>4 DEF IInv, TokenInv
<1> QED BY <1>2, <1>3

\* Unread rows are counted up to MaxUnread by every statement on the table.
LEMMA UnreadKeeps ==
  ASSUME UnreadInv,
         \/ \E members \in Members : CreateBatch(members)
         \/ \E u \in Users : MarkRow(u) \/ MarkAllRows(u)
  PROVE  UnreadInv'
BY NotifyConstants DEF UnreadInv, CreateBatch, MarkRow, MarkAllRows

\* Every step keeps the inductive invariant.
LEMMA StepInv == IInv /\ [Next]_vars => IInv'
<1> SUFFICES ASSUME IInv, [Next]_vars PROVE IInv'
  OBVIOUS
<1>1. ASSUME NEW r \in Reqs, ingest(r) PROVE IInv'
  <2>1. PICK batch \in Batches :
          req' = [req EXCEPT ![r] = [Done EXCEPT !.pc = "item", !.batch = batch, !.i = 1]]
    BY <1>1 DEF ingest
  <2> DEFINE n == [Done EXCEPT !.pc = "item", !.batch = batch, !.i = 1]
  <2>2. batch \in Seq(Readings) /\ batch # <<>> /\ Len(batch) \in Nat /\ 1 \in 1 .. Len(batch)
    BY NotifyConstants, EmptySeq, LenProperties
  <2>3. /\ n \in Requests /\ n.pc = "item" /\ n.batch = batch /\ n.i = 1
        /\ n.seen = 0 /\ n.stored = 0 /\ n.ok = TRUE
    BY <2>2 DEF Done, Requests
  <2> HIDE DEF n
  <2>4. Fits(n)
    BY <2>2, <2>3 DEF Fits
  <2>5. req' = [req EXCEPT ![r] = n]
    BY <2>1 DEF n
  <2>6. ReqInv'
    BY <2>3, <2>4, <2>5, ReqSet DEF IInv
  <2> QED BY <1>1, <2>6 DEF ingest, IInv, PushInv, ThrottleInv, UnreadInv, TokenInv, Removing
<1>2. ASSUME NEW r \in Reqs, OnDeviceStateChange(r) PROVE IInv'
  <2>1. PICK d \in Devices, suppressed \in BOOLEAN :
          /\ throttle(<<d, "device_offline">>, suppressed)
          /\ req' = [req EXCEPT ![r] =
               IF suppressed THEN Done
               ELSE [Done EXCEPT !.pc = "alert", !.cond = <<d, "device_offline">>]]
    BY <1>2 DEF OnDeviceStateChange
  <2> DEFINE c == <<d, "device_offline">>
             n == [Done EXCEPT !.pc = "alert", !.cond = c]
  <2>2. c \in Conditions
    BY DEF Conditions, Rules
  <2>3. ThrottleInv'
    BY <2>1, <2>2, ThrottleKeeps DEF IInv
  <2> HIDE DEF c
  <2>4. /\ n \in Requests /\ n.pc = "alert" /\ n.batch = <<>> /\ n.stored = 0 /\ n.ok = TRUE
    BY <2>2, EmptySeq DEF Done, Requests
  <2>5. req' = [req EXCEPT ![r] = Done] \/ req' = [req EXCEPT ![r] = n]
    BY <2>1 DEF c
  <2> HIDE DEF n
  <2>6. ReqInv'
    BY <2>4, <2>5, DoneFits, ReqSet DEF Fits, IInv
  <2> QED BY <1>2, <2>3, <2>6 DEF OnDeviceStateChange, IInv, PushInv, UnreadInv, TokenInv, Removing
<1>3. ASSUME NEW r \in Reqs, Item(r) PROVE IInv'
  BY <1>3, ItemKeeps DEF Item, IInv, PushInv, UnreadInv, TokenInv, Removing
<1>4. ASSUME NEW r \in Reqs, Insert(r) PROVE IInv'
  BY <1>4, InsertKeeps DEF Insert, IInv, PushInv, ThrottleInv, UnreadInv, TokenInv, Removing
<1>5. ASSUME NEW r \in Reqs, CreateForClassroom(r) PROVE IInv'
  <2>1. ReqInv'
    BY <1>5, NextFits, ReqSet DEF CreateForClassroom, IInv
  <2>2. UnreadInv'
    BY <1>5, UnreadKeeps DEF CreateForClassroom, IInv, UnreadInv
  <2>3. PushInv' /\ \A u \in Users, t \in Tokens : Removing(u, t)' => Removing(u, t)
    <3>1. CASE UNCHANGED push
      BY <3>1 DEF IInv, PushInv, Removing
    <3>2. ASSUME NEW members \in SUBSET Users,
                 push' = [push EXCEPT ![r] = [g \in Goroutines |->
                            IF g[1] \in members /\ g[2] = req[r].i
                            THEN [Off EXCEPT !.pc = "list"] ELSE @[g]]]
          PROVE  PushInv' /\ \A u \in Users, t \in Tokens : Removing(u, t)' => Removing(u, t)
      <4> DEFINE start == [Off EXCEPT !.pc = "list"]
                 new(g) == g[1] \in members /\ g[2] = req[r].i
      <4>1. start \in Pushes /\ Lists(start) /\ start.pc # "remove"
        BY DEF Off, Pushes, PushPcs, Lists
      <4> HIDE DEF start, new
      <4>2. push' = [push EXCEPT ![r] = [g \in Goroutines |-> IF new(g) THEN start ELSE push[r][g]]]
        BY <3>2 DEF IInv, PushInv, start, new
      <4>3. \A q \in Reqs, g \in Goroutines : push'[q][g] \in {start, push[q][g]}
        BY <4>2 DEF IInv, PushInv
      <4>4. PushInv'
        BY <4>1, <4>2 DEF IInv, PushInv
      <4> QED BY <4>1, <4>3, <4>4 DEF Removing
    <3> QED BY <1>5, <3>1, <3>2 DEF CreateForClassroom, Members
  <2>4. TokenInv'
    BY <1>5, <2>3 DEF CreateForClassroom, IInv, TokenInv
  <2> QED BY <1>5, <2>1, <2>2, <2>3, <2>4 DEF CreateForClassroom, IInv, ThrottleInv
<1>6. ASSUME NEW r \in Reqs, NEW g \in Goroutines,
             PushList(r, g) \/ Fetch(r, g) \/ Fetched(r, g) \/ PushSend(r, g)
      PROVE  IInv'
  <2>1. UNCHANGED <<req, lastAlert, raised, unread>>
    BY <1>6 DEF PushList, Fetch, Fetched, PushSend
  <2> QED BY <1>6, <2>1, PushKeeps DEF IInv, ReqInv, ThrottleInv, UnreadInv
<1>7. ASSUME NEW r \in Reqs, NEW g \in Goroutines, Remove(r, g) PROVE IInv'
  BY <1>7, RemoveKeeps DEF Remove, IInv, ReqInv, ThrottleInv, UnreadInv
<1>8. ASSUME NEW u \in Users, MarkRead(u) \/ MarkAllRead(u) PROVE IInv'
  BY <1>8, UnreadKeeps DEF MarkRead, MarkAllRead, IInv, ReqInv, PushInv, ThrottleInv, TokenInv, Removing
<1>9. ASSUME NEW u \in Users, NEW t \in Tokens, Register(u, t) \/ Unregister(u, t) PROVE IInv'
  BY <1>9, UsersKeepTokens DEF Register, Unregister, IInv, ReqInv, PushInv, ThrottleInv, UnreadInv
<1>10. ASSUME NEW k \in Conditions, Cool(k) PROVE IInv'
  <2>1. ThrottleInv'
    BY <1>10 DEF Cool, Key, IInv, ThrottleInv
  <2> QED BY <1>10, <2>1 DEF Cool, IInv, ReqInv, PushInv, UnreadInv, TokenInv, Removing
<1>11. CASE UNCHANGED vars
  BY <1>11 DEF vars, IInv, ReqInv, PushInv, ThrottleInv, UnreadInv, TokenInv, Removing
<1> QED BY <1>1, <1>2, <1>3, <1>4, <1>5, <1>6, <1>7, <1>8, <1>9, <1>10, <1>11 DEF Next, Work

\* The inductive invariant holds in every reachable state.
LEMMA Invariance == Spec => []IInv
BY InitInv, StepInv, PTL DEF Spec

\* However many requests see a condition at once, at most one alert of it goes out per
\* cooldown, and a condition is suppressed only if its own alert went out.
THEOREM AlwaysThrottled == Spec => []AlertsThrottled
<1>1. IInv => AlertsThrottled
  BY DEF IInv, ThrottleInv, AlertsThrottled, Key
<1> QED BY <1>1, Invariance, PTL

\* A batch of readings is stored as a whole or not at all, all of it was published if it is,
\* and a caller who is not told of an error finds it stored: lost answers included.
THEOREM BatchesWhole == Spec => []BatchWhole
<1>1. IInv => BatchWhole
  BY DEF IInv, ReqInv, Requests, Fits, BatchWhole
<1> QED BY <1>1, Invariance, PTL

\* No order of failing pushes, fetches of OAuth tokens, removals and registrations drops a
\* registered token, unless FCM called it invalid.
THEOREM TokensAlwaysStay == Spec => []TokensStay
<1>1. IInv => TypeOK
  BY DEF IInv, ReqInv, Requests, Fits, PushInv, Lists, ThrottleInv, UnreadInv, TokenInv, TypeOK
<1>2. IInv => \A w \in wanted : w[2] \in tokens[w[1]] \/ w \in disowned
  <2> SUFFICES ASSUME IInv, NEW w \in wanted PROVE w[2] \in tokens[w[1]] \/ w \in disowned
    OBVIOUS
  <2>1. w \in Users \X Tokens /\ w = <<w[1], w[2]>> /\ w[1] \in Users /\ w[2] \in Tokens
    BY DEF IInv, TokenInv
  <2> QED BY <2>1 DEF IInv, TokenInv
<1> QED BY <1>1, <1>2, Invariance, PTL DEF TokensStay
=============================================================================
