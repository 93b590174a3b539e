------------------------------- MODULE Notify -------------------------------
(***************************************************************************)
(* Sensor readings and devices that go offline raise alerts: the rule      *)
(* engine throttles them, a notification is stored for every member of the *)
(* classroom, and a goroutine per notification pushes it to the member's   *)
(* phones through Firebase (FCM).  The goroutines work under the context   *)
(* of the request that raised the alert, which dies with its response, and *)
(* share an OAuth token of the FCM client, which one of them renews while  *)
(* the others wait.  A request and its goroutines occupy one slot of Reqs; *)
(* the slot is free when all of them are done.  Time is left out but for   *)
(* the throttle: an entry is fresh until its cooldown has passed.          *)
(***************************************************************************)
EXTENDS FiniteSets, Naturals, Sequences

CONSTANTS
    Devices,    \* devices, all in one classroom
    Users,      \* people who may be members of it
    Tokens,     \* FCM tokens: an app's installation has one, and a new one has another
    Reqs,       \* requests in flight, with their goroutines
    Batches,    \* the batches of readings that devices send
    MaxBatch,   \* readings in a batch, at most
    HighWater,  \* entries of lastAlert beyond which the expired ones are evicted
    MaxUnread   \* unread notifications counted: MaxUnread stands for as many or more

Metrics == {"temperature", "humidity", "motion", "air_quality", "energy", "door"}
Readings == [dev : Devices, metric : STRING, value : Nat]

ASSUME NotifyConstants ==
    /\ Batches \subseteq Seq(Readings) \ {<<>>}
    /\ MaxBatch \in Nat /\ \A batch \in Batches : Len(batch) <= MaxBatch
    /\ HighWater \in Nat /\ MaxUnread \in Nat \ {0}

Rules == {"temperature_high", "temperature_low", "humidity_high", "device_offline"}
Conditions == Devices \X Rules

\* A goroutine: the user it pushes to, and the reading of the batch that raised the alert
\* (0 for a device that went offline).
Goroutines == Users \X (0 .. MaxBatch)

VARIABLES
    lastAlert,  \* Engine.lastAlert: "none", "fresh" or "old" per key
    unread,     \* per user: unread rows of the notifications table
    tokens,     \* the device_tokens table: per user
    req,        \* requests
    push,       \* per request: its goroutines
    wanted,     \* history: what users registered and did not unregister
    disowned,   \* history: what of it FCM called invalid since it was last registered, or
                \* was being removed for that then
    raised      \* history, per condition: alerts let through in this cooldown (0..2)

vars == <<lastAlert, unread, tokens, req, push, wanted, disowned, raised>>

Done == [pc |-> "done", batch |-> <<>>, i |-> 0, cond |-> <<>>,
         seen |-> 0, stored |-> 0, ok |-> TRUE]
Off == [pc |-> "off", todo |-> {}, at |-> {}]

Init ==
    /\ lastAlert = [k \in Conditions |-> "none"]
    /\ unread = [u \in Users |-> 0]
    /\ tokens = [u \in Users |-> {}]
    /\ req = [r \in Reqs |-> Done]
    /\ push = [r \in Reqs |-> [g \in Goroutines |-> Off]]
    /\ wanted = {} /\ disowned = {}
    /\ raised = [c \in Conditions |-> 0]

Free(r) == req[r].pc = "done" /\ \A g \in Goroutines : push[r][g] = Off

-----------------------------------------------------------------------------
(* The rule engine.                                                        *)

\* The rule a reading breaks, "" if none; the thresholds of DefaultRules.
Broken(reading) ==
    CASE reading.metric = "temperature" /\ reading.value > 30 -> "temperature_high"
      [] reading.metric = "temperature" /\ reading.value < 14 -> "temperature_low"
      [] reading.metric = "humidity" /\ reading.value > 80 -> "humidity_high"
      [] OTHER -> ""

\* The key of the throttle: the device and the rule.
Key(c) == c

\* Mutant: eviction takes the entries that are not expired, too.
Evicted_All(k) ==
    LET entries == [lastAlert EXCEPT ![k] = "fresh"] IN
    IF Cardinality({q \in Conditions : entries[q] # "none"}) <= HighWater THEN entries
    ELSE [q \in Conditions |-> IF q = k THEN "fresh" ELSE "none"]

\* The entry of key k is new; beyond the high-water mark the expired ones go.
Evicted(k) ==
    LET entries == [lastAlert EXCEPT ![k] = "fresh"] IN
    IF Cardinality({q \in Conditions : entries[q] # "none"}) <= HighWater THEN entries
    ELSE [q \in Conditions |-> IF entries[q] = "old" THEN "none" ELSE entries[q]]

\* The alert for condition c is suppressed, or let through and remembered, before anyone
\* is notified.
throttle(c, suppressed) ==
    IF lastAlert[Key(c)] = "fresh"
    THEN suppressed /\ UNCHANGED <<lastAlert, raised>>
    ELSE /\ ~suppressed
         /\ lastAlert' = Evicted(Key(c))
         /\ raised' = [raised EXCEPT ![c] = IF @ = 2 THEN 2 ELSE @ + 1]

\* The request goes on to notify the classroom of condition c.
warn(r, c) == [req[r] EXCEPT !.pc = "alert", !.cond = c]

\* The cooldown of an entry is over.
Cool(k) ==
    /\ lastAlert[k] = "fresh"
    /\ lastAlert' = [lastAlert EXCEPT ![k] = "old"]
    /\ raised' = [c \in Conditions |-> IF Key(c) = k THEN 0 ELSE raised[c]]
    /\ UNCHANGED <<unread, tokens, req, push, wanted, disowned>>

-----------------------------------------------------------------------------
(* Requests: a batch of readings, or a command that finds a device offline. *)

ingest(r) ==
    /\ Free(r)
    /\ \E batch \in Batches :
         req' = [req EXCEPT ![r] = [Done EXCEPT !.pc = "item", !.batch = batch, !.i = 1]]
    /\ UNCHANGED <<lastAlert, unread, tokens, push, wanted, disowned, raised>>

\* The request with the rest of Ingest's loop before it: the next reading, or the insertion.
NextItem(r) ==
    IF req[r].batch = <<>> THEN Done
    ELSE IF req[r].i = Len(req[r].batch) THEN [req[r] EXCEPT !.pc = "insert", !.cond = <<>>]
    ELSE [req[r] EXCEPT !.pc = "item", !.i = @ + 1, !.cond = <<>>]

\* The request has published one more reading.
Published(q) == [q EXCEPT !.seen = @ + 1]

\* Mutant: the readings up to the one that is refused are stored.
Item_KeepFirst(r) ==
    LET reading == req[r].batch[req[r].i]  rule == Broken(reading) IN
    /\ req[r].pc = "item"
    /\ \/ /\ req' = [req EXCEPT ![r].pc = "done", ![r].ok = FALSE, ![r].stored = req[r].i - 1]
          /\ UNCHANGED <<lastAlert, raised>>
       \/ /\ rule = ""
          /\ req' = [req EXCEPT ![r] = Published(NextItem(r))]
          /\ UNCHANGED <<lastAlert, raised>>
       \/ /\ rule # ""
          /\ \E suppressed \in BOOLEAN :
               /\ throttle(<<reading.dev, rule>>, suppressed)
               /\ req' = [req EXCEPT ![r] =
                    Published(IF suppressed THEN NextItem(r) ELSE warn(r, <<reading.dev, rule>>))]
    /\ UNCHANGED <<unread, tokens, push, wanted, disowned>>

\* A reading of the batch: an unknown metric, or a device that is not there or not the
\* caller's, ends the request with nothing stored.  Otherwise it is published and, if it
\* breaks a rule that is not throttled, an alert is raised.
Item(r) ==
    LET reading == req[r].batch[req[r].i]  rule == Broken(reading) IN
    /\ req[r].pc = "item"
    /\ \/ /\ req' = [req EXCEPT ![r].pc = "done", ![r].ok = FALSE]
          /\ UNCHANGED <<lastAlert, raised>>
       \/ /\ reading.metric \in Metrics /\ rule = ""
          /\ req' = [req EXCEPT ![r] = Published(NextItem(r))]
          /\ UNCHANGED <<lastAlert, raised>>
       \/ /\ rule # ""
          /\ \E suppressed \in BOOLEAN :
               /\ throttle(<<reading.dev, rule>>, suppressed)
               /\ req' = [req EXCEPT ![r] =
                    Published(IF suppressed THEN NextItem(r) ELSE warn(r, <<reading.dev, rule>>))]
    /\ UNCHANGED <<unread, tokens, push, wanted, disowned>>

\* One INSERT statement for all readings of the batch.
InsertRows(r) == req' = [req EXCEPT ![r].pc = "done", ![r].stored = Len(req[r].batch)]

\* The end of Ingest.  An error may come although the rows are stored: the answer was lost.
Insert(r) ==
    /\ req[r].pc = "insert"
    /\ \/ InsertRows(r)
       \/ \E n \in {0, Len(req[r].batch)} :
            req' = [req EXCEPT ![r].pc = "done", ![r].stored = n, ![r].ok = FALSE]
    /\ UNCHANGED <<lastAlert, unread, tokens, push, wanted, disowned, raised>>

\* A command failed on a device that was online; its going online raises no alert.
OnDeviceStateChange(r) ==
    /\ Free(r)
    /\ \E d \in Devices, suppressed \in BOOLEAN :
         /\ throttle(<<d, "device_offline">>, suppressed)
         /\ req' = [req EXCEPT ![r] =
              IF suppressed THEN Done
              ELSE [Done EXCEPT !.pc = "alert", !.cond = <<d, "device_offline">>]]
    /\ UNCHANGED <<unread, tokens, push, wanted, disowned>>

-----------------------------------------------------------------------------
(* Notifications.                                                          *)

\* One INSERT for all members.
CreateBatch(members) ==
    unread' = [u \in Users |-> IF u \in members /\ unread[u] < MaxUnread
                               THEN unread[u] + 1 ELSE unread[u]]

\* Whoever the members are by now.
Members == SUBSET Users

\* The members are looked up, their notifications stored and published, and a goroutine
\* started for each; when the lookup or the insertion fails the engine only logs it.
CreateForClassroom(r) ==
    /\ req[r].pc = "alert"
    /\ \/ \E members \in Members :
            /\ CreateBatch(members)
            /\ push' = [push EXCEPT ![r] = [g \in Goroutines |->
                          IF g[1] \in members /\ g[2] = req[r].i
                          THEN [Off EXCEPT !.pc = "list"] ELSE @[g]]]
       \/ UNCHANGED <<unread, push>>
    /\ req' = [req EXCEPT ![r] = NextItem(r)]
    /\ UNCHANGED <<lastAlert, tokens, wanted, disowned, raised>>

\* One unread row of the user's is marked; MaxUnread may stand for more rows than that.
MarkRow(u) ==
    /\ unread[u] > 0
    /\ \E n \in {unread[u] - 1} \cup (IF unread[u] = MaxUnread THEN {MaxUnread} ELSE {}) :
         unread' = [unread EXCEPT ![u] = n]

\* A user reads a notification; one that is read already, or not the user's, is not found.
MarkRead(u) ==
    /\ MarkRow(u)
    /\ UNCHANGED <<lastAlert, tokens, req, push, wanted, disowned, raised>>

MarkAllRows(u) == unread' = [unread EXCEPT ![u] = 0]

MarkAllRead(u) ==
    /\ MarkAllRows(u)
    /\ UNCHANGED <<lastAlert, tokens, req, push, wanted, disowned, raised>>

-----------------------------------------------------------------------------
(* Push.                                                                   *)

\* The goroutine's context is the request's: dead once the handler has returned.
Dead(r) == req[r].pc = "done"

\* The statements on device_tokens: an upsert, a deletion and a query.
Save(u, t) == tokens' = [tokens EXCEPT ![u] = @ \cup {t}]
DeleteByToken(u, t) == tokens' = [tokens EXCEPT ![u] = @ \ {t}]
ListByUser(u) == tokens[u]

\* GetByUser; an error ends the goroutine.
PushList(r, g) ==
    /\ push[r][g].pc = "list"
    /\ \/ ~Dead(r) /\ ListByUser(g[1]) # {}
          /\ push' = [push EXCEPT ![r][g] = [Off EXCEPT !.pc = "send", !.todo = ListByUser(g[1])]]
       \/ push' = [push EXCEPT ![r][g] = Off]
    /\ UNCHANGED <<lastAlert, unread, tokens, req, wanted, disowned, raised>>

\* Some goroutine holds the client's mutex and fetches a new OAuth token.
Fetching == \E r \in Reqs, g \in Goroutines : push[r][g].pc = "fetch"

\* The OAuth token is missing or stale: the goroutine fetches one, under the mutex.
Fetch(r, g) ==
    /\ push[r][g].pc = "send" /\ ~Fetching
    /\ push' = [push EXCEPT ![r][g].pc = "fetch"]
    /\ UNCHANGED <<lastAlert, unread, tokens, req, wanted, disowned, raised>>

\* FCM's answer to a message: under a dead context none arrives.  Any 404 and any 400 that
\* says INVALID_ARGUMENT count as "invalid", of the token, the project or the message.
Answers(r) == {"error"} \cup (IF Dead(r) THEN {} ELSE {"ok", "invalid"})

\* Mutant: a token that could not be reached is tried again.
Tried_Again(p, t, answer) ==
    LET todo == IF answer = "error" THEN p.todo ELSE p.todo \ {t}
    IN  IF todo = {} THEN Off ELSE [Off EXCEPT !.pc = "send", !.todo = todo]

\* The goroutine p after token t: each is tried once, whatever became of the others.
Tried(p, t, answer) ==
    LET todo == p.todo \ {t}
    IN  IF todo = {} THEN Off ELSE [Off EXCEPT !.pc = "send", !.todo = todo]

\* The fetch ends: with a token, or an error, which is this message's.  It has no timeout
\* and does not heed the goroutine's context.
Fetched(r, g) ==
    /\ push[r][g].pc = "fetch"
    /\ \/ push' = [push EXCEPT ![r][g].pc = "post"]
       \/ \E t \in push[r][g].todo :
            push' = [push EXCEPT ![r][g] = Tried(push[r][g], t, "error")]
    /\ UNCHANGED <<lastAlert, unread, tokens, req, wanted, disowned, raised>>

\* Mutant: a token that could not be reached is taken for a dead one.
Removable_AnyError(answer) == answer # "ok"

Removable(answer) == answer = "invalid"

\* One token is tried, with the OAuth token that is there or was fetched; one that FCM
\* disowns is to be deleted.
PushSend(r, g) ==
    /\ push[r][g].pc = "post" \/ (push[r][g].pc = "send" /\ ~Fetching)
    /\ \E t \in push[r][g].todo : \E answer \in Answers(r) :
         /\ push' = [push EXCEPT ![r][g] =
                        IF Removable(answer) THEN [@ EXCEPT !.pc = "remove", !.at = {t}]
                        ELSE Tried(@, t, answer)]
         /\ disowned' = IF answer = "invalid" THEN disowned \cup ({<<g[1], t>>} \cap wanted)
                        ELSE disowned
    /\ UNCHANGED <<lastAlert, unread, tokens, req, wanted, raised>>

\* The deletion, which may fail.
Remove(r, g) ==
    /\ push[r][g].pc = "remove"
    /\ \E t \in push[r][g].at :
         /\ push' = [push EXCEPT ![r][g] = Tried(@, t, "invalid")]
         /\ UNCHANGED tokens \/ DeleteByToken(g[1], t)
    /\ UNCHANGED <<lastAlert, unread, req, wanted, disowned, raised>>

\* A goroutine is about to delete the user's token t.
Removing(u, t) ==
    \E r \in Reqs, g \in Goroutines : g[1] = u /\ push[r][g].pc = "remove" /\ t \in push[r][g].at

\* The app registers its token, again and again.
Register(u, t) ==
    /\ Save(u, t)
    /\ wanted' = wanted \cup {<<u, t>>}
    /\ disowned' = IF Removing(u, t) THEN disowned \cup {<<u, t>>} ELSE disowned \ {<<u, t>>}
    /\ UNCHANGED <<lastAlert, unread, req, push, raised>>

\* At logout.
Unregister(u, t) ==
    /\ DeleteByToken(u, t)
    /\ wanted' = wanted \ {<<u, t>>}
    /\ disowned' = disowned \ {<<u, t>>}
    /\ UNCHANGED <<lastAlert, unread, req, push, raised>>

-----------------------------------------------------------------------------
\* The steps of a request and its goroutines, but for the end of a fetch.
Work(r) ==
    \/ Item(r) \/ Insert(r) \/ CreateForClassroom(r)
    \/ \E g \in Goroutines : PushList(r, g) \/ Fetch(r, g) \/ PushSend(r, g) \/ Remove(r, g)

Next ==
    \/ \E r \in Reqs : ingest(r) \/ OnDeviceStateChange(r) \/ Work(r)
    \/ \E r \in Reqs, g \in Goroutines : Fetched(r, g)
    \/ \E u \in Users : MarkRead(u) \/ MarkAllRead(u)
    \/ \E u \in Users, t \in Tokens : Register(u, t) \/ Unregister(u, t)
    \/ \E k \in Conditions : Cool(k)

\* Requests and goroutines run: every database call returns, FCM answers or the client's
\* timeout ends the call, and the mutex of the client starves nobody who waits for it again
\* and again (strong fairness; sync.Mutex hands over to one that has waited).  Nothing is
\* said of a fetch: no timeout ends it.
Fairness == \A r \in Reqs : SF_vars(Work(r))

Spec == Init /\ [][Next]_vars /\ Fairness

-----------------------------------------------------------------------------
(* Properties.                                                             *)

\* Types; notification.Engine, notification.Service, devicetoken.Service.
TypeOK ==
    /\ lastAlert \in [Conditions -> {"none", "fresh", "old"}]
    /\ unread \in [Users -> 0..MaxUnread]
    /\ tokens \in [Users -> SUBSET Tokens]
    /\ \A r \in Reqs :
         /\ req[r].pc \in {"done", "item", "alert", "insert"}
         /\ req[r].pc \in {"item", "insert"} => req[r].i \in 1..Len(req[r].batch)
         /\ \A g \in Goroutines : push[r][g].pc \notin {"off", "list"} <=> push[r][g].todo # {}
    /\ wanted \subseteq Users \X Tokens /\ disowned \subseteq wanted

\* However many requests see a condition at once, one alert of it goes out per cooldown,
\* evicted entries notwithstanding; and a condition is suppressed only because an alert of
\* that very condition is under way or ended in this cooldown.  (It may have ended in
\* failure: the throttle is set before the notifications are stored, so a failed insertion
\* silences the condition for as long.)  Engine.throttle and OnSensorReading.
AlertsThrottled ==
    \A c \in Conditions :
        raised[c] <= 1 /\ (lastAlert[Key(c)] = "fresh" => raised[c] = 1)

\* The readings of a request that is over are all stored or none is, a caller that is told
\* so finds them all stored and published, and no reading is stored that subscribers were not
\* told of.  The converse fails: they may be told of readings, and users alerted to them, that
\* are not stored in the end; and a caller may be told of an error after all of them are.
\* sensor.Service.Ingest.
BatchWhole ==
    \A r \in Reqs :
      LET all == Len(req[r].batch) IN
      req[r].pc = "done" =>
        /\ req[r].stored \in {0, all}
        /\ req[r].ok => req[r].stored = all
        /\ req[r].stored = all => req[r].seen = all

\* A token that its user registered is dropped from the table only if FCM called it invalid
\* since, or did before and the removal was still to come (a token registered again then is
\* lost): no other failure of a push, and no order of pushes, removals and registrations,
\* costs a user a token.  NotificationPusher.Send.
TokensStay ==
    TypeOK /\ \A w \in wanted : w[2] \in tokens[w[1]] \/ w \in disowned

\* Every request ends and so do its goroutines, unless a fetch of the OAuth token hangs: a
\* token that cannot be reached is skipped.  The cap of ten seconds that sendPush sets is no
\* part of this, as accessToken does not heed it: one hanging fetch keeps every push waiting.
\* NotificationPusher.Send, sendPush, Client.accessToken.
Drains == ([]<>~Fetching) => \A r \in Reqs : ~Free(r) ~> Free(r)

\* A push that its request started can still reach a phone whatever the request does, as
\* the comment on CreateForUser says: "push fan-out intentionally outlives the request
\* scope: the HTTP 201 must return immediately while FCM round-trips complete in the
\* background".  sendPush.
PushOutlivesRequest ==
    \A r \in Reqs, g \in Goroutines : push[r][g].todo # {} => "ok" \in Answers(r)
=============================================================================
