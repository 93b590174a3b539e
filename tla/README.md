# SmartClass: a TLA+ verification project

SmartClass is a Go backend (`src/backend`) and a Flutter application
(`src/mobile`) that run a smart classroom: accounts and sessions, classrooms,
devices behind drivers and Home Assistant, scenes, sensors, a timetable,
notifications, an audit log and live updates over WebSockets. This directory
holds TLA+ models of the backend's services, where concurrency, failure and
order decide correctness, the TLC configurations that check them, and TLAPS proofs of what
matters most.

## Inventory

| Component | State | Operations | Interacts with |
|---|---|---|---|
| auth sessions (`auth`, `platform/tokens`, purge in `cmd/server`) | `users`, `refresh_tokens` (used_at, revoked_at, expires_at), signed JWTs in clients' hands | Register, Login, Refresh (Parse, Status, MarkUsed, GetByID, issuePair), Logout, hourly purge | every authenticated handler through `Authn`; the mobile API client |
| schedule | `lessons` | Create, Update, Delete in a locking transaction; Week, Day, Current | classroom authorization |
| audit log | channel of 1024, batch of 64, `action_logs` | Record, run, Stop, FlushSync, List | called by devices; flushed by main at shutdown |
| WebSocket tickets | map of single-use entries | Issue, Consume, cleanup | ticket endpoint, WebSocket handler |
| WebSocket hub | maps byID and byTopic, a queue of 64 per client | Register, Unregister, Publish, read and write pump, shutdown | published to by devices, sensors, scenes, notifications |
| Home Assistant integration (`hass`) | credentials in memory and in Postgres, last flow per handler | Bootstrap (with retries), Credentials (refresh), SetToken, SelfCheck, StartFlow, StepFlow, AbortFlow, Adopt | devices, driver `homeassistant`, the HA REST and WebSocket API |
| devices | `devices` | Create, Update, Delete, Execute | drivers, hub, triggers, audit log |
| scenes | `scenes` | CRUD, Run | devices, hub |
| sensors | `sensor_readings` | Ingest, queries | devices, hub, triggers |
| notifications, triggers | `notifications`, throttle map | CreateForUser, CreateForClassroom, MarkRead, trigger rules | hub, push, classroom membership |
| push, device tokens | `device_tokens` | Register, Unregister, Send, pruning | FCM |
| classroom membership | `classrooms`, assignments | CRUD, Assign, Unassign, Authorize | guards every other service; a deletion takes devices, scenes and lessons with it |
| users | `users` | UpdateProfile, ChangePassword | auth |
| drivers, analytics, rate limiter, middleware, configuration, metrics, i18n | buckets per address (rate limiter), otherwise none | one HTTP call per command; read-only queries | |
| mobile API client and session | tokens in secure storage, one refresh in flight, waiting requests | request, handleUnauthorized, logout | auth sessions |
| mobile WebSocket client | socket, reconnect timer, back-off | connect, disconnect, reconnect | tickets, hub |
| mobile caches, base URL, push | offline cache, resolver, FCM token | | |

### What is hard

* **No locks around the auth service.** A refresh is six statements or steps;
  requests of the same user, a logout, the purge and a crash may come between
  any two. Only the WHERE clause of MarkUsed decides a race.
* **`SELECT ... FOR UPDATE` locks what exists.** The timetable's check runs at
  READ COMMITTED; rows that appear or move later are invisible to it, and
  transactions may wait for each other.
* **Goroutines and channels.** The audit log hands over from its goroutine to
  FlushSync while producers still hold the channel; Publish works on a copy of
  a set that changes; each connection is ended by whichever of two pumps
  notices first; `select` picks any ready case.
* **State used after a network call.** Home Assistant credentials, device rows
  and the mobile client's tokens are read, a remote call is made, and the copy
  is written back.

`PROJECT.json` lists each of these as a hazard, at its line, with the
properties that cover it.

### What makes each component correct

* *Sessions*: a refresh token is exchanged at most once; a session never has
  two redeemable tokens; a revoked or expired token is dead for good; a replay
  is noticed; every token in a client's hand can be revoked.
* *Schedule*: stored lessons are valid and do not overlap; what the check read
  still holds when the write commits; nobody waits for a lock for ever.
* *Audit log*: producers never wait; accepted entries are stored once, in
  order, or given up as a batch; shutdown ends and loses nothing it need not.
* *Tickets*: one upgrade per ticket; nothing stays in the map for ever.
* *Hub*: events reach only subscribers, once and in order; publishers never
  block; every connection is cleaned up.
* *Home Assistant*: one refresh per expiry; memory and database hold the same
  token; the bootstrap keeps trying as long as trying can help; a config flow
  that is pending is known, and one integration's start disturbs no other.
* *Devices, scenes*: the row, the events and the alerts agree with each other
  and with the device; a command and an edit do not undo each other; a scene
  tries all its steps and ends.
* *Sensors, notifications, push*: one alert per condition and cooldown; a batch
  is stored whole or not at all; a token is dropped only if FCM called it invalid.
* *Membership, users*: whoever acts on a classroom had the right to; what is
  listed is what may be opened; a password changes only at its owner's wish.
* *Mobile client*: one refresh at a time; every waiting request is answered;
  after a logout nothing uses old tokens; at most one socket and one timer.

## Modules

Each MC module extends a component's module and is what TLC is given with a
`.cfg`; each Proofs module extends it with theorems. `MCWs` and `MCHass` extend
two modules that share no state in the model, and `MCNotify` the two halves of
one module of which neither reads the other but for what starts a push: a
behaviour picks a `part` at its start, runs that part and leaves the other as it
was. So every state and step of either part is checked without their product.

### AuthSession (`MCAuthSession`, `AuthSessionProofs`)

Requests are processes; `pc` says which statement of its handler a request is
about to execute, and `tok`, `who`, `mint` are its locals (the presented jti,
the user, the new jti). The table `refresh_tokens` is the set `tracked` with
the subsets `used` and `revoked`; the claims of a JWT are `owner` and `iat`,
and the expiry follows from them. `Register` and `Login` lead to `Issue` and
`Track` (issuePair); a refresh goes through `RefreshParse`, `RefreshStatus`,
`RefreshIsLive`, `MarkUsed`, `RefreshGetUser`, `Issue`, `Track`, `Reply`. A
replay goes to `ReplayRevoke`, a logout to `LogoutRevoke`. A statement can fail
without effect (`StepError`), or take effect and report an error (the
parameters `ack` and `done`); a response can be lost (`Reply`); the server can
restart (`Restart`); the clock moves at any time (`Tick`).

The check of IsLive reads the clock after Status has read the row, and rows do
not change their expiry, so Status and IsLive are two steps on one row. The
user of a refresh is always found, because nothing deletes users.
`parent`, `root`, `stale`, `missed` and `quiet` are history: which token a token
was issued for, the login a session began with, whether a request presented a
redeemed token, the replays that went unnoticed, and the sessions a revocation
met while no rotation was in flight.

### Schedule (`MCSchedule`, `ScheduleProofs`)

One classroom's timetable. The handlers `create`, `update` and `delete` begin a
request; `Create` and `Update` are the service up to the repository call, and
`Update` works on a copy read outside the transaction. The
transaction is `Select` (the snapshot of the statement), `LockRow` per row
(waits for the lock and re-reads the row, as Postgres does at READ COMMITTED),
`CheckOverlap`, `WriteInsert` or `WriteUpdate`, and `Commit`; `Abort` is the
deferred rollback. `DeadlockAbort` is Postgres' deadlock detector, external to
the code. `phantoms` is history: pairs of lessons of which the later write did
not see the other.

### AuditTrail and AuditLog (`MCAuditLog`, `AuditLogProofs`)

`AuditTrail` is the promise: a FIFO of accepted entries from whose front whole
batches are stored or given up. `AuditLog` is the code: Record's two selects,
the goroutine `run` (`rpc`, `batch`), FlushSync (`fpc`, `fbuf`) and the end of
its context. It implements `AuditTrail` under the mapping
`pending <- batch \o fbuf \o buffer`.

### WsTickets (`MCWs`, `WsProofs`)

The map with its entries, the used flags, and one process per upgrade request
that goes through Load, the expiry check, the compare-and-swap and the
deletion, each atomic by itself. A request keeps an entry it has loaded after
the cleanup has deleted it.

### WsHub (`MCWs`, `WsProofs`)

The hub's maps change in one step under the lock; everything else interleaves:
Publish sends to its copy of the subscribers one by one, Unregister closes the
client after the lock is released, both pumps and the peer may end the
connection. A failed write on an open connection (its deadline) is included.

### HassCredentials (`MCHass`, `HassProofs`)

The access token for Home Assistant (`hass/service.go`, `client.go`,
`postgres.go`). Processes are the goroutine of BootstrapWithRetry, requests that
call Credentials, and administrators who call SetToken; `pc` is the step, `mu`
and `refreshMu` the holders of the two mutexes. `creds` and `row` are the token
in memory and in `hass_config`. Bootstrap is `BootLoad`, then `Resume` or
`Onboard`, `Login` or `Create` and `Exchange`, `FinishOnboarding`, `BootSave`,
all under `mu`; a refresh is `Credentials`, `LockRefresh`, `Recheck`,
`RefreshAccessToken`, `ApplyRefresh`, `Persist` (with retries); SetToken writes
the row (`SetSave`), then memory (`SetMem`). Home Assistant itself (`ha`: is
there an owner, is the password ours, what is left of the onboarding) is
external. Every call may fail before or after its effect; the backend may
restart at any point. `blip` and `drift` are history: a login that failed
although it could have worked, and writers of the token that overlapped.

### HassFlows (`MCHass`, `HassProofs`)

Config flows. `open` is what is pending in Home Assistant, `last` the map
lastFlowByHandler. StartFlow is `popLastFlow`, the scrub (`ScrubPrevious`,
`ScrubList`, `ScrubListed`), `StartCall`, a second round after a refusal, and
`rememberFlow`; the self-check starts a probe and aborts it (`ProbeStart`,
`ProbeAbort`). Flows also end by a step or by the user, are spawned by Home
Assistant itself, and are forgotten when either side restarts. `lost`,
`excused` and `spawns` are history, and say which flows and refusals have an
explanation.

### Drivers and DeviceControl (`MCDeviceControl`, `DeviceControlProofs`)

`Drivers` gives each driver as a function from a config and a command to the
call it makes and the status it infers. `DeviceControl` composes it with
`device` and `scene`: a request loads a row into `copy`, edits it or calls the
driver (`DriverAnswers`, `DriverRefuses`, `DriverFails`), writes some columns
(`UpdateRow`, `UpdateState`) and publishes (`shown`, `alert`). A scene runs
Execute step by step, and Adopt of a Home Assistant entity is a creation.
`told` is the vendor's side: the last call it carried out. A driver call that
fails may have had its effect. The homeassistant driver first asks the hass
service for the token (`CurrentToken`) and waits for it as long as that takes;
HassCredentials says how the wait ends. A statement may fail without effect, or
take effect and lose its answer, and `DeleteClassroom` removes devices and scenes
by ON DELETE CASCADE, without events. `drift` and `unsure` are history: requests
on a device overlapped, something could not be recorded, an answer was lost, or
the classroom was deleted.

### Notify (`MCNotify`, `NotifyProofs`)

Ingest of sensor readings (`Item` per reading, which publishes it and may raise an
alert, `Insert` for the batch, whose answer may be lost), the rule engine with its
throttle map `lastAlert`, CreateForClassroom, and one push goroutine per
notification, that is per member and alert of the batch (`PushList`, `PushSend`,
`Remove`), which lives under the request's context (`Dead`). The goroutines share
the FCM client's OAuth token: one that finds it stale holds the client's mutex
while it fetches another (`Fetch`, `Fetched`) and the others wait. FCM may call
any token invalid, since the client takes every 404 and every INVALID_ARGUMENT for
that. Users register and unregister tokens, cooldowns pass (`Cool`). History:
`wanted`, the registrations in force; `disowned`, those of them FCM called invalid
since; `raised`, the alerts of the current cooldown; and, in a request, how many
readings were published (`seen`).

### Access (`MCAccess`, `AccessProofs`)

`classroom` and `user`, and the authorization of WebSocket topics. A request is
authorized by two queries (`GetByID`, `IsMember`), per classroom it asks for,
and acts with a further statement. `right` is history: the classrooms the caller
had the right to at some instant since the request began; `left` remembers who
was unassigned.

## Runs

| Run | Checks | Instance and why it is enough |
|---|---|---|
| `auth_safety` | OneUnspentPerSession, QuietSessionsStayEnded, ReplayDetected, HeldTokensTracked, DeadTokensStayDead | one user, two requests, three tokens, clock up to 3: two requests are the races of the code (no step looks at a third), three tokens a login and two rotations or two sessions, the clock reaches expiry, leeway and grace. Symmetry in requests and tokens. |
| `schedule_safety` | OnlyPhantomsOverlap, NobodyStuck, NoSelfConflict | two lessons, two requests, two days of three minutes: the shortest day on which lessons can overlap without being equal and partial updates can be invalid; two rows and two transactions make a cycle of locks |
| `schedule_toctou` | NoOverlap is violated | as `schedule_safety` |
| `audit_log` | HandOver, FifoOfBatches, AcceptedSettle, FlushReturns | four entries, channel of two, batches of two: the channel fills, batches fill, and entries are left for both drains |
| `flush_ctx` | DrainIgnoresCtx is violated | as `audit_log` |
| `websocket` | OneUpgradePerTicket, ExpiredTicketsLeave, MapsAgree, WireInOrder, PublishNeverBlocks, ConnectionsCleanedUp, ShutdownEmptiesHub | tickets: three upgrades for two tickets, lifetime 1, clock up to 3. Hub: two clients, one topic some of them subscribe to, three publishers, queues of two: two messages stand in one queue while a third finds it full or stands in behind them, and stale copies occur. A third message is published only while there is one client |
| `hass` | AgreeUnlessDrift, GaveUpExplained, RefreshReplacesOld, BootstrapEnds, RequestsServed, PendingIsTracked, RefusalExplained, ScrubsOwnHandler | credentials: the bootstrap, a request and an administrator at once, two failures and a restart; three OAuth tokens (the one in memory, the one stored and the one being issued), drawn again when nothing refers to them; one onboarding step, two attempts to save. The three initial states are a fresh Home Assistant, somebody else's, and one we own but have no token for. Flows: two requests, two integrations, three flow ids, reused when nothing refers to them, with unbounded failures and restarts; while the second integration is in use one request and two ids, as calls for different integrations meet only in the list Home Assistant returns |
| `hass_giveup` | GivesUpForGood is violated | as `hass` |
| `device_control` | ShownMatchesRow, AlertsMatchOnline, RowMatchesDevice, SceneTriesEveryStep, WaitsOnlyForToken, WritesStayApart | one device, two requests (rows of different devices never meet), a scene of two steps that move a cover in opposite directions, a driver that can do this and one that cannot; one request at a time runs the scene, and scenes are created, edited and dropped before there is a device, because a run meets their rows only when it loads one. The drivers are compared over all configs and commands by an assumption of the MC module, which TLC evaluates |
| `notify` | AlertsThrottled, BatchWhole, TokensStay, Drains | two requests with their goroutines, one device, an alert map of at most one entry, so that eviction happens, and batches of two readings: at and above a threshold, twice above it, above one and below another. One part has all batches and no phones; the other has phones, two of one user with one request at a time or one with two, and batches that break one rule and are stored |
| `push_cut` | PushOutlivesRequest is violated | as `notify`, with one request and one phone |
| `access` | AccessJustified, ListsAgree, PasswordByOwner | an admin and a teacher, two requests, two classrooms (an upgrade asks for both), two passwords |

Each module's type invariant is a conjunct of an invariant of its run, or
a theorem (sessions, schedule, tickets). Deadlock is checked everywhere but for
the schedule, the tickets and the hub, which stop in the model when their ids,
tickets or messages are used up; that the schedule stops for no other reason is
NobodyStuck.

Every property has a mutant of the code that breaks it (a dropped WHERE
clause, a missing FOR UPDATE, a skipped wait, a whole row written back, ...):
the operators named `<Operation>_<What>` next to the operation.

### Comments that promise more than the code

Four runs show a comment of the code violated by a behaviour of it:

1. `schedule_toctou`: the locks do not prevent "the TOCTOU race where two
   concurrent Create calls both pass the application-level overlap check and
   then both INSERT": on a day without lessons there is nothing to lock.
2. `push_cut`: "push fan-out intentionally outlives the request scope", but the
   goroutine's context is derived from the request's, which ends with the
   response.
3. `flush_ctx`: "The ctx controls only the final Insert call, not the drain loop",
   but the loop selects on the context as well and may stop with entries in the
   channel.
4. `hass_giveup`: BootstrapWithRetry tries "until it succeeds or ctx is cancelled"
   and stops on "a permanent state that requires admin intervention", but one
   transient error of the login is taken for that state.

Four more are visible in what a property has to except:

5. WaitsOnlyForToken: "stepTimeout caps how long a single device command inside a
   scene may run", but a command through Home Assistant waits for the mutexes of the
   hass service, which its context does not end.
6. Drains: "The 10s cap is applied here ... so there is no goroutine leak", but the
   fetch of an OAuth token heeds no context, has no timeout, and makes all others
   wait.
7. TokensStay: ErrInvalidToken is for "UNREGISTERED or INVALID_ARGUMENT for the device
   token", but any 404 and any INVALID_ARGUMENT, of the project or the message,
   delete the token.
8. ListsAgree: creators are inserted "so they always appear in Members()", but can be
   unassigned.

### Exceptions the properties name

Some properties hold only with an exception, which is a behaviour of the code
worth knowing:

* QuietSessionsStayEnded: a refresh between MarkUsed and Track when RevokeUser
  runs inserts its new token afterwards, and that session survives a logout.
* ReplayDetected is about tokens that parse: Parse refuses an expired JWT
  before the row is looked at, so the grace period of the purge helps only
  within the leeway. MarkUsed also reports "already used" for a token that a
  concurrent logout revoked.
* AcceptedSettle: the end of FlushSync's context cuts its drain short and
  leaves entries behind.
* AgreeUnlessDrift: a refresh and a SetToken that overlap leave one token in
  memory and the other in the database until the next restart or refresh.
* GaveUpExplained: a login that fails for a passing reason is taken for
  somebody else's Home Assistant, and the background loop ends; requests still
  recover (RequestsServed).
* PendingIsTracked, RefusalExplained: two StartFlow calls for one integration
  that overlap leave one flow pending that nobody remembers.
* ShownMatchesRow, AlertsMatchOnline, RowMatchesDevice: overlapping requests on
  one device, failures that cannot be recorded because the step's timeout has
  ended the context, writes that took effect although an error came back (their
  event and alert are left out), and the deletion of the classroom (which has no
  event for its devices) part row, events and alerts. Events and rows recover
  with the next request that runs alone, alerts do not.
* AlertsThrottled: the throttle is set before the notification is stored, so a
  failed insertion silences the condition for the cooldown.
* BatchWhole: subscribers may have seen, and alerts been raised for, readings
  of a batch that was refused; and a caller who is told of an error may have had
  the whole batch stored, so that sending it again stores it twice.
* TokensStay: beside what is said above, a removal that FCM's answer led to may come
  after the app has registered the same token again, and then takes that away.
* ListsAgree: a creator who was unassigned keeps every right and does not see
  the classroom in the list. AccessJustified: a connection keeps its topics when
  its user loses the membership.

## Fairness

* *Audit log*: weak fairness of the goroutines, of a Record that has begun and
  of the ticker; strong fairness of the goroutine's `done` case, since Go's
  select chooses among ready cases at random. Insertions return. Nobody is
  obliged to call Record or FlushSync.
* *Tickets*: the cleanup ticker keeps running.
* *Hub*: weak fairness of publishers and read pumps; strong fairness of a write
  pump's exit, by the same property of select. Write pumps owe no progress:
  that Publish returns does not rest on clients that read.
* *Home Assistant credentials*: strong fairness of every process that is under
  way: calls end, by the client's timeout if not otherwise, and a Go mutex is
  handed to whoever has waited long. Failures and restarts are finitely many in
  a behaviour; the loop's promise is about what happens when they have ceased.
* *Notify*: strong fairness of each request with its goroutines: the database
  answers, FCM answers or the HTTP client's timeout ends the call, and the mutex
  around the OAuth token is handed to whoever has waited long. No fairness of the
  fetch itself (`Fetched`), which no timeout ends: Drains is about behaviours in
  which fetches end.
* *Schedule, devices*: none. NobodyStuck and WaitsOnlyForToken state instead that a
  request under way can always go on, without the help of other requests'
  clients or of a vendor, but for a driver that waits for the hass service's token.

## Proofs

All theorems hold for every value of the constants under the named assumptions
of the modules.

* `AuthSessionProofs` proves `IInv` inductive: the types, the agreement of a
  request's locals with its step (`LocalsInv`), rows that are not both used and
  revoked (`RowsInv`), a token is burnt before a token is signed for it and by
  one request only (`RotationInv`), a session that a request carries on has no
  redeemable token and no second such request (`SessionInv`), an ended session
  is carried on by nobody (`QuietInv`), a replay can only reach the alarm
  (`ReplayInv`), and a token in a response or in a client's hand has a row
  while Parse accepts it (`HeldInv`). None of the stated properties is
  inductive alone: that MarkUsed admits one request says nothing about the
  tokens signed until the steps between MarkUsed and Track are accounted for.
  From it follow TypeCorrect, AtMostOnceRedemption, SingleUnspent,
  RevocationFinal, QuietRevocationComplete, ReplayAlwaysDetected,
  HeldAlwaysTracked and the action property DeadForever. HeldAlwaysTracked
  rests on `Leeway =< PurgeGrace` (30 seconds and a day in the code).
* `ScheduleProofs`: the invariant adds to the properties that a draft is valid
  and that a row being created is nobody else's (`DraftInv`), that a
  transaction past its check conflicts with nothing it read (`CheckedInv`), and
  that idle requests have read nothing. Theorems TypeCorrect,
  LocksProtectReads, StoredLessonsValid, OverlapNeedsPhantom and, because what
  a transaction has read is still in the table, the action property
  SelfNeverConflicts.
* `WsProofs`, tickets: the invariant adds that a request which won the swap has
  set the flag (`SpentInv`). Theorems TicketTypeCorrect, SingleUse, UsedLeave.
* `AccessProofs`: AccessJustified alone does not survive a step, since the
  request acts on what it was granted queries ago. The invariant says that
  whatever was granted is in `right`, and so is the classroom at hand when the
  first query has already decided about it (`RightInv`); that memberships and
  `left` are of classrooms that exist and that a creator is in one of the two
  (`TableInv`); and that a ChangePassword about to write has compared the
  password it read (in `Fits`). Theorems AccessAlwaysJustified,
  ListsAlwaysAgree and the action property PasswordOnlyByOwner. Assumed: the
  marks for "no classroom" and "deleted" are no users.
* `AuditLogProofs`: the invariant adds what each goroutine holds at which step
  (`BuffersInv`: run has nothing once it has exited, less than a batch in its
  loop, something when it inserts; FlushSync has nothing outside its drain) and
  where the accepted entries are (`Accounted`). With run's batch empty whenever
  FlushSync holds entries, `batch \o fbuf \o buffer` is a queue, and each
  step of AuditLog is a step of AuditTrail or a stutter: an accepted Record
  appends, an insertion takes a prefix, everything else leaves the
  concatenation as it is. Theorems HandOverSafe and Implements (the
  refinement), for any positive capacity and batch size; lemmas about
  heads, tails and concatenations of sequences.
* `WsProofs`, hub: the invariant ties the maps to the step of the client's read
  pump (`ClientInv`), says to whom a publisher still owes its message
  (`PubInv`), and, for the order, speaks of the queue as well as of the wire:
  both are in order, what is queued belongs behind what is on the wire, and a
  message in either is not owed any more, so that it cannot come twice
  (`OrderInv`). Theorems MapsAlwaysAgree and WireAlwaysInOrder.
* `NotifyProofs`: a condition's alert was raised exactly if its entry in the
  throttle map is fresh (`ThrottleInv`), which rests on the eviction taking
  expired entries only (lemma EvictedKeepsFresh); a request's place is within
  its batch, the readings before it are published and nothing is stored before its
  end (`Fits`); a registered token is in the table or disowned, and one that some
  goroutine is about to remove is disowned already (`TokenInv`), without which the
  removal would break TokensStay. Theorems AlwaysThrottled, BatchesWhole,
  TokensAlwaysStay, for any batches, any number of goroutines and any high-water mark.
* `DeviceControlProofs`: the properties speak of quiet devices, the invariant
  of all moments. A device's row, events and alerts agree except while some
  request has still to publish, its status and its vendor except while some
  command has still to be settled, or history excuses them (`DeviceInv`). A
  request that was alone so far is the only one that holds the device (`Sole`),
  and its copy is the row with its own changes, still to be written or already
  written (`Matches`); a device without a row is held by its creator only
  (`Known`). That a request asks for the token leaves all of this alone (lemma
  TokenKeeps), and the cascade of a classroom marks its devices and whoever holds
  them (lemma ClassroomKeeps). DriversConsistent, a theorem about the drivers' tables alone,
  supplies that an inferred status does not contradict the call. The lemmas
  SameDevice, HolderStep and OutsideStep say once what a step leaves alone, and
  each action then needs only the device it touches. Theorems
  ShownAlwaysMatches, AlertsAlwaysMatch, RowAlwaysMatchesDevice,
  ScenesTryEveryStep (from `Tries`, the place of a run in its program) and the
  action property WritesAlwaysApart. Assumed: devices and scenes have different
  ids, as uuids do, and programs and configs are what the handlers accept.
* `HassProofs`, credentials: `IInv` has four parts beside the types and mutexes.
  `CarryInv`: which token a process carries at which step. `HeldInv`: while
  Bootstrap obtains a token under `mu` there is none in memory, and a refresh
  that has passed its second look keeps an old token in front of it, or one an
  administrator pasted, since only the holder of `refreshMu` refreshes. `AgreeInv`: without drift at most
  one writer is between its two writes, SetToken with the row written and a
  refresh with the memory written; AgreeUnlessDrift, which is silent while
  somebody writes, is not inductive without it. `BarredInv`: what Bootstrap has
  found out or recorded about the owner is still so, because an owner does not
  go away. Theorems CredentialsAgree, GivingUpHasReason, TokenAlwaysStays,
  LocksInOrder, the action property RefreshesOnlyOld, and SecondLookNeverEmpty,
  which justifies an omission: Credentials would bootstrap if its second look
  found no token, and that branch has no action in the model. Assumed: the
  processes differ, None is no process and no token, pasted tokens are not
  issued ones, and a save is tried at least once.
* `HassProofs`, flows: `FlowInv` says which ids a request carries at which step
  (`RequestInv`), that an id remembered or carried for a handler is, while it
  is pending, a flow of that handler (`OwnedInv`), where a flow started over
  the API is known (`TrackedInv`), and that two requests in flight for one
  handler are both excused (`MeetInv`). A request that is not excused therefore
  has the handler to itself, and `CleanInv` follows it through its scrub: what
  is left when it starts its flow was started by Home Assistant meanwhile, at
  least one flow per try. RefusalExplained speaks of the end of this only. The
  answers to the POST are taken apart once (`PostForm`, `PostLost`,
  `PostRetry`, ...) for StartFlow and the self-check. Theorems
  PendingAlwaysTracked, RefusalsHaveReason and the action property
  ScrubsStayOwn, for any handlers and finitely many flow ids and requests.

TLC has checked each inductive invariant on the instance of the component's
run (that of Access up to nine million states) before it was proved.

TypeCorrect, TicketTypeCorrect, AtMostOnceRedemption, RevocationFinal,
LocksProtectReads, StoredLessonsValid, UsedLeave, DriversConsistent,
LocksInOrder, SecondLookNeverEmpty and TokenAlwaysStays are proved and not part
of a run. Every safety invariant and action property of the passing runs is
proved, but for the two below that are about ENABLED.

Only model-checked:

* all liveness properties (AcceptedSettle, FlushReturns, ExpiredTicketsLeave,
  PublishNeverBlocks, ConnectionsCleanedUp, ShutdownEmptiesHub, BootstrapEnds,
  RequestsServed, Drains): fairness is out of the prover's reach;
* NobodyStuck and WaitsOnlyForToken, which are about ENABLED.

## Plan

1. *Mobile API client*, composed with AuthSession: the client never replays its
   own token, every waiting request is answered; then the WebSocket client.
2. *Rate limiter*: its map of buckets and their eviction.

## Not modelled

* The Flutter application: its screens and models have no behaviour to check;
  its API client, WebSocket client and caches are left to the plan. The models
  of the backend let any client do anything a client can.
* Analytics and the lists of every service are queries. Of the rate limiter the
  token buckets are a library's and refill by the wall clock.
* The wiring of the server, configuration, metrics, translations, request
  validation and logging. What `main` orders at start and shutdown is in
  AuthSession (purge), AuditLog (FlushSync) and WsHub.
* In the modelled parts, passwords are values without hashing, and e-mail
  addresses, payloads and the texts of errors and notifications are left out;
  reads that change nothing have no action.
* What a vendor carries out after its driver has given up on it: `told` changes
  while the driver is at work or not at all. A restart of the server empties the
  throttle map, and alerts repeat within a cooldown after it; requests that a
  restart interrupts are modelled for sessions and for the Home Assistant token,
  where something persistent depends on them.
