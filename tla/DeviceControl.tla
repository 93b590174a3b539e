---------------------------- MODULE DeviceControl ----------------------------
(***************************************************************************)
(* Devices, commands and scenes.  A request loads a device row, works on   *)
(* its copy (an edit, or a call to the device's driver) and writes part of *)
(* the row back; then it publishes an event that carries the copy and,     *)
(* when the copy went on- or offline, fires the alert trigger.  Nothing    *)
(* locks the row between the load and the event.  A scene runs commands    *)
(* one after the other, each under its own timeout.                        *)
(*                                                                         *)
(* A statement may fail without effect, or take effect and lose its        *)
(* answer.  A classroom's deletion takes its devices and scenes with it.   *)
(*                                                                         *)
(* last_seen_at is written wherever the status is and is left out.  Name,  *)
(* type and brand are edited as driver and config are.  Requests that the  *)
(* handlers refuse (no principal, malformed input) change nothing.         *)
(***************************************************************************)
EXTENDS Drivers, FiniteSets, Sequences

CONSTANTS
    Devices,    \* device ids
    Scenes,     \* scene ids
    Reqs,       \* requests in flight at once
    Configs,    \* the configs a user may write
    Drivables,  \* the drivers registered with the factory
    Cmds,       \* the commands users send
    Programs,   \* the step sequences users give a scene
    Domains     \* the domains of the entities users adopt

Steps == [dev : Devices, cmd : CommandTypes]

ASSUME DeviceConstants ==
    /\ Devices \cap Scenes = {} /\ "" \notin Devices \cup Scenes
    /\ Drivables \subseteq DriverNames /\ "homeassistant" \in Drivables
    /\ Cmds \subseteq CommandTypes
    /\ Programs \subseteq Seq(Steps)
    /\ Configs \subseteq [keys : SUBSET Keys, domain : Domains, capability : {"", "lock"},
                          commands : SUBSET CommandTypes]

VARIABLES
    devices,    \* the devices table
    scenes,     \* the scenes table: the steps of each
    deleted,    \* the devices that were deleted: uuids are not drawn twice
    told,       \* per device: the last call its vendor carried out
    shown,      \* per device: what the last event on the classroom's topic says of it
    alert,      \* per device: the last transition the trigger was told of
    req,        \* requests
    drift,      \* history, per device: "now" since a request on it overlapped another,
                \* could not record a failure or was not told of its own write, or since
                \* its classroom was deleted; "past" when one that did none of that followed
    unsure      \* history, per device: no command ran alone and was recorded since one
                \* that was not

vars == <<devices, scenes, deleted, told, shown, alert, req, drift, unsure>>

Absent == [driver |-> "", config |-> "", status |-> "", online |-> FALSE]
NoSteps == <<"none">>
Unseen == [status |-> "", online |-> FALSE]
Gone == [status |-> "deleted", online |-> FALSE]

Idle == [pc |-> "idle", op |-> "", dev |-> "", cmd |-> "", copy |-> Absent, prev |-> FALSE,
         token |-> FALSE, ok |-> FALSE, steps |-> <<>>, results |-> <<>>, gone |-> FALSE,
         alone |-> TRUE]

Init ==
    /\ devices = [d \in Devices |-> Absent]
    /\ scenes = [s \in Scenes |-> NoSteps]
    /\ deleted = {}
    /\ told = [d \in Devices |-> ""]
    /\ shown = [d \in Devices |-> Unseen]
    /\ alert = [d \in Devices |-> ""]
    /\ req = [r \in Reqs |-> Idle]
    /\ drift = [d \in Devices |-> "none"] /\ unsure = [d \in Devices |-> FALSE]

\* The requests that hold a copy of device d.
Holders(d) == {r \in Reqs : req[r].dev = d /\ req[r].pc \in {"driver", "write", "publish"}}

-----------------------------------------------------------------------------
(* The tables.  Each operator is one SQL statement.                        *)

GetByID(d) == devices[d]

\* INSERT of a row with a fresh id.
CreateRow(d, row) == devices' = [devices EXCEPT ![d] = row]

\* Mutant: the statement saves the whole copy.
UpdateRow_WholeRow(d, row) ==
    devices' = IF devices[d] = Absent THEN devices ELSE [devices EXCEPT ![d] = row]

\* UPDATE of the columns a user edits; no row, no effect.
UpdateRow(d, row) ==
    devices' = IF devices[d] = Absent THEN devices
               ELSE [devices EXCEPT ![d].driver = row.driver, ![d].config = row.config]

\* UPDATE of the columns a command changes; no row, no effect.
UpdateState(d, row) ==
    devices' = IF devices[d] = Absent THEN devices
               ELSE [devices EXCEPT ![d].status = row.status, ![d].online = row.online]

\* RowsAffected, of an UPDATE.
Affected(d) == devices'[d] # Absent

DeleteRow(d) == devices' = [devices EXCEPT ![d] = Absent]

-----------------------------------------------------------------------------
(* How a request proceeds.                                                 *)

\* A request starts on device d (Execute, Update, Delete) or on a scene.
Accept(r, op, d, cmd) ==
    /\ req[r].pc = "idle"
    /\ req' = [req EXCEPT ![r] = [Idle EXCEPT !.pc = "load", !.op = op, !.dev = d, !.cmd = cmd]]

\* The next step of the scene that request r runs, or its report.
NextStep(r, results, over) ==
    IF over THEN [Idle EXCEPT !.pc = "report", !.op = "run", !.steps = req[r].steps,
                              !.results = results]
    ELSE LET step == req[r].steps[Len(results) + 1]
         IN  [Idle EXCEPT !.pc = "load", !.op = "run", !.steps = req[r].steps,
                          !.results = results, !.dev = step.dev, !.cmd = step.cmd]

\* Mutant: the scene stops at the first step that fails.
Returned_StopAtFailure(r, ok) ==
    LET results == Append(req[r].results, ok) IN
    IF req[r].op # "run" THEN {Idle}
    ELSE {NextStep(r, results, ~ok \/ Len(results) = Len(req[r].steps)),
          [NextStep(r, results, TRUE) EXCEPT !.gone = TRUE]}

\* The request when Execute returns to it: it is answered, or it is a scene, which goes on
\* to the next step, under a new timeout, unless the caller has gone by now.
Returned(r, ok) ==
    LET results == Append(req[r].results, ok) IN
    IF req[r].op # "run" THEN {Idle}
    ELSE {NextStep(r, results, Len(results) = Len(req[r].steps)),
          [NextStep(r, results, TRUE) EXCEPT !.gone = TRUE]}

\* The request goes on with a copy of the row; it and the ones it meets are not alone.
Hold(r, pc, row) ==
    LET d == req[r].dev IN
    req' = [q \in Reqs |->
              IF q = r THEN [req[r] EXCEPT !.pc = pc, !.copy = row, !.alone = Holders(d) = {}]
              ELSE IF q \in Holders(d) THEN [req[q] EXCEPT !.alone = FALSE]
              ELSE req[q]]

\* A request that was not alone leaves the device's row, events and alerts unrelated.
Settle(d, alone) ==
    drift' = [drift EXCEPT ![d] = IF ~alone THEN "now" ELSE IF @ = "none" THEN @ ELSE "past"]

-----------------------------------------------------------------------------
(* Create, and Adopt of a Home Assistant entity.                           *)

Fresh == {d \in Devices : /\ devices[d] = Absent /\ d \notin deleted
                          /\ \A q \in Reqs : req[q].pc = "idle" \/ req[q].dev # d}

\* The id is drawn and the driver known: the row is about to be inserted.
Draw(r, d, driver, config) ==
    /\ req[r].pc = "idle"
    /\ d \in Fresh
    /\ req' = [req EXCEPT ![r] = [Idle EXCEPT
                 !.pc = "write", !.op = "create", !.dev = d,
                 !.copy = [driver |-> driver, config |-> config,
                           status |-> "unknown", online |-> FALSE]]]
    /\ UNCHANGED <<devices, scenes, deleted, told, shown, alert, drift, unsure>>

create(r) == \E d \in Fresh, driver \in Drivables, c \in Configs : Draw(r, d, driver, c)

adopt(r) == \E d \in Fresh, dom \in Domains : Draw(r, d, "homeassistant", AdoptConfig(dom))

\* The row is inserted, or not (its classroom is gone, or the database unwell), or it is
\* and the caller gets an error: then there is no event.
Create(r) ==
    /\ req[r].pc = "write" /\ req[r].op = "create"
    /\ \/ /\ req[r].dev \notin deleted
          /\ CreateRow(req[r].dev, req[r].copy)
          /\ \/ req' = [req EXCEPT ![r].pc = "publish"] /\ UNCHANGED drift
             \/ req' = [req EXCEPT ![r] = Idle] /\ Settle(req[r].dev, FALSE)
       \/ req' = [req EXCEPT ![r] = Idle] /\ UNCHANGED <<devices, drift>>
    /\ UNCHANGED <<scenes, deleted, told, shown, alert, unsure>>

-----------------------------------------------------------------------------
(* Update and Delete.                                                      *)

update(r) ==
    /\ \E d \in Devices : Accept(r, "update", d, "")
    /\ UNCHANGED <<devices, scenes, deleted, told, shown, alert, drift, unsure>>

delete(r) ==
    /\ \E d \in Devices : Accept(r, "delete", d, "")
    /\ UNCHANGED <<devices, scenes, deleted, told, shown, alert, drift, unsure>>

\* load, the authorization, and the edit of the copy: a new driver, a new config, or both.
\* No row, a refusal and an error all end the request.
LoadForEdit(r) ==
    /\ req[r].pc = "load" /\ req[r].op \in {"update", "delete"}
    /\ LET row == GetByID(req[r].dev) IN
       \/ req' = [req EXCEPT ![r] = Idle]
       \/ /\ row # Absent
          /\ \/ req[r].op = "delete" /\ Hold(r, "write", row)
             \/ /\ req[r].op = "update"
                /\ \E driver \in Drivables \cup {row.driver}, c \in Configs \cup {row.config} :
                     Hold(r, "write", [row EXCEPT !.driver = driver, !.config = c])
    /\ UNCHANGED <<devices, scenes, deleted, told, shown, alert, drift, unsure>>

Update(r) ==
    /\ req[r].pc = "write" /\ req[r].op = "update"
    /\ \/ /\ UpdateRow(req[r].dev, req[r].copy)
          /\ Affected(req[r].dev)
          /\ req' = [req EXCEPT ![r].pc = "publish"] \/ req' = [req EXCEPT ![r] = Idle]
       \/ req' = [req EXCEPT ![r] = Idle] /\ UNCHANGED devices
    /\ UNCHANGED <<scenes, deleted, told, shown, alert, drift, unsure>>

\* As for Create, the row may be gone although the caller is told of an error.
Delete(r) ==
    /\ req[r].pc = "write" /\ req[r].op = "delete"
    /\ \/ /\ devices[req[r].dev] # Absent
          /\ DeleteRow(req[r].dev)
          /\ deleted' = deleted \cup {req[r].dev}
          /\ \/ req' = [req EXCEPT ![r].pc = "publish"] /\ UNCHANGED drift
             \/ req' = [req EXCEPT ![r] = Idle] /\ Settle(req[r].dev, FALSE)
       \/ req' = [req EXCEPT ![r] = Idle] /\ UNCHANGED <<devices, deleted, drift>>
    /\ UNCHANGED <<scenes, told, shown, alert, unsure>>

\* A classroom is deleted, and by ON DELETE CASCADE its devices ds and scenes ss are: no
\* event tells of them, a request that holds one goes on with its copy, and a device that
\* was about to be inserted never is.
DeleteClassroom(ds, ss) ==
    /\ ds \subseteq {d \in Devices \ deleted : devices[d] # Absent \/ Holders(d) # {}}
    /\ devices' = [d \in Devices |-> IF d \in ds THEN Absent ELSE devices[d]]
    /\ deleted' = deleted \cup ds
    /\ scenes' = [s \in Scenes |-> IF s \in ss THEN NoSteps ELSE scenes[s]]
    /\ drift' = [d \in Devices |-> IF d \in ds THEN "now" ELSE drift[d]]
    /\ req' = [r \in Reqs |-> IF \E d \in ds : r \in Holders(d)
                              THEN [req[r] EXCEPT !.alone = FALSE] ELSE req[r]]
    /\ UNCHANGED <<told, shown, alert, unsure>>

\* Mutant: the event of an edit is published by its caller, which no longer has the row.
publish_StatelessEdit(r) ==
    shown' = [shown EXCEPT ![req[r].dev] =
                IF req[r].op = "delete" THEN Gone
                ELSE IF req[r].op = "update" THEN [status |-> "unknown", online |-> FALSE]
                ELSE [status |-> req[r].copy.status, online |-> req[r].copy.online]]

\* The event carries the request's copy.
publish(r) ==
    shown' = [shown EXCEPT ![req[r].dev] =
                IF req[r].op = "delete" THEN Gone
                ELSE [status |-> req[r].copy.status, online |-> req[r].copy.online]]

PublishEdit(r) ==
    /\ req[r].pc = "publish" /\ req[r].op \in {"create", "update", "delete"}
    /\ publish(r)
    /\ Settle(req[r].dev, req[r].alone)
    /\ unsure' = [unsure EXCEPT ![req[r].dev] = @ \/ ~req[r].alone]
    /\ req' = [req EXCEPT ![r] = Idle]
    /\ UNCHANGED <<devices, scenes, deleted, told, alert>>

-----------------------------------------------------------------------------
(* Execute: a command sent by a user or as a step of a scene.              *)

execute(r) ==
    /\ \E d \in Devices, cmd \in Cmds : Accept(r, "command", d, cmd)
    /\ UNCHANGED <<devices, scenes, deleted, told, shown, alert, drift, unsure>>

\* load, the authorization and factory.Get.
LoadForCommand(r) ==
    /\ req[r].pc = "load" /\ req[r].op \in {"command", "run"} /\ req[r].dev \in Devices
    /\ \/ \E q \in Returned(r, FALSE) : req' = [req EXCEPT ![r] = q]
       \/ LET row == GetByID(req[r].dev) IN
          row # Absent /\ row.driver \in Drivables /\ Hold(r, "driver", row)
    /\ UNCHANGED <<devices, scenes, deleted, told, shown, alert, drift, unsure>>

\* What Execute still uses of its copy after the driver returned.
Reading(status, online) == [Absent EXCEPT !.status = status, !.online = online]

Outcome(r) == Drive(req[r].copy.driver, req[r].copy.config, req[r].cmd)

\* The driver is at work, and has the token it asks for once it has read the config.
Ready(r) ==
    /\ req[r].pc = "driver"
    /\ resolveToken(req[r].copy.driver) /\ Outcome(r).kind # "invalid" => req[r].token

\* The command is to be recorded as one that failed: the status stays, the device is offline.
Failed(r) ==
    req' = [req EXCEPT ![r].pc = "write", ![r].ok = FALSE, ![r].prev = req[r].copy.online,
                       ![r].token = FALSE, ![r].copy = Reading(req[r].copy.status, FALSE)]

\* hass.Service.CurrentToken returns to the driver with a token or an error.  It waits for
\* the mutexes of the hass service, which others hold over calls to Home Assistant, and does
\* not heed the request's context: no timeout of the request makes it return.
CurrentToken(r) ==
    /\ req[r].pc = "driver" /\ ~Ready(r)
    /\ req' = [req EXCEPT ![r].token = TRUE] \/ Failed(r)
    /\ UNCHANGED <<devices, scenes, deleted, told, shown, alert, drift, unsure>>

\* Mutant: the status that was loaded is recorded, not the driver's.
DriverAnswers_OldStatus(r) ==
    /\ Ready(r) /\ Outcome(r).kind = "call"
    /\ \E resp \in Responses : Succeeds(req[r].copy.driver, resp)
    /\ told' = [told EXCEPT ![req[r].dev] = Outcome(r).call]
    /\ req' = [req EXCEPT ![r].pc = "write", ![r].ok = TRUE, ![r].prev = req[r].copy.online,
                          ![r].token = FALSE, ![r].copy = Reading(IF req[r].copy.online THEN req[r].copy.status
                                              ELSE Outcome(r).status, TRUE)]
    /\ UNCHANGED <<devices, scenes, deleted, shown, alert, drift, unsure>>

\* The vendor carries the command out and says so.
DriverAnswers(r) ==
    /\ Ready(r) /\ Outcome(r).kind = "call"
    /\ \E resp \in Responses : Succeeds(req[r].copy.driver, resp)
    /\ told' = [told EXCEPT ![req[r].dev] = Outcome(r).call]
    /\ req' = [req EXCEPT ![r].pc = "write", ![r].ok = TRUE, ![r].prev = req[r].copy.online,
                          ![r].token = FALSE, ![r].copy = Reading(Outcome(r).status, TRUE)]
    /\ UNCHANGED <<devices, scenes, deleted, shown, alert, drift, unsure>>

\* ErrUnsupportedCommand: nothing is recorded.
DriverRefuses(r) ==
    /\ Ready(r) /\ Outcome(r).kind = "unsupported"
    /\ \E q \in Returned(r, FALSE) : req' = [req EXCEPT ![r] = q]
    /\ UNCHANGED <<devices, scenes, deleted, told, shown, alert, drift, unsure>>

\* Mutant: neither the HTTP clients nor the steps of a scene have a timeout.
DriverFails_NoTimeout(r) ==
    /\ Ready(r) /\ Outcome(r).kind = "invalid"
    /\ Failed(r)
    /\ UNCHANGED <<devices, scenes, deleted, told, shown, alert, drift, unsure>>

\* Any other error: a config the driver refuses, an error status, or no answer within the
\* client's or the step's timeout.  The call may have had effect.
DriverFails(r) ==
    /\ Ready(r)
    /\ \/ Outcome(r).kind = "invalid"
       \/ /\ Outcome(r).kind = "call"
          /\ \E resp \in Responses : ~Succeeds(req[r].copy.driver, resp)
    /\ told' \in {told} \cup (IF Outcome(r).kind = "call"
                              THEN {[told EXCEPT ![req[r].dev] = Outcome(r).call]} ELSE {})
    /\ Failed(r)
    /\ UNCHANGED <<devices, scenes, deleted, shown, alert, drift, unsure>>

\* UpdateState returns an error when the row is gone, the context dead (the step timed out,
\* the caller went away) or the database unwell.  After a success that ends the command
\* without an event, whether the row was written or not; after a failure the error is only
\* logged, and unless the row was written all the same (which is as good as no error) the
\* request counts as not alone.
RecordState(r) ==
    /\ req[r].pc = "write" /\ req[r].op \in {"command", "run"}
    /\ \/ /\ UpdateState(req[r].dev, req[r].copy)
          /\ Affected(req[r].dev)
          /\ \/ req' = [req EXCEPT ![r].pc = "publish"] /\ UNCHANGED <<drift, unsure>>
             \/ /\ req[r].ok
                /\ Settle(req[r].dev, FALSE)
                /\ unsure' = [unsure EXCEPT ![req[r].dev] = ~req[r].alone]
                /\ \E q \in Returned(r, FALSE) : req' = [req EXCEPT ![r] = q]
       \/ /\ unsure' = [unsure EXCEPT ![req[r].dev] = TRUE]
          /\ \E q \in IF req[r].ok THEN Returned(r, FALSE)
                      ELSE {[req[r] EXCEPT !.pc = "publish", !.alone = FALSE]} :
               req' = [req EXCEPT ![r] = q]
          /\ UNCHANGED <<devices, drift>>
    /\ UNCHANGED <<scenes, deleted, told, shown, alert>>

\* Mutant: only a device that goes offline is worth an alert.
Alerted_OfflineOnly(r) == req[r].prev /\ ~req[r].copy.online

\* The trigger is called when the copy changed between online and offline.
Alerted(r) == req[r].prev # req[r].copy.online

PublishState(r) ==
    LET d == req[r].dev IN
    /\ req[r].pc = "publish" /\ req[r].op \in {"command", "run"}
    /\ publish(r)
    /\ alert' = IF Alerted(r)
                THEN [alert EXCEPT ![d] = IF req[r].copy.online THEN "online" ELSE "offline"]
                ELSE alert
    /\ Settle(d, req[r].alone)
    /\ unsure' = [unsure EXCEPT ![d] = IF req[r].alone /\ req[r].ok THEN FALSE
                                       ELSE @ \/ ~req[r].alone]
    /\ \E q \in Returned(r, req[r].ok) : req' = [req EXCEPT ![r] = q]
    /\ UNCHANGED <<devices, scenes, deleted, told>>

-----------------------------------------------------------------------------
(* Scenes.                                                                 *)

\* A scene's id stands for a new uuid when nothing refers to the old one.
SceneFresh == {s \in Scenes : scenes[s] = NoSteps /\ \A q \in Reqs : req[q].dev # s}

CreateSceneRow(s, steps) == scenes' = [scenes EXCEPT ![s] = steps]

\* No row, no effect.
UpdateSceneRow(s, steps) ==
    scenes' = IF scenes[s] = NoSteps THEN scenes ELSE [scenes EXCEPT ![s] = steps]

DeleteSceneRow(s) == scenes' = [scenes EXCEPT ![s] = NoSteps]

\* The row is inserted with the steps as they came: a step may name any device.
CreateScene(s, steps) ==
    /\ CreateSceneRow(s, steps)
    /\ UNCHANGED <<devices, deleted, told, shown, alert, req, drift, unsure>>

scene_create(r) ==
    /\ req[r].pc = "idle"
    /\ \E s \in SceneFresh, steps \in Programs : CreateScene(s, steps)

scene_update(r) ==
    /\ \E s \in Scenes : Accept(r, "edit", s, "")
    /\ UNCHANGED <<devices, scenes, deleted, told, shown, alert, drift, unsure>>

scene_delete(r) ==
    /\ \E s \in Scenes : Accept(r, "drop", s, "")
    /\ UNCHANGED <<devices, scenes, deleted, told, shown, alert, drift, unsure>>

scene_run(r) ==
    /\ \E s \in Scenes : Accept(r, "run", s, "")
    /\ UNCHANGED <<devices, scenes, deleted, told, shown, alert, drift, unsure>>

\* Load and authorize; the steps of the copy are replaced, or kept by a change of name.
LoadForSceneEdit(r) ==
    /\ req[r].pc = "load" /\ req[r].op = "edit"
    /\ \/ req' = [req EXCEPT ![r] = Idle]
       \/ /\ scenes[req[r].dev] # NoSteps
          /\ \E steps \in Programs \cup {scenes[req[r].dev]} :
               req' = [req EXCEPT ![r].pc = "save", ![r].steps = steps]
    /\ UNCHANGED <<devices, scenes, deleted, told, shown, alert, drift, unsure>>

UpdateScene(r) ==
    /\ req[r].pc = "save"
    /\ UpdateSceneRow(req[r].dev, req[r].steps) \/ UNCHANGED scenes
    /\ req' = [req EXCEPT ![r] = Idle]
    /\ UNCHANGED <<devices, deleted, told, shown, alert, drift, unsure>>

\* Load, authorize, DELETE; a run that loaded the scene goes on with its copy.
DeleteScene(r) ==
    /\ req[r].pc = "load" /\ req[r].op = "drop"
    /\ DeleteSceneRow(req[r].dev) \/ UNCHANGED scenes
    /\ req' = [req EXCEPT ![r] = Idle]
    /\ UNCHANGED <<devices, deleted, told, shown, alert, drift, unsure>>

\* Load and authorize; then the first step, if there is one.
Run(r) ==
    /\ req[r].pc = "load" /\ req[r].op = "run" /\ req[r].dev \in Scenes
    /\ LET steps == scenes[req[r].dev] IN
       \/ req' = [req EXCEPT ![r] = Idle]
       \/ /\ steps # NoSteps
          /\ req' = [req EXCEPT ![r] =
               IF steps = <<>> THEN [Idle EXCEPT !.pc = "report", !.op = "run"]
               ELSE [Idle EXCEPT !.pc = "load", !.op = "run", !.steps = steps,
                                 !.dev = steps[1].dev, !.cmd = steps[1].cmd]]
    /\ UNCHANGED <<devices, scenes, deleted, told, shown, alert, drift, unsure>>

\* scene.ran is published with the results, and they are the response.
Report(r) ==
    /\ req[r].pc = "report"
    /\ req' = [req EXCEPT ![r] = Idle]
    /\ UNCHANGED <<devices, scenes, deleted, told, shown, alert, drift, unsure>>

-----------------------------------------------------------------------------
Start(r) ==
    \/ create(r) \/ adopt(r) \/ update(r) \/ delete(r) \/ execute(r)
    \/ scene_create(r) \/ scene_update(r) \/ scene_delete(r) \/ scene_run(r)

\* The steps of a request that has started, the answers of vendor and hass service aside.
Proceed(r) ==
    \/ Create(r) \/ LoadForEdit(r) \/ Update(r) \/ Delete(r) \/ PublishEdit(r)
    \/ LoadForCommand(r) \/ DriverRefuses(r) \/ DriverFails(r)
    \/ RecordState(r) \/ PublishState(r)
    \/ LoadForSceneEdit(r) \/ UpdateScene(r) \/ DeleteScene(r) \/ Run(r) \/ Report(r)

Next ==
    \/ \E r \in Reqs : Start(r) \/ Proceed(r) \/ DriverAnswers(r) \/ CurrentToken(r)
    \/ \E ds \in SUBSET Devices, ss \in SUBSET Scenes : DeleteClassroom(ds, ss)

Spec == Init /\ [][Next]_vars

-----------------------------------------------------------------------------
(* Properties.                                                             *)

Quiet(d) == Holders(d) = {}

Rows == [driver : Drivables, config : Configs \cup {AdoptConfig(dom) : dom \in Domains},
         status : Statuses, online : BOOLEAN] \cup {Absent}

\* Types; device.Service, scene.Service and their tables.
TypeOK ==
    /\ devices \in [Devices -> Rows]
    /\ scenes \in [Scenes -> Programs \cup {NoSteps}]
    /\ deleted \subseteq Devices
    /\ shown \in [Devices -> [status : Statuses, online : BOOLEAN] \cup {Unseen, Gone}]
    /\ alert \in [Devices -> {"", "online", "offline"}]
    /\ drift \in [Devices -> {"none", "now", "past"}] /\ unsure \in [Devices -> BOOLEAN]
    /\ \A r \in Reqs :
         /\ req[r].pc \in {"idle", "load", "driver", "write", "publish", "save", "report"}
         /\ req[r].pc = "driver" => req[r].copy \in Rows \ {Absent}
         /\ req[r].pc \in {"write", "publish"} => req[r].copy.status \in Statuses
         /\ Len(req[r].results) <= Len(req[r].steps)

\* What the subscribers of a classroom's topic were last told of a device, its deletion
\* included, is what its row says once no request holds it.  Four things part them: requests
\* on the device that overlapped; a failure that could not be recorded (a step's timeout
\* always is one: its context is dead when UpdateState runs); a write whose answer was lost,
\* so that its event was left out; and the deletion of the classroom, which has no event at
\* all.  But for the last, the next request that runs alone brings them together again.
\* Service.Execute, publish.
ShownMatchesRow ==
    /\ TypeOK
    /\ \A d \in Devices :
      Quiet(d) /\ drift[d] # "now" =>
        shown[d] = IF d \in deleted THEN Gone
                   ELSE IF devices[d] = Absent THEN Unseen
                   ELSE [status |-> devices[d].status, online |-> devices[d].online]

\* Until one of these four happens to it, the last alert of a device tells whether it is
\* online.  Unlike the events, the alerts do not recover: a device whose failure was not
\* recorded comes back without an alert, and one that came online by a write whose answer
\* was lost does, too.  Service.Execute's trigger calls.
AlertsMatchOnline ==
    \A d \in Devices :
      Quiet(d) /\ drift[d] = "none" /\ devices[d] # Absent =>
        devices[d].online = (alert[d] = "online")

\* The status of a device that is online never contradicts the last call its vendor
\* carried out, through every driver, unless commands on it overlapped or one was not
\* recorded; a command that runs alone and is recorded sets it right.  Service.Execute and
\* the drivers' mapCommand and inferStatus.
RowMatchesDevice ==
    \A d \in Devices :
      Quiet(d) /\ ~unsure[d] /\ devices[d].online => ~Contradicts(devices[d].status, told[d])

\* Whatever requests still hold a copy of a row, none of their writes brings a deleted
\* device back, a command never undoes an edit made while its driver was at work, nor an
\* edit the state a command recorded.  PostgresRepository.Update, UpdateState.
WritesStayApart ==
    [][\A d \in Devices :
         /\ d \in deleted => devices'[d] = Absent
         /\ devices[d] # Absent /\ devices'[d] \notin {Absent, devices[d]} =>
              \E r \in Reqs :
                /\ req[r].pc = "write" /\ req[r].dev = d
                /\ IF req[r].op = "update"
                   THEN /\ devices'[d].status = devices[d].status
                        /\ devices'[d].online = devices[d].online
                   ELSE /\ devices'[d].driver = devices[d].driver
                        /\ devices'[d].config = devices[d].config]_vars

\* A scene reports on every step of the copy it loaded, failed steps or not, unless the
\* caller cancelled the request.  scene.Service.Run.
SceneTriesEveryStep ==
    \A r \in Reqs :
      req[r].pc = "report" /\ ~req[r].gone => Len(req[r].results) = Len(req[r].steps)

\* A request in flight waits for one thing only, the token of the hass service, where
\* RequestsServed (HassCredentials) ends the wait.  But for that it can always take its next
\* step, whether or not a vendor answers, and so a scene over dead devices ends: by stepTimeout
\* and the timeouts of the drivers' HTTP clients, which do not cover the wait for the token.
WaitsOnlyForToken ==
    \A r \in Reqs :
      req[r].pc # "idle" /\ (req[r].pc = "driver" => Ready(r)) => ENABLED Proceed(r)
=============================================================================
