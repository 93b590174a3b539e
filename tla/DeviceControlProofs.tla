------------------------- MODULE DeviceControlProofs -------------------------
(***************************************************************************)
(* Proofs about DeviceControl, for any devices, scenes, configs, programs  *)
(* and requests in flight: writes stay apart, a deleted device stays so,   *)
(* events, alerts and statuses go wrong only where requests overlapped, a  *)
(* failure went unrecorded, the answer of a write was lost or a classroom  *)
(* was deleted, and scenes report on every step.                           *)
(***************************************************************************)
EXTENDS DeviceControl, SequenceTheorems, TLAPS

RealRows == [driver : Drivables, config : Configs \cup {AdoptConfig(dom) : dom \in Domains},
             status : Statuses, online : BOOLEAN]
Copies == RealRows \cup [driver : {""}, config : {""}, status : Statuses \cup {""},
                         online : BOOLEAN]
Requests == [pc : {"idle", "load", "driver", "write", "publish", "save", "report"},
             op : {"", "create", "update", "delete", "command", "run", "edit", "drop"},
             dev : Devices \cup Scenes \cup {""}, cmd : CommandTypes \cup {""}, copy : Copies,
             prev : BOOLEAN, token : BOOLEAN, ok : BOOLEAN, steps : Seq(Steps), results : Seq(BOOLEAN),
             gone : BOOLEAN, alone : BOOLEAN]

HoldPcs == {"driver", "write", "publish"}
CommandOps == {"command", "run"}

\* What a request remembers fits its step: whom it is about, its copy, its place in the scene.
Fits(q) ==
    /\ q.pc = "idle" => q.dev = ""
    /\ q.pc = "load" => \/ q.op \in {"update", "delete", "command"} /\ q.dev \in Devices
                        \/ q.op \in {"edit", "drop", "run"} /\ q.dev \in Scenes /\ q.steps = <<>>
                        \/ q.op = "run" /\ q.dev \in Devices
    /\ q.pc \in HoldPcs => q.dev \in Devices
    /\ q.pc = "driver" => q.op \in CommandOps /\ q.copy \in RealRows
    /\ q.pc = "write" => q.op \in {"create", "update", "delete"} \cup CommandOps
    /\ q.pc = "write" /\ q.op \notin CommandOps => q.copy \in RealRows
    /\ q.pc = "write" /\ q.op = "create" => q.copy.online = FALSE
    /\ q.pc = "publish" => q.op \in {"create", "update", "delete"} \cup CommandOps
    /\ q.pc \in {"write", "publish"} => q.copy.status \in Statuses
    /\ q.pc \in {"write", "publish"} /\ q.op \in CommandOps /\ q.ok = FALSE => q.copy.online = FALSE
    /\ q.pc = "save" => q.dev \in Scenes /\ q.steps \in Programs

\* A run that is at a step has results for the steps before it, one that reports for all of
\* them unless the caller has gone; no other request has results.
Tries(q) ==
    /\ q.op # "run" \/ q.pc \in {"idle", "save"} => q.results = <<>>
    /\ q.op = "run" /\ q.pc = "load" /\ q.dev \in Scenes => q.results = <<>>
    /\ q.op = "run" /\ q.pc = "load" /\ q.dev \in Devices => Len(q.results) < Len(q.steps)
    /\ q.op = "run" /\ q.pc \in HoldPcs => Len(q.results) < Len(q.steps)
    /\ q.pc = "report" => q.op = "run" /\ Len(q.results) <= Len(q.steps)
    /\ q.pc = "report" /\ q.gone = FALSE => Len(q.results) = Len(q.steps)

ReqInv == req \in [Reqs -> Requests] /\ \A r \in Reqs : Fits(req[r]) /\ Tries(req[r])

TablesInv ==
    /\ devices \in [Devices -> Rows] /\ scenes \in [Scenes -> Programs \cup {NoSteps}]
    /\ deleted \subseteq Devices /\ told = [d \in Devices |-> told[d]]
    /\ shown \in [Devices -> [status : Statuses, online : BOOLEAN] \cup {Unseen, Gone}]
    /\ alert \in [Devices -> {"", "online", "offline"}]
    /\ drift \in [Devices -> {"none", "now", "past"}] /\ unsure \in [Devices -> BOOLEAN]

Publishing(d) == \E r \in Reqs : req[r].dev = d /\ req[r].pc = "publish"
Commanding(d) ==
    \E r \in Reqs : req[r].dev = d /\ req[r].pc \in {"write", "publish"} /\ req[r].op \in CommandOps

\* What the last event should say of a device.
Current(d) == IF d \in deleted THEN Gone
              ELSE IF devices[d] = Absent THEN Unseen
              ELSE [status |-> devices[d].status, online |-> devices[d].online]

\* A device: the row, events and alerts agree but while a write is not published yet, and
\* status and vendor but while a command is not settled yet; unless history excuses them.
DeviceInv(d) ==
    /\ d \in deleted => devices[d] = Absent
    /\ devices[d] = Absent /\ d \notin deleted => alert[d] = "" /\ drift[d] = "none"
    /\ drift[d] # "now" /\ ~Publishing(d) => shown[d] = Current(d)
    /\ drift[d] = "none" /\ ~Publishing(d) /\ devices[d] # Absent =>
         (devices[d].online = TRUE <=> alert[d] = "online")
    /\ unsure[d] = FALSE /\ ~Commanding(d) /\ devices[d].online = TRUE =>
         ~Contradicts(devices[d].status, told[d])

\* A device whose row is not there yet is held by its creator only; other holders' devices
\* have a row or had one.
Known(q) ==
    /\ q.pc = "write" /\ q.op = "create" => devices[q.dev] = Absent
    /\ ~(q.pc = "write" /\ q.op = "create") => devices[q.dev] # Absent \/ q.dev \in deleted

\* The copy of a request that has the device for itself is the row, with the request's own
\* changes: still to be written, or written and to be published.
Matches(q) ==
    /\ q.pc = "driver" => q.copy = devices[q.dev]
    /\ q.pc = "write" /\ q.op \in {"update", "delete"} =>
         /\ devices[q.dev] # Absent
         /\ q.copy.status = devices[q.dev].status /\ q.copy.online = devices[q.dev].online
    /\ q.pc = "write" /\ q.op \in CommandOps =>
         devices[q.dev] # Absent /\ q.prev = devices[q.dev].online
    /\ q.pc \in {"write", "publish"} /\ q.op \in CommandOps /\ q.ok = TRUE =>
         ~Contradicts(q.copy.status, told[q.dev])
    /\ q.pc = "publish" /\ q.op = "delete" => q.dev \in deleted
    /\ q.pc = "publish" /\ q.op # "delete" =>
         /\ devices[q.dev] # Absent
         /\ q.copy.status = devices[q.dev].status /\ q.copy.online = devices[q.dev].online
    /\ q.pc = "publish" /\ q.op \in {"create", "update"} /\ drift[q.dev] = "none" =>
         (devices[q.dev].online = TRUE <=> alert[q.dev] = "online")
    /\ q.pc = "publish" /\ q.op \in CommandOps /\ drift[q.dev] = "none" =>
         (q.prev = TRUE <=> alert[q.dev] = "online")

\* Nobody else holds the device of request r.
Sole(r) == \A q \in Reqs : q # r /\ req[q].dev = req[r].dev => req[q].pc \notin HoldPcs

HolderInv(r) ==
    req[r].pc \in HoldPcs =>
      /\ Known(req[r])
      /\ req[r].pc = "write" /\ req[r].op = "create" => Sole(r)
      /\ req[r].alone = TRUE => Sole(r) /\ Matches(req[r])

IInv ==
    /\ TablesInv /\ ReqInv
    /\ \A d \in Devices : DeviceInv(d)
    /\ \A r \in Reqs : HolderInv(r)
-----------------------------------------------------------------------------
\* A row that is there is not the absent one.
LEMMA RealRowIs ==
  /\ Rows = RealRows \cup {Absent} /\ RealRows \subseteq Copies /\ Absent \in Copies
  /\ \A row \in RealRows : row # Absent /\ row.status \in Statuses /\ row.driver \in DriverNames
  /\ Absent.online = FALSE
<1>1. Rows = RealRows \cup {Absent} /\ RealRows \subseteq Copies
  BY DEF Rows, RealRows, Copies
<1>2. Absent \in Copies
  BY DEF Absent, Copies
<1>3. ASSUME NEW row \in RealRows
      PROVE  row # Absent /\ row.status \in Statuses /\ row.driver \in DriverNames
  <2>1. row.driver \in DriverNames /\ row.status \in Statuses
    BY DeviceConstants DEF RealRows
  <2>2. Absent.driver = "" /\ "" \notin DriverNames
    BY DEF Absent, DriverNames
  <2> QED BY <2>1, <2>2
<1> QED BY <1>1, <1>2, <1>3 DEF Absent

\* The idle request.
LEMMA IdleFits ==
  /\ Idle \in Requests /\ Fits(Idle) /\ Tries(Idle)
  /\ Idle.pc = "idle" /\ Idle.op = "" /\ Idle.dev = "" /\ Idle.alone = TRUE
  /\ Idle.steps = <<>> /\ Idle.results = <<>> /\ Idle.gone = FALSE
<1>1. /\ Idle.pc = "idle" /\ Idle.op = "" /\ Idle.dev = "" /\ Idle.alone = TRUE
      /\ Idle.steps = <<>> /\ Idle.results = <<>> /\ Idle.gone = FALSE
  BY DEF Idle
<1>2. Idle \in Requests
  BY RealRowIs, EmptySeq DEF Idle, Requests
<1>3. Fits(Idle) /\ Tries(Idle)
  BY <1>1 DEF Fits, Tries, HoldPcs
<1> QED BY <1>1, <1>2, <1>3

\* The status a driver infers is a status, and does not contradict the call it makes:
\* whatever the driver, the config (its domain and capability included) and the command.
THEOREM DriversConsistent ==
  ASSUME NEW driver \in DriverNames, NEW cfg, NEW cmd
  PROVE  /\ Drive(driver, cfg, cmd).status \in Statuses
         /\ Drive(driver, cfg, cmd).kind = "call" =>
              ~Contradicts(Drive(driver, cfg, cmd).status, Drive(driver, cfg, cmd).call)
<1> DEFINE Good(o) == o.status \in Statuses /\ (o.kind = "call" => ~Contradicts(o.status, o.call))
<1>1. Good(InvalidConfig) /\ Good(Unsupported)
  BY DEF InvalidConfig, Unsupported, Statuses
<1>2. ASSUME NEW call, NEW status \in Statuses, ~Contradicts(status, call)
      PROVE  Good(Calls(call, status))
  BY <1>2 DEF Calls
<1>3. CASE driver = "generic_http"
  <2>1. generic_inferStatus(cmd) \in Statuses /\ ~Contradicts(generic_inferStatus(cmd), cmd)
    BY DEF generic_inferStatus, Statuses, Contradicts, Activating, Deactivating
  <2>2. Good(generic_Execute(cfg, cmd))
    BY <1>1, <1>2, <2>1 DEF generic_Execute
  <2> QED BY <1>3, <2>2 DEF Drive
<1>4. CASE driver = "homeassistant"
  <2> DEFINE domain == cfg.domain
             service == hass_mapCommand(cmd, domain)
             status == hass_inferStatus(cmd, domain)
  <2>1. status \in Statuses /\ ~Contradicts(status, service)
    BY DEF hass_mapCommand, hass_inferStatus, Statuses, Contradicts, Activating, Deactivating
  <2> HIDE DEF service, status
  <2>2. \/ hass_Execute(cfg, cmd) \in {InvalidConfig, Unsupported}
        \/ hass_Execute(cfg, cmd) = Calls(service, status)
    BY DEF hass_Execute, service, status
  <2>3. Good(hass_Execute(cfg, cmd))
    BY <1>1, <1>2, <2>1, <2>2
  <2> QED BY <1>4, <2>3 DEF Drive
<1>5. CASE driver = "smartthings"
  <2>1. \A call \in {"on", "unlock", "open", "setLevel"}, status \in {"on", "open", "unknown"} :
           status \in Statuses /\ ~Contradicts(status, call)
    BY DEF Statuses, Contradicts, Activating, Deactivating
  <2>2. \A call \in {"off", "lock", "close", "setLevel"}, status \in {"off", "closed", "unknown"} :
           status \in Statuses /\ ~Contradicts(status, call)
    BY DEF Statuses, Contradicts, Activating, Deactivating
  <2>3. \/ smartthings_mapCommand(cmd, cfg) = Unsupported
        \/ \E call \in {"on", "unlock", "open", "setLevel"}, status \in {"on", "open", "unknown"} :
             smartthings_mapCommand(cmd, cfg) = Calls(call, status)
        \/ \E call \in {"off", "lock", "close", "setLevel"}, status \in {"off", "closed", "unknown"} :
             smartthings_mapCommand(cmd, cfg) = Calls(call, status)
    BY DEF smartthings_mapCommand
  <2>4. Good(smartthings_mapCommand(cmd, cfg))
    BY <1>1, <1>2, <2>1, <2>2, <2>3
  <2>5. Good(smartthings_Execute(cfg, cmd))
    BY <1>1, <2>4 DEF smartthings_Execute
  <2> QED BY <1>5, <2>5 DEF Drive
<1> QED BY <1>3, <1>4, <1>5 DEF DriverNames

\* The tables the server starts with satisfy the invariant.
LEMMA InitInv == Init => IInv
<1> SUFFICES ASSUME Init PROVE IInv
  OBVIOUS
<1>1. TablesInv
  BY RealRowIs, Zenon DEF Init, TablesInv
<1>2. ReqInv
  BY IdleFits DEF Init, ReqInv
<1>3. ASSUME NEW d \in Devices PROVE DeviceInv(d)
  BY RealRowIs DEF Init, DeviceInv, Current
<1>4. ASSUME NEW r \in Reqs PROVE HolderInv(r)
  BY IdleFits DEF Init, HolderInv, HoldPcs
<1> QED BY <1>1, <1>2, <1>3, <1>4 DEF IInv

\* When Execute returns, the request is answered, or its scene goes on or reports.
LEMMA ReturnedFits ==
  ASSUME ReqInv, NEW r \in Reqs, req[r].op \in CommandOps,
         req[r].pc \in HoldPcs \/ (req[r].pc = "load" /\ req[r].dev \in Devices),
         NEW ok \in BOOLEAN, NEW n \in Returned(r, ok)
  PROVE  n \in Requests /\ Fits(n) /\ Tries(n) /\ n.pc \notin HoldPcs
<1> DEFINE steps == req[r].steps
           results == Append(req[r].results, ok)
<1>1. CASE req[r].op # "run"
  BY <1>1, IdleFits DEF Returned, HoldPcs
<1>2. CASE req[r].op = "run"
  <2>1. /\ steps \in Seq(Steps) /\ req[r].results \in Seq(BOOLEAN)
        /\ Len(req[r].results) < Len(steps)
    BY <1>2 DEF ReqInv, Requests, Tries
  <2>2. /\ results \in Seq(BOOLEAN) /\ Len(results) \in Nat /\ Len(steps) \in Nat
        /\ Len(results) <= Len(steps)
    BY <2>1, AppendProperties, LenProperties
  <2> DEFINE report == [Idle EXCEPT !.pc = "report", !.op = "run", !.steps = steps,
                                    !.results = results]
             cut == [report EXCEPT !.gone = TRUE]
             step == steps[Len(results) + 1]
             next == [Idle EXCEPT !.pc = "load", !.op = "run", !.steps = steps,
                          !.results = results, !.dev = step.dev, !.cmd = step.cmd]
  <2>3. \/ n = report /\ Len(results) = Len(steps)
        \/ n = next /\ Len(results) # Len(steps)
        \/ n = cut
    BY <1>2 DEF Returned, NextStep
  <2> HIDE DEF steps, results
  <2>4. /\ report \in Requests /\ report.pc = "report" /\ report.op = "run" /\ report.steps = steps
        /\ report.results = results
    BY <2>1, <2>2, IdleFits DEF Requests
  <2> HIDE DEF report
  <2>5. /\ cut \in Requests /\ cut.pc = "report" /\ cut.op = "run" /\ cut.steps = steps
        /\ cut.results = results /\ cut.gone = TRUE
    BY <2>4 DEF Requests
  <2>6. CASE n = report /\ Len(results) = Len(steps)
    BY <2>2, <2>4, <2>6 DEF Fits, Tries, HoldPcs
  <2>7. CASE n = cut
    <3> HIDE DEF cut
    <3> QED BY <2>2, <2>5, <2>7 DEF Fits, Tries, HoldPcs
  <2>8. CASE n = next /\ Len(results) # Len(steps)
    <3>1. step \in Steps
      BY <2>1, <2>2, <2>8, ElementOfSeq
    <3>2. step.dev \in Devices /\ step.cmd \in CommandTypes
      BY <3>1 DEF Steps
    <3> HIDE DEF step
    <3>3. /\ next \in Requests /\ next.pc = "load" /\ next.op = "run" /\ next.steps = steps
          /\ next.results = results /\ next.dev = step.dev
      BY <2>1, <2>2, <3>2, IdleFits DEF Requests
    <3>4. step.dev \notin Scenes
      BY <3>2, DeviceConstants
    <3> HIDE DEF next
    <3>5. Fits(next)
      BY <3>2, <3>3 DEF Fits, HoldPcs
    <3>6. Tries(next)
      BY <2>2, <2>8, <3>3, <3>4 DEF Tries, HoldPcs
    <3> QED BY <2>8, <3>3, <3>5, <3>6 DEF HoldPcs
  <2> QED BY <2>3, <2>6, <2>7, <2>8
<1> QED BY <1>1, <1>2
-----------------------------------------------------------------------------
\* A step leaves what is kept of device x alone.
Same(x) ==
    /\ devices'[x] = devices[x] /\ (x \in deleted' <=> x \in deleted) /\ told'[x] = told[x]
    /\ shown'[x] = shown[x] /\ alert'[x] = alert[x] /\ drift'[x] = drift[x]
    /\ unsure'[x] = unsure[x]

\* One request changes.
LEMMA ReqSet ==
  ASSUME ReqInv, NEW r \in Reqs, NEW n \in Requests, Fits(n), Tries(n), req' = [req EXCEPT ![r] = n]
  PROVE  ReqInv' /\ req'[r] = n /\ \A q \in Reqs : q # r => req'[q] = req[q]
<1>1. req'[r] = n /\ req' \in [Reqs -> Requests] /\ \A q \in Reqs : q # r => req'[q] = req[q]
  BY DEF ReqInv
<1>2. ASSUME NEW q \in Reqs PROVE Fits(req'[q]) /\ Tries(req'[q])
  <2>1. CASE q = r
    BY <1>1, <2>1
  <2>2. CASE q # r
    <3>1. Fits(req[q]) /\ Tries(req[q]) /\ req'[q] = req[q]
      BY <1>1, <2>2 DEF ReqInv
    <3> QED BY <3>1
  <2> QED BY <2>1, <2>2
<1> QED BY <1>1, <1>2 DEF ReqInv

\* A device that no step touches.
LEMMA SameDevice ==
  ASSUME NEW x, DeviceInv(x), Same(x), Publishing(x)' <=> Publishing(x),
         Commanding(x)' <=> Commanding(x)
  PROVE  DeviceInv(x)'
<1>1. Current(x)' = Current(x)
  BY DEF Same, Current
<1> HIDE DEF Current, Publishing, Commanding
<1> QED BY <1>1 DEF DeviceInv, Same

\* A request that a step does not touch, nor the device it holds.
LEMMA SameHolder ==
  ASSUME NEW q \in Reqs, HolderInv(q), req'[q] = req[q],
         req[q].pc \in HoldPcs => Same(req[q].dev) /\ (Sole(q) => Sole(q)')
  PROVE  HolderInv(q)'
<1> SUFFICES ASSUME req[q].pc \in HoldPcs PROVE HolderInv(q)'
  BY DEF HolderInv
<1>1. Same(req[q].dev) /\ (Sole(q) => Sole(q)')
  OBVIOUS
<1>2. Known(req[q]) => Known(req[q])'
  BY <1>1 DEF Known, Same
<1>3. Matches(req[q]) => Matches(req[q])'
  BY <1>1 DEF Matches, Same
<1> QED BY <1>1, <1>2, <1>3 DEF HolderInv

\* Steps of a request that holds no device, before and after, disturb no device.
LEMMA OutsideStep ==
  ASSUME IInv, NEW r \in Reqs, NEW n \in Requests, Fits(n), Tries(n),
         req' = [req EXCEPT ![r] = n], req[r].pc \notin HoldPcs, n.pc \notin HoldPcs,
         UNCHANGED <<devices, deleted, told, shown, alert, drift, unsure>>,
         scenes' \in [Scenes -> Programs \cup {NoSteps}]
  PROVE  IInv'
<1>1. ReqInv' /\ req'[r] = n /\ \A q \in Reqs : q # r => req'[q] = req[q]
  BY ReqSet DEF IInv
<1>2. TablesInv'
  BY DEF IInv, TablesInv
<1>3. ASSUME NEW d \in Devices PROVE DeviceInv(d)'
  <2>1. Publishing(d)' <=> Publishing(d)
    BY <1>1 DEF Publishing, HoldPcs
  <2>2. Commanding(d)' <=> Commanding(d)
    BY <1>1 DEF Commanding, HoldPcs
  <2>3. Same(d)
    BY DEF Same
  <2> QED BY <2>1, <2>2, <2>3, SameDevice DEF IInv
<1>4. ASSUME NEW q \in Reqs PROVE HolderInv(q)'
  <2>1. CASE q = r
    BY <1>1, <2>1 DEF HolderInv
  <2>2. CASE q # r
    <3>1. Sole(q) => Sole(q)'
      BY <1>1, <2>2 DEF Sole
    <3>2. Same(req[q].dev)
      BY DEF Same
    <3> QED BY <1>1, <2>2, <3>1, <3>2, SameHolder DEF IInv
  <2> QED BY <2>1, <2>2
<1> QED BY <1>1, <1>2, <1>3, <1>4 DEF IInv

\* Steps of a request r that holds a device disturb no other device, and on this one no
\* other request: those that hold it too are not alone any more.
LEMMA HolderStep ==
  ASSUME IInv, NEW r \in Reqs, NEW n \in Requests, Fits(n), Tries(n),
         req' = [req EXCEPT ![r] = n], NEW D \in Devices, req[r].dev = D, req[r].pc \in HoldPcs,
         n.pc \in HoldPcs => /\ n.dev = D /\ ~(n.pc = "write" /\ n.op = "create")
                             /\ n.alone = TRUE => req[r].alone = TRUE
                             /\ n.alone = TRUE => Matches(n)',
         \A x \in Devices : x # D => Same(x),
         devices'[D] # Absent \/ D \in deleted' \/ (n.pc \notin HoldPcs /\ Same(D)),
         TablesInv', DeviceInv(D)'
  PROVE  IInv'
<1>1. ReqInv' /\ req'[r] = n /\ \A q \in Reqs : q # r => req'[q] = req[q]
  BY ReqSet DEF IInv
<1>2. ASSUME NEW d \in Devices PROVE DeviceInv(d)'
  <2>1. CASE d = D
    BY <2>1
  <2>2. CASE d # D
    <3>1. Publishing(d)' <=> Publishing(d)
      BY <1>1, <2>2 DEF Publishing, HoldPcs
    <3>2. Commanding(d)' <=> Commanding(d)
      BY <1>1, <2>2 DEF Commanding, HoldPcs
    <3> QED BY <2>2, <3>1, <3>2, SameDevice DEF IInv
  <2> QED BY <2>1, <2>2
<1>3. HolderInv(r)'
  <2> SUFFICES ASSUME n.pc \in HoldPcs PROVE HolderInv(r)'
    BY <1>1 DEF HolderInv
  <2>1. Known(n)'
    BY DEF Known
  <2>2. n.alone = TRUE => Sole(r)'
    <3>1. req[r].alone = TRUE => Sole(r)
      BY DEF IInv, HolderInv
    <3>2. Sole(r) => Sole(r)'
      BY <1>1 DEF Sole
    <3> QED BY <3>1, <3>2
  <2>3. Known(req[r])'
    BY <1>1, <2>1 DEF Known
  <2>4. ASSUME n.alone = TRUE PROVE Matches(req[r])'
    <3>1. Matches(n)'
      BY <2>4
    <3> QED BY <1>1, <3>1 DEF Matches
  <2> QED BY <1>1, <2>2, <2>3, <2>4 DEF HolderInv
<1>4. ASSUME NEW q \in Reqs, q # r PROVE HolderInv(q)'
  <2>1. req'[q] = req[q] /\ HolderInv(q)
    BY <1>1, <1>4 DEF IInv
  <2>2. CASE req[q].pc \notin HoldPcs
    BY <2>1, <2>2 DEF HolderInv
  <2>3. CASE req[q].pc \in HoldPcs /\ req[q].dev # D
    <3>1. Sole(q) => Sole(q)'
      BY <1>1, <1>4, <2>3 DEF Sole
    <3>2. req[q].dev \in Devices
      BY <2>3 DEF IInv, ReqInv, Fits
    <3> QED BY <2>1, <2>3, <3>1, <3>2, SameHolder
  <2>4. CASE req[q].pc \in HoldPcs /\ req[q].dev = D
    <3>1. ~Sole(q)
      BY <1>4, <2>4 DEF Sole
    <3>2. /\ req[q].alone # TRUE /\ ~(req[q].pc = "write" /\ req[q].op = "create")
          /\ devices[D] # Absent \/ D \in deleted
      BY <2>1, <2>4, <3>1 DEF HolderInv, Known
    <3>3. devices'[D] # Absent \/ D \in deleted'
      BY <3>2 DEF Same
    <3>4. Known(req[q])'
      BY <2>1, <2>4, <3>2, <3>3 DEF Known
    <3> QED BY <2>1, <3>2, <3>4 DEF HolderInv
  <2> QED BY <2>2, <2>3, <2>4
<1> QED BY <1>1, <1>2, <1>3, <1>4 DEF IInv
-----------------------------------------------------------------------------
\* A request is accepted: it holds nothing yet.
LEMMA AcceptKeeps ==
  ASSUME IInv, NEW r \in Reqs, update(r) \/ delete(r) \/ execute(r) \/ scene_update(r)
                               \/ scene_delete(r) \/ scene_run(r)
  PROVE  IInv'
<1>1. ASSUME NEW op \in {"update", "delete", "command", "edit", "drop", "run"},
             NEW d \in Devices \cup Scenes, NEW cmd \in CommandTypes \cup {""},
             op \in {"update", "delete", "command"} => d \in Devices,
             op \in {"edit", "drop", "run"} => d \in Scenes, Accept(r, op, d, cmd),
             UNCHANGED <<devices, scenes, deleted, told, shown, alert, drift, unsure>>
      PROVE  IInv'
  <2> DEFINE n == [Idle EXCEPT !.pc = "load", !.op = op, !.dev = d, !.cmd = cmd]
  <2>1. req[r].pc \notin HoldPcs /\ req' = [req EXCEPT ![r] = n]
    BY <1>1 DEF Accept, HoldPcs
  <2>2. /\ n \in Requests /\ n.pc = "load" /\ n.op = op /\ n.dev = d
        /\ n.steps = <<>> /\ n.results = <<>>
    BY IdleFits DEF Requests
  <2>3. op = "run" => d \notin Devices
    BY <1>1, DeviceConstants
  <2> HIDE DEF n
  <2>4. Fits(n)
    BY <1>1, <2>2 DEF Fits, HoldPcs
  <2>5. Tries(n) /\ n.pc \notin HoldPcs
    BY <1>1, <2>2, <2>3 DEF Tries, HoldPcs
  <2> QED BY <1>1, <2>1, <2>2, <2>4, <2>5, OutsideStep DEF IInv, TablesInv
<1>2. CASE update(r) \/ delete(r)
  BY <1>1, <1>2 DEF update, delete
<1>3. CASE execute(r)
  BY <1>1, <1>3, DeviceConstants DEF execute
<1>4. CASE scene_update(r) \/ scene_delete(r) \/ scene_run(r)
  BY <1>1, <1>4 DEF scene_update, scene_delete, scene_run
<1> QED BY <1>2, <1>3, <1>4

\* A request ends that held nothing.
LEMMA OutsideEnds ==
  ASSUME IInv, NEW r \in Reqs, req[r].pc \notin HoldPcs, req' = [req EXCEPT ![r] = Idle],
         UNCHANGED <<devices, deleted, told, shown, alert, drift, unsure>>,
         scenes' \in [Scenes -> Programs \cup {NoSteps}]
  PROVE  IInv'
<1>1. Idle.pc \notin HoldPcs
  BY IdleFits DEF HoldPcs
<1> QED BY <1>1, IdleFits, OutsideStep

\* The scenes table and its requests.
LEMMA SceneKeeps ==
  ASSUME IInv, NEW r \in Reqs,
         LoadForSceneEdit(r) \/ UpdateScene(r) \/ DeleteScene(r) \/ Run(r) \/ Report(r)
  PROVE  IInv'
<1> DEFINE q == req[r]
<1>0. q \in Requests /\ Fits(q) /\ Tries(q) /\ scenes \in [Scenes -> Programs \cup {NoSteps}]
  BY DEF IInv, ReqInv, TablesInv
<1>1. CASE LoadForSceneEdit(r)
  <2>1. q.pc = "load" /\ q.op = "edit" /\ q.pc \notin HoldPcs /\ q.dev \in Scenes
    <3>1. q.pc = "load" /\ q.op = "edit"
      BY <1>1 DEF LoadForSceneEdit
    <3> QED BY <1>0, <3>1 DEF Fits, HoldPcs
  <2>2. CASE req' = [req EXCEPT ![r] = Idle]
    BY <1>0, <1>1, <2>1, <2>2, OutsideEnds DEF LoadForSceneEdit
  <2>3. ASSUME NEW steps \in Programs, req' = [req EXCEPT ![r].pc = "save", ![r].steps = steps]
        PROVE  IInv'
    <3> DEFINE n == [q EXCEPT !.pc = "save", !.steps = steps]
    <3>1. req' = [req EXCEPT ![r] = n]
      BY <2>3 DEF IInv, ReqInv
    <3>2. steps \in Seq(Steps)
      BY DeviceConstants
    <3> HIDE DEF q
    <3>3. /\ n \in Requests /\ n.pc = "save" /\ n.dev = q.dev /\ n.op = q.op
          /\ n.steps = steps /\ n.results = q.results
      BY <1>0, <3>2 DEF Requests
    <3> HIDE DEF n
    <3>4. Fits(n) /\ n.pc \notin HoldPcs
      BY <2>1, <3>3 DEF Fits, HoldPcs
    <3>5. Tries(n)
      BY <1>0, <2>1, <3>3 DEF Tries, HoldPcs
    <3> QED BY <1>0, <1>1, <2>1, <3>1, <3>3, <3>4, <3>5, OutsideStep DEF LoadForSceneEdit, q
  <2>4. scenes[q.dev] # NoSteps => scenes[q.dev] \in Programs
    BY <1>0, <2>1
  <2> QED BY <1>1, <2>2, <2>3, <2>4 DEF LoadForSceneEdit
<1>2. CASE UpdateScene(r)
  <2>1. q.pc = "save" /\ q.pc \notin HoldPcs /\ q.dev \in Scenes /\ q.steps \in Programs
    BY <1>0, <1>2 DEF UpdateScene, Fits, HoldPcs
  <2>2. scenes' \in [Scenes -> Programs \cup {NoSteps}]
    BY <1>0, <1>2, <2>1 DEF UpdateScene, UpdateSceneRow
  <2> QED BY <1>2, <2>1, <2>2, OutsideEnds DEF UpdateScene
<1>3. CASE DeleteScene(r)
  <2>1. q.pc \notin HoldPcs
    BY <1>3 DEF DeleteScene, HoldPcs
  <2>2. scenes' \in [Scenes -> Programs \cup {NoSteps}]
    BY <1>0, <1>3 DEF DeleteScene, DeleteSceneRow
  <2> QED BY <1>3, <2>1, <2>2, OutsideEnds DEF DeleteScene
<1>4. CASE Run(r)
  <2> DEFINE steps == scenes[q.dev]
             empty == [Idle EXCEPT !.pc = "report", !.op = "run"]
             first == [Idle EXCEPT !.pc = "load", !.op = "run", !.steps = steps,
                                   !.dev = steps[1].dev, !.cmd = steps[1].cmd]
  <2>1. q.pc \notin HoldPcs /\ q.dev \in Scenes
    BY <1>4 DEF Run, HoldPcs
  <2>2. \/ req' = [req EXCEPT ![r] = Idle]
        \/ req' = [req EXCEPT ![r] = empty]
        \/ steps # NoSteps /\ steps # <<>> /\ req' = [req EXCEPT ![r] = first]
    BY <1>4 DEF Run
  <2>3. CASE req' = [req EXCEPT ![r] = Idle]
    BY <1>0, <1>4, <2>1, <2>3, OutsideEnds DEF Run
  <2>4. CASE req' = [req EXCEPT ![r] = empty]
    <3>1. /\ empty \in Requests /\ empty.pc = "report" /\ empty.op = "run"
          /\ empty.steps = <<>> /\ empty.results = <<>>
      BY IdleFits DEF Requests
    <3> HIDE DEF empty
    <3>2. Fits(empty) /\ Tries(empty) /\ empty.pc \notin HoldPcs
      BY <3>1, EmptySeq DEF Fits, Tries, HoldPcs
    <3> QED BY <1>0, <1>4, <2>1, <2>4, <3>1, <3>2, OutsideStep DEF Run
  <2>5. CASE steps # NoSteps /\ steps # <<>> /\ req' = [req EXCEPT ![r] = first]
    <3>1. steps \in Seq(Steps) /\ Len(steps) \in Nat \ {0} /\ 1 \in 1 .. Len(steps)
      <4>1. steps \in Seq(Steps)
        BY <1>0, <2>1, <2>5, DeviceConstants
      <4> QED BY <2>5, <4>1, EmptySeq, LenProperties
    <3>2. steps[1] \in Steps
      BY <3>1, ElementOfSeq
    <3>3. steps[1].dev \in Devices /\ steps[1].cmd \in CommandTypes
      BY <3>2 DEF Steps
    <3>4. steps[1].dev \notin Scenes
      BY <3>3, DeviceConstants
    <3> HIDE DEF steps
    <3>5. /\ first \in Requests /\ first.pc = "load" /\ first.op = "run" /\ first.steps = steps
          /\ first.results = <<>> /\ first.dev = steps[1].dev
      BY <3>1, <3>3, IdleFits DEF Requests
    <3> HIDE DEF first
    <3>6. Fits(first) /\ first.pc \notin HoldPcs
      BY <3>3, <3>5 DEF Fits, HoldPcs
    <3>7. Tries(first)
      BY <3>1, <3>4, <3>5, EmptySeq DEF Tries, HoldPcs
    <3> QED BY <1>0, <1>4, <2>1, <2>5, <3>5, <3>6, <3>7, OutsideStep DEF Run
  <2> QED BY <2>2, <2>3, <2>4, <2>5
<1>5. CASE Report(r)
  <2>1. q.pc \notin HoldPcs
    BY <1>5 DEF Report, HoldPcs
  <2> QED BY <1>0, <1>5, <2>1, OutsideEnds DEF Report
<1> QED BY <1>1, <1>2, <1>3, <1>4, <1>5
-----------------------------------------------------------------------------
\* The id of a new device is drawn: its creator is the only one to hold it.
LEMMA DrawKeeps == ASSUME IInv, NEW r \in Reqs, create(r) \/ adopt(r) PROVE IInv'
<1>1. PICK d \in Fresh, driver \in Drivables,
           c \in Configs \cup {AdoptConfig(dom) : dom \in Domains} : Draw(r, d, driver, c)
  BY DeviceConstants DEF create, adopt
<1> DEFINE row == [driver |-> driver, config |-> c, status |-> "unknown", online |-> FALSE]
           n == [Idle EXCEPT !.pc = "write", !.op = "create", !.dev = d, !.copy = row]
<1>2. /\ d \in Devices /\ devices[d] = Absent /\ d \notin deleted
      /\ \A q \in Reqs : req[q].pc = "idle" \/ req[q].dev # d
  BY DEF Fresh
<1>3. req[r].pc = "idle" /\ req' = [req EXCEPT ![r] = n]
  BY <1>1 DEF Draw
<1>4. UNCHANGED <<devices, scenes, deleted, told, shown, alert, drift, unsure>>
  BY <1>1 DEF Draw
<1>5. row \in RealRows /\ row.online = FALSE /\ row \in Copies /\ row.status \in Statuses
  BY RealRowIs DEF RealRows, Statuses
<1> HIDE DEF row
<1>6. /\ n \in Requests /\ n.pc = "write" /\ n.op = "create" /\ n.dev = d /\ n.copy = row
      /\ n.results = <<>> /\ n.alone = TRUE
  BY <1>2, <1>5, IdleFits DEF Requests
<1> HIDE DEF n
<1>7. Fits(n)
  BY <1>2, <1>5, <1>6 DEF Fits, HoldPcs, CommandOps
<1>8. Tries(n)
  BY <1>6 DEF Tries
<1>9. ReqInv' /\ req'[r] = n /\ \A q \in Reqs : q # r => req'[q] = req[q]
  BY <1>3, <1>6, <1>7, <1>8, ReqSet DEF IInv
<1>10. TablesInv'
  BY <1>4 DEF IInv, TablesInv
<1>11. ASSUME NEW x \in Devices PROVE DeviceInv(x)'
  <2>1. Publishing(x)' <=> Publishing(x)
    BY <1>3, <1>6, <1>9 DEF Publishing
  <2>2. Commanding(x)' <=> Commanding(x)
    BY <1>3, <1>6, <1>9 DEF Commanding, CommandOps
  <2>3. Same(x)
    BY <1>4 DEF Same
  <2> QED BY <2>1, <2>2, <2>3, SameDevice DEF IInv
<1>12. HolderInv(r)'
  <2>1. Known(req[r])' /\ Matches(req[r])'
    BY <1>2, <1>4, <1>6, <1>9 DEF Known, Matches, CommandOps
  <2>2. Sole(r)'
    BY <1>2, <1>6, <1>9 DEF Sole, HoldPcs
  <2> QED BY <2>1, <2>2 DEF HolderInv
<1>13. ASSUME NEW q \in Reqs, q # r PROVE HolderInv(q)'
  <2>1. req'[q] = req[q] /\ HolderInv(q) /\ Same(req[q].dev)
    BY <1>4, <1>9, <1>13 DEF IInv, Same
  <2>2. req[q].pc \in HoldPcs => (Sole(q) => Sole(q)')
    BY <1>2, <1>6, <1>9, <1>13 DEF Sole, HoldPcs
  <2> QED BY <2>1, <2>2, SameHolder
<1> QED BY <1>9, <1>10, <1>11, <1>12, <1>13 DEF IInv

\* A request that is not alone any more is the same otherwise.
LEMMA NotAlone ==
  ASSUME NEW q \in Requests, Fits(q), Tries(q)
  PROVE  LET n == [q EXCEPT !.alone = FALSE] IN
         /\ n \in Requests /\ Fits(n) /\ Tries(n) /\ n.alone = FALSE
         /\ n.pc = q.pc /\ n.op = q.op /\ n.dev = q.dev
<1> DEFINE n == [q EXCEPT !.alone = FALSE]
<1>1. n \in Requests /\ n.alone = FALSE
  BY DEF Requests
<1>2. /\ n.pc = q.pc /\ n.op = q.op /\ n.dev = q.dev /\ n.copy = q.copy /\ n.ok = q.ok
      /\ n.steps = q.steps /\ n.results = q.results /\ n.gone = q.gone
  BY DEF Requests
<1> HIDE DEF n
<1>3. Fits(n)
  BY <1>2 DEF Fits
<1>4. Tries(n)
  BY <1>2 DEF Tries
<1> QED BY <1>1, <1>2, <1>3, <1>4 DEF n

\* A request goes on with a copy of the row: whoever it meets is not alone any more, and
\* neither is it then.
LEMMA HoldKeeps ==
  ASSUME IInv, NEW r \in Reqs, NEW D \in Devices, req[r].dev = D, req[r].pc = "load",
         devices[D] # Absent, NEW pc \in {"driver", "write"}, NEW row \in RealRows,
         row.status = devices[D].status, row.online = devices[D].online,
         pc = "driver" => row = devices[D] /\ req[r].op \in CommandOps,
         pc = "write" => req[r].op \in {"update", "delete"},
         Hold(r, pc, row),
         UNCHANGED <<devices, scenes, deleted, told, shown, alert, drift, unsure>>
  PROVE  IInv'
<1> DEFINE free == Holders(D) = {}
           n == [req[r] EXCEPT !.pc = pc, !.copy = row, !.alone = free]
<1>1. req[r] \in Requests /\ Fits(req[r]) /\ Tries(req[r]) /\ r \notin Holders(D)
  BY DEF IInv, ReqInv, Holders
<1>2. req' = [q \in Reqs |-> IF q = r THEN n
                             ELSE IF q \in Holders(D) THEN [req[q] EXCEPT !.alone = FALSE]
                             ELSE req[q]]
  BY DEF Hold
<1>3. free \in BOOLEAN
  OBVIOUS
<1> HIDE DEF free
<1>4. /\ n \in Requests /\ n.pc = pc /\ n.copy = row /\ n.alone = free /\ n.dev = D
      /\ n.op = req[r].op /\ n.results = req[r].results /\ n.steps = req[r].steps
  <2>1. n \in Requests
    BY <1>1, <1>3, RealRowIs DEF Requests
  <2>2. /\ n.pc = pc /\ n.copy = row /\ n.alone = free /\ n.dev = req[r].dev
        /\ n.op = req[r].op /\ n.results = req[r].results /\ n.steps = req[r].steps
    BY <1>1 DEF Requests
  <2> QED BY <2>1, <2>2
<1>5. req'[r] = n
  BY <1>2
<1> HIDE DEF n
<1>6. Fits(n)
  BY <1>4, RealRowIs DEF Fits, HoldPcs, CommandOps
<1>7. Tries(n)
  BY <1>1, <1>4 DEF Tries, HoldPcs, CommandOps
<1>8. ASSUME NEW q \in Reqs, q # r
      PROVE  /\ req'[q] \in Requests /\ Fits(req'[q]) /\ Tries(req'[q])
             /\ req'[q].pc = req[q].pc /\ req'[q].dev = req[q].dev /\ req'[q].op = req[q].op
             /\ q \in Holders(D) => req'[q].alone = FALSE
             /\ q \notin Holders(D) => req'[q] = req[q]
  <2>1. req[q] \in Requests /\ Fits(req[q]) /\ Tries(req[q])
    BY DEF IInv, ReqInv
  <2>2. CASE q \notin Holders(D)
    <3>1. req'[q] = req[q]
      BY <1>2, <1>8, <2>2
    <3> QED BY <2>1, <2>2, <3>1
  <2>3. CASE q \in Holders(D)
    <3>1. req'[q] = [req[q] EXCEPT !.alone = FALSE]
      BY <1>2, <1>8, <2>3
    <3> QED BY <2>1, <2>3, <3>1, NotAlone
  <2> QED BY <2>2, <2>3
<1>9. ReqInv'
  <2>1. req' \in [Reqs -> Requests]
    <3>1. DOMAIN req' = Reqs /\ req' = [q \in Reqs |-> req'[q]]
      BY <1>2
    <3>2. \A q \in Reqs : req'[q] \in Requests
      BY <1>4, <1>5, <1>8
    <3> QED BY <3>1, <3>2
  <2>2. \A q \in Reqs : Fits(req'[q]) /\ Tries(req'[q])
    BY <1>5, <1>6, <1>7, <1>8
  <2> QED BY <2>1, <2>2 DEF ReqInv
<1>10. TablesInv'
  BY DEF IInv, TablesInv
<1>11. ASSUME NEW x \in Devices PROVE DeviceInv(x)'
  <2>1. Publishing(x)' <=> Publishing(x)
    BY <1>4, <1>5, <1>8 DEF Publishing
  <2>2. Commanding(x)' <=> Commanding(x)
    BY <1>4, <1>5, <1>8 DEF Commanding, CommandOps
  <2>3. Same(x)
    BY DEF Same
  <2> QED BY <2>1, <2>2, <2>3, SameDevice DEF IInv
<1>12. HolderInv(r)'
  <2>1. Known(req[r])' /\ Matches(req[r])'
    BY <1>4, <1>5 DEF Known, Matches, CommandOps
  <2>2. n.alone = TRUE => Sole(r)'
    BY <1>4, <1>5, <1>8 DEF Sole, HoldPcs, free, Holders
  <2> QED BY <1>4, <1>5, <2>1, <2>2 DEF HolderInv
<1>13. ASSUME NEW q \in Reqs, q # r PROVE HolderInv(q)'
  <2>1. HolderInv(q) /\ Same(req[q].dev)
    BY DEF IInv, Same
  <2>2. CASE q \notin Holders(D)
    <3>1. req'[q] = req[q]
      BY <1>8, <1>13, <2>2
    <3>2. req[q].pc \in HoldPcs => (Sole(q) => Sole(q)')
      <4>1. \A p \in Reqs : p # r => req'[p].pc = req[p].pc /\ req'[p].dev = req[p].dev
        BY <1>8
      <4>2. req'[r].dev = D /\ (req[q].pc \in HoldPcs => req[q].dev # D)
        BY <1>4, <1>5, <2>2 DEF Holders, HoldPcs
      <4> QED BY <1>13, <4>1, <4>2 DEF Sole
    <3> QED BY <2>1, <3>1, <3>2, SameHolder
  <2>3. CASE q \in Holders(D)
    <3>1. /\ req'[q].alone = FALSE /\ req'[q].pc = req[q].pc /\ req'[q].op = req[q].op
          /\ req'[q].dev = D /\ req[q].dev = D /\ req[q].pc \in HoldPcs
      BY <1>8, <1>13, <2>3 DEF Holders, HoldPcs
    <3>2. ~(req[q].pc = "write" /\ req[q].op = "create")
      BY <2>1, <3>1 DEF HolderInv, Known
    <3>3. Known(req[q])'
      BY <3>1, <3>2 DEF Known
    <3> QED BY <3>1, <3>2, <3>3 DEF HolderInv
  <2> QED BY <2>2, <2>3
<1> QED BY <1>9, <1>10, <1>11, <1>12, <1>13 DEF IInv
-----------------------------------------------------------------------------
\* A request lets go of its device without a write, a call to the vendor or an event.
LEMMA LetGo ==
  ASSUME IInv, NEW r \in Reqs, NEW n \in Requests, Fits(n), Tries(n), n.pc \notin HoldPcs,
         req' = [req EXCEPT ![r] = n],
         req[r].pc = "driver" \/ (req[r].pc = "write" /\ req[r].op \notin CommandOps),
         UNCHANGED <<devices, scenes, deleted, told, shown, alert, drift, unsure>>
  PROVE  IInv'
<1>1. req'[r] = n /\ \A q \in Reqs : q # r => req'[q] = req[q]
  BY ReqSet DEF IInv
<1>2. PICK D \in Devices : req[r].dev = D
  BY DEF IInv, ReqInv, Fits, HoldPcs
<1>3. Publishing(D)' <=> Publishing(D)
  BY <1>1 DEF Publishing, HoldPcs
<1>4. Commanding(D)' <=> Commanding(D)
  BY <1>1 DEF Commanding, HoldPcs
<1>5. \A x \in Devices : Same(x)
  BY DEF Same
<1>6. DeviceInv(D)'
  BY <1>3, <1>4, <1>5, SameDevice DEF IInv
<1>7. TablesInv'
  BY DEF IInv, TablesInv
<1>8. req[r].pc \in HoldPcs
  BY DEF HoldPcs
<1> QED BY <1>2, <1>5, <1>6, <1>7, <1>8, HolderStep

\* Loading for an edit ends the request or gives it a copy, edited.
LEMMA LoadForEditKeeps == ASSUME IInv, NEW r \in Reqs, LoadForEdit(r) PROVE IInv'
<1>1. PICK D \in Devices : req[r].dev = D
  BY DEF LoadForEdit, IInv, ReqInv, Fits, HoldPcs
<1> DEFINE row == devices[D]
<1>2. req[r].pc = "load" /\ req[r].pc \notin HoldPcs
  BY DEF LoadForEdit, HoldPcs
<1>3. UNCHANGED <<devices, scenes, deleted, told, shown, alert, drift, unsure>>
  BY DEF LoadForEdit
<1>4. CASE req' = [req EXCEPT ![r] = Idle]
  BY <1>2, <1>3, <1>4, OutsideEnds DEF IInv, TablesInv
<1>5. ASSUME row # Absent, req[r].op = "delete", Hold(r, "write", row) PROVE IInv'
  <2>1. row \in RealRows
    BY <1>5, RealRowIs DEF IInv, TablesInv
  <2> QED BY <1>1, <1>2, <1>3, <1>5, <2>1, HoldKeeps
<1>6. ASSUME row # Absent, req[r].op = "update", NEW driver \in Drivables \cup {row.driver},
             NEW c \in Configs \cup {row.config},
             Hold(r, "write", [row EXCEPT !.driver = driver, !.config = c])
      PROVE  IInv'
  <2> DEFINE new == [row EXCEPT !.driver = driver, !.config = c]
  <2>1. row \in RealRows
    BY <1>6, RealRowIs DEF IInv, TablesInv
  <2>2. new \in RealRows /\ new.status = row.status /\ new.online = row.online
    BY <2>1 DEF RealRows
  <2> HIDE DEF new
  <2>3. Hold(r, "write", new)
    BY <1>6 DEF new
  <2> QED BY <1>1, <1>2, <1>3, <1>6, <2>2, <2>3, HoldKeeps
<1> QED BY <1>1, <1>4, <1>5, <1>6 DEF LoadForEdit, GetByID

\* Loading for a command fails it or gives it a copy.
LEMMA LoadForCommandKeeps == ASSUME IInv, NEW r \in Reqs, LoadForCommand(r) PROVE IInv'
<1>1. PICK D \in Devices : req[r].dev = D
  BY DEF LoadForCommand
<1>2. req[r].pc = "load" /\ req[r].pc \notin HoldPcs /\ req[r].op \in CommandOps
  BY DEF LoadForCommand, HoldPcs, CommandOps
<1>3. UNCHANGED <<devices, scenes, deleted, told, shown, alert, drift, unsure>>
  BY DEF LoadForCommand
<1>4. ASSUME NEW q \in Returned(r, FALSE), req' = [req EXCEPT ![r] = q] PROVE IInv'
  <2>1. q \in Requests /\ Fits(q) /\ Tries(q) /\ q.pc \notin HoldPcs
    BY <1>1, <1>2, ReturnedFits DEF IInv
  <2> QED BY <1>2, <1>3, <1>4, <2>1, OutsideStep DEF IInv, TablesInv
<1>5. ASSUME devices[D] # Absent, Hold(r, "driver", devices[D]) PROVE IInv'
  <2>1. devices[D] \in RealRows
    BY <1>5, RealRowIs DEF IInv, TablesInv
  <2> QED BY <1>1, <1>2, <1>3, <1>5, <2>1, HoldKeeps
<1> QED BY <1>1, <1>4, <1>5 DEF LoadForCommand, GetByID

\* A request has written and goes on to publish what it holds.
LEMMA ToPublish ==
  ASSUME ReqInv, NEW r \in Reqs, req[r].pc = "write", req' = [req EXCEPT ![r].pc = "publish"]
  PROVE  \E n \in Requests :
           /\ req' = [req EXCEPT ![r] = n] /\ req'[r] = n /\ Fits(n) /\ Tries(n)
           /\ n.pc = "publish" /\ n.op = req[r].op /\ n.dev = req[r].dev /\ n.copy = req[r].copy
           /\ n.prev = req[r].prev /\ n.ok = req[r].ok /\ n.alone = req[r].alone
<1> DEFINE q == req[r]
           n == [q EXCEPT !.pc = "publish"]
<1>1. q \in Requests /\ Fits(q) /\ Tries(q) /\ q.pc = "write"
  BY DEF ReqInv
<1>2. req' = [req EXCEPT ![r] = n] /\ req'[r] = n
  BY DEF ReqInv
<1> HIDE DEF q
<1>3. n \in Requests
  BY <1>1 DEF Requests
<1>4. /\ n.pc = "publish" /\ n.op = q.op /\ n.dev = q.dev /\ n.copy = q.copy /\ n.prev = q.prev
      /\ n.ok = q.ok /\ n.alone = q.alone /\ n.results = q.results /\ n.steps = q.steps
  BY <1>1 DEF Requests
<1> HIDE DEF n
<1>5. Fits(n)
  BY <1>1, <1>4 DEF Fits, HoldPcs, CommandOps
<1>6. Tries(n)
  BY <1>1, <1>4 DEF Tries, HoldPcs
<1> QED BY <1>2, <1>3, <1>4, <1>5, <1>6 DEF q

\* The insertion of a new row.
LEMMA CreateKeeps == ASSUME IInv, NEW r \in Reqs, Create(r) PROVE IInv'
<1>1. /\ Fits(req[r]) /\ req[r].pc = "write" /\ req[r].op = "create" /\ HolderInv(r)
      /\ req[r].pc \in HoldPcs
  BY DEF Create, IInv, ReqInv, HoldPcs
<1>2. UNCHANGED <<scenes, deleted, told, shown, alert, unsure>>
  BY DEF Create
<1>3. CASE req' = [req EXCEPT ![r] = Idle] /\ UNCHANGED <<devices, drift>>
  <2>1. Idle.pc \notin HoldPcs /\ req[r].op \notin CommandOps
    BY <1>1, IdleFits DEF HoldPcs, CommandOps
  <2> QED BY <1>1, <1>2, <1>3, <2>1, IdleFits, LetGo
<1>4. CASE /\ req[r].dev \notin deleted /\ CreateRow(req[r].dev, req[r].copy)
           /\ req' = [req EXCEPT ![r].pc = "publish"] /\ UNCHANGED drift
  <2>1. PICK n \in Requests :
          /\ req' = [req EXCEPT ![r] = n] /\ req'[r] = n /\ Fits(n) /\ Tries(n)
          /\ n.pc = "publish" /\ n.op = "create" /\ n.dev = req[r].dev /\ n.copy = req[r].copy
          /\ n.alone = req[r].alone
    BY <1>1, <1>4, ToPublish DEF IInv
  <2>2. PICK D \in Devices : req[r].dev = D
    BY <1>1 DEF Fits
  <2>3. n.copy \in RealRows /\ n.copy # Absent /\ n.copy.online = FALSE
    BY <1>1, <2>1, RealRowIs DEF Fits, CommandOps
  <2>4. devices[D] = Absent /\ D \notin deleted /\ alert[D] = ""
    BY <1>1, <1>4, <2>2 DEF HolderInv, Known, IInv, DeviceInv
  <2>5. devices' = [devices EXCEPT ![D] = n.copy]
    BY <1>4, <2>1, <2>2 DEF CreateRow
  <2>6. devices'[D] = n.copy /\ \A x \in Devices : x # D => Same(x)
    BY <1>2, <1>4, <2>5 DEF Same, IInv, TablesInv
  <2>7. TablesInv'
    <3>1. devices' \in [Devices -> Rows]
      BY <2>3, <2>5, RealRowIs DEF IInv, TablesInv
    <3> QED BY <1>2, <1>4, <3>1 DEF IInv, TablesInv
  <2>8. DeviceInv(D)'
    <3>1. Publishing(D)'
      BY <2>1, <2>2 DEF Publishing
    <3> QED BY <1>2, <1>4, <2>3, <2>4, <2>6, <3>1 DEF DeviceInv
  <2>9. Matches(n)'
    BY <1>2, <1>4, <2>1, <2>2, <2>3, <2>4, <2>6 DEF Matches, CommandOps
  <2> QED BY <1>1, <2>1, <2>2, <2>3, <2>6, <2>7, <2>8, <2>9, HolderStep DEF HoldPcs
<1>5. CASE /\ req[r].dev \notin deleted /\ CreateRow(req[r].dev, req[r].copy)
           /\ req' = [req EXCEPT ![r] = Idle] /\ Settle(req[r].dev, FALSE)
  <2>1. PICK D \in Devices : req[r].dev = D
    BY <1>1 DEF Fits
  <2> DEFINE row == req[r].copy
  <2>2. row \in RealRows /\ row # Absent /\ row.online = FALSE
    BY <1>1, RealRowIs DEF Fits, CommandOps
  <2>3. devices' = [devices EXCEPT ![D] = row] /\ drift' = [drift EXCEPT ![D] = "now"]
    BY <1>5, <2>1 DEF CreateRow, Settle
  <2> HIDE DEF row
  <2>4. devices'[D] = row /\ drift'[D] = "now" /\ \A x \in Devices : x # D => Same(x)
    BY <1>2, <2>3 DEF Same, IInv, TablesInv
  <2>5. TablesInv'
    <3>1. devices' \in [Devices -> Rows]
      BY <2>2, <2>3, RealRowIs DEF IInv, TablesInv
    <3>2. drift' \in [Devices -> {"none", "now", "past"}]
      BY <2>3 DEF IInv, TablesInv
    <3> QED BY <1>2, <3>1, <3>2 DEF IInv, TablesInv
  <2>6. DeviceInv(D)'
    BY <1>2, <1>5, <2>1, <2>2, <2>4 DEF DeviceInv
  <2> QED BY <1>1, <1>5, <2>1, <2>2, <2>4, <2>5, <2>6, IdleFits, HolderStep DEF HoldPcs
<1> QED BY <1>3, <1>4, <1>5 DEF Create

\* A write that is not a command's changes what nobody's command has to settle.
LEMMA EditCommands ==
  ASSUME ReqInv, NEW r \in Reqs, req[r].op \notin CommandOps, NEW n \in Requests,
         req' = [req EXCEPT ![r] = n], n.op \notin CommandOps, NEW d
  PROVE  Commanding(d)' <=> Commanding(d)
<1>1. req'[r] = n /\ \A q \in Reqs : q # r => req'[q] = req[q]
  BY DEF ReqInv
<1> QED BY <1>1 DEF Commanding

\* The edited columns are written: status and online stay.
LEMMA UpdateKeeps == ASSUME IInv, NEW r \in Reqs, Update(r) PROVE IInv'
<1>1. /\ Fits(req[r]) /\ req[r].pc = "write" /\ req[r].op = "update" /\ HolderInv(r)
      /\ req[r].pc \in HoldPcs /\ req[r].op \notin CommandOps
  BY DEF Update, IInv, ReqInv, HoldPcs, CommandOps
<1>2. UNCHANGED <<scenes, deleted, told, shown, alert, drift, unsure>>
  BY DEF Update
<1>3. CASE req' = [req EXCEPT ![r] = Idle] /\ UNCHANGED devices
  <2>1. Idle.pc \notin HoldPcs
    BY IdleFits DEF HoldPcs
  <2> QED BY <1>1, <1>2, <1>3, <2>1, IdleFits, LetGo
<1>4. PICK D \in Devices : req[r].dev = D
  BY <1>1 DEF Fits
<1> DEFINE new == [devices[D] EXCEPT !.driver = req[r].copy.driver, !.config = req[r].copy.config]
<1>5. ASSUME UpdateRow(D, req[r].copy), Affected(D)
      PROVE  /\ devices[D] # Absent /\ D \notin deleted /\ devices'[D] = new /\ new # Absent
             /\ new.status = devices[D].status /\ new.online = devices[D].online
             /\ \A x \in Devices : x # D => Same(x)
             /\ TablesInv'
  <2>1. req[r].copy \in RealRows
    BY <1>1 DEF Fits, CommandOps
  <2>2. devices[D] # Absent /\ devices[D] \in RealRows /\ D \notin deleted
    <3>1. devices[D] # Absent
      BY <1>5, <2>1 DEF UpdateRow, Affected
    <3> QED BY <2>1, <3>1, RealRowIs DEF IInv, TablesInv, DeviceInv
  <2>3. devices' = [devices EXCEPT ![D] = new]
    BY <1>5, <2>1, <2>2 DEF UpdateRow, IInv, TablesInv
  <2>4. new \in RealRows /\ new.status = devices[D].status /\ new.online = devices[D].online
    BY <2>1, <2>2 DEF RealRows
  <2> HIDE DEF new
  <2>5. devices'[D] = new /\ new # Absent /\ \A x \in Devices : x # D => Same(x)
    BY <1>2, <2>1, <2>3, <2>4, RealRowIs DEF Same, IInv, TablesInv
  <2>6. devices' \in [Devices -> Rows]
    BY <2>3, <2>4, RealRowIs DEF IInv, TablesInv
  <2> QED BY <1>2, <2>2, <2>4, <2>5, <2>6 DEF IInv, TablesInv
<1> HIDE DEF new
<1>6. CASE /\ UpdateRow(D, req[r].copy) /\ Affected(D) /\ req' = [req EXCEPT ![r].pc = "publish"]
  <2>1. PICK n \in Requests :
          /\ req' = [req EXCEPT ![r] = n] /\ req'[r] = n /\ Fits(n) /\ Tries(n)
          /\ n.pc = "publish" /\ n.op = "update" /\ n.dev = req[r].dev /\ n.copy = req[r].copy
          /\ n.alone = req[r].alone
    BY <1>1, <1>6, ToPublish DEF IInv
  <2>2. DeviceInv(D)'
    <3>1. Publishing(D)'
      BY <1>4, <2>1 DEF Publishing
    <3>2. Commanding(D)' <=> Commanding(D)
      BY <1>1, <2>1, EditCommands DEF IInv, CommandOps
    <3>3. unsure[D] = FALSE /\ ~Commanding(D) /\ devices[D].online = TRUE =>
            ~Contradicts(devices[D].status, told[D])
      BY DEF IInv, DeviceInv
    <3>4. /\ devices'[D] # Absent /\ D \notin deleted' /\ told'[D] = told[D] /\ unsure'[D] = unsure[D]
          /\ devices'[D].status = devices[D].status /\ devices'[D].online = devices[D].online
      BY <1>2, <1>4, <1>5, <1>6
    <3> QED BY <3>1, <3>2, <3>3, <3>4 DEF DeviceInv
  <2>3. n.alone = TRUE => Matches(n)'
    <3> SUFFICES ASSUME n.alone = TRUE PROVE Matches(n)'
      OBVIOUS
    <3>1. /\ Sole(r) /\ n.copy.status = devices[D].status /\ n.copy.online = devices[D].online
      BY <1>1, <1>4, <2>1 DEF HolderInv, Matches
    <3>2. ~Publishing(D)
      BY <1>1, <1>4, <3>1 DEF Publishing, Sole, HoldPcs
    <3>3. drift[D] = "none" => (devices[D].online = TRUE <=> alert[D] = "online")
      BY <1>4, <1>5, <1>6, <3>2 DEF IInv, DeviceInv
    <3> QED BY <1>2, <1>4, <1>5, <1>6, <2>1, <3>1, <3>3 DEF Matches, CommandOps
  <2> QED BY <1>1, <1>4, <1>5, <1>6, <2>1, <2>2, <2>3, HolderStep DEF HoldPcs
<1>7. CASE UpdateRow(D, req[r].copy) /\ Affected(D) /\ req' = [req EXCEPT ![r] = Idle]
  <2>1. Idle.pc \notin HoldPcs /\ Idle.op \notin CommandOps /\ Idle \in Requests
    BY IdleFits DEF HoldPcs, CommandOps
  <2>2. DeviceInv(D)'
    <3>1. Publishing(D)' <=> Publishing(D)
      <4>1. req'[r] = Idle /\ \A q \in Reqs : q # r => req'[q] = req[q]
        BY <1>7 DEF IInv, ReqInv
      <4> QED BY <1>1, <2>1, <4>1 DEF Publishing, HoldPcs
    <3>2. Commanding(D)' <=> Commanding(D)
      BY <1>1, <1>7, <2>1, EditCommands DEF IInv
    <3>3. /\ devices[D] # Absent /\ devices'[D] # Absent /\ D \notin deleted
          /\ devices'[D].status = devices[D].status /\ devices'[D].online = devices[D].online
      BY <1>4, <1>5, <1>7
    <3>4. Current(D)' = Current(D)
      BY <1>2, <3>3 DEF Current
    <3>5. DeviceInv(D)
      BY DEF IInv
    <3> HIDE DEF Current
    <3> QED BY <1>2, <3>1, <3>2, <3>3, <3>4, <3>5 DEF DeviceInv
  <2> QED BY <1>1, <1>4, <1>5, <1>7, <2>1, <2>2, IdleFits, HolderStep
<1> QED BY <1>3, <1>4, <1>6, <1>7 DEF Update

\* The row is deleted.
LEMMA DeleteKeeps == ASSUME IInv, NEW r \in Reqs, Delete(r) PROVE IInv'
<1>1. /\ Fits(req[r]) /\ req[r].pc = "write" /\ req[r].op = "delete" /\ HolderInv(r)
      /\ req[r].pc \in HoldPcs /\ req[r].op \notin CommandOps
  BY DEF Delete, IInv, ReqInv, HoldPcs, CommandOps
<1>2. UNCHANGED <<scenes, told, shown, alert, unsure>>
  BY DEF Delete
<1>3. CASE req' = [req EXCEPT ![r] = Idle] /\ UNCHANGED <<devices, deleted, drift>>
  <2>1. Idle.pc \notin HoldPcs
    BY IdleFits DEF HoldPcs
  <2> QED BY <1>1, <1>2, <1>3, <2>1, IdleFits, LetGo
<1>4. CASE /\ DeleteRow(req[r].dev) /\ deleted' = deleted \cup {req[r].dev}
           /\ req' = [req EXCEPT ![r].pc = "publish"] /\ UNCHANGED drift
  <2>1. PICK n \in Requests :
          /\ req' = [req EXCEPT ![r] = n] /\ req'[r] = n /\ Fits(n) /\ Tries(n)
          /\ n.pc = "publish" /\ n.op = "delete" /\ n.dev = req[r].dev
          /\ n.alone = req[r].alone
    BY <1>1, <1>4, ToPublish DEF IInv
  <2>2. PICK D \in Devices : req[r].dev = D
    BY <1>1 DEF Fits
  <2>3. devices' = [devices EXCEPT ![D] = Absent] /\ deleted' = deleted \cup {D}
    BY <1>4, <2>2 DEF DeleteRow
  <2>4. devices'[D] = Absent /\ D \in deleted' /\ \A x \in Devices : x # D => Same(x)
    BY <1>2, <1>4, <2>3 DEF Same, IInv, TablesInv
  <2>5. TablesInv'
    BY <1>2, <1>4, <2>3, RealRowIs DEF IInv, TablesInv
  <2>6. DeviceInv(D)'
    <3>1. Publishing(D)'
      BY <2>1, <2>2 DEF Publishing
    <3> QED BY <2>4, <3>1, RealRowIs DEF DeviceInv
  <2>7. Matches(n)'
    BY <2>1, <2>2, <2>4 DEF Matches, CommandOps
  <2> QED BY <1>1, <2>1, <2>2, <2>4, <2>5, <2>6, <2>7, HolderStep DEF HoldPcs
<1>5. CASE /\ DeleteRow(req[r].dev) /\ deleted' = deleted \cup {req[r].dev}
           /\ req' = [req EXCEPT ![r] = Idle] /\ Settle(req[r].dev, FALSE)
  <2>1. PICK D \in Devices : req[r].dev = D
    BY <1>1 DEF Fits
  <2>2. /\ devices' = [devices EXCEPT ![D] = Absent] /\ deleted' = deleted \cup {D}
        /\ drift' = [drift EXCEPT ![D] = "now"]
    BY <1>5, <2>1 DEF DeleteRow, Settle
  <2>3. /\ devices'[D] = Absent /\ D \in deleted' /\ drift'[D] = "now"
        /\ \A x \in Devices : x # D => Same(x)
    BY <1>2, <2>2 DEF Same, IInv, TablesInv
  <2>4. TablesInv'
    <3>1. devices' \in [Devices -> Rows] /\ deleted' \subseteq Devices
      BY <2>2, RealRowIs DEF IInv, TablesInv
    <3>2. drift' \in [Devices -> {"none", "now", "past"}]
      BY <2>2 DEF IInv, TablesInv
    <3> QED BY <1>2, <3>1, <3>2 DEF IInv, TablesInv
  <2>5. DeviceInv(D)'
    BY <2>3, RealRowIs DEF DeviceInv
  <2> QED BY <1>1, <1>5, <2>1, <2>3, <2>4, <2>5, IdleFits, HolderStep DEF HoldPcs
<1> QED BY <1>3, <1>4, <1>5 DEF Delete

\* The event of an edit: one that was alone says what the row says.
LEMMA PublishEditKeeps == ASSUME IInv, NEW r \in Reqs, PublishEdit(r) PROVE IInv'
<1>1. /\ req[r] \in Requests /\ Fits(req[r]) /\ req[r].pc = "publish" /\ HolderInv(r)
      /\ req[r].op \in {"create", "update", "delete"}
      /\ req[r].pc \in HoldPcs /\ req[r].op \notin CommandOps
  BY DEF PublishEdit, IInv, ReqInv, HoldPcs, CommandOps
<1>2. UNCHANGED <<devices, scenes, deleted, told, alert>>
  BY DEF PublishEdit
<1>3. PICK D \in Devices : req[r].dev = D
  BY <1>1 DEF Fits
<1>4. req' = [req EXCEPT ![r] = Idle] /\ req'[r] = Idle /\ \A q \in Reqs : q # r => req'[q] = req[q]
  BY DEF PublishEdit, IInv, ReqInv
<1> DEFINE event == IF req[r].op = "delete" THEN Gone
                    ELSE [status |-> req[r].copy.status, online |-> req[r].copy.online]
<1>5. /\ shown' = [shown EXCEPT ![D] = event]
      /\ drift' = [drift EXCEPT ![D] = IF ~req[r].alone THEN "now" ELSE IF @ = "none" THEN @ ELSE "past"]
      /\ unsure' = [unsure EXCEPT ![D] = @ \/ ~req[r].alone]
  BY <1>3 DEF PublishEdit, publish, Settle
<1>6. \A x \in Devices : x # D => Same(x)
  BY <1>2, <1>5 DEF Same, IInv, TablesInv
<1>7. TablesInv'
  <2>1. req[r].copy.status \in Statuses /\ req[r].copy.online \in BOOLEAN
    <3>1. req[r].copy \in Copies
      BY <1>1 DEF Requests
    <3> QED BY <1>1, <3>1 DEF Fits, Copies, RealRows
  <2>2. event \in [status : Statuses, online : BOOLEAN] \cup {Unseen, Gone}
    BY <2>1
  <2> HIDE DEF event
  <2>3. shown' \in [Devices -> [status : Statuses, online : BOOLEAN] \cup {Unseen, Gone}]
    BY <1>5, <2>2 DEF IInv, TablesInv
  <2>4. drift' \in [Devices -> {"none", "now", "past"}]
    BY <1>5 DEF IInv, TablesInv
  <2>5. unsure' \in [Devices -> BOOLEAN]
    BY <1>5 DEF IInv, TablesInv
  <2> QED BY <1>2, <2>3, <2>4, <2>5 DEF IInv, TablesInv
<1>8. Known(req[r])
  BY <1>1 DEF HolderInv
<1>9. devices[D] # Absent \/ D \in deleted
  BY <1>1, <1>3, <1>8 DEF Known
<1>10. DeviceInv(D)'
  <2>1. CASE req[r].alone = TRUE
    <3>1. Sole(r) /\ Matches(req[r])
      BY <1>1, <2>1 DEF HolderInv
    <3>2. shown'[D] = event /\ unsure'[D] = unsure[D] /\ (drift'[D] = "none" => drift[D] = "none")
      BY <1>5, <2>1 DEF IInv, TablesInv
    <3>3. event = Current(D)
      BY <1>1, <1>3, <3>1 DEF Matches, Current, IInv, DeviceInv
    <3>4. Current(D)' = Current(D)
      BY <1>2 DEF Current
    <3>5. Commanding(D)' <=> Commanding(D)
      BY <1>1, <1>4, IdleFits, EditCommands DEF IInv, CommandOps
    <3>6. drift[D] = "none" /\ devices[D] # Absent => (devices[D].online = TRUE <=> alert[D] = "online")
      BY <1>1, <1>3, <3>1 DEF Matches, IInv, DeviceInv
    <3> HIDE DEF event
    <3>7. DeviceInv(D)
      BY DEF IInv
    <3> QED BY <1>2, <1>9, <3>2, <3>3, <3>4, <3>5, <3>6, <3>7 DEF DeviceInv
  <2>2. CASE req[r].alone = FALSE
    <3>1. drift'[D] = "now" /\ unsure'[D] = TRUE
      BY <1>5, <2>2 DEF IInv, TablesInv
    <3>2. D \in deleted => devices[D] = Absent
      BY DEF IInv, DeviceInv
    <3> QED BY <1>2, <1>9, <3>1, <3>2 DEF DeviceInv
  <2> QED BY <1>1, <2>1, <2>2 DEF Requests
<1> QED BY <1>1, <1>2, <1>3, <1>4, <1>6, <1>7, <1>9, <1>10, IdleFits, HolderStep DEF HoldPcs
-----------------------------------------------------------------------------
\* The vendor's call is on its way to the row: until that is settled only the request knows.
LEMMA CallKeeps ==
  ASSUME IInv, NEW r \in Reqs, req[r].pc = "driver", NEW ok \in BOOLEAN, NEW status \in Statuses,
         NEW call, told' = told \/ told' = [told EXCEPT ![req[r].dev] = call],
         ok = TRUE => told' = [told EXCEPT ![req[r].dev] = call] /\ ~Contradicts(status, call),
         req' = [req EXCEPT ![r].pc = "write", ![r].ok = ok, ![r].prev = req[r].copy.online,
                            ![r].token = FALSE, ![r].copy = Reading(status, ok)],
         UNCHANGED <<devices, scenes, deleted, shown, alert, drift, unsure>>
  PROVE  IInv'
<1>0. ReqInv
  BY DEF IInv
<1>1. PICK n \in Requests :
        /\ req' = [req EXCEPT ![r] = n] /\ req'[r] = n /\ Fits(n) /\ Tries(n)
        /\ n.pc = "write" /\ n.op = req[r].op /\ n.dev = req[r].dev /\ n.ok = ok
        /\ n.prev = req[r].copy.online /\ n.copy.status = status /\ n.copy.online = ok
        /\ n.alone = req[r].alone
  <2> DEFINE q == req[r]
             new == Reading(status, ok)
             n == [q EXCEPT !.pc = "write", !.ok = ok, !.prev = q.copy.online, !.token = FALSE,
                            !.copy = new]
  <2>1. q \in Requests /\ Fits(q) /\ Tries(q) /\ q.pc = "driver"
    BY <1>0 DEF ReqInv
  <2>2. req' = [req EXCEPT ![r] = n] /\ req'[r] = n
    BY <1>0 DEF ReqInv
  <2>3. new \in Copies /\ new.status = status /\ new.online = ok
    BY DEF Reading, Absent, Copies
  <2>4. q.op \in CommandOps /\ q.dev \in Devices /\ q.copy.online \in BOOLEAN
    BY <2>1 DEF Fits, RealRows, HoldPcs
  <2> HIDE DEF q, new
  <2>5. n \in Requests
    BY <2>1, <2>3, <2>4 DEF Requests
  <2>6. /\ n.pc = "write" /\ n.op = q.op /\ n.dev = q.dev /\ n.copy = new /\ n.prev = q.copy.online
        /\ n.ok = ok /\ n.alone = q.alone /\ n.results = q.results /\ n.steps = q.steps
    BY <2>1 DEF Requests
  <2> HIDE DEF n
  <2>7. Fits(n)
    BY <2>3, <2>4, <2>6 DEF Fits, HoldPcs, CommandOps
  <2>8. Tries(n)
    BY <2>1, <2>6 DEF Tries, HoldPcs
  <2> QED BY <2>2, <2>3, <2>5, <2>6, <2>7, <2>8 DEF q
<1>2. PICK D \in Devices : req[r].dev = D
  BY DEF IInv, ReqInv, Fits, HoldPcs
<1>3. req[r].op \in CommandOps /\ req[r].copy \in RealRows /\ req[r].pc \in HoldPcs /\ HolderInv(r)
  BY DEF IInv, ReqInv, Fits, HoldPcs
<1>4. told = [d \in Devices |-> told[d]]
  BY DEF IInv, TablesInv
<1>5. /\ \A x \in Devices : x # D => told'[x] = told[x]
      /\ told' = [d \in Devices |-> told'[d]]
      /\ ok = TRUE => ~Contradicts(status, told'[D])
  BY <1>2, <1>4
<1>6. \A x \in Devices : x # D => Same(x)
  BY <1>5 DEF Same
<1>7. TablesInv'
  BY <1>5 DEF IInv, TablesInv
<1>8. DeviceInv(D)'
  <2>1. Publishing(D)' <=> Publishing(D)
    <3>1. \A q \in Reqs : q # r => req'[q] = req[q]
      BY <1>1 DEF IInv, ReqInv
    <3> QED BY <1>1, <3>1 DEF Publishing
  <2>2. Commanding(D)'
    BY <1>1, <1>2, <1>3 DEF Commanding
  <2>3. Current(D)' = Current(D)
    BY DEF Current
  <2>4. DeviceInv(D)
    BY DEF IInv
  <2> HIDE DEF Current
  <2> QED BY <2>1, <2>2, <2>3, <2>4 DEF DeviceInv
<1>9. Known(req[r])
  BY <1>3 DEF HolderInv
<1>10. devices'[D] # Absent \/ D \in deleted'
  BY <1>2, <1>9 DEF Known
<1>11. n.alone = TRUE => Matches(n)'
  <2> SUFFICES ASSUME n.alone = TRUE PROVE Matches(n)'
    OBVIOUS
  <2>1. req[r].copy = devices[D]
    BY <1>1, <1>2, <1>3 DEF HolderInv, Matches
  <2>2. devices[D] # Absent
    BY <1>3, <2>1, RealRowIs
  <2> QED BY <1>1, <1>2, <1>3, <1>5, <2>1, <2>2 DEF Matches, CommandOps
<1>12. ~(n.pc = "write" /\ n.op = "create")
  BY <1>1, <1>3 DEF CommandOps
<1> QED BY <1>1, <1>2, <1>3, <1>6, <1>7, <1>8, <1>10, <1>11, <1>12, HolderStep

\* The three ways a driver returns.
LEMMA DriverKeeps ==
  ASSUME IInv, NEW r \in Reqs, DriverAnswers(r) \/ DriverRefuses(r) \/ DriverFails(r)
  PROVE  IInv'
<1>1. req[r].pc = "driver"
  BY DEF DriverAnswers, DriverRefuses, DriverFails, Ready
<1>2. req[r].op \in CommandOps /\ req[r].copy \in RealRows
  BY <1>1 DEF IInv, ReqInv, Fits
<1>3. req[r].copy.driver \in DriverNames /\ req[r].copy.status \in Statuses
  BY <1>2, RealRowIs
<1>4. /\ Outcome(r).status \in Statuses
      /\ Outcome(r).kind = "call" => ~Contradicts(Outcome(r).status, Outcome(r).call)
  BY <1>3, DriversConsistent DEF Outcome
<1>5. CASE DriverAnswers(r)
  <2>1. /\ Outcome(r).kind = "call" /\ told' = [told EXCEPT ![req[r].dev] = Outcome(r).call]
        /\ req' = [req EXCEPT ![r].pc = "write", ![r].ok = TRUE, ![r].prev = req[r].copy.online,
                              ![r].token = FALSE, ![r].copy = Reading(Outcome(r).status, TRUE)]
        /\ UNCHANGED <<devices, scenes, deleted, shown, alert, drift, unsure>>
    BY <1>5 DEF DriverAnswers
  <2> QED BY <1>1, <1>4, <2>1, CallKeeps
<1>6. CASE DriverFails(r)
  <2>1. /\ told' = told \/ told' = [told EXCEPT ![req[r].dev] = Outcome(r).call]
        /\ req' = [req EXCEPT ![r].pc = "write", ![r].ok = FALSE, ![r].prev = req[r].copy.online,
                              ![r].token = FALSE, ![r].copy = Reading(req[r].copy.status, FALSE)]
        /\ UNCHANGED <<devices, scenes, deleted, shown, alert, drift, unsure>>
    BY <1>6 DEF DriverFails, Failed
  <2> QED BY <1>1, <1>3, <2>1, CallKeeps
<1>7. CASE DriverRefuses(r)
  <2>1. PICK q \in Returned(r, FALSE) : req' = [req EXCEPT ![r] = q]
    BY <1>7 DEF DriverRefuses
  <2>2. q \in Requests /\ Fits(q) /\ Tries(q) /\ q.pc \notin HoldPcs
    BY <1>1, <1>2, ReturnedFits DEF IInv, HoldPcs
  <2> QED BY <1>1, <1>7, <2>1, <2>2, LetGo DEF DriverRefuses
<1> QED BY <1>5, <1>6, <1>7

\* The driver gets its token, or an error instead.
LEMMA TokenKeeps == ASSUME IInv, NEW r \in Reqs, CurrentToken(r) PROVE IInv'
<1>1. req[r].pc = "driver" /\ req[r].pc \in HoldPcs
  BY DEF CurrentToken, HoldPcs
<1>2. UNCHANGED <<devices, scenes, deleted, told, shown, alert, drift, unsure>>
  BY DEF CurrentToken
<1>3. req[r] \in Requests /\ Fits(req[r]) /\ Tries(req[r]) /\ HolderInv(r)
  BY DEF IInv, ReqInv
<1>4. PICK D \in Devices : req[r].dev = D
  BY <1>1, <1>3 DEF Fits
<1>5. CASE Failed(r)
  <2>1. req[r].copy.status \in Statuses
    BY <1>1, <1>3, RealRowIs DEF Fits
  <2> QED BY <1>1, <1>2, <1>5, <2>1, CallKeeps DEF Failed
<1>6. CASE req' = [req EXCEPT ![r].token = TRUE]
  <2>1. PICK n \in Requests :
          /\ req' = [req EXCEPT ![r] = n] /\ req'[r] = n /\ Fits(n) /\ Tries(n)
          /\ n.pc = "driver" /\ n.op = req[r].op /\ n.dev = D /\ n.copy = req[r].copy
          /\ n.alone = req[r].alone
    <3> DEFINE q == req[r]
               n == [q EXCEPT !.token = TRUE]
    <3>1. req' = [req EXCEPT ![r] = n] /\ req'[r] = n
      BY <1>6 DEF IInv, ReqInv
    <3>2. /\ n \in Requests /\ n.pc = q.pc /\ n.op = q.op /\ n.dev = q.dev /\ n.copy = q.copy
          /\ n.alone = q.alone /\ n.results = q.results /\ n.steps = q.steps
      BY <1>3 DEF Requests
    <3> HIDE DEF n
    <3>3. Fits(n) /\ Tries(n)
      <4>1. Fits(n)
        BY <1>1, <1>3, <3>2 DEF Fits
      <4>2. Tries(n)
        BY <1>1, <1>3, <3>2 DEF Tries
      <4> QED BY <4>1, <4>2
    <3> QED BY <1>1, <1>4, <3>1, <3>2, <3>3
  <2>2. \A o \in Reqs : o # r => req'[o] = req[o]
    BY <1>6 DEF IInv, ReqInv
  <2>3. \A x \in Devices : Same(x)
    BY <1>2 DEF Same
  <2>4. DeviceInv(D)'
    <3>1. Publishing(D)' <=> Publishing(D)
      BY <1>1, <2>1, <2>2 DEF Publishing
    <3>2. Commanding(D)' <=> Commanding(D)
      BY <1>1, <2>1, <2>2 DEF Commanding
    <3> QED BY <2>3, <3>1, <3>2, SameDevice DEF IInv
  <2>5. TablesInv'
    BY <1>2 DEF IInv, TablesInv
  <2>6. devices'[D] # Absent \/ D \in deleted'
    BY <1>1, <1>2, <1>3, <1>4 DEF HolderInv, Known
  <2>7. n.alone = TRUE => Matches(n)'
    <3> SUFFICES ASSUME n.alone = TRUE PROVE Matches(n)'
      OBVIOUS
    <3>1. n.copy = devices[D]
      BY <1>1, <1>3, <1>4, <2>1 DEF HolderInv, Matches
    <3> QED BY <1>2, <2>1, <3>1 DEF Matches
  <2> QED BY <1>1, <1>4, <2>1, <2>3, <2>4, <2>5, <2>6, <2>7, HolderStep
<1> QED BY <1>5, <1>6 DEF CurrentToken

\* The state is recorded, or it is not and history says so.
LEMMA RecordKeeps == ASSUME IInv, NEW r \in Reqs, RecordState(r) PROVE IInv'
<1>1. /\ req[r] \in Requests /\ Fits(req[r]) /\ Tries(req[r]) /\ HolderInv(r)
      /\ req[r].pc = "write" /\ req[r].op \in CommandOps /\ req[r].pc \in HoldPcs
  BY DEF RecordState, IInv, ReqInv, HoldPcs, CommandOps
<1>2. UNCHANGED <<scenes, deleted, told, shown, alert>>
  BY DEF RecordState
<1>3. PICK D \in Devices : req[r].dev = D
  BY <1>1 DEF Fits
<1>4. ~(req[r].pc = "write" /\ req[r].op = "create")
  BY <1>1 DEF CommandOps
<1>5. devices[D] # Absent \/ D \in deleted
  BY <1>1, <1>3, <1>4 DEF HolderInv, Known
<1>6. D \in deleted => devices[D] = Absent
  BY DEF IInv, DeviceInv
<1> DEFINE row == req[r].copy
           new == [devices[D] EXCEPT !.status = row.status, !.online = row.online]
<1>7. ASSUME UpdateState(D, row), Affected(D)
      PROVE  /\ devices[D] # Absent /\ devices' = [devices EXCEPT ![D] = new]
             /\ devices'[D] = new /\ new # Absent /\ D \notin deleted
             /\ new.status = row.status /\ new.online = row.online
             /\ devices' \in [Devices -> Rows]
  <2>1. row.status \in Statuses /\ row.online \in BOOLEAN
    <3>1. row \in Copies
      BY <1>1 DEF Requests
    <3> QED BY <1>1, <3>1 DEF Fits, Copies, RealRows
  <2>2. devices[D] # Absent /\ devices[D] \in RealRows
    <3>1. devices[D] # Absent
      BY <1>7 DEF UpdateState, Affected
    <3> QED BY <3>1, RealRowIs DEF IInv, TablesInv
  <2>3. devices' = [devices EXCEPT ![D] = new]
    BY <1>7, <2>2 DEF UpdateState, IInv, TablesInv
  <2>4. new \in RealRows /\ new.status = row.status /\ new.online = row.online
    BY <2>1, <2>2 DEF RealRows
  <2> HIDE DEF new
  <2>5. devices'[D] = new /\ new # Absent /\ devices' \in [Devices -> Rows]
    BY <2>3, <2>4, RealRowIs DEF IInv, TablesInv
  <2> QED BY <1>6, <2>2, <2>3, <2>4, <2>5
<1> HIDE DEF row, new
<1>8. CASE /\ UpdateState(D, row) /\ Affected(D)
            /\ req' = [req EXCEPT ![r].pc = "publish"] /\ UNCHANGED <<drift, unsure>>
  <2>1. PICK n \in Requests :
          /\ req' = [req EXCEPT ![r] = n] /\ req'[r] = n /\ Fits(n) /\ Tries(n)
          /\ n.pc = "publish" /\ n.op = req[r].op /\ n.dev = req[r].dev /\ n.copy = row
          /\ n.prev = req[r].prev /\ n.ok = req[r].ok /\ n.alone = req[r].alone
    BY <1>1, <1>8, ToPublish DEF IInv, row
  <2>2. \A x \in Devices : x # D => Same(x)
    BY <1>2, <1>7, <1>8 DEF Same, IInv, TablesInv
  <2>3. TablesInv'
    BY <1>2, <1>7, <1>8 DEF IInv, TablesInv
  <2>4. DeviceInv(D)'
    <3>1. Publishing(D)' /\ Commanding(D)'
      BY <1>1, <1>3, <2>1 DEF Publishing, Commanding
    <3> QED BY <1>2, <1>7, <1>8, <3>1 DEF DeviceInv
  <2>5. n.alone = TRUE => Matches(n)'
    <3> SUFFICES ASSUME n.alone = TRUE PROVE Matches(n)'
      OBVIOUS
    <3>1. /\ Sole(r) /\ n.prev = devices[D].online
          /\ n.ok = TRUE => ~Contradicts(n.copy.status, told[D])
      BY <1>1, <1>3, <2>1 DEF HolderInv, Matches, row
    <3>2. ~Publishing(D)
      BY <1>1, <1>3, <3>1 DEF Publishing, Sole, HoldPcs
    <3>3. drift[D] = "none" => (devices[D].online = TRUE <=> alert[D] = "online")
      BY <1>7, <1>8, <3>2 DEF IInv, DeviceInv
    <3>4. /\ devices'[D] # Absent /\ row.status = devices'[D].status
          /\ row.online = devices'[D].online
      BY <1>7, <1>8
    <3>5. /\ UNCHANGED <<told, alert, drift>> /\ n.dev = D /\ n.pc = "publish" /\ n.copy = row
          /\ n.op # "delete" /\ n.op \notin {"create", "update"}
      BY <1>1, <1>2, <1>3, <1>8, <2>1 DEF CommandOps
    <3> QED BY <3>1, <3>3, <3>4, <3>5 DEF Matches
  <2>6. devices'[D] # Absent
    BY <1>7, <1>8
  <2> QED BY <1>1, <1>3, <2>1, <2>2, <2>3, <2>4, <2>5, <2>6, HolderStep DEF HoldPcs
<1>9. CASE /\ UpdateState(D, row) /\ Affected(D) /\ req[r].ok /\ Settle(D, FALSE)
            /\ unsure' = [unsure EXCEPT ![D] = ~req[r].alone]
            /\ \E q \in Returned(r, FALSE) : req' = [req EXCEPT ![r] = q]
  <2>1. PICK q \in Returned(r, FALSE) : req' = [req EXCEPT ![r] = q]
    BY <1>9
  <2>2. q \in Requests /\ Fits(q) /\ Tries(q) /\ q.pc \notin HoldPcs
    BY <1>1, ReturnedFits DEF IInv
  <2>3. /\ drift' = [drift EXCEPT ![D] = "now"] /\ req[r].alone \in BOOLEAN /\ req[r].ok = TRUE
        /\ drift' \in [Devices -> {"none", "now", "past"}]
    BY <1>1, <1>9 DEF Settle, IInv, TablesInv, Requests
  <2>4. drift'[D] = "now" /\ unsure'[D] = ~req[r].alone
    BY <1>9, <2>3 DEF IInv, TablesInv
  <2>5. \A x \in Devices : x # D => Same(x)
    BY <1>2, <1>7, <1>9, <2>3 DEF Same, IInv, TablesInv
  <2>6. TablesInv'
    <3>1. unsure' \in [Devices -> BOOLEAN]
      BY <1>9, <2>3 DEF IInv, TablesInv
    <3> QED BY <1>2, <1>7, <1>9, <2>3, <3>1 DEF IInv, TablesInv
  <2>7. DeviceInv(D)'
    <3>1. unsure'[D] = FALSE => req[r].alone = TRUE
      BY <2>3, <2>4
    <3>2. req[r].alone = TRUE => ~Contradicts(row.status, told[D])
      BY <1>1, <1>3, <2>3 DEF HolderInv, Matches, row
    <3> QED BY <1>2, <1>7, <1>9, <2>4, <3>1, <3>2 DEF DeviceInv
  <2> QED BY <1>1, <1>3, <1>7, <1>9, <2>1, <2>2, <2>5, <2>6, <2>7, HolderStep
<1>10. ASSUME UNCHANGED <<devices, drift>>, unsure' = [unsure EXCEPT ![req[r].dev] = TRUE],
             NEW n \in Requests, Fits(n), Tries(n), req' = [req EXCEPT ![r] = n],
             \/ n.pc \notin HoldPcs
             \/ n.pc = "publish" /\ n.dev = D /\ n.alone = FALSE
      PROVE  IInv'
  <2>1. unsure'[D] = TRUE /\ \A x \in Devices : x # D => Same(x)
    BY <1>2, <1>3, <1>10 DEF Same, IInv, TablesInv
  <2>2. TablesInv'
    BY <1>2, <1>10 DEF IInv, TablesInv
  <2>3. ~Publishing(D)' => ~Publishing(D)
    <3>1. \A q \in Reqs : q # r => req'[q] = req[q]
      BY <1>10 DEF IInv, ReqInv
    <3> QED BY <1>1, <3>1 DEF Publishing
  <2>4. DeviceInv(D)'
    <3>1. Current(D)' = Current(D)
      BY <1>2, <1>10 DEF Current
    <3>2. DeviceInv(D)
      BY DEF IInv
    <3> HIDE DEF Current
    <3> QED BY <1>2, <1>10, <2>1, <2>3, <3>1, <3>2 DEF DeviceInv
  <2>5. devices'[D] # Absent \/ D \in deleted'
    BY <1>2, <1>5, <1>10
  <2> QED BY <1>1, <1>3, <1>10, <2>1, <2>2, <2>4, <2>5, HolderStep
<1>11. CASE /\ unsure' = [unsure EXCEPT ![req[r].dev] = TRUE] /\ UNCHANGED <<devices, drift>>
           /\ \E q \in IF req[r].ok THEN Returned(r, FALSE)
                       ELSE {[req[r] EXCEPT !.pc = "publish", !.alone = FALSE]} :
                req' = [req EXCEPT ![r] = q]
  <2>1. CASE req[r].ok = TRUE
    <3>1. PICK q \in Returned(r, FALSE) : req' = [req EXCEPT ![r] = q]
      BY <1>11, <2>1
    <3>2. q \in Requests /\ Fits(q) /\ Tries(q) /\ q.pc \notin HoldPcs
      BY <1>1, ReturnedFits DEF IInv
    <3> QED BY <1>10, <1>11, <3>1, <3>2
  <2>2. CASE req[r].ok = FALSE
    <3> DEFINE q == req[r]
               n == [q EXCEPT !.pc = "publish", !.alone = FALSE]
    <3>1. req' = [req EXCEPT ![r] = n]
      BY <1>11, <2>2
    <3> HIDE DEF q
    <3>2. /\ n \in Requests /\ n.pc = "publish" /\ n.alone = FALSE /\ n.dev = q.dev
          /\ n.op = q.op /\ n.copy = q.copy /\ n.ok = q.ok
          /\ n.results = q.results /\ n.steps = q.steps
      BY <1>1 DEF Requests, q
    <3> HIDE DEF n
    <3>3. Fits(n)
      BY <1>1, <3>2 DEF Fits, HoldPcs, CommandOps, q
    <3>4. Tries(n)
      BY <1>1, <3>2 DEF Tries, HoldPcs, q
    <3> QED BY <1>3, <1>10, <1>11, <3>1, <3>2, <3>3, <3>4 DEF q
  <2> QED BY <1>1, <2>1, <2>2 DEF Requests
<1> QED BY <1>3, <1>8, <1>9, <1>11 DEF RecordState, row

\* The event and the alert of a command: those of one that was alone fit the row, and the
\* status it recorded is not contradicted by the vendor.
LEMMA PublishStateKeeps == ASSUME IInv, NEW r \in Reqs, PublishState(r) PROVE IInv'
<1>1. /\ req[r] \in Requests /\ Fits(req[r]) /\ req[r].pc = "publish" /\ HolderInv(r)
      /\ req[r].op \in CommandOps /\ req[r].op # "delete" /\ req[r].pc \in HoldPcs
  BY DEF PublishState, IInv, ReqInv, HoldPcs, CommandOps
<1>2. UNCHANGED <<devices, scenes, deleted, told>>
  BY DEF PublishState
<1>3. PICK D \in Devices : req[r].dev = D
  BY <1>1 DEF Fits
<1>4. PICK n \in Returned(r, req[r].ok) : req' = [req EXCEPT ![r] = n]
  BY DEF PublishState
<1>5. req[r].ok \in BOOLEAN /\ req[r].alone \in BOOLEAN /\ req[r].prev \in BOOLEAN
  BY <1>1 DEF Requests
<1>6. n \in Requests /\ Fits(n) /\ Tries(n) /\ n.pc \notin HoldPcs
  BY <1>1, <1>5, ReturnedFits DEF IInv
<1>7. req[r].copy.status \in Statuses /\ req[r].copy.online \in BOOLEAN
  <2>1. req[r].copy \in Copies
    BY <1>1 DEF Requests
  <2> QED BY <1>1, <2>1 DEF Fits, Copies, RealRows
<1> DEFINE event == [status |-> req[r].copy.status, online |-> req[r].copy.online]
           word == IF req[r].copy.online THEN "online" ELSE "offline"
<1>8. /\ shown' = [shown EXCEPT ![D] = event]
      /\ alert' = IF Alerted(r) THEN [alert EXCEPT ![D] = word] ELSE alert
      /\ drift' = [drift EXCEPT ![D] = IF ~req[r].alone THEN "now" ELSE IF @ = "none" THEN @ ELSE "past"]
      /\ unsure' = [unsure EXCEPT ![D] = IF req[r].alone /\ req[r].ok THEN FALSE
                                         ELSE @ \/ ~req[r].alone]
  BY <1>1, <1>3 DEF PublishState, publish, Settle
<1>9. \A x \in Devices : x # D => Same(x)
  BY <1>2, <1>8 DEF Same, IInv, TablesInv
<1>10. TablesInv'
  <2>1. event \in [status : Statuses, online : BOOLEAN] /\ word \in {"", "online", "offline"}
    BY <1>7
  <2> HIDE DEF event, word
  <2>2. shown' \in [Devices -> [status : Statuses, online : BOOLEAN] \cup {Unseen, Gone}]
    BY <1>8, <2>1 DEF IInv, TablesInv
  <2>3. alert' \in [Devices -> {"", "online", "offline"}]
    BY <1>8, <2>1 DEF IInv, TablesInv
  <2>4. drift' \in [Devices -> {"none", "now", "past"}]
    BY <1>8 DEF IInv, TablesInv
  <2>5. unsure' \in [Devices -> BOOLEAN]
    BY <1>8 DEF IInv, TablesInv
  <2> QED BY <1>2, <2>2, <2>3, <2>4, <2>5 DEF IInv, TablesInv
<1>11. ~(req[r].pc = "write" /\ req[r].op = "create")
  BY <1>1
<1>12. devices[D] # Absent \/ D \in deleted
  BY <1>1, <1>3, <1>11 DEF HolderInv, Known
<1>13. D \in deleted => devices[D] = Absent
  BY DEF IInv, DeviceInv
<1>14. DeviceInv(D)'
  <2>1. CASE req[r].alone = TRUE
    <3>1. Matches(req[r])
      BY <1>1, <2>1 DEF HolderInv
    <3>2. /\ devices[D] # Absent /\ D \notin deleted
          /\ devices[D].status = req[r].copy.status /\ devices[D].online = req[r].copy.online
          /\ drift[D] = "none" => (req[r].prev = TRUE <=> alert[D] = "online")
          /\ req[r].ok = TRUE => ~Contradicts(req[r].copy.status, told[D])
      BY <1>1, <1>3, <1>13, <3>1 DEF Matches
    <3>3. shown'[D] = event /\ (drift'[D] = "none" => drift[D] = "none")
      BY <1>8, <2>1 DEF IInv, TablesInv
    <3>4. Current(D)' = event
      BY <1>2, <3>2 DEF Current
    <3>5. drift[D] = "none" => (devices[D].online = TRUE <=> alert'[D] = "online")
      <4>1. CASE Alerted(r)
        <5>1. alert'[D] = word
          BY <1>8, <4>1 DEF IInv, TablesInv
        <5> QED BY <1>7, <3>2, <5>1
      <4>2. CASE ~Alerted(r)
        BY <1>5, <1>7, <1>8, <3>2, <4>2 DEF Alerted
      <4> QED BY <4>1, <4>2
    <3>6. devices[D].online = TRUE => ~Contradicts(devices[D].status, told[D])
      BY <1>1, <1>5, <3>2 DEF Fits
    <3> HIDE DEF event, Current
    <3> QED BY <1>2, <3>2, <3>3, <3>4, <3>5, <3>6 DEF DeviceInv
  <2>2. CASE req[r].alone = FALSE
    <3>1. drift'[D] = "now" /\ unsure'[D] = TRUE
      BY <1>8, <2>2 DEF IInv, TablesInv
    <3> QED BY <1>2, <1>12, <1>13, <3>1 DEF DeviceInv
  <2> QED BY <1>5, <2>1, <2>2
<1> QED BY <1>1, <1>2, <1>3, <1>4, <1>6, <1>9, <1>10, <1>12, <1>14, HolderStep
-----------------------------------------------------------------------------
\* A scene's row is inserted: no request changes.
LEMMA CreateSceneKeeps == ASSUME IInv, NEW r \in Reqs, scene_create(r) PROVE IInv'
<1>1. PICK s \in Scenes, steps \in Programs : CreateScene(s, steps)
  BY DEF scene_create, SceneFresh
<1>2. req[r] \in Requests /\ Fits(req[r]) /\ Tries(req[r]) /\ req' = [req EXCEPT ![r] = req[r]]
  BY <1>1 DEF CreateScene, IInv, ReqInv
<1>3. req[r].pc \notin HoldPcs
  BY DEF scene_create, HoldPcs
<1>4. scenes' \in [Scenes -> Programs \cup {NoSteps}]
  BY <1>1 DEF CreateScene, CreateSceneRow, IInv, TablesInv
<1>5. UNCHANGED <<devices, deleted, told, shown, alert, drift, unsure>>
  BY <1>1 DEF CreateScene
<1> QED BY <1>2, <1>3, <1>4, <1>5, OutsideStep

\* A classroom is deleted: what it held is gone without an event, and history says so.
LEMMA ClassroomKeeps ==
  ASSUME IInv, NEW ds \in SUBSET Devices, NEW ss \in SUBSET Scenes, DeleteClassroom(ds, ss)
  PROVE  IInv'
<1> DEFINE Hit(q) == \E d \in ds : q \in Holders(d)
<1>1. /\ devices' = [d \in Devices |-> IF d \in ds THEN Absent ELSE devices[d]]
      /\ deleted' = deleted \cup ds
      /\ scenes' = [s \in Scenes |-> IF s \in ss THEN NoSteps ELSE scenes[s]]
      /\ drift' = [d \in Devices |-> IF d \in ds THEN "now" ELSE drift[d]]
      /\ UNCHANGED <<told, shown, alert, unsure>>
  BY DEF DeleteClassroom
<1>2. req' = [q \in Reqs |-> IF Hit(q) THEN [req[q] EXCEPT !.alone = FALSE] ELSE req[q]]
  BY DEF DeleteClassroom
<1>3. \A q \in Reqs : req[q].pc \in HoldPcs => (Hit(q) <=> req[q].dev \in ds)
  BY DEF Holders, HoldPcs
<1>4. \A q \in Reqs : Hit(q) => req[q].pc \in HoldPcs
  BY DEF Holders, HoldPcs
<1> HIDE DEF Hit
<1>5. ASSUME NEW q \in Reqs
      PROVE  /\ req'[q] \in Requests /\ Fits(req'[q]) /\ Tries(req'[q])
             /\ req'[q].pc = req[q].pc /\ req'[q].dev = req[q].dev /\ req'[q].op = req[q].op
             /\ Hit(q) => req'[q].alone = FALSE
             /\ ~Hit(q) => req'[q] = req[q]
  <2>1. req[q] \in Requests /\ Fits(req[q]) /\ Tries(req[q])
    BY DEF IInv, ReqInv
  <2>2. CASE Hit(q)
    BY <1>2, <2>1, <2>2, NotAlone
  <2>3. CASE ~Hit(q)
    BY <1>2, <2>1, <2>3
  <2> QED BY <2>2, <2>3
<1>6. ReqInv'
  <2>1. DOMAIN req' = Reqs /\ req' = [q \in Reqs |-> req'[q]]
    BY <1>2
  <2>2. req' \in [Reqs -> Requests]
    BY <1>5, <2>1
  <2> QED BY <1>5, <2>2 DEF ReqInv
<1>7. TablesInv'
  <2>1. devices' \in [Devices -> Rows]
    BY <1>1, RealRowIs DEF IInv, TablesInv
  <2>2. scenes' \in [Scenes -> Programs \cup {NoSteps}]
    BY <1>1 DEF IInv, TablesInv
  <2>3. drift' \in [Devices -> {"none", "now", "past"}]
    BY <1>1 DEF IInv, TablesInv
  <2> QED BY <1>1, <2>1, <2>2, <2>3 DEF IInv, TablesInv
<1>8. ASSUME NEW d \in Devices PROVE DeviceInv(d)'
  <2>1. CASE d \in ds
    <3>1. devices'[d] = Absent /\ d \in deleted' /\ drift'[d] = "now"
      BY <1>1, <2>1
    <3> QED BY <3>1, RealRowIs DEF DeviceInv
  <2>2. CASE d \notin ds
    <3>1. Same(d)
      BY <1>1, <2>2 DEF Same, IInv, TablesInv
    <3>2. Publishing(d)' <=> Publishing(d)
      BY <1>5 DEF Publishing
    <3>3. Commanding(d)' <=> Commanding(d)
      BY <1>5 DEF Commanding
    <3> QED BY <3>1, <3>2, <3>3, SameDevice DEF IInv
  <2> QED BY <2>1, <2>2
<1>9. ASSUME NEW q \in Reqs PROVE HolderInv(q)'
  <2>1. HolderInv(q) /\ (Sole(q) => Sole(q)')
    BY <1>5 DEF IInv, Sole
  <2>2. CASE ~Hit(q)
    <3>1. req[q].pc \in HoldPcs => req[q].dev \in Devices /\ req[q].dev \notin ds
      BY <1>3, <2>2 DEF IInv, ReqInv, Fits
    <3>2. req[q].pc \in HoldPcs => Same(req[q].dev)
      BY <1>1, <3>1 DEF Same, IInv, TablesInv
    <3> QED BY <1>5, <2>1, <2>2, <3>2, SameHolder
  <2>3. CASE Hit(q)
    <3>1. req[q].pc \in HoldPcs /\ req[q].dev \in ds /\ req'[q].alone = FALSE
      BY <1>3, <1>4, <1>5, <2>3
    <3>2. devices'[req[q].dev] = Absent /\ req[q].dev \in deleted'
      BY <1>1, <3>1
    <3>3. Known(req[q])'
      BY <1>5, <3>2 DEF Known
    <3>4. req'[q].pc = "write" /\ req'[q].op = "create" => Sole(q)'
      BY <1>5, <2>1, <3>1 DEF HolderInv
    <3> QED BY <3>1, <3>3, <3>4 DEF HolderInv
  <2> QED BY <2>2, <2>3
<1> QED BY <1>6, <1>7, <1>8, <1>9 DEF IInv

\* No step, whoever takes it, breaks the invariant.
LEMMA StepInv == IInv /\ [Next]_vars => IInv'
<1> SUFFICES ASSUME IInv, [Next]_vars PROVE IInv'
  OBVIOUS
<1>1. CASE UNCHANGED vars
  <2>1. TablesInv' /\ ReqInv'
    BY <1>1 DEF vars, IInv, TablesInv, ReqInv
  <2>2. ASSUME NEW d \in Devices PROVE DeviceInv(d)'
    BY <1>1 DEF vars, IInv, DeviceInv, Publishing, Commanding, Current
  <2>3. ASSUME NEW r \in Reqs PROVE HolderInv(r)'
    BY <1>1 DEF vars, IInv, HolderInv, Known, Matches, Sole
  <2> QED BY <2>1, <2>2, <2>3 DEF IInv
<1>2. ASSUME NEW r \in Reqs, Start(r) PROVE IInv'
  BY <1>2, DrawKeeps, AcceptKeeps, CreateSceneKeeps DEF Start
<1>3. ASSUME NEW r \in Reqs, Proceed(r) \/ DriverAnswers(r) \/ CurrentToken(r) PROVE IInv'
  BY <1>3, CreateKeeps, LoadForEditKeeps, UpdateKeeps, DeleteKeeps, PublishEditKeeps,
     LoadForCommandKeeps, DriverKeeps, TokenKeeps, RecordKeeps, PublishStateKeeps, SceneKeeps
     DEF Proceed
<1> QED BY <1>1, <1>2, <1>3, ClassroomKeeps DEF Next

\* The inductive invariant holds in every reachable state.
LEMMA Invariance == Spec => []IInv
<1>1. Init => IInv
  BY InitInv
<1>2. IInv /\ [Next]_vars => IInv'
  BY StepInv
<1> QED BY <1>1, <1>2, PTL DEF Spec
-----------------------------------------------------------------------------
(* What the invariant is for.                                              *)

\* Nobody is about to publish on a device that no request holds, nor to settle a command.
LEMMA QuietDevice ==
  ASSUME NEW d \in Devices, Quiet(d)
  PROVE  ~Publishing(d) /\ ~Commanding(d)
BY DEF Quiet, Holders, Publishing, Commanding

\* The types of the tables and of the requests.
LEMMA Types == IInv => TypeOK
<1> SUFFICES ASSUME IInv PROVE TypeOK
  OBVIOUS
<1>1. ASSUME NEW r \in Reqs
      PROVE  /\ req[r].pc \in {"idle", "load", "driver", "write", "publish", "save", "report"}
             /\ req[r].pc = "driver" => req[r].copy \in Rows \ {Absent}
             /\ req[r].pc \in {"write", "publish"} => req[r].copy.status \in Statuses
             /\ Len(req[r].results) <= Len(req[r].steps)
  <2>1. req[r] \in Requests /\ Fits(req[r]) /\ Tries(req[r])
    BY DEF IInv, ReqInv
  <2>2. req[r].copy \in RealRows => req[r].copy \in Rows \ {Absent}
    BY RealRowIs
  <2>3. Len(req[r].results) <= Len(req[r].steps)
    <3>1. Len(req[r].steps) \in Nat /\ Len(req[r].results) \in Nat /\ Len(<<>>) = 0
      BY <2>1, LenProperties, EmptySeq DEF Requests
    <3>2. CASE req[r].results = <<>>
      BY <3>1, <3>2
    <3>3. CASE req[r].results # <<>>
      <4>1. req[r].op = "run" /\ req[r].pc \in HoldPcs \cup {"load", "report"}
        BY <2>1, <3>3 DEF Requests, Tries, HoldPcs
      <4>2. req[r].pc = "load" => req[r].dev \in Devices
        BY <2>1, <3>3, <4>1 DEF Fits, Tries
      <4> QED BY <2>1, <3>1, <4>1, <4>2 DEF Tries
    <3> QED BY <3>2, <3>3
  <2> QED BY <2>1, <2>2, <2>3 DEF Requests, Fits
<1> QED BY <1>1 DEF IInv, TablesInv, TypeOK

\* ShownMatchesRow, for any number of devices, scenes and requests: once no request holds a
\* device, the last event on its classroom's topic is what its row says (or that it was
\* deleted), unless its classroom was deleted, or the last request on it overlapped another,
\* could not record a failure or was not told of its own write.
THEOREM ShownAlwaysMatches == Spec => []ShownMatchesRow
<1>1. IInv => ShownMatchesRow
  <2> SUFFICES ASSUME IInv, NEW d \in Devices, Quiet(d), drift[d] # "now"
               PROVE  shown[d] = Current(d)
    BY Types DEF ShownMatchesRow, Current
  <2> QED BY QuietDevice DEF IInv, DeviceInv
<1> QED BY <1>1, Invariance, PTL

\* AlertsMatchOnline: up to the first overlap, unrecorded failure or lost answer on a device,
\* its last alert tells whether it is online, through every sequence of commands and edits.
THEOREM AlertsAlwaysMatch == Spec => []AlertsMatchOnline
<1>1. IInv => AlertsMatchOnline
  <2> SUFFICES ASSUME IInv, NEW d \in Devices, Quiet(d), drift[d] = "none", devices[d] # Absent
               PROVE  devices[d].online = (alert[d] = "online")
    BY DEF AlertsMatchOnline
  <2>1. devices[d].online = TRUE <=> alert[d] = "online"
    BY QuietDevice DEF IInv, DeviceInv
  <2>2. devices[d].online \in BOOLEAN
    BY RealRowIs DEF IInv, TablesInv, RealRows
  <2> QED BY <2>1, <2>2
<1> QED BY <1>1, Invariance, PTL

\* RowMatchesDevice: through every driver, the status of a device that is online never
\* contradicts the last call its vendor carried out, unless history excuses it.
THEOREM RowAlwaysMatchesDevice == Spec => []RowMatchesDevice
<1>1. IInv => RowMatchesDevice
  <2> SUFFICES ASSUME IInv, NEW d \in Devices, Quiet(d), ~unsure[d], devices[d].online
               PROVE  ~Contradicts(devices[d].status, told[d])
    BY DEF RowMatchesDevice
  <2>1. unsure[d] = FALSE
    BY DEF IInv, TablesInv
  <2>2. devices[d].online = TRUE
    <3>1. devices[d].online \in BOOLEAN
      BY RealRowIs DEF IInv, TablesInv, RealRows
    <3> QED BY <3>1
  <2> QED BY <2>1, <2>2, QuietDevice DEF IInv, DeviceInv
<1> QED BY <1>1, Invariance, PTL

\* SceneTriesEveryStep: for any program, a scene whose caller stays reports on every step.
THEOREM ScenesTryEveryStep == Spec => []SceneTriesEveryStep
<1>1. IInv => SceneTriesEveryStep
  <2> SUFFICES ASSUME IInv, NEW r \in Reqs, req[r].pc = "report", ~req[r].gone
               PROVE  Len(req[r].results) = Len(req[r].steps)
    BY DEF SceneTriesEveryStep
  <2>1. req[r] \in Requests /\ Tries(req[r])
    BY DEF IInv, ReqInv
  <2>2. req[r].gone = FALSE
    BY <2>1 DEF Requests
  <2> QED BY <2>1, <2>2 DEF Tries
<1> QED BY <1>1, Invariance, PTL

\* What a step may do to the row of device d.
Apart(d) ==
    /\ d \in deleted => devices'[d] = Absent
    /\ devices[d] # Absent /\ devices'[d] \notin {Absent, devices[d]} =>
         \E r \in Reqs :
           /\ req[r].pc = "write" /\ req[r].dev = d
           /\ IF req[r].op = "update"
              THEN /\ devices'[d].status = devices[d].status
                   /\ devices'[d].online = devices[d].online
              ELSE /\ devices'[d].driver = devices[d].driver
                   /\ devices'[d].config = devices[d].config

\* Only five steps write the devices table.
LEMMA OthersWriteNothing ==
  ASSUME [Next]_vars
  PROVE  \/ UNCHANGED devices
         \/ \E r \in Reqs : Create(r) \/ Update(r) \/ Delete(r) \/ RecordState(r)
         \/ \E ds \in SUBSET Devices, ss \in SUBSET Scenes : DeleteClassroom(ds, ss)
<1>1. CASE UNCHANGED vars
  BY <1>1 DEF vars
<1>2. ASSUME NEW r \in Reqs, Start(r) PROVE UNCHANGED devices
  <2>1. CASE create(r) \/ adopt(r)
    BY <2>1 DEF create, adopt, Draw
  <2>2. CASE update(r) \/ delete(r) \/ execute(r)
    BY <2>2 DEF update, delete, execute
  <2>3. CASE scene_create(r) \/ scene_update(r) \/ scene_delete(r) \/ scene_run(r)
    BY <2>3 DEF scene_create, CreateScene, scene_update, scene_delete, scene_run
  <2> QED BY <1>2, <2>1, <2>2, <2>3 DEF Start
<1>3. ASSUME NEW r \in Reqs, Proceed(r) \/ DriverAnswers(r) \/ CurrentToken(r),
             ~(Create(r) \/ Update(r) \/ Delete(r) \/ RecordState(r))
      PROVE  UNCHANGED devices
  <2>1. CASE LoadForEdit(r) \/ PublishEdit(r) \/ LoadForCommand(r) \/ PublishState(r)
    BY <2>1 DEF LoadForEdit, PublishEdit, LoadForCommand, PublishState
  <2>2. CASE DriverAnswers(r) \/ DriverRefuses(r) \/ DriverFails(r) \/ CurrentToken(r)
    BY <2>2 DEF DriverAnswers, DriverRefuses, DriverFails, CurrentToken
  <2>3. CASE LoadForSceneEdit(r) \/ UpdateScene(r) \/ DeleteScene(r) \/ Run(r) \/ Report(r)
    BY <2>3 DEF LoadForSceneEdit, UpdateScene, DeleteScene, Run, Report
  <2> QED BY <1>3, <2>1, <2>2, <2>3 DEF Proceed
<1> QED BY <1>1, <1>2, <1>3 DEF Next

\* WritesStayApart, for any number of requests that hold copies of a row: none of their
\* writes brings a deleted device back, undoes an edit with a state or a state with an edit.
THEOREM WritesAlwaysApart == Spec => WritesStayApart
<1>1. IInv /\ [Next]_vars => \A d \in Devices : Apart(d)
  <2> SUFFICES ASSUME IInv, [Next]_vars, NEW d \in Devices PROVE Apart(d)
    OBVIOUS
  <2>1. d \in deleted => devices[d] = Absent
    BY DEF IInv, DeviceInv
  <2>2. devices \in [Devices -> Rows] /\ (devices[d] # Absent => devices[d] \in RealRows)
    BY RealRowIs DEF IInv, TablesInv
  <2>3. CASE UNCHANGED devices
    BY <2>1, <2>3 DEF Apart
  <2>4. ASSUME NEW r \in Reqs, Create(r) PROVE Apart(d)
    <3>1. devices[req[r].dev] = Absent
      BY <2>4 DEF Create, IInv, HolderInv, Known, HoldPcs
    <3>2. devices'[d] # devices[d] => d = req[r].dev /\ d \notin deleted
      BY <2>2, <2>4 DEF Create, CreateRow
    <3> QED BY <2>1, <3>1, <3>2 DEF Apart
  <2>5. ASSUME NEW r \in Reqs, Update(r) PROVE Apart(d)
    <3>1. req[r].pc = "write" /\ req[r].op = "update"
      BY <2>5 DEF Update
    <3>2. \/ devices'[d] = devices[d]
          \/ /\ d = req[r].dev /\ devices[d] # Absent
             /\ devices'[d] = [devices[d] EXCEPT !.driver = req[r].copy.driver,
                                                 !.config = req[r].copy.config]
      BY <2>2, <2>5 DEF Update, UpdateRow
    <3>3. devices[d] # Absent /\ devices'[d] # devices[d] =>
            devices'[d].status = devices[d].status /\ devices'[d].online = devices[d].online
      BY <2>2, <3>2 DEF RealRows
    <3> QED BY <2>1, <3>1, <3>2, <3>3 DEF Apart
  <2>6. ASSUME NEW r \in Reqs, Delete(r) PROVE Apart(d)
    <3>1. devices'[d] \in {Absent, devices[d]}
      BY <2>2, <2>6 DEF Delete, DeleteRow
    <3> QED BY <2>1, <3>1 DEF Apart
  <2>7. ASSUME NEW r \in Reqs, RecordState(r) PROVE Apart(d)
    <3>1. req[r].pc = "write" /\ req[r].op # "update"
      BY <2>7 DEF RecordState
    <3>2. \/ devices'[d] = devices[d]
          \/ /\ d = req[r].dev /\ devices[d] # Absent
             /\ devices'[d] = [devices[d] EXCEPT !.status = req[r].copy.status,
                                                 !.online = req[r].copy.online]
      BY <2>2, <2>7 DEF RecordState, UpdateState
    <3>3. devices[d] # Absent /\ devices'[d] # devices[d] =>
            devices'[d].driver = devices[d].driver /\ devices'[d].config = devices[d].config
      BY <2>2, <3>2 DEF RealRows
    <3> QED BY <2>1, <3>1, <3>2, <3>3 DEF Apart
  <2>8. ASSUME NEW ds \in SUBSET Devices, NEW ss \in SUBSET Scenes, DeleteClassroom(ds, ss)
        PROVE  Apart(d)
    <3>1. devices'[d] \in {Absent, devices[d]}
      BY <2>8 DEF DeleteClassroom
    <3> QED BY <2>1, <3>1 DEF Apart
  <2> QED BY <2>3, <2>4, <2>5, <2>6, <2>7, <2>8, OthersWriteNothing
<1>2. IInv /\ [Next]_vars => [\A d \in Devices : Apart(d)]_vars
  BY <1>1
<1> QED BY <1>2, Invariance, PTL DEF Spec, WritesStayApart, Apart
=============================================================================
