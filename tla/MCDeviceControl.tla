--------------------------- MODULE MCDeviceControl ---------------------------
(* A small instance of DeviceControl for TLC: a cover of Home Assistant, a   *)
(* second driver that supports none of its commands, and a scene that moves  *)
(* the cover twice.  Requests are interchangeable.                           *)
EXTENDS DeviceControl, TLC

CONSTANT d1

RequestSymmetry == Permutations(Reqs)

MCConfigs == {AdoptConfig("cover")}
MCPrograms == {<<>>, <<[dev |-> d1, cmd |-> "CLOSE"], [dev |-> d1, cmd |-> "OPEN"]>>}

\* Whatever the driver, the config and the command, the inferred status does not
\* contradict the call that is made.
ASSUME DriversConsistent ==
    \A driver \in DriverNames, keys \in SUBSET Keys, capability \in {"", "lock", "switch"},
       domain \in {"switch", "light", "cover", "lock", "climate", "fan", "sensor"},
       cmd \in CommandTypes :
      LET config == [keys |-> keys, domain |-> domain, capability |-> capability,
                     commands |-> CommandTypes]
          outcome == Drive(driver, config, cmd)
      IN  outcome.kind = "call" => ~Contradicts(outcome.status, outcome.call)

\* There is no device yet.
Before == devices = [d \in Devices |-> Absent] /\ deleted = {}

\* Bounds: one request at a time runs a scene.  Scenes are created, edited and dropped before
\* there is a device, and from then on stand with all their steps: a run meets the row of its
\* scene only when it loads it, and commands do not meet it at all.
Within ==
    /\ Cardinality({r \in Reqs : req'[r].op = "run"}) =< 1
    /\ \/ Before'
       \/ /\ \A s \in Scenes : scenes'[s] \notin {NoSteps, <<>>}
          /\ \A r \in Reqs : req'[r].op \notin {"edit", "drop"}

MCNext == Next /\ Within

MCSpec == Init /\ [][MCNext]_vars
=============================================================================
