------------------------------- MODULE Drivers -------------------------------
(***************************************************************************)
(* The three device drivers as functions of a device's config and of a     *)
(* command: the config is refused, the command is not supported, or one    *)
(* call is made to the vendor's API and a status is inferred from the      *)
(* command, not from the answer.  A config is the free-form map of the     *)
(* device row, cut down to what the drivers read of it: which keys are     *)
(* present, the domain of "entityId", "capability" ("" when unset) and the *)
(* commands that have an endpoint.                                         *)
(***************************************************************************)
EXTENDS Naturals

CommandTypes == {"ON", "OFF", "OPEN", "CLOSE", "SET_VALUE"}
Statuses == {"on", "off", "open", "closed", "unknown"}
Keys == {"baseUrl", "entityId", "token", "deviceId"}
DriverNames == {"generic_http", "homeassistant", "smartthings"}

InvalidConfig == [kind |-> "invalid", call |-> "", status |-> "unknown"]
Unsupported == [kind |-> "unsupported", call |-> "", status |-> "unknown"]
Calls(call, status) == [kind |-> "call", call |-> call, status |-> status]

override(custom, fallback) == IF custom # "" THEN custom ELSE fallback

-----------------------------------------------------------------------------
generic_inferStatus(cmd) ==
    CASE cmd = "ON" -> "on"
      [] cmd = "OFF" -> "off"
      [] cmd = "OPEN" -> "open"
      [] cmd = "CLOSE" -> "closed"
      [] OTHER -> "unknown"

generic_parseConfig(cfg) == "baseUrl" \in cfg.keys

\* The endpoint of a command is configured; what it does is what the command says.
generic_Execute(cfg, cmd) ==
    IF ~generic_parseConfig(cfg) THEN InvalidConfig
    ELSE IF cmd \notin cfg.commands THEN Unsupported
    ELSE Calls(cmd, generic_inferStatus(cmd))

-----------------------------------------------------------------------------
\* The service of Home Assistant for a command on an entity of this domain, "" if none.
hass_mapCommand(cmd, domain) ==
    CASE cmd = "ON" -> "turn_on"
      [] cmd = "OFF" -> "turn_off"
      [] cmd = "OPEN" -> CASE domain = "cover" -> "open_cover"
                           [] domain = "lock" -> "unlock"
                           [] OTHER -> "turn_on"
      [] cmd = "CLOSE" -> CASE domain = "cover" -> "close_cover"
                            [] domain = "lock" -> "lock"
                            [] OTHER -> "turn_off"
      [] cmd = "SET_VALUE" -> CASE domain = "light" -> "turn_on"
                                [] domain = "cover" -> "set_cover_position"
                                [] domain = "climate" -> "set_temperature"
                                [] domain = "fan" -> "set_percentage"
                                [] OTHER -> ""
      [] OTHER -> ""

hass_inferStatus(cmd, domain) ==
    CASE cmd = "ON" -> "on"
      [] cmd = "OFF" -> "off"
      [] cmd = "OPEN" -> IF domain = "cover" THEN "open" ELSE "on"
      [] cmd = "CLOSE" -> IF domain = "cover" THEN "closed" ELSE "off"
      [] OTHER -> "unknown"

hass_parseConfig(cfg) == {"baseUrl", "entityId"} \subseteq cfg.keys

hass_Execute(cfg, cmd) ==
    IF ~hass_parseConfig(cfg) THEN InvalidConfig
    ELSE LET service == hass_mapCommand(cmd, cfg.domain)
         IN  IF service = "" THEN Unsupported
             ELSE Calls(service, hass_inferStatus(cmd, cfg.domain))

-----------------------------------------------------------------------------
smartthings_parseConfig(cfg) == {"token", "deviceId"} \subseteq cfg.keys

smartthings_mapCommand(cmd, cfg) ==
    CASE cmd = "ON" -> Calls("on", "on")
      [] cmd = "OFF" -> Calls("off", "off")
      [] cmd = "OPEN" -> Calls(IF override(cfg.capability, "windowShade") = "lock"
                               THEN "unlock" ELSE "open", "open")
      [] cmd = "CLOSE" -> Calls(IF override(cfg.capability, "windowShade") = "lock"
                                THEN "lock" ELSE "close", "closed")
      [] cmd = "SET_VALUE" -> Calls("setLevel", "unknown")
      [] OTHER -> Unsupported

smartthings_Execute(cfg, cmd) ==
    IF ~smartthings_parseConfig(cfg) THEN InvalidConfig
    ELSE smartthings_mapCommand(cmd, cfg)

-----------------------------------------------------------------------------
(* The HTTP exchange.  Its result is "none" (no connection, a timeout),    *)
(* "error" (a status of 400 or more), "cut" (a good status whose body      *)
(* cannot be read) or "ok".                                                *)

Responses == {"none", "error", "cut", "ok"}

generic_do(resp) == resp = "ok"

\* The body is of no interest, and neither is an error in reading it.
hass_callService(resp) == resp \in {"cut", "ok"}

smartthings_do(resp) == resp \in {"cut", "ok"}

\* The driver takes the exchange for a success.
Succeeds(driver, resp) ==
    CASE driver = "generic_http" -> generic_do(resp)
      [] driver = "homeassistant" -> hass_callService(resp)
      [] driver = "smartthings" -> smartthings_do(resp)

\* The driver asks for a token at every call, before it looks at the command, and fails
\* when there is none.
resolveToken(driver) == driver = "homeassistant"

\* The driver that factory.Get returns, at work.
Drive(driver, cfg, cmd) ==
    CASE driver = "generic_http" -> generic_Execute(cfg, cmd)
      [] driver = "homeassistant" -> hass_Execute(cfg, cmd)
      [] driver = "smartthings" -> smartthings_Execute(cfg, cmd)

\* The vendor's calls that switch on or open, and those that switch off or close.
Activating == {"ON", "OPEN", "turn_on", "open_cover", "unlock", "on", "open"}
Deactivating == {"OFF", "CLOSE", "turn_off", "close_cover", "lock", "off", "close"}

\* A status that says the opposite of what the device was told.
Contradicts(status, call) ==
    \/ call \in Activating /\ status \in {"off", "closed"}
    \/ call \in Deactivating /\ status \in {"on", "open"}

\* The config Adopt writes for an entity: no token, it is fetched at every call.
AdoptConfig(domain) ==
    [keys |-> {"baseUrl", "entityId"}, domain |-> domain, capability |-> "", commands |-> {}]
=============================================================================
