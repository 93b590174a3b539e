------------------------------ MODULE HassFlows ------------------------------
(***************************************************************************)
(* The config flows of Home Assistant (HA) that the backend proxies.  HA   *)
(* refuses a new flow for a handler (an integration's domain) while one is *)
(* pending, and lists only the flows it started itself, so StartFlow first *)
(* aborts the flow it remembers and the ones HA lists, and tries a second  *)
(* time when it is refused.  A call to HA may fail, before or after its    *)
(* effect.  Flow ids are drawn from a pool; an id is drawn again only when *)
(* its flow is closed and nothing refers to it.                            *)
(***************************************************************************)
EXTENDS FiniteSets, Naturals

CONSTANTS
    Handlers,   \* integrations
    Xiaomi,     \* the integration the self-check probes
    Flows,      \* flow ids
    FlowReqs,   \* requests in flight at once
    NoFlow,     \* the empty id
    DeadFlow    \* the id of a flow that HA closed as it opened it

ASSUME FlowConstants ==
    /\ Xiaomi \in Handlers
    /\ Flows \subseteq Nat /\ IsFiniteSet(Flows) /\ IsFiniteSet(FlowReqs)
    /\ NoFlow \notin Flows /\ DeadFlow \notin Flows /\ NoFlow # DeadFlow

VARIABLES
    open,       \* HA: the pending flows, with their handler and source
    last,       \* lastFlowByHandler
    req,        \* per request: step, handler, try (2 after a refusal), a flow id, and
                \* the listed flows that are still to be aborted
    lost,       \* history: pending flows of which a call failed, or that were overtaken
                \* by a call that ran at the same time
    excused,    \* history: requests that met a failure, an overlap or an earlier lost flow
    spawns      \* history, per request: flows HA started for its handler meanwhile (<= 2)

flowVars == <<open, last, req, lost, excused, spawns>>

Idle == [pc |-> "idle", handler |-> Xiaomi, try |-> 1, id |-> NoFlow, todo |-> {}]

FlowInit ==
    /\ open = {}
    /\ last = [h \in Handlers |-> NoFlow]
    /\ req = [r \in FlowReqs |-> Idle]
    /\ lost = {} /\ excused = {} /\ spawns = [r \in FlowReqs |-> 0]

InFlight == {r \in FlowReqs : req[r].pc # "idle"}
Pending == {f.id : f \in open}
PendingFor(h) == {f \in open : f.handler = h}

Known == {last[h] : h \in Handlers} \cup UNION {req[r].todo \cup {req[r].id} : r \in FlowReqs}
FreeIds == Flows \ (Pending \cup Known)

\* Every request in flight has an id left to draw.
Spare == Cardinality(FreeIds) > Cardinality(InFlight)

-----------------------------------------------------------------------------
(* HA and the client.                                                      *)

\* HA opens a flow with id f.
Opened(f, h, src) ==
    /\ f \in FreeIds /\ \A g \in FreeIds : f <= g
    /\ open' = open \cup {[id |-> f, handler |-> h, source |-> src]}

\* DELETE of a flow, or a step that ends it: it is gone, as it may have been before (404).
Closed(f) ==
    /\ open' = {g \in open : g.id # f}
    /\ lost' = lost \ {f}

\* DELETE of flow f: done, or an error, with or without effect.
AbortFlow(f, ok) ==
    \/ Closed(f)
    \/ ~ok /\ open' = open /\ lost' = lost \cup ({f} \cap Pending)

\* The flows HA lists: all integrations', without those of source "user".
ListInProgressFlows == {f \in open : f.source = "other"}

\* POST of a new flow: a form and the flow's id; a flow that was over as it began (HA
\* created the entry at once, or aborted for a reason of the integration's), or one refused
\* as already_in_progress, both with or without an id; or an error, after which the flow
\* may be pending all the same.
ClientStartFlow(h, out, f) ==
    \/ out = "form" /\ Opened(f, h, "user") /\ UNCHANGED lost
    \/ out = "over" /\ f \in {NoFlow, DeadFlow} /\ UNCHANGED <<open, lost>>
    \/ out = "refused" /\ PendingFor(h) # {} /\ f \in {NoFlow, DeadFlow} /\ UNCHANGED <<open, lost>>
    \/ out = "error" /\ f = NoFlow /\ UNCHANGED <<open, lost>>
    \/ /\ out = "error" /\ f = NoFlow
       /\ \E g \in Flows : Opened(g, h, "user") /\ lost' = lost \cup {g}

Answers == {"form", "over", "refused", "error"}
Ids == Flows \cup {NoFlow, DeadFlow}

-----------------------------------------------------------------------------
\* The request is answered.
End(r) ==
    /\ req' = [req EXCEPT ![r] = Idle]
    /\ excused' = excused \ {r}
    /\ spawns' = [spawns EXCEPT ![r] = 0]

Step(r, pc, id, todo) ==
    req' = [req EXCEPT ![r].pc = pc, ![r].id = id, ![r].todo = todo]

Excuse(r, ok) == excused' = IF ok THEN excused ELSE excused \cup {r}

\* A call for h begins; requests for one handler may overlap.
Begin(r, h, pc) ==
    /\ req[r].pc = "idle" /\ Spare
    /\ req' = [req EXCEPT ![r].pc = pc, ![r].handler = h]
    /\ LET others == {q \in InFlight : req[q].handler = h}
           loose == {f \in PendingFor(h) : f.source = "user" /\ f.id # last[h]}
       IN excused' = excused \cup others \cup (IF others \cup loose # {} THEN {r} ELSE {})
    /\ UNCHANGED <<open, last, lost, spawns>>

StartFlow(r, h) == Begin(r, h, "pop")

popLastFlow(r) ==
    /\ req[r].pc = "pop"
    /\ LET h == req[r].handler IN
        /\ Step(r, IF last[h] = NoFlow THEN "list" ELSE "abortprev", last[h], {})
        /\ last' = [last EXCEPT ![h] = NoFlow]
    /\ UNCHANGED <<open, lost, excused, spawns>>

\* scrubFlows: the remembered flow is aborted; an error is logged.
ScrubPrevious(r) ==
    /\ req[r].pc = "abortprev"
    /\ \E ok \in BOOLEAN : AbortFlow(req[r].id, ok) /\ Excuse(r, ok)
    /\ Step(r, "list", NoFlow, {})
    /\ UNCHANGED <<last, spawns>>

\* Mutant: the flows of every handler are scrubbed.
ScrubList_AllHandlers(r) ==
    /\ req[r].pc = "list"
    /\ Step(r, "abortlist", NoFlow, {f.id : f \in ListInProgressFlows})
    /\ UNCHANGED <<open, last, lost, excused, spawns>>

\* scrubFlows: the listed flows of this handler are to be aborted; without a list the
\* scrub ends.
ScrubList(r) ==
    /\ req[r].pc = "list"
    /\ \E ok \in BOOLEAN :
        /\ LET listed == ListInProgressFlows \cap PendingFor(req[r].handler)
           IN IF ok THEN Step(r, "abortlist", NoFlow, {f.id : f \in listed})
                    ELSE Step(r, "start", NoFlow, {})
        /\ Excuse(r, ok)
    /\ UNCHANGED <<open, last, lost, spawns>>

\* scrubFlows: one listed flow after the other.
ScrubListed(r) ==
    /\ req[r].pc = "abortlist"
    /\ \/ \E f \in req[r].todo, ok \in BOOLEAN :
            /\ AbortFlow(f, ok) /\ Excuse(r, ok)
            /\ Step(r, "abortlist", NoFlow, req[r].todo \ {f})
       \/ /\ req[r].todo = {}
          /\ Step(r, "start", NoFlow, {})
          /\ UNCHANGED <<open, lost, excused>>
    /\ UNCHANGED <<last, spawns>>

\* Mutant: a refusal is final.
StartCall_Once(r) ==
    /\ req[r].pc = "start"
    /\ \E out \in Answers, f \in Ids :
        /\ ClientStartFlow(req[r].handler, out, f)
        /\ IF out = "error" THEN End(r)
           ELSE /\ Step(r, IF out = "refused" THEN "refused" ELSE "remember", f, {})
                /\ UNCHANGED <<excused, spawns>>
    /\ UNCHANGED last

\* The start itself: a first refusal leads to a second scrub and start.
StartCall(r) ==
    /\ req[r].pc = "start"
    /\ \E out \in Answers, f \in Ids :
        /\ ClientStartFlow(req[r].handler, out, f)
        /\ \/ /\ out \in {"form", "over"}
              /\ Step(r, "remember", f, {}) /\ UNCHANGED <<excused, spawns>>
           \/ /\ out = "refused" /\ req[r].try = 1
              /\ req' = [req EXCEPT ![r].pc = "pop", ![r].try = 2] /\ UNCHANGED <<excused, spawns>>
           \/ /\ out = "refused" /\ req[r].try = 2
              /\ Step(r, "refused", f, {}) /\ UNCHANGED <<excused, spawns>>
           \/ out = "error" /\ End(r)
    /\ UNCHANGED last

\* Mutant: the new flow is not remembered.
rememberFlow_Skipped(r) ==
    /\ req[r].pc \in {"remember", "refused"}
    /\ UNCHANGED <<last, open, lost>>
    /\ End(r)

\* rememberFlow, if HA gave an id, also the id of a refused flow.  What a call that ran
\* at the same time remembered is overwritten.
rememberFlow(r) ==
    /\ req[r].pc \in {"remember", "refused"}
    /\ LET h == req[r].handler
           overtaken == IF req[r].id # NoFlow /\ r \in excused THEN {last[h]} ELSE {}
       IN /\ last' = IF req[r].id = NoFlow THEN last ELSE [last EXCEPT ![h] = req[r].id]
          /\ lost' = lost \cup (overtaken \cap Pending)
    /\ End(r)
    /\ UNCHANGED open

-----------------------------------------------------------------------------
\* RunSelfCheck: a probe flow is started, without a scrub, unless the handlers cannot be
\* listed or lack xiaomi_home ...
SelfCheck(r) == Begin(r, Xiaomi, "probe")

\* ListFlowHandlers: whether xiaomi_home is among them; an error counts as not.
ListFlowHandlers(found) == found \in BOOLEAN

ProbeStart(r) ==
    /\ req[r].pc = "probe"
    /\ \/ /\ ListFlowHandlers(TRUE)
          /\ \E out \in Answers, f \in Ids :
                /\ ClientStartFlow(Xiaomi, out, f)
                /\ IF f = NoFlow THEN End(r)
                                 ELSE Step(r, "probed", f, {}) /\ UNCHANGED <<excused, spawns>>
       \/ ListFlowHandlers(FALSE) /\ End(r) /\ UNCHANGED <<open, lost>>
    /\ UNCHANGED last

\* ... and aborted; an error is dropped.
ProbeAbort(r) ==
    /\ req[r].pc = "probed"
    /\ \E ok \in BOOLEAN : AbortFlow(req[r].id, ok)
    /\ End(r)
    /\ UNCHANGED last

\* StepFlow that ends the flow (create_entry or abort); a further form changes nothing.
StepFlow(f) == f \in Pending /\ Closed(f) /\ UNCHANGED <<last, req, excused, spawns>>

\* AbortFlow by the user; lastFlowByHandler keeps the id.
UserAbort(f) == f \in Pending /\ AbortFlow(f, TRUE) /\ UNCHANGED <<last, req, excused, spawns>>

\* An OAuth callback makes HA start a flow of its own.
Spawn(h) ==
    /\ Spare
    /\ \E f \in Flows : Opened(f, h, "other")
    /\ spawns' = [r \in FlowReqs |->
                    IF r \in InFlight /\ req[r].handler = h /\ spawns[r] < 2
                    THEN spawns[r] + 1 ELSE spawns[r]]
    /\ UNCHANGED <<last, req, lost, excused>>

\* HA forgets its pending flows when it restarts ...
HaRestart == open # {} /\ open' = {} /\ lost' = {} /\ UNCHANGED <<last, req, excused, spawns>>

\* ... and the backend forgets which ones it started.
ForgetFlows ==
    /\ last # [h \in Handlers |-> NoFlow] \/ InFlight # {}
    /\ last' = [h \in Handlers |-> NoFlow]
    /\ req' = [r \in FlowReqs |-> Idle]
    /\ excused' = {} /\ spawns' = [r \in FlowReqs |-> 0]
    /\ lost' = {f.id : f \in {g \in open : g.source = "user"}}
    /\ UNCHANGED open

Serve(r) ==
    \/ popLastFlow(r) \/ ScrubPrevious(r) \/ ScrubList(r) \/ ScrubListed(r)
    \/ StartCall(r) \/ rememberFlow(r) \/ ProbeStart(r) \/ ProbeAbort(r)

FlowNext ==
    \/ \E r \in FlowReqs : Serve(r) \/ SelfCheck(r) \/ \E h \in Handlers : StartFlow(r, h)
    \/ \E f \in Flows : StepFlow(f) \/ UserAbort(f)
    \/ \E h \in Handlers : Spawn(h)
    \/ HaRestart \/ ForgetFlows

FlowSpec == FlowInit /\ [][FlowNext]_flowVars

-----------------------------------------------------------------------------
OpenOK ==
    /\ open \subseteq [id : Flows, handler : Handlers, source : {"user", "other"}]
    /\ \A f, g \in open : f.id = g.id => f = g

RequestsOK ==
    req \in [FlowReqs -> [pc : {"idle", "pop", "abortprev", "list", "abortlist", "start",
                                "remember", "refused", "probe", "probed"},
                          handler : Handlers, try : {1, 2}, id : Ids, todo : SUBSET Flows]]

HistoryOK ==
    lost \subseteq Pending /\ excused \subseteq InFlight /\ spawns \in [FlowReqs -> 0 .. 2]

FlowTypeOK == OpenOK /\ last \in [Handlers -> Ids] /\ RequestsOK /\ HistoryOK

\* A flow that was started over the API and is still pending is remembered, or in the
\* hands of a request, unless a call about it failed or calls for one handler overlapped.
PendingIsTracked ==
    /\ FlowTypeOK
    /\ \A f \in open :
        f.source = "user" => \/ f.id \in lost \/ last[f.handler] = f.id
                             \/ \E r \in InFlight : req[r].id = f.id

\* StartFlow ends with already_in_progress only after a failed call, an overlap, a flow
\* that was lost before, or when HA started two flows of its own meanwhile: one the
\* second scrub removes.
RefusalExplained ==
    \A r \in FlowReqs : req[r].pc = "refused" => r \in excused \/ spawns[r] = 2

\* A scrub aborts no flow of another integration.
ScrubsOwnHandler ==
    [][\A r \in FlowReqs : ScrubPrevious(r) \/ ScrubListed(r)
          => open \ open' \subseteq PendingFor(req[r].handler)]_flowVars

=============================================================================
