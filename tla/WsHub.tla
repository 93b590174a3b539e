-------------------------------- MODULE WsHub --------------------------------
(***************************************************************************)
(* The WebSocket hub: connections register with their topics, Publish      *)
(* copies the set of subscribers under the read lock and then sends to     *)
(* each without blocking, and every connection has a read pump, which      *)
(* unregisters it, and a write pump, which writes what was queued.         *)
(*                                                                         *)
(* Lock-protected sections are one step.  Everything else interleaves:     *)
(* Unregister closes the client after it has released the lock, a          *)
(* publisher may hold a copy of a set that has changed since, and a select *)
(* with several ready cases takes any of them.                             *)
(***************************************************************************)
EXTENDS Integers, Sequences, SequencesExt

CONSTANTS
    Clients,     \* connections that may be opened, each once (uuid.NewString)
    Topics,
    Messages,    \* events that are published, each once, by a goroutine of its own
    SendCap      \* capacity of Client.send, 64

ASSUME HubConstants == SendCap \in Nat \ {0}

VARIABLES
    topics,      \* Client.topics
    byID,        \* hub.byID
    byTopic,     \* hub.byTopic: subscribers per topic
    closed,      \* clients whose channel closed is closed
    send,        \* Client.send
    conn,        \* per client: "none", "open" or "broken" (closed by either side)
    reader,      \* per client: step of readPump
    writer,      \* per client: whether writePump runs
    pub, todo,   \* per message: step of Publish, and clients still to be sent to
    topicOf,     \* per message: its topic
    shutdown,    \* shutdownCtx is cancelled
    wire,        \* history: messages written to the connection, in order
    before       \* history: <<m, n>>: Publish of m had returned when that of n began

hubVars  == <<topics, byID, byTopic, closed>>
pumpVars == <<conn, reader, writer>>
pubVars  == <<pub, todo, topicOf, before>>
vars == <<hubVars, send, pumpVars, pubVars, shutdown, wire>>

Init ==
    /\ topics = [c \in Clients |-> {}]
    /\ byID = {} /\ closed = {}
    /\ byTopic = [t \in Topics |-> {}]
    /\ send = [c \in Clients |-> <<>>]
    /\ conn = [c \in Clients |-> "none"]
    /\ reader = [c \in Clients |-> "off"]
    /\ writer = [c \in Clients |-> FALSE]
    /\ pub = [m \in Messages |-> "new"]
    /\ todo = [m \in Messages |-> {}]
    /\ topicOf \in [Messages -> Topics]
    /\ shutdown = FALSE
    /\ wire = [c \in Clients |-> <<>>]
    /\ before = {}

-----------------------------------------------------------------------------
\* Serve, after ticket, authorization and upgrade: newClient, Register, two pumps.
Register(c, ts) ==
    /\ conn[c] = "none"
    /\ topics' = [topics EXCEPT ![c] = ts]
    /\ byID' = byID \cup {c}
    /\ byTopic' = [t \in Topics |-> IF t \in ts THEN byTopic[t] \cup {c} ELSE byTopic[t]]
    /\ conn' = [conn EXCEPT ![c] = "open"]
    /\ reader' = [reader EXCEPT ![c] = "reading"]
    /\ writer' = [writer EXCEPT ![c] = TRUE]
    /\ UNCHANGED <<closed, send, pubVars, shutdown, wire>>

\* The peer goes away, or its pong is overdue.
Disconnect(c) ==
    /\ conn[c] = "open"
    /\ conn' = [conn EXCEPT ![c] = "broken"]
    /\ UNCHANGED <<hubVars, send, reader, writer, pubVars, shutdown, wire>>

\* Mutants: the topics keep the client; Unregister forgets to close it.
Unregister_KeepsTopics(c) ==
    /\ reader[c] = "reading" /\ conn[c] = "broken"
    /\ byID' = byID \ {c}
    /\ reader' = [reader EXCEPT ![c] = "unregistered"]
    /\ UNCHANGED <<topics, byTopic, closed, send, conn, writer, pubVars, shutdown, wire>>

ReaderClose_Forgotten(c) ==
    /\ reader[c] = "unregistered"
    /\ conn' = [conn EXCEPT ![c] = "broken"]
    /\ reader' = [reader EXCEPT ![c] = "exited"]
    /\ UNCHANGED <<hubVars, send, writer, pubVars, shutdown, wire>>

\* readPump gets an error from the connection: Unregister, under the lock ...
Unregister(c) ==
    /\ reader[c] = "reading" /\ conn[c] = "broken"
    /\ byID' = byID \ {c}
    /\ byTopic' = [t \in Topics |-> IF t \in topics[c] THEN byTopic[t] \ {c} ELSE byTopic[t]]
    /\ reader' = [reader EXCEPT ![c] = "unregistered"]
    /\ UNCHANGED <<topics, closed, send, conn, writer, pubVars, shutdown, wire>>

\* ... then, without it, c.close() and conn.Close().
ReaderClose(c) ==
    /\ reader[c] = "unregistered"
    /\ closed' = closed \cup {c}
    /\ conn' = [conn EXCEPT ![c] = "broken"]
    /\ reader' = [reader EXCEPT ![c] = "exited"]
    /\ UNCHANGED <<topics, byID, byTopic, send, writer, pubVars, shutdown, wire>>

\* writePump takes a message and writes it; the write fails on a broken connection, or
\* on an open one when its deadline passes, and then the pump closes it and exits.
WriteMessage(c) ==
    /\ writer[c] /\ send[c] # <<>>
    /\ send' = [send EXCEPT ![c] = Tail(@)]
    /\ \/ /\ conn[c] = "open"
          /\ wire' = [wire EXCEPT ![c] = Append(@, Head(send[c]))]
          /\ UNCHANGED <<conn, writer>>
       \/ /\ writer' = [writer EXCEPT ![c] = FALSE]
          /\ conn' = [conn EXCEPT ![c] = "broken"]
          /\ UNCHANGED wire
    /\ UNCHANGED <<hubVars, reader, pubVars, shutdown>>

\* Mutant: on shutdown the pump leaves without closing the connection.
WriterExit_KeepsConn(c) ==
    /\ writer[c]
    /\ shutdown \/ c \in closed
    /\ writer' = [writer EXCEPT ![c] = FALSE]
    /\ UNCHANGED <<hubVars, send, conn, reader, pubVars, shutdown, wire>>

\* writePump sees the shutdown or the closed client, or a ping fails (which may happen
\* on an open connection, when the write deadline passes): it closes the connection.
WriterExit(c) ==
    /\ writer[c]
    /\ shutdown \/ c \in closed
    /\ writer' = [writer EXCEPT ![c] = FALSE]
    /\ conn' = [conn EXCEPT ![c] = "broken"]
    /\ UNCHANGED <<hubVars, send, reader, pubVars, shutdown, wire>>

PingFails(c) ==
    /\ writer[c]
    /\ writer' = [writer EXCEPT ![c] = FALSE]
    /\ conn' = [conn EXCEPT ![c] = "broken"]
    /\ UNCHANGED <<hubVars, send, reader, pubVars, shutdown, wire>>

-----------------------------------------------------------------------------
\* Publish: the subscribers of the topic, copied under the read lock.
Snapshot(m) ==
    /\ pub[m] = "new"
    /\ todo' = [todo EXCEPT ![m] = byTopic[topicOf[m]]]
    /\ pub' = [pub EXCEPT ![m] = "sending"]
    /\ before' = before \cup {<<n, m>> : n \in {x \in Messages : pub[x] = "done"}}
    /\ UNCHANGED <<hubVars, send, pumpVars, topicOf, shutdown, wire>>

\* Mutant: a send that waits for room.
SendTo_Blocking(m, c) ==
    /\ c \in todo[m]
    /\ todo' = [todo EXCEPT ![m] = @ \ {c}]
    /\ \/ c \in closed /\ UNCHANGED send
       \/ Len(send[c]) < SendCap /\ send' = [send EXCEPT ![c] = Append(@, m)]
    /\ UNCHANGED <<hubVars, pumpVars, pub, topicOf, before, shutdown, wire>>

\* Publish: the select of one client: closed, room in the queue, or drop.
SendTo(m, c) ==
    /\ c \in todo[m]
    /\ todo' = [todo EXCEPT ![m] = @ \ {c}]
    /\ \/ c \in closed /\ UNCHANGED send
       \/ Len(send[c]) < SendCap /\ send' = [send EXCEPT ![c] = Append(@, m)]
       \/ c \notin closed /\ Len(send[c]) >= SendCap /\ UNCHANGED send
    /\ UNCHANGED <<hubVars, pumpVars, pub, topicOf, before, shutdown, wire>>

\* Mutant: Publish leaves the sends to goroutines of their own.
PublishReturns_Early(m) ==
    /\ pub[m] = "sending"
    /\ pub' = [pub EXCEPT ![m] = "done"]
    /\ UNCHANGED <<hubVars, send, pumpVars, todo, topicOf, before, shutdown, wire>>

\* The loop is over and Publish returns.
PublishReturns(m) ==
    /\ pub[m] = "sending" /\ todo[m] = {}
    /\ pub' = [pub EXCEPT ![m] = "done"]
    /\ UNCHANGED <<hubVars, send, pumpVars, todo, topicOf, before, shutdown, wire>>

\* SIGTERM cancels the context main gave to the handler.
Shutdown ==
    /\ ~shutdown
    /\ shutdown' = TRUE
    /\ UNCHANGED <<hubVars, send, pumpVars, pubVars, wire>>

PublishStep(m) == (\E c \in Clients : SendTo(m, c)) \/ PublishReturns(m)
ReaderStep(c) == Unregister(c) \/ ReaderClose(c)

Next ==
    \/ \E c \in Clients :
          \/ \E ts \in SUBSET Topics : Register(c, ts)
          \/ Disconnect(c) \/ ReaderStep(c) \/ WriteMessage(c) \/ WriterExit(c) \/ PingFails(c)
    \/ \E m \in Messages : Snapshot(m) \/ PublishStep(m)
    \/ Shutdown

\* Goroutines run; a read pump notices that its connection is gone; a write pump does
\* not pass over its exit for ever.  Write pumps owe nobody a write.
Fairness ==
    /\ \A m \in Messages : WF_vars(PublishStep(m))
    /\ \A c \in Clients : WF_vars(ReaderStep(c)) /\ SF_vars(WriterExit(c))

Spec == Init /\ [][Next]_vars /\ Fairness

-----------------------------------------------------------------------------
\* The maps, queues and steps; no queue exceeds its channel.
TypeOK ==
    /\ topics \in [Clients -> SUBSET Topics]
    /\ byID \subseteq Clients /\ closed \subseteq Clients
    /\ byTopic \in [Topics -> SUBSET Clients]
    /\ \A c \in Clients : send[c] \in Seq(Messages) /\ Len(send[c]) =< SendCap
    /\ conn \in [Clients -> {"none", "open", "broken"}]
    /\ reader \in [Clients -> {"off", "reading", "unregistered", "exited"}]
    /\ writer \in [Clients -> BOOLEAN]
    /\ pub \in [Messages -> {"new", "sending", "done"}]
    /\ todo \in [Messages -> SUBSET Clients]

\* The two maps agree, and a client leaves both before it is closed: no new publisher
\* finds a client whose pumps are gone for good.
MapsAgree ==
    /\ TypeOK
    /\ \A t \in Topics : byTopic[t] = {c \in byID : t \in topics[c]}
    /\ byID \cap closed = {}

\* What a connection gets: only events of the topics it asked for, none twice, and those of
\* a Publish that had returned before another began ahead of that other's.  Hub.Publish.
WireInOrder ==
    \A c \in Clients :
        /\ \A i \in DOMAIN wire[c] : topicOf[wire[c][i]] \in topics[c]
        /\ IsInjective(wire[c])
        /\ \A i, j \in DOMAIN wire[c] : <<wire[c][i], wire[c][j]>> \in before => i < j

\* Publish returns, however slow, stuck or half-closed the subscribers are.
PublishNeverBlocks == \A m \in Messages : (pub[m] = "sending") ~> (pub[m] = "done")

\* When either side of a connection ends, the client leaves the hub and both of its
\* pumps exit: no goroutine and no map entry is leaked.
ConnectionsCleanedUp ==
    \A c \in Clients :
        (conn[c] = "broken") ~> (c \notin byID /\ reader[c] = "exited" /\ ~writer[c])

\* A shutdown ends every connection, also one that registers during it.
ShutdownEmptiesHub == shutdown ~> (byID = {} /\ \A c \in Clients : ~writer[c])
=============================================================================
