------------------------------ MODULE WsProofs ------------------------------
(***************************************************************************)
(* Proofs about the two modules of the ws package.                         *)
(*                                                                         *)
(* WsTickets, for any number of tickets and upgrade requests: a ticket     *)
(* admits one upgrade, and a used one leaves the map.                      *)
(*                                                                         *)
(* WsHub, for any clients, topics, messages and capacity of the clients'   *)
(* queues: the hub's two maps agree and drop a client before it is closed, *)
(* and what a connection gets is in order and not doubled.                 *)
(***************************************************************************)
EXTENDS WsTickets, WsHub, SequenceTheorems, TLAPS

-----------------------------------------------------------------------------
(* The ticket store.                                                       *)

\* Every step of MemTicketStore preserves the invariant TicketInv.
LEMMA TicketStep == TicketInv /\ [TicketNext]_ticketVars => TicketInv'
<1> SUFFICES ASSUME TicketInv, [TicketNext]_ticketVars PROVE TicketInv'
  OBVIOUS
<1> USE DEF TicketInv
<1>1. ASSUME NEW t \in Tickets, Issue(t) PROVE TicketInv'
  <2> USE <1>1, TicketConstants DEF Issue, Issued
  <2>1. TicketTypeOK'
    BY DEF TicketTypeOK
  <2>2. SpentInv' /\ OneUpgradePerTicket'
    BY DEF SpentInv, OneUpgradePerTicket
  <2>3. UsedTicketsLeave'
    BY DEF UsedTicketsLeave, TicketTypeOK
  <2> QED BY <2>1, <2>2, <2>3
<1>2. ASSUME NEW t \in Tickets, Cleanup(t) PROVE TicketInv'
  <2> USE <1>2 DEF Cleanup
  <2>1. TicketTypeOK'
    BY DEF TicketTypeOK, Issued
  <2>2. SpentInv' /\ OneUpgradePerTicket' /\ UsedTicketsLeave'
    BY DEF SpentInv, OneUpgradePerTicket, UsedTicketsLeave
  <2> QED BY <2>1, <2>2
<1>3. ASSUME NEW u \in Upgrades, NEW t \in Tickets, Load(u, t) PROVE TicketInv'
  <2> USE <1>3 DEF Load, Goto, storeVars
  <2>1. TicketTypeOK'
    BY DEF TicketTypeOK, Issued
  <2>2. SpentInv' /\ OneUpgradePerTicket'
    BY DEF SpentInv, OneUpgradePerTicket, TicketTypeOK
  <2>3. UsedTicketsLeave'
    BY DEF UsedTicketsLeave, TicketTypeOK
  <2> QED BY <2>1, <2>2, <2>3
<1>4. ASSUME NEW u \in Upgrades, CheckExpiry(u) PROVE TicketInv'
  <2> USE <1>4 DEF CheckExpiry, Goto
  <2>1. TicketTypeOK'
    BY DEF TicketTypeOK, Issued
  <2>2. SpentInv' /\ OneUpgradePerTicket'
    BY DEF SpentInv, OneUpgradePerTicket, TicketTypeOK
  <2>3. UsedTicketsLeave'
    BY DEF UsedTicketsLeave, TicketTypeOK
  <2> QED BY <2>1, <2>2, <2>3
<1>5. ASSUME NEW u \in Upgrades, CompareAndSwap(u) PROVE TicketInv'
  <2> USE <1>5 DEF CompareAndSwap, Goto
  <2>1. TicketTypeOK'
    BY DEF TicketTypeOK, Issued
  <2>2. SpentInv' /\ OneUpgradePerTicket'
    BY DEF SpentInv, OneUpgradePerTicket, TicketTypeOK
  <2>3. UsedTicketsLeave'
    BY DEF UsedTicketsLeave, TicketTypeOK
  <2> QED BY <2>1, <2>2, <2>3
<1>6. ASSUME NEW u \in Upgrades, Delete(u) PROVE TicketInv'
  <2> USE <1>6 DEF Delete, Goto
  <2>1. TicketTypeOK'
    BY DEF TicketTypeOK, Issued
  <2>2. SpentInv' /\ OneUpgradePerTicket'
    BY DEF SpentInv, OneUpgradePerTicket, TicketTypeOK
  <2>3. UsedTicketsLeave'
    BY DEF UsedTicketsLeave, TicketTypeOK
  <2> QED BY <2>1, <2>2, <2>3
<1>7. CASE Tick
  <2> USE <1>7 DEF Tick, storeVars
  <2>1. TicketTypeOK'
    BY DEF TicketTypeOK, Issued
  <2>2. SpentInv' /\ OneUpgradePerTicket' /\ UsedTicketsLeave'
    BY DEF SpentInv, OneUpgradePerTicket, UsedTicketsLeave
  <2> QED BY <2>1, <2>2
<1>8. CASE UNCHANGED ticketVars
  <2> USE <1>8 DEF ticketVars, storeVars
  <2>1. TicketTypeOK'
    BY DEF TicketTypeOK, Issued
  <2>2. SpentInv' /\ OneUpgradePerTicket' /\ UsedTicketsLeave'
    BY DEF SpentInv, OneUpgradePerTicket, UsedTicketsLeave
  <2> QED BY <2>1, <2>2
<1> QED BY <1>1, <1>2, <1>3, <1>4, <1>5, <1>6, <1>7, <1>8 DEF TicketNext, Consume

\* The store starts empty, in a state that satisfies the invariant.
LEMMA TicketInvInit == TicketInit => TicketInv
BY TicketConstants
   DEF TicketInit, TicketInv, TicketTypeOK, Issued, SpentInv, OneUpgradePerTicket, UsedTicketsLeave

\* TicketInv is an invariant of the ticket store.
THEOREM TicketInvariance == TicketSpec => []TicketInv
<1>1. TicketInit /\ [][TicketNext]_ticketVars => []TicketInv
  BY TicketInvInit, TicketStep, PTL
<1> QED BY <1>1, PTL DEF TicketSpec

\* No interleaving of Issue, Consume and cleanup leaves the types of the store.
THEOREM TicketTypeCorrect == TicketSpec => []TicketTypeOK
<1>1. TicketInv => TicketTypeOK
  BY DEF TicketInv
<1> QED BY <1>1, TicketInvariance, PTL

\* Consume admits at most one upgrade per ticket: the compare-and-swap decides the race
\* of any number of requests that loaded the same entry, also after its deletion.
THEOREM SingleUse == TicketSpec => []OneUpgradePerTicket
<1>1. TicketInv => OneUpgradePerTicket
  BY DEF TicketInv
<1> QED BY <1>1, TicketInvariance, PTL

\* A used entry stays in the map only while the request that used it is about to delete it.
THEOREM UsedLeave == TicketSpec => []UsedTicketsLeave
<1>1. TicketInv => UsedTicketsLeave
  BY DEF TicketInv
<1> QED BY <1>1, TicketInvariance, PTL

-----------------------------------------------------------------------------
(* The hub and the pumps.                                                  *)

TypeInv ==
    /\ TypeOK
    /\ send \in [Clients -> Seq(Messages)] /\ wire \in [Clients -> Seq(Messages)]
    /\ topicOf \in [Messages -> Topics] /\ before \subseteq Messages \X Messages

\* The life of a connection: where its client is while its read pump is at which step; and
\* before it registers nobody knows it.
ClientInv ==
    /\ \A t \in Topics : byTopic[t] = {c \in byID : t \in topics[c]}
    /\ \A c \in Clients :
         /\ conn[c] = "none" <=> reader[c] = "off"
         /\ writer[c] = TRUE => reader[c] # "off"
         /\ c \in byID <=> reader[c] = "reading"
         /\ c \in closed <=> reader[c] = "exited"
         /\ reader[c] = "off" =>
              send[c] = <<>> /\ wire[c] = <<>> /\ \A m \in Messages : c \notin todo[m]

\* The life of a message: a publisher that has not begun or has returned owes no client
\* anything, and one that returned before another began has returned.
PubInv ==
    /\ \A m \in Messages : pub[m] # "sending" => todo[m] = {}
    /\ \A m \in Messages : \A c \in todo[m] : topicOf[m] \in topics[c]
    /\ \A m, n \in Messages : <<m, n>> \in before => pub[m] = "done" /\ pub[n] # "new"

\* The elements of q are different, and none comes after one that R puts behind it.
InOrder(q, R) ==
    \A i, j \in 1 .. Len(q) : (q[i] = q[j] => i = j) /\ (<<q[i], q[j]>> \in R => i < j)

\* No element of q is in w, and R puts none ahead of one in w.
Behind(q, w, R) ==
    \A i \in 1 .. Len(q), j \in 1 .. Len(w) : q[i] # w[j] /\ <<q[i], w[j]>> \notin R

\* The messages of q were published to client c, of a topic of its, and are not owed any more.
Delivered(q, c) ==
    \A i \in 1 .. Len(q) :
        pub[q[i]] # "new" /\ c \notin todo[q[i]] /\ topicOf[q[i]] \in topics[c]

\* What is on the wire and what is queued, per client.
OrderInv ==
    \A c \in Clients :
        /\ Delivered(wire[c], c) /\ Delivered(send[c], c)
        /\ InOrder(wire[c], before) /\ InOrder(send[c], before)
        /\ Behind(send[c], wire[c], before)

IInv == TypeInv /\ ClientInv /\ PubInv /\ OrderInv
-----------------------------------------------------------------------------
\* A new element that nothing is behind may go to the end.
LEMMA AppendInOrder ==
  ASSUME NEW S, NEW q \in Seq(S), NEW m \in S, NEW R, InOrder(q, R), <<m, m>> \notin R,
         \A i \in 1 .. Len(q) : q[i] # m /\ <<m, q[i]>> \notin R
  PROVE  InOrder(Append(q, m), R)
<1> DEFINE a == Append(q, m)
<1>1. /\ Len(q) \in Nat /\ Len(a) = Len(q) + 1 /\ a[Len(q) + 1] = m
      /\ \A i \in 1 .. Len(q) : a[i] = q[i]
  BY AppendProperties, LenProperties
<1> HIDE DEF a
<1>2. \A i \in 1 .. Len(a) : i \in 1 .. Len(q) \/ i = Len(q) + 1
  BY <1>1
<1>3. ASSUME NEW i \in 1 .. Len(a), NEW j \in 1 .. Len(a)
      PROVE  (a[i] = a[j] => i = j) /\ (<<a[i], a[j]>> \in R => i < j)
  <2>1. CASE i \in 1 .. Len(q) /\ j \in 1 .. Len(q)
    BY <1>1, <2>1 DEF InOrder
  <2>2. CASE i \in 1 .. Len(q) /\ j = Len(q) + 1
    BY <1>1, <2>2
  <2>3. CASE i = Len(q) + 1 /\ j \in 1 .. Len(q)
    BY <1>1, <2>3
  <2>4. CASE i = Len(q) + 1 /\ j = Len(q) + 1
    BY <1>1, <2>4
  <2> QED BY <1>2, <2>1, <2>2, <2>3, <2>4
<1> QED BY <1>3 DEF InOrder, a

\* What is left when the first element has gone is in order still.
LEMMA TailInOrder ==
  ASSUME NEW S, NEW q \in Seq(S), q # <<>>, NEW R, InOrder(q, R)
  PROVE  InOrder(Tail(q), R)
<1>1. /\ Len(q) \in Nat /\ Len(Tail(q)) = Len(q) - 1
      /\ \A i \in 1 .. Len(Tail(q)) : Tail(q)[i] = q[i + 1] /\ i + 1 \in 1 .. Len(q)
  BY HeadTailProperties, LenProperties
<1> QED BY <1>1 DEF InOrder

\* The first element of q may move to the end of w: the rest of q stays behind w.
LEMMA MoveHead ==
  ASSUME NEW S, NEW q \in Seq(S), q # <<>>, NEW w \in Seq(S), NEW R,
         InOrder(q, R), InOrder(w, R), Behind(q, w, R)
  PROVE  /\ InOrder(Append(w, Head(q)), R)
         /\ Behind(Tail(q), w, R) /\ Behind(Tail(q), Append(w, Head(q)), R)
<1> DEFINE m == Head(q)
           a == Append(w, m)
           p == Tail(q)
<1>1. /\ Len(q) \in Nat /\ Len(p) = Len(q) - 1 /\ m \in S /\ m = q[1] /\ 1 \in 1 .. Len(q)
      /\ \A i \in 1 .. Len(p) : p[i] = q[i + 1] /\ i + 1 \in 1 .. Len(q) /\ i + 1 # 1
  BY HeadTailProperties, LenProperties, EmptySeq
<1>2. <<m, m>> \notin R /\ \A i \in 1 .. Len(w) : w[i] # m /\ <<m, w[i]>> \notin R
  BY <1>1 DEF InOrder, Behind
<1>3. InOrder(a, R)
  BY <1>1, <1>2, AppendInOrder
<1>4. /\ Len(w) \in Nat /\ Len(a) = Len(w) + 1 /\ a[Len(w) + 1] = m
      /\ \A i \in 1 .. Len(w) : a[i] = w[i]
  BY <1>1, AppendProperties, LenProperties
<1> HIDE DEF m, a, p
<1>5. \A i \in 1 .. Len(p) : p[i] # m /\ <<p[i], m>> \notin R
  BY <1>1 DEF InOrder
<1>6. Behind(p, w, R)
  BY <1>1 DEF Behind
<1>7. \A j \in 1 .. Len(a) : j \in 1 .. Len(w) \/ j = Len(w) + 1
  BY <1>4
<1>8. Behind(p, a, R)
  BY <1>4, <1>5, <1>6, <1>7 DEF Behind
<1> QED BY <1>3, <1>6, <1>8 DEF m, a, p

\* Nor does a new element of q that is not in w, and that R puts ahead of none there.
LEMMA AppendBehind ==
  ASSUME NEW S, NEW q \in Seq(S), NEW w \in Seq(S), NEW R, NEW m \in S, Behind(q, w, R),
         \A i \in 1 .. Len(w) : w[i] # m /\ <<m, w[i]>> \notin R
  PROVE  Behind(Append(q, m), w, R)
<1> DEFINE a == Append(q, m)
<1>1. /\ Len(q) \in Nat /\ Len(a) = Len(q) + 1 /\ a[Len(q) + 1] = m
      /\ \A i \in 1 .. Len(q) : a[i] = q[i]
  BY AppendProperties, LenProperties
<1> HIDE DEF a
<1>2. \A i \in 1 .. Len(a) : i \in 1 .. Len(q) \/ i = Len(q) + 1
  BY <1>1
<1> QED BY <1>1, <1>2 DEF Behind, a
-----------------------------------------------------------------------------
\* The hub that nobody has joined satisfies the invariant.
LEMMA InitInv == Init => IInv
<1> SUFFICES ASSUME Init PROVE IInv
  OBVIOUS
<1>0. <<>> \in Seq(Messages) /\ Len(<<>>) = 0 /\ 0 =< SendCap /\ 1 .. 0 = {}
  BY HubConstants, EmptySeq
<1>1. TypeInv
  BY <1>0, Zenon DEF Init, TypeInv, TypeOK
<1>2. ClientInv
  BY DEF Init, ClientInv
<1>3. PubInv
  BY DEF Init, PubInv
<1>4. OrderInv
  BY <1>0 DEF Init, OrderInv, Delivered, InOrder, Behind
<1> QED BY <1>1, <1>2, <1>3, <1>4 DEF IInv

\* Every step keeps maps, queues and steps in their types, and queues within their capacity.
LEMMA TypeStep == IInv /\ [Next]_vars => TypeInv'
<1> SUFFICES ASSUME IInv, [Next]_vars PROVE TypeInv'
  OBVIOUS
<1> USE DEF IInv, TypeInv, TypeOK, hubVars, pumpVars, pubVars
<1>1. ASSUME NEW c \in Clients, NEW ts \in SUBSET Topics, Register(c, ts) PROVE TypeInv'
  BY <1>1 DEF Register
<1>2. ASSUME NEW c \in Clients, Disconnect(c) \/ Unregister(c) PROVE TypeInv'
  <2>1. CASE Disconnect(c)
    BY <2>1 DEF Disconnect
  <2>2. CASE Unregister(c)
    BY <2>2 DEF Unregister
  <2> QED BY <1>2, <2>1, <2>2
<1>3. ASSUME NEW c \in Clients, ReaderClose(c) \/ WriterExit(c) \/ PingFails(c) PROVE TypeInv'
  <2>1. CASE ReaderClose(c)
    BY <2>1 DEF ReaderClose
  <2>2. CASE WriterExit(c) \/ PingFails(c)
    BY <2>2 DEF WriterExit, PingFails
  <2> QED BY <1>3, <2>1, <2>2
<1>4. ASSUME NEW c \in Clients, WriteMessage(c) PROVE TypeInv'
  <2>1. send[c] \in Seq(Messages) /\ send[c] # <<>> /\ wire[c] \in Seq(Messages)
    BY <1>4 DEF WriteMessage
  <2>2. Head(send[c]) \in Messages /\ Tail(send[c]) \in Seq(Messages)
        /\ Len(Tail(send[c])) =< SendCap
    BY <2>1, HeadTailProperties, LenProperties, HubConstants
  <2>3. Append(wire[c], Head(send[c])) \in Seq(Messages)
    BY <2>1, <2>2, AppendProperties
  <2>4. send' = [send EXCEPT ![c] = Tail(send[c])]
    BY <1>4 DEF WriteMessage
  <2>5. send' \in [Clients -> Seq(Messages)] /\ \A x \in Clients : Len(send'[x]) =< SendCap
    BY <2>2, <2>4
  <2>6. wire' = [wire EXCEPT ![c] = Append(wire[c], Head(send[c]))] \/ wire' = wire
    BY <1>4 DEF WriteMessage
  <2>7. wire' \in [Clients -> Seq(Messages)]
    BY <2>3, <2>6
  <2>8. conn' \in [Clients -> {"none", "open", "broken"}] /\ writer' \in [Clients -> BOOLEAN]
    BY <1>4 DEF WriteMessage
  <2> QED BY <1>4, <2>5, <2>7, <2>8 DEF WriteMessage
<1>5. ASSUME NEW m \in Messages, Snapshot(m) PROVE TypeInv'
  BY <1>5 DEF Snapshot
<1>6. ASSUME NEW m \in Messages, NEW c \in Clients, SendTo(m, c) PROVE TypeInv'
  <2>1. send[c] \in Seq(Messages) /\ Len(send[c]) \in Nat
    BY LenProperties
  <2>2. Append(send[c], m) \in Seq(Messages) /\ Len(Append(send[c], m)) = Len(send[c]) + 1
    BY <2>1, AppendProperties
  <2>3. \/ send' = send
        \/ Len(send[c]) < SendCap /\ send' = [send EXCEPT ![c] = Append(send[c], m)]
    BY <1>6 DEF SendTo
  <2>4. send' \in [Clients -> Seq(Messages)] /\ \A x \in Clients : Len(send'[x]) =< SendCap
    <3>1. CASE send' = send
      BY <3>1
    <3>2. CASE Len(send[c]) < SendCap /\ send' = [send EXCEPT ![c] = Append(send[c], m)]
      <4>1. Len(Append(send[c], m)) =< SendCap
        BY <2>1, <2>2, <3>2, HubConstants
      <4> HIDE DEF TypeOK
      <4>2. \A x \in Clients : Len(send[x]) =< SendCap
        BY DEF TypeOK
      <4> QED BY <2>2, <3>2, <4>1, <4>2
    <3> QED BY <2>3, <3>1, <3>2
  <2> QED BY <1>6, <2>4 DEF SendTo
<1>7. ASSUME NEW m \in Messages, PublishReturns(m) PROVE TypeInv'
  BY <1>7 DEF PublishReturns
<1>8. CASE Shutdown \/ UNCHANGED vars
  BY <1>8 DEF Shutdown, vars
<1> QED BY <1>1, <1>2, <1>3, <1>4, <1>5, <1>6, <1>7, <1>8 DEF Next, ReaderStep, PublishStep

\* Every step keeps clients in the maps exactly while their read pump reads.
LEMMA ClientStep == IInv /\ [Next]_vars => ClientInv'
<1> SUFFICES ASSUME IInv, [Next]_vars PROVE ClientInv'
  OBVIOUS
<1> USE DEF IInv, TypeInv, TypeOK, ClientInv, hubVars, pumpVars, pubVars
<1>1. ASSUME NEW c \in Clients, NEW ts \in SUBSET Topics, Register(c, ts) PROVE ClientInv'
  BY <1>1 DEF Register
<1>2. ASSUME NEW c \in Clients, Disconnect(c) PROVE ClientInv'
  BY <1>2 DEF Disconnect
<1>3. ASSUME NEW c \in Clients, Unregister(c) PROVE ClientInv'
  BY <1>3 DEF Unregister
<1>4. ASSUME NEW c \in Clients, ReaderClose(c) \/ WriterExit(c) \/ PingFails(c) PROVE ClientInv'
  BY <1>4 DEF ReaderClose, WriterExit, PingFails
<1>5. ASSUME NEW c \in Clients, WriteMessage(c) PROVE ClientInv'
  <2>1. \A x \in Clients : x # c => send'[x] = send[x] /\ wire'[x] = wire[x]
    BY <1>5 DEF WriteMessage
  <2>2. reader[c] # "off" /\ reader' = reader
    BY <1>5 DEF WriteMessage
  <2>3. /\ \A x \in Clients : conn'[x] = "none" <=> conn[x] = "none"
        /\ \A x \in Clients : writer'[x] = TRUE => writer[x] = TRUE
    <3>1. CASE UNCHANGED <<conn, writer>>
      BY <3>1
    <3>2. CASE /\ writer' = [writer EXCEPT ![c] = FALSE] /\ conn' = [conn EXCEPT ![c] = "broken"]
      BY <2>2, <3>2
    <3> QED BY <1>5, <3>1, <3>2 DEF WriteMessage
  <2>4. UNCHANGED <<topics, byID, byTopic, closed, todo>>
    BY <1>5 DEF WriteMessage
  <2> QED BY <2>1, <2>2, <2>3, <2>4
<1>6. ASSUME NEW m \in Messages, Snapshot(m) PROVE ClientInv'
  BY <1>6 DEF Snapshot
<1>7. ASSUME NEW m \in Messages, NEW c \in Clients, SendTo(m, c) PROVE ClientInv'
  BY <1>7 DEF SendTo
<1>8. ASSUME NEW m \in Messages, PublishReturns(m) PROVE ClientInv'
  BY <1>8 DEF PublishReturns
<1>9. CASE Shutdown \/ UNCHANGED vars
  BY <1>9 DEF Shutdown, vars
<1> QED BY <1>1, <1>2, <1>3, <1>4, <1>5, <1>6, <1>7, <1>8, <1>9 DEF Next, ReaderStep, PublishStep

\* Every step keeps publishers owing messages of a client's topics only.
LEMMA PubStep == IInv /\ [Next]_vars => PubInv'
<1> SUFFICES ASSUME IInv, [Next]_vars PROVE PubInv'
  OBVIOUS
<1> USE DEF IInv, TypeInv, TypeOK, PubInv, hubVars, pumpVars, pubVars
<1>1. ASSUME NEW c \in Clients, NEW ts \in SUBSET Topics, Register(c, ts) PROVE PubInv'
  <2>1. \A m \in Messages : c \notin todo[m]
    BY <1>1 DEF Register, ClientInv
  <2> QED BY <1>1, <2>1 DEF Register
<1>2. ASSUME NEW c \in Clients, Disconnect(c) \/ Unregister(c) \/ ReaderClose(c) \/ WriterExit(c)
                                \/ PingFails(c) \/ WriteMessage(c)
      PROVE  PubInv'
  BY <1>2 DEF Disconnect, Unregister, ReaderClose, WriterExit, PingFails, WriteMessage
<1>3. ASSUME NEW m \in Messages, Snapshot(m) PROVE PubInv'
  BY <1>3 DEF Snapshot, ClientInv
<1>4. ASSUME NEW m \in Messages, NEW c \in Clients, SendTo(m, c) PROVE PubInv'
  BY <1>4 DEF SendTo
<1>5. ASSUME NEW m \in Messages, PublishReturns(m) PROVE PubInv'
  BY <1>5 DEF PublishReturns
<1>6. CASE Shutdown \/ UNCHANGED vars
  BY <1>6 DEF Shutdown, vars
<1> QED BY <1>1, <1>2, <1>3, <1>4, <1>5, <1>6 DEF Next, ReaderStep, PublishStep

\* The queues and wires of the clients, step by step: nothing an action leaves alone, and
\* no growth of before at messages that are not delivered yet, disturbs them.
LEMMA OrderStays ==
  ASSUME IInv, UNCHANGED <<send, wire, topicOf>>, topics' \in [Clients -> SUBSET Topics],
         \A x \in Clients : send[x] # <<>> \/ wire[x] # <<>> => topics'[x] = topics[x],
         \A m \in Messages : pub[m] # "new" => pub'[m] # "new" /\ todo'[m] \subseteq todo[m],
         \A m, n \in Messages : pub[n] # "new" /\ <<m, n>> \in before' => <<m, n>> \in before
  PROVE  OrderInv'
<1> SUFFICES ASSUME NEW c \in Clients
             PROVE  /\ Delivered(wire[c], c)' /\ Delivered(send[c], c)'
                    /\ InOrder(wire[c], before)' /\ InOrder(send[c], before)'
                    /\ Behind(send[c], wire[c], before)'
  BY DEF OrderInv
<1> DEFINE q == send[c]
           w == wire[c]
<1>1. q \in Seq(Messages) /\ w \in Seq(Messages)
  BY DEF IInv, TypeInv
<1>2. /\ \A i \in 1 .. Len(q) : q[i] \in Messages
      /\ \A i \in 1 .. Len(w) : w[i] \in Messages
  BY <1>1, ElementOfSeq
<1>3. /\ \A i \in 1 .. Len(q) : topics'[c] = topics[c]
      /\ \A i \in 1 .. Len(w) : topics'[c] = topics[c]
  BY <1>1, EmptySeq
<1>4. /\ Delivered(w, c) /\ Delivered(q, c) /\ InOrder(w, before) /\ InOrder(q, before)
      /\ Behind(q, w, before)
  BY DEF IInv, OrderInv
<1>5. q' = q /\ w' = w
  OBVIOUS
<1> HIDE DEF q, w
<1>6. Delivered(w, c)' /\ Delivered(q, c)'
  BY <1>2, <1>3, <1>4, <1>5 DEF Delivered
<1>7. InOrder(w, before)' /\ InOrder(q, before)'
  BY <1>2, <1>4, <1>5 DEF InOrder, Delivered
<1>8. Behind(q, w, before)'
  BY <1>2, <1>4, <1>5 DEF Behind, Delivered
<1> QED BY <1>6, <1>7, <1>8 DEF q, w

\* The write pump moves the oldest queued message to the wire, or loses it.
LEMMA WriteKeepsOrder == ASSUME IInv, NEW c \in Clients, WriteMessage(c) PROVE OrderInv'
<1> DEFINE q == send[c]
           w == wire[c]
           a == Append(w, Head(q))
<1>1. q \in Seq(Messages) /\ w \in Seq(Messages) /\ q # <<>>
  BY DEF IInv, TypeInv, WriteMessage
<1>2. /\ Delivered(w, c) /\ Delivered(q, c) /\ InOrder(w, before) /\ InOrder(q, before)
      /\ Behind(q, w, before)
  BY DEF IInv, OrderInv
<1>3. UNCHANGED <<pub, todo, topicOf, topics, before>>
  BY DEF WriteMessage, hubVars, pubVars
<1>4. send'[c] = Tail(q) /\ (wire'[c] = a \/ wire'[c] = w)
  BY DEF WriteMessage, IInv, TypeInv
<1>5. \A x \in Clients : x # c => send'[x] = send[x] /\ wire'[x] = wire[x]
  BY DEF WriteMessage, IInv, TypeInv
<1> HIDE DEF q, w
<1>6. /\ InOrder(a, before) /\ InOrder(Tail(q), before)
      /\ Behind(Tail(q), w, before) /\ Behind(Tail(q), a, before)
  BY <1>1, <1>2, MoveHead, TailInOrder
<1>7. Delivered(Tail(q), c)
  <2>1. /\ Len(q) \in Nat /\ Len(Tail(q)) = Len(q) - 1
        /\ \A i \in 1 .. Len(Tail(q)) : Tail(q)[i] = q[i + 1] /\ i + 1 \in 1 .. Len(q)
    BY <1>1, HeadTailProperties, LenProperties
  <2> QED BY <1>2, <2>1 DEF Delivered
<1>8. Delivered(a, c)
  <2>1. Head(q) = q[1] /\ 1 \in 1 .. Len(q) /\ Head(q) \in Messages
    BY <1>1, HeadTailProperties, LenProperties, EmptySeq
  <2>2. /\ Len(w) \in Nat /\ Len(a) = Len(w) + 1 /\ a[Len(w) + 1] = q[1]
        /\ \A i \in 1 .. Len(w) : a[i] = w[i]
    BY <1>1, <2>1, AppendProperties, LenProperties
  <2> HIDE DEF a
  <2>3. \A i \in 1 .. Len(a) : i \in 1 .. Len(w) \/ i = Len(w) + 1
    BY <2>2
  <2> QED BY <1>2, <2>1, <2>2, <2>3 DEF Delivered
<1> HIDE DEF a
<1>9. ASSUME NEW x \in Clients
      PROVE  /\ Delivered(wire[x], x)' /\ Delivered(send[x], x)'
             /\ InOrder(wire[x], before)' /\ InOrder(send[x], before)'
             /\ Behind(send[x], wire[x], before)'
  <2>1. CASE x = c
    <3>1. Delivered(wire[x], x)' /\ Delivered(send[x], x)'
      BY <1>2, <1>3, <1>4, <1>7, <1>8, <2>1 DEF Delivered
    <3>2. InOrder(wire[x], before)' /\ InOrder(send[x], before)'
      <4>1. InOrder(wire'[x], before')
        <5>1. CASE wire'[c] = a
          BY <1>3, <1>6, <2>1, <5>1
        <5>2. CASE wire'[c] = w
          BY <1>2, <1>3, <2>1, <5>2
        <5> QED BY <1>4, <5>1, <5>2
      <4>2. InOrder(send'[x], before')
        BY <1>3, <1>4, <1>6, <2>1
      <4> QED BY <4>1, <4>2 DEF InOrder
    <3>3. Behind(send[x], wire[x], before)'
      <4>1. Behind(send'[x], wire'[x], before')
        <5>1. CASE wire'[c] = a
          BY <1>3, <1>4, <1>6, <2>1, <5>1
        <5>2. CASE wire'[c] = w
          BY <1>3, <1>4, <1>6, <2>1, <5>2
        <5> QED BY <1>4, <5>1, <5>2
      <4> QED BY <4>1 DEF Behind
    <3> QED BY <3>1, <3>2, <3>3
  <2>2. CASE x # c
    <3>1. /\ Delivered(wire[x], x) /\ Delivered(send[x], x)
          /\ InOrder(wire[x], before) /\ InOrder(send[x], before)
          /\ Behind(send[x], wire[x], before)
      BY DEF IInv, OrderInv
    <3>2. send'[x] = send[x] /\ wire'[x] = wire[x]
      BY <1>5, <2>2
    <3> QED BY <1>3, <3>1, <3>2 DEF Delivered, InOrder, Behind
  <2> QED BY <2>1, <2>2
<1> QED BY <1>9 DEF OrderInv

\* Publish queues a message once, behind those of every Publish that had returned before.
LEMMA SendKeepsOrder ==
  ASSUME IInv, NEW m \in Messages, NEW c \in Clients, SendTo(m, c)
  PROVE  OrderInv'
<1> DEFINE q == send[c]
           w == wire[c]
           a == Append(q, m)
<1>1. q \in Seq(Messages) /\ w \in Seq(Messages)
  BY DEF IInv, TypeInv
<1>2. /\ Delivered(w, c) /\ Delivered(q, c) /\ InOrder(w, before) /\ InOrder(q, before)
      /\ Behind(q, w, before)
  BY DEF IInv, OrderInv
<1>3. UNCHANGED <<pub, topicOf, topics, before, wire>> /\ todo' = [todo EXCEPT ![m] = @ \ {c}]
  BY DEF SendTo, hubVars
<1>4. c \in todo[m] /\ pub[m] = "sending" /\ topicOf[m] \in topics[c]
  BY DEF SendTo, IInv, TypeInv, TypeOK, PubInv
<1>5. todo' \in [Messages -> SUBSET Clients] /\ \A n \in Messages : todo'[n] \subseteq todo[n]
  BY <1>3 DEF IInv, TypeInv, TypeOK
<1>6. c \notin todo'[m]
  BY <1>3 DEF IInv, TypeInv, TypeOK
<1>7. CASE UNCHANGED send
  BY <1>3, <1>5, <1>7, OrderStays DEF IInv, TypeInv, TypeOK
<1>8. CASE send' = [send EXCEPT ![c] = a]
  <2>1. send'[c] = a /\ \A x \in Clients : x # c => send'[x] = send[x]
    BY <1>8 DEF IInv, TypeInv
  <2>2. \A n \in Messages : <<m, n>> \notin before
    BY <1>4 DEF IInv, PubInv
  <2> HIDE DEF q, w
  <2>3. /\ \A i \in 1 .. Len(q) : q[i] \in Messages
        /\ \A i \in 1 .. Len(w) : w[i] \in Messages
    BY <1>1, ElementOfSeq
  <2>4. /\ \A i \in 1 .. Len(q) : q[i] # m /\ <<m, q[i]>> \notin before
        /\ \A i \in 1 .. Len(w) : w[i] # m /\ <<m, w[i]>> \notin before
    BY <1>2, <1>4, <2>2, <2>3 DEF Delivered
  <2>5. InOrder(a, before) /\ Behind(a, w, before)
    BY <1>1, <1>2, <2>2, <2>4, AppendInOrder, AppendBehind
  <2>6. /\ Len(q) \in Nat /\ Len(a) = Len(q) + 1 /\ a[Len(q) + 1] = m
        /\ \A i \in 1 .. Len(q) : a[i] = q[i]
    BY <1>1, AppendProperties, LenProperties
  <2> HIDE DEF a
  <2>7. \A i \in 1 .. Len(a) : i \in 1 .. Len(q) \/ i = Len(q) + 1
    BY <2>6
  <2>8. Delivered(w, c)' /\ Delivered(send[c], c)'
    <3>1. wire'[c] = w /\ w' = w
      BY <1>3 DEF w
    <3>2. \A i \in 1 .. Len(w) :
             pub'[w[i]] # "new" /\ c \notin todo'[w[i]] /\ topicOf'[w[i]] \in topics'[c]
      BY <1>2, <1>3, <1>5, <2>3 DEF Delivered
    <3>3. \A i \in 1 .. Len(q) :
             pub'[q[i]] # "new" /\ c \notin todo'[q[i]] /\ topicOf'[q[i]] \in topics'[c]
      BY <1>2, <1>3, <1>5, <2>3 DEF Delivered
    <3>4. \A i \in 1 .. Len(a) :
             pub'[a[i]] # "new" /\ c \notin todo'[a[i]] /\ topicOf'[a[i]] \in topics'[c]
      BY <1>3, <1>4, <1>6, <2>6, <2>7, <3>3
    <3> QED BY <2>1, <3>1, <3>2, <3>4 DEF Delivered
  <2>9. ASSUME NEW x \in Clients
        PROVE  /\ Delivered(wire[x], x)' /\ Delivered(send[x], x)'
               /\ InOrder(wire[x], before)' /\ InOrder(send[x], before)'
               /\ Behind(send[x], wire[x], before)'
    <3>1. CASE x = c
      <4>1. wire'[c] = w /\ w' = w
        BY <1>3 DEF w
      <4>2. InOrder(wire[x], before)' /\ InOrder(send[x], before)'
        BY <1>2, <1>3, <2>1, <2>5, <3>1, <4>1 DEF InOrder
      <4>3. Behind(send[x], wire[x], before)'
        BY <1>3, <2>1, <2>5, <3>1, <4>1 DEF Behind
      <4> QED BY <2>8, <3>1, <4>1, <4>2, <4>3 DEF w
    <3>2. CASE x # c
      <4>1. /\ Delivered(wire[x], x) /\ Delivered(send[x], x)
            /\ InOrder(wire[x], before) /\ InOrder(send[x], before)
            /\ Behind(send[x], wire[x], before)
        BY DEF IInv, OrderInv
      <4>2. send'[x] = send[x] /\ wire'[x] = wire[x]
        BY <1>3, <2>1, <3>2
      <4>3. /\ \A i \in 1 .. Len(send[x]) : send[x][i] \in Messages
            /\ \A i \in 1 .. Len(wire[x]) : wire[x][i] \in Messages
        BY ElementOfSeq DEF IInv, TypeInv
      <4>4. Delivered(wire[x], x)' /\ Delivered(send[x], x)'
        BY <1>3, <1>5, <4>1, <4>2, <4>3 DEF Delivered
      <4> QED BY <1>3, <4>1, <4>2, <4>4 DEF InOrder, Behind
    <3> QED BY <3>1, <3>2
  <2> QED BY <2>9 DEF OrderInv
<1> QED BY <1>7, <1>8 DEF SendTo

\* Every step keeps queues and wires in order.
LEMMA OrderStep == IInv /\ [Next]_vars => OrderInv'
<1> SUFFICES ASSUME IInv, [Next]_vars PROVE OrderInv'
  OBVIOUS
<1>0. TypeInv' /\ topics' \in [Clients -> SUBSET Topics]
  BY TypeStep DEF TypeInv, TypeOK
<1>1. ASSUME NEW c \in Clients, NEW ts \in SUBSET Topics, Register(c, ts) PROVE OrderInv'
  <2>1. send[c] = <<>> /\ wire[c] = <<>>
    BY <1>1 DEF Register, IInv, ClientInv
  <2>2. UNCHANGED <<send, wire, topicOf, pub, todo, before>>
    BY <1>1 DEF Register, pubVars
  <2>3. \A x \in Clients : x # c => topics'[x] = topics[x]
    BY <1>1 DEF Register, IInv, TypeInv, TypeOK
  <2> QED BY <1>0, <2>1, <2>2, <2>3, OrderStays
<1>2. ASSUME NEW c \in Clients,
             Disconnect(c) \/ Unregister(c) \/ ReaderClose(c) \/ WriterExit(c) \/ PingFails(c)
      PROVE  OrderInv'
  <2>1. UNCHANGED <<send, wire, topicOf, topics, pub, todo, before>>
    BY <1>2 DEF Disconnect, Unregister, ReaderClose, WriterExit, PingFails, hubVars, pubVars
  <2> QED BY <1>0, <2>1, OrderStays
<1>3. ASSUME NEW m \in Messages, Snapshot(m) PROVE OrderInv'
  <2>1. UNCHANGED <<send, wire, topicOf, topics>>
    BY <1>3 DEF Snapshot, hubVars
  <2>2. pub[m] = "new" /\ \A n \in Messages : n # m => pub'[n] = pub[n] /\ todo'[n] = todo[n]
    BY <1>3 DEF Snapshot, IInv, TypeInv, TypeOK
  <2>3. \A k, n \in Messages : pub[n] # "new" /\ <<k, n>> \in before' => <<k, n>> \in before
    BY <1>3, <2>2 DEF Snapshot
  <2> QED BY <1>0, <2>1, <2>2, <2>3, OrderStays
<1>4. ASSUME NEW m \in Messages, PublishReturns(m) PROVE OrderInv'
  <2>1. UNCHANGED <<send, wire, topicOf, topics, todo, before>>
    BY <1>4 DEF PublishReturns, hubVars
  <2>2. \A n \in Messages : pub[n] # "new" => pub'[n] # "new"
    BY <1>4 DEF PublishReturns, IInv, TypeInv, TypeOK
  <2> QED BY <1>0, <2>1, <2>2, OrderStays
<1>5. CASE Shutdown \/ UNCHANGED vars
  <2>1. UNCHANGED <<send, wire, topicOf, topics, pub, todo, before>>
    BY <1>5 DEF Shutdown, vars, hubVars, pubVars
  <2> QED BY <1>0, <2>1, OrderStays
<1> QED BY <1>1, <1>2, <1>3, <1>4, <1>5, WriteKeepsOrder, SendKeepsOrder
        DEF Next, ReaderStep, PublishStep

\* The inductive invariant holds in every reachable state.
LEMMA Invariance == Spec => []IInv
<1>1. IInv /\ [Next]_vars => IInv'
  BY TypeStep, ClientStep, PubStep, OrderStep DEF IInv
<1> QED BY <1>1, InitInv, PTL DEF Spec

\* The hub's two maps agree, and a client leaves both before it is closed.
THEOREM MapsAlwaysAgree == Spec => []MapsAgree
<1>1. IInv => MapsAgree
  <2>1. IInv => TypeOK /\ \A t \in Topics : byTopic[t] = {c \in byID : t \in topics[c]}
    BY DEF IInv, TypeInv, ClientInv
  <2>2. IInv => byID \cap closed = {}
    BY DEF IInv, TypeInv, TypeOK, ClientInv
  <2> QED BY <2>1, <2>2 DEF MapsAgree
<1> QED BY <1>1, Invariance, PTL

\* A connection gets only events of its topics, none twice, and those of a Publish that had
\* returned before another began ahead of that other's.
THEOREM WireAlwaysInOrder == Spec => []WireInOrder
<1>1. IInv => WireInOrder
  <2> SUFFICES ASSUME IInv, NEW c \in Clients
               PROVE  /\ \A i \in DOMAIN wire[c] : topicOf[wire[c][i]] \in topics[c]
                      /\ IsInjective(wire[c])
                      /\ \A i, j \in DOMAIN wire[c] : <<wire[c][i], wire[c][j]>> \in before => i < j
    BY DEF WireInOrder
  <2>1. DOMAIN wire[c] = 1 .. Len(wire[c])
    BY LenProperties DEF IInv, TypeInv
  <2>2. Delivered(wire[c], c) /\ InOrder(wire[c], before)
    BY DEF IInv, OrderInv
  <2> QED BY <2>1, <2>2 DEF Delivered, InOrder, IsInjective
<1> QED BY <1>1, Invariance, PTL
=============================================================================
