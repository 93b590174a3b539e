-------------------------------- MODULE MCWs --------------------------------
(* A small instance of WsTickets and WsHub for TLC.  The ticket store and    *)
(* the hub share no state: a client is registered after its upgrade was      *)
(* admitted and does not return to the store.  A behaviour therefore runs    *)
(* one of them and leaves the other as it started, which shows all that      *)
(* either can do without the product of the two.                             *)
EXTENDS WsTickets, WsHub

CONSTANTS c1, c2, m1, m2, m3

VARIABLE part

\* Clients and messages are interchangeable: they are named in the order in which they
\* come.
InOrder ==
    /\ conn[c2] # "none" => conn[c1] # "none"
    /\ pub[m2] # "new" => pub[m1] # "new"
    /\ pub[m3] # "new" => pub[m2] # "new"

\* Bound: a third message is published only while there is one client; it meets a queue
\* that is full, or stands in it behind the others.
Within == pub[m3] # "new" => conn[c2] = "none"

MCInit == TicketInit /\ Init /\ part \in {"tickets", "hub"}

MCNext ==
    /\ UNCHANGED part
    /\ \/ part = "tickets" /\ TicketNext /\ UNCHANGED vars
       \/ part = "hub" /\ Next /\ InOrder' /\ Within' /\ UNCHANGED ticketVars

\* The fairness of WsTickets and of WsHub.
MCSpec ==
    /\ MCInit /\ [][MCNext]_<<part, ticketVars, vars>>
    /\ \A t \in Tickets : WF_ticketVars(Cleanup(t))
    /\ Fairness
=============================================================================
