------------------------------- MODULE MCHass -------------------------------
(* A small instance of HassCredentials and HassFlows for TLC.  Apart from    *)
(* obtaining a token before it does anything else, a call about a flow does  *)
(* not touch the credentials, and nothing about the credentials reads the    *)
(* flows: a behaviour runs one of the two and leaves the other as it         *)
(* started, which shows all that either can do without their product.        *)
EXTENDS HassCredentials, HassFlows

CONSTANT f3     \* the third flow id

VARIABLE part

\* The integrations with a pending flow, a remembered one, or a request in flight.
Busy == {h \in Handlers : \/ PendingFor(h) # {} \/ last[h] # NoFlow
                          \/ \E r \in InFlight : req[r].handler = h}

\* Bound: with a second integration in use there are two flow ids and one request at a
\* time, as calls for different integrations meet only in the list HA returns; xiaomi_home
\* by itself has all three ids and overlapping requests.
Within ==
    \/ Busy \subseteq {Xiaomi}
    \/ Cardinality(InFlight) <= 1 /\ f3 \notin Pending \cup Known

\* The state HA starts in matters to the credentials only.
MCInit ==
    /\ Init /\ FlowInit
    /\ part = "credentials" \/ (part = "flows" /\ ~ha.owner)

MCNext ==
    /\ UNCHANGED part
    /\ \/ part = "credentials" /\ Next /\ UNCHANGED flowVars
       \/ part = "flows" /\ FlowNext /\ Within' /\ UNCHANGED vars

\* With the fairness of HassCredentials.  A behaviour of the flows leaves the background
\* loop waiting and is not fair: the liveness properties are about the credentials alone,
\* as HassFlows states none.
MCSpec == MCInit /\ [][MCNext]_<<part, vars, flowVars>> /\ Fairness
=============================================================================
