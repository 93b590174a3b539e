------------------------------ MODULE MCNotify ------------------------------
(* A small instance of Notify for TLC: one device that sends a reading just  *)
(* not above a threshold and then one that is, or two that each break a rule.*)
(* The pushes depend on the batches only by the goroutines that are started  *)
(* and by the end of the request, and the batches not on the pushes at all:  *)
(* a behaviour has either every kind of batch and no phone to push to, or    *)
(* phones, batches that are stored and whose readings break one rule, and no *)
(* device that goes offline.                                                 *)
EXTENDS Notify

CONSTANT d1

VARIABLE part

Hot == [dev |-> d1, metric |-> "temperature", value |-> 31]
Mild == [dev |-> d1, metric |-> "temperature", value |-> 30]
Cold == [dev |-> d1, metric |-> "temperature", value |-> 13]

MCBatches == {<<Mild, Hot>>, <<Hot, Hot>>, <<Hot, Cold>>}

Busy == {r \in Reqs : ~Free(r)}

\* Bounds.  With phones, a batch that may raise two alerts is alone (its second alert is let
\* through if the cooldown of the first has passed by then), a user with two phones meets one
\* request at a time, and two requests meet a user with one.  Notifications are read while
\* nothing is in flight, as nothing depends on it.
Within ==
    /\ part = "batches" => wanted' = {} /\ \A r \in Reqs : req'[r].batch # <<Hot, Hot>>
    /\ part = "pushes" =>
         /\ \A r \in Reqs : req'[r].ok /\ req'[r].batch # <<Hot, Cold>>
         /\ lastAlert'[<<d1, "device_offline">>] = "none"
         /\ Cardinality(Busy') > 1 => /\ \A r \in Busy' : req'[r].batch # <<Hot, Hot>>
                                      /\ Cardinality(wanted') <= 1
    /\ (\E u \in Users : unread'[u] < unread[u]) => Busy = {}

MCInit == Init /\ part \in {"batches", "pushes"}

MCSpec == MCInit /\ [][Next /\ Within /\ UNCHANGED part]_<<vars, part>> /\ Fairness
=============================================================================
