------------------------------ MODULE WsTickets ------------------------------
(***************************************************************************)
(* Single-use tickets for WebSocket upgrades (MemTicketStore): a sync.Map  *)
(* of entries with an expiry and an atomic used flag.  Upgrade requests    *)
(* run Consume concurrently with each other and with the cleanup ticker;   *)
(* Load, CompareAndSwap and Delete are each atomic, Consume is not.  A     *)
(* request that has loaded an entry keeps it after its deletion.           *)
(***************************************************************************)
EXTENDS Naturals

CONSTANTS
    Tickets,    \* random strings Issue draws, all different
    Upgrades,   \* upgrade requests, one call of Consume each
    NoTicket,
    TTL,        \* lifetime of a ticket, 60 s
    MaxTime     \* bound on the clock

ASSUME TicketConstants ==
    NoTicket \notin Tickets /\ TTL \in Nat /\ MaxTime \in Nat

VARIABLES
    now,
    expiresAt,  \* per issued ticket: the time after which it is refused; its domain
                \* is the set of tickets issued so far
    entries,    \* the map
    used,       \* entries whose used flag is set
    pc, raw     \* per upgrade request: step and ticket

storeVars == <<expiresAt, entries, used>>
ticketVars == <<now, storeVars, pc, raw>>

Issued == DOMAIN expiresAt

TicketInit ==
    /\ now = 0
    /\ expiresAt = [t \in {} |-> 0]
    /\ entries = {} /\ used = {}
    /\ pc = [u \in Upgrades |-> "idle"]
    /\ raw = [u \in Upgrades |-> NoTicket]

Issue(t) ==
    /\ t \notin Issued
    /\ expiresAt' = [x \in Issued \cup {t} |-> IF x = t THEN now + TTL ELSE expiresAt[x]]
    /\ entries' = entries \cup {t}
    /\ UNCHANGED <<now, used, pc, raw>>

Goto(u, step) == pc' = [pc EXCEPT ![u] = step]

\* Consume: entries.Load of a ticket somebody was given, possibly seen by others.
Load(u, t) ==
    /\ pc[u] = "idle" /\ t \in Issued
    /\ raw' = [raw EXCEPT ![u] = t]
    /\ Goto(u, IF t \in entries THEN "expiry" ELSE "refused")
    /\ UNCHANGED <<now, storeVars>>

\* Consume: an expired entry is deleted and refused.
CheckExpiry(u) ==
    /\ pc[u] = "expiry"
    /\ IF now > expiresAt[raw[u]]
       THEN entries' = entries \ {raw[u]} /\ Goto(u, "refused")
       ELSE UNCHANGED entries /\ Goto(u, "swap")
    /\ UNCHANGED <<now, expiresAt, used, raw>>

\* Mutant: a plain read of the flag, set later together with the deletion.
CompareAndSwap_ReadOnly(u) ==
    /\ pc[u] = "swap"
    /\ Goto(u, IF raw[u] \in used THEN "refused" ELSE "delete")
    /\ UNCHANGED <<now, storeVars, raw>>

\* Consume: used.CompareAndSwap(false, true).
CompareAndSwap(u) ==
    /\ pc[u] = "swap"
    /\ IF raw[u] \in used
       THEN UNCHANGED used /\ Goto(u, "refused")
       ELSE used' = used \cup {raw[u]} /\ Goto(u, "delete")
    /\ UNCHANGED <<now, expiresAt, entries, raw>>

\* Consume: entries.Delete; the upgrade goes on.
Delete(u) ==
    /\ pc[u] = "delete"
    /\ entries' = entries \ {raw[u]}
    /\ Goto(u, "admitted")
    /\ UNCHANGED <<now, expiresAt, used, raw>>

\* Mutant: the cleanup passes over unused entries.
Cleanup_UsedOnly(t) ==
    /\ t \in entries \cap used /\ now > expiresAt[t]
    /\ entries' = entries \ {t}
    /\ UNCHANGED <<now, expiresAt, used, pc, raw>>

\* cleanup, every minute: Range visits entry t and deletes it if it has expired.
Cleanup(t) ==
    /\ t \in entries /\ now > expiresAt[t]
    /\ entries' = entries \ {t}
    /\ UNCHANGED <<now, expiresAt, used, pc, raw>>

Tick == now < MaxTime /\ now' = now + 1 /\ UNCHANGED <<storeVars, pc, raw>>

Consume(u) ==
    \/ \E t \in Tickets : Load(u, t)
    \/ CheckExpiry(u) \/ CompareAndSwap(u) \/ Delete(u)

TicketNext ==
    \/ \E t \in Tickets : Issue(t) \/ Cleanup(t)
    \/ \E u \in Upgrades : Consume(u)
    \/ Tick

\* The cleanup goroutine keeps running until the server stops.
TicketSpec ==
    TicketInit /\ [][TicketNext]_ticketVars /\ \A t \in Tickets : WF_ticketVars(Cleanup(t))

-----------------------------------------------------------------------------
\* Entries were issued; a request past Load has a ticket.
TicketTypeOK ==
    /\ now \in Nat
    /\ Issued \subseteq Tickets /\ expiresAt \in [Issued -> Nat]
    /\ entries \subseteq Issued /\ used \subseteq Issued
    /\ pc \in [Upgrades -> {"idle", "expiry", "swap", "delete", "admitted", "refused"}]
    /\ raw \in [Upgrades -> Tickets \cup {NoTicket}]
    /\ \A u \in Upgrades : pc[u] # "idle" => raw[u] \in Issued

\* A ticket admits at most one upgrade, however many requests present it at once and
\* whatever the cleanup deletes under them.
OneUpgradePerTicket ==
    \A u, v \in Upgrades :
        (/\ pc[u] \in {"delete", "admitted"} /\ pc[v] \in {"delete", "admitted"}
         /\ raw[u] = raw[v]) => u = v

\* A used ticket is in the map only until the request that used it deletes it: the map
\* holds no dead weight that waits for the cleanup.
UsedTicketsLeave ==
    \A t \in used \cap entries : \E u \in Upgrades : pc[u] = "delete" /\ raw[u] = t

\* Every ticket that is past its expiry leaves the map, used or not.
ExpiredTicketsLeave ==
    \A t \in Tickets :
        (t \in entries /\ now > expiresAt[t]) ~> (t \notin entries)

-----------------------------------------------------------------------------
(* The inductive invariant behind OneUpgradePerTicket.                     *)

\* A request that won the swap has set the flag of its ticket.
SpentInv == \A u \in Upgrades : pc[u] \in {"delete", "admitted"} => raw[u] \in used

TicketInv == TicketTypeOK /\ SpentInv /\ OneUpgradePerTicket /\ UsedTicketsLeave
=============================================================================
