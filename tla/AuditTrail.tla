----------------------------- MODULE AuditTrail -----------------------------
(***************************************************************************)
(* What the audit log promises: a FIFO of accepted entries.  An entry is   *)
(* accepted at most once; entries leave the FIFO from the front, in        *)
(* batches, and each batch is stored as a whole or given up as a whole.    *)
(* Nothing is said about entries that are refused before they are          *)
(* accepted.                                                               *)
(***************************************************************************)
EXTENDS Sequences, SequencesExt

CONSTANT Entries

VARIABLES
    pending,  \* accepted entries that are not settled, oldest first
    stored,   \* entries in the database, in the order of their insertion
    failed    \* entries of batches whose insertion failed

avars == <<pending, stored, failed>>

Init == pending = <<>> /\ stored = <<>> /\ failed = {}

Accept(e) ==
    /\ e \notin ToSet(pending) \cup ToSet(stored) \cup failed
    /\ pending' = Append(pending, e)
    /\ UNCHANGED <<stored, failed>>

SettleBatch(n) ==
    /\ pending' = SubSeq(pending, n + 1, Len(pending))
    /\ \/ stored' = stored \o SubSeq(pending, 1, n) /\ UNCHANGED failed
       \/ failed' = failed \cup ToSet(SubSeq(pending, 1, n)) /\ UNCHANGED stored

Next ==
    \/ \E e \in Entries : Accept(e)
    \/ \E n \in 1 .. Len(pending) : SettleBatch(n)

Spec == Init /\ [][Next]_avars
=============================================================================
