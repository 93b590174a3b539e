------------------------------ MODULE AuditLog ------------------------------
(***************************************************************************)
(* The asynchronous audit log: domain services call Record, which never    *)
(* blocks; a background goroutine (run) collects entries from a bounded    *)
(* channel into batches and inserts them; at shutdown main calls FlushSync,*)
(* which stops the goroutine, waits for it and drains what is left.        *)
(*                                                                         *)
(* The interleavings are those of the goroutines: Record tests done and    *)
(* sends in two steps, an insertion takes time, and Go's select picks any  *)
(* case that is ready.  An insertion may fail; the code then only logs.    *)
(***************************************************************************)
EXTENDS Integers, Sequences, FiniteSets, SequencesExt

CONSTANTS
    Entries,    \* audit entries that are recorded, one call of Record each
    BufCap,     \* capacity of the channel, 1024
    Batch       \* batch size, 64

ASSUME AuditConstants ==
    BufCap \in Nat \ {0} /\ Batch \in Nat \ {0}

VARIABLES
    buffer,   \* the channel
    done,     \* close(done) has happened
    rec,      \* per entry: how far its call of Record is
    batch,    \* run's buf
    rpc,      \* run's step
    fbuf,     \* FlushSync's buf
    fpc,      \* FlushSync's step
    expired,  \* ctx.Done() of FlushSync is closed
    stored,   \* table action_logs
    failed    \* entries of insertions that did not take effect

recVars   == <<rec>>
runVars   == <<batch, rpc>>
flushVars == <<fbuf, fpc, expired>>
dbVars    == <<stored, failed>>
vars == <<buffer, done, recVars, runVars, flushVars, dbVars>>

Init ==
    /\ buffer = <<>> /\ done = FALSE
    /\ rec = [e \in Entries |-> "new"]
    /\ batch = <<>> /\ rpc = "select"
    /\ fbuf = <<>> /\ fpc = "idle" /\ expired = FALSE
    /\ stored = <<>> /\ failed = {}

-----------------------------------------------------------------------------
\* Record: the first select; a stopped service drops the entry.
RecordCheck(e) ==
    /\ rec[e] = "new"
    /\ rec' = [rec EXCEPT ![e] = IF done THEN "refused" ELSE "checked"]
    /\ UNCHANGED <<buffer, done, runVars, flushVars, dbVars>>

\* Record: the second select; a full channel drops the entry.
RecordSend(e) ==
    /\ rec[e] = "checked"
    /\ IF Len(buffer) < BufCap
       THEN buffer' = Append(buffer, e) /\ rec' = [rec EXCEPT ![e] = "accepted"]
       ELSE UNCHANGED buffer /\ rec' = [rec EXCEPT ![e] = "dropped"]
    /\ UNCHANGED <<done, runVars, flushVars, dbVars>>

-----------------------------------------------------------------------------
\* repo.Insert returns: one INSERT puts all entries into the table, or none.
Inserted(entries) ==
    \/ stored' = stored \o entries /\ UNCHANGED failed
    \/ failed' = failed \cup ToSet(entries) /\ UNCHANGED stored

\* run receives an entry, in its loop or while it drains, and flushes a full batch.
RunTake ==
    /\ rpc \in {"select", "drain"}
    /\ buffer # <<>>
    /\ buffer' = Tail(buffer)
    /\ batch' = Append(batch, Head(buffer))
    /\ rpc' = IF Len(batch') < Batch THEN rpc
              ELSE IF rpc = "select" THEN "insert" ELSE "draininsert"
    /\ UNCHANGED <<done, recVars, flushVars, dbVars>>

\* Mutant: the ticker waits for a full batch.
RunTick_FullOnly ==
    /\ rpc = "select" /\ Len(batch) >= Batch
    /\ rpc' = "insert"
    /\ UNCHANGED <<buffer, done, recVars, batch, flushVars, dbVars>>

\* The ticker flushes what there is.
RunTick ==
    /\ rpc = "select" /\ batch # <<>>
    /\ rpc' = "insert"
    /\ UNCHANGED <<buffer, done, recVars, batch, flushVars, dbVars>>

RunSeesDone ==
    /\ rpc = "select" /\ done
    /\ rpc' = "drain"
    /\ UNCHANGED <<buffer, done, recVars, batch, flushVars, dbVars>>

\* Nothing left to drain: the final flush, then run exits (wg.Done).
RunDrained ==
    /\ rpc = "drain" /\ buffer = <<>>
    /\ rpc' = IF batch = <<>> THEN "exited" ELSE "final"
    /\ UNCHANGED <<buffer, done, recVars, batch, flushVars, dbVars>>

AfterInsert == [insert |-> "select", draininsert |-> "drain", final |-> "exited"]

\* Mutant: flush does not reset buf after a failed insertion (a retry later).
RunInserted_KeepsFailed ==
    /\ rpc \in DOMAIN AfterInsert
    /\ \/ stored' = stored \o batch /\ batch' = <<>> /\ UNCHANGED failed
       \/ failed' = failed \cup ToSet(batch) /\ UNCHANGED <<stored, batch>>
    /\ rpc' = AfterInsert[rpc]
    /\ UNCHANGED <<buffer, done, recVars, flushVars>>

\* flush: the insertion returns, an error is logged, buf is reset either way.
RunInserted ==
    /\ rpc \in DOMAIN AfterInsert
    /\ Inserted(batch)
    /\ batch' = <<>>
    /\ rpc' = AfterInsert[rpc]
    /\ UNCHANGED <<buffer, done, recVars, flushVars>>

-----------------------------------------------------------------------------
\* FlushSync is called (again: it is idempotent); Stop closes done once.
FlushCall ==
    /\ fpc \in {"idle", "returned"}
    /\ done' = TRUE
    /\ fpc' = "wait"
    /\ UNCHANGED <<buffer, recVars, runVars, fbuf, expired, dbVars>>

\* The context of FlushSync ends (main passes the context srv.Shutdown has used).
CtxDone ==
    /\ ~expired
    /\ expired' = TRUE
    /\ UNCHANGED <<buffer, done, recVars, runVars, fbuf, fpc, dbVars>>

\* Mutant: FlushSync does not wait for run.
FlushWait_Skipped ==
    /\ fpc = "wait"
    /\ fpc' = "drain"
    /\ UNCHANGED <<buffer, done, recVars, runVars, fbuf, expired, dbVars>>

\* wg.Wait.
FlushWait ==
    /\ fpc = "wait" /\ rpc = "exited"
    /\ fpc' = "drain"
    /\ UNCHANGED <<buffer, done, recVars, runVars, fbuf, expired, dbVars>>

FlushTake ==
    /\ fpc = "drain" /\ buffer # <<>>
    /\ buffer' = Tail(buffer)
    /\ fbuf' = Append(fbuf, Head(buffer))
    /\ UNCHANGED <<done, recVars, runVars, fpc, expired, dbVars>>

\* Mutant: with nothing collected the loop goes on.
FlushStopDraining_NeedsData ==
    /\ fpc = "drain"
    /\ expired \/ buffer = <<>>
    /\ fbuf # <<>>
    /\ fpc' = "insert"
    /\ UNCHANGED <<buffer, done, recVars, runVars, fbuf, expired, dbVars>>

\* The context has ended, or (default) nothing is ready: insert what was collected.
FlushStopDraining ==
    /\ fpc = "drain"
    /\ expired \/ buffer = <<>>
    /\ fpc' = IF fbuf = <<>> THEN "returned" ELSE "insert"
    /\ UNCHANGED <<buffer, done, recVars, runVars, fbuf, expired, dbVars>>

\* FlushSync returns the result of its insertion.
FlushInserted ==
    /\ fpc = "insert"
    /\ Inserted(fbuf)
    /\ fbuf' = <<>>
    /\ fpc' = "returned"
    /\ UNCHANGED <<buffer, done, recVars, runVars, expired>>

RunStep == RunTake \/ RunTick \/ RunSeesDone \/ RunDrained \/ RunInserted
FlushStep == FlushWait \/ FlushTake \/ FlushStopDraining \/ FlushInserted

Next ==
    \/ \E e \in Entries : RecordCheck(e) \/ RecordSend(e)
    \/ RunStep \/ FlushCall \/ CtxDone \/ FlushStep

\* Goroutines are scheduled and insertions return; a ready case of run's select is not
\* passed over for ever (Go picks among ready cases at random).  Nobody is obliged to
\* call Record or FlushSync.
Fairness ==
    /\ \A e \in Entries : WF_vars(RecordSend(e))
    /\ WF_vars(RunStep) /\ SF_vars(RunSeesDone) /\ WF_vars(RunTick)
    /\ WF_vars(FlushStep)

Spec == Init /\ [][Next]_vars /\ Fairness

-----------------------------------------------------------------------------
\* The channel, the two buffers and the steps of the goroutines.
TypeOK ==
    /\ buffer \in Seq(Entries) /\ Len(buffer) =< BufCap
    /\ done \in BOOLEAN /\ expired \in BOOLEAN
    /\ rec \in [Entries -> {"new", "checked", "refused", "accepted", "dropped"}]
    /\ batch \in Seq(Entries) /\ Len(batch) =< Batch
    /\ rpc \in {"select", "drain", "exited"} \cup DOMAIN AfterInsert
    /\ fbuf \in Seq(Entries)
    /\ fpc \in {"idle", "wait", "drain", "insert", "returned"}
    /\ stored \in Seq(Entries) /\ failed \subseteq Entries

\* Accepted entries that are neither stored nor given up, oldest first.
Unsettled == batch \o fbuf \o buffer

\* The log is a FIFO that loses whole batches only: entries are stored at most once, in
\* the order they were accepted, and an accepted entry is never in two places or in none.
Trail == INSTANCE AuditTrail WITH pending <- Unsettled
FifoOfBatches == Trail!Spec

\* The hand-over at shutdown: run and FlushSync never drain or insert at the same time
\* (service.go, G-301), and no accepted entry vanishes from the channel and the two
\* buffers without an insertion of it.
HandOver ==
    /\ TypeOK
    /\ fpc \in {"drain", "insert"} => rpc = "exited"
    /\ {e \in Entries : rec[e] = "accepted"} = ToSet(Unsettled) \cup ToSet(stored) \cup failed

\* An accepted entry is settled, stored or given up with a failed insertion: by run, as
\* long as that receives, however the shutdown goes; by FlushSync, if the entry is there
\* when FlushSync waits for run, unless the context ends.
AcceptedSettle ==
    \A e \in Entries :
        /\ (e \in ToSet(Unsettled) /\ rpc \notin {"final", "exited"})
               ~> (e \in ToSet(stored) \cup failed)
        /\ (e \in ToSet(Unsettled) /\ fpc = "wait")
               ~> (e \in ToSet(stored) \cup failed \/ expired)

\* FlushSync takes all that is in the channel, as the comment on it says: "The ctx controls
\* only the final Insert call, not the drain loop."  FlushSync's case <-ctx.Done().
DrainIgnoresCtx == [][fpc = "drain" /\ fpc' # "drain" => buffer = <<>>]_vars

\* Shutdown ends: FlushSync returns once it is called.
FlushReturns == (fpc = "wait") ~> (fpc = "returned")
=============================================================================
