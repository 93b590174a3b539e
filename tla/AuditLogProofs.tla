--------------------------- MODULE AuditLogProofs ---------------------------
(***************************************************************************)
(* Proofs about AuditLog, for any number of entries, any capacity of the   *)
(* channel and any batch size: the hand-over at shutdown is safe, and the  *)
(* log implements the FIFO of batches of AuditTrail.                       *)
(***************************************************************************)
EXTENDS AuditLog, SequenceTheorems, TLAPS

\* What the two goroutines hold at which step: run has nothing when it has exited and
\* something when it inserts, FlushSync has nothing outside its drain.
BuffersInv ==
    /\ fpc \in {"drain", "insert"} => rpc = "exited"
    /\ rpc = "exited" => batch = <<>>
    /\ rpc \in DOMAIN AfterInsert => batch # <<>>
    /\ rpc \in {"select", "drain"} => Len(batch) < Batch
    /\ fpc \notin {"drain", "insert"} => fbuf = <<>>
    /\ fpc = "insert" => fbuf # <<>>

\* Accepted entries are where the code put them.
Accounted ==
    {e \in Entries : rec[e] = "accepted"}
        = ToSet(batch) \cup ToSet(fbuf) \cup ToSet(buffer) \cup ToSet(stored) \cup failed

IInv == TypeOK /\ BuffersInv /\ Accounted
-----------------------------------------------------------------------------
\* The entries of a concatenation.
LEMMA ToSetConcat ==
  ASSUME NEW S, NEW s \in Seq(S), NEW t \in Seq(S)
  PROVE  ToSet(s \o t) = ToSet(s) \cup ToSet(t)
<1>1. ToSet(s) = Range(s) /\ ToSet(t) = Range(t) /\ ToSet(s \o t) = Range(s \o t)
  BY DEF ToSet, Range
<1> QED BY <1>1, RangeConcatenation

\* The entry of a sequence of one.
LEMMA ToSetOne == ASSUME NEW S, NEW e \in S PROVE ToSet(<<e>>) = {e} /\ <<e>> \in Seq(S)
BY DEF ToSet

\* The entries after an Append.
LEMMA ToSetAppend ==
  ASSUME NEW S, NEW s \in Seq(S), NEW e \in S
  PROVE  ToSet(Append(s, e)) = ToSet(s) \cup {e}
<1>1. Append(s, e) = s \o <<e>>
  BY AppendIsConcat
<1>2. ToSet(<<e>>) = {e} /\ <<e>> \in Seq(S)
  BY ToSetOne
<1>3. ToSet(s \o <<e>>) = ToSet(s) \cup ToSet(<<e>>)
  BY <1>2, ToSetConcat
<1> QED BY <1>1, <1>2, <1>3

\* A sequence is its head and its tail.
LEMMA HeadTail ==
  ASSUME NEW S, NEW s \in Seq(S), s # <<>>
  PROVE  /\ Head(s) \in S /\ Tail(s) \in Seq(S) /\ Len(Tail(s)) = Len(s) - 1
         /\ s = <<Head(s)>> \o Tail(s)
         /\ ToSet(s) = {Head(s)} \cup ToSet(Tail(s))
<1>1. Head(s) \in S /\ Tail(s) \in Seq(S) /\ Len(Tail(s)) = Len(s) - 1
  BY HeadTailProperties
<1>2. s = <<Head(s)>> \o Tail(s)
  <2>1. Len(s) \in Nat \ {0} /\ 1 \in 1 .. Len(s) /\ Len(s) \in 1 .. Len(s)
    BY EmptySeq
  <2>2. SubSeq(s, 1, Len(s)) = <<s[1]>> \o SubSeq(s, 2, Len(s))
    BY <2>1, SubSeqRecursiveFirst
  <2>3. SubSeq(s, 1, Len(s)) = s /\ SubSeq(s, 2, Len(s)) = Tail(s) /\ s[1] = Head(s)
    BY SubSeqFull, TailIsSubSeq
  <2> QED BY <2>2, <2>3
<1> DEFINE first == <<Head(s)>>
           rest == Tail(s)
<1>3. ToSet(first) = {Head(s)} /\ first \in Seq(S) /\ rest \in Seq(S) /\ s = first \o rest
  BY <1>1, <1>2, ToSetOne
<1> HIDE DEF first, rest
<1>4. ToSet(first \o rest) = ToSet(first) \cup ToSet(rest)
  BY <1>3, ToSetConcat
<1> QED BY <1>1, <1>2, <1>3, <1>4 DEF rest

\* Taking the first entry of one sequence over to the end of another moves nothing.
LEMMA Shift ==
  ASSUME NEW S, NEW s \in Seq(S), NEW t \in Seq(S), t # <<>>
  PROVE  Append(s, Head(t)) \o Tail(t) = s \o t
<1>1. Head(t) \in S /\ Tail(t) \in Seq(S) /\ t = <<Head(t)>> \o Tail(t) /\ <<Head(t)>> \in Seq(S)
  BY HeadTail
<1>2. Append(s, Head(t)) = s \o <<Head(t)>>
  BY <1>1, AppendIsConcat
<1>3. (s \o <<Head(t)>>) \o Tail(t) = s \o (<<Head(t)>> \o Tail(t))
  BY <1>1, ConcatAssociative
<1> QED BY <1>1, <1>2, <1>3

\* The two parts of a concatenation.
LEMMA Parts ==
  ASSUME NEW S, NEW s \in Seq(S), NEW t \in Seq(S)
  PROVE  /\ SubSeq(s \o t, 1, Len(s)) = s
         /\ SubSeq(s \o t, Len(s) + 1, Len(s \o t)) = t
<1> DEFINE u == s \o t
<1>1. /\ u \in Seq(S) /\ Len(u) = Len(s) + Len(t) /\ Len(s) \in Nat /\ Len(t) \in Nat
      /\ \A i \in 1 .. Len(u) : u[i] = IF i <= Len(s) THEN s[i] ELSE t[i - Len(s)]
  BY ConcatProperties, LenProperties
<1> HIDE DEF u
<1>2. \A i \in 1 .. Len(u) : u[i] \in S
  BY <1>1, ElementOfSeq
<1>3. SubSeq(u, 1, Len(s)) = s
  <2>1. /\ SubSeq(u, 1, Len(s)) \in Seq(S)
        /\ Len(SubSeq(u, 1, Len(s))) = Len(s)
        /\ \A i \in 1 .. Len(s) : SubSeq(u, 1, Len(s))[i] = u[i]
    BY <1>1, <1>2, SubSeqProperties
  <2> QED BY <1>1, <2>1, SeqEqual
<1>4. SubSeq(u, Len(s) + 1, Len(u)) = t
  <2>1. /\ SubSeq(u, Len(s) + 1, Len(u)) \in Seq(S)
        /\ Len(SubSeq(u, Len(s) + 1, Len(u))) = Len(t)
        /\ \A i \in 1 .. Len(t) : SubSeq(u, Len(s) + 1, Len(u))[i] = u[Len(s) + i]
    BY <1>1, <1>2, SubSeqProperties
  <2>2. \A i \in 1 .. Len(t) : u[Len(s) + i] = t[i]
    BY <1>1
  <2> QED BY <2>1, <2>2, SeqEqual
<1> QED BY <1>3, <1>4 DEF u
-----------------------------------------------------------------------------
\* The empty log satisfies the invariant.
LEMMA InitInv == Init => IInv
<1> SUFFICES ASSUME Init PROVE IInv
  OBVIOUS
<1> USE AuditConstants, EmptySeq DEF Init
<1>1. TypeOK
  <2>1. <<>> \in Seq(Entries) /\ Len(<<>>) = 0 /\ 0 =< BufCap /\ 0 =< Batch
    OBVIOUS
  <2> QED BY <2>1, Zenon DEF TypeOK
<1>2. BuffersInv
  BY DEF BuffersInv, AfterInsert
<1>3. Accounted
  BY DEF Accounted, ToSet
<1> QED BY <1>1, <1>2, <1>3 DEF IInv

\* Where run goes on after an insertion.
LEMMA AfterInsertIs ==
  /\ DOMAIN AfterInsert = {"insert", "draininsert", "final"}
  /\ AfterInsert["insert"] = "select" /\ AfterInsert["draininsert"] = "drain"
  /\ AfterInsert["final"] = "exited"
BY DEF AfterInsert

\* Every step keeps the channel, the buffers and the tables in their types.
LEMMA TypeStep == IInv /\ [Next]_vars => TypeOK'
<1> SUFFICES ASSUME IInv, [Next]_vars PROVE TypeOK'
  OBVIOUS
<1> USE AuditConstants, AfterInsertIs DEF IInv, TypeOK
<1>1. ASSUME NEW e \in Entries, RecordCheck(e) PROVE TypeOK'
  BY <1>1 DEF RecordCheck, runVars, flushVars, dbVars
<1>2. ASSUME NEW e \in Entries, RecordSend(e) PROVE TypeOK'
  <2>1. CASE Len(buffer) < BufCap
    <3>1. buffer' = Append(buffer, e) /\ rec' = [rec EXCEPT ![e] = "accepted"]
      BY <1>2, <2>1 DEF RecordSend
    <3>2. buffer' \in Seq(Entries) /\ Len(buffer') =< BufCap
      BY <2>1, <3>1, AppendProperties, LenProperties
    <3> QED BY <1>2, <3>1, <3>2 DEF RecordSend, runVars, flushVars, dbVars
  <2>2. CASE ~(Len(buffer) < BufCap)
    BY <1>2, <2>2 DEF RecordSend, runVars, flushVars, dbVars
  <2> QED BY <2>1, <2>2
<1>3. CASE RunTake
  <2>1. /\ buffer' \in Seq(Entries) /\ Len(buffer') =< BufCap
        /\ batch' \in Seq(Entries) /\ Len(batch') = Len(batch) + 1
    <3>1. Head(buffer) \in Entries /\ Tail(buffer) \in Seq(Entries)
          /\ Len(Tail(buffer)) = Len(buffer) - 1 /\ Len(buffer) \in Nat
      BY <1>3, HeadTail DEF RunTake
    <3> QED BY <1>3, <3>1, AppendProperties DEF RunTake
  <2>2. Len(batch') =< Batch
    BY <1>3, <2>1 DEF RunTake, BuffersInv
  <2> QED BY <1>3, <2>1, <2>2 DEF RunTake, recVars, flushVars, dbVars
<1>4. CASE RunTick \/ RunSeesDone \/ RunDrained
  BY <1>4 DEF RunTick, RunSeesDone, RunDrained, recVars, flushVars, dbVars
<1>5. ASSUME NEW s \in Seq(Entries), Inserted(s) PROVE stored' \in Seq(Entries) /\ failed' \subseteq Entries
  <2>1. stored \o s \in Seq(Entries)
    BY <1>5, ConcatProperties
  <2>2. ToSet(s) \subseteq Entries
    BY <1>5, ElementOfSeq DEF ToSet
  <2> QED BY <1>5, <2>1, <2>2 DEF Inserted
<1>6. CASE RunInserted
  BY <1>5, <1>6, EmptySeq DEF RunInserted, recVars, flushVars
<1>7. CASE FlushCall \/ CtxDone \/ FlushWait \/ FlushStopDraining
  BY <1>7 DEF FlushCall, CtxDone, FlushWait, FlushStopDraining, recVars, runVars, dbVars
<1>8. CASE FlushTake
  <2>1. Head(buffer) \in Entries /\ Tail(buffer) \in Seq(Entries)
        /\ Len(Tail(buffer)) = Len(buffer) - 1 /\ Len(buffer) \in Nat
    BY <1>8, HeadTail DEF FlushTake
  <2> QED BY <1>8, <2>1, AppendProperties DEF FlushTake, recVars, runVars, dbVars
<1>9. CASE FlushInserted
  BY <1>5, <1>9, EmptySeq DEF FlushInserted, recVars, runVars
<1>10. CASE UNCHANGED vars
  BY <1>10 DEF vars, recVars, runVars, flushVars, dbVars
<1> QED BY <1>1, <1>2, <1>3, <1>4, <1>6, <1>7, <1>8, <1>9, <1>10 DEF Next, RunStep, FlushStep

\* Every step leaves each goroutine with the entries it should hold.
LEMMA BuffersStep == IInv /\ [Next]_vars => BuffersInv'
<1> SUFFICES ASSUME IInv, [Next]_vars PROVE BuffersInv'
  OBVIOUS
<1> USE AuditConstants, AfterInsertIs DEF IInv, BuffersInv
<1>1. ASSUME NEW e \in Entries, RecordCheck(e) \/ RecordSend(e) PROVE BuffersInv'
  BY <1>1 DEF RecordCheck, RecordSend, runVars, flushVars
<1>2. CASE RunTake
  <2> DEFINE first == Head(buffer)
  <2>1. first \in Entries /\ batch \in Seq(Entries) /\ batch' = Append(batch, first)
    BY <1>2, HeadTail DEF RunTake, TypeOK
  <2> HIDE DEF first
  <2>2. Append(batch, first) # <<>>
    BY <2>1, AppendProperties
  <2>3. batch' # <<>>
    BY <2>1, <2>2
  <2> QED BY <1>2, <2>3 DEF RunTake, flushVars
<1>3. CASE RunTick \/ RunSeesDone \/ RunDrained
  BY <1>3 DEF RunTick, RunSeesDone, RunDrained, flushVars
<1>4. CASE RunInserted
  BY <1>4, EmptySeq DEF RunInserted, flushVars
<1>5. CASE FlushCall \/ CtxDone \/ FlushWait \/ FlushStopDraining
  BY <1>5 DEF FlushCall, CtxDone, FlushWait, FlushStopDraining, runVars
<1>6. CASE FlushTake
  BY <1>6, HeadTail, AppendProperties DEF FlushTake, runVars, TypeOK
<1>7. CASE FlushInserted
  BY <1>7 DEF FlushInserted, runVars
<1>8. CASE UNCHANGED vars
  BY <1>8 DEF vars, runVars, flushVars
<1> QED BY <1>1, <1>2, <1>3, <1>4, <1>5, <1>6, <1>7, <1>8 DEF Next, RunStep, FlushStep

\* Every step accounts for the entries it moves.
LEMMA AccountedStep == IInv /\ [Next]_vars => Accounted'
<1> SUFFICES ASSUME IInv, [Next]_vars PROVE Accounted'
  OBVIOUS
<1> USE DEF IInv, Accounted
<1>1. ASSUME NEW e \in Entries, RecordCheck(e) PROVE Accounted'
  BY <1>1 DEF RecordCheck, runVars, flushVars, dbVars, TypeOK
<1>2. ASSUME NEW e \in Entries, RecordSend(e) PROVE Accounted'
  <2>1. CASE Len(buffer) < BufCap
    <3>1. ToSet(buffer') = ToSet(buffer) \cup {e}
      <4>1. buffer' = Append(buffer, e) /\ buffer \in Seq(Entries)
        BY <1>2, <2>1 DEF RecordSend, TypeOK
      <4> QED BY <4>1, <1>2, ToSetAppend
    <3>2. {x \in Entries : rec'[x] = "accepted"} = {x \in Entries : rec[x] = "accepted"} \cup {e}
      BY <1>2, <2>1 DEF RecordSend, TypeOK
    <3> QED BY <1>2, <3>1, <3>2 DEF RecordSend, runVars, flushVars, dbVars
  <2>2. CASE ~(Len(buffer) < BufCap)
    BY <1>2, <2>2 DEF RecordSend, runVars, flushVars, dbVars, TypeOK
  <2> QED BY <2>1, <2>2
<1>3. CASE RunTake
  <2>1. ToSet(buffer) = {Head(buffer)} \cup ToSet(buffer') /\ Head(buffer) \in Entries
    BY <1>3, HeadTail DEF RunTake, TypeOK
  <2>2. ToSet(batch') = ToSet(batch) \cup {Head(buffer)}
    BY <1>3, <2>1, ToSetAppend DEF RunTake, TypeOK
  <2> QED BY <1>3, <2>1, <2>2 DEF RunTake, recVars, flushVars, dbVars
<1>4. CASE RunTick \/ RunSeesDone \/ RunDrained \/ FlushCall \/ CtxDone \/ FlushWait \/ FlushStopDraining
  BY <1>4 DEF RunTick, RunSeesDone, RunDrained, FlushCall, CtxDone, FlushWait, FlushStopDraining,
              recVars, runVars, flushVars, dbVars
<1>5. ASSUME NEW s \in Seq(Entries), Inserted(s)
      PROVE  ToSet(stored') \cup failed' = ToSet(stored) \cup failed \cup ToSet(s)
  <2>1. ToSet(stored \o s) = ToSet(stored) \cup ToSet(s)
    BY <1>5, ToSetConcat DEF TypeOK
  <2> QED BY <1>5, <2>1 DEF Inserted
<1>6. ToSet(<<>>) = {}
  BY DEF ToSet
<1>7. CASE RunInserted
  <2>1. ToSet(stored') \cup failed' = ToSet(stored) \cup failed \cup ToSet(batch)
    BY <1>5, <1>7 DEF RunInserted, TypeOK
  <2> QED BY <1>6, <1>7, <2>1 DEF RunInserted, recVars, flushVars
<1>8. CASE FlushTake
  <2>1. ToSet(buffer) = {Head(buffer)} \cup ToSet(buffer') /\ Head(buffer) \in Entries
    BY <1>8, HeadTail DEF FlushTake, TypeOK
  <2>2. ToSet(fbuf') = ToSet(fbuf) \cup {Head(buffer)}
    BY <1>8, <2>1, ToSetAppend DEF FlushTake, TypeOK
  <2> QED BY <1>8, <2>1, <2>2 DEF FlushTake, recVars, runVars, dbVars
<1>9. CASE FlushInserted
  <2>1. ToSet(stored') \cup failed' = ToSet(stored) \cup failed \cup ToSet(fbuf)
    BY <1>5, <1>9 DEF FlushInserted, TypeOK
  <2> QED BY <1>6, <1>9, <2>1 DEF FlushInserted, recVars, runVars
<1>10. CASE UNCHANGED vars
  BY <1>10 DEF vars, recVars, runVars, flushVars, dbVars
<1> QED BY <1>1, <1>2, <1>3, <1>4, <1>7, <1>8, <1>9, <1>10 DEF Next, RunStep, FlushStep

\* Every step keeps the inductive invariant, whatever the capacity and the batch size.
LEMMA Invariance == Spec => []IInv
<1>1. IInv /\ [Next]_vars => IInv'
  BY TypeStep, BuffersStep, AccountedStep DEF IInv
<1> QED BY <1>1, InitInv, PTL DEF Spec

\* The entries on their way are those of the three buffers.
LEMMA UnsettledIs ==
  ASSUME IInv
  PROVE  /\ Unsettled \in Seq(Entries)
         /\ ToSet(Unsettled) = ToSet(batch) \cup ToSet(fbuf) \cup ToSet(buffer)
<1> DEFINE taken == batch \o fbuf
<1>1. batch \in Seq(Entries) /\ fbuf \in Seq(Entries) /\ buffer \in Seq(Entries)
  BY DEF IInv, TypeOK
<1>2. taken \in Seq(Entries) /\ ToSet(taken) = ToSet(batch) \cup ToSet(fbuf)
  BY <1>1, ToSetConcat, ConcatProperties
<1>3. Unsettled = taken \o buffer
  BY DEF Unsettled
<1> HIDE DEF taken
<1>4. taken \o buffer \in Seq(Entries) /\ ToSet(taken \o buffer) = ToSet(taken) \cup ToSet(buffer)
  BY <1>1, <1>2, ToSetConcat, ConcatProperties
<1> QED BY <1>2, <1>3, <1>4

\* At shutdown run and FlushSync never drain or insert at the same time, and no accepted
\* entry vanishes from the channel and the buffers without an insertion of it.
THEOREM HandOverSafe == Spec => []HandOver
<1>1. IInv => HandOver
  BY UnsettledIs DEF HandOver, IInv, BuffersInv, Accounted
<1> QED BY <1>1, Invariance, PTL
-----------------------------------------------------------------------------
\* The two modules name the same set of a sequence's entries.
LEMMA TrailSet == ASSUME NEW s PROVE Trail!ToSet(s) = ToSet(s)
BY DEF ToSet, Trail!ToSet

\* An entry that Record accepts joins the FIFO at its end, and was never in it before.
LEMMA SendAccepts ==
  ASSUME IInv, NEW e \in Entries, RecordSend(e)
  PROVE  Trail!Accept(e) \/ UNCHANGED Trail!avars
<1>0. batch \in Seq(Entries) /\ fbuf \in Seq(Entries) /\ buffer \in Seq(Entries)
  BY DEF IInv, TypeOK
<1>1. UNCHANGED <<batch, fbuf, stored, failed>>
  BY DEF RecordSend, runVars, flushVars, dbVars
<1>2. CASE Len(buffer) < BufCap
  <2> DEFINE taken == batch \o fbuf
  <2>1. buffer' = Append(buffer, e)
    BY <1>2 DEF RecordSend
  <2>2. taken \in Seq(Entries) /\ Unsettled = taken \o buffer /\ Unsettled' = taken \o Append(buffer, e)
    BY <1>0, <1>1, <2>1, ConcatProperties DEF Unsettled
  <2> HIDE DEF taken
  <2>3. <<e>> \in Seq(Entries)
    BY ToSetOne
  <2>4. taken \o (buffer \o <<e>>) = (taken \o buffer) \o <<e>>
    BY <1>0, <2>2, <2>3, ConcatAssociative
  <2>5. Append(buffer, e) = buffer \o <<e>>
    BY <1>0, AppendIsConcat
  <2>6. Append(Unsettled, e) = Unsettled \o <<e>>
    BY UnsettledIs, AppendIsConcat
  <2>7. e \notin ToSet(Unsettled) \cup ToSet(stored) \cup failed
    <3>1. rec[e] # "accepted"
      BY DEF RecordSend
    <3> QED BY <3>1, UnsettledIs DEF IInv, Accounted
  <2>8. Unsettled' = Append(Unsettled, e)
    BY <2>2, <2>4, <2>5, <2>6
  <2>9. UNCHANGED <<stored, failed>>
    BY <1>1
  <2> HIDE DEF Unsettled
  <2> QED BY <2>7, <2>8, <2>9, TrailSet DEF Trail!Accept
<1>3. CASE ~(Len(buffer) < BufCap)
  BY <1>1, <1>3 DEF RecordSend, Unsettled, Trail!avars
<1> QED BY <1>2, <1>3

\* Receiving from the channel, in either goroutine, moves no entry within the FIFO.
LEMMA TakeStutters ==
  ASSUME IInv, RunTake \/ FlushTake
  PROVE  UNCHANGED Trail!avars
<1>0. batch \in Seq(Entries) /\ fbuf \in Seq(Entries) /\ buffer \in Seq(Entries)
  BY DEF IInv, TypeOK
<1>1. buffer # <<>> /\ UNCHANGED <<stored, failed>>
  BY DEF RunTake, FlushTake, dbVars
<1>2. Head(buffer) \in Entries /\ Tail(buffer) \in Seq(Entries)
  BY <1>0, <1>1, HeadTail
<1>3. CASE RunTake
  <2>1. fbuf = <<>> /\ fbuf' = <<>>
    BY <1>3 DEF RunTake, flushVars, IInv, BuffersInv
  <2>2. batch \o <<>> = batch
    BY <1>0, ConcatEmptySeq
  <2>3. batch' = Append(batch, Head(buffer)) /\ batch' \in Seq(Entries) /\ buffer' = Tail(buffer)
    BY <1>0, <1>2, <1>3, AppendProperties DEF RunTake
  <2>4. batch' \o <<>> = batch'
    BY <2>3, ConcatEmptySeq
  <2>5. Append(batch, Head(buffer)) \o Tail(buffer) = batch \o buffer
    BY <1>0, <1>1, Shift
  <2> QED BY <1>1, <2>1, <2>2, <2>3, <2>4, <2>5 DEF Unsettled, Trail!avars
<1>4. CASE FlushTake
  <2>1. batch = <<>> /\ batch' = <<>>
    BY <1>4 DEF FlushTake, runVars, IInv, BuffersInv
  <2>2. <<>> \o fbuf = fbuf
    BY <1>0, ConcatEmptySeq
  <2>3. fbuf' = Append(fbuf, Head(buffer)) /\ fbuf' \in Seq(Entries) /\ buffer' = Tail(buffer)
    BY <1>0, <1>2, <1>4, AppendProperties DEF FlushTake
  <2>4. <<>> \o fbuf' = fbuf'
    BY <2>3, ConcatEmptySeq
  <2>5. Append(fbuf, Head(buffer)) \o Tail(buffer) = fbuf \o buffer
    BY <1>0, <1>1, Shift
  <2> QED BY <1>1, <2>1, <2>2, <2>3, <2>4, <2>5 DEF Unsettled, Trail!avars
<1> QED BY <1>3, <1>4

\* An insertion settles the batch at the front of the FIFO, as a whole.
LEMMA InsertSettles ==
  ASSUME IInv, RunInserted \/ FlushInserted
  PROVE  \E n \in 1 .. Len(Unsettled) : Trail!SettleBatch(n)
<1>0. batch \in Seq(Entries) /\ fbuf \in Seq(Entries) /\ buffer \in Seq(Entries)
  BY DEF IInv, TypeOK
<1>1. ASSUME NEW s \in Seq(Entries), s # <<>>, Inserted(s), Unsettled = s \o buffer, Unsettled' = buffer
      PROVE  \E n \in 1 .. Len(Unsettled) : Trail!SettleBatch(n)
  <2>1. Len(s) \in Nat \ {0} /\ Len(buffer) \in Nat /\ Len(s \o buffer) = Len(s) + Len(buffer)
    BY <1>0, <1>1, EmptySeq, LenProperties, ConcatProperties
  <2>2. SubSeq(Unsettled, 1, Len(s)) = s /\ SubSeq(Unsettled, Len(s) + 1, Len(Unsettled)) = buffer
    BY <1>0, <1>1, Parts
  <2>3. Len(s) \in 1 .. Len(Unsettled)
    BY <1>1, <2>1
  <2>4. \/ stored' = stored \o s /\ failed' = failed
        \/ failed' = failed \cup ToSet(s) /\ stored' = stored
    BY <1>1 DEF Inserted
  <2>5. Unsettled' = SubSeq(Unsettled, Len(s) + 1, Len(Unsettled))
    BY <1>1, <2>2
  <2> HIDE DEF Unsettled
  <2>6. Trail!SettleBatch(Len(s))
    BY <2>2, <2>4, <2>5, TrailSet DEF Trail!SettleBatch
  <2> QED BY <2>3, <2>6
<1>2. <<>> \o fbuf = fbuf /\ batch \o <<>> = batch /\ <<>> \o <<>> = <<>> /\ <<>> \o buffer = buffer
  BY <1>0, ConcatEmptySeq
<1>3. CASE RunInserted
  <2>1. batch # <<>> /\ batch' = <<>> /\ fbuf = <<>> /\ fbuf' = <<>> /\ buffer' = buffer /\ Inserted(batch)
    BY <1>3, AfterInsertIs DEF RunInserted, flushVars, IInv, BuffersInv
  <2>2. Unsettled = batch \o buffer /\ Unsettled' = buffer
    BY <1>2, <2>1 DEF Unsettled
  <2> QED BY <1>0, <1>1, <2>1, <2>2
<1>4. CASE FlushInserted
  <2>1. fbuf # <<>> /\ fbuf' = <<>> /\ batch = <<>> /\ batch' = <<>> /\ buffer' = buffer /\ Inserted(fbuf)
    BY <1>4 DEF FlushInserted, runVars, IInv, BuffersInv
  <2>2. Unsettled = fbuf \o buffer /\ Unsettled' = buffer
    BY <1>2, <2>1 DEF Unsettled
  <2> QED BY <1>0, <1>1, <2>1, <2>2
<1> QED BY <1>3, <1>4

\* The log implements AuditTrail: for any capacity of the channel and any batch size, an
\* accepted entry is stored at most once, in the order of acceptance, and is given up only
\* with its whole batch.
THEOREM Implements == Spec => FifoOfBatches
<1>1. Init => Trail!Init
  <2>1. <<>> \o <<>> = <<>>
    BY ConcatEmptySeq, EmptySeq
  <2> QED BY <2>1 DEF Init, Trail!Init, Unsettled
<1>2. IInv /\ [Next]_vars => [Trail!Next]_(Trail!avars)
  <2> SUFFICES ASSUME IInv, [Next]_vars PROVE Trail!Next \/ UNCHANGED Trail!avars
    OBVIOUS
  <2>1. ASSUME NEW e \in Entries, RecordSend(e) PROVE Trail!Next \/ UNCHANGED Trail!avars
    BY <2>1, SendAccepts DEF Trail!Next
  <2>2. CASE RunTake \/ FlushTake
    BY <2>2, TakeStutters
  <2>3. CASE RunInserted \/ FlushInserted
    BY <2>3, InsertSettles DEF Trail!Next
  <2>4. ASSUME NEW e \in Entries, RecordCheck(e) PROVE UNCHANGED Trail!avars
    BY <2>4 DEF RecordCheck, runVars, flushVars, dbVars, Unsettled, Trail!avars
  <2>5. CASE RunTick \/ RunSeesDone \/ RunDrained
    BY <2>5 DEF RunTick, RunSeesDone, RunDrained, flushVars, dbVars, Unsettled, Trail!avars
  <2>6. CASE FlushCall \/ CtxDone \/ FlushWait \/ FlushStopDraining
    BY <2>6 DEF FlushCall, CtxDone, FlushWait, FlushStopDraining, runVars, dbVars, Unsettled,
                Trail!avars
  <2>7. CASE UNCHANGED vars
    BY <2>7 DEF vars, runVars, flushVars, dbVars, Unsettled, Trail!avars
  <2> QED BY <2>1, <2>2, <2>3, <2>4, <2>5, <2>6, <2>7 DEF Next, RunStep, FlushStep
<1> QED BY <1>1, <1>2, Invariance, PTL DEF Spec, Trail!Spec, FifoOfBatches
=============================================================================
