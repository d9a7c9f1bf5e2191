--------------------------- MODULE BatchWriterProofs ---------------------------
(***************************************************************************)
(* Proofs about BatchWriter, for any number of records and any buffer.     *)
(*                                                                         *)
(* The mutex makes the order: at most one flusher has a batch, the holder, *)
(* so a batch is handed over before the next one is taken out.  Stop rests *)
(* on that order: it leaves its drain with an empty channel, when all that *)
(* was sent is handled or in its own batch.                                *)
(***************************************************************************)
EXTENDS BatchWriter, SequenceTheorems, FiniteSetTheorems, TLAPS

(* Only the holder of the mutex flushes, and only it has a batch.  A Submit *)
(* that has not met a full buffer has no flush.                            *)
OneFlusher ==
  /\ \A r \in Records : submit[r] = "new" => flusher[r] = "idle"
  /\ \A f \in Flushers : flusher[f] \in {"draining", "writing", "written"} <=> holder = f
  /\ \A f \in Flushers : batch[f] # <<>> => holder = f

(* What Stop has reached of what it owes. *)
StopOwes ==
  /\ due <= Len(sent)
  /\ flusher[Stopper] = "writing" => Len(handled) + Len(batch[Stopper]) >= due
  /\ flusher[Stopper] \in {"written", "done"} => Len(handled) >= due

FlushInv == BatchTypeOK /\ OneFlusher /\ FlushedInOrder /\ StopOwes
-------------------------------------------------------------------------------
LEMMA Regroup ==
  ASSUME NEW h \in Seq(Records), NEW b \in Seq(Records),
         NEW e \in Seq(Records), NEW t \in Seq(Records)
  PROVE  (h \o (b \o e)) \o t = (h \o b) \o (e \o t)
<1>1. h \o b \in Seq(Records) /\ e \o t \in Seq(Records)
  BY ConcatProperties
<1>2. h \o (b \o e) = (h \o b) \o e
  <2>1. (h \o b) \o e = h \o (b \o e)
    BY ConcatAssociative
  <2> QED
    BY <2>1, Zenon
<1>3. ((h \o b) \o e) \o t = (h \o b) \o (e \o t)
  BY <1>1, ConcatAssociative
<1> QED
  BY <1>2, <1>3, Zenon

(* A record that moves from the front of the channel to the end of the     *)
(* batch keeps its place.                                                  *)
LEMMA TakeKeepsOrder ==
  ASSUME NEW h \in Seq(Records), NEW b \in Seq(Records), NEW q \in Seq(Records), q # <<>>
  PROVE  h \o Append(b, Head(q)) \o Tail(q) = h \o b \o q
<1>1. Head(q) \in Records /\ Tail(q) \in Seq(Records) /\ <<Head(q)>> \in Seq(Records)
  BY HeadTailProperties
<1>2. Append(b, Head(q)) = b \o <<Head(q)>>
  BY <1>1, AppendIsConcat
<1>3. q = <<Head(q)>> \o Tail(q)
  <2>1. Len(q) \in Nat /\ 1 <= Len(q)
    BY EmptySeq
  <2>2. SubSeq(q, 1, Len(q)) = <<q[1]>> \o SubSeq(q, 2, Len(q))
    BY <2>1, SubSeqRecursiveFirst
  <2>3. SubSeq(q, 1, Len(q)) = q /\ SubSeq(q, 2, Len(q)) = Tail(q)
    BY SubSeqFull, TailIsSubSeq
  <2>4. q[1] = Head(q)
    OBVIOUS
  <2> QED
    BY <2>2, <2>3, <2>4
<1>4. \A e \in Seq(Records), t \in Seq(Records) : (h \o (b \o e)) \o t = (h \o b) \o (e \o t)
  BY Regroup
<1>5. (h \o (b \o <<Head(q)>>)) \o Tail(q) = (h \o b) \o (<<Head(q)>> \o Tail(q))
  BY <1>1, <1>4, Zenon
<1> QED
  BY <1>2, <1>3, <1>5, Zenon

(* A record that is sent goes to the end of the whole. *)
LEMMA SendKeepsOrder ==
  ASSUME NEW h \in Seq(Records), NEW b \in Seq(Records), NEW q \in Seq(Records),
         NEW r \in Records
  PROVE  Append(h \o b \o q, r) = h \o b \o Append(q, r)
<1>1. h \o b \in Seq(Records) /\ h \o b \o q \in Seq(Records) /\ <<r>> \in Seq(Records)
  BY ConcatProperties
<1>2. Append(h \o b \o q, r) = (h \o b \o q) \o <<r>>
  BY <1>1, AppendIsConcat
<1>3. Append(q, r) = q \o <<r>>
  BY AppendIsConcat
<1> QED
  BY <1>1, <1>2, <1>3, ConcatAssociative
-------------------------------------------------------------------------------
(* The types are kept by every step, whatever the order of the flushes. *)
LEMMA BatchTypeStep ==
  ASSUME BatchTypeOK, [BatchNext]_batchVars
  PROVE  BatchTypeOK'
<1>1. ASSUME NEW r \in Records, Send(r)  PROVE BatchTypeOK'
  BY <1>1, BatchAssumption, AppendProperties DEF Send, BatchTypeOK, SubmitPCs, FlushPCs
<1>2. ASSUME NEW r \in Records, Count(r)  PROVE BatchTypeOK'
  BY <1>2 DEF Count, BatchTypeOK, SubmitPCs, FlushPCs
<1>3. ASSUME NEW r \in Records, FindFull(r)  PROVE BatchTypeOK'
  BY <1>3 DEF FindFull, Flushers, BatchTypeOK, SubmitPCs, FlushPCs
<1>4. ASSUME NEW r \in Records, Drop(r)  PROVE BatchTypeOK'
  BY <1>4 DEF Drop, BatchTypeOK, SubmitPCs, FlushPCs
<1>5. ASSUME NEW f \in Flushers, Lock(f)  PROVE BatchTypeOK'
  BY <1>5 DEF Lock, BatchTypeOK, SubmitPCs, FlushPCs
<1>6. ASSUME NEW f \in Flushers, Take(f)  PROVE BatchTypeOK'
  <2>1. buffer \in Seq(Records) /\ buffer # <<>> /\ batch \in [Flushers -> Seq(Records)]
    BY <1>6 DEF Take, BatchTypeOK
  <2>2. Head(buffer) \in Records /\ Tail(buffer) \in Seq(Records)
        /\ Len(Tail(buffer)) = Len(buffer) - 1 /\ Len(buffer) \in Nat
    BY <2>1, HeadTailProperties
  <2>3. Append(batch[f], Head(buffer)) \in Seq(Records)
    BY <2>1, <2>2, AppendProperties
  <2> QED
    BY <1>6, <2>2, <2>3, BatchAssumption DEF Take, BatchTypeOK, SubmitPCs, FlushPCs
<1>7. ASSUME NEW f \in Flushers, Drained(f)  PROVE BatchTypeOK'
  BY <1>7, EmptySeq DEF Drained, Release, AfterFlush, BatchTypeOK, SubmitPCs, FlushPCs
<1>8. ASSUME NEW f \in Flushers, WriteBatch(f)  PROVE BatchTypeOK'
  BY <1>8, ConcatProperties DEF WriteBatch, BatchTypeOK, SubmitPCs, FlushPCs
<1>9. ASSUME NEW f \in Flushers, CountFlushed(f)  PROVE BatchTypeOK'
  BY <1>9, EmptySeq DEF CountFlushed, Release, AfterFlush, BatchTypeOK, SubmitPCs, FlushPCs
<1>10. ASSUME NEW f \in Flushers, WriteFails(f)  PROVE BatchTypeOK'
  BY <1>10, EmptySeq, ConcatProperties
     DEF WriteFails, Release, AfterFlush, BatchTypeOK, SubmitPCs, FlushPCs
<1>11. ASSUME Tick  PROVE BatchTypeOK'
  BY <1>11 DEF Tick, Flushers, BatchTypeOK, SubmitPCs, FlushPCs
<1>12. ASSUME TickerReturns  PROVE BatchTypeOK'
  BY <1>12 DEF TickerReturns, Flushers, BatchTypeOK, SubmitPCs, FlushPCs
<1>13. ASSUME CancelContext  PROVE BatchTypeOK'
  BY <1>13 DEF CancelContext, BatchTypeOK, SubmitPCs, FlushPCs
<1>14. ASSUME CallStop  PROVE BatchTypeOK'
  BY <1>14, LenProperties DEF CallStop, BatchTypeOK, SubmitPCs, FlushPCs
<1>15. ASSUME Join  PROVE BatchTypeOK'
  BY <1>15 DEF Join, BatchTypeOK, SubmitPCs, FlushPCs
<1>16. ASSUME UNCHANGED batchVars  PROVE BatchTypeOK'
  BY <1>16 DEF batchVars, BatchTypeOK, SubmitPCs, FlushPCs
<1> QED
  BY <1>1, <1>2, <1>3, <1>4, <1>5, <1>6, <1>7, <1>8, <1>9,
     <1>10, <1>11, <1>12, <1>13, <1>14, <1>15, <1>16
     DEF BatchNext, Submitting, Flushing

(* The mutex: a flusher enters only when nobody is in. *)
LEMMA OneFlusherStep ==
  ASSUME BatchTypeOK, OneFlusher, [BatchNext]_batchVars
  PROVE  OneFlusher'
<1>1. ASSUME NEW r \in Records, Send(r)  PROVE OneFlusher'
  BY <1>1 DEF Send, OneFlusher, BatchTypeOK, Flushers
<1>2. ASSUME NEW r \in Records, Count(r)  PROVE OneFlusher'
  BY <1>2 DEF Count, OneFlusher, BatchTypeOK, Flushers
<1>3. ASSUME NEW r \in Records, FindFull(r)  PROVE OneFlusher'
  BY <1>3 DEF FindFull, OneFlusher, BatchTypeOK, Flushers
<1>4. ASSUME NEW r \in Records, Drop(r)  PROVE OneFlusher'
  BY <1>4 DEF Drop, OneFlusher, BatchTypeOK, Flushers
<1>5. ASSUME NEW f \in Flushers, Lock(f)  PROVE OneFlusher'
  BY <1>5, BatchAssumption DEF Lock, OneFlusher, BatchTypeOK, Flushers
<1>6. ASSUME NEW f \in Flushers, Take(f)  PROVE OneFlusher'
  BY <1>6 DEF Take, OneFlusher, BatchTypeOK, Flushers
<1>7. ASSUME NEW f \in Flushers, Drained(f)  PROVE OneFlusher'
  <2>1. CASE batch[f] = <<>>
    <3>1. flusher' = [flusher EXCEPT ![f] = IF f = Ticker THEN "idle" ELSE "done"]
          /\ holder' = Nobody /\ batch' = [batch EXCEPT ![f] = <<>>] /\ submit' = submit
          /\ flusher[f] = "draining"
      BY <1>7, <2>1 DEF Drained, Release, AfterFlush
    <3>2. QED
      BY <1>7, <3>1, BatchAssumption DEF OneFlusher, BatchTypeOK, Flushers
  <2>2. CASE batch[f] # <<>>
    <3>1. flusher' = [flusher EXCEPT ![f] = "writing"] /\ flusher[f] = "draining"
          /\ UNCHANGED <<holder, batch, submit>>
      BY <1>7, <2>2 DEF Drained
    <3>2. QED
      BY <1>7, <3>1, BatchAssumption DEF OneFlusher, BatchTypeOK, Flushers
  <2>3. QED
    BY <2>1, <2>2
<1>8. ASSUME NEW f \in Flushers, WriteBatch(f)  PROVE OneFlusher'
  BY <1>8 DEF WriteBatch, OneFlusher, BatchTypeOK, Flushers
<1>9. ASSUME NEW f \in Flushers, CountFlushed(f)  PROVE OneFlusher'
  BY <1>9, BatchAssumption
     DEF CountFlushed, Release, AfterFlush, OneFlusher, BatchTypeOK, Flushers
<1>10. ASSUME NEW f \in Flushers, WriteFails(f)  PROVE OneFlusher'
  BY <1>10, BatchAssumption
     DEF WriteFails, Release, AfterFlush, OneFlusher, BatchTypeOK, Flushers
<1>11. ASSUME Tick  PROVE OneFlusher'
  BY <1>11, BatchAssumption DEF Tick, OneFlusher, BatchTypeOK, Flushers
<1>12. ASSUME TickerReturns  PROVE OneFlusher'
  BY <1>12, BatchAssumption DEF TickerReturns, OneFlusher, BatchTypeOK, Flushers
<1>13. ASSUME CancelContext  PROVE OneFlusher'
  BY <1>13 DEF CancelContext, OneFlusher, BatchTypeOK, Flushers
<1>14. ASSUME CallStop  PROVE OneFlusher'
  BY <1>14, BatchAssumption DEF CallStop, OneFlusher, BatchTypeOK, Flushers
<1>15. ASSUME Join  PROVE OneFlusher'
  BY <1>15, BatchAssumption DEF Join, OneFlusher, BatchTypeOK, Flushers
<1>16. ASSUME UNCHANGED batchVars  PROVE OneFlusher'
  BY <1>16 DEF batchVars, OneFlusher, BatchTypeOK, Flushers
<1> QED
  BY <1>1, <1>2, <1>3, <1>4, <1>5, <1>6, <1>7, <1>8, <1>9,
     <1>10, <1>11, <1>12, <1>13, <1>14, <1>15, <1>16
     DEF BatchNext, Submitting, Flushing
-------------------------------------------------------------------------------
LEMMA InFlightType ==
  ASSUME BatchTypeOK
  PROVE  InFlight \in Seq(Records)
BY EmptySeq DEF BatchTypeOK, InFlight

LEMMA Lengths ==
  ASSUME BatchTypeOK, FlushedInOrder
  PROVE  Len(sent) = Len(handled) + Len(InFlight) + Len(buffer)
<1>1. handled \in Seq(Records) /\ InFlight \in Seq(Records) /\ buffer \in Seq(Records)
  BY InFlightType DEF BatchTypeOK
<1>2. /\ handled \o InFlight \in Seq(Records)
      /\ Len(handled \o InFlight) = Len(handled) + Len(InFlight)
  BY <1>1, ConcatProperties
<1>3. Len((handled \o InFlight) \o buffer) = Len(handled \o InFlight) + Len(buffer)
  BY <1>1, <1>2, ConcatProperties
<1> QED
  BY <1>2, <1>3 DEF FlushedInOrder

(* What is sent stays what is handled, what is in the batch and the channel. *)
LEMMA OrderStep ==
  ASSUME BatchTypeOK, OneFlusher, FlushedInOrder, [BatchNext]_batchVars
  PROVE  FlushedInOrder'
<1>1. ASSUME NEW r \in Records, Send(r)  PROVE FlushedInOrder'
  <2>1. InFlight' = InFlight
    BY <1>1 DEF Send, InFlight
  <2>2. handled \in Seq(Records) /\ InFlight \in Seq(Records) /\ buffer \in Seq(Records)
    BY InFlightType DEF BatchTypeOK
  <2>3. Append(handled \o InFlight \o buffer, r) = handled \o InFlight \o Append(buffer, r)
    BY <2>2, SendKeepsOrder
  <2> QED
    BY <1>1, <2>1, <2>3, Zenon DEF Send, FlushedInOrder
<1>2. ASSUME NEW r \in Records, Count(r)  PROVE FlushedInOrder'
  <2>1. InFlight' = InFlight
    BY <1>2, BatchAssumption DEF Count, InFlight, BatchTypeOK, OneFlusher, Flushers
  <2> QED
    BY <1>2, <2>1, Zenon DEF Count, FlushedInOrder
<1>3. ASSUME NEW r \in Records, FindFull(r)  PROVE FlushedInOrder'
  <2>1. InFlight' = InFlight
    BY <1>3, BatchAssumption DEF FindFull, InFlight, BatchTypeOK, OneFlusher, Flushers
  <2> QED
    BY <1>3, <2>1, Zenon DEF FindFull, FlushedInOrder
<1>4. ASSUME NEW r \in Records, Drop(r)  PROVE FlushedInOrder'
  <2>1. InFlight' = InFlight
    BY <1>4, BatchAssumption DEF Drop, InFlight, BatchTypeOK, OneFlusher, Flushers
  <2> QED
    BY <1>4, <2>1, Zenon DEF Drop, FlushedInOrder
<1>5. ASSUME NEW f \in Flushers, Lock(f)  PROVE FlushedInOrder'
  <2>1. InFlight = <<>> /\ InFlight' = <<>>
    BY <1>5, BatchAssumption DEF Lock, InFlight, BatchTypeOK, OneFlusher, Flushers
  <2> QED
    BY <1>5, <2>1, Zenon DEF Lock, FlushedInOrder
<1>6. ASSUME NEW f \in Flushers, Take(f)  PROVE FlushedInOrder'
  <2>1. holder = f /\ f # Nobody
    BY <1>6, BatchAssumption DEF Take, OneFlusher, Flushers
  <2>2. InFlight = batch[f] /\ InFlight' = Append(batch[f], Head(buffer))
    BY <1>6, <2>1 DEF Take, InFlight, BatchTypeOK
  <2>3. /\ handled \in Seq(Records) /\ batch[f] \in Seq(Records)
        /\ buffer \in Seq(Records) /\ buffer # <<>>
    BY <1>6 DEF Take, BatchTypeOK
  <2>4. handled \o Append(batch[f], Head(buffer)) \o Tail(buffer) = handled \o batch[f] \o buffer
    BY <2>3, TakeKeepsOrder
  <2> QED
    BY <1>6, <2>2, <2>4, Zenon DEF Take, FlushedInOrder
<1>7. ASSUME NEW f \in Flushers, Drained(f)  PROVE FlushedInOrder'
  <2>1. holder = f /\ f # Nobody
    BY <1>7, BatchAssumption DEF Drained, OneFlusher, Flushers
  <2>2. InFlight' = InFlight
    BY <1>7, <2>1 DEF Drained, Release, InFlight, BatchTypeOK
  <2> QED
    BY <1>7, <2>2, Zenon DEF Drained, FlushedInOrder
<1>8. ASSUME NEW f \in Flushers, WriteBatch(f)  PROVE FlushedInOrder'
  <2>1. holder = f /\ f # Nobody
    BY <1>8, BatchAssumption DEF WriteBatch, OneFlusher, Flushers
  <2>2. InFlight = batch[f] /\ InFlight' = <<>>
    BY <1>8, <2>1 DEF WriteBatch, InFlight, BatchTypeOK
  <2>3. (handled \o batch[f]) \o <<>> = handled \o batch[f]
    BY <1>8, ConcatProperties, ConcatEmptySeq DEF BatchTypeOK
  <2> QED
    BY <1>8, <2>2, <2>3, Zenon DEF WriteBatch, FlushedInOrder
<1>9. ASSUME NEW f \in Flushers, CountFlushed(f)  PROVE FlushedInOrder'
  <2>1. holder = f /\ f # Nobody
    BY <1>9, BatchAssumption DEF CountFlushed, OneFlusher, Flushers
  <2>2. InFlight = <<>> /\ InFlight' = <<>>
    BY <1>9, <2>1 DEF CountFlushed, Release, InFlight, BatchTypeOK
  <2> QED
    BY <1>9, <2>2, Zenon DEF CountFlushed, FlushedInOrder
<1>10. ASSUME NEW f \in Flushers, WriteFails(f)  PROVE FlushedInOrder'
  <2>1. holder = f /\ f # Nobody
    BY <1>10, BatchAssumption DEF WriteFails, OneFlusher, Flushers
  <2>2. InFlight = batch[f] /\ InFlight' = <<>>
    BY <1>10, <2>1 DEF WriteFails, Release, InFlight, BatchTypeOK
  <2>3. (handled \o batch[f]) \o <<>> = handled \o batch[f]
    BY <1>10, ConcatProperties, ConcatEmptySeq DEF BatchTypeOK
  <2> QED
    BY <1>10, <2>2, <2>3, Zenon DEF WriteFails, FlushedInOrder
<1>11. ASSUME Tick  PROVE FlushedInOrder'
  <2>1. InFlight' = InFlight
    BY <1>11, BatchAssumption DEF Tick, InFlight, BatchTypeOK, OneFlusher, Flushers
  <2> QED
    BY <1>11, <2>1, Zenon DEF Tick, FlushedInOrder
<1>12. ASSUME TickerReturns  PROVE FlushedInOrder'
  <2>1. InFlight' = InFlight
    BY <1>12, BatchAssumption DEF TickerReturns, InFlight, BatchTypeOK, OneFlusher, Flushers
  <2> QED
    BY <1>12, <2>1, Zenon DEF TickerReturns, FlushedInOrder
<1>13. ASSUME CancelContext  PROVE FlushedInOrder'
  <2>1. InFlight' = InFlight
    BY <1>13, BatchAssumption DEF CancelContext, InFlight, BatchTypeOK, OneFlusher, Flushers
  <2> QED
    BY <1>13, <2>1, Zenon DEF CancelContext, FlushedInOrder
<1>14. ASSUME CallStop  PROVE FlushedInOrder'
  <2>1. InFlight' = InFlight
    BY <1>14, BatchAssumption DEF CallStop, InFlight, BatchTypeOK, OneFlusher, Flushers
  <2> QED
    BY <1>14, <2>1, Zenon DEF CallStop, FlushedInOrder
<1>15. ASSUME Join  PROVE FlushedInOrder'
  <2>1. InFlight' = InFlight
    BY <1>15, BatchAssumption DEF Join, InFlight, BatchTypeOK, OneFlusher, Flushers
  <2> QED
    BY <1>15, <2>1, Zenon DEF Join, FlushedInOrder
<1>16. ASSUME UNCHANGED batchVars  PROVE FlushedInOrder'
  BY <1>16 DEF batchVars, FlushedInOrder, InFlight
<1> QED
  BY <1>1, <1>2, <1>3, <1>4, <1>5, <1>6, <1>7, <1>8, <1>9,
     <1>10, <1>11, <1>12, <1>13, <1>14, <1>15, <1>16
     DEF BatchNext, Submitting, Flushing

(* Stop owes what it found: the drain ends at an empty channel. *)
LEMMA StopOwesStep ==
  ASSUME FlushInv, [BatchNext]_batchVars
  PROVE  StopOwes'
<1>1. ASSUME NEW r \in Records, Send(r)  PROVE StopOwes'
  BY <1>1, AppendProperties DEF Send, StopOwes, BatchTypeOK, Flushers, FlushInv
<1>2. ASSUME NEW r \in Records, Count(r)  PROVE StopOwes'
  BY <1>2 DEF Count, StopOwes, BatchTypeOK, Flushers, FlushInv
<1>3. ASSUME NEW r \in Records, FindFull(r)  PROVE StopOwes'
  BY <1>3, BatchAssumption DEF FindFull, StopOwes, BatchTypeOK, Flushers, FlushInv
<1>4. ASSUME NEW r \in Records, Drop(r)  PROVE StopOwes'
  BY <1>4 DEF Drop, StopOwes, BatchTypeOK, Flushers, FlushInv
<1>5. ASSUME NEW f \in Flushers, Lock(f)  PROVE StopOwes'
  BY <1>5, BatchAssumption DEF Lock, StopOwes, BatchTypeOK, Flushers, FlushInv
<1>6. ASSUME NEW f \in Flushers, Take(f)  PROVE StopOwes'
  <2>1. holder = f
    BY <1>6 DEF Take, FlushInv, OneFlusher
  <2>2. f = Stopper => flusher[Stopper] = "draining"
    BY <1>6 DEF Take
  <2> QED
    BY <1>6, <2>1, <2>2 DEF Take, StopOwes, BatchTypeOK, Flushers, FlushInv
<1>7. ASSUME NEW f \in Flushers, Drained(f)  PROVE StopOwes'
  <2>1. holder = f /\ f # Nobody
    BY <1>7, BatchAssumption DEF Drained, FlushInv, OneFlusher, Flushers
  <2>2. InFlight = batch[f] /\ Len(buffer) = 0
    BY <1>7, <2>1, EmptySeq DEF Drained, InFlight
  <2>3. Len(sent) = Len(handled) + Len(batch[f])
    BY <2>2, Lengths DEF FlushInv, BatchTypeOK
  <2>4. batch[f] = <<>> => Len(batch[f]) = 0
    BY EmptySeq
  <2>5. Stopper # Ticker
    BY BatchAssumption
  <2> QED
    BY <1>7, <2>1, <2>3, <2>4, <2>5
       DEF Drained, Release, AfterFlush, StopOwes, BatchTypeOK, Flushers, FlushInv
<1>8. ASSUME NEW f \in Flushers, WriteBatch(f)  PROVE StopOwes'
  <2>1. holder = f
    BY <1>8 DEF WriteBatch, FlushInv, OneFlusher
  <2>2. f # Stopper => flusher[Stopper] # "writing"
    BY <2>1 DEF FlushInv, OneFlusher, Flushers
  <2>3. Len(handled \o batch[f]) = Len(handled) + Len(batch[f])
        /\ Len(handled) \in Nat /\ Len(batch[f]) \in Nat
    BY <1>8, ConcatProperties DEF FlushInv, BatchTypeOK
  <2>4. Stopper # Ticker
    BY BatchAssumption
  <2> QED
    BY <1>8, <2>2, <2>3, <2>4
       DEF WriteBatch, Release, AfterFlush, StopOwes, BatchTypeOK, Flushers, FlushInv
<1>9. ASSUME NEW f \in Flushers, CountFlushed(f)  PROVE StopOwes'
  <2>1. holder = f
    BY <1>9 DEF CountFlushed, FlushInv, OneFlusher
  <2>2. Stopper # Ticker
    BY BatchAssumption
  <2> QED
    BY <1>9, <2>1, <2>2
       DEF CountFlushed, Release, AfterFlush, StopOwes, BatchTypeOK, Flushers, FlushInv
<1>10. ASSUME NEW f \in Flushers, WriteFails(f)  PROVE StopOwes'
  <2>1. holder = f
    BY <1>10 DEF WriteFails, FlushInv, OneFlusher
  <2>2. f # Stopper => flusher[Stopper] # "writing"
    BY <2>1 DEF FlushInv, OneFlusher, Flushers
  <2>3. Len(handled \o batch[f]) = Len(handled) + Len(batch[f])
        /\ Len(handled) \in Nat /\ Len(batch[f]) \in Nat
    BY <1>10, ConcatProperties DEF FlushInv, BatchTypeOK
  <2>4. Stopper # Ticker
    BY BatchAssumption
  <2> QED
    BY <1>10, <2>2, <2>3, <2>4
       DEF WriteFails, Release, AfterFlush, StopOwes, BatchTypeOK, Flushers, FlushInv
<1>11. ASSUME Tick  PROVE StopOwes'
  BY <1>11, BatchAssumption DEF Tick, StopOwes, BatchTypeOK, Flushers, FlushInv
<1>12. ASSUME TickerReturns  PROVE StopOwes'
  BY <1>12, BatchAssumption DEF TickerReturns, StopOwes, BatchTypeOK, Flushers, FlushInv
<1>13. ASSUME CancelContext  PROVE StopOwes'
  BY <1>13 DEF CancelContext, StopOwes, BatchTypeOK, Flushers, FlushInv
<1>14. ASSUME CallStop  PROVE StopOwes'
  BY <1>14 DEF CallStop, StopOwes, BatchTypeOK, Flushers, FlushInv
<1>15. ASSUME Join  PROVE StopOwes'
  BY <1>15 DEF Join, StopOwes, BatchTypeOK, Flushers, FlushInv
<1>16. ASSUME UNCHANGED batchVars  PROVE StopOwes'
  BY <1>16 DEF batchVars, StopOwes, BatchTypeOK, Flushers, FlushInv
<1> QED
  BY <1>1, <1>2, <1>3, <1>4, <1>5, <1>6, <1>7, <1>8, <1>9,
     <1>10, <1>11, <1>12, <1>13, <1>14, <1>15, <1>16
     DEF BatchNext, Submitting, Flushing
-------------------------------------------------------------------------------
LEMMA FlushInit == BatchInit => FlushInv
<1> SUFFICES ASSUME BatchInit PROVE FlushInv
  OBVIOUS
<1>1. BatchTypeOK
  BY EmptySeq, BatchAssumption DEF BatchInit, BatchTypeOK, SubmitPCs, FlushPCs
<1>2. OneFlusher
  BY BatchAssumption DEF BatchInit, OneFlusher, Flushers
<1>3. FlushedInOrder
  BY ConcatEmptySeq, EmptySeq DEF BatchInit, FlushedInOrder, InFlight
<1>4. StopOwes
  BY EmptySeq DEF BatchInit, StopOwes, Flushers
<1> QED
  BY <1>1, <1>2, <1>3, <1>4 DEF FlushInv

LEMMA FlushStep == FlushInv /\ [BatchNext]_batchVars => FlushInv'
BY BatchTypeStep, OneFlusherStep, OrderStep, StopOwesStep DEF FlushInv

(* The invariant of any run of the writer. *)
LEMMA FlushInvariance == BatchSpec => []FlushInv
BY FlushInit, FlushStep, PTL DEF BatchSpec

(* The variables of the writer keep their types; the buffered channel of   *)
(* NewBatchWriter never holds more than bufferSize records.                *)
THEOREM BatchTypeCorrect == BatchSpec => []BatchTypeOK
<1>1. FlushInv => BatchTypeOK
  BY DEF FlushInv
<1> QED
  BY <1>1, FlushInvariance, PTL

(* Submit, the ticker, the flushes of full buffers and Stop (batch_writer) *)
(* give flushFunc every accepted record at most once and in order.         *)
THEOREM OrderOfFlushes == BatchSpec => []FlushedInOrder
<1>1. FlushInv => FlushedInOrder
  BY DEF FlushInv
<1> QED
  BY <1>1, FlushInvariance, PTL

(* When Stop has returned, all that the channel took before the call was   *)
(* given to flushFunc.                                                     *)
THEOREM StopIsComplete == BatchSpec => []StopFlushesAll
<1>1. FlushInv => StopFlushesAll
  BY DEF FlushInv, StopOwes, StopFlushesAll
<1> QED
  BY <1>1, FlushInvariance, PTL
-------------------------------------------------------------------------------
(* The refinement.  A record is sent by the Submit it came with and by no   *)
(* other, and what is written is not empty.                                *)
SentBySubmit ==
  \A r \in Records : submit[r] \in {"new", "full"} => \A i \in 1..Len(sent) : sent[i] # r

WrittenNotEmpty ==
  \A f \in Flushers : flusher[f] = "writing" => batch[f] # <<>>

HandoffInv == FlushInv /\ SentBySubmit /\ WrittenNotEmpty

LEMMA SentBySubmitStep ==
  ASSUME BatchTypeOK, SentBySubmit, [BatchNext]_batchVars
  PROVE  SentBySubmit'
<1>1. ASSUME NEW r \in Records, Send(r)  PROVE SentBySubmit'
  <2>1. /\ sent \in Seq(Records) /\ Len(sent) \in Nat
        /\ sent' = Append(sent, r) /\ Len(sent') = Len(sent) + 1
        /\ sent'[Len(sent) + 1] = r /\ \A i \in 1..Len(sent) : sent'[i] = sent[i]
    BY <1>1, AppendProperties DEF Send, BatchTypeOK
  <2>2. submit' = [submit EXCEPT ![r] = "uncounted"] /\ submit \in [Records -> SubmitPCs]
    BY <1>1 DEF Send, BatchTypeOK
  <2>3. SUFFICES ASSUME NEW q \in Records, submit'[q] \in {"new", "full"},
                        NEW i \in 1..Len(sent')
                 PROVE  sent'[i] # q
    BY DEF SentBySubmit
  <2>4. q # r /\ submit[q] \in {"new", "full"}
    BY <2>2, <2>3
  <2>5. CASE i = Len(sent) + 1
    BY <2>1, <2>4, <2>5
  <2>6. CASE i \in 1..Len(sent)
    BY <2>1, <2>4, <2>6 DEF SentBySubmit
  <2> QED
    BY <2>1, <2>5, <2>6
<1>2. ASSUME NEW r \in Records, Count(r)  PROVE SentBySubmit'
  BY <1>2 DEF Count, SentBySubmit, BatchTypeOK
<1>3. ASSUME NEW r \in Records, FindFull(r)  PROVE SentBySubmit'
  BY <1>3 DEF FindFull, SentBySubmit, BatchTypeOK
<1>4. ASSUME NEW r \in Records, Drop(r)  PROVE SentBySubmit'
  BY <1>4 DEF Drop, SentBySubmit, BatchTypeOK
<1>5. ASSUME UNCHANGED <<submit, sent>>  PROVE SentBySubmit'
  BY <1>5 DEF SentBySubmit
<1>6. ASSUME NEW f \in Flushers, Flushing(f)  PROVE UNCHANGED <<submit, sent>>
  BY <1>6 DEF Flushing, Lock, Take, Drained, WriteBatch, CountFlushed, WriteFails
<1> QED
  BY <1>1, <1>2, <1>3, <1>4, <1>5, <1>6
     DEF BatchNext, Submitting, Tick, TickerReturns, CancelContext, CallStop, Join, batchVars

LEMMA WrittenNotEmptyStep ==
  ASSUME BatchTypeOK, WrittenNotEmpty, [BatchNext]_batchVars
  PROVE  WrittenNotEmpty'
<1>1. ASSUME NEW r \in Records, Submitting(r)  PROVE WrittenNotEmpty'
  BY <1>1 DEF Submitting, Send, Count, FindFull, Drop, WrittenNotEmpty, BatchTypeOK, Flushers
<1>2. ASSUME NEW f \in Flushers, Lock(f)  PROVE WrittenNotEmpty'
  BY <1>2 DEF Lock, WrittenNotEmpty, BatchTypeOK
<1>3. ASSUME NEW f \in Flushers, Take(f)  PROVE WrittenNotEmpty'
  <2>1. flusher' = flusher /\ flusher[f] = "draining"
        /\ batch' = [batch EXCEPT ![f] = Append(@, Head(buffer))]
    BY <1>3 DEF Take
  <2> QED
    BY <2>1 DEF WrittenNotEmpty, BatchTypeOK
<1>4. ASSUME NEW f \in Flushers, Drained(f)  PROVE WrittenNotEmpty'
  <2>1. CASE batch[f] = <<>>
    BY <1>4, <2>1 DEF Drained, Release, AfterFlush, WrittenNotEmpty, BatchTypeOK
  <2>2. CASE batch[f] # <<>>
    BY <1>4, <2>2 DEF Drained, WrittenNotEmpty, BatchTypeOK
  <2> QED
    BY <2>1, <2>2
<1>5. ASSUME NEW f \in Flushers, WriteBatch(f)  PROVE WrittenNotEmpty'
  BY <1>5 DEF WriteBatch, WrittenNotEmpty, BatchTypeOK
<1>6. ASSUME NEW f \in Flushers, CountFlushed(f) \/ WriteFails(f)  PROVE WrittenNotEmpty'
  BY <1>6 DEF CountFlushed, WriteFails, Release, AfterFlush, WrittenNotEmpty, BatchTypeOK
<1>7. ASSUME Tick \/ TickerReturns \/ CancelContext \/ CallStop \/ Join  PROVE WrittenNotEmpty'
  BY <1>7 DEF Tick, TickerReturns, CancelContext, CallStop, Join, WrittenNotEmpty, BatchTypeOK,
              Flushers
<1>8. ASSUME UNCHANGED batchVars  PROVE WrittenNotEmpty'
  BY <1>8 DEF batchVars, WrittenNotEmpty
<1> QED
  BY <1>1, <1>2, <1>3, <1>4, <1>5, <1>6, <1>7, <1>8 DEF BatchNext, Flushing

LEMMA HandoffInvariance == BatchSpec => []HandoffInv
<1>1. BatchInit => HandoffInv
  BY FlushInit, EmptySeq DEF BatchInit, HandoffInv, SentBySubmit, WrittenNotEmpty
<1>2. HandoffInv /\ [BatchNext]_batchVars => HandoffInv'
  BY FlushStep, SentBySubmitStep, WrittenNotEmptyStep DEF HandoffInv, FlushInv
<1> QED
  BY <1>1, <1>2, PTL DEF BatchSpec

(* The batch that is written is the next part of what was sent.            *)
LEMMA WritesNextPart ==
  ASSUME HandoffInv, NEW f \in Flushers, flusher[f] = "writing"
  PROVE  \E n \in (Len(handled) + 1)..Len(sent) : handled \o batch[f] = SubSeq(sent, 1, n)
<1>1. /\ handled \in Seq(Records) /\ batch[f] \in Seq(Records) /\ buffer \in Seq(Records)
      /\ batch[f] # <<>>
  BY DEF HandoffInv, FlushInv, BatchTypeOK, WrittenNotEmpty
<1>2. InFlight = batch[f]
  BY BatchAssumption DEF HandoffInv, FlushInv, OneFlusher, InFlight, Flushers
<1> DEFINE done == handled \o batch[f]
<1>3. /\ done \in Seq(Records) /\ Len(done) = Len(handled) + Len(batch[f])
      /\ Len(handled) \in Nat /\ Len(batch[f]) \in Nat \ {0} /\ Len(buffer) \in Nat
  BY <1>1, ConcatProperties, EmptySeq
<1>4. sent = done \o buffer
  BY <1>2 DEF HandoffInv, FlushInv, FlushedInOrder
<1>5. Len(sent) = Len(done) + Len(buffer)
  BY <1>1, <1>3, <1>4, ConcatProperties
<1> HIDE DEF done
<1>6. SubSeq(done \o buffer, 1, Len(done)) = SubSeq(done, 1, Len(done))
  BY <1>1, <1>3, SubSeqOfConcat1
<1>7. SubSeq(done, 1, Len(done)) = done
  BY <1>3, SubSeqFull
<1>8. Len(done) \in (Len(handled) + 1)..Len(sent)
  BY <1>3, <1>5
<1> QED
  BY <1>4, <1>6, <1>7, <1>8, Zenon DEF done

LEMMA HandoffStep ==
  ASSUME HandoffInv, [BatchNext]_batchVars
  PROVE  [Abstract!HandoffNext]_(Abstract!handoffVars)
<1> USE DEF Abstract!HandoffNext, Abstract!handoffVars
<1>1. ASSUME NEW r \in Records, Send(r)  PROVE Abstract!Accept
  <2>1. sent \in Seq(Records) /\ DOMAIN sent = 1..Len(sent)
    BY DEF HandoffInv, FlushInv, BatchTypeOK
  <2>2. \A i \in DOMAIN sent : sent[i] # r
    BY <1>1, <2>1 DEF Send, HandoffInv, SentBySubmit
  <2> QED
    BY <1>1, <2>2 DEF Send, Abstract!Accept
<1>2. ASSUME NEW r \in Records, Count(r) \/ FindFull(r) \/ Drop(r)
      PROVE  UNCHANGED <<sent, handled, signal>>
  BY <1>2 DEF Count, FindFull, Drop
<1>3. ASSUME NEW f \in Flushers, WriteBatch(f) \/ WriteFails(f)  PROVE Abstract!Deliver
  BY <1>3, WritesNextPart DEF WriteBatch, WriteFails, Abstract!Deliver
<1>4. ASSUME NEW f \in Flushers, Lock(f) \/ Take(f) \/ Drained(f) \/ CountFlushed(f)
      PROVE  UNCHANGED <<sent, handled, signal>>
  BY <1>4 DEF Lock, Take, Drained, CountFlushed
<1>5. ASSUME CancelContext \/ CallStop
      PROVE  Abstract!Close \/ UNCHANGED <<sent, handled, signal # {}>>
  BY <1>5 DEF CancelContext, CallStop, Abstract!Close
<1>6. ASSUME Tick \/ TickerReturns \/ Join \/ UNCHANGED batchVars
      PROVE  UNCHANGED <<sent, handled, signal>>
  BY <1>6 DEF Tick, TickerReturns, Join, batchVars
<1> QED
  BY <1>1, <1>2, <1>3, <1>4, <1>5, <1>6 DEF BatchNext, Submitting, Flushing

(* The writer implements a hand-over (Handoff) that neither loses, repeats *)
(* nor reorders what Submit accepted: every step of batch_writer.go is a    *)
(* step of it, or none.                                                    *)
THEOREM WriterImplementsHandoff == BatchSpec => Abstract!HandoffSpec
<1>1. BatchInit => Abstract!HandoffInit
  BY DEF BatchInit, Abstract!HandoffInit
<1>2. HandoffInv /\ [BatchNext]_batchVars => [Abstract!HandoffNext]_(Abstract!handoffVars)
  BY HandoffStep
<1> QED
  BY <1>1, <1>2, HandoffInvariance, PTL DEF BatchSpec, Abstract!HandoffSpec
-------------------------------------------------------------------------------
(* The counter.  The goroutines between a send and its count are finitely  *)
(* many; one that sends joins them and one that counts leaves them.        *)
LEMMA OneMoreUncounted ==
  ASSUME NEW S, IsFiniteSet(S), NEW r, r \notin S
  PROVE  IsFiniteSet(S \cup {r}) /\ Cardinality(S \cup {r}) = Cardinality(S) + 1
BY FS_AddElement

LEMMA UncountedFinite == IsFiniteSet(Uncounted) /\ Cardinality(Uncounted) \in Nat
<1>1. Uncounted \subseteq Records
  BY DEF Uncounted
<1>2. IsFiniteSet(Records)
  BY BatchAssumption
<1> QED
  BY <1>1, <1>2, FS_Subset, FS_CardinalityType

LEMMA InBatchType ==
  ASSUME BatchTypeOK
  PROVE  InBatch \in Nat /\ Len(buffer) \in Nat /\ pending \in Int /\ failed \in Nat
BY BatchAssumption DEF BatchTypeOK, InBatch

(* A step that moves no record and no counter. *)
LEMMA AccountsUntouched ==
  ASSUME PendingAccounts,
         Uncounted' = Uncounted, InBatch' = InBatch, Len(buffer') = Len(buffer),
         pending' = pending, failed' = failed
  PROVE  PendingAccounts'
BY DEF PendingAccounts

LEMMA PendingStep ==
  ASSUME FlushInv, PendingAccounts, [BatchNext]_batchVars
  PROVE  PendingAccounts'
<1> USE DEF FlushInv
<1>0. /\ BatchTypeOK /\ OneFlusher
      /\ InBatch \in Nat /\ Len(buffer) \in Nat /\ pending \in Int /\ failed \in Nat
      /\ Cardinality(Uncounted) \in Nat
  BY InBatchType, UncountedFinite
<1>1. ASSUME NEW r \in Records, Send(r)  PROVE PendingAccounts'
  <2>1. Uncounted' = Uncounted \cup {r} /\ r \notin Uncounted
    BY <1>1 DEF Send, Uncounted, BatchTypeOK
  <2>2. Cardinality(Uncounted') = Cardinality(Uncounted) + 1
    BY <2>1, UncountedFinite, OneMoreUncounted
  <2>3. Len(buffer') = Len(buffer) + 1
    BY <1>1, AppendProperties DEF Send, BatchTypeOK
  <2>4. InBatch' = InBatch /\ pending' = pending /\ failed' = failed
    BY <1>1 DEF Send, InBatch
  <2> QED
    BY <1>0, <2>2, <2>3, <2>4 DEF PendingAccounts
<1>2. ASSUME NEW r \in Records, Count(r)  PROVE PendingAccounts'
  <2>1. Uncounted = Uncounted' \cup {r} /\ r \notin Uncounted'
    BY <1>2 DEF Count, Uncounted, BatchTypeOK
  <2>2. Uncounted' \subseteq Uncounted
    BY <2>1
  <2>3. IsFiniteSet(Uncounted') /\ Cardinality(Uncounted') \in Nat
    BY <2>2, UncountedFinite, FS_Subset, FS_CardinalityType
  <2>4. Cardinality(Uncounted) = Cardinality(Uncounted') + 1
    BY <2>1, <2>3, OneMoreUncounted
  <2>5. /\ InBatch' = InBatch /\ pending' = pending + 1 /\ failed' = failed
        /\ Len(buffer') = Len(buffer)
    BY <1>2 DEF Count, InBatch
  <2> QED
    BY <1>0, <2>3, <2>4, <2>5 DEF PendingAccounts
<1>3. ASSUME NEW r \in Records, FindFull(r) \/ Drop(r)  PROVE PendingAccounts'
  <2>1. Uncounted' = Uncounted
    BY <1>3 DEF FindFull, Drop, Uncounted, BatchTypeOK
  <2>2. /\ InBatch' = InBatch /\ pending' = pending /\ failed' = failed
        /\ Len(buffer') = Len(buffer)
    BY <1>3 DEF FindFull, Drop, InBatch
  <2> QED
    BY <2>1, <2>2, AccountsUntouched
<1>4. ASSUME NEW f \in Flushers, Lock(f)  PROVE PendingAccounts'
  <2>1. batch[f] = <<>> /\ holder = Nobody /\ holder' = f /\ f # Nobody /\ batch' = batch
    BY <1>4, BatchAssumption DEF Lock, OneFlusher, Flushers
  <2>2. InBatch = 0 /\ InBatch' = Len(batch[f])
    BY <2>1 DEF InBatch
  <2>3. InBatch' = InBatch
    BY <2>1, <2>2, EmptySeq
  <2>4. /\ Uncounted' = Uncounted /\ pending' = pending /\ failed' = failed
        /\ Len(buffer') = Len(buffer)
    BY <1>4 DEF Lock, Uncounted
  <2> QED
    BY <2>3, <2>4, AccountsUntouched
<1>5. ASSUME NEW f \in Flushers, Take(f)  PROVE PendingAccounts'
  <2>1. holder = f /\ f # Nobody /\ holder' = holder
    BY <1>5, BatchAssumption DEF Take, OneFlusher, Flushers
  <2>2. /\ buffer \in Seq(Records) /\ buffer # <<>> /\ batch[f] \in Seq(Records)
        /\ batch'[f] = Append(batch[f], Head(buffer)) /\ buffer' = Tail(buffer)
    BY <1>5 DEF Take, BatchTypeOK
  <2>3. Head(buffer) \in Records /\ Len(buffer') = Len(buffer) - 1
    BY <2>2, HeadTailProperties
  <2>4. Len(batch'[f]) = Len(batch[f]) + 1
    BY <2>2, <2>3, AppendProperties
  <2>5. InBatch' = InBatch + 1
    BY <2>1, <2>4 DEF InBatch
  <2>6. Uncounted' = Uncounted /\ pending' = pending /\ failed' = failed
    BY <1>5 DEF Take, Uncounted
  <2> QED
    BY <1>0, <2>3, <2>5, <2>6 DEF PendingAccounts
<1>6. ASSUME NEW f \in Flushers, Drained(f)  PROVE PendingAccounts'
  <2>1. holder = f /\ f # Nobody
    BY <1>6, BatchAssumption DEF Drained, OneFlusher, Flushers
  <2>2. /\ Uncounted' = Uncounted /\ pending' = pending /\ failed' = failed
        /\ Len(buffer') = Len(buffer)
    BY <1>6 DEF Drained, Uncounted
  <2>3. ASSUME batch[f] = <<>>  PROVE InBatch' = InBatch
    <3>1. holder' = Nobody
      BY <1>6, <2>3 DEF Drained, Release
    <3> QED
      BY <2>1, <2>3, <3>1, EmptySeq DEF InBatch
  <2>4. ASSUME batch[f] # <<>>  PROVE InBatch' = InBatch
    BY <1>6, <2>4 DEF Drained, InBatch
  <2> QED
    BY <2>2, <2>3, <2>4, AccountsUntouched
<1>7. ASSUME NEW f \in Flushers, WriteBatch(f)  PROVE PendingAccounts'
  BY <1>7, AccountsUntouched DEF WriteBatch, Uncounted, InBatch
<1>8. ASSUME NEW f \in Flushers, CountFlushed(f)  PROVE PendingAccounts'
  <2>1. holder = f /\ f # Nobody
    BY <1>8, BatchAssumption DEF CountFlushed, OneFlusher, Flushers
  <2>2. InBatch = Len(batch[f]) /\ InBatch' = 0
    BY <1>8, <2>1 DEF CountFlushed, Release, InBatch
  <2>3. /\ Uncounted' = Uncounted /\ pending' = pending - Len(batch[f]) /\ failed' = failed
        /\ Len(buffer') = Len(buffer)
    BY <1>8 DEF CountFlushed, Uncounted
  <2> QED
    BY <1>0, <2>2, <2>3 DEF PendingAccounts
<1>9. ASSUME NEW f \in Flushers, WriteFails(f)  PROVE PendingAccounts'
  <2>1. holder = f /\ f # Nobody
    BY <1>9, BatchAssumption DEF WriteFails, OneFlusher, Flushers
  <2>2. InBatch = Len(batch[f]) /\ InBatch' = 0
    BY <1>9, <2>1 DEF WriteFails, Release, InBatch
  <2>3. /\ Uncounted' = Uncounted /\ pending' = pending /\ failed' = failed + Len(batch[f])
        /\ Len(buffer') = Len(buffer)
    BY <1>9 DEF WriteFails, Uncounted
  <2> QED
    BY <1>0, <2>2, <2>3 DEF PendingAccounts
<1>10. ASSUME Tick \/ TickerReturns \/ CancelContext \/ CallStop \/ Join
       PROVE  PendingAccounts'
  BY <1>10, AccountsUntouched
     DEF Tick, TickerReturns, CancelContext, CallStop, Join, Uncounted, InBatch
<1>11. ASSUME UNCHANGED batchVars  PROVE PendingAccounts'
  BY <1>11, AccountsUntouched DEF batchVars, Uncounted, InBatch
<1> QED
  BY <1>1, <1>2, <1>3, <1>4, <1>5, <1>6, <1>7, <1>8, <1>9, <1>10, <1>11
     DEF BatchNext, Submitting, Flushing

(* pendingCount (Submit raises it, a successful flush lowers it) is what    *)
(* waits in the channel or in a batch, and what ever failed, less the sends *)
(* whose goroutine has not counted yet, at every instant.                   *)
THEOREM PendingCountIsExact == BatchSpec => []PendingAccounts
<1>1. BatchInit => PendingAccounts
  <2> SUFFICES ASSUME BatchInit PROVE PendingAccounts
    OBVIOUS
  <2>1. Uncounted = {} /\ InBatch = 0 /\ Len(buffer) = 0 /\ pending = 0 /\ failed = 0
    BY EmptySeq DEF BatchInit, Uncounted, InBatch
  <2> QED
    BY <2>1, FS_EmptySet DEF PendingAccounts
<1>2. FlushInv /\ PendingAccounts /\ [BatchNext]_batchVars => PendingAccounts'
  BY PendingStep
<1> QED
  BY <1>1, <1>2, FlushInvariance, PTL DEF BatchSpec
===============================================================================
