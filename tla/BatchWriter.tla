------------------------------ MODULE BatchWriter ------------------------------
(***************************************************************************)
(* The batch writer (batch_writer.go): goroutines submit records into a    *)
(* buffered channel, and whoever flushes takes them out under a mutex and  *)
(* hands them to flushFunc.  Flushers are the background goroutine with    *)
(* its ticker, one goroutine for each Submit that met a full buffer, and   *)
(* Stop.                                                                   *)
(***************************************************************************)
EXTENDS Integers, Sequences, FiniteSets

CONSTANTS
  Records,     \* what is submitted, each once by a goroutine of its own
  BufferSize,  \* WithBufferSize, 10000 by default
  Ticker,      \* the background goroutine of Start
  Stopper,     \* the goroutine that calls Stop
  Nobody       \* the holder of a free mutex

ASSUME BatchAssumption ==
  /\ IsFiniteSet(Records)
  /\ BufferSize \in Nat \ {0}
  /\ Ticker \notin Records /\ Stopper \notin Records /\ Ticker # Stopper
  /\ Nobody \notin Records \cup {Ticker, Stopper}

Flushers == Records \cup {Ticker, Stopper}  \* a record names the flush its Submit spawned

VARIABLES
  submit,   \* where Submit of a record is
  buffer,   \* the channel
  pending,  \* pendingCount, an atomic counter
  failed,   \* failedCount
  holder,   \* who holds mu
  flusher,  \* where a flusher is
  batch,    \* the records a flusher took out of the channel
  signal,   \* the subset of {"cancel", "stop"} that was given: ctx and stopCh
  sent,     \* history: the records in the order the channel took them
  handled,  \* history: the records flushFunc was given and is done with, in its order
  due       \* history: what was sent before Stop was called

batchVars == <<submit, buffer, pending, failed, holder, flusher, batch, signal,
               sent, handled, due>>

SubmitPCs == {"new", "full", "uncounted", "accepted", "dropped"}
FlushPCs  == {"idle", "asked", "draining", "writing", "written", "joining", "done"}
-------------------------------------------------------------------------------
(* A definition named after a mistake is a mutant that PROJECT.json lists. *)
BatchInit ==
  /\ submit = [r \in Records |-> "new"]
  /\ buffer = <<>>
  /\ pending = 0
  /\ failed = 0
  /\ holder = Nobody
  /\ flusher = [f \in Flushers |-> "idle"]
  /\ batch = [f \in Flushers |-> <<>>]
  /\ signal = {}
  /\ sent = <<>>
  /\ handled = <<>>
  /\ due = 0

(* The non-blocking send of Submit's first or second select. *)
Send(r) ==
  /\ submit[r] \in {"new", "full"}
  /\ Len(buffer) < BufferSize
  /\ buffer' = Append(buffer, r)
  /\ sent' = Append(sent, r)
  /\ submit' = [submit EXCEPT ![r] = "uncounted"]
  /\ UNCHANGED <<pending, failed, holder, flusher, batch, signal, handled, due>>

(* The counter is raised after the send: a flush may take the record first. *)
Count(r) ==
  /\ submit[r] = "uncounted"
  /\ pending' = pending + 1
  /\ submit' = [submit EXCEPT ![r] = "accepted"]
  /\ UNCHANGED <<buffer, failed, holder, flusher, batch, signal, sent, handled, due>>

(* The buffer is full: start a flush, then try once more without waiting. *)
FindFull(r) ==
  /\ submit[r] = "new"
  /\ Len(buffer) = BufferSize
  /\ submit' = [submit EXCEPT ![r] = "full"]
  /\ flusher' = [flusher EXCEPT ![r] = "asked"]
  /\ UNCHANGED <<buffer, pending, failed, holder, batch, signal, sent, handled, due>>

Drop(r) ==
  /\ submit[r] = "full"
  /\ Len(buffer) = BufferSize
  /\ submit' = [submit EXCEPT ![r] = "dropped"]
  /\ UNCHANGED <<buffer, pending, failed, holder, flusher, batch, signal, sent, handled, due>>
-------------------------------------------------------------------------------
TickOverOne ==
  /\ flusher[Ticker] = "idle"
  /\ pending > 1
  /\ flusher' = [flusher EXCEPT ![Ticker] = "asked"]
  /\ UNCHANGED <<submit, buffer, pending, failed, holder, batch, signal, sent, handled, due>>

(* A tick flushes when the counter says there is something.  select picks  *)
(* any case that is ready, so a tick may win over a signal to stop.        *)
Tick ==
  /\ flusher[Ticker] = "idle"
  /\ pending > 0
  /\ flusher' = [flusher EXCEPT ![Ticker] = "asked"]
  /\ UNCHANGED <<submit, buffer, pending, failed, holder, batch, signal, sent, handled, due>>

LockUnguarded(f) ==
  /\ flusher[f] = "asked"
  /\ holder' = f
  /\ flusher' = [flusher EXCEPT ![f] = "draining"]
  /\ UNCHANGED <<submit, buffer, pending, failed, batch, signal, sent, handled, due>>

Lock(f) ==
  /\ flusher[f] = "asked"
  /\ holder = Nobody
  /\ holder' = f
  /\ flusher' = [flusher EXCEPT ![f] = "draining"]
  /\ UNCHANGED <<submit, buffer, pending, failed, batch, signal, sent, handled, due>>

(* One receive of flush's loop.  The break at maxBatchSize leaves the      *)
(* select and not the loop: it goes on until the channel is empty.         *)
Take(f) ==
  /\ flusher[f] = "draining"
  /\ buffer # <<>>
  /\ batch' = [batch EXCEPT ![f] = Append(@, Head(buffer))]
  /\ buffer' = Tail(buffer)
  /\ UNCHANGED <<submit, pending, failed, holder, flusher, signal, sent, handled, due>>

(* What a flusher does when flush has returned and the mutex is free. *)
AfterFlush(f) == IF f = Ticker THEN "idle" ELSE "done"

Release(f) ==
  /\ holder' = Nobody
  /\ flusher' = [flusher EXCEPT ![f] = AfterFlush(f)]
  /\ batch' = [batch EXCEPT ![f] = <<>>]

(* The loop ends at an empty channel; an empty batch is not written. *)
Drained(f) ==
  /\ flusher[f] = "draining"
  /\ buffer = <<>>
  /\ IF batch[f] = <<>>
     THEN Release(f)
     ELSE /\ flusher' = [flusher EXCEPT ![f] = "writing"]
          /\ UNCHANGED <<holder, batch>>
  /\ UNCHANGED <<submit, buffer, pending, failed, signal, sent, handled, due>>

(* flushFunc returns. *)
WriteBatch(f) ==
  /\ flusher[f] = "writing"
  /\ handled' = handled \o batch[f]
  /\ flusher' = [flusher EXCEPT ![f] = "written"]
  /\ UNCHANGED <<submit, buffer, pending, failed, holder, batch, signal, sent, due>>

CountFlushedOnce(f) ==
  /\ flusher[f] = "written"
  /\ pending' = pending - 1
  /\ Release(f)
  /\ UNCHANGED <<submit, buffer, failed, signal, sent, handled, due>>

(* The counters that follow a successful write. *)
CountFlushed(f) ==
  /\ flusher[f] = "written"
  /\ pending' = pending - Len(batch[f])
  /\ Release(f)
  /\ UNCHANGED <<submit, buffer, failed, signal, sent, handled, due>>

(* flushFunc fails: the batch is counted as failed and gone. *)
WriteFails(f) ==
  /\ flusher[f] = "writing"
  /\ handled' = handled \o batch[f]
  /\ failed' = failed + Len(batch[f])
  /\ Release(f)
  /\ UNCHANGED <<submit, buffer, pending, signal, sent, due>>
-------------------------------------------------------------------------------
CancelContext ==
  /\ "cancel" \notin signal
  /\ signal' = signal \cup {"cancel"}
  /\ UNCHANGED <<submit, buffer, pending, failed, holder, flusher, batch, sent, handled, due>>

(* Stop closes stopCh, waits for the background goroutine and flushes. *)
CallStop ==
  /\ flusher[Stopper] = "idle"
  /\ signal' = signal \cup {"stop"}
  /\ due' = Len(sent)
  /\ flusher' = [flusher EXCEPT ![Stopper] = "joining"]
  /\ UNCHANGED <<submit, buffer, pending, failed, holder, batch, sent, handled>>

TickerReturns ==
  /\ flusher[Ticker] = "idle"
  /\ signal # {}
  /\ flusher' = [flusher EXCEPT ![Ticker] = "done"]
  /\ UNCHANGED <<submit, buffer, pending, failed, holder, batch, signal, sent, handled, due>>

JoinOnly ==
  /\ flusher[Stopper] = "joining"
  /\ flusher[Ticker] = "done"
  /\ flusher' = [flusher EXCEPT ![Stopper] = IF pending > 0 THEN "asked" ELSE "done"]
  /\ UNCHANGED <<submit, buffer, pending, failed, holder, batch, signal, sent, handled, due>>

Join ==
  /\ flusher[Stopper] = "joining"
  /\ flusher[Ticker] = "done"
  /\ flusher' = [flusher EXCEPT ![Stopper] = "asked"]
  /\ UNCHANGED <<submit, buffer, pending, failed, holder, batch, signal, sent, handled, due>>

Submitting(r) == Send(r) \/ Count(r) \/ FindFull(r) \/ Drop(r)

Flushing(f) ==
  Lock(f) \/ Take(f) \/ Drained(f) \/ WriteBatch(f) \/ CountFlushed(f) \/ WriteFails(f)

BatchNext ==
  \/ \E r \in Records : Submitting(r)
  \/ \E f \in Flushers : Flushing(f)
  \/ Tick \/ TickerReturns
  \/ CancelContext \/ CallStop \/ Join

BatchSpec == BatchInit /\ [][BatchNext]_batchVars
-------------------------------------------------------------------------------
BatchTypeOK ==
  /\ submit \in [Records -> SubmitPCs]
  /\ buffer \in Seq(Records) /\ Len(buffer) <= BufferSize
  /\ pending \in Int
  /\ failed \in Nat
  /\ holder \in Flushers \cup {Nobody}
  /\ flusher \in [Flushers -> FlushPCs]
  /\ batch \in [Flushers -> Seq(Records)]
  /\ signal \subseteq {"cancel", "stop"}
  /\ sent \in Seq(Records)
  /\ handled \in Seq(Records)
  /\ due \in Nat

(* The batch that is out of the channel and not yet given to flushFunc. *)
InFlight ==
  IF holder # Nobody /\ flusher[holder] \in {"draining", "writing"} THEN batch[holder] ELSE <<>>

(* Flushes of any number of goroutines hand every record that was          *)
(* accepted to flushFunc once and in the order of acceptance: what was     *)
(* sent is what was handled, then the batch of the flush that runs, then   *)
(* the channel.                                                            *)
FlushedInOrder == sent = handled \o InFlight \o buffer

(* Stop leaves nothing behind of what was accepted before it was called,   *)
(* whatever the other flushers were doing: all of it reached flushFunc.    *)
StopFlushesAll == flusher[Stopper] = "done" => Len(handled) >= due

(* pendingCount is what is in the channel or in a batch, plus what ever    *)
(* failed (a failed batch is never subtracted), less the sends that are    *)
(* not counted yet.  The ticker depends on it to see work.                 *)
Uncounted == {r \in Records : submit[r] = "uncounted"}
InBatch   == IF holder = Nobody THEN 0 ELSE Len(batch[holder])

PendingAccounts == pending + Cardinality(Uncounted) = Len(buffer) + InBatch + failed

(* The writer implements a hand-over of records that batches them as it    *)
(* likes but neither loses, repeats nor reorders any, and that does not    *)
(* come to rest before everything accepted reached flushFunc as long as    *)
(* nobody stops it, however the counter, the sends and the flushes         *)
(* interleave.                                                             *)
Abstract == INSTANCE Handoff WITH Items <- Records, accepted <- sent, delivered <- handled,
                                  closed <- signal # {}

ImplementsHandoff == Abstract!FairHandoffSpec
================================================================================
