------------------------- MODULE LowPriorityWriter -------------------------
(***************************************************************************)
(* services/low_priority_writer.py: one writer of append-only rows (chat   *)
(* history, statistics, gold log).  Records are buffered in memory; a      *)
(* worker task, the memory governor and the shutdown flush them to the     *)
(* database in batches, one flush at a time under _FLUSH_LOCK.             *)
(*                                                                         *)
(* Records are numbered in the order they are appended.  No await          *)
(* separates the steps of append, _take_batch or _restore_batch, whose     *)
(* state.lock is therefore never contended.  Time is abstracted: the flush *)
(* interval has passed whenever the worker looks, and a backoff or a spell *)
(* of an unhealthy database ends whenever it likes.  A write that raises   *)
(* an error other than a timeout has written nothing (bulk_create inserts  *)
(* a batch in one transaction).                                            *)
(***************************************************************************)
EXTENDS Integers, FiniteSets, SequencesExt, AsyncioLock

CONSTANTS MaxRecords,   \* bound of the model: records appended
          MaxRetain,    \* config.max_retain
          BatchSize,    \* config.batch_size
          MaxItems,     \* config.max_items_per_cycle
          Workers,      \* the worker tasks that may come into being
          Governor,     \* the memory governor's flush
          Stopper,      \* the flush of stop_low_priority_writer
          None          \* no task

ASSUME SizesPositive == /\ MaxRecords \in Nat /\ MaxRetain \in Nat \ {0}
                        /\ BatchSize \in Nat \ {0} /\ MaxItems \in Nat \ {0}
ASSUME TasksDistinct == Governor # Stopper /\ {Governor, Stopper, None} \cap Workers = {}

Records == 1..MaxRecords
Forced  == {Governor, Stopper}
Tasks   == Workers \cup Forced

VARIABLES
  appended,    \* the records appended so far are 1..appended
  buffer,      \* state.buffer
  dropped,     \* state.dropped
  backoff,     \* time.monotonic() < state.backoff_until
  unhealthy,   \* should_pause_db_tasks()
  stopping,    \* _STOPPING
  current,     \* _WORKER_TASK
  cancelled,   \* the tasks a cancellation is on its way to
  at,          \* where each task is: "off", "poll", "lock", "loop" or "write"
  flushLock,   \* _FLUSH_LOCK
  batch,       \* the batch each task is writing
  written,     \* what each task has written in its flush
  stop,        \* stop_low_priority_writer: "idle", "cancel", "flush" or "done"
  rows,        \* the table, in the order of the writes that were confirmed
  uncertain,   \* records of unconfirmed writes: the database may still add them
  late,        \* records of unconfirmed writes the database did add
  abandoned    \* history: how many records cancelled writes took with them

vars == <<appended, buffer, dropped, backoff, unhealthy, stopping, current, cancelled,
          at, flushLock, batch, written, stop, rows, uncertain, late, abandoned>>

flush  == <<at, flushLock, batch, written>>
tasks  == <<stopping, current, cancelled, stop>>
health == <<backoff, unhealthy>>
table  == <<rows, uncertain, late>>

Init ==
  /\ appended = 0 /\ buffer = <<>> /\ dropped = 0 /\ abandoned = 0
  /\ backoff = FALSE /\ unhealthy = FALSE
  /\ stopping = FALSE /\ current = None /\ cancelled = {} /\ stop = "idle"
  /\ at = [t \in Tasks |-> "off"] /\ flushLock = <<>>
  /\ batch = [t \in Tasks |-> <<>>] /\ written = [t \in Tasks |-> 0]
  /\ rows = <<>> /\ uncertain = {} /\ late = {}

-----------------------------------------------------------------------------
\* _ensure_worker: it also resets _STOPPING.  A task that has ended is replaced.
EnsureWorker ==
  /\ stopping' = FALSE
  /\ IF current # None /\ at[current] # "off"
     THEN UNCHANGED <<current, at>>
     ELSE \E w \in Workers : /\ at[w] = "off"
                             /\ current' = w
                             /\ at' = [at EXCEPT ![w] = "poll"]

\* Mutant: the record that makes room is not counted.
AppendUncounted ==
  /\ appended < MaxRecords
  /\ appended' = appended + 1
  /\ EnsureWorker
  /\ LET kept == IF Len(buffer) >= MaxRetain THEN Tail(buffer) ELSE buffer
     IN  buffer' = Append(kept, appended')
  /\ UNCHANGED <<dropped, health, cancelled, flushLock, batch, written, stop, table, abandoned>>

\* append_low_priority_record: a full buffer loses its oldest record.
AppendRecord ==
  /\ appended < MaxRecords
  /\ appended' = appended + 1
  /\ EnsureWorker
  /\ IF Len(buffer) >= MaxRetain
     THEN /\ buffer' = Append(Tail(buffer), appended')
          /\ dropped' = dropped + 1
     ELSE /\ buffer' = Append(buffer, appended')
          /\ UNCHANGED dropped
  /\ UNCHANGED <<health, cancelled, flushLock, batch, written, stop, table, abandoned>>

-----------------------------------------------------------------------------
\* The worker and the forced flushes ask for _FLUSH_LOCK.
\* A free lock is taken without a pause: the flush goes straight to its loop.
Ask(t) == /\ at' = [at EXCEPT ![t] = IF flushLock = <<>> THEN "loop" ELSE "lock"]
          /\ flushLock' = Append(flushLock, t)
          /\ written' = [written EXCEPT ![t] = 0]
          /\ UNCHANGED batch

\* One turn of _worker_loop, skipped while the database is unhealthy.  The loop's
\* own exit on _STOPPING is never taken: whoever sets it cancels the worker too.
\* A turn that finds the lock free and nothing due, or a backoff, changes nothing.
PollTick(w) == /\ at[w] = "poll" /\ w \notin cancelled
               /\ ~stopping /\ ~unhealthy
               /\ flushLock # <<>> \/ (buffer # <<>> /\ ~backoff)
               /\ Ask(w)
               /\ UNCHANGED <<appended, buffer, dropped, health, tasks, table, abandoned>>

\* flush_low_priority_writer with force, from the memory governor.
GovernorFlush == /\ at[Governor] = "off"
                 /\ Ask(Governor)
                 /\ UNCHANGED <<appended, buffer, dropped, health, tasks, table, abandoned>>

-----------------------------------------------------------------------------
\* _flush_state

\* Task t's flush is over: it releases the lock; a worker polls again.
Release(t) == /\ flushLock' = Tail(flushLock)
              /\ at' = [at EXCEPT ![t] = IF t \in Workers THEN "poll" ELSE "off"]
              /\ stop' = IF t = Stopper THEN "done" ELSE stop
              /\ UNCHANGED <<stopping, current, cancelled>>

\* With the lock in hand after a wait, a worker that finds nothing due, a backoff or an
\* unhealthy database lets go; everyone else starts.
BeginFlush(t) ==
  /\ at[t] = "lock" /\ Holds(flushLock, t) /\ t \notin cancelled
  /\ IF t \in Workers /\ (buffer = <<>> \/ backoff \/ unhealthy)
     THEN Release(t)
     ELSE /\ at' = [at EXCEPT ![t] = "loop"]
          /\ UNCHANGED <<flushLock, tasks>>
  /\ UNCHANGED <<appended, buffer, dropped, health, batch, written, table, abandoned>>

\* _take_batch, or the end of the loop: nothing left, or a worker's share written.
TakeBatch(t) ==
  /\ at[t] = "loop"
  /\ IF buffer = <<>> \/ (t \in Workers /\ written[t] >= MaxItems)
     THEN Release(t) /\ UNCHANGED <<buffer, batch>>
     ELSE LET n == IF Len(buffer) < BatchSize THEN Len(buffer) ELSE BatchSize
          IN  /\ batch' = [batch EXCEPT ![t] = SubSeq(buffer, 1, n)]
              /\ buffer' = SubSeq(buffer, n + 1, Len(buffer))
              /\ at' = [at EXCEPT ![t] = "write"]
              /\ UNCHANGED <<flushLock, tasks>>
  /\ UNCHANGED <<appended, dropped, health, written, table, abandoned>>

\* write_batch returns: the rows are in the table.
WriteReturns(t) ==
  /\ at[t] = "write" /\ t \notin cancelled
  /\ rows' = rows \o batch[t]
  /\ batch' = [batch EXCEPT ![t] = <<>>]
  /\ written' = [written EXCEPT ![t] = @ + Len(batch[t])]
  /\ at' = [at EXCEPT ![t] = "loop"]
  /\ backoff' = FALSE
  /\ UNCHANGED <<appended, buffer, dropped, unhealthy, tasks, flushLock, uncertain, late,
                 abandoned>>

\* _mark_failure and _mark_uncertain_timeout set both, for 30 seconds or more.
MarkFailure == backoff' = TRUE /\ unhealthy' = TRUE

\* Mutant: the whole batch goes back, whatever the buffer has taken meanwhile.
RestorableAll(b) == b

\* Mutant: what fits goes back one by one without being reversed.
RestorableFlipped(b) ==
  LET room == IF MaxRetain > Len(buffer) THEN MaxRetain - Len(buffer) ELSE 0
  IN  Reverse(IF Len(b) <= room THEN b ELSE SubSeq(b, Len(b) - room + 1, Len(b)))

\* The newest records of a batch that fit before the buffer again.
Restorable(b) == LET room == IF MaxRetain > Len(buffer) THEN MaxRetain - Len(buffer) ELSE 0
                 IN  IF Len(b) <= room THEN b ELSE SubSeq(b, Len(b) - room + 1, Len(b))

\* write_batch raises: _restore_batch keeps what fits, counts the rest.
WriteFails(t) ==
  /\ at[t] = "write" /\ t \notin cancelled
  /\ LET back == Restorable(batch[t])
     IN  /\ buffer' = back \o buffer
         /\ dropped' = dropped + Len(batch[t]) - Len(back)
  /\ batch' = [batch EXCEPT ![t] = <<>>]
  /\ MarkFailure
  /\ Release(t)
  /\ UNCHANGED <<appended, written, table, abandoned>>

\* Mutant: a batch whose write timed out is restored like a failed one.
WriteTimesOutRestored(t) ==
  /\ at[t] = "write" /\ t \notin cancelled
  /\ buffer' = Restorable(batch[t]) \o buffer
  /\ dropped' = dropped + Len(batch[t]) - Len(Restorable(batch[t]))
  /\ uncertain' = uncertain \cup ToSet(batch[t])
  /\ batch' = [batch EXCEPT ![t] = <<>>]
  /\ MarkFailure
  /\ Release(t)
  /\ UNCHANGED <<appended, written, rows, late, abandoned>>

\* write_batch times out: the insert may still happen, so the batch is dropped.
WriteTimesOut(t) ==
  /\ at[t] = "write" /\ t \notin cancelled
  /\ dropped' = dropped + Len(batch[t])
  /\ uncertain' = uncertain \cup ToSet(batch[t])
  /\ batch' = [batch EXCEPT ![t] = <<>>]
  /\ MarkFailure
  /\ Release(t)
  /\ UNCHANGED <<appended, buffer, written, rows, late, abandoned>>

\* The database adds an unconfirmed record after all, or never does.
Settle(r) == /\ r \in uncertain
             /\ uncertain' = uncertain \ {r}
             /\ late' \in {late, late \cup {r}}
             /\ UNCHANGED <<appended, buffer, dropped, health, tasks, flush, rows, abandoned>>

-----------------------------------------------------------------------------
\* Mutant: a cancelled task keeps the lock.
EndCancelledLocked(t) ==
  /\ at' = [at EXCEPT ![t] = "off"]
  /\ uncertain' = uncertain \cup ToSet(batch[t])
  /\ abandoned' = abandoned + Len(batch[t])
  /\ batch' = [batch EXCEPT ![t] = <<>>]
  /\ UNCHANGED <<appended, buffer, dropped, health, flushLock, written, rows, late>>

\* A cancelled task ends where it awaits: it leaves the lock, and no handler
\* catches CancelledError, so a batch it was writing is neither restored nor
\* counted.
EndCancelled(t) ==
  /\ at' = [at EXCEPT ![t] = "off"]
  /\ flushLock' = Leave(flushLock, t)
  /\ uncertain' = uncertain \cup ToSet(batch[t])
  /\ abandoned' = abandoned + Len(batch[t])
  /\ batch' = [batch EXCEPT ![t] = <<>>]
  /\ UNCHANGED <<appended, buffer, dropped, health, written, rows, late>>

\* The governor's wait_for around the whole reclaim times out.
GovernorTimeout == /\ at[Governor] \in {"lock", "write"}
                   /\ EndCancelled(Governor)
                   /\ UNCHANGED tasks

WorkerCancelled(w) == /\ w \in cancelled /\ at[w] \in {"poll", "lock", "write"}
                      /\ EndCancelled(w)
                      /\ cancelled' = cancelled \ {w}
                      /\ UNCHANGED <<stopping, current, stop>>

\* stop_low_priority_writer: set _STOPPING, forget and cancel the worker, ...
StopBegin == /\ stop = "idle" /\ stop' = "cancel"
             /\ stopping' = TRUE
             /\ current' = None
             /\ cancelled' = {w \in {current} \cap Workers : at[w] # "off"}
             /\ UNCHANGED <<appended, buffer, dropped, health, flush, table, abandoned>>

\* ... await it, and flush everything.
StopFlush == /\ stop = "cancel" /\ cancelled = {}
             /\ stop' = "flush"
             /\ Ask(Stopper)
             /\ UNCHANGED <<appended, buffer, dropped, health, stopping, current, cancelled,
                            table, abandoned>>

BackoffOver == /\ backoff /\ backoff' = FALSE
               /\ UNCHANGED <<appended, buffer, dropped, unhealthy, tasks, flush, table, abandoned>>

\* with_db_timeout: an operation of any part of the program that times out, or
\* meets a locked SQLite file, makes the database unhealthy for everyone.
OtherUnhealthy == /\ ~unhealthy /\ unhealthy' = TRUE
                  /\ UNCHANGED <<appended, buffer, dropped, backoff, tasks, flush, table, abandoned>>

HealthBack == /\ unhealthy /\ unhealthy' = FALSE
              /\ UNCHANGED <<appended, buffer, dropped, backoff, tasks, flush, table, abandoned>>

-----------------------------------------------------------------------------
FlushStep(t) == \/ BeginFlush(t) \/ TakeBatch(t)
                \/ WriteReturns(t) \/ WriteFails(t) \/ WriteTimesOut(t)

Next == \/ AppendRecord
        \/ \E w \in Workers : PollTick(w) \/ WorkerCancelled(w)
        \/ GovernorFlush \/ GovernorTimeout
        \/ \E t \in Tasks : FlushStep(t)
        \/ \E r \in Records : Settle(r)
        \/ StopBegin \/ StopFlush \/ BackoffOver \/ OtherUnhealthy \/ HealthBack

\* The event loop runs every task, time passes, and a write that is tried again
\* and again succeeds again and again; a batch may still fail any number of times.
\* Others may make the database unhealthy again and again, but the worker looks
\* every second, so not only inside their spells, and a flush that waited for the lock
\* is not met by a new spell, or a timeout, each time it wakes: strong fairness.
\* Only the holder of the lock can take a flush step.
Fairness == /\ WF_vars(\E t \in Tasks : FlushStep(t))
            /\ SF_vars(\E t \in Tasks : BeginFlush(t) /\ at'[t] = "loop")
            /\ SF_vars(\E t \in Tasks : WriteReturns(t))
            /\ SF_vars(\E w \in Workers : PollTick(w))
            /\ WF_vars(\E w \in Workers : WorkerCancelled(w))
            /\ WF_vars(StopFlush) /\ WF_vars(BackoffOver) /\ WF_vars(HealthBack)

Spec == Init /\ [][Next]_vars /\ Fairness

-----------------------------------------------------------------------------
\* Properties

\* The records the tasks are writing.
Writing == UNION {ToSet(batch[t]) : t \in Tasks}

\* Every variable has its type; the buffer keeps its bound through overflow
\* and restoring, and a batch its size.
TypeOK ==
  /\ appended \in 0..MaxRecords
  /\ buffer \in Seq(Records) /\ Len(buffer) <= MaxRetain
  /\ dropped \in Nat /\ abandoned \in Nat
  /\ backoff \in BOOLEAN /\ unhealthy \in BOOLEAN /\ stopping \in BOOLEAN
  /\ current \in Workers \cup {None}
  /\ cancelled \in SUBSET Workers
  /\ at \in [Tasks -> {"off", "poll", "lock", "loop", "write"}]
  /\ flushLock \in Seq(Tasks)
  /\ batch \in [Tasks -> Seq(Records)]
  /\ \A t \in Tasks : Len(batch[t]) <= BatchSize
  /\ written \in [Tasks -> Nat]
  /\ stop \in {"idle", "cancel", "flush", "done"}
  /\ rows \in Seq(Records)
  /\ uncertain \in SUBSET Records /\ late \in SUBSET Records

\* No record can reach the table twice (the reason _flush_state gives for not
\* restoring a batch whose write timed out): one that is in the table, or that
\* the database may still add, is in no buffer or batch that would write it again.
NoRowTwice ==
  /\ IsInjective(rows) /\ IsInjective(buffer)
  /\ ToSet(rows) \cap late = {}
  /\ (ToSet(rows) \cup late \cup uncertain) \cap (ToSet(buffer) \cup Writing) = {}
  /\ uncertain \cap (ToSet(rows) \cup late) = {}

\* The dropped counter, with what cancelled flushes abandoned, accounts for every
\* record that was appended and is neither buffered, nor being written, nor
\* confirmed: no other path loses one silently.
LossesAreCounted ==
  appended = Len(buffer) + Cardinality(Writing) + Len(rows) + dropped + abandoned

\* The worker, the governor and the shutdown may all flush, batches fail and are
\* put back, yet the buffer stays in the order of the appends, older records are
\* written before newer ones, and a batch is older than the buffer it came from.
OldestFirst ==
  LET Sorted(s) == \A i, j \in DOMAIN s : i < j => s[i] < s[j]
  IN  /\ Sorted(buffer) /\ Sorted(rows)
      /\ \A b \in ToSet(buffer), w \in Writing, r \in ToSet(rows) : r < w /\ w < b

\* A record does not stay in the buffer for ever, unless the writer was stopped.
BufferDrains ==
  \A r \in Records : []<>(r \notin ToSet(buffer) \/ stop = "done")

\* stop_low_priority_writer returns, also when appends start another worker
\* behind its back.
StopReturns == []<>(stop \in {"idle", "done"})
=============================================================================
