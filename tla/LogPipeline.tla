----------------------------- MODULE LogPipeline -----------------------------
(***************************************************************************)
(* The way of a log record from a service to ClickHouse:                   *)
(*   internal/telemetry/sloghandler.go  channel and workers of NATSHandler *)
(*   cmd/logd/main.go                   consumer, ticker, shutdown of logd *)
(*   cmd/logd/writer.go                 batcher and ClickHouse writer      *)
(*                                                                         *)
(* Handle is called by any goroutine, Close by another.  In logd three     *)
(* goroutines use the batcher: the consumer's callback, the ticker and     *)
(* main, which closes it before it stops the consumer.  The batcher's lock *)
(* is released around the write to ClickHouse; the writer has its own.     *)
(***************************************************************************)
EXTENDS Naturals, Sequences, FiniteSets, Totals

CONSTANTS Record,     \* the records that are logged
          Backlog,    \* those that a durable consumer of an earlier run has waiting
          Worker,     \* the goroutines that publish
          None,       \* no record
          BufferSize, \* capacity of the channel
          MaxRows,    \* rows that make a batch full
          MaxFaults   \* bound: faults

VARIABLES
  log,       \* how far each record has come in the service that logs it
  ch,        \* handlerCore.ch
  close,     \* how far NATSHandler.Close has come
  dropped,   \* the counter of dropped records
  work,      \* the record each worker publishes
  stage,     \* how far logd's run has come
  durable,   \* the durable consumer exists
  ready,     \* messages of the stream to be delivered
  cb,        \* the consumer's callback
  tick,      \* the ticker's goroutine
  stop,      \* main, once it has been signalled
  batch,     \* rows per record in the prepared batch
  sealed,    \* a failed Send has closed the prepared batch
  conn,      \* the ClickHouse connection is open
  buffered,  \* batcher.buffered
  table,     \* rows per record in ClickHouse
  acked,     \* history: records acknowledged to the stream
  harm       \* history: the faults that happened

handler == <<log, ch, close, dropped, work>>
logd    == <<stage, durable, cb, tick, stop>>
rows    == <<batch, sealed, conn, buffered, table>>
vars    == <<handler, logd, ready, rows, acked, harm>>

Fault  == {"publish", "send", "append", "ack", "garbled", "crash", "start", "signal", "cut"}
NoRows == [r \in Record |-> 0]
Idle   == [pc |-> "idle", rec |-> None]
RowCount(b) == Total(b, Record)

TypeOK ==
  /\ log \in [Record -> {"new", "checked", "chan", "worker", "out", "lost", "dropped", "panic"}]
  /\ ch \in Seq(Record) /\ Len(ch) <= BufferSize
  /\ close \in {"open", "flagged", "closed", "done", "timeout"}
  /\ dropped \in 0 .. Cardinality(Record)
  /\ work \in [Worker -> Record \cup {None}]
  /\ stage \in {"down", "writer", "nats", "stream", "consumer", "run"}
  /\ durable \in BOOLEAN /\ sealed \in BOOLEAN /\ conn \in BOOLEAN
  /\ ready \subseteq Record /\ acked \subseteq Record
  /\ cb \in [pc : {"idle", "add", "flush", "reset", "ack"}, rec : Record \cup {None}]
  /\ tick \in {"idle", "flush", "reset"}
  /\ stop \in {"no", "flush", "reset", "close", "exit"}
  /\ batch \in [Record -> Nat] /\ table \in [Record -> Nat] /\ buffered \in Nat
  /\ harm \in [Fault -> Nat]

Init ==
  /\ log = [r \in Record |-> IF r \in Backlog THEN "out" ELSE "new"]
  /\ ch = <<>> /\ close = "open" /\ dropped = 0
  /\ work = [w \in Worker |-> None]
  /\ stage = "down" /\ durable \in BOOLEAN
  /\ ready = (IF durable THEN Backlog ELSE {}) /\ cb = Idle /\ tick = "idle" /\ stop = "no"
  /\ batch = NoRows /\ sealed = FALSE /\ conn = FALSE
  /\ buffered = 0
  /\ table = NoRows /\ acked = {} /\ harm = [f \in Fault |-> 0]

\* Something goes wrong, within the bound; one signal comes on top of it.
Goes(f) == /\ IF f = "signal" THEN harm[f] = 0
                              ELSE Total(harm, Fault) < MaxFaults + harm["signal"] + harm["cut"]
           /\ harm' = [harm EXCEPT ![f] = @ + 1]
Never(F) == \A f \in F : harm[f] = 0

-----------------------------------------------------------------------------
(* NATSHandler *)

Drop(r) == log' = [log EXCEPT ![r] = "dropped"] /\ dropped' = dropped + 1

\* Handle looks at the closed flag, then builds the record.
HandleCheck(r) ==
  /\ log[r] = "new"
  /\ IF close = "open"
       THEN log' = [log EXCEPT ![r] = "checked"] /\ UNCHANGED dropped
       ELSE Drop(r)
  /\ UNCHANGED <<ch, close, work, logd, ready, rows, acked, harm>>

\* The non-blocking send.  On a closed channel it panics.
HandleSend(r) ==
  /\ log[r] = "checked"
  /\ \/ /\ close \in {"open", "flagged"} /\ Len(ch) < BufferSize
        /\ ch' = Append(ch, r)
        /\ log' = [log EXCEPT ![r] = "chan"]
        /\ UNCHANGED dropped
     \/ /\ close \in {"open", "flagged"} /\ Len(ch) = BufferSize
        /\ Drop(r)
        /\ UNCHANGED ch
     \/ /\ close \notin {"open", "flagged"}
        /\ log' = [log EXCEPT ![r] = "panic"]
        /\ UNCHANGED <<ch, dropped>>
  /\ UNCHANGED <<close, work, logd, ready, rows, acked, harm>>

\* A worker's receive.
WorkerTake(w) ==
  /\ work[w] = None
  /\ ch # <<>>
  /\ work' = [work EXCEPT ![w] = Head(ch)]
  /\ log' = [log EXCEPT ![Head(ch)] = "worker"]
  /\ ch' = Tail(ch)
  /\ UNCHANGED <<close, dropped, logd, ready, rows, acked, harm>>

\* Publish.  An error goes to stderr and the record is gone; a message the
\* stream stores before the durable consumer exists is not delivered to it
\* (DeliverNewPolicy).
WorkerPublish(w) ==
  /\ work[w] # None
  /\ \/ /\ log' = [log EXCEPT ![work[w]] = "out"]
        /\ ready' = IF durable THEN ready \cup {work[w]} ELSE ready
        /\ UNCHANGED harm
     \/ /\ Goes("publish")
        /\ log' = [log EXCEPT ![work[w]] = "lost"]
        /\ UNCHANGED ready
  /\ work' = [work EXCEPT ![w] = None]
  /\ UNCHANGED <<ch, close, dropped, logd, rows, acked>>

\* Close: the flag, the channel, then the wait for the workers, which return
\* when the channel is closed and empty, or for the caller's deadline.
CloseFlag    == close = "open" /\ close' = "flagged"
CloseChannel == close = "flagged" /\ close' = "closed"
\* Mutant of CloseWait: Close does not wait for the workers.
CloseNoWait  == close = "closed" /\ close' = "done"
CloseWait    == /\ close = "closed"
                /\ \/ ch = <<>> /\ (\A w \in Worker : work[w] = None) /\ close' = "done"
                   \/ close' = "timeout"

Close == /\ CloseFlag \/ CloseChannel \/ CloseWait
         /\ UNCHANGED <<log, ch, dropped, work, logd, ready, rows, acked, harm>>

-----------------------------------------------------------------------------
(* logd: start, crash and restart *)

\* One step of run's start; if it fails the batcher is closed and the process
\* ends.
StartStep(from, to) ==
  /\ stage = from
  /\ \/ stage' = to /\ UNCHANGED harm
     \/ stage' = "down" /\ Goes("start")
  /\ conn' = (stage' # "down")
  /\ UNCHANGED <<handler, cb, tick, stop, ready, batch, sealed, buffered, table, acked>>

ConnectClickHouse == StartStep("down", "writer") /\ UNCHANGED durable
ConnectNATS       == StartStep("writer", "nats") /\ UNCHANGED durable
\* Create, or update when the name is in use.
EnsureStream      == StartStep("nats", "stream") /\ UNCHANGED durable
CreateConsumer    == StartStep("stream", "consumer") /\ durable' = (durable \/ stage' = "consumer")

Consume ==
  /\ stage = "consumer"
  /\ stage' = "run"
  /\ UNCHANGED <<handler, durable, cb, tick, stop, ready, rows, acked, harm>>

\* The process is gone with what it held; the stream delivers what was not
\* acknowledged again.
Ends ==
  /\ stage' = "down"
  /\ ready' = ready \cup ({cb.rec} \ {None})
  /\ cb' = Idle /\ tick' = "idle" /\ stop' = "no"
  /\ batch' = NoRows /\ sealed' = FALSE /\ conn' = FALSE /\ buffered' = 0
  /\ UNCHANGED <<handler, durable, table, acked>>

Crash == stage = "run" /\ Goes("crash") /\ Ends

-----------------------------------------------------------------------------
(* logd: the callback of the consumer, one message at a time *)

Deliver(r) ==
  /\ stage = "run"
  /\ cb = Idle
  /\ r \in ready
  /\ ready' = ready \ {r}
  /\ \/ cb' = [pc |-> "add", rec |-> r] /\ UNCHANGED harm
     \/ cb' = Idle /\ Goes("garbled")     \* not JSON: Term
  /\ UNCHANGED <<handler, stage, durable, tick, stop, rows, acked>>

\* Mutant of Nak: the message is given up.
NakTerm == cb' = Idle /\ UNCHANGED ready

Nak == cb' = Idle /\ ready' = ready \cup {cb.rec}

\* ensureBatch: there is a batch, or a new one can be prepared.
BatchUsable == conn /\ ~sealed

\* chWriter.Append
AppendRow(ok) ==
  IF ok THEN BatchUsable /\ batch' = [batch EXCEPT ![cb.rec] = @ + 1] /\ UNCHANGED harm
        ELSE (BatchUsable => Goes("append")) /\ (BatchUsable \/ UNCHANGED harm) /\ UNCHANGED batch

\* add, under the lock.
Add ==
  /\ cb.pc = "add"
  /\ \/ /\ AppendRow(TRUE)
        /\ buffered' = buffered + 1
        /\ cb' = [cb EXCEPT !.pc = IF buffered' >= MaxRows THEN "flush" ELSE "ack"]
        /\ UNCHANGED ready
     \/ AppendRow(FALSE) /\ Nak /\ UNCHANGED buffered
  /\ UNCHANGED <<handler, stage, durable, tick, stop, sealed, conn, table, acked>>

\* chWriter.Flush: a failed Send leaves the batch where it is; whether it can
\* be used again is up to the library.
Send(ok) ==
  IF ok
    THEN /\ ~sealed \/ batch = NoRows
         /\ table' = [r \in Record |-> table[r] + batch[r]]
         /\ batch' = NoRows
         /\ UNCHANGED <<sealed, harm>>
    ELSE /\ batch # NoRows
         /\ IF sealed THEN UNCHANGED <<sealed, harm>> ELSE Goes("send") /\ sealed' \in BOOLEAN
         /\ UNCHANGED <<batch, table>>

\* flushLocked for the callback: the write, then the count under the lock.
CallbackFlush ==
  /\ cb.pc = "flush"
  /\ \/ Send(TRUE) /\ cb' = [cb EXCEPT !.pc = "reset"] /\ UNCHANGED ready
     \/ Send(FALSE) /\ Nak
  /\ UNCHANGED <<handler, stage, durable, tick, stop, conn, buffered, acked>>

CallbackReset ==
  /\ cb.pc = "reset"
  /\ buffered' = 0
  /\ cb' = [cb EXCEPT !.pc = "ack"]
  /\ UNCHANGED <<handler, stage, durable, tick, stop, ready, batch, sealed, conn, table, acked, harm>>

\* The acknowledgement, which may come too late or get lost: the stream then
\* delivers the message again.
Ack ==
  /\ cb.pc = "ack"
  /\ cb' = Idle
  /\ \/ acked' = acked \cup {cb.rec} /\ UNCHANGED <<ready, harm>>
     \/ Goes("ack") /\ ready' = ready \cup {cb.rec} /\ UNCHANGED acked
  /\ UNCHANGED <<handler, stage, durable, tick, stop, rows>>

-----------------------------------------------------------------------------
(* logd: the ticker and the shutdown *)

\* tick looks at the count and the age under the lock, then flushes without it;
\* how old the batch is is left open.
\* Once run is signalled, the ticker starts no further tick.
Tick ==
  /\ stage = "run"
  /\ \/ /\ tick = "idle" /\ stop = "no" /\ buffered > 0
        /\ tick' = "flush"
        /\ UNCHANGED <<batch, sealed, table, buffered, harm>>
     \/ /\ tick = "flush"
        /\ \/ Send(TRUE) /\ tick' = "reset"
           \/ Send(FALSE) /\ tick' = "idle"
        /\ UNCHANGED buffered
     \/ /\ tick = "reset"
        /\ buffered' = 0
        /\ tick' = "idle"
        /\ UNCHANGED <<batch, sealed, table, harm>>
  /\ UNCHANGED <<handler, stage, durable, cb, stop, ready, conn, acked>>

\* close reads the count and flushes if it is positive; a failed flush leaves
\* the writer open.  The consumer is still running.
StopStep ==
  /\ stage = "run"
  /\ \/ /\ stop = "no"
        /\ Goes("signal")
        /\ stop' = IF buffered > 0 THEN "flush" ELSE "close"
        /\ UNCHANGED <<batch, sealed, buffered, table>>
     \/ /\ stop = "flush"
        /\ \/ Send(TRUE) /\ stop' = "reset"
           \/ Send(FALSE) /\ stop' = "exit"
        /\ UNCHANGED buffered
     \/ /\ stop = "reset"
        /\ buffered' = 0
        /\ stop' = "close"
        /\ UNCHANGED <<batch, sealed, table, harm>>
  /\ UNCHANGED <<handler, stage, durable, cb, tick, ready, conn, acked>>

\* Mutant of WriterClose: the batch is dropped with the connection.
WriterCloseDrops ==
  /\ stop = "close"
  /\ batch' = NoRows /\ sealed' = FALSE /\ conn' = FALSE
  /\ stop' = "exit"
  /\ UNCHANGED <<handler, stage, durable, cb, tick, ready, buffered, acked, table, harm>>

\* chWriter.Close sends what there is, ignoring an error, and closes the
\* connection.
WriterClose ==
  /\ stop = "close"
  /\ \/ Send(TRUE)
     \/ /\ batch # NoRows
        /\ IF sealed THEN UNCHANGED harm ELSE Goes("send")
        /\ batch' = NoRows /\ sealed' = FALSE
        /\ UNCHANGED table
  /\ stop' = "exit"
  /\ conn' = FALSE
  /\ UNCHANGED <<handler, stage, durable, cb, tick, ready, buffered, acked>>

\* run returns; a callback that is still busy is cut off.
Exit ==
  /\ stop = "exit"
  /\ harm' = [harm EXCEPT !["cut"] = IF cb = Idle THEN @ ELSE 1]
  /\ Ends

-----------------------------------------------------------------------------

Callback == CallbackFlush \/ CallbackReset \/ Add \/ Ack

Next ==
  \/ \E r \in Record : HandleCheck(r) \/ HandleSend(r) \/ Deliver(r)
  \/ \E w \in Worker : WorkerTake(w) \/ WorkerPublish(w)
  \/ Close
  \/ ConnectClickHouse \/ ConnectNATS \/ EnsureStream \/ CreateConsumer \/ Consume \/ Crash
  \/ Callback \/ Tick \/ StopStep \/ WriterClose \/ Exit

\* Goroutines that can run do run, and the stream delivers.
Fairness ==
  /\ \A r \in Record : WF_vars(Deliver(r))
  /\ WF_vars(Callback)

Spec     == Init /\ [][Next]_vars
FairSpec == Spec /\ Fairness

-----------------------------------------------------------------------------
(* Properties *)

\* "Close must flush" (sloghandler_test.go:228): when Close returns without an
\* error, no record is left in the channel or in a worker's hands, and a record
\* that finds the channel open or not yet closed is not taken after that.
CloseFlushes == close = "done" => \A r \in Record : log[r] \notin {"chan", "worker"}

\* What logd has acknowledged it has in a batch or has written, though the
\* message is acknowledged before the flush, the flush runs outside the lock
\* and the batcher is closed while messages still arrive.  Only a crash or a
\* failed Send may lose it.
NoAckedLoss ==
  Never({"crash", "send"}) => \A r \in acked : batch[r] + table[r] > 0

\* A row is written once, unless a write failed in doubt, an acknowledgement
\* was lost or the process ended between the write and the acknowledgement.
NoDuplicates ==
  Never({"send", "ack", "crash", "cut"}) => \A r \in Record : batch[r] + table[r] <= 1

\* The count is reset after the flush without looking what came in between
\* (writer.go:102), so a batch may grow over MaxRows, but not to twice that.
BatchBounded ==
  Never({"send", "signal"}) => RowCount(batch) <= 2 * MaxRows - 1

\* What the table gets: every acknowledged row, once, in bounded batches.
RowsKept == TypeOK /\ NoAckedLoss /\ NoDuplicates /\ BatchBounded

\* A message the stream holds is acknowledged in the end, through failed
\* appends and redeliveries, while logd runs and its writes succeed.
MessageHandled ==
  \A r \in Record :
    stage = "run" /\ r \in ready ~> r \in acked \/ ~Never({"crash", "send", "signal", "garbled"})

\* "drop and count, never panic" after Close (sloghandler_test.go:236), also
\* for a record that is logged while Close runs.
NeverPanics == \A r \in Record : log[r] # "panic"

\* The ticker "guarantees a flush within 1.5 maxAge at worst" (main.go:172):
\* rows that nobody is flushing are counted, else no tick ever sees them.
WaitingRowsCounted ==
  stage = "run" /\ stop = "no" /\ cb = Idle /\ tick = "idle" /\ batch # NoRows => buffered > 0
=============================================================================
