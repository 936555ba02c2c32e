----------------------------- MODULE ClientSink -----------------------------
(***************************************************************************)
(* bb_metric_sink, bb_log_sink and bb_intake_sink: the proxies' way to the *)
(* ingestion server.  The proxy's threads push events on _queue; _thread   *)
(* moves them to in_rpc, sends a batch in one call, and passes them on to  *)
(* _pending_for_delete when the call succeeded; after a failure they go    *)
(* back to the front of _queue, one by one, for a retry 60 s later.  Only  *)
(* the metric sink purges its queue (Purges).  process() releases what is  *)
(* in _pending_for_delete.                                                 *)
(*                                                                         *)
(* The three queues are kspp::event_queue (external): each operation is    *)
(* atomic.  The call is external: the server may get the batch and the     *)
(* reply be lost.  The 60 s and 10 s timers are nondeterministic.          *)
(***************************************************************************)
EXTENDS Integers, Sequences, FiniteSets, SequencesExt

CONSTANTS
  MaxEvents,  \* bound: events pushed
  Nulls,      \* events whose record has no value
  BatchSize,  \* _batch_size
  MaxQueue,   \* _max_queue
  Purges,     \* TRUE: bb_metric_sink
  MayDestroy  \* TRUE: the sink may be destroyed

ASSUME SizesAssumption == MaxEvents \in Nat /\ BatchSize \in Nat \ {0} /\ MaxQueue \in Nat
ASSUME NullsAssumption == Nulls \subseteq Nat
ASSUME SwitchAssumption == Purges \in BOOLEAN /\ MayDestroy \in BOOLEAN

VARIABLES
  pushed,     \* number of events pushed; event n is the n-th
  queue,      \* _queue
  in_rpc,     \* in_rpc
  pending,    \* _pending_for_delete
  released,   \* events process() has let go
  purged,     \* events the purge has thrown away
  accepted,   \* events the server has taken
  taken,      \* the server has taken the batch of the current call
  waiting,    \* next_retry_at is in the future
  exit,       \* _exit
  flushing,   \* flush() is running
  pc          \* where _thread is

vars == <<pushed, queue, in_rpc, pending, released, purged, accepted, taken,
          waiting, exit, flushing, pc>>

Events == 1..MaxEvents

-----------------------------------------------------------------------------
(* The proxy's threads *)

push_back ==
  /\ ~exit /\ pushed < MaxEvents
  /\ pushed' = pushed + 1
  /\ queue' = Append(queue, pushed + 1)
  /\ UNCHANGED <<in_rpc, pending, released, purged, accepted, taken, waiting,
                 exit, flushing, pc>>

\* process(): called by the topology and by flush.
process ==
  /\ ~exit /\ pending # << >>
  /\ released' = released \cup ToSet(pending)
  /\ pending' = << >>
  /\ UNCHANGED <<pushed, queue, in_rpc, purged, accepted, taken, waiting,
                 exit, flushing, pc>>

\* Mutant: the batch in flight counts, and with it the null events that are
\* left in in_rpc when there is nothing to send.
EofCountsInRpc == queue = << >> /\ pending = << >> /\ in_rpc = << >>

eof == queue = << >> /\ pending = << >>

flush ==
  /\ ~exit /\ ~flushing
  /\ flushing' = TRUE
  /\ UNCHANGED <<pushed, queue, in_rpc, pending, released, purged, accepted,
                 taken, waiting, exit, pc>>

FlushReturns ==
  /\ ~exit /\ flushing /\ eof
  /\ flushing' = FALSE
  /\ UNCHANGED <<pushed, queue, in_rpc, pending, released, purged, accepted,
                 taken, waiting, exit, pc>>

\* The destructor; it returns when _thread has left its loop.
Destroy ==
  /\ MayDestroy /\ ~exit /\ ~flushing
  /\ exit' = TRUE
  /\ UNCHANGED <<pushed, queue, in_rpc, pending, released, purged, accepted,
                 taken, waiting, flushing, pc>>

-----------------------------------------------------------------------------
(* _thread *)

\* Mutant: the loop is left only with nothing in hand.
ThreadExitsEmptyHanded ==
  /\ pc = "top" /\ exit /\ in_rpc = << >>
  /\ pc' = "exited"
  /\ UNCHANGED <<pushed, queue, in_rpc, pending, released, purged, accepted,
                 taken, waiting, exit, flushing>>

\* while (!_exit)
ThreadExits ==
  /\ pc = "top" /\ exit
  /\ pc' = "exited"
  /\ UNCHANGED <<pushed, queue, in_rpc, pending, released, purged, accepted,
                 taken, waiting, exit, flushing>>

\* Mutant: one event too many is purged.
PurgeOneTooMany ==
  /\ Purges
  /\ pc = "top" /\ ~exit /\ waiting
  /\ Len(queue) > MaxQueue
  /\ LET items_to_purge == Len(queue) - MaxQueue + 1 IN
     /\ purged' = purged \cup { queue[i] : i \in 1..items_to_purge }
     /\ queue' = SubSeq(queue, items_to_purge + 1, Len(queue))
  /\ UNCHANGED <<pushed, in_rpc, pending, released, accepted, taken, waiting,
                 exit, flushing, pc>>

\* The purge takes from the front whatever exceeds _max_queue.
Purge ==
  /\ Purges
  /\ pc = "top" /\ ~exit /\ waiting
  /\ Len(queue) > MaxQueue
  /\ LET items_to_purge == Len(queue) - MaxQueue IN
     /\ purged' = purged \cup { queue[i] : i \in 1..items_to_purge }
     /\ queue' = SubSeq(queue, items_to_purge + 1, Len(queue))
  /\ UNCHANGED <<pushed, in_rpc, pending, released, accepted, taken, waiting,
                 exit, flushing, pc>>

\* next_retry_at has passed.
RetryTimeout ==
  /\ waiting
  /\ waiting' = FALSE
  /\ UNCHANGED <<pushed, queue, in_rpc, pending, released, purged, accepted,
                 taken, exit, flushing, pc>>

BeginBatch ==
  /\ pc = "top" /\ ~exit /\ queue # << >> /\ ~waiting
  /\ pc' = "batch"
  /\ UNCHANGED <<pushed, queue, in_rpc, pending, released, purged, accepted,
                 taken, waiting, exit, flushing>>

\* The events of in_rpc that have a value are the bundle.
Bundle == { i \in 1..Len(in_rpc) : in_rpc[i] \notin Nulls }
BatchFull == Cardinality(Bundle) >= BatchSize

BatchPop ==
  /\ pc = "batch" /\ queue # << >> /\ ~BatchFull
  /\ in_rpc' = Append(in_rpc, Head(queue))
  /\ queue' = Tail(queue)
  /\ UNCHANGED <<pushed, pending, released, purged, accepted, taken, waiting,
                 exit, flushing, pc>>

\* Mutant: a batch that is not full is not sent.
BatchEndSkips ==
  /\ pc = "batch" /\ (queue = << >> \/ BatchFull)
  /\ pc' = IF BatchFull THEN "rpc" ELSE "top"
  /\ taken' = FALSE
  /\ UNCHANGED <<pushed, queue, in_rpc, pending, released, purged, accepted,
                 waiting, exit, flushing>>

\* The call is skipped, and in_rpc kept, when there is nothing to send.
BatchEnd ==
  /\ pc = "batch" /\ (queue = << >> \/ BatchFull)
  /\ pc' = IF Bundle = {} THEN "top" ELSE "rpc"
  /\ taken' = FALSE
  /\ UNCHANGED <<pushed, queue, in_rpc, pending, released, purged, accepted,
                 waiting, exit, flushing>>

\* The server pushes the bundle on its own sink (external).
ServerTakes ==
  /\ pc = "rpc" /\ ~taken
  /\ taken' = TRUE
  /\ accepted' = accepted \cup { in_rpc[i] : i \in Bundle }
  /\ UNCHANGED <<pushed, queue, in_rpc, pending, released, purged, waiting,
                 exit, flushing, pc>>

\* push handled events forward
RpcOk ==
  /\ pc = "rpc" /\ taken
  /\ pending' = pending \o in_rpc
  /\ in_rpc' = << >>
  /\ pc' = "top"
  /\ UNCHANGED <<pushed, queue, released, purged, accepted, taken, waiting,
                 exit, flushing>>

\* Mutant: the events of a failed call are forwarded as handled.
RpcFailsForwards ==
  /\ pc = "rpc"
  /\ pending' = pending \o in_rpc
  /\ in_rpc' = << >>
  /\ waiting' = TRUE
  /\ pc' = "top"
  /\ UNCHANGED <<pushed, queue, released, purged, accepted, taken, exit, flushing>>

\* Mutant: the events of a failed call are retried and kept in in_rpc too.
RpcFailsKeeps ==
  /\ pc = "rpc"
  /\ queue' = Reverse(in_rpc) \o queue
  /\ waiting' = TRUE
  /\ pc' = "top"
  /\ UNCHANGED <<pushed, in_rpc, pending, released, purged, accepted, taken,
                 exit, flushing>>

\* A failed call, or a lost reply: each event of in_rpc, first to last, is
\* pushed on the front of _queue, which turns the batch round.
RpcFails ==
  /\ pc = "rpc"
  /\ queue' = Reverse(in_rpc) \o queue
  /\ in_rpc' = << >>
  /\ waiting' = TRUE
  /\ pc' = "top"
  /\ UNCHANGED <<pushed, pending, released, purged, accepted, taken, exit,
                 flushing>>

-----------------------------------------------------------------------------

Init ==
  /\ pushed = 0
  /\ queue = << >> /\ in_rpc = << >> /\ pending = << >>
  /\ released = {} /\ purged = {} /\ accepted = {}
  /\ taken = FALSE /\ waiting = FALSE /\ exit = FALSE /\ flushing = FALSE
  /\ pc = "top"

Thread == ThreadExits \/ Purge \/ BeginBatch \/ BatchPop \/ BatchEnd \/ RpcOk \/ RpcFails

Next ==
  \/ push_back \/ process \/ flush \/ FlushReturns \/ Destroy
  \/ Thread \/ RetryTimeout \/ ServerTakes

(***************************************************************************)
(* _thread and the topology's thread run; the timer goes off; a call       *)
(* always returns (gRPC keepalive ends dead connections), and a server     *)
(* that is called again and again takes the batch and replies in the end.  *)
(***************************************************************************)
Fairness ==
  /\ WF_vars(Thread)
  /\ WF_vars(process)
  /\ WF_vars(FlushReturns)
  /\ WF_vars(RetryTimeout)
  /\ SF_vars(ServerTakes)
  /\ SF_vars(RpcOk)

Spec == Init /\ [][Next]_vars
FairSpec == Spec /\ Fairness

-----------------------------------------------------------------------------
(* Properties *)

\* Every variable keeps its type.
TypeOK ==
  /\ pushed \in 0..MaxEvents
  /\ queue \in Seq(Events) /\ in_rpc \in Seq(Events) /\ pending \in Seq(Events)
  /\ released \subseteq Events /\ purged \subseteq Events /\ accepted \subseteq Events
  /\ taken \in BOOLEAN /\ waiting \in BOOLEAN /\ exit \in BOOLEAN /\ flushing \in BOOLEAN
  /\ pc \in {"top", "batch", "rpc", "exited"}

(***************************************************************************)
(* However calls fail and are retried, every event that was pushed is in   *)
(* exactly one place: queued, in the batch, handled, released or purged.   *)
(***************************************************************************)
EachInOnePlace ==
  /\ TypeOK
  /\ ToSet(queue) \cup ToSet(in_rpc) \cup ToSet(pending) \cup released \cup purged = 1..pushed
  /\ Len(queue) + Len(in_rpc) + Len(pending) + Cardinality(released) + Cardinality(purged) = pushed

(***************************************************************************)
(* Through any sequence of outages, put-backs and purges the purge gives   *)
(* up the excess only: once it has thrown something away, at least         *)
(* _max_queue of the events pushed are not lost to it.                     *)
(***************************************************************************)
PurgeTakesTheExcess == purged # {} => Cardinality(purged) + MaxQueue <= pushed

(***************************************************************************)
(* eof() ignores in_rpc, so flush may return, and the sink be destroyed,   *)
(* with events unsent: but never more than one batch, and only while its   *)
(* call is under way.                                                      *)
(***************************************************************************)
EofIsOneBatchBehind ==
  LET unsent == (1..pushed) \ (accepted \cup purged \cup Nulls) IN
  eof => /\ Cardinality(unsent) <= BatchSize
         /\ unsent # {} => pc \in {"batch", "rpc"}

(***************************************************************************)
(* The sink is an at-least-once stage: an event is given up only once the  *)
(* server has it; a lost reply makes the server get it again; nothing that *)
(* was given up is sent again.                                             *)
(***************************************************************************)
ALO == INSTANCE AtLeastOnce WITH
  Items <- Events, Markers <- Nulls,
  submitted <- 1..pushed, delivered <- accepted,
  done <- ToSet(pending) \cup released, dropped <- purged

\* The sink implements the at-least-once specification.
ImplementsAtLeastOnce == ALO!ASpec

(***************************************************************************)
(* Every event with a value reaches the server in the end, through any     *)
(* number of failed calls, unless it is purged or the sink destroyed.      *)
(***************************************************************************)
EventuallyAccepted ==
  \A e \in Events \ Nulls : (pushed >= e) ~> (e \in accepted \cup purged \/ exit)

\* flush() returns, even when the last events have no value and stay in in_rpc.
FlushEnds == flushing ~> ~flushing

\* The destructor's join returns: _thread leaves its loop in every state.
DestructorReturns == exit ~> (pc = "exited")
=============================================================================
