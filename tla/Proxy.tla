-------------------------------- MODULE Proxy --------------------------------
(***************************************************************************)
(* The five proxies: a front end (the log proxy's sessions, or restinio    *)
(* with a request handler) inserts events into a mem_stream_source; a      *)
(* thread runs the topology, which moves them to the client sink; main     *)
(* waits for the front end and then shuts down.  The programs differ in    *)
(* their handlers, in flushing, and in how main stops: program says which  *)
(* one runs.                                                               *)
(*                                                                         *)
(* restinio and the topology are external: a handler runs on one of a      *)
(* fixed number of threads, one that throws gets its connection closed,    *)
(* and restinio::run returns when restinio decides so (it has its own      *)
(* signal handling).  The sink is ClientSink seen from outside: it sends   *)
(* the head of its queue (a batch of one), again after a failure, and its  *)
(* eof does not count what is in a call.  The three programs with the      *)
(* metric sink lose events to its purge.  The metrics proxy's second       *)
(* source and sink, for intakes, work alike but for the purge, and one of  *)
(* each stands for both.                                                   *)
(***************************************************************************)
EXTENDS LogSession

CONSTANTS
  Programs,   \* the programs to look at
  Requests,   \* bound: HTTP requests
  MaxBody,    \* bound: events in the body of a request
  MaxQueue    \* _max_queue: what a purge leaves in the sink's queue

ASSUME ProgramsAssumption ==
  Programs \subseteq {"dd_log", "dd_metrics", "splunk", "pushgateway", "promstore"}
ASSUME RequestsAssumption ==
  Requests \subseteq Nat \ {0} /\ IsFiniteSet(Requests) /\ MaxBody \in Nat \ {0}
ASSUME QueueAssumption == MaxQueue \in Nat

VARIABLES
  program,    \* the program that runs
  run,        \* run
  main,       \* where main is: "start", "serving", "stopping", "ended", or
              \* "terminated": std::terminate
  req,        \* the state of a request
  topo,       \* where the topology's thread is: "none", "loop", "flush", "ended"
  flushed,    \* flush has ended because all was done (history)
  early,      \* events answered while run was set (history)
  sinkq,      \* the sink's queue
  inflight,   \* events in the sink's call
  delivered,  \* events the server has
  retrying,   \* the metric sink's call failed and is not made again yet: next_retry_at
  purged      \* events the sink has purged (history)

proxyVars == <<program, run, main, req, topo, flushed, early, sinkq, inflight, delivered,
               retrying, purged>>
vars == <<sessionVars, stream, proxyVars>>

Http == program # "dd_log"
\* The others have bb_log_sink, which does not purge.
MetricSink == program \in {"dd_metrics", "pushgateway", "promstore"}
\* on_this_thread, or the size of the pool.
Workers == IF program = "promstore" THEN 2 ELSE 1
Idle == [st |-> "none", left |-> 0, size |-> 0]
Events(r, n) == {<<r, k>> : k \in 1..n}
Answered(r) == req[r].st = "answered"

-----------------------------------------------------------------------------
(* main: options, topology, threads *)

\* Asked for help, or without an API key, main returns; otherwise the topology is
\* built and started and its thread runs.
Starts ==
  /\ main = "start"
  /\ \/ main' = "ended" /\ UNCHANGED topo
     \/ main' = "serving" /\ topo' = "loop"
  /\ UNCHANGED <<sessionVars, stream, program, run, req, flushed, early, sinkq, inflight,
                 delivered, retrying, purged>>

main_dd_log == program = "dd_log" /\ Starts
main_dd_metrics == program = "dd_metrics" /\ Starts
main_splunk == program = "splunk" /\ Starts
main_pushgateway == program = "pushgateway" /\ Starts
main_promstore == program = "promstore" /\ Starts

sigterm ==
  /\ main \in {"serving", "stopping"} /\ run
  /\ run' = FALSE
  /\ UNCHANGED <<sessionVars, stream, program, main, req, topo, flushed, early, sinkq,
                 inflight, delivered, retrying, purged>>

-----------------------------------------------------------------------------
(* The request handlers *)

reqOnly ==
  <<sessionVars, stream, program, run, main, topo, flushed, sinkq, inflight, delivered, retrying, purged>>

Arrives(r) ==
  /\ main = "serving" /\ req[r] = Idle
  /\ Cardinality({q \in Requests : req[q].st = "handling"}) < Workers

\* The body is decompressed and parsed before anything is inserted; either may
\* throw.
Body(r, sizes) ==
  /\ Arrives(r)
  /\ \/ \E n \in sizes : req' = [req EXCEPT ![r] = [st |-> "handling", left |-> n, size |-> n]]
     \/ req' = [req EXCEPT ![r].st = "closed"]
  /\ UNCHANGED <<reqOnly, early>>

Reply(r, status) ==
  /\ Arrives(r)
  /\ req' = [req EXCEPT ![r].st = status]
  /\ UNCHANGED <<reqOnly, early>>

\* series and check_run; intake; the calls that are not implemented and healthz;
\* any other path is rejected by the router.
handler_dd_metrics(r) ==
  /\ program = "dd_metrics"
  /\ \/ Body(r, 0..MaxBody) \/ Body(r, {1})
     \/ Reply(r, "answered") \/ Reply(r, "rejected")

\* event; healthz and OPTIONS; any other path is answered with 404.
handler_splunk(r) ==
  program = "splunk" /\ (Body(r, 0..MaxBody) \/ Reply(r, "answered") \/ Reply(r, "rejected"))

\* POST or PUT of a job; DELETE, which is accepted and never answered; the rest.
handler_pushgateway(r) ==
  program = "pushgateway" /\ (Body(r, 0..MaxBody) \/ Reply(r, "unanswered") \/ Reply(r, "rejected"))

\* POST of snappy data, or of other data, which is ignored; DELETE; the rest.
handler_promstore(r) ==
  program = "promstore" /\ (Body(r, 0..MaxBody) \/ Reply(r, "answered") \/ Reply(r, "rejected"))

insert(r) ==
  /\ main = "serving" /\ req[r].st = "handling" /\ req[r].left > 0
  /\ stream' = Append(stream, <<r, req[r].size - req[r].left + 1>>)
  /\ req' = [req EXCEPT ![r].left = @ - 1]
  /\ UNCHANGED <<sessionVars, program, run, main, topo, flushed, early, sinkq, inflight,
                 delivered, retrying, purged>>

\* Mutant: the request is answered before its events are inserted.
createResponseEarly(r) ==
  /\ main = "serving" /\ req[r].st = "handling"
  /\ req' = [req EXCEPT ![r].st = "answered"]
  /\ early' = IF run THEN early \cup Events(r, req[r].size) ELSE early
  /\ UNCHANGED reqOnly

create_response(r) ==
  /\ main = "serving" /\ req[r].st = "handling" /\ req[r].left = 0
  /\ req' = [req EXCEPT ![r].st = "answered"]
  /\ early' = IF run THEN early \cup Events(r, req[r].size) ELSE early
  /\ UNCHANGED reqOnly

-----------------------------------------------------------------------------
(* The topology's thread and the sink *)

topoOnly == <<sessionVars, program, run, main, req, early>>

\* topology->process: an event goes from the source to the sink.
process ==
  /\ main \in {"serving", "stopping"} /\ topo \in {"loop", "flush"} /\ stream # << >>
  /\ sinkq' = Append(sinkq, Head(stream))
  /\ stream' = Tail(stream)
  /\ UNCHANGED <<topoOnly, topo, flushed, inflight, delivered, retrying, purged>>

\* Mutant: the loop ends when there is nothing to do.
LeaveLoopIdle ==
  /\ main \in {"serving", "stopping"} /\ topo = "loop" /\ (~run \/ stream = << >>)
  /\ topo' = IF Http THEN "flush" ELSE "ended"
  /\ UNCHANGED <<topoOnly, stream, flushed, sinkq, inflight, delivered, retrying, purged>>

\* while (run): the HTTP proxies flush after it, the log proxy does not.
LeaveLoop ==
  /\ main \in {"serving", "stopping"} /\ topo = "loop" /\ ~run
  /\ topo' = IF Http THEN "flush" ELSE "ended"
  /\ UNCHANGED <<topoOnly, stream, flushed, sinkq, inflight, delivered, retrying, purged>>

\* Mutant: flush looks at the sink only.
FlushDoneSinkOnly == sinkq = << >>

FlushDone == stream = << >> /\ sinkq = << >>

\* topology->flush(true, 10000): all done, or 10 s are over.
flush_returns ==
  /\ main \in {"serving", "stopping"} /\ topo = "flush"
  /\ topo' = "ended"
  /\ flushed' \in {FALSE, FlushDone}
  /\ UNCHANGED <<topoOnly, stream, sinkq, inflight, delivered, retrying, purged>>

SinkSends ==
  /\ main \in {"serving", "stopping"} /\ sinkq # << >> /\ inflight = << >>
  /\ inflight' = <<Head(sinkq)>> /\ sinkq' = Tail(sinkq) /\ retrying' = FALSE
  /\ UNCHANGED <<topoOnly, stream, topo, flushed, delivered, purged>>

SinkSent ==
  /\ main \in {"serving", "stopping"} /\ inflight # << >>
  /\ delivered' = delivered \cup ToSet(inflight) /\ inflight' = << >>
  /\ UNCHANGED <<topoOnly, stream, topo, flushed, sinkq, retrying, purged>>

SinkFails ==
  /\ main \in {"serving", "stopping"} /\ inflight # << >>
  /\ sinkq' = inflight \o sinkq /\ inflight' = << >> /\ retrying' = MetricSink
  /\ UNCHANGED <<topoOnly, stream, topo, flushed, delivered, purged>>

\* Until the retry the metric sink drops what its queue has beyond _max_queue,
\* the oldest first: events that were answered for and never reach the server.
SinkPurges ==
  LET n == Len(sinkq) - MaxQueue IN
  /\ main \in {"serving", "stopping"} /\ MetricSink /\ retrying /\ n > 0
  /\ purged' = purged \cup {sinkq[i] : i \in 1..n}
  /\ sinkq' = SubSeq(sinkq, n + 1, Len(sinkq))
  /\ UNCHANGED <<topoOnly, stream, topo, flushed, inflight, delivered, retrying>>

-----------------------------------------------------------------------------
(* The end of main *)

\* Mutant: the log proxy leaves run set.
io_service_leftNoClear ==
  /\ program = "dd_log" /\ main = "serving" /\ thrown
  /\ main' = "stopping"
  /\ UNCHANGED <<sessionVars, stream, program, run, req, topo, flushed, early, sinkq,
                 inflight, delivered, retrying, purged>>

\* io_service.run() returns only when a handler throws: run is cleared.
io_service_left ==
  /\ program = "dd_log" /\ main = "serving" /\ thrown
  /\ main' = "stopping" /\ run' = FALSE
  /\ UNCHANGED <<sessionVars, stream, program, req, topo, flushed, early, sinkq, inflight,
                 delivered, retrying, purged>>

\* The server's constructor throws, as when the port is in use: the same way out.
server_throws ==
  /\ program = "dd_log" /\ main = "serving" /\ socket = "new"
  /\ main' = "stopping" /\ run' = FALSE
  /\ UNCHANGED <<sessionVars, stream, program, req, topo, flushed, early, sinkq, inflight,
                 delivered, retrying, purged>>

\* restinio::run returns with run as it is, or throws, which clears it; in the
\* Prometheus write proxy a throw ends main with its thread not joined.
restinio_left ==
  /\ Http /\ main = "serving"
  /\ \/ main' = "stopping" /\ UNCHANGED run
     \/ program # "promstore" /\ main' = "stopping" /\ run' = FALSE
     \/ program = "promstore" /\ main' = "terminated" /\ UNCHANGED run
  /\ UNCHANGED <<sessionVars, stream, program, req, topo, flushed, early, sinkq, inflight,
                 delivered, retrying, purged>>

Joins == program \in {"dd_log", "promstore"}

\* t.join() where there is one, commit, close, return.  Without a join the thread
\* is destroyed while it is joinable.
main_returns ==
  /\ main = "stopping" /\ (Joins => topo = "ended")
  /\ main' = IF Joins THEN "ended" ELSE "terminated"
  /\ UNCHANGED <<sessionVars, stream, program, run, req, topo, flushed, early, sinkq,
                 inflight, delivered, retrying, purged>>

-----------------------------------------------------------------------------
Init ==
  /\ SessionInit
  /\ program \in Programs /\ run = TRUE /\ main = "start"
  /\ (program # "dd_log" => wire = << >>)
  /\ req = [r \in Requests |-> Idle]
  /\ topo = "none" /\ flushed = FALSE /\ early = {} /\ sinkq = << >> /\ inflight = << >>
  /\ delivered = {} /\ retrying = FALSE /\ purged = {}

\* The session is alive while io_service.run() is.
Alive == program = "dd_log" /\ main = "serving" /\ ~thrown
Session(A) == Alive /\ A /\ UNCHANGED proxyVars

Next ==
  \/ main_dd_log \/ main_dd_metrics \/ main_splunk \/ main_pushgateway \/ main_promstore
  \/ sigterm \/ io_service_left \/ server_throws \/ restinio_left \/ main_returns
  \/ process \/ LeaveLoop \/ flush_returns \/ SinkSends \/ SinkSent \/ SinkFails \/ SinkPurges
  \/ Session(handle_accept) \/ Session(PeerCloses) \/ Session(ReadCompletes)
  \/ Session(TimerExpires) \/ Session(handle_read) \/ Session(handle_read_error)
  \/ Session(handle_connection_dead_timer) \/ Session(session_destroyed)
  \/ \E r \in Requests :
       \/ handler_dd_metrics(r) \/ handler_splunk(r) \/ handler_pushgateway(r) \/ handler_promstore(r)
       \/ insert(r) \/ create_response(r)

Spec == Init /\ [][Next]_vars

\* Every thread runs on: main, the handlers, the topology's and the sink's.  The
\* timer expires and the socket's completions come, since asio runs them.  The
\* server is reachable again and again.  Nothing makes a peer or a signal act.
FairSpec ==
  /\ Spec
  /\ WF_vars(Starts) /\ WF_vars(io_service_left) /\ WF_vars(main_returns)
  /\ WF_vars(process) /\ WF_vars(LeaveLoop) /\ WF_vars(flush_returns)
  /\ WF_vars(SinkSends) /\ SF_vars(SinkSent)
  /\ \A r \in Requests : WF_vars(insert(r)) /\ WF_vars(create_response(r))
  /\ WF_vars(Session(TimerExpires)) /\ WF_vars(Session(ReadCompletes)) /\ WF_vars(Session(Handlers))

-----------------------------------------------------------------------------
(* Properties *)

AllEvents == ((Requests \cup {0}) \X Nat)

\* Every variable keeps its type.
TypeOK ==
  /\ peer \in BOOLEAN /\ reading \in BOOLEAN /\ timer \in BOOLEAN /\ thrown \in BOOLEAN
  /\ socket \in {"new", "open", "closed", "freed"}
  /\ program \in Programs /\ run \in BOOLEAN
  /\ main \in {"start", "serving", "stopping", "ended", "terminated"}
  /\ req \in [Requests -> [st : {"none", "handling", "answered", "closed", "rejected", "unanswered"},
                           left : 0..MaxBody, size : 0..MaxBody]]
  /\ topo \in {"none", "loop", "flush", "ended"}
  /\ retrying \in BOOLEAN
  /\ \A e \in ToSet(stream \o sinkq \o inflight) \cup delivered \cup purged \cup early :
       e \in AllEvents

Count(s, e) == Cardinality({i \in DOMAIN s : s[i] = e})

\* An event that was answered for is in exactly one place on its way: in the
\* source, in the sink's queue, in its call, at the server, or, with the metric
\* sink, among the purged.  So a purge is the only way to lose one, and the two
\* programs with the log sink lose none.  A lost answer of the server is the only
\* way to have one twice, and that is ClientSink's matter.
AnsweredIsKept ==
  /\ TypeOK
  /\ purged # {} => MetricSink
  /\ \A r \in Requests : Answered(r) =>
       \A e \in Events(r, req[r].size) :
         Count(stream, e) + Count(sinkq, e) + Count(inflight, e)
           + (IF e \in delivered THEN 1 ELSE 0) + (IF e \in purged THEN 1 ELSE 0) = 1

\* When flush has ended because all was done, what was answered before run was
\* cleared is at the server or was purged, but for the one batch that was in the
\* sink's call then: eof does not count it, and if the call fails nobody waits for
\* the retry.
FlushedIsOut ==
  flushed => /\ early \cap ToSet(stream) = {}
             /\ Cardinality(early \ (delivered \cup purged)) <= 1

Inserted == {<<r, k>> : r \in Requests, k \in 1..MaxBody}
            \cup {LineEvent(n) : n \in UNION {1..LFs(w) : w \in Wires}}

\* An event in the source, so every event of an answered request and every line
\* inserted, reaches the server though calls fail, unless run is cleared or the
\* front end is left first, or the metric sink purges it.
InsertedIsDelivered ==
  \A e \in Inserted :
    e \in ToSet(stream) ~> \/ e \in delivered \/ (MetricSink /\ e \in purged)
                           \/ ~run \/ main # "serving"

\* A connection whose peer falls silent or goes away is closed and its session
\* freed, whichever of the timer and the reads comes first.
SessionEnds == socket = "open" ~> socket = "freed" \/ thrown \/ main = "ended"

\* Once the front end is left main ends, unless it is the Prometheus write proxy
\* whose run nobody has cleared: the thread it joins does not end then.
MainEnds == main = "stopping" ~> main \in {"ended", "terminated"} \/ (program = "promstore" /\ run)

=============================================================================
