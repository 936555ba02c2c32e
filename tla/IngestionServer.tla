-------------------------- MODULE IngestionServer --------------------------
(***************************************************************************)
(* bb-monitor-ingestion-srv: ServerImpl's loop over one completion queue,  *)
(* the call_data objects of PutMetrics2, PutLogs2 and PutIntake2, and      *)
(* kafka_sink_factory with its three caches.  A call_data object waits     *)
(* (START) for a call, serves it and finishes it (FINISH), and is deleted  *)
(* by the event of its reply; the event's tag is its address.              *)
(*                                                                         *)
(* grant is the authorizer's present answer (module TopicAuthorizer); it   *)
(* may change between any two steps.  What becomes of a message that was   *)
(* pushed on a sink is in module KafkaSink.  gRPC is external: it hands a  *)
(* call to an object that waits for its method, queues events in no        *)
(* particular order, and reports ok = false for a reply it could not send. *)
(* ~ServerImpl shuts the server down once the loop has ended: what gRPC    *)
(* then queues (ok = false for the waiting objects) nobody reads, and is   *)
(* left out.  READING and READING_FAILED belong to the streaming calls,    *)
(* which are switched off.                                                 *)
(***************************************************************************)
EXTENDS Integers, Sequences, FiniteSets

CONSTANTS
  StartOrder, \* MonitorSink's calls, "metrics" among them, as HandleRpcs starts them
  Clients,    \* pairs of api key and secret
  Topics,     \* Kafka topics
  Missing,    \* topics without a leader in Kafka
  Denied,     \* authorize_write's answer for no permission
  Bundles,    \* requests: sequences of "value" and "novalue"
  MaxCalls,   \* bound: calls made
  MayStop     \* TRUE: SIGINT or SIGTERM may come

ASSUME OrderAssumption ==
  /\ StartOrder \in Seq(STRING)
  /\ \A i, j \in 1..Len(StartOrder) : StartOrder[i] = StartOrder[j] => i = j
ASSUME TopicsAssumption == Denied \notin Topics /\ Missing \subseteq Topics
ASSUME CallsAssumption == MaxCalls \in Nat /\ MayStop \in BOOLEAN
ASSUME BundlesAssumption == Bundles \subseteq Seq({"value", "novalue"})

VARIABLES
  grant,      \* authorize_write, per client and method
  calls,      \* the calls made, each with what its client sees of it
  objects,    \* the call_data objects, deleted ones included
  outstanding,\* what each object has asked of gRPC: the answers to come
  cq,         \* events ready on the completion queue: [tag, ok]
  cache,      \* _topic2producer_cache and its siblings: index in sinks or 0
  sinks,      \* the bb_kafka_sink objects and what was pushed on them
  run,        \* run
  pc          \* where HandleRpcs and then ~ServerImpl are

vars == <<grant, calls, objects, outstanding, cq, cache, sinks, run, pc>>

Methods == { StartOrder[i] : i \in 1..Len(StartOrder) }

\* A message is known by its call and its place in the bundle.
Message(k, i) == [call |-> k, index |-> i]

Waiting(m) == [method |-> m, status |-> "START", call |-> 0, reply |-> "none"]

-----------------------------------------------------------------------------
(* gRPC and its clients (external) *)

AuthorizerChanges ==
  /\ pc \in {"top", "next"}
  /\ \E c \in Clients, m \in Methods, t \in Topics \cup {Denied} :
       grant' = [grant EXCEPT ![<<c, m>>] = t]
  /\ UNCHANGED <<calls, objects, outstanding, cq, cache, sinks, run, pc>>

ClientCalls(c, m, b) ==
  /\ pc \in {"top", "next", "stopped"} /\ Len(calls) < MaxCalls
  /\ calls' = Append(calls, [client |-> c, method |-> m, bundle |-> b, state |-> "sent"])
  /\ UNCHANGED <<grant, objects, outstanding, cq, cache, sinks, run, pc>>

\* A call meets an object that waits for its method.
CallArrives(k, o) ==
  /\ pc \in {"top", "next", "stopped"}
  /\ calls[k].state = "sent" /\ calls[k].method = objects[o].method
  /\ "request" \in outstanding[o]
  /\ calls' = [calls EXCEPT ![k].state = "arrived"]
  /\ objects' = [objects EXCEPT ![o].call = k]
  /\ outstanding' = [outstanding EXCEPT ![o] = @ \ {"request"}]
  /\ cq' = cq \cup {[tag |-> o, ok |-> TRUE]}
  /\ UNCHANGED <<grant, cache, sinks, run, pc>>

\* The reply goes out, or its client has gone.
ReplySent(o, ok) ==
  /\ pc \in {"top", "next", "stopped", "shutdown"}
  /\ "finish" \in outstanding[o]
  /\ calls' = [calls EXCEPT ![objects[o].call].state = IF ok THEN objects[o].reply ELSE "lost"]
  /\ outstanding' = [outstanding EXCEPT ![o] = @ \ {"finish"}]
  /\ cq' = cq \cup {[tag |-> o, ok |-> ok]}
  /\ UNCHANGED <<grant, objects, cache, sinks, run, pc>>

-----------------------------------------------------------------------------
(* process_state *)

\* The messages of a bundle that are pushed: a metric whose sample has no
\* value is counted but not pushed.
Pushes(m, b) == { i \in 1..Len(b) : m # "metrics" \/ b[i] = "value" }

\* The loop over the messages of call k, up to the one at last.
PushUpTo(k, last) ==
  LET pushed[n \in 0..last] ==
        IF n = 0 THEN << >>
        ELSE IF n \in Pushes(calls[k].method, calls[k].bundle)
        THEN Append(pushed[n - 1], Message(k, n))
        ELSE pushed[n - 1]
  IN pushed[last]

\* Mutant: the loop stops one message early.
PushBundleShort(k) == PushUpTo(k, Len(calls[k].bundle) - 1)

PushBundle(k) == PushUpTo(k, Len(calls[k].bundle))

\* get_metrics_sink, get_log_sink, get_intake_sink, then the push of every
\* message: the topic's sink from the method's cache, or a new one.
UseSink(k, m, t) ==
  IF cache[m][t] # 0
    THEN /\ sinks' = [sinks EXCEPT ![cache[m][t]].msgs = @ \o PushBundle(k)]
         /\ UNCHANGED cache
    ELSE /\ sinks' = Append(sinks, [method |-> m, topic |-> t, msgs |-> PushBundle(k)])
         /\ cache' = [cache EXCEPT ![m][t] = Len(sinks) + 1]

\* Mutant: no successor is created.
ReplyWithoutSuccessor(o, answer) ==
  /\ objects' = [objects EXCEPT ![o].status = "FINISH", ![o].reply = answer]
  /\ outstanding' = [outstanding EXCEPT ![o] = @ \cup {"finish"}]

\* Mutant: the reply to a denied call is never asked for.
ReplyOnlyOk(o, answer) ==
  /\ objects' = Append([objects EXCEPT ![o].status = "FINISH", ![o].reply = answer],
                       Waiting(objects[o].method))
  /\ outstanding' = Append([outstanding EXCEPT
                              ![o] = @ \cup (IF answer = "ok" THEN {"finish"} ELSE {})],
                           {"request"})

\* A successor waits for the method's next call; responder_.Finish or
\* FinishWithError is asked of gRPC.
Reply(o, answer) ==
  /\ objects' = Append([objects EXCEPT ![o].status = "FINISH", ![o].reply = answer],
                       Waiting(objects[o].method))
  /\ outstanding' = Append([outstanding EXCEPT ![o] = @ \cup {"finish"}], {"request"})

\* cq_->Next returns an event; the object is in START.
ProcessStart(e) ==
  LET o == e.tag
      k == objects[o].call
      m == objects[o].method
      t == grant[<<calls[k].client, m>>]
  IN
  /\ pc = "next" /\ objects[o].status = "START"
  /\ \/ /\ t = Denied
        /\ Reply(o, "unauthenticated")
        /\ pc' = "top"
        /\ UNCHANGED <<cache, sinks>>
     \/ /\ t # Denied /\ (cache[m][t] # 0 \/ t \notin Missing)
        /\ UseSink(k, m, t)
        /\ Reply(o, "ok")
        /\ pc' = "top"
     \* kafka_producer's constructor: LOG(FATAL), no leader for the topic
     \/ /\ t # Denied /\ cache[m][t] = 0 /\ t \in Missing
        /\ pc' = "dead"
        /\ UNCHANGED <<objects, outstanding, cache, sinks>>
  /\ cq' = cq \ {e}
  /\ UNCHANGED <<grant, calls, run>>

\* The object is in FINISH, whether the reply went out or not: delete this.
ProcessFinish(e) ==
  /\ pc = "next" /\ objects[e.tag].status = "FINISH"
  /\ objects' = [objects EXCEPT ![e.tag].status = "deleted"]
  /\ cq' = cq \ {e}
  /\ pc' = "top"
  /\ UNCHANGED <<grant, calls, outstanding, cache, sinks, run>>

-----------------------------------------------------------------------------
(* HandleRpcs and main *)

\* while (run): cq_->Next blocks until there is an event.
LoopTop ==
  /\ pc = "top"
  /\ pc' = IF run THEN "next" ELSE "stopped"
  /\ UNCHANGED <<grant, calls, objects, outstanding, cq, cache, sinks, run>>

sigterm ==
  /\ MayStop /\ run /\ pc \in {"top", "next"}
  /\ run' = FALSE
  /\ UNCHANGED <<grant, calls, objects, outstanding, cq, cache, sinks, pc>>

\* The calls that are in one of the given states are broken off.
BreakOff(states) ==
  calls' = [k \in 1..Len(calls) |->
              IF calls[k].state \in states THEN [calls[k] EXCEPT !.state = "lost"] ELSE calls[k]]

\* ~ServerImpl: server_->Shutdown(), without a deadline.  Calls that no object
\* was given are refused; the others gRPC lets finish.
Shutdown ==
  /\ pc = "stopped"
  /\ pc' = "shutdown"
  /\ BreakOff({"sent"})
  /\ UNCHANGED <<grant, objects, outstanding, cq, cache, sinks, run>>

\* It returns when no call is left, and cq_->Shutdown() ends the destructor.
ShutdownReturns ==
  /\ pc = "shutdown"
  /\ \A k \in 1..Len(calls) : calls[k].state # "arrived"
  /\ pc' = "gone"
  /\ UNCHANGED <<grant, calls, objects, outstanding, cq, cache, sinks, run>>

\* The process has died: the operating system closes its connections.
ConnectionsBreak ==
  /\ pc = "dead"
  /\ \E k \in 1..Len(calls) : calls[k].state \in {"sent", "arrived"}
  /\ BreakOff({"sent", "arrived"})
  /\ UNCHANGED <<grant, objects, outstanding, cq, cache, sinks, run, pc>>

-----------------------------------------------------------------------------

\* HandleRpcs creates one waiting object per method.
Init ==
  /\ grant = [cm \in Clients \X Methods |-> Denied]
  /\ calls = << >>
  /\ objects = [i \in 1..Len(StartOrder) |-> Waiting(StartOrder[i])]
  /\ outstanding = [i \in 1..Len(StartOrder) |-> {"request"}]
  /\ cq = {}
  /\ cache = [m \in Methods |-> [t \in Topics |-> 0]]
  /\ sinks = << >>
  /\ run = TRUE
  /\ pc = "top"

Loop == LoopTop \/ \E e \in cq : ProcessStart(e) \/ ProcessFinish(e)

Grpc ==
  \/ \E k \in 1..Len(calls), o \in 1..Len(objects) : CallArrives(k, o)
  \/ \E o \in 1..Len(objects), ok \in BOOLEAN : ReplySent(o, ok)

Next ==
  \/ AuthorizerChanges
  \/ \E c \in Clients, m \in Methods, b \in Bundles : ClientCalls(c, m, b)
  \/ Grpc \/ Loop \/ sigterm \/ Shutdown \/ ShutdownReturns \/ ConnectionsBreak

(***************************************************************************)
(* The server's thread runs and gRPC delivers calls, replies and events;   *)
(* nobody has to call, stop the server or change an authorization.         *)
(***************************************************************************)
Fairness ==
  /\ WF_vars(Loop) /\ WF_vars(Grpc) /\ WF_vars(ConnectionsBreak)
  /\ WF_vars(Shutdown) /\ WF_vars(ShutdownReturns)

Spec == Init /\ [][Next]_vars
FairSpec == Spec /\ Fairness

-----------------------------------------------------------------------------
(* Properties *)

\* Every variable keeps its type.
TypeOK ==
  /\ grant \in [Clients \X Methods -> Topics \cup {Denied}]
  /\ calls \in Seq([client : Clients, method : Methods, bundle : Bundles,
                    state : {"sent", "arrived", "ok", "unauthenticated", "lost"}])
  /\ Len(calls) <= MaxCalls
  /\ objects \in Seq([method : Methods, status : {"START", "FINISH", "deleted"},
                      call : 0..Len(calls), reply : {"none", "ok", "unauthenticated"}])
  /\ outstanding \in [1..Len(objects) -> SUBSET {"request", "finish"}]
  /\ cq \subseteq [tag : 1..Len(objects), ok : BOOLEAN]
  /\ cache \in [Methods -> [Topics -> 0..Len(sinks)]]
  /\ sinks \in Seq([method : Methods, topic : Topics,
                    msgs : Seq([call : 1..Len(calls), index : Nat])])
  /\ run \in BOOLEAN
  /\ pc \in {"top", "next", "stopped", "shutdown", "gone", "dead"}

(***************************************************************************)
(* "Spawn a new CallData instance to serve new clients": at every moment   *)
(* exactly one object per method is in START, so a next call of each       *)
(* method can always be taken.                                             *)
(***************************************************************************)
OneWaitingObject ==
  pc # "dead" => \A m \in Methods :
    Cardinality({ o \in 1..Len(objects) : objects[o].method = m /\ objects[o].status = "START" }) = 1

(***************************************************************************)
(* "The instance will deallocate itself as part of its FINISH state": a    *)
(* live object has exactly one answer or event to come, so it is neither   *)
(* used after it was deleted nor leaked.                                   *)
(***************************************************************************)
OneEventPerObject ==
  /\ TypeOK
  /\ pc # "dead" => \A o \in 1..Len(objects) :
       Cardinality(outstanding[o]) + Cardinality({ e \in cq : e.tag = o })
         = IF objects[o].status = "deleted" THEN 0 ELSE 1

\* Where message i of call k is: a sink and a place in it.
Places(k, i) ==
  { p \in UNION { {s} \X (1..Len(sinks[s].msgs)) : s \in 1..Len(sinks) } :
      sinks[p[1]].msgs[p[2]] = Message(k, i) }

(***************************************************************************)
(* An "ok" reply means that each message of the call with a value is on    *)
(* one sink, once: the one that the method's cache still names for its     *)
(* topic, so that clients who share a topic share its producer.  A denied  *)
(* call leaves nothing on any sink, whatever the authorizer said before    *)
(* and after.                                                              *)
(***************************************************************************)
RepliesAreTrue ==
  \A k \in 1..Len(calls) : \A i \in 1..Len(calls[k].bundle) :
    /\ calls[k].state = "ok" =>
         Cardinality(Places(k, i)) =
           IF calls[k].method = "metrics" /\ calls[k].bundle[i] = "novalue" THEN 0 ELSE 1
    /\ calls[k].state = "unauthenticated" => Places(k, i) = {}
    /\ \A p \in Places(k, i) :
         /\ sinks[p[1]].method = calls[k].method
         /\ cache[calls[k].method][sinks[p[1]].topic] = p[1]

\* Call k was given to an object, but the loop ended before it took the event:
\* nobody serves it, and ~ServerImpl waits for it.
Unserved(k) ==
  pc = "shutdown" /\ \E o \in 1..Len(objects) : objects[o].call = k /\ objects[o].status = "START"

(***************************************************************************)
(* Every call ends, with a reply or with a broken connection: also one     *)
(* that was denied, that waits for its method's object, whose client has   *)
(* left, or whose reply was asked for when the loop ended.  The one        *)
(* exception is the pending call that HandleRpcs' "what about pending      *)
(* calls" asks about: delivered when the loop had ended, it stays open and *)
(* holds up the destructor.                                                *)
(***************************************************************************)
EveryCallEnds ==
  \A k \in 1..MaxCalls :
    (Len(calls) >= k) ~>
      (Len(calls) >= k /\ (\/ calls[k].state \in {"ok", "unauthenticated", "lost"}
                           \/ Unserved(k)))

(***************************************************************************)
(* "Exit flag for main loop": once SIGTERM has cleared run, the main loop  *)
(* ends.                                                                   *)
(***************************************************************************)
SigtermEndsLoop == ~run ~> pc \in {"stopped", "shutdown", "gone", "dead"}
=============================================================================
