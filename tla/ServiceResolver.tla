--------------------------- MODULE ServiceResolver ---------------------------
(***************************************************************************)
(* service_resolver: DNS lookups over c-ares.  Callers put queries on      *)
(* _channel under _io_mutex; run_task's thread drives the channel with     *)
(* ares_fds, select and ares_process, the last of which calls the ares_*   *)
(* callbacks with the mutex held; these only post to _ios, whose thread    *)
(* runs the caller's callback.  get_sockaddr_by_srv makes its second       *)
(* lookup there.                                                           *)
(*                                                                         *)
(* c-ares is external: a query on the channel that ares_process works on   *)
(* is answered, timed out or failed, with one call of its callback;        *)
(* ares_destroy does so for every query still on the channel.  _ios runs   *)
(* what is posted in order, on one thread.  An answer is a packet: a       *)
(* status, whether its question parses, and its resource records.          *)
(***************************************************************************)
EXTENDS Integers, Sequences, FiniteSets, SequencesExt

CONSTANTS
  Calls,       \* the calls that are made
  SyncCalls,   \* those made with a synchronous form
  MaxRR,       \* bound: resource records of an answer
  MaxChannels  \* bound: channels, those that set_dns_server opens included

ASSUME CallsAssumption == IsFiniteSet(Calls) /\ SyncCalls \subseteq Calls
ASSUME BoundAssumption == MaxRR \in Nat /\ MaxChannels \in Nat \ {0}

VARIABLES
  is_init,     \* "no", "yes" (_is_init) or "failed": the constructor returned early
  channel,     \* _channel, counted
  mutex,       \* _io_mutex is held by ares_process
  kind,        \* which lookup a call is
  query,       \* query[c]: the lookup of call c that is on a channel
  seen,        \* seen[c]: the records of c's SRV answer (history)
  ios,         \* callbacks posted to _ios
  result,      \* what a call's callback was given
  fired,       \* how often a call's callback has run
  blocked,     \* callers of the synchronous forms that wait for their future
  pc,          \* where run_task is
  processing,  \* the channel ares_process works on
  time_to_die, \* _time_to_die
  destroyed,   \* the destructor has returned
  crashed      \* something was used that is not there

vars == <<is_init, channel, mutex, kind, query, seen, ios, result, fired, blocked,
          pc, processing, time_to_die, destroyed, crashed>>

lookupVars == <<kind, query, seen, ios, result, fired, blocked>>
ownerVars == <<is_init, channel, time_to_die, destroyed, crashed>>
taskVars == <<mutex, pc, processing>>

\* query_srv; get_host_by_name, or get_sockaddr_by_name with "host:port";
\* get_sockaddr_by_srv, or get_sockaddr_by_name with "srv://"; and
\* get_sockaddr_by_name with a name that has no port.
Kinds == {"query_srv", "host", "srv", "bad"}

\* A resource record is SRV, or ends the parse: its name or target cannot be
\* expanded, it is cut short, or it is of another type.  The target and port of
\* the n-th record go by the number n, those of the call itself by 0.
RRs == {"srv", "broken"}

Packets == [status : {"ok"}, question : {TRUE}, rrs : SeqOf(RRs, MaxRR)]
           \cup [status : {"ok"}, question : {FALSE}, rrs : {<<"srv">>}]
           \cup [status : {"error"}, question : {TRUE}, rrs : {<< >>}]

None == [chan |-> 0, what |-> "none", of |-> 0]

\* A callback gets "ok" for 0, "error" for a c-ares status or -1.
NoResult == [ec |-> "none", v |-> << >>]
Pending(ch) == {c \in Calls : query[c].chan = ch}
Started(c) == kind[c] # "none"

-----------------------------------------------------------------------------
(* The constructor *)

service_resolver ==
  /\ is_init = "no"
  /\ \/ is_init' = "yes" /\ channel' = 1
     \/ is_init' = "failed" /\ UNCHANGED channel
  /\ UNCHANGED <<lookupVars, taskVars, time_to_die, destroyed, crashed>>

\* set_dns_server(): a new channel takes the place of _channel, with no lock
\* held and the old one left as it is; what fails after that is only reported.
set_dns_server ==
  /\ is_init # "no" /\ ~destroyed /\ channel < MaxChannels
  /\ channel' = channel + 1
  /\ UNCHANGED <<lookupVars, taskVars, is_init, time_to_die, destroyed, crashed>>

-----------------------------------------------------------------------------
(* The callers *)

\* Mutant: the callback runs where the answer arrives, under the mutex, and a
\* callback that looks up a host waits for that mutex.
postInline(c, what, ec, v) ==
  IF what = "srv" /\ kind[c] = "srv" /\ ec = "ok" /\ v # << >>
  THEN pc' = "selflock" /\ UNCHANGED ios
  ELSE pc' = pc /\ ios' = Append(ios, [call |-> c, what |-> what, ec |-> ec, v |-> v])

\* do_cb() and the posts of ares_hostbyname_callback and get_sockaddr_by_name.
post(c, what, ec, v) ==
  /\ ios' = Append(ios, [call |-> c, what |-> what, ec |-> ec, v |-> v])
  /\ pc' = pc

FirstLookup(k) == IF k \in {"query_srv", "srv"} THEN "srv" ELSE "host"

\* What c-ares may answer before ares_query or ares_gethostbyname returns: an
\* error, or the address where the host's name is one.
AtOnce(what, of) ==
  {[ec |-> "error", v |-> << >>]}
  \cup (IF what = "host" THEN {[ec |-> "ok", v |-> <<of>>]} ELSE {})

\* A call of one of the asynchronous forms, or of a synchronous one, whose caller
\* then waits for the callback to fill its promise.  c-ares may end a query at
\* once; it calls the callback then and there.  Without a channel (its
\* initialisation failed) the call uses an uninitialised one.
Call(c) ==
  /\ is_init # "no" /\ ~destroyed /\ ~crashed /\ ~Started(c)
  /\ \E k \in Kinds :
       /\ kind' = [kind EXCEPT ![c] = k]
       /\ blocked' = IF c \in SyncCalls THEN blocked \cup {c} ELSE blocked
       /\ \/ k = "bad" /\ post(c, "end", "error", << >>) /\ UNCHANGED <<query, crashed>>
          \/ /\ k # "bad" /\ ~mutex
             /\ IF channel = 0
                THEN crashed' = TRUE /\ UNCHANGED <<query, ios, pc>>
                ELSE /\ UNCHANGED crashed
                     /\ \/ /\ query' = [query EXCEPT ![c] = [chan |-> channel, of |-> 0,
                                                             what |-> FirstLookup(k)]]
                           /\ UNCHANGED <<ios, pc>>
                        \/ /\ \E a \in AtOnce(FirstLookup(k), 0) : post(c, FirstLookup(k), a.ec, a.v)
                           /\ UNCHANGED query
  /\ UNCHANGED <<is_init, channel, mutex, seen, result, fired, processing,
                 time_to_die, destroyed>>

\* f.get() of the synchronous forms.
future_get(c) ==
  /\ c \in blocked /\ fired[c] > 0
  /\ blocked' = blocked \ {c}
  /\ UNCHANGED <<ownerVars, taskVars, kind, query, seen, ios, result, fired>>

-----------------------------------------------------------------------------
(* c-ares' callbacks, under the mutex *)

\* Mutant: a record that is not SRV ends the answer with the packet's status.
parse_rrsNoError(rrs) ==
  LET good == {n \in DOMAIN rrs : \A i \in 1..n : rrs[i] = "srv"}
  IN [ec |-> "ok", v |-> [i \in 1..Cardinality(good) |-> i]]

\* The answer section: records are collected up to the first that is not SRV.
parse_rrs(rrs) ==
  LET good == {n \in DOMAIN rrs : \A i \in 1..n : rrs[i] = "srv"}
  IN [ec |-> IF good = DOMAIN rrs THEN "ok" ELSE "error",
      v |-> [i \in 1..Cardinality(good) |-> i]]

\* A packet whose question does not parse is passed on with its status, ok.
parse_srv(p) ==
  IF p.status # "ok" THEN [ec |-> p.status, v |-> << >>]
  ELSE IF ~p.question THEN [ec |-> "ok", v |-> << >>]
  ELSE parse_rrs(p.rrs)

ares_srv_callback(c) ==
  /\ pc = "processing" /\ query[c].chan = processing /\ query[c].what = "srv"
  /\ \E p \in Packets :
       /\ post(c, "srv", parse_srv(p).ec, parse_srv(p).v)
       /\ seen' = [seen EXCEPT ![c] = p.rrs]
  /\ query' = [query EXCEPT ![c] = None]
  /\ UNCHANGED <<ownerVars, mutex, kind, result, fired, blocked, processing>>

\* Mutant: the return after the failure is missing.
ares_hostbyname_callbackNoReturn(c) ==
  /\ pc = "processing" /\ query[c].chan = processing /\ query[c].what = "host"
  /\ ios' = ios \o [i \in 1..2 |-> [call |-> c, what |-> "host", ec |-> "error", v |-> << >>]]
  /\ query' = [query EXCEPT ![c] = None]
  /\ UNCHANGED <<ownerVars, mutex, pc, kind, seen, result, fired, blocked, processing>>

\* The addresses of a host, each given the port of the lookup (of): one stands
\* for all.
ares_hostbyname_callback(c) ==
  /\ pc = "processing" /\ query[c].chan = processing /\ query[c].what = "host"
  /\ \/ post(c, "host", "ok", <<query[c].of>>)
     \/ post(c, "host", "error", << >>)
  /\ query' = [query EXCEPT ![c] = None]
  /\ UNCHANGED <<ownerVars, mutex, kind, seen, result, fired, blocked, processing>>

-----------------------------------------------------------------------------
(* The thread of _ios *)

\* The callback given to get_sockaddr_by_srv's query_srv goes on to the host of
\* the first record; every other callback is the caller's.
NeedsHost(m) == m.what = "srv" /\ kind[m.call] = "srv" /\ m.ec = "ok" /\ m.v # << >>

Deliver(m) ==
  /\ result' = [result EXCEPT ![m.call] = [ec |-> m.ec,
                                           v |-> IF kind[m.call] = "srv" /\ m.what = "srv"
                                                 THEN << >> ELSE m.v]]
  /\ fired' = [fired EXCEPT ![m.call] = @ + 1]

run_one ==
  /\ ios # << >> /\ ~crashed
  /\ LET m == Head(ios) IN
       /\ IF NeedsHost(m)
          THEN /\ UNCHANGED <<result, fired>>
               /\ IF destroyed
                  THEN crashed' = TRUE /\ UNCHANGED query /\ ios' = Tail(ios)
                  ELSE /\ ~mutex
                       /\ UNCHANGED crashed
                       /\ \/ /\ query' = [query EXCEPT ![m.call] =
                                  [chan |-> channel, what |-> "host", of |-> m.v[1]]]
                             /\ ios' = Tail(ios)
                          \/ /\ UNCHANGED query
                             /\ \E a \in AtOnce("host", m.v[1]) :
                                  ios' = Append(Tail(ios), [call |-> m.call, what |-> "host",
                                                            ec |-> a.ec, v |-> a.v])
          ELSE Deliver(m) /\ ios' = Tail(ios) /\ UNCHANGED <<query, crashed>>
  /\ UNCHANGED <<is_init, channel, time_to_die, destroyed, taskVars, kind, seen, blocked>>

-----------------------------------------------------------------------------
(* run_task *)

\* The wait for _is_init, and the test of _time_to_die at the top of the loop.
run_task_loop ==
  /\ \/ pc = "wait" /\ is_init = "yes" /\ pc' = "top"
     \/ pc = "top" /\ pc' = IF time_to_die THEN "exited" ELSE "fds"
  /\ UNCHANGED <<ownerVars, lookupVars, mutex, processing>>

\* Mutant: with nothing to wait for, the inner loop goes round again.
run_task_fdsSpin ==
  /\ pc = "fds" /\ ~mutex
  /\ pc' = IF Pending(channel) = {} THEN "fds" ELSE "timeout"
  /\ UNCHANGED <<ownerVars, lookupVars, mutex, processing>>

\* ares_fds and the way out of the inner loop.
run_task_fds ==
  /\ pc = "fds" /\ ~mutex
  /\ pc' = IF Pending(channel) = {} THEN "top" ELSE "timeout"
  /\ UNCHANGED <<ownerVars, lookupVars, mutex, processing>>

\* ares_timeout, no lock held, of what is _channel by now: with no query on it
\* the timeout is NULL, and select() waits for the sockets of ares_fds alone.
run_task_timeout ==
  /\ pc = "timeout"
  /\ pc' = IF Pending(channel) = {} THEN "forever" ELSE "select"
  /\ UNCHANGED <<ownerVars, lookupVars, mutex, processing>>

\* One of those sockets becomes readable (external): it may or may not.
select_readable ==
  /\ pc = "forever"
  /\ pc' = "select"
  /\ UNCHANGED <<ownerVars, lookupVars, mutex, processing>>

\* select() has returned: ares_process begins with the mutex held.
run_task_process ==
  /\ pc = "select" /\ ~mutex
  /\ pc' = "processing" /\ mutex' = TRUE /\ processing' = channel
  /\ UNCHANGED <<ownerVars, lookupVars>>

run_task_processed ==
  /\ pc = "processing"
  /\ pc' = "fds" /\ mutex' = FALSE
  /\ UNCHANGED <<ownerVars, lookupVars, processing>>

-----------------------------------------------------------------------------
(* The owner *)

close ==
  /\ is_init # "no" /\ ~time_to_die
  /\ time_to_die' = TRUE
  /\ UNCHANGED <<is_init, channel, destroyed, crashed, lookupVars, taskVars>>

\* Mutant: the channel is left as it is.
ares_destroyLeak ==
  /\ pc = "exited" /\ ~destroyed /\ ~crashed
  /\ destroyed' = TRUE
  /\ UNCHANGED <<is_init, channel, time_to_die, crashed, taskVars, lookupVars>>

\* The destructor after close() has joined the thread: ares_destroy ends what is
\* still on the channel.
ares_destroy ==
  /\ pc = "exited" /\ ~destroyed /\ ~crashed
  /\ destroyed' = TRUE
  /\ ios' = ios \o SetToSeq({[call |-> c, what |-> query[c].what, ec |-> "error", v |-> << >>] :
                             c \in Pending(channel)})
  /\ query' = [c \in Calls |-> IF c \in Pending(channel) THEN None ELSE query[c]]
  /\ UNCHANGED <<is_init, channel, time_to_die, crashed, taskVars, kind, seen, result,
                 fired, blocked>>

-----------------------------------------------------------------------------
Init ==
  /\ is_init = "no" /\ channel = 0 /\ mutex = FALSE
  /\ kind = [c \in Calls |-> "none"]
  /\ query = [c \in Calls |-> None]
  /\ seen = [c \in Calls |-> << >>]
  /\ ios = << >>
  /\ result = [c \in Calls |-> NoResult]
  /\ fired = [c \in Calls |-> 0]
  /\ blocked = {}
  /\ pc = "wait" /\ processing = 0
  /\ time_to_die = FALSE /\ destroyed = FALSE /\ crashed = FALSE

run_task ==
  \/ run_task_loop \/ run_task_fds \/ run_task_timeout
  \/ run_task_process \/ run_task_processed

Next ==
  \/ service_resolver \/ set_dns_server \/ close \/ ares_destroy
  \/ run_task \/ select_readable \/ run_one
  \/ \E c \in Calls : Call(c) \/ future_get(c) \/ ares_srv_callback(c)
                        \/ ares_hostbyname_callback(c)

Spec == Init /\ [][Next]_vars

\* The constructor and the two threads run on; c-ares ends every query that
\* ares_process is called for again and again, by its timeouts if not before.
\* Nothing makes anybody call, close or destroy, and nothing makes a socket
\* readable.
FairSpec ==
  /\ Spec
  /\ WF_vars(service_resolver) /\ WF_vars(run_task) /\ WF_vars(run_one)
  /\ \A c \in Calls : /\ WF_vars(future_get(c))
                       /\ SF_vars(ares_srv_callback(c))
                       /\ SF_vars(ares_hostbyname_callback(c))

-----------------------------------------------------------------------------
(* Properties *)

Messages == [call : Calls, what : {"srv", "host", "end"}, ec : {"ok", "error"},
             v : Seq(0..MaxRR)]

\* Every variable keeps its type.
TypeOK ==
  /\ is_init \in {"no", "yes", "failed"} /\ channel \in 0..MaxChannels
  /\ mutex \in BOOLEAN
  /\ kind \in [Calls -> Kinds \cup {"none"}]
  /\ query \in [Calls -> [chan : 0..MaxChannels, what : {"none", "srv", "host"},
                          of : 0..MaxRR]]
  /\ seen \in [Calls -> Seq(RRs)]
  /\ ios \in Seq(Messages)
  /\ result \in [Calls -> [ec : {"none", "ok", "error"}, v : Seq(0..MaxRR)]]
  /\ fired \in [Calls -> 0..1] /\ blocked \subseteq Calls
  /\ pc \in {"wait", "top", "fds", "timeout", "forever", "select", "processing", "exited"}
  /\ processing \in 0..MaxChannels
  /\ time_to_die \in BOOLEAN /\ destroyed \in BOOLEAN /\ crashed \in BOOLEAN

Posted(c) == Cardinality({i \in DOMAIN ios : ios[i].call = c})
OnChannel(c) == IF query[c].chan # 0 THEN 1 ELSE 0

\* Until something is used after its end, a call is in one place: on a channel,
\* posted, or answered by one call of its callback.  The two lookups of
\* get_sockaddr_by_srv hand it on without losing or doubling it, and so do the
\* callbacks that ares_destroy makes.
EachCallInOnePlace ==
  /\ TypeOK
  /\ crashed \/ \A c \in Calls :
       Started(c) => OnChannel(c) + Posted(c) + fired[c] = 1

AllSRV(rrs) == "broken" \notin ToSet(rrs)

\* What c's callback was given, if it is a success with something in it, is the
\* whole of c's answer.
Whole(c) ==
  fired[c] > 0 /\ result[c].ec = "ok" /\ result[c].v # << >> =>
    CASE kind[c] = "query_srv" -> AllSRV(seen[c]) /\ Len(result[c].v) = Len(seen[c])
      [] kind[c] = "srv"       -> AllSRV(seen[c]) /\ result[c].v = <<1>>
      [] kind[c] = "host"      -> result[c].v = <<0>>
      [] OTHER                 -> FALSE

\* What a call reports as success is its own: query_srv gives every record of an
\* answer that has SRV records only, and get_sockaddr_by_srv the first one's
\* target and port; neither takes part of a broken answer for the whole.  (An
\* answer whose question does not parse is reported as success with no record.)
SuccessIsWhole == \A c \in Calls : Whole(c)

\* A query is left on a channel that set_dns_server has replaced.
Orphan(c) == query[c].chan \notin {0, channel}

\* run_task always gets out of a select() that it entered without a timeout.
SelectReturns == []<>(pc # "forever")

(***************************************************************************)
(* While the resolver is open every call ends and its caller goes on,      *)
(* whatever the order of its lookups and the others': the callbacks never  *)
(* wait for the mutex that the thread calling them holds.  Two uses of the *)
(* resolver spoil this.  A call whose query is on the channel when         *)
(* set_dns_server replaces it may wait for ever, and if that happens       *)
(* between ares_fds and ares_timeout so may all others (not                *)
(* SelectReturns); and every call waits after a failed initialisation.     *)
(***************************************************************************)
CallsEnd ==
  SelectReturns =>
    \A c \in Calls :
      Started(c) ~> (fired[c] > 0 /\ c \notin blocked)
        \/ Orphan(c) \/ time_to_die \/ crashed \/ is_init = "failed"

\* run_task is in a select() without a timeout only for queries that
\* set_dns_server has cut off.
WaitsForOrphans == pc = "forever" => \E c \in Calls : Orphan(c)

(***************************************************************************)
(* close() returns, with lookups in flight too.  What can keep it is named *)
(* exactly: a failed initialisation, after which run_task waits for        *)
(* _is_init for ever, and a select() without a timeout, which run_task     *)
(* enters only if set_dns_server has replaced a channel that had a query.  *)
(***************************************************************************)
CloseReturns ==
  /\ []WaitsForOrphans
  /\ SelectReturns => (time_to_die ~> pc = "exited" \/ is_init = "failed")

\* The destructor ends the calls that close() left on the channel: those that
\* came between the thread's last look and its exit, and host lookups for an SRV
\* answer that arrived then.  The one that arrives after the destructor uses the
\* resolver that is gone.
DestroyEndsCalls ==
  \A c \in Calls :
    destroyed /\ Started(c) ~> (fired[c] > 0 /\ c \notin blocked) \/ Orphan(c) \/ crashed

=============================================================================
