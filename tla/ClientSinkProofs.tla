-------------------------- MODULE ClientSinkProofs --------------------------
(***************************************************************************)
(* Proofs about ClientSink for any number of events, any batch size, any   *)
(* bound on the queue and any set of events without a value.               *)
(*                                                                         *)
(* EachInOnePlace counts; what is inductive is Apart: no queue holds an    *)
(* event twice and no two places share one.  The counts follow.  That an   *)
(* event is given up only once the server has it needs HandledWereAccepted *)
(* and BatchShape: while a call whose batch was taken is under way, the    *)
(* server has every event of the batch that has a value.                   *)
(***************************************************************************)
EXTENDS ClientSink, SequenceFacts

\* No queue holds an event twice, no two places share one, and together they
\* hold what was pushed.
Apart ==
  /\ IsInjective(queue) /\ IsInjective(in_rpc) /\ IsInjective(pending)
  /\ ToSet(queue) \cup ToSet(in_rpc) \cup ToSet(pending) \cup released \cup purged = 1..pushed
  /\ ToSet(queue) \cap (ToSet(in_rpc) \cup ToSet(pending) \cup released \cup purged) = {}
  /\ ToSet(in_rpc) \cap (ToSet(pending) \cup released \cup purged) = {}
  /\ ToSet(pending) \cap (released \cup purged) = {}
  /\ released \cap purged = {}

\* What was handled with success the server has, if there was anything to send.
HandledWereAccepted == ToSet(pending) \cup released \subseteq accepted \cup Nulls

\* The bundle fits a batch, is empty between batches, and is the server's once
\* the current call has reached it.
BatchShape ==
  /\ Cardinality(Bundle) <= BatchSize
  /\ pc \in {"top", "exited"} => Bundle = {}
  /\ pc = "rpc" /\ taken => { in_rpc[i] : i \in Bundle } \subseteq accepted

IInv == TypeOK /\ Apart /\ HandledWereAccepted /\ BatchShape

content == <<pushed, queue, in_rpc, pending, released, purged>>

-----------------------------------------------------------------------------
(* Types *)

\* The sink starts well typed.
LEMMA InitType == Init => TypeOK
<1> SUFFICES ASSUME Init PROVE TypeOK
  OBVIOUS
<1>1. queue \in Seq(Events) /\ in_rpc \in Seq(Events) /\ pending \in Seq(Events)
  BY DEF Init
<1>2. pushed \in 0..MaxEvents
  BY SizesAssumption DEF Init
<1> QED  BY <1>1, <1>2 DEF Init, TypeOK

\* The sets of a batch and of a purge are sets of events.
LEMMA BundleEvents ==
  ASSUME TypeOK
  PROVE  /\ { in_rpc[i] : i \in Bundle } \subseteq ToSet(in_rpc)
         /\ ToSet(in_rpc) \subseteq { in_rpc[i] : i \in Bundle } \cup Nulls
         /\ ToSet(in_rpc) \subseteq Events
<1>1. in_rpc \in Seq(Events) /\ DOMAIN in_rpc = 1..Len(in_rpc)
  BY DEF TypeOK
<1> QED  BY <1>1 DEF Bundle, ToSet

\* Every step keeps the types.
LEMMA NextType == TypeOK /\ [Next]_vars => TypeOK'
<1> SUFFICES ASSUME TypeOK, [Next]_vars PROVE TypeOK'
  OBVIOUS
<1>0. /\ queue \in Seq(Events) /\ in_rpc \in Seq(Events) /\ pending \in Seq(Events)
      /\ pushed \in 0..MaxEvents /\ MaxEvents \in Nat
  BY SizesAssumption DEF TypeOK
<1>1. CASE push_back
  <2>1. pushed + 1 \in Events /\ pushed' \in 0..MaxEvents
    BY <1>0, <1>1 DEF push_back, Events
  <2>2. queue' \in Seq(Events)
    BY <1>0, <1>1, <2>1, ElementsOfAppend DEF push_back
  <2> QED  BY <1>1, <2>1, <2>2 DEF push_back, TypeOK
<1>2. CASE process
  <2>1. ToSet(pending) \subseteq Events /\ pending' \in Seq(Events)
    BY <1>0, <1>2, ElementsAt DEF process
  <2> QED  BY <1>2, <2>1 DEF process, TypeOK
<1>3. CASE flush \/ FlushReturns \/ Destroy \/ ThreadExits \/ RetryTimeout \/ BeginBatch
  BY <1>3 DEF flush, FlushReturns, Destroy, ThreadExits, RetryTimeout, BeginBatch, TypeOK
<1>4. CASE Purge
  <2>1. PICK n \in 0..Len(queue) : /\ purged' = purged \cup { queue[i] : i \in 1..n }
                                   /\ queue' = SubSeq(queue, n + 1, Len(queue))
    <3>1. Len(queue) - MaxQueue \in 0..Len(queue)
      BY <1>0, <1>4, SizesAssumption DEF Purge
    <3> QED  BY <1>4, <3>1 DEF Purge
  <2>2. queue' \in Seq(Events) /\ purged' \subseteq Events
    BY <1>0, <2>1, ElementsOfCut DEF TypeOK
  <2> QED  BY <1>4, <2>2 DEF Purge, TypeOK
<1>5. CASE BatchPop
  <2>1. in_rpc' \in Seq(Events) /\ queue' \in Seq(Events)
    BY <1>0, <1>5, ElementsOfTail, ElementsOfAppend DEF BatchPop
  <2> QED  BY <1>5, <2>1 DEF BatchPop, TypeOK
<1>6. CASE BatchEnd
  BY <1>6 DEF BatchEnd, TypeOK
<1>7. CASE ServerTakes
  BY <1>7, BundleEvents DEF ServerTakes, TypeOK
<1>8. CASE RpcOk
  <2>1. in_rpc' \in Seq(Events) /\ pending' \in Seq(Events)
    BY <1>0, <1>8, ElementsOfConcat DEF RpcOk
  <2> QED  BY <1>8, <2>1 DEF RpcOk, TypeOK
<1>9. CASE RpcFails
  <2>1. in_rpc' \in Seq(Events) /\ queue' \in Seq(Events)
    BY <1>0, <1>9, ElementsOfReverse, ElementsOfConcat DEF RpcFails
  <2> QED  BY <1>9, <2>1 DEF RpcFails, TypeOK
<1>10. CASE UNCHANGED vars
  BY <1>10 DEF TypeOK, vars
<1> QED
  BY <1>1, <1>2, <1>3, <1>4, <1>5, <1>6, <1>7, <1>8, <1>9, <1>10 DEF Next, Thread

-----------------------------------------------------------------------------
(* Every event is in one place *)

\* The sink starts with nothing anywhere.
LEMMA InitApart == Init => Apart
<1>1. ToSet(<< >>) = {} /\ IsInjective(<< >>)
  BY DEF ToSet, IsInjective
<1>2. 1..0 = {}
  OBVIOUS
<1> QED  BY <1>1, <1>2 DEF Init, Apart

\* No step puts an event in two places or loses one.
LEMMA NextApart == TypeOK /\ Apart /\ [Next]_vars => Apart'
<1> SUFFICES ASSUME TypeOK, Apart, [Next]_vars PROVE Apart'
  OBVIOUS
<1>0. /\ queue \in Seq(Events) /\ in_rpc \in Seq(Events) /\ pending \in Seq(Events)
      /\ pushed \in Nat
  BY SizesAssumption DEF TypeOK
<1>e. ToSet(<< >>) = {} /\ IsInjective(<< >>)
  BY DEF ToSet, IsInjective
<1>1. CASE push_back
  <2>1. pushed + 1 \in Events /\ pushed + 1 \notin 1..pushed /\ 1..(pushed + 1) = (1..pushed) \cup {pushed + 1}
    BY <1>0, <1>1, SizesAssumption DEF push_back, Events
  <2>2. ToSet(queue') = ToSet(queue) \cup {pushed + 1} /\ IsInjective(queue')
    BY <1>0, <1>1, <2>1, ElementsOfAppend DEF push_back, Apart
  <2> QED  BY <1>1, <2>1, <2>2 DEF push_back, Apart
<1>2. CASE process
  BY <1>2, <1>e DEF process, Apart
<1>3. CASE UNCHANGED content
  BY <1>3 DEF content, Apart
<1>4. CASE Purge
  <2>1. PICK n \in 0..Len(queue) : /\ purged' = purged \cup { queue[i] : i \in 1..n }
                                   /\ queue' = SubSeq(queue, n + 1, Len(queue))
    <3>1. Len(queue) - MaxQueue \in 0..Len(queue)
      BY <1>0, <1>4, SizesAssumption DEF Purge
    <3> QED  BY <1>4, <3>1 DEF Purge
  <2> DEFINE cut == { queue[i] : i \in 1..n }
  <2>2. /\ purged' = purged \cup cut /\ ToSet(queue) = cut \cup ToSet(queue')
        /\ cut \cap ToSet(queue') = {} /\ IsInjective(queue')
    BY <1>0, <2>1, ElementsOfCut DEF Apart
  <2> HIDE DEF cut
  <2> QED  BY <1>4, <2>2 DEF Purge, Apart
<1>5. CASE BatchPop
  <2>1. /\ Head(queue) \in Events /\ ToSet(queue) = {Head(queue)} \cup ToSet(queue') /\ IsInjective(queue')
        /\ Head(queue) \notin ToSet(queue')
    BY <1>0, <1>5, ElementsOfTail DEF BatchPop, Apart
  <2>2. ToSet(in_rpc') = ToSet(in_rpc) \cup {Head(queue)} /\ IsInjective(in_rpc')
    BY <1>0, <1>5, <2>1, ElementsOfAppend DEF BatchPop, Apart
  <2> QED  BY <1>5, <2>1, <2>2 DEF BatchPop, Apart
<1>6. CASE RpcOk
  <2>1. ToSet(pending') = ToSet(pending) \cup ToSet(in_rpc) /\ IsInjective(pending')
    BY <1>0, <1>6, ElementsOfConcat DEF RpcOk, Apart
  <2> QED  BY <1>6, <1>e, <2>1 DEF RpcOk, Apart
<1>7. CASE RpcFails
  <2>1. Reverse(in_rpc) \in Seq(Events) /\ ToSet(Reverse(in_rpc)) = ToSet(in_rpc) /\ IsInjective(Reverse(in_rpc))
    BY <1>0, ElementsOfReverse DEF Apart
  <2>2. ToSet(queue') = ToSet(in_rpc) \cup ToSet(queue) /\ IsInjective(queue')
    BY <1>0, <1>7, <2>1, ElementsOfConcat DEF RpcFails, Apart
  <2> QED  BY <1>7, <1>e, <2>2 DEF RpcFails, Apart
<1>8. CASE \/ flush \/ FlushReturns \/ Destroy \/ ThreadExits \/ RetryTimeout \/ BeginBatch
           \/ BatchEnd \/ ServerTakes \/ UNCHANGED vars
  <2>1. UNCHANGED content
    BY <1>8 DEF content, vars, flush, FlushReturns, Destroy, ThreadExits, RetryTimeout, BeginBatch,
                BatchEnd, ServerTakes
  <2> QED  BY <1>3, <2>1
<1> QED
  BY <1>1, <1>2, <1>4, <1>5, <1>6, <1>7, <1>8 DEF Next, Thread

\* What is apart adds up.
LEMMA ApartCounts == TypeOK /\ Apart => EachInOnePlace
<1> SUFFICES ASSUME TypeOK, Apart PROVE EachInOnePlace
  OBVIOUS
<1> DEFINE Q == ToSet(queue)  R == ToSet(in_rpc)  P == ToSet(pending)
<1>0. /\ queue \in Seq(Events) /\ in_rpc \in Seq(Events) /\ pending \in Seq(Events)
      /\ released \subseteq Events /\ purged \subseteq Events /\ pushed \in Nat
  BY SizesAssumption DEF TypeOK
<1>1. /\ IsFiniteSet(Q) /\ Cardinality(Q) = Len(queue)
      /\ IsFiniteSet(R) /\ Cardinality(R) = Len(in_rpc)
      /\ IsFiniteSet(P) /\ Cardinality(P) = Len(pending)
  BY <1>0, LengthIsSize DEF Apart
<1>2. IsFiniteSet(released) /\ IsFiniteSet(purged)
  <2>1. IsFiniteSet(Events)
    BY FS_Interval, SizesAssumption DEF Events
  <2> QED  BY <1>0, <2>1, FS_Subset
<1>3. /\ Q \cup R \cup P \cup released \cup purged = 1..pushed
      /\ Q \cap R = {} /\ (Q \cup R) \cap P = {} /\ (Q \cup R \cup P) \cap released = {}
      /\ (Q \cup R \cup P \cup released) \cap purged = {}
  BY DEF Apart
<1> HIDE DEF Q, R, P
<1>4. IsFiniteSet(Q \cup R) /\ Cardinality(Q \cup R) = Cardinality(Q) + Cardinality(R)
  BY <1>1, <1>3, DisjointSizes
<1>5. IsFiniteSet(Q \cup R \cup P) /\ Cardinality(Q \cup R \cup P) = Cardinality(Q \cup R) + Cardinality(P)
  BY <1>1, <1>3, <1>4, DisjointSizes
<1>6. /\ IsFiniteSet(Q \cup R \cup P \cup released)
      /\ Cardinality(Q \cup R \cup P \cup released) = Cardinality(Q \cup R \cup P) + Cardinality(released)
  BY <1>2, <1>3, <1>5, DisjointSizes
<1>7. Cardinality(1..pushed) = Cardinality(Q \cup R \cup P \cup released) + Cardinality(purged)
  BY <1>2, <1>3, <1>6, DisjointSizes
<1>8. Cardinality(1..pushed) = pushed
  BY <1>0, FS_Interval
<1>9. Len(queue) + Len(in_rpc) + Len(pending) + Cardinality(released) + Cardinality(purged) = pushed
  BY <1>1, <1>4, <1>5, <1>6, <1>7, <1>8
<1> QED  BY <1>3, <1>9 DEF EachInOnePlace, Q, R, P

-----------------------------------------------------------------------------
(* What the server has *)

\* A bundle is a finite set of positions.
LEMMA BundleFinite ==
  ASSUME TypeOK
  PROVE  IsFiniteSet(Bundle) /\ Cardinality(Bundle) \in Nat /\ Bundle \subseteq 1..Len(in_rpc)
<1>1. Len(in_rpc) \in Nat /\ Bundle \subseteq 1..Len(in_rpc)
  BY DEF TypeOK, Bundle
<1>2. IsFiniteSet(1..Len(in_rpc))
  BY <1>1, FS_Interval
<1> QED  BY <1>1, <1>2, FS_Subset, FS_CardinalityType

\* An empty in_rpc is an empty bundle.
LEMMA NoBundle ==
  ASSUME in_rpc' = << >>
  PROVE  Bundle' = {} /\ Cardinality(Bundle') = 0
<1>1. Bundle' = {}
  BY DEF Bundle
<1> QED  BY <1>1, FS_EmptySet

\* The sink starts with nothing handled and no batch.
LEMMA InitBatch == Init => HandledWereAccepted /\ BatchShape
<1> SUFFICES ASSUME Init PROVE HandledWereAccepted /\ BatchShape
  OBVIOUS
<1>1. ToSet(pending) = {} /\ Bundle = {}
  BY DEF Init, ToSet, Bundle
<1>2. Cardinality(Bundle) = 0 /\ BatchSize \in Nat
  BY <1>1, FS_EmptySet, SizesAssumption
<1> QED  BY <1>1, <1>2 DEF Init, HandledWereAccepted, BatchShape

\* Events are handled only when the server has them, and every step keeps the
\* shape of the batch.
LEMMA NextBatch == TypeOK /\ HandledWereAccepted /\ BatchShape /\ [Next]_vars
                     => HandledWereAccepted' /\ BatchShape'
<1> SUFFICES ASSUME TypeOK, HandledWereAccepted, BatchShape, [Next]_vars
             PROVE  HandledWereAccepted' /\ BatchShape'
  OBVIOUS
<1>0. /\ queue \in Seq(Events) /\ in_rpc \in Seq(Events) /\ pending \in Seq(Events)
      /\ BatchSize \in Nat /\ Cardinality(Bundle) \in Nat
  BY SizesAssumption, BundleFinite DEF TypeOK
<1>e. ToSet(<< >>) = {}
  BY DEF ToSet
<1>1. CASE push_back \/ Purge \/ flush \/ FlushReturns \/ Destroy \/ RetryTimeout \/ UNCHANGED vars
  <2>1. UNCHANGED <<in_rpc, pending, released, accepted, taken, pc>>
    BY <1>1 DEF push_back, Purge, flush, FlushReturns, Destroy, RetryTimeout, vars
  <2> QED  BY <2>1 DEF HandledWereAccepted, BatchShape, Bundle
<1>2. CASE process
  BY <1>2, <1>e DEF process, HandledWereAccepted, BatchShape, Bundle
<1>3. CASE ThreadExits \/ BeginBatch
  <2>1. /\ UNCHANGED <<in_rpc, pending, released, accepted, taken>>
        /\ pc = "top" /\ pc' \in {"exited", "batch"}
    BY <1>3 DEF ThreadExits, BeginBatch
  <2>2. Bundle' = Bundle
    BY <2>1 DEF Bundle
  <2> QED  BY <2>1, <2>2 DEF HandledWereAccepted, BatchShape
<1>4. CASE BatchPop
  <2>1. /\ Head(queue) \in Events /\ in_rpc' = Append(in_rpc, Head(queue))
        /\ pc = "batch" /\ ~BatchFull /\ UNCHANGED <<pending, released, accepted, pc>>
    BY <1>0, <1>4, ElementsOfTail DEF BatchPop
  <2>2. /\ Len(in_rpc') = Len(in_rpc) + 1 /\ Len(in_rpc) \in Nat
        /\ \A i \in 1..Len(in_rpc) : in_rpc'[i] = in_rpc[i]
    BY <1>0, <2>1
  <2>3. Bundle' \subseteq Bundle \cup {Len(in_rpc) + 1}
    BY <2>2 DEF Bundle
  <2>4. /\ IsFiniteSet(Bundle \cup {Len(in_rpc) + 1})
        /\ Cardinality(Bundle \cup {Len(in_rpc) + 1}) <= Cardinality(Bundle) + 1
    <3>1. IsFiniteSet(Bundle)
      BY BundleFinite
    <3>2. /\ IsFiniteSet(Bundle \cup {Len(in_rpc) + 1})
          /\ Cardinality(Bundle \cup {Len(in_rpc) + 1}) =
               IF Len(in_rpc) + 1 \in Bundle THEN Cardinality(Bundle) ELSE Cardinality(Bundle) + 1
      BY <3>1, FS_AddElement, Zenon
    <3> QED  BY <1>0, <3>2
  <2>5. /\ Cardinality(Bundle \cup {Len(in_rpc) + 1}) \in Nat /\ Cardinality(Bundle') \in Nat
        /\ Cardinality(Bundle') <= Cardinality(Bundle \cup {Len(in_rpc) + 1})
    BY <2>3, <2>4, FS_Subset, FS_CardinalityType
  <2>6. Cardinality(Bundle) < BatchSize
    BY <1>0, <2>1 DEF BatchFull
  <2>7. Cardinality(Bundle') <= BatchSize
    BY <1>0, <2>4, <2>5, <2>6
  <2> QED  BY <2>1, <2>7 DEF HandledWereAccepted, BatchShape
<1>5. CASE BatchEnd
  <2>1. /\ UNCHANGED <<in_rpc, pending, released, accepted>> /\ taken' = FALSE
        /\ pc' = IF Bundle = {} THEN "top" ELSE "rpc"
    BY <1>5 DEF BatchEnd
  <2>2. Bundle' = Bundle
    BY <2>1 DEF Bundle
  <2> QED  BY <2>1, <2>2 DEF HandledWereAccepted, BatchShape
<1>6. CASE ServerTakes
  <2>1. /\ UNCHANGED <<in_rpc, pending, released, pc>> /\ pc = "rpc"
        /\ accepted' = accepted \cup { in_rpc[i] : i \in Bundle }
    BY <1>6 DEF ServerTakes
  <2>2. Bundle' = Bundle
    BY <2>1 DEF Bundle
  <2> QED  BY <2>1, <2>2 DEF HandledWereAccepted, BatchShape
<1>7. CASE RpcOk
  <2>1. ToSet(in_rpc) \subseteq accepted \cup Nulls
    BY <1>7, BundleEvents DEF RpcOk, BatchShape
  <2>2. ToSet(pending') = ToSet(pending) \cup ToSet(in_rpc)
    BY <1>0, <1>7, ElementsOfConcat DEF RpcOk
  <2>3. HandledWereAccepted'
    BY <1>7, <2>1, <2>2 DEF RpcOk, HandledWereAccepted
  <2>4. BatchShape'
    BY <1>0, <1>7, NoBundle DEF RpcOk, BatchShape
  <2> QED  BY <2>3, <2>4
<1>8. CASE RpcFails
  <2>1. HandledWereAccepted'
    BY <1>8 DEF RpcFails, HandledWereAccepted
  <2>2. BatchShape'
    BY <1>0, <1>8, NoBundle DEF RpcFails, BatchShape
  <2> QED  BY <2>1, <2>2
<1> QED
  BY <1>1, <1>2, <1>3, <1>4, <1>5, <1>6, <1>7, <1>8 DEF Next, Thread

\* An empty queue and an empty _pending_for_delete leave only the batch unsent.
LEMMA OnlyTheBatchIsUnsent == IInv => EofIsOneBatchBehind
<1> DEFINE unsent == (1..pushed) \ (accepted \cup purged \cup Nulls)
           bundle == { in_rpc[i] : i \in Bundle }
<1> SUFFICES ASSUME IInv, eof
             PROVE  Cardinality(unsent) <= BatchSize /\ (unsent # {} => pc \in {"batch", "rpc"})
  BY DEF EofIsOneBatchBehind
<1>0. TypeOK /\ Apart /\ HandledWereAccepted /\ BatchShape
  BY DEF IInv
<1>1. ToSet(queue) = {} /\ ToSet(pending) = {}
  BY DEF eof, ToSet
<1>2. unsent \subseteq bundle
  <2>1. ToSet(in_rpc) \subseteq bundle \cup Nulls
    BY <1>0, BundleEvents
  <2> HIDE DEF bundle
  <2> QED  BY <1>0, <1>1, <2>1 DEF Apart, HandledWereAccepted
<1>3. IsFiniteSet(bundle) /\ Cardinality(bundle) \in Nat /\ Cardinality(bundle) <= Cardinality(Bundle)
  <2> DEFINE f == [i \in Bundle |-> in_rpc[i]]
  <2>1. f \in Surjection(Bundle, bundle)
    BY DEF Surjection
  <2>2. IsFiniteSet(bundle) /\ Cardinality(bundle) <= Cardinality(Bundle)
    BY <1>0, <2>1, BundleFinite, FS_Surjection
  <2> QED  BY <2>2, FS_CardinalityType
<1>4. Cardinality(unsent) \in Nat /\ Cardinality(unsent) <= Cardinality(bundle)
  <2>1. unsent \in SUBSET bundle
    BY <1>2
  <2> QED  BY <1>3, <2>1, FS_Subset, FS_CardinalityType
<1>5. Cardinality(unsent) <= BatchSize
  <2>1. Cardinality(Bundle) <= BatchSize /\ Cardinality(Bundle) \in Nat /\ BatchSize \in Nat
    BY <1>0, BundleFinite, SizesAssumption DEF BatchShape
  <2> QED  BY <1>3, <1>4, <2>1
<1>6. ASSUME unsent # {} PROVE pc \in {"batch", "rpc"}
  <2>1. Bundle # {}
    BY <1>2, <1>6
  <2> QED  BY <1>0, <2>1 DEF BatchShape, TypeOK
<1> QED  BY <1>5, <1>6

-----------------------------------------------------------------------------
(* The theorems about the sink *)

\* The strengthened invariant holds initially and is kept by every step.
LEMMA Inductive == (Init => IInv) /\ (IInv /\ [Next]_vars => IInv')
<1>1. Init => IInv
  BY InitType, InitApart, InitBatch DEF IInv
<1>2. IInv /\ [Next]_vars => IInv'
  BY NextType, NextApart, NextBatch DEF IInv
<1> QED  BY <1>1, <1>2

\* However calls fail and are retried, every event that was pushed is in
\* exactly one of _queue, in_rpc, _pending_for_delete, the released events and
\* the purged ones.
THEOREM OnePlace == Spec => []EachInOnePlace
<1>1. IInv => EachInOnePlace
  BY ApartCounts DEF IInv
<1> QED  BY <1>1, Inductive, PTL DEF Spec

\* A step that purges leaves _max_queue events in the queue; no other step
\* changes what was purged.
LEMMA NextPurge == IInv /\ PurgeTakesTheExcess /\ [Next]_vars => PurgeTakesTheExcess'
<1> SUFFICES ASSUME IInv, PurgeTakesTheExcess, [Next]_vars PROVE PurgeTakesTheExcess'
  OBVIOUS
<1>1. TypeOK /\ TypeOK' /\ EachInOnePlace' /\ pushed \in Nat
  <2>1. IInv'
    BY Inductive
  <2>2. Apart' /\ TypeOK' /\ TypeOK
    BY <2>1 DEF IInv
  <2>3. EachInOnePlace'
    BY <2>2, ApartCounts, PTL
  <2> QED  BY <2>2, <2>3 DEF TypeOK
<1>2. CASE Purge
  <2>1. Len(queue) \in Nat /\ queue \in Seq(Events) /\ Len(queue) > MaxQueue
    BY <1>1, <1>2 DEF TypeOK, Purge
  <2>2. Len(queue') = MaxQueue
    BY <1>2, <2>1, SizesAssumption DEF Purge
  <2>3. /\ in_rpc' \in Seq(Events) /\ pending' \in Seq(Events) /\ pushed' \in Nat
        /\ released' \subseteq 1..pushed' /\ purged' \subseteq 1..pushed'
    BY <1>1 DEF TypeOK, EachInOnePlace
  <2>4. Cardinality(released') \in Nat /\ Cardinality(purged') \in Nat
    <3>1. IsFiniteSet(1..pushed')
      BY <2>3, FS_Interval
    <3>2. IsFiniteSet(released') /\ IsFiniteSet(purged')
      BY <2>3, <3>1, FS_Subset
    <3> QED  BY <3>2, FS_CardinalityType
  <2>5. Len(queue') + Len(in_rpc') + Len(pending') + Cardinality(released') + Cardinality(purged') = pushed'
    BY <1>1 DEF EachInOnePlace
  <2>6. Len(in_rpc') \in Nat /\ Len(pending') \in Nat
    BY <2>3
  <2>7. Cardinality(purged') + MaxQueue <= pushed'
    BY <2>2, <2>3, <2>4, <2>5, <2>6, SizesAssumption
  <2> QED  BY <2>7 DEF PurgeTakesTheExcess
<1>3. CASE purged' = purged /\ pushed' = pushed
  BY <1>3 DEF PurgeTakesTheExcess
<1>4. CASE push_back
  <2>1. purged' = purged /\ pushed' = pushed + 1 /\ purged \subseteq 1..pushed
    BY <1>1, <1>4, ApartCounts DEF push_back, IInv, EachInOnePlace
  <2>2. Cardinality(purged) \in Nat
    <3>1. IsFiniteSet(1..pushed)
      BY <1>1, FS_Interval
    <3> QED  BY <2>1, <3>1, FS_Subset, FS_CardinalityType
  <2> QED  BY <1>1, <2>1, <2>2, SizesAssumption DEF PurgeTakesTheExcess
<1> QED
  BY <1>2, <1>3, <1>4 DEF Next, process, flush, FlushReturns, Destroy, Thread, ThreadExits,
     BeginBatch, BatchPop, BatchEnd, RpcOk, RpcFails, RetryTimeout, ServerTakes, vars

\* However long an outage lasts, the purge gives up the excess only.
THEOREM PurgedIsExcess == Spec => []PurgeTakesTheExcess
<1>1. Init => PurgeTakesTheExcess
  BY DEF Init, PurgeTakesTheExcess
<1>2. (IInv /\ PurgeTakesTheExcess) /\ [Next]_vars => (IInv /\ PurgeTakesTheExcess)'
  BY Inductive, NextPurge
<1> QED  BY <1>1, <1>2, Inductive, PTL DEF Spec

\* When eof() lets flush return, at most one batch has not reached the server,
\* and its call is under way.
THEOREM EofBound == Spec => []EofIsOneBatchBehind
BY OnlyTheBatchIsUnsent, Inductive, PTL DEF Spec

\* One step of the sink is one step of the at-least-once stage, or none.
LEMMA StepIsAtLeastOnce == IInv /\ [Next]_vars => [ALO!ANext]_(ALO!avars)
<1> USE DEF ALO!avars
<1> SUFFICES ASSUME IInv, [Next]_vars
             PROVE  ALO!ANext \/ UNCHANGED ALO!avars
  OBVIOUS
<1>0. /\ TypeOK /\ Apart /\ HandledWereAccepted /\ BatchShape
      /\ queue \in Seq(Events) /\ in_rpc \in Seq(Events) /\ pending \in Seq(Events)
      /\ released \subseteq Events /\ purged \subseteq Events /\ pushed \in Nat
  BY SizesAssumption DEF IInv, TypeOK
<1>e. ToSet(<< >>) = {}
  BY DEF ToSet
<1>1. CASE push_back
  <2>1. ALO!Submit({pushed + 1}) /\ pushed + 1 \in Events
    <3>1. pushed + 1 \in Events /\ pushed + 1 \notin 1..pushed /\ 1..(pushed + 1) = (1..pushed) \cup {pushed + 1}
      BY <1>0, <1>1, SizesAssumption DEF push_back, Events
    <3> QED  BY <1>1, <3>1 DEF push_back, ALO!Submit
  <2> QED  BY <2>1 DEF ALO!ANext
<1>2. CASE process
  <2>1. UNCHANGED ALO!avars
    BY <1>2, <1>e DEF process
  <2> QED  BY <2>1
<1>3. CASE Purge
  <2>1. PICK n \in 0..Len(queue) : /\ purged' = purged \cup { queue[i] : i \in 1..n }
                                   /\ queue' = SubSeq(queue, n + 1, Len(queue))
    <3>1. Len(queue) - MaxQueue \in 0..Len(queue)
      BY <1>0, <1>3, SizesAssumption DEF Purge
    <3> QED  BY <1>3, <3>1 DEF Purge
  <2> DEFINE cut == { queue[i] : i \in 1..n }
  <2>2. purged' = purged \cup cut /\ cut \subseteq ToSet(queue) /\ cut \subseteq Events
    BY <1>0, <2>1, ElementsOfCut
  <2> HIDE DEF cut
  <2>3. ALO!GiveUp({}, cut)
    BY <1>0, <1>3, <2>2 DEF Purge, Apart, ALO!GiveUp
  <2> QED  BY <2>2, <2>3 DEF ALO!ANext
<1>4. CASE ServerTakes
  <2> DEFINE bundle == { in_rpc[i] : i \in Bundle }
  <2>1. accepted' = accepted \cup bundle /\ bundle \subseteq ToSet(in_rpc) /\ bundle \subseteq Events
    BY <1>0, <1>4, BundleEvents DEF ServerTakes
  <2> HIDE DEF bundle
  <2>2. ALO!Deliver(bundle)
    BY <1>0, <1>4, <2>1 DEF ServerTakes, Apart, ALO!Deliver
  <2> QED  BY <2>1, <2>2 DEF ALO!ANext
<1>5. CASE RpcOk
  <2>1. ToSet(pending') = ToSet(pending) \cup ToSet(in_rpc)
    BY <1>0, <1>5, ElementsOfConcat DEF RpcOk
  <2>2. ToSet(in_rpc) \subseteq accepted \cup Nulls /\ ToSet(in_rpc) \subseteq Events
    BY <1>0, <1>5, BundleEvents DEF RpcOk, BatchShape
  <2>3. ALO!GiveUp(ToSet(in_rpc), {})
    BY <1>0, <1>5, <2>1, <2>2 DEF RpcOk, Apart, ALO!GiveUp
  <2> QED  BY <2>2, <2>3 DEF ALO!ANext
<1>6. CASE \/ flush \/ FlushReturns \/ Destroy \/ ThreadExits \/ RetryTimeout \/ BeginBatch
           \/ BatchPop \/ BatchEnd \/ RpcFails \/ UNCHANGED vars
  <2>1. UNCHANGED <<pushed, accepted, pending, released, purged>>
    BY <1>6 DEF vars, flush, FlushReturns, Destroy, ThreadExits, RetryTimeout, BeginBatch,
                BatchPop, BatchEnd, RpcFails
  <2> QED  BY <2>1
<1> QED
  BY <1>1, <1>2, <1>3, <1>4, <1>5, <1>6 DEF Next, Thread

\* The sink implements the at-least-once stage: an event is given up only once
\* the server has it, and what was given up is never sent again.
THEOREM Refinement == Spec => ImplementsAtLeastOnce
<1>1. Init => ALO!AInit
  <2>1. ToSet(<< >>) = {} /\ 1..0 = {}
    BY DEF ToSet
  <2> QED  BY <2>1 DEF Init, ALO!AInit
<1> QED  BY <1>1, Inductive, StepIsAtLeastOnce, PTL DEF Spec, ImplementsAtLeastOnce, ALO!ASpec
=============================================================================
