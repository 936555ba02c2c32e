----------------------------- MODULE ProxyProofs -----------------------------
(***************************************************************************)
(* Proofs about Proxy and its LogSession, for any streams of bytes, any    *)
(* size of the buffer, any number of requests and bodies of any length;    *)
(* and about Conversions, the parsers that the handlers call, for inputs   *)
(* of any length.                                                          *)
(***************************************************************************)
EXTENDS Proxy, Conversions, SequenceFacts

Bytes == {"LF", "NUL", "d", "x"}
Completions == [h : {"read", "error", "dead"}, bytes : Seq(Bytes)]
RequestStates == [st : {"none", "handling", "answered", "closed", "rejected", "unanswered"},
                  left : 0..MaxBody, size : 0..MaxBody]

SessionTypes ==
  /\ wire \in Seq(Bytes) /\ buffer \in Seq(Bytes) /\ line \in Seq(Bytes)
  /\ got \in Seq(Bytes) /\ lines \in Seq(Seq(Bytes)) /\ handlers \in Seq(Completions)
  /\ peer \in BOOLEAN /\ reading \in BOOLEAN /\ timer \in BOOLEAN /\ thrown \in BOOLEAN
  /\ burst \in BOOLEAN /\ socket \in {"new", "open", "closed", "freed"}

\* What a read brings fits into the buffer when its handler runs: no other read
\* is begun or waits for its handler, so nothing fills the buffer in between.
Waiting(q, begun, b) ==
  /\ \A i \in DOMAIN q :
       q[i].h = "read" => begun = FALSE /\ Len(b) + Len(q[i].bytes) <= max_length
  /\ \A i, j \in DOMAIN q : q[i].h = "read" /\ q[j].h = "read" => i = j

Reads ==
  /\ Len(buffer) < max_length
  /\ Waiting(handlers, reading, buffer)
  /\ LFs(buffer) > 0 => burst

ProxyTypes ==
  /\ program \in Programs /\ run \in BOOLEAN
  /\ main \in {"start", "serving", "stopping", "ended", "terminated"}
  /\ req \in [Requests -> RequestStates]
  /\ topo \in {"none", "loop", "flush", "ended"} /\ flushed \in BOOLEAN
  /\ stream \in Seq(AllEvents) /\ sinkq \in Seq(AllEvents) /\ inflight \in Seq(AllEvents)
  /\ delivered \subseteq AllEvents /\ purged \subseteq AllEvents /\ early \subseteq AllEvents
  /\ retrying \in BOOLEAN

\* Where events are: in the source, in the sink's queue, in its call, at the
\* server, purged; each is in one of these places, once.
Present == ToSet(stream) \cup ToSet(sinkq) \cup ToSet(inflight) \cup delivered \cup purged
Apart ==
  /\ IsInjective(stream) /\ IsInjective(sinkq) /\ IsInjective(inflight)
  /\ ToSet(stream) \cap ToSet(sinkq) = {} /\ ToSet(stream) \cap ToSet(inflight) = {}
  /\ ToSet(stream) \cap delivered = {} /\ ToSet(sinkq) \cap ToSet(inflight) = {}
  /\ ToSet(sinkq) \cap delivered = {} /\ ToSet(inflight) \cap delivered = {}
  /\ ToSet(stream) \cap purged = {} /\ ToSet(sinkq) \cap purged = {}
  /\ ToSet(inflight) \cap purged = {} /\ delivered \cap purged = {}

\* The events inserted so far are those of the lines handled, and the first ones
\* of each request, up to its place in the loop over the body.
SoFar ==
  /\ \A n : <<0, n>> \in Present => n \in 1..Len(lines)
  /\ \A r \in Requests :
       /\ req[r].left <= req[r].size
       /\ req[r].st # "handling" => req[r].left = 0
       /\ \A n : <<r, n>> \in Present <=> n \in 1..(req[r].size - req[r].left)

\* Only after run was cleared is the loop left; nothing is answered early then.
\* Only the metric sink purges.
Flushing ==
  /\ main = "start" => topo = "none"
  /\ topo \in {"flush", "ended"} => ~run
  /\ early \subseteq Present
  /\ Len(inflight) <= 1
  /\ flushed => /\ topo = "ended" /\ early \cap ToSet(stream) = {}
                /\ \A e, f \in early \ (delivered \cup purged) : e = f
  /\ purged # {} => MetricSink

\* A session that has not started waits for nothing.
Unstarted == socket = "new" => handlers = << >> /\ reading = FALSE /\ timer = FALSE

SessionInv == SessionTypes /\ Reads /\ Unstarted /\ Framing
FlowInv == ProxyTypes /\ Apart /\ SoFar /\ Flushing
IInv == SessionInv /\ FlowInv

-----------------------------------------------------------------------------
(* Bytes and line ends *)

LEMMA LFsFacts ==
  ASSUME NEW s \in Seq(Bytes)
  PROVE  /\ IsFiniteSet({i \in DOMAIN s : s[i] = "LF"}) /\ LFs(s) \in Nat
         /\ LFs(s) = 0 <=> "LF" \notin ToSet(s)
<1> DEFINE P == {i \in DOMAIN s : s[i] = "LF"}
<1>1. Len(s) \in Nat /\ DOMAIN s = 1..Len(s)
  OBVIOUS
<1>2. IsFiniteSet(P)
  <2>1. IsFiniteSet(1..Len(s))
    BY <1>1, FS_Interval
  <2>2. P \subseteq 1..Len(s)
    BY <1>1
  <2> HIDE DEF P
  <2> QED  BY <2>1, <2>2, FS_Subset
<1>3. P = {} <=> "LF" \notin ToSet(s)
  BY DEF ToSet
<1> HIDE DEF P
<1>4. Cardinality(P) \in Nat /\ (Cardinality(P) = 0 <=> P = {})
  BY <1>2, FS_CardinalityType, FS_EmptySet
<1>5. LFs(s) = Cardinality(P)
  BY DEF LFs, P
<1> QED  BY <1>2, <1>3, <1>4, <1>5 DEF P

LEMMA LFsConcat ==
  ASSUME NEW s \in Seq(Bytes), NEW t \in Seq(Bytes)
  PROVE  LFs(s \o t) = LFs(s) + LFs(t)
<1> DEFINE P == {i \in DOMAIN s : s[i] = "LF"}
           Q == {i \in DOMAIN t : t[i] = "LF"}
           R == {i \in DOMAIN (s \o t) : (s \o t)[i] = "LF"}
           Q2 == {i \in DOMAIN (s \o t) : i > Len(s) /\ (s \o t)[i] = "LF"}
           shift == [i \in Q |-> Len(s) + i]
<1>1. /\ Len(s) \in Nat /\ Len(t) \in Nat /\ Len(s \o t) = Len(s) + Len(t)
      /\ DOMAIN s = 1..Len(s) /\ DOMAIN t = 1..Len(t) /\ DOMAIN (s \o t) = 1..(Len(s) + Len(t))
      /\ \A i \in 1..Len(s) : (s \o t)[i] = s[i]
      /\ \A i \in 1..Len(t) : (s \o t)[Len(s) + i] = t[i]
  BY ConcatProperties
<1>2. R = P \cup Q2 /\ P \cap Q2 = {}
  BY <1>1
<1>3. shift \in Bijection(Q, Q2)
  <2>1. ASSUME NEW i \in Q PROVE Len(s) + i \in Q2
    BY <1>1
  <2>2. ASSUME NEW i \in Q2 PROVE i - Len(s) \in Q /\ Len(s) + (i - Len(s)) = i
    <3>1. i - Len(s) \in 1..Len(t) /\ Len(s) + (i - Len(s)) = i
      BY <1>1
    <3>2. (s \o t)[Len(s) + (i - Len(s))] = t[i - Len(s)]
      BY <1>1, <3>1
    <3> QED  BY <1>1, <3>1, <3>2
  <2>3. Q \subseteq Int
    BY <1>1
  <2> HIDE DEF Q, Q2
  <2>4. shift \in [Q -> Q2]
    BY <2>1
  <2>5. \A i, j \in Q : shift[i] = shift[j] => i = j
    BY <1>1, <2>3
  <2>6. \A i \in Q2 : \E j \in Q : shift[j] = i
    BY <2>2
  <2>7. DOMAIN shift = Q
    OBVIOUS
  <2> HIDE DEF shift
  <2> QED  BY <2>4, <2>5, <2>6, <2>7, Zenon DEF Bijection, Injection, Surjection, IsInjective
<1>4. IsFiniteSet(P) /\ IsFiniteSet(Q)
  BY LFsFacts
<1>5. LFs(s \o t) = Cardinality(R) /\ LFs(s) = Cardinality(P) /\ LFs(t) = Cardinality(Q)
  BY DEF LFs
<1> HIDE DEF P, Q, R, Q2, shift
<1>6. IsFiniteSet(Q2) /\ Cardinality(Q2) = Cardinality(Q)
  BY <1>3, <1>4, FS_Bijection DEF ExistsBijection
<1>7. Cardinality(R) = Cardinality(P) + Cardinality(Q2)
  BY <1>2, <1>4, <1>6, DisjointSizes
<1> QED  BY <1>5, <1>6, <1>7

LEMMA LFsOfOne == LFs(<<"LF">>) = 1 /\ LFs(<< >>) = 0 /\ <<"LF">> \in Seq(Bytes) /\ << >> \in Seq(Bytes)
<1>1. {i \in DOMAIN <<"LF">> : <<"LF">>[i] = "LF"} = {1}
  OBVIOUS
<1>2. {i \in DOMAIN << >> : << >>[i] = "LF"} = {}
  OBVIOUS
<1>3. <<"LF">> \in Seq(Bytes) /\ << >> \in Seq(Bytes)
  BY DEF Bytes
<1> QED  BY <1>1, <1>2, <1>3, FS_Singleton, FS_EmptySet DEF LFs

\* The bytes m to n of s.
LEMMA PartOf ==
  ASSUME NEW s \in Seq(Bytes), NEW m \in Nat \ {0}, NEW n \in Nat, n <= Len(s), m <= n + 1
  PROVE  /\ SubSeq(s, m, n) \in Seq(Bytes) /\ Len(SubSeq(s, m, n)) = n - m + 1
         /\ \A i \in 1..(n - m + 1) : SubSeq(s, m, n)[i] = s[m + i - 1]
<1>1. m \in Int /\ n \in Int /\ \A i \in m..n : s[i] \in Bytes
  OBVIOUS
<1>2. /\ SubSeq(s, m, n) \in Seq(Bytes)
      /\ Len(SubSeq(s, m, n)) = IF m <= n THEN n - m + 1 ELSE 0
      /\ \A i \in 1..(n - m + 1) : SubSeq(s, m, n)[i] = s[m + i - 1]
  BY <1>1, SubSeqProperties
<1> QED  BY <1>2

\* What is kept of a line is a prefix: it has no line end if the line has none,
\* and it is the whole line if that has no NUL.
LEMMA UpToNULFacts ==
  ASSUME NEW s \in Seq(Bytes)
  PROVE  /\ UpToNUL(s) \in Seq(Bytes)
         /\ LFs(s) = 0 => LFs(UpToNUL(s)) = 0
         /\ "NUL" \notin ToSet(s) => UpToNUL(s) = s
<1> DEFINE nul == {i \in DOMAIN s : s[i] = "NUL"}
           k == CHOOSE i \in nul : \A j \in nul : i <= j
<1>0. Len(s) \in Nat /\ DOMAIN s = 1..Len(s)
  OBVIOUS
<1>1. UpToNUL(s) = IF nul = {} THEN s ELSE SubSeq(s, 1, k - 1)
  BY DEF UpToNUL
<1>2. "NUL" \notin ToSet(s) => nul = {}
  BY DEF ToSet
<1>3. ASSUME nul # {} PROVE k \in 1..Len(s)
  <2>1. nul \subseteq 1..Len(s)
    BY <1>0
  <2>2. nul \subseteq Nat
    BY <2>1
  <2> HIDE DEF nul
  <2>3. \E i \in nul : \A j \in nul : i <= j
    BY <1>3, <2>2, LeastNat
  <2>4. k \in nul
    BY <2>3, Zenon
  <2> QED  BY <2>1, <2>4, Zenon
<1> HIDE DEF k, nul
<1>4. CASE nul = {}
  BY <1>1, <1>4
<1>5. CASE nul # {}
  <2>1. PICK m \in 0..Len(s) : m = k - 1
    BY <1>0, <1>3, <1>5
  <2>2. PICK u \in Seq(Bytes) : u = SubSeq(s, 1, m)
    <3>1. 1 \in Nat \ {0} /\ m \in Nat /\ m <= Len(s) /\ 1 <= m + 1
      BY <1>0
    <3>2. SubSeq(s, 1, m) \in Seq(Bytes)
      BY <3>1, PartOf
    <3> QED  BY <3>2
  <2>3. Len(u) = m /\ \A i \in 1..m : u[i] = s[i]
    <3>1. 1 \in Nat \ {0} /\ m \in Nat /\ m <= Len(s) /\ 1 <= m + 1
      BY <1>0
    <3>2. Len(u) = m - 1 + 1 /\ \A i \in 1..(m - 1 + 1) : u[i] = s[1 + i - 1]
      BY <2>2, <3>1, PartOf
    <3>3. m - 1 + 1 = m /\ \A i \in 1..m : 1 + i - 1 = i
      BY <3>1
    <3> QED  BY <3>2, <3>3
  <2>4. ToSet(u) \subseteq ToSet(s)
    BY <1>0, <2>2, <2>3, ElementsAt DEF ToSet
  <2>5. UpToNUL(s) = u
    BY <1>1, <1>5, <2>1, <2>2
  <2> QED  BY <1>2, <1>5, <2>2, <2>4, <2>5, LFsFacts
<1> QED  BY <1>4, <1>5

\* Cutting at a line end.
LEMMA CutLine ==
  ASSUME NEW s \in Seq(Bytes), NEW p \in 1..Len(s), s[p] = "LF",
         \A j \in 1..Len(s) : s[j] = "LF" => p <= j
  PROVE  LET pre == SubSeq(s, 1, p - 1)
             rest == Rest(s, p) IN
         /\ pre \in Seq(Bytes) /\ rest \in Seq(Bytes) /\ LFs(pre) = 0
         /\ s = (pre \o <<"LF">>) \o rest
<1> DEFINE pre == SubSeq(s, 1, p - 1)
           rest == SubSeq(s, p + 1, Len(s))
<1>0. Len(s) \in Nat /\ p - 1 \in Nat /\ p \in Nat /\ p <= Len(s) /\ p + 1 \in Nat \ {0}
  OBVIOUS
<1>1. /\ pre \in Seq(Bytes) /\ Len(pre) = (p - 1) - 1 + 1
      /\ \A i \in 1..((p - 1) - 1 + 1) : pre[i] = s[1 + i - 1]
  <2>1. 1 \in Nat \ {0} /\ p - 1 <= Len(s) /\ 1 <= (p - 1) + 1
    BY <1>0
  <2> QED  BY <1>0, <2>1, PartOf
<1>2. rest \in Seq(Bytes)
  <2>1. Len(s) <= Len(s) /\ p + 1 <= Len(s) + 1
    BY <1>0, SMTT(30)
  <2> QED  BY <1>0, <2>1, PartOf
<1>3. s = (pre \o <<"LF">>) \o rest
  <2>1. /\ 1 \in 1..Len(s) /\ p \in 1..Len(s) /\ 1 \in 1..(Len(s) + 1)
        /\ p \in (1 - 1)..Len(s) /\ Len(s) \in p..Len(s)
    BY <1>0
  <2>2. SubSeq(s, 1, p) = pre \o <<s[p]>>
    BY <2>1, SubSeqRecursiveSecond
  <2>3. SubSeq(s, 1, p) \o rest = SubSeq(s, 1, Len(s))
    BY <2>1, ConcatAdjacentSubSeq
  <2>4. SubSeq(s, 1, Len(s)) = s
    BY SubSeqFull
  <2> QED  BY <2>2, <2>3, <2>4
<1> HIDE DEF pre, rest
<1>4. "LF" \notin ToSet(pre)
  <2>1. ASSUME NEW i \in 1..Len(pre), pre[i] = "LF" PROVE FALSE
    <3>1. i \in 1..Len(s) /\ i < p /\ 1 + i - 1 = i
      BY <1>0, <1>1, <2>1
    <3>2. s[i] = "LF"
      BY <1>1, <2>1, <3>1
    <3> QED  BY <3>1, <3>2
  <2> QED  BY <1>1, <2>1, ElementsAt
<1>5. LFs(pre) = 0
  BY <1>1, <1>4, LFsFacts
<1> QED  BY <1>1, <1>2, <1>3, <1>5 DEF pre, rest, Rest

-----------------------------------------------------------------------------
(* The session *)

\* handle_read with the bytes of its read: up to the line end, if there is one,
\* they go to line_ (pre), and what follows it stays in the buffer (rest).
ReadForm(bytes, pre, rest) ==
  /\ got' = got \o bytes /\ burst' = (burst \/ LFs(bytes) > 1)
  /\ LFs(pre) = 0
  /\ \/ /\ buffer \o bytes = pre /\ rest = << >>
        /\ line' = line \o UpToNUL(pre) /\ buffer' = rest
        /\ UNCHANGED <<lines, stream, thrown>>
     \/ /\ buffer \o bytes = (pre \o <<"LF">>) \o rest
        /\ line' = << >> /\ buffer' = rest
        /\ handle_line(line \o UpToNUL(pre))

LEMMA HandleReadForm ==
  ASSUME SessionTypes, handle_read
  PROVE  \E bytes, pre, rest \in Seq(Bytes) :
           bytes = Head(handlers).bytes /\ ReadForm(bytes, pre, rest)
<1>1. handlers # << >> /\ handlers \in Seq(Completions) /\ buffer \in Seq(Bytes)
  BY DEF handle_read, SessionTypes
<1>2. Head(handlers) \in Completions
  <2> DEFINE C == Completions
  <2>1. handlers \in Seq(C)
    BY <1>1
  <2> HIDE DEF C
  <2>2. Head(handlers) \in C
    BY <1>1, <2>1
  <2> QED  BY <2>2 DEF C
<1>3. PICK bytes \in Seq(Bytes) : bytes = Head(handlers).bytes
  BY <1>2 DEF Completions
<1>4. PICK all \in Seq(Bytes) : all = buffer \o bytes
  <2>1. buffer \o bytes \in Seq(Bytes)
    BY <1>1, ConcatProperties
  <2> QED  BY <2>1, Zenon
<1> DEFINE ends == {i \in DOMAIN all : all[i] = "LF"}
           p == CHOOSE i \in ends : \A j \in ends : i <= j
<1>5. /\ got' = got \o bytes /\ burst' = (burst \/ LFs(bytes) > 1)
      /\ IF ends = {}
         THEN /\ line' = line \o UpToNUL(all) /\ buffer' = << >>
              /\ UNCHANGED <<lines, stream, thrown>>
         ELSE /\ handle_line(line \o UpToNUL(SubSeq(all, 1, p - 1)))
              /\ line' = << >> /\ buffer' = Rest(all, p)
  BY <1>3, <1>4 DEF handle_read
<1>6. CASE ends = {}
  <2>1. LFs(all) = 0
    <3>1. "LF" \notin ToSet(all)
      BY <1>6 DEF ToSet
    <3> QED  BY <3>1, LFsFacts
  <2>2. ReadForm(bytes, all, << >>)
    BY <1>4, <1>5, <1>6, <2>1 DEF ReadForm
  <2> QED  BY <1>3, <2>2, LFsOfOne
<1>7. CASE ends # {}
  <2>0. DOMAIN all = 1..Len(all) /\ Len(all) \in Nat
    OBVIOUS
  <2>1. ends \subseteq Nat /\ ends \subseteq 1..Len(all)
    BY <2>0
  <2>2. \E i \in ends : \A j \in ends : i <= j
    <3> HIDE DEF ends
    <3> QED  BY <1>7, <2>1, LeastNat
  <2>3. p \in ends /\ \A j \in ends : p <= j
    <3> HIDE DEF ends
    <3> QED  BY <2>2, Zenon
  <2> HIDE DEF p
  <2>4. p \in 1..Len(all) /\ all[p] = "LF" /\ \A j \in 1..Len(all) : all[j] = "LF" => p <= j
    BY <2>0, <2>3
  <2>5. PICK pre, rest \in Seq(Bytes) :
           /\ pre = SubSeq(all, 1, p - 1) /\ rest = Rest(all, p)
           /\ LFs(pre) = 0 /\ all = (pre \o <<"LF">>) \o rest
    BY <2>4, CutLine
  <2>6. ReadForm(bytes, pre, rest)
    BY <1>4, <1>5, <1>7, <2>5 DEF ReadForm
  <2> QED  BY <1>3, <2>5, <2>6
<1> QED  BY <1>6, <1>7

\* Line ends in what a read leaves.
LEMMA ReadCounts ==
  ASSUME SessionTypes, NEW bytes \in Seq(Bytes), NEW pre \in Seq(Bytes), NEW rest \in Seq(Bytes),
         ReadForm(bytes, pre, rest)
  PROVE  /\ LFs(rest) \in Nat /\ LFs(bytes) \in Nat /\ LFs(buffer) \in Nat
         /\ \/ LFs(rest) = 0
            \/ LFs(buffer) + LFs(bytes) = 1 + LFs(rest)
         /\ Len(rest) <= Len(buffer) + Len(bytes)
         /\ Len(rest) = 0 \/ Len(rest) < Len(buffer) + Len(bytes)
<1>0. buffer \in Seq(Bytes)
  BY DEF SessionTypes
<1>1. LFs(rest) \in Nat /\ LFs(bytes) \in Nat /\ LFs(buffer) \in Nat /\ LFs(pre) = 0
  BY <1>0, LFsFacts DEF ReadForm
<1>2. LFs(buffer \o bytes) = LFs(buffer) + LFs(bytes) /\ Len(buffer \o bytes) = Len(buffer) + Len(bytes)
  BY <1>0, LFsConcat, ElementsOfConcat
<1>3. CASE rest = << >>
  BY <1>0, <1>1, <1>3, LFsOfOne
<1>4. CASE buffer \o bytes = (pre \o <<"LF">>) \o rest
  <2>1. PICK u \in Seq(Bytes) : u = pre \o <<"LF">> /\ Len(u) = Len(pre) + 1 /\ LFs(u) = 1
    <3>1. /\ pre \o <<"LF">> \in Seq(Bytes) /\ Len(pre \o <<"LF">>) = Len(pre) + Len(<<"LF">>)
          /\ LFs(pre \o <<"LF">>) = LFs(pre) + LFs(<<"LF">>)
      BY LFsOfOne, LFsConcat, ElementsOfConcat
    <3>2. Len(<<"LF">>) = 1
      OBVIOUS
    <3>3. Len(pre \o <<"LF">>) = Len(pre) + 1 /\ LFs(pre \o <<"LF">>) = 1
      BY <1>1, <3>1, <3>2, LFsOfOne
    <3> QED  BY <3>1, <3>3, Zenon
  <2>2. LFs(u \o rest) = LFs(u) + LFs(rest) /\ Len(u \o rest) = Len(u) + Len(rest)
    BY LFsConcat, ElementsOfConcat
  <2>3. Len(pre) \in Nat /\ Len(rest) \in Nat
    OBVIOUS
  <2> QED  BY <1>1, <1>2, <1>4, <2>1, <2>2, <2>3
<1> QED  BY <1>3, <1>4 DEF ReadForm

LEMMA LineTypes ==
  ASSUME SessionTypes, NEW bytes \in Seq(Bytes), NEW pre \in Seq(Bytes), NEW rest \in Seq(Bytes),
         ReadForm(bytes, pre, rest)
  PROVE  /\ got' \in Seq(Bytes) /\ line' \in Seq(Bytes) /\ buffer' = rest
         /\ lines' \in Seq(Seq(Bytes)) /\ burst' \in BOOLEAN /\ thrown' \in BOOLEAN
<1>0. got \in Seq(Bytes) /\ line \in Seq(Bytes) /\ lines \in Seq(Seq(Bytes)) /\ thrown \in BOOLEAN
      /\ burst \in BOOLEAN
  BY DEF SessionTypes
<1>1. got' \in Seq(Bytes) /\ burst' \in BOOLEAN /\ buffer' = rest
  BY <1>0 DEF ReadForm
<1>2. UpToNUL(pre) \in Seq(Bytes) /\ << >> \in Seq(Bytes)
  BY UpToNULFacts
<1>3. PICK l \in Seq(Bytes) : l = line \o UpToNUL(pre)
  <2>1. line \o UpToNUL(pre) \in Seq(Bytes)
    BY <1>0, <1>2, ConcatProperties
  <2> QED  BY <2>1, Zenon
<1>4. PICK Q : Q = Seq(Bytes)
  OBVIOUS
<1>5. Append(lines, l) \in Seq(Q)
  BY <1>0, <1>3, <1>4
<1> QED  BY <1>0, <1>1, <1>2, <1>3, <1>4, <1>5 DEF ReadForm, handle_line

\* The lines handled, each with its end, joined.
Ended(ls) == [i \in DOMAIN ls |-> Append(ls[i], "LF")]
Handled(ls) == FlattenSeq(Ended(ls))

LEMMA HandledFacts ==
  ASSUME NEW ls \in Seq(Seq(Bytes)), NEW l \in Seq(Bytes)
  PROVE  /\ Handled(ls) \in Seq(Bytes)
         /\ Handled(Append(ls, l)) = Handled(ls) \o (l \o <<"LF">>)
<1>0. PICK Q : Q = Seq(Bytes)
  OBVIOUS
<1>1. ls \in Seq(Q) /\ l \in Q /\ Len(ls) \in Nat /\ DOMAIN ls = 1..Len(ls)
  BY <1>0
<1>2. ASSUME NEW u \in Q PROVE Append(u, "LF") \in Q /\ Append(u, "LF") = u \o <<"LF">>
  <2>1. u \in Seq(Bytes) /\ "LF" \in Bytes
    BY <1>0, <1>2 DEF Bytes
  <2> QED  BY <1>0, <2>1, AppendProperties, AppendIsConcat
<1>3. Ended(ls) \in Seq(Q) /\ Len(Ended(ls)) = Len(ls) /\ \A i \in 1..Len(ls) : Ended(ls)[i] = Append(ls[i], "LF")
  BY <1>1, <1>2 DEF Ended
<1>4. PICK ms \in Seq(Q) : /\ ms = Append(ls, l) /\ Len(ms) = Len(ls) + 1 /\ ms[Len(ls) + 1] = l
                           /\ DOMAIN ms = 1..(Len(ls) + 1)
                           /\ \A i \in 1..Len(ls) : ms[i] = ls[i]
  <2>1. PICK ms : ms = Append(ls, l)
    OBVIOUS
  <2>2. /\ ms \in Seq(Q) /\ Len(ms) = Len(ls) + 1 /\ ms[Len(ls) + 1] = l
        /\ \A i \in 1..Len(ls) : ms[i] = ls[i]
    BY <1>1, <2>1, AppendProperties
  <2>3. DOMAIN ms = 1..(Len(ls) + 1)
    BY <2>2
  <2> QED  BY <2>1, <2>2, <2>3
<1>5. PICK x \in Q : x = Append(l, "LF") /\ x = l \o <<"LF">>
  BY <1>1, <1>2
<1>6. Ended(ms) = Append(Ended(ls), x)
  <2>1. /\ Ended(ms) \in Seq(Q) /\ Len(Ended(ms)) = Len(ls) + 1
        /\ \A i \in 1..(Len(ls) + 1) : Ended(ms)[i] = Append(ms[i], "LF")
    BY <1>1, <1>2, <1>4 DEF Ended
  <2>2. PICK v \in Seq(Q) : /\ v = Append(Ended(ls), x) /\ Len(v) = Len(ls) + 1 /\ v[Len(ls) + 1] = x
                            /\ \A i \in 1..Len(ls) : v[i] = Ended(ls)[i]
    <3>1. PICK v : v = Append(Ended(ls), x)
      OBVIOUS
    <3>2. /\ v \in Seq(Q) /\ Len(v) = Len(ls) + 1 /\ v[Len(ls) + 1] = x
          /\ \A i \in 1..Len(ls) : v[i] = Ended(ls)[i]
      BY <1>3, <3>1, AppendProperties
    <3> QED  BY <3>1, <3>2
  <2>3. ASSUME NEW i \in 1..(Len(ls) + 1) PROVE Ended(ms)[i] = v[i]
    <3>1. CASE i = Len(ls) + 1
      BY <1>4, <1>5, <2>1, <2>2, <3>1
    <3>2. CASE i \in 1..Len(ls)
      BY <1>3, <1>4, <2>1, <2>2, <3>2
    <3> QED  BY <1>1, <3>1, <3>2
  <2>4. PICK w \in Seq(Q) : w = Ended(ms)
    BY <2>1
  <2>5. w = v
    BY <2>1, <2>2, <2>3, <2>4, SeqEqual
  <2> QED  BY <2>2, <2>4, <2>5
<1>7. /\ FlattenSeq(Ended(ls)) \in Seq(Bytes)
      /\ FlattenSeq(Append(Ended(ls), x)) = FlattenSeq(Ended(ls)) \o x
  BY <1>0, <1>3, <1>5, FlattenAppend
<1> QED  BY <1>4, <1>5, <1>6, <1>7 DEF Handled

\* Joining texts: brackets do not matter, and bytes and line ends add up.
Texts == Seq(Bytes)
Join(a, b) == a \o b

LEMMA JoinFacts ==
  ASSUME NEW a \in Texts, NEW b \in Texts
  PROVE  /\ Join(a, b) \in Texts /\ Join(a, << >>) = a
         /\ LFs(a) \in Nat /\ LFs(Join(a, b)) = LFs(a) + LFs(b)
         /\ ToSet(Join(a, b)) = ToSet(a) \cup ToSet(b)
<1>1. a \in Seq(Bytes) /\ b \in Seq(Bytes)
  BY DEF Texts
<1>2. a \o b \in Seq(Bytes) /\ a \o << >> = a /\ ToSet(a \o b) = ToSet(a) \cup ToSet(b)
  BY <1>1, ElementsOfConcat, ConcatEmptySeq
<1>3. LFs(a) \in Nat /\ LFs(a \o b) = LFs(a) + LFs(b)
  BY <1>1, LFsFacts, LFsConcat
<1> QED  BY <1>2, <1>3 DEF Texts, Join

LEMMA Brackets ==
  ASSUME NEW a \in Texts, NEW b \in Texts, NEW c \in Texts
  PROVE  Join(Join(a, b), c) = Join(a, Join(b, c))
<1>1. a \in Seq(Bytes) /\ b \in Seq(Bytes) /\ c \in Seq(Bytes)
  BY DEF Texts
<1>2. (a \o b) \o c = a \o (b \o c)
  BY <1>1, ConcatAssociative, SMT
<1> QED  BY <1>2 DEF Join

\* handle_read keeps the text whole.
LEMMA FramingRead ==
  ASSUME SessionTypes, Framing,
         NEW bytes \in Texts, NEW pre \in Texts, NEW rest \in Texts,
         ReadForm(bytes, pre, rest)
  PROVE  Framing'
<1>1. PICK H, l, b, g \in Texts : /\ H = Handled(lines) /\ l = line /\ b = buffer /\ g = got
                                  /\ Text = Join(Join(H, l), b)
  <2>1. lines \in Seq(Seq(Bytes)) /\ line \in Seq(Bytes) /\ buffer \in Seq(Bytes) /\ got \in Seq(Bytes)
    BY DEF SessionTypes
  <2>2. Handled(lines) \in Seq(Bytes)
    BY <2>1, HandledFacts
  <2>3. Text = (Handled(lines) \o line) \o buffer
    BY DEF Text, Handled, Ended
  <2> QED  BY <2>1, <2>2, <2>3, Zenon DEF Texts, Join
<1>2. PICK U \in Texts : /\ U = UpToNUL(pre) /\ LFs(U) = 0
                         /\ "NUL" \notin ToSet(pre) => U = pre
  BY UpToNULFacts DEF ReadForm, Texts
<1>3. /\ LFs(H) \in Nat /\ LFs(l) \in Nat /\ LFs(b) \in Nat /\ LFs(g) \in Nat
      /\ LFs(bytes) \in Nat /\ LFs(rest) \in Nat /\ LFs(pre) = 0
  BY JoinFacts DEF ReadForm
<1>4. LFs(g) = LFs(H) + LFs(l) + LFs(b)
  BY <1>1, JoinFacts DEF Framing
<1>5. /\ got' = Join(g, bytes) /\ LFs(Join(g, bytes)) = LFs(g) + LFs(bytes)
      /\ LFs(Join(b, bytes)) = LFs(b) + LFs(bytes)
  BY <1>1, JoinFacts DEF ReadForm, Join
<1>6. ASSUME "NUL" \notin ToSet(got')
      PROVE  /\ "NUL" \notin ToSet(Join(b, bytes))
             /\ got' = Join(H, Join(l, Join(b, bytes)))
  <2>1. "NUL" \notin ToSet(g) /\ "NUL" \notin ToSet(bytes)
    BY <1>5, <1>6, JoinFacts
  <2>2. g = Join(Join(H, l), b)
    BY <1>1, <2>1 DEF Framing
  <2>3. Join(H, l) \in Texts /\ Join(b, bytes) \in Texts
    BY JoinFacts
  <2>4. "NUL" \notin ToSet(b)
    BY <2>1, <2>2, <2>3, JoinFacts
  <2>5. "NUL" \notin ToSet(Join(b, bytes))
    BY <2>1, <2>4, JoinFacts
  <2>6. got' = Join(Join(H, l), Join(b, bytes))
    BY <1>5, <2>2, <2>3, Brackets
  <2>7. got' = Join(H, Join(l, Join(b, bytes)))
    BY <2>3, <2>6, Brackets
  <2> QED  BY <2>5, <2>7
<1>7. CASE /\ Join(b, bytes) = pre
           /\ line' = Join(l, U) /\ buffer' = << >> /\ lines' = lines
  <2>1. Text' = Join(Join(H, Join(l, U)), << >>)
    BY <1>1, <1>7 DEF Text, Handled, Ended, Join
  <2>2. PICK v \in Texts : v = Join(l, U)
    BY JoinFacts
  <2>3. Text' = Join(H, v)
    BY <2>1, <2>2, JoinFacts
  <2>4. LFs(Join(H, v)) = LFs(H) + LFs(v) /\ LFs(v) = LFs(l) + LFs(U)
    BY <2>2, JoinFacts
  <2>5. LFs(Text') = LFs(got')
    BY <1>2, <1>3, <1>4, <1>5, <1>7, <2>3, <2>4
  <2>6. ASSUME "NUL" \notin ToSet(got') PROVE Text' = got'
    BY <1>2, <1>6, <1>7, <2>2, <2>3, <2>6
  <2> QED  BY <2>5, <2>6 DEF Framing
<1>8. ASSUME NEW e, e = <<"LF">>,
             Join(b, bytes) = Join(Join(pre, e), rest),
             line' = << >>, buffer' = rest, lines' = Append(lines, Join(l, U))
      PROVE  Framing'
  <2>0. e \in Texts /\ LFs(e) = 1
    BY <1>8, LFsOfOne DEF Texts
  <2>1. PICK v \in Texts : v = Join(l, U)
    BY JoinFacts
  <2>2. Handled(lines') = Join(H, Join(v, e))
    <3>1. lines \in Seq(Seq(Bytes)) /\ v \in Seq(Bytes)
      BY DEF SessionTypes, Texts
    <3> QED  BY <1>1, <1>8, <2>1, <3>1, HandledFacts DEF Join
  <2>3. PICK w \in Texts : w = Join(H, Join(v, e)) /\ w = Join(Join(H, v), e)
    BY <2>0, JoinFacts, Brackets
  <2>4. Text' = Join(w, rest)
    <3>1. Text' = Join(Join(Handled(lines'), line'), buffer')
      BY DEF Text, Handled, Ended, Join
    <3> QED  BY <1>8, <2>2, <2>3, <3>1, JoinFacts
  <2>5. LFs(Join(w, rest)) = LFs(H) + LFs(l) + 1 + LFs(rest)
    <3>1. Join(H, v) \in Texts
      BY JoinFacts
    <3>2. /\ LFs(Join(w, rest)) = LFs(w) + LFs(rest) /\ LFs(w) = LFs(Join(H, v)) + LFs(e)
          /\ LFs(Join(H, v)) = LFs(H) + LFs(v) /\ LFs(v) = LFs(l) + LFs(U)
      BY <2>0, <2>1, <2>3, <3>1, JoinFacts
    <3> QED  BY <1>2, <1>3, <2>0, <3>2
  <2>6. LFs(Join(b, bytes)) = 1 + LFs(rest)
    <3>1. Join(pre, e) \in Texts
      BY <2>0, JoinFacts
    <3>2. /\ LFs(Join(Join(pre, e), rest)) = LFs(Join(pre, e)) + LFs(rest)
          /\ LFs(Join(pre, e)) = LFs(pre) + LFs(e)
      BY <2>0, <3>1, JoinFacts
    <3> QED  BY <1>3, <1>8, <2>0, <3>2
  <2>7. LFs(Text') = LFs(got')
    BY <1>3, <1>4, <1>5, <2>4, <2>5, <2>6
  <2>8. ASSUME "NUL" \notin ToSet(got') PROVE Text' = got'
    <3>1. PICK q \in Texts : q = Join(pre, e)
      BY <2>0, JoinFacts
    <3>2. "NUL" \notin ToSet(Join(q, rest))
      BY <1>6, <1>8, <2>8, <3>1
    <3>3. "NUL" \notin ToSet(pre)
      BY <2>0, <3>1, <3>2, JoinFacts
    <3>4. v = Join(l, pre)
      BY <1>2, <2>1, <3>3
    <3>5. w = Join(H, Join(l, q))
      BY <2>0, <2>3, <3>1, <3>4, Brackets
    <3>6. Join(l, q) \in Texts
      BY JoinFacts
    <3>7. Join(w, rest) = Join(H, Join(Join(l, q), rest))
      BY <3>5, <3>6, Brackets
    <3>8. Join(Join(l, q), rest) = Join(l, Join(q, rest))
      BY Brackets
    <3> QED  BY <1>6, <1>8, <2>4, <2>8, <3>1, <3>7, <3>8
  <2> QED  BY <2>7, <2>8 DEF Framing
<1>9. \/ /\ Join(b, bytes) = pre /\ line' = Join(l, U) /\ buffer' = << >> /\ lines' = lines
      \/ /\ Join(b, bytes) = Join(Join(pre, <<"LF">>), rest)
         /\ line' = << >> /\ buffer' = rest /\ lines' = Append(lines, Join(l, U))
  BY <1>1, <1>2, Zenon DEF ReadForm, handle_line, Join
<1> QED  BY <1>7, <1>8, <1>9

\* A completed operation is queued; a handler is taken from the queue.
LEMMA Queued ==
  ASSUME NEW q \in Seq(Completions), NEW m \in Completions, NEW begun, NEW b,
         Waiting(q, begun, b)
  PROVE  /\ Append(q, m) \in Seq(Completions)
         /\ m.h # "read" => Waiting(Append(q, m), begun, b) /\ Waiting(Append(q, m), FALSE, b)
         /\ m.h = "read" /\ begun = TRUE /\ Len(b) + Len(m.bytes) <= max_length
              => Waiting(Append(q, m), FALSE, b)
<1> DEFINE C == Completions
<1>0. q \in Seq(C) /\ m \in C
  OBVIOUS
<1> HIDE DEF C
<1>1. PICK u : u = Append(q, m)
  OBVIOUS
<1>2. /\ Len(q) \in Nat /\ u \in Seq(C) /\ DOMAIN u = 1..(Len(q) + 1) /\ DOMAIN q = 1..Len(q)
      /\ u[Len(q) + 1] = m /\ \A i \in 1..Len(q) : u[i] = q[i]
  BY <1>0, <1>1
<1>3. \A i \in DOMAIN u : i \in DOMAIN q \/ i = Len(q) + 1
  BY <1>2
<1>4. \A i \in DOMAIN q : u[i] = q[i]
  BY <1>2
<1>5. PICK n : n = Len(q) + 1 /\ u[n] = m
  BY <1>2
<1>6. ASSUME m.h # "read", NEW d, d = begun \/ d = FALSE PROVE Waiting(u, d, b)
  <2>1. \A i \in DOMAIN u : u[i].h = "read" => i \in DOMAIN q
    BY <1>3, <1>5, <1>6, Zenon
  <2> QED  BY <1>4, <1>6, <2>1, Zenon DEF Waiting
<1>7. ASSUME m.h = "read", begun = TRUE, Len(b) + Len(m.bytes) <= max_length
      PROVE  Waiting(u, FALSE, b)
  <2>1. \A i \in DOMAIN u : u[i].h = "read" => i = n
    <3>1. \A i \in DOMAIN q : q[i].h # "read"
      BY <1>7 DEF Waiting
    <3> QED  BY <1>3, <1>4, <1>5, <3>1, Zenon
  <2> QED  BY <1>5, <1>7, <2>1, Zenon DEF Waiting
<1>8. u \in Seq(Completions)
  BY <1>2 DEF C
<1> QED  BY <1>1, <1>6, <1>7, <1>8

LEMMA Taken ==
  ASSUME NEW q \in Seq(Completions), q # << >>, NEW begun, NEW b, Waiting(q, begun, b)
  PROVE  /\ Tail(q) \in Seq(Completions) /\ Head(q) \in Completions
         /\ Waiting(Tail(q), begun, b)
         /\ Head(q).h = "read" => /\ Len(b) + Len(Head(q).bytes) <= max_length
                                  /\ \A d, c : Waiting(Tail(q), d, c)
<1> DEFINE C == Completions
<1>0. q \in Seq(C)
  OBVIOUS
<1> HIDE DEF C
<1>1. PICK u : u = Tail(q)
  OBVIOUS
<1>2. /\ u \in Seq(C) /\ Head(q) \in C /\ Head(q) = q[1]
      /\ DOMAIN q = 1..Len(q) /\ Len(q) \in Nat \ {0} /\ DOMAIN u = 1..(Len(q) - 1)
      /\ \A i \in DOMAIN u : u[i] = q[i + 1]
  BY <1>0, <1>1
<1>3. 1 \in DOMAIN q
  BY <1>2
<1>4. \A i \in DOMAIN u : i \in Int /\ i + 1 \in DOMAIN q /\ i + 1 # 1
  BY <1>2
<1>5. ASSUME NEW i \in DOMAIN u, u[i].h = "read"
      PROVE  begun = FALSE /\ Len(b) + Len(u[i].bytes) <= max_length
  BY <1>2, <1>4, <1>5, Zenon DEF Waiting
<1>6. ASSUME NEW i \in DOMAIN u, NEW j \in DOMAIN u, u[i].h = "read", u[j].h = "read"
      PROVE  i = j
  <2>1. i + 1 = j + 1
    BY <1>2, <1>4, <1>6, Zenon DEF Waiting
  <2> QED  BY <1>4, <2>1
<1>7. Waiting(u, begun, b)
  BY <1>5, <1>6, Zenon DEF Waiting
<1>8. ASSUME Head(q).h = "read"
      PROVE  Len(b) + Len(Head(q).bytes) <= max_length /\ \A d, c : Waiting(u, d, c)
  <2>1. \A i \in DOMAIN u : u[i].h # "read"
    BY <1>2, <1>3, <1>4, <1>8, Zenon DEF Waiting
  <2>2. Len(b) + Len(Head(q).bytes) <= max_length
    BY <1>2, <1>3, <1>8, Zenon DEF Waiting
  <2> QED  BY <2>1, <2>2, Zenon DEF Waiting
<1> QED  BY <1>1, <1>2, <1>7, <1>8 DEF C

\* What changes nothing that was read keeps the framing.
LEMMA FramingSame ==
  ASSUME Framing, UNCHANGED <<lines, line, buffer, got>>
  PROVE  Framing'
BY DEF Framing, Text

LEMMA ReadStep ==
  ASSUME SessionInv, handle_read
  PROVE  SessionInv'
<1>0. SessionTypes /\ Reads /\ Unstarted /\ Framing
  BY DEF SessionInv
<1>1. PICK bytes, pre, rest \in Seq(Bytes) :
        bytes = Head(handlers).bytes /\ ReadForm(bytes, pre, rest)
  BY <1>0, HandleReadForm
<1>2. /\ handlers # << >> /\ Head(handlers).h = "read" /\ handlers' = Tail(handlers)
      /\ timer' = TRUE /\ reading' = ~thrown' /\ UNCHANGED <<wire, peer, socket>>
  BY Zenon DEF handle_read
<1>3. /\ got' \in Seq(Bytes) /\ line' \in Seq(Bytes) /\ buffer' = rest
      /\ lines' \in Seq(Seq(Bytes)) /\ burst' \in BOOLEAN /\ thrown' \in BOOLEAN
  BY <1>0, <1>1, LineTypes
<1>4. /\ handlers' \in Seq(Completions)
      /\ Len(buffer) + Len(bytes) <= max_length /\ \A d, c : Waiting(handlers', d, c)
  BY <1>0, <1>1, <1>2, Taken DEF SessionTypes, Reads
<1>5. SessionTypes'
  BY <1>0, <1>2, <1>3, <1>4 DEF SessionTypes
<1>6. /\ LFs(rest) \in Nat /\ LFs(bytes) \in Nat /\ LFs(buffer) \in Nat
      /\ \/ LFs(rest) = 0
         \/ LFs(buffer) + LFs(bytes) = 1 + LFs(rest)
      /\ Len(rest) = 0 \/ Len(rest) < Len(buffer) + Len(bytes)
  BY <1>0, <1>1, ReadCounts
<1>7. Len(rest) < max_length
  <2>1. Len(rest) \in Nat /\ Len(bytes) \in Nat /\ Len(buffer) \in Nat
    BY <1>0 DEF SessionTypes
  <2> QED  BY <1>4, <1>6, <2>1, LengthAssumption
<1>8. LFs(rest) > 0 => burst'
  <2>1. burst' = (burst \/ LFs(bytes) > 1)
    BY <1>1, Zenon DEF ReadForm
  <2>2. LFs(buffer) > 0 => burst
    BY <1>0 DEF Reads
  <2>3. LFs(rest) > 0 => LFs(buffer) > 0 \/ LFs(bytes) > 1
    BY <1>6
  <2> QED  BY <2>1, <2>2, <2>3, Zenon
<1>9. Reads'
  BY <1>3, <1>4, <1>7, <1>8 DEF Reads
<1>10. Framing'
  BY <1>0, <1>1, FramingRead DEF Texts
<1> QED  BY <1>0, <1>2, <1>5, <1>9, <1>10 DEF SessionInv, Unstarted

LEMMA ReadCompletesStep ==
  ASSUME SessionInv, ReadCompletes
  PROVE  SessionInv'
<1>0. SessionTypes /\ Reads /\ Unstarted /\ Framing
  BY DEF SessionInv
<1>1. /\ reading /\ reading' = FALSE
      /\ UNCHANGED <<peer, socket, timer, buffer, line, lines, got, burst, thrown, stream>>
  BY Zenon DEF ReadCompletes
<1>2. Framing'
  BY <1>0, <1>1, FramingSame
<1>3. ASSUME NEW m \in Completions, handlers' = Append(handlers, m), wire' \in Seq(Bytes),
             m.h = "read" => Len(buffer) + Len(m.bytes) <= max_length
      PROVE  SessionInv'
  <2>1. handlers \in Seq(Completions) /\ Waiting(handlers, reading, buffer) /\ reading = TRUE
    BY <1>0, <1>1 DEF SessionTypes, Reads
  <2>2. handlers' \in Seq(Completions) /\ Waiting(handlers', FALSE, buffer)
    BY <1>3, <2>1, Queued
  <2>3. Reads'
    BY <1>0, <1>1, <2>2 DEF Reads
  <2>4. SessionTypes'
    BY <1>0, <1>1, <1>3, <2>2 DEF SessionTypes
  <2>5. Unstarted'
    BY <1>0, <1>1 DEF Unstarted
  <2> QED  BY <1>2, <2>3, <2>4, <2>5 DEF SessionInv
<1>4. ASSUME NEW n \in 1..(max_length - Len(buffer)), n <= Len(wire),
             wire' = SubSeq(wire, n + 1, Len(wire)),
             handlers' = Append(handlers, ReadDone(SubSeq(wire, 1, n)))
      PROVE  SessionInv'
  <2>0. wire \in Seq(Bytes) /\ Len(wire) \in Nat /\ n \in Nat \ {0} /\ n + 1 \in Nat \ {0}
        /\ Len(buffer) \in Nat
    BY <1>0, LengthAssumption DEF SessionTypes
  <2>1. SubSeq(wire, 1, n) \in Seq(Bytes) /\ Len(SubSeq(wire, 1, n)) = n - 1 + 1
    <3>1. 1 \in Nat \ {0} /\ n \in Nat /\ 1 <= n + 1
      BY <2>0
    <3> QED  BY <1>4, <2>0, <3>1, PartOf
  <2>2. wire' \in Seq(Bytes)
    <3>1. Len(wire) <= Len(wire) /\ n + 1 <= Len(wire) + 1
      BY <1>4, <2>0
    <3> QED  BY <1>4, <2>0, <3>1, PartOf
  <2>3. PICK m : m = ReadDone(SubSeq(wire, 1, n))
    OBVIOUS
  <2>4. m \in Completions /\ m.bytes = SubSeq(wire, 1, n)
    BY <2>1, <2>3 DEF ReadDone, Completions
  <2>5. Len(buffer) + Len(m.bytes) <= max_length
    BY <2>0, <2>1, <2>4, LengthAssumption
  <2> QED  BY <1>3, <1>4, <2>2, <2>3, <2>4, <2>5
<1>5. ASSUME handlers' = Append(handlers, ReadFailed), wire' = wire PROVE SessionInv'
  <2>1. ReadFailed \in Completions /\ ReadFailed.h # "read"
    BY LFsOfOne DEF ReadFailed, Completions
  <2>2. wire' \in Seq(Bytes)
    BY <1>0, <1>5 DEF SessionTypes
  <2> QED  BY <1>3, <1>5, <2>1, <2>2
<1> QED  BY <1>4, <1>5 DEF ReadCompletes

\* The steps of the session other than reads.
LEMMA ConnectionStep ==
  ASSUME SessionInv,
         \/ handle_accept \/ PeerCloses \/ TimerExpires \/ handle_read_error
         \/ handle_connection_dead_timer \/ session_destroyed
  PROVE  SessionInv'
<1>0. SessionTypes /\ Reads /\ Unstarted /\ Framing
  BY DEF SessionInv
<1>1. UNCHANGED <<wire, buffer, line, lines, got, burst, thrown, stream>>
  BY Zenon DEF handle_accept, PeerCloses, TimerExpires, handle_read_error,
     handle_connection_dead_timer, session_destroyed
<1>2. Framing'
  BY <1>0, <1>1, FramingSame
<1>3. handlers \in Seq(Completions) /\ Waiting(handlers, reading, buffer)
  BY <1>0 DEF SessionTypes, Reads
<1>4. ASSUME handlers' \in Seq(Completions), Waiting(handlers', reading', buffer),
             peer' \in BOOLEAN, reading' \in BOOLEAN, timer' \in BOOLEAN,
             socket' \in {"new", "open", "closed", "freed"}, Unstarted'
      PROVE  SessionInv'
  BY <1>0, <1>1, <1>2, <1>4 DEF SessionInv, SessionTypes, Reads
<1>5. CASE handle_accept
  <2>1. handlers = << >> /\ handlers' = handlers
    BY <1>0, <1>5 DEF handle_accept, Unstarted
  <2>2. Waiting(handlers', reading', buffer)
    BY <2>1 DEF Waiting
  <2> QED  BY <1>0, <1>3, <1>4, <1>5, <2>1, <2>2 DEF handle_accept, SessionTypes, Unstarted
<1>6. CASE PeerCloses
  BY <1>0, <1>3, <1>4, <1>6 DEF PeerCloses, SessionTypes, Unstarted
<1>7. CASE TimerExpires
  <2>1. TimerDone \in Completions /\ TimerDone.h # "read"
    BY LFsOfOne DEF TimerDone, Completions
  <2>2. handlers' \in Seq(Completions) /\ Waiting(handlers', reading, buffer)
    BY <1>3, <1>7, <2>1, Queued DEF TimerExpires
  <2> QED  BY <1>0, <1>4, <1>7, <2>2 DEF TimerExpires, SessionTypes, Unstarted
<1>8. CASE handle_read_error \/ handle_connection_dead_timer
  <2>1. handlers # << >> /\ handlers' = Tail(handlers) /\ UNCHANGED <<peer, reading, timer>>
    BY <1>8, Zenon DEF handle_read_error, handle_connection_dead_timer
  <2>2. handlers' \in Seq(Completions) /\ Waiting(handlers', reading, buffer)
    BY <1>3, <2>1, Taken
  <2>3. socket' \in {"new", "open", "closed", "freed"}
    BY <1>0, <1>8 DEF handle_read_error, handle_connection_dead_timer, SessionTypes
  <2>4. socket' # "new"
    BY <1>0, <1>8, <2>1 DEF handle_read_error, handle_connection_dead_timer, Unstarted
  <2> QED  BY <1>0, <1>4, <2>1, <2>2, <2>3, <2>4 DEF SessionTypes, Unstarted
<1>9. CASE session_destroyed
  BY <1>0, <1>3, <1>4, <1>9 DEF session_destroyed, SessionTypes, Unstarted
<1> QED  BY <1>5, <1>6, <1>7, <1>8, <1>9

LEMMA SessionSame ==
  ASSUME SessionInv, UNCHANGED sessionVars
  PROVE  SessionInv'
<1>1. UNCHANGED <<wire, peer, socket, reading, timer, handlers, buffer, line, lines, got, burst, thrown>>
  BY DEF sessionVars
<1>2. Framing'
  BY <1>1, FramingSame DEF SessionInv
<1> QED  BY <1>1, <1>2 DEF SessionInv, SessionTypes, Reads, Unstarted

LEMMA SessionStart == SessionInit => SessionInv
<1> SUFFICES ASSUME SessionInit PROVE SessionInv
  OBVIOUS
<1>1. << >> \in Seq(Bytes) /\ << >> \in Seq(Seq(Bytes)) /\ << >> \in Seq(Completions) /\ Len(<< >>) = 0
  OBVIOUS
<1>2. SessionTypes
  <2>1. wire \in Seq(Bytes)
    BY WiresAssumption DEF SessionInit, Bytes
  <2> QED  BY <1>1, <2>1 DEF SessionInit, SessionTypes
<1>3. Reads
  BY <1>1, LFsOfOne, LengthAssumption DEF SessionInit, Reads, Waiting
<1>4. Framing
  <2>1. lines = << >> /\ line = << >> /\ buffer = << >> /\ got = << >>
    BY DEF SessionInit
  <2>2. PICK z : z = [i \in DOMAIN lines |-> Append(lines[i], "LF")]
    OBVIOUS
  <2>3. z = << >>
    BY <2>1, <2>2
  <2>4. FlattenSeq(z) = << >>
    BY <2>3 DEF FlattenSeq
  <2>5. Text = (<< >> \o << >>) \o << >>
    BY <2>1, <2>2, <2>4 DEF Text
  <2>6. Text = << >>
    BY <2>5, <1>1, ConcatEmptySeq
  <2> QED  BY <2>1, <2>6 DEF Framing
<1>5. Unstarted
  BY DEF SessionInit, Unstarted
<1> QED  BY <1>2, <1>3, <1>4, <1>5 DEF SessionInv

-----------------------------------------------------------------------------
(* The way of the events *)

Queues ==
  /\ stream \in Seq(AllEvents) /\ sinkq \in Seq(AllEvents) /\ inflight \in Seq(AllEvents)
  /\ delivered \subseteq AllEvents /\ purged \subseteq AllEvents /\ retrying \in BOOLEAN
Control ==
  /\ program \in Programs /\ run \in BOOLEAN
  /\ main \in {"start", "serving", "stopping", "ended", "terminated"}
  /\ topo \in {"none", "loop", "flush", "ended"} /\ flushed \in BOOLEAN

LEMMA TypeParts ==
  ProxyTypes <=> /\ Queues /\ Control /\ req \in [Requests -> RequestStates]
                 /\ early \subseteq AllEvents
BY Zenon DEF ProxyTypes, Queues, Control

LEMMA FlowSame ==
  ASSUME FlowInv, UNCHANGED <<stream, proxyVars, lines>>
  PROVE  FlowInv'
<1>1. UNCHANGED <<stream, lines, program, run, main, req, topo, flushed, early, sinkq,
                  inflight, delivered, retrying, purged>>
  BY DEF proxyVars
<1>2. ProxyTypes' /\ Apart'
  BY <1>1 DEF FlowInv, ProxyTypes, Apart
<1>3. Present' = Present
  BY <1>1 DEF Present
<1>4. SoFar' /\ Flushing'
  BY <1>1, <1>3 DEF FlowInv, SoFar, Flushing, MetricSink
<1> QED  BY <1>2, <1>4 DEF FlowInv

\* A step of main, of a signal or of the topology's loop that moves no event.
LEMMA ControlStep ==
  ASSUME FlowInv, UNCHANGED <<stream, lines, program, req, flushed, early, sinkq,
                              inflight, delivered, retrying, purged>>,
         run' \in BOOLEAN, main' \in {"start", "serving", "stopping", "ended", "terminated"},
         topo' \in {"none", "loop", "flush", "ended"},
         main' = "start" => topo' = "none",
         topo' \in {"flush", "ended"} => ~run',
         flushed => topo' = "ended"
  PROVE  FlowInv'
<1>1. ProxyTypes' /\ Apart'
  BY DEF FlowInv, ProxyTypes, Apart
<1>2. Present' = Present
  BY DEF Present
<1>3. SoFar' /\ Flushing'
  BY <1>2 DEF FlowInv, SoFar, Flushing, MetricSink
<1> QED  BY <1>1, <1>3 DEF FlowInv

\* Events move on: none is lost, doubled or put back into the source.
LEMMA MoveStep ==
  ASSUME FlowInv, Queues', Apart', Present' = Present, ToSet(stream') \subseteq ToSet(stream),
         delivered \cup purged \subseteq delivered' \cup purged', Len(inflight') <= 1,
         purged' # {} => MetricSink,
         UNCHANGED <<lines, program, run, main, req, topo, flushed, early>>
  PROVE  FlowInv'
<1>1. ProxyTypes'
  BY DEF FlowInv, ProxyTypes, Queues
<1>2. SoFar'
  BY DEF FlowInv, SoFar
<1>3. MetricSink' <=> MetricSink
  BY DEF MetricSink
<1>4. Flushing'
  <2>1. flushed => \A e, f \in early \ (delivered' \cup purged') : e = f
    BY DEF FlowInv, Flushing
  <2> QED  BY <1>3, <2>1 DEF FlowInv, Flushing
<1> QED  BY <1>1, <1>2, <1>4 DEF FlowInv

\* A new event is put into the source.
LEMMA InsertFacts ==
  ASSUME Queues, Apart, NEW e \in AllEvents, e \notin Present, stream' = Append(stream, e),
         UNCHANGED <<sinkq, inflight, delivered, retrying, purged>>
  PROVE  Queues' /\ Apart' /\ Present' = Present \cup {e} /\ ToSet(stream') = ToSet(stream) \cup {e}
<1> DEFINE A == AllEvents
<1>0. stream \in Seq(A) /\ e \in A /\ IsInjective(stream)
  BY DEF Queues, Apart
<1>1. e \notin ToSet(stream) /\ e \notin ToSet(sinkq) /\ e \notin ToSet(inflight)
      /\ e \notin delivered /\ e \notin purged
  BY Zenon DEF Present
<1> HIDE DEF A
<1>2. /\ stream' \in Seq(A) /\ ToSet(stream') = ToSet(stream) \cup {e} /\ IsInjective(stream')
  BY <1>0, <1>1, ElementsOfAppend
<1>3. Queues'
  BY <1>2 DEF Queues, A
<1>4. Apart'
  BY <1>1, <1>2 DEF Apart
<1>5. Present' = Present \cup {e}
  BY <1>2 DEF Present
<1> QED  BY <1>2, <1>3, <1>4, <1>5

\* The state of one request changes, and it has inserted as many events as before.
LEMMA RequestStep ==
  ASSUME FlowInv, NEW r \in Requests, NEW q \in RequestStates, req' = [req EXCEPT ![r] = q],
         q.left <= q.size, q.st # "handling" => q.left = 0,
         q.size - q.left = req[r].size - req[r].left,
         UNCHANGED <<stream, lines, program, run, main, topo, flushed, sinkq,
                     inflight, delivered, retrying, purged>>,
         early' \subseteq Present, early' \subseteq AllEvents, run = FALSE => early' = early
  PROVE  FlowInv'
<1>1. /\ req' \in [Requests -> RequestStates] /\ req'[r] = q
      /\ \A t \in Requests \ {r} : req'[t] = req[t]
  BY DEF FlowInv, ProxyTypes
<1>2. ProxyTypes' /\ Apart'
  BY <1>1 DEF FlowInv, ProxyTypes, Apart
<1>3. Present' = Present
  BY DEF Present
<1>4. SoFar'
  <2>1. (\A n : <<0, n>> \in Present => n \in 1..Len(lines))'
    BY <1>3 DEF FlowInv, SoFar
  <2>2. ASSUME NEW t \in Requests
        PROVE  /\ req'[t].left <= req'[t].size
               /\ req'[t].st # "handling" => req'[t].left = 0
               /\ \A n : <<t, n>> \in Present <=> n \in 1..(req'[t].size - req'[t].left)
    <3>1. /\ req[t].left <= req[t].size
          /\ req[t].st # "handling" => req[t].left = 0
          /\ \A n : <<t, n>> \in Present <=> n \in 1..(req[t].size - req[t].left)
      BY DEF FlowInv, SoFar
    <3>2. CASE t = r
      BY <1>1, <3>1, <3>2
    <3>3. CASE t # r
      BY <1>1, <3>1, <3>3
    <3> QED  BY <3>2, <3>3
  <2> QED  BY <1>3, <2>1, <2>2 DEF SoFar
<1>5. Flushing'
  <2>1. flushed => early' = early
    BY DEF FlowInv, Flushing, ProxyTypes
  <2> QED  BY <1>3, <2>1 DEF FlowInv, Flushing, MetricSink
<1> QED  BY <1>2, <1>4, <1>5 DEF FlowInv

LEMMA MainStep ==
  ASSUME FlowInv,
         \/ Starts \/ sigterm \/ io_service_left \/ server_throws \/ restinio_left
         \/ main_returns \/ LeaveLoop
  PROVE  FlowInv'
<1>0. Control /\ Flushing
  BY TypeParts, Zenon DEF FlowInv
<1>1. UNCHANGED <<stream, program, req, flushed, early, sinkq, inflight, delivered, retrying, purged, lines>>
  BY Zenon DEF Starts, sigterm, io_service_left, server_throws, restinio_left, main_returns, LeaveLoop,
     sessionVars, topoOnly
<1>2. /\ run' \in BOOLEAN /\ main' \in {"start", "serving", "stopping", "ended", "terminated"}
      /\ topo' \in {"none", "loop", "flush", "ended"}
      /\ main' = "start" => topo' = "none"
      /\ topo' \in {"flush", "ended"} => ~run'
      /\ flushed => topo' = "ended"
  <2>1. CASE Starts
    BY <1>0, <2>1 DEF Starts, Control, Flushing
  <2>2. CASE sigterm
    BY <1>0, <2>2 DEF sigterm, Control, Flushing
  <2>3. CASE io_service_left
    BY <1>0, <2>3 DEF io_service_left, Control, Flushing
  <2>4. CASE restinio_left
    <3>1. /\ main' \in {"stopping", "terminated"} /\ UNCHANGED topo
          /\ run' = run \/ run' = FALSE
      BY <2>4, Zenon DEF restinio_left
    <3>2. run' \in BOOLEAN
      BY <1>0, <3>1, Zenon DEF Control
    <3>4. topo' \in {"flush", "ended"} => ~run'
      BY <1>0, <3>1, Zenon DEF Flushing
    <3>3. topo' \in {"none", "loop", "flush", "ended"} /\ (flushed => topo' = "ended")
      BY <1>0, <3>1, Zenon DEF Control, Flushing
    <3> QED  BY <3>1, <3>2, <3>3, <3>4
  <2>5. CASE main_returns
    BY <1>0, <2>5 DEF main_returns, Control, Flushing
  <2>6. CASE LeaveLoop
    BY <1>0, <2>6 DEF LeaveLoop, Control, Flushing, topoOnly
  <2>7. CASE server_throws
    BY <1>0, <2>7 DEF server_throws, Control, Flushing
  <2> QED  BY <2>1, <2>2, <2>3, <2>4, <2>5, <2>6, <2>7
<1> QED  BY <1>1, <1>2, ControlStep

LEMMA ProcessStep ==
  ASSUME FlowInv, process
  PROVE  FlowInv'
<1> DEFINE A == AllEvents
<1>0. /\ stream # << >> /\ sinkq' = Append(sinkq, Head(stream)) /\ stream' = Tail(stream)
      /\ UNCHANGED <<lines, program, run, main, req, early, topo, flushed,
                     inflight, delivered, retrying, purged>>
  BY Zenon DEF process, topoOnly, sessionVars
<1>1. stream \in Seq(A) /\ sinkq \in Seq(A) /\ Apart /\ Queues /\ Len(inflight) <= 1
      /\ (purged # {} => MetricSink)
  BY TypeParts DEF FlowInv, Queues, Flushing
<1> HIDE DEF A
<1>2. PICK e \in A : /\ e = Head(stream) /\ Tail(stream) \in Seq(A)
                     /\ ToSet(stream) = {e} \cup ToSet(Tail(stream))
                     /\ IsInjective(Tail(stream)) /\ e \notin ToSet(Tail(stream))
  BY <1>0, <1>1, ElementsOfTail DEF Apart
<1>3. e \notin ToSet(sinkq) /\ e \notin ToSet(inflight) /\ e \notin delivered /\ e \notin purged
  BY <1>1, <1>2 DEF Apart
<1>4. sinkq' \in Seq(A) /\ ToSet(sinkq') = ToSet(sinkq) \cup {e} /\ IsInjective(sinkq')
  BY <1>0, <1>1, <1>2, <1>3, ElementsOfAppend DEF Apart
<1>5. Queues'
  BY <1>0, <1>1, <1>2, <1>4 DEF Queues, A
<1>6. Apart'
  BY <1>0, <1>1, <1>2, <1>3, <1>4 DEF Apart
<1>7. Present' = Present
  BY <1>0, <1>2, <1>4 DEF Present
<1> QED  BY <1>0, <1>1, <1>2, <1>5, <1>6, <1>7, MoveStep

LEMMA SinkSendsStep ==
  ASSUME FlowInv, SinkSends
  PROVE  FlowInv'
<1> DEFINE A == AllEvents
<1>0. /\ sinkq # << >> /\ inflight = << >> /\ inflight' = <<Head(sinkq)>> /\ sinkq' = Tail(sinkq)
      /\ retrying' = FALSE
      /\ UNCHANGED <<lines, program, run, main, req, early, topo, flushed, stream, delivered, purged>>
  BY Zenon DEF SinkSends, topoOnly, sessionVars
<1>1. stream \in Seq(A) /\ sinkq \in Seq(A) /\ Apart /\ Queues /\ (purged # {} => MetricSink)
  BY TypeParts DEF FlowInv, Queues, Flushing
<1> HIDE DEF A
<1>2. PICK e \in A : /\ e = Head(sinkq) /\ Tail(sinkq) \in Seq(A)
                     /\ ToSet(sinkq) = {e} \cup ToSet(Tail(sinkq))
                     /\ IsInjective(Tail(sinkq)) /\ e \notin ToSet(Tail(sinkq))
  BY <1>0, <1>1, ElementsOfTail DEF Apart
<1>3. e \notin ToSet(stream) /\ e \notin delivered /\ e \notin purged
  BY <1>1, <1>2 DEF Apart
<1>4. /\ inflight' \in Seq(A) /\ ToSet(inflight') = {e} /\ IsInjective(inflight') /\ Len(inflight') = 1
      /\ ToSet(inflight) = {}
  <2>1. inflight' = <<e>>
    BY <1>0, <1>2
  <2> QED  BY <1>0, <2>1 DEF ToSet, IsInjective
<1>5. Queues'
  BY <1>0, <1>1, <1>2, <1>4 DEF Queues, A
<1>6. Apart'
  BY <1>0, <1>1, <1>2, <1>3, <1>4 DEF Apart
<1>7. Present' = Present
  BY <1>0, <1>2, <1>4 DEF Present
<1> QED  BY <1>0, <1>1, <1>4, <1>5, <1>6, <1>7, MoveStep

LEMMA SinkSentStep ==
  ASSUME FlowInv, SinkSent
  PROVE  FlowInv'
<1>0. /\ delivered' = delivered \cup ToSet(inflight) /\ inflight' = << >>
      /\ UNCHANGED <<lines, program, run, main, req, early, topo, flushed, stream, sinkq, retrying, purged>>
  BY Zenon DEF SinkSent, topoOnly, sessionVars
<1>1. Apart /\ Queues /\ (purged # {} => MetricSink)
  BY TypeParts DEF FlowInv, Flushing
<1>2. inflight' \in Seq(AllEvents) /\ ToSet(inflight') = {} /\ IsInjective(inflight') /\ Len(inflight') = 0
  BY <1>0 DEF ToSet, IsInjective
<1>3. ToSet(inflight) \subseteq AllEvents
  BY <1>1, ElementsAt DEF Queues
<1>4. Queues'
  BY <1>0, <1>1, <1>2, <1>3 DEF Queues
<1>5. Apart'
  BY <1>0, <1>1, <1>2 DEF Apart
<1>6. Present' = Present
  BY <1>0, <1>2 DEF Present
<1> QED  BY <1>0, <1>1, <1>2, <1>4, <1>5, <1>6, MoveStep

LEMMA SinkFailsStep ==
  ASSUME FlowInv, SinkFails
  PROVE  FlowInv'
<1> DEFINE A == AllEvents
<1>0. /\ sinkq' = inflight \o sinkq /\ inflight' = << >> /\ retrying' = MetricSink
      /\ UNCHANGED <<lines, program, run, main, req, early, topo, flushed, stream, delivered, purged>>
  BY Zenon DEF SinkFails, topoOnly, sessionVars
<1>1. inflight \in Seq(A) /\ sinkq \in Seq(A) /\ Apart /\ Queues /\ (purged # {} => MetricSink)
  BY TypeParts DEF FlowInv, Queues, Flushing
<1> HIDE DEF A
<1>2. sinkq' \in Seq(A) /\ ToSet(sinkq') = ToSet(inflight) \cup ToSet(sinkq) /\ IsInjective(sinkq')
  <2>1. IsInjective(inflight) /\ IsInjective(sinkq) /\ ToSet(inflight) \cap ToSet(sinkq) = {}
    BY <1>1 DEF Apart
  <2> QED  BY <1>0, <1>1, <2>1, ElementsOfConcat
<1>3. inflight' \in Seq(A) /\ ToSet(inflight') = {} /\ IsInjective(inflight') /\ Len(inflight') = 0
  BY <1>0 DEF ToSet, IsInjective
<1>4. Queues'
  <2>1. retrying' \in BOOLEAN
    BY <1>0 DEF MetricSink
  <2> QED  BY <1>0, <1>1, <1>2, <1>3, <2>1 DEF Queues, A
<1>5. Apart'
  BY <1>0, <1>1, <1>2, <1>3 DEF Apart
<1>6. Present' = Present
  BY <1>0, <1>2, <1>3 DEF Present
<1> QED  BY <1>0, <1>1, <1>3, <1>4, <1>5, <1>6, MoveStep

\* What a purge drops from the sink's queue is counted as purged.
LEMMA SinkPurgesStep ==
  ASSUME FlowInv, SinkPurges
  PROVE  FlowInv'
<1> DEFINE A == AllEvents
<1>1. sinkq \in Seq(A) /\ Apart /\ Queues /\ Len(inflight) <= 1 /\ Len(sinkq) \in Nat
  BY TypeParts DEF FlowInv, Queues, Flushing
<1>2. Len(sinkq) - MaxQueue > 0
  BY DEF SinkPurges
<1>3. Len(sinkq) - MaxQueue \in 0..Len(sinkq)
  BY <1>1, <1>2, QueueAssumption
<1>4. PICK n \in 0..Len(sinkq) : /\ purged' = purged \cup {sinkq[i] : i \in 1..n}
                                 /\ sinkq' = SubSeq(sinkq, n + 1, Len(sinkq))
  BY <1>3, Zenon DEF SinkPurges
<1>5. MetricSink /\ UNCHANGED <<lines, program, run, main, req, early, topo, flushed, stream,
                               inflight, delivered, retrying>>
  BY Zenon DEF SinkPurges, topoOnly, sessionVars
<1> DEFINE cut == {sinkq[i] : i \in 1..n}
<1> HIDE DEF A
<1>6. /\ purged' = purged \cup cut /\ ToSet(sinkq) = cut \cup ToSet(sinkq') /\ sinkq' \in Seq(A)
      /\ cut \cap ToSet(sinkq') = {} /\ IsInjective(sinkq') /\ cut \subseteq A
  <2>1. IsInjective(sinkq)
    BY <1>1 DEF Apart
  <2> DEFINE rest == SubSeq(sinkq, n + 1, Len(sinkq))
  <2>2. /\ cut \subseteq A /\ rest \in Seq(A) /\ ToSet(sinkq) = cut \cup ToSet(rest)
        /\ IsInjective(sinkq) => IsInjective(rest) /\ cut \cap ToSet(rest) = {}
    BY <1>1, ElementsOfCut
  <2>3. sinkq' = rest /\ purged' = purged \cup cut
    BY <1>4
  <2> HIDE DEF cut, rest
  <2> QED  BY <2>1, <2>2, <2>3, Zenon
<1> HIDE DEF cut
<1>7. Queues'
  BY <1>1, <1>5, <1>6 DEF Queues, A
<1>8. Apart'
  BY <1>1, <1>5, <1>6 DEF Apart
<1>9. Present' = Present
  BY <1>5, <1>6 DEF Present
<1> QED  BY <1>1, <1>5, <1>6, <1>7, <1>8, <1>9, MoveStep

\* When flush finds nothing to do, what is not at the server or purged is in the sink's call.
LEMMA FlushStep ==
  ASSUME FlowInv, flush_returns
  PROVE  FlowInv'
<1>0. /\ topo = "flush" /\ topo' = "ended" /\ flushed' \in {FALSE, FlushDone}
      /\ UNCHANGED <<stream, lines, program, run, main, req, early, sinkq,
                     inflight, delivered, retrying, purged>>
  BY Zenon DEF flush_returns, topoOnly, sessionVars
<1>1. flushed' \in BOOLEAN
  BY <1>0, Zenon DEF FlushDone
<1>2. ProxyTypes' /\ Apart'
  BY <1>0, <1>1 DEF FlowInv, ProxyTypes, Apart
<1>3. Present' = Present
  BY <1>0 DEF Present
<1>4. SoFar'
  BY <1>0, <1>3 DEF FlowInv, SoFar
<1>5. ASSUME FlushDone
      PROVE  early \cap ToSet(stream) = {} /\ \A e, f \in early \ (delivered \cup purged) : e = f
  <2>1. ToSet(stream) = {} /\ ToSet(sinkq) = {}
    BY <1>5 DEF FlushDone, ToSet
  <2>2. early \ (delivered \cup purged) \subseteq ToSet(inflight)
    BY <2>1 DEF FlowInv, Flushing, Present
  <2>3. \A e, f \in ToSet(inflight) : e = f
    <3>1. inflight \in Seq(AllEvents) /\ Len(inflight) <= 1
      BY DEF FlowInv, ProxyTypes, Flushing
    <3> QED  BY <3>1, ElementsAt DEF ToSet
  <2> QED  BY <2>1, <2>2, <2>3
<1>6. flushed' => FlushDone
  BY <1>0, Zenon
<1>7. Flushing'
  BY <1>0, <1>3, <1>5, <1>6 DEF FlowInv, Flushing, MetricSink
<1> QED  BY <1>2, <1>4, <1>7 DEF FlowInv

-----------------------------------------------------------------------------
(* Inserting *)

\* The status of a request alone is assigned.
LEMMA StatusOf ==
  ASSUME req \in [Requests -> RequestStates], NEW r \in Requests, NEW s, NEW q \in RequestStates,
         q.st = s, q.left = req[r].left, q.size = req[r].size,
         req' = [req EXCEPT ![r].st = s]
  PROVE  req' = [req EXCEPT ![r] = q]
<1>1. PICK m \in RequestStates : m = req[r]
  OBVIOUS
<1>2. [m EXCEPT !.st = s] = q
  BY <1>1 DEF RequestStates
<1>3. [req EXCEPT ![r].st = s] = [req EXCEPT ![r] = [m EXCEPT !.st = s]]
  BY <1>1
<1> QED  BY <1>2, <1>3

\* A handler's first step: the body of a request, or an answer without one.
LEMMA BodyStep ==
  ASSUME FlowInv, NEW r \in Requests, NEW sizes, sizes \subseteq 0..MaxBody, Body(r, sizes)
  PROVE  FlowInv'
<1>0. /\ req[r] = Idle /\ UNCHANGED <<stream, lines, program, run, main, topo, flushed, sinkq,
                                      inflight, delivered, retrying, purged>>
      /\ early' = early
  BY Zenon DEF Body, Arrives, reqOnly, sessionVars
<1>1. req \in [Requests -> RequestStates] /\ early \subseteq Present /\ early \subseteq AllEvents
  BY DEF FlowInv, ProxyTypes, Flushing
<1>2. req[r].left = 0 /\ req[r].size = 0 /\ MaxBody \in Nat
  BY <1>0, RequestsAssumption DEF Idle
<1>3. ASSUME NEW q \in RequestStates, req' = [req EXCEPT ![r] = q], q.left = q.size,
             q.st # "handling" => q.left = 0
      PROVE  FlowInv'
  <2>1. q.left <= q.size /\ q.size - q.left = req[r].size - req[r].left
    BY <1>2, <1>3 DEF RequestStates
  <2> QED  BY <1>0, <1>1, <1>3, <2>1, RequestStep
<1>4. ASSUME NEW n \in sizes, req' = [req EXCEPT ![r] = [st |-> "handling", left |-> n, size |-> n]]
      PROVE  FlowInv'
  <2>1. [st |-> "handling", left |-> n, size |-> n] \in RequestStates
    BY DEF RequestStates
  <2> QED  BY <1>3, <1>4, <2>1
<1>5. ASSUME req' = [req EXCEPT ![r].st = "closed"] PROVE FlowInv'
  <2>1. PICK q : q = [st |-> "closed", left |-> 0, size |-> 0]
    OBVIOUS
  <2>2. q \in RequestStates /\ req' = [req EXCEPT ![r] = q]
    <3>1. q \in RequestStates /\ q.left = req[r].left /\ q.size = req[r].size /\ q.st = "closed"
      BY <1>2, <2>1 DEF RequestStates
    <3> QED  BY <1>1, <1>5, <3>1, StatusOf
  <2> QED  BY <1>3, <2>1, <2>2
<1> QED  BY <1>4, <1>5 DEF Body

LEMMA ReplyStep ==
  ASSUME FlowInv, NEW r \in Requests, NEW status \in {"answered", "rejected", "unanswered"},
         Reply(r, status)
  PROVE  FlowInv'
<1>0. /\ req[r] = Idle /\ req' = [req EXCEPT ![r].st = status]
      /\ UNCHANGED <<stream, lines, program, run, main, topo, flushed, sinkq,
                     inflight, delivered, retrying, purged>>
      /\ early' = early
  BY Zenon DEF Reply, Arrives, reqOnly, sessionVars
<1>1. req \in [Requests -> RequestStates] /\ early \subseteq Present /\ early \subseteq AllEvents
  BY DEF FlowInv, ProxyTypes, Flushing
<1>2. MaxBody \in Nat
  BY RequestsAssumption
<1>3. PICK q : q = [st |-> status, left |-> 0, size |-> 0]
  OBVIOUS
<1>4. q \in RequestStates /\ req' = [req EXCEPT ![r] = q]
  <2>1. req[r].left = 0 /\ req[r].size = 0
    BY <1>0 DEF Idle
  <2>2. q \in RequestStates /\ q.left = req[r].left /\ q.size = req[r].size /\ q.st = status
    BY <1>2, <1>3, <2>1 DEF RequestStates
  <2>3. req' = [req EXCEPT ![r].st = status] /\ req \in [Requests -> RequestStates]
    BY <1>0, <1>1, Zenon
  <2>4. PICK m \in RequestStates : m = req[r]
    BY <2>3
  <2>5. [m EXCEPT !.st = status] = q
    BY <2>2, <2>4 DEF RequestStates
  <2>6. [req EXCEPT ![r].st = status] = [req EXCEPT ![r] = [m EXCEPT !.st = status]]
    BY <2>4
  <2> QED  BY <2>2, <2>3, <2>5, <2>6
<1>5. /\ q.left <= q.size /\ (q.st # "handling" => q.left = 0)
      /\ q.size - q.left = req[r].size - req[r].left
  BY <1>0, <1>3 DEF Idle
<1> QED  BY <1>0, <1>1, <1>4, <1>5, RequestStep

\* The loop over a body inserts the next event of its request.
LEMMA InsertStep ==
  ASSUME FlowInv, NEW r \in Requests, insert(r)
  PROVE  FlowInv'
<1>0. /\ req[r].st = "handling" /\ req[r].left > 0
      /\ stream' = Append(stream, <<r, req[r].size - req[r].left + 1>>)
      /\ req' = [req EXCEPT ![r].left = @ - 1]
      /\ UNCHANGED <<lines, program, run, main, topo, flushed, early, sinkq,
                     inflight, delivered, retrying, purged>>
  BY Zenon DEF insert, sessionVars
<1>1. Queues /\ Control /\ req \in [Requests -> RequestStates] /\ Apart /\ SoFar /\ Flushing
      /\ early \subseteq AllEvents
  BY TypeParts, Zenon DEF FlowInv
<1>2. PICK left, size \in 0..MaxBody : left = req[r].left /\ size = req[r].size /\ left > 0 /\ left <= size
  BY <1>0, <1>1 DEF RequestStates, SoFar
<1>3. PICK k \in Nat : k = size - left + 1 /\ size - (left - 1) = k /\ size - left = k - 1
  BY <1>2, RequestsAssumption
<1>4. PICK e \in AllEvents : e = <<r, k>>
  BY DEF AllEvents
<1>5. e \notin Present
  BY <1>1, <1>2, <1>3, <1>4 DEF SoFar
<1>6. stream' = Append(stream, e)
  BY <1>0, <1>2, <1>3, <1>4
<1>7. Queues' /\ Apart' /\ Present' = Present \cup {e} /\ ToSet(stream') = ToSet(stream) \cup {e}
  BY <1>0, <1>1, <1>5, <1>6, InsertFacts
<1>8. /\ req' \in [Requests -> RequestStates]
      /\ req'[r].left = left - 1 /\ req'[r].size = size /\ req'[r].st = "handling"
      /\ \A t \in Requests \ {r} : req'[t] = req[t]
  <2>1. left - 1 \in 0..MaxBody
    BY <1>2, RequestsAssumption
  <2> QED  BY <1>0, <1>1, <1>2, <2>1 DEF RequestStates
<1>9. ProxyTypes'
  BY <1>0, <1>1, <1>7, <1>8 DEF ProxyTypes, Queues, Control
<1>10. SoFar'
  <2>1. ASSUME NEW n, <<0, n>> \in Present' PROVE n \in 1..Len(lines)
    <3>1. e # <<0, n>>
      BY <1>4, RequestsAssumption
    <3> QED  BY <1>1, <1>7, <2>1, <3>1 DEF SoFar
  <2>2. ASSUME NEW t \in Requests
        PROVE  /\ req'[t].left <= req'[t].size
               /\ req'[t].st # "handling" => req'[t].left = 0
               /\ \A n : <<t, n>> \in Present' <=> n \in 1..(req'[t].size - req'[t].left)
    <3>1. CASE t = r
      <4>1. req'[t].left <= req'[t].size /\ req'[t].st = "handling"
        BY <1>2, <1>8, <3>1
      <4>2. req'[t].size - req'[t].left = k
        BY <1>3, <1>8, <3>1
      <4>3. \A n : <<r, n>> \in Present <=> n \in 1..(k - 1)
        BY <1>1, <1>2, <1>3 DEF SoFar
      <4>4. \A n : <<r, n>> \in Present' <=> <<r, n>> \in Present \/ n = k
        BY <1>4, <1>7
      <4>5. \A n : n \in 1..k <=> n \in 1..(k - 1) \/ n = k
        BY <1>2, <1>3, RequestsAssumption
      <4> QED  BY <3>1, <4>1, <4>2, <4>3, <4>4, <4>5
    <3>2. CASE t # r
      <4>1. req'[t] = req[t]
        BY <1>8, <3>2
      <4>2. \A n : <<t, n>> \in Present' <=> <<t, n>> \in Present
        BY <1>4, <1>7, <3>2
      <4> QED  BY <1>1, <4>1, <4>2 DEF SoFar
    <3> QED  BY <3>1, <3>2
  <2>3. lines' = lines
    BY <1>0
  <2> QED  BY <2>1, <2>2, <2>3 DEF SoFar
<1>11. Flushing'
  <2>1. e \notin early
    BY <1>1, <1>5 DEF Flushing
  <2>2. early \cap ToSet(stream) = {} => early \cap ToSet(stream') = {}
    BY <1>7, <2>1
  <2> QED  BY <1>0, <1>1, <1>7, <2>2 DEF Flushing, MetricSink
<1> QED  BY <1>7, <1>9, <1>10, <1>11 DEF FlowInv

\* A request is answered when all its events are inserted.
LEMMA AnswerStep ==
  ASSUME FlowInv, NEW r \in Requests, create_response(r)
  PROVE  FlowInv'
<1>0. /\ req[r].st = "handling" /\ req[r].left = 0
      /\ req' = [req EXCEPT ![r].st = "answered"]
      /\ early' = IF run THEN early \cup Events(r, req[r].size) ELSE early
      /\ UNCHANGED <<stream, lines, program, run, main, topo, flushed, sinkq,
                     inflight, delivered, retrying, purged>>
  BY Zenon DEF create_response, reqOnly, sessionVars
<1>1. Queues /\ req \in [Requests -> RequestStates] /\ SoFar /\ early \subseteq Present
      /\ early \subseteq AllEvents
  BY TypeParts DEF FlowInv, Flushing
<1>2. PICK size \in 0..MaxBody : size = req[r].size
  BY <1>1 DEF RequestStates
<1>3. size \in Nat /\ MaxBody \in Nat /\ size - 0 = size
  BY <1>2, RequestsAssumption
<1>4. Events(r, size) \subseteq Present /\ Events(r, size) \subseteq AllEvents
  BY <1>0, <1>1, <1>2, <1>3 DEF SoFar, Events, AllEvents
<1>5. early' \subseteq Present /\ early' \subseteq AllEvents /\ (run = FALSE => early' = early)
  BY <1>0, <1>1, <1>2, <1>4
<1>6. PICK q : q = [st |-> "answered", left |-> 0, size |-> size]
  OBVIOUS
<1>7. q \in RequestStates /\ req' = [req EXCEPT ![r] = q]
  <2>1. q \in RequestStates /\ q.left = req[r].left /\ q.size = req[r].size /\ q.st = "answered"
    BY <1>0, <1>2, <1>3, <1>6 DEF RequestStates
  <2> QED  BY <1>0, <1>1, <2>1, StatusOf
<1>8. /\ q.left <= q.size /\ (q.st # "handling" => q.left = 0)
      /\ q.size - q.left = req[r].size - req[r].left
  BY <1>0, <1>2, <1>3, <1>6
<1> QED  BY <1>0, <1>5, <1>7, <1>8, RequestStep

\* handle_line inserts the event of its line, which is new.
LEMMA LineStep ==
  ASSUME FlowInv, SessionTypes, handle_read, UNCHANGED proxyVars
  PROVE  FlowInv'
<1>0. UNCHANGED <<program, run, main, req, topo, flushed, early, sinkq,
                  inflight, delivered, retrying, purged>>
  BY DEF proxyVars
<1>1. Queues /\ Control /\ req \in [Requests -> RequestStates] /\ Apart /\ SoFar /\ Flushing
      /\ early \subseteq AllEvents
  BY TypeParts, Zenon DEF FlowInv
<1>2. PICK bytes, pre, rest \in Seq(Bytes) : ReadForm(bytes, pre, rest)
  BY HandleReadForm
<1>3. PICK l : l = line \o UpToNUL(pre)
  OBVIOUS
<1>4. PICK n : n = Len(lines) + 1
  OBVIOUS
<1>5. lines \in Seq(Seq(Bytes)) /\ Len(lines) \in Nat /\ n \in Nat
  BY <1>4 DEF SessionTypes
<1>6. CASE lines' = lines /\ stream' = stream
  BY <1>6, FlowSame
<1>7. CASE lines' = Append(lines, l) /\ (stream' = stream \/ stream' = Append(stream, <<0, n>>))
  <2>1. PICK k \in Nat : k = Len(lines') /\ k = n
    <3>1. UpToNUL(pre) \in Seq(Bytes) /\ line \in Seq(Bytes)
      BY UpToNULFacts DEF SessionTypes
    <3>2. l \in Seq(Bytes)
      BY <1>3, <3>1, ElementsOfConcat
    <3>3. PICK Q : Q = Seq(Bytes)
      OBVIOUS
    <3>4. lines \in Seq(Q) /\ l \in Q
      BY <1>5, <3>2, <3>3
    <3>5. Len(Append(lines, l)) = Len(lines) + 1
      BY <3>4
    <3> QED  BY <1>4, <1>5, <1>7, <3>5
  <2>2. \A m : m \in 1..Len(lines) => m \in 1..k
    BY <1>4, <1>5, <2>1
  <2>3. PICK e \in AllEvents : e = <<0, n>>
    BY <1>5 DEF AllEvents
  <2>4. e \notin Present
    BY <1>1, <1>4, <1>5, <2>3 DEF SoFar
  <2>5. /\ Queues' /\ Apart' /\ Present \subseteq Present' /\ Present' \subseteq Present \cup {e}
        /\ ToSet(stream') \subseteq ToSet(stream) \cup {e}
    <3>1. CASE stream' = stream
      BY <1>0, <1>1, <3>1 DEF Queues, Apart, Present
    <3>2. CASE stream' = Append(stream, <<0, n>>)
      BY <1>0, <1>1, <2>3, <2>4, <3>2, InsertFacts
    <3> QED  BY <1>7, <3>1, <3>2
  <2>6. ProxyTypes'
    BY <1>0, <1>1, <2>5 DEF ProxyTypes, Queues, Control
  <2>7. SoFar'
    <3>1. ASSUME NEW m, <<0, m>> \in Present' PROVE m \in 1..k
      <4>1. CASE <<0, m>> \in Present
        BY <1>1, <2>2, <4>1 DEF SoFar
      <4>2. CASE <<0, m>> = e
        BY <1>4, <1>5, <2>1, <2>3, <4>2
      <4> QED  BY <2>5, <3>1, <4>1, <4>2
    <3>2. ASSUME NEW t \in Requests, NEW m PROVE <<t, m>> \in Present' <=> <<t, m>> \in Present
      <4>1. <<t, m>> # e
        BY <2>3, RequestsAssumption
      <4> QED  BY <2>5, <4>1
    <3> QED  BY <1>0, <1>1, <2>1, <3>1, <3>2 DEF SoFar
  <2>8. Flushing'
    <3>1. e \notin early
      BY <1>1, <2>4 DEF Flushing
    <3>2. early \cap ToSet(stream) = {} => early \cap ToSet(stream') = {}
      BY <2>5, <3>1
    <3>3. early \subseteq Present'
      BY <1>1, <2>5 DEF Flushing
    <3> QED  BY <1>0, <1>1, <3>2, <3>3 DEF Flushing, MetricSink
  <2> QED  BY <2>5, <2>6, <2>7, <2>8 DEF FlowInv
<1> QED  BY <1>2, <1>3, <1>4, <1>6, <1>7, Zenon DEF ReadForm, handle_line, LineEvent

LEMMA FlowStart == Init => FlowInv
<1> SUFFICES ASSUME Init PROVE FlowInv
  OBVIOUS
<1>1. /\ program \in Programs /\ run = TRUE /\ main = "start" /\ req = [r \in Requests |-> Idle]
      /\ topo = "none" /\ flushed = FALSE /\ early = {} /\ sinkq = << >> /\ inflight = << >>
      /\ delivered = {} /\ retrying = FALSE /\ purged = {} /\ stream = << >>
  BY Zenon DEF Init, SessionInit
<1>2. Idle \in RequestStates /\ MaxBody \in Nat
  BY RequestsAssumption DEF Idle, RequestStates
<1>3. ProxyTypes
  <2>1. req \in [Requests -> RequestStates]
    BY <1>1, <1>2, Zenon
  <2>2. << >> \in Seq(AllEvents)
    OBVIOUS
  <2> QED  BY <1>1, <2>1, <2>2, Zenon DEF ProxyTypes
<1>4. ToSet(<< >>) = {} /\ IsInjective(<< >>) /\ Len(<< >>) = 0
  BY DEF ToSet, IsInjective
<1>5. Present = {} /\ Apart
  BY <1>1, <1>4 DEF Present, Apart
<1>6. SoFar
  BY <1>1, <1>5 DEF SoFar, Idle
<1>7. Flushing
  BY <1>1, <1>4 DEF Flushing
<1> QED  BY <1>3, <1>5, <1>6, <1>7 DEF FlowInv

\* The invariant is inductive.
LEMMA InitIInv == Init => IInv
BY SessionStart, FlowStart, Zenon DEF Init, IInv

LEMMA FlowNext ==
  ASSUME IInv, Next
  PROVE  FlowInv'
<1>0. FlowInv /\ SessionTypes
  BY Zenon DEF IInv, SessionInv
<1>1. CASE main_dd_log \/ main_dd_metrics \/ main_splunk \/ main_pushgateway \/ main_promstore
  <2>1. Starts
    BY <1>1, Zenon DEF main_dd_log, main_dd_metrics, main_splunk, main_pushgateway, main_promstore
  <2> QED  BY <1>0, <2>1, MainStep
<1>2. CASE \/ sigterm \/ io_service_left \/ server_throws \/ restinio_left
           \/ main_returns \/ LeaveLoop
  BY <1>0, <1>2, MainStep
<1>3. CASE process
  BY <1>0, <1>3, ProcessStep
<1>4. CASE SinkSends \/ SinkSent \/ SinkFails \/ SinkPurges
  BY <1>0, <1>4, SinkSendsStep, SinkSentStep, SinkFailsStep, SinkPurgesStep
<1>5. CASE flush_returns
  BY <1>0, <1>5, FlushStep
<1>6. CASE Session(handle_read)
  BY <1>0, <1>6, LineStep, Zenon DEF Session
<1>7. CASE \/ Session(handle_accept) \/ Session(PeerCloses) \/ Session(ReadCompletes)
           \/ Session(TimerExpires) \/ Session(handle_read_error)
           \/ Session(handle_connection_dead_timer) \/ Session(session_destroyed)
  <2>1. UNCHANGED <<stream, proxyVars, lines>>
    BY <1>7, Zenon DEF Session, handle_accept, PeerCloses, ReadCompletes, TimerExpires,
       handle_read_error, handle_connection_dead_timer, session_destroyed
  <2> QED  BY <1>0, <2>1, FlowSame
<1>8. ASSUME NEW r \in Requests,
             handler_dd_metrics(r) \/ handler_splunk(r) \/ handler_pushgateway(r) \/ handler_promstore(r)
      PROVE  FlowInv'
  <2>1. {1} \subseteq 0..MaxBody
    BY RequestsAssumption
  <2>2. \/ \E sizes : sizes \subseteq 0..MaxBody /\ Body(r, sizes)
        \/ \E status \in {"answered", "rejected", "unanswered"} : Reply(r, status)
    BY <1>8, <2>1, Zenon DEF handler_dd_metrics, handler_splunk, handler_pushgateway, handler_promstore
  <2> QED  BY <1>0, <2>2, BodyStep, ReplyStep
<1>9. ASSUME NEW r \in Requests, insert(r) \/ create_response(r) PROVE FlowInv'
  BY <1>0, <1>9, InsertStep, AnswerStep
<1> QED  BY <1>1, <1>2, <1>3, <1>4, <1>5, <1>6, <1>7, <1>8, <1>9, Zenon DEF Next

LEMMA SessionNext ==
  ASSUME IInv, Next
  PROVE  SessionInv'
<1>0. SessionInv
  BY Zenon DEF IInv
<1>1. CASE Session(handle_read)
  BY <1>0, <1>1, ReadStep, Zenon DEF Session
<1>2. CASE Session(ReadCompletes)
  BY <1>0, <1>2, ReadCompletesStep, Zenon DEF Session
<1>3. CASE \/ Session(handle_accept) \/ Session(PeerCloses) \/ Session(TimerExpires)
           \/ Session(handle_read_error) \/ Session(handle_connection_dead_timer)
           \/ Session(session_destroyed)
  BY <1>0, <1>3, ConnectionStep, Zenon DEF Session
<1>4. CASE UNCHANGED sessionVars
  BY <1>0, <1>4, SessionSame
<1>5. ASSUME NEW r \in Requests,
             \/ handler_dd_metrics(r) \/ handler_splunk(r) \/ handler_pushgateway(r)
             \/ handler_promstore(r) \/ insert(r) \/ create_response(r)
      PROVE  UNCHANGED sessionVars
  BY <1>5, Zenon DEF handler_dd_metrics, handler_splunk, handler_pushgateway, handler_promstore,
     Body, Reply, insert, create_response, reqOnly
<1>6. ASSUME \/ main_dd_log \/ main_dd_metrics \/ main_splunk \/ main_pushgateway \/ main_promstore
             \/ sigterm \/ io_service_left \/ server_throws \/ restinio_left \/ main_returns
             \/ process \/ LeaveLoop \/ flush_returns \/ SinkSends \/ SinkSent \/ SinkFails
             \/ SinkPurges
      PROVE  UNCHANGED sessionVars
  BY <1>6, Zenon DEF main_dd_log, main_dd_metrics, main_splunk, main_pushgateway, main_promstore,
     Starts, sigterm, io_service_left, server_throws, restinio_left, main_returns, process, LeaveLoop,
     flush_returns, SinkSends, SinkSent, SinkFails, SinkPurges, topoOnly
<1> QED  BY <1>1, <1>2, <1>3, <1>4, <1>5, <1>6, Zenon DEF Next

LEMMA Inductive == IInv /\ [Next]_vars => IInv'
<1> SUFFICES ASSUME IInv, [Next]_vars PROVE IInv'
  OBVIOUS
<1>1. CASE Next
  BY <1>1, FlowNext, SessionNext DEF IInv
<1>2. CASE UNCHANGED vars
  <2>1. UNCHANGED sessionVars /\ UNCHANGED <<stream, proxyVars, lines>>
    BY <1>2 DEF vars, sessionVars
  <2> QED  BY <2>1, SessionSame, FlowSame DEF IInv
<1> QED  BY <1>1, <1>2

\* In a sequence without repetitions an element is counted once or not at all.
LEMMA CountOf ==
  ASSUME NEW s \in Seq(AllEvents), IsInjective(s), NEW e
  PROVE  Count(s, e) = IF e \in ToSet(s) THEN 1 ELSE 0
<1> DEFINE P == {i \in DOMAIN s : s[i] = e}
<1>1. CASE e \in ToSet(s)
  <2>1. PICK i \in DOMAIN s : s[i] = e
    BY <1>1, Zenon DEF ToSet
  <2>2. P = {i}
    BY <2>1, Zenon DEF IsInjective
  <2> QED  BY <1>1, <2>2, FS_Singleton DEF Count
<1>2. CASE e \notin ToSet(s)
  <2>1. P = {}
    BY <1>2, Zenon DEF ToSet
  <2> QED  BY <1>2, <2>1, FS_EmptySet DEF Count
<1> QED  BY <1>1, <1>2

-----------------------------------------------------------------------------
(* Theorems *)

\* For every stream of bytes, every way of cutting it into reads and every size of
\* buffer_: the lines handle_line was called for, line_ and the bytes remaining in
\* buffer_ are together what was read, if it has no NUL, and have its line ends in
\* any case, so that no line runs into the next.
THEOREM LinesAreFramed == Spec => []Framing
<1>1. IInv => Framing
  BY Zenon DEF IInv, SessionInv
<1> QED  BY <1>1, InitIInv, Inductive, PTL DEF Spec

\* async_read_some always has room for a byte, so no line is too long for buffer_
\* to be read; a complete line is left in buffer_ only after a read with several.
THEOREM RoomToRead == Spec => []ReadsHaveRoom
<1>1. IInv => ReadsHaveRoom
  BY Zenon DEF IInv, SessionInv, Reads, ReadsHaveRoom
<1> QED  BY <1>1, InitIInv, Inductive, PTL DEF Spec

\* For any number of requests and events and any _max_queue: whatever a handler has
\* answered for is in one place, once: the source, the sink's queue, the sink's
\* call, the server, or, with the metric sink only, among what it has purged.
THEOREM AnsweredAreKept == Spec => []AnsweredIsKept
<1>1. IInv => AnsweredIsKept
  <2> SUFFICES ASSUME IInv PROVE AnsweredIsKept
    OBVIOUS
  <2>0. SessionTypes /\ ProxyTypes /\ Apart /\ SoFar /\ Queues
    BY TypeParts, Zenon DEF IInv, SessionInv, FlowInv
  <2>1. TypeOK
    <3> DEFINE A == AllEvents
    <3>1. stream \in Seq(A) /\ sinkq \in Seq(A) /\ inflight \in Seq(A)
      BY <2>0 DEF Queues
    <3>2. \A e \in ToSet(stream \o sinkq \o inflight) \cup delivered \cup purged \cup early : e \in A
      <4>1. delivered \subseteq A /\ purged \subseteq A /\ early \subseteq A
        BY <2>0 DEF ProxyTypes
      <4> HIDE DEF A
      <4>2. stream \o sinkq \in Seq(A)
        BY <3>1, ElementsOfConcat
      <4>3. (stream \o sinkq) \o inflight \in Seq(A)
        BY <3>1, <4>2, ElementsOfConcat
      <4>4. ToSet((stream \o sinkq) \o inflight) \subseteq A
        BY <4>3, ElementsAt
      <4> QED  BY <4>1, <4>4, Zenon
    <3> QED  BY <2>0, <3>2, Zenon DEF TypeOK, SessionTypes, ProxyTypes, RequestStates
  <2>2. ASSUME NEW r \in Requests, Answered(r), NEW e \in Events(r, req[r].size)
        PROVE  Count(stream, e) + Count(sinkq, e) + Count(inflight, e)
                 + (IF e \in delivered THEN 1 ELSE 0) + (IF e \in purged THEN 1 ELSE 0) = 1
    <3>1. PICK size \in 0..MaxBody : size = req[r].size /\ req[r].left = 0
      BY <2>0, <2>2 DEF ProxyTypes, RequestStates, SoFar, Answered
    <3>2. size - 0 = size
      BY RequestsAssumption
    <3>3. PICK n \in 1..size : e = <<r, n>>
      BY <2>2, <3>1 DEF Events
    <3>4. e \in Present
      BY <2>0, <3>1, <3>2, <3>3 DEF SoFar
    <3>5. /\ Count(stream, e) = IF e \in ToSet(stream) THEN 1 ELSE 0
          /\ Count(sinkq, e) = IF e \in ToSet(sinkq) THEN 1 ELSE 0
          /\ Count(inflight, e) = IF e \in ToSet(inflight) THEN 1 ELSE 0
      BY <2>0, CountOf DEF Apart, Queues
    <3> QED  BY <2>0, <3>4, <3>5 DEF Present, Apart
  <2>3. purged # {} => MetricSink
    BY DEF IInv, FlowInv, Flushing
  <2> QED  BY <2>1, <2>2, <2>3, Zenon DEF AnsweredIsKept
<1> QED  BY <1>1, InitIInv, Inductive, PTL DEF Spec

\* When topology->flush has ended because all was done, of what was answered before
\* run was cleared nothing is in the source, and at most the event of the sink's
\* call is neither at the server nor purged, however long the queues were.
THEOREM FlushedAreOut == Spec => []FlushedIsOut
<1>1. IInv => FlushedIsOut
  <2> SUFFICES ASSUME IInv, flushed
               PROVE  early \cap ToSet(stream) = {} /\ Cardinality(early \ (delivered \cup purged)) <= 1
    BY DEF FlushedIsOut
  <2>1. PICK R : R = early \ (delivered \cup purged)
    OBVIOUS
  <2>2. early \cap ToSet(stream) = {} /\ \A e, f \in R : e = f
    BY <2>1 DEF IInv, FlowInv, Flushing
  <2>3. CASE R = {}
    BY <2>1, <2>2, <2>3, FS_EmptySet
  <2>4. CASE R # {}
    <3>1. PICK e : R = {e}
      BY <2>2, <2>4
    <3>2. Cardinality({e}) = 1
      BY FS_Singleton
    <3> QED  BY <2>1, <2>2, <3>1, <3>2
  <2> QED  BY <2>3, <2>4
<1> QED  BY <1>1, InitIInv, Inductive, PTL DEF Spec

-----------------------------------------------------------------------------
(* The parsers: searching a text *)

\* The least of some positions.
LEMMA LeastOf ==
  ASSUME NEW n \in Nat, NEW P, P \subseteq 1..n, P # {}
  PROVE  Min(P) \in P /\ \A i \in P : Min(P) <= i
<1>1. P \subseteq Nat
  OBVIOUS
<1>2. \E x \in P : \A y \in P : x <= y
  BY <1>1, LeastNat
<1> QED  BY <1>2 DEF Min

\* r is the first position of s at from or behind that holds one of C, or 0.
\* r is the first position from `from' on with a character of C, 0 if none has.
FirstIn(r, s, C, from) ==
  /\ r \in 0..Len(s)
  /\ r = 0 => \A i \in 1..Len(s) : i >= from => s[i] \notin C
  /\ r # 0 => r >= from /\ s[r] \in C /\ \A i \in 1..Len(s) : i >= from /\ i < r => s[i] \notin C

\* find_first_of finds the first of the characters, or npos if there is none.
LEMMA FindFacts ==
  ASSUME NEW S, NEW s \in Seq(S), NEW C, NEW from \in Nat
  PROVE  FirstIn(Find(s, C, from), s, C, from)
<1> DEFINE at == {i \in DOMAIN s : i >= from /\ s[i] \in C}
<1>1. Len(s) \in Nat /\ at \subseteq 1..Len(s) /\ DOMAIN s = 1..Len(s)
  OBVIOUS
<1>2. Find(s, C, from) = IF at = {} THEN 0 ELSE Min(at)
  BY DEF Find
<1>3. at # {} => Min(at) \in at /\ \A i \in at : Min(at) <= i
  <2> HIDE DEF at
  <2> QED  BY <1>1, LeastOf
<1>4. CASE at = {}
  BY <1>1, <1>2, <1>4 DEF FirstIn
<1>5. CASE at # {}
  <2>1. PICK r \in at : r = Min(at) /\ \A i \in at : r <= i
    BY <1>3, <1>5
  <2>2. Find(s, C, from) = r
    BY <1>2, <1>5, <2>1
  <2>3. r \in 1..Len(s) /\ r >= from /\ s[r] \in C
    BY <1>1
  <2>4. ASSUME NEW i \in 1..Len(s), i >= from, i < r PROVE s[i] \notin C
    <3>1. i \notin at
      <4> HIDE DEF at
      <4> QED  BY <2>1, <2>3, <2>4
    <3> QED  BY <1>1, <2>4, <3>1
  <2> QED  BY <1>1, <2>2, <2>3, <2>4 DEF FirstIn
<1> QED  BY <1>4, <1>5

FirstNotIn(r, s, C, from) ==
  /\ r \in 0..Len(s)
  /\ r = 0 => \A i \in 1..Len(s) : i >= from => s[i] \in C
  /\ r # 0 => r >= from /\ s[r] \notin C /\ \A i \in 1..Len(s) : i >= from /\ i < r => s[i] \in C

\* find_first_not_of finds the first other character, or npos.
LEMMA FindNotFacts ==
  ASSUME NEW S, NEW s \in Seq(S), NEW C, NEW from \in Nat
  PROVE  FirstNotIn(FindNot(s, C, from), s, C, from)
<1> DEFINE at == {i \in DOMAIN s : i >= from /\ s[i] \notin C}
<1>1. Len(s) \in Nat /\ at \subseteq 1..Len(s) /\ DOMAIN s = 1..Len(s)
  OBVIOUS
<1>2. FindNot(s, C, from) = IF at = {} THEN 0 ELSE Min(at)
  BY DEF FindNot
<1>3. at # {} => Min(at) \in at /\ \A i \in at : Min(at) <= i
  <2> HIDE DEF at
  <2> QED  BY <1>1, LeastOf
<1>4. CASE at = {}
  BY <1>1, <1>2, <1>4 DEF FirstNotIn
<1>5. CASE at # {}
  <2>1. PICK r \in at : r = Min(at) /\ \A i \in at : r <= i
    BY <1>3, <1>5
  <2>2. FindNot(s, C, from) = r
    BY <1>2, <1>5, <2>1
  <2>3. r \in 1..Len(s) /\ r >= from /\ s[r] \notin C
    BY <1>1
  <2>4. ASSUME NEW i \in 1..Len(s), i >= from, i < r PROVE s[i] \in C
    <3>1. i \notin at
      <4> HIDE DEF at
      <4> QED  BY <2>1, <2>3, <2>4
    <3> QED  BY <1>1, <2>4, <3>1
  <2> QED  BY <1>1, <2>2, <2>3, <2>4 DEF FirstNotIn
<1> QED  BY <1>4, <1>5

\* r is the last member of P up to k, or 0.
LastIn(r, P, k) ==
  /\ r = 0 \/ (r \in P /\ r <= k)
  /\ \A i \in P : i <= k => i <= r

\* LastUpTo is the last member, and nothing else is.
LEMMA LastUpToFacts ==
  ASSUME NEW n \in Nat, NEW P, P \subseteq 1..n, NEW k \in Int
  PROVE  /\ LastUpTo(P, k) \in 0..n /\ LastIn(LastUpTo(P, k), P, k)
         /\ \A r \in 0..n : LastIn(r, P, k) => r = LastUpTo(P, k)
<1> DEFINE U == {i \in P : i <= k}
           V == {m \in Nat : \E i \in U : m = n - i}
<1>1. CASE U = {}
  BY <1>1 DEF LastUpTo, LastIn
<1>2. CASE U # {}
  <2>1. V # {} /\ V \subseteq Nat
    <3>1. PICK i \in U : TRUE
      BY <1>2
    <3>2. n - i \in V
      OBVIOUS
    <3> QED  BY <3>2
  <2>2. PICK m \in V : \A y \in V : m <= y
    <3> HIDE DEF V
    <3> QED  BY <2>1, LeastNat
  <2>3. PICK x \in U : m = n - x
    OBVIOUS
  <2>4. \A y \in U : x >= y
    <3>1. ASSUME NEW y \in U PROVE n - y \in V
      OBVIOUS
    <3>2. ASSUME NEW y \in U PROVE m <= n - y
      BY <2>2, <3>1
    <3>3. \A y \in U : y \in Int
      OBVIOUS
    <3> QED  BY <2>3, <3>2, <3>3
  <2>5. Max(U) \in U /\ \A y \in U : Max(U) >= y
    <3> HIDE DEF U
    <3> QED  BY <2>4 DEF Max
  <2>6. LastUpTo(P, k) = Max(U)
    BY <1>2 DEF LastUpTo
  <2>7. PICK z \in U : z = Max(U)
    BY <2>5
  <2> QED  BY <2>5, <2>6, <2>7 DEF LastIn
<1> QED  BY <1>1, <1>2

-----------------------------------------------------------------------------
(* kv_filter *)

\* The places where match looks for a tag.
Cursors(s) ==
  {c \in 1..(Len(s) + 1) : /\ c = 1 \/ s[c - 1] \in Separators
                           /\ Cardinality(FieldColons(s, c)) % 2 = 0}

\* The colons of a field stay the same while no separator comes.
LEMMA FieldColonsFacts ==
  ASSUME NEW S, NEW s \in Seq(S), NEW c \in Int
  PROVE  /\ IsFiniteSet(FieldColons(s, c)) /\ Cardinality(FieldColons(s, c)) \in Nat
         /\ \A d \in Int : c <= d /\ (\A i \in 1..Len(s) : c <= i /\ i < d => s[i] \notin Separators)
              => FieldColons(s, d) = FieldColons(s, c)
<1>1. Len(s) \in Nat /\ IsFiniteSet(1..Len(s))
  BY FS_Interval
<1>2. FieldColons(s, c) \subseteq 1..Len(s)
  BY DEF FieldColons, At
<1>3. IsFiniteSet(FieldColons(s, c)) /\ Cardinality(FieldColons(s, c)) \in Nat
  BY <1>1, <1>2, FS_Subset, FS_CardinalityType
<1>4. ASSUME NEW d \in Int, c <= d, \A i \in 1..Len(s) : c <= i /\ i < d => s[i] \notin Separators
      PROVE  FieldColons(s, d) = FieldColons(s, c)
  <2> DEFINE E == At(s, {"QUOTE", "COMMA"})
  <2>1. E \subseteq 1..Len(s) /\ \A i \in E : s[i] \in Separators
    BY DEF At, Separators
  <2> HIDE DEF E
  <2>2. {i \in E : i <= d - 1} = {i \in E : i <= c - 1}
    <3>1. \A i \in E : i <= d - 1 <=> i <= c - 1
      BY <1>4, <2>1
    <3> QED  BY <3>1, Zenon
  <2>3. LastUpTo(E, d - 1) = LastUpTo(E, c - 1)
    BY <2>2 DEF LastUpTo
  <2>4. \A i \in At(s, {":"}) : i \in 1..Len(s) /\ s[i] \in Separators
    BY DEF At, Separators
  <2>5. \A i \in At(s, {":"}) : i < d <=> i < c
    BY <1>4, <2>4
  <2> QED  BY <2>3, <2>5 DEF FieldColons, E
<1> QED  BY <1>3, <1>4

\* Behind a quote or a comma a new field begins.
LEMMA NewField ==
  ASSUME NEW S, NEW s \in Seq(S), NEW e \in 1..Len(s), s[e] \in {"QUOTE", "COMMA"}
  PROVE  FieldColons(s, e + 1) = {}
<1> DEFINE E == At(s, {"QUOTE", "COMMA"})
<1>1. Len(s) \in Nat /\ E \subseteq 1..Len(s) /\ e \in E /\ (e + 1) - 1 = e /\ e \in 0..Len(s) /\ e \in Int
  BY DEF At
<1> HIDE DEF E
<1>2. LastIn(e, E, e)
  BY <1>1 DEF LastIn
<1>3. LastUpTo(E, e) = e
  BY <1>1, <1>2, LastUpToFacts
<1>4. At(s, {":"}) \subseteq 1..Len(s)
  BY DEF At
<1> QED  BY <1>1, <1>3, <1>4 DEF FieldColons, E

\* A colon adds one to the colons of its field.
LEMMA OneMore ==
  ASSUME NEW S, NEW s \in Seq(S), NEW c \in 1..Len(s), s[c] = ":"
  PROVE  /\ FieldColons(s, c + 1) = FieldColons(s, c) \cup {c}
         /\ Cardinality(FieldColons(s, c + 1)) = Cardinality(FieldColons(s, c)) + 1
<1> DEFINE E == At(s, {"QUOTE", "COMMA"})
           B == At(s, {":"})
<1>1. /\ Len(s) \in Nat /\ E \subseteq 1..Len(s) /\ c \notin E /\ (c + 1) - 1 = c /\ c \in Int /\ c - 1 \in Int
      /\ B \subseteq 1..Len(s) /\ c \in B
  BY DEF At
<1> HIDE DEF E, B
<1>2. {i \in E : i <= c} = {i \in E : i <= c - 1}
  <2>1. \A i \in E : i <= c <=> i <= c - 1
    BY <1>1
  <2> QED  BY <2>1, Zenon
<1>3. LastUpTo(E, c) = LastUpTo(E, c - 1)
  BY <1>2 DEF LastUpTo
<1>4. PICK f \in 0..Len(s) : f = LastUpTo(E, c - 1) /\ LastIn(f, E, c - 1)
  BY <1>1, LastUpToFacts
<1>5. f < c
  BY <1>1, <1>4 DEF LastIn
<1>6. FieldColons(s, c) = {i \in B : f < i /\ i < c} /\ FieldColons(s, c + 1) = {i \in B : f < i /\ i < c + 1}
  BY <1>1, <1>3, <1>4 DEF FieldColons, E, B
<1>7. FieldColons(s, c + 1) = FieldColons(s, c) \cup {c} /\ c \notin FieldColons(s, c)
  <2>1. /\ \A i \in B : f < i /\ i < c + 1 <=> (f < i /\ i < c) \/ i = c
        /\ ~ (c < c)
    BY <1>1, <1>5
  <2> QED  BY <1>1, <1>6, <2>1, Zenon
<1>8. IsFiniteSet(FieldColons(s, c))
  BY <1>1, FieldColonsFacts
<1> QED  BY <1>7, <1>8, FS_AddElement

\* Key colons and value colons take turns.
LEMMA Parity ==
  ASSUME NEW n \in Nat
  PROVE  /\ n % 2 = 0 => (n + 1) % 2 # 0
         /\ n % 2 = 0 => (n + 2) % 2 = 0
OBVIOUS

\* One round of match, from a place where it looks for a tag.
LEMMA TagRound ==
  ASSUME NEW S, NEW s \in Seq(S), NEW c \in Cursors(s), NEW first \in 1..Len(s),
         FirstIn(first, s, Separators, c)
  PROVE  /\ s[first] # ":" => first + 1 \in Cursors(s)
         /\ s[first] = ":" => first \in KeyColons(s) /\ Before(s, first) = SubSeq(s, c, first - 1)
         /\ \A second \in 1..Len(s) : s[first] = ":" /\ FirstIn(second, s, Separators, first + 1) =>
              second \notin KeyColons(s) /\ second + 1 \in Cursors(s)
<1>1. /\ Len(s) \in Nat /\ c \in 1..(Len(s) + 1) /\ c <= first /\ s[first] \in Separators
      /\ \A i \in 1..Len(s) : c <= i /\ i < first => s[i] \notin Separators
      /\ c = 1 \/ s[c - 1] \in Separators
  BY DEF FirstIn, Cursors
<1>2. Cardinality(FieldColons(s, c)) % 2 = 0
  BY DEF Cursors
<1>3. FieldColons(s, first) = FieldColons(s, c)
  BY <1>1, FieldColonsFacts
<1>4. ASSUME NEW e \in 1..Len(s), s[e] \in {"QUOTE", "COMMA"} PROVE e + 1 \in Cursors(s)
  <2>1. FieldColons(s, e + 1) = {}
    BY <1>4, NewField
  <2>2. Cardinality(FieldColons(s, e + 1)) = 0
    BY <2>1, FS_EmptySet
  <2>3. e + 1 \in 1..(Len(s) + 1) /\ (e + 1) - 1 = e /\ 0 % 2 = 0
    BY <1>1
  <2> QED  BY <1>4, <2>2, <2>3 DEF Cursors, Separators
<1>5. ASSUME s[first] # ":" PROVE first + 1 \in Cursors(s)
  BY <1>1, <1>4, <1>5 DEF Separators
<1>6. ASSUME s[first] = ":" PROVE first \in KeyColons(s) /\ Before(s, first) = SubSeq(s, c, first - 1)
  <2>1. first \in KeyColons(s)
    BY <1>2, <1>3, <1>6 DEF KeyColons, At
  <2> DEFINE P == At(s, Separators)
  <2>2. P \subseteq 1..Len(s) /\ \A i \in 1..Len(s) : i \in P <=> s[i] \in Separators
    BY DEF At
  <2> HIDE DEF P
  <2>3. LastIn(c - 1, P, first - 1) /\ c - 1 \in 0..Len(s) /\ first - 1 \in Int
    BY <1>1, <2>2 DEF LastIn
  <2>4. LastUpTo(P, first - 1) = c - 1
    BY <1>1, <2>2, <2>3, LastUpToFacts
  <2>5. (c - 1) + 1 = c
    BY <1>1
  <2> QED  BY <2>1, <2>4, <2>5 DEF Before, P
<1>7. ASSUME NEW second \in 1..Len(s), s[first] = ":", FirstIn(second, s, Separators, first + 1)
      PROVE  second \notin KeyColons(s) /\ second + 1 \in Cursors(s)
  <2>1. /\ first + 1 <= second /\ s[second] \in Separators
        /\ \A i \in 1..Len(s) : first + 1 <= i /\ i < second => s[i] \notin Separators
    BY <1>7 DEF FirstIn
  <2>2. FieldColons(s, second) = FieldColons(s, first + 1)
    BY <1>1, <2>1, FieldColonsFacts
  <2>3. Cardinality(FieldColons(s, second)) = Cardinality(FieldColons(s, first)) + 1
    BY <1>7, <2>2, OneMore
  <2>4. PICK n \in Nat : n = Cardinality(FieldColons(s, first))
    BY <1>1, FieldColonsFacts
  <2>5. second \notin KeyColons(s)
    BY <1>2, <1>3, <2>3, <2>4, Parity DEF KeyColons
  <2>6. CASE s[second] = ":"
    <3>1. Cardinality(FieldColons(s, second + 1)) = n + 2
      BY <2>3, <2>4, <2>6, OneMore
    <3>2. Cardinality(FieldColons(s, second + 1)) % 2 = 0
      BY <1>2, <1>3, <2>4, <3>1, Parity
    <3>3. second + 1 \in 1..(Len(s) + 1) /\ (second + 1) - 1 = second
      BY <1>1
    <3> QED  BY <2>1, <2>5, <3>2, <3>3 DEF Cursors
  <2>7. CASE s[second] # ":"
    BY <1>4, <2>1, <2>5, <2>7 DEF Separators
  <2> QED  BY <2>6, <2>7
<1> QED  BY <1>5, <1>6, <1>7

Tag(s, c) == [key |-> Before(s, c), val |-> After(s, c)]
TagsOf(s) == Chosen([c \in 1..Len(s) |-> Tag(s, c)], KeyColons(s), Len(s))

\* The loop of match finds the tags at the key colons.
LEMMA TagsFound ==
  ASSUME NEW S, NEW s \in Seq(S)
  PROVE  match(s) = FlattenSeq(TagsOf(s))
<1> DEFINE N == Len(s)
           M == N + 1
           K == KeyColons(s)
           fst(c) == Find(s, Separators, c)
           snd(c) == Find(s, Separators, fst(c) + 1)
           rec(c) == [key |-> SubSeq(s, c, fst(c) - 1),
                      val |-> IF snd(c) = 0 THEN From(s, fst(c) + 1) ELSE SubSeq(s, fst(c) + 1, snd(c) - 1)]
           none(c) == fst(c) = 0 \/ s[fst(c)] # ":"
           own == [c \in 1..M |-> IF none(c) THEN << >> ELSE <<rec(c)>>]
           next == [c \in 1..M |-> IF fst(c) = 0 THEN 0 ELSE IF s[fst(c)] # ":" THEN fst(c) + 1
                                   ELSE IF snd(c) = 0 THEN 0 ELSE snd(c) + 1]
           Pass(h, c) == IF fst(c) = 0 THEN << >>
                         ELSE IF s[fst(c)] # ":" THEN h[fst(c) + 1]
                         ELSE IF snd(c) = 0 THEN <<[key |-> SubSeq(s, c, fst(c) - 1), val |-> From(s, fst(c) + 1)]>>
                         ELSE <<[key |-> SubSeq(s, c, fst(c) - 1), val |-> SubSeq(s, fst(c) + 1, snd(c) - 1)]>>
                              \o h[snd(c) + 1]
           Step(h) == [c \in 1..M |-> Pass(h, c)]
           f == CHOOSE h : h = Step(h)
           T == [c \in 1..N |-> Tag(s, c)]
           R == {rec(c) : c \in 1..M} \cup {T[c] : c \in 1..N}
<1>1. match(s) = f[1]
  BY DEF match
<1>2. N \in Nat /\ M \in Nat /\ 1 \in 1..M /\ K \subseteq 1..N
  BY DEF KeyColons, At
<1>3. ASSUME NEW c \in 1..M PROVE FirstIn(fst(c), s, Separators, c) /\ fst(c) \in 0..N
  BY FindFacts DEF FirstIn
<1>4. ASSUME NEW c \in 1..M
      PROVE  FirstIn(snd(c), s, Separators, fst(c) + 1) /\ snd(c) \in 0..N
  <2>1. fst(c) + 1 \in Nat
    BY <1>2, <1>3
  <2> QED  BY <2>1, FindFacts DEF FirstIn
<1>5. /\ \A c \in 1..M : rec(c) \in R
      /\ \A c \in K : T[c] \in R
  BY <1>2
<1>6. \A c \in K : T[c] = Tag(s, c)
  BY <1>2
<1>7. TagsOf(s) = Chosen(T, K, N)
  BY DEF TagsOf
<1>8. /\ \A c \in 1..M : own[c] = IF none(c) THEN << >> ELSE <<rec(c)>>
      /\ \A c \in 1..M : next[c] = IF fst(c) = 0 THEN 0 ELSE IF s[fst(c)] # ":" THEN fst(c) + 1
                                   ELSE IF snd(c) = 0 THEN 0 ELSE snd(c) + 1
      /\ \A h : \A c \in 1..M : Step(h)[c] = Pass(h, c)
  OBVIOUS
<1>9. CursorRounds(own, next, M, R)
  <2>1. ASSUME NEW c \in 1..M PROVE own[c] \in Seq(R)
    <3> DEFINE x == rec(c)
    <3>1. x \in R
      BY <1>5
    <3> HIDE DEF R, x
    <3>2. << >> \in Seq(R) /\ <<x>> \in Seq(R)
      BY <3>1
    <3> QED  BY <1>8, <3>2, Zenon DEF x
  <2>2. ASSUME NEW c \in 1..M PROVE next[c] \in 0..M /\ (next[c] = 0 \/ c < next[c])
    <3>1. next[c] = IF fst(c) = 0 THEN 0 ELSE IF s[fst(c)] # ":" THEN fst(c) + 1
                    ELSE IF snd(c) = 0 THEN 0 ELSE snd(c) + 1
      BY <1>8, Zenon
    <3>2. /\ fst(c) \in 0..N /\ snd(c) \in 0..N /\ (fst(c) # 0 => fst(c) >= c)
          /\ (snd(c) # 0 => snd(c) >= fst(c) + 1)
      BY <1>3, <1>4 DEF FirstIn
    <3> HIDE DEF fst, snd, next
    <3> QED  BY <1>2, <3>1, <3>2
  <2>3. own \in [1..M -> Seq(R)]
    <3>1. own = [c \in 1..M |-> own[c]]
      OBVIOUS
    <3> HIDE DEF own, R
    <3> QED  BY <2>1, <3>1
  <2>4. next \in [1..M -> 0..M]
    <3>1. next = [c \in 1..M |-> next[c]]
      OBVIOUS
    <3> HIDE DEF next
    <3> QED  BY <2>2, <3>1
  <2> HIDE DEF own, next, R
  <2> QED  BY <2>2, <2>3, <2>4 DEF CursorRounds
<1>10. ASSUME NEW h, NEW c \in 1..M
       PROVE  /\ next[c] = 0 => Step(h)[c] = own[c]
              /\ next[c] # 0 /\ h[next[c]] \in Seq(R) => Step(h)[c] = own[c] \o h[next[c]]
  <2>1. /\ own[c] = IF none(c) THEN << >> ELSE <<rec(c)>>
        /\ next[c] = IF fst(c) = 0 THEN 0 ELSE IF s[fst(c)] # ":" THEN fst(c) + 1
                     ELSE IF snd(c) = 0 THEN 0 ELSE snd(c) + 1
        /\ Step(h)[c] = Pass(h, c)
    BY <1>8, Zenon
  <2>2. fst(c) \in 0..N /\ snd(c) \in 0..N
    BY <1>3, <1>4
  <2>3. fst(c) + 1 # 0 /\ snd(c) + 1 # 0
    BY <1>2, <2>2
  <2> HIDE DEF fst, snd, next, own, Step, R
  <2>4. CASE fst(c) = 0
    BY <2>1, <2>4
  <2>5. CASE fst(c) # 0 /\ s[fst(c)] # ":"
    <3>1. own[c] = << >> /\ next[c] = fst(c) + 1 /\ Step(h)[c] = h[next[c]]
      BY <2>1, <2>5
    <3>2. h[next[c]] \in Seq(R) => << >> \o h[next[c]] = h[next[c]]
      BY ConcatFacts, Zenon
    <3> QED  BY <2>3, <3>1, <3>2
  <2>6. CASE fst(c) # 0 /\ s[fst(c)] = ":" /\ snd(c) = 0
    BY <2>1, <2>6
  <2>7. CASE fst(c) # 0 /\ s[fst(c)] = ":" /\ snd(c) # 0
    <3>1. own[c] = <<rec(c)>> /\ next[c] = snd(c) + 1 /\ Step(h)[c] = <<rec(c)>> \o h[next[c]]
      BY <2>1, <2>7
    <3> QED  BY <2>3, <3>1
  <2> QED  BY <2>4, <2>5, <2>6, <2>7
<1>11. \E h : h = Step(h)
  <2>1. PICK h \in [1..M -> Seq(R)] : Finds(h, own, next, M, R)
    <3> HIDE DEF own, next, R
    <3> QED  BY <1>2, <1>9, CursorRecursion
  <2>2. ASSUME NEW c \in 1..M PROVE h[c] = Step(h)[c]
    <3>1. next[c] \in 0..M
      BY <1>9 DEF CursorRounds
    <3> HIDE DEF own, next, R, Step
    <3>2. CASE next[c] = 0
      BY <1>10, <2>1, <3>2 DEF Finds
    <3>3. CASE next[c] # 0
      <4>1. h[next[c]] \in Seq(R)
        BY <1>2, <2>1, <3>1, <3>3
      <4> QED  BY <1>10, <2>1, <3>3, <4>1 DEF Finds
    <3> QED  BY <3>2, <3>3
  <2>3. h = Step(h)
    <3>1. h = [c \in 1..M |-> h[c]] /\ Step(h) = [c \in 1..M |-> Step(h)[c]]
      BY <2>1
    <3> HIDE DEF Step
    <3> QED  BY <2>2, <3>1
  <2> QED  BY <2>3
<1>12. f = Step(f)
  <2> HIDE DEF Step
  <2> QED  BY <1>11
<1> HIDE DEF f
<1>13. Finds(f, own, next, M, R)
  <2> HIDE DEF own, next, R, Step
  <2> QED  BY <1>10, <1>12 DEF Finds
<1> DEFINE A == Cursors(s)
           t == TagsOf(s)
<1>14. /\ t \in Seq(Seq(R)) /\ Len(t) = N
       /\ \A i \in 1..N : i \in K => t[i] = <<T[i]>>
       /\ \A i \in 1..N : i \notin K => t[i] = << >>
  <2> HIDE DEF R, T, K, N, t
  <2>1. IsChosen(t, T, K, N, R)
    BY <1>2, <1>5, <1>7, ChosenType, Zenon DEF t
  <2> QED  BY <2>1, Zenon DEF IsChosen
<1>15. PICK g : Joined(g, t, R)
  <2> HIDE DEF R, t
  <2> QED  BY <1>14, JoinedExists
<1>16. FlattenSeq(t) = g[N]
  <2> HIDE DEF R, t
  <2> QED  BY <1>14, <1>15, FlattenIsJoin
<1>17. /\ g[0] = << >> /\ \A i \in 0..N : g[i] \in Seq(R)
       /\ \A i \in 1..N : g[i] = g[i - 1] \o t[i]
  <2> HIDE DEF R, t
  <2> QED  BY <1>14, <1>15 DEF Joined
<1>18. ASSUME NEW a \in 0..N, NEW b \in a..N, \A i \in (a + 1)..b : i \notin K PROVE g[b] = g[a]
  <2>1. \A i \in (a + 1)..b : t[i] = << >>
    <3>1. \A i \in (a + 1)..b : i \in 1..N
      BY <1>2
    <3> HIDE DEF K, N, t
    <3> QED  BY <1>14, <1>18, <3>1
  <2> HIDE DEF R, t, N, K
  <2> QED  BY <1>14, <1>15, <2>1, JoinedStretch
<1>19. ASSUME NEW i \in 1..N, s[i] \notin Separators \/ s[i] # ":" PROVE i \notin K
  BY <1>19 DEF KeyColons, At, Separators
<1>20. A \subseteq 1..M /\ 1 \in A
  <2>1. FieldColons(s, 1) = {}
    BY <1>2 DEF FieldColons, At
  <2>2. Cardinality(FieldColons(s, 1)) = 0 /\ 0 % 2 = 0
    BY <2>1, FS_EmptySet
  <2> QED  BY <1>2, <2>2 DEF Cursors
<1> DEFINE pre == [c \in A |-> g[c - 1]]
<1>21. /\ pre \in [A -> Seq(R)] /\ pre[1] = << >>
       /\ \A c \in A : pre[c] = g[c - 1]
  <2>1. \A c \in A : c - 1 \in 0..N
    BY <1>2, <1>20
  <2>2. \A c \in A : g[c - 1] \in Seq(R)
    <3> HIDE DEF A, R
    <3> QED  BY <1>17, <2>1
  <2> HIDE DEF A, R
  <2> QED  BY <1>17, <1>20, <2>2
<1>22. ASSUME NEW c \in A
       PROVE  /\ next[c] = 0 => pre[c] \o own[c] = g[N]
              /\ next[c] # 0 => next[c] \in A /\ pre[next[c]] = pre[c] \o own[c]
  <2>1. PICK a \in 0..N : a = c - 1 /\ c = a + 1
    BY <1>2, <1>20
  <2>2. c \in 1..M
    BY <1>20
  <2>3. PICK p \in 0..N : p = fst(c) /\ FirstIn(p, s, Separators, c)
    BY <1>3, <2>2
  <2>4. PICK q \in 0..N : q = snd(c) /\ FirstIn(q, s, Separators, p + 1)
    BY <1>4, <2>2, <2>3
  <2>5. /\ own[c] = IF p = 0 \/ s[p] # ":" THEN << >> ELSE <<rec(c)>>
        /\ next[c] = IF p = 0 THEN 0 ELSE IF s[p] # ":" THEN p + 1 ELSE IF q = 0 THEN 0 ELSE q + 1
    BY <1>8, <2>2, <2>3, <2>4
  <2>6. pre[c] = g[a] /\ g[a] \in Seq(R) /\ g[a] \o << >> = g[a]
    <3> HIDE DEF R, A, pre
    <3>1. pre[c] = g[a] /\ g[a] \in Seq(R)
      BY <1>17, <1>21, <2>1
    <3> QED  BY <3>1, ConcatFacts, Zenon
  <2>7. \A e \in A : e - 1 \in 0..N /\ pre[e] = g[e - 1]
    <3>1. \A e \in A : e - 1 \in 0..N
      BY <1>2, <1>20
    <3> HIDE DEF A, pre
    <3> QED  BY <1>21, <3>1
  <2>8. rec(c) = [key |-> SubSeq(s, c, p - 1), val |-> IF q = 0 THEN From(s, p + 1) ELSE SubSeq(s, p + 1, q - 1)]
    BY <2>3, <2>4
  <2> HIDE DEF own, next, pre, R, rec, fst, snd, none, T, t, N, K
  <2>9. CASE p = 0
    <3>1. g[N] = g[a]
      <4>1. \A i \in (a + 1)..N : i \in 1..N /\ s[i] \notin Separators
        BY <1>2, <2>1, <2>3, <2>9 DEF FirstIn, N
      <4>2. N \in a..N
        BY <1>2
      <4> QED  BY <1>18, <1>19, <4>1, <4>2
    <3> QED  BY <2>5, <2>6, <2>9, <3>1
  <2>10. CASE p # 0 /\ s[p] # ":"
    <3>1. p + 1 \in A
      <4>1. p \in 1..Len(s)
        BY <1>2, <2>10 DEF N
      <4> QED  BY <2>3, <2>10, <4>1, TagRound
    <3>2. g[p] = g[a]
      <4>1. \A i \in (a + 1)..p : i \in 1..N /\ (s[i] \notin Separators \/ s[i] # ":")
        BY <1>2, <2>1, <2>3, <2>10 DEF FirstIn, N
      <4>2. p \in a..N
        BY <1>2, <2>1, <2>3, <2>10 DEF FirstIn, N
      <4> QED  BY <1>18, <1>19, <4>1, <4>2
    <3>3. (p + 1) - 1 = p /\ p + 1 # 0
      BY <1>2
    <3>4. pre[p + 1] = g[p]
      BY <2>7, <3>1, <3>3
    <3>5. own[c] = << >> /\ next[c] = p + 1
      BY <2>5, <2>10
    <3> QED  BY <2>6, <3>1, <3>2, <3>3, <3>4, <3>5
  <2>11. CASE p # 0 /\ s[p] = ":"
    <3>1. p \in 1..N /\ p - 1 \in a..N /\ p - 1 \in 0..N /\ p >= c
      BY <1>2, <2>1, <2>3, <2>11 DEF FirstIn, N
    <3>2. p \in K /\ Before(s, p) = SubSeq(s, c, p - 1)
      <4>1. p \in 1..Len(s)
        BY <3>1 DEF N
      <4> QED  BY <2>3, <2>11, <4>1, TagRound DEF K
    <3>3. g[p - 1] = g[a]
      <4>1. \A i \in (a + 1)..(p - 1) : i \in 1..N /\ s[i] \notin Separators
        BY <1>2, <2>1, <2>3, <2>11, <3>1 DEF FirstIn, N
      <4> QED  BY <1>18, <1>19, <3>1, <4>1
    <3>4. T[p] = rec(c)
      <4>1. After(s, p) = SubSeq(s, p + 1, IF q = 0 THEN Len(s) ELSE q - 1)
        <5>1. Find(s, Separators, p + 1) = q
          BY <2>3, <2>4 DEF snd, fst
        <5> QED  BY <5>1 DEF After
      <4>2. After(s, p) = IF q = 0 THEN From(s, p + 1) ELSE SubSeq(s, p + 1, q - 1)
        BY <4>1 DEF From
      <4> QED  BY <1>6, <2>8, <3>2, <4>2 DEF Tag
    <3>5. g[p] = g[a] \o <<rec(c)>>
      BY <1>14, <1>17, <3>1, <3>2, <3>3, <3>4
    <3>6. own[c] = <<rec(c)>>
      BY <2>5, <2>11
    <3>7. CASE q = 0
      <4>1. \A i \in (p + 1)..N : i \in 1..N /\ s[i] \notin Separators
        BY <1>2, <2>4, <3>1, <3>7 DEF FirstIn, N
      <4>2. N \in p..N /\ p \in 0..N
        BY <1>2, <3>1
      <4>3. g[N] = g[p]
        BY <1>18, <1>19, <4>1, <4>2
      <4> QED  BY <2>5, <2>6, <2>11, <3>5, <3>6, <3>7, <4>3
    <3>8. CASE q # 0
      <4>1. q \notin K /\ q + 1 \in A
        <5>1. p \in 1..Len(s) /\ q \in 1..Len(s)
          BY <1>2, <3>1, <3>8 DEF N
        <5> QED  BY <2>3, <2>4, <2>11, <5>1, TagRound DEF K
      <4>2. \A i \in (p + 1)..q : i \in 1..N /\ (i = q \/ s[i] \notin Separators)
        BY <1>2, <2>4, <3>1, <3>8 DEF FirstIn, N
      <4>3. q \in p..N /\ p \in 0..N
        BY <1>2, <2>4, <3>1, <3>8 DEF FirstIn, N
      <4>4. g[q] = g[p]
        BY <1>18, <1>19, <4>1, <4>2, <4>3
      <4>5. (q + 1) - 1 = q /\ q + 1 # 0
        BY <1>2
      <4>6. pre[q + 1] = g[q]
        BY <2>7, <4>1, <4>5
      <4>7. next[c] = q + 1
        BY <2>5, <2>11, <3>8
      <4> QED  BY <2>6, <3>5, <3>6, <4>1, <4>4, <4>5, <4>6, <4>7
    <3> QED  BY <3>7, <3>8
  <2> QED  BY <2>9, <2>10, <2>11
<1>23. f[1] = g[N]
  <2>2. M \in Nat
    BY <1>2
  <2> HIDE DEF own, next, pre, R, A, t, N, M, K, T, Step
  <2>1. Passes(A, pre, own, next, M, R, g[N])
    BY <1>20, <1>21, <1>22, Zenon DEF Passes
  <2>3. PICK all : all = g[N]
    OBVIOUS
  <2>4. Passes(A, pre, own, next, M, R, all)
    BY <2>1, <2>3, Zenon
  <2>5. f[1] = all
    BY <1>9, <1>13, <2>2, <2>4, CursorLoop
  <2> QED  BY <2>3, <2>5
<1> QED  BY <1>1, <1>16, <1>23

\* kv_filter::match: what TagsAreFound says, for any text.
LEMMA TagsInOrder ==
  ASSUME NEW S, NEW s \in Seq(S)
  PROVE  LET cs == InOrder(KeyColons(s), Len(s)) IN
         match(s) = [i \in DOMAIN cs |-> [key |-> Before(s, cs[i]), val |-> After(s, cs[i])]]
<1> DEFINE N == Len(s)
           K == KeyColons(s)
           T == [c \in 1..N |-> Tag(s, c)]
           R == {T[c] : c \in 1..N}
           cs == InOrder(K, N)
           out == match(s)
<1>1. N \in Nat /\ K \subseteq 1..N
  BY DEF KeyColons, At
<1>2. (\A c \in K : T[c] \in R) /\ \A c \in K : T[c] = [key |-> Before(s, c), val |-> After(s, c)]
  BY <1>1 DEF Tag
<1>3. cs = FlattenSeq(Positions(K, N)) /\ out = FlattenSeq(Chosen(T, K, N))
  BY TagsFound DEF InOrder, Positions, TagsOf
<1> HIDE DEF N, K, T, R, cs, out
<1>4. Alike(cs, out, T, K, R)
  <2>1. Alike(FlattenSeq(Positions(K, N)), FlattenSeq(Chosen(T, K, N)), T, K, R)
    BY <1>1, <1>2, ChosenInOrder, Zenon
  <2> QED  BY <1>3, <2>1, Zenon
<1>5. ASSUME NEW j \in 1..Len(cs) PROVE out[j] = [key |-> Before(s, cs[j]), val |-> After(s, cs[j])]
  <2>1. cs[j] \in K /\ out[j] = T[cs[j]]
    BY <1>4 DEF Alike
  <2> QED  BY <1>2, <2>1, Zenon
<1>6. DOMAIN cs = 1..Len(cs) /\ out = [j \in 1..Len(cs) |-> out[j]]
  BY <1>4 DEF Alike
<1>7. out = [i \in DOMAIN cs |-> [key |-> Before(s, cs[i]), val |-> After(s, cs[i])]]
  BY <1>5, <1>6
<1> QED  BY <1>7 DEF out, cs, K, N

-----------------------------------------------------------------------------
(* The line format: lines *)

\* What is skipped by find_first_not_of is spaces.
LEMMA SpacesPart ==
  ASSUME NEW S, NEW s \in Seq(S), NEW m \in 0..Len(s), NEW n \in m..Len(s),
         \A i \in 1..Len(s) : m < i /\ i <= n => s[i] = "SP"
  PROVE  SubSeq(s, m + 1, n) = Spaces(n - m) /\ n - m \in 0..Len(s)
<1>0. Len(s) \in Nat /\ m + 1 \in 1..(Len(s) + 1) /\ n \in ((m + 1) - 1)..Len(s) /\ n - (m + 1) + 1 = n - m
      /\ n - m \in 0..Len(s)
  OBVIOUS
<1> DEFINE u == SubSeq(s, m + 1, n)
<1>1. u \in Seq(S) /\ Len(u) = n - m /\ \A i \in 1..(n - m) : u[i] = s[(m + 1) + i - 1]
  BY <1>0, PartFacts
<1> HIDE DEF u
<1>2. ASSUME NEW i \in 1..(n - m) PROVE u[i] = "SP"
  <2>1. (m + 1) + i - 1 \in 1..Len(s) /\ m < (m + 1) + i - 1 /\ (m + 1) + i - 1 <= n
    BY <1>0
  <2> QED  BY <1>1, <2>1
<1>3. u = [i \in 1..(n - m) |-> u[i]]
  BY <1>1
<1> QED  BY <1>0, <1>2, <1>3 DEF Spaces, u

InParts(s, a, b, c, d, e) ==
  s = SubSeq(s, 1, a) \o SubSeq(s, a + 1, b) \o SubSeq(s, b + 1, c) \o SubSeq(s, c + 1, d)
      \o SubSeq(s, d + 1, e) \o SubSeq(s, e + 1, Len(s))

\* A sequence is its parts, one behind the other.
LEMMA SixParts ==
  ASSUME NEW S, NEW s \in Seq(S), NEW a \in 0..Len(s), NEW b \in a..Len(s), NEW c \in b..Len(s),
         NEW d \in c..Len(s), NEW e \in d..Len(s)
  PROVE  InParts(s, a, b, c, d, e)
<1>1. /\ Len(s) \in Nat /\ 1 \in 1..(Len(s) + 1)
      /\ a \in (1 - 1)..Len(s) /\ b \in (1 - 1)..Len(s) /\ c \in (1 - 1)..Len(s)
      /\ d \in (1 - 1)..Len(s) /\ e \in (1 - 1)..Len(s) /\ Len(s) \in e..Len(s)
  OBVIOUS
<1>2. SubSeq(s, 1, a) \o SubSeq(s, a + 1, b) = SubSeq(s, 1, b)
  BY <1>1, ConcatAdjacentSubSeq
<1>3. SubSeq(s, 1, b) \o SubSeq(s, b + 1, c) = SubSeq(s, 1, c)
  BY <1>1, ConcatAdjacentSubSeq
<1>4. SubSeq(s, 1, c) \o SubSeq(s, c + 1, d) = SubSeq(s, 1, d)
  BY <1>1, ConcatAdjacentSubSeq
<1>5. SubSeq(s, 1, d) \o SubSeq(s, d + 1, e) = SubSeq(s, 1, e)
  BY <1>1, ConcatAdjacentSubSeq
<1>6. SubSeq(s, 1, e) \o SubSeq(s, e + 1, Len(s)) = SubSeq(s, 1, Len(s))
  BY <1>1, ConcatAdjacentSubSeq
<1>7. SubSeq(s, 1, Len(s)) = s
  BY SubSeqFull
<1> QED  BY <1>2, <1>3, <1>4, <1>5, <1>6, <1>7, Zenon DEF InParts

\* Where the head of a line ends, as parse_line finds it.
LEMMA AfterHeadIs ==
  ASSUME NEW S, NEW l \in Seq(S)
  PROVE  LET open == Find(l, {"LBRACE"}, 1)
             close == Find(l, {"RBRACE"}, open + 1)
             space == Find(l, {"SP"}, 1) IN
         /\ open # 0 <=> "LBRACE" \in ToSet(l)
         /\ AfterHead(l) = IF open # 0 THEN (IF close = 0 THEN << >> ELSE From(l, close + 1))
                           ELSE IF space # 0 THEN From(l, space + 1) ELSE << >>
<1> DEFINE open == Find(l, {"LBRACE"}, 1)
           close == Find(l, {"RBRACE"}, open + 1)
           space == Find(l, {"SP"}, 1)
           C == {i \in At(l, {"RBRACE"}) : \E j \in At(l, {"LBRACE"}) : j < i}
           B == At(l, {"SP"})
<1>1. FirstIn(open, l, {"LBRACE"}, 1) /\ FirstIn(space, l, {"SP"}, 1) /\ open \in Nat /\ space \in Nat
  BY FindFacts DEF FirstIn
<1>2. open + 1 \in Nat
  BY <1>1
<1>3. FirstIn(close, l, {"RBRACE"}, open + 1)
  BY <1>2, FindFacts
<1>4. Len(l) \in Nat /\ DOMAIN l = 1..Len(l) /\ \A x : x \in ToSet(l) <=> \E i \in 1..Len(l) : l[i] = x
  BY ElementsAt
<1>5. /\ open # 0 <=> "LBRACE" \in ToSet(l)
      /\ space # 0 <=> "SP" \in ToSet(l)
  <2> HIDE DEF open, space
  <2> QED  BY <1>1, <1>4 DEF FirstIn
<1>6. space = IF B = {} THEN 0 ELSE Min(B)
  <2>1. B = {i \in DOMAIN l : i >= 1 /\ l[i] \in {"SP"}}
    BY <1>4 DEF At
  <2> HIDE DEF B
  <2> QED  BY <2>1 DEF Find
<1>7. ASSUME open # 0 PROVE close = IF C = {} THEN 0 ELSE Min(C)
  <2>1. ASSUME NEW i \in 1..Len(l), NEW j \in 1..Len(l), l[j] = "LBRACE", j < i PROVE i >= open + 1
    <3> HIDE DEF open
    <3> QED  BY <1>1, <1>7, <2>1 DEF FirstIn
  <2>2. open \in 1..Len(l) /\ l[open] = "LBRACE"
    <3> HIDE DEF open
    <3> QED  BY <1>1, <1>4, <1>7 DEF FirstIn
  <2>3. PICK o \in 1..Len(l) : o = open
    BY <2>2
  <2>4. C = {i \in DOMAIN l : i >= open + 1 /\ l[i] \in {"RBRACE"}}
    <3> HIDE DEF open
    <3>1. ASSUME NEW i \in C PROVE i \in DOMAIN l /\ i >= open + 1 /\ l[i] \in {"RBRACE"}
      BY <1>4, <2>1 DEF At
    <3>2. ASSUME NEW i \in DOMAIN l, i >= open + 1, l[i] \in {"RBRACE"} PROVE i \in C
      <4>1. o \in At(l, {"LBRACE"}) /\ o < i /\ i \in At(l, {"RBRACE"})
        BY <1>4, <2>2, <2>3, <3>2 DEF At
      <4> QED  BY <4>1
    <3> HIDE DEF C
    <3>3. \A i : i \in C <=> i \in DOMAIN l /\ i >= open + 1 /\ l[i] \in {"RBRACE"}
      <4>1. \A i \in C : i \in DOMAIN l
        BY <3>1
      <4> QED  BY <3>1, <3>2, Zenon
    <3> QED  BY <3>3, Zenon
  <2> HIDE DEF C
  <2> QED  BY <2>4 DEF Find
<1>8. /\ C # {} => Min(C) # 0
      /\ B # {} => Min(B) # 0
  <2>1. C \subseteq 1..Len(l) /\ B \subseteq 1..Len(l)
    BY <1>4 DEF At
  <2> HIDE DEF C, B
  <2>2. \A x \in 1..Len(l) : x # 0
    BY <1>4
  <2> QED  BY <1>4, <2>1, <2>2, LeastOf
<1>9. AfterHead(l) = IF "LBRACE" \in ToSet(l) THEN IF C = {} THEN << >> ELSE From(l, Min(C) + 1)
                     ELSE IF "SP" \in ToSet(l) THEN From(l, Min(B) + 1) ELSE << >>
  BY DEF AfterHead
<1>10. "SP" \in ToSet(l) <=> B # {}
  BY <1>4 DEF At
<1> HIDE DEF C, B, open, close, space
<1>11. AfterHead(l) = IF open # 0 THEN (IF close = 0 THEN << >> ELSE From(l, close + 1))
                      ELSE IF space # 0 THEN From(l, space + 1) ELSE << >>
  <2>1. CASE open # 0
    BY <1>5, <1>7, <1>8, <1>9, <2>1
  <2>2. CASE open = 0
    BY <1>5, <1>6, <1>8, <1>9, <1>10, <2>2
  <2> QED  BY <2>1, <2>2
<1> QED  BY <1>5, <1>11 DEF open, close, space

MetricOf(l) == parse_line(l)[1]

\* One line: a metric that reads it, or none.
LEMMA ParseLine ==
  ASSUME NEW S, NEW l \in Seq(S), l # << >>, l[1] # "#"
  PROVE  /\ HasMetric(l) => parse_line(l) = <<MetricOf(l)>> /\ ReadAs(MetricOf(l), l)
         /\ ~HasMetric(l) => parse_line(l) = << >>
<1> DEFINE open == Find(l, {"LBRACE"}, 1)
           close == IF open = 0 THEN 0 ELSE Find(l, {"RBRACE"}, open + 1)
           space == Find(l, {"SP"}, 1)
           vb == IF open # 0 THEN FindNot(l, {"SP"}, close + 1)
                 ELSE IF space # 0 THEN FindNot(l, {"SP"}, space + 1) ELSE 0
           ve == Find(l, {"SP"}, vb)
           tb == IF ve = 0 THEN 0 ELSE FindNot(l, {"SP"}, ve + 1)
           m == [name  |-> SubSeq(l, 1, (IF open # 0 THEN open ELSE space) - 1),
                 tags  |-> IF open = 0 THEN << >> ELSE SubSeq(l, open, close),
                 value |-> IF ve = 0 THEN From(l, vb) ELSE SubSeq(l, vb, ve - 1),
                 ts    |-> IF tb = 0 THEN << >> ELSE From(l, tb)]
           L == Len(l)
<1>1. parse_line(l) = IF (open # 0 /\ close = 0) \/ vb = 0 THEN << >> ELSE <<m>>
  BY DEF parse_line
<1>2. L \in Nat /\ \A x : x \in ToSet(l) <=> \E i \in 1..L : l[i] = x
  BY ElementsAt
<1>3. PICK o \in 0..L : o = open /\ FirstIn(o, l, {"LBRACE"}, 1)
  BY FindFacts DEF FirstIn
<1>4. PICK sp \in 0..L : sp = space /\ FirstIn(sp, l, {"SP"}, 1)
  BY FindFacts DEF FirstIn
<1>5. PICK cl \in 0..L : cl = close /\ (o # 0 => FirstIn(cl, l, {"RBRACE"}, o + 1)) /\ (o = 0 => cl = 0)
  <2>1. CASE o = 0
    BY <1>2, <1>3, <2>1
  <2>2. CASE o # 0
    <3>1. o + 1 \in Nat
      BY <1>2
    <3>2. FirstIn(close, l, {"RBRACE"}, o + 1)
      BY <1>3, <2>2, <3>1, FindFacts
    <3> HIDE DEF close
    <3> QED  BY <2>2, <3>2 DEF FirstIn
  <2> QED  BY <2>1, <2>2
\* h is where the head of the line ends
<1>6. PICK h \in 0..L : h = IF o # 0 THEN cl ELSE sp
  OBVIOUS
<1>7. PICK v \in 0..L : v = vb /\ (h # 0 => FirstNotIn(v, l, {"SP"}, h + 1)) /\ (o = 0 /\ sp = 0 => v = 0)
  <2>0. open = o /\ space = sp /\ close = cl
    BY <1>3, <1>4, <1>5
  <2> HIDE DEF open, space, close
  <2>1. h + 1 \in Nat /\ FirstNotIn(FindNot(l, {"SP"}, h + 1), l, {"SP"}, h + 1)
    <3>1. h + 1 \in Nat
      BY <1>2
    <3> QED  BY <3>1, FindNotFacts
  <2>2. FindNot(l, {"SP"}, h + 1) \in 0..L
    BY <2>1 DEF FirstNotIn
  <2>3. vb = IF o # 0 \/ sp # 0 THEN FindNot(l, {"SP"}, h + 1) ELSE 0
    BY <1>6, <2>0
  <2> HIDE DEF vb
  <2>4. vb \in 0..L /\ (h # 0 => FirstNotIn(vb, l, {"SP"}, h + 1)) /\ (o = 0 /\ sp = 0 => vb = 0)
    BY <1>2, <1>5, <1>6, <2>1, <2>2, <2>3
  <2> QED  BY <2>4
<1>8. AfterHead(l) = (IF h = 0 THEN << >> ELSE From(l, h + 1)) /\ (o # 0 <=> "LBRACE" \in ToSet(l))
  BY <1>3, <1>4, <1>5, <1>6, AfterHeadIs
<1>9. HasMetric(l) <=> h # 0 /\ v # 0
  <2>1. CASE h = 0
    <3>1. ToSet(<< >>) = {}
      BY DEF ToSet
    <3> QED  BY <1>8, <2>1, <3>1 DEF HasMetric
  <2>2. CASE h # 0
    <3>1. h + 1 \in 1..(Len(l) + 1) /\ Len(l) \in ((h + 1) - 1)..Len(l)
      BY <1>2, <2>2
    <3>2. ToSet(From(l, h + 1)) = {l[i] : i \in (h + 1)..Len(l)}
      BY <3>1, PartFacts DEF From
    <3>3. v # 0 <=> ~ ({l[i] : i \in (h + 1)..Len(l)} \subseteq {"SP"})
      <4>1. CASE v = 0
        <5>1. \A i \in (h + 1)..Len(l) : i \in 1..Len(l) /\ l[i] \in {"SP"}
          BY <1>2, <1>7, <2>2, <4>1 DEF FirstNotIn
        <5> QED  BY <4>1, <5>1
      <4>2. CASE v # 0
        <5>1. v \in (h + 1)..Len(l) /\ l[v] \notin {"SP"}
          BY <1>2, <1>7, <2>2, <4>2 DEF FirstNotIn
        <5> QED  BY <4>2, <5>1
      <4> QED  BY <4>1, <4>2
    <3> QED  BY <1>8, <2>2, <3>2, <3>3 DEF HasMetric
  <2> QED  BY <2>1, <2>2
<1>10. (open # 0 /\ close = 0) \/ vb = 0 <=> h = 0 \/ v = 0
  <2>0. open = o /\ space = sp /\ close = cl /\ vb = v
    BY <1>3, <1>4, <1>5, <1>7
  <2> HIDE DEF open, space, close, vb
  <2> QED  BY <1>5, <1>6, <1>7, <2>0
<1>11. ASSUME h # 0, v # 0 PROVE ReadAs(m, l)
  <2>0. open = o /\ space = sp /\ close = cl /\ vb = v
    BY <1>3, <1>4, <1>5, <1>7
  <2>1. PICK e \in 0..L : e = ve /\ FirstIn(e, l, {"SP"}, v)
    <3>1. v \in Nat
      BY <1>2
    <3>2. FirstIn(ve, l, {"SP"}, v)
      BY <2>0, <3>1, FindFacts
    <3> HIDE DEF ve
    <3> QED  BY <3>2 DEF FirstIn
  <2>2. PICK t \in 0..L : t = tb /\ (e = 0 => t = 0) /\ (e # 0 => FirstNotIn(t, l, {"SP"}, e + 1))
    <3>1. CASE e = 0
      BY <1>2, <2>1, <3>1
    <3>2. CASE e # 0
      <4>1. e + 1 \in Nat
        BY <1>2
      <4>2. FirstNotIn(tb, l, {"SP"}, e + 1)
        BY <2>1, <3>2, <4>1, FindNotFacts
      <4> HIDE DEF tb
      <4> QED  BY <3>2, <4>2 DEF FirstNotIn
    <3> QED  BY <3>1, <3>2
  <2>3. /\ m.name = SubSeq(l, 1, (IF o # 0 THEN o ELSE sp) - 1)
        /\ m.tags = IF o = 0 THEN << >> ELSE SubSeq(l, o, cl)
        /\ m.value = IF e = 0 THEN From(l, v) ELSE SubSeq(l, v, e - 1)
        /\ m.ts = IF t = 0 THEN << >> ELSE From(l, t)
    BY <2>0, <2>1, <2>2
  <2> HIDE DEF open, space, close, vb, ve, tb, m
  \* the ends of the six parts
  <2>4. PICK a \in 0..L : a = (IF o # 0 THEN o ELSE sp) - 1
    BY <1>2, <1>5, <1>6, <1>11
  <2>5. PICK b \in a..L : b = (IF o # 0 THEN cl ELSE sp - 1)
    BY <1>2, <1>3, <1>5, <1>6, <1>11, <2>4 DEF FirstIn
  <2>6. PICK c \in b..L : c = v - 1 /\ c + 1 = v
    BY <1>2, <1>6, <1>7, <1>11, <2>5 DEF FirstNotIn
  <2>7. PICK d \in c..L : d = (IF e = 0 THEN L ELSE e - 1) /\ c < d
    <3>1. CASE e = 0
      BY <1>2, <2>6, <3>1
    <3>2. CASE e # 0
      <4>1. e # v
        BY <1>2, <1>7, <1>11, <2>1, <3>2 DEF FirstNotIn, FirstIn
      <4>2. e >= v
        BY <2>1, <3>2 DEF FirstIn
      <4> QED  BY <1>2, <2>6, <3>2, <4>1, <4>2
    <3> QED  BY <3>1, <3>2
  <2>8. PICK f \in d..L : f = (IF t = 0 THEN L ELSE t - 1)
    BY <1>2, <2>2, <2>7 DEF FirstNotIn
  <2>9. m.name = SubSeq(l, 1, a)
    BY <2>3, <2>4
  <2>10. m.tags = SubSeq(l, a + 1, b) /\ (m.tags # << >> <=> o # 0)
    <3>1. CASE o # 0
      <4>1. a + 1 = o /\ b = cl /\ cl >= o /\ o \in 1..(Len(l) + 1) /\ cl \in (o - 1)..Len(l)
        BY <1>2, <1>5, <1>6, <1>11, <2>4, <2>5, <3>1 DEF FirstIn
      <4>2. Len(SubSeq(l, o, cl)) = cl - o + 1
        BY <4>1, PartFacts
      <4>3. Len(SubSeq(l, o, cl)) # 0
        BY <4>1, <4>2
      <4>4. SubSeq(l, o, cl) # << >>
        <5>1. Len(<< >>) = 0
          OBVIOUS
        <5> QED  BY <4>3, <5>1, Zenon
      <4> QED  BY <2>3, <3>1, <4>1, <4>4
    <3>2. CASE o = 0
      <4>1. b = a /\ a + 1 \in 1..(Len(l) + 1) /\ b \in ((a + 1) - 1)..Len(l)
        BY <1>2, <2>4, <2>5, <3>2
      <4>2. Len(SubSeq(l, a + 1, b)) = 0 /\ SubSeq(l, a + 1, b) \in Seq(S)
        BY <4>1, PartFacts
      <4>3. SubSeq(l, a + 1, b) = << >>
        BY <4>2, EmptySeq
      <4> QED  BY <2>3, <3>2, <4>3
    <3> QED  BY <3>1, <3>2
  <2>11. SubSeq(l, b + 1, c) = Spaces(c - b) /\ c - b \in 0..Len(l)
    <3>1. \A i \in 1..Len(l) : b < i /\ i <= c => l[i] = "SP"
      <4>1. CASE o # 0
        BY <1>2, <1>6, <1>7, <1>11, <2>5, <2>6, <4>1 DEF FirstNotIn
      <4>2. CASE o = 0
        <5>1. sp # 0 /\ l[sp] = "SP" /\ h = sp
          BY <1>4, <1>6, <1>11, <4>2 DEF FirstIn
        <5>2. \A i \in 1..Len(l) : i >= h + 1 /\ i < v => l[i] \in {"SP"}
          BY <1>7, <1>11 DEF FirstNotIn
        <5> QED  BY <1>2, <2>5, <2>6, <4>2, <5>1, <5>2
      <4> QED  BY <4>1, <4>2
    <3>2. b \in 0..Len(l) /\ c \in b..Len(l)
      BY <1>2, <2>4, <2>5, <2>6
    <3> QED  BY <3>1, <3>2, SpacesPart
  <2>12. m.value = SubSeq(l, c + 1, d)
    BY <2>3, <2>6, <2>7 DEF From
  <2>13. SubSeq(l, d + 1, f) = Spaces(f - d) /\ f - d \in 0..Len(l)
    <3>1. \A i \in 1..Len(l) : d < i /\ i <= f => l[i] = "SP"
      <4>1. CASE e = 0
        BY <1>2, <2>7, <2>8, <4>1
      <4>2. CASE e # 0
        <5>1. l[e] = "SP"
          BY <2>1, <4>2 DEF FirstIn
        <5>2. \A i \in 1..Len(l) : i >= e + 1 /\ i <= f => l[i] \in {"SP"}
          BY <1>2, <2>2, <2>8, <4>2 DEF FirstNotIn
        <5> QED  BY <1>2, <2>7, <4>2, <5>1, <5>2
      <4> QED  BY <4>1, <4>2
    <3>2. d \in 0..Len(l) /\ f \in d..Len(l)
      BY <1>2, <2>4, <2>5, <2>6, <2>7, <2>8
    <3> QED  BY <3>1, <3>2, SpacesPart
  <2>14. m.ts = SubSeq(l, f + 1, Len(l))
    <3>1. CASE t # 0
      <4>1. f + 1 = t
        BY <1>2, <2>8, <3>1
      <4> QED  BY <2>3, <3>1, <4>1 DEF From
    <3>2. CASE t = 0
      <4>1. f = Len(l) /\ f + 1 \in 1..(Len(l) + 1) /\ Len(l) \in ((f + 1) - 1)..Len(l) /\ Len(l) - (f + 1) + 1 = 0
        BY <1>2, <2>8, <3>2
      <4>2. Len(SubSeq(l, f + 1, Len(l))) = 0 /\ SubSeq(l, f + 1, Len(l)) \in Seq(S)
        BY <4>1, PartFacts
      <4>3. SubSeq(l, f + 1, Len(l)) = << >>
        BY <4>2, EmptySeq
      <4> QED  BY <2>3, <3>2, <4>3
    <3> QED  BY <3>1, <3>2
  <2>15. l = m.name \o m.tags \o Spaces(c - b) \o m.value \o Spaces(f - d) \o m.ts
    <3>1. a \in 0..Len(l) /\ b \in a..Len(l) /\ c \in b..Len(l) /\ d \in c..Len(l) /\ f \in d..Len(l)
      OBVIOUS
    <3>2. InParts(l, a, b, c, d, f)
      BY <3>1, SixParts
    <3> QED  BY <2>9, <2>10, <2>11, <2>12, <2>13, <2>14, <3>2, Zenon DEF InParts
  <2>16. m.value # << >> /\ "SP" \notin ToSet(m.value)
    <3>1. c + 1 \in 1..(Len(l) + 1) /\ d \in ((c + 1) - 1)..Len(l) /\ d - (c + 1) + 1 # 0
      BY <1>2, <2>4, <2>5, <2>6, <2>7
    <3>2. PICK k \in 1..(Len(l) + 1) : k = c + 1 /\ d \in (k - 1)..Len(l)
      BY <3>1
    <3>3. \A i \in k..d : l[i] # "SP"
      <4>1. \A i \in k..d : i \in 1..Len(l) /\ i >= v /\ (e # 0 => i < e)
        BY <1>2, <2>4, <2>5, <2>6, <2>7, <3>2
      <4> QED  BY <2>1, <4>1 DEF FirstIn
    <3>4. Len(SubSeq(l, k, d)) = d - k + 1
      BY <3>2, PartFacts
    <3>5. "SP" \notin ToSet(SubSeq(l, k, d))
      BY <3>2, <3>3, PartLacks
    <3>6. Len(m.value) # 0 /\ Len(<< >>) = 0
      BY <2>12, <3>1, <3>2, <3>4, Zenon
    <3> QED  BY <2>12, <3>2, <3>5, <3>6, Zenon
  <2>17. "LBRACE" \notin ToSet(m.name)
    <3>1. 1 \in 1..(Len(l) + 1) /\ a \in (1 - 1)..Len(l)
      BY <1>2
    <3>2. ToSet(m.name) = {l[i] : i \in 1..a}
      BY <2>9, <3>1, PartFacts
    <3>3. \A i \in 1..a : i \in 1..Len(l) /\ i >= 1 /\ (o # 0 => i < o)
      BY <1>2, <2>4
    <3>4. \A i \in 1..a : l[i] # "LBRACE"
      BY <1>3, <3>3 DEF FirstIn
    <3> QED  BY <3>2, <3>4
  <2> QED  BY <1>8, <2>10, <2>11, <2>13, <2>15, <2>16, <2>17, Zenon DEF ReadAs
<1> HIDE DEF open, close, space, vb, ve, tb, m
<1>12. HasMetric(l) => parse_line(l) = <<m>>
  BY <1>1, <1>9, <1>10
<1>13. parse_line(l) = <<m>> => MetricOf(l) = m
  BY DEF MetricOf
<1>14. ~HasMetric(l) => parse_line(l) = << >>
  BY <1>1, <1>9, <1>10
<1> QED  BY <1>9, <1>11, <1>12, <1>13, <1>14

MetricEnds(s) == {e \in At(s, {"LF"}) : HasMetric(LineTo(s, e))}
MetricsOf(s) == Chosen([e \in 1..Len(s) |-> MetricOf(LineTo(s, e))], MetricEnds(s), Len(s))

\* One round of the loop over the lines, from the begin of a line.
LEMMA LineRound ==
  ASSUME NEW S, NEW s \in Seq(S), NEW c \in 1..Len(s), c = 1 \/ s[c - 1] = "LF",
         NEW e \in 1..Len(s), FirstIn(e, s, {"LF"}, c)
  PROVE  /\ LineTo(s, e) = SubSeq(s, c, e - 1)
         /\ e = c \/ s[c] = "#" => e \notin MetricEnds(s)
         /\ ~ (e = c \/ s[c] = "#") =>
              /\ e \in MetricEnds(s) => parse_line(SubSeq(s, c, e - 1)) = <<MetricOf(LineTo(s, e))>>
              /\ e \notin MetricEnds(s) => parse_line(SubSeq(s, c, e - 1)) = << >>
<1>1. /\ Len(s) \in Nat /\ c <= e /\ s[e] = "LF"
      /\ \A i \in 1..Len(s) : c <= i /\ i < e => s[i] # "LF"
  BY DEF FirstIn
<1> DEFINE P == At(s, {"LF"})
<1>2. P \subseteq 1..Len(s) /\ \A i \in 1..Len(s) : i \in P <=> s[i] = "LF"
  BY DEF At
<1>3. LineTo(s, e) = SubSeq(s, c, e - 1)
  <2> HIDE DEF P
  <2>1. LastIn(c - 1, P, e - 1) /\ c - 1 \in 0..Len(s) /\ e - 1 \in Int /\ (c - 1) + 1 = c
    BY <1>1, <1>2 DEF LastIn
  <2>2. LastUpTo(P, e - 1) = c - 1
    BY <1>1, <1>2, <2>1, LastUpToFacts
  <2> QED  BY <2>1, <2>2 DEF LineTo, P
<1>4. PICK k \in (c - 1)..Len(s) : k = e - 1 /\ c \in 1..(Len(s) + 1)
  BY <1>1
<1>5. PICK l \in Seq(S) : l = SubSeq(s, c, k) /\ Len(l) = k - c + 1 /\ \A i \in 1..(k - c + 1) : l[i] = s[c + i - 1]
  <2>1. SubSeq(s, c, k) \in Seq(S) /\ Len(SubSeq(s, c, k)) = k - c + 1
    BY <1>4, PartFacts
  <2>2. \A i \in 1..(k - c + 1) : SubSeq(s, c, k)[i] = s[c + i - 1]
    BY <1>4, PartFacts
  <2> QED  BY <2>1, <2>2, Zenon
<1>6. e \in MetricEnds(s) <=> HasMetric(l)
  <2>1. e \in P
    BY <1>1, <1>2
  <2> QED  BY <1>3, <1>4, <1>5, <2>1 DEF MetricEnds
<1>7. e = c \/ s[c] = "#" => ~HasMetric(l)
  <2>1. CASE e = c
    <3>1. Len(l) = 0
      BY <1>1, <1>4, <1>5, <2>1
    <3>2. l = << >>
      BY <3>1, EmptySeq
    <3> QED  BY <3>2 DEF HasMetric
  <2>2. CASE e # c /\ s[c] = "#"
    <3>1. 1 \in 1..(k - c + 1) /\ c + 1 - 1 = c
      BY <1>1, <1>4, <2>2
    <3>2. l[1] = "#"
      BY <1>5, <2>2, <3>1
    <3> QED  BY <3>2 DEF HasMetric
  <2> QED  BY <2>1, <2>2
<1>8. ASSUME ~ (e = c \/ s[c] = "#")
      PROVE  /\ HasMetric(l) => parse_line(l) = <<MetricOf(l)>>
             /\ ~HasMetric(l) => parse_line(l) = << >>
  <2>1. 1 \in 1..(k - c + 1) /\ c + 1 - 1 = c
    BY <1>1, <1>4, <1>8
  <2>2. l[1] # "#" /\ l # << >>
    BY <1>5, <1>8, <2>1
  <2> QED  BY <2>2, ParseLine
<1>9. LineTo(s, e) = l
  BY <1>3, <1>4, <1>5
<1> QED  BY <1>3, <1>6, <1>7, <1>8, <1>9, Zenon

\* The loop over the lines finds the metrics of the lines that have one.
LEMMA LinesFound ==
  ASSUME NEW S, NEW s \in Seq(S)
  PROVE  parse_lines(s) = FlattenSeq(MetricsOf(s))
<1> DEFINE N == Len(s)
           M == N + 1
           K == MetricEnds(s)
           lf(c) == Find(s, {"LF"}, c)
           skip(c) == lf(c) = c \/ s[c] = "#"
           read(c) == parse_line(SubSeq(s, c, lf(c) - 1))
           done(c) == c > Len(s) \/ lf(c) = 0
           own == [c \in 1..M |-> IF done(c) THEN << >> ELSE IF skip(c) THEN << >> ELSE read(c)]
           next == [c \in 1..M |-> IF done(c) THEN 0 ELSE lf(c) + 1]
           Pass(h, c) == IF done(c) THEN << >> ELSE (IF skip(c) THEN << >> ELSE read(c)) \o h[lf(c) + 1]
           Step(h) == [c \in 1..M |-> Pass(h, c)]
           f == CHOOSE h : h = Step(h)
           T == [e \in 1..N |-> MetricOf(LineTo(s, e))]
           R == {MetricOf(SubSeq(s, c, lf(c) - 1)) : c \in 1..M} \cup {T[e] : e \in 1..N}
<1>1. parse_lines(s) = f[1]
  BY DEF parse_lines
<1>2. N \in Nat /\ M \in Nat /\ 1 \in 1..M /\ K \subseteq 1..N
  BY DEF MetricEnds, At
<1>3. ASSUME NEW c \in 1..M PROVE FirstIn(lf(c), s, {"LF"}, c) /\ lf(c) \in 0..N
  BY FindFacts DEF FirstIn
<1>4. /\ \A c \in 1..M : MetricOf(SubSeq(s, c, lf(c) - 1)) \in R
      /\ \A e \in K : T[e] \in R
  BY <1>2
<1>5. \A e \in K : T[e] = MetricOf(LineTo(s, e))
  BY <1>2
<1>6. MetricsOf(s) = Chosen(T, K, N)
  BY DEF MetricsOf
<1>7. /\ \A c \in 1..M : own[c] = IF done(c) THEN << >> ELSE IF skip(c) THEN << >> ELSE read(c)
      /\ \A c \in 1..M : next[c] = IF done(c) THEN 0 ELSE lf(c) + 1
      /\ \A h : \A c \in 1..M : Step(h)[c] = Pass(h, c)
  OBVIOUS
<1>8. ASSUME NEW c \in 1..M, ~done(c), ~skip(c) PROVE read(c) \in Seq(R)
  <2>1. PICK l : l = SubSeq(s, c, lf(c) - 1)
    OBVIOUS
  <2>2. MetricOf(l) \in R
    BY <1>4, <2>1
  <2>3. read(c) = << >> \/ read(c) = <<MetricOf(l)>>
    <3>1. PICK e \in 1..N : e = lf(c) /\ c < e /\ s[c] # "#" /\ e >= c
      BY <1>2, <1>3, <1>8 DEF FirstIn
    <3>2. c \in 1..(Len(s) + 1) /\ e - 1 \in (c - 1)..Len(s) /\ 1 \in 1..((e - 1) - c + 1) /\ c + 1 - 1 = c
      BY <1>2, <3>1
    <3>3. PICK k \in (c - 1)..Len(s) : k = e - 1
      BY <3>2
    <3>4. l = SubSeq(s, c, k)
      BY <2>1, <3>1, <3>3
    <3>5. l \in Seq(S) /\ Len(l) = k - c + 1
      BY <3>2, <3>4, PartFacts
    <3>6. \A i \in 1..(k - c + 1) : l[i] = s[c + i - 1]
      BY <3>2, <3>4, PartFacts
    <3>7. l # << >> /\ l[1] # "#"
      BY <3>1, <3>2, <3>3, <3>5, <3>6
    <3> QED  BY <2>1, <3>5, <3>7, ParseLine
  <2>4. << >> \in Seq(R) /\ <<MetricOf(l)>> \in Seq(R)
    <3> HIDE DEF R
    <3> QED  BY <2>2
  <2> HIDE DEF R, read
  <2> QED  BY <2>3, <2>4
<1>9. CursorRounds(own, next, M, R)
  <2>1. ASSUME NEW c \in 1..M PROVE own[c] \in Seq(R)
    <3>1. << >> \in Seq(R)
      <4> HIDE DEF R
      <4> QED OBVIOUS
    <3> HIDE DEF R, read, done, skip, own
    <3> QED  BY <1>7, <1>8, <3>1
  <2>2. ASSUME NEW c \in 1..M PROVE next[c] \in 0..M /\ (next[c] = 0 \/ c < next[c])
    <3>1. next[c] = IF done(c) THEN 0 ELSE lf(c) + 1
      BY <1>7, Zenon
    <3>2. lf(c) \in 0..N /\ (~done(c) => lf(c) >= c)
      BY <1>3 DEF FirstIn
    <3> HIDE DEF lf, next, done
    <3> QED  BY <1>2, <3>1, <3>2
  <2>3. own \in [1..M -> Seq(R)]
    <3>1. own = [c \in 1..M |-> own[c]]
      OBVIOUS
    <3> HIDE DEF own, R
    <3> QED  BY <2>1, <3>1
  <2>4. next \in [1..M -> 0..M]
    <3>1. next = [c \in 1..M |-> next[c]]
      OBVIOUS
    <3> HIDE DEF next
    <3> QED  BY <2>2, <3>1
  <2> HIDE DEF own, next, R
  <2> QED  BY <2>2, <2>3, <2>4 DEF CursorRounds
<1>10. ASSUME NEW h, NEW c \in 1..M
       PROVE  /\ next[c] = 0 => Step(h)[c] = own[c]
              /\ next[c] # 0 /\ h[next[c]] \in Seq(R) => Step(h)[c] = own[c] \o h[next[c]]
  <2>1. /\ own[c] = IF done(c) THEN << >> ELSE IF skip(c) THEN << >> ELSE read(c)
        /\ next[c] = IF done(c) THEN 0 ELSE lf(c) + 1
        /\ Step(h)[c] = Pass(h, c)
    BY <1>7, Zenon
  <2>2. lf(c) + 1 # 0
    BY <1>2, <1>3
  <2> HIDE DEF lf, next, own, Step, R, done, skip, read
  <2>3. CASE done(c)
    BY <2>1, <2>3
  <2>4. CASE ~done(c)
    <3>1. next[c] = lf(c) + 1 /\ own[c] = IF skip(c) THEN << >> ELSE read(c)
      BY <2>1, <2>4
    <3>2. Step(h)[c] = own[c] \o h[next[c]]
      BY <2>1, <2>4, <3>1
    <3> QED  BY <2>2, <3>1, <3>2
  <2> QED  BY <2>3, <2>4
<1>11. \E h : h = Step(h)
  <2>1. PICK h \in [1..M -> Seq(R)] : Finds(h, own, next, M, R)
    <3> HIDE DEF own, next, R
    <3> QED  BY <1>2, <1>9, CursorRecursion
  <2>2. ASSUME NEW c \in 1..M PROVE h[c] = Step(h)[c]
    <3>1. next[c] \in 0..M
      BY <1>9 DEF CursorRounds
    <3> HIDE DEF own, next, R, Step
    <3>2. CASE next[c] = 0
      BY <1>10, <2>1, <3>2 DEF Finds
    <3>3. CASE next[c] # 0
      <4>1. h[next[c]] \in Seq(R)
        BY <1>2, <2>1, <3>1, <3>3
      <4> QED  BY <1>10, <2>1, <3>3, <4>1 DEF Finds
    <3> QED  BY <3>2, <3>3
  <2>3. h = Step(h)
    <3>1. h = [c \in 1..M |-> h[c]] /\ Step(h) = [c \in 1..M |-> Step(h)[c]]
      BY <2>1
    <3> HIDE DEF Step
    <3> QED  BY <2>2, <3>1
  <2> QED  BY <2>3
<1>12. f = Step(f)
  <2> HIDE DEF Step
  <2> QED  BY <1>11
<1> HIDE DEF f
<1>13. Finds(f, own, next, M, R)
  <2> HIDE DEF own, next, R, Step
  <2> QED  BY <1>10, <1>12 DEF Finds
<1> DEFINE A == {c \in 1..M : c = 1 \/ s[c - 1] = "LF"}
           t == MetricsOf(s)
<1>14. /\ t \in Seq(Seq(R)) /\ Len(t) = N
       /\ \A i \in 1..N : i \in K => t[i] = <<T[i]>>
       /\ \A i \in 1..N : i \notin K => t[i] = << >>
  <2> HIDE DEF R, T, K, N, t
  <2>1. IsChosen(t, T, K, N, R)
    BY <1>2, <1>4, <1>6, ChosenType, Zenon DEF t
  <2> QED  BY <2>1, Zenon DEF IsChosen
<1>15. PICK g : Joined(g, t, R)
  <2> HIDE DEF R, t
  <2> QED  BY <1>14, JoinedExists
<1>16. FlattenSeq(t) = g[N]
  <2> HIDE DEF R, t
  <2> QED  BY <1>14, <1>15, FlattenIsJoin
<1>17. /\ g[0] = << >> /\ \A i \in 0..N : g[i] \in Seq(R)
       /\ \A i \in 1..N : g[i] = g[i - 1] \o t[i]
  <2> HIDE DEF R, t
  <2> QED  BY <1>14, <1>15 DEF Joined
<1>18. ASSUME NEW a \in 0..N, NEW b \in a..N, \A i \in (a + 1)..b : i \notin K PROVE g[b] = g[a]
  <2>1. \A i \in (a + 1)..b : t[i] = << >>
    <3>1. \A i \in (a + 1)..b : i \in 1..N
      BY <1>2
    <3> HIDE DEF K, N, t
    <3> QED  BY <1>14, <1>18, <3>1
  <2> HIDE DEF R, t, N, K
  <2> QED  BY <1>14, <1>15, <2>1, JoinedStretch
<1>19. ASSUME NEW i \in 1..N, s[i] # "LF" PROVE i \notin K
  BY <1>19 DEF MetricEnds, At
<1>20. A \subseteq 1..M /\ 1 \in A
  BY <1>2
<1> DEFINE pre == [c \in A |-> g[c - 1]]
<1>21. /\ pre \in [A -> Seq(R)] /\ pre[1] = << >>
       /\ \A c \in A : pre[c] = g[c - 1]
  <2>1. \A c \in A : c - 1 \in 0..N
    BY <1>2, <1>20
  <2>2. \A c \in A : g[c - 1] \in Seq(R)
    <3> HIDE DEF A, R
    <3> QED  BY <1>17, <2>1
  <2> HIDE DEF A, R
  <2> QED  BY <1>17, <1>20, <2>2
<1>22. ASSUME NEW c \in A
       PROVE  /\ next[c] = 0 => pre[c] \o own[c] = g[N]
              /\ next[c] # 0 => next[c] \in A /\ pre[next[c]] = pre[c] \o own[c]
  <2>1. PICK a \in 0..N : a = c - 1 /\ c = a + 1
    BY <1>2, <1>20
  <2>2. c \in 1..M /\ (c = 1 \/ s[c - 1] = "LF")
    BY <1>20
  <2>3. PICK p \in 0..N : p = lf(c) /\ FirstIn(p, s, {"LF"}, c)
    BY <1>3, <2>2
  <2>4. /\ own[c] = IF c > N \/ p = 0 THEN << >> ELSE IF p = c \/ s[c] = "#" THEN << >> ELSE read(c)
        /\ next[c] = IF c > N \/ p = 0 THEN 0 ELSE p + 1
        /\ read(c) = parse_line(SubSeq(s, c, p - 1))
    BY <1>7, <2>2, <2>3
  <2>5. pre[c] = g[a] /\ g[a] \in Seq(R) /\ g[a] \o << >> = g[a]
    <3> HIDE DEF R, A, pre
    <3>1. pre[c] = g[a] /\ g[a] \in Seq(R)
      BY <1>17, <1>21, <2>1
    <3> QED  BY <3>1, ConcatFacts, Zenon
  <2>6. \A e \in A : e - 1 \in 0..N /\ pre[e] = g[e - 1]
    <3>1. \A e \in A : e - 1 \in 0..N
      BY <1>2, <1>20
    <3> HIDE DEF A, pre
    <3> QED  BY <1>21, <3>1
  <2>7. p # 0 => p >= c /\ s[p] = "LF"
    BY <2>3 DEF FirstIn
  <2>8. p # 0 => p + 1 \in A
    <3>1. p # 0 => p + 1 \in 1..M /\ (p + 1) - 1 = p
      BY <1>2
    <3> QED  BY <2>7, <3>1
  <2> HIDE DEF own, next, pre, R, lf, read, skip, done, T, t, N, K, A
  <2>9. CASE c > N \/ p = 0
    <3>1. g[N] = g[a]
      <4>1. \A i \in (a + 1)..N : i \in 1..N /\ s[i] # "LF"
        BY <1>2, <2>1, <2>3, <2>9 DEF FirstIn, N
      <4>2. N \in a..N
        BY <1>2
      <4> QED  BY <1>18, <1>19, <4>1, <4>2
    <3> QED  BY <2>4, <2>5, <2>9, <3>1
  <2>10. CASE ~ (c > N \/ p = 0)
    <3>1. p \in 1..N /\ p - 1 \in a..N /\ p - 1 \in 0..N /\ c \in 1..N
      BY <1>2, <2>1, <2>2, <2>7, <2>10 DEF M
    <3>2. g[p - 1] = g[a]
      <4>1. \A i \in (a + 1)..(p - 1) : i \in 1..N /\ s[i] # "LF"
        BY <1>2, <2>1, <2>3, <2>10, <3>1 DEF FirstIn, N
      <4> QED  BY <1>18, <1>19, <3>1, <4>1
    <3>3. g[p] = g[a] \o t[p]
      BY <1>17, <3>1, <3>2
    <3>4. own[c] = t[p]
      <4>1. /\ LineTo(s, p) = SubSeq(s, c, p - 1)
            /\ p = c \/ s[c] = "#" => p \notin K
            /\ ~ (p = c \/ s[c] = "#") =>
                 /\ p \in K => parse_line(SubSeq(s, c, p - 1)) = <<MetricOf(LineTo(s, p))>>
                 /\ p \notin K => parse_line(SubSeq(s, c, p - 1)) = << >>
        <5>1. c \in 1..Len(s) /\ p \in 1..Len(s)
          BY <3>1 DEF N
        <5> QED  BY <2>2, <2>3, <5>1, LineRound DEF K
      <4>2. CASE p \in K
        <5>1. ~ (p = c \/ s[c] = "#")
          BY <4>1, <4>2
        <5>2. own[c] = read(c)
          BY <2>4, <2>10, <5>1
        <5> QED  BY <1>5, <1>14, <2>4, <3>1, <4>1, <4>2, <5>1, <5>2
      <4>3. CASE p \notin K
        <5>1. t[p] = << >>
          BY <1>14, <3>1, <4>3
        <5>2. own[c] = IF p = c \/ s[c] = "#" THEN << >> ELSE read(c)
          BY <2>4, <2>10
        <5> QED  BY <2>4, <4>1, <4>3, <5>1, <5>2
      <4> QED  BY <4>2, <4>3
    <3>5. next[c] = p + 1 /\ p + 1 # 0 /\ (p + 1) - 1 = p
      BY <1>2, <2>4, <2>10
    <3>6. pre[p + 1] = g[p]
      BY <2>6, <2>8, <2>10, <3>5
    <3> QED  BY <2>5, <2>8, <2>10, <3>3, <3>4, <3>5, <3>6
  <2> QED  BY <2>9, <2>10
<1>23. f[1] = g[N]
  <2>2. M \in Nat
    BY <1>2
  <2> HIDE DEF own, next, pre, R, A, t, N, M, K, T, Step
  <2>1. Passes(A, pre, own, next, M, R, g[N])
    BY <1>20, <1>21, <1>22, Zenon DEF Passes
  <2>3. PICK all : all = g[N]
    OBVIOUS
  <2>4. Passes(A, pre, own, next, M, R, all)
    BY <2>1, <2>3, Zenon
  <2>5. f[1] = all
    BY <1>9, <1>13, <2>2, <2>4, CursorLoop
  <2> QED  BY <2>3, <2>5
<1> QED  BY <1>1, <1>16, <1>23

\* A metric of a line that begins with a name has a name.
LEMMA NameOf ==
  ASSUME NEW S, NEW l \in Seq(S), HasMetric(l), Plain(l)
  PROVE  MetricOf(l).name # << >>
<1> DEFINE open == Find(l, {"LBRACE"}, 1)
           close == IF open = 0 THEN 0 ELSE Find(l, {"RBRACE"}, open + 1)
           space == Find(l, {"SP"}, 1)
           vb == IF open # 0 THEN FindNot(l, {"SP"}, close + 1)
                 ELSE IF space # 0 THEN FindNot(l, {"SP"}, space + 1) ELSE 0
           end == IF open # 0 THEN open ELSE space
<1>1. l # << >> /\ l[1] = "n"
  BY DEF HasMetric, Plain
<1>2. parse_line(l) = <<MetricOf(l)>>
  <2>1. l[1] # "#"
    BY <1>1
  <2> QED  BY <1>1, <2>1, ParseLine
<1>3. vb # 0 /\ MetricOf(l).name = SubSeq(l, 1, end - 1)
  <2>1. parse_line(l) # << >>
    BY <1>2
  <2> QED  BY <1>2, <2>1 DEF parse_line
<1>4. PICK o \in 0..Len(l) : o = open /\ FirstIn(o, l, {"LBRACE"}, 1)
  BY FindFacts DEF FirstIn
<1>5. PICK sp \in 0..Len(l) : sp = space /\ FirstIn(sp, l, {"SP"}, 1)
  BY FindFacts DEF FirstIn
<1>6. o # 0 \/ sp # 0
  BY <1>3, <1>4, <1>5
<1>7. o # 1 /\ sp # 1
  BY <1>1, <1>4, <1>5 DEF FirstIn
<1>8. PICK k \in 2..Len(l) : k = end
  BY <1>4, <1>5, <1>6, <1>7
<1> HIDE DEF open, close, space, vb, end
<1>9. Len(SubSeq(l, 1, k - 1)) = k - 1 /\ k - 1 # 0
  <2>1. 1 \in 1..(Len(l) + 1) /\ k - 1 \in (1 - 1)..Len(l) /\ (k - 1) - 1 + 1 = k - 1 /\ k - 1 # 0
    BY <1>8
  <2> QED  BY <2>1, PartFacts
<1>10. Len(<< >>) = 0
  OBVIOUS
<1> QED  BY <1>3, <1>8, <1>9, <1>10

\* The line format: what LinesAreRead says, for any text.
LEMMA LinesInOrder ==
  ASSUME NEW S, NEW s \in Seq(S)
  PROVE  LET es == InOrder(MetricEnds(s), Len(s)) IN
         /\ Len(parse_lines(s)) = Len(es)
         /\ \A i \in DOMAIN es :
              /\ ReadAs(parse_lines(s)[i], LineTo(s, es[i]))
              /\ Plain(LineTo(s, es[i])) => parse_lines(s)[i].name # << >>
              /\ es[i] \in MetricEnds(s)
<1> DEFINE N == Len(s)
           K == MetricEnds(s)
           T == [e \in 1..N |-> MetricOf(LineTo(s, e))]
           R == {T[e] : e \in 1..N}
           es == InOrder(K, N)
           out == parse_lines(s)
<1>1. N \in Nat /\ K \subseteq 1..N
  BY DEF MetricEnds, At
<1>2. (\A e \in K : T[e] \in R) /\ \A e \in K : T[e] = MetricOf(LineTo(s, e))
  BY <1>1
<1>3. es = FlattenSeq(Positions(K, N)) /\ out = FlattenSeq(Chosen(T, K, N))
  BY LinesFound DEF InOrder, Positions, MetricsOf
<1>4. ASSUME NEW e \in K
      PROVE  /\ ReadAs(MetricOf(LineTo(s, e)), LineTo(s, e))
             /\ Plain(LineTo(s, e)) => MetricOf(LineTo(s, e)).name # << >>
  <2>1. HasMetric(LineTo(s, e)) /\ e \in 1..Len(s)
    BY DEF MetricEnds, At
  <2>2. LineTo(s, e) \in Seq(S)
    <3> DEFINE P == At(s, {"LF"})
    <3>1. P \subseteq 1..Len(s) /\ Len(s) \in Nat /\ e - 1 \in Int
      BY <2>1 DEF At
    <3>2. PICK c \in 0..Len(s) : c = LastUpTo(P, e - 1) /\ LastIn(c, P, e - 1)
      <4> HIDE DEF P
      <4> QED  BY <3>1, LastUpToFacts
    <3>3. c + 1 \in 1..(Len(s) + 1) /\ e - 1 \in ((c + 1) - 1)..Len(s)
      BY <2>1, <3>1, <3>2 DEF LastIn
    <3>4. SubSeq(s, c + 1, e - 1) \in Seq(S)
      BY <3>3, PartFacts
    <3> QED  BY <3>2, <3>4 DEF LineTo
  <2>3. LineTo(s, e) # << >> /\ LineTo(s, e)[1] # "#"
    BY <2>1 DEF HasMetric
  <2> QED  BY <2>1, <2>2, <2>3, ParseLine, NameOf
<1> HIDE DEF N, K, T, R, es, out
<1>5. Alike(es, out, T, K, R)
  <2>1. Alike(FlattenSeq(Positions(K, N)), FlattenSeq(Chosen(T, K, N)), T, K, R)
    BY <1>1, <1>2, ChosenInOrder, Zenon
  <2> QED  BY <1>3, <2>1, Zenon
<1>6. ASSUME NEW j \in DOMAIN es
      PROVE  /\ ReadAs(out[j], LineTo(s, es[j])) /\ es[j] \in K
             /\ Plain(LineTo(s, es[j])) => out[j].name # << >>
  <2>1. es[j] \in K /\ out[j] = T[es[j]]
    BY <1>5 DEF Alike
  <2> QED  BY <1>2, <1>4, <2>1, Zenon
<1>7. Len(out) = Len(es)
  BY <1>5 DEF Alike
<1> QED  BY <1>6, <1>7 DEF out, es, K, N

-----------------------------------------------------------------------------
(* The line format: labels *)

\* Labels with a key, as a client writes them.
WrittenLabels(C) == [key : Seq(C \ {"=", "COMMA"}) \ {<< >>}, val : Seq(C \ {"QUOTE"})]

\* The text of label l stands in s behind position o.
LabelAt(s, o, l) ==
  LET a == Len(l.key)
      v == Len(l.val)
  IN /\ o + a + v + 3 <= Len(s)
     /\ \A j \in 1..a : s[o + j] = l.key[j]
     /\ s[o + a + 1] = "=" /\ s[o + a + 2] = "QUOTE"
     /\ \A j \in 1..v : s[o + a + 2 + j] = l.val[j]
     /\ s[o + a + v + 3] = "QUOTE"

\* A label alone in a text, or with something behind it if it has a value.
LEMMA ParseLabel ==
  ASSUME NEW C, NEW l \in WrittenLabels(C), NEW S, NEW p \in Seq(S), LabelAt(p, 0, l),
         l.val = << >> => Len(p) = Len(l.key) + 3,
         l.val # << >> => l.val[1] # "SP"
  PROVE  parse_bb_metrics_label(p) = l
<1>0. PICK key \in Seq(C \ {"=", "COMMA"}) : key = l.key /\ key # << >>
  BY DEF WrittenLabels
<1>1. PICK val \in Seq(C \ {"QUOTE"}) : val = l.val
  BY DEF WrittenLabels
<1>2. l = [key |-> key, val |-> val]
  BY <1>0, <1>1 DEF WrittenLabels
<1>3. PICK a \in Nat : a = Len(key) /\ a >= 1
  <2>1. Len(key) \in Nat /\ Len(key) # 0
    BY <1>0, EmptySeq
  <2> QED  BY <2>1
<1>4. PICK v \in Nat : v = Len(val)
  OBVIOUS
<1>v. val = [i \in 1..v |-> val[i]]
  BY <1>4
<1>5. PICK N \in Nat : N = Len(p)
  OBVIOUS
<1>6. /\ a + v + 3 <= N
      /\ \A j \in 1..a : p[j] = key[j]
      /\ p[a + 1] = "=" /\ p[a + 2] = "QUOTE"
      /\ \A j \in 1..v : p[a + 2 + j] = val[j]
      /\ p[a + v + 3] = "QUOTE"
  <2>1. /\ 0 + a + v + 3 <= N
        /\ \A j \in 1..a : p[0 + j] = key[j]
        /\ p[0 + a + 1] = "=" /\ p[0 + a + 2] = "QUOTE"
        /\ \A j \in 1..v : p[0 + a + 2 + j] = val[j]
        /\ p[0 + a + v + 3] = "QUOTE"
    BY <1>0, <1>1, <1>3, <1>4, <1>5, Zenon DEF LabelAt
  <2> QED  BY <2>1
<1>7. /\ \A j \in 1..a : key[j] # "="
      /\ \A j \in 1..v : val[j] # "QUOTE"
  BY <1>3, <1>4
<1> DEFINE sep == Find(p, {"="}, 1)
           begin == FindNot(p, {"QUOTE", "SP"}, sep + 1)
           end == Find(p, {"QUOTE"}, begin + 1)
<1>8. sep = a + 1
  <2>1. FirstIn(sep, p, {"="}, 1)
    BY FindFacts
  <2> HIDE DEF sep
  <2> QED  BY <1>3, <1>5, <1>6, <1>7, <2>1 DEF FirstIn
<1>9. SubSeq(p, 1, sep - 1) = key
  <2>1. 1 \in 1..(Len(p) + 1) /\ a \in (1 - 1)..Len(p) /\ a - 1 + 1 = a
    BY <1>3, <1>5, <1>6
  <2>2. PICK u \in Seq(S) : u = SubSeq(p, 1, a) /\ Len(u) = a /\ \A i \in 1..a : u[i] = p[i]
    <3>1. SubSeq(p, 1, a) \in Seq(S) /\ Len(SubSeq(p, 1, a)) = a - 1 + 1
      BY <2>1, PartFacts
    <3>2. \A i \in 1..(a - 1 + 1) : SubSeq(p, 1, a)[i] = p[1 + i - 1]
      BY <2>1, PartFacts
    <3>3. \A i \in 1..a : 1 + i - 1 = i
      OBVIOUS
    <3>4. \A i \in 1..a : SubSeq(p, 1, a)[i] = p[i]
      BY <2>1, <3>2, <3>3
    <3> QED  BY <2>1, <3>1, <3>4, Zenon
  <2>3. u = key
    BY <1>3, <1>6, <2>2
  <2> QED  BY <1>3, <1>8, <2>2, <2>3
<1>10. FirstNotIn(begin, p, {"QUOTE", "SP"}, a + 2)
  <2>1. sep + 1 = a + 2 /\ a + 2 \in Nat
    BY <1>8
  <2>2. FirstNotIn(FindNot(p, {"QUOTE", "SP"}, a + 2), p, {"QUOTE", "SP"}, a + 2)
    BY <2>1, FindNotFacts
  <2> HIDE DEF sep
  <2> QED  BY <2>1, <2>2
<1>11. (IF sep = 0 \/ begin = 0 \/ end = 0 THEN << >> ELSE SubSeq(p, begin, end - 1)) = val
  <2>1. CASE val = << >>
    <3>1. v = 0 /\ N = a + 3
      BY <1>0, <1>1, <1>3, <1>4, <1>5, <2>1
    <3>2. begin = 0
      <4> HIDE DEF begin
      <4> QED  BY <1>5, <1>6, <1>10, <3>1 DEF FirstNotIn
    <3> QED  BY <2>1, <3>2
  <2>2. CASE val # << >>
    <3>1. v >= 1 /\ val[1] # "SP" /\ val[1] # "QUOTE"
      <4>1. v # 0
        BY <1>4, <2>2, EmptySeq
      <4> QED  BY <1>1, <1>4, <1>7, <2>2, <4>1
    <3>2. p[a + 3] = val[1]
      <4>1. 1 \in 1..v /\ a + 2 + 1 = a + 3
        BY <3>1
      <4> QED  BY <1>6, <4>1
    <3>3. begin = a + 3
      <4> HIDE DEF begin
      <4> QED  BY <1>5, <1>6, <1>10, <3>1, <3>2 DEF FirstNotIn
    <3>4. FirstIn(end, p, {"QUOTE"}, a + 4)
      <4>1. begin + 1 = a + 4 /\ a + 4 \in Nat
        BY <3>3
      <4>2. FirstIn(Find(p, {"QUOTE"}, a + 4), p, {"QUOTE"}, a + 4)
        BY <4>1, FindFacts
      <4> HIDE DEF begin
      <4> QED  BY <4>1, <4>2
    <3>5. end = a + v + 3
      <4>1. ASSUME NEW i \in 1..N, a + 4 <= i, i < a + v + 3 PROVE p[i] # "QUOTE"
        <5>1. PICK j \in 1..v : j = i - a - 2 /\ a + 2 + j = i
          BY <4>1
        <5> QED  BY <1>6, <1>7, <5>1
      <4>2. a + v + 3 \in 1..N /\ a + 4 <= a + v + 3 /\ p[a + v + 3] = "QUOTE"
        BY <1>6, <3>1
      <4> HIDE DEF end
      <4>3. end \in 0..N /\ end # 0
        BY <1>5, <3>4, <4>2 DEF FirstIn
      <4>4. end >= a + 4 /\ p[end] = "QUOTE" /\ ~ (a + v + 3 < end)
        BY <1>5, <3>4, <4>2, <4>3 DEF FirstIn
      <4>5. end \in 1..N
        BY <4>3
      <4>6. ~ (end < a + v + 3)
        BY <4>1, <4>4, <4>5
      <4>7. end \in Int /\ a + v + 3 \in Int /\ ~ (a + v + 3 < end) /\ ~ (end < a + v + 3)
        BY <4>4, <4>5, <4>6
      <4> QED  BY <4>7
    <3>6. SubSeq(p, a + 3, a + v + 2) = val
      <4>1. PICK m \in 1..(Len(p) + 1) : m = a + 3
        BY <1>5, <1>6
      <4>2. PICK n \in (m - 1)..Len(p) : n = a + v + 2 /\ n - m + 1 = v
        BY <1>5, <1>6, <4>1
      <4>3. SubSeq(p, m, n) \in Seq(S) /\ Len(SubSeq(p, m, n)) = n - m + 1
        BY PartFacts
      <4>4. \A i \in 1..(n - m + 1) : SubSeq(p, m, n)[i] = p[m + i - 1]
        BY PartFacts
      <4>5. PICK u \in Seq(S) : u = SubSeq(p, m, n) /\ Len(u) = v /\ \A i \in 1..v : u[i] = p[m + i - 1]
        BY <4>2, <4>3, <4>4
      <4>6. \A i \in 1..v : u[i] = val[i]
        <5>1. ASSUME NEW i \in 1..v PROVE u[i] = val[i]
          <6>1. m + i - 1 = a + 2 + i
            BY <4>1
          <6>2. u[i] = p[m + i - 1] /\ p[a + 2 + i] = val[i]
            BY <1>6, <4>5, Zenon
          <6> QED  BY <6>1, <6>2, Zenon
        <5> QED  BY <5>1
      <4>7. u = val
        <5>0. Len(u) = v
          BY <4>5, Zenon
        <5>1. u = [i \in 1..v |-> u[i]]
          BY <5>0
        <5> QED  BY <1>v, <4>6, <5>1
      <4> QED  BY <4>1, <4>2, <4>5, <4>7
    <3>7. sep # 0 /\ begin # 0 /\ end # 0 /\ end - 1 = a + v + 2
      BY <1>8, <3>3, <3>5
    <3> HIDE DEF sep, begin, end
    <3> QED  BY <3>3, <3>6, <3>7
  <2> QED  BY <2>1, <2>2
<1>12. sep # 0
  BY <1>8
<1>13. parse_bb_metrics_label(p) =
         [key |-> IF sep = 0 THEN p ELSE SubSeq(p, 1, sep - 1),
          val |-> IF sep = 0 \/ begin = 0 \/ end = 0 THEN << >> ELSE SubSeq(p, begin, end - 1)]
  BY DEF parse_bb_metrics_label
<1> HIDE DEF sep, begin, end
<1> QED  BY <1>2, <1>9, <1>11, <1>12, <1>13, Zenon

\* The text of a label, with a comma behind it or not.
LabelText(l, more) == RenderLabel(l) \o (IF more THEN <<"COMMA">> ELSE << >>)
LabelTextIs(w, l, more, D) ==
  /\ w \in Seq(D) /\ LabelAt(w, 0, l)
  /\ more => Len(w) = Len(l.key) + Len(l.val) + 4 /\ w[Len(l.key) + Len(l.val) + 4] = "COMMA"
  /\ ~more => Len(w) = Len(l.key) + Len(l.val) + 3

\* What stands where in the text of a label.
LEMMA LabelTextFacts ==
  ASSUME NEW C, NEW l \in WrittenLabels(C), NEW more \in BOOLEAN
  PROVE  LabelTextIs(LabelText(l, more), l, more, C \cup {"=", "QUOTE", "COMMA"})
<1> DEFINE D == C \cup {"=", "QUOTE", "COMMA"}
<1>0. PICK key \in Seq(D) : key = l.key
  <2>1. l.key \in Seq(C \ {"=", "COMMA"})
    BY DEF WrittenLabels
  <2> QED  BY <2>1
<1>1. PICK val \in Seq(D) : val = l.val
  <2>1. l.val \in Seq(C \ {"QUOTE"})
    BY DEF WrittenLabels
  <2> QED  BY <2>1
<1>2. "=" \in D /\ "QUOTE" \in D /\ "COMMA" \in D
  OBVIOUS
<1> HIDE DEF D
<1>j. \A u, x \in Seq(D) : u \o x \in Seq(D)
  OBVIOUS
<1>3. PICK eq \in Seq(D) : eq = <<"=", "QUOTE">> /\ Len(eq) = 2 /\ eq[1] = "=" /\ eq[2] = "QUOTE"
  <2>1. /\ <<"=", "QUOTE">> \in Seq(D) /\ Len(<<"=", "QUOTE">>) = 2
        /\ <<"=", "QUOTE">>[1] = "=" /\ <<"=", "QUOTE">>[2] = "QUOTE"
    BY <1>2
  <2> QED  BY <2>1, Zenon
<1>4. PICK q \in Seq(D) : q = <<"QUOTE">> /\ Len(q) = 1 /\ q[1] = "QUOTE"
  <2>1. <<"QUOTE">> \in Seq(D) /\ Len(<<"QUOTE">>) = 1 /\ <<"QUOTE">>[1] = "QUOTE"
    BY <1>2
  <2> QED  BY <2>1, Zenon
<1>5. PICK m \in Seq(D) : /\ m = IF more THEN <<"COMMA">> ELSE << >>
                          /\ more => Len(m) = 1 /\ m[1] = "COMMA"
                          /\ ~more => Len(m) = 0
  <2>1. /\ <<"COMMA">> \in Seq(D) /\ Len(<<"COMMA">>) = 1 /\ <<"COMMA">>[1] = "COMMA"
        /\ << >> \in Seq(D) /\ Len(<< >>) = 0
    BY <1>2
  <2>2. CASE more
    <3>1. (IF more THEN <<"COMMA">> ELSE << >>) = <<"COMMA">>
      BY <2>2
    <3> QED  BY <2>1, <2>2, <3>1, Zenon
  <2>3. CASE ~more
    <3>1. (IF more THEN <<"COMMA">> ELSE << >>) = << >>
      BY <2>3
    <3> QED  BY <2>1, <2>3, <3>1, Zenon
  <2> QED  BY <2>2, <2>3
<1>6. PICK w1 \in Seq(D) : w1 = key \o eq
  BY <1>j, Zenon
<1>7. PICK w2 \in Seq(D) : w2 = w1 \o val
  BY <1>j, Zenon
<1>8. PICK w3 \in Seq(D) : w3 = w2 \o q
  BY <1>j, Zenon
<1>9. PICK w \in Seq(D) : w = w3 \o m
  BY <1>j, Zenon
<1>10. Follows(key, eq) /\ Follows(w1, val) /\ Follows(w2, q) /\ Follows(w3, m)
  BY ConcatAt
<1>11. PICK a \in Nat : a = Len(key)
  OBVIOUS
<1>12. PICK v \in Nat : v = Len(val)
  OBVIOUS
<1>13. /\ Len(w1) = a + 2 /\ \A j \in 1..a : w1[j] = key[j]
       /\ w1[a + 1] = "=" /\ w1[a + 2] = "QUOTE"
  BY <1>3, <1>6, <1>10, <1>11 DEF Follows
<1>14. /\ Len(w2) = a + v + 2 /\ \A j \in 1..(a + 2) : w2[j] = w1[j]
       /\ \A j \in 1..v : w2[a + 2 + j] = val[j]
  <2>1. /\ Len(w2) = Len(w1) + Len(val)
        /\ \A j \in 1..Len(w1) : w2[j] = w1[j]
        /\ \A j \in 1..Len(val) : w2[Len(w1) + j] = val[j]
    BY <1>7, <1>10, Zenon DEF Follows
  <2>2. Len(w1) = a + 2 /\ Len(val) = v /\ a + 2 + v = a + v + 2
    BY <1>12, <1>13
  <2> QED  BY <2>1, <2>2
<1>15. /\ Len(w3) = a + v + 3 /\ \A j \in 1..(a + v + 2) : w3[j] = w2[j]
       /\ w3[a + v + 3] = "QUOTE"
  BY <1>4, <1>8, <1>10, <1>14 DEF Follows
<1>16. /\ \A j \in 1..(a + v + 3) : w[j] = w3[j]
       /\ more => Len(w) = a + v + 4 /\ w[a + v + 4] = "COMMA"
       /\ ~more => Len(w) = a + v + 3
  <2>1. /\ Len(w) = Len(w3) + Len(m)
        /\ \A j \in 1..Len(w3) : w[j] = w3[j]
        /\ \A j \in 1..Len(m) : w[Len(w3) + j] = m[j]
    BY <1>9, <1>10, Zenon DEF Follows
  <2>2. \A j \in 1..(a + v + 3) : w[j] = w3[j]
    BY <1>15, <2>1
  <2>3. ASSUME more PROVE Len(w) = a + v + 4 /\ w[a + v + 4] = "COMMA"
    <3>1. Len(m) = 1 /\ m[1] = "COMMA" /\ Len(w3) + 1 = a + v + 4 /\ 1 \in 1..Len(m)
      BY <1>5, <1>15, <2>3
    <3> QED  BY <2>1, <3>1
  <2>4. ASSUME ~more PROVE Len(w) = a + v + 3
    BY <1>5, <1>15, <2>1, <2>4
  <2> QED  BY <2>2, <2>3, <2>4
<1>17. w = LabelText(l, more)
  BY <1>0, <1>1, <1>3, <1>4, <1>5, <1>6, <1>7, <1>8, <1>9 DEF LabelText, RenderLabel
<1>18. /\ 0 + a + v + 3 <= Len(w)
       /\ \A j \in 1..a : w[0 + j] = key[j]
       /\ w[0 + a + 1] = "=" /\ w[0 + a + 2] = "QUOTE"
       /\ \A j \in 1..v : w[0 + a + 2 + j] = val[j]
       /\ w[0 + a + v + 3] = "QUOTE"
  <2>1. 0 + a + v + 3 <= Len(w)
    BY <1>16
  <2>2. \A j \in 1..(a + 2) : w[j] = w1[j] /\ 0 + j = j
    BY <1>14, <1>15, <1>16
  <2>3. ASSUME NEW j \in 1..a PROVE w[0 + j] = key[j]
    BY <1>13, <2>2
  <2>4. w[0 + a + 1] = "=" /\ w[0 + a + 2] = "QUOTE"
    BY <1>13, <2>2
  <2>5. ASSUME NEW j \in 1..v PROVE w[0 + a + 2 + j] = val[j]
    <3>1. PICK k \in 1..(a + v + 2) : k = a + 2 + j /\ k = 0 + a + 2 + j /\ k \in 1..(a + v + 3)
      OBVIOUS
    <3> QED  BY <1>14, <1>15, <1>16, <3>1
  <2>6. w[0 + a + v + 3] = "QUOTE"
    BY <1>15, <1>16
  <2> QED  BY <2>1, <2>3, <2>4, <2>5, <2>6
<1>19. LabelAt(w, 0, l)
  BY <1>0, <1>1, <1>11, <1>12, <1>18, Zenon DEF LabelAt
<1> QED  BY <1>0, <1>1, <1>11, <1>12, <1>16, <1>17, <1>19, Zenon DEF LabelTextIs, D

\* The label after label i starts behind position off[i] of the text.
Offsets(off, s, ls) ==
  /\ off \in [0..Len(ls) -> 0..Len(s)] /\ off[0] = 0
  /\ \A i, m \in 0..Len(ls) : i < m => off[i] < off[m]
  /\ \A i \in 1..Len(ls) :
       /\ LabelAt(s, off[i - 1], ls[i])
       /\ i < Len(ls) => /\ off[i] = off[i - 1] + Len(ls[i].key) + Len(ls[i].val) + 4
                         /\ s[off[i]] = "COMMA"
       /\ i = Len(ls) => Len(s) = off[i - 1] + Len(ls[i].key) + Len(ls[i].val) + 3

\* What stands where in the text of a label list.
LEMMA RenderedLabels ==
  ASSUME NEW C, NEW ls \in Seq(WrittenLabels(C)), ls # << >>
  PROVE  /\ Render(ls) \in Seq(C \cup {"=", "QUOTE", "COMMA"})
         /\ \E off : Offsets(off, Render(ls), ls)
<1> DEFINE D == C \cup {"=", "QUOTE", "COMMA"}
           n == Len(ls)
           t == [i \in 1..n |-> LabelText(ls[i], i < n)]
           s == Render(ls)
<1>0. n \in Nat /\ n # 0 /\ DOMAIN ls = 1..n /\ \A i \in 1..n : ls[i] \in WrittenLabels(C)
  BY EmptySeq
<1>1. s = FlattenSeq(t)
  BY <1>0 DEF Render, LabelText
<1>2. ASSUME NEW i \in 1..n PROVE LabelTextIs(t[i], ls[i], i < n, D)
  <2>0. ls[i] \in WrittenLabels(C)
    BY <1>0
  <2>1. \A more \in BOOLEAN : LabelTextIs(LabelText(ls[i], more), ls[i], more, D)
    BY <2>0, LabelTextFacts, Zenon
  <2>2. t[i] = LabelText(ls[i], i < n) /\ (i < n) \in BOOLEAN
    OBVIOUS
  <2> HIDE DEF n, t, D
  <2> QED  BY <2>1, <2>2, Zenon
<1>3. t \in Seq(Seq(D)) /\ Len(t) = n
  <2>1. \A i \in 1..n : t[i] \in Seq(D)
    <3> HIDE DEF n, t, D
    <3> QED  BY <1>2 DEF LabelTextIs
  <2>2. PICK Q : Q = Seq(D)
    OBVIOUS
  <2>3. t = [i \in 1..n |-> t[i]]
    OBVIOUS
  <2> HIDE DEF n, t, D
  <2>4. t \in [1..n -> Q]
    BY <2>1, <2>2, <2>3
  <2>5. t \in Seq(Q) /\ Len(t) = n
    BY <1>0, <2>4
  <2> QED  BY <2>2, <2>5
<1> HIDE DEF n, t, D, s
<1>4. PICK g : Joined(g, t, D)
  BY <1>3, JoinedExists
<1>5. s = g[n]
  BY <1>1, <1>3, <1>4, FlattenIsJoin
<1>6. \A i \in 0..n : g[i] \in Seq(D)
  <2>1. PICK Q : Q = Seq(D)
    OBVIOUS
  <2>2. g \in [0..n -> Q]
    BY <1>3, <1>4, <2>1, Zenon DEF Joined
  <2> QED  BY <2>1, <2>2
<1>7. g[0] = << >> /\ s \in Seq(D) /\ Len(s) \in Nat
  <2>1. n \in 0..n
    BY <1>0
  <2> QED  BY <1>4, <1>5, <1>6, <2>1 DEF Joined
<1>8. \A i \in 1..n : Behind(g[i], g[i - 1], t[i])
  BY <1>3, <1>4, JoinedFronts, Zenon
<1>9. \A i \in 0..n : \A m \in i..n : FrontOf(g[i], g[m])
  BY <1>3, <1>4, JoinedFronts, Zenon
<1> DEFINE off == [i \in 0..n |-> Len(g[i])]
<1>10. /\ \A i \in 0..n : off[i] = Len(g[i]) /\ off[i] \in Nat /\ off[i] <= Len(s)
       /\ off \in [0..n -> 0..Len(s)] /\ off[0] = 0
  <2>1. ASSUME NEW i \in 0..n PROVE Len(g[i]) \in Nat /\ Len(g[i]) <= Len(s)
    <3>1. n \in i..n
      BY <1>0
    <3>2. FrontOf(g[i], s)
      BY <1>5, <1>9, <3>1
    <3> QED  BY <1>6, <3>2 DEF FrontOf
  <2>2. Len(g[0]) = 0
    BY <1>7
  <2> QED  BY <1>0, <1>7, <2>1, <2>2
<1>11. ASSUME NEW i \in 1..n
       PROVE  /\ i - 1 \in 0..n
              /\ \A j \in 1..Len(t[i]) : s[off[i - 1] + j] = t[i][j]
              /\ off[i] = off[i - 1] + Len(t[i]) /\ Len(t[i]) \in Nat
  <2>1. i - 1 \in 0..n /\ i \in 0..n /\ n \in i..n
    BY <1>0
  <2>2. off[i - 1] = Len(g[i - 1]) /\ off[i] = Len(g[i]) /\ off[i - 1] \in Nat
    BY <1>10, <2>1
  <2>3. FrontOf(g[i], s)
    BY <1>5, <1>9, <2>1
  <2>4. Len(t[i]) \in Nat
    BY <1>3
  <2> HIDE DEF off
  <2>7. Behind(g[i], g[i - 1], t[i])
    BY <1>8
  <2>5. ASSUME NEW j \in 1..Len(t[i]) PROVE s[off[i - 1] + j] = t[i][j]
    <3>0. /\ Len(g[i]) = Len(g[i - 1]) + Len(t[i]) /\ Len(g[i - 1]) \in Nat
          /\ g[i][Len(g[i - 1]) + j] = t[i][j]
      BY <2>7, Zenon DEF Behind
    <3>1. Len(g[i - 1]) + j \in 1..Len(g[i])
      <4>1. PICK x \in Nat : x = Len(g[i - 1])
        BY <3>0
      <4>2. PICK y \in Nat : y = Len(t[i])
        BY <2>4
      <4>3. x + j \in 1..(x + y)
        BY <4>2
      <4> QED  BY <3>0, <4>1, <4>2, <4>3
    <3>2. s[Len(g[i - 1]) + j] = g[i][Len(g[i - 1]) + j]
      BY <2>3, <3>1, Zenon DEF FrontOf
    <3> QED  BY <2>2, <3>0, <3>2
  <2>6. off[i] = off[i - 1] + Len(t[i])
    BY <2>2, <2>7 DEF Behind
  <2> QED  BY <2>1, <2>4, <2>5, <2>6
<1>12. ASSUME NEW i \in 1..n
       PROVE  /\ LabelAt(s, off[i - 1], ls[i]) /\ off[i - 1] < off[i]
              /\ i < n => /\ off[i] = off[i - 1] + Len(ls[i].key) + Len(ls[i].val) + 4
                          /\ s[off[i]] = "COMMA"
              /\ i = n => Len(s) = off[i - 1] + Len(ls[i].key) + Len(ls[i].val) + 3
  <2> HIDE DEF off
  <2>1. PICK o \in Nat : o = off[i - 1] /\ o <= Len(s)
    BY <1>10, <1>11
  <2>2. PICK a \in Nat : a = Len(ls[i].key)
    <3>1. ls[i].key \in Seq(C \ {"=", "COMMA"})
      BY <1>0 DEF WrittenLabels
    <3> QED  BY <3>1
  <2>3. PICK v \in Nat : v = Len(ls[i].val)
    <3>1. ls[i].val \in Seq(C \ {"QUOTE"})
      BY <1>0 DEF WrittenLabels
    <3> QED  BY <3>1
  <2>4. PICK w \in Seq(D) : w = t[i]
    BY <1>2 DEF LabelTextIs
  <2>5. /\ LabelAt(w, 0, ls[i])
        /\ i < n => Len(w) = a + v + 4 /\ w[a + v + 4] = "COMMA"
        /\ ~ (i < n) => Len(w) = a + v + 3
    BY <1>2, <2>2, <2>3, <2>4, Zenon DEF LabelTextIs
  <2>6. /\ 0 + a + v + 3 <= Len(w)
        /\ \A j \in 1..a : w[0 + j] = ls[i].key[j]
        /\ w[0 + a + 1] = "=" /\ w[0 + a + 2] = "QUOTE"
        /\ \A j \in 1..v : w[0 + a + 2 + j] = ls[i].val[j]
        /\ w[0 + a + v + 3] = "QUOTE"
    BY <2>2, <2>3, <2>5, Zenon DEF LabelAt
  <2>7. Len(w) \in Nat /\ off[i] = o + Len(w) /\ \A j \in 1..Len(w) : s[o + j] = w[j]
    BY <1>11, <2>1, <2>4
  <2>8. off[i] <= Len(s)
    BY <1>0, <1>10
  <2>9. /\ o + a + v + 3 <= Len(s)
        /\ \A j \in 1..a : s[o + j] = ls[i].key[j]
        /\ s[o + a + 1] = "=" /\ s[o + a + 2] = "QUOTE"
        /\ \A j \in 1..v : s[o + a + 2 + j] = ls[i].val[j]
        /\ s[o + a + v + 3] = "QUOTE"
    <3>0. a + v + 3 <= Len(w) /\ Len(w) \in Nat
      BY <2>6, <2>7
    <3>1. o + a + v + 3 <= Len(s)
      BY <1>7, <2>7, <2>8, <3>0
    <3>2. ASSUME NEW j \in 1..a PROVE s[o + j] = ls[i].key[j]
      <4>1. j \in 1..Len(w) /\ 0 + j = j
        BY <3>0
      <4> QED  BY <2>6, <2>7, <4>1
    <3>3. s[o + a + 1] = "=" /\ s[o + a + 2] = "QUOTE"
      <4>1. /\ a + 1 \in 1..Len(w) /\ 0 + a + 1 = a + 1 /\ o + (a + 1) = o + a + 1
            /\ a + 2 \in 1..Len(w) /\ 0 + a + 2 = a + 2 /\ o + (a + 2) = o + a + 2
        BY <3>0
      <4>2. s[o + (a + 1)] = w[a + 1] /\ s[o + (a + 2)] = w[a + 2]
        BY <2>7, <4>1, Zenon
      <4> QED  BY <2>6, <4>1, <4>2
    <3>4. ASSUME NEW j \in 1..v PROVE s[o + a + 2 + j] = ls[i].val[j]
      <4>1. a + 2 + j \in 1..Len(w) /\ 0 + a + 2 + j = a + 2 + j /\ o + (a + 2 + j) = o + a + 2 + j
        BY <3>0
      <4>2. s[o + (a + 2 + j)] = w[a + 2 + j] /\ w[0 + a + 2 + j] = ls[i].val[j]
        BY <2>6, <2>7, <4>1, Zenon
      <4> QED  BY <4>1, <4>2
    <3>5. s[o + a + v + 3] = "QUOTE"
      <4>1. a + v + 3 \in 1..Len(w) /\ 0 + a + v + 3 = a + v + 3 /\ o + (a + v + 3) = o + a + v + 3
        BY <3>0
      <4>2. s[o + (a + v + 3)] = w[a + v + 3]
        BY <2>7, <4>1, Zenon
      <4> QED  BY <2>6, <4>1, <4>2
    <3> QED  BY <3>1, <3>2, <3>3, <3>4, <3>5
  <2>10. LabelAt(s, o, ls[i])
    BY <2>2, <2>3, <2>9, Zenon DEF LabelAt
  <2>11. ASSUME i < n PROVE off[i] = o + a + v + 4 /\ s[off[i]] = "COMMA"
    <3>1. Len(w) = a + v + 4 /\ w[a + v + 4] = "COMMA"
      BY <2>5, <2>11
    <3>2. PICK k \in 1..Len(w) : k = a + v + 4 /\ o + k = off[i]
      BY <2>7, <3>1
    <3>3. s[off[i]] = "COMMA"
      BY <2>7, <3>1, <3>2
    <3> QED  BY <2>7, <3>1, <3>3
  <2>12. ASSUME i = n PROVE Len(s) = o + a + v + 3
    <3>1. off[n] = Len(s)
      BY <1>0, <1>5, <1>10
    <3>2. Len(w) = a + v + 3
      BY <1>0, <2>5, <2>12
    <3> QED  BY <2>7, <2>12, <3>1, <3>2
  <2>13. o < off[i]
    BY <2>6, <2>7
  <2> QED  BY <2>1, <2>2, <2>3, <2>10, <2>11, <2>12, <2>13
<1>13. ASSUME NEW i \in 0..n, NEW m \in 0..n, i < m PROVE off[i] < off[m]
  <2>1. i + 1 \in 1..n /\ (i + 1) - 1 = i /\ m \in (i + 1)..n /\ i + 1 \in 0..n
    BY <1>0, <1>13
  <2>2. off[i] < off[i + 1]
    BY <1>12, <2>1
  <2>3. FrontOf(g[i + 1], g[m])
    BY <1>9, <2>1
  <2>4. off[i + 1] = Len(g[i + 1]) /\ off[m] = Len(g[m]) /\ off[i] \in Nat /\ off[i + 1] \in Nat /\ off[m] \in Nat
    BY <1>10, <2>1
  <2> HIDE DEF off
  <2> QED  BY <2>2, <2>3, <2>4 DEF FrontOf
<1> HIDE DEF off
<1>14. Offsets(off, s, ls)
  BY <1>10, <1>12, <1>13 DEF Offsets, n
<1> QED  BY <1>7, <1>14 DEF s, D

\* The position of the first character of label i.
Begin(off, i) == off[i - 1] + 1

\* One round of the loop over the labels, from the begin of a label.
LEMMA LabelRound ==
  ASSUME NEW C, NEW ls \in Seq(WrittenLabels(C)), NEW S, NEW s \in Seq(S), NEW off, Offsets(off, s, ls),
         NEW i \in 1..Len(ls), Readable(ls, i), NEW c \in Nat, c = Begin(off, i)
  PROVE  /\ Find(s, {"COMMA"}, c) = IF i < Len(ls) THEN off[i] ELSE 0
         /\ parse_bb_metrics_label(piece(s, c, Find(s, {"COMMA"}, c))) = ls[i]
<1> DEFINE n == Len(ls)
           l == ls[i]
           comma == Find(s, {"COMMA"}, c)
<1>0. n \in Nat /\ i \in 0..n /\ i - 1 \in 0..n /\ l \in WrittenLabels(C)
  OBVIOUS
<1>6. PICK N \in Nat : N = Len(s)
  OBVIOUS
<1>o. PICK o \in Nat : o = off[i - 1] /\ o <= N
  <2>1. off[i - 1] \in 0..N
    BY <1>0, <1>6 DEF Offsets
  <2> QED  BY <2>1
<1>1. o <= N
  BY <1>o
<1>x. PICK x \in 0..N : x = off[i]
  <2>1. off[i] \in 0..N
    BY <1>0, <1>6 DEF Offsets
  <2> QED  BY <2>1
<1>2. PICK key \in Seq(C \ {"=", "COMMA"}) : key = l.key
  BY <1>0 DEF WrittenLabels
<1>3. PICK val \in Seq(C \ {"QUOTE"}) : val = l.val
  BY <1>0 DEF WrittenLabels
<1> HIDE DEF n, l
<1>4. PICK a \in Nat : a = Len(key)
  OBVIOUS
<1>5. PICK v \in Nat : v = Len(val)
  OBVIOUS
<1>7. /\ LabelAt(s, o, l)
      /\ i < n => x = o + a + v + 4 /\ s[x] = "COMMA"
      /\ i = n => N = o + a + v + 3
      /\ i = 1 => o = 0
  <2>1. /\ LabelAt(s, off[i - 1], ls[i])
        /\ i < Len(ls) => /\ off[i] = off[i - 1] + Len(ls[i].key) + Len(ls[i].val) + 4
                          /\ s[off[i]] = "COMMA"
        /\ i = Len(ls) => Len(s) = off[i - 1] + Len(ls[i].key) + Len(ls[i].val) + 3
    BY Zenon DEF Offsets
  <2>2. off \in [0..n -> 0..N] /\ off[0] = 0
    BY <1>6 DEF Offsets, n
  <2>3. i = 1 => i - 1 = 0
    OBVIOUS
  <2> QED  BY <1>o, <1>x, <1>2, <1>3, <1>4, <1>5, <1>6, <2>1, <2>2, <2>3, Zenon DEF n, l
<1>8. /\ o + a + v + 3 <= N
      /\ \A j \in 1..a : s[o + j] = key[j]
      /\ s[o + a + 1] = "=" /\ s[o + a + 2] = "QUOTE"
      /\ \A j \in 1..v : s[o + a + 2 + j] = val[j]
      /\ s[o + a + v + 3] = "QUOTE"
  BY <1>2, <1>3, <1>4, <1>5, <1>6, <1>7, Zenon DEF LabelAt
<1>9. ASSUME NEW k \in 1..N, o + 1 <= k, k <= o + a + v + 3 PROVE s[k] # "COMMA"
  <2>1. CASE k <= o + a
    <3>1. PICK j \in 1..a : o + j = k
      <4>1. k - o \in 1..a /\ o + (k - o) = k
        BY <1>1, <1>9, <2>1
      <4> QED  BY <4>1, Zenon
    <3>2. key[j] # "COMMA"
      BY <1>4
    <3> QED  BY <1>8, <3>1, <3>2
  <2>2. CASE k = o + a + 1 \/ k = o + a + 2 \/ k = o + a + v + 3
    BY <1>8, <2>2
  <2>3. CASE o + a + 2 < k /\ k < o + a + v + 3
    <3>1. PICK j \in 1..v : o + a + 2 + j = k
      <4>1. k - o - a - 2 \in 1..v /\ o + a + 2 + (k - o - a - 2) = k
        BY <1>1, <1>9, <2>3
      <4> QED  BY <4>1, Zenon
    <3>2. val[j] # "COMMA"
      <4>1. "COMMA" \notin ToSet(val)
        BY <1>3 DEF Readable, l
      <4>2. val[j] \in ToSet(val)
        BY <1>5, ElementsAt
      <4> QED  BY <4>1, <4>2
    <3> QED  BY <1>8, <3>1, <3>2
  <2> QED  BY <1>1, <1>9, <2>1, <2>2, <2>3
<1>10. c = o + 1 /\ c \in Nat /\ FirstIn(comma, s, {"COMMA"}, c)
  <2>1. c = o + 1 /\ c \in Nat
    BY <1>o DEF Begin
  <2> QED  BY <2>1, FindFacts
<1> HIDE DEF comma
<1>11. comma = IF i < n THEN x ELSE 0
  <2>0. comma \in 0..N /\ (comma # 0 => comma >= c /\ s[comma] = "COMMA")
    BY <1>6, <1>10 DEF FirstIn
  <2>1. CASE i < n
    <3>1. PICK e \in 1..N : e = x /\ e = o + a + v + 4 /\ s[e] = "COMMA"
      <4>1. x = o + a + v + 4 /\ s[x] = "COMMA"
        BY <1>7, <2>1, Zenon
      <4>2. x \in 1..N
        BY <4>1
      <4> QED  BY <4>1, <4>2, Zenon
    <3>2. comma # 0 /\ ~ (e < comma)
      BY <1>1, <1>6, <1>10, <3>1 DEF FirstIn
    <3>3. ~ (comma < e)
      BY <1>1, <1>9, <1>10, <2>0, <3>1, <3>2
    <3> QED  BY <2>0, <2>1, <3>1, <3>2, <3>3
  <2>2. CASE ~ (i < n)
    <3>1. i = n /\ N = o + a + v + 3
      <4>1. i = n
        BY <1>0, <2>2 DEF n
      <4> QED  BY <1>7, <4>1
    <3>2. comma = 0
      BY <1>1, <1>9, <1>10, <2>0, <3>1
    <3> QED  BY <2>2, <3>2
  <2> QED  BY <2>1, <2>2
<1> DEFINE p == piece(s, c, comma)
\* Where the piece ends.
<1>12. \E e \in 0..N : /\ p = SubSeq(s, c, e) /\ e >= o + a + v + 3
                       /\ v = 0 => e = o + a + 3
  <2>1. CASE i < n
    <3>1. comma = o + a + v + 4 /\ comma \in 0..N /\ comma # 0
      <4>1. comma = x /\ x = o + a + v + 4
        BY <1>7, <1>11, <2>1, Zenon
      <4> QED  BY <4>1
    <3> DEFINE y == c + comma - 2
               e == Min({y, Len(s)})
    <3>2. y \in Nat /\ y = o + comma - 1 /\ y >= o + a + v + 3
      <4>1. c = o + 1
        BY <1>10
      <4> QED  BY <3>1, <4>1
    <3> HIDE DEF y
    <3>3. e \in {y, N} /\ e <= y /\ e <= N
      <4>1. {y, N} \subseteq 1..(y + N) /\ {y, N} # {} /\ y + N \in Nat
        <5>1. y >= 1 /\ N >= 1
          <6>1. o + a + v + 3 <= N
            BY <1>8
          <6> QED  BY <3>2, <6>1
        <5> QED  BY <3>2, <5>1
      <4> HIDE DEF e
      <4>2. PICK z \in {y, N} : z = Min({y, N}) /\ \A w \in {y, N} : z <= w
        BY <4>1, LeastOf
      <4>3. e = z
        BY <1>6, <4>2 DEF e
      <4>4. z <= y /\ z <= N
        BY <4>2
      <4> QED  BY <4>3, <4>4
    <3> HIDE DEF e
    <3>4. e \in 0..N /\ e >= o + a + v + 3
      BY <1>8, <3>2, <3>3
    <3>5. ASSUME v = 0 PROVE e = o + a + 3
      <4>1. i = 1
        <5>1. l.val = << >>
          BY <1>3, <1>5, <3>5, EmptySeq
        <5>2. i \in {1, n}
          BY <5>1 DEF Readable, l, n
        <5> QED  BY <1>0, <2>1, <5>2
      <4>2. o = 0
        BY <1>7, <4>1
      <4>3. y = a + 3 /\ y < N
        BY <3>1, <3>2, <3>5, <4>2
      <4> QED  BY <3>3, <3>5, <4>2, <4>3
    <3>6. p = SubSeq(s, c, e)
      BY <3>1 DEF piece, e, y
    <3> QED  BY <3>4, <3>5, <3>6
  <2>2. CASE ~ (i < n)
    <3>1. i = n /\ N = o + a + v + 3 /\ comma = 0
      BY <1>0, <1>7, <1>11, <2>2 DEF n
    <3>2. p = SubSeq(s, c, N)
      BY <1>6, <3>1 DEF piece, From
    <3>3. N \in 0..N /\ N >= o + a + v + 3 /\ (v = 0 => N = o + a + 3)
      BY <1>1, <3>1
    <3> QED  BY <3>2, <3>3
  <2> QED  BY <2>1, <2>2
<1>13. PICK e \in 0..N : /\ p = SubSeq(s, c, e) /\ e >= o + a + v + 3
                         /\ v = 0 => e = o + a + 3
  BY <1>12
<1> HIDE DEF p
<1>14. p \in Seq(S) /\ Len(p) = e - o /\ \A j \in 1..(e - o) : p[j] = s[o + j]
  <2>1. c \in 1..(Len(s) + 1) /\ e \in (c - 1)..Len(s) /\ e - c + 1 = e - o /\ \A j \in 1..(e - o) : c + j - 1 = o + j
    BY <1>1, <1>6, <1>10, <1>13
  <2>2. SubSeq(s, c, e) \in Seq(S) /\ Len(SubSeq(s, c, e)) = e - c + 1
    BY <2>1, PartFacts
  <2>3. \A j \in 1..(e - c + 1) : SubSeq(s, c, e)[j] = s[c + j - 1]
    <3>1. PICK m \in 1..(Len(s) + 1) : m = c
      BY <2>1
    <3>2. PICK k \in (m - 1)..Len(s) : k = e
      BY <2>1, <3>1
    <3>3. \A j \in 1..(k - m + 1) : SubSeq(s, m, k)[j] = s[m + j - 1]
      BY PartFacts
    <3> QED  BY <3>1, <3>2, <3>3
  <2> QED  BY <1>13, <2>1, <2>2, <2>3
<1>15. LabelAt(p, 0, l)
  <2>0. PICK L \in Nat : L = e - o /\ L = Len(p) /\ a + v + 3 <= L
    BY <1>1, <1>13, <1>14
  <2>1. /\ 0 + a + v + 3 <= Len(p)
        /\ \A j \in 1..a : p[0 + j] = key[j]
        /\ p[0 + a + 1] = "=" /\ p[0 + a + 2] = "QUOTE"
        /\ \A j \in 1..v : p[0 + a + 2 + j] = val[j]
        /\ p[0 + a + v + 3] = "QUOTE"
    <3>1. 0 + a + v + 3 <= Len(p)
      BY <2>0
    <3>2. ASSUME NEW j \in 1..a PROVE p[0 + j] = key[j]
      <4>1. j \in 1..(e - o) /\ 0 + j = j
        BY <2>0
      <4> QED  BY <1>8, <1>14, <4>1
    <3>3. p[0 + a + 1] = "=" /\ p[0 + a + 2] = "QUOTE"
      <4>1. PICK j \in 1..(e - o) : j = 0 + a + 1 /\ o + j = o + a + 1
        BY <2>0
      <4>2. PICK k \in 1..(e - o) : k = 0 + a + 2 /\ o + k = o + a + 2
        BY <2>0
      <4> QED  BY <1>8, <1>14, <4>1, <4>2
    <3>4. ASSUME NEW j \in 1..v PROVE p[0 + a + 2 + j] = val[j]
      <4>1. PICK k \in 1..(e - o) : k = 0 + a + 2 + j /\ o + k = o + a + 2 + j
        BY <2>0
      <4> QED  BY <1>8, <1>14, <4>1
    <3>5. p[0 + a + v + 3] = "QUOTE"
      <4>1. PICK k \in 1..(e - o) : k = 0 + a + v + 3 /\ o + k = o + a + v + 3
        BY <2>0
      <4> QED  BY <1>8, <1>14, <4>1
    <3> QED  BY <3>1, <3>2, <3>3, <3>4, <3>5
  <2> QED  BY <1>2, <1>3, <1>4, <1>5, <2>1, Zenon DEF LabelAt
<1>16. l.val = << >> => Len(p) = Len(l.key) + 3
  <2>1. ASSUME l.val = << >> PROVE Len(p) = Len(l.key) + 3
    <3>1. v = 0
      BY <1>3, <1>5, <2>1
    <3> QED  BY <1>1, <1>2, <1>4, <1>13, <1>14, <3>1
  <2> QED  BY <2>1
<1>17. l.val # << >> => l.val[1] # "SP"
  BY DEF Readable, l
<1>18. parse_bb_metrics_label(p) = l
  BY <1>0, <1>14, <1>15, <1>16, <1>17, ParseLabel
<1> QED  BY <1>x, <1>11, <1>18 DEF p, l, n, comma

\* The labels: what LabelsAreRead says, for keys and values of any characters.
LEMMA LabelsFound ==
  ASSUME NEW C, NEW ls \in Seq(WrittenLabels(C)), \A i \in DOMAIN ls : Readable(ls, i)
  PROVE  split_labels(Render(ls)) = ls
<1> DEFINE s == Render(ls)
           N == Len(s)
           M == Len(s) + 1
           comma(c) == Find(s, {"COMMA"}, c)
           label(c) == parse_bb_metrics_label(piece(s, c, comma(c)))
           found(c) == IF label(c).key # << >> THEN <<label(c)>> ELSE << >>
           own == [c \in 1..M |-> IF c = M THEN << >> ELSE found(c)]
           next == [c \in 1..M |-> IF c = M \/ comma(c) = 0 THEN 0 ELSE comma(c) + 1]
           Pass(h, c) == IF c = M THEN << >>
                         ELSE found(c) \o (IF comma(c) = 0 THEN << >> ELSE h[comma(c) + 1])
           Step(h) == [c \in 1..M |-> Pass(h, c)]
           f == CHOOSE h : h = Step(h)
           R == {label(c) : c \in 1..M} \cup WrittenLabels(C)
           D == C \cup {"=", "QUOTE", "COMMA"}
<1>1. split_labels(s) = f[1]
  BY DEF split_labels
<1>2. s \in Seq(D) /\ (ls = << >> => s = << >>)
  <2>1. CASE ls = << >>
    <3>1. s = << >>
      <4>1. [i \in DOMAIN ls |-> RenderLabel(ls[i]) \o (IF i < Len(ls) THEN <<"COMMA">> ELSE << >>)] = << >>
        BY <2>1
      <4>2. s = FlattenSeq(<< >>)
        BY <4>1, Zenon DEF Render
      <4>3. FlattenSeq(<< >>) = << >>
        <5>1. << >> \in Seq(Seq(D)) /\ Len(<< >>) = 0
          OBVIOUS
        <5>2. PICK g : Joined(g, << >>, D)
          BY <5>1, JoinedExists
        <5>3. FlattenSeq(<< >>) = g[Len(<< >>)]
          BY <5>1, <5>2, FlattenIsJoin
        <5> QED  BY <5>1, <5>2, <5>3 DEF Joined
      <4> QED  BY <4>2, <4>3
    <3> HIDE DEF s, D
    <3> QED  BY <3>1
  <2>2. CASE ls # << >>
    <3>1. s \in Seq(D)
      BY <2>2, RenderedLabels
    <3> QED  BY <2>2, <3>1
  <2> QED  BY <2>1, <2>2
<1> HIDE DEF s, D
<1>3. N \in Nat /\ M \in Nat /\ 1 \in 1..M
  BY <1>2
<1>4. ASSUME NEW c \in 1..M PROVE comma(c) \in 0..N /\ (comma(c) # 0 => comma(c) >= c)
  <2>1. FirstIn(comma(c), s, {"COMMA"}, c)
    BY <1>2, FindFacts
  <2> QED  BY <2>1 DEF FirstIn
<1>5. /\ \A c \in 1..M : own[c] = IF c = M THEN << >> ELSE found(c)
      /\ \A c \in 1..M : next[c] = IF c = M \/ comma(c) = 0 THEN 0 ELSE comma(c) + 1
      /\ \A h : \A c \in 1..M : Step(h)[c] = Pass(h, c)
  OBVIOUS
<1>6. \A c \in 1..M : label(c) \in R
  OBVIOUS
<1>7. ASSUME NEW c \in 1..M PROVE found(c) \in Seq(R)
  <2>1. label(c) \in R
    BY <1>6
  <2> HIDE DEF R, label
  <2>2. << >> \in Seq(R) /\ <<label(c)>> \in Seq(R)
    BY <2>1
  <2> QED  BY <2>2
<1> HIDE DEF comma, label
<1>8. CursorRounds(own, next, M, R)
  <2>1. ASSUME NEW c \in 1..M PROVE own[c] \in Seq(R)
    <3>1. << >> \in Seq(R)
      <4> HIDE DEF R
      <4> QED OBVIOUS
    <3> HIDE DEF R, found, own
    <3> QED  BY <1>5, <1>7, <3>1
  <2>2. ASSUME NEW c \in 1..M PROVE next[c] \in 0..M /\ (next[c] = 0 \/ c < next[c])
    <3>1. next[c] = IF c = M \/ comma(c) = 0 THEN 0 ELSE comma(c) + 1
      BY <1>5, Zenon
    <3> HIDE DEF next
    <3> QED  BY <1>3, <1>4, <3>1
  <2>3. own \in [1..M -> Seq(R)]
    <3>1. own = [c \in 1..M |-> own[c]]
      OBVIOUS
    <3> HIDE DEF own, R
    <3> QED  BY <2>1, <3>1
  <2>4. next \in [1..M -> 0..M]
    <3>1. next = [c \in 1..M |-> next[c]]
      OBVIOUS
    <3> HIDE DEF next
    <3> QED  BY <2>2, <3>1
  <2> HIDE DEF own, next, R
  <2> QED  BY <2>2, <2>3, <2>4 DEF CursorRounds
<1>9. ASSUME NEW h, NEW c \in 1..M
      PROVE  /\ next[c] = 0 => Step(h)[c] = own[c]
             /\ next[c] # 0 /\ h[next[c]] \in Seq(R) => Step(h)[c] = own[c] \o h[next[c]]
  <2>1. /\ own[c] = IF c = M THEN << >> ELSE found(c)
        /\ next[c] = IF c = M \/ comma(c) = 0 THEN 0 ELSE comma(c) + 1
        /\ Step(h)[c] = Pass(h, c)
    BY <1>5, Zenon
  <2>2. comma(c) + 1 # 0
    BY <1>3, <1>4
  <2>3. found(c) \o << >> = found(c)
    <3> HIDE DEF found, R
    <3> QED  BY <1>7, ConcatFacts, Zenon
  <2> HIDE DEF next, own, Step, R, found, M
  <2>4. CASE c = M
    BY <2>1, <2>4
  <2>5. CASE c # M /\ comma(c) = 0
    BY <2>1, <2>3, <2>5
  <2>6. CASE c # M /\ comma(c) # 0
    BY <2>1, <2>2, <2>6
  <2> QED  BY <2>4, <2>5, <2>6
<1>10. \E h : h = Step(h)
  <2>1. PICK h \in [1..M -> Seq(R)] : Finds(h, own, next, M, R)
    <3> HIDE DEF own, next, R
    <3> QED  BY <1>3, <1>8, CursorRecursion
  <2>2. ASSUME NEW c \in 1..M PROVE h[c] = Step(h)[c]
    <3>1. next[c] \in 0..M
      BY <1>8 DEF CursorRounds
    <3> HIDE DEF own, next, R, Step
    <3>2. CASE next[c] = 0
      BY <1>9, <2>1, <3>2 DEF Finds
    <3>3. CASE next[c] # 0
      <4>1. h[next[c]] \in Seq(R)
        BY <1>3, <2>1, <3>1, <3>3
      <4> QED  BY <1>9, <2>1, <3>3, <4>1 DEF Finds
    <3> QED  BY <3>2, <3>3
  <2>3. h = Step(h)
    <3>1. h = [c \in 1..M |-> h[c]] /\ Step(h) = [c \in 1..M |-> Step(h)[c]]
      BY <2>1
    <3> HIDE DEF Step
    <3> QED  BY <2>2, <3>1
  <2> QED  BY <2>3
<1>11. f = Step(f)
  <2> HIDE DEF Step
  <2> QED  BY <1>10
<1> HIDE DEF f
<1>12. Finds(f, own, next, M, R)
  <2> HIDE DEF own, next, R, Step
  <2> QED  BY <1>9, <1>11 DEF Finds
<1>13. CASE ls = << >>
  <2>1. s = << >> /\ Len(s) = 0 /\ M = 1
    BY <1>2, <1>13
  <2>2. f[1] = << >>
    <3>1. Step(f)[1] = << >>
      BY <2>1
    <3> HIDE DEF Step
    <3> QED  BY <1>11, <3>1
  <2> QED  BY <1>1, <1>13, <2>2 DEF s
<1>14. CASE ls # << >>
  <2> DEFINE n == Len(ls)
  <2>1. PICK off : Offsets(off, s, ls)
    BY <1>14, RenderedLabels DEF s
  <2>2. n \in Nat /\ n # 0 /\ DOMAIN ls = 1..n /\ \A i \in 1..n : ls[i] \in WrittenLabels(C)
    BY <1>14, EmptySeq
  <2>3. off \in [0..n -> 0..N] /\ off[0] = 0 /\ \A i, m \in 0..n : i < m => off[i] < off[m]
    BY <2>1, Zenon DEF Offsets
  <2>4. ASSUME NEW i \in 1..n
        PROVE  /\ Begin(off, i) \in 1..N /\ i - 1 \in 0..n
               /\ i < n => Begin(off, i + 1) = off[i] + 1 /\ i + 1 \in 1..n
    <3>1. i - 1 \in 0..n /\ i \in 0..n /\ i - 1 < i /\ (i + 1) - 1 = i /\ (i < n => i + 1 \in 1..n)
      BY <2>2
    <3>2. PICK x \in 0..N : x = off[i - 1]
      BY <2>3, <3>1
    <3>3. PICK y \in 0..N : y = off[i]
      BY <2>3, <3>1
    <3>4. x < y
      BY <2>3, <3>1, <3>2, <3>3
    <3>5. x + 1 \in 1..N
      BY <1>3, <3>4
    <3> QED  BY <3>1, <3>2, <3>5, Zenon DEF Begin
  <2>5. ASSUME NEW i \in 1..n, NEW m \in 1..n, Begin(off, i) = Begin(off, m) PROVE i = m
    <3>1. i - 1 \in 0..n /\ m - 1 \in 0..n
      BY <2>4
    <3>2. PICK x \in 0..N : x = off[i - 1]
      BY <2>3, <3>1
    <3>3. PICK y \in 0..N : y = off[m - 1]
      BY <2>3, <3>1
    <3>4. x = y
      <4>1. x + 1 = y + 1
        BY <2>5, <3>2, <3>3, Zenon DEF Begin
      <4> QED  BY <4>1
    <3>5. (i - 1 < m - 1 => x < y) /\ (m - 1 < i - 1 => y < x)
      BY <2>3, <3>1, <3>2, <3>3
    <3> QED  BY <2>2, <3>4, <3>5
  <2> HIDE DEF N, M, n
  <2>6. N \in Nat /\ M = N + 1
    BY <1>3 DEF N, M
  <2> DEFINE A == {Begin(off, i) : i \in 1..n}
             Index(c) == CHOOSE i \in 1..n : Begin(off, i) = c
             pre == [c \in A |-> SubSeq(ls, 1, Index(c) - 1)]
  <2>7. \A i \in 1..n : Begin(off, i) \in A /\ Index(Begin(off, i)) = i
    <3>1. \A i \in 1..n : Begin(off, i) \in A
      BY Zenon
    <3>2. ASSUME NEW i \in 1..n PROVE Index(Begin(off, i)) = i
      <4>1. Index(Begin(off, i)) \in 1..n /\ Begin(off, Index(Begin(off, i))) = Begin(off, i)
        BY Zenon
      <4> QED  BY <2>5, <4>1
    <3> QED  BY <3>1, <3>2
  <2>8. \A i \in 1..n : pre[Begin(off, i)] = SubSeq(ls, 1, i - 1)
    <3> HIDE DEF A, Index
    <3> QED  BY <2>7
  <2>9. ASSUME NEW i \in 0..n
        PROVE  SubSeq(ls, 1, i) \in Seq(WrittenLabels(C)) /\ SubSeq(ls, 1, i) \in Seq(R)
    <3>1. 1 \in 1..(Len(ls) + 1) /\ i \in (1 - 1)..Len(ls)
      BY <2>2 DEF n
    <3>2. SubSeq(ls, 1, i) \in Seq(WrittenLabels(C))
      BY <3>1, PartFacts
    <3>3. WrittenLabels(C) \subseteq R
      OBVIOUS
    <3> HIDE DEF R
    <3> QED  BY <3>2, <3>3
  <2>10. pre \in [A -> Seq(R)]
    <3>1. ASSUME NEW c \in A PROVE SubSeq(ls, 1, Index(c) - 1) \in Seq(R)
      <4>1. PICK i \in 1..n : c = Begin(off, i)
        OBVIOUS
      <4>2. Index(c) = i /\ i - 1 \in 0..n
        BY <2>2, <2>7, <4>1, SMTT(30)
      <4> HIDE DEF Index, R
      <4> QED  BY <2>9, <4>2
    <3> HIDE DEF A, Index, R
    <3> QED  BY <3>1
  <2>11. Begin(off, 1) = 1 /\ 1 \in 1..n /\ 1 - 1 = 0
    BY <2>2, <2>3 DEF Begin
  <2>12. A \subseteq 1..M /\ 1 \in A /\ pre[1] = << >>
    <3>1. A \subseteq 1..M
      BY <2>4, <2>6
    <3>2. pre[1] = SubSeq(ls, 1, 0)
      <4> HIDE DEF pre
      <4> QED  BY <2>8, <2>11
    <3>3. SubSeq(ls, 1, 0) = << >>
      OBVIOUS
    <3> HIDE DEF pre
    <3> QED  BY <2>11, <3>1, <3>2, <3>3
  <2>13. ASSUME NEW i \in 1..n, NEW c, c = Begin(off, i)
         PROVE  /\ own[c] = <<ls[i]>>
                /\ next[c] = IF i < n THEN Begin(off, i + 1) ELSE 0
                /\ i < n => Begin(off, i + 1) # 0
    <3>1. c \in 1..N /\ c \in 1..M /\ c # M /\ c \in Nat
      BY <2>4, <2>6, <2>13
    <3>2. Readable(ls, i)
      BY <2>2
    <3>3. comma(c) = (IF i < n THEN off[i] ELSE 0) /\ label(c) = ls[i]
      BY <1>2, <2>1, <2>13, <3>1, <3>2, LabelRound DEF n, comma, label
    <3>4. own[c] = found(c) /\ next[c] = IF comma(c) = 0 THEN 0 ELSE comma(c) + 1
      <4> HIDE DEF own, next, found
      <4> QED  BY <1>5, <3>1
    <3>5. ls[i].key # << >>
      BY <2>2 DEF WrittenLabels
    <3>6. own[c] = <<ls[i]>>
      BY <3>3, <3>4, <3>5
    <3>7. i < n => off[i] # 0 /\ Begin(off, i + 1) = off[i] + 1 /\ off[i] + 1 # 0
      <4>1. i \in 0..n /\ 0 \in 0..n /\ 0 < i
        BY <2>2
      <4>2. PICK x \in 0..N : x = off[i] /\ 0 < x
        BY <2>3, <4>1
      <4>3. x # 0 /\ x + 1 # 0
        BY <4>2
      <4> QED  BY <2>4, <4>2, <4>3
    <3> HIDE DEF own, next
    <3> QED  BY <3>3, <3>4, <3>6, <3>7, Zenon
  <2>14. ASSUME NEW i \in 1..n PROVE SubSeq(ls, 1, i - 1) \o <<ls[i]>> = SubSeq(ls, 1, i)
    <3>1. SubSeq(ls, 1, i) \in Seq(WrittenLabels(C)) /\ SubSeq(ls, 1, i - 1) \in Seq(WrittenLabels(C))
      BY <2>4, <2>9
    <3>2. i \in 1..Len(ls) /\ Len(ls) \in Nat
      BY <2>2 DEF n
    <3> QED  BY <3>2
  <2>15. SubSeq(ls, 1, n) = ls
    BY DEF n
  <2>16. ASSUME NEW c \in A
         PROVE  /\ next[c] = 0 => pre[c] \o own[c] = ls
                /\ next[c] # 0 => next[c] \in A /\ pre[next[c]] = pre[c] \o own[c]
    <3>1. PICK i \in 1..n : c = Begin(off, i)
      OBVIOUS
    <3> HIDE DEF A, pre, own, next
    <3>2. pre[c] \o own[c] = SubSeq(ls, 1, i)
      BY <2>8, <2>13, <2>14, <3>1
    <3>3. next[c] = (IF i < n THEN Begin(off, i + 1) ELSE 0) /\ (i < n => Begin(off, i + 1) # 0)
      BY <2>13, <3>1
    <3>4. CASE i < n
      <4>1. PICK m \in 1..n : m = i + 1 /\ m - 1 = i
        BY <2>2, <3>4
      <4>2. next[c] = Begin(off, m) /\ next[c] # 0
        BY <3>3, <3>4, <4>1
      <4> QED  BY <2>7, <2>8, <3>2, <4>1, <4>2
    <3>5. CASE ~ (i < n)
      <4>1. i = n
        BY <2>2, <3>5
      <4> QED  BY <2>15, <3>2, <3>3, <3>5, <4>1
    <3> QED  BY <3>4, <3>5
  <2>17. f[1] = ls
    <3> HIDE DEF A, pre, own, next, R
    <3>1. Passes(A, pre, own, next, M, R, ls)
      BY <2>10, <2>12, <2>16, Zenon DEF Passes
    <3> QED  BY <1>3, <1>8, <1>12, <3>1, CursorLoop DEF M
  <2> QED  BY <1>1, <2>17 DEF s
<1> QED  BY <1>13, <1>14

-----------------------------------------------------------------------------
(* Datadog series and check runs *)

\* The last member of P up to n, from that up to n - 1.
LastSteps(P, N) ==
  /\ LastUpTo(P, 0) = 0
  /\ \A n \in 1..N : LastUpTo(P, n) = IF n \in P THEN n ELSE LastUpTo(P, n - 1)

\* LastUpTo goes up one by one.
LEMMA LastUpToSteps ==
  ASSUME NEW N \in Nat, NEW P, P \subseteq 1..N
  PROVE  LastSteps(P, N)
<1>1. LastUpTo(P, 0) = 0
  <2>1. LastIn(0, P, 0) /\ 0 \in 0..N /\ 0 \in Int
    BY DEF LastIn
  <2> QED  BY <2>1, LastUpToFacts
<1>2. ASSUME NEW n \in 1..N, n \in P PROVE LastUpTo(P, n) = n
  <2>1. LastIn(n, P, n) /\ n \in 0..N /\ n \in Int
    BY <1>2 DEF LastIn
  <2> QED  BY <2>1, LastUpToFacts
<1>3. ASSUME NEW n \in 1..N, n \notin P PROVE LastUpTo(P, n) = LastUpTo(P, n - 1)
  <2>1. PICK k \in Int : k = n - 1
    OBVIOUS
  <2>2. PICK r \in 0..N : r = LastUpTo(P, k) /\ LastIn(r, P, k)
    BY LastUpToFacts
  <2>3. LastIn(r, P, n) /\ n \in Int
    BY <1>3, <2>1, <2>2 DEF LastIn
  <2>4. r = LastUpTo(P, n)
    BY <2>3, LastUpToFacts
  <2> QED  BY <2>1, <2>2, <2>4
<1> QED  BY <1>1, <1>2, <1>3 DEF LastSteps

MetricAt(i, ps, k) ==
  [series |-> i, ts |-> LastUpTo(Timed(ps), k), val |-> LastUpTo(Valued(ps), k)]

\* The fields of a metric after k points.
LEMMA MetricAfter ==
  ASSUME NEW i, NEW S, NEW ps \in Seq(S), NEW k \in 0..Len(ps)
  PROVE  metric_after(i, ps, k) = MetricAt(i, ps, k)
<1> DEFINE N == Len(ps)
           own(n, m) == IF ~ps[n].pair THEN m
                        ELSE [series |-> i, ts |-> IF ps[n].ts THEN n ELSE m.ts,
                              val |-> IF ps[n].num THEN n ELSE m.val]
           Step(h) == [n \in 0..N |-> IF n = 0 THEN [series |-> i, ts |-> 0, val |-> 0]
                                      ELSE own(n, h[n - 1])]
           f == CHOOSE h : h = Step(h)
           g == [n \in 0..N |-> MetricAt(i, ps, n)]
<1>0. N \in Nat /\ Timed(ps) \subseteq 1..N /\ Valued(ps) \subseteq 1..N
  BY DEF Timed, Valued, Pairs
<1>1. metric_after(i, ps, k) = f[k]
  BY DEF metric_after
<1>2. /\ MetricAt(i, ps, 0) = [series |-> i, ts |-> 0, val |-> 0]
      /\ \A n \in 1..N : MetricAt(i, ps, n) = own(n, MetricAt(i, ps, n - 1))
  <2>0. LastSteps(Timed(ps), N) /\ LastSteps(Valued(ps), N)
    <3> HIDE DEF N
    <3> QED  BY <1>0, LastUpToSteps, Zenon
  <2>1. LastUpTo(Timed(ps), 0) = 0 /\ LastUpTo(Valued(ps), 0) = 0
    BY <2>0, Zenon DEF LastSteps
  <2>2. ASSUME NEW n \in 1..N
        PROVE  /\ LastUpTo(Timed(ps), n) = IF ps[n].pair /\ ps[n].ts THEN n ELSE LastUpTo(Timed(ps), n - 1)
               /\ LastUpTo(Valued(ps), n) = IF ps[n].pair /\ ps[n].num THEN n ELSE LastUpTo(Valued(ps), n - 1)
    <3>1. /\ LastUpTo(Timed(ps), n) = IF n \in Timed(ps) THEN n ELSE LastUpTo(Timed(ps), n - 1)
          /\ LastUpTo(Valued(ps), n) = IF n \in Valued(ps) THEN n ELSE LastUpTo(Valued(ps), n - 1)
      BY <2>0, Zenon DEF LastSteps
    <3>2. /\ n \in Timed(ps) <=> ps[n].pair /\ ps[n].ts
          /\ n \in Valued(ps) <=> ps[n].pair /\ ps[n].num
      BY DEF Timed, Valued, Pairs
    <3> QED  BY <3>1, <3>2, Zenon
  <2> QED  BY <2>1, <2>2 DEF MetricAt
<1> HIDE DEF own
<1>3. \E h : h = Step(h)
  <2>1. g = Step(g)
    <3>1. ASSUME NEW n \in 0..N PROVE g[n] = Step(g)[n]
      <4>1. CASE n = 0
        BY <1>2, <4>1
      <4>2. CASE n # 0
        <5>1. n \in 1..N /\ n - 1 \in 0..N
          BY <1>0, <4>2
        <5> QED  BY <1>2, <4>2, <5>1
      <4> QED  BY <4>1, <4>2
    <3> QED  BY <3>1
  <2> QED  BY <2>1
<1>4. f = Step(f)
  <2> HIDE DEF Step
  <2> QED  BY <1>3
<1> HIDE DEF f
<1>5. f[0] = [series |-> i, ts |-> 0, val |-> 0] /\ \A n \in 1..N : f[n] = own(n, f[n - 1])
  <2> DEFINE h == Step(f)
  <2>1. \A n \in 0..N : h[n] = IF n = 0 THEN [series |-> i, ts |-> 0, val |-> 0] ELSE own(n, f[n - 1])
    OBVIOUS
  <2>2. f = h
    BY <1>4, Zenon
  <2> HIDE DEF h
  <2>3. 0 \in 0..N /\ \A n \in 1..N : n \in 0..N /\ n # 0
    BY <1>0
  <2> QED  BY <2>1, <2>2, <2>3, Zenon
<1> DEFINE P == {n \in Nat : n <= N => f[n] = MetricAt(i, ps, n)}
<1>6. 0 \in P
  BY <1>2, <1>5
<1>7. ASSUME NEW n \in Nat, n \in P PROVE n + 1 \in P
  <2>1. ASSUME n + 1 <= N PROVE f[n + 1] = MetricAt(i, ps, n + 1)
    <3>1. PICK m \in 1..N : m = n + 1 /\ m - 1 = n
      BY <2>1
    <3> QED  BY <1>2, <1>5, <1>7, <2>1, <3>1
  <2> QED  BY <2>1
<1> HIDE DEF P
<1>8. k \in P
  BY <1>6, <1>7, NatSetInduction
<1> QED  BY <1>0, <1>1, <1>8 DEF P

SeriesMetricsOf(i, sr) ==
  LET ps == sr.points
      ks == IF sr.named THEN InOrder(Pairs(ps), Len(ps)) ELSE << >>
  IN [n \in DOMAIN ks |-> [series |-> i, ts |-> LastUpTo(Timed(ps), ks[n]),
                           val |-> LastUpTo(Valued(ps), ks[n])]]

\* The metrics of one series: those of its pairs, in order.
LEMMA SeriesMetrics ==
  ASSUME NEW i, NEW S, NEW sr, sr.points \in Seq(S)
  PROVE  series_metrics(i, sr) = SeriesMetricsOf(i, sr)
<1> DEFINE ps == sr.points
           N == Len(ps)
           K == Pairs(ps)
           T == [k \in 1..N |-> metric_after(i, ps, k)]
           R == {T[k] : k \in 1..N}
           ks == InOrder(K, N)
<1>1. N \in Nat /\ K \subseteq 1..N /\ DOMAIN ps = 1..N
  BY DEF Pairs
<1>2. (\A k \in K : T[k] \in R) /\ (\A k \in 1..N : T[k] = MetricAt(i, ps, k))
  <2>1. \A k \in 1..N : k \in 0..N
    BY <1>1
  <2>2. \A k \in 1..N : metric_after(i, ps, k) = MetricAt(i, ps, k)
    BY <2>1, MetricAfter
  <2> QED  BY <1>1, <2>2
<1>3. /\ ks = FlattenSeq(Positions(K, N))
      /\ sr.named => series_metrics(i, sr) = FlattenSeq(Chosen(T, K, N))
      /\ ~sr.named => series_metrics(i, sr) = << >>
  <2>1. ks = FlattenSeq(Positions(K, N))
    BY DEF InOrder, Positions
  <2>2. [k \in DOMAIN ps |-> IF ps[k].pair THEN <<metric_after(i, ps, k)>> ELSE << >>] = Chosen(T, K, N)
    BY <1>1 DEF Chosen, Pairs
  <2> QED  BY <2>1, <2>2, Zenon DEF series_metrics
<1> HIDE DEF N, K, T, R, ks, ps
<1>4. CASE sr.named
  <2> DEFINE out == series_metrics(i, sr)
  <2> HIDE DEF out
  <2>1. Alike(ks, out, T, K, R)
    <3>1. Alike(FlattenSeq(Positions(K, N)), FlattenSeq(Chosen(T, K, N)), T, K, R)
      BY <1>1, <1>2, ChosenInOrder, Zenon
    <3> QED  BY <1>3, <1>4, <3>1, Zenon DEF out
  <2>2. out \in Seq(R) /\ Len(out) = Len(ks) /\ DOMAIN ks = 1..Len(ks)
    BY <2>1 DEF Alike
  <2>3. ASSUME NEW n \in DOMAIN ks PROVE out[n] = MetricAt(i, ps, ks[n])
    <3>1. ks[n] \in K /\ out[n] = T[ks[n]]
      BY <2>1 DEF Alike
    <3> QED  BY <1>1, <1>2, <3>1
  <2>4. out = [n \in DOMAIN ks |-> out[n]]
    BY <2>2
  <2>5. out = [n \in DOMAIN ks |-> MetricAt(i, ps, ks[n])]
    BY <2>3, <2>4
  <2> QED  BY <1>4, <2>5, Zenon DEF out, ps, ks, N, K, MetricAt, SeriesMetricsOf
<1>5. CASE ~sr.named
  <2>1. DOMAIN << >> = {}
    OBVIOUS
  <2>2. [n \in DOMAIN << >> |-> MetricAt(i, sr.points, << >>[n])] = << >>
    BY <2>1
  <2> QED  BY <1>3, <1>5, <2>2, Zenon DEF MetricAt, SeriesMetricsOf
<1> QED  BY <1>4, <1>5

\* Datadog series: what PointsStayInSeries says, for any body.
LEMMA SeriesInOrder ==
  ASSUME NEW S, NEW body, \A i \in DOMAIN body : body[i].points \in Seq(S)
  PROVE  parse_datadog_series(body) = FlattenSeq([i \in DOMAIN body |->
           LET ps == body[i].points
               ks == IF body[i].named THEN InOrder(Pairs(ps), Len(ps)) ELSE << >>
           IN [n \in DOMAIN ks |-> [series |-> i, ts |-> LastUpTo(Timed(ps), ks[n]),
                                    val |-> LastUpTo(Valued(ps), ks[n])]]])
<1>1. ASSUME NEW i \in DOMAIN body PROVE series_metrics(i, body[i]) = SeriesMetricsOf(i, body[i])
  <2>1. PICK sr : sr = body[i]
    OBVIOUS
  <2>2. sr.points \in Seq(S)
    BY <2>1
  <2> QED  BY <2>1, <2>2, SeriesMetrics
<1>2. [i \in DOMAIN body |-> series_metrics(i, body[i])] = [i \in DOMAIN body |-> SeriesMetricsOf(i, body[i])]
  BY <1>1
<1> QED  BY <1>2, Zenon DEF parse_datadog_series, SeriesMetricsOf

\* Datadog check runs: what MetricsAreOwn says of them, for any checks.
LEMMA ChecksInOrder ==
  ASSUME NEW S, NEW checks \in Seq(S)
  PROVE  LET named == InOrder({i \in DOMAIN checks : checks[i].named}, Len(checks))
             out == parse_datadog_check_run(checks)
         IN /\ Len(out) = Len(named)
            /\ \A n \in DOMAIN named : CheckIsOwn(out[n], checks[named[n]], named[n])
<1> DEFINE N == Len(checks)
           K == {i \in DOMAIN checks : checks[i].named}
           T == [i \in 1..N |-> check_metric(checks[i], i)]
           R == {T[k] : k \in 1..N}
           named == InOrder(K, N)
           out == parse_datadog_check_run(checks)
<1>1. N \in Nat /\ K \subseteq 1..N /\ DOMAIN checks = 1..N
  OBVIOUS
<1>2. (\A k \in K : T[k] \in R) /\ (\A k \in K : T[k] = check_metric(checks[k], k))
  BY <1>1
<1>3. named = FlattenSeq(Positions(K, N)) /\ out = FlattenSeq(Chosen(T, K, N))
  <2>1. named = FlattenSeq(Positions(K, N))
    BY DEF InOrder, Positions
  <2>2. [i \in DOMAIN checks |-> IF checks[i].named THEN <<check_metric(checks[i], i)>> ELSE << >>]
          = Chosen(T, K, N)
    BY <1>1 DEF Chosen
  <2> QED  BY <2>1, <2>2, Zenon DEF parse_datadog_check_run
<1> HIDE DEF N, K, T, R, named, out
<1>4. Alike(named, out, T, K, R)
  <2>1. Alike(FlattenSeq(Positions(K, N)), FlattenSeq(Chosen(T, K, N)), T, K, R)
    BY <1>1, <1>2, ChosenInOrder, Zenon
  <2> QED  BY <1>3, <2>1, Zenon
<1>5. Len(out) = Len(named)
  BY <1>4 DEF Alike
<1>6. ASSUME NEW n \in DOMAIN named PROVE CheckIsOwn(out[n], checks[named[n]], named[n])
  <2>1. named[n] \in K /\ out[n] = T[named[n]]
    BY <1>4 DEF Alike
  <2>2. out[n] = check_metric(checks[named[n]], named[n])
    BY <1>2, <2>1
  <2> QED  BY <2>2 DEF check_metric, CheckIsOwn
<1> QED  BY <1>5, <1>6 DEF out, named, K, N

-----------------------------------------------------------------------------
(* Splunk events and Prometheus remote writes *)

SplunkRead(docs) == {i \in DOMAIN docs : \A j \in 1..i : docs[j] # "broken"}
SplunkEvents(docs) == {i \in SplunkRead(docs) : docs[i] # "noevent"}
SplunkLine(docs, i) == [doc |-> i, time |-> IF docs[i] = "absent" THEN "0" ELSE "now"]

\* The loop over the documents: what SplunkEventsAreRead says, for any body.
LEMMA SplunkInOrder ==
  ASSUME NEW S, NEW docs \in Seq(S)
  PROVE  LET out == parse_splunk_event(docs) IN
         IF \E i \in SplunkRead(docs) : docs[i] = "nonumber" THEN out = Throws
         ELSE [n \in DOMAIN out |-> out[n].doc] = InOrder(SplunkEvents(docs), Len(docs))
<1> DEFINE N == Len(docs)
           K == SplunkEvents(docs)
           T == [i \in 1..N |-> SplunkLine(docs, i)]
           R == {T[i] : i \in 1..N}
           t == Chosen(T, K, N)
           Round(i, before) ==
             IF ~before.open \/ docs[i] = "noevent" THEN before
             ELSE IF docs[i] = "broken" THEN [open |-> FALSE, result |-> before.result]
             ELSE IF docs[i] = "nonumber" THEN [open |-> FALSE, result |-> Throws]
             ELSE [open |-> TRUE, result |-> Append(before.result, SplunkLine(docs, i))]
           First == [open |-> TRUE, result |-> << >>]
           Step(h) == [i \in 0..N |-> IF i = 0 THEN First ELSE Round(i, h[i - 1])]
           f == CHOOSE h : h = Step(h)
           Bad(n) == \E j \in 1..n : j \in SplunkRead(docs) /\ docs[j] = "nonumber"
           Broken(n) == \E j \in 1..n : docs[j] = "broken"
<1>1. parse_splunk_event(docs) = f[N].result
  BY DEF parse_splunk_event, SplunkLine
<1>2. N \in Nat /\ K \subseteq 1..N /\ DOMAIN docs = 1..N
  BY DEF SplunkEvents, SplunkRead
<1>3. (\A k \in K : T[k] \in R) /\ (\A k \in 1..N : T[k] = SplunkLine(docs, k) /\ SplunkLine(docs, k) \in R)
  BY <1>2
<1>4. /\ t \in Seq(Seq(R)) /\ Len(t) = N
      /\ \A i \in 1..N : i \in K => t[i] = <<T[i]>>
      /\ \A i \in 1..N : i \notin K => t[i] = << >>
  <2> HIDE DEF R, T, K, N, t
  <2>1. IsChosen(t, T, K, N, R)
    BY <1>2, <1>3, ChosenType, Zenon DEF t
  <2> QED  BY <2>1, Zenon DEF IsChosen
<1>5. PICK g : Joined(g, t, R)
  <2> HIDE DEF R, t
  <2> QED  BY <1>4, JoinedExists
<1>6. FlattenSeq(t) = g[N]
  <2> HIDE DEF R, t
  <2> QED  BY <1>4, <1>5, FlattenIsJoin
<1>7. /\ g[0] = << >> /\ \A i \in 0..N : g[i] \in Seq(R)
      /\ \A i \in 1..N : g[i] = g[i - 1] \o t[i]
  <2> HIDE DEF R, t
  <2> QED  BY <1>4, <1>5 DEF Joined
<1>8. ASSUME NEW i \in 1..N
      PROVE  /\ g[i - 1] \in Seq(R)
             /\ i \in K => g[i] = Append(g[i - 1], SplunkLine(docs, i))
             /\ i \notin K => g[i] = g[i - 1]
  <2>1. i - 1 \in 0..N
    BY <1>2
  <2> HIDE DEF R, t, T, K, N
  <2>2. PICK u \in Seq(R) : u = g[i - 1] /\ g[i] = u \o t[i]
    BY <1>7, <2>1
  <2>3. ASSUME i \in K PROVE g[i] = Append(u, SplunkLine(docs, i))
    <3>1. PICK x \in R : x = SplunkLine(docs, i) /\ t[i] = <<x>>
      BY <1>3, <1>4, <2>3
    <3>2. u \o <<x>> = Append(u, x)
      OBVIOUS
    <3> QED  BY <2>2, <3>1, <3>2
  <2>4. ASSUME i \notin K PROVE g[i] = u
    <3>1. t[i] = << >>
      BY <1>4, <2>4
    <3>2. u \o << >> = u
      BY ConcatFacts, Zenon
    <3> QED  BY <2>2, <3>1, <3>2
  <2> QED  BY <2>2, <2>3, <2>4
<1> DEFINE Reached(n) == IF Bad(n) THEN [open |-> FALSE, result |-> Throws]
                       ELSE IF Broken(n) THEN [open |-> FALSE, result |-> g[n]]
                       ELSE [open |-> TRUE, result |-> g[n]]
<1>9. Reached(0) = First
  BY <1>7
<1>10. ASSUME NEW n \in 1..N PROVE Reached(n) = Round(n, Reached(n - 1))
  <2>1. PICK m \in 0..N : m = n - 1
    BY <1>2
  <2>2. /\ Bad(n) <=> Bad(m) \/ (n \in SplunkRead(docs) /\ docs[n] = "nonumber")
        /\ Broken(n) <=> Broken(m) \/ docs[n] = "broken"
    <3>1. \A j : j \in 1..n <=> j \in 1..m \/ j = n
      BY <1>2, <2>1
    <3> QED  BY <3>1, Zenon
  <2>3. n \in SplunkRead(docs) <=> ~Broken(n)
    BY <1>2 DEF SplunkRead
  <2>4. n \in K <=> ~Broken(n) /\ docs[n] # "noevent"
    BY <2>3 DEF SplunkEvents
  <2>5. /\ n \in K => g[n] = Append(g[m], SplunkLine(docs, n))
        /\ n \notin K => g[n] = g[m]
    BY <1>8, <2>1
  <2> HIDE DEF K, N, T, R, t, Bad, Broken
  <2>6. CASE Bad(m)
    BY <2>1, <2>2, <2>6
  <2>7. CASE ~Bad(m) /\ Broken(m)
    <3>1. ~Bad(n) /\ Broken(n) /\ g[n] = g[m]
      BY <2>2, <2>3, <2>4, <2>5, <2>7
    <3> QED  BY <2>1, <2>7, <3>1
  <2>8. CASE ~Bad(m) /\ ~Broken(m) /\ docs[n] = "broken"
    <3>1. ~Bad(n) /\ Broken(n) /\ g[n] = g[m]
      BY <2>2, <2>3, <2>4, <2>5, <2>8
    <3> QED  BY <2>1, <2>8, <3>1
  <2>9. CASE ~Bad(m) /\ ~Broken(m) /\ docs[n] # "broken"
    <3>1. ~Broken(n) /\ (Bad(n) <=> docs[n] = "nonumber") /\ (n \in K <=> docs[n] # "noevent")
      BY <2>2, <2>3, <2>4, <2>9
    <3> QED  BY <2>1, <2>5, <2>9, <3>1
  <2> QED  BY <2>6, <2>7, <2>8, <2>9
<1> HIDE DEF Round, Reached, First
<1>11. \E h : h = Step(h)
  <2> DEFINE h == [n \in 0..N |-> Reached(n)]
  <2>1. h = Step(h)
    <3>1. ASSUME NEW n \in 0..N PROVE h[n] = Step(h)[n]
      <4>1. CASE n = 0
        BY <1>9, <4>1
      <4>2. CASE n # 0
        <5>1. n \in 1..N /\ n - 1 \in 0..N
          BY <1>2, <4>2
        <5> QED  BY <1>10, <4>2, <5>1
      <4> QED  BY <4>1, <4>2
    <3> QED  BY <3>1
  <2> QED  BY <2>1
<1>12. f = Step(f)
  <2> HIDE DEF Step
  <2> QED  BY <1>11
<1> HIDE DEF f
<1>13. f[0] = First /\ \A n \in 1..N : f[n] = Round(n, f[n - 1])
  <2> DEFINE h == Step(f)
  <2>1. \A n \in 0..N : h[n] = IF n = 0 THEN First ELSE Round(n, f[n - 1])
    OBVIOUS
  <2>2. f = h
    BY <1>12, Zenon
  <2> HIDE DEF h
  <2>3. 0 \in 0..N /\ \A n \in 1..N : n \in 0..N /\ n # 0
    BY <1>2
  <2> QED  BY <2>1, <2>2, <2>3, Zenon
<1> DEFINE P == {n \in Nat : n <= N => f[n] = Reached(n)}
<1>14. 0 \in P
  BY <1>9, <1>13
<1>15. ASSUME NEW n \in Nat, n \in P PROVE n + 1 \in P
  <2>1. ASSUME n + 1 <= N PROVE f[n + 1] = Reached(n + 1)
    <3>1. PICK m \in 1..N : m = n + 1 /\ m - 1 = n
      BY <2>1
    <3> QED  BY <1>10, <1>13, <1>15, <2>1, <3>1
  <2> QED  BY <2>1
<1> HIDE DEF P
<1>16. N \in P
  BY <1>2, <1>14, <1>15, NatSetInduction
<1>17. f[N] = Reached(N)
  BY <1>2, <1>16 DEF P
<1>18. /\ Bad(N) => f[N].result = Throws
       /\ ~Bad(N) => f[N].result = g[N]
  <2> HIDE DEF Bad, Broken, N
  <2> QED  BY <1>17 DEF Reached
<1>19. Bad(N) <=> \E i \in SplunkRead(docs) : docs[i] = "nonumber"
  BY <1>2 DEF SplunkRead
<1>20. [n \in DOMAIN g[N] |-> g[N][n].doc] = InOrder(K, N)
  <2> DEFINE es == InOrder(K, N)
  <2>1. es = FlattenSeq(Positions(K, N))
    BY DEF InOrder, Positions
  <2> HIDE DEF K, N, T, R, t, es
  <2>2. Alike(es, g[N], T, K, R)
    <3>1. Alike(FlattenSeq(Positions(K, N)), FlattenSeq(Chosen(T, K, N)), T, K, R)
      BY <1>2, <1>3, ChosenInOrder, Zenon
    <3> QED  BY <1>6, <2>1, <3>1, Zenon DEF t
  <2>3. PICK out \in Seq(R) : out = g[N]
    BY <2>2 DEF Alike
  <2>4. DOMAIN out = 1..Len(es) /\ es \in Seq(K) /\ DOMAIN es = 1..Len(es)
    BY <2>2, <2>3 DEF Alike
  <2>5. ASSUME NEW n \in 1..Len(es) PROVE out[n].doc = es[n]
    <3>1. es[n] \in K /\ out[n] = T[es[n]]
      BY <2>2, <2>3 DEF Alike
    <3>2. out[n] = SplunkLine(docs, es[n])
      BY <1>2, <1>3, <3>1
    <3> QED  BY <3>2 DEF SplunkLine
  <2>6. es = [n \in 1..Len(es) |-> es[n]]
    BY <2>4
  <2>7. [n \in DOMAIN out |-> out[n].doc] = es
    BY <2>4, <2>5, <2>6
  <2> QED  BY <2>3, <2>7 DEF es
<1> QED  BY <1>1, <1>18, <1>19, <1>20, Zenon

-----------------------------------------------------------------------------
\* The labels that j samples of a series leave in its metric.
LabelsTimes(series, j) == [l \in Labels |-> IF l \in series.labels \ {"prometheus_replica"} THEN j ELSE 0]

\* The labels of a metric after j samples.
LEMMA LabelsAfter ==
  ASSUME NEW series, series.samples \in Nat, NEW j \in 0..series.samples
  PROVE  labels_after(series, NoLabels, j) = LabelsTimes(series, j)
<1> DEFINE N == series.samples
           Step(h) == [n \in 0..N |-> IF n = 0 THEN NoLabels ELSE add_labels(series, h[n - 1])]
           f == CHOOSE h : h = Step(h)
<1>0. N \in Nat
  OBVIOUS
<1>1. labels_after(series, NoLabels, j) = f[j]
  BY DEF labels_after
<1>2. NoLabels = LabelsTimes(series, 0)
  BY DEF NoLabels, LabelsTimes
<1>3. ASSUME NEW n \in 1..N PROVE LabelsTimes(series, n) = add_labels(series, LabelsTimes(series, n - 1))
  <2>1. ASSUME NEW l \in Labels
        PROVE  LabelsTimes(series, n)[l]
                 = LabelsTimes(series, n - 1)[l] + IF l \in series.labels /\ l # "prometheus_replica" THEN 1 ELSE 0
    BY <1>0 DEF LabelsTimes
  <2>2. LabelsTimes(series, n) = [l \in Labels |-> LabelsTimes(series, n)[l]]
    BY DEF LabelsTimes
  <2> QED  BY <2>1, <2>2 DEF add_labels
<1>4. \E h : h = Step(h)
  <2> DEFINE h == [n \in 0..N |-> LabelsTimes(series, n)]
  <2>1. h = Step(h)
    <3>1. ASSUME NEW n \in 0..N PROVE h[n] = Step(h)[n]
      <4>1. CASE n = 0
        BY <1>2, <4>1
      <4>2. CASE n # 0
        <5>1. n \in 1..N /\ n - 1 \in 0..N
          BY <1>0, <4>2
        <5> QED  BY <1>3, <4>2, <5>1
      <4> QED  BY <4>1, <4>2
    <3> QED  BY <3>1
  <2> QED  BY <2>1
<1>5. f = Step(f)
  <2> HIDE DEF Step
  <2> QED  BY <1>4
<1> HIDE DEF f
<1>6. f[0] = NoLabels /\ \A n \in 1..N : f[n] = add_labels(series, f[n - 1])
  <2> DEFINE h == Step(f)
  <2>1. \A n \in 0..N : h[n] = IF n = 0 THEN NoLabels ELSE add_labels(series, f[n - 1])
    OBVIOUS
  <2>2. f = h
    BY <1>5, Zenon
  <2> HIDE DEF h
  <2>3. 0 \in 0..N /\ \A n \in 1..N : n \in 0..N /\ n # 0
    BY <1>0
  <2> QED  BY <2>1, <2>2, <2>3, Zenon
<1> DEFINE P == {n \in Nat : n <= N => f[n] = LabelsTimes(series, n)}
<1>7. 0 \in P
  BY <1>2, <1>6
<1>8. ASSUME NEW n \in Nat, n \in P PROVE n + 1 \in P
  <2>1. ASSUME n + 1 <= N PROVE f[n + 1] = LabelsTimes(series, n + 1)
    <3>1. PICK m \in 1..N : m = n + 1 /\ m - 1 = n
      BY <2>1
    <3> QED  BY <1>3, <1>6, <1>8, <2>1, <3>1
  <2> QED  BY <2>1
<1> HIDE DEF P
<1>9. j \in P
  BY <1>0, <1>7, <1>8, NatSetInduction
<1> QED  BY <1>0, <1>1, <1>9 DEF P

SampleMetric(w, at) == [series |-> at[1], sample |-> at[2], copies |-> LabelsTimes(w[at[1]], at[2])]

\* The metric of a sample has the labels of its series.
LEMMA SampleCarries ==
  ASSUME NEW w, NEW i \in DOMAIN w, w[i].labels \subseteq Labels, NEW j \in Nat \ {0}
  PROVE  SampleIsOwn(SampleMetric(w, <<i, j>>), w[i], <<i, j>>)
<1> DEFINE m == SampleMetric(w, <<i, j>>)
<1>1. m.series = i /\ m.sample = j /\ m.copies = LabelsTimes(w[i], j)
  BY DEF SampleMetric
<1> HIDE DEF m
<1>2. ASSUME NEW l \in Labels
      PROVE  m.copies[l] = IF l \in w[i].labels \ {"prometheus_replica"} THEN j ELSE 0
  BY <1>1 DEF LabelsTimes
<1>3. \A l \in Labels : m.copies[l] > 0 <=> l \in w[i].labels \ {"prometheus_replica"}
  BY <1>2
<1>4. {l \in Labels : m.copies[l] > 0} = w[i].labels \ {"prometheus_replica"}
  BY <1>3, Zenon
<1>5. j = 1 => \A l \in Labels : m.copies[l] <= 1
  BY <1>2
<1> QED  BY <1>1, <1>4, <1>5 DEF SampleIsOwn, m

\* Remote writes: what MetricsAreOwn says of them, for any request.
LEMMA WritesInOrder ==
  ASSUME NEW W, NEW w \in Seq(W),
         \A i \in DOMAIN w : w[i].samples \in Nat /\ w[i].labels \subseteq Labels
  PROVE  LET out == write_metrics(w)
             ats == SamplesOf(w)
         IN /\ Len(out) = Len(ats)
            /\ \A n \in DOMAIN ats : SampleIsOwn(out[n], w[ats[n][1]], ats[n])
<1> DEFINE N == Len(w)
           size(i) == IF w[i].named THEN w[i].samples ELSE 0
           P == {<<i, j>> : i \in 1..N, j \in Nat \ {0}}
           T == [at \in P |-> SampleMetric(w, at)]
           R == {T[at] : at \in P}
           u == [i \in 1..N |-> [j \in 1..size(i) |-> <<i, j>>]]
           t == [i \in 1..N |-> write_samples(i, w[i], NoLabels)]
           out == write_metrics(w)
           ats == SamplesOf(w)
<1>1. N \in Nat /\ DOMAIN w = 1..N /\ \A i \in 1..N : size(i) \in Nat
  OBVIOUS
<1>2. out = FlattenSeq(t) /\ ats = FlattenSeq(u)
  BY <1>1, Zenon DEF write_metrics, SamplesOf
<1>3. ASSUME NEW i \in 1..N
      PROVE  write_samples(i, w[i], NoLabels) = [j \in 1..size(i) |-> T[<<i, j>>]]
  <2>1. PICK sr : sr = w[i] /\ sr.samples \in Nat
    BY <1>1
  <2>2. \A j \in 1..sr.samples : labels_after(sr, NoLabels, j) = LabelsTimes(sr, j)
    <3>1. \A j \in 1..sr.samples : j \in 0..sr.samples
      BY <2>1
    <3> QED  BY <2>1, <3>1, LabelsAfter
  <2>3. \A j \in Nat \ {0} : T[<<i, j>>] = [series |-> i, sample |-> j, copies |-> LabelsTimes(sr, j)]
    BY <2>1 DEF SampleMetric
  <2> HIDE DEF T
  <2>4. CASE sr.named
    <3>1. size(i) = sr.samples
      BY <2>1, <2>4
    <3>2. write_samples(i, sr, NoLabels) = [j \in 1..sr.samples |-> T[<<i, j>>]]
      <4>1. \A j \in 1..sr.samples : j \in Nat \ {0}
        BY <2>1
      <4> QED  BY <2>2, <2>3, <2>4, <4>1 DEF write_samples
    <3> QED  BY <2>1, <3>1, <3>2
  <2>5. CASE ~sr.named
    <3>1. write_samples(i, sr, NoLabels) = << >>
      BY <2>5 DEF write_samples
    <3>2. size(i) = 0
      BY <2>1, <2>5
    <3> HIDE DEF size
    <3>3. [j \in 1..size(i) |-> T[<<i, j>>]] = << >>
      BY <3>2
    <3> QED  BY <2>1, <3>1, <3>3
  <2> QED  BY <2>4, <2>5
<1>4. ASSUME NEW i \in 1..N
      PROVE  Alike([j \in 1..size(i) |-> <<i, j>>], [j \in 1..size(i) |-> T[<<i, j>>]], T, P, R)
  <2>1. PICK k \in Nat : k = size(i)
    BY <1>1
  <2>2. \A j \in 1..k : <<i, j>> \in P /\ T[<<i, j>>] \in R
    BY <2>1
  <2> HIDE DEF T, P, R, size
  <2>3. PICK a : a = [j \in 1..k |-> <<i, j>>]
    OBVIOUS
  <2>4. PICK b : b = [j \in 1..k |-> T[<<i, j>>]]
    OBVIOUS
  <2>5. a \in Seq(P) /\ b \in Seq(R) /\ Len(a) = k /\ Len(b) = k
    BY <2>2, <2>3, <2>4
  <2>6. \A j \in 1..k : b[j] = T[a[j]]
    BY <2>3, <2>4
  <2> QED  BY <2>1, <2>3, <2>4, <2>5, <2>6 DEF Alike
<1>5. \A i \in 1..N : u[i] = [j \in 1..size(i) |-> <<i, j>>] /\ t[i] = write_samples(i, w[i], NoLabels)
  OBVIOUS
<1>6. DOMAIN u = 1..N /\ DOMAIN t = 1..N
  OBVIOUS
<1> HIDE DEF T, P, R, u, t, size
<1>7. \A i \in 1..N : Alike(u[i], t[i], T, P, R)
  BY <1>3, <1>4, <1>5, Zenon
<1>8. u \in Seq(Seq(P)) /\ t \in Seq(Seq(R)) /\ Len(u) = N /\ Len(t) = N
  <2>1. PICK A : A = Seq(P)
    OBVIOUS
  <2>2. PICK B : B = Seq(R)
    OBVIOUS
  <2>3. \A i \in 1..N : u[i] \in A /\ t[i] \in B
    BY <1>7, <2>1, <2>2, Zenon DEF Alike
  <2>4. u = [i \in 1..N |-> u[i]] /\ t = [i \in 1..N |-> t[i]]
    BY DEF u, t
  <2>5. u \in [1..N -> A] /\ t \in [1..N -> B]
    BY <2>3, <2>4, Zenon
  <2>6. u \in Seq(A) /\ t \in Seq(B) /\ Len(u) = N /\ Len(t) = N
    <3>1. PICK k \in Nat : k = N
      BY <1>1
    <3>2. u \in [1..k -> A] /\ t \in [1..k -> B]
      BY <2>5, <3>1
    <3> HIDE DEF N
    <3>3. u \in Seq(A) /\ t \in Seq(B) /\ Len(u) = k /\ Len(t) = k
      BY <3>2
    <3> QED  BY <3>1, <3>3
  <2> QED  BY <2>1, <2>2, <2>6
<1>9. Alike(ats, out, T, P, R)
  <2>1. Alike(FlattenSeq(u), FlattenSeq(t), T, P, R)
    BY <1>7, <1>8, AlikeJoined
  <2> QED  BY <1>2, <2>1, Zenon
<1> HIDE DEF out, ats
<1>10. Len(out) = Len(ats)
  BY <1>9 DEF Alike
<1>11. ASSUME NEW n \in DOMAIN ats PROVE SampleIsOwn(out[n], w[ats[n][1]], ats[n])
  <2>1. ats[n] \in P /\ out[n] = T[ats[n]]
    BY <1>9 DEF Alike
  <2>2. PICK i \in 1..N, j \in Nat \ {0} : ats[n] = <<i, j>>
    BY <2>1 DEF P
  <2>3. out[n] = SampleMetric(w, ats[n])
    BY <2>1 DEF T
  <2>4. ats[n][1] = i
    BY <2>2
  <2>5. SampleIsOwn(SampleMetric(w, <<i, j>>), w[i], <<i, j>>)
    BY <1>1, SampleCarries
  <2> QED  BY <2>2, <2>3, <2>4, <2>5, Zenon
<1> QED  BY <1>10, <1>11 DEF out, ats

-----------------------------------------------------------------------------
(* The parsers: what they return, for every input *)

\* What a parser returned is what its loop computes for the input it was given.
Parsed ==
  /\ input \in Inputs
  /\ Done("tags") => output.value = match(input.arg)
  /\ Done("labels") => output.value = parse_bb_metrics_labels(Render(input.arg.labels), input.arg.instance)
  /\ Done("lines") => output.value = parse_lines(input.arg)
  /\ Done("series") => output.value = parse_datadog_series(input.arg)
  /\ Done("checks") => output.value = parse_datadog_check_run(input.arg)
  /\ Done("splunk") => output.value = parse_splunk_event(input.arg)
  /\ Done("write") => output.value = write_metrics(input.arg)

\* No parser has returned yet.
LEMMA ParsedInit == ParserInit => Parsed
BY DEF ParserInit, Parsed, None, Done

\* A parser is run once, on its own input.
LEMMA ParsedNext == Parsed /\ [ParserNext]_parserVars => Parsed'
<1> SUFFICES ASSUME Parsed, [ParserNext]_parserVars PROVE Parsed'
  OBVIOUS
<1>1. CASE UNCHANGED parserVars
  BY <1>1 DEF Parsed, Done, parserVars
<1>2. CASE Asked("tags") /\ Returns(match(input.arg))
  <2>1. input' = input /\ input.of = "tags" /\ output'.value = match(input.arg)
    BY <1>2 DEF Asked, Returns
  <2>2. /\ ~Done("labels")' /\ ~Done("lines")' /\ ~Done("series")'
        /\ ~Done("checks")' /\ ~Done("splunk")' /\ ~Done("write")'
    BY <2>1 DEF Done
  <2> QED  BY <2>1, <2>2, Zenon DEF Parsed
<1>3. CASE Asked("labels") /\ Returns(parse_bb_metrics_labels(Render(input.arg.labels), input.arg.instance))
  <2>1. /\ input' = input /\ input.of = "labels"
        /\ output'.value = parse_bb_metrics_labels(Render(input.arg.labels), input.arg.instance)
    BY <1>3 DEF Asked, Returns
  <2>2. /\ ~Done("tags")' /\ ~Done("lines")' /\ ~Done("series")'
        /\ ~Done("checks")' /\ ~Done("splunk")' /\ ~Done("write")'
    BY <2>1 DEF Done
  <2> QED  BY <2>1, <2>2, Zenon DEF Parsed
<1>4. CASE Asked("lines") /\ Returns(parse_lines(input.arg))
  <2>1. input' = input /\ input.of = "lines" /\ output'.value = parse_lines(input.arg)
    BY <1>4 DEF Asked, Returns
  <2>2. /\ ~Done("tags")' /\ ~Done("labels")' /\ ~Done("series")'
        /\ ~Done("checks")' /\ ~Done("splunk")' /\ ~Done("write")'
    BY <2>1 DEF Done
  <2> QED  BY <2>1, <2>2, Zenon DEF Parsed
<1>5. CASE Asked("series") /\ Returns(parse_datadog_series(input.arg))
  <2>1. input' = input /\ input.of = "series" /\ output'.value = parse_datadog_series(input.arg)
    BY <1>5 DEF Asked, Returns
  <2>2. /\ ~Done("tags")' /\ ~Done("labels")' /\ ~Done("lines")'
        /\ ~Done("checks")' /\ ~Done("splunk")' /\ ~Done("write")'
    BY <2>1 DEF Done
  <2> QED  BY <2>1, <2>2, Zenon DEF Parsed
<1>6. CASE Asked("checks") /\ Returns(parse_datadog_check_run(input.arg))
  <2>1. input' = input /\ input.of = "checks" /\ output'.value = parse_datadog_check_run(input.arg)
    BY <1>6 DEF Asked, Returns
  <2>2. /\ ~Done("tags")' /\ ~Done("labels")' /\ ~Done("lines")'
        /\ ~Done("series")' /\ ~Done("splunk")' /\ ~Done("write")'
    BY <2>1 DEF Done
  <2> QED  BY <2>1, <2>2, Zenon DEF Parsed
<1>7. CASE Asked("splunk") /\ Returns(parse_splunk_event(input.arg))
  <2>1. input' = input /\ input.of = "splunk" /\ output'.value = parse_splunk_event(input.arg)
    BY <1>7 DEF Asked, Returns
  <2>2. /\ ~Done("tags")' /\ ~Done("labels")' /\ ~Done("lines")'
        /\ ~Done("series")' /\ ~Done("checks")' /\ ~Done("write")'
    BY <2>1 DEF Done
  <2> QED  BY <2>1, <2>2, Zenon DEF Parsed
<1>8. CASE Asked("write") /\ Returns(write_metrics(input.arg))
  <2>1. input' = input /\ input.of = "write" /\ output'.value = write_metrics(input.arg)
    BY <1>8 DEF Asked, Returns
  <2>2. /\ ~Done("tags")' /\ ~Done("labels")' /\ ~Done("lines")'
        /\ ~Done("series")' /\ ~Done("checks")' /\ ~Done("splunk")'
    BY <2>1 DEF Done
  <2> QED  BY <2>1, <2>2, Zenon DEF Parsed
<1> QED  BY <1>1, <1>2, <1>3, <1>4, <1>5, <1>6, <1>7, <1>8, Zenon DEF ParserNext

\* A bounded sequence is a sequence.
LEMMA BoundedSequences ==
  ASSUME NEW S, NEW n, NEW s \in SeqOf(S, n)
  PROVE  s \in Seq(S)
<1>1. PICK m \in 0..n : s \in [1..m -> S]
  BY DEF SeqOf
<1>2. m \in Nat
  OBVIOUS
<1> QED  BY <1>1, <1>2

\* The argument of a parser is one of its inputs.
LEMMA Arguments ==
  ASSUME input \in Inputs
  PROVE  /\ input.of = "tags" => input.arg \in KvText
         /\ input.of = "labels" => input.arg \in LabelTexts /\ input.arg.labels \in LabelLists
         /\ input.of = "lines" => input.arg \in LineTexts
         /\ input.of = "series" => input.arg \in SeriesBodies
         /\ input.of = "checks" => input.arg \in CheckRuns
         /\ input.of = "splunk" => input.arg \in Docs
         /\ input.of = "write" => input.arg \in Writes
BY DEF Inputs, LabelTexts

\* The labels that are sent have a key and no quote in it or in the value.
LEMMA LabelsWritten ==
  ASSUME NEW ls \in LabelLists
  PROVE  ls \in Seq(WrittenLabels({"k", "l", "a", "SP", "COMMA", "="}))
<1> DEFINE C == {"k", "l", "a", "SP", "COMMA", "="}
           L == [key : {<<"k">>, <<"l">>}, val : LabelValues]
<1>1. ls \in Seq(L)
  <2> HIDE DEF L
  <2>1. ls \in SeqOf(L, MaxLabels)
    BY DEF LabelLists, L
  <2> QED  BY <2>1, BoundedSequences
<1>2. ASSUME NEW l \in L PROVE l \in WrittenLabels(C)
  <2>1. l.val \in Seq({"a", "SP", "COMMA", "="})
    BY BoundedSequences DEF LabelValues
  <2>2. l.val \in Seq(C \ {"QUOTE"})
    <3>1. {"a", "SP", "COMMA", "="} \subseteq C \ {"QUOTE"}
      OBVIOUS
    <3> HIDE DEF C
    <3> QED  BY <2>1, <3>1
  <2>3. l.key \in Seq(C \ {"=", "COMMA"}) \ {<< >>}
    <3>1. "k" \in C \ {"=", "COMMA"} /\ "l" \in C \ {"=", "COMMA"}
      OBVIOUS
    <3>2. l.key = <<"k">> \/ l.key = <<"l">>
      OBVIOUS
    <3> DEFINE K == C \ {"=", "COMMA"}
    <3> HIDE DEF C, K
    <3>3. <<"k">> \in Seq(K) /\ <<"l">> \in Seq(K) /\ <<"k">> # << >> /\ <<"l">> # << >>
      BY <3>1 DEF K
    <3> QED  BY <3>2, <3>3 DEF K
  <2>4. l = [key |-> l.key, val |-> l.val]
    OBVIOUS
  <2> HIDE DEF C, L
  <2> QED  BY <2>2, <2>3, <2>4 DEF WrittenLabels
<1> HIDE DEF L, C
<1>3. L \subseteq WrittenLabels(C)
  BY <1>2
<1> QED  BY <1>1, <1>3 DEF C

\* kv_filter::match, parse_bb_metrics_labels and the loop over the lines of
\* parse_prometheus_line_format_2_bb_metrics: the tags of any ddtags text are found,
\* each once and in order; so are the metrics of a text in line format, of any
\* length, none of whose lines is indented or lacks its name; and any number of
\* labels, each as often as it was sent, if no value holds a comma or begins with a
\* space and only the first and the last may be empty.
THEOREM TextIsParsed == ParserSpec => []TextIsRead
<1>1. Parsed => TextIsRead
  <2> SUFFICES ASSUME Parsed PROVE TextIsRead
    OBVIOUS
  <2>0. input \in Inputs
    BY DEF Parsed
  <2>1. TagsAreFound
    <3> SUFFICES ASSUME Done("tags")
                 PROVE  LET cs == InOrder(KeyColons(input.arg), Len(input.arg)) IN
                        output.value = [i \in DOMAIN cs |-> [key |-> Before(input.arg, cs[i]),
                                                             val |-> After(input.arg, cs[i])]]
      BY Zenon DEF TagsAreFound
    <3>1. output.value = match(input.arg) /\ input.arg \in KvText
      BY <2>0, Arguments, Zenon DEF Parsed, Done
    <3>2. PICK S : input.arg \in Seq(S)
      BY <3>1, BoundedSequences DEF KvText
    <3> QED  BY <3>1, <3>2, TagsInOrder, Zenon
  <2>2. LabelsAreRead
    <3> SUFFICES ASSUME Done("labels"), \A i \in DOMAIN input.arg.labels : Readable(input.arg.labels, i)
                 PROVE  output.value = AsBag(input.arg.labels \o Identity(input.arg.instance))
      BY Zenon DEF LabelsAreRead
    <3>1. /\ output.value = parse_bb_metrics_labels(Render(input.arg.labels), input.arg.instance)
          /\ input.arg.labels \in LabelLists
      BY <2>0, Arguments, Zenon DEF Parsed, Done
    <3>2. split_labels(Render(input.arg.labels)) = input.arg.labels
      BY <3>1, LabelsWritten, LabelsFound, Zenon
    <3> QED  BY <3>1, <3>2, Zenon DEF parse_bb_metrics_labels
  <2>3. LinesAreRead
    <3> SUFFICES ASSUME Done("lines"), \A e \in At(input.arg, {"LF"}) : Plain(LineTo(input.arg, e))
                 PROVE  LET es == InOrder(MetricEnds(input.arg), Len(input.arg)) IN
                        /\ Len(output.value) = Len(es)
                        /\ \A i \in DOMAIN es : /\ ReadAs(output.value[i], LineTo(input.arg, es[i]))
                                                /\ output.value[i].name # << >>
      BY Zenon DEF LinesAreRead, MetricEnds
    <3>1. output.value = parse_lines(input.arg) /\ input.arg \in LineTexts
      BY <2>0, Arguments, Zenon DEF Parsed, Done
    <3>2. PICK S : input.arg \in Seq(S)
      BY <3>1, BoundedSequences DEF LineTexts
    <3>3. \A e \in MetricEnds(input.arg) : Plain(LineTo(input.arg, e))
      BY Zenon DEF MetricEnds
    <3> QED  BY <3>1, <3>2, <3>3, LinesInOrder, Zenon
  <2> QED  BY <2>1, <2>2, <2>3 DEF TextIsRead
<1> QED  BY <1>1, ParsedInit, ParsedNext, PTL DEF ParserSpec

\* parse_datadog_series, parse_datadog_check_run, parse_splunk_event and the remote
\* write's loop, for bodies of any number of series, points, checks, documents and
\* samples: a check's metric has the status and the tag of its check if there is
\* one and none else; a point's time and value come from its own series; a sample
\* carries the labels of its own series, all of them but the replica's and no
\* others.
THEOREM RecordsAreKept == ParserSpec => []RecordsAreOwn
<1>1. Parsed => RecordsAreOwn
  <2> SUFFICES ASSUME Parsed PROVE RecordsAreOwn
    OBVIOUS
  <2>0. input \in Inputs
    BY DEF Parsed
  <2>1. PointsStayInSeries
    <3> SUFFICES ASSUME Done("series")
                 PROVE  output.value = FlattenSeq([i \in DOMAIN input.arg |->
                          LET ps == input.arg[i].points
                              ks == IF input.arg[i].named THEN InOrder(Pairs(ps), Len(ps)) ELSE << >>
                          IN [n \in DOMAIN ks |-> [series |-> i, ts |-> LastUpTo(Timed(ps), ks[n]),
                                                   val |-> LastUpTo(Valued(ps), ks[n])]]])
      BY Zenon DEF PointsStayInSeries
    <3>1. output.value = parse_datadog_series(input.arg) /\ input.arg \in SeriesBodies
      BY <2>0, Arguments, Zenon DEF Parsed, Done
    <3> DEFINE B == SeqOf(Points, MaxPoints)
               W == [named : BOOLEAN, points : B]
    <3>2. input.arg \in Seq(W)
      <4> HIDE DEF W
      <4>1. input.arg \in SeqOf(W, MaxSeries)
        BY <3>1 DEF SeriesBodies, W
      <4> QED  BY <4>1, BoundedSequences
    <3>3. \A i \in DOMAIN input.arg : input.arg[i].points \in B
      <4> HIDE DEF B, W
      <4>1. ASSUME NEW a \in Seq(W), NEW i \in DOMAIN a PROVE a[i] \in W
        OBVIOUS
      <4>2. \A i \in DOMAIN input.arg : input.arg[i] \in W
        BY <3>2, <4>1, Zenon
      <4>3. ASSUME NEW w \in W PROVE w.points \in B
        BY DEF W
      <4> QED  BY <4>2, <4>3, Zenon
    <3>4. \A i \in DOMAIN input.arg : input.arg[i].points \in Seq(Points)
      BY <3>3, BoundedSequences
    <3> QED  BY <3>1, <3>4, SeriesInOrder, Zenon
  <2>2. SplunkEventsAreRead
    <3> SUFFICES ASSUME Done("splunk")
                 PROVE  IF \E i \in SplunkRead(input.arg) : input.arg[i] = "nonumber"
                        THEN output.value = Throws
                        ELSE [n \in DOMAIN output.value |-> output.value[n].doc]
                               = InOrder(SplunkEvents(input.arg), Len(input.arg))
      BY Zenon DEF SplunkEventsAreRead, SplunkEvents, SplunkRead
    <3>1. output.value = parse_splunk_event(input.arg) /\ input.arg \in Docs
      BY <2>0, Arguments, Zenon DEF Parsed, Done
    <3>2. PICK S : input.arg \in Seq(S)
      BY <3>1, BoundedSequences DEF Docs
    <3> QED  BY <3>1, <3>2, SplunkInOrder, Zenon
  <2>3. MetricsAreOwn
    <3>1. ASSUME Done("checks")
          PROVE  LET named == InOrder({i \in DOMAIN input.arg : input.arg[i].named}, Len(input.arg))
                 IN /\ Len(output.value) = Len(named)
                    /\ \A n \in DOMAIN named :
                         CheckIsOwn(output.value[n], input.arg[named[n]], named[n])
      <4>1. output.value = parse_datadog_check_run(input.arg) /\ input.arg \in CheckRuns
        BY <2>0, <3>1, Arguments, Zenon DEF Parsed, Done
      <4>2. PICK S : input.arg \in Seq(S)
        BY <4>1, BoundedSequences DEF CheckRuns
      <4> QED  BY <4>1, <4>2, ChecksInOrder, Zenon
    <3>2. ASSUME Done("write")
          PROVE  /\ Len(output.value) = Len(SamplesOf(input.arg))
                 /\ \A n \in DOMAIN SamplesOf(input.arg) :
                      SampleIsOwn(output.value[n], input.arg[SamplesOf(input.arg)[n][1]],
                                  SamplesOf(input.arg)[n])
      <4>1. output.value = write_metrics(input.arg) /\ input.arg \in Writes
        BY <2>0, <3>2, Arguments, Zenon DEF Parsed, Done
      <4> DEFINE W == [named : BOOLEAN, labels : SUBSET Labels, samples : 0..MaxPoints]
      <4>2. input.arg \in Seq(W)
        <5> HIDE DEF W
        <5>1. input.arg \in SeqOf(W, MaxSeries)
          BY <4>1 DEF Writes, W
        <5> QED  BY <5>1, BoundedSequences
      <4>3. \A i \in DOMAIN input.arg :
              input.arg[i].samples \in Nat /\ input.arg[i].labels \subseteq Labels
        <5> HIDE DEF W
        <5>1. ASSUME NEW a \in Seq(W), NEW i \in DOMAIN a PROVE a[i] \in W
          OBVIOUS
        <5>2. \A i \in DOMAIN input.arg : input.arg[i] \in W
          BY <4>2, <5>1, Zenon
        <5>3. ASSUME NEW w \in W PROVE w.samples \in Nat /\ w.labels \subseteq Labels
          BY DEF W
        <5> QED  BY <5>2, <5>3, Zenon
      <4> HIDE DEF W
      <4> QED  BY <4>1, <4>2, <4>3, WritesInOrder, Zenon
    <3> QED  BY <3>1, <3>2, Zenon DEF MetricsAreOwn
  <2> QED  BY <2>1, <2>2, <2>3 DEF RecordsAreOwn
<1> QED  BY <1>1, ParsedInit, ParsedNext, PTL DEF ParserSpec
=============================================================================
