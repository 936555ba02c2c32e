---------------------------- MODULE SequenceFacts ----------------------------
(***************************************************************************)
(* Facts about the sequences that model the queues of the sinks: which     *)
(* elements an operation on a queue adds or takes away, and that it keeps  *)
(* the elements apart.  They are stated for any set of elements and cited  *)
(* by the proofs about the components.                                     *)
(***************************************************************************)
EXTENDS SequencesExt, Integers, SequenceTheorems, FiniteSetTheorems, WellFoundedInduction, TLAPS

\* The elements of a queue are those at its positions.
LEMMA ElementsAt ==
  ASSUME NEW S, NEW s \in Seq(S)
  PROVE  /\ ToSet(s) \subseteq S
         /\ \A x : x \in ToSet(s) <=> \E i \in 1..Len(s) : s[i] = x
BY DEF ToSet

\* push_back adds one element at the back.
LEMMA ElementsOfAppend ==
  ASSUME NEW S, NEW s \in Seq(S), NEW x \in S
  PROVE  /\ Append(s, x) \in Seq(S)
         /\ ToSet(Append(s, x)) = ToSet(s) \cup {x}
         /\ IsInjective(s) /\ x \notin ToSet(s) => IsInjective(Append(s, x))
<1>1. /\ Append(s, x) \in Seq(S) /\ Len(Append(s, x)) = Len(s) + 1
      /\ \A i \in 1..Len(s) : Append(s, x)[i] = s[i]
      /\ Append(s, x)[Len(s) + 1] = x
  OBVIOUS
<1>2. ToSet(Append(s, x)) = ToSet(s) \cup {x}
  BY <1>1 DEF ToSet
<1>3. ASSUME IsInjective(s), x \notin ToSet(s) PROVE IsInjective(Append(s, x))
  BY <1>1, <1>3 DEF ToSet, IsInjective
<1> QED  BY <1>1, <1>2, <1>3

\* pop_front takes the first element and leaves the others.
LEMMA ElementsOfTail ==
  ASSUME NEW S, NEW s \in Seq(S), s # << >>
  PROVE  /\ Head(s) \in S /\ Tail(s) \in Seq(S)
         /\ Len(Tail(s)) = Len(s) - 1
         /\ ToSet(s) = {Head(s)} \cup ToSet(Tail(s))
         /\ IsInjective(s) => IsInjective(Tail(s)) /\ Head(s) \notin ToSet(Tail(s))
<1>1. /\ Head(s) = s[1] /\ Tail(s) \in Seq(S) /\ Len(Tail(s)) = Len(s) - 1 /\ Len(s) \in Nat \ {0}
      /\ \A i \in 1..Len(Tail(s)) : Tail(s)[i] = s[i + 1]
  OBVIOUS
<1>2. ToSet(s) = {Head(s)} \cup ToSet(Tail(s))
  <2>1. ASSUME NEW i \in 1..Len(s), i # 1 PROVE i - 1 \in 1..Len(Tail(s)) /\ s[i] = Tail(s)[i - 1]
    BY <1>1, <2>1
  <2>2. ASSUME NEW i \in 1..Len(Tail(s)) PROVE i + 1 \in 1..Len(s) /\ s[i + 1] = Tail(s)[i]
    BY <1>1
  <2>3. ASSUME NEW x \in ToSet(s) PROVE x \in {Head(s)} \cup ToSet(Tail(s))
    <3>1. PICK i \in 1..Len(s) : s[i] = x
      BY ElementsAt
    <3> QED  BY <1>1, <2>1, <3>1, ElementsAt
  <2>4. ASSUME NEW x \in ToSet(Tail(s)) PROVE x \in ToSet(s)
    <3>0. Tail(s) \in Seq(S)
      BY <1>1
    <3>1. PICK i \in 1..Len(Tail(s)) : Tail(s)[i] = x
      BY <3>0, ElementsAt, Zenon
    <3> QED  BY <1>1, <2>2, <3>1, ElementsAt
  <2>5. Head(s) \in ToSet(s)
    BY <1>1, ElementsAt
  <2> QED  BY <2>3, <2>4, <2>5
<1>3. ASSUME IsInjective(s) PROVE IsInjective(Tail(s)) /\ Head(s) \notin ToSet(Tail(s))
  BY <1>1, <1>3 DEF ToSet, IsInjective
<1> QED  BY <1>1, <1>2, <1>3

\* Moving all of one queue behind another.
LEMMA ElementsOfConcat ==
  ASSUME NEW S, NEW s \in Seq(S), NEW t \in Seq(S)
  PROVE  /\ s \o t \in Seq(S) /\ Len(s \o t) = Len(s) + Len(t)
         /\ ToSet(s \o t) = ToSet(s) \cup ToSet(t)
         /\ IsInjective(s) /\ IsInjective(t) /\ ToSet(s) \cap ToSet(t) = {} => IsInjective(s \o t)
<1>1. /\ s \o t \in Seq(S) /\ Len(s \o t) = Len(s) + Len(t) /\ Len(s) \in Nat /\ Len(t) \in Nat
      /\ \A i \in 1..Len(s) : (s \o t)[i] = s[i]
      /\ \A i \in 1..Len(s \o t) : i \notin 1..Len(s) => i - Len(s) \in 1..Len(t) /\ (s \o t)[i] = t[i - Len(s)]
  BY ConcatProperties
<1>2. \A i \in 1..Len(t) : i + Len(s) \in 1..Len(s \o t) /\ (s \o t)[i + Len(s)] = t[i]
  BY <1>1
<1>3. ToSet(s \o t) = ToSet(s) \cup ToSet(t)
  <2>1. ASSUME NEW x \in ToSet(s) PROVE x \in ToSet(s \o t)
    BY <1>1 DEF ToSet
  <2>2. ASSUME NEW x \in ToSet(t) PROVE x \in ToSet(s \o t)
    <3>1. PICK i \in 1..Len(t) : t[i] = x
      BY DEF ToSet
    <3> QED  BY <1>1, <1>2, <3>1, ElementsAt
  <2>3. ASSUME NEW x \in ToSet(s \o t) PROVE x \in ToSet(s) \cup ToSet(t)
    <3>1. PICK i \in 1..Len(s \o t) : (s \o t)[i] = x
      BY <1>1, ElementsAt
    <3>2. CASE i \in 1..Len(s)
      BY <1>1, <3>1, <3>2, ElementsAt
    <3>3. CASE i \notin 1..Len(s)
      BY <1>1, <3>1, <3>3, ElementsAt
    <3> QED  BY <3>2, <3>3
  <2> QED  BY <2>1, <2>2, <2>3
<1>4. ASSUME IsInjective(s), IsInjective(t), ToSet(s) \cap ToSet(t) = {},
             NEW i \in 1..Len(s \o t), NEW j \in 1..Len(s \o t), (s \o t)[i] = (s \o t)[j]
      PROVE  i = j
  <2>1. CASE i \in 1..Len(s) /\ j \in 1..Len(s)
    BY <1>1, <1>4, <2>1 DEF IsInjective
  <2>2. CASE i \in 1..Len(s) /\ j \notin 1..Len(s)
    BY <1>1, <1>4, <2>2, ElementsAt
  <2>3. CASE i \notin 1..Len(s) /\ j \in 1..Len(s)
    BY <1>1, <1>4, <2>3, ElementsAt
  <2>4. CASE i \notin 1..Len(s) /\ j \notin 1..Len(s)
    <3>1. i - Len(s) = j - Len(s)
      BY <1>1, <1>4, <2>4 DEF IsInjective
    <3> QED  BY <1>1, <3>1
  <2> QED  BY <2>1, <2>2, <2>3, <2>4
<1> QED  BY <1>1, <1>3, <1>4 DEF IsInjective

\* v is at place j of a queue.
Holds(s, j, v) == j \in 1..Len(s) /\ s[j] = v

\* It comes from t, which is put behind s.
HoldsBehind(s, t, j, v) == \E l \in 1..Len(t) : j = Len(s) + l /\ t[l] = v

\* What is where when a queue is put behind another.
LEMMA PlacesOfConcat ==
  ASSUME NEW S, NEW s \in Seq(S), NEW t \in Seq(S)
  PROVE  \A j, v : Holds(s \o t, j, v) <=> Holds(s, j, v) \/ HoldsBehind(s, t, j, v)
<1>1. /\ Len(s \o t) = Len(s) + Len(t) /\ Len(s) \in Nat /\ Len(t) \in Nat
      /\ \A i \in 1..Len(s) : (s \o t)[i] = s[i]
      /\ \A i \in 1..Len(t) : (s \o t)[Len(s) + i] = t[i]
  BY ConcatProperties
<1>2. ASSUME NEW j, NEW v, Holds(s \o t, j, v), j \notin 1..Len(s)
      PROVE  \E l \in 1..Len(t) : j = Len(s) + l /\ t[l] = v
  <2>1. j \in 1..(Len(s) + Len(t)) /\ (s \o t)[j] = v
    BY <1>1, <1>2 DEF Holds
  <2>2. PICK l \in 1..Len(t) : j = Len(s) + l
    <3>1. j - Len(s) \in 1..Len(t) /\ j = Len(s) + (j - Len(s))
      BY <1>1, <1>2, <2>1
    <3> QED  BY <3>1
  <2>3. t[l] = v
    BY <1>1, <2>1, <2>2
  <2> QED  BY <2>2, <2>3
<1>3. ASSUME NEW j, NEW v, Holds(s \o t, j, v), j \in 1..Len(s) PROVE Holds(s, j, v)
  BY <1>1, <1>3 DEF Holds
<1>4. ASSUME NEW j, NEW v, Holds(s, j, v) PROVE Holds(s \o t, j, v)
  <2>1. j \in 1..(Len(s) + Len(t)) /\ (s \o t)[j] = v
    BY <1>1, <1>4 DEF Holds
  <2> QED  BY <1>1, <2>1 DEF Holds
<1>5. ASSUME NEW v, NEW l \in 1..Len(t), t[l] = v PROVE Holds(s \o t, Len(s) + l, v)
  <2>1. Len(s) + l \in 1..(Len(s) + Len(t)) /\ (s \o t)[Len(s) + l] = v
    BY <1>1, <1>5
  <2> QED  BY <1>1, <2>1 DEF Holds
<1> QED  BY <1>2, <1>3, <1>4, <1>5 DEF HoldsBehind

\* Replacing one element.
LEMMA Replaced ==
  ASSUME NEW S, NEW s \in Seq(S), NEW i \in 1..Len(s), NEW e \in S, NEW t, t = [s EXCEPT ![i] = e]
  PROVE  /\ t \in Seq(S) /\ Len(t) = Len(s) /\ t[i] = e
         /\ \A j \in 1..Len(s) : j # i => t[j] = s[j]
BY ExceptSeq

\* Pushing the elements of a queue one by one on the front of another turns
\* them round: the same elements in the opposite order.
LEMMA ElementsOfReverse ==
  ASSUME NEW S, NEW s \in Seq(S)
  PROVE  /\ Reverse(s) \in Seq(S) /\ Len(Reverse(s)) = Len(s)
         /\ ToSet(Reverse(s)) = ToSet(s)
         /\ IsInjective(s) => IsInjective(Reverse(s))
<1>1. Len(s) \in Nat /\ \A i \in 1..Len(s) : Len(s) - i + 1 \in 1..Len(s) /\ s[i] \in S
  OBVIOUS
<1>2. /\ Reverse(s) \in Seq(S) /\ Len(Reverse(s)) = Len(s)
      /\ \A i \in 1..Len(s) : Reverse(s)[i] = s[Len(s) - i + 1]
  BY <1>1 DEF Reverse
<1>3. ToSet(Reverse(s)) = ToSet(s)
  <2>1. ASSUME NEW i \in 1..Len(s)
        PROVE  s[i] = Reverse(s)[Len(s) - i + 1]
    <3>1. Len(s) - (Len(s) - i + 1) + 1 = i
      BY <1>1
    <3> QED  BY <1>1, <1>2, <3>1
  <2>2. ASSUME NEW x \in ToSet(s) PROVE x \in ToSet(Reverse(s))
    <3>1. PICK i \in 1..Len(s) : s[i] = x
      BY ElementsAt
    <3> QED  BY <1>1, <1>2, <2>1, <3>1, ElementsAt
  <2>3. ASSUME NEW x \in ToSet(Reverse(s)) PROVE x \in ToSet(s)
    <3>1. PICK i \in 1..Len(s) : Reverse(s)[i] = x
      BY <1>2, ElementsAt
    <3>2. PICK j \in 1..Len(s) : Reverse(s)[i] = s[j]
      BY <1>1, <1>2, Zenon
    <3>3. s[j] = x
      BY <3>1, <3>2, Zenon
    <3> QED  BY <3>3, ElementsAt
  <2> QED  BY <2>2, <2>3
<1>4. ASSUME IsInjective(s), NEW i \in 1..Len(s), NEW j \in 1..Len(s), Reverse(s)[i] = Reverse(s)[j]
      PROVE  i = j
  <2>1. PICK k \in 1..Len(s) : k = Len(s) - i + 1 /\ Reverse(s)[i] = s[k]
    BY <1>1, <1>2, Zenon
  <2>2. PICK l \in 1..Len(s) : l = Len(s) - j + 1 /\ Reverse(s)[j] = s[l]
    BY <1>1, <1>2, Zenon
  <2>3. k = l
    <3>1. s[k] = s[l]
      BY <1>4, <2>1, <2>2, Zenon
    <3>2. DOMAIN s = 1..Len(s)
      OBVIOUS
    <3> QED  BY <1>4, <3>1, <3>2, Zenon DEF IsInjective
  <2> QED  BY <1>1, <2>1, <2>2, <2>3
<1>5. DOMAIN Reverse(s) = 1..Len(s)
  BY <1>2
<1>6. IsInjective(s) => IsInjective(Reverse(s))
  BY <1>4, <1>5 DEF IsInjective
<1> QED  BY <1>2, <1>3, <1>6

\* Cutting the first n elements off a queue.
LEMMA ElementsOfCut ==
  ASSUME NEW S, NEW s \in Seq(S), NEW n \in 0..Len(s)
  PROVE  LET cut  == { s[i] : i \in 1..n }
             rest == SubSeq(s, n + 1, Len(s)) IN
         /\ cut \subseteq S /\ rest \in Seq(S) /\ Len(rest) = Len(s) - n
         /\ ToSet(s) = cut \cup ToSet(rest)
         /\ IsInjective(s) => IsInjective(rest) /\ cut \cap ToSet(rest) = {}
<1> DEFINE cut  == { s[i] : i \in 1..n }
           rest == SubSeq(s, n + 1, Len(s))
<1>1. /\ Len(s) \in Nat /\ cut \subseteq S /\ rest \in Seq(S) /\ Len(rest) = Len(s) - n
      /\ \A i \in 1..Len(rest) : n + i \in 1..Len(s) /\ rest[i] = s[n + i]
  BY SubSeqProperties
<1>2. \A i \in 1..Len(s) : i \in 1..n \/ (i - n \in 1..Len(rest) /\ rest[i - n] = s[i])
  BY <1>1
<1> HIDE DEF rest
<1>3. ToSet(s) = cut \cup ToSet(rest)
  <2>1. ASSUME NEW x \in ToSet(s) PROVE x \in cut \cup ToSet(rest)
    <3>1. PICK i \in 1..Len(s) : s[i] = x
      BY ElementsAt
    <3> QED  BY <1>1, <1>2, <3>1, ElementsAt
  <2>2. ASSUME NEW x \in ToSet(rest) PROVE x \in ToSet(s)
    <3>1. PICK i \in 1..Len(rest) : rest[i] = x
      BY <1>1, ElementsAt
    <3> QED  BY <1>1, <3>1, ElementsAt
  <2>3. cut \subseteq ToSet(s)
    BY <1>1 DEF ToSet
  <2> QED  BY <2>1, <2>2, <2>3
<1>4. ASSUME IsInjective(s) PROVE IsInjective(rest)
  <2>1. ASSUME NEW i \in 1..Len(rest), NEW j \in 1..Len(rest), rest[i] = rest[j] PROVE i = j
    <3>1. n + i \in 1..Len(s) /\ n + j \in 1..Len(s) /\ s[n + i] = s[n + j]
      BY <1>1, <2>1
    <3>2. n + i = n + j
      BY <1>4, <3>1 DEF IsInjective
    <3> QED  BY <3>2
  <2>2. DOMAIN rest = 1..Len(rest)
    BY <1>1
  <2> QED  BY <2>1, <2>2 DEF IsInjective
<1>5. ASSUME IsInjective(s), NEW x \in cut PROVE x \notin ToSet(rest)
  <2>1. PICK i \in 1..n : s[i] = x
    OBVIOUS
  <2>2. ASSUME NEW j \in 1..Len(rest), rest[j] = x PROVE FALSE
    <3>1. n + j \in 1..Len(s) /\ i \in 1..Len(s) /\ s[n + j] = s[i] /\ n + j # i
      BY <1>1, <2>1, <2>2
    <3> QED  BY <1>5, <3>1 DEF IsInjective
  <2> QED  BY <1>1, <2>2, ElementsAt
<1> QED  BY <1>1, <1>3, <1>4, <1>5 DEF rest

\* A queue that holds nothing twice has as many elements as places.
LEMMA LengthIsSize ==
  ASSUME NEW S, NEW s \in Seq(S), IsInjective(s)
  PROVE  IsFiniteSet(ToSet(s)) /\ Cardinality(ToSet(s)) = Len(s)
<1>1. Len(s) \in Nat /\ s \in [1..Len(s) -> ToSet(s)]
  BY DEF ToSet
<1>2. s \in Bijection(1..Len(s), ToSet(s))
  BY <1>1, ElementsAt DEF Bijection, Injection, Surjection
<1>3. ExistsBijection(1..Len(s), ToSet(s))
  BY <1>2 DEF ExistsBijection
<1> QED  BY <1>1, <1>3, FS_CountingElements, FS_NatBijection

\* Sets that have nothing in common add up.
LEMMA DisjointSizes ==
  ASSUME NEW A, NEW B, IsFiniteSet(A), IsFiniteSet(B), A \cap B = {}
  PROVE  IsFiniteSet(A \cup B) /\ Cardinality(A \cup B) = Cardinality(A) + Cardinality(B)
<1>1. IsFiniteSet(A \cup B) /\ Cardinality(A \cup B) = Cardinality(A) + Cardinality(B) - Cardinality(A \cap B)
  BY FS_Union
<1>2. Cardinality(A) \in Nat /\ Cardinality(B) \in Nat
  BY FS_CardinalityType
<1>3. Cardinality(A \cap B) = 0
  BY FS_EmptySet
<1> QED  BY <1>1, <1>2, <1>3

-----------------------------------------------------------------------------
(* Loops *)

\* A set of natural numbers has a least element.
LEMMA LeastNat ==
  ASSUME NEW S, S \subseteq Nat, S # {}
  PROVE  \E x \in S : \A y \in S : x <= y
<1>1. PICK x \in S : \A y \in S : ~ (<<y, x>> \in OpToRel(<, Nat))
  BY WFMin, NatLessThanWellFounded
<1>2. \A y \in S : ~ (y < x)
  BY <1>1 DEF OpToRel
<1> QED  BY <1>2

\* Induction over the natural numbers, for a set of them.
LEMMA NatSetInduction ==
  ASSUME NEW P, 0 \in P, \A n \in Nat : n \in P => n + 1 \in P
  PROVE  Nat \subseteq P
<1> DEFINE bad == Nat \ P
<1>1. ASSUME bad # {} PROVE FALSE
  <2>1. bad \subseteq Nat
    OBVIOUS
  <2>2. PICK x \in bad : \A y \in bad : x <= y
    BY <1>1, <2>1, LeastNat
  <2>3. x # 0 /\ x \in Nat
    OBVIOUS
  <2>4. x - 1 \in Nat /\ ~ (x <= x - 1)
    BY <2>3
  <2>5. x - 1 \in P
    BY <2>2, <2>4
  <2>6. (x - 1) + 1 = x
    BY <2>3
  <2> QED  BY <2>4, <2>5, <2>6
<1> QED  BY <1>1

\* f[n] is the value of a loop after n of its N rounds: it begins with init, and
\* round n makes D[n][v] of the value v.
Rounds(D, N, S) == D \in [1..N -> [S -> S]]
Computes(f, init, D, N, S) ==
  /\ f \in [0..N -> S]
  /\ f[0] = init /\ \A n \in 1..N : f[n] = D[n][f[n - 1]]

\* Such an f exists, so a recursive function that describes a loop has the
\* values that its equation says.
LEMMA FiniteRecursion ==
  ASSUME NEW N \in Nat, NEW S, NEW init \in S, NEW D, Rounds(D, N, S)
  PROVE  \E f : Computes(f, init, D, N, S)
<1> USE DEF Rounds, Computes
<1> DEFINE Good(m, f) == f[0] = init /\ \A n \in 1..m : f[n] = D[n][f[n - 1]]
           P == { m \in Nat : m <= N => \E f \in [0..m -> S] : Good(m, f) }
<1>1. 0 \in P
  <2>1. [i \in 0..0 |-> init] \in [0..0 -> S] /\ Good(0, [i \in 0..0 |-> init])
    OBVIOUS
  <2> QED  BY <2>1, Zenon
<1>2. ASSUME NEW m \in Nat, m \in P PROVE m + 1 \in P
  <2> SUFFICES ASSUME m + 1 <= N PROVE \E f \in [0..(m + 1) -> S] : Good(m + 1, f)
    OBVIOUS
  <2>1. m <= N
    OBVIOUS
  <2>2. PICK f \in [0..m -> S] : Good(m, f)
    BY <1>2, <2>1
  <2> DEFINE g == [i \in 0..(m + 1) |-> IF i = m + 1 THEN D[m + 1][f[m]] ELSE f[i]]
  <2>3. m + 1 \in 1..N /\ m \in 0..m
    OBVIOUS
  <2>4. D[m + 1][f[m]] \in S
    BY <2>3
  <2>5. /\ \A i \in 0..(m + 1) : g[i] = IF i = m + 1 THEN D[m + 1][f[m]] ELSE f[i]
        /\ g \in [0..(m + 1) -> S]
    BY <2>4
  <2> HIDE DEF g
  <2>6. g[0] = init
    BY <2>2, <2>5
  <2>7. ASSUME NEW n \in 1..(m + 1) PROVE g[n] = D[n][g[n - 1]]
    <3>1. n - 1 \in 0..m /\ n - 1 \in 0..(m + 1) /\ n - 1 # m + 1 /\ n \in 0..(m + 1)
      OBVIOUS
    <3>2. g[n - 1] = f[n - 1]
      BY <2>5, <3>1
    <3>3. CASE n = m + 1
      <4>1. n - 1 = m
        BY <3>3
      <4> QED  BY <2>5, <3>1, <3>2, <3>3, <4>1
    <3>4. CASE n # m + 1
      <4>1. n \in 1..m
        BY <3>4
      <4> QED  BY <2>2, <2>5, <3>1, <3>2, <3>4, <4>1
    <3> QED  BY <3>3, <3>4
  <2> QED  BY <2>5, <2>6, <2>7
<1> HIDE DEF P
<1>3. N \in P
  BY <1>1, <1>2, NatSetInduction
<1> QED  BY <1>3 DEF P

-----------------------------------------------------------------------------
(* Joining sequences *)

\* g[i] is the first i sequences of t joined.
Joined(g, t, S) ==
  /\ g \in [0..Len(t) -> Seq(S)] /\ g[0] = << >>
  /\ \A i \in 1..Len(t) : g[i] = g[i - 1] \o t[i]

LEMMA JoinedExists ==
  ASSUME NEW S, NEW t \in Seq(Seq(S))
  PROVE  \E g : Joined(g, t, S)
<1> DEFINE D == [i \in 1..Len(t) |-> [v \in Seq(S) |-> v \o t[i]]]
<1>1. Len(t) \in Nat /\ << >> \in Seq(S) /\ \A i \in 1..Len(t) : t[i] \in Seq(S)
  OBVIOUS
<1>2. Rounds(D, Len(t), Seq(S))
  <2>1. ASSUME NEW i \in 1..Len(t), NEW v \in Seq(S) PROVE v \o t[i] \in Seq(S)
    BY <1>1
  <2> QED  BY <2>1, Zenon DEF Rounds
<1>3. \A i \in 1..Len(t) : \A v \in Seq(S) : D[i][v] = v \o t[i]
  OBVIOUS
<1> HIDE DEF D
<1>4. PICK g : Computes(g, << >>, D, Len(t), Seq(S))
  BY <1>1, <1>2, FiniteRecursion
<1>5. ASSUME NEW i \in 1..Len(t) PROVE g[i] = g[i - 1] \o t[i]
  <2>1. i - 1 \in 0..Len(t)
    BY <1>1
  <2>2. g[i - 1] \in Seq(S) /\ g[i] = D[i][g[i - 1]]
    BY <1>4, <2>1 DEF Computes
  <2> QED  BY <1>3, <2>2
<1>6. Joined(g, t, S)
  BY <1>4, <1>5 DEF Computes, Joined
<1> QED  BY <1>6

LEMMA FlattenIsJoin ==
  ASSUME NEW S, NEW t \in Seq(Seq(S)), NEW g, Joined(g, t, S)
  PROVE  FlattenSeq(t) = g[Len(t)]
<1>0. PICK n \in Nat : n = Len(t)
  OBVIOUS
<1>1. CASE n = 0
  <2>1. FlattenSeq(t) = t
    BY <1>0, <1>1 DEF FlattenSeq
  <2>2. t = << >>
    BY <1>0, <1>1, EmptySeq
  <2>3. g[0] = << >>
    BY Zenon DEF Joined
  <2> QED  BY <1>0, <1>1, <2>1, <2>2, <2>3
<1>2. CASE n # 0
  <2> DEFINE Step(h) == [i \in 1..n |-> IF i = 1 THEN t[i] ELSE h[i - 1] \o t[i]]
             f == CHOOSE h : h = Step(h)
             h0 == [i \in 1..n |-> g[i]]
  <2>1. FlattenSeq(t) = f[n]
    BY <1>0, <1>2 DEF FlattenSeq
  <2>2. \A i \in 1..n : g[i] = IF i = 1 THEN t[i] ELSE g[i - 1] \o t[i]
    <3>1. ASSUME NEW i \in 1..n PROVE g[i] = IF i = 1 THEN t[i] ELSE g[i - 1] \o t[i]
      <4>1. g[i] = g[i - 1] \o t[i] /\ t[i] \in Seq(S) /\ g[0] = << >>
        <5>1. i \in 1..Len(t)
          BY <1>0
        <5>2. t[i] \in Seq(S)
          BY <5>1, ElementOfSeq
        <5> QED  BY <5>1, <5>2, Zenon DEF Joined
      <4>2. << >> \o t[i] = t[i]
        BY <4>1, ConcatEmptySeq
      <4>3. CASE i = 1
        <5>1. i - 1 = 0
          BY <4>3
        <5> QED  BY <4>1, <4>2, <4>3, <5>1
      <4> QED  BY <4>1, <4>3
    <3> QED  BY <3>1
  <2>3. h0 = Step(h0)
    <3>1. ASSUME NEW i \in 1..n PROVE h0[i] = Step(h0)[i]
      <4>1. CASE i = 1
        BY <2>2, <4>1
      <4>2. CASE i # 1
        <5>1. i - 1 \in 1..n
          BY <4>2
        <5> QED  BY <2>2, <4>2, <5>1
      <4> QED  BY <4>1, <4>2
    <3> QED  BY <3>1
  <2>4. f = Step(f)
    BY <2>3
  <2> HIDE DEF f
  <2>5. \A i \in 1..n : f[i] = IF i = 1 THEN t[i] ELSE f[i - 1] \o t[i]
    <3> DEFINE k == Step(f)
    <3>1. \A i \in 1..n : k[i] = IF i = 1 THEN t[i] ELSE f[i - 1] \o t[i]
      OBVIOUS
    <3>2. f = k
      BY <2>4
    <3> HIDE DEF k
    <3> QED  BY <3>1, <3>2
  <2> DEFINE P == {m \in Nat : m + 1 \in 1..n => f[m + 1] = g[m + 1]}
  <2>6. 0 \in P
    BY <2>2, <2>5
  <2>7. ASSUME NEW m \in Nat, m \in P PROVE m + 1 \in P
    <3> SUFFICES ASSUME (m + 1) + 1 \in 1..n PROVE f[(m + 1) + 1] = g[(m + 1) + 1]
      OBVIOUS
    <3>1. m + 1 \in 1..n /\ (m + 1) + 1 # 1 /\ ((m + 1) + 1) - 1 = m + 1
      OBVIOUS
    <3>2. f[m + 1] = g[m + 1]
      BY <2>7, <3>1
    <3> QED  BY <2>2, <2>5, <3>1, <3>2
  <2> HIDE DEF P
  <2>8. n - 1 \in P
    <3>1. n - 1 \in Nat
      BY <1>2
    <3> QED  BY <2>6, <2>7, <3>1, NatSetInduction
  <2>9. f[n] = g[n]
    <3>1. (n - 1) + 1 = n /\ n \in 1..n
      BY <1>2
    <3> QED  BY <2>8, <3>1 DEF P
  <2> QED  BY <1>0, <2>1, <2>9
<1> QED  BY <1>1, <1>2

\* One more sequence at the end.
LEMMA FlattenAppend ==
  ASSUME NEW S, NEW t \in Seq(Seq(S)), NEW x \in Seq(S)
  PROVE  /\ FlattenSeq(t) \in Seq(S)
         /\ FlattenSeq(Append(t, x)) = FlattenSeq(t) \o x
<1>0. PICK Q : Q = Seq(S) /\ t \in Seq(Q) /\ x \in Q
  OBVIOUS
<1>1. PICK u \in Seq(Q) : u = Append(t, x)
  <2>1. Append(t, x) \in Seq(Q)
    BY <1>0, AppendProperties, Zenon
  <2> QED  BY <2>1, Zenon
<1>2. /\ Len(t) \in Nat /\ Len(u) = Len(t) + 1 /\ u[Len(t) + 1] = x
      /\ \A i \in 1..Len(t) : u[i] = t[i]
  BY <1>0, <1>1
<1>3. PICK g : Joined(g, u, S)
  BY <1>0, <1>1, JoinedExists
<1> DEFINE h == [i \in 0..Len(t) |-> g[i]]
<1>4. Joined(h, t, S)
  <2>1. \A i \in 0..Len(t) : h[i] = g[i] /\ g[i] \in Seq(S)
    <3>1. ASSUME NEW i \in 0..Len(t) PROVE h[i] = g[i] /\ g[i] \in Seq(S)
      <4>1. i \in 0..Len(u)
        BY <1>2
      <4>2. g \in [0..Len(u) -> Seq(S)]
        BY <1>3, Zenon DEF Joined
      <4> QED  BY <4>1, <4>2, Zenon
    <3> QED  BY <3>1
  <2>2. h \in [0..Len(t) -> Seq(S)]
    BY <2>1
  <2> HIDE DEF h
  <2>3. ASSUME NEW i \in 1..Len(t) PROVE h[i] = h[i - 1] \o t[i]
    <3>1. i \in 0..Len(t) /\ i - 1 \in 0..Len(t) /\ i \in 1..Len(u)
      BY <1>2
    <3> QED  BY <1>2, <1>3, <2>1, <3>1 DEF Joined
  <2>4. h[0] = << >>
    <3>1. 0 \in 0..Len(t)
      BY <1>2
    <3> QED  BY <1>3, <2>1, <3>1 DEF Joined
  <2> QED  BY <2>2, <2>3, <2>4 DEF Joined
<1>5. h[Len(t)] = g[Len(t)] /\ g[Len(t)] \in Seq(S)
  BY <1>2, <1>3 DEF Joined
<1> HIDE DEF h
<1>6. FlattenSeq(t) = g[Len(t)]
  BY <1>4, <1>5, FlattenIsJoin
<1>7. FlattenSeq(u) = g[Len(t) + 1]
  BY <1>1, <1>2, <1>3, FlattenIsJoin, <1>0
<1>8. g[Len(t) + 1] = g[Len(t)] \o x
  <2>1. Len(t) + 1 \in 1..Len(u) /\ (Len(t) + 1) - 1 = Len(t)
    BY <1>2
  <2> QED  BY <1>2, <1>3, <2>1 DEF Joined
<1> QED  BY <1>1, <1>5, <1>6, <1>7, <1>8

-----------------------------------------------------------------------------
(* Loops that a cursor drives *)

\* A loop that a cursor drives: the round at position c finds own[c] and goes on at
\* next[c], behind c, or ends the loop if that is 0.
CursorRounds(own, next, M, S) ==
  /\ own \in [1..M -> Seq(S)] /\ next \in [1..M -> 0..M]
  /\ \A c \in 1..M : next[c] = 0 \/ c < next[c]
\* f[c] is what the loop finds from position c on.
Finds(f, own, next, M, S) ==
  \A c \in 1..M : /\ next[c] = 0 => f[c] = own[c]
                  /\ next[c] # 0 /\ f[next[c]] \in Seq(S) => f[c] = own[c] \o f[next[c]]

\* Such a loop ends, whatever the rounds find, so the function of the cursor that
\* describes it has the values that its equation says.
LEMMA CursorRecursion ==
  ASSUME NEW M \in Nat, NEW S, NEW own, NEW next, CursorRounds(own, next, M, S)
  PROVE  \E f \in [1..M -> Seq(S)] : Finds(f, own, next, M, S)
<1> DEFINE Q == Seq(S)
           Upon(f, c) == IF next[c] = 0 THEN own[c] ELSE own[c] \o f[next[c]]
           Good(f, m) == \A c \in 1..M : c > M - m => f[c] = Upon(f, c)
           P == {m \in Nat : m <= M => \E f \in [1..M -> Q] : Good(f, m)}
<1>0. /\ \A c \in 1..M : own[c] \in Q /\ next[c] \in 0..M /\ (next[c] = 0 \/ c < next[c])
      /\ \A u, v \in Q : u \o v \in Q
      /\ << >> \in Q
  BY DEF CursorRounds
<1> HIDE DEF Q
<1>1. 0 \in P
  <2>1. [c \in 1..M |-> << >>] \in [1..M -> Q]
    BY <1>0
  <2>2. \A f : Good(f, 0)
    OBVIOUS
  <2> QED  BY <2>1, <2>2, Zenon
<1>2. ASSUME NEW m \in Nat, m \in P PROVE m + 1 \in P
  <2> SUFFICES ASSUME m + 1 <= M PROVE \E f \in [1..M -> Q] : Good(f, m + 1)
    OBVIOUS
  <2>1. m <= M
    OBVIOUS
  <2>2. PICK f \in [1..M -> Q] : Good(f, m)
    BY <1>2, <2>1
  <2>3. PICK d \in 1..M : d = M - m
    OBVIOUS
  <2>4. PICK x \in Q : x = Upon(f, d)
    <3>1. CASE next[d] = 0
      BY <1>0, <3>1
    <3>2. CASE next[d] # 0
      <4>1. next[d] \in 1..M
        BY <1>0, <3>2
      <4> QED  BY <1>0, <3>2, <4>1
    <3> QED  BY <3>1, <3>2
  <2>5. PICK g \in [1..M -> Q] : g[d] = x /\ \A c \in 1..M : c # d => g[c] = f[c]
    <3>1. /\ [f EXCEPT ![d] = x] \in [1..M -> Q] /\ [f EXCEPT ![d] = x][d] = x
          /\ \A c \in 1..M : c # d => [f EXCEPT ![d] = x][c] = f[c]
      OBVIOUS
    <3> QED  BY <3>1, Zenon
  <2>6. ASSUME NEW c \in 1..M, c >= d PROVE Upon(g, c) = Upon(f, c)
    <3>1. CASE next[c] = 0
      BY <3>1
    <3>2. CASE next[c] # 0
      <4>1. next[c] \in 1..M /\ next[c] # d
        BY <1>0, <2>6, <3>2
      <4> QED  BY <2>5, <4>1
    <3> QED  BY <3>1, <3>2
  <2>7. ASSUME NEW c \in 1..M, c > M - (m + 1) PROVE g[c] = Upon(g, c)
    <3>1. c >= d
      BY <2>3, <2>7
    <3>2. CASE c = d
      BY <2>4, <2>5, <2>6, <3>1, <3>2
    <3>3. CASE c # d
      <4>1. c > M - m
        BY <2>3, <3>1, <3>3
      <4> QED  BY <2>2, <2>5, <2>6, <3>1, <3>3, <4>1
    <3> QED  BY <3>2, <3>3
  <2> QED  BY <2>7
<1> HIDE DEF P
<1>3. M \in P
  BY <1>1, <1>2, NatSetInduction
<1>4. PICK f \in [1..M -> Q] : Good(f, M)
  BY <1>3 DEF P
<1>5. \A c \in 1..M : f[c] = Upon(f, c)
  <2>1. \A c \in 1..M : c > M - M
    OBVIOUS
  <2> QED  BY <1>4, <2>1, Zenon
<1> QED  BY <1>4, <1>5 DEF Finds, Q

\* Joining sequences.
LEMMA ConcatFacts ==
  ASSUME NEW S
  PROVE  /\ << >> \in Seq(S)
         /\ \A u, v \in Seq(S) : u \o v \in Seq(S)
         /\ \A u, v, w \in Seq(S) : (u \o v) \o w = u \o (v \o w)
         /\ \A u \in Seq(S) : << >> \o u = u /\ u \o << >> = u
<1>1. ASSUME NEW u \in Seq(S), NEW v \in Seq(S), NEW w \in Seq(S) PROVE (u \o v) \o w = u \o (v \o w)
  BY ConcatAssociative
<1>2. ASSUME NEW u \in Seq(S) PROVE << >> \o u = u /\ u \o << >> = u
  BY ConcatEmptySeq, Zenon
<1> QED  BY <1>1, <1>2

\* The loop only comes to positions in A, and pre[c] is what is to be found before
\* such a position c, of all there is.
Passes(A, pre, own, next, M, S, all) ==
  /\ A \subseteq 1..M /\ 1 \in A /\ pre \in [A -> Seq(S)] /\ pre[1] = << >>
  /\ \A c \in A : /\ next[c] = 0 => pre[c] \o own[c] = all
                  /\ next[c] # 0 => next[c] \in A /\ pre[next[c]] = pre[c] \o own[c]

\* What the loop finds is all there is, if each round that it comes to finds what is
\* between its position and the next.
LEMMA CursorLoop ==
  ASSUME NEW M \in Nat, NEW S, NEW own, NEW next, CursorRounds(own, next, M, S),
         NEW f, Finds(f, own, next, M, S),
         NEW A, NEW pre, NEW all, Passes(A, pre, own, next, M, S, all)
  PROVE  f[1] = all /\ f[1] \in Seq(S)
<1> DEFINE Q == Seq(S)
           Good(c) == f[c] \in Q /\ (c \in A => pre[c] \o f[c] = all)
           P == {m \in Nat : \A c \in 1..M : c > M - m => Good(c)}
<1>0. \A c \in 1..M : own[c] \in Q /\ next[c] \in 0..M /\ (next[c] = 0 \/ c < next[c])
  BY DEF CursorRounds
<1>j. /\ \A u, v \in Q : u \o v \in Q
      /\ \A u, v, w \in Q : (u \o v) \o w = u \o (v \o w)
      /\ \A u \in Q : << >> \o u = u /\ u \o << >> = u
  BY ConcatFacts, Zenon
<1>p. /\ A \subseteq 1..M /\ 1 \in A /\ pre[1] = << >> /\ \A c \in A : pre[c] \in Q
      /\ \A c \in A : /\ next[c] = 0 => pre[c] \o own[c] = all
                      /\ next[c] # 0 => next[c] \in A /\ pre[next[c]] = pre[c] \o own[c]
  BY DEF Passes
<1>00. Finds(f, own, next, M, S) =>
       \A c \in 1..M : /\ next[c] = 0 => f[c] = own[c]
                       /\ next[c] # 0 /\ f[next[c]] \in Q => f[c] = own[c] \o f[next[c]]
  BY DEF Finds
<1> HIDE DEF Q, Good
<1>1. 0 \in P
  OBVIOUS
<1>2. ASSUME NEW m \in Nat, m \in P PROVE m + 1 \in P
  <2> SUFFICES ASSUME NEW c \in 1..M, c > M - (m + 1) PROVE Good(c)
    OBVIOUS
  <2>1. \A d \in 1..M : c < d => Good(d)
    <3>1. \A d \in 1..M : c < d => d > M - m
      OBVIOUS
    <3> QED  BY <1>2, <3>1
  <2>2. CASE next[c] = 0
    <3>0. f[c] = own[c]
      BY <1>00, <2>2, Zenon
    <3>1. f[c] = own[c] /\ own[c] \in Q
      BY <1>0, <3>0, Zenon
    <3>2. c \in A => pre[c] \o own[c] = all
      BY <1>p, <2>2, Zenon
    <3> QED  BY <3>1, <3>2, Zenon DEF Good
  <2>3. CASE next[c] # 0
    <3>1. next[c] \in 1..M /\ c < next[c]
      BY <1>0, <2>3
    <3>2. Good(next[c])
      BY <2>1, <3>1
    <3>3. f[c] = own[c] \o f[next[c]] /\ f[next[c]] \in Q /\ own[c] \in Q
      BY <1>0, <1>00, <2>3, <3>2 DEF Good
    <3>4. f[c] \in Q
      BY <1>j, <3>3
    <3>5. ASSUME c \in A PROVE pre[c] \o f[c] = all
      <4>1. next[c] \in A /\ pre[next[c]] = pre[c] \o own[c]
        BY <1>p, <2>3, <3>5, Zenon
      <4>2. (pre[c] \o own[c]) \o f[next[c]] = all
        BY <3>2, <4>1 DEF Good
      <4>3. pre[c] \in Q
        BY <1>p, <3>5
      <4>4. (pre[c] \o own[c]) \o f[next[c]] = pre[c] \o (own[c] \o f[next[c]])
        BY <1>j, <3>3, <4>3
      <4> QED  BY <3>3, <4>2, <4>4
    <3> QED  BY <3>4, <3>5 DEF Good
  <2> QED  BY <2>2, <2>3
<1> HIDE DEF P
<1>3. M \in P
  BY <1>1, <1>2, NatSetInduction
<1>4. \A c \in 1..M : Good(c)
  <2>1. \A c \in 1..M : c > M - M
    OBVIOUS
  <2> QED  BY <1>3, <2>1, Zenon DEF P
<1>5. f[1] \in Q /\ << >> \o f[1] = all
  <2>1. Good(1)
    BY <1>p, <1>4
  <2> QED  BY <1>p, <2>1 DEF Good
<1> QED  BY <1>j, <1>5 DEF Q

\* Sequences joined, of which those from c to d are empty.
LEMMA JoinedStretch ==
  ASSUME NEW S, NEW t \in Seq(Seq(S)), NEW g, Joined(g, t, S), NEW c \in 0..Len(t), NEW d \in c..Len(t),
         \A i \in (c + 1)..d : t[i] = << >>
  PROVE  g[d] = g[c]
<1> DEFINE P == {m \in Nat : c + m <= d => g[c + m] = g[c]}
<1>0. Len(t) \in Nat /\ c \in Nat /\ d \in Nat
  OBVIOUS
<1>1. 0 \in P
  BY <1>0
<1>2. ASSUME NEW m \in Nat, m \in P PROVE m + 1 \in P
  <2> SUFFICES ASSUME c + (m + 1) <= d PROVE g[c + (m + 1)] = g[c]
    OBVIOUS
  <2>1. PICK k \in 1..Len(t) : k = c + (m + 1) /\ k - 1 = c + m /\ k - 1 \in 0..Len(t) /\ k \in (c + 1)..d
    <3>1. /\ c + (m + 1) \in 1..Len(t) /\ (c + (m + 1)) - 1 = c + m /\ c + (m + 1) - 1 \in 0..Len(t)
          /\ c + (m + 1) \in (c + 1)..d
      BY <1>0
    <3> QED  BY <3>1
  <2>2. g[k - 1] = g[c]
    BY <1>0, <1>2, <2>1
  <2>3. g[k] = g[k - 1] \o t[k] /\ t[k] = << >> /\ g[k - 1] \in Seq(S)
    BY <2>1 DEF Joined
  <2>4. g[k - 1] \o << >> = g[k - 1]
    BY <2>3, ConcatFacts, Zenon
  <2> QED  BY <2>1, <2>2, <2>3, <2>4
<1> HIDE DEF P
<1>3. PICK m \in Nat : c + m = d
  <2>1. d - c \in Nat /\ c + (d - c) = d
    BY <1>0
  <2> QED  BY <2>1
<1>4. m \in P
  BY <1>1, <1>2, NatSetInduction
<1> QED  BY <1>0, <1>3, <1>4 DEF P

\* The members of P in order, and something for each of them.
Chosen(T, P, n) == [i \in 1..n |-> IF i \in P THEN <<T[i]>> ELSE << >>]
IsChosen(t, T, P, n, S) ==
  /\ t \in Seq(Seq(S)) /\ Len(t) = n
  /\ \A i \in 1..n : t[i] = IF i \in P THEN <<T[i]>> ELSE << >>
Positions(P, n) == [i \in 1..n |-> IF i \in P THEN <<i>> ELSE << >>]

\* b is what T gives for each element of a.
Alike(a, b, T, P, S) ==
  /\ a \in Seq(P) /\ b \in Seq(S) /\ Len(b) = Len(a)
  /\ \A j \in 1..Len(a) : b[j] = T[a[j]]

\* What Chosen gives is a sequence of sequences.
LEMMA ChosenType ==
  ASSUME NEW n \in Nat, NEW P, P \subseteq 1..n, NEW S, NEW T, \A i \in P : T[i] \in S
  PROVE  IsChosen(Chosen(T, P, n), T, P, n, S)
<1>1. \A i \in 1..n : (IF i \in P THEN <<T[i]>> ELSE << >>) \in Seq(S)
  OBVIOUS
<1>2. PICK Q : Q = Seq(S)
  OBVIOUS
<1>3. Chosen(T, P, n) \in [1..n -> Q]
  BY <1>1, <1>2 DEF Chosen
<1>4. \A i \in 1..n : Chosen(T, P, n)[i] = IF i \in P THEN <<T[i]>> ELSE << >>
  BY DEF Chosen
<1>5. Chosen(T, P, n) \in Seq(Q) /\ Len(Chosen(T, P, n)) = n
  BY <1>3
<1> QED  BY <1>2, <1>4, <1>5 DEF IsChosen

\* One result per member of P, in order: the loops that push something for some of
\* the elements that they come to.
LEMMA ChosenInOrder ==
  ASSUME NEW n \in Nat, NEW P, P \subseteq 1..n, NEW S, NEW T, \A i \in P : T[i] \in S
  PROVE  Alike(FlattenSeq(Positions(P, n)), FlattenSeq(Chosen(T, P, n)), T, P, S)
<1> DEFINE id == [i \in 1..n |-> i]
           u == Chosen(id, P, n)
           t == Chosen(T, P, n)
<1>1. Positions(P, n) = u
  BY DEF Positions, Chosen
<1>2. /\ u \in Seq(Seq(P)) /\ Len(u) = n /\ \A i \in 1..n : u[i] = IF i \in P THEN <<i>> ELSE << >>
  <2>1. \A i \in P : id[i] = i
    OBVIOUS
  <2> HIDE DEF id
  <2>2. \A i \in P : id[i] \in P
    BY <2>1
  <2>3. /\ u \in Seq(Seq(P)) /\ Len(u) = n /\ \A i \in 1..n : u[i] = IF i \in P THEN <<id[i]>> ELSE << >>
    <3>1. IsChosen(u, id, P, n, P)
      BY <2>2, ChosenType, Zenon
    <3> HIDE DEF u
    <3> QED  BY <3>1, Zenon DEF IsChosen
  <2> HIDE DEF u
  <2> QED  BY <2>1, <2>3, Zenon
<1>3. /\ t \in Seq(Seq(S)) /\ Len(t) = n /\ \A i \in 1..n : t[i] = IF i \in P THEN <<T[i]>> ELSE << >>
  <2>1. IsChosen(t, T, P, n, S)
    BY ChosenType, Zenon
  <2> HIDE DEF t
  <2> QED  BY <2>1, Zenon DEF IsChosen
<1> HIDE DEF u, t, id
<1>4. PICK g : Joined(g, u, P)
  BY <1>2, JoinedExists
<1>5. PICK h : Joined(h, t, S)
  BY <1>3, JoinedExists
<1> USE DEF Alike
<1> DEFINE R == {m \in Nat : m <= n => Alike(g[m], h[m], T, P, S)}
<1>6. 0 \in R
  <2>1. g[0] = << >> /\ h[0] = << >>
    BY <1>4, <1>5, Zenon DEF Joined
  <2>2. Alike(<< >>, << >>, T, P, S)
    OBVIOUS
  <2> HIDE DEF Alike
  <2> QED  BY <2>1, <2>2
<1>7. ASSUME NEW m \in Nat, m \in R PROVE m + 1 \in R
  <2> SUFFICES ASSUME m + 1 <= n PROVE Alike(g[m + 1], h[m + 1], T, P, S)
    OBVIOUS
  <2>1. PICK k \in 1..n : k = m + 1 /\ k - 1 = m
    <3>1. m + 1 \in 1..n /\ (m + 1) - 1 = m
      OBVIOUS
    <3> QED  BY <3>1
  <2>2. Alike(g[k - 1], h[k - 1], T, P, S)
    <3>1. m <= n
      OBVIOUS
    <3> HIDE DEF Alike
    <3> QED  BY <1>7, <2>1, <3>1
  <2>3. g[k] = g[k - 1] \o u[k] /\ h[k] = h[k - 1] \o t[k]
    BY <1>2, <1>3, <1>4, <1>5, Zenon DEF Joined
  <2> DEFINE a == g[k - 1]
             b == h[k - 1]
  <2> HIDE DEF a, b
  <2>4. Alike(a, b, T, P, S)
    BY <2>2 DEF a, b
  <2>5. Alike(a \o u[k], b \o t[k], T, P, S)
    <3>1. CASE k \in P
      <4>1. u[k] = <<k>> /\ t[k] = <<T[k]>> /\ T[k] \in S
        BY <1>2, <1>3, <3>1
      <4>2. /\ a \o <<k>> \in Seq(P) /\ Len(a \o <<k>>) = Len(a) + 1 /\ Len(a) \in Nat
            /\ (a \o <<k>>)[Len(a) + 1] = k /\ \A j \in 1..Len(a) : (a \o <<k>>)[j] = a[j]
        BY <2>4, <3>1
      <4>3. /\ b \o <<T[k]>> \in Seq(S) /\ Len(b \o <<T[k]>>) = Len(a) + 1
            /\ (b \o <<T[k]>>)[Len(a) + 1] = T[k] /\ \A j \in 1..Len(a) : (b \o <<T[k]>>)[j] = b[j]
        BY <2>4, <4>1
      <4>4. PICK v : v = a \o <<k>>
        OBVIOUS
      <4>5. PICK w : w = b \o <<T[k]>>
        OBVIOUS
      <4>6. Alike(v, w, T, P, S)
        <5>1. ASSUME NEW j \in 1..Len(v) PROVE w[j] = T[v[j]]
          <6>1. CASE j = Len(a) + 1
            BY <4>2, <4>3, <4>4, <4>5, <6>1, Zenon
          <6>2. CASE j \in 1..Len(a)
            BY <2>4, <4>2, <4>3, <4>4, <4>5, <6>2, Zenon
          <6>3. j = Len(a) + 1 \/ j \in 1..Len(a)
            BY <4>2, <4>4
          <6> QED  BY <6>1, <6>2, <6>3
        <5> QED  BY <4>2, <4>3, <4>4, <4>5, <5>1
      <4> HIDE DEF Alike
      <4> QED  BY <4>1, <4>4, <4>5, <4>6
    <3>2. CASE k \notin P
      <4>1. u[k] = << >> /\ t[k] = << >>
        BY <1>2, <1>3, <3>2
      <4>2. a \o << >> = a /\ b \o << >> = b
        BY <2>4, ConcatFacts, Zenon
      <4> HIDE DEF Alike
      <4> QED  BY <2>4, <4>1, <4>2
    <3> QED  BY <3>1, <3>2
  <2> HIDE DEF Alike
  <2> QED  BY <2>1, <2>3, <2>5 DEF a, b
<1> HIDE DEF R
<1>8. n \in R
  BY <1>6, <1>7, NatSetInduction
<1>9. Alike(g[n], h[n], T, P, S)
  <2> HIDE DEF Alike
  <2> QED  BY <1>8 DEF R
<1>10. FlattenSeq(u) = g[n] /\ FlattenSeq(t) = h[n]
  BY <1>2, <1>3, <1>4, <1>5, FlattenIsJoin
<1> QED  BY <1>1, <1>9, <1>10 DEF t

-----------------------------------------------------------------------------
(* Parts of a sequence *)

\* substr: the elements of a part of a sequence.
LEMMA PartFacts ==
  ASSUME NEW S, NEW s \in Seq(S), NEW m \in 1..(Len(s) + 1), NEW n \in (m - 1)..Len(s)
  PROVE  /\ SubSeq(s, m, n) \in Seq(S) /\ Len(SubSeq(s, m, n)) = n - m + 1
         /\ \A i \in 1..(n - m + 1) : SubSeq(s, m, n)[i] = s[m + i - 1]
         /\ ToSet(SubSeq(s, m, n)) = {s[i] : i \in m..n}
<1>0. Len(s) \in Nat
  OBVIOUS
<1>1. m \in Int /\ n \in Int /\ \A i \in m..n : s[i] \in S
  BY <1>0
<1>2. /\ SubSeq(s, m, n) \in Seq(S)
      /\ Len(SubSeq(s, m, n)) = IF m <= n THEN n - m + 1 ELSE 0
      /\ \A i \in 1..(n - m + 1) : SubSeq(s, m, n)[i] = s[m + i - 1]
  BY <1>1, SubSeqProperties
<1>3. Len(SubSeq(s, m, n)) = n - m + 1
  BY <1>0, <1>2
<1> DEFINE u == SubSeq(s, m, n)
<1>4. ToSet(u) = {s[i] : i \in m..n}
  <2> HIDE DEF u
  <2>1. u \in Seq(S) /\ Len(u) = n - m + 1 /\ \A i \in 1..(n - m + 1) : u[i] = s[m + i - 1]
    BY <1>2, <1>3 DEF u
  <2>2. ASSUME NEW i \in 1..(n - m + 1) PROVE m + i - 1 \in m..n
    BY <1>0
  <2>3. ASSUME NEW i \in m..n PROVE i - m + 1 \in 1..(n - m + 1) /\ m + (i - m + 1) - 1 = i
    BY <1>0
  <2>4. ASSUME NEW x \in ToSet(u) PROVE x \in {s[i] : i \in m..n}
    <3>1. PICK i \in 1..(n - m + 1) : u[i] = x
      BY <2>1, <2>4, ElementsAt
    <3> QED  BY <2>1, <2>2, <3>1
  <2>5. ASSUME NEW i \in m..n PROVE s[i] \in ToSet(u)
    <3>1. PICK j \in 1..(n - m + 1) : m + j - 1 = i
      BY <2>3
    <3>2. u[j] = s[i]
      BY <2>1, <3>1
    <3> QED  BY <2>1, <3>1, <3>2, ElementsAt
  <2> QED  BY <2>4, <2>5
<1> QED  BY <1>2, <1>3, <1>4

\* An element that is nowhere between two positions is not in the part.
LEMMA PartLacks ==
  ASSUME NEW S, NEW s \in Seq(S), NEW m \in 1..(Len(s) + 1), NEW n \in (m - 1)..Len(s), NEW x,
         \A i \in m..n : s[i] # x
  PROVE  x \notin ToSet(SubSeq(s, m, n))
<1>1. ToSet(SubSeq(s, m, n)) = {s[i] : i \in m..n}
  BY PartFacts
<1> QED  BY <1>1

\* What stands where in two sequences joined.
Follows(u, x) ==
  /\ Len(u) \in Nat /\ Len(x) \in Nat /\ Len(u \o x) = Len(u) + Len(x)
  /\ \A j \in 1..Len(u) : (u \o x)[j] = u[j]
  /\ \A j \in 1..Len(x) : (u \o x)[Len(u) + j] = x[j]

\* The elements of u stand first, those of x behind them.
LEMMA ConcatAt ==
  ASSUME NEW S, NEW u \in Seq(S), NEW x \in Seq(S)
  PROVE  Follows(u, x)
<1>1. Len(u) \in Nat /\ Len(x) \in Nat /\ Len(u \o x) = Len(u) + Len(x)
  OBVIOUS
<1>2. \A j \in 1..Len(u) : (u \o x)[j] = u[j]
  BY <1>1
<1>3. \A j \in 1..Len(x) : (u \o x)[Len(u) + j] = x[j]
  <2>1. ASSUME NEW j \in 1..Len(x) PROVE (u \o x)[Len(u) + j] = x[j]
    <3>0. /\ Len(u) + j \in 1..(Len(u) + Len(x)) /\ ~ (Len(u) + j <= Len(u))
          /\ (Len(u) + j) - Len(u) = j
      BY <1>1
    <3>1. PICK k \in 1..(Len(u) + Len(x)) : k = Len(u) + j /\ ~ (k <= Len(u)) /\ k - Len(u) = j
      BY <3>0, Zenon
    <3>2. (u \o x)[k] = x[k - Len(u)]
      BY <1>1, <3>1, ConcatProperties
    <3> QED  BY <3>1, <3>2
  <2> QED  BY <2>1
<1> QED  BY <1>1, <1>2, <1>3 DEF Follows

\* What is joined up to i is the front of what is joined up to m.
FrontOf(u, v) == Len(u) <= Len(v) /\ \A j \in 1..Len(u) : v[j] = u[j]
\* w is u with x behind it.
Behind(w, u, x) ==
  /\ Len(u) \in Nat /\ Len(x) \in Nat /\ Len(w) = Len(u) + Len(x)
  /\ \A j \in 1..Len(x) : w[Len(u) + j] = x[j]

\* The parts of what is joined stand one behind the other.
LEMMA JoinedFronts ==
  ASSUME NEW S, NEW t \in Seq(Seq(S)), NEW g, Joined(g, t, S)
  PROVE  /\ \A i \in 1..Len(t) : Behind(g[i], g[i - 1], t[i])
         /\ \A i \in 0..Len(t) : \A m \in i..Len(t) : FrontOf(g[i], g[m])
<1> DEFINE N == Len(t)
<1>0. /\ N \in Nat /\ g[0] = << >> /\ \A i \in 0..N : g[i] \in Seq(S)
      /\ \A i \in 1..N : g[i] = g[i - 1] \o t[i] /\ t[i] \in Seq(S)
  <2>0. N \in Nat /\ g[0] = << >>
    BY DEF Joined
  <2>q. PICK Q : Q = Seq(S)
    OBVIOUS
  <2>g. g \in [0..Len(t) -> Q]
    BY <2>q, Zenon DEF Joined
  <2>1. N \in Nat /\ g[0] = << >> /\ \A i \in 0..N : g[i] \in Seq(S)
    BY <2>0, <2>q, <2>g
  <2>2. \A i \in 1..N : t[i] \in Seq(S)
    OBVIOUS
  <2>3. \A i \in 1..N : g[i] = g[i - 1] \o t[i]
    BY Zenon DEF Joined
  <2> QED  BY <2>1, <2>2, <2>3, Zenon
<1> HIDE DEF N
<1>1. ASSUME NEW i \in 1..N
      PROVE  Behind(g[i], g[i - 1], t[i]) /\ FrontOf(g[i - 1], g[i])
  <2>1. i - 1 \in 0..N
    BY <1>0
  <2>2. PICK u \in Seq(S) : u = g[i - 1]
    BY <1>0, <2>1
  <2>3. PICK x \in Seq(S) : x = t[i]
    BY <1>0
  <2>4. PICK v \in Seq(S) : v = u \o x /\ v = g[i]
    <3>1. u \o x \in Seq(S)
      OBVIOUS
    <3> QED  BY <1>0, <2>2, <2>3, <3>1, Zenon
  <2>5. /\ Len(v) = Len(u) + Len(x) /\ Len(u) \in Nat /\ Len(x) \in Nat
        /\ \A j \in 1..Len(u) : v[j] = u[j]
        /\ \A j \in 1..Len(x) : v[Len(u) + j] = x[j]
    <3>1. Follows(u, x)
      BY ConcatAt
    <3> QED  BY <2>4, <3>1, Zenon DEF Follows
  <2>6. FrontOf(u, v)
    BY <2>5 DEF FrontOf
  <2> QED  BY <2>2, <2>3, <2>4, <2>5, <2>6, Zenon DEF Behind
<1>2. ASSUME NEW i \in 0..N, NEW m \in i..N PROVE FrontOf(g[i], g[m])
  <2> DEFINE P == {d \in Nat : i + d <= N => FrontOf(g[i], g[i + d])}
  <2>1. 0 \in P
    BY <1>0 DEF FrontOf
  <2>2. ASSUME NEW d \in Nat, d \in P PROVE d + 1 \in P
    <3>1. ASSUME i + (d + 1) <= N PROVE FrontOf(g[i], g[i + (d + 1)])
      <4>1. PICK k \in 1..N : k = i + (d + 1) /\ k - 1 = i + d /\ k - 1 \in 0..N /\ i + d <= N
        BY <1>0, <3>1
      <4>2. FrontOf(g[i], g[k - 1]) /\ FrontOf(g[k - 1], g[k])
        BY <1>1, <2>2, <4>1
      <4>3. PICK u \in Seq(S) : u = g[i]
        BY <1>0
      <4>4. PICK v \in Seq(S) : v = g[k - 1]
        BY <1>0, <4>1
      <4>5. PICK w \in Seq(S) : w = g[k]
        BY <1>0, <4>1
      <4>6. Len(u) \in Nat /\ Len(v) \in Nat /\ Len(w) \in Nat
        OBVIOUS
      <4>7. FrontOf(u, v) /\ FrontOf(v, w)
        BY <4>2, <4>3, <4>4, <4>5
      <4>8. FrontOf(u, w)
        <5>1. Len(u) <= Len(v) /\ Len(v) <= Len(w)
          BY <4>7 DEF FrontOf
        <5>2. ASSUME NEW j \in 1..Len(u) PROVE w[j] = u[j]
          <6>1. j \in 1..Len(v)
            BY <4>6, <5>1
          <6> QED  BY <4>7, <6>1 DEF FrontOf
        <5> QED  BY <4>6, <5>1, <5>2 DEF FrontOf
      <4> QED  BY <4>1, <4>3, <4>5, <4>8
    <3> QED  BY <3>1
  <2> HIDE DEF P
  <2>5. m - i \in Nat /\ i + (m - i) = m /\ m <= N
    BY <1>0
  <2>3. PICK d \in Nat : d = m - i /\ i + d = m /\ m <= N
    BY <2>5, Zenon
  <2>4. d \in P
    BY <2>1, <2>2, NatSetInduction
  <2> QED  BY <2>3, <2>4 DEF P
<1> QED  BY <1>1, <1>2 DEF N

\* Two sequences that are alike stay alike when two that are alike are joined to them.
LEMMA AlikeConcat ==
  ASSUME NEW S, NEW P, NEW T, NEW a, NEW b, NEW c, NEW d,
         Alike(a, b, T, P, S), Alike(c, d, T, P, S)
  PROVE  Alike(a \o c, b \o d, T, P, S)
<1>1. /\ a \in Seq(P) /\ b \in Seq(S) /\ c \in Seq(P) /\ d \in Seq(S)
      /\ Len(b) = Len(a) /\ Len(d) = Len(c) /\ Len(a) \in Nat /\ Len(c) \in Nat
  BY DEF Alike
<1>2. Follows(a, c) /\ Follows(b, d)
  BY <1>1, ConcatAt
<1>3. PICK v \in Seq(P) : v = a \o c
  BY <1>1, ConcatFacts
<1>4. PICK w \in Seq(S) : w = b \o d
  BY <1>1, ConcatFacts
<1>5. Len(v) = Len(a) + Len(c) /\ Len(w) = Len(v)
  BY <1>1, <1>2, <1>3, <1>4 DEF Follows
<1>6. ASSUME NEW j \in 1..Len(v) PROVE w[j] = T[v[j]]
  <2>1. CASE j \in 1..Len(a)
    <3>1. v[j] = a[j] /\ w[j] = b[j]
      BY <1>1, <1>2, <1>3, <1>4, <2>1 DEF Follows
    <3> QED  BY <2>1, <3>1 DEF Alike
  <2>2. CASE j \notin 1..Len(a)
    <3>1. PICK k \in 1..Len(c) : j = Len(a) + k
      <4>1. j - Len(a) \in 1..Len(c) /\ j = Len(a) + (j - Len(a))
        BY <1>1, <1>5, <2>2
      <4> QED  BY <4>1
    <3>2. v[j] = c[k] /\ w[j] = d[k]
      BY <1>1, <1>2, <1>3, <1>4, <3>1 DEF Follows
    <3> QED  BY <3>2 DEF Alike
  <2> QED  BY <2>1, <2>2
<1>7. Alike(v, w, T, P, S)
  BY <1>5, <1>6 DEF Alike
<1> QED  BY <1>3, <1>4, <1>7

\* Sequences that are alike one by one are alike when joined: the loops that push
\* several results for an element.
LEMMA AlikeJoined ==
  ASSUME NEW S, NEW P, NEW T, NEW u \in Seq(Seq(P)), NEW t \in Seq(Seq(S)), Len(t) = Len(u),
         \A i \in 1..Len(u) : Alike(u[i], t[i], T, P, S)
  PROVE  Alike(FlattenSeq(u), FlattenSeq(t), T, P, S)
<1>0. PICK n \in Nat : n = Len(u) /\ n = Len(t)
  OBVIOUS
<1>1. PICK g : Joined(g, u, P)
  BY JoinedExists
<1>2. PICK h : Joined(h, t, S)
  BY JoinedExists
<1> DEFINE R == {m \in Nat : m <= n => Alike(g[m], h[m], T, P, S)}
<1>3. 0 \in R
  <2>1. g[0] = << >> /\ h[0] = << >>
    BY <1>1, <1>2, Zenon DEF Joined
  <2>2. Alike(<< >>, << >>, T, P, S)
    BY DEF Alike
  <2> QED  BY <2>1, <2>2
<1>4. ASSUME NEW m \in Nat, m \in R PROVE m + 1 \in R
  <2> SUFFICES ASSUME m + 1 <= n PROVE Alike(g[m + 1], h[m + 1], T, P, S)
    OBVIOUS
  <2>1. PICK k \in 1..n : k = m + 1 /\ k - 1 = m
    <3>1. m + 1 \in 1..n /\ (m + 1) - 1 = m
      OBVIOUS
    <3> QED  BY <3>1
  <2>2. Alike(g[k - 1], h[k - 1], T, P, S)
    <3>1. m <= n
      OBVIOUS
    <3> QED  BY <1>4, <2>1, <3>1
  <2>3. g[k] = g[k - 1] \o u[k] /\ h[k] = h[k - 1] \o t[k]
    BY <1>0, <1>1, <1>2, Zenon DEF Joined
  <2>4. Alike(u[k], t[k], T, P, S)
    BY <1>0
  <2>5. Alike(g[k - 1] \o u[k], h[k - 1] \o t[k], T, P, S)
    BY <2>2, <2>4, AlikeConcat, Zenon
  <2> QED  BY <2>1, <2>3, <2>5
<1> HIDE DEF R
<1>5. n \in R
  BY <1>3, <1>4, NatSetInduction
<1>6. Alike(g[n], h[n], T, P, S)
  BY <1>5 DEF R
<1>7. FlattenSeq(u) = g[n] /\ FlattenSeq(t) = h[n]
  BY <1>0, <1>1, <1>2, FlattenIsJoin
<1> QED  BY <1>6, <1>7

=============================================================================
