---------------------------- MODULE AnswerProofs ----------------------------
(***************************************************************************)
(* Theorems about what cameras answer: CameraReplies, for any replies and  *)
(* messages and any bounds on their sizes, and CameraClock, for any        *)
(* clocks, any skews between them and any number of seconds.               *)
(*                                                                         *)
(* The models of replies compute functions of sequences, so their proofs   *)
(* need induction over numbers.  It is used here on sets: the set of the   *)
(* numbers that have a property has 0, and n + 1 with every n.             *)
(***************************************************************************)
EXTENDS CameraReplies, CameraClock, FiniteSetTheorems, SequenceTheorems,
        WellFoundedInduction, TLAPS

(* Induction, recursion and sequences. *)

(* The pairs of numbers in order. *)
Below == {p \in Nat \X Nat : p[1] < p[2]}

(* A nonempty set of numbers has a least one. *)
LEMMA Least ==
    ASSUME NEW A \in SUBSET Nat, A # {}
    PROVE  \E n \in A : \A m \in A : n <= m
<1>1. OpToRel(<, Nat) = Below
  BY Zenon DEF OpToRel, Below
<1>2. IsWellFoundedOn(Below, Nat)
  BY <1>1, NatLessThanWellFounded, Zenon
<1>3. PICK n \in A : \A m \in A : ~(<<m, n>> \in Below)
  BY <1>2, WFMin
<1>4. \A m \in A : n <= m
  <2> SUFFICES ASSUME NEW m \in A, ~(n <= m) PROVE FALSE
    OBVIOUS
  <2>1. m \in Nat /\ n \in Nat /\ m < n
    OBVIOUS
  <2>2. <<m, n>> \in Below
    BY <2>1 DEF Below
  <2> QED
    BY <1>3, <2>2
<1> QED
  BY <1>4

(* Induction, over the set of the numbers that have the property. *)
LEMMA Induction ==
    ASSUME NEW A, 0 \in A, \A n \in Nat : n \in A => n + 1 \in A
    PROVE  Nat \subseteq A
<1> SUFFICES ASSUME Nat \ A # {} PROVE FALSE
  OBVIOUS
<1>1. PICK m \in Nat \ A : \A n \in Nat \ A : m <= n
  BY Least
<1>2. m # 0 /\ m - 1 \in Nat /\ m - 1 \in A
  BY <1>1
<1> QED
  BY <1>1, <1>2

(* A nonempty set of numbers up to n has a greatest one. *)
LEMMA Greatest ==
    ASSUME NEW n \in Nat, NEW A \in SUBSET (0..n), A # {}
    PROVE  \E m \in A : \A k \in A : k <= m
<1> DEFINE B == {k \in Nat : n - k \in A}
<1>1. B # {} 
  <2>1. PICK a \in A : TRUE
    OBVIOUS
  <2>2. n - a \in Nat /\ n - (n - a) = a
    OBVIOUS
  <2> QED
    BY <2>1, <2>2
<1>2. PICK k \in B : \A l \in B : k <= l
  BY <1>1, Least
<1>3. \A a \in A : a <= n - k
  <2> TAKE a \in A
  <2>1. n - a \in Nat /\ n - (n - a) = a
    OBVIOUS
  <2>2. k <= n - a
    BY <1>2, <2>1
  <2> QED
    BY <2>2
<1> QED
  BY <1>2, <1>3

(* G says how a value of D becomes the next, b is the first, and f has them *)
(* up to place Size.                                                              *)
Stays(Size, D, b, G) == b \in D /\ \A n \in 1..Size, d \in D : G[n][d] \in D
Follows(f, Size, D, b, G) ==
    f \in [0..Size -> D] /\ f[0] = b /\ \A n \in 1..Size : f[n] = G[n][f[n - 1]]

(* A function on 0..Size that is defined from its value one place before          *)
(* exists.                                                                  *)
LEMMA Recursion ==
    ASSUME NEW Size \in Nat, NEW D, NEW b, NEW G, Stays(Size, D, b, G)
    PROVE  \E f : Follows(f, Size, D, b, G)
<1> USE DEF Stays, Follows
<1> DEFINE Up(k) == \E f \in [0..k -> D] : f[0] = b /\ \A n \in 1..k : f[n] = G[n][f[n - 1]]
           A == {k \in Nat : k <= Size => Up(k)}
<1>1. 0 \in A
  <2> DEFINE f == [n \in 0..0 |-> b]
  <2>1. f \in [0..0 -> D] /\ f[0] = b /\ \A n \in 1..0 : f[n] = G[n][f[n - 1]]
    OBVIOUS
  <2> HIDE DEF f
  <2>2. Up(0)
    BY <2>1
  <2> QED
    BY <2>2
<1>2. ASSUME NEW k \in Nat, k \in A
      PROVE  k + 1 \in A
  <2> HIDE DEF Up
  <2> SUFFICES ASSUME k + 1 <= Size PROVE Up(k + 1)
    OBVIOUS
  <2>0. Up(k)
    BY <1>2
  <2> USE DEF Up
  <2>1. PICK f \in [0..k -> D] : f[0] = b /\ \A n \in 1..k : f[n] = G[n][f[n - 1]]
    BY <2>0
  <2> DEFINE g == [n \in 0..(k + 1) |-> IF n <= k THEN f[n] ELSE G[k + 1][f[k]]]
  <2>2. g \in [0..(k + 1) -> D]
    <3>1. G[k + 1][f[k]] \in D
      BY <2>1
    <3> QED
      BY <2>1, <3>1
  <2>3. g[0] = b
    BY <2>1
  <2>4. \A n \in 1..(k + 1) : g[n] = G[n][g[n - 1]]
    BY <2>1
  <2> QED
    BY <2>2, <2>3, <2>4
<1>3. Nat \subseteq A
  <2> HIDE DEF A
  <2> QED
    BY <1>1, <1>2, Induction
<1> QED
  BY <1>3

(* What a concatenation is. *)
LEMMA ConcatFacts ==
    ASSUME NEW E, NEW a \in Seq(E), NEW b \in Seq(E)
    PROVE  /\ a \o b \in Seq(E) /\ Len(a) \in Nat /\ Len(b) \in Nat
           /\ Len(a \o b) = Len(a) + Len(b)
           /\ DOMAIN a = 1..Len(a) /\ DOMAIN b = 1..Len(b)
           /\ DOMAIN (a \o b) = 1..(Len(a) + Len(b))
           /\ \A i \in 1..Len(a) : (a \o b)[i] = a[i]
           /\ \A i \in 1..(Len(a) + Len(b)) :
                 i > Len(a) => i - Len(a) \in 1..Len(b) /\ (a \o b)[i] = b[i - Len(a)]
           /\ \A i \in 1..Len(b) :
                 Len(a) + i \in 1..(Len(a) + Len(b)) /\ (a \o b)[Len(a) + i] = b[i]
<1>1. a \o b \in Seq(E) /\ Len(a) \in Nat /\ Len(b) \in Nat /\ Len(a \o b) = Len(a) + Len(b)
  OBVIOUS
<1>2. DOMAIN a = 1..Len(a) /\ DOMAIN b = 1..Len(b) /\ DOMAIN (a \o b) = 1..Len(a \o b)
  BY <1>1
<1>3. \A i \in 1..Len(a) : (a \o b)[i] = a[i]
  OBVIOUS
<1>4. \A i \in 1..(Len(a) + Len(b)) :
         i > Len(a) => i - Len(a) \in 1..Len(b) /\ (a \o b)[i] = b[i - Len(a)]
  BY <1>1
<1>5. \A i \in 1..Len(b) :
         Len(a) + i \in 1..(Len(a) + Len(b)) /\ (a \o b)[Len(a) + i] = b[i]
  BY <1>1
<1> QED
  BY <1>1, <1>2, <1>3, <1>4, <1>5

(* u[n] is the first n sequences of L joined. *)
Joins(u, Size, L) == u[0] = <<>> /\ \A n \in 1..Size : u[n] = u[n - 1] \o L[n]

(* The number of a sequence, and a place in it. *)
Pairs == Nat \X Nat

(* Sequence n of L has the pairs <<n, i>> for i up to c[n]. *)
Numbered(L, Size, c) == \A n \in 1..Size : L[n] = [i \in 1..c[n] |-> <<n, i>>]

(* s has those of the first k, each once. *)
AllPairs(s, k, c) ==
    /\ s \in Seq(Pairs)
    /\ \A i \in DOMAIN s : s[i][1] \in 1..k /\ s[i][2] \in 1..c[s[i][1]]
    /\ \A m \in 1..k : \A j \in 1..c[m] : \E i \in DOMAIN s : s[i] = <<m, j>>
    /\ \A i, j \in DOMAIN s : s[i] = s[j] => i = j

(* Sequences of pairs <<n, i>>, with n the number of the sequence, joined:  *)
(* every pair is there, once.                                               *)
LEMMA PairsJoined ==
    ASSUME NEW Size \in Nat, NEW c \in [1..Size -> Nat], NEW u, NEW L,
           Numbered(L, Size, c), Joins(u, Size, L), NEW k \in 0..Size
    PROVE  AllPairs(u[k], k, c)
<1> DEFINE Typed(m) == u[m] \in Seq(Pairs)
           From(m) == \A i \in DOMAIN u[m] :
                         u[m][i][1] \in 1..m /\ u[m][i][2] \in 1..c[u[m][i][1]]
           All(m) == \A a \in 1..m : \A j \in 1..c[a] :
                         \E i \in DOMAIN u[m] : u[m][i] = <<a, j>>
           Once(m) == \A i, j \in DOMAIN u[m] : u[m][i] = u[m][j] => i = j
           A == {m \in Nat : m <= Size => Typed(m) /\ From(m) /\ All(m) /\ Once(m)}
<1> USE DEF Joins, Numbered
<1>1. Typed(0) /\ From(0) /\ All(0) /\ Once(0)
  OBVIOUS
<1>2. ASSUME NEW m \in Nat, m + 1 <= Size, Typed(m), From(m), All(m), Once(m)
      PROVE  Typed(m + 1) /\ From(m + 1) /\ All(m + 1) /\ Once(m + 1)
  <2> DEFINE q == c[m + 1]
             l == [i \in 1..q |-> <<m + 1, i>>]
             v == u[m + 1]
             w == u[m]
             s == Len(w)
  <2>a. m + 1 \in 1..Size /\ (m + 1) - 1 = m
    BY <1>2
  <2>1. q \in Nat /\ v = w \o l /\ w \in Seq(Pairs)
    <3>1. L[m + 1] = l /\ c[m + 1] \in Nat
      BY <2>a
    <3> HIDE DEF l
    <3>2. u[m + 1] = u[m] \o L[m + 1]
      BY <2>a
    <3> QED
      BY <1>2, <3>1, <3>2
  <2>2. l \in Seq(Pairs) /\ Len(l) = q /\ \A i \in 1..q : l[i] = <<m + 1, i>>
    <3> HIDE DEF q
    <3>1. \A i \in 1..q : <<m + 1, i>> \in Pairs
      BY <2>1 DEF Pairs
    <3>2. l \in [1..q -> Pairs] /\ \A i \in 1..q : l[i] = <<m + 1, i>>
      BY <3>1
    <3> HIDE DEF l
    <3>3. l \in Seq(Pairs) /\ Len(l) = q
      BY <2>1, <3>2
    <3> QED
      BY <3>2, <3>3
  <2> HIDE DEF q, l, v
  <2> HIDE DEF w
  <2>3. /\ v \in Seq(Pairs) /\ Len(v) = s + q /\ s \in Nat
        /\ DOMAIN v = 1..(s + q) /\ DOMAIN w = 1..s
    <3>0. w \o l \in Seq(Pairs)
      BY <2>1, <2>2
    <3>1. Len(w) \in Nat
      BY <2>1
    <3>3. w \in Seq(Pairs) /\ l \in Seq(Pairs)
      BY <2>1, <2>2
    <3>4. Len(w \o l) = Len(w) + Len(l)
      BY <3>3
    <3>2. DOMAIN (w \o l) = 1..(Len(w) + Len(l)) /\ DOMAIN w = 1..Len(w)
      BY <2>1, <2>2, ConcatFacts
    <3> QED
      BY <2>1, <2>2, <3>0, <3>1, <3>2, <3>4, Zenon
  <2>4. \A i \in 1..s : v[i] = w[i]
    <3>1. \A i \in 1..Len(w) : (w \o l)[i] = w[i]
      BY <2>1, <2>2, ConcatFacts
    <3> QED
      BY <2>1, <3>1, Zenon
  <2>5. \A i \in 1..(s + q) : i > s => i - s \in 1..q /\ v[i] = <<m + 1, i - s>>
    <3> TAKE i \in 1..(s + q)
    <3> SUFFICES ASSUME i > s PROVE i - s \in 1..q /\ v[i] = <<m + 1, i - s>>
      OBVIOUS
    <3>a. \A p \in 1..(Len(w) + Len(l)) :
             p > Len(w) => p - Len(w) \in 1..Len(l) /\ (w \o l)[p] = l[p - Len(w)]
      BY <2>1, <2>2, ConcatFacts
    <3>1. i - s \in 1..q /\ v[i] = l[i - s]
      BY <2>1, <2>2, <3>a, Zenon
    <3> QED
      BY <2>2, <3>1, Zenon
  <2> HIDE DEF s
  <2>6. \A i \in 1..s : v[i][1] \in 1..m /\ v[i][2] \in 1..c[v[i][1]]
    BY <1>2, <2>3, <2>4 DEF w
  <2>7. ASSUME NEW i \in DOMAIN v
        PROVE  v[i][1] \in 1..(m + 1) /\ v[i][2] \in 1..c[v[i][1]]
    <3>1. i \in 1..(s + q) /\ i \in Nat
      BY <2>1, <2>3
    <3>2. CASE i <= s
      BY <2>3, <2>6, <3>1, <3>2
    <3>3. CASE i > s
      <4>1. i - s \in 1..q /\ v[i] = <<m + 1, i - s>>
        BY <2>5, <3>1, <3>3
      <4>2. v[i][1] = m + 1 /\ v[i][2] = i - s
        BY <4>1
      <4> QED
        BY <4>1, <4>2 DEF q
    <3> QED
      BY <2>3, <3>1, <3>2, <3>3
  <2>8. ASSUME NEW a \in 1..(m + 1), NEW j \in 1..c[a]
        PROVE  \E i \in DOMAIN v : v[i] = <<a, j>>
    <3>1. CASE a <= m
      <4>1. a \in 1..m
        BY <3>1
      <4>2. PICK i \in DOMAIN w : w[i] = <<a, j>>
        BY <1>2, <4>1 DEF w
      <4>3. i \in 1..s /\ i \in 1..(s + q)
        BY <2>1, <2>3, <4>2
      <4> QED
        BY <2>3, <2>4, <4>2, <4>3
    <3>2. CASE a = m + 1
      <4>1. j \in 1..q
        BY <3>2 DEF q
      <4>a. j \in Nat /\ 1 <= j /\ j <= q
        BY <2>1, <4>1
      <4>2. s + j \in 1..(s + q) /\ s + j > s /\ (s + j) - s = j
        BY <2>1, <2>3, <4>a
      <4> QED
        BY <2>3, <2>5, <3>2, <4>2
    <3> QED
      BY <3>1, <3>2
  <2>9. ASSUME NEW i \in DOMAIN v, NEW j \in DOMAIN v, v[i] = v[j]
        PROVE  i = j
    <3>1. i \in 1..(s + q) /\ i \in Nat /\ j \in 1..(s + q) /\ j \in Nat
      BY <2>1, <2>3
    <3>2. CASE i <= s /\ j <= s
      <4>1. i \in DOMAIN w /\ j \in DOMAIN w /\ i \in 1..s /\ j \in 1..s
        BY <2>3, <3>1, <3>2
      <4>2. w[i] = w[j]
        BY <2>4, <2>9, <4>1
      <4> QED
        BY <1>2, <4>1, <4>2 DEF w
    <3>3. CASE i > s /\ j > s
      <4>1. v[i] = <<m + 1, i - s>> /\ v[j] = <<m + 1, j - s>>
        BY <2>5, <3>1, <3>3
      <4>2. i - s = j - s
        <5>1. <<m + 1, i - s>> = <<m + 1, j - s>>
          BY <2>9, <4>1, Zenon
        <5> QED
          BY <5>1
      <4> QED
        BY <2>3, <3>1, <4>2
    <3>4. CASE i <= s /\ j > s
      <4>a. s \in Nat
        BY <2>3
      <4>b. v[j] = <<m + 1, j - s>>
        BY <2>5, <3>1, <3>4, Zenon
      <4>0. i \in 1..s /\ v[j] = <<m + 1, j - s>>
        BY <4>a, <4>b, <3>1, <3>4
      <4>1. v[i][1] \in 1..m /\ v[j][1] = m + 1
        BY <2>6, <4>0
      <4> QED
        BY <2>9, <4>1
    <3>5. CASE i > s /\ j <= s
      <4>a. s \in Nat
        BY <2>3
      <4>b. v[i] = <<m + 1, i - s>>
        BY <2>5, <3>1, <3>5, Zenon
      <4>0. j \in 1..s /\ v[i] = <<m + 1, i - s>>
        BY <4>a, <4>b, <3>1, <3>5
      <4>1. v[j][1] \in 1..m /\ v[i][1] = m + 1
        BY <2>6, <4>0
      <4> QED
        BY <2>9, <4>1
    <3> QED
      BY <2>3, <3>1, <3>2, <3>3, <3>4, <3>5
  <2> QED
    BY <2>3, <2>7, <2>8, <2>9 DEF v
<1> HIDE DEF Typed, From, All, Once
<1>3. 0 \in A
  BY <1>1
<1>4. ASSUME NEW m \in Nat, m \in A
      PROVE  m + 1 \in A
  BY <1>2, <1>4
<1>5. Nat \subseteq A
  <2> HIDE DEF A
  <2> QED
    BY <1>3, <1>4, Induction
<1>6. k \in Nat /\ k <= Size
  OBVIOUS
<1>7. Typed(k) /\ From(k) /\ All(k) /\ Once(k)
  BY <1>5, <1>6
<1> QED
  BY <1>7 DEF Typed, From, All, Once, AllPairs

(* Joining sequences one after the other is well defined. *)
LEMMA Joined ==
    ASSUME NEW Size \in Nat, NEW E, NEW L, \A n \in 1..Size : L[n] \in Seq(E)
    PROVE  \E f \in [0..Size -> Seq(E)] : Joins(f, Size, L)
<1> DEFINE D == Seq(E)
           G == [n \in 1..Size |-> [d \in D |-> d \o L[n]]]
<1>1. \A n \in 1..Size, d \in D : d \o L[n] \in D
  OBVIOUS
<1>2. \A n \in 1..Size, d \in D : G[n][d] = d \o L[n]
  OBVIOUS
<1>3. <<>> \in D
  OBVIOUS
<1> HIDE DEF G, D
<1>4. PICK f \in [0..Size -> D] : f[0] = <<>> /\ \A n \in 1..Size : f[n] = G[n][f[n - 1]]
  <2>1. Stays(Size, D, <<>>, G)
    BY <1>1, <1>2, <1>3 DEF Stays
  <2>2. \E f : Follows(f, Size, D, <<>>, G)
    BY <2>1, Recursion
  <2> QED
    BY <2>2 DEF Follows
<1>5. \A n \in 1..Size : n - 1 \in 0..Size /\ f[n - 1] \in D
  BY <1>4
<1>6. \A n \in 1..Size : f[n] = f[n - 1] \o L[n]
  BY <1>2, <1>4, <1>5
<1> QED
  BY <1>4, <1>6 DEF D, Joins

(* Sequences with the same places are the same. *)
LEMMA SameSequence ==
    ASSUME NEW E, NEW a \in Seq(E), NEW b \in Seq(E), NEW n, Len(a) = n, Len(b) = n,
           \A i \in 1..n : a[i] = b[i]
    PROVE  a = b
<1>1. a \in [1..n -> E] /\ b \in [1..n -> E]
  OBVIOUS
<1> QED
  BY <1>1

(* Concatenation is associative, and <<>> is its neutral element. *)
LEMMA ConcatAssoc ==
    ASSUME NEW E, NEW a \in Seq(E), NEW b \in Seq(E), NEW c \in Seq(E)
    PROVE  a \o (b \o c) = (a \o b) \o c
<1> DEFINE l == a \o (b \o c)
           r == (a \o b) \o c
           n == Len(a) + Len(b) + Len(c)
<1>1. /\ Len(a) \in Nat /\ Len(b) \in Nat /\ Len(c) \in Nat
      /\ a \o b \in Seq(E) /\ b \o c \in Seq(E)
      /\ Len(a \o b) = Len(a) + Len(b) /\ Len(b \o c) = Len(b) + Len(c)
  OBVIOUS
<1>2. l \in Seq(E) /\ Len(l) = n /\ r \in Seq(E) /\ Len(r) = n
  BY <1>1
<1>3. ASSUME NEW i \in 1..n
      PROVE  l[i] = r[i]
  <2>1. CASE i <= Len(a)
    BY <1>1, <2>1
  <2>2. CASE i > Len(a) /\ i <= Len(a) + Len(b)
    <3>1. i - Len(a) \in 1..Len(b) /\ i \in 1..Len(a \o b) /\ i - Len(a) \in 1..Len(b \o c)
      BY <1>1, <2>2
    <3>2. l[i] = (b \o c)[i - Len(a)] /\ r[i] = (a \o b)[i]
      BY <1>1, <2>2, <3>1
    <3> QED
      BY <1>1, <2>2, <3>1, <3>2
  <2>3. CASE i > Len(a) + Len(b)
    <3>1. l[i] = (b \o c)[i - Len(a)] /\ r[i] = c[i - Len(a \o b)]
      BY <1>1, <2>3
    <3>2. (b \o c)[i - Len(a)] = c[i - Len(a) - Len(b)]
      BY <1>1, <2>3
    <3> QED
      BY <1>1, <3>1, <3>2
  <2> QED
    BY <1>1, <2>1, <2>2, <2>3
<1> QED
  BY <1>2, <1>3, SameSequence

(* The same, for every three sequences. *)
LEMMA Regrouped ==
    ASSUME NEW E
    PROVE  \A a, b, c \in Seq(E) : a \o (b \o c) = (a \o b) \o c
BY ConcatAssoc

(* The empty sequence adds nothing. *)
LEMMA ConcatEmpty ==
    ASSUME NEW E, NEW a \in Seq(E)
    PROVE  a \o <<>> = a /\ <<>> \o a = a
<1>1. <<>> \in Seq(E) /\ Len(<<>>) = 0 /\ Len(a) \in Nat
  OBVIOUS
<1>2. a \o <<>> = a
  <2>1. a \o <<>> \in Seq(E) /\ Len(a \o <<>>) = Len(a)
        /\ \A i \in 1..Len(a) : (a \o <<>>)[i] = a[i]
    BY <1>1
  <2> QED
    BY <2>1, SameSequence
<1>3. <<>> \o a = a
  <2>1. <<>> \o a \in Seq(E) /\ Len(<<>> \o a) = Len(a)
        /\ \A i \in 1..Len(a) : (<<>> \o a)[i] = a[i]
    BY <1>1
  <2> QED
    BY <2>1, SameSequence
<1> QED
  BY <1>2, <1>3

(* Flattening joins, one sequence after the other. *)
LEMMA Flattened ==
    ASSUME NEW E, NEW Size \in Nat, NEW L \in [1..Size -> Seq(E)]
    PROVE  \E u \in [0..Size -> Seq(E)] : Joins(u, Size, L) /\ S!FlattenSeq(L) = u[Size]
<1>0. L \in Seq(Seq(E)) /\ Len(L) = Size /\ \A n \in 1..Size : L[n] \in Seq(E)
  OBVIOUS
<1>1. PICK u \in [0..Size -> Seq(E)] : Joins(u, Size, L)
  BY <1>0, Joined
<1>a. u[0] = <<>> /\ \A n \in 1..Size : u[n] = u[n - 1] \o L[n]
  BY <1>1 DEF Joins
<1>b. Size # 0 => 1 \in 1..Size /\ 1 - 1 = 0 /\ u[1] = u[0] \o L[1] /\ L[1] \in Seq(E)
  <2> SUFFICES ASSUME Size # 0
               PROVE  1 \in 1..Size /\ 1 - 1 = 0 /\ u[1] = u[0] \o L[1] /\ L[1] \in Seq(E)
    OBVIOUS
  <2>1. 1 \in 1..Size /\ 1 - 1 = 0
    OBVIOUS
  <2>2. u[1] = u[1 - 1] \o L[1]
    BY <1>a, <2>1
  <2> QED
    BY <1>0, <2>1, <2>2
<1>2. CASE Size = 0
  <2>1. S!FlattenSeq(L) = L
    BY <1>0, <1>2 DEF S!FlattenSeq
  <2>2. L = <<>>
    BY <1>0, <1>2
  <2> QED
    BY <1>1, <1>2, <2>1, <2>2 DEF Joins
<1>3. CASE Size # 0
  <2> DEFINE flatten[i \in 1..Size] == IF i = 1 THEN L[i] ELSE flatten[i - 1] \o L[i]
             f == [n \in 1..Size |-> u[n]]
  <2>1. f = [i \in 1..Size |-> IF i = 1 THEN L[i] ELSE f[i - 1] \o L[i]]
    <3>1. \A i \in 1..Size : f[i] = IF i = 1 THEN L[i] ELSE f[i - 1] \o L[i]
      <4> TAKE i \in 1..Size
      <4>1. CASE i = 1
        <5>1. u[1] = u[0] \o L[1] /\ u[0] = <<>> /\ L[1] \in Seq(E)
          BY <1>3, <1>a, <1>b, <4>1
        <5>2. u[1] = L[1]
          BY <5>1, ConcatEmpty
        <5> QED
          BY <4>1, <5>2
      <4>2. CASE i # 1
        <5>1. i - 1 \in 1..Size
          BY <4>2
        <5>2. u[i] = u[i - 1] \o L[i]
          BY <1>a
        <5> QED
          BY <4>2, <5>1, <5>2
      <4> QED
        BY <4>1, <4>2
    <3> QED
      BY <3>1
  <2>2. flatten = [i \in 1..Size |-> IF i = 1 THEN L[i] ELSE flatten[i - 1] \o L[i]]
    BY <2>1
  <2>3. S!FlattenSeq(L) = flatten[Size]
    BY <1>0, <1>3 DEF S!FlattenSeq
  <2> HIDE DEF flatten, f
  <2> DEFINE A == {n \in Nat : n + 1 <= Size => flatten[n + 1] = u[n + 1]}
  <2>4. \A i \in 1..Size : flatten[i] = IF i = 1 THEN L[i] ELSE flatten[i - 1] \o L[i]
    BY <2>2
  <2>5. 0 \in A
    <3>1. u[1] = u[0] \o L[1] /\ u[0] = <<>> /\ L[1] \in Seq(E) /\ 1 \in 1..Size
      BY <1>3, <1>a, <1>b
    <3>2. u[1] = L[1]
      BY <3>1, ConcatEmpty
    <3> QED
      BY <2>4, <3>1, <3>2
  <2>6. ASSUME NEW n \in Nat, n \in A
        PROVE  n + 1 \in A
    <3> SUFFICES ASSUME (n + 1) + 1 <= Size PROVE flatten[(n + 1) + 1] = u[(n + 1) + 1]
      OBVIOUS
    <3>1. n + 2 \in 1..Size /\ (n + 2) - 1 = n + 1 /\ n + 2 # 1 /\ (n + 1) + 1 = n + 2
      OBVIOUS
    <3>2. flatten[n + 1] = u[n + 1]
      BY <2>6
    <3>3. flatten[n + 2] = flatten[n + 1] \o L[n + 2]
      BY <2>4, <3>1
    <3>4. u[n + 2] = u[n + 1] \o L[n + 2]
      BY <1>1, <3>1 DEF Joins
    <3> QED
      BY <3>1, <3>2, <3>3, <3>4
  <2>7. Nat \subseteq A
    <3> HIDE DEF A
    <3> QED
      BY <2>5, <2>6, Induction
  <2>8. flatten[Size] = u[Size]
    <3>1. Size - 1 \in Nat /\ (Size - 1) + 1 = Size
      BY <1>3
    <3>2. Size - 1 \in A
      BY <2>7, <3>1
    <3> QED
      BY <3>1, <3>2
  <2> QED
    BY <1>1, <2>3, <2>8
<1> QED
  BY <1>2, <1>3

--------------------------------------------------------------------------------
(* ServiceTables. *)

(* The entries of a reply that a later one of their namespace replaces. *)
Replaced(r) ==
    {i \in DOMAIN r : /\ r[i] \in T!Fields
                      /\ \E j \in (i + 1)..Len(r) : r[j] = r[i]}

(* The table of services lives from its reply to the making of services,    *)
(* with the blocks of this reply beside what earlier tables leaked.         *)
ServiceTable ==
    /\ \A f \in T!Fields : field[f] = IF step = "services" THEN T!Entry(reply[attempt], f) ELSE 0
    /\ entries = {b \in T!Attempts \X (1..MaxEntries) :
                    b[2] \in IF step = "services" /\ b[1] = attempt
                             THEN T!Created(reply[attempt]) ELSE Replaced(reply[b[1]])}

(* That of capabilities lives from its reply too, and leaks its DeviceIO.   *)
(* If the reply has what the schema requires, a part that is NULL is one    *)
(* that it does not name.                                                   *)
PartTable ==
    /\ step \notin {"capabilities", "crashed"} => caps = {}
    /\ step = "capabilities" /\ "required" \notin lacks => T!Needed \ caps \subseteq lacks
    /\ step = "crashed" /\ "required" \notin lacks => T!Needed \cap lacks # {}
    /\ \A b \in parts :
          b[2] = "deviceio" \/ (step \in {"capabilities", "crashed"} /\ b[1] = attempt)

(* What is known of the attempt under way.                                  *)
Making == {"get_services", "services", "get_capabilities", "capabilities"}

(* How far the runs of createServices are. *)
Attempted ==
    /\ step \notin {"idle", "disposed"} => attempt # 0
    /\ \A a \in T!Attempts : a > attempt => reply[a] = <<>>
    /\ step \in {"get_services", "get_capabilities", "capabilities", "crashed"} =>
          reply[attempt] = <<>>

(* What the device holds is of the latest attempt that offered it, and what *)
(* is lost of it is older.                                                  *)
Holding ==
    /\ \A k \in T!Kinds : held[k] <= attempt
    /\ step \in Making => \A k \in T!Kinds : held[k] < attempt
    /\ step \in Making \cup {"idle", "failed"} => held["media"] = 0
    /\ \A k \in T!Kinds : held[k] # 0 =>
          \/ place[k] = T!FromCapabilities
          \/ /\ place[k] \in DOMAIN reply[held[k]]
             /\ T!Entry(reply[held[k]], k) = place[k]
    /\ step \in {"created", "authenticated"} =>
          \A k \in T!Kinds : T!Entry(reply[attempt], k) # 0 => held[k] = attempt
    /\ \A s \in services : s[1] \in 1..attempt /\ (step \in Making => s[1] < attempt)
    /\ T!ServiceLeaksNeedRetry

(* Where each service is from, and what it is made of. *)
ServiceInv == T!TypeOK /\ ServiceTable /\ PartTable /\ Attempted /\ Holding

(* A field is left with the last entry of its namespace. *)
LEMMA LastEntry ==
    ASSUME NEW r \in T!Replies, NEW f
    PROVE  /\ T!Entry(r, f) \in 0..MaxEntries
           /\ T!Entry(r, f) = 0 <=> \A i \in DOMAIN r : r[i] # f
           /\ T!Entry(r, f) # 0 =>
                 /\ T!Entry(r, f) \in DOMAIN r /\ r[T!Entry(r, f)] = f
                 /\ \A j \in (T!Entry(r, f) + 1)..Len(r) : r[j] # f
           /\ \A i \in DOMAIN r : r[i] = f =>
                 (T!Entry(r, f) = i <=> ~\E j \in (i + 1)..Len(r) : r[j] = f)
<1>1. PICK n \in 0..MaxEntries : r \in [1..n -> T!Namespaces]
  BY DEF T!Replies
<1>2. n \in Nat /\ DOMAIN r = 1..n /\ Len(r) = n
  BY <1>1, RepliesAssumption
<1> DEFINE Of == {i \in DOMAIN r : r[i] = f}
           Last(i) == r[i] = f /\ \A j \in (i + 1)..Len(r) : r[j] # f
<1>3. CASE Of = {}
  BY <1>2, <1>3, RepliesAssumption DEF T!Entry
<1>4. CASE Of # {}
  <2>1. Of \in SUBSET (0..n)
    BY <1>2
  <2>2. PICK m \in Of : \A k \in Of : k <= m
    BY <1>2, <1>4, <2>1, Greatest
  <2>3. Last(m)
    BY <1>2, <2>2
  <2>4. \A i \in DOMAIN r : Last(i) => i = m
    BY <1>2, <2>2
  <2>5. T!Entry(r, f) = CHOOSE i \in DOMAIN r : Last(i)
    BY <1>4 DEF T!Entry
  <2>6. T!Entry(r, f) = m
    BY <2>2, <2>3, <2>4, <2>5
  <2> QED
    BY <1>2, <2>2, <2>3, <2>4, <2>6, RepliesAssumption
<1> QED
  BY <1>3, <1>4

(* A new device has no services. *)
LEMMA ServicesInit == T!Init => ServiceInv
<1> SUFFICES ASSUME T!Init PROVE ServiceInv
  OBVIOUS
<1>1. <<>> \in T!Replies
  <2>1. 0 \in 0..MaxEntries /\ <<>> \in [1..0 -> T!Namespaces]
    BY RepliesAssumption
  <2> QED
    BY <2>1 DEF T!Replies
<1>2. T!TypeOK
  BY <1>1, RepliesAssumption DEF T!Init, T!TypeOK, T!NoFields, T!Places
<1>3. ServiceTable
  <2>1. \A a \in T!Attempts : Replaced(reply[a]) = {}
    BY DEF T!Init, Replaced
  <2> QED
    BY <2>1 DEF T!Init, T!NoFields, ServiceTable
<1>4. PartTable /\ Attempted /\ Holding
  BY DEF T!Init, PartTable, Attempted, Holding, Making, T!ServiceLeaksNeedRetry, T!Kinds, T!Attempts
<1> QED
  BY <1>2, <1>3, <1>4 DEF ServiceInv

(* A run of createServices begins. *)
LEMMA CreateServicesKeeps ==
    ASSUME ServiceInv, T!CreateServices
    PROVE  ServiceInv'
<1> USE DEF ServiceInv
<1>1. attempt' = attempt + 1 /\ attempt' \in T!Attempts /\ attempt \in Nat /\ step' = "get_services"
  BY RepliesAssumption DEF T!CreateServices, T!TypeOK, T!Attempts, Holding
<1>2. T!TypeOK'
  BY <1>1 DEF T!CreateServices, T!TypeOK, T!device, T!Attempts
<1>3. ServiceTable'
  BY <1>1 DEF T!CreateServices, ServiceTable
<1>4. PartTable'
  BY <1>1 DEF T!CreateServices, PartTable
<1>5. Attempted'
  <2>1. UNCHANGED reply
    BY DEF T!CreateServices
  <2>2. ASSUME NEW a \in T!Attempts, a > attempt' \/ a = attempt' PROVE reply[a] = <<>>
    <3>1. a > attempt
      BY <1>1, <2>2 DEF T!Attempts
    <3> QED
      BY <3>1 DEF Attempted
  <2> QED
    BY <1>1, <2>1, <2>2 DEF Attempted
<1>6. Holding'
  BY <1>1 DEF T!CreateServices, Holding, Making, T!TypeOK, T!device, T!Kinds,
              T!ServiceLeaksNeedRetry
<1> QED
  BY <1>2, <1>3, <1>4, <1>5, <1>6

(* GetServices is answered, or it fails. *)
LEMMA GetServicesKeeps ==
    ASSUME ServiceInv, T!GetServices
    PROVE  ServiceInv'
<1> USE DEF ServiceInv
<1>1. attempt' = attempt /\ attempt \in T!Attempts /\ attempt \in Nat /\ step = "get_services"
  BY RepliesAssumption DEF T!GetServices, T!TypeOK, T!Attempts, Attempted
<1>2. UNCHANGED <<caps, parts, held, place, services>>
  BY DEF T!GetServices, T!device
<1>3. CASE /\ step' \in {"failed", "get_capabilities", "crashed"}
           /\ UNCHANGED <<reply, field, entries>>
           /\ lacks' \in {lacks, {"required"}} /\ (step' = "crashed" => lacks' = {"required"})
  <2>1. T!TypeOK'
    BY <1>1, <1>2, <1>3 DEF T!TypeOK
  <2>2. ServiceTable'
    BY <1>1, <1>2, <1>3 DEF ServiceTable
  <2>3. PartTable' /\ Attempted'
    BY <1>1, <1>2, <1>3 DEF PartTable, Attempted
  <2>4. Holding'
    BY <1>1, <1>2, <1>3 DEF Holding, Making, T!ServiceLeaksNeedRetry
  <2> QED
    BY <2>1, <2>2, <2>3, <2>4
<1>4. ASSUME NEW r \in T!Replies,
             reply' = [reply EXCEPT ![attempt] = r],
             field' = [f \in T!Fields |-> T!Entry(r, f)],
             entries' = entries \cup {<<attempt, i>> : i \in T!Created(r)},
             lacks' = {}, step' = "services"
      PROVE  ServiceInv'
  <2>1. /\ reply \in [T!Attempts -> T!Replies] /\ reply' \in [T!Attempts -> T!Replies]
        /\ reply'[attempt] = r
    BY <1>1, <1>4 DEF T!TypeOK
  <2>2. DOMAIN r \subseteq 1..MaxEntries
    BY RepliesAssumption DEF T!Replies
  <2>3. T!TypeOK'
    <3>1. \A f \in T!Fields : T!Entry(r, f) \in 0..MaxEntries
      BY LastEntry
    <3>2. entries' \subseteq T!Attempts \X (1..MaxEntries)
      BY <1>1, <1>4, <2>2 DEF T!TypeOK, T!Created
    <3> QED
      BY <1>1, <1>2, <1>4, <2>1, <3>1, <3>2 DEF T!TypeOK
  <2>4. ServiceTable'
    <3>1. \A b \in T!Attempts \X (1..MaxEntries) :
             b \in entries <=> b[1] # attempt /\ b[2] \in Replaced(reply[b[1]])
      <4>1. Replaced(reply[attempt]) = {}
        BY <1>1 DEF Replaced, Attempted
      <4> QED
        BY <1>1, <4>1 DEF ServiceTable
    <3>2. \A b \in T!Attempts \X (1..MaxEntries) : b[1] # attempt => reply'[b[1]] = reply[b[1]]
      BY <1>4, <2>1
    <3>3. entries' \subseteq T!Attempts \X (1..MaxEntries)
      BY <2>3 DEF T!TypeOK
    <3>4. \A b \in T!Attempts \X (1..MaxEntries) :
             b \in entries' <=> b \in entries \/ (b[1] = attempt /\ b[2] \in T!Created(r))
      <4>1. \A b \in T!Attempts \X (1..MaxEntries) : b = <<b[1], b[2]>>
        OBVIOUS
      <4>2. \A b \in T!Attempts \X (1..MaxEntries) :
               b \in {<<attempt, i>> : i \in T!Created(r)}
                  <=> b[1] = attempt /\ b[2] \in T!Created(r)
        <5> TAKE b \in T!Attempts \X (1..MaxEntries)
        <5>1. b \in {<<attempt, i>> : i \in T!Created(r)}
                 <=> \E i \in T!Created(r) : b = <<attempt, i>>
          OBVIOUS
        <5>2. \A i : b = <<attempt, i>> <=> b[1] = attempt /\ b[2] = i
          BY <4>1
        <5> QED
          BY <5>1, <5>2
      <4> QED
        BY <1>4, <4>2
    <3>5. entries' = {b \in T!Attempts \X (1..MaxEntries) :
                    b[2] \in IF b[1] = attempt
                             THEN T!Created(r) ELSE Replaced(reply'[b[1]])}
      <4>1. \A b \in T!Attempts \X (1..MaxEntries) :
               b \in entries' <=> b[2] \in IF b[1] = attempt
                             THEN T!Created(r) ELSE Replaced(reply'[b[1]])
        BY <3>1, <3>2, <3>4
      <4> QED
        BY <3>3, <4>1
    <3> QED
      BY <1>1, <1>4, <2>1, <3>5 DEF ServiceTable
  <2>5. PartTable' /\ Attempted'
    BY <1>1, <1>2, <1>4, <2>1 DEF PartTable, Attempted
  <2>6. Holding'
    <3>1. \A k \in T!Kinds : held[k] # 0 =>
             held[k] \in T!Attempts /\ reply'[held[k]] = reply[held[k]]
      BY <1>1, <1>4, <2>1 DEF Holding, Making, T!TypeOK, T!Attempts
    <3> QED
      BY <1>1, <1>2, <1>4, <3>1 DEF Holding, Making, T!ServiceLeaksNeedRetry
  <2> QED
    BY <2>3, <2>4, <2>5, <2>6
<1> QED
  BY <1>3, <1>4 DEF T!GetServices

(* The entries of the answer become services, one after the other. *)
LEMMA MakeFromServicesKeeps ==
    ASSUME ServiceInv, T!MakeFromServices
    PROVE  ServiceInv'
<1> USE DEF ServiceInv
<1> DEFINE r == reply[attempt]
<1>1. /\ attempt \in T!Attempts /\ attempt \in Nat /\ attempt # 0 /\ step = "services"
      /\ UNCHANGED <<attempt, reply, caps, parts, lacks>>
  BY RepliesAssumption DEF T!MakeFromServices, T!TypeOK, T!Attempts, Attempted
<1>2. r \in T!Replies
  BY <1>1 DEF T!TypeOK
<1>3. \A f \in T!Fields : field[f] = T!Entry(r, f)
  BY <1>1 DEF ServiceTable
<1>4. T!Kinds \subseteq T!Fields
  BY DEF T!Fields
<1>5. /\ held' = [k \in T!Kinds |-> IF T!Entry(r, k) # 0 THEN attempt ELSE held[k]]
      /\ place' = [k \in T!Kinds |-> IF T!Entry(r, k) # 0 THEN T!Entry(r, k) ELSE place[k]]
      /\ services' = services \cup {<<attempt, k>> : k \in T!Offered}
      /\ entries' = entries \ T!Reset /\ field' = T!NoFields /\ step' = "created"
  <2>1. ~\E k \in T!Offered : field[k] = 0
    BY DEF T!Offered
  <2>2. T!Hold(T!Offered, field) /\ entries' = entries \ T!Reset
        /\ field' = T!NoFields /\ step' = "created"
    BY <2>1 DEF T!MakeFromServices
  <2>3. \A k \in T!Kinds : k \in T!Offered <=> T!Entry(r, k) # 0
    BY <1>3, <1>4 DEF T!Offered
  <2> QED
    BY <1>3, <1>4, <2>2, <2>3 DEF T!Hold
<1>6. T!Offered = {k \in T!Kinds : T!Entry(r, k) # 0}
  BY <1>3, <1>4 DEF T!Offered
<1>7. T!TypeOK'
  <2>1. \A k \in T!Kinds : T!Entry(r, k) \in 0..MaxEntries
    BY <1>2, LastEntry
  <2>2. 0..MaxEntries \subseteq {0} \cup T!Places
    BY RepliesAssumption DEF T!Places, T!FromCapabilities
  <2>3. held' \in [T!Kinds -> 0..MaxAttempts]
    BY <1>1, <1>5 DEF T!TypeOK
  <2>4. place' \in [T!Kinds -> {0} \cup T!Places]
    BY <1>5, <2>1, <2>2 DEF T!TypeOK
  <2>5. services' \subseteq T!Attempts \X T!Kinds
    BY <1>1, <1>5, <1>6 DEF T!TypeOK
  <2>6. field' \in [T!Fields -> 0..MaxEntries]
    BY <1>5, RepliesAssumption DEF T!NoFields
  <2> QED
    BY <1>1, <1>5, <2>3, <2>4, <2>5, <2>6 DEF T!TypeOK
<1>8. ServiceTable'
  <2>1. \A b \in T!Attempts \X (1..MaxEntries) :
           b \in T!Reset <=> b[1] = attempt /\ \E f \in T!Fields : b[2] = T!Entry(r, f)
    <3> TAKE b \in T!Attempts \X (1..MaxEntries)
    <3>1. b \in T!Reset <=> \E f \in T!Fields : b = <<attempt, field[f]>>
      BY DEF T!Reset
    <3>2. \A i : b = <<attempt, i>> <=> b[1] = attempt /\ b[2] = i
      OBVIOUS
    <3> QED
      BY <1>3, <3>1, <3>2
  <2>2. \A i \in DOMAIN r : i \in T!Created(r) =>
           (i \notin Replaced(r) <=> \E f \in T!Fields : i = T!Entry(r, f))
    <3> TAKE i \in DOMAIN r
    <3> SUFFICES ASSUME r[i] \in T!Fields
                 PROVE  i \notin Replaced(r) <=> \E f \in T!Fields : i = T!Entry(r, f)
      BY DEF T!Created
    <3>1. i # 0
      BY <1>2 DEF T!Replies
    <3>2. \A f \in T!Fields : i = T!Entry(r, f) => r[i] = f
      BY <1>2, <3>1, LastEntry
    <3>3. T!Entry(r, r[i]) = i <=> ~\E j \in (i + 1)..Len(r) : r[j] = r[i]
      BY <1>2, LastEntry
    <3>4. i \notin Replaced(r) <=> ~\E j \in (i + 1)..Len(r) : r[j] = r[i]
      BY DEF Replaced
    <3> QED
      BY <3>2, <3>3, <3>4
  <2>3. \A b \in T!Attempts \X (1..MaxEntries) :
           b \in entries' <=> b[2] \in Replaced(reply[b[1]])
    <3> TAKE b \in T!Attempts \X (1..MaxEntries)
    <3>1. b \in entries' <=> b \in entries /\ b \notin T!Reset
      BY <1>5
    <3>2. CASE b[1] = attempt
      <4>1. b \in entries <=> b[2] \in T!Created(r)
        BY <1>1, <3>2 DEF ServiceTable
      <4>2. Replaced(r) \subseteq T!Created(r) /\ T!Created(r) \subseteq DOMAIN r
        BY DEF Replaced, T!Created
      <4> QED
        BY <2>1, <2>2, <3>1, <3>2, <4>1, <4>2
    <3>3. CASE b[1] # attempt
      BY <1>1, <2>1, <3>1, <3>3 DEF ServiceTable
    <3> QED
      BY <3>2, <3>3
  <2>4. entries' \subseteq T!Attempts \X (1..MaxEntries)
    BY <1>5 DEF T!TypeOK
  <2>5. entries' = {b \in T!Attempts \X (1..MaxEntries) : b[2] \in Replaced(reply'[b[1]])}
    BY <1>1, <2>3, <2>4
  <2> QED
    BY <1>1, <1>5, <2>5 DEF ServiceTable, T!NoFields
<1>9. PartTable' /\ Attempted'
  BY <1>1, <1>5 DEF PartTable, Attempted
<1>10. Holding'
  <2>1. \A k \in T!Kinds : held'[k] # 0 =>
          \/ place'[k] = T!FromCapabilities
          \/ /\ place'[k] \in DOMAIN reply'[held'[k]]
             /\ T!Entry(reply'[held'[k]], k) = place'[k]
    <3> TAKE k \in T!Kinds
    <3>1. CASE T!Entry(r, k) # 0
      <4>1. held'[k] = attempt /\ place'[k] = T!Entry(r, k) /\ reply' = reply
        BY <1>1, <1>5, <3>1
      <4>2. T!Entry(r, k) \in DOMAIN r
        BY <1>2, <3>1, LastEntry
      <4> QED
        BY <4>1, <4>2
    <3>2. CASE T!Entry(r, k) = 0
      BY <1>1, <1>5, <3>2 DEF Holding
    <3> QED
      BY <3>1, <3>2
  <2>2. \A s \in services' : s[1] \in 1..attempt'
    BY <1>1, <1>5 DEF Holding
  <2>3. \A k \in T!Kinds : held'[k] <= attempt'
    BY <1>1, <1>5 DEF Holding, T!TypeOK
  <2>4. \A k \in T!Kinds : T!Entry(reply'[attempt'], k) # 0 => held'[k] = attempt'
    BY <1>1, <1>5
  <2>5. T!ServiceLeaksNeedRetry'
    <3> SUFFICES ASSUME NEW s \in services', held'[s[2]] # s[1]
                 PROVE  s[2] # "media" /\ s[1] < attempt
      BY <1>1 DEF T!ServiceLeaksNeedRetry
    <3>1. \A k \in T!Offered : held'[k] = attempt
      BY <1>5, <1>6
    <3>2. s \in services
      BY <1>5, <3>1
    <3>3. s[2] \in T!Kinds /\ s[1] < attempt /\ s[1] # 0
      BY <1>1, <3>2 DEF T!TypeOK, Holding, Making
    <3>4. held["media"] = 0
      BY <1>1 DEF Holding, Making
    <3> QED
      BY <3>2, <3>3, <3>4 DEF Holding, T!ServiceLeaksNeedRetry
  <2> QED
    BY <1>5, <2>1, <2>2, <2>3, <2>4, <2>5 DEF Holding, Making
<1> QED
  BY <1>7, <1>8, <1>9, <1>10

(* GetCapabilities is answered, or it fails. *)
LEMMA GetCapabilitiesKeeps ==
    ASSUME ServiceInv, T!GetCapabilities
    PROVE  ServiceInv'
<1> USE DEF ServiceInv
<1>1. /\ attempt \in T!Attempts /\ attempt \in Nat /\ step = "get_capabilities"
      /\ UNCHANGED <<attempt, reply, field, entries, held, place, services>>
      /\ step' \in {"capabilities", "failed", "crashed"}
  BY RepliesAssumption DEF T!GetCapabilities, T!TypeOK, T!Attempts, Attempted, T!device
<1>2. T!TypeOK' /\ PartTable'
  <2>0. \A c \in T!Capabilities : T!Lacking(c) \subseteq T!Needed \cup {"required"}
    BY DEF T!Lacking
  <2>1. CASE step' = "failed" /\ UNCHANGED <<caps, parts, lacks>>
    BY <1>1, <2>1 DEF T!TypeOK, PartTable
  <2>3. ASSUME NEW c \in T!Capabilities, T!ReadsNull(c), lacks' = T!Lacking(c),
               step' = "crashed", UNCHANGED <<caps, parts>>
        PROVE  T!TypeOK' /\ PartTable'
    <3>1. T!TypeOK'
      BY <1>1, <2>0, <2>3 DEF T!TypeOK
    <3>2. "required" \in lacks'
      BY <2>3 DEF T!ReadsNull, T!Lacking, T!Parts
    <3> QED
      BY <1>1, <2>3, <3>1, <3>2 DEF PartTable
  <2>2. ASSUME NEW c \in T!Capabilities, caps' = T!PartsOf(c), step' = "capabilities",
               parts' = parts \cup {<<attempt, p>> : p \in T!PartsOf(c)},
               lacks' = T!Lacking(c)
        PROVE  T!TypeOK' /\ PartTable'
    <3>1. T!PartsOf(c) \subseteq T!Parts
      BY DEF T!PartsOf
    <3>2. caps' \subseteq T!Parts /\ parts' \subseteq T!Attempts \X T!Parts
      BY <1>1, <2>2, <3>1 DEF T!TypeOK
    <3>3. T!TypeOK'
      BY <1>1, <2>0, <2>2, <3>2 DEF T!TypeOK
    <3>4. ASSUME "required" \notin lacks' PROVE T!Needed \ caps' \subseteq lacks'
      <4>1. \A p \in T!Parts : c[p] \in {"absent", "whole"}
        BY <2>2, <3>4 DEF T!Capabilities, T!Presence, T!Lacking
      <4>2. \A p \in T!Needed : p \notin T!PartsOf(c) => c[p] = "absent"
        BY <4>1 DEF T!Needed, T!Parts, T!PartsOf, T!Media, T!DeviceIO
      <4> QED
        BY <2>2, <4>2 DEF T!Lacking
    <3>5. PartTable'
      BY <1>1, <2>2, <3>4 DEF PartTable
    <3> QED
      BY <3>3, <3>5
  <2> QED
    BY <2>1, <2>2, <2>3 DEF T!GetCapabilities
<1>3. ServiceTable'
  BY <1>1 DEF ServiceTable
<1>4. Attempted'
  BY <1>1 DEF Attempted
<1>5. Holding'
  BY <1>1 DEF Holding, Making, T!ServiceLeaksNeedRetry
<1> QED
  BY <1>2, <1>3, <1>4, <1>5

(* The parts of the capabilities become services. *)
LEMMA MakeFromCapabilitiesKeeps ==
    ASSUME ServiceInv, T!MakeFromCapabilities
    PROVE  ServiceInv'
<1> USE DEF ServiceInv
<1>1. /\ attempt \in T!Attempts /\ attempt \in Nat /\ attempt # 0 /\ step = "capabilities"
      /\ UNCHANGED <<attempt, reply, field, entries, lacks>>
      /\ reply[attempt] = <<>> /\ <<>> \in T!Replies
  BY RepliesAssumption DEF T!MakeFromCapabilities, T!TypeOK, T!Attempts, Attempted
<1>2. CASE /\ ~(T!Needed \subseteq caps) /\ step' = "crashed"
           /\ UNCHANGED <<caps, parts, held, place, services>>
  <2>1. T!TypeOK' /\ ServiceTable'
    BY <1>1, <1>2 DEF T!TypeOK, ServiceTable
  <2>2. PartTable' /\ Attempted'
    BY <1>1, <1>2 DEF PartTable, Attempted, T!Needed
  <2>3. Holding'
    BY <1>1, <1>2 DEF Holding, Making, T!ServiceLeaksNeedRetry
  <2> QED
    BY <2>1, <2>2, <2>3
<1>3. CASE /\ T!Hold(T!Kinds, [k \in T!Kinds |-> T!FromCapabilities])
           /\ parts' = parts \ ({attempt} \X T!FreedParts)
           /\ caps' = {} /\ step' = "created"
  <2>1. /\ held' = [k \in T!Kinds |-> attempt]
        /\ place' = [k \in T!Kinds |-> T!FromCapabilities]
        /\ services' = services \cup {<<attempt, k>> : k \in T!Kinds}
    BY <1>3 DEF T!Hold
  <2>2. T!TypeOK'
    <3>1. T!FromCapabilities \in T!Places /\ attempt \in 0..MaxAttempts
      BY <1>1, RepliesAssumption DEF T!Places, T!FromCapabilities, T!TypeOK
    <3>2. services' \subseteq T!Attempts \X T!Kinds
      BY <1>1, <2>1 DEF T!TypeOK
    <3>3. parts' \subseteq T!Attempts \X T!Parts
      BY <1>3 DEF T!TypeOK
    <3> QED
      BY <1>1, <1>3, <2>1, <3>1, <3>2, <3>3 DEF T!TypeOK
  <2>3. ServiceTable'
    BY <1>1, <1>3 DEF ServiceTable
  <2>4. PartTable'
    <3>1. \A b \in parts' : b[2] = "deviceio"
      <4> TAKE b \in parts'
      <4>1. b \in parts /\ b \in T!Attempts \X T!Parts /\ b \notin {attempt} \X T!FreedParts
        BY <1>3 DEF T!TypeOK
      <4>2. b = <<b[1], b[2]>> /\ b[2] \in T!Parts
        BY <4>1
      <4>3. b[1] = attempt => b[2] \notin T!FreedParts
        BY <4>1, <4>2
      <4> QED
        BY <1>1, <4>1, <4>2, <4>3 DEF PartTable, T!FreedParts, T!Parts
    <3> QED
      BY <1>3, <3>1 DEF PartTable
  <2>5. Attempted'
    BY <1>1, <1>3 DEF Attempted
  <2>6. Holding'
    <3>1. \A s \in services' : s[1] \in 1..attempt /\ s[2] \in T!Kinds
      BY <1>1, <2>1 DEF Holding, T!TypeOK
    <3>2. T!ServiceLeaksNeedRetry'
      <4> SUFFICES ASSUME NEW s \in services', held'[s[2]] # s[1]
                   PROVE  s[2] # "media" /\ s[1] < attempt
        BY <1>1 DEF T!ServiceLeaksNeedRetry
      <4>1. s \in services /\ s[2] \in T!Kinds
        BY <2>1, <3>1
      <4>2. held["media"] = 0 /\ s[1] < attempt /\ s[1] # 0
        BY <1>1, <4>1 DEF Holding, Making
      <4> QED
        BY <4>1, <4>2 DEF Holding, T!ServiceLeaksNeedRetry
    <3>3. \A k \in T!Kinds : T!Entry(reply'[attempt'], k) # 0 => held'[k] = attempt'
      BY <1>1, <2>1
    <3> QED
      BY <1>1, <1>3, <2>1, <3>1, <3>2, <3>3 DEF Holding, Making
  <2> QED
    BY <2>2, <2>3, <2>4, <2>5, <2>6
<1> QED
  BY <1>2, <1>3 DEF T!MakeFromCapabilities, T!device

(* GetStreamUri fails, and the media service is dropped, or it does not. *)
LEMMA GetStreamUriKeeps ==
    ASSUME ServiceInv, T!GetStreamUri
    PROVE  ServiceInv'
<1> USE DEF ServiceInv
<1>1. /\ attempt \in T!Attempts /\ attempt # 0 /\ step = "created"
      /\ UNCHANGED <<attempt, reply, field, entries, caps, parts, place, lacks>>
      /\ step' \in {"authenticated", "failed"}
      /\ \/ step' = "authenticated" /\ UNCHANGED <<held, services>>
         \/ /\ step' = "failed" /\ held' = [held EXCEPT !["media"] = 0]
            /\ services' = services \ {<<held["media"], "media">>}
  BY RepliesAssumption DEF T!GetStreamUri, T!TypeOK, T!Attempts, Attempted, T!device
<1>2. T!TypeOK'
  <2>1. held' \in [T!Kinds -> 0..MaxAttempts]
    <3>1. 0 \in 0..MaxAttempts /\ held \in [T!Kinds -> 0..MaxAttempts]
      BY RepliesAssumption DEF T!TypeOK
    <3> QED
      BY <1>1, <3>1
  <2>2. services' \subseteq T!Attempts \X T!Kinds
    BY <1>1 DEF T!TypeOK
  <2> QED
    BY <1>1, <2>1, <2>2 DEF T!TypeOK
<1>3. ServiceTable' /\ PartTable' /\ Attempted'
  BY <1>1 DEF ServiceTable, PartTable, Attempted
<1>4. Holding'
  <2>1. CASE step' = "authenticated" /\ UNCHANGED <<held, services>>
    BY <1>1, <2>1 DEF Holding, Making, T!ServiceLeaksNeedRetry
  <2>2. CASE /\ step' = "failed" /\ held' = [held EXCEPT !["media"] = 0]
             /\ services' = services \ {<<held["media"], "media">>}
    <3>1. T!ServiceLeaksNeedRetry'
      <4> SUFFICES ASSUME NEW s \in services', held'[s[2]] # s[1]
                   PROVE  s[2] # "media" /\ s[1] < attempt
        BY <1>1 DEF T!ServiceLeaksNeedRetry
      <4>1. s \in services /\ s \in T!Attempts \X T!Kinds /\ s # <<held["media"], "media">>
        BY <2>2 DEF T!TypeOK
      <4>2. s = <<s[1], s[2]>>
        BY <4>1
      <4>3. CASE s[2] = "media"
        BY <4>1, <4>2, <4>3 DEF Holding, T!ServiceLeaksNeedRetry
      <4>4. CASE s[2] # "media"
        BY <2>2, <4>1, <4>4 DEF Holding, T!ServiceLeaksNeedRetry, T!TypeOK
      <4> QED
        BY <4>3, <4>4
    <3>2. \A k \in T!Kinds : held'[k] \in {0, held[k]}
      BY <2>2 DEF T!TypeOK
    <3>3. held'["media"] = 0
      BY <2>2 DEF T!TypeOK, T!Kinds
    <3> QED
      BY <1>1, <2>2, <3>1, <3>2, <3>3, RepliesAssumption DEF Holding, Making, T!TypeOK
  <2> QED
    BY <1>1, <2>1, <2>2
<1> QED
  BY <1>2, <1>3, <1>4

(* A device is disposed of with its services. *)
LEMMA ServiceDisposeKeeps ==
    ASSUME ServiceInv, T!Dispose
    PROVE  ServiceInv'
<1> USE DEF ServiceInv
<1>1. /\ step \in {"idle", "failed", "authenticated"} /\ step' = "disposed"
      /\ services' = services \ {<<held[k], k>> : k \in T!Kinds}
      /\ held' = [k \in T!Kinds |-> 0]
      /\ UNCHANGED <<attempt, reply, field, entries, caps, parts, place, lacks>>
  BY DEF T!Dispose
<1>2. T!TypeOK'
  BY <1>1, RepliesAssumption DEF T!TypeOK
<1>3. ServiceTable' /\ PartTable' /\ Attempted'
  BY <1>1 DEF ServiceTable, PartTable, Attempted
<1>4. T!ServiceLeaksNeedRetry'
  <2> SUFFICES ASSUME NEW s \in services'
               PROVE  s[2] # "media" /\ s[1] < attempt
    BY <1>1 DEF T!ServiceLeaksNeedRetry
  <2>1. s \in services /\ s \in T!Attempts \X T!Kinds /\ s \notin {<<held[k], k>> : k \in T!Kinds}
    BY <1>1 DEF T!TypeOK
  <2>2. s = <<s[1], s[2]>> /\ s[2] \in T!Kinds
    BY <2>1
  <2>3. held[s[2]] # s[1]
    BY <2>1, <2>2
  <2> QED
    BY <2>1, <2>3 DEF Holding, T!ServiceLeaksNeedRetry
<1>5. Holding'
  BY <1>1, <1>4, RepliesAssumption DEF Holding, Making, T!TypeOK, T!Kinds
<1> QED
  BY <1>2, <1>3, <1>5

(* Each step of a device that makes its services keeps the invariant. *)
LEMMA ServicesNext == ServiceInv /\ [T!Next]_(T!vars) => ServiceInv'
<1> SUFFICES ASSUME ServiceInv, [T!Next]_(T!vars) PROVE ServiceInv'
  OBVIOUS
<1>1. CASE UNCHANGED T!vars
  BY <1>1 DEF T!vars, T!device, ServiceInv, T!TypeOK, ServiceTable, PartTable, Attempted,
              Holding, T!ServiceLeaksNeedRetry
<1>2. CASE T!Next
  BY <1>2, CreateServicesKeeps, GetServicesKeeps, MakeFromServicesKeeps, GetCapabilitiesKeeps,
     MakeFromCapabilitiesKeeps, GetStreamUriKeeps, ServiceDisposeKeeps DEF T!Next
<1> QED
  BY <1>1, <1>2

(* The invariant says what the run checks of the service tables. *)
LEMMA ServicesSafe == ServiceInv => T!MadeFromLatest /\ T!LeaksKnown
<1> SUFFICES ASSUME ServiceInv PROVE T!MadeFromLatest /\ T!LeaksKnown
  OBVIOUS
<1> USE DEF ServiceInv
<1>1. T!LastEntryWins
  <2> SUFFICES ASSUME NEW k \in T!Kinds, held[k] # 0, place[k] # T!FromCapabilities
               PROVE  LET r == reply[held[k]]
                      IN  r[place[k]] = k /\ \A j \in (place[k] + 1)..Len(r) : r[j] # k
    BY DEF T!LastEntryWins
  <2>1. reply[held[k]] \in T!Replies
    BY RepliesAssumption DEF T!TypeOK, T!Attempts
  <2>2. DOMAIN reply[held[k]] \subseteq Nat \ {0}
    BY <2>1 DEF T!Replies
  <2> QED
    BY <2>1, <2>2, LastEntry DEF Holding
<1>2. T!NothingOutdated
  <2> SUFFICES ASSUME step = "authenticated", NEW k \in T!Kinds, NEW i \in DOMAIN reply[attempt],
                      reply[attempt][i] = k
               PROVE  held[k] = attempt
    BY DEF T!NothingOutdated
  <2>1. reply[attempt] \in T!Replies
    BY RepliesAssumption DEF T!TypeOK, T!Attempts, Attempted
  <2> QED
    BY <2>1, LastEntry DEF Holding
<1>3. T!CrashNeedsOmission
  BY DEF T!CrashNeedsOmission, PartTable, ServiceTable, T!NoFields, T!TypeOK
<1>4. T!EntryLeaksNeedRepeats
  <2> SUFFICES ASSUME step \in {"created", "failed", "authenticated"}
               PROVE  entries = {b \in T!Attempts \X (1..MaxEntries) :
                                  b[2] \in Replaced(reply[b[1]])}
    BY Zenon DEF T!EntryLeaksNeedRepeats, Replaced
  <2> QED
    BY DEF ServiceTable
<1>5. T!PartLeaksAreDeviceIO
  BY DEF T!PartLeaksAreDeviceIO, PartTable
<1>6. T!ServiceLeaksNeedRetry
  BY DEF Holding
<1> QED
  BY <1>1, <1>2, <1>3, <1>4, <1>5, <1>6 DEF T!MadeFromLatest, T!LeaksKnown

--------------------------------------------------------------------------------
(* NetworkTables. *)

(* A slot holds the item of its own place, or nothing was ever written.     *)
Filled == \A s \in N!Slots : table[s] = IF N!WrittenTo(s) = {} THEN Junk ELSE s

(* What the tables hold is the reply, and what they leave is the heap. *)
NetworkInv ==
    /\ N!TypeOK
    /\ state = "none" => given = <<>> /\ heap = {} /\ ~undefined
    /\ state # "none" => Filled
    /\ state = "built" => heap = N!Items \cup N!Arrays
    /\ given # <<>> => given[1] \in N!Slots /\ given[2] = table[given[1]]
    /\ N!SingleAddressesAreSafe
    /\ N!DisposeFrees

(* A part of a reply has a number of items. *)
LEMMA CountIsNat ==
    ASSUME reply \in N!Replies, NEW e, NEW p
    PROVE  N!Count(e, p) \in Nat
<1> SUFFICES ASSUME e \in DOMAIN reply, p \in DOMAIN reply[e]
             PROVE  reply[e][p] \in Nat
  BY DEF N!Count
<1> DEFINE A == N!Pointers \cup N!Lists4 \cup N!Lists6
<1>1. \A f \in Interfaces : f \in [A -> 0..MaxItems]
  BY RepliesAssumption
<1>2. \A f \in Ntp : f \in [N!NtpLists -> 0..MaxItems]
  BY RepliesAssumption
<1>3. CASE \E n \in 0..MaxInterfaces : reply \in [1..n -> Interfaces]
  <2>1. reply[e] \in Interfaces
    BY <1>3
  <2>2. reply[e] \in [A -> 0..MaxItems]
    BY <1>1, <2>1
  <2>3. p \in A
    BY <2>2
  <2>4. reply[e][p] \in 0..MaxItems
    BY <2>2, <2>3
  <2> QED
    BY <2>4, RepliesAssumption
<1>4. CASE \E n \in Ntp : reply = <<n>>
  <2>1. reply[e] \in [N!NtpLists -> 0..MaxItems]
    BY <1>2, <1>4
  <2>2. reply[e][p] \in 0..MaxItems
    BY <2>1
  <2> QED
    BY <2>2, RepliesAssumption
<1> QED
  BY <1>3, <1>4 DEF N!Replies

(* The slots are items of their lists. *)
LEMMA SlotFacts ==
    ASSUME reply \in N!Replies, NEW s \in N!Slots
    PROVE  /\ s \in N!Blocks /\ s = <<s[1], s[2], s[3]>>
           /\ s[2] \in N!Lists /\ s[3] \in Nat \ {0} /\ s[3] <= N!Count(s[1], s[2])
           /\ N!Count(s[1], s[2]) \in Nat \ {0}
<1>1. s \in N!Blocks /\ s[3] \in 1..N!Count(s[1], s[2]) /\ s[2] \in N!Lists
  BY DEF N!Slots, N!Items
<1>2. s = <<s[1], s[2], s[3]>> /\ s[3] \in 0..MaxItems
  BY <1>1 DEF N!Blocks
<1>3. s[3] \in Nat
  BY <1>2, RepliesAssumption
<1>4. N!Count(s[1], s[2]) \in Nat
  BY CountIsNat
<1> QED
  BY <1>1, <1>2, <1>3, <1>4

(* What the loops write to a slot is, at the end, its own item. *)
LEMMA WrittenLast ==
    ASSUME reply \in N!Replies, NEW s \in N!Slots, N!WrittenTo(s) # {}
    PROVE  /\ s \in N!WrittenTo(s)
           /\ \A b \in N!WrittenTo(s) : b[3] <= s[3] /\ (s[3] <= b[3] => b = s)
<1>1. PICK b \in N!WrittenTo(s) : TRUE
  OBVIOUS
<1> DEFINE n == N!Count(s[1], s[2])
<1>2. \A c \in N!WrittenTo(s) :
         /\ c \in N!Slots /\ c[1] = s[1] /\ c[2] = s[2] /\ N!SlotOf(c) = s[3]
  BY DEF N!WrittenTo
<1>3. \A c \in N!WrittenTo(s) : c[3] \in Nat \ {0} /\ c[3] <= n /\ c = <<s[1], s[2], c[3]>>
  BY <1>2, SlotFacts
<1>4. /\ s[2] \in N!Lists /\ s[3] \in Nat \ {0} /\ s[3] <= n /\ n \in Nat \ {0}
      /\ s = <<s[1], s[2], s[3]>>
  BY SlotFacts
<1>5. CASE s[2] \in N!Lists4
  <2>1. s[2] = "manual4" /\ s[2] \notin N!Lists6 /\ s[2] \notin N!NtpLists
    BY <1>5 DEF N!Lists4, N!Lists6, N!NtpLists
  <2>2. \A c \in N!Slots : c[1] = s[1] /\ c[2] = s[2] => N!SlotOf(c) = n
    BY <1>5, <2>1 DEF N!SlotOf, N!Slot4
  <2>3. s[3] = n
    BY <1>1, <1>2, <2>2
  <2> QED
    BY <1>2, <1>3, <1>4, <2>2, <2>3 DEF N!WrittenTo
<1>6. CASE s[2] \in N!Lists6
  <2>1. s[2] \notin N!Lists4 /\ s[2] \notin N!NtpLists
    BY <1>6 DEF N!Lists4, N!Lists6, N!NtpLists
  <2>2. \A c \in N!Slots : c[1] = s[1] /\ c[2] = s[2] => N!SlotOf(c) = IF n = 1 THEN 1 ELSE 0
    BY <1>6, <2>1 DEF N!SlotOf, N!Slot6
  <2>3. s[3] = 1 /\ n = 1
    BY <1>1, <1>2, <1>4, <2>2
  <2> QED
    BY <1>2, <1>3, <1>4, <2>2, <2>3 DEF N!WrittenTo
<1>7. CASE s[2] \in N!NtpLists
  <2>1. s[2] \notin N!Lists4 /\ s[2] \notin N!Lists6
    BY <1>7 DEF N!Lists4, N!Lists6, N!NtpLists
  <2>2. \A c \in N!Slots : c[1] = s[1] /\ c[2] = s[2] => N!SlotOf(c) = IF c[3] = 1 THEN 1 ELSE 0
    BY <1>7, <2>1 DEF N!SlotOf, N!SlotNtp
  <2>3. s[3] = 1 /\ \A c \in N!WrittenTo(s) : c[3] = 1
    BY <1>1, <1>2, <1>3, <1>4, <2>2
  <2> QED
    BY <1>2, <1>3, <1>4, <2>2, <2>3 DEF N!WrittenTo
<1> QED
  BY <1>4, <1>5, <1>6, <1>7 DEF N!Lists

(* Lists of one item each are written where they are read. *)
LEMMA SingleIsSafe ==
    ASSUME reply \in N!Replies, NEW s \in N!Slots,
           \A e \in DOMAIN reply, p \in N!Lists : N!Single(e, p)
    PROVE  N!SlotOf(s) = 1 /\ s[3] = 1 /\ N!WrittenTo(s) # {}
<1>1. /\ s[2] \in N!Lists /\ s[3] \in Nat \ {0} /\ s[3] <= N!Count(s[1], s[2])
      /\ N!Count(s[1], s[2]) \in Nat \ {0}
  BY SlotFacts
<1>2. s[1] \in DOMAIN reply
  BY <1>1 DEF N!Count
<1>3. N!Count(s[1], s[2]) = 1 /\ s[3] = 1
  BY <1>1, <1>2 DEF N!Single
<1>4. N!SlotOf(s) = 1
  BY <1>1, <1>3 DEF N!SlotOf, N!Slot4, N!Slot6, N!SlotNtp, N!Lists, N!Lists4, N!Lists6, N!NtpLists
<1> QED
  BY <1>3, <1>4 DEF N!WrittenTo

(* There are no tables before a reply. *)
LEMMA NetworkInit == N!Init => NetworkInv
<1> SUFFICES ASSUME N!Init PROVE NetworkInv
  OBVIOUS
<1> QED
  BY DEF N!Init, NetworkInv, N!TypeOK, N!SingleAddressesAreSafe, N!DisposeFrees

(* The constructor copies the reply. *)
LEMMA ConstructKeeps ==
    ASSUME NetworkInv, N!Construct
    PROVE  NetworkInv'
<1>0. reply \in N!Replies
  BY DEF NetworkInv, N!TypeOK
<1>1. /\ state = "none" /\ state' = "built" /\ UNCHANGED <<reply, given>> /\ given = <<>>
      /\ heap' = N!Items \cup N!Arrays
      /\ undefined' = (\E b \in N!Slots : N!SlotOf(b) = 0)
  BY DEF N!Construct, NetworkInv
<1>2. \A s \in N!Slots : table'[s] = IF N!WrittenTo(s) = {} THEN Junk ELSE s
  <2> TAKE s \in N!Slots
  <2>1. table'[s] = IF N!WrittenTo(s) = {} THEN Junk
                    ELSE CHOOSE b \in N!WrittenTo(s) : \A c \in N!WrittenTo(s) : c[3] <= b[3]
    BY DEF N!Construct
  <2>2. ASSUME N!WrittenTo(s) # {}
        PROVE  (CHOOSE b \in N!WrittenTo(s) : \A c \in N!WrittenTo(s) : c[3] <= b[3]) = s
    <3>1. s \in N!WrittenTo(s) /\ \A c \in N!WrittenTo(s) : c[3] <= s[3]
      BY <2>2, <1>0, WrittenLast
    <3>2. \A b \in N!WrittenTo(s) : (\A c \in N!WrittenTo(s) : c[3] <= b[3]) => b = s
      BY <2>2, <3>1, <1>0, WrittenLast
    <3> QED
      BY <3>1, <3>2
  <2> QED
    BY <2>1, <2>2
<1>3. N!Slots' = N!Slots /\ \A s \in N!Slots : N!WrittenTo(s)' = N!WrittenTo(s)
  BY <1>1 DEF N!Slots, N!Items, N!Blocks, N!Count, N!WrittenTo, N!SlotOf
<1>4. N!Items' = N!Items /\ N!Arrays' = N!Arrays
  BY <1>1 DEF N!Items, N!Blocks, N!Count, N!Arrays
<1>5. table' \in [N!Slots -> N!Blocks \cup {Junk}]
  <2>1. table' = [s \in N!Slots |-> table'[s]]
    BY DEF N!Construct
  <2>2. \A s \in N!Slots : table'[s] \in N!Blocks \cup {Junk}
    BY <1>2, <1>0, SlotFacts
  <2> QED
    BY <2>1, <2>2
<1>6. N!TypeOK'
  <2>1. heap' \subseteq N!Blocks
    BY <1>1 DEF N!Items, N!Arrays
  <2>2. undefined' \in BOOLEAN
    BY <1>1
  <2> QED
    BY <1>1, <1>3, <1>5, <2>1, <2>2 DEF NetworkInv, N!TypeOK
<1>7. Filled'
  BY <1>2, <1>3 DEF Filled
<1>8. N!SingleAddressesAreSafe'
  <2>1. (\A e \in DOMAIN reply, p \in N!Lists : N!Single(e, p)) => ~undefined'
    BY <1>1, <1>0, SingleIsSafe
  <2> QED
    BY <1>1, <2>1 DEF N!SingleAddressesAreSafe, N!Single, N!Count
<1> QED
  BY <1>1, <1>4, <1>6, <1>7, <1>8 DEF NetworkInv, N!DisposeFrees

(* A getter reads a slot. *)
LEMMA GetKeeps ==
    ASSUME NetworkInv, NEW s \in N!Slots, N!Get(s)
    PROVE  NetworkInv'
<1>0. reply \in N!Replies
  BY DEF NetworkInv, N!TypeOK
<1>1. /\ state = "built" /\ given' = <<s, table[s]>> /\ UNCHANGED <<reply, state, heap, table>>
      /\ undefined' = (table[s] = Junk)
  <2>1. <<N!Row(s[1]), s[2], s[3]>> = s
    BY <1>0, SlotFacts DEF N!Row
  <2> QED
    BY <2>1 DEF N!Get
<1>2. N!Slots' = N!Slots /\ N!Items' = N!Items /\ N!Arrays' = N!Arrays
  BY <1>1 DEF N!Slots, N!Items, N!Blocks, N!Count, N!Arrays
<1>w. \A s2 \in N!Slots : N!WrittenTo(s2)' = N!WrittenTo(s2)
  BY <1>1 DEF N!Slots, N!Items, N!Blocks, N!Count, N!WrittenTo, N!SlotOf
<1>3. Filled'
  BY <1>1, <1>2, <1>w DEF NetworkInv, Filled
<1>4. N!TypeOK'
  BY <1>1, <1>2 DEF NetworkInv, N!TypeOK
<1>5. N!SingleAddressesAreSafe'
  <2>1. (\A e \in DOMAIN reply, p \in N!Lists : N!Single(e, p)) => ~undefined'
    <3> SUFFICES ASSUME \A e \in DOMAIN reply, p \in N!Lists : N!Single(e, p)
                 PROVE  table[s] # Junk
      BY <1>1
    <3>1. table[s] = s
      BY <1>1, <1>0, SingleIsSafe DEF NetworkInv, Filled
    <3> QED
      BY <3>1, <1>0, SlotFacts, RepliesAssumption
  <2> QED
    BY <1>1, <2>1 DEF N!SingleAddressesAreSafe, N!Single, N!Count
<1> QED
  BY <1>1, <1>2, <1>3, <1>4, <1>5 DEF NetworkInv, N!DisposeFrees

(* The tables are freed. *)
LEMMA NetworkDisposeKeeps ==
    ASSUME NetworkInv, N!Dispose
    PROVE  NetworkInv'
<1>0. reply \in N!Replies
  BY DEF NetworkInv, N!TypeOK
<1>1. /\ state = "built" /\ state' = "disposed" /\ UNCHANGED <<reply, table, given>>
      /\ heap' = {b \in heap : ~(\/ N!FreedOfInterface(b) \/ N!FreedOfIPv4(b)
                                 \/ N!FreedAddresses(b) \/ N!FreedHosts(b))}
      /\ undefined' = (\E s \in N!Slots : table[s] = Junk)
      /\ heap = N!Items \cup N!Arrays /\ Filled
  BY DEF N!Dispose, NetworkInv
<1>2. N!Slots' = N!Slots /\ N!Items' = N!Items /\ N!Arrays' = N!Arrays
  BY <1>1 DEF N!Slots, N!Items, N!Blocks, N!Count, N!Arrays
<1>w. \A s \in N!Slots : N!WrittenTo(s)' = N!WrittenTo(s)
  BY <1>1 DEF N!Slots, N!Items, N!Blocks, N!Count, N!WrittenTo, N!SlotOf
<1>3. Filled'
  BY <1>1, <1>2, <1>w DEF Filled
<1>4. N!TypeOK'
  BY <1>1, <1>2 DEF NetworkInv, N!TypeOK
<1>5. N!SingleAddressesAreSafe'
  <2>1. (\A e \in DOMAIN reply, p \in N!Lists : N!Single(e, p)) => ~undefined'
    <3> SUFFICES ASSUME \A e \in DOMAIN reply, p \in N!Lists : N!Single(e, p), NEW s \in N!Slots
                 PROVE  table[s] # Junk
      BY <1>1
    <3>1. table[s] = s
      BY <1>1, <1>0, SingleIsSafe DEF Filled
    <3> QED
      BY <3>1, <1>0, SlotFacts, RepliesAssumption
  <2> QED
    BY <1>1, <2>1 DEF N!SingleAddressesAreSafe, N!Single, N!Count
<1>6. N!DisposeFrees'
  <2> SUFFICES ASSUME ~undefined'
               PROVE  heap' = {b \in N!Arrays : b[2] \in N!NtpLists /\ N!Count(b[1], b[2]) = 0}
    BY <1>1, <1>2 DEF N!DisposeFrees, N!Count
  <2>1. \A s \in N!Slots : N!Named(s)
    BY <1>1 DEF Filled, N!Named
  <2>2. ASSUME NEW b \in N!Items
        PROVE  b \notin heap'
    <3>1. b[2] \in N!Lists \cup N!Pointers /\ b[3] \in 1..N!Count(b[1], b[2])
      BY DEF N!Items, N!Blocks
    <3>2. CASE b[2] \in N!Pointers
      BY <1>1, <3>2 DEF N!Pointers, N!FreedOfInterface, N!FreedOfIPv4
    <3>3. CASE b[2] \in N!Lists
      <4>1. N!Named(b) /\ b \in N!Slots
        BY <2>1, <3>3 DEF N!Slots
      <4>2. N!Count(b[1], b[2]) > 0
        BY <4>1, <1>0, SlotFacts
      <4> QED
        BY <1>1, <3>3, <4>1, <4>2 DEF N!Lists, N!FreedAddresses, N!FreedHosts
    <3> QED
      BY <3>1, <3>2, <3>3
  <2>3. ASSUME NEW b \in N!Arrays
        PROVE  b \in heap' <=> b[2] \in N!NtpLists /\ N!Count(b[1], b[2]) = 0
    <3>1. b[3] = 0 /\ b[2] \in N!Lists /\ (b[2] \in N!NtpLists \/ N!Count(b[1], b[2]) > 0)
      BY DEF N!Arrays
    <3>2. CASE b[2] \in N!Lists4 \cup N!Lists6
      BY <1>1, <3>1, <3>2 DEF N!FreedAddresses, N!Lists4, N!Lists6, N!NtpLists
    <3>3. CASE b[2] \in N!NtpLists
      <4>1. N!Count(b[1], b[2]) \in Nat
        BY CountIsNat DEF NetworkInv, N!TypeOK
      <4>2. ~N!FreedOfInterface(b) /\ ~N!FreedOfIPv4(b) /\ ~N!FreedAddresses(b)
        BY <3>3 DEF N!FreedOfInterface, N!FreedOfIPv4, N!FreedAddresses, N!NtpLists,
                      N!Lists4, N!Lists6
      <4> QED
        BY <1>1, <3>1, <3>3, <4>1, <4>2 DEF N!FreedHosts
    <3> QED
      BY <3>1, <3>2, <3>3 DEF N!Lists
  <2>4. heap' \subseteq N!Arrays
    BY <1>1, <2>2
  <2> QED
    BY <2>3, <2>4
<1>7. heap' \subseteq heap
  BY <1>1
<1> QED
  BY <1>1, <1>2, <1>3, <1>4, <1>5, <1>6 DEF NetworkInv

(* Each step of the two tables keeps the invariant. *)
LEMMA NetworkNext == NetworkInv /\ [N!Next]_(N!vars) => NetworkInv'
<1> SUFFICES ASSUME NetworkInv, [N!Next]_(N!vars) PROVE NetworkInv'
  OBVIOUS
<1>1. CASE UNCHANGED N!vars
  <2>1. UNCHANGED <<reply, state, heap, table, given, undefined>>
    BY <1>1 DEF N!vars
  <2>2. N!Slots' = N!Slots /\ N!Items' = N!Items /\ N!Arrays' = N!Arrays
    BY <2>1 DEF N!Slots, N!Items, N!Blocks, N!Count, N!Arrays
  <2>3. \A s \in N!Slots : N!WrittenTo(s)' = N!WrittenTo(s)
    BY <2>1 DEF N!Slots, N!Items, N!Blocks, N!Count, N!WrittenTo, N!SlotOf
  <2>4. Filled <=> Filled'
    BY <2>1, <2>2, <2>3 DEF Filled
  <2>5. N!SingleAddressesAreSafe <=> N!SingleAddressesAreSafe'
    BY <2>1 DEF N!SingleAddressesAreSafe, N!Single, N!Count
  <2>6. N!DisposeFrees <=> N!DisposeFrees'
    BY <2>1, <2>2 DEF N!DisposeFrees, N!Count
  <2> QED
    BY <2>1, <2>2, <2>4, <2>5, <2>6 DEF NetworkInv, N!TypeOK
<1>2. CASE N!Next
  BY <1>2, ConstructKeeps, GetKeeps, NetworkDisposeKeeps
     DEF N!Next, N!GetAddress4, N!GetAddress6, N!GetHost
<1> QED
  BY <1>1, <1>2

(* The invariant says what the run checks of the network tables. *)
LEMMA NetworkSafe == NetworkInv => N!TablesSound
<1> SUFFICES ASSUME NetworkInv PROVE N!TablesSound
  OBVIOUS
<1>1. N!ReadsInOrder
  <2> SUFFICES ASSUME given # <<>>, given[2] # Junk
               PROVE  given[2] = given[1] /\ given[1][3] \in Nat
    BY DEF N!ReadsInOrder
  <2>1. given[1] \in N!Slots /\ given[2] = table[given[1]] /\ state # "none"
    BY DEF NetworkInv
  <2> QED
    BY <2>1, SlotFacts DEF NetworkInv, Filled, N!TypeOK
<1> QED
  BY <1>1 DEF NetworkInv, N!TablesSound

--------------------------------------------------------------------------------
(* Scopes. *)

(* The bytes of a decoded text. *)
Byte == 0..255

(* A hex digit is no percent sign, and its value is what a digit stands for. *)
LEMMA HexDigits ==
    ASSUME NEW c \in 1..255, S!IsHex(c)
    PROVE  c # S!Percent /\ S!HexValue(c) \in 0..15 /\ S!Nibble(c) = S!HexValue(c)
<1>1. c \in Nat /\ (c \in 65..70 \/ c \in 97..102 \/ c \in 48..57)
  BY DEF S!IsHex, S!Upper, S!Lower, S!Digits
<1> DEFINE v == S!HexValue(c)
<1>2. v = IF c >= 97 THEN c - 87 ELSE IF c >= 65 THEN c - 55 ELSE c - 48
  BY <1>1 DEF S!HexValue
<1>3. v \in 0..15 /\ IF v <= 9 THEN c = 48 + v ELSE c \in {55 + v, 87 + v}
  BY <1>1, <1>2
<1>4. \A w \in 0..15 : (IF w <= 9 THEN c = 48 + w ELSE c \in {55 + w, 87 + w}) => w = v
  BY <1>1, <1>2
<1> HIDE DEF v
<1>5. (CHOOSE w \in 0..15 : IF w <= 9 THEN c = 48 + w ELSE c \in {55 + w, 87 + w}) = v
  BY <1>3, <1>4
<1>6. S!Nibble(c) = v
  BY <1>5 DEF S!Nibble
<1> QED
  BY <1>1, <1>3, <1>6 DEF v, S!Percent

(* The byte that urldecode puts for place i, and the loop from there. *)
ByteAt(s, i) ==
    IF S!IsEscape(s, i) THEN 16 * S!HexValue(s[i + 1]) + S!HexValue(s[i + 2])
    ELSE IF s[i] = S!Plus THEN S!Space ELSE s[i]

LoopAt(s, f, i) ==
    IF i > Len(s) THEN <<>>
    ELSE <<ByteAt(s, i)>> \o IF S!IsEscape(s, i) THEN f[i + 3] ELSE f[i + 1]

(* An escape is three places that no other escape begins in, and its byte is *)
(* that of its two digits.                                                   *)
LEMMA EscapeFacts ==
    ASSUME NEW s \in S!Text, NEW i \in 1..Len(s)
    PROVE  /\ Len(s) \in Nat /\ s[i] \in 1..255
           /\ ByteAt(s, i) \in Byte
           /\ S!IsEscape(s, i) <=> S!Starts(s, i)
           /\ S!IsEscape(s, i) =>
                 /\ i + 3 <= Len(s) + 1
                 /\ ByteAt(s, i) = 16 * S!Nibble(s[i + 1]) + S!Nibble(s[i + 2])
           /\ S!Starts(s, i) => ~S!Starts(s, i + 1) /\ ~S!Starts(s, i + 2)
<1>1. Len(s) \in Nat /\ \A k \in 1..Len(s) : s[k] \in 1..255
  <2> DEFINE E == 1..255
  <2>1. s \in Seq(E)
    BY DEF S!Text
  <2> HIDE DEF E
  <2>2. Len(s) \in Nat /\ \A k \in 1..Len(s) : s[k] \in E
    BY <2>1
  <2> QED
    BY <2>2 DEF E
<1>2. S!IsEscape(s, i) <=> S!Starts(s, i)
  BY <1>1 DEF S!IsEscape, S!Starts
<1>3. ASSUME S!IsEscape(s, i)
      PROVE  /\ i + 3 <= Len(s) + 1 /\ s[i + 1] \in 1..255 /\ s[i + 2] \in 1..255
             /\ S!IsHex(s[i + 1]) /\ S!IsHex(s[i + 2])
  BY <1>1, <1>3 DEF S!IsEscape
<1>4. S!IsEscape(s, i) =>
         /\ ByteAt(s, i) = 16 * S!Nibble(s[i + 1]) + S!Nibble(s[i + 2])
         /\ ByteAt(s, i) \in Byte
         /\ s[i + 1] # S!Percent /\ s[i + 2] # S!Percent
  <2> SUFFICES ASSUME S!IsEscape(s, i)
               PROVE  /\ ByteAt(s, i) = 16 * S!Nibble(s[i + 1]) + S!Nibble(s[i + 2])
                      /\ ByteAt(s, i) \in Byte
                      /\ s[i + 1] # S!Percent /\ s[i + 2] # S!Percent
    OBVIOUS
  <2>1. /\ s[i + 1] # S!Percent /\ S!HexValue(s[i + 1]) \in 0..15
        /\ S!Nibble(s[i + 1]) = S!HexValue(s[i + 1])
    BY <1>3, HexDigits
  <2>2. /\ s[i + 2] # S!Percent /\ S!HexValue(s[i + 2]) \in 0..15
        /\ S!Nibble(s[i + 2]) = S!HexValue(s[i + 2])
    BY <1>3, HexDigits
  <2>3. ByteAt(s, i) = 16 * S!HexValue(s[i + 1]) + S!HexValue(s[i + 2])
    BY DEF ByteAt
  <2>4. \A a, b \in 0..15 : 16 * a + b \in Byte
    BY DEF Byte
  <2> QED
    BY <2>1, <2>2, <2>3, <2>4
<1>5. ~S!IsEscape(s, i) => ByteAt(s, i) \in Byte
  BY <1>1 DEF ByteAt, Byte, S!Space
<1>6. S!Starts(s, i) => ~S!Starts(s, i + 1) /\ ~S!Starts(s, i + 2)
  BY <1>2, <1>4 DEF S!Starts
<1> QED
  BY <1>1, <1>2, <1>3, <1>4, <1>5, <1>6

(* The loop of urldecode is well defined. *)
LEMMA LoopExists ==
    ASSUME NEW s \in S!Text
    PROVE  \E f \in [1..(Len(s) + 1) -> Seq(Byte)] :
              f = [i \in 1..(Len(s) + 1) |-> LoopAt(s, f, i)]
<1> DEFINE Size == Len(s)
           Up(k) == \E f \in [(Size + 1 - k)..(Size + 1) -> Seq(Byte)] :
                       \A i \in (Size + 1 - k)..(Size + 1) : f[i] = LoopAt(s, f, i)
           A == {k \in Nat : k <= Size => Up(k)}
<1>1. Size \in Nat
  BY DEF S!Text
<1>2. 0 \in A
  <2> DEFINE f == [i \in (Size + 1 - 0)..(Size + 1) |-> <<>>]
  <2>1. f \in [(Size + 1 - 0)..(Size + 1) -> Seq(Byte)]
    OBVIOUS
  <2>2. \A i \in (Size + 1 - 0)..(Size + 1) : f[i] = LoopAt(s, f, i)
    BY <1>1 DEF LoopAt
  <2> HIDE DEF f
  <2>3. Up(0)
    BY <2>1, <2>2
  <2> QED
    BY <2>3
<1>3. ASSUME NEW k \in Nat, k \in A
      PROVE  k + 1 \in A
  <2> SUFFICES ASSUME k + 1 <= Size PROVE Up(k + 1)
    OBVIOUS
  <2> DEFINE p == Size + 1 - k
             q == Size + 1 - (k + 1)
  <2>0. p \in 1..(Size + 1) /\ q = p - 1 /\ q \in 1..Size
    BY <1>1
  <2>1. PICK f \in [p..(Size + 1) -> Seq(Byte)] :
           \A i \in p..(Size + 1) : f[i] = LoopAt(s, f, i)
    BY <1>3
  <2> HIDE DEF Size, p, q
  <2> DEFINE g == [i \in q..(Size + 1) |-> IF i = q THEN LoopAt(s, f, q) ELSE f[i]]
  <2>2. LoopAt(s, f, q) \in Seq(Byte)
    <3>1. ByteAt(s, q) \in Byte /\ (S!IsEscape(s, q) => q + 3 <= Size + 1)
      BY <2>0, EscapeFacts DEF Size
    <3>2. q + 1 \in p..(Size + 1) /\ (S!IsEscape(s, q) => q + 3 \in p..(Size + 1))
      BY <1>1, <2>0, <3>1
    <3>3. <<ByteAt(s, q)>> \in Seq(Byte)
      BY <3>1
    <3>4. (IF S!IsEscape(s, q) THEN f[q + 3] ELSE f[q + 1]) \in Seq(Byte)
      BY <2>1, <3>2
    <3> QED
      BY <3>3, <3>4 DEF LoopAt
  <2>3. g \in [q..(Size + 1) -> Seq(Byte)]
    BY <1>1, <2>0, <2>1, <2>2
  <2>4. \A i \in q..(Size + 1) : g[i] = LoopAt(s, g, i)
    <3> TAKE i \in q..(Size + 1)
    <3>0. \A j \in p..(Size + 1) : g[j] = f[j]
      BY <1>1, <2>0
    <3>1. i \in 1..Size => (S!IsEscape(s, i) => i + 3 <= Size + 1)
      BY EscapeFacts DEF Size
    <3>2. i <= Size => i + 1 \in p..(Size + 1) /\ (S!IsEscape(s, i) => i + 3 \in p..(Size + 1))
      BY <1>1, <2>0, <3>1
    <3>3. LoopAt(s, g, i) = LoopAt(s, f, i)
      <4>1. CASE i > Size
        BY <4>1 DEF LoopAt, Size
      <4>2. CASE i <= Size
        <5>1. g[i + 1] = f[i + 1] /\ (S!IsEscape(s, i) => g[i + 3] = f[i + 3])
          BY <3>0, <3>2, <4>2
        <5> HIDE DEF g
        <5> QED
          BY <5>1 DEF LoopAt
      <4> QED
        BY <1>1, <2>0, <4>1, <4>2
    <3>4. g[i] = LoopAt(s, f, i)
      <4>1. CASE i = q
        BY <4>1
      <4>2. CASE i # q
        <5>1. i \in p..(Size + 1)
          BY <1>1, <2>0, <4>2
        <5> QED
          BY <2>1, <3>0, <5>1
      <4> QED
        BY <4>1, <4>2
    <3> QED
      BY <3>3, <3>4
  <2> HIDE DEF g
  <2> QED
    BY <2>3, <2>4 DEF q
<1>4. Nat \subseteq A
  <2> HIDE DEF A
  <2> QED
    BY <1>2, <1>3, Induction
<1>5. Up(Size)
  BY <1>1, <1>4
<1>6. Size + 1 - Size = 1
  BY <1>1
<1>7. PICK f \in [1..(Size + 1) -> Seq(Byte)] : \A i \in 1..(Size + 1) : f[i] = LoopAt(s, f, i)
  <2> HIDE DEF Size
  <2> QED
    BY <1>5, <1>6
<1>8. f = [i \in 1..(Size + 1) |-> LoopAt(s, f, i)]
  BY <1>7
<1> QED
  BY <1>8

(* What urldecode is. *)
LEMMA LoopFacts ==
    ASSUME NEW s \in S!Text
    PROVE  \E f \in [1..(Len(s) + 1) -> Seq(Byte)] :
              /\ S!urldecode(s) = f[1]
              /\ \A i \in 1..(Len(s) + 1) : f[i] = LoopAt(s, f, i)
<1> DEFINE Size == Len(s)
           from[i \in 1..(Size + 1)] ==
              IF i > Size THEN <<>>
              ELSE IF S!IsEscape(s, i)
              THEN <<16 * S!HexValue(s[i + 1]) + S!HexValue(s[i + 2])>> \o from[i + 3]
              ELSE <<IF s[i] = S!Plus THEN S!Space ELSE s[i]>> \o from[i + 1]
           Body(f, i) ==
              IF i > Size THEN <<>>
              ELSE IF S!IsEscape(s, i)
              THEN <<16 * S!HexValue(s[i + 1]) + S!HexValue(s[i + 2])>> \o f[i + 3]
              ELSE <<IF s[i] = S!Plus THEN S!Space ELSE s[i]>> \o f[i + 1]
<1>1. S!urldecode(s) = from[1]
  BY DEF S!urldecode
<1>2. \A f, i : Body(f, i) = LoopAt(s, f, i)
  BY DEF LoopAt, ByteAt
<1>3. \E f : f = [i \in 1..(Size + 1) |-> Body(f, i)]
  <2>1. PICK f \in [1..(Size + 1) -> Seq(Byte)] : f = [i \in 1..(Size + 1) |-> LoopAt(s, f, i)]
    BY LoopExists
  <2>2. \A i \in 1..(Size + 1) : f[i] = Body(f, i)
    <3> HIDE DEF Body
    <3> QED
      BY <1>2, <2>1
  <2> HIDE DEF Body
  <2>3. f = [i \in 1..(Size + 1) |-> Body(f, i)]
    BY <2>1, <2>2
  <2> QED
    BY <2>3
<1>4. from = [i \in 1..(Size + 1) |-> Body(from, i)]
  BY <1>3
<1> HIDE DEF from, Body
<1>5. \A i \in 1..(Size + 1) : from[i] = LoopAt(s, from, i)
  BY <1>2, <1>4
<1>6. Size \in Nat
  BY DEF S!Text
<1> DEFINE A == {k \in Nat : k <= Size =>
                    \A i \in (Size + 1 - k)..(Size + 1) : from[i] \in Seq(Byte)}
<1>7. 0 \in A
  <2>1. Size + 1 - 0 = Size + 1 /\ Size + 1 \in 1..(Size + 1) /\ Size + 1 > Size
    BY <1>6
  <2>2. from[Size + 1] = <<>>
    BY <1>5, <2>1 DEF LoopAt
  <2>3. \A i \in (Size + 1)..(Size + 1) : i = Size + 1
    BY <1>6
  <2>4. <<>> \in Seq(Byte)
    OBVIOUS
  <2> HIDE DEF Size
  <2>5. \A i \in (Size + 1)..(Size + 1) : from[i] \in Seq(Byte)
    BY <2>2, <2>3, <2>4
  <2> QED
    BY <2>1, <2>5
<1>8. ASSUME NEW k \in Nat, k \in A
      PROVE  k + 1 \in A
  <2> SUFFICES ASSUME k + 1 <= Size, NEW i \in (Size + 1 - (k + 1))..(Size + 1)
               PROVE  from[i] \in Seq(Byte)
    OBVIOUS
  <2>1. \A j \in (Size + 1 - k)..(Size + 1) : from[j] \in Seq(Byte)
    BY <1>8
  <2>2. CASE i > Size - k
    <3>1. i \in (Size + 1 - k)..(Size + 1)
      BY <1>6, <2>2
    <3> QED
      BY <2>1, <3>1
  <2>3. CASE i <= Size - k
    <3>1. i \in 1..Size /\ i = Size - k /\ i \in 1..(Size + 1) /\ ~(i > Size)
      BY <1>6, <2>3
    <3>2. ByteAt(s, i) \in Byte /\ (S!IsEscape(s, i) => i + 3 <= Size + 1)
      BY <3>1, EscapeFacts
    <3> HIDE DEF Size
    <3>3. /\ i + 1 \in (Size + 1 - k)..(Size + 1)
          /\ S!IsEscape(s, i) => i + 3 \in (Size + 1 - k)..(Size + 1)
      BY <1>6, <3>1, <3>2
    <3>4. (IF S!IsEscape(s, i) THEN from[i + 3] ELSE from[i + 1]) \in Seq(Byte)
      BY <2>1, <3>3
    <3>5. from[i] = <<ByteAt(s, i)>> \o IF S!IsEscape(s, i) THEN from[i + 3] ELSE from[i + 1]
      BY <1>5, <3>1 DEF LoopAt, Size
    <3>6. <<ByteAt(s, i)>> \in Seq(Byte)
      BY <3>2
    <3> QED
      BY <3>4, <3>5, <3>6
  <2> QED
    BY <1>6, <2>2, <2>3
<1>9. Nat \subseteq A
  <2> HIDE DEF A
  <2> QED
    BY <1>7, <1>8, Induction
<1>10. \A i \in 1..(Size + 1) : from[i] \in Seq(Byte)
  <2>1. Size \in A /\ Size + 1 - Size = 1
    BY <1>6, <1>9
  <2> QED
    BY <2>1
<1>11. from \in [1..(Size + 1) -> Seq(Byte)]
  BY <1>4, <1>10
<1> QED
  BY <1>1, <1>5, <1>11

(* urldecode is percent-decoding, and makes no text longer. *)
LEMMA DecodesRight ==
    ASSUME NEW s \in S!Text
    PROVE  /\ S!urldecode(s) = S!Decoded(s) /\ S!urldecode(s) \in Seq(Byte)
           /\ Len(S!urldecode(s)) <= Len(s)
<1> DEFINE Size == Len(s)
           L == [i \in 1..Size |-> S!Place(s, i)]
<1>1. Size \in Nat /\ \A i \in 1..Size : s[i] \in 1..255
  BY EscapeFacts DEF S!Text
<1>2. PICK from \in [1..(Size + 1) -> Seq(Byte)] :
         /\ S!urldecode(s) = from[1]
         /\ \A i \in 1..(Size + 1) : from[i] = LoopAt(s, from, i)
  BY LoopFacts
<1>3. \A i \in 1..Size :
         /\ ~S!IsEscape(s, i) /\ ~S!Starts(s, i - 1) /\ ~S!Starts(s, i - 2)
               => S!Place(s, i) = <<ByteAt(s, i)>>
         /\ S!Starts(s, i) => S!Place(s, i) = <<ByteAt(s, i)>>
         /\ ~S!Starts(s, i) /\ (S!Starts(s, i - 1) \/ S!Starts(s, i - 2)) => S!Place(s, i) = <<>>
  <2> TAKE i \in 1..Size
  <2>1. /\ S!IsEscape(s, i) <=> S!Starts(s, i)
        /\ S!IsEscape(s, i) => ByteAt(s, i) = 16 * S!Nibble(s[i + 1]) + S!Nibble(s[i + 2])
    BY EscapeFacts
  <2>2. ~S!IsEscape(s, i) => ByteAt(s, i) = IF s[i] = S!Plus THEN S!Space ELSE s[i]
    BY DEF ByteAt
  <2> QED
    BY <2>1, <2>2 DEF S!Place
<1>4. \A i \in 1..Size : S!Place(s, i) \in Seq(Byte) /\ Len(S!Place(s, i)) <= 1
  <2> TAKE i \in 1..Size
  <2>1. ByteAt(s, i) \in Byte
    BY EscapeFacts
  <2>2. S!Place(s, i) = <<ByteAt(s, i)>> \/ S!Place(s, i) = <<>>
    BY <1>3, EscapeFacts
  <2>3. /\ <<ByteAt(s, i)>> \in Seq(Byte) /\ Len(<<ByteAt(s, i)>>) = 1
        /\ <<>> \in Seq(Byte) /\ Len(<<>>) = 0
    BY <2>1
  <2> QED
    <3>1. CASE S!Place(s, i) = <<ByteAt(s, i)>>
      <4>1. Len(S!Place(s, i)) = 1
        BY <2>3, <3>1
      <4> QED
        BY <2>3, <3>1, <4>1
    <3>2. CASE S!Place(s, i) = <<>>
      <4>1. Len(S!Place(s, i)) = 0
        BY <2>3, <3>2
      <4> QED
        BY <2>3, <3>2, <4>1
    <3> QED
      BY <2>2, <3>1, <3>2
<1>5. L \in [1..Size -> Seq(Byte)]
  BY <1>4
<1>6. PICK u \in [0..Size -> Seq(Byte)] : Joins(u, Size, L) /\ S!FlattenSeq(L) = u[Size]
  BY <1>1, <1>5, Flattened
<1>7. S!Decoded(s) = u[Size]
  BY <1>6 DEF S!Decoded
<1>8. u[0] = <<>> /\ \A i \in 1..Size : u[i] = u[i - 1] \o S!Place(s, i)
  BY <1>6 DEF Joins
<1> HIDE DEF Size, L
<1>9. ASSUME NEW n \in 0..Size, n + 1 <= Size
      PROVE  /\ n \in 0..Size /\ n + 1 \in 1..Size /\ (n + 1) - 1 = n
             /\ u[n + 1] = u[n] \o S!Place(s, n + 1)
  <2>1. n + 1 \in 1..Size /\ (n + 1) - 1 = n
    BY <1>1, <1>9
  <2> QED
    BY <1>8, <2>1
(* How far the loop is once the first n places are joined *)
<1> DEFINE At(n) ==
              /\ ~S!Starts(s, n) /\ ~S!Starts(s, n - 1) => u[n] \o from[n + 1] = from[1]
              /\ S!Starts(s, n) => u[n] \o from[n + 3] = from[1]
              /\ S!Starts(s, n - 1) => u[n] \o from[n + 2] = from[1]
           Short(n) == Len(u[n]) <= n
           A == {n \in Nat : n <= Size => At(n) /\ Short(n)}
<1>10. 0 \in A
  <2>1. ~S!Starts(s, 0) /\ ~S!Starts(s, 0 - 1)
    BY <1>1 DEF S!Starts
  <2>2. u[0] \o from[0 + 1] = from[1]
    <3>1. from[1] \in Seq(Byte) /\ 0 + 1 = 1
      BY <1>1, <1>2 DEF Size
    <3> QED
      BY <1>8, <3>1, ConcatEmpty
  <2>3. Len(u[0]) <= 0
    BY <1>8
  <2> QED
    BY <2>1, <2>2, <2>3
<1>11. ASSUME NEW n \in Nat, n \in A
       PROVE  n + 1 \in A
  <2> HIDE DEF At, Short
  <2> SUFFICES ASSUME n + 1 <= Size PROVE At(n + 1) /\ Short(n + 1)
    OBVIOUS
  <2>a. n <= Size
    BY <1>1
  <2>b. At(n) /\ Short(n)
    BY <1>11, <2>a
  <2>1. /\ n \in 0..Size /\ n + 1 \in 1..Size /\ n + 1 \in 1..(Size + 1)
        /\ (n + 1) - 1 = n /\ (n + 1) + 1 = n + 2 /\ (n + 1) + 3 = n + 4
        /\ (n + 1) + 2 = n + 3 /\ (n + 1) - 2 = n - 1
    BY <1>1
  <2> DEFINE i == n + 1
             b == <<ByteAt(s, i)>>
  <2>2. u[i] = u[n] \o S!Place(s, i) /\ u[n] \in Seq(Byte)
    BY <1>1, <1>6, <1>9, <2>1
  <2>3. b \in Seq(Byte) /\ Len(b) = 1
    <3>1. ByteAt(s, i) \in Byte
      BY <2>1, EscapeFacts DEF Size
    <3> QED
      BY <3>1
  <2>4. Short(i)
    <3>1. Len(S!Place(s, i)) <= 1 /\ S!Place(s, i) \in Seq(Byte)
      BY <1>4, <2>1
    <3>2. Len(u[i]) = Len(u[n]) + Len(S!Place(s, i))
      BY <2>2, <3>1
    <3>3. Len(u[n]) \in Nat /\ Len(S!Place(s, i)) \in Nat
      BY <2>2, <3>1
    <3> QED
      BY <2>1, <2>b, <3>1, <3>2, <3>3 DEF Short
  <2>5. S!IsEscape(s, i) <=> S!Starts(s, i)
    BY <2>1, EscapeFacts DEF Size
  <2>6. S!Starts(s, n) => ~S!Starts(s, n + 1) /\ ~S!Starts(s, n + 2)
    <3>1. S!Starts(s, n) => n \in 1..Size
      BY <1>1, <2>1 DEF S!Starts, Size
    <3> QED
      BY <3>1, EscapeFacts DEF Size
  <2>7. S!Starts(s, n - 1) => ~S!Starts(s, n) /\ ~S!Starts(s, n + 1)
    <3>1. S!Starts(s, n - 1) => n - 1 \in 1..Size
      BY <1>1, <2>1 DEF S!Starts, Size
    <3>2. (n - 1) + 1 = n /\ (n - 1) + 2 = n + 1
      OBVIOUS
    <3> QED
      BY <3>1, <3>2, EscapeFacts DEF Size
  <2>8. from[i] = b \o IF S!IsEscape(s, i) THEN from[n + 4] ELSE from[n + 2]
    <3>1. from[i] = LoopAt(s, from, i)
      BY <1>2, <2>1 DEF Size
    <3>2. ~(i > Len(s))
      BY <1>1, <2>1 DEF Size
    <3> QED
      BY <2>1, <3>1, <3>2 DEF LoopAt
  <2>9. /\ n + 2 \in 1..(Size + 1)
        /\ S!IsEscape(s, i) => n + 4 \in 1..(Size + 1)
    <3>1. S!IsEscape(s, i) => i + 3 <= Size + 1
      BY <2>1, EscapeFacts DEF Size
    <3> QED
      BY <1>1, <2>1, <3>1
  <2>10. from[n + 2] \in Seq(Byte) /\ (S!IsEscape(s, i) => from[n + 4] \in Seq(Byte))
    BY <1>2, <2>9 DEF Size
  <2>regroup. \A x, y, z \in Seq(Byte) : x \o (y \o z) = (x \o y) \o z
    BY Regrouped
  <2> HIDE DEF b, A
  <2>11. CASE ~S!Starts(s, n) /\ ~S!Starts(s, n - 1)
    <3>1. u[n] \o from[i] = from[1]
      BY <2>b, <2>11 DEF At
    <3>2. CASE S!Starts(s, i)
      <4>1. S!Place(s, i) = b /\ from[i] = b \o from[n + 4]
        BY <1>3, <2>1, <2>5, <2>8, <3>2 DEF b, Size
      <4>2. u[i] \o from[n + 4] = from[1]
        <5>0. from[n + 4] \in Seq(Byte)
          BY <2>5, <2>10, <3>2
        <5>1. u[n] \o (b \o from[n + 4]) = (u[n] \o b) \o from[n + 4]
          BY <2>2, <2>3, <5>0, <2>regroup
        <5> QED
          BY <2>2, <3>1, <4>1, <5>1
      <4> QED
        BY <2>1, <2>4, <2>11, <3>2, <4>2 DEF At
    <3>3. CASE ~S!Starts(s, i)
      <4>1. S!Place(s, i) = b /\ from[i] = b \o from[n + 2]
        BY <1>3, <2>1, <2>5, <2>8, <2>11, <3>3 DEF b, Size
      <4>2. u[i] \o from[n + 2] = from[1]
        <5>1. u[n] \o (b \o from[n + 2]) = (u[n] \o b) \o from[n + 2]
          BY <2>2, <2>3, <2>10, <2>regroup
        <5> QED
          BY <2>2, <3>1, <4>1, <5>1
      <4> QED
        BY <2>1, <2>4, <2>11, <3>3, <4>2 DEF At
    <3> QED
      BY <3>2, <3>3
  <2>12. CASE S!Starts(s, n)
    <3>1. ~S!Starts(s, i) /\ S!Place(s, i) = <<>>
      BY <1>3, <2>1, <2>6, <2>12 DEF Size
    <3>2. u[i] = u[n]
      BY <2>2, <3>1, ConcatEmpty
    <3>3. u[i] \o from[n + 3] = from[1]
      BY <2>b, <2>12, <3>2 DEF At
    <3> QED
      BY <2>1, <2>4, <2>12, <3>1, <3>3 DEF At
  <2>13. CASE S!Starts(s, n - 1)
    <3>1. ~S!Starts(s, n) /\ ~S!Starts(s, i) /\ S!Place(s, i) = <<>>
      BY <1>3, <2>1, <2>7, <2>13 DEF Size
    <3>2. u[i] = u[n]
      BY <2>2, <3>1, ConcatEmpty
    <3>3. u[i] \o from[n + 2] = from[1]
      BY <2>b, <2>13, <3>2 DEF At
    <3> QED
      BY <2>1, <2>4, <3>1, <3>3 DEF At
  <2> QED
    BY <2>11, <2>12, <2>13
<1>12. Nat \subseteq A
  <2> HIDE DEF A
  <2> QED
    BY <1>10, <1>11, Induction
<1>13. At(Size) /\ Short(Size)
  <2> HIDE DEF At, Short
  <2>1. Size \in A /\ Size <= Size
    BY <1>1, <1>12
  <2> QED
    BY <2>1
<1>14. u[Size] = from[1]
  <2>1. ~S!Starts(s, Size) /\ ~S!Starts(s, Size - 1)
    BY <1>1 DEF S!Starts, Size
  <2>2. from[Size + 1] = <<>>
    <3>1. Size + 1 \in 1..(Size + 1) /\ Size + 1 > Size
      BY <1>1
    <3> QED
      BY <1>2, <3>1 DEF LoopAt, Size
  <2>3. u[Size] \o <<>> = from[1]
    BY <1>13, <2>1, <2>2 DEF At
  <2>4. u[Size] \in Seq(Byte)
    BY <1>1, <1>6
  <2> QED
    BY <2>3, <2>4, ConcatEmpty
<1>15. u[Size] \in Seq(Byte)
  BY <1>1, <1>6
<1> QED
  BY <1>2, <1>7, <1>13, <1>14, <1>15 DEF Size

(* Decoded texts. *)
Text == Seq(Byte)

(* A string up to its first NUL. *)
LEMMA CutRight ==
    ASSUME NEW d \in Text
    PROVE  S!CString(d) = S!Cut(d) /\ S!CString(d) \in Text
<1> DEFINE Size == Len(d)
           M == {m \in DOMAIN d : \A i \in 1..m : d[i] # 0}
<1>1. Size \in Nat /\ DOMAIN d = 1..Size /\ \A i \in 1..Size : d[i] \in Byte
  BY DEF Text
<1>a. S!Cut(d) = SubSeq(d, 1, Cardinality({m \in DOMAIN d : \A i \in 1..m : d[i] # 0}))
  BY Zenon DEF S!Cut, S!Cardinality, Cardinality
<1> HIDE DEF Size
<1>2. S!Cut(d) = SubSeq(d, 1, Cardinality(M))
  BY <1>a, Zenon
<1> HIDE DEF M
<1>3. CASE \E i \in DOMAIN d : d[i] = 0
  <2> DEFINE Nuls == {i \in DOMAIN d : d[i] = 0}
  <2>1. Nuls # {} /\ Nuls \in SUBSET Nat
    BY <1>1, <1>3
  <2>2. PICK p \in Nuls : \A i \in Nuls : p <= i
    BY <2>1, Least
  <2>3. p \in 1..Size /\ d[p] = 0 /\ \A i \in 1..(p - 1) : d[i] # 0
    BY <1>1, <2>2
  <2>4. \A i \in DOMAIN d : d[i] = 0 /\ (\A j \in 1..(i - 1) : d[j] # 0) => i = p
    BY <1>1, <2>3
  <2>5. (CHOOSE i \in DOMAIN d : d[i] = 0 /\ \A j \in 1..(i - 1) : d[j] # 0) = p
    BY <1>1, <2>3, <2>4
  <2>6. S!CString(d) = SubSeq(d, 1, p - 1)
    BY <1>3, <2>5 DEF S!CString
  <2>7. M = 1..(p - 1)
    BY <1>1, <2>3 DEF M
  <2>8. Cardinality(M) = p - 1
    <3>1. Cardinality(1..(p - 1)) = IF 1 > p - 1 THEN 0 ELSE (p - 1) - 1 + 1
      BY <2>3, FS_Interval
    <3> QED
      BY <2>3, <2>7, <3>1
  <2>9. SubSeq(d, 1, p - 1) \in Text
    BY <1>1, <2>3, SubSeqProperties DEF Text
  <2> QED
    BY <1>2, <2>6, <2>8, <2>9
<1>4. CASE ~ \E i \in DOMAIN d : d[i] = 0
  <2>1. S!CString(d) = d
    BY <1>4 DEF S!CString
  <2>2. M = 1..Size
    BY <1>1, <1>4 DEF M
  <2>3. Cardinality(M) = Size
    <3>1. Cardinality(1..Size) = IF 1 > Size THEN 0 ELSE Size - 1 + 1
      BY <1>1, FS_Interval
    <3> QED
      BY <1>1, <2>2, <3>1
  <2>4. SubSeq(d, 1, Size) = d
    <3>1. /\ SubSeq(d, 1, Size) \in Seq(Byte)
          /\ Len(SubSeq(d, 1, Size)) = IF 1 <= Size THEN Size - 1 + 1 ELSE 0
          /\ \A i \in 1..(Size - 1 + 1) : SubSeq(d, 1, Size)[i] = d[1 + i - 1]
      BY <1>1, SubSeqProperties
    <3>2. Len(SubSeq(d, 1, Size)) = Size /\ \A i \in 1..Size : SubSeq(d, 1, Size)[i] = d[i]
      BY <1>1, <3>1
    <3> QED
      BY <3>1, <3>2, SameSequence DEF Size, Text
  <2> QED
    BY <1>2, <2>1, <2>3, <2>4
<1> QED
  BY <1>3, <1>4

(* What extract_scope appends for a scope: the decoded value, up to its     *)
(* first NUL.                                                               *)
LEMMA OutputRight ==
    ASSUME NEW s \in Seq(S!Item), NEW i \in 1..Len(s)
    PROVE  S!Output(s[i]) = S!Cut(S!Decoded(s[i].value)) /\ S!Output(s[i]) \in Text
<1>1. s[i] \in S!Item
  OBVIOUS
<1>2. s[i].value \in S!Text
  BY <1>1 DEF S!Item
<1>3. S!urldecode(s[i].value) = S!Decoded(s[i].value) /\ S!urldecode(s[i].value) \in Text
  BY <1>2, DecodesRight DEF Text
<1> QED
  BY <1>3, CutRight DEF S!Output

(* The two loops, one turn at a time. *)
DeviceTurn(s, k, d, a) ==
    IF ~S!Says(s[a], k) THEN d
    ELSE IF d = <<>> THEN <<S!Output(s[a])>>
    ELSE <<d[1] \o <<S!Space>> \o S!Output(s[a])>>

MatchTurn(s, k, d, a) ==
    IF ~S!Says(s[a], k) THEN d
    ELSE IF d = <<>> THEN S!Output(s[a])
    ELSE d \o <<S!Space>> \o S!Output(s[a])

(* What OnvifScopes answers. *)
TextOrNull == {<<>>} \cup {<<t>> : t \in Text}

(* The values of the two loops, from the first scope to the last. *)
DeviceLoop(f, s, k) ==
    /\ f \in [0..Len(s) -> TextOrNull] /\ f[0] = <<>>
    /\ \A a \in 1..Len(s) : f[a] = DeviceTurn(s, k, f[a - 1], a)

MatchLoop(f, s, k) ==
    /\ f \in [0..Len(s) -> Text] /\ f[0] = <<>>
    /\ \A a \in 1..Len(s) : f[a] = MatchTurn(s, k, f[a - 1], a)

(* A space, and an empty text, are texts. *)
LEMMA SpaceIsByte ==
    <<S!Space>> \in Text /\ Len(<<S!Space>>) = 1 /\ <<>> \in Text
BY DEF Text, Byte, S!Space

(* The loop of OnvifScopes__extract_scope is well defined. *)
LEMMA DeviceAnswer ==
    ASSUME NEW s \in Seq(S!Item), NEW k
    PROVE  \E f : DeviceLoop(f, s, k) /\ S!ExtractDevice(s, k) = f[Len(s)]
<1> DEFINE Size == Len(s)
           G == [a \in 1..Size |-> [d \in TextOrNull |-> DeviceTurn(s, k, d, a)]]
           ret_val[a \in 0..Size] ==
              IF a = 0 THEN <<>>
              ELSE IF ~S!Says(s[a], k) THEN ret_val[a - 1]
              ELSE IF ret_val[a - 1] = <<>> THEN <<S!Output(s[a])>>
              ELSE <<ret_val[a - 1][1] \o <<S!Space>> \o S!Output(s[a])>>
           Body(f, a) ==
              IF a = 0 THEN <<>>
              ELSE IF ~S!Says(s[a], k) THEN f[a - 1]
              ELSE IF f[a - 1] = <<>> THEN <<S!Output(s[a])>>
              ELSE <<f[a - 1][1] \o <<S!Space>> \o S!Output(s[a])>>
<1>1. Size \in Nat
  OBVIOUS
<1>2. \A a \in 1..Size, d \in TextOrNull : DeviceTurn(s, k, d, a) \in TextOrNull
  <2> TAKE a \in 1..Size, d \in TextOrNull
  <2>1. S!Output(s[a]) \in Text
    BY OutputRight
  <2>2. d # <<>> => d[1] \in Text
    BY DEF TextOrNull
  <2> HIDE DEF Size
  <2>3. d # <<>> => d[1] \o <<S!Space>> \o S!Output(s[a]) \in Text
    BY <2>1, <2>2, SpaceIsByte DEF Text
  <2>4. \A t \in Text : <<t>> \in TextOrNull
    BY DEF TextOrNull
  <2> QED
    BY <2>1, <2>3, <2>4 DEF DeviceTurn
<1>3. \A a \in 1..Size, d \in TextOrNull : G[a][d] = DeviceTurn(s, k, d, a)
  OBVIOUS
<1>4. <<>> \in TextOrNull
  BY DEF TextOrNull
<1> HIDE DEF G
<1>5. PICK f : Follows(f, Size, TextOrNull, <<>>, G)
  <2>1. Stays(Size, TextOrNull, <<>>, G)
    BY <1>2, <1>3, <1>4 DEF Stays
  <2> QED
    BY <1>1, <2>1, Recursion
<1>6. DeviceLoop(f, s, k)
  <2>1. f \in [0..Size -> TextOrNull] /\ f[0] = <<>> /\ \A a \in 1..Size : f[a] = G[a][f[a - 1]]
    BY <1>5 DEF Follows
  <2>2. \A a \in 1..Size : f[a - 1] \in TextOrNull
    BY <1>1, <2>1
  <2> QED
    BY <1>3, <2>1, <2>2 DEF DeviceLoop
<1>7. \A a \in 0..Size : f[a] = Body(f, a)
  <2> TAKE a \in 0..Size
  <2>1. a = 0 \/ a \in 1..Size
    BY <1>1
  <2> QED
    BY <1>6, <2>1 DEF DeviceLoop, DeviceTurn
<1>8. f = [a \in 0..Size |-> Body(f, a)]
  <2> HIDE DEF Body
  <2>1. f \in [0..Size -> TextOrNull]
    BY <1>6 DEF DeviceLoop
  <2> QED
    BY <1>7, <2>1
<1>9. ret_val = [a \in 0..Size |-> Body(ret_val, a)]
  BY <1>8
<1>10. S!ExtractDevice(s, k) = ret_val[Size]
  BY DEF S!ExtractDevice
<1> HIDE DEF ret_val
<1>11. \A a \in 0..Size : ret_val[a] = Body(ret_val, a)
  <2> HIDE DEF Body
  <2> QED
    BY <1>9
<1> DEFINE A == {a \in Nat : a <= Size => ret_val[a] = f[a]}
<1>12. 0 \in A
  <2>1. 0 \in 0..Size
    BY <1>1
  <2>2. ret_val[0] = Body(ret_val, 0) /\ f[0] = Body(f, 0)
    BY <1>7, <1>11, <2>1
  <2> QED
    BY <2>2
<1>13. ASSUME NEW a \in Nat, a \in A
       PROVE  a + 1 \in A
  <2> SUFFICES ASSUME a + 1 <= Size PROVE ret_val[a + 1] = f[a + 1]
    OBVIOUS
  <2>1. a <= Size /\ a + 1 \in 0..Size /\ (a + 1) - 1 = a /\ a + 1 # 0
    BY <1>1
  <2>2. ret_val[a] = f[a]
    BY <1>13, <2>1
  <2>3. Body(ret_val, a + 1) = Body(f, a + 1)
    BY <2>1, <2>2
  <2> QED
    BY <1>7, <1>11, <2>1, <2>3
<1>14. Nat \subseteq A
  <2> HIDE DEF A
  <2> QED
    BY <1>12, <1>13, Induction
<1> QED
  BY <1>1, <1>6, <1>10, <1>14

(* The loop of ProbMatch__extract_scope is well defined. *)
LEMMA MatchAnswer ==
    ASSUME NEW s \in Seq(S!Item), NEW k
    PROVE  \E f : MatchLoop(f, s, k) /\ S!ExtractMatch(s, k) = f[Len(s)]
<1> DEFINE Size == Len(s)
           G == [a \in 1..Size |-> [d \in Text |-> MatchTurn(s, k, d, a)]]
           ret_val[a \in 0..Size] ==
              IF a = 0 THEN <<>>
              ELSE IF ~S!Says(s[a], k) THEN ret_val[a - 1]
              ELSE IF ret_val[a - 1] = <<>> THEN S!Output(s[a])
              ELSE ret_val[a - 1] \o <<S!Space>> \o S!Output(s[a])
           Body(f, a) ==
              IF a = 0 THEN <<>>
              ELSE IF ~S!Says(s[a], k) THEN f[a - 1]
              ELSE IF f[a - 1] = <<>> THEN S!Output(s[a])
              ELSE f[a - 1] \o <<S!Space>> \o S!Output(s[a])
<1>1. Size \in Nat
  OBVIOUS
<1>2. \A a \in 1..Size, d \in Text : MatchTurn(s, k, d, a) \in Text
  <2> TAKE a \in 1..Size, d \in Text
  <2>1. S!Output(s[a]) \in Text
    BY OutputRight
  <2> HIDE DEF Size
  <2>2. d \o <<S!Space>> \o S!Output(s[a]) \in Text
    BY <2>1, SpaceIsByte DEF Text
  <2> QED
    BY <2>1, <2>2 DEF MatchTurn
<1>3. \A a \in 1..Size, d \in Text : G[a][d] = MatchTurn(s, k, d, a)
  OBVIOUS
<1>4. <<>> \in Text
  BY SpaceIsByte
<1> HIDE DEF G
<1>5. PICK f : Follows(f, Size, Text, <<>>, G)
  <2>1. Stays(Size, Text, <<>>, G)
    BY <1>2, <1>3, <1>4 DEF Stays
  <2> QED
    BY <1>1, <2>1, Recursion
<1>6. MatchLoop(f, s, k)
  <2>1. f \in [0..Size -> Text] /\ f[0] = <<>> /\ \A a \in 1..Size : f[a] = G[a][f[a - 1]]
    BY <1>5 DEF Follows
  <2>2. \A a \in 1..Size : f[a - 1] \in Text
    BY <1>1, <2>1
  <2> QED
    BY <1>3, <2>1, <2>2 DEF MatchLoop
<1>7. \A a \in 0..Size : f[a] = Body(f, a)
  <2> TAKE a \in 0..Size
  <2>1. a = 0 \/ a \in 1..Size
    BY <1>1
  <2> QED
    BY <1>6, <2>1 DEF MatchLoop, MatchTurn
<1>8. f = [a \in 0..Size |-> Body(f, a)]
  <2> HIDE DEF Body
  <2>1. f \in [0..Size -> Text]
    BY <1>6 DEF MatchLoop
  <2> QED
    BY <1>7, <2>1
<1>9. ret_val = [a \in 0..Size |-> Body(ret_val, a)]
  BY <1>8
<1>10. S!ExtractMatch(s, k) = ret_val[Size]
  BY DEF S!ExtractMatch
<1> HIDE DEF ret_val
<1>11. \A a \in 0..Size : ret_val[a] = Body(ret_val, a)
  <2> HIDE DEF Body
  <2> QED
    BY <1>9
<1> DEFINE A == {a \in Nat : a <= Size => ret_val[a] = f[a]}
<1>12. 0 \in A
  <2>1. 0 \in 0..Size
    BY <1>1
  <2>2. ret_val[0] = Body(ret_val, 0) /\ f[0] = Body(f, 0)
    BY <1>7, <1>11, <2>1
  <2> QED
    BY <2>2
<1>13. ASSUME NEW a \in Nat, a \in A
       PROVE  a + 1 \in A
  <2> SUFFICES ASSUME a + 1 <= Size PROVE ret_val[a + 1] = f[a + 1]
    OBVIOUS
  <2>1. a <= Size /\ a + 1 \in 0..Size /\ (a + 1) - 1 = a /\ a + 1 # 0
    BY <1>1
  <2>2. ret_val[a] = f[a]
    BY <1>13, <2>1
  <2>3. Body(ret_val, a + 1) = Body(f, a + 1)
    BY <2>1, <2>2
  <2> QED
    BY <1>7, <1>11, <2>1, <2>3
<1>14. Nat \subseteq A
  <2> HIDE DEF A
  <2> QED
    BY <1>12, <1>13, Induction
<1> QED
  BY <1>1, <1>6, <1>10, <1>14

(* One of the first a scopes says something of the key. *)
SaidBy(s, k, a) == \E m \in 1..a : S!Says(s[m], k)

(* The answer of OnvifScopes is the values joined, a space between them.    *)
LEMMA DeviceAnswerJoined ==
    ASSUME NEW s \in Seq(S!Item), NEW k
    PROVE  S!ExtractDevice(s, k) =
              IF SaidBy(s, k, Len(s))
              THEN <<S!FlattenSeq([n \in DOMAIN s |-> S!Piece(s, k, n)])>>
              ELSE <<>>
<1> DEFINE Size == Len(s)
           L == [n \in 1..Size |-> S!Piece(s, k, n)]
<1>1. Size \in Nat /\ DOMAIN s = 1..Size
  OBVIOUS
<1>2. PICK f : DeviceLoop(f, s, k) /\ S!ExtractDevice(s, k) = f[Size]
  BY DeviceAnswer
<1>3. f \in [0..Size -> TextOrNull] /\ f[0] = <<>>
      /\ \A a \in 1..Size : f[a] = DeviceTurn(s, k, f[a - 1], a)
  BY <1>2 DEF DeviceLoop
<1>4. \A n \in 1..Size : S!Output(s[n]) \in Text /\ S!Output(s[n]) = S!Cut(S!Decoded(s[n].value))
  BY OutputRight
<1> HIDE DEF Size
<1>5. \A n \in 1..Size :
         S!Piece(s, k, n) =
            IF ~S!Says(s[n], k) THEN <<>>
            ELSE (IF SaidBy(s, k, n - 1) THEN <<S!Space>> ELSE <<>>) \o S!Output(s[n])
  BY <1>4 DEF S!Piece, SaidBy
<1>6. \A n \in 1..Size : S!Piece(s, k, n) \in Text
  <2> TAKE n \in 1..Size
  <2>1. S!Output(s[n]) \in Text
    BY <1>4
  <2>2. <<S!Space>> \o S!Output(s[n]) \in Text /\ <<>> \o S!Output(s[n]) \in Text /\ <<>> \in Text
    BY <2>1, SpaceIsByte DEF Text
  <2> QED
    BY <1>5, <2>2
<1>7. L \in [1..Size -> Seq(Byte)]
  BY <1>6 DEF Text
<1>8. PICK u \in [0..Size -> Seq(Byte)] : Joins(u, Size, L) /\ S!FlattenSeq(L) = u[Size]
  BY <1>1, <1>7, Flattened
<1>9. u[0] = <<>> /\ \A n \in 1..Size : u[n] = u[n - 1] \o S!Piece(s, k, n)
  BY <1>8 DEF Joins
<1> DEFINE At(n) == f[n] = (IF SaidBy(s, k, n) THEN <<u[n]>> ELSE <<>>)
                    /\ (~SaidBy(s, k, n) => u[n] = <<>>)
           A == {n \in Nat : n <= Size => At(n)}
<1>10. 0 \in A
  BY <1>3, <1>9 DEF SaidBy
<1>11. ASSUME NEW n \in Nat, n \in A
       PROVE  n + 1 \in A
  <2> HIDE DEF At
  <2> SUFFICES ASSUME n + 1 <= Size PROVE At(n + 1)
    OBVIOUS
  <2>1. n <= Size /\ n \in 0..Size /\ n + 1 \in 1..Size /\ (n + 1) - 1 = n
    BY <1>1
  <2>2. At(n)
    BY <1>11, <2>1
  <2> DEFINE i == n + 1
             o == S!Output(s[i])
             p == S!Piece(s, k, i)
  <2>3. f[i] = DeviceTurn(s, k, f[n], i)
    BY <1>3, <2>1
  <2>4. u[i] = u[n] \o p
    BY <1>9, <2>1
  <2>5. p = IF ~S!Says(s[i], k) THEN <<>> ELSE (IF SaidBy(s, k, n) THEN <<S!Space>> ELSE <<>>) \o o
    BY <1>5, <2>1
  <2>6. u[n] \in Text /\ o \in Text
    BY <1>4, <1>8, <2>1 DEF Text
  <2>7. SaidBy(s, k, i) <=> SaidBy(s, k, n) \/ S!Says(s[i], k)
    BY <2>1 DEF SaidBy
  <2>8. DeviceTurn(s, k, f[n], i) =
           IF ~S!Says(s[i], k) THEN f[n]
           ELSE IF f[n] = <<>> THEN <<o>>
           ELSE <<f[n][1] \o <<S!Space>> \o o>>
    BY DEF DeviceTurn
  <2>e. \A t \in Text : t \o <<>> = t /\ <<>> \o t = t
    BY ConcatEmpty DEF Text
  <2>g. \A x, y, z \in Text : x \o (y \o z) = (x \o y) \o z
    BY Regrouped DEF Text
  <2>s. <<S!Space>> \in Text
    BY SpaceIsByte
  <2> HIDE DEF i, o, p
  <2>9. CASE ~S!Says(s[i], k)
    <3>1. f[i] = f[n] /\ u[i] = u[n]
      BY <2>3, <2>4, <2>5, <2>6, <2>8, <2>9, <2>e
    <3>2. SaidBy(s, k, i) <=> SaidBy(s, k, n)
      BY <2>7, <2>9
    <3> QED
      BY <2>2, <3>1, <3>2 DEF At, i
  <2>10. CASE S!Says(s[i], k) /\ SaidBy(s, k, n)
    <3>1. f[n] = <<u[n]>>
      BY <2>2, <2>10 DEF At
    <3>2. f[n] # <<>> /\ f[n][1] = u[n]
      BY <3>1
    <3>3. f[i] = <<u[n] \o <<S!Space>> \o o>>
      BY <2>3, <2>8, <2>10, <3>2
    <3>4. u[i] = u[n] \o (<<S!Space>> \o o)
      BY <2>4, <2>5, <2>10
    <3>5. u[n] \o (<<S!Space>> \o o) = (u[n] \o <<S!Space>>) \o o
      BY <2>6, <2>g, <2>s
    <3>6. f[i] = <<u[i]>>
      BY <3>3, <3>4, <3>5
    <3> QED
      BY <2>7, <2>10, <3>6 DEF At, i
  <2>11. CASE S!Says(s[i], k) /\ ~SaidBy(s, k, n)
    <3>1. f[n] = <<>> /\ u[n] = <<>>
      BY <2>2, <2>11 DEF At
    <3>2. f[i] = <<o>>
      BY <2>3, <2>8, <2>11, <3>1
    <3>3. p = o
      BY <2>5, <2>6, <2>11, <2>e
    <3>4. u[i] = o
      BY <2>4, <2>6, <2>e, <3>1, <3>3
    <3> QED
      BY <2>7, <2>11, <3>2, <3>4 DEF At, i
  <2> QED
    BY <2>9, <2>10, <2>11 DEF i
<1>12. Nat \subseteq A
  <2> HIDE DEF A
  <2> QED
    BY <1>10, <1>11, Induction
<1>13. At(Size)
  <2> HIDE DEF At
  <2>1. Size \in A /\ Size <= Size
    BY <1>1, <1>12
  <2> QED
    BY <2>1
<1>14. [n \in DOMAIN s |-> S!Piece(s, k, n)] = L
  BY <1>1
<1> QED
  BY <1>2, <1>8, <1>13, <1>14 DEF Size

(* Two texts joined. *)
LEMMA Lengths ==
    ASSUME NEW a \in Text, NEW b \in Text
    PROVE  /\ a \o b \in Text /\ Len(a) \in Nat /\ Len(b) \in Nat
           /\ Len(a \o b) = Len(a) + Len(b)
           /\ \A i \in 1..Len(a) : (a \o b)[i] = a[i]
           /\ \A i \in 1..Len(b) : (a \o b)[Len(a) + i] = b[i]
BY ConcatFacts DEF Text

(* A text of m spaces. *)
Spaces(m) == [i \in 1..m |-> S!Space]

(* One space more. *)
LEMMA SpacesGrow ==
    ASSUME NEW m \in Nat
    PROVE  /\ Spaces(m) \in Text /\ Spaces(0) = <<>>
           /\ Spaces(m) \o <<S!Space>> = Spaces(m + 1)
<1>1. \A n \in Nat : Spaces(n) \in Text /\ Len(Spaces(n)) = n
                     /\ \A i \in 1..n : Spaces(n)[i] = S!Space
  BY DEF Spaces, Text, Byte, S!Space
<1>2. Spaces(0) = <<>>
  BY DEF Spaces
<1> DEFINE a == Spaces(m)
           b == <<S!Space>>
           c == Spaces(m + 1)
<1>3. a \in Text /\ Len(a) = m /\ c \in Text /\ Len(c) = m + 1
  BY <1>1
<1>4. b \in Text /\ Len(b) = 1 /\ b[1] = S!Space
  BY SpaceIsByte
<1>5. \A i \in 1..m : a[i] = S!Space
  BY <1>1
<1>6. \A i \in 1..(m + 1) : c[i] = S!Space
  BY <1>1
<1> HIDE DEF a, b, c
<1>7. a \o b \in Text /\ Len(a \o b) = m + 1
  <2>1. Len(a \o b) = Len(a) + Len(b) /\ a \o b \in Text
    BY <1>3, <1>4, Lengths
  <2> QED
    BY <1>3, <1>4, <2>1
<1>8. \A i \in 1..(m + 1) : (a \o b)[i] = c[i]
  <2> TAKE i \in 1..(m + 1)
  <2>1. CASE i \in 1..m
    <3>1. (a \o b)[i] = a[i]
      BY <1>3, <1>4, <2>1, Lengths
    <3> QED
      BY <1>5, <1>6, <2>1, <3>1
  <2>2. CASE i = m + 1
    <3>1. (a \o b)[i] = b[1]
      <4>1. (a \o b)[Len(a) + 1] = b[1]
        <5>1. 1 \in 1..Len(b)
          BY <1>4
        <5> QED
          BY <1>3, <1>4, <5>1, Lengths
      <4> QED
        BY <1>3, <2>2, <4>1
    <3> QED
      BY <1>4, <1>6, <3>1
  <2> QED
    <3>1. i \in 1..m \/ i = m + 1
      OBVIOUS
    <3> QED
      BY <2>1, <2>2, <3>1
<1>9. a \o b = c
  BY <1>3, <1>7, <1>8, SameSequence DEF Text
<1> QED
  BY <1>1, <1>2, <1>9 DEF a, b, c

(* The first of the first a scopes that says something of the key says      *)
(* nothing in it.                                                           *)
FirstIsEmpty(s, k, a) ==
    \E i \in 1..a : /\ S!Says(s[i], k) /\ S!Output(s[i]) = <<>>
                    /\ \A j \in 1..(i - 1) : ~S!Says(s[j], k)

(* The first scope that says something of the key stays the first. *)
LEMMA FirstStays ==
    ASSUME NEW s, NEW k, NEW n \in Nat
    PROVE  /\ FirstIsEmpty(s, k, n) => FirstIsEmpty(s, k, n + 1)
           /\ ~SaidBy(s, k, n) /\ S!Says(s[n + 1], k) /\ S!Output(s[n + 1]) = <<>>
                 => FirstIsEmpty(s, k, n + 1)
<1>1. 1..n \subseteq 1..(n + 1) /\ n + 1 \in 1..(n + 1) /\ (n + 1) - 1 = n
  OBVIOUS
<1> QED
  BY <1>1 DEF FirstIsEmpty, SaidBy

(* The answers differ in spaces before the first value alone. *)
AnswersAgree(d, g, s, k, n) ==
    IF d = <<>> THEN g = <<>>
    ELSE \E m \in 0..n : /\ d[1] = Spaces(m) \o g
                         /\ m > 0 => FirstIsEmpty(s, k, n)

(* The two functions agree. *)
LEMMA AnswersMatch ==
    ASSUME NEW s \in Seq(S!Item), NEW k
    PROVE  /\ AnswersAgree(S!ExtractDevice(s, k), S!ExtractMatch(s, k), s, k, Len(s))
           /\ S!ExtractMatch(s, k) \in Text
<1> DEFINE Size == Len(s)
<1>1. Size \in Nat
  OBVIOUS
<1>2. PICK f : DeviceLoop(f, s, k) /\ S!ExtractDevice(s, k) = f[Size]
  BY DeviceAnswer
<1>3. PICK g : MatchLoop(g, s, k) /\ S!ExtractMatch(s, k) = g[Size]
  BY MatchAnswer
<1>4. \A n \in 1..Size : S!Output(s[n]) \in Text
  BY OutputRight
<1> HIDE DEF Size
<1>5. f[0] = <<>> /\ \A n \in 0..Size : n + 1 <= Size => f[n + 1] = DeviceTurn(s, k, f[n], n + 1)
  <2>1. \A n \in 0..Size : n + 1 <= Size => n + 1 \in 1..Size /\ (n + 1) - 1 = n
    BY <1>1
  <2> QED
    BY <1>2, <2>1 DEF DeviceLoop, Size
<1>6. /\ g[0] = <<>> /\ \A n \in 0..Size : g[n] \in Text
      /\ \A n \in 0..Size : n + 1 <= Size => g[n + 1] = MatchTurn(s, k, g[n], n + 1)
  <2>1. \A n \in 0..Size : n + 1 <= Size => n + 1 \in 1..Size /\ (n + 1) - 1 = n
    BY <1>1
  <2> QED
    BY <1>3, <2>1 DEF MatchLoop, Size
<1> DEFINE At(n) == /\ f[n] = <<>> => g[n] = <<>> /\ ~SaidBy(s, k, n)
                    /\ f[n] # <<>> =>
                          \E m \in 0..n :
                             /\ f[n][1] = Spaces(m) \o g[n]
                             /\ m > 0 \/ g[n] = <<>> => FirstIsEmpty(s, k, n)
           A == {n \in Nat : n <= Size => At(n)}
<1>7. 0 \in A
  BY <1>5, <1>6 DEF SaidBy
<1>8. ASSUME NEW n \in Nat, n \in A
      PROVE  n + 1 \in A
  <2> HIDE DEF At
  <2> SUFFICES ASSUME n + 1 <= Size PROVE At(n + 1)
    OBVIOUS
  <2>1. n <= Size /\ n \in 0..Size /\ n + 1 \in 1..Size
    BY <1>1
  <2>2. At(n)
    BY <1>8, <2>1
  <2> DEFINE i == n + 1
             o == S!Output(s[i])
             b == <<S!Space>>
  <2>3. f[i] = DeviceTurn(s, k, f[n], i) /\ g[i] = MatchTurn(s, k, g[n], i)
    BY <1>5, <1>6, <2>1
  <2>4. g[n] \in Text /\ o \in Text /\ b \in Text
    BY <1>4, <1>6, <2>1, SpaceIsByte
  <2>5. DeviceTurn(s, k, f[n], i) =
           IF ~S!Says(s[i], k) THEN f[n] ELSE IF f[n] = <<>> THEN <<o>> ELSE <<f[n][1] \o b \o o>>
    BY DEF DeviceTurn
  <2>6. MatchTurn(s, k, g[n], i) =
           IF ~S!Says(s[i], k) THEN g[n] ELSE IF g[n] = <<>> THEN o ELSE g[n] \o b \o o
    BY DEF MatchTurn
  <2>7. SaidBy(s, k, i) <=> SaidBy(s, k, n) \/ S!Says(s[i], k)
    BY <2>1 DEF SaidBy
  <2>8. /\ FirstIsEmpty(s, k, n) => FirstIsEmpty(s, k, i)
        /\ ~SaidBy(s, k, n) /\ S!Says(s[i], k) /\ o = <<>> => FirstIsEmpty(s, k, i)
    BY FirstStays
  <2>9. \A m \in 0..n : m \in Nat /\ m \in 0..i /\ m + 1 \in 0..i /\ m + 1 > 0
    OBVIOUS
  <2>e. \A t \in Text : t \o <<>> = t /\ <<>> \o t = t
    BY ConcatEmpty DEF Text
  <2>g. \A x, y, z \in Text : x \o (y \o z) = (x \o y) \o z
    BY Regrouped DEF Text
  <2>s. \A m \in Nat : Spaces(m) \in Text /\ Spaces(m) \o b = Spaces(m + 1)
    BY SpacesGrow
  <2>t. \A x, y \in Text : x \o y \in Text
    BY DEF Text
  <2> HIDE DEF o, b
  <2>10. CASE ~S!Says(s[i], k)
    <3>1. f[i] = f[n] /\ g[i] = g[n] /\ (SaidBy(s, k, i) <=> SaidBy(s, k, n))
      BY <2>3, <2>5, <2>6, <2>7, <2>10
    <3> HIDE DEF i
    <3>2. At(i)
      BY <2>2, <2>8, <2>9, <3>1 DEF At
    <3> QED
      BY <3>2 DEF i
  <2>11. CASE S!Says(s[i], k) /\ f[n] = <<>>
    <3>1. g[n] = <<>> /\ ~SaidBy(s, k, n)
      BY <2>2, <2>11 DEF At
    <3>2. f[i] = <<o>> /\ g[i] = o
      BY <2>3, <2>5, <2>6, <2>11, <3>1
    <3> HIDE DEF i
    <3>3. f[i] # <<>> /\ f[i][1] = o
      BY <3>2
    <3>4. Spaces(0) \o g[i] = o
      <4>1. Spaces(0) = <<>>
        BY SpacesGrow
      <4> QED
        BY <2>4, <2>e, <3>2, <4>1
    <3>5. g[i] = <<>> => FirstIsEmpty(s, k, i)
      BY <2>8, <2>11, <3>1, <3>2
    <3>6. 0 \in 0..i /\ ~(0 > 0)
      BY <2>9 DEF i
    <3>7. At(i)
      BY <3>3, <3>4, <3>5, <3>6 DEF At
    <3> QED
      BY <3>7 DEF i
  <2>12. CASE S!Says(s[i], k) /\ f[n] # <<>>
    <3>1. PICK m \in 0..n :
             /\ f[n][1] = Spaces(m) \o g[n]
             /\ m > 0 \/ g[n] = <<>> => FirstIsEmpty(s, k, n)
      BY <2>2, <2>12 DEF At
    <3>2. f[i] = <<f[n][1] \o b \o o>>
      BY <2>3, <2>5, <2>12
    <3>3. f[i] # <<>> /\ f[i][1] = f[n][1] \o b \o o
      BY <3>2
    <3>4. Spaces(m) \in Text /\ Spaces(m) \o b = Spaces(m + 1)
      BY <2>9, <2>s
    <3> HIDE DEF i
    <3>5. CASE g[n] = <<>>
      <4>1. g[i] = o
        BY <2>3, <2>6, <2>12, <3>5
      <4>2. f[n][1] = Spaces(m)
        BY <2>e, <3>1, <3>4, <3>5
      <4>3. f[i][1] = Spaces(m + 1) \o g[i]
        BY <3>3, <3>4, <4>1, <4>2
      <4>4. FirstIsEmpty(s, k, i)
        BY <2>8, <3>1, <3>5
      <4>5. At(i)
        BY <2>9, <3>3, <4>3, <4>4 DEF At
      <4> QED
        BY <4>5 DEF i
    <3>6. CASE g[n] # <<>>
      <4>1. g[i] = (g[n] \o b) \o o
        BY <2>3, <2>6, <2>12, <3>6
      <4>2. f[i][1] = ((Spaces(m) \o g[n]) \o b) \o o
        BY <3>1, <3>3
      <4>3. (Spaces(m) \o g[n]) \o b = Spaces(m) \o (g[n] \o b)
        BY <2>4, <2>g, <3>4
      <4>4. (Spaces(m) \o (g[n] \o b)) \o o = Spaces(m) \o ((g[n] \o b) \o o)
        <5>1. g[n] \o b \in Text
          BY <2>4, <2>t
        <5> QED
          BY <2>4, <2>g, <3>4, <5>1
      <4>5. f[i][1] = Spaces(m) \o g[i]
        BY <4>1, <4>2, <4>3, <4>4
      <4>6. g[i] # <<>>
        <5>1. Len(b) = 1
          BY SpaceIsByte DEF b
        <5>2. g[n] \o b \in Text /\ Len(g[n] \o b) = Len(g[n]) + 1 /\ Len(g[n]) \in Nat
          <6>1. /\ g[n] \o b \in Text /\ Len(g[n]) \in Nat
                /\ Len(g[n] \o b) = Len(g[n]) + Len(b)
            BY <2>4, Lengths
          <6> QED
            BY <5>1, <6>1
        <5>3. Len((g[n] \o b) \o o) = Len(g[n] \o b) + Len(o) /\ Len(o) \in Nat
          BY <2>4, <5>2, Lengths
        <5>4. Len(g[i]) > 0
          BY <4>1, <5>2, <5>3
        <5> QED
          BY <5>4
      <4>7. m > 0 => FirstIsEmpty(s, k, i)
        BY <2>8, <3>1
      <4>8. At(i)
        BY <2>9, <3>3, <4>5, <4>6, <4>7 DEF At
      <4> QED
        BY <4>8 DEF i
    <3> QED
      BY <3>5, <3>6
  <2> QED
    BY <2>10, <2>11, <2>12
<1>9. Nat \subseteq A
  <2> HIDE DEF A
  <2> QED
    BY <1>7, <1>8, Induction
<1>10. At(Size)
  <2> HIDE DEF At
  <2>1. Size \in A /\ Size <= Size
    BY <1>1, <1>9
  <2> QED
    BY <2>1
<1>11. g[Size] \in Text
  BY <1>1, <1>6
<1> QED
  BY <1>2, <1>3, <1>10, <1>11 DEF AnswersAgree, Size

(* A reply with an item that has no text. *)
NoText(r) == \E n \in DOMAIN r : r[n].kind = "null"

(* The list that is built of a reply. *)
ListOf(r) == IF NoText(r) THEN <<>> ELSE r

(* A list being built is the reply so far; a list that was built is the     *)
(* whole reply, or empty with a fault; and an answer is what that list says *)
(* of the key, disposed of or not.                                          *)
Building ==
    state = "building" =>
        /\ Len(scopes) = next - 1 /\ fault = "NONE" /\ asked = <<>>
        /\ \A i \in 1..(next - 1) : scopes[i] = reply[i] /\ reply[i].kind # "null"

(* A list that was built. *)
Finished ==
    /\ state # "building" =>
          fault = IF NoText(reply) THEN "UNEXPECTED" ELSE "NONE"
    /\ state = "built" => scopes = ListOf(reply)

(* The answers. *)
Replied ==
    /\ asked = <<>> => device_answer = <<>> /\ match_answer = <<>>
    /\ asked # <<>> =>
          /\ state # "building"
          /\ device_answer = S!ExtractDevice(ListOf(reply), asked[1])
          /\ match_answer = S!ExtractMatch(ListOf(reply), asked[1])

(* The list, and its answers, are those of the reply. *)
ScopesInv ==
    /\ S!TypeOK /\ scopes \in Seq(S!Item)
    /\ Building /\ Finished /\ Replied

(* A reply is a sequence of items, and so is its list. *)
LEMMA ListFacts ==
    ASSUME NEW r \in ScopeReplies
    PROVE  /\ r \in Seq(S!Item) /\ Len(r) \in Nat /\ DOMAIN r = 1..Len(r)
           /\ \A n \in DOMAIN r : r[n] \in S!Item
           /\ ListOf(r) \in Seq(S!Item)
<1>1. r \in Seq(S!Item)
  BY RepliesAssumption
<1>2. <<>> \in Seq(S!Item)
  OBVIOUS
<1>3. Len(r) \in Nat /\ DOMAIN r = 1..Len(r) /\ \A n \in DOMAIN r : r[n] \in S!Item
  BY <1>1
<1> QED
  BY <1>1, <1>2, <1>3 DEF ListOf

(* Nothing of the reply is read. *)
LEMMA ScopesInit ==
    ASSUME S!Init
    PROVE  ScopesInv
<1>1. reply \in ScopeReplies /\ next = 1
      /\ scopes = <<>> /\ fault = "NONE" /\ state = "building"
      /\ asked = <<>> /\ device_answer = <<>> /\ match_answer = <<>>
  BY DEF S!Init
<1>2. Len(reply) \in Nat
  BY <1>1, ListFacts
<1>3. S!TypeOK
  <2>1. 1 \in 1..(Len(reply) + 1)
    BY <1>2
  <2>2. <<>> \in Seq(0..255) /\ Len(<<>>) = 0 /\ DOMAIN scopes = {}
    BY <1>1
  <2> QED
    BY <1>1, <2>1, <2>2 DEF S!TypeOK
<1> QED
  BY <1>1, <1>3 DEF ScopesInv, Building, Finished, Replied

(* An item is added, or it has no text and all are dropped. *)
LEMMA AddScopeKeeps ==
    ASSUME ScopesInv, S!AddScope
    PROVE  ScopesInv'
<1>1. /\ S!TypeOK /\ scopes \in Seq(S!Item) /\ Building /\ Finished /\ Replied
  BY DEF ScopesInv
<1>2. /\ state = "building" /\ next <= Len(reply)
      /\ reply' = reply /\ asked' = asked
      /\ device_answer' = device_answer /\ match_answer' = match_answer
  BY DEF S!AddScope
<1>3. /\ Len(scopes) = next - 1 /\ fault = "NONE" /\ asked = <<>>
      /\ \A i \in 1..(next - 1) : scopes[i] = reply[i] /\ reply[i].kind # "null"
  BY <1>1, <1>2 DEF Building
<1>4. /\ reply \in ScopeReplies /\ next \in 1..(Len(reply) + 1)
      /\ \A n \in DOMAIN scopes : scopes[n] \in S!Item /\ scopes[n].kind # "null"
      /\ Len(device_answer) <= 1 /\ match_answer \in Seq(0..255)
  BY <1>1 DEF S!TypeOK
<1>5. /\ Len(reply) \in Nat /\ next \in 1..Len(reply) /\ next \in DOMAIN reply
      /\ reply[next] \in S!Item /\ next \in Nat /\ next + 1 \in 1..(Len(reply) + 1)
      /\ reply \in Seq(S!Item)
  <2>1. Len(reply) \in Nat /\ DOMAIN reply = 1..Len(reply)
        /\ (\A n \in DOMAIN reply : reply[n] \in S!Item) /\ reply \in Seq(S!Item)
    BY <1>4, ListFacts
  <2>2. next \in 1..Len(reply) /\ next \in Nat /\ next + 1 \in 1..(Len(reply) + 1)
    BY <1>2, <1>4, <2>1
  <2> QED
    BY <2>1, <2>2
<1>6. CASE reply[next].kind = "null"
  <2>1. scopes' = <<>> /\ fault' = "UNEXPECTED" /\ state' = "built" /\ next' = next
    BY <1>6 DEF S!AddScope, S!Reset
  <2>2. NoText(reply)
    BY <1>5, <1>6 DEF NoText
  <2>3. S!TypeOK'
    <3>1. DOMAIN <<>> = {}
      OBVIOUS
    <3> QED
      BY <1>2, <1>3, <1>4, <2>1, <3>1 DEF S!TypeOK
  <2>4. <<>> \in Seq(S!Item)
    OBVIOUS
  <2>5. Building' /\ Finished' /\ Replied'
    <3>1. Building'
      BY <2>1 DEF Building
    <3>2. Finished'
      BY <1>2, <2>1, <2>2 DEF Finished, ListOf
    <3>3. Replied'
      BY <1>1, <1>2, <1>3 DEF Replied
    <3> QED
      BY <3>1, <3>2, <3>3
  <2> QED
    BY <2>1, <2>3, <2>4, <2>5 DEF ScopesInv
<1>7. CASE reply[next].kind # "null"
  <2>1. /\ scopes' = Append(scopes, reply[next])
        /\ next' = next + 1 /\ fault' = fault /\ state' = state
    BY <1>7 DEF S!AddScope
  <2> DEFINE x == reply[next]
  <2>2. x \in S!Item /\ x.kind # "null"
    BY <1>5, <1>7
  <2> HIDE DEF x
  <2>3. scopes' = Append(scopes, x)
    BY <2>1 DEF x
  <2>4. /\ scopes' \in Seq(S!Item) /\ Len(scopes') = next
        /\ \A i \in 1..(next - 1) : scopes'[i] = scopes[i]
        /\ scopes'[next] = x
    BY <1>1, <1>3, <1>5, <2>2, <2>3
  <2>5. \A i \in 1..next : scopes'[i] = reply[i] /\ reply[i].kind # "null"
    <3> TAKE i \in 1..next
    <3>1. CASE i \in 1..(next - 1)
      BY <1>3, <2>4, <3>1
    <3>2. CASE i = next
      BY <1>7, <2>4, <3>2 DEF x
    <3>3. i \in 1..(next - 1) \/ i = next
      BY <1>5
    <3> QED
      BY <3>1, <3>2, <3>3
  <2>6. \A n \in DOMAIN scopes' : scopes'[n] \in S!Item /\ scopes'[n].kind # "null"
    BY <2>4, <2>5
  <2>7. S!TypeOK'
    BY <1>2, <1>3, <1>4, <1>5, <2>1, <2>6 DEF S!TypeOK
  <2>8. Building'
    <3>1. next' - 1 = next
      BY <1>5, <2>1
    <3> QED
      BY <1>2, <1>3, <2>1, <2>4, <2>5, <3>1 DEF Building
  <2>9. Finished' /\ Replied'
    BY <1>1, <1>2, <1>3, <2>1 DEF Finished, Replied
  <2> QED
    BY <2>4, <2>7, <2>8, <2>9 DEF ScopesInv
<1> QED
  BY <1>6, <1>7

(* The reply is read to its end. *)
LEMMA BuiltKeeps ==
    ASSUME ScopesInv, S!Built
    PROVE  ScopesInv'
<1>1. /\ S!TypeOK /\ scopes \in Seq(S!Item) /\ Building /\ Finished /\ Replied
  BY DEF ScopesInv
<1>2. /\ state = "building" /\ next > Len(reply) /\ state' = "built"
      /\ reply' = reply /\ next' = next /\ scopes' = scopes /\ fault' = fault
      /\ asked' = asked /\ device_answer' = device_answer /\ match_answer' = match_answer
  BY DEF S!Built
<1>3. /\ Len(scopes) = next - 1 /\ fault = "NONE" /\ asked = <<>>
      /\ \A i \in 1..(next - 1) : scopes[i] = reply[i] /\ reply[i].kind # "null"
  BY <1>1, <1>2 DEF Building
<1>4. reply \in ScopeReplies /\ next \in 1..(Len(reply) + 1)
  BY <1>1 DEF S!TypeOK
<1>5. reply \in Seq(S!Item) /\ Len(reply) \in Nat /\ DOMAIN reply = 1..Len(reply)
  BY <1>4, ListFacts
<1>6. next - 1 = Len(reply)
  BY <1>2, <1>4, <1>5
<1>7. ~NoText(reply)
  BY <1>3, <1>5, <1>6 DEF NoText
<1>8. scopes = reply
  <2>1. Len(scopes) = Len(reply) /\ \A i \in 1..Len(reply) : scopes[i] = reply[i]
    BY <1>3, <1>6
  <2> QED
    BY <1>1, <1>5, <2>1, SameSequence
<1>9. S!TypeOK'
  BY <1>1, <1>2 DEF S!TypeOK
<1>10. Building'
  BY <1>2 DEF Building
<1>11. Finished'
  BY <1>2, <1>3, <1>7, <1>8 DEF Finished, ListOf
<1>12. Replied'
  BY <1>1, <1>2, <1>3 DEF Replied
<1> QED
  BY <1>1, <1>2, <1>9, <1>10, <1>11, <1>12 DEF ScopesInv

(* A caller asks for a key. *)
LEMMA ExtractKeeps ==
    ASSUME ScopesInv, NEW k \in Keys, S!Extract(k)
    PROVE  ScopesInv'
<1>1. /\ S!TypeOK /\ scopes \in Seq(S!Item) /\ Building /\ Finished /\ Replied
  BY DEF ScopesInv
<1>2. /\ state = "built" /\ asked' = <<k>>
      /\ device_answer' = S!ExtractDevice(scopes, k)
      /\ match_answer' = S!ExtractMatch(scopes, k)
      /\ reply' = reply /\ next' = next /\ scopes' = scopes /\ fault' = fault
      /\ state' = state
  BY DEF S!Extract
<1>3. scopes = ListOf(reply)
  BY <1>1, <1>2 DEF Finished
<1>4. asked' # <<>> /\ asked'[1] = k
  BY <1>2
<1>5. Len(device_answer') <= 1
  <2>1. \A x : Len(<<x>>) = 1
    OBVIOUS
  <2>2. device_answer' = <<>> \/ \E x : device_answer' = <<x>>
    BY <1>1, <1>2, DeviceAnswerJoined
  <2>3. Len(<<>>) = 0
    OBVIOUS
  <2>4. CASE device_answer' = <<>>
    <3>1. Len(device_answer') = 0
      BY <2>3, <2>4
    <3> QED
      BY <3>1
  <2>5. CASE \E x : device_answer' = <<x>>
    <3>1. Len(device_answer') = 1
      BY <2>1, <2>5
    <3> QED
      BY <3>1
  <2> QED
    BY <2>2, <2>4, <2>5
<1>6. match_answer' \in Seq(0..255)
  BY <1>1, <1>2, AnswersMatch DEF Text, Byte
<1>7. S!TypeOK'
  BY <1>1, <1>2, <1>5, <1>6 DEF S!TypeOK
<1>8. Building' /\ Finished'
  BY <1>1, <1>2 DEF Building, Finished
<1>9. Replied'
  BY <1>2, <1>3, <1>4 DEF Replied
<1> QED
  BY <1>1, <1>2, <1>7, <1>8, <1>9 DEF ScopesInv

(* The list is freed. *)
LEMMA ScopesDisposeKeeps ==
    ASSUME ScopesInv, S!Dispose
    PROVE  ScopesInv'
<1>1. /\ S!TypeOK /\ scopes \in Seq(S!Item) /\ Building /\ Finished /\ Replied
  BY DEF ScopesInv
<1>2. /\ state = "built" /\ state' = "disposed" /\ scopes' = <<>>
      /\ reply' = reply /\ next' = next /\ fault' = fault
      /\ asked' = asked /\ device_answer' = device_answer /\ match_answer' = match_answer
  BY DEF S!Dispose, S!Reset
<1>3. S!TypeOK'
  <2>1. DOMAIN <<>> = {}
    OBVIOUS
  <2> QED
    BY <1>1, <1>2, <2>1 DEF S!TypeOK
<1>4. <<>> \in Seq(S!Item)
  OBVIOUS
<1>5. Building' /\ Finished' /\ Replied'
  BY <1>1, <1>2 DEF Building, Finished, Replied
<1> QED
  BY <1>2, <1>3, <1>4, <1>5 DEF ScopesInv

(* Each step of the scopes keeps the invariant. *)
LEMMA ScopesNext == ScopesInv /\ [S!Next]_(S!vars) => ScopesInv'
<1> SUFFICES ASSUME ScopesInv, [S!Next]_(S!vars) PROVE ScopesInv'
  OBVIOUS
<1>1. CASE UNCHANGED S!vars
  BY <1>1 DEF S!vars, ScopesInv, S!TypeOK, Building, Finished, Replied, NoText, ListOf
<1>2. CASE S!Next
  BY <1>2, AddScopeKeeps, BuiltKeeps, ExtractKeeps, ScopesDisposeKeeps DEF S!Next
<1> QED
  BY <1>1, <1>2


(* The invariant says what the run checks of the scopes. *)
LEMMA ScopesSafe ==
    ASSUME ScopesInv
    PROVE  S!AnswersWhole /\ S!SameAnswers
<1>1. /\ S!TypeOK /\ scopes \in Seq(S!Item) /\ Building /\ Finished /\ Replied
  BY DEF ScopesInv
<1>2. /\ reply \in ScopeReplies
      /\ asked # <<>> => asked[1] \in Keys
      /\ \A n \in DOMAIN scopes : scopes[n] \in S!Item
  BY <1>1 DEF S!TypeOK
<1>3. /\ reply \in Seq(S!Item) /\ Len(reply) \in Nat /\ DOMAIN reply = 1..Len(reply)
      /\ ListOf(reply) \in Seq(S!Item)
  BY <1>2, ListFacts
<1>4. S!WholeOrFault
  BY <1>1 DEF S!WholeOrFault, Finished, ListOf, NoText
<1>5. S!DecodesEveryValue
  <2> SUFFICES ASSUME NEW n \in DOMAIN scopes
               PROVE  LET v == scopes[n].value
                      IN  S!urldecode(v) = S!Decoded(v) /\ Len(S!urldecode(v)) <= Len(v)
    BY DEF S!DecodesEveryValue
  <2>1. scopes[n].value \in S!Text
    BY <1>2 DEF S!Item
  <2> QED
    BY <2>1, DecodesRight
<1> DEFINE k == asked[1]
<1>6. S!JoinsEveryValue
  <2> SUFFICES ASSUME asked # <<>>
               PROVE  IF fault = "NONE" /\ \E n \in DOMAIN reply : S!Says(reply[n], k)
                      THEN device_answer =
                              <<S!FlattenSeq([n \in DOMAIN reply |-> S!Piece(reply, k, n)])>>
                      ELSE device_answer = <<>>
    BY DEF S!JoinsEveryValue
  <2>1. /\ device_answer = S!ExtractDevice(ListOf(reply), k)
        /\ fault = IF NoText(reply) THEN "UNEXPECTED" ELSE "NONE"
    BY <1>1 DEF Replied, Finished
  <2>2. CASE NoText(reply)
    <3>1. S!ExtractDevice(<<>>, k) = <<>>
      <4>1. ~SaidBy(<<>>, k, Len(<<>>)) /\ <<>> \in Seq(S!Item)
        BY DEF SaidBy
      <4> QED
        BY <4>1, DeviceAnswerJoined
    <3> QED
      BY <2>1, <2>2, <3>1 DEF ListOf
  <2>3. CASE ~NoText(reply)
    <3>1. device_answer = S!ExtractDevice(reply, k) /\ fault = "NONE"
      BY <2>1, <2>3 DEF ListOf
    <3>2. SaidBy(reply, k, Len(reply)) <=> \E n \in DOMAIN reply : S!Says(reply[n], k)
      BY <1>3 DEF SaidBy
    <3>3. S!ExtractDevice(reply, k) =
             IF SaidBy(reply, k, Len(reply))
             THEN <<S!FlattenSeq([n \in DOMAIN reply |-> S!Piece(reply, k, n)])>>
             ELSE <<>>
      BY <1>3, DeviceAnswerJoined
    <3> QED
      BY <3>1, <3>2, <3>3
  <2> QED
    BY <2>2, <2>3
<1>7. S!SameAnswers
  <2> SUFFICES ASSUME asked # <<>>, device_answer # <<>>
               PROVE  \E n \in 0..Len(reply) :
                         /\ device_answer[1] = Spaces(n) \o match_answer
                         /\ n > 0 => \E i \in DOMAIN reply :
                                /\ S!Says(reply[i], k) /\ S!Output(reply[i]) = <<>>
                                /\ \A j \in 1..(i - 1) : ~S!Says(reply[j], k)
    <3>1. asked # <<>> /\ device_answer = <<>> => match_answer = <<>>
      <4>1. asked # <<>> =>
               AnswersAgree(device_answer, match_answer, ListOf(reply), k,
                            Len(ListOf(reply)))
        BY <1>1, <1>3, AnswersMatch DEF Replied
      <4> QED
        BY <4>1 DEF AnswersAgree
    <3> QED
      BY <3>1 DEF S!SameAnswers, Spaces
  <2>1. AnswersAgree(device_answer, match_answer, ListOf(reply), k, Len(ListOf(reply)))
    BY <1>1, <1>3, AnswersMatch DEF Replied
  <2>2. PICK m \in 0..Len(ListOf(reply)) :
           /\ device_answer[1] = Spaces(m) \o match_answer
           /\ m > 0 => FirstIsEmpty(ListOf(reply), k, Len(ListOf(reply)))
    BY <2>1 DEF AnswersAgree
  <2>3. Len(ListOf(reply)) = 0 \/ ListOf(reply) = reply
    <3>1. Len(<<>>) = 0
      OBVIOUS
    <3> QED
      BY <3>1 DEF ListOf
  <2>4. m \in 0..Len(reply) /\ (m > 0 => FirstIsEmpty(reply, k, Len(reply)))
    <3>1. CASE Len(ListOf(reply)) = 0
      BY <1>3, <2>2, <3>1
    <3>2. CASE ListOf(reply) = reply
      BY <2>2, <3>2
    <3> QED
      BY <2>3, <3>1, <3>2
  <2> QED
    BY <1>3, <2>2, <2>4 DEF FirstIsEmpty
<1> QED
  BY <1>1, <1>4, <1>5, <1>6, <1>7 DEF S!AnswersWhole

--------------------------------------------------------------------------------
(* ProbeMatches. *)

(* The scopes of an entry: each scope of each of its lines, once.           *)
LEMMA ScopesWhole ==
    ASSUME NEW e \in P!AnEntry
    PROVE  /\ P!ScopesOf(e) \in Seq(Pairs)
           /\ {P!ScopesOf(e)[i] : i \in DOMAIN P!ScopesOf(e)}
                 = UNION {{n} \X (1..e.lines[n]) : n \in DOMAIN e.lines}
           /\ \A i, j \in DOMAIN P!ScopesOf(e) :
                 P!ScopesOf(e)[i] = P!ScopesOf(e)[j] => i = j
<1> DEFINE c == e.lines
           Size == Len(c)
           upto[n \in 0..Size] == IF n = 0 THEN <<>> ELSE upto[n - 1] \o P!Line(e, n)
           L == [n \in 1..Size |-> P!Line(e, n)]
           s == upto[Size]
<1>1. Size \in Nat /\ c \in [1..Size -> Nat] /\ DOMAIN c = 1..Size
  BY DEF P!AnEntry
<1>2. P!ScopesOf(e) = s
  BY DEF P!ScopesOf
<1>3. \A n \in 1..Size : L[n] = [i \in 1..c[n] |-> <<n, i>>]
  BY DEF P!Line
<1>4. \A n \in 1..Size : L[n] \in Seq(Pairs)
  <2> HIDE DEF L, Size, c
  <2> TAKE n \in 1..Size
  <2>1. n \in Nat /\ c[n] \in Nat
    BY <1>1
  <2> DEFINE k == c[n]
  <2>a. L[n] = [i \in 1..k |-> <<n, i>>]
    BY <1>3
  <2>b. \A i \in 1..k : <<n, i>> \in Pairs
    BY <2>1 DEF Pairs
  <2>2. L[n] \in [1..k -> Pairs]
    BY <2>a, <2>b
  <2> HIDE DEF k
  <2> QED
    BY <2>1, <2>2 DEF k
<1> HIDE DEF Size, c
<1>5. \E f : f = [n \in 0..Size |-> IF n = 0 THEN <<>> ELSE f[n - 1] \o P!Line(e, n)]
  <2>1. PICK f \in [0..Size -> Seq(Pairs)] : Joins(f, Size, L)
    <3> HIDE DEF L
    <3> QED
      BY <1>1, <1>4, Joined
  <2>2. \A n \in 0..Size : f[n] = IF n = 0 THEN <<>> ELSE f[n - 1] \o P!Line(e, n)
    <3> TAKE n \in 0..Size
    <3>1. \A m \in 1..Size : L[m] = P!Line(e, m)
      OBVIOUS
    <3> HIDE DEF L
    <3>2. n = 0 \/ n \in 1..Size
      BY <1>1
    <3> QED
      BY <2>1, <3>1, <3>2 DEF Joins
  <2>3. f = [n \in 0..Size |-> IF n = 0 THEN <<>> ELSE f[n - 1] \o P!Line(e, n)]
    BY <2>1, <2>2
  <2> QED
    BY <2>3
<1>6. upto = [n \in 0..Size |-> IF n = 0 THEN <<>> ELSE upto[n - 1] \o P!Line(e, n)]
  BY <1>5
<1> HIDE DEF upto
<1>7. upto[0] = <<>> /\ \A n \in 1..Size : upto[n] = upto[n - 1] \o L[n]
  <2>1. 0 \in 0..Size /\ \A n \in 1..Size : n \in 0..Size /\ n # 0 /\ L[n] = P!Line(e, n)
    BY <1>1
  <2> HIDE DEF L
  <2>2. \A n \in 0..Size : upto[n] = IF n = 0 THEN <<>> ELSE upto[n - 1] \o P!Line(e, n)
    BY <1>6, Zenon
  <2> QED
    BY <2>1, <2>2
<1> HIDE DEF L
<1>8. Size \in 0..Size
  BY <1>1
<1>9. /\ s \in Seq(Pairs)
      /\ \A i \in DOMAIN s : s[i][1] \in 1..Size /\ s[i][2] \in 1..c[s[i][1]]
      /\ \A m \in 1..Size : \A j \in 1..c[m] : \E i \in DOMAIN s : s[i] = <<m, j>>
      /\ \A i, j \in DOMAIN s : s[i] = s[j] => i = j
  <2>1. c \in [1..Size -> Nat]
    BY <1>1
  <2>2. Joins(upto, Size, L)
    BY <1>7 DEF Joins
  <2>3. Numbered(L, Size, c)
    BY <1>3 DEF Numbered
  <2> QED
    <3>1. AllPairs(upto[Size], Size, c)
      BY <1>1, <1>8, <2>1, <2>2, <2>3, PairsJoined
    <3> QED
      BY <3>1 DEF AllPairs
<1> HIDE DEF s
<1>10. {s[i] : i \in DOMAIN s} = UNION {{n} \X (1..c[n]) : n \in DOMAIN c}
  <2>1. ASSUME NEW i \in DOMAIN s
        PROVE  s[i] \in UNION {{n} \X (1..c[n]) : n \in DOMAIN c}
    <3>1. s[i] = <<s[i][1], s[i][2]>>
      BY <1>9 DEF Pairs
    <3>2. s[i][1] \in DOMAIN c /\ s[i] \in {s[i][1]} \X (1..c[s[i][1]])
      BY <1>1, <1>9, <3>1
    <3> QED
      BY <3>2
  <2>2. ASSUME NEW n \in DOMAIN c, NEW x \in {n} \X (1..c[n])
        PROVE  \E i \in DOMAIN s : s[i] = x
    <3>1. x = <<n, x[2]>> /\ x[2] \in 1..c[n] /\ n \in 1..Size
      BY <1>1
    <3>2. \E i \in DOMAIN s : s[i] = <<n, x[2]>>
      BY <1>9, <3>1
    <3> QED
      BY <3>1, <3>2
  <2> QED
    BY <2>1, <2>2
<1> QED
  BY <1>2, <1>9, <1>10 DEF c

(* The message whose loop runs, and how far it is with each. *)
Working(m) == m = count /\ next > 0
Upto(m) == IF Working(m) THEN next - 1 ELSE Len(message[m])

(* The devices among the first k entries, and the handlers that keep the    *)
(* object.                                                                  *)
Devices(m, k) == {i \in 1..k : P!Found(message[m][i])}
Keepers(m) == {h \in 1..Handlers : <<h, m>> \in kept}

(* Reading r of a message says all of the devices, in order. *)
Increasing(r) == \A i, j \in DOMAIN r : i < j => r[i] < r[j]
Reads(r, m, k) == {r[i] : i \in DOMAIN r} = Devices(m, k) /\ Increasing(r)

(* A match whose fields are all read. *)
AMatch == [entry: Nat, addrs: Nat \cup {-1}, scopes: Seq(Pairs)]

(* The matches of a message are whole, and are its devices so far.          *)
Whole(m, made) ==
    /\ made.addrs = message[m][made.entry].xaddrs
    /\ made.scopes = P!ScopesOf(message[m][made.entry])

(* What the match of m says, and each handler was given. *)
Listed(m) ==
    m \notin disposed =>
        /\ match[m] \in Seq(AMatch) /\ Len(match[m]) <= Upto(m)
        /\ Reads(P!Read(m), m, Upto(m))
        /\ \A i \in DOMAIN match[m] : Whole(m, match[m][i])

(* The references are those of the handlers that keep one, and that of the  *)
(* loop from the first device on.                                           *)
Counted(m) ==
    refs[m] = Cardinality(Keepers(m))
                 + IF Working(m) /\ Devices(m, Upto(m)) # {} THEN 1 ELSE 0

(* The object is gone once the loop is over and nobody keeps it. *)
Lives(m) ==
    /\ m \in disposed <=> /\ Devices(m, Len(message[m])) # {}
                          /\ ~Working(m) /\ Keepers(m) = {}
    /\ m \in disposed => match[m] = <<>>

(* The handlers that were called know the devices, and only they may keep   *)
(* the object.                                                              *)
Called(h, m) == Devices(m, Len(message[m])) # {} /\ (Working(m) => h <= turn)

(* Every handler was called for a message with devices, or is yet to be. *)
Told(m) ==
    \A h \in 1..Handlers :
        /\ given[m][h] # <<P!Null>> <=> Called(h, m)
        /\ given[m][h] # <<P!Null>> => Reads(given[m][h], m, Len(message[m]))
        /\ h \in Keepers(m) => Called(h, m)

(* A message that was received. *)
Handled(m) == Listed(m) /\ Counted(m) /\ Lives(m) /\ Told(m)

(* Nothing is known of a message that has not arrived. *)
Awaited(m) ==
    /\ match[m] = <<>> /\ refs[m] = 0 /\ m \notin disposed
    /\ given[m] = [h \in 1..Handlers |-> <<P!Null>>]
    /\ Keepers(m) = {}

(* The variables keep their types. *)
Typed ==
    /\ message \in [P!Messages -> Seq(MatchEntries)]
    /\ \A m \in P!Messages : Len(message[m]) <= MaxEntries
    /\ count \in 0..MaxMessages /\ next \in 0..(MaxEntries + 1)
    /\ DOMAIN match = P!Messages /\ refs \in [P!Messages -> Int]
    /\ disposed \subseteq P!Messages /\ turn \in 0..Handlers
    /\ given \in [P!Messages -> [1..Handlers -> Seq(Nat) \cup {<<P!Null>>}]]
    /\ kept \subseteq (1..Handlers) \X P!Messages
    /\ stale = FALSE

(* The loop is at an entry of the last message, or at none. *)
Running ==
    /\ next > 0 => count > 0 /\ next <= Len(message[count]) + 1
    /\ turn > 0 => next > 0 /\ next = Len(message[count]) + 1

(* Received messages are handled, and the others awaited. *)
MatchInv ==
    /\ Typed /\ Running
    /\ \A m \in 1..count : Handled(m)
    /\ \A m \in P!Messages : m > count => Awaited(m)

(* A handler that was not called has no reading. *)
LEMMA NullIsNoReading == <<P!Null>> \notin Seq(Nat)
<1> SUFFICES ASSUME <<P!Null>> \in Seq(Nat) PROVE FALSE
  OBVIOUS
<1>1. <<P!Null>>[1] \in Nat
  OBVIOUS
<1> QED
  BY <1>1 DEF P!Null

(* A handler more or less. *)
LEMMA KeepersFinite ==
    ASSUME NEW m
    PROVE  /\ IsFiniteSet(Keepers(m)) /\ Cardinality(Keepers(m)) \in 0..Handlers
           /\ Cardinality(Keepers(m)) = 0 <=> Keepers(m) = {}
<1>1. Keepers(m) \subseteq 1..Handlers
  BY DEF Keepers
<1>2. Handlers \in Nat
  BY RepliesAssumption
<1>3. IsFiniteSet(1..Handlers) /\ Cardinality(1..Handlers) = Handlers
  BY <1>2, FS_Interval
<1>4. IsFiniteSet(Keepers(m)) /\ Cardinality(Keepers(m)) <= Handlers
  BY <1>1, <1>3, FS_Subset
<1>5. Cardinality(Keepers(m)) \in Nat
  BY <1>4, FS_CardinalityType
<1> QED
  BY <1>2, <1>4, <1>5, FS_EmptySet

(* What is not changed of a message stays true of it. *)
LEMMA SameMessage ==
    ASSUME NEW m, Handled(m),
           message'[m] = message[m], match'[m] = match[m], refs'[m] = refs[m],
           given'[m] = given[m], Keepers(m)' = Keepers(m),
           m \in disposed' <=> m \in disposed,
           Working(m)' <=> Working(m), Working(m) => next' = next /\ turn' = turn
    PROVE  Handled(m)'
<1>1. Upto(m)' = Upto(m)
  BY DEF Upto
<1>2. \A k : Devices(m, k)' = Devices(m, k)
  BY DEF Devices
<1>3. P!Read(m)' = P!Read(m)
  BY DEF P!Read
<1>4. Listed(m)'
  BY <1>1, <1>2, <1>3 DEF Handled, Listed, Reads, Whole
<1>5. Counted(m)'
  BY <1>1, <1>2 DEF Handled, Counted
<1>6. Lives(m)'
  BY <1>2 DEF Handled, Lives
<1>7. Told(m)'
  BY <1>2 DEF Handled, Told, Called, Reads
<1> QED
  BY <1>4, <1>5, <1>6, <1>7 DEF Handled

(* A message that is awaited is not disturbed by another. *)
LEMMA SameAwaited ==
    ASSUME NEW m, Awaited(m),
           match'[m] = match[m], refs'[m] = refs[m], given'[m] = given[m],
           Keepers(m)' = Keepers(m), m \in disposed' <=> m \in disposed
    PROVE  Awaited(m)'
  BY DEF Awaited

(* No message has come. *)
LEMMA MatchInit == P!Init => MatchInv
<1> SUFFICES ASSUME P!Init PROVE MatchInv
  OBVIOUS
<1>1. Typed
  BY RepliesAssumption DEF P!Init, Typed, P!Messages
<1>2. \A m \in P!Messages : Awaited(m)
  BY DEF P!Init, Awaited, Keepers
<1> QED
  BY <1>1, <1>2 DEF P!Init, MatchInv, Running

(* Entries of a message, and what is typed of them. *)
LEMMA EntryFacts ==
    ASSUME Typed, NEW m \in P!Messages
    PROVE  /\ message[m] \in Seq(MatchEntries) /\ Len(message[m]) \in Nat
           /\ \A i \in 1..Len(message[m]) :
                 /\ message[m][i] \in P!AnEntry
                 /\ P!Found(message[m][i]) <=> P!Valid(message[m][i])
<1>1. message[m] \in Seq(MatchEntries)
  BY DEF Typed
<1>2. \A i \in 1..Len(message[m]) : message[m][i] \in P!AnEntry
  BY <1>1, RepliesAssumption
<1>3. \A e \in P!AnEntry : P!Found(e) <=> P!Valid(e)
  BY DEF P!AnEntry, P!Found, P!Valid, P!Null
<1> QED
  BY <1>1, <1>2, <1>3

(* A message comes. *)
LEMMA ReceiveKeeps ==
    ASSUME MatchInv, P!Receive
    PROVE  MatchInv'
<1>c. PICK c \in Nat : c = count + 1
  BY RepliesAssumption DEF MatchInv, Typed
<1>1. /\ next = 0 /\ count < MaxMessages /\ count' = c /\ next' = 1
      /\ UNCHANGED <<match, refs, disposed, turn, given, kept, stale>>
      /\ count \in Nat /\ c \in P!Messages /\ count \in 0..MaxMessages
      /\ MaxMessages \in Nat /\ MaxEntries \in Nat /\ Handlers \in Nat
  BY <1>c, RepliesAssumption DEF P!Receive, MatchInv, Typed, P!Messages
<1>2. PICK n \in 0..MaxEntries : \E es \in [1..n -> MatchEntries] :
         message' = [message EXCEPT ![c] = es]
  BY <1>c DEF P!Receive
<1>3. PICK es \in [1..n -> MatchEntries] : message' = [message EXCEPT ![c] = es]
  BY <1>2
<1>4. es \in Seq(MatchEntries) /\ Len(es) = n
  BY <1>2, <1>3
<1>5. /\ message \in [P!Messages -> Seq(MatchEntries)]
      /\ message'[c] = es /\ \A m \in P!Messages : m # c => message'[m] = message[m]
  BY <1>1, <1>3 DEF MatchInv, Typed
<1>6. Typed'
  <2>1. message' \in [P!Messages -> Seq(MatchEntries)]
    BY <1>3, <1>4, <1>5
  <2>2. \A m \in P!Messages : Len(message'[m]) <= MaxEntries
    BY <1>2, <1>4, <1>5 DEF MatchInv, Typed
  <2>3. count' \in 0..MaxMessages /\ next' \in 0..(MaxEntries + 1)
    BY <1>1, <1>c
  <2> QED
    BY <1>1, <2>1, <2>2, <2>3 DEF MatchInv, Typed, P!Messages
<1>7. turn = 0
  BY <1>1 DEF MatchInv, Running, Typed
<1>8. Running'
  BY <1>1, <1>2, <1>4, <1>5, <1>7 DEF Running
<1>9. \A m : Keepers(m)' = Keepers(m)
  BY <1>1 DEF Keepers
<1>10. ASSUME NEW m \in 1..count
       PROVE  Handled(m)'
  <2>1. m \in P!Messages /\ m # c /\ Handled(m)
    BY <1>1, <1>c DEF MatchInv, P!Messages
  <2>2. ~Working(m) /\ ~Working(m)'
    BY <1>1, <2>1 DEF Working
  <2> QED
    BY <1>1, <1>5, <1>9, <2>1, <2>2, SameMessage
<1>11. Handled(c)'
  <2>1. Awaited(c) /\ Working(c)' /\ Upto(c)' = 0
    BY <1>1, <1>c DEF MatchInv, Working, Upto
  <2>2. Devices(c, 0)' = {}
    BY DEF Devices
  <2>3. match'[c] = <<>> /\ refs'[c] = 0 /\ c \notin disposed' /\ Keepers(c)' = {}
        /\ \A h \in 1..Handlers : given'[c][h] = <<P!Null>>
    BY <1>1, <1>9, <2>1 DEF Awaited
  <2>4. Listed(c)'
    <3>1. P!Read(c)' = <<>>
      BY <2>3 DEF P!Read
    <3>2. Reads(P!Read(c), c, Upto(c))'
      BY <2>1, <2>2, <3>1 DEF Reads, Increasing
    <3>3. match'[c] \in Seq(AMatch) /\ Len(match'[c]) = 0 /\ DOMAIN match'[c] = {}
      BY <2>3
    <3> QED
      BY <2>1, <3>2, <3>3 DEF Listed
  <2>5. Counted(c)'
    BY <2>1, <2>2, <2>3, FS_EmptySet DEF Counted
  <2>6. Lives(c)'
    BY <2>1, <2>3 DEF Lives
  <2>7. Told(c)'
    <3>1. \A h \in 1..Handlers : ~Called(h, c)'
      BY <1>1, <1>7, <2>1 DEF Called
    <3> QED
      BY <2>3, <3>1 DEF Told
  <2> QED
    BY <2>4, <2>5, <2>6, <2>7 DEF Handled
<1>12. \A m \in 1..count' : Handled(m)'
  BY <1>1, <1>10, <1>11, <1>c
<1>13. ASSUME NEW m \in P!Messages, m > count'
       PROVE  Awaited(m)'
  <2>1. Awaited(m)
    <3>1. m \in Nat /\ m > count
      BY <1>1, <1>c, <1>13 DEF P!Messages
    <3> QED
      BY <3>1 DEF MatchInv
  <2> QED
    BY <1>1, <1>9, <2>1, SameAwaited
<1>14. P!Messages' = P!Messages
  BY DEF P!Messages
<1> QED
  BY <1>6, <1>8, <1>12, <1>13, <1>14 DEF MatchInv

(* A device is added at the end of what is read. *)
LEMMA AddedLast ==
    ASSUME NEW r \in Seq(Nat), Increasing(r), NEW k \in Nat,
           \A i \in DOMAIN r : r[i] < k
    PROVE  LET a == Append(r, k)
           IN  Increasing(a) /\ {a[i] : i \in DOMAIN a} = {r[i] : i \in DOMAIN r} \cup {k}
<1> DEFINE a == Append(r, k)
           n == Len(r)
<1>1. /\ n \in Nat /\ DOMAIN r = 1..n /\ a \in Seq(Nat) /\ DOMAIN a = 1..(n + 1)
      /\ a[n + 1] = k /\ \A i \in 1..n : a[i] = r[i]
  OBVIOUS
<1> HIDE DEF a, n
<1>2. DOMAIN a = DOMAIN r \cup {n + 1}
  BY <1>1
<1>3. \A i \in DOMAIN a :
         \/ i \in DOMAIN r /\ i <= n /\ a[i] = r[i]
         \/ i = n + 1 /\ a[i] = k
  <2> TAKE i \in DOMAIN a
  <2>1. i \in 1..n \/ i = n + 1
    BY <1>1
  <2> QED
    BY <1>1, <2>1
<1>4. Increasing(a)
  BY <1>1, <1>3 DEF Increasing
<1>5. {a[i] : i \in DOMAIN a} = {r[i] : i \in DOMAIN r} \cup {k}
  BY <1>1, <1>2, <1>3
<1> QED
  BY <1>4, <1>5 DEF a

(* The number of matches of the rest is what it was. *)
LEMMA OthersKeep ==
    ASSUME MatchInv, NEW c \in 1..count, Typed', Running',
           count' = count, message' = message,
           \A m \in P!Messages : m # c =>
              /\ match'[m] = match[m] /\ refs'[m] = refs[m] /\ given'[m] = given[m]
              /\ Keepers(m)' = Keepers(m) /\ (m \in disposed' <=> m \in disposed)
              /\ Working(m)' <=> Working(m)
              /\ Working(m) => next' = next /\ turn' = turn,
           Handled(c)'
    PROVE  MatchInv'
<1>1. count \in Nat /\ count <= MaxMessages /\ MaxMessages \in Nat
      /\ 1..count \subseteq P!Messages
  BY RepliesAssumption DEF MatchInv, Typed, P!Messages
<1>2. ASSUME NEW m \in 1..count'
      PROVE  Handled(m)'
  <2>1. CASE m = c
    BY <2>1
  <2>2. CASE m # c
    <3>1. m \in P!Messages /\ Handled(m) /\ message'[m] = message[m]
      BY <1>1 DEF MatchInv
    <3> QED
      BY <2>2, <3>1, SameMessage
  <2> QED
    BY <2>1, <2>2
<1>3. ASSUME NEW m \in P!Messages', m > count'
      PROVE  Awaited(m)'
  <2>1. m \in P!Messages /\ m # c /\ Awaited(m)
    BY <1>1, <1>3 DEF MatchInv, P!Messages
  <2> QED
    BY <2>1, SameAwaited
<1> QED
  BY <1>2, <1>3 DEF MatchInv

(* An entry of the message is read. *)
LEMMA EntryKeeps ==
    ASSUME MatchInv, P!Entry
    PROVE  MatchInv'
<1>c. PICK c \in Nat : c = count
  BY DEF MatchInv, Typed
<1>n. PICK n \in Nat : n = next
  BY DEF MatchInv, Typed
<1> DEFINE e == message[c][n]
<1>1. /\ n > 0 /\ n <= Len(message[c]) /\ next' = n + 1 /\ next' = next + 1
      /\ UNCHANGED <<message, count, disposed, turn, given, kept, stale>>
      /\ c \in P!Messages /\ c \in 1..count /\ c <= MaxMessages
      /\ MaxMessages \in Nat /\ MaxEntries \in Nat /\ Handlers \in Nat
      /\ IF P!Valid(e) THEN /\ match' = [match EXCEPT ![c] = Append(@, P!Created(n))]
                            /\ refs' = [refs EXCEPT ![c] = 1]
         ELSE UNCHANGED <<match, refs>>
  <2>1. c > 0
    BY <1>c, <1>n DEF P!Entry, MatchInv, Running
  <2> QED
    BY <1>c, <1>n, <2>1, RepliesAssumption DEF P!Entry, MatchInv, Typed, P!Messages
<1>2. /\ Handled(c) /\ message[c] \in Seq(MatchEntries) /\ Len(message[c]) \in Nat
      /\ Len(message[c]) <= MaxEntries /\ e \in P!AnEntry
      /\ P!Found(e) <=> P!Valid(e)
      /\ Working(c) /\ Working(c)' /\ Upto(c) = n - 1 /\ Upto(c)' = n
  <2>1. Handled(c) /\ Typed
    BY <1>1 DEF MatchInv
  <2>2. /\ message[c] \in Seq(MatchEntries) /\ Len(message[c]) \in Nat
        /\ Len(message[c]) <= MaxEntries /\ e \in P!AnEntry
        /\ P!Found(e) <=> P!Valid(e)
    <3>1. Len(message[c]) <= MaxEntries
      BY <1>1, <2>1 DEF Typed
    <3>2. n \in 1..Len(message[c])
      BY <1>1, <1>n, <1>c, <2>1, EntryFacts
    <3> QED
      BY <1>1, <2>1, <3>1, <3>2, EntryFacts
  <2>3. Working(c) /\ Working(c)'
    BY <1>1, <1>c, <1>n DEF Working
  <2>4. Upto(c) = n - 1 /\ Upto(c)' = n
    BY <1>1, <1>n, <2>3 DEF Upto
  <2> QED
    BY <2>1, <2>2, <2>3, <2>4
<1>3. turn = 0 /\ Keepers(c)' = Keepers(c) /\ Keepers(c) = {} /\ c \notin disposed
      /\ \A h \in 1..Handlers : ~Called(h, c) /\ ~Called(h, c)'
  <2>1. turn = 0
    BY <1>1, <1>2, <1>c, <1>n DEF MatchInv, Running, Typed
  <2>2. \A h \in 1..Handlers : ~Called(h, c) /\ ~Called(h, c)'
    BY <1>1, <1>2, <2>1 DEF Called
  <2>3. Keepers(c) \subseteq 1..Handlers /\ Keepers(c)' = Keepers(c)
    BY <1>1 DEF Keepers
  <2>4. Keepers(c) = {}
    BY <1>2, <2>2, <2>3 DEF Handled, Told
  <2> QED
    BY <1>2, <2>1, <2>2, <2>3, <2>4 DEF Handled, Lives
<1>4. /\ match[c] \in Seq(AMatch) /\ Len(match[c]) <= n - 1 /\ Len(match[c]) \in Nat
      /\ Reads(P!Read(c), c, n - 1)
      /\ \A i \in DOMAIN match[c] : Whole(c, match[c][i])
  BY <1>2, <1>3 DEF Handled, Listed
<1>5. \A k : Devices(c, k)' = Devices(c, k)
  BY <1>1 DEF Devices
<1>6. Devices(c, n) = Devices(c, n - 1) \cup (IF P!Valid(e) THEN {n} ELSE {})
  BY <1>1, <1>2 DEF Devices
<1>7. /\ DOMAIN match' = P!Messages /\ refs' \in [P!Messages -> Int]
      /\ \A m \in P!Messages : m # c => match'[m] = match[m] /\ refs'[m] = refs[m]
  BY <1>1 DEF MatchInv, Typed
<1>8. Typed'
  <2>1. next' \in 0..(MaxEntries + 1)
    BY <1>1, <1>2
  <2> QED
    BY <1>1, <1>7, <2>1 DEF MatchInv, Typed, P!Messages
<1>9. Running'
  BY <1>1, <1>2, <1>3, <1>c DEF Running
<1>10. Listed(c)'
  <2>1. CASE P!Valid(e)
    <3> DEFINE made == P!Created(n)
               r == P!Read(c)
    <3>1. made \in AMatch /\ made.entry = n /\ Whole(c, made)
      <4>1. P!ScopesOf(e) \in Seq(Pairs)
        BY <1>2, ScopesWhole
      <4>2. e.xaddrs \in Nat \cup {-1}
        BY <1>2 DEF P!AnEntry, P!Null
      <4> QED
        BY <1>c, <4>1, <4>2 DEF P!Created, AMatch, Whole
    <3>2. match'[c] = Append(match[c], made)
      BY <1>1, <2>1 DEF MatchInv, Typed
    <3> HIDE DEF made
    <3>3. /\ match'[c] \in Seq(AMatch) /\ Len(match'[c]) = Len(match[c]) + 1
          /\ match'[c][Len(match[c]) + 1] = made
          /\ \A i \in 1..Len(match[c]) : match'[c][i] = match[c][i]
      BY <1>4, <3>1, <3>2
    <3>4. \A i \in DOMAIN match'[c] : Whole(c, match'[c][i])
      <4>1. \A i \in DOMAIN match'[c] : i \in DOMAIN match[c] \/ i = Len(match[c]) + 1
        BY <1>4, <3>3
      <4>2. \A i \in DOMAIN match[c] : i \in 1..Len(match[c]) /\ Whole(c, match[c][i])
        BY <1>4
      <4> TAKE i \in DOMAIN match'[c]
      <4>3. CASE i \in DOMAIN match[c]
        <5>1. match'[c][i] = match[c][i]
          BY <3>3, <4>2, <4>3
        <5> QED
          BY <4>2, <4>3, <5>1
      <4>4. CASE i = Len(match[c]) + 1
        BY <3>1, <3>3, <4>4
      <4> QED
        BY <4>1, <4>3, <4>4
    <3>5. r \in Seq(Nat) /\ Len(r) = Len(match[c])
      <4>1. \A i \in 1..Len(match[c]) : match[c][i].entry \in Nat
        <5>1. \A i \in 1..Len(match[c]) : match[c][i] \in AMatch
          BY <1>4
        <5> QED
          BY <5>1 DEF AMatch
      <4>2. r \in [1..Len(match[c]) -> Nat]
        BY <1>4, <4>1 DEF P!Read
      <4> HIDE DEF r
      <4> QED
        BY <1>4, <4>2
    <3>6. P!Read(c)' = Append(r, n)
      <4>1. P!Read(c)' = [i \in DOMAIN match'[c] |-> match'[c][i].entry]
        BY DEF P!Read
      <4>2. DOMAIN match'[c] = 1..(Len(match[c]) + 1) /\ DOMAIN match[c] = 1..Len(match[c])
        BY <1>4, <3>3
      <4>3. P!Read(c)' \in Seq(Nat) /\ Len(P!Read(c)') = Len(match[c]) + 1
        <5>1. \A i \in 1..(Len(match[c]) + 1) : match'[c][i].entry \in Nat
          <6>1. \A i \in 1..(Len(match[c]) + 1) : match'[c][i] \in AMatch
            BY <3>3, <4>2
          <6> QED
            BY <6>1 DEF AMatch
        <5>2. P!Read(c)' \in [1..(Len(match[c]) + 1) -> Nat]
          BY <4>1, <4>2, <5>1
        <5>3. Len(match[c]) + 1 \in Nat
          BY <1>4
        <5> QED
          BY <5>2, <5>3
      <4>4. \A i \in 1..Len(match[c]) : P!Read(c)'[i] = r[i]
        <5>1. \A i \in 1..Len(match[c]) : P!Read(c)'[i] = match'[c][i].entry
          BY <1>4, <4>1, <4>2
        <5>2. \A i \in 1..Len(match[c]) : r[i] = match[c][i].entry
          BY <4>2 DEF P!Read
        <5> QED
          BY <3>3, <5>1, <5>2
      <4>5. P!Read(c)'[Len(match[c]) + 1] = n
        BY <1>4, <3>1, <3>3, <4>1, <4>2
      <4> HIDE DEF r
      <4>6. Append(r, n) \in Seq(Nat) /\ Len(Append(r, n)) = Len(match[c]) + 1
            /\ Append(r, n)[Len(match[c]) + 1] = n
            /\ \A i \in 1..Len(match[c]) : Append(r, n)[i] = r[i]
        BY <3>5
      <4>7. \A i \in 1..(Len(match[c]) + 1) : P!Read(c)'[i] = Append(r, n)[i]
        BY <1>4, <4>4, <4>5, <4>6
      <4> QED
        BY <4>3, <4>6, <4>7, SameSequence
    <3>7. Increasing(r) /\ {r[i] : i \in DOMAIN r} = Devices(c, n - 1)
      BY <1>4 DEF Reads
    <3> HIDE DEF r
    <3>8. \A i \in DOMAIN r : r[i] < n
      BY <3>7 DEF Devices
    <3>9. Reads(P!Read(c), c, Upto(c))'
      <4>1. /\ Increasing(Append(r, n))
            /\ {Append(r, n)[i] : i \in DOMAIN Append(r, n)} = {r[i] : i \in DOMAIN r} \cup {n}
        BY <3>5, <3>7, <3>8, AddedLast
      <4>2. {Append(r, n)[i] : i \in DOMAIN Append(r, n)} = Devices(c, n)
        BY <1>6, <2>1, <3>7, <4>1
      <4> QED
        BY <1>2, <1>5, <3>6, <4>1, <4>2 DEF Reads, Increasing
    <3>10. Len(match'[c]) <= Upto(c)'
      BY <1>2, <1>4, <3>3
    <3>11. \A i \in DOMAIN match'[c] : Whole(c, match[c][i])'
      BY <1>1, <3>4 DEF Whole
    <3> QED
      BY <3>3, <3>9, <3>10, <3>11 DEF Listed
  <2>2. CASE ~P!Valid(e)
    <3>1. match' = match /\ Devices(c, n) = Devices(c, n - 1)
      BY <1>1, <1>6, <2>2
    <3>2. P!Read(c)' = P!Read(c)
      BY <3>1 DEF P!Read
    <3>3. Reads(P!Read(c), c, Upto(c))'
      BY <1>2, <1>4, <1>5, <3>1, <3>2 DEF Reads
    <3>4. \A i \in DOMAIN match'[c] : Whole(c, match[c][i])'
      BY <1>1, <1>4, <3>1 DEF Whole
    <3>5. Len(match'[c]) <= Upto(c)'
      BY <1>2, <1>4, <3>1
    <3> QED
      BY <1>4, <3>1, <3>3, <3>4, <3>5 DEF Listed
  <2> QED
    BY <2>1, <2>2
<1>11. Counted(c)'
  <2>1. Cardinality(Keepers(c)') = 0
    BY <1>3, FS_EmptySet
  <2>2. CASE P!Valid(e)
    <3>1. refs'[c] = 1
      BY <1>1, <2>2 DEF MatchInv, Typed
    <3>2. Devices(c, n) # {}
      BY <1>6, <2>2
    <3> QED
      BY <1>2, <1>5, <2>1, <3>1, <3>2 DEF Counted
  <2>3. CASE ~P!Valid(e)
    <3>1. refs'[c] = refs[c] /\ Devices(c, n) = Devices(c, n - 1)
      BY <1>1, <1>6, <2>3
    <3>2. refs[c] = Cardinality(Keepers(c)) + IF Devices(c, n - 1) # {} THEN 1 ELSE 0
      BY <1>2 DEF Handled, Counted
    <3> QED
      <4>1. Cardinality(Keepers(c)) = 0
        BY <1>3, FS_EmptySet
      <4>2. refs'[c] = IF Devices(c, n) # {} THEN 1 ELSE 0
        BY <3>1, <3>2, <4>1
      <4> QED
        BY <1>2, <1>5, <2>1, <4>2 DEF Counted
  <2> QED
    BY <2>2, <2>3
<1>12. Lives(c)'
  BY <1>1, <1>2, <1>3 DEF Lives
<1>13. Told(c)'
  BY <1>1, <1>2, <1>3 DEF Handled, Told
<1>14. Handled(c)'
  BY <1>10, <1>11, <1>12, <1>13 DEF Handled
<1>15. \A m \in P!Messages : m # c =>
          /\ match'[m] = match[m] /\ refs'[m] = refs[m] /\ given'[m] = given[m]
          /\ Keepers(m)' = Keepers(m) /\ (m \in disposed' <=> m \in disposed)
          /\ Working(m)' <=> Working(m)
          /\ Working(m) => next' = next /\ turn' = turn
  BY <1>1, <1>7, <1>c DEF Keepers, Working
<1> QED
  BY <1>1, <1>8, <1>9, <1>14, <1>15, OthersKeep

(* Once the loop is over, the object of message c exists iff it has         *)
(* devices, and the loop's reference is one of those that are counted.      *)
LEMMA LoopedFacts ==
    ASSUME MatchInv, NEW c \in Nat, c = count, P!Looped
    PROVE  /\ c \in P!Messages /\ c \in 1..count /\ c <= MaxMessages /\ Handled(c)
           /\ Working(c) /\ Upto(c) = Len(message[c]) /\ c \notin disposed
           /\ refs[c] = Cardinality(Keepers(c))
                          + IF Devices(c, Len(message[c])) # {} THEN 1 ELSE 0
           /\ refs[c] > 0 <=> Devices(c, Len(message[c])) # {}
<1>1. c > 0 /\ next = Len(message[c]) + 1 /\ next > 0 /\ count \in 0..MaxMessages
      /\ MaxMessages \in Nat
  BY RepliesAssumption DEF P!Looped, MatchInv, Running, Typed
<1>2. c \in P!Messages /\ c \in 1..count /\ c <= MaxMessages /\ Handled(c) /\ Working(c)
  BY <1>1 DEF P!Messages, MatchInv, Working
<1>3. Len(message[c]) \in Nat
  BY <1>2, EntryFacts DEF MatchInv
<1>4. Upto(c) = Len(message[c])
  BY <1>1, <1>2, <1>3 DEF Upto
<1>5. refs[c] = Cardinality(Keepers(c))
                  + IF Devices(c, Len(message[c])) # {} THEN 1 ELSE 0
  BY <1>2, <1>4 DEF Handled, Counted
<1>6. Devices(c, Len(message[c])) = {} => Keepers(c) = {}
  <2>1. Keepers(c) \subseteq 1..Handlers
    BY DEF Keepers
  <2> QED
    BY <1>2, <2>1 DEF Handled, Told, Called
<1>7. Cardinality(Keepers(c)) \in Nat /\ (Cardinality(Keepers(c)) = 0 <=> Keepers(c) = {})
  BY KeepersFinite, RepliesAssumption
<1> QED
  BY <1>2, <1>4, <1>5, <1>6, <1>7 DEF Handled, Lives

(* A reading of an object that is listed is all of its devices. *)
LEMMA ReadingIsTyped ==
    ASSUME NEW m, match[m] \in Seq(AMatch)
    PROVE  P!Read(m) \in Seq(Nat)
<1>1. Len(match[m]) \in Nat /\ DOMAIN match[m] = 1..Len(match[m])
  OBVIOUS
<1>2. \A i \in 1..Len(match[m]) : match[m][i] \in AMatch
  BY <1>1
<1>3. \A i \in 1..Len(match[m]) : match[m][i].entry \in Nat
  BY <1>2 DEF AMatch
<1>4. P!Read(m) \in [1..Len(match[m]) -> Nat]
  BY <1>1, <1>3 DEF P!Read
<1> QED
  BY <1>1, <1>4

(* The handlers are called for the match, in turn. *)
LEMMA SignalKeeps ==
    ASSUME MatchInv, P!Signal
    PROVE  MatchInv'
<1>c. PICK c \in Nat : c = count
  BY DEF MatchInv, Typed
<1>t. PICK t \in Nat : t = turn + 1
  BY RepliesAssumption DEF MatchInv, Typed
<1>1. /\ P!Looped /\ refs[c] > 0 /\ turn < Handlers /\ turn' = t /\ turn' = turn + 1
      /\ given' = [given EXCEPT ![c][t] = P!Read(c)]
      /\ stale' = (stale \/ c \in disposed)
      /\ UNCHANGED <<message, count, next, match, disposed>>
      /\ t \in 1..Handlers /\ Handlers \in Nat /\ turn \in Nat
  BY <1>c, <1>t, RepliesAssumption DEF P!Signal, MatchInv, Typed
<1>2. /\ c \in P!Messages /\ c \in 1..count /\ c <= MaxMessages /\ Handled(c)
      /\ Working(c) /\ Upto(c) = Len(message[c]) /\ c \notin disposed
      /\ refs[c] = Cardinality(Keepers(c)) + 1
      /\ Devices(c, Len(message[c])) # {}
  BY <1>1, <1>c, LoopedFacts
<1>3. /\ Working(c)' /\ Upto(c)' = Len(message[c])
      /\ \A m, k : Devices(m, k)' = Devices(m, k)
      /\ \A m : P!Read(m)' = P!Read(m)
  <2>1. Working(c)'
    BY <1>1, <1>2 DEF Working
  <2> QED
    BY <1>1, <1>2, <2>1 DEF Upto, Devices, P!Read
<1>4. P!Read(c) \in Seq(Nat) /\ Reads(P!Read(c), c, Len(message[c]))
  BY <1>2, ReadingIsTyped DEF Handled, Listed
<1>5. t \notin Keepers(c)
  BY <1>1, <1>2, <1>t DEF Handled, Told, Called
<1>6. /\ \A m \in P!Messages : m # c => refs'[m] = refs[m] /\ Keepers(m)' = Keepers(m)
      /\ Keepers(c) \subseteq Keepers(c)' /\ Keepers(c)' \subseteq Keepers(c) \cup {t}
      /\ refs'[c] = Cardinality(Keepers(c)') + 1
      /\ refs' \in [P!Messages -> Int]
      /\ kept' \subseteq (1..Handlers) \X P!Messages
  <2>1. CASE UNCHANGED <<refs, kept>>
    <3>1. \A m : Keepers(m)' = Keepers(m)
      BY <2>1 DEF Keepers
    <3> QED
      BY <1>2, <2>1, <3>1 DEF MatchInv, Typed
  <2>2. CASE /\ refs' = [refs EXCEPT ![c] = @ + 1]
             /\ kept' = kept \cup {<<t, c>>}
    <3>1. Keepers(c)' = Keepers(c) \cup {t}
      BY <1>1, <2>2 DEF Keepers
    <3>2. \A m \in P!Messages : m # c => Keepers(m)' = Keepers(m)
      BY <2>2 DEF Keepers
    <3>3. Cardinality(Keepers(c) \cup {t}) = Cardinality(Keepers(c)) + 1
      BY <1>5, KeepersFinite, FS_AddElement
    <3>4. refs'[c] = refs[c] + 1
      BY <1>2, <2>2 DEF MatchInv, Typed
    <3>5. refs' \in [P!Messages -> Int]
      <4>1. refs \in [P!Messages -> Int] /\ c \in P!Messages
        BY <1>2 DEF MatchInv, Typed
      <4> QED
        BY <2>2, <4>1
    <3>6. kept' \subseteq (1..Handlers) \X P!Messages
      <4>1. /\ kept \subseteq (1..Handlers) \X P!Messages
            /\ <<t, c>> \in (1..Handlers) \X P!Messages
        BY <1>1, <1>2 DEF MatchInv, Typed
      <4> QED
        BY <2>2, <4>1
    <3> QED
      BY <1>2, <2>2, <3>1, <3>2, <3>3, <3>4, <3>5, <3>6 DEF MatchInv, Typed
  <2> QED
    BY <1>c, <1>t, <2>1, <2>2 DEF P!Signal
<1>7. /\ given'[c][t] = P!Read(c)
      /\ \A h \in 1..Handlers : h # t => given'[c][h] = given[c][h]
      /\ \A m \in P!Messages : m # c => given'[m] = given[m]
      /\ given' \in [P!Messages -> [1..Handlers -> Seq(Nat) \cup {<<P!Null>>}]]
  BY <1>1, <1>2, <1>4 DEF MatchInv, Typed
<1>8. Typed'
  <2>1. turn' \in 0..Handlers
    BY <1>1
  <2>3. stale' = FALSE
    BY <1>1, <1>2 DEF MatchInv, Typed
  <2>2. P!Messages' = P!Messages
    BY DEF P!Messages
  <2> QED
    BY <1>1, <1>6, <1>7, <2>1, <2>2, <2>3 DEF MatchInv, Typed
<1>9. Running'
  BY <1>1, <1>c DEF Running, P!Looped, MatchInv
<1>10. Listed(c)'
  BY <1>1, <1>2, <1>3 DEF Handled, Listed, Reads, Whole
<1>11. Counted(c)'
  BY <1>1, <1>2, <1>3, <1>6 DEF Counted
<1>12. Lives(c)'
  BY <1>1, <1>2, <1>3 DEF Handled, Lives
<1>13. Told(c)'
  <2> SUFFICES ASSUME NEW h \in 1..Handlers
               PROVE  /\ given'[c][h] # <<P!Null>> <=> Called(h, c)'
                      /\ given'[c][h] # <<P!Null>> => Reads(given[c][h], c, Len(message[c]))'
                      /\ h \in Keepers(c)' => Called(h, c)'
    BY DEF Told
  <2>1. Called(h, c)' <=> h <= t
    BY <1>1, <1>2, <1>3 DEF Called
  <2>2. CASE h = t
    <3>1. given'[c][h] # <<P!Null>>
      BY <1>4, <1>7, <2>2, NullIsNoReading
    <3>2. Reads(given[c][h], c, Len(message[c]))'
      BY <1>1, <1>3, <1>4, <1>7, <2>2 DEF Reads, Increasing
    <3>3. Called(h, c)'
      BY <1>t, <2>1, <2>2
    <3> QED
      BY <3>1, <3>2, <3>3
  <2>3. CASE h # t
    <3>1. given'[c][h] = given[c][h] /\ (h \in Keepers(c)' <=> h \in Keepers(c))
      BY <1>6, <1>7, <2>3
    <3>2. Called(h, c) <=> h <= t
      BY <1>1, <1>2, <1>t, <2>3 DEF Called
    <3>3. /\ given[c][h] # <<P!Null>> <=> Called(h, c)
          /\ given[c][h] # <<P!Null>> => Reads(given[c][h], c, Len(message[c]))
          /\ h \in Keepers(c) => Called(h, c)
      BY <1>2 DEF Handled, Told
    <3>4. Reads(given[c][h], c, Len(message[c])) => Reads(given[c][h], c, Len(message[c]))'
      BY <1>1, <1>3, <3>1 DEF Reads, Increasing
    <3> QED
      BY <2>1, <3>1, <3>2, <3>3, <3>4
  <2> QED
    BY <2>2, <2>3
<1>14. Handled(c)'
  BY <1>10, <1>11, <1>12, <1>13 DEF Handled
<1>15. \A m \in P!Messages : m # c =>
          /\ match'[m] = match[m] /\ refs'[m] = refs[m] /\ given'[m] = given[m]
          /\ Keepers(m)' = Keepers(m) /\ (m \in disposed' <=> m \in disposed)
          /\ Working(m)' <=> Working(m)
          /\ Working(m) => next' = next /\ turn' = turn
  BY <1>1, <1>6, <1>7, <1>c DEF Working
<1> QED
  BY <1>1, <1>2, <1>8, <1>9, <1>14, <1>15, OthersKeep

(* A reference less is a keeper less, or the loop's. *)
LEMMA UnrefFacts ==
    ASSUME Typed, NEW c \in P!Messages, P!Unref(c)
    PROVE  /\ refs' \in [P!Messages -> Int] /\ refs'[c] = refs[c] - 1
           /\ DOMAIN match' = P!Messages
           /\ disposed' = IF refs[c] = 1 THEN disposed \cup {c} ELSE disposed
           /\ match'[c] = IF refs[c] = 1 THEN <<>> ELSE match[c]
           /\ \A m \in P!Messages : m # c =>
                 /\ refs'[m] = refs[m] /\ match'[m] = match[m]
                 /\ m \in disposed' <=> m \in disposed
<1>1. /\ refs' = [refs EXCEPT ![c] = @ - 1] /\ refs \in [P!Messages -> Int]
      /\ DOMAIN match = P!Messages
  BY DEF P!Unref, Typed
<1>2. CASE refs[c] = 1
  BY <1>1, <1>2 DEF P!Unref, P!IsLast
<1>3. CASE refs[c] # 1
  <2>1. UNCHANGED <<disposed, match>>
    BY <1>3 DEF P!Unref, P!IsLast
  <2>2. \A m \in P!Messages : m # c => refs'[m] = refs[m]
    BY <1>1
  <2>3. refs' \in [P!Messages -> Int] /\ refs'[c] = refs[c] - 1
    BY <1>1
  <2> QED
    BY <1>1, <1>3, <2>1, <2>2, <2>3
<1> QED
  BY <1>2, <1>3

(* The loop drops its own reference. *)
LEMMA ReturnKeeps ==
    ASSUME MatchInv, P!Return
    PROVE  MatchInv'
<1>c. PICK c \in Nat : c = count
  BY DEF MatchInv, Typed
<1>1. /\ P!Looped /\ next' = 0 /\ turn' = 0
      /\ UNCHANGED <<message, count, given, kept, stale>>
      /\ MaxEntries \in Nat /\ Handlers \in Nat
  BY RepliesAssumption DEF P!Return
<1>2. /\ c \in P!Messages /\ c \in 1..count /\ c <= MaxMessages /\ Handled(c)
      /\ Working(c) /\ Upto(c) = Len(message[c]) /\ c \notin disposed
      /\ refs[c] = Cardinality(Keepers(c))
                     + IF Devices(c, Len(message[c])) # {} THEN 1 ELSE 0
      /\ refs[c] > 0 <=> Devices(c, Len(message[c])) # {}
  BY <1>1, <1>c, LoopedFacts
<1> DEFINE Found == Devices(c, Len(message[c])) # {}
           Kept == Cardinality(Keepers(c))
<1>3. Kept \in Nat /\ (Kept = 0 <=> Keepers(c) = {})
  BY <1>1, KeepersFinite
<1>4. /\ \A m : ~Working(m)'
      /\ \A m : Keepers(m)' = Keepers(m)
      /\ \A m, k : Devices(m, k)' = Devices(m, k)
      /\ Upto(c)' = Len(message[c])
  BY <1>1 DEF Working, Keepers, Devices, Upto
<1>5. /\ refs' \in [P!Messages -> Int] /\ DOMAIN match' = P!Messages
      /\ refs'[c] = Kept
      /\ c \in disposed' <=> Found /\ Keepers(c) = {}
      /\ match'[c] = IF Found /\ Keepers(c) = {} THEN <<>> ELSE match[c]
      /\ disposed' \subseteq P!Messages
      /\ \A m \in P!Messages : m # c =>
            /\ refs'[m] = refs[m] /\ match'[m] = match[m]
            /\ m \in disposed' <=> m \in disposed
      /\ Found => turn = Handlers
  <2>1. CASE refs[c] > 0
    <3>1. P!Unref(c) /\ turn = Handlers
      BY <1>c, <2>1 DEF P!Return
    <3>2. Found /\ refs[c] = Kept + 1
      BY <1>2, <2>1
    <3>3. refs[c] = 1 <=> Keepers(c) = {}
      BY <1>3, <3>2
    <3> HIDE DEF Kept, Found
    <3>4. /\ refs' \in [P!Messages -> Int] /\ refs'[c] = refs[c] - 1
          /\ DOMAIN match' = P!Messages
          /\ disposed' = IF refs[c] = 1 THEN disposed \cup {c} ELSE disposed
          /\ match'[c] = IF refs[c] = 1 THEN <<>> ELSE match[c]
          /\ \A m \in P!Messages : m # c =>
                /\ refs'[m] = refs[m] /\ match'[m] = match[m]
                /\ m \in disposed' <=> m \in disposed
      BY <1>2, <3>1, UnrefFacts DEF MatchInv
    <3>5. disposed' \subseteq P!Messages
      BY <1>2, <3>4 DEF MatchInv, Typed
    <3>6. refs'[c] = Kept
      BY <1>3, <3>2, <3>4
    <3> QED
      BY <1>2, <3>1, <3>2, <3>3, <3>4, <3>5, <3>6
  <2>2. CASE ~(refs[c] > 0)
    <3>1. UNCHANGED <<match, refs, disposed>>
      BY <1>c, <2>2 DEF P!Return
    <3>2. ~Found /\ refs[c] = Kept
      BY <1>2, <1>3, <2>2
    <3>3. refs \in [P!Messages -> Int] /\ DOMAIN match = P!Messages
          /\ disposed \subseteq P!Messages
      BY DEF MatchInv, Typed
    <3> HIDE DEF Found, Kept
    <3> QED
      BY <1>2, <3>1, <3>2, <3>3
  <2> QED
    BY <2>1, <2>2
<1> HIDE DEF Kept
<1>6. Typed'
  <2>1. P!Messages' = P!Messages
    BY DEF P!Messages
  <2> QED
    BY <1>1, <1>5, <2>1 DEF MatchInv, Typed
<1>7. Running'
  BY <1>1 DEF Running
<1>8. Listed(c)'
  <2> SUFFICES ASSUME c \notin disposed'
               PROVE  /\ match'[c] \in Seq(AMatch) /\ Len(match'[c]) <= Upto(c)'
                      /\ Reads(P!Read(c), c, Upto(c))'
                      /\ \A i \in DOMAIN match'[c] : Whole(c, match[c][i])'
    BY DEF Listed
  <2>1. match'[c] = match[c]
    BY <1>5
  <2>2. P!Read(c)' = P!Read(c)
    BY <2>1 DEF P!Read
  <2>3. /\ match[c] \in Seq(AMatch) /\ Len(match[c]) <= Upto(c)
        /\ Reads(P!Read(c), c, Upto(c))
        /\ \A i \in DOMAIN match[c] : Whole(c, match[c][i])
    BY <1>2 DEF Handled, Listed
  <2> QED
    BY <1>1, <1>2, <1>4, <2>1, <2>2, <2>3 DEF Reads, Whole, Increasing
<1>9. Counted(c)'
  BY <1>3, <1>4, <1>5 DEF Counted, Kept
<1>10. Lives(c)'
  BY <1>1, <1>4, <1>5 DEF Lives
<1>11. Told(c)'
  <2>1. \A h \in 1..Handlers : Called(h, c)' <=> Called(h, c)
    <3>1. \A h \in 1..Handlers : Called(h, c)' <=> Found
      BY <1>1, <1>4 DEF Called
    <3>2. \A h \in 1..Handlers : Called(h, c) <=> Found
      BY <1>5, <1>1 DEF Called
    <3> QED
      BY <3>1, <3>2
  <2> HIDE DEF Found
  <2>2. \A h \in 1..Handlers : Reads(given[c][h], c, Len(message[c]))
                               => Reads(given[c][h], c, Len(message[c]))'
    BY <1>1, <1>4 DEF Reads, Increasing
  <2> QED
    BY <1>1, <1>2, <1>4, <2>1, <2>2 DEF Handled, Told
<1>12. Handled(c)'
  BY <1>8, <1>9, <1>10, <1>11 DEF Handled
<1>13. \A m \in P!Messages : m # c =>
          /\ match'[m] = match[m] /\ refs'[m] = refs[m] /\ given'[m] = given[m]
          /\ Keepers(m)' = Keepers(m) /\ (m \in disposed' <=> m \in disposed)
          /\ Working(m)' <=> Working(m)
          /\ Working(m) => next' = next /\ turn' = turn
  <2>1. \A m : m # c => ~Working(m)
    BY <1>c DEF Working
  <2> QED
    BY <1>1, <1>4, <1>5, <2>1
<1> QED
  BY <1>1, <1>2, <1>6, <1>7, <1>12, <1>13, OthersKeep

(* Who keeps an object has it whole: all of its loop is behind it. *)
LEMMA KeeperFacts ==
    ASSUME MatchInv, NEW h \in 1..Handlers, NEW m \in P!Messages, <<h, m>> \in kept
    PROVE  /\ m \in 1..count /\ Handled(m) /\ h \in Keepers(m) /\ Called(h, m)
           /\ m \notin disposed /\ Upto(m) = Len(message[m])
           /\ Devices(m, Len(message[m])) # {}
           /\ Working(m) => turn > 0
<1>1. h \in Keepers(m)
  BY DEF Keepers
<1>2. m \in 1..count
  BY <1>1 DEF MatchInv, Awaited, P!Messages, Typed
<1>3. Handled(m) /\ Called(h, m) /\ m \notin disposed
  BY <1>1, <1>2 DEF MatchInv, Handled, Told, Lives
<1>4. Devices(m, Len(message[m])) # {} /\ (Working(m) => turn > 0)
  BY <1>3 DEF Called, MatchInv, Typed
<1>5. Len(message[m]) \in Nat
  BY EntryFacts DEF MatchInv
<1>6. Upto(m) = Len(message[m])
  BY <1>4, <1>5 DEF Upto, Working, MatchInv, Running
<1> QED
  BY <1>1, <1>2, <1>3, <1>4, <1>6

(* A handler reads a match that it kept. *)
LEMMA ReadKeptKeeps ==
    ASSUME MatchInv, NEW h \in 1..Handlers, NEW m \in P!Messages, P!ReadKept(h, m)
    PROVE  MatchInv'
<1>1. /\ <<h, m>> \in kept /\ stale' = (stale \/ m \in disposed)
      /\ given' = [given EXCEPT ![m][h] = P!Read(m)]
      /\ UNCHANGED <<message, count, next, match, refs, disposed, turn, kept>>
  BY DEF P!ReadKept
<1>2. /\ m \in 1..count /\ Handled(m) /\ h \in Keepers(m) /\ Called(h, m)
      /\ m \notin disposed /\ Upto(m) = Len(message[m])
  BY <1>1, KeeperFacts
<1>3. /\ \A n : Keepers(n)' = Keepers(n) /\ (Working(n)' <=> Working(n))
      /\ \A n, k : Devices(n, k)' = Devices(n, k)
      /\ Upto(m)' = Upto(m) /\ P!Read(m)' = P!Read(m)
      /\ \A g : Called(g, m)' <=> Called(g, m)
  <2>1. \A n, k : Devices(n, k)' = Devices(n, k)
    BY <1>1 DEF Devices
  <2>2. \A n : Keepers(n)' = Keepers(n) /\ (Working(n)' <=> Working(n))
    BY <1>1 DEF Keepers, Working
  <2>3. Upto(m)' = Upto(m) /\ P!Read(m)' = P!Read(m)
    BY <1>1, <2>2 DEF Upto, P!Read
  <2>4. \A g : Called(g, m)' <=> Called(g, m)
    BY <1>1, <2>1, <2>2 DEF Called
  <2> QED
    BY <2>1, <2>2, <2>3, <2>4
<1>4. P!Read(m) \in Seq(Nat) /\ Reads(P!Read(m), m, Len(message[m]))
  BY <1>2, ReadingIsTyped DEF Handled, Listed
<1>5. /\ given'[m][h] = P!Read(m)
      /\ \A g \in 1..Handlers : g # h => given'[m][g] = given[m][g]
      /\ \A n \in P!Messages : n # m => given'[n] = given[n]
      /\ given' \in [P!Messages -> [1..Handlers -> Seq(Nat) \cup {<<P!Null>>}]]
  BY <1>1, <1>4 DEF MatchInv, Typed
<1>6. Typed'
  <2>1. P!Messages' = P!Messages
    BY DEF P!Messages
  <2>2. stale' = FALSE
    BY <1>1, <1>2 DEF MatchInv, Typed
  <2> QED
    BY <1>1, <1>5, <2>1, <2>2 DEF MatchInv, Typed
<1>7. Running'
  BY <1>1 DEF MatchInv, Running
<1>8. Listed(m)' /\ Counted(m)' /\ Lives(m)'
  <2>1. Listed(m)'
    BY <1>1, <1>2, <1>3 DEF Handled, Listed, Reads, Whole, Increasing
  <2>2. Counted(m)'
    BY <1>1, <1>2, <1>3 DEF Handled, Counted
  <2>3. Lives(m)'
    BY <1>1, <1>2, <1>3 DEF Handled, Lives
  <2> QED
    BY <2>1, <2>2, <2>3
<1>9. Told(m)'
  <2> SUFFICES ASSUME NEW g \in 1..Handlers
               PROVE  /\ given'[m][g] # <<P!Null>> <=> Called(g, m)'
                      /\ given'[m][g] # <<P!Null>> => Reads(given[m][g], m, Len(message[m]))'
                      /\ g \in Keepers(m)' => Called(g, m)'
    BY DEF Told
  <2>1. CASE g = h
    <3>1. given'[m][g] # <<P!Null>>
      BY <1>4, <1>5, <2>1, NullIsNoReading
    <3>2. Reads(given[m][g], m, Len(message[m]))'
      BY <1>1, <1>3, <1>4, <1>5, <2>1 DEF Reads, Increasing
    <3> QED
      BY <1>2, <1>3, <2>1, <3>1, <3>2
  <2>2. CASE g # h
    <3>1. /\ given[m][g] # <<P!Null>> <=> Called(g, m)
          /\ given[m][g] # <<P!Null>> => Reads(given[m][g], m, Len(message[m]))
          /\ g \in Keepers(m) => Called(g, m)
      BY <1>2 DEF Handled, Told
    <3>2. given'[m][g] = given[m][g]
      BY <1>5, <2>2
    <3>3. Reads(given[m][g], m, Len(message[m])) => Reads(given[m][g], m, Len(message[m]))'
      BY <1>1, <1>3, <3>2 DEF Reads, Increasing
    <3> QED
      BY <1>3, <3>1, <3>2, <3>3
  <2> QED
    BY <2>1, <2>2
<1>10. Handled(m)'
  BY <1>8, <1>9 DEF Handled
<1>11. \A n \in P!Messages : n # m =>
          /\ match'[n] = match[n] /\ refs'[n] = refs[n] /\ given'[n] = given[n]
          /\ Keepers(n)' = Keepers(n) /\ (n \in disposed' <=> n \in disposed)
          /\ Working(n)' <=> Working(n)
          /\ Working(n) => next' = next /\ turn' = turn
  BY <1>1, <1>3, <1>5
<1> QED
  BY <1>1, <1>2, <1>6, <1>7, <1>10, <1>11, OthersKeep

(* A handler drops a match that it kept. *)
LEMMA DropKeeps ==
    ASSUME MatchInv, NEW h \in 1..Handlers, NEW m \in P!Messages, P!Drop(h, m)
    PROVE  MatchInv'
<1>1. /\ <<h, m>> \in kept /\ kept' = kept \ {<<h, m>>} /\ P!Unref(m)
      /\ UNCHANGED <<message, count, next, turn, given, stale>>
  BY DEF P!Drop
<1>2. /\ m \in 1..count /\ Handled(m) /\ h \in Keepers(m) /\ Called(h, m)
      /\ m \notin disposed /\ Upto(m) = Len(message[m])
      /\ Devices(m, Len(message[m])) # {}
  BY <1>1, KeeperFacts
<1> DEFINE Kept == Cardinality(Keepers(m))
<1>3. /\ refs' \in [P!Messages -> Int] /\ refs'[m] = refs[m] - 1
      /\ DOMAIN match' = P!Messages
      /\ disposed' = IF refs[m] = 1 THEN disposed \cup {m} ELSE disposed
      /\ match'[m] = IF refs[m] = 1 THEN <<>> ELSE match[m]
      /\ \A n \in P!Messages : n # m =>
            /\ refs'[n] = refs[n] /\ match'[n] = match[n]
            /\ n \in disposed' <=> n \in disposed
  BY <1>1, UnrefFacts DEF MatchInv
<1>4. /\ Keepers(m)' = Keepers(m) \ {h}
      /\ \A n \in P!Messages : n # m => Keepers(n)' = Keepers(n)
  BY <1>1 DEF Keepers
<1>5. /\ Kept \in Nat /\ Kept > 0
      /\ Cardinality(Keepers(m)') = Kept - 1
      /\ Kept = 1 <=> Keepers(m)' = {}
  <2>1. IsFiniteSet(Keepers(m)) /\ Kept \in 0..Handlers /\ (Kept = 0 <=> Keepers(m) = {})
    BY KeepersFinite
  <2>2. IsFiniteSet(Keepers(m) \ {h}) /\ Cardinality(Keepers(m) \ {h}) = Kept - 1
    BY <1>2, <2>1, FS_RemoveElement
  <2>3. Cardinality(Keepers(m) \ {h}) = 0 <=> Keepers(m) \ {h} = {}
    BY <2>2, FS_EmptySet
  <2> QED
    BY <1>2, <1>4, <2>1, <2>2, <2>3
<1>6. refs[m] = Kept + IF Working(m) THEN 1 ELSE 0
  BY <1>2 DEF Handled, Counted
<1>7. /\ \A n : Working(n)' <=> Working(n)
      /\ \A n, k : Devices(n, k)' = Devices(n, k)
      /\ Upto(m)' = Upto(m)
  <2>1. \A n : Working(n)' <=> Working(n)
    BY <1>1 DEF Working
  <2> QED
    BY <1>1, <2>1 DEF Devices, Upto
<1> HIDE DEF Kept
<1>8. refs[m] = 1 <=> ~Working(m) /\ Keepers(m)' = {}
  BY <1>5, <1>6
<1>9. Typed'
  <2>1. P!Messages' = P!Messages
    BY DEF P!Messages
  <2>2. disposed' \subseteq P!Messages
    BY <1>3 DEF MatchInv, Typed
  <2>3. kept' \subseteq (1..Handlers) \X P!Messages
    BY <1>1 DEF MatchInv, Typed
  <2> QED
    BY <1>1, <1>3, <2>1, <2>2, <2>3 DEF MatchInv, Typed
<1>10. Running'
  BY <1>1 DEF MatchInv, Running
<1>11. Listed(m)'
  <2> SUFFICES ASSUME m \notin disposed'
               PROVE  /\ match'[m] \in Seq(AMatch) /\ Len(match'[m]) <= Upto(m)'
                      /\ Reads(P!Read(m), m, Upto(m))'
                      /\ \A i \in DOMAIN match'[m] : Whole(m, match[m][i])'
    BY DEF Listed
  <2>1. match'[m] = match[m]
    BY <1>3
  <2>2. P!Read(m)' = P!Read(m)
    BY <2>1 DEF P!Read
  <2>3. /\ match[m] \in Seq(AMatch) /\ Len(match[m]) <= Upto(m)
        /\ Reads(P!Read(m), m, Upto(m))
        /\ \A i \in DOMAIN match[m] : Whole(m, match[m][i])
    BY <1>2 DEF Handled, Listed
  <2> QED
    BY <1>1, <1>7, <2>1, <2>2, <2>3 DEF Reads, Whole, Increasing
<1>12. Counted(m)'
  <2>1. refs'[m] = Cardinality(Keepers(m)') + IF Working(m) THEN 1 ELSE 0
    BY <1>3, <1>5, <1>6
  <2>2. Devices(m, Upto(m))' # {}
    BY <1>2, <1>7
  <2> QED
    BY <1>7, <2>1, <2>2 DEF Counted
<1>13. Lives(m)'
  BY <1>1, <1>2, <1>3, <1>7, <1>8 DEF Lives
<1>14. Told(m)'
  <2>1. \A g : Called(g, m)' <=> Called(g, m)
    BY <1>1, <1>7 DEF Called
  <2>2. \A g \in 1..Handlers : Reads(given[m][g], m, Len(message[m]))
                               => Reads(given[m][g], m, Len(message[m]))'
    BY <1>1, <1>7 DEF Reads, Increasing
  <2> QED
    BY <1>1, <1>2, <1>4, <2>1, <2>2 DEF Handled, Told
<1>15. Handled(m)'
  BY <1>11, <1>12, <1>13, <1>14 DEF Handled
<1>16. \A n \in P!Messages : n # m =>
          /\ match'[n] = match[n] /\ refs'[n] = refs[n] /\ given'[n] = given[n]
          /\ Keepers(n)' = Keepers(n) /\ (n \in disposed' <=> n \in disposed)
          /\ Working(n)' <=> Working(n)
          /\ Working(n) => next' = next /\ turn' = turn
  BY <1>1, <1>3, <1>4, <1>7
<1> QED
  BY <1>1, <1>2, <1>9, <1>10, <1>15, <1>16, OthersKeep

(* Each step of the discovery keeps the invariant. *)
LEMMA MatchNext == MatchInv /\ [P!Next]_(P!vars) => MatchInv'
<1> SUFFICES ASSUME MatchInv, [P!Next]_(P!vars) PROVE MatchInv'
  OBVIOUS
<1>1. CASE UNCHANGED P!vars
  <2>1. UNCHANGED <<message, count, next, match, refs, disposed, turn, given, kept, stale>>
    BY <1>1 DEF P!vars
  <2>2. \A m : Keepers(m)' = Keepers(m) /\ (Working(m)' <=> Working(m))
    BY <2>1 DEF Keepers, Working
  <2>3. \A m \in 1..count' : Handled(m)'
    BY <2>1, <2>2, SameMessage DEF MatchInv
  <2>4. \A m \in P!Messages : m > count' => Awaited(m)'
    BY <2>1, <2>2, SameAwaited DEF MatchInv
  <2>5. P!Messages' = P!Messages
    BY DEF P!Messages
  <2>6. Typed' /\ Running'
    BY <2>1, <2>5 DEF MatchInv, Typed, Running
  <2> QED
    BY <2>3, <2>4, <2>5, <2>6 DEF MatchInv
<1>2. CASE P!Next
  BY <1>2, ReceiveKeeps, EntryKeeps, SignalKeeps, ReturnKeeps, ReadKeptKeeps, DropKeeps
     DEF P!Next
<1> QED
  BY <1>1, <1>2

(* The invariant says what the run checks of the matches. *)
LEMMA MatchSafe == MatchInv => P!DevicesGiven /\ P!MatchesLive
<1> SUFFICES ASSUME MatchInv PROVE P!DevicesGiven /\ P!MatchesLive
  OBVIOUS
<1>0. Typed /\ MaxMessages \in Nat /\ Handlers \in Nat /\ MaxEntries \in Nat
      /\ count \in 0..MaxMessages
  BY RepliesAssumption DEF MatchInv, Typed
<1>1. \A m \in P!Messages : \/ m \in 1..count /\ Handled(m)
                            \/ m > count /\ Awaited(m)
  <2> TAKE m \in P!Messages
  <2>1. m \in 1..count \/ m > count
    BY <1>0 DEF P!Messages
  <2>2. (m \in 1..count => Handled(m)) /\ (m > count => Awaited(m))
    BY DEF MatchInv
  <2> QED
    BY <2>1, <2>2
<1>2. \A m \in P!Messages : m \in 1..count => Handled(m)
  BY DEF MatchInv
<1>3. 1..count \subseteq P!Messages
  BY <1>0 DEF P!Messages
<1>4. \A m \in P!Messages :
         Devices(m, Len(message[m])) = {i \in DOMAIN message[m] : P!Found(message[m][i])}
  <2> TAKE m \in P!Messages
  <2>1. DOMAIN message[m] = 1..Len(message[m])
    BY <1>0, EntryFacts
  <2> QED
    BY <2>1 DEF Devices
<1>5. P!EveryDeviceOnce
  <2> SUFFICES ASSUME NEW m \in P!Messages, NEW h \in 1..Handlers, given[m][h] # <<P!Null>>
               PROVE  Reads(given[m][h], m, Len(message[m]))
    BY <1>4 DEF P!EveryDeviceOnce, Reads, Increasing
  <2>1. Handled(m)
    BY <1>1 DEF Awaited
  <2> QED
    BY <2>1 DEF Handled, Told
<1>6. P!SignalledIffFound
  <2> SUFFICES ASSUME NEW m \in 1..count, NEW h \in 1..Handlers, m < count \/ next = 0
               PROVE  given[m][h] # <<P!Null>>
                        <=> \E i \in DOMAIN message[m] : P!Found(message[m][i])
    BY DEF P!SignalledIffFound
  <2>1. ~Working(m) /\ Handled(m) /\ m \in P!Messages
    BY <1>0, <1>2, <1>3 DEF Working
  <2>2. given[m][h] # <<P!Null>> <=> Devices(m, Len(message[m])) # {}
    BY <2>1 DEF Handled, Told, Called
  <2> QED
    BY <1>4, <2>1, <2>2
<1>7. P!WholeMatches
  <2> SUFFICES ASSUME NEW m \in P!Messages, NEW k \in DOMAIN match[m]
               PROVE  LET made == match[m][k]
                          e == message[m][made.entry]
                          ss == made.scopes
                      IN  /\ made.addrs = e.xaddrs
                          /\ {ss[i] : i \in DOMAIN ss}
                                = UNION {{n} \X (1..e.lines[n]) : n \in DOMAIN e.lines}
                          /\ \A i, j \in DOMAIN ss : ss[i] = ss[j] => i = j
    BY DEF P!WholeMatches
  <2>1. match[m] # <<>>
    OBVIOUS
  <2>2. m \in 1..count /\ Handled(m) /\ m \notin disposed
    BY <1>1, <2>1 DEF Awaited, Handled, Lives
  <2> DEFINE made == match[m][k]
             e == message[m][made.entry]
  <2>3. Whole(m, made) /\ Reads(P!Read(m), m, Upto(m)) /\ match[m] \in Seq(AMatch)
    BY <2>2 DEF Handled, Listed
  <2>4. made.entry \in Devices(m, Upto(m))
    <3>1. k \in DOMAIN P!Read(m) /\ P!Read(m)[k] = made.entry
      BY DEF P!Read
    <3> QED
      BY <2>3, <3>1 DEF Reads
  <2>5. e \in P!AnEntry
    <3>1. Upto(m) <= Len(message[m]) /\ Len(message[m]) \in Nat /\ Upto(m) \in Int
      <4>1. Len(message[m]) \in Nat
        BY <1>0, EntryFacts
      <4>2. Working(m) => next - 1 <= Len(message[m]) /\ next \in Nat
        BY <1>0, <4>1 DEF MatchInv, Running, Working, Typed
      <4> QED
        BY <4>1, <4>2 DEF Upto
    <3>2. made.entry \in 1..Len(message[m])
      BY <2>4, <3>1 DEF Devices
    <3> QED
      BY <1>0, <3>2, EntryFacts
  <2>6. made.addrs = e.xaddrs /\ made.scopes = P!ScopesOf(e)
    BY <2>3 DEF Whole
  <2> HIDE DEF e, made
  <2>7. /\ {P!ScopesOf(e)[i] : i \in DOMAIN P!ScopesOf(e)}
              = UNION {{n} \X (1..e.lines[n]) : n \in DOMAIN e.lines}
        /\ \A i, j \in DOMAIN P!ScopesOf(e) :
              P!ScopesOf(e)[i] = P!ScopesOf(e)[j] => i = j
    BY <2>5, ScopesWhole
  <2>8. /\ made.addrs = e.xaddrs
        /\ {made.scopes[i] : i \in DOMAIN made.scopes}
              = UNION {{n} \X (1..e.lines[n]) : n \in DOMAIN e.lines}
        /\ \A i, j \in DOMAIN made.scopes : made.scopes[i] = made.scopes[j] => i = j
    BY <2>6, <2>7, Zenon
  <2> QED
    BY <2>8, Zenon DEF e, made
<1>8. P!TypeOK
  <2>1. \A m \in P!Messages : Len(match[m]) <= MaxEntries
    <3> TAKE m \in P!Messages
    <3>1. Len(message[m]) <= MaxEntries /\ Len(message[m]) \in Nat
      BY <1>0, EntryFacts DEF Typed
    <3>2. Upto(m) <= MaxEntries
      BY <1>0, <3>1 DEF Upto, Working, MatchInv, Running, Typed
    <3>3. CASE match[m] = <<>>
      BY <1>0, <3>3
    <3>4. CASE match[m] # <<>>
      <4>1. Listed(m) /\ m \notin disposed
        BY <1>1, <3>4 DEF Awaited, Handled, Lives
      <4>2. Len(match[m]) <= Upto(m) /\ Len(match[m]) \in Nat
        BY <4>1 DEF Listed
      <4>3. Upto(m) \in Int
        BY <1>0, <3>1 DEF Upto, Typed
      <4> QED
        BY <1>0, <3>2, <4>2, <4>3
    <3> QED
      BY <3>3, <3>4
  <2>2. refs \in [P!Messages -> 0..(Handlers + 1)]
    <3>1. \A m \in P!Messages : refs[m] \in 0..(Handlers + 1)
      <4> TAKE m \in P!Messages
      <4>1. Cardinality(Keepers(m)) \in 0..Handlers
        BY KeepersFinite
      <4> QED
        BY <1>0, <1>1, <4>1 DEF Awaited, Handled, Counted
    <3> QED
      BY <1>0, <3>1 DEF Typed
  <2> QED
    BY <1>0, <2>1, <2>2 DEF Typed, P!TypeOK
<1>9. P!NothingLeft
  <2> SUFFICES ASSUME NEW m \in 1..count, m < count \/ next = 0,
                      \A h \in 1..Handlers : <<h, m>> \notin kept
               PROVE  match[m] = <<>> /\ refs[m] = 0
    BY DEF P!NothingLeft
  <2>1. ~Working(m) /\ Handled(m) /\ m \in P!Messages /\ Keepers(m) = {}
    BY <1>0, <1>2, <1>3 DEF Working, Keepers
  <2>2. refs[m] = 0
    BY <2>1, FS_EmptySet DEF Handled, Counted
  <2>3. CASE m \in disposed
    BY <2>1, <2>2, <2>3 DEF Handled, Lives
  <2>4. CASE m \notin disposed
    <3>1. Devices(m, Len(message[m])) = {} /\ Upto(m) = Len(message[m])
      BY <2>1, <2>4 DEF Handled, Lives, Upto
    <3>2. match[m] \in Seq(AMatch) /\ Reads(P!Read(m), m, Upto(m))
      BY <2>1, <2>4 DEF Handled, Listed
    <3>3. DOMAIN P!Read(m) = {}
      BY <3>1, <3>2 DEF Reads
    <3>4. DOMAIN match[m] = {}
      BY <3>3 DEF P!Read
    <3>5. match[m] = <<>>
      <4>1. Len(match[m]) = 0
        <5>1. Len(match[m]) \in Nat /\ DOMAIN match[m] = 1..Len(match[m])
          BY <3>2
        <5>2. 1 \notin 1..Len(match[m])
          BY <3>4, <5>1
        <5> QED
          BY <5>1, <5>2
      <4> QED
        BY <3>2, <4>1, SameSequence
    <3> QED
      BY <2>2, <3>5
  <2> QED
    BY <2>3, <2>4
<1>10. P!NeverStale
  BY <1>0 DEF Typed, P!NeverStale
<1> QED
  BY <1>5, <1>6, <1>7, <1>8, <1>9, <1>10 DEF P!DevicesGiven, P!MatchesLive

--------------------------------------------------------------------------------
(* CameraReplies: whichever object it is. *)

RepliesInv ==
    /\ object \in {"services", "network", "scopes", "matches"}
    /\ object = "services" => ServiceInv
    /\ object = "network" => NetworkInv
    /\ object = "scopes" => ScopesInv
    /\ object = "matches" => MatchInv

repliesVars == <<object, state, given, next, reply, serviceVars, networkVars, scopeVars,
                 matchVars>>

(* Each object begins in its own invariant. *)
LEMMA RepliesInitially == RepliesInit => RepliesInv
<1> SUFFICES ASSUME RepliesInit PROVE RepliesInv
  OBVIOUS
<1>1. CASE object = "services" /\ T!Init
  BY <1>1, ServicesInit DEF RepliesInv
<1>2. CASE object = "network" /\ N!Init
  BY <1>2, NetworkInit DEF RepliesInv
<1>3. CASE object = "scopes" /\ S!Init
  BY <1>3, ScopesInit DEF RepliesInv
<1>4. CASE object = "matches" /\ P!Init
  BY <1>4, MatchInit DEF RepliesInv
<1> QED
  BY <1>1, <1>2, <1>3, <1>4 DEF RepliesInit

(* A step is one of the object's own, or changes nothing. *)
LEMMA RepliesStep == RepliesInv /\ [RepliesNext]_repliesVars => RepliesInv'
<1> SUFFICES ASSUME RepliesInv, [RepliesNext]_repliesVars PROVE RepliesInv'
  OBVIOUS
<1>1. UNCHANGED repliesVars =>
         UNCHANGED object /\ UNCHANGED T!vars /\ UNCHANGED N!vars
            /\ UNCHANGED S!vars /\ UNCHANGED P!vars
  BY DEF repliesVars, serviceVars, networkVars, scopeVars, matchVars,
         T!vars, T!device, N!vars, S!vars, P!vars
<1>2. object' = object
  BY <1>1 DEF RepliesNext
<1>3. CASE object = "services"
  <2>1. [T!Next]_(T!vars)
    BY <1>1, <1>3 DEF RepliesNext
  <2> QED
    BY <1>2, <1>3, <2>1, ServicesNext DEF RepliesInv
<1>4. CASE object = "network"
  <2>1. [N!Next]_(N!vars)
    BY <1>1, <1>4 DEF RepliesNext
  <2> QED
    BY <1>2, <1>4, <2>1, NetworkNext DEF RepliesInv
<1>5. CASE object = "scopes"
  <2>1. [S!Next]_(S!vars)
    BY <1>1, <1>5 DEF RepliesNext
  <2> QED
    BY <1>2, <1>5, <2>1, ScopesNext DEF RepliesInv
<1>6. CASE object = "matches"
  <2>1. [P!Next]_(P!vars)
    BY <1>1, <1>6 DEF RepliesNext
  <2> QED
    BY <1>2, <1>6, <2>1, MatchNext DEF RepliesInv
<1> QED
  BY <1>3, <1>4, <1>5, <1>6 DEF RepliesInv

(* The inductive invariant of the objects that are made of replies: what    *)
(* each service, table, list or match holds is a function of what came.     *)
THEOREM RepliesInductive == RepliesSpec => []RepliesInv
<1>1. RepliesSpec => RepliesInit /\ [][RepliesNext]_repliesVars
  BY DEF RepliesSpec, repliesVars
<1> QED
  BY <1>1, RepliesInitially, RepliesStep, PTL

(* createServices, in every number of runs over every sequence of answers   *)
(* with repeated, missing, unknown and incomplete entries, leaves the       *)
(* services of the camera's latest answer, the last entry of each           *)
(* namespace; it crashes only on an answer without an element that the      *)
(* schema requires, or on capabilities without Media or DeviceIO.           *)
THEOREM ServicesMadeFromLatest == RepliesSpec => []MadeFromLatest
<1>1. RepliesInv => MadeFromLatest
  BY ServicesSafe DEF RepliesInv, MadeFromLatest
<1> QED
  BY <1>1, RepliesInductive, PTL

(* What createServices leaves allocated is the entries that a later one of  *)
(* their reply repeats, the DeviceIO part of capabilities, and media2 and   *)
(* deviceio services of an attempt before the last, and nothing else.       *)
THEOREM ServiceLeaksKnown == RepliesSpec => []LeaksKnown
<1>1. RepliesInv => LeaksKnown
  BY ServicesSafe DEF RepliesInv, LeaksKnown
<1> QED
  BY <1>1, RepliesInductive, PTL

(* OnvifDeviceInterfaces and OnvifDeviceNTP: over a reply with at most one  *)
(* address in a list no getter and no dispose follows an unwritten pointer; *)
(* over any reply a getter gives a block of the list it was asked for, and  *)
(* dispose frees all but the arrays of empty NTP lists unless it follows    *)
(* such a pointer.                                                          *)
THEOREM NetworkTablesSound == RepliesSpec => []TablesSound
<1>1. RepliesInv => TablesSound
  BY NetworkSafe DEF RepliesInv, TablesSound
<1> QED
  BY <1>1, RepliesInductive, PTL

(* OnvifScopes keeps the whole of a reply or a fault, decodes every value   *)
(* as percent-decoding says, and answers with all values of the key.        *)
THEOREM ScopeAnswersWhole == RepliesSpec => []AnswersWhole
<1>1. RepliesInv => AnswersWhole
  BY ScopesSafe DEF RepliesInv, AnswersWhole
<1> QED
  BY <1>1, RepliesInductive, PTL

(* OnvifScopes and ProbMatch answer the same of the same scopes, but for    *)
(* spaces before the first value that is not empty.                         *)
THEOREM ScopeAnswersAgree == RepliesSpec => []SameAnswers
<1>1. RepliesInv => SameAnswers
  BY ScopesSafe DEF RepliesInv, SameAnswers
<1> QED
  BY <1>1, RepliesInductive, PTL

(* Each handler of the discovery signal is given each device of a message   *)
(* once, in the order of the message, with all its scopes, and is called    *)
(* for no message without one.                                              *)
THEOREM DevicesReachHandlers == RepliesSpec => []DevicesGiven
<1>1. RepliesInv => DevicesGiven
  BY MatchSafe DEF RepliesInv, DevicesGiven
<1> QED
  BY <1>1, RepliesInductive, PTL

(* The matches of a message are freed once it is handled and no handler     *)
(* keeps them, and no handler reads them after that.                        *)
THEOREM MatchesLiveAsUsed == RepliesSpec => []MatchesLive
<1>1. RepliesInv => MatchesLive
  BY MatchSafe DEF RepliesInv, MatchesLive
<1> QED
  BY <1>1, RepliesInductive, PTL

--------------------------------------------------------------------------------
(* CameraClock. *)

Asking == {"ask", "construct", "difference"}

(* authenticate asks for a date only as long as there is none; a request    *)
(* made without one follows a camera that said it stands at the epoch.      *)
AskedFor ==
    /\ pc \in Asking => datetime = Null /\ ~authenticated
    /\ datetime = Null => time_offset = 0
    /\ datetime = Null /\ (authenticated \/ pc \in {"stamp", "sent"}) => date = 0

(* What the camera's answer, and the date made of it, say of the time now.  *)
Answered ==
    /\ pc \in {"construct", "difference"} => answer.at <= elapsed
    /\ pc \in {"construct", "difference"} /\ Undisturbed =>
          answer.time = camera - (elapsed - answer.at)
    /\ pc = "difference" => date >= 0 /\ answer.kind \in {"utc", "local"}
    /\ pc = "difference" /\ answer.kind = "utc" => date = answer.time
    /\ pc = "difference" /\ answer.kind = "local" /\ Undisturbed =>
          date <= now /\ date >= now - (elapsed - answer.at)

(* What the offset says of the two clocks. *)
Measured ==
    /\ datetime = Null => measured.kind = "none"
    /\ datetime # Null =>
        /\ measured.kind \in {"utc", "local"}
        /\ measured.kind = "utc" /\ Undisturbed =>
              time_offset = camera - measured.lag - now
        /\ measured.kind = "local" /\ Undisturbed =>
              time_offset <= 0 /\ time_offset >= -measured.lag

(* What the token of a request under way was made of. *)
Stamped ==
    pc = "sent" /\ Undisturbed =>
        token.created = now - (elapsed - token.at) + time_offset

IInv == TypeOK /\ AskedFor /\ Answered /\ Measured /\ Stamped

(* A new device has asked nothing yet. *)
LEMMA Initially == Init => IInv
<1> SUFFICES ASSUME Init PROVE IInv
  OBVIOUS
<1>1. camera \in Int
  BY ClockAssumption DEF Init
<1>2. TypeOK
  <2>1. 0 \in 0..MaxTime /\ 0 \in 0..MaxSets
    BY ClockAssumption
  <2>2. answer \in [kind: Answers, at: 0..MaxTime, time: Int]
    BY <2>1 DEF Init, Answers
  <2>3. measured \in [kind: Answers, sets: 0..MaxSets, lag: 0..MaxTime]
    BY <2>1 DEF Init, Answers
  <2>4. token \in [created: Int, timestamp: Int, at: 0..MaxTime]
    BY <2>1 DEF Init
  <2>5. now \in Int /\ elapsed \in 0..MaxTime /\ sets \in 0..MaxSets
    BY <2>1, ClockAssumption DEF Init
  <2>6. pc \in Places /\ ret_fault \in SoapFault
    BY DEF Init, Places, SoapFault
  <2>7. strict \in BOOLEAN /\ authenticated \in BOOLEAN
    BY DEF Init
  <2>8. date \in Int /\ time_offset \in Int
    BY DEF Init
  <2>9. datetime \in (Nat \ {0}) \cup {Null}
    BY DEF Init
  <2> QED
    BY <1>1, <2>2, <2>3, <2>4, <2>5, <2>6, <2>7, <2>8, <2>9 DEF TypeOK
<1>3. AskedFor /\ Answered /\ Measured /\ Stamped
  BY DEF Init, AskedFor, Answered, Measured, Stamped, Asking
<1> QED
  BY <1>2, <1>3 DEF IInv

(* A second passes on both clocks alike. *)
LEMMA TickStep == IInv /\ Tick => IInv'
<1> SUFFICES ASSUME IInv, Tick PROVE IInv'
  OBVIOUS
<1> USE DEF Tick, measure, result
<1>1. TypeOK /\ TypeOK'
  BY ClockAssumption DEF IInv, TypeOK
<1>2. AskedFor'
  BY DEF IInv, AskedFor
<1>3. Answered'
  BY <1>1 DEF IInv, Answered, TypeOK, Undisturbed
<1>4. Measured'
  BY <1>1 DEF IInv, Measured, TypeOK, Undisturbed
<1>5. Stamped'
  BY <1>1 DEF IInv, Stamped, TypeOK, Undisturbed
<1> QED
  BY <1>1, <1>2, <1>3, <1>4, <1>5 DEF IInv

(* A clock that is set ends what is known of the other. *)
LEMMA SetClockStep == IInv /\ SetClock => IInv'
<1> SUFFICES ASSUME IInv, SetClock PROVE IInv'
  OBVIOUS
<1> USE DEF SetClock, measure, result
<1>1. TypeOK /\ TypeOK'
  BY ClockAssumption DEF IInv, TypeOK
<1>2. ~Undisturbed'
  BY <1>1 DEF TypeOK, Undisturbed
<1> QED
  BY <1>1, <1>2 DEF IInv, AskedFor, Answered, Measured, Stamped

(* The steps of a call up to the difference. *)
LEMMA AskStep ==
    IInv /\ (Call \/ GetSystemDateAndTime \/ Construct) => IInv'
<1> SUFFICES ASSUME IInv, Call \/ GetSystemDateAndTime \/ Construct PROVE IInv'
  OBVIOUS
<1>0. TypeOK
  BY DEF IInv
<1> USE ClockAssumption
    DEF clocks, measure, result, Goto, Fail, Places, SoapFault, Answers, Asking
<1>1. CASE Call
  <2>1. TypeOK'
    BY <1>0, <1>1 DEF Call, TypeOK
  <2>2. AskedFor'
    BY <1>1 DEF Call, IInv, AskedFor, NeedsDate
  <2>3. Answered' /\ Measured' /\ Stamped'
    BY <1>1 DEF Call, IInv, Answered, Measured, Stamped, Undisturbed
  <2> QED
    BY <2>1, <2>2, <2>3 DEF IInv
<1>2. ASSUME NEW k \in Answers, Reply(k) PROVE IInv'
  <2>1. TypeOK'
    BY <1>0, <1>2 DEF Reply, TypeOK
  <2>2. AskedFor' /\ Measured' /\ Stamped'
    BY <1>2 DEF Reply, IInv, AskedFor, Measured, Stamped, Undisturbed
  <2>3. Answered'
    BY <1>0, <1>2 DEF Reply, Answered, TypeOK, Undisturbed
  <2> QED
    BY <2>1, <2>2, <2>3 DEF IInv
<1>3. CASE pc = "ask" /\ GetSystemDateAndTime /\ pc' = "idle"
  <2>1. UNCHANGED <<clocks, answer, date, measure, token, authenticated>>
        /\ ret_fault' \in SoapFault
    BY <1>3 DEF GetSystemDateAndTime, Reply
  <2>2. TypeOK'
    BY <1>0, <1>3, <2>1 DEF TypeOK
  <2> QED
    BY <1>3, <2>1, <2>2 DEF IInv, AskedFor, Answered, Measured, Stamped, Undisturbed
<1>4. CASE Construct
  <2>1. date' \in Int
    BY <1>0, <1>4 DEF Construct, TypeOK
  <2>2. TypeOK'
    BY <1>0, <1>4, <2>1 DEF Construct, TypeOK
  <2>3. AskedFor' /\ Measured' /\ Stamped'
    BY <1>4 DEF Construct, IInv, AskedFor, Measured, Stamped, Undisturbed
  <2>4. Answered'
    <3> SUFFICES ASSUME pc' = "difference" PROVE Answered'
      BY <1>4 DEF Construct, Answered
    <3>1. answer.kind \in {"utc", "local"} /\ date' >= 0
      BY <1>0, <1>4, <2>1 DEF Construct, TypeOK
    <3>2. CASE answer.kind = "utc"
      BY <1>0, <1>4, <3>1, <3>2 DEF Construct, IInv, Answered, Undisturbed
    <3>3. CASE answer.kind = "local"
      <4>1. date' = now
        BY <1>4, <3>3 DEF Construct
      <4> QED
        BY <1>0, <1>4, <3>1, <3>3, <4>1
           DEF Construct, IInv, Answered, Undisturbed, TypeOK
    <3> QED
      BY <3>1, <3>2, <3>3
  <2> QED
    BY <2>2, <2>3, <2>4 DEF IInv
<1> QED
  BY <1>1, <1>2, <1>3, <1>4 DEF GetSystemDateAndTime

(* The difference, taken of a date after the epoch, is the clocks'. *)
LEMMA SetOffsetStep == IInv /\ SetOffset => IInv'
<1> SUFFICES ASSUME IInv, SetOffset PROVE IInv'
  OBVIOUS
<1>0. TypeOK /\ pc = "difference"
  BY DEF IInv, SetOffset
<1> USE ClockAssumption DEF SetOffset, clocks, measure, result, Goto, IsSet
<1>1. CASE date > 0
  <2>1. /\ datetime' = date /\ time_offset' = date - now
        /\ measured' = [kind |-> answer.kind, sets |-> sets,
                        lag |-> elapsed - answer.at]
        /\ pc' = "stamp"
    BY <1>1 DEF Difference
  <2>2. elapsed - answer.at \in 0..MaxTime /\ answer.at <= elapsed
    BY <1>0 DEF IInv, Answered, TypeOK
  <2>3. TypeOK'
    BY <1>0, <1>1, <2>1, <2>2 DEF TypeOK, Places
  <2>4. AskedFor' /\ Answered' /\ Stamped'
    BY <1>0, <1>1, <2>1 DEF AskedFor, Answered, Stamped, Asking, TypeOK
  <2>5. Measured'
    <3>1. measured'.kind = answer.kind /\ measured'.lag = elapsed - answer.at
      BY <2>1
    <3>2. answer.kind \in {"utc", "local"}
      BY <1>0 DEF IInv, Answered
    <3>3. CASE Undisturbed /\ answer.kind = "utc"
      BY <1>0, <2>1, <3>1, <3>3
         DEF IInv, Answered, Measured, Undisturbed, TypeOK
    <3>4. CASE Undisturbed /\ answer.kind = "local"
      BY <1>0, <2>1, <3>1, <3>4
         DEF IInv, Answered, Measured, Undisturbed, TypeOK
    <3>5. datetime' # Null
      BY <1>0, <2>1 DEF TypeOK
    <3>6. Undisturbed' = Undisturbed
      BY DEF Undisturbed
    <3> QED
      BY <3>1, <3>2, <3>3, <3>4, <3>5, <3>6 DEF Measured
  <2> QED
    BY <2>3, <2>4, <2>5 DEF IInv
<1>2. CASE ~(date > 0)
  <2>1. date = 0
    BY <1>0, <1>2 DEF IInv, Answered, TypeOK
  <2>2. TypeOK'
    BY <1>0, <1>2 DEF TypeOK, Places
  <2> QED
    BY <1>0, <1>2, <2>1, <2>2
       DEF IInv, AskedFor, Answered, Measured, Stamped, Asking, Undisturbed
<1> QED
  BY <1>1, <1>2

(* A request is stamped with the client's clock and the offset. *)
LEMMA RequestStep == IInv /\ (Stamp \/ Answer) => IInv'
<1> SUFFICES ASSUME IInv, Stamp \/ Answer PROVE IInv'
  OBVIOUS
<1>0. TypeOK
  BY DEF IInv
<1> USE ClockAssumption DEF clocks, measure, result, Goto, Asking
<1>1. CASE Stamp
  <2>1. OffsetTime = now + time_offset /\ OffsetTime \in Int
    BY <1>0 DEF OffsetTime, TypeOK
  <2>2. token' = [created |-> now + time_offset, timestamp |-> now, at |-> elapsed]
    BY <1>1, <2>1 DEF Stamp
  <2>3. TypeOK'
    BY <1>0, <1>1, <2>2 DEF Stamp, TypeOK, Places
  <2>4. AskedFor' /\ Answered' /\ Measured'
    BY <1>1 DEF Stamp, IInv, AskedFor, Answered, Measured, Undisturbed
  <2>5. Stamped'
    BY <1>0, <1>1, <2>2 DEF Stamp, Stamped, TypeOK
  <2> QED
    BY <2>3, <2>4, <2>5 DEF IInv
<1>2. CASE Answer
  <2>1. TypeOK'
    <3>1. authenticated' \in BOOLEAN /\ ret_fault' \in SoapFault
      BY <1>0, <1>2 DEF Answer, TypeOK, SoapFault
    <3> QED
      BY <1>0, <1>2, <3>1 DEF Answer, TypeOK, Places
  <2> QED
    BY <1>2, <2>1
       DEF Answer, IInv, AskedFor, Answered, Measured, Stamped, Undisturbed
<1> QED
  BY <1>1, <1>2

(* The inductive invariant. *)
THEOREM Inductive == Spec => []IInv
<1>1. IInv /\ [Next]_vars => IInv'
  <2> SUFFICES ASSUME IInv, UNCHANGED vars PROVE IInv'
    BY TickStep, SetClockStep, AskStep, SetOffsetStep, RequestStep DEF Next
  <2> QED
    BY DEF vars, clocks, measure, result, IInv, TypeOK, AskedFor, Answered,
           Measured, Stamped, Undisturbed
<1> QED
  BY <1>1, Initially, PTL DEF Spec

(* The variables of the clocks and the call keep their types. *)
THEOREM TypeCorrect == Spec => []TypeOK
<1>1. IInv => TypeOK
  BY DEF IInv
<1> QED
  BY <1>1, Inductive, PTL

(* get_offset_time says the camera's time, but for the answer's lag. *)
THEOREM TokensTrack == Spec => []TokenTracksCamera
<1>1. IInv => TokenTracksCamera
  <2> SUFFICES ASSUME IInv, pc = "sent", Undisturbed
               PROVE  LET age == elapsed - token.at
                      IN CASE datetime = Null -> token.created = now - age
                           [] measured.kind = "utc" ->
                                  token.created = camera - age - measured.lag
                           [] measured.kind = "local" ->
                                  token.created \in (now - age - measured.lag)..(now - age)
    BY DEF TokenTracksCamera
  <2>0. TypeOK
    BY DEF IInv
  <2>1. token.created = now - (elapsed - token.at) + time_offset
    BY DEF IInv, Stamped
  <2>2. CASE datetime = Null
    <3>1. time_offset = 0 /\ measured.kind = "none"
      BY <2>2 DEF IInv, AskedFor, Measured
    <3>2. token.created = now - (elapsed - token.at)
      BY <2>0, <2>1, <3>1 DEF TypeOK
    <3> QED
      BY <2>2, <3>1, <3>2
  <2>3. CASE datetime # Null /\ measured.kind = "utc"
    BY <2>0, <2>1, <2>3 DEF IInv, Measured, TypeOK
  <2>4. CASE datetime # Null /\ measured.kind = "local"
    BY <2>0, <2>1, <2>4 DEF IInv, Measured, TypeOK
  <2>5. datetime # Null => measured.kind \in {"utc", "local"}
    BY DEF IInv, Measured
  <2> QED
    BY <2>2, <2>3, <2>4, <2>5
<1> QED
  BY <1>1, Inductive, PTL

(* A clock that stands at the epoch, or before it, is never measured. *)
THEOREM UnsetIsNotTrusted == Spec => []UnsetClockNotTrusted
<1>1. IInv => UnsetClockNotTrusted
  BY ClockAssumption DEF IInv, TypeOK, AskedFor, UnsetClockNotTrusted
<1> QED
  BY <1>1, Inductive, PTL
================================================================================
