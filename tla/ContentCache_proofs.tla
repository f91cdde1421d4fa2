------------------------- MODULE ContentCache_proofs -------------------------
(***************************************************************************)
(* What the gateway answers from its cache is never older than the last    *)
(* put of its url, its entries are within the limit, and so are its files  *)
(* but for those that the code loses sight of: for any urls, contents,     *)
(* sizes and limit, and whatever is evicted, deleted, cut short or left    *)
(* over by an earlier process.                                             *)
(***************************************************************************)
EXTENDS ContentCache, FiniteSetTheorems, SequenceTheorems, TLAPS

(***************************************************************************)
(* Sums over finite sets                                                   *)
(***************************************************************************)

\* The sum of f over S, which the library defines by recursion on S.
Sum(f, S) == SumFunctionOnSet(f, S)

LEMMA LeastNat ==
  ASSUME NEW T \in SUBSET Nat, T # {}
  PROVE  \E n \in T : \A m \in T : n <= m
<1>1. IsWellFoundedOn(OpToRel(<, Nat), Nat)
  BY Zenon, NatLessThanWellFounded
<1>2. PICK n \in T : \A m \in T : ~ (<<m, n>> \in OpToRel(<, Nat))
  BY Zenon, <1>1, WFMin
<1>3. ASSUME NEW m \in T PROVE n <= m
  <2>1. <<m, n>> \in Nat \X Nat /\ ~ (m < n)
    BY <1>2 DEF OpToRel
  <2> QED
    BY <2>1
<1> QED
  BY <1>3

\* The induction theorems of the library are about operators; this one is about
\* a set, which a comprehension makes of any property.
LEMMA SubsetInduction ==
  ASSUME NEW S, IsFiniteSet(S), NEW G,
         \A T \in SUBSET S : (\A V \in SUBSET T : V # T => V \in G) => T \in G
  PROVE  S \in G
<1> DEFINE B == (SUBSET S) \ G
           sizes == {Cardinality(T) : T \in B}
<1>1. SUFFICES ASSUME S \notin G PROVE FALSE
  OBVIOUS
<1>2. \A T \in SUBSET S : IsFiniteSet(T) /\ Cardinality(T) \in Nat
  BY FS_Subset, FS_CardinalityType
<1>3. PICK n \in sizes : \A m \in sizes : n <= m
  <2>1. sizes \in SUBSET Nat /\ sizes # {}
    BY <1>1, <1>2
  <2> HIDE DEF sizes
  <2> QED
    BY <2>1, LeastNat
<1>4. PICK T \in B : Cardinality(T) = n
  OBVIOUS
<1>5. ASSUME NEW V \in SUBSET T, V # T PROVE V \in G
  <2>1. Cardinality(V) \in Nat /\ n \in Nat /\ Cardinality(V) < n
    BY <1>2, <1>4, <1>5, FS_Subset
  <2>2. Cardinality(V) \notin sizes
    <3> HIDE DEF sizes
    <3> QED
      BY <1>3, <2>1
  <2> QED
    BY <2>2
<1> QED
  BY <1>4, <1>5

\* The element that the sum over T starts with, what the recursion makes of
\* its values on smaller sets, and a function that satisfies it.
First(T) == CHOOSE x \in T : TRUE

Step(f, g, T) == IF T = {} THEN 0 ELSE f[First(T)] + g[T \ {First(T)}]

Adds(g, f, S) == g = [T \in SUBSET S |-> Step(f, g, T)]

LEMMA SumUnfolds ==
  ASSUME NEW f, NEW S
  PROVE  Sum(f, S) = (CHOOSE g : Adds(g, f, S))[S]
  BY DEF Sum, SumFunctionOnSet, FoldFunctionOnSet, MapThenFoldSet, Adds, Step, First

LEMMA AddsAgree ==
  ASSUME NEW f, NEW S, NEW g, Adds(g, f, S), NEW R, NEW h, Adds(h, f, R),
         NEW T, T \subseteq S, T \subseteq R, IsFiniteSet(T)
  PROVE  g[T] = h[T]
<1> DEFINE G == {V \in SUBSET T : g[V] = h[V]}
<1>1. ASSUME NEW U \in SUBSET T, \A V \in SUBSET U : V # U => V \in G
      PROVE  U \in G
  <2>1. U \in SUBSET S /\ U \in SUBSET R
    OBVIOUS
  <2>2. g[U] = Step(f, g, U) /\ h[U] = Step(f, h, U)
    BY <2>1 DEF Adds
  <2>3. CASE U = {}
    BY <2>2, <2>3 DEF Step
  <2>4. CASE U # {}
    <3>1. First(U) \in U
      BY <2>4 DEF First
    <3>2. g[U \ {First(U)}] = h[U \ {First(U)}]
      BY <1>1, <3>1
    <3> QED
      BY <2>2, <2>4, <3>2 DEF Step
  <2> QED
    BY <2>3, <2>4
<1> HIDE DEF G
<1>2. T \in G
  BY <1>1, SubsetInduction
<1> QED
  BY <1>2 DEF G

LEMMA AddsExists ==
  ASSUME NEW f, NEW S, IsFiniteSet(S)
  PROVE  \E g : Adds(g, f, S)
<1> DEFINE G == {T \in SUBSET S : \E g : Adds(g, f, T)}
           by(V) == CHOOSE g : Adds(g, f, V)
<1>1. ASSUME NEW U \in SUBSET S, \A V \in SUBSET U : V # U => V \in G
      PROVE  U \in G
  <2>1. ASSUME NEW V \in SUBSET U, V # U
        PROVE  Adds(by(V), f, V) /\ IsFiniteSet(V)
    BY <1>1, <2>1, FS_Subset
  <2> DEFINE h == [T \in SUBSET U |-> IF T = {} THEN 0
                   ELSE f[First(T)] + by(T \ {First(T)})[T \ {First(T)}]]
  <2>2. ASSUME NEW V \in SUBSET U, V # U PROVE h[V] = by(V)[V]
    <3>1. by(V)[V] = Step(f, by(V), V)
      <4> HIDE DEF by
      <4> QED
        BY <2>1, <2>2 DEF Adds
    <3>2. CASE V = {}
      BY <3>1, <3>2 DEF Step
    <3>3. CASE V # {}
      <4> DEFINE W == V \ {First(V)}
      <4>1. W \in SUBSET V /\ W \in SUBSET U /\ W # U
        BY <2>2, <3>3 DEF First
      <4>2. by(V)[W] = by(W)[W]
        <5>1. Adds(by(V), f, V) /\ Adds(by(W), f, W) /\ IsFiniteSet(W)
          BY <2>1, <2>2, <4>1
        <5> HIDE DEF by
        <5> QED
          BY <4>1, <5>1, AddsAgree
      <4>3. h[V] = f[First(V)] + by(W)[W] /\ by(V)[V] = f[First(V)] + by(V)[W]
        BY <3>1, <3>3 DEF Step
      <4> QED
        BY <4>2, <4>3
    <3> QED
      BY <3>2, <3>3
  <2>3. ASSUME NEW T \in SUBSET U PROVE h[T] = Step(f, h, T)
    <3>1. CASE T = {}
      BY <3>1 DEF Step
    <3>2. CASE T # {}
      <4> DEFINE V == T \ {First(T)}
      <4>1. V \in SUBSET U /\ V # U
        BY <3>2 DEF First
      <4>2. h[T] = f[First(T)] + by(V)[V] /\ Step(f, h, T) = f[First(T)] + h[V]
        BY <3>2 DEF Step
      <4> QED
        BY <2>2, <4>1, <4>2
    <3> QED
      BY <3>1, <3>2
  <2>4. h = [T \in SUBSET U |-> h[T]]
    OBVIOUS
  <2> HIDE DEF h
  <2>5. h = [T \in SUBSET U |-> Step(f, h, T)]
    BY <2>3, <2>4
  <2> QED
    BY <2>5 DEF Adds
<1> HIDE DEF G
<1>2. S \in G
  BY <1>1, SubsetInduction
<1> QED
  BY <1>2 DEF G

LEMMA SumEmpty ==
  ASSUME NEW f
  PROVE  Sum(f, {}) = 0
<1> DEFINE g == CHOOSE g : Adds(g, f, {})
<1>1. Adds(g, f, {})
  BY AddsExists, FS_EmptySet
<1>2. Sum(f, {}) = g[{}]
  BY SumUnfolds
<1> HIDE DEF g
<1> QED
  BY <1>1, <1>2 DEF Adds, Step

LEMMA SumStarts ==
  ASSUME NEW f, NEW S, IsFiniteSet(S), S # {}
  PROVE  First(S) \in S /\ Sum(f, S) = f[First(S)] + Sum(f, S \ {First(S)})
<1> DEFINE by(V) == CHOOSE g : Adds(g, f, V)
           R == S \ {First(S)}
<1>1. First(S) \in S
  BY DEF First
<1>2. IsFiniteSet(R) /\ R \subseteq S
  BY FS_RemoveElement
<1>3. Adds(by(S), f, S) /\ Adds(by(R), f, R)
  BY <1>2, AddsExists
<1>4. Sum(f, S) = by(S)[S] /\ Sum(f, R) = by(R)[R]
  BY SumUnfolds
<1> HIDE DEF by
<1>5. by(S)[S] = f[First(S)] + by(S)[R]
  BY <1>3 DEF Adds, Step
<1>6. by(S)[R] = by(R)[R]
  BY <1>2, <1>3, AddsAgree
<1> QED
  BY <1>1, <1>4, <1>5, <1>6

LEMMA SumType ==
  ASSUME NEW f, NEW S, IsFiniteSet(S), \A x \in S : f[x] \in Nat
  PROVE  Sum(f, S) \in Nat
<1> DEFINE G == {T \in SUBSET S : Sum(f, T) \in Nat}
<1>1. ASSUME NEW U \in SUBSET S, \A V \in SUBSET U : V # U => V \in G
      PROVE  U \in G
  <2>1. CASE U = {}
    BY <2>1, SumEmpty
  <2>2. CASE U # {}
    <3>1. First(U) \in U /\ Sum(f, U) = f[First(U)] + Sum(f, U \ {First(U)})
      BY <2>2, FS_Subset, SumStarts
    <3>2. Sum(f, U \ {First(U)}) \in Nat /\ f[First(U)] \in Nat
      BY <1>1, <3>1
    <3> QED
      BY <3>1, <3>2
  <2> QED
    BY <2>1, <2>2
<1> HIDE DEF G
<1>2. S \in G
  BY <1>1, SubsetInduction
<1> QED
  BY <1>2 DEF G

\* A sum does not depend on where it starts.
LEMMA SumWithout ==
  ASSUME NEW f, NEW S, IsFiniteSet(S), \A x \in S : f[x] \in Nat, NEW x \in S
  PROVE  Sum(f, S) = f[x] + Sum(f, S \ {x})
<1> DEFINE G == {T \in SUBSET S : \A y \in T : Sum(f, T) = f[y] + Sum(f, T \ {y})}
<1>1. ASSUME NEW U \in SUBSET S, \A V \in SUBSET U : V # U => V \in G,
             NEW y \in U
      PROVE  Sum(f, U) = f[y] + Sum(f, U \ {y})
  <2> DEFINE a == First(U)
             W == U \ {a, y}
  <2>1. a \in U /\ Sum(f, U) = f[a] + Sum(f, U \ {a})
    BY <1>1, FS_Subset, SumStarts
  <2> HIDE DEF a
  <2>2. CASE a = y
    BY <2>1, <2>2
  <2>3. CASE a # y
    <3>1. Sum(f, U \ {a}) = f[y] + Sum(f, W)
      <4>1. U \ {a} \in G /\ y \in U \ {a} /\ (U \ {a}) \ {y} = W
        BY <1>1, <2>1, <2>3
      <4> QED
        BY <4>1
    <3>2. Sum(f, U \ {y}) = f[a] + Sum(f, W)
      <4>1. U \ {y} \in G /\ a \in U \ {y} /\ (U \ {y}) \ {a} = W
        BY <1>1, <2>1, <2>3
      <4> QED
        BY <4>1
    <3>3. Sum(f, W) \in Nat
      <4>1. IsFiniteSet(W) /\ \A z \in W : f[z] \in Nat
        BY FS_Subset
      <4> QED
        BY <4>1, SumType
    <3>4. f[a] + (f[y] + Sum(f, W)) = f[y] + (f[a] + Sum(f, W))
      BY <2>1, <3>3
    <3> QED
      BY <2>1, <3>1, <3>2, <3>4
  <2> QED
    BY <2>2, <2>3
<1>2. \A U \in SUBSET S : (\A V \in SUBSET U : V # U => V \in G) => U \in G
  BY <1>1
<1> HIDE DEF G
<1>3. S \in G
  BY <1>2, SubsetInduction
<1> QED
  BY <1>3 DEF G

\* More elements and greater values have no smaller sum.
LEMMA SumMonotone ==
  ASSUME NEW f, NEW S, NEW g, NEW R, IsFiniteSet(R), S \subseteq R,
         \A x \in S : f[x] \in Nat /\ f[x] <= g[x], \A x \in R : g[x] \in Nat
  PROVE  Sum(f, S) <= Sum(g, R)
<1> DEFINE G == {T \in SUBSET R : Sum(f, T \cap S) <= Sum(g, T)}
<1>1. ASSUME NEW U \in SUBSET R, \A V \in SUBSET U : V # U => V \in G
      PROVE  Sum(f, U \cap S) <= Sum(g, U)
  <2>1. CASE U = {}
    <3>1. U \cap S = {}
      BY <2>1
    <3> QED
      BY <2>1, <3>1, SumEmpty
  <2>2. ASSUME NEW x \in U PROVE Sum(f, U \cap S) <= Sum(g, U)
    <3> DEFINE V == U \ {x}
    <3>1. Sum(f, V \cap S) <= Sum(g, V)
      BY <1>1
    <3>2. IsFiniteSet(U) /\ IsFiniteSet(V) /\ IsFiniteSet(U \cap S) /\ IsFiniteSet(V \cap S)
      <4>1. V \in SUBSET R /\ U \cap S \in SUBSET R /\ V \cap S \in SUBSET R
        OBVIOUS
      <4> QED
        BY <4>1, FS_Subset
    <3>3. Sum(f, V \cap S) \in Nat /\ Sum(g, V) \in Nat
      BY <3>2, SumType
    <3>4. Sum(g, U) = g[x] + Sum(g, V) /\ g[x] \in Nat
      BY <3>2, SumWithout
    <3>5. CASE x \in S
      <4>1. Sum(f, U \cap S) = f[x] + Sum(f, (U \cap S) \ {x})
        BY <3>2, <3>5, SumWithout
      <4>2. (U \cap S) \ {x} = V \cap S
        OBVIOUS
      <4>3. f[x] \in Nat /\ f[x] <= g[x]
        BY <3>5
      <4> HIDE DEF V
      <4>4. f[x] + Sum(f, V \cap S) <= g[x] + Sum(g, V)
        BY <3>1, <3>3, <3>4, <4>3
      <4> QED
        BY <3>4, <4>1, <4>2, <4>4
    <3>6. CASE x \notin S
      <4>1. U \cap S = V \cap S
        BY <3>6
      <4> HIDE DEF V
      <4>2. Sum(f, V \cap S) <= g[x] + Sum(g, V)
        BY <3>1, <3>3, <3>4
      <4> QED
        BY <3>4, <4>1, <4>2
    <3> QED
      BY <3>5, <3>6
  <2> QED
    BY <2>1, <2>2
<1>2. \A U \in SUBSET R : (\A V \in SUBSET U : V # U => V \in G) => U \in G
  BY <1>1
<1>3. R \cap S = S
  OBVIOUS
<1> HIDE DEF G
<1>4. R \in G
  BY <1>2, SubsetInduction
<1> QED
  BY <1>3, <1>4 DEF G

(***************************************************************************)
(* The index, as a sequence                                                *)
(***************************************************************************)
LEMMA WithoutProperties ==
  ASSUME NEW s \in Seq(Key), Distinct(s), NEW k
  PROVE  /\ Without(s, k) \in Seq(Key) /\ Distinct(Without(s, k))
         /\ KeysOf(Without(s, k)) = KeysOf(s) \ {k}
<1>1. CASE ~ \E i \in DOMAIN s : s[i] = k
  BY <1>1 DEF Without, KeysOf
<1>2. CASE \E i \in DOMAIN s : s[i] = k
  <2>1. PICK i \in DOMAIN s :
          /\ s[i] = k
          /\ Without(s, k) = [j \in 1..(Len(s) - 1) |-> IF j < i THEN s[j] ELSE s[j + 1]]
    BY <1>2 DEF Without
  <2> DEFINE t == Without(s, k)
  <2>2. i \in 1..Len(s) /\ Len(s) \in Nat /\ Len(s) - 1 \in Nat
    BY LenProperties
  <2>3. t \in [1..(Len(s) - 1) -> Key]
    BY <2>1, <2>2, ElementOfSeq
  <2>4. /\ t \in Seq(Key) /\ DOMAIN t = 1..(Len(s) - 1) /\ DOMAIN s = 1..Len(s)
        /\ \A j \in 1..(Len(s) - 1) : t[j] = IF j < i THEN s[j] ELSE s[j + 1]
    BY <2>1, <2>2, <2>3, IsASeq, LenProperties
  <2> HIDE DEF t
  <2>5. Distinct(t)
    <3> SUFFICES ASSUME NEW a \in 1..(Len(s) - 1), NEW b \in 1..(Len(s) - 1),
                        t[a] = t[b]
                 PROVE  a = b
      BY <2>4 DEF Distinct
    <3> DEFINE at(j) == IF j < i THEN j ELSE j + 1
    <3>1. /\ at(a) \in DOMAIN s /\ at(b) \in DOMAIN s
          /\ t[a] = s[at(a)] /\ t[b] = s[at(b)]
      BY <2>2, <2>4
    <3>2. at(a) = at(b)
      BY <3>1 DEF Distinct
    <3> QED
      BY <2>2, <3>2
  <2>6. ASSUME NEW x \in KeysOf(t) PROVE x \in KeysOf(s) \ {k}
    <3>1. PICK m \in 1..(Len(s) - 1) : x = t[m]
      BY <2>4 DEF KeysOf
    <3>2. PICK j \in DOMAIN s : x = s[j] /\ j # i
      BY <2>2, <2>4, <3>1
    <3> QED
      BY <2>1, <3>2 DEF Distinct, KeysOf
  <2>7. ASSUME NEW x \in KeysOf(s) \ {k} PROVE x \in KeysOf(t)
    <3>1. PICK m \in 1..Len(s) : x = s[m]
      BY <2>4 DEF KeysOf
    <3>2. m # i
      BY <2>1, <3>1
    <3>3. CASE m < i
      <4>1. m \in 1..(Len(s) - 1) /\ t[m] = x
        BY <2>2, <2>4, <3>1, <3>3
      <4> QED
        BY <2>4, <4>1 DEF KeysOf
    <3>4. CASE m > i
      <4>1. m - 1 \in 1..(Len(s) - 1) /\ t[m - 1] = x
        BY <2>2, <2>4, <3>1, <3>4
      <4> QED
        BY <2>4, <4>1 DEF KeysOf
    <3> QED
      BY <2>2, <3>1, <3>2, <3>3, <3>4
  <2> QED
    BY <2>4, <2>5, <2>6, <2>7 DEF t
<1> QED
  BY <1>1, <1>2

LEMMA AppendedProperties ==
  ASSUME NEW s \in Seq(Key), Distinct(s), NEW k \in Key, k \notin KeysOf(s)
  PROVE  /\ Append(s, k) \in Seq(Key) /\ Distinct(Append(s, k))
         /\ KeysOf(Append(s, k)) = KeysOf(s) \union {k}
<1>1. /\ Append(s, k) \in Seq(Key) /\ Len(Append(s, k)) = Len(s) + 1
      /\ \A i \in 1..Len(s) : Append(s, k)[i] = s[i]
      /\ Append(s, k)[Len(s) + 1] = k
  BY AppendProperties
<1>2. /\ Len(s) \in Nat /\ DOMAIN s = 1..Len(s)
      /\ DOMAIN Append(s, k) = 1..(Len(s) + 1)
  BY <1>1, LenProperties
<1> QED
  BY <1>1, <1>2 DEF Distinct, KeysOf

\* No key of the first n entries is among the others.
LEMMA RestProperties ==
  ASSUME NEW s \in Seq(Key), Distinct(s), NEW n \in 0..Len(s)
  PROVE  /\ Rest(s, n) \in Seq(Key) /\ Distinct(Rest(s, n))
         /\ KeysOf(Rest(s, n)) = KeysOf(s) \ {s[i] : i \in 1..n}
<1> DEFINE t == Rest(s, n)
<1>1. Len(s) \in Nat /\ n \in Nat
  BY LenProperties
<1>2. /\ t \in Seq(Key) /\ Len(t) = Len(s) - n
      /\ \A i \in 1..Len(t) : t[i] = s[i + n]
  BY <1>1 DEF Rest
<1> HIDE DEF t
<1>3. DOMAIN t = 1..(Len(s) - n) /\ DOMAIN s = 1..Len(s)
  BY <1>2, LenProperties
<1>4. Distinct(t)
  <2> SUFFICES ASSUME NEW a \in DOMAIN t, NEW b \in DOMAIN t, t[a] = t[b]
               PROVE  a = b
    BY DEF Distinct
  <2>1. a + n \in DOMAIN s /\ b + n \in DOMAIN s /\ s[a + n] = s[b + n]
    BY <1>1, <1>2, <1>3
  <2>2. a + n = b + n
    BY <2>1 DEF Distinct
  <2> QED
    BY <1>1, <1>3, <2>2
<1>5. ASSUME NEW x \in KeysOf(t) PROVE x \in KeysOf(s) \ {s[i] : i \in 1..n}
  <2>1. PICK m \in DOMAIN t : x = t[m]
    BY DEF KeysOf
  <2>2. m + n \in DOMAIN s /\ x = s[m + n] /\ m + n > n
    BY <1>1, <1>2, <1>3, <2>1
  <2>3. \A i \in 1..n : s[i] # x
    <3> SUFFICES ASSUME NEW i \in 1..n, s[i] = x PROVE FALSE
      OBVIOUS
    <3>1. i \in DOMAIN s /\ i # m + n
      BY <1>1, <1>3, <2>2
    <3> QED
      BY <2>2, <3>1 DEF Distinct
  <2> QED
    BY <2>2, <2>3 DEF KeysOf
<1>6. ASSUME NEW x \in KeysOf(s) \ {s[i] : i \in 1..n} PROVE x \in KeysOf(t)
  <2>1. PICK m \in 1..Len(s) : x = s[m] /\ m > n
    BY <1>1, <1>3 DEF KeysOf
  <2>2. m - n \in 1..Len(t) /\ t[m - n] = x
    BY <1>1, <1>2, <2>1
  <2> QED
    BY <1>2, <1>3, <2>2 DEF KeysOf
<1> QED
  BY <1>2, <1>4, <1>5, <1>6 DEF t

(***************************************************************************)
(* Type correctness                                                        *)
(***************************************************************************)
LEMMA TypeInit == Init => TypeOK
  BY DEF Init, TypeOK, Distinct

\* The sequence that put makes before it evicts.
LEMMA PutOrder ==
  ASSUME TypeOK, NEW k \in Key
  PROVE  LET s == Append(Without(order, k), k)
         IN s \in Seq(Key) /\ Distinct(s) /\ KeysOf(s) = Indexed \union {k}
<1> DEFINE w == Without(order, k)
<1>1. w \in Seq(Key) /\ Distinct(w) /\ KeysOf(w) = Indexed \ {k}
  BY WithoutProperties DEF TypeOK, Indexed
<1> HIDE DEF w
<1>2. /\ Append(w, k) \in Seq(Key) /\ Distinct(Append(w, k))
      /\ KeysOf(Append(w, k)) = KeysOf(w) \union {k}
  BY <1>1, AppendedProperties
<1>3. KeysOf(w) \union {k} = Indexed \union {k}
  BY <1>1
<1> QED
  BY <1>2, <1>3 DEF w

\* What a put does, without how it chooses what it evicts.
LEMMA PutEffect ==
  ASSUME TypeOK, NEW k \in Key, NEW d \in Data, Put(k, d)
  PROVE  \E gone \in SUBSET Key :
           /\ order' \in Seq(Key) /\ Distinct(order')
           /\ Indexed' = (Indexed \union {k}) \ gone
           /\ size' = [size EXCEPT ![k] = Size[d]]
           /\ file' = [j \in Key |-> IF j \in gone THEN Nothing
                                     ELSE IF j = k THEN d ELSE file[j]]
           /\ leftover' = leftover \ {k}
<1> DEFINE s == Append(Without(order, k), k)
           z == [size EXCEPT ![k] = Size[d]]
           f == [file EXCEPT ![k] = d]
<1>1. s \in Seq(Key) /\ Distinct(s) /\ KeysOf(s) = Indexed \union {k}
  BY PutOrder
<1>2. PICK n \in 0..Len(s) : Drop(s, z, f, n) /\ leftover' = leftover \ {k}
  BY DEF Put
<1>3. \A j \in Key : f[j] = IF j = k THEN d ELSE file[j]
  BY DEF TypeOK
<1> DEFINE gone == {s[i] : i \in 1..n}
<1> HIDE DEF s, z, f
<1>4. /\ order' = Rest(s, n) /\ size' = z
      /\ file' = [j \in Key |-> IF j \in gone THEN Nothing ELSE f[j]]
  BY <1>2 DEF Drop
<1>5. order' \in Seq(Key) /\ Distinct(order') /\ KeysOf(order') = KeysOf(s) \ gone
  BY <1>1, <1>4, RestProperties
<1>6. gone \in SUBSET Key
  BY <1>1, ElementOfSeq, LenProperties
<1>7. file' = [j \in Key |-> IF j \in gone THEN Nothing
                             ELSE IF j = k THEN d ELSE file[j]]
  BY <1>3, <1>4
<1> HIDE DEF gone
<1> QED
  BY <1>1, <1>2, <1>4, <1>5, <1>6, <1>7 DEF Indexed, z

LEMMA TypeNext == TypeOK /\ [Next]_vars => TypeOK'
<1> SUFFICES ASSUME TypeOK, [Next]_vars PROVE TypeOK'
  OBVIOUS
<1>1. ASSUME NEW k \in Key, NEW d \in Data, Put(k, d) PROVE TypeOK'
  <2>1. PICK gone \in SUBSET Key :
           /\ order' \in Seq(Key) /\ Distinct(order')
           /\ size' = [size EXCEPT ![k] = Size[d]]
           /\ file' = [j \in Key |-> IF j \in gone THEN Nothing
                                     ELSE IF j = k THEN d ELSE file[j]]
           /\ leftover' = leftover \ {k}
    BY <1>1, PutEffect
  <2>2. size' \in [Key -> Nat]
    BY <2>1, CacheAssumption DEF TypeOK
  <2>3. file' \in [Key -> Data \union {Cut, Nothing}]
    BY <2>1 DEF TypeOK
  <2> QED
    BY <2>1, <2>2, <2>3 DEF TypeOK
<1>2. ASSUME NEW k \in Key, PutFails(k) \/ FileGoes(k) PROVE TypeOK'
  BY <1>2 DEF PutFails, FileGoes, TypeOK
<1>3. CASE Restart
  BY <1>3 DEF Restart, TypeOK, Distinct
<1>4. CASE UNCHANGED vars
  BY <1>4 DEF vars, TypeOK
<1> QED
  BY <1>1, <1>2, <1>3, <1>4 DEF Next

\* Type correctness; with it, a key has one entry in the index at any time.
THEOREM TypeCorrect == Spec => []TypeOK
  BY TypeInit, TypeNext, PTL DEF Spec

(***************************************************************************)
(* The cache is a lossy map                                                *)
(***************************************************************************)
Answers == [k \in Key |-> Get(k)]

LEMMA PutMaps ==
  ASSUME TypeOK, NEW k \in Key, NEW d \in Data, Put(k, d)
  PROVE  Map!Put(k, d)
<1>1. PICK gone \in SUBSET Key :
        /\ Indexed' = (Indexed \union {k}) \ gone
        /\ file' = [j \in Key |-> IF j \in gone THEN Nothing
                                  ELSE IF j = k THEN d ELSE file[j]]
  BY PutEffect
<1> DEFINE L == Key \ Indexed'
<1>2. ASSUME NEW j \in Key
      PROVE  Get(j)' = IF j \in L THEN Nothing ELSE IF j = k THEN d ELSE Get(j)
  BY <1>1 DEF Get
<1>3. Answers' = [j \in Key |-> IF j \in L THEN Nothing
                                ELSE [Answers EXCEPT ![k] = d][j]]
  BY <1>2 DEF Answers
<1> QED
  BY <1>3 DEF Map!Put, Map!Without, Answers

LEMMA PutFailsMaps ==
  ASSUME TypeOK, NEW k \in Key, PutFails(k)
  PROVE  Map!PutFails(k) \/ UNCHANGED Answers
<1>1. /\ \A j \in Key : file'[j] = IF j = k THEN Cut ELSE file[j]
      /\ Indexed' = Indexed
  BY DEF PutFails, TypeOK, Indexed
<1>2. CASE k \in Indexed
  <2>1. \A j \in Key : Get(j)' = IF j = k THEN Cut ELSE Get(j)
    BY <1>1, <1>2 DEF Get
  <2>2. Answers' = [Answers EXCEPT ![k] = Cut]
    BY <2>1 DEF Answers
  <2> QED
    BY <2>2 DEF Map!PutFails, Answers
<1>3. CASE k \notin Indexed
  <2>1. \A j \in Key : Get(j)' = Get(j)
    BY <1>1, <1>3 DEF Get
  <2> QED
    BY <2>1 DEF Answers
<1> QED
  BY <1>2, <1>3

LEMMA FileGoesMaps ==
  ASSUME TypeOK, NEW k \in Key, FileGoes(k)
  PROVE  Map!Lose
<1>1. /\ \A j \in Key : file'[j] = IF j = k THEN Nothing ELSE file[j]
      /\ Indexed' = Indexed
  BY DEF FileGoes, TypeOK, Indexed
<1>2. \A j \in Key : Get(j)' = IF j \in {k} THEN Nothing ELSE Get(j)
  BY <1>1 DEF Get
<1>3. Answers' = Map!Without(Answers, {k})
  BY <1>2 DEF Answers, Map!Without
<1> QED
  BY <1>3 DEF Map!Lose, Answers

LEMMA RestartMaps ==
  ASSUME Restart
  PROVE  Map!Lose
<1>1. Indexed' = {}
  BY DEF Restart, Indexed, KeysOf
<1>2. \A j \in Key : Get(j)' = Nothing
  BY <1>1 DEF Get
<1>3. Answers' = Map!Without(Answers, Key)
  BY <1>2 DEF Answers, Map!Without
<1> QED
  BY <1>3 DEF Map!Lose, Answers

\* The cache implements the lossy map: no request is answered with anything but
\* what the last put of its url has written.
THEOREM CacheIsLossyMap == Spec => NeverStale
<1>1. Init => Map!Init
  BY DEF Init, Map!Init, Get, Indexed, KeysOf
<1>2. TypeOK /\ [Next]_vars => [Map!Next]_[k \in Key |-> Get(k)]
  <2> SUFFICES ASSUME TypeOK, [Next]_vars
               PROVE  Map!Next \/ UNCHANGED Answers
    BY DEF Answers
  <2>1. CASE UNCHANGED vars
    BY <2>1 DEF vars, Answers, Get, Indexed
  <2>2. CASE Next
    BY <2>2, PutMaps, PutFailsMaps, FileGoesMaps, RestartMaps DEF Next, Map!Next
  <2> QED
    BY <2>1, <2>2
<1> QED
  BY <1>1, <1>2, TypeCorrect, PTL DEF Spec, NeverStale, Map!Spec

(***************************************************************************)
(* The limit                                                               *)
(***************************************************************************)
LEMMA KeysAreFinite ==
  ASSUME NEW s \in Seq(Key)
  PROVE  IsFiniteSet(KeysOf(s)) /\ KeysOf(s) \subseteq Key
<1>1. Len(s) \in Nat /\ DOMAIN s = 1..Len(s) /\ s \in [1..Len(s) -> Key]
  BY LenProperties
<1>2. IsFiniteSet(1..Len(s))
  BY <1>1, FS_Interval
<1>3. s \in Surjection(1..Len(s), KeysOf(s))
  BY <1>1 DEF Surjection, KeysOf
<1>4. IsFiniteSet(KeysOf(s))
  BY <1>2, <1>3, FS_Surjection
<1> QED
  BY <1>1, <1>4 DEF KeysOf

LEMMA TotalType ==
  ASSUME NEW s \in Seq(Key), NEW z \in [Key -> Nat]
  PROVE  Total(s, z) \in Nat
<1>1. IsFiniteSet(KeysOf(s)) /\ \A k \in KeysOf(s) : z[k] \in Nat
  BY KeysAreFinite
<1> QED
  BY <1>1, SumType DEF Total, Sum

\* Eviction leaves no more than the limit.
LEMMA EvictionFits ==
  ASSUME NEW s \in Seq(Key), Distinct(s), NEW z \in [Key -> Nat],
         NEW n \in 0..Len(s), Evicted(s, z, n)
  PROVE  Total(Rest(s, n), z) <= MaxBytes
<1>1. /\ Rest(s, n) \in Seq(Key)
      /\ KeysOf(Rest(s, n)) = KeysOf(s) \ {s[i] : i \in 1..n}
  BY RestProperties
<1>2. Total(Rest(s, n), z) \in Nat /\ MaxBytes \in Nat
  BY <1>1, TotalType, CacheAssumption
<1>3. CASE Total(s, z) <= MaxBytes
  <2>1. n = 0
    BY <1>3 DEF Evicted
  <2>2. KeysOf(Rest(s, n)) = KeysOf(s)
    BY <1>1, <2>1
  <2> QED
    BY <1>3, <2>2 DEF Total
<1>4. CASE n = Len(s)
  <2>1. KeysOf(Rest(s, n)) = {}
    BY <1>1, <1>4, LenProperties DEF KeysOf
  <2>2. Total(Rest(s, n), z) = 0
    BY <2>1, SumEmpty DEF Total, Sum
  <2> QED
    BY <1>2, <2>2
<1>5. CASE 5 * Total(Rest(s, n), z) <= 4 * MaxBytes
  BY <1>2, <1>5
<1> QED
  BY <1>3, <1>4, <1>5 DEF Evicted

LEMMA PutFits ==
  ASSUME TypeOK, NEW k \in Key, NEW d \in Data, Put(k, d)
  PROVE  IndexWithinLimit'
<1> DEFINE s == Append(Without(order, k), k)
           z == [size EXCEPT ![k] = Size[d]]
           f == [file EXCEPT ![k] = d]
<1>1. s \in Seq(Key) /\ Distinct(s) /\ z \in [Key -> Nat]
  BY PutOrder, CacheAssumption DEF TypeOK
<1>2. PICK n \in 0..Len(s) : Evicted(s, z, n) /\ Drop(s, z, f, n)
  BY DEF Put
<1> HIDE DEF s, z, f
<1>3. order' = Rest(s, n) /\ size' = z
  BY <1>2 DEF Drop
<1>4. Total(Rest(s, n), z) <= MaxBytes
  BY <1>1, <1>2, EvictionFits
<1> QED
  BY <1>3, <1>4 DEF IndexWithinLimit, Total

LEMMA LimitInit == Init => IndexWithinLimit
<1> SUFFICES ASSUME Init PROVE IndexWithinLimit
  OBVIOUS
<1>1. KeysOf(order) = {}
  BY DEF Init, KeysOf
<1> QED
  BY <1>1, SumEmpty, CacheAssumption DEF IndexWithinLimit, Total, Sum

LEMMA LimitNext == TypeOK /\ IndexWithinLimit /\ [Next]_vars => IndexWithinLimit'
<1> SUFFICES ASSUME TypeOK, IndexWithinLimit, [Next]_vars
             PROVE  IndexWithinLimit'
  OBVIOUS
<1>1. ASSUME NEW k \in Key, NEW d \in Data, Put(k, d) PROVE IndexWithinLimit'
  BY <1>1, PutFits
<1>2. ASSUME NEW k \in Key, PutFails(k) \/ FileGoes(k) PROVE IndexWithinLimit'
  BY <1>2 DEF PutFails, FileGoes, IndexWithinLimit, Total
<1>3. CASE Restart
  <2>1. KeysOf(order') = {}
    BY <1>3 DEF Restart, KeysOf
  <2>2. Total(order', size') = 0
    BY <2>1, SumEmpty DEF Total, Sum
  <2> QED
    BY <2>2, CacheAssumption DEF IndexWithinLimit, Total
<1>4. CASE UNCHANGED vars
  BY <1>4 DEF vars, IndexWithinLimit, Total
<1> QED
  BY <1>1, <1>2, <1>3, <1>4 DEF Next

\* After each call the entries of the index are within the limit.
THEOREM IndexFits == Spec => []IndexWithinLimit
  BY LimitInit, LimitNext, TypeCorrect, PTL DEF Spec

\* A file that a put of this process has completed has an entry, which has its
\* size.
Accounted ==
  \A k \in Key \ leftover : file[k] \in Data => k \in Indexed /\ size[k] = Size[file[k]]

LEMMA AccountedNext == TypeOK /\ Accounted /\ [Next]_vars => Accounted'
<1> SUFFICES ASSUME TypeOK, Accounted, [Next]_vars PROVE Accounted'
  OBVIOUS
<1> USE CacheAssumption
<1>1. ASSUME NEW k \in Key, NEW d \in Data, Put(k, d) PROVE Accounted'
  <2>1. PICK gone \in SUBSET Key :
           /\ Indexed' = (Indexed \union {k}) \ gone
           /\ size' = [size EXCEPT ![k] = Size[d]]
           /\ file' = [j \in Key |-> IF j \in gone THEN Nothing
                                     ELSE IF j = k THEN d ELSE file[j]]
           /\ leftover' = leftover \ {k}
    BY <1>1, PutEffect
  <2> SUFFICES ASSUME NEW j \in Key \ leftover', file'[j] \in Data
               PROVE  j \in Indexed' /\ size'[j] = Size[file'[j]]
    BY DEF Accounted, Indexed
  <2>2. j \notin gone
    BY <2>1
  <2>3. CASE j = k
    BY <2>1, <2>2, <2>3 DEF TypeOK
  <2>4. CASE j # k
    BY <2>1, <2>2, <2>4 DEF TypeOK, Accounted
  <2> QED
    BY <2>3, <2>4
<1>2. ASSUME NEW k \in Key, PutFails(k) PROVE Accounted'
  BY <1>2 DEF PutFails, TypeOK, Accounted, Indexed
<1>3. ASSUME NEW k \in Key, FileGoes(k) PROVE Accounted'
  BY <1>3 DEF FileGoes, TypeOK, Accounted, Indexed
<1>4. CASE Restart
  BY <1>4 DEF Restart, Accounted
<1>5. CASE UNCHANGED vars
  BY <1>5 DEF vars, Accounted, Indexed
<1> QED
  BY <1>1, <1>2, <1>3, <1>4, <1>5 DEF Next

LEMMA DiskFits ==
  ASSUME TypeOK, IndexWithinLimit, Accounted
  PROVE  DiskWithinLimit
<1> DEFINE stored == {k \in Key \ leftover : file[k] \in Data}
           bytes == [k \in stored |-> Size[file[k]]]
<1>1. stored \subseteq Indexed /\ \A k \in stored : bytes[k] = size[k]
  BY DEF Accounted
<1>2. IsFiniteSet(Indexed) /\ \A k \in Indexed : size[k] \in Nat
  BY KeysAreFinite DEF TypeOK, Indexed
<1>3. SumFunction(bytes) = Sum(bytes, stored)
  BY DEF SumFunction, Sum
<1> HIDE DEF stored, bytes
<1>4. Sum(bytes, stored) <= Total(order, size)
  <2>1. \A k \in stored : bytes[k] \in Nat /\ bytes[k] <= size[k]
    BY <1>1, <1>2
  <2> QED
    BY <1>1, <1>2, <2>1, SumMonotone DEF Total, Sum, Indexed
<1>5. Total(order, size) \in Nat /\ Sum(bytes, stored) \in Nat
  <2>1. IsFiniteSet(stored) /\ \A k \in stored : bytes[k] \in Nat
    BY <1>1, <1>2, FS_Subset
  <2> QED
    BY <2>1, SumType, TotalType DEF TypeOK
<1>6. SumFunction(bytes) <= MaxBytes
  BY <1>3, <1>4, <1>5, CacheAssumption DEF IndexWithinLimit
<1> QED
  BY <1>6 DEF DiskWithinLimit, stored, bytes

\* ... and so are the files, but for those that a restart has made the index
\* forget and those of writes that failed.
THEOREM DiskStaysWithin == Spec => []DiskWithinLimit
<1>1. Init => Accounted
  BY CacheAssumption DEF Init, Accounted
<1> QED
  BY <1>1, AccountedNext, DiskFits, IndexFits, TypeCorrect, PTL DEF Spec

(***************************************************************************)
(* A put is not in vain                                                    *)
(***************************************************************************)
\* What is left when all but the last entry are gone.
LEMMA LastAlone ==
  ASSUME NEW s \in Seq(Key), NEW k \in Key, Distinct(Append(s, k)),
         NEW z \in [Key -> Nat]
  PROVE  Total(Rest(Append(s, k), Len(s)), z) = z[k]
<1> DEFINE t == Append(s, k)
<1>1. /\ t \in Seq(Key) /\ Len(t) = Len(s) + 1 /\ Len(s) \in Nat
      /\ t[Len(s) + 1] = k
  BY AppendProperties, LenProperties
<1> HIDE DEF t
<1>2. KeysOf(Rest(t, Len(s))) = {k}
  <2>1. /\ Rest(t, Len(s)) \in Seq(Key) /\ Len(Rest(t, Len(s))) = 1
        /\ Rest(t, Len(s))[1] = k
    BY <1>1 DEF Rest
  <2> QED
    BY <2>1, LenProperties DEF KeysOf
<1>3. Sum(z, {k}) = z[k] + Sum(z, {k} \ {k})
  <2>1. IsFiniteSet({k}) /\ k \in {k} /\ \A x \in {k} : z[x] \in Nat
    BY FS_Singleton
  <2> HIDE DEF t
  <2> QED
    BY <2>1, SumWithout
<1>4. Sum(z, {k} \ {k}) = 0 /\ z[k] \in Nat
  <2>1. {k} \ {k} = {}
    OBVIOUS
  <2> QED
    BY <2>1, SumEmpty
<1> QED
  BY <1>2, <1>3, <1>4 DEF Total, Sum, t

\* An entry of at most 80 percent of the limit is not evicted by its own put.
LEMMA NewestStays ==
  ASSUME NEW s \in Seq(Key), NEW k \in Key, Distinct(Append(s, k)),
         NEW z \in [Key -> Nat], 5 * z[k] <= 4 * MaxBytes,
         NEW n \in 0..Len(Append(s, k)), Evicted(Append(s, k), z, n)
  PROVE  k \notin {Append(s, k)[i] : i \in 1..n}
<1> DEFINE t == Append(s, k)
<1>1. /\ t \in Seq(Key) /\ Len(t) = Len(s) + 1 /\ Len(s) \in Nat
      /\ t[Len(s) + 1] = k
  BY AppendProperties, LenProperties
<1>2. Total(Rest(t, Len(s)), z) = z[k]
  BY LastAlone
<1>3. z[k] \in Nat /\ MaxBytes \in Nat
  BY CacheAssumption
<1> HIDE DEF t
<1>4. n # Len(t)
  <2> SUFFICES ASSUME n = Len(t) PROVE FALSE
    OBVIOUS
  <2>1. ~ Total(t, z) <= MaxBytes /\ Len(s) \in 0..(n - 1)
    BY <1>1 DEF Evicted, t
  <2>2. 5 * Total(Rest(t, Len(s)), z) > 4 * MaxBytes
    BY <2>1 DEF Evicted, t
  <2> QED
    BY <1>2, <1>3, <2>2
<1>5. ASSUME NEW i \in 1..n, t[i] = k PROVE FALSE
  <2>1. i \in DOMAIN t /\ Len(s) + 1 \in DOMAIN t /\ i # Len(s) + 1
    BY <1>1, <1>4, LenProperties DEF t
  <2> QED
    BY <1>1, <1>5, <2>1 DEF Distinct, t
<1> QED
  BY <1>5 DEF t

\* What has just been put is served, if it is at most 80 percent of the limit.
THEOREM PutIsServed == Spec => FreshIsServed
<1>1. ASSUME TypeOK, NEW k \in Key, NEW d \in Data,
             Put(k, d), 5 * Size[d] <= 4 * MaxBytes
      PROVE  Get(k)' = d
  <2> DEFINE w == Without(order, k)
             s == Append(w, k)
             z == [size EXCEPT ![k] = Size[d]]
             f == [file EXCEPT ![k] = d]
  <2>1. w \in Seq(Key) /\ s \in Seq(Key) /\ Distinct(s) /\ KeysOf(s) = Indexed \union {k}
    BY <1>1, PutOrder, WithoutProperties DEF TypeOK
  <2>2. z \in [Key -> Nat] /\ z[k] = Size[d] /\ f[k] = d
    BY <1>1, CacheAssumption DEF TypeOK
  <2>3. PICK n \in 0..Len(s) : Evicted(s, z, n) /\ Drop(s, z, f, n)
    BY <1>1 DEF Put
  <2> HIDE DEF w, z, f
  <2>4. k \notin {s[i] : i \in 1..n}
    BY <1>1, <2>1, <2>2, <2>3, NewestStays
  <2> HIDE DEF s
  <2>5. order' = Rest(s, n) /\ file'[k] = d
    BY <1>1, <2>2, <2>3, <2>4 DEF Drop
  <2>6. k \in KeysOf(order')
    BY <2>1, <2>4, <2>5, RestProperties
  <2> QED
    BY <2>5, <2>6 DEF Get, Indexed
<1>2. TypeOK /\ [Next]_vars =>
        [\A k \in Key : \A d \in Data :
           Put(k, d) /\ 5 * Size[d] <= 4 * MaxBytes => Get(k)' = d]_vars
  BY <1>1
<1> QED
  BY <1>2, TypeCorrect, PTL DEF Spec, FreshIsServed

=============================================================================
