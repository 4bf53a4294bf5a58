----------------------------- MODULE Induction ------------------------------
(***************************************************************************)
(* Facts that the proofs of several components need about numbers, finite  *)
(* sets and recursive functions.  They are stated about sets and functions *)
(* instead of predicates and operators, so that the provers can use them:  *)
(* to prove P(n) for every n, take S to be {n \in Nat : P(n)}.             *)
(***************************************************************************)
EXTENDS Integers, FiniteSetsExt, FiniteSetTheorems, WellFoundedInduction, TLAPS

(* Some numbers have a least one among them.                               *)
LEMMA LeastNumber ==
  ASSUME NEW T \in SUBSET Nat, T # {}
  PROVE  \E x \in T : \A y \in T : x <= y
<1> DEFINE R == OpToRel(<, Nat)
<1>1. IsWellFoundedOn(R, Nat)
  BY NatLessThanWellFounded
<1>2. \A x, y \in Nat : <<y, x>> \in R <=> y < x
  BY DEF OpToRel
<1> HIDE DEF R
<1>3. PICK x \in T : \A y \in T : ~ (<<y, x>> \in R)
  BY <1>1, WFMin
<1>4. \A y \in T : ~ (y < x)
  BY <1>2, <1>3
<1> QED BY <1>4

(* A set with 0 and the successors of its numbers has every number.        *)
LEMMA Successors ==
  ASSUME NEW S, 0 \in S, \A n \in Nat : n \in S => n + 1 \in S
  PROVE  Nat \subseteq S
<1> DEFINE T == Nat \ S
<1> SUFFICES ASSUME T # {} PROVE FALSE
  OBVIOUS
<1>1. PICK x \in T : \A y \in T : x <= y
  BY LeastNumber
<1>2. x # 0 /\ x - 1 \in Nat /\ x - 1 \notin T
  BY <1>1
<1> QED BY <1>2

(* A set of finite sets with the empty one, and with every finite set that *)
(* is one element larger than a member, has every finite set.              *)
LEMMA FiniteSubsets ==
  ASSUME NEW A, NEW S, {} \in S,
         \A B \in SUBSET A, x \in A : IsFiniteSet(B) /\ B \in S /\ x \notin B => B \cup {x} \in S
  PROVE  \A B \in SUBSET A : IsFiniteSet(B) => B \in S
<1> DEFINE N == {n \in Nat : \A B \in SUBSET A : IsFiniteSet(B) /\ Cardinality(B) = n => B \in S}
<1>1. 0 \in N
  BY FS_EmptySet
<1>2. ASSUME NEW n \in N PROVE n + 1 \in N
  <2> SUFFICES ASSUME NEW B \in SUBSET A, IsFiniteSet(B), Cardinality(B) = n + 1
               PROVE  B \in S
    OBVIOUS
  <2>1. PICK x : x \in B
    BY FS_EmptySet
  <2>2. IsFiniteSet(B \ {x}) /\ Cardinality(B \ {x}) = n
    <3>1. Cardinality(B \ {x}) = IF x \in B THEN Cardinality(B) - 1 ELSE Cardinality(B)
      BY FS_RemoveElement, Zenon
    <3> QED BY <2>1, <3>1, FS_RemoveElement
  <2>3. B \ {x} \in S
    BY <2>2
  <2>4. B = (B \ {x}) \cup {x}
    BY <2>1
  <2> QED BY <2>1, <2>2, <2>3, <2>4
<1>3. Nat \subseteq N
  BY <1>1, <1>2, Successors
<1> QED BY <1>3, FS_CardinalityType

-----------------------------------------------------------------------------
(* The first k steps of a recursion.                                       *)
Begins(a, k, S, s0, g) ==
  /\ a \in [0 .. k -> S]
  /\ a[0] = s0
  /\ \A i \in 0 .. k - 1 : a[i + 1] = g[<<i, a[i]>>]

LEMMA BeginningsAgree ==
  ASSUME NEW S, NEW s0, NEW g, NEW k \in Nat, NEW l \in Nat, NEW a, NEW b,
         Begins(a, k, S, s0, g), Begins(b, l, S, s0, g), NEW j \in Nat, j <= k, j <= l
  PROVE  a[j] = b[j]
<1> DEFINE N == {i \in Nat : i <= k /\ i <= l => a[i] = b[i]}
<1>1. 0 \in N
  BY DEF Begins
<1>2. ASSUME NEW i \in N PROVE i + 1 \in N
  <2> SUFFICES ASSUME i + 1 <= k, i + 1 <= l PROVE a[i + 1] = b[i + 1]
    OBVIOUS
  <2>1. i \in 0 .. k - 1 /\ i \in 0 .. l - 1 /\ a[i] = b[i]
    OBVIOUS
  <2> QED BY <2>1 DEF Begins
<1>3. Nat \subseteq N
  BY <1>1, <1>2, Successors
<1> QED BY <1>3

LEMMA BeginningsGrow ==
  ASSUME NEW S, NEW s0 \in S, NEW g \in [Nat \X S -> S], NEW k \in Nat
  PROVE  \E a : Begins(a, k, S, s0, g)
<1> DEFINE N == {n \in Nat : \E a : Begins(a, n, S, s0, g)}
<1>1. 0 \in N
  <2>1. Begins([i \in 0 .. 0 |-> s0], 0, S, s0, g)
    BY DEF Begins
  <2> QED BY <2>1
<1>2. ASSUME NEW n \in N PROVE n + 1 \in N
  <2>1. PICK a : Begins(a, n, S, s0, g)
    OBVIOUS
  <2> DEFINE b == [i \in 0 .. n + 1 |-> IF i <= n THEN a[i] ELSE g[<<n, a[n]>>]]
  <2>2. a \in [0 .. n -> S] /\ n \in 0 .. n
    BY <2>1 DEF Begins
  <2>3. a[n] \in S
    BY <2>2
  <2>4. b \in [0 .. n + 1 -> S]
    BY <2>2, <2>3
  <2>5. b[0] = s0
    BY <2>1 DEF Begins
  <2>6. \A i \in 0 .. n : b[i + 1] = g[<<i, b[i]>>]
    <3> SUFFICES ASSUME NEW i \in 0 .. n PROVE b[i + 1] = g[<<i, b[i]>>]
      OBVIOUS
    <3>1. CASE i = n
      BY <3>1
    <3>2. CASE i \in 0 .. n - 1
      BY <2>1, <3>2 DEF Begins
    <3> QED BY <3>1, <3>2
  <2>7. (n + 1) - 1 = n
    OBVIOUS
  <2> HIDE DEF b
  <2> QED BY <2>4, <2>5, <2>6, <2>7 DEF Begins
<1>3. Nat \subseteq N
  BY <1>1, <1>2, Successors
<1> QED BY <1>3

(* There is a function that starts at s0 and goes on by g; the same for a  *)
(* step that does not look at how far it has come, in the form in which    *)
(* the models write recursive functions.                                   *)
Recursive(S, s0, g) ==
  \E f \in [Nat -> S] : f[0] = s0 /\ \A n \in Nat : f[n + 1] = g[<<n, f[n]>>]

Iterated(S, s0, g) ==
  \E f \in [Nat -> S] : f = [n \in Nat |-> IF n = 0 THEN s0 ELSE g[f[n - 1]]]

(* What starts in S and goes on within S goes on for ever.                 *)
LEMMA Recursion ==
  ASSUME NEW S, NEW s0 \in S, NEW g \in [Nat \X S -> S]
  PROVE  Recursive(S, s0, g)
<1> DEFINE a(k) == CHOOSE c : Begins(c, k, S, s0, g)
           f    == [n \in Nat |-> a(n)[n]]
<1>1. \A k \in Nat : Begins(a(k), k, S, s0, g)
  BY BeginningsGrow
<1> HIDE DEF a
<1>2. f \in [Nat -> S]
  <2> SUFFICES ASSUME NEW n \in Nat PROVE a(n)[n] \in S
    OBVIOUS
  <2>1. a(n) \in [0 .. n -> S] /\ n \in 0 .. n
    BY <1>1 DEF Begins
  <2> QED BY <2>1
<1>3. f[0] = s0
  BY <1>1 DEF Begins
<1>4. ASSUME NEW n \in Nat PROVE f[n + 1] = g[<<n, f[n]>>]
  <2>1. Begins(a(n), n, S, s0, g) /\ Begins(a(n + 1), n + 1, S, s0, g)
    BY <1>1
  <2>2. a(n + 1)[n + 1] = g[<<n, a(n + 1)[n]>>]
    BY <2>1 DEF Begins
  <2>3. a(n + 1)[n] = a(n)[n]
    BY <2>1, BeginningsAgree
  <2> QED BY <2>2, <2>3
<1> HIDE DEF f
<1> QED BY <1>2, <1>3, <1>4 DEF Recursive

LEMMA Iteration ==
  ASSUME NEW S, NEW s0 \in S, NEW g \in [S -> S]
  PROVE  Iterated(S, s0, g)
<1> DEFINE h == [p \in Nat \X S |-> g[p[2]]]
<1>1. h \in [Nat \X S -> S]
  OBVIOUS
<1>2. \A n \in Nat, x \in S : h[<<n, x>>] = g[x]
  OBVIOUS
<1> HIDE DEF h
<1>3. PICK f \in [Nat -> S] : f[0] = s0 /\ \A n \in Nat : f[n + 1] = h[<<n, f[n]>>]
  <2>1. Recursive(S, s0, h)
    BY <1>1, Recursion
  <2> QED BY <2>1 DEF Recursive
<1>4. ASSUME NEW n \in Nat, n # 0 PROVE f[n] = g[f[n - 1]]
  <2>1. n - 1 \in Nat /\ n = (n - 1) + 1
    BY <1>4
  <2>2. f[(n - 1) + 1] = h[<<n - 1, f[n - 1]>>]
    BY <1>3, <2>1
  <2> QED BY <1>2, <2>1, <2>2
<1>5. f = [n \in Nat |-> IF n = 0 THEN s0 ELSE g[f[n - 1]]]
  BY <1>3, <1>4
<1> QED BY <1>5 DEF Iterated

(* What such a definition defines stays in S.                              *)
LEMMA IterationStays ==
  ASSUME NEW S, NEW s0 \in S, NEW g \in [S -> S], NEW f,
         f = [n \in Nat |-> IF n = 0 THEN s0 ELSE g[f[n - 1]]]
  PROVE  f \in [Nat -> S] /\ f[0] = s0 /\ \A n \in Nat : f[n + 1] = g[f[n]]
<1> DEFINE N == {n \in Nat : f[n] \in S}
<1>1. f[0] = s0
  OBVIOUS
<1>2. ASSUME NEW n \in Nat PROVE f[n + 1] = g[f[n]]
  <2>1. n + 1 \in Nat /\ n + 1 # 0 /\ (n + 1) - 1 = n
    OBVIOUS
  <2> QED BY <2>1
<1>3. Nat \subseteq N
  <2>1. 0 \in N /\ \A n \in Nat : n \in N => n + 1 \in N
    BY <1>1, <1>2
  <2> HIDE DEF N
  <2> QED BY <2>1, Successors
<1>4. f = [n \in Nat |-> f[n]]
  OBVIOUS
<1> QED BY <1>1, <1>2, <1>3, <1>4

-----------------------------------------------------------------------------
(* The sum of a function, as the community modules define it: they take    *)
(* one element after another out of its domain.                            *)
Taken(s) == CHOOSE x \in s : TRUE

LEMMA TakeOne ==
  ASSUME NEW s, IsFiniteSet(s), NEW x \in s
  PROVE  Cardinality(s \ {x}) \in Nat /\ Cardinality(s) = Cardinality(s \ {x}) + 1
<1>1. Cardinality(s \ {x}) = IF x \in s THEN Cardinality(s) - 1 ELSE Cardinality(s)
  BY FS_RemoveElement, Zenon
<1>2. IsFiniteSet(s \ {x})
  BY FS_RemoveElement
<1> QED BY <1>1, <1>2, FS_CardinalityType

LEMMA TakenOut ==
  ASSUME NEW K, IsFiniteSet(K), NEW P, {} \in P,
         \A s \in SUBSET K : s # {} /\ s \ {Taken(s)} \in P => s \in P
  PROVE  SUBSET K \subseteq P
<1> DEFINE N == {n \in Nat : \A s \in SUBSET K : Cardinality(s) = n => s \in P}
<1>1. \A s \in SUBSET K : IsFiniteSet(s)
  BY FS_Subset
<1>2. 0 \in N
  BY <1>1, FS_EmptySet
<1>3. ASSUME NEW n \in N PROVE n + 1 \in N
  <2> SUFFICES ASSUME NEW s \in SUBSET K, Cardinality(s) = n + 1 PROVE s \in P
    OBVIOUS
  <2>1. s # {} /\ IsFiniteSet(s)
    BY <1>1, FS_EmptySet
  <2>2. Taken(s) \in s
    BY <2>1 DEF Taken
  <2>3. Cardinality(s \ {Taken(s)}) = n
    BY <2>1, <2>2, TakeOne
  <2> QED BY <2>1, <2>3
<1>4. Nat \subseteq N
  BY <1>2, <1>3, Successors
<1> QED BY <1>1, <1>4, FS_CardinalityType

(* The sums of f over the subsets of its domain, as a function.            *)
Sums(f, K, iter) ==
  iter = [s \in SUBSET K |-> IF s = {} THEN 0 ELSE f[Taken(s)] + iter[s \ {Taken(s)}]]

LEMMA SumsExist ==
  ASSUME NEW K, IsFiniteSet(K), NEW f \in [K -> Nat]
  PROVE  \E iter : Sums(f, K, iter)
<1> DEFINE G == [SUBSET K -> Nat]
           next == [a \in G |-> [s \in SUBSET K |->
                      IF s = {} THEN 0 ELSE f[Taken(s)] + a[s \ {Taken(s)}]]]
           zero == [s \in SUBSET K |-> 0]
<1>1. \A s \in SUBSET K : s # {} => Taken(s) \in s /\ Taken(s) \in K /\ s \ {Taken(s)} \in SUBSET K
  BY DEF Taken
<1>2. next \in [G -> G] /\ zero \in G
  BY <1>1
<1>3. \A a \in G, s \in SUBSET K :
         next[a][s] = IF s = {} THEN 0 ELSE f[Taken(s)] + a[s \ {Taken(s)}]
  OBVIOUS
<1> HIDE DEF next, zero, G
<1>4. PICK a \in [Nat -> G] : a = [n \in Nat |-> IF n = 0 THEN zero ELSE next[a[n - 1]]]
  <2>1. Iterated(G, zero, next)
    BY <1>2, Iteration
  <2> QED BY <2>1 DEF Iterated
<1>5. \A n \in Nat : a[n + 1] = next[a[n]]
  BY <1>2, <1>4, IterationStays
<1> DEFINE iter == [s \in SUBSET K |-> a[Cardinality(s)][s]]
<1>6. ASSUME NEW s \in SUBSET K
      PROVE  iter[s] = IF s = {} THEN 0 ELSE f[Taken(s)] + iter[s \ {Taken(s)}]
  <2>1. CASE s = {}
    <3>1. Cardinality({}) = 0
      BY FS_EmptySet
    <3>2. iter[{}] = zero[{}]
      BY <1>4, <3>1
    <3> QED BY <2>1, <3>2 DEF zero
  <2>2. CASE s # {}
    <3> DEFINE m == Cardinality(s \ {Taken(s)})
    <3>1. IsFiniteSet(s) /\ Taken(s) \in s
      BY <1>1, <2>2, FS_Subset
    <3>2. m \in Nat /\ Cardinality(s) = m + 1
      BY <3>1, TakeOne
    <3>3. iter[s] = a[m + 1][s] /\ iter[s \ {Taken(s)}] = a[m][s \ {Taken(s)}]
      BY <1>1, <2>2, <3>2
    <3> HIDE DEF m
    <3>4. a[m] \in G /\ a[m + 1] = next[a[m]]
      BY <1>4, <1>5, <3>2
    <3> QED BY <1>3, <2>2, <3>3, <3>4
  <2> QED BY <2>1, <2>2
<1>7. Sums(f, K, iter)
  BY <1>6 DEF Sums
<1> QED BY <1>7

(* The sum of a function is one of its sums.                               *)
LEMMA SumIsOfSums ==
  ASSUME NEW K, IsFiniteSet(K), NEW f \in [K -> Nat]
  PROVE  \E iter : Sums(f, K, iter) /\ SumFunction(f) = iter[K]
<1> DEFINE iter == CHOOSE i :
             i = [s \in SUBSET K |-> IF s = {} THEN 0 ELSE f[Taken(s)] + i[s \ {Taken(s)}]]
<1>1. Sums(f, K, iter)
  <2>1. PICK i : Sums(f, K, i)
    BY SumsExist
  <2>2. i = [s \in SUBSET K |-> IF s = {} THEN 0 ELSE f[Taken(s)] + i[s \ {Taken(s)}]]
    BY <2>1 DEF Sums
  <2>3. iter = [s \in SUBSET K |-> IF s = {} THEN 0 ELSE f[Taken(s)] + iter[s \ {Taken(s)}]]
    BY <2>2, Zenon
  <2> QED BY <2>3 DEF Sums
<1>2. DOMAIN f = K
  OBVIOUS
<1>3. SumFunction(f) = iter[K]
  BY <1>2 DEF SumFunction, SumFunctionOnSet, FoldFunctionOnSet, MapThenFoldSet, Taken
<1> QED BY <1>1, <1>3

(* What a sum is of: it is a number, nothing when every part is, and at    *)
(* least each of its parts.                                                *)
LEMMA SumType ==
  ASSUME NEW K, IsFiniteSet(K), NEW f \in [K -> Nat]
  PROVE  /\ SumFunction(f) \in Nat
         /\ (\A k \in K : f[k] = 0) => SumFunction(f) = 0
         /\ \A k \in K : f[k] <= SumFunction(f)
<1>1. PICK iter : Sums(f, K, iter) /\ SumFunction(f) = iter[K]
  BY SumIsOfSums
<1> DEFINE Fits(s) == /\ iter[s] \in Nat
                      /\ (\A k \in K : f[k] = 0) => iter[s] = 0
                      /\ \A k \in s : f[k] <= iter[s]
           P == {s \in SUBSET K : Fits(s)}
<1>2. iter[{}] = 0
  BY <1>1 DEF Sums
<1>3. ASSUME NEW s \in SUBSET K, s # {}, Fits(s \ {Taken(s)})
      PROVE  Fits(s)
  <2> DEFINE x == Taken(s)
             r == s \ {x}
  <2>1. x \in s
    BY <1>3 DEF Taken
  <2>2. iter[s] = f[x] + iter[r]
    BY <1>1, <1>3 DEF Sums
  <2>3. iter[r] \in Nat /\ ((\A k \in K : f[k] = 0) => iter[r] = 0) /\ \A k \in r : f[k] <= iter[r]
    BY <1>3
  <2> HIDE DEF x
  <2>4. x \in K /\ f[x] \in Nat
    BY <2>1
  <2>5. iter[s] \in Nat /\ f[x] <= iter[s] /\ iter[r] <= iter[s]
    BY <2>2, <2>3, <2>4
  <2>6. (\A k \in K : f[k] = 0) => iter[s] = 0
    BY <2>2, <2>3, <2>4
  <2>7. ASSUME NEW k \in s PROVE f[k] <= iter[s]
    <3>1. CASE k = x
      BY <2>5, <3>1
    <3>2. CASE k \in r
      <4>1. f[k] \in Nat /\ f[k] <= iter[r]
        BY <2>3, <3>2
      <4> QED BY <2>3, <2>5, <4>1
    <3> QED BY <3>1, <3>2
  <2> QED BY <2>5, <2>6, <2>7
<1>4. {} \in P
  BY <1>2
<1>5. \A s \in SUBSET K : s # {} /\ s \ {Taken(s)} \in P => s \in P
  BY <1>3
<1> HIDE DEF P
<1>6. SUBSET K \subseteq P
  BY <1>4, <1>5, TakenOut
<1>7. K \in P
  BY <1>6
<1>8. Fits(K)
  BY <1>7 DEF P
<1> QED BY <1>1, <1>8

(* Changing one part changes the sum by as much.                           *)
LEMMA SumUpdate ==
  ASSUME NEW K, IsFiniteSet(K), NEW f \in [K -> Nat], NEW g \in [K -> Nat], NEW k \in K,
         \A j \in K \ {k} : g[j] = f[j]
  PROVE  SumFunction(g) + f[k] = SumFunction(f) + g[k]
<1>1. PICK iter : Sums(f, K, iter) /\ SumFunction(f) = iter[K]
  BY SumIsOfSums
<1>2. PICK jter : Sums(g, K, jter) /\ SumFunction(g) = jter[K]
  BY SumIsOfSums
<1> DEFINE P == {s \in SUBSET K :
                   /\ iter[s] \in Nat /\ jter[s] \in Nat
                   /\ IF k \in s THEN jter[s] + f[k] = iter[s] + g[k]
                                 ELSE jter[s] = iter[s]}
<1>3. iter[{}] = 0 /\ jter[{}] = 0
  BY <1>1, <1>2 DEF Sums
<1>4. ASSUME NEW s \in SUBSET K, s # {}, s \ {Taken(s)} \in P
      PROVE  s \in P
  <2>1. Taken(s) \in s /\ f[Taken(s)] \in Nat /\ g[Taken(s)] \in Nat /\ f[k] \in Nat /\ g[k] \in Nat
    BY <1>4 DEF Taken
  <2>2. iter[s] = f[Taken(s)] + iter[s \ {Taken(s)}]
    BY <1>1, <1>4 DEF Sums
  <2>3. jter[s] = g[Taken(s)] + jter[s \ {Taken(s)}]
    BY <1>2, <1>4 DEF Sums
  <2>4. CASE Taken(s) = k
    BY <1>4, <2>1, <2>2, <2>3, <2>4
  <2>5. CASE Taken(s) # k
    <3>1. g[Taken(s)] = f[Taken(s)]
      BY <2>1, <2>5
    <3> QED BY <1>4, <2>1, <2>2, <2>3, <2>5, <3>1
  <2> QED BY <2>4, <2>5
<1>5. {} \in P
  BY <1>3
<1> HIDE DEF P
<1>6. SUBSET K \subseteq P
  BY <1>4, <1>5, TakenOut
<1>7. K \in P
  BY <1>6
<1> QED BY <1>1, <1>2, <1>7 DEF P
=============================================================================
