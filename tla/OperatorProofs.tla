--------------------------- MODULE OperatorProofs ---------------------------
(***************************************************************************)
(* What the proofs need to know of operators on data that the models use:  *)
(* the sums of SumFunction, concatenated and flattened sequences, and      *)
(* InOrder.  The provers cannot use an induction theorem whose hypothesis  *)
(* is an operator; an induction is made here by taking a least number for  *)
(* which the claim fails (LeastNumber).                                    *)
(***************************************************************************)
EXTENDS Ordered, SequencesExt, FiniteSetTheorems, SequenceTheorems, TLAPS

\* A set of numbers that is not empty has a least member: induction over the
\* numbers, without an operator for the induction hypothesis.
LEMMA LeastNumber ==
    ASSUME NEW T \in SUBSET Nat, T # {}
    PROVE  \E m \in T : \A k \in T : m <= k
<1> DEFINE R == OpToRel(<, Nat)
<1>1. \A x, y \in Nat : <<y, x>> \in R <=> y < x
  BY Zenon DEF OpToRel
<1>2. IsWellFoundedOn(R, Nat)
  BY Zenon, NatLessThanWellFounded
<1> HIDE DEF R
<1>3. PICK m \in T : \A k \in T : <<k, m>> \notin R
  BY <1>2, WFMin
<1>4. ASSUME NEW k \in T PROVE m <= k
  <2>1. m \in Nat /\ k \in Nat
    OBVIOUS
  <2>2. ~ k < m
    BY <1>1, <1>3, <2>1
  <2>3. QED
    BY <2>1, <2>2
<1>5. QED
  BY <1>4

LEMMA CountUpTo ==
    ASSUME NEW n \in Nat
    PROVE  IsFiniteSet(1..n) /\ Cardinality(1..n) = n
<1>1. IsFiniteSet(1..n) /\ Cardinality(1..n) = IF 1 > n THEN 0 ELSE n - 1 + 1
  <2>1. 1 \in Int /\ n \in Int
    OBVIOUS
  <2>2. QED
    BY <2>1, FS_Interval
<1>2. QED
  BY <1>1

\* The elements of t are added up one by one, in the order CHOOSE takes them.
AddsUp(f, T, g) ==
    g = [t \in SUBSET T |->
            IF t = {} THEN 0
            ELSE f[CHOOSE x \in t : TRUE] + g[t \ {CHOOSE x \in t : TRUE}]]

LEMMA SumUnfolds ==
    ASSUME NEW f, NEW T
    PROVE  SumFunctionOnSet(f, T) = (CHOOSE g : AddsUp(f, T, g))[T]
  BY Zenon DEF SumFunctionOnSet, FoldFunctionOnSet, MapThenFoldSet, AddsUp

LEMMA AddsUpExists ==
    ASSUME NEW T, IsFiniteSet(T), NEW f, \A x \in T : f[x] \in Int
    PROVE  \E g \in [SUBSET T -> Int] : AddsUp(f, T, g)
<1> DEFINE c(t) == CHOOSE x \in t : TRUE
           Right(g, n) == \A t \in SUBSET T : Cardinality(t) <= n =>
                             g[t] = IF t = {} THEN 0 ELSE f[c(t)] + g[t \ {c(t)}]
           Bad == {n \in Nat : ~ \E g \in [SUBSET T -> Int] : Right(g, n)}
<1>1. ASSUME NEW t \in SUBSET T
      PROVE  /\ IsFiniteSet(t) /\ Cardinality(t) \in Nat
             /\ Cardinality(t) <= Cardinality(T)
             /\ t # {} => /\ c(t) \in t /\ t \ {c(t)} \in SUBSET T
                          /\ Cardinality(t \ {c(t)}) = Cardinality(t) - 1
             /\ Cardinality(t) = 0 <=> t = {}
  <2>1. IsFiniteSet(t) /\ Cardinality(t) \in Nat /\ Cardinality(t) <= Cardinality(T)
    BY FS_Subset, FS_CardinalityType
  <2>2. t # {} => c(t) \in t
    OBVIOUS
  <2>3. t # {} => Cardinality(t \ {c(t)}) = Cardinality(t) - 1
    BY <2>1, <2>2, FS_RemoveElement
  <2>4. Cardinality(t) = 0 <=> t = {}
    BY <2>1, FS_EmptySet
  <2>5. QED
    BY <2>1, <2>2, <2>3, <2>4
<1> HIDE DEF c
<1>2. \E g \in [SUBSET T -> Int] : Right(g, 0)
  <2> DEFINE g == [t \in SUBSET T |-> 0]
  <2>1. g \in [SUBSET T -> Int]
    OBVIOUS
  <2>2. ASSUME NEW t \in SUBSET T, Cardinality(t) <= 0
        PROVE  t = {} /\ g[t] = 0
    <3>1. g[t] = 0
      OBVIOUS
    <3>2. Cardinality(t) = 0
      <4>1. Cardinality(t) \in Nat
        BY <1>1
      <4>2. QED
        BY <2>2, <4>1
    <3>3. QED
      BY <1>1, <3>1, <3>2
  <2> HIDE DEF g
  <2>3. Right(g, 0)
    BY <2>2
  <2>4. QED
    BY <2>1, <2>3
<1>3. 0 \notin Bad
  <2> HIDE DEF Right
  <2>1. QED
    BY <1>2
<1>4. ASSUME NEW n \in Nat, n \notin Bad PROVE n + 1 \notin Bad
  <2>1. PICK g \in [SUBSET T -> Int] : Right(g, n)
    BY <1>4
  <2> DEFINE h == [t \in SUBSET T |-> IF t = {} THEN 0 ELSE f[c(t)] + g[t \ {c(t)}]]
  <2>2. h \in [SUBSET T -> Int]
    <3>1. ASSUME NEW t \in SUBSET T, t # {}
          PROVE  f[c(t)] + g[t \ {c(t)}] \in Int
      <4>1. f[c(t)] \in Int
        BY <1>1, <3>1
      <4>2. g[t \ {c(t)}] \in Int
        BY <1>1, <3>1
      <4>3. QED
        BY <4>1, <4>2
    <3>2. QED
      BY <3>1
  <2>3. ASSUME NEW t \in SUBSET T, Cardinality(t) <= n PROVE h[t] = g[t]
    BY <2>1, <2>3
  <2>4. ASSUME NEW t \in SUBSET T, Cardinality(t) <= n + 1, t # {}
        PROVE  h[t] = f[c(t)] + h[t \ {c(t)}]
    <3>1. t \ {c(t)} \in SUBSET T /\ Cardinality(t \ {c(t)}) <= n
      BY <1>1, <2>4
    <3>2. QED
      BY <2>3, <2>4, <3>1
  <2>5. h[{}] = 0
    OBVIOUS
  <2> HIDE DEF h
  <2>6. Right(h, n + 1)
    BY <2>4, <2>5
  <2>7. QED
    BY <2>2, <2>6
<1>5. Bad = {}
  <2> HIDE DEF Right
  <2>1. SUFFICES ASSUME Bad # {} PROVE FALSE
    OBVIOUS
  <2>2. PICK m \in Bad : \A k \in Bad : m <= k
    <3>1. Bad \in SUBSET Nat
      OBVIOUS
    <3>2. QED
      BY <2>1, <3>1, LeastNumber
  <2> HIDE DEF Bad
  <2>3. m \in Nat /\ m # 0
    BY <1>3, <2>2 DEF Bad
  <2>4. m - 1 \in Nat /\ m - 1 \notin Bad /\ (m - 1) + 1 = m
    BY <2>2, <2>3
  <2>5. QED
    BY <1>4, <2>2, <2>4
<1>6. PICK g \in [SUBSET T -> Int] : Right(g, Cardinality(T))
  <2>1. Cardinality(T) \in Nat
    BY FS_CardinalityType
  <2>2. QED
    BY <1>5, <2>1
<1>7. \A t \in SUBSET T : g[t] = IF t = {} THEN 0 ELSE f[c(t)] + g[t \ {c(t)}]
  BY <1>1, <1>6
<1>8. AddsUp(f, T, g)
  BY <1>7 DEF AddsUp, c
<1>9. QED
  BY <1>8

\* Any two ways to add up agree on the sets that both know.
LEMMA AddsUpUnique ==
    ASSUME NEW T, NEW U, IsFiniteSet(T), NEW f, NEW e, NEW g, NEW h,
           \A x \in T \cap U : f[x] = e[x],
           AddsUp(f, T, g), AddsUp(e, U, h), NEW s \in SUBSET (T \cap U)
    PROVE  g[s] = h[s]
<1> DEFINE c(t) == CHOOSE x \in t : TRUE
           Bad == {n \in Nat : \E t \in SUBSET (T \cap U) :
                                   Cardinality(t) = n /\ g[t] # h[t]}
<1>1. ASSUME NEW t \in SUBSET (T \cap U)
      PROVE  /\ IsFiniteSet(t) /\ Cardinality(t) \in Nat
             /\ t # {} => /\ c(t) \in t /\ t \ {c(t)} \in SUBSET (T \cap U)
                          /\ Cardinality(t \ {c(t)}) = Cardinality(t) - 1
  <2>1. IsFiniteSet(t) /\ Cardinality(t) \in Nat
    BY FS_Subset, FS_CardinalityType
  <2>2. t # {} => c(t) \in t
    OBVIOUS
  <2>3. t # {} => Cardinality(t \ {c(t)}) = Cardinality(t) - 1
    BY <2>1, <2>2, FS_RemoveElement
  <2>4. QED
    BY <2>1, <2>2, <2>3
<1>2. ASSUME NEW t \in SUBSET (T \cap U)
      PROVE  /\ g[t] = IF t = {} THEN 0 ELSE f[c(t)] + g[t \ {c(t)}]
             /\ h[t] = IF t = {} THEN 0 ELSE e[c(t)] + h[t \ {c(t)}]
  BY DEF AddsUp
<1> HIDE DEF c
<1>3. Bad = {}
  <2>1. SUFFICES ASSUME Bad # {} PROVE FALSE
    OBVIOUS
  <2>2. PICK m \in Bad : \A k \in Bad : m <= k
    <3>1. Bad \in SUBSET Nat
      OBVIOUS
    <3>2. QED
      BY <2>1, <3>1, LeastNumber
  <2>3. PICK t \in SUBSET (T \cap U) : Cardinality(t) = m /\ g[t] # h[t]
    BY <2>2
  <2>4. t # {} /\ f[c(t)] = e[c(t)]
    BY <1>1, <1>2, <2>3
  <2>5. g[t \ {c(t)}] # h[t \ {c(t)}]
    BY <1>2, <2>3, <2>4
  <2>6. t \ {c(t)} \in SUBSET (T \cap U) /\ m \in Nat /\ Cardinality(t \ {c(t)}) = m - 1
        /\ m - 1 \in Nat
    <3>1. t \ {c(t)} \in SUBSET (T \cap U) /\ Cardinality(t \ {c(t)}) = m - 1
      BY <1>1, <2>3, <2>4
    <3>2. Cardinality(t \ {c(t)}) \in Nat
      BY <1>1, <3>1
    <3>3. QED
      BY <2>2, <3>1, <3>2
  <2>7. m - 1 \in Bad
    BY <2>5, <2>6
  <2> HIDE DEF Bad
  <2>8. QED
    BY <2>2, <2>6, <2>7
<1>4. QED
  BY <1>1, <1>3

\* A sum over a finite set takes its elements one by one.
LEMMA SumBase ==
    ASSUME NEW T, IsFiniteSet(T), NEW f, \A x \in T : f[x] \in Int
    PROVE  /\ SumFunctionOnSet(f, T) \in Int
           /\ T = {} => SumFunctionOnSet(f, T) = 0
           /\ T # {} => LET x == CHOOSE x \in T : TRUE
                       IN SumFunctionOnSet(f, T) = f[x] + SumFunctionOnSet(f, T \ {x})
<1> DEFINE G(U) == CHOOSE g : AddsUp(f, U, g)
           x == CHOOSE x \in T : TRUE
<1>1. ASSUME NEW U \in SUBSET T
      PROVE  AddsUp(f, U, G(U)) /\ G(U)[U] = SumFunctionOnSet(f, U)
  <2>1. IsFiniteSet(U) /\ \A y \in U : f[y] \in Int
    BY FS_Subset
  <2>2. \E g : AddsUp(f, U, g)
    BY <2>1, AddsUpExists
  <2>3. AddsUp(f, U, G(U))
    BY <2>2
  <2>4. QED
    BY <2>3, SumUnfolds
<1> HIDE DEF G
<1>2. PICK g \in [SUBSET T -> Int] : AddsUp(f, T, g)
  BY AddsUpExists
<1>3. \A U \in SUBSET T : g[U] = SumFunctionOnSet(f, U)
  <2> SUFFICES ASSUME NEW U \in SUBSET T PROVE g[U] = SumFunctionOnSet(f, U)
    OBVIOUS
  <2>1. U \in SUBSET (T \cap U)
    OBVIOUS
  <2>2. g[U] = G(U)[U]
    BY <1>1, <1>2, <2>1, AddsUpUnique
  <2>3. QED
    BY <1>1, <2>2
<1>4. g[T] = IF T = {} THEN 0 ELSE f[x] + g[T \ {x}]
  BY <1>2 DEF AddsUp
<1>5. SumFunctionOnSet(f, T) \in Int
  BY <1>2, <1>3
<1> HIDE DEF x
<1>6. SumFunctionOnSet(f, T) = IF T = {} THEN 0 ELSE f[x] + SumFunctionOnSet(f, T \ {x})
  BY <1>3, <1>4
<1>7. QED
  BY <1>5, <1>6 DEF x

\* Any element may be taken first.
LEMMA SumRemove ==
    ASSUME NEW T, IsFiniteSet(T), NEW f, \A x \in T : f[x] \in Int, NEW a \in T
    PROVE  SumFunctionOnSet(f, T) = f[a] + SumFunctionOnSet(f, T \ {a})
<1> DEFINE c(t) == CHOOSE x \in t : TRUE
           S(t) == SumFunctionOnSet(f, t)
           Bad == {n \in Nat : \E t \in SUBSET T : \E x \in t :
                                   Cardinality(t) = n /\ S(t) # f[x] + S(t \ {x})}
<1>1. ASSUME NEW t \in SUBSET T
      PROVE  /\ IsFiniteSet(t) /\ Cardinality(t) \in Nat /\ S(t) \in Int
             /\ t # {} => c(t) \in t /\ S(t) = f[c(t)] + S(t \ {c(t)})
             /\ \A x \in t : /\ Cardinality(t \ {x}) = Cardinality(t) - 1
                             /\ t \ {x} \in SUBSET T
  <2>1. IsFiniteSet(t) /\ Cardinality(t) \in Nat
    BY FS_Subset, FS_CardinalityType
  <2>2. t # {} => c(t) \in t
    OBVIOUS
  <2>3. \A x \in t : Cardinality(t \ {x}) = Cardinality(t) - 1
    BY <2>1, FS_RemoveElement
  <2>4. S(t) \in Int /\ (t # {} => S(t) = f[c(t)] + S(t \ {c(t)}))
    BY <2>1, SumBase
  <2>5. QED
    BY <2>1, <2>2, <2>3, <2>4
<1> HIDE DEF c, S
<1>5. ASSUME NEW n \in Nat, n \notin Bad, NEW t \in SUBSET T, Cardinality(t) = n,
             NEW x \in t
      PROVE  S(t) = f[x] + S(t \ {x})
  BY <1>5
<1>2. Bad = {}
  <2>1. SUFFICES ASSUME Bad # {} PROVE FALSE
    OBVIOUS
  <2>2. PICK m \in Bad : \A k \in Bad : m <= k
    <3>1. Bad \in SUBSET Nat
      OBVIOUS
    <3>2. QED
      BY <2>1, <3>1, LeastNumber
  <2>3. PICK t \in SUBSET T :
          Cardinality(t) = m /\ \E x \in t : S(t) # f[x] + S(t \ {x})
    BY <2>2
  <2>11. PICK x \in t : S(t) # f[x] + S(t \ {x})
    BY <2>3
  <2> DEFINE y == c(t)
  <2>4. y \in t /\ S(t) = f[y] + S(t \ {y}) /\ x # y
    BY <1>1, <2>11
  <2> HIDE DEF y
  <2> DEFINE u == t \ {x}
             v == t \ {y}
             w == (t \ {x}) \ {y}
  <2>5. /\ u \in SUBSET T /\ v \in SUBSET T /\ w \in SUBSET T
        /\ y \in u /\ x \in v /\ v \ {x} = w /\ u \ {y} = w
        /\ Cardinality(u) = m - 1 /\ Cardinality(v) = m - 1
        /\ x \in T /\ y \in T
    BY <1>1, <2>3, <2>4
  <2> HIDE DEF u, v, w
  <2>6. m \in Nat /\ m - 1 \in Nat /\ m - 1 \notin Bad
    <3>1. m \in Nat /\ Cardinality(u) \in Nat
      BY <1>1, <2>2, <2>5
    <3>2. m - 1 \in Nat /\ ~ m <= m - 1
      BY <2>5, <3>1
    <3> HIDE DEF Bad
    <3>3. QED
      BY <2>2, <3>1, <3>2
  <2>7. S(u) = f[y] + S(w) /\ S(v) = f[x] + S(w)
    <3> HIDE DEF Bad
    <3>1. S(u) = f[y] + S(u \ {y})
      BY <2>5, <2>6, <1>5
    <3>2. S(v) = f[x] + S(v \ {x})
      BY <2>5, <2>6, <1>5
    <3>3. QED
      BY <2>5, <3>1, <3>2
  <2>8. f[x] \in Int /\ f[y] \in Int /\ S(w) \in Int
    BY <1>1, <2>5
  <2>9. S(t) # f[x] + S(u) /\ S(t) = f[y] + S(v)
    BY <2>11, <2>4 DEF u, v
  <2>10. QED
    BY <2>7, <2>8, <2>9
<1>3. S(T) = f[a] + S(T \ {a})
  <2>1. T \in SUBSET T /\ Cardinality(T) \in Nat
    BY <1>1
  <2> HIDE DEF Bad
  <2>2. QED
    BY <1>2, <1>5, <2>1
<1>4. QED
  BY <1>3 DEF S

\* A sum depends on what is summed only.
LEMMA SumAgree ==
    ASSUME NEW T, IsFiniteSet(T), NEW f, NEW e,
           \A x \in T : f[x] \in Int /\ e[x] = f[x]
    PROVE  SumFunctionOnSet(e, T) = SumFunctionOnSet(f, T)
<1> DEFINE G(d) == CHOOSE g : AddsUp(d, T, g)
<1>1. AddsUp(f, T, G(f)) /\ AddsUp(e, T, G(e))
  <2>1. \E g : AddsUp(f, T, g)
    BY AddsUpExists
  <2>2. \E g : AddsUp(e, T, g)
    BY AddsUpExists
  <2>3. QED
    BY <2>1, <2>2
<1>2. SumFunctionOnSet(e, T) = G(e)[T] /\ SumFunctionOnSet(f, T) = G(f)[T]
  BY SumUnfolds
<1> HIDE DEF G
<1>3. T \in SUBSET (T \cap T)
  OBVIOUS
<1>4. G(e)[T] = G(f)[T]
  BY <1>1, <1>3, AddsUpUnique
<1>5. QED
  BY <1>2, <1>4

\* One summand of a sum changes, that of a, by q; a may be none of them.
LEMMA SumStep ==
    ASSUME NEW T, IsFiniteSet(T), NEW f, NEW e, NEW a, NEW q \in Int,
           \A x \in T : f[x] \in Int /\ e[x] = f[x] + IF x = a THEN q ELSE 0
    PROVE  /\ SumFunctionOnSet(f, T) \in Int
           /\ SumFunctionOnSet(e, T) = SumFunctionOnSet(f, T) + IF a \in T THEN q ELSE 0
<1>1. SumFunctionOnSet(f, T) \in Int
  BY SumBase
<1>2. CASE a \in T
  <2>1. /\ f[a] \in Int /\ e[a] = f[a] + q /\ e[a] \in Int
        /\ \A x \in T \ {a} : f[x] \in Int /\ e[x] = f[x]
        /\ \A x \in T : f[x] \in Int /\ e[x] \in Int
    <3>1. ASSUME NEW x \in T
          PROVE  f[x] \in Int /\ e[x] = f[x] + IF x = a THEN q ELSE 0
      OBVIOUS
    <3>2. QED
      BY <1>2, <3>1
  <2>2. IsFiniteSet(T \ {a})
    BY FS_RemoveElement
  <2>3. SumFunctionOnSet(e, T \ {a}) = SumFunctionOnSet(f, T \ {a})
    BY <2>1, <2>2, SumAgree
  <2>4. SumFunctionOnSet(e, T) = e[a] + SumFunctionOnSet(e, T \ {a})
    BY <1>2, <2>1, SumRemove
  <2>5. SumFunctionOnSet(f, T) = f[a] + SumFunctionOnSet(f, T \ {a})
    BY <1>2, <2>1, SumRemove
  <2>6. SumFunctionOnSet(f, T \ {a}) \in Int
    BY <2>1, <2>2, SumBase
  <2>7. QED
    BY <1>2, <2>1, <2>3, <2>4, <2>5, <2>6
<1>3. CASE a \notin T
  <2>1. \A x \in T : f[x] \in Int /\ e[x] = f[x]
    BY <1>3
  <2>2. SumFunctionOnSet(e, T) = SumFunctionOnSet(f, T)
    BY <2>1, SumAgree
  <2>3. QED
    BY <1>1, <1>3, <2>2
<1>4. QED
  BY <1>2, <1>3

\* Nothing added up is nothing.
LEMMA SumZero ==
    ASSUME NEW T, IsFiniteSet(T), NEW f, \A x \in T : f[x] = 0
    PROVE  SumFunctionOnSet(f, T) = 0
<1> DEFINE Bad == {n \in Nat : \E U \in SUBSET T :
                      Cardinality(U) = n /\ SumFunctionOnSet(f, U) # 0}
<1>1. \A U \in SUBSET T : IsFiniteSet(U) /\ Cardinality(U) \in Nat
  BY FS_Subset, FS_CardinalityType
<1>2. Bad = {}
  <2> SUFFICES ASSUME Bad # {} PROVE FALSE
    OBVIOUS
  <2>1. PICK n \in Bad : \A k \in Bad : n <= k
    BY LeastNumber
  <2>2. PICK U \in SUBSET T : Cardinality(U) = n /\ SumFunctionOnSet(f, U) # 0
    BY <2>1
  <2>3. IsFiniteSet(U) /\ \A x \in U : f[x] \in Int
    BY <1>1
  <2>4. U # {}
    BY <2>2, <2>3, SumBase
  <2>5. PICK a : a \in U
    BY <2>4
  <2>6. IsFiniteSet(U \ {a}) /\ Cardinality(U \ {a}) = Cardinality(U) - 1
    BY <2>3, <2>5, FS_RemoveElement
  <2>7. SumFunctionOnSet(f, U) = f[a] + SumFunctionOnSet(f, U \ {a})
    BY <2>3, <2>5, SumRemove
  <2>8. SumFunctionOnSet(f, U \ {a}) \in Int
    BY <2>3, <2>6, SumBase
  <2>9. SumFunctionOnSet(f, U \ {a}) # 0
    BY <2>2, <2>5, <2>7, <2>8
  <2>10. n - 1 \in Bad /\ n \in Nat
    BY <1>1, <2>1, <2>2, <2>6, <2>9
  <2>11. QED
    BY <2>1, <2>10
<1>3. QED
  BY <1>1, <1>2

-----------------------------------------------------------------------------
\* The sum of a sequence that gets one more element (append).
LEMMA SumAppend ==
    ASSUME NEW q \in Seq(Int), NEW x \in Int
    PROVE  SumFunction(Append(q, x)) = SumFunction(q) + x
<1> DEFINE n == Len(q)
           r == Append(q, x)
<1>1. /\ n \in Nat /\ DOMAIN q = 1..n /\ DOMAIN r = 1..(n + 1)
      /\ \A k \in 1..n : r[k] = q[k] /\ q[k] \in Int
      /\ r[n + 1] = x
  BY AppendProperties, LenProperties
<1> HIDE DEF n, r
<1>2. /\ IsFiniteSet(1..n) /\ IsFiniteSet(1..(n + 1)) /\ n + 1 \in 1..(n + 1)
      /\ (1..(n + 1)) \ {n + 1} = 1..n
  <2>1. n \in Int /\ n + 1 \in Int /\ 1 \in Int
    BY <1>1
  <2>2. IsFiniteSet(1..n) /\ IsFiniteSet(1..(n + 1))
    BY <2>1, FS_Interval
  <2>3. n + 1 \in 1..(n + 1) /\ (1..(n + 1)) \ {n + 1} = 1..n
    BY <1>1
  <2>4. QED
    BY <2>2, <2>3
<1>3. \A k \in 1..(n + 1) : r[k] \in Int
  BY <1>1
<1>4. SumFunctionOnSet(r, 1..(n + 1)) = r[n + 1] + SumFunctionOnSet(r, 1..n)
  <2>1. SumFunctionOnSet(r, 1..(n + 1))
          = r[n + 1] + SumFunctionOnSet(r, (1..(n + 1)) \ {n + 1})
    BY <1>2, <1>3, SumRemove
  <2>2. QED
    BY <1>2, <2>1
<1>5. SumFunctionOnSet(r, 1..n) = SumFunctionOnSet(q, 1..n)
  BY <1>1, <1>2, SumAgree
<1>6. SumFunctionOnSet(q, 1..n) \in Int
  BY <1>1, <1>2, SumBase
<1>7. QED
  BY <1>1, <1>4, <1>5, <1>6 DEF SumFunction, n, r

\* The sum of a sequence is a number, that of the empty one is 0.
LEMMA SumSeqType ==
    ASSUME NEW q \in Seq(Int)
    PROVE  SumFunction(q) \in Int /\ (q = <<>> => SumFunction(q) = 0)
<1>1. Len(q) \in Nat /\ DOMAIN q = 1..Len(q) /\ \A k \in 1..Len(q) : q[k] \in Int
  BY LenProperties
<1>2. IsFiniteSet(DOMAIN q) /\ (q = <<>> => DOMAIN q = {})
  BY <1>1, FS_Interval
<1>3. QED
  BY <1>1, <1>2, SumBase DEF SumFunction

\* The sum of two sequences put together.
LEMMA SumConcat ==
    ASSUME NEW q \in Seq(Int), NEW r \in Seq(Int)
    PROVE  SumFunction(q \o r) = SumFunction(q) + SumFunction(r)
<1> DEFINE Bad == {n \in Nat : \E t \in Seq(Int) :
                      Len(t) = n /\ SumFunction(q \o t) # SumFunction(q) + SumFunction(t)}
<1>1. Bad = {}
  <2>1. SUFFICES ASSUME Bad # {} PROVE FALSE
    OBVIOUS
  <2>2. PICK m \in Bad : \A k \in Bad : m <= k
    <3>1. Bad \in SUBSET Nat
      OBVIOUS
    <3>2. QED
      BY <2>1, <3>1, LeastNumber
  <2>3. PICK t \in Seq(Int) :
          Len(t) = m /\ SumFunction(q \o t) # SumFunction(q) + SumFunction(t)
    BY <2>2
  <2>4. t # <<>>
    <3>1. <<>> \in Seq(Int) /\ q \o <<>> = q
      BY ConcatEmptySeq
    <3>2. SumFunction(<<>>) = 0 /\ SumFunction(q) \in Int
      BY <3>1, SumSeqType
    <3>3. SumFunction(q \o <<>>) = SumFunction(q) + SumFunction(<<>>)
      BY <3>1, <3>2
    <3> HIDE DEF Bad
    <3>4. QED
      BY <2>3, <3>3
  <2>5. PICK u \in Seq(Int), x \in Int : t = Append(u, x)
    BY <2>4, SequenceEmptyOrAppend
  <2>6. Len(u) \in Nat /\ Len(t) = Len(u) + 1
    BY <2>5, AppendProperties, LenProperties
  <2>7. m \in Nat /\ Len(u) = m - 1 /\ ~ m <= Len(u)
    BY <2>2, <2>3, <2>6
  <2>8. q \o u \in Seq(Int) /\ q \o t = Append(q \o u, x)
    <3>1. q \o u \in Seq(Int) /\ t = u \o <<x>> /\ Append(q \o u, x) = (q \o u) \o <<x>>
      BY <2>5, AppendIsConcat, ConcatProperties
    <3>2. QED
      BY <2>5, <3>1, ConcatAssociative
  <2>9. SumFunction(q \o u) = SumFunction(q) + SumFunction(u)
    BY <2>2, <2>6, <2>7
  <2>10. /\ SumFunction(q \o t) = SumFunction(q \o u) + x
         /\ SumFunction(t) = SumFunction(u) + x
    BY <2>5, <2>8, SumAppend
  <2>11. SumFunction(q) \in Int /\ SumFunction(u) \in Int
    BY SumSeqType
  <2>12. QED
    BY <2>3, <2>9, <2>10, <2>11
<1>2. Len(r) \in Nat
  BY LenProperties
<1>3. QED
  BY <1>1, <1>2

\* Flattened sequences are put together one by one.
LEMMA FlattenBySteps ==
    ASSUME NEW q, NEW n \in Nat \ {0}, Len(q) = n
    PROVE  \E f : /\ f[1] = q[1]
                  /\ \A i \in 2..n : f[i] = f[i - 1] \o q[i]
                  /\ FlattenSeq(q) = f[n]
<1> DEFINE Flat(f) == f = [i \in 1..n |-> IF i = 1 THEN q[i] ELSE f[i - 1] \o q[i]]
           Right(f, m) == /\ f = [i \in 1..n |-> f[i]]
                          /\ \A i \in 1..n : i <= m =>
                                f[i] = IF i = 1 THEN q[i] ELSE f[i - 1] \o q[i]
           Bad == {m \in Nat : ~ \E f : Right(f, m)}
<1>1. FlattenSeq(q) = (CHOOSE f : Flat(f))[n]
  BY Zenon DEF FlattenSeq
<1>2. 0 \notin Bad
  <2> DEFINE f == [i \in 1..n |-> 0]
  <2>1. Right(f, 0)
    OBVIOUS
  <2> HIDE DEF Right
  <2>2. QED
    BY <2>1
<1>3. ASSUME NEW m \in Nat, m \notin Bad PROVE m + 1 \notin Bad
  <2>1. PICK f : Right(f, m)
    BY <1>3
  <2> DEFINE g == [i \in 1..n |-> IF i = 1 THEN q[i] ELSE f[i - 1] \o q[i]]
  <2>2. \A i \in 1..n : i <= m => g[i] = f[i]
    BY <2>1
  <2>3. \A i \in 1..n : i <= m + 1 => g[i] = IF i = 1 THEN q[i] ELSE g[i - 1] \o q[i]
    <3> SUFFICES ASSUME NEW i \in 1..n, i <= m + 1, i # 1
                 PROVE  g[i] = g[i - 1] \o q[i]
      OBVIOUS
    <3>1. i - 1 \in 1..n /\ i - 1 <= m
      OBVIOUS
    <3>2. g[i - 1] = f[i - 1]
      BY <2>2, <3>1
    <3>3. QED
      BY <3>2
  <2>4. g = [i \in 1..n |-> g[i]]
    OBVIOUS
  <2> HIDE DEF g
  <2>5. Right(g, m + 1)
    BY <2>3, <2>4
  <2> HIDE DEF Right
  <2>6. QED
    BY <2>5
<1>4. n \notin Bad
  <2> HIDE DEF Right
  <2>1. SUFFICES ASSUME Bad # {} PROVE FALSE
    OBVIOUS
  <2>2. PICK m \in Bad : \A k \in Bad : m <= k
    <3>1. Bad \in SUBSET Nat
      OBVIOUS
    <3>2. QED
      BY <2>1, <3>1, LeastNumber
  <2>3. m \in Nat
    OBVIOUS
  <2> HIDE DEF Bad
  <2>4. m # 0
    BY <1>2
  <2>5. m - 1 \in Nat /\ m - 1 \notin Bad /\ (m - 1) + 1 = m
    BY <2>2, <2>3, <2>4
  <2>6. QED
    BY <1>3, <2>5
<1>5. PICK f : Right(f, n)
  BY <1>4
<1>6. Flat(f)
  <2>1. f = [i \in 1..n |-> f[i]]
    BY <1>5
  <2>2. ASSUME NEW i \in 1..n
        PROVE  f[i] = IF i = 1 THEN q[i] ELSE f[i - 1] \o q[i]
    <3>1. i <= n
      OBVIOUS
    <3>2. QED
      BY <1>5, <3>1, Zenon
  <2>3. [i \in 1..n |-> f[i]] = [i \in 1..n |-> IF i = 1 THEN q[i] ELSE f[i - 1] \o q[i]]
    BY <2>2, Zenon
  <2>4. QED
    BY <2>1, <2>3, Zenon
<1>7. Flat(CHOOSE g : Flat(g))
  <2> HIDE DEF Flat
  <2>1. QED
    BY <1>6
<1> DEFINE e == CHOOSE g : Flat(g)
<1>8. Flat(e) /\ FlattenSeq(q) = e[n]
  BY <1>1, <1>7
<1> HIDE DEF e
<1>9. e[1] = q[1] /\ \A i \in 2..n : e[i] = e[i - 1] \o q[i]
  <2>1. ASSUME NEW i \in 1..n
        PROVE  e[i] = IF i = 1 THEN q[i] ELSE e[i - 1] \o q[i]
    BY <1>8, Zenon
  <2>2. 1 \in 1..n /\ \A i \in 2..n : i \in 1..n /\ i # 1
    OBVIOUS
  <2>3. QED
    BY <2>1, <2>2
<1>10. QED
  BY <1>8, <1>9

-----------------------------------------------------------------------------
Ascending(q) == \A j, k \in DOMAIN q : j < k => q[j] < q[k]

\* The keys of a dict in their order are a sequence of all of them.
LEMMA InOrderLists ==
    ASSUME NEW S \in SUBSET Nat, IsFiniteSet(S)
    PROVE  /\ InOrder(S) \in Seq(S)
           /\ Range(InOrder(S)) = S
           /\ \A j, k \in DOMAIN InOrder(S) : j < k => InOrder(S)[j] < InOrder(S)[k]
<1> DEFINE upto(x) == {y \in S : y <= x}
           rank == [x \in S |-> Cardinality(upto(x))]
           n == Cardinality(S)
<1>1. n \in Nat /\ \A x \in S : x \in Nat
  BY FS_CardinalityType
<1>2. ASSUME NEW x \in S
      PROVE  IsFiniteSet(upto(x)) /\ rank[x] \in 1..n /\ rank[x] = Cardinality(upto(x))
  <2>1. IsFiniteSet(upto(x)) /\ Cardinality(upto(x)) <= n
    BY FS_Subset
  <2>2. Cardinality(upto(x)) \in Nat /\ x \in upto(x)
    BY <2>1, FS_CardinalityType
  <2>3. Cardinality(upto(x)) # 0
    BY <2>1, <2>2, FS_EmptySet
  <2>4. QED
    BY <2>1, <2>2, <2>3, <1>1
<1>3. ASSUME NEW x \in S, NEW y \in S, x < y
      PROVE  rank[x] < rank[y]
  <2>1. upto(x) \in SUBSET upto(y) /\ y \in upto(y) /\ y \notin upto(x)
    <3>1. x \in Nat /\ y \in Nat /\ \A z \in S : z \in Nat
      BY <1>1
    <3>2. \A z \in Nat : (z <= x => z <= y) /\ y <= y /\ ~ y <= x
      BY <1>3, <3>1
    <3>3. QED
      BY <3>1, <3>2
  <2>2. Cardinality(upto(x)) <= Cardinality(upto(y)) /\ Cardinality(upto(x)) # Cardinality(upto(y))
    BY <2>1, <1>2, FS_Subset
  <2>3. QED
    BY <1>2, <2>2
<1> HIDE DEF upto
<1>4. rank \in Injection(S, 1..n)
  <2>1. rank \in [S -> 1..n]
    BY <1>2
  <2>2. ASSUME NEW x \in S, NEW y \in S, rank[x] = rank[y] PROVE x = y
    <3>1. rank[x] \in 1..n /\ rank[y] \in 1..n
      BY <1>2
    <3>2. ~ x < y /\ ~ y < x
      BY <1>3, <2>2, <3>1
    <3>3. QED
      BY <3>2
  <2>3. QED
    BY <2>1, <2>2 DEF Injection, IsInjective
<1>5. rank \in Surjection(S, 1..n)
  <2>1. IsFiniteSet(1..n) /\ Cardinality(1..n) = n
    BY <1>1, FS_Interval
  <2>2. QED
    BY <1>4, <2>1, FS_Injection
<1> HIDE DEF rank
<1> DEFINE q == [k \in 1..n |-> CHOOSE x \in S : rank[x] = k]
<1>6. ASSUME NEW k \in 1..n PROVE q[k] \in S /\ rank[q[k]] = k
  BY <1>5 DEF Surjection
<1>7. q \in [1..n -> S]
  BY <1>6
<1> HIDE DEF q
<1>12. q \in [1..n -> S] /\ \A j, k \in DOMAIN q : j < k => q[j] < q[k]
  <2>1. ASSUME NEW j \in 1..n, NEW k \in 1..n, j < k PROVE q[j] < q[k]
    <3>1. q[j] \in S /\ q[k] \in S /\ rank[q[j]] = j /\ rank[q[k]] = k
      BY <1>6
    <3>2. q[k] < q[j] => rank[q[k]] < rank[q[j]]
      BY <1>3, <3>1
    <3>3. /\ j \in Int /\ k \in Int
          /\ q[j] \in Nat /\ q[k] \in Nat
      <4>1. q[j] \in Nat /\ q[k] \in Nat
        BY <1>1, <3>1
      <4>2. QED
        BY <4>1
    <3>4. ~ q[k] < q[j] /\ q[j] # q[k]
      BY <2>1, <3>1, <3>2, <3>3
    <3>5. QED
      BY <3>3, <3>4
  <2>2. QED
    BY <1>7, <2>1
<1>8. /\ InOrder(S) \in [1..n -> S]
      /\ \A j, k \in DOMAIN InOrder(S) : j < k => InOrder(S)[j] < InOrder(S)[k]
  BY <1>12 DEF InOrder
<1>9. InOrder(S) \in Injection(1..n, S)
  <2> DEFINE s == InOrder(S)
  <2> HIDE DEF s
  <2>1. s \in [1..n -> S] /\ \A j, k \in DOMAIN s : j < k => s[j] < s[k]
    BY <1>8 DEF s
  <2>2. ASSUME NEW j \in 1..n, NEW k \in 1..n, s[j] = s[k] PROVE j = k
    <3>1. s[j] \in Nat /\ s[k] \in Nat
      BY <2>1
    <3>2. ~ j < k /\ ~ k < j
      BY <2>1, <2>2, <3>1
    <3>3. QED
      BY <1>1, <3>2
  <2>3. QED
    BY <2>1, <2>2 DEF Injection, IsInjective, s
<1>10. InOrder(S) \in Surjection(1..n, S)
  <2>1. IsFiniteSet(1..n) /\ Cardinality(1..n) = n
    BY <1>1, FS_Interval
  <2>2. QED
    BY <1>9, <2>1, FS_Injection
<1>11. Range(InOrder(S)) = S
  BY <1>8, <1>10 DEF Range, Surjection
<1>13. InOrder(S) \in Seq(S)
  BY <1>1, <1>8
<1>14. QED
  BY <1>8, <1>11, <1>13

\* A queue of distinct entries without its head (popleft).
LEMMA PoppedEntries ==
    ASSUME NEW S, NEW q \in Seq(S), q # <<>>, IsInjective(q)
    PROVE  /\ Range(Tail(q)) = Range(q) \ {Head(q)}
           /\ IsInjective(Tail(q)) /\ Head(q) \in Range(q)
<1>1. /\ Len(q) \in Nat \ {0} /\ DOMAIN q = 1..Len(q) /\ Head(q) = q[1]
      /\ Tail(q) \in Seq(S) /\ Len(Tail(q)) = Len(q) - 1
      /\ DOMAIN Tail(q) = 1..(Len(q) - 1)
      /\ \A k \in 1..(Len(q) - 1) : Tail(q)[k] = q[k + 1]
  BY HeadTailProperties, EmptySeq, LenProperties
<1>2. IsInjective(Tail(q))
  BY <1>1 DEF IsInjective
<1>3. ASSUME NEW x \in Range(Tail(q)) PROVE x \in Range(q) \ {Head(q)}
  BY <1>1, <1>3 DEF IsInjective, Range
<1>4. ASSUME NEW x \in Range(q), x # Head(q) PROVE x \in Range(Tail(q))
  <2>1. PICK k \in 1..Len(q) : x = q[k]
    BY <1>1, <1>4 DEF Range
  <2>2. k - 1 \in 1..(Len(q) - 1) /\ Tail(q)[k - 1] = x
    BY <1>1, <1>4, <2>1
  <2>3. QED
    BY <1>1, <2>2 DEF Range
<1>5. Head(q) \in Range(q)
  BY <1>1 DEF Range
<1>6. QED
  BY <1>2, <1>3, <1>4, <1>5

\* A queue of distinct entries with one more at its end (append).
LEMMA AppendedEntries ==
    ASSUME NEW S, NEW q \in Seq(S), NEW x \in S, IsInjective(q), x \notin Range(q)
    PROVE  /\ Range(Append(q, x)) = Range(q) \cup {x}
           /\ IsInjective(Append(q, x))
<1>1. /\ Len(q) \in Nat /\ DOMAIN q = 1..Len(q)
      /\ DOMAIN Append(q, x) = 1..(Len(q) + 1)
      /\ \A k \in 1..Len(q) : Append(q, x)[k] = q[k]
      /\ Append(q, x)[Len(q) + 1] = x
  BY AppendProperties, LenProperties
<1>2. \A k \in 1..(Len(q) + 1) : k \in 1..Len(q) \/ k = Len(q) + 1
  BY <1>1
<1>3. IsInjective(Append(q, x))
  BY <1>1, <1>2 DEF IsInjective, Range
<1>4. ASSUME NEW y \in Range(Append(q, x)) PROVE y \in Range(q) \cup {x}
  BY <1>1, <1>2, <1>4 DEF Range
<1>5. ASSUME NEW y \in Range(q) \cup {x} PROVE y \in Range(Append(q, x))
  BY <1>1, <1>5 DEF Range
<1>6. QED
  BY <1>3, <1>4, <1>5

\* A queue is empty when it holds no entry.
LEMMA EmptyEntries ==
    ASSUME NEW S, NEW q \in Seq(S)
    PROVE  Range(q) = {} <=> q = <<>>
<1>1. Len(q) \in Nat /\ DOMAIN q = 1..Len(q) /\ (q # <<>> => Len(q) > 0)
  BY EmptySeq, LenProperties
<1>2. q # <<>> => q[1] \in Range(q)
  BY <1>1 DEF Range
<1>3. q = <<>> => Range(q) = {}
  BY <1>1 DEF Range
<1>4. QED
  BY <1>2, <1>3

\* The oldest entry of a queue is taken off it (recv).
LEMMA OldestTaken ==
    ASSUME NEW S, NEW q \in Seq(S), q # <<>>
    PROVE  /\ Head(q) \in S /\ Head(q) \in Range(q)
           /\ Tail(q) \in Seq(S) /\ Range(Tail(q)) \subseteq Range(q)
<1>1. /\ Len(q) \in Nat \ {0} /\ DOMAIN q = 1..Len(q) /\ Head(q) = q[1]
      /\ Head(q) \in S /\ Tail(q) \in Seq(S)
      /\ DOMAIN Tail(q) = 1..(Len(q) - 1)
      /\ \A k \in 1..(Len(q) - 1) : Tail(q)[k] = q[k + 1]
  BY HeadTailProperties, EmptySeq, LenProperties
<1>2. ASSUME NEW x \in Range(Tail(q)) PROVE x \in Range(q)
  BY <1>1, <1>2 DEF Range
<1>3. Head(q) \in Range(q)
  BY <1>1 DEF Range
<1>4. QED
  BY <1>1, <1>2, <1>3

\* An entry more, which may be there already.
LEMMA EntryAdded ==
    ASSUME NEW S, NEW q \in Seq(S), NEW x \in S
    PROVE  Append(q, x) \in Seq(S) /\ Range(Append(q, x)) = Range(q) \cup {x}
<1>1. Append(q, x) = q \o <<x>> /\ Append(q, x) \in Seq(S)
  BY AppendIsConcat, AppendProperties
<1>2. <<x>> \in Seq(S) /\ Range(<<x>>) = {x}
  BY DEF Range
<1>3. Range(q \o <<x>>) = Range(q) \cup Range(<<x>>)
  BY <1>2, RangeConcatenation
<1>4. QED
  BY <1>1, <1>2, <1>3

\* A queue is its oldest entry and the rest.
LEMMA HeadThenTail ==
    ASSUME NEW S, NEW q \in Seq(S), q # <<>>
    PROVE  <<Head(q)>> \in Seq(S) /\ Tail(q) \in Seq(S) /\ q = <<Head(q)>> \o Tail(q)
<1>1. /\ Len(q) \in Nat \ {0} /\ Head(q) = q[1] /\ Head(q) \in S /\ Tail(q) \in Seq(S)
      /\ Tail(q) = SubSeq(q, 2, Len(q)) /\ SubSeq(q, 1, Len(q)) = q
  BY EmptySeq, LenProperties, HeadTailProperties, TailIsSubSeq, SubSeqFull
<1>2. 1 \in 1..Len(q) /\ Len(q) \in 1..Len(q) /\ 1 + 1 = 2
  BY <1>1
<1>3. SubSeq(q, 1, Len(q)) = <<q[1]>> \o SubSeq(q, 1 + 1, Len(q))
  BY <1>2, SubSeqRecursiveFirst
<1>4. <<Head(q)>> \in Seq(S)
  BY <1>1
<1>5. QED
  BY <1>1, <1>2, <1>3, <1>4

\* A function on one place more than a sequence, the same up to there.
LEMMA IsAppended ==
    ASSUME NEW S, NEW w \in Seq(S), NEW x \in S, NEW v \in [1..(Len(w) + 1) -> S],
           \A k \in 1..Len(w) : v[k] = w[k], v[Len(w) + 1] = x
    PROVE  v = Append(w, x)
<1>1. /\ Len(w) \in Nat /\ Append(w, x) \in Seq(S) /\ Len(Append(w, x)) = Len(w) + 1
      /\ DOMAIN Append(w, x) = 1..(Len(w) + 1)
      /\ \A k \in 1..Len(w) : Append(w, x)[k] = w[k]
      /\ Append(w, x)[Len(w) + 1] = x
  BY AppendProperties, LenProperties
<1>2. \A k \in 1..(Len(w) + 1) : k \in 1..Len(w) \/ k = Len(w) + 1
  BY <1>1
<1> DEFINE a == Append(w, x)
<1>3. /\ \A k \in 1..Len(w) : a[k] = w[k]
      /\ a[Len(w) + 1] = x /\ a \in Seq(S) /\ DOMAIN a = 1..(Len(w) + 1)
  BY <1>1
<1> HIDE DEF a
<1>4. \A k \in 1..(Len(w) + 1) : v[k] = a[k]
  BY <1>2, <1>3
<1>5. a = [k \in 1..(Len(w) + 1) |-> a[k]]
  BY <1>3
<1>6. v = a
  BY <1>4, <1>5
<1>7. QED
  BY <1>6 DEF a

-----------------------------------------------------------------------------
\* A sequence over a set is one over any larger set.
LEMMA SeqOfMore ==
    ASSUME NEW S, NEW M, S \subseteq M, NEW q \in Seq(S)
    PROVE  q \in Seq(M)
<1>1. /\ Len(q) \in Nat /\ q \in [1..Len(q) -> S]
  BY LenProperties
<1>2. q \in [1..Len(q) -> M]
  BY <1>1
<1>3. QED
  BY <1>1, <1>2, IsASeq

\* A sequence put behind another, all of whose entries come before its own.
LEMMA AscendingConcat ==
    ASSUME NEW S, NEW q \in Seq(S), NEW r \in Seq(S), Ascending(q), Ascending(r),
           \A x \in Range(q), y \in Range(r) : x < y
    PROVE  Ascending(q \o r)
<1> DEFINE m == Len(q)
           n == Len(r)
           a == q \o r
<1>1. /\ m \in Nat /\ n \in Nat /\ DOMAIN q = 1..m /\ DOMAIN r = 1..n
      /\ DOMAIN a = 1..(m + n)
      /\ \A k \in 1..(m + n) : a[k] = IF k <= m THEN q[k] ELSE r[k - m]
  BY ConcatProperties, LenProperties
<1> HIDE DEF m, n, a
<1>2. ASSUME NEW j \in 1..(m + n), NEW k \in 1..(m + n), j < k
      PROVE  a[j] < a[k]
  <2>1. CASE k <= m
    <3>1. j \in 1..m /\ k \in 1..m /\ a[j] = q[j] /\ a[k] = q[k]
      BY <1>1, <1>2, <2>1
    <3>2. QED
      BY <1>1, <1>2, <3>1 DEF Ascending
  <2>2. CASE j > m
    <3>1. j - m \in 1..n /\ k - m \in 1..n /\ j - m < k - m
      BY <1>1, <1>2, <2>2
    <3>2. a[j] = r[j - m] /\ a[k] = r[k - m]
      BY <1>1, <1>2, <2>2
    <3>3. QED
      BY <1>1, <3>1, <3>2 DEF Ascending
  <2>3. CASE j <= m /\ ~ k <= m
    <3>1. j \in 1..m /\ k - m \in 1..n /\ a[j] = q[j] /\ a[k] = r[k - m]
      BY <1>1, <1>2, <2>3
    <3>2. a[j] \in Range(q) /\ a[k] \in Range(r)
      BY <1>1, <3>1 DEF Range
    <3>3. QED
      BY <3>2
  <2>4. QED
    BY <1>1, <2>1, <2>2, <2>3
<1>3. Ascending(a)
  BY <1>1, <1>2 DEF Ascending
<1>4. QED
  BY <1>3 DEF a

\* The last entry of an ascending sequence is its greatest.
LEMMA GreatestIsLast ==
    ASSUME NEW S \in SUBSET Nat, NEW q \in Seq(S), q # <<>>, Ascending(q)
    PROVE  /\ Last(q) \in Range(q)
           /\ \A x \in Range(q) : x <= Last(q)
<1> DEFINE n == Len(q)
<1>1. n \in Nat /\ n # 0 /\ DOMAIN q = 1..n /\ Last(q) = q[n]
  BY LenProperties, EmptySeq DEF Last
<1>2. \A k \in 1..n : q[k] \in Nat
  BY <1>1, LenProperties
<1> HIDE DEF n
<1>3. n \in 1..n
  BY <1>1
<1>4. ASSUME NEW k \in 1..n PROVE q[k] <= q[n]
  <2>1. k = n \/ k < n
    BY <1>1
  <2>2. k < n => q[k] < q[n]
    BY <1>1, <1>3 DEF Ascending
  <2>3. q[k] \in Nat /\ q[n] \in Nat
    BY <1>2, <1>3
  <2>4. QED
    BY <2>1, <2>2, <2>3
<1>5. QED
  BY <1>1, <1>3, <1>4 DEF Range

\* An ascending sequence that leaves no member of S out before one it has is
\* how the members of S in order begin.
LEMMA BeginsInOrder ==
    ASSUME NEW S \in SUBSET Nat, IsFiniteSet(S), NEW q \in Seq(Nat), Ascending(q),
           Range(q) \subseteq S, \A c \in S, x \in Range(q) : c < x => c \in Range(q)
    PROVE  IsPrefix(q, InOrder(S))
<1> DEFINE o == InOrder(S)
           n == Len(q)
           m == Len(o)
           Bad == {k \in 1..n : ~ (k \in 1..m /\ q[k] = o[k])}
<1>1. /\ o \in Seq(Nat) /\ Ascending(o) /\ Range(o) = S
      /\ n \in Nat /\ m \in Nat /\ DOMAIN q = 1..n /\ DOMAIN o = 1..m
      /\ \A k \in 1..n : q[k] \in Nat
      /\ \A k \in 1..m : o[k] \in Nat
  <2>1. o \in Seq(S) /\ Range(o) = S /\ Ascending(o)
    BY InOrderLists DEF Ascending
  <2>2. \A k \in 1..m : o[k] \in Nat
    BY <2>1, LenProperties
  <2>3. o \in Seq(Nat)
    <3>1. o \in [1..m -> Nat] /\ m \in Nat
      BY <2>1, <2>2, LenProperties
    <3>2. QED
      BY <3>1, IsASeq
  <2>4. QED
    BY <2>1, <2>2, <2>3, LenProperties
<1> HIDE DEF o, n, m
<1>2. Bad = {}
  <2>1. SUFFICES ASSUME Bad # {} PROVE FALSE
    OBVIOUS
  <2>2. PICK k \in Bad : \A j \in Bad : k <= j
    <3>1. Bad \in SUBSET Nat
      BY <1>1
    <3>2. QED
      BY <2>1, <3>1, LeastNumber
  <2>3. k \in 1..n /\ \A j \in 1..n : j < k => j \in 1..m /\ q[j] = o[j]
    BY <1>1, <2>2
  <2>4. q[k] \in S /\ q[k] \in Range(q)
    BY <1>1, <2>3 DEF Range
  <2>5. PICK i \in 1..m : o[i] = q[k]
    BY <1>1, <2>4 DEF Range
  <2>6. ~ i < k
    <3>1. SUFFICES ASSUME i < k PROVE FALSE
      OBVIOUS
    <3>2. i \in 1..n
      BY <1>1, <2>3, <2>5, <3>1
    <3>3. q[i] = o[i] /\ q[i] < q[k]
      BY <1>1, <2>3, <3>1, <3>2 DEF Ascending
    <3>4. QED
      BY <1>1, <2>3, <2>5, <3>2, <3>3
  <2>7. k \in 1..m /\ ~ i = k
    <3>1. k \in 1..m
      BY <1>1, <2>3, <2>5, <2>6
    <3>2. QED
      BY <2>2, <2>5, <3>1
  <2>8. o[k] < q[k]
    <3>1. k < i
      BY <1>1, <2>3, <2>5, <2>6, <2>7
    <3>2. QED
      BY <1>1, <2>5, <2>7, <3>1 DEF Ascending
  <2>9. o[k] \in Range(q)
    <3>1. o[k] \in S
      BY <1>1, <2>7 DEF Range
    <3>2. QED
      BY <2>4, <2>8, <3>1
  <2>10. PICK j \in 1..n : q[j] = o[k]
    BY <1>1, <2>9 DEF Range
  <2>11. j < k
    <3>1. q[j] < q[k] /\ q[j] \in Nat /\ q[k] \in Nat
      BY <1>1, <2>3, <2>8, <2>10
    <3>2. k < j => q[k] < q[j]
      BY <1>1, <2>3, <2>10 DEF Ascending
    <3>3. k # j /\ ~ k < j
      BY <3>1, <3>2
    <3>4. QED
      BY <1>1, <2>3, <2>10, <3>3
  <2>12. j \in 1..m /\ o[j] = o[k] /\ o[j] < o[k]
    BY <1>1, <2>3, <2>7, <2>10, <2>11 DEF Ascending
  <2>13. QED
    BY <1>1, <2>7, <2>12
<1>3. n <= m /\ \A k \in 1..n : q[k] = o[k]
  <2>1. \A k \in 1..n : k \in 1..m /\ q[k] = o[k]
    BY <1>2
  <2>2. n = 0 \/ n \in 1..n
    BY <1>1
  <2>3. QED
    BY <1>1, <2>1, <2>2
<1>4. SubSeq(q, 1, n) = SubSeq(o, 1, n)
  <2>1. /\ SubSeq(q, 1, n) \in Seq(Nat) /\ SubSeq(o, 1, n) \in Seq(Nat)
        /\ Len(SubSeq(q, 1, n)) = n /\ Len(SubSeq(o, 1, n)) = n
        /\ \A k \in 1..n : SubSeq(q, 1, n)[k] = q[k] /\ SubSeq(o, 1, n)[k] = o[k]
    <3>1. /\ 1 \in Int /\ n \in Int /\ n - 1 + 1 = n
          /\ \A k \in 1..n : 1 + k - 1 = k
          /\ (IF 1 <= n THEN n - 1 + 1 ELSE 0) = n
          /\ \A k \in 1..n : q[k] \in Nat /\ o[k] \in Nat
      BY <1>1, <1>3
    <3>2. QED
      BY <3>1, SubSeqProperties
  <2>2. QED
    BY <1>3, <2>1, SeqEqual
<1>5. QED
  BY <1>3, <1>4 DEF IsPrefix, n, m, o
=============================================================================
