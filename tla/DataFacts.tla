------------------------------ MODULE DataFacts ------------------------------
(***************************************************************************)
(* Facts about the data of the models, for the proofs: what Append and     *)
(* Tail do to the elements of a queue, changes of a list, induction over   *)
(* the natural numbers and over finite sets, sums, and the weight of a     *)
(* sequence.                                                               *)
(*                                                                         *)
(* The induction theorems of the library take a predicate as an operator.  *)
(* Here the predicate is a set, the set of the values that have it, and    *)
(* induction is the library's fact that every non-empty set of naturals    *)
(* has a least element.  A function defined by recursion over a finite set *)
(* is likewise shown to exist for a step that is itself a function.        *)
(***************************************************************************)
EXTENDS Integers, SequencesExt, SequenceTheorems, FiniteSetTheorems, WellFoundedInduction,
        TLAPS

(* A request or a session put at the end is one more element.              *)
LEMMA AppendLemma ==
    ASSUME NEW S, NEW q \in Seq(S), NEW m \in S
    PROVE  /\ Append(q, m) \in Seq(S)
           /\ Len(Append(q, m)) = Len(q) + 1
           /\ ToSet(Append(q, m)) = ToSet(q) \union {m}
           /\ IsInjective(q) /\ m \notin ToSet(q) => IsInjective(Append(q, m))
<1> DEFINE r == Append(q, m)
<1>1. /\ r \in Seq(S) /\ Len(r) = Len(q) + 1
      /\ \A i \in 1..Len(r) : r[i] = IF i <= Len(q) THEN q[i] ELSE m
  OBVIOUS
<1> HIDE DEF r
<1>2. ToSet(r) = ToSet(q) \union {m}
  <2>1. /\ ToSet(r) = {r[i] : i \in 1..Len(r)}
        /\ ToSet(q) = {q[i] : i \in 1..Len(q)}
    BY <1>1 DEF ToSet
  <2>2. ASSUME NEW i \in 1..Len(r) PROVE r[i] \in ToSet(q) \union {m}
    BY <1>1, <2>1
  <2>3. ASSUME NEW i \in 1..Len(q) PROVE q[i] \in ToSet(r)
    BY <1>1, <2>1, i \in 1..Len(r), r[i] = q[i]
  <2>4. m \in ToSet(r)
    BY <1>1, <2>1, Len(r) \in 1..Len(r), r[Len(r)] = m
  <2>5. ToSet(r) \subseteq ToSet(q) \union {m}
    BY <2>1, <2>2
  <2>6. ToSet(q) \subseteq ToSet(r)
    BY <2>1, <2>3
  <2>7. QED
    BY <2>4, <2>5, <2>6
<1>3. ASSUME IsInjective(q), m \notin ToSet(q),
             NEW i \in 1..Len(r), NEW j \in 1..Len(r), r[i] = r[j]
      PROVE  i = j
  <2>1. \A k \in 1..Len(q) : q[k] # m
    BY <1>3 DEF ToSet
  <2>2. \A k, l \in 1..Len(q) : q[k] = q[l] => k = l
    BY <1>3 DEF IsInjective
  <2>3. QED
    BY <1>1, <1>3, <2>1, <2>2
<1>4. IsInjective(q) /\ m \notin ToSet(q) => IsInjective(r)
  BY <1>1, <1>3 DEF IsInjective
<1>5. QED
  BY <1>1, <1>2, <1>4 DEF r

(* Taking the first element leaves the others.                             *)
LEMMA TailLemma ==
    ASSUME NEW S, NEW q \in Seq(S), q # << >>
    PROVE  /\ Head(q) \in S
           /\ Tail(q) \in Seq(S)
           /\ Len(Tail(q)) = Len(q) - 1
           /\ ToSet(q) = ToSet(Tail(q)) \union {Head(q)}
           /\ IsInjective(q) => IsInjective(Tail(q)) /\ Head(q) \notin ToSet(Tail(q))
<1> DEFINE r == Tail(q)
           h == Head(q)
<1>1. /\ r \in Seq(S) /\ Len(r) = Len(q) - 1 /\ Len(q) \in Nat \ {0}
      /\ \A i \in 1..Len(r) : r[i] = q[i + 1]
      /\ h = q[1] /\ h \in S
  BY HeadTailProperties, EmptySeq, LenProperties
<1> HIDE DEF r, h
<1>2. ToSet(q) = ToSet(r) \union {h}
  <2>1. ASSUME NEW i \in 1..Len(q) PROVE q[i] \in ToSet(r) \union {h}
    <3>1. CASE i = 1
      BY <1>1, <3>1
    <3>2. CASE i # 1
      BY <1>1, <3>2, i - 1 \in 1..Len(r), r[i - 1] = q[i] DEF ToSet
    <3>3. QED
      BY <3>1, <3>2
  <2>2. ToSet(r) \subseteq ToSet(q)
    BY <1>1 DEF ToSet
  <2>3. h \in ToSet(q)
    BY <1>1, 1 \in 1..Len(q) DEF ToSet
  <2>4. ToSet(q) = {q[i] : i \in 1..Len(q)}
    BY DEF ToSet
  <2>5. QED
    BY <2>1, <2>2, <2>3, <2>4
<1>3. ASSUME IsInjective(q) PROVE IsInjective(r) /\ h \notin ToSet(r)
  <2>1. \A i, j \in 1..Len(q) : q[i] = q[j] => i = j
    BY <1>3 DEF IsInjective
  <2>2. \A i, j \in 1..Len(r) : r[i] = r[j] => i = j
    BY <1>1, <2>1
  <2>3. \A i \in 1..Len(r) : r[i] # h
    BY <1>1, <2>1
  <2>4. QED
    BY <1>1, <2>2, <2>3 DEF IsInjective, ToSet
<1>4. QED
  BY <1>1, <1>2, <1>3 DEF r, h

-----------------------------------------------------------------------------
(* Induction over the natural numbers, for the set of those with a         *)
(* property.                                                               *)
LEMMA NatSetInduction ==
    ASSUME NEW S, 0 \in S, \A n \in Nat : n \in S => n + 1 \in S
    PROVE  Nat \subseteq S
<1> DEFINE R == OpToRel(<, Nat)
           T == Nat \ S
<1>1. SUFFICES ASSUME T # {} PROVE FALSE
  OBVIOUS
<1>2. PICK x \in T : \A y \in T : ~(<<y, x>> \in R)
  <2>1. T \subseteq Nat
    OBVIOUS
  <2> HIDE DEF T
  <2>2. QED BY <1>1, <2>1, NatLessThanWellFounded, WFMin, Zenon
<1>3. \A y \in T : ~(y < x)
  BY <1>2 DEF OpToRel
<1>4. x # 0 /\ x \in Nat
  OBVIOUS
<1>5. x - 1 \in Nat /\ x - 1 < x
  BY <1>4
<1>6. x - 1 \in S
  BY <1>3, <1>5
<1>7. QED
  BY <1>4, <1>5, <1>6

(* Induction over the subsets of a finite set, taking any element out.     *)
LEMMA SubsetInduction ==
    ASSUME NEW S, IsFiniteSet(S), NEW X, {} \in X,
           \A T \in SUBSET S : T # {} /\ (\A x \in T : T \ {x} \in X) => T \in X
    PROVE  SUBSET S \subseteq X
<1> DEFINE N == {n \in Nat : \A T \in SUBSET S : Cardinality(T) = n => T \in X}
<1>1. \A T \in SUBSET S : IsFiniteSet(T) /\ Cardinality(T) \in Nat
  BY FS_Subset, FS_CardinalityType
<1>2. 0 \in N
  BY <1>1, FS_EmptySet
<1>3. ASSUME NEW n \in Nat, n \in N PROVE n + 1 \in N
  <2>1. ASSUME NEW T \in SUBSET S, Cardinality(T) = n + 1 PROVE T \in X
    <3>1. T # {}
      BY <1>1, <2>1, FS_EmptySet
    <3>2. ASSUME NEW x \in T PROVE T \ {x} \in X
      <4>1. Cardinality(T \ {x}) = n
        BY <1>1, <2>1, FS_RemoveElement
      <4>2. T \ {x} \in SUBSET S
        OBVIOUS
      <4>3. QED
        BY <1>3, <4>1, <4>2
    <3>3. QED
      BY <3>1, <3>2
  <2>2. QED
    BY <2>1
<1> HIDE DEF N
<1>4. Nat \subseteq N
  BY <1>2, <1>3, NatSetInduction
<1>5. QED
  BY <1>1, <1>4 DEF N

(* Recursion over the subsets of a finite set: one element after the other *)
(* is taken out, chosen by ch.                                             *)
IsRecursion(g, S, base, ch, step) ==
    \A T \in SUBSET S :
        g[T] = IF T = {} THEN base ELSE step[<<T, g[T \ {ch[T]}]>>]

LEMMA RecursionExists ==
    ASSUME NEW S, IsFiniteSet(S), NEW V, NEW base \in V, NEW ch, NEW step,
           \A T \in SUBSET S : T # {} => ch[T] \in T,
           \A T \in SUBSET S : \A v \in V : T # {} => step[<<T, v>>] \in V
    PROVE  \E g \in [SUBSET S -> V] : IsRecursion(g, S, base, ch, step)
<1> DEFINE L(n) == {T \in SUBSET S : Cardinality(T) <= n}
           Eq(g, T) == g[T] = IF T = {} THEN base ELSE step[<<T, g[T \ {ch[T]}]>>]
           N == {n \in Nat : \E g \in [L(n) -> V] : \A T \in L(n) : Eq(g, T)}
<1>1. \A T \in SUBSET S : IsFiniteSet(T) /\ Cardinality(T) \in Nat
  BY FS_Subset, FS_CardinalityType
<1>2. ASSUME NEW T \in SUBSET S, T # {}
      PROVE  T \ {ch[T]} \in SUBSET S /\ Cardinality(T \ {ch[T]}) = Cardinality(T) - 1
  <2>1. ch[T] \in T
    BY <1>2
  <2>2. QED
    BY <1>1, <2>1, FS_RemoveElement
<1>3. 0 \in N
  <2>1. L(0) = {{}}
    BY <1>1, FS_EmptySet
  <2>2. [T \in L(0) |-> base] \in [L(0) -> V] /\ \A T \in L(0) : Eq([U \in L(0) |-> base], T)
    BY <2>1
  <2>3. QED
    BY <2>2
<1>4. ASSUME NEW n \in Nat, n \in N PROVE n + 1 \in N
  <2>1. PICK g \in [L(n) -> V] : \A T \in L(n) : Eq(g, T)
    BY <1>4
  <2> DEFINE h == [T \in L(n + 1) |->
                     IF T \in L(n) THEN g[T] ELSE step[<<T, g[T \ {ch[T]}]>>]]
  <2>2. ASSUME NEW T \in L(n + 1), T # {} PROVE T \ {ch[T]} \in L(n)
    BY <1>1, <1>2, <2>2
  <2>3. L(n) \subseteq L(n + 1) /\ {} \in L(n)
    BY <1>1, FS_EmptySet
  <2>4. h \in [L(n + 1) -> V]
    <3>1. ASSUME NEW T \in L(n + 1) PROVE h[T] \in V
      <4>1. CASE T \in L(n)
        BY <4>1
      <4>2. CASE T \notin L(n)
        <5>1. T # {} /\ T \in SUBSET S
          BY <2>3, <4>2
        <5>2. g[T \ {ch[T]}] \in V
          BY <2>2, <5>1
        <5>3. h[T] = step[<<T, g[T \ {ch[T]}]>>]
          BY <4>2
        <5> HIDE DEF L, h
        <5>4. QED
          BY <5>1, <5>2, <5>3
      <4>3. QED
        BY <4>1, <4>2
    <3>2. QED
      BY <3>1
  <2>5. ASSUME NEW T \in L(n + 1) PROVE Eq(h, T)
    <3>1. \A U \in L(n) : h[U] = g[U]
      BY <2>3
    <3>2. CASE T \in L(n)
      <4>1. T # {} => T \ {ch[T]} \in L(n)
        BY <2>2
      <4> HIDE DEF L, h
      <4>2. QED
        BY <2>1, <3>1, <3>2, <4>1
    <3>3. CASE T \notin L(n)
      <4>1. T # {} /\ T \ {ch[T]} \in L(n)
        BY <2>2, <2>3, <3>3
      <4>2. h[T] = step[<<T, g[T \ {ch[T]}]>>]
        BY <3>3
      <4> HIDE DEF L, h
      <4>3. QED
        BY <3>1, <4>1, <4>2
    <3>4. QED
      BY <3>2, <3>3
  <2> HIDE DEF h, L, Eq
  <2>6. QED
    BY <2>4, <2>5
<1>5. PICK n \in Nat : L(n) = SUBSET S
  <2>1. \A T \in SUBSET S : Cardinality(T) <= Cardinality(S)
    BY FS_Subset
  <2>2. QED
    BY <1>1, <2>1
<1> HIDE DEF N
<1>6. n \in N
  BY <1>3, <1>4, NatSetInduction
<1>7. QED
  BY <1>5, <1>6 DEF N, IsRecursion

(* What it computes does not depend on the larger set it is computed for.  *)
LEMMA RecursionIsLocal ==
    ASSUME NEW S, IsFiniteSet(S), NEW U \in SUBSET S, NEW base, NEW ch, NEW step, NEW g, NEW h,
           \A T \in SUBSET S : T # {} => ch[T] \in T,
           IsRecursion(g, S, base, ch, step), IsRecursion(h, U, base, ch, step)
    PROVE  g[U] = h[U]
<1> DEFINE X == {T \in SUBSET U : g[T] = h[T]}
<1>1. {} \in X
  BY DEF IsRecursion
<1>2. ASSUME NEW T \in SUBSET U, T # {}, \A x \in T : T \ {x} \in X PROVE T \in X
  <2>1. ch[T] \in T /\ T \in SUBSET S
    BY <1>2
  <2>2. g[T \ {ch[T]}] = h[T \ {ch[T]}]
    BY <1>2, <2>1
  <2>3. QED
    BY <1>2, <2>1, <2>2 DEF IsRecursion
<1>3. IsFiniteSet(U)
  BY FS_Subset
<1> HIDE DEF X
<1>4. SUBSET U \subseteq X
  BY <1>1, <1>2, <1>3, SubsetInduction
<1>5. QED
  BY <1>4 DEF X

-----------------------------------------------------------------------------
SumOver(f, S) == FoldFunctionOnSet(LAMBDA x, y : x + y, 0, f, S)

(* The terms of a sum, one after the other in the order FoldFunctionOnSet  *)
(* takes.                                                                  *)
Chosen(S) == [T \in SUBSET S |-> CHOOSE x \in T : TRUE]
Adding(f, S) == [Tv \in (SUBSET S) \X Int |-> f[Chosen(S)[Tv[1]]] + Tv[2]]

LEMMA ChosenIsElement == ASSUME NEW S, NEW T \in SUBSET S, T # {} PROVE Chosen(S)[T] \in T
<1>1. Chosen(S)[T] = CHOOSE x \in T : TRUE
  BY DEF Chosen
<1>2. (CHOOSE x \in T : TRUE) \in T
  OBVIOUS
<1>3. QED
  BY <1>1, <1>2

LEMMA SumRecursion ==
    ASSUME NEW S, IsFiniteSet(S), NEW f, \A x \in S : f[x] \in Int
    PROVE  \E g \in [SUBSET S -> Int] :
              SumOver(f, S) = g[S] /\ IsRecursion(g, S, 0, Chosen(S), Adding(f, S))
<1> DEFINE Body(g) == [s \in SUBSET S |->
                         IF s = {} THEN 0
                         ELSE f[CHOOSE x \in s : TRUE] + g[s \ {CHOOSE x \in s : TRUE}]]
           it == CHOOSE g : g = Body(g)
<1>1. PICK g \in [SUBSET S -> Int] : IsRecursion(g, S, 0, Chosen(S), Adding(f, S))
  <2>1. ASSUME NEW T \in SUBSET S, NEW v \in Int, T # {} PROVE Adding(f, S)[<<T, v>>] \in Int
    <3>1. Adding(f, S)[<<T, v>>] = f[Chosen(S)[T]] + v
      BY DEF Adding
    <3>2. QED
      BY <2>1, <3>1, ChosenIsElement
  <2>2. \A T \in SUBSET S : T # {} => Chosen(S)[T] \in T
    BY ChosenIsElement
  <2> DEFINE add == Adding(f, S)
             ch == Chosen(S)
  <2>3. /\ \A T \in SUBSET S : \A v \in Int : T # {} => add[<<T, v>>] \in Int
        /\ \A T \in SUBSET S : T # {} => ch[T] \in T
        /\ 0 \in Int
    BY <2>1, <2>2
  <2> HIDE DEF add, ch
  <2>4. \E g \in [SUBSET S -> Int] : IsRecursion(g, S, 0, ch, add)
    BY <2>3, RecursionExists, Zenon
  <2>5. QED
    BY <2>4 DEF add, ch
<1>2. ASSUME NEW h \in [SUBSET S -> Int], NEW T \in SUBSET S, T # {}
      PROVE  Adding(f, S)[<<T, h[T \ {Chosen(S)[T]}]>>]
             = f[CHOOSE x \in T : TRUE] + h[T \ {CHOOSE x \in T : TRUE}]
  <2>1. Chosen(S)[T] = CHOOSE x \in T : TRUE
    BY DEF Chosen
  <2>2. h[T \ {Chosen(S)[T]}] \in Int
    OBVIOUS
  <2>3. QED
    BY <2>1, <2>2 DEF Adding
<1>3. \A T \in SUBSET S : g[T] = Body(g)[T]
  <2>1. ASSUME NEW T \in SUBSET S PROVE g[T] = Body(g)[T]
    <3>1. CASE T = {}
      BY <1>1, <3>1 DEF IsRecursion
    <3>2. CASE T # {}
      BY <1>1, <1>2, <3>2 DEF IsRecursion
    <3>3. QED
      BY <3>1, <3>2
  <2>2. QED
    BY <2>1
<1>4. g = Body(g)
  BY <1>3
<1>5. it = Body(it)
  BY <1>4, Zenon
<1> DEFINE X == {T \in SUBSET S : it[T] = g[T]}
<1>6. {} \in X
  BY <1>3, <1>5
<1>7. ASSUME NEW T \in SUBSET S, T # {}, \A x \in T : T \ {x} \in X PROVE T \in X
  <2> DEFINE x == CHOOSE y \in T : TRUE
  <2>1. x \in T /\ T \ {x} \in SUBSET S
    BY <1>7
  <2>2. it[T \ {x}] = g[T \ {x}]
    BY <1>7, <2>1
  <2>3. g[T] = Body(g)[T] /\ it[T] = Body(it)[T]
    BY <1>3, <1>5
  <2>4. Body(g)[T] = f[x] + g[T \ {x}] /\ Body(it)[T] = f[x] + it[T \ {x}]
    <3> HIDE DEF it
    <3>1. QED
      BY <1>7
  <2>5. it[T] = g[T]
    BY <2>2, <2>3, <2>4, Zenon
  <2>6. QED
    BY <2>5
<1> HIDE DEF it, X
<1>8. S \in X
  BY <1>6, <1>7, SubsetInduction
<1>9. SumOver(f, S) = it[S]
  BY DEF SumOver, FoldFunctionOnSet, MapThenFoldSet, it
<1>10. QED
  BY <1>1, <1>8, <1>9 DEF X

(* A sum is an integer, nothing adds up to zero, and one term is added at  *)
(* a time.                                                                 *)
LEMMA SumEquation ==
    ASSUME NEW S, IsFiniteSet(S), NEW f, \A x \in S : f[x] \in Int
    PROVE  /\ SumOver(f, S) \in Int
           /\ S = {} => SumOver(f, S) = 0
           /\ S # {} => LET x == CHOOSE y \in S : TRUE
                        IN  x \in S /\ SumOver(f, S) = f[x] + SumOver(f, S \ {x})
<1> DEFINE R(k, T) == IsRecursion(k, T, 0, Chosen(T), Adding(f, T))
<1>1. PICK g \in [SUBSET S -> Int] : SumOver(f, S) = g[S] /\ R(g, S)
  BY SumRecursion
<1>2. S = {} => g[S] = 0
  BY <1>1 DEF IsRecursion
<1>3. ASSUME S # {} PROVE LET x == CHOOSE y \in S : TRUE
                          IN  x \in S /\ SumOver(f, S) = f[x] + SumOver(f, S \ {x})
  <2> DEFINE x == CHOOSE y \in S : TRUE
             U == S \ {x}
  <2>1. x \in S
    BY <1>3
  <2>2. Chosen(S)[S] = x /\ U \in SUBSET S
    BY DEF Chosen
  <2> HIDE DEF x
  <2>3. g[S] = f[x] + g[U]
    <3>1. g[S] = Adding(f, S)[<<S, g[U]>>]
      BY <1>1, <1>3, <2>2 DEF IsRecursion
    <3>2. g[U] \in Int
      BY <2>2
    <3>3. QED
      BY <2>2, <3>1, <3>2 DEF Adding
  <2>4. IsFiniteSet(U) /\ \A y \in U : f[y] \in Int
    BY FS_Subset
  <2>5. PICK h \in [SUBSET U -> Int] : SumOver(f, U) = h[U] /\ R(h, U)
    BY <2>4, SumRecursion
  <2>6. IsRecursion(h, U, 0, Chosen(S), Adding(f, S))
    <3>1. ASSUME NEW T \in SUBSET U, T # {}
          PROVE  h[T] = Adding(f, S)[<<T, h[T \ {Chosen(S)[T]}]>>]
      <4>1. Chosen(U)[T] = Chosen(S)[T] /\ T \in SUBSET S
        BY DEF Chosen
      <4>2. h[T] = Adding(f, U)[<<T, h[T \ {Chosen(S)[T]}]>>]
        BY <2>5, <3>1, <4>1 DEF IsRecursion
      <4>3. h[T \ {Chosen(S)[T]}] \in Int
        OBVIOUS
      <4>4. QED
        BY <4>1, <4>2, <4>3 DEF Adding
    <3>2. h[{}] = 0
      BY <2>5 DEF IsRecursion
    <3>3. QED
      BY <3>1, <3>2 DEF IsRecursion
  <2>7. \A T \in SUBSET S : T # {} => Chosen(S)[T] \in T
    BY ChosenIsElement
  <2>8. g[U] = h[U]
    <3> DEFINE ch == Chosen(S)
               add == Adding(f, S)
    <3>1. /\ U \in SUBSET S /\ \A T \in SUBSET S : T # {} => ch[T] \in T
          /\ IsRecursion(g, S, 0, ch, add) /\ IsRecursion(h, U, 0, ch, add)
      BY <1>1, <2>2, <2>6, <2>7
    <3> HIDE DEF ch, add, U
    <3>2. QED
      BY <3>1, RecursionIsLocal
  <2>9. QED
    BY <1>1, <2>1, <2>3, <2>5, <2>8 DEF x
<1>4. QED
  BY <1>1, <1>2, <1>3

(* Any term can be taken out first.                                        *)
LEMMA SumTakeOut ==
    ASSUME NEW S, IsFiniteSet(S), NEW f, \A x \in S : f[x] \in Int, NEW x \in S
    PROVE  SumOver(f, S) = f[x] + SumOver(f, S \ {x})
<1> DEFINE X == {T \in SUBSET S : \A y \in T : SumOver(f, T) = f[y] + SumOver(f, T \ {y})}
<1>1. \A T \in SUBSET S : IsFiniteSet(T) /\ \A y \in T : f[y] \in Int
  BY FS_Subset
<1>2. ASSUME NEW T \in SUBSET S, T # {}, \A y \in T : T \ {y} \in X PROVE T \in X
  <2>1. ASSUME NEW y \in T PROVE SumOver(f, T) = f[y] + SumOver(f, T \ {y})
    <3> DEFINE z == CHOOSE t \in T : TRUE
    <3>1. z \in T /\ SumOver(f, T) = f[z] + SumOver(f, T \ {z})
      BY <1>1, <1>2, SumEquation
    <3> HIDE DEF z
    <3>2. CASE y # z
      <4>1. SumOver(f, T \ {z}) = f[y] + SumOver(f, (T \ {z}) \ {y})
        BY <1>2, <3>1, <3>2
      <4>2. SumOver(f, T \ {y}) = f[z] + SumOver(f, (T \ {y}) \ {z})
        BY <1>2, <3>1, <3>2
      <4>3. (T \ {z}) \ {y} = (T \ {y}) \ {z} /\ (T \ {z}) \ {y} \in SUBSET S
        OBVIOUS
      <4>4. SumOver(f, (T \ {z}) \ {y}) \in Int /\ f[y] \in Int /\ f[z] \in Int
        BY <1>1, <3>1, <4>3, SumEquation
      <4>5. SumOver(f, (T \ {y}) \ {z}) = SumOver(f, (T \ {z}) \ {y})
        BY <4>3
      <4>6. QED
        BY <3>1, <4>1, <4>2, <4>4, <4>5
    <3>3. QED
      BY <3>1, <3>2
  <2>2. QED
    BY <2>1
<1>3. {} \in X
  OBVIOUS
<1> HIDE DEF X
<1>4. S \in X
  BY <1>2, <1>3, SubsetInduction
<1>5. QED
  BY <1>4 DEF X

(* Equal terms, equal sums.                                                *)
LEMMA SumCongruence ==
    ASSUME NEW S, IsFiniteSet(S), NEW f, NEW g, \A x \in S : f[x] \in Int /\ g[x] = f[x]
    PROVE  SumOver(f, S) = SumOver(g, S)
<1> DEFINE X == {T \in SUBSET S : SumOver(f, T) = SumOver(g, T)}
<1>1. \A T \in SUBSET S : IsFiniteSet(T) /\ \A y \in T : f[y] \in Int /\ g[y] \in Int
  BY FS_Subset
<1>2. {} \in X
  BY <1>1, SumEquation
<1>3. ASSUME NEW T \in SUBSET S, T # {}, \A y \in T : T \ {y} \in X PROVE T \in X
  <2>1. PICK y \in T : TRUE
    BY <1>3
  <2>2. /\ SumOver(f, T) = f[y] + SumOver(f, T \ {y})
        /\ SumOver(g, T) = g[y] + SumOver(g, T \ {y})
    BY <1>1, SumTakeOut
  <2>3. SumOver(f, T \ {y}) = SumOver(g, T \ {y}) /\ f[y] = g[y]
    BY <1>3
  <2>4. QED
    BY <2>2, <2>3
<1> HIDE DEF X
<1>4. S \in X
  BY <1>2, <1>3, SubsetInduction
<1>5. QED
  BY <1>4 DEF X

(* The sum of two functions is the sum of their sums.                      *)
LEMMA SumOfBoth ==
    ASSUME NEW S, IsFiniteSet(S), NEW f, NEW g, NEW h,
           \A x \in S : f[x] \in Int /\ g[x] \in Int /\ h[x] = f[x] + g[x]
    PROVE  SumOver(f, S) + SumOver(g, S) = SumOver(h, S)
<1> DEFINE X == {T \in SUBSET S : SumOver(f, T) + SumOver(g, T) = SumOver(h, T)}
<1>1. \A T \in SUBSET S : /\ IsFiniteSet(T)
                          /\ \A y \in T : f[y] \in Int
                          /\ \A y \in T : g[y] \in Int
                          /\ \A y \in T : h[y] \in Int
  BY FS_Subset
<1>2. {} \in X
  <2>1. SumOver(f, {}) = 0 /\ SumOver(g, {}) = 0 /\ SumOver(h, {}) = 0
    BY <1>1, SumEquation
  <2>2. QED
    BY <2>1
<1>3. ASSUME NEW T \in SUBSET S, T # {}, \A y \in T : T \ {y} \in X PROVE T \in X
  <2>1. PICK y \in T : TRUE
    BY <1>3
  <2>2. /\ SumOver(f, T) = f[y] + SumOver(f, T \ {y})
        /\ SumOver(g, T) = g[y] + SumOver(g, T \ {y})
        /\ SumOver(h, T) = h[y] + SumOver(h, T \ {y})
    BY <1>1, SumTakeOut
  <2>3. SumOver(f, T \ {y}) + SumOver(g, T \ {y}) = SumOver(h, T \ {y}) /\ h[y] = f[y] + g[y]
    BY <1>3
  <2>4. SumOver(f, T \ {y}) \in Int /\ SumOver(g, T \ {y}) \in Int /\ f[y] \in Int /\ g[y] \in Int
    <3>1. T \ {y} \in SUBSET S
      OBVIOUS
    <3>2. QED
      BY <1>1, <3>1, SumEquation
  <2>5. QED
    BY <2>2, <2>3, <2>4
<1> HIDE DEF X
<1>4. S \in X
  BY <1>2, <1>3, SubsetInduction
<1>5. QED
  BY <1>4 DEF X

(* What two of them give each other leaves the sum as it was.              *)
LEMMA SumConserved ==
    ASSUME NEW S, IsFiniteSet(S), NEW f, NEW g, NEW p \in S, NEW q \in S, p # q,
           \A x \in S : f[x] \in Int /\ g[x] \in Int,
           \A x \in S \ {p, q} : f[x] = g[x],
           f[p] + f[q] = g[p] + g[q]
    PROVE  SumOver(f, S) = SumOver(g, S)
<1> DEFINE T == (S \ {p}) \ {q}
<1>1. IsFiniteSet(S \ {p}) /\ IsFiniteSet(T) /\ q \in S \ {p}
  BY FS_Subset
<1>2. SumOver(f, T) \in Int /\ SumOver(g, T) = SumOver(f, T)
  <2>1. \A x \in T : f[x] \in Int /\ g[x] \in Int
    OBVIOUS
  <2>2. \A x \in T : f[x] = g[x]
    OBVIOUS
  <2>3. SumOver(f, T) \in Int
    <3> HIDE DEF T
    <3>1. QED
      BY <1>1, <2>1, SumEquation
  <2>4. SumOver(g, T) = SumOver(f, T)
    <3> HIDE DEF T
    <3>1. QED
      BY <1>1, <2>1, <2>2, SumCongruence
  <2>5. QED
    BY <2>3, <2>4
<1>3. SumOver(f, S) = f[p] + SumOver(f, S \ {p}) /\ SumOver(f, S \ {p}) = f[q] + SumOver(f, T)
  BY <1>1, SumTakeOut
<1>4. SumOver(g, S) = g[p] + SumOver(g, S \ {p}) /\ SumOver(g, S \ {p}) = g[q] + SumOver(g, T)
  BY <1>1, SumTakeOut
<1> HIDE DEF T
<1>5. QED
  BY <1>2, <1>3, <1>4

-----------------------------------------------------------------------------
(* A finite set of numbers has a greatest one.                             *)
LEMMA MaxIsElement ==
    ASSUME NEW S \in SUBSET Int, IsFiniteSet(S), S # {}
    PROVE  Max(S) \in S /\ \A y \in S : Max(S) >= y
<1> DEFINE X == {T \in SUBSET S : T # {} => \E x \in T : \A y \in T : x >= y}
<1>1. ASSUME NEW T \in SUBSET S, T # {}, \A x \in T : T \ {x} \in X PROVE T \in X
  <2>1. PICK x \in T : TRUE
    BY <1>1
  <2>2. CASE T = {x}
    <3>1. x >= x
      OBVIOUS
    <3>2. QED
      BY <2>2, <3>1
  <2>3. CASE T # {x}
    <3>1. PICK z \in T \ {x} : \A y \in T \ {x} : z >= y
      BY <1>1, <2>1, <2>3
    <3>2. x \in Int /\ z \in Int /\ \A y \in T : y \in Int
      OBVIOUS
    <3>3. CASE x >= z
      BY <3>1, <3>2, <3>3
    <3>4. CASE z >= x
      BY <3>1, <3>2, <3>4
    <3>5. QED
      BY <3>2, <3>3, <3>4
  <2>4. QED
    BY <2>2, <2>3
<1>2. {} \in X
  OBVIOUS
<1> HIDE DEF X
<1>3. S \in X
  BY <1>1, <1>2, SubsetInduction
<1>4. \E x \in S : \A y \in S : x >= y
  BY <1>3 DEF X
<1>5. Max(S) = CHOOSE x \in S : \A y \in S : x >= y
  BY DEF Max
<1>6. QED
  BY <1>4, <1>5, Zenon

(* The least element of a set of integers that has one below all others.   *)
LEMMA MinIsElement ==
    ASSUME NEW S, IsFiniteSet(S), S \subseteq Int, S # {}
    PROVE  Min(S) \in S /\ \A y \in S : Min(S) <= y
<1> DEFINE N == {-x : x \in S}
<1>1. IsFiniteSet(N)
  <2> DEFINE f == [x \in S |-> -x]
  <2>1. f \in Surjection(S, N)
    BY DEF Surjection
  <2>2. QED
    BY <2>1, FS_Surjection
<1>2. N \subseteq Int /\ N # {}
  OBVIOUS
<1>3. Max(N) \in N /\ \A y \in N : Max(N) >= y
  BY <1>1, <1>2, MaxIsElement
<1>4. PICK x \in S : \A y \in S : x <= y
  <2>1. PICK x \in S : Max(N) = -x
    BY <1>3
  <2>2. \A y \in S : -x >= -y
    BY <1>3, <2>1
  <2>3. QED
    BY <2>2
<1>5. QED
  BY <1>4 DEF Min

(* The weights of a sequence's elements add up to a natural number.        *)
WeightOf(w, s) == FoldLeft(LAMBDA size, p : size + w[p], 0, s)

Greatest(D) == [T \in SUBSET D |-> Max(T)]
Weighing(w, s, D) == [Tv \in (SUBSET D) \X Nat |-> Tv[2] + w[s[Greatest(D)[Tv[1]]]]]

LEMMA WeightIsNatural ==
    ASSUME NEW S, NEW s \in Seq(S), NEW w, \A k \in 1..Len(s) : w[s[k]] \in Nat
    PROVE  WeightOf(w, s) \in Nat
<1> DEFINE D == DOMAIN s
           Body(g) == [T \in SUBSET D |->
                         IF T = {} THEN 0
                         ELSE g[T \ {Max(T)}] + w[s[Max(T)]]]
           it == CHOOSE g : g = Body(g)
<1>1. D = 1..Len(s) /\ Len(s) \in Nat /\ IsFiniteSet(D) /\ D \subseteq Int
  BY FS_Interval
<1>2. ASSUME NEW T \in SUBSET D, T # {} PROVE Max(T) \in T
  BY <1>1, <1>2, FS_Subset, MaxIsElement
<1>3. ASSUME NEW T \in SUBSET D, T # {}, NEW v \in Nat
      PROVE  /\ Greatest(D)[T] = Max(T)
             /\ Weighing(w, s, D)[<<T, v>>] = v + w[s[Max(T)]]
             /\ v + w[s[Max(T)]] \in Nat
  <2>1. Greatest(D)[T] = Max(T)
    BY DEF Greatest
  <2>2. Weighing(w, s, D)[<<T, v>>] = v + w[s[Greatest(D)[T]]]
    BY DEF Weighing
  <2>3. w[s[Max(T)]] \in Nat
    BY <1>1, <1>2, <1>3
  <2>4. QED
    BY <2>1, <2>2, <2>3
<1> DEFINE ch == Greatest(D)
           step == Weighing(w, s, D)
<1>4. /\ \A T \in SUBSET D : T # {} => ch[T] \in T
      /\ \A T \in SUBSET D : \A v \in Nat : T # {} => step[<<T, v>>] \in Nat
  <2>1. ASSUME NEW T \in SUBSET D, T # {} PROVE ch[T] \in T
    <3>1. ch[T] = Max(T)
      BY <1>3, <2>1, 0 \in Nat
    <3>2. QED
      BY <1>2, <2>1, <3>1
  <2>2. ASSUME NEW T \in SUBSET D, NEW v \in Nat, T # {} PROVE step[<<T, v>>] \in Nat
    BY <1>3, <2>2
  <2> HIDE DEF ch, step, D
  <2>3. QED
    BY <2>1, <2>2
<1> HIDE DEF D, ch, step
<1>5. PICK g \in [SUBSET D -> Nat] : IsRecursion(g, D, 0, ch, step)
  <2>1. 0 \in Nat
    OBVIOUS
  <2>2. QED
    BY <1>1, <1>4, <2>1, RecursionExists, Zenon
<1>6. ASSUME NEW T \in SUBSET D PROVE g[T] = Body(g)[T]
  <2>1. CASE T = {}
    BY <1>5, <2>1 DEF IsRecursion
  <2>2. CASE T # {}
    <3>1. g[T] = step[<<T, g[T \ {ch[T]}]>>]
      BY <1>5, <2>2 DEF IsRecursion
    <3>2. ch[T] = Max(T) /\ g[T \ {ch[T]}] \in Nat
      <4>1. 0 \in Nat
        OBVIOUS
      <4>2. QED
        BY <1>3, <2>2, <4>1 DEF ch
    <3>3. step[<<T, g[T \ {ch[T]}]>>] = g[T \ {ch[T]}] + w[s[Max(T)]]
      BY <1>3, <2>2, <3>2 DEF step
    <3>4. QED
      BY <2>2, <3>1, <3>2, <3>3
  <2>3. QED
    BY <2>1, <2>2
<1>7. g = Body(g)
  BY <1>6
<1>8. it = Body(it)
  BY <1>7, Zenon
<1> DEFINE X == {T \in SUBSET D : it[T] = g[T]}
<1>9. {} \in X
  BY <1>6, <1>8
<1>10. ASSUME NEW T \in SUBSET D, T # {}, \A x \in T : T \ {x} \in X PROVE T \in X
  <2>1. it[T \ {Max(T)}] = g[T \ {Max(T)}]
    BY <1>2, <1>10
  <2>2. g[T] = g[T \ {Max(T)}] + w[s[Max(T)]]
    BY <1>6, <1>10
  <2>3. it[T] = it[T \ {Max(T)}] + w[s[Max(T)]]
    <3>1. it[T] = Body(it)[T]
      BY <1>8, Zenon
    <3> HIDE DEF it
    <3>2. QED
      BY <1>10, <3>1
  <2>4. it[T] = g[T]
    BY <2>1, <2>2, <2>3
  <2> HIDE DEF it
  <2>5. QED
    BY <2>4
<1> HIDE DEF it, X
<1>11. D \in X
  <2>1. IsFiniteSet(D)
    BY <1>1
  <2>2. SUBSET D \subseteq X
    BY <1>9, <1>10, <2>1, SubsetInduction
  <2>3. QED
    BY <2>2
<1>12. WeightOf(w, s) = it[D]
  BY DEF WeightOf, FoldLeft, MapThenFoldSet, it, D
<1>13. QED
  BY <1>11, <1>12 DEF X

-----------------------------------------------------------------------------
(* Changes of a list: an element taken out, every occurrence of one        *)
(* replaced, an element put in front.                                      *)

(* The rest of a list, from a position on.                                 *)
LEMMA SuffixLemma ==
    ASSUME NEW S, NEW s \in Seq(S), NEW n \in 1..Len(s) + 1
    PROVE  LET r == SubSeq(s, n, Len(s))
           IN  /\ r \in Seq(S) /\ Len(r) = Len(s) - n + 1
               /\ \A k \in 1..Len(s) - n + 1 : r[k] = s[n + k - 1]
<1> DEFINE r == SubSeq(s, n, Len(s))
<1>1. Len(s) \in Nat /\ n \in Int /\ \A k \in 1..Len(s) : s[k] \in S
  BY LenProperties
<1>2. \A k \in n..Len(s) : s[k] \in S
  BY <1>1
<1>3. /\ r \in Seq(S) /\ Len(r) = (IF n <= Len(s) THEN Len(s) - n + 1 ELSE 0)
      /\ \A k \in 1..Len(s) - n + 1 : r[k] = s[n + k - 1]
  BY <1>1, <1>2, SubSeqProperties
<1> HIDE DEF r
<1>4. ~(n <= Len(s)) => Len(s) - n + 1 = 0
  BY <1>1
<1>5. QED
  BY <1>3, <1>4 DEF r

LEMMA RemoveAtLemma ==
    ASSUME NEW S, NEW s \in Seq(S), NEW n \in 1..Len(s)
    PROVE  /\ RemoveAt(s, n) \in Seq(S) /\ Len(RemoveAt(s, n)) = Len(s) - 1
           /\ \A k \in 1..Len(s) - 1 : RemoveAt(s, n)[k] = s[IF k < n THEN k ELSE k + 1]
<1> DEFINE a == SubSeq(s, 1, n - 1)
           b == SubSeq(s, n + 1, Len(s))
<1>1. Len(s) \in Nat /\ n \in Int /\ 1 <= n /\ n <= Len(s) /\ \A k \in 1..Len(s) : s[k] \in S
  BY LenProperties
<1>2. a \in Seq(S) /\ Len(a) = n - 1 /\ \A k \in 1..n - 1 : a[k] = s[k]
  <2>1. n - 1 \in Int /\ \A k \in 1..n - 1 : s[k] \in S /\ 1 + k - 1 = k
    BY <1>1
  <2>2. /\ a \in Seq(S) /\ Len(a) = (IF 1 <= n - 1 THEN n - 1 - 1 + 1 ELSE 0)
        /\ \A k \in 1..n - 1 - 1 + 1 : a[k] = s[1 + k - 1]
    BY <2>1, SubSeqProperties
  <2> HIDE DEF a
  <2>3. QED
    BY <1>1, <2>1, <2>2
<1>3. b \in Seq(S) /\ Len(b) = Len(s) - n /\ \A k \in 1..Len(s) - n : b[k] = s[n + k]
  <2>1. n + 1 \in 1..Len(s) + 1 /\ Len(s) - (n + 1) + 1 = Len(s) - n
    BY <1>1
  <2>2. /\ b \in Seq(S) /\ Len(b) = Len(s) - (n + 1) + 1
        /\ \A k \in 1..Len(s) - (n + 1) + 1 : b[k] = s[n + 1 + k - 1]
    BY <2>1, SuffixLemma
  <2> HIDE DEF b
  <2>3. ASSUME NEW k \in 1..Len(s) - n PROVE b[k] = s[n + k]
    <3>1. n + 1 + k - 1 = n + k
      BY <1>1
    <3>2. b[k] = s[n + 1 + k - 1]
      BY <2>1, <2>2
    <3>3. QED
      BY <3>1, <3>2
  <2>4. QED
    BY <2>1, <2>2, <2>3
<1>4. RemoveAt(s, n) = a \o b
  BY DEF RemoveAt
<1> HIDE DEF a, b
<1>5. /\ a \o b \in Seq(S) /\ Len(a \o b) = Len(s) - 1
      /\ \A k \in 1..Len(s) - 1 : (a \o b)[k] = IF k <= n - 1 THEN a[k] ELSE b[k - (n - 1)]
  <2>1. Len(a) + Len(b) = Len(s) - 1 /\ Len(a) = n - 1
    BY <1>1, <1>2, <1>3
  <2>2. a \in Seq(S) /\ b \in Seq(S)
    BY <1>2, <1>3
  <2>3. /\ a \o b \in Seq(S) /\ Len(a \o b) = Len(a) + Len(b)
        /\ \A k \in 1..Len(a) + Len(b) :
              (a \o b)[k] = IF k <= Len(a) THEN a[k] ELSE b[k - Len(a)]
    BY <2>2, ConcatProperties
  <2>4. QED
    BY <2>1, <2>3
<1>6. ASSUME NEW k \in 1..Len(s) - 1
      PROVE  (a \o b)[k] = s[IF k < n THEN k ELSE k + 1]
  <2>1. CASE k < n
    <3>1. k \in 1..n - 1 /\ k <= n - 1
      BY <1>1, <2>1
    <3>2. QED
      BY <1>2, <1>5, <2>1, <3>1
  <2>2. CASE ~(k < n)
    <3>1. ~(k <= n - 1) /\ k - (n - 1) \in 1..Len(s) - n /\ n + (k - (n - 1)) = k + 1
      BY <1>1, <2>2
    <3>2. QED
      BY <1>3, <1>5, <2>2, <3>1
  <2>3. QED
    BY <2>1, <2>2
<1>7. QED
  BY <1>4, <1>5, <1>6

FirstAt(s, e) == Min({k \in 1..Len(s) : s[k] = e})

LEMMA RemoveFirstLemma ==
    ASSUME NEW S, NEW s \in Seq(S), NEW e \in ToSet(s)
    PROVE  LET n == FirstAt(s, e)
           IN /\ n \in 1..Len(s) /\ s[n] = e
              /\ RemoveFirst(s, e) \in Seq(S) /\ Len(RemoveFirst(s, e)) = Len(s) - 1
              /\ \A k \in 1..Len(s) - 1 :
                    RemoveFirst(s, e)[k] = s[IF k < n THEN k ELSE k + 1]
<1> DEFINE I == {k \in 1..Len(s) : s[k] = e}
           n == Min(I)
<1>0. FirstAt(s, e) = n
  BY DEF FirstAt
<1>1. Len(s) \in Nat /\ DOMAIN s = 1..Len(s) /\ \A k \in 1..Len(s) : s[k] \in S
  BY LenProperties
<1>2. n \in I /\ \A k \in I : n <= k
  <2>1. I # {} /\ I \in SUBSET Int
    BY <1>1 DEF ToSet
  <2>2. IsFiniteSet(I)
    BY FS_Subset, FS_Interval
  <2> HIDE DEF I
  <2>3. QED
    BY <2>1, <2>2, MinIsElement
<1>3. n \in 1..Len(s) /\ s[n] = e /\ \A k \in 1..n - 1 : s[k] # e
  <2>1. n \in 1..Len(s) /\ s[n] = e
    BY <1>2
  <2> HIDE DEF n
  <2>2. ASSUME NEW k \in 1..n - 1, s[k] = e PROVE FALSE
    BY <1>1, <1>2, <2>1, <2>2
  <2>3. QED
    BY <2>1, <2>2
<1>4. RemoveFirst(s, e) = RemoveAt(s, n)
  <2>1. \E i \in 1..Len(s) : s[i] = e
    BY <1>3
  <2>2. SelectInSeq(s, LAMBDA v : v = e) = n
    BY <1>2 DEF SelectInSeq
  <2>3. QED
    BY <2>1, <2>2 DEF RemoveFirst
<1> HIDE DEF n, I
<1>5. /\ RemoveAt(s, n) \in Seq(S) /\ Len(RemoveAt(s, n)) = Len(s) - 1
      /\ \A k \in 1..Len(s) - 1 : RemoveAt(s, n)[k] = s[IF k < n THEN k ELSE k + 1]
  BY <1>3, RemoveAtLemma
<1>6. QED
  BY <1>0, <1>3, <1>4, <1>5

(* What taking out an element does to the set of elements.                 *)
LEMMA RemoveFirstSet ==
    ASSUME NEW S, NEW s \in Seq(S), NEW e
    PROVE  /\ RemoveFirst(s, e) \in Seq(S)
           /\ ToSet(RemoveFirst(s, e)) \subseteq ToSet(s)
           /\ e \notin ToSet(s) => RemoveFirst(s, e) = s
           /\ IsInjective(s) => /\ IsInjective(RemoveFirst(s, e))
                                /\ ToSet(RemoveFirst(s, e)) = ToSet(s) \ {e}
<1>1. Len(s) \in Nat /\ DOMAIN s = 1..Len(s) /\ ToSet(s) = {s[k] : k \in 1..Len(s)}
  BY LenProperties DEF ToSet
<1>2. CASE e \notin ToSet(s)
  <2>1. RemoveFirst(s, e) = s
    BY <1>1, <1>2 DEF RemoveFirst
  <2>2. QED
    BY <1>2, <2>1
<1>3. CASE e \in ToSet(s)
  <2> DEFINE r == RemoveFirst(s, e)
  <2>1. PICK n \in 1..Len(s) :
        /\ s[n] = e
        /\ r \in Seq(S) /\ Len(r) = Len(s) - 1
        /\ \A k \in 1..Len(s) - 1 : r[k] = s[IF k < n THEN k ELSE k + 1]
    BY <1>3, RemoveFirstLemma
  <2> HIDE DEF r
  <2>2. ToSet(r) = {r[k] : k \in 1..Len(s) - 1} /\ DOMAIN r = 1..Len(s) - 1
    BY <2>1, LenProperties DEF ToSet
  <2>3. ASSUME NEW k \in 1..Len(s) - 1
        PROVE  /\ (IF k < n THEN k ELSE k + 1) \in 1..Len(s)
               /\ (IF k < n THEN k ELSE k + 1) # n
    BY <1>1
  <2>4. ToSet(r) \subseteq ToSet(s)
    BY <1>1, <2>1, <2>2, <2>3
  <2>5. ASSUME IsInjective(s) PROVE IsInjective(r) /\ ToSet(r) = ToSet(s) \ {e}
    <3>1. \A i, j \in 1..Len(s) : s[i] = s[j] => i = j
      BY <1>1, <2>5 DEF IsInjective
    <3>2. ASSUME NEW j \in 1..Len(s) - 1, NEW k \in 1..Len(s) - 1, r[j] = r[k] PROVE j = k
      <4>1. (IF j < n THEN j ELSE j + 1) = (IF k < n THEN k ELSE k + 1)
        BY <2>1, <2>3, <3>1, <3>2
      <4>2. QED
        BY <1>1, <4>1
    <3>3. e \notin ToSet(r)
      BY <2>1, <2>2, <2>3, <3>1
    <3>4. ASSUME NEW j \in 1..Len(s), s[j] # e PROVE s[j] \in ToSet(r)
      <4>1. j # n
        BY <2>1, <3>4
      <4>2. CASE j < n
        <5>1. j \in 1..Len(s) - 1
          BY <1>1, <4>2
        <5>2. r[j] = s[j]
          BY <2>1, <4>2, <5>1
        <5>3. QED
          BY <2>2, <5>1, <5>2
      <4>3. CASE j > n
        <5>1. j - 1 \in 1..Len(s) - 1 /\ ~(j - 1 < n) /\ j - 1 + 1 = j
          BY <1>1, <4>3
        <5>2. r[j - 1] = s[j]
          BY <2>1, <5>1
        <5>3. QED
          BY <2>2, <5>1, <5>2
      <4>4. QED
        BY <1>1, <4>1, <4>2, <4>3
    <3>5. ToSet(s) \ {e} \subseteq ToSet(r)
      BY <1>1, <3>4
    <3>6. QED
      BY <2>2, <2>4, <3>2, <3>3, <3>5 DEF IsInjective
  <2>6. QED
    BY <1>3, <2>1, <2>4, <2>5 DEF r
<1>4. QED
  BY <1>2, <1>3

LEMMA ReplaceAllLemma ==
    ASSUME NEW S, NEW s \in Seq(S), NEW old, NEW new \in S
    PROVE  /\ ReplaceAll(s, old, new) \in Seq(S) /\ Len(ReplaceAll(s, old, new)) = Len(s)
           /\ \A k \in 1..Len(s) : ReplaceAll(s, old, new)[k] = IF s[k] = old THEN new ELSE s[k]
<1>1. Len(s) \in Nat /\ \A k \in 1..Len(s) : s[k] \in S
  BY LenProperties
<1>2. QED
  BY <1>1 DEF ReplaceAll

LEMMA ConsLemma ==
    ASSUME NEW S, NEW s \in Seq(S), NEW e \in S
    PROVE  /\ <<e>> \o s \in Seq(S) /\ Len(<<e>> \o s) = Len(s) + 1
           /\ (<<e>> \o s)[1] = e /\ \A k \in 1..Len(s) : (<<e>> \o s)[k + 1] = s[k]
           /\ ToSet(<<e>> \o s) = ToSet(s) \union {e}
           /\ IsInjective(s) /\ e \notin ToSet(s) => IsInjective(<<e>> \o s)
<1> DEFINE r == <<e>> \o s
<1>1. Len(s) \in Nat /\ ToSet(s) = {s[k] : k \in 1..Len(s)} /\ DOMAIN s = 1..Len(s)
  BY LenProperties DEF ToSet
<1>2. <<e>> \in Seq(S) /\ Len(<<e>>) = 1 /\ <<e>>[1] = e
  OBVIOUS
<1>3. /\ r \in Seq(S) /\ Len(r) = 1 + Len(s)
      /\ \A k \in 1..1 + Len(s) : r[k] = IF k <= 1 THEN <<e>>[k] ELSE s[k - 1]
  BY <1>2, ConcatProperties
<1> HIDE DEF r
<1>4. Len(r) = Len(s) + 1 /\ r[1] = e
  BY <1>1, <1>2, <1>3
<1>5. ASSUME NEW k \in 1..Len(s) PROVE r[k + 1] = s[k]
  <2>1. k + 1 \in 1..1 + Len(s) /\ ~(k + 1 <= 1) /\ k + 1 - 1 = k
    BY <1>1
  <2>2. QED
    BY <1>3, <2>1
<1>6. \A k \in 1..Len(r) : k = 1 \/ (k - 1 \in 1..Len(s) /\ r[k] = s[k - 1])
  <2>1. ASSUME NEW k \in 1..Len(r), k # 1 PROVE k - 1 \in 1..Len(s) /\ r[k] = s[k - 1]
    <3>1. k - 1 \in 1..Len(s) /\ k - 1 + 1 = k
      BY <1>1, <1>4, <2>1
    <3>2. QED
      BY <1>5, <3>1
  <2>2. QED
    BY <2>1
<1>7. ToSet(r) = {r[k] : k \in 1..Len(r)} /\ DOMAIN r = 1..Len(r)
  BY <1>3, LenProperties DEF ToSet
<1>8. ToSet(r) = ToSet(s) \union {e}
  <2>1. ToSet(r) \subseteq ToSet(s) \union {e}
    BY <1>1, <1>4, <1>6, <1>7
  <2>2. e \in ToSet(r)
    <3>1. 1 \in 1..Len(r)
      BY <1>1, <1>4
    <3>2. QED
      BY <1>4, <1>7, <3>1
  <2>3. ASSUME NEW k \in 1..Len(s) PROVE s[k] \in ToSet(r)
    <3>1. k + 1 \in 1..Len(r)
      BY <1>1, <1>4
    <3>2. QED
      BY <1>5, <1>7, <3>1
  <2>4. QED
    BY <1>1, <2>1, <2>2, <2>3
<1>9. ASSUME IsInjective(s), e \notin ToSet(s), NEW j \in 1..Len(r), NEW k \in 1..Len(r),
             r[j] = r[k]
      PROVE  j = k
  <2>1. \A i, l \in 1..Len(s) : s[i] = s[l] => i = l
    BY <1>1, <1>9 DEF IsInjective
  <2>2. \A i \in 1..Len(s) : s[i] # e
    BY <1>1, <1>9
  <2>3. CASE j = 1
    BY <1>4, <1>6, <1>9, <2>2, <2>3
  <2>4. CASE k = 1
    BY <1>4, <1>6, <1>9, <2>2, <2>4
  <2>5. CASE j # 1 /\ k # 1
    <3>1. j - 1 \in 1..Len(s) /\ k - 1 \in 1..Len(s) /\ s[j - 1] = s[k - 1]
      BY <1>6, <1>9, <2>5
    <3>2. j - 1 = k - 1
      BY <2>1, <3>1
    <3>3. QED
      BY <1>1, <1>4, <3>2
  <2>6. QED
    BY <2>3, <2>4, <2>5
<1>10. QED
  BY <1>3, <1>4, <1>5, <1>7, <1>8, <1>9 DEF r, IsInjective

-----------------------------------------------------------------------------
(* The subsets of a finite set by size: a fold is defined on one layer     *)
(* after the other.                                                        *)
Layer(S, n) == {T \in SUBSET S : Cardinality(T) <= n}

LEMMA Layers ==
    ASSUME NEW S, IsFiniteSet(S)
    PROVE  /\ Layer(S, 0) = {{}}
           /\ \A n \in Nat : Layer(S, n) \subseteq Layer(S, n + 1)
           /\ \A n \in Nat : \A T \in Layer(S, n + 1) : \A x \in T : T \ {x} \in Layer(S, n)
           /\ Cardinality(S) \in Nat /\ Layer(S, Cardinality(S)) = SUBSET S
<1>1. ASSUME NEW T \in SUBSET S PROVE IsFiniteSet(T) /\ Cardinality(T) \in Nat
  BY FS_Subset, FS_CardinalityType
<1>2. Layer(S, 0) = {{}}
  <2>1. ASSUME NEW T \in SUBSET S, Cardinality(T) <= 0 PROVE T = {}
    <3>1. Cardinality(T) = 0
      BY <1>1, <2>1
    <3>2. QED
      BY <1>1, <3>1, FS_EmptySet
  <2>2. Cardinality({}) <= 0
    BY FS_EmptySet
  <2>3. QED
    BY <2>1, <2>2 DEF Layer
<1>3. ASSUME NEW n \in Nat, NEW T \in Layer(S, n) PROVE T \in Layer(S, n + 1)
  BY <1>1 DEF Layer
<1>4. ASSUME NEW n \in Nat, NEW T \in Layer(S, n + 1), NEW x \in T PROVE T \ {x} \in Layer(S, n)
  <2>1. T \in SUBSET S /\ Cardinality(T) <= n + 1 /\ IsFiniteSet(T) /\ Cardinality(T) \in Nat
    BY <1>1 DEF Layer
  <2>2. Cardinality(T \ {x}) = Cardinality(T) - 1
    BY <2>1, FS_RemoveElement
  <2>3. Cardinality(T \ {x}) <= n
    BY <2>1, <2>2
  <2>4. QED
    BY <2>1, <2>3 DEF Layer
<1>5. Layer(S, Cardinality(S)) = SUBSET S
  BY FS_Subset DEF Layer
<1>6. Cardinality(S) \in Nat
  BY FS_CardinalityType
<1>7. QED
  BY <1>2, <1>3, <1>4, <1>5, <1>6

LEMMA MaxOfSubset ==
    ASSUME NEW D \in SUBSET Int, IsFiniteSet(D), NEW T \in SUBSET D, T # {}
    PROVE  Max(T) \in T
BY FS_Subset, MaxIsElement

LEMMA MaxOfInterval ==
    ASSUME NEW n \in Nat, NEW k \in 1..n
    PROVE  1..k # {} /\ 1..k \in SUBSET (1..n) /\ Max(1..k) = k /\ (1..k) \ {k} = 1..(k - 1)
<1>1. 1..k \in SUBSET Int /\ IsFiniteSet(1..k) /\ 1..k # {}
  <2>1. k \in 1..k /\ 1..k \in SUBSET Int /\ 1 \in Int /\ k \in Int
    OBVIOUS
  <2>2. QED
    BY <2>1, FS_Interval
<1>2. Max(1..k) \in 1..k /\ \A y \in 1..k : Max(1..k) >= y
  BY <1>1, MaxIsElement
<1> DEFINE m == Max(1..k)
<1>3. m = k
  <2>1. m \in 1..k /\ \A y \in 1..k : m >= y
    BY <1>2
  <2> HIDE DEF m
  <2>2. QED
    BY <2>1
<1> HIDE DEF m
<1>4. QED
  BY <1>1, <1>3 DEF m

(* The larger and the smaller of two numbers.                              *)
LEMMA MaxOfPair ==
    ASSUME NEW a \in Int, NEW b \in Int
    PROVE  Max({a, b}) \in {a, b} /\ Max({a, b}) >= a /\ Max({a, b}) >= b
<1>1. {a, b} \in SUBSET Int /\ IsFiniteSet({a, b}) /\ {a, b} # {}
  <2>1. IsFiniteSet({a} \cup {b})
    BY FS_Singleton, FS_AddElement
  <2>2. {a} \cup {b} = {a, b}
    OBVIOUS
  <2>3. QED
    BY <2>1, <2>2
<1>2. Max({a, b}) \in {a, b} /\ \A y \in {a, b} : Max({a, b}) >= y
  BY <1>1, MaxIsElement
<1>3. QED
  BY <1>2

LEMMA MinOfThree ==
    ASSUME NEW a \in Int, NEW b \in Int, NEW c \in Int
    PROVE  Min({a, b, c}) \in {a, b, c} /\ Min({a, b, c}) <= b
<1>1. {a, b, c} \in SUBSET Int /\ IsFiniteSet({a, b, c}) /\ {a, b, c} # {}
  <2>1. IsFiniteSet(({a} \cup {b}) \cup {c})
    BY FS_Singleton, FS_AddElement
  <2>2. ({a} \cup {b}) \cup {c} = {a, b, c}
    OBVIOUS
  <2>3. QED
    BY <2>1, <2>2
<1>2. Min({a, b, c}) \in {a, b, c} /\ \A y \in {a, b, c} : Min({a, b, c}) <= y
  BY <1>1, MinIsElement
<1>3. QED
  BY <1>2
=============================================================================
