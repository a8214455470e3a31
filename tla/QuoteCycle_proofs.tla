---------------------------- MODULE QuoteCycle_proofs ----------------------------
(***************************************************************************)
(* The quotes of a recompute and the properties of QuoteCycle for any      *)
(* finite set of markets, any profiles, books, estimates and caps.         *)
(*                                                                         *)
(* The first half is about the operators: sums, what is picked from a      *)
(* sequence, prices on the grid, and with them what ConstructQuotes,       *)
(* FitToHeadroom and Reconcile return.  The second half is about the       *)
(* states.  Typed and RawEdged are inductive together and give TypeOK.     *)
(* Quoted says that after the fit both what is kept and what is placed     *)
(* belong to the new fair value: it gives EdgeKept and, as only Posted     *)
(* adds orders, PairLocks.  Booked says that the kept and the planned      *)
(* orders of the one market that reserves exposure are within the caps     *)
(* beside the BUYs of the others, which only shrink meanwhile: it gives    *)
(* Reserved.  Owed says which target each kept and each planned order was  *)
(* for, so that a second run finds them all: it gives Stable.  What        *)
(* bounded moves may place is said last.                                   *)
(*                                                                         *)
(* A sum and a picked sequence are finite functions; what they compute is  *)
(* proved by induction, over numbers (Induction) or over the parts of a    *)
(* finite set (SetInduction).                                              *)
(***************************************************************************)
EXTENDS QuoteCycle, FiniteSetTheorems, WellFoundedInduction, TLAPS

-------------------------------------------------------------------------------
(* Induction *)

\* Every set of numbers that is not empty has a least one.
LEMMA Least ==
  ASSUME NEW T \in SUBSET Nat, T # {}
  PROVE  \E n \in T : \A m \in T : n <= m
<1>1. PICK n \in T : \A m \in T : ~(<<m, n>> \in OpToRel(<, Nat))
  BY NatLessThanWellFounded, WFMin
<1>2. \A m \in T : ~(m < n)
  BY <1>1 DEF OpToRel
<1> QED  BY <1>2

\* A set that holds 0, and with a number its successor, holds them all.
LEMMA Induction ==
  ASSUME NEW T, 0 \in T, \A n \in Nat : n \in T => n + 1 \in T
  PROVE  Nat \subseteq T
<1> SUFFICES ASSUME Nat \ T # {} PROVE FALSE
  OBVIOUS
<1>1. PICK n \in Nat \ T : \A m \in Nat \ T : n <= m
  BY Least
<1>2. n - 1 \in Nat /\ n - 1 \in T
  BY <1>1
<1> QED  BY <1>1, <1>2

\* A family that holds the empty set, and with a part of S each part with one member
\* more, holds the finite set S.
LEMMA SetInduction ==
  ASSUME NEW S, IsFiniteSet(S), NEW F, {} \in F,
         \A U \in SUBSET S : \A x \in S \ U : U \in F => U \union {x} \in F
  PROVE  S \in F
<1> DEFINE T == {n \in Nat : \A U \in SUBSET S : Cardinality(U) = n => U \in F}
<1>1. \A U \in SUBSET S : IsFiniteSet(U) /\ Cardinality(U) \in Nat
  BY FS_Subset, FS_CardinalityType
<1>2. 0 \in T
  BY <1>1, FS_EmptySet
<1>3. ASSUME NEW n \in Nat, n \in T PROVE n + 1 \in T
  <2> SUFFICES ASSUME NEW U \in SUBSET S, Cardinality(U) = n + 1 PROVE U \in F
    OBVIOUS
  <2>0. U # {}
    <3>1. Cardinality({}) = 0 /\ Cardinality(U) # 0
      BY FS_EmptySet
    <3> QED  BY <3>1
  <2>1. PICK x : x \in U
    BY <2>0
  <2>2. Cardinality(U \ {x}) = n /\ U \ {x} \in SUBSET S
    <3>1. IsFiniteSet(U)
      BY <1>1
    <3>2. Cardinality(U \ {x}) = Cardinality(U) - 1
      BY <2>1, <3>1, FS_RemoveElement
    <3> QED  BY <3>2
  <2>3. U \ {x} \in F /\ x \in S \ (U \ {x})
    BY <1>3, <2>1, <2>2
  <2>4. (U \ {x}) \union {x} = U
    BY <2>1
  <2> QED  BY <2>2, <2>3, <2>4
<1> HIDE DEF T
<1>4. Cardinality(S) \in T
  BY <1>1, <1>2, <1>3, Induction
<1> QED  BY <1>4 DEF T

-------------------------------------------------------------------------------
(* Sums *)

\* The member that the sum of the community modules takes next.
Any(T) == CHOOSE x \in T : TRUE

\* The function that SumFunctionOnSet computes, for a family of sets.
Summed(f, family, sum) ==
  sum = [T \in family |-> IF T = {} THEN 0 ELSE f[Any(T)] + sum[T \ {Any(T)}]]

\* The parts of a set with at most n members.
Small(S, n) == {T \in SUBSET S : Cardinality(T) <= n}

\* The parts of a finite set are finite, and smaller without the member chosen from them.
LEMMA AnyRemoved ==
  ASSUME NEW S, IsFiniteSet(S)
  PROVE  /\ \A T \in SUBSET S : IsFiniteSet(T) /\ Cardinality(T) \in Nat
         /\ \A T \in SUBSET S : T # {} =>
              Any(T) \in T /\ Cardinality(T \ {Any(T)}) = Cardinality(T) - 1
<1>1. \A T \in SUBSET S : IsFiniteSet(T) /\ Cardinality(T) \in Nat
  BY FS_Subset, FS_CardinalityType
<1>2. \A T \in SUBSET S : T # {} => Any(T) \in T
  BY DEF Any
<1> QED  BY <1>1, <1>2, FS_RemoveElement

\* There is a function that sums f over every part of a finite set.
LEMMA SummedExists ==
  ASSUME NEW f, NEW S, IsFiniteSet(S)
  PROVE  \E sum : Summed(f, SUBSET S, sum)
<1> DEFINE N == {n \in Nat : \E sum : Summed(f, Small(S, n), sum)}
<1>1. 0 \in N
  <2> DEFINE e == [T \in Small(S, 0) |-> 0]
  <2>1. \A T \in Small(S, 0) : T = {}
    BY AnyRemoved, FS_EmptySet DEF Small
  <2>2. Summed(f, Small(S, 0), e)
    BY <2>1 DEF Summed
  <2> QED  BY <2>2
<1>2. ASSUME NEW n \in Nat, n \in N PROVE n + 1 \in N
  <2>1. PICK e : Summed(f, Small(S, n), e)
    BY <1>2
  <2> DEFINE g == [T \in Small(S, n + 1) |->
                     IF T = {} THEN 0 ELSE f[Any(T)] + e[T \ {Any(T)}]]
  <2>2. \A T \in Small(S, n) : T \in Small(S, n + 1)
    BY AnyRemoved DEF Small
  <2>3. \A T \in Small(S, n) : g[T] = e[T]
    BY <2>1, <2>2 DEF Summed
  <2>4. \A T \in Small(S, n + 1) : T # {} => T \ {Any(T)} \in Small(S, n)
    BY AnyRemoved DEF Small
  <2>5. \A T \in Small(S, n + 1) : T # {} => g[T \ {Any(T)}] = e[T \ {Any(T)}]
    BY <2>3, <2>4
  <2>6. Summed(f, Small(S, n + 1), g)
    BY <2>5 DEF Summed
  <2> QED  BY <2>6
<1> HIDE DEF N
<1>3. Cardinality(S) \in N
  BY <1>1, <1>2, AnyRemoved, Induction
<1>4. Small(S, Cardinality(S)) = SUBSET S
  BY AnyRemoved, FS_Subset DEF Small
<1> QED  BY <1>3, <1>4 DEF N

\* Such a function for a part of the set agrees with the one for the whole set.
LEMMA SummedAgree ==
  ASSUME NEW f, NEW S, IsFiniteSet(S), NEW U \in SUBSET S,
         NEW s, Summed(f, SUBSET S, s), NEW u, Summed(f, SUBSET U, u)
  PROVE  u[U] = s[U]
<1> DEFINE N == {n \in Nat : \A T \in SUBSET U : Cardinality(T) = n => u[T] = s[T]}
<1>1. 0 \in N
  <2>1. \A T \in SUBSET U : Cardinality(T) = 0 => T = {}
    BY AnyRemoved, FS_EmptySet
  <2>2. u[{}] = 0 /\ s[{}] = 0
    BY DEF Summed
  <2> QED  BY <2>1, <2>2
<1>2. ASSUME NEW n \in Nat, n \in N PROVE n + 1 \in N
  <2> SUFFICES ASSUME NEW T \in SUBSET U, Cardinality(T) = n + 1 PROVE u[T] = s[T]
    OBVIOUS
  <2>1. T # {} /\ T \in SUBSET S
    <3>1. Cardinality({}) = 0 /\ Cardinality(T) # 0
      BY FS_EmptySet
    <3> QED  BY <3>1
  <2>2. Cardinality(T \ {Any(T)}) = n
    <3>1. Cardinality(T \ {Any(T)}) = Cardinality(T) - 1
      BY <2>1, AnyRemoved
    <3> QED  BY <3>1
  <2>3. u[T \ {Any(T)}] = s[T \ {Any(T)}]
    BY <1>2, <2>2
  <2>4. u[T] = f[Any(T)] + u[T \ {Any(T)}] /\ s[T] = f[Any(T)] + s[T \ {Any(T)}]
    BY <2>1 DEF Summed
  <2> QED  BY <2>3, <2>4
<1> HIDE DEF N
<1>3. IsFiniteSet(U) /\ Cardinality(U) \in N
  BY <1>1, <1>2, AnyRemoved, Induction
<1> QED  BY <1>3 DEF N

\* The sum of the community modules is the value of such a function.
LEMMA SumIs ==
  ASSUME NEW f, NEW S, IsFiniteSet(S)
  PROVE  \E sum : Summed(f, SUBSET S, sum) /\ SumFunctionOnSet(f, S) = sum[S]
<1> DEFINE s == CHOOSE s : Summed(f, SUBSET S, s)
<1>1. SumFunctionOnSet(f, S) = s[S]
  BY Zenon DEF SumFunctionOnSet, FoldFunctionOnSet, MapThenFoldSet, Summed, Any
<1>2. Summed(f, SUBSET S, s)
  BY SummedExists
<1> QED  BY <1>1, <1>2

\* The sum over nothing, and the sum as the module takes it apart.
LEMMA SumAny ==
  ASSUME NEW f
  PROVE  /\ SumFunctionOnSet(f, {}) = 0
         /\ \A S : IsFiniteSet(S) /\ S # {} =>
              SumFunctionOnSet(f, S) = f[Any(S)] + SumFunctionOnSet(f, S \ {Any(S)})
<1>1. SumFunctionOnSet(f, {}) = 0
  <2>1. PICK s : Summed(f, SUBSET {}, s) /\ SumFunctionOnSet(f, {}) = s[{}]
    BY SumIs, FS_EmptySet
  <2> QED  BY <2>1 DEF Summed
<1>2. ASSUME NEW S, IsFiniteSet(S), S # {}
      PROVE  SumFunctionOnSet(f, S) = f[Any(S)] + SumFunctionOnSet(f, S \ {Any(S)})
  <2> DEFINE U == S \ {Any(S)}
  <2>1. PICK s : Summed(f, SUBSET S, s) /\ SumFunctionOnSet(f, S) = s[S]
    BY <1>2, SumIs
  <2>2. IsFiniteSet(U) /\ U \in SUBSET S
    BY <1>2, AnyRemoved
  <2>3. PICK u : Summed(f, SUBSET U, u) /\ SumFunctionOnSet(f, U) = u[U]
    BY <2>2, SumIs
  <2> HIDE DEF U
  <2>4. u[U] = s[U]
    <3>1. IsFiniteSet(S) /\ Summed(f, SUBSET S, s) /\ Summed(f, SUBSET U, u)
      BY <1>2, <2>1, <2>3
    <3> QED  BY ONLY <2>2, <3>1, SummedAgree
  <2>5. s[S] = f[Any(S)] + s[U]
    BY <1>2, <2>1 DEF Summed, U
  <2> QED  BY <2>1, <2>3, <2>4, <2>5 DEF U
<1> QED  BY <1>1, <1>2

\* Sums of numbers are numbers.
LEMMA SumTyped ==
  ASSUME NEW f, NEW S, IsFiniteSet(S), \A x \in S : f[x] \in Int
  PROVE  \A T \in SUBSET S : SumFunctionOnSet(f, T) \in Int
<1> DEFINE N == {n \in Nat : \A T \in SUBSET S :
                   Cardinality(T) = n => SumFunctionOnSet(f, T) \in Int}
<1>0. \A T \in SUBSET S : IsFiniteSet(T) /\ Cardinality(T) \in Nat
  BY AnyRemoved
<1>1. 0 \in N
  <2>1. \A T \in SUBSET S : Cardinality(T) = 0 => T = {}
    BY <1>0, FS_EmptySet
  <2>2. SumFunctionOnSet(f, {}) \in Int
    BY SumAny
  <2> QED  BY <2>1, <2>2
<1>2. ASSUME NEW n \in Nat, n \in N PROVE n + 1 \in N
  <2> SUFFICES ASSUME NEW T \in SUBSET S, Cardinality(T) = n + 1
               PROVE  SumFunctionOnSet(f, T) \in Int
    OBVIOUS
  <2>1. T # {}
    <3>1. Cardinality({}) = 0 /\ Cardinality(T) # 0
      BY FS_EmptySet
    <3> QED  BY <3>1
  <2>2. Any(T) \in T /\ Cardinality(T \ {Any(T)}) = Cardinality(T) - 1
    BY <2>1, AnyRemoved
  <2>3. SumFunctionOnSet(f, T \ {Any(T)}) \in Int
    <3>1. T \ {Any(T)} \in SUBSET S /\ Cardinality(T \ {Any(T)}) = n
      BY <2>2
    <3> QED  BY <1>2, <3>1
  <2>4. SumFunctionOnSet(f, T) = f[Any(T)] + SumFunctionOnSet(f, T \ {Any(T)})
    BY <1>0, <2>1, SumAny
  <2> QED  BY <2>2, <2>3, <2>4
<1> HIDE DEF N
<1>3. \A T \in SUBSET S : Cardinality(T) \in N
  BY <1>0, <1>1, <1>2, Induction
<1> QED  BY <1>3 DEF N

\* Any member can be taken out of the sum first.
LEMMA SumStep ==
  ASSUME NEW f, NEW S, IsFiniteSet(S), \A x \in S : f[x] \in Int
  PROVE  /\ SumFunctionOnSet(f, S) \in Int
         /\ \A x \in S : SumFunctionOnSet(f, S) = f[x] + SumFunctionOnSet(f, S \ {x})
<1> DEFINE Law(T) == /\ SumFunctionOnSet(f, T) \in Int
                     /\ \A x \in T :
                          SumFunctionOnSet(f, T) = f[x] + SumFunctionOnSet(f, T \ {x})
           N == {n \in Nat : \A T \in SUBSET S : Cardinality(T) = n => Law(T)}
<1>0. \A T \in SUBSET S : IsFiniteSet(T) /\ Cardinality(T) \in Nat
  BY AnyRemoved
<1>1. 0 \in N
  <2>1. \A T \in SUBSET S : Cardinality(T) = 0 => T = {}
    BY <1>0, FS_EmptySet
  <2>2. Law({})
    BY SumAny
  <2> QED  BY <2>1, <2>2
<1>2. ASSUME NEW n \in Nat, n \in N PROVE n + 1 \in N
  <2> SUFFICES ASSUME NEW T \in SUBSET S, Cardinality(T) = n + 1 PROVE Law(T)
    OBVIOUS
  <2> DEFINE a == Any(T)
  <2>1. T # {}
    <3>1. Cardinality({}) = 0 /\ Cardinality(T) # 0
      BY FS_EmptySet
    <3> QED  BY <3>1
  <2>2. IsFiniteSet(T) /\ a \in T
    BY <1>0, <2>1 DEF Any
  <2>3. SumFunctionOnSet(f, T) = f[a] + SumFunctionOnSet(f, T \ {a})
    BY <2>1, <2>2, SumAny
  <2> HIDE DEF a
  <2>4. \A x \in T : T \ {x} \in SUBSET S /\ Cardinality(T \ {x}) = n
    <3> SUFFICES ASSUME NEW x \in T PROVE Cardinality(T \ {x}) = n
      OBVIOUS
    <3>1. Cardinality(T \ {x}) = Cardinality(T) - 1
      BY <2>2, FS_RemoveElement
    <3> QED  BY <3>1
  <2>5. \A x \in T : Law(T \ {x})
    BY <1>2, <2>4
  <2>6. \A x \in T : SumFunctionOnSet(f, T \ {x}) \in Int
    BY <2>5
  <2>7. ASSUME NEW x \in T PROVE SumFunctionOnSet(f, T) = f[x] + SumFunctionOnSet(f, T \ {x})
    <3>1. CASE x = a
      BY <2>3, <3>1
    <3>2. CASE x # a
      <4>1. SumFunctionOnSet(f, T \ {a}) = f[x] + SumFunctionOnSet(f, (T \ {a}) \ {x})
        BY <2>2, <2>5, <3>2
      <4>2. SumFunctionOnSet(f, T \ {x}) = f[a] + SumFunctionOnSet(f, (T \ {x}) \ {a})
        BY <2>2, <2>5, <3>2
      <4>3. (T \ {x}) \ {a} = (T \ {a}) \ {x}
        OBVIOUS
      <4>4. SumFunctionOnSet(f, (T \ {a}) \ {x}) \in Int
        BY SumTyped
      <4>5. f[x] \in Int /\ f[a] \in Int
        BY <2>2
      <4>6. /\ SumFunctionOnSet(f, T) = f[a] + (f[x] + SumFunctionOnSet(f, (T \ {a}) \ {x}))
            /\ SumFunctionOnSet(f, T \ {x}) = f[a] + SumFunctionOnSet(f, (T \ {a}) \ {x})
        BY <2>3, <4>1, <4>2, <4>3
      <4> QED  BY ONLY <4>4, <4>5, <4>6
    <3> QED  BY <3>1, <3>2
  <2>8. SumFunctionOnSet(f, T) \in Int
    BY <2>2, <2>3, <2>6
  <2> QED  BY <2>7, <2>8
<1> HIDE DEF N
<1>3. Cardinality(S) \in N
  BY <1>0, <1>1, <1>2, Induction
<1> QED  BY <1>3 DEF N

\* One member more.
LEMMA SumMore ==
  ASSUME NEW f, NEW S, IsFiniteSet(S), \A x \in S : f[x] \in Int
  PROVE  /\ SumFunctionOnSet(f, {}) = 0
         /\ \A U \in SUBSET S : SumFunctionOnSet(f, U) \in Int
         /\ \A U \in SUBSET S : \A x \in S \ U :
              SumFunctionOnSet(f, U \union {x}) = f[x] + SumFunctionOnSet(f, U)
<1>1. \A U \in SUBSET S : IsFiniteSet(U)
  BY FS_Subset
<1>2. ASSUME NEW U \in SUBSET S PROVE SumFunctionOnSet(f, U) \in Int
  BY <1>1, SumStep
<1>3. ASSUME NEW U \in SUBSET S, NEW x \in S \ U
      PROVE  SumFunctionOnSet(f, U \union {x}) = f[x] + SumFunctionOnSet(f, U)
  <2>1. (U \union {x}) \ {x} = U /\ U \union {x} \in SUBSET S /\ x \in U \union {x}
    OBVIOUS
  <2>2. IsFiniteSet(U \union {x})
    BY <1>1, <2>1
  <2> DEFINE V == U \union {x}
  <2>3. \A y \in V : f[y] \in Int
    BY <2>1
  <2> HIDE DEF V
  <2>4. SumFunctionOnSet(f, V) = f[x] + SumFunctionOnSet(f, V \ {x})
    BY <2>1, <2>2, <2>3, SumStep DEF V
  <2> QED  BY <2>1, <2>4 DEF V
<1> QED  BY <1>2, <1>3, SumAny

\* Sums keep an order that holds member by member, also between multiples.
LEMMA SumScaled ==
  ASSUME NEW f, NEW g, NEW S, IsFiniteSet(S), \A x \in S : f[x] \in Int /\ g[x] \in Int,
         NEW k \in Int, NEW h \in Int, \A x \in S : k * f[x] <= h * g[x]
  PROVE  k * SumFunctionOnSet(f, S) <= h * SumFunctionOnSet(g, S)
<1> DEFINE F == {U \in SUBSET S : k * SumFunctionOnSet(f, U) <= h * SumFunctionOnSet(g, U)}
<1>1. {} \in F
  BY SumAny
<1>2. ASSUME NEW U \in SUBSET S, NEW x \in S \ U, U \in F PROVE U \union {x} \in F
  <2> DEFINE a == SumFunctionOnSet(f, U)
             b == SumFunctionOnSet(g, U)
  <2>1. a \in Int /\ b \in Int /\ f[x] \in Int /\ g[x] \in Int
    BY SumMore
  <2>2. SumFunctionOnSet(f, U \union {x}) = f[x] + a /\ SumFunctionOnSet(g, U \union {x}) = g[x] + b
    BY SumMore
  <2>3. k * a <= h * b /\ k * f[x] <= h * g[x]
    BY <1>2
  <2> HIDE DEF a, b
  <2>4. k * (f[x] + a) <= h * (g[x] + b)
    <3>1. ASSUME NEW c \in Int, NEW d \in Int, NEW u \in Int, NEW v \in Int,
                 k * u <= h * v, k * c <= h * d
          PROVE  k * (c + u) <= h * (d + v)
      <4>1. k * (c + u) = k * c + k * u /\ h * (d + v) = h * d + h * v
        OBVIOUS
      <4>2. k * c \in Int /\ k * u \in Int /\ h * d \in Int /\ h * v \in Int
        OBVIOUS
      <4> QED  BY <3>1, <4>1, <4>2
    <3> QED  BY <2>1, <2>3, <3>1
  <2> QED  BY <2>2, <2>4
<1> HIDE DEF F
<1>3. S \in F
  BY <1>1, <1>2, SetInduction
<1> QED  BY <1>3 DEF F

\* A sum of members that are each no more is no more.
LEMMA SumBelow ==
  ASSUME NEW f, NEW g, NEW S, IsFiniteSet(S), \A x \in S : f[x] \in Int /\ g[x] \in Int,
         \A x \in S : f[x] <= g[x]
  PROVE  SumFunctionOnSet(f, S) <= SumFunctionOnSet(g, S)
<1>1. \A x \in S : 1 * f[x] <= 1 * g[x]
  OBVIOUS
<1>2. 1 * SumFunctionOnSet(f, S) <= 1 * SumFunctionOnSet(g, S)
  BY ONLY IsFiniteSet(S), \A x \in S : f[x] \in Int /\ g[x] \in Int, <1>1, SumScaled, 1 \in Int
<1>3. SumFunctionOnSet(f, S) \in Int /\ SumFunctionOnSet(g, S) \in Int
  BY SumStep
<1> QED  BY <1>2, <1>3

\* The same members have the same sum.
LEMMA SumSame ==
  ASSUME NEW f, NEW g, NEW S, IsFiniteSet(S), \A x \in S : f[x] \in Int /\ g[x] = f[x]
  PROVE  SumFunctionOnSet(f, S) = SumFunctionOnSet(g, S)
<1>1. \A x \in S : f[x] \in Int /\ g[x] \in Int /\ f[x] <= g[x] /\ g[x] <= f[x]
  OBVIOUS
<1>2. SumFunctionOnSet(f, S) <= SumFunctionOnSet(g, S)
  BY <1>1, SumBelow
<1>3. SumFunctionOnSet(g, S) <= SumFunctionOnSet(f, S)
  BY <1>1, SumBelow
<1>4. SumFunctionOnSet(f, S) \in Int /\ SumFunctionOnSet(g, S) \in Int
  BY <1>1, SumStep
<1> QED  BY <1>2, <1>3, <1>4

\* The sum of sums.
LEMMA SumTogether ==
  ASSUME NEW f, NEW g, NEW h, NEW S, IsFiniteSet(S),
         \A x \in S : f[x] \in Int /\ g[x] \in Int /\ h[x] = f[x] + g[x]
  PROVE  SumFunctionOnSet(h, S) = SumFunctionOnSet(f, S) + SumFunctionOnSet(g, S)
<1> DEFINE F == {U \in SUBSET S :
                   SumFunctionOnSet(h, U) = SumFunctionOnSet(f, U) + SumFunctionOnSet(g, U)}
<1>0. \A x \in S : h[x] \in Int
  OBVIOUS
<1>1. {} \in F
  <2>1. SumFunctionOnSet(f, {}) = 0 /\ SumFunctionOnSet(g, {}) = 0 /\ SumFunctionOnSet(h, {}) = 0
    BY SumAny
  <2> QED  BY <2>1
<1>2. ASSUME NEW U \in SUBSET S, NEW x \in S \ U, U \in F PROVE U \union {x} \in F
  <2> DEFINE a == SumFunctionOnSet(f, U)
             b == SumFunctionOnSet(g, U)
  <2>1. a \in Int /\ b \in Int /\ f[x] \in Int /\ g[x] \in Int /\ h[x] = f[x] + g[x]
    BY SumMore
  <2>2. /\ SumFunctionOnSet(f, U \union {x}) = f[x] + a
        /\ SumFunctionOnSet(g, U \union {x}) = g[x] + b
    BY SumMore
  <2>3. SumFunctionOnSet(h, U \union {x}) = h[x] + SumFunctionOnSet(h, U)
    BY <1>0, SumMore
  <2>4. SumFunctionOnSet(h, U) = a + b
    BY <1>2
  <2> HIDE DEF a, b
  <2>5. h[x] + (a + b) = (f[x] + a) + (g[x] + b)
    BY <2>1
  <2> QED  BY <2>2, <2>3, <2>4, <2>5
<1> HIDE DEF F
<1>3. S \in F
  BY <1>1, <1>2, SetInduction
<1> QED  BY <1>3 DEF F

\* Two sums that differ in one member.
LEMMA SumChanged ==
  ASSUME NEW f, NEW g, NEW S, IsFiniteSet(S), \A x \in S : f[x] \in Int /\ g[x] \in Int,
         NEW m \in S, \A x \in S \ {m} : g[x] = f[x]
  PROVE  SumFunctionOnSet(g, S) = SumFunctionOnSet(f, S) - f[m] + g[m]
<1>1. SumFunctionOnSet(f, S) = f[m] + SumFunctionOnSet(f, S \ {m})
  BY SumStep
<1>2. SumFunctionOnSet(g, S) = g[m] + SumFunctionOnSet(g, S \ {m})
  BY SumStep
<1>3. IsFiniteSet(S \ {m}) /\ \A x \in S \ {m} : f[x] \in Int /\ g[x] = f[x]
  BY FS_RemoveElement
<1>4. SumFunctionOnSet(f, S \ {m}) = SumFunctionOnSet(g, S \ {m})
  BY <1>3, SumSame
<1>5. SumFunctionOnSet(f, S \ {m}) \in Int
  BY <1>3, SumStep
<1> QED  BY <1>1, <1>2, <1>4, <1>5

\* A part of a sum of costs is no more than the sum.
LEMMA SumPart ==
  ASSUME NEW f, NEW S, IsFiniteSet(S), \A x \in S : f[x] \in Nat, NEW T \in SUBSET S
  PROVE  SumFunctionOnSet(f, T) <= SumFunctionOnSet(f, S)
<1> DEFINE F == {U \in SUBSET S : SumFunctionOnSet(f, T \intersect U) <= SumFunctionOnSet(f, U)}
<1>0. \A x \in S : f[x] \in Int
  OBVIOUS
<1>1. {} \in F
  <2>1. SumFunctionOnSet(f, {}) = 0 /\ T \intersect {} = {}
    BY SumAny
  <2> QED  BY <2>1
<1>2. ASSUME NEW U \in SUBSET S, NEW x \in S \ U, U \in F PROVE U \union {x} \in F
  <2>1. SumFunctionOnSet(f, U \union {x}) = f[x] + SumFunctionOnSet(f, U)
    BY <1>0, SumMore
  <2>2. SumFunctionOnSet(f, U) \in Int /\ SumFunctionOnSet(f, T \intersect U) \in Int
    BY <1>0, SumMore
  <2>3. CASE x \in T
    <3>1. T \intersect (U \union {x}) = (T \intersect U) \union {x} /\ T \intersect U \in SUBSET S
          /\ x \in S \ (T \intersect U)
      BY <2>3
    <3>2. SumFunctionOnSet(f, (T \intersect U) \union {x}) = f[x] + SumFunctionOnSet(f, T \intersect U)
      <4> DEFINE W == T \intersect U
      <4>1. W \in SUBSET S /\ x \in S \ W
        BY <3>1
      <4> HIDE DEF W
      <4>2. SumFunctionOnSet(f, W \union {x}) = f[x] + SumFunctionOnSet(f, W)
        BY <1>0, <4>1, SumMore
      <4> QED  BY <4>2 DEF W
    <3> QED  BY <1>2, <2>1, <2>2, <3>1, <3>2
  <2>4. CASE x \notin T
    <3>1. T \intersect (U \union {x}) = T \intersect U
      BY <2>4
    <3>2. SumFunctionOnSet(f, T \intersect U) <= SumFunctionOnSet(f, U) /\ f[x] \in Nat
      BY <1>2
    <3>3. SumFunctionOnSet(f, T \intersect U) <= SumFunctionOnSet(f, U \union {x})
      BY <2>1, <2>2, <3>2
    <3> QED  BY <3>1, <3>3
  <2> QED  BY <2>3, <2>4
<1> HIDE DEF F
<1>3. S \in F
  BY <1>1, <1>2, SetInduction
<1>4. T \intersect S = T
  OBVIOUS
<1> QED  BY <1>3, <1>4 DEF F

\* The same costs under other names.
LEMMA SumRenamed ==
  ASSUME NEW f, NEW g, NEW S, NEW h, IsFiniteSet(S), \A x \in S : f[x] \in Int /\ g[h[x]] = f[x],
         \A x, y \in S : h[x] = h[y] => x = y
  PROVE  SumFunctionOnSet(f, S) = SumFunctionOnSet(g, {h[x] : x \in S})
<1> DEFINE Image(U) == {h[x] : x \in U}
           F == {U \in SUBSET S : /\ IsFiniteSet(Image(U))
                                  /\ SumFunctionOnSet(f, U) = SumFunctionOnSet(g, Image(U))}
<1>0. \A y \in Image(S) : g[y] \in Int
  OBVIOUS
<1>1. {} \in F
  <2>1. Image({}) = {}
    OBVIOUS
  <2>2. SumFunctionOnSet(f, {}) = 0 /\ SumFunctionOnSet(g, {}) = 0
    BY SumAny
  <2> QED  BY <2>1, <2>2, FS_EmptySet
<1>2. ASSUME NEW U \in SUBSET S, NEW x \in S \ U, U \in F PROVE U \union {x} \in F
  <2>1. Image(U \union {x}) = Image(U) \union {h[x]} /\ h[x] \notin Image(U)
    OBVIOUS
  <2>2. IsFiniteSet(Image(U) \union {h[x]}) /\ IsFiniteSet(Image(U))
    BY <1>2, FS_AddElement
  <2>3. SumFunctionOnSet(f, U \union {x}) = f[x] + SumFunctionOnSet(f, U)
    BY SumMore
  <2> DEFINE V == Image(U) \union {h[x]}
  <2>4. \A y \in V : g[y] \in Int
    BY <1>0
  <2>5. V \ {h[x]} = Image(U) /\ h[x] \in V
    BY <2>1
  <2>6. SumFunctionOnSet(g, V) = g[h[x]] + SumFunctionOnSet(g, Image(U))
    <3>1. IsFiniteSet(V)
      BY <2>2
    <3> HIDE DEF V
    <3>2. SumFunctionOnSet(g, V) = g[h[x]] + SumFunctionOnSet(g, V \ {h[x]})
      BY <2>4, <2>5, <3>1, SumStep
    <3> QED  BY <2>5, <3>2
  <2> QED  BY <1>2, <2>1, <2>2, <2>3, <2>6
<1> HIDE DEF F
<1>3. S \in F
  BY <1>1, <1>2, SetInduction
<1> QED  BY <1>3 DEF F

-------------------------------------------------------------------------------
(* What is picked from a sequence *)

\* The function that Pick defines, for the first n members.
Picking(seq, indices, n, picked) ==
  picked = [k \in 0 .. n |->
              IF k = 0 THEN <<>>
              ELSE IF k \in indices THEN Append(picked[k - 1], seq[k]) ELSE picked[k - 1]]

\* t is what the indices pick from the first n members; at[j] is the place of its j-th.
Picked(seq, indices, n, t, at) ==
  /\ t \in Seq({seq[i] : i \in DOMAIN seq})
  /\ at \in [1 .. Len(t) -> 1 .. n]
  /\ \A j \in 1 .. Len(t) : at[j] \in indices /\ t[j] = seq[at[j]]
  /\ \A i, j \in 1 .. Len(t) : i < j => at[i] < at[j]
  /\ \A k \in indices : k \in 1 .. n => \E j \in 1 .. Len(t) : at[j] = k

\* There is such a function for every length.
LEMMA PickingExists ==
  ASSUME NEW seq, NEW indices, NEW n \in Nat
  PROVE  \E picked : Picking(seq, indices, n, picked)
<1> DEFINE N == {k \in Nat : \E picked : Picking(seq, indices, k, picked)}
<1>1. 0 \in N
  <2> DEFINE e == [k \in {0} |-> <<>>]
  <2>1. 0 .. 0 = {0}
    OBVIOUS
  <2>2. Picking(seq, indices, 0, e)
    BY <2>1 DEF Picking
  <2> QED  BY <2>2
<1>2. ASSUME NEW m \in Nat, m \in N PROVE m + 1 \in N
  <2>1. PICK e : Picking(seq, indices, m, e)
    BY <1>2
  <2> DEFINE g == [k \in 0 .. m + 1 |->
                     IF k = 0 THEN <<>>
                     ELSE IF k \in indices THEN Append(e[k - 1], seq[k]) ELSE e[k - 1]]
  <2>2. ASSUME NEW k \in 0 .. m PROVE k \in 0 .. m + 1 /\ g[k] = e[k]
    <3>1. k \in 0 .. m + 1
      OBVIOUS
    <3>2. e[k] = IF k = 0 THEN <<>>
                 ELSE IF k \in indices THEN Append(e[k - 1], seq[k]) ELSE e[k - 1]
      BY <2>1, Zenon DEF Picking
    <3>3. g[k] = IF k = 0 THEN <<>>
                 ELSE IF k \in indices THEN Append(e[k - 1], seq[k]) ELSE e[k - 1]
      BY <3>1, Zenon
    <3> QED  BY <3>1, <3>2, <3>3
  <2>3. \A k \in 0 .. m + 1 : k # 0 => k - 1 \in 0 .. m
    OBVIOUS
  <2>4. \A k \in 0 .. m + 1 : k # 0 => g[k - 1] = e[k - 1]
    BY <2>2, <2>3
  <2>5. Picking(seq, indices, m + 1, g)
    BY <2>4, Zenon DEF Picking
  <2> QED  BY <2>5
<1> HIDE DEF N
<1>3. n \in N
  BY <1>1, <1>2, Induction
<1> QED  BY <1>3 DEF N

\* What is picked from one member more: that member is appended if it is picked.
LEMMA PickedOneMore ==
  ASSUME NEW S, NEW seq \in Seq(S), NEW indices, NEW n \in Nat, n + 1 \in DOMAIN seq,
         NEW t, NEW at, Picked(seq, indices, n, t, at)
  PROVE  \E to : Picked(seq, indices, n + 1,
                        IF n + 1 \in indices THEN Append(t, seq[n + 1]) ELSE t, to)
<1>1. CASE n + 1 \notin indices
  <2>1. \A k \in indices : k \in 1 .. n + 1 => k \in 1 .. n
    BY <1>1
  <2>2. at \in [1 .. Len(t) -> 1 .. n + 1]
    BY DEF Picked
  <2>3. Picked(seq, indices, n + 1, t, at)
    BY <2>1, <2>2 DEF Picked
  <2> QED  BY <1>1, <2>3
<1>2. CASE n + 1 \in indices
  <2> DEFINE M == {seq[i] : i \in DOMAIN seq}
             u == Append(t, seq[n + 1])
             to == [j \in 1 .. Len(t) + 1 |-> IF j = Len(t) + 1 THEN n + 1 ELSE at[j]]
  <2>0. t \in Seq(M) /\ seq[n + 1] \in M
    BY DEF Picked
  <2>1. /\ Len(t) \in Nat /\ u \in Seq(M) /\ Len(u) = Len(t) + 1
        /\ u[Len(t) + 1] = seq[n + 1] /\ \A j \in 1 .. Len(t) : u[j] = t[j]
    <3> HIDE DEF M
    <3> QED  BY <2>0
  <2> HIDE DEF M, u
  <2>a. at \in [1 .. Len(t) -> 1 .. n] /\ \A j \in 1 .. Len(t) : at[j] \in 1 .. n
    BY DEF Picked
  <2>b. to = [j \in 1 .. Len(u) |-> IF j = Len(u) THEN n + 1 ELSE at[j]]
    BY <2>1
  <2> HIDE DEF to
  <2>c. /\ \A j \in 1 .. Len(t) : j \in 1 .. Len(u) /\ j # Len(u)
        /\ Len(u) \in 1 .. Len(u)
        /\ \A j \in 1 .. Len(u) : j = Len(u) \/ j \in 1 .. Len(t)
    BY <2>1
  <2>2. /\ \A j \in 1 .. Len(t) : to[j] = at[j] /\ at[j] \in 1 .. n
        /\ to[Len(u)] = n + 1
    BY <2>a, <2>b, <2>c
  <2>3. to \in [1 .. Len(u) -> 1 .. n + 1]
    <3>1. \A j \in 1 .. Len(u) : (IF j = Len(u) THEN n + 1 ELSE at[j]) \in 1 .. n + 1
      BY <2>a, <2>c
    <3> QED  BY <2>b, <3>1
  <2>4. \A j \in 1 .. Len(u) : to[j] \in indices /\ u[j] = seq[to[j]]
    BY <1>2, <2>1, <2>2, <2>c DEF Picked
  <2>5. ASSUME NEW i \in 1 .. Len(u), NEW j \in 1 .. Len(u), i < j PROVE to[i] < to[j]
    <3>1. i \in 1 .. Len(t)
      BY <2>1, <2>5
    <3>2. CASE j = Len(u)
      <4>1. to[i] \in 1 .. n /\ to[j] = n + 1
        BY <2>2, <3>1, <3>2
      <4> QED  BY <4>1
    <3>3. CASE j # Len(u)
      <4>1. j \in 1 .. Len(t)
        BY <2>c, <3>3
      <4>2. at[i] < at[j]
        BY <2>5, <3>1, <4>1 DEF Picked
      <4> QED  BY <2>2, <3>1, <4>1, <4>2
    <3> QED  BY <3>2, <3>3
  <2>6. ASSUME NEW k \in indices, k \in 1 .. n + 1 PROVE \E j \in 1 .. Len(u) : to[j] = k
    <3>1. CASE k = n + 1
      BY <2>2, <2>c, <3>1
    <3>2. CASE k # n + 1
      <4>1. k \in 1 .. n
        BY <2>6, <3>2
      <4> QED  BY <2>2, <2>c, <4>1 DEF Picked
    <3> QED  BY <3>1, <3>2
  <2>7. u \in Seq({seq[i] : i \in DOMAIN seq})
    BY <2>1 DEF M
  <2>8. Picked(seq, indices, n + 1, u, to)
    BY <2>3, <2>4, <2>5, <2>6, <2>7 DEF Picked
  <2> QED  BY <1>2, <2>8 DEF u
<1> QED  BY <1>1, <1>2

\* Pick returns the members at the indices, in their order and none twice.
LEMMA PickIs ==
  ASSUME NEW S, NEW seq \in Seq(S), NEW indices \in SUBSET DOMAIN seq
  PROVE  \E at : Picked(seq, indices, Len(seq), Pick(seq, indices), at)
<1>0. DOMAIN seq = 1 .. Len(seq) /\ Len(seq) \in Nat
  OBVIOUS
<1> DEFINE L == Len(seq)
           p == CHOOSE p : Picking(seq, indices, L, p)
           N == {n \in Nat : n <= L => \E at : Picked(seq, indices, n, p[n], at)}
<1>1. Pick(seq, indices) = p[L]
  BY Zenon DEF Pick, Picking
<1>2. Picking(seq, indices, L, p)
  BY <1>0, PickingExists
<1> HIDE DEF p
<1>3. 0 \in N
  <2>1. p[0] = <<>>
    BY <1>0, <1>2 DEF Picking
  <2> DEFINE at == [j \in {} |-> 0]
  <2>2. 1 .. 0 = {} /\ Len(<<>>) = 0
    OBVIOUS
  <2>3. at \in [1 .. 0 -> 1 .. 0]
    BY <2>2
  <2>4. <<>> \in Seq({seq[i] : i \in DOMAIN seq})
    OBVIOUS
  <2> HIDE DEF at
  <2>5. Picked(seq, indices, 0, <<>>, at)
    BY <2>2, <2>3, <2>4 DEF Picked
  <2> QED  BY <2>1, <2>5
<1>4. ASSUME NEW n \in Nat, n \in N PROVE n + 1 \in N
  <2> SUFFICES ASSUME n + 1 <= L PROVE \E at : Picked(seq, indices, n + 1, p[n + 1], at)
    OBVIOUS
  <2>1. n + 1 \in DOMAIN seq /\ n + 1 \in 0 .. L /\ n + 1 # 0 /\ (n + 1) - 1 = n /\ n <= L
    BY <1>0
  <2>2. p[n + 1] = IF n + 1 \in indices THEN Append(p[n], seq[n + 1]) ELSE p[n]
    BY <1>2, <2>1 DEF Picking
  <2>3. PICK at : Picked(seq, indices, n, p[n], at)
    BY <1>4, <2>1
  <2> QED  BY <2>1, <2>2, <2>3, PickedOneMore
<1> HIDE DEF N
<1>5. L \in N
  BY <1>0, <1>3, <1>4, Induction
<1> QED  BY <1>0, <1>1, <1>5 DEF N

-------------------------------------------------------------------------------
(* Numbers *)

\* The larger of two numbers.
LEMMA MaxOfTwo ==
  ASSUME NEW a \in Int, NEW b \in Int
  PROVE  /\ Max({a, b}) \in {a, b} /\ Max({a, b}) >= a /\ Max({a, b}) >= b
         /\ Max({a, b}) = IF a >= b THEN a ELSE b
<1>1. \E x \in {a, b} : \A y \in {a, b} : x >= y
  OBVIOUS
<1>2. Max({a, b}) \in {a, b} /\ \A y \in {a, b} : Max({a, b}) >= y
  BY <1>1 DEF Max
<1> QED  BY <1>2

\* The smaller of two numbers.
LEMMA MinOfTwo ==
  ASSUME NEW a \in Int, NEW b \in Int
  PROVE  /\ Min({a, b}) \in {a, b} /\ Min({a, b}) <= a /\ Min({a, b}) <= b
         /\ Min({a, b}) = IF a <= b THEN a ELSE b
<1>1. \E x \in {a, b} : \A y \in {a, b} : x <= y
  OBVIOUS
<1>2. Min({a, b}) \in {a, b} /\ \A y \in {a, b} : Min({a, b}) <= y
  BY <1>1 DEF Min
<1> QED  BY <1>2

\* The smallest of three numbers.
LEMMA MinOfThree ==
  ASSUME NEW a \in Int, NEW b \in Int, NEW c \in Int
  PROVE  /\ Min({a, b, c}) \in {a, b, c}
         /\ Min({a, b, c}) <= a /\ Min({a, b, c}) <= b /\ Min({a, b, c}) <= c
<1>1. \E x \in {a, b, c} : \A y \in {a, b, c} : x <= y
  OBVIOUS
<1> QED  BY <1>1 DEF Min

\* A set of small numbers has a largest and a smallest member.
LEMMA Extremes ==
  ASSUME NEW n \in Nat, NEW T \in SUBSET (0 .. n), T # {}
  PROVE  /\ Min(T) \in T /\ \A x \in T : Min(T) <= x
         /\ Max(T) \in T /\ \A x \in T : Max(T) >= x
<1>1. Min(T) \in T /\ \A x \in T : Min(T) <= x
  <2>1. T \in SUBSET Nat
    OBVIOUS
  <2>2. \E x \in T : \A y \in T : x <= y
    BY <2>1, Least
  <2> QED  BY <2>2 DEF Min
<1>2. Max(T) \in T /\ \A x \in T : Max(T) >= x
  <2> DEFINE R == {n - x : x \in T}
  <2>1. R \in SUBSET Nat /\ R # {}
    <3>1. \A x \in T : n - x \in Nat
      OBVIOUS
    <3> QED  BY <3>1
  <2>2. PICK r \in R : \A y \in R : r <= y
    BY <2>1, Least
  <2>3. PICK x \in T : r = n - x
    BY <2>2
  <2>4. \A y \in T : x >= y
    <3> SUFFICES ASSUME NEW y \in T PROVE x >= y
      OBVIOUS
    <3>1. n - y \in R
      OBVIOUS
    <3>2. r <= n - y
      BY <2>2, <3>1
    <3> QED  BY <2>3, <3>2
  <2> QED  BY <2>4 DEF Max
<1> QED  BY <1>1, <1>2

\* A clamped number lies within the limits and exceeds neither the number nor the lower one.
LEMMA Clamped ==
  ASSUME NEW x \in Int, NEW lo \in Int, NEW hi \in Int, lo <= hi
  PROVE  /\ Clamp(x, lo, hi) \in lo .. hi
         /\ Clamp(x, lo, hi) \in {x, lo, hi}
         /\ Clamp(x, lo, hi) <= Max({x, lo})
<1> DEFINE m == Max({x, lo})
<1>1. m \in {x, lo} /\ m >= x /\ m >= lo /\ m = (IF x >= lo THEN x ELSE lo)
  BY MaxOfTwo
<1> HIDE DEF m
<1>2. m \in Int
  BY <1>1
<1>3. Min({m, hi}) = IF m <= hi THEN m ELSE hi
  BY <1>2, MinOfTwo
<1>4. Clamp(x, lo, hi) = Min({m, hi})
  BY DEF Clamp, m
<1>5. Clamp(x, lo, hi) \in lo .. hi /\ Clamp(x, lo, hi) \in {x, lo, hi} /\ Clamp(x, lo, hi) <= m
  BY <1>1, <1>2, <1>3, <1>4
<1> QED  BY <1>5 DEF m

\* The distance is the difference in one direction or the other, whichever is not negative.
LEMMA Apart ==
  ASSUME NEW a \in Int, NEW b \in Int
  PROVE  Distance(a, b) \in Nat /\ a - b <= Distance(a, b) /\ b - a <= Distance(a, b)
         /\ (Distance(a, b) = a - b \/ Distance(a, b) = b - a)
BY MaxOfTwo, a - b \in Int, b - a \in Int DEF Distance

\* The whole number of ticks in a price.
LEMMA Floored ==
  ASSUME NEW x \in Int, NEW t \in Nat \ {0}
  PROVE  x \div t \in Int /\ (x \div t) * t \in Int /\ (x \div t) * t <= x
         /\ (x >= 0 => x \div t >= 0)
OBVIOUS

\* The remainder is 0 at the multiples and nowhere else.
LEMMA Multiples ==
  ASSUME NEW x \in Int, NEW t \in Nat \ {0}
  PROVE  x % t = 0 <=> \E k \in Int : x = k * t
<1>1. x = (x \div t) * t + (x % t) /\ x \div t \in Int /\ x % t \in 0 .. t - 1
  OBVIOUS
<1>2. ASSUME NEW k \in Int, x = k * t PROVE x % t = 0
  BY <1>2
<1>3. ASSUME x % t = 0 PROVE \E k \in Int : x = k * t
  BY <1>1, <1>3
<1> QED  BY <1>2, <1>3

-------------------------------------------------------------------------------
(* What the quoting functions return *)

Sides == {"BUY", "SELL"}
Regimes == {"QUIET", "TRENDING", "REDUCE_ONLY", "EVENT", "HALTED"}

\* The prices an exchange accepts.
OnGrid(p, x) == x \in p.tick .. One - p.tick /\ x % p.tick = 0

QuoteRec == [tok : Outcomes, side : Sides, price : Int, size : Nat]

\* A quote the exchange takes.
Sound(p) == {q \in QuoteRec : OnGrid(p, q.price) /\ q.size >= p.min_order}

\* The dearest bid for an outcome.
FairOf(fv, tok) == IF tok = "yes" THEN fv ELSE One - fv
Dearest(p, fv, tok) == Max({FairOf(fv, tok) - p.min_edge * p.tick, p.tick})

\* A sound quote that keeps the edge.
Edged(p, fv) == {q \in Sound(p) : q.side = "BUY" => q.price <= Dearest(p, fv, q.tok)}

\* The grid of a profile: its ends are ticks, and a whole is a number of ticks.
LEMMA Ticks ==
  ASSUME NEW p \in Profile
  PROVE  /\ One \in Nat \ {0} /\ p.tick \in Nat \ {0} /\ 2 * p.tick <= One
         /\ OnGrid(p, p.tick) /\ OnGrid(p, One - p.tick)
         /\ \E k \in Int : One = k * p.tick
<1>1. One \in Nat \ {0} /\ p.tick \in Nat \ {0} /\ 2 * p.tick <= One /\ One % p.tick = 0
  BY OneAssumption DEF Profile
<1> DEFINE t == p.tick
<1> HIDE DEF t
<1>2. t \in Nat \ {0} /\ 2 * t <= One /\ One % t = 0
  BY <1>1 DEF t
<1>3. t % t = 0
  BY <1>2
<1>4. PICK k \in Int : One = k * t
  BY <1>1, <1>2, Multiples
<1>5. One - t = (k - 1) * t
  BY <1>2, <1>4
<1>6. (One - t) % t = 0
  <2>1. One - t \in Int /\ k - 1 \in Int
    BY <1>1, <1>2
  <2> QED  BY <1>2, <1>5, <2>1, Multiples
<1> QED  BY <1>1, <1>2, <1>3, <1>4, <1>6 DEF t, OnGrid

\* A number of ticks, clamped to the grid, is on the grid.
LEMMA Snapped ==
  ASSUME NEW p \in Profile, NEW k \in Int
  PROVE  OnGrid(p, Clamp(k * p.tick, p.tick, One - p.tick))
<1> DEFINE t == p.tick
           y == k * t
           hi == One - t
           x == Clamp(y, t, hi)
<1>1. t \in Nat \ {0} /\ 2 * t <= One /\ One \in Nat /\ t % t = 0 /\ hi % t = 0
  BY Ticks DEF OnGrid
<1> HIDE DEF t
<1>2. y \in Int /\ hi \in Int /\ t \in Int /\ t <= hi
  BY <1>1
<1>4. y % t = 0
  BY <1>1, <1>2, Multiples
<1> HIDE DEF y, hi
<1>3. x \in t .. hi /\ x \in {y, t, hi}
  BY <1>2, Clamped
<1>5. x % t = 0
  BY <1>1, <1>3, <1>4
<1> QED  BY <1>3, <1>5 DEF OnGrid, t, hi, y

\* round_down: a price of the grid that is no dearer, but for the lowest there is.
LEMMA RoundedDown ==
  ASSUME NEW p \in Profile, NEW x \in Int
  PROVE  /\ OnGrid(p, RoundDown(x, p.tick)) /\ RoundDown(x, p.tick) \in Int
         /\ RoundDown(x, p.tick) <= Max({x, p.tick})
<1> DEFINE t == p.tick
           y == (x \div t) * t
           hi == One - t
<1>1. t \in Nat \ {0} /\ 2 * t <= One /\ One \in Nat
  BY Ticks
<1> HIDE DEF t
<1>2. y \in Int /\ y <= x /\ x \div t \in Int
  BY <1>1, Floored
<1>3. RoundDown(x, p.tick) = Clamp(y, t, hi)
  BY DEF RoundDown, t
<1>4. OnGrid(p, Clamp(y, t, hi))
  BY <1>2, Snapped DEF t
<1>a. t \in Int /\ hi \in Int /\ t <= hi
  BY <1>1
<1> HIDE DEF y, hi
<1>5. Clamp(y, t, hi) <= Max({y, t}) /\ Clamp(y, t, hi) \in t .. hi
  BY <1>a, <1>2, Clamped
<1>6. Max({y, t}) = (IF y >= t THEN y ELSE t)
  BY <1>a, <1>2, MaxOfTwo
<1>7. Max({x, t}) = (IF x >= t THEN x ELSE t)
  BY <1>a, MaxOfTwo
<1>8. Clamp(y, t, hi) <= Max({x, t}) /\ Clamp(y, t, hi) \in Int
  BY <1>a, <1>2, <1>5, <1>6, <1>7
<1> QED  BY <1>3, <1>4, <1>8 DEF t

\* round_up: a price of the grid.
LEMMA RoundedUp ==
  ASSUME NEW p \in Profile, NEW x \in Int
  PROVE  OnGrid(p, RoundUp(x, p.tick)) /\ RoundUp(x, p.tick) \in Int
<1>1. p.tick \in Nat \ {0} /\ One \in Nat
  BY Ticks
<1> DEFINE k == -((-x) \div p.tick)
<1>2. k \in Int
  BY <1>1
<1>a. RoundUp(x, p.tick) = Clamp(k * p.tick, p.tick, One - p.tick)
  <2>1. -((-x) \div p.tick) * p.tick = k * p.tick
    BY <1>1
  <2> QED  BY <2>1 DEF RoundUp
<1> HIDE DEF k
<1>3. OnGrid(p, RoundUp(x, p.tick))
  BY <1>2, <1>a, Snapped
<1> QED  BY <1>1, <1>3 DEF OnGrid

\* The reward level, if there is one, is a price.
LEMMA RewardLevel ==
  ASSUME NEW p \in Profile, NEW view \in View, NEW delta \in Int
  PROVE  \/ RewardBandPrice(view, p, delta) = {}
         \/ \E r \in Int : RewardBandPrice(view, p, delta) = {r}
<1> DEFINE band == Max({delta, p.tick})
           used == Max({p.tick, (band \div p.tick) * p.tick})
           mid2 == view.bid + view.ask
           near == {l \in view.levels : mid2 - 2 * used <= 2 * l /\ 2 * l <= mid2}
           n == Cardinality(near)
           farthest == Min(near)
<1>0. /\ p.tick \in Nat \ {0} /\ p.reward_ratio \in Nat /\ p.min_levels \in Nat \ {0, 1}
      /\ One \in Nat /\ mid2 \in Int /\ view.levels \in SUBSET (0 .. One)
  BY Ticks DEF Profile, View
<1>1. band \in Int
  <2>1. p.tick \in Int /\ delta \in Int
    BY <1>0
  <2>2. band \in {delta, p.tick}
    BY <2>1, MaxOfTwo
  <2> QED  BY <2>1, <2>2
<1>2. RewardBandPrice(view, p, delta) =
        IF view.levels = {} \/ view.bid = 0 \/ view.ask = One THEN {}
        ELSE IF ~p.coarse
             THEN {RoundDown((50 * mid2 - p.reward_ratio * band) \div 100, p.tick)}
        ELSE IF n < p.min_levels THEN {}
        ELSE IF n = 3 THEN {Min(near \ {farthest, Max(near)})}
        ELSE {Min(near \ {farthest})}
  BY DEF RewardBandPrice
<1>3. near \in SUBSET (0 .. One)
  BY <1>0
<1> HIDE DEF near, band, mid2
<1>4. RoundDown((50 * mid2 - p.reward_ratio * band) \div 100, p.tick) \in Int
  <2>1. p.reward_ratio * band \in Int /\ 50 * mid2 \in Int
    BY <1>0, <1>1
  <2>2. (50 * mid2 - p.reward_ratio * band) \div 100 \in Int
    BY <2>1
  <2> QED  BY <2>2, RoundedDown
<1>5. IsFiniteSet(near) /\ n \in Nat
  <2>1. IsFiniteSet(0 .. One)
    BY <1>0, FS_Interval
  <2> QED  BY <1>3, <2>1, FS_Subset, FS_CardinalityType
<1>6. ASSUME ~(n < p.min_levels) PROVE near \ {farthest} # {} /\ (n = 3 => near \ {farthest, Max(near)} # {})
  <2>1. n >= 2
    BY <1>0, <1>5, <1>6
  <2> DEFINE a == near \ {farthest}
             b == a \ {Max(near)}
  <2>2. IsFiniteSet(a) /\ Cardinality(a) \in {n, n - 1}
    BY <1>5, FS_RemoveElement
  <2>3. IsFiniteSet(b) /\ Cardinality(b) \in {Cardinality(a), Cardinality(a) - 1}
    BY <2>2, FS_RemoveElement
  <2>4. Cardinality({}) = 0
    BY FS_EmptySet
  <2>5. b = near \ {farthest, Max(near)}
    OBVIOUS
  <2> HIDE DEF a, b, n
  <2>6. Cardinality(a) >= 1 /\ (n = 3 => Cardinality(b) >= 1)
    BY <1>5, <2>1, <2>2, <2>3
  <2>7. a # {} /\ (n = 3 => b # {})
    BY <2>4, <2>6
  <2> QED  BY <2>5, <2>7 DEF a
<1>7. \A T \in SUBSET near : T # {} => Min(T) \in Int
  <2> SUFFICES ASSUME NEW T \in SUBSET near, T # {} PROVE Min(T) \in Int
    OBVIOUS
  <2>1. T \in SUBSET (0 .. One) /\ One \in Nat
    BY <1>0, <1>3
  <2>2. Min(T) \in T
    BY <2>1, Extremes
  <2>3. Min(T) \in 0 .. One
    BY <2>1, <2>2, Zenon
  <2> QED  BY <2>1, <2>3
<1>8. ~(n < p.min_levels) =>
        Min(near \ {farthest}) \in Int /\ (n = 3 => Min(near \ {farthest, Max(near)}) \in Int)
  BY <1>6, <1>7
<1> HIDE DEF n, farthest
<1> QED  BY <1>2, <1>4, <1>8

\* place_bid: wherever the reward band, the touch or the best bid draw it, the bid is a price
\* of the grid and keeps the edge below fair value.
LEMMA BidPlaced ==
  ASSUME NEW p \in Profile, NEW view \in View, NEW delta \in Int, NEW target \in Int, NEW fv \in Int
  PROVE  /\ OnGrid(p, PlaceBid(target, view, fv, delta, p))
         /\ PlaceBid(target, view, fv, delta, p) \in Int
         /\ PlaceBid(target, view, fv, delta, p) <= Max({fv - p.min_edge * p.tick, p.tick})
<1> DEFINE reward == IF p.reward_aware THEN RewardBandPrice(view, p, delta) ELSE {}
           wanted == IF reward = {} THEN target ELSE Max(reward)
           limit == fv - p.min_edge * p.tick
           edge == Min({wanted, limit})
           joined == IF reward = {} /\ view.bid > 0 /\ edge >= view.bid THEN view.bid ELSE edge
           behind == IF joined >= view.ask THEN view.ask - p.tick ELSE joined
<1>0. p.tick \in Nat \ {0} /\ limit \in Int /\ view.bid \in Int /\ view.ask \in Int
  BY Ticks DEF Profile, View
<1>1. PlaceBid(target, view, fv, delta, p) = RoundDown(behind, p.tick)
  BY DEF PlaceBid
<1>2. reward = {} \/ \E r \in Int : reward = {r}
  BY RewardLevel
<1>3. \A r \in Int : Max({r}) = r
  <2> SUFFICES ASSUME NEW r \in Int PROVE Max({r}) = r
    OBVIOUS
  <2>1. {r} = {r, r}
    OBVIOUS
  <2> QED  BY <2>1, MaxOfTwo
<1> HIDE DEF reward, limit
<1>4. wanted \in Int
  BY <1>2, <1>3
<1> HIDE DEF wanted
<1>5. edge \in Int /\ edge <= limit
  BY <1>0, <1>4, MinOfTwo
<1> HIDE DEF edge
<1>6. joined \in Int /\ joined <= edge
  BY <1>0, <1>5
<1> HIDE DEF joined
<1>7. behind \in Int /\ behind <= limit
  BY <1>0, <1>5, <1>6
<1> HIDE DEF behind
<1>8. /\ OnGrid(p, RoundDown(behind, p.tick)) /\ RoundDown(behind, p.tick) \in Int
      /\ RoundDown(behind, p.tick) <= Max({behind, p.tick})
  BY <1>7, RoundedDown
<1>9. Max({behind, p.tick}) <= Max({limit, p.tick}) /\ Max({behind, p.tick}) \in Int
      /\ Max({limit, p.tick}) \in Int
  <2> DEFINE t == p.tick
  <2>0. t \in Int /\ limit \in Int /\ behind \in Int /\ behind <= limit
    BY <1>0, <1>7
  <2> HIDE DEF t
  <2>1. Max({behind, t}) = IF behind >= t THEN behind ELSE t
    BY <2>0, MaxOfTwo
  <2>2. Max({limit, t}) = IF limit >= t THEN limit ELSE t
    BY <2>0, MaxOfTwo
  <2>3. Max({behind, t}) <= Max({limit, t}) /\ Max({behind, t}) \in Int /\ Max({limit, t}) \in Int
    BY <2>0, <2>1, <2>2
  <2> QED  BY <2>3 DEF t
<1> QED  BY <1>1, <1>8, <1>9 DEF limit

\* What is picked of a sequence of sound things is sound.
LEMMA PickTyped ==
  ASSUME NEW S, NEW seq \in Seq(S), NEW T, NEW indices \in SUBSET DOMAIN seq,
         \A i \in indices : seq[i] \in T
  PROVE  Pick(seq, indices) \in Seq(T)
<1> DEFINE t == Pick(seq, indices)
<1>1. PICK at : Picked(seq, indices, Len(seq), t, at)
  BY PickIs
<1> HIDE DEF t
<1>2. Len(t) \in Nat /\ DOMAIN t = 1 .. Len(t) /\ t = [j \in 1 .. Len(t) |-> t[j]]
  BY <1>1 DEF Picked
<1>3. \A j \in 1 .. Len(t) : t[j] \in T
  BY <1>1 DEF Picked
<1>4. t \in [1 .. Len(t) -> T]
  BY <1>2, <1>3
<1>5. t \in Seq(T)
  BY <1>2, <1>4
<1> QED  BY <1>5 DEF t

\* add_layers: every layer is a sound BUY of the outcome, none dearer than the first.
LEMMA LayersAdded ==
  ASSUME NEW p \in Profile, NEW tok \in Outcomes, NEW top \in Int, OnGrid(p, top), NEW total \in Int
  PROVE  AddLayers(tok, top, total, p) \in
           Seq({q \in Sound(p) : q.tok = tok /\ q.side = "BUY" /\ q.price <= top})
<1> DEFINE floor == Max({p.reward_floor, p.min_order})
           N == {1} \union {l \in 1 .. p.layers : 2 * (total \div l) >= floor}
           n == Max(N)
           split == total \div n
           size == IF split < floor /\ (2 * split >= floor \/ p.reward_only) THEN floor ELSE split
           layers == [i \in 1 .. n |-> [tok |-> tok, side |-> "BUY", size |-> size,
                                        price |-> top - (i - 1) * p.layer_step * p.tick]]
           chosen == {i \in 1 .. n : 0 < layers[i].price /\ layers[i].price < One}
           Q == {q \in Sound(p) : q.tok = tok /\ q.side = "BUY" /\ q.price <= top}
<1>0. /\ p.tick \in Nat \ {0} /\ p.layer_step \in Nat /\ p.layers \in Nat /\ One \in Nat
      /\ p.min_order \in Nat /\ p.reward_floor \in Nat
  BY Ticks DEF Profile
<1>1. AddLayers(tok, top, total, p) =
        IF total <= 0 \/ size < p.min_order \/ size <= 0 THEN <<>> ELSE Pick(layers, chosen)
  BY DEF AddLayers
<1>2. floor \in Int
  <2>1. p.reward_floor \in Int /\ p.min_order \in Int
    BY <1>0
  <2>2. \A a, b \in Int : Max({a, b}) \in Int
    BY MaxOfTwo
  <2> QED  BY <2>1, <2>2, Zenon
<1> HIDE DEF floor
<1>3. n \in Nat \ {0}
  <2> DEFINE k == p.layers + 1
  <2>1. N \in SUBSET (0 .. k) /\ k \in Nat /\ N # {} /\ 1 \in N
    BY <1>0
  <2> HIDE DEF N, k
  <2>2. n \in N /\ n >= 1
    BY <2>1, Extremes
  <2>3. n \in 0 .. k
    BY <2>1, <2>2, Zenon
  <2> QED  BY <2>1, <2>2, <2>3
<1> HIDE DEF n, N
<1>4. split \in Int
  BY <1>3
<1> HIDE DEF split
<1>5. size \in Int
  BY <1>2, <1>4
<1> HIDE DEF size
<1>6. CASE total <= 0 \/ size < p.min_order \/ size <= 0
  BY <1>1, <1>6
<1>7. CASE size >= p.min_order /\ size > 0 /\ total > 0
  <2>0. size \in Nat
    BY <1>5, <1>7
  <2>1. ASSUME NEW i \in 1 .. n
        PROVE  /\ layers[i] \in [tok : Outcomes, side : {"BUY"}, size : Nat, price : Int]
               /\ layers[i].tok = tok /\ layers[i].side = "BUY" /\ layers[i].size = size
               /\ layers[i].price <= top
               /\ layers[i].price % p.tick = 0
    <3> DEFINE j == i - 1
               s == p.layer_step
               t == p.tick
    <3>0. j \in Nat /\ s \in Nat /\ t \in Nat \ {0}
      BY <1>0, <1>3
    <3>1. layers[i] = [tok |-> tok, side |-> "BUY", size |-> size, price |-> top - j * s * t]
      OBVIOUS
    <3> HIDE DEF j, s, t
    <3>2. j * s \in Nat /\ j * s * t \in Nat
      BY <3>0
    <3>3. top % t = 0
      BY DEF OnGrid, t
    <3>4. PICK k \in Int : top = k * t
      BY <3>0, <3>3, Multiples
    <3>5. top - j * s * t = (k - j * s) * t /\ k - j * s \in Int /\ top - j * s * t \in Int
      BY <3>0, <3>2, <3>4
    <3>6. (top - j * s * t) % t = 0
      BY <3>0, <3>5, Multiples
    <3>7. layers[i].price = top - j * s * t
      BY <3>1
    <3>8. layers[i].price <= top /\ layers[i].price \in Int
      BY <3>2, <3>7
    <3> HIDE DEF layers
    <3> QED  BY <2>0, <3>1, <3>6, <3>7, <3>8 DEF t
  <2>2. layers \in Seq([tok : Outcomes, side : {"BUY"}, size : Nat, price : Int])
    <3>1. \A i \in 1 .. n : layers[i] \in [tok : Outcomes, side : {"BUY"}, size : Nat, price : Int]
      BY <2>1
    <3>2. n \in Nat
      BY <1>3
    <3> DEFINE R == [tok : Outcomes, side : {"BUY"}, size : Nat, price : Int]
    <3>3. layers \in [1 .. n -> R]
      <4> HIDE DEF R
      <4> QED  BY <3>1 DEF R
    <3> HIDE DEF R, layers
    <3>4. layers \in Seq(R)
      BY <3>2, <3>3
    <3> QED  BY <3>4 DEF R
  <2>3. DOMAIN layers = 1 .. n /\ chosen \in SUBSET (1 .. n)
    OBVIOUS
  <2>4. ASSUME NEW i \in chosen PROVE layers[i] \in Q
    <3>1. i \in 1 .. n /\ 0 < layers[i].price /\ layers[i].price < One
      OBVIOUS
    <3> DEFINE x == layers[i].price
    <3> HIDE DEF layers
    <3>2. x \in Int /\ x % p.tick = 0 /\ 0 < x /\ x < One
      BY <2>1, <3>1
    <3> HIDE DEF x
    <3>3. x >= p.tick /\ x <= One - p.tick
      <4> DEFINE t == p.tick
      <4>1. PICK c \in Int : One = c * t
        BY Ticks
      <4>2. t \in Nat \ {0} /\ x % t = 0
        BY <1>0, <3>2
      <4> HIDE DEF t
      <4>3. PICK k \in Int : x = k * t
        BY <3>2, <4>2, Multiples
      <4>4. k > 0
        BY <3>2, <4>2, <4>3
      <4>5. k * t >= t
        BY <4>2, <4>4
      <4>6. k < c
        BY <3>2, <4>1, <4>2, <4>3
      <4>7. k * t <= (c - 1) * t
        BY <4>2, <4>6
      <4>8. (c - 1) * t = One - t
        BY <4>1, <4>2
      <4> QED  BY <4>3, <4>5, <4>7, <4>8 DEF t
    <3>4. OnGrid(p, x)
      BY <1>0, <3>2, <3>3 DEF OnGrid
    <3>5. layers[i] \in QuoteRec
      BY <2>1, <3>1 DEF QuoteRec, Sides
    <3>6. layers[i].size >= p.min_order
      BY <1>7, <2>1, <3>1
    <3>7. layers[i] \in Sound(p)
      BY <3>4, <3>5, <3>6 DEF Sound, x
    <3> QED  BY <2>1, <3>1, <3>7
  <2>5. Pick(layers, chosen) \in Seq(Q)
    <3> HIDE DEF layers, chosen, Q
    <3> QED  BY <2>2, <2>3, <2>4, PickTyped
  <2> QED  BY <1>1, <1>7, <2>5
<1> QED  BY <1>0, <1>5, <1>6, <1>7

\* maybe_exit: at most one sound SELL.
LEMMA ExitMade ==
  ASSUME NEW p \in Profile, NEW tok \in Outcomes, NEW held \in Nat, NEW fv \in Int, NEW delta \in Int,
         NEW view \in View, NEW in \in Findings, NEW regime \in Regimes
  PROVE  MaybeExit(tok, held, fv, delta, view, in, regime, p) \in
           Seq({q \in Sound(p) : q.side = "SELL"})
<1> DEFINE touch == view.bid + p.tick
           passive == fv + delta
           urgency == IF regime = "REDUCE_ONLY" THEN Max({in.urgency, 1}) ELSE in.urgency
           walked == IF view.bid = 0 THEN 2 * passive
                     ELSE Max({passive * (2 - urgency) + touch * urgency, 2 * touch})
           price == RoundUp(-((-walked) \div 2), p.tick)
           quote == [tok |-> tok, side |-> "SELL", size |-> held, price |-> price]
<1>1. MaybeExit(tok, held, fv, delta, view, in, regime, p) =
        IF held < p.min_order THEN <<>> ELSE <<quote>>
  BY DEF MaybeExit
<1>2. touch \in Int /\ passive \in Int /\ in.urgency \in Int /\ p.min_order \in Nat
  BY Ticks DEF View, Findings, Profile
<1>3. urgency \in Int
  <2> DEFINE u == in.urgency
  <2>1. u \in Int
    BY <1>2
  <2> HIDE DEF u
  <2>2. Max({u, 1}) \in Int
    BY <2>1, MaxOfTwo
  <2> QED  BY <2>1, <2>2 DEF u
<1> HIDE DEF touch, passive, urgency
<1>4. walked \in Int
  <2> DEFINE a == passive * (2 - urgency) + touch * urgency
             b == 2 * touch
  <2>1. a \in Int /\ b \in Int /\ 2 * passive \in Int
    BY <1>2, <1>3
  <2> HIDE DEF a, b
  <2>2. Max({a, b}) \in {a, b}
    BY <2>1, MaxOfTwo
  <2>3. Max({a, b}) \in Int
    BY <2>1, <2>2
  <2> QED  BY <2>1, <2>3 DEF a, b
<1> HIDE DEF walked
<1>5. -((-walked) \div 2) \in Int
  BY <1>4
<1>6. OnGrid(p, price) /\ price \in Int
  BY <1>5, RoundedUp
<1> HIDE DEF price
<1>7. ~(held < p.min_order) => quote \in {q \in Sound(p) : q.side = "SELL"}
  BY <1>2, <1>6 DEF Sound, QuoteRec, Sides
<1> HIDE DEF quote
<1>8. CASE held < p.min_order
  BY <1>1, <1>8
<1>9. CASE ~(held < p.min_order)
  <2> DEFINE Q == {q \in Sound(p) : q.side = "SELL"}
  <2>1. quote \in Q
    BY <1>7, <1>9
  <2> HIDE DEF Q
  <2>2. <<quote>> \in Seq(Q)
    BY <2>1
  <2> QED  BY <1>1, <1>9, <2>2 DEF Q
<1> QED  BY <1>8, <1>9

\* The half-spread is a number.
LEMMA DeltaTyped ==
  ASSUME NEW p \in Profile, NEW in \in Findings, NEW regime
  PROVE  Delta(p, in, regime) \in Int
<1> DEFINE base == p.delta_min * p.tick
           wide == base + in.spread
           top == Max({base, p.band})
           delta == IF regime = "QUIET" /\ p.band > 0 THEN Clamp(wide, base, top) ELSE wide
<1>1. p.tick \in Int /\ p.delta_min \in Int /\ p.band \in Int /\ in.spread \in Int
  BY Ticks DEF Profile, Findings
<1>2. base \in Int
  BY <1>1
<1>3. wide \in Int
  BY <1>1, <1>2
<1> HIDE DEF base, wide
<1>4. top \in Int /\ base <= top
  <2>1. top \in {base, p.band} /\ top >= base
    BY <1>1, <1>2, MaxOfTwo
  <2> QED  BY <1>1, <1>2, <2>1
<1> HIDE DEF top
<1>5. Clamp(wide, base, top) \in Int
  <2>1. Clamp(wide, base, top) \in base .. top
    BY <1>2, <1>3, <1>4, Clamped
  <2> QED  BY <1>2, <1>4, <2>1
<1>6. delta \in Int
  BY <1>3, <1>5
<1>7. Delta(p, in, regime) = Max({delta, p.tick})
  BY DEF Delta, base, wide, top
<1> HIDE DEF delta
<1>8. Max({delta, p.tick}) \in {delta, p.tick}
  BY <1>1, <1>6, MaxOfTwo
<1> QED  BY <1>1, <1>6, <1>7, <1>8

\* A sequence over a part of a set is one over the set.
LEMMA SeqWider ==
  ASSUME NEW S, NEW T, S \subseteq T, NEW seq \in Seq(S)
  PROVE  seq \in Seq(T)
<1>1. Len(seq) \in Nat /\ seq = [i \in 1 .. Len(seq) |-> seq[i]] /\ \A i \in 1 .. Len(seq) : seq[i] \in S
  OBVIOUS
<1>2. \A i \in 1 .. Len(seq) : seq[i] \in T
  BY <1>1
<1> QED  BY <1>1, <1>2

\* The total to split over the layers is a number: what it is divided by is not 0.
LEMMA ScaledTyped ==
  ASSUME NEW base \in Nat, NEW scale \in Int, NEW q \in Nat \ {0}, NEW lean \in Int,
         NEW bid \in Nat \ {0}, NEW part \in {1, 2}
  PROVE  (base * scale * (q - lean)) \div (bid * 100 * q * part) \in Int
<1>1. base * scale * (q - lean) \in Int
  <2>1. base * scale \in Int /\ q - lean \in Int
    OBVIOUS
  <2> QED  BY <2>1
<1>2. bid * 100 * q * part \in Nat \ {0}
  <2> DEFINE a == bid * 100
             b == a * q
  <2>1. a \in Nat \ {0}
    OBVIOUS
  <2> HIDE DEF a
  <2>2. b \in Nat \ {0}
    BY <2>1
  <2> HIDE DEF b
  <2>3. b * part \in Nat \ {0}
    BY <2>2
  <2> QED  BY <2>3 DEF a, b
<1> DEFINE x == base * scale * (q - lean)
           y == bid * 100 * q * part
<1> HIDE DEF x, y
<1>3. x \div y \in Int
  BY <1>1, <1>2 DEF x, y
<1> QED  BY <1>3 DEF x, y

\* construct_quotes: all quotes are sound and every BUY keeps its edge, in every regime and
\* for every position and every book.
LEMMA QuotesConstructed ==
  ASSUME NEW p \in Profile, NEW in \in Findings, NEW regime \in Regimes,
         NEW held \in [Outcomes -> Nat], NEW scale \in Int
  PROVE  ConstructQuotes(p, in, regime, held, scale) \in Seq(Edged(p, in.fv))
<1> DEFINE fv(tok) == IF tok = "yes" THEN in.fv ELSE One - in.fv
           net == (held["yes"] - held["no"]) * Max({in.fv, p.tick})
           used == Clamp(net, -p.q_max, p.q_max)
           lean(tok) == IF tok = "yes" THEN used ELSE -used
           delta == Delta(p, in, regime)
           adds(tok) == /\ regime # "REDUCE_ONLY"
                        /\ 100 * lean(tok) < p.q_soft * p.q_max
                        /\ tok \notin in.cooldown
                        /\ in.entry \/ ~p.reward_only
           aim(tok) == fv(tok) - (in.lean * lean(tok)) \div p.q_max - delta
           bid(tok) == PlaceBid(aim(tok), in.view[tok], fv(tok), delta, p)
           part == IF regime = "TRENDING" THEN 2 ELSE 1
           total(tok) ==
             (p.base * scale * (p.q_max - Max({lean(tok), 0})))
               \div (Max({bid(tok), p.tick}) * 100 * p.q_max * part)
           entry(tok) == IF adds(tok) THEN AddLayers(tok, bid(tok), total(tok), p) ELSE <<>>
           exit(tok) == MaybeExit(tok, held[tok], fv(tok), delta, in.view[tok], in, regime, p)
           E == Edged(p, in.fv)
<1>0. /\ p.tick \in Nat \ {0} /\ p.q_max \in Nat \ {0} /\ p.base \in Nat /\ One \in Nat
      /\ in.fv \in Nat /\ in.lean \in Nat
      /\ \A tok \in Outcomes : in.view[tok] \in View /\ held[tok] \in Nat
  BY Ticks DEF Profile, Findings
<1>1. ConstructQuotes(p, in, regime, held, scale) =
        IF regime \in {"EVENT", "HALTED"} THEN <<>>
        ELSE entry("yes") \o entry("no") \o exit("yes") \o exit("no")
  BY DEF ConstructQuotes
<1>a. \A a, b \in Int : Max({a, b}) \in Int /\ Max({a, b}) >= b
  BY MaxOfTwo
<1>2. used \in Int
  <2> DEFINE q == p.q_max
  <2>1. net \in Int
    <3>0. in.fv \in Int /\ p.tick \in Int
      BY <1>0
    <3>1. Max({in.fv, p.tick}) \in Int
      BY <1>a, <3>0, Zenon
    <3> DEFINE x == Max({in.fv, p.tick})
    <3> HIDE DEF x
    <3>2. held["yes"] \in Nat /\ held["no"] \in Nat
      BY DEF Outcomes
    <3> QED  BY <3>1, <3>2 DEF x
  <2>2. q \in Nat
    BY <1>0
  <2> HIDE DEF q, net
  <2>a. -q \in Int /\ q \in Int /\ -q <= q
    BY <2>2
  <2>3. Clamp(net, -q, q) \in -q .. q
    BY <2>1, <2>a, Clamped, Zenon
  <2>4. Clamp(net, -q, q) \in Int
    BY <2>2, <2>3
  <2> QED  BY <2>4 DEF q
<1> HIDE DEF net, used
<1>3. delta \in Int
  BY DeltaTyped
<1> HIDE DEF delta
<1>4. ASSUME NEW tok \in Outcomes
      PROVE  entry(tok) \in Seq(E) /\ exit(tok) \in Seq(E)
  <2>1. fv(tok) \in Int /\ fv(tok) = FairOf(in.fv, tok) /\ lean(tok) \in Int
    BY <1>0, <1>2 DEF FairOf
  <2> HIDE DEF fv, lean
  <2>2. aim(tok) \in Int
    <3>1. in.lean * lean(tok) \in Int
      BY <1>0, <2>1
    <3>2. (in.lean * lean(tok)) \div p.q_max \in Int
      BY <1>0, <3>1
    <3> QED  BY <1>3, <2>1, <3>2
  <2> HIDE DEF aim
  <2>3. /\ OnGrid(p, bid(tok)) /\ bid(tok) \in Int
        /\ bid(tok) <= Dearest(p, in.fv, tok)
    BY <1>0, <1>3, <2>1, <2>2, BidPlaced DEF Dearest
  <2> HIDE DEF bid
  <2>4. total(tok) \in Int
    <3> DEFINE b == Max({bid(tok), p.tick})
               l == Max({lean(tok), 0})
    <3>1. b \in Int /\ b >= p.tick
      <4>1. p.tick \in Int
        BY <1>0
      <4> QED  BY <1>a, <2>3, <4>1, Zenon
    <3>2. l \in Int
      BY <1>a, <2>1, 0 \in Int, Zenon
    <3>3. part \in {1, 2}
      OBVIOUS
    <3> HIDE DEF b, l, part
    <3>4. b \in Nat \ {0}
      BY <1>0, <3>1
    <3>5. (p.base * scale * (p.q_max - l)) \div (b * 100 * p.q_max * part) \in Int
      BY <1>0, <3>2, <3>3, <3>4, ScaledTyped
    <3> QED  BY <3>5 DEF b, l
  <2> HIDE DEF total, adds
  <2>5. entry(tok) \in Seq(E)
    <3> DEFINE Q == {q \in Sound(p) : q.tok = tok /\ q.side = "BUY" /\ q.price <= bid(tok)}
    <3>1. AddLayers(tok, bid(tok), total(tok), p) \in Seq(Q)
      BY <2>3, <2>4, LayersAdded
    <3>2. Q \subseteq E
      <4> SUFFICES ASSUME NEW q \in Q PROVE q \in E
        OBVIOUS
      <4>1. q \in Sound(p) /\ q.tok = tok /\ q.price <= bid(tok)
        OBVIOUS
      <4>2. q.price \in Int
        BY <4>1 DEF Sound, QuoteRec
      <4>3. Dearest(p, in.fv, tok) \in Int
        <5>1. FairOf(in.fv, tok) - p.min_edge * p.tick \in Int /\ p.tick \in Int
          BY <1>0, <2>1 DEF Profile
        <5> QED  BY <5>1, <1>a, Zenon DEF Dearest
      <4>4. q.price <= Dearest(p, in.fv, q.tok)
        <5> DEFINE d == Dearest(p, in.fv, tok)
                   x == q.price
                   y == bid(tok)
        <5>1. x \in Int /\ y \in Int /\ d \in Int /\ x <= y /\ y <= d
          BY <2>3, <4>1, <4>2, <4>3
        <5> HIDE DEF d, x, y
        <5>2. x <= d
          BY <5>1
        <5> QED  BY <4>1, <5>2, Zenon DEF d, x
      <4> QED  BY <4>1, <4>4, Zenon DEF Edged
    <3> HIDE DEF Q, E
    <3>3. AddLayers(tok, bid(tok), total(tok), p) \in Seq(E)
      BY <3>1, <3>2, SeqWider
    <3>4. <<>> \in Seq(E)
      OBVIOUS
    <3> QED  BY <3>3, <3>4
  <2>6. exit(tok) \in Seq(E)
    <3> DEFINE Q == {q \in Sound(p) : q.side = "SELL"}
    <3>1. exit(tok) \in Seq(Q)
      BY <1>0, <1>3, <2>1, ExitMade
    <3>2. Q \subseteq E
      BY DEF Edged
    <3> HIDE DEF Q, E, exit
    <3> QED  BY <3>1, <3>2, SeqWider
  <2> QED  BY <2>5, <2>6
<1> HIDE DEF entry, exit, E
<1>5. "yes" \in Outcomes /\ "no" \in Outcomes
  BY DEF Outcomes
<1>6. entry("yes") \o entry("no") \o exit("yes") \o exit("no") \in Seq(E) /\ <<>> \in Seq(E)
  <2> DEFINE a == entry("yes")
             b == entry("no")
             c == exit("yes")
             d == exit("no")
  <2>1. a \in Seq(E) /\ b \in Seq(E) /\ c \in Seq(E) /\ d \in Seq(E)
    BY <1>4, <1>5
  <2> HIDE DEF a, b, c, d
  <2>2. a \o b \in Seq(E)
    BY <2>1
  <2>3. (a \o b) \o c \in Seq(E)
    BY <2>1, <2>2
  <2>4. ((a \o b) \o c) \o d \in Seq(E)
    BY <2>1, <2>3
  <2> QED  BY <2>4 DEF a, b, c, d
<1> QED  BY <1>1, <1>6 DEF E

\* What each of the orders or quotes costs.
Costs(seq) == [i \in DOMAIN seq |-> Cost(seq[i])]

\* The cost of what is picked is the part of the sum at its places.
LEMMA NotionalPicked ==
  ASSUME NEW S, NEW seq \in Seq(S), NEW indices \in SUBSET DOMAIN seq,
         \A i \in DOMAIN seq : Cost(seq[i]) \in Int
  PROVE  Notional(Pick(seq, indices)) = SumFunctionOnSet(Costs(seq), indices)
<1> DEFINE t == Pick(seq, indices)
           f == Costs(t)
           g == Costs(seq)
<1>1. PICK at : Picked(seq, indices, Len(seq), t, at)
  BY PickIs
<1> HIDE DEF t
<1>2. DOMAIN t = 1 .. Len(t) /\ Len(t) \in Nat /\ DOMAIN seq = 1 .. Len(seq)
  BY <1>1 DEF Picked
<1> DEFINE D == 1 .. Len(t)
<1>3. \A j \in D : at[j] \in indices /\ at[j] \in DOMAIN seq /\ t[j] = seq[at[j]]
  BY <1>1, <1>2 DEF Picked
<1>4. \A j \in D : f[j] = Cost(t[j]) /\ g[at[j]] = Cost(seq[at[j]])
  BY <1>2, <1>3 DEF Costs
<1>5. \A j \in D : f[j] \in Int /\ g[at[j]] = f[j]
  BY <1>3, <1>4
<1>6. \A i, j \in D : at[i] = at[j] => i = j
  <2> SUFFICES ASSUME NEW i \in D, NEW j \in D, i # j PROVE at[i] # at[j]
    OBVIOUS
  <2>1. at[i] \in Nat /\ at[j] \in Nat
    BY <1>2, <1>3
  <2>2. i < j \/ j < i
    OBVIOUS
  <2>3. i < j => at[i] < at[j]
    BY <1>1 DEF Picked
  <2>4. j < i => at[j] < at[i]
    BY <1>1 DEF Picked
  <2> QED  BY <2>1, <2>2, <2>3, <2>4
<1>7. {at[j] : j \in D} = indices
  <2>1. \A k \in indices : \E j \in D : at[j] = k
    BY <1>1, <1>2 DEF Picked
  <2> QED  BY <1>3, <2>1
<1>8. IsFiniteSet(D)
  BY <1>2, FS_Interval
<1>9. SumFunctionOnSet(f, D) = SumFunctionOnSet(g, {at[j] : j \in D})
  <2> HIDE DEF f, g, D
  <2> QED  BY <1>5, <1>6, <1>8, SumRenamed
<1>10. Notional(t) = SumFunctionOnSet(f, D)
  <2>1. DOMAIN f = D
    BY <1>2 DEF Costs
  <2>2. Notional(t) = SumFunction(f)
    BY DEF Notional, Costs
  <2> QED  BY <2>1, <2>2 DEF SumFunction
<1> QED  BY <1>7, <1>9, <1>10 DEF t

\* The cost of a sequence of quotes is a natural number, and no part of it costs more.
LEMMA NotionalIs ==
  ASSUME NEW S, NEW seq \in Seq(S), \A i \in DOMAIN seq : Cost(seq[i]) \in Nat
  PROVE  /\ Notional(seq) = SumFunctionOnSet(Costs(seq), DOMAIN seq)
         /\ Notional(seq) \in Nat /\ IsFiniteSet(DOMAIN seq)
         /\ \A T \in SUBSET DOMAIN seq :
              /\ SumFunctionOnSet(Costs(seq), T) \in Nat
              /\ SumFunctionOnSet(Costs(seq), T) <= Notional(seq)
<1> DEFINE f == Costs(seq)
           D == DOMAIN seq
<1>1. IsFiniteSet(D)
  <2>1. D = 1 .. Len(seq) /\ Len(seq) \in Nat
    OBVIOUS
  <2> QED  BY <2>1, FS_Interval
<1>2. DOMAIN f = D /\ \A i \in D : f[i] \in Nat
  BY DEF Costs
<1>3. Notional(seq) = SumFunctionOnSet(f, D)
  BY <1>2 DEF Notional, Costs, SumFunction
<1> HIDE DEF f, D
<1>4. \A T \in SUBSET D : SumFunctionOnSet(f, T) \in Int
  <2>1. \A i \in D : f[i] \in Int
    BY <1>2
  <2> QED  BY <1>1, <2>1, SumTyped
<1>5. \A T \in SUBSET D : SumFunctionOnSet(f, T) >= 0 /\ SumFunctionOnSet(f, T) <= SumFunctionOnSet(f, D)
  <2> SUFFICES ASSUME NEW T \in SUBSET D
               PROVE  SumFunctionOnSet(f, T) >= 0 /\ SumFunctionOnSet(f, T) <= SumFunctionOnSet(f, D)
    OBVIOUS
  <2>1. SumFunctionOnSet(f, T) <= SumFunctionOnSet(f, D)
    BY <1>1, <1>2, SumPart
  <2>2. IsFiniteSet(T) /\ \A i \in T : f[i] \in Nat
    BY <1>1, <1>2, FS_Subset
  <2>3. SumFunctionOnSet(f, {}) <= SumFunctionOnSet(f, T)
    BY <2>2, SumPart
  <2>4. SumFunctionOnSet(f, {}) = 0
    BY SumAny
  <2>5. SumFunctionOnSet(f, T) \in Int
    BY <1>4
  <2> QED  BY <2>1, <2>3, <2>4, <2>5
<1>6. SumFunctionOnSet(f, D) \in Nat
  <2>1. D \in SUBSET D
    OBVIOUS
  <2> QED  BY <1>4, <1>5, <2>1
<1>7. \A T \in SUBSET D : SumFunctionOnSet(f, T) \in Nat
  BY <1>4, <1>5
<1> QED  BY <1>1, <1>3, <1>5, <1>6, <1>7 DEF f, D

\* What a sound quote costs is a natural number.
LEMMA SoundCost ==
  ASSUME NEW p \in Profile, NEW q \in Sound(p)
  PROVE  Cost(q) \in Nat /\ q.price \in Nat /\ q.size \in Nat /\ q \in QuoteRec
<1>1. q.price \in p.tick .. One - p.tick /\ p.tick \in Nat /\ One \in Nat /\ q \in QuoteRec
      /\ q.size \in Nat
  BY Ticks DEF Sound, OnGrid, QuoteRec
<1>2. q.price \in Nat
  BY <1>1
<1>3. q.price * q.size \in Nat
  BY <1>1, <1>2
<1> QED  BY <1>1, <1>2, <1>3 DEF Cost

\* _fit_to_headroom: the quotes keep their prices and cost no more than the headroom.
LEMMA Fitted ==
  ASSUME NEW p \in Profile, NEW fv \in Int, NEW quotes \in Seq(Edged(p, fv)), NEW headroom \in Nat
  PROVE  /\ FitToHeadroom(quotes, headroom, p) \in Seq(Edged(p, fv))
         /\ Notional(FitToHeadroom(quotes, headroom, p)) \in Nat
         /\ Notional(FitToHeadroom(quotes, headroom, p)) <= headroom
<1> DEFINE wanted == Notional(quotes)
           floor == IF p.reward_only THEN Max({p.min_order, p.reward_floor}) ELSE p.min_order
           fit == [i \in DOMAIN quotes |->
                     IF quotes[i].side = "BUY" /\ headroom < wanted
                     THEN [quotes[i] EXCEPT !.size = (@ * headroom) \div wanted] ELSE quotes[i]]
           left == {i \in DOMAIN quotes : fit[i].side = "SELL" \/ fit[i].size >= floor}
           E == Edged(p, fv)
           D == DOMAIN quotes
<1>0. \A i \in D : quotes[i] \in E /\ quotes[i] \in Sound(p)
  BY DEF Edged
<1>1. FitToHeadroom(quotes, headroom, p) = IF wanted <= 0 THEN quotes ELSE Pick(fit, left)
  BY DEF FitToHeadroom
<1>2. \A i \in D : Cost(quotes[i]) \in Nat
  BY <1>0, SoundCost
<1>3. wanted \in Nat /\ IsFiniteSet(D) /\ wanted = SumFunctionOnSet(Costs(quotes), D)
  BY <1>2, NotionalIs
<1>4. CASE wanted <= 0
  BY <1>1, <1>3, <1>4
<1>5. CASE wanted > 0
  <2>0. p.min_order \in Nat /\ floor \in Int /\ floor >= p.min_order
    <3>1. p.min_order \in Int /\ p.reward_floor \in Int /\ p.min_order \in Nat
      BY DEF Profile
    <3>2. \A a, b \in Int : Max({a, b}) \in Int /\ Max({a, b}) >= a
      BY MaxOfTwo
    <3>3. Max({p.min_order, p.reward_floor}) \in Int
          /\ Max({p.min_order, p.reward_floor}) >= p.min_order
      BY <3>1, <3>2, Zenon
    <3> QED  BY <3>1, <3>3
  <2> HIDE DEF wanted, floor
  <2>1. ASSUME NEW i \in D
        PROVE  /\ fit[i] \in QuoteRec /\ fit[i].side = quotes[i].side /\ fit[i].tok = quotes[i].tok
               /\ fit[i].price = quotes[i].price
               /\ fit[i].side = "SELL" => fit[i] = quotes[i]
               /\ headroom < wanted => wanted * Cost(fit[i]) <= headroom * Cost(quotes[i])
               /\ ~(headroom < wanted) => fit[i] = quotes[i]
               /\ Cost(fit[i]) \in Nat
    <3> DEFINE q == quotes[i]
               s == q.size
               x == q.price
               cut == (s * headroom) \div wanted
    <3>1. q \in QuoteRec /\ s \in Nat /\ x \in Nat
      BY <1>0, SoundCost
    <3>2. cut \in Nat /\ wanted * cut <= s * headroom
      <4> DEFINE a == s * headroom
      <4>1. a \in Nat
        BY <3>1
      <4> HIDE DEF a
      <4>2. a \div wanted \in Nat /\ (a \div wanted) * wanted <= a
        BY <4>1, <1>3, <1>5
      <4> QED  BY <1>3, <4>2 DEF a
    <3>3. CASE q.side = "BUY" /\ headroom < wanted
      <4>1. fit[i] = [q EXCEPT !.size = cut]
        BY <3>3
      <4> HIDE DEF fit, q, s, x, cut
      <4>2. /\ fit[i] \in QuoteRec /\ fit[i].side = q.side /\ fit[i].tok = q.tok
            /\ fit[i].price = q.price /\ fit[i].size = cut
        BY <3>1, <3>2, <4>1 DEF QuoteRec
      <4>3. Cost(fit[i]) = x * cut /\ Cost(q) = x * s
        BY <3>3, <4>2 DEF Cost, x, s
      <4>4. x * (wanted * cut) <= x * (s * headroom)
        <5> DEFINE u == wanted * cut
                   v == s * headroom
        <5>1. u \in Int /\ v \in Int /\ u <= v /\ x \in Nat
          BY <3>1, <3>2, <1>3
        <5> HIDE DEF u, v
        <5>2. x * u <= x * v
          BY <5>1
        <5> QED  BY <5>2 DEF u, v
      <4>5. wanted * (x * cut) <= headroom * (x * s)
        BY <1>3, <3>1, <3>2, <4>4
      <4>6. x * cut \in Nat
        BY <3>1, <3>2
      <4> QED  BY <3>3, <4>2, <4>3, <4>5, <4>6 DEF q
    <3>4. CASE ~(q.side = "BUY" /\ headroom < wanted)
      <4>1. fit[i] = q
        BY <3>4
      <4>2. Cost(q) \in Nat
        BY <1>2
      <4>3. headroom < wanted => Cost(q) = 0
        BY <3>1, <3>4 DEF Cost
      <4>4. headroom < wanted => wanted * Cost(q) <= headroom * Cost(q)
        BY <1>3, <4>3
      <4> HIDE DEF fit
      <4> QED  BY <3>1, <4>1, <4>2, <4>4
    <3> QED  BY <3>3, <3>4
  <2>2. fit \in Seq(QuoteRec) /\ DOMAIN fit = D
    <3>1. D = 1 .. Len(quotes) /\ Len(quotes) \in Nat
      OBVIOUS
    <3>2. DOMAIN fit = D /\ fit = [i \in D |-> fit[i]]
      OBVIOUS
    <3> HIDE DEF fit
    <3> QED  BY <2>1, <3>1, <3>2
  <2> HIDE DEF fit
  <2>3. left \in SUBSET D
    OBVIOUS
  <2>4. ASSUME NEW i \in left PROVE fit[i] \in E
    <3>1. i \in D
      OBVIOUS
    <3>2. quotes[i] \in Sound(p) /\ (quotes[i].side = "BUY" => quotes[i].price <= Dearest(p, fv, quotes[i].tok))
      BY <1>0, <3>1 DEF Edged
    <3>3. fit[i] \in QuoteRec /\ OnGrid(p, fit[i].price) /\ (fit[i].side = "SELL" => fit[i].size >= p.min_order)
      BY <2>1, <3>1, <3>2 DEF Sound
    <3>4. fit[i].side # "SELL" => fit[i].size >= p.min_order
      <4> DEFINE s == fit[i].size
      <4>1. s \in Int
        BY <3>3 DEF QuoteRec
      <4>2. fit[i].side # "SELL" => s >= floor
        OBVIOUS
      <4> HIDE DEF s
      <4>3. fit[i].side # "SELL" => s >= p.min_order
        BY <2>0, <4>1, <4>2
      <4> QED  BY <4>3 DEF s
    <3>5. fit[i] \in Sound(p)
      BY <3>3, <3>4 DEF Sound
    <3>6. fit[i].side = "BUY" => fit[i].price <= Dearest(p, fv, fit[i].tok)
      BY <2>1, <3>1, <3>2
    <3> QED  BY <3>5, <3>6 DEF Edged
  <2>5. Pick(fit, left) \in Seq(E)
    <3> HIDE DEF E, left
    <3> QED  BY <2>2, <2>3, <2>4, PickTyped
  <2>6. \A i \in DOMAIN fit : Cost(fit[i]) \in Nat /\ Cost(fit[i]) \in Int
    BY <2>1, <2>2
  <2>7. Notional(Pick(fit, left)) = SumFunctionOnSet(Costs(fit), left)
    BY <2>2, <2>3, <2>6, NotionalPicked
  <2>8. /\ Notional(fit) = SumFunctionOnSet(Costs(fit), D) /\ Notional(fit) \in Nat
        /\ SumFunctionOnSet(Costs(fit), left) \in Nat
        /\ SumFunctionOnSet(Costs(fit), left) <= Notional(fit)
    BY <2>2, <2>3, <2>6, NotionalIs
  <2>9. Notional(fit) <= headroom
    <3>1. CASE headroom < wanted
      <4>1. \A i \in D : Costs(fit)[i] \in Int /\ Costs(quotes)[i] \in Int
                         /\ wanted * Costs(fit)[i] <= headroom * Costs(quotes)[i]
        BY <1>2, <2>1, <2>2, <3>1 DEF Costs
      <4>2. wanted * SumFunctionOnSet(Costs(fit), D) <= headroom * SumFunctionOnSet(Costs(quotes), D)
        BY <1>3, <4>1, SumScaled
      <4>3. wanted * Notional(fit) <= headroom * wanted
        BY <1>3, <2>8, <4>2
      <4> DEFINE n == Notional(fit)
      <4>4. n \in Nat /\ wanted * n <= headroom * wanted
        BY <2>8, <4>3
      <4> HIDE DEF n
      <4>5. wanted * n <= wanted * headroom
        BY <1>3, <4>4
      <4>6. n <= headroom
        BY <1>3, <1>5, <4>4, <4>5
      <4> QED  BY <4>6 DEF n
    <3>2. CASE ~(headroom < wanted)
      <4>1. \A i \in D : fit[i] = quotes[i]
        BY <2>1, <3>2
      <4>2. Costs(fit) = Costs(quotes)
        BY <2>2, <4>1 DEF Costs
      <4> QED  BY <1>3, <2>8, <3>2, <4>2
    <3> QED  BY <3>1, <3>2
  <2>10. Notional(Pick(fit, left)) \in Nat /\ Notional(Pick(fit, left)) <= headroom
    BY <2>7, <2>8, <2>9
  <2> QED  BY <1>1, <1>3, <1>5, <2>5, <2>10
<1> QED  BY <1>3, <1>4, <1>5

-------------------------------------------------------------------------------
(* What the states are made of *)

OrderRec ==
  [tok : Outcomes, side : Sides, price : Int, size : Nat, id : Nat \ {0}, filled : BOOLEAN]

\* An order that can rest in a market of the profile.
Resting(p) == {o \in OrderRec : OnGrid(p, o.price) /\ o.size >= p.min_order}

\* No two orders share an id.
Distinct(seq) == \A i, j \in DOMAIN seq : i # j => seq[i].id # seq[j].id

TradeRec == [market : Markets, order : OrderRec, id : Nat \ {0}]

\* The locals of a recompute.
Working(m) ==
  [raw : Seq(Sound(P[m])), keep : SUBSET Nat, place : Seq(Sound(P[m])),
   values : [Markets -> Int], buys : [Markets -> Int]]

Stages == {"idle", "fit", "cancel", "place"}

OrdersTyped ==
  /\ DOMAIN orders = Markets
  /\ \A m \in Markets : orders[m] \in Seq(Resting(P[m])) /\ Distinct(orders[m])
PosTyped == pos \in [Markets -> [Outcomes -> Nat]]
MarkTyped == mark \in [Markets -> 1 .. One - 1]
Exclusive ==
  /\ stage \in [Markets -> Stages]
  /\ \A m, n \in Markets :
       stage[m] \in {"cancel", "place"} /\ stage[n] \in {"cancel", "place"} => m = n
WorkTyped == DOMAIN work = Markets /\ \A m \in Markets : work[m] \in Working(m)
TradesTyped == IsFiniteSet(trades) /\ trades \subseteq TradeRec
FillsTyped == fills \in 0 .. MaxFills

Typed ==
  OrdersTyped /\ PosTyped /\ MarkTyped /\ Exclusive /\ WorkTyped /\ TradesTyped /\ FillsTyped

\* The constants, market by market.
LEMMA Settings ==
  ASSUME NEW m \in Markets
  PROVE  P[m] \in Profile /\ Inputs[m] \subseteq Findings /\ IsFiniteSet(Markets)
         /\ MaxMarket \in Nat /\ MaxEvent \in Nat /\ MaxTotal \in Nat /\ MaxFills \in Nat
BY CycleAssumption

\* What a resting order costs is a natural number.
LEMMA RestingCost ==
  ASSUME NEW p \in Profile, NEW o \in Resting(p)
  PROVE  /\ Cost(o) \in Nat /\ o.price \in Nat /\ o.size \in Nat /\ o \in OrderRec
         /\ OnGrid(p, o.price)
<1>1. o.price \in p.tick .. One - p.tick /\ p.tick \in Nat /\ One \in Nat /\ o \in OrderRec
      /\ o.size \in Nat /\ OnGrid(p, o.price)
  BY Ticks DEF Resting, OnGrid, OrderRec
<1>2. o.price \in Nat
  BY <1>1
<1>3. o.price * o.size \in Nat
  BY <1>1, <1>2
<1> QED  BY <1>1, <1>2, <1>3 DEF Cost

\* The resting BUYs of every market cost a natural number.
LEMMA BuysTyped ==
  ASSUME OrdersTyped
  PROVE  Buys \in [Markets -> Nat] /\ DOMAIN Buys = Markets
<1>1. ASSUME NEW m \in Markets PROVE Notional(orders[m]) \in Nat
  <2>1. orders[m] \in Seq(Resting(P[m])) /\ P[m] \in Profile
    BY Settings DEF OrdersTyped
  <2>2. \A i \in DOMAIN orders[m] : orders[m][i] \in Resting(P[m])
    BY <2>1
  <2>3. \A i \in DOMAIN orders[m] : Cost(orders[m][i]) \in Nat
    BY <2>1, <2>2, RestingCost
  <2> QED  BY <2>1, <2>3, NotionalIs
<1> QED  BY <1>1 DEF Buys

\* The positions of every market are worth a natural number.
LEMMA ValuesTyped ==
  ASSUME PosTyped, NEW marks \in [Markets -> 1 .. One - 1]
  PROVE  Values(marks) \in [Markets -> Nat]
<1>1. ASSUME NEW m \in Markets
      PROVE  pos[m]["yes"] * marks[m] + pos[m]["no"] * (One - marks[m]) \in Nat
  <2>1. pos[m]["yes"] \in Nat /\ pos[m]["no"] \in Nat
    BY DEF PosTyped, Outcomes
  <2>2. marks[m] \in Nat /\ One - marks[m] \in Nat
    BY OneAssumption
  <2> DEFINE a == pos[m]["yes"]
             b == pos[m]["no"]
             x == marks[m]
             y == One - x
  <2>3. a \in Nat /\ b \in Nat /\ x \in Nat /\ y \in Nat
    BY <2>1, <2>2
  <2> HIDE DEF a, b, x, y
  <2>4. a * x + b * y \in Nat
    BY <2>3
  <2> QED  BY <2>4 DEF a, b, x, y
<1> QED  BY <1>1 DEF Values

\* What the markets of an event, and all markets, sum to.
LEMMA TotalsTyped ==
  ASSUME NEW f, DOMAIN f = Markets, \A n \in Markets : f[n] \in Int, NEW m \in Markets
  PROVE  EventCost(f, m) \in Int /\ SumFunction(f) \in Int
         /\ SumFunction(f) = SumFunctionOnSet(f, Markets)
<1>1. IsFiniteSet(Markets)
  BY Settings
<1>2. \A T \in SUBSET Markets : SumFunctionOnSet(f, T) \in Int
  BY <1>1, SumTyped
<1>3. SumFunction(f) = SumFunctionOnSet(f, Markets)
  BY DEF SumFunction
<1>4. {n \in Markets : EventOf[n] = EventOf[m] /\ EventOf[m] # NoEvent} \in SUBSET Markets
      /\ Markets \in SUBSET Markets
  OBVIOUS
<1> QED  BY <1>2, <1>3, <1>4 DEF EventCost

\* The scale that a cap leaves is a number.
LEMMA HeadroomTyped ==
  ASSUME NEW current \in Int, NEW cap \in Nat
  PROVE  Headroom(current, cap) \in Int
<1>1. CASE cap <= 0 \/ 10 * current <= 7 * cap
  BY <1>1 DEF Headroom
<1>2. CASE ~(cap <= 0 \/ 10 * current <= 7 * cap)
  <2> DEFINE h == (1000 * (cap - current)) \div (3 * cap)
  <2>1. h \in Int
    BY <1>2
  <2>2. Headroom(current, cap) = Max({0, h})
    BY <1>2 DEF Headroom
  <2> HIDE DEF h
  <2>a. \A x \in Int : Max({0, x}) \in Int
    BY MaxOfTwo
  <2>3. Max({0, h}) \in Int
    BY <2>1, <2>a
  <2> QED  BY <2>2, <2>3
<1> QED  BY <1>1, <1>2

\* The size scale of a recompute is a number.
LEMMA ScaleTyped ==
  ASSUME NEW v \in [Markets -> Nat], NEW m \in Markets
  PROVE  SizeScale(Held(v, m)) \in Int
<1> DEFINE held == Held(v, m)
           a == Headroom(held.market, MaxMarket)
           b == Headroom(held.event, MaxEvent)
           c == Headroom(held.total, MaxTotal)
<1>1. held.market \in Int /\ held.event \in Int /\ held.total \in Int
  <2>1. \A n \in Markets : v[n] \in Int
    OBVIOUS
  <2>2. EventCost(v, m) \in Int /\ SumFunction(v) \in Int
    BY <2>1, TotalsTyped
  <2> QED  BY <2>1, <2>2 DEF Held
<1> HIDE DEF held
<1>2. a \in Int /\ b \in Int /\ c \in Int
  BY <1>1, Settings, HeadroomTyped
<1>3. SizeScale(held) = IF AtCap(held) THEN 100 ELSE Min({a, b, c})
  BY DEF SizeScale
<1> HIDE DEF a, b, c
<1>4. Min({a, b, c}) \in Int
  BY <1>2, MinOfThree
<1> QED  BY <1>3, <1>4 DEF held

\* The room is what each cap leaves beside what is deployed elsewhere.
LEMMA RoomIs ==
  ASSUME OrdersTyped, PosTyped, MarkTyped, NEW m \in Markets
  PROVE  LET deployed == [n \in Markets |-> Values(mark)[n] + IF n = m THEN 0 ELSE Buys[n]]
         IN  /\ Room(m) \in Nat
             /\ Room(m) > 0 => /\ deployed[m] + Room(m) <= MaxMarket
                               /\ SumFunction(deployed) + Room(m) <= MaxTotal
                               /\ EventCost(deployed, m) + Room(m) <= MaxEvent
<1> DEFINE deployed == [n \in Markets |-> Values(mark)[n] + IF n = m THEN 0 ELSE Buys[n]]
           a == MaxMarket - deployed[m]
           b == MaxTotal - SumFunction(deployed)
           c == MaxEvent - EventCost(deployed, m)
           least == Min({a, b, c})
<1>1. \A n \in Markets : deployed[n] \in Int
  <2>1. Values(mark) \in [Markets -> Nat] /\ Buys \in [Markets -> Nat]
    BY ValuesTyped, BuysTyped DEF MarkTyped
  <2> QED  BY <2>1
<1>2. Room(m) = Max({0, least})
  BY DEF Room
<1>3. DOMAIN deployed = Markets
  OBVIOUS
<1> HIDE DEF deployed
<1>4. deployed[m] \in Int /\ SumFunction(deployed) \in Int /\ EventCost(deployed, m) \in Int
  BY <1>1, <1>3, TotalsTyped
<1>5. a \in Int /\ b \in Int /\ c \in Int
  BY <1>4, Settings
<1>6. a = MaxMarket - deployed[m] /\ b = MaxTotal - SumFunction(deployed)
      /\ c = MaxEvent - EventCost(deployed, m)
  OBVIOUS
<1> HIDE DEF a, b, c
<1>7. least \in Int /\ least <= a /\ least <= b /\ least <= c
  <2>1. least \in {a, b, c} /\ least <= a /\ least <= b /\ least <= c
    BY <1>5, MinOfThree
  <2> QED  BY <1>5, <2>1
<1> HIDE DEF least
<1>8. Max({0, least}) = IF 0 >= least THEN 0 ELSE least
  BY <1>7, MaxOfTwo
<1>9. Room(m) \in Nat /\ (Room(m) > 0 => Room(m) = least)
  BY <1>2, <1>7, <1>8
<1>10. Room(m) > 0 => /\ deployed[m] + Room(m) <= MaxMarket
                      /\ SumFunction(deployed) + Room(m) <= MaxTotal
                      /\ EventCost(deployed, m) + Room(m) <= MaxEvent
  BY <1>4, <1>5, <1>6, <1>7, <1>9, Settings
<1> QED  BY <1>9, <1>10 DEF deployed

-------------------------------------------------------------------------------
(* The reconciler *)

\* Of finitely many places one has the least of a number.
LEMMA Nearest ==
  ASSUME NEW T, T # {}, NEW gap, \A i \in T : gap[i] \in Nat
  PROVE  {i \in T : \A j \in T : gap[i] <= gap[j]} # {}
<1> DEFINE G == {gap[i] : i \in T}
<1>1. G \in SUBSET Nat /\ G # {}
  OBVIOUS
<1>2. PICK g \in G : \A h \in G : g <= h
  BY <1>1, Least
<1>3. PICK i \in T : g = gap[i]
  BY <1>2
<1> QED  BY <1>2, <1>3

\* A bounded move leaves a sound quote, and with no bound the quote itself.
LEMMA BoundedSound ==
  ASSUME NEW p \in Profile, NEW q \in Sound(p), NEW live \in Seq(Resting(p)),
         NEW free \in SUBSET DOMAIN live
  PROVE  /\ Bounded(q, live, free, p).quote \in Sound(p)
         /\ Bounded(q, live, free, p).anchor \in SUBSET Nat
         /\ p.max_reprice = 0 => Bounded(q, live, free, p).quote = q
         /\ Bounded(q, live, free, p).quote.tok = q.tok
         /\ Bounded(q, live, free, p).quote.side = q.side
<1> DEFINE gap(i) == Distance(live[i].price, q.price)
           near == {i \in free : \A j \in free : gap(i) <= gap(j)}
           at == Min(near)
           anchor == live[at]
           ticks == Max({1, p.max_reprice})
           move == ticks * p.tick
           bounded == Clamp(anchor.price + (IF q.price > anchor.price THEN move ELSE -move),
                            p.tick, One - p.tick)
           moved == IF Distance(q.price, anchor.price) > move THEN [q EXCEPT !.price = bounded] ELSE q
<1>1. Bounded(q, live, free, p) =
        IF p.max_reprice = 0 \/ free = {} THEN [quote |-> q, anchor |-> {}]
        ELSE [quote |-> moved, anchor |-> {anchor.id}]
  BY DEF Bounded
<1>2. CASE p.max_reprice = 0 \/ free = {}
  <2>1. Bounded(q, live, free, p) = [quote |-> q, anchor |-> {}]
    BY <1>1, <1>2
  <2> QED  BY <2>1
<1>3. CASE p.max_reprice # 0 /\ free # {}
  <2>0. q.price \in Nat /\ q \in QuoteRec
    BY SoundCost
  <2>1. near \in SUBSET DOMAIN live /\ near # {}
    <3> DEFINE g == [i \in free |-> gap(i)]
    <3>1. \A i \in free : g[i] \in Nat
      <4> SUFFICES ASSUME NEW i \in free PROVE gap(i) \in Nat
        OBVIOUS
      <4>1. live[i] \in Resting(p)
        OBVIOUS
      <4>2. live[i].price \in Nat
        BY <4>1, RestingCost
      <4>3. live[i].price \in Int /\ q.price \in Int
        BY <2>0, <4>2
      <4> QED  BY <4>3, Apart
    <3>2. {i \in free : \A j \in free : g[i] <= g[j]} # {}
      <4> HIDE DEF g
      <4> QED  BY <1>3, <3>1, Nearest
    <3> QED  BY <3>2
  <2> HIDE DEF near, gap
  <2>2. at \in DOMAIN live
    <3>1. DOMAIN live = 1 .. Len(live) /\ Len(live) \in Nat
      OBVIOUS
    <3>2. near \in SUBSET (0 .. Len(live))
      BY <2>1, <3>1
    <3>3. at \in near
      BY <2>1, <3>1, <3>2, Extremes
    <3> QED  BY <2>1, <3>3
  <2> HIDE DEF at
  <2>3. anchor \in Resting(p)
    BY <2>2
  <2> HIDE DEF anchor
  <2>4. anchor.price \in Nat /\ OnGrid(p, anchor.price) /\ anchor.id \in Nat
    BY <2>3, RestingCost DEF OrderRec
  <2>5. ticks \in Int
    <3> DEFINE r == p.max_reprice
    <3>1. r \in Int
      BY DEF Profile
    <3> HIDE DEF r
    <3>2. \A a, b \in Int : Max({a, b}) \in Int
      BY MaxOfTwo
    <3>3. Max({1, r}) \in Int
      BY <3>1, <3>2, 1 \in Int, Zenon
    <3> QED  BY <3>3 DEF r
  <2> HIDE DEF ticks
  <2>6. OnGrid(p, bounded) /\ bounded \in Int
    <3> DEFINE t == p.tick
               x == anchor.price
               y == x + (IF q.price > x THEN move ELSE -move)
    <3>1. t \in Nat \ {0} /\ x \in Int /\ x % t = 0 /\ One \in Nat
      BY <2>4, Ticks DEF OnGrid
    <3>2. PICK k \in Int : x = k * t
      <4> HIDE DEF t, x
      <4> QED  BY <3>1, Multiples
    <3>3. \E l \in Int : y = l * t
      <4> HIDE DEF x
      <4>1. x + ticks * t = (k + ticks) * t /\ x - ticks * t = (k - ticks) * t
        <5> HIDE DEF t
        <5> QED  BY <2>5, <3>1, <3>2
      <4>2. k + ticks \in Int /\ k - ticks \in Int
        BY <2>5
      <4>3. move = ticks * t
        OBVIOUS
      <4>4. x + (-move) = x - ticks * t
        <5> HIDE DEF t
        <5> QED  BY <2>5, <3>1, <4>3
      <4> HIDE DEF move, t
      <4> QED  BY <4>1, <4>2, <4>3, <4>4
    <3>4. PICK l \in Int : y = l * t
      BY <3>3
    <3>5. bounded = Clamp(l * p.tick, p.tick, One - p.tick)
      BY <3>4
    <3>6. OnGrid(p, Clamp(l * p.tick, p.tick, One - p.tick))
      BY Snapped
    <3> HIDE DEF bounded, t, x, y
    <3>7. OnGrid(p, bounded) /\ p.tick \in Nat
      BY <3>5, <3>6, Ticks
    <3> QED  BY <3>1, <3>7 DEF OnGrid
  <2> HIDE DEF bounded, move
  <2>7. [q EXCEPT !.price = bounded] \in Sound(p) /\ q \in Sound(p)
        /\ [q EXCEPT !.price = bounded].tok = q.tok /\ [q EXCEPT !.price = bounded].side = q.side
    BY <2>0, <2>6 DEF Sound, QuoteRec
  <2>8. Bounded(q, live, free, p) = [quote |-> moved, anchor |-> {anchor.id}]
    BY <1>1, <1>3
  <2> HIDE DEF moved
  <2>9. moved \in Sound(p) /\ moved.tok = q.tok /\ moved.side = q.side
    BY <2>7 DEF moved
  <2> QED  BY <1>3, <2>4, <2>8, <2>9
<1> QED  BY <1>2, <1>3

\* The run of the reconciler over the first n targets.
Reconciling(target, live, p, n, done) ==
  done = [k \in 0 .. n |->
            IF k = 0 THEN [anchors |-> {}, keep |-> {}, place |-> <<>>]
            ELSE MatchTarget(done[k - 1], target[k], live, p)]

\* There is such a run for every number of targets.
LEMMA ReconcilingExists ==
  ASSUME NEW target, NEW live, NEW p, NEW n \in Nat
  PROVE  \E done : Reconciling(target, live, p, n, done)
<1> DEFINE N == {k \in Nat : \E done : Reconciling(target, live, p, k, done)}
           start == [anchors |-> {}, keep |-> {}, place |-> <<>>]
<1>1. 0 \in N
  <2> DEFINE e == [k \in {0} |-> start]
  <2>1. 0 .. 0 = {0}
    OBVIOUS
  <2>2. Reconciling(target, live, p, 0, e)
    BY <2>1, Zenon DEF Reconciling
  <2> QED  BY <2>2
<1>2. ASSUME NEW m \in Nat, m \in N PROVE m + 1 \in N
  <2>1. PICK e : Reconciling(target, live, p, m, e)
    BY <1>2
  <2> DEFINE g == [k \in 0 .. m + 1 |->
                     IF k = 0 THEN start ELSE MatchTarget(e[k - 1], target[k], live, p)]
  <2>2. ASSUME NEW k \in 0 .. m PROVE k \in 0 .. m + 1 /\ g[k] = e[k]
    <3>1. k \in 0 .. m + 1
      OBVIOUS
    <3>2. e[k] = IF k = 0 THEN start ELSE MatchTarget(e[k - 1], target[k], live, p)
      BY <2>1, Zenon DEF Reconciling
    <3>3. g[k] = IF k = 0 THEN start ELSE MatchTarget(e[k - 1], target[k], live, p)
      BY <3>1, Zenon
    <3> QED  BY <3>1, <3>2, <3>3, Zenon
  <2>3. \A k \in 0 .. m + 1 : k # 0 => k - 1 \in 0 .. m
    OBVIOUS
  <2>4. \A k \in 0 .. m + 1 : k # 0 => g[k - 1] = e[k - 1]
    <3> HIDE DEF g
    <3> QED  BY <2>2, <2>3
  <2>5. g = [k \in 0 .. m + 1 |->
                     IF k = 0 THEN start ELSE MatchTarget(g[k - 1], target[k], live, p)]
    BY <2>4, Zenon
  <2>6. Reconciling(target, live, p, m + 1, g)
    BY <2>5, Zenon DEF Reconciling
  <2> QED  BY <2>6
<1> HIDE DEF N
<1>3. n \in N
  BY <1>1, <1>2, Induction
<1> QED  BY <1>3 DEF N

\* Reconcile is the last of the steps that match one target after the other.
LEMMA ReconcileIs ==
  ASSUME NEW S, NEW target \in Seq(S), NEW live, NEW p
  PROVE  \E done : /\ Reconcile(target, live, p) = done[Len(target)]
                   /\ done[0] = [anchors |-> {}, keep |-> {}, place |-> <<>>]
                   /\ \A n \in 1 .. Len(target) :
                        done[n] = MatchTarget(done[n - 1], target[n], live, p)
<1>0. Len(target) \in Nat
  OBVIOUS
<1> DEFINE L == Len(target)
           d == CHOOSE d : Reconciling(target, live, p, L, d)
<1>1. Reconciling(target, live, p, L, d)
  <2>1. \E e : Reconciling(target, live, p, L, e)
    BY <1>0, ReconcilingExists
  <2> QED  BY <2>1, Zenon
<1>2. Reconcile(target, live, p) = d[L]
  BY Zenon DEF Reconcile, Reconciling
<1> HIDE DEF d
<1>3. 0 \in 0 .. L /\ \A n \in 1 .. L : n \in 0 .. L /\ n # 0
  BY <1>0
<1>4. d[0] = [anchors |-> {}, keep |-> {}, place |-> <<>>]
  BY <1>1, <1>3, Zenon DEF Reconciling
<1>5. \A n \in 1 .. L : d[n] = MatchTarget(d[n - 1], target[n], live, p)
  BY <1>1, <1>3, Zenon DEF Reconciling
<1> QED  BY <1>2, <1>4, <1>5

\* What a reconciler returns.
Plan(p, live) == [anchors : SUBSET Nat, keep : SUBSET Ids(live), place : Seq(Sound(p))]

\* One target is placed, possibly moved, or one live order close to it is kept.
LEMMA Matched ==
  ASSUME NEW p \in Profile, NEW live \in Seq(Resting(p)), NEW q \in Sound(p),
         NEW done \in Plan(p, live)
  PROVE  \E b \in Sound(p) :
           /\ b.tok = q.tok /\ b.side = q.side /\ (p.max_reprice = 0 => b = q)
           /\ MatchTarget(done, q, live, p) \in Plan(p, live)
           /\ \/ /\ MatchTarget(done, q, live, p).keep = done.keep
                 /\ MatchTarget(done, q, live, p).place = Append(done.place, b)
              \/ /\ MatchTarget(done, q, live, p).place = done.place
                 /\ \E i \in DOMAIN live :
                      /\ live[i].id \notin done.keep /\ Close(live[i], b, p)
                      /\ live[i].tok = q.tok /\ live[i].side = q.side
                      /\ MatchTarget(done, q, live, p).keep = done.keep \union {live[i].id}
<1> DEFINE same == {i \in DOMAIN live : live[i].tok = q.tok /\ live[i].side = q.side}
           free == {i \in same : live[i].id \notin done.anchors}
           bound == Bounded(q, live, free, p)
           b == bound.quote
           near == {i \in same : live[i].id \notin done.keep /\ Close(live[i], b, p)}
           at == Min(near)
           d == [anchors |-> done.anchors \union bound.anchor,
                 keep |-> done.keep \union (IF near = {} THEN {} ELSE {live[at].id}),
                 place |-> IF near = {} THEN Append(done.place, b) ELSE done.place]
<1>1. MatchTarget(done, q, live, p) = d
  BY DEF MatchTarget
<1>2. free \in SUBSET DOMAIN live
  OBVIOUS
<1> HIDE DEF free
<1>3. /\ b \in Sound(p) /\ bound.anchor \in SUBSET Nat
      /\ b.tok = q.tok /\ b.side = q.side /\ (p.max_reprice = 0 => b = q)
  BY <1>2, BoundedSound
<1> HIDE DEF bound
<1>4. /\ done.anchors \in SUBSET Nat /\ done.keep \in SUBSET Ids(live)
      /\ done.place \in Seq(Sound(p))
  BY DEF Plan
<1>5. near # {} =>
        /\ at \in near /\ at \in DOMAIN live
        /\ live[at].id \in Ids(live)
  <2> SUFFICES ASSUME near # {} PROVE at \in near /\ at \in DOMAIN live /\ live[at].id \in Ids(live)
    OBVIOUS
  <2>1. near \in SUBSET (0 .. Len(live)) /\ Len(live) \in Nat /\ near \in SUBSET DOMAIN live
    <3>1. DOMAIN live = 1 .. Len(live) /\ Len(live) \in Nat
      OBVIOUS
    <3>2. near \in SUBSET DOMAIN live
      OBVIOUS
    <3> HIDE DEF near
    <3> QED  BY <3>1, <3>2
  <2> HIDE DEF near
  <2>2. at \in near
    BY <2>1, Extremes
  <2>3. at \in DOMAIN live
    BY <2>1, <2>2
  <2> QED  BY <2>2, <2>3 DEF Ids
<1>6. near # {} => /\ live[at].id \notin done.keep /\ Close(live[at], b, p)
                   /\ live[at].tok = q.tok /\ live[at].side = q.side
  <2> SUFFICES ASSUME near # {}
               PROVE /\ live[at].id \notin done.keep /\ Close(live[at], b, p)
                     /\ live[at].tok = q.tok /\ live[at].side = q.side
    OBVIOUS
  <2>1. at \in near
    BY <1>5
  <2> HIDE DEF at
  <2> QED  BY <2>1
<1> HIDE DEF near, at, b
<1>7. CASE near = {}
  <2>1. d = [anchors |-> done.anchors \union bound.anchor, keep |-> done.keep,
             place |-> Append(done.place, b)]
    BY <1>7
  <2>2. Append(done.place, b) \in Seq(Sound(p))
    BY <1>3, <1>4
  <2> HIDE DEF d
  <2>3. d \in Plan(p, live)
    BY <1>3, <1>4, <2>1, <2>2 DEF Plan
  <2> QED  BY <1>1, <1>3, <2>1, <2>3
<1>8. CASE near # {}
  <2>1. d = [anchors |-> done.anchors \union bound.anchor, keep |-> done.keep \union {live[at].id},
             place |-> done.place]
    BY <1>8
  <2> HIDE DEF d
  <2>2. d \in Plan(p, live)
    <3>1. done.keep \union {live[at].id} \in SUBSET Ids(live)
      BY <1>4, <1>5, <1>8
    <3> QED  BY <1>3, <1>4, <2>1, <3>1 DEF Plan
  <2> QED  BY <1>1, <1>3, <1>5, <1>6, <1>8, <2>1, <2>2
<1> QED  BY <1>7, <1>8

\* Before the first target nothing is kept or placed.
LEMMA PlanStarts ==
  ASSUME NEW p, NEW live
  PROVE  [anchors |-> {}, keep |-> {}, place |-> <<>>] \in Plan(p, live)
<1>1. <<>> \in Seq(Sound(p))
  OBVIOUS
<1> QED  BY <1>1 DEF Plan

\* What is kept are orders of the market, what is placed are sound quotes.
LEMMA Reconciled ==
  ASSUME NEW p \in Profile, NEW live \in Seq(Resting(p)), NEW target \in Seq(Sound(p))
  PROVE  Reconcile(target, live, p) \in Plan(p, live)
<1> DEFINE L == Len(target)
<1>1. PICK done : /\ Reconcile(target, live, p) = done[L]
                  /\ done[0] = [anchors |-> {}, keep |-> {}, place |-> <<>>]
                  /\ \A n \in 1 .. L : done[n] = MatchTarget(done[n - 1], target[n], live, p)
  BY ReconcileIs
<1> DEFINE N == {n \in Nat : n <= L => done[n] \in Plan(p, live)}
<1>2. 0 \in N
  BY <1>1, PlanStarts
<1>3. ASSUME NEW n \in Nat, n \in N PROVE n + 1 \in N
  <2> SUFFICES ASSUME n + 1 <= L PROVE done[n + 1] \in Plan(p, live)
    OBVIOUS
  <2>1. n <= L /\ n + 1 \in 1 .. L /\ (n + 1) - 1 = n
    OBVIOUS
  <2>2. target[n + 1] \in Sound(p)
    BY <2>1
  <2>3. done[n + 1] = MatchTarget(done[n], target[n + 1], live, p)
    BY <1>1, <2>1
  <2>4. done[n] \in Plan(p, live)
    BY <1>3, <2>1
  <2> QED  BY <2>2, <2>3, <2>4, Matched
<1> HIDE DEF N
<1>4. Nat \subseteq N
  BY <1>2, <1>3, Induction
<1>5. L \in Nat
  OBVIOUS
<1>6. done[L] \in Plan(p, live)
  BY <1>4, <1>5 DEF N
<1> QED  BY <1>1, <1>6

\* A resting order that is close to a quote with its edge.
Near(p, fv, o) == o.side = "BUY" => o.price <= Dearest(p, fv, o.tok) + p.reprice * p.tick

\* The dearest bid is a number.
LEMMA DearestTyped ==
  ASSUME NEW p \in Profile, NEW fv \in Int, NEW tok
  PROVE  Dearest(p, fv, tok) \in Int
<1>1. FairOf(fv, tok) \in Int /\ p.min_edge \in Int /\ p.tick \in Int
  BY Ticks DEF FairOf, Profile
<1>2. FairOf(fv, tok) - p.min_edge * p.tick \in Int
  BY <1>1
<1>3. \A a, b \in Int : Max({a, b}) \in Int
  BY MaxOfTwo
<1> QED  BY <1>1, <1>2, <1>3, Zenon DEF Dearest

\* Without a bounded reprice the placed quotes keep their edge, the kept orders all but
\* the tolerance.
LEMMA ReconciledEdged ==
  ASSUME NEW p \in Profile, p.max_reprice = 0, NEW fv \in Int,
         NEW live \in Seq(Resting(p)), Distinct(live), NEW target \in Seq(Edged(p, fv))
  PROVE  /\ Reconcile(target, live, p).place \in Seq(Edged(p, fv))
         /\ \A i \in DOMAIN live :
              live[i].id \in Reconcile(target, live, p).keep => Near(p, fv, live[i])
<1> DEFINE L == Len(target)
           E == Edged(p, fv)
<1>1. PICK done : /\ Reconcile(target, live, p) = done[L]
                  /\ done[0] = [anchors |-> {}, keep |-> {}, place |-> <<>>]
                  /\ \A n \in 1 .. L : done[n] = MatchTarget(done[n - 1], target[n], live, p)
  BY ReconcileIs
<1> DEFINE Good(d) == /\ d \in Plan(p, live) /\ d.place \in Seq(E)
                      /\ \A i \in DOMAIN live : live[i].id \in d.keep => Near(p, fv, live[i])
           N == {n \in Nat : n <= L => Good(done[n])}
<1>2. 0 \in N
  <2> DEFINE d == done[0]
  <2>1. d = [anchors |-> {}, keep |-> {}, place |-> <<>>] /\ d \in Plan(p, live)
    BY <1>1, PlanStarts
  <2>2. <<>> \in Seq(E)
    OBVIOUS
  <2> HIDE DEF d, E
  <2>3. Good(d)
    BY <2>1, <2>2
  <2> QED  BY <2>3 DEF d
<1>3. ASSUME NEW n \in Nat, n \in N PROVE n + 1 \in N
  <2> SUFFICES ASSUME n + 1 <= L PROVE Good(done[n + 1])
    OBVIOUS
  <2>1. n <= L /\ n + 1 \in 1 .. L /\ (n + 1) - 1 = n
    OBVIOUS
  <2> DEFINE q == target[n + 1]
             d == done[n]
             e == done[n + 1]
  <2>2. q \in E
    BY <2>1
  <2>a. q \in Sound(p) /\ (q.side = "BUY" => q.price <= Dearest(p, fv, q.tok))
    BY <2>2 DEF Edged
  <2>3. e = MatchTarget(d, q, live, p)
    BY <1>1, <2>1
  <2>4. Good(d)
    BY <1>3, <2>1
  <2> HIDE DEF q, d, e, E
  <2>5. /\ e \in Plan(p, live)
        /\ \/ e.keep = d.keep /\ e.place = Append(d.place, q)
           \/ /\ e.place = d.place
              /\ \E i \in DOMAIN live :
                   /\ Close(live[i], q, p) /\ live[i].tok = q.tok /\ live[i].side = q.side
                   /\ e.keep = d.keep \union {live[i].id}
    <3>0. d \in Plan(p, live)
      BY <2>4
    <3>1. PICK b \in Sound(p) :
           /\ b = q
           /\ MatchTarget(d, q, live, p) \in Plan(p, live)
           /\ \/ /\ MatchTarget(d, q, live, p).keep = d.keep
                 /\ MatchTarget(d, q, live, p).place = Append(d.place, b)
              \/ /\ MatchTarget(d, q, live, p).place = d.place
                 /\ \E i \in DOMAIN live :
                      /\ Close(live[i], b, p)
                      /\ live[i].tok = q.tok /\ live[i].side = q.side
                      /\ MatchTarget(d, q, live, p).keep = d.keep \union {live[i].id}
      <4> HIDE DEF Good
      <4> QED  BY <2>a, <3>0, Matched
    <3> HIDE DEF Good
    <3> QED  BY <2>3, <3>1
  <2>6. CASE e.keep = d.keep /\ e.place = Append(d.place, q)
    <3>1. Append(d.place, q) \in Seq(E)
      BY <2>2, <2>4 DEF q
    <3> QED  BY <2>4, <2>5, <2>6, <3>1 DEF e
  <2>7. ASSUME e.place = d.place,
               NEW i \in DOMAIN live, Close(live[i], q, p), live[i].tok = q.tok, live[i].side = q.side,
               e.keep = d.keep \union {live[i].id}
        PROVE  Good(e)
    <3>1. Near(p, fv, live[i])
      <4>1. q.price \in Int /\ live[i].price \in Int
        <5>1. live[i] \in Resting(p)
          OBVIOUS
        <5> QED  BY <5>1, <2>a, SoundCost, RestingCost
      <4>2. live[i].price - q.price <= Distance(live[i].price, q.price)
            /\ Distance(live[i].price, q.price) \in Int
        <5> DEFINE a == live[i].price
                   b == q.price
        <5>1. a \in Int /\ b \in Int
          BY <4>1
        <5> HIDE DEF a, b
        <5>2. a - b <= Distance(a, b) /\ Distance(a, b) \in Nat
          BY <5>1, Apart, Zenon
        <5>3. Distance(a, b) \in Int
          BY <5>2
        <5> QED  BY <5>2, <5>3 DEF a, b
      <4>3. Distance(live[i].price, q.price) <= p.reprice * p.tick
        BY <2>7 DEF Close
      <4>4. p.reprice * p.tick \in Int
        <5>1. p.reprice \in Int /\ p.tick \in Int
          BY Ticks DEF Profile
        <5> QED  BY <5>1
      <4>5. Dearest(p, fv, q.tok) \in Int
        BY DearestTyped
      <4>6. q.side = "BUY" => live[i].price <= Dearest(p, fv, q.tok) + p.reprice * p.tick
        <5> DEFINE a == live[i].price
                   b == q.price
                   x == Distance(live[i].price, q.price)
                   y == p.reprice * p.tick
                   z == Dearest(p, fv, q.tok)
        <5>1. a \in Int /\ b \in Int /\ x \in Int /\ y \in Int /\ z \in Int
              /\ a - b <= x /\ x <= y /\ (q.side = "BUY" => b <= z)
          BY <2>a, <4>1, <4>2, <4>3, <4>4, <4>5
        <5> HIDE DEF a, b, x, y, z
        <5>2. q.side = "BUY" => a <= z + y
          BY <5>1
        <5> QED  BY <5>2 DEF a, y, z
      <4> QED  BY <2>7, <4>6 DEF Near
    <3>2. \A j \in DOMAIN live : live[j].id = live[i].id => j = i
      BY DEF Distinct
    <3>3. \A j \in DOMAIN live : live[j].id \in e.keep => Near(p, fv, live[j])
      BY <2>4, <2>7, <3>1, <3>2
    <3> QED  BY <2>4, <2>5, <2>7, <3>3
  <2> QED  BY <2>5, <2>6, <2>7 DEF e
<1> HIDE DEF N, Good
<1>4. Nat \subseteq N
  BY <1>2, <1>3, Induction
<1>5. L \in Nat
  OBVIOUS
<1>6. Good(done[L])
  BY <1>4, <1>5 DEF N
<1> QED  BY <1>1, <1>6 DEF Good

\* The places of the kept orders, and what those cost.
KeptAt(seq, keep) == {i \in DOMAIN seq : seq[i].id \in keep}
Spent(seq, keep) == SumFunctionOnSet(Costs(seq), KeptAt(seq, keep))

\* What the kept ones among the picked cost.
LEMMA SpentPicked ==
  ASSUME NEW S, NEW seq \in Seq(S), NEW indices \in SUBSET DOMAIN seq, NEW keep,
         \A i \in DOMAIN seq : Cost(seq[i]) \in Int
  PROVE  Spent(Pick(seq, indices), keep)
           = SumFunctionOnSet(Costs(seq), {i \in indices : seq[i].id \in keep})
<1> DEFINE t == Pick(seq, indices)
           f == Costs(t)
           g == Costs(seq)
           D == KeptAt(t, keep)
           K == {i \in indices : seq[i].id \in keep}
<1>1. PICK at : Picked(seq, indices, Len(seq), t, at)
  BY PickIs
<1> HIDE DEF t
<1>2. DOMAIN t = 1 .. Len(t) /\ Len(t) \in Nat /\ DOMAIN seq = 1 .. Len(seq)
  BY <1>1 DEF Picked
<1>3. \A j \in DOMAIN t : at[j] \in indices /\ at[j] \in DOMAIN seq /\ t[j] = seq[at[j]]
  BY <1>1, <1>2 DEF Picked
<1>4. \A j \in DOMAIN t : f[j] \in Int /\ g[at[j]] = f[j]
  BY <1>2, <1>3 DEF Costs
<1>5. \A i, j \in DOMAIN t : at[i] = at[j] => i = j
  <2> SUFFICES ASSUME NEW i \in DOMAIN t, NEW j \in DOMAIN t, i # j PROVE at[i] # at[j]
    OBVIOUS
  <2>1. at[i] \in Nat /\ at[j] \in Nat
    BY <1>2, <1>3
  <2>2. i < j \/ j < i
    BY <1>2
  <2>3. i < j => at[i] < at[j]
    BY <1>1, <1>2 DEF Picked
  <2>4. j < i => at[j] < at[i]
    BY <1>1, <1>2 DEF Picked
  <2> QED  BY <2>1, <2>2, <2>3, <2>4
<1>6. D \in SUBSET DOMAIN t /\ IsFiniteSet(D)
  <2>1. IsFiniteSet(DOMAIN t)
    BY <1>2, FS_Interval
  <2>2. D \in SUBSET DOMAIN t
    BY DEF KeptAt
  <2> QED  BY <2>1, <2>2, FS_Subset
<1>7. {at[j] : j \in D} = K
  <2>1. \A k \in indices : \E j \in DOMAIN t : at[j] = k
    BY <1>1, <1>2 DEF Picked
  <2> QED  BY <1>3, <2>1 DEF KeptAt
<1>8. SumFunctionOnSet(f, D) = SumFunctionOnSet(g, {at[j] : j \in D})
  <2>1. /\ \A j \in D : f[j] \in Int /\ g[at[j]] = f[j]
        /\ \A i, j \in D : at[i] = at[j] => i = j
    BY <1>4, <1>5, <1>6
  <2> HIDE DEF f, g, D
  <2> QED  BY <1>6, <2>1, SumRenamed
<1> QED  BY <1>7, <1>8 DEF t, Spent

\* One more quote adds its cost.
LEMMA NotionalAppended ==
  ASSUME NEW S, NEW seq \in Seq(S), NEW q \in S, \A s \in S : Cost(s) \in Nat
  PROVE  Notional(Append(seq, q)) = Notional(seq) + Cost(q)
<1> DEFINE t == Append(seq, q)
           n == Len(seq)
           f == Costs(seq)
           g == Costs(t)
           D == 1 .. n
<1>1. /\ t \in Seq(S) /\ DOMAIN seq = D /\ DOMAIN t = 1 .. n + 1 /\ n \in Nat
      /\ t[n + 1] = q /\ \A i \in D : t[i] = seq[i] /\ seq[i] \in S
  OBVIOUS
<1>2. \A i \in DOMAIN t : t[i] \in S
  BY <1>1
<1> HIDE DEF t, n
<1>3. /\ \A i \in D : f[i] \in Int /\ g[i] = f[i]
      /\ g[n + 1] = Cost(q) /\ DOMAIN g = 1 .. n + 1
      /\ \A i \in 1 .. n + 1 : g[i] \in Int
  <2>1. \A i \in D : f[i] = Cost(seq[i]) /\ i \in 1 .. n + 1
    BY <1>1 DEF Costs
  <2>2. \A i \in 1 .. n + 1 : g[i] = Cost(t[i])
    BY <1>1 DEF Costs
  <2>3. n + 1 \in 1 .. n + 1 /\ DOMAIN g = 1 .. n + 1
    BY <1>1 DEF Costs
  <2> HIDE DEF f, g
  <2> QED  BY <1>1, <1>2, <2>1, <2>2, <2>3
<1>4. Notional(seq) = SumFunctionOnSet(f, D) /\ Notional(t) = SumFunctionOnSet(g, 1 .. n + 1)
  <2>1. \A i \in DOMAIN seq : Cost(seq[i]) \in Nat
    BY <1>1
  <2>2. \A i \in DOMAIN t : Cost(t[i]) \in Nat
    BY <1>2
  <2> QED  BY <1>1, <2>1, <2>2, NotionalIs
<1> HIDE DEF f, g
<1>5. IsFiniteSet(D) /\ IsFiniteSet(1 .. n + 1)
  BY <1>1, FS_Interval
<1>6. SumFunctionOnSet(f, D) = SumFunctionOnSet(g, D)
  <2> HIDE DEF D
  <2> QED  BY <1>3, <1>5, SumSame
<1>7. D \in SUBSET (1 .. n + 1) /\ n + 1 \in (1 .. n + 1) \ D /\ D \union {n + 1} = 1 .. n + 1
  BY <1>1
<1>8. SumFunctionOnSet(g, D \union {n + 1}) = g[n + 1] + SumFunctionOnSet(g, D)
  <2> DEFINE W == 1 .. n + 1
             x == n + 1
  <2>0. IsFiniteSet(W) /\ (\A i \in W : g[i] \in Int) /\ D \in SUBSET W /\ x \in W \ D
    BY <1>3, <1>5, <1>7
  <2> HIDE DEF W, x, D
  <2>1. SumFunctionOnSet(g, D \union {x}) = g[x] + SumFunctionOnSet(g, D)
    BY <2>0, SumMore
  <2> QED  BY <2>1 DEF x
<1>9. SumFunctionOnSet(g, D) \in Int /\ Cost(q) \in Int
  <2>1. SumFunctionOnSet(g, D) \in Int
    <3> DEFINE W == 1 .. n + 1
    <3>0. IsFiniteSet(W) /\ (\A i \in W : g[i] \in Int) /\ D \in SUBSET W
      BY <1>3, <1>5, <1>7
    <3> HIDE DEF W, D
    <3> QED  BY <3>0, SumTyped
  <2>2. Cost(q) \in Nat
    OBVIOUS
  <2> QED  BY <2>1, <2>2
<1> DEFINE a == SumFunctionOnSet(g, D)
<1>10. Notional(t) = Cost(q) + a /\ Notional(seq) = a /\ a \in Int
  BY <1>3, <1>4, <1>6, <1>7, <1>8, <1>9
<1> HIDE DEF a, D
<1> QED  BY <1>9, <1>10 DEF t

\* Without tolerances what is kept and what is placed cost exactly the target.
LEMMA ReconciledExact ==
  ASSUME NEW p \in Profile, p.max_reprice = 0, p.reprice = 0, p.resize = 0, p.min_order > 0,
         NEW live \in Seq(Resting(p)), Distinct(live), NEW target \in Seq(Sound(p))
  PROVE  Notional(Reconcile(target, live, p).place) + Spent(live, Reconcile(target, live, p).keep)
           = Notional(target)
<1> DEFINE L == Len(target)
           f == Costs(target)
           g == Costs(live)
<1>0. /\ L \in Nat /\ DOMAIN target = 1 .. L
      /\ \A i \in 1 .. L : target[i] \in Sound(p)
      /\ \A i \in DOMAIN live : live[i] \in Resting(p)
  OBVIOUS
<1>1. PICK done : /\ Reconcile(target, live, p) = done[L]
                  /\ done[0] = [anchors |-> {}, keep |-> {}, place |-> <<>>]
                  /\ \A n \in 1 .. L : done[n] = MatchTarget(done[n - 1], target[n], live, p)
  BY ReconcileIs
<1>2. /\ \A i \in 1 .. L : f[i] = Cost(target[i]) /\ f[i] \in Int
      /\ \A i \in DOMAIN live : g[i] = Cost(live[i]) /\ g[i] \in Int
      /\ IsFiniteSet(1 .. L) /\ IsFiniteSet(DOMAIN live)
      /\ Notional(target) = SumFunctionOnSet(f, 1 .. L)
  <2>1. \A i \in 1 .. L : Cost(target[i]) \in Nat
    BY <1>0, SoundCost
  <2>2. \A i \in DOMAIN live : Cost(live[i]) \in Nat
    BY <1>0, RestingCost
  <2>3. Notional(target) = SumFunctionOnSet(f, 1 .. L)
    BY <1>0, <2>1, NotionalIs
  <2>4. IsFiniteSet(DOMAIN live)
    BY <2>2, NotionalIs
  <2>5. \A i \in 1 .. L : f[i] = Cost(target[i])
    BY <1>0 DEF Costs
  <2>6. \A i \in DOMAIN live : g[i] = Cost(live[i])
    BY DEF Costs
  <2> HIDE DEF f, g
  <2>7. \A i \in 1 .. L : f[i] \in Int
    BY <2>1, <2>5
  <2>8. \A i \in DOMAIN live : g[i] \in Int
    BY <2>2, <2>6
  <2>9. IsFiniteSet(1 .. L)
    BY <1>0, FS_Interval
  <2> QED  BY <2>3, <2>4, <2>5, <2>6, <2>7, <2>8, <2>9, Zenon
<1> DEFINE Good(d, n) ==
             /\ d \in Plan(p, live)
             /\ Notional(d.place) + Spent(live, d.keep) = SumFunctionOnSet(f, 1 .. n)
           N == {n \in Nat : n <= L => Good(done[n], n)}
<1>3. 0 \in N
  <2> DEFINE d == done[0]
  <2>1. d = [anchors |-> {}, keep |-> {}, place |-> <<>>] /\ d \in Plan(p, live)
    BY <1>1, PlanStarts
  <2>2. Notional(<<>>) = 0
    <3>1. Costs(<<>>) = <<>> /\ DOMAIN <<>> = {}
      BY DEF Costs
    <3>2. SumFunctionOnSet(Costs(<<>>), {}) = 0
      BY SumAny
    <3>3. DOMAIN Costs(<<>>) = {}
      BY <3>1
    <3> QED  BY <3>2, <3>3 DEF Notional, SumFunction, Costs
  <2>3. KeptAt(live, {}) = {}
    BY DEF KeptAt
  <2>4. SumFunctionOnSet(g, {}) = 0 /\ SumFunctionOnSet(f, {}) = 0
    BY SumAny
  <2>5. 1 .. 0 = {}
    OBVIOUS
  <2> HIDE DEF d, f
  <2>6. Notional(d.place) = 0 /\ Spent(live, d.keep) = 0 /\ SumFunctionOnSet(f, 1 .. 0) = 0
    <3>1. Notional(d.place) = 0
      BY <2>1, <2>2
    <3>2. Spent(live, d.keep) = 0
      BY <2>1, <2>3, <2>4 DEF Spent
    <3> QED  BY <2>4, <2>5, <3>1, <3>2, Zenon
  <2>7. Good(d, 0)
    BY <2>1, <2>6
  <2> QED  BY <2>7 DEF d
<1>4. ASSUME NEW n \in Nat, n \in N PROVE n + 1 \in N
  <2> SUFFICES ASSUME n + 1 <= L PROVE Good(done[n + 1], n + 1)
    OBVIOUS
  <2>1. n <= L /\ n + 1 \in 1 .. L /\ (n + 1) - 1 = n
    OBVIOUS
  <2> DEFINE q == target[n + 1]
             d == done[n]
             e == done[n + 1]
             before == SumFunctionOnSet(f, 1 .. n)
             after == SumFunctionOnSet(f, 1 .. n + 1)
  <2>2. q \in Sound(p)
    BY <1>0, <2>1
  <2>3. e = MatchTarget(d, q, live, p)
    BY <1>1, <2>1
  <2>4. Good(d, n)
    BY <1>4, <2>1
  <2>5. after = Cost(q) + before /\ before \in Int
    <3> DEFINE W == 1 .. L
               D == 1 .. n
               x == n + 1
    <3>1. D \in SUBSET W /\ x \in W \ D /\ D \union {x} = 1 .. n + 1
      BY <1>0, <2>1
    <3>2. IsFiniteSet(W) /\ (\A i \in W : f[i] \in Int) /\ f[x] = Cost(q)
      BY <1>2, <2>1
    <3> HIDE DEF W, x, f
    <3>3. SumFunctionOnSet(f, D \union {x}) = f[x] + SumFunctionOnSet(f, D)
          /\ SumFunctionOnSet(f, D) \in Int
      <4> HIDE DEF D
      <4> QED  BY <3>1, <3>2, SumMore
    <3> QED  BY <3>1, <3>2, <3>3
  <2> HIDE DEF q, d, e, f
  <2>6. PICK b \in Sound(p) :
           /\ b = q /\ e \in Plan(p, live)
           /\ \/ e.keep = d.keep /\ e.place = Append(d.place, b)
              \/ /\ e.place = d.place
                 /\ \E i \in DOMAIN live :
                      /\ live[i].id \notin d.keep /\ Close(live[i], b, p)
                      /\ live[i].tok = q.tok /\ live[i].side = q.side
                      /\ e.keep = d.keep \union {live[i].id}
    <3>1. d \in Plan(p, live)
      BY <2>4
    <3> HIDE DEF Good
    <3> QED  BY <2>2, <2>3, <3>1, Matched
  <2>7. d.place \in Seq(Sound(p)) /\ \A s \in Sound(p) : Cost(s) \in Nat
    BY <2>4, SoundCost DEF Plan
  <2>8. Notional(d.place) \in Nat /\ Spent(live, d.keep) \in Int /\ Cost(q) \in Nat
    <3>1. Notional(d.place) \in Nat
      <4>1. \A i \in DOMAIN d.place : Cost(d.place[i]) \in Nat
        BY <2>7
      <4> QED  BY <2>7, <4>1, NotionalIs
    <3>2. KeptAt(live, d.keep) \in SUBSET DOMAIN live
      BY DEF KeptAt
    <3>3. \A i \in DOMAIN live : g[i] \in Int
      BY <1>2
    <3> HIDE DEF g
    <3>4. SumFunctionOnSet(g, KeptAt(live, d.keep)) \in Int
      BY <1>2, <3>2, <3>3, SumTyped
    <3> QED  BY <2>2, <2>7, <3>1, <3>4 DEF Spent, g
  <2>9. CASE e.keep = d.keep /\ e.place = Append(d.place, b)
    <3>1. Notional(e.place) = Notional(d.place) + Cost(q)
      BY <2>6, <2>7, <2>9, NotionalAppended
    <3> DEFINE x == Notional(d.place)
               y == Spent(live, d.keep)
               c == Cost(q)
    <3>2. x + y = before /\ x \in Int /\ y \in Int /\ c \in Int /\ Notional(e.place) = x + c
          /\ Spent(live, e.keep) = y
      BY <2>4, <2>8, <2>9, <3>1
    <3> HIDE DEF x, y, c, before, after
    <3>3. Notional(e.place) + Spent(live, e.keep) = c + before
      BY <3>2
    <3> QED  BY <2>5, <2>6, <3>3 DEF e, c, after
  <2>10. ASSUME e.place = d.place, NEW i \in DOMAIN live, live[i].id \notin d.keep,
                Close(live[i], b, p), live[i].tok = q.tok, live[i].side = q.side,
                e.keep = d.keep \union {live[i].id}
         PROVE  Good(e, n + 1)
    <3>1. live[i] \in Resting(p)
      BY <1>0
    <3>2. live[i].price = q.price
      <4> DEFINE a == live[i].price
                 c == q.price
      <4>1. a \in Int /\ c \in Int
        BY <2>2, <3>1, SoundCost, RestingCost
      <4>2. p.reprice * p.tick = 0
        <5>1. p.tick \in Nat
          BY Ticks
        <5> QED  BY <5>1
      <4>3. Distance(a, c) <= 0
        BY <2>6, <2>10, <4>2 DEF Close
      <4> HIDE DEF a, c
      <4>4. Distance(a, c) \in Nat /\ a - c <= Distance(a, c) /\ c - a <= Distance(a, c)
        BY <4>1, Apart, Zenon
      <4>5. a = c
        BY <4>1, <4>3, <4>4
      <4> QED  BY <4>5 DEF a, c
    <3>3. live[i].size = q.size
      <4> DEFINE a == live[i].size
                 c == q.size
      <4>1. a \in Int /\ c \in Int
        BY <2>2, <3>1, SoundCost, RestingCost
      <4>2. c >= p.min_order /\ p.min_order \in Nat
        BY <2>2 DEF Sound, Profile
      <4>3. c <= 0 \/ 100 * Distance(a, c) <= 0 * c
        BY <2>6, <2>10 DEF Close
      <4> HIDE DEF a, c
      <4>4. Distance(a, c) \in Nat /\ a - c <= Distance(a, c) /\ c - a <= Distance(a, c)
        BY <4>1, Apart, Zenon
      <4>5. c > 0
        BY <4>1, <4>2
      <4>6. 0 * c = 0
        BY <4>1
      <4>7. a = c
        BY <4>1, <4>3, <4>4, <4>5, <4>6
      <4> QED  BY <4>7 DEF a, c
    <3>4. g[i] = Cost(q)
      BY <1>2, <2>10, <3>2, <3>3 DEF Cost
    <3>5. KeptAt(live, e.keep) = KeptAt(live, d.keep) \union {i} /\ i \notin KeptAt(live, d.keep)
          /\ KeptAt(live, d.keep) \in SUBSET DOMAIN live
      <4>1. \A j \in DOMAIN live : live[j].id = live[i].id => j = i
        BY DEF Distinct
      <4> QED  BY <2>10, <4>1 DEF KeptAt
    <3>6. Spent(live, e.keep) = Cost(q) + Spent(live, d.keep)
      <4> DEFINE K == KeptAt(live, d.keep)
                 W == DOMAIN live
      <4>1. IsFiniteSet(W) /\ (\A j \in W : g[j] \in Int) /\ K \in SUBSET W /\ i \in W \ K
        BY <1>2, <2>10, <3>5
      <4>2. SumFunctionOnSet(g, K \union {i}) = g[i] + SumFunctionOnSet(g, K)
        <5> HIDE DEF K, W, g
        <5> QED  BY <4>1, SumMore
      <4> QED  BY <3>4, <3>5, <4>2 DEF Spent
    <3> DEFINE x == Notional(d.place)
               y == Spent(live, d.keep)
               c == Cost(q)
    <3>7. x + y = before /\ x \in Int /\ y \in Int /\ c \in Int /\ Notional(e.place) = x
          /\ Spent(live, e.keep) = c + y
      BY <2>4, <2>8, <2>10, <3>6
    <3> HIDE DEF x, y, c, before, after
    <3>8. Notional(e.place) + Spent(live, e.keep) = c + before
      BY <3>7
    <3> QED  BY <2>5, <2>6, <3>8 DEF c, after
  <2> QED  BY <2>6, <2>9, <2>10 DEF e
<1> HIDE DEF N, Good
<1>5. Nat \subseteq N
  BY <1>3, <1>4, Induction
<1>6. Good(done[L], L)
  BY <1>0, <1>5 DEF N
<1> QED  BY <1>1, <1>2, <1>6 DEF Good

-------------------------------------------------------------------------------
(* Ids *)

\* The values of a function on a finite set are finitely many.
LEMMA FiniteImage ==
  ASSUME NEW S, IsFiniteSet(S), NEW f
  PROVE  IsFiniteSet({f[x] : x \in S})
<1> DEFINE Image(U) == {f[x] : x \in U}
           F == {U \in SUBSET S : IsFiniteSet(Image(U))}
<1>1. {} \in F
  <2>1. Image({}) = {}
    OBVIOUS
  <2> QED  BY <2>1, FS_EmptySet
<1>2. ASSUME NEW U \in SUBSET S, NEW x \in S \ U, U \in F PROVE U \union {x} \in F
  <2>1. Image(U \union {x}) = Image(U) \union {f[x]}
    OBVIOUS
  <2>2. IsFiniteSet(Image(U))
    BY <1>2
  <2> HIDE DEF Image
  <2>3. IsFiniteSet(Image(U) \union {f[x]})
    BY <2>2, FS_AddElement
  <2> QED  BY <2>1, <2>3
<1> HIDE DEF F
<1>3. S \in F
  BY <1>1, <1>2, SetInduction
<1> QED  BY <1>3 DEF F

\* So are the members of finitely many finite sets.
LEMMA FiniteUnion ==
  ASSUME NEW S, IsFiniteSet(S), NEW f, \A x \in S : IsFiniteSet(f[x])
  PROVE  IsFiniteSet(UNION {f[x] : x \in S})
<1> DEFINE All(U) == UNION {f[x] : x \in U}
           F == {U \in SUBSET S : IsFiniteSet(All(U))}
<1>1. {} \in F
  <2>1. All({}) = {}
    OBVIOUS
  <2> QED  BY <2>1, FS_EmptySet
<1>2. ASSUME NEW U \in SUBSET S, NEW x \in S \ U, U \in F PROVE U \union {x} \in F
  <2>1. All(U \union {x}) = All(U) \union f[x]
    OBVIOUS
  <2>2. IsFiniteSet(All(U)) /\ IsFiniteSet(f[x])
    BY <1>2
  <2> HIDE DEF All
  <2>3. IsFiniteSet(All(U) \union f[x])
    BY <2>2, FS_Union
  <2> QED  BY <2>1, <2>3
<1> HIDE DEF F
<1>3. S \in F
  BY <1>1, <1>2, SetInduction
<1> QED  BY <1>3 DEF F

\* Only finitely many ids are in use.
LEMMA UsedFinite ==
  ASSUME OrdersTyped, TradesTyped
  PROVE  IsFiniteSet(UsedIds) /\ UsedIds \subseteq Nat \ {0}
<1> DEFINE ids == [n \in Markets |-> Ids(orders[n])]
<1>1. ASSUME NEW n \in Markets PROVE IsFiniteSet(Ids(orders[n])) /\ Ids(orders[n]) \subseteq Nat \ {0}
  <2> DEFINE seq == orders[n]
             f == [i \in DOMAIN seq |-> seq[i].id]
  <2>1. seq \in Seq(Resting(P[n]))
    BY DEF OrdersTyped
  <2> HIDE DEF seq
  <2>2. DOMAIN seq = 1 .. Len(seq) /\ Len(seq) \in Nat
    BY <2>1
  <2>3. IsFiniteSet(DOMAIN seq)
    BY <2>2, FS_Interval
  <2>4. IsFiniteSet({f[i] : i \in DOMAIN seq})
    BY <2>3, FiniteImage
  <2>5. {f[i] : i \in DOMAIN seq} = Ids(seq)
    BY DEF Ids
  <2>6. \A i \in DOMAIN seq : seq[i].id \in Nat \ {0}
    <3>1. \A i \in DOMAIN seq : seq[i] \in Resting(P[n])
      BY <2>1
    <3> QED  BY <3>1 DEF Resting, OrderRec
  <2> QED  BY <2>4, <2>5, <2>6 DEF Ids, seq
<1>2. IsFiniteSet(UNION {ids[n] : n \in Markets})
  <2>1. \A n \in Markets : IsFiniteSet(ids[n])
    BY <1>1
  <2> HIDE DEF ids
  <2> QED  BY <2>1, Settings, FiniteUnion, CycleAssumption
<1>3. UNION {ids[n] : n \in Markets} = UNION {Ids(orders[n]) : n \in Markets}
  OBVIOUS
<1>4. IsFiniteSet({t.id : t \in trades}) /\ {t.id : t \in trades} \subseteq Nat \ {0}
  <2> DEFINE f == [t \in trades |-> t.id]
  <2>1. IsFiniteSet({f[t] : t \in trades})
    BY FiniteImage DEF TradesTyped
  <2>2. {f[t] : t \in trades} = {t.id : t \in trades}
    OBVIOUS
  <2> QED  BY <2>1, <2>2 DEF TradesTyped, TradeRec
<1>5. IsFiniteSet((UNION {Ids(orders[n]) : n \in Markets}) \union {t.id : t \in trades})
  BY <1>2, <1>3, <1>4, FS_Union
<1> QED  BY <1>1, <1>4, <1>5 DEF UsedIds

\* There are k free ids among the first numbers, and the k-th of them is one.
LEMMA Counted ==
  ASSUME NEW U, IsFiniteSet(U), U \subseteq Nat \ {0}, NEW k \in Nat \ {0}
  PROVE  \E id \in 1 .. Cardinality(U) + k : id \notin U /\ Cardinality((1 .. id) \ U) = k
<1> DEFINE c(n) == Cardinality((1 .. n) \ U)
           u == Cardinality(U)
           T == {n \in Nat : c(n) >= k}
<1>1. u \in Nat
  BY FS_CardinalityType
<1>2. ASSUME NEW n \in Nat
      PROVE  /\ IsFiniteSet((1 .. n) \ U) /\ c(n) \in Nat
             /\ n + 1 \in U => c(n + 1) = c(n)
             /\ n + 1 \notin U => c(n + 1) = c(n) + 1
  <2>1. IsFiniteSet(1 .. n)
    BY FS_Interval
  <2> DEFINE A == (1 .. n) \ U
             B == (1 .. n + 1) \ U
  <2>2. IsFiniteSet(A)
    BY <2>1, FS_Subset
  <2>3. n + 1 \in U => B = A
    OBVIOUS
  <2>4. n + 1 \notin U => B = A \union {n + 1} /\ n + 1 \notin A
    OBVIOUS
  <2> HIDE DEF A, B
  <2>5. Cardinality(A) \in Nat
    BY <2>2, FS_CardinalityType
  <2>6. n + 1 \notin U => Cardinality(B) = Cardinality(A) + 1
    BY <2>2, <2>4, FS_AddElement
  <2> QED  BY <2>2, <2>3, <2>5, <2>6 DEF A, B
<1>3. u + k \in T
  <2>1. IsFiniteSet(1 .. u + k) /\ Cardinality(1 .. u + k) = u + k
    <3>1. 1 \in Int /\ u + k \in Int /\ ~(1 > u + k)
      BY <1>1
    <3> HIDE DEF u
    <3>2. Cardinality(1 .. u + k) = (u + k) - 1 + 1
      BY <3>1, FS_Interval, Zenon
    <3> QED  BY <1>1, <3>1, <3>2, FS_Interval
  <2> DEFINE W == 1 .. u + k
             C == W \intersect U
  <2>2. IsFiniteSet(W) /\ Cardinality(W) = u + k
    BY <2>1
  <2>3. W \ U = W \ C
    OBVIOUS
  <2> HIDE DEF W
  <2>4. IsFiniteSet(C) /\ Cardinality(C) <= u /\ Cardinality(C) \in Nat
    <3>1. C \subseteq U
      OBVIOUS
    <3> HIDE DEF C
    <3> QED  BY <3>1, FS_Subset, FS_CardinalityType
  <2>5. Cardinality(W \ U) = Cardinality(W) - Cardinality(W \intersect U)
    BY <2>2, FS_Difference
  <2>6. Cardinality(W \ U) >= k
    <3> DEFINE x == Cardinality(C)
    <3>1. Cardinality(W \ U) = (u + k) - x /\ x <= u /\ x \in Nat
      BY <2>2, <2>4, <2>5
    <3> HIDE DEF x, u
    <3> QED  BY <1>1, <3>1
  <2> QED  BY <1>1, <2>6 DEF W
<1> HIDE DEF c
<1>4. PICK n \in T : \A m \in T : n <= m
  <2>1. T \in SUBSET Nat /\ T # {}
    BY <1>3
  <2> HIDE DEF T
  <2> QED  BY <2>1, Least
<1>5. c(0) = 0
  <2>1. (1 .. 0) \ U = {}
    OBVIOUS
  <2> QED  BY <2>1, FS_EmptySet DEF c
<1>6. n \in Nat /\ n # 0 /\ c(n) >= k /\ n <= u + k
  BY <1>3, <1>4, <1>5
<1>7. n - 1 \in Nat /\ (n - 1) + 1 = n
  BY <1>6
<1>8. c(n - 1) < k /\ c(n - 1) \in Nat
  <2>1. n - 1 \notin T
    <3>1. ~(n <= n - 1)
      BY <1>6
    <3> HIDE DEF T
    <3> QED  BY <1>4, <3>1
  <2>2. c(n - 1) \in Nat
    BY <1>2, <1>7
  <2> QED  BY <1>7, <2>1, <2>2
<1>9. n \notin U /\ c(n) = k
  <2>1. n \in U => c(n) = c(n - 1)
    BY <1>2, <1>7
  <2>2. n \notin U => c(n) = c(n - 1) + 1
    BY <1>2, <1>7
  <2> QED  BY <1>6, <1>8, <2>1, <2>2
<1>10. n \in 1 .. u + k
  BY <1>1, <1>6
<1> QED  BY <1>9, <1>10 DEF c

\* The ids for new orders are free, and no two of them are the same.
LEMMA FreeIds ==
  ASSUME OrdersTyped, TradesTyped
  PROVE  /\ \A k \in Nat \ {0} : FreeId(k) \in Nat \ {0} /\ FreeId(k) \notin UsedIds
         /\ \A k, l \in Nat \ {0} : FreeId(k) = FreeId(l) => k = l
<1> DEFINE Right(id, k) == id \notin UsedIds /\ Cardinality((1 .. id) \ UsedIds) = k
<1>1. ASSUME NEW k \in Nat \ {0}
      PROVE  FreeId(k) \in 1 .. Cardinality(UsedIds) + k /\ Right(FreeId(k), k)
  <2>1. \E id \in 1 .. Cardinality(UsedIds) + k : Right(id, k)
    BY UsedFinite, Counted
  <2> HIDE DEF Right
  <2> DEFINE W == 1 .. Cardinality(UsedIds) + k
  <2>2. FreeId(k) = CHOOSE id \in W : Right(id, k)
    BY DEF FreeId, Right
  <2> HIDE DEF W
  <2>3. \E id \in W : Right(id, k)
    BY <2>1 DEF W
  <2>4. FreeId(k) \in W /\ Right(FreeId(k), k)
    BY <2>2, <2>3, Zenon
  <2> QED  BY <2>4 DEF W
<1>2. ASSUME NEW k \in Nat \ {0} PROVE FreeId(k) \in Nat \ {0} /\ FreeId(k) \notin UsedIds
  <2>1. Cardinality(UsedIds) \in Nat
    BY UsedFinite, FS_CardinalityType
  <2> DEFINE u == Cardinality(UsedIds)
             x == FreeId(k)
  <2>2. x \in 1 .. u + k /\ x \notin UsedIds /\ u \in Nat
    BY <1>1, <2>1
  <2> HIDE DEF u, x
  <2>3. x \in Nat \ {0}
    BY <2>2
  <2> QED  BY <2>2, <2>3 DEF x
<1>3. ASSUME NEW k \in Nat \ {0}, NEW l \in Nat \ {0}, FreeId(k) = FreeId(l) PROVE k = l
  <2>1. Cardinality((1 .. FreeId(k)) \ UsedIds) = k /\ Cardinality((1 .. FreeId(l)) \ UsedIds) = l
    BY <1>1
  <2> QED  BY <1>3, <2>1
<1> QED  BY <1>2, <1>3

\* Distinct ids are as many as the orders.
LEMMA CountIds ==
  ASSUME NEW S, NEW seq \in Seq(S), Distinct(seq)
  PROVE  Cardinality(Ids(seq)) = Len(seq)
<1> DEFINE D == 1 .. Len(seq)
           f == [i \in D |-> seq[i].id]
<1>1. DOMAIN seq = D /\ Len(seq) \in Nat
  OBVIOUS
<1>2. f \in [D -> Ids(seq)] /\ (\A x \in Ids(seq) : \E i \in D : f[i] = x)
      /\ \A i, j \in D : f[i] = f[j] => i = j
  BY <1>1 DEF Ids, Distinct
<1>3. f \in Bijection(D, Ids(seq))
  <2> HIDE DEF f, D
  <2> QED  BY <1>2 DEF Bijection, Injection, Surjection, IsInjective
<1>4. IsFiniteSet(D) /\ Cardinality(D) = Len(seq)
  <2> DEFINE n == Len(seq)
  <2>1. n \in Nat
    BY <1>1
  <2> HIDE DEF n
  <2>2. IsFiniteSet(1 .. n) /\ Cardinality(1 .. n) = IF 1 > n THEN 0 ELSE n - 1 + 1
    BY <2>1, 1 \in Int, n \in Int, FS_Interval, Zenon
  <2>3. (IF 1 > n THEN 0 ELSE n - 1 + 1) = n
    BY <2>1
  <2> QED  BY <2>2, <2>3 DEF n
<1>5. ExistsBijection(D, Ids(seq))
  BY <1>3 DEF ExistsBijection
<1> QED  BY <1>4, <1>5, FS_Bijection

-------------------------------------------------------------------------------
(* Orders that go and orders that come *)

\* Orders that are picked keep distinct ids.
LEMMA OrdersPicked ==
  ASSUME NEW R, NEW seq \in Seq(R), Distinct(seq), NEW indices \in SUBSET DOMAIN seq
  PROVE  /\ Pick(seq, indices) \in Seq(R) /\ Distinct(Pick(seq, indices))
         /\ \A j \in DOMAIN Pick(seq, indices) :
              \E i \in indices : Pick(seq, indices)[j] = seq[i]
<1> DEFINE t == Pick(seq, indices)
<1>1. PICK at : Picked(seq, indices, Len(seq), t, at)
  BY PickIs
<1>2. t \in Seq(R)
  <2>1. \A i \in indices : seq[i] \in R
    OBVIOUS
  <2> QED  BY <2>1, PickTyped
<1> HIDE DEF t
<1>3. \A j \in DOMAIN t : at[j] \in indices /\ t[j] = seq[at[j]] /\ at[j] \in Int /\ j \in Int
  <2>1. DOMAIN t = 1 .. Len(t) /\ DOMAIN seq = 1 .. Len(seq)
    BY <1>2
  <2>2. \A j \in 1 .. Len(t) : at[j] \in indices /\ t[j] = seq[at[j]]
    BY <1>1 DEF Picked
  <2> QED  BY <2>1, <2>2
<1>4. Distinct(t)
  <2> SUFFICES ASSUME NEW i \in DOMAIN t, NEW j \in DOMAIN t, i # j PROVE t[i].id # t[j].id
    BY DEF Distinct
  <2>0. DOMAIN t = 1 .. Len(t)
    BY <1>2
  <2>1. i < j => at[i] < at[j]
    BY <1>1, <2>0 DEF Picked
  <2>2. j < i => at[j] < at[i]
    BY <1>1, <2>0 DEF Picked
  <2>3. at[i] # at[j]
    BY <1>3, <2>1, <2>2
  <2>4. at[i] \in DOMAIN seq /\ at[j] \in DOMAIN seq
    BY <1>3
  <2>5. seq[at[i]].id # seq[at[j]].id
    BY <2>3, <2>4 DEF Distinct
  <2> QED  BY <1>3, <2>5
<1> QED  BY <1>2, <1>3, <1>4 DEF t

\* The placed quotes rest beside the orders of the market, all under distinct ids.
LEMMA OrdersPlaced ==
  ASSUME OrdersTyped, TradesTyped, NEW m \in Markets, work[m].place \in Seq(Sound(P[m]))
  PROVE  /\ WithPlaced(m) \in Seq(Resting(P[m])) /\ Distinct(WithPlaced(m))
         /\ \A i \in DOMAIN WithPlaced(m) :
              \/ i \in DOMAIN orders[m] /\ WithPlaced(m)[i] = orders[m][i]
              \/ \E j \in DOMAIN work[m].place :
                   /\ WithPlaced(m)[i].tok = work[m].place[j].tok
                   /\ WithPlaced(m)[i].side = work[m].place[j].side
                   /\ WithPlaced(m)[i].price = work[m].place[j].price
<1> DEFINE s == orders[m]
           place == work[m].place
           order(i) == [tok |-> place[i].tok, side |-> place[i].side, price |-> place[i].price,
                        size |-> place[i].size, id |-> FreeId(i), filled |-> FALSE]
           t == [i \in DOMAIN place |-> order(i)]
           R == Resting(P[m])
           w == s \o t
<1>1. WithPlaced(m) = w
  BY DEF WithPlaced
<1>2. s \in Seq(R) /\ Distinct(s) /\ place \in Seq(Sound(P[m])) /\ P[m] \in Profile
  BY Settings DEF OrdersTyped
<1>3. \A i \in DOMAIN s : s[i].id \in UsedIds
  BY DEF UsedIds, Ids
<1> HIDE DEF place, s
<1>4. DOMAIN place = 1 .. Len(place) /\ Len(place) \in Nat /\ DOMAIN s = 1 .. Len(s) /\ Len(s) \in Nat
  BY <1>2
<1>5. ASSUME NEW i \in DOMAIN place
      PROVE  /\ t[i] \in R /\ t[i].id = FreeId(i) /\ t[i].id \notin UsedIds
             /\ t[i].tok = place[i].tok /\ t[i].side = place[i].side /\ t[i].price = place[i].price
  <2>1. place[i] \in Sound(P[m])
    BY <1>2
  <2>2. i \in Nat \ {0}
    BY <1>4
  <2>3. FreeId(i) \in Nat \ {0} /\ FreeId(i) \notin UsedIds
    BY <2>2, FreeIds
  <2>4. t[i] = order(i)
    OBVIOUS
  <2>5. order(i) \in R
    BY <2>1, <2>3 DEF Sound, QuoteRec, Resting, OrderRec
  <2> QED  BY <2>3, <2>4, <2>5
<1>6. t \in Seq(R) /\ DOMAIN t = DOMAIN place /\ Len(t) = Len(place)
  <2>1. DOMAIN t = DOMAIN place /\ t = [i \in DOMAIN place |-> t[i]]
    OBVIOUS
  <2>2. \A i \in DOMAIN place : t[i] \in R
    BY <1>5
  <2> HIDE DEF t, R
  <2>3. t \in Seq(R)
    BY <1>4, <2>1, <2>2
  <2> QED  BY <1>4, <2>1, <2>3
<1> HIDE DEF t, R
<1>7. w \in Seq(R) /\ Len(w) = Len(s) + Len(t) /\ DOMAIN w = 1 .. Len(s) + Len(t)
  <2>0. s \in Seq(R) /\ t \in Seq(R)
    BY <1>2, <1>6
  <2>1. s \o t \in Seq(R)
    BY <2>0
  <2>2. Len(s \o t) = Len(s) + Len(t)
    BY <2>0
  <2>3. DOMAIN (s \o t) = 1 .. Len(s \o t)
    BY <2>1
  <2> QED  BY <2>1, <2>2, <2>3
<1>8. ASSUME NEW i \in DOMAIN w
      PROVE  \/ i \in DOMAIN s /\ w[i] = s[i]
             \/ /\ i \notin DOMAIN s /\ i - Len(s) \in DOMAIN place
                /\ w[i] = t[i - Len(s)]
  <2>1. i \in 1 .. Len(s) => w[i] = s[i]
    BY <1>2, <1>6 DEF R
  <2>2. i \notin 1 .. Len(s) => i - Len(s) \in 1 .. Len(t) /\ w[i] = t[i - Len(s)]
    BY <1>2, <1>4, <1>6, <1>7 DEF R
  <2> QED  BY <1>4, <1>6, <2>1, <2>2
<1> HIDE DEF w
<1>9. Distinct(w)
  <2> SUFFICES ASSUME NEW i \in DOMAIN w, NEW j \in DOMAIN w, i # j, w[i].id = w[j].id PROVE FALSE
    BY DEF Distinct
  <2>1. CASE i \in DOMAIN s /\ j \in DOMAIN s
    BY <1>2, <1>8, <2>1 DEF Distinct
  <2>2. CASE i \in DOMAIN s /\ j \notin DOMAIN s
    <3>1. w[i] = s[i] /\ w[j] = t[j - Len(s)] /\ j - Len(s) \in DOMAIN place
      BY <1>8, <2>2
    <3> QED  BY <1>3, <1>5, <2>2, <3>1
  <2>3. CASE i \notin DOMAIN s /\ j \in DOMAIN s
    <3>1. w[j] = s[j] /\ w[i] = t[i - Len(s)] /\ i - Len(s) \in DOMAIN place
      BY <1>8, <2>3
    <3> QED  BY <1>3, <1>5, <2>3, <3>1
  <2>4. CASE i \notin DOMAIN s /\ j \notin DOMAIN s
    <3> DEFINE a == i - Len(s)
               b == j - Len(s)
    <3>1. w[i] = t[a] /\ w[j] = t[b] /\ a \in DOMAIN place /\ b \in DOMAIN place
      BY <1>8, <2>4
    <3>2. a # b
      BY <1>4, <1>6, <1>7
    <3> HIDE DEF a, b
    <3>3. t[a].id = FreeId(a) /\ t[b].id = FreeId(b) /\ a \in Nat \ {0} /\ b \in Nat \ {0}
      BY <1>4, <1>5, <3>1
    <3>4. FreeId(a) = FreeId(b)
      BY <3>1, <3>3
    <3> QED  BY <3>2, <3>3, <3>4, FreeIds
  <2> QED  BY <2>1, <2>2, <2>3, <2>4
<1>10. \A i \in DOMAIN w :
         \/ i \in DOMAIN s /\ w[i] = s[i]
         \/ \E j \in DOMAIN place :
              w[i].tok = place[j].tok /\ w[i].side = place[j].side /\ w[i].price = place[j].price
  BY <1>5, <1>8
<1> QED  BY <1>1, <1>7, <1>9, <1>10 DEF R, s, place

\* The orders of one market are exchanged for others of their type.
LEMMA OrdersSet ==
  ASSUME OrdersTyped, NEW m \in Markets, NEW s \in Seq(Resting(P[m])), Distinct(s),
         orders' = [orders EXCEPT ![m] = s]
  PROVE  OrdersTyped'
<1>1. DOMAIN orders' = Markets
  BY DEF OrdersTyped
<1>2. \A n \in Markets : orders'[n] = IF n = m THEN s ELSE orders[n]
  BY DEF OrdersTyped
<1>3. \A n \in Markets : orders'[n] \in Seq(Resting(P[n])) /\ Distinct(orders'[n])
  BY <1>2 DEF OrdersTyped
<1> QED  BY <1>1, <1>3 DEF OrdersTyped

\* The locals of one recompute are exchanged for others of their type.
LEMMA WorkSet ==
  ASSUME WorkTyped, NEW m \in Markets, NEW w \in Working(m), work' = [work EXCEPT ![m] = w]
  PROVE  WorkTyped'
<1>1. DOMAIN work' = Markets /\ \A n \in Markets : work'[n] = IF n = m THEN w ELSE work[n]
  BY DEF WorkTyped
<1>2. \A n \in Markets : work'[n] \in Working(n)
  BY <1>1 DEF WorkTyped
<1> QED  BY <1>1, <1>2 DEF WorkTyped

\* The locals of no recompute.
LEMMA NoWorkTyped ==
  ASSUME NEW m
  PROVE  NoWork \in Working(m) /\ NoWork.raw = <<>> /\ NoWork.place = <<>>
<1>1. Nothing \in [Markets -> Int]
  BY DEF Nothing
<1>2. <<>> \in Seq(Sound(P[m]))
  OBVIOUS
<1> QED  BY <1>1, <1>2 DEF NoWork, Working

-------------------------------------------------------------------------------
(* Types *)

\* Every variable starts with its type.
LEMMA TypedInit == Init => Typed
<1> SUFFICES ASSUME Init PROVE Typed
  OBVIOUS
<1>1. OrdersTyped
  <2>1. \A m \in Markets : orders[m] = <<>> /\ DOMAIN orders = Markets
    BY DEF Init
  <2>2. DOMAIN orders = Markets
    BY DEF Init
  <2>3. \A S : <<>> \in Seq(S)
    OBVIOUS
  <2>4. Distinct(<<>>)
    BY DEF Distinct
  <2> QED  BY <2>1, <2>2, <2>3, <2>4 DEF OrdersTyped
<1>2. PosTyped
  <2>1. pos \in [Markets -> UNION {Start[m] : m \in Markets}] /\ \A m \in Markets : pos[m] \in Start[m]
    BY DEF Init
  <2>2. \A m \in Markets : pos[m] \in [Outcomes -> Nat]
    BY <2>1, CycleAssumption
  <2>3. pos = [m \in Markets |-> pos[m]]
    BY <2>1
  <2> QED  BY <2>2, <2>3 DEF PosTyped
<1>3. MarkTyped
  <2>1. ASSUME NEW m \in Markets PROVE One \div 2 \in 1 .. One - 1
    <3> DEFINE t == P[m].tick
    <3>1. t \in Nat \ {0} /\ 2 * t <= One /\ One \in Nat
      BY Settings, Ticks
    <3> HIDE DEF t
    <3>2. One >= 2
      BY <3>1
    <3> QED  BY <3>1, <3>2
  <2> QED  BY <2>1 DEF Init, MarkTyped
<1>4. Exclusive
  BY DEF Init, Exclusive, Stages
<1>5. WorkTyped
  BY NoWorkTyped DEF Init, WorkTyped
<1>6. TradesTyped /\ FillsTyped
  <2>1. MaxFills \in Nat
    BY CycleAssumption
  <2> QED  BY <2>1, FS_EmptySet DEF Init, TradesTyped, FillsTyped
<1> QED  BY <1>1, <1>2, <1>3, <1>4, <1>5, <1>6 DEF Typed

\* A recompute is done with.
LEMMA LeaveTyped ==
  ASSUME Typed, NEW m \in Markets, Leave(m)
  PROVE  PosTyped' /\ MarkTyped' /\ Exclusive' /\ WorkTyped' /\ TradesTyped' /\ FillsTyped'
<1>1. WorkTyped'
  BY NoWorkTyped, WorkSet DEF Leave, Typed
<1>2. Exclusive'
  BY DEF Leave, Typed, Exclusive, Stages
<1>3. PosTyped' /\ MarkTyped' /\ TradesTyped' /\ FillsTyped'
  BY DEF Leave, Typed, PosTyped, MarkTyped, TradesTyped, FillsTyped
<1> QED  BY <1>1, <1>2, <1>3

\* What Price computes: quotes that keep their edge at the new mark.
LEMMA RawTyped ==
  ASSUME Typed, NEW m \in Markets, NEW in \in Inputs[m], mark' = [mark EXCEPT ![m] = in.fv]
  PROVE  LET held == Held(Values(mark'), m)
             raw == ConstructQuotes(P[m], in, Regime(m, in, held), pos[m], SizeScale(held))
         IN  mark' \in [Markets -> 1 .. One - 1] /\ mark'[m] = in.fv /\ raw \in Seq(Edged(P[m], in.fv))
<1> DEFINE marks == mark'
           held == Held(Values(marks), m)
           regime == Regime(m, in, held)
           scale == SizeScale(held)
<1>1. in \in Findings /\ P[m] \in Profile
  BY Settings
<1>2. in.fv \in 1 .. One - 1 /\ in.regime \in Regimes
  BY <1>1 DEF Findings, Regimes
<1>3. mark' \in [Markets -> 1 .. One - 1] /\ mark'[m] = in.fv
  BY <1>2 DEF Typed, MarkTyped
<1>4. Values(mark') \in [Markets -> Nat]
  BY <1>3, ValuesTyped DEF Typed
<1>5. scale \in Int
  BY <1>4, ScaleTyped
<1>6. regime \in Regimes
  BY <1>2 DEF Regime, Regimes
<1>7. pos[m] \in [Outcomes -> Nat]
  BY DEF Typed, PosTyped
<1> HIDE DEF scale, regime
<1>8. ConstructQuotes(P[m], in, regime, pos[m], scale) \in Seq(Edged(P[m], in.fv))
  BY <1>1, <1>5, <1>6, <1>7, QuotesConstructed
<1> QED  BY <1>3, <1>8 DEF scale, regime

\* Quotes that keep their edge are sound.
LEMMA EdgedSound ==
  ASSUME NEW p, NEW fv, NEW seq \in Seq(Edged(p, fv))
  PROVE  seq \in Seq(Sound(p))
<1>1. Edged(p, fv) \subseteq Sound(p)
  BY DEF Edged
<1> DEFINE A == Edged(p, fv)
           B == Sound(p)
<1>2. A \subseteq B /\ seq \in Seq(A)
  BY <1>1
<1> HIDE DEF A, B
<1> QED  BY <1>2, SeqWider DEF B

\* One way to say what Fit does to its market.
LEMMA FitDoes ==
  ASSUME Typed, NEW m \in Markets, Fit(m)
  PROVE  LET target == FitToHeadroom(work[m].raw, Room(m), P[m])
             plan == Reconcile(target, orders[m], P[m])
         IN  /\ stage[m] = "fit" /\ ReservationFree
             /\ \E next \in {"idle", "cancel", "place"} :
                  /\ stage' = [stage EXCEPT ![m] = next]
                  /\ next = "place" => Ids(orders[m]) = plan.keep
                  /\ next # "place" /\ next # "cancel" => work' = [work EXCEPT ![m] = NoWork]
                  /\ next # "idle" =>
                       work' = [work EXCEPT ![m] =
                                 [raw |-> work[m].raw, keep |-> plan.keep, place |-> plan.place,
                                  values |-> Values(mark), buys |-> [Buys EXCEPT ![m] = 0]]]
<1> DEFINE target == FitToHeadroom(work[m].raw, Room(m), P[m])
           plan == Reconcile(target, orders[m], P[m])
           next == IF Ids(orders[m]) # plan.keep THEN "cancel"
                   ELSE IF plan.place # <<>> THEN "place" ELSE "idle"
           old == work[m]
           new == [old EXCEPT !.keep = plan.keep, !.place = plan.place, !.values = Values(mark),
                              !.buys = [Buys EXCEPT ![m] = 0]]
<1>1. /\ stage[m] = "fit" /\ ReservationFree /\ stage' = [stage EXCEPT ![m] = next]
      /\ work' = [work EXCEPT ![m] = IF next = "idle" THEN NoWork ELSE new]
  BY DEF Fit
<1>2. next \in {"idle", "cancel", "place"} /\ (next = "place" => Ids(orders[m]) = plan.keep)
  OBVIOUS
<1> HIDE DEF next, plan
<1>3. new = [raw |-> old.raw, keep |-> plan.keep, place |-> plan.place,
             values |-> Values(mark), buys |-> [Buys EXCEPT ![m] = 0]]
  <2>1. old \in Working(m)
    BY DEF Typed, WorkTyped
  <2> DEFINE k == plan.keep
             l == plan.place
             v == Values(mark)
             b == [Buys EXCEPT ![m] = 0]
  <2>2. new = [old EXCEPT !.keep = k, !.place = l, !.values = v, !.buys = b]
    OBVIOUS
  <2> HIDE DEF old, new, k, l, v, b
  <2>3. new = [raw |-> old.raw, keep |-> k, place |-> l, values |-> v, buys |-> b]
    BY <2>1, <2>2 DEF Working
  <2> QED  BY <2>3 DEF k, l, v, b
<1> HIDE DEF new, old
<1>4. next = "idle" => work' = [work EXCEPT ![m] = NoWork]
  BY <1>1
<1>5. next # "idle" => work' = [work EXCEPT ![m] = new]
  BY <1>1
<1> QED  BY <1>1, <1>2, <1>3, <1>4, <1>5 DEF plan, old

\* The raw quotes keep their edge at the current mark.
RawEdged == \A m \in Markets : work[m].raw \in Seq(Edged(P[m], mark[m]))

\* What Fit aims at: quotes that keep their edge and cost no more than the room.
LEMMA TargetIs ==
  ASSUME Typed, RawEdged, NEW m \in Markets
  PROVE  LET target == FitToHeadroom(work[m].raw, Room(m), P[m])
         IN  /\ target \in Seq(Edged(P[m], mark[m])) /\ target \in Seq(Sound(P[m]))
             /\ Notional(target) \in Nat /\ Notional(target) <= Room(m)
<1>1. P[m] \in Profile /\ mark[m] \in Int /\ Room(m) \in Nat
  <2>1. Room(m) \in Nat
    BY RoomIs DEF Typed
  <2> QED  BY <2>1, Settings DEF Typed, MarkTyped
<1>2. work[m].raw \in Seq(Edged(P[m], mark[m]))
  BY DEF RawEdged
<1> QED  BY <1>1, <1>2, Fitted, EdgedSound

\* Fit keeps the types.
LEMMA FitTyped ==
  ASSUME Typed, RawEdged, NEW m \in Markets, Fit(m)
  PROVE  Typed'
<1> DEFINE target == FitToHeadroom(work[m].raw, Room(m), P[m])
           plan == Reconcile(target, orders[m], P[m])
           new == [raw |-> work[m].raw, keep |-> plan.keep, place |-> plan.place,
                   values |-> Values(mark), buys |-> [Buys EXCEPT ![m] = 0]]
<1>1. PICK next \in {"idle", "cancel", "place"} :
        /\ stage[m] = "fit" /\ ReservationFree
        /\ stage' = [stage EXCEPT ![m] = next]
        /\ work' = [work EXCEPT ![m] = NoWork] \/ work' = [work EXCEPT ![m] = new]
  BY FitDoes, Zenon
<1>2. target \in Seq(Sound(P[m]))
  BY TargetIs
<1> HIDE DEF target
<1>3. plan \in Plan(P[m], orders[m])
  BY <1>2, Settings, Reconciled DEF Typed, OrdersTyped
<1> HIDE DEF plan
<1>4. new \in Working(m)
  <2>1. plan.keep \in SUBSET Nat
    <3>1. plan.keep \subseteq Ids(orders[m])
      BY <1>3 DEF Plan
    <3>2. Ids(orders[m]) \subseteq UsedIds
      BY DEF UsedIds
    <3> QED  BY <3>1, <3>2, UsedFinite DEF Typed
  <2>2. plan.place \in Seq(Sound(P[m])) /\ work[m].raw \in Seq(Sound(P[m]))
    BY <1>3 DEF Plan, Typed, WorkTyped, Working
  <2>3. Values(mark) \in [Markets -> Int]
    <3>1. Values(mark) \in [Markets -> Nat]
      BY ValuesTyped DEF Typed, MarkTyped
    <3> DEFINE v == Values(mark)
    <3> HIDE DEF v
    <3>2. v \in [Markets -> Int]
      BY <3>1 DEF v
    <3> QED  BY <3>2 DEF v
  <2>4. [Buys EXCEPT ![m] = 0] \in [Markets -> Int]
    <3>1. Buys \in [Markets -> Nat]
      BY BuysTyped DEF Typed
    <3> DEFINE v == Buys
    <3> HIDE DEF v
    <3>2. [v EXCEPT ![m] = 0] \in [Markets -> Int]
      BY <3>1 DEF v
    <3> QED  BY <3>2 DEF v
  <2> QED  BY <2>1, <2>2, <2>3, <2>4 DEF Working
<1> HIDE DEF new
<1>5. WorkTyped'
  BY <1>1, <1>4, NoWorkTyped, WorkSet DEF Typed
<1>6. Exclusive'
  <2>1. stage \in [Markets -> Stages]
    BY DEF Typed, Exclusive
  <2>2. stage' \in [Markets -> Stages]
    BY <1>1, <2>1 DEF Stages
  <2>3. \A n \in Markets \ {m} : stage'[n] \notin {"cancel", "place"}
    BY <1>1, <2>1 DEF ReservationFree
  <2> QED  BY <2>2, <2>3 DEF Exclusive
<1>7. OrdersTyped' /\ PosTyped' /\ MarkTyped' /\ TradesTyped' /\ FillsTyped'
  BY DEF Fit, Typed, OrdersTyped, PosTyped, MarkTyped, TradesTyped, FillsTyped, Distinct
<1> QED  BY <1>5, <1>6, <1>7 DEF Typed

\* Price keeps the types.
LEMMA PriceTyped ==
  ASSUME Typed, NEW m \in Markets, Price(m)
  PROVE  Typed'
<1>1. PICK in \in Inputs[m] :
        /\ mark' = [mark EXCEPT ![m] = in.fv]
        /\ work' = [work EXCEPT ![m] = [NoWork EXCEPT !.raw =
             ConstructQuotes(P[m], in, Regime(m, in, Held(Values(mark'), m)), pos[m],
                             SizeScale(Held(Values(mark'), m)))]]
  BY DEF Price
<1> DEFINE raw == ConstructQuotes(P[m], in, Regime(m, in, Held(Values(mark'), m)), pos[m],
                                  SizeScale(Held(Values(mark'), m)))
<1>2. mark' \in [Markets -> 1 .. One - 1] /\ raw \in Seq(Edged(P[m], in.fv))
  BY <1>1, RawTyped, Zenon
<1>3. raw \in Seq(Sound(P[m]))
  BY <1>2, EdgedSound, Zenon
<1>4. work' = [work EXCEPT ![m] = [NoWork EXCEPT !.raw = raw]]
  BY <1>1
<1> HIDE DEF raw
<1>5. [NoWork EXCEPT !.raw = raw] \in Working(m)
  BY <1>3, NoWorkTyped DEF Working
<1>6. WorkTyped'
  BY <1>4, <1>5, WorkSet DEF Typed
<1>7. Exclusive'
  BY DEF Price, Typed, Exclusive, Stages
<1>8. OrdersTyped' /\ PosTyped' /\ TradesTyped' /\ FillsTyped'
  BY DEF Price, Typed, OrdersTyped, PosTyped, TradesTyped, FillsTyped, Distinct
<1> QED  BY <1>2, <1>6, <1>7, <1>8 DEF Typed, MarkTyped

\* Some orders of a market go, nothing else of its orders changes.
LEMMA OrdersGo ==
  ASSUME Typed, NEW m \in Markets, NEW indices \in SUBSET DOMAIN orders[m],
         orders' = [orders EXCEPT ![m] = Pick(orders[m], indices)]
  PROVE  OrdersTyped'
<1>1. orders[m] \in Seq(Resting(P[m])) /\ Distinct(orders[m])
  BY DEF Typed, OrdersTyped
<1>2. Pick(orders[m], indices) \in Seq(Resting(P[m])) /\ Distinct(Pick(orders[m], indices))
  BY <1>1, OrdersPicked
<1> QED  BY <1>2, OrdersSet DEF Typed

\* Cancelled keeps the types.
LEMMA CancelledTyped ==
  ASSUME Typed, NEW m \in Markets, Cancelled(m)
  PROVE  Typed'
<1>1. OrdersTyped'
  <2> DEFINE indices == {i \in DOMAIN orders[m] : orders[m][i].id \in work[m].keep}
  <2>1. orders' = [orders EXCEPT ![m] = Pick(orders[m], indices)]
    BY DEF Cancelled
  <2>2. indices \in SUBSET DOMAIN orders[m]
    OBVIOUS
  <2> HIDE DEF indices
  <2> QED  BY <2>1, <2>2, OrdersGo
<1>2. CASE work[m].place = <<>>
  <2>1. Leave(m)
    BY <1>2 DEF Cancelled
  <2> QED  BY <1>1, <2>1, LeaveTyped DEF Typed
<1>3. CASE work[m].place # <<>>
  <2>1. stage[m] = "cancel" /\ stage' = [stage EXCEPT ![m] = "place"]
        /\ UNCHANGED <<pos, mark, work, trades, fills>>
    BY <1>3 DEF Cancelled
  <2>2. Exclusive'
    BY <2>1 DEF Typed, Exclusive, Stages
  <2>3. PosTyped' /\ MarkTyped' /\ TradesTyped' /\ FillsTyped' /\ WorkTyped'
    BY <2>1 DEF Typed, PosTyped, MarkTyped, TradesTyped, FillsTyped, WorkTyped
  <2> QED  BY <1>1, <2>2, <2>3 DEF Typed
<1> QED  BY <1>2, <1>3

\* CancelFails keeps the types.
LEMMA CancelFailsTyped ==
  ASSUME Typed, NEW m \in Markets, CancelFails(m)
  PROVE  Typed'
<1>1. PICK gone : orders' = [orders EXCEPT ![m] =
                    Pick(@, {i \in DOMAIN @ : ~@[i].filled /\ @[i].id \notin gone})]
  BY DEF CancelFails
<1> DEFINE indices == {i \in DOMAIN orders[m] : ~orders[m][i].filled /\ orders[m][i].id \notin gone}
<1>2. orders' = [orders EXCEPT ![m] = Pick(orders[m], indices)]
  BY <1>1
<1>3. indices \in SUBSET DOMAIN orders[m]
  OBVIOUS
<1> HIDE DEF indices
<1>4. OrdersTyped'
  BY <1>2, <1>3, OrdersGo
<1>5. Leave(m)
  BY DEF CancelFails
<1> QED  BY <1>4, <1>5, LeaveTyped DEF Typed

\* Posted keeps the types.
LEMMA PostedTyped ==
  ASSUME Typed, NEW m \in Markets, Posted(m)
  PROVE  Typed'
<1>1. OrdersTyped'
  <2>1. work[m].place \in Seq(Sound(P[m]))
    BY DEF Typed, WorkTyped, Working
  <2>2. WithPlaced(m) \in Seq(Resting(P[m])) /\ Distinct(WithPlaced(m))
    BY <2>1, OrdersPlaced DEF Typed
  <2> QED  BY <2>2, OrdersSet DEF Typed, Posted
<1> QED  BY <1>1, LeaveTyped DEF Typed, Posted

\* Quarantined keeps the types.
LEMMA QuarantinedTyped ==
  ASSUME Typed, NEW m \in Markets, Quarantined(m)
  PROVE  Typed'
<1>1. OrdersTyped'
  <2>1. <<>> \in Seq(Resting(P[m])) /\ Distinct(<<>>)
    BY DEF Distinct
  <2> QED  BY <2>1, OrdersSet DEF Typed, Quarantined
<1> QED  BY <1>1, LeaveTyped DEF Typed, Quarantined

\* A fill marks its order and changes nothing else of it.
LEMMA FillMarks ==
  ASSUME Typed, NEW m \in Markets, NEW i \in DOMAIN orders[m], Fill(m, i)
  PROVE  /\ orders' = [orders EXCEPT ![m] = [orders[m] EXCEPT ![i].filled = TRUE]]
         /\ orders'[m] \in Seq(Resting(P[m])) /\ DOMAIN orders'[m] = DOMAIN orders[m]
         /\ \A j \in DOMAIN orders[m] :
              /\ orders'[m][j].id = orders[m][j].id /\ orders'[m][j].side = orders[m][j].side
              /\ orders'[m][j].tok = orders[m][j].tok /\ orders'[m][j].price = orders[m][j].price
              /\ orders'[m][j].size = orders[m][j].size
         /\ \A n \in Markets \ {m} : orders'[n] = orders[n]
<1> DEFINE s == orders[m]
           t == [s EXCEPT ![i].filled = TRUE]
           R == Resting(P[m])
<1>1. orders' = [orders EXCEPT ![m] = t] /\ DOMAIN orders = Markets
  BY DEF Fill, Typed, OrdersTyped
<1>2. orders'[m] = t /\ \A n \in Markets \ {m} : orders'[n] = orders[n]
  BY <1>1
<1>3. s \in Seq(R)
  BY DEF Typed, OrdersTyped
<1> HIDE DEF s
<1>4. DOMAIN s = 1 .. Len(s) /\ Len(s) \in Nat /\ i \in DOMAIN s /\ DOMAIN t = DOMAIN s
  BY <1>3 DEF s
<1>5. ASSUME NEW j \in DOMAIN s
      PROVE  /\ t[j] \in R /\ t[j].id = s[j].id /\ t[j].side = s[j].side /\ t[j].tok = s[j].tok
             /\ t[j].price = s[j].price /\ t[j].size = s[j].size
  <2>1. s[j] \in R
    BY <1>3
  <2>2. j # i => t[j] = s[j]
    BY <1>4
  <2>3. t[i] = [s[i] EXCEPT !.filled = TRUE]
    BY <1>4
  <2> HIDE DEF t
  <2>4. CASE j = i
    <3> DEFINE o == s[i]
    <3>1. o \in R /\ t[i] = [o EXCEPT !.filled = TRUE]
      BY <2>1, <2>3, <2>4
    <3> HIDE DEF o
    <3>2. [o EXCEPT !.filled = TRUE] \in R
      BY <3>1 DEF Resting, OrderRec
    <3>3. /\ t[i].id = o.id /\ t[i].side = o.side /\ t[i].tok = o.tok
          /\ t[i].price = o.price /\ t[i].size = o.size
      BY <3>1 DEF Resting, OrderRec
    <3> QED  BY <2>4, <3>1, <3>2, <3>3 DEF o
  <2> QED  BY <2>1, <2>2, <2>4
<1>6. t \in Seq(R)
  <2>1. t = [j \in 1 .. Len(s) |-> t[j]]
    BY <1>4
  <2>2. \A j \in 1 .. Len(s) : t[j] \in R
    BY <1>4, <1>5
  <2> HIDE DEF t, R
  <2> QED  BY <1>4, <2>1, <2>2
<1> HIDE DEF t, R
<1> QED  BY <1>1, <1>2, <1>4, <1>5, <1>6 DEF s, t, R

\* Fill keeps the types.
LEMMA FillTyped ==
  ASSUME Typed, NEW m \in Markets, NEW i \in DOMAIN orders[m], Fill(m, i)
  PROVE  Typed'
<1>1. OrdersTyped'
  <2>1. Distinct(orders[m])
    BY DEF Typed, OrdersTyped
  <2>2. Distinct(orders'[m])
    BY <2>1, FillMarks DEF Distinct
  <2>3. orders'[m] \in Seq(Resting(P[m])) /\ DOMAIN orders' = Markets
        /\ \A n \in Markets \ {m} : orders'[n] = orders[n]
    BY FillMarks DEF Typed, OrdersTyped
  <2>4. \A n \in Markets : orders'[n] \in Seq(Resting(P[n])) /\ Distinct(orders'[n])
    BY <2>2, <2>3 DEF Typed, OrdersTyped
  <2> QED  BY <2>3, <2>4 DEF OrdersTyped
<1>2. TradesTyped'
  <2> DEFINE o == orders[m][i]
             t == [market |-> m, order |-> o, id |-> o.id]
  <2>1. o \in Resting(P[m])
    BY DEF Typed, OrdersTyped
  <2>2. trades' = trades \union {t}
    BY DEF Fill
  <2> HIDE DEF o
  <2>3. t \in TradeRec
    BY <2>1 DEF Resting, OrderRec, TradeRec
  <2> HIDE DEF t
  <2>4. IsFiniteSet(trades \union {t}) /\ trades \union {t} \subseteq TradeRec
    BY <2>3, FS_AddElement DEF Typed, TradesTyped
  <2> QED  BY <2>2, <2>4 DEF TradesTyped
<1>3. FillsTyped'
  BY Settings DEF Fill, Typed, FillsTyped
<1>4. PosTyped' /\ MarkTyped' /\ Exclusive' /\ WorkTyped'
  BY DEF Fill, Typed, PosTyped, MarkTyped, Exclusive, WorkTyped
<1> QED  BY <1>1, <1>2, <1>3, <1>4 DEF Typed

\* OrderGone keeps the types.
LEMMA OrderGoneTyped ==
  ASSUME Typed, NEW m \in Markets, NEW i \in DOMAIN orders[m], OrderGone(m, i)
  PROVE  Typed'
<1> DEFINE indices == {j \in DOMAIN orders[m] : orders[m][j].id \notin {orders[m][i].id}}
<1>1. orders' = [orders EXCEPT ![m] = Pick(orders[m], indices)]
  BY DEF OrderGone, Without
<1>2. indices \in SUBSET DOMAIN orders[m]
  OBVIOUS
<1> HIDE DEF indices
<1>3. OrdersTyped'
  BY <1>1, <1>2, OrdersGo
<1>4. PosTyped' /\ MarkTyped' /\ Exclusive' /\ WorkTyped' /\ TradesTyped' /\ FillsTyped'
  BY DEF OrderGone, Typed, PosTyped, MarkTyped, Exclusive, WorkTyped, TradesTyped, FillsTyped
<1> QED  BY <1>3, <1>4 DEF Typed

\* Trade keeps the types.
LEMMA TradeTyped ==
  ASSUME Typed, NEW t \in trades, Trade(t)
  PROVE  Typed'
<1>1. t.market \in Markets /\ t.order.tok \in Outcomes /\ t.order.size \in Nat
  BY DEF Typed, TradesTyped, TradeRec, OrderRec
<1>2. PosTyped'
  <2> DEFINE m == t.market
             k == t.order.tok
             s == t.order.size
             old == pos[m][k]
             new == IF t.order.side = "BUY" THEN old + s ELSE Max({0, old - s})
  <2>1. pos' = [pos EXCEPT ![m][k] = new]
    BY DEF Trade
  <2>2. pos \in [Markets -> [Outcomes -> Nat]] /\ m \in Markets /\ k \in Outcomes /\ s \in Nat
    BY <1>1 DEF Typed, PosTyped
  <2>3. old \in Nat
    BY <2>2
  <2> HIDE DEF old, s, m, k
  <2>4. Max({0, old - s}) \in Nat
    <3>1. \A a, b \in Int : Max({a, b}) \in Int /\ Max({a, b}) >= a
      BY MaxOfTwo
    <3>2. 0 \in Int /\ old - s \in Int
      BY <2>2, <2>3
    <3>3. Max({0, old - s}) \in Int /\ Max({0, old - s}) >= 0
      BY <3>1, <3>2, Zenon
    <3> QED  BY <3>3
  <2>5. new \in Nat
    BY <2>2, <2>3, <2>4
  <2> HIDE DEF new
  <2>6. [pos EXCEPT ![m][k] = new] \in [Markets -> [Outcomes -> Nat]]
    BY <2>2, <2>5
  <2> QED  BY <2>1, <2>6 DEF PosTyped
<1>3. TradesTyped'
  <2>1. trades' = trades \ {t}
    BY DEF Trade
  <2>2. IsFiniteSet(trades \ {t})
    BY FS_Subset DEF Typed, TradesTyped
  <2> QED  BY <2>1, <2>2 DEF Typed, TradesTyped
<1>4. OrdersTyped' /\ MarkTyped' /\ Exclusive' /\ WorkTyped' /\ FillsTyped'
  BY DEF Trade, Typed, OrdersTyped, MarkTyped, Exclusive, WorkTyped, FillsTyped, Distinct
<1> QED  BY <1>2, <1>3, <1>4 DEF Typed

\* Every step keeps the types: what a recompute posts is sound because its raw quotes were,
\* and the reservation lock keeps two markets from reserving exposure at once.
LEMMA TypedNext ==
  ASSUME Typed, RawEdged, [Next]_vars
  PROVE  Typed'
<1>1. ASSUME NEW m \in Markets, Price(m) PROVE Typed'
  BY <1>1, PriceTyped
<1>2. ASSUME NEW m \in Markets, Fit(m) PROVE Typed'
  BY <1>2, FitTyped
<1>3. ASSUME NEW m \in Markets, Cancelled(m) PROVE Typed'
  BY <1>3, CancelledTyped
<1>4. ASSUME NEW m \in Markets, CancelFails(m) PROVE Typed'
  BY <1>4, CancelFailsTyped
<1>5. ASSUME NEW m \in Markets, Posted(m) PROVE Typed'
  BY <1>5, PostedTyped
<1>6. ASSUME NEW m \in Markets, NotPosted(m) PROVE Typed'
  <2>1. Leave(m) /\ orders' = orders
    BY <1>6 DEF NotPosted
  <2>2. OrdersTyped'
    BY <2>1 DEF Typed, OrdersTyped, Distinct
  <2> QED  BY <2>1, <2>2, LeaveTyped DEF Typed
<1>7. ASSUME NEW m \in Markets, Quarantined(m) PROVE Typed'
  BY <1>7, QuarantinedTyped
<1>8. ASSUME NEW m \in Markets, NEW i \in DOMAIN orders[m], Fill(m, i) PROVE Typed'
  BY <1>8, FillTyped
<1>9. ASSUME NEW m \in Markets, NEW i \in DOMAIN orders[m], OrderGone(m, i) PROVE Typed'
  BY <1>9, OrderGoneTyped
<1>10. ASSUME NEW t \in trades, Trade(t) PROVE Typed'
  BY <1>10, TradeTyped
<1>11. CASE UNCHANGED vars
  BY <1>11 DEF vars, Typed, OrdersTyped, PosTyped, MarkTyped, Exclusive, WorkTyped, TradesTyped,
               FillsTyped, Distinct
<1> QED  BY <1>1, <1>2, <1>3, <1>4, <1>5, <1>6, <1>7, <1>8, <1>9, <1>10, <1>11 DEF Next

-------------------------------------------------------------------------------
(* The raw quotes *)

\* The mark that the raw quotes keep their edge at changes only with them.
LEMMA RawKept ==
  ASSUME Typed, RawEdged, [Next]_vars
  PROVE  RawEdged'
<1>0. \A S : <<>> \in Seq(S)
  OBVIOUS
<1>1. ASSUME NEW m \in Markets, work' = [work EXCEPT ![m] = NoWork], mark' = mark
      PROVE  RawEdged'
  <2>1. \A n \in Markets : work'[n].raw = IF n = m THEN <<>> ELSE work[n].raw
    BY <1>1, NoWorkTyped DEF Typed, WorkTyped
  <2> QED  BY <1>0, <1>1, <2>1 DEF RawEdged
<1>2. ASSUME work' = work, mark' = mark PROVE RawEdged'
  BY <1>2 DEF RawEdged
<1>3. ASSUME NEW m \in Markets, Price(m) PROVE RawEdged'
  <2>1. PICK in \in Inputs[m] :
        /\ mark' = [mark EXCEPT ![m] = in.fv]
        /\ work' = [work EXCEPT ![m] = [NoWork EXCEPT !.raw =
             ConstructQuotes(P[m], in, Regime(m, in, Held(Values(mark'), m)), pos[m],
                             SizeScale(Held(Values(mark'), m)))]]
    BY <1>3 DEF Price
  <2> DEFINE raw == ConstructQuotes(P[m], in, Regime(m, in, Held(Values(mark'), m)), pos[m],
                                    SizeScale(Held(Values(mark'), m)))
             w == [NoWork EXCEPT !.raw = raw]
  <2>2. mark'[m] = in.fv /\ raw \in Seq(Edged(P[m], in.fv))
    BY <2>1, RawTyped, Zenon
  <2>3. work' = [work EXCEPT ![m] = w]
    BY <2>1
  <2> HIDE DEF raw
  <2>4. w.raw = raw
    BY DEF NoWork
  <2> HIDE DEF w
  <2>5. work'[m].raw = raw /\ \A n \in Markets \ {m} : work'[n] = work[n] /\ mark'[n] = mark[n]
    BY <2>1, <2>3, <2>4 DEF Typed, WorkTyped, MarkTyped
  <2> QED  BY <2>2, <2>5 DEF RawEdged
<1>4. ASSUME NEW m \in Markets, Fit(m) PROVE RawEdged'
  <2> DEFINE target == FitToHeadroom(work[m].raw, Room(m), P[m])
             plan == Reconcile(target, orders[m], P[m])
             new == [raw |-> work[m].raw, keep |-> plan.keep, place |-> plan.place,
                     values |-> Values(mark), buys |-> [Buys EXCEPT ![m] = 0]]
  <2>1. work' = [work EXCEPT ![m] = NoWork] \/ work' = [work EXCEPT ![m] = new]
    BY <1>4, FitDoes, Zenon
  <2>2. mark' = mark
    BY <1>4 DEF Fit
  <2>3. new.raw = work[m].raw
    OBVIOUS
  <2> HIDE DEF new
  <2>4. CASE work' = [work EXCEPT ![m] = new]
    <3>1. \A n \in Markets : work'[n].raw = work[n].raw
      BY <2>3, <2>4 DEF Typed, WorkTyped
    <3> QED  BY <2>2, <3>1 DEF RawEdged
  <2> QED  BY <1>1, <2>1, <2>2, <2>4
<1>5. ASSUME NEW m \in Markets, Cancelled(m) PROVE RawEdged'
  BY <1>1, <1>2, <1>5 DEF Cancelled, Leave
<1>6. ASSUME NEW m \in Markets, CancelFails(m) PROVE RawEdged'
  BY <1>1, <1>6 DEF CancelFails, Leave
<1>7. ASSUME NEW m \in Markets, Posted(m) \/ NotPosted(m) \/ Quarantined(m) PROVE RawEdged'
  BY <1>1, <1>7 DEF Posted, NotPosted, Quarantined, Leave
<1>8. ASSUME NEW m \in Markets, NEW i \in DOMAIN orders[m], Fill(m, i) \/ OrderGone(m, i)
      PROVE  RawEdged'
  BY <1>2, <1>8 DEF Fill, OrderGone
<1>9. ASSUME NEW t \in trades, Trade(t) PROVE RawEdged'
  BY <1>2, <1>9 DEF Trade
<1>10. CASE UNCHANGED vars
  BY <1>2, <1>10 DEF vars
<1> QED  BY <1>3, <1>4, <1>5, <1>6, <1>7, <1>8, <1>9, <1>10 DEF Next

\* Before the first recompute there are no raw quotes.
LEMMA RawInit == Init => RawEdged
<1> SUFFICES ASSUME Init PROVE RawEdged
  OBVIOUS
<1>1. \A m \in Markets : work[m].raw = <<>>
  BY NoWorkTyped DEF Init
<1>2. \A S : <<>> \in Seq(S)
  OBVIOUS
<1> QED  BY <1>1, <1>2 DEF RawEdged

\* The invariant of this module says more than the type invariant of the runs.
LEMMA TypedIs == Typed => TypeOK
<1> SUFFICES ASSUME Typed PROVE TypeOK
  OBVIOUS
<1>1. ASSUME NEW m \in Markets, NEW i \in DOMAIN orders[m]
      PROVE  LET o == orders[m][i]
             IN  /\ o.tok \in Outcomes /\ o.side \in {"BUY", "SELL"} /\ o.filled \in BOOLEAN
                 /\ o.price \in P[m].tick .. One - P[m].tick /\ o.price % P[m].tick = 0
                 /\ o.size >= P[m].min_order
  <2>1. orders[m][i] \in Resting(P[m])
    BY DEF Typed, OrdersTyped
  <2> QED  BY <2>1 DEF Resting, OrderRec, OnGrid, Sides
<1>2. ASSUME NEW m \in Markets
      PROVE  /\ Cardinality(Ids(orders[m])) = Len(orders[m])
             /\ pos[m] \in [Outcomes -> Nat] /\ mark[m] \in 1 .. One - 1
             /\ stage[m] \in {"idle", "fit", "cancel", "place"}
  <2>1. Cardinality(Ids(orders[m])) = Len(orders[m])
    BY CountIds DEF Typed, OrdersTyped
  <2> QED  BY <2>1 DEF Typed, PosTyped, MarkTyped, Exclusive, Stages
<1> QED  BY <1>1, <1>2 DEF TypeOK, Typed, Exclusive, FillsTyped

\* TypeOK for any markets, profiles, books, estimates and regimes: every order rests on the
\* grid with at least the minimal size and an id of its own, positions are never negative,
\* and only one market at a time reserves exposure.
THEOREM TypesHold == Spec => []TypeOK
<1>1. Init => Typed /\ RawEdged
  BY TypedInit, RawInit
<1>2. Typed /\ RawEdged /\ [Next]_vars => Typed' /\ RawEdged'
  BY TypedNext, RawKept
<1>3. Typed => TypeOK
  BY TypedIs
<1> QED  BY <1>1, <1>2, <1>3, PTL DEF Spec

-------------------------------------------------------------------------------
(* Edges and pairs *)

\* No market moves an order in bounded steps.
NoBoundedMoves == \A m \in Markets : P[m].max_reprice = 0

\* The planned quotes keep their edge at the current mark.
PlaceEdged(m) == work[m].place \in Seq(Edged(P[m], mark[m]))

\* The orders that a recompute keeps are close to its own quotes.
KeptNear(m) ==
  stage[m] \in {"cancel", "place"} =>
    \A i \in DOMAIN orders[m] :
      orders[m][i].id \in work[m].keep => Near(P[m], mark[m], orders[m][i])

\* Once something is placed only the kept orders are left.
AllKept(m) == stage[m] = "place" => Ids(orders[m]) \subseteq work[m].keep

Quoted(m) == PlaceEdged(m) /\ KeptNear(m) /\ AllKept(m)

\* What rests afterwards rested before.
Fewer(old, new) ==
  \A j \in DOMAIN new : \E i \in DOMAIN old :
    /\ new[j].id = old[i].id /\ new[j].tok = old[i].tok
    /\ new[j].side = old[i].side /\ new[j].price = old[i].price

\* Of the kept orders some may go.
LEMMA FewerNear ==
  ASSUME NEW p, NEW fv, NEW old, NEW new, Fewer(old, new), NEW keep,
         \A i \in DOMAIN old : old[i].id \in keep => Near(p, fv, old[i])
  PROVE  \A j \in DOMAIN new : new[j].id \in keep => Near(p, fv, new[j])
<1> SUFFICES ASSUME NEW j \in DOMAIN new, new[j].id \in keep PROVE Near(p, fv, new[j])
  OBVIOUS
<1>1. PICK i \in DOMAIN old :
        /\ new[j].id = old[i].id /\ new[j].tok = old[i].tok
        /\ new[j].side = old[i].side /\ new[j].price = old[i].price
  BY DEF Fewer
<1>2. Near(p, fv, old[i])
  BY <1>1
<1> QED  BY <1>1, <1>2 DEF Near

\* A recompute that is over, or not begun, owes nothing.
LEMMA QuotedIdle ==
  ASSUME NEW m, stage'[m] \notin {"cancel", "place"}, work'[m].place = <<>>
  PROVE  Quoted(m)'
<1>1. <<>> \in Seq(Edged(P[m], mark[m]))'
  OBVIOUS
<1>2. PlaceEdged(m)'
  BY <1>1 DEF PlaceEdged
<1> QED  BY <1>2 DEF Quoted, KeptNear, AllKept

\* Orders may go during a recompute.
LEMMA QuotedFewer ==
  ASSUME NEW m, Quoted(m), Fewer(orders[m], orders'[m]), stage'[m] = stage[m],
         work'[m] = work[m], mark'[m] = mark[m]
  PROVE  Quoted(m)'
<1>1. PlaceEdged(m)'
  BY DEF PlaceEdged, Quoted
<1>2. KeptNear(m)'
  <2> SUFFICES ASSUME stage[m] \in {"cancel", "place"}
               PROVE  \A i \in DOMAIN orders'[m] :
                        orders'[m][i].id \in work[m].keep => Near(P[m], mark[m], orders'[m][i])
    BY DEF KeptNear
  <2> DEFINE old == orders[m]
             new == orders'[m]
             keep == work[m].keep
             fv == mark[m]
  <2>1. Fewer(old, new) /\ \A i \in DOMAIN old : old[i].id \in keep => Near(P[m], fv, old[i])
    BY DEF Quoted, KeptNear
  <2> HIDE DEF old, new, keep, fv
  <2>2. \A j \in DOMAIN new : new[j].id \in keep => Near(P[m], fv, new[j])
    BY <2>1, FewerNear
  <2> QED  BY <2>2 DEF new, keep, fv
<1>3. AllKept(m)'
  <2>1. Ids(orders'[m]) \subseteq Ids(orders[m])
    BY DEF Fewer, Ids
  <2> QED  BY <2>1 DEF AllKept, Quoted
<1> QED  BY <1>1, <1>2, <1>3 DEF Quoted

\* All orders may stay, and all may go.
LEMMA FewerSame ==
  ASSUME NEW old
  PROVE  Fewer(old, old) /\ Fewer(old, <<>>)
BY DEF Fewer

\* Orders that are picked rested before.
LEMMA FewerPicked ==
  ASSUME Typed, NEW m \in Markets, NEW indices \in SUBSET DOMAIN orders[m],
         orders' = [orders EXCEPT ![m] = Pick(orders[m], indices)]
  PROVE  /\ Fewer(orders[m], orders'[m])
         /\ \A j \in DOMAIN orders'[m] : \E i \in indices : orders'[m][j] = orders[m][i]
         /\ \A n \in Markets \ {m} : orders'[n] = orders[n]
<1>1. orders[m] \in Seq(Resting(P[m])) /\ Distinct(orders[m]) /\ DOMAIN orders = Markets
  BY DEF Typed, OrdersTyped
<1> DEFINE s == orders[m]
           t == Pick(s, indices)
<1>2. orders'[m] = t /\ \A n \in Markets \ {m} : orders'[n] = orders[n]
  BY <1>1
<1>3. \A j \in DOMAIN t : \E i \in indices : t[j] = s[i]
  BY <1>1, OrdersPicked
<1> HIDE DEF t
<1>4. Fewer(s, t)
  BY <1>3 DEF Fewer
<1> QED  BY <1>2, <1>3, <1>4

\* After the fit: both what is kept and what is placed belong to the new mark.
LEMMA FitQuoted ==
  ASSUME Typed, RawEdged, NoBoundedMoves, NEW m \in Markets, Quoted(m), Fit(m)
  PROVE  Quoted(m)'
<1> DEFINE target == FitToHeadroom(work[m].raw, Room(m), P[m])
           plan == Reconcile(target, orders[m], P[m])
           new == [raw |-> work[m].raw, keep |-> plan.keep, place |-> plan.place,
                   values |-> Values(mark), buys |-> [Buys EXCEPT ![m] = 0]]
<1>1. PICK next \in {"idle", "cancel", "place"} :
        /\ stage' = [stage EXCEPT ![m] = next]
        /\ next = "place" => Ids(orders[m]) = plan.keep
        /\ next # "place" /\ next # "cancel" => work' = [work EXCEPT ![m] = NoWork]
        /\ next # "idle" => work' = [work EXCEPT ![m] = new]
  BY FitDoes, Zenon
<1>2. /\ target \in Seq(Edged(P[m], mark[m])) /\ P[m] \in Profile /\ P[m].max_reprice = 0
      /\ orders[m] \in Seq(Resting(P[m])) /\ Distinct(orders[m]) /\ mark[m] \in Int
  BY TargetIs, Settings DEF NoBoundedMoves, Typed, OrdersTyped, MarkTyped
<1> HIDE DEF target
<1>3. /\ plan.place \in Seq(Edged(P[m], mark[m]))
      /\ \A i \in DOMAIN orders[m] : orders[m][i].id \in plan.keep => Near(P[m], mark[m], orders[m][i])
  BY <1>2, ReconciledEdged
<1>4. /\ orders' = orders /\ mark' = mark
      /\ stage'[m] = next
      /\ next = "idle" => work'[m] = NoWork
      /\ next # "idle" => work'[m].place = plan.place /\ work'[m].keep = plan.keep
  <2>1. orders' = orders /\ mark' = mark
    BY DEF Fit
  <2>2. stage'[m] = next
    BY <1>1 DEF Typed, Exclusive
  <2>3. new.place = plan.place /\ new.keep = plan.keep
    OBVIOUS
  <2> HIDE DEF new, plan
  <2>4. next = "idle" => work'[m] = NoWork
    BY <1>1 DEF Typed, WorkTyped
  <2>5. next # "idle" => work'[m] = new
    BY <1>1 DEF Typed, WorkTyped
  <2> QED  BY <2>1, <2>2, <2>3, <2>4, <2>5
<1> HIDE DEF plan, new
<1>5. CASE next = "idle"
  <2>1. work'[m].place = <<>> /\ stage'[m] \notin {"cancel", "place"}
    BY <1>4, <1>5, NoWorkTyped
  <2> QED  BY <2>1, QuotedIdle
<1>6. CASE next # "idle"
  <2>1. PlaceEdged(m)'
    BY <1>3, <1>4, <1>6 DEF PlaceEdged
  <2>2. KeptNear(m)'
    BY <1>3, <1>4, <1>6 DEF KeptNear
  <2>3. AllKept(m)'
    BY <1>1, <1>4, <1>6 DEF AllKept
  <2> QED  BY <2>1, <2>2, <2>3 DEF Quoted
<1> QED  BY <1>5, <1>6

\* Once the cancellation is confirmed only the kept orders are left.
LEMMA CancelledQuoted ==
  ASSUME Typed, NEW m \in Markets, Quoted(m), Cancelled(m)
  PROVE  Quoted(m)'
<1> DEFINE indices == {i \in DOMAIN orders[m] : orders[m][i].id \in work[m].keep}
<1>1. orders' = [orders EXCEPT ![m] = Pick(orders[m], indices)] /\ indices \in SUBSET DOMAIN orders[m]
  BY DEF Cancelled
<1>2. /\ Fewer(orders[m], orders'[m])
      /\ \A j \in DOMAIN orders'[m] : \E i \in indices : orders'[m][j] = orders[m][i]
  <2>1. indices \in SUBSET DOMAIN orders[m]
    BY <1>1
  <2>2. orders' = [orders EXCEPT ![m] = Pick(orders[m], indices)]
    BY <1>1
  <2> HIDE DEF indices
  <2>3. Fewer(orders[m], orders'[m])
    BY <2>1, <2>2, FewerPicked
  <2>4. \A j \in DOMAIN orders'[m] : \E i \in indices : orders'[m][j] = orders[m][i]
    BY <2>1, <2>2, FewerPicked
  <2> QED  BY <2>3, <2>4
<1>3. CASE work[m].place = <<>>
  <2>1. stage'[m] = "idle" /\ work'[m] = NoWork
    BY <1>3 DEF Cancelled, Leave, Typed, Exclusive, WorkTyped
  <2> QED  BY <2>1, QuotedIdle, NoWorkTyped
<1>4. CASE work[m].place # <<>>
  <2>1. stage[m] = "cancel" /\ stage'[m] = "place" /\ work' = work /\ mark' = mark
    BY <1>4 DEF Cancelled, Typed, Exclusive
  <2>2. PlaceEdged(m)'
    BY <2>1 DEF PlaceEdged, Quoted
  <2>3. AllKept(m)'
    BY <1>2, <2>1 DEF AllKept, Ids
  <2>4. KeptNear(m)'
    BY <1>2, <2>1 DEF KeptNear, Quoted
  <2> QED  BY <2>2, <2>3, <2>4 DEF Quoted
<1> QED  BY <1>3, <1>4

\* A step of one market leaves the others as they are.
LEMMA OthersQuoted ==
  ASSUME Typed, NEW m \in Markets, NEW n \in Markets \ {m}, Quoted(n),
         \/ Price(m) \/ Fit(m) \/ Cancelled(m) \/ CancelFails(m)
         \/ Posted(m) \/ NotPosted(m) \/ Quarantined(m)
         \/ \E i \in DOMAIN orders[m] : Fill(m, i) \/ OrderGone(m, i)
  PROVE  Quoted(n)'
<1>1. orders'[n] = orders[n] /\ stage'[n] = stage[n] /\ work'[n] = work[n] /\ mark'[n] = mark[n]
  <2>0. DOMAIN orders = Markets /\ DOMAIN work = Markets /\ mark \in [Markets -> 1 .. One - 1]
        /\ stage \in [Markets -> Stages]
    BY DEF Typed, OrdersTyped, WorkTyped, MarkTyped, Exclusive
  <2>1. CASE Price(m)
    BY <2>0, <2>1 DEF Price
  <2>2. CASE Fit(m)
    BY <2>0, <2>2 DEF Fit
  <2>3. CASE Cancelled(m)
    BY <2>0, <2>3 DEF Cancelled, Leave
  <2>4. CASE CancelFails(m)
    BY <2>0, <2>4 DEF CancelFails, Leave
  <2>5. CASE Posted(m) \/ NotPosted(m) \/ Quarantined(m)
    BY <2>0, <2>5 DEF Posted, NotPosted, Quarantined, Leave
  <2>6. CASE \E i \in DOMAIN orders[m] : Fill(m, i) \/ OrderGone(m, i)
    BY <2>0, <2>6 DEF Fill, OrderGone
  <2> QED  BY <2>1, <2>2, <2>3, <2>4, <2>5, <2>6
<1> QED  BY <1>1, FewerSame, QuotedFewer

\* Every step keeps what is planned and what is kept at the fair value of the recompute.
LEMMA QuotedNext ==
  ASSUME Typed, RawEdged, NoBoundedMoves, \A m \in Markets : Quoted(m), [Next]_vars
  PROVE  \A m \in Markets : Quoted(m)'
<1> SUFFICES ASSUME NEW n \in Markets PROVE Quoted(n)'
  OBVIOUS
<1>0. Quoted(n)
  OBVIOUS
<1>1. ASSUME NEW m \in Markets, Price(m) PROVE Quoted(n)'
  <2>1. CASE n = m
    <3>1. PICK in \in Inputs[m] : work' = [work EXCEPT ![m] = [NoWork EXCEPT !.raw =
             ConstructQuotes(P[m], in, Regime(m, in, Held(Values(mark'), m)), pos[m],
                             SizeScale(Held(Values(mark'), m)))]]
      BY <1>1 DEF Price
    <3> DEFINE raw == ConstructQuotes(P[m], in, Regime(m, in, Held(Values(mark'), m)), pos[m],
                             SizeScale(Held(Values(mark'), m)))
    <3> HIDE DEF raw
    <3>2. work'[m] = [NoWork EXCEPT !.raw = raw]
      BY <3>1 DEF raw, Typed, WorkTyped
    <3>3. work'[m].place = <<>>
      BY <3>2 DEF NoWork
    <3>4. stage'[m] = "fit"
      BY <1>1 DEF Price, Typed, Exclusive
    <3> QED  BY <2>1, <3>3, <3>4, QuotedIdle
  <2> QED  BY <1>0, <1>1, <2>1, OthersQuoted
<1>2. ASSUME NEW m \in Markets, Fit(m) PROVE Quoted(n)'
  BY <1>0, <1>2, FitQuoted, OthersQuoted
<1>3. ASSUME NEW m \in Markets, Cancelled(m) PROVE Quoted(n)'
  BY <1>0, <1>3, CancelledQuoted, OthersQuoted
<1>4. ASSUME NEW m \in Markets, CancelFails(m) \/ Posted(m) \/ NotPosted(m) \/ Quarantined(m)
      PROVE  Quoted(n)'
  <2>1. CASE n = m
    <3>1. stage'[m] = "idle" /\ work'[m] = NoWork
      BY <1>4 DEF CancelFails, Posted, NotPosted, Quarantined, Leave, Typed, Exclusive, WorkTyped
    <3> QED  BY <2>1, <3>1, QuotedIdle, NoWorkTyped
  <2> QED  BY <1>0, <1>4, <2>1, OthersQuoted
<1>5. ASSUME NEW m \in Markets, NEW i \in DOMAIN orders[m], Fill(m, i) PROVE Quoted(n)'
  <2>1. CASE n = m
    <3>1. Fewer(orders[m], orders'[m])
      BY <1>5, FillMarks DEF Fewer
    <3>2. stage' = stage /\ work' = work /\ mark' = mark
      BY <1>5 DEF Fill
    <3> QED  BY <1>0, <2>1, <3>1, <3>2, QuotedFewer
  <2> QED  BY <1>0, <1>5, <2>1, OthersQuoted
<1>6. ASSUME NEW m \in Markets, NEW i \in DOMAIN orders[m], OrderGone(m, i) PROVE Quoted(n)'
  <2>1. CASE n = m
    <3> DEFINE indices == {j \in DOMAIN orders[m] : orders[m][j].id \notin {orders[m][i].id}}
    <3>1. orders' = [orders EXCEPT ![m] = Pick(orders[m], indices)]
      BY <1>6 DEF OrderGone, Without
    <3>2. indices \in SUBSET DOMAIN orders[m]
      OBVIOUS
    <3> HIDE DEF indices
    <3>3. Fewer(orders[m], orders'[m])
      BY <3>1, <3>2, FewerPicked
    <3>4. stage' = stage /\ work' = work /\ mark' = mark
      BY <1>6 DEF OrderGone
    <3> QED  BY <1>0, <2>1, <3>3, <3>4, QuotedFewer
  <2> QED  BY <1>0, <1>6, <2>1, OthersQuoted
<1>7. ASSUME UNCHANGED <<orders, stage, work, mark>> PROVE Quoted(n)'
  BY <1>0, <1>7, FewerSame, QuotedFewer
<1>8. ASSUME NEW t \in trades, Trade(t) PROVE Quoted(n)'
  BY <1>7, <1>8 DEF Trade
<1>9. CASE UNCHANGED vars
  BY <1>7, <1>9 DEF vars
<1> QED  BY <1>1, <1>2, <1>3, <1>4, <1>5, <1>6, <1>8, <1>9 DEF Next

\* Before the first recompute nothing is planned.
LEMMA QuotedInit == Init => \A m \in Markets : Quoted(m)
<1> SUFFICES ASSUME Init, NEW m \in Markets PROVE Quoted(m)
  OBVIOUS
<1>1. orders[m] = <<>> /\ stage[m] = "idle" /\ work[m].place = <<>>
  BY NoWorkTyped DEF Init
<1>2. PlaceEdged(m)
  <2>1. \A S : <<>> \in Seq(S)
    OBVIOUS
  <2> QED  BY <1>1, <2>1 DEF PlaceEdged
<1> QED  BY <1>1, <1>2 DEF Quoted, KeptNear, AllKept

\* The planned quotes keep their edge at the mark they were computed for.
LEMMA EdgeFromQuoted ==
  ASSUME Typed, \A m \in Markets : Quoted(m)
  PROVE  EdgeKept
<1> SUFFICES ASSUME NEW m \in Markets, NEW i \in DOMAIN work[m].place,
                    work[m].place[i].side = "BUY"
             PROVE  work[m].place[i].price
                      <= Max({Fair(m, work[m].place[i].tok) - P[m].min_edge * P[m].tick, P[m].tick})
  BY DEF EdgeKept
<1>1. work[m].place \in Seq(Edged(P[m], mark[m]))
  BY DEF Quoted, PlaceEdged
<1>2. work[m].place[i] \in Edged(P[m], mark[m])
  BY <1>1
<1> QED  BY <1>2 DEF Edged, Dearest, FairOf, Fair

\* EdgeKept for any markets, books and estimates when no order is moved in bounded steps
\* (a bounded move may stop at a price that the new fair value is below).
THEOREM EdgeHolds ==
  ASSUME NoBoundedMoves
  PROVE  Spec => []EdgeKept
<1> DEFINE Inv == Typed /\ RawEdged /\ \A m \in Markets : Quoted(m)
<1>1. Init => Inv
  BY TypedInit, RawInit, QuotedInit
<1>2. Inv /\ [Next]_vars => Inv'
  <2> SUFFICES ASSUME Inv, [Next]_vars PROVE Inv'
    OBVIOUS
  <2>1. Typed' /\ RawEdged'
    BY TypedNext, RawKept
  <2>2. \A m \in Markets : Quoted(m)'
    BY QuotedNext
  <2> QED  BY <2>1, <2>2
<1>3. Inv => EdgeKept
  BY EdgeFromQuoted
<1> QED  BY <1>1, <1>2, <1>3, PTL DEF Spec

-------------------------------------------------------------------------------
(* Pairs *)

\* A market keeps an order only if it is closer to its target than the target is to the
\* fair value, and a whole is more than the lowest price and a bid within the tolerance of it.
TightReprice ==
  \A m \in Markets : P[m].reprice < P[m].min_edge /\ (2 + P[m].reprice) * P[m].tick < One

\* The pairs of one market.
Locked(m) ==
  \A i, j \in DOMAIN orders[m] :
    /\ orders[m][i].side = "BUY" /\ orders[m][i].tok = "yes"
    /\ orders[m][j].side = "BUY" /\ orders[m][j].tok = "no"
    => orders[m][i].price + orders[m][j].price < One

\* Two bids of one fair value, one with its edge and one within the tolerance, cost less
\* than a whole.
LEMMA PairBelowOne ==
  ASSUME NEW fv \in 1 .. One - 1, NEW e \in Nat, NEW r \in Nat, NEW t \in Nat \ {0},
         r < e, (2 + r) * t < One
  PROVE  Max({fv - e * t, t}) + Max({(One - fv) - e * t, t}) + r * t < One
<1>a. \A k, l \in Int : Max({k, l}) = IF k >= l THEN k ELSE l
  BY MaxOfTwo
<1>b. t \in Int
  OBVIOUS
<1> DEFINE x == e * t
           y == r * t
           a == fv - x
           b == (One - fv) - x
<1>1. x \in Nat /\ y \in Nat /\ y + t <= x /\ 2 * t + y < One /\ One \in Nat
  <2>1. One \in Nat
    BY OneAssumption
  <2>2. x \in Nat /\ y \in Nat
    OBVIOUS
  <2>3. (r + 1) * t <= e * t
    <3> DEFINE k == r + 1
    <3>1. k \in Nat /\ k <= e
      OBVIOUS
    <3> HIDE DEF k
    <3>2. k * t <= e * t
      BY <3>1
    <3> QED  BY <3>2 DEF k
  <2>4. (r + 1) * t = r * t + t /\ (2 + r) * t = 2 * t + r * t
    OBVIOUS
  <2> QED  BY <2>1, <2>2, <2>3, <2>4
<1> HIDE DEF x, y
<1>2. a \in Int /\ b \in Int /\ a = fv - x /\ b = (One - fv) - x
  BY <1>1
<1> HIDE DEF a, b
<1>3. Max({a, t}) = IF a >= t THEN a ELSE t
  BY <1>2, <1>a, <1>b, Zenon
<1>4. Max({b, t}) = IF b >= t THEN b ELSE t
  BY <1>2, <1>a, <1>b, Zenon
<1>5. Max({a, t}) + Max({b, t}) + y < One
  BY <1>1, <1>2, <1>3, <1>4
<1> QED  BY <1>5 DEF a, b, x, y

\* Only Posted adds orders.
LEMMA OnlyPosted ==
  ASSUME Typed, [Next]_vars, NEW n \in Markets
  PROVE  Fewer(orders[n], orders'[n]) \/ Posted(n)
<1>0. DOMAIN orders = Markets
  BY DEF Typed, OrdersTyped
<1>1. ASSUME orders'[n] = orders[n] \/ orders'[n] = <<>> PROVE Fewer(orders[n], orders'[n])
  BY <1>1, FewerSame
<1>2. ASSUME NEW m \in Markets, NEW indices \in SUBSET DOMAIN orders[m],
             orders' = [orders EXCEPT ![m] = Pick(orders[m], indices)]
      PROVE  Fewer(orders[n], orders'[n])
  <2>1. CASE n = m
    BY <1>2, <2>1, FewerPicked
  <2>2. CASE n # m
    <3>1. orders'[n] = orders[n]
      BY <1>0, <1>2, <2>2
    <3> QED  BY <1>1, <3>1
  <2> QED  BY <2>1, <2>2
<1>3. ASSUME NEW m \in Markets, Price(m) \/ Fit(m) \/ NotPosted(m) \/ Quarantined(m)
      PROVE  Fewer(orders[n], orders'[n])
  <2>1. orders' = orders \/ orders' = [orders EXCEPT ![m] = <<>>]
    BY <1>3 DEF Price, Fit, NotPosted, Quarantined
  <2>2. orders'[n] = orders[n] \/ orders'[n] = <<>>
    BY <1>0, <2>1
  <2> QED  BY <1>1, <2>2
<1>4. ASSUME NEW m \in Markets, Cancelled(m) PROVE Fewer(orders[n], orders'[n])
  <2> DEFINE indices == {i \in DOMAIN orders[m] : orders[m][i].id \in work[m].keep}
  <2>1. orders' = [orders EXCEPT ![m] = Pick(orders[m], indices)]
    BY <1>4 DEF Cancelled
  <2>2. indices \in SUBSET DOMAIN orders[m]
    OBVIOUS
  <2> HIDE DEF indices
  <2> QED  BY <1>2, <2>1, <2>2
<1>5. ASSUME NEW m \in Markets, CancelFails(m) PROVE Fewer(orders[n], orders'[n])
  <2>1. PICK gone : orders' = [orders EXCEPT ![m] =
                  Pick(@, {i \in DOMAIN @ : ~@[i].filled /\ @[i].id \notin gone})]
    BY <1>5 DEF CancelFails
  <2> DEFINE indices == {i \in DOMAIN orders[m] : ~orders[m][i].filled /\ orders[m][i].id \notin gone}
  <2>2. orders' = [orders EXCEPT ![m] = Pick(orders[m], indices)]
    BY <2>1
  <2>3. indices \in SUBSET DOMAIN orders[m]
    OBVIOUS
  <2> HIDE DEF indices
  <2> QED  BY <1>2, <2>2, <2>3
<1>6. ASSUME NEW m \in Markets, Posted(m) PROVE Fewer(orders[n], orders'[n]) \/ Posted(n)
  <2>1. CASE n # m
    <3>1. orders'[n] = orders[n]
      BY <1>0, <1>6, <2>1 DEF Posted
    <3> QED  BY <1>1, <3>1
  <2> QED  BY <1>6, <2>1
<1>7. ASSUME NEW m \in Markets, NEW i \in DOMAIN orders[m], Fill(m, i)
      PROVE  Fewer(orders[n], orders'[n])
  <2>1. CASE n = m
    BY <1>7, <2>1, FillMarks DEF Fewer
  <2>2. CASE n # m
    <3>1. orders'[n] = orders[n]
      BY <1>7, <2>2, FillMarks
    <3> QED  BY <1>1, <3>1
  <2> QED  BY <2>1, <2>2
<1>8. ASSUME NEW m \in Markets, NEW i \in DOMAIN orders[m], OrderGone(m, i)
      PROVE  Fewer(orders[n], orders'[n])
  <2> DEFINE indices == {j \in DOMAIN orders[m] : orders[m][j].id \notin {orders[m][i].id}}
  <2>1. orders' = [orders EXCEPT ![m] = Pick(orders[m], indices)]
    BY <1>8 DEF OrderGone, Without
  <2>2. indices \in SUBSET DOMAIN orders[m]
    OBVIOUS
  <2> HIDE DEF indices
  <2> QED  BY <1>2, <2>1, <2>2
<1>9. ASSUME NEW t \in trades, Trade(t) PROVE Fewer(orders[n], orders'[n])
  BY <1>1, <1>9 DEF Trade
<1>10. CASE UNCHANGED vars
  BY <1>1, <1>10 DEF vars
<1> QED  BY <1>3, <1>4, <1>5, <1>6, <1>7, <1>8, <1>9, <1>10 DEF Next

\* Orders that go leave the other pairs as they are.
LEMMA FewerLocked ==
  ASSUME NEW m, Locked(m), Fewer(orders[m], orders'[m])
  PROVE  Locked(m)'
<1> SUFFICES ASSUME NEW i \in DOMAIN orders'[m], NEW j \in DOMAIN orders'[m],
                    orders'[m][i].side = "BUY", orders'[m][i].tok = "yes",
                    orders'[m][j].side = "BUY", orders'[m][j].tok = "no"
             PROVE  orders'[m][i].price + orders'[m][j].price < One
  BY DEF Locked
<1>1. PICK k \in DOMAIN orders[m] : /\ orders'[m][i].tok = orders[m][k].tok
                                    /\ orders'[m][i].side = orders[m][k].side
                                    /\ orders'[m][i].price = orders[m][k].price
  BY DEF Fewer
<1>2. PICK l \in DOMAIN orders[m] : /\ orders'[m][j].tok = orders[m][l].tok
                                    /\ orders'[m][j].side = orders[m][l].side
                                    /\ orders'[m][j].price = orders[m][l].price
  BY DEF Fewer
<1> QED  BY <1>1, <1>2 DEF Locked

\* A placed quote has its edge below the fair value at which the kept orders are near, so
\* that no pair of a new and a kept order, nor one of two new ones, costs a whole.
LEMMA PostedLocked ==
  ASSUME Typed, TightReprice, NEW m \in Markets, Quoted(m), Locked(m), Posted(m)
  PROVE  Locked(m)'
<1> DEFINE w == WithPlaced(m)
           place == work[m].place
           s == orders[m]
           fv == mark[m]
           e == P[m].min_edge
           r == P[m].reprice
           t == P[m].tick
           da == Max({fv - e * t, t})
           db == Max({(One - fv) - e * t, t})
           y == r * t
<1>0. /\ P[m] \in Profile /\ place \in Seq(Sound(P[m])) /\ place \in Seq(Edged(P[m], fv))
      /\ fv \in 1 .. One - 1 /\ \A i \in DOMAIN s : s[i] \in Resting(P[m])
  BY Settings DEF Typed, WorkTyped, Working, Quoted, PlaceEdged, MarkTyped, OrdersTyped
<1>1. \A i \in DOMAIN w :
         \/ i \in DOMAIN s /\ w[i] = s[i]
         \/ \E j \in DOMAIN place :
              w[i].tok = place[j].tok /\ w[i].side = place[j].side /\ w[i].price = place[j].price
  BY <1>0, OrdersPlaced DEF Typed
<1>2. orders'[m] = w /\ stage[m] = "place"
  BY DEF Posted, Typed, OrdersTyped
<1>3. e \in Nat /\ r \in Nat /\ t \in Nat \ {0} /\ r < e /\ (2 + r) * t < One /\ One \in Int
  BY Settings, Ticks DEF Profile, TightReprice
<1>4. \A i \in DOMAIN s : s[i].price \in Int
  BY <1>0, RestingCost
<1>5. \A i \in DOMAIN s : s[i].side = "BUY" =>
         /\ s[i].tok = "yes" => s[i].price <= da + y
         /\ s[i].tok = "no" => s[i].price <= db + y
  <2>1. \A i \in DOMAIN s : s[i].id \in work[m].keep
    BY <1>2 DEF Quoted, AllKept, Ids
  <2>2. \A i \in DOMAIN s : Near(P[m], fv, s[i])
    BY <1>2, <2>1 DEF Quoted, KeptNear
  <2> QED  BY <2>2 DEF Near, Dearest, FairOf
<1>6. \A i \in DOMAIN place : place[i].price \in Int
  <2>1. \A i \in DOMAIN place : place[i] \in Sound(P[m])
    BY <1>0
  <2> QED  BY <1>0, <2>1, SoundCost
<1>7. \A i \in DOMAIN place : place[i].side = "BUY" =>
         /\ place[i].tok = "yes" => place[i].price <= da
         /\ place[i].tok = "no" => place[i].price <= db
  <2>1. \A i \in DOMAIN place : place[i] \in Edged(P[m], fv)
    BY <1>0
  <2> QED  BY <2>1 DEF Edged, Dearest, FairOf
<1> HIDE DEF w, place, s, fv, e, r, t
<1>8. da + db + y < One
  BY <1>0, <1>3, PairBelowOne
<1>9. da \in Int /\ db \in Int /\ y \in Nat
  <2>1. fv - e * t \in Int /\ (One - fv) - e * t \in Int /\ t \in Int /\ y \in Nat
    BY <1>0, <1>3
  <2>2. \A a, b \in Int : Max({a, b}) \in Int
    BY MaxOfTwo
  <2> QED  BY <2>1, <2>2, Zenon
<1> HIDE DEF da, db, y
<1>10. ASSUME NEW i \in DOMAIN w, NEW j \in DOMAIN w, w[i].side = "BUY", w[i].tok = "yes",
              w[j].side = "BUY", w[j].tok = "no"
       PROVE  w[i].price + w[j].price < One
  <2>1. CASE i \in DOMAIN s /\ j \in DOMAIN s /\ w[i] = s[i] /\ w[j] = s[j]
    BY <1>10, <2>1 DEF Locked, s
  <2>2. ASSUME NEW k \in DOMAIN place, w[i].tok = place[k].tok, w[i].side = place[k].side,
               w[i].price = place[k].price
        PROVE  w[i].price + w[j].price < One
    <3>1. w[i].price \in Int /\ w[i].price <= da
      BY <1>6, <1>7, <1>10, <2>2
    <3>2. w[j].price \in Int /\ (w[j].price <= db + y \/ w[j].price <= db)
      BY <1>1, <1>4, <1>5, <1>6, <1>7, <1>10
    <3> QED  BY <1>3, <1>8, <1>9, <3>1, <3>2
  <2>3. ASSUME NEW k \in DOMAIN place, w[j].tok = place[k].tok, w[j].side = place[k].side,
               w[j].price = place[k].price
        PROVE  w[i].price + w[j].price < One
    <3>1. w[j].price \in Int /\ w[j].price <= db
      BY <1>6, <1>7, <1>10, <2>3
    <3>2. w[i].price \in Int /\ (w[i].price <= da + y \/ w[i].price <= da)
      BY <1>1, <1>4, <1>5, <1>6, <1>7, <1>10
    <3> QED  BY <1>3, <1>8, <1>9, <3>1, <3>2
  <2> QED  BY <1>1, <2>1, <2>2, <2>3
<1> QED  BY <1>2, <1>10 DEF Locked

\* PairLocks for any markets, books and estimates when no order is moved in bounded steps and
\* the tolerance with which one is kept is less than its edge.
THEOREM PairsHold ==
  ASSUME NoBoundedMoves, TightReprice
  PROVE  Spec => []PairLocks
<1> DEFINE Inv == /\ Typed /\ RawEdged
                  /\ \A m \in Markets : Quoted(m) /\ Locked(m)
<1>1. Init => Inv
  <2>1. Init => \A m \in Markets : Locked(m)
    BY DEF Init, Locked
  <2> QED  BY <2>1, TypedInit, RawInit, QuotedInit
<1>2. Inv /\ [Next]_vars => Inv'
  <2> SUFFICES ASSUME Inv, [Next]_vars PROVE Inv'
    OBVIOUS
  <2>1. Typed' /\ RawEdged'
    BY TypedNext, RawKept
  <2>2. \A m \in Markets : Quoted(m)'
    BY QuotedNext
  <2>3. \A m \in Markets : Locked(m)'
    BY OnlyPosted, FewerLocked, PostedLocked
  <2> QED  BY <2>1, <2>2, <2>3
<1>3. Inv => PairLocks
  BY DEF Locked, PairLocks
<1> QED  BY <1>1, <1>2, <1>3, PTL DEF Spec

-------------------------------------------------------------------------------
(* Reservations *)

\* An order is kept only if it is exactly what is wanted.
NoTolerances ==
  \A m \in Markets : /\ P[m].reprice = 0 /\ P[m].resize = 0 /\ P[m].max_reprice = 0
                     /\ P[m].min_order > 0

\* What is deployed if the kept orders stay, the planned ones are placed and all fill.
Claim(m) ==
  [n \in Markets |-> work[m].values[n] +
     IF n = m THEN Spent(orders[m], work[m].keep) + Notional(work[m].place) ELSE Buys[n]]

\* The numbers of all markets are within the caps of one of them.
Capped(f, m) == f[m] <= MaxMarket /\ EventCost(f, m) <= MaxEvent /\ SumFunction(f) <= MaxTotal

\* The claim of the recompute that reserves exposure is within the caps.
Booked(m) ==
  stage[m] \in {"cancel", "place"} /\ Notional(work[m].place) > 0 => Capped(Claim(m), m)

\* What is within the caps is within them when each market has less.
LEMMA CappedLess ==
  ASSUME NEW m \in Markets, NEW f, NEW g, DOMAIN f = Markets, DOMAIN g = Markets,
         \A n \in Markets : f[n] \in Int /\ g[n] \in Int /\ g[n] <= f[n], Capped(f, m)
  PROVE  Capped(g, m)
<1>1. IsFiniteSet(Markets)
  BY Settings
<1>2. \A T \in SUBSET Markets : SumFunctionOnSet(g, T) <= SumFunctionOnSet(f, T)
  <2> SUFFICES ASSUME NEW T \in SUBSET Markets
               PROVE  SumFunctionOnSet(g, T) <= SumFunctionOnSet(f, T)
    OBVIOUS
  <2>1. IsFiniteSet(T) /\ \A n \in T : f[n] \in Int /\ g[n] \in Int /\ g[n] <= f[n]
    BY <1>1, FS_Subset
  <2> QED  BY <2>1, SumBelow
<1>3. /\ EventCost(f, m) \in Int /\ SumFunction(f) \in Int
      /\ EventCost(g, m) \in Int /\ SumFunction(g) \in Int
  BY TotalsTyped
<1>4. EventCost(g, m) <= EventCost(f, m) /\ SumFunction(g) <= SumFunction(f)
  <2>1. {n \in Markets : EventOf[n] = EventOf[m] /\ EventOf[m] # NoEvent} \in SUBSET Markets
        /\ Markets \in SUBSET Markets
    OBVIOUS
  <2> QED  BY <1>2, <2>1 DEF EventCost, SumFunction
<1>5. MaxMarket \in Int /\ MaxEvent \in Int /\ MaxTotal \in Int
  BY Settings
<1> DEFINE ef == EventCost(f, m)
           eg == EventCost(g, m)
           sf == SumFunction(f)
           sg == SumFunction(g)
<1>6. ef <= MaxEvent /\ sf <= MaxTotal /\ f[m] <= MaxMarket
  BY DEF Capped
<1>7. eg <= MaxEvent /\ sg <= MaxTotal /\ g[m] <= MaxMarket
  <2>1. ef \in Int /\ eg \in Int /\ sf \in Int /\ sg \in Int /\ eg <= ef /\ sg <= sf
    BY <1>3, <1>4
  <2> HIDE DEF ef, eg, sf, sg
  <2> QED  BY <1>5, <1>6, <2>1
<1> QED  BY <1>7 DEF Capped

\* What resting orders cost: natural numbers, a part of them no more than all.
LEMMA RestingCosts ==
  ASSUME NEW p \in Profile, NEW seq \in Seq(Resting(p))
  PROVE  /\ \A i \in DOMAIN seq : Cost(seq[i]) \in Nat
         /\ Notional(seq) \in Nat
         /\ \A keep : Spent(seq, keep) \in Nat /\ Spent(seq, keep) <= Notional(seq)
<1>1. \A i \in DOMAIN seq : Cost(seq[i]) \in Nat
  <2>1. \A i \in DOMAIN seq : seq[i] \in Resting(p)
    OBVIOUS
  <2> QED  BY <2>1, RestingCost
<1>2. \A keep : KeptAt(seq, keep) \in SUBSET DOMAIN seq
  BY DEF KeptAt
<1>3. /\ Notional(seq) \in Nat
      /\ \A T \in SUBSET DOMAIN seq :
           /\ SumFunctionOnSet(Costs(seq), T) \in Nat
           /\ SumFunctionOnSet(Costs(seq), T) <= Notional(seq)
  BY <1>1, NotionalIs
<1> QED  BY <1>1, <1>2, <1>3 DEF Spent

\* The same for the orders of a market.
LEMMA CostsTyped ==
  ASSUME OrdersTyped, NEW m \in Markets
  PROVE  /\ \A i \in DOMAIN orders[m] : Cost(orders[m][i]) \in Nat
         /\ Notional(orders[m]) \in Nat /\ Buys[m] = Notional(orders[m])
         /\ \A keep : Spent(orders[m], keep) \in Nat /\ Spent(orders[m], keep) <= Notional(orders[m])
<1>1. orders[m] \in Seq(Resting(P[m])) /\ P[m] \in Profile
  BY Settings DEF OrdersTyped
<1> QED  BY <1>1, RestingCosts DEF Buys

\* The BUYs of a market cost no more than they did, the kept ones neither.
Shrunk(old, new) ==
  /\ Notional(new) <= Notional(old)
  /\ \A keep : Spent(new, keep) <= Spent(old, keep)

\* Orders that are picked cost no more.
LEMMA ShrunkPicked ==
  ASSUME Typed, NEW m \in Markets, NEW indices \in SUBSET DOMAIN orders[m]
  PROVE  Shrunk(orders[m], Pick(orders[m], indices))
<1> DEFINE s == orders[m]
           t == Pick(s, indices)
           g == Costs(s)
<1>1. s \in Seq(Resting(P[m])) /\ \A i \in DOMAIN s : Cost(s[i]) \in Nat
  BY CostsTyped DEF Typed, OrdersTyped
<1>2. \A i \in DOMAIN s : Cost(s[i]) \in Int
  BY <1>1
<1> HIDE DEF s
<1>3. Notional(t) <= Notional(s)
  <2>1. Notional(t) = SumFunctionOnSet(g, indices)
    BY <1>1, <1>2, NotionalPicked DEF s
  <2>2. SumFunctionOnSet(g, indices) <= Notional(s)
    BY <1>1, NotionalIs DEF s
  <2> QED  BY <2>1, <2>2
<1>4. ASSUME NEW keep PROVE Spent(t, keep) <= Spent(s, keep)
  <2> DEFINE K == {i \in indices : s[i].id \in keep}
             W == KeptAt(s, keep)
  <2>1. Spent(t, keep) = SumFunctionOnSet(g, K)
    BY <1>1, <1>2, SpentPicked DEF s
  <2>2. K \in SUBSET W /\ W \in SUBSET DOMAIN s
    BY DEF KeptAt, s
  <2>3. IsFiniteSet(W) /\ \A i \in W : g[i] \in Nat
    <3>1. IsFiniteSet(DOMAIN s)
      BY <1>1, NotionalIs
    <3>2. \A i \in W : g[i] = Cost(s[i])
      BY <2>2 DEF Costs
    <3> HIDE DEF W, g
    <3> QED  BY <1>1, <2>2, <3>1, <3>2, FS_Subset
  <2>4. SumFunctionOnSet(g, K) <= SumFunctionOnSet(g, W)
    <3> HIDE DEF K, W, g
    <3> QED  BY <2>2, <2>3, SumPart
  <2> QED  BY <2>1, <2>4 DEF Spent
<1> QED  BY <1>3, <1>4 DEF Shrunk, s

\* Orders that stay cost no more.
LEMMA ShrunkSame ==
  ASSUME Typed, NEW m \in Markets
  PROVE  Shrunk(orders[m], orders[m])
<1>1. Notional(orders[m]) \in Nat /\ \A keep : Spent(orders[m], keep) \in Nat
  BY CostsTyped DEF Typed
<1> QED  BY <1>1 DEF Shrunk

\* A fill changes no cost until its order goes.
LEMMA ShrunkFilled ==
  ASSUME Typed, NEW m \in Markets, NEW i \in DOMAIN orders[m], Fill(m, i)
  PROVE  Shrunk(orders[m], orders'[m])
<1> DEFINE s == orders[m]
           t == orders'[m]
<1>1. DOMAIN t = DOMAIN s /\ \A j \in DOMAIN s : t[j].id = s[j].id /\ Cost(t[j]) = Cost(s[j])
  BY FillMarks DEF Cost
<1> HIDE DEF s, t
<1>2. Costs(t) = Costs(s)
  BY <1>1 DEF Costs
<1>3. \A keep : KeptAt(t, keep) = KeptAt(s, keep)
  BY <1>1 DEF KeptAt
<1>4. Notional(t) = Notional(s)
  BY <1>2 DEF Notional, Costs
<1>5. \A keep : Spent(t, keep) = Spent(s, keep)
  BY <1>2, <1>3 DEF Spent
<1> QED  BY <1>4, <1>5, ShrunkSame DEF Shrunk, s, t

\* A claim that is open stays within the caps while orders only go.
LEMMA BookedKept ==
  ASSUME Typed, Typed', NEW m \in Markets, Booked(m), work'[m] = work[m],
         stage'[m] \in {"cancel", "place"} => stage[m] \in {"cancel", "place"},
         \A n \in Markets : Shrunk(orders[n], orders'[n])
  PROVE  Booked(m)'
<1> SUFFICES ASSUME stage[m] \in {"cancel", "place"}, Notional(work[m].place) > 0
             PROVE  Capped(Claim(m)', m)
  BY DEF Booked, Capped, EventCost
<1> DEFINE f == Claim(m)
           g == Claim(m)'
           v == work[m].values
           place == Notional(work[m].place)
           k == Spent(orders[m], work[m].keep)
           l == Spent(orders'[m], work[m].keep)
<1>1. Capped(f, m)
  BY DEF Booked
<1>2. ASSUME NEW n \in Markets
      PROVE  /\ Notional(orders[n]) \in Nat /\ Notional(orders'[n]) \in Nat
             /\ Notional(orders'[n]) <= Notional(orders[n])
             /\ \A keep : /\ Spent(orders[n], keep) \in Nat /\ Spent(orders'[n], keep) \in Nat
                          /\ Spent(orders'[n], keep) <= Spent(orders[n], keep)
  <2>1. P[n] \in Profile /\ orders[n] \in Seq(Resting(P[n])) /\ orders'[n] \in Seq(Resting(P[n]))
    BY Settings DEF Typed, OrdersTyped
  <2> QED  BY <2>1, RestingCosts DEF Shrunk
<1>3. place \in Int /\ v \in [Markets -> Int]
  <2>1. work[m].place \in Seq(Sound(P[m])) /\ P[m] \in Profile /\ v \in [Markets -> Int]
    BY Settings DEF Typed, WorkTyped, Working
  <2>2. \A i \in DOMAIN work[m].place : Cost(work[m].place[i]) \in Nat
    BY <2>1, SoundCost
  <2>3. place \in Nat
    BY <2>1, <2>2, NotionalIs
  <2> QED  BY <2>1, <2>3
<1>4. \A n \in Markets : f[n] = v[n] + IF n = m THEN k + place ELSE Notional(orders[n])
  BY DEF Claim, Buys
<1>5. \A n \in Markets : g[n] = v[n] + IF n = m THEN l + place ELSE Notional(orders'[n])
  BY DEF Claim, Buys
<1>6. k \in Int /\ l \in Int /\ l <= k
  BY <1>2
<1>7. DOMAIN f = Markets /\ DOMAIN g = Markets
  BY DEF Claim
<1> HIDE DEF f, g, v, place, k, l
<1>8. \A n \in Markets : f[n] \in Int /\ g[n] \in Int /\ g[n] <= f[n]
  <2> SUFFICES ASSUME NEW n \in Markets PROVE f[n] \in Int /\ g[n] \in Int /\ g[n] <= f[n]
    OBVIOUS
  <2>1. v[n] \in Int
    BY <1>3
  <2>2. CASE n = m
    BY <1>3, <1>4, <1>5, <1>6, <2>1, <2>2
  <2>3. CASE n # m
    <3> DEFINE a == Notional(orders[n])
               b == Notional(orders'[n])
    <3>1. a \in Nat /\ b \in Nat /\ b <= a /\ f[n] = v[n] + a /\ g[n] = v[n] + b
      BY <1>2, <1>4, <1>5, <2>3
    <3> HIDE DEF a, b
    <3> QED  BY <2>1, <3>1
  <2> QED  BY <2>2, <2>3
<1>9. Capped(g, m)
  BY <1>1, <1>7, <1>8, CappedLess
<1> QED  BY <1>9 DEF g

\* Adding to one market what its room allows stays within the caps.
LEMMA RoomCapped ==
  ASSUME NEW m \in Markets, NEW f, NEW g, DOMAIN f = Markets, DOMAIN g = Markets,
         \A n \in Markets : f[n] \in Int /\ g[n] \in Int,
         NEW x \in Int, g[m] = f[m] + x, \A n \in Markets \ {m} : g[n] = f[n],
         f[m] + x <= MaxMarket, SumFunction(f) + x <= MaxTotal, EventCost(f, m) + x <= MaxEvent
  PROVE  Capped(g, m)
<1>1. IsFiniteSet(Markets) /\ MaxEvent \in Nat
  BY Settings
<1>2. \A T \in SUBSET Markets : m \in T =>
        SumFunctionOnSet(g, T) = SumFunctionOnSet(f, T) + x
  <2> SUFFICES ASSUME NEW T \in SUBSET Markets, m \in T
               PROVE  SumFunctionOnSet(g, T) = SumFunctionOnSet(f, T) + x
    OBVIOUS
  <2>1. IsFiniteSet(T) /\ (\A n \in T : f[n] \in Int /\ g[n] \in Int)
        /\ \A n \in T \ {m} : g[n] = f[n]
    BY <1>1, FS_Subset
  <2>2. SumFunctionOnSet(g, T) = SumFunctionOnSet(f, T) - f[m] + g[m]
    BY <2>1, SumChanged
  <2> DEFINE a == SumFunctionOnSet(f, T)
             b == SumFunctionOnSet(g, T)
  <2>3. a \in Int /\ b = a - f[m] + g[m] /\ f[m] \in Int
    <3>1. T \in SUBSET T
      OBVIOUS
    <3>2. \A n \in T : f[n] \in Int
      BY <2>1
    <3>3. SumFunctionOnSet(f, T) \in Int
      BY <2>1, <3>1, <3>2, SumTyped
    <3> QED  BY <2>2, <3>3
  <2> HIDE DEF a, b
  <2>4. b = a + x
    BY <2>3
  <2> QED  BY <2>4 DEF a, b
<1> DEFINE E == {n \in Markets : EventOf[n] = EventOf[m] /\ EventOf[m] # NoEvent}
<1>3. E \in SUBSET Markets /\ Markets \in SUBSET Markets /\ (E = {} \/ m \in E)
  OBVIOUS
<1>4. EventCost(g, m) = SumFunctionOnSet(g, E) /\ EventCost(f, m) = SumFunctionOnSet(f, E)
  BY DEF EventCost
<1> HIDE DEF E
<1>5. EventCost(g, m) <= MaxEvent
  <2>1. CASE E = {}
    <3>1. EventCost(g, m) = 0
      BY <1>4, <2>1, SumAny
    <3> QED  BY <1>1, <3>1
  <2>2. CASE m \in E
    <3>1. EventCost(g, m) = EventCost(f, m) + x
      BY <1>2, <1>3, <1>4, <2>2
    <3> QED  BY <3>1
  <2> QED  BY <1>3, <2>1, <2>2
<1>6. SumFunction(g) = SumFunction(f) + x
  BY <1>2, <1>3 DEF SumFunction
<1> QED  BY <1>5, <1>6 DEF Capped

\* Fit: what is kept and placed costs exactly the target, which fits into the room.
LEMMA FitBooked ==
  ASSUME Typed, RawEdged, NoTolerances, NEW m \in Markets, Fit(m)
  PROVE  Booked(m)'
<1> SUFFICES ASSUME stage'[m] \in {"cancel", "place"}, Notional(work'[m].place) > 0
             PROVE  Capped(Claim(m)', m)
  BY DEF Booked, Capped, EventCost
<1> DEFINE target == FitToHeadroom(work[m].raw, Room(m), P[m])
           plan == Reconcile(target, orders[m], P[m])
           new == [raw |-> work[m].raw, keep |-> plan.keep, place |-> plan.place,
                   values |-> Values(mark), buys |-> [Buys EXCEPT ![m] = 0]]
           f == [n \in Markets |-> Values(mark)[n] + IF n = m THEN 0 ELSE Buys[n]]
           g == Claim(m)'
           x == Notional(target)
<1>1. PICK next \in {"idle", "cancel", "place"} :
        /\ stage' = [stage EXCEPT ![m] = next]
        /\ next # "idle" => work' = [work EXCEPT ![m] = new]
  BY FitDoes, Zenon
<1>2. next # "idle"
  BY <1>1 DEF Typed, Exclusive
<1>3. work'[m] = new
  <2> HIDE DEF new
  <2> QED  BY <1>1, <1>2 DEF Typed, WorkTyped
<1>4. work'[m].place = plan.place /\ work'[m].keep = plan.keep /\ work'[m].values = Values(mark)
  <2>1. new.place = plan.place /\ new.keep = plan.keep /\ new.values = Values(mark)
    OBVIOUS
  <2> HIDE DEF new, plan
  <2> QED  BY <1>3, <2>1
<1>5. orders' = orders /\ Buys' = Buys
  BY DEF Fit, Buys
<1>6. /\ P[m] \in Profile /\ P[m].max_reprice = 0 /\ P[m].reprice = 0 /\ P[m].resize = 0
      /\ P[m].min_order > 0 /\ orders[m] \in Seq(Resting(P[m])) /\ Distinct(orders[m])
      /\ target \in Seq(Sound(P[m])) /\ x \in Nat /\ x <= Room(m)
  BY TargetIs, Settings DEF NoTolerances, Typed, OrdersTyped
<1> HIDE DEF target
<1>7. Notional(plan.place) + Spent(orders[m], plan.keep) = x
  BY <1>6, ReconciledExact
<1>8. Notional(plan.place) \in Nat /\ Spent(orders[m], plan.keep) \in Nat
  <2>1. plan.place \in Seq(Sound(P[m]))
    BY <1>6, Reconciled DEF Plan
  <2>2. \A i \in DOMAIN plan.place : Cost(plan.place[i]) \in Nat
    BY <1>6, <2>1, SoundCost
  <2>3. Notional(plan.place) \in Nat
    BY <2>1, <2>2, NotionalIs
  <2> QED  BY <1>6, <2>3, RestingCosts
<1> HIDE DEF plan, new
<1>9. /\ Room(m) \in Nat
      /\ Room(m) > 0 => /\ f[m] + Room(m) <= MaxMarket
                        /\ SumFunction(f) + Room(m) <= MaxTotal
                        /\ EventCost(f, m) + Room(m) <= MaxEvent
  BY RoomIs DEF Typed
<1>10. Values(mark) \in [Markets -> Nat] /\ Buys \in [Markets -> Nat]
  BY ValuesTyped, BuysTyped DEF Typed, MarkTyped
<1>11. DOMAIN f = Markets /\ \A n \in Markets : f[n] \in Int
  BY <1>10
<1>12. /\ DOMAIN g = Markets
       /\ \A n \in Markets : g[n] = Values(mark)[n] + IF n = m
            THEN Spent(orders[m], plan.keep) + Notional(plan.place) ELSE Buys[n]
  BY <1>4, <1>5 DEF Claim
<1>13. g[m] = f[m] + x /\ \A n \in Markets \ {m} : g[n] = f[n]
  <2>1. \A n \in Markets \ {m} : g[n] = f[n]
    BY <1>12
  <2>2. f[m] = Values(mark)[m] + 0 /\ Values(mark)[m] \in Nat
    BY <1>10
  <2>3. g[m] = Values(mark)[m] + (Spent(orders[m], plan.keep) + Notional(plan.place))
    BY <1>12
  <2> DEFINE a == Spent(orders[m], plan.keep)
             b == Notional(plan.place)
             v == Values(mark)[m]
  <2>4. a \in Nat /\ b \in Nat /\ v \in Nat /\ b + a = x /\ g[m] = v + (a + b) /\ f[m] = v + 0
    BY <1>7, <1>8, <2>2, <2>3
  <2> HIDE DEF a, b, v, f, g, x
  <2>5. g[m] = f[m] + x
    BY <2>4
  <2> QED  BY <2>1, <2>5 DEF f, g
<1> HIDE DEF f, g
<1>14. \A n \in Markets : g[n] \in Int
  <2>1. g[m] \in Int
    BY <1>6, <1>11, <1>13
  <2> QED  BY <1>11, <1>13, <2>1
<1>15. x > 0
  BY <1>4, <1>7, <1>8
<1> HIDE DEF x
<1>16. f[m] + x <= MaxMarket /\ SumFunction(f) + x <= MaxTotal /\ EventCost(f, m) + x <= MaxEvent
  <2> DEFINE r == Room(m)
             e == EventCost(f, m)
             s == SumFunction(f)
  <2>1. e \in Int /\ s \in Int /\ f[m] \in Int
    BY <1>11, TotalsTyped
  <2>2. r \in Nat /\ x <= r /\ x \in Nat
        /\ (r > 0 => f[m] + r <= MaxMarket /\ s + r <= MaxTotal /\ e + r <= MaxEvent)
    BY <1>6, <1>9
  <2>3. MaxMarket \in Nat /\ MaxTotal \in Nat /\ MaxEvent \in Nat
    BY Settings
  <2> HIDE DEF r, e, s
  <2>4. f[m] + x <= MaxMarket /\ s + x <= MaxTotal /\ e + x <= MaxEvent
    BY <1>15, <2>1, <2>2, <2>3
  <2> QED  BY <2>4 DEF s, e
<1>17. x \in Int
  BY <1>6
<1>18. Capped(g, m)
  BY <1>11, <1>12, <1>13, <1>14, <1>16, <1>17, RoomCapped
<1> QED  BY <1>18 DEF g

\* Who reserves exposure keeps every other market from reserving it.
LEMMA BookedNext ==
  ASSUME Typed, Typed', RawEdged, NoTolerances, \A m \in Markets : Booked(m), [Next]_vars
  PROVE  \A m \in Markets : Booked(m)'
<1> SUFFICES ASSUME NEW n \in Markets PROVE Booked(n)'
  OBVIOUS
<1>0. Booked(n) /\ \A k \in Markets : Shrunk(orders[k], orders[k])
  BY ShrunkSame
<1>1. ASSUME stage'[n] \notin {"cancel", "place"} PROVE Booked(n)'
  BY <1>1 DEF Booked
<1>2. ASSUME NEW m \in Markets, stage[m] \in {"cancel", "place"}, n # m,
             stage'[n] = stage[n]
      PROVE  Booked(n)'
  BY <1>1, <1>2 DEF Typed, Exclusive
<1>3. ASSUME NEW m \in Markets, NEW indices \in SUBSET DOMAIN orders[m],
             orders' = [orders EXCEPT ![m] = Pick(orders[m], indices)]
      PROVE  \A k \in Markets : Shrunk(orders[k], orders'[k])
  <2>1. \A k \in Markets : orders'[k] = IF k = m THEN Pick(orders[m], indices) ELSE orders[k]
    BY <1>3 DEF Typed, OrdersTyped
  <2>2. Shrunk(orders[m], Pick(orders[m], indices))
    BY ShrunkPicked
  <2> QED  BY <1>0, <2>1, <2>2
<1>4. ASSUME NEW m \in Markets, Price(m) PROVE Booked(n)'
  <2>1. CASE n = m
    <3>1. stage'[m] = "fit"
      BY <1>4 DEF Price, Typed, Exclusive
    <3> QED  BY <1>1, <2>1, <3>1
  <2>2. CASE n # m
    <3>1. stage'[n] = stage[n] /\ orders' = orders /\ work'[n] = work[n]
      BY <1>4, <2>2 DEF Price, Typed, Exclusive, WorkTyped
    <3> QED  BY <1>0, <3>1, BookedKept
  <2> QED  BY <2>1, <2>2
<1>5. ASSUME NEW m \in Markets, Fit(m) PROVE Booked(n)'
  <2>1. CASE n = m
    BY <1>5, <2>1, FitBooked
  <2>2. CASE n # m
    <3>1. stage[n] \notin {"cancel", "place"} /\ stage'[n] = stage[n]
      BY <1>5, <2>2 DEF Fit, ReservationFree, Typed, Exclusive
    <3> QED  BY <1>1, <3>1
  <2> QED  BY <2>1, <2>2
<1>6. ASSUME NEW m \in Markets, Cancelled(m) PROVE Booked(n)'
  <2> DEFINE indices == {i \in DOMAIN orders[m] : orders[m][i].id \in work[m].keep}
  <2>1. orders' = [orders EXCEPT ![m] = Pick(orders[m], indices)] /\ stage[m] = "cancel"
    BY <1>6 DEF Cancelled
  <2>2. indices \in SUBSET DOMAIN orders[m]
    OBVIOUS
  <2> HIDE DEF indices
  <2>3. \A k \in Markets : Shrunk(orders[k], orders'[k])
    BY <1>3, <2>1, <2>2
  <2>4. CASE n # m
    <3>1. stage'[n] = stage[n]
      BY <1>6, <2>4 DEF Cancelled, Leave, Typed, Exclusive
    <3> QED  BY <1>2, <2>1, <2>4, <3>1
  <2>5. CASE n = m /\ work[m].place = <<>>
    <3>1. stage'[m] = "idle"
      BY <1>6, <2>5 DEF Cancelled, Leave, Typed, Exclusive
    <3> QED  BY <1>1, <2>5, <3>1
  <2>6. CASE n = m /\ work[m].place # <<>>
    <3>1. work' = work
      BY <1>6, <2>6 DEF Cancelled
    <3> QED  BY <1>0, <2>1, <2>3, <2>6, <3>1, BookedKept
  <2> QED  BY <2>4, <2>5, <2>6
<1>7. ASSUME NEW m \in Markets, stage[m] \in {"cancel", "place"}, Leave(m) PROVE Booked(n)'
  <2>1. stage'[m] = "idle" /\ (n # m => stage'[n] = stage[n])
    BY <1>7 DEF Leave, Typed, Exclusive
  <2> QED  BY <1>1, <1>2, <1>7, <2>1
<1>8. ASSUME NEW m \in Markets, CancelFails(m) \/ Posted(m) \/ NotPosted(m) \/ Quarantined(m)
      PROVE  Booked(n)'
  <2>1. stage[m] \in {"cancel", "place"} /\ Leave(m)
    BY <1>8 DEF CancelFails, Posted, NotPosted, Quarantined
  <2> QED  BY <1>7, <2>1
<1>9. ASSUME NEW m \in Markets, NEW i \in DOMAIN orders[m], Fill(m, i) PROVE Booked(n)'
  <2>1. \A k \in Markets : Shrunk(orders[k], orders'[k])
    <3>1. \A k \in Markets \ {m} : orders'[k] = orders[k]
      BY <1>9, FillMarks
    <3>2. Shrunk(orders[m], orders'[m])
      BY <1>9, ShrunkFilled
    <3> QED  BY <1>0, <3>1, <3>2
  <2>2. work' = work /\ stage' = stage
    BY <1>9 DEF Fill
  <2> QED  BY <1>0, <2>1, <2>2, BookedKept
<1>10. ASSUME NEW m \in Markets, NEW i \in DOMAIN orders[m], OrderGone(m, i) PROVE Booked(n)'
  <2> DEFINE indices == {j \in DOMAIN orders[m] : orders[m][j].id \notin {orders[m][i].id}}
  <2>1. orders' = [orders EXCEPT ![m] = Pick(orders[m], indices)]
    BY <1>10 DEF OrderGone, Without
  <2>2. indices \in SUBSET DOMAIN orders[m]
    OBVIOUS
  <2> HIDE DEF indices
  <2>3. \A k \in Markets : Shrunk(orders[k], orders'[k])
    BY <1>3, <2>1, <2>2
  <2>4. work' = work /\ stage' = stage
    BY <1>10 DEF OrderGone
  <2> QED  BY <1>0, <2>3, <2>4, BookedKept
<1>11. ASSUME UNCHANGED <<orders, work, stage>> PROVE Booked(n)'
  BY <1>0, <1>11, BookedKept
<1>12. ASSUME NEW t \in trades, Trade(t) PROVE Booked(n)'
  BY <1>11, <1>12 DEF Trade
<1>13. CASE UNCHANGED vars
  BY <1>11, <1>13 DEF vars
<1> QED  BY <1>4, <1>5, <1>6, <1>8, <1>9, <1>10, <1>12, <1>13 DEF Next

\* What rests when something is placed are the kept orders, within the claim.
LEMMA ReservedFromBooked ==
  ASSUME Typed, \A m \in Markets : Booked(m) /\ AllKept(m)
  PROVE  Reserved
<1> SUFFICES ASSUME NEW m \in Markets, stage[m] = "place", Notional(work[m].place) > 0
             PROVE  LET planned == [n \in Markets |->
                          Buys[n] + IF n = m THEN Notional(work[m].place) ELSE 0]
                        held == Held(work[m].values, m)
                    IN  /\ held.market + planned[m] <= MaxMarket
                        /\ held.event + EventCost(planned, m) <= MaxEvent
                        /\ held.total + SumFunction(planned) <= MaxTotal
  BY DEF Reserved
<1> DEFINE planned == [n \in Markets |-> Buys[n] + IF n = m THEN Notional(work[m].place) ELSE 0]
           v == work[m].values
           f == Claim(m)
           place == Notional(work[m].place)
<1>1. Capped(f, m)
  BY DEF Booked
<1>2. Spent(orders[m], work[m].keep) = Buys[m]
  <2>1. KeptAt(orders[m], work[m].keep) = DOMAIN orders[m]
    BY DEF AllKept, Ids, KeptAt
  <2>2. orders[m] \in Seq(Resting(P[m])) /\ \A i \in DOMAIN orders[m] : Cost(orders[m][i]) \in Nat
    BY CostsTyped DEF Typed, OrdersTyped
  <2>3. Notional(orders[m]) = SumFunctionOnSet(Costs(orders[m]), DOMAIN orders[m])
    BY <2>2, NotionalIs
  <2> QED  BY <2>1, <2>3 DEF Spent, Buys
<1>3. place \in Int /\ v \in [Markets -> Int] /\ Buys \in [Markets -> Nat]
  <2>1. work[m].place \in Seq(Sound(P[m])) /\ P[m] \in Profile /\ v \in [Markets -> Int]
    BY Settings DEF Typed, WorkTyped, Working
  <2>2. \A i \in DOMAIN work[m].place : Cost(work[m].place[i]) \in Nat
    BY <2>1, SoundCost
  <2>3. place \in Nat
    BY <2>1, <2>2, NotionalIs
  <2> QED  BY <2>1, <2>3, BuysTyped DEF Typed
<1>4. \A n \in Markets : f[n] = v[n] + IF n = m THEN Buys[m] + place ELSE Buys[n]
  BY <1>2 DEF Claim
<1>5. \A n \in Markets : planned[n] = Buys[n] + IF n = m THEN place ELSE 0
  OBVIOUS
<1>6. DOMAIN f = Markets /\ DOMAIN planned = Markets /\ DOMAIN v = Markets
  BY <1>3 DEF Claim
<1>7. Held(v, m) = [market |-> v[m], event |-> EventCost(v, m), total |-> SumFunction(v)]
  BY DEF Held
<1> HIDE DEF f, planned, v, place
<1>8. \A n \in Markets : planned[n] \in Int /\ v[n] \in Int /\ f[n] = v[n] + planned[n]
  <2> SUFFICES ASSUME NEW n \in Markets
               PROVE  planned[n] \in Int /\ v[n] \in Int /\ f[n] = v[n] + planned[n]
    OBVIOUS
  <2>1. Buys[n] \in Nat /\ v[n] \in Int
    BY <1>3
  <2> DEFINE b == Buys[n]
  <2>2. f[n] = v[n] + (IF n = m THEN b + place ELSE b) /\ planned[n] = b + (IF n = m THEN place ELSE 0)
    BY <1>4, <1>5
  <2>3. b \in Nat
    BY <2>1
  <2> HIDE DEF b
  <2> QED  BY <1>3, <2>1, <2>2, <2>3
<1>9. \A T \in SUBSET Markets :
        SumFunctionOnSet(f, T) = SumFunctionOnSet(v, T) + SumFunctionOnSet(planned, T)
  <2> SUFFICES ASSUME NEW T \in SUBSET Markets
               PROVE  SumFunctionOnSet(f, T) = SumFunctionOnSet(v, T) + SumFunctionOnSet(planned, T)
    OBVIOUS
  <2>1. IsFiniteSet(T)
    BY Settings, FS_Subset
  <2>2. \A n \in T : v[n] \in Int /\ planned[n] \in Int /\ f[n] = v[n] + planned[n]
    BY <1>8
  <2> QED  BY <2>1, <2>2, SumTogether
<1>10. EventCost(f, m) = EventCost(v, m) + EventCost(planned, m)
  <2>1. {n \in Markets : EventOf[n] = EventOf[m] /\ EventOf[m] # NoEvent} \in SUBSET Markets
    OBVIOUS
  <2> QED  BY <1>9, <2>1 DEF EventCost
<1>11. SumFunction(f) = SumFunction(v) + SumFunction(planned)
  <2>1. Markets \in SUBSET Markets
    OBVIOUS
  <2> QED  BY <1>6, <1>9, <2>1 DEF SumFunction
<1>12. /\ v[m] + planned[m] <= MaxMarket
       /\ EventCost(v, m) + EventCost(planned, m) <= MaxEvent
       /\ SumFunction(v) + SumFunction(planned) <= MaxTotal
  BY <1>1, <1>8, <1>10, <1>11 DEF Capped
<1> QED  BY <1>7, <1>12 DEF planned, v

\* Reserved for any markets, event groups, caps and books when an order is kept only if it is
\* exactly what is wanted (with a tolerance the kept order may be larger than its target).
THEOREM ReservationsHold ==
  ASSUME NoTolerances
  PROVE  Spec => []Reserved
<1> DEFINE Inv == /\ Typed /\ RawEdged
                  /\ \A m \in Markets : Quoted(m)
                  /\ \A m \in Markets : Booked(m)
<1>0. NoBoundedMoves
  BY DEF NoTolerances, NoBoundedMoves
<1>1. Init => Inv
  <2>1. Init => \A m \in Markets : Booked(m)
    BY DEF Init, Booked
  <2> QED  BY <2>1, TypedInit, RawInit, QuotedInit
<1>2. Inv /\ [Next]_vars => Inv'
  <2> SUFFICES ASSUME Inv, [Next]_vars PROVE Inv'
    OBVIOUS
  <2>1. Typed' /\ RawEdged'
    BY TypedNext, RawKept
  <2>2. \A m \in Markets : Quoted(m)'
    BY <1>0, QuotedNext
  <2>3. \A m \in Markets : Booked(m)'
    BY <2>1, BookedNext
  <2> QED  BY <2>1, <2>2, <2>3
<1>3. Inv => Reserved
  BY ReservedFromBooked DEF Quoted
<1> QED  BY <1>1, <1>2, <1>3, PTL DEF Spec

-------------------------------------------------------------------------------
(* A second run of the reconciler *)

\* An order that can be kept for a quote.
Serves(o, q, p) == o.tok = q.tok /\ o.side = q.side /\ Close(o, q, p)

\* The order at i is kept for one of the first n targets.
Had(a, n, s, i) == \E k \in 1 .. n : a[k] = s[i].id

\* All orders before the place x that the target could keep are kept for earlier targets.
PassedOver(target, a, s, l, x, p) ==
  \A j \in DOMAIN s : j < x /\ Serves(s[j], target[l], p) => Had(a, l - 1, s, j)

\* a[l] is the order kept for the l-th of n targets, 0 if the target is placed.
Planned(target, n, s, keep, place, a, at, p) ==
  /\ a \in [1 .. n -> Nat]
  /\ \A k, l \in 1 .. n : a[k] = a[l] /\ a[k] # 0 => k = l
  /\ \A id : id \in keep <=> id # 0 /\ \E l \in 1 .. n : a[l] = id
  /\ Picked(target, {l \in 1 .. n : a[l] = 0}, n, place, at)
  /\ \A l \in 1 .. n :
       /\ \A i \in DOMAIN s : a[l] = s[i].id =>
            Serves(s[i], target[l], p) /\ PassedOver(target, a, s, l, i, p)
       /\ a[l] = 0 => PassedOver(target, a, s, l, Len(s) + 1, p)

\* Without bounded moves a target keeps the first order that serves it and is not kept yet.
LEMMA Served ==
  ASSUME NEW p \in Profile, p.max_reprice = 0, NEW live \in Seq(Resting(p)),
         NEW q \in Sound(p), NEW done
  PROVE  LET near == {i \in DOMAIN live : live[i].id \notin done.keep /\ Serves(live[i], q, p)}
             next == MatchTarget(done, q, live, p)
         IN  \/ /\ near = {} /\ next.keep = done.keep /\ next.place = Append(done.place, q)
             \/ \E x \in near : /\ \A y \in near : x <= y
                                /\ next.keep = done.keep \union {live[x].id}
                                /\ next.place = done.place
<1> DEFINE same == {i \in DOMAIN live : live[i].tok = q.tok /\ live[i].side = q.side}
           free == {i \in same : live[i].id \notin done.anchors}
           bound == Bounded(q, live, free, p)
           near == {i \in same : live[i].id \notin done.keep /\ Close(live[i], bound.quote, p)}
           wanted == {i \in DOMAIN live : live[i].id \notin done.keep /\ Serves(live[i], q, p)}
           first == Min(near)
           next == [anchors |-> done.anchors \union bound.anchor,
                    keep |-> done.keep \union (IF near = {} THEN {} ELSE {live[first].id}),
                    place |-> IF near = {} THEN Append(done.place, bound.quote) ELSE done.place]
<1>1. MatchTarget(done, q, live, p) = next
  BY DEF MatchTarget
<1>2. bound.quote = q
  <2>1. free \in SUBSET DOMAIN live
    OBVIOUS
  <2> HIDE DEF free
  <2> QED  BY <2>1, BoundedSound
<1>3. near = wanted
  BY <1>2 DEF Serves
<1> HIDE DEF bound
<1>4. near # {} => first \in near /\ \A y \in near : first <= y
  <2> SUFFICES ASSUME near # {} PROVE first \in near /\ \A y \in near : first <= y
    OBVIOUS
  <2>1. near \in SUBSET (0 .. Len(live)) /\ Len(live) \in Nat
    <3>1. DOMAIN live = 1 .. Len(live) /\ Len(live) \in Nat
      OBVIOUS
    <3>2. near \in SUBSET DOMAIN live
      OBVIOUS
    <3> HIDE DEF near
    <3> QED  BY <3>1, <3>2
  <2> HIDE DEF near
  <2> QED  BY <2>1, Extremes
<1> HIDE DEF near, first, wanted
<1>5. CASE near = {}
  <2>1. next = [anchors |-> done.anchors \union bound.anchor, keep |-> done.keep \union {},
                place |-> Append(done.place, bound.quote)]
    BY <1>5
  <2>2. next.keep = done.keep /\ next.place = Append(done.place, q)
    BY <1>2, <2>1
  <2> QED  BY <1>1, <1>3, <1>5, <2>2 DEF wanted
<1>6. CASE near # {}
  <2>1. next = [anchors |-> done.anchors \union bound.anchor,
                keep |-> done.keep \union {live[first].id}, place |-> done.place]
    BY <1>6
  <2>2. next.keep = done.keep \union {live[first].id} /\ next.place = done.place
    BY <2>1
  <2> HIDE DEF next
  <2>3. first \in wanted /\ \A y \in wanted : first <= y
    BY <1>3, <1>4, <1>6
  <2> QED  BY <1>1, <2>2, <2>3 DEF wanted
<1> QED  BY <1>5, <1>6

\* The next target is planned after those before it: it keeps the order with the id c, or is
\* placed if c is 0.
LEMMA PlannedOneMore ==
  ASSUME NEW S, NEW target \in Seq(S), NEW p, NEW s \in Seq(Resting(p)),
         NEW n \in Nat, n + 1 \in DOMAIN target,
         NEW keep, NEW place, NEW a, NEW at, Planned(target, n, s, keep, place, a, at, p),
         NEW c \in Nat, c \notin keep,
         \A i \in DOMAIN s : s[i].id = c =>
           /\ Serves(s[i], target[n + 1], p)
           /\ \A j \in DOMAIN s : j < i /\ Serves(s[j], target[n + 1], p) => s[j].id \in keep,
         c = 0 => \A j \in DOMAIN s : Serves(s[j], target[n + 1], p) => s[j].id \in keep
  PROVE  \E b, to : Planned(target, n + 1, s, IF c = 0 THEN keep ELSE keep \union {c},
                            IF c = 0 THEN Append(place, target[n + 1]) ELSE place, b, to, p)
<1> DEFINE b == [l \in 1 .. n + 1 |-> IF l = n + 1 THEN c ELSE a[l]]
           more == IF c = 0 THEN keep ELSE keep \union {c}
           placed == IF c = 0 THEN Append(place, target[n + 1]) ELSE place
           I == {l \in 1 .. n : a[l] = 0}
           J == {l \in 1 .. n + 1 : b[l] = 0}
<1>1. /\ \A l \in 1 .. n : b[l] = a[l] /\ a[l] \in Nat /\ l \in 1 .. n + 1
      /\ b[n + 1] = c /\ n + 1 \in 1 .. n + 1 /\ n + 1 \notin 1 .. n
      /\ \A l \in 1 .. n + 1 : l \in 1 .. n \/ l = n + 1
  BY DEF Planned
<1>2. b \in [1 .. n + 1 -> Nat]
  BY <1>1
<1> HIDE DEF b
<1>3. \A id : id \in keep <=> id # 0 /\ \E l \in 1 .. n : a[l] = id
  BY DEF Planned
<1>4. \A k, l \in 1 .. n + 1 : b[k] = b[l] /\ b[k] # 0 => k = l
  <2> SUFFICES ASSUME NEW k \in 1 .. n + 1, NEW l \in 1 .. n + 1, b[k] = b[l], b[k] # 0
               PROVE  k = l
    OBVIOUS
  <2>1. CASE k \in 1 .. n /\ l \in 1 .. n
    BY <1>1, <2>1 DEF Planned
  <2>2. CASE k = n + 1 /\ l \in 1 .. n
    BY <1>1, <1>3, <2>2
  <2>3. CASE k \in 1 .. n /\ l = n + 1
    BY <1>1, <1>3, <2>3
  <2> QED  BY <1>1, <2>1, <2>2, <2>3
<1>5. \A id : id \in more <=> id # 0 /\ \E l \in 1 .. n + 1 : b[l] = id
  <2> SUFFICES ASSUME NEW id PROVE id \in more <=> id # 0 /\ \E l \in 1 .. n + 1 : b[l] = id
    OBVIOUS
  <2>1. id \in more <=> id \in keep \/ (id = c /\ c # 0)
    BY <1>3
  <2>2. (\E l \in 1 .. n + 1 : b[l] = id) <=> (\E l \in 1 .. n : a[l] = id) \/ id = c
    BY <1>1
  <2> HIDE DEF more
  <2> QED  BY <1>3, <2>1, <2>2
<1>6. \E to : Picked(target, J, n + 1, placed, to)
  <2>1. Picked(target, I, n, place, at)
    BY DEF Planned
  <2>2. \A l \in 1 .. n : l \in I <=> l \in J
    BY <1>1
  <2>3. n + 1 \in J <=> c = 0
    BY <1>1
  <2>4. I \subseteq 1 .. n
    OBVIOUS
  <2> HIDE DEF I, J
  <2>5. Picked(target, J, n, place, at)
    <3>1. \A j \in 1 .. Len(place) : at[j] \in J
      BY <2>1, <2>2, <2>4 DEF Picked
    <3> QED  BY <2>1, <2>2, <3>1 DEF Picked
  <2>6. \E to : Picked(target, J, n + 1,
                       IF n + 1 \in J THEN Append(place, target[n + 1]) ELSE place, to)
    BY <2>5, PickedOneMore
  <2> QED  BY <2>3, <2>6
<1>7. ASSUME NEW i \in DOMAIN s, NEW l \in 1 .. n + 1, Had(a, l - 1, s, i) PROVE Had(b, l - 1, s, i)
  <2>1. PICK k \in 1 .. l - 1 : a[k] = s[i].id
    BY <1>7 DEF Had
  <2>2. k \in 1 .. n
    BY <2>1
  <2> QED  BY <1>1, <2>1, <2>2 DEF Had
<1>8. ASSUME NEW i \in DOMAIN s, s[i].id \in keep PROVE Had(b, (n + 1) - 1, s, i)
  <2>1. PICK l \in 1 .. n : a[l] = s[i].id
    BY <1>3, <1>8
  <2>2. (n + 1) - 1 = n
    OBVIOUS
  <2> QED  BY <1>1, <2>1, <2>2 DEF Had
<1>9. ASSUME NEW l \in 1 .. n + 1
      PROVE  /\ \A i \in DOMAIN s : b[l] = s[i].id =>
                  Serves(s[i], target[l], p) /\ PassedOver(target, b, s, l, i, p)
             /\ b[l] = 0 => PassedOver(target, b, s, l, Len(s) + 1, p)
  <2>1. CASE l \in 1 .. n
    <3>1. /\ \A i \in DOMAIN s : a[l] = s[i].id =>
               Serves(s[i], target[l], p) /\ PassedOver(target, a, s, l, i, p)
          /\ a[l] = 0 => PassedOver(target, a, s, l, Len(s) + 1, p)
      BY <2>1 DEF Planned
    <3>2. b[l] = a[l]
      BY <1>1, <2>1
    <3>3. \A x : PassedOver(target, a, s, l, x, p) => PassedOver(target, b, s, l, x, p)
      BY <1>7 DEF PassedOver
    <3> QED  BY <3>1, <3>2, <3>3
  <2>2. CASE l = n + 1
    <3>1. \A i \in DOMAIN s : c = s[i].id =>
            Serves(s[i], target[l], p) /\ PassedOver(target, b, s, l, i, p)
      BY <1>8, <2>2 DEF PassedOver
    <3>2. c = 0 => PassedOver(target, b, s, l, Len(s) + 1, p)
      BY <1>8, <2>2 DEF PassedOver
    <3> QED  BY <1>1, <2>2, <3>1, <3>2
  <2> QED  BY <1>1, <2>1, <2>2
<1>10. PICK to : Picked(target, J, n + 1, placed, to)
  BY <1>6
<1>11. Planned(target, n + 1, s, more, placed, b, to, p)
  <2> HIDE DEF more, placed
  <2> QED  BY <1>2, <1>4, <1>5, <1>9, <1>10 DEF Planned
<1> QED  BY <1>11 DEF more, placed

\* What the reconciler returns without bounded moves is planned.
LEMMA Plans ==
  ASSUME NEW p \in Profile, p.max_reprice = 0, NEW s \in Seq(Resting(p)), Distinct(s),
         NEW target \in Seq(Sound(p))
  PROVE  \E a, at : Planned(target, Len(target), s, Reconcile(target, s, p).keep,
                            Reconcile(target, s, p).place, a, at, p)
<1> DEFINE L == Len(target)
           Done(n, d) == \E a, at : Planned(target, n, s, d.keep, d.place, a, at, p)
<1>0. L \in Nat /\ DOMAIN target = 1 .. L
  OBVIOUS
<1>1. PICK done : /\ Reconcile(target, s, p) = done[L]
                  /\ done[0] = [anchors |-> {}, keep |-> {}, place |-> <<>>]
                  /\ \A n \in 1 .. L : done[n] = MatchTarget(done[n - 1], target[n], s, p)
  BY ReconcileIs
<1> DEFINE N == {n \in Nat : n <= L => Done(n, done[n])}
<1>2. 0 \in N
  <2> DEFINE none == [j \in {} |-> 0]
  <2>1. done[0].keep = {} /\ done[0].place = <<>>
    BY <1>1
  <2>2. 1 .. 0 = {} /\ Len(<<>>) = 0 /\ none \in [1 .. 0 -> 1 .. 0] /\ none \in [1 .. 0 -> Nat]
    OBVIOUS
  <2>3. <<>> \in Seq({target[i] : i \in DOMAIN target})
    OBVIOUS
  <2> HIDE DEF none
  <2>4. Picked(target, {l \in 1 .. 0 : none[l] = 0}, 0, <<>>, none)
    BY <2>2, <2>3 DEF Picked
  <2>5. Planned(target, 0, s, {}, <<>>, none, none, p)
    BY <2>2, <2>4 DEF Planned
  <2> QED  BY <2>1, <2>5
<1>3. ASSUME NEW n \in Nat, n \in N PROVE n + 1 \in N
  <2> SUFFICES ASSUME n + 1 <= L PROVE Done(n + 1, done[n + 1])
    OBVIOUS
  <2>1. n <= L /\ n + 1 \in 1 .. L /\ (n + 1) - 1 = n /\ n + 1 \in DOMAIN target
    BY <1>0
  <2> DEFINE q == target[n + 1]
             d == done[n]
             e == done[n + 1]
             near == {i \in DOMAIN s : s[i].id \notin d.keep /\ Serves(s[i], q, p)}
  <2>2. q \in Sound(p) /\ e = MatchTarget(d, q, s, p)
    BY <1>1, <2>1
  <2>3. PICK a, at : Planned(target, n, s, d.keep, d.place, a, at, p)
    BY <1>3, <2>1
  <2>4. \/ near = {} /\ e.keep = d.keep /\ e.place = Append(d.place, q)
        \/ \E x \in near : /\ \A y \in near : x <= y
                           /\ e.keep = d.keep \union {s[x].id} /\ e.place = d.place
    <3> HIDE DEF q, d, e
    <3> QED  BY <2>2, Served
  <2>a. \A i \in DOMAIN s : s[i].id \in Nat \ {0}
    BY DEF Resting, OrderRec
  <2>5. CASE near = {} /\ e.keep = d.keep /\ e.place = Append(d.place, q)
    <3>1. 0 \notin d.keep
      BY <2>3 DEF Planned
    <3>2. \A j \in DOMAIN s : Serves(s[j], q, p) => s[j].id \in d.keep
      BY <2>5
    <3> HIDE DEF d, e, near
    <3>c. PICK c \in Nat : c = 0
      OBVIOUS
    <3>3. \E b, to : Planned(target, n + 1, s, IF c = 0 THEN d.keep ELSE d.keep \union {c},
                        IF c = 0 THEN Append(d.place, target[n + 1]) ELSE d.place, b, to, p)
      <4>1. c \notin d.keep /\ \A i \in DOMAIN s : s[i].id # c
        BY <2>a, <3>1, <3>c
      <4>2. c = 0 => \A j \in DOMAIN s : Serves(s[j], target[n + 1], p) => s[j].id \in d.keep
        BY <3>2
      <4>3. \A i \in DOMAIN s : s[i].id = c =>
              /\ Serves(s[i], target[n + 1], p)
              /\ \A j \in DOMAIN s : j < i /\ Serves(s[j], target[n + 1], p) => s[j].id \in d.keep
        BY <4>1
      <4> QED  BY <2>1, <2>3, <4>1, <4>2, <4>3, PlannedOneMore
    <3>4. \E b, to : Planned(target, n + 1, s, d.keep, Append(d.place, q), b, to, p)
      BY <3>3, <3>c
    <3> QED  BY <2>5, <3>4 DEF e
  <2>6. ASSUME NEW x \in near, \A y \in near : x <= y,
               e.keep = d.keep \union {s[x].id}, e.place = d.place
        PROVE  Done(n + 1, done[n + 1])
    <3> DEFINE c == s[x].id
    <3>1. x \in DOMAIN s /\ c \notin d.keep /\ Serves(s[x], q, p)
      OBVIOUS
    <3>2. c \in Nat /\ c # 0
      BY <2>a, <3>1
    <3>3. \A j \in DOMAIN s : j < x /\ Serves(s[j], q, p) => s[j].id \in d.keep
      <4> SUFFICES ASSUME NEW j \in DOMAIN s, j < x, Serves(s[j], q, p), s[j].id \notin d.keep
                   PROVE  FALSE
        OBVIOUS
      <4>1. j \in near
        OBVIOUS
      <4>2. x <= j /\ x \in Int /\ j \in Int
        <5>1. DOMAIN s \subseteq Int
          OBVIOUS
        <5> QED  BY <2>6, <3>1, <4>1, <5>1
      <4> QED  BY <4>2
    <3>4. \A i \in DOMAIN s : s[i].id = c => i = x
      BY <3>1 DEF Distinct
    <3> HIDE DEF d, e, near, c
    <3>5. \E b, to : Planned(target, n + 1, s, IF c = 0 THEN d.keep ELSE d.keep \union {c},
                        IF c = 0 THEN Append(d.place, target[n + 1]) ELSE d.place, b, to, p)
      <4>1. \A i \in DOMAIN s : s[i].id = c =>
              /\ Serves(s[i], target[n + 1], p)
              /\ \A j \in DOMAIN s : j < i /\ Serves(s[j], target[n + 1], p) => s[j].id \in d.keep
        BY <3>1, <3>3, <3>4
      <4> QED  BY <2>1, <2>3, <3>1, <3>2, <4>1, PlannedOneMore
    <3>6. \E b, to : Planned(target, n + 1, s, d.keep \union {c}, d.place, b, to, p)
      BY <3>2, <3>5
    <3> QED  BY <2>6, <3>6 DEF e, c
  <2> QED  BY <2>4, <2>5, <2>6
<1> HIDE DEF N
<1>4. Nat \subseteq N
  BY <1>2, <1>3, Induction
<1>5. Done(L, done[L])
  BY <1>0, <1>4 DEF N
<1> QED  BY <1>1, <1>5

\* The number after one that is less than a bound.
LEMMA OneMore ==
  ASSUME NEW n \in Nat, NEW L \in Nat, n + 1 <= L
  PROVE  n + 1 \in 1 .. L /\ (n + 1) - 1 = n /\ n + 1 \in Nat
OBVIOUS

\* With the kept orders and the placed ones at rest, the same targets ask for nothing new.
LEMMA PlansAgain ==
  ASSUME NEW p \in Profile, p.max_reprice = 0, NEW target \in Seq(Sound(p)),
         NEW s \in Seq(Resting(p)), NEW keep, NEW place, NEW a, NEW at,
         Planned(target, Len(target), s, keep, place, a, at, p), Ids(s) = keep,
         NEW w \in Seq(Resting(p)), Distinct(w), Len(place) \in Nat,
         DOMAIN w = 1 .. Len(s) + Len(place),
         \A i \in 1 .. Len(s) : w[i] = s[i],
         \A j \in 1 .. Len(place) : Serves(w[Len(s) + j], place[j], p)
  PROVE  Reconcile(target, w, p).place = <<>> /\ Reconcile(target, w, p).keep = Ids(w)
<1> DEFINE L == Len(target)
           K == Len(s)
           M == Len(place)
           Got(i, n) == IF i <= K THEN Had(a, n, s, i) ELSE at[i - K] <= n
           First(n, x) == /\ x \in DOMAIN w /\ ~Got(x, n) /\ Serves(w[x], target[n + 1], p)
                          /\ \A y \in DOMAIN w :
                               y < x /\ Serves(w[y], target[n + 1], p) => Got(y, n)
                          /\ \A y \in DOMAIN w : Got(y, n + 1) <=> Got(y, n) \/ y = x
           Right(n, d) == /\ d.place = <<>> /\ d.keep \subseteq Ids(w)
                          /\ \A i \in DOMAIN w : w[i].id \in d.keep <=> Got(i, n)
<1>0. L \in Nat /\ K \in Nat /\ M \in Nat /\ DOMAIN s = 1 .. K /\ DOMAIN target = 1 .. L
      /\ \A i \in DOMAIN s : s[i].id \in Nat \ {0}
  BY DEF Resting, OrderRec
<1>a. /\ a \in [1 .. L -> Nat]
      /\ \A k, l \in 1 .. L : a[k] = a[l] /\ a[k] # 0 => k = l
      /\ \A id : id \in keep <=> id # 0 /\ \E l \in 1 .. L : a[l] = id
      /\ \A l \in 1 .. L :
           /\ \A i \in DOMAIN s : a[l] = s[i].id =>
                Serves(s[i], target[l], p) /\ PassedOver(target, a, s, l, i, p)
           /\ a[l] = 0 => PassedOver(target, a, s, l, Len(s) + 1, p)
  BY DEF Planned
<1>b. /\ at \in [1 .. M -> 1 .. L]
      /\ \A j \in 1 .. M : at[j] \in 1 .. L /\ a[at[j]] = 0 /\ place[j] = target[at[j]]
      /\ \A i, j \in 1 .. M : i < j => at[i] < at[j]
      /\ \A k \in 1 .. L : a[k] = 0 => \E j \in 1 .. M : at[j] = k
  <2>1. Picked(target, {l \in 1 .. L : a[l] = 0}, L, place, at)
    BY DEF Planned
  <2> QED  BY <2>1 DEF Picked
<1>c. \A i \in DOMAIN w : \/ i \in DOMAIN s /\ i <= K
                          \/ i \notin DOMAIN s /\ ~(i <= K) /\ i - K \in 1 .. M /\ K + (i - K) = i
  BY <1>0
<1>d. \A i \in DOMAIN s : i \in DOMAIN w /\ i <= K
  BY <1>0
<1>e. \A j \in 1 .. M : K + j \in DOMAIN w /\ ~(K + j <= K) /\ (K + j) - K = j
  BY <1>0
<1>f. \A i \in DOMAIN s : w[i] = s[i]
  BY <1>0
<1>g. \A j \in 1 .. M : Serves(w[K + j], target[at[j]], p)
  BY <1>b
<1>1. ASSUME NEW n \in Nat, n + 1 <= L PROVE \E x : First(n, x)
  <2>0. n + 1 \in 1 .. L /\ (n + 1) - 1 = n /\ n + 1 \in Nat
    <3>1. L \in Nat /\ n + 1 <= L
      BY <1>0, <1>1
    <3> HIDE DEF L, K, M
    <3> QED  BY <3>1, OneMore
  <2> DEFINE l == n + 1
  <2>1. ASSUME NEW i \in DOMAIN s PROVE Got(i, l) <=> Got(i, n) \/ a[l] = s[i].id
    <3>1. \A k : k \in 1 .. l <=> k \in 1 .. n \/ k = l
      BY <2>0
    <3> HIDE DEF l
    <3> QED  BY <1>d, <3>1 DEF Had
  <2>2. ASSUME NEW j \in 1 .. M PROVE Got(K + j, l) <=> Got(K + j, n) \/ at[j] = l
    <3>1. at[j] \in Nat
      BY <1>b
    <3>2. at[j] <= l <=> at[j] <= n \/ at[j] = l
      BY <3>1
    <3> HIDE DEF l
    <3> QED  BY <1>e, <3>2
  <2>3. CASE a[l] # 0
    <3>1. PICK x \in DOMAIN s : s[x].id = a[l]
      <4>1. a[l] \in keep
        BY <1>a, <2>0, <2>3
      <4> QED  BY <4>1 DEF Ids
    <3>2. Serves(w[x], target[l], p) /\ x \in DOMAIN w
      BY <1>a, <1>d, <1>f, <2>0, <3>1
    <3>3. ~Got(x, n)
      <4> SUFFICES ASSUME Had(a, n, s, x) PROVE FALSE
        BY <1>d
      <4>1. PICK k \in 1 .. n : a[k] = s[x].id
        BY DEF Had
      <4>2. k \in 1 .. L /\ k # l
        BY <1>0, <2>0
      <4> QED  BY <1>a, <2>0, <2>3, <3>1, <4>1, <4>2
    <3>4. ASSUME NEW y \in DOMAIN w, y < x, Serves(w[y], target[l], p) PROVE Got(y, n)
      <4>1. y \in DOMAIN s
        BY <1>0, <3>4
      <4>2. PassedOver(target, a, s, l, x, p)
        BY <1>a, <2>0, <3>1
      <4>3. Had(a, l - 1, s, y)
        BY <1>f, <3>4, <4>1, <4>2 DEF PassedOver
      <4> QED  BY <1>d, <2>0, <4>1, <4>3
    <3>5. ASSUME NEW y \in DOMAIN w PROVE Got(y, l) <=> Got(y, n) \/ y = x
      <4>1. CASE y \in DOMAIN s
        <5>1. a[l] = s[y].id <=> y = x
          BY <1>d, <1>f, <3>1, <4>1 DEF Distinct
        <5> QED  BY <2>1, <4>1, <5>1
      <4>2. CASE y \notin DOMAIN s
        <5>1. y - K \in 1 .. M /\ K + (y - K) = y
          BY <1>c, <4>2
        <5>2. at[y - K] # l
          BY <1>b, <2>3, <5>1
        <5>3. Got(K + (y - K), l) <=> Got(K + (y - K), n) \/ at[y - K] = l
          BY <2>2, <5>1
        <5> HIDE DEF Got
        <5> QED  BY <4>2, <5>1, <5>2, <5>3
      <4> QED  BY <4>1, <4>2
    <3>6. First(n, x)
      BY <3>2, <3>3, <3>4, <3>5
    <3> QED  BY <3>6
  <2>4. CASE a[l] = 0
    <3>1. PICK j \in 1 .. M : at[j] = l
      BY <1>b, <2>0, <2>4
    <3> DEFINE x == K + j
    <3>2. Serves(w[x], target[l], p) /\ x \in DOMAIN w
      BY <1>e, <1>g, <3>1
    <3>3. ~Got(x, n)
      BY <1>e, <2>0, <3>1
    <3>4. ASSUME NEW y \in DOMAIN w, y < x, Serves(w[y], target[l], p) PROVE Got(y, n)
      <4>1. CASE y \in DOMAIN s
        <5>1. PassedOver(target, a, s, l, Len(s) + 1, p)
          BY <1>a, <2>0, <2>4
        <5>2. y < Len(s) + 1
          BY <1>0, <4>1
        <5>3. Had(a, l - 1, s, y)
          BY <1>f, <3>4, <4>1, <5>1, <5>2 DEF PassedOver
        <5> QED  BY <1>d, <2>0, <4>1, <5>3
      <4>2. CASE y \notin DOMAIN s
        <5>1. y - K \in 1 .. M /\ K + (y - K) = y /\ ~(y <= K)
          BY <1>c, <4>2
        <5>2. y - K < j
          BY <1>0, <3>4, <5>1
        <5>3. at[y - K] < at[j] /\ at[y - K] \in Nat
          BY <1>b, <5>1, <5>2
        <5>4. at[y - K] <= n
          BY <2>0, <3>1, <5>3
        <5> QED  BY <5>1, <5>4
      <4> QED  BY <4>1, <4>2
    <3>5. ASSUME NEW y \in DOMAIN w PROVE Got(y, l) <=> Got(y, n) \/ y = x
      <4>1. CASE y \in DOMAIN s
        <5>1. a[l] # s[y].id
          BY <1>0, <2>4, <4>1
        <5>2. y # x
          BY <1>0, <4>1
        <5> QED  BY <2>1, <4>1, <5>1, <5>2
      <4>2. CASE y \notin DOMAIN s
        <5>1. y - K \in 1 .. M /\ K + (y - K) = y
          BY <1>c, <4>2
        <5>2. at[y - K] = l <=> y - K = j
          <6> DEFINE i == y - K
          <6>1. i \in 1 .. M /\ (i < j => at[i] < at[j]) /\ (j < i => at[j] < at[i])
                /\ at[i] \in Nat /\ at[j] \in Nat
            BY <1>b, <5>1
          <6> HIDE DEF i, l
          <6> QED  BY <3>1, <6>1 DEF i
        <5>3. Got(K + (y - K), l) <=> Got(K + (y - K), n) \/ at[y - K] = l
          BY <2>2, <5>1
        <5>4. y - K = j <=> y = x
          <6>1. y \in Int /\ K \in Int /\ j \in Int
            BY <1>0
          <6>2. ASSUME y - K = j PROVE y = K + j
            BY ONLY <6>1, <6>2
          <6>3. ASSUME y = K + j PROVE y - K = j
            BY ONLY <6>1, <6>3
          <6> HIDE DEF K
          <6> QED  BY ONLY <6>2, <6>3
        <5> HIDE DEF Got, x
        <5> QED  BY <5>1, <5>2, <5>3, <5>4
      <4> QED  BY <4>1, <4>2
    <3>6. First(n, x)
      BY <3>2, <3>3, <3>4, <3>5
    <3> QED  BY <3>6
  <2> QED  BY <2>3, <2>4
<1>2. PICK done : /\ Reconcile(target, w, p) = done[L]
                  /\ done[0] = [anchors |-> {}, keep |-> {}, place |-> <<>>]
                  /\ \A n \in 1 .. L : done[n] = MatchTarget(done[n - 1], target[n], w, p)
  <2>1. target \in Seq(Sound(p))
    OBVIOUS
  <2> QED  BY ONLY <2>1, ReconcileIs
<1> DEFINE N == {n \in Nat : n <= L => Right(n, done[n])}
<1>3. 0 \in N
  <2>1. done[0].keep = {} /\ done[0].place = <<>>
    BY <1>2
  <2>2. \A i \in DOMAIN w : ~Got(i, 0)
    <3> SUFFICES ASSUME NEW i \in DOMAIN w PROVE ~Got(i, 0)
      OBVIOUS
    <3>1. CASE i \in DOMAIN s
      <4>1. 1 .. 0 = {}
        OBVIOUS
      <4> QED  BY <1>d, <3>1, <4>1 DEF Had
    <3>2. CASE i \notin DOMAIN s
      <4>1. i - K \in 1 .. M /\ ~(i <= K)
        BY <1>c, <3>2
      <4>2. at[i - K] \in 1 .. L
        BY <1>b, <4>1
      <4>3. ~(at[i - K] <= 0)
        BY <4>2
      <4> QED  BY <4>1, <4>3
    <3> QED  BY <3>1, <3>2
  <2> HIDE DEF Got
  <2> QED  BY <2>1, <2>2
<1>4. ASSUME NEW n \in Nat, n \in N PROVE n + 1 \in N
  <2> SUFFICES ASSUME n + 1 <= L PROVE Right(n + 1, done[n + 1])
    OBVIOUS
  <2>1. n <= L /\ n + 1 \in 1 .. L /\ (n + 1) - 1 = n
    BY <1>0
  <2> DEFINE q == target[n + 1]
             d == done[n]
             e == done[n + 1]
             near == {i \in DOMAIN w : w[i].id \notin d.keep /\ Serves(w[i], q, p)}
  <2>2. q \in Sound(p) /\ e = MatchTarget(d, q, w, p) /\ Right(n, d)
    BY <1>2, <1>4, <2>1
  <2>3. PICK x : First(n, x)
    BY <1>1
  <2>4. \/ near = {} /\ e.keep = d.keep /\ e.place = Append(d.place, q)
        \/ \E z \in near : /\ \A y \in near : z <= y
                           /\ e.keep = d.keep \union {w[z].id} /\ e.place = d.place
    <3>1. p \in Profile /\ p.max_reprice = 0 /\ w \in Seq(Resting(p)) /\ q \in Sound(p)
      BY <2>2
    <3>2. e = MatchTarget(d, q, w, p)
      BY <2>2
    <3> HIDE DEF q, d, e
    <3> QED  BY ONLY <3>1, <3>2, Served
  <2> HIDE DEF Got, d, e
  <2>5. x \in near
    BY <2>2, <2>3
  <2>6. PICK z \in near : /\ \A y \in near : z <= y
                          /\ e.keep = d.keep \union {w[z].id} /\ e.place = d.place
    BY <2>4, <2>5
  <2>7. z = x
    <3>1. z <= x /\ x \in Int /\ z \in Int /\ z \in DOMAIN w
      <4>1. DOMAIN w \subseteq Int
        BY <1>0
      <4> QED  BY <2>5, <2>6, <4>1
    <3>2. ~(z < x)
      BY <2>2, <2>3
    <3> QED  BY <3>1, <3>2
  <2>8. e.keep \subseteq Ids(w) /\ e.place = <<>>
    BY <2>2, <2>6 DEF Ids
  <2>9. \A i \in DOMAIN w : w[i].id \in e.keep <=> Got(i, n + 1)
    <3> SUFFICES ASSUME NEW i \in DOMAIN w PROVE w[i].id \in e.keep <=> Got(i, n + 1)
      OBVIOUS
    <3>1. w[i].id = w[x].id <=> i = x
      BY <2>3 DEF Distinct
    <3>2. w[i].id \in e.keep <=> w[i].id \in d.keep \/ i = x
      BY <2>6, <2>7, <3>1
    <3>3. Got(i, n + 1) <=> Got(i, n) \/ i = x
      BY <2>3
    <3> QED  BY <2>2, <3>2, <3>3
  <2> QED  BY <2>8, <2>9 DEF e
<1> HIDE DEF N
<1>5. Nat \subseteq N
  BY <1>3, <1>4, Induction
<1>6. Right(L, done[L])
  BY <1>0, <1>5 DEF N
<1>7. \A i \in DOMAIN w : Got(i, L)
  <2> SUFFICES ASSUME NEW i \in DOMAIN w PROVE Got(i, L)
    OBVIOUS
  <2>1. CASE i \in DOMAIN s
    <3>1. s[i].id \in keep
      BY <2>1 DEF Ids
    <3> QED  BY <1>a, <1>d, <2>1, <3>1 DEF Had
  <2>2. CASE i \notin DOMAIN s
    <3>1. i - K \in 1 .. M /\ ~(i <= K)
      BY <1>c, <2>2
    <3>2. at[i - K] \in 1 .. L
      BY <1>b, <3>1
    <3>3. at[i - K] <= L
      BY <3>2
    <3> QED  BY <3>1, <3>3
  <2> QED  BY <2>1, <2>2
<1> HIDE DEF Got
<1>8. Ids(w) \subseteq done[L].keep
  BY <1>6, <1>7 DEF Ids
<1> QED  BY <1>2, <1>6, <1>8

\* new are some of the orders of old in their order; what is filled may differ.
Thinned(old, new) ==
  \E f \in [DOMAIN new -> DOMAIN old] :
    /\ \A i, j \in DOMAIN new : i < j => f[i] < f[j]
    /\ \A j \in DOMAIN new :
         /\ new[j].id = old[f[j]].id /\ new[j].tok = old[f[j]].tok
         /\ new[j].side = old[f[j]].side /\ new[j].price = old[f[j]].price
         /\ new[j].size = old[f[j]].size

\* All orders may stay.
LEMMA ThinnedSame ==
  ASSUME NEW S, NEW s \in Seq(S)
  PROVE  Thinned(s, s)
<1> DEFINE f == [i \in DOMAIN s |-> i]
<1>1. f \in [DOMAIN s -> DOMAIN s] /\ \A i \in DOMAIN s : f[i] = i
  OBVIOUS
<1> HIDE DEF f
<1> QED  BY <1>1 DEF Thinned

\* Picked orders are some of the orders.
LEMMA ThinnedPicked ==
  ASSUME NEW S, NEW s \in Seq(S), NEW indices \in SUBSET DOMAIN s
  PROVE  Thinned(s, Pick(s, indices))
<1> DEFINE t == Pick(s, indices)
<1>1. PICK at : Picked(s, indices, Len(s), t, at)
  BY PickIs
<1>2. t \in Seq(S)
  <2>1. \A i \in indices : s[i] \in S
    OBVIOUS
  <2> QED  BY <2>1, PickTyped
<1> HIDE DEF t
<1>3. DOMAIN t = 1 .. Len(t) /\ DOMAIN s = 1 .. Len(s)
  BY <1>2
<1>4. at \in [DOMAIN t -> DOMAIN s] /\ (\A j \in DOMAIN t : t[j] = s[at[j]])
      /\ \A i, j \in DOMAIN t : i < j => at[i] < at[j]
  BY <1>1, <1>3 DEF Picked
<1>5. Thinned(s, t)
  BY <1>4 DEF Thinned
<1> QED  BY <1>5 DEF t

\* Orders that go leave the plan as it is.
LEMMA PlannedThinned ==
  ASSUME NEW p, NEW s \in Seq(Resting(p)), NEW t \in Seq(Resting(p)), Thinned(s, t),
         NEW target, NEW n, NEW keep, NEW place, NEW a, NEW at,
         Planned(target, n, s, keep, place, a, at, p)
  PROVE  Planned(target, n, t, keep, place, a, at, p)
<1>1. PICK f \in [DOMAIN t -> DOMAIN s] :
        /\ \A i, j \in DOMAIN t : i < j => f[i] < f[j]
        /\ \A j \in DOMAIN t :
             /\ t[j].id = s[f[j]].id /\ t[j].tok = s[f[j]].tok
             /\ t[j].side = s[f[j]].side /\ t[j].price = s[f[j]].price
             /\ t[j].size = s[f[j]].size
  BY DEF Thinned
<1>2. \A j \in DOMAIN t : f[j] \in DOMAIN s /\ f[j] < Len(s) + 1
  <2>1. \A i \in DOMAIN s : i < Len(s) + 1
    OBVIOUS
  <2> QED  BY <2>1
<1>3. \A j \in DOMAIN t : \A q : Serves(t[j], q, p) <=> Serves(s[f[j]], q, p)
  BY <1>1 DEF Serves, Close
<1>4. ASSUME NEW l, NEW i \in DOMAIN t, PassedOver(target, a, s, l, f[i], p)
      PROVE  PassedOver(target, a, t, l, i, p)
  <2> SUFFICES ASSUME NEW j \in DOMAIN t, j < i, Serves(t[j], target[l], p)
               PROVE  Had(a, l - 1, t, j)
    BY DEF PassedOver
  <2>1. Had(a, l - 1, s, f[j])
    BY <1>1, <1>2, <1>3, <1>4 DEF PassedOver
  <2> QED  BY <1>1, <2>1 DEF Had
<1>5. ASSUME NEW l, PassedOver(target, a, s, l, Len(s) + 1, p)
      PROVE  PassedOver(target, a, t, l, Len(t) + 1, p)
  <2> SUFFICES ASSUME NEW j \in DOMAIN t, Serves(t[j], target[l], p)
               PROVE  Had(a, l - 1, t, j)
    BY DEF PassedOver
  <2>1. Had(a, l - 1, s, f[j])
    BY <1>2, <1>3, <1>5 DEF PassedOver
  <2> QED  BY <1>1, <2>1 DEF Had
<1>6. ASSUME NEW l \in 1 .. n
      PROVE  /\ \A i \in DOMAIN t : a[l] = t[i].id =>
                  Serves(t[i], target[l], p) /\ PassedOver(target, a, t, l, i, p)
             /\ a[l] = 0 => PassedOver(target, a, t, l, Len(t) + 1, p)
  <2>1. /\ \A i \in DOMAIN s : a[l] = s[i].id =>
             Serves(s[i], target[l], p) /\ PassedOver(target, a, s, l, i, p)
        /\ a[l] = 0 => PassedOver(target, a, s, l, Len(s) + 1, p)
    BY DEF Planned
  <2>2. \A i \in DOMAIN t : a[l] = t[i].id =>
          Serves(s[f[i]], target[l], p) /\ PassedOver(target, a, s, l, f[i], p)
    BY <1>1, <1>2, <2>1
  <2> QED  BY <1>3, <1>4, <1>5, <2>1, <2>2
<1> QED  BY <1>6 DEF Planned

\* The tolerances of a profile are numbers.
LEMMA Tolerances ==
  ASSUME NEW p \in Profile
  PROVE  p.reprice \in Nat /\ p.tick \in Nat /\ p.resize \in Nat
<1>1. p.tick \in 1 .. One /\ One \in Nat
  BY OneAssumption DEF Profile
<1> QED  BY <1>1 DEF Profile

-------------------------------------------------------------------------------
(* What was fitted is stable *)

\* The room that a recompute found when it noted these values and these BUYs.
RoomFor(m, values, buys) ==
  LET deployed == [n \in Markets |-> values[n] + buys[n]]
  IN  Max({0, Min({MaxMarket - deployed[m], MaxTotal - SumFunction(deployed),
                   MaxEvent - EventCost(deployed, m)})})

\* What it aimed at.
Aim(m) == FitToHeadroom(work[m].raw, RoomFor(m, work[m].values, work[m].buys), P[m])

\* What it keeps and places is planned for what it aimed at.
Owed(m) ==
  stage[m] \in {"cancel", "place"} =>
    \E a, at : Planned(Aim(m), Len(Aim(m)), orders[m], work[m].keep, work[m].place, a, at, P[m])

\* The room that Fit finds.
LEMMA RoomNoted ==
  ASSUME Typed, NEW m \in Markets
  PROVE  Room(m) = RoomFor(m, Values(mark), [Buys EXCEPT ![m] = 0])
<1> DEFINE v == Values(mark)
           b == [Buys EXCEPT ![m] = 0]
           f == [n \in Markets |-> v[n] + IF n = m THEN 0 ELSE Buys[n]]
           g == [n \in Markets |-> v[n] + b[n]]
<1>1. \A n \in Markets : b[n] = IF n = m THEN 0 ELSE Buys[n]
  BY DEF Buys
<1> HIDE DEF v, b
<1>2. f = g
  BY <1>1
<1>3. Room(m) = Max({0, Min({MaxMarket - f[m], MaxTotal - SumFunction(f),
                             MaxEvent - EventCost(f, m)})})
  BY DEF Room, v
<1>4. RoomFor(m, v, b) = Max({0, Min({MaxMarket - g[m], MaxTotal - SumFunction(g),
                                      MaxEvent - EventCost(g, m)})})
  BY DEF RoomFor
<1> HIDE DEF f, g
<1>5. Room(m) = RoomFor(m, v, b)
  BY <1>2, <1>3, <1>4
<1> QED  BY <1>5 DEF v, b

\* Fit owes what it planned.
LEMMA FitOwed ==
  ASSUME Typed, RawEdged, NoBoundedMoves, NEW m \in Markets, Fit(m)
  PROVE  Owed(m)'
<1> SUFFICES ASSUME stage'[m] \in {"cancel", "place"}
             PROVE  \E a, at : Planned(Aim(m)', Len(Aim(m)'), orders'[m], work'[m].keep,
                                       work'[m].place, a, at, P[m])
  BY DEF Owed
<1> DEFINE target == FitToHeadroom(work[m].raw, Room(m), P[m])
           plan == Reconcile(target, orders[m], P[m])
           new == [raw |-> work[m].raw, keep |-> plan.keep, place |-> plan.place,
                   values |-> Values(mark), buys |-> [Buys EXCEPT ![m] = 0]]
<1>1. PICK next \in {"idle", "cancel", "place"} :
        /\ stage' = [stage EXCEPT ![m] = next]
        /\ next # "idle" => work' = [work EXCEPT ![m] = new]
  BY FitDoes, Zenon
<1>2. next # "idle"
  BY <1>1 DEF Typed, Exclusive
<1>3. work'[m] = new
  <2> HIDE DEF new
  <2> QED  BY <1>1, <1>2 DEF Typed, WorkTyped
<1>4. work'[m].place = plan.place /\ work'[m].keep = plan.keep
  <2>1. new.place = plan.place /\ new.keep = plan.keep
    OBVIOUS
  <2> HIDE DEF new, plan
  <2> QED  BY <1>3, <2>1
<1>5. Aim(m)' = target
  <2> DEFINE w == work'[m]
             v == Values(mark)
             b == [Buys EXCEPT ![m] = 0]
  <2>1. w.raw = work[m].raw /\ w.values = v /\ w.buys = b
    <3>1. new.raw = work[m].raw /\ new.values = v /\ new.buys = b
      OBVIOUS
    <3> HIDE DEF new, v, b
    <3> QED  BY <1>3, <3>1
  <2>2. Aim(m)' = FitToHeadroom(w.raw, RoomFor(m, w.values, w.buys), P[m])
    BY DEF Aim, RoomFor, EventCost
  <2>3. Room(m) = RoomFor(m, v, b)
    BY RoomNoted
  <2> HIDE DEF w, v, b
  <2> QED  BY <2>1, <2>2, <2>3
<1>6. /\ P[m] \in Profile /\ P[m].max_reprice = 0 /\ target \in Seq(Sound(P[m]))
      /\ orders[m] \in Seq(Resting(P[m])) /\ Distinct(orders[m])
  BY TargetIs, Settings DEF NoBoundedMoves, Typed, OrdersTyped
<1>7. orders' = orders
  BY DEF Fit
<1> HIDE DEF target
<1>8. \E a, at : Planned(target, Len(target), orders[m], plan.keep, plan.place, a, at, P[m])
  BY <1>6, Plans
<1> HIDE DEF plan, new
<1> QED  BY <1>4, <1>5, <1>7, <1>8

\* What is owed stays owed while orders only go.
LEMMA OwedKept ==
  ASSUME Typed, Typed', NEW m \in Markets, Owed(m), work'[m] = work[m],
         stage'[m] \in {"cancel", "place"} => stage[m] \in {"cancel", "place"},
         Thinned(orders[m], orders'[m])
  PROVE  Owed(m)'
<1> SUFFICES ASSUME stage[m] \in {"cancel", "place"}
             PROVE  \E a, at : Planned(Aim(m)', Len(Aim(m)'), orders'[m], work[m].keep,
                                       work[m].place, a, at, P[m])
  BY DEF Owed
<1>1. Aim(m)' = Aim(m)
  BY DEF Aim, RoomFor, EventCost
<1>2. PICK a, at : Planned(Aim(m), Len(Aim(m)), orders[m], work[m].keep, work[m].place, a, at, P[m])
  BY DEF Owed
<1>3. orders[m] \in Seq(Resting(P[m])) /\ orders'[m] \in Seq(Resting(P[m]))
  BY DEF Typed, OrdersTyped
<1>4. Planned(Aim(m), Len(Aim(m)), orders'[m], work[m].keep, work[m].place, a, at, P[m])
  BY <1>2, <1>3, PlannedThinned
<1> QED  BY <1>1, <1>4

\* Every step keeps what the recomputes owe.
LEMMA OwedNext ==
  ASSUME Typed, Typed', RawEdged, NoBoundedMoves, \A m \in Markets : Owed(m), [Next]_vars
  PROVE  \A m \in Markets : Owed(m)'
<1> SUFFICES ASSUME NEW n \in Markets PROVE Owed(n)'
  OBVIOUS
<1>0. Owed(n) /\ \A k \in Markets : Thinned(orders[k], orders[k])
  BY ThinnedSame DEF Typed, OrdersTyped
<1>1. ASSUME stage'[n] \notin {"cancel", "place"} PROVE Owed(n)'
  BY <1>1 DEF Owed
<1>2. ASSUME NEW m \in Markets, NEW indices \in SUBSET DOMAIN orders[m],
             orders' = [orders EXCEPT ![m] = Pick(orders[m], indices)]
      PROVE  Thinned(orders[n], orders'[n])
  <2>1. orders'[n] = IF n = m THEN Pick(orders[m], indices) ELSE orders[n]
    BY <1>2 DEF Typed, OrdersTyped
  <2>2. Thinned(orders[m], Pick(orders[m], indices))
    BY ThinnedPicked DEF Typed, OrdersTyped
  <2> QED  BY <1>0, <2>1, <2>2
<1>3. ASSUME NEW m \in Markets, n # m,
             \/ Price(m) \/ Fit(m) \/ Cancelled(m) \/ CancelFails(m)
             \/ Posted(m) \/ NotPosted(m) \/ Quarantined(m)
      PROVE  Owed(n)'
  <2>1. orders'[n] = orders[n] /\ stage'[n] = stage[n] /\ work'[n] = work[n]
    <3>0. DOMAIN orders = Markets /\ DOMAIN work = Markets /\ stage \in [Markets -> Stages]
      BY DEF Typed, OrdersTyped, WorkTyped, Exclusive
    <3>1. CASE Price(m)
      BY <1>3, <3>0, <3>1 DEF Price
    <3>2. CASE Fit(m)
      BY <1>3, <3>0, <3>2 DEF Fit
    <3>3. CASE Cancelled(m)
      BY <1>3, <3>0, <3>3 DEF Cancelled, Leave
    <3>4. CASE CancelFails(m)
      BY <1>3, <3>0, <3>4 DEF CancelFails, Leave
    <3>5. CASE Posted(m) \/ NotPosted(m) \/ Quarantined(m)
      BY <1>3, <3>0, <3>5 DEF Posted, NotPosted, Quarantined, Leave
    <3> QED  BY <1>3, <3>1, <3>2, <3>3, <3>4, <3>5
  <2> QED  BY <1>0, <2>1, OwedKept
<1>4. ASSUME NEW m \in Markets, Price(m) PROVE Owed(n)'
  <2>1. n = m => stage'[n] = "fit"
    BY <1>4 DEF Price, Typed, Exclusive
  <2> QED  BY <1>1, <1>3, <1>4, <2>1
<1>5. ASSUME NEW m \in Markets, Fit(m) PROVE Owed(n)'
  BY <1>3, <1>5, FitOwed
<1>6. ASSUME NEW m \in Markets, Cancelled(m) PROVE Owed(n)'
  <2>1. CASE n = m /\ work[m].place = <<>>
    <3>1. stage'[n] = "idle"
      BY <1>6, <2>1 DEF Cancelled, Leave, Typed, Exclusive
    <3> QED  BY <1>1, <3>1
  <2>2. CASE n = m /\ work[m].place # <<>>
    <3> DEFINE indices == {i \in DOMAIN orders[m] : orders[m][i].id \in work[m].keep}
    <3>1. /\ orders' = [orders EXCEPT ![m] = Pick(orders[m], indices)]
          /\ stage[m] = "cancel" /\ work' = work
      BY <1>6, <2>2 DEF Cancelled
    <3>2. indices \in SUBSET DOMAIN orders[m]
      OBVIOUS
    <3> HIDE DEF indices
    <3>3. Thinned(orders[n], orders'[n])
      BY <1>2, <3>1, <3>2
    <3> QED  BY <1>0, <2>2, <3>1, <3>3, OwedKept
  <2> QED  BY <1>3, <1>6, <2>1, <2>2
<1>7. ASSUME NEW m \in Markets, CancelFails(m) \/ Posted(m) \/ NotPosted(m) \/ Quarantined(m)
      PROVE  Owed(n)'
  <2>1. n = m => stage'[n] = "idle"
    BY <1>7 DEF CancelFails, Posted, NotPosted, Quarantined, Leave, Typed, Exclusive
  <2> QED  BY <1>1, <1>3, <1>7, <2>1
<1>8. ASSUME NEW m \in Markets, NEW i \in DOMAIN orders[m], Fill(m, i) PROVE Owed(n)'
  <2>1. Thinned(orders[n], orders'[n])
    <3>1. CASE n # m
      <4>1. orders'[n] = orders[n]
        BY <1>8, <3>1, FillMarks
      <4> QED  BY <1>0, <4>1
    <3>2. CASE n = m
      <4> DEFINE s == orders[m]
                 t == orders'[m]
                 f == [j \in DOMAIN s |-> j]
      <4>1. DOMAIN t = DOMAIN s /\ \A j \in DOMAIN s :
              /\ t[j].id = s[j].id /\ t[j].side = s[j].side /\ t[j].tok = s[j].tok
              /\ t[j].price = s[j].price /\ t[j].size = s[j].size
        BY <1>8, FillMarks
      <4>2. f \in [DOMAIN s -> DOMAIN s] /\ \A j \in DOMAIN s : f[j] = j
        OBVIOUS
      <4> HIDE DEF s, t, f
      <4>3. Thinned(s, t)
        BY <4>1, <4>2 DEF Thinned
      <4> QED  BY <3>2, <4>3 DEF s, t
    <3> QED  BY <3>1, <3>2
  <2>2. work' = work /\ stage' = stage
    BY <1>8 DEF Fill
  <2> QED  BY <1>0, <2>1, <2>2, OwedKept
<1>9. ASSUME NEW m \in Markets, NEW i \in DOMAIN orders[m], OrderGone(m, i) PROVE Owed(n)'
  <2> DEFINE indices == {j \in DOMAIN orders[m] : orders[m][j].id \notin {orders[m][i].id}}
  <2>1. orders' = [orders EXCEPT ![m] = Pick(orders[m], indices)]
    BY <1>9 DEF OrderGone, Without
  <2>2. indices \in SUBSET DOMAIN orders[m]
    OBVIOUS
  <2> HIDE DEF indices
  <2>3. Thinned(orders[n], orders'[n])
    BY <1>2, <2>1, <2>2
  <2>4. work' = work /\ stage' = stage
    BY <1>9 DEF OrderGone
  <2> QED  BY <1>0, <2>3, <2>4, OwedKept
<1>10. ASSUME UNCHANGED <<orders, work, stage>> PROVE Owed(n)'
  BY <1>0, <1>10, OwedKept
<1>11. ASSUME NEW t \in trades, Trade(t) PROVE Owed(n)'
  BY <1>10, <1>11 DEF Trade
<1>12. CASE UNCHANGED vars
  BY <1>10, <1>12 DEF vars
<1> QED  BY <1>4, <1>5, <1>6, <1>7, <1>8, <1>9, <1>11, <1>12 DEF Next

\* A placed quote rests just as it was planned, behind the orders before it.
LEMMA PlacedServe ==
  ASSUME Typed, NEW m \in Markets
  PROVE  LET s == orders[m]
             place == work[m].place
             w == WithPlaced(m)
         IN  /\ DOMAIN w = 1 .. Len(s) + Len(place)
             /\ \A i \in 1 .. Len(s) : w[i] = s[i]
             /\ \A j \in 1 .. Len(place) : Serves(w[Len(s) + j], place[j], P[m])
<1> DEFINE s == orders[m]
           place == work[m].place
           t == [i \in DOMAIN place |->
                  [tok |-> place[i].tok, side |-> place[i].side, price |-> place[i].price,
                   size |-> place[i].size, id |-> FreeId(i), filled |-> FALSE]]
           w == s \o t
           T == {t[i] : i \in DOMAIN place}
<1>1. WithPlaced(m) = w
  BY DEF WithPlaced
<1>2. /\ s \in Seq(Resting(P[m])) /\ place \in Seq(Sound(P[m])) /\ P[m] \in Profile
      /\ Len(s) \in Nat /\ Len(place) \in Nat /\ DOMAIN place = 1 .. Len(place)
  BY Settings DEF Typed, OrdersTyped, WorkTyped, Working
<1>3. \A i \in DOMAIN place : t[i].tok = place[i].tok /\ t[i].side = place[i].side
                              /\ t[i].price = place[i].price /\ t[i].size = place[i].size
  OBVIOUS
<1>4. t \in Seq(T) /\ Len(t) = Len(place)
  <2>1. t = [i \in DOMAIN place |-> t[i]] /\ \A i \in DOMAIN place : t[i] \in T
    OBVIOUS
  <2>2. DOMAIN place = 1 .. Len(place) /\ Len(place) \in Nat
    BY <1>2
  <2> HIDE DEF t, T, place, s
  <2> QED  BY <2>1, <2>2
<1> HIDE DEF s, place, t, T
<1>5. /\ DOMAIN w = 1 .. Len(s) + Len(place)
      /\ \A i \in 1 .. Len(s) : w[i] = s[i]
      /\ \A j \in 1 .. Len(place) : w[Len(s) + j] = t[j]
  <2>0. s \in Seq(Resting(P[m]) \union T) /\ t \in Seq(Resting(P[m]) \union T)
    <3> DEFINE R == Resting(P[m])
    <3> HIDE DEF R
    <3>1. s \in Seq(R)
      BY <1>2 DEF R
    <3>2. s \in Seq(R \union T) /\ t \in Seq(R \union T)
      BY <1>4, <3>1, SeqWider, R \subseteq R \union T, T \subseteq R \union T
    <3> QED  BY <3>2 DEF R
  <2> DEFINE U == Resting(P[m]) \union T
  <2>a. s \in Seq(U) /\ t \in Seq(U)
    BY <2>0
  <2> HIDE DEF U
  <2>1. Len(s \o t) = Len(s) + Len(t) /\ s \o t \in Seq(U)
    BY <2>a
  <2>2. DOMAIN w = 1 .. Len(s) + Len(place)
    BY <1>4, <2>1
  <2>3. \A i \in 1 .. Len(s) : w[i] = s[i]
    BY <2>a
  <2>4. \A j \in 1 .. Len(t) : (s \o t)[Len(s) + j] = t[j]
    BY <2>a
  <2> QED  BY <1>4, <2>2, <2>3, <2>4
<1>6. ASSUME NEW j \in 1 .. Len(place) PROVE Serves(w[Len(s) + j], place[j], P[m])
  <2> DEFINE q == place[j]
             o == w[Len(s) + j]
             p == P[m]
  <2>1. o.tok = q.tok /\ o.side = q.side /\ o.price = q.price /\ o.size = q.size
    BY <1>2, <1>3, <1>5
  <2>2. q \in Sound(p) /\ q.price \in Int /\ q.size \in Nat
    BY <1>2 DEF Sound, QuoteRec
  <2>3. p.reprice \in Nat /\ p.tick \in Nat /\ p.resize \in Nat
    BY <1>2, Tolerances
  <2> HIDE DEF q, o, p, w
  <2>4. Distance(q.price, q.price) = 0 /\ Distance(q.size, q.size) = 0
    <3>1. \A x \in Int : Distance(x, x) = 0
      BY Apart
    <3>2. q.price \in Int /\ q.size \in Int
      BY <2>2
    <3> QED  BY <3>1, <3>2
  <2>5. Close(o, q, p)
    <3>1. 0 <= p.reprice * p.tick /\ 100 * 0 <= p.resize * q.size
      BY <2>2, <2>3
    <3> QED  BY <2>1, <2>4, <3>1 DEF Close
  <2>6. Serves(o, q, p)
    BY <2>1, <2>5 DEF Serves
  <2> QED  BY <2>6 DEF q, o, p
<1> QED  BY <1>1, <1>5, <1>6 DEF s, place

\* If nothing moved, what is owed is what a second run of the reconciler finds at rest.
LEMMA StableFromOwed ==
  ASSUME Typed, RawEdged, NoBoundedMoves, \A m \in Markets : Owed(m)
  PROVE  Stable
<1> SUFFICES ASSUME NEW m \in Markets,
                    stage[m] = "place", Ids(orders[m]) = work[m].keep,
                    work[m].values = Values(mark), work[m].buys = [Buys EXCEPT ![m] = 0]
             PROVE  LET again == Reconcile(FitToHeadroom(work[m].raw, Room(m), P[m]),
                                           WithPlaced(m), P[m])
                    IN  again.place = <<>> /\ again.keep = Ids(WithPlaced(m))
  BY DEF Stable
<1> DEFINE target == FitToHeadroom(work[m].raw, Room(m), P[m])
           w == WithPlaced(m)
           place == work[m].place
           s == orders[m]
<1>1. Aim(m) = target
  BY RoomNoted DEF Aim
<1>2. /\ P[m] \in Profile /\ P[m].max_reprice = 0 /\ target \in Seq(Sound(P[m]))
      /\ s \in Seq(Resting(P[m])) /\ Distinct(s) /\ place \in Seq(Sound(P[m]))
  BY TargetIs, Settings DEF NoBoundedMoves, Typed, OrdersTyped, WorkTyped, Working
<1>3. PICK a, at : Planned(target, Len(target), s, work[m].keep, place, a, at, P[m])
  BY <1>1 DEF Owed
<1>4. w \in Seq(Resting(P[m])) /\ Distinct(w)
  BY <1>2, OrdersPlaced DEF Typed
<1>5. /\ DOMAIN w = 1 .. Len(s) + Len(place)
      /\ \A i \in 1 .. Len(s) : w[i] = s[i]
      /\ \A j \in 1 .. Len(place) : Serves(w[Len(s) + j], place[j], P[m])
  BY PlacedServe
<1>6. Ids(s) = work[m].keep
  OBVIOUS
<1>7. Len(place) \in Nat
  BY <1>2
<1> HIDE DEF target, w, place, s
<1>8. Reconcile(target, w, P[m]).place = <<>> /\ Reconcile(target, w, P[m]).keep = Ids(w)
  <2> DEFINE p == P[m]
             keep == work[m].keep
  <2>1. p \in Profile /\ p.max_reprice = 0 /\ target \in Seq(Sound(p)) /\ s \in Seq(Resting(p))
    BY <1>2
  <2>2. Planned(target, Len(target), s, keep, place, a, at, p) /\ Ids(s) = keep
    BY <1>3, <1>6
  <2>3. w \in Seq(Resting(p)) /\ Distinct(w) /\ Len(place) \in Nat
    BY <1>4, <1>7
  <2>4. /\ DOMAIN w = 1 .. Len(s) + Len(place)
        /\ \A i \in 1 .. Len(s) : w[i] = s[i]
        /\ \A j \in 1 .. Len(place) : Serves(w[Len(s) + j], place[j], p)
    BY <1>5
  <2> HIDE DEF p, keep
  <2>5. Reconcile(target, w, p).place = <<>> /\ Reconcile(target, w, p).keep = Ids(w)
    BY ONLY <2>1, <2>2, <2>3, <2>4, PlansAgain
  <2> QED  BY <2>5 DEF p
<1> QED  BY <1>8 DEF target, w

\* Stable for any markets, caps, books and tolerances when no order is moved in bounded steps
\* (a bounded move stops short of its target, so that the next recompute moves it on).
THEOREM StableHolds ==
  ASSUME NoBoundedMoves
  PROVE  Spec => []Stable
<1> DEFINE Inv == Typed /\ RawEdged /\ \A m \in Markets : Owed(m)
<1>1. Init => Inv
  <2>1. Init => \A m \in Markets : Owed(m)
    BY DEF Init, Owed
  <2> QED  BY <2>1, TypedInit, RawInit
<1>2. Inv /\ [Next]_vars => Inv'
  <2> SUFFICES ASSUME Inv, [Next]_vars PROVE Inv'
    OBVIOUS
  <2>1. Typed' /\ RawEdged'
    BY TypedNext, RawKept
  <2>2. \A m \in Markets : Owed(m)'
    BY <2>1, OwedNext
  <2> QED  BY <2>1, <2>2
<1>3. Inv => Stable
  BY StableFromOwed
<1> QED  BY <1>1, <1>2, <1>3, PTL DEF Spec

-------------------------------------------------------------------------------
(* Bounded moves *)

\* How far an order is moved at once where the settings bound it.
Step(p) == Max({1, p.max_reprice}) * p.tick

\* A step is a number of sub-units.
LEMMA StepTyped ==
  ASSUME NEW p \in Profile
  PROVE  Step(p) \in Int /\ Step(p) >= 0
<1> DEFINE ticks == Max({1, p.max_reprice})
<1>1. p.max_reprice \in Int /\ p.tick \in Int
  BY Ticks DEF Profile
<1>2. \A a, b \in Int : Max({a, b}) \in Int /\ Max({a, b}) >= a
  BY MaxOfTwo
<1>3. ticks \in Int /\ ticks >= 1
  BY <1>1, <1>2, 1 \in Int, Zenon
<1> DEFINE t == p.tick
<1>5. t \in Nat
  BY Ticks
<1> HIDE DEF ticks, t
<1>6. ticks \in Nat
  BY <1>3
<1>4. ticks * t \in Nat
  BY <1>5, <1>6
<1> QED  BY <1>4 DEF Step, ticks, t

\* A quote is moved only if the nearest order is more than a step away, and to a step from it.
LEMMA BoundedIs ==
  ASSUME NEW p \in Profile, NEW q \in Sound(p), NEW live \in Seq(Resting(p)),
         NEW free \in SUBSET DOMAIN live
  PROVE  \/ Bounded(q, live, free, p).quote = q
         \/ \E i \in free :
              LET a == live[i].price
              IN  /\ Distance(q.price, a) > Step(p)
                  /\ Bounded(q, live, free, p).quote =
                       [q EXCEPT !.price = Clamp(a + (IF q.price > a THEN Step(p) ELSE -Step(p)),
                                                 p.tick, One - p.tick)]
<1> DEFINE gap(i) == Distance(live[i].price, q.price)
           near == {i \in free : \A j \in free : gap(i) <= gap(j)}
           at == Min(near)
           anchor == live[at]
           moved(i) == [q EXCEPT !.price = Clamp(live[i].price
                          + (IF q.price > live[i].price THEN Step(p) ELSE -Step(p)),
                          p.tick, One - p.tick)]
           next(i) == IF Distance(q.price, live[i].price) > Step(p) THEN moved(i) ELSE q
<1>1. Bounded(q, live, free, p) =
        IF p.max_reprice = 0 \/ free = {} THEN [quote |-> q, anchor |-> {}]
        ELSE [quote |-> next(at), anchor |-> {anchor.id}]
  BY DEF Bounded, Step
<1>2. CASE p.max_reprice = 0 \/ free = {}
  <2>1. Bounded(q, live, free, p) = [quote |-> q, anchor |-> {}]
    BY <1>1, <1>2
  <2> QED  BY <2>1
<1>3. CASE p.max_reprice # 0 /\ free # {}
  <2>1. near \in SUBSET free /\ near # {}
    <3> DEFINE g == [i \in free |-> gap(i)]
    <3>1. \A i \in free : g[i] \in Nat
      <4> SUFFICES ASSUME NEW i \in free PROVE gap(i) \in Nat
        OBVIOUS
      <4>1. live[i] \in Resting(p)
        OBVIOUS
      <4>2. live[i].price \in Int /\ q.price \in Int
        BY <4>1, RestingCost, SoundCost
      <4> QED  BY <4>2, Apart
    <3>2. {i \in free : \A j \in free : g[i] <= g[j]} # {}
      <4> HIDE DEF g
      <4> QED  BY <1>3, <3>1, Nearest
    <3> QED  BY <3>2
  <2> HIDE DEF near, gap
  <2>2. at \in free
    <3>1. DOMAIN live = 1 .. Len(live) /\ Len(live) \in Nat
      OBVIOUS
    <3>2. near \in SUBSET (0 .. Len(live))
      BY <2>1, <3>1
    <3> QED  BY <2>1, <3>1, <3>2, Extremes
  <2>3. Bounded(q, live, free, p) = [quote |-> next(at), anchor |-> {anchor.id}]
    BY <1>1, <1>3
  <2> HIDE DEF at
  <2>4. Bounded(q, live, free, p).quote = next(at)
    <3> HIDE DEF next
    <3> QED  BY <2>3
  <2>5. next(at) = q \/ (Distance(q.price, live[at].price) > Step(p) /\ next(at) = moved(at))
    BY Zenon
  <2> QED  BY <2>2, <2>4, <2>5
<1> QED  BY <1>2, <1>3

\* A sound quote that keeps its edge as a BUY, or is one step below a BUY of its outcome.
Descending(p, fv, live) ==
  {q \in Sound(p) :
     q.side = "BUY" =>
       \/ q.price <= Dearest(p, fv, q.tok)
       \/ \E i \in DOMAIN live : /\ live[i].tok = q.tok /\ live[i].side = "BUY"
                                 /\ q.price = live[i].price - Step(p)}

\* Between the ends a price is clamped to itself, above to less than it was.
LEMMA ClampedBetween ==
  ASSUME NEW t \in Int, NEW x \in Int, NEW u \in Int, t <= u
  PROVE  /\ Clamp(x, t, u) \in Int
         /\ x >= t => Clamp(x, t, u) <= x
         /\ x >= t /\ x <= u => Clamp(x, t, u) = x
<1> DEFINE y == Max({x, t})
           c == Min({y, u})
<1>1. y \in Int /\ (x >= t => y = x)
  <2>1. \A k, l \in Int : Max({k, l}) \in Int /\ (k >= l => Max({k, l}) = k)
    BY MaxOfTwo
  <2> QED  BY <2>1, Zenon
<1>2. Clamp(x, t, u) = c
  BY DEF Clamp
<1> HIDE DEF y
<1>3. c \in Int /\ c <= y /\ (y <= u => c = y)
  <2>1. \A k, l \in Int : Min({k, l}) \in Int /\ Min({k, l}) <= k /\ (k <= l => Min({k, l}) = k)
    BY MinOfTwo
  <2> QED  BY <1>1, <2>1, Zenon
<1> HIDE DEF c
<1>4. c \in Int /\ (x >= t => c <= x) /\ (x >= t /\ x <= u => c = x)
  BY <1>1, <1>3
<1> QED  BY <1>2, <1>4

\* A target that keeps its edge is moved to where it keeps it, or one step down from an order.
LEMMA BoundedDescends ==
  ASSUME NEW p \in Profile, NEW fv \in Int, NEW q \in Edged(p, fv),
         NEW live \in Seq(Resting(p)),
         NEW free \in SUBSET {i \in DOMAIN live : live[i].tok = q.tok /\ live[i].side = q.side}
  PROVE  Bounded(q, live, free, p).quote \in Descending(p, fv, live)
<1> DEFINE b == Bounded(q, live, free, p).quote
<1>1. /\ q \in Sound(p) /\ free \in SUBSET DOMAIN live
      /\ (q.side = "BUY" => q.price <= Dearest(p, fv, q.tok))
  BY DEF Edged
<1>2. b \in Sound(p) /\ b.tok = q.tok /\ b.side = q.side
  BY <1>1, BoundedSound
<1>3. \/ b = q
      \/ \E i \in free :
           LET a == live[i].price
           IN  /\ Distance(q.price, a) > Step(p)
               /\ b = [q EXCEPT !.price = Clamp(a + (IF q.price > a THEN Step(p) ELSE -Step(p)),
                                                p.tick, One - p.tick)]
  BY <1>1, BoundedIs
<1> HIDE DEF b
<1> SUFFICES ASSUME q.side = "BUY"
             PROVE  \/ b.price <= Dearest(p, fv, q.tok)
                    \/ \E i \in DOMAIN live : /\ live[i].tok = q.tok /\ live[i].side = "BUY"
                                              /\ b.price = live[i].price - Step(p)
  BY <1>2 DEF Descending, b
<1>4. CASE b = q
  BY <1>1, <1>4
<1>5. ASSUME NEW i \in free,
             Distance(q.price, live[i].price) > Step(p),
             b = [q EXCEPT !.price =
                    Clamp(live[i].price + (IF q.price > live[i].price THEN Step(p) ELSE -Step(p)),
                          p.tick, One - p.tick)]
      PROVE  \/ b.price <= Dearest(p, fv, q.tok)
             \/ \E j \in DOMAIN live : /\ live[j].tok = q.tok /\ live[j].side = "BUY"
                                       /\ b.price = live[j].price - Step(p)
  <2> DEFINE a == live[i].price
             t == p.tick
             s == Step(p)
             x == q.price
             to == a + (IF x > a THEN s ELSE -s)
             d == Dearest(p, fv, q.tok)
  <2>1. /\ a \in Int /\ x \in Int /\ t \in Int /\ s \in Int /\ d \in Int
        /\ x \in t .. One - t /\ a \in t .. One - t /\ 2 * t <= One
    <3>1. live[i] \in Resting(p)
      OBVIOUS
    <3>2. OnGrid(p, a) /\ OnGrid(p, x) /\ a \in Int /\ x \in Int
      BY <1>1, <3>1, RestingCost, SoundCost DEF Sound
    <3>3. t \in Int /\ s \in Int /\ d \in Int /\ 2 * t <= One
      BY Ticks, StepTyped, DearestTyped
    <3> HIDE DEF s, d
    <3> QED  BY <3>2, <3>3 DEF OnGrid
  <2>2. b.price = Clamp(to, t, One - t)
    <3>1. q \in QuoteRec
      BY <1>1 DEF Sound
    <3> QED  BY <1>5, <3>1 DEF QuoteRec
  <2>3. Distance(x, a) > s
    BY <1>5
  <2>0. s >= 0
    BY StepTyped
  <2> HIDE DEF a, t, s, x, d
  <2>7. t \in Int /\ One - t \in Int /\ t <= One - t
    BY <2>1, OneAssumption
  <2>4. Distance(x, a) = x - a \/ Distance(x, a) = a - x
    BY <2>1, Apart
  <2>5. CASE x > a
    <3>1. to = a + s
      BY <2>5
    <3>2. to \in Int /\ to >= t /\ to <= x
      BY <2>0, <2>1, <2>3, <2>4, <2>5, <3>1
    <3> HIDE DEF to
    <3>3. Clamp(to, t, One - t) <= to /\ Clamp(to, t, One - t) \in Int
      <4> DEFINE u == One - t
      <4>1. u \in Int /\ t \in Int /\ t <= u
        BY <2>7
      <4> HIDE DEF u
      <4>2. Clamp(to, t, u) <= to /\ Clamp(to, t, u) \in Int
        BY <3>2, <4>1, ClampedBetween
      <4> QED  BY <4>2 DEF u
    <3>4. x <= d
      BY <1>1 DEF x, d
    <3>5. b.price <= d
      BY <2>1, <2>2, <3>2, <3>3, <3>4
    <3> QED  BY <3>5 DEF d
  <2>6. CASE ~(x > a)
    <3>1. to = a - s
      BY <2>1, <2>6
    <3>2. to \in Int /\ to >= t /\ to <= One - t
      BY <2>0, <2>1, <2>3, <2>4, <2>6, <3>1, OneAssumption
    <3> HIDE DEF to
    <3>4. Clamp(to, t, One - t) = to
      <4> DEFINE u == One - t
      <4>1. u \in Int /\ t \in Int /\ t <= u /\ to <= u
        BY <2>7, <3>2
      <4> HIDE DEF u
      <4>2. Clamp(to, t, u) = to
        BY <3>2, <4>1, ClampedBetween
      <4> QED  BY <4>2 DEF u
    <3>3. b.price = to
      BY <2>2, <3>4, Zenon
    <3> QED  BY <3>1, <3>3 DEF a, s
  <2> QED  BY <2>5, <2>6
<1> QED  BY <1>3, <1>4, <1>5

\* A target adds to what is placed nothing but a quote that descends.
LEMMA MatchDescends ==
  ASSUME NEW p \in Profile, NEW fv \in Int, NEW q \in Edged(p, fv),
         NEW live \in Seq(Resting(p)), NEW done,
         done.place \in Seq(Descending(p, fv, live))
  PROVE  MatchTarget(done, q, live, p).place \in Seq(Descending(p, fv, live))
<1> DEFINE same == {i \in DOMAIN live : live[i].tok = q.tok /\ live[i].side = q.side}
           free == {i \in same : live[i].id \notin done.anchors}
           bound == Bounded(q, live, free, p)
           near == {i \in same : live[i].id \notin done.keep /\ Close(live[i], bound.quote, p)}
           kept == done.keep \union (IF near = {} THEN {} ELSE {live[Min(near)].id})
           old == done.place
           place == IF near = {} THEN Append(old, bound.quote) ELSE old
           D == Descending(p, fv, live)
<1>1. MatchTarget(done, q, live, p) =
        [anchors |-> done.anchors \union bound.anchor, keep |-> kept, place |-> place]
  BY DEF MatchTarget
<1>2. bound.quote \in D
  <2>1. free \in SUBSET same
    OBVIOUS
  <2> HIDE DEF free, D
  <2>2. bound.quote \in Descending(p, fv, live)
    BY <2>1, BoundedDescends
  <2> QED  BY <2>2 DEF D
<1>3. old \in Seq(D)
  OBVIOUS
<1> HIDE DEF bound, near, kept, old, D
<1>4. place \in Seq(D)
  BY <1>2, <1>3
<1> HIDE DEF place
<1> QED  BY <1>1, <1>4 DEF D

\* Whatever the profile, what is placed descends.
LEMMA ReconciledDescends ==
  ASSUME NEW p \in Profile, NEW fv \in Int, NEW live \in Seq(Resting(p)),
         NEW target \in Seq(Edged(p, fv))
  PROVE  Reconcile(target, live, p).place \in Seq(Descending(p, fv, live))
<1> DEFINE L == Len(target)
           D == Descending(p, fv, live)
<1>1. PICK done : /\ Reconcile(target, live, p) = done[L]
                  /\ done[0] = [anchors |-> {}, keep |-> {}, place |-> <<>>]
                  /\ \A n \in 1 .. L : done[n] = MatchTarget(done[n - 1], target[n], live, p)
  BY ReconcileIs
<1> DEFINE N == {n \in Nat : n <= L => done[n].place \in Seq(D)}
<1>2. 0 \in N
  <2>1. done[0].place = <<>>
    BY <1>1
  <2> HIDE DEF D
  <2>2. <<>> \in Seq(D)
    OBVIOUS
  <2> QED  BY <2>1, <2>2
<1>3. ASSUME NEW n \in Nat, n \in N PROVE n + 1 \in N
  <2> SUFFICES ASSUME n + 1 <= L PROVE done[n + 1].place \in Seq(D)
    OBVIOUS
  <2>1. n <= L /\ n + 1 \in 1 .. L /\ (n + 1) - 1 = n
    OBVIOUS
  <2>2. target[n + 1] \in Edged(p, fv)
    BY <2>1
  <2>3. done[n + 1] = MatchTarget(done[n], target[n + 1], live, p)
    BY <1>1, <2>1
  <2>4. done[n].place \in Seq(D)
    BY <1>3, <2>1
  <2> QED  BY <2>2, <2>3, <2>4, MatchDescends
<1> HIDE DEF N
<1>4. Nat \subseteq N
  BY <1>2, <1>3, Induction
<1>5. L \in Nat
  OBVIOUS
<1>6. done[L].place \in Seq(D)
  BY <1>4, <1>5 DEF N
<1> QED  BY <1>1, <1>6

\* What the fit plans for m to place as a BUY is min_edge below the fair value, or one
\* bounded step below a BUY of that outcome that rests when the fit is made.
Followed(m) ==
  \A k \in DOMAIN work'[m].place :
    LET q == work'[m].place[k]
    IN  q.side = "BUY" =>
          \/ q.price <= Dearest(P[m], mark[m], q.tok)
          \/ \E i \in DOMAIN orders[m] :
               /\ orders[m][i].tok = q.tok /\ orders[m][i].side = "BUY"
               /\ q.price = orders[m][i].price - Step(P[m])

\* The fit plans nothing else.
LEMMA FitFollows ==
  ASSUME Typed, RawEdged, NEW m \in Markets, Fit(m)
  PROVE  Followed(m)
<1> DEFINE target == FitToHeadroom(work[m].raw, Room(m), P[m])
           plan == Reconcile(target, orders[m], P[m])
           new == [raw |-> work[m].raw, keep |-> plan.keep, place |-> plan.place,
                   values |-> Values(mark), buys |-> [Buys EXCEPT ![m] = 0]]
<1>1. PICK next \in {"idle", "cancel", "place"} :
        /\ stage' = [stage EXCEPT ![m] = next]
        /\ next # "place" /\ next # "cancel" => work' = [work EXCEPT ![m] = NoWork]
        /\ next # "idle" => work' = [work EXCEPT ![m] = new]
  BY FitDoes, Zenon
<1>2. /\ target \in Seq(Edged(P[m], mark[m])) /\ P[m] \in Profile
      /\ orders[m] \in Seq(Resting(P[m])) /\ mark[m] \in Int
  BY TargetIs, Settings DEF Typed, OrdersTyped, MarkTyped
<1> HIDE DEF target
<1> DEFINE D == Descending(P[m], mark[m], orders[m])
<1>3. plan.place \in Seq(D)
  BY <1>2, ReconciledDescends
<1>4. new.place = plan.place
  OBVIOUS
<1> HIDE DEF plan, new
<1>5. work'[m] = NoWork \/ work'[m] = new
  BY <1>1 DEF Typed, WorkTyped
<1>6. work'[m].place \in Seq(D)
  <2>1. NoWork.place \in Seq(D)
    <3>1. NoWork.place = <<>>
      BY NoWorkTyped
    <3> HIDE DEF D
    <3> QED  BY <3>1
  <2> HIDE DEF D
  <2> QED  BY <1>3, <1>4, <1>5, <2>1
<1> DEFINE place == work'[m].place
<1>7. \A k \in DOMAIN place : place[k] \in D
  <2> HIDE DEF D
  <2>1. place \in Seq(D)
    BY <1>6
  <2> HIDE DEF place
  <2> QED  BY <2>1
<1> QED  BY <1>7 DEF Followed, Descending

\* For every profile, with bounded moves or without: a BUY that the reconciler plans above the
\* edge of the fair value follows it down, by exactly one step from an order that rests.
THEOREM MovesFollow ==
  Spec => [][\A m \in Markets : Fit(m) => Followed(m)]_vars
<1>1. Init => Typed /\ RawEdged
  BY TypedInit, RawInit
<1>2. Typed /\ RawEdged /\ [Next]_vars => (Typed /\ RawEdged)'
  BY TypedNext, RawKept
<1>3. Typed /\ RawEdged => \A m \in Markets : Fit(m) => Followed(m)
  BY FitFollows
<1>4. Typed /\ RawEdged /\ [Next]_vars => [\A m \in Markets : Fit(m) => Followed(m)]_vars
  BY <1>3
<1> QED  BY <1>1, <1>2, <1>4, PTL DEF Spec
===============================================================================
