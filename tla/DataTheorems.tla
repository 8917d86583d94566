---------------------------- MODULE DataTheorems ---------------------------
(***************************************************************************)
(* The data the models are built from: SumFunctionOnSet over finite sets,  *)
(* whose sum does not depend on the order of its terms, Selected, the      *)
(* filter over a list, recursive functions over the natural numbers and    *)
(* among them the powers of two.                                           *)
(* All are proved from the equations that the recursive functions stand    *)
(* for.  Induction is in its set form: a set of subsets that holds the     *)
(* empty set and is closed under adding an element holds every finite set. *)
(***************************************************************************)
EXTENDS Integers, Selection, Powers, Functions, FiniteSets, FiniteSetTheorems, WellFoundedInduction,
        TLAPS

\* Induction over the subsets of a finite set: what holds of a set whenever it
\* holds of the set less any one element holds of S.
LEMMA SetInduction ==
    ASSUME NEW S, IsFiniteSet(S), NEW Good,
           \A T \in SUBSET S : (\A x \in T : T \ {x} \in Good) => T \in Good
    PROVE  S \in Good
  <1> DEFINE Bad == (SUBSET S) \ Good
  <1>1. SUFFICES ASSUME Bad # {} PROVE FALSE
    OBVIOUS
  <1>2. IsWellFoundedOn(StrictSubsetOrdering(S), SUBSET S)
    BY FS_StrictSubsetOrderingWellFounded, FS_FiniteSubsetsOfFinite
  <1>3. PICK T \in Bad : \A U \in Bad : <<U, T>> \notin StrictSubsetOrdering(S)
    <2> HIDE DEF Bad
    <2>1. Bad \subseteq SUBSET S
      BY DEF Bad
    <2> QED
      BY <1>1, <1>2, <2>1, WFMin
  <1>4. ASSUME NEW x \in T PROVE T \ {x} \in Good
    <2>1. T \ {x} \in SUBSET S /\ T \in SUBSET S
      OBVIOUS
    <2>2. T \ {x} \subseteq T /\ T \ {x} # T
      OBVIOUS
    <2>3. <<T \ {x}, T>> \in StrictSubsetOrdering(S)
      BY <2>1, <2>2 DEF StrictSubsetOrdering
    <2> QED
      BY <1>3, <2>1, <2>3
  <1> QED
    BY <1>3, <1>4

\* Induction over the natural numbers.
LEMMA NatSetInduction ==
    ASSUME NEW Good, 0 \in Good, \A n \in Nat : n \in Good => n + 1 \in Good
    PROVE  \A n \in Nat : n \in Good
  <1> DEFINE Bad == Nat \ Good
  <1>1. SUFFICES ASSUME Bad # {} PROVE FALSE
    OBVIOUS
  <1>2. PICK n \in Bad : \A m \in Bad : <<m, n>> \notin OpToRel(<, Nat)
    <2> HIDE DEF Bad
    <2>1. Bad \subseteq Nat
      BY DEF Bad
    <2> QED
      BY <1>1, <2>1, NatLessThanWellFounded, WFMin
  <1>3. n # 0 /\ n - 1 \in Nat
    OBVIOUS
  <1>4. n - 1 \in Good
    <2>1. <<n - 1, n>> \in OpToRel(<, Nat)
      BY <1>3 DEF OpToRel
    <2> QED
      BY <1>2, <1>3, <2>1
  <1>5. (n - 1) + 1 \in Good
    BY <1>3, <1>4
  <1> QED
    BY <1>5

\* Induction over an interval from 0.
LEMMA IntervalInduction ==
    ASSUME NEW n \in Nat, NEW Good, 0 \in Good,
           \A i \in 0..(n - 1) : i \in Good => i + 1 \in Good
    PROVE  \A i \in 0..n : i \in Good
  <1> DEFINE Upto == {i \in Nat : i <= n => i \in Good}
  <1>1. 0 \in Upto
    OBVIOUS
  <1>2. ASSUME NEW i \in Nat, i \in Upto PROVE i + 1 \in Upto
    <2>1. i + 1 <= n => i \in 0..(n - 1)
      OBVIOUS
    <2> QED
      BY <1>2, <2>1
  <1> HIDE DEF Upto
  <1>3. \A i \in Nat : i \in Upto
    BY <1>1, <1>2, NatSetInduction
  <1> QED
    BY <1>3 DEF Upto

Pick(S) == CHOOSE x \in S : TRUE

\* The recursive equation of a sum's partial sums over the subsets of S.
IsIter(f, g, S) ==
    g = [s \in SUBSET S |-> IF s = {} THEN 0 ELSE f[Pick(s)] + g[s \ {Pick(s)}]]

\* A sum is the value at S of such a function.
LEMMA SumIsIter ==
    ASSUME NEW f, NEW S
    PROVE  SumFunctionOnSet(f, S) = (CHOOSE g : IsIter(f, g, S))[S]
  BY DEF SumFunctionOnSet, FoldFunctionOnSet, MapThenFoldSet, IsIter, Pick

\* Partial sums are determined by their equation.
LEMMA IterUnique ==
    ASSUME NEW f, NEW S, IsFiniteSet(S), NEW T, S \subseteq T, NEW g, NEW h,
           IsIter(f, g, S), IsIter(f, h, T)
    PROVE  g[S] = h[S]
  <1> DEFINE Good == {s \in SUBSET S : g[s] = h[s]}
  <1>1. ASSUME NEW s \in SUBSET S, \A x \in s : s \ {x} \in Good
        PROVE  s \in Good
    <2>1. CASE s = {}
      BY <2>1 DEF IsIter
    <2>2. CASE s # {}
      <3>1. Pick(s) \in s
        BY <2>2 DEF Pick
      <3>2. g[s \ {Pick(s)}] = h[s \ {Pick(s)}]
        BY <1>1, <3>1
      <3>3. g[s] = f[Pick(s)] + g[s \ {Pick(s)}]
        BY <2>2 DEF IsIter
      <3>4. h[s] = f[Pick(s)] + h[s \ {Pick(s)}]
        BY <2>2 DEF IsIter
      <3> QED
        BY <3>2, <3>3, <3>4
    <2> QED
      BY <2>1, <2>2
  <1> HIDE DEF Good
  <1>2. S \in Good
    BY <1>1, SetInduction
  <1> QED
    BY <1>2 DEF Good

\* The equation for a part of the set.
LEMMA IterSubset ==
    ASSUME NEW f, NEW T, NEW S \in SUBSET T, NEW g, IsIter(f, g, T)
    PROVE  IsIter(f, [s \in SUBSET S |-> g[s]], S)
  <1> DEFINE h == [s \in SUBSET S |-> g[s]]
  <1>1. ASSUME NEW s \in SUBSET S
        PROVE  h[s] = IF s = {} THEN 0 ELSE f[Pick(s)] + h[s \ {Pick(s)}]
    <2>1. g[s] = IF s = {} THEN 0 ELSE f[Pick(s)] + g[s \ {Pick(s)}]
      BY DEF IsIter
    <2>2. h[s] = g[s] /\ h[s \ {Pick(s)}] = g[s \ {Pick(s)}]
      OBVIOUS
    <2> QED
      BY <2>1, <2>2
  <1>2. h = [s \in SUBSET S |-> IF s = {} THEN 0 ELSE f[Pick(s)] + h[s \ {Pick(s)}]]
    <2> HIDE DEF h
    <2>1. h = [s \in SUBSET S |-> h[s]]
      BY DEF h
    <2> QED
      BY <1>1, <2>1
  <1> QED
    BY <1>2 DEF IsIter

\* Where there are partial sums, they are sums.
LEMMA IterIsSum ==
    ASSUME NEW f, NEW T, IsFiniteSet(T), NEW g, IsIter(f, g, T), NEW S \in SUBSET T
    PROVE  g[S] = SumFunctionOnSet(f, S)
  <1>1. \E h : IsIter(f, h, S)
    BY IterSubset
  <1>2. IsIter(f, CHOOSE h : IsIter(f, h, S), S)
    BY <1>1
  <1>3. IsFiniteSet(S)
    BY FS_Subset
  <1> QED
    BY <1>2, <1>3, IterUnique, SumIsIter

\* Every finite set has partial sums.
LEMMA IterExists ==
    ASSUME NEW f, NEW S, IsFiniteSet(S)
    PROVE  \E g : IsIter(f, g, S)
  <1> DEFINE Good == {T \in SUBSET S : \E g : IsIter(f, g, T)}
  <1>1. ASSUME NEW T \in SUBSET S, \A x \in T : T \ {x} \in Good
        PROVE  T \in Good
    <2> DEFINE Next(s) == IF s = {} THEN 0 ELSE f[Pick(s)] + SumFunctionOnSet(f, s \ {Pick(s)})
               h == [s \in SUBSET T |-> Next(s)]
    <2>1. ASSUME NEW s \in SUBSET T, s # T
          PROVE  SumFunctionOnSet(f, s) = Next(s)
      <3>1. PICK x \in T : s \subseteq T \ {x}
        BY <2>1
      <3>2. PICK g : IsIter(f, g, T \ {x})
        BY <1>1
      <3>3. IsFiniteSet(T \ {x})
        BY FS_Subset
      <3>4. g[s] = SumFunctionOnSet(f, s)
        BY <3>1, <3>2, <3>3, IterIsSum
      <3>5. g[s \ {Pick(s)}] = SumFunctionOnSet(f, s \ {Pick(s)})
        <4>1. s \ {Pick(s)} \in SUBSET (T \ {x})
          BY <3>1
        <4> QED
          BY <4>1, <3>2, <3>3, IterIsSum
      <3>6. g[s] = IF s = {} THEN 0 ELSE f[Pick(s)] + g[s \ {Pick(s)}]
        BY <3>1, <3>2 DEF IsIter
      <3> QED
        BY <3>4, <3>5, <3>6
    <2>2. ASSUME NEW s \in SUBSET T
          PROVE  h[s] = IF s = {} THEN 0 ELSE f[Pick(s)] + h[s \ {Pick(s)}]
      <3>1. CASE s = {}
        BY <3>1
      <3>2. CASE s # {}
        <4>1. Pick(s) \in s
          BY <3>2 DEF Pick
        <4>2. s \ {Pick(s)} \in SUBSET T /\ s \ {Pick(s)} # T
          BY <4>1
        <4>3. h[s \ {Pick(s)}] = SumFunctionOnSet(f, s \ {Pick(s)})
          BY <2>1, <4>2
        <4> QED
          BY <3>2, <4>3
      <3> QED
        BY <3>1, <3>2
    <2>3. IsIter(f, h, T)
      <3> HIDE DEF Next
      <3>1. h = [s \in SUBSET T |-> h[s]]
        OBVIOUS
      <3> HIDE DEF h
      <3> QED
        BY <2>2, <3>1 DEF IsIter
    <2> QED
      BY <2>3
  <1> HIDE DEF Good
  <1>2. S \in Good
    BY <1>1, SetInduction
  <1> QED
    BY <1>2 DEF Good

\* The sum over nothing.
LEMMA SumEmpty == ASSUME NEW f PROVE SumFunctionOnSet(f, {}) = 0
  <1>1. PICK g : IsIter(f, g, {})
    BY IterExists, FS_EmptySet
  <1>2. g[{}] = 0
    BY <1>1 DEF IsIter
  <1> QED
    BY <1>1, <1>2, IterIsSum, FS_EmptySet

\* A sum is its first term and the sum of the rest.
LEMMA SumPick ==
    ASSUME NEW f, NEW S, IsFiniteSet(S), S # {}
    PROVE  SumFunctionOnSet(f, S) = f[Pick(S)] + SumFunctionOnSet(f, S \ {Pick(S)})
  <1>1. PICK g : IsIter(f, g, S)
    BY IterExists
  <1>2. g[S] = f[Pick(S)] + g[S \ {Pick(S)}]
    BY <1>1 DEF IsIter
  <1>3. Pick(S) \in S
    BY DEF Pick
  <1>4. g[S] = SumFunctionOnSet(f, S)
    BY <1>1, IterIsSum
  <1>5. S \ {Pick(S)} \in SUBSET S
    OBVIOUS
  <1>6. g[S \ {Pick(S)}] = SumFunctionOnSet(f, S \ {Pick(S)})
    BY <1>1, <1>5, IterIsSum
  <1> QED
    BY <1>2, <1>4, <1>6

\* The sum of integers is one.
LEMMA SumInt ==
    ASSUME NEW S, IsFiniteSet(S), NEW f, \A x \in S : f[x] \in Int
    PROVE  SumFunctionOnSet(f, S) \in Int
  <1> DEFINE Good == {T \in SUBSET S : SumFunctionOnSet(f, T) \in Int}
  <1>1. ASSUME NEW T \in SUBSET S, \A x \in T : T \ {x} \in Good
        PROVE  T \in Good
    <2>1. CASE T = {}
      BY <2>1, SumEmpty
    <2>2. CASE T # {}
      <3>1. Pick(T) \in T /\ IsFiniteSet(T)
        BY <2>2, FS_Subset DEF Pick
      <3>2. SumFunctionOnSet(f, T) = f[Pick(T)] + SumFunctionOnSet(f, T \ {Pick(T)})
        BY <2>2, <3>1, SumPick
      <3>3. SumFunctionOnSet(f, T \ {Pick(T)}) \in Int
        BY <1>1, <3>1
      <3> QED
        BY <3>1, <3>2, <3>3
    <2> QED
      BY <2>1, <2>2
  <1> HIDE DEF Good
  <1>2. \A T \in SUBSET S : (\A x \in T : T \ {x} \in Good) => T \in Good
    BY <1>1
  <1>3. S \in Good
    BY <1>2, SetInduction
  <1> QED
    BY <1>3 DEF Good

\* Any term may be taken out first.
THEOREM SumRemove ==
    ASSUME NEW S, IsFiniteSet(S), NEW f, \A x \in S : f[x] \in Int, NEW y \in S
    PROVE  SumFunctionOnSet(f, S) = f[y] + SumFunctionOnSet(f, S \ {y})
  <1> DEFINE Good == {T \in SUBSET S : \A x \in T :
                          SumFunctionOnSet(f, T) = f[x] + SumFunctionOnSet(f, T \ {x})}
  <1>1. ASSUME NEW T \in SUBSET S, \A x \in T : T \ {x} \in Good
        PROVE  T \in Good
    <2> SUFFICES ASSUME NEW x \in T
                 PROVE  SumFunctionOnSet(f, T) = f[x] + SumFunctionOnSet(f, T \ {x})
      OBVIOUS
    <2> DEFINE p == Pick(T)
    <2>1. p \in T /\ IsFiniteSet(T)
      BY FS_Subset DEF Pick
    <2>2. SumFunctionOnSet(f, T) = f[p] + SumFunctionOnSet(f, T \ {p})
      BY <2>1, SumPick
    <2> HIDE DEF p
    <2>3. CASE x # p
      <3>1. SumFunctionOnSet(f, T \ {p}) = f[x] + SumFunctionOnSet(f, (T \ {p}) \ {x})
        BY <1>1, <2>1, <2>3
      <3>2. SumFunctionOnSet(f, T \ {x}) = f[p] + SumFunctionOnSet(f, (T \ {x}) \ {p})
        BY <1>1, <2>1, <2>3
      <3>3. (T \ {p}) \ {x} = (T \ {x}) \ {p}
        OBVIOUS
      <3>4. SumFunctionOnSet(f, (T \ {p}) \ {x}) \in Int
        <4>1. IsFiniteSet((T \ {p}) \ {x})
          BY <2>1, FS_Subset
        <4> QED
          BY <4>1, SumInt
      <3>5. f[x] \in Int /\ f[p] \in Int
        BY <2>1
      <3> HIDE DEF Good
      <3> DEFINE both == SumFunctionOnSet(f, (T \ {p}) \ {x})
                 noX == SumFunctionOnSet(f, T \ {x})
                 all == SumFunctionOnSet(f, T)
      <3>6. noX = f[p] + both /\ all = f[p] + (f[x] + both)
        BY <2>2, <3>1, <3>2, <3>3
      <3> QED
        BY <3>4, <3>5, <3>6
    <2> QED
      BY <2>2, <2>3
  <1> HIDE DEF Good
  <1>2. \A T \in SUBSET S : (\A x \in T : T \ {x} \in Good) => T \in Good
    BY <1>1
  <1>3. S \in Good
    BY <1>2, SetInduction
  <1> QED
    BY <1>3 DEF Good

\* A new term adds its value.
THEOREM SumAddElement ==
    ASSUME NEW S, IsFiniteSet(S), NEW f, NEW y, y \notin S,
           f[y] \in Int, \A x \in S : f[x] \in Int
    PROVE  SumFunctionOnSet(f, S \cup {y}) = SumFunctionOnSet(f, S) + f[y]
  <1>1. IsFiniteSet(S \cup {y}) /\ (S \cup {y}) \ {y} = S
    BY FS_AddElement
  <1>2. SumFunctionOnSet(f, S \cup {y}) = f[y] + SumFunctionOnSet(f, S)
    BY <1>1, SumRemove
  <1> QED
    BY <1>2, SumInt

\* Terms that are the same give the same sum.
THEOREM SumSame ==
    ASSUME NEW S, IsFiniteSet(S), NEW f, NEW g, \A x \in S : f[x] = g[x]
    PROVE  SumFunctionOnSet(f, S) = SumFunctionOnSet(g, S)
  <1> DEFINE Good == {T \in SUBSET S : SumFunctionOnSet(f, T) = SumFunctionOnSet(g, T)}
  <1>1. ASSUME NEW T \in SUBSET S, \A x \in T : T \ {x} \in Good
        PROVE  T \in Good
    <2>1. CASE T = {}
      BY <2>1, SumEmpty
    <2>2. CASE T # {}
      <3>1. Pick(T) \in T /\ IsFiniteSet(T)
        BY <2>2, FS_Subset DEF Pick
      <3>2. SumFunctionOnSet(f, T) = f[Pick(T)] + SumFunctionOnSet(f, T \ {Pick(T)})
        BY <2>2, <3>1, SumPick
      <3>3. SumFunctionOnSet(g, T) = g[Pick(T)] + SumFunctionOnSet(g, T \ {Pick(T)})
        BY <2>2, <3>1, SumPick
      <3> QED
        BY <1>1, <3>1, <3>2, <3>3
    <2> QED
      BY <2>1, <2>2
  <1> HIDE DEF Good
  <1>2. \A T \in SUBSET S : (\A x \in T : T \ {x} \in Good) => T \in Good
    BY <1>1
  <1>3. S \in Good
    BY <1>2, SetInduction
  <1> QED
    BY <1>3 DEF Good

\* A sum of zeros is zero.
THEOREM SumZero ==
    ASSUME NEW S, IsFiniteSet(S), NEW f, \A x \in S : f[x] = 0
    PROVE  SumFunctionOnSet(f, S) = 0
  <1> DEFINE Good == {T \in SUBSET S : SumFunctionOnSet(f, T) = 0}
  <1>1. ASSUME NEW T \in SUBSET S, \A x \in T : T \ {x} \in Good
        PROVE  T \in Good
    <2>1. CASE T = {}
      BY <2>1, SumEmpty
    <2>2. CASE T # {}
      <3>1. Pick(T) \in T
        BY <2>2 DEF Pick
      <3>2. SumFunctionOnSet(f, T) = f[Pick(T)] + SumFunctionOnSet(f, T \ {Pick(T)})
        BY <2>2, FS_Subset, SumPick
      <3> QED
        BY <1>1, <3>1, <3>2
    <2> QED
      BY <2>1, <2>2
  <1> HIDE DEF Good
  <1>2. \A T \in SUBSET S : (\A x \in T : T \ {x} \in Good) => T \in Good
    BY <1>1
  <1>3. S \in Good
    BY <1>2, SetInduction
  <1> QED
    BY <1>3 DEF Good

\* Changing one term changes the sum by the difference.
THEOREM SumChange ==
    ASSUME NEW S, IsFiniteSet(S), NEW f, NEW g, NEW y \in S,
           \A x \in S : f[x] \in Int /\ g[x] \in Int,
           \A x \in S \ {y} : f[x] = g[x]
    PROVE  SumFunctionOnSet(g, S) = SumFunctionOnSet(f, S) + (g[y] - f[y])
  <1>1. IsFiniteSet(S \ {y})
    BY FS_Subset
  <1>2. SumFunctionOnSet(f, S \ {y}) = SumFunctionOnSet(g, S \ {y})
    BY <1>1, SumSame
  <1>3. SumFunctionOnSet(f, S \ {y}) \in Int
    BY <1>1, SumInt
  <1>4. /\ SumFunctionOnSet(f, S) = f[y] + SumFunctionOnSet(f, S \ {y})
        /\ SumFunctionOnSet(g, S) = g[y] + SumFunctionOnSet(g, S \ {y})
    BY SumRemove
  <1> QED
    BY <1>2, <1>3, <1>4

\* The sum of the terms of two functions is the sum of their sums.
THEOREM SumPlus ==
    ASSUME NEW S, IsFiniteSet(S), NEW f, NEW g, NEW h,
           \A x \in S : f[x] \in Int /\ g[x] \in Int /\ h[x] = f[x] + g[x]
    PROVE  SumFunctionOnSet(h, S) = SumFunctionOnSet(f, S) + SumFunctionOnSet(g, S)
  <1> DEFINE Good == {T \in SUBSET S :
             SumFunctionOnSet(h, T) = SumFunctionOnSet(f, T) + SumFunctionOnSet(g, T)}
  <1>1. ASSUME NEW T \in SUBSET S, \A x \in T : T \ {x} \in Good
        PROVE  T \in Good
    <2>1. CASE T = {}
      BY <2>1, SumEmpty
    <2>2. CASE T # {}
      <3> DEFINE p == Pick(T)
                 U == T \ {p}
      <3>1. p \in T /\ IsFiniteSet(T) /\ IsFiniteSet(U)
        BY <2>2, FS_Subset DEF Pick
      <3>2. /\ SumFunctionOnSet(f, T) = f[p] + SumFunctionOnSet(f, U)
            /\ SumFunctionOnSet(g, T) = g[p] + SumFunctionOnSet(g, U)
            /\ SumFunctionOnSet(h, T) = h[p] + SumFunctionOnSet(h, U)
        BY <2>2, <3>1, SumPick
      <3>3. SumFunctionOnSet(h, U) = SumFunctionOnSet(f, U) + SumFunctionOnSet(g, U)
        BY <1>1, <3>1
      <3>4. SumFunctionOnSet(f, U) \in Int /\ SumFunctionOnSet(g, U) \in Int
        BY <3>1, SumInt
      <3> HIDE DEF p, U
      <3> QED
        BY <3>1, <3>2, <3>3, <3>4
    <2> QED
      BY <2>1, <2>2
  <1> HIDE DEF Good
  <1>2. \A T \in SUBSET S : (\A x \in T : T \ {x} \in Good) => T \in Good
    BY <1>1
  <1>3. S \in Good
    BY <1>2, SetInduction
  <1> QED
    BY <1>3 DEF Good

\* Terms that are not more give a sum that is not more.
THEOREM SumAtMost ==
    ASSUME NEW S, IsFiniteSet(S), NEW f, NEW g,
           \A x \in S : f[x] \in Int /\ g[x] \in Int /\ f[x] <= g[x]
    PROVE  SumFunctionOnSet(f, S) <= SumFunctionOnSet(g, S)
  <1> DEFINE Good == {T \in SUBSET S : SumFunctionOnSet(f, T) <= SumFunctionOnSet(g, T)}
  <1>1. ASSUME NEW T \in SUBSET S, \A x \in T : T \ {x} \in Good
        PROVE  T \in Good
    <2>1. CASE T = {}
      BY <2>1, SumEmpty
    <2>2. CASE T # {}
      <3> DEFINE p == Pick(T)
                 U == T \ {p}
      <3>1. p \in T /\ IsFiniteSet(T) /\ IsFiniteSet(U)
        BY <2>2, FS_Subset DEF Pick
      <3>2. /\ SumFunctionOnSet(f, T) = f[p] + SumFunctionOnSet(f, U)
            /\ SumFunctionOnSet(g, T) = g[p] + SumFunctionOnSet(g, U)
        BY <2>2, <3>1, SumPick
      <3>3. SumFunctionOnSet(f, U) <= SumFunctionOnSet(g, U)
        BY <1>1, <3>1
      <3>4. SumFunctionOnSet(f, U) \in Int /\ SumFunctionOnSet(g, U) \in Int
        BY <3>1, SumInt
      <3> HIDE DEF p, U
      <3> QED
        BY <3>1, <3>2, <3>3, <3>4
    <2> QED
      BY <2>1, <2>2
  <1> HIDE DEF Good
  <1>2. \A T \in SUBSET S : (\A x \in T : T \ {x} \in Good) => T \in Good
    BY <1>1
  <1>3. S \in Good
    BY <1>2, SetInduction
  <1> QED
    BY <1>3 DEF Good

\* The sum of natural numbers is one.
LEMMA SumNat ==
    ASSUME NEW S, IsFiniteSet(S), NEW f, \A x \in S : f[x] \in Nat
    PROVE  SumFunctionOnSet(f, S) \in Nat
  <1> DEFINE zero == [x \in S |-> 0]
  <1>1. SumFunctionOnSet(zero, S) = 0
    BY SumZero
  <1>2. \A x \in S : zero[x] \in Int /\ f[x] \in Int /\ zero[x] <= f[x]
    OBVIOUS
  <1> HIDE DEF zero
  <1>3. SumFunctionOnSet(zero, S) <= SumFunctionOnSet(f, S)
    BY <1>2, SumAtMost
  <1>4. SumFunctionOnSet(f, S) \in Int
    BY SumInt
  <1> QED
    BY <1>1, <1>3, <1>4

\* The sum over two sets that share nothing is the sum of the sums.
THEOREM SumDisjoint ==
    ASSUME NEW S, IsFiniteSet(S), NEW R, IsFiniteSet(R), S \cap R = {},
           NEW f, \A x \in S \cup R : f[x] \in Int
    PROVE  SumFunctionOnSet(f, S \cup R) = SumFunctionOnSet(f, S) + SumFunctionOnSet(f, R)
  <1> DEFINE Good == {T \in SUBSET R :
             SumFunctionOnSet(f, S \cup T) = SumFunctionOnSet(f, S) + SumFunctionOnSet(f, T)}
  <1>0. SumFunctionOnSet(f, S) \in Int
    BY SumInt
  <1>1. ASSUME NEW T \in SUBSET R, \A x \in T : T \ {x} \in Good
        PROVE  T \in Good
    <2>1. CASE T = {}
      <3>1. S \cup {} = S
        OBVIOUS
      <3> QED
        BY <1>0, <2>1, <3>1, SumEmpty
    <2>2. CASE T # {}
      <3> DEFINE p == Pick(T)
                 U == T \ {p}
      <3>1. p \in T /\ IsFiniteSet(T) /\ IsFiniteSet(U)
        BY <2>2, FS_Subset DEF Pick
      <3>2. SumFunctionOnSet(f, T) = f[p] + SumFunctionOnSet(f, U)
        BY <2>2, <3>1, SumPick
      <3>3. SumFunctionOnSet(f, S \cup U) = SumFunctionOnSet(f, S) + SumFunctionOnSet(f, U)
        BY <1>1, <3>1
      <3>4. p \notin S \cup U /\ S \cup T = (S \cup U) \cup {p} /\ IsFiniteSet(S \cup U)
        BY <3>1, FS_Union
      <3>5. f[p] \in Int /\ \A x \in S \cup U : f[x] \in Int
        BY <3>1
      <3>6. SumFunctionOnSet(f, U) \in Int /\ SumFunctionOnSet(f, S \cup U) \in Int
        BY <3>1, <3>4, <3>5, SumInt
      <3> HIDE DEF p, U
      <3>7. SumFunctionOnSet(f, (S \cup U) \cup {p}) = SumFunctionOnSet(f, S \cup U) + f[p]
        BY <3>4, <3>5, SumAddElement
      <3>8. SumFunctionOnSet(f, S \cup T) = SumFunctionOnSet(f, S \cup U) + f[p]
        BY <3>4, <3>7
      <3>9. SumFunctionOnSet(f, S \cup T) = SumFunctionOnSet(f, S) + SumFunctionOnSet(f, T)
        <4> HIDE DEF Good
        <4> DEFINE a == SumFunctionOnSet(f, S)
                   b == SumFunctionOnSet(f, T)
                   c == SumFunctionOnSet(f, U)
                   d == SumFunctionOnSet(f, S \cup T)
                   e == SumFunctionOnSet(f, S \cup U)
        <4>1. d = e + f[p] /\ b = f[p] + c /\ e = a + c /\ a \in Int /\ c \in Int /\ f[p] \in Int
          BY <1>0, <3>2, <3>3, <3>5, <3>6, <3>8
        <4> HIDE DEF a, b, c, d, e
        <4>2. d = a + b
          BY <4>1
        <4> QED
          BY <4>2 DEF a, b, d
      <3> QED
        BY <3>9
    <2> QED
      BY <2>1, <2>2
  <1> HIDE DEF Good
  <1>2. \A T \in SUBSET R : (\A x \in T : T \ {x} \in Good) => T \in Good
    BY <1>1
  <1>3. R \in Good
    BY <1>2, SetInduction
  <1> QED
    BY <1>3 DEF Good

\* The sum over two sets is at most the sum of the sums.
THEOREM SumUnion ==
    ASSUME NEW S, IsFiniteSet(S), NEW R, IsFiniteSet(R), NEW f, \A x \in S \cup R : f[x] \in Nat
    PROVE  SumFunctionOnSet(f, S \cup R) <= SumFunctionOnSet(f, S) + SumFunctionOnSet(f, R)
  <1> DEFINE both == R \cap S
             new == R \ S
  <1>1. IsFiniteSet(both) /\ IsFiniteSet(new)
    BY FS_Subset
  <1>2. S \cup new = S \cup R /\ S \cap new = {} /\ both \cup new = R /\ both \cap new = {}
    OBVIOUS
  <1>3. SumFunctionOnSet(f, S) \in Nat /\ SumFunctionOnSet(f, both) \in Nat
        /\ SumFunctionOnSet(f, new) \in Nat
    BY <1>1, SumNat
  <1>4. (\A x \in S \cup new : f[x] \in Int) /\ (\A x \in both \cup new : f[x] \in Int)
    OBVIOUS
  <1> HIDE DEF both, new
  <1>5. SumFunctionOnSet(f, S \cup new) = SumFunctionOnSet(f, S) + SumFunctionOnSet(f, new)
    BY <1>1, <1>2, <1>4, SumDisjoint
  <1>6. SumFunctionOnSet(f, both \cup new)
            = SumFunctionOnSet(f, both) + SumFunctionOnSet(f, new)
    BY <1>1, <1>2, <1>4, SumDisjoint
  <1> QED
    BY <1>2, <1>3, <1>5, <1>6

\* The values of s on a set of indices.
Image(s, I) == {s[i] : i \in I}

\* They are finitely many.
LEMMA ImageFinite ==
    ASSUME NEW I, IsFiniteSet(I), NEW s
    PROVE  IsFiniteSet(Image(s, I))
  <1> DEFINE g == [i \in I |-> s[i]]
  <1>1. g \in [I -> Image(s, I)]
    BY DEF Image
  <1>2. \A y \in Image(s, I) : \E i \in I : g[i] = y
    BY DEF Image
  <1>3. g \in Surjection(I, Image(s, I))
    BY <1>1, <1>2 DEF Surjection
  <1> HIDE DEF g
  <1> QED
    BY <1>3, FS_Surjection

\* A sum over the values of a function is at most the sum over its indices.
THEOREM SumImage ==
    ASSUME NEW I, IsFiniteSet(I), NEW s, NEW f, NEW g,
           \A i \in I : f[s[i]] \in Nat /\ g[i] = f[s[i]]
    PROVE  /\ SumFunctionOnSet(f, Image(s, I)) <= SumFunctionOnSet(g, I)
           /\ (\A i, j \in I : s[i] = s[j] => i = j) =>
                  SumFunctionOnSet(f, Image(s, I)) = SumFunctionOnSet(g, I)
  <1> DEFINE Goal(T) ==
                 /\ SumFunctionOnSet(f, Image(s, T)) <= SumFunctionOnSet(g, T)
                 /\ (\A i, j \in T : s[i] = s[j] => i = j) =>
                        SumFunctionOnSet(f, Image(s, T)) = SumFunctionOnSet(g, T)
             Good == {T \in SUBSET I : Goal(T)}
  <1>1. ASSUME NEW T \in SUBSET I, \A x \in T : T \ {x} \in Good
        PROVE  T \in Good
    <2>1. CASE T = {}
      <3>1. Image(s, {}) = {}
        BY DEF Image
      <3>2. SumFunctionOnSet(f, {}) = 0 /\ SumFunctionOnSet(g, {}) = 0
        BY SumEmpty
      <3> QED
        BY <2>1, <3>1, <3>2
    <2>2. CASE T # {}
      <3> DEFINE p == Pick(T)
                 U == T \ {p}
                 V == Image(s, U)
                 a == SumFunctionOnSet(f, V)
                 b == SumFunctionOnSet(g, U)
      <3>1. p \in T /\ IsFiniteSet(T) /\ IsFiniteSet(U)
        BY <2>2, FS_Subset DEF Pick
      <3>2. SumFunctionOnSet(g, T) = g[p] + b
        BY <2>2, <3>1, SumPick
      <3>3. Goal(U)
        <4>1. U \in Good
          BY <1>1, <3>1
        <4> HIDE DEF Goal, U
        <4> QED
          BY <4>1
      <3>4. Image(s, T) = V \cup {s[p]} /\ IsFiniteSet(V)
        <4>1. Image(s, T) = Image(s, U) \cup {s[p]}
          <5>1. T = U \cup {p}
            BY <3>1
          <5> HIDE DEF U, p
          <5> QED
            BY <5>1 DEF Image
        <4>2. IsFiniteSet(Image(s, U))
          BY <3>1, ImageFinite
        <4> QED
          BY <4>1, <4>2
      <3>5. g[p] = f[s[p]] /\ f[s[p]] \in Nat /\ \A x \in V : f[x] \in Nat
        BY <3>1 DEF Image
      <3>6. b \in Nat /\ a \in Nat
        <4>1. \A x \in U : g[x] \in Nat
          OBVIOUS
        <4> QED
          BY <3>1, <3>4, <3>5, <4>1, SumNat
      <3>7. (\A i, j \in T : s[i] = s[j] => i = j)
                => s[p] \notin V /\ \A i, j \in U : s[i] = s[j] => i = j
        BY <3>1 DEF Image
      <3>8. U \subseteq T
        OBVIOUS
      <3>9. SumFunctionOnSet(f, V \cup {s[p]})
                = IF s[p] \in V THEN a ELSE a + f[s[p]]
        <4>1. CASE s[p] \in V
          <5>1. V \cup {s[p]} = V
            BY <4>1
          <5> QED
            BY <4>1, <5>1
        <4>2. CASE s[p] \notin V
          <5> HIDE DEF V
          <5>1. SumFunctionOnSet(f, V \cup {s[p]}) = SumFunctionOnSet(f, V) + f[s[p]]
            BY <3>4, <3>5, <4>2, SumAddElement
          <5> QED
            BY <4>2, <5>1
        <4> QED
          BY <4>1, <4>2
      <3>10. a <= b /\ ((\A i, j \in U : s[i] = s[j] => i = j) => a = b)
        BY <3>3
      <3> HIDE DEF a, b, p, U, V
      <3>11. SumFunctionOnSet(f, Image(s, T)) <= SumFunctionOnSet(g, T)
        BY <3>2, <3>4, <3>5, <3>6, <3>9, <3>10
      <3>12. ASSUME \A i, j \in T : s[i] = s[j] => i = j
             PROVE  SumFunctionOnSet(f, Image(s, T)) = SumFunctionOnSet(g, T)
        <4>1. s[p] \notin V /\ a = b
          BY <3>7, <3>10, <3>12
        <4> QED
          BY <3>2, <3>4, <3>5, <3>6, <3>9, <4>1
      <3> QED
        BY <3>11, <3>12
    <2> QED
      BY <2>1, <2>2
  <1> HIDE DEF Good
  <1>2. \A T \in SUBSET I : (\A x \in T : T \ {x} \in Good) => T \in Good
    BY <1>1
  <1>3. I \in Good
    BY <1>2, SetInduction
  <1> QED
    BY <1>3 DEF Good

\* The union of a family of finite sets is finite.
LEMMA UnionsFinite ==
    ASSUME NEW I, IsFiniteSet(I), NEW A, \A i \in I : IsFiniteSet(A[i])
    PROVE  IsFiniteSet(UNION Image(A, I))
  <1>1. IsFiniteSet(Image(A, I))
    BY ImageFinite
  <1>2. \A T \in Image(A, I) : IsFiniteSet(T)
    BY DEF Image
  <1> QED
    BY <1>1, <1>2, FS_UNION

Disjoint(A, I) == \A i, j \in I : i # j => A[i] \cap A[j] = {}

\* A sum over the union of a family is at most the sum of the sums over its
\* members, and equal to it when they share nothing.
THEOREM SumUnions ==
    ASSUME NEW I, IsFiniteSet(I), NEW A, \A i \in I : IsFiniteSet(A[i]), NEW f,
           \A i \in I : \A x \in A[i] : f[x] \in Nat,
           NEW g, \A i \in I : g[i] = SumFunctionOnSet(f, A[i])
    PROVE  /\ SumFunctionOnSet(f, UNION Image(A, I)) <= SumFunctionOnSet(g, I)
           /\ Disjoint(A, I) => SumFunctionOnSet(f, UNION Image(A, I)) = SumFunctionOnSet(g, I)
  <1> DEFINE Goal(T) ==
             /\ SumFunctionOnSet(f, UNION Image(A, T)) <= SumFunctionOnSet(g, T)
             /\ Disjoint(A, T) => SumFunctionOnSet(f, UNION Image(A, T)) = SumFunctionOnSet(g, T)
             Good == {T \in SUBSET I : Goal(T)}
  <1>1. ASSUME NEW T \in SUBSET I, \A x \in T : T \ {x} \in Good
        PROVE  T \in Good
    <2>1. CASE T = {}
      <3>1. UNION Image(A, {}) = {}
        BY DEF Image
      <3>2. SumFunctionOnSet(f, {}) = 0 /\ SumFunctionOnSet(g, {}) = 0
        BY SumEmpty
      <3> QED
        BY <2>1, <3>1, <3>2
    <2>2. CASE T # {}
      <3> DEFINE p == Pick(T)
                 U == T \ {p}
                 V == UNION Image(A, U)
                 a == SumFunctionOnSet(f, V)
                 b == SumFunctionOnSet(g, U)
                 c == SumFunctionOnSet(f, V \cup A[p])
      <3>1. p \in T /\ p \in I /\ IsFiniteSet(T) /\ IsFiniteSet(U) /\ U \subseteq I
        BY <2>2, FS_Subset DEF Pick
      <3>2. SumFunctionOnSet(g, T) = g[p] + b
        BY <2>2, <3>1, SumPick
      <3>3. Goal(U)
        <4>1. U \in Good
          BY <1>1, <3>1
        <4> HIDE DEF Goal, U
        <4> QED
          BY <4>1
      <3>4. UNION Image(A, T) = V \cup A[p]
        <4>1. T = U \cup {p}
          BY <3>1
        <4> HIDE DEF U, p
        <4> QED
          BY <4>1 DEF Image
      <3>5. IsFiniteSet(V) /\ IsFiniteSet(A[p])
        BY <3>1, UnionsFinite
      <3>6. (\A x \in V : f[x] \in Nat) /\ (\A x \in A[p] : f[x] \in Nat)
        BY <3>1 DEF Image
      <3>7. g[p] = SumFunctionOnSet(f, A[p]) /\ g[p] \in Nat /\ a \in Nat
        BY <3>1, <3>5, <3>6, SumNat
      <3>8. b \in Int
        <4>1. \A i \in U : g[i] \in Int
          BY <3>1, SumNat
        <4> QED
          BY <3>1, <4>1, SumInt
      <3>9. Disjoint(A, T) => Disjoint(A, U) /\ V \cap A[p] = {}
        BY <3>1 DEF Disjoint, Image
      <3>10. a <= b /\ (Disjoint(A, U) => a = b)
        BY <3>3
      <3> HIDE DEF p, U, V
      <3>11. c \in Nat /\ c <= a + g[p] /\ (V \cap A[p] = {} => c = a + g[p])
        <4>1. IsFiniteSet(V \cup A[p])
          BY <3>5, FS_Union
        <4>2. \A x \in V \cup A[p] : f[x] \in Nat
          BY <3>6
        <4>3. c <= a + g[p]
          BY <3>5, <3>7, <4>2, SumUnion
        <4>4. V \cap A[p] = {} => c = a + g[p]
          BY <3>5, <3>7, <4>2, SumDisjoint
        <4> QED
          BY <4>1, <4>2, <4>3, <4>4, SumNat
      <3>12. SumFunctionOnSet(f, UNION Image(A, T)) = c
        BY <3>4
      <3> HIDE DEF a, b, c
      <3>13. c <= g[p] + b /\ (Disjoint(A, T) => c = g[p] + b)
        BY <3>7, <3>8, <3>9, <3>10, <3>11
      <3> QED
        BY <3>2, <3>12, <3>13
    <2> QED
      BY <2>1, <2>2
  <1> HIDE DEF Good
  <1>2. \A T \in SUBSET I : (\A x \in T : T \ {x} \in Good) => T \in Good
    BY <1>1
  <1>3. I \in Good
    BY <1>2, SetInduction
  <1> QED
    BY <1>3 DEF Good

(***************************************************************************)
(* Selected.                                                               *)
(***************************************************************************)

\* The function by which Selected is defined, on 0..n.
SelectsTo(g, s, S, n) ==
    g = [i \in 0..n |-> IF i = 0 THEN <<>>
                        ELSE IF s[i] \in S THEN Append(g[i - 1], s[i]) ELSE g[i - 1]]

\* It exists.
LEMMA SelectsExist ==
    ASSUME NEW s, NEW S
    PROVE  \A n \in Nat : \E g : SelectsTo(g, s, S, n)
  <1> DEFINE Good == {n \in Nat : \E g : SelectsTo(g, s, S, n)}
  <1>1. 0 \in Good
    <2>1. SelectsTo([i \in 0..0 |-> <<>>], s, S, 0)
      BY DEF SelectsTo
    <2> QED
      BY <2>1
  <1>2. ASSUME NEW n \in Nat, n \in Good PROVE n + 1 \in Good
    <2>1. PICK g : SelectsTo(g, s, S, n)
      BY <1>2
    <2> DEFINE last == IF s[n + 1] \in S THEN Append(g[n], s[n + 1]) ELSE g[n]
               h == [i \in 0..(n + 1) |-> IF i = n + 1 THEN last ELSE g[i]]
    <2>2. ASSUME NEW i \in 0..(n + 1)
          PROVE  h[i] = IF i = 0 THEN <<>>
                        ELSE IF s[i] \in S THEN Append(h[i - 1], s[i]) ELSE h[i - 1]
      <3>1. \A j \in 0..n : /\ h[j] = g[j]
                            /\ g[j] = IF j = 0 THEN <<>>
                                      ELSE IF s[j] \in S THEN Append(g[j - 1], s[j]) ELSE g[j - 1]
        <4>1. \A j \in 0..n : g[j] = IF j = 0 THEN <<>>
                              ELSE IF s[j] \in S THEN Append(g[j - 1], s[j]) ELSE g[j - 1]
          BY <2>1 DEF SelectsTo
        <4>2. \A j \in 0..n : j \in 0..(n + 1) /\ j # n + 1
          OBVIOUS
        <4> HIDE DEF last
        <4>3. \A j \in 0..n : h[j] = g[j]
          BY <4>2
        <4> HIDE DEF h
        <4> QED
          BY <4>1, <4>3
      <3>2. h[n + 1] = IF s[n + 1] \in S THEN Append(h[n], s[n + 1]) ELSE h[n]
        BY <3>1
      <3>3. (n + 1) - 1 = n /\ n + 1 # 0
        OBVIOUS
      <3>4. i = n + 1 \/ (i \in 0..n /\ (i = 0 \/ i - 1 \in 0..n))
        OBVIOUS
      <3> HIDE DEF h
      <3> QED
        BY <3>1, <3>2, <3>3, <3>4
    <2>3. SelectsTo(h, s, S, n + 1)
      <3>1. h = [i \in 0..(n + 1) |-> h[i]]
        OBVIOUS
      <3> HIDE DEF h
      <3> QED
        BY <2>2, <3>1 DEF SelectsTo
    <2> QED
      BY <2>3
  <1> HIDE DEF Good
  <1>3. \A n \in Nat : n \in Good
    BY <1>1, <1>2, NatSetInduction
  <1> QED
    BY <1>3 DEF Good

\* r has every element of s up to n that is in S, in the order of s.
Covers(r, s, S, n) == \A i \in 1..n : s[i] \in S => \E k \in 1..Len(r) : r[k] = s[i]
Before(r, k, s, S, p) == \A q \in 1..(p - 1) : s[q] \in S => \E l \in 1..(k - 1) : r[l] = s[q]
Ordered(r, s, S, n) ==
    \A k \in 1..Len(r) : \E p \in 1..n : r[k] = s[p] /\ s[p] \in S /\ Before(r, k, s, S, p)

\* One element more.
LEMMA SelectsNext ==
    ASSUME NEW X, NEW s \in Seq(X), NEW S, NEW r \in Seq(X), NEW n \in Nat, n + 1 <= Len(s),
           Len(r) <= n, Covers(r, s, S, n), Ordered(r, s, S, n), s[n + 1] \in S
    PROVE  LET t == Append(r, s[n + 1])
           IN  t \in Seq(X) /\ Len(t) <= n + 1 /\ Covers(t, s, S, n + 1) /\ Ordered(t, s, S, n + 1)
  <1> DEFINE x == s[n + 1]
             t == Append(r, x)
  <1>1. /\ t \in Seq(X) /\ Len(t) = Len(r) + 1 /\ t[Len(r) + 1] = x
        /\ (\A k \in 1..Len(r) : t[k] = r[k]) /\ Len(r) \in Nat
    OBVIOUS
  <1> HIDE DEF t
  <1>2. ASSUME NEW i \in 1..(n + 1), s[i] \in S PROVE \E k \in 1..Len(t) : t[k] = s[i]
    <2>1. CASE i \in 1..n
      <3>1. PICK k \in 1..Len(r) : r[k] = s[i]
        BY <1>2, <2>1 DEF Covers
      <3>2. k \in 1..Len(t) /\ t[k] = s[i]
        BY <1>1, <3>1
      <3> QED
        BY <3>2
    <2>2. CASE i = n + 1
      <3>1. Len(r) + 1 \in 1..Len(t) /\ t[Len(r) + 1] = s[i]
        BY <1>1, <2>2
      <3> QED
        BY <3>1
    <2> QED
      BY <2>1, <2>2
  <1>3. ASSUME NEW k \in 1..Len(t)
        PROVE  \E p \in 1..(n + 1) : t[k] = s[p] /\ s[p] \in S /\ Before(t, k, s, S, p)
    <2>1. CASE k \in 1..Len(r)
      <3>1. PICK p \in 1..n : r[k] = s[p] /\ s[p] \in S /\ Before(r, k, s, S, p)
        BY <2>1 DEF Ordered
      <3>2. \A l \in 1..(k - 1) : t[l] = r[l]
        BY <1>1, <2>1
      <3>3. Before(t, k, s, S, p)
        BY <3>1, <3>2 DEF Before
      <3>4. t[k] = s[p] /\ p \in 1..(n + 1)
        BY <1>1, <2>1, <3>1
      <3> QED
        BY <3>1, <3>3, <3>4
    <2>2. CASE k = Len(r) + 1
      <3>1. t[k] = s[n + 1] /\ k - 1 = Len(r) /\ (n + 1) - 1 = n /\ n + 1 \in 1..(n + 1)
        BY <1>1, <2>2
      <3>2. ASSUME NEW q \in 1..n, s[q] \in S PROVE \E l \in 1..Len(r) : t[l] = s[q]
        BY <1>1, <3>2 DEF Covers
      <3>3. Before(t, k, s, S, n + 1)
        BY <3>1, <3>2 DEF Before
      <3> QED
        BY <3>1, <3>3
    <2> QED
      BY <1>1, <2>1, <2>2
  <1>4. Covers(t, s, S, n + 1)
    BY <1>2 DEF Covers
  <1>5. Ordered(t, s, S, n + 1)
    BY <1>3 DEF Ordered
  <1>6. Len(t) <= n + 1
    BY <1>1
  <1> QED
    BY <1>1, <1>4, <1>5, <1>6 DEF t

\* What Selected keeps is in the sequence and in the set, nothing that is in
\* both is left out, and the order is that of the sequence.
THEOREM SelectedProperties ==
    ASSUME NEW X, NEW s \in Seq(X), NEW S
    PROVE  LET kept == Selected(s, S)
           IN  /\ kept \in Seq(X)
               /\ Len(kept) <= Len(s)
               /\ Covers(kept, s, S, Len(s))
               /\ Ordered(kept, s, S, Len(s))
  <1> DEFINE g == CHOOSE h : SelectsTo(h, s, S, Len(s))
             Keeps(r, n) == /\ r \in Seq(X) /\ Len(r) <= n
                            /\ Covers(r, s, S, n) /\ Ordered(r, s, S, n)
             Good == {n \in Nat : n <= Len(s) => Keeps(g[n], n)}
  <1>1. Len(s) \in Nat
    OBVIOUS
  <1>2. SelectsTo(g, s, S, Len(s))
    BY <1>1, SelectsExist
  <1>3. Selected(s, S) = g[Len(s)]
    BY DEF Selected, SelectsTo
  <1> HIDE DEF g
  <1>4. 0 \in Good
    <2>1. g[0] = <<>>
      BY <1>1, <1>2 DEF SelectsTo
    <2>2. Keeps(<<>>, 0)
      BY DEF Covers, Ordered
    <2> HIDE DEF Keeps
    <2> QED
      BY <2>1, <2>2
  <1>5. ASSUME NEW n \in Nat, n \in Good PROVE n + 1 \in Good
    <2>1. SUFFICES ASSUME n + 1 <= Len(s) PROVE Keeps(g[n + 1], n + 1)
      <3> HIDE DEF Keeps
      <3> QED
        OBVIOUS
    <2>2. Keeps(g[n], n)
      <3>1. n <= Len(s)
        BY <1>1, <2>1
      <3> HIDE DEF Keeps
      <3> QED
        BY <1>5, <3>1
    <2>3. g[n + 1] = IF s[n + 1] \in S THEN Append(g[n], s[n + 1]) ELSE g[n]
      <3>1. n + 1 \in 0..Len(s) /\ n + 1 # 0 /\ (n + 1) - 1 = n
        BY <1>1, <2>1
      <3> QED
        BY <1>2, <3>1 DEF SelectsTo
    <2>4. CASE s[n + 1] \in S
      BY <2>1, <2>2, <2>3, <2>4, SelectsNext
    <2>5. CASE s[n + 1] \notin S
      <3>1. Covers(g[n], s, S, n + 1)
        <4>1. \A i \in 1..(n + 1) : i \in 1..n \/ i = n + 1
          OBVIOUS
        <4> QED
          BY <2>2, <2>5, <4>1 DEF Covers
      <3>2. Ordered(g[n], s, S, n + 1)
        <4>1. 1..n \subseteq 1..(n + 1)
          OBVIOUS
        <4> QED
          BY <2>2, <4>1 DEF Ordered
      <3>3. Len(g[n]) <= n + 1
        BY <2>2
      <3> QED
        BY <2>2, <2>3, <2>5, <3>1, <3>2, <3>3
    <2> QED
      BY <2>4, <2>5
  <1> HIDE DEF Good
  <1>6. Len(s) \in Good
    BY <1>1, <1>4, <1>5, NatSetInduction
  <1> QED
    BY <1>1, <1>3, <1>6 DEF Good

(***************************************************************************)
(* Recursive functions on an interval from 0, and on Nat: the function     *)
(* that a definition f[n \in 0..N] == ... f[n - 1] ... stands for exists   *)
(* whenever each of its values is in some set.                             *)
(***************************************************************************)

\* g starts at base and goes on with step up to n.
Follows(g, base, step, n) == g[0] = base /\ \A i \in 1..n : g[i] = step[<<i, g[i - 1]>>]

\* It exists on an interval.
THEOREM RecursionExists ==
    ASSUME NEW S, NEW base \in S, NEW n \in Nat, NEW step \in [(1..n) \X S -> S]
    PROVE  \E g \in [0..n -> S] : Follows(g, base, step, n)
  <1> DEFINE Good == {m \in Nat : m <= n => \E g \in [0..m -> S] : Follows(g, base, step, m)}
  <1>1. 0 \in Good
    <2>1. [i \in 0..0 |-> base] \in [0..0 -> S] /\ Follows([i \in 0..0 |-> base], base, step, 0)
      BY DEF Follows
    <2> QED
      BY <2>1
  <1>2. ASSUME NEW m \in Nat, m \in Good PROVE m + 1 \in Good
    <2> SUFFICES ASSUME m + 1 <= n
                 PROVE  \E g \in [0..(m + 1) -> S] : Follows(g, base, step, m + 1)
      OBVIOUS
    <2>1. PICK g \in [0..m -> S] : Follows(g, base, step, m)
      BY <1>2
    <2> DEFINE last == step[<<m + 1, g[m]>>]
               h == [i \in 0..(m + 1) |-> IF i = m + 1 THEN last ELSE g[i]]
    <2>2. m + 1 \in 1..n /\ g[m] \in S
      OBVIOUS
    <2>3. last \in S
      BY <2>2
    <2> HIDE DEF last
    <2>4. h \in [0..(m + 1) -> S]
      BY <2>3
    <2>5. h[m + 1] = last /\ \A i \in 0..m : h[i] = g[i]
      OBVIOUS
    <2> HIDE DEF h
    <2>6. ASSUME NEW i \in 1..(m + 1) PROVE h[i] = step[<<i, h[i - 1]>>]
      <3>1. CASE i = m + 1
        BY <2>5, <3>1 DEF last
      <3>2. CASE i \in 1..m
        <4>1. i \in 0..m /\ i - 1 \in 0..m
          BY <3>2
        <4> QED
          BY <2>1, <2>5, <3>2, <4>1 DEF Follows
      <3> QED
        BY <3>1, <3>2
    <2>7. h[0] = base
      BY <2>1, <2>5 DEF Follows
    <2>8. Follows(h, base, step, m + 1)
      BY <2>6, <2>7 DEF Follows
    <2> QED
      BY <2>4, <2>8
  <1> HIDE DEF Good
  <1>3. n \in Good
    BY <1>1, <1>2, NatSetInduction
  <1> QED
    BY <1>3 DEF Good

\* There is one at most.
LEMMA FollowsUnique ==
    ASSUME NEW base, NEW step, NEW n \in Nat, NEW g, NEW h,
           Follows(g, base, step, n), Follows(h, base, step, n)
    PROVE  \A i \in 0..n : g[i] = h[i]
  <1> DEFINE Good == {m \in Nat : m <= n => g[m] = h[m]}
  <1>1. 0 \in Good
    BY DEF Follows
  <1>2. ASSUME NEW m \in Nat, m \in Good PROVE m + 1 \in Good
    <2> SUFFICES ASSUME m + 1 <= n PROVE g[m + 1] = h[m + 1]
      OBVIOUS
    <2>1. m + 1 \in 1..n /\ (m + 1) - 1 = m /\ g[m] = h[m]
      BY <1>2
    <2> QED
      BY <2>1 DEF Follows
  <1> HIDE DEF Good
  <1>3. \A m \in Nat : m \in Good
    BY <1>1, <1>2, NatSetInduction
  <1> QED
    BY <1>3 DEF Good

\* The same on Nat.
FollowsOn(g, base, step) == g[0] = base /\ \A i \in Nat : g[i + 1] = step[<<i + 1, g[i]>>]

\* It exists on Nat.
THEOREM NatRecursionExists ==
    ASSUME NEW S, NEW base \in S, NEW step \in [Nat \X S -> S]
    PROVE  \E g \in [Nat -> S] : FollowsOn(g, base, step)
  <1> DEFINE upto == [n \in Nat |-> CHOOSE g \in [0..n -> S] : Follows(g, base, step, n)]
             f == [n \in Nat |-> upto[n][n]]
  <1>1. ASSUME NEW n \in Nat
        PROVE  upto[n] \in [0..n -> S] /\ Follows(upto[n], base, step, n)
    <2> DEFINE part == [p \in (1..n) \X S |-> step[p]]
    <2>1. part \in [(1..n) \X S -> S]
      OBVIOUS
    <2>2. PICK g \in [0..n -> S] : Follows(g, base, part, n)
      BY <2>1, RecursionExists
    <2>3. ASSUME NEW i \in 1..n PROVE g[i] = step[<<i, g[i - 1]>>]
      <3>1. g[i - 1] \in S
        OBVIOUS
      <3>2. g[i] = part[<<i, g[i - 1]>>]
        BY <2>2 DEF Follows
      <3> QED
        BY <3>1, <3>2
    <2>4. Follows(g, base, step, n)
      BY <2>2, <2>3 DEF Follows
    <2> QED
      BY <2>4
  <1> HIDE DEF upto
  <1>2. ASSUME NEW n \in Nat PROVE f[n + 1] = step[<<n + 1, f[n]>>]
    <2>1. Follows(upto[n + 1], base, step, n) /\ Follows(upto[n], base, step, n)
      BY <1>1 DEF Follows
    <2>2. upto[n + 1][n] = upto[n][n]
      <3> DEFINE a == upto[n + 1]
                 b == upto[n]
      <3>1. Follows(a, base, step, n) /\ Follows(b, base, step, n)
        BY <2>1
      <3> HIDE DEF a, b, f
      <3>2. \A i \in 0..n : a[i] = b[i]
        BY <3>1, FollowsUnique
      <3>3. n \in 0..n
        OBVIOUS
      <3>4. a[n] = b[n]
        BY <3>2, <3>3
      <3> QED
        BY <3>4 DEF a, b
    <2>3. upto[n + 1][n + 1] = step[<<n + 1, upto[n + 1][n]>>]
      <3>1. n + 1 \in 1..(n + 1) /\ (n + 1) - 1 = n /\ n + 1 \in Nat
        OBVIOUS
      <3> QED
        BY <1>1, <3>1 DEF Follows
    <2> QED
      BY <2>2, <2>3
  <1>3. f[0] = base
    BY <1>1 DEF Follows
  <1>4. f \in [Nat -> S]
    BY <1>1
  <1> HIDE DEF f
  <1> QED
    BY <1>2, <1>3, <1>4 DEF FollowsOn

\* The equation of TwoTo.
IsTwoTo(g) == g = [n \in Nat |-> IF n = 0 THEN 1 ELSE 2 * g[n - 1]]

\* It has a solution in the positive numbers.
LEMMA TwoToValues ==
    /\ TwoTo \in [Nat -> Nat \ {0}]
    /\ TwoTo[0] = 1
    /\ \A n \in Nat : TwoTo[n + 1] = 2 * TwoTo[n]
  <1> DEFINE step == [p \in Nat \X Nat |-> 2 * p[2]]
  <1>1. PICK g \in [Nat -> Nat] : g[0] = 1 /\ \A i \in Nat : g[i + 1] = step[<<i + 1, g[i]>>]
    <2> DEFINE one == 1
               S == Nat
    <2>1. step \in [Nat \X S -> S] /\ one \in S
      OBVIOUS
    <2> HIDE DEF step, one, S
    <2>2. \E g \in [Nat -> S] : FollowsOn(g, one, step)
      BY <2>1, NatRecursionExists
    <2> QED
      BY <2>2 DEF one, S, FollowsOn
  <1>2. IsTwoTo(g)
    <2>1. ASSUME NEW n \in Nat PROVE g[n] = IF n = 0 THEN 1 ELSE 2 * g[n - 1]
      <3>1. CASE n # 0
        <4>1. n - 1 \in Nat /\ (n - 1) + 1 = n
          BY <3>1
        <4>2. g[(n - 1) + 1] = step[<<(n - 1) + 1, g[n - 1]>>]
          BY <1>1, <4>1
        <4>3. g[n - 1] \in Nat
          BY <4>1
        <4> QED
          BY <3>1, <4>1, <4>2, <4>3
      <3> QED
        BY <1>1, <3>1
    <2> QED
      BY <2>1 DEF IsTwoTo
  <1>3. IsTwoTo(TwoTo)
    <2>1. IsTwoTo(CHOOSE h : IsTwoTo(h))
      BY <1>2
    <2> QED
      BY <2>1 DEF IsTwoTo, TwoTo
  <1>4. TwoTo[0] = 1 /\ \A n \in Nat : TwoTo[n + 1] = 2 * TwoTo[n]
    <2>1. \A n \in Nat : n + 1 \in Nat /\ n + 1 # 0 /\ (n + 1) - 1 = n
      OBVIOUS
    <2> QED
      BY <1>3, <2>1 DEF IsTwoTo
  <1> DEFINE Good == {n \in Nat : TwoTo[n] \in Nat \ {0}}
  <1>5. 0 \in Good /\ \A n \in Nat : n \in Good => n + 1 \in Good
    BY <1>4
  <1>6. \A n \in Nat : n \in Good
    <2> HIDE DEF Good
    <2> QED
      BY <1>5, NatSetInduction
  <1> QED
    BY <1>3, <1>4, <1>6 DEF IsTwoTo
=============================================================================
