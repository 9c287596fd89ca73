----------------------------- MODULE FiniteSums -----------------------------
(***************************************************************************)
(* Induction over the natural numbers for sets, and what it shows of sums: *)
(* SumFunctionOnSet(f, S) of the module Functions adds up f over a finite  *)
(* set S in an order of its own choice.  Whatever that order, it is the    *)
(* value at any one element and the sum over the others.                   *)
(***************************************************************************)
EXTENDS Integers, Functions, FiniteSetTheorems, TLAPS

-----------------------------------------------------------------------------
(* Numbers *)

\* Induction over the natural numbers, for a set.
LEMMA LeastElement ==
    ASSUME NEW T, T \subseteq Nat, T # {}
    PROVE  \E m \in T : \A k \in T : m <= k
  <1> DEFINE R == {ss \in Nat \X Nat : ss[1] < ss[2]}
  <1>1. IsWellFoundedOn(R, Nat)
    BY NatLessThanWellFounded DEF OpToRel
  <1>2. \A m, k \in Nat : k < m <=> <<k, m>> \in R
    OBVIOUS
  <1> HIDE DEF R
  <1>3. PICK m \in T : \A k \in T : <<k, m>> \notin R
    BY <1>1, WFMin
  <1>4. ASSUME NEW k \in T PROVE m <= k
    <2>1. m \in Nat /\ k \in Nat /\ ~(k < m)
      BY <1>2, <1>3
    <2> QED
      BY <2>1
  <1> QED
    BY <1>4

\* A nonempty set of numbers with a bound has a largest.
LEMMA LargestElement ==
    ASSUME NEW T, NEW bound \in Nat, T \subseteq 0..bound, T # {}
    PROVE  \E m \in T : \A k \in T : k <= m
  <1> DEFINE U == {j \in Nat : \E k \in T : j = bound - k}
  <1>1. U \subseteq Nat /\ U # {}
    <2>1. PICK k \in T : k \in 0..bound
      OBVIOUS
    <2>2. bound - k \in U
      BY <2>1
    <2> QED
      BY <2>2
  <1> HIDE DEF U
  <1>2. PICK j \in U : \A l \in U : j <= l
    BY <1>1, LeastElement
  <1>3. PICK m \in T : j = bound - m
    BY <1>2 DEF U
  <1>4. ASSUME NEW k \in T PROVE k <= m
    <2>1. bound - k \in U
      BY DEF U
    <2> QED
      BY <1>2, <1>3, <2>1
  <1> QED
    BY <1>3, <1>4

\* A set that holds 0 and with each number the next one holds them all.
LEMMA NaturalsOneByOne ==
    ASSUME NEW G, 0 \in G, \A n \in Nat : n \in G => n + 1 \in G
    PROVE  Nat \subseteq G
  <1> SUFFICES ASSUME Nat \ G # {} PROVE FALSE
    OBVIOUS
  <1>1. PICK m \in Nat \ G : \A k \in Nat \ G : m <= k
    BY LeastElement
  <1>2. m - 1 \in Nat /\ (m - 1) + 1 = m
    BY <1>1
  <1>3. m - 1 \in G
    <2>1. ~(m <= m - 1)
      BY <1>1
    <2> QED
      BY <1>1, <1>2, <2>1
  <1> QED
    BY <1>1, <1>2, <1>3

-----------------------------------------------------------------------------
(* The recursion that adds up *)

First(s) == CHOOSE x \in s : TRUE

\* g satisfies the recursion on the subsets of S: what SumFunctionOnSet picks.
SumsUp(g, f, S) ==
    g = [s \in SUBSET S |->
            IF s = {} THEN 0 ELSE f[First(s)] + g[s \ {First(s)}]]
Sums(f, S) == CHOOSE g : SumsUp(g, f, S)

LEMMA SumIsLast == \A f, S : SumFunctionOnSet(f, S) = Sums(f, S)[S]
  BY DEF SumFunctionOnSet, FoldFunctionOnSet, MapThenFoldSet, Sums, SumsUp, First

LEMMA FirstIsIn == \A s : s # {} => First(s) \in s
  BY DEF First
\* The subsets of a finite set, one element less.
LEMMA Without1 ==
    ASSUME NEW S, IsFiniteSet(S), NEW s \in SUBSET S, NEW x \in s
    PROVE  /\ s \ {x} \in SUBSET S
           /\ IsFiniteSet(s) /\ IsFiniteSet(s \ {x})
           /\ Cardinality(s) \in Nat /\ Cardinality(s \ {x}) \in Nat
           /\ Cardinality(s \ {x}) + 1 = Cardinality(s)
  <1>1. IsFiniteSet(s)
    BY FS_Subset
  <1>2. IsFiniteSet(s \ {x}) /\ Cardinality(s \ {x}) = Cardinality(s) - 1
    BY <1>1, FS_RemoveElement
  <1>3. Cardinality(s) \in Nat /\ Cardinality(s \ {x}) \in Nat
    BY <1>1, <1>2, FS_CardinalityType
  <1> QED
    BY <1>1, <1>2, <1>3

\* The recursion has a solution, built up by the size of the subsets.
LEMMA SumsExist ==
    ASSUME NEW S, IsFiniteSet(S), NEW f
    PROVE  SumsUp(Sums(f, S), f, S)
  <1> DEFINE UpTo(n) == {s \in SUBSET S : Cardinality(s) <= n}
             Next1(g, s) == IF s = {} THEN 0
                            ELSE f[First(s)] + g[s \ {First(s)}]
             Solves(g, n) == g = [s \in UpTo(n) |-> Next1(g, s)]
             G == {n \in Nat : \E g : Solves(g, n)}
  <1>1. 0 \in G
    <2> DEFINE g == [s \in UpTo(0) |-> 0]
    <2>1. ASSUME NEW s \in UpTo(0) PROVE s = {}
      <3>1. IsFiniteSet(s) /\ Cardinality(s) \in Nat /\ Cardinality(s) <= 0
        BY FS_Subset, FS_CardinalityType
      <3> QED
        BY <3>1, FS_EmptySet
    <2>2. Solves(g, 0)
      BY <2>1
    <2> HIDE DEF Solves, g
    <2> QED
      BY <2>2
  <1>2. ASSUME NEW n \in Nat, n \in G PROVE n + 1 \in G
    <2>1. PICK g : Solves(g, n)
      BY <1>2
    <2> DEFINE h == [s \in UpTo(n + 1) |-> Next1(g, s)]
    <2>2. ASSUME NEW s \in UpTo(n) PROVE s \in UpTo(n + 1) /\ h[s] = g[s]
      <3>1. Cardinality(s) \in Nat
        BY FS_Subset, FS_CardinalityType
      <3>2. s \in UpTo(n + 1)
        BY <3>1
      <3>3. h[s] = Next1(g, s) /\ g[s] = Next1(g, s)
        BY <2>1, <3>2
      <3> QED
        BY <3>2, <3>3
    <2>3. ASSUME NEW s \in UpTo(n + 1), s # {}
          PROVE  s \ {First(s)} \in UpTo(n)
      <3>1. Cardinality(s \ {First(s)}) + 1 = Cardinality(s)
        BY <2>3, Without1, FirstIsIn
      <3>2. Cardinality(s \ {First(s)}) \in Nat /\ s \ {First(s)} \in SUBSET S
        BY <2>3, Without1, FirstIsIn
      <3> QED
        BY <3>1, <3>2
    <2>4. ASSUME NEW s \in UpTo(n + 1) PROVE Next1(g, s) = Next1(h, s)
      <3>1. CASE s = {}
        BY <3>1
      <3>2. CASE s # {}
        <4>1. h[s \ {First(s)}] = g[s \ {First(s)}]
          BY <2>2, <2>3, <3>2
        <4> HIDE DEF h
        <4> QED
          BY <4>1
      <3> QED
        BY <3>1, <3>2
    <2>5. Solves(h, n + 1)
      <3>1. h = [s \in UpTo(n + 1) |-> Next1(g, s)]
        OBVIOUS
      <3> HIDE DEF h, Next1, UpTo
      <3> QED
        BY <2>4, <3>1
    <2> HIDE DEF Solves, h
    <2> QED
      BY <2>5
  <1>3. Cardinality(S) \in Nat
    BY FS_CardinalityType
  <1>4. Cardinality(S) \in G
    <2> HIDE DEF G
    <2> QED
      BY <1>1, <1>2, <1>3, NaturalsOneByOne
  <1>5. PICK g : Solves(g, Cardinality(S))
    BY <1>4
  <1>6. UpTo(Cardinality(S)) = SUBSET S
    BY FS_Subset
  <1>7. SumsUp(g, f, S)
    <2> HIDE DEF UpTo
    <2> QED
      BY <1>5, <1>6 DEF SumsUp
  <1> QED
    BY <1>7 DEF Sums

\* The sums over the subsets, one by one.
LEMMA SumsStep ==
    ASSUME NEW S, IsFiniteSet(S), NEW f
    PROVE  /\ Sums(f, S)[{}] = 0
           /\ \A s \in SUBSET S : s # {} =>
                 Sums(f, S)[s] = f[First(s)] + Sums(f, S)[s \ {First(s)}]
  <1>1. PICK g : g = Sums(f, S)
    OBVIOUS
  <1>2. SumsUp(g, f, S)
    BY <1>1, SumsExist
  <1> QED
    BY <1>1, <1>2 DEF SumsUp
\* Induction over the subsets of a finite set: what holds of a set when it
\* holds of it without any one element holds of all.
LEMMA SubsetsOneByOne ==
    ASSUME NEW S, IsFiniteSet(S), NEW G,
           \A s \in SUBSET S : (\A x \in s : s \ {x} \in G) => s \in G
    PROVE  SUBSET S \subseteq G
  <1> DEFINE H == {n \in Nat : \A s \in SUBSET S : Cardinality(s) <= n => s \in G}
  <1>1. 0 \in H
    <2> SUFFICES ASSUME NEW s \in SUBSET S, Cardinality(s) <= 0 PROVE s \in G
      OBVIOUS
    <2>1. IsFiniteSet(s) /\ Cardinality(s) \in Nat
      BY FS_Subset, FS_CardinalityType
    <2>2. s = {}
      BY <2>1, FS_EmptySet
    <2> QED
      BY <2>2
  <1>2. ASSUME NEW n \in Nat, n \in H PROVE n + 1 \in H
    <2> SUFFICES ASSUME NEW s \in SUBSET S, Cardinality(s) <= n + 1 PROVE s \in G
      OBVIOUS
    <2>1. ASSUME NEW x \in s PROVE s \ {x} \in G
      <3>1. Cardinality(s \ {x}) + 1 = Cardinality(s)
        BY Without1
      <3>2. Cardinality(s \ {x}) \in Nat /\ s \ {x} \in SUBSET S
        BY Without1
      <3> QED
        BY <1>2, <3>1, <3>2
    <2> QED
      BY <2>1
  <1>3. Nat \subseteq H
    <2> HIDE DEF H
    <2> QED
      BY <1>1, <1>2, NaturalsOneByOne
  <1> SUFFICES ASSUME NEW s \in SUBSET S PROVE s \in G
    OBVIOUS
  <1>4. Cardinality(s) \in Nat
    BY FS_Subset, FS_CardinalityType
  <1> QED
    BY <1>3, <1>4

LEMMA SumsType ==
    ASSUME NEW S, IsFiniteSet(S), NEW f, \A x \in S : f[x] \in Int
    PROVE  \A s \in SUBSET S : Sums(f, S)[s] \in Int
  <1> DEFINE G == {s \in SUBSET S : Sums(f, S)[s] \in Int}
  <1>1. ASSUME NEW s \in SUBSET S, \A x \in s : s \ {x} \in G PROVE s \in G
    <2>1. CASE s = {}
      BY <2>1, SumsStep
    <2>2. CASE s # {}
      <3>1. First(s) \in s /\ Sums(f, S)[s \ {First(s)}] \in Int
        BY <1>1, <2>2, FirstIsIn
      <3>2. Sums(f, S)[s] = f[First(s)] + Sums(f, S)[s \ {First(s)}]
        BY <2>2, SumsStep
      <3> QED
        BY <3>1, <3>2
    <2> QED
      BY <2>1, <2>2
  <1>2. SUBSET S \subseteq G
    <2> HIDE DEF G
    <2> QED
      BY <1>1, SubsetsOneByOne
  <1> QED
    BY <1>2

LEMMA SumsNatural ==
    ASSUME NEW S, IsFiniteSet(S), NEW f, \A x \in S : f[x] \in Nat
    PROVE  \A s \in SUBSET S : Sums(f, S)[s] \in Nat
  <1> DEFINE G == {s \in SUBSET S : Sums(f, S)[s] \in Nat}
  <1>1. ASSUME NEW s \in SUBSET S, \A x \in s : s \ {x} \in G PROVE s \in G
    <2>1. CASE s = {}
      BY <2>1, SumsStep
    <2>2. CASE s # {}
      <3>1. First(s) \in s /\ Sums(f, S)[s \ {First(s)}] \in Nat
        BY <1>1, <2>2, FirstIsIn
      <3>2. Sums(f, S)[s] = f[First(s)] + Sums(f, S)[s \ {First(s)}]
        BY <2>2, SumsStep
      <3> QED
        BY <3>1, <3>2
    <2> QED
      BY <2>1, <2>2
  <1>2. SUBSET S \subseteq G
    <2> HIDE DEF G
    <2> QED
      BY <1>1, SubsetsOneByOne
  <1> QED
    BY <1>2

\* Sums over subsets of two sets are the same where the values are.
LEMMA SumsAgree ==
    ASSUME NEW S, IsFiniteSet(S), NEW R, IsFiniteSet(R), NEW f, NEW h,
           NEW T \in SUBSET (S \cap R), \A x \in T : f[x] = h[x]
    PROVE  Sums(f, S)[T] = Sums(h, R)[T]
  <1> DEFINE G == {s \in SUBSET T : Sums(f, S)[s] = Sums(h, R)[s]}
  <1>1. ASSUME NEW s \in SUBSET T, \A x \in s : s \ {x} \in G PROVE s \in G
    <2>1. CASE s = {}
      BY <2>1, SumsStep
    <2>2. CASE s # {}
      <3>1. /\ First(s) \in s
            /\ Sums(f, S)[s \ {First(s)}] = Sums(h, R)[s \ {First(s)}]
        BY <1>1, <2>2, FirstIsIn
      <3>2. Sums(f, S)[s] = f[First(s)] + Sums(f, S)[s \ {First(s)}]
        BY <2>2, SumsStep, ZenonT(40)
      <3>3. Sums(h, R)[s] = h[First(s)] + Sums(h, R)[s \ {First(s)}]
        BY <2>2, SumsStep, ZenonT(40)
      <3> QED
        BY <3>1, <3>2, <3>3
    <2> QED
      BY <2>1, <2>2
  <1>2. IsFiniteSet(T)
    BY FS_Subset
  <1>3. SUBSET T \subseteq G
    <2> HIDE DEF G
    <2> QED
      BY <1>1, <1>2, SubsetsOneByOne
  <1> QED
    BY <1>3

\* Any element may come first.
LEMMA SumsSplit ==
    ASSUME NEW S, IsFiniteSet(S), NEW f, \A x \in S : f[x] \in Int
    PROVE  \A s \in SUBSET S : \A x \in s :
              Sums(f, S)[s] = f[x] + Sums(f, S)[s \ {x}]
  <1> DEFINE G == {s \in SUBSET S : \A x \in s :
                      Sums(f, S)[s] = f[x] + Sums(f, S)[s \ {x}]}
  <1>1. ASSUME NEW s \in SUBSET S, \A x \in s : s \ {x} \in G PROVE s \in G
    <2> SUFFICES ASSUME NEW x \in s
                 PROVE  Sums(f, S)[s] = f[x] + Sums(f, S)[s \ {x}]
      OBVIOUS
    <2>1. PICK c : c = First(s)
      OBVIOUS
    <2>2. c \in s /\ Sums(f, S)[s] = f[c] + Sums(f, S)[s \ {c}]
      BY <2>1, SumsStep, FirstIsIn
    <2>3. CASE x = c
      BY <2>2, <2>3
    <2>4. CASE x # c
      <3>1. (s \ {c}) \ {x} = (s \ {x}) \ {c}
        OBVIOUS
      <3>2. PICK rest \in SUBSET S : rest = (s \ {c}) \ {x}
        OBVIOUS
      <3>3. /\ Sums(f, S)[s \ {c}] = f[x] + Sums(f, S)[rest]
            /\ Sums(f, S)[s \ {x}] = f[c] + Sums(f, S)[rest]
        BY <1>1, <2>2, <2>4, <3>1, <3>2
      <3>4. Sums(f, S)[rest] \in Int /\ f[x] \in Int /\ f[c] \in Int
        BY <2>2, SumsType
      <3> QED
        BY <2>2, <3>3, <3>4
    <2> QED
      BY <2>3, <2>4
  <1>2. SUBSET S \subseteq G
    <2> HIDE DEF G
    <2> QED
      BY <1>1, SubsetsOneByOne
  <1> QED
    BY <1>2

-----------------------------------------------------------------------------
(* Sums *)

\* A sum is a number, and none that is negative if no value is.
LEMMA SumType ==
    ASSUME NEW S, IsFiniteSet(S), NEW f, \A x \in S : f[x] \in Int
    PROVE  SumFunctionOnSet(f, S) \in Int
  BY SumsType, SumIsLast

LEMMA SumNatural ==
    ASSUME NEW S, IsFiniteSet(S), NEW f, \A x \in S : f[x] \in Nat
    PROVE  SumFunctionOnSet(f, S) \in Nat
  BY SumsNatural, SumIsLast

LEMMA SumOfNothing == \A f : SumFunctionOnSet(f, {}) = 0
  <1> TAKE f
  <1>1. Sums(f, {})[{}] = 0
    BY SumsStep, FS_EmptySet
  <1> QED
    BY <1>1, SumIsLast

\* Only the values in the set matter.
LEMMA SumSame ==
    ASSUME NEW S, IsFiniteSet(S), NEW f, NEW h, \A x \in S : f[x] = h[x]
    PROVE  SumFunctionOnSet(f, S) = SumFunctionOnSet(h, S)
  <1>1. Sums(f, S)[S] = Sums(h, S)[S]
    BY SumsAgree
  <1> QED
    BY <1>1, SumIsLast

LEMMA SumOfZeros ==
    ASSUME NEW S, IsFiniteSet(S), NEW f, \A x \in S : f[x] = 0
    PROVE  SumFunctionOnSet(f, S) = 0
  <1> DEFINE G == {s \in SUBSET S : Sums(f, S)[s] = 0}
  <1>1. ASSUME NEW s \in SUBSET S, \A x \in s : s \ {x} \in G PROVE s \in G
    <2>1. CASE s = {}
      BY <2>1, SumsStep
    <2>2. CASE s # {}
      <3>1. f[First(s)] = 0 /\ Sums(f, S)[s \ {First(s)}] = 0
        BY <1>1, <2>2, FirstIsIn
      <3>2. Sums(f, S)[s] = f[First(s)] + Sums(f, S)[s \ {First(s)}]
        BY <2>2, SumsStep
      <3> QED
        BY <3>1, <3>2
    <2> QED
      BY <2>1, <2>2
  <1>2. SUBSET S \subseteq G
    <2> HIDE DEF G
    <2> QED
      BY <1>1, SubsetsOneByOne
  <1> QED
    BY <1>2, SumIsLast

\* The value of one element and the sum over the others.
LEMMA SumSplit ==
    ASSUME NEW S, IsFiniteSet(S), NEW f, \A x \in S : f[x] \in Int, NEW x \in S
    PROVE  SumFunctionOnSet(f, S) = f[x] + SumFunctionOnSet(f, S \ {x})
  <1>1. Sums(f, S)[S] = f[x] + Sums(f, S)[S \ {x}]
    BY SumsSplit
  <1>2. IsFiniteSet(S \ {x})
    BY FS_RemoveElement
  <1>3. Sums(f, S)[S \ {x}] = Sums(f, S \ {x})[S \ {x}]
    BY <1>2, SumsAgree
  <1> QED
    BY <1>1, <1>3, SumIsLast

\* One more element.
LEMMA SumAdd ==
    ASSUME NEW S, IsFiniteSet(S), NEW x, x \notin S,
           NEW f, \A y \in S \cup {x} : f[y] \in Int
    PROVE  /\ IsFiniteSet(S \cup {x})
           /\ SumFunctionOnSet(f, S \cup {x}) = f[x] + SumFunctionOnSet(f, S)
  <1>1. IsFiniteSet(S \cup {x}) /\ (S \cup {x}) \ {x} = S
    BY FS_AddElement
  <1> QED
    BY <1>1, SumSplit

\* One value changes.
LEMMA SumChange ==
    ASSUME NEW S, IsFiniteSet(S), NEW x \in S, NEW f, NEW h,
           \A y \in S : f[y] \in Int /\ h[y] \in Int,
           \A y \in S \ {x} : h[y] = f[y]
    PROVE  SumFunctionOnSet(h, S) = SumFunctionOnSet(f, S) - f[x] + h[x]
  <1>1. IsFiniteSet(S \ {x})
    BY FS_RemoveElement
  <1>2. SumFunctionOnSet(h, S \ {x}) = SumFunctionOnSet(f, S \ {x})
    BY <1>1, SumSame
  <1>3. /\ SumFunctionOnSet(f, S) = f[x] + SumFunctionOnSet(f, S \ {x})
        /\ SumFunctionOnSet(h, S) = h[x] + SumFunctionOnSet(h, S \ {x})
    BY SumSplit
  <1>4. SumFunctionOnSet(f, S \ {x}) \in Int
    BY <1>1, SumType
  <1> QED
    BY <1>2, <1>3, <1>4
=============================================================================
