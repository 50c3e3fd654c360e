---------------------------- MODULE DataInduction ----------------------------
(***************************************************************************)
(* Induction without an operator for a parameter: over the naturals, over  *)
(* the subsets of a finite set and along a recursive definition, for a set *)
(* G of the numbers, subsets or values that are good.  The source of it is *)
(* that strict inclusion of finite sets is well-founded.                   *)
(***************************************************************************)
EXTENDS Integers, Sequences, FiniteSets, Functions, FiniteSetTheorems, WellFoundedInduction, TLAPS

(* A set of naturals has a least element.                                  *)
LEMMA LeastNat ==
  ASSUME NEW T \in SUBSET Nat, T # {}
  PROVE  \E x \in T : \A y \in T : x <= y
<1> DEFINE U == {0 .. n : n \in T}
<1>1. IsWellFoundedOn(StrictSubsetOrdering(Nat), FiniteSubsetsOf(Nat))
  BY FS_StrictSubsetOrderingWellFounded
<1>2. U \subseteq FiniteSubsetsOf(Nat) /\ U # {}
  <2>1. \A n \in T : IsFiniteSet(0 .. n) /\ 0 .. n \in SUBSET Nat
    BY FS_Interval
  <2> QED BY <2>1 DEF FiniteSubsetsOf
<1>3. PICK X \in U : \A Y \in U : ~ (<<Y, X>> \in StrictSubsetOrdering(Nat))
  <2> HIDE DEF U
  <2> QED BY <1>1, <1>2, WFMin
<1>4. PICK x \in T : X = 0 .. x
  OBVIOUS
<1>5. ASSUME NEW y \in T, ~ x <= y PROVE FALSE
  <2>1. 0 .. y \in U /\ 0 .. y \subseteq 0 .. x /\ x \notin 0 .. y /\ x \in 0 .. x
    BY <1>5
  <2>2. <<0 .. y, 0 .. x>> \in StrictSubsetOrdering(Nat)
    BY <2>1 DEF StrictSubsetOrdering
  <2> QED BY <1>3, <1>4, <2>1, <2>2
<1> QED BY <1>5

(* Induction over the naturals.                                            *)
LEMMA NatInd ==
  ASSUME NEW G, 0 \in G, \A n \in Nat : n \in G => n + 1 \in G
  PROVE  Nat \subseteq G
<1> SUFFICES ASSUME Nat \ G # {} PROVE FALSE
  OBVIOUS
<1>1. PICK x \in Nat \ G : \A y \in Nat \ G : x <= y
  BY LeastNat
<1>2. x # 0 /\ x - 1 \in Nat /\ (x - 1) + 1 = x
  BY <1>1
<1>3. x - 1 \in G
  BY <1>1, <1>2
<1> QED BY <1>1, <1>2, <1>3

(* Induction over the subsets of a finite set.                             *)
LEMMA SetInd ==
  ASSUME NEW S, IsFiniteSet(S), NEW G,
         \A T \in SUBSET S : (\A U \in SUBSET T : U # T => U \in G) => T \in G
  PROVE  S \in G
<1> DEFINE B == {T \in SUBSET S : T \notin G}
<1> SUFFICES ASSUME B # {} PROVE FALSE
  OBVIOUS
<1>1. IsWellFoundedOn(StrictSubsetOrdering(S), FiniteSubsetsOf(S))
  BY FS_StrictSubsetOrderingWellFounded
<1>2. B \subseteq FiniteSubsetsOf(S)
  BY FS_Subset DEF FiniteSubsetsOf
<1>3. PICK T \in B : \A U \in B : ~ (<<U, T>> \in StrictSubsetOrdering(S))
  <2> HIDE DEF B
  <2> QED BY <1>1, <1>2, WFMin
<1>4. \A U \in SUBSET T : U # T => U \in G
  BY <1>3 DEF StrictSubsetOrdering
<1> QED BY <1>4

(* f has the value base at 0 and follows from the one before elsewhere.    *)
Iterates(f, n, base, next) == f[0] = base /\ \A i \in 1 .. n : f[i] = next[i][f[i - 1]]

(* A recursive definition over a prefix of the naturals has a solution.    *)
LEMMA PrefixRecursion ==
  ASSUME NEW n \in Nat, NEW V, NEW base \in V, NEW next \in [1 .. n -> [V -> V]]
  PROVE  \E f \in [0 .. n -> V] : Iterates(f, n, base, next)
<1> DEFINE Solves(f, k) == /\ f \in [0 .. k -> V] /\ f[0] = base
                           /\ \A i \in 1 .. k : f[i] = next[i][f[i - 1]]
           G == {k \in Nat : k <= n => \E f : Solves(f, k)}
<1>1. 0 \in G
  <2>1. Solves([i \in 0 .. 0 |-> base], 0)
    OBVIOUS
  <2> QED BY <2>1
<1>2. ASSUME NEW k \in Nat, k \in G PROVE k + 1 \in G
  <2> SUFFICES ASSUME k + 1 <= n PROVE \E f : Solves(f, k + 1)
    OBVIOUS
  <2>1. PICK f : Solves(f, k)
    BY <1>2
  <2>2. f[k] \in V /\ next[k + 1][f[k]] \in V
    BY <2>1
  <2> DEFINE g == [i \in 0 .. k + 1 |-> IF i = k + 1 THEN next[k + 1][f[k]] ELSE f[i]]
  <2>3. g \in [0 .. k + 1 -> V] /\ g[0] = base
    BY <2>1, <2>2
  <2>4. ASSUME NEW i \in 1 .. k + 1 PROVE g[i] = next[i][g[i - 1]]
    <3>1. CASE i = k + 1
      BY <3>1
    <3>2. CASE i # k + 1
      <4>1. i \in 1 .. k /\ g[i] = f[i] /\ g[i - 1] = f[i - 1]
        BY <3>2
      <4> QED BY <2>1, <4>1
    <3> QED BY <3>1, <3>2
  <2>5. Solves(g, k + 1)
    BY <2>3, <2>4
  <2> QED BY <2>5
<1>3. n \in G
  <2> HIDE DEF G
  <2> QED BY <1>1, <1>2, NatInd
<1> QED BY <1>3 DEF Iterates

(* What every step of it keeps, its value has.                             *)
LEMMA PrefixInduction ==
  ASSUME NEW n \in Nat, NEW f, NEW V, f[0] \in V,
         \A i \in 1 .. n : f[i - 1] \in V => f[i] \in V
  PROVE  f[n] \in V
<1> DEFINE G == {k \in Nat : k <= n => f[k] \in V}
<1>1. 0 \in G
  OBVIOUS
<1>2. ASSUME NEW k \in Nat, k \in G PROVE k + 1 \in G
  <2>1. k + 1 <= n => k + 1 \in 1 .. n /\ (k + 1) - 1 = k
    OBVIOUS
  <2> QED BY <1>2, <2>1
<1>3. n \in G
  <2> HIDE DEF G
  <2> QED BY <1>1, <1>2, NatInd
<1> QED BY <1>3

------------------------------------------------------------------------------
(* Sums over finite sets: SumFunctionOnSet of the community modules is a   *)
(* recursion that takes one element after the other, in the order CHOOSE   *)
(* picks them.  What it returns does not depend on that order.             *)

Pick(s) == CHOOSE x \in s : TRUE

(* g has the sum of every subset of T.                                     *)
SumsUp(g, f, T) ==
  \A s \in SUBSET T : g[s] = IF s = {} THEN 0 ELSE f[Pick(s)] + g[s \ {Pick(s)}]

(* The recursion of the library.                                           *)
SumsRecursively(g, f, S) ==
  g = [s \in SUBSET S |-> IF s = {} THEN 0 ELSE f[Pick(s)] + g[s \ {Pick(s)}]]

Sum(f, S) == SumFunctionOnSet(f, S)

(* Two functions that sum up agree where both do.                          *)
LEMMA SumsAgree ==
  ASSUME NEW f, NEW S, IsFiniteSet(S), NEW g, NEW h, SumsUp(g, f, S), SumsUp(h, f, S)
  PROVE  g[S] = h[S]
<1> DEFINE G == {T \in SUBSET S : g[T] = h[T]}
<1>1. ASSUME NEW T \in SUBSET S, \A U \in SUBSET T : U # T => U \in G
      PROVE  T \in G
  <2>1. CASE T = {}
    BY <2>1 DEF SumsUp
  <2>2. CASE T # {}
    <3>1. Pick(T) \in T
      BY <2>2 DEF Pick
    <3>2. g[T \ {Pick(T)}] = h[T \ {Pick(T)}]
      BY <1>1, <3>1
    <3>3. g[T] = f[Pick(T)] + g[T \ {Pick(T)}] /\ h[T] = f[Pick(T)] + h[T \ {Pick(T)}]
      BY <2>2 DEF SumsUp
    <3> QED BY <3>2, <3>3
  <2> QED BY <2>1, <2>2
<1>2. S \in G
  <2> HIDE DEF G
  <2> QED BY <1>1, SetInd
<1> QED BY <1>2

(* There is one for every finite set.                                      *)
LEMMA SumsExist ==
  ASSUME NEW f, NEW S, IsFiniteSet(S)
  PROVE  \E g : SumsRecursively(g, f, S)
<1> DEFINE Of(T) == CHOOSE g : SumsUp(g, f, T)
           G == {T \in SUBSET S : SumsUp(Of(T), f, T)}
           val == [s \in SUBSET S |-> Of(s)[s]]
           rec == [s \in SUBSET S |-> IF s = {} THEN 0 ELSE f[Pick(s)] + val[s \ {Pick(s)}]]
<1>1. ASSUME NEW T \in SUBSET S, T # {}, SumsUp(Of(T), f, T), T \ {Pick(T)} \in G
      PROVE  Of(T)[T] = f[Pick(T)] + Of(T \ {Pick(T)})[T \ {Pick(T)}]
  <2> DEFINE U == T \ {Pick(T)}
             g == Of(T)
             h == Of(U)
  <2>1. g[T] = f[Pick(T)] + g[U]
    BY <1>1 DEF SumsUp
  <2>2. SumsUp(g, f, U) /\ SumsUp(h, f, U)
    BY <1>1 DEF SumsUp
  <2>3. IsFiniteSet(U)
    BY FS_Subset
  <2> HIDE DEF U, g, h
  <2>4. g[U] = h[U]
    BY <2>2, <2>3, SumsAgree
  <2> QED BY <2>1, <2>4 DEF U, g, h
<1>2. ASSUME NEW T \in SUBSET S, \A U \in SUBSET T : U # T => U \in G
      PROVE  T \in G
  <2> DEFINE new == IF T = {} THEN 0 ELSE f[Pick(T)] + val[T \ {Pick(T)}]
             g == [s \in SUBSET T |-> IF s = T THEN new ELSE val[s]]
  <2>1. ASSUME NEW s \in SUBSET T PROVE g[s] = IF s = {} THEN 0 ELSE f[Pick(s)] + g[s \ {Pick(s)}]
    <3>1. CASE s = {}
      <4>1. s # T => s \in G /\ val[s] = Of(s)[s]
        BY <1>2
      <4> QED BY <3>1, <4>1 DEF SumsUp
    <3>2. CASE s # {}
      <4>1. Pick(s) \in s
        BY <3>2 DEF Pick
      <4>2. s \ {Pick(s)} \in SUBSET T /\ s \ {Pick(s)} # T
        BY <4>1
      <4>3. g[s \ {Pick(s)}] = val[s \ {Pick(s)}]
        BY <4>2
      <4>4. CASE s = T
        BY <3>2, <4>3, <4>4
      <4>5. CASE s # T
        <5>1. s \in G /\ s \ {Pick(s)} \in G
          BY <1>2, <4>2, <4>5
        <5>2. val[s] = f[Pick(s)] + val[s \ {Pick(s)}]
          BY <1>1, <3>2, <5>1
        <5> QED BY <3>2, <4>3, <4>5, <5>2
      <4> QED BY <4>4, <4>5
    <3> QED BY <3>1, <3>2
  <2> HIDE DEF g
  <2>2. SumsUp(g, f, T)
    BY <2>1 DEF SumsUp
  <2>3. SumsUp(Of(T), f, T)
    BY <2>2
  <2> QED BY <2>3
<1>3. \A T \in SUBSET S : T \in G
  <2> SUFFICES ASSUME NEW T \in SUBSET S PROVE T \in G
    OBVIOUS
  <2>1. IsFiniteSet(T)
    BY FS_Subset
  <2> HIDE DEF G
  <2>2. \A V \in SUBSET T : (\A U \in SUBSET V : U # V => U \in G) => V \in G
    BY <1>2
  <2> QED BY <2>1, <2>2, SetInd
<1>4. ASSUME NEW s \in SUBSET S PROVE val[s] = rec[s]
  <2>1. CASE s = {}
    BY <1>3, <2>1 DEF SumsUp
  <2>2. CASE s # {}
    BY <1>1, <1>3, <2>2
  <2> QED BY <2>1, <2>2
<1>5. val = rec
  <2>1. val = [s \in SUBSET S |-> val[s]] /\ rec = [s \in SUBSET S |-> rec[s]]
    OBVIOUS
  <2> HIDE DEF val, rec
  <2> QED BY <1>4, <2>1
<1>6. SumsRecursively(val, f, S)
  BY <1>5 DEF SumsRecursively
<1> HIDE DEF val
<1> QED BY <1>6

(* The sum of a set is a number that sums it up.                           *)
LEMMA SumIs ==
  ASSUME NEW f, NEW S, IsFiniteSet(S)
  PROVE  \E g : SumsUp(g, f, S) /\ Sum(f, S) = g[S]
<1> DEFINE sum == CHOOSE g : SumsRecursively(g, f, S)
<1>1. Sum(f, S) = sum[S]
  BY DEF Sum, SumFunctionOnSet, FoldFunctionOnSet, MapThenFoldSet, Pick, SumsRecursively
<1>2. SumsRecursively(sum, f, S)
  BY SumsExist
<1> HIDE DEF sum
<1>3. SumsUp(sum, f, S)
  BY <1>2 DEF SumsUp, SumsRecursively
<1> QED BY <1>1, <1>3

(* The sum of nothing.                                                     *)
LEMMA SumOfNone ==
  ASSUME NEW f
  PROVE  Sum(f, {}) = 0
<1>1. PICK g : SumsUp(g, f, {}) /\ Sum(f, {}) = g[{}]
  BY SumIs, FS_EmptySet
<1> QED BY <1>1 DEF SumsUp

(* The element that is picked first.                                       *)
LEMMA SumOfPicked ==
  ASSUME NEW f, NEW S, IsFiniteSet(S), S # {}
  PROVE  /\ Pick(S) \in S
         /\ Sum(f, S) = f[Pick(S)] + Sum(f, S \ {Pick(S)})
<1> DEFINE U == S \ {Pick(S)}
<1>0. Pick(S) \in S
  BY DEF Pick
<1>1. PICK g : SumsUp(g, f, S) /\ Sum(f, S) = g[S]
  BY SumIs
<1>2. IsFiniteSet(U)
  BY FS_Subset
<1>3. PICK h : SumsUp(h, f, U) /\ Sum(f, U) = h[U]
  <2> HIDE DEF U
  <2> QED BY <1>2, SumIs
<1>4. g[S] = f[Pick(S)] + g[U] /\ SumsUp(g, f, U)
  BY <1>1 DEF SumsUp
<1>5. g[U] = h[U]
  <2> HIDE DEF U
  <2> QED BY <1>2, <1>3, <1>4, SumsAgree
<1> QED BY <1>0, <1>1, <1>3, <1>4, <1>5

(* Sums of naturals are natural.                                           *)
LEMMA SumTyped ==
  ASSUME NEW f, NEW S, IsFiniteSet(S), \A x \in S : f[x] \in Nat
  PROVE  Sum(f, S) \in Nat
<1> DEFINE G == {T \in SUBSET S : Sum(f, T) \in Nat}
<1>1. ASSUME NEW T \in SUBSET S, \A U \in SUBSET T : U # T => U \in G
      PROVE  T \in G
  <2>0. IsFiniteSet(T)
    BY FS_Subset
  <2>1. CASE T = {}
    BY <2>1, SumOfNone
  <2>2. CASE T # {}
    <3>1. Pick(T) \in T /\ Sum(f, T) = f[Pick(T)] + Sum(f, T \ {Pick(T)})
      BY <2>0, <2>2, SumOfPicked
    <3>2. Sum(f, T \ {Pick(T)}) \in Nat
      BY <1>1, <3>1
    <3> QED BY <3>1, <3>2
  <2> QED BY <2>1, <2>2
<1>2. S \in G
  <2> HIDE DEF G
  <2> QED BY <1>1, SetInd
<1> QED BY <1>2

(* Any element may be taken out.                                           *)
LEMMA SumOfElement ==
  ASSUME NEW f, NEW S, IsFiniteSet(S), \A x \in S : f[x] \in Nat, NEW e \in S
  PROVE  Sum(f, S) = f[e] + Sum(f, S \ {e})
<1> DEFINE G == {T \in SUBSET S : \A x \in T : Sum(f, T) = f[x] + Sum(f, T \ {x})}
<1>1. ASSUME NEW T \in SUBSET S, \A U \in SUBSET T : U # T => U \in G
      PROVE  T \in G
  <2> SUFFICES ASSUME NEW x \in T PROVE Sum(f, T) = f[x] + Sum(f, T \ {x})
    OBVIOUS
  <2> DEFINE y == Pick(T)
             Ux == T \ {x}
             Uy == T \ {y}
             Uxy == T \ {x, y}
  <2>1. IsFiniteSet(T) /\ IsFiniteSet(Uxy)
    BY FS_Subset
  <2>2. y \in T /\ Sum(f, T) = f[y] + Sum(f, Uy)
    BY <2>1, SumOfPicked
  <2>3. CASE x # y
    <3>1. x \in Uy /\ Uy \in SUBSET T /\ Uy # T /\ Uxy = Uy \ {x}
      BY <2>2, <2>3
    <3>2. Sum(f, Uy) = f[x] + Sum(f, Uxy)
      <4> HIDE DEF y, Uy, Uxy
      <4> QED BY <1>1, <3>1
    <3>3. y \in Ux /\ Ux \in SUBSET T /\ Ux # T /\ Uxy = Ux \ {y}
      BY <2>2, <2>3
    <3>4. Sum(f, Ux) = f[y] + Sum(f, Uxy)
      <4> HIDE DEF y, Ux, Uxy
      <4> QED BY <1>1, <3>3
    <3>5. f[x] \in Nat /\ f[y] \in Nat /\ Sum(f, Uxy) \in Nat
      BY <2>1, <2>2, SumTyped
    <3> HIDE DEF y, Ux, Uy, Uxy
    <3>6. Sum(f, T) = f[x] + Sum(f, Ux)
      BY <2>2, <3>2, <3>4, <3>5
    <3> QED BY <3>6 DEF Ux
  <2> QED BY <2>2, <2>3
<1>2. S \in G
  <2> HIDE DEF G
  <2> QED BY <1>1, SetInd
<1> QED BY <1>2

(* The sum depends on what is summed only.                                 *)
LEMMA SumOfSame ==
  ASSUME NEW f, NEW g, NEW S, IsFiniteSet(S), \A x \in S : f[x] = g[x]
  PROVE  Sum(f, S) = Sum(g, S)
<1> DEFINE G == {T \in SUBSET S : Sum(f, T) = Sum(g, T)}
<1>1. ASSUME NEW T \in SUBSET S, \A U \in SUBSET T : U # T => U \in G
      PROVE  T \in G
  <2>0. IsFiniteSet(T)
    BY FS_Subset
  <2>1. CASE T = {}
    BY <2>1, SumOfNone
  <2>2. CASE T # {}
    <3>1. /\ Pick(T) \in T /\ Sum(f, T) = f[Pick(T)] + Sum(f, T \ {Pick(T)})
          /\ Sum(g, T) = g[Pick(T)] + Sum(g, T \ {Pick(T)})
      BY <2>0, <2>2, SumOfPicked
    <3>2. Sum(f, T \ {Pick(T)}) = Sum(g, T \ {Pick(T)})
      BY <1>1, <3>1
    <3> QED BY <3>1, <3>2
  <2> QED BY <2>1, <2>2
<1>2. S \in G
  <2> HIDE DEF G
  <2> QED BY <1>1, SetInd
<1> QED BY <1>2

(* The two parts of a set are summed up one after the other; so no part    *)
(* has a greater sum.                                                      *)
LEMMA SumOfParts ==
  ASSUME NEW f, NEW S, IsFiniteSet(S), \A x \in S : f[x] \in Nat,
         NEW P, NEW Q, P \cup Q = S, P \cap Q = {}
  PROVE  /\ Sum(f, S) = Sum(f, P) + Sum(f, Q)
         /\ Sum(f, P) \in Nat /\ Sum(f, Q) \in Nat /\ Sum(f, P) <= Sum(f, S)
<1> DEFINE G == {T \in SUBSET P : Sum(f, S) = Sum(f, T) + Sum(f, S \ T)}
<1>a. P \in SUBSET S
  OBVIOUS
<1>0. IsFiniteSet(P) /\ Sum(f, S) \in Nat /\ \A T \in SUBSET S : Sum(f, T) \in Nat /\ IsFiniteSet(T)
  <2> SUFFICES ASSUME NEW T \in SUBSET S PROVE Sum(f, T) \in Nat /\ IsFiniteSet(T)
    OBVIOUS
  <2>1. IsFiniteSet(T)
    BY FS_Subset
  <2> QED BY <1>a, <2>1, SumTyped
<1>1. ASSUME NEW T \in SUBSET P, \A U \in SUBSET T : U # T => U \in G
      PROVE  T \in G
  <2>1. CASE T = {}
    BY <1>0, <2>1, SumOfNone
  <2>2. CASE T # {}
    <3>1. PICK x \in T : TRUE
      BY <2>2
    <3> DEFINE U == T \ {x}
               V == S \ U
    <3>2. Sum(f, S) = Sum(f, U) + Sum(f, V)
      BY <1>1
    <3>3. Sum(f, T) = f[x] + Sum(f, U)
      BY <1>0, SumOfElement
    <3>4. x \in V /\ V \ {x} = S \ T /\ V \in SUBSET S
      OBVIOUS
    <3>5. Sum(f, V) = f[x] + Sum(f, V \ {x})
      <4> HIDE DEF V
      <4> QED BY <1>0, <3>4, SumOfElement
    <3>6. f[x] \in Nat /\ Sum(f, U) \in Nat /\ Sum(f, S \ T) \in Nat
      BY <1>0
    <3> HIDE DEF U, V
    <3> QED BY <3>2, <3>3, <3>4, <3>5, <3>6
  <2> QED BY <2>1, <2>2
<1>2. P \in G
  <2> HIDE DEF G
  <2> QED BY <1>0, <1>1, SetInd
<1>3. Q = S \ P /\ P \in SUBSET S /\ Q \in SUBSET S
  OBVIOUS
<1> QED BY <1>0, <1>2, <1>3

(* A subset and what is left of the set.                                   *)
LEMMA SumOfSubset ==
  ASSUME NEW f, NEW S, IsFiniteSet(S), \A x \in S : f[x] \in Nat, NEW P \in SUBSET S
  PROVE  Sum(f, S) = Sum(f, P) + Sum(f, S \ P) /\ Sum(f, P) <= Sum(f, S)
<1>1. PICK Q : Q = S \ P
  OBVIOUS
<1>2. P \cup Q = S /\ P \cap Q = {}
  BY <1>1
<1>3. Sum(f, S) = Sum(f, P) + Sum(f, Q) /\ Sum(f, P) <= Sum(f, S)
  BY <1>2, SumOfParts
<1> QED BY <1>1, <1>3

(* The sum of zeros.                                                       *)
LEMMA SumOfZeros ==
  ASSUME NEW f, NEW S, IsFiniteSet(S), \A x \in S : f[x] = 0
  PROVE  Sum(f, S) = 0
<1> DEFINE G == {T \in SUBSET S : Sum(f, T) = 0}
<1>1. ASSUME NEW T \in SUBSET S, \A U \in SUBSET T : U # T => U \in G
      PROVE  T \in G
  <2>0. IsFiniteSet(T)
    BY FS_Subset
  <2>1. CASE T = {}
    BY <2>1, SumOfNone
  <2>2. CASE T # {}
    <3>1. Pick(T) \in T /\ Sum(f, T) = f[Pick(T)] + Sum(f, T \ {Pick(T)})
      BY <2>0, <2>2, SumOfPicked
    <3>2. Sum(f, T \ {Pick(T)}) = 0
      BY <1>1, <3>1
    <3> QED BY <3>1, <3>2
  <2> QED BY <2>1, <2>2
<1>2. S \in G
  <2> HIDE DEF G
  <2> QED BY <1>1, SetInd
<1> QED BY <1>2
==============================================================================
