---------------------------- MODULE DataInduction ----------------------------
(***************************************************************************)
(* Induction over data, with sets in the place of predicates: a set that   *)
(* has whatever follows from what is smaller has everything.  With it, the *)
(* recursive definitions of the models can be reasoned about: the sums of  *)
(* the cache's sizes, and the sorted lists of formats and chapters.        *)
(***************************************************************************)
EXTENDS Sorting, Functions, FiniteSetTheorems, TLAPS

(* Course-of-values induction over the naturals. *)
LEMMA NaturalInduction ==
  ASSUME NEW Q, \A n \in Nat : (\A m \in Nat : m < n => m \in Q) => n \in Q
  PROVE  Nat \subseteq Q
<1>1. SUFFICES ASSUME Nat \ Q # {} PROVE FALSE
  OBVIOUS
<1>2. PICK n \in Nat \ Q : \A m \in Nat \ Q : <<m, n>> \notin OpToRel(<, Nat)
  <2> DEFINE R == OpToRel(<, Nat)
             T == Nat \ Q
  <2>1. IsWellFoundedOn(R, Nat)
    BY NatLessThanWellFounded
  <2>2. T \subseteq Nat /\ T # {}
    BY <1>1
  <2> HIDE DEF R, T
  <2>3. \E n \in T : \A m \in T : ~(<<m, n>> \in R)
    BY <2>1, <2>2, WFMin
  <2> QED BY <2>3 DEF R, T
<1>3. \A m \in Nat : m < n => m \in Q
  BY <1>2 DEF OpToRel
<1> QED BY <1>2, <1>3

(* Induction over the subsets of a finite set. *)
LEMMA SubsetInduction ==
  ASSUME NEW S, IsFiniteSet(S), NEW Q,
         \A T \in SUBSET S : (\A U \in SUBSET T : U # T => U \in Q) => T \in Q
  PROVE  SUBSET S \subseteq Q
<1>1. SUFFICES ASSUME (SUBSET S) \ Q # {} PROVE FALSE
  OBVIOUS
<1>2. (SUBSET S) \ Q \subseteq FiniteSubsetsOf(S)
  BY FS_Subset DEF FiniteSubsetsOf
<1>3. PICK T \in (SUBSET S) \ Q : \A U \in (SUBSET S) \ Q : <<U, T>> \notin StrictSubsetOrdering(S)
  <2> DEFINE R == StrictSubsetOrdering(S)
             F == FiniteSubsetsOf(S)
             W == (SUBSET S) \ Q
  <2>1. IsWellFoundedOn(R, F) /\ W \subseteq F /\ W # {}
    BY <1>1, <1>2, FS_StrictSubsetOrderingWellFounded
  <2> HIDE DEF R, F, W
  <2>2. \E T \in W : \A U \in W : ~(<<U, T>> \in R)
    BY <2>1, WFMin
  <2> QED BY <2>2 DEF R, W
<1>4. \A U \in SUBSET T : U # T => U \in Q
  BY <1>3 DEF StrictSubsetOrdering
<1> QED BY <1>3, <1>4

-----------------------------------------------------------------------------
(* Sums over finite sets: SumFunctionOnSet(f, S) takes an element of S out, *)
(* adds its value to the sum over the others, and so on.                    *)
One(s) == CHOOSE x \in s : TRUE

Sums(g, f, D) ==
  g = [s \in D |-> IF s = {} THEN 0 ELSE f[One(s)] + g[s \ {One(s)}]]

LEMMA OneOf == \A s : s # {} => One(s) \in s
BY DEF One

(* There is a function that satisfies the recursive definition. *)
LEMMA SumsExist ==
  ASSUME NEW f, NEW S, IsFiniteSet(S)
  PROVE  \E g : Sums(g, f, SUBSET S)
<1> DEFINE Upto(n) == {s \in SUBSET S : Cardinality(s) <= n}
           Q == {n \in Nat : \E g : Sums(g, f, Upto(n))}
<1>0. \A s \in SUBSET S : /\ IsFiniteSet(s) /\ Cardinality(s) \in Nat
                          /\ Cardinality(s) <= Cardinality(S)
                          /\ (Cardinality(s) = 0 <=> s = {})
                          /\ \A x \in s : Cardinality(s \ {x}) = Cardinality(s) - 1
  BY FS_Subset, FS_CardinalityType, FS_EmptySet, FS_RemoveElement
<1>1. ASSUME NEW n \in Nat, \A m \in Nat : m < n => m \in Q PROVE n \in Q
  <2>1. CASE n = 0
    <3> DEFINE g == [s \in Upto(0) |-> 0]
    <3>1. \A s \in Upto(0) : s = {}
      BY <1>0
    <3>2. Sums(g, f, Upto(0))
      BY <3>1 DEF Sums
    <3> QED BY <2>1, <3>2
  <2>2. CASE n > 0
    <3>1. n - 1 \in Q
      <4> HIDE DEF Q
      <4>1. n - 1 \in Nat /\ n - 1 < n
        BY <2>2
      <4> QED BY <1>1, <4>1
    <3>2. PICK h : Sums(h, f, Upto(n - 1))
      BY <3>1
    <3> DEFINE g == [s \in Upto(n) |-> IF s = {} THEN 0 ELSE f[One(s)] + h[s \ {One(s)}]]
    <3>3. ASSUME NEW s \in Upto(n), s # {} PROVE g[s \ {One(s)}] = h[s \ {One(s)}]
      <4> DEFINE u == s \ {One(s)}
      <4>1. u \in Upto(n - 1) /\ u \in Upto(n)
        BY <1>0, <2>2, <3>3, OneOf
      <4> HIDE DEF Upto, u
      <4>2. h[u] = IF u = {} THEN 0 ELSE f[One(u)] + h[u \ {One(u)}]
        BY <3>2, <4>1 DEF Sums
      <4>3. g[u] = IF u = {} THEN 0 ELSE f[One(u)] + h[u \ {One(u)}]
        BY <4>1
      <4>4. g[u] = h[u]
        BY <4>2, <4>3
      <4> QED BY <4>4 DEF u
    <3> HIDE DEF Upto
    <3>4. g = [s \in Upto(n) |-> IF s = {} THEN 0 ELSE f[One(s)] + g[s \ {One(s)}]]
      BY <3>3
    <3> QED BY <3>4 DEF Sums
  <2> HIDE DEF Q
  <2> QED BY <2>1, <2>2
<1>2. Nat \subseteq Q
  <2> HIDE DEF Q
  <2> QED BY <1>1, NaturalInduction
<1>3. Cardinality(S) \in Q
  BY <1>2, FS_CardinalityType
<1>4. Upto(Cardinality(S)) = SUBSET S
  BY <1>0
<1> QED BY <1>3, <1>4

(* What it says of a set does not depend on the sets around it. *)
LEMMA SumsAgree ==
  ASSUME NEW f, NEW S, IsFiniteSet(S), NEW T, S \in SUBSET T, NEW g, NEW h,
         Sums(g, f, SUBSET S), Sums(h, f, SUBSET T)
  PROVE  g[S] = h[S]
<1> DEFINE Q == {s \in SUBSET S : g[s] = h[s]}
<1>1. ASSUME NEW s \in SUBSET S, \A u \in SUBSET s : u # s => u \in Q PROVE s \in Q
  <2>1. s # {} => s \ {One(s)} \in Q
    BY <1>1, OneOf
  <2>2. g[s] = IF s = {} THEN 0 ELSE f[One(s)] + g[s \ {One(s)}]
    BY DEF Sums
  <2>3. h[s] = IF s = {} THEN 0 ELSE f[One(s)] + h[s \ {One(s)}]
    BY DEF Sums
  <2> QED BY <2>1, <2>2, <2>3
<1>2. SUBSET S \subseteq Q
  <2> HIDE DEF Q
  <2> QED BY <1>1, SubsetInduction
<1> QED BY <1>2

LEMMA SumIs ==
  ASSUME NEW f, NEW S, IsFiniteSet(S)
  PROVE  \E g : Sums(g, f, SUBSET S) /\ SumFunctionOnSet(f, S) = g[S]
<1> DEFINE g == CHOOSE g : Sums(g, f, SUBSET S)
<1>1. Sums(g, f, SUBSET S)
  BY SumsExist
<1>2. SumFunctionOnSet(f, S) = g[S]
  BY DEF SumFunctionOnSet, FoldFunctionOnSet, MapThenFoldSet, Sums, One
<1> QED BY <1>1, <1>2

(* The sum over a set is the value of one of its elements and the sum over the others. *)
LEMMA SumStep ==
  ASSUME NEW f, NEW S, IsFiniteSet(S)
  PROVE  SumFunctionOnSet(f, S) =
           IF S = {} THEN 0 ELSE f[One(S)] + SumFunctionOnSet(f, S \ {One(S)})
<1>1. PICK g : Sums(g, f, SUBSET S) /\ SumFunctionOnSet(f, S) = g[S]
  BY SumIs
<1>2. g[S] = IF S = {} THEN 0 ELSE f[One(S)] + g[S \ {One(S)}]
  BY <1>1 DEF Sums
<1> DEFINE T == S \ {One(S)}
<1>3. IsFiniteSet(T)
  BY FS_RemoveElement
<1> HIDE DEF T
<1>4. PICK h : Sums(h, f, SUBSET T) /\ SumFunctionOnSet(f, T) = h[T]
  BY <1>3, SumIs
<1>5. T \subseteq S
  BY DEF T
<1>6. h[T] = g[T]
  <2>1. Sums(g, f, SUBSET S) /\ Sums(h, f, SUBSET T)
    BY <1>1, <1>4
  <2>2. T \in SUBSET S
    BY <1>5
  <2>3. ASSUME NEW a, NEW b, NEW U, NEW V, IsFiniteSet(U), U \in SUBSET V,
               Sums(a, f, SUBSET U), Sums(b, f, SUBSET V)
        PROVE  a[U] = b[U]
    BY <2>3, SumsAgree
  <2> QED BY <1>3, <2>1, <2>2, <2>3
<1> QED BY <1>1, <1>2, <1>4, <1>6 DEF T

LEMMA SumIsNat ==
  ASSUME NEW S, IsFiniteSet(S), NEW f, \A x \in S : f[x] \in Nat
  PROVE  SumFunctionOnSet(f, S) \in Nat
<1> DEFINE Q == {T \in SUBSET S : SumFunctionOnSet(f, T) \in Nat}
<1>1. ASSUME NEW T \in SUBSET S, \A U \in SUBSET T : U # T => U \in Q PROVE T \in Q
  <2>1. IsFiniteSet(T)
    BY FS_Subset
  <2>2. T # {} => T \ {One(T)} \in Q /\ f[One(T)] \in Nat
    BY <1>1, OneOf
  <2>3. SumFunctionOnSet(f, T) =
           IF T = {} THEN 0 ELSE f[One(T)] + SumFunctionOnSet(f, T \ {One(T)})
    BY <2>1, SumStep
  <2> QED BY <2>2, <2>3
<1> HIDE DEF Q
<1>2. SUBSET S \subseteq Q
  BY <1>1, SubsetInduction
<1> QED BY <1>2 DEF Q

(* Any element may be taken out first. *)
LEMMA SumTakeOut ==
  ASSUME NEW S, IsFiniteSet(S), NEW f, \A x \in S : f[x] \in Nat, NEW y \in S
  PROVE  SumFunctionOnSet(f, S) = f[y] + SumFunctionOnSet(f, S \ {y})
<1> DEFINE Q == {T \in SUBSET S : \A t \in T :
                   SumFunctionOnSet(f, T) = f[t] + SumFunctionOnSet(f, T \ {t})}
<1>1. ASSUME NEW T \in SUBSET S, \A U \in SUBSET T : U # T => U \in Q PROVE T \in Q
  <2> SUFFICES ASSUME NEW t \in T
               PROVE  SumFunctionOnSet(f, T) = f[t] + SumFunctionOnSet(f, T \ {t})
    OBVIOUS
  <2> DEFINE c == One(T)
  <2>0. c \in T
    BY OneOf
  <2>1. SumFunctionOnSet(f, T) = f[c] + SumFunctionOnSet(f, T \ {c})
    BY SumStep, FS_Subset
  <2> HIDE DEF c
  <2>2. CASE c = t
    BY <2>1, <2>2
  <2>3. CASE c # t
    <3>1. T \ {c} \in Q /\ T \ {t} \in Q /\ t \in T \ {c} /\ c \in T \ {t}
      BY <1>1, <2>0, <2>3
    <3>2. SumFunctionOnSet(f, T \ {c}) = f[t] + SumFunctionOnSet(f, (T \ {c}) \ {t})
      BY <3>1
    <3>3. SumFunctionOnSet(f, T \ {t}) = f[c] + SumFunctionOnSet(f, (T \ {t}) \ {c})
      BY <3>1
    <3>4. (T \ {c}) \ {t} = (T \ {t}) \ {c}
      OBVIOUS
    <3>5. SumFunctionOnSet(f, (T \ {t}) \ {c}) \in Nat /\ f[c] \in Nat /\ f[t] \in Nat
      BY <2>0, SumIsNat, FS_Subset
    <3> DEFINE r == SumFunctionOnSet(f, (T \ {t}) \ {c})
    <3>6. SumFunctionOnSet(f, T \ {c}) = f[t] + r
      BY <3>2, <3>4
    <3> HIDE DEF r
    <3>7. f[c] + (f[t] + r) = f[t] + (f[c] + r)
      BY <3>5 DEF r
    <3>8. SumFunctionOnSet(f, T \ {t}) = f[c] + r
      BY <3>3 DEF r
    <3> QED BY <2>1, <3>6, <3>7, <3>8
  <2> QED BY <2>2, <2>3
<1>2. SUBSET S \subseteq Q
  <2> HIDE DEF Q
  <2> QED BY <1>1, SubsetInduction
<1> QED BY <1>2

(* Only the values over the set count. *)
LEMMA SumSame ==
  ASSUME NEW S, IsFiniteSet(S), NEW f, NEW g, \A x \in S : f[x] = g[x]
  PROVE  SumFunctionOnSet(f, S) = SumFunctionOnSet(g, S)
<1> DEFINE Q == {T \in SUBSET S : SumFunctionOnSet(f, T) = SumFunctionOnSet(g, T)}
<1>1. ASSUME NEW T \in SUBSET S, \A U \in SUBSET T : U # T => U \in Q PROVE T \in Q
  <2>1. IsFiniteSet(T)
    BY FS_Subset
  <2>2. T # {} => T \ {One(T)} \in Q /\ f[One(T)] = g[One(T)]
    BY <1>1, OneOf
  <2>3. SumFunctionOnSet(f, T) =
           IF T = {} THEN 0 ELSE f[One(T)] + SumFunctionOnSet(f, T \ {One(T)})
    BY <2>1, SumStep
  <2>4. SumFunctionOnSet(g, T) =
           IF T = {} THEN 0 ELSE g[One(T)] + SumFunctionOnSet(g, T \ {One(T)})
    BY <2>1, SumStep
  <2> QED BY <2>2, <2>3, <2>4
<1>2. SUBSET S \subseteq Q
  <2> HIDE DEF Q
  <2> QED BY <1>1, SubsetInduction
<1> QED BY <1>2

(* Sums compare as their terms do. *)
LEMMA SumLess ==
  ASSUME NEW S, IsFiniteSet(S), NEW f, NEW g,
         \A x \in S : f[x] \in Nat /\ g[x] \in Nat /\ f[x] <= g[x]
  PROVE  SumFunctionOnSet(f, S) <= SumFunctionOnSet(g, S)
<1> DEFINE Q == {T \in SUBSET S : /\ SumFunctionOnSet(f, T) \in Nat /\ SumFunctionOnSet(g, T) \in Nat
                                 /\ SumFunctionOnSet(f, T) <= SumFunctionOnSet(g, T)}
<1>1. ASSUME NEW T \in SUBSET S, \A U \in SUBSET T : U # T => U \in Q PROVE T \in Q
  <2>1. IsFiniteSet(T)
    BY FS_Subset
  <2>2. T # {} => /\ T \ {One(T)} \in Q /\ f[One(T)] \in Nat /\ g[One(T)] \in Nat
                  /\ f[One(T)] <= g[One(T)]
    BY <1>1, OneOf
  <2>3. SumFunctionOnSet(f, T) =
           IF T = {} THEN 0 ELSE f[One(T)] + SumFunctionOnSet(f, T \ {One(T)})
    BY <2>1, SumStep
  <2>4. SumFunctionOnSet(g, T) =
           IF T = {} THEN 0 ELSE g[One(T)] + SumFunctionOnSet(g, T \ {One(T)})
    BY <2>1, SumStep
  <2>5. CASE T = {}
    BY <2>3, <2>4, <2>5
  <2>6. CASE T # {}
    BY <2>2, <2>3, <2>4, <2>6
  <2> QED BY <2>5, <2>6
<1>2. SUBSET S \subseteq Q
  <2> HIDE DEF Q
  <2> QED BY <1>1, SubsetInduction
<1> QED BY <1>2

(* A part weighs no more than the whole. *)
LEMMA SumGrows ==
  ASSUME NEW S, IsFiniteSet(S), NEW f, \A x \in S : f[x] \in Nat, NEW T \in SUBSET S
  PROVE  SumFunctionOnSet(f, T) <= SumFunctionOnSet(f, S)
<1> DEFINE Q == {W \in SUBSET S : T \subseteq W =>
                   SumFunctionOnSet(f, T) <= SumFunctionOnSet(f, W)}
<1>1. ASSUME NEW W \in SUBSET S, \A U \in SUBSET W : U # W => U \in Q PROVE W \in Q
  <2>1. SUFFICES ASSUME T \subseteq W, T # W
                 PROVE  SumFunctionOnSet(f, T) <= SumFunctionOnSet(f, W)
    <3>1. SumFunctionOnSet(f, W) \in Nat
      BY SumIsNat, FS_Subset
    <3> QED BY <2>1, <3>1
  <2>2. PICK y \in W : y \notin T
    BY <2>1
  <2>3. SumFunctionOnSet(f, W) = f[y] + SumFunctionOnSet(f, W \ {y})
    BY SumTakeOut, FS_Subset
  <2>4. W \ {y} \in Q /\ T \subseteq W \ {y}
    BY <1>1, <2>1, <2>2
  <2>5. /\ SumFunctionOnSet(f, W \ {y}) \in Nat /\ SumFunctionOnSet(f, T) \in Nat
        /\ f[y] \in Nat
    BY SumIsNat, FS_Subset
  <2> QED BY <2>3, <2>4, <2>5
<1>2. SUBSET S \subseteq Q
  <2> HIDE DEF Q
  <2> QED BY <1>1, SubsetInduction
<1> QED BY <1>2

(* Two parts without a common element. *)
LEMMA SumOfParts ==
  ASSUME NEW S, IsFiniteSet(S), NEW f, \A x \in S : f[x] \in Nat,
         NEW A \in SUBSET S, NEW B \in SUBSET S, A \cap B = {}
  PROVE  SumFunctionOnSet(f, A \union B) = SumFunctionOnSet(f, A) + SumFunctionOnSet(f, B)
<1> DEFINE Q == {T \in SUBSET B : SumFunctionOnSet(f, A \union T)
                                   = SumFunctionOnSet(f, A) + SumFunctionOnSet(f, T)}
<1>0. IsFiniteSet(B) /\ SumFunctionOnSet(f, A) \in Nat
  BY SumIsNat, FS_Subset
<1>1. ASSUME NEW T \in SUBSET B, \A U \in SUBSET T : U # T => U \in Q PROVE T \in Q
  <2>1. CASE T = {}
    <3>1. SumFunctionOnSet(f, {}) = 0
      BY SumStep, FS_EmptySet
    <3>2. A \union T = A
      BY <2>1
    <3> QED BY <1>0, <2>1, <3>1, <3>2
  <2>2. CASE T # {}
    <3>1. PICK y \in T : TRUE
      BY <2>2
    <3> DEFINE U == T \ {y}
    <3>2. IsFiniteSet(T) /\ IsFiniteSet(A \union T) /\ T \subseteq S /\ A \union T \subseteq S
      BY FS_Subset
    <3>3. SumFunctionOnSet(f, T) = f[y] + SumFunctionOnSet(f, U)
      BY <3>2, SumTakeOut
    <3>4. SumFunctionOnSet(f, A \union T) = f[y] + SumFunctionOnSet(f, (A \union T) \ {y})
      <4>1. y \in A \union T
        OBVIOUS
      <4> QED BY <3>2, <4>1, SumTakeOut
    <3>5. (A \union T) \ {y} = A \union U
      OBVIOUS
    <3>6. SumFunctionOnSet(f, A \union U) = SumFunctionOnSet(f, A) + SumFunctionOnSet(f, U)
      <4>1. U \in Q
        BY <1>1
      <4> QED BY <4>1
    <3>7. SumFunctionOnSet(f, U) \in Nat /\ f[y] \in Nat
      <4>1. IsFiniteSet(U) /\ \A x \in U : f[x] \in Nat
        BY <3>2, FS_Subset
      <4> QED BY <4>1, SumIsNat
    <3> HIDE DEF U
    <3>8. SumFunctionOnSet(f, A \union T) = SumFunctionOnSet(f, A) + SumFunctionOnSet(f, T)
      BY <1>0, <3>3, <3>4, <3>5, <3>6, <3>7
    <3> QED BY <3>8
  <2> QED BY <2>1, <2>2
<1>2. SUBSET B \subseteq Q
  <2> HIDE DEF Q
  <2> QED BY <1>0, <1>1, SubsetInduction
<1> QED BY <1>2

(* What has no weight. *)
LEMMA SumIsZero ==
  ASSUME NEW S, IsFiniteSet(S), NEW f, \A x \in S : f[x] = 0
  PROVE  SumFunctionOnSet(f, S) = 0
<1> DEFINE Q == {T \in SUBSET S : SumFunctionOnSet(f, T) = 0}
<1>1. ASSUME NEW T \in SUBSET S, \A U \in SUBSET T : U # T => U \in Q PROVE T \in Q
  <2>1. IsFiniteSet(T)
    BY FS_Subset
  <2>2. T # {} => T \ {One(T)} \in Q /\ f[One(T)] = 0
    BY <1>1, OneOf
  <2>3. SumFunctionOnSet(f, T) =
           IF T = {} THEN 0 ELSE f[One(T)] + SumFunctionOnSet(f, T \ {One(T)})
    BY <2>1, SumStep
  <2> QED BY <2>2, <2>3
<1> HIDE DEF Q
<1>2. SUBSET S \subseteq Q
  BY <1>1, SubsetInduction
<1> QED BY <1>2 DEF Q

(* Of some elements with numbers, one has the smallest. *)
LEMMA LeastExists ==
  ASSUME NEW S, S # {}, NEW f, \A x \in S : f[x] \in Nat
  PROVE  \E x \in S : \A y \in S : f[x] <= f[y]
<1> DEFINE Q == {n \in Nat : \A x \in S : f[x] # n}
<1> SUFFICES ASSUME \A x \in S : \E y \in S : ~(f[x] <= f[y]) PROVE FALSE
  OBVIOUS
<1>1. ASSUME NEW n \in Nat, \A m \in Nat : m < n => m \in Q PROVE n \in Q
  <2> SUFFICES ASSUME NEW x \in S, f[x] = n PROVE FALSE
    OBVIOUS
  <2>1. PICK y \in S : ~(f[x] <= f[y])
    OBVIOUS
  <2>2. f[y] \in Nat /\ f[y] < n
    BY <2>1
  <2> QED BY <1>1, <2>2
<1> HIDE DEF Q
<1>2. Nat \subseteq Q
  BY <1>1, NaturalInduction
<1> QED BY <1>2 DEF Q

-----------------------------------------------------------------------------
(* Sorting: Listing(S, R) of a finite set S and an order R. *)
Orders(R, S) ==
  /\ \A a \in S : <<a, a>> \notin R
  /\ \A a, b \in S : a # b => <<a, b>> \in R \/ <<b, a>> \in R
  /\ \A a, b, c \in S : <<a, b>> \in R /\ <<b, c>> \in R => <<a, c>> \in R

Sorted(s, R) == \A i, j \in DOMAIN s : i < j => <<s[i], s[j]>> \in R

(* A finite set that is not empty has a last element. *)
LEMMA LastExists ==
  ASSUME NEW S, IsFiniteSet(S), S # {}, NEW R, Orders(R, S)
  PROVE  \E m \in S : \A a \in S : a # m => <<a, m>> \in R
<1> DEFINE Q == {T \in SUBSET S : T # {} => \E m \in T : \A a \in T : a # m => <<a, m>> \in R}
<1>1. ASSUME NEW T \in SUBSET S, \A U \in SUBSET T : U # T => U \in Q PROVE T \in Q
  <2> SUFFICES ASSUME T # {} PROVE \E m \in T : \A a \in T : a # m => <<a, m>> \in R
    OBVIOUS
  <2>1. PICK x \in T : TRUE
    OBVIOUS
  <2>2. CASE T \ {x} = {}
    BY <2>1, <2>2
  <2>3. CASE T \ {x} # {}
    <3>1. T \ {x} \in Q
      BY <1>1, <2>1
    <3>2. PICK m \in T \ {x} : \A a \in T \ {x} : a # m => <<a, m>> \in R
      BY <2>3, <3>1
    <3>3. CASE <<x, m>> \in R
      BY <3>2, <3>3
    <3>4. CASE <<m, x>> \in R
      <4>1. ASSUME NEW a \in T, a # x PROVE <<a, x>> \in R
        BY <2>1, <3>2, <3>4, <4>1 DEF Orders
      <4> QED BY <2>1, <4>1
    <3> QED BY <2>1, <3>2, <3>3, <3>4 DEF Orders
  <2> QED BY <2>2, <2>3
<1>2. SUBSET S \subseteq Q
  <2> HIDE DEF Q
  <2> QED BY <1>1, SubsetInduction
<1> QED BY <1>2

LEMMA ListingExists ==
  ASSUME NEW S, IsFiniteSet(S), NEW R, Orders(R, S)
  PROVE  \E s \in [1..Cardinality(S) -> S] : Sorted(s, R)
<1> DEFINE Q == {T \in SUBSET S : \E s \in [1..Cardinality(T) -> T] : Sorted(s, R)}
<1>1. ASSUME NEW T \in SUBSET S, \A U \in SUBSET T : U # T => U \in Q PROVE T \in Q
  <2>1. CASE T = {}
    <3>1. Cardinality(T) = 0
      BY <2>1, FS_EmptySet
    <3>2. [i \in 1..0 |-> i] \in [1..Cardinality(T) -> T] /\ Sorted([i \in 1..0 |-> i], R)
      BY <3>1 DEF Sorted
    <3> QED BY <3>2
  <2>2. CASE T # {}
    <3>1. IsFiniteSet(T) /\ Orders(R, T)
      BY FS_Subset DEF Orders
    <3>2. PICK m \in T : \A a \in T : a # m => <<a, m>> \in R
      BY <2>2, <3>1, LastExists
    <3> DEFINE n == Cardinality(T)
               U == T \ {m}
    <3>3. n \in Nat /\ n # 0 /\ Cardinality(U) = n - 1
      BY <2>2, <3>1, FS_CardinalityType, FS_EmptySet, FS_RemoveElement
    <3>4. U \in Q
      BY <1>1
    <3> HIDE DEF n
    <3>5. PICK s \in [1..(n - 1) -> U] : Sorted(s, R)
      BY <3>3, <3>4
    <3> DEFINE t == [i \in 1..n |-> IF i = n THEN m ELSE s[i]]
    <3>6. t \in [1..n -> T]
      BY <3>3
    <3>7. ASSUME NEW i \in 1..n, NEW j \in 1..n, i < j PROVE <<t[i], t[j]>> \in R
      <4>1. i \in 1..(n - 1)
        BY <3>3, <3>7
      <4>2. CASE j = n
        BY <3>2, <3>3, <4>1, <4>2
      <4>3. CASE j # n
        BY <3>3, <3>5, <3>7, <4>1, <4>3 DEF Sorted
      <4> QED BY <4>2, <4>3
    <3>8. Sorted(t, R)
      BY <3>7 DEF Sorted
    <3> QED BY <3>6, <3>8 DEF n
  <2> QED BY <2>1, <2>2
<1>2. SUBSET S \subseteq Q
  <2> HIDE DEF Q
  <2> QED BY <1>1, SubsetInduction
<1> QED BY <1>2

(* Listing is such a sequence, and every element is in it once. *)
LEMMA Listed ==
  ASSUME NEW S, IsFiniteSet(S), NEW R, Orders(R, S)
  PROVE  /\ Cardinality(S) \in Nat
         /\ Listing(S, R) \in [1..Cardinality(S) -> S]
         /\ \A i, j \in 1..Cardinality(S) : i < j => <<Listing(S, R)[i], Listing(S, R)[j]>> \in R
         /\ \A a \in S : \E i \in 1..Cardinality(S) : Listing(S, R)[i] = a
<1> DEFINE n == Cardinality(S)
           s == Listing(S, R)
<1>1. n \in Nat
  BY FS_CardinalityType
<1>2. s \in [1..n -> S] /\ Sorted(s, R)
  BY ListingExists DEF Listing, Sorted
<1> HIDE DEF s
<1>3. \A i, j \in 1..n : i < j => <<s[i], s[j]>> \in R
  BY <1>2 DEF Sorted
<1>4. ASSUME NEW i \in 1..n, NEW j \in 1..n, i < j PROVE s[i] # s[j]
  <2>1. s[i] \in S /\ <<s[i], s[j]>> \in R
    BY <1>2, <1>3, <1>4
  <2>2. <<s[i], s[i]>> \notin R
    BY <2>1 DEF Orders
  <2> QED BY <2>1, <2>2
<1>5. s \in Injection(1..n, S)
  BY <1>2, <1>4 DEF Injection, IsInjective
<1>6. Cardinality(1..n) = n
  BY <1>1, FS_Interval
<1>7. s \in Surjection(1..n, S)
  BY <1>5, <1>6, FS_Injection
<1>8. \A a \in S : \E i \in 1..n : s[i] = a
  BY <1>7 DEF Surjection
<1> QED BY <1>1, <1>2, <1>3, <1>8 DEF s

(* As many elements come before an element as its place in the list says. *)
LEMMA ElementsBefore ==
  ASSUME NEW S, IsFiniteSet(S), NEW R, Orders(R, S), NEW k \in 1..Cardinality(S)
  PROVE  Cardinality({a \in S : <<a, Listing(S, R)[k]>> \in R}) = k - 1
<1> DEFINE n == Cardinality(S)
           s == Listing(S, R)
           B == {a \in S : <<a, s[k]>> \in R}
<1>1. /\ n \in Nat /\ s \in [1..n -> S]
      /\ \A i, j \in 1..n : i < j => <<s[i], s[j]>> \in R
      /\ \A a \in S : \E i \in 1..n : s[i] = a
  BY Listed
<1> HIDE DEF s
<1>2. k \in 1..n /\ k - 1 \in Nat
  BY <1>1
<1> HIDE DEF n
<1>0. ASSUME NEW i \in 1..n, NEW j \in 1..n, i < j
      PROVE  s[i] # s[j] /\ <<s[j], s[i]>> \notin R
  <2>1. s[i] \in S /\ s[j] \in S /\ <<s[i], s[j]>> \in R
    BY <1>1, <1>0
  <2>2. <<s[i], s[i]>> \notin R
    BY <2>1 DEF Orders
  <2>3. <<s[j], s[i]>> \in R => <<s[i], s[i]>> \in R
    BY <2>1 DEF Orders
  <2> QED BY <2>1, <2>2, <2>3
<1>3. ASSUME NEW i \in 1..n PROVE <<s[i], s[k]>> \in R <=> i < k
  <2>1. CASE i < k
    BY <1>1, <1>2, <2>1
  <2>2. CASE i = k
    <3>1. s[i] \in S
      BY <1>1
    <3>2. <<s[i], s[k]>> \notin R
      BY <2>2, <3>1 DEF Orders
    <3> QED BY <1>2, <2>2, <3>2
  <2>3. CASE k < i
    BY <1>1, <1>2, <1>0, <2>3
  <2> QED BY <1>1, <1>2, <2>1, <2>2, <2>3
<1> DEFINE t == [i \in 1..(k - 1) |-> s[i]]
<1>4. t \in [1..(k - 1) -> B]
  BY <1>1, <1>2, <1>3
<1>5. \A a \in B : \E i \in 1..(k - 1) : t[i] = a
  BY <1>1, <1>2, <1>3
<1>6. \A i, j \in 1..(k - 1) : i # j => t[i] # t[j]
  <2>1. \A i \in 1..(k - 1) : i \in 1..n /\ t[i] = s[i]
    BY <1>1, <1>2
  <2>2. \A i, j \in 1..n : i < j => s[i] # s[j]
    BY <1>0
  <2>3. ASSUME NEW i \in 1..(k - 1), NEW j \in 1..(k - 1), i # j PROVE s[i] # s[j]
    <3>1. i < j \/ j < i
      BY <1>2, <2>3
    <3> QED BY <2>1, <2>2, <3>1
  <2> QED BY <2>1, <2>3
<1>7. t \in Injection(1..(k - 1), B) /\ t \in Surjection(1..(k - 1), B)
  BY <1>4, <1>5, <1>6 DEF Injection, IsInjective, Surjection
<1>8. t \in Bijection(1..(k - 1), B)
  BY <1>7 DEF Bijection
<1>9. ExistsBijection(1..(k - 1), B)
  BY <1>8 DEF ExistsBijection
<1> QED BY <1>2, <1>9, FS_CountingElements DEF s

=============================================================================
