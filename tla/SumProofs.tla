------------------------------- MODULE SumProofs -------------------------------
(***************************************************************************)
(* The sums the books are kept by: MapThenSumSet takes the elements of a    *)
(* set one by one, in an order it chooses.  Its recursion has a solution,   *)
(* only one, and the order does not matter.                                 *)
(***************************************************************************)
EXTENDS FiniteSetsExt, Integers, FiniteSetTheorems, TLAPS

First(s) == CHOOSE x \in s : TRUE

\* f is the table of the sums of m over the subsets of S.
Sums(f, S, m) ==
  f = [s \in SUBSET S |-> IF s = {} THEN 0 ELSE m[First(s)] + f[s \ {First(s)}]]

LEMMA FirstIsIn == ASSUME NEW s, s # {} PROVE First(s) \in s
BY DEF First

\* Induction over the subsets of a finite set: of some that have a property,
\* one has no proper subset that has it.
LEMMA Smallest ==
  ASSUME NEW S, IsFiniteSet(S), NEW bad \in SUBSET (SUBSET S), bad # {}
  PROVE  \E s \in bad : \A t \in bad : ~(t \subseteq s /\ t # s)
<1>1. IsWellFoundedOn(StrictSubsetOrdering(S), FiniteSubsetsOf(S))
  BY FS_StrictSubsetOrderingWellFounded
<1>2. bad \subseteq FiniteSubsetsOf(S)
  BY FS_FiniteSubsetsOfFinite
<1>3. \E s \in bad : \A t \in bad : ~(<<t, s>> \in StrictSubsetOrdering(S))
  BY <1>1, <1>2, WFMin
<1> QED
  BY <1>3 DEF StrictSubsetOrdering

LEMMA SumStep ==
  ASSUME NEW S, NEW m, NEW f, Sums(f, S, m), NEW s \in SUBSET S
  PROVE  f[s] = IF s = {} THEN 0 ELSE m[First(s)] + f[s \ {First(s)}]
BY DEF Sums

\* Two tables agree where both are defined.
LEMMA SumsAgree ==
  ASSUME NEW S, IsFiniteSet(S), NEW T, NEW m, NEW f, NEW g, Sums(f, S, m), Sums(g, T, m),
         NEW u \in SUBSET S, u \in SUBSET T
  PROVE  f[u] = g[u]
<1> DEFINE bad == {s \in SUBSET S : s \in SUBSET T /\ f[s] # g[s]}
<1> SUFFICES ASSUME bad # {} PROVE FALSE
  OBVIOUS
<1>1. PICK s \in bad : \A t \in bad : ~(t \subseteq s /\ t # s)
  <2>1. bad \in SUBSET (SUBSET S) /\ bad # {}
    OBVIOUS
  <2> HIDE DEF bad
  <2> QED
    BY <2>1, Smallest
<1>2. /\ f[s] = IF s = {} THEN 0 ELSE m[First(s)] + f[s \ {First(s)}]
      /\ g[s] = IF s = {} THEN 0 ELSE m[First(s)] + g[s \ {First(s)}]
  BY SumStep
<1>3. s # {}
  BY <1>2
<1>4. First(s) \in s
  BY <1>3, FirstIsIn
<1>5. s \ {First(s)} \notin bad
  BY <1>1, <1>4
<1>6. f[s \ {First(s)}] = g[s \ {First(s)}]
  BY <1>5
<1> QED
  BY <1>2, <1>3, <1>6

LEMMA SumsExist ==
  ASSUME NEW S, IsFiniteSet(S), NEW m
  PROVE  \E f : Sums(f, S, m)
<1> DEFINE bad == {s \in SUBSET S : ~ \E f : Sums(f, s, m)}
<1> SUFFICES ASSUME bad # {} PROVE FALSE
  OBVIOUS
<1>1. PICK T \in bad : \A t \in bad : ~(t \subseteq T /\ t # T)
  <2>1. bad \in SUBSET (SUBSET S) /\ bad # {}
    OBVIOUS
  <2> HIDE DEF bad
  <2> QED
    BY <2>1, Smallest
<1>2. \A t \in SUBSET T : t # T => \E f : Sums(f, t, m)
  BY <1>1
<1> DEFINE table(t) == CHOOSE f : Sums(f, t, m)
<1>3. \A t \in SUBSET T : t # T => Sums(table(t), t, m)
  BY <1>2
<1> HIDE DEF table
<1> DEFINE rest(s) == s \ {First(s)}
           f == [s \in SUBSET T |-> IF s = {} THEN 0 ELSE m[First(s)] + table(rest(s))[rest(s)]]
<1>4. \A s \in SUBSET T : s # {} => rest(s) \in SUBSET T /\ rest(s) # T
  BY FirstIsIn
<1> HIDE DEF rest
<1>5. ASSUME NEW s \in SUBSET T, s # T
      PROVE  f[s] = table(s)[s]
  <2>1. table(s)[s] = IF s = {} THEN 0 ELSE m[First(s)] + table(s)[s \ {First(s)}]
    BY <1>3, <1>5, SumStep
  <2>2. CASE s = {}
    BY <2>1, <2>2
  <2>3. CASE s # {}
    <3>1. rest(s) \in SUBSET T /\ rest(s) # T /\ rest(s) \in SUBSET s
      BY <1>4, <2>3 DEF rest
    <3>2. Sums(table(s), s, m) /\ Sums(table(rest(s)), rest(s), m)
      BY <1>3, <1>5, <3>1
    <3>3. IsFiniteSet(s)
      BY FS_Subset
    <3>4. table(s)[rest(s)] = table(rest(s))[rest(s)]
      BY <3>1, <3>2, <3>3, SumsAgree
    <3> QED
      BY <2>1, <2>3, <3>4 DEF rest
  <2> QED
    BY <2>2, <2>3
<1>6. f = [s \in SUBSET T |-> IF s = {} THEN 0 ELSE m[First(s)] + f[s \ {First(s)}]]
  <2> SUFFICES ASSUME NEW s \in SUBSET T, s # {}
               PROVE  table(rest(s))[rest(s)] = f[s \ {First(s)}]
    OBVIOUS
  <2> QED
    BY <1>4, <1>5 DEF rest
<1> HIDE DEF f
<1>7. Sums(f, T, m)
  BY <1>6 DEF Sums
<1> QED
  BY <1>1, <1>7

\* The sum of m over S.
Total(S, m) == (CHOOSE f : Sums(f, S, m))[S]

LEMMA SumIsTotal ==
  ASSUME NEW S, IsFiniteSet(S), NEW m, NEW T \in SUBSET S, NEW f, Sums(f, S, m)
  PROVE  f[T] = Total(T, m)
<1>1. IsFiniteSet(T)
  BY FS_Subset
<1>2. Sums(CHOOSE g : Sums(g, T, m), T, m)
  BY <1>1, SumsExist
<1> QED
  BY <1>2, SumsAgree DEF Total

LEMMA TotalStep ==
  ASSUME NEW S, IsFiniteSet(S), NEW m
  PROVE  Total(S, m) = IF S = {} THEN 0 ELSE m[First(S)] + Total(S \ {First(S)}, m)
<1>1. PICK f : Sums(f, S, m)
  BY SumsExist
<1>2. f[S] = Total(S, m) /\ f[S \ {First(S)}] = Total(S \ {First(S)}, m)
  BY <1>1, SumIsTotal
<1> QED
  BY <1>1, <1>2, SumStep

LEMMA TotalIsNat ==
  ASSUME NEW S, IsFiniteSet(S), NEW m, \A x \in S : m[x] \in Nat
  PROVE  Total(S, m) \in Nat
<1> DEFINE bad == {s \in SUBSET S : Total(s, m) \notin Nat}
<1> SUFFICES ASSUME bad # {} PROVE FALSE
  OBVIOUS
<1>1. PICK s \in bad : \A t \in bad : ~(t \subseteq s /\ t # s)
  <2>1. bad \in SUBSET (SUBSET S) /\ bad # {}
    OBVIOUS
  <2> HIDE DEF bad
  <2> QED
    BY <2>1, Smallest
<1>2. Total(s, m) = IF s = {} THEN 0 ELSE m[First(s)] + Total(s \ {First(s)}, m)
  BY TotalStep, FS_Subset
<1>3. s # {}
  BY <1>2
<1>4. First(s) \in s /\ s \ {First(s)} \notin bad
  BY <1>1, <1>3, FirstIsIn
<1>5. Total(s \ {First(s)}, m) \in Nat /\ m[First(s)] \in Nat
  BY <1>4
<1> QED
  BY <1>2, <1>3, <1>5

LEMMA TotalOfNothing ==
  ASSUME NEW S, IsFiniteSet(S), NEW m, \A x \in S : m[x] = 0
  PROVE  Total(S, m) = 0
<1> DEFINE bad == {s \in SUBSET S : Total(s, m) # 0}
<1> SUFFICES ASSUME bad # {} PROVE FALSE
  OBVIOUS
<1>1. PICK s \in bad : \A t \in bad : ~(t \subseteq s /\ t # s)
  <2>1. bad \in SUBSET (SUBSET S) /\ bad # {}
    OBVIOUS
  <2> HIDE DEF bad
  <2> QED
    BY <2>1, Smallest
<1>2. Total(s, m) = IF s = {} THEN 0 ELSE m[First(s)] + Total(s \ {First(s)}, m)
  BY TotalStep, FS_Subset
<1>3. s # {}
  BY <1>2
<1>4. First(s) \in s /\ s \ {First(s)} \notin bad
  BY <1>1, <1>3, FirstIsIn
<1>5. Total(s \ {First(s)}, m) = 0 /\ m[First(s)] = 0
  BY <1>4
<1> QED
  BY <1>2, <1>3, <1>5

\* The order does not matter: any element may be taken first.
LEMMA TakeAny ==
  ASSUME NEW S, IsFiniteSet(S), NEW m, \A x \in S : m[x] \in Nat, NEW x \in S
  PROVE  Total(S, m) = m[x] + Total(S \ {x}, m)
<1> DEFINE bad == {s \in SUBSET S : \E y \in s : Total(s, m) # m[y] + Total(s \ {y}, m)}
<1> SUFFICES ASSUME bad # {} PROVE FALSE
  OBVIOUS
<1>1. PICK s \in bad : \A t \in bad : ~(t \subseteq s /\ t # s)
  <2>1. bad \in SUBSET (SUBSET S) /\ bad # {}
    OBVIOUS
  <2> HIDE DEF bad
  <2> QED
    BY <2>1, Smallest
<1>2. PICK y \in s : Total(s, m) # m[y] + Total(s \ {y}, m)
  OBVIOUS
<1>3. PICK c : c = First(s)
  OBVIOUS
<1>4. c \in s /\ Total(s, m) = m[c] + Total(s \ {c}, m)
  BY <1>2, <1>3, FirstIsIn, TotalStep, FS_Subset
<1>5. y # c
  BY <1>2, <1>4
<1>6. s \ {c} \notin bad /\ s \ {y} \notin bad
  BY <1>1, <1>2, <1>4
<1>7. Total(s \ {c}, m) = m[y] + Total((s \ {c}) \ {y}, m)
  BY <1>4, <1>5, <1>6
<1>8. Total(s \ {y}, m) = m[c] + Total((s \ {y}) \ {c}, m)
  BY <1>4, <1>5, <1>6
<1>9. Total((s \ {c}) \ {y}, m) = Total((s \ {y}) \ {c}, m)
  <2>1. (s \ {c}) \ {y} = (s \ {y}) \ {c}
    OBVIOUS
  <2> QED
    BY <2>1
<1>10. m[y] \in Nat /\ m[c] \in Nat /\ Total((s \ {y}) \ {c}, m) \in Nat
  <2>1. (s \ {y}) \ {c} \in SUBSET S
    OBVIOUS
  <2>2. IsFiniteSet((s \ {y}) \ {c})
    BY <2>1, FS_Subset
  <2> QED
    BY <1>4, <2>2, TotalIsNat
<1>11. m[c] + (m[y] + Total((s \ {y}) \ {c}, m)) = m[y] + (m[c] + Total((s \ {y}) \ {c}, m))
  BY <1>10
<1> QED
  BY <1>2, <1>4, <1>7, <1>8, <1>9, <1>11

\* Sums of maps that agree are the same.
LEMMA SameTotal ==
  ASSUME NEW S, IsFiniteSet(S), NEW m, NEW n, \A x \in S : m[x] = n[x] /\ m[x] \in Nat
  PROVE  Total(S, m) = Total(S, n)
<1> DEFINE bad == {s \in SUBSET S : Total(s, m) # Total(s, n)}
<1> SUFFICES ASSUME bad # {} PROVE FALSE
  OBVIOUS
<1>1. PICK s \in bad : \A t \in bad : ~(t \subseteq s /\ t # s)
  <2>1. bad \in SUBSET (SUBSET S) /\ bad # {}
    OBVIOUS
  <2> HIDE DEF bad
  <2> QED
    BY <2>1, Smallest
<1>2. /\ Total(s, m) = IF s = {} THEN 0 ELSE m[First(s)] + Total(s \ {First(s)}, m)
      /\ Total(s, n) = IF s = {} THEN 0 ELSE n[First(s)] + Total(s \ {First(s)}, n)
  BY TotalStep, FS_Subset
<1>3. s # {}
  BY <1>2
<1>4. First(s) \in s /\ s \ {First(s)} \notin bad
  BY <1>1, <1>3, FirstIsIn
<1>5. Total(s \ {First(s)}, m) = Total(s \ {First(s)}, n) /\ m[First(s)] = n[First(s)]
  BY <1>4
<1> QED
  BY <1>1, <1>2, <1>3, <1>5

\* One value changes.
LEMMA ChangeOne ==
  ASSUME NEW S, IsFiniteSet(S), NEW m, NEW n, NEW x \in S,
         \A y \in S : m[y] \in Nat /\ n[y] \in Nat,
         \A y \in S \ {x} : m[y] = n[y]
  PROVE  Total(S, n) + m[x] = Total(S, m) + n[x]
<1>1. Total(S, m) = m[x] + Total(S \ {x}, m) /\ Total(S, n) = n[x] + Total(S \ {x}, n)
  BY TakeAny
<1>2. IsFiniteSet(S \ {x})
  BY FS_RemoveElement
<1>3. Total(S \ {x}, m) = Total(S \ {x}, n) /\ Total(S \ {x}, m) \in Nat
  BY <1>2, SameTotal, TotalIsNat
<1> QED
  BY <1>1, <1>3

\* One element more.
LEMMA AddOne ==
  ASSUME NEW S, IsFiniteSet(S), NEW x, x \notin S, NEW m, \A y \in S \cup {x} : m[y] \in Nat
  PROVE  Total(S \cup {x}, m) = Total(S, m) + m[x]
<1>1. IsFiniteSet(S \cup {x}) /\ (S \cup {x}) \ {x} = S
  BY FS_AddElement
<1>2. Total(S \cup {x}, m) = m[x] + Total(S, m)
  BY <1>1, TakeAny
<1>3. Total(S, m) \in Nat
  BY TotalIsNat
<1> QED
  BY <1>2, <1>3

LEMMA SumSetIsTotal ==
  ASSUME NEW S, IsFiniteSet(S), NEW m
  PROVE  MapThenSumSet(LAMBDA x : m[x], S) = Total(S, m)
<1> DEFINE f == CHOOSE iter : iter = [s \in SUBSET S |->
                  IF s = {} THEN 0 ELSE m[CHOOSE x \in s : TRUE] + iter[s \ {CHOOSE x \in s : TRUE}]]
<1>1. MapThenSumSet(LAMBDA x : m[x], S) = f[S]
  BY DEF MapThenSumSet, MapThenFoldSet
<1>2. PICK g : g = [s \in SUBSET S |->
                  IF s = {} THEN 0 ELSE m[CHOOSE x \in s : TRUE] + g[s \ {CHOOSE x \in s : TRUE}]]
  <2>1. PICK g : Sums(g, S, m)
    BY SumsExist
  <2> QED
    BY <2>1 DEF Sums, First
<1>3. Sums(f, S, m)
  BY <1>2 DEF Sums, First
<1> QED
  BY <1>1, <1>3, SumIsTotal

-------------------------------------------------------------------------------
(***************************************************************************)
(* The greatest of some numbers, and as many images as elements at most.    *)
(***************************************************************************)
LEMMA Greatest ==
  ASSUME NEW S, IsFiniteSet(S), S \subseteq Int, S # {}
  PROVE  \E x \in S : \A y \in S : y <= x
<1> DEFINE bad == {s \in SUBSET S : s # {} /\ ~ \E x \in s : \A y \in s : y <= x}
<1> SUFFICES ASSUME bad # {} PROVE FALSE
  OBVIOUS
<1>1. PICK s \in bad : \A t \in bad : ~(t \subseteq s /\ t # s)
  <2>1. bad \in SUBSET (SUBSET S) /\ bad # {}
    OBVIOUS
  <2> HIDE DEF bad
  <2> QED
    BY ONLY <2>1, IsFiniteSet(S), Smallest
<1>2. PICK x \in s : TRUE
  OBVIOUS
<1>3. CASE s \ {x} = {}
  BY <1>2, <1>3
<1>4. CASE s \ {x} # {}
  <2>1. s \ {x} \notin bad
    BY <1>1, <1>2
  <2>2. PICK y \in s \ {x} : \A z \in s \ {x} : z <= y
    BY <1>4, <2>1
  <2>3. x \in Int /\ y \in Int /\ s \subseteq Int
    BY <1>2, <2>2
  <2>4. CASE x <= y
    BY <2>2, <2>3, <2>4
  <2>5. CASE y <= x
    <3>1. \A z \in s : z <= x
      BY <2>2, <2>3, <2>5
    <3> QED
      BY <3>1, <1>2
  <2> QED
    BY <2>3, <2>4, <2>5
<1> QED
  BY <1>3, <1>4

LEMMA MaxIsIn ==
  ASSUME NEW S, IsFiniteSet(S), S \subseteq Int, S # {}
  PROVE  Max(S) \in S
BY Greatest DEF Max

LEMMA ImageIsFinite ==
  ASSUME NEW S, IsFiniteSet(S), NEW f
  PROVE  IsFiniteSet({f[x] : x \in S})
<1> DEFINE T == {f[x] : x \in S}
           g == [x \in S |-> f[x]]
<1>1. g \in Surjection(S, T)
  BY DEF Surjection
<1> HIDE DEF T, g
<1>2. IsFiniteSet(T)
  BY <1>1, FS_Surjection
<1> QED
  BY <1>2 DEF T
===============================================================================
