---------------------------- MODULE SumTheorems ----------------------------
(*****************************************************************************)
(* Sums of integers over finite sets, as the models write them with          *)
(* MapThenSumSet.  Its definition is a recursive function over the subsets   *)
(* of the set, that takes off the element CHOOSE picks; what the proofs need *)
(* is that any element may be taken off (SumTakesOff).                       *)
(*                                                                           *)
(* Every induction is the same: were there a smallest set for which the      *)
(* claim fails, its size would be the least of a set of numbers              *)
(* (LeastNatural), and the claim holds for the sets one smaller.             *)
(*****************************************************************************)
EXTENDS Integers, FiniteSetsExt, FiniteSetTheorems, WellFoundedInduction, TLAPS

\* A set of numbers that is not empty has a least one.
LEMMA LeastNatural ==
    ASSUME NEW T, T \subseteq Nat, T # {}
    PROVE  \E m \in T : \A k \in T : m <= k
<1>1. PICK m \in T : \A k \in T : ~(<<k, m>> \in OpToRel(<, Nat))
  BY WFMin, NatLessThanWellFounded
<1>2. \A k \in T : ~(k < m)
  BY <1>1 DEF OpToRel
<1>3. \A k \in T : m <= k
  BY <1>2
<1> QED
  BY <1>3

-----------------------------------------------------------------------------
Picked(s) == CHOOSE x \in s : TRUE

\* g is the sum of f over every subset of S.
IsSum(g, f, S) ==
    g = [s \in SUBSET S |-> IF s = {} THEN 0 ELSE f[Picked(s)] + g[s \ {Picked(s)}]]

SumOver(f, S) == MapThenSumSet(LAMBDA x : f[x], S)

LEMMA PickedIn == \A s : s # {} => Picked(s) \in s
  BY DEF Picked

\* The sums over the subsets of at most n elements.
SumsUpTo(g, f, S, n) ==
    LET small == {s \in SUBSET S : Cardinality(s) <= n}
    IN  /\ g \in [small -> Int]
        /\ \A s \in small : g[s] = IF s = {} THEN 0 ELSE f[Picked(s)] + g[s \ {Picked(s)}]

LEMMA SubsetSize ==
  ASSUME NEW S, IsFiniteSet(S), NEW s \in SUBSET S
  PROVE  /\ IsFiniteSet(s) /\ Cardinality(s) \in Nat /\ Cardinality(s) <= Cardinality(S)
         /\ Cardinality(s) = 0 <=> s = {}
         /\ \A x \in s : /\ s \ {x} \in SUBSET S /\ Cardinality(s \ {x}) = Cardinality(s) - 1
                         /\ Cardinality(s \ {x}) \in Nat /\ Cardinality(s) # 0
  <1>1. IsFiniteSet(s) /\ Cardinality(s) <= Cardinality(S)
    BY FS_Subset
  <1>2. Cardinality(s) \in Nat
    BY <1>1, FS_CardinalityType
  <1>3. Cardinality(s) = 0 <=> s = {}
    BY <1>1, FS_EmptySet
  <1>4. ASSUME NEW x \in s
        PROVE  /\ s \ {x} \in SUBSET S /\ Cardinality(s \ {x}) = Cardinality(s) - 1
               /\ Cardinality(s \ {x}) \in Nat /\ Cardinality(s) # 0
    <2>1. IsFiniteSet(s \ {x}) /\ Cardinality(s \ {x}) = Cardinality(s) - 1
      BY <1>1, FS_RemoveElement
    <2>2. Cardinality(s \ {x}) \in Nat
      BY <2>1, FS_CardinalityType
    <2> QED
      BY <1>2, <2>1, <2>2
  <1> QED
    BY <1>1, <1>2, <1>3, <1>4

LEMMA SumsGrow ==
  ASSUME NEW S, IsFiniteSet(S), NEW f, \A x \in S : f[x] \in Int, NEW n \in Nat,
         NEW g, SumsUpTo(g, f, S, n)
  PROVE  \E h : SumsUpTo(h, f, S, n + 1)
  <1> DEFINE small == {s \in SUBSET S : Cardinality(s) <= n}
             next  == {s \in SUBSET S : Cardinality(s) <= n + 1}
             h     == [s \in next |-> IF s = {} THEN 0 ELSE f[Picked(s)] + g[s \ {Picked(s)}]]
  <1>1. /\ g \in [small -> Int]
        /\ \A s \in small : g[s] = IF s = {} THEN 0 ELSE f[Picked(s)] + g[s \ {Picked(s)}]
    BY DEF SumsUpTo
  <1>2. ASSUME NEW s \in next, s # {}
        PROVE  /\ Picked(s) \in S /\ s \ {Picked(s)} \in small
               /\ f[Picked(s)] + g[s \ {Picked(s)}] \in Int
    <2>1. Picked(s) \in s /\ s \in SUBSET S /\ Cardinality(s) <= n + 1
      BY <1>2, PickedIn
    <2>2. s \ {Picked(s)} \in small
      BY <2>1, SubsetSize
    <2> QED
      BY <1>1, <2>1, <2>2
  <1>3. small \subseteq next
    BY SubsetSize
  <1>4. \A s \in small : h[s] = g[s]
    BY <1>1, <1>3
  <1>5. h \in [next -> Int]
    BY <1>2
  <1>6. \A s \in next : h[s] = IF s = {} THEN 0 ELSE f[Picked(s)] + h[s \ {Picked(s)}]
    BY <1>2, <1>4
  <1>7. SumsUpTo(h, f, S, n + 1)
    BY <1>5, <1>6 DEF SumsUpTo
  <1> QED
    BY <1>7

\* The recursion has a solution.
LEMMA SumExists ==
  ASSUME NEW S, IsFiniteSet(S), NEW f, \A x \in S : f[x] \in Int
  PROVE  \E g : IsSum(g, f, S) /\ g \in [SUBSET S -> Int]
  <1> DEFINE Bad == {n \in Nat : ~ \E g : SumsUpTo(g, f, S, n)}
  <1>1. \E g : SumsUpTo(g, f, S, 0)
    <2> DEFINE g == [s \in {{}} |-> 0]
    <2>1. {s \in SUBSET S : Cardinality(s) <= 0} = {{}}
      BY SubsetSize, FS_EmptySet
    <2>2. g \in [{{}} -> Int] /\ \A s \in {{}} : g[s] = 0 /\ s = {}
      OBVIOUS
    <2> HIDE DEF g
    <2>3. SumsUpTo(g, f, S, 0)
      BY <2>1, <2>2 DEF SumsUpTo
    <2> QED
      BY <2>3
  <1>2. Bad = {}
    <2> SUFFICES ASSUME Bad # {} PROVE FALSE
      OBVIOUS
    <2>1. PICK m \in Bad : \A k \in Bad : m <= k
      BY LeastNatural
    <2>2. m \in Nat /\ m # 0 /\ m - 1 \in Nat /\ m - 1 \notin Bad
      BY <1>1, <2>1
    <2>3. PICK g : SumsUpTo(g, f, S, m - 1)
      BY <2>2
    <2>4. \E h : SumsUpTo(h, f, S, (m - 1) + 1)
      BY <2>2, <2>3, SumsGrow
    <2>5. (m - 1) + 1 = m
      BY <2>2
    <2> QED
      BY <2>1, <2>4, <2>5
  <1>3. Cardinality(S) \in Nat
    BY FS_CardinalityType
  <1>4. PICK g : SumsUpTo(g, f, S, Cardinality(S))
    BY <1>2, <1>3
  <1>5. {s \in SUBSET S : Cardinality(s) <= Cardinality(S)} = SUBSET S
    BY SubsetSize
  <1>6. /\ g \in [SUBSET S -> Int]
        /\ \A s \in SUBSET S : g[s] = IF s = {} THEN 0 ELSE f[Picked(s)] + g[s \ {Picked(s)}]
    BY <1>4, <1>5 DEF SumsUpTo
  <1>7. IsSum(g, f, S)
    BY <1>6 DEF IsSum
  <1> QED
    BY <1>6, <1>7

\* Sums of functions that agree on a set agree on its subsets.
LEMMA SumsAgree ==
  ASSUME NEW S, NEW R, IsFiniteSet(S), R \subseteq S, NEW f, NEW h,
         \A x \in R : f[x] = h[x],
         NEW g, IsSum(g, f, S), NEW k, IsSum(k, h, R)
  PROVE  \A s \in SUBSET R : g[s] = k[s]
  <1> DEFINE Bad == {n \in Nat : \E s \in SUBSET R : Cardinality(s) = n /\ g[s] # k[s]}
  <1>1. \A s \in SUBSET S : g[s] = IF s = {} THEN 0 ELSE f[Picked(s)] + g[s \ {Picked(s)}]
    BY DEF IsSum
  <1>2. \A s \in SUBSET R : k[s] = IF s = {} THEN 0 ELSE h[Picked(s)] + k[s \ {Picked(s)}]
    BY DEF IsSum
  <1>3. IsFiniteSet(R)
    BY FS_Subset
  <1>4. Bad = {}
    <2> SUFFICES ASSUME Bad # {} PROVE FALSE
      OBVIOUS
    <2>1. PICK m \in Bad : \A n \in Bad : m <= n
      BY LeastNatural
    <2>2. PICK s \in SUBSET R : Cardinality(s) = m /\ g[s] # k[s]
      BY <2>1
    <2>3. s \in SUBSET S /\ s # {}
      BY <1>1, <1>2, <2>2
    <2>4. Picked(s) \in s /\ f[Picked(s)] = h[Picked(s)]
      BY <2>2, <2>3, PickedIn
    <2>5. g[s \ {Picked(s)}] = k[s \ {Picked(s)}]
      <3>1. /\ s \ {Picked(s)} \in SUBSET R /\ Cardinality(s \ {Picked(s)}) = m - 1
            /\ Cardinality(s \ {Picked(s)}) \in Nat
        BY <1>3, <2>2, <2>4, SubsetSize
      <3>2. m - 1 \notin Bad
        BY <2>1
      <3> QED
        BY <3>1, <3>2
    <2>6. g[s] = f[Picked(s)] + g[s \ {Picked(s)}] /\ k[s] = h[Picked(s)] + k[s \ {Picked(s)}]
      BY <1>1, <1>2, <2>2, <2>3
    <2> QED
      BY <2>2, <2>4, <2>5, <2>6
  <1>5. \A s \in SUBSET R : Cardinality(s) \in Nat
    BY <1>3, SubsetSize
  <1> QED
    BY <1>4, <1>5

\* Whatever solves the recursion is the sum.
LEMMA SumIs ==
  ASSUME NEW S, IsFiniteSet(S), NEW f, \A x \in S : f[x] \in Int
  PROVE  /\ SumOver(f, S) \in Int
         /\ \A g : IsSum(g, f, S) => g[S] = SumOver(f, S)
  <1> DEFINE it == CHOOSE g : IsSum(g, f, S)
  <1>1. SumOver(f, S) = it[S]
    BY DEF SumOver, MapThenSumSet, MapThenFoldSet, IsSum, Picked
  <1>2. PICK g : IsSum(g, f, S) /\ g \in [SUBSET S -> Int]
    BY SumExists
  <1>3. IsSum(it, f, S)
    BY <1>2
  <1> HIDE DEF it
  <1>4. \A h : IsSum(h, f, S) => h[S] = it[S]
    BY <1>3, SumsAgree
  <1> QED
    BY <1>1, <1>2, <1>4

\* Any element may be taken off first.
IntsOn(g, D) == \A s \in D : g[s] \in Int
TakenOff(g, f, S, e) == g[S] = f[e] + g[S \ {e}]

LEMMA TakesOffFrom ==
  ASSUME NEW S, IsFiniteSet(S), NEW f, \A x \in S : f[x] \in Int,
         NEW g, IsSum(g, f, S), IntsOn(g, SUBSET S), NEW e \in S
  PROVE  TakenOff(g, f, S, e)
  <1> USE DEF IntsOn
  <1> DEFINE Off(s, x) == g[s] = f[x] + g[s \ {x}]
             Bad == {n \in Nat : \E s \in SUBSET S : Cardinality(s) = n /\ \E x \in s : ~ Off(s, x)}
  <1>1. \A s \in SUBSET S : s # {} => Off(s, Picked(s))
    BY DEF IsSum
  <1>2. Bad = {}
    <2> SUFFICES ASSUME Bad # {} PROVE FALSE
      OBVIOUS
    <2>1. PICK m \in Bad : \A n \in Bad : m <= n
      BY LeastNatural
    <2>2. PICK s \in SUBSET S : Cardinality(s) = m /\ \E x \in s : ~ Off(s, x)
      BY <2>1
    <2>3. PICK x \in s : ~ Off(s, x)
      BY <2>2
    <2> DEFINE p == Picked(s)
    <2>4. p \in s /\ Off(s, p)
      BY <1>1, <2>3, PickedIn
    <2>5. p # x
      BY <2>3, <2>4
    <2>6. \A r \in SUBSET S : Cardinality(r) = m - 1 /\ Cardinality(r) \in Nat =>
            \A y \in r : Off(r, y)
      <3>1. m - 1 \notin Bad
        BY <2>1
      <3> QED
        BY <3>1
    <2> HIDE DEF p
    <2>7. Off(s \ {p}, x) /\ Off(s \ {x}, p)
      <3>1. /\ s \ {p} \in SUBSET S /\ Cardinality(s \ {p}) = m - 1
            /\ Cardinality(s \ {p}) \in Nat /\ x \in s \ {p}
        BY <2>2, <2>3, <2>4, <2>5, SubsetSize
      <3>2. /\ s \ {x} \in SUBSET S /\ Cardinality(s \ {x}) = m - 1
            /\ Cardinality(s \ {x}) \in Nat /\ p \in s \ {x}
        BY <2>2, <2>3, <2>4, <2>5, SubsetSize
      <3> QED
        BY <2>6, <3>1, <3>2
    <2>8. (s \ {p}) \ {x} = (s \ {x}) \ {p}
      OBVIOUS
    <2>9. f[x] \in Int /\ f[p] \in Int /\ g[(s \ {x}) \ {p}] \in Int
      BY <2>3, <2>4
    <2>10. /\ g[s] = f[p] + (f[x] + g[(s \ {x}) \ {p}])
           /\ f[x] + g[s \ {x}] = f[x] + (f[p] + g[(s \ {x}) \ {p}])
      BY <2>4, <2>7, <2>8
    <2>11. f[p] + (f[x] + g[(s \ {x}) \ {p}]) = f[x] + (f[p] + g[(s \ {x}) \ {p}])
      BY <2>9
    <2> QED
      BY <2>3, <2>10, <2>11
  <1>3. \A s \in SUBSET S : Cardinality(s) \in Nat
    BY SubsetSize
  <1>4. \A s \in SUBSET S : \A x \in s : Off(s, x)
    BY <1>2, <1>3
  <1> QED
    BY <1>4 DEF TakenOff

-----------------------------------------------------------------------------
(***************************************************************************)
(* What the proofs about the models use.                                   *)
(***************************************************************************)
LEMMA SumOfNone == \A f : SumOver(f, {}) = 0
  <1> SUFFICES ASSUME NEW f PROVE SumOver(f, {}) = 0
    OBVIOUS
  <1>1. IsFiniteSet({}) /\ \A x \in {} : f[x] \in Int
    BY FS_EmptySet
  <1>2. PICK g : IsSum(g, f, {})
    BY <1>1, SumExists
  <1>3. g[{}] = SumOver(f, {})
    BY <1>1, <1>2, SumIs
  <1> QED
    BY <1>2, <1>3 DEF IsSum

LEMMA SumTakesOff ==
  ASSUME NEW S, IsFiniteSet(S), NEW f, \A y \in S : f[y] \in Int, NEW x \in S
  PROVE  /\ SumOver(f, S) = f[x] + SumOver(f, S \ {x})
         /\ SumOver(f, S) \in Int /\ SumOver(f, S \ {x}) \in Int
  <1> DEFINE R == S \ {x}
  <1>1. IsFiniteSet(R) /\ R \subseteq S
    BY FS_RemoveElement
  <1>2. PICK g : IsSum(g, f, S) /\ g \in [SUBSET S -> Int]
    BY SumExists
  <1>3. PICK k : IsSum(k, f, R)
    BY <1>1, SumExists
  <1>4. SumOver(f, S) = g[S] /\ SumOver(f, R) = k[R]
    BY <1>1, <1>2, <1>3, SumIs
  <1> HIDE DEF R
  <1>5. g[R] = k[R]
    BY <1>1, <1>2, <1>3, SumsAgree
  <1>6. g[S] = f[x] + g[S \ {x}]
    <2>1. IsSum(g, f, S) /\ IntsOn(g, SUBSET S)
      BY <1>2 DEF IntsOn
    <2>2. TakenOff(g, f, S, x)
      BY <2>1, TakesOffFrom
    <2> QED
      BY <2>2 DEF TakenOff
  <1>7. SumOver(f, S) \in Int /\ SumOver(f, R) \in Int
    BY <1>1, SumIs
  <1> QED
    BY <1>4, <1>5, <1>6, <1>7 DEF R

LEMMA SumSame ==
  ASSUME NEW S, IsFiniteSet(S), NEW f, NEW h, \A x \in S : f[x] \in Int /\ h[x] = f[x]
  PROVE  SumOver(h, S) = SumOver(f, S)
  <1>1. PICK g : IsSum(g, f, S)
    BY SumExists
  <1>2. \A x \in S : h[x] \in Int
    OBVIOUS
  <1>3. PICK k : IsSum(k, h, S)
    BY <1>2, SumExists
  <1>4. g[S] = SumOver(f, S) /\ k[S] = SumOver(h, S)
    BY <1>1, <1>2, <1>3, SumIs
  <1>5. \A s \in SUBSET S : g[s] = k[s]
    <2>1. \A x \in S : f[x] = h[x]
      OBVIOUS
    <2> QED
      BY <1>1, <1>3, <2>1, SumsAgree
  <1> QED
    BY <1>4, <1>5

\* One more element.
LEMMA SumAdds ==
  ASSUME NEW S, IsFiniteSet(S), NEW x, x \notin S, NEW f, \A y \in S \cup {x} : f[y] \in Int
  PROVE  SumOver(f, S \cup {x}) = SumOver(f, S) + f[x] /\ SumOver(f, S) \in Int
  <1>1. IsFiniteSet(S \cup {x}) /\ (S \cup {x}) \ {x} = S
    BY FS_AddElement
  <1>2. /\ SumOver(f, S \cup {x}) = f[x] + SumOver(f, (S \cup {x}) \ {x})
        /\ SumOver(f, (S \cup {x}) \ {x}) \in Int
    BY <1>1, SumTakesOff
  <1>3. SumOver(f, S \cup {x}) = f[x] + SumOver(f, S) /\ SumOver(f, S) \in Int
    BY <1>1, <1>2, Zenon
  <1>4. f[x] \in Int
    OBVIOUS
  <1> QED
    BY <1>3, <1>4

\* One value changes.
SumMoves(f, h, S, x) == /\ SumOver(h, S) = SumOver(f, S) - f[x] + h[x]
                        /\ SumOver(f, S) \in Int /\ SumOver(h, S) \in Int

LEMMA SumChanges ==
  ASSUME NEW S, IsFiniteSet(S), NEW f, NEW h, NEW x \in S,
         \A y \in S : f[y] \in Int /\ h[y] \in Int, \A y \in S \ {x} : h[y] = f[y]
  PROVE  SumMoves(f, h, S, x)
  <1>1. IsFiniteSet(S \ {x})
    BY FS_RemoveElement
  <1>2. /\ SumOver(f, S) = f[x] + SumOver(f, S \ {x}) /\ SumOver(f, S \ {x}) \in Int
        /\ SumOver(f, S) \in Int
    BY SumTakesOff
  <1>3. SumOver(h, S) = h[x] + SumOver(h, S \ {x}) /\ SumOver(h, S) \in Int
    BY SumTakesOff
  <1>4. SumOver(h, S \ {x}) = SumOver(f, S \ {x})
    BY <1>1, SumSame
  <1> QED
    BY <1>2, <1>3, <1>4 DEF SumMoves

\* A sum of naturals is not less than any of them.
LEMMA SumCovers ==
  ASSUME NEW S, IsFiniteSet(S), NEW f, \A y \in S : f[y] \in Nat
  PROVE  SumOver(f, S) \in Nat /\ \A x \in S : f[x] <= SumOver(f, S)
  <1> DEFINE Bad == {n \in Nat : \E s \in SUBSET S : Cardinality(s) = n /\ SumOver(f, s) \notin Nat}
  <1>1. \A s \in SUBSET S : IsFiniteSet(s) /\ Cardinality(s) \in Nat /\ \A y \in s : f[y] \in Int
    BY SubsetSize
  <1>2. Bad = {}
    <2> SUFFICES ASSUME Bad # {} PROVE FALSE
      OBVIOUS
    <2>1. PICK m \in Bad : \A n \in Bad : m <= n
      BY LeastNatural
    <2>2. PICK s \in SUBSET S : Cardinality(s) = m /\ SumOver(f, s) \notin Nat
      BY <2>1
    <2>3. s # {}
      BY <2>2, SumOfNone
    <2>4. PICK x \in s : TRUE
      BY <2>3
    <2>5. SumOver(f, s) = f[x] + SumOver(f, s \ {x})
      BY <1>1, <2>4, SumTakesOff
    <2>6. SumOver(f, s \ {x}) \in Nat
      <3>1. /\ s \ {x} \in SUBSET S /\ Cardinality(s \ {x}) = m - 1
            /\ Cardinality(s \ {x}) \in Nat
        BY <2>2, <2>4, SubsetSize
      <3>2. m - 1 \notin Bad
        BY <2>1
      <3> QED
        BY <3>1, <3>2
    <2> QED
      BY <2>2, <2>4, <2>5, <2>6
  <1>3. \A s \in SUBSET S : SumOver(f, s) \in Nat
    BY <1>1, <1>2
  <1>4. ASSUME NEW x \in S PROVE f[x] <= SumOver(f, S)
    <2>1. SumOver(f, S) = f[x] + SumOver(f, S \ {x})
      BY <1>1, SumTakesOff
    <2>2. SumOver(f, S \ {x}) \in Nat
      BY <1>3
    <2> QED
      BY <2>1, <2>2
  <1> QED
    BY <1>3, <1>4

\* What adds nothing may be left out.
LEMMA SumOnly ==
  ASSUME NEW S, IsFiniteSet(S), NEW f, \A y \in S : f[y] \in Int,
         NEW T, T \subseteq S, \A y \in S \ T : f[y] = 0
  PROVE  SumOver(f, S) = SumOver(f, T)
  <1> DEFINE Between == {R \in SUBSET S : T \subseteq R}
             Bad == {n \in Nat : \E R \in Between : Cardinality(R) = n
                                                   /\ SumOver(f, R) # SumOver(f, T)}
  <1>1. \A R \in SUBSET S : IsFiniteSet(R) /\ Cardinality(R) \in Nat /\ \A y \in R : f[y] \in Int
    BY SubsetSize
  <1>2. Bad = {}
    <2> SUFFICES ASSUME Bad # {} PROVE FALSE
      OBVIOUS
    <2>1. PICK m \in Bad : \A n \in Bad : m <= n
      BY LeastNatural
    <2>2. PICK R \in Between : Cardinality(R) = m /\ SumOver(f, R) # SumOver(f, T)
      BY <2>1
    <2>3. PICK x \in R : x \notin T
      BY <2>2
    <2>4. f[x] = 0 /\ x \in S
      BY <2>3
    <2>5. SumOver(f, R) = f[x] + SumOver(f, R \ {x}) /\ SumOver(f, R \ {x}) \in Int
      BY <1>1, <2>3, SumTakesOff
    <2>6. SumOver(f, R \ {x}) = SumOver(f, T)
      <3>1. /\ R \ {x} \in Between /\ Cardinality(R \ {x}) = m - 1
            /\ Cardinality(R \ {x}) \in Nat
        BY <2>2, <2>3, SubsetSize
      <3>2. m - 1 \notin Bad
        BY <2>1
      <3> QED
        BY <3>1, <3>2
    <2> QED
      BY <2>2, <2>4, <2>5, <2>6
  <1>3. S \in Between /\ Cardinality(S) \in Nat
    BY <1>1
  <1> QED
    BY <1>2, <1>3

\* A set without two different elements has one at most.
LEMMA OneAtMost ==
  ASSUME NEW S, \A x, y \in S : x = y
  PROVE  IsFiniteSet(S) /\ Cardinality(S) <= 1
  <1>1. CASE S = {}
    BY <1>1, FS_EmptySet
  <1>2. CASE S # {}
    <2>1. PICK x \in S : S = {x}
      BY <1>2
    <2>2. IsFiniteSet({x}) /\ Cardinality({x}) = 1
      BY FS_Singleton
    <2> QED
      BY <2>1, <2>2
  <1> QED
    BY <1>1, <1>2
=============================================================================
