------------------------------ MODULE ToolsProofs ------------------------------
(***************************************************************************)
(* What is proved of the tools: of the rate limiter and cross-instance     *)
(* queries, of the knowledge indexes, and of the calls that keep no state. *)
(* FleetInv and IndexInv are inductive as they stand.  The loops of        *)
(* index_records and load_plugins are gone through turn by turn: what each *)
(* turn keeps the loop keeps, because the set of the numbers of turns      *)
(* after which it would not hold has no least element.  The community      *)
(* modules' sums and folds are functions chosen over the subsets of what   *)
(* is gone through; that there is one is shown for each, by its size.      *)
(***************************************************************************)
EXTENDS CrossInstance, KnowledgeIndex, Tools, FiniteSetTheorems, SequenceTheorems,
        WellFoundedInduction, TLAPS

-----------------------------------------------------------------------------
(* Least elements, numbers and finite sets.                                *)

\* A set of naturals that is not empty has a least element, which is induction
\* as a fact about sets.
LEMMA LeastNumber ==
  ASSUME NEW S \in SUBSET Nat, S # {}
  PROVE  \E m \in S : \A n \in S : m <= n
<1>1. PICK m \in S : \A n \in S : ~ (<<n, m>> \in OpToRel(<, Nat))
  BY NatLessThanWellFounded, WFMin
<1>2. \A n \in S : ~ (n < m)
  BY <1>1 DEF OpToRel
<1> QED BY <1>2

\* A set of sets that are all finite, one of which lacks a property, has a
\* smallest one that does.
LEMMA SmallestSet ==
  ASSUME NEW Bad, Bad # {}, \A T \in Bad : IsFiniteSet(T)
  PROVE  \E T \in Bad : \A U \in Bad : Cardinality(T) <= Cardinality(U)
<1> DEFINE sizes == {Cardinality(T) : T \in Bad}
<1>1. sizes \in SUBSET Nat /\ sizes # {}
  BY FS_CardinalityType
<1>2. PICK m \in sizes : \A n \in sizes : m <= n
  <2> HIDE DEF sizes
  <2> QED BY <1>1, LeastNumber
<1> QED BY <1>2

\* One element less, and one set less.
LEMMA OneLess ==
  ASSUME NEW T, IsFiniteSet(T), NEW x \in T
  PROVE  /\ IsFiniteSet(T \ {x}) /\ Cardinality(T \ {x}) < Cardinality(T)
         /\ Cardinality(T \ {x}) = Cardinality(T) - 1
         /\ Cardinality(T) \in Nat \ {0}
<1>1. IsFiniteSet(T \ {x}) /\ Cardinality(T \ {x}) = Cardinality(T) - 1
  BY FS_RemoveElement
<1>2. Cardinality(T) \in Nat /\ Cardinality(T \ {x}) \in Nat
  BY <1>1, FS_CardinalityType
<1> QED BY <1>1, <1>2

\* The lesser of two numbers.
LEMMA LesserOfTwo ==
  ASSUME NEW a \in Int, NEW b \in Int
  PROVE  /\ Min({a, b}) \in {a, b} /\ Min({a, b}) <= a /\ Min({a, b}) <= b
         /\ Min({a, b}) \in Int
<1>1. \E x \in {a, b} : \A y \in {a, b} : x <= y
  OBVIOUS
<1> QED BY <1>1 DEF Min

\* What holds of 0, and of a number below n when of the one before, holds up to n.
LEMMA UpTo ==
  ASSUME NEW n \in Nat, NEW P, 0 \in P, \A i \in 1..n : i - 1 \in P => i \in P
  PROVE  \A i \in 0..n : i \in P
<1> DEFINE Bad == {i \in 0..n : i \notin P}
<1>1. SUFFICES ASSUME Bad # {} PROVE FALSE
  OBVIOUS
<1>2. Bad \in SUBSET Nat
  OBVIOUS
<1>3. PICK m \in Bad : \A i \in Bad : m <= i
  <2> HIDE DEF Bad
  <2> QED BY <1>1, <1>2, LeastNumber
<1>4. m \in 1..n /\ m - 1 \in 0..n /\ m - 1 \notin Bad
  <2>1. m \in 0..n /\ m # 0
    OBVIOUS
  <2>2. m \in 1..n /\ m - 1 \in 0..n /\ ~(m <= m - 1)
    BY <2>1
  <2> HIDE DEF Bad
  <2> QED BY <1>3, <2>2
<1> QED BY <1>4

\* The greatest of a set of numbers is the bound of the set if that is in it.
LEMMA GreatestUpTo ==
  ASSUME NEW n \in Nat, NEW S \in SUBSET (1..n), n \in S
  PROVE  Max(S) = n
<1>1. n \in S /\ \A y \in S : n >= y
  OBVIOUS
<1>2. \A x \in S : (\A y \in S : x >= y) => x = n
  OBVIOUS
<1> QED BY <1>1, <1>2 DEF Max

\* A set of numbers up to n has a greatest.
LEMMA GreatestExists ==
  ASSUME NEW n \in Nat, NEW S \in SUBSET (1..n), S # {}
  PROVE  \E x \in S : \A y \in S : x >= y
<1> DEFINE gaps == {n - x : x \in S}
<1>1. gaps \in SUBSET Nat /\ gaps # {}
  <2>1. \A x \in S : x \in Nat /\ n - x \in Nat
    OBVIOUS
  <2>2. \E x \in S : n - x \in gaps
    OBVIOUS
  <2> QED BY <2>1, <2>2
<1>2. PICK m \in gaps : \A k \in gaps : m <= k
  <2> HIDE DEF gaps
  <2> QED BY <1>1, LeastNumber
<1>3. PICK x \in S : m = n - x
  OBVIOUS
<1>4. ASSUME NEW y \in S PROVE x >= y
  <2>1. n - x <= n - y
    BY <1>2, <1>3
  <2>2. n \in Int /\ x \in Int /\ y \in Int
    OBVIOUS
  <2> HIDE DEF gaps
  <2> QED BY <2>1, <2>2
<1> QED BY <1>4

\* Two finite sets without a common element are counted apart.
LEMMA CountedApart ==
  ASSUME NEW S, IsFiniteSet(S), NEW T, IsFiniteSet(T), S \cap T = {}
  PROVE  /\ IsFiniteSet(S \cup T) /\ Cardinality(S \cup T) = Cardinality(S) + Cardinality(T)
         /\ Cardinality(S) \in Nat /\ Cardinality(T) \in Nat
<1>1. Cardinality(S) \in Nat /\ Cardinality(T) \in Nat
  BY FS_CardinalityType
<1>2. Cardinality(S \cap T) = 0
  BY FS_EmptySet
<1>3. /\ IsFiniteSet(S \cup T)
      /\ Cardinality(S \cup T) = Cardinality(S) + Cardinality(T) - Cardinality(S \cap T)
  BY FS_Union
<1>4. Cardinality(S) + Cardinality(T) - 0 = Cardinality(S) + Cardinality(T)
  BY <1>1
<1> QED BY <1>1, <1>2, <1>3, <1>4

\* As many things as numbers, if each number has its own.
LEMMA CountedByNumber ==
  ASSUME NEW n \in Nat, NEW s, \A i, j \in 1..n : s[i] = s[j] => i = j,
         NEW things, \A i \in 1..n : s[i] \in things, \A x \in things : \E i \in 1..n : s[i] = x
  PROVE  IsFiniteSet(things) /\ Cardinality(things) = n
<1> DEFINE f == [i \in 1..n |-> s[i]]
<1>1. f \in [1..n -> things] /\ \A x \in things : \E i \in 1..n : f[i] = x
  OBVIOUS
<1>2. \A i, j \in 1..n : f[i] = f[j] => i = j
  OBVIOUS
<1>3. IsFiniteSet(1..n) /\ Cardinality(1..n) = n
  <2>1. n \in Int /\ 1 \in Int
    OBVIOUS
  <2>2. IsFiniteSet(1..n) /\ Cardinality(1..n) = IF 1 > n THEN 0 ELSE n - 1 + 1
    BY <2>1, FS_Interval
  <2> QED BY <2>2
<1> HIDE DEF f
<1>4. f \in Surjection(1..n, things) /\ f \in Injection(1..n, things)
  BY <1>1, <1>2 DEF Surjection, Injection, IsInjective
<1> QED BY <1>3, <1>4, FS_Surjection

-----------------------------------------------------------------------------
(* Sums over finite sets, in any order.                                    *)

\* What a sum over the subsets of S comes to, one chosen element at a time.
Adds(h, f, S) ==
  h = [T \in SUBSET S |->
         IF T = {} THEN 0 ELSE LET x == CHOOSE x \in T : TRUE IN f[x] + h[T \ {x}]]

\* The sum is what adding comes to.
LEMMA SumIsAdding ==
  ASSUME NEW f, NEW S
  PROVE  SumFunctionOnSet(f, S) = (CHOOSE h : Adds(h, f, S))[S]
  BY DEF SumFunctionOnSet, FoldFunctionOnSet, MapThenFoldSet, Adds

\* Two ways of adding agree on what they both add.
LEMMA AddingIsUnique ==
  ASSUME NEW f, NEW S, NEW R \in SUBSET S, IsFiniteSet(R), NEW g, NEW h, Adds(g, f, S), Adds(h, f, R)
  PROVE  \A T \in SUBSET R : g[T] = h[T]
<1> DEFINE Bad == {T \in SUBSET R : g[T] # h[T]}
<1>1. SUFFICES ASSUME Bad # {} PROVE FALSE
  OBVIOUS
<1>2. PICK T \in Bad : \A U \in Bad : Cardinality(T) <= Cardinality(U)
  <2>1. \A U \in Bad : IsFiniteSet(U)
    BY FS_Subset
  <2> HIDE DEF Bad
  <2> QED BY <1>1, <2>1, SmallestSet
<1>3. T # {}
  BY DEF Adds
<1> DEFINE x == CHOOSE x \in T : TRUE
<1>4. x \in T
  BY <1>3
<1>5. g[T] = f[x] + g[T \ {x}] /\ h[T] = f[x] + h[T \ {x}]
  BY <1>3 DEF Adds
<1> HIDE DEF x
<1>6. IsFiniteSet(T)
  BY FS_Subset
<1>7. g[T \ {x}] = h[T \ {x}]
  <2>1. T \ {x} \in SUBSET R /\ ~(Cardinality(T) <= Cardinality(T \ {x}))
    BY <1>4, <1>6, OneLess
  <2> QED BY <1>2, <2>1
<1> QED BY <1>5, <1>7

\* Adding up finitely many integers is well defined.
LEMMA AddingExists ==
  ASSUME NEW S, IsFiniteSet(S), NEW f, \A x \in S : f[x] \in Int
  PROVE  \E h : Adds(h, f, S) /\ h \in [SUBSET S -> Int]
<1> DEFINE Bad == {T \in SUBSET S : ~ \E h : Adds(h, f, T) /\ h \in [SUBSET T -> Int]}
<1>1. SUFFICES ASSUME Bad # {} PROVE FALSE
  OBVIOUS
<1>2. PICK T \in Bad : \A U \in Bad : Cardinality(T) <= Cardinality(U)
  <2>1. \A U \in Bad : IsFiniteSet(U)
    BY FS_Subset
  <2> HIDE DEF Bad
  <2> QED BY <1>1, <2>1, SmallestSet
<1>3. IsFiniteSet(T)
  BY FS_Subset
<1>4. ASSUME NEW U \in SUBSET T, U # T
      PROVE  \E h : Adds(h, f, U) /\ h \in [SUBSET U -> Int]
  <2>1. Cardinality(U) < Cardinality(T) /\ Cardinality(U) \in Nat /\ Cardinality(T) \in Nat
    BY <1>3, <1>4, FS_Subset, FS_CardinalityType
  <2>2. ~(Cardinality(T) <= Cardinality(U)) /\ U \in SUBSET S
    BY <2>1
  <2> QED BY <1>2, <2>2
<1> DEFINE part(U) == CHOOSE h : Adds(h, f, U) /\ h \in [SUBSET U -> Int]
           first(U) == CHOOSE x \in U : TRUE
           below(U) == IF U = T THEN f[first(U)] + part(U \ {first(U)})[U \ {first(U)}] ELSE part(U)[U]
           g == [U \in SUBSET T |-> IF U = {} THEN 0 ELSE below(U)]
<1>5. ASSUME NEW U \in SUBSET T, U # T
      PROVE  Adds(part(U), f, U) /\ part(U) \in [SUBSET U -> Int]
  BY <1>4, <1>5
<1>6. ASSUME NEW U \in SUBSET T, U # {}
      PROVE  g[U] = f[first(U)] + g[U \ {first(U)}] /\ g[U] \in Int
  <2> DEFINE x == first(U)
  <2>1. x \in U /\ U \ {x} \in SUBSET T /\ U \ {x} # T /\ U \ {x} # U /\ f[x] \in Int
    BY <1>6
  <2>2. g[U \ {x}] = part(U \ {x})[U \ {x}]
    <3>1. CASE U \ {x} = {}
      <4>0. Adds(part({}), f, {})
        BY <1>5, <2>1, <3>1
      <4> HIDE DEF x, part
      <4>1. part({})[{}] = 0
        BY <4>0 DEF Adds
      <4> HIDE DEF x, part
      <4> QED BY <2>1, <3>1, <4>1
    <3>2. CASE U \ {x} # {}
      <4> HIDE DEF x, part
      <4> QED BY <2>1, <3>2
    <3> QED BY <3>1, <3>2
  <2>3. part(U \ {x})[U \ {x}] \in Int
    BY <1>5, <2>1
  <2>4. CASE U = T
    <3>1. g[U] = f[x] + part(U \ {x})[U \ {x}]
      <4> HIDE DEF x, part
      <4> QED BY <1>6, <2>4 DEF x
    <3> QED BY <2>1, <2>2, <2>3, <3>1
  <2>5. CASE U # T
    <3>1. g[U] = part(U)[U]
      <4> HIDE DEF x, part
      <4> QED BY <1>6, <2>5
    <3>2. Adds(part(U), f, U)
      BY <1>5, <2>5
    <3>3. Adds(part(U \ {x}), f, U \ {x}) /\ IsFiniteSet(U \ {x}) /\ U \ {x} \in SUBSET U
      <4>1. IsFiniteSet(U \ {x})
        BY <1>3, <2>1, FS_Subset
      <4> QED BY <1>5, <2>1, <4>1
    <3> HIDE DEF part
    <3>4. part(U)[U \ {x}] = part(U \ {x})[U \ {x}]
      <4> HIDE DEF x
      <4> QED BY <3>2, <3>3, AddingIsUnique
    <3>5. part(U)[U] = f[x] + part(U)[U \ {x}]
      BY <1>6, <3>2 DEF Adds
    <3> QED BY <2>1, <2>2, <2>3, <3>1, <3>4, <3>5
  <2> QED BY <2>4, <2>5
<1>7. g \in [SUBSET T -> Int]
  <2>1. ASSUME NEW U \in SUBSET T PROVE g[U] \in Int
    <3>1. CASE U = {}
      BY <3>1
    <3>2. CASE U # {}
      BY <1>6, <3>2
    <3> QED BY <3>1, <3>2
  <2>2. g = [U \in SUBSET T |-> g[U]]
    OBVIOUS
  <2> HIDE DEF g
  <2> QED BY <2>1, <2>2
<1>8. Adds(g, f, T)
  <2>1. g[{}] = 0 /\ g = [U \in SUBSET T |-> g[U]]
    OBVIOUS
  <2> HIDE DEF g
  <2> QED BY <1>6, <2>1 DEF Adds
<1> QED BY <1>7, <1>8

\* All that is needed of sums: nothing adds up to zero, and any element may be
\* the first.
LEMMA SumByElements ==
  ASSUME NEW S, IsFiniteSet(S), NEW f, \A x \in S : f[x] \in Int
  PROVE  /\ SumFunctionOnSet(f, S) \in Int
         /\ S = {} => SumFunctionOnSet(f, S) = 0
         /\ \A x \in S : SumFunctionOnSet(f, S) = f[x] + SumFunctionOnSet(f, S \ {x})
<1>1. PICK h : Adds(h, f, S) /\ h \in [SUBSET S -> Int]
  BY AddingExists
<1>2. ASSUME NEW T \in SUBSET S PROVE SumFunctionOnSet(f, T) = h[T]
  <2>1. IsFiniteSet(T) /\ \A x \in T : f[x] \in Int
    BY FS_Subset
  <2>2. \E g : Adds(g, f, T)
    BY <2>1, AddingExists
  <2> DEFINE g == CHOOSE g : Adds(g, f, T)
  <2>3. Adds(g, f, T)
    BY <2>2
  <2>4. SumFunctionOnSet(f, T) = g[T]
    BY SumIsAdding
  <2> HIDE DEF g
  <2> QED BY <1>1, <2>1, <2>3, <2>4, AddingIsUnique
<1> DEFINE Bad == {T \in SUBSET S : \E x \in T : h[T] # f[x] + h[T \ {x}]}
<1>3. Bad = {}
  <2>1. SUFFICES ASSUME Bad # {} PROVE FALSE
    OBVIOUS
  <2>2. PICK T \in Bad : \A U \in Bad : Cardinality(T) <= Cardinality(U)
    <3>1. \A U \in Bad : IsFiniteSet(U)
      BY FS_Subset
    <3> HIDE DEF Bad
    <3> QED BY <2>1, <3>1, SmallestSet
  <2>3. PICK x \in T : h[T] # f[x] + h[T \ {x}]
    BY <2>2
  <2> DEFINE c == CHOOSE c \in T : TRUE
  <2>4. c \in T /\ h[T] = f[c] + h[T \ {c}]
    BY <1>1, <2>3 DEF Adds
  <2> HIDE DEF c
  <2>5. x # c
    BY <2>3, <2>4
  <2>6. IsFiniteSet(T)
    BY FS_Subset
  <2>7. T \ {c} \notin Bad /\ T \ {x} \notin Bad
    <3>1. ~(Cardinality(T) <= Cardinality(T \ {c})) /\ ~(Cardinality(T) <= Cardinality(T \ {x}))
      BY <2>4, <2>6, OneLess
    <3> HIDE DEF Bad
    <3> QED BY <2>2, <3>1
  <2>8. h[T \ {c}] = f[x] + h[(T \ {c}) \ {x}] /\ h[T \ {x}] = f[c] + h[(T \ {x}) \ {c}]
    <3>1. x \in T \ {c} /\ c \in T \ {x} /\ T \ {c} \in SUBSET S /\ T \ {x} \in SUBSET S
      BY <2>4, <2>5
    <3> QED BY <2>7, <3>1
  <2>9. (T \ {c}) \ {x} = (T \ {x}) \ {c} /\ (T \ {x}) \ {c} \in SUBSET S
    OBVIOUS
  <2>10. f[x] \in Int /\ f[c] \in Int /\ h[(T \ {x}) \ {c}] \in Int
    BY <1>1, <2>4, <2>9
  <2>11. h[(T \ {c}) \ {x}] = h[(T \ {x}) \ {c}]
    BY <2>9
  <2> DEFINE w == h[(T \ {x}) \ {c}]
             fx == f[x]
             fc == f[c]
  <2>12. h[T] = fc + (fx + w) /\ h[T \ {x}] = fc + w /\ fx \in Int /\ fc \in Int /\ w \in Int
    BY <2>4, <2>8, <2>10, <2>11
  <2>13. h[T] # fx + h[T \ {x}]
    BY <2>3
  <2> HIDE DEF w, fx, fc
  <2> QED BY <2>12, <2>13
<1>4. S = {} => h[S] = 0
  BY <1>1 DEF Adds
<1>5. \A x \in S : h[S] = f[x] + h[S \ {x}]
  <2> SUFFICES ASSUME NEW x \in S PROVE h[S] = f[x] + h[S \ {x}]
    OBVIOUS
  <2>1. S \in SUBSET S
    OBVIOUS
  <2> QED BY <1>3, <2>1
<1>6. ASSUME NEW x \in S PROVE SumFunctionOnSet(f, S \ {x}) = h[S \ {x}]
  BY <1>2
<1> QED BY <1>1, <1>2, <1>4, <1>5, <1>6

\* Two sets without a common element add up separately.
LEMMA SumOfUnion ==
  ASSUME NEW S, IsFiniteSet(S), NEW f, \A x \in S : f[x] \in Int,
         NEW A \in SUBSET S, NEW B \in SUBSET (S \ A)
  PROVE  SumFunctionOnSet(f, A \cup B) = SumFunctionOnSet(f, A) + SumFunctionOnSet(f, B)
<1> DEFINE Bad == {C \in SUBSET (S \ A) :
                     SumFunctionOnSet(f, A \cup C) # SumFunctionOnSet(f, A) + SumFunctionOnSet(f, C)}
<1>1. SUFFICES ASSUME Bad # {} PROVE FALSE
  OBVIOUS
<1>2. \A C \in SUBSET S : IsFiniteSet(C)
  BY FS_Subset
<1>3. PICK C \in Bad : \A U \in Bad : Cardinality(C) <= Cardinality(U)
  <2>1. \A U \in Bad : IsFiniteSet(U)
    BY <1>2
  <2> HIDE DEF Bad
  <2> QED BY <1>1, <2>1, SmallestSet
<1>4. \A T \in SUBSET S :
        /\ SumFunctionOnSet(f, T) \in Int
        /\ T = {} => SumFunctionOnSet(f, T) = 0
        /\ \A x \in T : SumFunctionOnSet(f, T) = f[x] + SumFunctionOnSet(f, T \ {x})
  BY <1>2, SumByElements
<1>5. C # {}
  <2>1. A \cup {} = A
    OBVIOUS
  <2>2. SumFunctionOnSet(f, {}) = 0 /\ SumFunctionOnSet(f, A) \in Int
    BY <1>4
  <2>3. SumFunctionOnSet(f, A \cup {}) = SumFunctionOnSet(f, A) + SumFunctionOnSet(f, {})
    BY <2>1, <2>2
  <2> QED BY <1>3, <2>3
<1>6. PICK x \in C : TRUE
  BY <1>5
<1>7. C \in SUBSET S /\ C \ {x} \in SUBSET S /\ A \cup C \in SUBSET S /\ x \in A \cup C
  BY <1>3
<1>8. (A \cup C) \ {x} = A \cup (C \ {x}) /\ f[x] \in Int
  BY <1>3
<1>9. C \ {x} \notin Bad
  <2>1. ~(Cardinality(C) <= Cardinality(C \ {x}))
    BY <1>2, <1>7, OneLess
  <2> HIDE DEF Bad
  <2> QED BY <1>3, <2>1
<1>10. SumFunctionOnSet(f, A \cup (C \ {x})) = SumFunctionOnSet(f, A) + SumFunctionOnSet(f, C \ {x})
  BY <1>9
<1>11. /\ SumFunctionOnSet(f, A \cup C) = f[x] + SumFunctionOnSet(f, A \cup (C \ {x}))
       /\ SumFunctionOnSet(f, C) = f[x] + SumFunctionOnSet(f, C \ {x})
       /\ SumFunctionOnSet(f, A) \in Int /\ SumFunctionOnSet(f, C \ {x}) \in Int
  BY <1>4, <1>7, <1>8
<1>12. SumFunctionOnSet(f, A \cup C) # SumFunctionOnSet(f, A) + SumFunctionOnSet(f, C)
  BY <1>3
<1> QED BY <1>8, <1>10, <1>11, <1>12

\* Counting twice: the sums of the parts of a set add up to the sum of the set.
LEMMA SumOfParts ==
  ASSUME NEW S, IsFiniteSet(S), NEW f, \A x \in S : f[x] \in Int,
         NEW K, IsFiniteSet(K), NEW part \in [K -> SUBSET S],
         \A j, k \in K : j # k => part[j] \cap part[k] = {}
  PROVE  SumFunction([k \in K |-> SumFunctionOnSet(f, part[k])])
           = SumFunctionOnSet(f, UNION {part[k] : k \in K})
<1> DEFINE F == [k \in K |-> SumFunctionOnSet(f, part[k])]
           all(J) == UNION {part[k] : k \in J}
           Bad == {J \in SUBSET K : SumFunctionOnSet(F, J) # SumFunctionOnSet(f, all(J))}
<1>1. \A C \in SUBSET S : IsFiniteSet(C) /\ SumFunctionOnSet(f, C) \in Int
  BY FS_Subset, SumByElements
<1>2. \A J \in SUBSET K : IsFiniteSet(J)
  BY FS_Subset
<1>3. DOMAIN F = K /\ \A k \in K : F[k] = SumFunctionOnSet(f, part[k]) /\ F[k] \in Int
  BY <1>1
<1> HIDE DEF F
<1>4. \A J \in SUBSET K :
        /\ SumFunctionOnSet(F, J) \in Int
        /\ J = {} => SumFunctionOnSet(F, J) = 0
        /\ \A k \in J : SumFunctionOnSet(F, J) = F[k] + SumFunctionOnSet(F, J \ {k})
  BY <1>2, <1>3, SumByElements
<1>5. Bad = {}
  <2>1. SUFFICES ASSUME Bad # {} PROVE FALSE
    OBVIOUS
  <2>2. PICK J \in Bad : \A U \in Bad : Cardinality(J) <= Cardinality(U)
    <3>1. \A U \in Bad : IsFiniteSet(U)
      BY <1>2
    <3> HIDE DEF Bad
    <3> QED BY <2>1, <3>1, SmallestSet
  <2>3. J # {}
    <3>1. all({}) = {}
      OBVIOUS
    <3>2. SumFunctionOnSet(f, {}) = 0 /\ SumFunctionOnSet(F, {}) = 0
      BY <1>4, SumByElements, FS_EmptySet
    <3>3. SumFunctionOnSet(F, {}) = SumFunctionOnSet(f, all({}))
      BY <3>1, <3>2
    <3> HIDE DEF all
    <3> QED BY <2>2, <3>3
  <2>4. PICK k \in J : TRUE
    BY <2>3
  <2>5. J \ {k} \notin Bad /\ J \ {k} \in SUBSET K
    <3>1. ~(Cardinality(J) <= Cardinality(J \ {k}))
      BY <1>2, OneLess
    <3> HIDE DEF Bad
    <3>2. J \in SUBSET K
      BY DEF Bad
    <3> QED BY <2>2, <3>1, <3>2
  <2>6. SumFunctionOnSet(F, J \ {k}) = SumFunctionOnSet(f, all(J \ {k}))
    BY <2>5
  <2>7. all(J) = all(J \ {k}) \cup part[k] /\ all(J \ {k}) \in SUBSET S /\ part[k] \in SUBSET (S \ all(J \ {k}))
    <3>1. J \in SUBSET K /\ k \in K
      BY <2>2
    <3>2. \A x : x \in part[k] => x \notin all(J \ {k})
      BY <3>1
    <3> QED BY <3>1, <3>2
  <2> HIDE DEF all
  <2>8. SumFunctionOnSet(f, all(J)) = SumFunctionOnSet(f, all(J \ {k})) + SumFunctionOnSet(f, part[k])
    <3> DEFINE A == all(J \ {k})
               B == part[k]
    <3>1. A \in SUBSET S /\ B \in SUBSET (S \ A) /\ all(J) = A \cup B
      BY <2>7
    <3> HIDE DEF A, B
    <3>2. SumFunctionOnSet(f, A \cup B) = SumFunctionOnSet(f, A) + SumFunctionOnSet(f, B)
      BY <3>1, SumOfUnion
    <3> QED BY <3>1, <3>2 DEF A, B
  <2>9. /\ SumFunctionOnSet(F, J) = F[k] + SumFunctionOnSet(F, J \ {k})
        /\ F[k] = SumFunctionOnSet(f, part[k]) /\ F[k] \in Int
        /\ SumFunctionOnSet(F, J \ {k}) \in Int
    BY <1>3, <1>4, <2>2, <2>5
  <2>10. SumFunctionOnSet(F, J) # SumFunctionOnSet(f, all(J))
    BY <2>2
  <2> QED BY <2>6, <2>8, <2>9, <2>10
<1>6. SumFunction(F) = SumFunctionOnSet(F, K)
  BY <1>3 DEF SumFunction
<1>7. SumFunctionOnSet(F, K) = SumFunctionOnSet(f, all(K))
  <2>1. K \in SUBSET K
    OBVIOUS
  <2> QED BY <1>5, <2>1
<1> QED BY <1>6, <1>7 DEF F

\* A sum of counts is nothing only where there is nothing to count.
LEMMA SumOfNaturals ==
  ASSUME NEW S, IsFiniteSet(S), NEW f, \A x \in S : f[x] \in Nat
  PROVE  /\ SumFunctionOnSet(f, S) \in Nat
         /\ SumFunctionOnSet(f, S) = 0 <=> \A x \in S : f[x] = 0
<1> DEFINE Good(T) == /\ SumFunctionOnSet(f, T) \in Nat
                      /\ SumFunctionOnSet(f, T) = 0 <=> \A x \in T : f[x] = 0
           Bad == {T \in SUBSET S : ~Good(T)}
<1>1. SUFFICES ASSUME Bad # {} PROVE FALSE
  OBVIOUS
<1>2. \A C \in SUBSET S : IsFiniteSet(C)
  BY FS_Subset
<1>3. PICK T \in Bad : \A U \in Bad : Cardinality(T) <= Cardinality(U)
  <2>1. \A U \in Bad : IsFiniteSet(U)
    BY <1>2
  <2> HIDE DEF Bad
  <2> QED BY <1>1, <2>1, SmallestSet
<1>4. /\ T = {} => SumFunctionOnSet(f, T) = 0
      /\ \A x \in T : SumFunctionOnSet(f, T) = f[x] + SumFunctionOnSet(f, T \ {x})
  <2>1. IsFiniteSet(T) /\ \A x \in T : f[x] \in Int
    BY <1>2
  <2> QED BY <2>1, SumByElements
<1>5. T # {}
  <2>1. T = {} => Good(T)
    BY <1>4
  <2> QED BY <1>3, <2>1
<1>6. PICK x \in T : TRUE
  BY <1>5
<1>7. Good(T \ {x})
  <2>1. ~(Cardinality(T) <= Cardinality(T \ {x})) /\ T \ {x} \in SUBSET S
    BY <1>2, OneLess
  <2> HIDE DEF Good
  <2> QED BY <1>3, <2>1
<1>8. SumFunctionOnSet(f, T) = f[x] + SumFunctionOnSet(f, T \ {x}) /\ f[x] \in Nat
  BY <1>4
<1>9. Good(T)
  BY <1>7, <1>8
<1> QED BY <1>3, <1>9

-----------------------------------------------------------------------------
(* Folds over sequences.                                                   *)

\* What folding comes to over every set of the positions up to n.
FoldsOver(h, n, base, turn) ==
  \A S \in SUBSET (1..n) :
    h[S] = IF S = {} THEN base ELSE turn[<<Max(S), h[S \ {Max(S)}]>>]

\* Folding over the positions of a sequence is well defined.
LEMMA FoldExists ==
  ASSUME NEW N \in Nat, NEW V, NEW base \in V, NEW turn \in [(1..N) \X V -> V]
  PROVE  \E h \in [SUBSET (1..N) -> V] : FoldsOver(h, N, base, turn)
<1> DEFINE P == {n \in 0..N : \E h \in [SUBSET (1..n) -> V] : FoldsOver(h, n, base, turn)}
<1>1. 0 \in P
  <2> DEFINE h == [S \in SUBSET (1..0) |-> base]
  <2>1. \A S \in SUBSET (1..0) : S = {}
    OBVIOUS
  <2>2. h \in [SUBSET (1..0) -> V]
    OBVIOUS
  <2>3. FoldsOver(h, 0, base, turn)
    BY <2>1 DEF FoldsOver
  <2> QED BY <2>2, <2>3
<1>2. ASSUME NEW n \in 1..N, n - 1 \in P PROVE n \in P
  <2>1. PICK g \in [SUBSET (1..(n - 1)) -> V] : FoldsOver(g, n - 1, base, turn)
    BY <1>2
  <2> DEFINE h == [S \in SUBSET (1..n) |-> IF n \in S THEN turn[<<n, g[S \ {n}]>>] ELSE g[S]]
  <2>2. \A S \in SUBSET (1..n) : S \ {n} \in SUBSET (1..(n - 1)) /\ (n \notin S => S \in SUBSET (1..(n - 1)))
    OBVIOUS
  <2>3. h \in [SUBSET (1..n) -> V]
    <3>1. ASSUME NEW S \in SUBSET (1..n) PROVE h[S] \in V
      <4>1. CASE n \in S
        <5>1. g[S \ {n}] \in V
          BY <2>1, <2>2
        <5>2. <<n, g[S \ {n}]>> \in (1..N) \X V
          BY <5>1
        <5>3. turn[<<n, g[S \ {n}]>>] \in V
          BY <5>2
        <5> QED BY <4>1, <5>3
      <4>2. CASE n \notin S
        BY <2>1, <2>2, <4>2
      <4> QED BY <4>1, <4>2
    <3>2. h = [S \in SUBSET (1..n) |-> h[S]]
      OBVIOUS
    <3> HIDE DEF h
    <3> QED BY <3>1, <3>2
  <2>4. ASSUME NEW S \in SUBSET (1..n)
        PROVE  h[S] = IF S = {} THEN base ELSE turn[<<Max(S), h[S \ {Max(S)}]>>]
    <3>1. CASE n \in S
      <4>1. Max(S) = n
        BY <3>1, GreatestUpTo
      <4>2. h[S \ {n}] = g[S \ {n}]
        BY <2>2
      <4>3. h[S] = turn[<<n, g[S \ {n}]>>]
        BY <3>1
      <4> HIDE DEF h
      <4> QED BY <3>1, <4>1, <4>2, <4>3
    <3>2. CASE n \notin S
      <4>1. S \in SUBSET (1..(n - 1)) /\ h[S] = g[S]
        BY <2>2, <3>2
      <4>2. S \ {Max(S)} \in SUBSET (1..n) /\ n \notin S \ {Max(S)}
        BY <3>2
      <4>3. h[S \ {Max(S)}] = g[S \ {Max(S)}]
        BY <4>2
      <4>4. g[S] = IF S = {} THEN base ELSE turn[<<Max(S), g[S \ {Max(S)}]>>]
        BY <2>1, <4>1 DEF FoldsOver
      <4> HIDE DEF h
      <4> QED BY <4>1, <4>3, <4>4
    <3> QED BY <3>1, <3>2
  <2>5. FoldsOver(h, n, base, turn)
    <3> HIDE DEF h
    <3> QED BY <2>4 DEF FoldsOver
  <2> HIDE DEF h
  <2> QED BY <2>3, <2>5
<1> HIDE DEF P
<1>3. \A i \in 0..N : i \in P
  BY <1>1, <1>2, UpTo
<1>4. N \in P
  BY <1>3
<1> QED BY <1>4 DEF P

\* The values a fold goes through are those over the first positions.
LEMMA FirstPositions ==
  ASSUME NEW n \in Nat
  PROVE  /\ 1..0 = {}
         /\ \A i \in 1..n : /\ 1..i \in SUBSET (1..n) /\ 1..i # {}
                            /\ Max(1..i) = i /\ (1..i) \ {i} = 1..(i - 1)
<1>1. ASSUME NEW i \in 1..n
      PROVE  1..i \in SUBSET (1..n) /\ 1..i # {} /\ (1..i) \ {i} = 1..(i - 1)
  OBVIOUS
<1>2. ASSUME NEW i \in 1..n PROVE Max(1..i) = i
  <2>1. i \in Nat /\ i \in 1..i
    OBVIOUS
  <2> QED BY <2>1, GreatestUpTo
<1> QED BY <1>1, <1>2

-----------------------------------------------------------------------------
(* The rate limiter.                                                       *)

\* Trimming drops events from the front, up to the first in the window.
LEMMA TrimDropsTheFront ==
  ASSUME NEW ev \in Seq(Int), NEW w \in Int
  PROVE  \E d \in 0..Len(ev) :
           /\ Trim(ev, w) \in Seq(Int) /\ Len(Trim(ev, w)) = Len(ev) - d
           /\ \A i \in 1..(Len(ev) - d) : Trim(ev, w)[i] = ev[d + i]
           /\ \A i \in 1..d : ev[i] <= w - Window
           /\ d < Len(ev) => ev[d + 1] > w - Window
<1> DEFINE kept == {i \in 1..Len(ev) : ev[i] > w - Window}
           first == CHOOSE i \in kept : \A j \in kept : i <= j
<1>0. w - Window \in Int /\ Len(ev) \in Nat /\ \A i \in 1..Len(ev) : ev[i] \in Int
  BY LimitAssumption
<1>1. CASE kept = {}
  <2>1. Trim(ev, w) = <<>>
    BY <1>1 DEF Trim
  <2>2. \A i \in 1..Len(ev) : ev[i] <= w - Window
    BY <1>0, <1>1
  <2> QED BY <1>0, <2>1, <2>2
<1>2. CASE kept # {}
  <2>0. kept \in SUBSET Nat
    BY <1>0
  <2>1. \E i \in kept : \A j \in kept : i <= j
    <3> HIDE DEF kept
    <3> QED BY <1>2, <2>0, LeastNumber
  <2>2. first \in kept /\ \A j \in kept : first <= j
    BY <2>1
  <2>3. Trim(ev, w) = SubSeq(ev, first, Len(ev))
    BY <1>2 DEF Trim
  <2> HIDE DEF first
  <2>4. first \in 1..Len(ev) /\ ev[first] > w - Window
    BY <2>2
  <2>5. \A i \in 1..(first - 1) : ev[i] <= w - Window
    BY <1>0, <2>2, <2>4
  <2>6. /\ Trim(ev, w) \in Seq(Int) /\ Len(Trim(ev, w)) = Len(ev) - first + 1
        /\ \A i \in 1..(Len(ev) - first + 1) : Trim(ev, w)[i] = ev[first + i - 1]
    BY <1>0, <2>3, <2>4, SubSeqProperties
  <2> DEFINE d == first - 1
  <2>7. d \in 0..Len(ev) /\ Len(ev) - first + 1 = Len(ev) - d /\ d + 1 = first
    BY <1>0, <2>4
  <2>8. \A i \in 1..(Len(ev) - d) : Trim(ev, w)[i] = ev[d + i]
    <3>1. \A i \in 1..(Len(ev) - d) : first + i - 1 = d + i
      BY <1>0, <2>4
    <3> QED BY <2>6, <2>7, <3>1
  <2> QED BY <2>4, <2>5, <2>6, <2>7, <2>8
<1> QED BY <1>1, <1>2

\* A key without a record has none after it is trimmed.
LEMMA TrimKeepsEmpty ==
  ASSUME NEW w \in Int
  PROVE  Trim(<<>>, w) = <<>>
<1>1. {i \in 1..Len(<<>>) : <<>>[i] > w - Window} = {}
  OBVIOUS
<1> QED BY <1>1 DEF Trim

\* The entries of a log are times.
LEMMA LogsAreTimes ==
  ASSUME NEW log \in Seq(Admissions), NEW i \in 1..Len(log)
  PROVE  log[i].read \in Nat /\ log[i].at \in Nat
<1>1. log[i] \in Admissions
  OBVIOUS
<1> QED BY <1>1 DEF Admissions

\* What a clock w showed at a time r.
ReadAs(w, r) == w \in Int /\ r \in Nat /\ r <= now /\ r \in w..(w + step)

\* What is trimmed away had read its clock a window ago, whatever the clock did
\* in between and however late the thread has come.
LEMMA TrimKeepsCounts ==
  ASSUME NEW ev \in Seq(Int), NEW log \in Seq(Admissions), now \in Nat, step \in Nat,
         NEW w, NEW r, ReadAs(w, r), CountsMatchTheLog(ev, log)
  PROVE  Trim(ev, w) \in Seq(Int) /\ CountsMatchTheLog(Trim(ev, w), log)
<1>0. w \in Int /\ r \in Nat /\ r <= now /\ r \in w..(w + step)
  BY DEF ReadAs
<1>1. PICK d \in 0..Len(ev) :
        /\ Trim(ev, w) \in Seq(Int) /\ Len(Trim(ev, w)) = Len(ev) - d
        /\ \A i \in 1..(Len(ev) - d) : Trim(ev, w)[i] = ev[d + i]
        /\ \A i \in 1..d : ev[i] <= w - Window
  BY <1>0, TrimDropsTheFront
<1> DEFINE trimmed == Trim(ev, w)
           old == Len(log) - Len(ev)
<1>2. trimmed \in Seq(Int) /\ Len(trimmed) = Len(ev) - d
  BY <1>1
<1>3. \A i \in 1..Len(trimmed) : trimmed[i] = ev[d + i] /\ d + i \in 1..Len(ev)
  BY <1>1
<1> HIDE DEF trimmed
<1>4. /\ Window \in Nat
      /\ \A i \in 1..Len(ev) : ev[i] \in Int
      /\ \A i \in 1..Len(log) : log[i].read \in Nat
  BY LimitAssumption, LogsAreTimes
<1>5. /\ old \in Nat
      /\ \A i \in 1..Len(log) :
           log[i].read <= log[i].at /\ log[i].at <= now /\ \A j \in 1..i : log[j].at <= log[i].at
      /\ \A i \in 1..Len(ev) : log[old + i].read \in ev[i]..(ev[i] + step)
      /\ \A i \in 1..old : log[i].read + Window <= now + step
  BY DEF CountsMatchTheLog
<1>6. Len(log) - Len(trimmed) = old + d
  BY <1>2
<1>7. ASSUME NEW i \in 1..(old + d) PROVE log[i].read + Window <= now + step
  <2>1. CASE i \in 1..old
    BY <1>5, <2>1
  <2>2. ASSUME NEW j \in 1..d PROVE log[old + j].read + Window <= now + step
    <3>1. j \in 1..Len(ev) /\ old + j \in 1..Len(log)
      BY <1>5
    <3>2. log[old + j].read <= ev[j] + step /\ ev[j] <= w - Window
      BY <1>1, <1>4, <1>5, <3>1
    <3>3. PICK t \in Nat, e \in Int : t = log[old + j].read /\ e = ev[j]
      BY <1>4, <3>1
    <3>4. t <= e + step /\ e <= w - Window
      BY <3>2, <3>3
    <3>5. t + Window <= now + step
      BY <1>0, <1>4, <3>4
    <3> QED BY <3>3, <3>5
  <2>3. i \notin 1..old => i - old \in 1..d /\ old + (i - old) = i
    BY <1>5
  <2> QED BY <2>1, <2>2, <2>3
<1>8. ASSUME NEW i \in 1..Len(trimmed)
      PROVE  log[(old + d) + i].read \in trimmed[i]..(trimmed[i] + step)
  <2>1. (old + d) + i = old + (d + i)
    BY <1>2, <1>5
  <2> QED BY <1>3, <1>5, <2>1
<1>9. CountsMatchTheLog(trimmed, log)
  BY <1>2, <1>5, <1>6, <1>7, <1>8 DEF CountsMatchTheLog
<1> QED BY <1>2, <1>9 DEF trimmed

\* A call that is counted goes to the end of both.
LEMMA CountingKeepsCounts ==
  ASSUME NEW ev \in Seq(Int), NEW log \in Seq(Admissions), now \in Nat, step \in Nat,
         NEW w, NEW r, ReadAs(w, r), CountsMatchTheLog(ev, log)
  PROVE  /\ Append(ev, w) \in Seq(Int) /\ Append(log, [read |-> r, at |-> now]) \in Seq(Admissions)
         /\ CountsMatchTheLog(Append(ev, w), Append(log, [read |-> r, at |-> now]))
<1> DEFINE e == Append(ev, w)
           x == [read |-> r, at |-> now]
           l == Append(log, x)
           old == Len(log) - Len(ev)
<1>0. w \in Int /\ r \in Nat /\ r <= now /\ r \in w..(w + step)
  BY DEF ReadAs
<1>a. x \in Admissions /\ x.read = r /\ x.at = now
  BY <1>0 DEF Admissions
<1> HIDE DEF x
<1>1. /\ e \in Seq(Int) /\ Len(e) = Len(ev) + 1 /\ e[Len(ev) + 1] = w
      /\ \A i \in 1..Len(ev) : e[i] = ev[i]
  BY <1>0, AppendProperties
<1>2. /\ l \in Seq(Admissions) /\ Len(l) = Len(log) + 1 /\ l[Len(log) + 1] = x
      /\ \A i \in 1..Len(log) : l[i] = log[i]
  BY <1>a, AppendProperties
<1> HIDE DEF e, l
<1>3. /\ old \in Nat /\ Len(ev) \in Nat /\ Len(log) \in Nat /\ Len(log) = old + Len(ev)
      /\ \A i \in 1..Len(log) :
           log[i].read <= log[i].at /\ log[i].at <= now /\ \A j \in 1..i : log[j].at <= log[i].at
      /\ \A i \in 1..Len(ev) : log[old + i].read \in ev[i]..(ev[i] + step)
      /\ \A i \in 1..old : log[i].read + Window <= now + step
  BY DEF CountsMatchTheLog
<1>4. ASSUME NEW i \in 1..Len(l)
      PROVE  l[i].read <= l[i].at /\ l[i].at <= now /\ \A j \in 1..i : l[j].at <= l[i].at
  <2>1. CASE i \in 1..Len(log)
    BY <1>2, <1>3, <2>1
  <2>2. CASE i = Len(log) + 1
    BY <1>0, <1>a, <1>2, <1>3, <2>2
  <2> QED BY <1>2, <1>3, <2>1, <2>2
<1>5. Len(l) - Len(e) = old
  BY <1>1, <1>2
<1>6. ASSUME NEW i \in 1..Len(e) PROVE l[old + i].read \in e[i]..(e[i] + step)
  <2>1. CASE i \in 1..Len(ev)
    <3>1. old + i \in 1..Len(log)
      BY <1>3, <2>1
    <3> QED BY <1>1, <1>2, <1>3, <2>1, <3>1
  <2>2. CASE i = Len(ev) + 1
    <3>1. old + i = Len(log) + 1
      BY <1>3, <2>2
    <3> QED BY <1>0, <1>a, <1>1, <1>2, <2>2, <3>1
  <2> QED BY <1>1, <1>3, <2>1, <2>2
<1>7. \A i \in 1..old : l[i].read + Window <= now + step
  BY <1>2, <1>3
<1>8. CountsMatchTheLog(e, l)
  BY <1>3, <1>4, <1>5, <1>6, <1>7 DEF CountsMatchTheLog
<1> QED BY <1>1, <1>2, <1>8 DEF e, l, x

\* A call let through when fewer than MaxCalls are counted keeps the log spaced:
\* the call MaxCalls before it is counted no more.
LEMMA RoomKeepsSpaced ==
  ASSUME NEW ev \in Seq(Int), NEW log \in Seq(Admissions), now \in Nat, step \in Nat,
         NEW x \in Admissions, x.at = now,
         CountsMatchTheLog(ev, log), Spaced(log), Len(ev) < MaxCalls
  PROVE  Spaced(Append(log, x))
<1>1. /\ Len(Append(log, x)) = Len(log) + 1
      /\ Append(log, x)[Len(log) + 1] = x
      /\ \A i \in 1..Len(log) : Append(log, x)[i] = log[i]
  BY AppendProperties
<1>2. MaxCalls \in Nat \ {0}
  BY LimitAssumption
<1> DEFINE l == Append(log, x)
<1> SUFFICES ASSUME NEW i \in 1..(Len(l) - MaxCalls)
             PROVE  l[i].read + Window <= l[i + MaxCalls].at + step
  BY DEF Spaced
<1>3. CASE i + MaxCalls \in 1..Len(log)
  <2>1. log[i].read + Window <= log[i + MaxCalls].at + step
    BY <1>1, <1>2, <1>3 DEF Spaced
  <2>2. i \in 1..Len(log)
    BY <1>2, <1>3
  <2>3. l[i] = log[i] /\ l[i + MaxCalls] = log[i + MaxCalls]
    BY <1>1, <1>3, <2>2
  <2> QED BY <2>1, <2>3
<1>4. CASE i + MaxCalls = Len(log) + 1
  <2>1. i \in 1..(Len(log) - Len(ev))
    BY <1>1, <1>2, <1>4
  <2>2. log[i].read + Window <= now + step
    BY <2>1 DEF CountsMatchTheLog
  <2>3. i \in 1..Len(log)
    BY <1>2, <1>4
  <2>4. l[i] = log[i] /\ l[i + MaxCalls] = x
    BY <1>1, <1>4, <2>3
  <2> QED BY <2>2, <2>4
<1>5. Len(log) \in Nat /\ Len(l) = Len(log) + 1
  BY <1>1
<1>6. i + MaxCalls \in 1..Len(log) \/ i + MaxCalls = Len(log) + 1
  <2> HIDE DEF l
  <2> QED BY <1>2, <1>5
<1> QED BY <1>3, <1>4, <1>6

\* What a thread at the lock carries.
LEMMA PendingIsRead ==
  ASSUME LimitInv, NEW p \in pending
  PROVE  ReadAs(p.wall, p.read) /\ p.key \in Keys \cup {Health}
BY LimitAssumption DEF LimitInv, LimitTypeOK, ClocksWereRead, ReadAs

\* Recording a call, with the eviction that makes room for its key.
LEMMA RecordKeepsInv ==
  ASSUME LimitInv, NEW p \in pending, p.key \in Keys,
         NEW over \in BOOLEAN, Record(p, over),
         pending' \subseteq pending, UNCHANGED <<mode, now, step>>
  PROVE  LimitInv'
<1> DEFINE k == p.key
           x == [read |-> p.read, at |-> now]
           trimmed == Trim(events[k], p.wall)
           counts == ~over \/ mode = "warn"
           table == [events EXCEPT ![k] = IF counts THEN Append(trimmed, p.wall) ELSE trimmed]
           log == [admitted EXCEPT ![k] = IF counts THEN Append(@, x) ELSE @]
<1>0. /\ ReadAs(p.wall, p.read) /\ p.wall \in Int /\ p.read \in Nat
      /\ p.read \in p.wall..(p.wall + step) /\ k \in Keys
  BY PendingIsRead DEF ReadAs
<1>1. /\ mode \in {"off", "warn", "block"} /\ now \in Nat /\ step \in Nat
      /\ events \in [Keys -> Seq(Int)] /\ admitted \in [Keys -> Seq(Admissions)]
      /\ totals \in [Keys -> Nat] /\ uncounted \in BOOLEAN /\ step \in 0..MaxStep
      /\ \A j \in Keys : CountsMatchTheLog(events[j], admitted[j])
  BY LimitAssumption DEF LimitInv, LimitTypeOK
<1>2. trimmed \in Seq(Int) /\ CountsMatchTheLog(trimmed, admitted[k])
  BY <1>0, <1>1, TrimKeepsCounts
<1>3. over <=> Len(trimmed) >= MaxCalls
  BY DEF Record
<1>a. /\ totals' = [totals EXCEPT ![k] = IF over THEN @ + 1 ELSE @]
      /\ IF Cardinality(Tracked(table)) > MaxTrackedKeys
         THEN \E v \in Stalest(table, k) :
                /\ events' = [table EXCEPT ![v] = <<>>]
                /\ admitted' = [log EXCEPT ![v] = <<>>]
                /\ uncounted' = (uncounted \/ (v = k /\ \E j \in Tracked(table) \ {k} :
                                                log[j][Len(log[j])].at <= p.read))
         ELSE events' = table /\ admitted' = log /\ uncounted' = uncounted
  BY DEF Record
<1>b. x \in Admissions /\ x.at = now
  BY <1>0, <1>1 DEF Admissions
<1>4. /\ Append(trimmed, p.wall) \in Seq(Int) /\ Append(admitted[k], x) \in Seq(Admissions)
      /\ CountsMatchTheLog(Append(trimmed, p.wall), Append(admitted[k], x))
  <2> HIDE DEF trimmed
  <2> QED BY <1>0, <1>1, <1>2, CountingKeepsCounts
<1>c. events[k] = <<>> => trimmed = <<>>
  BY <1>0, TrimKeepsEmpty
<1> HIDE DEF trimmed, x
<1>5. /\ table \in [Keys -> Seq(Int)] /\ log \in [Keys -> Seq(Admissions)]
      /\ \A j \in Keys : CountsMatchTheLog(table[j], log[j])
  <2>1. /\ (IF counts THEN Append(trimmed, p.wall) ELSE trimmed) \in Seq(Int)
        /\ (IF counts THEN Append(admitted[k], x) ELSE admitted[k]) \in Seq(Admissions)
    BY <1>0, <1>1, <1>2, <1>4
  <2>2. table \in [Keys -> Seq(Int)] /\ log \in [Keys -> Seq(Admissions)]
    BY <1>0, <1>1, <2>1
  <2>3. ASSUME NEW j \in Keys PROVE CountsMatchTheLog(table[j], log[j])
    <3>1. CASE j = k /\ counts
      BY <1>1, <1>4, <3>1
    <3>2. CASE j = k /\ ~counts
      BY <1>1, <1>2, <3>2
    <3>3. CASE j # k
      BY <1>1, <3>3
    <3> QED BY <3>1, <3>2, <3>3
  <2> QED BY <2>2, <2>3
<1>6. mode = "block" => \A j \in Keys : Spaced(log[j])
  <2>1. SUFFICES ASSUME mode = "block", NEW j \in Keys PROVE Spaced(log[j])
    OBVIOUS
  <2>2. Spaced(admitted[j])
    BY <2>1 DEF LimitInv, BudgetHolds, WindowsHoldTheBudget
  <2>3. CASE j = k /\ counts
    <3>1. Len(trimmed) < MaxCalls
      BY <1>2, <1>3, <2>1, <2>3, LimitAssumption
    <3>2. Spaced(Append(admitted[k], x))
      BY <1>b, <1>1, <1>2, <2>2, <2>3, <3>1, RoomKeepsSpaced
    <3> QED BY <1>1, <2>3, <3>2
  <2>4. CASE ~(j = k /\ counts)
    BY <1>1, <2>2, <2>4
  <2> QED BY <2>3, <2>4
<1>7. /\ IsFiniteSet(Tracked(table))
      /\ Cardinality(Tracked(table)) <= MaxTrackedKeys + 1
      /\ Tracked(table) \subseteq Keys
  <2>1. /\ IsFiniteSet(Tracked(events)) /\ Cardinality(Tracked(events)) \in Nat
        /\ Cardinality(Tracked(events)) <= MaxTrackedKeys /\ MaxTrackedKeys \in Nat
    BY FS_CardinalityType, LimitAssumption DEF LimitInv, KeysAreBounded
  <2>2. Tracked(table) \subseteq Tracked(events) \cup {k}
    BY <1>0, <1>1 DEF Tracked
  <2>3. /\ IsFiniteSet(Tracked(events) \cup {k})
        /\ Cardinality(Tracked(events) \cup {k}) <= Cardinality(Tracked(events)) + 1
    <3>1. /\ IsFiniteSet(Tracked(events) \cup {k})
          /\ Cardinality(Tracked(events) \cup {k}) =
               IF k \in Tracked(events) THEN Cardinality(Tracked(events))
               ELSE Cardinality(Tracked(events)) + 1
      BY <2>1, FS_AddElement
    <3> QED BY <2>1, <3>1
  <2>4. /\ IsFiniteSet(Tracked(table))
        /\ Cardinality(Tracked(table)) <= Cardinality(Tracked(events) \cup {k})
        /\ Cardinality(Tracked(events) \cup {k}) \in Nat /\ Cardinality(Tracked(table)) \in Nat
    BY <2>2, <2>3, FS_Subset, FS_CardinalityType
  <2> QED BY <2>1, <2>3, <2>4 DEF Tracked
<1>8. /\ totals' \in [Keys -> Nat]
      /\ mode' = mode /\ now' = now /\ step' = step
      /\ pending' \subseteq [by : Int, key : Keys \cup {Health}, wall : Int, read : Nat]
      /\ ClocksWereRead'
  <2>1. totals' \in [Keys -> Nat]
    BY <1>0, <1>1, <1>a
  <2>2. ClocksWereRead'
    BY DEF LimitInv, ClocksWereRead
  <2> QED BY <2>1, <2>2 DEF LimitInv, LimitTypeOK
<1>9. CASE ~(Cardinality(Tracked(table)) > MaxTrackedKeys)
  <2>1. events' = table /\ admitted' = log /\ uncounted' = uncounted
    BY <1>9, <1>a
  <2> HIDE DEF table, log
  <2>2. Cardinality(Tracked(table)) <= MaxTrackedKeys
    <3>1. Cardinality(Tracked(table)) \in Nat /\ MaxTrackedKeys \in Nat
      BY <1>7, FS_CardinalityType, LimitAssumption
    <3> QED BY <1>9, <3>1
  <2>3. /\ LimitTypeOK' /\ IsFiniteSet(Tracked(events')) /\ KeysAreBounded'
    BY <1>1, <1>5, <1>7, <1>8, <2>1, <2>2 DEF LimitTypeOK, KeysAreBounded, Tracked
  <2>4. BudgetHolds'
    BY <1>1, <1>6, <1>8, <2>1 DEF LimitInv, BudgetHolds, WindowsHoldTheBudget, NewcomersAreCounted, Spaced
  <2>5. \A j \in Keys : CountsMatchTheLog(events[j], admitted[j])'
    BY <1>5, <1>8, <2>1 DEF CountsMatchTheLog
  <2> QED BY <1>8, <2>3, <2>4, <2>5 DEF LimitInv, Tracked
<1>10. CASE Cardinality(Tracked(table)) > MaxTrackedKeys
  <2>1. PICK v \in Stalest(table, k) :
          /\ events' = [table EXCEPT ![v] = <<>>]
          /\ admitted' = [log EXCEPT ![v] = <<>>]
          /\ uncounted' = (uncounted \/ (v = k /\ \E j \in Tracked(table) \ {k} :
                                          log[j][Len(log[j])].at <= p.read))
    BY <1>10, <1>a
  <2>2. v \in Tracked(table) /\ v \in Keys
    BY <1>7, <2>1 DEF Stalest
  <2>3. counts /\ table[k] = Append(trimmed, p.wall)
    <3>1. ASSUME ~counts PROVE FALSE
      <4>1. Tracked(table) \subseteq Tracked(events)
        BY <1>0, <1>1, <1>c, <3>1 DEF Tracked
      <4>2. /\ IsFiniteSet(Tracked(events)) /\ Cardinality(Tracked(events)) \in Nat
            /\ Cardinality(Tracked(events)) <= MaxTrackedKeys /\ MaxTrackedKeys \in Nat
        BY FS_CardinalityType, LimitAssumption DEF LimitInv, KeysAreBounded
      <4>3. Cardinality(Tracked(table)) <= Cardinality(Tracked(events)) /\ Cardinality(Tracked(table)) \in Nat
        BY <1>7, <4>1, <4>2, FS_Subset, FS_CardinalityType
      <4> HIDE DEF table
      <4> QED BY <1>10, <4>2, <4>3
    <3> QED BY <1>0, <1>1, <3>1
  <2>4. ASSUME v = k, step = 0, NEW j \in Tracked(table) \ {k}
        PROVE  ~(log[j][Len(log[j])].at <= p.read)
    <3>1. table[k][Len(table[k])] < table[j][Len(table[j])]
      BY <2>1, <2>4 DEF Stalest
    <3>2. table[k][Len(table[k])] = p.wall
      BY <1>0, <1>2, <2>3, AppendProperties
    <3>3. /\ table[j] \in Seq(Int) /\ table[j] # <<>> /\ log[j] \in Seq(Admissions)
          /\ CountsMatchTheLog(table[j], log[j])
      BY <1>5, <1>7, <2>4 DEF Tracked
    <3> HIDE DEF table, log
    <3>4. Len(table[j]) \in 1..Len(table[j]) /\ Len(table[j]) \in Nat
      BY <3>3
    <3>5. Len(log[j]) - Len(table[j]) + Len(table[j]) = Len(log[j]) /\ Len(log[j]) \in 1..Len(log[j])
      BY <3>3, <3>4 DEF CountsMatchTheLog
    <3>6. /\ log[j][Len(log[j])].read <= log[j][Len(log[j])].at
          /\ log[j][Len(log[j])].read \in Nat /\ log[j][Len(log[j])].at \in Nat
      BY <3>3, <3>5, LogsAreTimes DEF CountsMatchTheLog
    <3>7. log[j][Len(log[j])].read \in table[j][Len(table[j])]..(table[j][Len(table[j])] + step)
      BY <3>3, <3>4, <3>5 DEF CountsMatchTheLog
    <3>8. table[j][Len(table[j])] \in Int
      BY <3>3, <3>4
    <3> QED BY <1>0, <2>4, <3>1, <3>2, <3>6, <3>7, <3>8
  <2>a. uncounted' => uncounted \/ step > 0
    <3>1. ASSUME uncounted', ~uncounted PROVE step > 0
      <4>1. v = k /\ \E j \in Tracked(table) \ {k} : log[j][Len(log[j])].at <= p.read
        <5> HIDE DEF table, log
        <5> QED BY <2>1, <3>1
      <4>2. step # 0
        <5> HIDE DEF table, log
        <5> QED BY <2>4, <4>1
      <4> QED BY <1>1, <4>2
    <3> QED BY <3>1
  <2> HIDE DEF table, log
  <2>5. /\ events' \in [Keys -> Seq(Int)] /\ admitted' \in [Keys -> Seq(Admissions)]
        /\ \A j \in Keys \ {v} : events'[j] = table[j] /\ admitted'[j] = log[j]
        /\ events'[v] = <<>> /\ admitted'[v] = <<>> /\ uncounted' \in BOOLEAN
    BY <1>1, <1>5, <2>1, <2>2
  <2>6. IsFiniteSet(Tracked(events')) /\ Cardinality(Tracked(events')) <= MaxTrackedKeys
    <3>1. Tracked(events') = Tracked(table) \ {v}
      BY <2>2, <2>5 DEF Tracked
    <3>2. /\ IsFiniteSet(Tracked(table) \ {v})
          /\ Cardinality(Tracked(table) \ {v}) = Cardinality(Tracked(table)) - 1
      BY <1>7, <2>2, FS_RemoveElement
    <3>3. Cardinality(Tracked(table)) \in Nat /\ MaxTrackedKeys \in Nat
      BY <1>7, FS_CardinalityType, LimitAssumption
    <3> QED BY <1>7, <3>1, <3>2, <3>3
  <2>7. LimitTypeOK' /\ KeysAreBounded'
    BY <1>1, <1>8, <2>5, <2>6 DEF LimitTypeOK, KeysAreBounded, Tracked
  <2>8. BudgetHolds'
    <3>1. Spaced(<<>>)
      BY LimitAssumption DEF Spaced
    <3>2. mode = "block" => \A j \in Keys : Spaced(admitted'[j])
      BY <1>6, <2>5, <3>1
    <3>3. uncounted' => step > 0
      BY <2>a DEF LimitInv, BudgetHolds, NewcomersAreCounted
    <3> QED BY <1>8, <3>2, <3>3 DEF BudgetHolds, WindowsHoldTheBudget, NewcomersAreCounted, Spaced
  <2>9. ASSUME NEW j \in Keys PROVE CountsMatchTheLog(events[j], admitted[j])'
    <3>1. CASE j = v
      BY <1>8, <2>5, <3>1 DEF CountsMatchTheLog
    <3>2. CASE j # v
      <4>1. CountsMatchTheLog(table[j], log[j]) /\ events'[j] = table[j] /\ admitted'[j] = log[j]
        BY <1>5, <2>5, <3>2
      <4> QED BY <1>8, <4>1 DEF CountsMatchTheLog
    <3> QED BY <3>1, <3>2
  <2> QED BY <1>8, <2>6, <2>7, <2>8, <2>9 DEF LimitInv, Tracked
<1> QED BY <1>9, <1>10

\* A thread reads the clock; nothing is counted yet.
LEMMA ReadClockKeepsInv ==
  ASSUME LimitInv, NEW by \in Int, NEW k \in Keys \cup {Health}, ReadClock(by, k)
  PROVE  LimitInv'
<1> DEFINE q == [by |-> by, key |-> k, wall |-> Wall, read |-> now]
<1>1. /\ now \in Nat /\ step \in Nat /\ Wall = now - step
      /\ pending' = pending \cup {q}
      /\ UNCHANGED <<mode, now, step, events, totals, admitted, uncounted>>
  BY LimitAssumption DEF ReadClock, LimitInv, LimitTypeOK, Wall
<1>2. /\ q \in [by : Int, key : Keys \cup {Health}, wall : Int, read : Nat]
      /\ q.read <= now /\ q.read \in q.wall..(q.wall + step)
  BY <1>1
<1> HIDE DEF q
<1>3. LimitTypeOK' /\ ClocksWereRead'
  BY <1>1, <1>2 DEF LimitInv, LimitTypeOK, ClocksWereRead
<1> QED BY <1>1, <1>3 DEF LimitInv, KeysAreBounded, BudgetHolds,
      WindowsHoldTheBudget, NewcomersAreCounted, Spaced, CountsMatchTheLog, Tracked

\* A call is charged when its thread has the lock.
LEMMA ChargeKeepsInv ==
  ASSUME LimitInv, NEW p \in pending, p.key \in Keys,
         NEW refused \in BOOLEAN, Charge(p, refused)
  PROVE  LimitInv'
<1>1. PICK over \in BOOLEAN : Record(p, over)
  BY DEF Charge
<1>2. pending' \subseteq pending /\ UNCHANGED <<mode, now, step>>
  BY DEF Charge
<1> QED BY <1>1, <1>2, RecordKeepsInv

\* A report trims every key.
LEMMA ReportKeepsInv ==
  ASSUME LimitInv, NEW p \in pending, Report(p)
  PROVE  LimitInv'
<1>1. now \in Nat /\ step \in Nat
  BY LimitAssumption DEF LimitInv, LimitTypeOK
<1>2. ReadAs(p.wall, p.read) /\ p.wall \in Int
  BY PendingIsRead DEF ReadAs
<1>3. ASSUME NEW k \in Keys
      PROVE  Trim(events[k], p.wall) \in Seq(Int) /\ CountsMatchTheLog(Trim(events[k], p.wall), admitted[k])
  BY <1>1, <1>2, TrimKeepsCounts DEF LimitInv, LimitTypeOK
<1>4. /\ events' = [k \in Keys |-> Trim(events[k], p.wall)] /\ pending' \subseteq pending
      /\ UNCHANGED <<mode, now, step, totals, admitted, uncounted>>
  BY DEF Report
<1>5. Tracked(events') \subseteq Tracked(events)
  BY <1>2, <1>4, TrimKeepsEmpty DEF Tracked
<1>6. IsFiniteSet(Tracked(events')) /\ Cardinality(Tracked(events')) <= MaxTrackedKeys
  <2>1. IsFiniteSet(Tracked(events)) /\ Cardinality(Tracked(events)) <= MaxTrackedKeys
    BY DEF LimitInv, KeysAreBounded
  <2>2. IsFiniteSet(Tracked(events')) /\ Cardinality(Tracked(events')) <= Cardinality(Tracked(events))
    BY <1>5, <2>1, FS_Subset
  <2>3. /\ Cardinality(Tracked(events')) \in Nat /\ Cardinality(Tracked(events)) \in Nat
        /\ MaxTrackedKeys \in Nat
    BY <2>1, <2>2, FS_CardinalityType, LimitAssumption
  <2> QED BY <2>1, <2>2, <2>3
<1>7. LimitTypeOK'
  BY <1>3, <1>4 DEF LimitInv, LimitTypeOK
<1>8. KeysAreBounded' /\ IsFiniteSet(Tracked(events))'
  BY <1>6 DEF KeysAreBounded, Tracked
<1>9. BudgetHolds' /\ ClocksWereRead'
  BY <1>4 DEF LimitInv, BudgetHolds, WindowsHoldTheBudget, NewcomersAreCounted, Spaced, ClocksWereRead
<1>10. \A k \in Keys : CountsMatchTheLog(events[k], admitted[k])'
  BY <1>3, <1>4 DEF CountsMatchTheLog
<1> QED BY <1>7, <1>8, <1>9, <1>10 DEF LimitInv

\* Time goes on, or the clock is set back.
LEMMA ClockKeepsInv ==
  ASSUME LimitInv, Tick \/ ClockSetBack
  PROVE  LimitInv'
<1>1. /\ now \in Nat /\ step \in Nat /\ now' \in Nat /\ step' \in 0..MaxStep /\ step' \in Nat
      /\ now <= now' /\ step <= step'
      /\ UNCHANGED <<mode, pending, events, totals, admitted, uncounted>>
  BY LimitAssumption DEF Tick, ClockSetBack, LimitInv, LimitTypeOK
<1>2. /\ LimitTypeOK' /\ KeysAreBounded' /\ IsFiniteSet(Tracked(events))'
  BY <1>1 DEF LimitInv, LimitTypeOK, KeysAreBounded, Tracked
<1>3. WindowsHoldTheBudget'
  <2>1. SUFFICES ASSUME mode = "block", NEW k \in Keys,
                        NEW i \in 1..(Len(admitted[k]) - MaxCalls)
                 PROVE  admitted[k][i].read + Window <= admitted[k][i + MaxCalls].at + step'
    BY <1>1 DEF WindowsHoldTheBudget, Spaced
  <2>2. admitted[k][i].read + Window <= admitted[k][i + MaxCalls].at + step
    BY <2>1 DEF LimitInv, BudgetHolds, WindowsHoldTheBudget, Spaced
  <2>3. /\ admitted[k] \in Seq(Admissions) /\ MaxCalls \in Nat \ {0} /\ Window \in Nat
    BY LimitAssumption DEF LimitInv, LimitTypeOK
  <2>4. i \in 1..Len(admitted[k]) /\ i + MaxCalls \in 1..Len(admitted[k])
    BY <2>3
  <2>5. admitted[k][i].read \in Nat /\ admitted[k][i + MaxCalls].at \in Nat
    BY <2>3, <2>4, LogsAreTimes
  <2>6. PICK t \in Nat, u \in Nat : t = admitted[k][i].read /\ u = admitted[k][i + MaxCalls].at
    BY <2>5
  <2>7. t + Window <= u + step
    BY <2>2, <2>6
  <2>8. t + Window <= u + step'
    <3>1. step \in Nat /\ step' \in Nat /\ step <= step' /\ Window \in Nat
      BY <1>1, <2>3
    <3>2. \A m, n, p, q, r \in Nat : m + n <= p + q /\ q <= r => m + n <= p + r
      OBVIOUS
    <3> QED BY <2>7, <3>1, <3>2
  <2> QED BY <2>6, <2>8
<1>4. BudgetHolds'
  BY <1>1, <1>3 DEF LimitInv, BudgetHolds, NewcomersAreCounted
<1>5. ClocksWereRead'
  <2>1. ASSUME NEW p \in pending PROVE p.read <= now' /\ p.read \in p.wall..(p.wall + step')
    <3>1. /\ p.read <= now /\ p.read \in p.wall..(p.wall + step)
          /\ p.wall \in Int /\ p.read \in Nat
      BY PendingIsRead DEF ReadAs
    <3> QED BY <1>1, <3>1
  <2> QED BY <1>1, <2>1 DEF ClocksWereRead
<1>6. ASSUME NEW k \in Keys PROVE CountsMatchTheLog(events[k], admitted[k])'
  <2> DEFINE ev == events[k]
             log == admitted[k]
             old == Len(log) - Len(ev)
  <2>1. /\ ev \in Seq(Int) /\ log \in Seq(Admissions) /\ events'[k] = ev /\ admitted'[k] = log
        /\ CountsMatchTheLog(ev, log)
    BY <1>1 DEF LimitInv, LimitTypeOK
  <2> HIDE DEF ev, log
  <2>2. /\ \A i \in 1..Len(ev) : ev[i] \in Int
        /\ \A i \in 1..Len(log) : log[i].read \in Nat /\ log[i].at \in Nat
        /\ Window \in Nat
    BY <2>1, LimitAssumption, LogsAreTimes
  <2>3. /\ old \in Nat
        /\ \A i \in 1..Len(log) :
             /\ log[i].read <= log[i].at /\ log[i].at <= now'
             /\ \A j \in 1..i : log[j].at <= log[i].at
    BY <1>1, <2>1, <2>2 DEF CountsMatchTheLog
  <2>4. ASSUME NEW i \in 1..Len(ev) PROVE log[old + i].read \in ev[i]..(ev[i] + step')
    <3>1. log[old + i].read \in ev[i]..(ev[i] + step) /\ ev[i] \in Int
      BY <2>1, <2>2 DEF CountsMatchTheLog
    <3> QED BY <1>1, <3>1
  <2>5. ASSUME NEW i \in 1..old PROVE log[i].read + Window <= now' + step'
    <3>1. i \in 1..Len(log)
      BY <2>1, <2>3
    <3>2. log[i].read \in Nat /\ log[i].read + Window <= now + step
      BY <2>1, <2>2, <3>1 DEF CountsMatchTheLog
    <3> QED BY <1>1, <2>2, <3>2
  <2> QED BY <2>1, <2>3, <2>4, <2>5 DEF CountsMatchTheLog
<1> QED BY <1>2, <1>4, <1>5, <1>6 DEF LimitInv

\* The limiter is as it was.
LEMMA StutteringKeepsLimitInv == LimitInv /\ UNCHANGED limitVars => LimitInv'
BY DEF LimitInv, limitVars, LimitTypeOK, Tracked, KeysAreBounded, BudgetHolds,
       WindowsHoldTheBudget, NewcomersAreCounted, Spaced, CountsMatchTheLog, ClocksWereRead

\* Each step of the limiter on its own.
LEMMA LimitNextKeepsInv ==
  ASSUME LimitInv, LimitNext, Threads \subseteq Int
  PROVE  LimitInv'
<1>1. ASSUME NEW by \in Threads, AskReport(by) PROVE LimitInv'
  BY <1>1, ReadClockKeepsInv DEF AskReport
<1>2. ASSUME NEW by \in Threads, NEW k \in Keys, ToolCall(by, k) PROVE LimitInv'
  BY <1>2, ReadClockKeepsInv, StutteringKeepsLimitInv DEF ToolCall
<1>3. ASSUME NEW p \in pending, ToolCharge(p) PROVE LimitInv'
  BY <1>3, ChargeKeepsInv DEF ToolCharge
<1>4. ASSUME NEW p \in pending, Report(p) PROVE LimitInv'
  BY <1>4, ReportKeepsInv
<1> QED BY <1>1, <1>2, <1>3, <1>4, ClockKeepsInv DEF LimitNext

\* Nothing is tracked at the start.
LEMMA LimitInitHasInv == LimitInit => LimitInv
<1> SUFFICES ASSUME LimitInit PROVE LimitInv
  OBVIOUS
<1>1. \A k \in Keys : events[k] = <<>> /\ admitted[k] = <<>>
  BY DEF LimitInit
<1>2. Tracked(events) = {}
  BY <1>1 DEF Tracked
<1>3. IsFiniteSet(Tracked(events)) /\ KeysAreBounded
  BY <1>2, FS_EmptySet, LimitAssumption DEF KeysAreBounded
<1>4. LimitTypeOK /\ ClocksWereRead
  <2>1. 0 \in 0..MaxStep /\ 0 \in Nat
    BY LimitAssumption
  <2>2. <<>> \in Seq(Int) /\ <<>> \in Seq(Admissions)
    OBVIOUS
  <2> QED BY <2>1, <2>2 DEF LimitInit, LimitTypeOK, ClocksWereRead
<1>5. BudgetHolds
  BY <1>1, LimitAssumption DEF LimitInit, BudgetHolds, WindowsHoldTheBudget, NewcomersAreCounted, Spaced
<1>6. \A k \in Keys : CountsMatchTheLog(events[k], admitted[k])
  BY <1>1 DEF LimitInit, CountsMatchTheLog
<1> QED BY <1>3, <1>4, <1>5, <1>6 DEF LimitInv

\* A call over budget finds MaxCalls events in the window that ends when it read
\* the clock, and each stands for a call in the log.
LEMMA RefusalIsEarned ==
  ASSUME LimitInv, NEW p \in pending, p.key \in Keys, NEW over \in BOOLEAN, Record(p, over),
         totals'[p.key] > totals[p.key]
  PROVE  LastCameAfter(p.key, MaxCalls, p.read - Window - step)
<1> DEFINE k == p.key
           ev == events[k]
           log == admitted[k]
           trimmed == Trim(ev, p.wall)
           start == Len(log) - MaxCalls
<1>0. /\ p.wall \in Int /\ p.read \in Nat /\ p.read \in p.wall..(p.wall + step)
  BY PendingIsRead DEF ReadAs
<1>1. over /\ Len(trimmed) >= MaxCalls
  BY DEF Record, LimitInv, LimitTypeOK
<1>2. /\ ev \in Seq(Int) /\ log \in Seq(Admissions) /\ step \in Nat
      /\ CountsMatchTheLog(ev, log)
      /\ MaxCalls \in Nat \ {0} /\ Window \in Nat \ {0}
  BY LimitAssumption DEF LimitInv, LimitTypeOK
<1>3. PICK d \in 0..Len(ev) :
        /\ Len(trimmed) = Len(ev) - d
        /\ d < Len(ev) => ev[d + 1] > p.wall - Window
  BY <1>0, <1>2, TrimDropsTheFront
<1> HIDE DEF trimmed, ev, log
<1> DEFINE first == (Len(log) - Len(ev)) + (d + 1)
<1>4. /\ Len(log) - Len(ev) >= 0
      /\ \A i \in 1..Len(log) : log[i].read <= log[i].at /\ \A m \in 1..i : log[m].at <= log[i].at
      /\ \A i \in 1..Len(ev) : log[(Len(log) - Len(ev)) + i].read \in ev[i]..(ev[i] + step)
  BY <1>2 DEF CountsMatchTheLog
<1>5. /\ d + 1 \in 1..Len(ev) /\ ev[d + 1] > p.wall - Window /\ ev[d + 1] \in Int
      /\ first \in 1..Len(log) /\ start >= 0 /\ first <= start + 1
      /\ Len(log) \in Nat
  <2>1. Len(ev) \in Nat /\ Len(log) \in Nat
    BY <1>2
  <2>2. d + 1 \in 1..Len(ev) /\ ev[d + 1] > p.wall - Window /\ ev[d + 1] \in Int
    BY <1>1, <1>2, <1>3
  <2>3. MaxCalls <= Len(ev) - d /\ MaxCalls \in Nat \ {0} /\ Len(ev) <= Len(log)
    BY <1>1, <1>2, <1>3, <1>4, <2>1
  <2> QED BY <2>1, <2>2, <2>3
<1>a. \A i \in 1..Len(log) : log[i].read \in Nat /\ log[i].at \in Nat
  BY <1>2, LogsAreTimes
<1>6. log[first].at > p.read - Window - step
  <2>1. log[first].read \in ev[d + 1]..(ev[d + 1] + step) /\ log[first].read <= log[first].at
    BY <1>4, <1>5
  <2>2. log[first].read \in Nat /\ log[first].at \in Nat
    BY <1>5, <1>a
  <2>3. PICK e \in Int, t \in Nat, u \in Nat :
          e = ev[d + 1] /\ t = log[first].read /\ u = log[first].at
    BY <1>5, <2>2
  <2>4. e > p.wall - Window /\ t \in e..(e + step) /\ t <= u
    BY <1>5, <2>1, <2>3
  <2>5. u > p.read - Window - step
    BY <1>0, <1>2, <2>4
  <2> QED BY <2>3, <2>5
<1>7. ASSUME NEW i \in 1..MaxCalls PROVE log[start + i].at > p.read - Window - step
  <2>0. PICK last \in Int : last = start + i
    <3>1. start \in Int /\ i \in Int
      BY <1>2, <1>5
    <3> HIDE DEF start
    <3> QED BY <3>1
  <2>1. last \in 1..Len(log) /\ first \in 1..last
    BY <1>2, <1>5, <2>0
  <2> HIDE DEF start, first
  <2>2. log[first].at <= log[last].at
    BY <1>4, <2>1
  <2>3. log[last].at \in Nat /\ log[first].at \in Nat /\ p.read - Window - step \in Int
    <3>1. log[last].at \in Nat
      BY <1>a, <2>1
    <3>2. log[first].at \in Nat
      BY <1>5, <1>a
    <3>3. p.read - Window - step \in Int
      BY <1>0, <1>2
    <3> QED BY <3>1, <3>2, <3>3
  <2>4. log[last].at > p.read - Window - step
    BY <1>6, <2>2, <2>3
  <2> QED BY <2>0, <2>4
<1>8. Len(log) >= MaxCalls
  BY <1>2, <1>5
<1>9. \A i \in 1..MaxCalls : log[Len(log) - MaxCalls + i].at > p.read - Window - step
  BY <1>7
<1> QED BY <1>8, <1>9 DEF LastCameAfter, log

-----------------------------------------------------------------------------
(* Fan-out queries.                                                        *)

\* The sequence of a finite set names each of its elements once.
LEMMA SetToSeqNamesAll ==
  ASSUME NEW S, IsFiniteSet(S)
  PROVE  /\ Cardinality(S) \in Nat
         /\ SetToSeq(S) \in [1..Cardinality(S) -> S]
         /\ IsInjective(SetToSeq(S)) /\ ToSet(SetToSeq(S)) = S
<1> DEFINE n == Cardinality(S)
           f == SetToSeq(S)
<1>1. n \in Nat /\ ExistsBijection(1..n, S)
  BY FS_CardinalityType
<1>2. \E g \in [1..n -> S] : IsInjective(g)
  BY <1>1 DEF ExistsBijection, Bijection, Injection
<1>3. f \in [1..n -> S] /\ IsInjective(f)
  BY <1>2 DEF SetToSeq
<1>4. IsFiniteSet(1..n) /\ Cardinality(1..n) = n
  BY <1>1, FS_Interval
<1> HIDE DEF f
<1>5. f \in Injection(1..n, S)
  BY <1>3 DEF Injection
<1>6. f \in Surjection(1..n, S)
  BY <1>4, <1>5, FS_Injection
<1>7. ToSet(f) = S
  BY <1>3, <1>6 DEF ToSet, Surjection
<1> QED BY <1>1, <1>3, <1>7 DEF f

\* What is selected, and that a name given once is selected once.
LEMMA SelectionIsRight ==
  ASSUME NEW r \in Requests
  PROVE  /\ IsFiniteSet(DOMAIN Selected(r)) /\ DOMAIN Selected(r) \subseteq Nat
         /\ Selected(r) \in [DOMAIN Selected(r) -> OptedIn]
         /\ IsInjective(r.names) => IsInjective(Selected(r))
         /\ Asked(r) = ToSet(Selected(r)) \cup ToSet(Skipped(r)) \cup ToSet(UnknownNames(r))
<1>1. /\ r.kind \in {"all", "tags", "list"}
      /\ r.names \in Seq(Instances \cup {Unknown})
      /\ r.kind # "list" => r.names = <<>>
      /\ IsFiniteSet(Instances) /\ OptedIn \subseteq Instances /\ Unknown \notin Instances
  BY FleetAssumption DEF OptedIn
<1>2. ASSUME NEW S \in SUBSET OptedIn, Selected(r) = SetToSeq(S), Asked(r) = S, r.names = <<>>
      PROVE  /\ IsFiniteSet(DOMAIN Selected(r)) /\ DOMAIN Selected(r) \subseteq Nat
             /\ Selected(r) \in [DOMAIN Selected(r) -> OptedIn]
             /\ IsInjective(Selected(r))
             /\ Asked(r) = ToSet(Selected(r)) \cup ToSet(Skipped(r)) \cup ToSet(UnknownNames(r))
  <2>1. IsFiniteSet(S)
    BY <1>1, FS_Subset
  <2>2. /\ Cardinality(S) \in Nat
        /\ SetToSeq(S) \in [1..Cardinality(S) -> S]
        /\ IsInjective(SetToSeq(S)) /\ ToSet(SetToSeq(S)) = S
    BY <2>1, SetToSeqNamesAll
  <2>3. DOMAIN Selected(r) = 1..Cardinality(S)
    BY <1>2, <2>2
  <2>4. IsFiniteSet(1..Cardinality(S))
    BY <2>2, FS_Interval
  <2>5. ToSet(Skipped(r)) = {} /\ ToSet(UnknownNames(r)) = {}
    BY <1>2 DEF Skipped, UnknownNames, Named, ToSet
  <2> QED BY <1>2, <2>2, <2>3, <2>4, <2>5
<1>3. CASE r.kind = "all"
  BY <1>1, <1>2, <1>3 DEF Selected, Asked
<1>4. CASE r.kind = "tags"
  <2>1. Selected(r) = SetToSeq(OptedIn \cap Tagged) /\ Asked(r) = OptedIn \cap Tagged
    BY <1>4 DEF Selected, Asked
  <2> QED BY <1>1, <1>2, <1>4, <2>1
<1>5. CASE r.kind = "list"
  <2>1. /\ Selected(r) = Named(r, OptedIn) /\ Asked(r) = ToSet(r.names)
        /\ DOMAIN r.names = 1..Len(r.names) /\ Len(r.names) \in Nat
    BY <1>1, <1>5 DEF Selected, Asked
  <2>2. DOMAIN Selected(r) = {j \in DOMAIN r.names : r.names[j] \in OptedIn}
    BY <2>1 DEF Named
  <2>3. \A j \in DOMAIN Selected(r) : Selected(r)[j] = r.names[j] /\ r.names[j] \in OptedIn
    BY <2>1, <2>2 DEF Named
  <2>4. IsFiniteSet(DOMAIN Selected(r))
    <3>1. IsFiniteSet(1..Len(r.names))
      BY <2>1, FS_Interval
    <3> QED BY <2>1, <2>2, <3>1, FS_Subset
  <2>5. DOMAIN Selected(r) \subseteq Nat
    BY <2>1, <2>2
  <2>6. Selected(r) \in [DOMAIN Selected(r) -> OptedIn]
    BY <2>1, <2>3 DEF Named
  <2>7. IsInjective(r.names) => IsInjective(Selected(r))
    BY <2>2, <2>3 DEF IsInjective
  <2>8. Asked(r) = ToSet(Selected(r)) \cup ToSet(Skipped(r)) \cup ToSet(UnknownNames(r))
    <3>1. ASSUME NEW S PROVE ToSet(Named(r, S)) = ToSet(r.names) \cap S
      BY DEF ToSet, Named
    <3>2. ToSet(r.names) \subseteq Instances \cup {Unknown}
      BY <1>1 DEF ToSet
    <3>3. Instances = OptedIn \cup OptedOut
      BY FleetAssumption DEF OptedIn
    <3> QED BY <2>1, <3>1, <3>2, <3>3 DEF Skipped, UnknownNames
  <2> QED BY <2>4, <2>5, <2>6, <2>7, <2>8
<1> QED BY <1>1, <1>3, <1>4, <1>5

\* A query starts with every worker waiting.
LEMMA StartQueryKeepsQuery ==
  ASSUME QueryInv, NEW op \in Operations, NEW r \in Requests, StartQuery(op, r)
  PROVE  QueryInv'
<1> DEFINE names == Selected(r)
<1>1. /\ IsFiniteSet(DOMAIN names) /\ DOMAIN names \subseteq Nat
      /\ names \in [DOMAIN names -> OptedIn] /\ OptedIn \subseteq Instances
  BY SelectionIsRight DEF OptedIn
<1>2. /\ query'.op = op /\ query'.request = r /\ query'.names = names
      /\ query'.phase = [i \in DOMAIN names |-> "waiting"]
      /\ query'.results = {} /\ query'.errors = {} /\ query'.lost = {}
      /\ query' = [op |-> op, request |-> r, names |-> names,
                   phase |-> [i \in DOMAIN names |-> "waiting"],
                   results |-> {}, errors |-> {}, lost |-> {}]
  BY DEF StartQuery
<1> HIDE DEF names
<1>3. InPhase("asking")' = {} /\ InPhase("done")' = {} /\ Running' = {}
  BY <1>2 DEF InPhase, Running
<1>4. Cardinality(Running') <= MaxWorkers
  <2>1. Cardinality(Running') = 0 /\ MaxWorkers \in Nat
    BY <1>3, FS_EmptySet, FleetAssumption
  <2> QED BY <2>1
<1>5. queries' \in 0..MaxQueries
  BY FleetAssumption DEF StartQuery, QueryInv, QueryTypeOK
<1>6. QueryTypeOK'
  <2>1. /\ names \in [DOMAIN names -> Instances]
        /\ [i \in DOMAIN names |-> "waiting"] \in [DOMAIN names -> Phases]
        /\ op \in Operations \cup {"none"} /\ r \in Requests \cup {NoRequest}
    BY <1>1 DEF Phases
  <2>2. query' \in [op : Operations \cup {"none"}, request : Requests \cup {NoRequest},
                    names : [DOMAIN names -> Instances], phase : [DOMAIN names -> Phases],
                    results : SUBSET Instances, errors : SUBSET Instances, lost : SUBSET Instances]
    BY <1>2, <2>1
  <2> QED BY <1>1, <1>2, <1>4, <1>5, <2>2 DEF QueryTypeOK, Running
<1>7. WorkersFile'
  <2>1. op # "none"
    BY DEF Operations
  <2>2. query'.results \cup query'.errors = {query'.names[i] : i \in InPhase("done")'}
    BY <1>2, <1>3
  <2>3. query'.results \cap query'.errors = {}
    BY <1>2
  <2>4. query'.names = Selected(query'.request)
    BY <1>2 DEF names
  <2> QED BY <1>2, <2>1, <2>2, <2>3, <2>4 DEF WorkersFile
<1>8. OnlyWillingInstancesAreAsked' /\ AggregatesNameLosses'
  BY <1>2, <1>3 DEF OnlyWillingInstancesAreAsked, AggregatesNameLosses
<1> QED BY <1>6, <1>7, <1>8 DEF QueryInv

\* What a worker files when it is done, in the state the invariant speaks of.
LEMMA FilingKeepsQuery ==
  ASSUME QueryInv, NEW i \in DOMAIN query.phase, query.phase[i] # "done",
         query' \in {Failed(i), Answered(i), Lost(i)},
         query' # Failed(i) => query.phase[i] = "asking",
         UNCHANGED queries
  PROVE  QueryInv'
<1> DEFINE n == query.names[i]
           pos == DOMAIN query.names
<1>1. /\ query \in [op : Operations \cup {"none"}, request : Requests \cup {NoRequest},
                    names : [pos -> Instances], phase : [pos -> Phases],
                    results : SUBSET Instances, errors : SUBSET Instances, lost : SUBSET Instances]
      /\ IsFiniteSet(pos) /\ pos \subseteq Nat /\ i \in pos
      /\ Cardinality(Running) <= MaxWorkers /\ queries \in 0..MaxQueries
  BY DEF QueryInv, QueryTypeOK
<1>2. /\ query'.op = query.op /\ query'.request = query.request /\ query'.names = query.names
      /\ query'.phase = [query.phase EXCEPT ![i] = "done"]
      /\ \/ /\ query'.results = query.results /\ query'.errors = query.errors \cup {n}
            /\ query'.lost \subseteq query.lost \cup {n}
         \/ /\ query'.results = query.results \cup {n} /\ query'.errors = query.errors
            /\ query'.lost = query.lost \/ query.op # "aggregate"
            /\ query'.lost \subseteq query.lost \cup {n}
            /\ query.phase[i] = "asking"
  BY <1>1 DEF Failed, Answered, Lost
<1>3. query' \in [op : Operations \cup {"none"}, request : Requests \cup {NoRequest},
                  names : [pos -> Instances], phase : [pos -> Phases],
                  results : SUBSET Instances, errors : SUBSET Instances, lost : SUBSET Instances]
  <2>1. /\ n \in Instances /\ [query.phase EXCEPT ![i] = "done"] \in [pos -> Phases]
        /\ query.results \cup {n} \in SUBSET Instances /\ query.errors \cup {n} \in SUBSET Instances
        /\ query.lost \cup {n} \in SUBSET Instances
    BY <1>1 DEF Phases
  <2> DEFINE Shape == [op : Operations \cup {"none"}, request : Requests \cup {NoRequest},
                       names : [pos -> Instances], phase : [pos -> Phases],
                       results : SUBSET Instances, errors : SUBSET Instances, lost : SUBSET Instances]
  <2>2. Failed(i) \in Shape
    BY <1>1, <2>1 DEF Failed
  <2>3. Answered(i) \in Shape
    BY <1>1, <2>1 DEF Answered
  <2>4. Lost(i) \in Shape
    <3> DEFINE filed == IF query.op = "aggregate" THEN Failed(i) ELSE Answered(i)
    <3>1. filed \in Shape /\ filed.lost = query.lost
      BY <1>1, <2>2, <2>3 DEF Failed, Answered
    <3>2. Lost(i) = [filed EXCEPT !.lost = query.lost \cup {n}]
      BY <3>1 DEF Lost
    <3> HIDE DEF filed
    <3> QED BY <2>1, <3>1, <3>2
  <2> QED BY <2>2, <2>3, <2>4
<1>4. /\ InPhase("done")' = InPhase("done") \cup {i} /\ InPhase("asking")' \subseteq InPhase("asking")
      /\ Running' \subseteq Running
  BY <1>1, <1>2 DEF InPhase, Running
<1>5. Cardinality(Running') <= MaxWorkers
  <2>1. IsFiniteSet(Running)
    BY <1>1, FS_Subset DEF InPhase, Running
  <2>2. /\ Cardinality(Running') <= Cardinality(Running)
        /\ Cardinality(Running') \in Nat /\ Cardinality(Running) \in Nat
    BY <1>4, <2>1, FS_Subset, FS_CardinalityType
  <2> QED BY <1>1, <2>2, FleetAssumption
<1>6. QueryTypeOK'
  BY <1>1, <1>2, <1>3, <1>5 DEF QueryTypeOK, Running
<1>7. WorkersFile'
  <2>1. query'.results \cup query'.errors = {query.names[j] : j \in InPhase("done")} \cup {n}
    BY <1>2 DEF QueryInv, WorkersFile
  <2>2. query'.results \cup query'.errors = {query'.names[j] : j \in InPhase("done")'}
    BY <1>2, <1>4, <2>1
  <2>3. ASSUME IsInjective(query.names) PROVE query'.results \cap query'.errors = {}
    <3>1. n \notin query.results \cup query.errors
      <4>1. \A j \in InPhase("done") : j \in pos /\ query.names[j] # n
        BY <1>1, <2>3 DEF InPhase, IsInjective
      <4> QED BY <4>1 DEF QueryInv, WorkersFile
    <3>2. query.results \cap query.errors = {}
      BY <2>3 DEF QueryInv, WorkersFile
    <3> QED BY <1>2, <3>1, <3>2
  <2> QED BY <1>2, <2>2, <2>3 DEF QueryInv, WorkersFile
<1>8. OnlyWillingInstancesAreAsked'
  <2>1. ASSUME query.phase[i] = "asking" PROVE i \in InPhase("asking")
    BY <1>1, <2>1 DEF InPhase
  <2>2. query'.results \cup {query'.names[j] : j \in InPhase("asking")'}
          \subseteq query.results \cup {query.names[j] : j \in InPhase("asking")}
    BY <1>2, <1>4, <2>1
  <2> QED BY <1>2, <2>2 DEF QueryInv, OnlyWillingInstancesAreAsked
<1>9. AggregatesNameLosses'
  BY <1>2 DEF QueryInv, AggregatesNameLosses
<1> QED BY <1>6, <1>7, <1>8, <1>9 DEF QueryInv

\* A worker that goes on, to the limiter or to ask its instance.
LEMMA WorkingKeepsQuery ==
  ASSUME QueryInv, NEW i \in DOMAIN query.phase, query.phase[i] # "done",
         i \in Running \/ Cardinality(Running) < MaxWorkers,
         NEW ph \in {"charging", "asking"}, ph = "asking" => ~Denies(query.names[i]),
         query' = [query EXCEPT !.phase[i] = ph],
         UNCHANGED queries
  PROVE  QueryInv'
<1> DEFINE n == query.names[i]
           pos == DOMAIN query.names
<1>1. /\ query \in [op : Operations \cup {"none"}, request : Requests \cup {NoRequest},
                    names : [pos -> Instances], phase : [pos -> Phases],
                    results : SUBSET Instances, errors : SUBSET Instances, lost : SUBSET Instances]
      /\ IsFiniteSet(pos) /\ pos \subseteq Nat /\ i \in pos /\ query.phase[i] # "done"
      /\ queries \in 0..MaxQueries /\ Cardinality(Running) <= MaxWorkers
  BY DEF QueryInv, QueryTypeOK
<1>2. /\ query'.op = query.op /\ query'.request = query.request /\ query'.names = query.names
      /\ query'.phase = [query.phase EXCEPT ![i] = ph]
      /\ query'.results = query.results /\ query'.errors = query.errors
      /\ query'.lost = query.lost
  BY <1>1
<1>3. query' \in [op : Operations \cup {"none"}, request : Requests \cup {NoRequest},
                  names : [pos -> Instances], phase : [pos -> Phases],
                  results : SUBSET Instances, errors : SUBSET Instances, lost : SUBSET Instances]
  <2>1. [query.phase EXCEPT ![i] = ph] \in [pos -> Phases]
    BY <1>1 DEF Phases
  <2> QED BY <1>1, <2>1
<1>4. /\ InPhase("done")' = InPhase("done") /\ Running' = Running \cup {i}
      /\ InPhase("asking")' \subseteq InPhase("asking") \cup (IF ph = "asking" THEN {i} ELSE {})
  BY <1>1, <1>2 DEF InPhase, Running
<1>5. Cardinality(Running') <= MaxWorkers
  <2>1. IsFiniteSet(Running)
    BY <1>1, FS_Subset DEF InPhase, Running
  <2>2. /\ Cardinality(Running \cup {i}) = IF i \in Running THEN Cardinality(Running)
                                           ELSE Cardinality(Running) + 1
        /\ Cardinality(Running) \in Nat
    BY <2>1, FS_AddElement, FS_CardinalityType
  <2>3. Cardinality(Running \cup {i}) <= MaxWorkers
    BY <1>1, <2>2, FleetAssumption
  <2> QED BY <1>4, <2>3
<1>6. QueryTypeOK'
  BY <1>1, <1>2, <1>3, <1>5 DEF QueryTypeOK, Running
<1>7. WorkersFile'
  <2>1. query'.results \cup query'.errors = {query'.names[j] : j \in InPhase("done")'}
    BY <1>2, <1>4 DEF QueryInv, WorkersFile
  <2> QED BY <1>2, <2>1 DEF QueryInv, WorkersFile
<1>8. OnlyWillingInstancesAreAsked'
  <2>1. n \in OptedIn
    <3>1. query.request \in Requests /\ query.names = Selected(query.request)
      <4>1. ASSUME query.op = "none" PROVE FALSE
        \* Before the first query there is no worker.
        <5>1. query.names = <<>> /\ i \in DOMAIN query.names
          BY <1>1, <4>1 DEF QueryInv, WorkersFile
        <5> QED BY <5>1
      <4> QED BY <4>1 DEF QueryInv, WorkersFile
    <3>2. query.names \in [pos -> OptedIn]
      BY <3>1, SelectionIsRight
    <3> QED BY <1>1, <3>2
  <2>2. ASSUME NEW j \in InPhase("asking")'
        PROVE  /\ query.names[j] \notin OptedOut
               /\ query.op = "aggregate" => query.names[j] \notin Denied
    <3>1. CASE j \in InPhase("asking")
      BY <3>1 DEF QueryInv, OnlyWillingInstancesAreAsked
    <3>2. CASE j = i /\ ph = "asking"
      BY <2>1, <3>2 DEF OptedIn, Denies
    <3> QED BY <1>4, <2>2, <3>1, <3>2
  <2>3. \A m \in query.results : m \notin OptedOut /\ (query.op = "aggregate" => m \notin Denied)
    BY DEF QueryInv, OnlyWillingInstancesAreAsked
  <2> QED BY <1>2, <2>2, <2>3 DEF OnlyWillingInstancesAreAsked
<1>9. AggregatesNameLosses'
  BY <1>2 DEF QueryInv, AggregatesNameLosses
<1> QED BY <1>6, <1>7, <1>8, <1>9 DEF QueryInv

\* The query is as it was.
LEMMA UnaskedKeepsQuery ==
  ASSUME QueryInv, UNCHANGED <<query, queries>>
  PROVE  QueryInv'
BY DEF QueryInv, QueryTypeOK, WorkersFile, OnlyWillingInstancesAreAsked, AggregatesNameLosses,
       InPhase, Running

\* Each step of the cross-instance tools and of the rest of the server.
LEMMA FleetNextKeepsInv == FleetInv /\ [Next]_vars => FleetInv'
<1> SUFFICES ASSUME FleetInv, [Next]_vars PROVE FleetInv'
  OBVIOUS
<1> USE DEF FleetInv
<1>0. /\ InPhase("waiting") \in SUBSET Nat /\ \A p : InPhase(p) \subseteq DOMAIN query.phase
      /\ DOMAIN query.phase = DOMAIN query.names
      /\ \A i \in DOMAIN query.names : query.names[i] \in Keys
  BY FleetAssumption DEF QueryInv, QueryTypeOK, InPhase
<1>1. ASSUME NEW op \in Operations, NEW r \in Requests, StartQuery(op, r) PROVE FleetInv'
  <2>1. UNCHANGED limitVars
    BY <1>1 DEF StartQuery
  <2> QED BY <1>1, <2>1, StartQueryKeepsQuery, StutteringKeepsLimitInv
<1>a. ASSUME NEW i \in DOMAIN query.phase, query.phase[i] # "done",
             i \in Running \/ Cardinality(Running) < MaxWorkers,
             query' = Goes(i), queries' = queries
      PROVE  QueryInv'
  <2>1. CASE Denies(query.names[i])
    BY <1>a, <2>1, FilingKeepsQuery DEF Goes
  <2>2. CASE ~Denies(query.names[i])
    BY <1>a, <2>2, WorkingKeepsQuery DEF Goes
  <2> QED BY <2>1, <2>2
<1>2. ASSUME NEW connected \in BOOLEAN, StartWorker(connected) PROVE FleetInv'
  <2> DEFINE i == Min(InPhase("waiting"))
  <2>1. /\ InPhase("waiting") # {} /\ Cardinality(Running) < MaxWorkers
        /\ \/ query' = Failed(i) /\ UNCHANGED limitVars
           \/ query' = Goes(i) /\ UNCHANGED limitVars
           \/ ReadClock(i, query.names[i]) /\ query' = [query EXCEPT !.phase[i] = "charging"]
        /\ queries' = queries
    BY <1>2 DEF StartWorker
  <2>2. i \in InPhase("waiting")
    <3>1. \E m \in InPhase("waiting") : \A j \in InPhase("waiting") : m <= j
      BY <1>0, <2>1, LeastNumber
    <3> QED BY <3>1 DEF Min
  <2> HIDE DEF i
  <2>3. /\ i \in DOMAIN query.phase /\ query.phase[i] # "done" /\ i \in Int
        /\ query.names[i] \in Keys
    BY <1>0, <2>2 DEF InPhase
  <2>4. LimitInv'
    <3>1. CASE UNCHANGED limitVars
      BY <3>1, StutteringKeepsLimitInv
    <3>2. CASE ReadClock(i, query.names[i])
      BY <2>3, <3>2, ReadClockKeepsInv
    <3> QED BY <2>1, <3>1, <3>2
  <2>5. QueryInv'
    <3>1. CASE query' = Failed(i)
      BY <2>1, <2>3, <3>1, FilingKeepsQuery
    <3>2. CASE query' = Goes(i)
      BY <1>a, <2>1, <2>3, <3>2
    <3>3. CASE query' = [query EXCEPT !.phase[i] = "charging"]
      BY <2>1, <2>3, <3>3, WorkingKeepsQuery
    <3> QED BY <2>1, <3>1, <3>2, <3>3
  <2> QED BY <2>4, <2>5
<1>b. ASSUME NEW i \in DOMAIN query.phase, ChargeWorker(i) PROVE FleetInv'
  <2>1. PICK p \in pending, refused \in BOOLEAN :
          /\ p.key = query.names[i] /\ Charge(p, refused)
          /\ query' = IF refused THEN Failed(i) ELSE Goes(i)
    BY <1>b DEF ChargeWorker
  <2>2. query.phase[i] = "charging" /\ queries' = queries
    BY <1>b DEF ChargeWorker
  <2>3. LimitInv'
    BY <1>0, <2>1, ChargeKeepsInv
  <2>4. i \in Running
    BY <2>2 DEF Running, InPhase
  <2>5. QueryInv'
    <3>1. CASE query' = Failed(i)
      BY <2>2, <3>1, FilingKeepsQuery
    <3>2. CASE query' = Goes(i)
      BY <1>a, <2>2, <2>4, <3>2
    <3> QED BY <2>1, <3>1, <3>2
  <2> QED BY <2>3, <2>5
<1>3. ASSUME NEW i \in DOMAIN query.phase, FinishWorker(i) PROVE FleetInv'
  <2>1. /\ query.phase[i] = "asking" /\ query' \in {Failed(i), Answered(i), Lost(i)}
        /\ UNCHANGED <<limitVars, queries>>
    BY <1>3 DEF FinishWorker
  <2>2. QueryInv'
    BY <2>1, FilingKeepsQuery
  <2> QED BY <2>1, <2>2, StutteringKeepsLimitInv
<1>4. CASE Other
  <2>1. LimitNext /\ UNCHANGED <<query, queries>>
    BY <1>4 DEF Other
  <2>2. LimitInv'
    BY <2>1, LimitNextKeepsInv, FleetAssumption
  <2> QED BY <2>1, <2>2, UnaskedKeepsQuery
<1>5. CASE UNCHANGED vars
  <2>1. UNCHANGED limitVars /\ UNCHANGED <<query, queries>>
    BY <1>5 DEF vars
  <2> QED BY <2>1, StutteringKeepsLimitInv, UnaskedKeepsQuery
<1> QED BY <1>1, <1>2, <1>b, <1>3, <1>4, <1>5 DEF Next

\* There is no query at the start.
LEMMA FleetInitHasInv == Init => FleetInv
<1> SUFFICES ASSUME Init PROVE FleetInv
  OBVIOUS
<1>1. LimitInv
  BY LimitInitHasInv DEF Init
<1>2. /\ query = [op |-> "none", request |-> NoRequest, names |-> <<>>, phase |-> <<>>,
                  results |-> {}, errors |-> {}, lost |-> {}]
      /\ queries = 0
  BY DEF Init
<1>3. InPhase("asking") = {} /\ InPhase("done") = {} /\ Running = {} /\ DOMAIN query.names = {}
  BY <1>2 DEF InPhase, Running
<1>4. QueryTypeOK
  <2>1. /\ query.names \in [DOMAIN query.names -> Instances]
        /\ query.phase \in [DOMAIN query.names -> Phases]
    BY <1>2, <1>3
  <2>2. query \in [op : Operations \cup {"none"}, request : Requests \cup {NoRequest},
                   names : [DOMAIN query.names -> Instances],
                   phase : [DOMAIN query.names -> Phases],
                   results : SUBSET Instances, errors : SUBSET Instances, lost : SUBSET Instances]
    BY <1>2, <2>1
  <2>3. /\ Cardinality(Running) <= MaxWorkers /\ queries \in 0..MaxQueries
    <3>1. Cardinality({}) = 0
      BY FS_EmptySet
    <3>2. Cardinality(Running) = 0
      BY <1>3, <3>1
    <3>3. MaxWorkers \in Nat /\ MaxQueries \in Nat
      BY FleetAssumption
    <3> QED BY <1>2, <3>2, <3>3
  <2>4. IsFiniteSet(DOMAIN query.names) /\ DOMAIN query.names \subseteq Nat
    BY <1>3, FS_EmptySet
  <2> QED BY <2>2, <2>3, <2>4 DEF QueryTypeOK
<1>5. WorkersFile /\ OnlyWillingInstancesAreAsked /\ AggregatesNameLosses
  BY <1>2, <1>3 DEF WorkersFile, OnlyWillingInstancesAreAsked, AggregatesNameLosses
<1> QED BY <1>1, <1>4, <1>5 DEF FleetInv, QueryInv

\* The envelope follows from what the workers filed.
LEMMA InstancesAreAccountedFor == QueryInv => EachInstanceIsAccountedFor
<1> DEFINE r == query.request
           pos == DOMAIN query.names
<1> SUFFICES ASSUME QueryInv, query.op # "none", Complete, IsInjective(r.names)
             PROVE  /\ query.results \cap query.errors = {}
                    /\ Asked(r) = query.results \cup query.errors \cup ToSet(Skipped(r))
                                    \cup ToSet(UnknownNames(r))
                    /\ InstanceCount = Cardinality(DOMAIN query.names)
  BY DEF EachInstanceIsAccountedFor
<1>1. r \in Requests /\ query.names = Selected(r)
  BY DEF QueryInv, WorkersFile
<1>2. /\ IsInjective(query.names) /\ IsFiniteSet(pos)
      /\ Asked(r) = ToSet(query.names) \cup ToSet(Skipped(r)) \cup ToSet(UnknownNames(r))
  BY <1>1, SelectionIsRight
<1>3. query.results \cup query.errors = ToSet(query.names)
  BY DEF Complete, QueryInv, WorkersFile, ToSet
<1>4. query.results \cap query.errors = {}
  BY <1>2 DEF QueryInv, WorkersFile
<1>5. InstanceCount = Cardinality(pos)
  <2>1. query.names \in Bijection(pos, ToSet(query.names))
    <3>1. query.names \in [pos -> Instances]
      BY DEF QueryInv, QueryTypeOK
    <3> QED BY <1>2, <3>1 DEF Bijection, Injection, Surjection, ToSet, IsInjective
  <2>2. IsFiniteSet(ToSet(query.names)) /\ Cardinality(ToSet(query.names)) = Cardinality(pos)
    BY <1>2, <2>1, FS_Bijection DEF ExistsBijection
  <2>3. IsFiniteSet(query.results) /\ IsFiniteSet(query.errors)
    BY <1>3, <2>2, FS_Subset
  <2>4. /\ Cardinality(query.results \cup query.errors) =
             Cardinality(query.results) + Cardinality(query.errors)
               - Cardinality(query.results \cap query.errors)
        /\ Cardinality(query.results \cap query.errors) = 0
        /\ Cardinality(query.results) \in Nat /\ Cardinality(query.errors) \in Nat
    BY <1>4, <2>3, FS_Union, FS_EmptySet, FS_CardinalityType
  <2>5. Cardinality(query.results \cup query.errors) = InstanceCount
    BY <2>4 DEF InstanceCount
  <2> QED BY <1>3, <2>2, <2>5
<1> QED BY <1>2, <1>3, <1>4, <1>5

-----------------------------------------------------------------------------
(* What holds of every behaviour of the cross-instance tools.              *)

\* The inductive invariant of the rate limiter and of the fan-out.
THEOREM FleetInvariant == Spec => []FleetInv
<1>1. Init => FleetInv
  BY FleetInitHasInv
<1>2. FleetInv /\ [Next]_vars => FleetInv'
  BY FleetNextKeepsInv
<1> QED BY <1>1, <1>2, PTL DEF Spec

\* Types, the bound of the limiter's table and that of the worker pool.
THEOREM FleetTypeCorrect == Spec => []FleetTypeOK
<1>1. FleetInv => FleetTypeOK
  BY DEF FleetInv, LimitInv, QueryInv, FleetTypeOK
<1> QED BY <1>1, FleetInvariant, PTL

\* Of MaxCalls + 1 calls of an instance let through one after the other when the
\* limiter blocks, the last has the lock no sooner than a window after the first
\* read the clock, less what the clock was set back: through evictions, fan-outs
\* and threads that come to the lock late, in another order than they read the
\* clock (record, check_rate).
THEOREM BudgetIsKept == Spec => []BudgetHolds
<1>1. FleetInv => BudgetHolds
  BY DEF FleetInv, LimitInv
<1> QED BY <1>1, FleetInvariant, PTL

\* The envelope accounts for every instance of the question once, names each loss
\* of an aggregate, and the question went to no instance that opted out or whose
\* policy denies it (select_instances, _fan_out).
THEOREM EnvelopeIsSound == Spec => []EnvelopeIsRight
<1>1. FleetInv => EnvelopeIsRight
  BY InstancesAreAccountedFor DEF FleetInv, QueryInv, EnvelopeIsRight
<1> QED BY <1>1, FleetInvariant, PTL

\* A call counts as over budget only when MaxCalls calls of its key had the lock
\* within the window that ended when it read the clock, lengthened by no more than
\* the clock was set back (record).
THEOREM RefusalsEarned == Spec => RefusalsAreEarned
<1> DEFINE Earned == \A p \in pending \ pending' :
                       p.key \in Keys /\ totals'[p.key] > totals[p.key] =>
                         LastCameAfter(p.key, MaxCalls, p.read - Window - step)
<1>1. FleetInv /\ [Next]_vars => [Earned]_limitVars
  <2> SUFFICES ASSUME FleetInv, Next, NEW p \in pending, p \notin pending',
                      p.key \in Keys, totals'[p.key] > totals[p.key]
               PROVE  LastCameAfter(p.key, MaxCalls, p.read - Window - step)
    BY DEF vars
  <2>0. totals \in [Keys -> Nat]
    BY DEF FleetInv, LimitInv, LimitTypeOK
  <2>1. totals' # totals
    BY <2>0
  <2>2. \E r \in pending, refused \in BOOLEAN : Charge(r, refused)
    <3>1. CASE LimitNext
      BY <2>1, <3>1 DEF LimitNext, AskReport, ToolCall, ReadClock, ToolCharge, Report,
                       Tick, ClockSetBack, limitVars
    <3>2. ASSUME NEW connected \in BOOLEAN, StartWorker(connected) PROVE FALSE
      BY <2>1, <3>2 DEF StartWorker, ReadClock, limitVars
    <3>3. ASSUME NEW i \in DOMAIN query.phase, ChargeWorker(i)
          PROVE  \E r \in pending, refused \in BOOLEAN : Charge(r, refused)
      BY <3>3 DEF ChargeWorker
    <3> QED BY <2>1, <3>1, <3>2, <3>3 DEF Next, StartQuery, FinishWorker, Other, limitVars
  <2>3. PICK r \in pending : pending' = pending \ {r} /\ \E over \in BOOLEAN : Record(r, over)
    BY <2>2 DEF Charge
  <2>4. r = p
    BY <2>3
  <2> QED BY <2>3, <2>4, RefusalIsEarned DEF FleetInv
<1> QED BY <1>1, FleetInvariant, PTL DEF Spec, RefusalsAreEarned

-----------------------------------------------------------------------------
(* The knowledge index.                                                    *)

\* A set paired with one value has as many elements as before.
LEMMA PairsWithOne ==
  ASSUME NEW S, IsFiniteSet(S), NEW d
  PROVE  IsFiniteSet({d} \X S) /\ Cardinality({d} \X S) = Cardinality(S)
<1> DEFINE f == [s \in S |-> <<d, s>>]
<1>1. f \in Bijection(S, {d} \X S)
  <2>1. f \in [S -> {d} \X S]
    OBVIOUS
  <2>2. \A s, t \in S : f[s] = f[t] => s = t
    OBVIOUS
  <2>3. \A p \in {d} \X S : \E s \in S : f[s] = p
    OBVIOUS
  <2> HIDE DEF f
  <2> QED BY <2>1, <2>2, <2>3 DEF Bijection, Injection, Surjection, IsInjective
<1> QED BY <1>1, FS_Bijection DEF ExistsBijection

\* An index as the state has it, with counters that match its documents.
IsDocuments(docs) == docs \in [Docs -> Versions \cup {Absent}]
IsIndex(ix) ==
  /\ ix = [documents |-> ix.documents, frequency |-> ix.frequency, length |-> ix.length]
  /\ IsDocuments(ix.documents) /\ ix.frequency \in [Terms -> Nat] /\ ix.length \in Nat
  /\ CountsMatch(ix)

\* The text of a record at a version is a finite set of terms.
LEMMA TextIsTerms ==
  ASSUME NEW d \in Docs, NEW v \in Versions \cup {Absent}
  PROVE  /\ Text(d, v) \in SUBSET Terms /\ IsFiniteSet(Text(d, v))
         /\ Cardinality(Text(d, v)) \in Nat /\ Text(d, Absent) = {}
         /\ Absent \notin Versions
<1>1. Absent \notin Versions /\ \A n \in Versions : n \in Nat
  BY IndexAssumption DEF Versions, Absent
<1>2. Text(d, v) \in SUBSET Terms /\ Text(d, Absent) = {}
  BY <1>1, IndexAssumption DEF Text
<1>3. IsFiniteSet(Text(d, v))
  BY <1>2, IndexAssumption, FS_Subset
<1> QED BY <1>1, <1>2, <1>3, FS_CardinalityType

\* The documents with a term, and the occurrences of all terms, are finitely many.
LEMMA CountsAreFinite ==
  ASSUME NEW docs, IsDocuments(docs)
  PROVE  /\ IsFiniteSet(Indexed(docs)) /\ Cardinality(Indexed(docs)) \in Nat
         /\ \A t \in Terms : IsFiniteSet(Containing(docs, t)) /\ Cardinality(Containing(docs, t)) \in Nat
         /\ IsFiniteSet(Occurrences(docs)) /\ Cardinality(Occurrences(docs)) \in Nat
<1>1. IsFiniteSet(Docs) /\ IsFiniteSet(Terms)
  BY IndexAssumption
<1>2. IsFiniteSet(Indexed(docs))
  BY <1>1, FS_Subset DEF Indexed
<1>3. \A t \in Terms : IsFiniteSet(Containing(docs, t))
  BY <1>2, FS_Subset DEF Containing
<1>4. IsFiniteSet(Docs \X Terms)
  BY <1>1, FS_Product
<1>5. IsFiniteSet(Occurrences(docs))
  BY <1>4, FS_Subset DEF Occurrences
<1> QED BY <1>2, <1>3, <1>5, FS_CardinalityType

\* A document that was not there adds its text to the counts, and nothing else.
LEMMA DocumentAddsItsText ==
  ASSUME NEW docs, IsDocuments(docs), NEW d \in Docs, docs[d] = Absent,
         NEW v \in Versions \cup {Absent},
         NEW more, more = [docs EXCEPT ![d] = v]
  PROVE  /\ IsDocuments(more)
         /\ \A t \in Terms : Cardinality(Containing(more, t)) =
              Cardinality(Containing(docs, t)) + (IF t \in Text(d, v) THEN 1 ELSE 0)
         /\ Cardinality(Occurrences(more)) = Cardinality(Occurrences(docs)) + Cardinality(Text(d, v))
<1>1. /\ IsDocuments(more) /\ more[d] = v
      /\ \A e \in Docs \ {d} : more[e] = docs[e]
  BY DEF IsDocuments
<1>2. /\ Text(d, v) \in SUBSET Terms /\ IsFiniteSet(Text(d, v))
      /\ Cardinality(Text(d, v)) \in Nat /\ Absent \notin Versions
  BY TextIsTerms
<1>3. v = Absent => Text(d, v) = {}
  BY DEF Text
<1>4. ASSUME NEW t \in Terms
      PROVE  Cardinality(Containing(more, t)) =
               Cardinality(Containing(docs, t)) + (IF t \in Text(d, v) THEN 1 ELSE 0)
  <2>1. d \notin Containing(docs, t)
    BY DEF Containing, Indexed
  <2>2. IsFiniteSet(Containing(docs, t)) /\ Cardinality(Containing(docs, t)) \in Nat
    BY CountsAreFinite
  <2>3. CASE t \in Text(d, v)
    <3>1. Containing(more, t) = Containing(docs, t) \cup {d}
      BY <1>1, <1>3, <2>3 DEF Containing, Indexed
    <3>2. Cardinality(Containing(docs, t) \cup {d}) = Cardinality(Containing(docs, t)) + 1
      BY <2>1, <2>2, FS_AddElement
    <3> QED BY <2>3, <3>1, <3>2
  <2>4. CASE t \notin Text(d, v)
    <3>1. Containing(more, t) = Containing(docs, t)
      BY <1>1, <2>1, <2>4 DEF Containing, Indexed
    <3> QED BY <2>2, <2>4, <3>1
  <2> QED BY <2>3, <2>4
<1>5. Cardinality(Occurrences(more)) = Cardinality(Occurrences(docs)) + Cardinality(Text(d, v))
  <2> DEFINE own == {d} \X Text(d, v)
  <2>1. Occurrences(more) = Occurrences(docs) \cup own
    <3>1. ASSUME NEW e \in Docs, NEW t \in Terms
          PROVE  e \in Containing(more, t) <=> (e \in Containing(docs, t) \/ (e = d /\ t \in Text(d, v)))
      <4>1. CASE e = d
        BY <1>1, <1>3, <4>1 DEF Containing, Indexed
      <4>2. CASE e # d
        BY <1>1, <4>2 DEF Containing, Indexed
      <4> QED BY <4>1, <4>2
    <3>2. own \subseteq Docs \X Terms
      BY <1>2
    <3>3. ASSUME NEW p \in Docs \X Terms
          PROVE  p \in own <=> p[1] = d /\ p[2] \in Text(d, v)
      OBVIOUS
    <3> HIDE DEF own
    <3>4. ASSUME NEW p \in Docs \X Terms
          PROVE  p \in Occurrences(more) <=> p \in Occurrences(docs) \cup own
      BY <3>1, <3>3 DEF Occurrences
    <3> QED BY <3>2, <3>4 DEF Occurrences
  <2>2. Occurrences(docs) \cap own = {}
    <3>1. \A p \in Occurrences(docs) : p[1] # d
      BY DEF Occurrences, Containing, Indexed
    <3>2. \A p \in own : p[1] = d
      OBVIOUS
    <3> QED BY <3>1, <3>2
  <2>3. /\ IsFiniteSet(own) /\ Cardinality(own) = Cardinality(Text(d, v))
        /\ IsFiniteSet(Occurrences(docs)) /\ Cardinality(Occurrences(docs)) \in Nat
    BY <1>2, PairsWithOne, CountsAreFinite
  <2> HIDE DEF own
  <2>4. Cardinality(Occurrences(docs) \cup own) =
          Cardinality(Occurrences(docs)) + Cardinality(own) - Cardinality(Occurrences(docs) \cap own)
    BY <2>3, FS_Union
  <2>5. Cardinality(Occurrences(docs) \cap own) = 0
    BY <2>2, FS_EmptySet
  <2>6. Cardinality(own) \in Nat
    BY <1>2, <2>3
  <2>7. Cardinality(Occurrences(docs) \cup own) = Cardinality(Occurrences(docs)) + Cardinality(own)
    BY <2>3, <2>4, <2>5, <2>6
  <2> QED BY <2>1, <2>3, <2>7
<1> QED BY <1>1, <1>4, <1>5

\* BM25Index.remove keeps the counters right.
LEMMA RemoveKeepsCounts ==
  ASSUME NEW ix, IsIndex(ix), NEW d \in Docs
  PROVE  /\ IsIndex(RemoveDoc(ix, d))
         /\ RemoveDoc(ix, d).documents = [ix.documents EXCEPT ![d] = Absent]
<1> DEFINE docs == ix.documents
           less == [docs EXCEPT ![d] = Absent]
           text == Text(d, docs[d])
           new == RemoveDoc(ix, d)
<1>1. /\ IsDocuments(docs) /\ ix.frequency \in [Terms -> Nat] /\ ix.length \in Nat
      /\ docs[d] \in Versions \cup {Absent}
      /\ \A t \in Terms : ix.frequency[t] = Cardinality(Containing(docs, t))
      /\ ix.length = Cardinality(Occurrences(docs))
  BY DEF IsIndex, CountsMatch, IsDocuments
<1>2. IsDocuments(less) /\ less[d] = Absent /\ docs = [less EXCEPT ![d] = docs[d]]
  BY <1>1 DEF IsDocuments
<1>3. /\ \A t \in Terms : Cardinality(Containing(docs, t)) =
           Cardinality(Containing(less, t)) + (IF t \in text THEN 1 ELSE 0)
      /\ Cardinality(Occurrences(docs)) = Cardinality(Occurrences(less)) + Cardinality(text)
  BY <1>1, <1>2, DocumentAddsItsText
<1>4. /\ \A t \in Terms : Cardinality(Containing(less, t)) \in Nat
      /\ Cardinality(Occurrences(less)) \in Nat /\ Cardinality(text) \in Nat
  BY <1>1, <1>2, CountsAreFinite, TextIsTerms
<1>5. /\ new.documents = less
      /\ new.frequency = [t \in Terms |-> ix.frequency[t] - (IF t \in text THEN 1 ELSE 0)]
      /\ new.length = ix.length - Cardinality(text)
      /\ new = [documents |-> new.documents, frequency |-> new.frequency, length |-> new.length]
  BY DEF RemoveDoc
<1> HIDE DEF new, less, text
<1>6. \A t \in Terms : new.frequency[t] = Cardinality(Containing(less, t))
  BY <1>1, <1>3, <1>4, <1>5
<1>7. new.length = Cardinality(Occurrences(less))
  BY <1>1, <1>3, <1>4, <1>5
<1>8. new.frequency \in [Terms -> Nat] /\ new.length \in Nat
  BY <1>4, <1>5, <1>6, <1>7
<1> QED BY <1>2, <1>5, <1>6, <1>7, <1>8 DEF IsIndex, CountsMatch, less, new

\* BM25Index.add keeps them right, for a new document and for one replaced.
LEMMA AddKeepsCounts ==
  ASSUME NEW ix, IsIndex(ix), NEW d \in Docs, NEW v \in Versions
  PROVE  /\ IsIndex(AddDoc(ix, d, v))
         /\ AddDoc(ix, d, v).documents = [ix.documents EXCEPT ![d] = v]
<1> DEFINE old == RemoveDoc(ix, d)
           docs == old.documents
           more == [docs EXCEPT ![d] = v]
           text == Text(d, v)
           new == AddDoc(ix, d, v)
<1>1. IsIndex(old) /\ docs = [ix.documents EXCEPT ![d] = Absent] /\ IsDocuments(ix.documents)
  BY RemoveKeepsCounts DEF IsIndex
<1>2. /\ IsDocuments(docs) /\ docs[d] = Absent /\ more = [ix.documents EXCEPT ![d] = v]
      /\ old.frequency \in [Terms -> Nat] /\ old.length \in Nat
      /\ \A t \in Terms : old.frequency[t] = Cardinality(Containing(docs, t))
      /\ old.length = Cardinality(Occurrences(docs))
  BY <1>1 DEF IsIndex, CountsMatch, IsDocuments
<1>3. /\ IsDocuments(more)
      /\ \A t \in Terms : Cardinality(Containing(more, t)) =
           Cardinality(Containing(docs, t)) + (IF t \in text THEN 1 ELSE 0)
      /\ Cardinality(Occurrences(more)) = Cardinality(Occurrences(docs)) + Cardinality(text)
  BY <1>2, DocumentAddsItsText
<1>4. /\ \A t \in Terms : Cardinality(Containing(more, t)) \in Nat
      /\ Cardinality(Occurrences(more)) \in Nat
  BY <1>3, CountsAreFinite
<1>5. /\ new.documents = more
      /\ new.frequency = [t \in Terms |-> old.frequency[t] + (IF t \in text THEN 1 ELSE 0)]
      /\ new.length = old.length + Cardinality(text)
      /\ new = [documents |-> new.documents, frequency |-> new.frequency, length |-> new.length]
  BY DEF AddDoc
<1> HIDE DEF new, more, text, docs, old
<1>6. \A t \in Terms : new.frequency[t] = Cardinality(Containing(more, t))
  BY <1>2, <1>3, <1>5
<1>7. new.length = Cardinality(Occurrences(more))
  BY <1>2, <1>3, <1>5
<1>8. new.frequency \in [Terms -> Nat] /\ new.length \in Nat
  BY <1>4, <1>5, <1>6, <1>7
<1>9. IsIndex(new) /\ new.documents = [ix.documents EXCEPT ![d] = v]
  BY <1>2, <1>3, <1>5, <1>6, <1>7, <1>8 DEF IsIndex, CountsMatch
<1> QED BY <1>9 DEF new

\* What one record fed to an index may do to it.
RecordFed(ix, r, others, new) ==
  /\ IsIndex(new)
  /\ \A d \in Docs : \/ new.documents[d] = ix.documents[d]
                     \/ d = r.id /\ new.documents[d] = r.version
  /\ Cardinality(Indexed(ix.documents)) <= Cardinality(Indexed(new.documents))
  /\ Indexed(ix.documents) \subseteq Indexed(new.documents)
  /\ others + Cardinality(Indexed(ix.documents)) <= MaxDocs =>
       others + Cardinality(Indexed(new.documents)) <= MaxDocs
  /\ HasText(r) =>
       \/ new.documents[r.id] = r.version
       \/ /\ r.id \notin Indexed(ix.documents)
          /\ others + Cardinality(Indexed(new.documents)) >= MaxDocs

\* One record fed to an index by index_records.
LEMMA IndexRecordKeepsCounts ==
  ASSUME NEW ix, IsIndex(ix), NEW r \in Records, NEW others \in Nat
  PROVE  RecordFed(ix, r, others, IndexRecord(ix, r, others))
<1> DEFINE docs == ix.documents
           held == Cardinality(Indexed(docs))
           full == docs[r.id] = Absent /\ others + held >= MaxDocs
<1>0. PICK new : new = IndexRecord(ix, r, others)
  OBVIOUS
<1> SUFFICES RecordFed(ix, r, others, new)
  BY <1>0
<1> USE DEF RecordFed
<1>1. /\ r.id \in Docs /\ r.version \in Versions
      /\ IsDocuments(docs) /\ IsFiniteSet(Indexed(docs)) /\ held \in Nat /\ MaxDocs \in Nat
  BY CountsAreFinite, IndexAssumption DEF Records, IsIndex
<1>2. \/ full /\ new = ix
      \/ ~full /\ ~HasText(r) /\ new = ix
      \/ ~full /\ new = AddDoc(ix, r.id, r.version)
  BY <1>0 DEF IndexRecord
<1>3. CASE new = ix /\ (full \/ ~HasText(r))
  <2>1. HasText(r) => r.id \notin Indexed(docs) /\ others + held >= MaxDocs
    BY <1>3 DEF Indexed
  <2>2. held <= held
    BY <1>1
  <2> QED BY <1>3, <2>1, <2>2
<1>4. CASE ~full /\ new = AddDoc(ix, r.id, r.version)
  <2>1. IsIndex(new) /\ new.documents = [docs EXCEPT ![r.id] = r.version]
    BY <1>1, <1>4, AddKeepsCounts
  <2>2. Indexed(new.documents) = Indexed(docs) \cup {r.id}
    BY <1>1, <2>1, TextIsTerms DEF Indexed, IsDocuments
  <2>3. Cardinality(Indexed(docs) \cup {r.id}) =
          IF r.id \in Indexed(docs) THEN held ELSE held + 1
    BY <1>1, FS_AddElement
  <2>4. r.id \in Indexed(docs) <=> docs[r.id] # Absent
    BY <1>1 DEF Indexed
  <2>5. /\ \A d \in Docs : \/ new.documents[d] = docs[d]
                           \/ d = r.id /\ new.documents[d] = r.version
        /\ new.documents[r.id] = r.version
    BY <1>1, <2>1 DEF IsDocuments
  <2> HIDE DEF held, docs
  <2>6. held <= Cardinality(Indexed(new.documents))
    BY <1>1, <2>2, <2>3
  <2>7. others + held <= MaxDocs => others + Cardinality(Indexed(new.documents)) <= MaxDocs
    BY <1>1, <1>4, <2>2, <2>3, <2>4
  <2> QED BY <2>1, <2>2, <2>5, <2>6, <2>7 DEF held, docs
<1> QED BY <1>2, <1>3, <1>4


\* What the loop of index_records keeps true of the index, after n records.
LoopInv(start, records, others, n, ix) ==
  /\ IsIndex(ix)
  /\ others + Cardinality(Indexed(start.documents)) <= MaxDocs =>
       others + Cardinality(Indexed(ix.documents)) <= MaxDocs
  /\ \A d \in Docs :
       \/ ix.documents[d] = start.documents[d]
       \/ \E i \in 1..n : records[i] = [id |-> d, version |-> ix.documents[d]]
  /\ Indexed(start.documents) \subseteq Indexed(ix.documents)
  /\ \A i \in 1..n : HasText(records[i]) =>
       \/ \E j \in 1..n : records[j] = [id |-> records[i].id, version |-> ix.documents[records[i].id]]
       \/ /\ records[i].id \notin Indexed(start.documents)
          /\ others + Cardinality(Indexed(ix.documents)) >= MaxDocs

\* One more record keeps it.
LEMMA LoopStepKeepsInv ==
  ASSUME NEW start, NEW records \in Seq(Records), NEW others \in Nat,
         NEW n \in 1..Len(records), NEW ix, LoopInv(start, records, others, n - 1, ix)
  PROVE  LoopInv(start, records, others, n, IndexRecord(ix, records[n], others))
<1> DEFINE r == records[n]
<1>a. PICK new : new = IndexRecord(ix, r, others)
  OBVIOUS
<1> DEFINE size == Cardinality(Indexed(new.documents))
<1>0. r \in Records /\ IsIndex(ix) /\ (n - 1) \in Nat /\ 1..n = 1..(n - 1) \cup {n}
  BY DEF LoopInv
<1>1. RecordFed(ix, r, others, new)
  BY <1>0, <1>a, IndexRecordKeepsCounts
<1> USE DEF RecordFed
<1>2. Cardinality(Indexed(ix.documents)) \in Nat /\ size \in Nat /\ MaxDocs \in Nat
  BY <1>0, <1>1, CountsAreFinite, IndexAssumption DEF IsIndex
<1>3. ASSUME NEW d \in Docs
      PROVE  \/ new.documents[d] = start.documents[d]
             \/ \E i \in 1..n : records[i] = [id |-> d, version |-> new.documents[d]]
  <2>1. CASE new.documents[d] = ix.documents[d]
    BY <1>0, <2>1 DEF LoopInv
  <2>2. CASE d = r.id /\ new.documents[d] = r.version
    <3>1. r = [id |-> d, version |-> new.documents[d]]
      BY <1>0, <2>2 DEF Records
    <3> QED BY <1>0, <3>1
  <2> QED BY <1>1, <2>1, <2>2
<1>4. ASSUME NEW i \in 1..n, HasText(records[i])
      PROVE  \/ \E j \in 1..n : records[j] = [id |-> records[i].id,
                                             version |-> new.documents[records[i].id]]
             \/ records[i].id \notin Indexed(start.documents) /\ others + size >= MaxDocs
  <2>0. /\ r = [id |-> r.id, version |-> r.version] /\ records[i].id \in Docs
        /\ Indexed(start.documents) \subseteq Indexed(ix.documents)
    <3>1. records[i] \in Records
      OBVIOUS
    <3> QED BY <1>0, <3>1 DEF Records, LoopInv
  <2>1. CASE i = n
    <3>1. CASE new.documents[r.id] = r.version
      BY <2>0, <2>1, <3>1
    <3>2. CASE r.id \notin Indexed(ix.documents) /\ others + size >= MaxDocs
      BY <2>0, <2>1, <3>2
    <3> QED BY <1>1, <1>4, <2>1, <3>1, <3>2
  <2>2. CASE i \in 1..(n - 1)
    <3>1. \/ \E j \in 1..(n - 1) : records[j] = [id |-> records[i].id,
                                                 version |-> ix.documents[records[i].id]]
          \/ /\ records[i].id \notin Indexed(start.documents)
             /\ others + Cardinality(Indexed(ix.documents)) >= MaxDocs
      BY <1>4, <2>2 DEF LoopInv
    <3>2. CASE /\ records[i].id \notin Indexed(start.documents)
               /\ others + Cardinality(Indexed(ix.documents)) >= MaxDocs
      BY <1>1, <1>2, <3>2
    <3>3. ASSUME NEW j \in 1..(n - 1),
                 records[j] = [id |-> records[i].id, version |-> ix.documents[records[i].id]]
          PROVE  \E m \in 1..n : records[m] = [id |-> records[i].id,
                                               version |-> new.documents[records[i].id]]
      <4>1. CASE new.documents[records[i].id] = ix.documents[records[i].id]
        BY <1>0, <3>3, <4>1
      <4>2. CASE records[i].id = r.id /\ new.documents[records[i].id] = r.version
        BY <2>0, <4>2
      <4> QED BY <1>1, <2>0, <4>1, <4>2
    <3> QED BY <3>1, <3>2, <3>3
  <2> QED BY <1>0, <2>1, <2>2
<1>6. Indexed(start.documents) \subseteq Indexed(new.documents)
  BY <1>1 DEF LoopInv
<1>5. others + Cardinality(Indexed(start.documents)) <= MaxDocs => others + size <= MaxDocs
  BY <1>1 DEF LoopInv
<1> QED BY <1>a, <1>1, <1>3, <1>4, <1>5, <1>6 DEF LoopInv

\* What index_records leaves, by induction over the records: the least number of
\* them after which it would not hold cannot be.
LEMMA StoredKeepsInv ==
  ASSUME NEW start, IsIndex(start), NEW records \in Seq(Records), NEW others \in Nat
  PROVE  LoopInv(start, records, others, Len(records), Stored(start, records, others))
<1> DEFINE Follows(f, n) ==
             /\ f = [i \in 0..n |-> f[i]] /\ f[0] = start
             /\ \A i \in 1..n : f[i] = IndexRecord(f[i - 1], records[i], others)
           Step(h) == [i \in 0..Len(records) |->
                         IF i = 0 THEN start ELSE IndexRecord(h[i - 1], records[i], others)]
<1>1. \E f : Follows(f, Len(records))
  <2> DEFINE Bad == {n \in 0..Len(records) : ~ \E f : Follows(f, n)}
  <2>1. SUFFICES ASSUME Bad # {} PROVE FALSE
    OBVIOUS
  <2>2. PICK m \in Bad : \A n \in Bad : m <= n
    <3>1. Bad \in SUBSET Nat
      OBVIOUS
    <3> HIDE DEF Bad
    <3> QED BY <2>1, <3>1, LeastNumber
  <2>3. m # 0
    <3>1. Follows([i \in 0..0 |-> start], 0)
      OBVIOUS
    <3> QED BY <3>1
  <2>4. m \in 1..Len(records) /\ m - 1 \in 0..Len(records) /\ ~(m <= m - 1)
    BY <2>2, <2>3
  <2>5. PICK f : Follows(f, m - 1)
    BY <2>2, <2>4
  <2> DEFINE g == [i \in 0..m |-> IF i = m THEN IndexRecord(f[m - 1], records[m], others) ELSE f[i]]
  <2>6. Follows(g, m)
    <3>1. g = [i \in 0..m |-> g[i]] /\ g[0] = start
      BY <2>4, <2>5
    <3>2. ASSUME NEW i \in 1..m PROVE g[i] = IndexRecord(g[i - 1], records[i], others)
      <4>1. i \in 0..m /\ i - 1 \in 0..m /\ i - 1 # m
        BY <2>4
      <4>2. g[i - 1] = f[i - 1]
        BY <4>1
      <4>3. CASE i = m
        BY <4>1, <4>2, <4>3
      <4>4. CASE i # m
        <5>1. i \in 1..(m - 1)
          BY <2>4, <4>4
        <5> QED BY <2>5, <4>1, <4>2, <4>4, <5>1
      <4> QED BY <4>3, <4>4
    <3> QED BY <3>1, <3>2
  <2> QED BY <2>2, <2>6
<1>2. \E h : h = Step(h)
  <2>1. PICK f : Follows(f, Len(records))
    BY <1>1
  <2>2. \A i \in 0..Len(records) :
          f[i] = IF i = 0 THEN start ELSE IndexRecord(f[i - 1], records[i], others)
    BY <2>1
  <2>3. f = [i \in 0..Len(records) |-> f[i]]
    BY <2>1
  <2>4. f = Step(f)
    BY <2>2, <2>3
  <2> QED BY <2>4
<1> DEFINE after == CHOOSE h : h = Step(h)
<1>3. after = Step(after)
  BY <1>2
<1>4. Stored(start, records, others) = after[Len(records)]
  BY DEF Stored
<1> HIDE DEF after
<1>5. /\ after[0] = start
      /\ \A i \in 1..Len(records) : after[i] = IndexRecord(after[i - 1], records[i], others)
  BY <1>3
<1>6. \A n \in 0..Len(records) : LoopInv(start, records, others, n, after[n])
  <2> DEFINE Bad == {n \in 0..Len(records) : ~LoopInv(start, records, others, n, after[n])}
  <2>1. SUFFICES ASSUME Bad # {} PROVE FALSE
    OBVIOUS
  <2>2. PICK m \in Bad : \A n \in Bad : m <= n
    <3>1. Bad \in SUBSET Nat
      OBVIOUS
    <3> HIDE DEF Bad
    <3> QED BY <2>1, <3>1, LeastNumber
  <2>3. m # 0
    <3>1. LoopInv(start, records, others, 0, after[0])
      BY <1>5 DEF LoopInv
    <3> QED BY <3>1
  <2>4. m \in 1..Len(records) /\ m - 1 \in 0..Len(records) /\ ~(m <= m - 1)
    BY <2>2, <2>3
  <2>5. LoopInv(start, records, others, m - 1, after[m - 1])
    BY <2>2, <2>4
  <2>6. LoopInv(start, records, others, m, after[m])
    <3>1. after[m] = IndexRecord(after[m - 1], records[m], others)
      BY <1>5, <2>4
    <3> QED BY <2>4, <2>5, <3>1, LoopStepKeepsInv
  <2> QED BY <2>2, <2>6
<1> QED BY <1>4, <1>6

\* Held, of documents that need not be those of the state.
HeldOf(docs, indexes) == {p \in indexes \X Docs : docs[p[1]][p[2]] # Absent}

\* The documents of all indexes are those of one and of the others.
LEMMA HeldSplits ==
  ASSUME NEW docs \in [Indexes -> [Docs -> Versions \cup {Absent}]], NEW k \in Indexes
  PROVE  /\ Cardinality(HeldOf(docs, Indexes)) =
              Cardinality(HeldOf(docs, Indexes \ {k})) + Cardinality(Indexed(docs[k]))
         /\ Cardinality(HeldOf(docs, Indexes \ {k})) \in Nat
         /\ Cardinality(Indexed(docs[k])) \in Nat
<1> DEFINE rest == HeldOf(docs, Indexes \ {k})
           mine == Indexed(docs[k])
           own == {k} \X mine
<1>1. HeldOf(docs, Indexes) = rest \cup own
  <2>1. ASSUME NEW j \in Indexes, NEW d \in Docs
        PROVE  <<j, d>> \in HeldOf(docs, Indexes) <=> <<j, d>> \in rest \cup own
    BY DEF HeldOf, Indexed
  <2>2. HeldOf(docs, Indexes) \subseteq Indexes \X Docs /\ rest \cup own \subseteq Indexes \X Docs
    BY DEF HeldOf, Indexed
  <2> HIDE DEF rest, own
  <2> QED BY <2>1, <2>2
<1>2. rest \cap own = {}
  BY DEF HeldOf
<1>3. IsFiniteSet(rest) /\ Cardinality(rest) \in Nat
  <2>1. IsFiniteSet(Indexes \X Docs)
    BY IndexAssumption, FS_Product
  <2>2. rest \subseteq Indexes \X Docs
    BY DEF HeldOf
  <2> HIDE DEF rest
  <2> QED BY <2>1, <2>2, FS_Subset, FS_CardinalityType
<1>4. IsFiniteSet(mine) /\ Cardinality(mine) \in Nat
  BY CountsAreFinite DEF IsDocuments
<1>5. IsFiniteSet(own) /\ Cardinality(own) = Cardinality(mine)
  <2> HIDE DEF mine
  <2> QED BY <1>4, PairsWithOne
<1> HIDE DEF rest, mine, own
<1>6. /\ Cardinality(rest \cup own) = Cardinality(rest) + Cardinality(own) - Cardinality(rest \cap own)
      /\ Cardinality(rest \cap own) = 0
  BY <1>2, <1>3, <1>5, FS_Union, FS_EmptySet
<1>7. Cardinality(rest \cup own) = Cardinality(rest) + Cardinality(mine)
  BY <1>3, <1>4, <1>5, <1>6
<1> QED BY <1>1, <1>3, <1>4, <1>7 DEF rest, mine

\* What is in each index counts right.
LEMMA IndexesAreIndexes ==
  ASSUME IndexInv, NEW k \in Indexes
  PROVE  IsIndex(Index(k)) /\ IsIndex(EmptyIndex)
<1>1. IsIndex(Index(k))
  BY DEF IndexInv, IndexTypeOK, CountersMatchDocuments, IsIndex, IsDocuments, Index
<1>2. IsIndex(EmptyIndex)
  <2>1. /\ EmptyIndex.documents = [d \in Docs |-> Absent]
        /\ EmptyIndex.frequency = [t \in Terms |-> 0] /\ EmptyIndex.length = 0
        /\ EmptyIndex = [documents |-> EmptyIndex.documents,
                         frequency |-> EmptyIndex.frequency, length |-> EmptyIndex.length]
    BY DEF EmptyIndex
  <2>2. Indexed(EmptyIndex.documents) = {}
    BY <2>1 DEF Indexed
  <2>3. \A t \in Terms : Containing(EmptyIndex.documents, t) = {}
    BY <2>2 DEF Containing
  <2>4. Occurrences(EmptyIndex.documents) = {}
    BY <2>3 DEF Occurrences
  <2>5. IsDocuments(EmptyIndex.documents)
    BY <2>1 DEF IsDocuments
  <2>6. CountsMatch(EmptyIndex)
    BY <2>1, <2>3, <2>4, FS_EmptySet DEF CountsMatch
  <2> QED BY <2>1, <2>5, <2>6 DEF IsIndex
<1> QED BY <1>1, <1>2

\* What a call that stores leaves, relative to what it started from and brought.
LEMMA IndexRecordsStores ==
  ASSUME IndexInv, NEW c \in Callers, IndexRecords(c), NEW k, k = fetched[c].index
  PROVE  LET start == IF fetched[c].replace THEN EmptyIndex ELSE Index(k)
             records == fetched[c].records
         IN /\ k \in Indexes /\ records \in Seq(Records) /\ fetched[c].replace \in BOOLEAN
            /\ LoopInv(start, records, OtherDocs(k), Len(records), Index(k)')
            /\ documents' = [documents EXCEPT ![k] = Index(k)'.documents]
            /\ frequency' = [frequency EXCEPT ![k] = Index(k)'.frequency]
            /\ length' = [length EXCEPT ![k] = Index(k)'.length]
            /\ \A j \in Indexes \ {k} : Index(j)' = Index(j)
            /\ OtherDocs(k) + Cardinality(Indexed(documents'[k])) <= MaxDocs
<1> DEFINE start == IF fetched[c].replace THEN EmptyIndex ELSE Index(k)
           records == fetched[c].records
<1>1. k \in Indexes /\ records \in Seq(Records) /\ fetched[c].replace \in BOOLEAN
  BY DEF IndexInv, IndexTypeOK, IndexRecords
<1>2. /\ documents \in [Indexes -> [Docs -> Versions \cup {Absent}]]
      /\ frequency \in [Indexes -> [Terms -> Nat]] /\ length \in [Indexes -> Nat]
  BY DEF IndexInv, IndexTypeOK
<1>3. /\ IsIndex(start)
      /\ OtherDocs(k) \in Nat /\ Cardinality(Indexed(documents[k])) \in Nat
      /\ OtherDocs(k) + Cardinality(Indexed(documents[k])) <= MaxDocs
      /\ MaxDocs \in Nat
  <2>1. Held(Indexes) = HeldOf(documents, Indexes) /\ OtherDocs(k) = Cardinality(HeldOf(documents, Indexes \ {k}))
    BY DEF OtherDocs, Held, HeldOf
  <2>2. Cardinality(Held(Indexes)) <= MaxDocs
    BY DEF IndexInv, IndexTypeOK
  <2>3. /\ OtherDocs(k) \in Nat /\ Cardinality(Indexed(documents[k])) \in Nat
        /\ Cardinality(Held(Indexes)) = OtherDocs(k) + Cardinality(Indexed(documents[k]))
    BY <1>1, <1>2, <2>1, HeldSplits
  <2>4. IsIndex(start)
    BY <1>1, IndexesAreIndexes
  <2> QED BY <2>2, <2>3, <2>4, IndexAssumption
<1>4. PICK new : new = Stored(start, records, OtherDocs(k))
  OBVIOUS
<1>5. LoopInv(start, records, OtherDocs(k), Len(records), new)
  <2> HIDE DEF start, records
  <2> QED BY <1>1, <1>3, <1>4, StoredKeepsInv
<1>6. /\ documents' = [documents EXCEPT ![k] = new.documents]
      /\ frequency' = [frequency EXCEPT ![k] = new.frequency]
      /\ length' = [length EXCEPT ![k] = new.length]
  BY <1>4 DEF IndexRecords
<1> HIDE DEF records
<1>7. Index(k)' = new
  <2>1. documents'[k] = new.documents /\ frequency'[k] = new.frequency /\ length'[k] = new.length
    BY <1>1, <1>2, <1>6
  <2>2. Index(k)' = [documents |-> documents'[k], frequency |-> frequency'[k], length |-> length'[k]]
    BY DEF Index
  <2> QED BY <1>5, <2>1, <2>2 DEF LoopInv, IsIndex
<1>8. \A j \in Indexes \ {k} : Index(j)' = Index(j)
  BY <1>1, <1>2, <1>6 DEF Index
<1>9. OtherDocs(k) + Cardinality(Indexed(start.documents)) <= MaxDocs
  <2>1. CASE start = Index(k)
    BY <1>3, <2>1 DEF Index
  <2>2. CASE start = EmptyIndex
    <3>1. Indexed(start.documents) = {}
      BY <2>2 DEF EmptyIndex, Indexed
    <3>2. Cardinality(Indexed(start.documents)) = 0
      BY <3>1, FS_EmptySet
    <3> QED BY <1>3, <3>2
  <2> QED BY <2>1, <2>2
<1>10. OtherDocs(k) + Cardinality(Indexed(documents'[k])) <= MaxDocs
  <2>1. documents'[k] = new.documents
    BY <1>1, <1>2, <1>6
  <2> QED BY <1>5, <1>9, <2>1 DEF LoopInv
<1> QED BY <1>1, <1>5, <1>6, <1>7, <1>8, <1>10 DEF records

\* A fetch brings records as they are now.
LEMMA FetchKeepsInv ==
  ASSUME IndexInv, NEW c \in Callers, NEW k \in Indexes, NEW replace \in BOOLEAN,
         NEW ids \in Slices, FetchRecords(c, k, replace, ids)
  PROVE  IndexInv'
<1> DEFINE records == [i \in DOMAIN ids |-> [id |-> ids[i], version |-> odoo[k][ids[i]]]]
           new == [index |-> k, replace |-> replace, overtaken |-> FALSE, records |-> records]
<1>1. UNCHANGED <<odoo, documents, frequency, length>> /\ fetched' = [fetched EXCEPT ![c] = new]
  BY DEF FetchRecords, store
<1>2. /\ odoo \in [Indexes -> [Docs -> Versions]]
      /\ documents \in [Indexes -> [Docs -> Versions \cup {Absent}]]
      /\ fetched \in [Callers -> {NothingFetched} \cup
            [index : Indexes, replace : BOOLEAN, records : Seq(Records), overtaken : BOOLEAN]]
  BY DEF IndexInv, IndexTypeOK
<1>3. PICK n \in Nat : ids \in [1..n -> Docs]
  <2>1. Cardinality(Docs) \in Nat
    BY IndexAssumption, FS_CardinalityType
  <2> QED BY <2>1 DEF Slices, SeqOf
<1>4. records \in Seq(Records)
  <2>1. records \in [1..n -> Records]
    BY <1>2, <1>3 DEF Records
  <2> HIDE DEF records
  <2> QED BY <1>3, <2>1
<1>5. \A i \in DOMAIN records : records[i].id \in Docs /\ records[i].version = odoo[k][records[i].id]
  BY <1>2, <1>3
<1> HIDE DEF records
<1>6. fetched' \in [Callers -> {NothingFetched} \cup
            [index : Indexes, replace : BOOLEAN, records : Seq(Records), overtaken : BOOLEAN]]
  BY <1>1, <1>2, <1>4
<1>7. IndexTypeOK'
  BY <1>1, <1>6 DEF IndexInv, IndexTypeOK, Held
<1>8. CountersMatchDocuments'
  BY <1>1 DEF IndexInv, CountersMatchDocuments, CountsMatch, Index
<1>9. NothingFromTheFuture'
  <2>1. \A j \in Indexes, d \in Docs : documents'[j][d] <= odoo'[j][d]
    BY <1>1 DEF IndexInv, NothingFromTheFuture
  <2>2. ASSUME NEW b \in Callers, fetched'[b] # NothingFetched,
               NEW i \in DOMAIN fetched'[b].records
        PROVE  LET r == fetched'[b].records[i] IN
                 /\ r.version <= odoo'[fetched'[b].index][r.id]
                 /\ ~fetched'[b].overtaken => documents'[fetched'[b].index][r.id] <= r.version
    <3>1. CASE b = c
      <4>1. fetched'[b] = new
        BY <1>1, <1>2, <3>1
      <4>2. /\ records[i].id \in Docs /\ records[i].version = odoo[k][records[i].id]
            /\ odoo[k][records[i].id] \in Int
        BY <1>2, <1>5, <2>2, <4>1 DEF Versions
      <4>3. documents[k][records[i].id] <= odoo[k][records[i].id]
        BY <4>2 DEF IndexInv, NothingFromTheFuture
      <4> QED BY <1>1, <4>1, <4>2, <4>3
    <3>2. CASE b # c
      <4>1. fetched'[b] = fetched[b]
        BY <1>1, <1>2, <3>2
      <4> QED BY <1>1, <2>2, <4>1 DEF IndexInv, NothingFromTheFuture
    <3> QED BY <3>1, <3>2
  <2> QED BY <2>1, <2>2 DEF NothingFromTheFuture
<1> QED BY <1>7, <1>8, <1>9 DEF IndexInv

\* What the calls still have in hand when one of them has stored.
LEMMA StoringOvertakes ==
  ASSUME IndexInv, NEW c \in Callers, IndexRecords(c), NEW k, k = fetched[c].index,
         NEW b \in Callers
  PROVE  \/ b = c /\ fetched'[b] = NothingFetched
         \/ b # c /\ fetched[b] = NothingFetched /\ fetched'[b] = NothingFetched
         \/ /\ b # c /\ fetched[b] # NothingFetched /\ fetched'[b] # NothingFetched
            /\ fetched'[b].index = fetched[b].index /\ fetched[b].index \in Indexes
            /\ fetched'[b].replace = fetched[b].replace /\ fetched[b].replace \in BOOLEAN
            /\ fetched'[b].records = fetched[b].records /\ fetched[b].records \in Seq(Records)
            /\ fetched'[b].overtaken = (fetched[b].overtaken \/ fetched[b].index = k)
            /\ fetched'[b] \in [index : Indexes, replace : BOOLEAN, records : Seq(Records),
                                overtaken : BOOLEAN]
<1>1. fetched'[b] = IF b = c THEN NothingFetched
                    ELSE [fetched[b] EXCEPT !.overtaken = @ \/ fetched[b].index = k]
  BY DEF IndexRecords
<1>2. /\ fetched[b] = NothingFetched \/ fetched[b] \in
            [index : Indexes, replace : BOOLEAN, records : Seq(Records), overtaken : BOOLEAN]
      /\ k \in Indexes /\ "none" \notin Indexes
  BY IndexAssumption DEF IndexInv, IndexTypeOK, IndexRecords
<1>3. CASE b # c /\ fetched[b] = NothingFetched
  <2>1. (fetched[b].overtaken \/ fetched[b].index = k) = FALSE
    BY <1>2, <1>3 DEF NothingFetched
  <2>2. fetched'[b] = [fetched[b] EXCEPT !.overtaken = fetched[b].overtaken \/ fetched[b].index = k]
    BY <1>1, <1>3
  <2>3. fetched'[b] = [NothingFetched EXCEPT !.overtaken = FALSE]
    BY <1>3, <2>1, <2>2
  <2> QED BY <1>3, <2>3 DEF NothingFetched
<1>4. CASE b # c /\ fetched[b] # NothingFetched
  <2>1. fetched[b] \in [index : Indexes, replace : BOOLEAN, records : Seq(Records), overtaken : BOOLEAN]
    BY <1>2, <1>4
  <2>2. fetched'[b] = [fetched[b] EXCEPT !.overtaken = fetched[b].overtaken \/ fetched[b].index = k]
    BY <1>1, <1>4
  <2>3. /\ fetched'[b].index = fetched[b].index /\ fetched'[b].replace = fetched[b].replace
        /\ fetched'[b].records = fetched[b].records
        /\ fetched'[b].overtaken = (fetched[b].overtaken \/ fetched[b].index = k)
        /\ fetched'[b] \in [index : Indexes, replace : BOOLEAN, records : Seq(Records),
                            overtaken : BOOLEAN]
    BY <2>1, <2>2
  <2>4. fetched'[b] # NothingFetched
    BY <1>2, <2>1, <2>3 DEF NothingFetched
  <2> QED BY <1>4, <2>1, <2>3, <2>4
<1> QED BY <1>1, <1>3, <1>4

\* KnowledgeStore.index_records.
LEMMA StoringKeepsInv ==
  ASSUME IndexInv, NEW c \in Callers, IndexRecords(c)
  PROVE  IndexInv'
<1>1. PICK k : k = fetched[c].index
  OBVIOUS
<1> DEFINE start == IF fetched[c].replace THEN EmptyIndex ELSE Index(k)
           records == fetched[c].records
<1>2. /\ k \in Indexes /\ records \in Seq(Records) /\ fetched[c].replace \in BOOLEAN
      /\ LoopInv(start, records, OtherDocs(k), Len(records), Index(k)')
      /\ documents' = [documents EXCEPT ![k] = Index(k)'.documents]
      /\ frequency' = [frequency EXCEPT ![k] = Index(k)'.frequency]
      /\ length' = [length EXCEPT ![k] = Index(k)'.length]
      /\ \A j \in Indexes \ {k} : Index(j)' = Index(j)
      /\ OtherDocs(k) + Cardinality(Indexed(documents'[k])) <= MaxDocs
  BY <1>1, IndexRecordsStores
<1>3. /\ odoo \in [Indexes -> [Docs -> Versions]]
      /\ documents \in [Indexes -> [Docs -> Versions \cup {Absent}]]
      /\ frequency \in [Indexes -> [Terms -> Nat]] /\ length \in [Indexes -> Nat]
      /\ fetched \in [Callers -> {NothingFetched} \cup
            [index : Indexes, replace : BOOLEAN, records : Seq(Records), overtaken : BOOLEAN]]
  BY DEF IndexInv, IndexTypeOK
<1>4. odoo' = odoo /\ DOMAIN fetched' = Callers /\ fetched' = [b \in Callers |-> fetched'[b]]
  BY DEF IndexRecords
<1>5. IsIndex(Index(k)')
  BY <1>2 DEF LoopInv
<1>6. /\ documents' \in [Indexes -> [Docs -> Versions \cup {Absent}]]
      /\ frequency' \in [Indexes -> [Terms -> Nat]] /\ length' \in [Indexes -> Nat]
  BY <1>2, <1>3, <1>5 DEF IsIndex, IsDocuments
<1>7. Cardinality(Held(Indexes)') <= MaxDocs
  <2>1. Held(Indexes)' = HeldOf(documents', Indexes)
    BY DEF Held, HeldOf
  <2>2. HeldOf(documents', Indexes \ {k}) = HeldOf(documents, Indexes \ {k})
    <3>1. \A j \in Indexes \ {k} : documents'[j] = documents[j]
      BY <1>2, <1>3
    <3> QED BY <3>1 DEF HeldOf
  <2>3. OtherDocs(k) = Cardinality(HeldOf(documents', Indexes \ {k}))
    BY <2>2 DEF OtherDocs, Held, HeldOf
  <2>4. Cardinality(HeldOf(documents', Indexes)) =
          OtherDocs(k) + Cardinality(Indexed(documents'[k]))
    BY <1>2, <1>6, <2>3, HeldSplits
  <2> QED BY <1>2, <2>1, <2>4
<1>8. IndexTypeOK'
  <2>1. \A b \in Callers : fetched'[b] \in {NothingFetched} \cup
            [index : Indexes, replace : BOOLEAN, records : Seq(Records), overtaken : BOOLEAN]
    BY <1>1, StoringOvertakes
  <2>2. fetched' \in [Callers -> {NothingFetched} \cup
            [index : Indexes, replace : BOOLEAN, records : Seq(Records), overtaken : BOOLEAN]]
    BY <1>4, <2>1
  <2> QED BY <1>3, <1>4, <1>6, <1>7, <2>2 DEF IndexTypeOK
<1>9. CountersMatchDocuments'
  <2>1. ASSUME NEW j \in Indexes PROVE CountsMatch(Index(j)')
    BY <1>2, <1>5, IndexesAreIndexes DEF IsIndex
  <2> QED BY <2>1 DEF CountersMatchDocuments, CountsMatch, Index
<1>10. ASSUME NEW i \in 1..Len(records)
       PROVE  /\ records[i].id \in Docs
              /\ records[i].version \in Versions /\ records[i].version <= odoo[k][records[i].id]
  <2>1. fetched[c] # NothingFetched /\ i \in DOMAIN fetched[c].records /\ records[i] \in Records
    BY <1>2 DEF IndexRecords
  <2> QED BY <1>1, <2>1 DEF IndexInv, NothingFromTheFuture, Records
<1>11. ASSUME NEW j \in Indexes, NEW d \in Docs
       PROVE  documents'[j][d] <= odoo[j][d]
  <2>1. documents[j][d] <= odoo[j][d]
    BY DEF IndexInv, NothingFromTheFuture
  <2>2. CASE j # k
    BY <1>2, <1>3, <2>1, <2>2
  <2>3. CASE j = k
    <3>1. Index(k)'.documents = documents'[k]
      BY <1>2, <1>3
    <3>2. CASE documents'[k][d] = start.documents[d]
      <4>1. CASE start = Index(k)
        BY <2>1, <2>3, <3>2, <4>1 DEF Index
      <4>2. CASE start = EmptyIndex
        <5>1. documents'[k][d] = -1 /\ odoo[k][d] \in Nat
          BY <1>2, <1>3, <3>2, <4>2, IndexAssumption DEF EmptyIndex, Absent, Versions
        <5> QED BY <2>3, <5>1
      <4> QED BY <4>1, <4>2
    <3>3. ASSUME NEW i \in 1..Len(records), records[i] = [id |-> d, version |-> documents'[k][d]]
          PROVE  documents'[k][d] <= odoo[k][d]
      BY <1>10, <3>3
    <3> QED BY <1>2, <2>3, <3>1, <3>2, <3>3 DEF LoopInv
  <2> QED BY <2>2, <2>3
<1>12. NothingFromTheFuture'
  <2>1. ASSUME NEW b \in Callers, fetched'[b] # NothingFetched,
               NEW i \in DOMAIN fetched'[b].records
        PROVE  LET r == fetched'[b].records[i] IN
                 /\ r.version <= odoo'[fetched'[b].index][r.id]
                 /\ ~fetched'[b].overtaken => documents'[fetched'[b].index][r.id] <= r.version
    <3>1. /\ fetched[b] # NothingFetched
          /\ fetched'[b].index = fetched[b].index /\ fetched[b].index \in Indexes
          /\ fetched'[b].records = fetched[b].records /\ fetched[b].records \in Seq(Records)
          /\ fetched'[b].overtaken = (fetched[b].overtaken \/ fetched[b].index = k)
      BY <1>1, <2>1, StoringOvertakes
    <3>2. /\ fetched[b].records[i].version <= odoo[fetched[b].index][fetched[b].records[i].id]
          /\ ~fetched[b].overtaken =>
               documents[fetched[b].index][fetched[b].records[i].id] <= fetched[b].records[i].version
      BY <2>1, <3>1 DEF IndexInv, NothingFromTheFuture
    <3>3. fetched[b].index # k => documents'[fetched[b].index] = documents[fetched[b].index]
      BY <1>2, <1>3, <3>1
    <3> QED BY <1>4, <3>1, <3>2, <3>3
  <2> QED BY <1>4, <1>11, <2>1 DEF NothingFromTheFuture
<1> QED BY <1>8, <1>9, <1>12 DEF IndexInv

\* A record that changes in Odoo only gets newer.
LEMMA EditKeepsInv ==
  ASSUME IndexInv, NEW k \in Indexes, NEW d \in Docs, EditRecord(k, d)
  PROVE  IndexInv'
<1>1. /\ odoo \in [Indexes -> [Docs -> Versions]]
      /\ documents \in [Indexes -> [Docs -> Versions \cup {Absent}]]
      /\ fetched \in [Callers -> {NothingFetched} \cup
            [index : Indexes, replace : BOOLEAN, records : Seq(Records), overtaken : BOOLEAN]]
      /\ UNCHANGED <<documents, frequency, length, fetched>>
      /\ odoo[k][d] < MaxVersion /\ odoo' = [odoo EXCEPT ![k][d] = odoo[k][d] + 1]
  BY DEF IndexInv, IndexTypeOK, EditRecord, store
<1>2. MaxVersion \in Nat /\ odoo[k][d] \in Versions /\ odoo[k][d] + 1 \in Versions
  BY <1>1, IndexAssumption DEF Versions
<1>3. odoo' \in [Indexes -> [Docs -> Versions]]
  BY <1>1, <1>2
<1>4. \A j \in Indexes, e \in Docs : odoo[j][e] \in Nat /\ odoo'[j][e] \in Nat /\ odoo[j][e] <= odoo'[j][e]
  <2>1. ASSUME NEW j \in Indexes, NEW e \in Docs PROVE odoo[j][e] \in Nat /\ odoo'[j][e] \in Nat
    BY <1>1, <1>3, IndexAssumption DEF Versions
  <2>2. ASSUME NEW j \in Indexes, NEW e \in Docs
        PROVE  odoo'[j][e] = odoo[j][e] \/ odoo'[j][e] = odoo[j][e] + 1
    BY <1>1
  <2> QED BY <2>1, <2>2
<1>5. IndexTypeOK'
  BY <1>1, <1>3 DEF IndexInv, IndexTypeOK, Held
<1>6. CountersMatchDocuments'
  BY <1>1 DEF IndexInv, CountersMatchDocuments, CountsMatch, Index
<1>7. \A j \in Indexes, e \in Docs : documents[j][e] \in Int
  BY <1>1, IndexAssumption DEF Versions, Absent
<1>8. \A j \in Indexes, e \in Docs : documents'[j][e] <= odoo'[j][e]
  BY <1>1, <1>4, <1>7 DEF IndexInv, NothingFromTheFuture
<1>9. ASSUME NEW c \in Callers, fetched[c] # NothingFetched, NEW i \in DOMAIN fetched[c].records
      PROVE  LET r == fetched[c].records[i] IN
               /\ r.version <= odoo'[fetched[c].index][r.id]
               /\ ~fetched[c].overtaken => documents[fetched[c].index][r.id] <= r.version
  <2> DEFINE r == fetched[c].records[i]
             j == fetched[c].index
  <2>1. r \in Records /\ j \in Indexes
    BY <1>1, <1>9
  <2>2. r.id \in Docs /\ r.version \in Nat
    BY <2>1, IndexAssumption DEF Records, Versions
  <2>3. r.version <= odoo[j][r.id] /\ (~fetched[c].overtaken => documents[j][r.id] <= r.version)
    BY <1>9 DEF IndexInv, NothingFromTheFuture
  <2>4. odoo[j][r.id] \in Nat /\ odoo'[j][r.id] \in Nat /\ odoo[j][r.id] <= odoo'[j][r.id]
    BY <1>4, <2>1, <2>2
  <2> HIDE DEF r, j
  <2>5. r.version <= odoo'[j][r.id]
    BY <2>2, <2>3, <2>4
  <2> QED BY <2>3, <2>5 DEF r, j
<1>10. NothingFromTheFuture'
  BY <1>1, <1>8, <1>9 DEF NothingFromTheFuture
<1> QED BY <1>5, <1>6, <1>10 DEF IndexInv

\* Each step of the index tools.
LEMMA IndexNextKeepsInv == IndexInv /\ [IndexNext]_indexVars => IndexInv'
<1> SUFFICES ASSUME IndexInv, [IndexNext]_indexVars PROVE IndexInv'
  OBVIOUS
<1>1. CASE UNCHANGED indexVars
  BY <1>1 DEF indexVars, IndexInv, IndexTypeOK, CountersMatchDocuments, CountsMatch, Index, Held,
              NothingFromTheFuture
<1> QED BY <1>1, FetchKeepsInv, StoringKeepsInv, EditKeepsInv DEF IndexNext

\* The indexes are empty at the start.
LEMMA IndexInitHasInv == IndexInit => IndexInv
<1> SUFFICES ASSUME IndexInit PROVE IndexInv
  OBVIOUS
<1>1. /\ odoo = [k \in Indexes |-> [d \in Docs |-> 0]]
      /\ documents = [k \in Indexes |-> [d \in Docs |-> Absent]]
      /\ frequency = [k \in Indexes |-> [t \in Terms |-> 0]]
      /\ length = [k \in Indexes |-> 0]
      /\ fetched = [c \in Callers |-> NothingFetched]
      /\ 0 \in Versions /\ MaxDocs \in Nat
  BY IndexAssumption DEF IndexInit, Versions
<1>2. Held(Indexes) = {}
  BY <1>1 DEF Held
<1>3. Cardinality(Held(Indexes)) = 0
  BY <1>2, FS_EmptySet
<1>4. IndexTypeOK
  BY <1>1, <1>3 DEF IndexTypeOK
<1>5. CountersMatchDocuments
  <2>1. ASSUME NEW k \in Indexes PROVE CountsMatch(Index(k))
    <3>1. /\ Index(k).documents = [d \in Docs |-> Absent]
          /\ Index(k).frequency = [t \in Terms |-> 0] /\ Index(k).length = 0
      BY <1>1 DEF Index
    <3>2. \A t \in Terms : Containing(Index(k).documents, t) = {}
      BY <3>1 DEF Containing, Indexed
    <3>3. Occurrences(Index(k).documents) = {}
      BY <3>2 DEF Occurrences
    <3> QED BY <3>1, <3>2, <3>3, FS_EmptySet DEF CountsMatch
  <2> QED BY <2>1 DEF CountersMatchDocuments
<1>6. NothingFromTheFuture
  BY <1>1 DEF NothingFromTheFuture, Absent
<1> QED BY <1>4, <1>5, <1>6 DEF IndexInv

\* The inductive invariant of the knowledge indexes.
THEOREM IndexInvariant == IndexSpec => []IndexInv
<1> QED BY IndexInitHasInv, IndexNextKeepsInv, PTL DEF IndexSpec

\* Types, counters that never go below zero (BM25Index.remove), and the budget of
\* documents that all indexes share (KnowledgeStore.index_records).
THEOREM IndexTypeCorrect == IndexSpec => []IndexTypeOK
<1>1. IndexInv => IndexTypeOK
  BY DEF IndexInv
<1> QED BY <1>1, IndexInvariant, PTL

\* A document that outscores another has fewer words besides the terms it is
\* found by.
Besides(ix, words, d) ==
  Cardinality(Text(d, ix.documents[d])) - Cardinality(Hits(ix, words, d))

LEMMA OutscoringHasLessBesides ==
  ASSUME NEW ix, IsDocuments(ix.documents), NEW words \in SUBSET Terms,
         NEW d \in Docs, NEW e \in Docs
  PROVE  /\ Besides(ix, words, d) \in Nat
         /\ Outscores(ix, words, d, e) => Besides(ix, words, d) < Besides(ix, words, e)
<1> DEFINE text(x) == Text(x, ix.documents[x])
           hits(x) == Hits(ix, words, x)
<1>1. ASSUME NEW x \in Docs
      PROVE  /\ IsFiniteSet(text(x)) /\ Cardinality(text(x)) \in Nat
             /\ IsFiniteSet(hits(x)) /\ Cardinality(hits(x)) \in Nat
             /\ Cardinality(hits(x)) <= Cardinality(text(x))
  <2>1. IsFiniteSet(text(x)) /\ Cardinality(text(x)) \in Nat
    BY TextIsTerms DEF IsDocuments
  <2>2. hits(x) \subseteq text(x)
    BY DEF Hits
  <2> HIDE DEF text, hits
  <2> QED BY <2>1, <2>2, FS_Subset, FS_CardinalityType
<1>2. Besides(ix, words, d) \in Nat /\ Besides(ix, words, e) \in Nat
  <2>1. ASSUME NEW x \in Docs PROVE Besides(ix, words, x) = Cardinality(text(x)) - Cardinality(hits(x))
    BY DEF Besides
  <2> HIDE DEF text, hits
  <2> QED BY <1>1, <2>1
<1>3. ASSUME Outscores(ix, words, d, e) PROVE Besides(ix, words, d) < Besides(ix, words, e)
  <2>1. /\ hits(e) \subseteq hits(d) /\ Cardinality(text(d)) <= Cardinality(text(e))
        /\ hits(e) # hits(d) \/ Cardinality(text(d)) < Cardinality(text(e))
        /\ Besides(ix, words, d) = Cardinality(text(d)) - Cardinality(hits(d))
        /\ Besides(ix, words, e) = Cardinality(text(e)) - Cardinality(hits(e))
    BY <1>3 DEF Outscores, Besides
  <2> HIDE DEF text, hits
  <2>2. Cardinality(hits(e)) <= Cardinality(hits(d))
    BY <1>1, <2>1, FS_Subset
  <2>3. hits(e) # hits(d) => Cardinality(hits(e)) # Cardinality(hits(d))
    BY <1>1, <2>1, FS_Subset
  <2> QED BY <1>1, <2>1, <2>2, <2>3
<1> QED BY <1>2, <1>3

\* Whatever their scores are, some documents are the first n in a ranking.
Leads(ix, words, S, found) ==
  \A d \in S \ found, e \in found : ~Outscores(ix, words, d, e)

LEMMA FirstOnesExist ==
  ASSUME NEW ix, IsDocuments(ix.documents), NEW words \in SUBSET Terms,
         NEW S \in SUBSET Docs, IsFiniteSet(S), NEW n \in 0..Cardinality(S)
  PROVE  \E found \in SUBSET S : Cardinality(found) = n /\ Leads(ix, words, S, found)
<1> DEFINE Good == {m \in 0..Cardinality(S) :
                      \E found \in SUBSET S : Cardinality(found) = m /\ Leads(ix, words, S, found)}
<1>1. Cardinality(S) \in Nat
  BY FS_CardinalityType
<1>2. 0 \in Good
  <2>1. Cardinality({}) = 0 /\ {} \in SUBSET S /\ Leads(ix, words, S, {})
    BY FS_EmptySet DEF Leads
  <2> QED BY <1>1, <2>1
<1>3. ASSUME NEW i \in 1..Cardinality(S), i - 1 \in Good PROVE i \in Good
  <2>1. PICK found \in SUBSET S : Cardinality(found) = i - 1 /\ Leads(ix, words, S, found)
    BY <1>3
  <2>2. S \ found # {}
    <3>1. S # found
      BY <1>1, <1>3, <2>1
    <3> QED BY <2>1, <3>1
  <2> DEFINE sizes == {Besides(ix, words, d) : d \in S \ found}
  <2>3. sizes \in SUBSET Nat /\ sizes # {}
    BY <2>2, OutscoringHasLessBesides
  <2>4. PICK m \in sizes : \A k \in sizes : m <= k
    <3> HIDE DEF sizes
    <3> QED BY <2>3, LeastNumber
  <2>5. PICK best \in S \ found : m = Besides(ix, words, best)
    OBVIOUS
  <2>6. ASSUME NEW d \in S \ found PROVE ~Outscores(ix, words, d, best)
    <3>1. Besides(ix, words, best) <= Besides(ix, words, d)
      BY <2>4, <2>5
    <3>2. Besides(ix, words, best) \in Nat /\ Besides(ix, words, d) \in Nat
      BY OutscoringHasLessBesides
    <3>3. Outscores(ix, words, d, best) => Besides(ix, words, d) < Besides(ix, words, best)
      BY OutscoringHasLessBesides
    <3> QED BY <3>1, <3>2, <3>3
  <2>7. Leads(ix, words, S, found \cup {best})
    BY <2>1, <2>6 DEF Leads
  <2>8. Cardinality(found \cup {best}) = i
    <3>1. IsFiniteSet(found)
      BY FS_Subset
    <3>2. Cardinality(found \cup {best}) = Cardinality(found) + 1
      BY <2>5, <3>1, FS_AddElement
    <3> QED BY <1>3, <2>1, <3>2
  <2>9. i \in 0..Cardinality(S) /\ found \cup {best} \in SUBSET S
    BY <1>1, <1>3, <2>1
  <2> QED BY <2>7, <2>8, <2>9
<1> HIDE DEF Good
<1>4. \A i \in 0..Cardinality(S) : i \in Good
  BY <1>1, <1>2, <1>3, UpTo
<1>5. n \in Good
  BY <1>4
<1> QED BY <1>5 DEF Good

\* The greater of 1 and a limit is the limit.
LEMMA LimitFromOne ==
  ASSUME NEW limit \in Nat \ {0}
  PROVE  Max({1, limit}) = limit
<1>1. limit \in {1, limit} /\ \A y \in {1, limit} : limit >= y
  OBVIOUS
<1>2. \A x \in {1, limit} : (\A y \in {1, limit} : x >= y) => x = limit
  OBVIOUS
<1> QED BY <1>1, <1>2 DEF Max

\* A search returns all the documents with a term of the query, or as many as were
\* asked for and none worse than one left out, whatever was added, replaced,
\* rebuilt or left out for want of room before it (BM25Index.search).
THEOREM SearchesAreComplete == IndexSpec => []SearchIsComplete
<1>1. IndexInv => SearchIsComplete
  <2> SUFFICES ASSUME IndexInv, NEW k \in Indexes, NEW terms \in SUBSET Terms,
                      NEW limit \in 1..Cardinality(Docs)
               PROVE  /\ Search(Index(k), terms, limit) # {}
                      /\ \A found \in Search(Index(k), terms, limit) :
                           /\ found \subseteq Matching(k, terms)
                           /\ found = Matching(k, terms) \/ Cardinality(found) = limit
                           /\ ~BetterLeftOut(k, terms, found)
    BY DEF SearchIsComplete, IndexInv
  <2> DEFINE ix == Index(k)
  <2>0. ix.documents = documents[k] /\ IsDocuments(ix.documents)
    BY DEF Index, IndexInv, IndexTypeOK, IsDocuments
  <2>1. ASSUME NEW d \in Indexed(documents[k]), NEW t \in terms, t \in Text(d, documents[k][d])
        PROVE  ix.frequency[t] > 0
    <3>1. d \in Containing(documents[k], t)
      BY <2>1 DEF Containing
    <3>2. IsFiniteSet(Containing(documents[k], t)) /\ Cardinality(Containing(documents[k], t)) \in Nat
      BY CountsAreFinite DEF IndexInv, IndexTypeOK, IsDocuments
    <3>3. Cardinality(Containing(documents[k], t)) # 0
      BY <3>1, <3>2, FS_EmptySet
    <3>4. ix.frequency[t] = Cardinality(Containing(documents[k], t))
      BY <2>0 DEF IndexInv, CountersMatchDocuments, CountsMatch
    <3> QED BY <3>2, <3>3, <3>4
  <2> HIDE DEF ix
  <2>2. ASSUME NEW d \in Indexed(documents[k])
        PROVE  Hits(ix, terms, d) = terms \cap Text(d, documents[k][d])
    BY <2>0, <2>1, <2>2 DEF Hits
  <2>3. Scored(ix, terms) = Matching(k, terms)
    BY <2>0, <2>2 DEF Scored, Matching
  <2> DEFINE S == Matching(k, terms)
             size == Min({limit, Cardinality(S)})
  <2>4. /\ S \in SUBSET Docs /\ S \subseteq Indexed(documents[k]) /\ IsFiniteSet(S)
        /\ Cardinality(S) \in Nat /\ limit \in Nat \ {0}
    <3>1. S \subseteq Indexed(documents[k]) /\ S \in SUBSET Docs
      BY DEF Matching, Indexed
    <3>2. IsFiniteSet(S)
      BY <3>1, IndexAssumption, FS_Subset
    <3>3. Cardinality(Docs) \in Nat
      BY IndexAssumption, FS_CardinalityType
    <3> HIDE DEF S
    <3> QED BY <3>1, <3>2, <3>3, FS_CardinalityType
  <2>5. Search(ix, terms, limit) =
          {found \in SUBSET S : Cardinality(found) = size /\ Leads(ix, terms, S, found)}
    <3>1. Max({1, limit}) = limit
      BY <2>4, LimitFromOne
    <3> QED BY <2>3, <3>1 DEF Search, Leads
  <2> HIDE DEF S, size
  <2>6. size \in 0..Cardinality(S) /\ (size = Cardinality(S) \/ size = limit)
    <3>1. /\ size \in {limit, Cardinality(S)} /\ size <= limit /\ size <= Cardinality(S)
          /\ size \in Int
      <4>1. limit \in Int /\ Cardinality(S) \in Int
        BY <2>4
      <4>2. size = Min({limit, Cardinality(S)})
        BY DEF size
      <4> QED BY <4>1, <4>2, LesserOfTwo, Zenon
    <3> QED BY <2>4, <3>1
  <2>7. Search(ix, terms, limit) # {}
    <3>1. \E found \in SUBSET S : Cardinality(found) = size /\ Leads(ix, terms, S, found)
      BY <2>0, <2>4, <2>6, FirstOnesExist
    <3> QED BY <2>5, <3>1
  <2>8. ASSUME NEW found \in Search(ix, terms, limit)
        PROVE  /\ found \subseteq S
               /\ found = S \/ Cardinality(found) = limit
               /\ ~BetterLeftOut(k, terms, found)
    <3>1. found \in SUBSET S /\ Cardinality(found) = size /\ Leads(ix, terms, S, found)
      BY <2>5, <2>8
    <3>2. Cardinality(found) = Cardinality(S) => found = S
      BY <2>4, <3>1, FS_Subset
    <3>3. ASSUME BetterLeftOut(k, terms, found) PROVE FALSE
      <4> DEFINE text(d) == Text(d, documents[k][d])
      <4>1. PICK d \in S \ found, e \in found :
              /\ text(e) \cap terms \subseteq text(d) /\ Cardinality(text(d)) <= Cardinality(text(e))
              /\ ~(text(d) \cap terms \subseteq text(e)) \/ Cardinality(text(d)) < Cardinality(text(e))
        BY <3>3 DEF BetterLeftOut, S
      <4>2. d \in Indexed(documents[k]) /\ e \in Indexed(documents[k])
        BY <2>4, <3>1
      <4>3. Hits(ix, terms, d) = terms \cap text(d) /\ Hits(ix, terms, e) = terms \cap text(e)
        BY <2>2, <4>2
      <4>4. Outscores(ix, terms, d, e)
        BY <2>0, <4>1, <4>3 DEF Outscores
      <4> QED BY <3>1, <4>1, <4>4 DEF Leads
    <3> QED BY <2>6, <3>1, <3>2, <3>3
  <2> QED BY <2>7, <2>8 DEF ix, S
<1> QED BY <1>1, IndexInvariant, PTL

\* A call that stores leaves what it fetched, a rebuild nothing else, an update no
\* older text of a record the index held even if the budget is full; and no index
\* goes back to an older text unless two calls overlapped (fetch_and_index,
\* index_records).
THEOREM IndexesFollow == IndexSpec => IndexesFollowOdoo
<1> DEFINE Stores == \A c \in Callers :
             fetched[c] # NothingFetched /\ fetched'[c] = NothingFetched => StoresWhatItFetched(c)
           Forward == \A k \in Indexes, d \in Docs :
             documents'[k][d] \in 0..(documents[k][d] - 1) => Overlapped(k)
<1>1. ASSUME IndexInv, IndexNext PROVE Stores
  <2> SUFFICES ASSUME NEW c \in Callers, fetched[c] # NothingFetched, fetched'[c] = NothingFetched
               PROVE  StoresWhatItFetched(c)
    OBVIOUS
  <2>1. /\ fetched \in [Callers -> {NothingFetched} \cup
              [index : Indexes, replace : BOOLEAN, records : Seq(Records), overtaken : BOOLEAN]]
        /\ "none" \notin Indexes /\ fetched[c] # NothingFetched
    BY <1>1, IndexAssumption DEF IndexInv, IndexTypeOK, NothingFetched
  <2>2. ~(\E b \in Callers, k \in Indexes, replace \in BOOLEAN, ids \in Slices :
            FetchRecords(b, k, replace, ids))
    BY <2>1 DEF FetchRecords, NothingFetched
  <2>3. ~(\E k \in Indexes, d \in Docs : EditRecord(k, d))
    BY <2>1 DEF EditRecord
  <2>4. IndexRecords(c)
    <3>1. PICK b \in Callers : IndexRecords(b)
      BY <1>1, <2>2, <2>3 DEF IndexNext
    <3>2. PICK k : k = fetched[b].index
      OBVIOUS
    <3>3. b = c
      BY <1>1, <2>1, <3>1, <3>2, StoringOvertakes
    <3> QED BY <3>1, <3>3
  <2>5. PICK k : k = fetched[c].index
    OBVIOUS
  <2> DEFINE records == fetched[c].records
             start == IF fetched[c].replace THEN EmptyIndex ELSE Index(k)
             isGiven(d) == [id |-> d, version |-> documents'[k][d]] \in ToSet(records)
  <2>6. /\ k \in Indexes /\ records \in Seq(Records)
        /\ LoopInv(start, records, OtherDocs(k), Len(records), Index(k)')
        /\ Index(k)'.documents = documents'[k]
    <3>1. Index(k)' = [documents |-> documents'[k], frequency |-> frequency'[k], length |-> length'[k]]
      BY DEF Index
    <3> QED BY <1>1, <2>4, <2>5, <3>1, IndexRecordsStores
  <2>7. OtherDocs(k) \in Nat /\ Cardinality(Indexed(documents'[k])) \in Nat /\ MaxDocs \in Nat
    <3>1. Cardinality(Indexed(documents'[k])) \in Nat
      BY <2>6, CountsAreFinite DEF LoopInv, IsIndex
    <3>2. OtherDocs(k) = Cardinality(HeldOf(documents, Indexes \ {k}))
      BY DEF OtherDocs, Held, HeldOf
    <3>3. documents \in [Indexes -> [Docs -> Versions \cup {Absent}]]
      BY <1>1 DEF IndexInv, IndexTypeOK
    <3> QED BY <2>6, <3>1, <3>2, <3>3, HeldSplits, IndexAssumption
  <2>8. ASSUME fetched[c].replace, NEW d \in Indexed(documents'[k])
        PROVE  isGiven(d)
    <3>1. d \in Docs /\ documents'[k][d] # start.documents[d]
      BY <2>8 DEF Indexed, EmptyIndex
    <3> QED BY <2>6, <3>1 DEF LoopInv, ToSet
  <2>9. ASSUME NEW r \in ToSet(records), HasText(r),
               \/ OtherDocs(k) + Cardinality(Indexed(documents'[k])) < MaxDocs
               \/ ~fetched[c].replace /\ documents[k][r.id] # Absent
        PROVE  isGiven(r.id)
    <3>1. PICK i \in 1..Len(records) : r = records[i]
      BY <2>6, <2>9 DEF ToSet
    <3>2. r.id \in Docs
      <4>1. r \in Records
        BY <2>6, <3>1
      <4> QED BY <4>1 DEF Records
    <3>3. ~(/\ r.id \notin Indexed(start.documents)
            /\ OtherDocs(k) + Cardinality(Indexed(documents'[k])) >= MaxDocs)
      <4>1. CASE OtherDocs(k) + Cardinality(Indexed(documents'[k])) < MaxDocs
        BY <2>7, <4>1
      <4>2. CASE ~fetched[c].replace /\ documents[k][r.id] # Absent
        BY <3>2, <4>2 DEF Indexed, Index
      <4> QED BY <2>9, <4>1, <4>2
    <3>4. PICK j \in 1..Len(records) :
            records[j] = [id |-> r.id, version |-> documents'[k][r.id]]
      BY <2>6, <2>9, <3>1, <3>3 DEF LoopInv
    <3> QED BY <2>6, <3>4 DEF ToSet
  <2> QED BY <2>5, <2>8, <2>9 DEF StoresWhatItFetched
<1>2. ASSUME IndexInv, IndexNext PROVE Forward
  <2> SUFFICES ASSUME NEW k \in Indexes, NEW d \in Docs,
                      documents'[k][d] \in 0..(documents[k][d] - 1)
               PROVE  Overlapped(k)
    OBVIOUS
  <2>1. documents[k][d] \in Int /\ documents'[k][d] \in Int /\ documents'[k][d] >= 0
        /\ documents'[k][d] < documents[k][d]
    BY <1>2, IndexAssumption DEF IndexInv, IndexTypeOK, Versions, Absent
  <2>2. PICK c \in Callers : IndexRecords(c)
    BY <1>2, <2>1 DEF IndexNext, FetchRecords, EditRecord, store
  <2>3. PICK j : j = fetched[c].index
    OBVIOUS
  <2> DEFINE start == IF fetched[c].replace THEN EmptyIndex ELSE Index(j)
             records == fetched[c].records
  <2>4. /\ records \in Seq(Records)
        /\ LoopInv(start, records, OtherDocs(j), Len(records), Index(j)')
        /\ \A i \in Indexes \ {j} : Index(i)' = Index(i)
    BY <1>2, <2>2, <2>3, IndexRecordsStores
  <2>5. \A i : Index(i).documents = documents[i] /\ Index(i)'.documents = documents'[i]
    BY DEF Index
  <2>6. j = k
    BY <2>1, <2>4, <2>5
  <2>7. documents'[k][d] # start.documents[d]
    BY <2>1, <2>5, <2>6 DEF EmptyIndex, Absent
  <2>8. PICK i \in 1..Len(records) : records[i] = [id |-> d, version |-> documents'[k][d]]
    BY <2>4, <2>5, <2>6, <2>7 DEF LoopInv
  <2>9. fetched[c].overtaken
    <3>1. fetched[c] # NothingFetched /\ i \in DOMAIN fetched[c].records
      BY <2>2, <2>4 DEF IndexRecords
    <3>2. ~fetched[c].overtaken => documents[k][d] <= documents'[k][d]
      <4>1. ~fetched[c].overtaken =>
              documents[fetched[c].index][fetched[c].records[i].id] <= fetched[c].records[i].version
        BY <1>2, <3>1 DEF IndexInv, NothingFromTheFuture
      <4>2. fetched[c].records[i].id = d /\ fetched[c].records[i].version = documents'[k][d]
        BY <2>8
      <4>3. fetched[c].index = k
        BY <2>3, <2>6
      <4> QED BY <4>1, <4>2, <4>3
    <3> QED BY <2>1, <3>2
  <2>10. fetched'[c] = NothingFetched
    BY <2>2 DEF IndexRecords
  <2> QED BY <2>3, <2>6, <2>9, <2>10 DEF Overlapped
<1>3. IndexInv /\ [IndexNext]_indexVars => [Stores /\ Forward]_indexVars
  BY <1>1, <1>2
<1> QED BY <1>3, IndexInvariant, PTL DEF IndexSpec, IndexesFollowOdoo

-----------------------------------------------------------------------------
(* The calls that keep no state.                                           *)

\* An answer names the tool that gave it.
LEMMA CallsAreNamed ==
  /\ DiagnoseAccess => call'.tool = "diagnose_access"
  /\ ValidateThenVerify => call'.tool = "validate_write"
  /\ SearchRecords => call'.tool = "search_records"
  /\ BuildDomain => call'.tool = "build_domain"
  /\ ChooseFields => call'.tool = "choose_fields"
  /\ DiagnoseOdooCall => call'.tool = "diagnose_odoo_call"
  /\ AnalyzeUpgradeLog => call'.tool = "analyze_upgrade_log"
  /\ UpgradeRisk => call'.tool = "upgrade_risk"
  /\ FitGap => call'.tool = "fit_gap"
  /\ ScanAddonsSource => call'.tool = "scan_addons_source"
  /\ StartServer => call'.tool = "start"
  /\ AssembleServer => call'.tool = "assemble"
  /\ RunSetup => call'.tool = "setup"
  /\ Aging => call'.tool = "aging"
  /\ DataQuality => call'.tool = "data_quality"
<1> USE DEF Call
<1>1. DiagnoseAccess => call'.tool = "diagnose_access"
  BY DEF DiagnoseAccess
<1>2. ValidateThenVerify => call'.tool = "validate_write"
  BY DEF ValidateThenVerify
<1>3. SearchRecords => call'.tool = "search_records"
  BY DEF SearchRecords
<1>4. BuildDomain => call'.tool = "build_domain"
  BY DEF BuildDomain
<1>5. ChooseFields => call'.tool = "choose_fields"
  BY DEF ChooseFields
<1>6. DiagnoseOdooCall => call'.tool = "diagnose_odoo_call"
  BY DEF DiagnoseOdooCall
<1>7. AnalyzeUpgradeLog => call'.tool = "analyze_upgrade_log"
  BY DEF AnalyzeUpgradeLog
<1>8. UpgradeRisk => call'.tool = "upgrade_risk"
  BY DEF UpgradeRisk
<1>9. FitGap => call'.tool = "fit_gap"
  BY DEF FitGap
<1>10. ScanAddonsSource => call'.tool = "scan_addons_source"
  BY DEF ScanAddonsSource
<1>11. StartServer => call'.tool = "start"
  BY DEF StartServer
<1>12. AssembleServer => call'.tool = "assemble"
  BY DEF AssembleServer
<1>13. RunSetup => call'.tool = "setup"
  BY DEF RunSetup
<1>14. Aging => call'.tool = "aging"
  BY DEF Aging
<1>15. DataQuality => call'.tool = "data_quality"
  BY DEF DataQuality
<1> QED
  BY <1>1, <1>2, <1>3, <1>4, <1>5, <1>6, <1>7, <1>8, <1>9, <1>10, <1>11, <1>12,
     <1>13, <1>14, <1>15

\* So an answer of a tool comes from its own action.
LEMMA AnswersComeFromTheirTool ==
  /\ ToolsNext /\ Answers("diagnose_access")' => DiagnoseAccess
  /\ ToolsNext /\ Answers("validate_write")' => ValidateThenVerify
  /\ ToolsNext /\ Answers("start")' => StartServer
  /\ ToolsNext /\ Answers("assemble")' => AssembleServer
  /\ ToolsNext /\ Answers("setup")' => RunSetup
  /\ ToolsNext /\ Answers("diagnose_odoo_call")' => DiagnoseOdooCall
  /\ ToolsNext /\ Answers("analyze_upgrade_log")' => AnalyzeUpgradeLog
  /\ ToolsNext /\ Answers("upgrade_risk")' => UpgradeRisk
  /\ ToolsNext /\ Answers("scan_addons_source")' => ScanAddonsSource
  /\ ToolsNext /\ Answers("aging")' => Aging
  /\ ToolsNext /\ Answers("data_quality")' => DataQuality
  /\ ToolsNext /\ Answers("search_records")' => SearchRecords
  /\ ToolsNext /\ Answers("build_domain")' => BuildDomain
  /\ ToolsNext /\ Answers("choose_fields")' => ChooseFields
BY CallsAreNamed DEF ToolsNext, AnyCall, Answers, Return, NoCall

-----------------------------------------------------------------------------
(* How a server starts.                                                    *)

\* How a server starts, for every environment.
LEMMA StartIsGuarded == StartServer => HttpIsGuarded'
<1> SUFFICES ASSUME NEW env \in StartInputs, Call("start", env, Mode(env))
             PROVE  HttpIsGuarded'
  BY DEF StartServer
<1>1. call' = [tool |-> "start", in |-> env, out |-> Mode(env)]
  BY DEF Call
<1> DEFINE remote == env.docker /\ env.transport # "stdio"
<1>2. /\ remote => Mode(env) \notin {"open", "stdio"}
      /\ Mode(env) = "open" =>
           /\ env.external = {}
           /\ env.docker => env.transport = "stdio" /\ env.args.transport \notin {"none", "stdio"}
      /\ Mode(env) \notin {"refused", "stdio", "fail-closed"} =>
           IF remote THEN env.host = "local" \/ env.allow
                     ELSE Host(env) = "local" \/ Allowed(env)
      /\ env.external # {} => Mode(env) \in {"external-oauth", "stdio", "refused"}
      /\ Mode(env) = "github-oauth" => env.url = "https" /\ env.users # {}
      /\ Mode(env) = "static-bearer" => env.token = "digest" /\ env.github # {"ID", "SECRET"}
  <2>1. /\ External(env) \in {"on", "off", "invalid"}
        /\ External(env) = "off" <=> env.external = {}
    BY DEF External, ExternalNames
  <2>2. /\ Github(env) \in {"on", "off", "invalid"}
        /\ Github(env) = "on" => env.url = "https" /\ env.users # {}
        /\ Github(env) = "off" => env.github # {"ID", "SECRET"}
    BY DEF Github
  <2>3. /\ Gate(env) \in {"static-bearer", "fail-closed", "refused"}
        /\ Gate(env) = "static-bearer" => env.token = "digest"
    BY DEF Gate
  <2> QED
    BY <2>1, <2>2, <2>3 DEF Mode, RemoteMode, CliMode, Transport
<1> QED
  BY <1>1, <1>2 DEF HttpIsGuarded, Answers

\* The wizard writes only when no question was given up at.
LEMMA SetupIsKept == RunSetup => SetupKeepsConfig'
BY DeploymentAssumption DEF RunSetup, Call, SetupKeepsConfig, Answers, Saved

\* What is so after n plugins.
Loading(in, s, n) ==
  LET seen == {in.plugins[i] : i \in 1..n}
      given == BuiltinTools \cup UNION {p.tools : p \in seen}
  IN /\ s \in [tools : SUBSET given, loaded : SUBSET seen, failed : SUBSET seen,
               profile : {in.profile}]
     /\ s.loaded \cup s.failed = seen
     /\ \A t \in BuiltinTools \cup UNION {p.tools : p \in s.loaded} :
          t \in s.tools \/ (in.profile /\ (\E p \in s.loaded : p.sign) /\ t \notin SignTools)

\* One more plugin, whether it is missing, fails, or loads.
LEMMA LoadPluginKeepsLoading ==
  ASSUME NEW in, NEW s, NEW n \in Nat \ {0}, Loading(in, s, n - 1)
  PROVE  Loading(in, LoadPlugin(s, in.plugins[n]), n)
<1> DEFINE plugin == in.plugins[n]
           before == {in.plugins[i] : i \in 1..(n - 1)}
           seen == {in.plugins[i] : i \in 1..n}
           old == BuiltinTools \cup UNION {p.tools : p \in before}
           given == BuiltinTools \cup UNION {p.tools : p \in seen}
           next == LoadPlugin(s, plugin)
<1>1. seen = before \cup {plugin}
  OBVIOUS
<1>2. given = old \cup plugin.tools
  BY <1>1
<1>3. /\ s \in [tools : SUBSET old, loaded : SUBSET before, failed : SUBSET before,
                profile : {in.profile}]
      /\ s.loaded \cup s.failed = before
      /\ \A t \in BuiltinTools \cup UNION {p.tools : p \in s.loaded} :
           t \in s.tools \/ (in.profile /\ (\E p \in s.loaded : p.sign) /\ t \notin SignTools)
  BY DEF Loading
<1> HIDE DEF seen, before, given, old
<1>4. CASE ~plugin.installed
  <2>1. next = [s EXCEPT !.failed = @ \cup {plugin}]
    BY <1>4 DEF LoadPlugin
  <2>2. /\ next.tools = s.tools /\ next.loaded = s.loaded
        /\ next.failed = s.failed \cup {plugin} /\ next.profile = s.profile
        /\ next \in [tools : SUBSET given, loaded : SUBSET seen, failed : SUBSET seen,
                     profile : {in.profile}]
    BY <1>1, <1>2, <1>3, <2>1
  <2>3. next.loaded \cup next.failed = seen
    BY <1>1, <1>3, <2>2
  <2> QED
    BY <1>3, <2>2, <2>3 DEF Loading, seen, given
<1>5. CASE plugin.installed /\ plugin.fails
  <2>1. next = [s EXCEPT !.failed = @ \cup {plugin}, !.tools = s.tools \cup plugin.tools]
    BY <1>5 DEF LoadPlugin
  <2>2. /\ next.tools = s.tools \cup plugin.tools /\ next.loaded = s.loaded
        /\ next.failed = s.failed \cup {plugin} /\ next.profile = s.profile
        /\ next \in [tools : SUBSET given, loaded : SUBSET seen, failed : SUBSET seen,
                     profile : {in.profile}]
    BY <1>1, <1>2, <1>3, <2>1
  <2>3. next.loaded \cup next.failed = seen
    BY <1>1, <1>3, <2>2
  <2>4. \A t \in BuiltinTools \cup UNION {p.tools : p \in next.loaded} :
           t \in next.tools
             \/ (in.profile /\ (\E p \in next.loaded : p.sign) /\ t \notin SignTools)
    BY <1>3, <2>2
  <2> QED
    BY <2>2, <2>3, <2>4 DEF Loading, seen, given
<1>6. CASE plugin.installed /\ ~plugin.fails
  <2> DEFINE registered == s.tools \cup plugin.tools
             left == IF plugin.sign /\ s.profile THEN registered \cap SignTools ELSE registered
  <2>1. next = [s EXCEPT !.loaded = @ \cup {plugin}, !.tools = left]
    BY <1>6 DEF LoadPlugin
  <2>2. left \subseteq given
    BY <1>2, <1>3
  <2>3. /\ next.tools = left /\ next.loaded = s.loaded \cup {plugin}
        /\ next.failed = s.failed /\ next.profile = s.profile
        /\ next \in [tools : SUBSET given, loaded : SUBSET seen, failed : SUBSET seen,
                     profile : {in.profile}]
    <3> HIDE DEF left
    <3> QED BY <1>1, <1>2, <1>3, <2>1, <2>2
  <2>4. next.loaded \cup next.failed = seen
    BY <1>1, <1>3, <2>3
  <2>5. ASSUME NEW t \in BuiltinTools \cup UNION {p.tools : p \in next.loaded}
        PROVE  t \in next.tools
                 \/ (in.profile /\ (\E p \in next.loaded : p.sign) /\ t \notin SignTools)
    <3>1. CASE t \in registered
      BY <1>3, <2>3, <3>1
    <3>2. CASE t \notin registered
      <4>1. t \in BuiltinTools \cup UNION {p.tools : p \in s.loaded}
        BY <2>3, <2>5, <3>2
      <4> QED
        BY <1>3, <2>3, <3>2, <4>1
    <3> QED
      BY <3>1, <3>2
  <2> HIDE DEF left, next
  <2>6. Loading(in, next, n)
    BY <2>3, <2>4, <2>5 DEF Loading, seen, given
  <2> QED
    BY <2>6 DEF next
<1> QED
  BY <1>4, <1>5, <1>6

\* The loop of load_plugins is gone through plugin by plugin.
LEMMA LoadPluginsIsLoading ==
  ASSUME NEW in \in SurfaceInputs
  PROVE  Loading(in, LoadPlugins(in), Len(in.plugins))
<1> DEFINE N == Len(in.plugins)
           start == [tools |-> BuiltinTools, loaded |-> {}, failed |-> {}, profile |-> in.profile]
           Follows(f, n) ==
             /\ f = [i \in 0..n |-> f[i]] /\ f[0] = start
             /\ \A i \in 1..n : f[i] = LoadPlugin(f[i - 1], in.plugins[i])
           Step(h) == [i \in 0..N |->
                         IF i = 0 THEN start ELSE LoadPlugin(h[i - 1], in.plugins[i])]
<1>0. N \in Nat
  BY DeploymentAssumption
<1>1. \E f : Follows(f, N)
  <2> DEFINE Bad == {n \in 0..N : ~ \E f : Follows(f, n)}
  <2>0. 0 <= N /\ N \in 0..N
    BY <1>0
  <2>1. SUFFICES ASSUME Bad # {} PROVE FALSE
    BY <2>0
  <2>2. PICK m \in Bad : \A n \in Bad : m <= n
    <3>1. Bad \in SUBSET Nat
      BY <1>0
    <3> HIDE DEF Bad
    <3> QED BY <2>1, <3>1, LeastNumber
  <2>3. m # 0
    <3>1. Follows([i \in 0..0 |-> start], 0)
      OBVIOUS
    <3> QED BY <3>1
  <2>4. m \in 1..N /\ m - 1 \in 0..N /\ ~(m <= m - 1)
    BY <1>0, <2>2, <2>3
  <2>5. PICK f : Follows(f, m - 1)
    BY <2>2, <2>4
  <2> HIDE DEF start
  <2> DEFINE g == [i \in 0..m |-> IF i = m THEN LoadPlugin(f[m - 1], in.plugins[m]) ELSE f[i]]
  <2>6. Follows(g, m)
    <3>1. g = [i \in 0..m |-> g[i]] /\ g[0] = start
      BY <2>4, <2>5
    <3>2. ASSUME NEW i \in 1..m PROVE g[i] = LoadPlugin(g[i - 1], in.plugins[i])
      <4>1. i \in 0..m /\ i - 1 \in 0..m /\ i - 1 # m
        BY <2>4
      <4>2. g[i - 1] = f[i - 1]
        BY <4>1
      <4>3. CASE i = m
        BY <4>1, <4>2, <4>3
      <4>4. CASE i # m
        <5>1. i \in 1..(m - 1)
          BY <2>4, <4>4
        <5> QED BY <2>5, <4>1, <4>2, <4>4, <5>1
      <4> QED BY <4>3, <4>4
    <3> QED BY <3>1, <3>2
  <2> QED BY <2>2, <2>6
<1>2. \E h : h = Step(h)
  <2>1. PICK f : Follows(f, N)
    BY <1>1
  <2>2. \A i \in 0..N : f[i] = IF i = 0 THEN start ELSE LoadPlugin(f[i - 1], in.plugins[i])
    BY <1>0, <2>1
  <2>3. f = [i \in 0..N |-> f[i]]
    BY <2>1
  <2>4. f = Step(f)
    BY <2>2, <2>3
  <2> QED BY <2>4
<1> DEFINE after == CHOOSE h : h = Step(h)
<1>3. after = Step(after)
  BY <1>2
<1>4. LoadPlugins(in) = after[N]
  BY DEF LoadPlugins
<1> HIDE DEF after, start
<1>5. /\ after[0] = start
      /\ \A i \in 1..N : after[i] = LoadPlugin(after[i - 1], in.plugins[i])
  BY <1>0, <1>3
<1>6. \A n \in 0..N : Loading(in, after[n], n)
  <2> DEFINE Bad == {n \in 0..N : ~Loading(in, after[n], n)}
  <2>1. SUFFICES ASSUME Bad # {} PROVE FALSE
    OBVIOUS
  <2>2. PICK m \in Bad : \A n \in Bad : m <= n
    <3>1. Bad \in SUBSET Nat
      BY <1>0
    <3> HIDE DEF Bad
    <3> QED BY <2>1, <3>1, LeastNumber
  <2>3. m # 0
    <3>1. Loading(in, start, 0)
      BY DEF Loading, start
    <3> QED BY <1>5, <3>1
  <2>4. m \in 1..N /\ m \in Nat \ {0} /\ m - 1 \in 0..N /\ ~(m <= m - 1)
    BY <1>0, <2>2, <2>3
  <2>5. Loading(in, after[m - 1], m - 1)
    BY <2>2, <2>4
  <2>6. Loading(in, after[m], m)
    <3>1. after[m] = LoadPlugin(after[m - 1], in.plugins[m])
      BY <1>5, <2>4
    <3> QED BY <2>4, <2>5, <3>1, LoadPluginKeepsLoading
  <2> QED BY <2>2, <2>6
<1> QED BY <1>0, <1>4, <1>6

\* The filter takes from what was loaded, and adds nothing.
LEMMA SurfaceIsAssembled == AssembleServer => SurfaceIsAsConfigured'
<1> SUFFICES ASSUME NEW in \in SurfaceInputs, NEW s, s = LoadPlugins(in),
                    Call("assemble", in,
                      [tools |-> {t \in s.tools : Kept(in, t)}, loaded |-> s.loaded,
                       failed |-> s.failed])
             PROVE  SurfaceIsAsConfigured'
  BY DEF AssembleServer
<1> DEFINE seen == {in.plugins[i] : i \in 1..Len(in.plugins)}
           out == [tools |-> {t \in s.tools : Kept(in, t)}, loaded |-> s.loaded,
                   failed |-> s.failed]
<1>1. call' = [tool |-> "assemble", in |-> in, out |-> out]
  BY DEF Call
<1>2. seen = ToSet(in.plugins)
  BY DeploymentAssumption DEF ToSet
<1>3. /\ s.tools \subseteq BuiltinTools \cup UNION {p.tools : p \in seen}
      /\ s.loaded \cup s.failed = seen
      /\ \A t \in BuiltinTools \cup UNION {p.tools : p \in s.loaded} :
           t \in s.tools \/ (in.profile /\ (\E p \in s.loaded : p.sign) /\ t \notin SignTools)
  BY LoadPluginsIsLoading DEF Loading
<1> HIDE DEF seen
<1>4. /\ \A t \in out.tools : Kept(in, t) /\ t \in BuiltinTools \cup UNION {p.tools : p \in seen}
      /\ out.loaded \cup out.failed = ToSet(in.plugins)
      /\ \A t \in BuiltinTools \cup UNION {p.tools : p \in out.loaded} :
           Kept(in, t) => t \in out.tools
             \/ ((in.profile /\ \E p \in out.loaded : p.sign) /\ t \notin SignTools)
  BY <1>2, <1>3
<1>5. call'.in = in /\ call'.out = out
  BY <1>1
<1> HIDE DEF out
<1> QED
  BY <1>2, <1>4, <1>5 DEF SurfaceIsAsConfigured

\* However the server was started, assembled and set up: HTTP is guarded
\* (build_app, configure_oauth), plugins neither hide nor lose tools but as the
\* filter and the profile say (load_plugins, apply_tool_filter), and the wizard
\* keeps a config it was not told to replace (run_setup).
THEOREM ServersStartRight == ToolsSpec => []ServersStartAsConfigured
<1> USE DEF ServersStartAsConfigured
<1>1. ToolsInit => ServersStartAsConfigured
  BY DEF ToolsInit, NoCall, HttpIsGuarded, SurfaceIsAsConfigured, SetupKeepsConfig, Answers
<1>2. ServersStartAsConfigured /\ [ToolsNext]_call => ServersStartAsConfigured'
  <2> SUFFICES ASSUME ServersStartAsConfigured, [ToolsNext]_call
               PROVE  ServersStartAsConfigured'
    OBVIOUS
  <2>1. CASE UNCHANGED call
    BY <2>1 DEF HttpIsGuarded, SurfaceIsAsConfigured, SetupKeepsConfig, Answers
  <2>2. CASE ToolsNext
    <3>1. HttpIsGuarded'
      <4>1. CASE Answers("start")'
        BY <2>2, <4>1, AnswersComeFromTheirTool, StartIsGuarded
      <4>2. CASE ~Answers("start")'
        BY <4>2 DEF HttpIsGuarded
      <4> QED BY <4>1, <4>2
    <3>2. SurfaceIsAsConfigured'
      <4>1. CASE Answers("assemble")'
        BY <2>2, <4>1, AnswersComeFromTheirTool, SurfaceIsAssembled
      <4>2. CASE ~Answers("assemble")'
        BY <4>2 DEF SurfaceIsAsConfigured
      <4> QED BY <4>1, <4>2
    <3>3. SetupKeepsConfig'
      <4>1. CASE Answers("setup")'
        BY <2>2, <4>1, AnswersComeFromTheirTool, SetupIsKept
      <4>2. CASE ~Answers("setup")'
        BY <4>2 DEF SetupKeepsConfig
      <4> QED BY <4>1, <4>2
    <3> QED BY <3>1, <3>2, <3>3
  <2> QED BY <2>1, <2>2
<1> QED BY <1>1, <1>2, PTL DEF ToolsSpec

-----------------------------------------------------------------------------
(* What diagnose_access concludes.                                         *)

\* A sequence has no more values than entries.
LEMMA ValuesAreNoMore ==
  ASSUME NEW S, NEW seq \in Seq(S)
  PROVE  /\ IsFiniteSet(ToSet(seq)) /\ Cardinality(ToSet(seq)) <= Len(seq)
         /\ Cardinality(ToSet(seq)) \in Nat /\ Len(seq) \in Nat
<1>1. Len(seq) \in Nat /\ DOMAIN seq = 1..Len(seq)
  OBVIOUS
<1>2. IsFiniteSet(1..Len(seq)) /\ Cardinality(1..Len(seq)) = Len(seq)
  BY <1>1, FS_Interval
<1>3. seq \in Surjection(1..Len(seq), ToSet(seq))
  BY <1>1 DEF Surjection, ToSet
<1>4. IsFiniteSet(ToSet(seq)) /\ Cardinality(ToSet(seq)) <= Len(seq)
  BY <1>2, <1>3, FS_Surjection
<1> QED
  BY <1>1, <1>4, FS_CardinalityType

\* The rows the tool reads are the first ones, all of them below the limit.
LEMMA RowsAreRead ==
  ASSUME NEW in \in AccessInputs
  PROVE  LET rows == AclRows(in) IN
         /\ \A i \in DOMAIN rows : i \in DOMAIN in.rows /\ rows[i] = in.rows[i]
         /\ Succeeds(in, "ir.model.access") =>
              /\ Len(in.rows) <= in.limit => rows = in.rows
              /\ rows = <<>> => in.rows = <<>>
<1> DEFINE m == Min({in.limit, Len(in.rows)})
<1>1. in.limit \in Nat \ {0} /\ Len(in.rows) \in Nat /\ in.rows \in Seq(ToSet(in.rows))
  BY AccessAssumption
<1>2. m \in {in.limit, Len(in.rows)} /\ m <= in.limit /\ m <= Len(in.rows)
  <2>1. \E x \in {in.limit, Len(in.rows)} : \A y \in {in.limit, Len(in.rows)} : x <= y
    BY <1>1
  <2>2. /\ m \in {in.limit, Len(in.rows)}
        /\ \A y \in {in.limit, Len(in.rows)} : m <= y
    BY <2>1 DEF Min
  <2> QED BY <2>2
<1> HIDE DEF m
<1>3. CASE Succeeds(in, "ir.model.access")
  <2>1. AclRows(in) = SubSeq(in.rows, 1, m)
    BY <1>3 DEF AclRows, m
  <2>2. /\ SubSeq(in.rows, 1, m) \in Seq(ToSet(in.rows)) /\ Len(SubSeq(in.rows, 1, m)) = m
        /\ \A i \in 1..m : SubSeq(in.rows, 1, m)[i] = in.rows[i]
    BY <1>1, <1>2
  <2>3. DOMAIN SubSeq(in.rows, 1, m) = 1..m /\ DOMAIN in.rows = 1..Len(in.rows)
    BY <1>1, <1>2, <2>2
  <2>4. ASSUME Len(in.rows) <= in.limit PROVE SubSeq(in.rows, 1, m) = in.rows
    <3>1. m = Len(in.rows)
      BY <1>1, <1>2, <2>4
    <3> QED BY <1>1, <2>2, <3>1, SeqEqual
  <2>5. ASSUME SubSeq(in.rows, 1, m) = <<>> PROVE in.rows = <<>>
    <3>1. m = 0
      BY <2>2, <2>5
    <3>2. Len(in.rows) = 0
      BY <1>1, <1>2, <3>1
    <3> QED BY <1>1, <3>2
  <2> QED
    BY <1>1, <1>2, <1>3, <2>1, <2>2, <2>3, <2>4, <2>5
<1>4. CASE ~Succeeds(in, "ir.model.access")
  BY <1>4 DEF AclRows
<1> QED
  BY <1>3, <1>4

\* A denial of Odoo's, or a report that says what it could not read.
LEMMA DenialIsJustified == DiagnoseAccess => DenialsAreJustified'
<1> SUFFICES ASSUME NEW in \in AccessInputs, Call("diagnose_access", in, DiagnosisCodes(in))
             PROVE  DenialsAreJustified'
  BY DEF DiagnoseAccess
<1>1. call'.in = in /\ call'.out = DiagnosisCodes(in)
  BY DEF Call
<1> SUFFICES ASSUME "acl_denied_likely" \in DiagnosisCodes(in),
                    "metadata_access_unavailable" \notin DiagnosisCodes(in),
                    UidKnown(in), Len(in.rows) <= in.limit,
                    NEW i \in DOMAIN in.rows, RowGrants(in.rows[i], in.groups)
             PROVE  FALSE
  BY <1>1 DEF DenialsAreJustified
<1>2. AclRows(in) # <<>> /\ Granting(in) = {} /\ MetadataErrors(in) = {}
  BY DEF DiagnosisCodes
<1>3. Succeeds(in, "ir.model.access")
  BY <1>2 DEF AclRows
<1>4. AclRows(in) = in.rows
  BY <1>3, RowsAreRead
<1>5. "users.read" \notin in.failing /\ "fields_get" \notin in.failing
  BY <1>2 DEF MetadataErrors, Reached
<1>6. UserGroups(in) = in.groups \/ in.groups = {}
  BY <1>5 DEF UserGroups, Succeeds, Reached
<1>7. RowGrants(in.rows[i], UserGroups(in))
  BY <1>6 DEF RowGrants
<1> QED
  BY <1>2, <1>4, <1>7 DEF Granting

\* A clean bill is one Odoo would sign.
LEMMA CleanBillIsClean == DiagnoseAccess => CleanVerdictsAreClean'
<1> SUFFICES ASSUME NEW in \in AccessInputs, Call("diagnose_access", in, DiagnosisCodes(in))
             PROVE  CleanVerdictsAreClean'
  BY DEF DiagnoseAccess
<1>1. call'.in = in /\ call'.out = DiagnosisCodes(in)
  BY DEF Call
<1> SUFFICES ASSUME DiagnosisCodes(in) = {"no_access_issue_detected"}
             PROVE  /\ in.rows = <<>> \/ \E i \in DOMAIN in.rows : RowGrants(in.rows[i], in.groups)
                    /\ ToSet(in.ids) \subseteq in.visible
                    /\ in.expected <= ActualCount(in)
  BY <1>1 DEF CleanVerdictsAreClean
<1>2. /\ MetadataErrors(in) = {}
      /\ AclRows(in) = <<>> \/ Granting(in) # {}
      /\ ~CountMismatch(in)
  <2>1. "metadata_access_unavailable" \notin DiagnosisCodes(in)
    OBVIOUS
  <2>2. "acl_denied_likely" \notin DiagnosisCodes(in)
    OBVIOUS
  <2>3. /\ "record_rule_filter_likely" \notin DiagnosisCodes(in)
        /\ "domain_or_rule_filter_likely" \notin DiagnosisCodes(in)
    OBVIOUS
  <2>4. MetadataErrors(in) = {}
    BY <2>1 DEF DiagnosisCodes
  <2>5. AclRows(in) = <<>> \/ Granting(in) # {}
    BY <2>2 DEF DiagnosisCodes
  <2>6. ~(CountMismatch(in) /\ ActiveRules(in) # {})
    BY <2>3 DEF DiagnosisCodes
  <2>7. ~(CountMismatch(in) /\ ActiveRules(in) = {})
    BY <2>3 DEF DiagnosisCodes
  <2> QED BY <2>4, <2>5, <2>6, <2>7
<1>3. \A read \in in.failing : ~Reached(in, read)
  BY <1>2 DEF MetadataErrors
<1>4. /\ IsFiniteSet(in.visible) /\ in.direct \subseteq in.groups /\ in.expected \in Int
      /\ in.ids \in Seq(ToSet(in.ids))
  BY AccessAssumption
<1>5. in.rows = <<>> \/ \E i \in DOMAIN in.rows : RowGrants(in.rows[i], in.groups)
  <2>1. Succeeds(in, "ir.model.access")
    <3>1. "ir.model" \notin in.failing
      BY <1>3 DEF Reached
    <3> QED BY <1>3, <3>1 DEF Succeeds, Reached
  <2>2. CASE AclRows(in) = <<>>
    BY <2>1, <2>2, RowsAreRead
  <2>3. CASE Granting(in) # {}
    <3>1. PICK i \in DOMAIN AclRows(in) : RowGrants(AclRows(in)[i], UserGroups(in))
      BY <2>3 DEF Granting
    <3>2. i \in DOMAIN in.rows /\ AclRows(in)[i] = in.rows[i]
      BY RowsAreRead
    <3>3. UserGroups(in) \subseteq in.groups
      BY <1>4 DEF UserGroups
    <3>4. RowGrants(in.rows[i], in.groups)
      BY <3>1, <3>2, <3>3 DEF RowGrants
    <3> QED BY <3>2, <3>4
  <2> QED BY <1>2, <2>2, <2>3
<1>6. Reached(in, "search_count") =>
        ~(ActualCount(in) < in.expected) /\ ~(ActualCount(in) < Len(in.ids))
  BY <1>2, <1>3 DEF CountMismatch, Succeeds
<1>7. /\ IsFiniteSet(ToSet(in.ids)) /\ Cardinality(ToSet(in.ids)) <= Len(in.ids)
      /\ Cardinality(ToSet(in.ids)) \in Nat /\ Len(in.ids) \in Nat
  BY <1>4, ValuesAreNoMore
<1> DEFINE seen == ToSet(in.ids) \cap in.visible
<1>8. /\ IsFiniteSet(seen) /\ Cardinality(seen) \in Nat /\ Cardinality(in.visible) \in Nat
      /\ Cardinality(seen) = Cardinality(ToSet(in.ids)) => seen = ToSet(in.ids)
      /\ Cardinality(seen) <= Cardinality(ToSet(in.ids))
  BY <1>4, <1>7, FS_Subset, FS_CardinalityType
<1>9. ActualCount(in) \in Nat
  BY <1>8 DEF ActualCount
<1>10. in.expected <= ActualCount(in)
  <2>1. CASE Reached(in, "search_count")
    BY <1>4, <1>6, <1>9, <2>1
  <2>2. CASE ~Reached(in, "search_count")
    BY <1>4, <1>9, <2>2 DEF Reached
  <2> QED BY <2>1, <2>2
<1>11. ToSet(in.ids) \subseteq in.visible
  <2>1. CASE in.ids = <<>>
    BY <2>1 DEF ToSet
  <2>2. CASE in.ids # <<>>
    <3>1. Reached(in, "search_count") /\ ActualCount(in) = Cardinality(seen)
      BY <2>2 DEF Reached, ActualCount
    <3>2. Cardinality(seen) = Cardinality(ToSet(in.ids))
      <4> HIDE DEF seen
      <4> QED BY <1>6, <1>7, <1>8, <3>1
    <3> QED BY <1>8, <3>2
  <2> QED BY <2>1, <2>2
<1> QED
  BY <1>5, <1>10, <1>11

\* Whatever metadata could be read, on whatever version of Odoo: a denial of
\* diagnose_access is one Odoo would give, and a clean bill is right about the
\* operation, the records and their number.
THEOREM AccessIsDiagnosed == ToolsSpec => []AccessVerdictsAreRight
<1> USE DEF AccessVerdictsAreRight
<1>1. ToolsInit => AccessVerdictsAreRight
  BY DEF ToolsInit, NoCall, DenialsAreJustified, CleanVerdictsAreClean, Answers
<1>2. AccessVerdictsAreRight /\ [ToolsNext]_call => AccessVerdictsAreRight'
  <2> SUFFICES ASSUME AccessVerdictsAreRight, [ToolsNext]_call PROVE AccessVerdictsAreRight'
    OBVIOUS
  <2>1. CASE UNCHANGED call
    BY <2>1 DEF DenialsAreJustified, CleanVerdictsAreClean, Answers
  <2>2. CASE ToolsNext /\ Answers("diagnose_access")'
    BY <2>2, AnswersComeFromTheirTool, DenialIsJustified, CleanBillIsClean
  <2>3. CASE ~Answers("diagnose_access")'
    BY <2>3 DEF DenialsAreJustified, CleanVerdictsAreClean
  <2> QED BY <2>1, <2>2, <2>3
<1> QED BY <1>1, <1>2, PTL DEF ToolsSpec

-----------------------------------------------------------------------------
(* What an approval stands for.                                            *)

PayloadFields == {"op", "ids", "values", "batch", "list", "context", "instance"}

\* canonical_json normalises the values, the list and the instance; the rest of
\* a payload goes into the digest as it is.
LEMMA CanonicalFields ==
  ASSUME NEW p, DOMAIN p = PayloadFields
  PROVE  LET c == Canonical(p) IN
         /\ DOMAIN c = PayloadFields /\ c = [x \in PayloadFields |-> c[x]]
         /\ c.op = p.op /\ c.ids = p.ids /\ c.batch = p.batch /\ c.context = p.context
         /\ c.values = Integral(p.values)
         /\ c.list = IF p.batch THEN [i \in DOMAIN p.list |-> [p.list[i] EXCEPT !.values = Integral(@)]]
                     ELSE <<>>
         /\ c.instance = IF p.instance = "" THEN "default" ELSE p.instance
<1> DEFINE list == IF p.batch THEN [i \in DOMAIN p.list |-> [p.list[i] EXCEPT !.values = Integral(@)]]
                   ELSE <<>>
           instance == IF p.instance = "" THEN "default" ELSE p.instance
<1>1. Canonical(p) = [p EXCEPT !.values = Integral(p.values), !.list = list, !.instance = instance]
  BY DEF Canonical
<1> HIDE DEF list, instance
<1>2. LET c == [p EXCEPT !.values = Integral(p.values), !.list = list, !.instance = instance] IN
      /\ DOMAIN c = PayloadFields /\ c = [x \in PayloadFields |-> c[x]]
      /\ c.op = p.op /\ c.ids = p.ids /\ c.batch = p.batch /\ c.context = p.context
      /\ c.values = Integral(p.values) /\ c.list = list /\ c.instance = instance
  BY DEF PayloadFields
<1> QED
  BY <1>1, <1>2 DEF list, instance

\* A number that comes back as a float is the same number to canonical_json.
LEMMA IntegralFloats ==
  ASSUME NEW values
  PROVE  Integral(Floats(values)) = Integral(values)
BY DEF Integral, Floats

\* The token does not depend on how the caller's JSON writes its integers.
LEMMA FloatsVerify ==
  ASSUME NEW p, DOMAIN p = PayloadFields,
         \A i \in DOMAIN p.list : DOMAIN p.list[i] = {"object", "values"},
         NEW edit, edit.entry = "floats"
  PROVE  Canonical(Returned(p, edit)) = Canonical(p)
<1> DEFINE list == [i \in DOMAIN p.list |-> [p.list[i] EXCEPT !.values = Floats(@)]]
           q == [p EXCEPT !.values = Floats(@), !.list = list]
<1>1. Returned(p, edit) = q
  <2>1. edit.entry = "floats" /\ edit.entry # "none"
    OBVIOUS
  <2> QED BY <2>1 DEF Returned
<1>2. /\ DOMAIN q = PayloadFields
      /\ q.op = p.op /\ q.ids = p.ids /\ q.batch = p.batch /\ q.context = p.context
      /\ q.instance = p.instance /\ q.values = Floats(p.values) /\ q.list = list
  BY DEF PayloadFields
<1>3. DOMAIN list = DOMAIN p.list
  OBVIOUS
<1>4. ASSUME NEW i \in DOMAIN p.list
      PROVE  [list[i] EXCEPT !.values = Integral(@)] = [p.list[i] EXCEPT !.values = Integral(@)]
  <2>1. list[i] = [p.list[i] EXCEPT !.values = Floats(@)]
    BY <1>4
  <2>2. list[i].values = Floats(p.list[i].values) /\ DOMAIN list[i] = {"object", "values"}
        /\ list[i].object = p.list[i].object
    BY <1>4, <2>1
  <2> HIDE DEF list
  <2> QED BY <1>4, <2>2, IntegralFloats
<1> HIDE DEF q, list
<1>5. [i \in DOMAIN list |-> [list[i] EXCEPT !.values = Integral(@)]]
        = [i \in DOMAIN p.list |-> [p.list[i] EXCEPT !.values = Integral(@)]]
  BY <1>3, <1>4
<1> DEFINE c == Canonical(q)
           d == Canonical(p)
<1>6. /\ c = [x \in PayloadFields |-> c[x]] /\ d = [x \in PayloadFields |-> d[x]]
      /\ c.op = d.op /\ c.ids = d.ids /\ c.batch = d.batch /\ c.context = d.context
      /\ c.values = d.values /\ c.list = d.list /\ c.instance = d.instance
  <2>1. /\ d = [x \in PayloadFields |-> d[x]]
        /\ d.op = p.op /\ d.ids = p.ids /\ d.batch = p.batch /\ d.context = p.context
        /\ d.values = Integral(p.values)
        /\ d.list = IF p.batch THEN [i \in DOMAIN p.list |-> [p.list[i] EXCEPT !.values = Integral(@)]]
                    ELSE <<>>
        /\ d.instance = IF p.instance = "" THEN "default" ELSE p.instance
    BY CanonicalFields
  <2>2. /\ c = [x \in PayloadFields |-> c[x]]
        /\ c.op = q.op /\ c.ids = q.ids /\ c.batch = q.batch /\ c.context = q.context
        /\ c.values = Integral(q.values)
        /\ c.list = IF q.batch THEN [i \in DOMAIN q.list |-> [q.list[i] EXCEPT !.values = Integral(@)]]
                    ELSE <<>>
        /\ c.instance = IF q.instance = "" THEN "default" ELSE q.instance
    BY <1>2, CanonicalFields
  <2> HIDE DEF c, d
  <2>3. c.values = d.values
    BY <1>2, <2>1, <2>2, IntegralFloats
  <2>4. c.list = d.list
    <3> DEFINE Ints(l) == [i \in DOMAIN l |-> [l[i] EXCEPT !.values = Integral(@)]]
    <3>1. /\ Ints(list) = Ints(p.list) /\ q.list = list /\ q.batch = p.batch
          /\ d.list = IF p.batch THEN Ints(p.list) ELSE <<>>
          /\ c.list = IF q.batch THEN Ints(q.list) ELSE <<>>
      BY <1>2, <1>5, <2>1, <2>2
    <3> HIDE DEF Ints
    <3>2. Ints(q.list) = Ints(list)
      BY <3>1
    <3> QED BY <3>1, <3>2
  <2> QED BY <1>2, <2>1, <2>2, <2>3, <2>4
<1> HIDE DEF c, d
<1>7. c = d
  BY <1>6 DEF PayloadFields
<1> QED
  BY <1>1, <1>7 DEF c, d

\* verify_write_approval accepts what validate_write approved, and that only.
LEMMA ApprovalIsBinding == ValidateThenVerify => ApprovalsAreBinding'
<1> SUFFICES ASSUME NEW in \in WriteInputs,
                    Call("validate_write", in,
                      [success |-> Validated(in), verified |-> Validated(in) /\ Verifies(in)])
             PROVE  ApprovalsAreBinding'
  BY DEF ValidateThenVerify
<1> DEFINE p == in.payload
           out == [success |-> Validated(in), verified |-> Validated(in) /\ Verifies(in)]
<1>1. call'.in = in /\ call'.out = out
  BY DEF Call
<1>2. Verifies(in) => Executed(Returned(p, in.edit)) = Executed(p)
  BY DEF Verifies, Executed
<1>3. in.edit.entry \in {"none", "floats"} => Verifies(in)
  <2>1. CASE in.edit.entry = "none"
    BY <2>1 DEF Verifies, Returned
  <2>2. CASE in.edit.entry = "floats"
    <3>1. DOMAIN p = PayloadFields /\ \A i \in DOMAIN p.list : DOMAIN p.list[i] = {"object", "values"}
      BY WriteAssumption DEF PayloadFields
    <3>2. Canonical(Returned(p, in.edit)) = Canonical(p)
      BY <2>2, <3>1, FloatsVerify
    <3> QED BY <3>2 DEF Verifies
  <2> QED BY <2>1, <2>2
<1>4. out.success = Validated(in) /\ out.verified = (Validated(in) /\ Verifies(in))
  OBVIOUS
<1> HIDE DEF out
<1> QED
  BY <1>1, <1>2, <1>3, <1>4 DEF ApprovalsAreBinding

\* Integral changes no field of a dictionary, so none is lost.
LEMMA IntegralKeepsFields ==
  ASSUME NEW values, IsDictionary(values)
  PROVE  /\ DOMAIN Integral(values) = DOMAIN values
         /\ values # <<>> => Integral(values) # <<>>
<1>1. DOMAIN Integral(values) = DOMAIN values
  BY DEF Integral
<1>2. ASSUME DOMAIN values = {} PROVE values = <<>>
  <2>1. values = [f \in {} |-> values[f]]
    BY <1>2 DEF IsDictionary
  <2>2. <<>> = [f \in {} |-> values[f]]
    OBVIOUS
  <2> QED BY <2>1, <2>2
<1>3. ASSUME Integral(values) = <<>> PROVE DOMAIN values = {}
  <2>1. DOMAIN <<>> = {}
    OBVIOUS
  <2> QED BY <1>1, <1>3, <2>1
<1> QED
  BY <1>1, <1>2, <1>3

\* What a payload that validates does.
LEMMA ValidatedIsSound ==
  ASSUME NEW in \in WriteInputs, Validated(in)
  PROVE  LET does == Executed(in.payload) IN
         /\ does.method # "create" <=> does.ids # <<>>
         /\ does.method # "unlink" <=> does.vals # <<>>
         /\ Len(does.vals) <= MaxBatch
         /\ \A i \in DOMAIN does.vals :
              /\ does.vals[i] # <<>>
              /\ DOMAIN does.vals[i] \subseteq in.metadata.known \ in.metadata.readonly
<1> DEFINE p == in.payload
           does == Executed(p)
           settable == in.metadata.known \ in.metadata.readonly
           batch == [i \in DOMAIN p.list |-> [p.list[i] EXCEPT !.values = Integral(@)]]
<1>1. /\ DOMAIN p = PayloadFields /\ MaxBatch \in Nat /\ MaxBatch >= 1
      /\ IsDictionary(p.values) /\ p.list \in Seq(ToSet(p.list))
      /\ \A i \in DOMAIN p.list :
           DOMAIN p.list[i] = {"object", "values"} /\ IsDictionary(p.list[i].values)
  BY WriteAssumption DEF PayloadFields
<1>2. WellFormed(p) /\ \A values \in Dictionaries(p) : DOMAIN values \subseteq settable
  BY DEF Validated, Settable
<1> HIDE DEF settable
<1> SUFFICES /\ does.method # "create" <=> does.ids # <<>>
             /\ does.method # "unlink" <=> does.vals # <<>>
             /\ Len(does.vals) <= MaxBatch
             /\ \A i \in DOMAIN does.vals :
                  does.vals[i] # <<>> /\ DOMAIN does.vals[i] \subseteq settable
  BY DEF settable
<1>3. /\ does.method = p.op
      /\ does.ids = IF p.op = "create" THEN <<>> ELSE p.ids
      /\ p.op = "unlink" => does.vals = <<>>
      /\ p.op = "create" /\ p.batch => does.vals = [i \in DOMAIN batch |-> batch[i].values]
      /\ p.op # "unlink" /\ ~(p.op = "create" /\ p.batch) => does.vals = <<Integral(p.values)>>
  <2> DEFINE c == Canonical(p)
  <2>1. /\ c.op = p.op /\ c.ids = p.ids /\ c.batch = p.batch /\ c.values = Integral(p.values)
        /\ p.batch => c.list = batch
    BY <1>1, CanonicalFields
  <2>2. does = [method |-> c.op, context |-> c.context, instance |-> c.instance,
                ids |-> IF c.op = "create" THEN <<>> ELSE c.ids,
                vals |-> CASE c.op = "unlink" -> <<>>
                           [] c.op = "create" /\ c.batch -> [i \in DOMAIN c.list |-> c.list[i].values]
                           [] OTHER -> <<c.values>>]
    BY DEF Executed
  <2> HIDE DEF c, does, batch
  <2> QED BY <2>1, <2>2
<1> HIDE DEF does
<1>4. p.op \in {"create", "write", "unlink"} /\ (p.batch => p.op = "create")
      /\ (p.op # "create" => p.ids # <<>>)
  BY <1>2 DEF WellFormed
<1>5. CASE p.op = "unlink"
  BY <1>1, <1>3, <1>4, <1>5
<1>6. CASE p.op # "unlink" /\ ~p.batch
  <2>1. p.values # <<>> /\ DOMAIN p.values \subseteq settable
    BY <1>2, <1>4, <1>6 DEF WellFormed, Dictionaries
  <2>2. Integral(p.values) # <<>> /\ DOMAIN Integral(p.values) \subseteq settable
    BY <1>1, <2>1, IntegralKeepsFields
  <2>3. does.vals = <<Integral(p.values)>>
    BY <1>3, <1>6
  <2>4. Len(does.vals) = 1 /\ DOMAIN does.vals = {1} /\ does.vals[1] = Integral(p.values)
        /\ does.vals # <<>>
    BY <2>3
  <2> QED
    BY <1>1, <1>3, <1>4, <1>6, <2>2, <2>4
<1>7. CASE p.batch
  <2>1. /\ p.op = "create" /\ Len(p.list) \in 1..MaxBatch
        /\ \A i \in DOMAIN p.list : p.list[i].object /\ p.list[i].values # <<>>
    BY <1>2, <1>7 DEF WellFormed
  <2>2. \A i \in DOMAIN p.list : DOMAIN p.list[i].values \subseteq settable
    BY <1>2, <1>7, <2>1 DEF Dictionaries
  <2>3. DOMAIN batch = DOMAIN p.list /\ DOMAIN p.list = 1..Len(p.list) /\ Len(p.list) \in Nat
    BY <1>1
  <2>4. ASSUME NEW i \in DOMAIN p.list PROVE batch[i].values = Integral(p.list[i].values)
    BY <1>1, <2>4
  <2> HIDE DEF batch
  <2>5. does.vals = [i \in 1..Len(p.list) |-> Integral(p.list[i].values)]
    BY <1>3, <1>7, <2>1, <2>3, <2>4
  <2>6. DOMAIN does.vals = 1..Len(p.list) /\ Len(does.vals) = Len(p.list) /\ does.vals # <<>>
    <3>1. DOMAIN does.vals = 1..Len(p.list)
      BY <2>5
    <3>2. Len(does.vals) = Len(p.list)
      BY <2>3, <2>5
    <3>3. 1 \in 1..Len(p.list)
      BY <2>1
    <3> QED BY <3>1, <3>2, <3>3
  <2>7. ASSUME NEW i \in DOMAIN does.vals
        PROVE  does.vals[i] # <<>> /\ DOMAIN does.vals[i] \subseteq settable
    <3>1. i \in DOMAIN p.list /\ does.vals[i] = Integral(p.list[i].values)
      BY <2>3, <2>5, <2>6, <2>7
    <3> QED BY <1>1, <2>1, <2>2, <3>1, IntegralKeepsFields
  <2> QED
    BY <1>1, <1>3, <2>1, <2>6, <2>7
<1> QED
  BY <1>4, <1>5, <1>6, <1>7

\* So a validated call names records or creates them, within a batch, and sets
\* only fields that exist and can be written.
LEMMA ValidatedCallIsSound == ValidateThenVerify => ValidatedCallsAreSound'
<1> SUFFICES ASSUME NEW in \in WriteInputs,
                    Call("validate_write", in,
                      [success |-> Validated(in), verified |-> Validated(in) /\ Verifies(in)])
             PROVE  ValidatedCallsAreSound'
  BY DEF ValidateThenVerify
<1>1. call'.in = in /\ call'.out.success = Validated(in)
  BY DEF Call
<1> QED
  BY <1>1, ValidatedIsSound DEF ValidatedCallsAreSound

\* Of every payload and every edit of its approval: what verifies is the call
\* that was validated (build_approval_token, verify_write_approval), what went
\* through JSON still verifies, and what validates is sound (validate_write).
THEOREM ApprovalsAreRight == ToolsSpec => []ApprovalsAreExact
<1> USE DEF ApprovalsAreExact
<1>1. ToolsInit => ApprovalsAreExact
  BY DEF ToolsInit, NoCall, ApprovalsAreBinding, ValidatedCallsAreSound, Answers
<1>2. ApprovalsAreExact /\ [ToolsNext]_call => ApprovalsAreExact'
  <2> SUFFICES ASSUME ApprovalsAreExact, [ToolsNext]_call PROVE ApprovalsAreExact'
    OBVIOUS
  <2>1. CASE UNCHANGED call
    BY <2>1 DEF ApprovalsAreBinding, ValidatedCallsAreSound, Answers
  <2>2. CASE ToolsNext /\ Answers("validate_write")'
    BY <2>2, AnswersComeFromTheirTool, ApprovalIsBinding, ValidatedCallIsSound
  <2>3. CASE ~Answers("validate_write")'
    BY <2>3 DEF ApprovalsAreBinding, ValidatedCallsAreSound
  <2> QED BY <2>1, <2>2, <2>3
<1> QED BY <1>1, <1>2, PTL DEF ToolsSpec

-----------------------------------------------------------------------------
(* What the analyses of diagnostics.py find.                               *)

\* The places at which a sequence has an element of a set.
Places(s, X) == {i \in DOMAIN s : s[i] \in X}

\* What two sequences one after the other hold of a set is what each holds.
LEMMA CountedInBoth ==
  ASSUME NEW S, NEW s \in Seq(S), NEW t \in Seq(S), NEW X
  PROVE  /\ s \o t \in Seq(S)
         /\ Cardinality(Places(s \o t, X)) = Cardinality(Places(s, X)) + Cardinality(Places(t, X))
         /\ Cardinality(Places(s, X)) \in Nat /\ Cardinality(Places(t, X)) \in Nat
<1> DEFINE k == Len(s)
           n == Len(t)
           both == s \o t
           A == {i \in DOMAIN s : s[i] \in X}
           B == {i \in DOMAIN t : t[i] \in X}
           C == {i \in (k + 1)..(k + n) : both[i] \in X}
<1>1. /\ k \in Nat /\ n \in Nat /\ DOMAIN s = 1..k /\ DOMAIN t = 1..n
      /\ both \in Seq(S) /\ DOMAIN both = 1..(k + n)
      /\ \A i \in 1..k : both[i] = s[i]
      /\ \A i \in (k + 1)..(k + n) : both[i] = t[i - k]
  <2>1. k \in Nat /\ n \in Nat /\ DOMAIN s = 1..k /\ DOMAIN t = 1..n
    OBVIOUS
  <2>2. both \in Seq(S) /\ Len(both) = k + n
    BY ConcatProperties
  <2>3. \A i \in 1..(k + n) : both[i] = IF i <= k THEN s[i] ELSE t[i - k]
    BY ConcatProperties
  <2> HIDE DEF k, n, both
  <2> QED BY <2>1, <2>2, <2>3
<1> HIDE DEF k, n, both
<1>2. Places(both, X) = A \cup C /\ A \cap C = {}
  BY <1>1 DEF Places
<1>3. IsFiniteSet(A) /\ IsFiniteSet(B) /\ IsFiniteSet(C)
  <2>1. \A a, b \in Int : IsFiniteSet(a..b)
    BY FS_Interval
  <2>2. A \subseteq 1..k /\ B \subseteq 1..n /\ C \subseteq (k + 1)..(k + n)
    BY <1>1
  <2>3. IsFiniteSet(1..k) /\ IsFiniteSet(1..n) /\ IsFiniteSet((k + 1)..(k + n))
    BY <1>1, <2>1
  <2> HIDE DEF A, B, C
  <2> QED BY <2>2, <2>3, FS_Subset
<1>4. Cardinality(B) = Cardinality(C)
  <2> DEFINE f == [i \in B |-> i + k]
  <2>1. f \in [B -> C]
    BY <1>1
  <2>2. \A i, j \in B : f[i] = f[j] => i = j
    BY <1>1
  <2>3. \A c \in C : \E i \in B : f[i] = c
    <3> SUFFICES ASSUME NEW c \in C PROVE \E i \in B : f[i] = c
      OBVIOUS
    <3>1. c - k \in B /\ c - k + k = c
      BY <1>1
    <3> QED BY <3>1
  <2> HIDE DEF f, B, C
  <2>4. f \in Surjection(B, C) /\ f \in Injection(B, C)
    BY <2>1, <2>2, <2>3 DEF Surjection, Injection, IsInjective
  <2> QED BY <1>3, <2>4, FS_Surjection
<1> HIDE DEF A, B, C
<1>5. Cardinality(A \cup C) = Cardinality(A) + Cardinality(C) /\ Cardinality(A) \in Nat /\ Cardinality(C) \in Nat
  BY <1>2, <1>3, CountedApart
<1>6. A = Places(s, X) /\ B = Places(t, X)
  BY DEF A, B, Places
<1> QED BY <1>1, <1>2, <1>4, <1>5, <1>6 DEF both

\* A code, a severity and an action of the worklist: the risks the report raises
\* about methods and modules never need a script.
LEMMA WarningsNeedNoScript ==
  ASSUME NEW T, NEW seq \in Seq(T), NEW raising,
         NEW code \in {"destructive_method_review", "unknown_custom_method", "custom_module_upgrade"},
         NEW S, Risk(code, "warning") \in S, NEW w, w = Warnings(seq, raising, code)
  PROVE  /\ w \in Seq(S)
         /\ Places(w, {x \in S : Action(x) = "needs_script"}) = {}
         /\ \A i \in DOMAIN w : w[i].severity # "error"
<1> DEFINE k == Cardinality({j \in DOMAIN seq : seq[j] = raising})
<1>1. k \in Nat
  <2>1. DOMAIN seq = 1..Len(seq) /\ Len(seq) \in Nat
    OBVIOUS
  <2>2. IsFiniteSet(DOMAIN seq) /\ {j \in DOMAIN seq : seq[j] = raising} \subseteq DOMAIN seq
    BY <2>1, FS_Interval
  <2> QED BY <2>2, FS_Subset, FS_CardinalityType
<1>2. w = [i \in 1..k |-> Risk(code, "warning")]
  BY DEF Warnings
<1> HIDE DEF k
<1>3. Action(Risk(code, "warning")) = "needs_review" /\ Risk(code, "warning").severity = "warning"
  <2>1. Lower["warning"] = "warning"
    BY DiagnosticsAssumption
  <2> QED BY <2>1 DEF Action, Risk, ScriptCodes, ReviewCodes, InventoryCodes
<1>4. \A i \in DOMAIN w : w[i] = Risk(code, "warning")
  BY <1>2
<1>5. w \in Seq(S)
  BY <1>1, <1>2
<1> QED BY <1>3, <1>4, <1>5 DEF Places

\* What stands in two sequences one after the other stands in one of them.
LEMMA ErrorsOfBoth ==
  ASSUME NEW S, NEW s \in Seq(S), NEW t \in Seq(S)
  PROVE  IsError(s \o t) <=> IsError(s) \/ IsError(t)
<1> DEFINE k == Len(s)
           n == Len(t)
           both == s \o t
<1>1. /\ k \in Nat /\ n \in Nat /\ DOMAIN s = 1..k /\ DOMAIN t = 1..n
      /\ DOMAIN both = 1..(k + n)
      /\ \A i \in 1..(k + n) : both[i] = IF i <= k THEN s[i] ELSE t[i - k]
  <2>1. k \in Nat /\ n \in Nat /\ DOMAIN s = 1..k /\ DOMAIN t = 1..n
    OBVIOUS
  <2>2. both \in Seq(S) /\ Len(both) = k + n
    BY ConcatProperties
  <2>3. \A i \in 1..(k + n) : both[i] = IF i <= k THEN s[i] ELSE t[i - k]
    BY ConcatProperties
  <2> HIDE DEF k, n, both
  <2> QED BY <2>1, <2>2, <2>3
<1> HIDE DEF k, n, both
<1>2. ASSUME NEW i \in DOMAIN both, both[i].severity = "error" PROVE IsError(s) \/ IsError(t)
  <2>1. CASE i <= k
    BY <1>1, <1>2, <2>1 DEF IsError
  <2>2. CASE ~(i <= k)
    <3>1. i - k \in DOMAIN t /\ both[i] = t[i - k]
      BY <1>1, <2>2
    <3> QED BY <1>2, <3>1 DEF IsError
  <2> QED BY <2>1, <2>2
<1>3. ASSUME NEW i \in DOMAIN s, s[i].severity = "error" PROVE IsError(both)
  <2>1. i \in DOMAIN both /\ both[i] = s[i]
    BY <1>1
  <2> QED BY <1>3, <2>1 DEF IsError
<1>4. ASSUME NEW i \in DOMAIN t, t[i].severity = "error" PROVE IsError(both)
  <2>1. i + k \in DOMAIN both /\ ~(i + k <= k) /\ i + k - k = i
    BY <1>1
  <2>2. both[i + k] = t[i]
    BY <1>1, <2>1
  <2> QED BY <1>4, <2>1, <2>2 DEF IsError
<1> QED BY <1>2, <1>3, <1>4 DEF IsError, both

\* The risks of a report: what needs a script among them, and what is an error.
LEMMA RisksAreCounted ==
  ASSUME NEW in \in RiskInputs, NEW r, r = Risks(in)
  PROVE  /\ r \in Seq({r[i] : i \in DOMAIN r})
         /\ Cardinality({i \in DOMAIN r : Action(r[i]) = "needs_script"})
              = Cardinality({i \in DOMAIN in.findings : Action(in.findings[i]) = "needs_script"})
                + (IF in.major >= 22 THEN 1 ELSE 0)
         /\ IsError(r) <=> in.major >= 22 \/ IsError(in.findings)
<1> DEFINE Own == {Risk("xmlrpc_jsonrpc_removal", "error"), Risk("json2_migration", "warning"),
                   Risk("destructive_method_review", "warning"),
                   Risk("unknown_custom_method", "warning"), Risk("custom_module_upgrade", "warning")}
           f == in.findings
           S == Own \cup ToSet(f)
           X == {x \in S : Action(x) = "needs_script"}
           a == RpcRisk(in)
           b == Warnings(in.safety, "destructive", "destructive_method_review")
           c == Warnings(in.safety, "unknown", "unknown_custom_method")
           d == Warnings(in.modules, "custom", "custom_module_upgrade")
<1>1. /\ in.safety \in Seq(ToSet(in.safety)) /\ in.modules \in Seq(ToSet(in.modules))
      /\ f \in Seq(ToSet(f)) /\ in.major \in Nat /\ Lower["warning"] = "warning"
  BY DiagnosticsAssumption
<1>2. f \in Seq(S)
  <2>1. ToSet(f) \subseteq S
    OBVIOUS
  <2> HIDE DEF S
  <2> QED BY <1>1, <2>1
<1>3. /\ a \in Seq(S)
      /\ Cardinality(Places(a, X)) = (IF in.major >= 22 THEN 1 ELSE 0)
      /\ IsError(a) <=> in.major >= 22
  <2>1. CASE in.major >= 22
    <3>1. a = <<Risk("xmlrpc_jsonrpc_removal", "error")>>
      BY <2>1 DEF RpcRisk
    <3>2. Action(Risk("xmlrpc_jsonrpc_removal", "error")) = "needs_script"
      BY DEF Action, Risk, ScriptCodes, ReviewCodes, InventoryCodes
    <3>3. Risk("xmlrpc_jsonrpc_removal", "error") \in S
      OBVIOUS
    <3>4. Risk("xmlrpc_jsonrpc_removal", "error").severity = "error"
      BY DEF Risk
    <3> HIDE DEF a, S
    <3>5. a \in Seq(S) /\ Places(a, X) = {1} /\ IsError(a)
      BY <3>1, <3>2, <3>3, <3>4 DEF IsError, Places
    <3>6. Cardinality({1}) = 1
      BY FS_Singleton
    <3> QED BY <2>1, <3>5, <3>6
  <2>2. CASE ~(in.major >= 22)
    <3>1. a = <<>> \/ a = <<Risk("json2_migration", "warning")>>
      BY <2>2 DEF RpcRisk
    <3>2. Risk("json2_migration", "warning") \in S /\ Risk("json2_migration", "warning") \notin X
      BY <1>1 DEF Action, Risk, ScriptCodes, ReviewCodes, InventoryCodes
    <3>3. Risk("json2_migration", "warning").severity # "error"
      BY DEF Risk
    <3> HIDE DEF a, X, S
    <3>4. a \in Seq(S) /\ Places(a, X) = {} /\ ~IsError(a)
      <4>1. CASE a = <<>>
        BY <4>1 DEF IsError, Places
      <4>2. CASE a = <<Risk("json2_migration", "warning")>>
        BY <3>2, <3>3, <4>2 DEF IsError, Places
      <4> QED BY <3>1, <4>1, <4>2
    <3>5. Cardinality({}) = 0
      BY FS_EmptySet
    <3> QED BY <2>2, <3>4, <3>5
  <2> QED BY <2>1, <2>2
<1>4. /\ b \in Seq(S) /\ Places(b, X) = {} /\ ~IsError(b)
      /\ c \in Seq(S) /\ Places(c, X) = {} /\ ~IsError(c)
      /\ d \in Seq(S) /\ Places(d, X) = {} /\ ~IsError(d)
  <2>1. Own \subseteq S
    OBVIOUS
  <2> HIDE DEF S
  <2>2. b \in Seq(S) /\ Places(b, X) = {} /\ ~IsError(b)
    BY <1>1, <2>1, WarningsNeedNoScript DEF IsError
  <2>3. c \in Seq(S) /\ Places(c, X) = {} /\ ~IsError(c)
    BY <1>1, <2>1, WarningsNeedNoScript DEF IsError
  <2>4. d \in Seq(S) /\ Places(d, X) = {} /\ ~IsError(d)
    BY <1>1, <2>1, WarningsNeedNoScript DEF IsError
  <2> QED BY <2>2, <2>3, <2>4
<1>5. r = (((a \o b) \o c) \o d) \o f
  BY DEF Risks
<1>6. Places(f, X) = {i \in DOMAIN f : Action(f[i]) = "needs_script"}
  <2>1. \A i \in DOMAIN f : f[i] \in S
    BY DEF ToSet
  <2> QED BY <2>1 DEF Places
<1> HIDE DEF a, b, c, d, f, S, X, Own
<1>7. Cardinality({}) = 0
  BY FS_EmptySet
<1> DEFINE ab == a \o b
           abc == ab \o c
           abcd == abc \o d
<1>8. ab = a \o b /\ abc = ab \o c /\ abcd = abc \o d /\ r = abcd \o f
  BY <1>5
<1> HIDE DEF ab, abc, abcd
<1>9. /\ ab \in Seq(S) /\ Cardinality(Places(ab, X)) = Cardinality(Places(a, X)) + Cardinality(Places(b, X))
      /\ IsError(ab) <=> IsError(a) \/ IsError(b)
  <2>1. a \in Seq(S) /\ b \in Seq(S)
    BY <1>3, <1>4
  <2>2. /\ a \o b \in Seq(S)
        /\ Cardinality(Places(a \o b, X)) = Cardinality(Places(a, X)) + Cardinality(Places(b, X))
        /\ Cardinality(Places(a, X)) \in Nat /\ Cardinality(Places(b, X)) \in Nat
    BY <2>1, CountedInBoth, Zenon
  <2>3. IsError(a \o b) <=> IsError(a) \/ IsError(b)
    BY <2>1, ErrorsOfBoth, Zenon
  <2> QED BY <1>8, <2>2, <2>3
<1>10. /\ abc \in Seq(S) /\ Cardinality(Places(abc, X)) = Cardinality(Places(ab, X)) + Cardinality(Places(c, X))
       /\ IsError(abc) <=> IsError(ab) \/ IsError(c)
  <2>1. ab \in Seq(S) /\ c \in Seq(S)
    BY <1>4, <1>9
  <2>2. /\ ab \o c \in Seq(S)
        /\ Cardinality(Places(ab \o c, X)) = Cardinality(Places(ab, X)) + Cardinality(Places(c, X))
        /\ Cardinality(Places(ab, X)) \in Nat /\ Cardinality(Places(c, X)) \in Nat
    BY <2>1, CountedInBoth, Zenon
  <2>3. IsError(ab \o c) <=> IsError(ab) \/ IsError(c)
    BY <2>1, ErrorsOfBoth, Zenon
  <2> QED BY <1>8, <2>2, <2>3
<1>11. /\ abcd \in Seq(S) /\ Cardinality(Places(abcd, X)) = Cardinality(Places(abc, X)) + Cardinality(Places(d, X))
       /\ IsError(abcd) <=> IsError(abc) \/ IsError(d)
  <2>1. abc \in Seq(S) /\ d \in Seq(S)
    BY <1>4, <1>10
  <2>2. /\ abc \o d \in Seq(S)
        /\ Cardinality(Places(abc \o d, X)) = Cardinality(Places(abc, X)) + Cardinality(Places(d, X))
        /\ Cardinality(Places(abc, X)) \in Nat /\ Cardinality(Places(d, X)) \in Nat
    BY <2>1, CountedInBoth, Zenon
  <2>3. IsError(abc \o d) <=> IsError(abc) \/ IsError(d)
    BY <2>1, ErrorsOfBoth, Zenon
  <2> QED BY <1>8, <2>2, <2>3
<1>12. /\ r \in Seq(S) /\ Cardinality(Places(r, X)) = Cardinality(Places(abcd, X)) + Cardinality(Places(f, X))
       /\ Cardinality(Places(f, X)) \in Nat
       /\ IsError(r) <=> IsError(abcd) \/ IsError(f)
  <2>1. abcd \in Seq(S) /\ f \in Seq(S)
    BY <1>2, <1>11
  <2>2. /\ abcd \o f \in Seq(S)
        /\ Cardinality(Places(abcd \o f, X)) = Cardinality(Places(abcd, X)) + Cardinality(Places(f, X))
        /\ Cardinality(Places(abcd, X)) \in Nat /\ Cardinality(Places(f, X)) \in Nat
    BY <2>1, CountedInBoth, Zenon
  <2>3. IsError(abcd \o f) <=> IsError(abcd) \/ IsError(f)
    BY <2>1, ErrorsOfBoth, Zenon
  <2> QED BY <1>8, <2>2, <2>3
<1>13. Places(r, X) = {i \in DOMAIN r : Action(r[i]) = "needs_script"}
  <2>1. \A i \in DOMAIN r : r[i] \in S
    BY <1>12
  <2> QED BY <2>1 DEF X, Places
<1>14. r \in Seq({r[i] : i \in DOMAIN r})
  BY <1>12
<1>15. Cardinality(Places(r, X)) = Cardinality(Places(f, X)) + (IF in.major >= 22 THEN 1 ELSE 0)
  <2>1. \A p, q \in Nat : p + 0 + 0 + 0 + q = q + p
    OBVIOUS
  <2> QED BY <1>3, <1>4, <1>7, <1>9, <1>10, <1>11, <1>12, <2>1
<1>16. IsError(r) <=> in.major >= 22 \/ IsError(f)
  BY <1>3, <1>4, <1>9, <1>10, <1>11, <1>12
<1> QED BY <1>6, <1>13, <1>14, <1>15, <1>16 DEF f

\* Each risk has one action, so the worklist counts each risk once.
LEMMA WorklistCountsAll ==
  ASSUME NEW S, NEW r \in Seq(S), NEW w, w = Worklist(r)
  PROVE  /\ Len(r) = w["needs_script"] + w["needs_review"] + w["no_action"]
         /\ w["needs_script"] = Cardinality({i \in DOMAIN r : Action(r[i]) = "needs_script"})
<1> DEFINE n == Len(r)
           E == {i \in 1..n : Action(r[i]) = "needs_script"}
           W == {i \in 1..n : Action(r[i]) = "needs_review"}
           I == {i \in 1..n : Action(r[i]) = "no_action"}
<1>1. DOMAIN r = 1..n /\ n \in Nat
  OBVIOUS
<1>2. IsFiniteSet(1..n) /\ Cardinality(1..n) = n
  <2> HIDE DEF n
  <2>1. n \in Int /\ 1 \in Int
    BY <1>1
  <2>2. IsFiniteSet(1..n) /\ Cardinality(1..n) = IF 1 > n THEN 0 ELSE n - 1 + 1
    BY <2>1, FS_Interval
  <2> QED BY <1>1, <2>2
<1>3. IsFiniteSet(E) /\ IsFiniteSet(W) /\ IsFiniteSet(I) /\ IsFiniteSet(E \cup W)
  BY <1>2, FS_Subset
<1>4. E \cap W = {} /\ (E \cup W) \cap I = {} /\ (E \cup W) \cup I = 1..n
  <2>1. \A x : Action(x) \in {"needs_script", "needs_review", "no_action"}
    BY DEF Action
  <2> QED BY <1>1, <2>1
<1>5. /\ Cardinality(E) \in Nat /\ Cardinality(W) \in Nat /\ Cardinality(I) \in Nat
      /\ Cardinality(E \cup W) \in Nat
  BY <1>3, FS_CardinalityType
<1>6. w["needs_script"] = Cardinality(E) /\ w["needs_review"] = Cardinality(W) /\ w["no_action"] = Cardinality(I)
  <2> DEFINE acts == [i \in DOMAIN r |-> Action(r[i])]
  <2>1. DOMAIN acts = 1..n /\ \A i \in 1..n : acts[i] = Action(r[i])
    BY <1>1
  <2>2. \A a \in {"needs_script", "needs_review", "no_action"} : w[a] = CountOf(acts, a)
    BY DEF Worklist
  <2> HIDE DEF acts
  <2>3. /\ {i \in DOMAIN acts : acts[i] = "needs_script"} = E
        /\ {i \in DOMAIN acts : acts[i] = "needs_review"} = W
        /\ {i \in DOMAIN acts : acts[i] = "no_action"} = I
    BY <2>1
  <2> QED BY <2>2, <2>3 DEF CountOf
<1>7. E = {i \in DOMAIN r : Action(r[i]) = "needs_script"}
  BY <1>1
<1> HIDE DEF E, W, I
<1>8. Cardinality(E \cup W) = Cardinality(E) + Cardinality(W)
  BY <1>3, <1>4, CountedApart
<1>9. Cardinality((E \cup W) \cup I) = Cardinality(E \cup W) + Cardinality(I)
  BY <1>3, <1>4, CountedApart
<1>10. Len(r) = w["needs_script"] + w["needs_review"] + w["no_action"]
  BY <1>2, <1>4, <1>6, <1>8, <1>9
<1> QED BY <1>6, <1>7, <1>10

\* The report, as the code computes it.
LEMMA UpgradeRiskIsSound == UpgradeRisk => WorklistsAreRight'
<1> SUFFICES ASSUME NEW in \in RiskInputs, NEW r, r = Risks(in), NEW w, w = Worklist(r),
                    Call("upgrade_risk", in,
                      [risk |-> MaxRisk(r), blocked |-> IsError(r), actions |-> w, count |-> Len(r)])
             PROVE  WorklistsAreRight'
  BY DEF UpgradeRisk
<1> DEFINE Scripted == {i \in DOMAIN in.findings :
             \/ in.findings[i].code \in ScriptCodes
             \/ /\ in.findings[i].code \notin ReviewCodes \cup InventoryCodes
                /\ Lower[in.findings[i].severity] = "error"}
<1>1. /\ r \in Seq({r[i] : i \in DOMAIN r})
      /\ Cardinality({i \in DOMAIN r : Action(r[i]) = "needs_script"})
           = Cardinality({i \in DOMAIN in.findings : Action(in.findings[i]) = "needs_script"})
             + (IF in.major >= 22 THEN 1 ELSE 0)
      /\ IsError(r) <=> in.major >= 22 \/ IsError(in.findings)
  BY RisksAreCounted
<1>2. /\ Len(r) = w["needs_script"] + w["needs_review"] + w["no_action"]
      /\ w["needs_script"] = Cardinality({i \in DOMAIN r : Action(r[i]) = "needs_script"})
  BY <1>1, WorklistCountsAll
<1>4. {i \in DOMAIN in.findings : Action(in.findings[i]) = "needs_script"} = Scripted
  BY DEF Action, ScriptCodes, ReviewCodes, InventoryCodes
<1>5. MaxRisk(r) = "high" <=> IsError(r)
  BY DEF MaxRisk
<1>6. IsError(in.findings) <=> \E i \in DOMAIN in.findings : in.findings[i].severity = "error"
  BY DEF IsError
<1>7. /\ call'.tool = "upgrade_risk" /\ call'.in = in
      /\ call'.out = [risk |-> MaxRisk(r), blocked |-> IsError(r), actions |-> w, count |-> Len(r)]
  BY DEF Call
<1>8. w["needs_script"] = Cardinality(Scripted) + (IF in.major >= 22 THEN 1 ELSE 0)
  BY <1>1, <1>2, <1>4
<1> QED BY <1>1, <1>2, <1>5, <1>6, <1>7, <1>8 DEF WorklistsAreRight

\* Where JSON-2 has no warning, every positional argument has a name of its own.
LEMMA ArgumentsAreNamed ==
  ASSUME NEW in \in CallInputs, Json2Warnings(in) = {}
  PROVE  /\ DOMAIN in.args = 1..Len(in.args) /\ Len(in.args) \in Nat
         /\ Placed(in) = 1..Len(in.args)
         /\ \A i \in Placed(in) : Mapped(in)[i] \notin DOMAIN in.kwargs
         /\ \A i, j \in Placed(in) : Mapped(in)[i] = Mapped(in)[j] => i = j
         /\ in.args # <<>> => Mapped(in) = PositionalNames[in.method]
<1> DEFINE n == Len(in.args)
           l == Len(Mapped(in))
<1>1. in.args \in Seq(ToSet(in.args)) /\ IsFiniteSet(DOMAIN in.kwargs)
  BY DiagnosticsAssumption
<1>2. DOMAIN in.args = 1..n /\ n \in Nat /\ (in.args = <<>> <=> n = 0)
  BY <1>1
<1>3. /\ Mapped(in) \in Seq(ToSet(Mapped(in)))
      /\ \A i, j \in DOMAIN Mapped(in) : Mapped(in)[i] = Mapped(in)[j] => i = j
  <2>1. CASE in.method \in DOMAIN PositionalNames
    <3>1. Mapped(in) = PositionalNames[in.method]
      BY <2>1 DEF Mapped
    <3> QED BY <2>1, <3>1, DiagnosticsAssumption
  <2>2. CASE in.method \notin DOMAIN PositionalNames
    <3>1. Mapped(in) = <<>>
      BY <2>2 DEF Mapped
    <3> QED BY <3>1
  <2> QED BY <2>1, <2>2
<1>4. DOMAIN Mapped(in) = 1..l /\ l \in Nat
  BY <1>3
<1>5. CASE in.args = <<>>
  <2>1. n = 0
    BY <1>2, <1>5
  <2>2. Min({n, l}) = 0
    <3> HIDE DEF n, l
    <3>1. n \in Int /\ l \in Int
      BY <1>2, <1>4
    <3>2. Min({n, l}) \in {n, l} /\ Min({n, l}) <= n
      BY <3>1, LesserOfTwo
    <3> QED BY <1>2, <1>4, <2>1, <3>2
  <2>3. Placed(in) = 1..0
    BY <2>2 DEF Placed
  <2> QED BY <1>2, <1>5, <2>1, <2>3
<1>6. CASE in.args # <<>>
  <2>1. in.method \in DOMAIN PositionalNames
    BY <1>6 DEF Json2Warnings
  <2>2. {w \in {"json2_too_many_positional_args", "json2_duplicate_argument"} :
           IF w = "json2_duplicate_argument"
             THEN \E i \in Placed(in) : Mapped(in)[i] \in DOMAIN in.kwargs
             ELSE Len(in.args) > Len(Mapped(in))} = {}
    BY <1>6, <2>1 DEF Json2Warnings
  <2>3. \A i \in Placed(in) : Mapped(in)[i] \notin DOMAIN in.kwargs
    BY <2>2
  <2>4. ~(n > l)
    BY <2>2
  <2>5. Min({n, l}) = n
    <3> HIDE DEF n, l
    <3>1. n \in Int /\ l \in Int
      BY <1>2, <1>4
    <3>2. Min({n, l}) \in {n, l} /\ Min({n, l}) <= l /\ Min({n, l}) <= n
      BY <3>1, LesserOfTwo
    <3> QED BY <1>2, <1>4, <2>4, <3>2
  <2>6. Placed(in) = 1..n
    BY <2>5 DEF Placed
  <2>7. \A i \in 1..n : i \in DOMAIN Mapped(in)
    <3> HIDE DEF n, l
    <3> QED BY <1>2, <1>4, <2>4
  <2>8. Mapped(in) = PositionalNames[in.method]
    BY <2>1 DEF Mapped
  <2> QED BY <1>2, <1>3, <2>3, <2>6, <2>7, <2>8
<1> QED BY <1>5, <1>6

\* The answer, as the code computes it.
LEMMA DiagnoseOdooCallIsSound == DiagnoseOdooCall => Json2CallsLoseNothing'
<1> SUFFICES ASSUME NEW in \in CallInputs, NEW ready, ready = (Json2Warnings(in) = {}), NEW out,
                    out = [success |-> "json2_positional_unsupported" \notin Json2Warnings(in)
                                         /\ ~TransportRemoved(in),
                           compatible |-> Compatible(in.transport, ready), body |-> Json2Body(in),
                           error |-> FirstOf(ErrorCategories, in.error, "unknown")],
                    Call("diagnose_odoo_call", in, out),
                    out.compatible \in {"both", "json2"}
             PROVE  /\ Cardinality(DOMAIN out.body) = Len(in.args) + Cardinality(DOMAIN in.kwargs)
                    /\ \A i \in DOMAIN in.args : out.body[PositionalNames[in.method][i]] = in.args[i]
                    /\ \A name \in DOMAIN in.kwargs : out.body[name] = in.kwargs[name]
  <2>1. SUFFICES ASSUME NEW in \in CallInputs, NEW out,
                    out = [success |-> "json2_positional_unsupported" \notin Json2Warnings(in)
                                         /\ ~TransportRemoved(in),
                           compatible |-> Compatible(in.transport, Json2Warnings(in) = {}),
                           body |-> Json2Body(in),
                           error |-> FirstOf(ErrorCategories, in.error, "unknown")],
                    Call("diagnose_odoo_call", in, out)
             PROVE  Json2CallsLoseNothing'
    BY DEF DiagnoseOdooCall
  <2> QED BY <2>1 DEF Call, Json2CallsLoseNothing
<1>1. Json2Warnings(in) = {}
  BY DEF Compatible
<1> DEFINE n == Len(in.args)
           names == {Mapped(in)[i] : i \in 1..n}
           body == Json2Body(in)
<1>2. /\ DOMAIN in.args = 1..n /\ n \in Nat /\ Placed(in) = 1..n
      /\ \A i \in 1..n : Mapped(in)[i] \notin DOMAIN in.kwargs
      /\ \A i, j \in 1..n : Mapped(in)[i] = Mapped(in)[j] => i = j
      /\ in.args # <<>> => Mapped(in) = PositionalNames[in.method]
  BY <1>1, ArgumentsAreNamed
<1>3. IsFiniteSet(DOMAIN in.kwargs)
  BY DiagnosticsAssumption
<1>4. IsFiniteSet(names) /\ Cardinality(names) = n
  <2> DEFINE f == [i \in 1..n |-> Mapped(in)[i]]
  <2>1. f \in Surjection(1..n, names) /\ f \in Injection(1..n, names)
    <3>1. f \in [1..n -> names]
      OBVIOUS
    <3>2. \A x \in names : \E i \in 1..n : f[i] = x
      OBVIOUS
    <3>3. \A i, j \in 1..n : f[i] = f[j] => i = j
      BY <1>2
    <3> HIDE DEF f, n, names
    <3> QED BY <3>1, <3>2, <3>3 DEF Surjection, Injection, IsInjective
  <2>2. IsFiniteSet(1..n) /\ Cardinality(1..n) = n
    <3> HIDE DEF n
    <3>1. n \in Int /\ 1 \in Int
      BY <1>2
    <3>2. IsFiniteSet(1..n) /\ Cardinality(1..n) = IF 1 > n THEN 0 ELSE n - 1 + 1
      BY <3>1, FS_Interval
    <3> QED BY <1>2, <3>2
  <2> HIDE DEF n, names, f
  <2> QED BY <2>1, <2>2, FS_Surjection
<1>5. DOMAIN body = DOMAIN in.kwargs \cup names
  BY <1>2 DEF Json2Body
<1>6. names \cap DOMAIN in.kwargs = {}
  BY <1>2
<1>7. Cardinality(DOMAIN in.kwargs \cup names) = n + Cardinality(DOMAIN in.kwargs)
  <2> HIDE DEF n, names
  <2>1. /\ Cardinality(DOMAIN in.kwargs \cup names) = Cardinality(DOMAIN in.kwargs) + Cardinality(names)
        /\ Cardinality(DOMAIN in.kwargs) \in Nat
    BY <1>3, <1>4, <1>6, CountedApart
  <2> QED BY <1>2, <1>4, <2>1
<1>8. ASSUME NEW i \in DOMAIN in.args
      PROVE  body[PositionalNames[in.method][i]] = in.args[i]
  <2>1. i \in 1..n /\ in.args # <<>>
    BY <1>2
  <2>2. Mapped(in)[i] \in names /\ Mapped(in)[i] \notin DOMAIN in.kwargs
    BY <1>2, <2>1
  <2>3. (CHOOSE j \in Placed(in) : Mapped(in)[j] = Mapped(in)[i]) = i
    BY <1>2, <2>1
  <2>4. body[Mapped(in)[i]] = in.args[CHOOSE j \in Placed(in) : Mapped(in)[j] = Mapped(in)[i]]
    BY <1>2, <2>2 DEF Json2Body
  <2> QED BY <1>2, <2>1, <2>3, <2>4
<1>9. \A name \in DOMAIN in.kwargs : body[name] = in.kwargs[name]
  BY DEF Json2Body
<1>10. out.body = body
  OBVIOUS
<1> QED BY <1>5, <1>7, <1>8, <1>9, <1>10

\* Reading a log line by line.
LEMMA LogIsReadByLine ==
  ASSUME NEW T, NEW lines \in Seq(T)
  PROVE  \E r : /\ r[0] = <<>>
                /\ \A i \in 1..Len(lines) : r[i] = ReadLine(r[i - 1], lines[i])
                /\ FoldLeft(ReadLine, <<>>, lines) = r[Len(lines)]
<1> DEFINE n == Len(lines)
           V == Seq({LineFinding(l) : l \in T})
           turn == [x \in (1..n) \X V |-> ReadLine(x[2], lines[x[1]])]
           Read(it) == it = [S \in SUBSET DOMAIN lines |->
                               IF S = {} THEN <<>>
                               ELSE ReadLine(it[S \ {Max(S)}], lines[Max(S)])]
           iter == CHOOSE it : Read(it)
<1>1. n \in Nat /\ DOMAIN lines = 1..n /\ \A i \in 1..n : lines[i] \in T
  OBVIOUS
<1>2. <<>> \in V
  OBVIOUS
<1>3. \A i \in 1..n : \A v \in V : ReadLine(v, lines[i]) \in V
  BY <1>1 DEF ReadLine
<1>4. turn \in [(1..n) \X V -> V]
  <2> HIDE DEF V, n
  <2> QED BY <1>3
<1>5. \E it : Read(it)
  <2>1. PICK h \in [SUBSET (1..n) -> V] : FoldsOver(h, n, <<>>, turn)
    <3> HIDE DEF V, n, turn
    <3> QED BY <1>1, <1>2, <1>4, FoldExists
  <2>2. ASSUME NEW S \in SUBSET (1..n)
        PROVE  h[S] = IF S = {} THEN <<>> ELSE ReadLine(h[S \ {Max(S)}], lines[Max(S)])
    <3>1. CASE S = {}
      BY <2>1, <3>1 DEF FoldsOver
    <3>2. CASE S # {}
      <4>1. Max(S) \in 1..n
        <5>1. \E x \in S : \A y \in S : x >= y
          <6> HIDE DEF n
          <6> QED BY <1>1, <3>2, GreatestExists
        <5> QED BY <5>1 DEF Max
      <4>2. h[S \ {Max(S)}] \in V
        BY <2>1
      <4>3. h[S] = turn[<<Max(S), h[S \ {Max(S)}]>>]
        BY <2>1, <3>2 DEF FoldsOver
      <4> HIDE DEF V, n
      <4> QED BY <3>2, <4>1, <4>2, <4>3
    <3> QED BY <3>1, <3>2
  <2>3. Read(h)
    <3> HIDE DEF V, turn, n
    <3> QED BY <1>1, <2>1, <2>2
  <2> QED BY <2>3
<1>6. Read(iter)
  <2> HIDE DEF Read
  <2> QED BY <1>5
<1>7. FoldLeft(ReadLine, <<>>, lines) = iter[DOMAIN lines]
  BY DEF FoldLeft, MapThenFoldSet
<1> DEFINE r == [i \in 0..n |-> iter[1..i]]
<1> HIDE DEF iter
<1>8. r[0] = <<>>
  BY <1>1, <1>6, FirstPositions
<1>9. ASSUME NEW i \in 1..n PROVE r[i] = ReadLine(r[i - 1], lines[i])
  <2>1. 1..i \in SUBSET (1..n) /\ 1..i # {} /\ Max(1..i) = i /\ (1..i) \ {i} = 1..(i - 1)
    BY <1>1, FirstPositions
  <2>2. iter[1..i] = ReadLine(iter[(1..i) \ {Max(1..i)}], lines[Max(1..i)])
    BY <1>1, <1>6, <2>1
  <2>3. i \in 0..n /\ i - 1 \in 0..n
    BY <1>1
  <2> HIDE DEF n
  <2> QED BY <2>1, <2>2, <2>3
<1>10. FoldLeft(ReadLine, <<>>, lines) = r[n]
  BY <1>1, <1>7
<1> HIDE DEF r
<1> QED BY <1>8, <1>9, <1>10

\* What one line adds: its finding, unless it matches nothing, is named
\* already, or the findings are at the cap.
LEMMA ALineIsRead ==
  ASSUME NEW T, NEW found \in Seq(T), NEW line, LineFinding(line) \in T,
         \A j, k \in 1..Len(found) : found[j] = found[k] => j = k
  PROVE  LET next == ReadLine(found, line) IN
         /\ next \in Seq(T)
         /\ \A j, k \in 1..Len(next) : next[j] = next[k] => j = k
         /\ Len(next) >= Len(found)
         /\ Len(next) < MaxLogFindings =>
              ToSet(next) = ToSet(found) \cup (IF line.matches = {} THEN {} ELSE {LineFinding(line)})
<1> DEFINE l == LineFinding(line)
           n == Len(found)
<1>1. n \in Nat /\ DOMAIN found = 1..n /\ \A j \in 1..n : found[j] \in T
  OBVIOUS
<1>2. MaxLogFindings \in Nat
  BY DiagnosticsAssumption
<1>3. ToSet(found) = {found[j] : j \in 1..n}
  BY <1>1 DEF ToSet
<1>4. CASE Len(found) >= MaxLogFindings \/ line.matches = {} \/ l \in ToSet(found)
  <2>1. ReadLine(found, line) = found
    BY <1>4 DEF ReadLine
  <2>2. Len(found) < MaxLogFindings =>
          ToSet(found) = ToSet(found) \cup (IF line.matches = {} THEN {} ELSE {l})
    <3> HIDE DEF n, l
    <3> QED BY <1>1, <1>2, <1>4 DEF n
  <2> HIDE DEF l
  <2> QED BY <1>1, <2>1, <2>2 DEF l
<1>5. CASE ~(Len(found) >= MaxLogFindings \/ line.matches = {} \/ l \in ToSet(found))
  <2> DEFINE next == Append(found, l)
  <2>1. ReadLine(found, line) = next /\ line.matches # {} /\ l \notin ToSet(found)
    BY <1>5 DEF ReadLine
  <2>2. /\ next \in Seq(T) /\ Len(next) = n + 1 /\ DOMAIN next = 1..(n + 1)
        /\ next[n + 1] = l /\ \A j \in 1..n : next[j] = found[j]
    BY <1>1
  <2>3. \A j \in 1..(n + 1) : j = n + 1 \/ j \in 1..n
    BY <1>1
  <2> HIDE DEF next, l, n
  <2>4. ToSet(next) = ToSet(found) \cup {l}
    <3>1. ToSet(next) = {next[j] : j \in 1..(n + 1)}
      BY <2>2 DEF ToSet
    <3>2. n + 1 \in 1..(n + 1) /\ \A j \in 1..n : j \in 1..(n + 1)
      BY <1>1
    <3> QED BY <1>3, <2>2, <2>3, <3>1, <3>2
  <2>5. \A j \in 1..n : found[j] # l
    BY <1>3, <2>1
  <2>6. \A j, k \in 1..(n + 1) : next[j] = next[k] => j = k
    <3> SUFFICES ASSUME NEW j \in 1..(n + 1), NEW k \in 1..(n + 1), next[j] = next[k] PROVE j = k
      OBVIOUS
    <3>1. CASE j \in 1..n /\ k \in 1..n
      BY <2>2, <3>1 DEF n
    <3>2. CASE j = n + 1
      BY <2>2, <2>3, <2>5, <3>2
    <3>3. CASE k = n + 1
      BY <2>2, <2>3, <2>5, <3>3
    <3> QED BY <2>3, <3>1, <3>2, <3>3
  <2>7. Len(next) >= Len(found)
    BY <1>1, <2>2 DEF n
  <2> QED BY <2>1, <2>2, <2>4, <2>6, <2>7 DEF l
<1> QED BY <1>4, <1>5

\* Reading names nothing twice, and all that matches unless the cap is reached.
LEMMA LogFindingsAreRight ==
  ASSUME NEW T, NEW lines \in Seq(T), NEW found, found = FoldLeft(ReadLine, <<>>, lines)
  PROVE  /\ \A j, k \in 1..Len(found) : found[j] = found[k] => j = k
         /\ Len(found) \in Nat /\ DOMAIN found = 1..Len(found)
         /\ Len(found) < MaxLogFindings =>
              ToSet(found) = {LineFinding(l) : l \in {m \in ToSet(lines) : m.matches # {}}}
<1> DEFINE n == Len(lines)
           F == {LineFinding(l) : l \in T}
           seen(i) == {LineFinding(lines[k]) : k \in {k \in 1..i : lines[k].matches # {}}}
<1>1. n \in Nat /\ DOMAIN lines = 1..n /\ \A i \in 1..n : lines[i] \in T
  OBVIOUS
<1>2. PICK r : /\ r[0] = <<>>
               /\ \A i \in 1..n : r[i] = ReadLine(r[i - 1], lines[i])
               /\ found = r[n]
  BY LogIsReadByLine
<1> DEFINE P == {i \in 0..n : /\ r[i] \in Seq(F)
                              /\ \A j, k \in 1..Len(r[i]) : r[i][j] = r[i][k] => j = k
                              /\ Len(r[i]) < MaxLogFindings => ToSet(r[i]) = seen(i)}
<1>3. 0 \in P
  <2>1. r[0] = <<>> /\ Len(<<>>) = 0 /\ <<>> \in Seq(F) /\ 0 \in 0..n
    BY <1>1, <1>2
  <2>2. ToSet(<<>>) = {} /\ seen(0) = {}
    BY DEF ToSet
  <2>3. \A j, k \in 1..0 : FALSE
    OBVIOUS
  <2> HIDE DEF seen, F, n
  <2> QED BY <2>1, <2>2, <2>3
<1>4. ASSUME NEW i \in 1..n, i - 1 \in P PROVE i \in P
  <2> DEFINE s == r[i - 1]
             line == lines[i]
             next == ReadLine(s, line)
  <2>1. /\ s \in Seq(F) /\ \A j, k \in 1..Len(s) : s[j] = s[k] => j = k
        /\ Len(s) < MaxLogFindings => ToSet(s) = seen(i - 1)
    BY <1>4
  <2>2. LineFinding(line) \in F /\ r[i] = next /\ i \in 0..n
    BY <1>1, <1>2
  <2> HIDE DEF s, line, F
  <2>3. /\ next \in Seq(F)
        /\ \A j, k \in 1..Len(next) : next[j] = next[k] => j = k
        /\ Len(next) >= Len(s)
        /\ Len(next) < MaxLogFindings =>
             ToSet(next) = ToSet(s) \cup (IF line.matches = {} THEN {} ELSE {LineFinding(line)})
    BY <2>1, <2>2, ALineIsRead
  <2>4. seen(i) = seen(i - 1) \cup (IF line.matches = {} THEN {} ELSE {LineFinding(line)})
    <3>1. \A k \in 1..i : k = i \/ k \in 1..(i - 1)
      BY <1>1
    <3>2. i \in 1..i /\ \A k \in 1..(i - 1) : k \in 1..i
      BY <1>1
    <3> QED BY <3>1, <3>2 DEF line
  <2>5. Len(next) < MaxLogFindings => Len(s) < MaxLogFindings
    <3>1. Len(next) \in Nat /\ Len(s) \in Nat /\ MaxLogFindings \in Nat
      BY <2>1, <2>3, DiagnosticsAssumption
    <3> HIDE DEF next
    <3> QED BY <2>3, <3>1
  <2> HIDE DEF next, seen, n
  <2> QED BY <2>1, <2>2, <2>3, <2>4, <2>5
<1>5. n \in P
  <2> HIDE DEF P
  <2>1. \A i \in 0..n : i \in P
    BY <1>1, <1>3, <1>4, UpTo
  <2> QED BY <1>1, <2>1
<1>6. seen(n) = {LineFinding(l) : l \in {m \in ToSet(lines) : m.matches # {}}}
  BY <1>1 DEF ToSet
<1>7. found \in Seq(F)
  BY <1>2, <1>5
<1>8. Len(found) \in Nat /\ DOMAIN found = 1..Len(found)
  BY <1>7
<1> HIDE DEF seen, F, n
<1> QED BY <1>2, <1>5, <1>6, <1>8

\* The analysis, as the code computes it.
LEMMA AnalyzeUpgradeLogIsSound == AnalyzeUpgradeLog => LogsAreWorkedThrough'
<1> SUFFICES ASSUME NEW log \in LogInputs, NEW found, found = LogFindings(log), NEW out,
                    out = [findings |-> found, clean |-> found = <<>>, truncated |-> Len(log) > MaxLogLines,
                           full |-> Len(found) >= MaxLogFindings]
             PROVE  /\ Cardinality(ToSet(out.findings)) = Len(out.findings)
                    /\ ~out.full /\ ~out.truncated =>
                         ToSet(out.findings) = {LineFinding(l) : l \in {m \in ToSet(log) : m.matches # {}}}
                    /\ out.clean /\ ~out.truncated => \A l \in ToSet(log) : l.matches = {}
  BY DEF AnalyzeUpgradeLog, LogsAreWorkedThrough, Call
<1> DEFINE n == Len(log)
           m == Min({n, MaxLogLines})
           lines == SubSeq(log, 1, m)
           matching == {x \in ToSet(log) : x.matches # {}}
<1>1. log \in Seq(ToSet(log)) /\ MaxLogLines \in Nat /\ MaxLogFindings \in Nat \ {0}
  BY DiagnosticsAssumption
<1>2. n \in Nat
  BY <1>1
<1>3. m \in Nat /\ m <= n /\ (m = n \/ m = MaxLogLines)
  <2> HIDE DEF n
  <2>1. n \in Int /\ MaxLogLines \in Int
    BY <1>1, <1>2
  <2>2. m \in {n, MaxLogLines} /\ m <= n
    BY <2>1, LesserOfTwo
  <2> QED BY <1>1, <1>2, <2>2
<1>4. found = FoldLeft(ReadLine, <<>>, lines)
  BY DEF LogFindings
<1> HIDE DEF m
<1>5. lines \in Seq(ToSet(log))
  BY <1>1, <1>3
<1>6. ~(n > MaxLogLines) => lines = log
  <2> SUFFICES ASSUME ~(n > MaxLogLines) PROVE lines = log
    OBVIOUS
  <2>1. m = n
    <3> HIDE DEF n
    <3> QED BY <1>1, <1>2, <1>3 DEF m
  <2> QED BY <1>1, <2>1
<1> HIDE DEF lines
<1>7. /\ \A j, k \in 1..Len(found) : found[j] = found[k] => j = k
      /\ Len(found) \in Nat /\ DOMAIN found = 1..Len(found)
      /\ Len(found) < MaxLogFindings =>
           ToSet(found) = {LineFinding(l) : l \in {x \in ToSet(lines) : x.matches # {}}}
  BY <1>4, <1>5, LogFindingsAreRight
<1>8. Cardinality(ToSet(found)) = Len(found)
  <2>1. ToSet(found) = {found[i] : i \in 1..Len(found)}
    BY <1>7 DEF ToSet
  <2> DEFINE k == Len(found)
  <2>2. k \in Nat /\ \A i, j \in 1..k : found[i] = found[j] => i = j
    BY <1>7
  <2> HIDE DEF k
  <2>3. /\ \A i \in 1..k : found[i] \in ToSet(found)
        /\ \A x \in ToSet(found) : \E i \in 1..k : found[i] = x
    BY <2>1 DEF k
  <2>4. Cardinality(ToSet(found)) = k
    BY <2>2, <2>3, CountedByNumber
  <2> QED BY <2>4 DEF k
<1>9. Len(found) < MaxLogFindings /\ ~(n > MaxLogLines) =>
        ToSet(found) = {LineFinding(l) : l \in matching}
  BY <1>6, <1>7
<1>10. ASSUME found = <<>>, ~(n > MaxLogLines) PROVE \A l \in ToSet(log) : l.matches = {}
  <2>1. Len(found) = 0 /\ ToSet(found) = {}
    BY <1>10 DEF ToSet
  <2>2. Len(found) < MaxLogFindings
    BY <1>1, <2>1
  <2> HIDE DEF n, matching
  <2>3. matching = {}
    BY <1>9, <1>10, <2>1, <2>2
  <2> QED BY <2>3 DEF matching
<1>11. ~out.full => Len(found) < MaxLogFindings
  <2> DEFINE k == Len(found)
  <2>1. out.full <=> k >= MaxLogFindings
    OBVIOUS
  <2>2. k \in Nat
    BY <1>7
  <2> HIDE DEF k
  <2>3. ~out.full => k < MaxLogFindings
    BY <1>1, <2>1, <2>2
  <2> QED BY <2>3 DEF k
<1>12. out.findings = found /\ (out.clean <=> found = <<>>) /\ (out.truncated <=> n > MaxLogLines)
  OBVIOUS
<1> HIDE DEF n
<1> QED BY <1>8, <1>9, <1>10, <1>11, <1>12 DEF n

-----------------------------------------------------------------------------
(* What a scan of source files reads.                                      *)

\* What a scan goes through: its counts, and findings out of a set F.
ScanStates(F) == [scanned : Nat, skipped : Nat, findings : SUBSET F]

\* One file: left alone, counted as skipped, or read.
LEMMA AFileIsScanned ==
  ASSUME NEW F, NEW s \in ScanStates(F), NEW file, FileFindings(file) \subseteq F,
         NEW next, next = ScanFile(s, file)
  PROVE  /\ next \in ScanStates(F)
         /\ s.scanned \in Nat /\ s.skipped \in Nat
         /\ next.scanned \in Nat /\ next.skipped \in Nat
         /\ s.findings \subseteq next.findings
         /\ \/ (s.scanned >= MaxFiles \/ ~Eligible(file)) /\ next = s
            \/ /\ ~(s.scanned >= MaxFiles) /\ Eligible(file) /\ file.size # "small"
               /\ next.scanned = s.scanned /\ next.skipped = s.skipped + 1
            \/ /\ ~(s.scanned >= MaxFiles) /\ Eligible(file) /\ file.size = "small"
               /\ next.scanned = s.scanned + 1 /\ next.skipped = s.skipped
               /\ FileFindings(file) \subseteq next.findings
<1> DEFINE X == FileFindings(file)
           TooLarge == [s EXCEPT !.skipped = @ + 1]
           Read == [s EXCEPT !.scanned = @ + 1, !.findings = @ \cup X]
<1>1. s \in [scanned : Nat, skipped : Nat, findings : SUBSET F] /\ X \in SUBSET F
  BY DEF ScanStates
<1>2. s.scanned \in Nat /\ s.skipped \in Nat /\ s.findings \in SUBSET F
  BY <1>1
<1>3. \/ (s.scanned >= MaxFiles \/ ~Eligible(file)) /\ next = s
      \/ ~(s.scanned >= MaxFiles) /\ Eligible(file) /\ file.size # "small" /\ next = TooLarge
      \/ ~(s.scanned >= MaxFiles) /\ Eligible(file) /\ file.size = "small" /\ next = Read
  BY DEF ScanFile
<1> HIDE DEF X
<1>4. /\ TooLarge \in [scanned : Nat, skipped : Nat, findings : SUBSET F]
      /\ TooLarge.scanned = s.scanned /\ TooLarge.skipped = s.skipped + 1
      /\ TooLarge.findings = s.findings
  <2>1. s.skipped + 1 \in Nat
    BY <1>2
  <2> QED BY <1>1, <2>1
<1>5. /\ Read \in [scanned : Nat, skipped : Nat, findings : SUBSET F]
      /\ Read.scanned = s.scanned + 1 /\ Read.skipped = s.skipped
      /\ Read.findings = s.findings \cup X
  <2>1. s.scanned + 1 \in Nat /\ s.findings \cup X \in SUBSET F
    BY <1>1, <1>2
  <2> QED BY <1>1, <2>1
<1> HIDE DEF TooLarge, Read
<1>6. CASE next = s
  BY <1>2, <1>3, <1>4, <1>5, <1>6 DEF X
<1>7. CASE ~(s.scanned >= MaxFiles) /\ Eligible(file) /\ file.size # "small" /\ next = TooLarge
  BY <1>2, <1>4, <1>7 DEF ScanStates
<1>8. CASE ~(s.scanned >= MaxFiles) /\ Eligible(file) /\ file.size = "small" /\ next = Read
  BY <1>2, <1>5, <1>8 DEF ScanStates, X
<1> QED BY <1>3, <1>6, <1>7, <1>8

\* Scanning the files of a directory, and the directories, one by one.
ScanAll(base, files) == FoldLeft(ScanFile, base, files)
ScanRoots(base, roots) == FoldLeft(ScanRoot, base, roots)

\* The files are gone through one after another.
LEMMA FilesAreScannedInTurn ==
  ASSUME NEW F, NEW base \in ScanStates(F), NEW files, files \in Seq(ToSet(files)),
         \A i \in DOMAIN files : FileFindings(files[i]) \subseteq F
  PROVE  \E r : /\ r[0] = base
                /\ \A i \in 1..Len(files) : r[i] = ScanFile(r[i - 1], files[i])
                /\ ScanAll(base, files) = r[Len(files)]
<1> DEFINE n == Len(files)
           V == ScanStates(F)
           turn == [x \in (1..n) \X V |-> ScanFile(x[2], files[x[1]])]
           Scan(it) == it = [S \in SUBSET DOMAIN files |->
                               IF S = {} THEN base
                               ELSE ScanFile(it[S \ {Max(S)}], files[Max(S)])]
           iter == CHOOSE it : Scan(it)
<1>1. n \in Nat /\ DOMAIN files = 1..n
  OBVIOUS
<1>2. \A i \in 1..n : \A v \in V : ScanFile(v, files[i]) \in V
  BY <1>1, AFileIsScanned
<1>3. turn \in [(1..n) \X V -> V]
  <2> HIDE DEF V, n
  <2> QED BY <1>2
<1>4. \E it : Scan(it)
  <2>1. PICK h \in [SUBSET (1..n) -> V] : FoldsOver(h, n, base, turn)
    <3> HIDE DEF V, n, turn
    <3> QED BY <1>1, <1>3, FoldExists DEF V
  <2>2. ASSUME NEW S \in SUBSET (1..n)
        PROVE  h[S] = IF S = {} THEN base ELSE ScanFile(h[S \ {Max(S)}], files[Max(S)])
    <3>1. CASE S = {}
      BY <2>1, <3>1 DEF FoldsOver
    <3>2. CASE S # {}
      <4>1. Max(S) \in 1..n
        <5>1. \E x \in S : \A y \in S : x >= y
          <6> HIDE DEF n
          <6> QED BY <1>1, <3>2, GreatestExists
        <5> QED BY <5>1 DEF Max
      <4>2. h[S \ {Max(S)}] \in V
        BY <2>1
      <4>3. h[S] = turn[<<Max(S), h[S \ {Max(S)}]>>]
        BY <2>1, <3>2 DEF FoldsOver
      <4> HIDE DEF V, n
      <4> QED BY <3>2, <4>1, <4>2, <4>3
    <3> QED BY <3>1, <3>2
  <2>3. Scan(h)
    <3> HIDE DEF V, turn, n
    <3> QED BY <1>1, <2>1, <2>2
  <2> QED BY <2>3
<1>5. Scan(iter)
  <2> HIDE DEF Scan
  <2> QED BY <1>4
<1>6. ScanAll(base, files) = iter[DOMAIN files]
  BY DEF ScanAll, FoldLeft, MapThenFoldSet
<1> DEFINE r == [i \in 0..n |-> iter[1..i]]
<1> HIDE DEF iter
<1>7. r[0] = base
  BY <1>1, <1>5, FirstPositions
<1>8. ASSUME NEW i \in 1..n PROVE r[i] = ScanFile(r[i - 1], files[i])
  <2>1. 1..i \in SUBSET (1..n) /\ 1..i # {} /\ Max(1..i) = i /\ (1..i) \ {i} = 1..(i - 1)
    BY <1>1, FirstPositions
  <2>2. iter[1..i] = ScanFile(iter[(1..i) \ {Max(1..i)}], files[Max(1..i)])
    BY <1>1, <1>5, <2>1
  <2>3. i \in 0..n /\ i - 1 \in 0..n
    BY <1>1
  <2> HIDE DEF n
  <2> QED BY <2>1, <2>2, <2>3
<1>9. ScanAll(base, files) = r[n]
  BY <1>1, <1>6
<1> HIDE DEF r
<1> QED BY <1>7, <1>8, <1>9

\* The files of a directory that a scan reads or skips.
InDirectory(files) == {j \in DOMAIN files : Eligible(files[j])}

\* A directory is scanned to the end unless the cap stops it.
LEMMA DirectoriesAreScanned ==
  ASSUME NEW F, NEW base \in ScanStates(F), base.scanned <= MaxFiles,
         NEW files, files \in Seq(ToSet(files)),
         \A i \in DOMAIN files : FileFindings(files[i]) \subseteq F,
         NEW last, last = ScanAll(base, files)
  PROVE  /\ last \in ScanStates(F) /\ last.scanned \in Nat /\ last.skipped \in Nat
         /\ base.scanned <= last.scanned /\ last.scanned <= MaxFiles
         /\ base.findings \subseteq last.findings
         /\ IsFiniteSet(InDirectory(files))
         /\ last.scanned < MaxFiles =>
              /\ last.scanned + last.skipped
                   = base.scanned + base.skipped + Cardinality(InDirectory(files))
              /\ \A i \in DOMAIN files : Eligible(files[i]) /\ files[i].size = "small" =>
                   FileFindings(files[i]) \subseteq last.findings
<1> DEFINE n == Len(files)
           up(i) == {j \in 1..i : Eligible(files[j])}
<1>1. n \in Nat /\ DOMAIN files = 1..n
  OBVIOUS
<1>2. MaxFiles \in Nat
  BY ScanAssumption
<1>3. base.scanned \in Nat /\ base.skipped \in Nat
  BY DEF ScanStates
<1>4. PICK r : /\ r[0] = base
               /\ \A i \in 1..n : r[i] = ScanFile(r[i - 1], files[i])
               /\ last = r[n]
  BY FilesAreScannedInTurn
<1> DEFINE Inv(i, s) ==
             /\ s \in ScanStates(F) /\ s.scanned \in Nat /\ s.skipped \in Nat
             /\ base.scanned <= s.scanned /\ s.scanned <= MaxFiles
             /\ base.findings \subseteq s.findings
             /\ IsFiniteSet(up(i)) /\ Cardinality(up(i)) \in Nat
             /\ s.scanned < MaxFiles =>
                  /\ s.scanned + s.skipped = base.scanned + base.skipped + Cardinality(up(i))
                  /\ \A j \in 1..i : Eligible(files[j]) /\ files[j].size = "small" =>
                       FileFindings(files[j]) \subseteq s.findings
           P == {i \in 0..n : Inv(i, r[i])}
<1>5. 0 \in P
  <2>1. up(0) = {} /\ 0 \in 0..n /\ r[0] = base
    BY <1>1, <1>4
  <2>2. IsFiniteSet(up(0)) /\ Cardinality(up(0)) = 0
    BY <2>1, FS_EmptySet
  <2>3. \A j \in 1..0 : FALSE
    OBVIOUS
  <2> HIDE DEF up, n
  <2>4. base.scanned <= base.scanned
        /\ base.scanned + base.skipped = base.scanned + base.skipped + 0
    BY <1>3
  <2> QED BY <1>3, <2>1, <2>2, <2>3, <2>4
<1>6. ASSUME NEW i \in 1..n, i - 1 \in P PROVE i \in P
  <2> DEFINE s == r[i - 1]
             file == files[i]
             next == r[i]
  <2>1. Inv(i - 1, s)
    BY <1>6
  <2>2. next = ScanFile(s, file) /\ FileFindings(file) \subseteq F /\ i \in 0..n
    BY <1>1, <1>4
  <2>3. up(i) = up(i - 1) \cup (IF Eligible(file) THEN {i} ELSE {}) /\ i \notin up(i - 1)
    <3>1. \A k \in 1..i : k = i \/ k \in 1..(i - 1)
      BY <1>1
    <3>2. i \in 1..i /\ i \notin 1..(i - 1) /\ \A k \in 1..(i - 1) : k \in 1..i
      BY <1>1
    <3> QED BY <3>1, <3>2
  <2>4. \A k \in 1..i : k = i \/ k \in 1..(i - 1)
    BY <1>1
  <2> DEFINE c == Cardinality(up(i - 1))
             d == Cardinality(up(i))
  <2> HIDE DEF s, next, n, up
  <2>5. /\ IsFiniteSet(up(i)) /\ c \in Nat /\ d \in Nat
        /\ d = IF Eligible(file) THEN c + 1 ELSE c
    <3>1. CASE Eligible(file)
      <4>1. up(i) = up(i - 1) \cup {i} /\ i \notin up(i - 1)
        BY <2>3, <3>1
      <4>2. IsFiniteSet(up(i - 1)) /\ c \in Nat
        BY <2>1
      <4>3. IsFiniteSet(up(i - 1) \cup {i}) /\ Cardinality(up(i - 1) \cup {i}) = c + 1
        BY <4>1, <4>2, FS_AddElement
      <4> QED BY <3>1, <4>1, <4>2, <4>3
    <3>2. CASE ~Eligible(file)
      <4>1. up(i) = up(i - 1)
        BY <2>3, <3>2
      <4> QED BY <2>1, <3>2, <4>1
    <3> QED BY <3>1, <3>2
  <2>6. /\ next \in ScanStates(F)
        /\ s.scanned \in Nat /\ s.skipped \in Nat
        /\ next.scanned \in Nat /\ next.skipped \in Nat
        /\ s.findings \subseteq next.findings
        /\ \/ (s.scanned >= MaxFiles \/ ~Eligible(file)) /\ next = s
           \/ /\ ~(s.scanned >= MaxFiles) /\ Eligible(file) /\ file.size # "small"
              /\ next.scanned = s.scanned /\ next.skipped = s.skipped + 1
           \/ /\ ~(s.scanned >= MaxFiles) /\ Eligible(file) /\ file.size = "small"
              /\ next.scanned = s.scanned + 1 /\ next.skipped = s.skipped
              /\ FileFindings(file) \subseteq next.findings
    BY <2>1, <2>2, AFileIsScanned
  <2> HIDE DEF file
  <2>7. /\ base.scanned <= next.scanned /\ next.scanned <= MaxFiles
        /\ base.findings \subseteq next.findings
    BY <1>2, <1>3, <2>1, <2>6
  <2>8. ASSUME next.scanned < MaxFiles
        PROVE  next.scanned + next.skipped = base.scanned + base.skipped + d
    <3>1. s.scanned < MaxFiles
      BY <1>2, <2>6, <2>8
    <3>2. s.scanned + s.skipped = base.scanned + base.skipped + c
      BY <2>1, <3>1
    <3> HIDE DEF c, d
    <3>3. CASE next = s /\ ~Eligible(file)
      BY <2>5, <3>2, <3>3
    <3>4. CASE Eligible(file) /\ next.scanned + next.skipped = s.scanned + s.skipped + 1
      BY <1>3, <2>5, <2>6, <3>2, <3>4
    <3>5. \/ next = s /\ ~Eligible(file)
          \/ Eligible(file) /\ next.scanned + next.skipped = s.scanned + s.skipped + 1
      <4>1. ~(s.scanned >= MaxFiles)
        BY <1>2, <2>6, <3>1
      <4> DEFINE p == s.scanned
                 q == s.skipped
                 u == next.scanned
                 v == next.skipped
      <4>2. p \in Nat /\ q \in Nat
        BY <2>6
      <4>3. \/ next = s /\ ~Eligible(file)
            \/ Eligible(file) /\ u = p /\ v = q + 1
            \/ Eligible(file) /\ u = p + 1 /\ v = q
        BY <2>6, <4>1
      <4> HIDE DEF p, q, u, v
      <4>4. (u = p /\ v = q + 1) \/ (u = p + 1 /\ v = q) => u + v = p + q + 1
        BY <4>2
      <4>5. \/ next = s /\ ~Eligible(file)
            \/ Eligible(file) /\ u + v = p + q + 1
        BY <4>3, <4>4
      <4> QED BY <4>5 DEF p, q, u, v
    <3> QED BY <3>3, <3>4, <3>5
  <2>9. ASSUME next.scanned < MaxFiles, NEW j \in 1..i, Eligible(files[j]), files[j].size = "small"
        PROVE  FileFindings(files[j]) \subseteq next.findings
    <3>1. s.scanned < MaxFiles
      BY <1>2, <2>6, <2>9
    <3>2. CASE j = i
      BY <1>2, <2>6, <2>9, <3>1, <3>2 DEF file
    <3>3. CASE j \in 1..(i - 1)
      <4>1. FileFindings(files[j]) \subseteq s.findings
        BY <2>1, <2>9, <3>1, <3>3
      <4> QED BY <2>6, <4>1
    <3> QED BY <2>4, <3>2, <3>3
  <2>10. Inv(i, next)
    BY <2>5, <2>6, <2>7, <2>8, <2>9
  <2> HIDE DEF Inv
  <2> QED BY <2>2, <2>10 DEF next
<1>7. n \in P
  <2> HIDE DEF P
  <2>1. \A i \in 0..n : i \in P
    BY <1>1, <1>5, <1>6, UpTo
  <2> QED BY <1>1, <2>1
<1>8. Inv(n, last)
  <2> HIDE DEF Inv
  <2> QED BY <1>4, <1>7
<1>9. up(n) = InDirectory(files)
  BY <1>1 DEF InDirectory
<1> HIDE DEF up, n
<1> QED BY <1>1, <1>8, <1>9

\* One directory: its findings are out of F.
FindingsFrom(root, F) ==
  /\ root.files \in Seq(ToSet(root.files)) /\ Finding("addons_path_missing", "") \in F
  /\ \A i \in DOMAIN root.files : FileFindings(root.files[i]) \subseteq F

\* A directory that is missing is told; another is scanned, until the cap.
LEMMA ADirectoryIsScanned ==
  ASSUME NEW F, NEW s \in ScanStates(F), s.scanned <= MaxFiles, NEW root, FindingsFrom(root, F),
         NEW next, next = ScanRoot(s, root)
  PROVE  /\ next \in ScanStates(F) /\ next.scanned \in Nat /\ next.skipped \in Nat
         /\ s.scanned \in Nat /\ s.skipped \in Nat
         /\ s.scanned <= next.scanned /\ next.scanned <= MaxFiles
         /\ s.findings \subseteq next.findings
         /\ IsFiniteSet(InDirectory(root.files))
         /\ next.scanned < MaxFiles =>
              IF root.exists
                THEN /\ next.scanned + next.skipped = s.scanned + s.skipped
                          + Cardinality(InDirectory(root.files))
                     /\ \A i \in DOMAIN root.files :
                          Eligible(root.files[i]) /\ root.files[i].size = "small" =>
                            FileFindings(root.files[i]) \subseteq next.findings
                ELSE next.scanned = s.scanned /\ next.skipped = s.skipped
<1>1. s \in [scanned : Nat, skipped : Nat, findings : SUBSET F] /\ MaxFiles \in Nat
  BY ScanAssumption DEF ScanStates
<1>2. s.scanned \in Nat /\ s.skipped \in Nat /\ s.findings \in SUBSET F
  BY <1>1
<1>3. IsFiniteSet(InDirectory(root.files))
  <2> DEFINE files == root.files
  <2>1. files \in Seq(ToSet(files))
    BY DEF FindingsFrom
  <2> HIDE DEF files
  <2>2. DOMAIN files = 1..Len(files) /\ Len(files) \in Nat
    BY <2>1
  <2>3. IsFiniteSet(DOMAIN files)
    BY <2>2, FS_Interval
  <2>4. IsFiniteSet(InDirectory(files))
    BY <2>3, FS_Subset DEF InDirectory
  <2> QED BY <2>4 DEF files
<1>4. CASE s.scanned >= MaxFiles
  <2>1. next = s
    BY <1>4 DEF ScanRoot
  <2>2. ~(next.scanned < MaxFiles)
    BY <1>1, <1>2, <1>4, <2>1
  <2> QED BY <1>2, <1>3, <2>1, <2>2
<1>5. CASE ~(s.scanned >= MaxFiles) /\ ~root.exists
  <2> DEFINE told == s.findings \cup {Finding("addons_path_missing", "")}
  <2>1. next = [s EXCEPT !.findings = told]
    BY <1>5 DEF ScanRoot
  <2>2. told \in SUBSET F /\ s.findings \subseteq told
    BY <1>2 DEF FindingsFrom
  <2> HIDE DEF told
  <2>3. /\ next \in [scanned : Nat, skipped : Nat, findings : SUBSET F]
        /\ next.scanned = s.scanned /\ next.skipped = s.skipped /\ next.findings = told
    BY <1>1, <2>1, <2>2
  <2> QED BY <1>2, <1>3, <1>5, <2>2, <2>3 DEF ScanStates
<1>6. CASE ~(s.scanned >= MaxFiles) /\ root.exists
  <2>1. next = ScanAll(s, root.files)
    BY <1>6 DEF ScanRoot, ScanAll
  <2>2. root.files \in Seq(ToSet(root.files))
        /\ \A i \in DOMAIN root.files : FileFindings(root.files[i]) \subseteq F
    BY DEF FindingsFrom
  <2> DEFINE files == root.files
  <2> HIDE DEF files
  <2>3. files \in Seq(ToSet(files)) /\ \A i \in DOMAIN files : FileFindings(files[i]) \subseteq F
    BY <2>2 DEF files
  <2>4. next = ScanAll(s, files)
    BY <2>1 DEF files
  <2>5. /\ next \in ScanStates(F) /\ next.scanned \in Nat /\ next.skipped \in Nat
        /\ s.scanned <= next.scanned /\ next.scanned <= MaxFiles
        /\ s.findings \subseteq next.findings
        /\ next.scanned < MaxFiles =>
             /\ next.scanned + next.skipped
                  = s.scanned + s.skipped + Cardinality(InDirectory(files))
             /\ \A i \in DOMAIN files : Eligible(files[i]) /\ files[i].size = "small" =>
                  FileFindings(files[i]) \subseteq next.findings
    BY <2>3, <2>4, DirectoriesAreScanned
  <2> QED BY <1>2, <1>3, <1>6, <2>5 DEF files
<1> QED BY <1>4, <1>5, <1>6

\* The roots are gone through one after another.
LEMMA RootsAreScannedInTurn ==
  ASSUME NEW F, NEW base \in ScanStates(F), base.scanned <= MaxFiles,
         NEW roots, roots \in Seq(ToSet(roots)), \A i \in DOMAIN roots : FindingsFrom(roots[i], F)
  PROVE  \E r : /\ r[0] = base
                /\ \A i \in 1..Len(roots) : r[i] = ScanRoot(r[i - 1], roots[i])
                /\ ScanRoots(base, roots) = r[Len(roots)]
<1> DEFINE n == Len(roots)
           V == {s \in ScanStates(F) : s.scanned <= MaxFiles}
           turn == [x \in (1..n) \X V |-> ScanRoot(x[2], roots[x[1]])]
           Scan(it) == it = [S \in SUBSET DOMAIN roots |->
                               IF S = {} THEN base
                               ELSE ScanRoot(it[S \ {Max(S)}], roots[Max(S)])]
           iter == CHOOSE it : Scan(it)
<1>1. n \in Nat /\ DOMAIN roots = 1..n
  OBVIOUS
<1>2. \A i \in 1..n : \A v \in V : ScanRoot(v, roots[i]) \in V
  <2> SUFFICES ASSUME NEW i \in 1..n, NEW v \in V PROVE ScanRoot(v, roots[i]) \in V
    OBVIOUS
  <2> DEFINE next == ScanRoot(v, roots[i])
             root == roots[i]
  <2>1. FindingsFrom(root, F) /\ v \in ScanStates(F) /\ v.scanned <= MaxFiles
    BY <1>1
  <2> HIDE DEF root
  <2>2. ScanRoot(v, root) \in ScanStates(F) /\ ScanRoot(v, root).scanned <= MaxFiles
    BY <2>1, ADirectoryIsScanned
  <2> QED BY <2>2 DEF root
<1>3. turn \in [(1..n) \X V -> V]
  <2> HIDE DEF V, n
  <2> QED BY <1>2
<1>4. base \in V
  OBVIOUS
<1>5. \E it : Scan(it)
  <2>1. PICK h \in [SUBSET (1..n) -> V] : FoldsOver(h, n, base, turn)
    <3> HIDE DEF V, n, turn
    <3> QED BY <1>1, <1>3, <1>4, FoldExists
  <2>2. ASSUME NEW S \in SUBSET (1..n)
        PROVE  h[S] = IF S = {} THEN base ELSE ScanRoot(h[S \ {Max(S)}], roots[Max(S)])
    <3>1. CASE S = {}
      BY <2>1, <3>1 DEF FoldsOver
    <3>2. CASE S # {}
      <4>1. Max(S) \in 1..n
        <5>1. \E x \in S : \A y \in S : x >= y
          <6> HIDE DEF n
          <6> QED BY <1>1, <3>2, GreatestExists
        <5> QED BY <5>1 DEF Max
      <4>2. h[S \ {Max(S)}] \in V
        BY <2>1
      <4>3. h[S] = turn[<<Max(S), h[S \ {Max(S)}]>>]
        BY <2>1, <3>2 DEF FoldsOver
      <4> HIDE DEF V, n
      <4> QED BY <3>2, <4>1, <4>2, <4>3
    <3> QED BY <3>1, <3>2
  <2>3. Scan(h)
    <3> HIDE DEF V, turn, n
    <3> QED BY <1>1, <2>1, <2>2
  <2> QED BY <2>3
<1>6. Scan(iter)
  <2> HIDE DEF Scan
  <2> QED BY <1>5
<1>7. ScanRoots(base, roots) = iter[DOMAIN roots]
  BY DEF ScanRoots, FoldLeft, MapThenFoldSet
<1> DEFINE r == [i \in 0..n |-> iter[1..i]]
<1> HIDE DEF iter
<1>8. r[0] = base
  BY <1>1, <1>6, FirstPositions
<1>9. ASSUME NEW i \in 1..n PROVE r[i] = ScanRoot(r[i - 1], roots[i])
  <2>1. 1..i \in SUBSET (1..n) /\ 1..i # {} /\ Max(1..i) = i /\ (1..i) \ {i} = 1..(i - 1)
    BY <1>1, FirstPositions
  <2>2. iter[1..i] = ScanRoot(iter[(1..i) \ {Max(1..i)}], roots[Max(1..i)])
    BY <1>1, <1>6, <2>1
  <2>3. i \in 0..n /\ i - 1 \in 0..n
    BY <1>1
  <2> HIDE DEF n
  <2> QED BY <2>1, <2>2, <2>3
<1>10. ScanRoots(base, roots) = r[n]
  BY <1>1, <1>7
<1> HIDE DEF r
<1> QED BY <1>8, <1>9, <1>10

\* The eligible files of the first directories that exist.
Reach(roots, i) ==
  {p \in UNION {{k} \X DOMAIN roots[k].files : k \in {k \in 1..i : roots[k].exists}} :
     Eligible(roots[p[1]].files[p[2]])}

\* One directory more.
LEMMA ReachByDirectory ==
  ASSUME NEW roots, NEW i \in Nat \ {0}, IsFiniteSet(InDirectory(roots[i].files)),
         IsFiniteSet(Reach(roots, i - 1))
  PROVE  /\ IsFiniteSet(Reach(roots, i))
         /\ Cardinality(Reach(roots, i))
              = Cardinality(Reach(roots, i - 1))
                  + (IF roots[i].exists THEN Cardinality(InDirectory(roots[i].files)) ELSE 0)
         /\ Cardinality(Reach(roots, i - 1)) \in Nat /\ Cardinality(InDirectory(roots[i].files)) \in Nat
<1> DEFINE E == InDirectory(roots[i].files)
           old == Reach(roots, i - 1)
           new == Reach(roots, i)
<1>1. \A k \in 1..i : k = i \/ k \in 1..(i - 1)
  OBVIOUS
<1>2. i \in 1..i /\ i \notin 1..(i - 1) /\ \A k \in 1..(i - 1) : k \in 1..i
  OBVIOUS
<1>3. /\ \A p \in new : p = <<p[1], p[2]>>
      /\ \A p \in old : p = <<p[1], p[2]>>
      /\ \A p \in {i} \X E : p = <<p[1], p[2]>>
  BY DEF Reach
<1>4. \A m \in {i - 1, i} : \A a, b :
        <<a, b>> \in Reach(roots, m)
          <=> a \in 1..m /\ roots[a].exists /\ b \in DOMAIN roots[a].files /\ Eligible(roots[a].files[b])
  BY DEF Reach
<1>5. \A a, b : <<a, b>> \in {i} \X E
        <=> a = i /\ b \in DOMAIN roots[i].files /\ Eligible(roots[i].files[b])
  BY DEF InDirectory
<1> HIDE DEF E, old, new
<1>6. roots[i].exists => new = old \cup ({i} \X E)
  BY <1>1, <1>2, <1>3, <1>4, <1>5 DEF old, new
<1>7. ~roots[i].exists => new = old
  <2> SUFFICES ASSUME ~roots[i].exists PROVE new = old
    OBVIOUS
  <2>1. ASSUME NEW p \in new PROVE p \in old
    <3>1. p = <<p[1], p[2]>> /\ p[1] \in 1..i /\ roots[p[1]].exists
      BY <1>3, <1>4 DEF new
    <3>2. p[1] \in 1..(i - 1)
      BY <1>1, <3>1
    <3> QED BY <1>4, <3>1, <3>2 DEF old, new
  <2>2. ASSUME NEW p \in old PROVE p \in new
    <3>1. p = <<p[1], p[2]>> /\ p[1] \in 1..(i - 1)
      BY <1>3, <1>4 DEF old
    <3> QED BY <1>2, <1>4, <3>1 DEF old, new
  <2> QED BY <2>1, <2>2
<1>8. old \cap ({i} \X E) = {}
  BY <1>2, <1>3, <1>4, <1>5 DEF old
<1>9. /\ IsFiniteSet({i} \X E) /\ Cardinality({i} \X E) = Cardinality(E)
      /\ Cardinality(E) \in Nat /\ Cardinality(old) \in Nat
  <2>1. IsFiniteSet(E) /\ Cardinality(E) \in Nat /\ Cardinality(old) \in Nat
    BY FS_CardinalityType DEF E, old
  <2>2. IsFiniteSet({i}) /\ Cardinality({i}) = 1
    BY FS_Singleton
  <2>3. IsFiniteSet({i} \X E) /\ Cardinality({i} \X E) = Cardinality({i}) * Cardinality(E)
    BY <2>1, <2>2, FS_Product
  <2>4. 1 * Cardinality(E) = Cardinality(E)
    BY <2>1
  <2> QED BY <2>1, <2>2, <2>3, <2>4
<1>10. IsFiniteSet(old \cup ({i} \X E))
       /\ Cardinality(old \cup ({i} \X E)) = Cardinality(old) + Cardinality(E)
  <2>1. IsFiniteSet(old)
    BY DEF old
  <2> QED BY <1>8, <1>9, <2>1, CountedApart
<1>11. IsFiniteSet(new) /\ Cardinality(new) = Cardinality(old) + (IF roots[i].exists THEN Cardinality(E) ELSE 0)
  <2>1. CASE roots[i].exists
    BY <1>6, <1>10, <2>1
  <2>2. CASE ~roots[i].exists
    BY <1>7, <1>9, <2>2 DEF old
  <2> QED BY <2>1, <2>2
<1> QED BY <1>9, <1>11 DEF E, old, new

\* A scan reaches every directory unless the cap stops it.
LEMMA ScansGoThrough ==
  ASSUME NEW F, NEW base \in ScanStates(F), base.scanned = 0, base.skipped = 0,
         NEW roots, roots \in Seq(ToSet(roots)), \A i \in DOMAIN roots : FindingsFrom(roots[i], F),
         NEW last, last = ScanRoots(base, roots)
  PROVE  /\ last.scanned \in Nat /\ last.scanned <= MaxFiles
         /\ last.scanned < MaxFiles =>
              /\ last.scanned + last.skipped = Cardinality(Reach(roots, Len(roots)))
              /\ \A k \in DOMAIN roots : roots[k].exists =>
                   \A j \in DOMAIN roots[k].files :
                     Eligible(roots[k].files[j]) /\ roots[k].files[j].size = "small" =>
                       FileFindings(roots[k].files[j]) \subseteq last.findings
<1> DEFINE n == Len(roots)
<1>1. n \in Nat /\ DOMAIN roots = 1..n
  OBVIOUS
<1>2. MaxFiles \in Nat /\ base.scanned <= MaxFiles
  BY ScanAssumption
<1>3. PICK r : /\ r[0] = base
               /\ \A i \in 1..n : r[i] = ScanRoot(r[i - 1], roots[i])
               /\ last = r[n]
  BY <1>2, RootsAreScannedInTurn
<1> DEFINE Read(k, s) ==
             roots[k].exists =>
               \A j \in DOMAIN roots[k].files :
                 Eligible(roots[k].files[j]) /\ roots[k].files[j].size = "small" =>
                   FileFindings(roots[k].files[j]) \subseteq s.findings
           Inv(i, s) ==
             /\ s \in ScanStates(F) /\ s.scanned \in Nat /\ s.skipped \in Nat /\ s.scanned <= MaxFiles
             /\ IsFiniteSet(Reach(roots, i)) /\ Cardinality(Reach(roots, i)) \in Nat
             /\ s.scanned < MaxFiles =>
                  /\ s.scanned + s.skipped = Cardinality(Reach(roots, i))
                  /\ \A k \in 1..i : Read(k, s)
           P == {i \in 0..n : Inv(i, r[i])}
<1>4. 0 \in P
  <2>1. Reach(roots, 0) = {}
    BY DEF Reach
  <2>2. IsFiniteSet(Reach(roots, 0)) /\ Cardinality(Reach(roots, 0)) = 0
    BY <2>1, FS_EmptySet
  <2>3. \A k \in 1..0 : FALSE
    OBVIOUS
  <2>4. 0 \in 0..n
    BY <1>1
  <2> HIDE DEF Read, n
  <2> QED BY <1>2, <1>3, <2>2, <2>3, <2>4
<1>5. ASSUME NEW i \in 1..n, i - 1 \in P PROVE i \in P
  <2> DEFINE s == r[i - 1]
             root == roots[i]
             next == r[i]
             c == Cardinality(InDirectory(root.files))
             before == Cardinality(Reach(roots, i - 1))
             after == Cardinality(Reach(roots, i))
  <2>1. Inv(i - 1, s)
    BY <1>5
  <2>2. next = ScanRoot(s, root) /\ FindingsFrom(root, F) /\ i \in 0..n /\ i \in Nat \ {0}
    BY <1>1, <1>3
  <2>3. \A k \in 1..i : k = i \/ k \in 1..(i - 1)
    BY <1>1
  <2> HIDE DEF s, next, n, root
  <2>4. /\ next \in ScanStates(F) /\ next.scanned \in Nat /\ next.skipped \in Nat
        /\ s.scanned \in Nat /\ s.skipped \in Nat
        /\ s.scanned <= next.scanned /\ next.scanned <= MaxFiles
        /\ s.findings \subseteq next.findings
        /\ IsFiniteSet(InDirectory(root.files))
        /\ next.scanned < MaxFiles =>
             IF root.exists
               THEN /\ next.scanned + next.skipped = s.scanned + s.skipped + c
                    /\ \A j \in DOMAIN root.files :
                         Eligible(root.files[j]) /\ root.files[j].size = "small" =>
                           FileFindings(root.files[j]) \subseteq next.findings
               ELSE next.scanned = s.scanned /\ next.skipped = s.skipped
    BY <2>1, <2>2, ADirectoryIsScanned
  <2>5. /\ IsFiniteSet(Reach(roots, i)) /\ after = before + (IF root.exists THEN c ELSE 0)
        /\ before \in Nat /\ c \in Nat
    BY <2>1, <2>2, <2>4, ReachByDirectory DEF root
  <2> HIDE DEF c, before, after
  <2>6. after \in Nat
    BY <2>5
  <2>7. ASSUME next.scanned < MaxFiles
        PROVE  next.scanned + next.skipped = after
    <3>1. s.scanned < MaxFiles
      BY <1>2, <2>4, <2>7
    <3>2. s.scanned + s.skipped = before
      BY <2>1, <3>1 DEF before
    <3>3. CASE root.exists
      BY <2>4, <2>5, <2>7, <3>2, <3>3
    <3>4. CASE ~root.exists
      BY <2>4, <2>5, <2>7, <3>2, <3>4
    <3> QED BY <3>3, <3>4
  <2>8. ASSUME next.scanned < MaxFiles, NEW k \in 1..i PROVE Read(k, next)
    <3>1. s.scanned < MaxFiles
      BY <1>2, <2>4, <2>8
    <3>2. CASE k = i
      BY <2>4, <2>8, <3>2 DEF root
    <3>3. CASE k \in 1..(i - 1)
      <4>1. Read(k, s)
        <5> HIDE DEF Read
        <5> QED BY <2>1, <3>1, <3>3
      <4> QED BY <2>4, <4>1
    <3> QED BY <2>3, <3>2, <3>3
  <2>9. Inv(i, next)
    <3> HIDE DEF Read
    <3> QED BY <2>4, <2>5, <2>6, <2>7, <2>8 DEF after
  <2> HIDE DEF Inv
  <2> QED BY <2>2, <2>9 DEF next
<1>6. n \in P
  <2> HIDE DEF P
  <2>1. \A i \in 0..n : i \in P
    BY <1>1, <1>4, <1>5, UpTo
  <2> QED BY <1>1, <2>1
<1>7. Inv(n, last)
  <2> HIDE DEF Inv
  <2> QED BY <1>3, <1>6
<1> HIDE DEF n
<1> QED BY <1>1, <1>7 DEF n

\* What is wrong in a Python file has a finding that names it.
LEMMA WhatIsWrongIsNamed ==
  ASSUME NEW file, file.kind = "py", NEW found, FileFindings(file) \subseteq found,
         \A o \in file.overrides : o.super \in {"none", "dropped", "returned"}
  PROVE  IF file.broken THEN "py" \in {f.of : f \in found}
         ELSE /\ \A o \in file.overrides : o.super # "returned" => o.method \in {f.of : f \in found}
              /\ \A c \in file.computes :
                   ~(c.reads \subseteq c.depends \cup c.fields) => c.method \in {f.of : f \in found}
<1>1. CASE file.broken
  <2>1. FileFindings(file) = {Finding("parse_error", "py")}
    BY <1>1 DEF FileFindings
  <2>2. Finding("parse_error", "py") \in found /\ Finding("parse_error", "py").of = "py"
    BY <2>1 DEF Finding
  <2> QED BY <1>1, <2>2
<1>2. CASE ~file.broken
  <2>1. FileFindings(file)
          = UNION ({ComputeFindings(c) : c \in file.computes} \cup {OverrideFindings(o) : o \in file.overrides})
    BY <1>2 DEF FileFindings
  <2>2. ASSUME NEW o \in file.overrides, o.super # "returned"
        PROVE  o.method \in {f.of : f \in found}
    <3>1. OverrideFindings(o) \subseteq found
      BY <2>1
    <3>2. \E f \in OverrideFindings(o) : f.of = o.method
      <4>1. CASE o.super = "none"
        BY <4>1 DEF OverrideFindings, Finding
      <4>2. CASE o.super = "dropped"
        BY <4>2 DEF OverrideFindings, Finding
      <4> QED BY <2>2, <4>1, <4>2
    <3> QED BY <3>1, <3>2
  <2>3. ASSUME NEW c \in file.computes, ~(c.reads \subseteq c.depends \cup c.fields)
        PROVE  c.method \in {f.of : f \in found}
    <3>1. ComputeFindings(c) \subseteq found
      BY <2>1
    <3>2. \E f \in ComputeFindings(c) : f.of = c.method
      <4>1. CASE ~c.defined
        BY <4>1 DEF ComputeFindings, Finding
      <4>2. CASE c.defined /\ c.depends = {}
        BY <4>2 DEF ComputeFindings, Finding
      <4>3. CASE c.defined /\ c.depends # {}
        BY <2>3, <4>3 DEF ComputeFindings, Finding
      <4> QED BY <4>1, <4>2, <4>3
    <3> QED BY <3>1, <3>2
  <2> QED BY <1>2, <2>2, <2>3
<1> QED BY <1>1, <1>2

\* The scan, as the code computes it.
LEMMA ScanAddonsSourceIsSound == ScanAddonsSource => ScansAreComplete'
<1> SUFFICES ASSUME ScanAddonsSource, call'.out.success PROVE ScansAreComplete'
  BY DEF ScansAreComplete, NamesAll
<1> DEFINE roots == call'.in
           scan == call'.out.scan
           Files == UNION {{i} \X DOMAIN roots[i].files : i \in {j \in DOMAIN roots : roots[j].exists}}
           File(p) == roots[p[1]].files[p[2]]
           base == [scanned |-> 0, skipped |-> 0, findings |-> {}]
           F == {Finding("addons_path_missing", "")}
                  \cup UNION {UNION {FileFindings(roots[i].files[j]) : j \in DOMAIN roots[i].files} : i \in DOMAIN roots}
<1>1. /\ roots \in ScanInputs /\ ~Refused(roots) /\ scan = ScanRoots(base, roots)
      /\ call'.out.full <=> scan.scanned >= MaxFiles
  <2>1. PICK x \in ScanInputs :
          Call("scan_addons_source", x,
            IF Refused(x) THEN [success |-> FALSE]
            ELSE [success |-> TRUE, scan |-> ScanRoots(base, x),
                  full |-> ScanRoots(base, x).scanned >= MaxFiles])
    BY DEF ScanAddonsSource, ScanRoots
  <2>2. ~Refused(x)
    BY <2>1 DEF Call
  <2>3. /\ call'.in = x /\ call'.out.scan = ScanRoots(base, x)
        /\ call'.out.full = (ScanRoots(base, x).scanned >= MaxFiles)
    BY <2>1, <2>2 DEF Call
  <2> HIDE DEF base
  <2> QED BY <2>1, <2>2, <2>3
<1> HIDE DEF roots, scan
<1>2. /\ roots \in Seq(ToSet(roots)) /\ MaxFiles \in Nat
      /\ \A i \in DOMAIN roots :
           /\ roots[i].files \in Seq(ToSet(roots[i].files))
           /\ \A j \in DOMAIN roots[i].files :
                \A o \in roots[i].files[j].overrides : o.super \in {"none", "dropped", "returned"}
  BY <1>1, ScanAssumption
<1>3. \A i \in DOMAIN roots : FindingsFrom(roots[i], F)
  <2> SUFFICES ASSUME NEW i \in DOMAIN roots PROVE FindingsFrom(roots[i], F)
    OBVIOUS
  <2>1. ASSUME NEW j \in DOMAIN roots[i].files PROVE FileFindings(roots[i].files[j]) \subseteq F
    <3> DEFINE inRoot(k) == UNION {FileFindings(roots[k].files[l]) : l \in DOMAIN roots[k].files}
    <3>1. FileFindings(roots[i].files[j]) \subseteq inRoot(i)
      OBVIOUS
    <3>2. inRoot(i) \subseteq F
      <4> HIDE DEF inRoot
      <4>1. inRoot(i) \subseteq UNION {inRoot(k) : k \in DOMAIN roots}
        OBVIOUS
      <4> QED BY <4>1 DEF inRoot
    <3> HIDE DEF F, inRoot
    <3> QED BY <3>1, <3>2
  <2>2. Finding("addons_path_missing", "") \in F
    OBVIOUS
  <2> HIDE DEF F
  <2> QED BY <1>2, <2>1, <2>2 DEF FindingsFrom
<1>4. base \in ScanStates(F) /\ base.scanned = 0 /\ base.skipped = 0
  BY DEF ScanStates
<1> HIDE DEF F, base
<1>5. /\ scan.scanned \in Nat /\ scan.scanned <= MaxFiles
      /\ scan.scanned < MaxFiles =>
           /\ scan.scanned + scan.skipped = Cardinality(Reach(roots, Len(roots)))
           /\ \A k \in DOMAIN roots : roots[k].exists =>
                \A j \in DOMAIN roots[k].files :
                  Eligible(roots[k].files[j]) /\ roots[k].files[j].size = "small" =>
                    FileFindings(roots[k].files[j]) \subseteq scan.findings
  BY <1>1, <1>2, <1>3, <1>4, ScansGoThrough
<1>6. Reach(roots, Len(roots)) = {p \in Files : Eligible(File(p))}
  <2>1. DOMAIN roots = 1..Len(roots)
    BY <1>2
  <2> QED BY <2>1 DEF Reach
<1>7. \A i \in DOMAIN roots : roots[i].configured
  BY <1>1 DEF Refused
<1>8. ~call'.out.full => scan.scanned < MaxFiles
  BY <1>1, <1>2, <1>5
<1>9. ASSUME ~call'.out.full, NEW p \in Files,
             Eligible(File(p)), File(p).kind = "py", File(p).size = "small"
      PROVE  IF File(p).broken THEN "py" \in {f.of : f \in scan.findings}
             ELSE /\ \A o \in File(p).overrides : o.super # "returned" => o.method \in {f.of : f \in scan.findings}
                  /\ \A c \in File(p).computes :
                       ~(c.reads \subseteq c.depends \cup c.fields) => c.method \in {f.of : f \in scan.findings}
  <2>1. p[1] \in DOMAIN roots /\ roots[p[1]].exists /\ p[2] \in DOMAIN roots[p[1]].files
    OBVIOUS
  <2>2. FileFindings(File(p)) \subseteq scan.findings
    BY <1>5, <1>8, <1>9, <2>1
  <2>3. \A o \in File(p).overrides : o.super \in {"none", "dropped", "returned"}
    BY <1>2, <2>1
  <2> HIDE DEF File
  <2> QED BY <1>9, <2>2, <2>3, WhatIsWrongIsNamed
<1>10. ~call'.out.full => scan.scanned + scan.skipped = Cardinality({p \in Files : Eligible(File(p))})
  BY <1>5, <1>6, <1>8
<1>11. scan.scanned <= MaxFiles
  BY <1>5
<1> HIDE DEF Files, File
<1> QED
  BY <1>7, <1>9, <1>10, <1>11, Zenon DEF ScansAreComplete, NamesAll, roots, scan, Files, File

-----------------------------------------------------------------------------
(* What the reports over records add up to.                                *)

\* Of finitely many things that can be compared, one comes after all the others.
LEMMA LastExists ==
  ASSUME NEW P, IsFiniteSet(P), P # {}, NEW Before,
         \A x, y \in P : x # y => <<x, y>> \in Before \/ <<y, x>> \in Before,
         \A x, y, z \in P : <<x, y>> \in Before /\ <<y, z>> \in Before => <<x, z>> \in Before
  PROVE  \E q \in P : \A p \in P \ {q} : <<p, q>> \in Before
<1> DEFINE Bad == {Q \in SUBSET P : Q # {} /\ ~ \E q \in Q : \A p \in Q \ {q} : <<p, q>> \in Before}
<1>1. SUFFICES ASSUME Bad # {} PROVE FALSE
  <2>1. P \in SUBSET P
    OBVIOUS
  <2> QED BY <2>1
<1>2. \A Q \in SUBSET P : IsFiniteSet(Q)
  BY FS_Subset
<1>3. PICK Q \in Bad : \A U \in Bad : Cardinality(Q) <= Cardinality(U)
  <2>1. \A U \in Bad : IsFiniteSet(U)
    BY <1>2
  <2> HIDE DEF Bad
  <2> QED BY <1>1, <2>1, SmallestSet
<1>4. PICK x \in Q : TRUE
  BY <1>3
<1>5. Q \ {x} \notin Bad
  <2>1. ~(Cardinality(Q) <= Cardinality(Q \ {x}))
    BY <1>2, OneLess
  <2> HIDE DEF Bad
  <2> QED BY <1>3, <2>1
<1>6. CASE Q \ {x} = {}
  BY <1>3, <1>6
<1>7. CASE Q \ {x} # {}
  <2>1. PICK y \in Q \ {x} : \A p \in Q \ {x} : p # y => <<p, y>> \in Before
    BY <1>5, <1>7
  <2>2. Q \subseteq P
    OBVIOUS
  <2>3. CASE <<x, y>> \in Before
    <3>1. \A p \in Q \ {y} : <<p, y>> \in Before
      BY <2>1, <2>3
    <3> QED BY <1>3, <3>1
  <2>4. CASE <<y, x>> \in Before
    <3>1. \A p \in Q \ {x} : <<p, x>> \in Before
      BY <2>1, <2>2, <2>4
    <3> QED BY <1>3, <3>1
  <2> QED BY <2>2, <2>3, <2>4
<1> QED BY <1>6, <1>7

\* Finitely many things that can be compared can be put in order.
LEMMA RankingExists ==
  ASSUME NEW P, IsFiniteSet(P), NEW Before,
         \A x, y \in P : x # y => <<x, y>> \in Before \/ <<y, x>> \in Before,
         \A x, y, z \in P : <<x, y>> \in Before /\ <<y, z>> \in Before => <<x, z>> \in Before
  PROVE  \E s \in SetToSeqs(P) : \A j, k \in DOMAIN s : j < k => <<s[j], s[k]>> \in Before
<1> DEFINE Ranks(s, Q) == s \in SetToSeqs(Q)
                          /\ \A j, k \in DOMAIN s : j < k => <<s[j], s[k]>> \in Before
           Bad == {Q \in SUBSET P : ~ \E s : Ranks(s, Q)}
<1>1. SUFFICES ASSUME Bad # {} PROVE FALSE
  <2>1. P \in SUBSET P
    OBVIOUS
  <2> QED BY <2>1
<1>2. \A Q \in SUBSET P : IsFiniteSet(Q)
  BY FS_Subset
<1>3. PICK Q \in Bad : \A U \in Bad : Cardinality(Q) <= Cardinality(U)
  <2>1. \A U \in Bad : IsFiniteSet(U)
    BY <1>2
  <2> HIDE DEF Bad
  <2> QED BY <1>1, <2>1, SmallestSet
<1>4. Q # {}
  <2> DEFINE s == [i \in 1..0 |-> i]
  <2>1. 1..0 = {} /\ Cardinality({}) = 0
    BY FS_EmptySet
  <2>2. Ranks(s, {})
    BY <2>1 DEF SetToSeqs
  <2> HIDE DEF Ranks
  <2> QED BY <1>3, <2>2
<1>5. PICK q \in Q : \A p \in Q \ {q} : <<p, q>> \in Before
  <2>1. /\ \A x, y \in Q : x # y => <<x, y>> \in Before \/ <<y, x>> \in Before
        /\ \A x, y, z \in Q : <<x, y>> \in Before /\ <<y, z>> \in Before => <<x, z>> \in Before
    OBVIOUS
  <2> HIDE DEF Bad
  <2> QED BY <1>2, <1>3, <1>4, <2>1, LastExists DEF Bad
<1> DEFINE n == Cardinality(Q)
<1>6. n \in Nat \ {0} /\ Cardinality(Q \ {q}) = n - 1 /\ ~(n <= Cardinality(Q \ {q}))
  BY <1>2, OneLess
<1>7. PICK s : Ranks(s, Q \ {q})
  <2>1. Q \ {q} \in SUBSET P /\ Q \ {q} \notin Bad
    <3> HIDE DEF Ranks
    <3> QED BY <1>3, <1>6
  <2> HIDE DEF Ranks
  <2> QED BY <2>1
<1> HIDE DEF n
<1>8. /\ s \in [1..(n - 1) -> Q \ {q}]
      /\ \A i, j \in 1..(n - 1) : i # j => s[i] # s[j]
      /\ \A i, j \in 1..(n - 1) : i < j => <<s[i], s[j]>> \in Before
  BY <1>6, <1>7 DEF SetToSeqs
<1> DEFINE t == [i \in 1..n |-> IF i = n THEN q ELSE s[i]]
<1>9. \A i \in 1..n : i = n \/ i \in 1..(n - 1)
  BY <1>6
<1>10. t \in [1..n -> Q] /\ DOMAIN t = 1..n
  BY <1>8, <1>9
<1>11. \A i, j \in 1..n : i # j => t[i] # t[j]
  BY <1>8, <1>9
<1>12. \A i, j \in 1..n : i < j => <<t[i], t[j]>> \in Before
  <2> SUFFICES ASSUME NEW i \in 1..n, NEW j \in 1..n, i < j
               PROVE  <<t[i], t[j]>> \in Before
    OBVIOUS
  <2>1. i # n /\ i \in 1..(n - 1) /\ t[i] = s[i] /\ s[i] \in Q \ {q}
    BY <1>6, <1>8
  <2>2. CASE j = n
    BY <1>5, <2>1, <2>2
  <2>3. CASE j # n
    BY <1>8, <1>9, <2>1, <2>3
  <2> QED BY <2>2, <2>3
<1> HIDE DEF t
<1>13. Ranks(t, Q)
  BY <1>10, <1>11, <1>12 DEF n, SetToSeqs
<1> QED
  <2> HIDE DEF Ranks
  <2> QED BY <1>3, <1>13

\* A set is enumerated to its last element.
LEMMA EnumerationsAreComplete ==
  ASSUME NEW P, IsFiniteSet(P), NEW s \in SetToSeqs(P)
  PROVE  /\ Cardinality(P) \in Nat /\ s \in [1..Cardinality(P) -> P] /\ Len(s) = Cardinality(P)
         /\ \A j, k \in 1..Cardinality(P) : j # k => s[j] # s[k]
         /\ \A p \in P : \E k \in 1..Cardinality(P) : s[k] = p
<1> DEFINE n == Cardinality(P)
<1>1. n \in Nat
  BY FS_CardinalityType
<1>2. s \in [1..n -> P] /\ \A j, k \in 1..n : j # k => s[j] # s[k]
  BY DEF SetToSeqs
<1>3. IsFiniteSet(1..n) /\ Cardinality(1..n) = n
  BY <1>1, FS_Interval
<1> HIDE DEF n
<1>4. s \in Injection(1..n, P)
  BY <1>2 DEF Injection, IsInjective
<1>5. s \in Surjection(1..n, P)
  BY <1>3, <1>4, FS_Injection DEF n
<1>6. \A p \in P : \E k \in 1..n : s[k] = p
  BY <1>5 DEF Surjection
<1>7. Len(s) = n
  BY <1>1, <1>2
<1> QED BY <1>1, <1>2, <1>6, <1>7 DEF n

\* The items that count are items; all of them, unless the limit cut some off.
LEMMA CountedItems ==
  ASSUME NEW in \in AgingInputs
  PROVE  /\ DOMAIN in.items = 1..Len(in.items) /\ Len(in.items) \in Nat
         /\ Counted(in) \subseteq DOMAIN in.items /\ IsFiniteSet(Counted(in))
         /\ IsFiniteSet(DOMAIN in.items)
         /\ \A i \in DOMAIN in.items : Amounts(in)[i] \in Int /\ BucketFor(in.items[i].due) \in Buckets
         /\ ~(Len(Fetched(in)) >= in.limit) /\ ~in.lost
              => Counted(in) = {i \in DOMAIN in.items : in.items[i].residual # 0}
<1> DEFINE n == Len(in.items)
           m == Min({in.limit, n})
<1>1. /\ in.items \in Seq(ToSet(in.items)) /\ in.limit \in Nat \ {0}
      /\ \A i \in DOMAIN in.items : in.items[i].residual \in Int /\ in.items[i].due.days \in Int
  BY ReportsAssumption
<1>2. DOMAIN in.items = 1..n /\ n \in Nat
  BY <1>1
<1>3. IsFiniteSet(1..n)
  BY <1>2, FS_Interval
<1>4. ASSUME ~in.lost
      PROVE  /\ Fetched(in) = SubSeq(in.items, 1, m) /\ m \in 0..n /\ m <= in.limit
             /\ m = n \/ m = in.limit
             /\ Len(Fetched(in)) = m /\ DOMAIN Fetched(in) = 1..m
             /\ \A i \in 1..m : Fetched(in)[i] = in.items[i]
  <2>1. Fetched(in) = SubSeq(in.items, 1, m)
    BY <1>4 DEF Fetched
  <2>2. m \in 0..n /\ m <= in.limit /\ (m = n \/ m = in.limit)
    <3>1. in.limit \in Int /\ n \in Int
      BY <1>1, <1>2
    <3>2. m \in {in.limit, n} /\ m <= in.limit /\ m <= n
      <4> DEFINE l == in.limit
      <4> HIDE DEF l, n
      <4>1. Min({l, n}) \in {l, n} /\ Min({l, n}) <= l /\ Min({l, n}) <= n
        BY <3>1, LesserOfTwo DEF l
      <4> QED BY <4>1 DEF l
    <3> HIDE DEF m
    <3> QED BY <1>1, <1>2, <3>2
  <2> HIDE DEF m
  <2>3. Len(SubSeq(in.items, 1, m)) = m /\ \A i \in 1..m : SubSeq(in.items, 1, m)[i] = in.items[i]
    BY <1>1, <1>2, <2>2
  <2>4. DOMAIN SubSeq(in.items, 1, m) = 1..m
    BY <1>1, <1>2, <2>2
  <2> QED BY <2>1, <2>2, <2>3, <2>4
<1>5. Counted(in) \subseteq 1..n
  <2>1. CASE in.lost
    BY <2>1 DEF Counted, Fetched
  <2>2. CASE ~in.lost
    <3> HIDE DEF m
    <3> QED BY <1>2, <1>4, <2>2 DEF Counted
  <2> QED BY <2>1, <2>2
<1>6. ASSUME ~(Len(Fetched(in)) >= in.limit), ~in.lost
      PROVE  Counted(in) = {i \in DOMAIN in.items : in.items[i].residual # 0}
  <2> HIDE DEF m
  <2>1. m = n
    BY <1>1, <1>2, <1>4, <1>6
  <2> QED BY <1>2, <1>4, <1>6, <2>1 DEF Counted
<1>7. ASSUME NEW i \in DOMAIN in.items
      PROVE  Amounts(in)[i] \in Int /\ BucketFor(in.items[i].due) \in Buckets
  <2>1. in.items[i].residual \in Int /\ in.items[i].due.days \in Int
    BY <1>1
  <2>2. Amounts(in)[i] \in Int
    BY <2>1 DEF Amounts
  <2>3. BucketFor(in.items[i].due) \in Buckets
    BY <2>1 DEF BucketFor, Buckets
  <2> QED BY <2>2, <2>3
<1>8. IsFiniteSet(Counted(in))
  BY <1>3, <1>5, FS_Subset
<1> QED BY <1>2, <1>3, <1>5, <1>6, <1>7, <1>8

\* Whatever is counted is in one bucket.
LEMMA BucketsAddUp ==
  ASSUME NEW in \in AgingInputs, NEW L \in SUBSET Counted(in)
  PROVE  SumFunction([b \in Buckets |-> Total(in, L \cap InBucket(in, b))]) = Total(in, L)
<1> DEFINE f == Amounts(in)
           part == [b \in Buckets |-> L \cap InBucket(in, b)]
<1>1. IsFiniteSet(Counted(in)) /\ \A i \in Counted(in) : f[i] \in Int /\ BucketFor(in.items[i].due) \in Buckets
  BY CountedItems
<1>2. IsFiniteSet(Buckets)
  <2>1. IsFiniteSet({"not_due"})
    BY FS_Singleton
  <2>2. IsFiniteSet({"not_due"} \cup {"1-30"})
    BY <2>1, FS_AddElement
  <2>3. IsFiniteSet(({"not_due"} \cup {"1-30"}) \cup {"31-60"})
    BY <2>2, FS_AddElement
  <2>4. IsFiniteSet((({"not_due"} \cup {"1-30"}) \cup {"31-60"}) \cup {"61-90"})
    BY <2>3, FS_AddElement
  <2>5. IsFiniteSet(((({"not_due"} \cup {"1-30"}) \cup {"31-60"}) \cup {"61-90"}) \cup {"90+"})
    BY <2>4, FS_AddElement
  <2>6. ((({"not_due"} \cup {"1-30"}) \cup {"31-60"}) \cup {"61-90"}) \cup {"90+"} = Buckets
    BY DEF Buckets
  <2> QED BY <2>5, <2>6
<1>3. part \in [Buckets -> SUBSET Counted(in)]
  OBVIOUS
<1>4. \A a, b \in Buckets : a # b => part[a] \cap part[b] = {}
  BY DEF InBucket
<1>5. UNION {part[b] : b \in Buckets} = L
  BY <1>1 DEF InBucket
<1>6. [b \in Buckets |-> Total(in, L \cap InBucket(in, b))] = [b \in Buckets |-> SumFunctionOnSet(f, part[b])]
  BY DEF Total
<1> HIDE DEF f, part
<1>7. SumFunction([b \in Buckets |-> SumFunctionOnSet(f, part[b])])
        = SumFunctionOnSet(f, UNION {part[b] : b \in Buckets})
  BY <1>1, <1>2, <1>3, <1>4, SumOfParts
<1> QED BY <1>5, <1>6, <1>7 DEF Total, f

\* The partners are ranked, each once.
LEMMA PartnersAreRanked ==
  ASSUME NEW in \in AgingInputs, NEW r, r = Ranked(in)
  PROVE  /\ Len(r) \in Nat /\ DOMAIN r = 1..Len(r)
         /\ \A j \in 1..Len(r) : r[j] \in Partners(in)
         /\ \A j, k \in 1..Len(r) : j # k => r[j] # r[k]
         /\ \A p \in Partners(in) : \E k \in 1..Len(r) : r[k] = p
         /\ \A j, k \in 1..Len(r) : j < k => Owed(in, r[j]) >= Owed(in, r[k])
         /\ \A p \in Partners(in) : Owed(in, p) \in Int
<1>1. IsFiniteSet(Partners(in))
  <2> DEFINE f == [i \in Counted(in) |-> in.items[i].partner]
  <2>1. f \in Surjection(Counted(in), Partners(in))
    BY DEF Surjection, Partners
  <2> QED BY <2>1, CountedItems, FS_Surjection
<1>2. ASSUME NEW p \in Partners(in) PROVE Owed(in, p) \in Int
  <2>1. IsFiniteSet(OfPartner(in, p)) /\ \A i \in OfPartner(in, p) : Amounts(in)[i] \in Int
    BY CountedItems, FS_Subset DEF OfPartner
  <2> QED BY <2>1, SumByElements DEF Owed, Total
<1> DEFINE P == Partners(in)
           Before == {pair \in P \X P : Owed(in, pair[1]) >= Owed(in, pair[2])}
<1>3. \A x, y \in P : <<x, y>> \in Before <=> Owed(in, x) >= Owed(in, y)
  OBVIOUS
<1> HIDE DEF P, Before
<1>4. PICK s \in SetToSeqs(P) : \A j, k \in DOMAIN s : j < k => <<s[j], s[k]>> \in Before
  <2>1. /\ \A x, y \in P : x # y => <<x, y>> \in Before \/ <<y, x>> \in Before
        /\ \A x, y, z \in P : <<x, y>> \in Before /\ <<y, z>> \in Before => <<x, z>> \in Before
    BY <1>2, <1>3 DEF P
  <2> QED BY <1>1, <2>1, RankingExists DEF P
<1>5. \A j \in DOMAIN s : s[j] \in P
  BY <1>1, EnumerationsAreComplete DEF P
<1>6. \A j, k \in DOMAIN s : j < k => Owed(in, s[j]) >= Owed(in, s[k])
  BY <1>3, <1>4, <1>5
<1>7. r \in SetToSeqs(Partners(in)) /\ \A j, k \in DOMAIN r : j < k => Owed(in, r[j]) >= Owed(in, r[k])
  BY <1>6 DEF Ranked, P
<1> QED BY <1>1, <1>2, <1>7, EnumerationsAreComplete

\* What is due before the date of the report is late.
LEMMA LateIsNotDue ==
  ASSUME NEW due, due.known, NEW d, d = due.days, d \in Int, d > 0
  PROVE  BucketFor(due) # "not_due"
<1>1. d \in 1..30 \/ d \in 31..60 \/ d \in 61..90 \/ d >= 91
  <2> SUFFICES ASSUME NEW x \in Int, x > 0
               PROVE  x \in 1..30 \/ x \in 31..60 \/ x \in 61..90 \/ x >= 91
    OBVIOUS
  <2> QED OBVIOUS
<1>2. ~(d <= 0)
  OBVIOUS
<1> QED BY <1>1, <1>2 DEF BucketFor

\* The report, as the code computes it.
LEMMA AgingIsSound == Aging => AgingAddsUp'
<1> SUFFICES ASSUME NEW in \in AgingInputs, NEW r, r = Ranked(in), NEW m, m = Min({Len(r), in.top}),
                    NEW out,
                    out = [buckets |-> [b \in Buckets |-> Total(in, InBucket(in, b))],
                           partners |-> [k \in 1..m |->
                             [total |-> Owed(in, r[k]),
                              by |-> [b \in Buckets |-> Total(in, OfPartner(in, r[k]) \cap InBucket(in, b))]]],
                           count |-> Len(r), truncated |-> Len(Fetched(in)) >= in.limit],
                    Call("aging", in, out)
             PROVE  AgingAddsUp'
  BY DEF Aging
<1>1. call'.in = in /\ call'.out = out
  BY DEF Call
<1>2. in.top \in Nat
  BY ReportsAssumption
<1>3. /\ Len(r) \in Nat
      /\ \A j \in 1..Len(r) : r[j] \in Partners(in)
      /\ \A j, k \in 1..Len(r) : j # k => r[j] # r[k]
      /\ \A p \in Partners(in) : \E k \in 1..Len(r) : r[k] = p
      /\ \A j, k \in 1..Len(r) : j < k => Owed(in, r[j]) >= Owed(in, r[k])
  BY PartnersAreRanked
<1>4. m \in Nat /\ m <= Len(r)
  <2> DEFINE a == Len(r)
             t == in.top
  <2>1. a \in Nat /\ t \in Nat /\ a \in Int /\ t \in Int
    BY <1>2, <1>3
  <2>2. m = Min({a, t})
    OBVIOUS
  <2> HIDE DEF a, t
  <2>3. m \in {a, t} /\ m <= a
    BY <2>1, <2>2, LesserOfTwo
  <2> QED BY <2>1, <2>3 DEF a
<1>5. \A k \in 1..m : k \in 1..Len(r)
  BY <1>3, <1>4
<1>6. DOMAIN out.partners = 1..m /\ Len(out.partners) = m /\ out.count = Len(r)
  BY <1>4
<1>7. \A k \in 1..m : out.partners[k].total = SumFunction(out.partners[k].by)
  <2> SUFFICES ASSUME NEW k \in 1..m PROVE out.partners[k].total = SumFunction(out.partners[k].by)
    OBVIOUS
  <2>1. OfPartner(in, r[k]) \in SUBSET Counted(in)
    BY DEF OfPartner
  <2>2. SumFunction([b \in Buckets |-> Total(in, OfPartner(in, r[k]) \cap InBucket(in, b))])
          = Total(in, OfPartner(in, r[k]))
    BY <2>1, BucketsAddUp
  <2> QED BY <2>2 DEF Owed
<1>8. ASSUME m = Len(r), NEW b \in Buckets
      PROVE  SumFunction([k \in 1..m |-> out.partners[k].by[b]]) = out.buckets[b]
  <2> DEFINE f == Amounts(in)
             part == [k \in 1..m |-> OfPartner(in, r[k]) \cap InBucket(in, b)]
  <2>1. IsFiniteSet(Counted(in)) /\ \A i \in Counted(in) : f[i] \in Int
    BY CountedItems
  <2>2. IsFiniteSet(1..m)
    BY <1>4, FS_Interval
  <2>3. part \in [1..m -> SUBSET Counted(in)]
    BY DEF OfPartner
  <2>4. \A j, k \in 1..m : j # k => part[j] \cap part[k] = {}
    <3> SUFFICES ASSUME NEW j \in 1..m, NEW k \in 1..m, j # k, NEW i \in part[j], i \in part[k]
                 PROVE  FALSE
      OBVIOUS
    <3>1. i \in OfPartner(in, r[j]) /\ i \in OfPartner(in, r[k])
      OBVIOUS
    <3>2. r[j] # r[k]
      BY <1>3, <1>5
    <3> QED BY <3>1, <3>2 DEF OfPartner
  <2>5. UNION {part[k] : k \in 1..m} = InBucket(in, b)
    <3>1. ASSUME NEW i \in InBucket(in, b) PROVE \E k \in 1..m : i \in part[k]
      <4>1. i \in Counted(in) /\ in.items[i].partner \in Partners(in)
        BY DEF InBucket, Partners
      <4>2. PICK k \in 1..m : r[k] = in.items[i].partner
        BY <1>3, <1>8, <4>1
      <4>3. i \in OfPartner(in, r[k])
        BY <4>1, <4>2 DEF OfPartner
      <4> QED BY <4>3
    <3>2. \A k \in 1..m : part[k] \subseteq InBucket(in, b)
      OBVIOUS
    <3> HIDE DEF part
    <3> QED BY <3>1, <3>2
  <2>6. [k \in 1..m |-> out.partners[k].by[b]] = [k \in 1..m |-> SumFunctionOnSet(f, part[k])]
    BY DEF Total
  <2>7. out.buckets[b] = SumFunctionOnSet(f, InBucket(in, b))
    BY DEF Total
  <2> HIDE DEF f, part
  <2>8. SumFunction([k \in 1..m |-> SumFunctionOnSet(f, part[k])])
          = SumFunctionOnSet(f, UNION {part[k] : k \in 1..m})
    <3> DEFINE K == 1..m
               S == Counted(in)
    <3>1. /\ IsFiniteSet(K) /\ IsFiniteSet(S) /\ part \in [K -> SUBSET S]
          /\ \A i \in S : f[i] \in Int
          /\ \A j, k \in K : j # k => part[j] \cap part[k] = {}
      BY <2>1, <2>2, <2>3, <2>4
    <3> HIDE DEF K, S
    <3>2. SumFunction([k \in K |-> SumFunctionOnSet(f, part[k])])
            = SumFunctionOnSet(f, UNION {part[k] : k \in K})
      BY <3>1, SumOfParts
    <3> QED BY <3>2 DEF K
  <2> QED BY <2>5, <2>6, <2>7, <2>8
<1>9. ASSUME NEW p \in Partners(in)
      PROVE  \/ \E k \in 1..m : out.partners[k].total = Owed(in, p)
             \/ \A k \in 1..m : out.partners[k].total >= Owed(in, p)
  <2>1. PICK j \in 1..Len(r) : r[j] = p
    BY <1>3
  <2>2. \A k \in 1..m : out.partners[k].total = Owed(in, r[k])
    OBVIOUS
  <2>3. CASE j \in 1..m
    BY <2>1, <2>2, <2>3
  <2>4. CASE j \notin 1..m
    <3>1. \A k \in 1..m : k < j
      BY <1>3, <1>4, <2>4
    <3> QED BY <1>3, <1>5, <2>1, <2>2, <3>1
  <2> QED BY <2>3, <2>4
<1>10. ~out.truncated /\ ~in.lost =>
         SumFunction(out.buckets) = Total(in, {i \in DOMAIN in.items : in.items[i].residual # 0})
  <2>1. SumFunction([b \in Buckets |-> Total(in, Counted(in) \cap InBucket(in, b))]) = Total(in, Counted(in))
    BY BucketsAddUp
  <2>2. \A b \in Buckets : Counted(in) \cap InBucket(in, b) = InBucket(in, b)
    BY DEF InBucket
  <2>3. SumFunction(out.buckets) = Total(in, Counted(in))
    BY <2>1, <2>2
  <2> QED BY <2>3, CountedItems
<1>11. \A i \in Counted(in) : in.items[i].due.known /\ in.items[i].due.days > 0 =>
         BucketFor(in.items[i].due) # "not_due"
  <2> SUFFICES ASSUME NEW i \in Counted(in), in.items[i].due.known, in.items[i].due.days > 0
               PROVE  BucketFor(in.items[i].due) # "not_due"
    OBVIOUS
  <2>1. in.items[i].due.days \in Int
    BY CountedItems, ReportsAssumption
  <2> QED BY <2>1, LateIsNotDue
<1> HIDE DEF AgingAddsUp
<1> QED
  BY <1>1, <1>6, <1>7, <1>8, <1>9, <1>10, <1>11 DEF AgingAddsUp

\* The fields a check looks at.
LEMMA ScannedFields ==
  ASSUME NEW in \in QualityInputs, NEW check \in in.checks
  PROVE  /\ Scanned(in, check) \subseteq Suitable(in, check)
         /\ Suitable(in, check) \subseteq DOMAIN in.fields
         /\ IsFiniteSet(Scanned(in, check))
         /\ \A i \in Suitable(in, check) : IsFiniteSet(in.fields[i].bad[check])
         /\ Cardinality({i \in DOMAIN in.fields : check \in DOMAIN in.fields[i].bad}) <= MaxFields[check]
              => Scanned(in, check) = Suitable(in, check)
<1> DEFINE n == Len(in.fields)
           all == {i \in DOMAIN in.fields : check \in DOMAIN in.fields[i].bad}
           S == Suitable(in, check)
<1>1. /\ in.fields \in Seq(ToSet(in.fields)) /\ MaxFields[check] \in Nat
  BY ReportsAssumption
<1>2. DOMAIN in.fields = 1..n /\ n \in Nat
  BY <1>1
<1>3. IsFiniteSet(DOMAIN in.fields)
  BY <1>2, FS_Interval
<1>4. S \subseteq all /\ all \subseteq DOMAIN in.fields
  BY DEF Suitable
<1>5. IsFiniteSet(all) /\ Cardinality(all) \in Nat
  BY <1>3, <1>4, FS_Subset, FS_CardinalityType
<1>6. Scanned(in, check) \subseteq S
  BY DEF Scanned
<1>7. IsFiniteSet(Scanned(in, check))
  BY <1>4, <1>5, <1>6, FS_Subset
<1>8. ASSUME Cardinality(all) <= MaxFields[check]
      PROVE  Scanned(in, check) = S
  <2>1. ASSUME NEW i \in S
        PROVE  Cardinality({j \in S : j <= i}) <= MaxFields[check]
    <3> DEFINE first == {j \in S : j <= i}
    <3>1. first \subseteq all
      BY <1>4
    <3> HIDE DEF first, all
    <3>2. Cardinality(first) <= Cardinality(all) /\ Cardinality(first) \in Nat
      BY <1>5, <3>1, FS_Subset, FS_CardinalityType
    <3>3. Cardinality(first) <= MaxFields[check]
      BY <1>1, <1>5, <1>8, <3>2
    <3> QED BY <3>3 DEF first
  <2> QED BY <2>1 DEF Scanned
<1>9. \A i \in S : IsFiniteSet(in.fields[i].bad[check])
  BY ReportsAssumption DEF Suitable
<1> HIDE DEF all, S
<1> QED BY <1>1, <1>4, <1>6, <1>7, <1>8, <1>9 DEF all, S

\* A check counts the problems it sees of the fields it looks at.
LEMMA ChecksCount ==
  ASSUME NEW in \in QualityInputs, NEW check \in in.checks,
         Cardinality({i \in DOMAIN in.fields : check \in DOMAIN in.fields[i].bad}) <= MaxFields[check]
  PROVE  /\ Issues(in, check) \in Nat
         /\ Issues(in, check) = 0 <=> \A i \in Suitable(in, check) : Seen(in, check, i) = {}
<1> DEFINE S == Scanned(in, check)
           f == [i \in S |-> Cardinality(Seen(in, check, i))]
<1>1. S = Suitable(in, check) /\ IsFiniteSet(S) /\ \A i \in S : IsFiniteSet(in.fields[i].bad[check])
  BY ScannedFields
<1>2. \A i \in S : IsFiniteSet(Seen(in, check, i))
  <2>1. \A i \in S : Seen(in, check, i) \subseteq in.fields[i].bad[check]
    BY DEF Seen
  <2> QED BY <1>1, <2>1, FS_Subset
<1>3. \A i \in S : f[i] \in Nat /\ (f[i] = 0 <=> Seen(in, check, i) = {})
  <2>1. \A i \in S : f[i] = Cardinality(Seen(in, check, i))
    OBVIOUS
  <2>2. \A i \in S : /\ Cardinality(Seen(in, check, i)) \in Nat
                     /\ Cardinality(Seen(in, check, i)) = 0 <=> Seen(in, check, i) = {}
    BY <1>2, FS_CardinalityType, FS_EmptySet
  <2> HIDE DEF f, S
  <2> QED BY <2>1, <2>2
<1>4. Issues(in, check) = SumFunctionOnSet(f, S)
  BY DEF Issues
<1> HIDE DEF f, S
<1>5. SumFunctionOnSet(f, S) \in Nat /\ (SumFunctionOnSet(f, S) = 0 <=> \A i \in S : f[i] = 0)
  BY <1>1, <1>3, SumOfNaturals
<1> QED BY <1>1, <1>3, <1>4, <1>5

\* The report, as the code computes it.
LEMMA DataQualityIsSound == DataQuality => CleanIsEarned'
<1> SUFFICES ASSUME DataQuality PROVE CleanIsEarned'
  OBVIOUS
<1> DEFINE in == call'.in
           out == call'.out
           results == out.results
<1>1. /\ in \in QualityInputs /\ results = {CheckResult(in, check) : check \in in.checks}
      /\ out.clean = \A r \in results : ~r.error /\ r.issues = 0
  <2>1. PICK x \in QualityInputs :
          Call("data_quality", x,
            [results |-> {CheckResult(x, check) : check \in x.checks},
             clean |-> \A r \in {CheckResult(x, check) : check \in x.checks} : ~r.error /\ r.issues = 0])
    BY DEF DataQuality
  <2>2. in = x
    BY <2>1 DEF Call
  <2>3. results = {CheckResult(x, check) : check \in x.checks}
    BY <2>1 DEF Call
  <2>4. out.clean = \A r \in {CheckResult(x, check) : check \in x.checks} : ~r.error /\ r.issues = 0
    BY <2>1 DEF Call
  <2> HIDE DEF in, out, results
  <2> QED BY <2>2, <2>3, <2>4
<1> HIDE DEF in, out, results
<1> DEFINE Few(check) ==
             Cardinality({i \in DOMAIN in.fields : check \in DOMAIN in.fields[i].bad}) <= MaxFields[check]
           Problems(check) == {i \in DOMAIN in.fields :
             LET f == in.fields[i] IN
               /\ ~f.denied /\ check \in DOMAIN f.bad
               /\ \E b \in f.bad[check] :
                    check \in Sampling => b.row <= in.sample /\ b.target <= MaxReferenced}
           Result(check) == CHOOSE r \in results : r.check = check
<1>2. ASSUME NEW check \in in.checks
      PROVE  /\ CheckResult(in, check) \in results
             /\ Result(check) = CheckResult(in, check)
  <2>1. \A c \in in.checks : CheckResult(in, c).check = c
    BY DEF CheckResult
  <2>2. CheckResult(in, check) \in results
    BY <1>1
  <2>3. \A r \in results : r.check = check => r = CheckResult(in, check)
    BY <1>1, <2>1
  <2> QED BY <2>1, <2>2, <2>3
<1>3. ASSUME NEW check \in in.checks, Few(check)
      PROVE  /\ Issues(in, check) \in Nat
             /\ check \notin in.lost => (Issues(in, check) = 0 <=> Problems(check) = {})
  <2>1. /\ Issues(in, check) \in Nat
        /\ Issues(in, check) = 0 <=> \A i \in Suitable(in, check) : Seen(in, check, i) = {}
    BY <1>1, <1>3, ChecksCount
  <2>2. ASSUME check \notin in.lost
        PROVE  Problems(check) = {i \in Suitable(in, check) : Seen(in, check, i) # {}}
    BY <2>2 DEF Suitable, Seen
  <2> HIDE DEF Few, Problems
  <2> QED BY <2>1, <2>2
<1>4. ASSUME NEW check \in in.checks, out.clean
      PROVE  /\ check \notin in.raising
             /\ check \notin in.lost /\ Few(check) => Problems(check) = {}
  <2>1. ~CheckResult(in, check).error /\ CheckResult(in, check).issues = 0
    BY <1>1, <1>2, <1>4
  <2>2. check \notin in.raising
    BY <2>1 DEF CheckResult
  <2>3. Issues(in, check) = 0
    BY <2>1, <2>2 DEF CheckResult
  <2> HIDE DEF Few, Problems
  <2> QED BY <1>3, <2>2, <2>3
<1>5. ASSUME NEW check \in in.checks, check \notin in.raising \cup in.lost, Few(check)
      PROVE  Result(check).issues > 0 <=> Problems(check) # {}
  <2>1. CheckResult(in, check).issues = Issues(in, check)
    BY <1>5 DEF CheckResult
  <2> HIDE DEF Few, Problems, Result
  <2> QED BY <1>2, <1>3, <1>5, <2>1
<1>6. ASSUME NEW check \in in.checks, NEW i \in DOMAIN in.fields, in.fields[i].denied
      PROVE  in.fields[i].name \notin Result(check).over
  <2>1. CheckResult(in, check).over \subseteq {in.fields[j].name : j \in Scanned(in, check)}
    BY DEF CheckResult
  <2>2. \A j \in Scanned(in, check) : j \in DOMAIN in.fields /\ ~in.fields[j].denied
    BY DEF Scanned, Suitable
  <2>3. \A j \in DOMAIN in.fields : in.fields[j].name = in.fields[i].name => j = i
    BY <1>1, ReportsAssumption
  <2> HIDE DEF Result
  <2> QED BY <1>2, <1>6, <2>1, <2>2, <2>3
<1>8. \A check \in in.checks :
         /\ out.clean =>
              check \notin in.raising /\ (check \notin in.lost /\ Few(check) => Problems(check) = {})
         /\ check \notin in.raising \cup in.lost /\ Few(check) =>
              (Result(check).issues > 0 <=> Problems(check) # {})
         /\ \A i \in DOMAIN in.fields : in.fields[i].denied => in.fields[i].name \notin Result(check).over
  <2> HIDE DEF Few, Problems, Result
  <2> QED BY <1>4, <1>5, <1>6
<1> HIDE DEF Few, Problems, Result
<1> QED
  BY <1>8, Zenon DEF CleanIsEarned, JudgedAsSeen, in, out, results, Few, Problems, Result

\* Of every input within the limits: a call that works over JSON-2 binds each
\* argument, a log or a scan that was not cut short names all there is to name,
\* the worklist holds every risk once, and the totals of an aging report and the
\* verdict of a data-quality report are those of the records (diagnostics.py,
\* agent_tools.py, accounting_tools.py, data_quality.py).
THEOREM ReportsComplete == ToolsSpec => []ReportsAreComplete
<1> USE DEF ReportsAreComplete
<1>1. ToolsInit => ReportsAreComplete
  BY DEF ToolsInit, NoCall, Answers, Json2CallsLoseNothing, LogsAreWorkedThrough, WorklistsAreRight,
           ScansAreComplete, AgingAddsUp, CleanIsEarned
<1>2. ReportsAreComplete /\ [ToolsNext]_call => ReportsAreComplete'
  <2> SUFFICES ASSUME ReportsAreComplete, [ToolsNext]_call PROVE ReportsAreComplete'
    OBVIOUS
  <2>1. CASE UNCHANGED call
    <3>1. Json2CallsLoseNothing'
      BY <2>1, Zenon DEF Answers, Json2CallsLoseNothing
    <3>2. LogsAreWorkedThrough'
      BY <2>1, Zenon DEF Answers, LogsAreWorkedThrough
    <3>3. WorklistsAreRight'
      BY <2>1, Zenon DEF Answers, WorklistsAreRight
    <3>4. ScansAreComplete'
      BY <2>1, Zenon DEF Answers, ScansAreComplete
    <3>5. AgingAddsUp'
      BY <2>1, Zenon DEF Answers, AgingAddsUp
    <3>6. CleanIsEarned'
      BY <2>1, Zenon DEF Answers, CleanIsEarned
    <3> QED BY <3>1, <3>2, <3>3, <3>4, <3>5, <3>6
  <2>2. CASE ToolsNext
    <3>1. Json2CallsLoseNothing'
      <4>1. CASE Answers("diagnose_odoo_call")'
        BY <2>2, <4>1, AnswersComeFromTheirTool, DiagnoseOdooCallIsSound
      <4>2. CASE ~Answers("diagnose_odoo_call")'
        BY <4>2 DEF Json2CallsLoseNothing
      <4> QED BY <4>1, <4>2
    <3>2. LogsAreWorkedThrough'
      <4>1. CASE Answers("analyze_upgrade_log")'
        BY <2>2, <4>1, AnswersComeFromTheirTool, AnalyzeUpgradeLogIsSound
      <4>2. CASE ~Answers("analyze_upgrade_log")'
        BY <4>2 DEF LogsAreWorkedThrough
      <4> QED BY <4>1, <4>2
    <3>3. WorklistsAreRight'
      <4>1. CASE Answers("upgrade_risk")'
        BY <2>2, <4>1, AnswersComeFromTheirTool, UpgradeRiskIsSound
      <4>2. CASE ~Answers("upgrade_risk")'
        BY <4>2 DEF WorklistsAreRight
      <4> QED BY <4>1, <4>2
    <3>4. ScansAreComplete'
      <4>1. CASE Answers("scan_addons_source")'
        BY <2>2, <4>1, AnswersComeFromTheirTool, ScanAddonsSourceIsSound
      <4>2. CASE ~Answers("scan_addons_source")'
        BY <4>2 DEF ScansAreComplete
      <4> QED BY <4>1, <4>2
    <3>5. AgingAddsUp'
      <4>1. CASE Answers("aging")'
        BY <2>2, <4>1, AnswersComeFromTheirTool, AgingIsSound
      <4>2. CASE ~Answers("aging")'
        BY <4>2 DEF AgingAddsUp
      <4> QED BY <4>1, <4>2
    <3>6. CleanIsEarned'
      <4>1. CASE Answers("data_quality")'
        BY <2>2, <4>1, AnswersComeFromTheirTool, DataQualityIsSound
      <4>2. CASE ~Answers("data_quality")'
        BY <4>2 DEF CleanIsEarned
      <4> QED BY <4>1, <4>2
    <3> QED BY <3>1, <3>2, <3>3, <3>4, <3>5, <3>6
  <2> QED BY <2>1, <2>2
<1> QED BY <1>1, <1>2, PTL DEF ToolsSpec

-----------------------------------------------------------------------------
(* What a search asks for.                                                 *)

\* A sequence is filtered one element after another.
LEMMA FilteredInTurn ==
  ASSUME NEW T, NEW seq \in Seq(T), NEW good
  PROVE  \E r : /\ r[0] = <<>>
                /\ \A i \in 1..Len(seq) :
                     r[i] = IF seq[i] \in good THEN Append(r[i - 1], seq[i]) ELSE r[i - 1]
                /\ Filtered(seq, good) = r[Len(seq)]
<1> DEFINE n == Len(seq)
           V == Seq(T)
           Keep(v, x) == IF x \in good THEN Append(v, x) ELSE v
           turn == [x \in (1..n) \X V |-> Keep(x[2], seq[x[1]])]
           Filter(it) == it = [S \in SUBSET DOMAIN seq |->
                                 IF S = {} THEN <<>> ELSE Keep(it[S \ {Max(S)}], seq[Max(S)])]
           iter == CHOOSE it : Filter(it)
<1>1. n \in Nat /\ DOMAIN seq = 1..n /\ \A i \in 1..n : seq[i] \in T
  OBVIOUS
<1>2. <<>> \in V
  OBVIOUS
<1>3. \A i \in 1..n : \A v \in V : Keep(v, seq[i]) \in V
  BY <1>1
<1>4. turn \in [(1..n) \X V -> V]
  <2> HIDE DEF V, n, Keep
  <2> QED BY <1>3
<1>5. \E it : Filter(it)
  <2>1. PICK h \in [SUBSET (1..n) -> V] : FoldsOver(h, n, <<>>, turn)
    <3> HIDE DEF V, n, turn
    <3> QED BY <1>1, <1>2, <1>4, FoldExists
  <2>2. ASSUME NEW S \in SUBSET (1..n)
        PROVE  h[S] = IF S = {} THEN <<>> ELSE Keep(h[S \ {Max(S)}], seq[Max(S)])
    <3>1. CASE S = {}
      BY <2>1, <3>1 DEF FoldsOver
    <3>2. CASE S # {}
      <4>1. Max(S) \in 1..n
        <5>1. \E x \in S : \A y \in S : x >= y
          <6> HIDE DEF n
          <6> QED BY <1>1, <3>2, GreatestExists
        <5> QED BY <5>1 DEF Max
      <4>2. h[S \ {Max(S)}] \in V
        BY <2>1
      <4>3. h[S] = turn[<<Max(S), h[S \ {Max(S)}]>>]
        BY <2>1, <3>2 DEF FoldsOver
      <4> HIDE DEF V, n, Keep
      <4> QED BY <3>2, <4>1, <4>2, <4>3
    <3> QED BY <3>1, <3>2
  <2>3. Filter(h)
    <3> HIDE DEF V, turn, n, Keep
    <3> QED BY <1>1, <2>1, <2>2
  <2> QED BY <2>3
<1>6. Filter(iter)
  <2> HIDE DEF Filter
  <2> QED BY <1>5
<1>7. Filtered(seq, good) = iter[DOMAIN seq]
  BY DEF Filtered, FoldLeft, MapThenFoldSet
<1> DEFINE r == [i \in 0..n |-> iter[1..i]]
<1> HIDE DEF iter
<1>8. r[0] = <<>>
  BY <1>1, <1>6, FirstPositions
<1>9. ASSUME NEW i \in 1..n PROVE r[i] = Keep(r[i - 1], seq[i])
  <2>1. 1..i \in SUBSET (1..n) /\ 1..i # {} /\ Max(1..i) = i /\ (1..i) \ {i} = 1..(i - 1)
    BY <1>1, FirstPositions
  <2>2. iter[1..i] = Keep(iter[(1..i) \ {Max(1..i)}], seq[Max(1..i)])
    <3> HIDE DEF Keep
    <3> QED BY <1>1, <1>6, <2>1
  <2>3. i \in 0..n /\ i - 1 \in 0..n
    BY <1>1
  <2> HIDE DEF n, Keep
  <2> QED BY <2>1, <2>2, <2>3
<1>10. Filtered(seq, good) = r[n]
  BY <1>1, <1>7
<1> HIDE DEF r
<1> QED BY <1>8, <1>9, <1>10

\* A sequence holds what is good of another one, in its order.
KeptInOrder(kept, seq, good) ==
  /\ Len(kept) <= Len(seq)
  /\ \A k \in 1..Len(kept) : kept[k] \in good /\ \E j \in 1..Len(seq) : kept[k] = seq[j]
  /\ \A j \in 1..Len(seq) : seq[j] \in good => \E k \in 1..Len(kept) : kept[k] = seq[j]
  /\ Len(kept) = Len(seq) => kept = seq
  /\ (\A j \in 1..Len(seq) : seq[j] \in good) => kept = seq
  /\ (\A i, j \in 1..Len(seq) : seq[i] = seq[j] => i = j) =>
       \A a, b \in 1..Len(kept) : a < b =>
         \A i, j \in 1..Len(seq) : seq[i] = kept[a] /\ seq[j] = kept[b] => i < j

\* What is kept is what is good; nothing is lost if nothing is bad.
LEMMA FilteredKeepsTheGood ==
  ASSUME NEW T, NEW seq \in Seq(T), NEW good, NEW kept, kept = Filtered(seq, good)
  PROVE  kept \in Seq(T) /\ KeptInOrder(kept, seq, good)
<1> DEFINE n == Len(seq)
<1>1. n \in Nat /\ DOMAIN seq = 1..n /\ \A i \in 1..n : seq[i] \in T
  OBVIOUS
<1>2. PICK r : /\ r[0] = <<>>
               /\ \A i \in 1..n : r[i] = IF seq[i] \in good THEN Append(r[i - 1], seq[i]) ELSE r[i - 1]
               /\ kept = r[n]
  BY FilteredInTurn
<1> DEFINE Right(i) ==
             /\ r[i] \in Seq(T) /\ Len(r[i]) <= i
             /\ \A k \in 1..Len(r[i]) : r[i][k] \in good /\ \E j \in 1..i : r[i][k] = seq[j]
             /\ \A j \in 1..i : seq[j] \in good => \E k \in 1..Len(r[i]) : r[i][k] = seq[j]
             /\ Len(r[i]) = i => \A k \in 1..i : r[i][k] = seq[k]
             /\ (\A j \in 1..i : seq[j] \in good) => Len(r[i]) = i
             /\ (\A x, y \in 1..n : seq[x] = seq[y] => x = y) =>
                  \A a, b \in 1..Len(r[i]) : a < b =>
                    \A x, y \in 1..n : seq[x] = r[i][a] /\ seq[y] = r[i][b] => x < y
           P == {i \in 0..n : Right(i)}
<1> HIDE DEF n
<1>3. 0 \in P
  <2>1. r[0] \in Seq(T) /\ Len(r[0]) = 0 /\ 1..0 = {} /\ 0 \in 0..n
    BY <1>1, <1>2
  <2>2. Right(0)
    BY <2>1
  <2> HIDE DEF Right
  <2> QED BY <2>1, <2>2
<1>4. ASSUME NEW i \in 1..n, i - 1 \in P PROVE i \in P
  <2> DEFINE q == r[i - 1]
             m == Len(q)
             x == seq[i]
  <2>1. Right(i - 1) /\ i \in 0..n /\ i - 1 \in 0..n
    <3> HIDE DEF Right
    <3> QED BY <1>1, <1>4
  <2>2. q \in Seq(T) /\ m \in Nat /\ m <= i - 1 /\ x \in T
    BY <1>1, <2>1
  <2>3. CASE x \notin good
    <3>1. r[i] = q
      BY <1>2, <2>3
    <3>2. \A j \in 1..i : j = i \/ j \in 1..(i - 1)
      BY <1>1
    <3>3. \A j \in 1..(i - 1) : j \in 1..i
      BY <1>1
    <3>4. m # i /\ i \in 1..i /\ m <= i
      BY <1>1, <2>2
    <3> HIDE DEF q
    <3>5. \A k \in 1..m : q[k] \in good /\ \E j \in 1..i : q[k] = seq[j]
      BY <2>1, <3>3 DEF q
    <3>6. \A j \in 1..i : seq[j] \in good => \E k \in 1..m : q[k] = seq[j]
      BY <2>1, <2>3, <3>2 DEF q
    <3>7. /\ m = i => \A k \in 1..i : q[k] = seq[k]
          /\ (\A j \in 1..i : seq[j] \in good) => m = i
      BY <2>3, <3>4
    <3>8. (\A u, v \in 1..n : seq[u] = seq[v] => u = v) =>
               \A a, b \in 1..m : a < b =>
                 \A u, v \in 1..n : seq[u] = q[a] /\ seq[v] = q[b] => u < v
      BY <2>1 DEF q
    <3>9. Right(i)
      BY <2>2, <3>1, <3>4, <3>5, <3>6, <3>7, <3>8
    <3> HIDE DEF Right
    <3> QED BY <2>1, <3>9
  <2>4. CASE x \in good
    <3> DEFINE t == Append(q, x)
    <3>1. r[i] = t
      BY <1>2, <2>4
    <3>2. t \in Seq(T) /\ Len(t) = m + 1 /\ t[m + 1] = x /\ \A k \in 1..m : t[k] = q[k]
      BY <2>2
    <3>3. \A k \in 1..(m + 1) : k = m + 1 \/ k \in 1..m
      BY <2>2
    <3>4. \A j \in 1..i : j = i \/ j \in 1..(i - 1)
      BY <1>1
    <3>5. \A j \in 1..(i - 1) : j \in 1..i /\ j \in 1..n
      BY <1>1
    <3>6. i \in 1..i /\ m + 1 \in 1..(m + 1) /\ m + 1 <= i /\ (m + 1 = i => m = i - 1)
          /\ \A k \in 1..m : k \in 1..(m + 1)
      BY <1>1, <2>2
    <3>7. /\ \A k \in 1..m : q[k] \in good /\ \E j \in 1..(i - 1) : q[k] = seq[j]
          /\ \A j \in 1..(i - 1) : seq[j] \in good => \E k \in 1..m : q[k] = seq[j]
          /\ m = i - 1 => \A k \in 1..(i - 1) : q[k] = seq[k]
          /\ (\A j \in 1..(i - 1) : seq[j] \in good) => m = i - 1
          /\ (\A u, v \in 1..n : seq[u] = seq[v] => u = v) =>
               \A a, b \in 1..m : a < b =>
                 \A u, v \in 1..n : seq[u] = q[a] /\ seq[v] = q[b] => u < v
      BY <2>1
    <3> HIDE DEF q, m, t
    <3>8. ASSUME NEW k \in 1..(m + 1) PROVE t[k] \in good /\ \E j \in 1..i : t[k] = seq[j]
      <4>1. CASE k = m + 1
        BY <2>4, <3>2, <3>6, <4>1
      <4>2. CASE k \in 1..m
        <5>1. t[k] = q[k] /\ q[k] \in good
          BY <3>2, <3>7, <4>2
        <5>2. PICK j \in 1..(i - 1) : q[k] = seq[j]
          BY <3>7, <4>2
        <5> QED BY <3>5, <5>1, <5>2
      <4> QED BY <3>3, <4>1, <4>2
    <3>9. \A j \in 1..i : seq[j] \in good => \E k \in 1..(m + 1) : t[k] = seq[j]
      <4>1. \A j \in 1..(i - 1) : seq[j] \in good => \E k \in 1..(m + 1) : t[k] = seq[j]
        BY <3>2, <3>6, <3>7
      <4>2. t[m + 1] = seq[i]
        BY <3>2
      <4> QED BY <3>4, <3>6, <4>1, <4>2
    <3>10. m + 1 = i => \A k \in 1..i : t[k] = seq[k]
      BY <3>2, <3>4, <3>6, <3>7
    <3>11. (\A j \in 1..i : seq[j] \in good) => m + 1 = i
      BY <1>1, <2>2, <3>5, <3>7
    <3>12. ASSUME \A u, v \in 1..n : seq[u] = seq[v] => u = v,
                  NEW a \in 1..(m + 1), NEW b \in 1..(m + 1), a < b,
                  NEW u \in 1..n, NEW v \in 1..n, seq[u] = t[a], seq[v] = t[b]
           PROVE  u < v
      <4>1. a \in 1..m /\ t[a] = q[a]
        BY <2>2, <3>2, <3>12
      <4>2. CASE b = m + 1
        <5>1. v = i
          BY <3>2, <3>12, <4>2
        <5>2. PICK j \in 1..(i - 1) : q[a] = seq[j]
          BY <3>7, <4>1
        <5>3. u = j
          BY <3>5, <3>12, <4>1, <5>2
        <5> QED BY <1>1, <5>1, <5>2, <5>3
      <4>3. CASE b \in 1..m
        BY <3>2, <3>7, <3>12, <4>1, <4>3
      <4> QED BY <3>3, <4>2, <4>3
    <3>13. Right(i)
      BY <3>1, <3>2, <3>6, <3>8, <3>9, <3>10, <3>11, <3>12
    <3> HIDE DEF Right
    <3> QED BY <2>1, <3>13
  <2> QED BY <2>3, <2>4
<1>5. Right(n)
  <2> HIDE DEF P
  <2>1. \A i \in 0..n : i \in P
    BY <1>1, <1>3, <1>4, UpTo
  <2>2. n \in P
    BY <1>1, <2>1
  <2> HIDE DEF Right
  <2> QED BY <2>2 DEF P
<1>6. Len(kept) = n => kept = seq
  BY <1>1, <1>2, <1>5 DEF n
<1>7. (\A j \in 1..n : seq[j] \in good) => kept = seq
  BY <1>2, <1>5, <1>6
<1> QED BY <1>2, <1>5, <1>6, <1>7 DEF n, KeptInOrder

\* A domain is evaluated item after item, from its end.
LEMMA EvaluatedInTurn ==
  ASSUME NEW D, Len(D) \in Nat, NEW holds
  PROVE  /\ Stacks(D, holds)[0] = <<>>
         /\ \A n \in 1..Len(D) :
              Stacks(D, holds)[n] = Apply(holds, D[Len(D) - n + 1], Stacks(D, holds)[n - 1])
<1> DEFINE N == Len(D)
           Item(n) == D[N - n + 1]
           Turns(f, k) == f[0] = <<>> /\ \A n \in 1..k : f[n] = Apply(holds, Item(n), f[n - 1])
           P == {k \in 0..N : \E f : Turns(f, k)}
           Whole(f) == f = [n \in 0..N |-> IF n = 0 THEN <<>> ELSE Apply(holds, Item(n), f[n - 1])]
<1> HIDE DEF N, Item
<1>1. N \in Nat
  BY DEF N
<1>2. 0 \in P
  <2>1. Turns([n \in {0} |-> <<>>], 0) /\ 0 \in 0..N
    BY <1>1
  <2> HIDE DEF Turns
  <2> QED BY <2>1
<1>3. ASSUME NEW k \in 1..N, k - 1 \in P PROVE k \in P
  <2>1. PICK f : Turns(f, k - 1)
    <3> HIDE DEF Turns
    <3> QED BY <1>3
  <2> DEFINE g == [n \in 0..N |-> IF n = k THEN Apply(holds, Item(k), f[k - 1]) ELSE f[n]]
  <2>2. g[0] = <<>>
    BY <1>1, <2>1
  <2>3. ASSUME NEW n \in 1..k PROVE g[n] = Apply(holds, Item(n), g[n - 1])
    <3>1. n \in 0..N /\ n - 1 \in 0..N /\ n - 1 # k /\ k \in 0..N
      BY <1>1
    <3>2. g[n - 1] = f[n - 1]
      BY <3>1
    <3>3. CASE n = k
      BY <3>1, <3>2, <3>3
    <3>4. CASE n # k
      <4>1. n \in 1..(k - 1)
        BY <1>1, <3>4
      <4> QED BY <2>1, <3>1, <3>2, <3>4, <4>1
    <3> QED BY <3>3, <3>4
  <2>4. Turns(g, k) /\ k \in 0..N
    <3> HIDE DEF g
    <3> QED BY <1>1, <2>2, <2>3
  <2> HIDE DEF Turns, g
  <2> QED BY <2>4
<1>4. \E f : Turns(f, N)
  <2>1. \A k \in 0..N : k \in P
    <3> HIDE DEF P
    <3> QED BY <1>1, <1>2, <1>3, UpTo
  <2>2. N \in P
    BY <1>1, <2>1
  <2> HIDE DEF Turns
  <2> QED BY <2>2
<1>5. \E f : Whole(f)
  <2>1. PICK f : Turns(f, N)
    BY <1>4
  <2> DEFINE g == [n \in 0..N |-> f[n]]
  <2>2. ASSUME NEW n \in 0..N PROVE g[n] = IF n = 0 THEN <<>> ELSE Apply(holds, Item(n), g[n - 1])
    <3>1. CASE n = 0
      BY <2>1, <3>1
    <3>2. CASE n # 0
      <4>1. n \in 1..N /\ n - 1 \in 0..N
        BY <1>1, <3>2
      <4> QED BY <2>1, <3>2, <4>1
    <3> QED BY <3>1, <3>2
  <2>3. Whole(g)
    BY <2>2
  <2> HIDE DEF Whole, g
  <2> QED BY <2>3
<1>6. Whole(CHOOSE f : Whole(f))
  <2> HIDE DEF Whole
  <2> QED BY <1>5
<1>7. Stacks(D, holds) = CHOOSE f : Whole(f)
  BY DEF Stacks, N, Item
<1> DEFINE s == Stacks(D, holds)
<1>8. Whole(s)
  <2> HIDE DEF Whole
  <2> QED BY <1>6, <1>7
<1> HIDE DEF s
<1>9. s[0] = <<>>
  BY <1>1, <1>8
<1>10. ASSUME NEW n \in 1..N PROVE s[n] = Apply(holds, Item(n), s[n - 1])
  <2>1. n \in 0..N /\ n # 0
    BY <1>1
  <2> QED BY <1>8, <2>1
<1> QED BY <1>9, <1>10 DEF s, N, Item

\* An item takes its operands from the stack and leaves a truth value.
LEMMA ItemsReplaceOperands ==
  ASSUME NEW holds, NEW item, NEW stack \in Seq(BOOLEAN), Len(stack) >= Needs(item),
         NEW next, next = Apply(holds, item, stack)
  PROVE  /\ next \in Seq(BOOLEAN) /\ Len(next) = Len(stack) + 1 - Needs(item)
         /\ item \notin Operators =>
              /\ next[1] = (item \in holds)
              /\ \A i \in 1..Len(stack) : next[i + 1] = stack[i]
         /\ item = "|" =>
              /\ next[1] = (stack[1] \/ stack[2])
              /\ \A i \in 2..(Len(stack) - 1) : next[i] = stack[i + 1]
<1> DEFINE n == Len(stack)
<1>1. n \in Nat /\ DOMAIN stack = 1..n
  OBVIOUS
<1>2. ASSUME NEW x \in BOOLEAN, NEW rest \in Seq(BOOLEAN), NEW t, t = <<x>> \o rest
      PROVE  /\ t \in Seq(BOOLEAN) /\ Len(t) = Len(rest) + 1 /\ t[1] = x
             /\ \A i \in 1..Len(rest) : t[i + 1] = rest[i]
  BY <1>2
<1>3. n >= 1 => /\ Tail(stack) \in Seq(BOOLEAN) /\ Len(Tail(stack)) = n - 1
                /\ \A i \in 1..(n - 1) : Tail(stack)[i] = stack[i + 1]
  BY <1>1
<1>4. n >= 2 => /\ Tail(Tail(stack)) \in Seq(BOOLEAN) /\ Len(Tail(Tail(stack))) = n - 2
                /\ \A i \in 1..(n - 2) : Tail(Tail(stack))[i] = stack[i + 2]
  <2> DEFINE t == Tail(stack)
  <2> SUFFICES ASSUME n >= 2 
               PROVE  /\ Tail(t) \in Seq(BOOLEAN) /\ Len(Tail(t)) = n - 2
                      /\ \A i \in 1..(n - 2) : Tail(t)[i] = stack[i + 2]
    OBVIOUS
  <2>1. t \in Seq(BOOLEAN) /\ Len(t) = n - 1 /\ \A i \in 1..(n - 1) : t[i] = stack[i + 1]
    BY <1>1, <1>3
  <2> HIDE DEF t, n
  <2>2. Tail(t) \in Seq(BOOLEAN) /\ Len(Tail(t)) = n - 2 /\ \A i \in 1..(n - 2) : Tail(t)[i] = t[i + 1]
    BY <1>1, <2>1
  <2>3. \A i \in 1..(n - 2) : i + 1 \in 1..(n - 1) /\ (i + 1) + 1 = i + 2
    BY <1>1
  <2> QED BY <2>1, <2>2, <2>3
<1>5. CASE item = "!"
  <2>1. n >= 1 /\ Needs(item) = 1 /\ item \in Operators /\ item # "|" /\ next = <<~stack[1]>> \o Tail(stack)
    BY <1>1, <1>5 DEF Needs, Apply, Operators
  <2>2. (~stack[1]) \in BOOLEAN
    OBVIOUS
  <2>3. next \in Seq(BOOLEAN) /\ Len(next) = Len(Tail(stack)) + 1
    BY <1>2, <1>3, <2>1, <2>2
  <2> QED BY <1>1, <1>3, <2>1, <2>3
<1>6. CASE item = "&"
  <2>1. n >= 2 /\ Needs(item) = 2 /\ item \in Operators /\ item # "|"
        /\ next = <<stack[1] /\ stack[2]>> \o Tail(Tail(stack))
    BY <1>1, <1>6 DEF Needs, Apply, Operators
  <2>2. (stack[1] /\ stack[2]) \in BOOLEAN
    BY <1>4, <2>1
  <2>3. next \in Seq(BOOLEAN) /\ Len(next) = Len(Tail(Tail(stack))) + 1
    BY <1>2, <1>4, <2>1, <2>2
  <2> QED BY <1>1, <1>4, <2>1, <2>3
<1>7. CASE item = "|"
  <2> DEFINE x == stack[1] \/ stack[2]
             rest == Tail(Tail(stack))
  <2>1. n >= 2 /\ Needs(item) = 2 /\ item \in Operators /\ next = <<x>> \o rest
    BY <1>1, <1>7 DEF Needs, Apply, Operators
  <2>2. x \in BOOLEAN /\ rest \in Seq(BOOLEAN) /\ Len(rest) = n - 2
        /\ \A i \in 1..(n - 2) : rest[i] = stack[i + 2]
    BY <1>4, <2>1
  <2> HIDE DEF x, rest
  <2>3. next \in Seq(BOOLEAN) /\ Len(next) = n - 2 + 1 /\ next[1] = x
        /\ \A i \in 1..(n - 2) : next[i + 1] = rest[i]
    BY <1>2, <2>1, <2>2
  <2>4. \A i \in 2..(n - 1) : next[i] = stack[i + 1]
    <3> SUFFICES ASSUME NEW i \in 2..(n - 1) PROVE next[i] = stack[i + 1]
      OBVIOUS
    <3> HIDE DEF n
    <3>1. i - 1 \in 1..(n - 2) /\ (i - 1) + 1 = i /\ (i - 1) + 2 = i + 1
      BY <1>1
    <3> QED BY <2>2, <2>3, <3>1
  <2>5. next[1] = (stack[1] \/ stack[2])
    BY <2>3 DEF x
  <2>6. Len(next) = n + 1 - 2
    BY <1>1, <2>3
  <2> QED BY <2>1, <2>3, <2>4, <2>5, <2>6
<1>8. CASE item \notin Operators
  <2> DEFINE x == item \in holds
  <2>1. Needs(item) = 0 /\ next = <<x>> \o stack /\ item # "|"
    BY <1>8 DEF Needs, Apply, Operators
  <2>2. x \in BOOLEAN
    OBVIOUS
  <2> HIDE DEF x
  <2>3. next \in Seq(BOOLEAN) /\ Len(next) = n + 1 /\ next[1] = x
        /\ \A i \in 1..n : next[i + 1] = stack[i]
    BY <1>2, <2>1, <2>2
  <2>4. next[1] = (item \in holds)
    BY <2>3 DEF x
  <2> QED BY <1>1, <2>1, <2>3, <2>4
<1> QED BY <1>5, <1>6, <1>7, <1>8 DEF Operators

\* The stacks of a domain that can be read are stacks of truth values, and how
\* high they are does not depend on what holds.
LEMMA ReadableDomainsAreEvaluated ==
  ASSUME NEW D, Len(D) \in Nat, Readable(D), NEW holds
  PROVE  \A n \in 0..Len(D) : /\ Stacks(D, holds)[n] \in Seq(BOOLEAN)
                              /\ Len(Stacks(D, holds)[n]) = Len(Stacks(D, {})[n])
<1> DEFINE N == Len(D)
           s == Stacks(D, holds)
           z == Stacks(D, {})
           Item(n) == D[N - n + 1]
           P == {n \in 0..N : s[n] \in Seq(BOOLEAN) /\ z[n] \in Seq(BOOLEAN) /\ Len(s[n]) = Len(z[n])}
<1>1. /\ s[0] = <<>> /\ z[0] = <<>>
      /\ \A n \in 1..N : s[n] = Apply(holds, Item(n), s[n - 1]) /\ z[n] = Apply({}, Item(n), z[n - 1])
  BY EvaluatedInTurn
<1>2. \A n \in 1..N : Len(z[n - 1]) >= Needs(Item(n))
  BY DEF Readable
<1> HIDE DEF N, s, z, Item
<1>3. N \in Nat
  BY DEF N
<1>4. 0 \in P
  <2>1. <<>> \in Seq(BOOLEAN) /\ 0 \in 0..N
    BY <1>3
  <2> QED BY <1>1, <2>1
<1>5. ASSUME NEW n \in 1..N, n - 1 \in P PROVE n \in P
  <2>1. /\ s[n - 1] \in Seq(BOOLEAN) /\ z[n - 1] \in Seq(BOOLEAN) /\ n \in 0..N
        /\ Len(s[n - 1]) = Len(z[n - 1]) /\ Len(z[n - 1]) >= Needs(Item(n))
    BY <1>2, <1>3, <1>5
  <2>2. s[n] \in Seq(BOOLEAN) /\ Len(s[n]) = Len(s[n - 1]) + 1 - Needs(Item(n))
    BY <1>1, <2>1, ItemsReplaceOperands
  <2>3. z[n] \in Seq(BOOLEAN) /\ Len(z[n]) = Len(z[n - 1]) + 1 - Needs(Item(n))
    BY <1>1, <2>1, ItemsReplaceOperands
  <2> QED BY <2>1, <2>2, <2>3
<1>6. \A n \in 0..N : n \in P
  <2> HIDE DEF P
  <2> QED BY <1>3, <1>4, <1>5, UpTo
<1> QED BY <1>6 DEF N, s, z

\* A domain that ends with a domain E is evaluated as E is, as far as that goes.
EvaluatedFirst(D, E, holds) == \A n \in 0..Len(E) : Stacks(D, holds)[n] = Stacks(E, holds)[n]

\* Domains that end alike are evaluated alike up to there.
LEMMA TheEndIsEvaluatedFirst ==
  ASSUME NEW D, Len(D) \in Nat, NEW E, Len(E) \in Nat, Len(E) <= Len(D), NEW holds,
         \A n \in 1..Len(E) : D[Len(D) - n + 1] = E[Len(E) - n + 1]
  PROVE  EvaluatedFirst(D, E, holds)
<1> DEFINE s == Stacks(D, holds)
           z == Stacks(E, holds)
           P == {n \in 0..Len(E) : s[n] = z[n]}
<1>1. /\ s[0] = <<>> /\ z[0] = <<>>
      /\ \A n \in 1..Len(D) : s[n] = Apply(holds, D[Len(D) - n + 1], s[n - 1])
      /\ \A n \in 1..Len(E) : z[n] = Apply(holds, E[Len(E) - n + 1], z[n - 1])
  BY EvaluatedInTurn
<1> HIDE DEF s, z
<1>2. 0 \in P
  BY <1>1
<1>3. ASSUME NEW n \in 1..Len(E), n - 1 \in P PROVE n \in P
  <2>1. n \in 1..Len(D) /\ n \in 0..Len(E) /\ s[n - 1] = z[n - 1]
    BY <1>3
  <2> QED BY <1>1, <2>1
<1>4. \A n \in 0..Len(E) : n \in P
  <2> HIDE DEF P
  <2> QED BY <1>2, <1>3, UpTo
<1> QED BY <1>4 DEF s, z, EvaluatedFirst

\* From its e-th item on, a domain puts q conditions on the stack that is the base.
ConditionsStacked(D, holds, e, q, base) ==
  \A k \in 0..q :
    /\ Stacks(D, holds)[e + k] \in Seq(BOOLEAN)
    /\ Len(Stacks(D, holds)[e + k]) = Len(base) + k
    /\ \A i \in 1..k : Stacks(D, holds)[e + k][i] <=> D[Len(D) - (e + k) + i] \in holds
    /\ \A i \in 1..Len(base) : Stacks(D, holds)[e + k][k + i] = base[i]

\* A row of conditions puts what holds of them on the stack.
LEMMA ConditionsAreStacked ==
  ASSUME NEW D, Len(D) \in Nat, NEW holds, NEW e \in Nat, NEW q \in Nat, e + q <= Len(D),
         \A k \in 1..q : D[Len(D) - (e + k) + 1] \notin Operators,
         NEW base, base = Stacks(D, holds)[e], base \in Seq(BOOLEAN)
  PROVE  ConditionsStacked(D, holds, e, q, base)
<1> DEFINE N == Len(D)
           s == Stacks(D, holds)
           Item(n) == D[N - n + 1]
           Row(k) == /\ s[e + k] \in Seq(BOOLEAN) /\ Len(s[e + k]) = Len(base) + k
                     /\ \A i \in 1..k : s[e + k][i] <=> D[N - (e + k) + i] \in holds
                     /\ \A i \in 1..Len(base) : s[e + k][k + i] = base[i]
           P == {k \in 0..q : Row(k)}
<1>1. \A n \in 1..N : s[n] = Apply(holds, Item(n), s[n - 1])
  BY EvaluatedInTurn
<1>2. N \in Nat /\ Len(base) \in Nat /\ base = s[e] /\ \A k \in 1..q : Item(e + k) \notin Operators
  OBVIOUS
<1> HIDE DEF N, s
<1>3. 0 \in P
  <2>1. e + 0 = e /\ 1..0 = {} /\ 0 \in 0..q /\ \A i \in 1..Len(base) : 0 + i = i
    OBVIOUS
  <2>2. Row(0)
    BY <1>2, <2>1
  <2> HIDE DEF Row
  <2> QED BY <2>1, <2>2
<1>4. ASSUME NEW k \in 1..q, k - 1 \in P PROVE k \in P
  <2> DEFINE t == s[e + (k - 1)]
             u == s[e + k]
             x == Item(e + k)
  <2>1. Row(k - 1) /\ k \in 0..q
    <3> HIDE DEF Row
    <3> QED BY <1>4
  <2>2. Len(t) = Len(base) + (k - 1)
    BY <2>1
  <2>3. e + k \in 1..N /\ (e + k) - 1 = e + (k - 1) /\ e + k \in Nat
    BY <1>2 DEF N
  <2>4. u = Apply(holds, x, t) /\ x \notin Operators
    <3> HIDE DEF Item
    <3> QED BY <1>1, <1>2, <2>3
  <2>5. Needs(x) = 0 /\ Len(t) \in Nat /\ Len(t) >= 0
    BY <2>2, <2>4 DEF Needs, Operators
  <2>6. /\ u \in Seq(BOOLEAN) /\ Len(u) = Len(t) + 1 - 0
        /\ u[1] = (x \in holds)
        /\ \A i \in 1..Len(t) : u[i + 1] = t[i]
    <3> HIDE DEF t, u, x
    <3>1. t \in Seq(BOOLEAN) /\ Len(t) >= Needs(x)
      BY <2>1, <2>5 DEF t
    <3>2. u \in Seq(BOOLEAN) /\ Len(u) = Len(t) + 1 - Needs(x)
      BY <2>4, <3>1, ItemsReplaceOperands
    <3>3. u[1] = (x \in holds)
      BY <2>4, <3>1, ItemsReplaceOperands
    <3>4. \A i \in 1..Len(t) : u[i + 1] = t[i]
      BY <2>4, <3>1, ItemsReplaceOperands
    <3> QED BY <2>5, <3>2, <3>3, <3>4
  <2>7. Len(u) = Len(base) + k
    <3> HIDE DEF t, u
    <3> QED BY <1>2, <2>2, <2>6
  <2>8. ASSUME NEW i \in 1..k PROVE u[i] <=> D[N - (e + k) + i] \in holds
    <3>1. CASE i = 1
      BY <2>6, <3>1
    <3>2. CASE i # 1
      <4>1. /\ i - 1 \in 1..(k - 1) /\ i - 1 \in 1..Len(t) /\ (i - 1) + 1 = i
            /\ N - (e + (k - 1)) + (i - 1) = N - (e + k) + i
        <5> HIDE DEF t
        <5> QED BY <1>2, <2>2, <3>2
      <4>2. t[i - 1] <=> D[N - (e + (k - 1)) + (i - 1)] \in holds
        BY <2>1, <4>1
      <4> HIDE DEF t, u
      <4> QED BY <2>6, <4>1, <4>2
    <3> QED BY <3>1, <3>2
  <2>9. ASSUME NEW i \in 1..Len(base) PROVE u[k + i] = base[i]
    <3>1. (k - 1) + i \in 1..Len(t) /\ ((k - 1) + i) + 1 = k + i
      <4> DEFINE a == Len(base)
                 z == Len(t)
      <4>1. a \in Nat /\ i \in 1..a /\ z = a + (k - 1)
        BY <1>2, <2>2
      <4> HIDE DEF a, z
      <4>2. (k - 1) + i \in 1..z
        BY <4>1
      <4> QED BY <4>1, <4>2 DEF z
    <3>2. t[(k - 1) + i] = base[i]
      BY <2>1
    <3> HIDE DEF t, u
    <3> QED BY <2>6, <3>1, <3>2
  <2>10. Row(k)
    BY <2>6, <2>7, <2>8, <2>9
  <2> HIDE DEF Row
  <2> QED BY <2>1, <2>10
<1>5. \A k \in 0..q : k \in P
  <2> HIDE DEF P
  <2> QED BY <1>3, <1>4, UpTo
<1> QED BY <1>5 DEF N, s, ConditionsStacked

\* From its b-th item on, a domain joins m + 1 truth values of the base to one.
AlternativesJoined(D, holds, b, m, base) ==
  \A k \in 0..m :
    /\ Stacks(D, holds)[b + k] \in Seq(BOOLEAN)
    /\ Len(Stacks(D, holds)[b + k]) = Len(base) - k
    /\ Stacks(D, holds)[b + k][1] <=> \E i \in 1..(k + 1) : base[i]
    /\ \A i \in 2..(Len(base) - k) : Stacks(D, holds)[b + k][i] = base[k + i]

\* Alternatives leave on the stack whether one of their operands holds.
LEMMA AlternativesAreJoined ==
  ASSUME NEW D, Len(D) \in Nat, NEW holds, NEW b \in Nat, NEW m \in Nat, b + m <= Len(D),
         \A k \in 1..m : D[Len(D) - (b + k) + 1] = "|",
         NEW base, base = Stacks(D, holds)[b], base \in Seq(BOOLEAN), Len(base) >= m + 1
  PROVE  AlternativesJoined(D, holds, b, m, base)
<1> DEFINE N == Len(D)
           s == Stacks(D, holds)
           Item(n) == D[N - n + 1]
           Joined(k) == /\ s[b + k] \in Seq(BOOLEAN) /\ Len(s[b + k]) = Len(base) - k
                        /\ s[b + k][1] <=> \E i \in 1..(k + 1) : base[i]
                        /\ \A i \in 2..(Len(base) - k) : s[b + k][i] = base[k + i]
           P == {k \in 0..m : Joined(k)}
<1>1. \A n \in 1..N : s[n] = Apply(holds, Item(n), s[n - 1])
  BY EvaluatedInTurn
<1>2. N \in Nat /\ Len(base) \in Nat /\ base = s[b] /\ \A k \in 1..m : Item(b + k) = "|"
  OBVIOUS
<1> HIDE DEF N, s
<1>3. 0 \in P
  <2>1. b + 0 = b /\ 1..(0 + 1) = {1} /\ 0 \in 0..m /\ \A i \in 2..(Len(base) - 0) : 0 + i = i
    OBVIOUS
  <2>2. Joined(0)
    BY <1>2, <2>1
  <2> HIDE DEF Joined
  <2> QED BY <2>1, <2>2
<1>4. ASSUME NEW k \in 1..m, k - 1 \in P PROVE k \in P
  <2> DEFINE t == s[b + (k - 1)]
             u == s[b + k]
  <2>1. Joined(k - 1) /\ k \in 0..m
    <3> HIDE DEF Joined
    <3> QED BY <1>4
  <2>2. Len(t) = Len(base) - (k - 1)
    BY <2>1
  <2>3. b + k \in 1..N /\ (b + k) - 1 = b + (k - 1) /\ b + k \in Nat
    BY <1>2 DEF N
  <2>4. u = Apply(holds, "|", t)
    <3>1. Item(b + k) = "|"
      BY <1>2
    <3> HIDE DEF Item
    <3> QED BY <1>1, <2>3, <3>1
  <2>5. Needs("|") = 2 /\ Len(t) \in Nat /\ Len(t) >= 2 /\ "|" \in Operators
    BY <1>2, <2>2 DEF Needs, Operators
  <2>6. /\ u \in Seq(BOOLEAN) /\ Len(u) = Len(t) + 1 - 2
        /\ u[1] = (t[1] \/ t[2])
        /\ \A i \in 2..(Len(t) - 1) : u[i] = t[i + 1]
    <3> HIDE DEF t, u
    <3>1. t \in Seq(BOOLEAN) /\ Len(t) >= Needs("|")
      BY <2>1, <2>5 DEF t
    <3>2. u \in Seq(BOOLEAN) /\ Len(u) = Len(t) + 1 - Needs("|")
      BY <2>4, <3>1, ItemsReplaceOperands
    <3>3. u[1] = (t[1] \/ t[2])
      BY <2>4, <3>1, ItemsReplaceOperands
    <3>4. \A i \in 2..(Len(t) - 1) : u[i] = t[i + 1]
      BY <2>4, <3>1, ItemsReplaceOperands
    <3> QED BY <2>5, <3>2, <3>3, <3>4
  <2>7. Len(u) = Len(base) - k
    <3> HIDE DEF t, u
    <3> QED BY <1>2, <2>2, <2>6
  <2>8. u[1] <=> \E i \in 1..(k + 1) : base[i]
    <3>1. t[1] <=> \E i \in 1..k : base[i]
      <4>1. (k - 1) + 1 = k
        OBVIOUS
      <4> QED BY <2>1, <4>1
    <3>2. t[2] = base[k + 1]
      <4>1. 2 \in 2..(Len(base) - (k - 1)) /\ (k - 1) + 2 = k + 1
        BY <1>2
      <4> QED BY <2>1, <4>1
    <3>3. \A i \in 1..(k + 1) : i = k + 1 \/ i \in 1..k
      OBVIOUS
    <3>4. k + 1 \in 1..(k + 1) /\ \A i \in 1..k : i \in 1..(k + 1)
      OBVIOUS
    <3> HIDE DEF t, u
    <3> QED BY <2>6, <3>1, <3>2, <3>3, <3>4
  <2>9. ASSUME NEW i \in 2..(Len(base) - k) PROVE u[i] = base[k + i]
    <3>1. i \in 2..(Len(t) - 1) /\ i + 1 \in 2..(Len(base) - (k - 1)) /\ (k - 1) + (i + 1) = k + i
      BY <1>2, <2>2
    <3>2. t[i + 1] = base[(k - 1) + (i + 1)]
      BY <2>1, <3>1
    <3> HIDE DEF t, u
    <3> QED BY <2>6, <3>1, <3>2
  <2>10. Joined(k)
    BY <2>6, <2>7, <2>8, <2>9
  <2> HIDE DEF Joined
  <2> QED BY <2>1, <2>10
<1>5. \A k \in 0..m : k \in P
  <2> HIDE DEF P
  <2> QED BY <1>3, <1>4, UpTo
<1> QED BY <1>5 DEF N, s, AlternativesJoined

\* A domain D that has a query in front of a domain E, read from its end.
InFront(asked, E, D) ==
  /\ Len(D) \in Nat /\ Len(E) \in Nat /\ Len(asked) \in Nat \ {0}
  /\ Len(D) = Len(E) + Len(asked) + (Len(asked) - 1)
  /\ \A n \in 1..Len(E) : D[Len(D) - n + 1] = E[Len(E) - n + 1]
  /\ \A k \in 1..Len(asked) : D[Len(D) - (Len(E) + k) + 1] = asked[Len(asked) - k + 1]
  /\ \A k \in 1..(Len(asked) - 1) : D[Len(D) - (Len(E) + Len(asked) + k) + 1] = "|"

\* Where the items of a domain with a query in front of it are.
LEMMA QueryComesFirst ==
  ASSUME NEW A, NEW asked \in Seq(A), asked # <<>>, NEW B, NEW E \in Seq(B),
         NEW D, D = AnyOf(asked) \o E
  PROVE  InFront(asked, E, D)
<1> DEFINE q == Len(asked)
           e == Len(E)
           ors == [i \in 1..(q - 1) |-> "|"]
           front == AnyOf(asked)
<1>1. q \in Nat \ {0} /\ e \in Nat /\ \A i \in 1..q : asked[i] \in A
  OBVIOUS
<1>2. front = ors \o asked
  BY DEF AnyOf
<1> HIDE DEF q, e
<1>3. ors \in Seq({"|"}) /\ Len(ors) = q - 1 /\ \A i \in 1..(q - 1) : ors[i] = "|"
  BY <1>1
<1> HIDE DEF ors, front
<1>4. /\ front \in Seq({"|"} \cup A) /\ Len(front) = q - 1 + q
      /\ \A i \in 1..(q - 1) : front[i] = "|"
      /\ \A i \in 1..q : front[q - 1 + i] = asked[i]
  <2>1. ors \in Seq({"|"} \cup A) /\ asked \in Seq({"|"} \cup A)
    BY <1>1, <1>3 DEF q
  <2>2. /\ front \in Seq({"|"} \cup A) /\ Len(front) = Len(ors) + Len(asked)
        /\ \A i \in 1..Len(front) : front[i] = IF i <= Len(ors) THEN ors[i] ELSE asked[i - Len(ors)]
    BY <1>2, <2>1, ConcatProperties
  <2>3. Len(front) = q - 1 + q
    BY <1>3, <2>2 DEF q
  <2>4. \A i \in 1..(q - 1) : front[i] = "|"
    <3>1. \A i \in 1..(q - 1) : i \in 1..(q - 1 + q) /\ i <= q - 1
      BY <1>1
    <3> QED BY <1>3, <2>2, <2>3, <3>1
  <2>5. \A i \in 1..q : front[q - 1 + i] = asked[i]
    <3>1. \A i \in 1..q : q - 1 + i \in 1..(q - 1 + q) /\ ~(q - 1 + i <= q - 1) /\ q - 1 + i - (q - 1) = i
      BY <1>1
    <3> QED BY <1>3, <2>2, <2>3, <3>1
  <2> QED BY <2>2, <2>3, <2>4, <2>5
<1>5. /\ Len(D) = q - 1 + q + e
      /\ \A i \in 1..(q - 1 + q) : D[i] = front[i]
      /\ \A i \in 1..e : D[q - 1 + q + i] = E[i]
  <2>1. front \in Seq({"|"} \cup A \cup B) /\ E \in Seq({"|"} \cup A \cup B)
    BY <1>1, <1>4 DEF e
  <2>2. /\ Len(D) = Len(front) + Len(E)
        /\ \A i \in 1..Len(D) : D[i] = IF i <= Len(front) THEN front[i] ELSE E[i - Len(front)]
    BY <2>1, ConcatProperties DEF front
  <2> DEFINE p == q - 1 + q
  <2>3. p \in Nat /\ Len(front) = p /\ Len(D) = p + e
    BY <1>1, <1>4, <2>2 DEF e
  <2> HIDE DEF p
  <2>4. \A i \in 1..p : D[i] = front[i]
    <3>1. \A i \in 1..p : i \in 1..(p + e) /\ i <= p
      BY <1>1, <2>3
    <3> QED BY <2>2, <2>3, <3>1
  <2>5. \A i \in 1..e : D[p + i] = E[i]
    <3> SUFFICES ASSUME NEW i \in 1..e PROVE D[p + i] = E[i]
      OBVIOUS
    <3>1. p + i \in 1..Len(D) /\ ~(p + i <= Len(front)) /\ p + i - Len(front) = i
      BY <1>1, <2>3
    <3> DEFINE j == p + i
    <3> HIDE DEF j, e
    <3>2. D[j] = E[j - Len(front)]
      BY <2>2, <3>1 DEF j
    <3>3. j - Len(front) = i
      BY <1>1, <2>3 DEF j, e
    <3> QED BY <3>2, <3>3, Zenon DEF j
  <2> QED BY <2>3, <2>4, <2>5 DEF p
<1>6. Len(D) \in Nat /\ Len(D) = e + q + (q - 1)
  BY <1>1, <1>5
<1>7. ASSUME NEW n \in 1..e PROVE D[Len(D) - n + 1] = E[e - n + 1]
  <2>1. e - n + 1 \in 1..e /\ Len(D) - n + 1 = q - 1 + q + (e - n + 1)
    BY <1>1, <1>6
  <2> QED BY <1>5, <2>1
<1>8. ASSUME NEW k \in 1..q PROVE D[Len(D) - (e + k) + 1] = asked[q - k + 1]
  <2>1. /\ q - k + 1 \in 1..q /\ q - 1 + (q - k + 1) \in 1..(q - 1 + q)
        /\ Len(D) - (e + k) + 1 = q - 1 + (q - k + 1)
    BY <1>1, <1>6
  <2> QED BY <1>4, <1>5, <2>1
<1>9. ASSUME NEW k \in 1..(q - 1) PROVE D[Len(D) - (e + q + k) + 1] = "|"
  <2>1. /\ q - k \in 1..(q - 1) /\ q - k \in 1..(q - 1 + q)
        /\ Len(D) - (e + q + k) + 1 = q - k
    BY <1>1, <1>6
  <2> QED BY <1>4, <1>5, <2>1
<1> QED BY <1>1, <1>6, <1>7, <1>8, <1>9 DEF q, e, InFront

\* It leaves, on what its domain leaves, whether a condition of the query holds.
QueryEvaluated(asked, E, D, holds) ==
  LET s == Stacks(D, holds)
      base == Stacks(E, holds)[Len(E)]
  IN /\ \A n \in 0..Len(E) : s[n] = Stacks(E, holds)[n]
     /\ \A k \in 0..Len(asked) : Len(s[Len(E) + k]) = Len(base) + k
     /\ \A k \in 0..(Len(asked) - 1) : Len(s[Len(E) + Len(asked) + k]) = Len(base) + Len(asked) - k
     /\ s[Len(D)] \in Seq(BOOLEAN) /\ Len(s[Len(D)]) = Len(base) + 1
     /\ s[Len(D)][1] <=> \E i \in 1..Len(asked) : asked[i] \in holds
     /\ \A i \in 1..Len(base) : s[Len(D)][i + 1] = base[i]

\* Evaluating a query in front of a domain: its conditions, then whether one holds.
LEMMA QueryIsEvaluated ==
  ASSUME NEW A, NEW asked \in Seq(A), asked # <<>>, \A i \in 1..Len(asked) : asked[i] \notin Operators,
         NEW B, NEW E \in Seq(B), NEW D, D = AnyOf(asked) \o E, NEW holds,
         NEW base, base = Stacks(E, holds)[Len(E)], base \in Seq(BOOLEAN)
  PROVE  QueryEvaluated(asked, E, D, holds)
<1> DEFINE q == Len(asked)
           e == Len(E)
           N == Len(D)
           b == Len(base)
           s == Stacks(D, holds)
           c == s[e + q]
<1>1. /\ N \in Nat /\ e \in Nat /\ q \in Nat \ {0} /\ N = e + q + (q - 1)
      /\ \A n \in 1..e : D[N - n + 1] = E[e - n + 1]
      /\ \A k \in 1..q : D[N - (e + k) + 1] = asked[q - k + 1]
      /\ \A k \in 1..(q - 1) : D[N - (e + q + k) + 1] = "|"
  <2>1. InFront(asked, E, D)
    BY QueryComesFirst, Zenon
  <2> QED BY <2>1, Zenon DEF InFront
<1>2. b \in Nat
  OBVIOUS
<1>3. \A n \in 0..e : s[n] = Stacks(E, holds)[n]
  <2>1. e <= N
    <3> HIDE DEF e, q, N
    <3> QED BY <1>1
  <2>2. N \in Nat /\ e \in Nat /\ \A n \in 1..e : D[N - n + 1] = E[e - n + 1]
    <3> HIDE DEF e, q, N
    <3> QED BY <1>1
  <2>3. EvaluatedFirst(D, E, holds)
    BY <2>1, <2>2, TheEndIsEvaluatedFirst, Zenon
  <2> QED BY <2>3, Zenon DEF EvaluatedFirst
<1>4. base = s[e]
  <2>1. e \in 0..e
    BY <1>1
  <2> HIDE DEF s, e
  <2> QED BY <1>3, <2>1 DEF e
<1>5. \A k \in 0..q :
        /\ s[e + k] \in Seq(BOOLEAN) /\ Len(s[e + k]) = b + k
        /\ \A i \in 1..k : s[e + k][i] <=> D[N - (e + k) + i] \in holds
        /\ \A i \in 1..b : s[e + k][k + i] = base[i]
  <2>1. e + q <= N
    <3> HIDE DEF e, q, N
    <3> QED BY <1>1
  <2>2. \A k \in 1..q : D[N - (e + k) + 1] \notin Operators
    <3>1. \A k \in 1..q : q - k + 1 \in 1..q
      <4> HIDE DEF q
      <4> QED BY <1>1
    <3> HIDE DEF e, N
    <3> QED BY <1>1, <3>1
  <2>3. ConditionsStacked(D, holds, e, q, base)
    <3>1. N \in Nat /\ e \in Nat /\ q \in Nat
      <4> HIDE DEF e, q, N
      <4> QED BY <1>1
    <3> QED BY <1>4, <2>1, <2>2, <3>1, ConditionsAreStacked, Zenon
  <2> QED BY <2>3, Zenon DEF ConditionsStacked
<1> HIDE DEF q, e, N, s, b
<1>6. c \in Seq(BOOLEAN) /\ Len(c) = b + q /\ \A i \in 1..b : c[q + i] = base[i]
  <2>1. q \in 0..q
    BY <1>1
  <2> QED BY <1>5, <2>1
<1>7. \A i \in 1..q : c[i] <=> asked[i] \in holds
  <2> SUFFICES ASSUME NEW i \in 1..q PROVE c[i] <=> asked[i] \in holds
    OBVIOUS
  <2>1. q \in 0..q /\ q - i + 1 \in 1..q
    BY <1>1
  <2>2. N - (e + q) + i = N - (e + (q - i + 1)) + 1 /\ q - (q - i + 1) + 1 = i
    BY <1>1
  <2>3. D[N - (e + q) + i] = asked[i]
    BY <1>1, <2>1, <2>2
  <2>4. c[i] <=> D[N - (e + q) + i] \in holds
    BY <1>5, <2>1
  <2> QED BY <2>3, <2>4
<1>8. \A k \in 0..(q - 1) :
        /\ s[e + q + k] \in Seq(BOOLEAN) /\ Len(s[e + q + k]) = Len(c) - k
        /\ s[e + q + k][1] <=> \E i \in 1..(k + 1) : c[i]
        /\ \A i \in 2..(Len(c) - k) : s[e + q + k][i] = c[k + i]
  <2>1. e + q \in Nat /\ q - 1 \in Nat /\ (e + q) + (q - 1) <= N /\ Len(c) >= (q - 1) + 1
    <3>1. Len(c) = b + q
      BY <1>6
    <3> HIDE DEF c
    <3> QED BY <1>1, <1>2, <3>1
  <2> HIDE DEF c
  <2>2. c = Stacks(D, holds)[e + q]
    BY DEF c, s
  <2>3. \A k \in 1..(q - 1) : D[Len(D) - (e + q + k) + 1] = "|"
    BY <1>1 DEF N
  <2>4. Len(D) \in Nat /\ (e + q) + (q - 1) <= Len(D)
    BY <1>1, <2>1 DEF N
  <2>5. AlternativesJoined(D, holds, e + q, q - 1, c)
    BY <1>6, <2>1, <2>2, <2>3, <2>4, AlternativesAreJoined, Zenon
  <2> QED BY <2>5, Zenon DEF AlternativesJoined, s
<1>9. \A k \in 0..(q - 1) : Len(s[e + q + k]) = b + q - k
  <2>1. \A k \in 0..(q - 1) : Len(s[e + q + k]) = Len(c) - k
    <3> HIDE DEF c
    <3> QED BY <1>8
  <2> DEFINE m == Len(c)
  <2>2. m = b + q
    BY <1>6
  <2> HIDE DEF c, m
  <2>3. \A k \in 0..(q - 1) : Len(s[e + q + k]) = m - k
    BY <2>1, Zenon DEF m
  <2>4. \A k \in 0..(q - 1) : m - k = b + q - k
    BY <1>1, <1>2, <2>2
  <2> QED BY <2>3, <2>4, Zenon
<1>10. q - 1 \in 0..(q - 1) /\ e + q + (q - 1) = N /\ (q - 1) + 1 = q
  BY <1>1
<1> DEFINE f == s[N]
<1>11. /\ f \in Seq(BOOLEAN) /\ Len(f) = Len(c) - (q - 1)
       /\ f[1] <=> \E i \in 1..q : c[i]
       /\ \A i \in 2..(Len(c) - (q - 1)) : f[i] = c[(q - 1) + i]
  <2> HIDE DEF c
  <2> QED BY <1>8, <1>10
<1> HIDE DEF f, c
<1>12. Len(f) = b + 1
  BY <1>1, <1>2, <1>6, <1>11
<1>13. f[1] <=> \E i \in 1..q : asked[i] \in holds
  BY <1>7, <1>11
<1>14. ASSUME NEW i \in 1..b PROVE f[i + 1] = base[i]
  <2>1. i + 1 \in 2..(Len(c) - (q - 1)) /\ (q - 1) + (i + 1) = q + i
    BY <1>1, <1>2, <1>6
  <2>2. f[i + 1] = c[(q - 1) + (i + 1)]
    BY <1>11, <2>1, Zenon
  <2>3. c[q + i] = base[i]
    BY <1>6
  <2> QED BY <2>1, <2>2, <2>3
<1>15. \A k \in 0..q : Len(s[e + k]) = b + k
  BY <1>5
<1> QED BY <1>3, <1>9, <1>11, <1>12, <1>13, <1>14, <1>15 DEF q, e, N, b, s, f, QueryEvaluated

\* A domain with a query in front of it matches what matches both.
LEMMA QueryNarrows ==
  ASSUME NEW A, NEW asked \in Seq(A), asked # <<>>, \A i \in 1..Len(asked) : asked[i] \notin Operators,
         NEW B, NEW E \in Seq(B), NEW D, D = AnyOf(asked) \o E, NEW holds,
         Stacks(E, holds)[Len(E)] \in Seq(BOOLEAN)
  PROVE  Matches(D, holds) <=> Matches(E, holds) /\ \E i \in 1..Len(asked) : asked[i] \in holds
<1> DEFINE base == Stacks(E, holds)[Len(E)]
           f == Stacks(D, holds)[Len(D)]
           b == Len(base)
           OneHolds == \E i \in 1..Len(asked) : asked[i] \in holds
<1>1. base \in Seq(BOOLEAN) /\ b \in Nat
  OBVIOUS
<1>2. /\ f \in Seq(BOOLEAN) /\ Len(f) = b + 1
      /\ f[1] <=> OneHolds
      /\ \A i \in 1..b : f[i + 1] = base[i]
  <2>1. QueryEvaluated(asked, E, D, holds)
    BY <1>1, QueryIsEvaluated, Zenon
  <2> QED BY <2>1, Zenon DEF QueryEvaluated
<1>3. Matches(D, holds) <=> \A i \in DOMAIN f : f[i]
  BY Zenon DEF Matches
<1>4. Matches(E, holds) <=> \A i \in DOMAIN base : base[i]
  BY Zenon DEF Matches
<1> HIDE DEF base, f, OneHolds
<1>5. DOMAIN f = 1..(b + 1) /\ DOMAIN base = 1..b
  BY <1>1, <1>2
<1> HIDE DEF b
<1>6. (\A i \in 1..(b + 1) : f[i]) <=> f[1] /\ \A i \in 1..b : f[i + 1]
  <2>1. \A i \in 1..(b + 1) : i = 1 \/ (i - 1 \in 1..b /\ (i - 1) + 1 = i)
    BY <1>1
  <2>2. 1 \in 1..(b + 1) /\ \A i \in 1..b : i + 1 \in 1..(b + 1)
    BY <1>1
  <2> QED BY <2>1, <2>2
<1>7. Matches(D, holds) <=> Matches(E, holds) /\ OneHolds
  BY <1>2, <1>3, <1>4, <1>5, <1>6
<1> QED BY <1>7 DEF OneHolds

\* It can be read if the domain can.
LEMMA QueryIsReadable ==
  ASSUME NEW A, NEW asked \in Seq(A), asked # <<>>, \A i \in 1..Len(asked) : asked[i] \notin Operators \cup {Junk},
         NEW B, NEW E \in Seq(B), NEW D, D = AnyOf(asked) \o E, Readable(E)
  PROVE  Readable(D)
<1> DEFINE q == Len(asked)
           e == Len(E)
           N == Len(D)
           s == Stacks(D, {})
           base == Stacks(E, {})[e]
           b == Len(base)
<1>1. /\ N \in Nat /\ e \in Nat /\ q \in Nat \ {0} /\ N = e + q + (q - 1)
      /\ \A n \in 1..e : D[N - n + 1] = E[e - n + 1]
      /\ \A k \in 1..q : D[N - (e + k) + 1] = asked[q - k + 1]
      /\ \A k \in 1..(q - 1) : D[N - (e + q + k) + 1] = "|"
  <2>1. InFront(asked, E, D)
    BY QueryComesFirst, Zenon
  <2> QED BY <2>1, Zenon DEF InFront
<1>2. base \in Seq(BOOLEAN)
  <2>1. e \in 0..e
    BY <1>1
  <2> QED BY <1>1, <2>1, ReadableDomainsAreEvaluated
<1>3. b \in Nat
  BY <1>2
<1>4. /\ \A n \in 0..e : s[n] = Stacks(E, {})[n]
      /\ \A k \in 0..q : Len(s[e + k]) = b + k
      /\ \A k \in 0..(q - 1) : Len(s[e + q + k]) = b + q - k
  <2>1. QueryEvaluated(asked, E, D, {})
    <3>1. \A i \in 1..Len(asked) : asked[i] \notin Operators
      BY Zenon
    <3> QED BY <1>2, <3>1, QueryIsEvaluated, Zenon
  <2> QED BY <2>1, Zenon DEF QueryEvaluated
<1>5. \A n \in 1..e : E[e - n + 1] # Junk /\ Len(Stacks(E, {})[n - 1]) >= Needs(E[e - n + 1])
  BY DEF Readable
<1> HIDE DEF q, e, N, s, base, b
<1>6. ASSUME NEW n \in 1..N PROVE D[N - n + 1] # Junk /\ Len(s[n - 1]) >= Needs(D[N - n + 1])
  <2>1. CASE n \in 1..e
    <3>1. n - 1 \in 0..e
      BY <1>1, <2>1
    <3> QED BY <1>1, <1>4, <1>5, <2>1, <3>1
  <2>2. CASE n \in (e + 1)..(e + q)
    <3> DEFINE k == n - e
    <3>1. k \in 1..q /\ k - 1 \in 0..q /\ n = e + k /\ n - 1 = e + (k - 1) /\ q - k + 1 \in 1..q
      BY <1>1, <2>2
    <3> HIDE DEF k
    <3>2. D[N - n + 1] = asked[q - k + 1] /\ asked[q - k + 1] \notin Operators \cup {Junk}
      BY <1>1, <3>1 DEF q
    <3>3. Needs(D[N - n + 1]) = 0
      BY <3>2 DEF Needs, Operators
    <3>4. Len(s[n - 1]) = b + (k - 1)
      BY <1>4, <3>1
    <3>5. b + (k - 1) >= 0
      BY <1>1, <1>3, <3>1
    <3> QED BY <3>2, <3>3, <3>4, <3>5
  <2>3. CASE n \in (e + q + 1)..N
    <3> DEFINE k == n - (e + q)
    <3>1. /\ k \in 1..(q - 1) /\ k - 1 \in 0..(q - 1) /\ n = e + q + k /\ n - 1 = e + q + (k - 1)
          /\ b + q - (k - 1) >= 2
      BY <1>1, <1>3, <2>3
    <3> HIDE DEF k
    <3>2. D[N - n + 1] = "|"
      BY <1>1, <3>1
    <3>3. Len(s[n - 1]) = b + q - (k - 1)
      BY <1>4, <3>1
    <3>4. Needs("|") = 2 /\ "|" # Junk
      BY DEF Needs, Operators, Junk
    <3> QED BY <3>1, <3>2, <3>3, <3>4
  <2>4. n \in 1..e \/ n \in (e + 1)..(e + q) \/ n \in (e + q + 1)..N
    BY <1>1
  <2> QED BY <2>1, <2>2, <2>3, <2>4
<1> QED BY <1>6 DEF Readable, N, s

\* Conditions alone hold together.
LEMMA ConditionsHoldTogether ==
  ASSUME NEW A, NEW D \in Seq(A), \A i \in 1..Len(D) : D[i] \notin Operators, NEW holds
  PROVE  Matches(D, holds) <=> \A i \in 1..Len(D) : D[i] \in holds
<1> DEFINE N == Len(D)
           s == Stacks(D, holds)
           f == s[N]
<1>1. N \in Nat
  OBVIOUS
<1>2. s[0] = <<>>
  BY <1>1, EvaluatedInTurn
<1>3. /\ s[0 + N] \in Seq(BOOLEAN) /\ Len(s[0 + N]) = 0 + N
      /\ \A i \in 1..N : s[0 + N][i] <=> D[N - (0 + N) + i] \in holds
  <2>1. s[0] \in Seq(BOOLEAN) /\ Len(s[0]) = 0
    BY <1>2
  <2>2. \A k \in 1..N : D[N - (0 + k) + 1] \notin Operators
    <3>1. \A k \in 1..N : N - (0 + k) + 1 \in 1..N
      <4> HIDE DEF N
      <4> QED BY <1>1
    <3> QED BY <3>1
  <2>3. 0 + N <= N /\ 0 \in Nat /\ N \in 0..N
    <3> HIDE DEF N
    <3> QED BY <1>1
  <2>4. \A k \in 0..N :
           /\ s[0 + k] \in Seq(BOOLEAN)
           /\ Len(s[0 + k]) = Len(s[0]) + k
           /\ \A i \in 1..k : s[0 + k][i] <=> D[N - (0 + k) + i] \in holds
    <3>1. ConditionsStacked(D, holds, 0, N, s[0])
      BY <1>1, <2>1, <2>2, <2>3, ConditionsAreStacked, Zenon
    <3> QED BY <3>1, Zenon DEF ConditionsStacked
  <2> HIDE DEF N, s
  <2> QED BY <2>1, <2>3, <2>4
<1>4. Matches(D, holds) <=> \A i \in DOMAIN f : f[i]
  BY Zenon DEF Matches
<1> HIDE DEF N, s
<1>5. 0 + N = N /\ \A i \in 1..N : N - (0 + N) + i = i
  BY <1>1
<1>6. DOMAIN f = 1..N /\ \A i \in 1..N : f[i] <=> D[i] \in holds
  <2>1. f \in Seq(BOOLEAN) /\ Len(f) = N
    BY <1>1, <1>3, <1>5
  <2>2. DOMAIN f = 1..Len(f)
    BY <2>1
  <2>3. \A i \in 1..N : f[i] <=> D[i] \in holds
    BY <1>3, <1>5
  <2> QED BY <2>1, <2>2, <2>3
<1> HIDE DEF f
<1>7. Matches(D, holds) <=> \A i \in 1..N : D[i] \in holds
  BY <1>4, <1>6
<1> QED BY <1>7 DEF N

\* A domain that can be read is kept as it is, in every shape but two.
LEMMA ReadableIsKept ==
  ASSUME NEW in \in DomainInputs, Readable(in.items), in.shape \notin {"tuples", "garbage"},
         in.shape = "conditions" => ToSet(in.items) \cap Operators = {}
  PROVE  in.items \in Seq(Operators \cup Conditions \cup {Junk}) /\ Normalize(in) = in.items
<1> DEFINE T == Operators \cup Conditions \cup {Junk}
           n == Len(in.items)
<1>1. in.items \in Seq(T) /\ in.shape \in Shapes
  BY DomainAssumption
<1>2. n \in Nat /\ \A i \in 1..n : in.items[i] \in T
  BY <1>1
<1>3. \A i \in 1..n : in.items[i] # Junk
  <2> SUFFICES ASSUME NEW i \in 1..n PROVE in.items[i] # Junk
    OBVIOUS
  <2>1. n - i + 1 \in 1..n /\ n - (n - i + 1) + 1 = i
    <3> HIDE DEF n
    <3> QED BY <1>2
  <2>2. \A m \in 1..n : in.items[n - m + 1] # Junk
    BY DEF Readable
  <2> HIDE DEF n
  <2> QED BY <2>1, <2>2
<1>4. \A i \in 1..n : in.items[i] \in Accepted(in.shape)
  <2>1. CASE in.shape = "conditions"
    <3>1. \A i \in 1..n : in.items[i] \in ToSet(in.items)
      BY <1>1 DEF ToSet
    <3>2. \A i \in 1..n : in.items[i] \notin Operators
      BY <2>1, <3>1
    <3>3. Accepted(in.shape) = Conditions
      BY <2>1 DEF Accepted
    <3> HIDE DEF n
    <3> QED BY <1>2, <1>3, <3>2, <3>3
  <2>2. CASE in.shape # "conditions"
    <3>1. in.shape \in {"list", "flat", "wrapped", "json", "python"}
      BY <1>1, <2>2 DEF Shapes
    <3>2. Accepted(in.shape) = Operators \cup Conditions
      BY <3>1 DEF Accepted
    <3> HIDE DEF n
    <3> QED BY <1>2, <1>3, <3>2
  <2> QED BY <2>1, <2>2
<1>5. Normalize(in) = in.items
  <2>1. Filtered(in.items, Accepted(in.shape)) = in.items
    <3> DEFINE items == in.items
               good == Accepted(in.shape)
               kept == Filtered(items, good)
    <3>1. items \in Seq(T) /\ \A i \in 1..Len(items) : items[i] \in good
      BY <1>1, <1>4
    <3> HIDE DEF items, good, T, n, kept
    <3>2. kept = items
      <4>1. KeptInOrder(kept, items, good)
        BY <3>1, FilteredKeepsTheGood, Zenon DEF kept
      <4> QED BY <3>1, <4>1 DEF KeptInOrder
    <3> QED BY <3>2 DEF items, good, kept
  <2> QED BY <2>1 DEF Normalize
<1> QED BY <1>1, <1>5

\* What search_records asks for, whatever the domain and the query.
LEMMA SearchRecordsIsSound == SearchRecords => SearchesFindWhatWasAsked'
<1> SUFFICES ASSUME NEW in \in DomainInputs, Call("search_records", in, Sought(in)),
                    Readable(in.items), in.shape \notin {"tuples", "garbage"},
                    in.shape = "conditions" => ToSet(in.items) \cap Operators = {}
             PROVE  /\ Readable(Sought(in))
                    /\ \A holds \in SUBSET (Conditions \cup ToSet(in.query)) :
                         Matches(Sought(in), holds) <=>
                           /\ Matches(in.items, holds)
                           /\ in.query = <<>> \/ \E q \in ToSet(in.query) : q \in holds
  <2> SUFFICES ASSUME NEW in \in DomainInputs, Call("search_records", in, Sought(in))
               PROVE  SearchesFindWhatWasAsked'
    BY DEF SearchRecords
  <2>1. call'.in = in /\ call'.out = Sought(in)
    BY DEF Call
  <2> QED BY <2>1 DEF SearchesFindWhatWasAsked, Answers
<1> DEFINE T == Operators \cup Conditions \cup {Junk}
           E == in.items
           D == Sought(in)
           asked == in.query
           A == ToSet(asked)
<1>1. E \in Seq(T) /\ Len(E) \in Nat /\ Normalize(in) = E
  BY ReadableIsKept
<1>2. asked \in Seq(A) /\ A \cap (Operators \cup {Junk}) = {}
  BY DomainAssumption
<1>3. CASE asked = <<>>
  <2>1. D = <<>> \o E
    BY <1>1, <1>3 DEF Sought
  <2>2. <<>> \o E = E
    BY <1>1, ConcatEmptySeq
  <2>3. D = E
    BY <2>1, <2>2
  <2> QED BY <1>3, <2>3, Zenon
<1>4. CASE asked # <<>>
  <2> DEFINE n == Len(asked)
  <2>1. D = AnyOf(asked) \o E
    BY <1>1, <1>4, Zenon DEF Sought
  <2>2. \A i \in 1..n : asked[i] \in A
    BY <1>2
  <2>3. \A i \in 1..n : asked[i] \notin Operators \cup {Junk}
    BY <1>2, <2>2
  <2>4. Readable(D)
    <3>1. Readable(E)
      OBVIOUS
    <3> HIDE DEF D, A, T, E, asked
    <3> QED BY <1>1, <1>2, <1>4, <2>1, <2>3, <3>1, QueryIsReadable, Zenon
  <2>5. ASSUME NEW holds
        PROVE  Matches(D, holds) <=> Matches(E, holds) /\ \E q \in A : q \in holds
    <3>1. Stacks(E, holds)[Len(E)] \in Seq(BOOLEAN)
      <4>1. Len(E) \in 0..Len(E)
        BY <1>1
      <4> QED BY <1>1, <4>1, ReadableDomainsAreEvaluated
    <3>2. \A i \in 1..n : asked[i] \notin Operators
      BY <2>3
    <3>3. Matches(D, holds) <=> Matches(E, holds) /\ \E i \in 1..n : asked[i] \in holds
      <4> HIDE DEF D, A, T, E, asked
      <4> QED BY <1>1, <1>2, <1>4, <2>1, <3>1, <3>2, QueryNarrows, Zenon
    <3>4. DOMAIN asked = 1..n
      BY <1>2
    <3>5. (\E i \in 1..n : asked[i] \in holds) <=> \E q \in A : q \in holds
      BY <3>4 DEF ToSet
    <3> HIDE DEF D, A
    <3> QED BY <3>3, <3>5
  <2> HIDE DEF D, A
  <2> QED BY <1>4, <2>4, <2>5 DEF D, A
<1> QED BY <1>3, <1>4

\* What build_domain makes of conditions without a fault.
LEMMA BuildDomainIsSound == BuildDomain => BuiltDomainsAreFaithful'
<1> SUFFICES ASSUME NEW in \in BuildInputs, Len(Sound(in)) = Len(in.conditions),
                    in.operator \in {"and", "or"}, in.conditions # <<>>,
                    NEW D, D = IF in.operator = "or" /\ Sound(in) # <<>> THEN AnyOf(Names(Sound(in)))
                               ELSE Names(Sound(in)),
                    NEW holds \in SUBSET Conditions
             PROVE  Matches(D, holds) <=>
                      LET given == ToSet(Names(in.conditions)) IN
                        IF in.operator = "and" THEN given \subseteq holds ELSE given \cap holds # {}
  <2> SUFFICES ASSUME NEW in \in BuildInputs,
                      NEW D, D = IF in.operator = "or" /\ Sound(in) # <<>> THEN AnyOf(Names(Sound(in)))
                                 ELSE Names(Sound(in)),
                      Call("build_domain", in,
                        [success |-> Len(Sound(in)) = Len(in.conditions) /\ in.operator \in {"and", "or"},
                         domain |-> D])
               PROVE  BuiltDomainsAreFaithful'
    BY DEF BuildDomain
  <2>1. /\ call'.in = in /\ call'.out.domain = D
        /\ call'.out.success <=> Len(Sound(in)) = Len(in.conditions) /\ in.operator \in {"and", "or"}
    BY DEF Call
  <2> QED BY <2>1 DEF BuiltDomainsAreFaithful, Answers
<1> DEFINE c == in.conditions
           n == Len(c)
           names == Names(c)
<1>1. c \in Seq(ToSet(c)) /\ n \in Nat /\ DOMAIN c = 1..n /\ \A i \in 1..n : c[i].name \in Conditions
  BY DomainAssumption
<1>2. Sound(in) = c
  <2> DEFINE good == {x \in ToSet(c) : x.fault = "none"}
  <2>1. Sound(in) = Filtered(c, good)
    BY DEF Sound
  <2> HIDE DEF good
  <2>2. KeptInOrder(Sound(in), c, good)
    BY <1>1, <2>1, FilteredKeepsTheGood, Zenon
  <2> QED BY <2>2 DEF KeptInOrder
<1>3. names \in Seq(Conditions) /\ Len(names) = n /\ \A i \in 1..n : names[i] \in Conditions
  <2> HIDE DEF n
  <2>1. names = [i \in 1..n |-> c[i].name]
    BY <1>1 DEF Names
  <2> HIDE DEF c
  <2> QED BY <1>1, <2>1
<1>4. names # <<>>
  BY <1>1, <1>3
<1>5. \A i \in 1..n : names[i] \notin Operators
  BY <1>3, DomainAssumption
<1>6. ToSet(names) = {names[i] : i \in 1..n}
  BY <1>3 DEF ToSet
<1> HIDE DEF names, n, c
<1>7. CASE in.operator = "and"
  <2>1. D = names
    BY <1>2, <1>7 DEF c, names
  <2>2. Matches(D, holds) <=> \A i \in 1..n : names[i] \in holds
    <3>1. names \in Seq(Conditions) /\ \A i \in 1..Len(names) : names[i] \notin Operators
      BY <1>3, <1>5
    <3>2. Matches(names, holds) <=> \A i \in 1..Len(names) : names[i] \in holds
      BY <3>1, ConditionsHoldTogether, Zenon
    <3> QED BY <1>3, <2>1, <3>2
  <2>3. (\A i \in 1..n : names[i] \in holds) <=> ToSet(names) \subseteq holds
    BY <1>6
  <2> QED BY <1>7, <2>2, <2>3 DEF c, names
<1>8. CASE in.operator = "or"
  <2>1. D = AnyOf(names)
    BY <1>2, <1>8 DEF c, names
  <2> DEFINE E == [i \in 1..0 |-> 0]
  <2>2. E \in Seq({}) /\ Len(E) = 0 /\ E = <<>>
    OBVIOUS
  <2>3. AnyOf(names) \in Seq(Conditions \cup {"|"})
    BY <1>1, <1>3 DEF AnyOf, n
  <2>4. D = AnyOf(names) \o E
    BY <2>1, <2>2, <2>3, ConcatEmptySeq
  <2>5. Stacks(E, holds)[0] = <<>>
    BY <2>2, EvaluatedInTurn
  <2>6. Stacks(E, holds)[Len(E)] = <<>> /\ <<>> \in Seq(BOOLEAN)
    <3> HIDE DEF E
    <3> QED BY <2>2, <2>5
  <2>7. Matches(E, holds)
    <3> HIDE DEF E
    <3> QED BY <2>6 DEF Matches
  <2> HIDE DEF E
  <2>8. Matches(D, holds) <=> Matches(E, holds) /\ \E i \in 1..n : names[i] \in holds
    <3>1. \A i \in 1..Len(names) : names[i] \notin Operators
      BY <1>3, <1>5
    <3>2. Stacks(E, holds)[Len(E)] \in Seq(BOOLEAN)
      BY <2>6
    <3>3. Matches(D, holds) <=> Matches(E, holds) /\ \E i \in 1..Len(names) : names[i] \in holds
      BY <1>3, <1>4, <2>2, <2>4, <3>1, <3>2, QueryNarrows, Zenon
    <3> QED BY <1>3, <3>3
  <2>9. (\E i \in 1..n : names[i] \in holds) <=> ToSet(names) \cap holds # {}
    BY <1>6
  <2> QED BY <1>8, <2>7, <2>8, <2>9 DEF c, names
<1> QED BY <1>7, <1>8

-----------------------------------------------------------------------------
(* The fields a read asks for.                                             *)

\* The fields of a set, the best first, each once.
LEMMA FieldsAreRanked ==
  ASSUME NEW in \in FieldInputs, NEW G \in SUBSET in.fields, NEW s, s = BestFirst(G)
  PROVE  /\ Len(s) \in Nat /\ DOMAIN s = 1..Len(s)
         /\ \A j \in 1..Len(s) : s[j] \in G
         /\ \A g \in G : \E k \in 1..Len(s) : s[k] = g
         /\ \A j, k \in 1..Len(s) : j < k => Better(s[j], s[k])
<1>1. IsFiniteSet(G)
  BY DomainAssumption, FS_Subset
<1>2. \A f \in G : f.name \in Nat /\ f.score \in Int
  BY DomainAssumption
<1>3. \A f, g \in G : f.name = g.name => f = g
  BY DomainAssumption
<1> DEFINE Before == {pair \in G \X G : Better(pair[1], pair[2])}
<1>4. \A x, y \in G : <<x, y>> \in Before <=> Better(x, y)
  OBVIOUS
<1> HIDE DEF Before
<1>5. \A x, y \in G : x # y => Better(x, y) \/ Better(y, x)
  BY <1>2, <1>3 DEF Better
<1>6. \A x, y, z \in G : Better(x, y) /\ Better(y, z) => Better(x, z)
  BY <1>2 DEF Better
<1>7. PICK r \in SetToSeqs(G) : \A j, k \in DOMAIN r : j < k => <<r[j], r[k]>> \in Before
  <2>1. /\ \A x, y \in G : x # y => <<x, y>> \in Before \/ <<y, x>> \in Before
        /\ \A x, y, z \in G : <<x, y>> \in Before /\ <<y, z>> \in Before => <<x, z>> \in Before
    BY <1>4, <1>5, <1>6
  <2> QED BY <1>1, <2>1, RankingExists
<1>8. \A j \in DOMAIN r : r[j] \in G
  BY <1>1, EnumerationsAreComplete
<1>9. \A j, k \in DOMAIN r : j < k => Better(r[j], r[k])
  BY <1>4, <1>7, <1>8
<1>10. s \in SetToSeqs(G) /\ \A j, k \in DOMAIN s : j < k => Better(s[j], s[k])
  BY <1>9 DEF BestFirst
<1> QED BY <1>1, <1>10, EnumerationsAreComplete

\* The first entries of a sequence.
LEMMA FirstEntries ==
  ASSUME NEW T, NEW seq \in Seq(T), NEW m \in Nat, m <= Len(seq)
  PROVE  /\ SubSeq(seq, 1, m) \in Seq(T) /\ Len(SubSeq(seq, 1, m)) = m
         /\ ToSet(SubSeq(seq, 1, m)) = {seq[i] : i \in 1..m}
<1> DEFINE first == SubSeq(seq, 1, m)
<1>1. first \in Seq(T) /\ Len(first) = m /\ \A i \in 1..m : first[i] = seq[i]
  OBVIOUS
<1>2. DOMAIN first = 1..m
  BY <1>1
<1> HIDE DEF first
<1>3. ToSet(first) = {seq[i] : i \in 1..m}
  BY <1>1, <1>2 DEF ToSet
<1> QED BY <1>1, <1>3 DEF first

\* The names of ranked fields.
LEMMA RankedNames ==
  ASSUME NEW in \in FieldInputs, NEW G \in SUBSET in.fields, NEW s, s = BestFirst(G)
  PROVE  /\ Names(s) \in Seq(Nat) /\ Len(Names(s)) = Len(s)
         /\ \A i \in 1..Len(s) : Names(s)[i] = s[i].name
<1>1. Len(s) \in Nat /\ DOMAIN s = 1..Len(s) /\ \A j \in 1..Len(s) : s[j] \in in.fields
  BY FieldsAreRanked
<1>2. \A j \in 1..Len(s) : s[j].name \in Nat
  BY <1>1, DomainAssumption
<1> DEFINE n == Len(s)
<1>3. Names(s) = [i \in 1..n |-> s[i].name]
  BY <1>1 DEF Names
<1> HIDE DEF n
<1>4. Names(s) \in Seq(Nat) /\ Len(Names(s)) = n /\ \A i \in 1..n : Names(s)[i] = s[i].name
  BY <1>1, <1>2, <1>3 DEF n
<1> QED BY <1>4 DEF n

\* The names are those of fields of a set that are better than its others.
NameTheBest(names, G, in) ==
  /\ \A f \in in.fields : f.name \in names => f \in G
  /\ \A f \in in.fields, g \in G : f.name \in names /\ g.name \notin names => Better(f, g)

\* Of ranked fields, the first are better than the others.
LEMMA TheFirstAreBetter ==
  ASSUME NEW in \in FieldInputs, NEW G \in SUBSET in.fields, NEW s, s = BestFirst(G),
         NEW m \in Nat, m <= Len(s), NEW names, \A x : x \in names <=> \E i \in 1..m : x = Names(s)[i]
  PROVE  NameTheBest(names, G, in)
<1>1. /\ Len(s) \in Nat /\ \A j \in 1..Len(s) : s[j] \in G
      /\ \A g \in G : \E k \in 1..Len(s) : s[k] = g
      /\ \A j, k \in 1..Len(s) : j < k => Better(s[j], s[k])
  BY FieldsAreRanked
<1>2. \A i \in 1..Len(s) : Names(s)[i] = s[i].name
  BY RankedNames
<1>3. \A i \in 1..m : i \in 1..Len(s)
  BY <1>1
<1>4. \A x : x \in names <=> \E i \in 1..m : x = s[i].name
  BY <1>2, <1>3
<1>5. \A f, g \in in.fields : f.name = g.name => f = g
  BY DomainAssumption
<1>6. ASSUME NEW f \in in.fields, f.name \in names PROVE \E i \in 1..m : f = s[i]
  <2>1. PICK i \in 1..m : f.name = s[i].name
    BY <1>4, <1>6
  <2>2. s[i] \in in.fields
    BY <1>1, <1>3
  <2> QED BY <1>5, <2>1, <2>2
<1>7. ASSUME NEW f \in in.fields, NEW g \in G, f.name \in names, g.name \notin names PROVE Better(f, g)
  <2>1. PICK i \in 1..m : f = s[i]
    BY <1>6, <1>7
  <2>2. PICK k \in 1..Len(s) : s[k] = g
    BY <1>1
  <2>3. k \notin 1..m
    BY <1>4, <1>7, <2>2
  <2>4. i < k /\ i \in 1..Len(s)
    BY <1>1, <2>3
  <2> QED BY <1>1, <2>1, <2>2, <2>4
<1> QED BY <1>1, <1>3, <1>6, <1>7 DEF NameTheBest

\* The fields of a model that are read by default.
LEMMA SmartFieldsAreTheBest ==
  ASSUME NEW in \in FieldInputs, NEW read, read = SmartFields(in)
  PROVE  /\ Len(read) <= in.max /\ (in.max > 0 => 0 \in ToSet(read))
         /\ \A f, g \in in.fields : f.name \in ToSet(read) /\ g.name \notin ToSet(read) =>
              f.name = 0 \/ (~f.noise /\ (g.noise \/ Better(f, g)))
<1> DEFINE G == {f \in in.fields : f.name # 0 /\ ~f.noise}
           s == BestFirst(G)
           m == Min({Len(s), in.max - 1})
           first == SubSeq(Names(s), 1, m)
<1>1. in.max \in Nat
  BY DomainAssumption
<1>2. CASE in.max <= 0
  <2>1. read = <<>>
    BY <1>2 DEF SmartFields
  <2>2. Len(read) = 0 /\ ToSet(read) = {}
    BY <2>1 DEF ToSet
  <2> QED BY <1>1, <1>2, <2>2
<1>3. CASE ~(in.max <= 0)
  <2>1. read = <<0>> \o first
    BY <1>3 DEF SmartFields
  <2>2. G \in SUBSET in.fields
    OBVIOUS
  <2> HIDE DEF G
  <2>3. Names(s) \in Seq(Nat) /\ Len(Names(s)) = Len(s)
    BY <2>2, RankedNames
  <2>4. in.max - 1 \in Nat
    BY <1>1, <1>3
  <2> DEFINE names == {Names(s)[i] : i \in 1..m}
  <2> HIDE DEF s
  <2>5. /\ m \in Nat /\ m <= Len(s) /\ m <= in.max - 1
        /\ first \in Seq(Nat) /\ Len(first) = m /\ ToSet(first) = names
    <3> DEFINE all == Names(s)
    <3>1. all \in Seq(Nat) /\ Len(s) \in Nat /\ Len(s) = Len(all)
      BY <2>3
    <3>2. m \in Nat /\ m <= Len(s) /\ m <= in.max - 1
      <4> DEFINE a == Len(s)
                 b == in.max - 1
      <4>1. a \in Nat /\ b \in Nat /\ m = Min({a, b})
        BY <2>4, <3>1
      <4> HIDE DEF a, b, m
      <4>2. m \in {a, b} /\ m <= a /\ m <= b
        BY <4>1, LesserOfTwo
      <4> QED BY <4>1, <4>2 DEF a, b
    <3> HIDE DEF m
    <3>3. m <= Len(all)
      BY <3>1, <3>2
    <3> HIDE DEF all
    <3>4. LET f == SubSeq(all, 1, m) IN f \in Seq(Nat) /\ Len(f) = m /\ ToSet(f) = {all[i] : i \in 1..m}
      BY <3>1, <3>2, <3>3, FirstEntries
    <3> QED BY <3>2, <3>4 DEF all
  <2> HIDE DEF m, first, names
  <2>6. Len(read) = m + 1 /\ ToSet(read) = {0} \cup names
    <3>1. /\ read \in Seq(Nat) /\ Len(read) = m + 1 /\ read[1] = 0
          /\ \A i \in 1..m : read[i + 1] = first[i]
      BY <2>1, <2>5
    <3>2. ToSet(read) = {read[i] : i \in 1..(m + 1)} /\ ToSet(first) = {first[i] : i \in 1..m}
      <4>1. DOMAIN read = 1..(m + 1) /\ DOMAIN first = 1..m
        BY <2>5, <3>1
      <4> QED BY <4>1 DEF ToSet
    <3>3. \A i \in 1..(m + 1) : i = 1 \/ (i - 1 \in 1..m /\ i = (i - 1) + 1)
      BY <2>5
    <3>4. \A i \in 1..m : i + 1 \in 1..(m + 1)
      BY <2>5
    <3>5. 1 \in 1..(m + 1)
      BY <2>5
    <3>6. ASSUME NEW x \in ToSet(read) PROVE x = 0 \/ x \in ToSet(first)
      <4>1. PICK i \in 1..(m + 1) : x = read[i]
        BY <3>2
      <4>2. CASE i = 1
        BY <3>1, <4>1, <4>2
      <4>3. CASE i # 1
        <5>1. i - 1 \in 1..m /\ i = (i - 1) + 1
          BY <3>3, <4>3
        <5>2. read[(i - 1) + 1] = first[i - 1]
          BY <3>1, <5>1
        <5> QED BY <3>2, <4>1, <5>1, <5>2
      <4> QED BY <4>2, <4>3
    <3>7. \A x : x = 0 \/ x \in ToSet(first) => x \in ToSet(read)
      BY <3>1, <3>2, <3>4, <3>5
    <3> QED BY <2>5, <3>1, <3>6, <3>7
  <2>7. /\ \A f \in in.fields : f.name \in names => f \in G
        /\ \A f \in in.fields, g \in G : f.name \in names /\ g.name \notin names => Better(f, g)
    <3>1. s = BestFirst(G)
      BY DEF s
    <3>2. \A x : x \in names <=> \E i \in 1..m : x = Names(s)[i]
      BY DEF names
    <3>3. m \in Nat /\ m <= Len(s)
      BY <2>5
    <3> HIDE DEF names
    <3>4. NameTheBest(names, G, in)
      BY <2>2, <3>1, <3>2, <3>3, TheFirstAreBetter, Zenon
    <3> QED BY <3>4 DEF NameTheBest
  <2>8. \A g \in in.fields : g.name # 0 /\ ~g.noise => g \in G
    BY DEF G
  <2>9. \A g \in G : ~g.noise
    BY DEF G
  <2>10. Len(read) <= in.max
    BY <1>1, <2>5, <2>6
  <2> QED BY <2>6, <2>7, <2>8, <2>9, <2>10
<1> QED BY <1>2, <1>3

\* The identifiers a model has, in their order.
LEMMA IdentifiersAreKept ==
  ASSUME NEW in \in FieldInputs
  PROVE  LET known == Filtered(Identifiers, {f.name : f \in TextFields(in)}) IN
         /\ known \in Seq(Nat)
         /\ \A k \in 1..Len(known) : /\ \E f \in TextFields(in) : known[k] = f.name
                                      /\ \E j \in DOMAIN Identifiers : known[k] = Identifiers[j]
         /\ \A f \in TextFields(in) : f.name \in ToSet(Identifiers) =>
              \E k \in 1..Len(known) : known[k] = f.name
         /\ \A a, b \in 1..Len(known) : a < b =>
              \A i, j \in DOMAIN Identifiers :
                Identifiers[i] = known[a] /\ Identifiers[j] = known[b] => i < j
<1> DEFINE texts == {f.name : f \in TextFields(in)}
           known == Filtered(Identifiers, texts)
<1>1. /\ Identifiers \in Seq(Nat) /\ DOMAIN Identifiers = 1..Len(Identifiers)
      /\ \A i, j \in 1..Len(Identifiers) : Identifiers[i] = Identifiers[j] => i = j
  BY DomainAssumption
<1>2. \A f \in TextFields(in) : f.name \in texts
  OBVIOUS
<1>3. \A x \in texts : \E f \in TextFields(in) : x = f.name
  OBVIOUS
<1> HIDE DEF texts
<1>4. known \in Seq(Nat) /\ KeptInOrder(known, Identifiers, texts)
  BY <1>1, FilteredKeepsTheGood, Zenon
<1> HIDE DEF known
<1>5. /\ \A k \in 1..Len(known) : known[k] \in texts /\ \E j \in 1..Len(Identifiers) : known[k] = Identifiers[j]
      /\ \A j \in 1..Len(Identifiers) : Identifiers[j] \in texts =>
           \E k \in 1..Len(known) : known[k] = Identifiers[j]
      /\ \A a, b \in 1..Len(known) : a < b =>
           \A i, j \in 1..Len(Identifiers) : Identifiers[i] = known[a] /\ Identifiers[j] = known[b] => i < j
  BY <1>1, <1>4, Zenon DEF KeptInOrder
<1>6. \A x \in ToSet(Identifiers) : \E j \in 1..Len(Identifiers) : x = Identifiers[j]
  BY <1>1 DEF ToSet
<1>7. \A k \in 1..Len(known) : /\ \E f \in TextFields(in) : known[k] = f.name
                               /\ \E j \in DOMAIN Identifiers : known[k] = Identifiers[j]
  BY <1>1, <1>3, <1>5
<1>8. ASSUME NEW f \in TextFields(in), f.name \in ToSet(Identifiers)
      PROVE  \E k \in 1..Len(known) : known[k] = f.name
  <2>1. PICK j \in 1..Len(Identifiers) : f.name = Identifiers[j]
    BY <1>6, <1>8
  <2> QED BY <1>2, <1>5, <2>1
<1>9. \A a, b \in 1..Len(known) : a < b =>
        \A i, j \in DOMAIN Identifiers : Identifiers[i] = known[a] /\ Identifiers[j] = known[b] => i < j
  BY <1>1, <1>5
<1> QED BY <1>4, <1>7, <1>8, <1>9 DEF known, texts

\* The fields a text query is over.
LEMMA QueryFieldsAreTheBest ==
  ASSUME NEW in \in FieldInputs
  PROVE  LET asked == QueryFields(in)
             names == ToSet(asked)
             Known == {f \in TextFields(in) : f.name \in ToSet(Identifiers)}
             Place(f) == CHOOSE i \in DOMAIN Identifiers : Identifiers[i] = f.name
         IN /\ Len(asked) <= in.max
            /\ IF Known # {}
                 THEN /\ \A f \in in.fields : f.name \in names => f \in Known
                      /\ \A f \in in.fields, g \in Known :
                           f.name \in names /\ g.name \notin names => Place(f) < Place(g)
                 ELSE NameTheBest(names, TextFields(in), in)
            /\ in.max > 0 /\ TextFields(in) # {} => \E f \in in.fields : f.name \in names
<1> DEFINE asked == QueryFields(in)
           names == ToSet(asked)
           G == TextFields(in)
           Known == {f \in G : f.name \in ToSet(Identifiers)}
           Place(f) == CHOOSE i \in DOMAIN Identifiers : Identifiers[i] = f.name
           known == Filtered(Identifiers, {f.name : f \in G})
           s == BestFirst(G)
           chosen == IF known = <<>> THEN Names(s) ELSE known
           m == Min({Len(chosen), in.max})
<1>1. in.max \in Nat /\ G \in SUBSET in.fields /\ \A f, g \in in.fields : f.name = g.name => f = g
  BY DomainAssumption DEF TextFields
<1>2. /\ known \in Seq(Nat)
      /\ \A k \in 1..Len(known) : /\ \E f \in G : known[k] = f.name
                                   /\ \E j \in DOMAIN Identifiers : known[k] = Identifiers[j]
      /\ \A f \in G : f.name \in ToSet(Identifiers) => \E k \in 1..Len(known) : known[k] = f.name
      /\ \A a, b \in 1..Len(known) : a < b =>
           \A i, j \in DOMAIN Identifiers :
             Identifiers[i] = known[a] /\ Identifiers[j] = known[b] => i < j
  BY IdentifiersAreKept
<1>3. Names(s) \in Seq(Nat) /\ Len(Names(s)) = Len(s)
  BY <1>1, RankedNames
<1>4. asked = SubSeq(chosen, 1, m)
  BY DEF QueryFields
<1> HIDE DEF asked, known, s, G
<1>5. chosen \in Seq(Nat) /\ Len(chosen) \in Nat
  BY <1>2, <1>3
<1> HIDE DEF chosen
<1>6. m \in Nat /\ m <= Len(chosen) /\ m <= in.max /\ (m = Len(chosen) \/ m = in.max)
  <2> DEFINE a == Len(chosen)
             b == in.max
  <2>1. a \in Nat /\ b \in Nat /\ m = Min({a, b})
    BY <1>1, <1>5
  <2> HIDE DEF a, b, m
  <2>2. m \in {a, b} /\ m <= a /\ m <= b
    BY <2>1, LesserOfTwo
  <2> QED BY <2>1, <2>2 DEF a, b
<1> HIDE DEF m
<1>7. Len(asked) = m /\ \A x : x \in names <=> \E i \in 1..m : x = chosen[i]
  <2>1. Len(asked) = m /\ names = {chosen[i] : i \in 1..m}
    BY <1>4, <1>5, <1>6, FirstEntries
  <2> QED BY <2>1
<1> HIDE DEF names
<1>8. known = <<>> <=> Known = {}
  <2>1. ASSUME known = <<>> PROVE Known = {}
    <3>1. Len(known) = 0
      BY <2>1
    <3> QED BY <1>2, <3>1
  <2>2. ASSUME known # <<>> PROVE Known # {}
    <3>1. 1 \in 1..Len(known)
      BY <1>2, <2>2
    <3>2. PICK f \in G : known[1] = f.name
      BY <1>2, <3>1
    <3>3. f.name \in ToSet(Identifiers)
      BY <1>2, <3>1, <3>2 DEF ToSet
    <3> QED BY <3>2, <3>3
  <2> QED BY <2>1, <2>2
<1>9. Len(asked) <= in.max
  BY <1>6, <1>7
<1>10. CASE Known # {}
  <2>1. chosen = known /\ 1 <= Len(known)
    BY <1>2, <1>8, <1>10 DEF chosen
  <2>2. \A i \in 1..m : i \in 1..Len(known)
    BY <1>6, <2>1
  <2>3. ASSUME NEW f \in in.fields, f.name \in names
        PROVE  f \in Known /\ \E i \in 1..m : known[i] = f.name
    <3>1. PICK i \in 1..m : f.name = known[i]
      BY <1>7, <2>1, <2>3
    <3>2. PICK g \in G : known[i] = g.name
      BY <1>2, <2>2
    <3>3. g = f
      BY <1>1, <2>3, <3>1, <3>2
    <3>4. f.name \in ToSet(Identifiers)
      BY <1>2, <2>2, <3>1 DEF ToSet
    <3> QED BY <3>1, <3>2, <3>3, <3>4
  <2>4. ASSUME NEW f \in in.fields, NEW g \in Known, f.name \in names, g.name \notin names
        PROVE  Place(f) < Place(g)
    <3>1. PICK a \in 1..m : known[a] = f.name
      BY <2>3, <2>4
    <3>2. PICK b \in 1..Len(known) : known[b] = g.name
      BY <1>2
    <3>3. b \notin 1..m
      BY <1>7, <2>1, <2>4, <3>2
    <3>4. a \in 1..Len(known) /\ a < b
      BY <1>6, <2>1, <3>3
    <3>5. Place(f) \in DOMAIN Identifiers /\ Identifiers[Place(f)] = f.name
      <4>1. \E i \in DOMAIN Identifiers : Identifiers[i] = f.name
        BY <1>2, <3>1, <3>4
      <4> QED BY <4>1
    <3>6. Place(g) \in DOMAIN Identifiers /\ Identifiers[Place(g)] = g.name
      <4>1. \E i \in DOMAIN Identifiers : Identifiers[i] = g.name
        BY <1>2, <3>2
      <4> QED BY <4>1
    <3> HIDE DEF Place
    <3> QED BY <1>2, <3>1, <3>2, <3>4, <3>5, <3>6
  <2>5. in.max > 0 => \E f \in in.fields : f.name \in names
    <3> SUFFICES ASSUME in.max > 0 PROVE \E f \in in.fields : f.name \in names
      OBVIOUS
    <3>1. 1 \in 1..m /\ 1 \in 1..Len(known)
      BY <1>1, <1>2, <1>6, <2>1
    <3>2. PICK f \in G : known[1] = f.name
      BY <1>2, <3>1
    <3> QED BY <1>1, <1>7, <2>1, <3>1, <3>2
  <2> HIDE DEF Known, Place
  <2>6. /\ \A f \in in.fields : f.name \in names => f \in Known
        /\ \A f \in in.fields, g \in Known : f.name \in names /\ g.name \notin names => Place(f) < Place(g)
    BY <2>3, <2>4
  <2> QED BY <1>9, <1>10, <2>5, <2>6 DEF Known, Place, names, asked, G
<1>11. CASE Known = {}
  <2>1. chosen = Names(s) /\ s = BestFirst(G)
    BY <1>8, <1>11 DEF chosen, s
  <2>2. m \in Nat /\ m <= Len(s)
    BY <1>3, <1>6, <2>1
  <2>3. \A x : x \in names <=> \E i \in 1..m : x = Names(s)[i]
    BY <1>7, <2>1
  <2>4. NameTheBest(names, G, in)
    BY <1>1, <2>1, <2>2, <2>3, TheFirstAreBetter, Zenon
  <2>5. m > 0 => \E f \in G : f.name \in names
    <3>1. m > 0 => 1 \in 1..m /\ 1 \in 1..Len(s)
      BY <1>3, <2>1, <2>2
    <3>2. \A i \in 1..Len(s) : s[i] \in G /\ Names(s)[i] = s[i].name
      BY <1>1, <2>1, FieldsAreRanked, RankedNames
    <3> QED BY <2>3, <3>1, <3>2
  <2>6. in.max > 0 /\ G # {} => m > 0
    <3>1. G # {} => Len(s) > 0
      <4>1. Len(s) \in Nat /\ \A g \in G : \E k \in 1..Len(s) : s[k] = g
        BY <1>1, <2>1, FieldsAreRanked
      <4> QED BY <4>1
    <3> QED BY <1>1, <1>3, <1>6, <2>1, <3>1
  <2>7. in.max > 0 /\ G # {} => \E f \in in.fields : f.name \in names
    BY <1>1, <2>5, <2>6
  <2> QED BY <1>9, <1>11, <2>4, <2>7 DEF names, asked, G
<1> QED BY <1>10, <1>11

\* What select_smart_fields and select_text_query_fields choose.
LEMMA ChooseFieldsIsSound == ChooseFields => ChosenFieldsAreTheBest'
<1> SUFFICES ASSUME NEW in \in FieldInputs,
                    Call("choose_fields", in, [read |-> SmartFields(in), query |-> QueryFields(in)])
             PROVE  ChosenFieldsAreTheBest'
  BY DEF ChooseFields
<1> DEFINE read == SmartFields(in)
           asked == QueryFields(in)
           Taken(seq) == {f \in in.fields : f.name \in ToSet(seq)}
           Known == {f \in TextFields(in) : f.name \in ToSet(Identifiers)}
           Place(f) == CHOOSE i \in DOMAIN Identifiers : Identifiers[i] = f.name
<1>1. call'.in = in /\ call'.out.read = read /\ call'.out.query = asked
  BY DEF Call
<1>2. /\ Len(read) <= in.max /\ (in.max > 0 => 0 \in ToSet(read))
      /\ \A f, g \in in.fields : f.name \in ToSet(read) /\ g.name \notin ToSet(read) =>
           f.name = 0 \/ (~f.noise /\ (g.noise \/ Better(f, g)))
  BY SmartFieldsAreTheBest
<1>3. /\ Len(asked) <= in.max
      /\ IF Known # {}
           THEN /\ \A f \in in.fields : f.name \in ToSet(asked) => f \in Known
                /\ \A f \in in.fields, g \in Known :
                     f.name \in ToSet(asked) /\ g.name \notin ToSet(asked) => Place(f) < Place(g)
           ELSE NameTheBest(ToSet(asked), TextFields(in), in)
      /\ in.max > 0 /\ TextFields(in) # {} => \E f \in in.fields : f.name \in ToSet(asked)
  BY QueryFieldsAreTheBest
<1> HIDE DEF read, asked, Place, Known
<1>4. TextFields(in) \subseteq in.fields /\ Known \subseteq in.fields
  BY DEF TextFields, Known
<1>5. \A f \in Taken(read), g \in in.fields \ Taken(read) :
        f.name = 0 \/ (~f.noise /\ (g.noise \/ Better(f, g)))
  BY <1>2
<1>6. IF Known # {}
        THEN /\ Taken(asked) \subseteq Known
             /\ \A f \in Taken(asked), g \in Known \ Taken(asked) : Place(f) < Place(g)
        ELSE /\ Taken(asked) \subseteq TextFields(in)
             /\ \A f \in Taken(asked), g \in TextFields(in) \ Taken(asked) : Better(f, g)
  BY <1>3, <1>4 DEF NameTheBest
<1>7. in.max > 0 /\ TextFields(in) # {} => Taken(asked) # {}
  BY <1>3
<1> HIDE DEF Taken
<1>8. /\ Len(read) <= in.max /\ Len(asked) <= in.max
      /\ in.max > 0 => 0 \in ToSet(read)
  BY <1>2, <1>3
<1>9. call' = [tool |-> "choose_fields", in |-> in, out |-> [read |-> read, query |-> asked]]
  BY DEF Call, read, asked
<1> QED BY <1>1, <1>5, <1>6, <1>7, <1>8 DEF ChosenFieldsAreTheBest, Taken, Known, Place, Answers

\* A search finds the records that match the domain and the query, a domain built
\* with success restricts to what it was asked to, and the fields read by default,
\* or searched for a text, are the best: for every domain, query, list of
\* conditions and model (search_records, build_domain, field_ranking.py).
THEOREM RequestsFaithful == ToolsSpec => []RequestsAreFaithful
<1> USE DEF RequestsAreFaithful
<1>1. ToolsInit => RequestsAreFaithful
  BY DEF ToolsInit, NoCall, Answers, SearchesFindWhatWasAsked, BuiltDomainsAreFaithful, ChosenFieldsAreTheBest
<1>2. RequestsAreFaithful /\ [ToolsNext]_call => RequestsAreFaithful'
  <2> SUFFICES ASSUME RequestsAreFaithful, [ToolsNext]_call PROVE RequestsAreFaithful'
    OBVIOUS
  <2>1. CASE UNCHANGED call
    <3>1. SearchesFindWhatWasAsked'
      BY <2>1, Zenon DEF Answers, SearchesFindWhatWasAsked
    <3>2. BuiltDomainsAreFaithful'
      BY <2>1, Zenon DEF Answers, BuiltDomainsAreFaithful
    <3>3. ChosenFieldsAreTheBest'
      BY <2>1, SMT DEF Answers, ChosenFieldsAreTheBest
    <3> QED BY <3>1, <3>2, <3>3
  <2>2. CASE ToolsNext
    <3>1. SearchesFindWhatWasAsked'
      <4>1. CASE Answers("search_records")'
        BY <2>2, <4>1, AnswersComeFromTheirTool, SearchRecordsIsSound
      <4>2. CASE ~Answers("search_records")'
        BY <4>2 DEF SearchesFindWhatWasAsked
      <4> QED BY <4>1, <4>2
    <3>2. BuiltDomainsAreFaithful'
      <4>1. CASE Answers("build_domain")'
        BY <2>2, <4>1, AnswersComeFromTheirTool, BuildDomainIsSound
      <4>2. CASE ~Answers("build_domain")'
        BY <4>2 DEF BuiltDomainsAreFaithful
      <4> QED BY <4>1, <4>2
    <3>3. ChosenFieldsAreTheBest'
      <4>1. CASE Answers("choose_fields")'
        BY <2>2, <4>1, AnswersComeFromTheirTool, ChooseFieldsIsSound
      <4>2. CASE ~Answers("choose_fields")'
        BY <4>2 DEF ChosenFieldsAreTheBest
      <4> QED BY <4>1, <4>2
    <3> QED BY <3>1, <3>2, <3>3
  <2> QED BY <2>1, <2>2
<1> QED BY <1>1, <1>2, PTL DEF ToolsSpec
=============================================================================
