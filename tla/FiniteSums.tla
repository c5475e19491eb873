----------------------------- MODULE FiniteSums -----------------------------
(* Induction over finite sets and naturals, sums over finite sets, and what *)
(* the sequences of a sequence make when they are joined.                   *)
(* A predicate is given as the set of what satisfies it, so that a lemma    *)
(* has no operator among its parameters: what is proved by it follows from  *)
(* the subsets of a finite set being well-founded.                          *)
EXTENDS Integers, Functions, SequencesExt, FiniteSetTheorems, WellFoundedInduction, TLAPS

(* Of any subsets of a finite set one holds no other.                       *)
LEMMA SmallestSubset ==
  ASSUME NEW S, IsFiniteSet(S), NEW T, T \subseteq SUBSET S, T # {}
  PROVE  \E x \in T : \A y \in T : y \subseteq x => y = x
<1>1. T \subseteq FiniteSubsetsOf(S)
  BY FS_Subset DEF FiniteSubsetsOf
<1>2. IsWellFoundedOn(StrictSubsetOrdering(S), FiniteSubsetsOf(S))
  BY FS_StrictSubsetOrderingWellFounded
<1>3. PICK x \in T : \A y \in T : <<y, x>> \notin StrictSubsetOrdering(S)
  BY <1>1, <1>2, WFMin, Zenon
<1>4. ASSUME NEW y \in T, y \subseteq x PROVE y = x
  BY <1>3, <1>4 DEF StrictSubsetOrdering
<1> QED BY <1>4

(* What holds of the empty set, and of a set with one element more, holds of *)
(* a finite set.                                                            *)
LEMMA SetInduction ==
  ASSUME NEW S, IsFiniteSet(S), NEW P, {} \in P,
         \A T \in SUBSET S : \A x \in S \ T : T \in P => T \cup {x} \in P
  PROVE  S \in P
<1> SUFFICES ASSUME S \notin P PROVE FALSE
  OBVIOUS
<1> DEFINE C == (SUBSET S) \ P
<1>a. C \subseteq SUBSET S /\ C # {}
  OBVIOUS
<1>b. \A T \in SUBSET S : T \in C <=> T \notin P
  OBVIOUS
<1> HIDE DEF C
<1>1. PICK Q \in C : \A y \in C : y \subseteq Q => y = Q
  BY <1>a, SmallestSubset
<1>2. PICK x \in Q : TRUE
  BY <1>a, <1>b
<1>3. Q \ {x} \in P
  BY <1>a, <1>b, <1>1, <1>2
<1>4. (Q \ {x}) \cup {x} = Q
  BY <1>2
<1>5. Q \ {x} \in SUBSET S /\ x \in S \ (Q \ {x})
  BY <1>a, <1>2
<1>6. Q \in P
  BY <1>3, <1>4, <1>5
<1> QED BY <1>a, <1>b, <1>1, <1>6

(* Natural numbers have a least one.                                        *)
LEMMA Smallest ==
  ASSUME NEW T \in SUBSET Nat, T # {}
  PROVE  \E n \in T : \A m \in T : n <= m
<1>1. PICK k \in T : TRUE
  OBVIOUS
<1> DEFINE R == {0 .. n : n \in {n \in T : n <= k}}
<1> DEFINE U == 0 .. k
<1>2. IsFiniteSet(U) /\ R \subseteq SUBSET U /\ R # {}
  <2>1. IsFiniteSet(0 .. k)
    BY FS_Interval
  <2> QED BY <2>1
<1>3. PICK x \in R : \A y \in R : y \subseteq x => y = x
  <2> HIDE DEF R, U
  <2> QED BY <1>2, SmallestSubset
<1>4. PICK n \in T : n <= k /\ x = 0 .. n
  BY <1>3
<1>5. ASSUME NEW m \in T PROVE n <= m
  <2>1. CASE m <= n
    <3>1. 0 .. m \in R /\ 0 .. m \subseteq x
      BY <1>4, <2>1
    <3>2. 0 .. m = 0 .. n
      BY <1>3, <1>4, <3>1
    <3> QED BY <2>1, <3>2
  <2> QED BY <2>1
<1> QED BY <1>4, <1>5

(* What holds of 0, and of each successor, holds of every natural number.   *)
LEMMA Induction ==
  ASSUME NEW P, 0 \in P, \A n \in Nat : n \in P => n + 1 \in P
  PROVE  Nat \subseteq P
<1> SUFFICES ASSUME Nat \ P # {} PROVE FALSE
  OBVIOUS
<1>1. PICK n \in Nat \ P : \A m \in Nat \ P : n <= m
  BY Smallest
<1>2. n - 1 \in Nat /\ n - 1 \in P
  BY <1>1
<1> QED BY <1>1, <1>2
-----------------------------------------------------------------------------
(* Sums.  SumFunctionOnSet takes one element after the other out of a set:  *)
(* a table of its sums over every subset satisfies one step at each.        *)

Chosen(s) == CHOOSE x \in s : TRUE

SumStep(g, f, s) == IF s = {} THEN 0 ELSE f[Chosen(s)] + g[s \ {Chosen(s)}]

Tabulates(g, f, S) == g = [s \in SUBSET S |-> SumStep(g, f, s)]

(* The sum is read from such a table.                                       *)
LEMMA SumIsTabulated ==
  ASSUME NEW f, NEW S
  PROVE  SumFunctionOnSet(f, S) = (CHOOSE g : Tabulates(g, f, S))[S]
BY DEF SumFunctionOnSet, FoldFunctionOnSet, MapThenFoldSet, Tabulates, SumStep, Chosen

LEMMA ChosenIn == ASSUME NEW s, s # {} PROVE Chosen(s) \in s
BY DEF Chosen

(* There is one, by induction on the number of elements.                    *)
LEMMA TableExists ==
  ASSUME NEW f, NEW S, IsFiniteSet(S)
  PROVE  \E g : Tabulates(g, f, S)
<1> DEFINE Upto(g, n) == \A s \in SUBSET S : Cardinality(s) <= n => g[s] = SumStep(g, f, s)
<1> DEFINE P == {n \in Nat : \E g : Upto(g, n)}
<1>1. \A s \in SUBSET S : IsFiniteSet(s) /\ Cardinality(s) \in Nat /\ Cardinality(s) <= Cardinality(S)
  BY FS_Subset, FS_CardinalityType
<1>2. \A s \in SUBSET S : s # {} => /\ Chosen(s) \in s /\ s \ {Chosen(s)} \in SUBSET S
                                    /\ Cardinality(s \ {Chosen(s)}) = Cardinality(s) - 1
  BY <1>1, ChosenIn, FS_RemoveElement
<1>3. 0 \in P
  <2> DEFINE g == [s \in SUBSET S |-> 0]
  <2>1. Upto(g, 0)
    BY <1>1, FS_EmptySet DEF SumStep
  <2> QED BY <2>1
<1>4. ASSUME NEW n \in Nat, n \in P PROVE n + 1 \in P
  <2>1. PICK g : Upto(g, n)
    BY <1>4
  <2> DEFINE h == [s \in SUBSET S |-> IF Cardinality(s) <= n THEN g[s] ELSE SumStep(g, f, s)]
  <2>2. ASSUME NEW s \in SUBSET S, Cardinality(s) <= n + 1 PROVE h[s] = SumStep(h, f, s)
    <3>1. h[s] = SumStep(g, f, s)
      BY <2>1
    <3>2. CASE s = {}
      BY <3>1, <3>2 DEF SumStep
    <3>3. CASE s # {}
      <4>1. s \ {Chosen(s)} \in SUBSET S /\ Cardinality(s \ {Chosen(s)}) <= n
        BY <1>1, <1>2, <2>2, <3>3
      <4>2. h[s \ {Chosen(s)}] = g[s \ {Chosen(s)}]
        BY <4>1
      <4> QED BY <3>1, <3>3, <4>2 DEF SumStep
    <3> QED BY <3>2, <3>3
  <2>3. Upto(h, n + 1)
    BY <2>2
  <2> HIDE DEF h
  <2> QED BY <2>3
<1> HIDE DEF P
<1>5. Cardinality(S) \in P
  BY <1>1, <1>3, <1>4, Induction
<1>6. PICK g : Upto(g, Cardinality(S))
  BY <1>5 DEF P
<1> DEFINE h == [s \in SUBSET S |-> g[s]]
<1>7. ASSUME NEW s \in SUBSET S PROVE h[s] = SumStep(h, f, s)
  <2>1. h[s] = SumStep(g, f, s)
    BY <1>1, <1>6
  <2> QED BY <1>2, <2>1 DEF SumStep
<1>8. Tabulates(h, f, S)
  BY <1>7 DEF Tabulates
<1> QED BY <1>8
-----------------------------------------------------------------------------
TableOf(f, S) == CHOOSE g : Tabulates(g, f, S)

LEMMA TableSteps ==
  ASSUME NEW f, NEW S, IsFiniteSet(S), NEW s \in SUBSET S
  PROVE  TableOf(f, S)[s] = SumStep(TableOf(f, S), f, s)
<1>1. Tabulates(TableOf(f, S), f, S)
  BY TableExists DEF TableOf
<1> DEFINE g == TableOf(f, S)
<1>2. g = [t \in SUBSET S |-> SumStep(g, f, t)]
  BY <1>1 DEF Tabulates
<1> HIDE DEF g
<1>3. g[s] = SumStep(g, f, s)
  BY <1>2
<1> QED BY <1>3 DEF g

(* The table of a subset agrees with that of the whole set.                 *)
LEMMA SameTable ==
  ASSUME NEW f, NEW S, IsFiniteSet(S), NEW T \in SUBSET S
  PROVE  TableOf(f, S)[T] = TableOf(f, T)[T]
<1> DEFINE g == TableOf(f, S)
           h == TableOf(f, T)
           C == {s \in SUBSET T : g[s] # h[s]}
<1>1. IsFiniteSet(T) /\ SUBSET T \subseteq SUBSET S
  BY FS_Subset
<1>2. \A s \in SUBSET T : g[s] = SumStep(g, f, s) /\ h[s] = SumStep(h, f, s)
  BY <1>1, TableSteps
<1> SUFFICES ASSUME C # {} PROVE FALSE
  OBVIOUS
<1>3. PICK Q \in C : \A y \in C : y \subseteq Q => y = Q
  <2>1. C \subseteq SUBSET T
    OBVIOUS
  <2> HIDE DEF C
  <2> QED BY <1>1, <2>1, SmallestSubset
<1> HIDE DEF g, h
<1>4. Q # {}
  BY <1>2 DEF SumStep
<1>5. Chosen(Q) \in Q
  BY <1>4, ChosenIn
<1>6. Q \ {Chosen(Q)} \in SUBSET T /\ Q \ {Chosen(Q)} \notin C
  BY <1>3, <1>5
<1>7. g[Q \ {Chosen(Q)}] = h[Q \ {Chosen(Q)}]
  BY <1>6
<1> QED BY <1>2, <1>4, <1>7 DEF SumStep

(* Hence the sum takes one step.                                            *)
LEMMA SumUnfold ==
  ASSUME NEW f, NEW S, IsFiniteSet(S)
  PROVE  /\ S = {} => SumFunctionOnSet(f, S) = 0
         /\ S # {} => SumFunctionOnSet(f, S) = f[Chosen(S)] + SumFunctionOnSet(f, S \ {Chosen(S)})
<1>1. SumFunctionOnSet(f, S) = TableOf(f, S)[S]
  BY SumIsTabulated DEF TableOf
<1>2. TableOf(f, S)[S] = SumStep(TableOf(f, S), f, S)
  BY TableSteps
<1>3. SumFunctionOnSet(f, S \ {Chosen(S)}) = TableOf(f, S)[S \ {Chosen(S)}]
  <2>1. SumFunctionOnSet(f, S \ {Chosen(S)}) = TableOf(f, S \ {Chosen(S)})[S \ {Chosen(S)}]
    BY SumIsTabulated DEF TableOf
  <2>2. S \ {Chosen(S)} \in SUBSET S
    OBVIOUS
  <2> QED BY <2>1, <2>2, SameTable
<1> QED BY <1>1, <1>2, <1>3 DEF SumStep

(* A sum of integers is an integer.                                         *)
LEMMA SumInt ==
  ASSUME NEW f, NEW S, IsFiniteSet(S), \A x \in S : f[x] \in Int
  PROVE  SumFunctionOnSet(f, S) \in Int
<1> DEFINE C == {s \in SUBSET S : SumFunctionOnSet(f, s) \notin Int}
<1> SUFFICES ASSUME C # {} PROVE FALSE
  OBVIOUS
<1>1. PICK Q \in C : \A y \in C : y \subseteq Q => y = Q
  <2>1. C \subseteq SUBSET S
    OBVIOUS
  <2> HIDE DEF C
  <2> QED BY <2>1, SmallestSubset
<1>2. IsFiniteSet(Q)
  BY FS_Subset
<1>3. Q # {}
  <2>1. SumFunctionOnSet(f, Q) # 0
    OBVIOUS
  <2> QED BY <1>2, <2>1, SumUnfold
<1>4. Chosen(Q) \in Q /\ Q \ {Chosen(Q)} \in SUBSET S
  BY <1>3, ChosenIn
<1>5. SumFunctionOnSet(f, Q \ {Chosen(Q)}) \in Int
  BY <1>1, <1>4
<1>6. SumFunctionOnSet(f, Q) = f[Chosen(Q)] + SumFunctionOnSet(f, Q \ {Chosen(Q)})
  BY <1>2, <1>3, SumUnfold
<1> QED BY <1>4, <1>5, <1>6

(* The order does not matter: any element may be taken out.                 *)
LEMMA SumRemove ==
  ASSUME NEW f, NEW S, IsFiniteSet(S), \A x \in S : f[x] \in Int, NEW x \in S
  PROVE  SumFunctionOnSet(f, S) = f[x] + SumFunctionOnSet(f, S \ {x})
<1> DEFINE Sum(s) == SumFunctionOnSet(f, s)
           C == {s \in SUBSET S : \E e \in s : Sum(s) # f[e] + Sum(s \ {e})}
<1> HIDE DEF Sum
<1> SUFFICES ASSUME C # {} PROVE FALSE
  BY DEF Sum
<1>1. PICK Q \in C : \A y \in C : y \subseteq Q => y = Q
  <2>1. C \subseteq SUBSET S
    OBVIOUS
  <2> HIDE DEF C
  <2> QED BY <2>1, SmallestSubset
<1>2. PICK e \in Q : Sum(Q) # f[e] + Sum(Q \ {e})
  OBVIOUS
<1>3. \A s \in SUBSET S : IsFiniteSet(s) /\ Sum(s) \in Int
  BY FS_Subset, SumInt DEF Sum
<1> DEFINE c == Chosen(Q)
<1>4. c \in Q
  BY ChosenIn
<1>5. Sum(Q) = f[c] + Sum(Q \ {c})
  BY <1>3, SumUnfold DEF Sum
<1> HIDE DEF c
<1>6. c # e
  BY <1>2, <1>5
<1>7. \A y \in SUBSET Q : \A z \in y : y # Q => Sum(y) = f[z] + Sum(y \ {z})
  BY <1>1
<1>8. Sum(Q \ {c}) = f[e] + Sum((Q \ {c}) \ {e})
  <2>1. Q \ {c} \in SUBSET Q /\ e \in Q \ {c} /\ Q \ {c} # Q
    BY <1>4, <1>6
  <2> QED BY <1>7, <2>1
<1>9. Sum(Q \ {e}) = f[c] + Sum((Q \ {e}) \ {c})
  <2>1. Q \ {e} \in SUBSET Q /\ c \in Q \ {e} /\ Q \ {e} # Q
    BY <1>4, <1>6
  <2> QED BY <1>7, <2>1
<1>10. (Q \ {e}) \ {c} = (Q \ {c}) \ {e}
  OBVIOUS
<1>11. f[c] \in Int /\ f[e] \in Int /\ Sum((Q \ {c}) \ {e}) \in Int
  BY <1>3, <1>4
<1>12. Sum(Q \ {e}) = f[c] + Sum((Q \ {c}) \ {e})
  BY <1>9, <1>10
<1> HIDE DEF C
<1> QED BY <1>2, <1>5, <1>8, <1>11, <1>12
-----------------------------------------------------------------------------
(* What sums over related sets have to do with each other.                  *)

LEMMA SumEmpty == ASSUME NEW f PROVE SumFunctionOnSet(f, {}) = 0
BY SumUnfold, FS_EmptySet

(* One element more.                                                        *)
LEMMA SumAdd ==
  ASSUME NEW f, NEW S, IsFiniteSet(S), \A y \in S : f[y] \in Int,
         NEW x, x \notin S, f[x] \in Int
  PROVE  SumFunctionOnSet(f, S \cup {x}) = f[x] + SumFunctionOnSet(f, S)
<1>1. IsFiniteSet(S \cup {x}) /\ x \in S \cup {x} /\ (S \cup {x}) \ {x} = S
  BY FS_AddElement
<1>2. \A y \in S \cup {x} : f[y] \in Int
  OBVIOUS
<1>3. SumFunctionOnSet(f, S \cup {x}) = f[x] + SumFunctionOnSet(f, (S \cup {x}) \ {x})
  BY <1>1, <1>2, SumRemove
<1> QED BY <1>1, <1>3

(* Only the values on the set count.                                        *)
LEMMA SumSame ==
  ASSUME NEW f, NEW g, NEW S, IsFiniteSet(S), \A x \in S : f[x] = g[x]
  PROVE  SumFunctionOnSet(f, S) = SumFunctionOnSet(g, S)
<1> DEFINE C == {s \in SUBSET S : SumFunctionOnSet(f, s) # SumFunctionOnSet(g, s)}
<1> SUFFICES ASSUME C # {} PROVE FALSE
  OBVIOUS
<1>1. PICK Q \in C : \A y \in C : y \subseteq Q => y = Q
  <2>1. C \subseteq SUBSET S
    OBVIOUS
  <2> HIDE DEF C
  <2> QED BY <2>1, SmallestSubset
<1>2. IsFiniteSet(Q)
  BY FS_Subset
<1>3. Q # {}
  BY SumEmpty
<1>4. Chosen(Q) \in Q /\ Q \ {Chosen(Q)} \in SUBSET S
  BY <1>3, ChosenIn
<1>5. SumFunctionOnSet(f, Q \ {Chosen(Q)}) = SumFunctionOnSet(g, Q \ {Chosen(Q)})
  BY <1>1, <1>4
<1>6. /\ SumFunctionOnSet(f, Q) = f[Chosen(Q)] + SumFunctionOnSet(f, Q \ {Chosen(Q)})
      /\ SumFunctionOnSet(g, Q) = g[Chosen(Q)] + SumFunctionOnSet(g, Q \ {Chosen(Q)})
  BY <1>2, <1>3, SumUnfold
<1>7. f[Chosen(Q)] = g[Chosen(Q)]
  BY <1>4
<1> QED BY <1>5, <1>6, <1>7

(* A sum of negated values.                                                 *)
LEMMA SumNegated ==
  ASSUME NEW f, NEW g, NEW S, IsFiniteSet(S),
         \A x \in S : f[x] \in Int /\ g[x] = -f[x]
  PROVE  SumFunctionOnSet(g, S) = -SumFunctionOnSet(f, S)
<1> DEFINE P == {s \in SUBSET S : SumFunctionOnSet(g, s) = -SumFunctionOnSet(f, s)}
<1>1. {} \in P
  BY SumEmpty
<1>2. ASSUME NEW T \in SUBSET S, NEW x \in S \ T, T \in P PROVE T \cup {x} \in P
  <2>1. IsFiniteSet(T) /\ x \notin T /\ x \in S
    BY FS_Subset
  <2>2. \A y \in T : f[y] \in Int /\ g[y] \in Int
    OBVIOUS
  <2>3. f[x] \in Int /\ g[x] \in Int /\ g[x] = -f[x]
    OBVIOUS
  <2>4. SumFunctionOnSet(f, T \cup {x}) = f[x] + SumFunctionOnSet(f, T)
    BY <2>1, <2>2, <2>3, SumAdd
  <2>5. SumFunctionOnSet(g, T \cup {x}) = g[x] + SumFunctionOnSet(g, T)
    BY <2>1, <2>2, <2>3, SumAdd
  <2>6. SumFunctionOnSet(f, T) \in Int /\ SumFunctionOnSet(g, T) = -SumFunctionOnSet(f, T)
    BY <1>2, <2>1, <2>2, SumInt
  <2>7. SumFunctionOnSet(g, T \cup {x}) = -SumFunctionOnSet(f, T \cup {x})
    BY <2>3, <2>4, <2>5, <2>6
  <2> QED BY <2>7
<1> HIDE DEF P
<1>3. S \in P
  BY <1>1, <1>2, SetInduction
<1> QED BY <1>3 DEF P

(* Sets without a common element.                                           *)
LEMMA SumUnion ==
  ASSUME NEW f, NEW S, NEW T, IsFiniteSet(S), IsFiniteSet(T), S \cap T = {},
         \A x \in S \cup T : f[x] \in Int
  PROVE  SumFunctionOnSet(f, S \cup T) = SumFunctionOnSet(f, S) + SumFunctionOnSet(f, T)
<1> DEFINE P == {s \in SUBSET T : SumFunctionOnSet(f, S \cup s)
                   = SumFunctionOnSet(f, S) + SumFunctionOnSet(f, s)}
<1>0. SumFunctionOnSet(f, S) \in Int
  BY SumInt
<1>1. {} \in P
  <2>1. S \cup {} = S
    OBVIOUS
  <2> QED BY <1>0, <2>1, SumEmpty
<1>2. ASSUME NEW s \in SUBSET T, NEW x \in T \ s, s \in P PROVE s \cup {x} \in P
  <2>1. IsFiniteSet(s) /\ IsFiniteSet(S \cup s) /\ x \notin s /\ x \notin S \cup s
    BY FS_Subset, FS_Union
  <2>2. (\A y \in S \cup s : f[y] \in Int) /\ (\A y \in s : f[y] \in Int) /\ f[x] \in Int
    OBVIOUS
  <2>3. SumFunctionOnSet(f, (S \cup s) \cup {x}) = f[x] + SumFunctionOnSet(f, S \cup s)
    BY <2>1, <2>2, SumAdd
  <2>4. SumFunctionOnSet(f, s \cup {x}) = f[x] + SumFunctionOnSet(f, s)
    BY <2>1, <2>2, SumAdd
  <2>5. SumFunctionOnSet(f, s) \in Int
    BY <2>1, <2>2, SumInt
  <2>6. (S \cup s) \cup {x} = S \cup (s \cup {x})
    OBVIOUS
  <2>7. SumFunctionOnSet(f, S \cup s) = SumFunctionOnSet(f, S) + SumFunctionOnSet(f, s)
    BY <1>2
  <2>8. f[x] + (SumFunctionOnSet(f, S) + SumFunctionOnSet(f, s))
          = SumFunctionOnSet(f, S) + (f[x] + SumFunctionOnSet(f, s))
    <3>1. f[x] \in Int
      BY <2>2
    <3> HIDE DEF P
    <3> QED BY <1>0, <2>5, <3>1
  <2>9. SumFunctionOnSet(f, S \cup (s \cup {x}))
          = SumFunctionOnSet(f, S) + SumFunctionOnSet(f, s \cup {x})
    BY <2>3, <2>4, <2>6, <2>7, <2>8, Zenon
  <2> QED BY <2>9
<1> HIDE DEF P
<1>3. T \in P
  BY <1>1, <1>2, SetInduction
<1> QED BY <1>3 DEF P

(* What is zero does not count.                                             *)
LEMMA SumSupport ==
  ASSUME NEW f, NEW S, IsFiniteSet(S), NEW T \in SUBSET S,
         \A x \in S : f[x] \in Int, \A x \in S \ T : f[x] = 0
  PROVE  SumFunctionOnSet(f, S) = SumFunctionOnSet(f, T)
<1> DEFINE U == S \ T
           P == {s \in SUBSET U : SumFunctionOnSet(f, s) = 0}
<1>1. IsFiniteSet(T) /\ IsFiniteSet(U)
  BY FS_Subset
<1>2. {} \in P
  BY SumEmpty
<1>3. ASSUME NEW s \in SUBSET U, NEW x \in U \ s, s \in P PROVE s \cup {x} \in P
  <2>1. IsFiniteSet(s) /\ f[x] = 0 /\ (\A y \in s : f[y] \in Int)
    BY <1>1, FS_Subset
  <2>2. SumFunctionOnSet(f, s \cup {x}) = f[x] + SumFunctionOnSet(f, s)
    BY <2>1, SumAdd
  <2>3. SumFunctionOnSet(f, s \cup {x}) = 0
    BY <1>3, <2>1, <2>2
  <2> QED BY <2>3
<1>4. U \in P
  <2> HIDE DEF P, U
  <2> QED BY <1>1, <1>2, <1>3, SetInduction
<1>5. T \cup U = S /\ T \cap U = {}
  OBVIOUS
<1>6. SumFunctionOnSet(f, U) = 0
  BY <1>4
<1>7. SumFunctionOnSet(f, T) \in Int
  BY <1>1, SumInt
<1>8. SumFunctionOnSet(f, T \cup U) = SumFunctionOnSet(f, T) + SumFunctionOnSet(f, U)
  <2>1. \A x \in T \cup U : f[x] \in Int
    OBVIOUS
  <2> HIDE DEF U
  <2> QED BY <1>1, <1>5, <2>1, SumUnion
<1> HIDE DEF U, P
<1>9. SumFunctionOnSet(f, T) + SumFunctionOnSet(f, U) = SumFunctionOnSet(f, T)
  BY <1>6, <1>7
<1> QED BY <1>5, <1>8, <1>9, Zenon

(* The image of a finite set is finite.                                     *)
LEMMA ImageFinite ==
  ASSUME NEW S, IsFiniteSet(S), NEW h
  PROVE  IsFiniteSet({h[x] : x \in S})
<1> DEFINE k == [x \in S |-> h[x]]
           T == {h[x] : x \in S}
<1>1. k \in Surjection(S, T)
  <2>1. k \in [S -> T]
    OBVIOUS
  <2>2. \A t \in T : \E s \in S : k[s] = t
    OBVIOUS
  <2> QED BY <2>1, <2>2 DEF Surjection
<1> HIDE DEF k, T
<1>2. IsFiniteSet(T)
  BY <1>1, FS_Surjection
<1> QED BY <1>2 DEF T

(* Names for the elements do not change a sum, as long as they are told     *)
(* apart.                                                                   *)
LEMMA SumReindexed ==
  ASSUME NEW f, NEW g, NEW h, NEW S, IsFiniteSet(S),
         \A x \in S : f[x] \in Int /\ g[h[x]] = f[x],
         \A x, y \in S : h[x] = h[y] => x = y
  PROVE  SumFunctionOnSet(g, {h[x] : x \in S}) = SumFunctionOnSet(f, S)
<1> DEFINE Image(s) == {h[x] : x \in s}
           P == {s \in SUBSET S : SumFunctionOnSet(g, Image(s)) = SumFunctionOnSet(f, s)}
<1>1. {} \in P
  <2>1. Image({}) = {}
    OBVIOUS
  <2> QED BY <2>1, SumEmpty
<1>2. ASSUME NEW s \in SUBSET S, NEW x \in S \ s, s \in P PROVE s \cup {x} \in P
  <2>1. IsFiniteSet(s) /\ IsFiniteSet(Image(s))
    BY FS_Subset, ImageFinite
  <2>2. Image(s \cup {x}) = Image(s) \cup {h[x]}
    OBVIOUS
  <2>3. h[x] \notin Image(s)
    OBVIOUS
  <2>4. (\A y \in s : f[y] \in Int) /\ (\A z \in Image(s) : g[z] \in Int)
    OBVIOUS
  <2>5. f[x] \in Int /\ g[h[x]] = f[x]
    OBVIOUS
  <2>6. SumFunctionOnSet(g, Image(s)) = SumFunctionOnSet(f, s)
    BY <1>2
  <2> HIDE DEF Image, P
  <2>7. SumFunctionOnSet(g, Image(s) \cup {h[x]}) = g[h[x]] + SumFunctionOnSet(g, Image(s))
    BY <2>1, <2>3, <2>4, <2>5, SumAdd
  <2>8. SumFunctionOnSet(f, s \cup {x}) = f[x] + SumFunctionOnSet(f, s)
    BY <2>1, <2>4, <2>5, SumAdd
  <2>9. SumFunctionOnSet(g, Image(s \cup {x})) = SumFunctionOnSet(f, s \cup {x})
    BY <2>2, <2>5, <2>6, <2>7, <2>8
  <2> QED BY <2>9 DEF P
<1> HIDE DEF P
<1>3. S \in P
  BY <1>1, <1>2, SetInduction
<1> QED BY <1>3 DEF P

LEMMA SumOverImage ==
  ASSUME NEW f, NEW g, NEW h, NEW S, NEW T, IsFiniteSet(S),
         \A x \in S : f[x] \in Int /\ g[h[x]] = f[x],
         \A x, y \in S : h[x] = h[y] => x = y,
         \A x \in S : h[x] \in T, \A t \in T : \E x \in S : h[x] = t
  PROVE  SumFunctionOnSet(g, T) = SumFunctionOnSet(f, S)
<1>1. T = {h[x] : x \in S}
  OBVIOUS
<1>2. SumFunctionOnSet(g, {h[x] : x \in S}) = SumFunctionOnSet(f, S)
  BY SumReindexed
<1> QED BY <1>1, <1>2

(* A sum may be taken group by group.                                       *)
LEMMA SumByGroups ==
  ASSUME NEW f, NEW g, NEW h, NEW S, NEW T, NEW part \in [T -> SUBSET S],
         IsFiniteSet(S), IsFiniteSet(T),
         \A x \in S : f[x] \in Int /\ h[x] \in T,
         \A t \in T : \A x \in S : x \in part[t] <=> h[x] = t,
         \A t \in T : g[t] = SumFunctionOnSet(f, part[t])
  PROVE  SumFunctionOnSet(g, T) = SumFunctionOnSet(f, S)
<1> DEFINE Of(s) == {x \in S : h[x] \in s}
           P == {s \in SUBSET T : SumFunctionOnSet(g, s) = SumFunctionOnSet(f, Of(s))}
<1>1. {} \in P
  <2>1. Of({}) = {}
    OBVIOUS
  <2> QED BY <2>1, SumEmpty
<1>2. ASSUME NEW s \in SUBSET T, NEW t \in T \ s, s \in P PROVE s \cup {t} \in P
  <2> DEFINE F == part[t]
  <2>1. IsFiniteSet(s) /\ IsFiniteSet(Of(s)) /\ IsFiniteSet(F)
    BY FS_Subset
  <2>2. Of(s \cup {t}) = Of(s) \cup F /\ Of(s) \cap F = {}
    OBVIOUS
  <2>3. \A x \in Of(s) \cup F : f[x] \in Int
    OBVIOUS
  <2>4. \A u \in s \cup {t} : g[u] \in Int
    <3>1. \A u \in T : IsFiniteSet(part[u]) /\ \A x \in part[u] : f[x] \in Int
      BY FS_Subset
    <3>2. \A u \in T : SumFunctionOnSet(f, part[u]) \in Int
      BY <3>1, SumInt
    <3> QED BY <3>2
  <2>5. g[t] = SumFunctionOnSet(f, F) /\ SumFunctionOnSet(g, s) = SumFunctionOnSet(f, Of(s))
    BY <1>2
  <2> HIDE DEF Of, F, P
  <2>6. SumFunctionOnSet(f, Of(s) \cup F) = SumFunctionOnSet(f, Of(s)) + SumFunctionOnSet(f, F)
    BY <2>1, <2>2, <2>3, SumUnion
  <2>7. SumFunctionOnSet(g, s \cup {t}) = g[t] + SumFunctionOnSet(g, s)
    BY <2>1, <2>4, SumAdd
  <2>8. SumFunctionOnSet(f, Of(s)) \in Int /\ SumFunctionOnSet(f, F) \in Int
    BY <2>1, <2>3, SumInt
  <2>9. SumFunctionOnSet(f, F) + SumFunctionOnSet(f, Of(s))
          = SumFunctionOnSet(f, Of(s)) + SumFunctionOnSet(f, F)
    BY <2>8
  <2>10. SumFunctionOnSet(g, s \cup {t}) = SumFunctionOnSet(f, Of(s \cup {t}))
    BY <2>2, <2>5, <2>6, <2>7, <2>9, Zenon
  <2> QED BY <2>10 DEF P
<1>3. Of(T) = S
  OBVIOUS
<1> HIDE DEF P, Of
<1>4. T \in P
  BY <1>1, <1>2, SetInduction
<1> QED BY <1>3, <1>4 DEF P

(* Bounded natural numbers have a greatest one.                             *)
LEMMA Greatest ==
  ASSUME NEW n \in Nat, NEW T \in SUBSET (0 .. n), T # {}
  PROVE  \E x \in T : \A y \in T : x >= y
<1> DEFINE R == {k \in Nat : n - k \in T}
<1>1. R # {}
  <2>1. PICK x \in T : TRUE
    OBVIOUS
  <2>2. n - (n - x) = x /\ n - x \in Nat
    OBVIOUS
  <2>3. n - x \in R
    BY <2>2
  <2> QED BY <2>3
<1>2. PICK k \in R : \A m \in R : k <= m
  <2> HIDE DEF R
  <2>1. R \in SUBSET Nat
    BY DEF R
  <2> QED BY <1>1, <2>1, Smallest
<1>3. ASSUME NEW y \in T PROVE n - k >= y
  <2>1. n - (n - y) = y /\ n - y \in Nat
    OBVIOUS
  <2>2. n - y \in R
    BY <2>1
  <2> QED BY <1>2, <2>2
<1> QED BY <1>2, <1>3

-----------------------------------------------------------------------------
(* Sums of natural numbers.                                                 *)
LEMMA SumNat ==
  ASSUME NEW f, NEW S, IsFiniteSet(S), \A x \in S : f[x] \in Nat
  PROVE  SumFunctionOnSet(f, S) \in Nat
<1> DEFINE P == {s \in SUBSET S : SumFunctionOnSet(f, s) \in Nat}
<1>1. {} \in P
  BY SumEmpty
<1>2. ASSUME NEW T \in SUBSET S, NEW x \in S \ T, T \in P PROVE T \cup {x} \in P
  <2>1. IsFiniteSet(T) /\ \A y \in T : f[y] \in Int
    BY FS_Subset
  <2>2. x \notin T /\ f[x] \in Int /\ f[x] \in Nat
    OBVIOUS
  <2>3. SumFunctionOnSet(f, T \cup {x}) = f[x] + SumFunctionOnSet(f, T)
    BY <2>1, <2>2, SumAdd
  <2>4. SumFunctionOnSet(f, T) \in Nat
    BY <1>2
  <2>5. SumFunctionOnSet(f, T \cup {x}) \in Nat
    BY <2>2, <2>3, <2>4
  <2> QED BY <2>5
<1> HIDE DEF P
<1>3. S \in P
  BY <1>1, <1>2, SetInduction
<1> QED BY <1>3 DEF P

(* A part of them is no more than all.                                      *)
LEMMA SumMonotone ==
  ASSUME NEW f, NEW S, IsFiniteSet(S), NEW T \in SUBSET S, \A x \in S : f[x] \in Nat
  PROVE  SumFunctionOnSet(f, T) <= SumFunctionOnSet(f, S)
<1> DEFINE U == S \ T
<1>1. IsFiniteSet(T) /\ IsFiniteSet(U) /\ T \cap U = {} /\ T \cup U = S
  BY FS_Subset
<1>2. (\A x \in T \cup U : f[x] \in Int) /\ (\A x \in T : f[x] \in Nat) /\ \A x \in U : f[x] \in Nat
  OBVIOUS
<1> HIDE DEF U
<1>3. SumFunctionOnSet(f, T \cup U) = SumFunctionOnSet(f, T) + SumFunctionOnSet(f, U)
  BY <1>1, <1>2, SumUnion
<1>4. SumFunctionOnSet(f, T) \in Nat /\ SumFunctionOnSet(f, U) \in Nat
  BY <1>1, <1>2, SumNat
<1>5. SumFunctionOnSet(f, S) = SumFunctionOnSet(f, T) + SumFunctionOnSet(f, U)
  BY <1>1, <1>3, Zenon
<1> QED BY <1>4, <1>5

(* Numbers of which none is above a bound.                                  *)
LEMMA SumBounded ==
  ASSUME NEW f, NEW S, IsFiniteSet(S), NEW b \in Nat, \A x \in S : f[x] \in Nat /\ f[x] <= b
  PROVE  SumFunctionOnSet(f, S) <= b * Cardinality(S)
<1> DEFINE P == {s \in SUBSET S : SumFunctionOnSet(f, s) <= b * Cardinality(s)}
<1>1. {} \in P
  <2>1. SumFunctionOnSet(f, {}) = 0 /\ Cardinality({}) = 0
    BY SumEmpty, FS_EmptySet
  <2> QED BY <2>1
<1>2. ASSUME NEW T \in SUBSET S, NEW x \in S \ T, T \in P PROVE T \cup {x} \in P
  <2> DEFINE c == Cardinality(T)
             t == SumFunctionOnSet(f, T)
  <2>1. IsFiniteSet(T) /\ \A y \in T : f[y] \in Nat /\ f[y] \in Int
    BY FS_Subset
  <2>2. x \notin T /\ f[x] \in Nat /\ f[x] \in Int /\ f[x] <= b
    OBVIOUS
  <2>3. SumFunctionOnSet(f, T \cup {x}) = f[x] + t
    BY <2>1, <2>2, SumAdd
  <2>4. t \in Nat
    BY <2>1, SumNat
  <2>5. c \in Nat /\ Cardinality(T \cup {x}) = c + 1
    BY <2>1, <2>2, FS_CardinalityType, FS_AddElement
  <2>6. t <= b * c
    BY <1>2
  <2> HIDE DEF c, t
  <2>7. b * (c + 1) = b * c + b /\ b * c \in Nat
    BY <2>5
  <2>8. f[x] + t <= b * (c + 1)
    <3> DEFINE bc == b * c
               bd == b * (c + 1)
               fx == f[x]
    <3>1. bd = bc + b /\ bc \in Nat /\ t <= bc /\ t \in Nat /\ fx \in Nat /\ fx <= b
      BY <2>2, <2>4, <2>6, <2>7
    <3> HIDE DEF bc, bd, fx
    <3>2. fx + t <= bd
      BY <3>1
    <3> QED BY <3>2 DEF fx, bd
  <2>9. SumFunctionOnSet(f, T \cup {x}) <= b * Cardinality(T \cup {x})
    BY <2>3, <2>5, <2>8
  <2> QED BY <2>9
<1> HIDE DEF P
<1>3. S \in P
  BY <1>1, <1>2, SetInduction
<1> QED BY <1>3 DEF P

(* One number more at the end of a sequence of them.                        *)
LEMMA SumOneMore ==
  ASSUME NEW n \in Nat, NEW f, NEW g, DOMAIN f = 1..n, DOMAIN g = 1..n + 1,
         \A i \in 1..n : f[i] \in Int /\ g[i] = f[i], g[n + 1] \in Int
  PROVE  SumFunction(g) = g[n + 1] + SumFunction(f)
<1>1. IsFiniteSet(1..n) /\ 1..n + 1 = (1..n) \cup {n + 1} /\ n + 1 \notin 1..n
  <2>1. IsFiniteSet(1..n)
    BY FS_Interval
  <2>2. 1..n + 1 = (1..n) \cup {n + 1} /\ n + 1 \notin 1..n
    OBVIOUS
  <2> QED BY <2>1, <2>2
<1>2. SumFunctionOnSet(g, (1..n) \cup {n + 1}) = g[n + 1] + SumFunctionOnSet(g, 1..n)
  BY <1>1, SumAdd
<1>3. SumFunctionOnSet(g, 1..n) = SumFunctionOnSet(f, 1..n)
  BY <1>1, SumSame
<1> QED BY <1>1, <1>2, <1>3 DEF SumFunction

-----------------------------------------------------------------------------
(* Of n places, given by their numbers, there is a k-th for each k up to n. *)
LEMMA PlaceExists ==
  ASSUME NEW n \in Nat, NEW S \in SUBSET (1..n), NEW k \in 1..Cardinality(S)
  PROVE  \E i \in S : Cardinality({j \in S : j <= i}) = k
<1> DEFINE Upto(i) == {j \in S : j <= i}
           T == {i \in Nat : Cardinality(Upto(i)) >= k}
<1>1. IsFiniteSet(S) /\ Cardinality(S) \in Nat
  <2>1. IsFiniteSet(1..n)
    BY FS_Interval
  <2>2. IsFiniteSet(S)
    BY <2>1, FS_Subset
  <2> QED BY <2>2, FS_CardinalityType
<1>a. \A j \in S : j \in Nat /\ 1 <= j /\ j <= n
  OBVIOUS
<1>2. \A i \in Nat : IsFiniteSet(Upto(i)) /\ Cardinality(Upto(i)) \in Nat
  BY <1>1, FS_Subset, FS_CardinalityType
<1>3. Upto(n) = S /\ Upto(0) = {}
  <2>1. \A j \in S : j <= n /\ ~(j <= 0)
    BY <1>a
  <2> QED BY <2>1
<1>4. n \in T /\ Cardinality(Upto(0)) = 0
  BY <1>1, <1>3, FS_EmptySet
<1>5. PICK i \in T : \A m \in T : i <= m
  BY <1>4, Smallest
<1>6. i # 0 /\ i - 1 \in Nat /\ i \in Nat
  BY <1>4, <1>5
<1> DEFINE at == Cardinality(Upto(i))
           before == Cardinality(Upto(i - 1))
<1>7. at \in Nat /\ before \in Nat /\ before < k /\ at >= k
  <2>1. i - 1 \notin T
    <3>1. ~(i <= i - 1)
      BY <1>6
    <3> HIDE DEF T
    <3> QED BY <1>5, <3>1
  <2>2. ~(before >= k)
    BY <1>6, <2>1
  <2>3. at \in Nat /\ before \in Nat
    BY <1>2, <1>6
  <2>4. at >= k
    OBVIOUS
  <2> HIDE DEF at, before
  <2> QED BY <2>2, <2>3, <2>4
<1>8. \A j \in S : j \in Nat /\ (j <= i <=> j <= i - 1 \/ j = i)
  BY <1>6, <1>a
<1>9. i \in S
  <2> SUFFICES ASSUME i \notin S PROVE FALSE
    OBVIOUS
  <2>1. Upto(i) = Upto(i - 1)
    BY <1>8
  <2>2. at = before
    BY <2>1
  <2> HIDE DEF at, before
  <2> QED BY <1>7, <2>2
<1>10. at = k
  <2>1. Upto(i) = Upto(i - 1) \cup {i} /\ i \notin Upto(i - 1)
    <3>1. i <= i /\ ~(i <= i - 1)
      BY <1>6
    <3>2. \A j : j \in Upto(i) <=> j \in S /\ (j <= i - 1 \/ j = i)
      BY <1>8
    <3>3. \A j : j \in Upto(i - 1) <=> j \in S /\ j <= i - 1
      OBVIOUS
    <3> HIDE DEF Upto
    <3> QED BY <1>9, <3>1, <3>2, <3>3
  <2>2. at = before + 1
    BY <1>2, <1>6, <2>1, FS_AddElement
  <2> HIDE DEF at, before
  <2> QED BY <1>7, <2>2
<1> QED BY <1>9, <1>10

-----------------------------------------------------------------------------
(* Flattening.  FlattenSeq joins one sequence after the other: a table of   *)
(* what it has joined so far satisfies one step at each.                    *)

FlattenStep(f, ss, i) == IF i = 1 THEN ss[i] ELSE f[i - 1] \o ss[i]

Flattens(f, ss) == f = [i \in 1 .. Len(ss) |-> FlattenStep(f, ss, i)]

LEMMA FlattenIsTabulated ==
  ASSUME NEW ss, Len(ss) # 0
  PROVE  FlattenSeq(ss) = (CHOOSE f : Flattens(f, ss))[Len(ss)]
BY DEF FlattenSeq, Flattens, FlattenStep

LEMMA FlattenTable ==
  ASSUME NEW ss, Len(ss) \in Nat
  PROVE  \E f : Flattens(f, ss)
<1> DEFINE N == Len(ss)
<1> DEFINE Upto(f, n) == \A i \in 1 .. N : i <= n => f[i] = FlattenStep(f, ss, i)
<1> DEFINE P == {n \in Nat : \E f : Upto(f, n)}
<1>1. 0 \in P
  <2>1. Upto(<<>>, 0)
    OBVIOUS
  <2> QED BY <2>1
<1>2. ASSUME NEW n \in Nat, n \in P PROVE n + 1 \in P
  <2>1. PICK f : Upto(f, n)
    BY <1>2
  <2> DEFINE g == [i \in 1 .. N |-> IF i <= n THEN f[i] ELSE FlattenStep(f, ss, i)]
  <2>2. ASSUME NEW i \in 1 .. N, i <= n + 1 PROVE g[i] = FlattenStep(g, ss, i)
    <3>1. g[i] = FlattenStep(f, ss, i)
      BY <2>1
    <3>2. i # 1 => g[i - 1] = f[i - 1]
      BY <2>2
    <3> QED BY <3>1, <3>2 DEF FlattenStep
  <2>3. Upto(g, n + 1)
    BY <2>2
  <2> HIDE DEF g
  <2> QED BY <2>3
<1> HIDE DEF P
<1>3. N \in P
  BY <1>1, <1>2, Induction
<1>4. PICK f : Upto(f, N)
  BY <1>3 DEF P
<1> DEFINE g == [i \in 1 .. N |-> f[i]]
<1>5. ASSUME NEW i \in 1 .. N PROVE g[i] = FlattenStep(g, ss, i)
  <2>1. f[i] = FlattenStep(f, ss, i)
    BY <1>4
  <2>2. i # 1 => g[i - 1] = f[i - 1]
    OBVIOUS
  <2> QED BY <2>1, <2>2 DEF FlattenStep
<1>6. g = [i \in 1 .. N |-> FlattenStep(g, ss, i)]
  <2> HIDE DEF N
  <2> QED BY <1>5
<1> HIDE DEF g
<1> QED BY <1>6 DEF Flattens

(* The steps of one such table.                                             *)
LEMMA FlattenBy ==
  ASSUME NEW ss, Len(ss) \in Nat \ {0}
  PROVE  \E f : /\ FlattenSeq(ss) = f[Len(ss)]
                /\ \A i \in 1 .. Len(ss) : f[i] = FlattenStep(f, ss, i)
<1> DEFINE f == CHOOSE f : Flattens(f, ss)
<1>1. Flattens(f, ss)
  BY FlattenTable
<1>2. FlattenSeq(ss) = f[Len(ss)]
  BY FlattenIsTabulated
<1>3. \A i \in 1 .. Len(ss) : f[i] = FlattenStep(f, ss, i)
  <2> HIDE DEF f
  <2> QED BY <1>1 DEF Flattens
<1> HIDE DEF f
<1> QED BY <1>2, <1>3

LEMMA FlattenEmpty == FlattenSeq(<<>>) = <<>>
BY DEF FlattenSeq

(* One sequence more.                                                       *)
LEMMA FlattenMore ==
  ASSUME NEW n \in Nat, NEW ss, Len(ss) = n + 1, NEW tt, Len(tt) = n,
         \A i \in 1 .. n : tt[i] = ss[i]
  PROVE  FlattenSeq(ss) = IF n = 0 THEN ss[1] ELSE FlattenSeq(tt) \o ss[n + 1]
<1>1. PICK f : /\ FlattenSeq(ss) = f[n + 1]
               /\ \A i \in 1 .. n + 1 : f[i] = FlattenStep(f, ss, i)
  BY FlattenBy
<1>2. CASE n = 0
  BY <1>1, <1>2 DEF FlattenStep
<1>3. CASE n # 0
  <2>1. PICK g : /\ FlattenSeq(tt) = g[n]
                 /\ \A i \in 1 .. n : g[i] = FlattenStep(g, tt, i)
    BY <1>3, FlattenBy
  <2> DEFINE P == {k \in Nat : k \in 1 .. n => f[k] = g[k]}
  <2>2. 0 \in P
    OBVIOUS
  <2>3. ASSUME NEW k \in Nat, k \in P PROVE k + 1 \in P
    <3> SUFFICES ASSUME k + 1 \in 1 .. n PROVE f[k + 1] = g[k + 1]
      OBVIOUS
    <3>1. f[k + 1] = IF k + 1 = 1 THEN ss[k + 1] ELSE f[k] \o ss[k + 1]
      BY <1>1 DEF FlattenStep
    <3>2. g[k + 1] = IF k + 1 = 1 THEN tt[k + 1] ELSE g[k] \o tt[k + 1]
      BY <2>1 DEF FlattenStep
    <3>3. k + 1 # 1 => f[k] = g[k]
      BY <2>3
    <3> QED BY <3>1, <3>2, <3>3
  <2> HIDE DEF P
  <2>4. n \in P
    BY <2>2, <2>3, Induction
  <2>5. f[n] = g[n]
    BY <1>3, <2>4 DEF P
  <2>6. f[n + 1] = f[n] \o ss[n + 1]
    <3>1. n + 1 \in 1 .. n + 1 /\ n + 1 # 1 /\ (n + 1) - 1 = n
      BY <1>3
    <3> QED BY <1>1, <3>1 DEF FlattenStep
  <2> QED BY <1>1, <1>3, <2>1, <2>5, <2>6
<1> QED BY <1>2, <1>3
=============================================================================
