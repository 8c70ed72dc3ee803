------------------------------ MODULE DataLemmas ------------------------------
(***************************************************************************)
(* Facts about numbers, tables that grow, finite sets and the sums over    *)
(* them, which the proofs of the components cite. A table whose rows are   *)
(* numbered is a sequence.                                                 *)
(***************************************************************************)
EXTENDS Integers, Sequences, FiniteSets, Functions, FiniteSetTheorems, SequenceTheorems, TLAPS

(* Every set of natural numbers but the empty one has a least element: the *)
(* intervals from zero to its members have one by inclusion.               *)
LEMMA Least ==
  ASSUME NEW T \in SUBSET Nat, T # {}
  PROVE  \E x \in T : \A y \in T : x <= y
<1> DEFINE Up == {0..n : n \in T}
<1>1. Up \subseteq FiniteSubsetsOf(Nat)
  <2>1. \A n \in T : 0..n \in FiniteSubsetsOf(Nat)
    BY FS_Interval DEF FiniteSubsetsOf
  <2> QED
    BY <2>1
<1>2. \E U \in Up : \A V \in Up : ~(<<V, U>> \in StrictSubsetOrdering(Nat))
  <2>1. IsWellFoundedOn(StrictSubsetOrdering(Nat), FiniteSubsetsOf(Nat))
    BY FS_StrictSubsetOrderingWellFounded
  <2>2. Up # {}
    OBVIOUS
  <2> HIDE DEF Up
  <2> QED
    BY <1>1, <2>1, <2>2, WFMin
<1>3. PICK x \in T : \A y \in T : ~(<<0..y, 0..x>> \in StrictSubsetOrdering(Nat))
  BY <1>2
<1>4. ASSUME NEW y \in T, y < x PROVE FALSE
  <2>1. 0..y \in SUBSET Nat /\ 0..x \in SUBSET Nat
    OBVIOUS
  <2>2. x \in 0..x /\ x \notin 0..y
    BY <1>4
  <2>3. 0..y \subseteq 0..x
    BY <1>4
  <2> QED
    BY <1>3, <2>1, <2>2, <2>3 DEF StrictSubsetOrdering
<1> QED
  BY <1>4

(* What holds of zero, and of every number after one of which it holds, up *)
(* to a bound, holds of all numbers up to the bound.                       *)
LEMMA UpTo ==
  ASSUME NEW n \in Nat, NEW T, 0 \in T, \A i \in 0..n : i < n /\ i \in T => i + 1 \in T
  PROVE  0..n \subseteq T
<1> DEFINE missing == {i \in 0..n : i \notin T}
<1>1. ASSUME missing # {} PROVE FALSE
  <2>1. missing \in SUBSET Nat
    OBVIOUS
  <2> HIDE DEF missing
  <2>2. PICK x \in missing : \A y \in missing : x <= y
    BY <1>1, <2>1, Least
  <2>3. x \in 0..n /\ x \notin T
    BY <2>2 DEF missing
  <2>4. x - 1 \in 0..n /\ x - 1 < n
    BY <2>3
  <2>5. x - 1 \notin missing
    BY <2>2, <2>3
  <2>6. x - 1 \in T
    BY <2>4, <2>5 DEF missing
  <2>7. (x - 1) + 1 \in T
    BY <2>4, <2>6
  <2>8. QED
    BY <2>3, <2>7
<1>2. QED
  BY <1>1

(* Every set of numbers up to a bound but the empty one has a largest one. *)
LEMMA Largest ==
  ASSUME NEW n \in Nat, NEW T \in SUBSET (0..n), T # {}
  PROVE  \E x \in T : \A y \in T : x >= y
<1> DEFINE S == {n - x : x \in T}
<1>1. S \in SUBSET Nat /\ S # {}
  <2>1. \A x \in T : n - x \in Nat
    OBVIOUS
  <2>2. PICK x \in T : TRUE
    OBVIOUS
  <2>3. n - x \in S
    OBVIOUS
  <2>4. QED
    BY <2>1, <2>3, Zenon
<1>2. PICK m \in S : \A y \in S : m <= y
  <2> HIDE DEF S
  <2>1. QED
    BY <1>1, Least
<1>3. PICK x \in T : m = n - x
  OBVIOUS
<1>4. \A y \in T : n - x <= n - y
  BY <1>2, <1>3
<1>5. QED
  BY <1>4

(* A table with one row more.                                              *)
LEMMA AppendRow ==
  ASSUME NEW S, NEW seq \in Seq(S), NEW row \in S
  PROVE  /\ Append(seq, row) \in Seq(S) /\ Len(Append(seq, row)) = Len(seq) + 1 /\ Len(seq) \in Nat
         /\ DOMAIN seq = 1..Len(seq) /\ DOMAIN Append(seq, row) = 1..Len(seq) + 1
         /\ \A i \in 1..Len(seq) : Append(seq, row)[i] = seq[i]
         /\ Append(seq, row)[Len(seq) + 1] = row
  BY AppendProperties, LenProperties

(* A table of the same rows, some of them rewritten.                       *)
LEMMA RewrittenRows ==
  ASSUME NEW S, NEW seq \in Seq(S), NEW new, DOMAIN new = DOMAIN seq, new = [i \in DOMAIN new |-> new[i]],
         \A i \in DOMAIN seq : new[i] \in S
  PROVE  new \in Seq(S) /\ Len(new) = Len(seq) /\ DOMAIN seq = 1..Len(seq)
<1>1. DOMAIN seq = 1..Len(seq) /\ Len(seq) \in Nat
  BY LenProperties
<1>2. new \in [1..Len(seq) -> S]
  BY <1>1
<1>3. new \in Seq(S)
  BY <1>1, <1>2, SeqDef
<1>4. DOMAIN new = 1..Len(new) /\ Len(new) \in Nat
  BY <1>3, LenProperties
<1>5. QED
  BY <1>1, <1>3, <1>4

(* Sets of which no two members differ.                                    *)
LEMMA AtMostOneMember ==
  ASSUME NEW S, IsFiniteSet(S)
  PROVE  (\A x, y \in S : x = y) <=> Cardinality(S) <= 1
<1>1. Cardinality(S) \in Nat
  BY FS_CardinalityType
<1>2. ASSUME \A x, y \in S : x = y PROVE Cardinality(S) <= 1
  <2>1. CASE S = {}
    BY <2>1, FS_EmptySet
  <2>2. CASE S # {}
    <3>1. PICK x \in S : TRUE
      BY <2>2
    <3>2. S = {x}
      BY <1>2, <3>1
    <3>3. QED
      BY <3>2, FS_Singleton
  <2>3. QED
    BY <2>1, <2>2
<1>3. ASSUME Cardinality(S) <= 1 PROVE \A x, y \in S : x = y
  <2>1. Cardinality(S) = 0 \/ Cardinality(S) = 1
    BY <1>1, <1>3
  <2>2. S = {} \/ \E x : S = {x}
    BY <2>1, FS_EmptySet, FS_Singleton
  <2>3. QED
    BY <2>2
<1>4. QED
  BY <1>2, <1>3

(* The part of a table's numbers is finite.                                *)
LEMMA FiniteRows ==
  ASSUME NEW S, NEW seq \in Seq(S), NEW T \in SUBSET DOMAIN seq
  PROVE  IsFiniteSet(T)
<1>1. DOMAIN seq = 1..Len(seq) /\ Len(seq) \in Int
  BY LenProperties
<1>2. IsFiniteSet(1..Len(seq))
  BY <1>1, FS_Interval
<1>3. QED
  BY <1>1, <1>2, FS_Subset

-----------------------------------------------------------------------------
(* Sums over the elements of a set.                                       *)

(* How a sum over a set is computed, one chosen element after the other.   *)
Chosen(s) == CHOOSE x \in s : TRUE
Adding(f, g, s) == IF s = {} THEN 0 ELSE f[Chosen(s)] + g[s \ {Chosen(s)}]
Computes(g, f, S) == g \in [SUBSET S -> Int] /\ \A s \in SUBSET S : g[s] = Adding(f, g, s)

(* What is left when an element is chosen.                                 *)
LEMMA ChosenLeaves ==
  ASSUME NEW s, IsFiniteSet(s), s # {}
  PROVE  /\ Chosen(s) \in s /\ IsFiniteSet(s \ {Chosen(s)})
         /\ Cardinality(s) \in Nat /\ Cardinality(s \ {Chosen(s)}) = Cardinality(s) - 1
<1>1. Chosen(s) \in s
  BY DEF Chosen
<1>2. QED
  BY <1>1, FS_RemoveElement, FS_CardinalityType

(* Every sum over a finite set can be computed.                            *)
LEMMA SumComputable ==
  ASSUME NEW D, NEW f \in [D -> Int], NEW S \in SUBSET D, IsFiniteSet(S)
  PROVE  \E g : Computes(g, f, S)
<1> DEFINE Upto(n) == \E g \in [SUBSET S -> Int] :
                        \A s \in SUBSET S : Cardinality(s) <= n => g[s] = Adding(f, g, s)
           T == {n \in 0..Cardinality(S) : Upto(n)}
<1>1. Cardinality(S) \in Nat /\ \A s \in SUBSET S : IsFiniteSet(s) /\ Cardinality(s) \in Nat /\ Cardinality(s) <= Cardinality(S)
  BY FS_Subset, FS_CardinalityType
<1>2. 0 \in T
  <2> DEFINE g == [s \in SUBSET S |-> 0]
  <2>1. g \in [SUBSET S -> Int]
    OBVIOUS
  <2>2. ASSUME NEW s \in SUBSET S, Cardinality(s) <= 0 PROVE g[s] = Adding(f, g, s)
    <3>1. s = {}
      BY <1>1, <2>2, FS_EmptySet
    <3>2. QED
      BY <3>1 DEF Adding
  <2>3. QED
    BY <1>1, <2>1, <2>2
<1>3. ASSUME NEW n \in 0..Cardinality(S), n < Cardinality(S), n \in T PROVE n + 1 \in T
  <2>1. PICK g \in [SUBSET S -> Int] : \A s \in SUBSET S : Cardinality(s) <= n => g[s] = Adding(f, g, s)
    BY <1>3
  <2> DEFINE h == [s \in SUBSET S |-> IF Cardinality(s) <= n THEN g[s] ELSE Adding(f, g, s)]
  <2>2. ASSUME NEW s \in SUBSET S, s # {}
        PROVE  /\ f[Chosen(s)] \in Int /\ s \ {Chosen(s)} \in SUBSET S
               /\ Cardinality(s \ {Chosen(s)}) = Cardinality(s) - 1
    <3>1. Chosen(s) \in s /\ Cardinality(s \ {Chosen(s)}) = Cardinality(s) - 1
      BY <1>1, <2>2, ChosenLeaves
    <3>2. QED
      BY <3>1
  <2>3. \A s \in SUBSET S : Adding(f, g, s) \in Int
    BY <2>2 DEF Adding
  <2>4. h \in [SUBSET S -> Int]
    BY <2>3
  <2>5. ASSUME NEW s \in SUBSET S, Cardinality(s) <= n + 1 PROVE h[s] = Adding(f, h, s)
    <3>1. h[s] = Adding(f, g, s)
      BY <2>1
    <3>2. CASE s = {}
      BY <3>1, <3>2 DEF Adding
    <3>3. CASE s # {}
      <4>1. s \ {Chosen(s)} \in SUBSET S /\ Cardinality(s \ {Chosen(s)}) <= n
        BY <1>1, <2>2, <2>5, <3>3
      <4>2. h[s \ {Chosen(s)}] = g[s \ {Chosen(s)}]
        BY <4>1
      <4> HIDE DEF h
      <4>3. QED
        BY <3>1, <3>3, <4>2 DEF Adding
    <3>4. QED
      BY <3>2, <3>3
  <2> HIDE DEF h
  <2>6. Upto(n + 1)
    BY <2>4, <2>5
  <2>7. QED
    BY <1>1, <1>3, <2>6
<1> HIDE DEF T
<1>4. Cardinality(S) \in T
  <2>1. 0..Cardinality(S) \subseteq T
    BY <1>1, <1>2, <1>3, UpTo
  <2>2. QED
    BY <1>1, <2>1
<1>5. QED
  BY <1>1, <1>4 DEF T, Computes

(* All that compute the sums of the subsets of two sets agree on both.     *)
LEMMA SumDetermined ==
  ASSUME NEW D, NEW f \in [D -> Int], NEW S \in SUBSET D, NEW R \in SUBSET S, IsFiniteSet(S),
         NEW g, Computes(g, f, S), NEW h,
         \A s \in SUBSET R : h[s] = Adding(f, h, s)
  PROVE  \A s \in SUBSET R : g[s] = h[s]
<1> DEFINE T == {n \in 0..Cardinality(R) : \A s \in SUBSET R : Cardinality(s) <= n => g[s] = h[s]}
<1>1. Cardinality(R) \in Nat /\ \A s \in SUBSET R : IsFiniteSet(s) /\ Cardinality(s) \in Nat /\ Cardinality(s) <= Cardinality(R)
  BY FS_Subset, FS_CardinalityType
<1>2. 0 \in T
  <2>1. ASSUME NEW s \in SUBSET R, Cardinality(s) <= 0 PROVE g[s] = h[s]
    <3>1. s = {}
      BY <1>1, <2>1, FS_EmptySet
    <3>2. QED
      BY <3>1 DEF Adding, Computes
  <2>2. QED
    BY <1>1, <2>1
<1>3. ASSUME NEW n \in 0..Cardinality(R), n < Cardinality(R), n \in T PROVE n + 1 \in T
  <2>1. ASSUME NEW s \in SUBSET R, Cardinality(s) <= n + 1 PROVE g[s] = h[s]
    <3>1. CASE s = {}
      BY <3>1 DEF Adding, Computes
    <3>2. CASE s # {}
      <4>1. /\ s \ {Chosen(s)} \in SUBSET R /\ Cardinality(s \ {Chosen(s)}) <= n
        <5>1. Cardinality(s \ {Chosen(s)}) = Cardinality(s) - 1
          BY <1>1, <3>2, ChosenLeaves
        <5>2. QED
          BY <1>1, <2>1, <5>1
      <4>2. g[s \ {Chosen(s)}] = h[s \ {Chosen(s)}]
        BY <1>3, <4>1
      <4>3. QED
        BY <3>2, <4>2 DEF Adding, Computes
    <3>3. QED
      BY <3>1, <3>2
  <2>2. QED
    BY <1>1, <1>3, <2>1
<1> HIDE DEF T
<1>4. Cardinality(R) \in T
  <2>1. 0..Cardinality(R) \subseteq T
    BY <1>1, <1>2, <1>3, UpTo
  <2>2. QED
    BY <1>1, <2>1
<1>5. QED
  BY <1>1, <1>4 DEF T

(* A sum is what any computation of the sums of subsets says.              *)
LEMMA SumIsComputed ==
  ASSUME NEW D, NEW f \in [D -> Int], NEW S \in SUBSET D, IsFiniteSet(S), NEW R \in SUBSET S,
         NEW g, Computes(g, f, S)
  PROVE  SumFunctionOnSet(f, R) = g[R]
<1> DEFINE step(it) == [s \in SUBSET R |->
             IF s = {} THEN 0 ELSE f[CHOOSE x \in s : TRUE] + it[s \ {CHOOSE x \in s : TRUE}]]
           it == CHOOSE iter : iter = step(iter)
<1>1. SumFunctionOnSet(f, R) = it[R]
  BY DEF SumFunctionOnSet, FoldFunctionOnSet, MapThenFoldSet
<1>2. IsFiniteSet(R)
  BY FS_Subset
<1>3. PICK h : Computes(h, f, R)
  BY <1>2, SumComputable
<1>4. h = step(h)
  BY <1>3 DEF Computes, Adding, Chosen
<1>5. it = step(it)
  BY <1>4
<1>6. \A s \in SUBSET R : it[s] = Adding(f, it, s)
  <2> HIDE DEF it
  <2>1. QED
    BY <1>5 DEF Adding, Chosen
<1> HIDE DEF it
<1>7. QED
  BY <1>1, <1>6, SumDetermined

(* The sum over no element, and over one element more or less.             *)
LEMMA SumOfNone ==
  ASSUME NEW D, NEW f \in [D -> Int]
  PROVE  SumFunctionOnSet(f, {}) = 0
<1>1. IsFiniteSet({}) /\ {} \in SUBSET D
  BY FS_EmptySet
<1>2. PICK g : Computes(g, f, {})
  BY <1>1, SumComputable
<1>3. SumFunctionOnSet(f, {}) = g[{}]
  BY <1>1, <1>2, SumIsComputed
<1>4. QED
  BY <1>2, <1>3 DEF Computes, Adding

(* Any element can be taken out of a sum first.                            *)
LEMMA SumWithout ==
  ASSUME NEW D, NEW f \in [D -> Int], NEW S \in SUBSET D, IsFiniteSet(S), NEW x \in S
  PROVE  SumFunctionOnSet(f, S) \in Int /\ SumFunctionOnSet(f, S) = f[x] + SumFunctionOnSet(f, S \ {x})
<1>1. PICK g : Computes(g, f, S)
  BY SumComputable
<1> DEFINE Splits(n) == \A s \in SUBSET S : Cardinality(s) <= n => \A y \in s : g[s] = f[y] + g[s \ {y}]
           T == {n \in 0..Cardinality(S) : Splits(n)}
<1>2. Cardinality(S) \in Nat /\ \A s \in SUBSET S : IsFiniteSet(s) /\ Cardinality(s) \in Nat /\ Cardinality(s) <= Cardinality(S)
  BY FS_Subset, FS_CardinalityType
<1>3. /\ \A s \in SUBSET S : g[s] \in Int
      /\ \A s \in SUBSET S : s # {} => g[s] = f[Chosen(s)] + g[s \ {Chosen(s)}]
      /\ \A y \in S : f[y] \in Int
  BY <1>1 DEF Computes, Adding
<1>4. 0 \in T
  <2>1. ASSUME NEW s \in SUBSET S, Cardinality(s) <= 0 PROVE s = {}
    BY <1>2, <2>1, FS_EmptySet
  <2>2. Splits(0)
    BY <2>1
  <2>3. QED
    BY <1>2, <2>2
<1>5. ASSUME NEW n \in 0..Cardinality(S), n < Cardinality(S), n \in T PROVE n + 1 \in T
  <2>1. ASSUME NEW s \in SUBSET S, Cardinality(s) <= n + 1, NEW y \in s PROVE g[s] = f[y] + g[s \ {y}]
    <3> DEFINE c == Chosen(s)
    <3>1. c \in s /\ g[s] = f[c] + g[s \ {c}]
      BY <1>2, <1>3, ChosenLeaves
    <3>2. CASE y = c
      BY <3>1, <3>2
    <3>3. CASE y # c
      <4>1. Cardinality(s \ {c}) = Cardinality(s) - 1 /\ Cardinality(s \ {y}) = Cardinality(s) - 1
        <5>1. /\ Cardinality(s \ {c}) = IF c \in s THEN Cardinality(s) - 1 ELSE Cardinality(s)
              /\ Cardinality(s \ {y}) = IF y \in s THEN Cardinality(s) - 1 ELSE Cardinality(s)
          BY <1>2, FS_RemoveElement
        <5>2. QED
          BY <3>1, <5>1
      <4> DEFINE a == s \ {c}
                 b == s \ {y}
      <4>2. a \in SUBSET S /\ b \in SUBSET S /\ Cardinality(a) <= n /\ Cardinality(b) <= n /\ y \in a /\ c \in b
        BY <1>2, <2>1, <3>1, <3>3, <4>1
      <4>3. a \ {y} = b \ {c} /\ a \ {y} \in SUBSET S
        OBVIOUS
      <4> HIDE DEF a, b
      <4>4. g[a] = f[y] + g[a \ {y}] /\ g[b] = f[c] + g[b \ {c}]
        BY <1>5, <4>2
      <4>5. g[a] \in Int /\ g[b] \in Int /\ g[a \ {y}] \in Int /\ f[c] \in Int /\ f[y] \in Int
        BY <1>3, <2>1, <3>1, <4>2, <4>3
      <4>6. g[s] = f[c] + g[a]
        BY <3>1 DEF a
      <4>7. g[a \ {y}] = g[b \ {c}]
        BY <4>3
      <4>8. g[s] = f[y] + g[b]
        BY <4>4, <4>5, <4>6, <4>7
      <4>9. QED
        BY <4>8 DEF b
    <3>4. QED
      BY <3>2, <3>3
  <2>2. Splits(n + 1)
    BY <2>1
  <2>3. n + 1 \in 0..Cardinality(S)
    BY <1>2, <1>5
  <2> HIDE DEF Splits
  <2>4. QED
    BY <2>2, <2>3
<1> HIDE DEF T
<1>6. Cardinality(S) \in T
  <2>1. 0..Cardinality(S) \subseteq T
    BY <1>2, <1>4, <1>5, UpTo
  <2>2. QED
    BY <1>2, <2>1
<1>7. g[S] = f[x] + g[S \ {x}]
  <2>1. Splits(Cardinality(S))
    BY <1>6 DEF T
  <2> QED
    BY <1>2, <2>1
<1>8. SumFunctionOnSet(f, S) = g[S] /\ SumFunctionOnSet(f, S \ {x}) = g[S \ {x}]
  BY <1>1, SumIsComputed
<1>9. QED
  BY <1>3, <1>7, <1>8

(* The steps of a walk sum up to the way from its start to its end.        *)
LEMMA SumOfSteps ==
  ASSUME NEW n \in Nat \ {0}, NEW at \in [1..n -> Int]
  PROVE  SumFunctionOnSet([i \in 1..n - 1 |-> at[i + 1] - at[i]], 1..n - 1) = at[n] - at[1]
<1> DEFINE step == [i \in 1..n - 1 |-> at[i + 1] - at[i]]
           T == {k \in 0..n - 1 : SumFunctionOnSet(step, 1..k) = at[k + 1] - at[1]}
<1>1. step \in [1..n - 1 -> Int]
  OBVIOUS
<1>2. \A i \in 1..n - 1 : step[i] = at[i + 1] - at[i]
  OBVIOUS
<1>3. \A k \in 1..n : at[k] \in Int
  OBVIOUS
<1> HIDE DEF step
<1>4. 0 \in T
  <2>1. 1..0 = {}
    OBVIOUS
  <2>2. SumFunctionOnSet(step, 1..0) = 0
    BY <1>1, <2>1, SumOfNone
  <2>3. at[0 + 1] - at[1] = 0
    BY <1>3
  <2>4. QED
    BY <2>2, <2>3
<1>5. ASSUME NEW k \in 0..n - 1, k < n - 1, k \in T PROVE k + 1 \in T
  <2>1. 1..k + 1 \in SUBSET (1..n - 1) /\ k + 1 \in 1..k + 1 /\ (1..k + 1) \ {k + 1} = 1..k
    BY <1>5
  <2>2. IsFiniteSet(1..k + 1)
    BY FS_Interval
  <2>3. SumFunctionOnSet(step, 1..k + 1) = step[k + 1] + SumFunctionOnSet(step, 1..k)
    <3> DEFINE S == 1..k + 1
    <3>1. S \in SUBSET (1..n - 1) /\ k + 1 \in S /\ IsFiniteSet(S) /\ S \ {k + 1} = 1..k
      BY <2>1, <2>2
    <3> HIDE DEF S
    <3>2. SumFunctionOnSet(step, S) = step[k + 1] + SumFunctionOnSet(step, S \ {k + 1})
      BY <1>1, <3>1, SumWithout
    <3>3. QED
      BY <3>1, <3>2 DEF S
  <2>4. SumFunctionOnSet(step, 1..k) = at[k + 1] - at[1]
    BY <1>5
  <2>5. step[k + 1] = at[(k + 1) + 1] - at[k + 1]
    BY <1>2, <1>5
  <2>6. at[k + 1] \in Int /\ at[(k + 1) + 1] \in Int /\ at[1] \in Int
    BY <1>3, <1>5
  <2>7. SumFunctionOnSet(step, 1..k + 1) = at[(k + 1) + 1] - at[1]
    BY <2>3, <2>4, <2>5, <2>6
  <2>8. QED
    BY <1>5, <2>7
<1> HIDE DEF T
<1>6. n - 1 \in T
  <2>1. 0..n - 1 \subseteq T
    <3>1. n - 1 \in Nat
      OBVIOUS
    <3>2. QED
      BY <1>4, <1>5, <3>1, UpTo
  <2>2. QED
    BY <2>1
<1>7. SumFunctionOnSet(step, 1..n - 1) = at[(n - 1) + 1] - at[1]
  BY <1>6 DEF T
<1>8. QED
  BY <1>7 DEF step
=============================================================================
