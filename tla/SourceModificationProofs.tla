---------------------- MODULE SourceModificationProofs ----------------------
(***************************************************************************)
(* Edits of a source file, for every file and any number of edits: as long *)
(* as callers add lines from the top to the bottom, lineOffsetMap leads to *)
(* every line of the file, texts that are added stay in place, and what is *)
(* deleted is what callers have named.                                     *)
(***************************************************************************)
EXTENDS SourceModification, FiniteSetTheorems, SequenceTheorems, WellFoundedInduction,
        TLAPS

-----------------------------------------------------------------------------
(* Induction, for sets of numbers.                                         *)

LEMMA Induction ==
    ASSUME NEW S, 0 \in S, \A n \in Nat : n \in S => n + 1 \in S
    PROVE  \A n \in Nat : n \in S
<1> SUFFICES ASSUME Nat \ S # {}
             PROVE  FALSE
    OBVIOUS
<1>1. \E n \in Nat \ S : \A m \in Nat \ S : ~ (m < n)
    <2>1. \E n \in Nat \ S : \A m \in Nat \ S : ~ (<<m, n>> \in OpToRel(<, Nat))
        BY NatLessThanWellFounded, WFMin
    <2> QED
        BY <2>1, Zenon DEF OpToRel
<1>2. PICK n \in Nat \ S : \A m \in Nat \ S : ~ (m < n)
    BY <1>1
<1>3. n # 0 /\ n - 1 \in Nat
    BY <1>2
<1>4. n - 1 \in S
    BY <1>2, <1>3
<1>5. (n - 1) + 1 \in S
    BY <1>3, <1>4
<1> QED
    BY <1>2, <1>3, <1>5

-----------------------------------------------------------------------------
(* The sum of a function over a set.                                       *)

Chosen(s) == CHOOSE x \in s : TRUE

(* What it[s] is computed from: one element is chosen, then the others.    *)
SumStep(f, it, s) == IF s = {} THEN 0 ELSE f[Chosen(s)] + it[s \ {Chosen(s)}]

IsSum(f, S, it) == it = [s \in SUBSET S |-> SumStep(f, it, s)]

LEMMA SumIs ==
    ASSUME NEW f, NEW S
    PROVE  SumFunctionOnSet(f, S) = (CHOOSE it : IsSum(f, S, it))[S]
BY DEF SumFunctionOnSet, FoldFunctionOnSet, MapThenFoldSet, IsSum, SumStep, Chosen

LEMMA OneLess ==
    ASSUME NEW S, IsFiniteSet(S), NEW y \in S
    PROVE  /\ IsFiniteSet(S \ {y})
           /\ Cardinality(S \ {y}) + 1 = Cardinality(S)
           /\ Cardinality(S) \in Nat /\ Cardinality(S \ {y}) \in Nat
<1>1. IsFiniteSet(S \ {y}) /\ Cardinality(S \ {y}) = Cardinality(S) - 1
    BY FS_RemoveElement
<1> QED
    BY <1>1, FS_CardinalityType

LEMMA ChosenLess ==
    ASSUME NEW S, IsFiniteSet(S), S # {}
    PROVE  /\ Chosen(S) \in S
           /\ IsFiniteSet(S \ {Chosen(S)})
           /\ Cardinality(S \ {Chosen(S)}) + 1 = Cardinality(S)
           /\ Cardinality(S) \in Nat /\ Cardinality(S \ {Chosen(S)}) \in Nat
<1>1. Chosen(S) \in S
    BY DEF Chosen
<1> QED
    BY <1>1, OneLess

(* Sets of up to n elements can be summed up, then those of n + 1.         *)
LEMMA SumExists ==
    ASSUME NEW f, NEW S, IsFiniteSet(S)
    PROVE  \E it : IsSum(f, S, it)
<1> DEFINE Small(n) == {s \in SUBSET S : Cardinality(s) <= n}
           Sums(n, it) == /\ it = [s \in SUBSET S |-> it[s]]
                          /\ \A s \in Small(n) : it[s] = SumStep(f, it, s)
           N == {n \in Nat : \E it : Sums(n, it)}
<1>1. \A s \in SUBSET S : IsFiniteSet(s) /\ Cardinality(s) \in Nat
    BY FS_Subset, FS_CardinalityType
<1>2. 0 \in N
    <2> DEFINE it == [s \in SUBSET S |-> 0]
    <2>1. \A s \in Small(0) : s = {}
        BY <1>1, FS_EmptySet
    <2>2. \A s \in Small(0) : it[s] = SumStep(f, it, s)
        BY <2>1 DEF SumStep
    <2>3. it = [s \in SUBSET S |-> it[s]]
        OBVIOUS
    <2> HIDE DEF it
    <2> QED
        BY <2>2, <2>3
<1>3. ASSUME NEW n \in Nat, n \in N
      PROVE  n + 1 \in N
    <2>1. PICK it : Sums(n, it)
        BY <1>3
    <2> DEFINE next == [s \in SUBSET S |-> SumStep(f, it, s)]
    <2>2. \A s \in Small(n) : next[s] = it[s]
        BY <2>1
    <2>3. ASSUME NEW s \in Small(n + 1)
          PROVE  next[s] = SumStep(f, next, s)
        <3>1. CASE s = {}
            BY <3>1 DEF SumStep
        <3>2. CASE s # {}
            <4>1. s \ {Chosen(s)} \in Small(n)
                BY <1>1, <3>2, ChosenLess
            <4>2. next[s \ {Chosen(s)}] = it[s \ {Chosen(s)}]
                BY <2>2, <4>1
            <4> QED
                BY <3>2, <4>2 DEF SumStep
        <3> QED
            BY <3>1, <3>2
    <2>4. next = [s \in SUBSET S |-> next[s]]
        OBVIOUS
    <2> HIDE DEF next
    <2>5. \E jt : Sums(n + 1, jt)
        BY <2>3, <2>4
    <2> HIDE DEF Sums
    <2> QED
        BY <2>5
<1> HIDE DEF N
<1>4. Cardinality(S) \in N
    <2>1. \A n \in Nat : n \in N
        BY <1>2, <1>3, Induction
    <2> QED
        BY <2>1, <1>1
<1> USE DEF N
<1>5. PICK it : Sums(Cardinality(S), it)
    BY <1>4
<1>6. \A s \in SUBSET S : s \in Small(Cardinality(S))
    BY FS_Subset
<1>7. IsSum(f, S, it)
    BY <1>5, <1>6 DEF IsSum
<1> QED
    BY <1>7

(* What is computed over a larger set is the same for a part of it, for a  *)
(* function that agrees there.                                             *)
LEMMA SumUnique ==
    ASSUME NEW f, NEW g, NEW S, NEW T, IsFiniteSet(S), IsFiniteSet(T),
           NEW it, IsSum(f, S, it), NEW jt, IsSum(g, T, jt),
           NEW U \in SUBSET (S \cap T), \A x \in U : f[x] = g[x]
    PROVE  it[U] = jt[U]
<1> DEFINE N == {n \in Nat : \A s \in SUBSET U : Cardinality(s) = n => it[s] = jt[s]}
<1>1. \A s \in SUBSET U : /\ s \in SUBSET S /\ s \in SUBSET T
                          /\ IsFiniteSet(s) /\ Cardinality(s) \in Nat
    BY FS_Subset, FS_CardinalityType
<1>2. \A s \in SUBSET U : it[s] = SumStep(f, it, s) /\ jt[s] = SumStep(g, jt, s)
    BY <1>1 DEF IsSum
<1>3. 0 \in N
    <2>1. \A s \in SUBSET U : Cardinality(s) = 0 => s = {}
        BY <1>1, FS_EmptySet
    <2> QED
        BY <1>2, <2>1 DEF SumStep
<1>4. ASSUME NEW n \in Nat, n \in N
      PROVE  n + 1 \in N
    <2>1. ASSUME NEW s \in SUBSET U, Cardinality(s) = n + 1
          PROVE  it[s] = jt[s]
        <3>1. s # {}
            BY <2>1, FS_EmptySet
        <3>2. /\ Chosen(s) \in s /\ s \ {Chosen(s)} \in SUBSET U
              /\ Cardinality(s \ {Chosen(s)}) = n
            BY <1>1, <2>1, <3>1, ChosenLess
        <3>3. it[s \ {Chosen(s)}] = jt[s \ {Chosen(s)}] /\ f[Chosen(s)] = g[Chosen(s)]
            BY <1>4, <3>2
        <3> QED
            BY <1>2, <3>1, <3>3 DEF SumStep
    <2> QED
        BY <2>1
<1> HIDE DEF N
<1>5. Cardinality(U) \in N
    BY <1>1, <1>3, <1>4, Induction
<1> QED
    BY <1>5 DEF N

LEMMA SumAgrees ==
    ASSUME NEW f, NEW g, NEW S, IsFiniteSet(S), \A x \in S : f[x] = g[x]
    PROVE  SumFunctionOnSet(f, S) = SumFunctionOnSet(g, S)
<1>1. PICK it : it = (CHOOSE a : IsSum(f, S, a)) /\ IsSum(f, S, it)
    BY SumExists
<1>2. PICK jt : jt = (CHOOSE a : IsSum(g, S, a)) /\ IsSum(g, S, jt)
    BY SumExists
<1>3. it[S] = jt[S]
    BY <1>1, <1>2, SumUnique
<1> QED
    BY <1>1, <1>2, <1>3, SumIs

LEMMA SumType ==
    ASSUME NEW f, NEW S, IsFiniteSet(S), \A x \in S : f[x] \in Nat,
           NEW it, IsSum(f, S, it)
    PROVE  \A s \in SUBSET S : it[s] \in Nat
<1> DEFINE N == {n \in Nat : \A s \in SUBSET S : Cardinality(s) = n => it[s] \in Nat}
<1>1. \A s \in SUBSET S : IsFiniteSet(s) /\ Cardinality(s) \in Nat
    BY FS_Subset, FS_CardinalityType
<1>2. \A s \in SUBSET S : it[s] = SumStep(f, it, s)
    BY DEF IsSum
<1>3. 0 \in N
    <2>1. \A s \in SUBSET S : Cardinality(s) = 0 => s = {}
        BY <1>1, FS_EmptySet
    <2>2. it[{}] = 0
        BY <1>2 DEF SumStep
    <2> QED
        BY <2>1, <2>2
<1>4. ASSUME NEW n \in Nat, n \in N
      PROVE  n + 1 \in N
    <2>1. ASSUME NEW s \in SUBSET S, Cardinality(s) = n + 1
          PROVE  it[s] \in Nat
        <3>1. s # {}
            BY <2>1, FS_EmptySet
        <3>2. /\ Chosen(s) \in s /\ s \ {Chosen(s)} \in SUBSET S
              /\ Cardinality(s \ {Chosen(s)}) = n
            BY <1>1, <2>1, <3>1, ChosenLess
        <3>3. it[s] = f[Chosen(s)] + it[s \ {Chosen(s)}]
            BY <1>2, <3>1 DEF SumStep
        <3>4. it[s \ {Chosen(s)}] \in Nat /\ f[Chosen(s)] \in Nat
            BY <1>4, <3>2
        <3> QED
            BY <3>3, <3>4
    <2> QED
        BY <2>1
<1> HIDE DEF N
<1>5. \A n \in Nat : n \in N
    BY <1>3, <1>4, Induction
<1> QED
    BY <1>1, <1>5 DEF N

(* Any element may be taken first.                                         *)
LEMMA SumAnyFirst ==
    ASSUME NEW f, NEW S, IsFiniteSet(S), \A x \in S : f[x] \in Nat,
           NEW it, IsSum(f, S, it)
    PROVE  \A s \in SUBSET S : \A y \in s : it[s] = f[y] + it[s \ {y}]
<1> DEFINE Fine(s) == \A y \in s : it[s] = f[y] + it[s \ {y}]
           N == {n \in Nat : \A s \in SUBSET S : Cardinality(s) = n => Fine(s)}
<1>1. \A s \in SUBSET S : IsFiniteSet(s) /\ Cardinality(s) \in Nat
    BY FS_Subset, FS_CardinalityType
<1>2. \A s \in SUBSET S : it[s] = SumStep(f, it, s) /\ it[s] \in Nat
    BY SumType DEF IsSum
<1>3. 0 \in N
    <2>1. \A s \in SUBSET S : Cardinality(s) = 0 => s = {}
        BY <1>1, FS_EmptySet
    <2> QED
        BY <2>1
<1>4. ASSUME NEW n \in Nat, n \in N
      PROVE  n + 1 \in N
    <2>1. ASSUME NEW s \in SUBSET S, Cardinality(s) = n + 1, NEW y \in s
          PROVE  it[s] = f[y] + it[s \ {y}]
        <3> DEFINE c == Chosen(s)
        <3>1. s # {}
            OBVIOUS
        <3>2. c \in s /\ s \ {c} \in SUBSET S /\ Cardinality(s \ {c}) = n
            BY <1>1, <2>1, <3>1, ChosenLess
        <3>3. it[s] = f[c] + it[s \ {c}]
            BY <1>2, <3>1 DEF SumStep
        <3> HIDE DEF c
        <3>4. CASE y = c
            BY <3>3, <3>4
        <3>5. CASE y # c
            <4>1. it[s \ {c}] = f[y] + it[(s \ {c}) \ {y}]
                <5>1. Fine(s \ {c})
                    BY <1>4, <3>2
                <5> QED
                    BY <3>5, <5>1
            <4>2. s \ {y} \in SUBSET S /\ Cardinality(s \ {y}) = n
                <5>1. IsFiniteSet(s)
                    BY <1>1
                <5>2. Cardinality(s \ {y}) + 1 = Cardinality(s) /\ Cardinality(s \ {y}) \in Nat
                    BY <5>1, OneLess
                <5> QED
                    BY <2>1, <5>2
            <4>3. it[s \ {y}] = f[c] + it[(s \ {y}) \ {c}]
                <5>1. Fine(s \ {y})
                    BY <1>4, <4>2
                <5> QED
                    BY <3>2, <3>5, <5>1
            <4>4. (s \ {c}) \ {y} = (s \ {y}) \ {c}
                OBVIOUS
            <4> DEFINE rest == it[(s \ {c}) \ {y}]
            <4>5. rest \in Nat /\ f[y] \in Nat /\ f[c] \in Nat
                BY <1>2, <3>2
            <4>6. it[s] = f[c] + (f[y] + rest) /\ it[s \ {y}] = f[c] + rest
                BY <3>3, <4>1, <4>3, <4>4
            <4> HIDE DEF rest
            <4> QED
                BY <4>5, <4>6
        <3> QED
            BY <3>4, <3>5
    <2>2. \A s \in SUBSET S : Cardinality(s) = n + 1 => Fine(s)
        BY <2>1
    <2> HIDE DEF Fine
    <2> QED
        BY <2>2
<1> HIDE DEF N
<1>5. \A n \in Nat : n \in N
    BY <1>3, <1>4, Induction
<1> USE DEF N
<1>6. \A s \in SUBSET S : Fine(s)
    BY <1>1, <1>5
<1> QED
    BY <1>6

LEMMA SumEmpty ==
    ASSUME NEW f
    PROVE  SumFunctionOnSet(f, {}) = 0
<1>1. PICK it : it = (CHOOSE a : IsSum(f, {}, a)) /\ IsSum(f, {}, it)
    BY SumExists, FS_EmptySet
<1>2. it[{}] = SumStep(f, it, {})
    BY <1>1 DEF IsSum
<1> QED
    BY <1>1, <1>2, SumIs DEF SumStep

LEMMA SumElement ==
    ASSUME NEW f, NEW S, IsFiniteSet(S), \A x \in S : f[x] \in Nat
    PROVE  /\ SumFunctionOnSet(f, S) \in Nat
           /\ \A y \in S : SumFunctionOnSet(f, S) = f[y] + SumFunctionOnSet(f, S \ {y})
<1>1. PICK it : it = (CHOOSE a : IsSum(f, S, a)) /\ IsSum(f, S, it)
    BY SumExists
<1>2. SumFunctionOnSet(f, S) = it[S]
    BY <1>1, SumIs
<1>3. it[S] \in Nat /\ \A y \in S : it[S] = f[y] + it[S \ {y}]
    BY <1>1, SumType, SumAnyFirst
<1>4. ASSUME NEW y \in S
      PROVE  it[S \ {y}] = SumFunctionOnSet(f, S \ {y})
    <2> DEFINE T == S \ {y}
    <2>1. IsFiniteSet(T)
        BY FS_RemoveElement
    <2>2. PICK jt : jt = (CHOOSE a : IsSum(f, T, a)) /\ IsSum(f, T, jt)
        BY <2>1, SumExists
    <2>3. it[T] = jt[T]
        BY <1>1, <2>1, <2>2, SumUnique
    <2> QED
        BY <2>2, <2>3, SumIs
<1> QED
    BY <1>2, <1>3, <1>4

-----------------------------------------------------------------------------
(* Where lines are looked for.                                             *)

Keys == 0 .. Len(Width) + MaxEdits

OffsetsType == offsets \in [Keys -> Nat]

(* Lines have been added behind line at and above only.                    *)
OffsetsEnd ==
    /\ at \in 0 .. Len(Width)
    /\ \A k \in Keys : k > at => offsets[k] = 0

LEMMA WidthType == Width \in Seq(Nat) /\ Len(Width) \in Nat /\ MaxEdits \in Nat
BY ModificationAssumption

LEMMA AddedNext ==
    ASSUME OffsetsType, NEW n \in Nat, n \in Keys
    PROVE  /\ Added(0 .. n - 1) \in Nat
           /\ Added(0 .. n) = Added(0 .. n - 1) + offsets[n]
           /\ offsets[n] \in Nat
<1> DEFINE A == 0 .. n
           B == 0 .. n - 1
<1>1. IsFiniteSet(A) /\ IsFiniteSet(B)
    BY FS_Interval
<1>2. A \ {n} = B /\ n \in A
    OBVIOUS
<1>3. A \subseteq Keys /\ B \subseteq Keys
    BY WidthType DEF Keys
<1> HIDE DEF A, B
<1>4. /\ \A k \in A : offsets[k] \in Nat
      /\ \A k \in B : offsets[k] \in Nat
    BY <1>3 DEF OffsetsType
<1>5. Added(B) \in Nat
    BY <1>1, <1>4, SumElement DEF Added
<1>6. Added(A) = offsets[n] + Added(A \ {n})
    BY <1>1, <1>2, <1>4, SumElement DEF Added
<1>7. /\ Added(B) \in Nat
      /\ Added(A) = Added(B) + offsets[n]
      /\ offsets[n] \in Nat
    BY <1>2, <1>4, <1>5, <1>6
<1> QED
    BY <1>7 DEF A, B

LEMMA AdjustedNext ==
    ASSUME OffsetsType, NEW l \in 0 .. Len(Width)
    PROVE  /\ Adjusted(l) \in Nat /\ Adjusted(l) >= l
           /\ FirstBehind(l) = Adjusted(l) + offsets[l] /\ offsets[l] \in Nat
           /\ Adjusted(l + 1) = FirstBehind(l) + 1
<1>1. l \in Nat /\ l \in Keys
    BY WidthType DEF Keys
<1>2. (l + 1) - 1 = l
    BY <1>1
<1> QED
    BY <1>1, <1>2, AddedNext DEF Adjusted, FirstBehind

LEMMA AdjustedZero == Adjusted(0) = 0
<1>1. 0 .. 0 - 1 = {}
    OBVIOUS
<1> QED
    BY <1>1, SumEmpty DEF Adjusted, Added

(* Lines stay in order. *)
LEMMA AdjustedOrder ==
    ASSUME OffsetsType, NEW l \in 0 .. Len(Width) + 1, NEW m \in 0 .. Len(Width) + 1, l < m
    PROVE  Adjusted(l) < Adjusted(m)
<1> DEFINE N == {d \in Nat : l + 1 + d <= Len(Width) + 1 => Adjusted(l) < Adjusted(l + 1 + d)}
<1>1. Len(Width) \in Nat /\ l \in Nat /\ m \in Nat
    BY WidthType
<1>2. ASSUME NEW k \in 0 .. Len(Width)
      PROVE  Adjusted(k) \in Nat /\ Adjusted(k + 1) \in Nat /\ Adjusted(k) < Adjusted(k + 1)
    <2>1. /\ Adjusted(k) \in Nat /\ FirstBehind(k) = Adjusted(k) + offsets[k] /\ offsets[k] \in Nat
          /\ Adjusted(k + 1) = FirstBehind(k) + 1
        BY AdjustedNext
    <2> QED
        BY <2>1
<1>3. 0 \in N
    <2>1. l \in 0 .. Len(Width)
        BY <1>1
    <2> QED
        BY <1>1, <1>2, <2>1
<1>4. ASSUME NEW d \in Nat, d \in N
      PROVE  d + 1 \in N
    <2>1. SUFFICES ASSUME l + 1 + (d + 1) <= Len(Width) + 1
                   PROVE  Adjusted(l) < Adjusted(l + 1 + (d + 1))
        OBVIOUS
    <2>2. l + 1 + d \in 0 .. Len(Width) /\ l \in 0 .. Len(Width)
        BY <1>1, <2>1
    <2>3. /\ Adjusted(l + 1 + d) \in Nat /\ Adjusted(l + 1 + d + 1) \in Nat /\ Adjusted(l) \in Nat
          /\ Adjusted(l + 1 + d) < Adjusted(l + 1 + d + 1)
        BY <1>2, <2>2
    <2>4. Adjusted(l) < Adjusted(l + 1 + d)
        BY <1>4, <2>2
    <2>5. l + 1 + (d + 1) = l + 1 + d + 1
        BY <1>1
    <2> QED
        BY <2>3, <2>4, <2>5
<1> HIDE DEF N
<1>5. m - (l + 1) \in N
    <2>1. m - (l + 1) \in Nat
        BY <1>1
    <2> QED
        BY <1>3, <1>4, <2>1, Induction
<1> QED
    BY <1>1, <1>5 DEF N

LEMMA AdjustedType ==
    ASSUME OffsetsType, NEW l \in 0 .. Len(Width) + 1
    PROVE  Adjusted(l) \in Nat /\ Adjusted(l) >= l
<1>1. CASE l = 0
    BY <1>1, AdjustedZero
<1>2. CASE l # 0
    <2>1. l - 1 \in 0 .. Len(Width) /\ (l - 1) + 1 = l
        BY <1>2, WidthType
    <2>2. /\ Adjusted(l - 1) \in Nat /\ Adjusted(l - 1) >= l - 1
          /\ FirstBehind(l - 1) = Adjusted(l - 1) + offsets[l - 1] /\ offsets[l - 1] \in Nat
          /\ Adjusted((l - 1) + 1) = FirstBehind(l - 1) + 1
        BY <2>1, AdjustedNext
    <2> QED
        BY <2>1, <2>2
<1> QED
    BY <1>1, <1>2

(* One more line behind line k, and nothing else. *)
Adds1(k) == offsets' = [offsets EXCEPT ![k] = @ + 1]

LEMMA AdjustedAdds ==
    ASSUME OffsetsType, NEW k \in 0 .. Len(Width), Adds1(k), NEW l \in 0 .. Len(Width) + 1
    PROVE  Adjusted(l)' = Adjusted(l) + (IF k < l THEN 1 ELSE 0)
<1> DEFINE S == 0 .. l - 1
<1>1. Len(Width) \in Nat /\ MaxEdits \in Nat /\ l \in Nat /\ k \in Nat
    BY WidthType
<1>2. IsFiniteSet(S) /\ IsFiniteSet(S \ {k})
    <2>1. IsFiniteSet(S)
        BY <1>1, FS_Interval
    <2> QED
        BY <2>1, FS_RemoveElement
<1>3. \A x \in S : x \in Keys \/ x = Len(Width) + MaxEdits + 1
    BY <1>1 DEF Keys
<1>4. offsets \in [Keys -> Nat] /\ k \in Keys /\ S \subseteq Keys
    BY <1>1 DEF OffsetsType, Keys
<1>5. /\ \A x \in S : offsets[x] \in Nat /\ offsets'[x] \in Nat
      /\ \A x \in S : x # k => offsets'[x] = offsets[x]
      /\ offsets'[k] = offsets[k] + 1
    BY <1>4 DEF Adds1
<1>6. Added(S)' = SumFunctionOnSet(offsets', S) /\ Added(S) = SumFunctionOnSet(offsets, S)
    BY DEF Added
<1> HIDE DEF S
<1>7. CASE k \notin S
    <2>1. SumFunctionOnSet(offsets', S) = SumFunctionOnSet(offsets, S)
        BY <1>2, <1>5, <1>7, SumAgrees
    <2>2. ~ (k < l)
        BY <1>1, <1>7 DEF S
    <2>3. Added(S)' = Added(S) /\ Added(S) \in Nat
        BY <1>2, <1>5, <1>6, <2>1, SumElement DEF Added
    <2> QED
        BY <1>1, <2>2, <2>3 DEF Adjusted, S
<1>8. CASE k \in S
    <2>1. SumFunctionOnSet(offsets', S \ {k}) = SumFunctionOnSet(offsets, S \ {k})
        BY <1>2, <1>5, SumAgrees
    <2>2. SumFunctionOnSet(offsets', S) = offsets'[k] + SumFunctionOnSet(offsets', S \ {k})
        <3>1. \A x \in S : offsets'[x] \in Nat
            BY <1>5
        <3>2. \A y \in S : SumFunctionOnSet(offsets', S) = offsets'[y] + SumFunctionOnSet(offsets', S \ {y})
            BY <1>2, <3>1, SumElement
        <3> QED
            BY <1>8, <3>2
    <2>3. SumFunctionOnSet(offsets, S) = offsets[k] + SumFunctionOnSet(offsets, S \ {k})
        <3>1. \A x \in S : offsets[x] \in Nat
            BY <1>5
        <3>2. \A y \in S : SumFunctionOnSet(offsets, S) = offsets[y] + SumFunctionOnSet(offsets, S \ {y})
            BY <1>2, <3>1, SumElement
        <3> QED
            BY <1>8, <3>2
    <2>4. SumFunctionOnSet(offsets, S \ {k}) \in Nat /\ offsets[k] \in Nat
        BY <1>2, <1>5, <1>8, SumElement
    <2>5. Added(S)' = Added(S) + 1 /\ Added(S) \in Nat
        BY <1>5, <1>6, <2>1, <2>2, <2>3, <2>4 DEF Added
    <2>6. k < l
        BY <1>1, <1>8 DEF S
    <2> QED
        BY <1>1, <2>5, <2>6 DEF Adjusted, S
<1> QED
    BY <1>7, <1>8

-----------------------------------------------------------------------------
(* The text.                                                               *)

Named == {<<f[1], f[2]>> : f \in Fillings} \cup {<<f[1], "">> : f \in Fillings}

Kinds == {"source", "filled", "after", "before", "instead", "negation"}

AnyCell == [kind : Kinds, line : 0 .. Len(Width), col : Nat, as : {<<>>} \cup Named]

TextLine == [number : 0 .. Len(Width), cells : Seq(AnyCell)]

TextType == workText \in Seq(TextLine)

(* All lines of the file are in the text, and nowhere but where they are   *)
(* looked for.                                                             *)
Placed ==
    \A l \in Lines :
        /\ Adjusted(l) <= Len(workText)
        /\ \A i \in DOMAIN workText : workText[i].number = l <=> i = Adjusted(l)

LinesInv == OffsetsType /\ OffsetsEnd /\ TextType /\ Placed

LEMMA Inserting ==
    ASSUME NEW S, NEW s \in Seq(S), NEW e \in S, NEW p \in 1 .. Len(s)
    PROVE  /\ InsertAt(s, p, e) \in Seq(S)
           /\ Len(InsertAt(s, p, e)) = Len(s) + 1
           /\ \A i \in 1 .. Len(s) + 1 :
                 InsertAt(s, p, e)[i] = IF i < p THEN s[i] ELSE IF i = p THEN e ELSE s[i - 1]
<1> DEFINE a == SubSeq(s, 1, p - 1)
           b == SubSeq(s, p, Len(s))
<1>1. Len(s) \in Nat /\ p \in Nat /\ 1 <= p /\ p <= Len(s)
    BY LenProperties
<1>2. \A i \in 1 .. Len(s) : s[i] \in S
    BY ElementOfSeq
<1>3. /\ a \in Seq(S) /\ Len(a) = p - 1
      /\ \A i \in 1 .. p - 1 : a[i] = s[i]
    <2>1. \A i \in 1 .. p - 1 : s[i] \in S
        BY <1>1, <1>2
    <2>2. /\ a \in Seq(S)
          /\ Len(a) = IF 1 <= p - 1 THEN (p - 1) - 1 + 1 ELSE 0
          /\ \A i \in 1 .. (p - 1) - 1 + 1 : a[i] = s[1 + i - 1]
        BY <1>1, <2>1, SubSeqProperties
    <2> HIDE DEF a
    <2> QED
        BY <1>1, <2>2
<1>4. /\ b \in Seq(S) /\ Len(b) = Len(s) - p + 1
      /\ \A i \in 1 .. Len(s) - p + 1 : b[i] = s[p + i - 1]
    <2>1. \A i \in p .. Len(s) : s[i] \in S
        BY <1>1, <1>2
    <2>2. /\ b \in Seq(S)
          /\ Len(b) = IF p <= Len(s) THEN Len(s) - p + 1 ELSE 0
          /\ \A i \in 1 .. Len(s) - p + 1 : b[i] = s[p + i - 1]
        BY <1>1, <2>1, SubSeqProperties
    <2> HIDE DEF b
    <2> QED
        BY <1>1, <2>2
<1>5. <<e>> \in Seq(S) /\ Len(<<e>>) = 1 /\ <<e>>[1] = e
    OBVIOUS
<1> HIDE DEF a, b
<1>6. /\ a \o <<e>> \in Seq(S) /\ Len(a \o <<e>>) = p
      /\ \A i \in 1 .. p : (a \o <<e>>)[i] = IF i < p THEN s[i] ELSE e
    <2>1. /\ a \o <<e>> \in Seq(S)
          /\ Len(a \o <<e>>) = Len(a) + Len(<<e>>)
          /\ \A i \in 1 .. Len(a) + Len(<<e>>) :
                (a \o <<e>>)[i] = IF i <= Len(a) THEN a[i] ELSE <<e>>[i - Len(a)]
        BY <1>3, <1>5, ConcatProperties
    <2> QED
        BY <1>1, <1>3, <1>5, <2>1
<1> DEFINE c == a \o <<e>>
<1>7. /\ c \o b \in Seq(S)
      /\ Len(c \o b) = Len(c) + Len(b)
      /\ \A i \in 1 .. Len(c) + Len(b) :
            (c \o b)[i] = IF i <= Len(c) THEN c[i] ELSE b[i - Len(c)]
    <2>1. c \in Seq(S) /\ b \in Seq(S)
        BY <1>4, <1>6
    <2> HIDE DEF c
    <2> QED
        BY <2>1, ConcatProperties
<1> HIDE DEF c
<1>8. InsertAt(s, p, e) = c \o b
    BY DEF InsertAt, a, b, c
<1>9. Len(c) = p /\ Len(b) = Len(s) - p + 1
    BY <1>4, <1>6 DEF c
<1>10. ASSUME NEW i \in 1 .. Len(s) + 1
       PROVE  (c \o b)[i] = IF i < p THEN s[i] ELSE IF i = p THEN e ELSE s[i - 1]
    <2>1. CASE i <= p
        BY <1>1, <1>6, <1>7, <1>9, <2>1 DEF c
    <2>2. CASE ~ (i <= p)
        <3>1. i - p \in 1 .. Len(s) - p + 1 /\ i \in 1 .. Len(c) + Len(b) /\ ~ (i <= Len(c))
            BY <1>1, <1>9, <2>2
        <3>2. (c \o b)[i] = b[i - p] /\ b[i - p] = s[p + (i - p) - 1] /\ p + (i - p) - 1 = i - 1
            BY <1>1, <1>4, <1>7, <1>9, <3>1
        <3> QED
            BY <1>1, <2>2, <3>2
    <2> QED
        BY <2>1, <2>2
<1>11. \A i \in 1 .. Len(s) + 1 :
          InsertAt(s, p, e)[i] = IF i < p THEN s[i] ELSE IF i = p THEN e ELSE s[i - 1]
    BY <1>8, <1>10
<1>12. Len(InsertAt(s, p, e)) = Len(s) + 1
    <2>1. Len(c) + Len(b) = Len(s) + 1
        BY <1>1, <1>9
    <2> QED
        BY <1>7, <1>8, <2>1, Zenon
<1>13. InsertAt(s, p, e) \in Seq(S)
    BY <1>7, <1>8, Zenon
<1> QED
    BY <1>11, <1>12, <1>13, Zenon

LEMMA Parts ==
    ASSUME NEW S, NEW s \in Seq(S), NEW m \in Nat, NEW n \in 0 .. Len(s), m >= 1
    PROVE  /\ SubSeq(s, m, n) \in Seq(S)
           /\ Len(SubSeq(s, m, n)) = IF m <= n THEN n - m + 1 ELSE 0
           /\ \A i \in 1 .. Len(SubSeq(s, m, n)) : SubSeq(s, m, n)[i] = s[m + i - 1]
<1>1. Len(s) \in Nat /\ n \in Nat /\ n <= Len(s)
    BY LenProperties
<1>2. \A i \in m .. n : s[i] \in S
    <2>1. \A i \in 1 .. Len(s) : s[i] \in S
        BY ElementOfSeq
    <2> QED
        BY <1>1, <2>1
<1>3. /\ SubSeq(s, m, n) \in Seq(S)
      /\ Len(SubSeq(s, m, n)) = IF m <= n THEN n - m + 1 ELSE 0
      /\ \A i \in 1 .. n - m + 1 : SubSeq(s, m, n)[i] = s[m + i - 1]
    BY <1>1, <1>2, SubSeqProperties
<1> QED
    BY <1>1, <1>3

(* What the lines of the text are. *)
LEMMA TextFacts ==
    ASSUME TextType
    PROVE  /\ Len(workText) \in Nat /\ DOMAIN workText = 1 .. Len(workText)
           /\ \A i \in 1 .. Len(workText) : workText[i] \in TextLine
BY LenProperties, ElementOfSeq DEF TextType

-----------------------------------------------------------------------------
(* The steps: a line is added behind line k of the file, ...               *)
Inserts(k, w) ==
    /\ k \in 0 .. Len(Width) /\ Adjusted(k + 1) <= Len(workText)
    /\ Adds1(k)
    /\ workText' = InsertAt(workText, Adjusted(k + 1), Line(0, <<w>>))

(* ... or lines stay where they are.                                       *)
KeepsLines ==
    /\ UNCHANGED offsets
    /\ TextType'
    /\ Len(workText') = Len(workText)
    /\ \A i \in 1 .. Len(workText) : workText'[i].number = workText[i].number

LEMMA LinesAre == \A l \in Lines : l \in 0 .. Len(Width) /\ l \in Nat /\ l # 0 /\ l - 1 \in 0 .. Len(Width)
BY WidthType DEF Lines

LEMMA SnippetTypes ==
    \A l \in 0 .. Len(Width) :
        /\ Snippet("after", l) \in AnyCell
        /\ Snippet("before", l) \in AnyCell
        /\ Snippet("instead", l) \in AnyCell
        /\ Snippet("negation", l) \in AnyCell
<1>1. ASSUME NEW l \in 0 .. Len(Width), NEW kind \in Kinds
      PROVE  Snippet(kind, l) \in AnyCell
    BY DEF Cell, Snippet, AnyCell
<1> QED
    BY <1>1 DEF Kinds

LEMMA NoneShifted ==
    ASSUME OffsetsType, OffsetsEnd, NEW from \in Nat, from > at
    PROVE  Shifted(from) = offsets
<1>1. Len(Width) \in Nat /\ MaxEdits \in Nat /\ at \in Nat
    BY WidthType DEF OffsetsEnd
<1>2. offsets = [k \in Keys |-> offsets[k]] /\ DOMAIN offsets = Keys
    BY DEF OffsetsType
<1>3. ASSUME NEW k \in Keys
      PROVE  (IF k < from THEN offsets[k] ELSE IF k = from THEN 0 ELSE offsets[k - 1])
             = offsets[k]
    <2>1. CASE k < from
        BY <2>1
    <2>2. CASE ~ (k < from)
        <3>1. k \in Nat /\ k >= from /\ k > at
            BY <1>1, <2>2 DEF Keys
        <3>2. offsets[k] = 0
            BY <3>1 DEF OffsetsEnd
        <3>3. CASE k = from
            BY <2>2, <3>2, <3>3
        <3>4. CASE k # from
            <4>1. k - 1 \in Keys /\ k - 1 > at
                BY <1>1, <3>1, <3>4 DEF Keys
            <4>2. offsets[k - 1] = 0
                BY <4>1 DEF OffsetsEnd
            <4> QED
                BY <2>2, <3>2, <3>4, <4>2
        <3> QED
            BY <3>3, <3>4
    <2> QED
        BY <2>1, <2>2
<1> QED
    BY <1>2, <1>3, Zenon DEF Shifted

(* The counts after a line has been added at or below the last one.        *)
LEMMA OffsetsStep ==
    ASSUME OffsetsType, OffsetsEnd, NEW k \in 0 .. Len(Width), Adds1(k), at <= k, at' = k
    PROVE  OffsetsType' /\ OffsetsEnd'
<1>1. Len(Width) \in Nat /\ MaxEdits \in Nat /\ at \in Nat /\ k \in Keys /\ k \in Nat
    BY WidthType DEF OffsetsEnd, Keys
<1>2. OffsetsType'
    BY <1>1 DEF OffsetsType, Adds1
<1>3. ASSUME NEW x \in Keys, x > k
      PROVE  offsets'[x] = 0
    <2>1. x \in Nat /\ x > at
        BY <1>1, <1>3 DEF Keys
    <2>2. offsets[x] = 0
        BY <2>1 DEF OffsetsEnd
    <2>3. offsets'[x] = offsets[x]
        BY <1>1, <1>3 DEF OffsetsType, Adds1
    <2> QED
        BY <2>2, <2>3
<1> QED
    BY <1>2, <1>3 DEF OffsetsEnd

LEMMA AfterStep ==
    ASSUME Careful, LinesInv, NEW l \in Lines, AddNewCodeSnippetAfter(l)
    PROVE  /\ OffsetsType' /\ OffsetsEnd' /\ Adds1(l)
           /\ Inserts(l, Snippet("after", l)) \/ (l = Len(Width) /\ workText' = workText)
<1>1. l \in 0 .. Len(Width) /\ l \in Nat /\ at \in Nat /\ at <= l /\ at' = l
    BY LinesAre DEF LinesInv, OffsetsEnd, AddNewCodeSnippetAfter, Adds
<1>2. OffsetsType /\ OffsetsEnd
    BY DEF LinesInv
<1>3. /\ Adjusted(l) \in Nat /\ Adjusted(l) >= l
      /\ FirstBehind(l) = Adjusted(l) + offsets[l] /\ offsets[l] \in Nat
      /\ Adjusted(l + 1) = FirstBehind(l) + 1
    BY <1>1, <1>2, AdjustedNext
<1>4. Shifted(FirstBehind(l) + 1) = offsets
    <2>1. FirstBehind(l) + 1 \in Nat /\ FirstBehind(l) + 1 > at
        BY <1>1, <1>3
    <2> QED
        BY <1>2, <2>1, NoneShifted
<1>5. Adds1(l)
    BY <1>4 DEF AddNewCodeSnippetAfter, Adds1
<1>6. OffsetsType' /\ OffsetsEnd'
    BY <1>1, <1>2, <1>5, OffsetsStep
<1>7. Len(workText) \in Nat
    BY TextFacts DEF LinesInv
<1>8. CASE FirstBehind(l) < Len(workText)
    <2>1. workText' = InsertAt(workText, Adjusted(l + 1), Line(0, <<Snippet("after", l)>>))
        BY <1>3, <1>8 DEF AddNewCodeSnippetAfter
    <2>2. Adjusted(l + 1) <= Len(workText)
        BY <1>3, <1>7, <1>8
    <2> QED
        BY <1>1, <1>5, <1>6, <2>1, <2>2 DEF Inserts
<1>9. CASE ~ (FirstBehind(l) < Len(workText))
    <2>1. workText' = workText
        BY <1>9 DEF AddNewCodeSnippetAfter
    <2>2. l = Len(Width)
        <3>1. SUFFICES ASSUME l # Len(Width)
                       PROVE  FALSE
            OBVIOUS
        <3>2. l + 1 \in Lines
            BY <1>1, <3>1, WidthType DEF Lines
        <3>3. Adjusted(l + 1) <= Len(workText)
            BY <3>2 DEF LinesInv, Placed
        <3> QED
            BY <1>3, <1>7, <1>9, <3>3
    <2> QED
        BY <1>5, <1>6, <2>1, <2>2
<1> QED
    BY <1>8, <1>9

LEMMA BeforeStep ==
    ASSUME Careful, LinesInv, NEW l \in Lines, AddNewCodeSnippetBefore(l)
    PROVE  OffsetsType' /\ OffsetsEnd' /\ Inserts(l - 1, Snippet("before", l))
<1>1. /\ l \in 0 .. Len(Width) + 1 /\ l \in Nat /\ l - 1 \in 0 .. Len(Width) /\ (l - 1) + 1 = l
      /\ at \in Nat /\ at <= l - 1 /\ at' = l - 1
    BY LinesAre, WidthType DEF LinesInv, OffsetsEnd, AddNewCodeSnippetBefore, Adds
<1>2. OffsetsType /\ OffsetsEnd
    BY DEF LinesInv
<1>3. Adjusted(l) \in Nat /\ Adjusted(l) >= l
    BY <1>1, <1>2, AdjustedType
<1>4. Shifted(Adjusted(l)) = offsets
    <2>1. Adjusted(l) > at
        BY <1>1, <1>3
    <2> QED
        BY <1>2, <1>3, <2>1, NoneShifted
<1>5. Adds1(l - 1)
    BY <1>4 DEF AddNewCodeSnippetBefore, Adds1
<1>6. OffsetsType' /\ OffsetsEnd'
    BY <1>1, <1>2, <1>5, OffsetsStep
<1>7. Adjusted(l) <= Len(workText)
    BY DEF LinesInv, Placed
<1>8. workText' = InsertAt(workText, Adjusted(l), Line(0, <<Snippet("before", l)>>))
    BY DEF AddNewCodeSnippetBefore
<1> QED
    BY <1>1, <1>5, <1>6, <1>7, <1>8 DEF Inserts

LEMMA AdjustedCompare ==
    ASSUME OffsetsType, NEW l \in 0 .. Len(Width) + 1, NEW m \in 0 .. Len(Width) + 1
    PROVE  /\ l < m <=> Adjusted(l) < Adjusted(m)
           /\ l <= m <=> Adjusted(l) <= Adjusted(m)
           /\ l = m <=> Adjusted(l) = Adjusted(m)
<1>1. l \in Nat /\ m \in Nat /\ Adjusted(l) \in Nat /\ Adjusted(m) \in Nat
    BY WidthType, AdjustedType
<1>2. CASE l < m
    BY <1>1, <1>2, AdjustedOrder
<1>3. CASE m < l
    BY <1>1, <1>3, AdjustedOrder
<1>4. CASE l = m
    BY <1>1, <1>4
<1> QED
    BY <1>1, <1>2, <1>3, <1>4

LEMMA InsertedText ==
    ASSUME OffsetsType, TextType, NEW k, NEW w \in AnyCell, Inserts(k, w)
    PROVE  /\ TextType' /\ Len(workText') = Len(workText) + 1
           /\ Adjusted(k + 1) \in 1 .. Len(workText) /\ Len(workText) \in Nat
           /\ \A i \in 1 .. Len(workText) + 1 :
                 workText'[i] = IF i < Adjusted(k + 1) THEN workText[i]
                                ELSE IF i = Adjusted(k + 1) THEN Line(0, <<w>>)
                                ELSE workText[i - 1]
           /\ \A l \in 0 .. Len(Width) + 1 :
                 Adjusted(l)' = Adjusted(l) + (IF k < l THEN 1 ELSE 0)
<1> DEFINE p == Adjusted(k + 1)
           e == Line(0, <<w>>)
<1>1. k \in 0 .. Len(Width) /\ k + 1 \in 0 .. Len(Width) + 1 /\ p <= Len(workText) /\ Adds1(k)
    BY WidthType DEF Inserts
<1>2. p \in Nat /\ p >= k + 1 /\ k \in Nat
    BY <1>1, WidthType, AdjustedType
<1>3. workText \in Seq(TextLine) /\ Len(workText) \in Nat
    BY TextFacts DEF TextType
<1>4. e \in TextLine
    BY WidthType DEF TextLine, Line
<1>5. workText' = InsertAt(workText, p, e)
    BY DEF Inserts
<1> HIDE DEF p, e
<1>6. p \in 1 .. Len(workText)
    BY <1>1, <1>2, <1>3
<1>7. /\ workText' \in Seq(TextLine)
      /\ Len(workText') = Len(workText) + 1
      /\ \A i \in 1 .. Len(workText) + 1 :
            workText'[i] = IF i < p THEN workText[i] ELSE IF i = p THEN e ELSE workText[i - 1]
    <2>1. workText \in Seq(TextLine)
        BY <1>3
    <2>2. /\ InsertAt(workText, p, e) \in Seq(TextLine)
          /\ Len(InsertAt(workText, p, e)) = Len(workText) + 1
          /\ \A i \in 1 .. Len(workText) + 1 :
                InsertAt(workText, p, e)[i]
                    = IF i < p THEN workText[i] ELSE IF i = p THEN e ELSE workText[i - 1]
        BY <1>4, <1>6, <2>1, Inserting
    <2> QED
        BY <1>5, <2>2
<1>8. \A l \in 0 .. Len(Width) + 1 : Adjusted(l)' = Adjusted(l) + (IF k < l THEN 1 ELSE 0)
    BY <1>1, AdjustedAdds
<1> QED
    BY <1>3, <1>6, <1>7, <1>8 DEF TextType, p, e

LEMMA InsertsPlaced ==
    ASSUME OffsetsType, TextType, Placed, NEW k, NEW w \in AnyCell, Inserts(k, w)
    PROVE  Placed'
<1> DEFINE p == Adjusted(k + 1)
           n == Len(workText)
<1>1. /\ TextType' /\ Len(workText') = n + 1
      /\ p \in 1 .. n /\ n \in Nat
      /\ \A i \in 1 .. n + 1 :
            workText'[i] = IF i < p THEN workText[i]
                           ELSE IF i = p THEN Line(0, <<w>>)
                           ELSE workText[i - 1]
      /\ \A l \in 0 .. Len(Width) + 1 :
            Adjusted(l)' = Adjusted(l) + (IF k < l THEN 1 ELSE 0)
    BY InsertedText
<1>2. k \in 0 .. Len(Width) /\ k + 1 \in 0 .. Len(Width) + 1 /\ k \in Nat /\ Len(Width) \in Nat
    BY WidthType DEF Inserts
<1>3. DOMAIN workText' = 1 .. n + 1 /\ DOMAIN workText = 1 .. n
    BY <1>1, TextFacts, LenProperties DEF TextType
<1> HIDE DEF p, n
<1>4. \A i \in 1 .. n : workText[i].number \in 0 .. Len(Width)
    BY TextFacts DEF n, TextLine
<1>5. \A l \in 0 .. Len(Width) + 1 : Adjusted(l) \in Nat /\ (l <= k <=> Adjusted(l) < p)
    <2>1. ASSUME NEW l \in 0 .. Len(Width) + 1
          PROVE  Adjusted(l) \in Nat /\ (l < k + 1 <=> Adjusted(l) < p)
        BY <1>2, AdjustedType, AdjustedCompare DEF p
    <2> QED
        BY <1>2, <2>1
<1>6. ASSUME NEW l \in Lines
      PROVE  /\ Adjusted(l)' <= n + 1
             /\ \A i \in 1 .. n + 1 : workText'[i].number = l <=> i = Adjusted(l)'
    <2>1. l \in 0 .. Len(Width) + 1 /\ l \in Nat /\ l # 0
        BY <1>2, LinesAre
    <2>2. PICK j \in Nat : j = Adjusted(l) /\ (l <= k <=> j < p)
        BY <1>5, <2>1
    <2>3. j <= n /\ \A i \in 1 .. n : workText[i].number = l <=> i = j
        BY <1>3, <2>2 DEF Placed, n
    <2>4. Adjusted(l)' = IF j < p THEN j ELSE j + 1
        BY <1>1, <1>2, <2>1, <2>2
    <2>5. ASSUME NEW i \in 1 .. n + 1
          PROVE  workText'[i].number = l <=> i = IF j < p THEN j ELSE j + 1
        <3>1. CASE i < p
            <4>1. workText'[i] = workText[i] /\ i \in 1 .. n
                BY <1>1, <3>1
            <4> QED
                BY <1>1, <2>3, <3>1, <4>1
        <3>2. CASE i = p
            <4>1. workText'[i].number = 0
                BY <1>1, <3>2 DEF Line
            <4> QED
                BY <1>1, <2>1, <3>2, <4>1
        <3>3. CASE ~ (i < p) /\ i # p
            <4>1. workText'[i] = workText[i - 1] /\ i - 1 \in 1 .. n
                BY <1>1, <3>3
            <4>2. workText[i - 1].number = l <=> i - 1 = j
                BY <2>3, <4>1
            <4>3. i \in Nat /\ p \in Nat /\ i > p
                BY <1>1, <3>3
            <4>4. i - 1 = j <=> i = IF j < p THEN j ELSE j + 1
                BY <2>2, <4>3
            <4> QED
                BY <4>1, <4>2, <4>4
        <3> QED
            BY <3>1, <3>2, <3>3
    <2> QED
        BY <1>1, <2>2, <2>3, <2>4, <2>5
<1> QED
    BY <1>1, <1>3, <1>6 DEF Placed

LEMMA KeepsPlaced ==
    ASSUME OffsetsType, TextType, Placed, KeepsLines
    PROVE  OffsetsType' /\ Placed' /\ \A l : Adjusted(l)' = Adjusted(l)
<1>1. OffsetsType'
    BY DEF OffsetsType, KeepsLines
<1>2. \A l : Adjusted(l)' = Adjusted(l)
    BY DEF Adjusted, Added, KeepsLines
<1>3. DOMAIN workText = 1 .. Len(workText) /\ DOMAIN workText' = 1 .. Len(workText)
    BY TextFacts, LenProperties DEF KeepsLines, TextType
<1>4. ASSUME NEW l \in Lines
      PROVE  /\ Adjusted(l)' <= Len(workText')
             /\ \A i \in DOMAIN workText' : workText'[i].number = l <=> i = Adjusted(l)'
    BY <1>2, <1>3 DEF Placed, KeepsLines
<1> QED
    BY <1>1, <1>2, <1>4 DEF Placed

LEMMA LineIn ==
    ASSUME OffsetsType, TextType, Placed, NEW l \in Lines
    PROVE  Adjusted(l) \in 1 .. Len(workText) /\ workText[Adjusted(l)].number = l
<1>1. l \in 0 .. Len(Width) + 1 /\ l \in Nat /\ l # 0
    BY LinesAre, WidthType
<1>2. Adjusted(l) \in Nat /\ Adjusted(l) >= l /\ Adjusted(l) <= Len(workText)
    BY <1>1, AdjustedType DEF Placed
<1>3. Len(workText) \in Nat /\ DOMAIN workText = 1 .. Len(workText)
    BY TextFacts
<1> QED
    BY <1>1, <1>2, <1>3 DEF Placed

(* One line gets other cells. *)
LEMMA LineChanged ==
    ASSUME NEW text \in Seq(TextLine), NEW i \in 1 .. Len(text), NEW cells \in Seq(AnyCell)
    PROVE  LET new == [text EXCEPT ![i].cells = cells]
           IN  /\ new \in Seq(TextLine) /\ Len(new) = Len(text)
               /\ \A j \in 1 .. Len(text) :
                     new[j] = IF j = i THEN Line(text[i].number, cells) ELSE text[j]
<1>1. text[i] \in TextLine
    BY ElementOfSeq
<1>2. Line(text[i].number, cells) \in TextLine
    BY <1>1 DEF TextLine, Line
<1>3. [text EXCEPT ![i].cells = cells] = [text EXCEPT ![i] = Line(text[i].number, cells)]
    <2>1. [text[i] EXCEPT !.cells = cells] = Line(text[i].number, cells)
        BY <1>1 DEF TextLine, Line
    <2>2. [text EXCEPT ![i].cells = cells] = [text EXCEPT ![i] = [text[i] EXCEPT !.cells = cells]]
        OBVIOUS
    <2> QED
        BY <2>1, <2>2
<1> QED
    BY <1>2, <1>3, ExceptSeq

LEMMA ReplaceText ==
    ASSUME OffsetsType, TextType, Placed, NEW l \in Lines, Replace(l)
    PROVE  /\ KeepsLines
           /\ \A i \in 1 .. Len(workText) :
                 workText'[i] = IF i = Adjusted(l) THEN Line(l, <<Snippet("instead", l)>>)
                                ELSE workText[i]
<1> DEFINE new == [workText EXCEPT ![Adjusted(l)].cells = <<Snippet("instead", l)>>]
<1>1. Adjusted(l) \in 1 .. Len(workText) /\ workText[Adjusted(l)].number = l
    BY LineIn
<1>2. workText' = new /\ UNCHANGED offsets
    BY <1>1 DEF Replace
<1>3. <<Snippet("instead", l)>> \in Seq(AnyCell)
    <2>1. Snippet("instead", l) \in AnyCell
        BY LinesAre, SnippetTypes
    <2> QED
        BY <2>1
<1>4. workText \in Seq(TextLine)
    BY DEF TextType
<1>5. /\ new \in Seq(TextLine) /\ Len(new) = Len(workText)
      /\ \A j \in 1 .. Len(workText) :
            new[j] = IF j = Adjusted(l)
                     THEN Line(workText[Adjusted(l)].number, <<Snippet("instead", l)>>)
                     ELSE workText[j]
    <2>1. PICK i, cells : i = Adjusted(l) /\ cells = <<Snippet("instead", l)>>
        OBVIOUS
    <2>2. PICK text : text = [workText EXCEPT ![i].cells = cells]
        OBVIOUS
    <2>3. text = new
        BY <2>1, <2>2
    <2> HIDE DEF new
    <2>4. /\ text \in Seq(TextLine) /\ Len(text) = Len(workText)
          /\ \A j \in 1 .. Len(workText) :
                text[j] = IF j = i THEN Line(workText[i].number, cells) ELSE workText[j]
        <3>1. i \in 1 .. Len(workText) /\ cells \in Seq(AnyCell)
            BY <1>1, <1>3, <2>1
        <3> QED
            BY <1>4, <2>2, <3>1, LineChanged
    <2> QED
        BY <2>1, <2>3, <2>4
<1> HIDE DEF new
<1>6. \A j \in 1 .. Len(workText) : new[j].number = workText[j].number
    BY <1>1, <1>5 DEF Line
<1> QED
    BY <1>1, <1>2, <1>5, <1>6 DEF KeepsLines, TextType

(* What is left of a line are cells of it. *)
LEMMA RemainingType ==
    ASSUME NEW text \in Seq(TextLine), NEW k \in 1 .. Len(text),
           NEW from \in Lines \X Int, NEW to \in Lines \X Nat
    PROVE  LET rest == Remaining(text, k, from, to)
           IN  /\ rest \in Seq(AnyCell) /\ Len(rest) <= Len(text[k].cells)
               /\ \A n \in 1 .. Len(rest) : \E m \in 1 .. Len(text[k].cells) :
                     rest[n] = text[k].cells[m]
<1> DEFINE cells == text[k].cells
           rest == Remaining(text, k, from, to)
<1>1. cells \in Seq(AnyCell) /\ Len(cells) \in Nat
    <2>1. text[k] \in TextLine
        BY ElementOfSeq
    <2> QED
        BY <2>1, LenProperties DEF TextLine
<1>2. from[2] \in Int /\ to[2] \in Nat
    OBVIOUS
<1>3. CASE k = FirstBehind(from[1]) /\ from[2] > 1
    <2>1. PICK n \in 0 .. Len(cells) : rest = SubSeq(cells, 1, n)
        <3>1. rest = FirstCells(cells, from[2] - 1)
            BY <1>3 DEF Remaining
        <3> HIDE DEF rest, cells
        <3>2. PICK m \in Nat : m = from[2] - 1
            BY <1>2, <1>3
        <3>3. rest = SubSeq(cells, 1, IF m < Len(cells) THEN m ELSE Len(cells))
            BY <3>1, <3>2 DEF FirstCells
        <3>4. CASE m < Len(cells)
            <4>1. m \in 0 .. Len(cells)
                BY <1>1, <3>4
            <4> QED
                BY <3>3, <3>4, <4>1
        <3>5. CASE ~ (m < Len(cells))
            <4>1. Len(cells) \in 0 .. Len(cells)
                BY <1>1
            <4> QED
                BY <3>3, <3>5, <4>1
        <3> QED
            BY <3>4, <3>5
    <2> HIDE DEF rest, cells
    <2>2. /\ SubSeq(cells, 1, n) \in Seq(AnyCell)
          /\ Len(SubSeq(cells, 1, n)) = IF 1 <= n THEN n - 1 + 1 ELSE 0
          /\ \A i \in 1 .. Len(SubSeq(cells, 1, n)) : SubSeq(cells, 1, n)[i] = cells[1 + i - 1]
        BY <1>1, Parts
    <2>3. ASSUME NEW i \in 1 .. Len(rest)
          PROVE  i \in 1 .. Len(cells) /\ rest[i] = cells[i]
        BY <1>1, <2>1, <2>2
    <2>4. Len(rest) <= Len(cells)
        BY <1>1, <2>1, <2>2
    <2> QED
        BY <2>1, <2>2, <2>3, <2>4 DEF rest, cells
<1>4. CASE /\ ~ (k = FirstBehind(from[1]) /\ from[2] > 1)
           /\ k = Adjusted(to[1]) /\ to[2] < Len(cells)
    <2> DEFINE m == to[2] + 1
               part == SubSeq(cells, m, Len(cells))
    <2>1. rest = part /\ m \in Nat /\ m >= 1
        <3>1. rest = CellsBehind(cells, to[2])
            BY <1>4, Zenon DEF Remaining
        <3>2. CellsBehind(cells, to[2]) = part
            BY Zenon DEF CellsBehind
        <3>3. m \in Nat /\ m >= 1
            BY <1>2
        <3> QED
            BY <3>1, <3>2, <3>3, Zenon
    <2> HIDE DEF rest, cells, m
    <2>2. /\ part \in Seq(AnyCell)
          /\ Len(part) = IF m <= Len(cells) THEN Len(cells) - m + 1 ELSE 0
          /\ \A i \in 1 .. Len(part) : part[i] = cells[m + i - 1]
        BY <1>1, <2>1, Parts
    <2>3. ASSUME NEW i \in 1 .. Len(rest)
          PROVE  m + i - 1 \in 1 .. Len(cells) /\ rest[i] = cells[m + i - 1]
        BY <1>1, <2>1, <2>2
    <2>4. Len(rest) <= Len(cells)
        BY <1>1, <2>1, <2>2
    <2> QED
        BY <2>1, <2>2, <2>3, <2>4 DEF rest, cells
<1>5. CASE /\ ~ (k = FirstBehind(from[1]) /\ from[2] > 1)
           /\ ~ (k = Adjusted(to[1]) /\ to[2] < Len(cells))
    <2>1. rest = <<>>
        BY <1>5 DEF Remaining
    <2> HIDE DEF rest, cells
    <2>2. rest \in Seq(AnyCell) /\ Len(rest) = 0
        BY <2>1
    <2>3. \A n \in 1 .. Len(rest) : \E m \in 1 .. Len(cells) : rest[n] = cells[m]
        BY <2>2
    <2> QED
        BY <1>1, <2>2, <2>3 DEF rest, cells
<1> QED
    BY <1>3, <1>4, <1>5

Deleted(text, from, to) ==
    FirstBehind(from[1]) <= Len(text) /\ Adjusted(to[1]) <= Len(text)

LEMMA WithoutText ==
    ASSUME OffsetsType, NEW text \in Seq(TextLine), NEW from \in Lines \X Int, NEW to \in Lines \X Nat
    PROVE  LET new == Without(text, from, to)
           IN  /\ new \in Seq(TextLine) /\ Len(new) = Len(text)
               /\ \A i \in 1 .. Len(text) :
                     /\ new[i].number = text[i].number
                     /\ new[i].cells =
                           IF Deleted(text, from, to)
                              /\ i \in FirstBehind(from[1]) .. Adjusted(to[1])
                           THEN Remaining(text, i, from, to)
                           ELSE text[i].cells
<1> DEFINE new == Without(text, from, to)
           first == FirstBehind(from[1])
           last == Adjusted(to[1])
<1>1. first \in Nat /\ last \in Nat
    <2>1. from[1] \in 0 .. Len(Width) /\ to[1] \in 0 .. Len(Width)
        BY LinesAre
    <2> QED
        BY <2>1, AdjustedNext
<1>2. Len(text) \in Nat /\ DOMAIN text = 1 .. Len(text)
    BY LenProperties
<1>3. \A i \in 1 .. Len(text) : text[i] \in TextLine
    BY ElementOfSeq
<1>4. CASE ~ Deleted(text, from, to)
    <2>1. new = text
        BY <1>1, <1>2, <1>4 DEF Without, Deleted
    <2> QED
        BY <1>4, <2>1
<1>5. CASE Deleted(text, from, to)
    <2>1. ~ (first > Len(text) \/ last > Len(text))
        BY <1>1, <1>2, <1>5 DEF Deleted
    <2>2. new = [k \in 1 .. Len(text) |-> IF k \in first .. last
                                          THEN Line(text[k].number, Remaining(text, k, from, to))
                                          ELSE text[k]]
        BY <1>2, <2>1, Zenon DEF Without
    <2>3. ASSUME NEW k \in 1 .. Len(text)
          PROVE  Line(text[k].number, Remaining(text, k, from, to)) \in TextLine
        BY <1>3, RemainingType DEF TextLine, Line
    <2> HIDE DEF new, first, last
    <2>4. \A k \in 1 .. Len(text) : new[k] \in TextLine
        BY <1>3, <2>2, <2>3
    <2>5. new \in Seq(TextLine) /\ Len(new) = Len(text)
        <3>1. new \in [1 .. Len(text) -> TextLine]
            BY <2>2, <2>4
        <3>2. new \in Seq(TextLine)
            BY <1>2, <3>1, SeqDef
        <3> QED
            BY <1>2, <3>1, <3>2, LenProperties
    <2>6. \A i \in 1 .. Len(text) :
             /\ new[i].number = text[i].number
             /\ new[i].cells = IF i \in first .. last THEN Remaining(text, i, from, to)
                               ELSE text[i].cells
        BY <2>2 DEF Line
    <2> QED
        BY <1>5, <2>5, <2>6 DEF new, first, last
<1> QED
    BY <1>4, <1>5

LEMMA InsertedCells ==
    ASSUME NEW S, NEW s \in Seq(S), NEW new \in Seq(S), NEW n \in 0 .. Len(s)
    PROVE  /\ Inserted(s, n, new) \in Seq(S)
           /\ Len(Inserted(s, n, new)) = Len(s) + Len(new)
           /\ \A i \in 1 .. Len(s) + Len(new) :
                 Inserted(s, n, new)[i] = IF i <= n THEN s[i]
                                          ELSE IF i <= n + Len(new) THEN new[i - n]
                                          ELSE s[i - Len(new)]
<1> DEFINE a == SubSeq(s, 1, n)
           b == SubSeq(s, n + 1, Len(s))
<1>1. Len(s) \in Nat /\ n \in Nat /\ n <= Len(s) /\ Len(new) \in Nat
    BY LenProperties
<1>2. /\ a \in Seq(S) /\ Len(a) = n
      /\ \A i \in 1 .. n : a[i] = s[i]
    <2>1. /\ a \in Seq(S) /\ Len(a) = (IF 1 <= n THEN n - 1 + 1 ELSE 0)
          /\ \A i \in 1 .. Len(a) : a[i] = s[1 + i - 1]
        BY <1>1, Parts
    <2> HIDE DEF a
    <2> QED
        BY <1>1, <2>1
<1>3. /\ b \in Seq(S) /\ Len(b) = Len(s) - n
      /\ \A i \in 1 .. Len(s) - n : b[i] = s[n + i]
    <2> DEFINE m == n + 1
    <2>1. m \in Nat /\ m >= 1 /\ Len(s) \in 0 .. Len(s)
        BY <1>1
    <2> HIDE DEF m
    <2>2. /\ SubSeq(s, m, Len(s)) \in Seq(S)
          /\ Len(SubSeq(s, m, Len(s))) = (IF m <= Len(s) THEN Len(s) - m + 1 ELSE 0)
          /\ \A i \in 1 .. Len(SubSeq(s, m, Len(s))) : SubSeq(s, m, Len(s))[i] = s[m + i - 1]
        BY <2>1, Parts
    <2>3. b = SubSeq(s, m, Len(s)) /\ m = n + 1
        BY DEF m
    <2> HIDE DEF b
    <2> QED
        BY <1>1, <2>2, <2>3
<1> HIDE DEF a, b
<1> DEFINE c == a \o new
<1>4. /\ c \in Seq(S) /\ Len(c) = n + Len(new)
      /\ \A i \in 1 .. n + Len(new) : c[i] = IF i <= n THEN a[i] ELSE new[i - n]
    <2>1. a \in Seq(S) /\ new \in Seq(S)
        BY <1>2
    <2>2. /\ c \in Seq(S) /\ Len(c) = Len(a) + Len(new)
          /\ \A i \in 1 .. Len(a) + Len(new) :
                c[i] = IF i <= Len(a) THEN a[i] ELSE new[i - Len(a)]
        BY <2>1, ConcatProperties
    <2> HIDE DEF c
    <2> QED
        BY <1>2, <2>2
<1> HIDE DEF c
<1>5. /\ c \o b \in Seq(S) /\ Len(c \o b) = Len(c) + Len(b)
      /\ \A i \in 1 .. Len(c) + Len(b) :
            (c \o b)[i] = IF i <= Len(c) THEN c[i] ELSE b[i - Len(c)]
    <2>1. c \in Seq(S) /\ b \in Seq(S)
        BY <1>3, <1>4
    <2> QED
        BY <2>1, ConcatProperties
<1>6. Inserted(s, n, new) = c \o b
    BY DEF Inserted, a, b, c
<1>7. Len(c) + Len(b) = Len(s) + Len(new)
    BY <1>1, <1>3, <1>4
<1>8. ASSUME NEW i \in 1 .. Len(s) + Len(new)
      PROVE  (c \o b)[i] = IF i <= n THEN s[i] ELSE IF i <= n + Len(new) THEN new[i - n]
                           ELSE s[i - Len(new)]
    <2>1. i \in Nat /\ i \in 1 .. Len(c) + Len(b)
        BY <1>1, <1>7
    <2>2. CASE i <= n + Len(new)
        <3>1. (c \o b)[i] = c[i] /\ i \in 1 .. n + Len(new)
            BY <1>4, <1>5, <2>1, <2>2
        <3> QED
            BY <1>1, <1>2, <1>4, <2>2, <3>1
    <2>3. CASE ~ (i <= n + Len(new))
        <3> DEFINE j == i - (n + Len(new))
        <3>1. j \in 1 .. Len(s) - n /\ n + j = i - Len(new) /\ ~ (i <= n)
            BY <1>1, <2>1, <2>3
        <3>2. (c \o b)[i] = b[j]
            BY <1>4, <1>5, <2>1, <2>3
        <3>3. b[j] = s[n + j]
            BY <1>3, <3>1
        <3> QED
            BY <2>3, <3>1, <3>2, <3>3
    <2> QED
        BY <2>2, <2>3
<1> QED
    BY <1>5, <1>6, <1>7, <1>8

Sign == Snippet("negation", 0)

(* What Negated makes of the cells old of a line. *)
Negation(old, new, cond, condEnd) ==
    /\ new \in Seq(AnyCell) /\ Len(new) = Len(old) + 3
    /\ \A n \in 1 .. Len(new) :
          \/ new[n] = Sign
          \/ \E m \in 1 .. Len(old) : /\ new[n] = old[m]
                                      /\ cond - 2 <= condEnd => m <= condEnd \/ m = n - 3
    /\ \A m \in 1 .. Len(old) : \E n \in m .. m + 3 : n <= Len(new) /\ new[n] = old[m]

LEMMA NegatedCells ==
    ASSUME NEW old \in Seq(AnyCell), NEW cond \in Nat, NEW condEnd \in Nat,
           cond - 2 \in 0 .. Len(old), condEnd <= Len(old)
    PROVE  Negation(old, Negated(old, cond - 1, condEnd + 1), cond, condEnd)
<1> DEFINE c == cond - 2
           two == <<Sign, Sign>>
           one == <<Sign>>
           x == Inserted(old, c, two)
           y == Inserted(x, condEnd + 2, one)
<1>1. Len(old) \in Nat /\ c \in Nat /\ c <= Len(old) /\ c = (cond - 1) - 1
    BY LenProperties
<1>2. Negated(old, cond - 1, condEnd + 1) = y
    <2>1. (condEnd + 1) + 1 = condEnd + 2
        OBVIOUS
    <2> QED
        BY <1>1, <2>1 DEF Negated, Sign
<1>3. Sign \in AnyCell
    BY SnippetTypes, WidthType DEF Sign
<1>4. /\ two \in Seq(AnyCell) /\ Len(two) = 2 /\ \A i \in 1 .. 2 : two[i] = Sign
      /\ one \in Seq(AnyCell) /\ Len(one) = 1 /\ one[1] = Sign
    BY <1>3
<1>5. /\ x \in Seq(AnyCell) /\ Len(x) = Len(old) + 2
      /\ \A i \in 1 .. Len(old) + 2 :
            x[i] = IF i <= c THEN old[i] ELSE IF i <= c + 2 THEN Sign ELSE old[i - 2]
    <2>1. two \in Seq(AnyCell) /\ c \in 0 .. Len(old)
        BY <1>1, <1>4
    <2> HIDE DEF two, c
    <2>2. /\ x \in Seq(AnyCell) /\ Len(x) = Len(old) + Len(two)
          /\ \A i \in 1 .. Len(old) + Len(two) :
                x[i] = IF i <= c THEN old[i] ELSE IF i <= c + Len(two) THEN two[i - c]
                       ELSE old[i - Len(two)]
        BY <2>1, InsertedCells
    <2> HIDE DEF x
    <2>3. \A i \in 1 .. Len(old) + 2 : ~ (i <= c) /\ i <= c + 2 => i - c \in 1 .. 2
        BY <1>1
    <2> QED
        BY <1>4, <2>2, <2>3
<1> HIDE DEF x, c, two
<1>6. /\ y \in Seq(AnyCell) /\ Len(y) = Len(old) + 3
      /\ \A i \in 1 .. Len(old) + 3 :
            y[i] = IF i <= condEnd + 2 THEN x[i] ELSE IF i = condEnd + 3 THEN Sign ELSE x[i - 1]
    <2> DEFINE e == condEnd + 2
    <2>1. one \in Seq(AnyCell) /\ x \in Seq(AnyCell) /\ e \in 0 .. Len(x)
        BY <1>1, <1>4, <1>5
    <2>2. /\ y \in Seq(AnyCell) /\ Len(y) = Len(x) + Len(one)
          /\ \A i \in 1 .. Len(x) + Len(one) :
                y[i] = IF i <= e THEN x[i] ELSE IF i <= e + Len(one) THEN one[i - e]
                       ELSE x[i - Len(one)]
        <3> HIDE DEF one, e
        <3>1. /\ Inserted(x, e, one) \in Seq(AnyCell)
              /\ Len(Inserted(x, e, one)) = Len(x) + Len(one)
              /\ \A i \in 1 .. Len(x) + Len(one) :
                    Inserted(x, e, one)[i] = IF i <= e THEN x[i]
                                             ELSE IF i <= e + Len(one) THEN one[i - e]
                                             ELSE x[i - Len(one)]
            BY <2>1, InsertedCells
        <3> QED
            BY <3>1 DEF e
    <2> HIDE DEF y, one
    <2>3. \A i \in 1 .. Len(old) + 3 :
             ~ (i <= condEnd + 2) /\ i <= condEnd + 3 <=> i = condEnd + 3
        BY <1>1
    <2> QED
        BY <1>1, <1>4, <1>5, <2>2, <2>3
<1> HIDE DEF y
<1>7. ASSUME NEW n \in 1 .. Len(y)
      PROVE  \/ y[n] = Sign
             \/ \E m \in 1 .. Len(old) : /\ y[n] = old[m]
                                         /\ cond - 2 <= condEnd => m <= condEnd \/ m = n - 3
    <2>0. n \in Nat /\ n \in 1 .. Len(old) + 3 /\ cond - 2 = c
        BY <1>1, <1>6 DEF c
    <2>1. CASE n <= condEnd + 2
        <3>1. y[n] = x[n] /\ n \in 1 .. Len(old) + 2
            BY <1>1, <1>6, <2>0, <2>1
        <3>2. CASE n <= c
            <4>1. y[n] = old[n] /\ n \in 1 .. Len(old) /\ (c <= condEnd => n <= condEnd)
                BY <1>1, <1>5, <2>0, <3>1, <3>2
            <4> QED
                BY <2>0, <4>1
        <3>3. CASE ~ (n <= c) /\ n <= c + 2
            BY <1>5, <3>1, <3>3
        <3>4. CASE ~ (n <= c + 2)
            <4>1. y[n] = old[n - 2] /\ n - 2 \in 1 .. Len(old) /\ n - 2 <= condEnd
                BY <1>1, <1>5, <2>0, <2>1, <3>1, <3>4
            <4> QED
                BY <4>1
        <3> QED
            BY <3>2, <3>3, <3>4
    <2>2. CASE n = condEnd + 3
        BY <1>6, <2>0, <2>2
    <2>3. CASE ~ (n <= condEnd + 2) /\ n # condEnd + 3
        <3>1. y[n] = x[n - 1] /\ n - 1 \in 1 .. Len(old) + 2
            BY <1>1, <1>6, <2>0, <2>3
        <3>2. CASE n - 1 <= c
            <4>1. y[n] = old[n - 1] /\ n - 1 \in 1 .. Len(old) /\ ~ (c <= condEnd)
                BY <1>1, <1>5, <2>0, <2>3, <3>1, <3>2
            <4> QED
                BY <2>0, <4>1
        <3>3. CASE ~ (n - 1 <= c) /\ n - 1 <= c + 2
            BY <1>5, <3>1, <3>3
        <3>4. CASE ~ (n - 1 <= c + 2)
            <4>1. y[n] = old[n - 3] /\ n - 3 \in 1 .. Len(old)
                <5>1. (n - 1) - 2 = n - 3 /\ n - 3 \in 1 .. Len(old)
                    BY <1>1, <2>0, <3>1, <3>4
                <5> QED
                    BY <1>1, <1>5, <2>0, <3>1, <3>4, <5>1
            <4> QED
                BY <4>1
        <3> QED
            BY <3>2, <3>3, <3>4
    <2> QED
        BY <2>1, <2>2, <2>3
<1>8. ASSUME NEW m \in 1 .. Len(old)
      PROVE  \E n \in m .. m + 3 : n <= Len(y) /\ y[n] = old[m]
    <2>1. PICK i \in {m, m + 2} : i \in 1 .. Len(old) + 2 /\ x[i] = old[m]
        <3>1. CASE m <= c
            BY <1>1, <1>5, <3>1
        <3>2. CASE ~ (m <= c)
            <4>1. m + 2 \in 1 .. Len(old) + 2 /\ ~ (m + 2 <= c) /\ ~ (m + 2 <= c + 2) /\ (m + 2) - 2 = m
                BY <1>1, <3>2
            <4>2. x[m + 2] = old[m]
                BY <1>5, <4>1
            <4> QED
                BY <4>1, <4>2
        <3> QED
            BY <3>1, <3>2
    <2>2. m \in Nat /\ i \in Nat
        BY <1>1, <2>1
    <2>3. CASE i <= condEnd + 2
        <3>1. i \in 1 .. Len(old) + 3 /\ i \in m .. m + 3 /\ i <= Len(y)
            BY <1>1, <1>6, <2>1, <2>2
        <3>2. y[i] = old[m]
            BY <1>6, <2>1, <2>3, <3>1
        <3> QED
            BY <3>1, <3>2
    <2>4. CASE ~ (i <= condEnd + 2)
        <3>1. /\ i + 1 \in 1 .. Len(old) + 3 /\ i + 1 \in m .. m + 3 /\ i + 1 <= Len(y)
              /\ ~ (i + 1 <= condEnd + 2) /\ i + 1 # condEnd + 3 /\ (i + 1) - 1 = i
            BY <1>1, <1>6, <2>1, <2>2, <2>4
        <3>2. y[i + 1] = old[m]
            BY <1>6, <2>1, <3>1
        <3> QED
            BY <3>1, <3>2
    <2> QED
        BY <2>3, <2>4
<1> QED
    BY <1>2, <1>6, <1>7, <1>8 DEF Negation

LEMMA NegationText ==
    ASSUME OffsetsType, TextType, NEW b \in Branch, CanNegate(b)
    PROVE  LET new == WithNegation(b)
               k == NegationLine(b)
           IN  /\ new \in Seq(TextLine) /\ Len(new) = Len(workText)
               /\ \A i \in 1 .. Len(workText) :
                     /\ new[i].number = workText[i].number
                     /\ i # k => new[i].cells = workText[i].cells
                     /\ i = k => Negation(workText[k].cells, new[k].cells, b.cond[2], b.condEnd[2])
                                 /\ b.condEnd[2] <= Len(workText[k].cells)
<1> DEFINE new == WithNegation(b)
           k == NegationLine(b)
           old == workText[k].cells
           cells == Negated(old, b.cond[2] - 1, b.condEnd[2] + 1)
<1>1. b.cond[1] \in 0 .. Len(Width) /\ b.cond[2] \in Nat /\ b.condEnd[2] \in Nat /\ b.cond[1] # 0
    BY LinesAre DEF Branch, Position
<1>2. k \in Nat /\ k >= 1
    <2>1. /\ Adjusted(b.cond[1]) \in Nat /\ Adjusted(b.cond[1]) >= b.cond[1]
          /\ FirstBehind(b.cond[1]) = Adjusted(b.cond[1]) + offsets[b.cond[1]]
          /\ offsets[b.cond[1]] \in Nat
        BY <1>1, AdjustedNext
    <2> QED
        BY <1>1, <2>1, WidthType DEF NegationLine
<1>3. workText \in Seq(TextLine) /\ Len(workText) \in Nat
    BY TextFacts DEF TextType
<1>4. CASE k > Len(workText)
    <2>1. new = workText
        BY <1>4 DEF WithNegation
    <2>2. \A i \in 1 .. Len(workText) : i # k
        BY <1>2, <1>3, <1>4
    <2> QED
        BY <1>3, <2>1, <2>2
<1>5. CASE ~ (k > Len(workText))
    <2>1. new = [workText EXCEPT ![k].cells = cells] /\ k \in 1 .. Len(workText)
        BY <1>2, <1>3, <1>5 DEF WithNegation
    <2>2. old \in Seq(AnyCell)
        <3>1. workText[k] \in TextLine
            BY <2>1, TextFacts
        <3> QED
            BY <3>1 DEF TextLine
    <2>3. b.cond[2] - 2 \in 0 .. Len(old) /\ b.condEnd[2] <= Len(old)
        BY <1>2, <1>3, <1>5 DEF CanNegate
    <2>4. Negation(old, cells, b.cond[2], b.condEnd[2])
        BY <1>1, <2>2, <2>3, NegatedCells
    <2>5. cells \in Seq(AnyCell)
        BY <2>4 DEF Negation
    <2> HIDE DEF new, cells, old
    <2>6. /\ new \in Seq(TextLine) /\ Len(new) = Len(workText)
          /\ \A j \in 1 .. Len(workText) :
                new[j] = IF j = k THEN Line(workText[k].number, cells) ELSE workText[j]
        BY <1>3, <2>1, <2>5, LineChanged
    <2>7. new[k].cells = cells
        BY <2>1, <2>6 DEF Line
    <2>8. \A i \in 1 .. Len(workText) :
             new[i].number = workText[i].number /\ (i # k => new[i].cells = workText[i].cells)
        BY <2>6 DEF Line
    <2> QED
        BY <2>3, <2>4, <2>6, <2>7, <2>8 DEF new, old
<1> QED
    BY <1>4, <1>5

(* Where the ranges begin and end that deleteEitherBranch deletes. *)
ThenRange(b) == <<<<b.then[1], b.then[2] + 3>>, <<b.else[1], b.else[2] - 1>>>>
ElseRange(b) == <<<<b.else[1], b.else[2] - 4>>, b.end>>

LEMMA BranchRanges ==
    ASSUME NEW b \in Branch
    PROVE  /\ b.start \in Lines \X Int /\ b.end \in Lines \X Nat
           /\ b.else # NoElse => /\ ThenRange(b)[1] \in Lines \X Int
                                 /\ ThenRange(b)[2] \in Lines \X Nat
                                 /\ ElseRange(b)[1] \in Lines \X Int
                                 /\ ElseRange(b)[2] \in Lines \X Nat
<1>1. /\ b.start \in Position /\ b.end \in Position /\ b.then \in Position
      /\ b.else # NoElse => b.else \in Position
    BY DEF Branch
<1> QED
    BY <1>1 DEF Position, ThenRange, ElseRange

LEMMA WithoutKeeps ==
    ASSUME OffsetsType, TextType, NEW from \in Lines \X Int, NEW to \in Lines \X Nat,
           UNCHANGED offsets, workText' = Without(workText, from, to)
    PROVE  KeepsLines
<1>1. workText \in Seq(TextLine)
    BY DEF TextType
<1>2. /\ Without(workText, from, to) \in Seq(TextLine)
      /\ Len(Without(workText, from, to)) = Len(workText)
      /\ \A i \in 1 .. Len(workText) :
            Without(workText, from, to)[i].number = workText[i].number
    BY <1>1, WithoutText
<1> QED
    BY <1>2 DEF KeepsLines, TextType

LEMMA UnchangedKeeps ==
    ASSUME TextType, UNCHANGED <<workText, offsets>>
    PROVE  KeepsLines
BY DEF KeepsLines, TextType

LEMMA BranchKeeps ==
    ASSUME OffsetsType, TextType, NEW b \in Branch, NEW condValue \in BOOLEAN,
           DeleteEitherBranch(b, condValue)
    PROVE  KeepsLines
<1>1. UNCHANGED offsets
    BY DEF DeleteEitherBranch
<1>2. CASE b.else # NoElse /\ condValue
    <2>1. DeleteThen(b)
        BY <1>2 DEF DeleteEitherBranch
    <2>2. CASE CanNegate(b)
        <3> DEFINE text == WithNegation(b)
                   new == Without(text, ThenRange(b)[1], ThenRange(b)[2])
        <3>1. workText' = new
            BY <2>1, <2>2 DEF DeleteThen, ThenRange
        <3>2. /\ text \in Seq(TextLine) /\ Len(text) = Len(workText)
              /\ \A i \in 1 .. Len(workText) : text[i].number = workText[i].number
            BY <2>2, NegationText
        <3> HIDE DEF text
        <3>3. /\ new \in Seq(TextLine) /\ Len(new) = Len(text)
              /\ \A i \in 1 .. Len(text) : new[i].number = text[i].number
            BY <1>2, <3>2, BranchRanges, WithoutText
        <3> QED
            BY <1>1, <3>1, <3>2, <3>3 DEF KeepsLines, TextType
    <2>3. CASE ~ CanNegate(b)
        BY <1>1, <2>1, <2>3, UnchangedKeeps DEF DeleteThen
    <2> QED
        BY <2>2, <2>3
<1>3. CASE b.else # NoElse /\ ~ condValue
    <2>1. workText' = Without(workText, ElseRange(b)[1], ElseRange(b)[2])
        BY <1>3 DEF DeleteEitherBranch, DeleteElse, Deletes, ElseRange
    <2> QED
        BY <1>1, <1>3, <2>1, BranchRanges, WithoutKeeps
<1>4. CASE b.else = NoElse /\ condValue
    <2>1. workText' = Without(workText, b.start, b.end)
        BY <1>4 DEF DeleteEitherBranch, DeleteWhole, Deletes
    <2> QED
        BY <1>1, <2>1, BranchRanges, WithoutKeeps
<1>5. CASE b.else = NoElse /\ ~ condValue
    <2>1. UNCHANGED workText
        BY <1>5 DEF DeleteEitherBranch
    <2> QED
        BY <1>1, <2>1, UnchangedKeeps
<1> QED
    BY <1>2, <1>3, <1>4, <1>5

LEMMA FilledType ==
    ASSUME NEW c \in AnyCell, NEW number, NEW name, <<number, name>> \in Named
    PROVE  /\ Filled(c, number, name) \in AnyCell
           /\ Filled(c, number, name).line = c.line /\ Filled(c, number, name).col = c.col
           /\ \/ Filled(c, number, name) = c
              \/ c.kind = "source" /\ Filled(c, number, name).kind = "filled"
<1> DEFINE new == [kind |-> "filled", line |-> c.line, col |-> c.col, as |-> <<number, name>>]
<1>1. [c EXCEPT !.kind = "filled", !.as = <<number, name>>] = new
    <2>1. c = [kind |-> c.kind, line |-> c.line, col |-> c.col, as |-> c.as]
        BY DEF AnyCell
    <2> DEFINE kinded == [c EXCEPT !.kind = "filled"]
    <2>2. kinded = [kind |-> "filled", line |-> c.line, col |-> c.col, as |-> c.as]
        BY <2>1
    <2>3. [c EXCEPT !.kind = "filled", !.as = <<number, name>>]
              = [kinded EXCEPT !.as = <<number, name>>]
        OBVIOUS
    <2> HIDE DEF kinded
    <2>4. [kinded EXCEPT !.as = <<number, name>>] = new
        BY <2>2
    <2> QED
        BY <2>3, <2>4
<1>2. new \in AnyCell
    BY DEF AnyCell, Kinds
<1>3. Filled(c, number, name) = c \/ (Filled(c, number, name) = new /\ c.kind = "source")
    BY <1>1, Zenon DEF Filled
<1> QED
    BY <1>2, <1>3

LEMMA FillText ==
    ASSUME TextType, NEW number, NEW name, <<number, name>> \in Named, Fill(number, name)
    PROVE  /\ KeepsLines
           /\ \A i \in 1 .. Len(workText) :
                 /\ Len(workText'[i].cells) = Len(workText[i].cells)
                 /\ \A c \in 1 .. Len(workText[i].cells) :
                       workText'[i].cells[c] = Filled(workText[i].cells[c], number, name)
<1> DEFINE n == Len(workText)
           new(i) == [c \in DOMAIN workText[i].cells |-> Filled(workText[i].cells[c], number, name)]
<1>1. n \in Nat /\ DOMAIN workText = 1 .. n /\ \A i \in 1 .. n : workText[i] \in TextLine
    BY TextFacts
<1>2. ASSUME NEW i \in 1 .. n
      PROVE  /\ new(i) \in Seq(AnyCell) /\ Len(new(i)) = Len(workText[i].cells)
             /\ \A c \in 1 .. Len(workText[i].cells) :
                   new(i)[c] = Filled(workText[i].cells[c], number, name)
    <2> DEFINE cells == workText[i].cells
    <2>1. cells \in Seq(AnyCell)
        BY <1>1 DEF TextLine
    <2>2. Len(cells) \in Nat /\ DOMAIN cells = 1 .. Len(cells)
          /\ \A c \in 1 .. Len(cells) : cells[c] \in AnyCell
        BY <2>1, LenProperties, ElementOfSeq
    <2>3. \A c \in 1 .. Len(cells) : Filled(cells[c], number, name) \in AnyCell
        BY <2>2, FilledType
    <2>4. new(i) = [c \in 1 .. Len(cells) |-> Filled(cells[c], number, name)]
        BY <2>2
    <2> HIDE DEF cells, new
    <2>5. new(i) \in [1 .. Len(cells) -> AnyCell]
        BY <2>3, <2>4
    <2>6. new(i) \in Seq(AnyCell) /\ Len(new(i)) = Len(cells)
        <3>1. new(i) \in Seq(AnyCell)
            BY <2>2, <2>5, SeqDef
        <3>2. DOMAIN new(i) = 1 .. Len(new(i)) /\ Len(new(i)) \in Nat
            BY <3>1, LenProperties
        <3> QED
            BY <2>2, <2>5, <3>1, <3>2
    <2> QED
        BY <2>4, <2>6 DEF cells
<1>3. workText' = [i \in 1 .. n |-> Line(workText[i].number, new(i))]
    BY <1>1 DEF Fill
<1> HIDE DEF new, n
<1>4. \A i \in 1 .. n : workText'[i] \in TextLine
    BY <1>1, <1>2, <1>3 DEF TextLine, Line
<1>5. workText' \in Seq(TextLine) /\ Len(workText') = n
    <2>1. workText' \in [1 .. n -> TextLine]
        BY <1>3, <1>4
    <2>2. workText' \in Seq(TextLine)
        BY <1>1, <2>1, SeqDef
    <2>3. DOMAIN workText' = 1 .. Len(workText') /\ Len(workText') \in Nat
        BY <2>2, LenProperties
    <2> QED
        BY <1>1, <2>1, <2>2, <2>3
<1>6. \A i \in 1 .. n : workText'[i].number = workText[i].number /\ workText'[i].cells = new(i)
    BY <1>3 DEF Line
<1>7. UNCHANGED offsets
    BY DEF Fill
<1> QED
    BY <1>2, <1>5, <1>6, <1>7 DEF KeepsLines, TextType, n

-----------------------------------------------------------------------------
(* lineOffsetMap leads to every line.                                      *)

LEMMA FirstText ==
    ASSUME Init
    PROVE  /\ TextType /\ Len(workText) = Len(Width)
           /\ \A l \in Lines :
                 /\ workText[l].number = l
                 /\ Len(workText[l].cells) = Width[l]
                 /\ \A c \in 1 .. Width[l] : workText[l].cells[c] = Cell("source", l, c)
<1> DEFINE new(l) == [c \in 1 .. Width[l] |-> Cell("source", l, c)]
<1>1. Lines = 1 .. Len(Width) /\ Len(Width) \in Nat /\ \A l \in Lines : Width[l] \in Nat
    BY WidthType, ElementOfSeq DEF Lines
<1>2. ASSUME NEW l \in Lines
      PROVE  new(l) \in Seq(AnyCell) /\ Len(new(l)) = Width[l]
    <2>1. \A c \in 1 .. Width[l] : Cell("source", l, c) \in AnyCell
        BY <1>1 DEF Cell, AnyCell, Kinds
    <2>2. new(l) \in [1 .. Width[l] -> AnyCell]
        BY <2>1
    <2> HIDE DEF new
    <2>3. new(l) \in Seq(AnyCell)
        BY <1>1, <2>2, SeqDef
    <2>4. DOMAIN new(l) = 1 .. Len(new(l)) /\ Len(new(l)) \in Nat
        BY <2>3, LenProperties
    <2> QED
        BY <1>1, <2>2, <2>3, <2>4
<1>3. workText = [l \in 1 .. Len(Width) |-> Line(l, new(l))]
    BY <1>1 DEF Init
<1>4. \A l \in Lines : \A c \in 1 .. Width[l] : new(l)[c] = Cell("source", l, c)
    OBVIOUS
<1> HIDE DEF new
<1>5. workText \in [1 .. Len(Width) -> TextLine]
    <2>1. \A l \in 1 .. Len(Width) : Line(l, new(l)) \in TextLine
        BY <1>1, <1>2 DEF TextLine, Line
    <2> QED
        BY <1>3, <2>1
<1>6. workText \in Seq(TextLine)
    BY <1>1, <1>5, SeqDef
<1>7. Len(workText) = Len(Width)
    <2>1. DOMAIN workText = 1 .. Len(workText) /\ Len(workText) \in Nat
        BY <1>6, LenProperties
    <2> QED
        BY <1>1, <1>5, <2>1
<1>8. \A l \in Lines : workText[l].number = l /\ workText[l].cells = new(l)
    BY <1>1, <1>3 DEF Line
<1> QED
    BY <1>2, <1>4, <1>6, <1>7, <1>8 DEF TextType

LEMMA FirstOffsets ==
    ASSUME Init
    PROVE  /\ OffsetsType /\ OffsetsEnd
           /\ \A l \in 0 .. Len(Width) + 1 : Adjusted(l) = l
<1> DEFINE N == {n \in Nat : n <= Len(Width) + 1 => Adjusted(n) = n}
<1>1. Len(Width) \in Nat /\ MaxEdits \in Nat
    BY WidthType
<1>2. OffsetsType /\ OffsetsEnd /\ \A k \in Keys : offsets[k] = 0
    BY <1>1 DEF Init, OffsetsType, OffsetsEnd, Keys
<1>3. 0 \in N
    BY AdjustedZero
<1>4. ASSUME NEW n \in Nat, n \in N
      PROVE  n + 1 \in N
    <2>1. SUFFICES ASSUME n + 1 <= Len(Width) + 1
                   PROVE  Adjusted(n + 1) = n + 1
        OBVIOUS
    <2>2. n \in 0 .. Len(Width) /\ n \in Keys /\ Adjusted(n) = n
        BY <1>1, <1>4, <2>1 DEF Keys
    <2>3. /\ Adjusted(n) \in Nat
          /\ FirstBehind(n) = Adjusted(n) + offsets[n]
          /\ Adjusted(n + 1) = FirstBehind(n) + 1
        BY <1>2, <2>2, AdjustedNext
    <2> QED
        BY <1>2, <2>2, <2>3
<1> HIDE DEF N
<1>5. \A n \in Nat : n \in N
    BY <1>3, <1>4, Induction
<1> QED
    BY <1>1, <1>2, <1>5 DEF N

LEMMA FirstPlaced ==
    ASSUME Init
    PROVE  LinesInv
<1>1. /\ TextType /\ Len(workText) = Len(Width) /\ \A l \in Lines : workText[l].number = l
      /\ OffsetsType /\ OffsetsEnd /\ \A l \in 0 .. Len(Width) + 1 : Adjusted(l) = l
    BY FirstText, FirstOffsets
<1>2. Lines = 1 .. Len(Width) /\ Len(Width) \in Nat /\ DOMAIN workText = Lines
    BY <1>1, WidthType, TextFacts DEF Lines
<1>3. ASSUME NEW l \in Lines
      PROVE  /\ Adjusted(l) <= Len(workText)
             /\ \A i \in DOMAIN workText : workText[i].number = l <=> i = Adjusted(l)
    <2>1. Adjusted(l) = l
        BY <1>1, <1>2
    <2> QED
        BY <1>1, <1>2, <2>1
<1> QED
    BY <1>1, <1>3 DEF LinesInv, Placed

LEMMA KeepsLinesInv ==
    ASSUME LinesInv, KeepsLines, UNCHANGED at
    PROVE  LinesInv'
<1>1. OffsetsType' /\ Placed'
    BY KeepsPlaced DEF LinesInv
<1>2. OffsetsEnd' /\ TextType'
    BY DEF LinesInv, OffsetsEnd, KeepsLines
<1> QED
    BY <1>1, <1>2 DEF LinesInv

LEMMA InsertsLinesInv ==
    ASSUME LinesInv, NEW k, NEW w \in AnyCell, Inserts(k, w), OffsetsType', OffsetsEnd'
    PROVE  LinesInv'
<1>1. TextType' /\ Placed'
    BY InsertedText, InsertsPlaced DEF LinesInv
<1> QED
    BY <1>1 DEF LinesInv

(* A line is added behind the last one: the text stays as it is. *)
LEMMA EndLinesInv ==
    ASSUME LinesInv, Adds1(Len(Width)), UNCHANGED workText, OffsetsType', OffsetsEnd'
    PROVE  LinesInv' /\ \A l \in 0 .. Len(Width) : Adjusted(l)' = Adjusted(l)
<1>1. ASSUME NEW l \in 0 .. Len(Width)
      PROVE  Adjusted(l)' = Adjusted(l)
    <2>1. /\ Len(Width) \in 0 .. Len(Width) /\ l \in 0 .. Len(Width) + 1 /\ ~ (Len(Width) < l)
          /\ OffsetsType
        BY WidthType DEF LinesInv
    <2>2. Adjusted(l)' = Adjusted(l) + 0
        BY <2>1, AdjustedAdds
    <2>3. Adjusted(l) \in Nat
        BY <2>1, AdjustedType
    <2> QED
        BY <2>2, <2>3
<1>2. Placed'
    BY <1>1, LinesAre DEF LinesInv, Placed
<1> QED
    BY <1>1, <1>2 DEF LinesInv, TextType

LEMMA NamedAre ==
    ASSUME NEW f \in Fillings
    PROVE  <<f[1], f[2]>> \in Named /\ <<f[1], "">> \in Named
BY DEF Named

LEMMA LinesStep ==
    ASSUME Careful, LinesInv, [Next]_vars
    PROVE  LinesInv'
<1> USE ModificationAssumption
<1>0. OffsetsType /\ TextType /\ Placed
    BY DEF LinesInv
<1>1. ASSUME NEW l \in AfterLines, AddNewCodeSnippetAfter(l)
      PROVE  LinesInv'
    <2>1. l \in Lines /\ l \in 0 .. Len(Width)
        BY LinesAre
    <2>2. /\ OffsetsType' /\ OffsetsEnd' /\ Adds1(l)
          /\ Inserts(l, Snippet("after", l)) \/ (l = Len(Width) /\ workText' = workText)
        BY <1>1, <2>1, AfterStep
    <2>3. Snippet("after", l) \in AnyCell
        BY <2>1, SnippetTypes
    <2> QED
        BY <2>2, <2>3, InsertsLinesInv, EndLinesInv
<1>2. ASSUME NEW l \in BeforeLines, AddNewCodeSnippetBefore(l)
      PROVE  LinesInv'
    <2>1. l \in Lines /\ l \in 0 .. Len(Width)
        BY LinesAre
    <2>2. OffsetsType' /\ OffsetsEnd' /\ Inserts(l - 1, Snippet("before", l))
        BY <1>2, <2>1, BeforeStep
    <2>3. Snippet("before", l) \in AnyCell
        BY <2>1, SnippetTypes
    <2> QED
        BY <2>2, <2>3, InsertsLinesInv
<1>3. ASSUME NEW l \in ReplaceLines, Replace(l)
      PROVE  LinesInv'
    <2>1. l \in Lines
        OBVIOUS
    <2>2. KeepsLines
        BY <1>0, <1>3, <2>1, ReplaceText
    <2>3. UNCHANGED at
        BY <1>3 DEF Replace
    <2> QED
        BY <2>2, <2>3, KeepsLinesInv
<1>4. ASSUME NEW r \in Ranges, DeleteCodeRange(r[1], r[2])
      PROVE  LinesInv'
    <2>1. r[1] \in Lines \X Int /\ r[2] \in Lines \X Nat
        BY DEF Position
    <2>2. KeepsLines
        BY <1>0, <1>4, <2>1, WithoutKeeps DEF DeleteCodeRange, Deletes
    <2>3. UNCHANGED at
        BY <1>4 DEF DeleteCodeRange
    <2> QED
        BY <2>2, <2>3, KeepsLinesInv
<1>5. ASSUME NEW b \in Branches, DeleteEitherBranch(b[1], b[2])
      PROVE  LinesInv'
    <2>1. b[1] \in Branch /\ b[2] \in BOOLEAN
        OBVIOUS
    <2>2. KeepsLines
        BY <1>0, <1>5, <2>1, BranchKeeps
    <2>3. UNCHANGED at
        BY <1>5 DEF DeleteEitherBranch
    <2> QED
        BY <2>2, <2>3, KeepsLinesInv
<1>6. ASSUME NEW f \in Fillings, NEW name, <<f[1], name>> \in Named, Fill(f[1], name)
      PROVE  LinesInv'
    <2>1. KeepsLines
        BY <1>0, <1>6, FillText
    <2>2. UNCHANGED at
        BY <1>6 DEF Fill
    <2> QED
        BY <2>1, <2>2, KeepsLinesInv
<1>7. CASE UNCHANGED vars
    <2>1. KeepsLines /\ UNCHANGED at
        BY <1>0, <1>7, UnchangedKeeps DEF vars
    <2> QED
        BY <2>1, KeepsLinesInv
<1> QED
    BY <1>1, <1>2, <1>3, <1>4, <1>5, <1>6, <1>7, NamedAre
    DEF Next, SetHoleFilling, SetHoleFillingFrom

(* lineOffsetMap leads from every line of the file to where it is in the   *)
(* text, after any edits of any file, as long as lines are added from the  *)
(* top to the bottom.                                                      *)
THEOREM OffsetsLead ==
    ASSUME Careful
    PROVE  Spec => []Aligned
<1>1. Init => LinesInv
    BY FirstPlaced
<1>2. LinesInv /\ [Next]_vars => LinesInv'
    BY LinesStep
<1>3. LinesInv => Aligned
    BY LineIn DEF LinesInv, Aligned
<1> QED
    BY <1>1, <1>2, <1>3, PTL DEF Spec

-----------------------------------------------------------------------------
(* Texts that are added are where they were meant to be.                   *)

(* Line i of the text is behind line k of the file and before the next.    *)
Gap(k, i) == Adjusted(k) < i /\ i < Adjusted(k + 1)

InGap(c, i) ==
    /\ c.kind = "after" => Gap(c.line, i)
    /\ c.kind = "before" => c.line # 0 /\ Gap(c.line - 1, i)
    /\ c.kind = "instead" => c.line # 0 /\ workText[i].number = c.line

Has(i, c) == \E n \in 1 .. Len(workText[i].cells) : workText[i].cells[n] = c

CellsInGap == \A i \in 1 .. Len(workText) : \A c \in AnyCell : Has(i, c) => InGap(c, i)

Texts == {Snippet(kind, l) : kind \in {"after", "before", "instead"}, l \in Lines}

WantedThere ==
    /\ wanted \subseteq Texts
    /\ \A w \in wanted : \E i \in 1 .. Len(workText) : workText[i].cells = <<w>>

SnippetsInv == LinesInv /\ CellsInGap /\ WantedThere

LEMMA TextsAre ==
    ASSUME NEW w \in Texts
    PROVE  /\ w \in AnyCell /\ w.line \in Lines
           /\ w.kind \in {"after", "before", "instead"} /\ w = Snippet(w.kind, w.line)
<1>1. PICK kind \in {"after", "before", "instead"}, l \in Lines : w = Snippet(kind, l)
    BY DEF Texts
<1>2. w \in AnyCell
    <2>1. /\ Snippet("after", l) \in AnyCell /\ Snippet("before", l) \in AnyCell
          /\ Snippet("instead", l) \in AnyCell
        BY LinesAre, SnippetTypes
    <2> QED
        BY <1>1, <2>1
<1> QED
    BY <1>1, <1>2 DEF Snippet, Cell

LEMMA SnippetIs ==
    ASSUME NEW kind, NEW l
    PROVE  Snippet(kind, l).kind = kind /\ Snippet(kind, l).line = l
BY DEF Snippet, Cell

LEMMA GapNumber ==
    ASSUME OffsetsType, TextType, Placed, NEW k \in 0 .. Len(Width),
           NEW i \in 1 .. Len(workText), Gap(k, i)
    PROVE  workText[i].number = 0
<1> DEFINE l == workText[i].number
<1>1. l \in 0 .. Len(Width) /\ i \in DOMAIN workText
    BY TextFacts DEF TextLine
<1>2. SUFFICES ASSUME l # 0
               PROVE  FALSE
    OBVIOUS
<1>3. l \in Lines
    BY <1>1, <1>2, WidthType DEF Lines
<1>4. i = Adjusted(l)
    BY <1>1, <1>3 DEF Placed
<1> HIDE DEF l
<1>5. /\ k \in Nat /\ l \in Nat /\ k \in 0 .. Len(Width) + 1 /\ k + 1 \in 0 .. Len(Width) + 1
      /\ l \in 0 .. Len(Width) + 1
    BY <1>1, WidthType
<1>6. k < l /\ l < k + 1
    BY <1>4, <1>5, AdjustedCompare DEF Gap
<1> QED
    BY <1>5, <1>6

LEMMA GapInserts ==
    ASSUME OffsetsType, TextType, NEW k, NEW w \in AnyCell, Inserts(k, w),
           NEW g \in 0 .. Len(Width), NEW i \in 1 .. Len(workText), Gap(g, i),
           NEW j, j = IF i < Adjusted(k + 1) THEN i ELSE i + 1
    PROVE  Gap(g, j)'
<1> DEFINE p == Adjusted(k + 1)
<1>1. /\ k \in 0 .. Len(Width) /\ k \in Nat /\ g \in Nat /\ i \in Nat
      /\ {g, g + 1, k + 1} \subseteq 0 .. Len(Width) + 1
    BY WidthType, TextFacts DEF Inserts
<1>2. PICK a \in Nat, b \in Nat, q \in Nat : a = Adjusted(g) /\ b = Adjusted(g + 1) /\ q = p
    BY <1>1, AdjustedType
<1>3. /\ Adjusted(g)' = a + (IF k < g THEN 1 ELSE 0)
      /\ Adjusted(g + 1)' = b + (IF k < g + 1 THEN 1 ELSE 0)
    BY <1>1, <1>2, InsertedText
<1>4. (k + 1 <= g <=> q <= a) /\ (g + 1 <= k + 1 <=> b <= q)
    BY <1>1, <1>2, AdjustedCompare
<1>5. a < i /\ i < b
    BY <1>2 DEF Gap
<1>6. /\ j \in Nat
      /\ a + (IF k < g THEN 1 ELSE 0) < j
      /\ j < b + (IF k < g + 1 THEN 1 ELSE 0)
    <2>1. CASE k + 1 <= g
        BY <1>1, <1>2, <1>4, <1>5, <2>1
    <2>2. CASE ~ (k + 1 <= g)
        BY <1>1, <1>2, <1>4, <1>5, <2>2
    <2> QED
        BY <2>1, <2>2
<1> QED
    BY <1>3, <1>6 DEF Gap

LEMMA InGapInserts ==
    ASSUME OffsetsType, TextType, NEW k, NEW w \in AnyCell, Inserts(k, w), NEW c \in AnyCell,
           NEW i \in 1 .. Len(workText), InGap(c, i),
           NEW j, j = IF i < Adjusted(k + 1) THEN i ELSE i + 1
    PROVE  InGap(c, j)' /\ workText'[j] = workText[i] /\ j \in 1 .. Len(workText')
<1>1. c.line \in 0 .. Len(Width) /\ (c.line # 0 => c.line - 1 \in 0 .. Len(Width)) /\ c.line \in Nat
    BY WidthType DEF AnyCell
<1>2. ASSUME c.kind = "after"
      PROVE  Gap(c.line, j)'
    BY <1>1, <1>2, GapInserts DEF InGap
<1>3. ASSUME c.kind = "before"
      PROVE  c.line # 0 /\ Gap(c.line - 1, j)'
    <2>1. c.line # 0 /\ Gap(c.line - 1, i) /\ c.line - 1 \in 0 .. Len(Width)
        BY <1>1, <1>3 DEF InGap
    <2> QED
        BY <2>1, GapInserts
<1>4. workText'[j] = workText[i] /\ j \in 1 .. Len(workText')
    <2> DEFINE p == Adjusted(k + 1)
    <2>1. /\ p \in 1 .. Len(workText) /\ Len(workText) \in Nat /\ Len(workText') = Len(workText) + 1
          /\ \A x \in 1 .. Len(workText) + 1 :
                workText'[x] = IF x < p THEN workText[x]
                               ELSE IF x = p THEN Line(0, <<w>>) ELSE workText[x - 1]
        BY InsertedText
    <2> HIDE DEF p
    <2>2. CASE i < p
        <3>1. j = i /\ j \in 1 .. Len(workText) + 1
            BY <2>1, <2>2 DEF p
        <3> QED
            BY <2>1, <2>2, <3>1
    <2>3. CASE ~ (i < p)
        <3>1. j = i + 1 /\ j \in 1 .. Len(workText) + 1 /\ ~ (j < p) /\ j # p /\ j - 1 = i
            BY <2>1, <2>3 DEF p
        <3> QED
            BY <2>1, <3>1
    <2> QED
        BY <2>2, <2>3
<1>5. ASSUME c.kind = "instead"
      PROVE  c.line # 0 /\ workText'[j].number = c.line
    BY <1>4, <1>5 DEF InGap
<1> QED
    BY <1>2, <1>3, <1>4, <1>5 DEF InGap

LEMMA InsertsSnippets ==
    ASSUME SnippetsInv, NEW k, NEW w \in Texts, Inserts(k, w), wanted' = wanted \cup {w},
           \/ w.kind = "after" /\ w.line = k
           \/ w.kind = "before" /\ w.line = k + 1
    PROVE  CellsInGap' /\ WantedThere'
<1> DEFINE p == Adjusted(k + 1)
           n == Len(workText)
<1>0. OffsetsType /\ TextType /\ Placed
    BY DEF SnippetsInv, LinesInv
<1>1. w \in AnyCell /\ w.line \in Lines
    BY TextsAre
<1>2. /\ Len(workText') = n + 1 /\ p \in 1 .. n /\ n \in Nat
      /\ \A i \in 1 .. n + 1 :
            workText'[i] = IF i < p THEN workText[i]
                           ELSE IF i = p THEN Line(0, <<w>>) ELSE workText[i - 1]
      /\ \A l \in 0 .. Len(Width) + 1 : Adjusted(l)' = Adjusted(l) + (IF k < l THEN 1 ELSE 0)
    BY <1>0, <1>1, InsertedText
<1>3. /\ k \in 0 .. Len(Width) /\ k \in Nat /\ k \in 0 .. Len(Width) + 1
      /\ k + 1 \in 0 .. Len(Width) + 1
    BY WidthType DEF Inserts
<1>4. ASSUME NEW q, q = p
      PROVE  InGap(w, q)'
    <2>1. Gap(k, q)'
        <3>1. Adjusted(k) \in Nat /\ Adjusted(k + 1) \in Nat /\ Adjusted(k) < Adjusted(k + 1)
            BY <1>0, <1>3, AdjustedType, AdjustedCompare
        <3>2. Adjusted(k)' = Adjusted(k) /\ Adjusted(k + 1)' = Adjusted(k + 1) + 1
            BY <1>2, <1>3, <3>1
        <3> QED
            BY <1>4, <3>1, <3>2 DEF Gap
    <2>2. w.kind = "before" => w.line - 1 = k /\ w.line # 0
        BY <1>3
    <2>3. w.kind # "instead" /\ (w.kind = "after" => w.line = k)
        OBVIOUS
    <2> QED
        BY <2>1, <2>2, <2>3 DEF InGap
<1>5. ASSUME NEW i \in 1 .. n + 1, i # p
      PROVE  \E m \in 1 .. n : workText'[i] = workText[m] /\ i = IF m < p THEN m ELSE m + 1
    <2>1. CASE i < p
        <3>1. i \in 1 .. n /\ workText'[i] = workText[i]
            BY <1>2, <2>1
        <3> QED
            BY <2>1, <3>1
    <2>2. CASE ~ (i < p)
        <3>1. i - 1 \in 1 .. n /\ ~ (i - 1 < p) /\ i = (i - 1) + 1 /\ workText'[i] = workText[i - 1]
            BY <1>2, <1>5, <2>2
        <3> QED
            BY <3>1
    <2> QED
        BY <2>1, <2>2
<1>6. ASSUME NEW i \in 1 .. n + 1, NEW c \in AnyCell, Has(i, c)'
      PROVE  InGap(c, i)'
    <2>1. CASE i = p
        <3>1. workText'[i].cells = <<w>>
            BY <1>2, <2>1 DEF Line
        <3>2. c = w
            BY <1>6, <3>1 DEF Has
        <3> QED
            BY <1>4, <2>1, <3>2
    <2>2. CASE i # p
        <3>1. PICK m \in 1 .. n : workText'[i] = workText[m] /\ i = IF m < p THEN m ELSE m + 1
            BY <1>5, <2>2
        <3>2. Has(m, c)
            BY <1>6, <3>1 DEF Has
        <3>3. InGap(c, m)
            BY <3>2 DEF SnippetsInv, CellsInGap
        <3> QED
            BY <1>0, <1>1, <3>1, <3>3, InGapInserts
    <2> QED
        BY <2>1, <2>2
<1>7. ASSUME NEW v \in wanted'
      PROVE  \E i \in 1 .. n + 1 : workText'[i].cells = <<v>>
    <2>1. CASE v = w
        <3>1. p \in 1 .. n + 1 /\ workText'[p].cells = <<w>>
            BY <1>2 DEF Line
        <3> QED
            BY <2>1, <3>1
    <2>2. CASE v \in wanted
        <3>1. PICK m \in 1 .. n : workText[m].cells = <<v>>
            BY <2>2 DEF SnippetsInv, WantedThere
        <3>2. v \in AnyCell
            BY <2>2, TextsAre DEF SnippetsInv, WantedThere
        <3>3. Has(m, v)
            BY <3>1 DEF Has
        <3>4. InGap(v, m)
            BY <3>2, <3>3 DEF SnippetsInv, CellsInGap
        <3>5. PICK j : j = IF m < p THEN m ELSE m + 1
            OBVIOUS
        <3>6. workText'[j] = workText[m] /\ j \in 1 .. Len(workText')
            BY <1>0, <1>1, <3>2, <3>4, <3>5, InGapInserts
        <3> QED
            BY <1>2, <3>1, <3>6
    <2> QED
        BY <2>1, <2>2
<1>8. wanted' \subseteq Texts
    BY DEF SnippetsInv, WantedThere
<1> QED
    BY <1>2, <1>6, <1>7, <1>8 DEF CellsInGap, WantedThere

(* A cell that no step has to care about. *)
Other(c) == c.kind \notin {"after", "before", "instead"}

LEMMA InGapKeeps ==
    ASSUME KeepsLines, NEW c, NEW i \in 1 .. Len(workText)
    PROVE  InGap(c, i)' <=> InGap(c, i)
<1>1. \A k : Gap(k, i)' <=> Gap(k, i)
    BY DEF Gap, Adjusted, Added, KeepsLines
<1> QED
    BY <1>1 DEF InGap, KeepsLines

LEMMA KeepsCellsInGap ==
    ASSUME CellsInGap, KeepsLines,
           \A i \in 1 .. Len(workText) : \A c \in AnyCell :
               Has(i, c)' => Has(i, c) \/ InGap(c, i)
    PROVE  CellsInGap'
BY InGapKeeps DEF CellsInGap, KeepsLines

(* A line that a wanted text is in is not in a range that leaves it alone. *)
LEMMA WantedKept ==
    ASSUME LinesInv, CellsInGap, NEW w \in Texts, NEW i \in 1 .. Len(workText),
           workText[i].cells = <<w>>, NEW from \in Lines \X Int, NEW to \in Lines \X Nat,
           NEW start, start[1] \in Int, start[1] <= from[1], w \in Untouched(start, to)
    PROVE  i \notin FirstBehind(from[1]) .. Adjusted(to[1])
<1> DEFINE f == from[1]
           t == to[1]
           l == w.line
<1>0. OffsetsType /\ TextType /\ Placed
    BY DEF LinesInv
<1>1. /\ w \in AnyCell /\ l \in Lines /\ w.kind \in {"after", "before", "instead"}
      /\ f \in Lines /\ t \in Lines
    BY TextsAre
<1>2. /\ f \in 0 .. Len(Width) + 1 /\ t \in 0 .. Len(Width) + 1 /\ l \in 0 .. Len(Width) + 1
      /\ l - 1 \in 0 .. Len(Width) + 1 /\ l + 1 \in 0 .. Len(Width) + 1
      /\ f \in 0 .. Len(Width) /\ f \in Nat /\ t \in Nat /\ l \in Nat
    <2> HIDE DEF f, t, l
    <2>1. PICK n \in Nat : n = Len(Width)
        BY WidthType
    <2>2. f \in 1 .. n /\ t \in 1 .. n /\ l \in 1 .. n
        BY <1>1, <2>1 DEF Lines
    <2>3. /\ f \in 0 .. n + 1 /\ t \in 0 .. n + 1 /\ l \in 0 .. n + 1
          /\ l - 1 \in 0 .. n + 1 /\ l + 1 \in 0 .. n + 1
          /\ f \in 0 .. n /\ f \in Nat /\ t \in Nat /\ l \in Nat
        BY <2>2
    <2> QED
        BY <2>1, <2>3
<1>3. Has(i, w)
    BY DEF Has
<1>4. InGap(w, i)
    BY <1>1, <1>3 DEF CellsInGap
<1>5. i \in Nat /\ i \in DOMAIN workText
    BY <1>0, TextFacts
<1>6. /\ Adjusted(f) \in Nat /\ FirstBehind(f) \in Nat /\ Adjusted(f) <= FirstBehind(f)
    <2>1. /\ Adjusted(f) \in Nat
          /\ FirstBehind(f) = Adjusted(f) + offsets[f] /\ offsets[f] \in Nat
        BY <1>0, <1>2, AdjustedNext
    <2> QED
        BY <2>1
<1>7. /\ Adjusted(t) \in Nat /\ Adjusted(l) \in Nat /\ Adjusted(l + 1) \in Nat
      /\ Adjusted(l - 1) \in Nat
    BY <1>0, <1>2, AdjustedType
<1> SUFFICES i < Adjusted(f) \/ i > Adjusted(t)
    BY <1>5, <1>6, <1>7
<1>8. CASE w.kind = "instead"
    <2>1. i = Adjusted(l)
        BY <1>0, <1>1, <1>4, <1>5, <1>8 DEF InGap, Placed
    <2>2. l < f \/ l > t
        <3>1. l \notin start[1] .. t
            BY <1>8 DEF Untouched
        <3> HIDE DEF f, t, l
        <3> QED
            BY <1>2, <3>1 DEF f
    <2>3. (l < f <=> Adjusted(l) < Adjusted(f)) /\ (t < l <=> Adjusted(t) < Adjusted(l))
        BY <1>0, <1>2, AdjustedCompare
    <2> QED
        BY <1>2, <1>6, <1>7, <2>1, <2>2, <2>3
<1>9. CASE w.kind = "after"
    <2>1. Adjusted(l) < i /\ i < Adjusted(l + 1)
        BY <1>4, <1>9 DEF InGap, Gap
    <2>2. l < f \/ l >= t
        <3>1. l \notin start[1] .. t - 1
            BY <1>9 DEF Untouched
        <3> HIDE DEF f, t, l
        <3> QED
            BY <1>2, <3>1 DEF f
    <2>3. l + 1 <= f <=> Adjusted(l + 1) <= Adjusted(f)
        BY <1>0, <1>2, AdjustedCompare
    <2>4. t <= l <=> Adjusted(t) <= Adjusted(l)
        BY <1>0, <1>2, AdjustedCompare
    <2> HIDE DEF f, t, l
    <2>5. PICK x \in Nat : x = Adjusted(l + 1)
        BY <1>7
    <2>6. l + 1 <= f \/ t <= l
        BY <1>2, <2>2
    <2>7. x <= Adjusted(f) \/ Adjusted(t) <= Adjusted(l)
        BY <2>3, <2>4, <2>5, <2>6
    <2>8. Adjusted(l) < i /\ i < x
        BY <2>1, <2>5
    <2> QED
        BY <1>5, <1>6, <1>7, <2>7, <2>8
<1>10. CASE w.kind = "before"
    <2>1. Adjusted(l - 1) < i /\ i < Adjusted(l)
        <3>1. Gap(l - 1, i) /\ (l - 1) + 1 = l
            BY <1>2, <1>4, <1>10 DEF InGap
        <3> QED
            BY <3>1 DEF Gap
    <2>2. l <= f \/ l > t
        <3>1. l \notin start[1] + 1 .. t
            BY <1>10 DEF Untouched
        <3> HIDE DEF f, t, l
        <3> QED
            BY <1>2, <3>1 DEF f
    <2>3. l <= f <=> Adjusted(l) <= Adjusted(f)
        BY <1>0, <1>2, AdjustedCompare
    <2>4. t <= l - 1 <=> Adjusted(t) <= Adjusted(l - 1)
        BY <1>0, <1>2, AdjustedCompare
    <2> HIDE DEF f, t, l
    <2>5. PICK x \in Nat : x = Adjusted(l - 1)
        BY <1>7
    <2>6. l <= f \/ t <= l - 1
        BY <1>2, <2>2
    <2>7. Adjusted(l) <= Adjusted(f) \/ Adjusted(t) <= x
        BY <2>3, <2>4, <2>5, <2>6
    <2>8. x < i /\ i < Adjusted(l)
        BY <2>1, <2>5
    <2> QED
        BY <1>5, <1>6, <1>7, <2>7, <2>8
<1> QED
    BY <1>1, <1>8, <1>9, <1>10

(* A range of a text is deleted, in which wanted texts are where they were *)
(* and there is nothing new to care about.                                 *)
LEMMA DeletesSnippets ==
    ASSUME SnippetsInv, KeepsLines, NEW text \in Seq(TextLine), Len(text) = Len(workText),
           \A i \in 1 .. Len(text) : \A n \in 1 .. Len(text[i].cells) :
               Has(i, text[i].cells[n]) \/ Other(text[i].cells[n]),
           \A i \in 1 .. Len(text) : \A w \in wanted :
               workText[i].cells = <<w>> => text[i].cells = <<w>>,
           NEW from \in Lines \X Int, NEW to \in Lines \X Nat,
           NEW start, start[1] \in Int, start[1] <= from[1],
           workText' = Without(text, from, to), wanted' = Untouched(start, to)
    PROVE  CellsInGap' /\ WantedThere'
<1> DEFINE new == Without(text, from, to)
<1>0. OffsetsType /\ TextType /\ Placed /\ LinesInv /\ CellsInGap
    BY DEF SnippetsInv, LinesInv
<1>1. /\ new \in Seq(TextLine) /\ Len(new) = Len(text)
      /\ \A i \in 1 .. Len(text) :
            /\ new[i].number = text[i].number
            /\ new[i].cells =
                  IF Deleted(text, from, to)
                     /\ i \in FirstBehind(from[1]) .. Adjusted(to[1])
                  THEN Remaining(text, i, from, to)
                  ELSE text[i].cells
    <2>1. new = Without(text, from, to)
        OBVIOUS
    <2> HIDE DEF new
    <2> QED
        BY <1>0, <2>1, WithoutText
<1>2. workText' = new
    OBVIOUS
<1> HIDE DEF new
<1>3. ASSUME NEW i \in 1 .. Len(workText), NEW c \in AnyCell, Has(i, c)'
      PROVE  Has(i, c) \/ InGap(c, i)
    <2>1. PICK n \in 1 .. Len(new[i].cells) : new[i].cells[n] = c
        BY <1>2, <1>3 DEF Has
    <2>2. \E m \in 1 .. Len(text[i].cells) : c = text[i].cells[m]
        <3>1. CASE new[i].cells = text[i].cells
            BY <2>1, <3>1
        <3>2. CASE new[i].cells = Remaining(text, i, from, to)
            <4>1. i \in 1 .. Len(text)
                OBVIOUS
            <4>2. \A x \in 1 .. Len(Remaining(text, i, from, to)) :
                     \E m \in 1 .. Len(text[i].cells) :
                        Remaining(text, i, from, to)[x] = text[i].cells[m]
                BY <4>1, RemainingType
            <4> QED
                BY <2>1, <3>2, <4>2
        <3> QED
            BY <1>1, <3>1, <3>2
    <2>3. Has(i, c) \/ Other(c)
        BY <2>2
    <2>4. Other(c) => InGap(c, i)
        BY DEF Other, InGap
    <2> QED
        BY <2>3, <2>4
<1>4. CellsInGap'
    BY <1>0, <1>3, KeepsCellsInGap
<1>5. wanted' \subseteq wanted
    BY DEF Untouched
<1>6. ASSUME NEW w \in wanted'
      PROVE  \E i \in 1 .. Len(workText') : workText'[i].cells = <<w>>
    <2>1. w \in wanted /\ w \in Texts /\ w \in Untouched(start, to)
        BY <1>5 DEF SnippetsInv, WantedThere
    <2>2. PICK i \in 1 .. Len(workText) : workText[i].cells = <<w>>
        BY <2>1 DEF SnippetsInv, WantedThere
    <2>3. i \notin FirstBehind(from[1]) .. Adjusted(to[1])
        BY <1>0, <2>1, <2>2, WantedKept
    <2>4. text[i].cells = <<w>>
        BY <2>1, <2>2
    <2>5. new[i].cells = <<w>>
        BY <1>1, <2>3, <2>4
    <2> QED
        BY <1>1, <1>2, <2>5
<1> QED
    BY <1>4, <1>5, <1>6 DEF WantedThere, SnippetsInv

LEMMA DeletesWorkText ==
    ASSUME SnippetsInv, NEW from \in Lines \X Int, NEW to \in Lines \X Nat,
           NEW start, start[1] \in Int, start[1] <= from[1], UNCHANGED offsets,
           workText' = Without(workText, from, to), wanted' = Untouched(start, to)
    PROVE  CellsInGap' /\ WantedThere'
<1>1. workText \in Seq(TextLine) /\ OffsetsType /\ TextType
    BY DEF SnippetsInv, LinesInv, TextType
<1>2. KeepsLines
    BY <1>1, WithoutKeeps
<1>3. \A i \in 1 .. Len(workText) : \A n \in 1 .. Len(workText[i].cells) :
          Has(i, workText[i].cells[n])
    BY DEF Has
<1> QED
    BY <1>1, <1>2, <1>3, DeletesSnippets

(* No line that is a wanted text is negated: it is too short. *)
LEMMA ThenSnippets ==
    ASSUME SnippetsInv, NEW b \in Branch, b.else # NoElse, Proper(b), CanNegate(b),
           UNCHANGED offsets,
           workText' = Without(WithNegation(b), ThenRange(b)[1], ThenRange(b)[2]),
           wanted' = Untouched(b.then, ThenRange(b)[2])
    PROVE  CellsInGap' /\ WantedThere'
<1> DEFINE text == WithNegation(b)
           k == NegationLine(b)
           from == ThenRange(b)[1]
           to == ThenRange(b)[2]
<1>0. OffsetsType /\ TextType
    BY DEF SnippetsInv, LinesInv
<1>1. /\ text \in Seq(TextLine) /\ Len(text) = Len(workText)
      /\ \A i \in 1 .. Len(workText) :
            /\ text[i].number = workText[i].number
            /\ i # k => text[i].cells = workText[i].cells
            /\ i = k => Negation(workText[k].cells, text[k].cells, b.cond[2], b.condEnd[2])
                        /\ b.condEnd[2] <= Len(workText[k].cells)
    BY <1>0, NegationText
<1>2. from \in Lines \X Int /\ to \in Lines \X Nat
    BY BranchRanges
<1>3. b.then[1] \in Int /\ b.then[1] <= from[1]
    BY LinesAre DEF Branch, Position, ThenRange
<1>4. workText' = Without(text, from, to) /\ wanted' = Untouched(b.then, to)
    OBVIOUS
<1> HIDE DEF text, k, from, to
<1>5. KeepsLines
    <2>1. /\ Without(text, from, to) \in Seq(TextLine)
          /\ Len(Without(text, from, to)) = Len(text)
          /\ \A i \in 1 .. Len(text) : Without(text, from, to)[i].number = text[i].number
        BY <1>0, <1>1, <1>2, WithoutText
    <2> QED
        BY <1>1, <1>4, <2>1 DEF KeepsLines, TextType
<1>6. ASSUME NEW i \in 1 .. Len(text), NEW n \in 1 .. Len(text[i].cells)
      PROVE  Has(i, text[i].cells[n]) \/ Other(text[i].cells[n])
    <2>1. CASE i # k
        BY <1>1, <2>1 DEF Has
    <2>2. CASE i = k
        <3>1. \/ text[i].cells[n] = Sign
              \/ \E m \in 1 .. Len(workText[i].cells) : text[i].cells[n] = workText[i].cells[m]
            BY <1>1, <2>2 DEF Negation
        <3>2. Other(Sign)
            BY SnippetIs DEF Other, Sign
        <3> QED
            BY <3>1, <3>2 DEF Has
    <2> QED
        BY <2>1, <2>2
<1>7. ASSUME NEW i \in 1 .. Len(text), NEW w \in wanted, workText[i].cells = <<w>>
      PROVE  text[i].cells = <<w>>
    <2>1. CASE i # k
        BY <1>1, <1>7, <2>1
    <2>2. CASE i = k
        <3>1. b.condEnd[2] <= 1
            BY <1>1, <1>7, <2>2
        <3>2. b.cond[2] \in Nat /\ b.cond[2] >= 1 /\ b.condEnd[2] \in Nat
            BY DEF Branch, Position
        <3>3. b.cond[2] < b.condEnd[2]
            BY DEF Proper
        <3> QED
            BY <3>1, <3>2, <3>3
    <2> QED
        BY <2>1, <2>2
<1> QED
    BY <1>1, <1>2, <1>3, <1>4, <1>5, <1>6, <1>7, DeletesSnippets

LEMMA ReplaceSnippets ==
    ASSUME SnippetsInv, NEW l \in Lines, Replace(l)
    PROVE  CellsInGap' /\ WantedThere'
<1> DEFINE v == Snippet("instead", l)
<1>0. OffsetsType /\ TextType /\ Placed /\ CellsInGap
    BY DEF SnippetsInv, LinesInv
<1>1. /\ KeepsLines
      /\ \A i \in 1 .. Len(workText) :
            workText'[i] = IF i = Adjusted(l) THEN Line(l, <<v>>) ELSE workText[i]
    BY <1>0, ReplaceText
<1>2. Adjusted(l) \in 1 .. Len(workText) /\ workText[Adjusted(l)].number = l
    BY <1>0, LineIn
<1>3. /\ v.kind = "instead" /\ v.line = l /\ l # 0 /\ v \in Texts
      /\ wanted' = wanted \cup {v}
    BY SnippetIs, LinesAre DEF Texts, Replace
<1> HIDE DEF v
<1>4. ASSUME NEW i \in 1 .. Len(workText), NEW c \in AnyCell, Has(i, c)'
      PROVE  Has(i, c) \/ InGap(c, i)
    <2>1. CASE i = Adjusted(l)
        <3>1. workText'[i].cells = <<v>>
            BY <1>1, <2>1 DEF Line
        <3>2. c = v
            BY <1>4, <3>1 DEF Has
        <3> QED
            BY <1>2, <1>3, <2>1, <3>2 DEF InGap
    <2>2. CASE i # Adjusted(l)
        BY <1>1, <1>4, <2>2 DEF Has
    <2> QED
        BY <2>1, <2>2
<1>5. CellsInGap'
    BY <1>0, <1>1, <1>4, KeepsCellsInGap
<1>6. ASSUME NEW w \in wanted
      PROVE  \E i \in 1 .. Len(workText') : workText'[i].cells = <<w>>
    <2>1. w \in Texts
        BY DEF SnippetsInv, WantedThere
    <2>2. PICK i \in 1 .. Len(workText) : workText[i].cells = <<w>>
        BY DEF SnippetsInv, WantedThere
    <2>3. w \in AnyCell /\ w.kind \in {"after", "before", "instead"} /\ w.line \in Lines
          /\ w = Snippet(w.kind, w.line)
        BY <2>1, TextsAre
    <2>4. Has(i, w)
        BY <2>2 DEF Has
    <2>5. InGap(w, i)
        BY <1>0, <2>3, <2>4 DEF CellsInGap
    <2>6. CASE i # Adjusted(l)
        BY <1>1, <2>2, <2>6 DEF KeepsLines
    <2>7. CASE i = Adjusted(l)
        <3>1. workText[i].number = l
            BY <1>2, <2>7
        <3>2. w.kind # "after"
            <4>1. SUFFICES ASSUME w.kind = "after"
                           PROVE  FALSE
                OBVIOUS
            <4>2. Gap(w.line, i) /\ w.line \in 0 .. Len(Width)
                BY <2>3, <2>5, <4>1, LinesAre DEF InGap
            <4> QED
                BY <1>0, <1>3, <3>1, <4>2, GapNumber
        <3>3. w.kind # "before"
            <4>1. SUFFICES ASSUME w.kind = "before"
                           PROVE  FALSE
                OBVIOUS
            <4>2. Gap(w.line - 1, i) /\ w.line - 1 \in 0 .. Len(Width)
                BY <2>3, <2>5, <4>1, LinesAre DEF InGap
            <4> QED
                BY <1>0, <1>3, <3>1, <4>2, GapNumber
        <3>4. w = v
            BY <2>3, <2>5, <3>1, <3>2, <3>3 DEF InGap, v
        <3>5. workText'[i].cells = <<v>>
            BY <1>1, <2>7 DEF Line
        <3> QED
            BY <1>1, <3>4, <3>5 DEF KeepsLines
    <2> QED
        BY <2>6, <2>7
<1>7. \E i \in 1 .. Len(workText') : workText'[i].cells = <<v>>
    BY <1>1, <1>2 DEF KeepsLines, Line
<1> QED
    BY <1>3, <1>5, <1>6, <1>7 DEF WantedThere, SnippetsInv

LEMMA FillSnippets ==
    ASSUME SnippetsInv, NEW number, NEW name, <<number, name>> \in Named, Fill(number, name)
    PROVE  CellsInGap' /\ WantedThere'
<1>0. TextType /\ CellsInGap
    BY DEF SnippetsInv, LinesInv
<1>1. /\ KeepsLines
      /\ \A i \in 1 .. Len(workText) :
            /\ Len(workText'[i].cells) = Len(workText[i].cells)
            /\ \A c \in 1 .. Len(workText[i].cells) :
                  workText'[i].cells[c] = Filled(workText[i].cells[c], number, name)
    BY <1>0, FillText
<1>2. ASSUME NEW i \in 1 .. Len(workText)
      PROVE  /\ workText[i].cells \in Seq(AnyCell) /\ workText'[i].cells \in Seq(AnyCell)
             /\ \A n \in 1 .. Len(workText[i].cells) : workText[i].cells[n] \in AnyCell
    <2>1. workText[i] \in TextLine /\ workText'[i] \in TextLine
        BY <1>0, <1>1, TextFacts, ElementOfSeq DEF KeepsLines, TextType
    <2>2. workText[i].cells \in Seq(AnyCell) /\ workText'[i].cells \in Seq(AnyCell)
        BY <2>1 DEF TextLine
    <2> QED
        BY <2>2, ElementOfSeq
<1>3. ASSUME NEW i \in 1 .. Len(workText), NEW c \in AnyCell, Has(i, c)'
      PROVE  Has(i, c) \/ InGap(c, i)
    <2>1. PICK n \in 1 .. Len(workText'[i].cells) : workText'[i].cells[n] = c
        BY <1>3 DEF Has
    <2>2. PICK d \in AnyCell : /\ n \in 1 .. Len(workText[i].cells) /\ d = workText[i].cells[n]
                               /\ c = Filled(d, number, name)
        BY <1>1, <1>2, <2>1
    <2>3. c = d \/ c.kind = "filled"
        BY <2>2, FilledType
    <2>4. CASE c = d
        BY <2>2, <2>4 DEF Has
    <2>5. CASE c.kind = "filled"
        BY <2>5 DEF InGap
    <2> QED
        BY <2>3, <2>4, <2>5
<1>4. CellsInGap'
    BY <1>0, <1>1, <1>3, KeepsCellsInGap
<1>5. ASSUME NEW w \in wanted
      PROVE  \E i \in 1 .. Len(workText') : workText'[i].cells = <<w>>
    <2>1. PICK i \in 1 .. Len(workText) : workText[i].cells = <<w>>
        BY DEF SnippetsInv, WantedThere
    <2>2. w \in AnyCell /\ w.kind # "source"
        BY TextsAre DEF SnippetsInv, WantedThere
    <2>3. Filled(w, number, name) = w
        BY <2>2 DEF Filled
    <2>4. Len(workText[i].cells) = 1 /\ workText[i].cells[1] = w
        BY <2>1
    <2>5. Len(workText'[i].cells) = 1 /\ workText'[i].cells[1] = w
        BY <1>1, <2>3, <2>4
    <2>6. <<w>> \in Seq(AnyCell) /\ Len(<<w>>) = 1 /\ <<w>>[1] = w
        BY <2>2
    <2>7. workText'[i].cells = <<w>>
        <3> DEFINE s == workText'[i].cells
                   t == <<w>>
        <3>1. s \in Seq(AnyCell) /\ t \in Seq(AnyCell) /\ Len(s) = 1 /\ Len(t) = 1
              /\ s[1] = w /\ t[1] = w
            BY <1>2, <2>5, <2>6
        <3> HIDE DEF s, t
        <3>2. \A j \in 1 .. Len(s) : s[j] = t[j]
            BY <3>1
        <3>3. s = t
            BY <3>1, <3>2, SeqEqual
        <3> QED
            BY <3>3 DEF s, t
    <2> QED
        BY <1>1, <2>7 DEF KeepsLines
<1>6. wanted' = wanted
    BY DEF Fill
<1> QED
    BY <1>4, <1>5, <1>6 DEF WantedThere, SnippetsInv

LEMMA SameSnippets ==
    ASSUME SnippetsInv, UNCHANGED <<workText, offsets, wanted>>
    PROVE  CellsInGap' /\ WantedThere'
BY DEF SnippetsInv, CellsInGap, WantedThere, InGap, Gap, Adjusted, Added, Has

LEMMA SnippetsStep ==
    ASSUME Careful, Len(Width) \notin AfterLines, \A b \in Branches : Proper(b[1]),
           SnippetsInv, [Next]_vars
    PROVE  SnippetsInv'
<1> USE ModificationAssumption
<1>0. LinesInv' /\ LinesInv
    BY LinesStep DEF SnippetsInv
<1> SUFFICES CellsInGap' /\ WantedThere'
    BY <1>0 DEF SnippetsInv
<1>1. ASSUME NEW l \in AfterLines, AddNewCodeSnippetAfter(l)
      PROVE  CellsInGap' /\ WantedThere'
    <2> DEFINE w == Snippet("after", l)
    <2>1. l \in Lines /\ l # Len(Width)
        OBVIOUS
    <2>2. Inserts(l, w)
        BY <1>0, <1>1, <2>1, AfterStep
    <2>3. w \in Texts /\ w.kind = "after" /\ w.line = l
        BY <2>1, SnippetIs DEF Texts
    <2>4. wanted' = wanted \cup {w}
        BY <1>1 DEF AddNewCodeSnippetAfter
    <2> HIDE DEF w
    <2> QED
        BY <2>2, <2>3, <2>4, InsertsSnippets
<1>2. ASSUME NEW l \in BeforeLines, AddNewCodeSnippetBefore(l)
      PROVE  CellsInGap' /\ WantedThere'
    <2> DEFINE w == Snippet("before", l)
               k == l - 1
    <2>1. l \in Lines /\ k + 1 = l
        BY LinesAre
    <2>2. Inserts(k, w)
        BY <1>0, <1>2, <2>1, BeforeStep
    <2>3. w \in Texts /\ w.kind = "before" /\ w.line = k + 1
        BY <2>1, SnippetIs DEF Texts
    <2>4. wanted' = wanted \cup {w}
        BY <1>2 DEF AddNewCodeSnippetBefore
    <2> HIDE DEF w, k
    <2> QED
        BY <2>2, <2>3, <2>4, InsertsSnippets
<1>3. ASSUME NEW l \in ReplaceLines, Replace(l)
      PROVE  CellsInGap' /\ WantedThere'
    <2>1. l \in Lines
        OBVIOUS
    <2> QED
        BY <1>3, <2>1, ReplaceSnippets
<1>4. ASSUME NEW r \in Ranges, DeleteCodeRange(r[1], r[2])
      PROVE  CellsInGap' /\ WantedThere'
    <2>1. /\ r[1] \in Lines \X Int /\ r[2] \in Lines \X Nat
          /\ r[1][1] \in Int /\ r[1][1] <= r[1][1]
        BY LinesAre DEF Position
    <2>2. /\ workText' = Without(workText, r[1], r[2]) /\ wanted' = Untouched(r[1], r[2])
          /\ UNCHANGED offsets
        BY <1>4 DEF DeleteCodeRange, Deletes, Asks
    <2> QED
        BY <2>1, <2>2, DeletesWorkText
<1>5. ASSUME NEW x \in Branches, DeleteEitherBranch(x[1], x[2])
      PROVE  CellsInGap' /\ WantedThere'
    <2> DEFINE b == x[1]
    <2>1. b \in Branch /\ x[2] \in BOOLEAN /\ Proper(b)
        OBVIOUS
    <2>2. UNCHANGED offsets
        BY <1>5 DEF DeleteEitherBranch
    <2>3. CASE b.else # NoElse /\ x[2]
        <3>1. DeleteThen(b)
            BY <1>5, <2>3 DEF DeleteEitherBranch
        <3>2. CASE CanNegate(b)
            <4>1. /\ workText' = Without(WithNegation(b), ThenRange(b)[1], ThenRange(b)[2])
                  /\ wanted' = Untouched(b.then, ThenRange(b)[2])
                BY <3>1, <3>2 DEF DeleteThen, ThenRange, Asks, Untouched
            <4> QED
                BY <2>1, <2>2, <2>3, <3>2, <4>1, ThenSnippets
        <3>3. CASE ~ CanNegate(b)
            BY <2>2, <3>1, <3>3, SameSnippets DEF DeleteThen
        <3> QED
            BY <3>2, <3>3
    <2>4. CASE b.else # NoElse /\ ~ x[2]
        <3> DEFINE from == ElseRange(b)[1]
                   to == ElseRange(b)[2]
                   start == b.keyword
        <3>1. DeleteElse(b)
            BY <1>5, <2>4 DEF DeleteEitherBranch
        <3>2. workText' = Without(workText, from, to) /\ wanted' = Untouched(start, to)
            BY <3>1 DEF DeleteElse, Deletes, ElseRange, Asks
        <3>3. from \in Lines \X Int /\ to \in Lines \X Nat
            BY <2>1, <2>4, BranchRanges
        <3>4. start[1] \in Int /\ start[1] <= from[1]
            <4>1. b.keyword \in Position \/ b.keyword = <<0, 0>>
                BY <2>1 DEF Branch, NoElse
            <4>2. b.keyword[1] \in Int
                BY <4>1, LinesAre DEF Position
            <4>3. b.keyword[1] <= b.else[1]
                BY <2>1, <2>4 DEF Proper
            <4> QED
                BY <4>2, <4>3 DEF ElseRange
        <3> HIDE DEF from, to, start
        <3> QED
            BY <2>2, <3>2, <3>3, <3>4, DeletesWorkText
    <2>5. CASE b.else = NoElse /\ x[2]
        <3> DEFINE from == b.start
                   to == b.end
        <3>1. DeleteWhole(b)
            BY <1>5, <2>5 DEF DeleteEitherBranch
        <3>2. workText' = Without(workText, from, to) /\ wanted' = Untouched(from, to)
            BY <3>1 DEF DeleteWhole, Deletes, Asks
        <3>3. from \in Lines \X Int /\ to \in Lines \X Nat
            BY <2>1, BranchRanges
        <3> HIDE DEF from, to
        <3>4. from[1] \in Int /\ from[1] <= from[1]
            BY <3>3, LinesAre
        <3> QED
            BY <2>2, <3>2, <3>3, <3>4, DeletesWorkText
    <2>6. CASE b.else = NoElse /\ ~ x[2]
        <3>1. UNCHANGED <<workText, wanted>>
            BY <1>5, <2>6 DEF DeleteEitherBranch
        <3> QED
            BY <2>2, <3>1, SameSnippets
    <2> QED
        BY <2>1, <2>3, <2>4, <2>5, <2>6
<1>6. ASSUME NEW f \in Fillings, NEW name, <<f[1], name>> \in Named, Fill(f[1], name)
      PROVE  CellsInGap' /\ WantedThere'
    BY <1>6, FillSnippets
<1>7. CASE UNCHANGED vars
    BY <1>7, SameSnippets DEF vars
<1> QED
    BY <1>1, <1>2, <1>3, <1>4, <1>5, <1>6, <1>7, NamedAre
    DEF Next, SetHoleFilling, SetHoleFillingFrom

(* The lines of the file in front of a line in a gap. *)
LEMMA GapInFront ==
    ASSUME LinesInv, NEW k \in 0 .. Len(Width), NEW i \in 1 .. Len(workText), Gap(k, i)
    PROVE  InFront(i) = k
<1> DEFINE F == {j \in 1 .. i - 1 : Numbers[j] # 0}
           place == [l \in 1 .. k |-> Adjusted(l)]
<1>0. OffsetsType /\ TextType /\ Placed
    BY DEF LinesInv
<1>1. /\ k \in Nat /\ i \in Nat /\ i <= Len(workText) /\ DOMAIN workText = 1 .. Len(workText)
      /\ k \in 0 .. Len(Width) + 1 /\ k + 1 \in 0 .. Len(Width) + 1 /\ Len(Width) \in Nat
    BY <1>0, WidthType, TextFacts
<1>2. \A l \in 1 .. k : l \in Lines /\ l \in 0 .. Len(Width) + 1
    BY <1>1 DEF Lines
<1>3. ASSUME NEW l \in 1 .. k
      PROVE  Adjusted(l) \in F
    <2>1. Adjusted(l) \in 1 .. Len(workText) /\ workText[Adjusted(l)].number = l
        BY <1>0, <1>2, LineIn
    <2>2. l <= k <=> Adjusted(l) <= Adjusted(k)
        BY <1>0, <1>1, <1>2, AdjustedCompare
    <2>3. Adjusted(k) \in Nat /\ Adjusted(k) < i /\ Adjusted(l) \in Nat /\ l # 0 /\ l <= k
        BY <1>0, <1>1, <1>2, AdjustedType DEF Gap
    <2>4. Adjusted(l) \in 1 .. i - 1
        BY <1>1, <2>1, <2>2, <2>3
    <2> QED
        BY <1>1, <2>1, <2>3, <2>4 DEF Numbers
<1>4. ASSUME NEW j \in F
      PROVE  \E l \in 1 .. k : j = Adjusted(l)
    <2> DEFINE l == workText[j].number
    <2>1. j \in 1 .. Len(workText) /\ j \in Nat /\ j < i
        BY <1>1
    <2>2. l # 0 /\ l \in 0 .. Len(Width)
        BY <1>0, <1>1, <2>1, TextFacts DEF Numbers, TextLine
    <2>3. l \in Lines
        BY <1>1, <2>2 DEF Lines
    <2>4. j = Adjusted(l)
        BY <1>0, <1>1, <2>1, <2>3 DEF Placed
    <2> HIDE DEF l
    <2>5. l < k + 1 <=> Adjusted(l) < Adjusted(k + 1)
        <3>1. l \in 0 .. Len(Width) + 1
            BY <1>1, <2>2
        <3> QED
            BY <1>0, <1>1, <3>1, AdjustedCompare
    <2>6. PICK x \in Nat : x = Adjusted(k + 1)
        BY <1>0, <1>1, AdjustedType
    <2>7. l < k + 1
        <3>1. j < x
            BY <1>1, <2>1, <2>6 DEF Gap
        <3> QED
            BY <2>4, <2>5, <2>6, <3>1
    <2> QED
        BY <1>1, <2>2, <2>4, <2>7
<1>5. place \in Bijection(1 .. k, F)
    <2>1. place \in [1 .. k -> F]
        BY <1>3
    <2>2. ASSUME NEW l \in 1 .. k, NEW m \in 1 .. k, place[l] = place[m]
          PROVE  l = m
        <3>1. Adjusted(l) = Adjusted(m)
            BY <2>2
        <3>2. l = m <=> Adjusted(l) = Adjusted(m)
            BY <1>0, <1>2, AdjustedCompare
        <3> QED
            BY <3>1, <3>2
    <2>3. \A j \in F : \E l \in 1 .. k : place[l] = j
        BY <1>4
    <2> HIDE DEF place, F
    <2> QED
        BY <2>1, <2>2, <2>3 DEF Bijection, Injection, Surjection, IsInjective
<1> HIDE DEF place, F
<1>6. ExistsBijection(1 .. k, F)
    BY <1>5 DEF ExistsBijection
<1>7. IsFiniteSet(1 .. k) /\ Cardinality(1 .. k) = k
    <2>1. 0 \in Int /\ 1 \in Int /\ k \in Int
        BY <1>1
    <2>2. /\ IsFiniteSet(1 .. k)
          /\ Cardinality(1 .. k) = IF 1 > k THEN 0 ELSE k - 1 + 1
        BY <2>1, FS_Interval
    <2> QED
        BY <1>1, <2>2
<1>8. Cardinality(F) = k
    BY <1>6, <1>7, FS_Bijection
<1> QED
    BY <1>8 DEF InFront, F

LEMMA SnippetsBelong ==
    ASSUME SnippetsInv
    PROVE  SnippetsInPlace
<1>0. LinesInv /\ OffsetsType /\ TextType /\ Placed /\ CellsInGap /\ WantedThere
    BY DEF SnippetsInv, LinesInv
<1>1. DOMAIN workText = 1 .. Len(workText)
    BY <1>0, TextFacts
<1>2. ASSUME NEW i \in DOMAIN workText, NEW c \in ToSet(workText[i].cells)
      PROVE  Belongs(c, i)
    <2>1. Numbers[i] = workText[i].number /\ i \in 1 .. Len(workText)
        BY <1>1 DEF Numbers
    <2>2. c \in AnyCell /\ Has(i, c)
        <3>1. workText[i].cells \in Seq(AnyCell)
            BY <1>0, <2>1, TextFacts DEF TextLine
        <3>2. DOMAIN workText[i].cells = 1 .. Len(workText[i].cells)
            BY <3>1, LenProperties
        <3>3. PICK n \in 1 .. Len(workText[i].cells) : c = workText[i].cells[n]
            BY <3>2 DEF ToSet
        <3>4. c \in AnyCell
            BY <3>1, <3>3, ElementOfSeq
        <3> QED
            BY <3>3, <3>4 DEF Has
    <2>3. InGap(c, i)
        BY <1>0, <2>1, <2>2 DEF CellsInGap
    <2>4. /\ c.line \in 0 .. Len(Width) /\ c.line \in Nat
          /\ c.line # 0 => c.line - 1 \in 0 .. Len(Width)
        BY <2>2, WidthType DEF AnyCell
    <2>5. CASE c.kind = "after"
        <3>1. Gap(c.line, i)
            BY <2>3, <2>5 DEF InGap
        <3>2. workText[i].number = 0 /\ InFront(i) = c.line
            BY <1>0, <2>1, <2>4, <3>1, GapNumber, GapInFront
        <3> QED
            BY <2>1, <2>5, <3>2 DEF Belongs
    <2>6. CASE c.kind = "before"
        <3>1. Gap(c.line - 1, i) /\ c.line - 1 \in 0 .. Len(Width)
            BY <2>3, <2>4, <2>6 DEF InGap
        <3>2. workText[i].number = 0 /\ InFront(i) = c.line - 1
            BY <1>0, <2>1, <3>1, GapNumber, GapInFront
        <3> QED
            BY <2>1, <2>6, <3>2 DEF Belongs
    <2>7. CASE c.kind = "instead"
        BY <2>1, <2>3, <2>7 DEF InGap, Belongs
    <2>8. CASE c.kind \notin {"after", "before", "instead"}
        BY <2>8 DEF Belongs
    <2> QED
        BY <2>5, <2>6, <2>7, <2>8
<1>3. \A w \in wanted : \E i \in DOMAIN workText : workText[i].cells = <<w>>
    BY <1>0, <1>1 DEF WantedThere
<1> QED
    BY <1>2, <1>3 DEF SnippetsInPlace

LEMMA FirstSnippets ==
    ASSUME Init
    PROVE  SnippetsInv
<1>1. LinesInv
    BY FirstPlaced
<1>2. /\ Len(workText) = Len(Width)
      /\ \A l \in Lines :
            /\ Len(workText[l].cells) = Width[l]
            /\ \A c \in 1 .. Width[l] : workText[l].cells[c] = Cell("source", l, c)
    BY FirstText
<1>3. ASSUME NEW i \in 1 .. Len(workText), NEW c \in AnyCell, Has(i, c)
      PROVE  InGap(c, i)
    <2>1. i \in Lines
        BY <1>2 DEF Lines
    <2>2. PICK n \in 1 .. Width[i] : c = workText[i].cells[n]
        BY <1>2, <1>3, <2>1 DEF Has
    <2>3. c = Cell("source", i, n)
        BY <1>2, <2>1, <2>2
    <2>4. c.kind = "source"
        BY <2>3 DEF Cell
    <2> QED
        BY <2>4 DEF InGap
<1>4. WantedThere
    BY DEF Init, WantedThere
<1> QED
    BY <1>1, <1>3, <1>4 DEF SnippetsInv, CellsInGap

(* A text that is added, or put in place of a line, stays where it was     *)
(* meant to be until it is deleted, for every file: lines are added from   *)
(* the top to the bottom and none behind the last line, where              *)
(* addNewCodeSnippetAfter adds nothing.                                    *)
THEOREM SnippetsStay ==
    ASSUME Careful, Len(Width) \notin AfterLines, \A b \in Branches : Proper(b[1])
    PROVE  Spec => []SnippetsInPlace
<1>1. Init => SnippetsInv
    BY FirstSnippets
<1>2. SnippetsInv /\ [Next]_vars => SnippetsInv'
    BY SnippetsStep
<1>3. SnippetsInv => SnippetsInPlace
    BY SnippetsBelong
<1> QED
    BY <1>1, <1>2, <1>3, PTL DEF Spec

-----------------------------------------------------------------------------
(* What is deleted is what callers name: the columns of one line.          *)

OfFile(c) == c.kind \in {"source", "filled"}

IsCell(d, l, c) == OfFile(d) /\ d.line = l /\ d.col = c

Whole(cells, l) ==
    Len(cells) = Width[l] /\ \A c \in 1 .. Width[l] : IsCell(cells[c], l, c)

(* The cells of line l, of which callers have named the columns in gone:   *)
(* the others are left, and all are where they were if there are none.     *)
Fine(cells, l, gone) ==
    /\ gone = {} /\ Width[l] > 0 => Whole(cells, l)
    /\ \A c \in 1 .. Width[l] : c \notin gone =>
           \E n \in 1 .. Len(cells) : IsCell(cells[n], l, c)

(* No others are left. *)
Gone(cells, l, gone) ==
    \A n \in 1 .. Len(cells) : OfFile(cells[n]) =>
        cells[n].line = l /\ cells[n].col \in 1 .. Width[l] /\ cells[n].col \notin gone

LEMMA WidthsAre == \A l \in Lines : Width[l] \in Nat
BY WidthType, ElementOfSeq DEF Lines

LEMMA FineMonotone ==
    ASSUME NEW cells, NEW l, NEW gone, NEW more, gone \subseteq more, Fine(cells, l, gone)
    PROVE  Fine(cells, l, more)
<1>1. more = {} => gone = {}
    OBVIOUS
<1> QED
    BY <1>1 DEF Fine

(* A line is cut off in front of a column, ... *)
LEMMA CutEnd ==
    ASSUME NEW cells \in Seq(AnyCell), NEW l \in Lines, Width[l] > 0 => Whole(cells, l),
           NEW col \in Nat, col > 1, NEW new, new = FirstCells(cells, col - 1),
           NEW gone \in SUBSET (1 .. Width[l]), \A c \in 1 .. Width[l] : c \in gone <=> c >= col
    PROVE  Fine(new, l, gone) /\ (Gone(cells, l, {}) => Gone(new, l, gone))
<1>1. Len(cells) \in Nat /\ Width[l] \in Nat
    BY LenProperties, WidthsAre
<1>2. PICK n \in 0 .. Len(cells) : /\ n = IF col - 1 < Len(cells) THEN col - 1 ELSE Len(cells)
                                   /\ new = SubSeq(cells, 1, n)
    BY <1>1 DEF FirstCells
<1>3. Len(new) = n /\ \A i \in 1 .. n : new[i] = cells[i]
    <2>1. /\ Len(SubSeq(cells, 1, n)) = IF 1 <= n THEN n - 1 + 1 ELSE 0
          /\ \A i \in 1 .. Len(SubSeq(cells, 1, n)) : SubSeq(cells, 1, n)[i] = cells[1 + i - 1]
        BY <1>1, Parts
    <2> QED
        BY <1>1, <1>2, <2>1
<1>4. n \in Nat /\ n <= Len(cells)
    BY <1>1
<1>5. CASE Width[l] = 0
    <2>1. gone = {}
        BY <1>5
    <2> QED
        BY <1>1, <1>3, <1>4, <1>5, <2>1 DEF Fine, Gone
<1>6. CASE Width[l] # 0
    <2>1. Whole(cells, l)
        BY <1>1, <1>6
    <2>2. Len(cells) = Width[l] /\ \A c \in 1 .. Width[l] : IsCell(cells[c], l, c)
        BY <2>1 DEF Whole
    <2>3. gone = {} => n = Width[l]
        <3>1. SUFFICES ASSUME gone = {}
                       PROVE  n = Width[l]
            OBVIOUS
        <3>2. Width[l] \notin gone /\ Width[l] \in 1 .. Width[l]
            BY <1>1, <1>6, <3>1
        <3>3. ~ (Width[l] >= col)
            BY <3>2
        <3> QED
            BY <1>1, <1>2, <2>2, <3>3
    <2>4. gone = {} => Whole(new, l)
        BY <1>3, <2>2, <2>3 DEF Whole
    <2>5. \A c \in 1 .. Width[l] : c \notin gone => c \in 1 .. n /\ IsCell(new[c], l, c)
        BY <1>1, <1>2, <1>3, <2>2
    <2>6. ASSUME NEW i \in 1 .. n
          PROVE  i \notin gone /\ i \in 1 .. Width[l] /\ new[i].col = i /\ new[i].line = l
        <3>1. i < col /\ i \in 1 .. Width[l]
            BY <1>1, <1>2, <2>2
        <3>2. IsCell(cells[i], l, i) /\ new[i] = cells[i]
            BY <1>3, <2>2, <3>1
        <3>3. ~ (i >= col)
            BY <3>1
        <3> QED
            BY <3>1, <3>2, <3>3 DEF IsCell
    <2> QED
        BY <1>3, <2>4, <2>5, <2>6 DEF Fine, Gone
<1> QED
    BY <1>5, <1>6

(* ... or what is in front is taken off, ...                               *)
LEMMA CutStart ==
    ASSUME NEW cells \in Seq(AnyCell), NEW l \in Lines, Width[l] > 0 => Whole(cells, l),
           NEW col \in Nat, NEW new,
           new = IF col < Len(cells) THEN CellsBehind(cells, col) ELSE <<>>,
           NEW gone \in SUBSET (1 .. Width[l]), \A c \in 1 .. Width[l] : c \in gone <=> c <= col
    PROVE  Fine(new, l, gone) /\ (Gone(cells, l, {}) => Gone(new, l, gone))
<1>1. Len(cells) \in Nat /\ Width[l] \in Nat
    BY LenProperties, WidthsAre
<1>2. PICK n \in Nat : n = IF col < Len(cells) THEN Len(cells) - col ELSE 0
    <2>1. CASE col < Len(cells)
        <3>1. Len(cells) - col \in Nat
            BY <1>1, <2>1
        <3> QED
            BY <2>1, <3>1
    <2>2. CASE ~ (col < Len(cells))
        BY <2>2
    <2> QED
        BY <2>1, <2>2
<1>3. Len(new) = n /\ \A i \in 1 .. n : new[i] = cells[col + i]
    <2>1. CASE col < Len(cells)
        <3> DEFINE m == col + 1
        <3>1. m \in Nat /\ m >= 1 /\ Len(cells) \in 0 .. Len(cells) /\ m <= Len(cells)
            BY <1>1, <2>1
        <3>2. new = SubSeq(cells, m, Len(cells))
            BY <2>1 DEF CellsBehind
        <3> HIDE DEF m
        <3>3. /\ Len(new) = IF m <= Len(cells) THEN Len(cells) - m + 1 ELSE 0
              /\ \A i \in 1 .. Len(new) : new[i] = cells[m + i - 1]
            <4>1. /\ Len(SubSeq(cells, m, Len(cells))) =
                          IF m <= Len(cells) THEN Len(cells) - m + 1 ELSE 0
                  /\ \A i \in 1 .. Len(SubSeq(cells, m, Len(cells))) :
                        SubSeq(cells, m, Len(cells))[i] = cells[m + i - 1]
                BY <3>1, Parts
            <4> QED
                BY <3>2, <4>1
        <3>4. Len(new) = n
            BY <1>1, <1>2, <2>1, <3>1, <3>3 DEF m
        <3>5. \A i \in 1 .. n : m + i - 1 = col + i
            BY DEF m
        <3> QED
            BY <3>3, <3>4, <3>5
    <2>2. CASE ~ (col < Len(cells))
        <3>1. new = <<>> /\ n = 0
            BY <1>2, <2>2
        <3> QED
            BY <3>1
    <2> QED
        BY <2>1, <2>2
<1>4. \A i \in 1 .. n : col + i \in 1 .. Len(cells) /\ col + i > col
    BY <1>1, <1>2
<1>5. CASE Width[l] = 0
    <2>1. gone = {}
        BY <1>5
    <2>2. Fine(new, l, gone)
        BY <1>5 DEF Fine
    <2>3. Gone(cells, l, {}) => Gone(new, l, gone)
        <3>1. ASSUME Gone(cells, l, {}), NEW i \in 1 .. n, OfFile(new[i])
              PROVE  new[i].line = l /\ new[i].col \in 1 .. Width[l] /\ new[i].col \notin gone
            <4>1. new[i] = cells[col + i] /\ col + i \in 1 .. Len(cells)
                BY <1>3, <1>4
            <4> QED
                BY <2>1, <3>1, <4>1 DEF Gone
        <3> QED
            BY <1>3, <3>1 DEF Gone
    <2> QED
        BY <2>2, <2>3
<1>6. CASE Width[l] # 0
    <2>1. Whole(cells, l)
        BY <1>1, <1>6
    <2>2. Len(cells) = Width[l] /\ \A c \in 1 .. Width[l] : IsCell(cells[c], l, c)
        BY <2>1 DEF Whole
    <2>3. gone = {} => col = 0
        <3>1. SUFFICES ASSUME gone = {}
                       PROVE  col = 0
            OBVIOUS
        <3>2. 1 \notin gone /\ 1 \in 1 .. Width[l]
            BY <1>1, <1>6, <3>1
        <3>3. ~ (1 <= col)
            BY <3>2
        <3> QED
            BY <3>3
    <2>4. gone = {} => Whole(new, l)
        BY <1>1, <1>2, <1>3, <2>2, <2>3 DEF Whole
    <2>5. \A c \in 1 .. Width[l] : c \notin gone =>
             c - col \in 1 .. n /\ col + (c - col) = c /\ IsCell(cells[c], l, c)
        BY <1>1, <1>2, <2>2
    <2>6. \A c \in 1 .. Width[l] : c \notin gone =>
             \E i \in 1 .. Len(new) : IsCell(new[i], l, c)
        <3>1. SUFFICES ASSUME NEW c \in 1 .. Width[l], c \notin gone
                       PROVE  \E i \in 1 .. Len(new) : IsCell(new[i], l, c)
            OBVIOUS
        <3>2. PICK i \in 1 .. n : i = c - col /\ col + i = c /\ IsCell(cells[c], l, c)
            BY <2>5, <3>1
        <3> QED
            BY <1>3, <3>2
    <2>7. ASSUME NEW i \in 1 .. n
          PROVE  /\ new[i].line = l /\ new[i].col \in 1 .. Width[l]
                 /\ new[i].col \notin gone
        <3>1. col + i \in 1 .. Width[l] /\ ~ (col + i <= col)
            BY <1>4, <2>2
        <3>2. IsCell(cells[col + i], l, col + i) /\ new[i] = cells[col + i]
            BY <1>3, <2>2, <3>1
        <3>3. new[i].line = l /\ new[i].col = col + i
            BY <3>2 DEF IsCell
        <3> QED
            BY <3>1, <3>3
    <2> QED
        BY <1>3, <2>4, <2>6, <2>7 DEF Fine, Gone
<1> QED
    BY <1>5, <1>6

(* ... or a condition is negated and the line is cut off behind it.        *)
LEMMA CutNegated ==
    ASSUME NEW cells \in Seq(AnyCell), NEW l \in Lines, Whole(cells, l),
           NEW cond \in Nat, NEW condEnd \in Nat, cond < condEnd, NEW col \in Nat,
           condEnd < col, col <= Width[l], NEW negated, Negation(cells, negated, cond, condEnd),
           NEW new, new = FirstCells(negated, col + 2),
           NEW gone \in SUBSET (1 .. Width[l]), \A c \in 1 .. Width[l] : c \in gone <=> c >= col
    PROVE  Fine(new, l, gone) /\ Gone(new, l, gone)
<1>1. Len(cells) \in Nat /\ Width[l] \in Nat
    BY LenProperties, WidthsAre
<1>2. /\ negated \in Seq(AnyCell) /\ Len(negated) = Len(cells) + 3
      /\ \A n \in 1 .. Len(negated) :
            \/ negated[n] = Sign
            \/ \E m \in 1 .. Len(cells) : negated[n] = cells[m] /\ (m <= condEnd \/ m = n - 3)
      /\ \A m \in 1 .. Len(cells) : \E n \in m .. m + 3 : n <= Len(negated) /\ negated[n] = cells[m]
    <2>1. cond - 2 <= condEnd
        OBVIOUS
    <2> QED
        BY <2>1 DEF Negation
<1>3. Len(cells) = Width[l] /\ \A c \in 1 .. Width[l] : IsCell(cells[c], l, c)
    BY DEF Whole
<1>4. PICK n \in 0 .. Len(negated) : /\ n = IF col + 2 < Len(negated) THEN col + 2 ELSE Len(negated)
                                     /\ new = SubSeq(negated, 1, n)
    BY <1>1, <1>2 DEF FirstCells
<1>5. Len(new) = n /\ (\A i \in 1 .. n : new[i] = negated[i]) /\ n \in Nat
    <2>1. negated \in Seq(AnyCell) /\ Len(negated) \in Nat
        BY <1>1, <1>2
    <2>2. /\ Len(SubSeq(negated, 1, n)) = IF 1 <= n THEN n - 1 + 1 ELSE 0
          /\ \A i \in 1 .. Len(SubSeq(negated, 1, n)) : SubSeq(negated, 1, n)[i] = negated[1 + i - 1]
        BY <2>1, Parts
    <2> QED
        BY <1>4, <2>1, <2>2
<1>6. col \in gone /\ Width[l] > 0
    BY <1>1
<1>7. ASSUME NEW c \in 1 .. Width[l], c \notin gone
      PROVE  \E i \in 1 .. Len(new) : IsCell(new[i], l, c)
    <2>1. c < col /\ c \in 1 .. Len(cells) /\ c \in Nat
        BY <1>1, <1>3, <1>7
    <2>2. PICK i \in c .. c + 3 : i <= Len(negated) /\ negated[i] = cells[c]
        BY <1>2, <2>1
    <2>3. i \in 1 .. n
        BY <1>1, <1>2, <1>4, <2>1, <2>2
    <2> QED
        BY <1>3, <1>5, <2>2, <2>3
<1>8. ASSUME NEW i \in 1 .. Len(new), OfFile(new[i])
      PROVE  new[i].line = l /\ new[i].col \in 1 .. Width[l] /\ new[i].col \notin gone
    <2>1. i \in Nat /\ i \in 1 .. Len(negated) /\ i <= col + 2 /\ new[i] = negated[i]
        BY <1>1, <1>2, <1>4, <1>5
    <2>2. new[i] # Sign
        BY <1>8, SnippetIs DEF OfFile, Sign
    <2>3. PICK m \in 1 .. Len(cells) : new[i] = cells[m] /\ (m <= condEnd \/ m = i - 3)
        BY <1>2, <2>1, <2>2
    <2>4. m < col /\ m \in 1 .. Width[l] /\ new[i].col = m /\ new[i].line = l
        BY <1>1, <1>3, <2>1, <2>3 DEF IsCell
    <2> QED
        BY <2>4
<1> QED
    BY <1>6, <1>7, <1>8 DEF Fine, Gone

(* What deleteCodeRange takes of line l, the column it is given as the end *)
(* included.                                                               *)
Asked(from, to, l) ==
    {c \in 1 .. Width[l] : /\ l > from[1] \/ (l = from[1] /\ c >= from[2])
                           /\ l < to[1] \/ (l = to[1] /\ c <= to[2])}

LEMMA AskedColumns ==
    ASSUME NEW from, NEW to, NEW l \in Lines
    PROVE  /\ Asked(from, to, l) \subseteq 1 .. Width[l]
           /\ \A c \in 1 .. Width[l] : c \in Asked(from, to, l) <=>
                 /\ from[1] < l \/ (l = from[1] /\ c >= from[2])
                 /\ l < to[1] \/ (l = to[1] /\ c <= to[2])
<1>1. (l > from[1]) <=> (from[1] < l)
    OBVIOUS
<1> QED
    BY <1>1 DEF Asked

(* Of line l, what is between two positions.                               *)
LEMMA BetweenColumns ==
    ASSUME NEW from \in Position, NEW to \in Position, NEW l \in Lines, NEW c \in 1 .. Width[l]
    PROVE  <<l, c>> \in Between(from, to) <=>
               /\ l > from[1] \/ (l = from[1] /\ c >= from[2])
               /\ l < to[1] \/ (l = to[1] /\ c < to[2])
<1>1. <<l, c>> \in UNION {{m} \X (1 .. Width[m]) : m \in Lines}
    OBVIOUS
<1>2. /\ l \in Nat /\ c \in Nat /\ from[1] \in Nat /\ from[2] \in Nat
      /\ to[1] \in Nat /\ to[2] \in Nat
    BY LinesAre, WidthsAre DEF Position
<1>3. <<l, c>> \in Between(from, to) <=>
          /\ ~ (l < from[1] \/ (l = from[1] /\ c < from[2]))
          /\ l < to[1] \/ (l = to[1] /\ c < to[2])
    BY <1>1 DEF Between, Before
<1> QED
    BY <1>2, <1>3

(* A range that goes from column c1 of line f to column c2 of line t is    *)
(* named, besides what is named already.                                   *)
NamedToo(more, gone, l, f, t, c1, c2) ==
    /\ more \subseteq 1 .. Width[l]
    /\ \A c \in 1 .. Width[l] :
           c \in more <=> c \in gone \/ (/\ f < l \/ (l = f /\ c >= c1)
                                         /\ l < t \/ (l = t /\ c <= c2))

(* What is left of a line that a range begins on, ends on or goes over. *)
CutOff(cells, l, f, t, c1, c2) ==
    IF l = f /\ c1 > 1 THEN FirstCells(cells, c1 - 1)
    ELSE IF l = t /\ c2 < Len(cells) THEN CellsBehind(cells, c2) ELSE <<>>

CanCut(gone, l, f, t, c1, c2) ==
    /\ f \in Nat /\ t \in Nat /\ c1 \in Nat /\ c1 >= 1 /\ c2 \in Nat
    /\ f <= l /\ l <= t /\ (l = f /\ l = t => c1 = 1 \/ c2 >= Width[l])
    /\ l = f \/ l = t => gone = {}

LEMMA LineCut ==
    ASSUME NEW l \in Lines, NEW f, NEW t, NEW c1, NEW c2, NEW gone, CanCut(gone, l, f, t, c1, c2),
           NEW cells \in Seq(AnyCell), Fine(cells, l, gone),
           NEW more, NamedToo(more, gone, l, f, t, c1, c2),
           NEW new, new = CutOff(cells, l, f, t, c1, c2)
    PROVE  Fine(new, l, more) /\ (Gone(cells, l, gone) => Gone(new, l, more))
<1> USE DEF CanCut
<1>0. new = IF l = f /\ c1 > 1 THEN FirstCells(cells, c1 - 1)
            ELSE IF l = t /\ c2 < Len(cells) THEN CellsBehind(cells, c2) ELSE <<>>
    BY DEF CutOff
<1>1. l \in Nat /\ Width[l] \in Nat
    BY LinesAre, WidthsAre
<1>2. l = f \/ l = t => gone = {} /\ (Width[l] > 0 => Whole(cells, l))
    BY DEF Fine
<1>3. CASE l = f /\ c1 > 1
    <2>1. ASSUME NEW c \in 1 .. Width[l]
          PROVE  c \in more <=> c >= c1
        <3>1. c \in more <=> c >= c1 /\ (l < t \/ (l = t /\ c <= c2))
            BY <1>1, <1>2, <1>3 DEF NamedToo
        <3>2. l = t => c <= c2
            BY <1>1, <1>3
        <3> QED
            BY <1>1, <3>1, <3>2
    <2>2. new = FirstCells(cells, c1 - 1) /\ more \in SUBSET (1 .. Width[l])
        BY <1>0, <1>3 DEF NamedToo
    <2> QED
        BY <1>2, <1>3, <2>1, <2>2, CutEnd
<1>4. CASE ~ (l = f /\ c1 > 1) /\ l = t
    <2>1. f < l \/ (l = f /\ c1 = 1)
        BY <1>1, <1>4
    <2>2. ASSUME NEW c \in 1 .. Width[l]
          PROVE  c \in more <=> c <= c2
        BY <1>1, <1>2, <1>4, <2>1 DEF NamedToo
    <2>4. /\ new = IF c2 < Len(cells) THEN CellsBehind(cells, c2) ELSE <<>>
          /\ more \in SUBSET (1 .. Width[l])
        BY <1>0, <1>4 DEF NamedToo
    <2>5. gone = {} /\ (Width[l] > 0 => Whole(cells, l))
        BY <1>2, <1>4
    <2>6. Fine(new, l, more) /\ (Gone(cells, l, {}) => Gone(new, l, more))
        BY <2>2, <2>4, <2>5, CutStart
    <2> QED
        BY <2>5, <2>6
<1>5. CASE ~ (l = f /\ c1 > 1) /\ l # t
    <2>1. f < l \/ (l = f /\ c1 = 1)
        BY <1>1, <1>5
    <2>2. ASSUME NEW c \in 1 .. Width[l]
          PROVE  c \in more
        BY <1>1, <1>5, <2>1 DEF NamedToo
    <2>3. more = {} => ~ (Width[l] > 0)
        BY <1>1, <2>2
    <2>4. new = <<>> /\ Len(new) = 0
        BY <1>0, <1>5
    <2> QED
        BY <2>2, <2>3, <2>4 DEF Fine, Gone, NamedToo
<1> QED
    BY <1>3, <1>4, <1>5

LEMMA LineLeft ==
    ASSUME NEW l \in Lines, NEW f \in Nat, NEW t \in Nat, NEW c1, NEW c2, ~ (f <= l) \/ ~ (l <= t),
           NEW gone \in SUBSET (1 .. Width[l]), NEW more, NamedToo(more, gone, l, f, t, c1, c2)
    PROVE  more = gone
<1>1. l \in Nat
    BY LinesAre
<1>2. (~ (f < l) /\ l # f) \/ (~ (l < t) /\ l # t)
    BY <1>1
<1>3. \A c \in 1 .. Width[l] : c \in more <=> c \in gone
    BY <1>2, Zenon DEF NamedToo
<1> QED
    BY <1>3 DEF NamedToo

LEMMA LineDeleted ==
    ASSUME OffsetsType, TextType, Placed,
           NEW text \in Seq(TextLine), Len(text) = Len(workText), NEW l \in Lines,
           NEW i, i = Adjusted(l), NEW from \in Position, NEW to \in Lines \X Nat, Single(from, to),
           NEW u, u[1] = from[1], l = from[1] => u[2] = from[2],
           NEW gone \in SUBSET (1 .. Width[l]), l \in {from[1], to[1]} => gone = {},
           NEW cells, cells = text[i].cells, Fine(cells, l, gone),
           NEW new, new = Without(text, from, to)[i].cells
    PROVE  /\ Fine(new, l, gone \cup Asked(u, to, l))
           /\ FirstBehind(from[1]) = Adjusted(from[1]) /\ Gone(cells, l, gone) =>
                  Gone(new, l, gone \cup Asked(u, to, l))
<1>1. PICK f, t, c1, c2, more :
          /\ f = from[1] /\ t = to[1] /\ c1 = from[2] /\ c2 = to[2]
          /\ more = gone \cup Asked(u, to, l)
    OBVIOUS
<1>2. /\ f \in Lines /\ t \in Lines /\ c1 \in Nat /\ c1 >= 1 /\ c2 \in Nat
      /\ from \in Lines \X Int
    BY <1>1 DEF Position
<1>3. ASSUME NEW m \in Lines
      PROVE  /\ m \in 0 .. Len(Width) /\ m \in 0 .. Len(Width) + 1
             /\ m + 1 \in 0 .. Len(Width) + 1 /\ m \in Nat
    BY WidthType DEF Lines
<1>4. /\ Adjusted(f) \in 1 .. Len(workText) /\ Adjusted(t) \in 1 .. Len(workText)
      /\ i \in 1 .. Len(workText) /\ Len(workText) \in Nat
    BY <1>2, LineIn, TextFacts
<1>5. /\ FirstBehind(f) = Adjusted(f) + offsets[f] /\ offsets[f] \in Nat
      /\ Adjusted(f + 1) = FirstBehind(f) + 1
    BY <1>2, <1>3, AdjustedNext
<1>6. /\ f <= l <=> Adjusted(f) <= i
      /\ f = l <=> Adjusted(f) = i
      /\ l <= t <=> i <= Adjusted(t)
      /\ l = t <=> i = Adjusted(t)
      /\ f + 1 <= l <=> Adjusted(f + 1) <= i
    BY <1>2, <1>3, AdjustedCompare
<1>7. cells \in Seq(AnyCell)
    <2>1. text[i] \in TextLine
        BY <1>4, ElementOfSeq
    <2> QED
        BY <2>1 DEF TextLine
<1>8. new = IF Deleted(text, from, to) /\ i \in FirstBehind(f) .. Adjusted(t)
            THEN Remaining(text, i, from, to) ELSE cells
    <2> DEFINE rest == Without(text, from, to)
    <2>1. \A j \in 1 .. Len(text) :
             rest[j].cells = IF Deleted(text, from, to)
                                /\ j \in FirstBehind(from[1]) .. Adjusted(to[1])
                             THEN Remaining(text, j, from, to) ELSE text[j].cells
        BY <1>2, WithoutText
    <2>2. i \in 1 .. Len(text) /\ new = rest[i].cells
        BY <1>4
    <2> HIDE DEF rest
    <2> QED
        BY <1>1, <2>1, <2>2
<1>9. NamedToo(more, gone, l, f, t, c1, c2)
    <2>1. PICK asked : /\ asked = Asked(u, to, l) /\ asked \subseteq 1 .. Width[l]
                       /\ \A c \in 1 .. Width[l] : c \in asked <=>
                             /\ u[1] < l \/ (l = u[1] /\ c >= u[2])
                             /\ l < to[1] \/ (l = to[1] /\ c <= to[2])
        BY AskedColumns
    <2>2. u[1] = f /\ to[1] = t /\ to[2] = c2 /\ (l = f => u[2] = c1)
        BY <1>1
    <2>3. \A c \in 1 .. Width[l] : c \in asked <=>
             /\ f < l \/ (l = f /\ c >= c1)
             /\ l < t \/ (l = t /\ c <= c2)
        BY <2>1, <2>2, Zenon
    <2>4. more = gone \cup asked
        BY <1>1, <2>1
    <2>5. \A c : c \in more <=> c \in gone \/ c \in asked
        BY <2>4
    <2>6. more \subseteq 1 .. Width[l]
        BY <2>1, <2>4
    <2>7. ASSUME NEW c \in 1 .. Width[l]
          PROVE  c \in more <=> c \in gone \/ (/\ f < l \/ (l = f /\ c >= c1)
                                               /\ l < t \/ (l = t /\ c <= c2))
        <3>1. c \in asked <=> (/\ f < l \/ (l = f /\ c >= c1)
                               /\ l < t \/ (l = t /\ c <= c2))
            BY <2>3, Zenon
        <3>2. c \in more <=> c \in gone \/ c \in asked
            BY <2>5, Zenon
        <3> QED
            BY <3>1, <3>2, Zenon
    <2> QED
        BY <2>6, <2>7, Zenon DEF NamedToo
<1>10. CASE ~ (Deleted(text, from, to) /\ i \in FirstBehind(f) .. Adjusted(t))
    <2>1. new = cells
        BY <1>8, <1>10
    <2>2. CASE FirstBehind(f) # Adjusted(f)
        <3>1. gone \subseteq more
            BY <1>1
        <3>2. Fine(new, l, more)
            BY <2>1, <3>1, FineMonotone
        <3> QED
            BY <1>1, <2>2, <3>2
    <2>3. CASE FirstBehind(f) = Adjusted(f)
        <3>1. Deleted(text, from, to)
            BY <1>1, <1>4, <2>3 DEF Deleted
        <3>2. ~ (Adjusted(f) <= i) \/ ~ (i <= Adjusted(t))
            BY <1>4, <1>10, <2>3, <3>1
        <3>3. (~ (f <= l) \/ ~ (l <= t)) /\ f \in Nat /\ t \in Nat
            BY <1>2, <1>3, <1>6, <3>2
        <3>4. more = gone
            BY <1>9, <3>3, LineLeft
        <3> QED
            BY <1>1, <2>1, <3>4
    <2> QED
        BY <2>2, <2>3
<1>11. CASE Deleted(text, from, to) /\ i \in FirstBehind(f) .. Adjusted(t)
    <2>1. new = Remaining(text, i, from, to)
        BY <1>8, <1>11
    <2>2. FirstBehind(f) <= i /\ i <= Adjusted(t) /\ Adjusted(f) <= i
        BY <1>4, <1>5, <1>11
    <2>3. f <= l /\ l <= t /\ f \in Nat /\ l \in Nat /\ t \in Nat
        BY <1>2, <1>3, <1>6, <2>2
    <2>4. i = FirstBehind(f) <=> l = f
        <3>1. l = f => i = FirstBehind(f)
            BY <1>4, <1>5, <1>6, <2>2
        <3>2. l # f => f + 1 <= l
            BY <2>3
        <3>3. l # f => FirstBehind(f) < i
            BY <1>4, <1>5, <1>6, <3>2
        <3> QED
            BY <1>4, <1>5, <3>1, <3>3
    <2>5. new = IF i = FirstBehind(f) /\ c1 > 1 THEN FirstCells(cells, c1 - 1)
                ELSE IF i = Adjusted(t) /\ c2 < Len(cells) THEN CellsBehind(cells, c2) ELSE <<>>
        BY <1>1, <2>1 DEF Remaining
    <2>6. new = CutOff(cells, l, f, t, c1, c2)
        BY <1>6, <2>4, <2>5, Zenon DEF CutOff
    <2>7. l = f /\ l = t => c1 = 1 \/ c2 >= Width[l]
        BY <1>1 DEF Single
    <2>8. l = f \/ l = t => gone = {}
        BY <1>1
    <2>9. CanCut(gone, l, f, t, c1, c2)
        BY <1>2, <2>3, <2>7, <2>8 DEF CanCut
    <2>10. Fine(new, l, more) /\ (Gone(cells, l, gone) => Gone(new, l, more))
        BY <1>7, <1>9, <2>6, <2>9, LineCut
    <2> QED
        BY <1>1, <2>10
<1> QED
    BY <1>10, <1>11

(* What callers have named, and what is right behind the ranges deleted. *)
Taken == dropped \cup behind

Columns(l) == {c \in 1 .. Width[l] : <<l, c>> \in Taken}

LineKept(l) == Fine(workText[Adjusted(l)].cells, l, Columns(l))
LineGone(l) == Gone(workText[Adjusted(l)].cells, l, Columns(l))

(* An added line is one text at most, too short to have a condition. *)
ShortLines ==
    \A i \in 1 .. Len(workText) : workText[i].number = 0 => Len(workText[i].cells) <= 1

AddedOnly ==
    \A i \in 1 .. Len(workText) : workText[i].number = 0 =>
        \A n \in 1 .. Len(workText[i].cells) : ~ OfFile(workText[i].cells[n])

KeptInv == LinesInv /\ ShortLines /\ \A l \in Lines : LineKept(l)

(* Lines are behind those only that callers have them added to. *)
OffsetsFrom == \A k \in Keys : offsets[k] # 0 => k \in AfterLines \/ k + 1 \in BeforeLines

GoneInv == OffsetsFrom /\ AddedOnly /\ \A l \in Lines : LineGone(l)

LEMMA LineKeptThen ==
    ASSUME NEW l, NEW cells, cells = workText'[Adjusted(l)'].cells,
           NEW gone, gone = Columns(l)'
    PROVE  /\ LineKept(l)' <=> Fine(cells, l, gone)
           /\ LineGone(l)' <=> Gone(cells, l, gone)
BY DEF LineKept, LineGone, Fine, Gone

LEMMA LineKeptNow ==
    ASSUME NEW l, NEW cells, cells = workText[Adjusted(l)].cells,
           NEW gone, gone = Columns(l)
    PROVE  /\ LineKept(l) <=> Fine(cells, l, gone)
           /\ LineGone(l) <=> Gone(cells, l, gone)
BY DEF LineKept, LineGone

LEMMA LineSame ==
    ASSUME NEW l, workText'[Adjusted(l)'].cells = workText[Adjusted(l)].cells,
           Columns(l)' = Columns(l)
    PROVE  /\ LineKept(l)' <=> LineKept(l)
           /\ LineGone(l)' <=> LineGone(l)
<1>1. PICK cells, gone : cells = workText[Adjusted(l)].cells /\ gone = Columns(l)
    OBVIOUS
<1>2. /\ LineKept(l) <=> Fine(cells, l, gone)
      /\ LineGone(l) <=> Gone(cells, l, gone)
    BY <1>1, LineKeptNow
<1>3. cells = workText'[Adjusted(l)'].cells /\ gone = Columns(l)'
    BY <1>1
<1>4. /\ LineKept(l)' <=> Fine(cells, l, gone)
      /\ LineGone(l)' <=> Gone(cells, l, gone)
    BY <1>3, LineKeptThen
<1> QED
    BY <1>2, <1>4

LEMMA AdjustedSame ==
    ASSUME UNCHANGED offsets, NEW l
    PROVE  Adjusted(l)' = Adjusted(l)
BY DEF Adjusted, Added

LEMMA ColumnsSame ==
    ASSUME UNCHANGED <<dropped, behind>>, NEW l
    PROVE  Columns(l)' = Columns(l)
BY DEF Columns, Taken

LEMMA InsertsKept ==
    ASSUME KeptInv, NEW k, NEW w \in Texts, Inserts(k, w), UNCHANGED <<dropped, behind>>
    PROVE  /\ ShortLines' /\ \A l \in Lines : LineKept(l)'
           /\ AddedOnly => AddedOnly'
           /\ \A l \in Lines : LineGone(l) => LineGone(l)'
<1> DEFINE p == Adjusted(k + 1)
           n == Len(workText)
<1>0. OffsetsType /\ TextType /\ Placed
    BY DEF KeptInv, LinesInv
<1>1. w \in AnyCell /\ ~ OfFile(w)
    BY TextsAre DEF OfFile
<1>2. /\ Len(workText') = n + 1 /\ p \in 1 .. n /\ n \in Nat
      /\ \A i \in 1 .. n + 1 :
            workText'[i] = IF i < p THEN workText[i]
                           ELSE IF i = p THEN Line(0, <<w>>) ELSE workText[i - 1]
      /\ \A l \in 0 .. Len(Width) + 1 : Adjusted(l)' = Adjusted(l) + (IF k < l THEN 1 ELSE 0)
    BY <1>0, <1>1, InsertedText
<1>3. /\ k \in 0 .. Len(Width) /\ k \in Nat /\ k \in 0 .. Len(Width) + 1
      /\ k + 1 \in 0 .. Len(Width) + 1
    BY WidthType DEF Inserts
<1>4. ASSUME NEW l \in Lines
      PROVE  /\ LineKept(l)' <=> LineKept(l)
             /\ LineGone(l)' <=> LineGone(l)
    <2>1. l \in 0 .. Len(Width) + 1 /\ l \in Nat
        BY LinesAre, WidthType
    <2>2. Adjusted(l) \in 1 .. n
        BY <1>0, LineIn
    <2>3. Adjusted(l)' = Adjusted(l) + (IF k < l THEN 1 ELSE 0)
        BY <1>2, <2>1
    <2>4. k + 1 <= l <=> p <= Adjusted(l)
        BY <1>0, <1>3, <2>1, AdjustedCompare
    <2> HIDE DEF p, n
    <2>5. PICK i \in 1 .. n : i = Adjusted(l)
        BY <2>2
    <2>6. CASE k < l
        <3>1. k + 1 <= l
            BY <1>3, <2>1, <2>6
        <3>2. p <= i /\ Adjusted(l)' = i + 1
            BY <2>3, <2>4, <2>5, <2>6, <3>1
        <3>3. i + 1 \in 1 .. n + 1 /\ ~ (i + 1 < p) /\ i + 1 # p /\ (i + 1) - 1 = i
            BY <1>2, <3>2
        <3>4. workText'[i + 1] = workText[i]
            BY <1>2, <3>3
        <3>5. workText'[Adjusted(l)'].cells = workText[Adjusted(l)].cells
            BY <2>5, <3>2, <3>4
        <3> QED
            BY <3>5, LineSame, ColumnsSame
    <2>7. CASE ~ (k < l)
        <3>1. ~ (k + 1 <= l)
            BY <1>3, <2>1, <2>7
        <3>2. i < p /\ Adjusted(l)' = i
            BY <1>2, <2>3, <2>4, <2>5, <2>7, <3>1
        <3>3. i \in 1 .. n + 1
            BY <1>2
        <3>4. workText'[i] = workText[i]
            BY <1>2, <3>2, <3>3
        <3>5. workText'[Adjusted(l)'].cells = workText[Adjusted(l)].cells
            BY <2>5, <3>2, <3>4
        <3> QED
            BY <3>5, LineSame, ColumnsSame
    <2> QED
        BY <2>6, <2>7
<1>5. ASSUME NEW i \in 1 .. n + 1
      PROVE  workText'[i].cells = <<w>> \/ \E m \in 1 .. n : workText'[i] = workText[m]
    <2>1. CASE i < p
        <3>1. i \in 1 .. n /\ workText'[i] = workText[i]
            BY <1>2, <2>1
        <3> QED
            BY <3>1
    <2>2. CASE i = p
        BY <1>2, <2>2 DEF Line
    <2>3. CASE i > p
        <3>1. i - 1 \in 1 .. n /\ workText'[i] = workText[i - 1]
            BY <1>2, <2>3
        <3> QED
            BY <3>1
    <2> QED
        BY <1>2, <2>1, <2>2, <2>3
<1>6. Len(<<w>>) = 1 /\ \A m \in 1 .. Len(<<w>>) : <<w>>[m] = w
    OBVIOUS
<1> HIDE DEF p
<1>7. ShortLines'
    <2>1. ASSUME NEW i \in 1 .. n + 1, workText'[i].number = 0
          PROVE  Len(workText'[i].cells) <= 1
        <3>1. CASE workText'[i].cells = <<w>>
            BY <1>6, <3>1
        <3>2. CASE \E m \in 1 .. n : workText'[i] = workText[m]
            BY <2>1, <3>2 DEF KeptInv, ShortLines
        <3> QED
            BY <1>5, <3>1, <3>2
    <2> QED
        BY <1>2, <2>1 DEF ShortLines
<1>8. AddedOnly => AddedOnly'
    <2>1. SUFFICES ASSUME AddedOnly
                   PROVE  AddedOnly'
        OBVIOUS
    <2>2. ASSUME NEW i \in 1 .. n + 1, workText'[i].number = 0, NEW c \in 1 .. Len(workText'[i].cells)
          PROVE  ~ OfFile(workText'[i].cells[c])
        <3>1. CASE workText'[i].cells = <<w>>
            BY <1>1, <1>6, <2>2, <3>1
        <3>2. CASE \E m \in 1 .. n : workText'[i] = workText[m]
            BY <2>1, <2>2, <3>2 DEF AddedOnly
        <3> QED
            BY <1>5, <3>1, <3>2
    <2> QED
        BY <1>2, <2>2 DEF AddedOnly, OfFile
<1> QED
    BY <1>4, <1>7, <1>8 DEF KeptInv

(* Lines stay where they are, and those that were added have no more in    *)
(* them than they had.                                                     *)
LEMMA KeepsAdded ==
    ASSUME KeptInv, KeepsLines,
           \A i \in 1 .. Len(workText) : workText[i].number = 0 =>
               /\ Len(workText'[i].cells) <= Len(workText[i].cells)
               /\ \A n \in 1 .. Len(workText'[i].cells) : OfFile(workText'[i].cells[n]) =>
                     \E m \in 1 .. Len(workText[i].cells) : OfFile(workText[i].cells[m])
    PROVE  ShortLines' /\ (AddedOnly => AddedOnly')
<1>1. ASSUME NEW i \in 1 .. Len(workText)
      PROVE  Len(workText[i].cells) \in Nat /\ Len(workText'[i].cells) \in Nat
    <2>1. workText[i] \in TextLine
        BY TextFacts DEF KeptInv, LinesInv
    <2>2. workText'[i] \in TextLine
        BY ElementOfSeq DEF KeepsLines, TextType
    <2> QED
        BY <2>1, <2>2, LenProperties DEF TextLine
<1>2. ShortLines'
    BY <1>1 DEF KeptInv, KeepsLines, ShortLines
<1>3. ASSUME AddedOnly
      PROVE  \A i \in 1 .. Len(workText) : workText[i].number = 0 =>
                 \A n \in 1 .. Len(workText'[i].cells) : ~ OfFile(workText'[i].cells[n])
    BY <1>3 DEF AddedOnly
<1>4. AddedOnly => AddedOnly'
    BY <1>3 DEF AddedOnly, KeepsLines, OfFile
<1> QED
    BY <1>2, <1>4

LEMMA ReplaceKept ==
    ASSUME KeptInv, NEW l \in Lines, Replace(l)
    PROVE  /\ ShortLines' /\ \A m \in Lines : LineKept(m)'
           /\ AddedOnly => AddedOnly'
           /\ \A m \in Lines : LineGone(m) => LineGone(m)'
<1>0. OffsetsType /\ TextType /\ Placed
    BY DEF KeptInv, LinesInv
<1>1. PICK v : v = Snippet("instead", l) /\ ~ OfFile(v)
    BY SnippetIs DEF OfFile
<1>2. /\ KeepsLines
      /\ \A i \in 1 .. Len(workText) :
            workText'[i] = IF i = Adjusted(l) THEN Line(l, <<v>>) ELSE workText[i]
    BY <1>0, <1>1, ReplaceText
<1>3. /\ Adjusted(l) \in 1 .. Len(workText) /\ workText[Adjusted(l)].number = l
      /\ l # 0 /\ Width[l] \in Nat
    BY <1>0, LineIn, LinesAre, WidthsAre
<1>4. Taken' = Taken \cup {<<l, c>> : c \in 1 .. Width[l]} /\ UNCHANGED offsets
    BY DEF Replace, Taken
<1>5. ASSUME NEW m \in Lines, m # l
      PROVE  /\ LineKept(m)' <=> LineKept(m)
             /\ LineGone(m)' <=> LineGone(m)
    <2>1. Adjusted(m) \in 1 .. Len(workText) /\ Adjusted(m) # Adjusted(l)
        <3>1. Adjusted(m) \in 1 .. Len(workText) /\ workText[Adjusted(m)].number = m
            BY <1>0, LineIn
        <3> QED
            BY <1>3, <1>5, <3>1
    <2>2. workText'[Adjusted(m)'].cells = workText[Adjusted(m)].cells
        <3>1. Adjusted(m)' = Adjusted(m)
            BY <1>4, AdjustedSame
        <3> QED
            BY <1>2, <2>1, <3>1
    <2>3. Columns(m)' = Columns(m)
        BY <1>4, <1>5 DEF Columns
    <2> QED
        BY <2>2, <2>3, LineSame
<1>6. LineKept(l)' /\ LineGone(l)'
    <2>1. Adjusted(l)' = Adjusted(l)
        BY <1>4, AdjustedSame
    <2>2. PICK cells : cells = <<v>> /\ cells = workText'[Adjusted(l)'].cells
        BY <1>2, <1>3, <2>1 DEF Line
    <2>3. PICK gone : gone = Columns(l)' /\ gone = 1 .. Width[l]
        BY <1>4 DEF Columns
    <2>4. Fine(cells, l, gone)
        <3>1. gone = {} => ~ (Width[l] > 0)
            BY <1>3, <2>3
        <3> QED
            BY <2>3, <3>1 DEF Fine
    <2>5. Gone(cells, l, gone)
        BY <1>1, <2>2 DEF Gone
    <2> QED
        BY <2>2, <2>3, <2>4, <2>5, LineKeptThen
<1>7. ASSUME NEW i \in 1 .. Len(workText), workText[i].number = 0
      PROVE  workText'[i] = workText[i]
    BY <1>2, <1>3, <1>7
<1>8. ASSUME NEW i \in 1 .. Len(workText), workText[i].number = 0
      PROVE  /\ Len(workText'[i].cells) <= Len(workText[i].cells)
             /\ \A n \in 1 .. Len(workText'[i].cells) : OfFile(workText'[i].cells[n]) =>
                   \E m \in 1 .. Len(workText[i].cells) : OfFile(workText[i].cells[m])
    <2>1. Len(workText[i].cells) \in Nat
        <3>1. workText[i] \in TextLine
            BY <1>0, TextFacts
        <3> QED
            BY <3>1, LenProperties DEF TextLine
    <2>2. workText'[i] = workText[i]
        BY <1>7, <1>8
    <2> QED
        BY <2>1, <2>2
<1>9. ShortLines' /\ (AddedOnly => AddedOnly')
    BY <1>2, <1>8, KeepsAdded
<1> QED
    BY <1>5, <1>6, <1>9 DEF KeptInv

LEMMA FillKept ==
    ASSUME KeptInv, NEW number, NEW name, <<number, name>> \in Named, Fill(number, name)
    PROVE  /\ ShortLines' /\ \A m \in Lines : LineKept(m)'
           /\ AddedOnly => AddedOnly'
           /\ \A m \in Lines : LineGone(m) => LineGone(m)'
<1>0. OffsetsType /\ TextType /\ Placed
    BY DEF KeptInv, LinesInv
<1>1. /\ KeepsLines
      /\ \A i \in 1 .. Len(workText) :
            /\ Len(workText'[i].cells) = Len(workText[i].cells)
            /\ \A c \in 1 .. Len(workText[i].cells) :
                  workText'[i].cells[c] = Filled(workText[i].cells[c], number, name)
    BY <1>0, FillText
<1>2. UNCHANGED <<offsets, dropped, behind>>
    BY DEF Fill
<1>3. ASSUME NEW i \in 1 .. Len(workText), NEW c \in 1 .. Len(workText[i].cells)
      PROVE  /\ OfFile(workText'[i].cells[c]) <=> OfFile(workText[i].cells[c])
             /\ workText'[i].cells[c].line = workText[i].cells[c].line
             /\ workText'[i].cells[c].col = workText[i].cells[c].col
    <2>1. PICK d \in AnyCell : d = workText[i].cells[c]
        <3>1. workText[i] \in TextLine
            BY <1>0, TextFacts
        <3>2. workText[i].cells \in Seq(AnyCell)
            BY <3>1 DEF TextLine
        <3> QED
            BY <3>2, ElementOfSeq
    <2>2. PICK e : e = Filled(d, number, name) /\ e = workText'[i].cells[c]
        BY <1>1, <2>1
    <2>3. e.line = d.line /\ e.col = d.col /\ (e = d \/ (d.kind = "source" /\ e.kind = "filled"))
        <3>1. /\ Filled(d, number, name).line = d.line /\ Filled(d, number, name).col = d.col
              /\ \/ Filled(d, number, name) = d
                 \/ d.kind = "source" /\ Filled(d, number, name).kind = "filled"
            BY FilledType
        <3> QED
            BY <2>2, <3>1
    <2>4. OfFile(e) <=> OfFile(d)
        BY <2>3 DEF OfFile
    <2> QED
        BY <2>1, <2>2, <2>3, <2>4
<1>4. ASSUME NEW l \in Lines
      PROVE  LineKept(l)' /\ (LineGone(l) => LineGone(l)')
    <2>1. Adjusted(l)' = Adjusted(l) /\ Columns(l)' = Columns(l)
        BY <1>2, AdjustedSame, ColumnsSame
    <2>2. PICK i \in 1 .. Len(workText) : i = Adjusted(l)
        BY <1>0, LineIn
    <2>3. PICK cells, new, gone : /\ cells = workText[i].cells /\ new = workText'[i].cells
                                  /\ gone = Columns(l)
        OBVIOUS
    <2>4. /\ Len(new) = Len(cells)
          /\ \A n \in 1 .. Len(cells) : /\ OfFile(new[n]) <=> OfFile(cells[n])
                                        /\ new[n].line = cells[n].line
                                        /\ new[n].col = cells[n].col
        BY <1>1, <1>3, <2>3
    <2>5. \A n \in 1 .. Len(cells) : \A c : IsCell(cells[n], l, c) => IsCell(new[n], l, c)
        BY <2>4 DEF IsCell
    <2>6. Fine(cells, l, gone) => Fine(new, l, gone)
        <3>1. Whole(cells, l) => Whole(new, l)
            <4>1. SUFFICES ASSUME Len(cells) = Width[l],
                                  \A c \in 1 .. Width[l] : IsCell(cells[c], l, c)
                           PROVE  Len(new) = Width[l] /\ \A c \in 1 .. Width[l] : IsCell(new[c], l, c)
                BY DEF Whole
            <4> QED
                BY <2>4, <2>5, <4>1
        <3> QED
            BY <2>4, <2>5, <3>1 DEF Fine
    <2>7. Gone(cells, l, gone) => Gone(new, l, gone)
        BY <2>4 DEF Gone
    <2>8. /\ LineKept(l) <=> Fine(cells, l, gone)
          /\ LineGone(l) <=> Gone(cells, l, gone)
        BY <2>2, <2>3, LineKeptNow
    <2>9. new = workText'[Adjusted(l)'].cells /\ gone = Columns(l)'
        BY <2>1, <2>2, <2>3
    <2>10. /\ LineKept(l)' <=> Fine(new, l, gone)
           /\ LineGone(l)' <=> Gone(new, l, gone)
        BY <2>9, LineKeptThen
    <2>11. LineKept(l)
        BY DEF KeptInv
    <2> QED
        BY <2>6, <2>7, <2>8, <2>10, <2>11
<1>5. ASSUME NEW i \in 1 .. Len(workText)
      PROVE  /\ Len(workText'[i].cells) <= Len(workText[i].cells)
             /\ \A n \in 1 .. Len(workText'[i].cells) : OfFile(workText'[i].cells[n]) =>
                   \E m \in 1 .. Len(workText[i].cells) : OfFile(workText[i].cells[m])
    <2>1. Len(workText[i].cells) \in Nat
        <3>1. workText[i] \in TextLine
            BY <1>0, TextFacts
        <3> QED
            BY <3>1, LenProperties DEF TextLine
    <2>2. Len(workText'[i].cells) = Len(workText[i].cells)
        BY <1>1
    <2> QED
        BY <1>3, <2>1, <2>2
<1>6. ShortLines' /\ (AddedOnly => AddedOnly')
    BY <1>1, <1>5, KeepsAdded
<1> QED
    BY <1>4, <1>6

(* A range is deleted: the lines of the file, ... *)
LEMMA LineDeletes ==
    ASSUME KeptInv, UNCHANGED offsets, NEW text \in Seq(TextLine), Len(text) = Len(workText),
           NEW from \in Position, NEW to \in Lines \X Nat, Single(from, to),
           workText' = Without(text, from, to),
           NEW u, u[1] = from[1], \A p \in Taken : p[1] \notin {u[1], to[1]},
           NEW l \in Lines, Columns(l)' = Columns(l) \cup Asked(u, to, l),
           l = from[1] => u[2] = from[2],
           text[Adjusted(l)].cells = workText[Adjusted(l)].cells
    PROVE  /\ LineKept(l)'
           /\ FirstBehind(from[1]) = Adjusted(from[1]) /\ LineGone(l) => LineGone(l)'
<1>0. OffsetsType /\ TextType /\ Placed
    BY DEF KeptInv, LinesInv
<1>1. PICK i, cells, new, gone, more :
          /\ i = Adjusted(l) /\ cells = text[i].cells /\ new = Without(text, from, to)[i].cells
          /\ gone = Columns(l) /\ more = gone \cup Asked(u, to, l)
    OBVIOUS
<1>2. gone \in SUBSET (1 .. Width[l]) /\ (l \in {from[1], to[1]} => gone = {})
    BY <1>1 DEF Columns
<1>3. cells = workText[Adjusted(l)].cells
    BY <1>1
<1>4. /\ LineKept(l) <=> Fine(cells, l, gone)
      /\ LineGone(l) <=> Gone(cells, l, gone)
    BY <1>1, <1>3, LineKeptNow
<1>5. Fine(cells, l, gone)
    BY <1>4 DEF KeptInv
<1>6. /\ Fine(new, l, gone \cup Asked(u, to, l))
      /\ FirstBehind(from[1]) = Adjusted(from[1]) /\ Gone(cells, l, gone) =>
             Gone(new, l, gone \cup Asked(u, to, l))
    BY <1>0, <1>1, <1>2, <1>5, LineDeleted
<1>7. new = workText'[Adjusted(l)'].cells /\ more = Columns(l)'
    <2>1. Adjusted(l)' = Adjusted(l)
        BY AdjustedSame
    <2> QED
        BY <1>1, <2>1
<1>8. /\ LineKept(l)' <=> Fine(new, l, more)
      /\ LineGone(l)' <=> Gone(new, l, more)
    BY <1>7, LineKeptThen
<1> QED
    BY <1>1, <1>4, <1>6, <1>8

(* ... and those that were added. *)
LEMMA AddedDeletes ==
    ASSUME KeptInv, UNCHANGED offsets, NEW text \in Seq(TextLine), Len(text) = Len(workText),
           \A i \in 1 .. Len(workText) :
               /\ text[i].number = workText[i].number
               /\ workText[i].number = 0 => text[i].cells = workText[i].cells,
           NEW from \in Lines \X Int, NEW to \in Lines \X Nat, workText' = Without(text, from, to)
    PROVE  ShortLines' /\ (AddedOnly => AddedOnly')
<1> DEFINE new == Without(text, from, to)
<1>0. OffsetsType /\ TextType
    BY DEF KeptInv, LinesInv
<1>1. /\ new \in Seq(TextLine) /\ Len(new) = Len(text)
      /\ \A i \in 1 .. Len(text) :
            /\ new[i].number = text[i].number
            /\ new[i].cells =
                  IF Deleted(text, from, to)
                     /\ i \in FirstBehind(from[1]) .. Adjusted(to[1])
                  THEN Remaining(text, i, from, to)
                  ELSE text[i].cells
    BY <1>0, WithoutText
<1>2. workText' = new
    OBVIOUS
<1> HIDE DEF new
<1>3. KeepsLines
    BY <1>1, <1>2 DEF KeepsLines, TextType
<1>4. ASSUME NEW i \in 1 .. Len(workText)
      PROVE  /\ Len(new[i].cells) <= Len(text[i].cells)
             /\ \A n \in 1 .. Len(new[i].cells) :
                   \E m \in 1 .. Len(text[i].cells) : new[i].cells[n] = text[i].cells[m]
    <2>1. i \in 1 .. Len(text) /\ Len(text[i].cells) \in Nat
        <3>1. text[i] \in TextLine
            BY ElementOfSeq
        <3> QED
            BY <3>1, LenProperties DEF TextLine
    <2> DEFINE rest == Remaining(text, i, from, to)
               old == text[i].cells
               cells == new[i].cells
    <2>2. /\ Len(rest) <= Len(old)
          /\ \A n \in 1 .. Len(rest) : \E m \in 1 .. Len(old) : rest[n] = old[m]
        BY <2>1, RemainingType
    <2>3. cells = rest \/ cells = old
        BY <1>1, <2>1
    <2> HIDE DEF rest, old, cells
    <2>4. Len(cells) <= Len(old) /\ \A n \in 1 .. Len(cells) : \E m \in 1 .. Len(old) : cells[n] = old[m]
        <3>1. CASE cells = rest
            BY <2>2, <3>1
        <3>2. CASE cells = old
            BY <2>1, <3>2 DEF old
        <3> QED
            BY <2>3, <3>1, <3>2
    <2> QED
        BY <2>4 DEF old, cells
<1>5. ASSUME NEW i \in 1 .. Len(workText), workText[i].number = 0
      PROVE  /\ Len(workText'[i].cells) <= Len(workText[i].cells)
             /\ \A n \in 1 .. Len(workText'[i].cells) : OfFile(workText'[i].cells[n]) =>
                   \E m \in 1 .. Len(workText[i].cells) : OfFile(workText[i].cells[m])
    <2> DEFINE old == workText[i].cells
               was == text[i].cells
               cells == new[i].cells
    <2>1. was = old
        BY <1>5
    <2>2. Len(cells) <= Len(was) /\ \A n \in 1 .. Len(cells) : \E m \in 1 .. Len(was) : cells[n] = was[m]
        BY <1>4
    <2> HIDE DEF old, was, cells
    <2>3. \A n \in 1 .. Len(cells) : OfFile(cells[n]) => \E m \in 1 .. Len(old) : OfFile(old[m])
        BY <2>1, <2>2
    <2> QED
        BY <1>2, <2>1, <2>2, <2>3 DEF old, cells
<1> QED
    BY <1>3, <1>5, KeepsAdded

(* What callers name and the character behind are what is taken. *)
LEMMA TakenThrough ==
    ASSUME NEW from \in Position, NEW to \in Position, Before(from, to), NEW l \in Lines,
           Asks(from, to), behind' = behind \cup {to}
    PROVE  Columns(l)' = Columns(l) \cup Asked(from, to, l)
<1>1. \A c \in 1 .. Width[l] :
          <<l, c>> \in Taken' <=> \/ <<l, c>> \in Taken
                                 \/ <<l, c>> \in Between(from, to)
                                 \/ <<l, c>> = to
    BY DEF Asks, Taken
<1>2. ASSUME NEW c \in 1 .. Width[l]
      PROVE  <<l, c>> \in Between(from, to) \/ <<l, c>> = to <=> c \in Asked(from, to, l)
    <2>1. /\ l \in Nat /\ c \in Nat /\ from[1] \in Nat /\ from[2] \in Nat
          /\ to[1] \in Nat /\ to[2] \in Nat /\ to = <<to[1], to[2]>>
        BY LinesAre, WidthsAre DEF Position
    <2>2. <<l, c>> = to <=> l = to[1] /\ c = to[2]
        BY <2>1
    <2>3. from[1] < to[1] \/ (from[1] = to[1] /\ from[2] < to[2])
        BY DEF Before
    <2>4. c \in Asked(from, to, l) <=>
              /\ l > from[1] \/ (l = from[1] /\ c >= from[2])
              /\ l < to[1] \/ (l = to[1] /\ c <= to[2])
        BY DEF Asked
    <2> QED
        BY <2>1, <2>2, <2>3, <2>4, BetweenColumns
<1>3. Asked(from, to, l) \subseteq 1 .. Width[l]
    BY DEF Asked
<1> QED
    BY <1>1, <1>2, <1>3 DEF Columns

(* A range of the text as it is. *)
LEMMA DeletesKept ==
    ASSUME KeptInv, Careful, UNCHANGED offsets, NEW from \in Position, NEW to \in Position,
           Before(from, to), Single(from, to), Deletes(from, to), Asks(from, to)
    PROVE  /\ ShortLines' /\ \A l \in Lines : LineKept(l)'
           /\ AddedOnly => AddedOnly'
           /\ FirstBehind(from[1]) = Adjusted(from[1]) =>
                  \A l \in Lines : LineGone(l) => LineGone(l)'
<1>1. /\ workText \in Seq(TextLine) /\ from \in Lines \X Int /\ to \in Lines \X Nat
      /\ workText' = Without(workText, from, to) /\ behind' = behind \cup {to}
      /\ \A p \in Taken : p[1] \notin {from[1], to[1]}
    BY DEF KeptInv, LinesInv, TextType, Position, Asks, Deletes, Taken
<1>2. ShortLines' /\ (AddedOnly => AddedOnly')
    BY <1>1, AddedDeletes
<1>3. ASSUME NEW l \in Lines
      PROVE  /\ LineKept(l)'
             /\ FirstBehind(from[1]) = Adjusted(from[1]) /\ LineGone(l) => LineGone(l)'
    <2>1. Columns(l)' = Columns(l) \cup Asked(from, to, l)
        BY <1>1, TakenThrough
    <2> QED
        BY <1>1, <2>1, LineDeletes
<1> QED
    BY <1>2, <1>3

(* The condition is found on its own line: added ones are too short. *)
LEMMA NegatedLine ==
    ASSUME KeptInv, NEW b \in Branch, b.else # NoElse, Formatted(b), CanNegate(b)
    PROVE  /\ NegationLine(b) = Adjusted(b.then[1]) /\ FirstBehind(b.then[1]) = Adjusted(b.then[1])
           /\ NegationLine(b) \in 1 .. Len(workText)
<1> DEFINE k == NegationLine(b)
           l == b.then[1]
           t == b.else[1]
<1>0. OffsetsType /\ TextType /\ Placed
    BY DEF KeptInv, LinesInv
<1>1. /\ l \in Lines /\ t \in Lines /\ l < t /\ b.cond[1] = l /\ b.cond[2] < b.condEnd[2]
      /\ b.cond[2] \in Nat /\ b.cond[2] >= 1 /\ b.condEnd[2] \in Nat
    BY DEF Branch, Position, Formatted
<1>2. k = FirstBehind(l)
    BY <1>1 DEF NegationLine
<1>3. CanNegate(b) /\ b \in Branch
    OBVIOUS
<1> HIDE DEF k, l, t
<1>4. /\ l \in 0 .. Len(Width) /\ l \in 0 .. Len(Width) + 1 /\ t \in 0 .. Len(Width) + 1
      /\ l + 1 \in 0 .. Len(Width) + 1 /\ l \in Nat /\ t \in Nat /\ l + 1 <= t
    <2>1. ASSUME NEW m \in Lines
          PROVE  /\ m \in 0 .. Len(Width) /\ m \in 0 .. Len(Width) + 1
                 /\ m + 1 \in 0 .. Len(Width) + 1 /\ m \in Nat
        BY WidthType DEF Lines
    <2> QED
        BY <1>1, <2>1
<1>5. /\ FirstBehind(l) = Adjusted(l) + offsets[l] /\ offsets[l] \in Nat
      /\ Adjusted(l + 1) = FirstBehind(l) + 1
    BY <1>0, <1>4, AdjustedNext
<1>6. /\ Adjusted(l) \in 1 .. Len(workText) /\ Adjusted(t) \in 1 .. Len(workText)
      /\ Len(workText) \in Nat
    BY <1>0, <1>1, LineIn, TextFacts
<1>7. Adjusted(l + 1) <= Adjusted(t)
    BY <1>0, <1>4, AdjustedCompare
<1>8. k \in 1 .. Len(workText) /\ Adjusted(l) <= k /\ k < Adjusted(l + 1) /\ k \in Nat
    BY <1>2, <1>5, <1>6, <1>7
<1>9. b.condEnd[2] <= Len(workText[k].cells)
    BY <1>3, <1>8 DEF CanNegate, k
<1>10. PICK m : m = workText[k].number
    OBVIOUS
<1>11. m # 0
    <2>1. SUFFICES ASSUME m = 0
                   PROVE  FALSE
        OBVIOUS
    <2>2. Len(workText[k].cells) <= 1
        BY <1>8, <1>10, <2>1 DEF KeptInv, ShortLines
    <2>3. Len(workText[k].cells) \in Nat
        <3>1. workText[k] \in TextLine
            BY <1>0, <1>8, TextFacts
        <3> QED
            BY <3>1, LenProperties DEF TextLine
    <2> QED
        BY <1>1, <1>9, <2>2, <2>3
<1>12. m \in Lines /\ m \in 0 .. Len(Width) + 1 /\ m \in Nat
    <2>1. workText[k] \in TextLine
        BY <1>0, <1>8, TextFacts
    <2>2. m \in 0 .. Len(Width)
        BY <1>10, <2>1 DEF TextLine
    <2> QED
        BY <1>11, <2>2, WidthType DEF Lines
<1>13. k = Adjusted(m)
    <2>1. k \in DOMAIN workText
        BY <1>0, <1>8, TextFacts
    <2> QED
        BY <1>0, <1>10, <1>12, <2>1 DEF Placed
<1>14. l <= m /\ m < l + 1
    <2>1. (l <= m <=> Adjusted(l) <= Adjusted(m)) /\ (m < l + 1 <=> Adjusted(m) < Adjusted(l + 1))
        BY <1>0, <1>4, <1>12, AdjustedCompare
    <2> QED
        BY <1>8, <1>13, <2>1
<1>15. m = l
    BY <1>4, <1>12, <1>14
<1> QED
    BY <1>2, <1>8, <1>13, <1>15 DEF k, l

LEMMA ThenKept ==
    ASSUME KeptInv, Careful, UNCHANGED offsets, NEW b \in Branch, b.else # NoElse, Formatted(b),
           CanNegate(b), workText' = Without(WithNegation(b), ThenRange(b)[1], ThenRange(b)[2]),
           Asks(b.then, b.else), UNCHANGED behind
    PROVE  /\ ShortLines' /\ \A l \in Lines : LineKept(l)'
           /\ AddedOnly => AddedOnly'
           /\ \A l \in Lines : LineGone(l) => LineGone(l)'
<1>0. OffsetsType /\ TextType /\ Placed
    BY DEF KeptInv, LinesInv
<1>1. PICK text, from, to, u, l, k :
          /\ text = WithNegation(b) /\ from = ThenRange(b)[1] /\ to = ThenRange(b)[2]
          /\ u = b.then /\ l = b.then[1] /\ k = NegationLine(b)
    OBVIOUS
<1>2. k = Adjusted(l) /\ FirstBehind(l) = Adjusted(l) /\ k \in 1 .. Len(workText)
    BY <1>1, NegatedLine
<1>3. /\ text \in Seq(TextLine) /\ Len(text) = Len(workText)
      /\ \A i \in 1 .. Len(workText) :
            /\ text[i].number = workText[i].number
            /\ i # k => text[i].cells = workText[i].cells
            /\ i = k => Negation(workText[k].cells, text[k].cells, b.cond[2], b.condEnd[2])
                        /\ b.condEnd[2] <= Len(workText[k].cells)
    BY <1>0, <1>1, NegationText
<1>4. /\ b.then \in Position /\ b.else \in Position /\ b.cond \in Position /\ b.condEnd \in Position
      /\ b.then[1] < b.else[1]
    BY DEF Branch, Formatted
<1>5. /\ from[1] = l /\ from[2] = u[2] + 3 /\ to[1] = b.else[1] /\ u[1] = l
      /\ l \in Lines /\ u[2] \in Nat /\ u[2] >= 1 /\ to[1] \in Lines /\ l < to[1]
    BY <1>1, <1>4 DEF ThenRange, Position
<1>6. from \in Position /\ to \in Lines \X Nat /\ from \in Lines \X Int
    BY <1>1, <1>4 DEF ThenRange, Position
<1>7. Single(from, to)
    <2>1. l \in Nat /\ to[1] \in Nat
        BY <1>5, LinesAre
    <2> QED
        BY <1>5, <2>1 DEF Single
<1>8. /\ workText' = Without(text, from, to)
      /\ \A m \in Lines : Columns(m)' = Columns(m) \cup Asked(u, to, m)
    <2>1. ASSUME NEW m \in Lines
          PROVE  Columns(m)' = Columns(m) \cup Asked(u, to, m)
        <3>1. \A c \in 1 .. Width[m] :
                  <<m, c>> \in Taken' <=> <<m, c>> \in Taken \/ <<m, c>> \in Between(u, b.else)
            BY <1>1 DEF Asks, Taken
        <3>2. ASSUME NEW c \in 1 .. Width[m]
              PROVE  <<m, c>> \in Between(u, b.else) <=> c \in Asked(u, to, m)
            <4>1. m \in Nat /\ c \in Nat /\ b.else[2] \in Nat
                BY <1>4, LinesAre, WidthsAre DEF Position
            <4>2. to[1] = b.else[1] /\ to[2] = b.else[2] - 1
                BY <1>1 DEF ThenRange
            <4>3. c < b.else[2] <=> c <= to[2]
                BY <4>1, <4>2
            <4>4. <<m, c>> \in Between(u, b.else) <=>
                      /\ m > u[1] \/ (m = u[1] /\ c >= u[2])
                      /\ m < b.else[1] \/ (m = b.else[1] /\ c < b.else[2])
                BY <1>1, <1>4, BetweenColumns
            <4> QED
                BY <4>2, <4>3, <4>4 DEF Asked
        <3>3. Asked(u, to, m) \subseteq 1 .. Width[m]
            BY DEF Asked
        <3> QED
            BY <3>1, <3>2, <3>3 DEF Columns
    <2> QED
        BY <1>1, <2>1
<1>9. \A p \in Taken : p[1] \notin {u[1], to[1]}
    BY <1>1, <1>5 DEF Asks, Taken
<1>10. ASSUME NEW m \in Lines, m # l
       PROVE  LineKept(m)' /\ (LineGone(m) => LineGone(m)')
    <2>1. Adjusted(m) \in 1 .. Len(workText) /\ workText[Adjusted(m)].number = m
        BY <1>0, LineIn
    <2>2. workText[k].number = l
        BY <1>0, <1>2, <1>5, LineIn
    <2>3. text[Adjusted(m)].cells = workText[Adjusted(m)].cells
        BY <1>3, <1>10, <2>1, <2>2
    <2>4. u[1] = from[1] /\ (m = from[1] => u[2] = from[2])
        BY <1>5, <1>10
    <2>5. /\ LineKept(m)'
          /\ FirstBehind(from[1]) = Adjusted(from[1]) /\ LineGone(m) => LineGone(m)'
        <3>1. text \in Seq(TextLine) /\ Len(text) = Len(workText) /\ KeptInv /\ UNCHANGED offsets
            BY <1>3
        <3> QED
            BY <1>6, <1>7, <1>8, <1>9, <2>3, <2>4, <3>1, LineDeletes
    <2> QED
        BY <1>2, <1>5, <2>5
<1>11. LineKept(l)' /\ LineGone(l)'
    <2>1. PICK old, negated, new, gone :
              /\ old = workText[k].cells /\ negated = text[k].cells
              /\ new = Without(text, from, to)[k].cells /\ gone = Columns(l)'
        OBVIOUS
    <2>2. Columns(l) = {}
        BY <1>5, <1>9 DEF Columns
    <2>3. b.then[2] <= Width[l] /\ u[2] <= Width[l]
        BY <1>1 DEF Formatted
    <2>4. Whole(old, l)
        <3>1. Width[l] \in Nat
            BY <1>5, WidthsAre
        <3>2. Width[l] > 0
            BY <1>5, <2>3, <3>1
        <3>3. LineKept(l)
            BY <1>5 DEF KeptInv
        <3>4. PICK none : none = Columns(l)
            OBVIOUS
        <3>5. Fine(old, l, none)
            BY <1>2, <2>1, <3>3, <3>4, LineKeptNow
        <3> QED
            BY <2>2, <3>2, <3>4, <3>5 DEF Fine
    <2>5. Negation(old, negated, b.cond[2], b.condEnd[2])
        BY <1>2, <1>3, <2>1
    <2>6. old \in Seq(AnyCell)
        <3>1. workText[k] \in TextLine
            BY <1>0, <1>2, TextFacts
        <3> QED
            BY <2>1, <3>1 DEF TextLine
    <2>7. new = FirstCells(negated, u[2] + 2)
        <3>1. Deleted(text, from, to) /\ k \in FirstBehind(from[1]) .. Adjusted(to[1])
            <4>1. Adjusted(to[1]) \in 1 .. Len(workText) /\ Len(workText) \in Nat
                BY <1>0, <1>5, LineIn, TextFacts
            <4>2. l \in 0 .. Len(Width) + 1 /\ to[1] \in 0 .. Len(Width) + 1
                BY <1>5, LinesAre, WidthType
            <4>3. Adjusted(l) < Adjusted(to[1])
                BY <1>0, <1>5, <4>2, AdjustedCompare
            <4> QED
                BY <1>2, <1>3, <1>5, <4>1, <4>3 DEF Deleted
        <3>2. new = Remaining(text, k, from, to)
            <4> DEFINE all == Without(text, from, to)
            <4>1. \A i \in 1 .. Len(text) :
                     all[i].cells = IF Deleted(text, from, to)
                                       /\ i \in FirstBehind(from[1]) .. Adjusted(to[1])
                                    THEN Remaining(text, i, from, to) ELSE text[i].cells
                BY <1>0, <1>3, <1>6, WithoutText
            <4>2. k \in 1 .. Len(text) /\ new = all[k].cells
                BY <1>2, <1>3, <2>1
            <4> HIDE DEF all
            <4> QED
                BY <3>1, <4>1, <4>2
        <3>3. k = FirstBehind(from[1]) /\ from[2] > 1 /\ from[2] - 1 = u[2] + 2
            BY <1>2, <1>5
        <3>4. new = FirstCells(negated, from[2] - 1)
            BY <2>1, <3>2, <3>3 DEF Remaining
        <3> QED
            BY <3>3, <3>4
    <2>8. gone \in SUBSET (1 .. Width[l]) /\ \A c \in 1 .. Width[l] : c \in gone <=> c >= u[2]
        <3>1. gone = Asked(u, to, l)
            BY <1>5, <1>8, <2>1, <2>2
        <3>2. /\ Asked(u, to, l) \subseteq 1 .. Width[l]
              /\ \A c \in 1 .. Width[l] : c \in Asked(u, to, l) <=>
                    /\ u[1] < l \/ (l = u[1] /\ c >= u[2])
                    /\ l < to[1] \/ (l = to[1] /\ c <= to[2])
            BY <1>5, AskedColumns
        <3>3. ~ (u[1] < l) /\ l = u[1] /\ l < to[1]
            BY <1>5, LinesAre
        <3> QED
            BY <3>1, <3>2, <3>3
    <2>9. Fine(new, l, gone) /\ Gone(new, l, gone)
        <3>1. PICK cond \in Nat, condEnd \in Nat, col \in Nat :
                  cond = b.cond[2] /\ condEnd = b.condEnd[2] /\ col = u[2]
            BY <1>4, <1>5 DEF Position
        <3>2. cond < condEnd /\ condEnd < col /\ col <= Width[l]
            BY <1>1, <2>3, <3>1 DEF Formatted
        <3>3. Negation(old, negated, cond, condEnd) /\ new = FirstCells(negated, col + 2)
            BY <2>5, <2>7, <3>1
        <3>4. \A c \in 1 .. Width[l] : c \in gone <=> c >= col
            BY <2>8, <3>1
        <3> QED
            BY <1>5, <2>4, <2>6, <2>8, <3>2, <3>3, <3>4, CutNegated
    <2>10. new = workText'[Adjusted(l)'].cells
        <3>1. Adjusted(l)' = Adjusted(l)
            BY AdjustedSame
        <3> QED
            BY <1>2, <1>8, <2>1, <3>1
    <2> QED
        BY <2>1, <2>9, <2>10, LineKeptThen
<1>12. ASSUME NEW i \in 1 .. Len(workText)
       PROVE  /\ text[i].number = workText[i].number
              /\ workText[i].number = 0 => text[i].cells = workText[i].cells
    <2>1. workText[k].number = l /\ l # 0
        BY <1>0, <1>2, <1>5, LineIn, LinesAre
    <2> QED
        BY <1>3, <2>1
<1>13. ShortLines' /\ (AddedOnly => AddedOnly')
    BY <1>3, <1>6, <1>8, <1>12, AddedDeletes
<1> QED
    BY <1>10, <1>11, <1>13

LEMMA GapIsEmpty ==
    ASSUME OffsetsType, OffsetsFrom, NEW l \in Lines, NoGap(l)
    PROVE  FirstBehind(l) = Adjusted(l)
<1>1. l \in 0 .. Len(Width) /\ l \in Keys
    BY LinesAre, WidthType DEF Keys
<1>2. Adjusted(l) \in Nat /\ FirstBehind(l) = Adjusted(l) + offsets[l]
    BY <1>1, AdjustedNext
<1>3. offsets[l] = 0
    BY <1>1 DEF OffsetsFrom, NoGap
<1> QED
    BY <1>2, <1>3

LEMMA OffsetsFromAdds ==
    ASSUME OffsetsType, OffsetsFrom, NEW k \in 0 .. Len(Width), Adds1(k),
           k \in AfterLines \/ k + 1 \in BeforeLines
    PROVE  OffsetsFrom'
<1>1. ASSUME NEW m \in Keys, offsets'[m] # 0
      PROVE  m \in AfterLines \/ m + 1 \in BeforeLines
    <2>1. CASE m = k
        BY <2>1
    <2>2. CASE m # k
        <3>1. offsets'[m] = offsets[m]
            BY <2>2 DEF Adds1, OffsetsType
        <3> QED
            BY <1>1, <3>1 DEF OffsetsFrom
    <2> QED
        BY <2>1, <2>2
<1> QED
    BY <1>1 DEF OffsetsFrom, Keys

LEMMA EndKept ==
    ASSUME KeptInv, UNCHANGED <<workText, dropped, behind>>,
           \A l \in 0 .. Len(Width) : Adjusted(l)' = Adjusted(l)
    PROVE  /\ ShortLines' /\ \A l \in Lines : LineKept(l)'
           /\ AddedOnly => AddedOnly'
           /\ \A l \in Lines : LineGone(l) => LineGone(l)'
<1>1. ASSUME NEW l \in Lines
      PROVE  /\ LineKept(l)' <=> LineKept(l)
             /\ LineGone(l)' <=> LineGone(l)
    <2>1. Adjusted(l)' = Adjusted(l)
        BY LinesAre
    <2>2. workText'[Adjusted(l)'].cells = workText[Adjusted(l)].cells
        BY <2>1
    <2> QED
        BY <2>2, LineSame, ColumnsSame
<1>2. ShortLines' /\ (AddedOnly => AddedOnly')
    BY DEF KeptInv, ShortLines, AddedOnly, OfFile
<1> QED
    BY <1>1, <1>2 DEF KeptInv

LEMMA KeptStep ==
    ASSUME Careful, \A r \in Ranges : Single(r[1], r[2]), \A b \in Branches : Formatted(b[1]),
           KeptInv, [Next]_vars
    PROVE  KeptInv' /\ (NoGaps /\ GoneInv => GoneInv')
<1> USE ModificationAssumption
<1>0. LinesInv' /\ LinesInv /\ OffsetsType /\ TextType /\ Placed
    BY LinesStep DEF KeptInv, LinesInv
<1> DEFINE Kept == /\ ShortLines' /\ \A l \in Lines : LineKept(l)'
                   /\ AddedOnly => AddedOnly'
                   /\ NoGaps /\ OffsetsFrom => \A l \in Lines : LineGone(l) => LineGone(l)'
                   /\ OffsetsFrom => OffsetsFrom'
<1> SUFFICES Kept
    BY <1>0 DEF KeptInv, GoneInv
<1>1. ASSUME NEW l \in AfterLines, AddNewCodeSnippetAfter(l)
      PROVE  Kept
    <2> DEFINE w == Snippet("after", l)
    <2>1. l \in Lines /\ l \in 0 .. Len(Width)
        BY LinesAre
    <2>2. Adds1(l) /\ (Inserts(l, w) \/ (l = Len(Width) /\ workText' = workText))
        BY <1>0, <1>1, <2>1, AfterStep
    <2>3. w \in Texts /\ UNCHANGED <<dropped, behind>>
        BY <1>1, <2>1 DEF Texts, AddNewCodeSnippetAfter
    <2> HIDE DEF w
    <2>4. OffsetsFrom => OffsetsFrom'
        BY <1>0, <2>1, <2>2, OffsetsFromAdds
    <2>5. CASE Inserts(l, w)
        BY <2>3, <2>4, <2>5, InsertsKept
    <2>6. CASE l = Len(Width) /\ workText' = workText
        <3>1. \A m \in 0 .. Len(Width) : Adjusted(m)' = Adjusted(m)
            BY <1>0, <2>2, <2>6, EndLinesInv DEF LinesInv
        <3> QED
            BY <2>3, <2>4, <2>6, <3>1, EndKept
    <2> QED
        BY <2>2, <2>5, <2>6
<1>2. ASSUME NEW l \in BeforeLines, AddNewCodeSnippetBefore(l)
      PROVE  Kept
    <2> DEFINE w == Snippet("before", l)
               k == l - 1
    <2>1. l \in Lines /\ k + 1 = l /\ k \in 0 .. Len(Width)
        BY LinesAre
    <2>2. Inserts(k, w)
        BY <1>0, <1>2, <2>1, BeforeStep
    <2>3. w \in Texts /\ UNCHANGED <<dropped, behind>>
        BY <1>2, <2>1 DEF Texts, AddNewCodeSnippetBefore
    <2> HIDE DEF w, k
    <2>4. OffsetsFrom => OffsetsFrom'
        BY <1>0, <2>1, <2>2, OffsetsFromAdds DEF Inserts
    <2> QED
        BY <2>2, <2>3, <2>4, InsertsKept
<1>3. ASSUME NEW l \in ReplaceLines, Replace(l)
      PROVE  Kept
    <2>1. l \in Lines /\ UNCHANGED offsets
        BY <1>3 DEF Replace
    <2>2. OffsetsFrom => OffsetsFrom'
        BY <2>1 DEF OffsetsFrom, Keys
    <2> QED
        BY <1>3, <2>1, <2>2, ReplaceKept
<1>4. ASSUME NEW r \in Ranges, DeleteCodeRange(r[1], r[2])
      PROVE  Kept
    <2>1. PICK from \in Position, to \in Position : from = r[1] /\ to = r[2]
        OBVIOUS
    <2>2. /\ Deletes(from, to) /\ Asks(from, to) /\ UNCHANGED offsets
          /\ Before(from, to) /\ Single(from, to) /\ (NoGaps => NoGap(from[1])) /\ from[1] \in Lines
        BY <1>4, <2>1 DEF DeleteCodeRange, NoGaps, Position
    <2>3. OffsetsFrom => OffsetsFrom'
        BY <2>2 DEF OffsetsFrom, Keys
    <2>4. NoGaps /\ OffsetsFrom => FirstBehind(from[1]) = Adjusted(from[1])
        BY <1>0, <2>2, GapIsEmpty
    <2> QED
        BY <2>2, <2>3, <2>4, DeletesKept
<1>5. ASSUME NEW x \in Branches, DeleteEitherBranch(x[1], x[2])
      PROVE  Kept
    <2>1. PICK b \in Branch, condValue \in BOOLEAN :
              b = x[1] /\ condValue = x[2] /\ Formatted(b) /\ DeleteEitherBranch(b, condValue)
        BY <1>5
    <2>2. UNCHANGED offsets /\ (OffsetsFrom => OffsetsFrom')
        BY <2>1 DEF DeleteEitherBranch, OffsetsFrom, Keys
    <2>3. ASSUME UNCHANGED <<workText, dropped, behind>>
          PROVE  Kept
        <3>1. \A m \in 0 .. Len(Width) : Adjusted(m)' = Adjusted(m)
            BY <2>2, AdjustedSame
        <3> QED
            BY <2>2, <2>3, <3>1, EndKept
    <2>4. CASE b.else # NoElse /\ condValue
        <3>1. DeleteThen(b)
            BY <2>1, <2>4 DEF DeleteEitherBranch
        <3>2. CASE CanNegate(b)
            <4>1. /\ workText' = Without(WithNegation(b), ThenRange(b)[1], ThenRange(b)[2])
                  /\ Asks(b.then, b.else) /\ UNCHANGED behind
                BY <3>1, <3>2 DEF DeleteThen, ThenRange
            <4> QED
                BY <2>1, <2>2, <2>4, <3>2, <4>1, ThenKept
        <3>3. CASE ~ CanNegate(b)
            BY <2>3, <3>1, <3>3 DEF DeleteThen
        <3> QED
            BY <3>2, <3>3
    <2>5. CASE b.else # NoElse /\ ~ condValue
        <3>1. DeleteElse(b)
            BY <2>1, <2>5 DEF DeleteEitherBranch
        <3>2. /\ b.keyword = <<b.else[1], b.else[2] - 4>> /\ Single(b.keyword, b.end)
              /\ b.keyword \in Position \cup {NoElse} /\ b.end \in Position
              /\ b.else \in Position /\ b.else[1] \in Lines
            BY <2>1, <2>5 DEF Formatted, Branch, Position
        <3>3. PICK from \in Position, to \in Position : from = b.keyword /\ to = b.end
            <4>1. b.keyword # NoElse
                BY <3>2, LinesAre DEF NoElse
            <4> QED
                BY <3>2, <4>1
        <3>4. Deletes(from, to) /\ Asks(from, to) /\ Before(from, to) /\ Single(from, to)
            BY <2>1, <2>5, <3>1, <3>2, <3>3 DEF DeleteElse
        <3>5. from[1] \in Lines /\ (NoGaps => NoGap(from[1]))
            BY <2>1, <2>5, <3>2, <3>3 DEF NoGaps
        <3>6. NoGaps /\ OffsetsFrom => FirstBehind(from[1]) = Adjusted(from[1])
            BY <1>0, <3>5, GapIsEmpty
        <3> QED
            BY <2>2, <3>4, <3>6, DeletesKept
    <2>6. CASE b.else = NoElse /\ condValue
        <3>1. DeleteWhole(b)
            BY <2>1, <2>6 DEF DeleteEitherBranch
        <3>2. PICK from \in Position, to \in Position : from = b.start /\ to = b.end
            BY DEF Branch
        <3>3. Deletes(from, to) /\ Asks(from, to) /\ Before(from, to) /\ Single(from, to)
            BY <2>1, <2>6, <3>1, <3>2 DEF DeleteWhole, Formatted
        <3>4. from[1] \in Lines /\ (NoGaps => NoGap(from[1]))
            BY <2>1, <2>6, <3>2 DEF NoGaps, Position
        <3>5. NoGaps /\ OffsetsFrom => FirstBehind(from[1]) = Adjusted(from[1])
            BY <1>0, <3>4, GapIsEmpty
        <3> QED
            BY <2>2, <3>3, <3>5, DeletesKept
    <2>7. CASE b.else = NoElse /\ ~ condValue
        BY <2>1, <2>3, <2>7 DEF DeleteEitherBranch
    <2> QED
        BY <2>1, <2>4, <2>5, <2>6, <2>7
<1>6. ASSUME NEW f \in Fillings, NEW name, <<f[1], name>> \in Named, Fill(f[1], name)
      PROVE  Kept
    <2>1. UNCHANGED offsets
        BY <1>6 DEF Fill
    <2>2. OffsetsFrom => OffsetsFrom'
        BY <2>1 DEF OffsetsFrom, Keys
    <2> QED
        BY <1>6, <2>2, FillKept
<1>7. CASE UNCHANGED vars
    <2>1. UNCHANGED <<workText, dropped, behind, offsets>>
        BY <1>7 DEF vars
    <2>2. OffsetsFrom => OffsetsFrom'
        BY <2>1 DEF OffsetsFrom, Keys
    <2>3. \A m \in 0 .. Len(Width) : Adjusted(m)' = Adjusted(m)
        BY <2>1, AdjustedSame
    <2> QED
        BY <2>1, <2>2, <2>3, EndKept
<1> HIDE DEF Kept
<1> QED
    BY <1>1, <1>2, <1>3, <1>4, <1>5, <1>6, <1>7, NamedAre
    DEF Next, SetHoleFilling, SetHoleFillingFrom

LEMMA FirstKept ==
    ASSUME Init
    PROVE  KeptInv /\ GoneInv
<1>1. /\ LinesInv /\ Len(workText) = Len(Width)
      /\ \A l \in Lines :
            /\ workText[l].number = l
            /\ Len(workText[l].cells) = Width[l]
            /\ \A c \in 1 .. Width[l] : workText[l].cells[c] = Cell("source", l, c)
      /\ \A l \in 0 .. Len(Width) + 1 : Adjusted(l) = l
    BY FirstPlaced, FirstText, FirstOffsets
<1>2. ASSUME NEW l \in Lines
      PROVE  LineKept(l) /\ LineGone(l)
    <2>1. PICK cells, gone : cells = workText[Adjusted(l)].cells /\ gone = Columns(l)
        OBVIOUS
    <2>2. gone = {}
        BY <2>1 DEF Init, Columns, Taken
    <2>3. cells = workText[l].cells
        <3>1. Adjusted(l) = l
            BY <1>1, LinesAre, WidthType
        <3> QED
            BY <2>1, <3>1
    <2>4. Len(cells) = Width[l] /\ \A c \in 1 .. Width[l] : cells[c] = Cell("source", l, c)
        BY <1>1, <2>3
    <2>5. \A c \in 1 .. Width[l] : IsCell(cells[c], l, c)
        <3>1. \A c : IsCell(Cell("source", l, c), l, c)
            BY DEF IsCell, OfFile, Cell
        <3> QED
            BY <2>4, <3>1
    <2>6. Fine(cells, l, gone)
        BY <2>2, <2>4, <2>5 DEF Fine, Whole
    <2>7. Gone(cells, l, gone)
        BY <2>2, <2>4, <2>5 DEF Gone, IsCell
    <2> QED
        BY <2>1, <2>6, <2>7, LineKeptNow
<1>3. \A i \in 1 .. Len(workText) : workText[i].number # 0
    BY <1>1, LinesAre DEF Lines
<1>4. ShortLines /\ AddedOnly
    BY <1>3 DEF ShortLines, AddedOnly
<1>5. OffsetsFrom
    BY DEF OffsetsFrom, Init, Keys
<1> QED
    BY <1>1, <1>2, <1>4, <1>5 DEF KeptInv, GoneInv

LEMMA PresentAre ==
    ASSUME TextType, NEW p
    PROVE  p \in Present <=> \E i \in 1 .. Len(workText) : \E n \in 1 .. Len(workText[i].cells) :
                                 /\ OfFile(workText[i].cells[n])
                                 /\ p = <<workText[i].cells[n].line, workText[i].cells[n].col>>
<1>1. DOMAIN workText = 1 .. Len(workText)
    BY TextFacts
<1>2. ASSUME NEW i \in 1 .. Len(workText), NEW d
      PROVE  d \in ToSet(workText[i].cells) <=>
                 \E n \in 1 .. Len(workText[i].cells) : d = workText[i].cells[n]
    <2>1. workText[i] \in TextLine
        BY TextFacts
    <2>2. DOMAIN workText[i].cells = 1 .. Len(workText[i].cells)
        BY <2>1, LenProperties DEF TextLine
    <2> QED
        BY <2>2 DEF ToSet
<1>3. p \in Present <=> \E d : /\ \E i \in 1 .. Len(workText) : d \in ToSet(workText[i].cells)
                               /\ OfFile(d) /\ p = <<d.line, d.col>>
    BY <1>1 DEF Present, OfFile
<1>4. ASSUME p \in Present
      PROVE  \E i \in 1 .. Len(workText) : \E n \in 1 .. Len(workText[i].cells) :
                 /\ OfFile(workText[i].cells[n])
                 /\ p = <<workText[i].cells[n].line, workText[i].cells[n].col>>
    <2>1. PICK d : /\ \E i \in 1 .. Len(workText) : d \in ToSet(workText[i].cells)
                   /\ OfFile(d) /\ p = <<d.line, d.col>>
        BY <1>3, <1>4
    <2>2. PICK i \in 1 .. Len(workText) : d \in ToSet(workText[i].cells)
        BY <2>1
    <2>3. PICK n \in 1 .. Len(workText[i].cells) : d = workText[i].cells[n]
        BY <1>2, <2>2
    <2> QED
        BY <2>1, <2>3
<1>5. ASSUME NEW i \in 1 .. Len(workText), NEW n \in 1 .. Len(workText[i].cells),
             OfFile(workText[i].cells[n]),
             p = <<workText[i].cells[n].line, workText[i].cells[n].col>>
      PROVE  p \in Present
    <2>1. PICK d : d = workText[i].cells[n]
        OBVIOUS
    <2>2. d \in ToSet(workText[i].cells)
        BY <1>2, <2>1
    <2> QED
        BY <1>3, <1>5, <2>1, <2>2
<1> QED
    BY <1>4, <1>5

LEMMA KeptPresent ==
    ASSUME KeptInv
    PROVE  OneBehindAtMost
<1>0. OffsetsType /\ TextType /\ Placed
    BY DEF KeptInv, LinesInv
<1>1. ASSUME NEW l \in Lines, NEW c \in 1 .. Width[l], <<l, c>> \notin Taken
      PROVE  <<l, c>> \in Present
    <2>1. PICK i, gone : i \in 1 .. Len(workText) /\ i = Adjusted(l) /\ gone = Columns(l)
        BY <1>0, LineIn
    <2>2. c \notin gone
        BY <1>1, <2>1 DEF Columns
    <2>3. LineKept(l)
        BY DEF KeptInv
    <2>4. PICK cells : cells = workText[i].cells /\ Fine(cells, l, gone)
        BY <2>1, <2>3, LineKeptNow
    <2>5. PICK n \in 1 .. Len(cells) : IsCell(cells[n], l, c)
        BY <2>2, <2>4 DEF Fine
    <2>6. OfFile(workText[i].cells[n]) /\ workText[i].cells[n].line = l /\ workText[i].cells[n].col = c
        BY <2>4, <2>5 DEF IsCell
    <2> QED
        BY <1>0, <2>1, <2>4, <2>5, <2>6, PresentAre
<1> QED
    BY <1>1 DEF OneBehindAtMost, Taken

LEMMA GoneAllDeleted ==
    ASSUME KeptInv, GoneInv
    PROVE  AllDeleted
<1>0. OffsetsType /\ TextType /\ Placed
    BY DEF KeptInv, LinesInv
<1>1. ASSUME NEW p \in Present
      PROVE  p \notin dropped
    <2>0. PICK i \in 1 .. Len(workText) :
              \E n \in 1 .. Len(workText[i].cells) :
                  /\ OfFile(workText[i].cells[n])
                  /\ p = <<workText[i].cells[n].line, workText[i].cells[n].col>>
        BY <1>0, PresentAre
    <2>1. PICK n \in 1 .. Len(workText[i].cells) :
              /\ OfFile(workText[i].cells[n])
              /\ p = <<workText[i].cells[n].line, workText[i].cells[n].col>>
        BY <2>0
    <2>2. PICK l : l = workText[i].number
        OBVIOUS
    <2>3. l # 0
        BY <2>1, <2>2 DEF GoneInv, AddedOnly
    <2>4. l \in Lines
        <3>1. workText[i] \in TextLine
            BY <1>0, TextFacts
        <3>2. l \in 0 .. Len(Width)
            BY <2>2, <3>1 DEF TextLine
        <3> QED
            BY <2>3, <3>2, WidthType DEF Lines
    <2>5. i = Adjusted(l)
        <3>1. i \in DOMAIN workText
            BY <1>0, TextFacts
        <3> QED
            BY <1>0, <2>2, <2>4, <3>1 DEF Placed
    <2>6. PICK cells, gone : cells = workText[i].cells /\ gone = Columns(l)
        OBVIOUS
    <2>7. LineGone(l)
        BY <2>4 DEF GoneInv
    <2>8. Gone(cells, l, gone)
        BY <2>5, <2>6, <2>7, LineKeptNow
    <2>9. cells[n].line = l /\ cells[n].col \in 1 .. Width[l] /\ cells[n].col \notin gone
        BY <2>1, <2>6, <2>8 DEF Gone
    <2>10. p = <<l, cells[n].col>>
        BY <2>1, <2>6, <2>9
    <2> QED
        BY <2>6, <2>9, <2>10 DEF Columns, Taken
<1> QED
    BY <1>1 DEF AllDeleted

(* Nothing goes but what callers have named and the one character that is  *)
(* behind each range deleted, for every file, if ranges on one line begin  *)
(* or end with it and if statements are formatted the way                  *)
(* deleteEitherBranch counts columns.                                      *)
THEOREM NothingElseGoes ==
    ASSUME Careful, \A r \in Ranges : Single(r[1], r[2]), \A b \in Branches : Formatted(b[1])
    PROVE  Spec => []OneBehindAtMost
<1>1. Init => KeptInv
    BY FirstKept
<1>2. KeptInv /\ [Next]_vars => KeptInv'
    BY KeptStep
<1>3. KeptInv => OneBehindAtMost
    BY KeptPresent
<1> QED
    BY <1>1, <1>2, <1>3, PTL DEF Spec

(* Nothing stands behind what is deleted, on its last line.                *)
EndsLines ==
    /\ \A r \in Ranges : r[2][2] > Width[r[2][1]]
    /\ \A b \in Branches : b[1].end[2] > Width[b[1].end[1]]

BehindLines == \A p \in behind : p[1] \in Lines /\ p[2] > Width[p[1]]

LEMMA BehindStep ==
    ASSUME EndsLines, BehindLines, [Next]_vars
    PROVE  BehindLines'
<1> USE ModificationAssumption
<1> DEFINE Fits == \/ UNCHANGED behind
                   \/ \E to : /\ to[1] \in Lines /\ to[2] > Width[to[1]]
                              /\ behind' = behind \cup {to}
<1>1. ASSUME NEW l \in AfterLines, AddNewCodeSnippetAfter(l) PROVE Fits
    BY <1>1 DEF AddNewCodeSnippetAfter
<1>2. ASSUME NEW l \in BeforeLines, AddNewCodeSnippetBefore(l) PROVE Fits
    BY <1>2 DEF AddNewCodeSnippetBefore
<1>3. ASSUME NEW l \in ReplaceLines, Replace(l) PROVE Fits
    BY <1>3 DEF Replace
<1>4. ASSUME NEW r \in Ranges, DeleteCodeRange(r[1], r[2]) PROVE Fits
    <2>1. r[2] \in Position
        OBVIOUS
    <2>2. r[2][1] \in Lines /\ r[2][2] > Width[r[2][1]]
        BY <2>1 DEF EndsLines, Position
    <2> QED
        BY <1>4, <2>2 DEF DeleteCodeRange, Deletes
<1>5. ASSUME NEW x \in Branches, DeleteEitherBranch(x[1], x[2]) PROVE Fits
    <2>1. PICK b \in Branch : b = x[1]
        OBVIOUS
    <2>2. b.end[1] \in Lines /\ b.end[2] > Width[b.end[1]]
        BY <2>1 DEF EndsLines, Branch, Position
    <2>3. UNCHANGED behind \/ behind' = behind \cup {b.end}
        BY <1>5, <2>1 DEF DeleteEitherBranch, DeleteThen, DeleteElse, DeleteWhole, Deletes
    <2> QED
        BY <2>2, <2>3
<1>6. ASSUME NEW number, NEW name, Fill(number, name) PROVE Fits
    BY <1>6 DEF Fill
<1>7. ASSUME UNCHANGED vars PROVE Fits
    BY <1>7 DEF vars
<1>8. Fits
    BY <1>1, <1>2, <1>3, <1>4, <1>5, <1>6, <1>7 DEF Next, SetHoleFilling, SetHoleFillingFrom
<1> QED
    BY <1>8 DEF BehindLines

(* Nothing goes but what callers have named if, besides, nothing stands    *)
(* behind what is deleted: there is no character for deleteCodeRange to    *)
(* take too much.                                                          *)
THEOREM OnlyNamedGo ==
    ASSUME Careful, \A r \in Ranges : Single(r[1], r[2]), \A b \in Branches : Formatted(b[1]),
           EndsLines
    PROVE  Spec => []OnlyAsked
<1>1. Init => KeptInv /\ BehindLines
    BY FirstKept DEF Init, BehindLines
<1>2. (KeptInv /\ BehindLines) /\ [Next]_vars => (KeptInv /\ BehindLines)'
    BY KeptStep, BehindStep
<1>3. KeptInv /\ BehindLines => OnlyAsked
    <2> SUFFICES ASSUME KeptInv, BehindLines, NEW l \in Lines, NEW c \in 1 .. Width[l]
                 PROVE  <<l, c>> \in Present \cup dropped
        BY DEF OnlyAsked
    <2>1. <<l, c>> \in Present \cup dropped \cup behind
        BY KeptPresent DEF OneBehindAtMost
    <2>2. <<l, c>> \notin behind
        <3>1. ~ (c > Width[l])
            BY WidthsAre
        <3> QED
            BY <3>1 DEF BehindLines
    <2> QED
        BY <2>1, <2>2
<1> QED
    BY <1>1, <1>2, <1>3, PTL DEF Spec

(* What callers have named goes and stays away, for every such file, if no *)
(* line is added behind one that a range begins on.                        *)
THEOREM NamedPartsGo ==
    ASSUME Careful, \A r \in Ranges : Single(r[1], r[2]), \A b \in Branches : Formatted(b[1]), NoGaps
    PROVE  Spec => []AllDeleted
<1>1. Init => KeptInv /\ GoneInv
    BY FirstKept
<1>2. (KeptInv /\ GoneInv) /\ [Next]_vars => (KeptInv /\ GoneInv)'
    BY KeptStep
<1>3. KeptInv /\ GoneInv => AllDeleted
    BY GoneAllDeleted
<1> QED
    BY <1>1, <1>2, <1>3, PTL DEF Spec

=============================================================================
