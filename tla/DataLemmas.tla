------------------------------ MODULE DataLemmas ------------------------------
(* Facts the proofs about several components share: induction over the natural *)
(* numbers, runs of a step, enumerations and extremes of a finite set, folds,  *)
(* and sequences.                                                              *)
EXTENDS SequencesExt, FiniteSetTheorems, SequenceTheorems, TLAPS

\* Induction, for a set: what has 0 and every successor has all.  A number that
\* it had not would have a least one before it.
LEMMA NaturalsClosed ==
    ASSUME NEW T, T \subseteq Nat, 0 \in T, \A n \in T : n + 1 \in T
    PROVE  T = Nat
  <1> SUFFICES ASSUME Nat \ T # {} PROVE FALSE
    OBVIOUS
  <1>1. PICK m \in Nat \ T : \A n \in Nat \ T : ~(<<n, m>> \in OpToRel(<, Nat))
    BY WFMin, NatLessThanWellFounded
  <1>2. \A n \in Nat \ T : ~(n < m)
    BY <1>1 DEF OpToRel
  <1>3. m # 0
    BY <1>1
  <1>4. m \in Nat /\ m - 1 \in Nat /\ m - 1 < m /\ (m - 1) + 1 = m
    <2>1. m \in Nat
      OBVIOUS
    <2> QED
      BY <2>1, <1>3
  <1>5. m - 1 \in T
    BY <1>2, <1>4
  <1> QED
    BY <1>1, <1>4, <1>5

\* f[n] is what n steps make of the start.
Iterates(f, start, step) ==
    f = [n \in Nat |-> IF n = 0 THEN start ELSE step[f[n - 1]]]

\* There is such a function: the union of those that are defined up to n.
LEMMA IterationDefined ==
    ASSUME NEW S, NEW start \in S, NEW step \in [S -> S]
    PROVE  \E f \in [Nat -> S] : Iterates(f, start, step)
  <1> DEFINE Upto(n, g) == /\ g \in [0..n -> S]
                           /\ g[0] = start
                           /\ \A m \in 1..n : g[m] = step[g[m - 1]]
             T == {n \in Nat : \E g \in [0..n -> S] : Upto(n, g)}
  <1>1. T = Nat
    <2>1. 0 \in T
      <3>1. Upto(0, [m \in 0..0 |-> start])
        OBVIOUS
      <3> QED
        BY <3>1
    <2>2. ASSUME NEW n \in T PROVE n + 1 \in T
      <3>1. PICK g \in [0..n -> S] : Upto(n, g)
        BY <2>2
      <3> DEFINE h == [m \in 0..(n + 1) |-> IF m = n + 1 THEN step[g[n]] ELSE g[m]]
      <3>2. n \in Nat /\ g[n] \in S
        BY <2>2
      <3>3. h \in [0..(n + 1) -> S]
        BY <3>1, <3>2
      <3>4. h[0] = start
        BY <3>1, <3>2
      <3>5. ASSUME NEW m \in 1..(n + 1) PROVE h[m] = step[h[m - 1]]
        <4>1. CASE m = n + 1
          <5>1. h[m - 1] = g[n]
            BY <4>1, <3>2
          <5> QED
            BY <4>1, <5>1, <3>2
        <4>2. CASE m # n + 1
          <5>1. m \in 1..n /\ m - 1 \in 0..n
            BY <4>2, <3>2
          <5>2. h[m] = g[m] /\ h[m - 1] = g[m - 1]
            BY <5>1, <3>2
          <5> QED
            BY <5>1, <5>2, <3>1
        <4> QED
          BY <4>1, <4>2
      <3> HIDE DEF h
      <3>6. Upto(n + 1, h)
        BY <3>3, <3>4, <3>5
      <3> QED
        BY <3>2, <3>3, <3>6
    <2> HIDE DEF T
    <2>3. T \subseteq Nat
      BY DEF T
    <2> QED
      BY <2>1, <2>2, <2>3, NaturalsClosed
  \* Two that reach far enough agree.
  <1>2. ASSUME NEW m \in Nat, NEW n \in Nat, m <= n,
               NEW g \in [0..m -> S], NEW h \in [0..n -> S], Upto(m, g), Upto(n, h)
        PROVE  \A k \in 0..m : g[k] = h[k]
    <2> DEFINE U == {k \in Nat : k <= m => g[k] = h[k]}
    <2>1. 0 \in U
      BY <1>2
    <2>2. ASSUME NEW k \in U PROVE k + 1 \in U
      <3>1. CASE k + 1 <= m
        <4>1. k + 1 \in 1..m /\ k + 1 \in 1..n /\ (k + 1) - 1 = k /\ k <= m
          BY <3>1, <1>2
        <4>2. g[k] = h[k]
          BY <2>2, <4>1
        <4>3. g[k + 1] = step[g[k]] /\ h[k + 1] = step[h[k]]
          BY <4>1, <1>2
        <4> QED
          BY <4>2, <4>3
      <3>2. CASE ~(k + 1 <= m)
        BY <3>2
      <3> QED
        BY <3>1, <3>2
    <2>3. U \subseteq Nat
      OBVIOUS
    <2> HIDE DEF U
    <2>4. U = Nat
      BY <2>1, <2>2, <2>3, NaturalsClosed
    <2> QED
      BY <2>4 DEF U
  <1> DEFINE G(n) == CHOOSE g \in [0..n -> S] : Upto(n, g)
             f == [n \in Nat |-> G(n)[n]]
  <1>3. ASSUME NEW n \in Nat PROVE G(n) \in [0..n -> S] /\ Upto(n, G(n))
    <2>1. \E g \in [0..n -> S] : Upto(n, g)
      BY <1>1
    <2> HIDE DEF Upto
    <2> QED
      BY <2>1
  <1> HIDE DEF G, T
  <1>4. f \in [Nat -> S]
    BY <1>3
  <1>5. f[0] = start
    BY <1>3
  <1>6. ASSUME NEW n \in Nat \ {0} PROVE f[n] = step[f[n - 1]]
    <2>1. n - 1 \in Nat /\ n - 1 <= n /\ n - 1 \in 0..(n - 1) /\ n \in 1..n
      OBVIOUS
    <2>2. G(n)[n] = step[G(n)[n - 1]]
      BY <1>3, <2>1
    <2>3. G(n - 1)[n - 1] = G(n)[n - 1]
      <3> HIDE DEF Upto
      <3> QED
        BY <1>2, <1>3, <2>1
    <2> QED
      BY <2>1, <2>2, <2>3
  <1> HIDE DEF f
  <1>7. Iterates(f, start, step)
    BY <1>4, <1>5, <1>6 DEF Iterates
  <1> QED
    BY <1>4, <1>7
-------------------------------------------------------------------------------
(* Enumerations of a finite set.                                               *)

\* SetToSeq has every element once.
LEMMA SetToSeqOf ==
    ASSUME NEW S, IsFiniteSet(S)
    PROVE  /\ Cardinality(S) \in Nat
           /\ SetToSeq(S) \in [1..Cardinality(S) -> S]
           /\ IsInjective(SetToSeq(S))
           /\ \A x \in S : \E k \in 1..Cardinality(S) : SetToSeq(S)[k] = x
  <1>2. PICK f : f \in Bijection(1..Cardinality(S), S)
    BY FS_CardinalityType DEF ExistsBijection
  <1>3. f \in [1..Cardinality(S) -> S] /\ IsInjective(f)
    BY <1>2 DEF Bijection, Injection
  <1>4. Cardinality(S) \in Nat
    BY FS_CardinalityType
  <1>5. SetToSeq(S) \in [1..Cardinality(S) -> S] /\ IsInjective(SetToSeq(S))
    BY <1>3 DEF SetToSeq
  <1>6. SetToSeq(S) \in Injection(1..Cardinality(S), S)
    BY <1>5 DEF Injection
  <1>7. Cardinality(1..Cardinality(S)) = Cardinality(S)
    BY <1>4, FS_Interval
  <1>8. SetToSeq(S) \in Surjection(1..Cardinality(S), S)
    BY <1>6, <1>7, FS_Injection
  <1> QED
    BY <1>4, <1>5, <1>8 DEF Surjection

\* The least of some numbers.
LEMMA LeastOf ==
    ASSUME NEW T, T \subseteq Nat, T # {}
    PROVE  \E m \in T : \A n \in T : m <= n
  <1>1. PICK m \in T : \A n \in T : ~(<<n, m>> \in OpToRel(<, Nat))
    BY WFMin, NatLessThanWellFounded
  <1>2. \A n \in T : ~(n < m)
    BY <1>1 DEF OpToRel
  <1> QED
    BY <1>2
-------------------------------------------------------------------------------
(* Sequences, whatever their elements.                                         *)

IsSequence(s) == Len(s) \in Nat /\ s = [i \in 1..Len(s) |-> s[i]]

\* A sequence is one over its own elements.
LEMMA SequenceOver ==
    ASSUME NEW s, IsSequence(s), NEW S, \A i \in 1..Len(s) : s[i] \in S
    PROVE  s \in Seq(S)
  <1>1. s \in [1..Len(s) -> S]
    BY DEF IsSequence
  <1> QED
    BY <1>1, SeqDef DEF IsSequence

\* A function on 1..n is a sequence of length n.
LEMMA FunctionIsSequence ==
    ASSUME NEW n \in Nat, NEW f, f = [i \in 1..n |-> f[i]]
    PROVE  IsSequence(f) /\ Len(f) = n
  <1> DEFINE S == {f[i] : i \in 1..n}
  <1>1. f \in [1..n -> S]
    OBVIOUS
  <1> HIDE DEF S
  <1>2. f \in Seq(S)
    BY <1>1, SeqDef
  <1>3. Len(f) \in Nat /\ DOMAIN f = 1..Len(f)
    BY <1>2, LenProperties
  <1>4. DOMAIN f = 1..n
    BY <1>1
  <1>5. Len(f) = n
    BY <1>3, <1>4
  <1> QED
    BY <1>5 DEF IsSequence

LEMMA AppendedSequence ==
    ASSUME NEW s, IsSequence(s), NEW e
    PROVE  /\ IsSequence(Append(s, e))
           /\ Len(Append(s, e)) = Len(s) + 1
           /\ \A i \in 1..Len(s) : Append(s, e)[i] = s[i]
           /\ Append(s, e)[Len(s) + 1] = e
  <1> DEFINE S == {s[i] : i \in 1..Len(s)} \cup {e}
  <1>1. e \in S /\ \A i \in 1..Len(s) : s[i] \in S
    OBVIOUS
  <1> HIDE DEF S
  <1>2. s \in Seq(S)
    BY <1>1, SequenceOver
  <1>3. /\ Append(s, e) \in Seq(S)
        /\ Len(Append(s, e)) = Len(s) + 1
        /\ \A i \in 1..Len(s) : Append(s, e)[i] = s[i]
        /\ Append(s, e)[Len(s) + 1] = e
    BY <1>1, <1>2, AppendProperties
  <1>4. IsSequence(Append(s, e))
    BY <1>3, LenProperties DEF IsSequence
  <1> QED
    BY <1>3, <1>4

LEMMA JoinedSequence ==
    ASSUME NEW s, IsSequence(s), NEW t, IsSequence(t)
    PROVE  /\ IsSequence(s \o t)
           /\ Len(s \o t) = Len(s) + Len(t)
           /\ \A i \in 1..Len(s) : (s \o t)[i] = s[i]
           /\ \A i \in 1..Len(t) : (s \o t)[Len(s) + i] = t[i]
  <1> DEFINE S == {s[i] : i \in 1..Len(s)} \cup {t[i] : i \in 1..Len(t)}
  <1>1. /\ \A i \in 1..Len(s) : s[i] \in S
        /\ \A i \in 1..Len(t) : t[i] \in S
    OBVIOUS
  <1> HIDE DEF S
  <1>2. s \in Seq(S) /\ t \in Seq(S)
    BY <1>1, SequenceOver
  <1>3. /\ s \o t \in Seq(S)
        /\ Len(s \o t) = Len(s) + Len(t)
        /\ \A i \in 1 .. Len(s) + Len(t) :
              (s \o t)[i] = IF i <= Len(s) THEN s[i] ELSE t[i - Len(s)]
    BY <1>2, ConcatProperties
  <1>4. Len(s) \in Nat /\ Len(t) \in Nat
    BY DEF IsSequence
  <1>5. ASSUME NEW i \in 1..Len(t) PROVE (s \o t)[Len(s) + i] = t[i]
    <2>1. Len(s) + i \in 1 .. Len(s) + Len(t) /\ ~(Len(s) + i <= Len(s))
          /\ (Len(s) + i) - Len(s) = i
      BY <1>4
    <2> QED
      BY <2>1, <1>3
  <1>6. \A i \in 1..Len(s) : (s \o t)[i] = s[i]
    BY <1>3, <1>4
  <1>7. IsSequence(s \o t)
    BY <1>3, LenProperties DEF IsSequence
  <1> QED
    BY <1>3, <1>5, <1>6, <1>7
-------------------------------------------------------------------------------
(* Extremes and folds.                                                          *)

LEMMA MinPair ==
    ASSUME NEW a \in Int, NEW b \in Int
    PROVE  Min({a, b}) = IF a <= b THEN a ELSE b
  BY DEF Min

LEMMA MaxPair ==
    ASSUME NEW a \in Int, NEW b \in Int
    PROVE  Max({a, b}) = IF a <= b THEN b ELSE a
  BY DEF Max

\* The largest of some numbers up to n: what is above them all has a least member.
LEMMA MaxOf ==
    ASSUME NEW n \in Nat, NEW T, T \subseteq 0..n, T # {}
    PROVE  Max(T) \in T /\ \A x \in T : x <= Max(T)
  <1> DEFINE Above == {m \in Nat : \A x \in T : x <= m}
  <1>1. Above \subseteq Nat /\ n \in Above
    OBVIOUS
  <1>2. PICK m \in Above : \A k \in Above : m <= k
    BY <1>1, LeastOf
  <1>3. m \in T
    <2> SUFFICES ASSUME m \notin T PROVE FALSE
      OBVIOUS
    <2>1. m \in Nat /\ \A x \in T : x \in Nat /\ x <= m /\ x # m
      BY <1>2
    <2>2. m # 0
      <3>1. PICK x \in T : TRUE
        OBVIOUS
      <3> QED
        BY <3>1, <2>1
    <2>3. m - 1 \in Above
      BY <2>1, <2>2
    <2> QED
      BY <1>2, <2>1, <2>3
  <1>4. \A x \in T : m >= x
    BY <1>2
  <1> QED
    BY <1>3, <1>4 DEF Max

LEMMA TopOfInterval ==
    ASSUME NEW n \in Nat
    PROVE  1..n + 1 # {} /\ Max(1..n + 1) = n + 1 /\ (1..n + 1) \ {n + 1} = 1..n
  <1>1. n + 1 \in 1..n + 1 /\ \A x \in 1..n + 1 : n + 1 >= x
    OBVIOUS
  <1>2. \A m \in 1..n + 1 : m >= n + 1 => m = n + 1
    OBVIOUS
  <1>3. Max(1..n + 1) = n + 1
    BY <1>1, <1>2 DEF Max
  <1> QED
    BY <1>1, <1>3

\* it[s] is what the steps for the members of s, in their order, make of the start.
FoldedOver(it, n, start, step) ==
    \A s \in SUBSET (1..n) :
        it[s] = IF s = {} THEN start ELSE step[<<it[s \ {Max(s)}], Max(s)>>]

\* The function behind FoldLeft exists: from the one over the subsets of 1..k to
\* that over those of 1..k+1.
LEMMA FoldDefined ==
    ASSUME NEW A, NEW start \in A, NEW n \in Nat, NEW step \in [A \X (1..n) -> A]
    PROVE  \E it \in [SUBSET (1..n) -> A] : FoldedOver(it, n, start, step)
  <1> DEFINE Folds(k, g) ==
               \A s \in SUBSET (1..k) :
                  g[s] = IF s = {} THEN start ELSE step[<<g[s \ {Max(s)}], Max(s)>>]
             T == {k \in Nat : k <= n => \E g \in [SUBSET (1..k) -> A] : Folds(k, g)}
  <1>1. 0 \in T
    <2> DEFINE g == [s \in SUBSET (1..0) |-> start]
    <2>1. g \in [SUBSET (1..0) -> A] /\ Folds(0, g)
      OBVIOUS
    <2> QED
      BY <2>1
  <1>2. ASSUME NEW k \in T PROVE k + 1 \in T
    <2>0. k \in Nat /\ k + 1 \in Nat
      BY <1>2
    <2> SUFFICES ASSUME k + 1 <= n PROVE \E g \in [SUBSET (1..k + 1) -> A] : Folds(k + 1, g)
      BY <2>0
    <2>1. k \in Nat /\ k <= n /\ k + 1 \in 1..n /\ k + 1 \in Nat
      BY <2>0
    <2>2. PICK g \in [SUBSET (1..k) -> A] : Folds(k, g)
      BY <1>2, <2>1
    <2> DEFINE h == [s \in SUBSET (1..k + 1) |->
                       IF k + 1 \in s THEN step[<<g[s \ {k + 1}], k + 1>>] ELSE g[s]]
    <2>3. ASSUME NEW s \in SUBSET (1..k + 1)
          PROVE  /\ h[s] \in A
                 /\ h[s] = IF s = {} THEN start ELSE step[<<h[s \ {Max(s)}], Max(s)>>]
      <3>1. CASE k + 1 \in s
        <4>1. Max(s) = k + 1
          <5>1. s \subseteq 0..k + 1 /\ s # {}
            BY <2>1, <3>1
          <5>2. Max(s) \in s /\ \A x \in s : x <= Max(s)
            BY <2>1, <5>1, MaxOf
          <5>3. k + 1 <= Max(s) /\ Max(s) \in 1..k + 1
            BY <3>1, <5>2
          <5> QED
            BY <2>1, <5>3
        <4>2. s \ {k + 1} \in SUBSET (1..k) /\ s \ {k + 1} \in SUBSET (1..k + 1)
              /\ k + 1 \notin s \ {k + 1}
          BY <2>1
        <4>3. h[s \ {k + 1}] = g[s \ {k + 1}] /\ g[s \ {k + 1}] \in A
          BY <4>2, <2>2
        <4>4. h[s] = step[<<g[s \ {k + 1}], k + 1>>]
          BY <3>1
        <4> QED
          BY <2>1, <3>1, <4>1, <4>3, <4>4
      <3>2. CASE k + 1 \notin s
        <4>1. s \in SUBSET (1..k) /\ h[s] = g[s]
          BY <2>1, <3>2
        <4>2. s \ {Max(s)} \in SUBSET (1..k + 1) /\ k + 1 \notin s \ {Max(s)}
          BY <3>2
        <4>3. h[s \ {Max(s)}] = g[s \ {Max(s)}]
          BY <4>2
        <4> QED
          BY <4>1, <4>3, <2>2
      <3> QED
        BY <3>1, <3>2
    <2>4. h \in [SUBSET (1..k + 1) -> A] /\ Folds(k + 1, h)
      BY <2>3
    <2> QED
      BY <2>4
  <1>3. T \subseteq Nat
    OBVIOUS
  <1> HIDE DEF T
  <1>4. n \in T
    BY <1>1, <1>2, <1>3, NaturalsClosed
  <1>5. PICK it \in [SUBSET (1..n) -> A] : Folds(n, it)
    <2>1. n <= n => \E g \in [SUBSET (1..n) -> A] : Folds(n, g)
      BY <1>4 DEF T
    <2>2. n <= n
      OBVIOUS
    <2> HIDE DEF Folds
    <2> QED
      BY <2>1, <2>2
  <1> QED
    BY <1>5 DEF FoldedOver

\* What such steps never leave, the fold is in: whatever function has them where it
\* matters.
FoldsWithin(it, A, n, start, step) ==
    /\ it[{}] = start
    /\ \A s \in SUBSET (1..n) :
          s # {} /\ Max(s) \in 1..n /\ it[s \ {Max(s)}] \in A =>
              it[s] = step[<<it[s \ {Max(s)}], Max(s)>>]

LEMMA FoldStaysIn ==
    ASSUME NEW A, NEW start \in A, NEW n \in Nat, NEW step \in [A \X (1..n) -> A],
           NEW it, FoldsWithin(it, A, n, start, step)
    PROVE  it[1..n] \in A
  <1> DEFINE T == {k \in Nat : k <= n => it[1..k] \in A}
  <1>1. 0 \in T
    <2>1. 1..0 = {}
      OBVIOUS
    <2> QED
      BY <2>1 DEF FoldsWithin
  <1>2. ASSUME NEW k \in T PROVE k + 1 \in T
    <2>1. k \in Nat /\ k + 1 \in Nat
      BY <1>2
    <2> SUFFICES ASSUME k + 1 <= n PROVE it[1..k + 1] \in A
      BY <2>1
    <2>2. it[1..k] \in A
      BY <1>2, <2>1
    <2>3. 1..k + 1 # {} /\ Max(1..k + 1) = k + 1 /\ (1..k + 1) \ {k + 1} = 1..k
      BY <2>1, TopOfInterval
    <2>4. 1..k + 1 \in SUBSET (1..n) /\ k + 1 \in 1..n
      BY <2>1
    <2>5. it[1..k + 1] = step[<<it[1..k], k + 1>>]
      BY <2>2, <2>3, <2>4 DEF FoldsWithin
    <2> QED
      BY <2>2, <2>4, <2>5
  <1>3. T \subseteq Nat
    OBVIOUS
  <1> HIDE DEF T
  <1>4. n \in T
    BY <1>1, <1>2, <1>3, NaturalsClosed
  <1> QED
    BY <1>4 DEF T

\* A function that follows the steps, for whoever needs one to exist.
FoldsAlways(f, A, n, start, step) ==
    /\ f \in [SUBSET (1..n) -> A] /\ f[{}] = start
    /\ \A s \in SUBSET (1..n) :
          s # {} => /\ Max(s) \in 1..n /\ f[s \ {Max(s)}] \in A
                    /\ f[s] = step[<<f[s \ {Max(s)}], Max(s)>>]

LEMMA FoldExists ==
    ASSUME NEW A, NEW start \in A, NEW n \in Nat, NEW step \in [A \X (1..n) -> A]
    PROVE  \E f : FoldsAlways(f, A, n, start, step)
  <1>1. PICK f \in [SUBSET (1..n) -> A] : FoldedOver(f, n, start, step)
    BY FoldDefined
  <1>2. ASSUME NEW s \in SUBSET (1..n), s # {}
        PROVE  Max(s) \in 1..n /\ f[s \ {Max(s)}] \in A
    <2>1. s \subseteq 0..n
      OBVIOUS
    <2>2. Max(s) \in 1..n
      BY <1>2, <2>1, MaxOf
    <2> QED
      BY <2>2
  <1>3. f[{}] = start
    BY <1>1 DEF FoldedOver
  <1>4. FoldsAlways(f, A, n, start, step)
    BY <1>1, <1>2, <1>3 DEF FoldedOver, FoldsAlways
  <1> QED
    BY <1>4
===============================================================================
