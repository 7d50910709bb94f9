----------------------------- MODULE SessionProofs -----------------------------
(***************************************************************************)
(* The session of AdapterSession, for every number of panes, every set of  *)
(* images, every size of their blobs and every cap: the image stores stay  *)
(* in order, what is on display is not evicted, and no frame is refused    *)
(* without a cause.                                                        *)
(*                                                                         *)
(* The loop that makes room in a store is a run of turns.  By induction    *)
(* over their number its invariant holds: the store's three parts agree,   *)
(* what is protected is still in it, the entries that went round are the   *)
(* last of the order, and a measure of what is left falls with every turn. *)
(* So it is through after the turns Evict allows; and when it is through,  *)
(* the store is within the cap, or has nothing but what is protected.      *)
(*                                                                         *)
(* The broker's registry follows what the worker has announced with a pipe *)
(* of packets in between; the invariants say what the broker will know     *)
(* when it comes to read each of them.                                     *)
(***************************************************************************)
EXTENDS AdapterSession, DataLemmas, SequenceTheorems


\* No image is in the order twice.
Distinct(order) ==
    \A i, j \in 1..Len(order) : order[i] = order[j] => i = j

\* The entries, the order and the count of bytes agree.
Accounted(store) ==
    /\ store \in Stores
    /\ ToSet(store.order) = store.entries
    /\ Distinct(store.order)
    /\ store.bytes = Total(store.entries)

-------------------------------------------------------------------------------
(* Sums.                                                                        *)

\* What images take together is a number.
LEMMA TotalFinite ==
    ASSUME NEW S \in SUBSET Images
    PROVE  /\ IsFiniteSet(ByteOf(S))
           /\ Total(S) \in Nat
  <1>1. IsFiniteSet(S) /\ IsFiniteSet(1..Cap)
    BY FS_Subset, FS_Interval, SessionAssumption
  <1>2. IsFiniteSet(S \X (1..Cap))
    BY <1>1, FS_Product
  <1>3. ByteOf(S) \subseteq S \X (1..Cap)
    BY DEF ByteOf
  <1> HIDE DEF ByteOf
  <1>4. IsFiniteSet(ByteOf(S))
    BY <1>2, <1>3, FS_Subset
  <1> QED
    BY <1>4, FS_CardinalityType DEF Total

\* No images take nothing.
LEMMA TotalOfNone == Total({}) = 0
  BY FS_EmptySet DEF Total, ByteOf

\* One image takes the bytes of its blob.
LEMMA TotalOfOne ==
    ASSUME NEW i \in Images
    PROVE  Total({i}) = Bytes[i]
  <1>1. Bytes[i] \in 1..Cap /\ Bytes[i] \in Nat /\ Cap \in Nat
    BY SessionAssumption
  <1> DEFINE f == [n \in 1..Bytes[i] |-> <<i, n>>]
  <1>2. f \in [1..Bytes[i] -> ByteOf({i})]
    BY <1>1 DEF ByteOf
  <1>3. \A x \in ByteOf({i}) : \E n \in 1..Bytes[i] : f[n] = x
    BY <1>1 DEF ByteOf
  <1>4. \A m, n \in 1..Bytes[i] : f[m] = f[n] => m = n
    OBVIOUS
  <1> HIDE DEF f
  <1>5. ExistsBijection(1..Bytes[i], ByteOf({i}))
    <2>1. f \in Bijection(1..Bytes[i], ByteOf({i}))
      BY <1>2, <1>3, <1>4 DEF Bijection, Injection, Surjection, IsInjective
    <2> QED
      BY <2>1 DEF ExistsBijection
  <1> QED
    BY <1>1, <1>5, FS_CountingElements DEF Total

\* Different images take the sum of what each part takes.
LEMMA TotalOfUnion ==
    ASSUME NEW S \in SUBSET Images, NEW T \in SUBSET Images, S \cap T = {}
    PROVE  Total(S \cup T) = Total(S) + Total(T)
  <1>1. IsFiniteSet(ByteOf(S)) /\ IsFiniteSet(ByteOf(T))
    BY TotalFinite
  <1>2. /\ ByteOf(S \cup T) = ByteOf(S) \cup ByteOf(T)
        /\ ByteOf(S) \cap ByteOf(T) = {}
    BY DEF ByteOf
  <1>3. Total(S) \in Nat /\ Total(T) \in Nat
    BY TotalFinite
  <1>4. Cardinality(ByteOf(S) \cap ByteOf(T)) = 0
    BY <1>2, FS_EmptySet
  <1> HIDE DEF ByteOf
  <1>5. Cardinality(ByteOf(S) \cup ByteOf(T)) =
          Cardinality(ByteOf(S)) + Cardinality(ByteOf(T))
             - Cardinality(ByteOf(S) \cap ByteOf(T))
    BY <1>1, FS_Union
  <1>6. Total(S \cup T) = Total(S) + Total(T) - 0
    BY <1>2, <1>4, <1>5 DEF Total
  <1> HIDE DEF Total
  <1> QED
    BY <1>3, <1>6

\* More images take no less.
LEMMA TotalMonotonic ==
    ASSUME NEW T \in SUBSET Images, NEW S \in SUBSET T
    PROVE  Total(S) <= Total(T)
  <1>1. ByteOf(S) \subseteq ByteOf(T)
    BY DEF ByteOf
  <1> HIDE DEF ByteOf
  <1> QED
    BY <1>1, TotalFinite, FS_Subset DEF Total
-------------------------------------------------------------------------------
(* The loop that makes room in a store.                                         *)

\* An order's images are its elements.
LEMMA ToSetOfOrder ==
    ASSUME NEW order \in Seq(Images)
    PROVE  /\ Len(order) \in Nat
           /\ ToSet(order) = {order[i] : i \in 1..Len(order)}
           /\ \A i \in 1..Len(order) : order[i] \in Images
           /\ order # <<>> => Len(order) # 0
  BY LenProperties, EmptySeq DEF ToSet

\* When the oldest entry goes round, the three parts agree as before, and one
\* more of the last entries is protected.
LEMMA RotatedKeeps ==
    ASSUME NEW s \in LoopStates, Accounted(s.store), s.store.order # <<>>
    PROVE  LET order == s.store.order
               t == Rotated(s)
           IN  /\ t \in LoopStates /\ Accounted(t.store)
               /\ t.rotations = s.rotations + 1
               /\ t.store.entries = s.store.entries
               /\ Len(t.store.order) = Len(order)
               /\ \A i \in 1..Len(order) :
                     t.store.order[i] = IF i < Len(order) THEN order[i + 1] ELSE Head(order)
  <1> DEFINE order == s.store.order
             t == Rotated(s)
             len == Len(order)
  <1>1. /\ s.store \in Stores /\ s.rotations \in Nat
        /\ order \in Seq(Images) /\ order # <<>>
        /\ s = [store |-> s.store, rotations |-> s.rotations]
    BY DEF LoopStates, Stores
  <1>2. /\ Head(order) \in Images /\ Head(order) = order[1]
        /\ Tail(order) \in Seq(Images) /\ Len(Tail(order)) = len - 1
        /\ \A i \in 1..(len - 1) : Tail(order)[i] = order[i + 1]
    BY <1>1, HeadTailProperties
  <1>3. len \in Nat \ {0}
    BY <1>1, ToSetOfOrder
  <1> DEFINE turned == Append(Tail(order), Head(order))
  <1>4. /\ turned \in Seq(Images) /\ Len(turned) = len
        /\ \A i \in 1..(len - 1) : turned[i] = order[i + 1]
        /\ turned[len] = order[1]
    <2>1. /\ turned \in Seq(Images) /\ Len(turned) = Len(Tail(order)) + 1
          /\ \A i \in 1..Len(Tail(order)) : turned[i] = Tail(order)[i]
          /\ turned[Len(Tail(order)) + 1] = Head(order)
      BY <1>2, AppendProperties
    <2> HIDE DEF turned, len
    <2> QED
      BY <2>1, <1>2, <1>3
  <1>5. /\ t = [store |-> [s.store EXCEPT !.order = turned], rotations |-> s.rotations + 1]
        /\ t.store = [s.store EXCEPT !.order = turned]
    BY DEF Rotated
  <1> HIDE DEF turned, t
  <1>6. /\ t.store.order = turned /\ t.store.entries = s.store.entries
        /\ t.store.bytes = s.store.bytes /\ t.store \in Stores
    BY <1>1, <1>4, <1>5 DEF Stores
  <1>7. t \in LoopStates /\ t.rotations = s.rotations + 1
    BY <1>1, <1>5, <1>6 DEF LoopStates
  <1> HIDE DEF order, len
  <1>8. \A i \in 1..len : turned[i] = order[IF i < len THEN i + 1 ELSE 1]
    BY <1>3, <1>4
  <1>9. Distinct(turned)
    <2>1. Distinct(order) /\ len = Len(order)
      BY DEF Accounted, order, len
    <2> SUFFICES ASSUME NEW i \in 1..len, NEW j \in 1..len, turned[i] = turned[j]
                 PROVE  i = j
      BY <1>4 DEF Distinct
    <2>2. (IF i < len THEN i + 1 ELSE 1) = (IF j < len THEN j + 1 ELSE 1)
      BY <1>3, <1>8, <2>1 DEF Distinct
    <2> QED
      BY <1>3, <2>2
  <1>10. ToSet(turned) = ToSet(order)
    <2>1. /\ ToSet(turned) = {turned[i] : i \in 1..len}
          /\ ToSet(order) = {order[i] : i \in 1..len}
      BY <1>1, <1>4, ToSetOfOrder DEF len
    <2>2. \A i \in 1..len : \E j \in 1..len : turned[j] = order[i]
      <3> TAKE i \in 1..len
      <3>1. CASE i = 1
        BY <3>1, <1>3, <1>4
      <3>2. CASE i # 1
        <4>1. i - 1 \in 1..(len - 1) /\ i - 1 \in 1..len /\ (i - 1) + 1 = i
          BY <3>2, <1>3
        <4> QED
          BY <4>1, <1>4
      <3> QED
        BY <3>1, <3>2
    <2>3. \A i \in 1..len : \E j \in 1..len : order[j] = turned[i]
      <3> TAKE i \in 1..len
      <3>1. (IF i < len THEN i + 1 ELSE 1) \in 1..len
        BY <1>3
      <3> QED
        BY <1>8, <3>1
    <2>4. ToSet(turned) \subseteq ToSet(order)
      BY <2>1, <2>3
    <2>5. ToSet(order) \subseteq ToSet(turned)
      BY <2>1, <2>2
    <2> QED
      BY <2>4, <2>5
  <1>11. Accounted(t.store)
    BY <1>6, <1>9, <1>10 DEF Accounted, order
  <1>12. \A i \in 1..len :
            t.store.order[i] = IF i < len THEN order[i + 1] ELSE Head(order)
    BY <1>2, <1>6, <1>8
  <1> QED
    BY <1>4, <1>6, <1>7, <1>11, <1>12 DEF order, len, t

\* When the oldest entry goes, the three parts lose the same.
LEMMA DroppedKeeps ==
    ASSUME NEW s \in LoopStates, Accounted(s.store), s.store.order # <<>>,
           s.store.bytes > Cap
    PROVE  LET order == s.store.order
               t == Dropped(s)
           IN  /\ t \in LoopStates /\ Accounted(t.store)
               /\ t.rotations = s.rotations
               /\ t.store.entries = s.store.entries \ {Head(order)}
               /\ Len(t.store.order) = Len(order) - 1
               /\ \A i \in 1..(Len(order) - 1) : t.store.order[i] = order[i + 1]
  <1> DEFINE order == s.store.order
             oldest == Head(order)
             t == Dropped(s)
             len == Len(order)
             rest == Tail(order)
  <1>1. /\ s.store \in Stores /\ s.rotations \in Nat
        /\ order \in Seq(Images) /\ order # <<>>
        /\ s = [store |-> s.store, rotations |-> s.rotations]
    BY DEF LoopStates, Stores
  <1>2. /\ oldest \in Images /\ oldest = order[1]
        /\ rest \in Seq(Images) /\ Len(rest) = len - 1
        /\ \A i \in 1..(len - 1) : rest[i] = order[i + 1]
    BY <1>1, HeadTailProperties
  <1>3. len \in Nat \ {0}
    BY <1>1, ToSetOfOrder
  <1> DEFINE left == [entries |-> s.store.entries \ {oldest}, order |-> rest,
                      bytes |-> s.store.bytes - Bytes[oldest]]
  <1>4. t = [store |-> left, rotations |-> s.rotations] /\ t.store = left
    BY DEF Dropped
  <1> HIDE DEF t
  <1>5. /\ s.store.entries \in SUBSET Images /\ s.store.bytes \in Nat
        /\ Bytes[oldest] \in 1..Cap /\ Cap \in Nat
    BY <1>1, <1>2, SessionAssumption DEF Stores
  <1>6. t.store \in Stores
    BY <1>2, <1>4, <1>5 DEF Stores
  <1>7. t \in LoopStates /\ t.rotations = s.rotations
    <2> HIDE DEF left
    <2> QED
      BY <1>1, <1>4, <1>6 DEF LoopStates
  <1>8. /\ Distinct(order) /\ ToSet(order) = s.store.entries
        /\ s.store.bytes = Total(s.store.entries)
    BY DEF Accounted
  <1>9. /\ ToSet(order) = {order[i] : i \in 1..len}
        /\ ToSet(rest) = {rest[i] : i \in 1..(len - 1)}
    BY <1>1, <1>2, ToSetOfOrder
  <1>10. Distinct(rest)
    <2> SUFFICES ASSUME NEW i \in 1..(len - 1), NEW j \in 1..(len - 1), rest[i] = rest[j]
                 PROVE  i = j
      BY <1>2 DEF Distinct
    <2>1. i + 1 \in 1..len /\ j + 1 \in 1..len
      BY <1>3
    <2>2. i + 1 = j + 1
      BY <1>2, <1>8, <2>1 DEF Distinct
    <2> QED
      BY <2>2
  <1>11. ToSet(rest) = s.store.entries \ {oldest}
    <2>1. \A i \in 1..(len - 1) : rest[i] \in ToSet(order) /\ rest[i] # oldest
      <3> TAKE i \in 1..(len - 1)
      <3>1. i + 1 \in 1..len /\ 1 \in 1..len /\ i + 1 # 1
        BY <1>3
      <3>2. order[i + 1] # order[1]
        BY <1>8, <3>1 DEF Distinct
      <3> QED
        BY <1>2, <1>9, <3>1, <3>2
    <2>2. \A i \in 1..len : order[i] # oldest => order[i] \in ToSet(rest)
      <3> TAKE i \in 1..len
      <3> HAVE order[i] # oldest
      <3>1. i # 1
        BY <1>2
      <3>2. i - 1 \in 1..(len - 1) /\ (i - 1) + 1 = i
        BY <1>3, <3>1
      <3> QED
        BY <1>2, <1>9, <3>2
    <2> QED
      BY <1>8, <1>9, <2>1, <2>2
  <1>12. s.store.bytes - Bytes[oldest] = Total(s.store.entries \ {oldest})
    <2> DEFINE others == s.store.entries \ {oldest}
    <2>1. oldest \in s.store.entries
      BY <1>2, <1>3, <1>8, <1>9
    <2>2. s.store.entries = others \cup {oldest} /\ others \cap {oldest} = {}
      BY <2>1
    <2>3. others \in SUBSET Images /\ {oldest} \in SUBSET Images
      BY <1>2, <1>5
    <2>4. Total(others \cup {oldest}) = Total(others) + Total({oldest})
      BY <2>2, <2>3, TotalOfUnion
    <2>5. Total(others) \in Nat /\ Total({oldest}) = Bytes[oldest]
      BY <1>2, <2>3, TotalFinite, TotalOfOne
    <2>6. s.store.bytes = Total(others) + Bytes[oldest]
      BY <1>8, <2>2, <2>4, <2>5
    <2>7. Bytes[oldest] \in Nat
      BY <1>5
    <2> HIDE DEF Total
    <2> QED
      BY <2>5, <2>6, <2>7
  <1>13. Accounted(t.store)
    BY <1>4, <1>6, <1>10, <1>11, <1>12 DEF Accounted
  <1> QED
    BY <1>2, <1>4, <1>7, <1>13 DEF t

\* Where the loop is after n turns: nothing protected has gone, the entries that
\* were rotated are the last ones, and the turns still to come are bounded.
LoopInv(s, start, protected, n) ==
    /\ s \in LoopStates /\ Accounted(s.store)
    /\ protected \cap start.entries \subseteq s.store.entries
    /\ s.store.entries \subseteq start.entries
    /\ \A i \in 1..Len(s.store.order) :
          i + s.rotations > Len(s.store.order) => s.store.order[i] \in protected
    /\ Settled(s) \/ 2 * Len(s.store.order) + n <= 2 * Len(start.order) + s.rotations

\* The arithmetic of the turns: each takes its part of the measure, and when
\* they are used up there were more rotations than entries.
LEMMA TurnsLeft ==
    ASSUME NEW len \in Nat, NEW first \in Nat, NEW rotations \in Nat, NEW n \in Nat,
           2 * len + n <= 2 * first + rotations
    PROVE  /\ 2 * len + (n + 1) <= 2 * first + (rotations + 1)
           /\ 2 * (len - 1) + (n + 1) <= 2 * first + rotations
           /\ n = 2 * first + 1 => rotations > len
  OBVIOUS

\* A turn preserves the invariant of the loop.
LEMMA TurnKeeps ==
    ASSUME NEW protected \in SUBSET Images, NEW start \in Stores, NEW n \in Nat,
           NEW s, LoopInv(s, start, protected, n)
    PROVE  LoopInv(Turn(protected)[s], start, protected, n + 1)
  <1> DEFINE t == Turn(protected)[s]
             order == s.store.order
  <1>1. /\ s \in LoopStates /\ Accounted(s.store) /\ s.rotations \in Nat
        /\ order \in Seq(Images) /\ Len(order) \in Nat /\ Len(start.order) \in Nat
        /\ s.store.bytes \in Nat /\ Cap \in Nat
    BY SessionAssumption, LenProperties DEF LoopInv, LoopStates, Stores
  <1>2. t = IF Settled(s) THEN s
            ELSE IF Head(order) \in protected THEN Rotated(s) ELSE Dropped(s)
    BY <1>1 DEF Turn
  <1> HIDE DEF t
  <1>3. CASE Settled(s)
    BY <1>2, <1>3 DEF LoopInv, t
  <1>4. CASE ~Settled(s) /\ Head(order) \in protected
    <2>1. t = Rotated(s) /\ order # <<>>
      BY <1>2, <1>4 DEF Settled
    <2>2. /\ t \in LoopStates /\ Accounted(t.store)
          /\ t.rotations = s.rotations + 1
          /\ t.store.entries = s.store.entries
          /\ Len(t.store.order) = Len(order)
          /\ \A i \in 1..Len(order) :
                t.store.order[i] = IF i < Len(order) THEN order[i + 1] ELSE Head(order)
      BY <1>1, <2>1, RotatedKeeps
    <2>3. /\ protected \cap start.entries \subseteq t.store.entries
          /\ t.store.entries \subseteq start.entries
      BY <2>2 DEF LoopInv
    <2>4. ASSUME NEW i \in 1..Len(order), i + (s.rotations + 1) > Len(order)
          PROVE  t.store.order[i] \in protected
      <3>1. CASE i < Len(order)
        <4>1. i + 1 \in 1..Len(order) /\ (i + 1) + s.rotations > Len(order)
          BY <1>1, <2>4, <3>1
        <4>2. order[i + 1] \in protected
          BY <4>1 DEF LoopInv
        <4> QED
          BY <2>2, <3>1, <4>2
      <3>2. CASE ~(i < Len(order))
        BY <1>4, <2>2, <3>2
      <3> QED
        BY <3>1, <3>2
    <2>5. 2 * Len(order) + (n + 1) <= 2 * Len(start.order) + (s.rotations + 1)
      <3>1. 2 * Len(order) + n <= 2 * Len(start.order) + s.rotations
        BY <1>4 DEF LoopInv
      <3> QED
        BY <1>1, <3>1, TurnsLeft
    <2> QED
      BY <2>2, <2>3, <2>4, <2>5 DEF LoopInv, t
  <1>5. CASE ~Settled(s) /\ Head(order) \notin protected
    <2>1. t = Dropped(s) /\ order # <<>> /\ s.store.bytes > Cap
      BY <1>1, <1>2, <1>5 DEF Settled
    <2>2. /\ t \in LoopStates /\ Accounted(t.store)
          /\ t.rotations = s.rotations
          /\ t.store.entries = s.store.entries \ {Head(order)}
          /\ Len(t.store.order) = Len(order) - 1
          /\ \A i \in 1..(Len(order) - 1) : t.store.order[i] = order[i + 1]
      BY <1>1, <2>1, DroppedKeeps
    <2>3. /\ protected \cap start.entries \subseteq t.store.entries
          /\ t.store.entries \subseteq start.entries
      BY <1>5, <2>2 DEF LoopInv
    <2>4. ASSUME NEW i \in 1..(Len(order) - 1), i + s.rotations > Len(order) - 1
          PROVE  t.store.order[i] \in protected
      <3>1. i + 1 \in 1..Len(order) /\ (i + 1) + s.rotations > Len(order)
        BY <1>1, <2>4
      <3>2. order[i + 1] \in protected
        BY <3>1 DEF LoopInv
      <3> QED
        BY <2>2, <3>2
    <2>5. 2 * (Len(order) - 1) + (n + 1) <= 2 * Len(start.order) + s.rotations
      <3>1. 2 * Len(order) + n <= 2 * Len(start.order) + s.rotations
        BY <1>5 DEF LoopInv
      <3> QED
        BY <1>1, <3>1, TurnsLeft
    <2> QED
      BY <2>2, <2>3, <2>4, <2>5 DEF LoopInv, t
  <1> QED
    BY <1>3, <1>4, <1>5

\* The loop is a run: its turns one after the other, from the store as it was.
LEMMA EvictRuns ==
    ASSUME NEW protected \in SUBSET Images, NEW store \in Stores, Accounted(store)
    PROVE  \E run :
              /\ run[0] = [store |-> store, rotations |-> 0]
              /\ \A n \in Nat : run[n + 1] = Turn(protected)[run[n]]
              /\ Evict(store, protected) = run[2 * Len(store.order) + 1].store
  <1> DEFINE start == [store |-> store, rotations |-> 0]
             S == {s \in LoopStates : Accounted(s.store)}
             step == [s \in S |-> Turn(protected)[s]]
             Runs(f) == f = [n \in Nat |-> IF n = 0 THEN start
                                           ELSE Turn(protected)[f[n - 1]]]
             run == CHOOSE f : Runs(f)
  <1>1. start \in S
    BY DEF LoopStates, Stores
  <1>2. Runs(run)
    <2>1. step \in [S -> S]
      <3>1. ASSUME NEW s \in S PROVE Turn(protected)[s] \in S
        <4>1. Turn(protected)[s] = IF Settled(s) THEN s
                ELSE IF Head(s.store.order) \in protected THEN Rotated(s) ELSE Dropped(s)
          BY DEF Turn
        <4>2. s.store.bytes \in Nat /\ Cap \in Nat
          BY SessionAssumption DEF LoopStates, Stores
        <4>3. CASE Settled(s)
          BY <4>1, <4>3
        <4>4. CASE ~Settled(s)
          <5>1. s.store.order # <<>> /\ s.store.bytes > Cap
            BY <4>2, <4>4 DEF Settled
          <5>2. Rotated(s) \in S
            BY <5>1, RotatedKeeps
          <5>3. Dropped(s) \in S
            BY <5>1, DroppedKeeps
          <5> QED
            BY <4>1, <4>4, <5>2, <5>3
        <4> QED
          BY <4>3, <4>4
      <3> QED
        BY <3>1
    <2> HIDE DEF step, S, start
    <2>2. PICK f \in [Nat -> S] : Iterates(f, start, step)
      BY <1>1, <2>1, IterationDefined
    <2>3. \A n \in Nat : n # 0 => step[f[n - 1]] = Turn(protected)[f[n - 1]]
      <3> TAKE n \in Nat
      <3> HAVE n # 0
      <3>1. f[n - 1] \in S
        BY <2>2
      <3> QED
        BY <3>1 DEF step
    <2>4. Runs(f)
      BY <2>2, <2>3 DEF Iterates
    <2> HIDE DEF Runs
    <2> QED
      BY <2>4
  <1>3. Evict(store, protected) = run[2 * Len(store.order) + 1].store
    BY DEF Evict, Turns
  <1> HIDE DEF run, S, step
  <1>4. run[0] = start /\ \A n \in Nat : run[n + 1] = Turn(protected)[run[n]]
    <2>1. run = [n \in Nat |-> IF n = 0 THEN start ELSE Turn(protected)[run[n - 1]]]
      BY <1>2
    <2>2. ASSUME NEW n \in Nat PROVE run[n + 1] = Turn(protected)[run[n]]
      <3>1. n + 1 \in Nat /\ n + 1 # 0 /\ (n + 1) - 1 = n
        OBVIOUS
      <3> QED
        BY <2>1, <3>1
    <2> QED
      BY <2>1, <2>2
  <1> QED
    BY <1>3, <1>4

\* The loop of an accounted store, with what is protected no larger than the cap,
\* ends within the cap, accounted, and with all of the protected entries.
LEMMA EvictMakesRoom ==
    ASSUME NEW protected \in SUBSET Images, Total(protected) <= Cap,
           NEW store \in Stores, Accounted(store)
    PROVE  LET e == Evict(store, protected)
           IN  /\ Accounted(e) /\ e.bytes <= Cap
               /\ protected \cap store.entries \subseteq e.entries
               /\ e.entries \subseteq store.entries
  <1> DEFINE start == [store |-> store, rotations |-> 0]
             len == Len(store.order)
  <1>1. start \in LoopStates /\ len \in Nat /\ store.order \in Seq(Images)
    BY LenProperties DEF LoopStates, Stores
  <1>2. PICK run : /\ run[0] = start
                   /\ \A n \in Nat : run[n + 1] = Turn(protected)[run[n]]
                   /\ Evict(store, protected) = run[2 * len + 1].store
    BY EvictRuns
  <1>3. \A n \in Nat : LoopInv(run[n], store, protected, n)
    <2> DEFINE T == {n \in Nat : LoopInv(run[n], store, protected, n)}
    <2>1. 0 \in T
      <3>1. start \in LoopStates /\ start.store = store /\ start.rotations = 0
        BY DEF LoopStates
      <3> HIDE DEF start
      <3>2. LoopInv(start, store, protected, 0)
        BY <1>1, <3>1 DEF LoopInv
      <3> QED
        BY <1>2, <3>2
    <2>2. ASSUME NEW n \in T PROVE n + 1 \in T
      <3>1. n \in Nat /\ LoopInv(run[n], store, protected, n)
        BY <2>2
      <3>2. LoopInv(Turn(protected)[run[n]], store, protected, n + 1)
        BY <3>1, TurnKeeps
      <3>3. run[n + 1] = Turn(protected)[run[n]]
        BY <1>2, <3>1
      <3> QED
        BY <3>1, <3>2, <3>3
    <2>3. T \subseteq Nat
      OBVIOUS
    <2> HIDE DEF T
    <2>4. T = Nat
      BY <2>1, <2>2, <2>3, NaturalsClosed
    <2> QED
      BY <2>4 DEF T
  <1> DEFINE last == run[2 * len + 1]
             order == last.store.order
  <1>4. /\ LoopInv(last, store, protected, 2 * len + 1)
        /\ last.rotations \in Nat /\ order \in Seq(Images) /\ Len(order) \in Nat
    <2>1. 2 * len + 1 \in Nat
      BY <1>1
    <2>2. LoopInv(last, store, protected, 2 * len + 1)
      BY <1>3, <2>1
    <2> HIDE DEF last
    <2> QED
      BY <2>2, LenProperties DEF LoopInv, LoopStates, Stores
  <1> HIDE DEF last, len
  <1>5. Settled(last)
    <2> SUFFICES ASSUME ~Settled(last) PROVE FALSE
      OBVIOUS
    <2>1. last.rotations <= Len(order)
      BY <1>4 DEF Settled
    <2>2. 2 * Len(order) + (2 * len + 1) <= 2 * len + last.rotations
      BY <1>4 DEF LoopInv, len
    <2>3. 2 * len + 1 \in Nat
      BY <1>1
    <2>4. last.rotations > Len(order)
      BY <1>1, <1>4, <2>2, <2>3, TurnsLeft
    <2> QED
      BY <1>4, <2>1, <2>4
  <1>6. last.store.bytes <= Cap
    <2>1. CASE last.rotations > Len(order)
      <3>1. \A i \in 1..Len(order) : order[i] \in protected
        BY <1>4, <2>1 DEF LoopInv
      <3>2. last.store.entries \subseteq protected
        BY <1>4, <3>1, ToSetOfOrder DEF LoopInv, Accounted
      <3>3. Total(last.store.entries) <= Total(protected)
        BY <3>2, TotalMonotonic
      <3>4. last.store.bytes = Total(last.store.entries)
        BY <1>4 DEF LoopInv, Accounted
      <3>5. Total(last.store.entries) \in Nat /\ Total(protected) \in Nat /\ Cap \in Nat
        BY <3>2, TotalFinite, SessionAssumption
      <3> HIDE DEF Total
      <3> QED
        BY <3>3, <3>4, <3>5
    <2>2. CASE order = <<>>
      <3>1. Len(order) = 0
        BY <2>2, EmptySeq
      <3>2. last.store.entries = {}
        BY <1>4, <3>1, ToSetOfOrder DEF LoopInv, Accounted
      <3> QED
        BY <1>4, <3>2, TotalOfNone, SessionAssumption DEF LoopInv, Accounted
    <2> QED
      BY <1>5, <2>1, <2>2 DEF Settled
  <1>7. Evict(store, protected) = last.store
    BY <1>2 DEF last
  <1> QED
    BY <1>4, <1>6, <1>7 DEF LoopInv

\* A store within the cap stays as it is.
LEMMA EvictLeaves ==
    ASSUME NEW protected \in SUBSET Images, NEW store \in Stores, Accounted(store),
           store.bytes <= Cap
    PROVE  Evict(store, protected) = store
  <1> DEFINE start == [store |-> store, rotations |-> 0]
             last == 2 * Len(store.order) + 1
  <1>1. start \in LoopStates /\ Settled(start) /\ last \in Nat
    BY LenProperties DEF LoopStates, Stores, Settled
  <1>2. PICK run : /\ run[0] = start
                   /\ \A n \in Nat : run[n + 1] = Turn(protected)[run[n]]
                   /\ Evict(store, protected) = run[last].store
    BY EvictRuns
  <1>3. Turn(protected)[start] = start
    BY <1>1 DEF Turn
  <1> HIDE DEF start, last
  <1> DEFINE T == {n \in Nat : run[n] = start}
  <1>4. 0 \in T /\ T \subseteq Nat /\ \A n \in T : n + 1 \in T
    BY <1>2, <1>3
  <1> HIDE DEF T
  <1>5. last \in T
    BY <1>1, <1>4, NaturalsClosed
  <1> QED
    BY <1>2, <1>5 DEF T, start

\* An insertion into a store within the cap: as long as all of it fits, nothing
\* has to go.
LEMMA InsertMakesRoom ==
    ASSUME NEW protected \in SUBSET Images, Total(protected) <= Cap,
           NEW store \in Stores, Accounted(store), store.bytes <= Cap,
           NEW image \in Images
    PROVE  LET e == Insert(store, image, protected)
           IN  /\ Accounted(e) /\ e.bytes <= Cap
               /\ protected \cap store.entries \subseteq e.entries
               /\ e.entries \subseteq store.entries \cup {image}
               /\ Total(store.entries \cup {image}) <= Cap
                     => e.entries = store.entries \cup {image}
  <1>1. CASE image \in store.entries
    BY <1>1 DEF Insert
  <1>2. CASE image \notin store.entries
    <2> DEFINE order == store.order
               more == Append(order, image)
               added == [entries |-> store.entries \cup {image}, order |-> more,
                         bytes |-> store.bytes + Bytes[image]]
    <2>1. /\ order \in Seq(Images) /\ store.entries \in SUBSET Images
          /\ store.bytes \in Nat /\ Bytes[image] \in Nat /\ Len(order) \in Nat
      BY SessionAssumption, LenProperties DEF Stores
    <2>2. /\ more \in Seq(Images) /\ Len(more) = Len(order) + 1
          /\ \A i \in 1..Len(order) : more[i] = order[i]
          /\ more[Len(order) + 1] = image
      BY <2>1, AppendProperties
    <2> HIDE DEF more
    <2>3. added \in Stores
      BY <2>1, <2>2 DEF Stores
    <2>4. /\ ToSet(order) = store.entries /\ Distinct(order)
          /\ store.bytes = Total(store.entries)
          /\ ToSet(order) = {order[i] : i \in 1..Len(order)}
          /\ ToSet(more) = {more[i] : i \in 1..Len(more)}
      BY <2>1, <2>2, ToSetOfOrder DEF Accounted
    <2>5. ToSet(more) = store.entries \cup {image}
      <3>1. \A i \in 1..Len(more) : more[i] \in store.entries \cup {image}
        <4> TAKE i \in 1..Len(more)
        <4>1. i \in 1..Len(order) \/ i = Len(order) + 1
          BY <2>1, <2>2
        <4> QED
          BY <2>2, <2>4, <4>1
      <3>2. \A i \in 1..Len(order) : i \in 1..Len(more)
        BY <2>1, <2>2
      <3>3. Len(order) + 1 \in 1..Len(more)
        BY <2>1, <2>2
      <3>4. store.entries \cup {image} \subseteq ToSet(more)
        BY <2>2, <2>4, <3>2, <3>3
      <3> QED
        BY <2>4, <3>1, <3>4
    <2>6. Distinct(more)
      <3> SUFFICES ASSUME NEW i \in 1..Len(more), NEW j \in 1..Len(more),
                          more[i] = more[j]
                   PROVE  i = j
        BY DEF Distinct
      <3>1. \A k \in 1..Len(more) : k \in 1..Len(order) \/ k = Len(order) + 1
        BY <2>1, <2>2
      <3>2. \A k \in 1..Len(order) : more[k] # image
        BY <1>2, <2>2, <2>4
      <3> QED
        BY <2>2, <2>4, <3>1, <3>2 DEF Distinct
    <2>7. store.bytes + Bytes[image] = Total(store.entries \cup {image})
      <3>1. Total(store.entries \cup {image}) = Total(store.entries) + Total({image})
        BY <1>2, <2>1, TotalOfUnion
      <3> HIDE DEF Total
      <3> QED
        BY <2>4, <3>1, TotalOfOne
    <2>8. Accounted(added)
      BY <2>3, <2>5, <2>6, <2>7 DEF Accounted
    <2>9. Insert(store, image, protected) = Evict(added, protected)
      BY <1>2 DEF Insert, more
    <2>10. added.entries = store.entries \cup {image}
      OBVIOUS
    <2>11. added.bytes = Total(added.entries)
      BY <2>7
    <2> HIDE DEF added
    <2>12. Total(store.entries \cup {image}) <= Cap => Evict(added, protected) = added
      BY <2>3, <2>8, <2>10, <2>11, EvictLeaves
    <2> QED
      BY <2>3, <2>8, <2>9, <2>10, <2>12, EvictMakesRoom
  <1> QED
    BY <1>1, <1>2


-----------------------------------------------------------------------------
(* The inductive invariant. *)

\* Types of the variables.
Batches == [layout : Nat, images : SUBSET Images]
Packets == [type : {"added", "updated", "removed", "blob", "frame"}, pane : Panes,
            size : 0..1, images : SUBSET Images]

TypeOK ==
    /\ screen \in [Panes -> SUBSET Images]
    /\ layout \in [Panes -> Nat]
    /\ dirty \in [Panes -> BOOLEAN]
    /\ streaming \in [Panes -> BOOLEAN]
    /\ metadata \in [Panes -> BOOLEAN]
    /\ batch \in [Panes -> Seq(Batches)]
    /\ paint \in [Panes -> {"none", "queued", "dropped"}]
    /\ reconcile \in [Panes -> BOOLEAN]
    /\ disabled \subseteq Panes
    /\ announced \in [Panes -> BOOLEAN]
    /\ worker \in [step : {"away", "metadata", "take", "send", "commands"},
                   pane : Panes]
    /\ taken \in Batches
    /\ sent \subseteq Panes \X Images
    /\ link \in {"up", "broken", "down"}
    /\ pipe \in Seq(Packets)
    /\ commands \in Seq([type : {"subscribe", "unsubscribe"}, pane : Panes])
    /\ sources \in [Panes -> [registered : BOOLEAN, size : 0..1, store : Stores]]
    /\ front \in Panes
    /\ shown \in [pane : Panes \cup {NoPane}, size : 0..1, images : SUBSET Images,
                  kept : BOOLEAN]
    /\ raced \subseteq Panes
    /\ events \in 0..MaxEvents

\* The packet that registers a pane.
Announces(packet, p) == packet.type = "added" /\ packet.pane = p

\* Over a pipe that is not up there is nothing, and nothing is registered.
DownInv == link # "up" => pipe = <<>> /\ Registered = {}

\* A pane's first packet announces it, and no other one does: those that follow
\* find it registered, or its announcement before them.
OrderInv ==
    \A i \in 1..Len(pipe) :
        LET p == pipe[i].pane
        IN  IF pipe[i].type = "added"
            THEN p \notin Registered /\ \A j \in 1..Len(pipe) : j < i => pipe[j].pane # p
            ELSE \/ p \in Registered
                 \/ \E j \in 1..Len(pipe) : j < i /\ Announces(pipe[j], p)

\* What the worker believes it has announced is registered, or will be.  Of what
\* it believes it has not, there is nothing; or the pane was withdrawn, and will
\* not be announced again.
KnownInv ==
    \A p \in Panes :
        IF link = "up" /\ announced[p]
        THEN p \in Registered \/ \E i \in 1..Len(pipe) : Announces(pipe[i], p)
        ELSE \/ p \in disabled
             \/ p \notin Registered /\ \A i \in 1..Len(pipe) : pipe[i].pane # p

\* A removal is the last packet of a pane that was withdrawn.
RemovedInv ==
    \A i \in 1..Len(pipe) :
        pipe[i].type = "removed" =>
            /\ pipe[i].pane \in disabled /\ ~announced[pipe[i].pane]
            /\ \A j \in 1..Len(pipe) : i < j => pipe[j].pane # pipe[i].pane

\* A blob is of an image.
BlobInv == \A i \in 1..Len(pipe) : pipe[i].type = "blob" => pipe[i].images # {}

\* Batches are taken of announced panes only.
TurnInv == link = "up" /\ worker.step \in {"take", "send"} => announced[worker.pane]

PipeInv == DownInv /\ OrderInv /\ KnownInv /\ RemovedInv /\ BlobInv /\ TurnInv

\* Every store's parts agree, and it is within the cap.
StoresInv == \A p \in Panes : /\ Accounted(sources[p].store)
                              /\ sources[p].store.bytes <= Cap

\* What is on display fitted a store, which is why protecting it cannot fill one;
\* as long as its pane is selected, it is still in that pane's.
DisplayInv ==
    /\ Total(shown.images) <= Cap
    /\ shown.kept => /\ shown.pane \in Panes
                     /\ shown.pane = Selected
                     /\ shown.images \subseteq sources[shown.pane].store.entries

SessionInv == TypeOK /\ PipeInv /\ StoresInv /\ DisplayInv
-------------------------------------------------------------------------------
(* The packets on their way. *)

\* Neither the pipe nor the registry changes.
LEMMA PipeQuiet ==
    ASSUME PipeInv, link' = link, pipe' = pipe, sources' = sources,
           announced' = announced, disabled \subseteq disabled', TurnInv'
    PROVE  PipeInv'
  BY DEF PipeInv, DownInv, OrderInv, KnownInv, RemovedInv, BlobInv, Registered, Announces

\* The worker writes of a pane: that it is there, or more of one announced.
LEMMA PipeWritten ==
    ASSUME TypeOK, PipeInv, link = "up", NEW p \in Panes, NEW new \in Seq(Packets),
           pipe' = pipe \o new, link' = link, sources' = sources,
           disabled \subseteq disabled',
           \A i \in 1..Len(new) : new[i].pane = p /\ (new[i].type = "blob" => new[i].images # {}),
           \/ /\ announced[p] /\ announced' = announced
              /\ \A i \in 1..Len(new) : new[i].type \notin {"added", "removed"}
           \/ /\ ~announced[p] /\ announced' = [announced EXCEPT ![p] = TRUE]
              /\ p \notin disabled
              /\ Len(new) = 1 /\ new[1].type = "added"
           \/ /\ announced[p] /\ announced' = [announced EXCEPT ![p] = FALSE]
              /\ p \in disabled
              /\ Len(new) = 1 /\ new[1].type = "removed",
           TurnInv'
    PROVE  PipeInv'
  <1> DEFINE len == Len(pipe)
  <1>1. /\ pipe \in Seq(Packets) /\ len \in Nat /\ Len(new) \in Nat
        /\ \A i \in 1..len : pipe[i] \in Packets
        /\ announced \in [Panes -> BOOLEAN]
    BY LenProperties, ElementOfSeq DEF TypeOK
  <1>2. /\ Len(pipe') = len + Len(new)
        /\ \A i \in 1..(len + Len(new)) : pipe'[i] = IF i <= len THEN pipe[i] ELSE new[i - len]
    BY <1>1, ConcatProperties
  <1>3. /\ \A i \in 1..len : i \in 1..Len(pipe') /\ pipe'[i] = pipe[i]
        /\ \A i \in 1..Len(pipe') : i \notin 1..len =>
              i - len \in 1..Len(new) /\ pipe'[i] = new[i - len]
        /\ \A i \in 1..Len(new) : len + i \in 1..Len(pipe') /\ pipe'[len + i] = new[i]
    BY <1>1, <1>2
  <1>4. Registered' = Registered
    BY DEF Registered
  <1>5. DownInv'
    BY DEF DownInv
  <1>6. OrderInv'
    <2> SUFFICES ASSUME NEW i \in 1..Len(pipe')
                 PROVE  IF pipe'[i].type = "added"
                        THEN /\ pipe'[i].pane \notin Registered
                             /\ \A j \in 1..Len(pipe') : j < i => pipe'[j].pane # pipe'[i].pane
                        ELSE \/ pipe'[i].pane \in Registered
                             \/ \E j \in 1..Len(pipe') :
                                   j < i /\ Announces(pipe'[j], pipe'[i].pane)
      BY <1>4 DEF OrderInv, Announces
    <2>1. CASE i \in 1..len
      <3>1. \A j \in 1..Len(pipe') : j < i => j \in 1..len
        BY <1>1, <1>2, <2>1
      <3> QED
        BY <1>3, <2>1, <3>1 DEF PipeInv, OrderInv, Announces
    <2>2. CASE i \notin 1..len
      <3>1. pipe'[i].pane = p /\ i - len \in 1..Len(new) /\ pipe'[i] = new[i - len]
        BY <1>3, <2>2
      <3>2. CASE announced[p] /\ \A j \in 1..Len(new) : new[j].type # "added"
        <4>1. pipe'[i].type # "added"
          BY <3>1, <3>2
        <4>2. p \in Registered \/ \E j \in 1..len : Announces(pipe[j], p)
          BY <3>2 DEF PipeInv, KnownInv
        <4>3. \A j \in 1..len : j < i
          BY <1>1, <1>2, <2>2
        <4> QED
          BY <1>3, <3>1, <4>1, <4>2, <4>3 DEF Announces
      <3>3. CASE ~announced[p] /\ p \notin disabled /\ Len(new) = 1 /\ new[1].type = "added"
        <4>1. p \notin Registered /\ \A j \in 1..len : pipe[j].pane # p
          BY <3>3 DEF PipeInv, KnownInv
        <4>2. i = len + 1 /\ pipe'[i].type = "added"
          BY <1>1, <1>2, <2>2, <3>1, <3>3
        <4>3. \A j \in 1..Len(pipe') : j < i => j \in 1..len
          BY <1>1, <1>2, <4>2
        <4> QED
          BY <1>3, <3>1, <4>1, <4>2, <4>3
      <3>4. announced[p] => \A j \in 1..Len(new) : new[j].type # "added"
        <4>1. CASE Len(new) = 1 /\ new[1].type = "removed"
          BY <4>1
        <4>2. CASE \A j \in 1..Len(new) : new[j].type \notin {"added", "removed"}
          BY <4>2
        <4> QED
          BY <4>1, <4>2
      <3> QED
        BY <3>2, <3>3, <3>4
    <2> QED
      BY <2>1, <2>2
  <1>7. KnownInv'
    <2> SUFFICES ASSUME NEW q \in Panes
                 PROVE  IF announced'[q]
                        THEN q \in Registered \/ \E i \in 1..Len(pipe') : Announces(pipe'[i], q)
                        ELSE \/ q \in disabled
                             \/ q \notin Registered /\ \A i \in 1..Len(pipe') : pipe'[i].pane # q
      BY <1>4 DEF KnownInv, Announces
    <2>1. CASE q # p
      <3>1. announced'[q] = announced[q]
        BY <1>1, <2>1
      <3>2. \A i \in 1..Len(pipe') : pipe'[i].pane = q => i \in 1..len
        BY <1>3, <2>1
      <3> QED
        BY <1>3, <3>1, <3>2 DEF PipeInv, KnownInv, Announces
    <2>2. CASE q = p /\ announced[p] /\ announced' = announced
      BY <1>1, <1>3, <2>2 DEF PipeInv, KnownInv, Announces
    <2>4. CASE q = p /\ announced[p] /\ announced' = [announced EXCEPT ![p] = FALSE]
                     /\ p \in disabled
      BY <1>1, <2>4
    <2>3. CASE q = p /\ ~announced[p]
      <3>1. announced'[p] /\ Len(new) = 1 /\ new[1].type = "added" /\ new[1].pane = p
        BY <1>1, <2>3
      <3>2. len + 1 \in 1..Len(pipe') /\ pipe'[len + 1] = new[1]
        BY <1>3, <3>1
      <3> QED
        BY <2>3, <3>1, <3>2 DEF Announces
    <2> QED
      BY <2>1, <2>2, <2>3, <2>4
  <1>9. RemovedInv'
    <2> SUFFICES ASSUME NEW i \in 1..Len(pipe'), pipe'[i].type = "removed"
                 PROVE  /\ pipe'[i].pane \in disabled /\ ~announced'[pipe'[i].pane]
                        /\ \A j \in 1..Len(pipe') : i < j => pipe'[j].pane # pipe'[i].pane
      BY DEF RemovedInv
    \* The worker writes no more of a pane that it withdrew.
    <2>1. CASE i \in 1..len
      <3> DEFINE q == pipe[i].pane
      <3>1. /\ pipe'[i] = pipe[i] /\ q \in disabled /\ ~announced[q] /\ q \in Panes
            /\ \A j \in 1..len : i < j => pipe[j].pane # q
        BY <1>1, <1>3, <2>1 DEF PipeInv, RemovedInv, Packets
      <3> HIDE DEF q
      <3>2. q # p
        BY <3>1
      <3>3. ~announced'[q]
        BY <1>1, <3>1, <3>2
      <3>4. \A j \in 1..Len(pipe') : i < j => pipe'[j].pane # q
        BY <1>3, <3>1, <3>2
      <3> QED
        BY <3>1, <3>3, <3>4 DEF q
    <2>2. CASE i \notin 1..len
      <3>1. i - len \in 1..Len(new) /\ pipe'[i] = new[i - len]
        BY <1>3, <2>2
      <3>2. /\ announced' = [announced EXCEPT ![p] = FALSE]
            /\ p \in disabled /\ Len(new) = 1 /\ pipe'[i].pane = p
        BY <2>2, <3>1
      <3>3. i = Len(pipe')
        BY <1>1, <1>2, <3>1, <3>2
      <3>4. \A j \in 1..Len(pipe') : ~(i < j)
        BY <1>1, <1>2, <3>3
      <3> QED
        BY <1>1, <3>2, <3>4
    <2> QED
      BY <2>1, <2>2
  <1>8. BlobInv'
    <2> SUFFICES ASSUME NEW i \in 1..Len(pipe'), pipe'[i].type = "blob"
                 PROVE  pipe'[i].images # {}
      BY DEF BlobInv
    <2>1. CASE i \in 1..len
      BY <1>3, <2>1 DEF PipeInv, BlobInv
    <2>2. CASE i \notin 1..len
      BY <1>3, <2>2
    <2> QED
      BY <2>1, <2>2
  <1> QED
    BY <1>5, <1>6, <1>7, <1>8, <1>9 DEF PipeInv

\* The broker reads a packet, and registers the pane that one announces, or
\* forgets the one that another withdraws.
LEMMA PipeRead ==
    ASSUME TypeOK, PipeInv, link = "up", pipe # <<>>,
           pipe' = Tail(pipe), link' = link, announced' = announced, worker' = worker,
           disabled' = disabled,
           Registered' = IF Head(pipe).type = "added" THEN Registered \cup {Head(pipe).pane}
                         ELSE IF Head(pipe).type = "removed"
                         THEN Registered \ {Head(pipe).pane} ELSE Registered
    PROVE  PipeInv'
  <1> DEFINE len == Len(pipe)
             p == Head(pipe).pane
  <1>1. /\ pipe \in Seq(Packets) /\ len \in Nat \ {0}
        /\ \A i \in 1..len : pipe[i] \in Packets
    BY LenProperties, ElementOfSeq, EmptySeq DEF TypeOK
  <1>2. /\ Len(pipe') = len - 1 /\ Head(pipe) = pipe[1]
        /\ \A i \in 1..(len - 1) : pipe'[i] = pipe[i + 1]
    BY <1>1, HeadTailProperties
  <1>3. /\ \A i \in 1..Len(pipe') : i + 1 \in 1..len /\ pipe'[i] = pipe[i + 1] /\ 1 < i + 1
        /\ \A i \in 1..len : i # 1 => i - 1 \in 1..Len(pipe') /\ pipe'[i - 1] = pipe[i]
        /\ 1 \in 1..len
    BY <1>1, <1>2
  <1>4. p \in Panes
    BY <1>1, <1>2, <1>3 DEF Packets
  <1> HIDE DEF len
  <1>5. DownInv'
    BY DEF DownInv
  <1>6. BlobInv'
    BY <1>3 DEF PipeInv, BlobInv, len
  <1>7. TurnInv'
    BY DEF PipeInv, TurnInv
  <1>10. RemovedInv'
    <2> SUFFICES ASSUME NEW i \in 1..Len(pipe'), pipe'[i].type = "removed"
                 PROVE  /\ pipe'[i].pane \in disabled /\ ~announced[pipe'[i].pane]
                        /\ \A j \in 1..Len(pipe') : i < j => pipe'[j].pane # pipe'[i].pane
      BY DEF RemovedInv
    <2>1. i + 1 \in 1..len /\ pipe'[i] = pipe[i + 1]
      BY <1>3
    <2>2. ASSUME NEW j \in 1..Len(pipe'), i < j PROVE pipe'[j].pane # pipe'[i].pane
      <3>1. j + 1 \in 1..len /\ i + 1 < j + 1 /\ pipe'[j] = pipe[j + 1]
        BY <1>3, <2>2
      <3> QED
        BY <2>1, <3>1 DEF PipeInv, RemovedInv, len
    <2> QED
      BY <2>1, <2>2 DEF PipeInv, RemovedInv, len
  <1>8. CASE Head(pipe).type = "added"
    <2>1. Registered' = Registered \cup {p}
      BY <1>8
    \* No other packet announces the pane.
    <2>2. \A i \in 1..Len(pipe') : pipe'[i].pane = p => pipe'[i].type # "added"
      BY <1>2, <1>3 DEF PipeInv, OrderInv, len
    <2>3. OrderInv'
      <3> SUFFICES ASSUME NEW i \in 1..Len(pipe')
                   PROVE  IF pipe'[i].type = "added"
                          THEN /\ pipe'[i].pane \notin Registered'
                               /\ \A j \in 1..Len(pipe') : j < i => pipe'[j].pane # pipe'[i].pane
                          ELSE \/ pipe'[i].pane \in Registered'
                               \/ \E j \in 1..Len(pipe') :
                                     j < i /\ Announces(pipe'[j], pipe'[i].pane)
        BY DEF OrderInv, Announces
      <3>1. i \in Nat /\ i + 1 \in 1..len /\ pipe'[i] = pipe[i + 1]
        BY <1>3
      <3>2. CASE pipe'[i].type = "added"
        <4>1. pipe'[i].pane # p /\ pipe'[i].pane \notin Registered
          BY <2>2, <3>1, <3>2 DEF PipeInv, OrderInv, len
        <4>2. ASSUME NEW j \in 1..Len(pipe'), j < i PROVE pipe'[j].pane # pipe'[i].pane
          <5>1. j + 1 \in 1..len /\ j + 1 < i + 1 /\ pipe'[j] = pipe[j + 1]
            BY <1>3, <3>1, <4>2
          <5> QED
            BY <3>1, <3>2, <5>1 DEF PipeInv, OrderInv, len
        <4> QED
          BY <2>1, <3>2, <4>1, <4>2
      <3>3. CASE pipe'[i].type # "added" /\ pipe'[i].pane \notin Registered'
        <4>1. PICK j \in 1..len : j < i + 1 /\ Announces(pipe[j], pipe'[i].pane)
          BY <2>1, <3>1, <3>3 DEF PipeInv, OrderInv, len
        <4>2. j # 1
          BY <1>2, <2>1, <3>3, <4>1 DEF Announces
        <4>3. j - 1 \in 1..Len(pipe') /\ pipe'[j - 1] = pipe[j] /\ j - 1 < i
          BY <1>3, <3>1, <4>1, <4>2
        <4> QED
          BY <3>3, <4>1, <4>3
      <3> QED
        BY <3>2, <3>3
    <2>4. KnownInv'
      <3> SUFFICES ASSUME NEW q \in Panes
                   PROVE  IF announced[q]
                          THEN q \in Registered' \/ \E i \in 1..Len(pipe') : Announces(pipe'[i], q)
                          ELSE \/ q \in disabled
                               \/ q \notin Registered' /\ \A i \in 1..Len(pipe') : pipe'[i].pane # q
        BY DEF KnownInv, Announces
      <3>1. CASE announced[q] /\ q \notin Registered'
        <4>1. PICK i \in 1..len : Announces(pipe[i], q)
          BY <2>1, <3>1 DEF PipeInv, KnownInv, len
        <4>2. i # 1
          BY <1>2, <2>1, <3>1, <4>1 DEF Announces
        <4> QED
          BY <1>3, <3>1, <4>1, <4>2
      <3>2. CASE ~announced[q] /\ q \notin disabled
        <4>1. q \notin Registered /\ \A i \in 1..len : pipe[i].pane # q
          BY <3>2 DEF PipeInv, KnownInv, len
        <4>2. q # p
          BY <1>2, <1>3, <4>1
        <4> QED
          BY <1>3, <2>1, <3>2, <4>1, <4>2
      <3> QED
        BY <3>1, <3>2
    <2> QED
      BY <1>5, <1>6, <1>7, <1>10, <2>3, <2>4 DEF PipeInv
  <1>9. CASE Head(pipe).type # "added"
    \* Nothing of a pane follows its removal.
    <2>1. /\ Registered' \subseteq Registered
          /\ \A i \in 1..Len(pipe') : pipe'[i].pane \in Registered
                                       => pipe'[i].pane \in Registered'
          /\ \A q \in Panes : q \in Registered /\ announced[q] => q \in Registered'
      <3>1. CASE Head(pipe).type = "removed"
        <4>1. ~announced[p] /\ \A j \in 1..len : 1 < j => pipe[j].pane # p
          BY <1>2, <1>3, <3>1 DEF PipeInv, RemovedInv, len
        <4>2. \A i \in 1..Len(pipe') : pipe'[i].pane # p
          BY <1>3, <4>1
        <4> QED
          BY <3>1, <4>1, <4>2
      <3>2. CASE Head(pipe).type # "removed"
        BY <1>9, <3>2
      <3> QED
        BY <3>1, <3>2
    <2>2. OrderInv'
      <3> SUFFICES ASSUME NEW i \in 1..Len(pipe')
                   PROVE  IF pipe'[i].type = "added"
                          THEN /\ pipe'[i].pane \notin Registered
                               /\ \A j \in 1..Len(pipe') : j < i => pipe'[j].pane # pipe'[i].pane
                          ELSE \/ pipe'[i].pane \in Registered
                               \/ \E j \in 1..Len(pipe') :
                                     j < i /\ Announces(pipe'[j], pipe'[i].pane)
        BY <2>1 DEF OrderInv, Announces
      <3>1. i \in Nat /\ i + 1 \in 1..len /\ pipe'[i] = pipe[i + 1]
        BY <1>3
      <3>2. CASE pipe'[i].type = "added"
        <4>1. pipe'[i].pane \notin Registered
          BY <3>1, <3>2 DEF PipeInv, OrderInv, len
        <4>2. ASSUME NEW j \in 1..Len(pipe'), j < i PROVE pipe'[j].pane # pipe'[i].pane
          <5>1. j + 1 \in 1..len /\ j + 1 < i + 1 /\ pipe'[j] = pipe[j + 1]
            BY <1>3, <3>1, <4>2
          <5> QED
            BY <3>1, <3>2, <5>1 DEF PipeInv, OrderInv, len
        <4> QED
          BY <3>2, <4>1, <4>2
      <3>3. CASE pipe'[i].type # "added" /\ pipe'[i].pane \notin Registered
        <4>1. PICK j \in 1..len : j < i + 1 /\ Announces(pipe[j], pipe'[i].pane)
          BY <3>1, <3>3 DEF PipeInv, OrderInv, len
        <4>2. j # 1
          BY <1>2, <1>9, <4>1 DEF Announces
        <4>3. j - 1 \in 1..Len(pipe') /\ pipe'[j - 1] = pipe[j] /\ j - 1 < i
          BY <1>3, <3>1, <4>1, <4>2
        <4> QED
          BY <3>3, <4>1, <4>3
      <3> QED
        BY <3>2, <3>3
    <2>3. KnownInv'
      <3> SUFFICES ASSUME NEW q \in Panes
                   PROVE  IF announced[q]
                          THEN q \in Registered \/ \E i \in 1..Len(pipe') : Announces(pipe'[i], q)
                          ELSE \/ q \in disabled
                               \/ q \notin Registered /\ \A i \in 1..Len(pipe') : pipe'[i].pane # q
        BY <2>1 DEF KnownInv, Announces
      <3>1. CASE announced[q] /\ q \notin Registered
        <4>1. PICK i \in 1..len : Announces(pipe[i], q)
          BY <3>1 DEF PipeInv, KnownInv, len
        <4>2. i # 1
          BY <1>2, <1>9, <4>1 DEF Announces
        <4> QED
          BY <1>3, <3>1, <4>1, <4>2
      <3>2. CASE ~announced[q] /\ q \notin disabled
        BY <1>3, <3>2 DEF PipeInv, KnownInv, len
      <3> QED
        BY <3>1, <3>2
    <2> QED
      BY <1>5, <1>6, <1>7, <1>10, <2>2, <2>3 DEF PipeInv
  <1> QED
    BY <1>8, <1>9
-------------------------------------------------------------------------------
(* The steps. *)

\* Neither the stores, nor the selection, nor the display change.
LEMMA StoresQuiet ==
    ASSUME StoresInv, DisplayInv, sources' = sources, front' = front, shown' = shown
    PROVE  StoresInv' /\ DisplayInv'
  BY DEF StoresInv, DisplayInv, Selected, SelectedAmong

\* What the broker has of a pane.
Sources == [registered : BOOLEAN, size : 0..1, store : Stores]

\* One field of one source changes.
LEMMA SizeReplaced ==
    ASSUME NEW all \in [Panes -> Sources], NEW p \in Panes, NEW size \in 0..1
    PROVE  LET changed == [all EXCEPT ![p].size = size]
           IN  /\ changed \in [Panes -> Sources]
               /\ \A q \in Panes : /\ changed[q].registered = all[q].registered
                                   /\ changed[q].store = all[q].store
                                   /\ changed[q].size = IF q = p THEN size ELSE all[q].size
  <1> DEFINE one == [all[p] EXCEPT !.size = size]
             changed == [all EXCEPT ![p] = one]
  <1>1. all[p] \in Sources
    OBVIOUS
  <1>2. /\ one \in Sources /\ one.size = size
        /\ one.registered = all[p].registered /\ one.store = all[p].store
    BY <1>1 DEF Sources
  <1> HIDE DEF one
  <1>3. /\ changed \in [Panes -> Sources] /\ changed[p] = one
        /\ \A q \in Panes : q # p => changed[q] = all[q]
    BY <1>2
  <1> HIDE DEF changed
  <1>4. \A q \in Panes : /\ changed[q].registered = all[q].registered
                         /\ changed[q].store = all[q].store
                         /\ changed[q].size = IF q = p THEN size ELSE all[q].size
    BY <1>2, <1>3
  <1> QED
    BY <1>3, <1>4 DEF changed, one

LEMMA StoreReplaced ==
    ASSUME NEW all \in [Panes -> Sources], NEW p \in Panes, NEW store \in Stores
    PROVE  LET changed == [all EXCEPT ![p].store = store]
           IN  /\ changed \in [Panes -> Sources]
               /\ changed[p].store = store
               /\ \A q \in Panes : /\ changed[q].registered = all[q].registered
                                   /\ changed[q].size = all[q].size
                                   /\ q # p => changed[q].store = all[q].store
  <1> DEFINE one == [all[p] EXCEPT !.store = store]
             changed == [all EXCEPT ![p] = one]
  <1>1. all[p] \in Sources
    OBVIOUS
  <1>2. /\ one \in Sources /\ one.store = store
        /\ one.registered = all[p].registered /\ one.size = all[p].size
    BY <1>1 DEF Sources
  <1> HIDE DEF one
  <1>3. /\ changed \in [Panes -> Sources] /\ changed[p] = one
        /\ \A q \in Panes : q # p => changed[q] = all[q]
    BY <1>2
  <1> HIDE DEF changed
  <1>4. /\ changed[p].store = store
        /\ \A q \in Panes : /\ changed[q].registered = all[q].registered
                            /\ changed[q].size = all[q].size
                            /\ q # p => changed[q].store = all[q].store
    BY <1>2, <1>3
  <1> QED
    BY <1>3, <1>4 DEF changed, one

\* A layout has one of two sizes.
LEMMA SizeType == \A l \in Nat : Size(l) \in 0..1
  BY DEF Size

\* The selection is a pane or none.
LEMMA SelectedType ==
    ASSUME TypeOK
    PROVE  Selected \in Panes \cup {NoPane}
  BY DEF TypeOK, Selected, SelectedAmong

\* A reselection sends subscriptions of panes.
LEMMA ReselectType ==
    ASSUME TypeOK, Reselect, front' \in Panes
    PROVE  commands' \in Seq([type : {"subscribe", "unsubscribe"}, pane : Panes])
  <1> DEFINE C == [type : {"subscribe", "unsubscribe"}, pane : Panes]
             tell(type, p) == IF p = NoPane THEN <<>> ELSE <<[type |-> type, pane |-> p]>>
             next == SelectedAmong(sources', front')
             old == IF Selected \in Registered' THEN Selected ELSE NoPane
  <1>1. next \in Panes \cup {NoPane} /\ old \in Panes \cup {NoPane}
    BY SelectedType DEF SelectedAmong
  <1>2. /\ tell("unsubscribe", old) \in Seq(C)
        /\ tell("subscribe", next) \in Seq(C)
    <2>1. ASSUME NEW type \in {"subscribe", "unsubscribe"}, NEW p \in Panes \cup {NoPane}
          PROVE  tell(type, p) \in Seq(C)
      <3>1. CASE p = NoPane
        <4>1. tell(type, p) = <<>>
          BY <3>1
        <4> HIDE DEF C
        <4> QED
          BY <4>1, EmptySeq
      <3>2. CASE p # NoPane
        <4>1. [type |-> type, pane |-> p] \in C
          BY <3>2
        <4>2. tell(type, p) = <<[type |-> type, pane |-> p]>>
          BY <3>2
        <4> HIDE DEF C, tell
        <4> QED
          BY <4>1, <4>2
      <3> QED
        BY <3>1, <3>2
    <2> HIDE DEF tell, next, old, C
    <2> QED
      BY <1>1, <2>1
  <1>3. commands \in Seq(C)
    BY DEF TypeOK
  <1>4. commands' = commands
        \/ commands' = commands \o tell("unsubscribe", old) \o tell("subscribe", next)
    BY DEF Reselect
  <1> HIDE DEF tell, next, old, C
  <1>5. commands \o tell("unsubscribe", old) \o tell("subscribe", next) \in Seq(C)
    BY <1>2, <1>3, ConcatProperties
  <1> QED
    BY <1>3, <1>4, <1>5 DEF C

\* What is reclaimed keeps its type.
LEMMA ReclaimType ==
    ASSUME TypeOK, NEW panes, Reclaim(panes)
    PROVE  /\ batch' \in [Panes -> Seq(Batches)]
           /\ reconcile' \in [Panes -> BOOLEAN]
  <1>1. batch \in [Panes -> Seq(Batches)] /\ reconcile \in [Panes -> BOOLEAN]
    BY DEF TypeOK
  <1> DEFINE dormant == {p \in panes : paint[p] = "none"}
             kept == [p \in Panes |-> IF p \in dormant THEN <<>> ELSE batch[p]]
             flagged == [p \in Panes |-> reconcile[p] /\ p \notin dormant]
  <1>2. batch' = kept /\ reconcile' = flagged
    BY DEF Reclaim
  <1>3. <<>> \in Seq(Batches)
    BY EmptySeq
  <1> HIDE DEF Batches, dormant
  <1>4. kept \in [Panes -> Seq(Batches)]
    BY <1>1, <1>3
  <1>5. flagged \in [Panes -> BOOLEAN]
    BY <1>1
  <1> QED
    BY <1>2, <1>4, <1>5

\* A release may disable the pane's provider.
LEMMA ReleasedType ==
    ASSUME TypeOK, NEW p \in Panes, Released(p)
    PROVE  /\ streaming' \in [Panes -> BOOLEAN]
           /\ disabled \subseteq disabled' /\ disabled' \subseteq Panes
  BY DEF Released, TypeOK

\* After a pane's turn comes another pane's, or a command.
LEMMA GoOnTurn ==
    ASSUME TypeOK, NEW p \in Panes, GoOn(p)
    PROVE  /\ worker' \in [step : {"metadata", "commands"}, pane : Panes]
           /\ worker'.step \notin {"take", "send"}
  <1>1. N \in Nat
    BY SessionAssumption
  <1>2. p < N => p + 1 \in Panes
    BY <1>1 DEF Panes
  <1>3. \/ p < N /\ worker' = [step |-> "metadata", pane |-> p + 1]
        \/ worker' = [step |-> "commands", pane |-> p]
    BY DEF GoOn, Go
  <1> QED
    BY <1>2, <1>3

\* At first nothing is connected.
LEMMA SessionInit == Init => SessionInv
  <1> SUFFICES ASSUME Init PROVE SessionInv
    OBVIOUS
  <1>1. 1 \in Panes
    BY SessionAssumption DEF Panes
  <1>2. EmptyStore \in Stores
    BY DEF EmptyStore, Stores
  <1>3. TypeOK
    BY <1>1, <1>2, SessionAssumption DEF TypeOK, Init, Idle, Batches, Absent
  <1>4. PipeInv
    BY DEF Init, PipeInv, DownInv, OrderInv, KnownInv, RemovedInv, BlobInv, TurnInv,
           Registered, Absent
  <1>5. Accounted(EmptyStore) /\ EmptyStore.bytes <= Cap
    BY <1>2, TotalOfNone, SessionAssumption DEF Accounted, EmptyStore, Distinct, ToSet
  <1>6. StoresInv
    BY <1>5 DEF Init, StoresInv, Absent
  <1>7. DisplayInv
    BY TotalOfNone, SessionAssumption DEF Init, DisplayInv
  <1> QED
    BY <1>3, <1>4, <1>6, <1>7 DEF SessionInv

\* The program, the renderer and the user.
LEMMA TerminalKeeps == SessionInv /\ Terminal => SessionInv'
  <1> SUFFICES ASSUME SessionInv, Terminal PROVE SessionInv'
    OBVIOUS
  <1> USE DEF SessionInv
  <1>1. events' = events + 1 /\ events < MaxEvents => events' \in 0..MaxEvents
    BY SessionAssumption DEF TypeOK
  <1>2. ASSUME NEW p \in Panes, NEW images \in SUBSET Images, Program(p, images)
        PROVE  SessionInv'
    <2>1. TypeOK'
      BY <1>1, <1>2 DEF Program, TypeOK, Event, paintVars, workerVars, linkVars, brokerVars
    <2>2. PipeInv'
      BY <1>2, PipeQuiet
         DEF Program, PipeInv, TurnInv, paintVars, workerVars, linkVars, brokerVars
    <2>3. StoresInv' /\ DisplayInv'
      BY <1>2, StoresQuiet DEF Program, brokerVars
    <2> QED
      BY <2>1, <2>2, <2>3
  <1>3. ASSUME NEW p \in Panes, UpdateViewport(p) PROVE SessionInv'
    <2>1. TypeOK'
      BY <1>1, <1>3
         DEF UpdateViewport, TypeOK, Event, paintVars, workerVars, linkVars, brokerVars
    <2>2. PipeInv'
      BY <1>3, PipeQuiet
         DEF UpdateViewport, PipeInv, TurnInv, paintVars, workerVars, linkVars, brokerVars
    <2>3. StoresInv' /\ DisplayInv'
      BY <1>3, StoresQuiet DEF UpdateViewport, brokerVars
    <2> QED
      BY <2>1, <2>2, <2>3
  <1>4. ASSUME NEW p \in Panes, Paint(p) PROVE SessionInv'
    <2>1. TypeOK'
      <3>1. [layout |-> layout[p], images |-> screen[p]] \in Batches
        BY DEF TypeOK, Batches
      <3> DEFINE new == [layout |-> layout[p], images |-> screen[p]]
      <3>2. batch' \in [Panes -> Seq(Batches)]
        <4>1. \/ batch' = [batch EXCEPT ![p] = <<new>>]
              \/ batch' = batch
          BY <1>4 DEF Paint
        <4>2. batch \in [Panes -> Seq(Batches)]
          BY DEF TypeOK
        <4> HIDE DEF new, Batches
        <4>3. <<new>> \in Seq(Batches)
          BY <3>1 DEF new
        <4> QED
          BY <4>1, <4>2, <4>3
      <3>3. paint' \in [Panes -> {"none", "queued", "dropped"}]
        <4>1. \/ paint' = [paint EXCEPT ![p] = "queued"]
              \/ paint' = [paint EXCEPT ![p] = "dropped"]
          BY <1>4 DEF Paint
        <4>2. paint \in [Panes -> {"none", "queued", "dropped"}]
          BY DEF TypeOK
        <4> QED
          BY <4>1, <4>2
      <3> QED
        BY <1>4, <3>2, <3>3 DEF Paint, TypeOK, workerVars, linkVars, brokerVars
    <2>2. PipeInv'
      BY <1>4, PipeQuiet DEF Paint, PipeInv, TurnInv, workerVars, linkVars, brokerVars
    <2>3. StoresInv' /\ DisplayInv'
      BY <1>4, StoresQuiet DEF Paint, brokerVars
    <2> QED
      BY <2>1, <2>2, <2>3
  <1>7. ASSUME NEW p \in Panes, EndPaint(p) PROVE SessionInv'
    <2>1. TypeOK'
      BY <1>7 DEF EndPaint, TypeOK, workerVars, linkVars, brokerVars
    <2>2. PipeInv'
      BY <1>7, PipeQuiet DEF EndPaint, PipeInv, TurnInv, workerVars, linkVars, brokerVars
    <2>3. StoresInv' /\ DisplayInv'
      BY <1>7, StoresQuiet DEF EndPaint, brokerVars
    <2> QED
      BY <2>1, <2>2, <2>3
  <1>8. ASSUME NEW p \in Panes, Close(p) PROVE SessionInv'
    <2>1. TypeOK'
      <3>1. events' \in 0..MaxEvents
        BY <1>8, SessionAssumption DEF Close, Event, TypeOK
      <3>2. disabled' \subseteq Panes /\ streaming' \in [Panes -> BOOLEAN]
        BY <1>8 DEF Close, TypeOK
      <3> QED
        BY <1>8, <3>1, <3>2 DEF Close, TypeOK, workerVars, linkVars, brokerVars
    <2>2. PipeInv'
      BY <1>8, PipeQuiet DEF Close, PipeInv, TurnInv, workerVars, linkVars, brokerVars
    <2>3. StoresInv' /\ DisplayInv'
      BY <1>8, StoresQuiet DEF Close, brokerVars
    <2> QED
      BY <2>1, <2>2, <2>3
  <1>5. ASSUME NEW p \in Panes, Switch(p) PROVE SessionInv'
    <2>1. TypeOK'
      <3>1. commands' \in Seq([type : {"subscribe", "unsubscribe"}, pane : Panes])
        BY <1>5, ReselectType DEF Switch
      <3>2. shown' \in [pane : Panes \cup {NoPane}, size : 0..1, images : SUBSET Images,
                        kept : BOOLEAN]
        BY <1>5 DEF Switch, TypeOK
      <3> QED
        BY <1>1, <1>5, <3>1, <3>2 DEF Switch, TypeOK, Event, paneVars, paintVars, workerVars
    <2>2. PipeInv'
      BY <1>5, PipeQuiet DEF Switch, PipeInv, TurnInv, paneVars, paintVars, workerVars
    <2>3. shown' = [shown EXCEPT !.kept = FALSE] /\ sources' = sources
      BY <1>5 DEF Switch
    <2>4. ~shown'.kept /\ shown'.images = shown.images
      BY <2>3 DEF TypeOK
    <2>5. StoresInv' /\ DisplayInv'
      BY <2>3, <2>4 DEF StoresInv, DisplayInv
    <2> QED
      BY <2>1, <2>2, <2>5
  <1>6. Busy \subseteq Panes
    BY SessionAssumption
  <1> QED
    BY <1>2, <1>3, <1>4, <1>5, <1>6, <1>7, <1>8 DEF Terminal

\* A pane is announced before anything else of it is written.
LEMMA MetadataKeeps ==
    ASSUME SessionInv, NEW p \in Panes, Metadata(p)
    PROVE  SessionInv'
  <1> USE DEF SessionInv
  <1>1. /\ link = "up" /\ link' = link /\ sources' = sources /\ front' = front
        /\ shown' = shown /\ disabled' = disabled /\ p \notin disabled
        /\ announced' = [announced EXCEPT ![p] = TRUE]
    BY DEF Metadata, brokerVars
  <1>2. worker' = [step |-> "take", pane |-> p] \/ GoOn(p)
    BY DEF Metadata, Go
  <1>3. announced \in [Panes -> BOOLEAN] /\ layout[p] \in Nat
    BY DEF TypeOK
  <1>4. TurnInv'
    BY <1>1, <1>2, <1>3, GoOnTurn DEF TurnInv
  <1> DEFINE packet == Packet(IF announced[p] THEN "updated" ELSE "added", p,
                              Size(layout[p]), {})
  <1>5. /\ packet \in Packets /\ packet.pane = p /\ packet.type # "blob"
        /\ packet.type = "added" <=> ~announced[p]
        /\ packet.type # "removed"
    BY <1>3, SizeType DEF Packet, Packets
  <1>6. \/ announced[p] /\ pipe' = pipe
        \/ pipe' = Append(pipe, packet)
    BY DEF Metadata
  <1> HIDE DEF packet
  <1>7. pipe \in Seq(Packets) /\ pipe' \in Seq(Packets)
    <2>1. pipe \in Seq(Packets)
      BY DEF TypeOK
    <2>2. Append(pipe, packet) \in Seq(Packets)
      BY <1>5, <2>1, AppendProperties
    <2> QED
      BY <1>6, <2>1, <2>2
  <1>8. PipeInv'
    <2>1. CASE announced[p] /\ pipe' = pipe
      <3>1. announced' = announced
        BY <1>1, <1>3, <2>1
      <3> QED
        BY <1>1, <1>4, <2>1, <3>1, PipeQuiet
    <2>2. CASE pipe' = Append(pipe, packet)
      <3> DEFINE new == <<packet>>
      <3>1. pipe' = pipe \o new
        BY <1>5, <1>7, <2>2, AppendIsConcat
      <3>2. /\ new \in Seq(Packets) /\ Len(new) = 1 /\ new[1] = packet
            /\ \A i \in 1..Len(new) : new[i] = packet
        BY <1>5
      <3> HIDE DEF new
      <3>3. CASE announced[p]
        <4>1. announced' = announced
          BY <1>1, <1>3, <3>3
        <4>2. \A i \in 1..Len(new) :
                 /\ new[i].pane = p /\ new[i].type # "blob"
                 /\ new[i].type \notin {"added", "removed"}
          BY <1>5, <3>2, <3>3
        <4> QED
          BY <1>1, <1>4, <3>1, <3>2, <3>3, <4>1, <4>2, PipeWritten
      <3>4. CASE ~announced[p]
        <4>1. \A i \in 1..Len(new) : new[i].pane = p /\ new[i].type # "blob"
          BY <1>5, <3>2
        <4>2. new[1].type = "added"
          BY <1>5, <3>2, <3>4
        <4> QED
          BY <1>1, <1>4, <3>1, <3>2, <3>4, <4>1, <4>2, PipeWritten
      <3> QED
        BY <3>3, <3>4
    <2> QED
      BY <1>6, <2>1, <2>2
  <1>9. TypeOK'
    <2>1. worker' \in [step : {"away", "metadata", "take", "send", "commands"}, pane : Panes]
      BY <1>2, GoOnTurn
    <2>2. metadata' \in [Panes -> BOOLEAN]
      BY DEF Metadata, TypeOK
    <2>3. batch' \in [Panes -> Seq(Batches)] /\ reconcile' \in [Panes -> BOOLEAN]
      BY ReclaimType DEF Metadata
    <2> QED
      BY <1>1, <1>3, <1>7, <2>1, <2>2, <2>3 DEF Metadata, TypeOK, brokerVars
  <1>10. StoresInv' /\ DisplayInv'
    BY <1>1, StoresQuiet
  <1> QED
    BY <1>8, <1>9, <1>10

\* The removal of an announced pane is the last that is written of it.
LEMMA WithdrawKeeps ==
    ASSUME SessionInv, NEW p \in Panes, Withdraw(p)
    PROVE  SessionInv'
  <1> USE DEF SessionInv
  <1> DEFINE packet == Packet("removed", p, 0, {})
             new == <<packet>>
  <1>1. /\ link = "up" /\ link' = link /\ sources' = sources /\ front' = front
        /\ shown' = shown /\ disabled' = disabled /\ p \in disabled
        /\ announced' = [announced EXCEPT ![p] = FALSE]
        /\ pipe' = IF announced[p] THEN Append(pipe, packet) ELSE pipe
        /\ GoOn(p)
    BY DEF Withdraw, brokerVars
  <1>2. pipe \in Seq(Packets) /\ announced \in [Panes -> BOOLEAN]
    BY DEF TypeOK
  <1>3. packet \in Packets /\ packet.pane = p /\ packet.type = "removed"
    BY DEF Packet, Packets
  <1>4. TurnInv'
    BY <1>1, GoOnTurn DEF TurnInv
  <1> HIDE DEF packet
  <1>5. /\ Append(pipe, packet) = pipe \o new /\ Append(pipe, packet) \in Seq(Packets)
        /\ new \in Seq(Packets) /\ Len(new) = 1 /\ new[1] = packet
        /\ \A i \in 1..Len(new) : new[i] = packet
    BY <1>2, <1>3, AppendIsConcat, AppendProperties
  <1> HIDE DEF new
  <1>6. PipeInv'
    <2>1. CASE announced[p]
      <3>1. \A i \in 1..Len(new) : new[i].pane = p /\ new[i].type # "blob"
        BY <1>3, <1>5
      <3>2. pipe' = pipe \o new /\ new[1].type = "removed"
        BY <1>1, <1>3, <1>5, <2>1
      <3> QED
        BY <1>1, <1>4, <1>5, <2>1, <3>1, <3>2, PipeWritten
    <2>2. CASE ~announced[p]
      <3>1. announced' = announced /\ pipe' = pipe
        BY <1>1, <1>2, <2>2
      <3> QED
        BY <1>1, <1>4, <3>1, PipeQuiet
    <2> QED
      BY <2>1, <2>2
  <1>7. TypeOK'
    <2>1. worker' \in [step : {"away", "metadata", "take", "send", "commands"}, pane : Panes]
      BY <1>1, GoOnTurn
    <2>2. batch' \in [Panes -> Seq(Batches)] /\ reconcile' \in [Panes -> BOOLEAN]
      BY ReclaimType DEF Withdraw
    <2>3. pipe' \in Seq(Packets)
      BY <1>1, <1>2, <1>5
    <2> QED
      BY <1>1, <1>2, <2>1, <2>2, <2>3 DEF Withdraw, TypeOK, brokerVars
  <1>8. StoresInv' /\ DisplayInv'
    BY <1>1, StoresQuiet
  <1> QED
    BY <1>6, <1>7, <1>8

\* A batch is taken of an announced pane, and writes nothing yet.
LEMMA TakeKeeps ==
    ASSUME SessionInv, NEW p \in Panes, Take(p)
    PROVE  SessionInv'
  <1> USE DEF SessionInv
  <1>1. /\ link = "up" /\ link' = link /\ pipe' = pipe /\ sources' = sources
        /\ front' = front /\ shown' = shown /\ announced' = announced
        /\ worker = [step |-> "take", pane |-> p]
    BY DEF Take, At, linkVars, brokerVars
  <1>2. \/ worker' = [step |-> "send", pane |-> p] /\ batch[p] # <<>> /\ taken' = batch[p][1]
        \/ GoOn(p) /\ taken' = taken
    BY DEF Take, Go
  <1>11. /\ streaming' \in [Panes -> BOOLEAN]
         /\ disabled \subseteq disabled' /\ disabled' \subseteq Panes
    <2>1. Released(p) \/ (streaming' = streaming /\ disabled' = disabled)
      BY DEF Take
    <2> QED
      BY <2>1, ReleasedType DEF TypeOK
  <1>3. announced[p]
    BY <1>1 DEF PipeInv, TurnInv
  <1>4. TurnInv'
    BY <1>1, <1>2, <1>3, GoOnTurn DEF TurnInv
  <1>5. batch[p] \in Seq(Batches)
    BY DEF TypeOK
  <1>6. batch[p] # <<>> => batch[p][1] \in Batches
    BY <1>5, EmptySeq, ElementOfSeq
  <1>7. taken' \in Batches
    BY <1>2, <1>6 DEF TypeOK
  <1>8. worker' \in [step : {"away", "metadata", "take", "send", "commands"}, pane : Panes]
    BY <1>2, GoOnTurn
  <1>9. batch' \in [Panes -> Seq(Batches)]
    BY EmptySeq DEF Take, TypeOK
  <1>12. reconcile' \in [Panes -> BOOLEAN] /\ dirty' \in [Panes -> BOOLEAN]
    BY DEF Take, TypeOK
  <1>10. TypeOK'
    BY <1>7, <1>8, <1>9, <1>11, <1>12 DEF Take, TypeOK, linkVars, brokerVars
  <1> QED
    BY <1>1, <1>4, <1>10, <1>11, PipeQuiet, StoresQuiet

\* The images of the batch that were not announced over this connection.
Fresh(p) == {i \in taken.images : <<p, i>> \notin sent}

\* A batch is written as the blobs that are new, each once, and the frame.
Written(p, blobs, frame) ==
    /\ pipe' = pipe \o (blobs \o <<frame>>)
    /\ sent' = sent \cup {<<p, i>> : i \in Fresh(p)}
    /\ frame.type = "frame" /\ frame.pane = p
    /\ frame.size = Size(taken.layout) /\ frame.images = taken.images
    /\ \A k \in 1..Len(blobs) :
          /\ blobs[k].type = "blob" /\ blobs[k].pane = p
          /\ \E i \in Fresh(p) : blobs[k].images = {i}
    /\ \A i \in Fresh(p) : \E k \in 1..Len(blobs) : blobs[k].images = {i}

\* Send writes a batch in that form, or nothing.
LEMMA SendWrites ==
    ASSUME TypeOK, NEW p \in Panes, Send(p)
    PROVE  \/ pipe' = pipe /\ sent' = sent
           \/ \E blobs \in Seq(Packets), frame \in Packets : Written(p, blobs, frame)
  <1> DEFINE fresh == Fresh(p)
             blobs == [k \in 1..Cardinality(fresh) |->
                          Packet("blob", p, 0, {SetToSeq(fresh)[k]})]
             frame == Packet("frame", p, Size(taken.layout), taken.images)
  <1>1. taken.layout \in Nat /\ taken.images \in SUBSET Images /\ pipe \in Seq(Packets)
    BY DEF TypeOK, Batches
  <1>2. \/ pipe' = pipe \o blobs \o <<frame>> /\ sent' = sent \cup {<<p, i>> : i \in fresh}
        \/ pipe' = pipe /\ sent' = sent
    BY DEF Send, Fresh
  <1>3. fresh \in SUBSET Images
    BY <1>1 DEF Fresh
  <1>4. /\ frame \in Packets /\ frame.pane = p /\ frame.type = "frame"
        /\ frame.size = Size(taken.layout) /\ frame.images = taken.images
    BY <1>1, SizeType DEF Packet, Packets
  <1> HIDE DEF fresh, frame
  <1>5. /\ Cardinality(fresh) \in Nat
        /\ SetToSeq(fresh) \in [1..Cardinality(fresh) -> fresh]
        /\ \A x \in fresh : \E k \in 1..Cardinality(fresh) : SetToSeq(fresh)[k] = x
    <2>1. IsFiniteSet(fresh)
      BY <1>3, SessionAssumption, FS_Subset
    <2> QED
      BY <2>1, SetToSeqOf
  <1>6. ASSUME NEW k \in 1..Cardinality(fresh)
        PROVE  /\ blobs[k] \in Packets
               /\ blobs[k].pane = p /\ blobs[k].type = "blob"
               /\ blobs[k].images = {SetToSeq(fresh)[k]}
    <2> DEFINE images == {SetToSeq(fresh)[k]}
    <2>1. SetToSeq(fresh)[k] \in fresh
      BY <1>5
    <2>2. images \in SUBSET Images
      BY <1>3, <2>1
    <2>3. blobs[k] = Packet("blob", p, 0, images)
      OBVIOUS
    <2>4. Packet("blob", p, 0, images) \in Packets
      <3> HIDE DEF images
      <3> QED
        BY <2>2 DEF Packet, Packets
    <2>5. LET packet == Packet("blob", p, 0, images)
          IN  packet.pane = p /\ packet.type = "blob" /\ packet.images = images
      BY DEF Packet
    <2> HIDE DEF blobs
    <2> QED
      BY <2>3, <2>4, <2>5
  <1>7. blobs \in [1..Cardinality(fresh) -> Packets]
    <2>1. DOMAIN blobs = 1..Cardinality(fresh)
      OBVIOUS
    <2>2. blobs = [k \in 1..Cardinality(fresh) |-> blobs[k]]
      OBVIOUS
    <2> HIDE DEF blobs
    <2> QED
      BY <1>6, <2>1, <2>2
  <1> HIDE DEF blobs
  <1>8. blobs \in Seq(Packets)
    <2> HIDE DEF Packets
    <2> QED
      BY <1>5, <1>7
  <1>9. Len(blobs) = Cardinality(fresh)
    BY <1>5, <1>7, <1>8, LenProperties
  <1>10. (pipe \o blobs) \o <<frame>> = pipe \o (blobs \o <<frame>>)
    <2> DEFINE last == <<frame>>
    <2>1. last \in Seq(Packets)
      BY <1>4
    <2> HIDE DEF last
    <2>2. (pipe \o blobs) \o last = pipe \o (blobs \o last)
      BY <1>1, <1>8, <2>1, ConcatAssociative
    <2> QED
      BY <2>2 DEF last
  <1>11. CASE pipe' = pipe \o blobs \o <<frame>> /\ sent' = sent \cup {<<p, i>> : i \in fresh}
    <2>1. \A k \in 1..Len(blobs) :
             /\ blobs[k].type = "blob" /\ blobs[k].pane = p
             /\ \E i \in fresh : blobs[k].images = {i}
      BY <1>5, <1>6, <1>9
    <2>2. \A i \in fresh : \E k \in 1..Len(blobs) : blobs[k].images = {i}
      BY <1>5, <1>6, <1>9
    <2>3. Written(p, blobs, frame)
      BY <1>4, <1>10, <1>11, <2>1, <2>2 DEF Written, fresh
    <2> QED
      BY <1>4, <1>8, <2>3
  <1> QED
    BY <1>2, <1>11

\* The frame is the last packet of its batch.
LEMMA WrittenLast ==
    ASSUME NEW blobs \in Seq(Packets), NEW frame \in Packets
    PROVE  LET new == blobs \o <<frame>>
           IN  /\ new \in Seq(Packets) /\ Len(blobs) \in Nat
               /\ Len(new) = Len(blobs) + 1
               /\ \A i \in 1..Len(new) : new[i] = IF i <= Len(blobs) THEN blobs[i] ELSE frame
               /\ \A i \in 1..Len(new) : i <= Len(blobs) => i \in 1..Len(blobs)
  <1> DEFINE last == <<frame>>
             new == blobs \o last
  <1>1. last \in Seq(Packets) /\ Len(last) = 1 /\ last[1] = frame
    OBVIOUS
  <1> HIDE DEF last
  <1>2. /\ new \in Seq(Packets) /\ Len(blobs) \in Nat
        /\ Len(new) = Len(blobs) + 1
        /\ \A i \in 1..Len(blobs) + 1 : new[i] = IF i <= Len(blobs) THEN blobs[i]
                                                 ELSE last[i - Len(blobs)]
    <2>1. /\ new \in Seq(Packets) /\ Len(new) = Len(blobs) + Len(last)
          /\ \A i \in 1..Len(blobs) + Len(last) :
                new[i] = IF i <= Len(blobs) THEN blobs[i] ELSE last[i - Len(blobs)]
      BY <1>1, ConcatProperties
    <2>2. Len(blobs) \in Nat
      BY LenProperties
    <2> HIDE DEF new
    <2> QED
      BY <1>1, <2>1, <2>2
  <1>3. ASSUME NEW i \in 1..Len(new), ~(i <= Len(blobs)) PROVE i - Len(blobs) = 1
    BY <1>2, <1>3
  <1> HIDE DEF new
  <1>4. /\ \A i \in 1..Len(new) : new[i] = IF i <= Len(blobs) THEN blobs[i] ELSE frame
        /\ \A i \in 1..Len(new) : i <= Len(blobs) => i \in 1..Len(blobs)
    BY <1>1, <1>2, <1>3
  <1> QED
    BY <1>2, <1>4 DEF new, last

\* What is written of a batch belongs to an announced pane.
LEMMA SendKeeps ==
    ASSUME SessionInv, NEW p \in Panes, Send(p)
    PROVE  SessionInv'
  <1> USE DEF SessionInv
  <1>1. /\ link = "up" /\ link' = link /\ sources' = sources /\ front' = front
        /\ shown' = shown /\ announced' = announced
        /\ worker = [step |-> "send", pane |-> p] /\ GoOn(p)
    BY DEF Send, At, brokerVars
  <1>6. /\ streaming' \in [Panes -> BOOLEAN]
        /\ disabled \subseteq disabled' /\ disabled' \subseteq Panes
    BY ReleasedType DEF Send
  <1>2. announced[p]
    BY <1>1 DEF PipeInv, TurnInv
  <1>3. TurnInv'
    BY <1>1, GoOnTurn DEF TurnInv
  <1>4. pipe' \in Seq(Packets) /\ sent' \subseteq Panes \X Images /\ PipeInv'
    <2>1. CASE pipe' = pipe /\ sent' = sent
      BY <1>1, <1>3, <1>6, <2>1, PipeQuiet DEF TypeOK
    <2>2. CASE \E blobs \in Seq(Packets), frame \in Packets : Written(p, blobs, frame)
      <3>1. PICK blobs \in Seq(Packets), frame \in Packets : Written(p, blobs, frame)
        BY <2>2
      <3> DEFINE new == blobs \o <<frame>>
      <3>2. /\ new \in Seq(Packets)
            /\ \A i \in 1..Len(new) : new[i] = IF i <= Len(blobs) THEN blobs[i] ELSE frame
            /\ \A i \in 1..Len(new) : i <= Len(blobs) => i \in 1..Len(blobs)
        BY WrittenLast
      <3>3. pipe' = pipe \o new
        BY <3>1 DEF Written
      <3> HIDE DEF new
      <3>4. \A i \in 1..Len(new) : /\ new[i].pane = p
                                   /\ new[i].type \notin {"added", "removed"}
                                   /\ new[i].type = "blob" => new[i].images # {}
        <4> TAKE i \in 1..Len(new)
        <4>1. CASE i <= Len(blobs)
          <5>1. i \in 1..Len(blobs) /\ new[i] = blobs[i]
            BY <3>2, <4>1
          <5> QED
            BY <3>1, <5>1 DEF Written
        <4>2. CASE ~(i <= Len(blobs))
          <5>1. new[i] = frame
            BY <3>2, <4>2
          <5> QED
            BY <3>1, <5>1 DEF Written
        <4> QED
          BY <4>1, <4>2
      <3>5. pipe \o new \in Seq(Packets)
        BY <3>2, ConcatProperties DEF TypeOK
      <3>6. PipeInv'
        BY <1>1, <1>2, <1>3, <1>6, <3>2, <3>3, <3>4, PipeWritten
      <3>7. sent' \subseteq Panes \X Images
        <4>1. sent' = sent \cup {<<p, i>> : i \in Fresh(p)}
          BY <3>1 DEF Written
        <4>2. sent \subseteq Panes \X Images
          BY DEF TypeOK
        <4>3. Fresh(p) \subseteq Images
          BY DEF Fresh, TypeOK, Batches
        <4> QED
          BY <4>1, <4>2, <4>3
      <3> QED
        BY <3>3, <3>5, <3>6, <3>7
    <2> QED
      BY <2>1, <2>2, SendWrites
  <1>5. TypeOK'
    <2>1. worker' \in [step : {"away", "metadata", "take", "send", "commands"}, pane : Panes]
      BY <1>1, GoOnTurn
    <2>2. taken' \in Batches
      BY DEF Send, Idle, Batches
    <2> QED
      BY <1>1, <1>4, <1>6, <2>1, <2>2 DEF Send, TypeOK, brokerVars
  <1> QED
    BY <1>1, <1>4, <1>5, StoresQuiet

\* The adapter's worker: a connection, its end, a command, or a pane's turn.
LEMMA WorkerKeeps == SessionInv /\ Worker => SessionInv'
  <1> SUFFICES ASSUME SessionInv, Worker PROVE SessionInv'
    OBVIOUS
  <1>1. 1 \in Panes
    BY SessionAssumption DEF Panes
  <1>2. CASE Connect
    <2> USE DEF SessionInv
    <2>1. TypeOK'
      BY <1>1, <1>2 DEF Connect, Go, TypeOK, paneVars, paintVars, brokerVars
    <2>2. pipe = <<>> /\ Registered = {} /\ pipe' = pipe /\ Registered' = Registered
      BY <1>2 DEF Connect, PipeInv, DownInv, brokerVars, Registered
    <2>3. Len(pipe') = 0
      BY <2>2, EmptySeq
    <2>4. PipeInv'
      BY <1>2, <2>2, <2>3
         DEF Connect, Go, PipeInv, DownInv, OrderInv, KnownInv, RemovedInv, BlobInv, TurnInv
    <2> QED
      BY <1>2, <2>1, <2>4, StoresQuiet DEF Connect, brokerVars
  <1>3. CASE HangUp
    <2> USE DEF SessionInv
    <2>1. TypeOK'
      <3>1. batch' \in [Panes -> Seq(Batches)] /\ reconcile' \in [Panes -> BOOLEAN]
        BY <1>3, ReclaimType DEF HangUp
      <3> QED
        BY <1>1, <1>3, <3>1 DEF HangUp, Go, TypeOK, brokerVars
    <2>2. pipe = <<>> /\ Registered = {} /\ pipe' = pipe /\ Registered' = Registered
      BY <1>3 DEF HangUp, PipeInv, DownInv, brokerVars, Registered
    <2>3. Len(pipe') = 0
      BY <2>2, EmptySeq
    <2>4. PipeInv'
      BY <1>3, <2>2, <2>3
         DEF HangUp, Go, PipeInv, DownInv, OrderInv, KnownInv, RemovedInv, BlobInv, TurnInv
    <2> QED
      BY <1>3, <2>1, <2>4, StoresQuiet DEF HangUp, brokerVars
  <1>4. CASE Command
    <2> USE DEF SessionInv
    <2> DEFINE C == [type : {"subscribe", "unsubscribe"}, pane : Panes]
    <2>1. commands \in Seq(C)
      BY DEF TypeOK
    <2>2. commands # <<>> => Tail(commands) \in Seq(C) /\ Head(commands).pane \in Panes
      <3>1. commands # <<>> => Tail(commands) \in Seq(C) /\ Head(commands) \in C
        BY <2>1, HeadTailProperties
      <3> QED
        BY <3>1
    <2>3. commands' \in Seq(C)
      BY <1>4, <2>1, <2>2 DEF Command
    <2>4. /\ streaming' \in [Panes -> BOOLEAN] /\ dirty' \in [Panes -> BOOLEAN]
          /\ reconcile' \in [Panes -> BOOLEAN]
      BY <1>4, <2>2 DEF Command, TypeOK
    <2>6. worker' \in [step : {"away", "metadata", "take", "send", "commands"}, pane : Panes]
      BY <1>1, <1>4 DEF Command, Go
    <2>7. TypeOK'
      BY <1>4, <2>3, <2>4, <2>6 DEF Command, TypeOK, brokerVars
    <2>8. PipeInv'
      BY <1>4, PipeQuiet DEF Command, Go, PipeInv, TurnInv, brokerVars
    <2> QED
      BY <1>4, <2>7, <2>8, StoresQuiet DEF Command, brokerVars
  <1> QED
    BY <1>2, <1>3, <1>4, WithdrawKeeps, MetadataKeeps, TakeKeeps, SendKeeps DEF Worker

\* What the broker reads: an announcement is of a pane it does not know, anything
\* else of one it does.
LEMMA HeadOfPipe ==
    ASSUME TypeOK, PipeInv, pipe # <<>>
    PROVE  /\ Head(pipe) \in Packets /\ Tail(pipe) \in Seq(Packets)
           /\ Head(pipe).type = "added" => Head(pipe).pane \notin Registered
           /\ Head(pipe).type # "added" => Head(pipe).pane \in Registered
           /\ Head(pipe).type = "blob" => Head(pipe).images # {}
  <1>1. pipe \in Seq(Packets)
    BY DEF TypeOK
  <1>2. /\ Head(pipe) = pipe[1] /\ Head(pipe) \in Packets /\ Tail(pipe) \in Seq(Packets)
        /\ 1 \in 1..Len(pipe) /\ Len(pipe) \in Nat
    BY <1>1, HeadTailProperties, EmptySeq
  <1>3. \A j \in 1..Len(pipe) : ~(j < 1)
    BY <1>2
  <1> QED
    BY <1>2, <1>3 DEF PipeInv, OrderInv, BlobInv

\* A pane is registered with an empty store; it is not the one on display.
LEMMA SourceAddedKeeps == SessionInv /\ SourceAdded => SessionInv'
  <1> SUFFICES ASSUME SessionInv, SourceAdded PROVE SessionInv'
    OBVIOUS
  <1> USE DEF SessionInv
  <1> DEFINE p == Head(pipe).pane
             source == [registered |-> TRUE, size |-> Head(pipe).size, store |-> EmptyStore]
  <1>1. /\ link = "up" /\ pipe # <<>> /\ Head(pipe).type = "added"
        /\ pipe' = Tail(pipe) /\ link' = link
        /\ announced' = announced /\ worker' = worker /\ disabled' = disabled
        /\ shown' = shown /\ front' = front
        /\ sources' = [sources EXCEPT ![p] = source]
    BY DEF SourceAdded, Arrives, Consumed, Head1, workerVars, paneVars, paintVars
  <1>2. /\ p \in Panes /\ Head(pipe).size \in 0..1 /\ Tail(pipe) \in Seq(Packets)
        /\ p \notin Registered
    BY <1>1, HeadOfPipe DEF Packets
  <1>3. EmptyStore \in Stores
    BY DEF EmptyStore, Stores
  <1>4. source \in [registered : BOOLEAN, size : 0..1, store : Stores] /\ source.registered
        /\ source.store = EmptyStore
    BY <1>2, <1>3
  <1>5. sources \in [Panes -> [registered : BOOLEAN, size : 0..1, store : Stores]]
    BY DEF TypeOK
  <1> HIDE DEF source
  <1>6. /\ sources' \in [Panes -> [registered : BOOLEAN, size : 0..1, store : Stores]]
        /\ sources'[p] = source
        /\ \A q \in Panes : q # p => sources'[q] = sources[q]
    BY <1>1, <1>2, <1>4, <1>5
  <1>7. commands' \in Seq([type : {"subscribe", "unsubscribe"}, pane : Panes])
    BY <1>1, ReselectType DEF SourceAdded, TypeOK
  <1>8. TypeOK'
    BY <1>1, <1>2, <1>6, <1>7 DEF SourceAdded, TypeOK, paneVars, paintVars, workerVars
  <1>9. Registered' = Registered \cup {p}
    BY <1>2, <1>4, <1>6 DEF Registered
  <1>10. PipeInv'
    BY <1>1, <1>9, PipeRead
  <1>11. Accounted(EmptyStore) /\ EmptyStore.bytes <= Cap
    BY <1>3, TotalOfNone, SessionAssumption DEF Accounted, EmptyStore, Distinct, ToSet
  <1>12. StoresInv'
    BY <1>4, <1>6, <1>11 DEF StoresInv
  \* The pane on display is registered, so it is another one.
  <1>13. DisplayInv'
    <2>1. CASE shown.kept
      <3>1. shown.pane \in Panes /\ shown.pane = Selected
        BY <2>1 DEF DisplayInv
      <3>2. shown.pane = front /\ shown.pane \in Registered
        BY <3>1, SessionAssumption DEF Selected, SelectedAmong, Registered, NoPane, Panes
      <3>3. shown.pane # p
        BY <1>2, <3>2
      <3>4. sources'[shown.pane] = sources[shown.pane]
        BY <1>6, <3>1, <3>3
      <3>5. Selected' = Selected
        BY <1>1, <3>2, <3>4 DEF Selected, SelectedAmong
      <3> QED
        BY <1>1, <2>1, <3>4, <3>5 DEF DisplayInv
    <2>2. CASE ~shown.kept
      BY <1>1, <2>2 DEF DisplayInv
    <2> QED
      BY <2>1, <2>2
  <1> QED
    BY <1>8, <1>10, <1>12, <1>13

\* A pane that is withdrawn goes with its store; if it was on display, it is not
\* selected any more.
LEMMA SourceRemovedKeeps == SessionInv /\ SourceRemoved => SessionInv'
  <1> SUFFICES ASSUME SessionInv, SourceRemoved PROVE SessionInv'
    OBVIOUS
  <1> USE DEF SessionInv
  <1> DEFINE p == Head(pipe).pane
  <1>1. /\ link = "up" /\ pipe # <<>> /\ Head(pipe).type = "removed"
        /\ pipe' = Tail(pipe) /\ link' = link
        /\ announced' = announced /\ worker' = worker /\ disabled' = disabled
        /\ front' = front
        /\ sources' = [sources EXCEPT ![p] = Absent]
        /\ shown' = [shown EXCEPT !.kept = @ /\ p # Selected]
    BY DEF SourceRemoved, Arrives, Consumed, Head1, workerVars, paneVars, paintVars
  <1>2. p \in Panes /\ Tail(pipe) \in Seq(Packets)
    BY <1>1, HeadOfPipe DEF Packets
  <1>3. EmptyStore \in Stores
    BY DEF EmptyStore, Stores
  <1>4. /\ Absent \in [registered : BOOLEAN, size : 0..1, store : Stores]
        /\ ~Absent.registered /\ Absent.store = EmptyStore
    BY <1>3 DEF Absent
  <1>5. sources \in [Panes -> [registered : BOOLEAN, size : 0..1, store : Stores]]
    BY DEF TypeOK
  <1>6. /\ sources' \in [Panes -> [registered : BOOLEAN, size : 0..1, store : Stores]]
        /\ sources'[p] = Absent
        /\ \A q \in Panes : q # p => sources'[q] = sources[q]
    BY <1>1, <1>2, <1>4, <1>5
  <1>7. /\ shown'.pane = shown.pane /\ shown'.images = shown.images
        /\ shown'.kept <=> shown.kept /\ p # Selected
        /\ shown' \in [pane : Panes \cup {NoPane}, size : 0..1, images : SUBSET Images,
                       kept : BOOLEAN]
    BY <1>1 DEF TypeOK
  <1>8. TypeOK'
    <2>1. commands' \in Seq([type : {"subscribe", "unsubscribe"}, pane : Panes])
      BY <1>1, ReselectType DEF SourceRemoved, TypeOK
    <2> QED
      BY <1>1, <1>2, <1>6, <1>7, <2>1
         DEF SourceRemoved, TypeOK, paneVars, paintVars, workerVars
  <1>9. Registered' = Registered \ {p}
    BY <1>2, <1>4, <1>6 DEF Registered
  <1>10. PipeInv'
    BY <1>1, <1>9, PipeRead
  <1>11. Accounted(EmptyStore) /\ EmptyStore.bytes <= Cap
    BY <1>3, TotalOfNone, SessionAssumption DEF Accounted, EmptyStore, Distinct, ToSet
  <1>12. StoresInv'
    BY <1>4, <1>6, <1>11 DEF StoresInv
  <1>13. DisplayInv'
    <2>1. CASE shown'.kept
      <3>1. shown.kept /\ shown.pane \in Panes /\ shown.pane = Selected /\ shown.pane # p
        BY <1>7, <2>1 DEF DisplayInv
      <3>2. shown.pane = front /\ sources'[front] = sources[front]
        BY <1>6, <3>1, SessionAssumption DEF Selected, SelectedAmong, NoPane, Panes
      <3>3. Selected' = Selected
        BY <1>1, <3>2 DEF Selected, SelectedAmong
      <3> QED
        BY <1>7, <3>1, <3>2, <3>3 DEF DisplayInv
    <2>2. CASE ~shown'.kept
      BY <1>7, <2>2 DEF DisplayInv
    <2> QED
      BY <2>1, <2>2
  <1> QED
    BY <1>8, <1>10, <1>12, <1>13

\* A new size leaves the registry, the stores and the display alone.
LEMMA SourceUpdatedKeeps == SessionInv /\ SourceUpdated => SessionInv'
  <1> SUFFICES ASSUME SessionInv, SourceUpdated PROVE SessionInv'
    OBVIOUS
  <1> USE DEF SessionInv
  <1> DEFINE p == Head(pipe).pane
  <1>1. /\ link = "up" /\ pipe # <<>> /\ Head(pipe).type = "updated"
        /\ pipe' = Tail(pipe) /\ link' = link
        /\ announced' = announced /\ worker' = worker /\ disabled' = disabled
        /\ shown' = shown /\ front' = front
        /\ sources' = [sources EXCEPT ![p].size = Head(pipe).size]
    BY DEF SourceUpdated, Arrives, Consumed, Head1, workerVars, paneVars, paintVars
  <1>2. p \in Panes /\ Head(pipe).size \in 0..1 /\ Tail(pipe) \in Seq(Packets)
    BY <1>1, HeadOfPipe DEF Packets
  <1>3. /\ sources' \in [Panes -> [registered : BOOLEAN, size : 0..1, store : Stores]]
        /\ \A q \in Panes : /\ sources'[q].registered = sources[q].registered
                            /\ sources'[q].store = sources[q].store
    <2>1. sources \in [Panes -> Sources]
      BY DEF TypeOK, Sources
    <2> HIDE DEF p
    <2> QED
      BY <1>1, <1>2, <2>1, SizeReplaced DEF Sources
  <1>4. TypeOK'
    BY <1>1, <1>2, <1>3 DEF SourceUpdated, TypeOK, paneVars, paintVars, workerVars
  <1>5. Registered' = Registered
    BY <1>3 DEF Registered
  <1>6. PipeInv'
    BY <1>1, <1>5, PipeRead
  <1>7. StoresInv'
    BY <1>3 DEF StoresInv
  <1>8. Selected' = Selected
    BY <1>1, <1>3 DEF Selected, SelectedAmong, TypeOK
  <1>9. DisplayInv'
    BY <1>1, <1>3, <1>8 DEF DisplayInv
  <1> QED
    BY <1>4, <1>6, <1>7, <1>9

\* The store makes room, and spares what is on display.
LEMMA ImageBlobKeeps == SessionInv /\ ImageBlob => SessionInv'
  <1> SUFFICES ASSUME SessionInv, ImageBlob PROVE SessionInv'
    OBVIOUS
  <1> USE DEF SessionInv
  <1> DEFINE p == Head(pipe).pane
             image == CHOOSE i \in Head(pipe).images : TRUE
             old == sources[p].store
             new == Insert(old, image, Protected(p))
  <1>1. /\ link = "up" /\ pipe # <<>> /\ Head(pipe).type = "blob"
        /\ pipe' = Tail(pipe) /\ link' = link
        /\ announced' = announced /\ worker' = worker /\ disabled' = disabled
        /\ shown' = shown /\ front' = front
        /\ sources' = [sources EXCEPT ![p].store = new]
    BY DEF ImageBlob, Arrives, Consumed, Head1, workerVars, paneVars, paintVars
  <1>2. /\ p \in Panes /\ Head(pipe).images \in SUBSET Images /\ Tail(pipe) \in Seq(Packets)
        /\ Head(pipe).images # {}
    BY <1>1, HeadOfPipe DEF Packets
  <1>3. image \in Images
    BY <1>2
  <1>4. old \in Stores /\ Accounted(old) /\ old.bytes <= Cap
    BY <1>2 DEF StoresInv, Accounted
  <1>5. Protected(p) \in SUBSET Images /\ Total(Protected(p)) <= Cap
    BY TotalOfNone, SessionAssumption DEF Protected, DisplayInv, TypeOK
  <1> HIDE DEF image, old
  <1>6. /\ Accounted(new) /\ new.bytes <= Cap
        /\ Protected(p) \cap old.entries \subseteq new.entries
    BY <1>3, <1>4, <1>5, InsertMakesRoom
  <1>7. new \in Stores
    BY <1>6 DEF Accounted
  <1> HIDE DEF new
  <1>8. sources \in [Panes -> [registered : BOOLEAN, size : 0..1, store : Stores]]
    BY DEF TypeOK
  <1>9. /\ sources' \in [Panes -> [registered : BOOLEAN, size : 0..1, store : Stores]]
        /\ sources'[p].store = new
        /\ \A q \in Panes : /\ sources'[q].registered = sources[q].registered
                            /\ q # p => sources'[q].store = sources[q].store
    <2> HIDE DEF p
    <2> QED
      BY <1>1, <1>2, <1>7, <1>8, StoreReplaced DEF Sources
  <1>10. TypeOK'
    BY <1>1, <1>2, <1>9 DEF ImageBlob, TypeOK, paneVars, paintVars, workerVars
  <1>11. Registered' = Registered
    BY <1>9 DEF Registered
  <1>12. PipeInv'
    BY <1>1, <1>11, PipeRead
  <1>13. StoresInv'
    BY <1>6, <1>9 DEF StoresInv
  <1>14. Selected' = Selected
    BY <1>1, <1>9 DEF Selected, SelectedAmong, TypeOK
  <1>15. DisplayInv'
    <2>1. CASE shown.kept /\ shown.pane = p
      <3>1. shown.pane = Selected /\ shown.images \subseteq old.entries
        BY <2>1 DEF DisplayInv, old
      <3>2. Protected(p) = shown.images
        BY <2>1, <3>1 DEF Protected
      <3>3. shown.images \subseteq new.entries
        BY <1>6, <3>1, <3>2
      <3> QED
        BY <1>1, <1>9, <1>14, <2>1, <3>3 DEF DisplayInv
    <2>2. CASE ~shown.kept \/ shown.pane # p
      BY <1>1, <1>9, <1>14, <2>2 DEF DisplayInv
    <2> QED
      BY <2>1, <2>2
  <1> QED
    BY <1>10, <1>12, <1>13, <1>15

\* A frame on display has its images in a store within the cap.
LEMMA FrameAcceptedKeeps == SessionInv /\ FrameAccepted => SessionInv'
  <1> SUFFICES ASSUME SessionInv, FrameAccepted PROVE SessionInv'
    OBVIOUS
  <1> USE DEF SessionInv
  <1> DEFINE p == Head(pipe).pane
  <1>1. /\ link = "up" /\ pipe # <<>> /\ Head(pipe).type = "frame"
        /\ pipe' = Tail(pipe) /\ link' = link
        /\ announced' = announced /\ worker' = worker /\ disabled' = disabled
        /\ sources' = sources /\ front' = front
    BY DEF FrameAccepted, Arrives, Consumed, Head1, workerVars, paneVars, paintVars
  <1>2. /\ p \in Panes /\ Head(pipe).images \in SUBSET Images /\ Tail(pipe) \in Seq(Packets)
        /\ Head(pipe).size \in 0..1
    BY <1>1, HeadOfPipe DEF Packets
  <1>3. Head(pipe).images \subseteq sources[p].store.entries
    BY DEF FrameAccepted, Acceptable, Head1
  <1>4. Total(Head(pipe).images) <= Cap
    <2> DEFINE store == sources[p].store
    <2>1. store \in Stores /\ store.bytes = Total(store.entries) /\ store.bytes <= Cap
      BY <1>2 DEF StoresInv, Accounted
    <2>2. store.entries \in SUBSET Images
      BY <2>1 DEF Stores
    <2>3. Total(Head(pipe).images) <= Total(store.entries)
      BY <1>3, <2>2, TotalMonotonic
    <2>4. Total(Head(pipe).images) \in Nat /\ Total(store.entries) \in Nat /\ Cap \in Nat
      BY <1>2, <2>2, TotalFinite, SessionAssumption
    <2> HIDE DEF store, Total
    <2> QED
      BY <2>1, <2>3, <2>4
  <1>5. \/ shown' = shown
        \/ /\ p = Selected
           /\ shown' = [pane |-> p, size |-> Head(pipe).size,
                        images |-> Head(pipe).images, kept |-> TRUE]
    BY DEF FrameAccepted, Head1
  <1>6. TypeOK'
    <2>1. shown' \in [pane : Panes \cup {NoPane}, size : 0..1, images : SUBSET Images,
                      kept : BOOLEAN]
      <3> DEFINE frame == [pane |-> p, size |-> Head(pipe).size,
                           images |-> Head(pipe).images, kept |-> TRUE]
      <3>1. frame \in [pane : Panes \cup {NoPane}, size : 0..1, images : SUBSET Images,
                       kept : BOOLEAN]
        BY <1>2
      <3>2. shown' = shown \/ shown' = frame
        BY <1>5
      <3> HIDE DEF frame
      <3> QED
        BY <3>1, <3>2 DEF TypeOK
    <2> QED
      BY <1>1, <1>2, <2>1 DEF FrameAccepted, TypeOK, paneVars, paintVars, workerVars
  <1>7. PipeInv'
    BY <1>1, PipeRead DEF Registered
  <1>8. StoresInv'
    BY <1>1 DEF StoresInv
  <1>9. Selected' = Selected
    BY <1>1 DEF Selected
  <1>10. DisplayInv'
    <2>1. CASE shown' = shown
      BY <1>1, <1>9, <2>1 DEF DisplayInv
    <2>2. CASE shown' # shown
      BY <1>1, <1>2, <1>3, <1>4, <1>5, <1>9, <2>2 DEF DisplayInv
    <2> QED
      BY <2>1, <2>2
  <1> QED
    BY <1>6, <1>7, <1>8, <1>10

\* The connection ends, and with it everything the broker knew.
LEMMA TornDownKeeps ==
    ASSUME SessionInv, TornDown, UNCHANGED <<paneVars, workerVars, front, raced>>,
           events' \in 0..MaxEvents
    PROVE  SessionInv'
  <1> USE DEF SessionInv
  <1>1. /\ link' = "broken" /\ pipe' = <<>> /\ commands' = <<>>
        /\ sources' = [p \in Panes |-> Absent]
        /\ shown' = [shown EXCEPT !.kept = FALSE]
    BY DEF TornDown
  <1>2. EmptyStore \in Stores
    BY DEF EmptyStore, Stores
  <1>3. Absent \in [registered : BOOLEAN, size : 0..1, store : Stores]
    BY <1>2 DEF Absent
  <1>4. ~Absent.registered /\ Absent.store = EmptyStore
    BY DEF Absent
  <1>5. TypeOK'
    <2>1. shown' \in [pane : Panes \cup {NoPane}, size : 0..1, images : SUBSET Images,
                      kept : BOOLEAN]
      BY <1>1 DEF TypeOK
    <2>2. sources' \in [Panes -> [registered : BOOLEAN, size : 0..1, store : Stores]]
      BY <1>1, <1>3
    <2> QED
      BY <1>1, <2>1, <2>2, EmptySeq DEF TypeOK, paneVars, paintVars, workerVars
  <1>6. Registered' = {} /\ Len(pipe') = 0
    BY <1>1, <1>4, EmptySeq DEF Registered
  <1>7. PipeInv'
    BY <1>1, <1>6 DEF PipeInv, DownInv, OrderInv, KnownInv, RemovedInv, BlobInv, TurnInv
  <1>8. Accounted(EmptyStore) /\ EmptyStore.bytes <= Cap
    BY <1>2, TotalOfNone, SessionAssumption DEF Accounted, EmptyStore, Distinct, ToSet
  <1>9. StoresInv'
    BY <1>1, <1>4, <1>8 DEF StoresInv
  <1>10. ~shown'.kept /\ shown'.images = shown.images
    BY <1>1 DEF TypeOK
  <1>11. DisplayInv'
    BY <1>10 DEF DisplayInv
  <1> QED
    BY <1>5, <1>7, <1>9, <1>11

\* Every step preserves the invariant.
LEMMA SessionNext == SessionInv /\ [Next]_vars => SessionInv'
  <1> SUFFICES ASSUME SessionInv, [Next]_vars PROVE SessionInv'
    OBVIOUS
  <1>1. CASE FrameRefused
    <2>1. events' \in 0..MaxEvents
      BY <1>1 DEF FrameRefused, SessionInv, TypeOK
    <2> QED
      BY <1>1, <2>1, TornDownKeeps DEF FrameRefused
  <1>2. CASE Loss
    <2>1. events' \in 0..MaxEvents
      BY <1>2, SessionAssumption DEF Loss, Event, SessionInv, TypeOK
    <2> QED
      BY <1>2, <2>1, TornDownKeeps DEF Loss
  <1>3. CASE UNCHANGED vars
    <2>1. TypeOK'
      BY <1>3 DEF SessionInv, TypeOK, vars, paneVars, paintVars, workerVars, linkVars, brokerVars
    <2>2. PipeInv'
      BY <1>3, PipeQuiet DEF SessionInv, PipeInv, TurnInv, vars, paneVars, paintVars,
                                     workerVars, linkVars, brokerVars
    <2>3. StoresInv' /\ DisplayInv'
      BY <1>3, StoresQuiet DEF SessionInv, vars, brokerVars
    <2> QED
      BY <2>1, <2>2, <2>3 DEF SessionInv
  <1> QED
    BY <1>1, <1>2, <1>3, TerminalKeeps, WorkerKeeps, SourceAddedKeeps, SourceUpdatedKeeps,
       SourceRemovedKeeps, ImageBlobKeeps, FrameAcceptedKeeps DEF Next, Broker

\* The registry, the pipe and the worker agree: a packet that the broker reads is
\* the announcement of a pane it does not know or belongs to one it does, and no
\* store or display holds more than it may.
THEOREM SessionInvariant == Spec => []SessionInv
  BY SessionInit, SessionNext, PTL DEF Spec

\* ImageStore's entries, order and bytes never drift apart, and its bytes stay
\* within IMAGE_STORE_CAP, whatever arrives and whatever is protected.
THEOREM StoresAccount == Spec => []StoreAccounts
  <1>1. SessionInv => StoreAccounts
    <2> SUFFICES ASSUME SessionInv, NEW p \in Registered
                 PROVE  LET store == sources[p].store
                        IN  /\ ToSet(store.order) = store.entries
                            /\ Len(store.order) = Cardinality(store.entries)
                            /\ store.bytes = Total(store.entries)
                            /\ store.bytes <= Cap
      BY DEF StoreAccounts
    <2> DEFINE store == sources[p].store
               order == store.order
    <2>1. Accounted(store) /\ store.bytes <= Cap
      BY DEF SessionInv, StoresInv, Registered
    <2>2. order \in Seq(Images)
      BY <2>1 DEF Accounted, Stores
    <2>3. /\ ToSet(order) = store.entries /\ Distinct(order)
          /\ store.bytes = Total(store.entries)
      BY <2>1 DEF Accounted
    <2>4. /\ Len(order) \in Nat /\ ToSet(order) = {order[i] : i \in 1..Len(order)}
          /\ order \in [1..Len(order) -> Images] /\ DOMAIN order = 1..Len(order)
      BY <2>2, ToSetOfOrder, LenProperties
    <2> HIDE DEF store, order
    <2>5. order \in Bijection(1..Len(order), store.entries)
      <3>1. order \in [1..Len(order) -> store.entries]
        BY <2>3, <2>4
      <3>2. IsInjective(order)
        BY <2>3, <2>4 DEF Distinct, IsInjective
      <3>3. \A x \in store.entries : \E i \in 1..Len(order) : order[i] = x
        BY <2>3, <2>4
      <3> QED
        BY <3>1, <3>2, <3>3 DEF Bijection, Injection, Surjection
    <2>6. Len(order) = Cardinality(store.entries)
      BY <2>4, <2>5, FS_CountingElements DEF ExistsBijection
    <2> QED
      BY <2>1, <2>3, <2>6 DEF order, store
  <1> QED
    BY <1>1, SessionInvariant, PTL

\* As long as the pane on display stays selected, no image of what is on display
\* is evicted from its store.
THEOREM EvictionSpares == Spec => []EvictionSparesDisplay
  <1>1. SessionInv => EvictionSparesDisplay
    BY DEF SessionInv, DisplayInv, EvictionSparesDisplay
  <1> QED
    BY <1>1, SessionInvariant, PTL
-------------------------------------------------------------------------------
(* Why a frame is refused.                                                      *)

\* What a pane has announced, of what was told over the connection.
Sent(p, told) == {i \in Images : <<p, i>> \in told}

\* A packet that tells a pane's size.
Sized(packet, p) == packet.type \in {"added", "updated"} /\ packet.pane = p

\* The size the broker will have for a pane when it reads packet k: that of the
\* last one before it that tells a size, or the one it has.
InEffect(seq, known, p, k, size) ==
    \/ /\ known = size
       /\ \A m \in 1..Len(seq) : m < k => ~Sized(seq[m], p)
    \/ \E j \in 1..Len(seq) :
          /\ j < k /\ Sized(seq[j], p) /\ seq[j].size = size
          /\ \A m \in 1..Len(seq) : j < m /\ m < k => ~Sized(seq[m], p)

\* An image that is in a pane's store when the broker reads packet k, unless it
\* is evicted.
Carried(seq, entries, p, k, image) ==
    \/ image \in entries
    \/ \E j \in 1..Len(seq) :
          /\ j < k /\ seq[j].type = "blob" /\ seq[j].pane = p
          /\ seq[j].images = {image}

\* The place of what is written next.
Now == Len(pipe) + 1

\* Sizes.  A frame on its way has the size that will be in effect when it is
\* read, unless its pane was resized between its metadata and its batch.  That
\* holds because the worker tells a size before it takes a batch of that size:
\* a pane whose metadata is told has its present size in effect at the end of
\* the pipe, and so has one whose batch is taken or held.
SizeInv ==
    link = "up" =>
        /\ \A k \in 1..Len(pipe) :
              pipe[k].type = "frame" /\ pipe[k].pane \notin raced
              => InEffect(pipe, sources[pipe[k].pane].size, pipe[k].pane, k, pipe[k].size)
        /\ \A p \in Panes :
              announced[p] /\ ~metadata[p]
              => InEffect(pipe, sources[p].size, p, Now, Size(layout[p]))
        /\ \A p \in Panes \ raced :
              worker = [step |-> "take", pane |-> p]
              => InEffect(pipe, sources[p].size, p, Now, Size(layout[p]))
        /\ \A p \in Panes \ raced :
              worker = [step |-> "send", pane |-> p]
              => InEffect(pipe, sources[p].size, p, Now, Size(taken.layout))

\* Blobs.  A store has nothing that was not announced over this connection, and
\* nothing before its pane is registered; a blob on its way was announced.
ContentInv ==
    /\ \A p \in Panes : sources[p].store.entries \subseteq Sent(p, sent)
    /\ \A p \in Panes : p \notin Registered => sources[p].store.entries = {}
    /\ \A k \in 1..Len(pipe) :
          pipe[k].type = "blob" => \E i \in Sent(pipe[k].pane, sent) : pipe[k].images = {i}

\* The panes that were not withdrawn.
Live == {p \in Panes : p \notin disabled \/ announced[p]}

\* A live pane that announced no more than its store holds loses nothing to
\* eviction: what it announced is in the store or on its way, and what a frame refers to
\* is in the store or comes before it.
DeliveryInv ==
    link = "up" =>
        /\ \A p \in Live : Total(Sent(p, sent)) <= Cap =>
              \A i \in Sent(p, sent) : Carried(pipe, sources[p].store.entries, p, Now, i)
        /\ \A k \in 1..Len(pipe) :
              LET p == pipe[k].pane
              IN  pipe[k].type = "frame" /\ Total(Sent(p, sent)) <= Cap
                  => \A i \in pipe[k].images : Carried(pipe, sources[p].store.entries, p, k, i)

CauseInv == SizeInv /\ ContentInv /\ DeliveryInv

\* What is written does not change what came before it.
LEMMA EffectWritten ==
    ASSUME NEW seq \in Seq(Packets), NEW new \in Seq(Packets), NEW known, NEW p, NEW size
    PROVE  /\ \A k \in 1..(Len(seq) + 1) :
                 InEffect(seq, known, p, k, size) => InEffect(seq \o new, known, p, k, size)
           /\ (/\ InEffect(seq, known, p, Len(seq) + 1, size)
               /\ \A m \in 1..Len(new) : ~Sized(new[m], p))
              => \A k \in 1..(Len(seq \o new) + 1) :
                    k > Len(seq) => InEffect(seq \o new, known, p, k, size)
  <1> DEFINE both == seq \o new
             len == Len(seq)
  <1>1. /\ len \in Nat /\ Len(new) \in Nat /\ Len(both) = len + Len(new)
        /\ \A i \in 1..(len + Len(new)) : both[i] = IF i <= len THEN seq[i] ELSE new[i - len]
    BY ConcatProperties, LenProperties
  <1> HIDE DEF both, len
  <1>2. /\ \A i \in 1..len : i \in 1..Len(both) /\ both[i] = seq[i]
        /\ \A i \in 1..Len(both) : i \notin 1..len =>
              i - len \in 1..Len(new) /\ both[i] = new[i - len] /\ i > len
    BY <1>1
  <1>3. ASSUME NEW k \in 1..(len + 1), InEffect(seq, known, p, k, size)
        PROVE  InEffect(both, known, p, k, size)
    <2>1. \A m \in 1..Len(both) : m < k => m \in 1..len
      BY <1>1
    <2> QED
      BY <1>2, <1>3, <2>1 DEF InEffect, len
  <1>4. ASSUME InEffect(seq, known, p, len + 1, size),
               \A m \in 1..Len(new) : ~Sized(new[m], p),
               NEW k \in 1..(Len(both) + 1), k > len
        PROVE  InEffect(both, known, p, k, size)
    <2>1. \A m \in 1..len : m < len + 1 /\ m < k
      BY <1>1, <1>4
    <2>2. \A m \in 1..Len(both) : Sized(both[m], p) => m \in 1..len
      BY <1>2, <1>4
    <2> QED
      BY <1>2, <1>4, <2>1, <2>2 DEF InEffect, len
  <1> QED
    BY <1>3, <1>4 DEF both, len

\* The last size told is in effect from there on.
LEMMA EffectTold ==
    ASSUME NEW seq \in Seq(Packets), NEW packet \in Packets, NEW known, NEW p,
           Sized(packet, p)
    PROVE  InEffect(seq \o <<packet>>, known, p, Len(seq \o <<packet>>) + 1, packet.size)
  <1> DEFINE both == seq \o <<packet>>
  <1>1. both = Append(seq, packet)
    BY AppendIsConcat
  <1>2. Len(both) = Len(seq) + 1 /\ both[Len(both)] = packet /\ Len(seq) \in Nat
    BY <1>1, AppendProperties, LenProperties
  <1> HIDE DEF both
  <1>3. Len(both) \in 1..Len(both) /\ Len(both) < Len(both) + 1
    BY <1>2
  <1>4. \A m \in 1..Len(both) : ~(Len(both) < m)
    BY <1>2
  <1> QED
    BY <1>2, <1>3, <1>4 DEF InEffect, both

\* What is read comes to be known.
LEMMA EffectRead ==
    ASSUME NEW seq \in Seq(Packets), seq # <<>>, NEW known, NEW p, NEW size,
           NEW k \in 1..Len(seq), InEffect(seq, known, p, k + 1, size)
    PROVE  InEffect(Tail(seq), IF Sized(Head(seq), p) THEN Head(seq).size ELSE known,
                    p, k, size)
  <1> DEFINE rest == Tail(seq)
             len == Len(seq)
             later == IF Sized(Head(seq), p) THEN Head(seq).size ELSE known
  <1>1. /\ len \in Nat \ {0} /\ Len(rest) = len - 1 /\ Head(seq) = seq[1]
        /\ \A i \in 1..(len - 1) : rest[i] = seq[i + 1]
    BY HeadTailProperties, LenProperties, EmptySeq
  <1> HIDE DEF rest, len
  <1>2. /\ \A i \in 1..Len(rest) : /\ i + 1 \in 1..len /\ rest[i] = seq[i + 1]
                                   /\ i < k => i + 1 < k + 1
        /\ \A i \in 1..len : i # 1 => /\ i - 1 \in 1..Len(rest) /\ rest[i - 1] = seq[i]
                                      /\ i < k + 1 => i - 1 < k
        /\ 1 \in 1..len /\ 1 < k + 1
    BY <1>1 DEF len
  <1>3. ASSUME known = size, \A m \in 1..len : m < k + 1 => ~Sized(seq[m], p)
        PROVE  InEffect(rest, later, p, k, size)
    <2>1. later = size
      BY <1>1, <1>2, <1>3
    <2>2. \A m \in 1..Len(rest) : m < k => ~Sized(rest[m], p)
      BY <1>2, <1>3
    <2> HIDE DEF later
    <2> QED
      BY <2>1, <2>2 DEF InEffect
  <1>4. ASSUME NEW j \in 1..len, j < k + 1, Sized(seq[j], p), seq[j].size = size,
               \A m \in 1..len : j < m /\ m < k + 1 => ~Sized(seq[m], p)
        PROVE  InEffect(rest, later, p, k, size)
    <2>1. CASE j = 1
      <3>1. later = size
        BY <1>1, <1>4, <2>1
      <3>2. \A m \in 1..Len(rest) : m < k => ~Sized(rest[m], p)
        <4> TAKE m \in 1..Len(rest)
        <4> HAVE m < k
        <4>1. m + 1 \in 1..len /\ 1 < m + 1 /\ m + 1 < k + 1 /\ rest[m] = seq[m + 1]
          BY <1>2
        <4> QED
          BY <1>4, <2>1, <4>1
      <3> HIDE DEF later
      <3> QED
        BY <3>1, <3>2 DEF InEffect
    <2>2. CASE j # 1
      <3>1. j - 1 \in 1..Len(rest) /\ rest[j - 1] = seq[j] /\ j - 1 < k
        BY <1>2, <1>4, <2>2
      <3>2. \A m \in 1..Len(rest) : j - 1 < m /\ m < k => ~Sized(rest[m], p)
        <4> TAKE m \in 1..Len(rest)
        <4> HAVE j - 1 < m /\ m < k
        <4>1. m + 1 \in 1..len /\ j < m + 1 /\ m + 1 < k + 1 /\ rest[m] = seq[m + 1]
          BY <1>2
        <4> QED
          BY <1>4, <4>1
      <3> HIDE DEF later
      <3> QED
        BY <1>4, <3>1, <3>2 DEF InEffect
    <2> QED
      BY <2>1, <2>2
  <1> HIDE DEF later
  <1>5. \/ known = size /\ \A m \in 1..len : m < k + 1 => ~Sized(seq[m], p)
        \/ \E j \in 1..len :
              /\ j < k + 1 /\ Sized(seq[j], p) /\ seq[j].size = size
              /\ \A m \in 1..len : j < m /\ m < k + 1 => ~Sized(seq[m], p)
    BY DEF InEffect, len
  <1>6. InEffect(rest, later, p, k, size)
    <2>1. CASE known = size /\ \A m \in 1..len : m < k + 1 => ~Sized(seq[m], p)
      BY <1>3, <2>1
    <2>2. CASE \E j \in 1..len :
                  /\ j < k + 1 /\ Sized(seq[j], p) /\ seq[j].size = size
                  /\ \A m \in 1..len : j < m /\ m < k + 1 => ~Sized(seq[m], p)
      <3>1. PICK j \in 1..len :
               /\ j < k + 1 /\ Sized(seq[j], p) /\ seq[j].size = size
               /\ \A m \in 1..len : j < m /\ m < k + 1 => ~Sized(seq[m], p)
        BY <2>2
      <3> QED
        BY <1>4, <3>1
    <2> QED
      BY <1>5, <2>1, <2>2
  <1> QED
    BY <1>6 DEF rest, later

\* What was carried still is, and what is written is from there on.
LEMMA CarriedWritten ==
    ASSUME NEW seq \in Seq(Packets), NEW new \in Seq(Packets), NEW entries, NEW p, NEW image
    PROVE  /\ \A k \in 1..(Len(seq) + 1), l \in Nat :
                 k <= l /\ Carried(seq, entries, p, k, image)
                 => Carried(seq \o new, entries, p, l, image)
           /\ \A j \in 1..Len(new), l \in Nat :
                 /\ new[j].type = "blob" /\ new[j].pane = p /\ new[j].images = {image}
                 /\ l > Len(seq) + j
                 => Carried(seq \o new, entries, p, l, image)
  <1> DEFINE both == seq \o new
             len == Len(seq)
  <1>1. /\ len \in Nat /\ Len(new) \in Nat /\ Len(both) = len + Len(new)
        /\ \A i \in 1..(len + Len(new)) : both[i] = IF i <= len THEN seq[i] ELSE new[i - len]
    BY ConcatProperties, LenProperties
  <1> HIDE DEF both, len
  <1>2. /\ \A i \in 1..len : i \in 1..Len(both) /\ both[i] = seq[i]
        /\ \A i \in 1..Len(new) : len + i \in 1..Len(both) /\ both[len + i] = new[i]
    BY <1>1
  <1>3. ASSUME NEW k \in 1..(len + 1), NEW l \in Nat, k <= l, Carried(seq, entries, p, k, image)
        PROVE  Carried(both, entries, p, l, image)
    <2>1. \A j \in 1..len : j < k => j < l
      BY <1>1, <1>3
    <2> QED
      BY <1>2, <1>3, <2>1 DEF Carried, len
  <1>4. ASSUME NEW j \in 1..Len(new), NEW l \in Nat, l > len + j,
               new[j].type = "blob" /\ new[j].pane = p /\ new[j].images = {image}
        PROVE  Carried(both, entries, p, l, image)
    BY <1>2, <1>4 DEF Carried
  <1> QED
    BY <1>3, <1>4 DEF both, len

\* What is read comes to be in the store.
LEMMA CarriedRead ==
    ASSUME NEW seq \in Seq(Packets), seq # <<>>, NEW entries, NEW later, NEW p, NEW image,
           NEW k \in 1..Len(seq), Carried(seq, entries, p, k + 1, image),
           entries \subseteq later,
           Head(seq).type = "blob" /\ Head(seq).pane = p /\ Head(seq).images = {image}
           => image \in later
    PROVE  Carried(Tail(seq), later, p, k, image)
  <1> DEFINE rest == Tail(seq)
             len == Len(seq)
  <1>1. /\ len \in Nat \ {0} /\ Len(rest) = len - 1 /\ Head(seq) = seq[1]
        /\ \A i \in 1..(len - 1) : rest[i] = seq[i + 1]
    BY HeadTailProperties, LenProperties, EmptySeq
  <1> HIDE DEF rest, len
  <1>2. \A i \in 1..len : i # 1 => /\ i - 1 \in 1..Len(rest) /\ rest[i - 1] = seq[i]
                                   /\ i < k + 1 => i - 1 < k
    BY <1>1 DEF len
  <1>3. CASE image \in later
    BY <1>3 DEF Carried
  <1>4. CASE image \notin later
    <2>1. PICK j \in 1..len : /\ j < k + 1 /\ seq[j].type = "blob" /\ seq[j].pane = p
                              /\ seq[j].images = {image}
      BY <1>4 DEF Carried, len
    <2>2. j # 1
      BY <1>1, <1>4, <2>1
    <2>3. j - 1 \in 1..Len(rest) /\ rest[j - 1] = seq[j] /\ j - 1 < k
      BY <1>2, <2>1, <2>2
    <2> QED
      BY <2>1, <2>3 DEF Carried, rest
  <1> QED
    BY <1>3, <1>4

\* At first nothing is announced.
LEMMA CauseInit == Init => CauseInv
  <1> SUFFICES ASSUME Init PROVE CauseInv
    OBVIOUS
  <1>1. link = "down" /\ Len(pipe) = 0
    BY EmptySeq DEF Init
  <1>2. \A p \in Panes : sources[p].store.entries = {}
    BY DEF Init, Absent, EmptyStore
  <1> QED
    BY <1>1, <1>2 DEF CauseInv, SizeInv, ContentInv, DeliveryInv

\* Neither the pipe, nor what is announced, nor the stores change.
LEMMA ContentQuiet ==
    ASSUME ContentInv, DeliveryInv, sources' = sources, sent' = sent, pipe' = pipe,
           link' = link, announced' = announced, disabled \subseteq disabled'
    PROVE  ContentInv' /\ DeliveryInv'
  <1>1. /\ Registered' = Registered /\ Now' = Now /\ Live' \subseteq Live
        /\ \A p : Sent(p, sent') = Sent(p, sent)
    BY DEF Registered, Now, Sent, Live
  <1>2. ContentInv'
    BY <1>1 DEF ContentInv, Sent
  <1>3. DeliveryInv'
    <2> HIDE DEF Total
    <2> QED
      BY <1>1 DEF DeliveryInv, Sent
  <1> QED
    BY <1>2, <1>3

\* Nor do the sizes, and no batch is taken up.
LEMMA SizeQuiet ==
    ASSUME SizeInv, sources' = sources, pipe' = pipe, link' = link,
           announced' = announced, metadata' = metadata, layout' = layout, raced' = raced,
           \/ worker' = worker /\ taken' = taken
           \/ worker'.step \notin {"take", "send"}
    PROVE  SizeInv'
  <1>1. Now' = Now
    BY DEF Now
  <1>2. \A p : \/ worker' = worker /\ taken' = taken
               \/ /\ worker' # [step |-> "take", pane |-> p]
                  /\ worker' # [step |-> "send", pane |-> p]
    OBVIOUS
  <1> QED
    BY <1>1, <1>2 DEF SizeInv

\* A resize marks the pane's metadata, and the pane as raced if its batch is next.
LEMMA CauseTerminal == SessionInv /\ CauseInv /\ Terminal => CauseInv'
  <1> SUFFICES ASSUME SessionInv, CauseInv, Terminal PROVE CauseInv'
    OBVIOUS
  <1> USE DEF CauseInv
  <1>1. ASSUME NEW p, NEW images, Program(p, images) PROVE CauseInv'
    BY <1>1, ContentQuiet, SizeQuiet DEF Program, paintVars, workerVars, linkVars, brokerVars
  <1>2. ASSUME NEW p, Paint(p) PROVE CauseInv'
    BY <1>2, ContentQuiet, SizeQuiet DEF Paint, workerVars, linkVars, brokerVars
  <1>3. ASSUME NEW p, Switch(p) PROVE CauseInv'
    BY <1>3, ContentQuiet, SizeQuiet DEF Switch, workerVars, paneVars, paintVars
  <1>6. ASSUME NEW p, EndPaint(p) PROVE CauseInv'
    BY <1>6, ContentQuiet, SizeQuiet DEF EndPaint, workerVars, linkVars, brokerVars
  <1>7. ASSUME NEW p, Close(p) PROVE CauseInv'
    BY <1>7, ContentQuiet, SizeQuiet DEF Close, workerVars, linkVars, brokerVars
  <1>4. ASSUME NEW p \in Panes, UpdateViewport(p) PROVE CauseInv'
    <2>1. /\ sources' = sources /\ pipe' = pipe /\ link' = link /\ sent' = sent
          /\ announced' = announced /\ worker' = worker /\ taken' = taken
          /\ disabled' = disabled
          /\ layout' = [layout EXCEPT ![p] = @ + 1]
          /\ metadata' = [metadata EXCEPT ![p] = TRUE]
          /\ raced \subseteq raced'
          /\ worker = [step |-> "take", pane |-> p] => p \in raced'
      BY <1>4 DEF UpdateViewport, paintVars, workerVars, linkVars, brokerVars
    <2>2. Now' = Now
      BY <2>1 DEF Now
    <2>3. /\ metadata'[p]
          /\ \A q \in Panes : q # p => layout'[q] = layout[q] /\ metadata'[q] = metadata[q]
      BY <2>1 DEF SessionInv, TypeOK
    <2>4. SizeInv'
      <3> SUFFICES ASSUME link = "up"
                   PROVE  SizeInv'
        BY <2>1 DEF SizeInv
      <3>1. ASSUME NEW k \in 1..Len(pipe), pipe[k].type = "frame", pipe[k].pane \notin raced'
            PROVE  InEffect(pipe, sources[pipe[k].pane].size, pipe[k].pane, k, pipe[k].size)
        BY <2>1, <3>1 DEF SizeInv
      <3>2. ASSUME NEW q \in Panes, announced[q], ~metadata'[q]
            PROVE  InEffect(pipe, sources[q].size, q, Now, Size(layout'[q]))
        BY <2>3, <3>2 DEF SizeInv
      <3>3. ASSUME NEW q \in Panes \ raced', worker = [step |-> "take", pane |-> q]
            PROVE  InEffect(pipe, sources[q].size, q, Now, Size(layout'[q]))
        BY <2>1, <2>3, <3>3 DEF SizeInv
      <3>4. ASSUME NEW q \in Panes \ raced', worker = [step |-> "send", pane |-> q]
            PROVE  InEffect(pipe, sources[q].size, q, Now, Size(taken.layout))
        BY <2>1, <3>4 DEF SizeInv
      <3> QED
        BY <2>1, <2>2, <3>1, <3>2, <3>3, <3>4 DEF SizeInv
    <2> QED
      BY <2>1, <2>4, ContentQuiet
  <1>5. Busy \subseteq Panes
    BY SessionAssumption
  <1> QED
    BY <1>1, <1>2, <1>3, <1>4, <1>5, <1>6, <1>7 DEF Terminal

\* The size that is told is in effect after it.
LEMMA CauseMetadata ==
    ASSUME SessionInv, CauseInv, NEW p \in Panes, Metadata(p)
    PROVE  CauseInv'
  <1> USE DEF CauseInv
  <1> DEFINE packet == Packet(IF announced[p] THEN "updated" ELSE "added", p,
                              Size(layout[p]), {})
  <1>1. /\ link = "up" /\ link' = link /\ sources' = sources /\ sent' = sent
        /\ layout' = layout /\ raced' = raced
        /\ disabled' = disabled /\ p \notin disabled
        /\ announced' = [announced EXCEPT ![p] = TRUE]
        /\ metadata' = [metadata EXCEPT ![p] = @ /\ ~announced[p]]
    BY DEF Metadata, brokerVars
  <1>2. worker' = [step |-> "take", pane |-> p] \/ GoOn(p)
    BY DEF Metadata, Go
  <1>3. /\ pipe \in Seq(Packets) /\ layout[p] \in Nat
        /\ announced \in [Panes -> BOOLEAN] /\ metadata \in [Panes -> BOOLEAN]
    BY DEF SessionInv, TypeOK
  <1>4. /\ packet \in Packets /\ packet.pane = p
        /\ packet.type \in {"added", "updated"} /\ packet.size = Size(layout[p])
    BY <1>3, SizeType DEF Packet, Packets
  <1>5. \/ announced[p] /\ ~metadata[p] /\ pipe' = pipe
        \/ pipe' = Append(pipe, packet)
    BY DEF Metadata
  <1> HIDE DEF packet
  <1>6. CASE announced[p] /\ ~metadata[p] /\ pipe' = pipe
    <2>1. announced' = announced /\ metadata' = metadata
      BY <1>1, <1>3, <1>6
    <2>2. InEffect(pipe, sources[p].size, p, Now, Size(layout[p]))
      BY <1>1, <1>6 DEF SizeInv
    <2>3. /\ \A q : worker' = [step |-> "take", pane |-> q] => q = p
          /\ \A q : worker' # [step |-> "send", pane |-> q]
      BY <1>2, GoOnTurn DEF SessionInv
    <2>4. Now' = Now
      BY <1>6 DEF Now
    <2>5. SizeInv'
      BY <1>1, <1>6, <2>1, <2>2, <2>3, <2>4 DEF SizeInv
    <2> QED
      BY <1>1, <1>6, <2>1, <2>5, ContentQuiet
  <1>7. CASE pipe' = Append(pipe, packet)
    <2> DEFINE new == <<packet>>
               len == Len(pipe)
    <2>1. pipe' = pipe \o new /\ new \in Seq(Packets) /\ Len(new) = 1 /\ new[1] = packet
      BY <1>3, <1>4, <1>7, AppendIsConcat
    <2>2. InEffect(pipe', sources[p].size, p, Now', Size(layout[p]))
      BY <1>3, <1>4, <2>1, EffectTold DEF Sized, Now
    <2> HIDE DEF new
    <2>3. \A m \in 1..Len(new) : new[m] = packet
      BY <2>1
    <2>4. /\ Len(pipe') = len + 1 /\ len \in Nat /\ pipe'[len + 1] = packet
          /\ \A k \in 1..len : pipe'[k] = pipe[k]
      BY <1>3, <1>4, <1>7, AppendProperties, LenProperties
    <2> HIDE DEF len
    <2>5. \A k \in 1..Len(pipe') : \/ k \in 1..len /\ k \in 1..(len + 1)
                                   \/ pipe'[k] = packet
      BY <2>4
    <2>6. Now = len + 1 /\ Now \in 1..(len + 1) /\ Now' \in 1..(Len(pipe') + 1) /\ Now' > len
          /\ Now' \in Nat /\ Now <= Now'
      BY <2>4 DEF Now, len
    <2>7. SizeInv'
      <3>1. ASSUME NEW k \in 1..Len(pipe'), pipe'[k].type = "frame", pipe'[k].pane \notin raced
            PROVE  InEffect(pipe', sources[pipe'[k].pane].size, pipe'[k].pane, k, pipe'[k].size)
        <4>1. k \in 1..len /\ k \in 1..(len + 1) /\ pipe'[k] = pipe[k]
          BY <1>4, <2>4, <2>5, <3>1
        <4>2. InEffect(pipe, sources[pipe[k].pane].size, pipe[k].pane, k, pipe[k].size)
          BY <1>1, <3>1, <4>1 DEF SizeInv, len
        <4> QED
          BY <1>3, <2>1, <4>1, <4>2, EffectWritten DEF len
      <3>2. ASSUME NEW q \in Panes, announced'[q], ~metadata'[q]
            PROVE  InEffect(pipe', sources[q].size, q, Now', Size(layout[q]))
        <4>1. CASE q = p
          BY <2>2, <4>1
        <4>2. CASE q # p
          <5>1. announced[q] /\ ~metadata[q]
            BY <1>1, <1>3, <3>2, <4>2
          <5>2. InEffect(pipe, sources[q].size, q, Now, Size(layout[q]))
            BY <1>1, <5>1 DEF SizeInv
          <5>3. \A m \in 1..Len(new) : ~Sized(new[m], q)
            BY <1>4, <2>3, <4>2 DEF Sized
          <5> QED
            BY <1>3, <2>1, <2>6, <5>2, <5>3, EffectWritten DEF len
        <4> QED
          BY <4>1, <4>2
      <3>3. /\ \A q : worker' = [step |-> "take", pane |-> q] => q = p
            /\ \A q : worker' # [step |-> "send", pane |-> q]
        BY <1>2, GoOnTurn DEF SessionInv
      <3> QED
        BY <1>1, <2>2, <3>1, <3>2, <3>3 DEF SizeInv
    <2>8. Registered' = Registered /\ \A q : Sent(q, sent') = Sent(q, sent)
      BY <1>1 DEF Registered, Sent
    <2>9. ContentInv'
      <3>1. ASSUME NEW k \in 1..Len(pipe'), pipe'[k].type = "blob"
            PROVE  \E i \in Sent(pipe'[k].pane, sent) : pipe'[k].images = {i}
        <4>1. k \in 1..len /\ pipe'[k] = pipe[k]
          BY <1>4, <2>4, <2>5, <3>1
        <4> QED
          BY <3>1, <4>1 DEF ContentInv, len
      <3> QED
        BY <1>1, <2>8, <3>1 DEF ContentInv
    <2>10. DeliveryInv'
      <3> HIDE DEF Total
      <3>3. Live' = Live
        BY <1>1, <1>3 DEF Live
      <3>1. ASSUME NEW q \in Live, Total(Sent(q, sent)) <= Cap, NEW i \in Sent(q, sent)
            PROVE  Carried(pipe', sources[q].store.entries, q, Now', i)
        <4>1. Carried(pipe, sources[q].store.entries, q, Now, i)
          BY <1>1, <3>1 DEF DeliveryInv
        <4> QED
          BY <1>3, <2>1, <2>6, <4>1, CarriedWritten DEF len
      <3>2. ASSUME NEW k \in 1..Len(pipe'), pipe'[k].type = "frame",
                   Total(Sent(pipe'[k].pane, sent)) <= Cap, NEW i \in pipe'[k].images
            PROVE  Carried(pipe', sources[pipe'[k].pane].store.entries, pipe'[k].pane, k, i)
        <4>1. k \in 1..len /\ k \in 1..(len + 1) /\ pipe'[k] = pipe[k] /\ k \in Nat /\ k <= k
          BY <1>4, <2>4, <2>5, <3>2
        <4>2. Carried(pipe, sources[pipe[k].pane].store.entries, pipe[k].pane, k, i)
          BY <1>1, <3>2, <4>1 DEF DeliveryInv, len
        <4> QED
          BY <1>3, <2>1, <4>1, <4>2, CarriedWritten DEF len
      <3> QED
        BY <1>1, <2>8, <3>1, <3>2, <3>3 DEF DeliveryInv
    <2> QED
      BY <2>7, <2>9, <2>10
  <1> QED
    BY <1>5, <1>6, <1>7

\* What is told of a pane that is withdrawn concerns no other.
LEMMA CauseWithdraw ==
    ASSUME SessionInv, CauseInv, NEW p \in Panes, Withdraw(p)
    PROVE  CauseInv'
  <1> USE DEF CauseInv
  <1> DEFINE packet == Packet("removed", p, 0, {})
             new == <<packet>>
             len == Len(pipe)
  <1>1. /\ link = "up" /\ link' = link /\ sources' = sources /\ sent' = sent
        /\ layout' = layout /\ raced' = raced /\ metadata' = metadata
        /\ disabled' = disabled /\ p \in disabled
        /\ announced' = [announced EXCEPT ![p] = FALSE]
        /\ pipe' = IF announced[p] THEN Append(pipe, packet) ELSE pipe
        /\ GoOn(p)
    BY DEF Withdraw, brokerVars
  <1>2. pipe \in Seq(Packets) /\ announced \in [Panes -> BOOLEAN]
    BY DEF SessionInv, TypeOK
  <1>3. packet \in Packets /\ packet.pane = p /\ packet.type = "removed"
    BY DEF Packet, Packets
  <1>4. worker'.step \notin {"take", "send"}
    BY <1>1, GoOnTurn DEF SessionInv
  <1>5. CASE ~announced[p]
    <2>1. announced' = announced /\ pipe' = pipe
      BY <1>1, <1>2, <1>5
    <2> QED
      BY <1>1, <1>4, <2>1, ContentQuiet, SizeQuiet
  <1>6. CASE announced[p]
    <2> HIDE DEF packet
    <2>1. /\ pipe' = pipe \o new /\ pipe' = Append(pipe, packet)
          /\ new \in Seq(Packets) /\ Len(new) = 1
          /\ \A m \in 1..Len(new) : new[m] = packet
      BY <1>1, <1>2, <1>3, <1>6, AppendIsConcat
    <2> HIDE DEF new
    <2>2. /\ Len(pipe') = len + 1 /\ len \in Nat /\ pipe'[len + 1] = packet
          /\ \A k \in 1..len : pipe'[k] = pipe[k]
      BY <1>2, <1>3, <2>1, AppendProperties, LenProperties
    <2> HIDE DEF len
    <2>3. \A k \in 1..Len(pipe') : \/ /\ k \in 1..len /\ k \in 1..(len + 1)
                                       /\ pipe'[k] = pipe[k] /\ k \in Nat /\ k <= k
                                    \/ pipe'[k] = packet
      BY <2>2
    <2>4. /\ Now = len + 1 /\ Now \in 1..(len + 1) /\ Now' \in 1..(Len(pipe') + 1)
          /\ Now' > len /\ Now' \in Nat /\ Now <= Now'
      BY <2>2 DEF Now, len
    <2>5. \A q : \A m \in 1..Len(new) : ~Sized(new[m], q)
      BY <1>3, <2>1 DEF Sized
    <2>6. SizeInv'
      <3>1. ASSUME NEW k \in 1..Len(pipe'), pipe'[k].type = "frame", pipe'[k].pane \notin raced
            PROVE  InEffect(pipe', sources[pipe'[k].pane].size, pipe'[k].pane, k, pipe'[k].size)
        <4>1. k \in 1..len /\ k \in 1..(len + 1) /\ pipe'[k] = pipe[k]
          BY <1>3, <2>3, <3>1
        <4>2. InEffect(pipe, sources[pipe[k].pane].size, pipe[k].pane, k, pipe[k].size)
          BY <1>1, <3>1, <4>1 DEF SizeInv, len
        <4> QED
          BY <1>2, <2>1, <4>1, <4>2, EffectWritten DEF len
      <3>2. ASSUME NEW q \in Panes, announced'[q], ~metadata[q]
            PROVE  InEffect(pipe', sources[q].size, q, Now', Size(layout[q]))
        <4>1. announced[q]
          BY <1>1, <1>2, <3>2
        <4>2. InEffect(pipe, sources[q].size, q, Now, Size(layout[q]))
          BY <1>1, <3>2, <4>1 DEF SizeInv
        <4> QED
          BY <1>2, <2>1, <2>4, <2>5, <4>2, EffectWritten DEF len
      <3>3. \A q : /\ worker' # [step |-> "take", pane |-> q]
                   /\ worker' # [step |-> "send", pane |-> q]
        BY <1>4
      <3> QED
        BY <1>1, <3>1, <3>2, <3>3 DEF SizeInv
    <2>7. /\ Registered' = Registered /\ \A q : Sent(q, sent') = Sent(q, sent)
          /\ Live' \subseteq Live
      BY <1>1, <1>2 DEF Registered, Sent, Live
    <2>8. ContentInv'
      <3>1. ASSUME NEW k \in 1..Len(pipe'), pipe'[k].type = "blob"
            PROVE  \E i \in Sent(pipe'[k].pane, sent) : pipe'[k].images = {i}
        <4>1. k \in 1..len /\ pipe'[k] = pipe[k]
          BY <1>3, <2>3, <3>1
        <4> QED
          BY <3>1, <4>1 DEF ContentInv, len
      <3> QED
        BY <1>1, <2>7, <3>1 DEF ContentInv
    <2>9. DeliveryInv'
      <3> HIDE DEF Total
      <3>1. ASSUME NEW q \in Live, Total(Sent(q, sent)) <= Cap, NEW i \in Sent(q, sent)
            PROVE  Carried(pipe', sources[q].store.entries, q, Now', i)
        <4>1. Carried(pipe, sources[q].store.entries, q, Now, i)
          BY <1>1, <3>1 DEF DeliveryInv
        <4> QED
          BY <1>2, <2>1, <2>4, <4>1, CarriedWritten DEF len
      <3>2. ASSUME NEW k \in 1..Len(pipe'), pipe'[k].type = "frame",
                   Total(Sent(pipe'[k].pane, sent)) <= Cap, NEW i \in pipe'[k].images
            PROVE  Carried(pipe', sources[pipe'[k].pane].store.entries, pipe'[k].pane, k, i)
        <4>1. k \in 1..len /\ k \in 1..(len + 1) /\ pipe'[k] = pipe[k] /\ k \in Nat /\ k <= k
          BY <1>3, <2>3, <3>2
        <4>2. Carried(pipe, sources[pipe[k].pane].store.entries, pipe[k].pane, k, i)
          BY <1>1, <3>2, <4>1 DEF DeliveryInv, len
        <4> QED
          BY <1>2, <2>1, <4>1, <4>2, CarriedWritten DEF len
      <3> QED
        BY <1>1, <2>7, <3>1, <3>2 DEF DeliveryInv
    <2> QED
      BY <2>6, <2>8, <2>9
  <1> QED
    BY <1>5, <1>6

\* A batch is taken when its layout is the one the pane has.
LEMMA CauseTake ==
    ASSUME SessionInv, CauseInv, NEW p \in Panes, Take(p)
    PROVE  CauseInv'
  <1> USE DEF CauseInv
  <1>1. /\ link = "up" /\ link' = link /\ pipe' = pipe /\ sources' = sources
        /\ announced' = announced /\ metadata' = metadata /\ layout' = layout
        /\ raced' = raced /\ sent' = sent
        /\ worker = [step |-> "take", pane |-> p]
    BY DEF Take, At, linkVars, brokerVars
  <1>4. disabled \subseteq disabled'
    <2>1. Released(p) \/ disabled' = disabled
      BY DEF Take
    <2> QED
      BY <2>1, ReleasedType DEF SessionInv
  <1>2. CASE GoOn(p)
    BY <1>1, <1>2, <1>4, GoOnTurn, ContentQuiet, SizeQuiet DEF SessionInv
  <1>3. CASE /\ batch[p][1].layout = layout[p] /\ taken' = batch[p][1]
             /\ worker' = [step |-> "send", pane |-> p]
    <2>1. p \notin raced => InEffect(pipe, sources[p].size, p, Now, Size(taken'.layout))
      BY <1>1, <1>3 DEF SizeInv
    <2>2. /\ \A q : worker' = [step |-> "send", pane |-> q] => q = p
          /\ \A q : worker' # [step |-> "take", pane |-> q]
      BY <1>3
    <2>3. Now' = Now
      BY <1>1 DEF Now
    <2>4. SizeInv'
      BY <1>1, <2>1, <2>2, <2>3 DEF SizeInv
    <2> QED
      BY <1>1, <1>4, <2>4, ContentQuiet
  <1> QED
    BY <1>2, <1>3 DEF Take, Go

\* A frame follows the blobs it needs, and tells no size of its own.
LEMMA CauseSend ==
    ASSUME SessionInv, CauseInv, NEW p \in Panes, Send(p)
    PROVE  CauseInv'
  <1> USE DEF CauseInv
  <1>1. /\ link = "up" /\ link' = link /\ sources' = sources /\ announced' = announced
        /\ metadata' = metadata /\ layout' = layout /\ raced' = raced
        /\ worker = [step |-> "send", pane |-> p] /\ GoOn(p)
    BY DEF Send, At, brokerVars
  <1>5. disabled \subseteq disabled' /\ Live' \subseteq Live
    <2>1. disabled \subseteq disabled'
      BY ReleasedType DEF Send, SessionInv
    <2> QED
      BY <1>1, <2>1 DEF Live
  <1>6. p \in Live
    BY <1>1 DEF SessionInv, PipeInv, TurnInv, Live
  <1>2. worker'.step \notin {"take", "send"}
    BY <1>1, GoOnTurn DEF SessionInv
  <1>3. CASE pipe' = pipe /\ sent' = sent
    BY <1>1, <1>2, <1>3, <1>5, ContentQuiet, SizeQuiet
  <1>4. CASE \E blobs \in Seq(Packets), frame \in Packets : Written(p, blobs, frame)
    <2>1. PICK blobs \in Seq(Packets), frame \in Packets : Written(p, blobs, frame)
      BY <1>4
    <2> DEFINE new == blobs \o <<frame>>
               len == Len(pipe)
    <2>2. /\ new \in Seq(Packets) /\ Len(blobs) \in Nat /\ Len(new) = Len(blobs) + 1
          /\ \A i \in 1..Len(new) : new[i] = IF i <= Len(blobs) THEN blobs[i] ELSE frame
          /\ \A i \in 1..Len(new) : i <= Len(blobs) => i \in 1..Len(blobs)
      BY WrittenLast
    <2>3. pipe' = pipe \o new /\ pipe \in Seq(Packets)
      BY <2>1 DEF Written, SessionInv, TypeOK
    <2> HIDE DEF new
    <2>4. /\ Len(pipe') = len + Len(new) /\ len \in Nat
          /\ \A k \in 1..(len + Len(new)) :
                pipe'[k] = IF k <= len THEN pipe[k] ELSE new[k - len]
      BY <2>2, <2>3, ConcatProperties, LenProperties
    <2> HIDE DEF len
    <2>5. ASSUME NEW k \in 1..Len(pipe')
          PROVE  \/ k \in 1..len /\ k \in 1..(len + 1) /\ pipe'[k] = pipe[k]
                 \/ \E m \in 1..Len(blobs) : pipe'[k] = blobs[m]
                 \/ k = len + Len(blobs) + 1 /\ pipe'[k] = frame
      <3>1. CASE k <= len
        BY <2>4, <3>1
      <3>2. CASE ~(k <= len)
        <4>1. k - len \in 1..Len(new) /\ pipe'[k] = new[k - len]
          BY <2>2, <2>4, <3>2
        <4>2. CASE k - len <= Len(blobs)
          BY <2>2, <4>1, <4>2
        <4>3. CASE ~(k - len <= Len(blobs))
          <5>1. pipe'[k] = frame
            BY <2>2, <4>1, <4>3
          <5>2. k = len + Len(blobs) + 1
            BY <2>2, <2>4, <4>1, <4>3
          <5> QED
            BY <5>1, <5>2
        <4> QED
          BY <4>2, <4>3
      <3> QED
        BY <3>1, <3>2
    <2>6. \A m \in 1..Len(new) : new[m].type \in {"blob", "frame"}
      <3> TAKE m \in 1..Len(new)
      <3>1. CASE m <= Len(blobs)
        BY <2>1, <2>2, <3>1 DEF Written
      <3>2. CASE ~(m <= Len(blobs))
        BY <2>1, <2>2, <3>2 DEF Written
      <3> QED
        BY <3>1, <3>2
    <2>7. \A q : \A m \in 1..Len(new) : ~Sized(new[m], q)
      BY <2>6 DEF Sized
    <2>8. /\ Now = len + 1 /\ Now \in 1..(len + 1) /\ Now' \in 1..(Len(pipe') + 1)
          /\ Now' > len /\ Now' \in Nat /\ Now <= Now'
          /\ Now' = len + Len(blobs) + 2
      BY <2>2, <2>4 DEF Now, len
    <2>9. frame.type = "frame" /\ frame.pane = p /\ frame.size = Size(taken.layout)
          /\ frame.images = taken.images
      BY <2>1 DEF Written
    <2>10. \A m \in 1..Len(blobs) : /\ blobs[m].type = "blob" /\ blobs[m].pane = p
                                    /\ \E i \in Fresh(p) : blobs[m].images = {i}
      BY <2>1 DEF Written
    <2>11. SizeInv'
      <3>1. ASSUME NEW k \in 1..Len(pipe'), pipe'[k].type = "frame", pipe'[k].pane \notin raced
            PROVE  InEffect(pipe', sources[pipe'[k].pane].size, pipe'[k].pane, k, pipe'[k].size)
        <4>1. CASE k \in 1..len /\ k \in 1..(len + 1) /\ pipe'[k] = pipe[k]
          <5>1. InEffect(pipe, sources[pipe[k].pane].size, pipe[k].pane, k, pipe[k].size)
            BY <1>1, <3>1, <4>1 DEF SizeInv, len
          <5> QED
            BY <2>2, <2>3, <4>1, <5>1, EffectWritten DEF len
        <4>2. CASE k = len + Len(blobs) + 1 /\ pipe'[k] = frame
          <5>1. InEffect(pipe, sources[p].size, p, Now, Size(taken.layout))
            BY <1>1, <2>9, <3>1, <4>2 DEF SizeInv
          <5>2. k > len /\ k \in 1..(Len(pipe') + 1)
            BY <2>2, <2>4, <4>2
          <5>3. InEffect(pipe', sources[p].size, p, k, Size(taken.layout))
            BY <2>2, <2>3, <2>7, <2>8, <5>1, <5>2, EffectWritten DEF len
          <5> QED
            BY <2>9, <4>2, <5>3
        <4> QED
          BY <2>5, <2>10, <3>1, <4>1, <4>2
      <3>2. ASSUME NEW q \in Panes, announced[q], ~metadata[q]
            PROVE  InEffect(pipe', sources[q].size, q, Now', Size(layout[q]))
        <4>1. InEffect(pipe, sources[q].size, q, Now, Size(layout[q]))
          BY <1>1, <3>2 DEF SizeInv
        <4> QED
          BY <2>2, <2>3, <2>7, <2>8, <4>1, EffectWritten DEF len
      <3>3. \A q : /\ worker' # [step |-> "take", pane |-> q]
                   /\ worker' # [step |-> "send", pane |-> q]
        BY <1>2
      <3> QED
        BY <1>1, <3>1, <3>2, <3>3 DEF SizeInv
    <2>12. Fresh(p) \subseteq Images /\ taken.images \subseteq Images
      BY DEF Fresh, SessionInv, TypeOK, Batches
    <2>13. /\ Sent(p, sent') = Sent(p, sent) \cup Fresh(p)
           /\ \A q : q # p => Sent(q, sent') = Sent(q, sent)
           /\ taken.images \subseteq Sent(p, sent')
      <3>1. sent' = sent \cup {<<p, i>> : i \in Fresh(p)}
        BY <2>1 DEF Written
      <3> QED
        BY <2>12, <3>1 DEF Sent, Fresh
    <2>14. Registered' = Registered
      BY <1>1 DEF Registered
    <2>15. ContentInv'
      <3>1. \A q : Sent(q, sent) \subseteq Sent(q, sent')
        BY <2>13
      <3>2. ASSUME NEW k \in 1..Len(pipe'), pipe'[k].type = "blob"
            PROVE  \E i \in Sent(pipe'[k].pane, sent') : pipe'[k].images = {i}
        <4>1. CASE k \in 1..len /\ pipe'[k] = pipe[k]
          <5>1. PICK i \in Sent(pipe[k].pane, sent) : pipe[k].images = {i}
            BY <3>2, <4>1 DEF ContentInv, len
          <5>2. i \in Sent(pipe[k].pane, sent')
            BY <3>1, <5>1
          <5> QED
            BY <2>13, <4>1, <5>1, <5>2 DEF Sent
        <4>2. CASE \E m \in 1..Len(blobs) : pipe'[k] = blobs[m]
          <5>1. PICK m \in 1..Len(blobs) : pipe'[k] = blobs[m]
            BY <4>2
          <5>2. pipe'[k].pane = p
            BY <2>10, <5>1
          <5> QED
            BY <2>10, <2>13, <5>1, <5>2 DEF Sent
        <4> QED
          BY <2>5, <2>9, <3>2, <4>1, <4>2
      <3> QED
        BY <1>1, <2>14, <3>1, <3>2 DEF ContentInv, Sent
    <2>16. ASSUME NEW q \in Panes, Total(Sent(q, sent')) <= Cap
           PROVE  Total(Sent(q, sent)) <= Cap
      <3>1. Sent(q, sent) \in SUBSET Images /\ Sent(q, sent') \in SUBSET Images
        BY DEF Sent
      <3>2. Sent(q, sent) \subseteq Sent(q, sent')
        BY <2>13
      <3>3. Total(Sent(q, sent)) <= Total(Sent(q, sent'))
        BY <3>1, <3>2, TotalMonotonic
      <3>4. Total(Sent(q, sent)) \in Nat /\ Total(Sent(q, sent')) \in Nat /\ Cap \in Nat
        BY <3>1, TotalFinite, SessionAssumption
      <3> HIDE DEF Total
      <3> QED
        BY <2>16, <3>3, <3>4
    <2>17. ASSUME NEW i \in Fresh(p), NEW entries, NEW l \in Nat, l > len + Len(blobs)
           PROVE  Carried(pipe', entries, p, l, i)
      <3>1. PICK m \in 1..Len(blobs) : blobs[m].images = {i}
        BY <2>1 DEF Written
      <3>2. m \in 1..Len(new) /\ new[m] = blobs[m] /\ l > len + m
        BY <2>2, <2>4, <2>17
      <3> QED
        BY <2>2, <2>3, <2>10, <3>1, <3>2, CarriedWritten DEF len
    <2>18. DeliveryInv'
      <3> HIDE DEF Total
      <3>1. ASSUME NEW q \in Panes, q \in Live,
                   Total(Sent(q, sent')) <= Cap, NEW i \in Sent(q, sent')
            PROVE  Carried(pipe', sources[q].store.entries, q, Now', i)
        <4>1. CASE i \in Sent(q, sent)
          <5>1. Carried(pipe, sources[q].store.entries, q, Now, i)
            BY <1>1, <2>16, <3>1, <4>1 DEF DeliveryInv
          <5> QED
            BY <2>2, <2>3, <2>8, <5>1, CarriedWritten DEF len
        <4>2. CASE i \notin Sent(q, sent)
          <5>1. q = p /\ i \in Fresh(p)
            BY <2>13, <3>1, <4>2
          <5>2. Now' > len + Len(blobs)
            BY <2>2, <2>4, <2>8
          <5> QED
            BY <2>8, <2>17, <5>1, <5>2
        <4> QED
          BY <4>1, <4>2
      <3>2. ASSUME NEW k \in 1..Len(pipe'), pipe'[k].type = "frame",
                   pipe'[k].pane \in Panes,
                   Total(Sent(pipe'[k].pane, sent')) <= Cap, NEW i \in pipe'[k].images
            PROVE  Carried(pipe', sources[pipe'[k].pane].store.entries, pipe'[k].pane, k, i)
        <4>1. CASE k \in 1..len /\ k \in 1..(len + 1) /\ pipe'[k] = pipe[k]
          <5>1. Total(Sent(pipe[k].pane, sent)) <= Cap
            BY <2>16, <3>2, <4>1
          <5>2. Carried(pipe, sources[pipe[k].pane].store.entries, pipe[k].pane, k, i)
            BY <1>1, <3>2, <4>1, <5>1 DEF DeliveryInv, len
          <5>3. k \in Nat /\ k <= k
            OBVIOUS
          <5> QED
            BY <2>2, <2>3, <4>1, <5>2, <5>3, CarriedWritten DEF len
        <4>2. CASE k = len + Len(blobs) + 1 /\ pipe'[k] = frame
          <5>1. pipe'[k].pane = p /\ i \in taken.images
            BY <2>9, <3>2, <4>2
          <5>2. k \in Nat /\ k > len + Len(blobs) /\ Now <= k
            BY <2>2, <2>4, <2>8, <4>2
          <5>3. CASE i \in Fresh(p)
            BY <2>17, <5>1, <5>2, <5>3
          <5>4. CASE i \notin Fresh(p)
            <6>1. i \in Sent(p, sent)
              BY <2>13, <5>1, <5>4
            <6>2. Total(Sent(p, sent)) <= Cap
              BY <2>16, <3>2, <5>1
            <6>3. Carried(pipe, sources[p].store.entries, p, Now, i)
              BY <1>1, <1>6, <6>1, <6>2 DEF DeliveryInv
            <6> QED
              BY <2>2, <2>3, <2>8, <5>1, <5>2, <6>3, CarriedWritten DEF len
          <5> QED
            BY <5>3, <5>4
        <4> QED
          BY <2>5, <2>10, <3>2, <4>1, <4>2
      <3>3. \A k \in 1..Len(pipe') : pipe'[k].pane \in Panes
        <4>1. pipe' \in Seq(Packets)
          BY <2>2, <2>3, ConcatProperties
        <4>2. \A k \in 1..Len(pipe') : pipe'[k] \in Packets
          BY <4>1, ElementOfSeq
        <4> QED
          BY <4>2 DEF Packets
      <3>4. Live' \subseteq Panes
        BY DEF Live
      <3> QED
        BY <1>1, <1>5, <3>1, <3>2, <3>3, <3>4 DEF DeliveryInv, Sent
    <2> QED
      BY <2>11, <2>15, <2>18
  <1> QED
    BY <1>3, <1>4, SendWrites DEF SessionInv

\* A new connection begins with nothing announced.
LEMMA CauseWorker == SessionInv /\ CauseInv /\ Worker => CauseInv'
  <1> SUFFICES ASSUME SessionInv, CauseInv, Worker PROVE CauseInv'
    OBVIOUS
  <1> USE DEF CauseInv
  <1>1. CASE Connect
    <2>1. pipe = <<>> /\ Registered = {} /\ pipe' = pipe /\ sources' = sources /\ sent' = {}
      BY <1>1 DEF Connect, SessionInv, PipeInv, DownInv, brokerVars
    <2>2. Len(pipe') = 0
      BY <2>1, EmptySeq
    <2>3. \A p \in Panes : sources[p].store.entries = {}
      BY <2>1 DEF ContentInv
    <2>4. \A p : Sent(p, sent') = {}
      BY <2>1 DEF Sent
    <2>5. \A p \in Panes : /\ ~announced'[p]
                           /\ worker' # [step |-> "take", pane |-> p]
                           /\ worker' # [step |-> "send", pane |-> p]
      BY <1>1 DEF Connect, Go
    <2>6. SizeInv'
      BY <2>2, <2>5 DEF SizeInv
    <2>7. ContentInv'
      BY <2>1, <2>2, <2>3 DEF ContentInv
    <2>8. DeliveryInv'
      BY <2>2, <2>4 DEF DeliveryInv, Sent
    <2> QED
      BY <2>6, <2>7, <2>8
  <1>2. CASE HangUp
    <2>1. link' # "up" /\ pipe' = pipe /\ sources' = sources /\ sent' = sent
      BY <1>2 DEF HangUp, brokerVars
    <2>2. Registered' = Registered
      BY <2>1 DEF Registered
    <2>3. ContentInv'
      BY <2>1, <2>2 DEF ContentInv, Sent
    <2> QED
      BY <2>1, <2>3 DEF SizeInv, DeliveryInv
  <1>3. CASE Command
    BY <1>3, ContentQuiet, SizeQuiet DEF Command, Go, brokerVars
  <1> QED
    BY <1>1, <1>2, <1>3, CauseWithdraw, CauseMetadata, CauseTake, CauseSend DEF Worker

\* The pane, if any, that is withdrawn, with nothing left of it.
Withdrawn(gone) ==
    gone \in Panes => /\ gone \in disabled /\ ~announced[gone]
                      /\ \A k \in 1..Len(Tail(pipe)) : Tail(pipe)[k].pane # gone

\* The broker reads a packet, which may be the last one of a pane.
LEMMA CauseRead ==
    ASSUME SessionInv, CauseInv, link = "up", link' = link, pipe # <<>>, pipe' = Tail(pipe),
           UNCHANGED <<layout, metadata, disabled, announced, worker, taken, sent, raced>>,
           NEW gone, Withdrawn(gone),
           \A p \in Panes \ {gone} :
                sources'[p].size = IF Sized(Head(pipe), p) THEN Head(pipe).size
                                   ELSE sources[p].size,
           \A p \in Panes : /\ sources'[p].store.entries \subseteq Sent(p, sent)
                            /\ p \notin Registered' => sources'[p].store.entries = {},
           \A p \in Panes \ {gone} : Total(Sent(p, sent)) <= Cap =>
                /\ sources[p].store.entries \subseteq sources'[p].store.entries
                /\ Head(pipe).type = "blob" /\ Head(pipe).pane = p
                   => Head(pipe).images \subseteq sources'[p].store.entries
    PROVE  CauseInv'
  <1> USE DEF CauseInv
  <1> DEFINE len == Len(pipe)
  <1>1. pipe \in Seq(Packets)
    BY DEF SessionInv, TypeOK
  <1>2. /\ len \in Nat \ {0} /\ Len(pipe') = len - 1
        /\ \A i \in 1..(len - 1) : pipe'[i] = pipe[i + 1]
    BY <1>1, HeadTailProperties, LenProperties, EmptySeq
  <1> HIDE DEF len
  <1>3. \A k \in 1..Len(pipe') : /\ k \in 1..len /\ k + 1 \in 1..len
                                 /\ pipe'[k] = pipe[k + 1]
    BY <1>2
  <1>4. Now = Now' + 1 /\ Now' \in 1..len
    BY <1>2 DEF Now, len
  <1>5. \A k \in 1..Len(pipe') : pipe'[k].pane \in Panes \ {gone}
    <2>1. \A k \in 1..len : pipe[k] \in Packets
      BY <1>1, ElementOfSeq DEF len
    <2> QED
      BY <1>3, <2>1 DEF Packets, Withdrawn
  <1>11. /\ \A q \in Panes : announced[q] => q # gone
         /\ \A q \in Live : q # gone
         /\ \A q \in Panes : worker.step \in {"take", "send"} /\ worker.pane = q => q # gone
         /\ Live' = Live /\ Live \subseteq Panes
    BY DEF Withdrawn, Live, SessionInv, PipeInv, TurnInv
  <1>6. ASSUME NEW q \in Panes, q # gone, NEW k \in 1..len, NEW size,
               InEffect(pipe, sources[q].size, q, k + 1, size)
        PROVE  InEffect(pipe', sources'[q].size, q, k, size)
    BY <1>1, <1>6, EffectRead DEF len
  <1>7. ASSUME NEW q \in Panes, q # gone, NEW k \in 1..len, NEW i, Total(Sent(q, sent)) <= Cap,
               Carried(pipe, sources[q].store.entries, q, k + 1, i)
        PROVE  Carried(pipe', sources'[q].store.entries, q, k, i)
    <2>1. /\ sources[q].store.entries \subseteq sources'[q].store.entries
          /\ Head(pipe).type = "blob" /\ Head(pipe).pane = q /\ Head(pipe).images = {i}
             => i \in sources'[q].store.entries
      BY <1>7
    <2> QED
      BY <1>1, <1>7, <2>1, CarriedRead DEF len
  <1>8. SizeInv'
    <2>1. ASSUME NEW k \in 1..Len(pipe'), pipe'[k].type = "frame", pipe'[k].pane \notin raced
          PROVE  InEffect(pipe', sources'[pipe'[k].pane].size, pipe'[k].pane, k, pipe'[k].size)
      <3>1. k \in 1..len /\ k + 1 \in 1..len /\ pipe'[k] = pipe[k + 1]
        BY <1>3
      <3>2. InEffect(pipe, sources[pipe'[k].pane].size, pipe'[k].pane, k + 1, pipe'[k].size)
        BY <2>1, <3>1 DEF SizeInv, len
      <3> QED
        BY <1>5, <1>6, <3>1, <3>2
    <2>2. ASSUME NEW q \in Panes, q # gone, NEW size,
                 InEffect(pipe, sources[q].size, q, Now, size)
          PROVE  InEffect(pipe', sources'[q].size, q, Now', size)
      BY <1>4, <1>6, <2>2
    <2>3. ASSUME NEW q \in Panes, announced[q], ~metadata[q]
          PROVE  InEffect(pipe', sources'[q].size, q, Now', Size(layout[q]))
      BY <1>11, <2>2, <2>3 DEF SizeInv
    <2>4. ASSUME NEW q \in Panes \ raced, worker = [step |-> "take", pane |-> q]
          PROVE  InEffect(pipe', sources'[q].size, q, Now', Size(layout[q]))
      BY <1>11, <2>2, <2>4 DEF SizeInv
    <2>5. ASSUME NEW q \in Panes \ raced, worker = [step |-> "send", pane |-> q]
          PROVE  InEffect(pipe', sources'[q].size, q, Now', Size(taken.layout))
      BY <1>11, <2>2, <2>5 DEF SizeInv
    <2> QED
      BY <2>1, <2>3, <2>4, <2>5 DEF SizeInv
  <1>9. ContentInv'
    <2>1. ASSUME NEW k \in 1..Len(pipe'), pipe'[k].type = "blob"
          PROVE  \E i \in Sent(pipe'[k].pane, sent) : pipe'[k].images = {i}
      <3>1. k + 1 \in 1..len /\ pipe'[k] = pipe[k + 1]
        BY <1>3
      <3> QED
        BY <2>1, <3>1 DEF ContentInv, len
    <2> QED
      BY <2>1 DEF ContentInv
  <1>10. DeliveryInv'
    <2> HIDE DEF Total
    <2>1. ASSUME NEW q \in Live, Total(Sent(q, sent)) <= Cap, NEW i \in Sent(q, sent)
          PROVE  Carried(pipe', sources'[q].store.entries, q, Now', i)
      <3>1. Carried(pipe, sources[q].store.entries, q, Now' + 1, i)
        BY <1>4, <2>1 DEF DeliveryInv
      <3> QED
        BY <1>4, <1>7, <1>11, <2>1, <3>1
    <2>2. ASSUME NEW k \in 1..Len(pipe'), pipe'[k].type = "frame",
                 Total(Sent(pipe'[k].pane, sent)) <= Cap, NEW i \in pipe'[k].images
          PROVE  Carried(pipe', sources'[pipe'[k].pane].store.entries, pipe'[k].pane, k, i)
      <3>1. k \in 1..len /\ k + 1 \in 1..len /\ pipe'[k] = pipe[k + 1]
        BY <1>3
      <3>2. Carried(pipe, sources[pipe'[k].pane].store.entries, pipe'[k].pane, k + 1, i)
        BY <2>2, <3>1 DEF DeliveryInv, len
      <3> QED
        BY <1>5, <1>7, <2>2, <3>1, <3>2
    <2> QED
      BY <1>11, <2>1, <2>2 DEF DeliveryInv
  <1> QED
    BY <1>8, <1>9, <1>10

\* In most steps no pane is.
LEMMA NoneWithdrawn == Withdrawn(NoPane) /\ NoPane \notin Panes
  BY SessionAssumption DEF Withdrawn, NoPane, Panes

\* A pane that is registered had nothing in its store before.
LEMMA CauseSourceAdded == SessionInv /\ CauseInv /\ SourceAdded => CauseInv'
  <1> SUFFICES ASSUME SessionInv, CauseInv, SourceAdded PROVE CauseInv'
    OBVIOUS
  <1> DEFINE p == Head(pipe).pane
             source == [registered |-> TRUE, size |-> Head(pipe).size, store |-> EmptyStore]
  <1>1. /\ link = "up" /\ pipe # <<>> /\ Head(pipe).type = "added"
        /\ pipe' = Tail(pipe) /\ link' = link
        /\ UNCHANGED <<layout, metadata, disabled, announced, worker, taken, sent, raced>>
        /\ sources' = [sources EXCEPT ![p] = source]
    BY DEF SourceAdded, Arrives, Consumed, Head1, workerVars, paneVars, paintVars
  <1>2. p \in Panes /\ p \notin Registered
    BY <1>1, HeadOfPipe DEF Packets, SessionInv
  <1>3. source.registered /\ source.size = Head(pipe).size /\ source.store.entries = {}
    BY DEF EmptyStore
  <1> HIDE DEF source
  <1>4. /\ sources'[p] = source
        /\ \A q \in Panes : q # p => sources'[q] = sources[q]
    BY <1>1, <1>2 DEF SessionInv, TypeOK
  <1>5. sources[p].store.entries = {}
    BY <1>2 DEF CauseInv, ContentInv
  <1>6. \A q : Sized(Head(pipe), q) <=> q = p
    BY <1>1 DEF Sized
  <1>7. \A q \in Panes : /\ sources'[q].size = IF Sized(Head(pipe), q) THEN Head(pipe).size
                                                ELSE sources[q].size
                         /\ sources'[q].store.entries = sources[q].store.entries
                         /\ q \notin Registered' => q \notin Registered
    BY <1>3, <1>4, <1>5, <1>6 DEF Registered
  <1> HIDE DEF Total
  <1> QED
    BY <1>1, <1>7, NoneWithdrawn, CauseRead DEF CauseInv, ContentInv

\* Nothing follows the removal of a pane.
LEMMA CauseSourceRemoved == SessionInv /\ CauseInv /\ SourceRemoved => CauseInv'
  <1> SUFFICES ASSUME SessionInv, CauseInv, SourceRemoved PROVE CauseInv'
    OBVIOUS
  <1> DEFINE p == Head(pipe).pane
  <1>1. /\ link = "up" /\ pipe # <<>> /\ Head(pipe).type = "removed"
        /\ pipe' = Tail(pipe) /\ link' = link
        /\ UNCHANGED <<layout, metadata, disabled, announced, worker, taken, sent, raced>>
        /\ sources' = [sources EXCEPT ![p] = Absent]
    BY DEF SourceRemoved, Arrives, Consumed, Head1, workerVars, paneVars, paintVars
  <1>2. p \in Panes /\ pipe \in Seq(Packets)
    BY <1>1, HeadOfPipe DEF Packets, SessionInv, TypeOK
  <1>3. Absent.store.entries = {}
    BY DEF Absent, EmptyStore
  <1>4. /\ sources'[p] = Absent
        /\ \A q \in Panes : q # p => sources'[q] = sources[q]
    BY <1>1, <1>2 DEF SessionInv, TypeOK
  <1>5. Withdrawn(p)
    <2> DEFINE rest == Tail(pipe)
    <2>1. /\ Head(pipe) = pipe[1] /\ 1 \in 1..Len(pipe) /\ Len(pipe) \in Nat \ {0}
          /\ Len(rest) = Len(pipe) - 1
          /\ \A k \in 1..(Len(pipe) - 1) : rest[k] = pipe[k + 1]
      BY <1>1, <1>2, HeadTailProperties, LenProperties, EmptySeq
    <2> HIDE DEF rest
    <2>2. \A k \in 1..Len(rest) : k + 1 \in 1..Len(pipe) /\ 1 < k + 1 /\ rest[k] = pipe[k + 1]
      BY <2>1
    <2>3. /\ p \in disabled /\ ~announced[p]
          /\ \A j \in 1..Len(pipe) : 1 < j => pipe[j].pane # p
      BY <1>1, <2>1 DEF SessionInv, PipeInv, RemovedInv
    <2>4. \A k \in 1..Len(rest) : rest[k].pane # p
      BY <2>2, <2>3
    <2> QED
      BY <2>3, <2>4 DEF Withdrawn, rest
  <1>6. \A q : ~Sized(Head(pipe), q)
    BY <1>1 DEF Sized
  <1>7. \A q \in Panes : q # p => (q \notin Registered' => q \notin Registered)
    BY <1>4 DEF Registered
  <1>8. \A q \in Panes : /\ sources'[q].store.entries \subseteq Sent(q, sent)
                         /\ q \notin Registered' => sources'[q].store.entries = {}
    <2> TAKE q \in Panes
    <2>1. CASE q = p
      BY <1>3, <1>4, <2>1
    <2>2. CASE q # p
      BY <1>4, <1>7, <2>2 DEF CauseInv, ContentInv
    <2> QED
      BY <2>1, <2>2
  <1> HIDE DEF Total, p
  <1> QED
    BY <1>1, <1>4, <1>5, <1>6, <1>8, CauseRead

\* A size is told, and nothing else.
LEMMA CauseSourceUpdated == SessionInv /\ CauseInv /\ SourceUpdated => CauseInv'
  <1> SUFFICES ASSUME SessionInv, CauseInv, SourceUpdated PROVE CauseInv'
    OBVIOUS
  <1> DEFINE p == Head(pipe).pane
  <1>1. /\ link = "up" /\ pipe # <<>> /\ Head(pipe).type = "updated"
        /\ pipe' = Tail(pipe) /\ link' = link
        /\ UNCHANGED <<layout, metadata, disabled, announced, worker, taken, sent, raced>>
        /\ sources' = [sources EXCEPT ![p].size = Head(pipe).size]
    BY DEF SourceUpdated, Arrives, Consumed, Head1, workerVars, paneVars, paintVars
  <1>2. p \in Panes
    BY <1>1, HeadOfPipe DEF Packets, SessionInv
  <1>3. sources \in [Panes -> [registered : BOOLEAN, size : 0..1, store : Stores]]
    BY DEF SessionInv, TypeOK
  <1>4. \A q \in Panes : /\ sources'[q].registered = sources[q].registered
                         /\ sources'[q].store = sources[q].store
                         /\ sources'[q].size = IF q = p THEN Head(pipe).size
                                              ELSE sources[q].size
    <2>1. Head(pipe).size \in 0..1
      BY <1>1, HeadOfPipe DEF Packets, SessionInv
    <2> HIDE DEF p
    <2> QED
      BY <1>1, <1>2, <1>3, <2>1, SizeReplaced DEF Sources
  <1>5. \A q : Sized(Head(pipe), q) <=> q = p
    BY <1>1 DEF Sized
  <1>6. \A q \in Panes : /\ sources'[q].size = IF Sized(Head(pipe), q) THEN Head(pipe).size
                                                ELSE sources[q].size
                         /\ sources'[q].store.entries = sources[q].store.entries
                         /\ q \notin Registered' => q \notin Registered
    BY <1>4, <1>5 DEF Registered
  <1> HIDE DEF Total
  <1> QED
    BY <1>1, <1>6, NoneWithdrawn, CauseRead DEF CauseInv, ContentInv

\* Of a pane that announced no more than its store holds, nothing is evicted.
LEMMA CauseImageBlob == SessionInv /\ CauseInv /\ ImageBlob => CauseInv'
  <1> SUFFICES ASSUME SessionInv, CauseInv, ImageBlob PROVE CauseInv'
    OBVIOUS
  <1> DEFINE p == Head(pipe).pane
             image == CHOOSE i \in Head(pipe).images : TRUE
             old == sources[p].store
             new == Insert(old, image, Protected(p))
  <1>1. /\ link = "up" /\ pipe # <<>> /\ Head(pipe).type = "blob"
        /\ pipe' = Tail(pipe) /\ link' = link
        /\ UNCHANGED <<layout, metadata, disabled, announced, worker, taken, sent, raced>>
        /\ sources' = [sources EXCEPT ![p].store = new]
    BY DEF ImageBlob, Arrives, Consumed, Head1, workerVars, paneVars, paintVars
  <1>2. p \in Panes /\ p \in Registered
    BY <1>1, HeadOfPipe DEF Packets, SessionInv
  <1>3. Head(pipe).images = {image} /\ image \in Sent(p, sent) /\ image \in Images
    <2>1. pipe \in Seq(Packets)
      BY DEF SessionInv, TypeOK
    <2>2. 1 \in 1..Len(pipe) /\ Head(pipe) = pipe[1]
      BY <1>1, <2>1, LenProperties, EmptySeq
    <2>3. PICK i \in Sent(p, sent) : Head(pipe).images = {i}
      BY <1>1, <2>2 DEF CauseInv, ContentInv
    <2>4. image = i
      BY <2>3
    <2> QED
      BY <2>3, <2>4 DEF Sent
  <1>4. old \in Stores /\ Accounted(old) /\ old.bytes <= Cap
    BY <1>2 DEF SessionInv, StoresInv, Accounted
  <1>5. Protected(p) \in SUBSET Images /\ Total(Protected(p)) <= Cap
    BY TotalOfNone, SessionAssumption DEF Protected, SessionInv, DisplayInv, TypeOK
  <1>6. old.entries \subseteq Sent(p, sent)
    BY <1>2 DEF CauseInv, ContentInv
  <1> HIDE DEF image, old
  <1>7. /\ Accounted(new) /\ new.entries \subseteq old.entries \cup {image}
        /\ Total(old.entries \cup {image}) <= Cap => new.entries = old.entries \cup {image}
    BY <1>3, <1>4, <1>5, InsertMakesRoom
  <1> HIDE DEF new
  <1>8. sources \in [Panes -> [registered : BOOLEAN, size : 0..1, store : Stores]]
    BY DEF SessionInv, TypeOK
  <1>9. /\ sources'[p].store = new
        /\ \A q \in Panes : /\ sources'[q].registered = sources[q].registered
                            /\ sources'[q].size = sources[q].size
                            /\ q # p => sources'[q].store = sources[q].store
    <2>1. new \in Stores
      BY <1>7 DEF Accounted
    <2> HIDE DEF p
    <2> QED
      BY <1>1, <1>2, <1>8, <2>1, StoreReplaced DEF Sources
  <1>10. ASSUME Total(Sent(p, sent)) <= Cap PROVE new.entries = old.entries \cup {image}
    <2>1. old.entries \cup {image} \subseteq Sent(p, sent) /\ Sent(p, sent) \in SUBSET Images
      BY <1>3, <1>6 DEF Sent
    <2>2. Total(old.entries \cup {image}) <= Total(Sent(p, sent))
      BY <2>1, TotalMonotonic
    <2>3. /\ Total(old.entries \cup {image}) \in Nat /\ Total(Sent(p, sent)) \in Nat
          /\ Cap \in Nat
      BY <2>1, TotalFinite, SessionAssumption
    <2> HIDE DEF Total
    <2> QED
      BY <1>7, <1>10, <2>2, <2>3
  <1>11. Registered' = Registered
    BY <1>9 DEF Registered
  <1>12. \A q : ~Sized(Head(pipe), q)
    BY <1>1 DEF Sized
  <1> HIDE DEF Total
  <1>13. ASSUME NEW q \in Panes
         PROVE  /\ sources'[q].store.entries \subseteq Sent(q, sent)
                /\ q \notin Registered' => sources'[q].store.entries = {}
                /\ Total(Sent(q, sent)) <= Cap =>
                      /\ sources[q].store.entries \subseteq sources'[q].store.entries
                      /\ Head(pipe).type = "blob" /\ Head(pipe).pane = q
                         => Head(pipe).images \subseteq sources'[q].store.entries
    <2>1. CASE q = p
      <3>1. sources'[q].store = new /\ sources[q].store = old
        BY <1>9, <2>1 DEF old
      <3> QED
        BY <1>2, <1>3, <1>6, <1>7, <1>10, <1>11, <2>1, <3>1
    <2>2. CASE q # p
      <3>1. sources'[q].store = sources[q].store
        BY <1>9, <2>2
      <3> QED
        BY <1>11, <2>2, <3>1 DEF CauseInv, ContentInv
    <2> QED
      BY <2>1, <2>2
  <1> HIDE DEF p
  <1> QED
    BY <1>1, <1>9, <1>12, <1>13, NoneWithdrawn, CauseRead

\* A frame changes what is on display only.
LEMMA CauseFrameAccepted == SessionInv /\ CauseInv /\ FrameAccepted => CauseInv'
  <1> SUFFICES ASSUME SessionInv, CauseInv, FrameAccepted PROVE CauseInv'
    OBVIOUS
  <1>1. /\ link = "up" /\ pipe # <<>> /\ Head(pipe).type = "frame"
        /\ pipe' = Tail(pipe) /\ link' = link /\ sources' = sources
        /\ UNCHANGED <<layout, metadata, disabled, announced, worker, taken, sent, raced>>
    BY DEF FrameAccepted, Arrives, Consumed, Head1, workerVars, paneVars, paintVars
  <1>2. Registered' = Registered
    BY <1>1 DEF Registered
  <1>3. \A q : ~Sized(Head(pipe), q)
    BY <1>1 DEF Sized
  <1> HIDE DEF Total
  <1> QED
    BY <1>1, <1>2, <1>3, NoneWithdrawn, CauseRead DEF CauseInv, ContentInv

\* The connection ends: nothing is on its way, and no store holds anything.
LEMMA CauseTornDown == TornDown => CauseInv'
  <1> SUFFICES ASSUME TornDown PROVE CauseInv'
    OBVIOUS
  <1>1. link' # "up" /\ Len(pipe') = 0
    BY EmptySeq DEF TornDown
  <1>2. \A p \in Panes : sources'[p].store.entries = {}
    BY DEF TornDown, Absent, EmptyStore
  <1> QED
    BY <1>1, <1>2 DEF CauseInv, SizeInv, ContentInv, DeliveryInv

\* Every step preserves it.
LEMMA CauseNext == SessionInv /\ CauseInv /\ [Next]_vars => CauseInv'
  <1> SUFFICES ASSUME SessionInv, CauseInv, [Next]_vars PROVE CauseInv'
    OBVIOUS
  <1>1. CASE FrameRefused \/ Loss
    BY <1>1, CauseTornDown DEF FrameRefused, Loss
  <1>2. CASE UNCHANGED vars
    BY <1>2, ContentQuiet, SizeQuiet
       DEF CauseInv, vars, paneVars, paintVars, workerVars, linkVars, brokerVars
  <1> QED
    BY <1>1, <1>2, CauseTerminal, CauseWorker, CauseSourceAdded, CauseSourceUpdated,
       CauseSourceRemoved, CauseImageBlob, CauseFrameAccepted DEF Next, Broker

\* What the broker refuses, it has cause to.
LEMMA RefusedWithCause ==
    ASSUME SessionInv, CauseInv, FrameRefused
    PROVE  Head1.pane \in raced \/ Total({i \in Images : <<Head1.pane, i>> \in sent}) > Cap
  <1> DEFINE p == Head1.pane
             store == sources[p].store
  <1>1. /\ link = "up" /\ pipe # <<>> /\ Head1.type = "frame" /\ ~Acceptable(Head1)
        /\ pipe \in Seq(Packets)
    BY DEF FrameRefused, Arrives, SessionInv, TypeOK
  <1>2. p \in Panes
    BY <1>1, HeadOfPipe DEF Packets, SessionInv, Head1
  <1>3. 1 \in 1..Len(pipe) /\ Head1 = pipe[1]
    BY <1>1, LenProperties, EmptySeq DEF Head1
  <1>4. \A j \in 1..Len(pipe) : ~(j < 1)
    OBVIOUS
  <1>5. ASSUME p \notin raced PROVE Head1.size = sources[p].size
    <2>1. InEffect(pipe, sources[p].size, p, 1, Head1.size)
      BY <1>1, <1>3, <1>5 DEF CauseInv, SizeInv
    <2> QED
      BY <1>4, <2>1 DEF InEffect
  <1>6. ASSUME Total(Sent(p, sent)) <= Cap PROVE Head1.images \subseteq store.entries
    <2> HIDE DEF Total
    <2>1. \A i \in Head1.images : Carried(pipe, store.entries, p, 1, i)
      BY <1>1, <1>3, <1>6 DEF CauseInv, DeliveryInv
    <2> QED
      BY <1>4, <2>1 DEF Carried
  <1>7. Total(Sent(p, sent)) \in Nat /\ Cap \in Nat
    <2>1. Sent(p, sent) \in SUBSET Images
      BY DEF Sent
    <2> QED
      BY <2>1, TotalFinite, SessionAssumption
  <1>8. p \in raced \/ Total(Sent(p, sent)) > Cap
    <2> HIDE DEF Total
    <2> QED
      BY <1>1, <1>5, <1>6, <1>7 DEF Acceptable
  <1> HIDE DEF Total
  <1> QED
    BY <1>8 DEF Sent

\* What the worker believes the broker has, the broker has or will have when it
\* reads what follows: sizes except across a race, images up to the cap.
THEOREM CauseInvariant == Spec => [](SessionInv /\ CauseInv)
  <1>1. Init => SessionInv /\ CauseInv
    BY SessionInit, CauseInit
  <1>2. SessionInv /\ CauseInv /\ [Next]_vars => (SessionInv /\ CauseInv)'
    BY SessionNext, CauseNext
  <1> QED
    BY <1>1, <1>2, PTL DEF Spec

\* A frame of the adapter's own is refused, and the connection of all panes ended,
\* only when a resize fell between the metadata and the batch, or when the pane
\* announced more over this connection than its store holds.
THEOREM RefusalsHaveCause == Spec => RefusalHasCause
  <1> DEFINE HasCause ==
        FrameRefused =>
            \/ Head1.pane \in raced
            \/ Total({i \in Images : <<Head1.pane, i>> \in sent}) > Cap
  <1>1. SessionInv /\ CauseInv /\ [Next]_vars => [HasCause]_vars
    BY RefusedWithCause
  <1> HIDE DEF HasCause
  <1>2. Spec => [][HasCause]_vars
    BY <1>1, CauseInvariant, PTL DEF Spec
  <1> QED
    BY <1>2, PTL DEF RefusalHasCause, HasCause
=============================================================================
