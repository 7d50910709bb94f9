------------------------- MODULE ReconstructionProofs -------------------------
(***************************************************************************)
(* The reconstruction of a window, for every tree and every limit: what is *)
(* captured is the beginning of the document, a listing shows the node     *)
(* with the focus, and what is drawn is whole, down to the half of a wide  *)
(* glyph and the last column of a row.                                     *)
(*                                                                         *)
(* The capture is a run over the nodes, one capture each.  Its invariant   *)
(* says which nodes are kept after the first m, and relates the depth      *)
(* beyond which nodes are passed over to the hidden nodes above the next.  *)
(*                                                                         *)
(* The drawing has an invariant of its own: the canvas is whole, and every *)
(* entry that is left to draw has a place that begins on the canvas or     *)
(* beyond it and is a row high.  That the places are such is the layout's  *)
(* part (projection, widths of columns, packing of rows), that a whole     *)
(* canvas stays whole is the canvas's part, and both rest on what wrapping *)
(* and cutting make of texts.                                              *)
(*                                                                         *)
(* What is laid out stays apart: projections by the order of quotients,    *)
(* the columns of a table by what their widths add up to, its rows and     *)
(* those of a list by the row the packing has reached.  That the places of *)
(* a frame are those it was drawn with is the last invariant.              *)
(*                                                                         *)
(* What is drawn keeps to its place: every operation of the canvas writes  *)
(* within a rectangle (Within) or into what is empty (Spares), and so does *)
(* every control, which is a few of them one after another.                *)
(***************************************************************************)
EXTENDS Reconstruction, DataLemmas, SequenceTheorems

-------------------------------------------------------------------------------
(* The snapshot.                                                               *)

LEMMA Limits ==
    /\ Cols \in Nat \ {0} /\ MaxDepth \in Nat /\ MaxNodes \in Nat \ {0}
  BY ReconstructionAssumption

LEMMA NodesOfWindow ==
    ASSUME OneRoot(window)
    PROVE  /\ Len(window) \in Nat \ {0} /\ DOMAIN window = 1..Len(window)
           /\ \A i \in 1..Len(window) :
                  /\ window[i] \in Nodes /\ window[i].depth \in Nat
                  /\ window[i].depth = 0 <=> i = 1
  <1>1. window \in Seq(Nodes) /\ window # <<>>
        /\ \A i \in DOMAIN window : window[i].depth = 0 <=> i = 1
    BY DEF OneRoot
  <1>2. Len(window) \in Nat /\ DOMAIN window = 1..Len(window) /\ Len(window) # 0
    BY <1>1, LenProperties, EmptySeq
  <1>3. \A i \in 1..Len(window) : window[i] \in Nodes
    BY <1>1, <1>2, ElementOfSeq
  <1> QED
    BY <1>1, <1>2, <1>3 DEF Nodes

Found == {window[i] : i \in DOMAIN window}
Captures == [kept : Seq(Found), truncated : BOOLEAN, under : Int]
NoneYet == [kept |-> <<>>, truncated |-> FALSE, under |-> MaxDepth]

\* The depth beyond which nodes are passed over.
Bound(acc) == Min({acc.under, MaxDepth})

LEMMA CaptureStep ==
    ASSUME NEW acc \in Captures, NEW i \in DOMAIN window, window[i].depth \in Nat
    PROVE  /\ Bound(acc) = IF acc.under <= MaxDepth THEN acc.under ELSE MaxDepth
           /\ capture_node(acc, window[i]) \in Captures
  <1> DEFINE node == window[i]
  <1>1. acc.under \in Int /\ acc.kept \in Seq(Found) /\ acc.truncated \in BOOLEAN
        /\ acc = [kept |-> acc.kept, truncated |-> acc.truncated, under |-> acc.under]
    BY DEF Captures
  <1>2. Bound(acc) = IF acc.under <= MaxDepth THEN acc.under ELSE MaxDepth
    BY <1>1, Limits, MinPair DEF Bound
  <1>3. node \in Found /\ Append(acc.kept, node) \in Seq(Found)
    BY <1>1 DEF Found
  <1>4. node.depth \in Int /\ node.depth - 1 \in Int
    OBVIOUS
  <1>5. [acc EXCEPT !.under = node.depth] \in Captures
    BY <1>1, <1>4 DEF Captures
  <1>6. [acc EXCEPT !.truncated = TRUE, !.under = node.depth - 1] \in Captures
    <2> DEFINE one == [acc EXCEPT !.truncated = TRUE]
    <2>1. one \in Captures
      BY <1>1 DEF Captures
    <2>2. [one EXCEPT !.under = node.depth - 1] \in Captures
      <3> HIDE DEF one
      <3> QED
        BY <1>4, <2>1 DEF Captures
    <2> QED
      BY <2>2
  <1>7. [acc EXCEPT !.kept = Append(@, node), !.under = MaxDepth] \in Captures
    <2> DEFINE one == [acc EXCEPT !.kept = Append(@, node)]
    <2>1. one \in Captures
      <3> HIDE DEF node
      <3> QED
        BY <1>1, <1>3 DEF Captures
    <2>2. [one EXCEPT !.under = MaxDepth] \in Captures
      <3> HIDE DEF one
      <3> QED
        BY <2>1, Limits DEF Captures
    <2> QED
      BY <2>2
  <1>8. capture_node(acc, node) \in Captures
    <2> HIDE DEF node
    <2> QED
      BY <1>5, <1>6, <1>7 DEF capture_node
  <1> QED
    BY <1>2, <1>8

\* The snapshot is a run of captures, one for each node.
LEMMA SnapshotRuns ==
    ASSUME OneRoot(window)
    PROVE  \E run : /\ run[0] = NoneYet
                    /\ \A m \in 1..Len(window) : run[m] = capture_node(run[m - 1], window[m])
                    /\ Snapshot = run[Len(window)]
  <1> DEFINE n == Len(window)
             step == [z \in Captures \X (1..n) |-> capture_node(z[1], window[z[2]])]
             Folds(it) == it = [s \in SUBSET DOMAIN window |->
                                   IF s = {} THEN NoneYet
                                   ELSE capture_node(it[s \ {Max(s)}], window[Max(s)])]
             it == CHOOSE f : Folds(f)
             run == [m \in 0..n |-> it[1..m]]
  <1>1. n \in Nat /\ DOMAIN window = 1..n /\ \A i \in 1..n : window[i].depth \in Nat
    BY NodesOfWindow
  <1>2. Folds(it)
    <2>1. NoneYet \in Captures
      BY Limits DEF NoneYet, Captures
    <2>2. step \in [Captures \X (1..n) -> Captures]
      BY <1>1, CaptureStep
    <2> HIDE DEF step, n
    <2>3. PICK f \in [SUBSET (1..n) -> Captures] : FoldedOver(f, n, NoneYet, step)
      BY <1>1, <2>1, <2>2, FoldDefined
    <2>4. ASSUME NEW s \in SUBSET (1..n), s # {}
          PROVE  step[<<f[s \ {Max(s)}], Max(s)>>]
                 = capture_node(f[s \ {Max(s)}], window[Max(s)])
      <3>1. Max(s) \in 1..n
        <4>1. s \subseteq 0..n
          BY <1>1
        <4> QED
          BY <4>1, <1>1, <2>4, MaxOf
      <3>2. f[s \ {Max(s)}] \in Captures
        BY <2>3
      <3> QED
        BY <3>1, <3>2 DEF step
    <2>5. Folds(f)
      BY <1>1, <2>3, <2>4 DEF FoldedOver
    <2> HIDE DEF Folds
    <2> QED
      BY <2>5
  <1>3. Snapshot = it[1..n]
    BY <1>1 DEF Snapshot, FoldLeft, MapThenFoldSet, NoneYet
  <1> HIDE DEF it
  <1>4. run[0] = NoneYet
    BY <1>1, <1>2
  <1>5. ASSUME NEW m \in 1..n PROVE run[m] = capture_node(run[m - 1], window[m])
    <2>1. m - 1 \in Nat /\ (m - 1) + 1 = m /\ m - 1 \in 0..n /\ m \in 0..n
      BY <1>1
    <2>2. 1..m # {} /\ Max(1..m) = m /\ (1..m) \ {m} = 1..m - 1
      BY <2>1, TopOfInterval
    <2>3. 1..m \in SUBSET DOMAIN window
      BY <1>1
    <2> QED
      BY <1>1, <1>2, <2>1, <2>2, <2>3
  <1>6. run[n] = it[1..n]
    BY <1>1
  <1> HIDE DEF run
  <1> QED
    BY <1>3, <1>4, <1>5, <1>6
-------------------------------------------------------------------------------
(* What a run of captures has after m nodes.                                   *)

Ahead(m) == {i \in 1..m : Eligible(i)}
Rank(m) == Cardinality(Ahead(m))
\* The hidden nodes whose subtrees the m-th node ends or lies in.
Hidden(m) ==
    {j \in 2..m : ~window[j].visible /\ \A k \in j + 1..m : window[k].depth > window[j].depth}
\* Nodes are passed over from the shallowest of them on.
Passing(m, acc) ==
    /\ \A j \in Hidden(m) : Bound(acc) <= window[j].depth
    /\ Bound(acc) = MaxDepth \/ \E j \in Hidden(m) : window[j].depth = Bound(acc)
CapturedUpto(m, acc) ==
    /\ acc \in Captures
    /\ \A i \in Ahead(m) : Rank(i) <= MaxNodes => acc.kept[Rank(i)] = window[i]
    /\ IF Rank(m) <= MaxNodes
       THEN acc.truncated = FALSE /\ Len(acc.kept) = Rank(m) /\ Passing(m, acc)
       ELSE acc.truncated = TRUE /\ Len(acc.kept) = MaxNodes

\* Ranks count the eligible nodes.
LEMMA Ranks ==
    /\ Rank(0) = 0
    /\ \A m \in Nat : IsFiniteSet(Ahead(m)) /\ Rank(m) \in Nat
    /\ \A m \in Nat : Rank(m + 1) = IF Eligible(m + 1) THEN Rank(m) + 1 ELSE Rank(m)
    /\ \A m \in Nat : \A i \in 0..m : Rank(i) <= Rank(m)
  <1>1. ASSUME NEW m \in Nat PROVE IsFiniteSet(Ahead(m)) /\ Rank(m) \in Nat
    <2>1. IsFiniteSet(1..m)
      BY FS_Interval
    <2>2. Ahead(m) \subseteq 1..m
      BY DEF Ahead
    <2>3. IsFiniteSet(Ahead(m))
      BY <2>1, <2>2, FS_Subset
    <2> QED
      BY <2>3, FS_CardinalityType DEF Rank
  <1>2. Rank(0) = 0
    <2>1. Ahead(0) = {}
      BY DEF Ahead
    <2> QED
      BY <2>1, FS_EmptySet DEF Rank
  <1>3. ASSUME NEW m \in Nat
        PROVE  Rank(m + 1) = IF Eligible(m + 1) THEN Rank(m) + 1 ELSE Rank(m)
    <2>1. CASE Eligible(m + 1)
      <3>1. Ahead(m + 1) = Ahead(m) \cup {m + 1} /\ m + 1 \notin Ahead(m)
        BY <2>1 DEF Ahead
      <3> QED
        BY <1>1, <2>1, <3>1, FS_AddElement DEF Rank
    <2>2. CASE ~Eligible(m + 1)
      <3>1. Ahead(m + 1) = Ahead(m)
        BY <2>2 DEF Ahead
      <3> QED
        BY <2>2, <3>1 DEF Rank
    <2> QED
      BY <2>1, <2>2
  <1>4. ASSUME NEW m \in Nat, NEW i \in 0..m PROVE Rank(i) <= Rank(m)
    <2>1. Ahead(i) \subseteq Ahead(m)
      BY DEF Ahead
    <2> QED
      BY <1>1, <2>1, FS_Subset DEF Rank
  <1> QED
    BY <1>1, <1>2, <1>3, <1>4

\* While nothing is cut off, the bound and the node's own visibility decide.
LEMMA NextEligible ==
    ASSUME OneRoot(window), NEW m \in Nat, m + 1 \in DOMAIN window,
           NEW acc \in Captures, Passing(m, acc)
    PROVE  Eligible(m + 1) <=> /\ window[m + 1].depth <= Bound(acc)
                               /\ m + 1 = 1 \/ window[m + 1].visible
  <1> DEFINE d == window[m + 1].depth
             U == Bound(acc)
  <1>1. /\ \A i \in 1..m + 1 : window[i].depth \in Nat /\ (window[i].depth = 0 <=> i = 1)
    BY NodesOfWindow
  <1>2. U \in Int /\ U <= MaxDepth /\ MaxDepth \in Nat
    BY <1>1, CaptureStep, Limits DEF Captures
  <1>3. CASE m = 0
    <2>1. Hidden(m) = {}
      BY <1>3 DEF Hidden
    <2>2. U = MaxDepth
      BY <2>1 DEF Passing
    <2>3. d = 0
      BY <1>1, <1>3
    <2> QED
      BY <1>2, <1>3, <2>2, <2>3 DEF Eligible
  <1>4. CASE m # 0
    <2>0. m + 1 # 1 /\ m \in 1..m
      BY <1>4
    <2>1. Eligible(m + 1) <=> /\ d <= MaxDepth /\ window[m + 1].visible
                              /\ \A j \in Hidden(m) : d <= window[j].depth
      <3>1. ASSUME NEW j \in 2..m
            PROVE  (\A k \in j + 1..m + 1 : window[k].depth > window[j].depth)
                   <=> /\ \A k \in j + 1..m : window[k].depth > window[j].depth
                       /\ d > window[j].depth
        <4>1. j + 1..m + 1 = (j + 1..m) \cup {m + 1}
          BY <3>1
        <4> QED
          BY <4>1
      <3>2. ASSUME NEW j \in 2..m PROVE d \in Nat /\ window[j].depth \in Nat
        BY <1>1
      <3>3. 2..m + 1 = (2..m) \cup {m + 1}
        BY <2>0
      <3>4. (m + 1) + 1..m + 1 = {}
        OBVIOUS
      <3>5. Eligible(m + 1) <=>
               /\ d <= MaxDepth
               /\ \A j \in (2..m) \cup {m + 1} :
                     (\A k \in j + 1..m + 1 : window[k].depth > window[j].depth)
                         => window[j].visible
        BY <2>0, <3>3 DEF Eligible
      <3>6. \A j \in 2..m : j \in Hidden(m) <=>
                /\ ~window[j].visible
                /\ \A k \in j + 1..m : window[k].depth > window[j].depth
        BY DEF Hidden
      <3>7. Hidden(m) \subseteq 2..m
        BY DEF Hidden
      <3> QED
        BY <3>1, <3>2, <3>4, <3>5, <3>6, <3>7
    <2>2. d \in Nat /\ \A j \in Hidden(m) : window[j].depth \in Nat
      BY <1>1 DEF Hidden
    <2> HIDE DEF U, d
    <2>3. /\ \A j \in Hidden(m) : U <= window[j].depth
          /\ U = MaxDepth \/ \E j \in Hidden(m) : window[j].depth = U
      BY DEF Passing, U
    <2>4. CASE d <= U
      BY <1>2, <2>0, <2>1, <2>2, <2>3, <2>4 DEF U, d
    <2>5. CASE ~(d <= U)
      <3>1. ~Eligible(m + 1)
        BY <1>2, <2>1, <2>2, <2>3, <2>5
      <3> QED
        BY <2>5, <3>1 DEF U, d
    <2> QED
      BY <2>4, <2>5
  <1> QED
    BY <1>3, <1>4

\* One more node.
LEMMA CapturedNext ==
    ASSUME OneRoot(window), NEW m \in Nat, m + 1 \in DOMAIN window,
           NEW acc, CapturedUpto(m, acc)
    PROVE  CapturedUpto(m + 1, capture_node(acc, window[m + 1]))
  <1> DEFINE node == window[m + 1]
             next == capture_node(acc, node)
  <1> SUFFICES CapturedUpto(m + 1, next)
    OBVIOUS
  <1>1. /\ node.depth \in Nat /\ (node.depth = 0 <=> m + 1 = 1)
        /\ \A i \in 1..m + 1 : window[i].depth \in Nat
    BY NodesOfWindow
  <1>2. acc \in Captures /\ next \in Captures
        /\ Bound(acc) \in Int /\ Bound(acc) <= MaxDepth
    BY <1>1, CaptureStep, Limits DEF CapturedUpto, Captures
  <1>3. /\ Rank(m) \in Nat
        /\ Rank(m + 1) = IF Eligible(m + 1) THEN Rank(m) + 1 ELSE Rank(m)
        /\ \A i \in Ahead(m) : Rank(i) \in Nat /\ Rank(i) <= Rank(m)
    <2>1. \A i \in Ahead(m) : i \in 0..m /\ i \in Nat
      BY DEF Ahead
    <2> QED
      BY <2>1, Ranks
  <1>4. /\ acc.kept \in Seq(Found) /\ Len(acc.kept) \in Nat
        /\ DOMAIN acc = {"kept", "truncated", "under"}
    BY <1>2 DEF Captures
  <1>5. /\ node.depth > Bound(acc) => next = acc
        /\ ~(node.depth > Bound(acc)) /\ node.depth > 0 /\ ~node.visible =>
              next = [acc EXCEPT !.under = node.depth]
        /\ ~(node.depth > Bound(acc)) /\ ~(node.depth > 0 /\ ~node.visible) =>
              next = IF Len(acc.kept) >= MaxNodes
                     THEN [acc EXCEPT !.truncated = TRUE, !.under = node.depth - 1]
                     ELSE [acc EXCEPT !.kept = Append(@, node), !.under = MaxDepth]
    BY DEF capture_node, Bound
  <1>6. \A i \in Ahead(m + 1) : i \in Ahead(m) \/ (i = m + 1 /\ Eligible(m + 1))
    BY DEF Ahead
  <1>7. MaxNodes \in Nat \ {0} /\ MaxDepth \in Nat
    BY Limits
  \* What is full stays as it is.
  <1>8. CASE ~(Rank(m) <= MaxNodes)
    <2>1. acc.truncated = TRUE /\ Len(acc.kept) = MaxNodes
      BY <1>8 DEF CapturedUpto
    <2>2. next.kept = acc.kept /\ next.truncated = TRUE
      <3> HIDE DEF node, next
      <3>1. next \in {acc, [acc EXCEPT !.under = node.depth],
                      [acc EXCEPT !.truncated = TRUE, !.under = node.depth - 1]}
        BY <1>5, <1>7, <2>1
      <3> QED
        BY <1>4, <2>1, <3>1
    <2>3. ~(Rank(m + 1) <= MaxNodes)
      BY <1>3, <1>7, <1>8
    <2>4. \A i \in Ahead(m + 1) : Rank(i) <= MaxNodes => next.kept[Rank(i)] = window[i]
      <3> HIDE DEF node, next
      <3> QED
        BY <1>6, <2>2, <2>3 DEF CapturedUpto
    <2> HIDE DEF next
    <2> QED
      BY <1>2, <2>1, <2>2, <2>3, <2>4 DEF CapturedUpto
  <1>9. CASE Rank(m) <= MaxNodes
    <2>1. acc.truncated = FALSE /\ Len(acc.kept) = Rank(m) /\ Passing(m, acc)
      BY <1>9 DEF CapturedUpto
    <2>2. Eligible(m + 1) <=> node.depth <= Bound(acc) /\ (m + 1 = 1 \/ node.visible)
      BY <1>2, <2>1, NextEligible
    <2>3. \A j \in Hidden(m + 1) :
             \/ j = m + 1 /\ ~node.visible
             \/ j \in Hidden(m) /\ node.depth > window[j].depth
      BY DEF Hidden
    <2>4. \A j \in Hidden(m) : node.depth > window[j].depth => j \in Hidden(m + 1)
      <3> SUFFICES ASSUME NEW j \in Hidden(m), node.depth > window[j].depth
                   PROVE  j \in Hidden(m + 1)
        OBVIOUS
      <3>1. j \in 2..m /\ j + 1..m + 1 = (j + 1..m) \cup {m + 1} /\ j \in 2..m + 1
        BY DEF Hidden
      <3> QED
        BY <3>1 DEF Hidden
    <2>5. /\ \A j \in Hidden(m) : Bound(acc) <= window[j].depth /\ window[j].depth \in Nat
          /\ Bound(acc) = MaxDepth \/ \E j \in Hidden(m) : window[j].depth = Bound(acc)
      BY <1>1, <2>1 DEF Passing, Hidden
    \* Below a hidden node, or too deep.
    <2>6. CASE node.depth > Bound(acc)
      <3>1. next = acc /\ ~Eligible(m + 1)
        BY <1>1, <1>2, <1>5, <2>2, <2>6
      <3>2. Passing(m + 1, acc)
        <4> HIDE DEF next
        <4>1. \A j \in Hidden(m + 1) : Bound(acc) <= window[j].depth
          BY <1>1, <1>2, <2>3, <2>5, <2>6
        <4>2. Bound(acc) = MaxDepth \/ \E j \in Hidden(m + 1) : window[j].depth = Bound(acc)
          BY <1>1, <1>2, <2>4, <2>5, <2>6
        <4> QED
          BY <4>1, <4>2 DEF Passing
      <3> HIDE DEF next
      <3> QED
        BY <1>2, <1>3, <1>6, <1>9, <2>1, <3>1, <3>2 DEF CapturedUpto
    \* Hidden.
    <2>7. CASE ~(node.depth > Bound(acc)) /\ node.depth > 0 /\ ~node.visible
      <3>1. next = [acc EXCEPT !.under = node.depth] /\ ~Eligible(m + 1)
        BY <1>1, <1>5, <2>2, <2>7
      <3>2. next.kept = acc.kept /\ next.truncated = FALSE /\ next.under = node.depth
        <4> HIDE DEF next, node
        <4> QED
          BY <1>4, <2>1, <3>1
      <3>3. Bound(next) = node.depth
        <4> HIDE DEF next, node
        <4> QED
          BY <1>1, <1>2, <1>7, <2>7, <3>2, MinPair DEF Bound
      <3>4. Hidden(m + 1) = {m + 1}
        <4>1. m + 1 \in Hidden(m + 1)
          <5>1. m + 1 \in 2..m + 1 /\ (m + 1) + 1..m + 1 = {}
            BY <1>1, <2>7
          <5> QED
            BY <2>7, <5>1 DEF Hidden
        <4> QED
          BY <1>1, <1>2, <2>3, <2>5, <2>7, <4>1
      <3>5. Passing(m + 1, next)
        <4> HIDE DEF next
        <4> QED
          BY <1>1, <3>3, <3>4 DEF Passing
      <3> HIDE DEF next
      <3> QED
        BY <1>2, <1>3, <1>6, <1>9, <2>1, <3>1, <3>2, <3>5 DEF CapturedUpto
    \* Kept, or the first that is one too many.
    <2>8. CASE ~(node.depth > Bound(acc)) /\ ~(node.depth > 0 /\ ~node.visible)
      <3>1. Eligible(m + 1) /\ Rank(m + 1) = Rank(m) + 1
        BY <1>1, <1>2, <1>3, <2>2, <2>8
      <3>2. CASE Len(acc.kept) >= MaxNodes
        <4>1. next = [acc EXCEPT !.truncated = TRUE, !.under = node.depth - 1]
          BY <1>5, <2>8, <3>2
        <4>2. next.kept = acc.kept /\ next.truncated = TRUE
          <5> HIDE DEF next, node
          <5> QED
            BY <1>4, <4>1
        <4>3. ~(Rank(m + 1) <= MaxNodes) /\ Len(acc.kept) = MaxNodes
          BY <1>3, <1>7, <1>9, <2>1, <3>1, <3>2
        <4> HIDE DEF next
        <4> QED
          BY <1>2, <1>6, <4>2, <4>3 DEF CapturedUpto
      <3>3. CASE ~(Len(acc.kept) >= MaxNodes)
        <4>1. next = [acc EXCEPT !.kept = Append(@, node), !.under = MaxDepth]
          BY <1>5, <2>8, <3>3
        <4>2. /\ next.kept = Append(acc.kept, node)
              /\ next.truncated = FALSE /\ next.under = MaxDepth
          <5> HIDE DEF next, node
          <5> QED
            BY <1>4, <2>1, <4>1
        <4>3. node \in Found
          BY DEF Found
        <4>4. /\ Len(next.kept) = Rank(m + 1)
              /\ next.kept[Rank(m + 1)] = node
              /\ \A k \in 1..Rank(m) : next.kept[k] = acc.kept[k]
          <5> HIDE DEF next, node
          <5> QED
            BY <1>4, <2>1, <3>1, <4>2, <4>3, AppendProperties
        <4>5. Rank(m + 1) <= MaxNodes
          BY <1>3, <1>7, <2>1, <3>1, <3>3
        <4>6. \A i \in Ahead(m + 1) : next.kept[Rank(i)] = window[i]
          <5> SUFFICES ASSUME NEW i \in Ahead(m + 1) PROVE next.kept[Rank(i)] = window[i]
            OBVIOUS
          <5>1. CASE i = m + 1
            BY <4>4, <5>1
          <5>2. CASE i \in Ahead(m)
            <6>1. Rank(i) \in 1..Rank(m)
              <7>1. i \in Nat /\ i # 0 /\ i - 1 \in Nat /\ (i - 1) + 1 = i /\ Eligible(i)
                BY <5>2 DEF Ahead
              <7>2. Rank(i) = Rank(i - 1) + 1 /\ Rank(i - 1) \in Nat
                BY <7>1, Ranks
              <7> QED
                BY <1>3, <5>2, <7>2
            <6>2. next.kept[Rank(i)] = acc.kept[Rank(i)]
              BY <4>4, <6>1
            <6>3. Rank(i) <= MaxNodes
              BY <1>3, <1>7, <1>9, <5>2
            <6> HIDE DEF next
            <6> QED
              BY <5>2, <6>2, <6>3 DEF CapturedUpto
          <5> QED
            BY <1>6, <5>1, <5>2
        <4>7. Bound(next) = MaxDepth
          <5> HIDE DEF next
          <5> QED
            BY <1>7, <4>2, MinPair DEF Bound
        <4>8. Hidden(m + 1) = {}
          <5>1. m + 1 \notin Hidden(m + 1)
            BY <1>1, <2>8 DEF Hidden
          <5> QED
            BY <1>1, <1>2, <2>3, <2>5, <2>8, <5>1
        <4>9. Passing(m + 1, next)
          <5> HIDE DEF next
          <5> QED
            BY <4>7, <4>8 DEF Passing
        <4> HIDE DEF next
        <4> QED
          BY <1>2, <4>2, <4>4, <4>5, <4>6, <4>9 DEF CapturedUpto
      <3> QED
        BY <3>2, <3>3
    <2> QED
      BY <2>6, <2>7, <2>8
  <1> QED
    BY <1>3, <1>7, <1>8, <1>9

\* The snapshot is what a run of captures has after the last node.
LEMMA SnapshotIsPrefix ==
    ASSUME OneRoot(window)
    PROVE  CapturedUpto(Len(window), Snapshot)
  <1>1. PICK run : /\ run[0] = NoneYet
                   /\ \A m \in 1..Len(window) : run[m] = capture_node(run[m - 1], window[m])
                   /\ Snapshot = run[Len(window)]
    BY SnapshotRuns
  <1>2. Len(window) \in Nat /\ DOMAIN window = 1..Len(window)
    BY NodesOfWindow
  <1> DEFINE T == {m \in Nat : m <= Len(window) => CapturedUpto(m, run[m])}
  <1>3. 0 \in T
    <2>1. NoneYet \in Captures /\ Bound(NoneYet) = MaxDepth
      BY Limits, MinPair DEF NoneYet, Captures, Bound
    <2>2. Hidden(0) = {} /\ Ahead(0) = {}
      BY DEF Hidden, Ahead
    <2>3. Passing(0, NoneYet)
      BY <2>1, <2>2 DEF Passing
    <2>4. CapturedUpto(0, NoneYet)
      <3>1. NoneYet.truncated = FALSE /\ Len(NoneYet.kept) = 0
        BY DEF NoneYet
      <3>2. Rank(0) = 0 /\ 0 <= MaxNodes
        BY Ranks, Limits
      <3> QED
        BY <2>1, <2>2, <2>3, <3>1, <3>2 DEF CapturedUpto
    <2> QED
      BY <1>1, <2>4
  <1>4. ASSUME NEW m \in T PROVE m + 1 \in T
    <2>1. m \in Nat /\ m + 1 \in Nat
      BY <1>4
    <2> SUFFICES ASSUME m + 1 <= Len(window) PROVE CapturedUpto(m + 1, run[m + 1])
      BY <2>1
    <2>2. m + 1 \in DOMAIN window /\ m + 1 \in 1..Len(window) /\ (m + 1) - 1 = m
      BY <1>2, <2>1
    <2>3. CapturedUpto(m, run[m])
      BY <1>2, <1>4, <2>1
    <2>4. run[m + 1] = capture_node(run[m], window[m + 1])
      BY <1>1, <2>2
    <2> QED
      BY <2>1, <2>2, <2>3, <2>4, CapturedNext
  <1>5. T \subseteq Nat
    OBVIOUS
  <1> HIDE DEF T
  <1>6. Len(window) \in T
    BY <1>2, <1>3, <1>4, <1>5, NaturalsClosed
  <1> QED
    BY <1>1, <1>2, <1>6 DEF T

-------------------------------------------------------------------------------
(* The steps.                                                                  *)

IsWindow == OneRoot(window) /\ height \in Nat \ {0}
Captured == kept = Snapshot.kept /\ truncated = Snapshot.truncated
\* What is captured stays, and there is a frame only at the end.
CaptureInv ==
    /\ IsWindow
    /\ phase \in {"capture", "draw", "tree", "done"}
    /\ phase # "capture" => Captured
    /\ phase # "done" => frame = NoFrame
    /\ FocusIsShown

LEMMA CapturedIsPrefix ==
    ASSUME IsWindow, Captured
    PROVE  /\ CaptureIsPrefix
           /\ kept \in Seq(Found) /\ Len(kept) \in Nat \ {0} /\ DOMAIN kept = 1..Len(kept)
  <1> DEFINE n == Len(window)
             eligible == {i \in DOMAIN window : Eligible(i)}
             Place(i) == Cardinality({j \in eligible : j <= i})
  <1>1. n \in Nat \ {0} /\ DOMAIN window = 1..n
    BY NodesOfWindow DEF IsWindow
  <1>2. CapturedUpto(n, Snapshot)
    BY SnapshotIsPrefix DEF IsWindow
  <1>3. /\ kept \in Seq(Found)
        /\ \A i \in Ahead(n) : Rank(i) <= MaxNodes => kept[Rank(i)] = window[i]
        /\ IF Rank(n) <= MaxNodes THEN truncated = FALSE /\ Len(kept) = Rank(n)
           ELSE truncated = TRUE /\ Len(kept) = MaxNodes
    BY <1>2 DEF CapturedUpto, Captures, Captured
  <1>4. eligible = Ahead(n) /\ \A i \in Ahead(n) : Place(i) = Rank(i)
    <2>1. eligible = Ahead(n)
      BY <1>1 DEF Ahead
    <2>2. ASSUME NEW i \in Ahead(n) PROVE {j \in Ahead(n) : j <= i} = Ahead(i)
      BY <1>1 DEF Ahead
    <2> QED
      BY <2>1, <2>2 DEF Rank
  <1>5. Rank(n) \in Nat \ {0}
    <2>1. Eligible(1)
      BY DEF Eligible
    <2>2. Rank(0 + 1) = Rank(0) + 1 /\ 0 + 1 = 1
      BY <2>1, Ranks
    <2>3. Rank(1) <= Rank(n) /\ Rank(n) \in Nat
      <3>1. n \in Nat /\ 1 \in 0..n
        BY <1>1
      <3> QED
        BY <3>1, Ranks
    <2> QED
      BY <2>2, <2>3, Ranks
  <1>6. Min({MaxNodes, Rank(n)}) = IF MaxNodes <= Rank(n) THEN MaxNodes ELSE Rank(n)
    BY <1>5, Limits, MinPair
  <1>7. CaptureIsPrefix
    <2>1. /\ Len(kept) = Min({MaxNodes, Rank(n)})
          /\ truncated <=> Rank(n) > MaxNodes
      BY <1>3, <1>5, <1>6, Limits
    <2>2. /\ Len(kept) = Min({MaxNodes, Cardinality(eligible)})
          /\ \A i \in eligible : Place(i) <= MaxNodes => kept[Place(i)] = window[i]
          /\ truncated <=> Cardinality(eligible) > MaxNodes
      <3> HIDE DEF eligible
      <3>1. Cardinality(eligible) = Rank(n)
        BY <1>4 DEF Rank
      <3> HIDE DEF Place
      <3> QED
        BY <1>3, <1>4, <2>1, <3>1
    <2> QED
      BY <2>2 DEF CaptureIsPrefix
  <1>8. Len(kept) \in Nat \ {0}
    BY <1>3, <1>5, Limits
  <1> QED
    BY <1>3, <1>7, <1>8, LenProperties

\* The tree listing's part of the lines, for every line that has the focus.
LEMMA TreePart ==
    ASSUME NEW lines \in Nat, NEW viewport \in Nat \ {0}, NEW line \in Nat, line < lines,
           NEW start, start = TreeStart(lines, viewport, line),
           NEW end, end = Min({start + viewport, lines})
    PROVE  /\ line + 1 \in start + 1..end
           /\ end - (start + 1) + 1 = Min({viewport, lines})
  <1>1. PICK half \in Nat : half = viewport \div 2 /\ half < viewport
    BY Z3
  <1> DEFINE a == Max({line - half, 0})
             b == Max({lines - viewport, 0})
  <1>2. /\ a = IF line - half <= 0 THEN 0 ELSE line - half
        /\ b = IF lines - viewport <= 0 THEN 0 ELSE lines - viewport
    BY <1>1, MaxPair
  <1>3. start = Min({a, b})
    BY <1>1 DEF TreeStart
  <1> HIDE DEF a, b
  <1>4. a \in Nat /\ b \in Nat
    BY <1>1, <1>2
  <1>5. start = IF a <= b THEN a ELSE b
    BY <1>3, <1>4, MinPair
  <1>6. start \in Nat
    BY <1>4, <1>5
  <1>7. /\ end = IF start + viewport <= lines THEN start + viewport ELSE lines
        /\ Min({viewport, lines}) = IF viewport <= lines THEN viewport ELSE lines
    BY <1>6, MinPair
  <1>8. /\ start <= line
        /\ line < start + viewport
        /\ viewport <= lines => start + viewport <= lines
        /\ lines < viewport => start = 0
    BY <1>1, <1>2, <1>4, <1>5
  <1> QED
    BY <1>6, <1>7, <1>8

LEMMA FocusedLineOf ==
    ASSUME Len(kept) \in Nat \ {0}, DOMAIN kept = 1..Len(kept)
    PROVE  FocusedLine \in Nat /\ FocusedLine < Len(kept)
  <1> DEFINE T == {1} \cup {i \in DOMAIN kept : kept[i].focused}
  <1>1. T \subseteq 0..Len(kept) /\ T # {} /\ \A x \in T : x \in 1..Len(kept)
    OBVIOUS
  <1> HIDE DEF T
  <1>2. Max(T) \in T
    BY <1>1, MaxOf
  <1> QED
    BY <1>1, <1>2 DEF FocusedLine, T

-------------------------------------------------------------------------------
(* Texts.                                                                      *)

Texts == Seq(Glyphs)

LEMMA Signs ==
    /\ Wide \subseteq Glyphs
    /\ {Space, Newline, Ellipsis} \subseteq Glyphs /\ {Space, Newline, Ellipsis} \cap Wide = {}
  BY TextAssumption

\* A set of whole numbers in order has each of them once.
LEMMA InOrderOf ==
    ASSUME NEW S, S \subseteq Int, IsFiniteSet(S)
    PROVE  /\ Cardinality(S) \in Nat
           /\ InOrder(S) \in Bijection(1..Cardinality(S), S)
           /\ InOrder(S) \in Seq(S) /\ Len(InOrder(S)) = Cardinality(S)
           /\ DOMAIN InOrder(S) = 1..Cardinality(S)
  <1> DEFINE n == Cardinality(S)
             Upto(k) == {j \in S : j <= k}
             rank == [k \in S |-> Cardinality(Upto(k))]
  <1>1. n \in Nat /\ IsFiniteSet(1..n) /\ Cardinality(1..n) = n
    BY FS_CardinalityType, FS_Interval
  <1>2. \A k \in S : IsFiniteSet(Upto(k)) /\ Cardinality(Upto(k)) \in 1..n
    <2> SUFFICES ASSUME NEW k \in S
                 PROVE  IsFiniteSet(Upto(k)) /\ Cardinality(Upto(k)) \in 1..n
      OBVIOUS
    <2>1. Upto(k) \in SUBSET S /\ k \in Upto(k)
      OBVIOUS
    <2> HIDE DEF Upto
    <2>2. IsFiniteSet(Upto(k)) /\ Cardinality(Upto(k)) <= n
      BY <2>1, FS_Subset
    <2>3. Cardinality(Upto(k)) \in Nat /\ Cardinality(Upto(k)) # 0
      BY <2>1, <2>2, FS_CardinalityType, FS_EmptySet
    <2> QED
      BY <1>1, <2>2, <2>3
  <1>3. ASSUME NEW k \in S, NEW l \in S, k < l PROVE rank[k] # rank[l]
    <2>0. \A j \in S : j \in Int
      OBVIOUS
    <2>1. Upto(k) \in SUBSET Upto(l) /\ l \in Upto(l) /\ l \notin Upto(k)
      <3>1. \A j \in S : j <= k => j <= l
        BY <1>3, <2>0
      <3>2. l <= l /\ ~(l <= k)
        BY <1>3, <2>0
      <3> QED
        BY <3>1, <3>2
    <2> HIDE DEF Upto
    <2>2. Cardinality(Upto(k)) # Cardinality(Upto(l))
      BY <1>2, <2>1, FS_Subset
    <2> QED
      BY <2>2
  <1>4. rank \in Injection(S, 1..n)
    <2>1. rank \in [S -> 1..n]
      BY <1>2
    <2> HIDE DEF rank
    <2>2. \A k, l \in S : k # l => rank[k] # rank[l]
      BY <1>3
    <2> QED
      BY <2>1, <2>2 DEF Injection, IsInjective
  <1>5. rank \in Surjection(S, 1..n)
    <2> HIDE DEF rank
    <2> QED
      BY <1>1, <1>4, FS_Injection
  <1>6. \A m \in 1..n : \E k \in S : Cardinality(Upto(k)) = m
    BY <1>5 DEF Surjection
  <1>7. /\ InOrder(S) \in [1..n -> S]
        /\ \A m \in 1..n : Cardinality(Upto(InOrder(S)[m])) = m
    <2> HIDE DEF n
    <2>1. InOrder(S) = [m \in 1..n |-> CHOOSE k \in S : Cardinality(Upto(k)) = m]
      BY DEF InOrder, n
    <2> HIDE DEF Upto
    <2> QED
      BY <1>6, <2>1
  <1>8. InOrder(S) \in Injection(1..n, S)
    BY <1>7 DEF Injection, IsInjective
  <1>9. InOrder(S) \in Surjection(1..n, S)
    BY <1>1, <1>8, FS_Injection
  <1>10. InOrder(S) \in Seq(S)
    BY <1>1, <1>7, SeqDef
  <1> QED
    BY <1>1, <1>7, <1>8, <1>9, <1>10, LenProperties DEF Bijection

\* What is chosen from a sequence is one of the same kind.
LEMMA ChosenOf ==
    ASSUME NEW T, NEW seq \in Seq(T), NEW places \in SUBSET DOMAIN seq
    PROVE  /\ Chosen(seq, places) \in Seq(T)
           /\ Cardinality(places) \in Nat /\ Len(Chosen(seq, places)) = Cardinality(places)
           /\ InOrder(places) \in Bijection(1..Cardinality(places), places)
           /\ \A n \in 1..Cardinality(places) :
                 Chosen(seq, places)[n] = seq[InOrder(places)[n]]
  <1> DEFINE n == Cardinality(places)
  <1>1. Len(seq) \in Nat /\ DOMAIN seq = 1..Len(seq)
    BY LenProperties
  <1>2. IsFiniteSet(1..Len(seq))
    BY <1>1, FS_Interval
  <1>3. IsFiniteSet(places) /\ places \subseteq Int
    BY <1>1, <1>2, FS_Subset
  <1>4. n \in Nat /\ InOrder(places) \in Bijection(1..n, places)
    BY <1>3, InOrderOf
  <1>5. InOrder(places) \in [1..n -> places]
    BY <1>4 DEF Bijection, Injection
  <1>6. Chosen(seq, places) \in [1..n -> T]
    <2>1. \A m \in 1..n : seq[InOrder(places)[m]] \in T
      BY <1>1, <1>5, ElementOfSeq
    <2> QED
      BY <2>1 DEF Chosen
  <1>7. Chosen(seq, places) \in Seq(T)
    BY <1>4, <1>6, SeqDef
  <1>8. DOMAIN Chosen(seq, places) = 1..n
        /\ DOMAIN Chosen(seq, places) = 1..Len(Chosen(seq, places))
    BY <1>6, <1>7, LenProperties
  <1>9. Len(Chosen(seq, places)) = n
    BY <1>4, <1>7, <1>8, LenProperties
  <1> QED
    BY <1>4, <1>7, <1>9 DEF Chosen

LEMMA FilledOf ==
    ASSUME NEW lines \in Seq(Texts)
    PROVE  Filled(lines) \in Seq(Texts)
  <1>1. {k \in DOMAIN lines : NonEmpty(lines[k])} \in SUBSET DOMAIN lines
    OBVIOUS
  <1> QED
    BY <1>1, ChosenOf DEF Filled

LEMMA CleanOf ==
    ASSUME NEW text \in Texts
    PROVE  Clean(text) \in Texts /\ Len(Clean(text)) = Len(text)
  <1>1. Len(text) \in Nat /\ DOMAIN text = 1..Len(text)
        /\ \A k \in 1..Len(text) : text[k] \in Glyphs
    BY LenProperties, ElementOfSeq DEF Texts
  <1>2. Clean(text) \in [1..Len(text) -> Glyphs]
    BY <1>1, Signs DEF Clean
  <1>3. Clean(text) \in Texts
    BY <1>1, <1>2, SeqDef DEF Texts
  <1>4. DOMAIN Clean(text) = 1..Len(text)
    BY <1>2
  <1> QED
    BY <1>1, <1>3, <1>4, LenProperties DEF Texts

LEMMA BlanksOf ==
    ASSUME NEW n \in Int
    PROVE  Blanks(n) \in Texts
  <1>1. CASE n >= 0
    <2>1. Blanks(n) \in [1..n -> Glyphs] /\ n \in Nat
      BY <1>1, Signs DEF Blanks
    <2> QED
      BY <2>1, SeqDef DEF Texts
  <1>2. CASE ~(n >= 0)
    <2>1. 1..n = 1..0
      BY <1>2
    <2>2. Blanks(n) \in [1..0 -> Glyphs]
      BY <2>1, Signs DEF Blanks
    <2> QED
      BY <2>2, SeqDef DEF Texts
  <1> QED
    BY <1>1, <1>2

LEMMA PartOf ==
    ASSUME NEW T, NEW seq \in Seq(T), NEW m \in Nat \ {0}, NEW n \in Int, n <= Len(seq)
    PROVE  SubSeq(seq, m, n) \in Seq(T)
  <1>1. Len(seq) \in Nat /\ \A k \in m..n : k \in 1..Len(seq)
    BY LenProperties
  <1>2. \A k \in m..n : seq[k] \in T
    BY <1>1, ElementOfSeq
  <1> QED
    BY <1>2, SubSeqProperties

LEMMA PartLength ==
    ASSUME NEW T, NEW seq \in Seq(T), NEW m \in Nat \ {0}, NEW n \in Int, n <= Len(seq)
    PROVE  Len(SubSeq(seq, m, n)) = IF m <= n THEN n - m + 1 ELSE 0
  <1>1. Len(seq) \in Nat /\ \A k \in m..n : k \in 1..Len(seq)
    BY LenProperties
  <1>2. \A k \in m..n : seq[k] \in T
    BY <1>1, ElementOfSeq
  <1> QED
    BY <1>2, SubSeqProperties

\* The least and the largest of a finite set of numbers.
LEMMA EndsOf ==
    ASSUME NEW n \in Nat, NEW T, T \subseteq 0..n, T # {}
    PROVE  Min(T) \in T /\ Max(T) \in T /\ \A k \in T : Min(T) <= k /\ k <= Max(T)
  <1>1. T \subseteq Nat
    OBVIOUS
  <1>2. PICK m \in T : \A k \in T : m <= k
    BY <1>1, LeastOf
  <1>3. Min(T) \in T /\ \A k \in T : Min(T) <= k
    BY <1>2 DEF Min
  <1> QED
    BY <1>3, MaxOf

LEMMA TrimOf ==
    ASSUME NEW line \in Texts
    PROVE  Trim(line) \in Texts
  <1> DEFINE inked == {k \in DOMAIN line : line[k] # Space}
  <1>1. Len(line) \in Nat /\ DOMAIN line = 1..Len(line)
    BY LenProperties DEF Texts
  <1>2. inked \subseteq 1..Len(line) /\ inked \subseteq 0..Len(line)
    BY <1>1
  <1>3. CASE inked = {}
    <2>1. Trim(line) = <<>>
      BY <1>3 DEF Trim
    <2> QED
      BY <2>1 DEF Texts
  <1>4. CASE inked # {}
    <2>1. Trim(line) = SubSeq(line, Min(inked), Max(inked))
      BY <1>4 DEF Trim
    <2> HIDE DEF inked
    <2>2. Min(inked) \in 1..Len(line) /\ Max(inked) \in 1..Len(line)
      BY <1>1, <1>2, <1>4, EndsOf
    <2>3. Min(inked) \in Nat \ {0} /\ Max(inked) \in Int /\ Max(inked) <= Len(line)
      BY <1>1, <2>2
    <2> QED
      BY <2>1, <2>3, PartOf DEF Texts
  <1> QED
    BY <1>3, <1>4

LEMMA SplitOf ==
    ASSUME NEW text \in Texts, NEW mark
    PROVE  Split(text, mark) \in Seq(Texts) /\ Split(text, mark) # <<>>
  <1> DEFINE places == {0, Len(text) + 1} \cup {k \in DOMAIN text : text[k] = mark}
             cuts == InOrder(places)
             n == Len(cuts)
  <1>1. Len(text) \in Nat /\ DOMAIN text = 1..Len(text)
    BY LenProperties DEF Texts
  <1>2. places \subseteq 0..Len(text) + 1
    BY <1>1
  <1>3. IsFiniteSet(places) /\ places \subseteq Int /\ Cardinality(places) \in Nat
    <2>1. IsFiniteSet(0..Len(text) + 1)
      BY <1>1, FS_Interval
    <2> HIDE DEF places
    <2>2. IsFiniteSet(places)
      BY <1>2, <2>1, FS_Subset
    <2> QED
      BY <1>1, <1>2, <2>2, FS_CardinalityType
  <1>4. n = Cardinality(places) /\ n \in Nat
        /\ cuts \in Seq(places) /\ cuts \in Bijection(1..n, places)
    <2> HIDE DEF places
    <2> QED
      BY <1>3, InOrderOf
  <1>5. n - 1 \in Nat \ {0}
    <2>1. 0 \in places /\ Len(text) + 1 \in places /\ 0 # Len(text) + 1
      BY <1>1
    <2> HIDE DEF places, cuts
    <2>2. PICK j \in 1..n, k \in 1..n : cuts[j] = 0 /\ cuts[k] = Len(text) + 1
      BY <1>4, <2>1 DEF Bijection, Surjection
    <2>3. j # k
      BY <2>1, <2>2
    <2> HIDE DEF n
    <2> QED
      BY <1>4, <2>3
  <1>6. \A k \in 1..n - 1 : SubSeq(text, cuts[k] + 1, cuts[k + 1] - 1) \in Texts
    <2> HIDE DEF places, cuts, n
    <2> SUFFICES ASSUME NEW k \in 1..n - 1
                 PROVE  SubSeq(text, cuts[k] + 1, cuts[k + 1] - 1) \in Texts
      OBVIOUS
    <2>1. k \in 1..n /\ k + 1 \in 1..n
      BY <1>4
    <2>2. cuts[k] \in places /\ cuts[k + 1] \in places
      BY <1>4, <2>1, ElementOfSeq DEF n
    <2>3. cuts[k] \in 0..Len(text) + 1 /\ cuts[k + 1] \in 0..Len(text) + 1
      BY <1>2, <2>2
    <2>4. cuts[k] + 1 \in Nat \ {0} /\ cuts[k + 1] - 1 \in Int /\ cuts[k + 1] - 1 <= Len(text)
      BY <1>1, <2>3
    <2> QED
      BY <2>4, PartOf DEF Texts
  <1>7. Split(text, mark) \in [1..n - 1 -> Texts]
    <2>1. Split(text, mark) = [k \in 1..n - 1 |-> SubSeq(text, cuts[k] + 1, cuts[k + 1] - 1)]
      BY DEF Split
    <2> HIDE DEF n, cuts
    <2> QED
      BY <1>6, <2>1
  <1> HIDE DEF n
  <1>8. Split(text, mark) \in Seq(Texts)
    BY <1>5, <1>7, SeqDef
  <1>9. 1 \in DOMAIN Split(text, mark)
    <2>1. 1 \in 1..n - 1
      BY <1>4, <1>5
    <2> QED
      BY <1>7, <2>1
  <1>10. Split(text, mark) # <<>>
    <2>1. DOMAIN <<>> = {}
      OBVIOUS
    <2> QED
      BY <1>9
  <1> QED
    BY <1>8, <1>10

LEMMA LinesOf ==
    ASSUME NEW text \in Texts
    PROVE  Lines(text) \in Seq(Texts)
  <1> DEFINE parts == Split(text, Newline)
  <1>1. parts \in Seq(Texts) /\ parts # <<>>
    BY SplitOf
  <1> HIDE DEF parts
  <1>2. Len(parts) \in Nat
    BY <1>1, LenProperties
  <1>3. SubSeq(parts, 1, Len(parts) - 1) \in Seq(Texts)
    BY <1>1, <1>2, PartOf
  <1> QED
    BY <1>1, <1>3 DEF Lines, WithoutLastEmpty, Front, parts

LEMMA WordsOf ==
    ASSUME NEW line \in Texts
    PROVE  Words(line) \in Seq(Texts)
  BY SplitOf, FilledOf DEF Words

LEMMA TogetherOf ==
    ASSUME NEW parts \in Seq(Texts)
    PROVE  Together(parts) \in Texts
  <1> DEFINE n == Len(parts)
             step == [z \in Texts \X (1..n) |-> z[1] \o parts[z[2]]]
             Folds(f) == f = [s \in SUBSET DOMAIN parts |->
                                 IF s = {} THEN <<>> ELSE f[s \ {Max(s)}] \o parts[Max(s)]]
             it == CHOOSE f : Folds(f)
  <1>1. n \in Nat /\ DOMAIN parts = 1..n
    BY LenProperties
  <1>2. <<>> \in Texts /\ \A a \in Texts, k \in 1..n : a \o parts[k] \in Texts
    BY ElementOfSeq, ConcatProperties DEF Texts
  <1>3. step \in [Texts \X (1..n) -> Texts]
    BY <1>2
  <1>4. /\ \A a \in Texts, k \in 1..n : step[<<a, k>>] = a \o parts[k]
    OBVIOUS
  <1> HIDE DEF n, step
  <1>5. Folds(it)
    <2>1. PICK f : FoldsAlways(f, Texts, n, <<>>, step)
      BY <1>1, <1>2, <1>3, FoldExists
    <2>2. Folds(f)
      BY <1>1, <1>4, <2>1 DEF FoldsAlways
    <2> HIDE DEF Folds
    <2> QED
      BY <2>2
  <1>6. Together(parts) = it[1..n]
    BY <1>1 DEF Together, FoldLeft, MapThenFoldSet
  <1> HIDE DEF it
  <1>7. FoldsWithin(it, Texts, n, <<>>, step)
    BY <1>1, <1>4, <1>5 DEF FoldsWithin
  <1>8. it[1..n] \in Texts
    BY <1>1, <1>2, <1>3, <1>7, FoldStaysIn
  <1> QED
    BY <1>6, <1>8

\* Widths.
LEMMA WidthOfText ==
    ASSUME NEW text \in Texts
    PROVE  /\ WidthOf(text) \in Nat
           /\ (\A k \in DOMAIN text : text[k] \notin Wide) => WidthOf(text) = Len(text)
  <1> DEFINE wide == {k \in DOMAIN text : text[k] \in Wide}
  <1>1. Len(text) \in Nat /\ wide \in SUBSET (1..Len(text))
    BY LenProperties DEF Texts
  <1>2. IsFiniteSet(wide)
    <2>1. IsFiniteSet(1..Len(text))
      BY <1>1, FS_Interval
    <2> QED
      BY <1>1, <2>1, FS_Subset
  <1>3. WidthOf(text) = Len(text) + Cardinality(wide)
    BY DEF WidthOf
  <1>4. (\A k \in DOMAIN text : text[k] \notin Wide) => wide = {}
    OBVIOUS
  <1> HIDE DEF wide
  <1>5. Cardinality(wide) \in Nat
    BY <1>2, FS_CardinalityType
  <1>6. wide = {} => Cardinality(wide) = 0
    BY FS_EmptySet
  <1> QED
    BY <1>1, <1>3, <1>4, <1>5, <1>6

LEMMA BlanksWidth ==
    ASSUME NEW n \in Nat
    PROVE  Len(Blanks(n)) = n /\ WidthOf(Blanks(n)) = n /\ \A k \in 1..n : Blanks(n)[k] \notin Wide
  <1>1. Blanks(n) \in Texts /\ DOMAIN Blanks(n) = 1..n /\ \A k \in 1..n : Blanks(n)[k] = Space
    BY BlanksOf DEF Blanks
  <1>2. Len(Blanks(n)) = n
    BY <1>1, LenProperties DEF Texts
  <1>3. Space \notin Wide
    BY Signs
  <1> QED
    BY <1>1, <1>2, <1>3, WidthOfText

LEMMA PaddedWidth ==
    ASSUME NEW text \in Texts, NEW cols \in Nat, WidthOf(text) <= cols
    PROVE  Padded(text, cols) \in Texts /\ WidthOf(Padded(text, cols)) = cols
  <1> DEFINE n == cols - WidthOf(text)
             all == text \o Blanks(n)
  <1>1. n \in Nat /\ WidthOf(text) \in Nat
    BY WidthOfText
  <1>2. Blanks(n) \in Texts /\ Len(Blanks(n)) = n /\ \A k \in 1..n : Blanks(n)[k] \notin Wide
    BY <1>1, BlanksOf, BlanksWidth
  <1>3. Len(text) \in Nat /\ DOMAIN text = 1..Len(text)
    BY LenProperties DEF Texts
  <1> HIDE DEF n
  <1>4. /\ all \in Texts /\ Len(all) = Len(text) + n
        /\ \A k \in 1..Len(text) + n : all[k] = IF k <= Len(text) THEN text[k]
                                                 ELSE Blanks(n)[k - Len(text)]
    BY <1>2, ConcatProperties DEF Texts
  <1>5. DOMAIN all = 1..Len(text) + n
    BY <1>4, LenProperties DEF Texts
  <1>6. {k \in DOMAIN all : all[k] \in Wide} = {k \in DOMAIN text : text[k] \in Wide}
    <2>1. \A k \in 1..Len(text) + n : k <= Len(text) \/ k - Len(text) \in 1..n
      BY <1>1, <1>3
    <2> HIDE DEF all
    <2>2. \A k \in 1..Len(text) + n : all[k] \in Wide => k \in 1..Len(text) /\ all[k] = text[k]
      BY <1>1, <1>2, <1>3, <1>4, <2>1
    <2>3. \A k \in 1..Len(text) : k \in 1..Len(text) + n /\ all[k] = text[k]
      BY <1>1, <1>3, <1>4
    <2> QED
      BY <1>3, <1>5, <2>2, <2>3
  <1>7. WidthOf(all) = WidthOf(text) + n
    <2>1. Cardinality({k \in DOMAIN text : text[k] \in Wide}) = WidthOf(text) - Len(text)
      <3> DEFINE wide == Cardinality({k \in DOMAIN text : text[k] \in Wide})
      <3>1. WidthOf(text) = Len(text) + wide
        BY DEF WidthOf
      <3>2. wide \in Nat
        <4>1. IsFiniteSet(1..Len(text))
              /\ {k \in DOMAIN text : text[k] \in Wide} \in SUBSET (1..Len(text))
          BY <1>3, FS_Interval
        <4> QED
          BY <4>1, FS_Subset, FS_CardinalityType
      <3> HIDE DEF wide
      <3>3. wide = WidthOf(text) - Len(text)
        BY <1>1, <1>3, <3>1, <3>2
      <3> QED
        BY <3>3 DEF wide
    <2>2. WidthOf(all) = Len(all) + Cardinality({k \in DOMAIN text : text[k] \in Wide})
      BY <1>6 DEF WidthOf
    <2> QED
      BY <1>1, <1>3, <1>4, <2>1, <2>2
  <1> QED
    BY <1>1, <1>4, <1>7 DEF Padded, n

LEMMA FittingOf ==
    ASSUME NEW text \in Texts, NEW width \in Nat
    PROVE  Fitting(text, width) \in Texts /\ WidthOf(Fitting(text, width)) <= width
  <1> DEFINE fits == {n \in 0..Len(text) : WidthOf(SubSeq(text, 1, n)) <= width}
  <1>1. Len(text) \in Nat
    BY LenProperties DEF Texts
  <1>2. 0 \in fits
    <2>1. SubSeq(text, 1, 0) = <<>>
      BY SubSeqEmpty
    <2>2. <<>> \in Texts /\ Len(<<>>) = 0 /\ DOMAIN <<>> = {}
      BY EmptySeq DEF Texts
    <2>3. WidthOf(<<>>) = 0
      BY <2>2, WidthOfText
    <2>4. WidthOf(SubSeq(text, 1, 0)) <= width
      <3>1. 0 <= width
        OBVIOUS
      <3> QED
        BY <2>1, <2>3, <3>1
    <2>5. 0 \in 0..Len(text)
      BY <1>1
    <2> QED
      BY <2>4, <2>5
  <1>3. fits \subseteq 0..Len(text) /\ fits # {}
        /\ \A n \in fits : WidthOf(SubSeq(text, 1, n)) <= width
    BY <1>2
  <1>4. Fitting(text, width) = SubSeq(text, 1, Max(fits))
    BY DEF Fitting
  <1> HIDE DEF fits
  <1>5. Max(fits) \in fits
    BY <1>1, <1>3, EndsOf
  <1>6. Max(fits) \in Int /\ Max(fits) <= Len(text) /\ 1 \in Nat \ {0}
    <2>1. Max(fits) \in 0..Len(text)
      BY <1>3, <1>5
    <2> QED
      BY <1>1, <2>1
  <1> QED
    BY <1>3, <1>4, <1>5, <1>6, PartOf DEF Texts

LEMMA ElideOf ==
    ASSUME NEW text \in Texts, NEW width \in Nat
    PROVE  Elide(text, width) \in Texts
  <1>1. CASE width = 0
    BY <1>1 DEF Elide, Texts
  <1>2. CASE width # 0
    <2>1. width - 1 \in Nat
      BY <1>2
    <2>2. Fitting(Clean(text), width - 1) \in Texts
      BY <2>1, CleanOf, FittingOf
    <2>3. Append(Fitting(Clean(text), width - 1), Ellipsis) \in Texts
      BY <2>2, Signs, AppendProperties DEF Texts
    <2> QED
      BY <1>2, <2>3, CleanOf DEF Elide
  <1> QED
    BY <1>1, <1>2

LEMMA CleanWidth ==
    ASSUME NEW text \in Texts
    PROVE  WidthOf(Clean(text)) = WidthOf(text)
  <1> DEFINE wide(t) == {k \in DOMAIN t : t[k] \in Wide}
  <1>1. DOMAIN Clean(text) = DOMAIN text
        /\ \A k \in DOMAIN text : Clean(text)[k] = IF text[k] = Newline THEN Space ELSE text[k]
    BY DEF Clean
  <1>2. Clean(text) \in Texts /\ Len(Clean(text)) = Len(text)
    BY CleanOf
  <1>3. wide(Clean(text)) = wide(text)
    BY <1>1, Signs
  <1>4. \A t : WidthOf(t) = Len(t) + Cardinality(wide(t))
    BY DEF WidthOf
  <1> HIDE DEF wide
  <1> QED
    BY <1>2, <1>3, <1>4

LEMMA AppendedWidth ==
    ASSUME NEW text \in Texts, NEW glyph \in Glyphs \ Wide
    PROVE  WidthOf(Append(text, glyph)) = WidthOf(text) + 1
  <1> DEFINE all == Append(text, glyph)
             wide(t) == {k \in DOMAIN t : t[k] \in Wide}
  <1>1. Len(text) \in Nat /\ DOMAIN text = 1..Len(text)
    BY LenProperties DEF Texts
  <1>2. /\ all \in Texts /\ Len(all) = Len(text) + 1
        /\ \A k \in 1..Len(text) : all[k] = text[k]
        /\ all[Len(text) + 1] = glyph
    BY AppendProperties DEF Texts
  <1> HIDE DEF all
  <1>3. DOMAIN all = 1..Len(text) + 1
    BY <1>2, LenProperties DEF Texts
  <1>4. wide(all) = wide(text)
    BY <1>1, <1>2, <1>3
  <1>5. \A t : WidthOf(t) = Len(t) + Cardinality(wide(t))
    BY DEF WidthOf
  <1>6. Cardinality(wide(text)) \in Nat
    <2>1. IsFiniteSet(1..Len(text)) /\ wide(text) \in SUBSET (1..Len(text))
      BY <1>1, FS_Interval
    <2> HIDE DEF wide
    <2> QED
      BY <2>1, FS_Subset, FS_CardinalityType
  <1> HIDE DEF wide
  <1>7. WidthOf(all) = (Len(text) + Cardinality(wide(text))) + 1
    BY <1>1, <1>2, <1>4, <1>5, <1>6
  <1> QED
    BY <1>5, <1>7 DEF all

\* A text that is cut is as wide as it may be at most, and no wider than it was.
LEMMA ElideWidth ==
    ASSUME NEW text \in Texts, NEW width \in Nat
    PROVE  /\ WidthOf(Elide(text, width)) <= width
           /\ WidthOf(text) <= width => WidthOf(Elide(text, width)) <= WidthOf(text)
  <1>1. WidthOf(text) \in Nat
    BY WidthOfText
  <1>2. CASE width = 0
    <2>1. <<>> \in Texts /\ Len(<<>>) = 0 /\ DOMAIN <<>> = {}
      BY EmptySeq DEF Texts
    <2>2. WidthOf(<<>>) = 0
      BY <2>1, WidthOfText
    <2> QED
      BY <1>1, <1>2, <2>2 DEF Elide
  <1>3. CASE width # 0 /\ WidthOf(text) <= width
    BY <1>1, <1>3, CleanWidth DEF Elide
  <1>4. CASE width # 0 /\ ~(WidthOf(text) <= width)
    <2> DEFINE part == Fitting(Clean(text), width - 1)
    <2>1. part \in Texts /\ WidthOf(part) <= width - 1
      <3>1. width - 1 \in Nat
        BY <1>4
      <3> QED
        BY <3>1, CleanOf, FittingOf
    <2>2. Elide(text, width) = Append(part, Ellipsis)
      BY <1>4 DEF Elide
    <2> HIDE DEF part
    <2>3. WidthOf(Append(part, Ellipsis)) = WidthOf(part) + 1 /\ WidthOf(part) \in Nat
      <3>1. Ellipsis \in Glyphs \ Wide
        BY TextAssumption
      <3> QED
        BY <2>1, <3>1, AppendedWidth, WidthOfText
    <2> QED
      BY <1>4, <2>1, <2>2, <2>3
  <1> QED
    BY <1>2, <1>3, <1>4

\* A row of text is as wide as it is to be.
LEMMA CellsWidth ==
    ASSUME NEW text \in Texts, NEW cols \in Nat
    PROVE  Cells(text, cols) \in Texts /\ WidthOf(Cells(text, cols)) = cols
  BY FittingOf, PaddedWidth DEF Cells

\* Wrapping: there are never more lines than there may be.
Pages(max) == {lines \in Seq(Texts) : Len(lines) <= max}
Wraps(max) == [lines : Pages(max), line : Texts]

LEMMA MorePage ==
    ASSUME NEW max \in Nat, NEW lines \in Pages(max), Len(lines) # max, NEW line \in Texts
    PROVE  Append(lines, line) \in Pages(max) /\ Append(lines, line) # <<>>
  <1>1. lines \in Seq(Texts) /\ Len(lines) \in Nat /\ Len(lines) <= max
    BY LenProperties DEF Pages
  <1>2. /\ Append(lines, line) \in Seq(Texts) /\ Append(lines, line) # <<>>
        /\ Len(Append(lines, line)) = Len(lines) + 1
    BY <1>1, AppendProperties
  <1> QED
    BY <1>1, <1>2 DEF Pages

LEMMA WrapTextOf ==
    ASSUME NEW text \in Texts, NEW width, NEW max \in Nat
    PROVE  /\ WrapText(text, width, max) \in Pages(max)
           /\ width # 0 /\ max # 0 => WrapText(text, width, max) # <<>>
  <1> DEFINE Glyph(acc, glyph) ==
               IF Len(acc.lines) = max THEN acc
               ELSE IF glyph = Newline
                    THEN [lines |-> Append(acc.lines, acc.line), line |-> <<>>]
               ELSE IF WidthOf(acc.line) + Width(glyph) > width
                    THEN [lines |-> Append(acc.lines, acc.line), line |-> <<glyph>>]
               ELSE [acc EXCEPT !.line = Append(@, glyph)]
             n == Len(text)
             step == [z \in Wraps(max) \X (1..n) |-> Glyph(z[1], text[z[2]])]
             Folds(f) == f = [s \in SUBSET DOMAIN text |->
                                 IF s = {} THEN NoLines ELSE Glyph(f[s \ {Max(s)}], text[Max(s)])]
             it == CHOOSE f : Folds(f)
  <1>1. n \in Nat /\ DOMAIN text = 1..n /\ \A k \in 1..n : text[k] \in Glyphs
    BY LenProperties, ElementOfSeq DEF Texts
  <1>2. NoLines \in Wraps(max)
    BY EmptySeq DEF NoLines, Wraps, Pages, Texts
  <1>3. \A acc \in Wraps(max), k \in 1..n : Glyph(acc, text[k]) \in Wraps(max)
    <2> SUFFICES ASSUME NEW acc \in Wraps(max), NEW glyph \in Glyphs
                 PROVE  Glyph(acc, glyph) \in Wraps(max)
      BY <1>1
    <2>1. acc.lines \in Pages(max) /\ acc.line \in Texts
      BY DEF Wraps
    <2>2. <<glyph>> \in Texts /\ <<>> \in Texts /\ Append(acc.line, glyph) \in Texts
      BY <2>1 DEF Texts
    <2>3. Len(acc.lines) # max => Append(acc.lines, acc.line) \in Pages(max)
      BY <2>1, MorePage
    <2> QED
      BY <2>1, <2>2, <2>3 DEF Wraps
  <1>4. step \in [Wraps(max) \X (1..n) -> Wraps(max)]
    <2> HIDE DEF Glyph
    <2> QED
      BY <1>3
  <1>5. \A a \in Wraps(max), k \in 1..n : step[<<a, k>>] = Glyph(a, text[k])
    BY DEF Glyph
  <1> HIDE DEF n, step, Glyph
  <1>6. Folds(it)
    <2>1. PICK f : FoldsAlways(f, Wraps(max), n, NoLines, step)
      BY <1>1, <1>2, <1>4, FoldExists
    <2>2. Folds(f)
      BY <1>1, <1>5, <2>1 DEF FoldsAlways
    <2> HIDE DEF Folds
    <2> QED
      BY <2>2
  <1>7. CASE ~(width = 0 \/ max = 0)
    <2>1. WrapText(text, width, max) = LastLine(it[1..n], max)
      BY <1>1, <1>7 DEF WrapText, FoldLeft, MapThenFoldSet, Glyph
    <2> HIDE DEF it
    <2>2. FoldsWithin(it, Wraps(max), n, NoLines, step)
      BY <1>1, <1>5, <1>6 DEF FoldsWithin
    <2>3. it[1..n] \in Wraps(max)
      BY <1>1, <1>2, <1>4, <2>2, FoldStaysIn
    <2>4. /\ it[1..n].lines \in Pages(max) /\ it[1..n].line \in Texts
          /\ Len(it[1..n].lines) \in Nat /\ Len(it[1..n].lines) <= max
      BY <2>3, LenProperties DEF Wraps, Pages
    <2>5. Len(it[1..n].lines) # max => /\ Append(it[1..n].lines, it[1..n].line) \in Pages(max)
                                       /\ Append(it[1..n].lines, it[1..n].line) # <<>>
      BY <2>4, MorePage
    <2>6. ~(Len(it[1..n].lines) < max) => it[1..n].lines # <<>>
      BY <1>7, <2>4, EmptySeq
    <2> QED
      BY <2>1, <2>4, <2>5, <2>6 DEF LastLine
  <1>8. CASE width = 0 \/ max = 0
    <2>1. WrapText(text, width, max) = <<>>
      BY <1>8 DEF WrapText
    <2>2. <<>> \in Pages(max)
      BY EmptySeq DEF Pages
    <2> QED
      BY <1>8, <2>1, <2>2
  <1> QED
    BY <1>7, <1>8

LEMMA JoinWordOf ==
    ASSUME NEW max \in Nat, NEW acc \in Wraps(max), NEW word \in Texts, NEW prefix \in Texts,
           NEW width \in Nat \ {0}
    PROVE  JoinWord(acc, word, prefix, width, max) \in Wraps(max)
  <1>1. /\ acc.lines \in Seq(Texts) /\ acc.line \in Texts
        /\ Len(acc.lines) \in Nat /\ Len(acc.lines) <= max
        /\ acc.lines \in Pages(max)
    BY LenProperties DEF Wraps, Pages
  <1>2. CASE Len(acc.lines) = max
    BY <1>2 DEF JoinWord
  <1>3. CASE Len(acc.lines) # max /\ WidthOf(word) > width
    <2> DEFINE left == max - Len(acc.lines)
               chunks == WrapText(word, width, left)
               n == Len(chunks) - 1
               cut == [k \in 1..n |-> prefix \o chunks[k]]
    <2>1. left \in Nat /\ left # 0 /\ width # 0
      BY <1>1, <1>3
    <2> HIDE DEF left
    <2>2. chunks \in Seq(Texts) /\ Len(chunks) <= left /\ chunks # <<>>
      BY <2>1, WrapTextOf DEF Pages
    <2>3. JoinWord(acc, word, prefix, width, max) = CutWord(acc, chunks, prefix)
      BY <1>3 DEF JoinWord, left
    <2> HIDE DEF chunks
    <2>4. Len(chunks) \in Nat \ {0} /\ n \in Nat
      <3>1. Len(chunks) \in Nat \ {0}
        BY <2>2, EmptySeq
      <3> QED
        BY <3>1
    <2>5. \A k \in 1..Len(chunks) : chunks[k] \in Texts /\ prefix \o chunks[k] \in Texts
      BY <2>2, ElementOfSeq, ConcatProperties DEF Texts
    <2>6. cut \in Seq(Texts) /\ Len(cut) = n
      <3>1. \A k \in 1..n : k \in 1..Len(chunks)
        BY <2>4
      <3>2. cut \in [1..n -> Texts]
        BY <2>5, <3>1
      <3> HIDE DEF cut, n
      <3>3. cut \in Seq(Texts) /\ DOMAIN cut = 1..n
        BY <2>4, <3>2, SeqDef
      <3> QED
        BY <2>4, <3>3, LenProperties
    <2>7. Last(chunks) \in Texts
      BY <2>4, <2>5 DEF Last
    <2>8. CutWord(acc, chunks, prefix) = [lines |-> acc.lines \o cut, line |-> Last(chunks)]
      BY DEF CutWord
    <2> HIDE DEF cut
    <2>9. acc.lines \o cut \in Seq(Texts) /\ Len(acc.lines \o cut) = Len(acc.lines) + n
      BY <1>1, <2>6, ConcatProperties
    <2>10. Len(acc.lines) + n <= max
      BY <1>1, <2>1, <2>2, <2>4 DEF left
    <2> HIDE DEF n
    <2> QED
      BY <2>3, <2>7, <2>8, <2>9, <2>10 DEF Wraps, Pages
  <1>4. CASE Len(acc.lines) # max /\ ~(WidthOf(word) > width)
    <2>1. acc.line \o <<Space>> \o word \in Texts
      <3>1. <<Space>> \in Texts
        BY Signs DEF Texts
      <3> QED
        BY <1>1, <3>1, ConcatProperties DEF Texts
    <2>2. [acc EXCEPT !.line = word] \in Wraps(max)
      BY <1>1 DEF Wraps
    <2>3. [acc EXCEPT !.line = @ \o <<Space>> \o word] \in Wraps(max)
      BY <1>1, <2>1 DEF Wraps
    <2> QED
      BY <1>4, <2>2, <2>3 DEF JoinWord
  <1> QED
    BY <1>2, <1>3, <1>4

LEMMA WrapLineOf ==
    ASSUME NEW max \in Nat, NEW lines \in Pages(max), NEW line \in Texts, NEW prefix \in Texts,
           NEW width \in Nat \ {0}
    PROVE  WrapLine(lines, line, prefix, width, max) \in Wraps(max)
  <1> DEFINE words == Words(line)
             n == Len(words)
             start == [NoLines EXCEPT !.lines = lines]
             Word(acc, word) ==
                 IF Len(acc.lines) = max THEN acc
                 ELSE JoinWord(IF Fits(acc.line, word, width) THEN acc ELSE Flush(acc, prefix),
                               word, prefix, width, max)
             step == [z \in Wraps(max) \X (1..n) |-> Word(z[1], words[z[2]])]
             Folds(f) == f = [s \in SUBSET DOMAIN words |->
                                 IF s = {} THEN start ELSE Word(f[s \ {Max(s)}], words[Max(s)])]
             it == CHOOSE f : Folds(f)
  <1>1. n \in Nat /\ DOMAIN words = 1..n /\ \A k \in 1..n : words[k] \in Texts
    BY WordsOf, LenProperties, ElementOfSeq
  <1>2. start \in Wraps(max)
    <2>1. start = [lines |-> lines, line |-> <<>>] /\ <<>> \in Texts
      BY DEF NoLines, Texts
    <2> HIDE DEF start
    <2> QED
      BY <2>1 DEF Wraps
  <1>3. WrapLine(lines, line, prefix, width, max) = it[DOMAIN words]
    BY DEF WrapLine, FoldLeft, MapThenFoldSet
  <1> HIDE DEF words, start
  <1>4. \A acc \in Wraps(max), k \in 1..n : Word(acc, words[k]) \in Wraps(max)
    <2> SUFFICES ASSUME NEW acc \in Wraps(max), NEW word \in Texts
                 PROVE  Word(acc, word) \in Wraps(max)
      BY <1>1
    <2>1. acc.lines \in Pages(max) /\ acc.line \in Texts
      BY DEF Wraps
    <2>2. Len(acc.lines) # max => Flush(acc, prefix) \in Wraps(max)
      <3>1. prefix \o acc.line \in Texts
        BY <2>1, ConcatProperties DEF Texts
      <3>2. Len(acc.lines) # max => Append(acc.lines, prefix \o acc.line) \in Pages(max)
        BY <2>1, <3>1, MorePage
      <3> QED
        BY <3>2 DEF Flush, Wraps, Texts
    <2> QED
      BY <2>2, JoinWordOf
  <1>5. step \in [Wraps(max) \X (1..n) -> Wraps(max)]
    <2> HIDE DEF Word
    <2> QED
      BY <1>4
  <1>6. \A a \in Wraps(max), k \in 1..n : step[<<a, k>>] = Word(a, words[k])
    OBVIOUS
  <1> HIDE DEF n, step, Word
  <1>7. Folds(it)
    <2>1. PICK f : FoldsAlways(f, Wraps(max), n, start, step)
      BY <1>1, <1>2, <1>5, FoldExists
    <2>2. Folds(f)
      BY <1>1, <1>6, <2>1 DEF FoldsAlways
    <2> HIDE DEF Folds
    <2> QED
      BY <2>2
  <1> HIDE DEF it
  <1>8. FoldsWithin(it, Wraps(max), n, start, step)
    BY <1>1, <1>6, <1>7 DEF FoldsWithin
  <1>9. it[1..n] \in Wraps(max)
    BY <1>1, <1>2, <1>5, <1>8, FoldStaysIn
  <1> QED
    BY <1>1, <1>3, <1>9

LEMMA EndLineOf ==
    ASSUME NEW max \in Nat, NEW acc \in Wraps(max), NEW line, NEW prefix \in Texts
    PROVE  EndLine(acc, line, prefix, max) \in Pages(max)
  <1>1. acc.lines \in Pages(max) /\ acc.line \in Texts /\ <<>> \in Texts
    BY DEF Wraps, Texts
  <1>2. prefix \o acc.line \in Texts
    BY <1>1, ConcatProperties DEF Texts
  <1>3. Len(acc.lines) < max => Len(acc.lines) # max
    BY <1>1, LenProperties DEF Pages
  <1>4. Len(acc.lines) # max => /\ Append(acc.lines, prefix \o acc.line) \in Pages(max)
                                /\ Append(acc.lines, <<>>) \in Pages(max)
    BY <1>1, <1>2, MorePage
  <1> QED
    BY <1>1, <1>3, <1>4 DEF EndLine

LEMMA IndentIs ==
    ASSUME NEW line \in Texts, NEW width \in Nat \ {0}
    PROVE  Indent(line, width) \in Int
  <1> DEFINE ends == {n \in 0..Len(line) : n = Len(line) \/ line[n + 1] # Space}
             all == {width - 1} \cup ends
  <1>1. Len(line) \in Nat /\ width - 1 \in Nat
    BY LenProperties DEF Texts
  <1>2. all \subseteq 0..(Len(line) + width) /\ all # {}
    <2>1. \A n \in all : n = width - 1 \/ n \in 0..Len(line)
      OBVIOUS
    <2> HIDE DEF all
    <2>2. \A n \in all : n \in 0..(Len(line) + width)
      BY <1>1, <2>1
    <2> QED
      BY <2>2 DEF all
  <1>3. Indent(line, width) = Min(all)
    BY DEF Indent
  <1> HIDE DEF all
  <1>4. Len(line) + width \in Nat
    BY <1>1
  <1>5. Min(all) \in all
    BY <1>2, <1>4, EndsOf
  <1>6. Min(all) \in 0..(Len(line) + width)
    BY <1>2, <1>5
  <1> QED
    BY <1>3, <1>6

LEMMA WrapFlowTextOf ==
    ASSUME NEW text \in Texts, NEW width \in Nat, NEW max \in Nat
    PROVE  WrapFlowText(text, width, max) \in Pages(max)
  <1> DEFINE paragraphs == Lines(text)
             n == Len(paragraphs)
             Line(lines, line, prefix) ==
                 EndLine(WrapLine(lines, line, prefix, Max({width - Len(prefix), 1}), max),
                         line, prefix, max)
             Next1(lines, line) == IF Len(lines) = max THEN lines
                                   ELSE Line(lines, line, Blanks(Indent(line, width)))
             step == [z \in Pages(max) \X (1..n) |-> Next1(z[1], paragraphs[z[2]])]
             Folds(f) == f = [s \in SUBSET DOMAIN paragraphs |->
                                 IF s = {} THEN <<>>
                                 ELSE Next1(f[s \ {Max(s)}], paragraphs[Max(s)])]
             it == CHOOSE f : Folds(f)
  <1>1. n \in Nat /\ DOMAIN paragraphs = 1..n /\ \A k \in 1..n : paragraphs[k] \in Texts
    BY LinesOf, LenProperties, ElementOfSeq
  <1>2. <<>> \in Pages(max)
    BY EmptySeq DEF Pages
  <1>3. CASE width = 0 \/ max = 0
    <2>1. WrapFlowText(text, width, max) = <<>>
      BY <1>3 DEF WrapFlowText
    <2> QED
      BY <1>2, <2>1
  <1>4. CASE ~(width = 0 \/ max = 0)
    <2>1. WrapFlowText(text, width, max) = it[DOMAIN paragraphs]
      BY <1>4 DEF WrapFlowText, FoldLeft, MapThenFoldSet
    <2> HIDE DEF paragraphs
    <2>2. \A lines \in Pages(max), k \in 1..n : Next1(lines, paragraphs[k]) \in Pages(max)
      <3> SUFFICES ASSUME NEW lines \in Pages(max), NEW line \in Texts
                   PROVE  Next1(lines, line) \in Pages(max)
        BY <1>1
      <3> DEFINE prefix == Blanks(Indent(line, width))
                 room == Max({width - Len(prefix), 1})
      <3>1. prefix \in Texts
        BY <1>4, IndentIs, BlanksOf
      <3> HIDE DEF prefix
      <3>2. Len(prefix) \in Nat
        BY <3>1, LenProperties DEF Texts
      <3>3. room \in Nat \ {0}
        <4>1. width - Len(prefix) \in Int /\ 1 \in Int
          BY <3>2
        <4>2. room = IF width - Len(prefix) <= 1 THEN 1 ELSE width - Len(prefix)
          BY <4>1, MaxPair
        <4> HIDE DEF room
        <4> QED
          BY <4>1, <4>2
      <3> HIDE DEF room
      <3>4. WrapLine(lines, line, prefix, room, max) \in Wraps(max)
        BY <3>1, <3>3, WrapLineOf
      <3>5. EndLine(WrapLine(lines, line, prefix, room, max), line, prefix, max) \in Pages(max)
        BY <3>1, <3>4, EndLineOf
      <3> QED
        BY <3>5 DEF prefix, room
    <2>3. step \in [Pages(max) \X (1..n) -> Pages(max)]
      <3> HIDE DEF Next1
      <3> QED
        BY <2>2
    <2>4. \A a \in Pages(max), k \in 1..n : step[<<a, k>>] = Next1(a, paragraphs[k])
      OBVIOUS
    <2> HIDE DEF n, step, Next1
    <2>5. Folds(it)
      <3>1. PICK f : FoldsAlways(f, Pages(max), n, <<>>, step)
        BY <1>1, <1>2, <2>3, FoldExists
      <3>2. Folds(f)
        BY <1>1, <2>4, <3>1 DEF FoldsAlways
      <3> HIDE DEF Folds
      <3> QED
        BY <3>2
    <2> HIDE DEF it
    <2>6. FoldsWithin(it, Pages(max), n, <<>>, step)
      BY <1>1, <2>4, <2>5 DEF FoldsWithin
    <2>7. it[1..n] \in Pages(max)
      BY <1>1, <1>2, <2>3, <2>6, FoldStaysIn
    <2> QED
      BY <1>1, <2>1, <2>7
  <1> QED
    BY <1>3, <1>4

\* The text without the blanks at the ends of its lines.
LEMMA TrimEndOf ==
    ASSUME NEW line \in Texts
    PROVE  TrimEnd(line) \in Texts
  <1> DEFINE inked == {0} \cup {n \in DOMAIN line : line[n] # Space}
  <1>1. Len(line) \in Nat /\ DOMAIN line = 1..Len(line)
    BY LenProperties DEF Texts
  <1>2. inked \subseteq 0..Len(line) /\ inked # {}
    BY <1>1
  <1>3. TrimEnd(line) = SubSeq(line, 1, Max(inked))
    BY DEF TrimEnd
  <1> HIDE DEF inked
  <1>4. Max(inked) \in 0..Len(line)
    BY <1>1, <1>2, EndsOf
  <1>5. Max(inked) \in Int /\ Max(inked) <= Len(line) /\ 1 \in Nat \ {0}
    BY <1>1, <1>4
  <1> QED
    BY <1>3, <1>5, PartOf DEF Texts

LEMMA UnpaddedOf ==
    ASSUME NEW text \in Texts
    PROVE  Unpadded(text) \in Texts
  <1> DEFINE parts == Split(text, Newline)
             trimmed == [n \in DOMAIN parts |->
                            (IF n = 1 THEN <<>> ELSE <<Newline>>) \o TrimEnd(parts[n])]
  <1>1. parts \in Seq(Texts)
    BY SplitOf
  <1>2. Unpadded(text) = Together(trimmed)
    BY DEF Unpadded, Joined
  <1> HIDE DEF parts
  <1>3. Len(parts) \in Nat /\ DOMAIN parts = 1..Len(parts)
    BY <1>1, LenProperties
  <1>4. \A n \in DOMAIN parts :
           (IF n = 1 THEN <<>> ELSE <<Newline>>) \o TrimEnd(parts[n]) \in Texts
    <2>1. \A n \in DOMAIN parts : TrimEnd(parts[n]) \in Texts
      BY <1>1, <1>3, ElementOfSeq, TrimEndOf
    <2>2. <<>> \in Texts /\ <<Newline>> \in Texts
      BY Signs DEF Texts
    <2> QED
      BY <2>1, <2>2, ConcatProperties DEF Texts
  <1>5. trimmed \in [1..Len(parts) -> Texts]
    BY <1>3, <1>4
  <1> HIDE DEF trimmed
  <1>6. trimmed \in Seq(Texts)
    BY <1>3, <1>5, SeqDef
  <1> QED
    BY <1>2, <1>6, TogetherOf

-------------------------------------------------------------------------------
(* The canvas.                                                                 *)

Slots == Glyphs \cup {Empty, Continuation}
Places(c, r) == (0..c - 1) \X (0..r - 1)
\* No half of a wide glyph is without the other.
WholeAt(at, c, r) ==
    \A x \in 0..c - 1, y \in 0..r - 1 :
        /\ at[<<x, y>>] = Continuation => x > 0 /\ at[<<x - 1, y>>] \in Wide
        /\ at[<<x, y>>] \in Wide => x + 1 < c /\ at[<<x + 1, y>>] = Continuation
Canvases(c, r) ==
    {cv \in [cols : {c}, rows : {r}, at : [Places(c, r) -> Slots]] : WholeAt(cv.at, c, r)}

LEMMA CanvasSigns ==
    /\ Wide \subseteq Glyphs /\ Empty \notin Glyphs /\ Continuation \notin Glyphs
    /\ Empty # Continuation
    /\ Mark \in Glyphs /\ Mark \notin Wide /\ Space \in Glyphs /\ Space \notin Wide
  BY TextAssumption, CanvasAssumption DEF Empty, Continuation

\* The slots of clear_footprint.
Footprint(at, x, y) ==
    {x} \cup (IF at[<<x, y>>] = Continuation THEN {x - 1} ELSE {})
        \cup (IF at[<<x, y>>] \in Wide THEN {x + 1} ELSE {})
Cleared(at, c, r, x, y) ==
    IF ~(x \in 0..c - 1 /\ y \in 0..r - 1) THEN at
    ELSE [p \in Places(c, r) |-> IF p \in Footprint(at, x, y) \X {y} THEN Empty ELSE at[p]]

LEMMA ClearedSlots ==
    ASSUME NEW c \in Nat, NEW r \in Nat, NEW cv, NEW at \in [Places(c, r) -> Slots],
           cv = [cols |-> c, rows |-> r, at |-> at], NEW x \in Int, NEW y \in Int
    PROVE  /\ Cleared(at, c, r, x, y) \in [Places(c, r) -> Slots]
           /\ clear_footprint(cv, x, y) = [cols |-> c, rows |-> r, at |-> Cleared(at, c, r, x, y)]
  <1>1. Cleared(at, c, r, x, y) \in [Places(c, r) -> Slots]
    BY DEF Cleared, Slots
  <1>2. CASE ~(x \in 0..c - 1 /\ y \in 0..r - 1)
    BY <1>1, <1>2 DEF clear_footprint, Cleared, Has
  <1>3. CASE x \in 0..c - 1 /\ y \in 0..r - 1
    <2> DEFINE slot == at[<<x, y>>]
               gone == {<<x, y>>} \cup (IF slot = Continuation THEN {<<x - 1, y>>} ELSE {})
                                  \cup (IF slot \in Wide THEN {<<x + 1, y>>} ELSE {})
    <2>1. clear_footprint(cv, x, y)
          = [cv EXCEPT !.at = [p \in DOMAIN @ |-> IF p \in gone THEN Empty ELSE @[p]]]
      BY <1>3 DEF clear_footprint, Has
    <2>2. [p \in DOMAIN at |-> IF p \in gone THEN Empty ELSE at[p]] = Cleared(at, c, r, x, y)
      <3>1. gone = Footprint(at, x, y) \X {y}
        BY DEF Footprint
      <3> HIDE DEF gone
      <3> QED
        BY <1>3, <3>1 DEF Cleared
    <2>3. cv.at = at
      OBVIOUS
    <2>4. clear_footprint(cv, x, y) = [cv EXCEPT !.at = Cleared(at, c, r, x, y)]
      <3> HIDE DEF gone
      <3> QED
        BY <2>1, <2>2, <2>3
    <2> QED
      BY <1>1, <2>4
  <1> QED
    BY <1>1, <1>2, <1>3

LEMMA ClearedAt ==
    ASSUME NEW c \in Nat, NEW r \in Nat, NEW at, NEW x \in 0..c - 1, NEW y \in 0..r - 1,
           NEW i \in 0..c - 1, NEW j \in 0..r - 1
    PROVE  /\ j = y /\ i \in Footprint(at, x, y) => Cleared(at, c, r, x, y)[<<i, j>>] = Empty
           /\ ~(j = y /\ i \in Footprint(at, x, y)) =>
                 Cleared(at, c, r, x, y)[<<i, j>>] = at[<<i, j>>]
  BY DEF Cleared, Places

LEMMA ClearKeeps ==
    ASSUME NEW c \in Nat, NEW r \in Nat, NEW cv \in Canvases(c, r), NEW x \in Int, NEW y \in Int
    PROVE  clear_footprint(cv, x, y) \in Canvases(c, r)
  <1> DEFINE at == cv.at
             next == Cleared(at, c, r, x, y)
  <1>1. /\ at \in [Places(c, r) -> Slots] /\ WholeAt(at, c, r)
        /\ cv = [cols |-> c, rows |-> r, at |-> at]
    BY DEF Canvases
  <1>2. /\ next \in [Places(c, r) -> Slots]
        /\ clear_footprint(cv, x, y) = [cols |-> c, rows |-> r, at |-> next]
    BY <1>1, ClearedSlots
  <1>3. WholeAt(next, c, r)
    <2> HIDE DEF at
    <2>1. CASE ~(x \in 0..c - 1 /\ y \in 0..r - 1)
      BY <1>1, <2>1 DEF Cleared
    <2>2. CASE x \in 0..c - 1 /\ y \in 0..r - 1
      <3> SUFFICES ASSUME NEW i \in 0..c - 1, NEW j \in 0..r - 1
                   PROVE  /\ next[<<i, j>>] = Continuation =>
                                i > 0 /\ next[<<i - 1, j>>] \in Wide
                          /\ next[<<i, j>>] \in Wide =>
                                i + 1 < c /\ next[<<i + 1, j>>] = Continuation
        BY DEF WholeAt
      <3> DEFINE F == Footprint(at, x, y)
      <3>0. c \in Nat /\ i \in 0..c - 1 /\ x \in 0..c - 1
        BY <2>2
      <3>1. \A k \in 0..c - 1 : /\ j = y /\ k \in F => next[<<k, j>>] = Empty
                                /\ ~(j = y /\ k \in F) => next[<<k, j>>] = at[<<k, j>>]
        <4> SUFFICES ASSUME NEW k \in 0..c - 1
                     PROVE  /\ j = y /\ k \in F => next[<<k, j>>] = Empty
                            /\ ~(j = y /\ k \in F) => next[<<k, j>>] = at[<<k, j>>]
          OBVIOUS
        <4>1. x \in 0..c - 1 /\ y \in 0..r - 1
          BY <2>2
        <4> HIDE DEF next
        <4>2. /\ j = y /\ k \in Footprint(at, x, y) => Cleared(at, c, r, x, y)[<<k, j>>] = Empty
              /\ ~(j = y /\ k \in Footprint(at, x, y)) =>
                    Cleared(at, c, r, x, y)[<<k, j>>] = at[<<k, j>>]
          BY <4>1, ClearedAt
        <4> QED
          BY <4>2 DEF next
      <3>2. \A k \in 0..c - 1 :
               /\ at[<<k, j>>] = Continuation => k > 0 /\ at[<<k - 1, j>>] \in Wide
               /\ at[<<k, j>>] \in Wide => k + 1 < c /\ at[<<k + 1, j>>] = Continuation
        BY <1>1 DEF WholeAt
      <3>3. j = y => \A k \in F : \/ k = x
                                  \/ k = x - 1 /\ at[<<x, j>>] = Continuation
                                  \/ k = x + 1 /\ at[<<x, j>>] \in Wide
        BY DEF Footprint
      <3>4. j = y => /\ x \in F
                     /\ at[<<x, j>>] = Continuation => x - 1 \in F
                     /\ at[<<x, j>>] \in Wide => x + 1 \in F
        BY DEF Footprint
      <3> HIDE DEF next, F
      <3>5. ASSUME next[<<i, j>>] = Continuation
            PROVE  i > 0 /\ next[<<i - 1, j>>] \in Wide
        <4>1. ~(j = y /\ i \in F) /\ at[<<i, j>>] = Continuation
          BY <3>1, <3>5, CanvasSigns
        <4>2. i > 0 /\ at[<<i - 1, j>>] \in Wide
          BY <3>2, <4>1
        <4>3. i - 1 \in 0..c - 1 /\ (i - 1) + 1 = i /\ i - 1 # i
          BY <3>0, <4>2
        <4>4. ~(j = y /\ i - 1 \in F)
          <5> SUFFICES ASSUME j = y, i - 1 \in F PROVE FALSE
            OBVIOUS
          <5>1. i - 1 # x
            BY <3>4, <4>2, <4>3, <4>1
          <5>2. ~(i - 1 = x - 1)
            BY <3>0, <3>4, <4>1
          <5>3. ~(i - 1 = x + 1 /\ at[<<x, j>>] \in Wide)
            <6> SUFFICES ASSUME i - 1 = x + 1, at[<<x, j>>] \in Wide PROVE FALSE
              OBVIOUS
            <6>1. at[<<i - 1, j>>] = Continuation
              BY <3>0, <3>2
            <6> QED
              BY <4>2, <6>1, CanvasSigns
          <5> QED
            BY <3>3, <5>1, <5>2, <5>3
        <4>5. next[<<i - 1, j>>] = at[<<i - 1, j>>]
          BY <3>1, <4>3, <4>4
        <4> QED
          BY <4>2, <4>5
      <3>6. ASSUME next[<<i, j>>] \in Wide
            PROVE  i + 1 < c /\ next[<<i + 1, j>>] = Continuation
        <4>1. ~(j = y /\ i \in F) /\ at[<<i, j>>] \in Wide
          BY <3>1, <3>6, CanvasSigns
        <4>2. i + 1 < c /\ at[<<i + 1, j>>] = Continuation
          BY <3>2, <4>1
        <4>3. i + 1 \in 0..c - 1 /\ (i + 1) - 1 = i /\ i + 1 # i
          BY <3>0, <4>2
        <4>4. ~(j = y /\ i + 1 \in F)
          <5> SUFFICES ASSUME j = y, i + 1 \in F PROVE FALSE
            OBVIOUS
          <5>1. i + 1 # x
            BY <3>4, <4>2, <4>3, <4>1
          <5>2. ~(i + 1 = x - 1 /\ at[<<x, j>>] = Continuation)
            <6> SUFFICES ASSUME i + 1 = x - 1, at[<<x, j>>] = Continuation PROVE FALSE
              OBVIOUS
            <6>1. at[<<i + 1, j>>] \in Wide
              BY <3>0, <3>2
            <6> QED
              BY <4>2, <6>1, CanvasSigns
          <5>3. ~(i + 1 = x + 1)
            BY <3>0, <3>4, <4>1
          <5> QED
            BY <3>3, <5>1, <5>2, <5>3
        <4>5. next[<<i + 1, j>>] = at[<<i + 1, j>>]
          BY <3>1, <4>3, <4>4
        <4> QED
          BY <4>2, <4>5
      <3> QED
        BY <3>5, <3>6
    <2> QED
      BY <2>1, <2>2
  <1> HIDE DEF next
  <1> QED
    BY <1>2, <1>3 DEF Canvases

\* Columns of a row, and what is written there: beyond it only a glyph goes that
\* reached into it.
Span(x, y, width) == [x |-> x, y |-> y, width |-> width, height |-> 1]
Within(rect, at, next, c, r) ==
    \A i \in 0..c - 1, j \in 0..r - 1 :
        \/ next[<<i, j>>] = at[<<i, j>>]
        \/ Lies(rect, i, j)
        \/ HalfOf(rect, at[<<i, j>>], i, j)
\* What was written before is left as it is.
Spares(at, next, c, r) ==
    \A i \in 0..c - 1, j \in 0..r - 1 :
        at[<<i, j>>] # Empty => next[<<i, j>>] = at[<<i, j>>]

LEMMA SpanIs ==
    ASSUME NEW x \in Int, NEW y \in Int, NEW width \in Int, NEW i \in Int, NEW j \in Int
    PROVE  Lies(Span(x, y, width), i, j) <=> x <= i /\ i < x + width /\ j = y
  <1> DEFINE s == Span(x, y, width)
  <1>1. s.x = x /\ s.y = y /\ s.width = width /\ s.height = 1
    BY DEF Span
  <1>2. Right(s) = x + width /\ Bottom(s) = y + 1
    BY <1>1 DEF Right, Bottom
  <1> HIDE DEF s
  <1>3. Lies(s, i, j) <=> i \in x..x + width - 1 /\ j \in y..y + 1 - 1
    BY <1>1, <1>2 DEF Lies
  <1>4. Lies(s, i, j) <=> x <= i /\ i < x + width /\ j = y
    BY <1>3
  <1> QED
    BY <1>4 DEF s

LEMMA WithinMore ==
    ASSUME NEW c \in Nat, NEW r \in Nat, NEW at, NEW next, NEW inner, NEW outer,
           Within(inner, at, next, c, r),
           \A i, j \in Int : Lies(inner, i, j) => Lies(outer, i, j)
    PROVE  Within(outer, at, next, c, r)
  <1> SUFFICES ASSUME NEW i \in 0..c - 1, NEW j \in 0..r - 1
               PROVE  \/ next[<<i, j>>] = at[<<i, j>>]
                      \/ Lies(outer, i, j)
                      \/ HalfOf(outer, at[<<i, j>>], i, j)
    BY DEF Within
  <1>1. i \in Int /\ j \in Int /\ i - 1 \in Int /\ i + 1 \in Int
    OBVIOUS
  <1>2. \/ next[<<i, j>>] = at[<<i, j>>]
        \/ Lies(inner, i, j)
        \/ HalfOf(inner, at[<<i, j>>], i, j)
    BY DEF Within
  <1> QED
    BY <1>1, <1>2 DEF HalfOf

LEMMA WithinOn ==
    ASSUME NEW c \in Nat, NEW r \in Nat, NEW a, NEW b, NEW d, NEW rect,
           Within(rect, a, b, c, r), Within(rect, b, d, c, r)
    PROVE  Within(rect, a, d, c, r)
  BY DEF Within

LEMMA SparesOn ==
    ASSUME NEW c \in Nat, NEW r \in Nat, NEW a, NEW b, NEW d,
           Spares(a, b, c, r), Spares(b, d, c, r)
    PROVE  Spares(a, d, c, r)
  BY DEF Spares

\* Where nothing is, nothing is overwritten, and no glyph reaches in.
LEMMA FreeSpares ==
    ASSUME NEW c \in Nat, NEW r \in Nat, NEW at, NEW next, NEW rect, WholeAt(at, c, r),
           Within(rect, at, next, c, r),
           \A i \in 0..c - 1, j \in 0..r - 1 : Lies(rect, i, j) => at[<<i, j>>] = Empty
    PROVE  Spares(at, next, c, r)
  <1> SUFFICES ASSUME NEW i \in 0..c - 1, NEW j \in 0..r - 1, at[<<i, j>>] # Empty
               PROVE  next[<<i, j>>] = at[<<i, j>>]
    BY DEF Spares
  <1>1. /\ at[<<i, j>>] = Continuation => i > 0 /\ at[<<i - 1, j>>] \in Wide
        /\ at[<<i, j>>] \in Wide => i + 1 < c /\ at[<<i + 1, j>>] = Continuation
    BY DEF WholeAt
  <1>2. ~Lies(rect, i, j)
    OBVIOUS
  <1>3. ~(at[<<i, j>>] = Continuation /\ Lies(rect, i - 1, j))
    <2> SUFFICES ASSUME at[<<i, j>>] = Continuation, Lies(rect, i - 1, j) PROVE FALSE
      OBVIOUS
    <2>1. i - 1 \in 0..c - 1
      BY <1>1
    <2>2. at[<<i - 1, j>>] = Empty
      BY <2>1
    <2> QED
      BY <1>1, <2>2, CanvasSigns
  <1>4. ~(at[<<i, j>>] \in Wide /\ Lies(rect, i + 1, j))
    <2> SUFFICES ASSUME at[<<i, j>>] \in Wide, Lies(rect, i + 1, j) PROVE FALSE
      OBVIOUS
    <2>1. i + 1 \in 0..c - 1
      BY <1>1
    <2>2. at[<<i + 1, j>>] = Empty
      BY <2>1
    <2> QED
      BY <1>1, <2>2, CanvasSigns
  <1> QED
    BY <1>2, <1>3, <1>4 DEF Within, HalfOf

LEMMA ClearWithin ==
    ASSUME NEW c \in Nat, NEW r \in Nat, NEW cv \in Canvases(c, r), NEW x \in Int, NEW y \in Int
    PROVE  Within(Span(x, y, 1), cv.at, clear_footprint(cv, x, y).at, c, r)
  <1> DEFINE at == cv.at
             next == Cleared(at, c, r, x, y)
             F == Footprint(at, x, y)
  <1>1. /\ at \in [Places(c, r) -> Slots] /\ WholeAt(at, c, r)
        /\ cv = [cols |-> c, rows |-> r, at |-> at]
    BY DEF Canvases
  <1>2. clear_footprint(cv, x, y) = [cols |-> c, rows |-> r, at |-> next]
    BY <1>1, ClearedSlots
  <1>3. clear_footprint(cv, x, y).at = next
    <2> HIDE DEF next
    <2> QED
      BY <1>2
  <1> HIDE DEF at
  <1> SUFFICES ASSUME NEW i \in 0..c - 1, NEW j \in 0..r - 1, next[<<i, j>>] # at[<<i, j>>]
               PROVE  Lies(Span(x, y, 1), i, j) \/ HalfOf(Span(x, y, 1), at[<<i, j>>], i, j)
    BY <1>3 DEF Within, at
  <1> HIDE DEF F, next
  <1>4. x \in 0..c - 1 /\ y \in 0..r - 1
    <2>1. ~(x \in 0..c - 1 /\ y \in 0..r - 1) => Cleared(at, c, r, x, y) = at
      BY DEF Cleared
    <2> QED
      BY <2>1 DEF next
  <1>5. j = y /\ i \in F
    <2>1. ~(j = y /\ i \in Footprint(at, x, y)) =>
             Cleared(at, c, r, x, y)[<<i, j>>] = at[<<i, j>>]
      BY <1>4, ClearedAt
    <2> QED
      BY <2>1 DEF next, F
  <1>6. \/ i = x
        \/ i = x - 1 /\ at[<<x, j>>] = Continuation
        \/ i = x + 1 /\ at[<<x, j>>] \in Wide
    BY <1>5 DEF F, Footprint
  <1>7. \A k \in Int : Lies(Span(x, y, 1), k, j) <=> k = x
    <2> SUFFICES ASSUME NEW k \in Int PROVE Lies(Span(x, y, 1), k, j) <=> k = x
      OBVIOUS
    <2>1. j \in Int /\ 1 \in Int
      OBVIOUS
    <2>2. Lies(Span(x, y, 1), k, j) <=> x <= k /\ k < x + 1 /\ j = y
      BY <2>1, SpanIs
    <2> QED
      BY <1>5, <2>2
  <1>8. /\ at[<<x, j>>] = Continuation => at[<<x - 1, j>>] \in Wide
        /\ at[<<x, j>>] \in Wide => at[<<x + 1, j>>] = Continuation
    BY <1>1, <1>4 DEF WholeAt
  <1>9. CASE i = x
    BY <1>7, <1>9
  <1>10. CASE i = x - 1 /\ at[<<x, j>>] = Continuation
    <2>1. i + 1 = x /\ i + 1 \in Int
      BY <1>10
    <2> QED
      BY <1>7, <1>8, <1>10, <2>1 DEF HalfOf
  <1>11. CASE i = x + 1 /\ at[<<x, j>>] \in Wide
    <2>1. i - 1 = x /\ i - 1 \in Int
      BY <1>11
    <2> QED
      BY <1>7, <1>8, <1>11, <2>1 DEF HalfOf
  <1> QED
    BY <1>6, <1>9, <1>10, <1>11

\* A glyph where nothing is, and a wide one over two such slots.
LEMMA NarrowKeeps ==
    ASSUME NEW c \in Nat, NEW r \in Nat, NEW at \in [Places(c, r) -> Slots], WholeAt(at, c, r),
           NEW x \in 0..c - 1, NEW y \in 0..r - 1, at[<<x, y>>] = Empty,
           NEW glyph \in Glyphs \ Wide
    PROVE  /\ [at EXCEPT ![<<x, y>>] = glyph] \in [Places(c, r) -> Slots]
           /\ WholeAt([at EXCEPT ![<<x, y>>] = glyph], c, r)
  <1> DEFINE next == [at EXCEPT ![<<x, y>>] = glyph]
  <1>1. next \in [Places(c, r) -> Slots]
    BY DEF Slots
  <1>2. /\ next[<<x, y>>] = glyph
        /\ \A i \in 0..c - 1, j \in 0..r - 1 : <<i, j>> # <<x, y>> => next[<<i, j>>] = at[<<i, j>>]
    BY DEF Places
  <1> HIDE DEF next
  <1>3. WholeAt(next, c, r)
    <2> SUFFICES ASSUME NEW i \in 0..c - 1, NEW j \in 0..r - 1
                 PROVE  /\ next[<<i, j>>] = Continuation => i > 0 /\ next[<<i - 1, j>>] \in Wide
                        /\ next[<<i, j>>] \in Wide =>
                              i + 1 < c /\ next[<<i + 1, j>>] = Continuation
      BY DEF WholeAt
    <2>1. /\ at[<<i, j>>] = Continuation => i > 0 /\ at[<<i - 1, j>>] \in Wide
          /\ at[<<i, j>>] \in Wide => i + 1 < c /\ at[<<i + 1, j>>] = Continuation
      BY DEF WholeAt
    <2>2. CASE <<i, j>> = <<x, y>>
      BY <1>2, <2>2, CanvasSigns
    <2>3. CASE <<i, j>> # <<x, y>>
      <3>1. next[<<i, j>>] = at[<<i, j>>]
        BY <1>2, <2>3
      <3>2. ASSUME at[<<i, j>>] = Continuation
            PROVE  i > 0 /\ next[<<i - 1, j>>] \in Wide
        <4>1. i - 1 \in 0..c - 1
          BY <2>1, <3>2
        <4>2. <<i - 1, j>> # <<x, y>>
          BY <2>1, <3>2, CanvasSigns
        <4> QED
          BY <1>2, <2>1, <3>2, <4>1, <4>2
      <3>3. ASSUME at[<<i, j>>] \in Wide
            PROVE  i + 1 < c /\ next[<<i + 1, j>>] = Continuation
        <4>1. i + 1 \in 0..c - 1
          BY <2>1, <3>3
        <4>2. <<i + 1, j>> # <<x, y>>
          BY <2>1, <3>3, CanvasSigns
        <4> QED
          BY <1>2, <2>1, <3>3, <4>1, <4>2
      <3> QED
        BY <3>1, <3>2, <3>3
    <2> QED
      BY <2>2, <2>3
  <1> QED
    BY <1>1, <1>3 DEF next

LEMMA WideKeeps ==
    ASSUME NEW c \in Nat, NEW r \in Nat, NEW at \in [Places(c, r) -> Slots], WholeAt(at, c, r),
           NEW x \in 0..c - 1, NEW y \in 0..r - 1, x + 1 \in 0..c - 1,
           at[<<x, y>>] = Empty, at[<<x + 1, y>>] = Empty,
           NEW glyph \in Wide, NEW next \in [Places(c, r) -> Slots],
           \A i \in 0..c - 1, j \in 0..r - 1 :
               next[<<i, j>>] = IF j = y /\ i = x THEN glyph
                                ELSE IF j = y /\ i = x + 1 THEN Continuation
                                ELSE at[<<i, j>>]
    PROVE  WholeAt(next, c, r)
  <1> SUFFICES ASSUME NEW i \in 0..c - 1, NEW j \in 0..r - 1
               PROVE  /\ next[<<i, j>>] = Continuation => i > 0 /\ next[<<i - 1, j>>] \in Wide
                      /\ next[<<i, j>>] \in Wide =>
                            i + 1 < c /\ next[<<i + 1, j>>] = Continuation
    BY DEF WholeAt
  <1>1. /\ at[<<i, j>>] = Continuation => i > 0 /\ at[<<i - 1, j>>] \in Wide
        /\ at[<<i, j>>] \in Wide => i + 1 < c /\ at[<<i + 1, j>>] = Continuation
    BY DEF WholeAt
  <1>2. CASE j = y /\ i = x
    <2>1. next[<<i, j>>] = glyph /\ next[<<i + 1, j>>] = Continuation
      BY <1>2
    <2> QED
      BY <1>2, <2>1, CanvasSigns
  <1>3. CASE j = y /\ i = x + 1
    <2>1. i - 1 = x /\ i # x /\ i > 0
      BY <1>3
    <2>2. next[<<i, j>>] = Continuation /\ next[<<i - 1, j>>] = glyph
      BY <1>3, <2>1
    <2> QED
      BY <2>1, <2>2, CanvasSigns
  <1>4. CASE ~(j = y /\ i = x) /\ ~(j = y /\ i = x + 1)
    <2>1. next[<<i, j>>] = at[<<i, j>>]
      BY <1>4
    <2>2. ASSUME at[<<i, j>>] = Continuation
          PROVE  i > 0 /\ next[<<i - 1, j>>] \in Wide
      <3>1. i - 1 \in 0..c - 1
        BY <1>1, <2>2
      <3>2. ~(j = y /\ i - 1 = x) /\ ~(j = y /\ i - 1 = x + 1)
        BY <1>1, <2>2, CanvasSigns
      <3>3. next[<<i - 1, j>>] = at[<<i - 1, j>>]
        BY <3>1, <3>2
      <3> QED
        BY <1>1, <2>2, <3>3
    <2>3. ASSUME at[<<i, j>>] \in Wide
          PROVE  i + 1 < c /\ next[<<i + 1, j>>] = Continuation
      <3>1. i + 1 \in 0..c - 1
        BY <1>1, <2>3
      <3>2. ~(j = y /\ i + 1 = x) /\ ~(j = y /\ i + 1 = x + 1)
        BY <1>1, <2>3, CanvasSigns
      <3>3. next[<<i + 1, j>>] = at[<<i + 1, j>>]
        BY <3>1, <3>2
      <3> QED
        BY <1>1, <2>3, <3>3
    <2> QED
      BY <2>1, <2>2, <2>3
  <1> QED
    BY <1>2, <1>3, <1>4

LEMMA PutKeeps ==
    ASSUME NEW c \in Nat, NEW r \in Nat, NEW cv \in Canvases(c, r),
           NEW x \in Nat, NEW y \in 0..r - 1, NEW glyph \in Glyphs, x + Width(glyph) <= c
    PROVE  /\ Put(cv, x, y, glyph) \in Canvases(c, r)
           /\ Within(Span(x, y, Width(glyph)), cv.at, Put(cv, x, y, glyph).at, c, r)
  <1> DEFINE base == clear_footprint(cv, x, y)
             at == base.at
             set == [at EXCEPT ![<<x, y>>] = glyph]
             one == [base EXCEPT !.at[<<x, y>>] = glyph]
  <1>1. x \in 0..c - 1
    <2>1. Width(glyph) \in {1, 2}
      BY DEF Width
    <2> QED
      BY <2>1
  <1>2. cv = [cols |-> c, rows |-> r, at |-> cv.at] /\ cv.at \in [Places(c, r) -> Slots]
    BY DEF Canvases
  <1>3. base \in Canvases(c, r)
        /\ base = [cols |-> c, rows |-> r, at |-> Cleared(cv.at, c, r, x, y)]
    BY <1>2, ClearKeeps, ClearedSlots
  <1>4. at = Cleared(cv.at, c, r, x, y) /\ at[<<x, y>>] = Empty
    <2>1. x \in Footprint(cv.at, x, y)
      BY DEF Footprint
    <2>2. Cleared(cv.at, c, r, x, y)[<<x, y>>] = Empty
      BY <1>1, <2>1, ClearedAt
    <2>3. at = Cleared(cv.at, c, r, x, y)
      <3> HIDE DEF base
      <3> QED
        BY <1>3
    <2> QED
      BY <2>2, <2>3
  <1>5. /\ at \in [Places(c, r) -> Slots] /\ WholeAt(at, c, r)
        /\ base = [cols |-> c, rows |-> r, at |-> at]
    <2> HIDE DEF base
    <2> QED
      BY <1>3 DEF Canvases
  <1> HIDE DEF base, at
  <1>9. Within(Span(x, y, 1), cv.at, at, c, r)
    <2>1. x \in Int /\ y \in Int
      OBVIOUS
    <2> QED
      BY <2>1, ClearWithin DEF base, at
  <1>10. \A n \in Int, i \in 0..c - 1, j \in 0..r - 1 :
           Lies(Span(x, y, n), i, j) <=> x <= i /\ i < x + n /\ j = y
    <2> SUFFICES ASSUME NEW n \in Int, NEW i \in 0..c - 1, NEW j \in 0..r - 1
                 PROVE  Lies(Span(x, y, n), i, j) <=> x <= i /\ i < x + n /\ j = y
      OBVIOUS
    <2>1. x \in Int /\ y \in Int /\ i \in Int /\ j \in Int
      OBVIOUS
    <2> QED
      BY <2>1, SpanIs
  <1>6. one = [cols |-> c, rows |-> r, at |-> set] /\ set \in [Places(c, r) -> Slots]
    <2>1. set \in [Places(c, r) -> Slots]
      BY <1>5 DEF Slots
    <2>2. one = [base EXCEPT !.at = set]
      BY DEF at
    <2> HIDE DEF set, one
    <2> QED
      BY <1>5, <2>1, <2>2
  <1>7. CASE glyph \notin Wide
    <2>1. Put(cv, x, y, glyph) = one
      BY <1>7 DEF Put, base
    <2>2. WholeAt(set, c, r)
      BY <1>1, <1>4, <1>5, <1>7, NarrowKeeps
    <2>3. Within(Span(x, y, 1), at, set, c, r)
      <3> SUFFICES ASSUME NEW i \in 0..c - 1, NEW j \in 0..r - 1,
                          set[<<i, j>>] # at[<<i, j>>]
                   PROVE  Lies(Span(x, y, 1), i, j)
        BY DEF Within
      <3>1. i = x /\ j = y
        BY <1>5
      <3> QED
        BY <1>10, <3>1
    <2> HIDE DEF set, one
    <2>4. Within(Span(x, y, 1), cv.at, set, c, r)
      BY <1>9, <2>3, WithinOn
    <2>5. Width(glyph) = 1 /\ Put(cv, x, y, glyph).at = set
      BY <1>6, <1>7, <2>1 DEF Width
    <2> QED
      BY <1>6, <2>1, <2>2, <2>4, <2>5 DEF Canvases
  <1>8. CASE glyph \in Wide
    <2> DEFINE last == Cleared(set, c, r, x + 1, y)
               end == [last EXCEPT ![<<x + 1, y>>] = Continuation]
               two == Cleared(at, c, r, x + 1, y)
    <2>1. x + 1 \in 0..c - 1
      BY <1>1, <1>8 DEF Width
    <2>2. Put(cv, x, y, glyph) = Extend(one, x + 1, y)
      BY <1>8 DEF Put, base
    <2>3. last \in [Places(c, r) -> Slots]
           /\ clear_footprint(one, x + 1, y) = [cols |-> c, rows |-> r, at |-> last]
      <3>1. x + 1 \in Int /\ y \in Int
        OBVIOUS
      <3> HIDE DEF set, one
      <3> QED
        BY <1>6, <3>1, ClearedSlots
    <2>4. end \in [Places(c, r) -> Slots]
      <3> HIDE DEF last
      <3> QED
        BY <2>3 DEF Slots
    <2>5. Put(cv, x, y, glyph) = [cols |-> c, rows |-> r, at |-> end]
      <3>1. Extend(one, x + 1, y) =
                  [clear_footprint(one, x + 1, y) EXCEPT !.at[<<x + 1, y>>] = Continuation]
        BY DEF Extend
      <3> HIDE DEF last, one
      <3> QED
        BY <2>2, <2>3, <3>1
    <2>6. two \in [Places(c, r) -> Slots] /\ WholeAt(two, c, r)
      <3>1. clear_footprint(base, x + 1, y) \in Canvases(c, r)
        BY <1>3, <2>1, ClearKeeps
      <3>2. clear_footprint(base, x + 1, y) = [cols |-> c, rows |-> r, at |-> two]
        BY <1>5, <2>1, ClearedSlots
      <3> HIDE DEF two
      <3> QED
        BY <3>1, <3>2 DEF Canvases
    <2>7. at[<<x + 1, y>>] # Continuation
      <3>1. (x + 1) - 1 = x
        BY <1>1
      <3> QED
        BY <1>4, <1>5, <2>1, <3>1, CanvasSigns DEF WholeAt
    <2>8. set[<<x + 1, y>>] = at[<<x + 1, y>>] /\ x + 1 # x
      <3>1. <<x + 1, y>> # <<x, y>>
        BY <1>1
      <3>2. <<x + 1, y>> \in Places(c, r)
        BY <2>1 DEF Places
      <3> QED
        BY <1>5, <3>1, <3>2
    <2> DEFINE F == Footprint(at, x + 1, y)
    <2>9. F = Footprint(set, x + 1, y) /\ x + 1 \in F /\ x \notin F
      <3>1. F = Footprint(set, x + 1, y)
        BY <2>8 DEF Footprint
      <3>2. F \subseteq {x + 1, (x + 1) + 1} /\ x + 1 \in F
        BY <2>7 DEF Footprint
      <3> HIDE DEF F
      <3>3. \A k \in F : k = x + 1 \/ k = (x + 1) + 1
        BY <3>2
      <3>4. x # x + 1 /\ x # (x + 1) + 1
        OBVIOUS
      <3>5. x \notin F
        BY <3>3, <3>4
      <3> QED
        BY <3>1, <3>2, <3>5
    <2>10. ASSUME NEW i \in 0..c - 1, NEW j \in 0..r - 1
           PROVE  /\ j = y /\ i \in F => two[<<i, j>>] = Empty
                  /\ ~(j = y /\ i \in F) => two[<<i, j>>] = at[<<i, j>>]
      <3>1. /\ j = y /\ i \in Footprint(at, x + 1, y) =>
                  Cleared(at, c, r, x + 1, y)[<<i, j>>] = Empty
            /\ ~(j = y /\ i \in Footprint(at, x + 1, y)) =>
                  Cleared(at, c, r, x + 1, y)[<<i, j>>] = at[<<i, j>>]
        <4> HIDE DEF F, two
        <4> QED
          BY <2>1, ClearedAt
      <3> QED
        BY <3>1
    <2>11. ASSUME NEW i \in 0..c - 1, NEW j \in 0..r - 1
           PROVE  /\ j = y /\ i \in F => last[<<i, j>>] = Empty
                  /\ ~(j = y /\ i \in F) => last[<<i, j>>] = set[<<i, j>>]
      <3> HIDE DEF set
      <3>1. /\ j = y /\ i \in Footprint(set, x + 1, y) => last[<<i, j>>] = Empty
            /\ ~(j = y /\ i \in Footprint(set, x + 1, y)) => last[<<i, j>>] = set[<<i, j>>]
        BY <2>1, ClearedAt
      <3> HIDE DEF F, last
      <3> QED
        BY <2>9, <3>1
    <2>12. two[<<x, y>>] = Empty /\ two[<<x + 1, y>>] = Empty
      <3> HIDE DEF F, two
      <3> QED
        BY <1>1, <1>4, <2>1, <2>9, <2>10
    <2>13. \A i \in 0..c - 1, j \in 0..r - 1 :
              end[<<i, j>>] = IF j = y /\ i = x THEN glyph
                              ELSE IF j = y /\ i = x + 1 THEN Continuation
                              ELSE two[<<i, j>>]
      <3> SUFFICES ASSUME NEW i \in 0..c - 1, NEW j \in 0..r - 1
                   PROVE  end[<<i, j>>] = IF j = y /\ i = x THEN glyph
                                          ELSE IF j = y /\ i = x + 1 THEN Continuation
                                          ELSE two[<<i, j>>]
        OBVIOUS
      <3>1. <<i, j>> \in Places(c, r)
        BY DEF Places
      <3>2. end[<<i, j>>] = IF j = y /\ i = x + 1 THEN Continuation ELSE last[<<i, j>>]
        <4> HIDE DEF last
        <4> QED
          BY <2>3, <3>1
      <3>3. set[<<i, j>>] = IF j = y /\ i = x THEN glyph ELSE at[<<i, j>>]
        BY <1>5, <3>1
      <3> HIDE DEF set
      <3>4. /\ j = y /\ i \in F => last[<<i, j>>] = Empty /\ two[<<i, j>>] = Empty
            /\ ~(j = y /\ i \in F) => last[<<i, j>>] = set[<<i, j>>] /\ two[<<i, j>>] = at[<<i, j>>]
        <4> HIDE DEF F, last, two
        <4> QED
          BY <2>10, <2>11
      <3> HIDE DEF F, last, two, end
      <3> QED
        BY <2>8, <2>9, <3>2, <3>3, <3>4
    <2> HIDE DEF end, two
    <2>14. WholeAt(end, c, r)
      BY <1>1, <1>8, <2>1, <2>4, <2>6, <2>12, <2>13, WideKeeps
    <2>15. Within(Span(x, y, 2), at, two, c, r)
      <3>1. Within(Span(x + 1, y, 1), at, two, c, r)
        <4>1. /\ clear_footprint(base, x + 1, y) = [cols |-> c, rows |-> r, at |-> two]
              /\ base.at = at
          BY <1>5, <2>1, ClearedSlots DEF two
        <4>2. clear_footprint(base, x + 1, y).at = two
          BY <4>1
        <4>3. x + 1 \in Int /\ y \in Int
          OBVIOUS
        <4>4. Within(Span(x + 1, y, 1), base.at, clear_footprint(base, x + 1, y).at, c, r)
          BY <1>3, <4>3, ClearWithin
        <4> QED
          BY <4>1, <4>2, <4>4
      <3>2. ASSUME NEW i \in Int, NEW j \in Int, Lies(Span(x + 1, y, 1), i, j)
            PROVE  Lies(Span(x, y, 2), i, j)
        <4>1. x \in Int /\ y \in Int /\ x + 1 \in Int /\ 1 \in Int /\ 2 \in Int
          OBVIOUS
        <4>2. x + 1 <= i /\ i < (x + 1) + 1 /\ j = y
          BY <3>2, <4>1, SpanIs
        <4>3. x <= i /\ i < x + 2 /\ j = y
          BY <4>2
        <4> QED
          BY <4>1, <4>3, SpanIs
      <3> QED
        BY <3>1, <3>2, WithinMore
    <2>16. Within(Span(x, y, 2), two, end, c, r)
      <3> SUFFICES ASSUME NEW i \in 0..c - 1, NEW j \in 0..r - 1,
                          end[<<i, j>>] # two[<<i, j>>]
                   PROVE  Lies(Span(x, y, 2), i, j)
        BY DEF Within
      <3>1. j = y /\ (i = x \/ i = x + 1)
        BY <2>13
      <3> QED
        BY <1>10, <3>1
    <2>17. Within(Span(x, y, 2), cv.at, at, c, r)
      <3> SUFFICES ASSUME NEW i \in Int, NEW j \in Int, Lies(Span(x, y, 1), i, j)
                   PROVE  Lies(Span(x, y, 2), i, j)
        BY <1>9, WithinMore
      <3>1. x \in Int /\ y \in Int /\ 1 \in Int /\ 2 \in Int
        OBVIOUS
      <3>2. x <= i /\ i < x + 1 /\ j = y
        BY <3>1, SpanIs
      <3>3. x <= i /\ i < x + 2 /\ j = y
        BY <3>2
      <3> QED
        BY <3>1, <3>3, SpanIs
    <2>18. Within(Span(x, y, 2), cv.at, end, c, r)
      BY <2>15, <2>16, <2>17, WithinOn
    <2>19. Width(glyph) = 2 /\ Put(cv, x, y, glyph).at = end
      BY <1>8, <2>5 DEF Width
    <2> QED
      BY <2>4, <2>5, <2>14, <2>18, <2>19 DEF Canvases
  <1> QED
    BY <1>7, <1>8

\* A text goes into its columns, glyph after glyph.
LEMMA DrawTextRuns ==
    ASSUME NEW c \in Nat, NEW r \in Nat, NEW cv \in Canvases(c, r),
           NEW x \in Nat, NEW y \in Nat, NEW width \in Int, NEW text \in Texts
    PROVE  /\ DrawText(cv, x, y, width, text) \in Canvases(c, r)
           /\ Within(Span(x, y, width), cv.at, DrawText(cv, x, y, width, text).at, c, r)
  <1> DEFINE glyphs == Clean(text)
             n == Len(glyphs)
             limit == Min({x + width, cv.cols})
             start == [cv |-> cv, column |-> x, full |-> FALSE]
             Place(acc, glyph) ==
                 IF acc.full \/ acc.column + Width(glyph) > Min({x + width, cv.cols})
                 THEN [acc EXCEPT !.full = TRUE]
                 ELSE [cv |-> Put(acc.cv, acc.column, y, glyph),
                       column |-> acc.column + Width(glyph), full |-> FALSE]
             Drawings == {acc \in [cv : Canvases(c, r), column : Nat, full : BOOLEAN] :
                             x <= acc.column /\ Within(Span(x, y, width), cv.at, acc.cv.at, c, r)}
             step == [z \in Drawings \X (1..n) |-> Place(z[1], glyphs[z[2]])]
             Folds(f) == f = [s \in SUBSET DOMAIN glyphs |->
                                 IF s = {} THEN start
                                 ELSE Place(f[s \ {Max(s)}], glyphs[Max(s)])]
             it == CHOOSE f : Folds(f)
  <1>1. cv.cols = c /\ cv.rows = r
    BY DEF Canvases
  <1>2. CASE y >= cv.rows \/ x >= cv.cols \/ width = 0
    BY <1>2 DEF DrawText, Within
  <1>3. CASE ~(y >= cv.rows \/ x >= cv.cols \/ width = 0)
    <2>1. y \in 0..r - 1
      BY <1>1, <1>3
    <2>2. n \in Nat /\ DOMAIN glyphs = 1..n /\ \A k \in 1..n : glyphs[k] \in Glyphs
      BY CleanOf, LenProperties, ElementOfSeq DEF Texts
    <2>3. start \in Drawings
      BY DEF Within
    <2>4. DrawText(cv, x, y, width, text) = it[DOMAIN glyphs].cv
      BY <1>3 DEF DrawText, FoldLeft, MapThenFoldSet
    <2> HIDE DEF glyphs, start
    <2>5. \A acc \in Drawings, k \in 1..n : Place(acc, glyphs[k]) \in Drawings
      <3> SUFFICES ASSUME NEW acc \in Drawings, NEW glyph \in Glyphs
                   PROVE  Place(acc, glyph) \in Drawings
        BY <2>2
      <3>1. /\ acc.cv \in Canvases(c, r) /\ acc.column \in Nat /\ Width(glyph) \in Nat
            /\ x <= acc.column /\ Within(Span(x, y, width), cv.at, acc.cv.at, c, r)
        BY DEF Width
      <3>2. limit <= c
        <4>1. x + width \in Int /\ c \in Int
          OBVIOUS
        <4>2. limit = IF x + width <= c THEN x + width ELSE c
          BY <1>1, <4>1, MinPair
        <4> QED
          BY <4>1, <4>2
      <3>3. CASE acc.full \/ acc.column + Width(glyph) > limit
        <4>1. [acc EXCEPT !.full = TRUE] \in Drawings
          OBVIOUS
        <4> QED
          BY <3>3, <4>1
      <3>4. CASE ~(acc.full \/ acc.column + Width(glyph) > limit)
        <4>1. limit \in Int /\ limit <= x + width
          <5>1. x + width \in Int /\ c \in Int
            OBVIOUS
          <5>2. limit = IF x + width <= c THEN x + width ELSE c
            BY <1>1, <5>1, MinPair
          <5> QED
            BY <5>1, <5>2
        <4> DEFINE put == Put(acc.cv, acc.column, y, glyph)
        <4> HIDE DEF limit
        <4>2. acc.column + Width(glyph) <= c
          BY <3>1, <3>2, <3>4, <4>1
        <4>3. /\ put \in Canvases(c, r)
              /\ Within(Span(acc.column, y, Width(glyph)), acc.cv.at, put.at, c, r)
          BY <2>1, <3>1, <4>2, PutKeeps
        <4> HIDE DEF put
        <4>4. ASSUME NEW i \in Int, NEW j \in Int,
                     Lies(Span(acc.column, y, Width(glyph)), i, j)
              PROVE  Lies(Span(x, y, width), i, j)
          <5>1. acc.column \in Int /\ y \in Int /\ Width(glyph) \in Int /\ x \in Int
            BY <3>1
          <5>2. acc.column <= i /\ i < acc.column + Width(glyph) /\ j = y
            BY <4>4, <5>1, SpanIs
          <5>3. acc.column + Width(glyph) <= x + width
            BY <3>1, <3>4, <4>1
          <5>4. x <= i /\ i < x + width /\ j = y
            BY <3>1, <5>2, <5>3
          <5> QED
            BY <5>1, <5>4, SpanIs
        <4>5. Within(Span(x, y, width), cv.at, put.at, c, r)
          BY <3>1, <4>3, <4>4, WithinMore, WithinOn
        <4>6. /\ acc.column + Width(glyph) \in Nat /\ x <= acc.column + Width(glyph)
          BY <3>1
        <4> DEFINE put1 == [cv |-> put, column |-> acc.column + Width(glyph), full |-> FALSE]
        <4>7. put1 \in Drawings
          BY <4>3, <4>5, <4>6
        <4>8. Place(acc, glyph) = put1
          BY <3>4 DEF limit, put
        <4> QED
          BY <4>7, <4>8
      <3> QED
        BY <3>3, <3>4
    <2>6. step \in [Drawings \X (1..n) -> Drawings]
      <3> HIDE DEF Place
      <3> QED
        BY <2>5
    <2>7. \A a \in Drawings, k \in 1..n : step[<<a, k>>] = Place(a, glyphs[k])
      <3> HIDE DEF Place
      <3> QED
        OBVIOUS
    <2> HIDE DEF n, step, Place, Drawings
    <2>8. Folds(it)
      <3>1. PICK f : FoldsAlways(f, Drawings, n, start, step)
        BY <2>2, <2>3, <2>6, FoldExists
      <3>2. Folds(f)
        BY <2>2, <2>7, <3>1 DEF FoldsAlways
      <3> HIDE DEF Folds
      <3> QED
        BY <3>2
    <2> HIDE DEF it
    <2>9. FoldsWithin(it, Drawings, n, start, step)
      BY <2>2, <2>7, <2>8 DEF FoldsWithin
    <2>10. it[1..n] \in Drawings
      BY <2>2, <2>3, <2>6, <2>9, FoldStaysIn
    <2> QED
      BY <2>2, <2>4, <2>10 DEF Drawings
  <1> QED
    BY <1>2, <1>3

LEMMA DrawTextKeeps ==
    ASSUME NEW c \in Nat, NEW r \in Nat, NEW cv \in Canvases(c, r),
           NEW x \in Nat, NEW y \in Nat, NEW width \in Int, NEW text \in Texts
    PROVE  DrawText(cv, x, y, width, text) \in Canvases(c, r)
  BY DrawTextRuns

\* Texts in a part of a rectangle.
LEMMA DrawTextWithin ==
    ASSUME NEW c \in Nat, NEW r \in Nat, NEW cv \in Canvases(c, r),
           NEW x \in Nat, NEW y \in Nat, NEW width \in Int, NEW text \in Texts,
           NEW rect, rect.x \in Int, Right(rect) \in Int, rect.y \in Int, Bottom(rect) \in Int,
           width > 0 => rect.x <= x /\ x + width <= Right(rect)
                        /\ rect.y <= y /\ y < Bottom(rect)
    PROVE  Within(rect, cv.at, DrawText(cv, x, y, width, text).at, c, r)
  <1>1. Within(Span(x, y, width), cv.at, DrawText(cv, x, y, width, text).at, c, r)
    BY DrawTextRuns
  <1>2. ASSUME NEW i \in Int, NEW j \in Int, Lies(Span(x, y, width), i, j)
        PROVE  Lies(rect, i, j)
    <2>1. x \in Int /\ y \in Int
      OBVIOUS
    <2>2. x <= i /\ i < x + width /\ j = y
      BY <1>2, <2>1, SpanIs
    <2> QED
      BY <2>2 DEF Lies
  <1> QED
    BY <1>1, <1>2, WithinMore

\* A text where nothing is.
LEMMA DrawTextSpares ==
    ASSUME NEW c \in Nat, NEW r \in Nat, NEW cv \in Canvases(c, r),
           NEW x \in Nat, NEW y \in Nat, NEW width \in Int, NEW text \in Texts,
           \A k \in x..x + width - 1 : k < c /\ y < r => cv.at[<<k, y>>] = Empty
    PROVE  Spares(cv.at, DrawText(cv, x, y, width, text).at, c, r)
  <1>1. Within(Span(x, y, width), cv.at, DrawText(cv, x, y, width, text).at, c, r)
    BY DrawTextRuns
  <1>2. ASSUME NEW i \in 0..c - 1, NEW j \in 0..r - 1, Lies(Span(x, y, width), i, j)
        PROVE  cv.at[<<i, j>>] = Empty
    <2>1. x \in Int /\ y \in Int /\ i \in Int /\ j \in Int
      OBVIOUS
    <2>2. x <= i /\ i < x + width /\ j = y
      BY <1>2, <2>1, SpanIs
    <2> QED
      BY <2>2
  <1>3. WholeAt(cv.at, c, r)
    BY DEF Canvases
  <1> QED
    BY <1>1, <1>2, <1>3, FreeSpares

\* Marks go where nothing is.
LEMMA DecorationKeeps ==
    ASSUME NEW c \in Nat, NEW r \in Nat, NEW cv \in Canvases(c, r), NEW places
    PROVE  decoration(cv, places) \in Canvases(c, r)
  <1> DEFINE at == cv.at
             next == [p \in DOMAIN at |-> IF p \in places /\ at[p] = Empty THEN Mark ELSE at[p]]
  <1>1. /\ at \in [Places(c, r) -> Slots] /\ WholeAt(at, c, r)
        /\ cv = [cols |-> c, rows |-> r, at |-> at]
    BY DEF Canvases
  <1>2. decoration(cv, places) = [cv EXCEPT !.at = next]
    BY DEF decoration
  <1> HIDE DEF at
  <1>3. next \in [Places(c, r) -> Slots]
    BY <1>1, CanvasSigns DEF Slots
  <1>4. \A p \in Places(c, r) : IF at[p] = Empty THEN next[p] \in {Empty, Mark} ELSE next[p] = at[p]
    BY <1>1
  <1>5. decoration(cv, places) = [cols |-> c, rows |-> r, at |-> next]
    <2> HIDE DEF next
    <2> QED
      BY <1>1, <1>2
  <1> HIDE DEF next
  <1>6. WholeAt(next, c, r)
    <2> SUFFICES ASSUME NEW i \in 0..c - 1, NEW j \in 0..r - 1
                 PROVE  /\ next[<<i, j>>] = Continuation => i > 0 /\ next[<<i - 1, j>>] \in Wide
                        /\ next[<<i, j>>] \in Wide =>
                              i + 1 < c /\ next[<<i + 1, j>>] = Continuation
      BY DEF WholeAt
    <2>1. /\ at[<<i, j>>] = Continuation => i > 0 /\ at[<<i - 1, j>>] \in Wide
          /\ at[<<i, j>>] \in Wide => i + 1 < c /\ at[<<i + 1, j>>] = Continuation
      BY <1>1 DEF WholeAt
    <2>2. \A k \in 0..c - 1 : <<k, j>> \in Places(c, r)
      BY DEF Places
    <2>3. at[<<i, j>>] # Empty => next[<<i, j>>] = at[<<i, j>>]
      BY <1>4, <2>2
    <2>4. at[<<i, j>>] = Empty => next[<<i, j>>] \notin Wide /\ next[<<i, j>>] # Continuation
      BY <1>4, <2>2, CanvasSigns
    <2>5. at[<<i, j>>] = Continuation => next[<<i - 1, j>>] = at[<<i - 1, j>>]
      <3> SUFFICES ASSUME at[<<i, j>>] = Continuation
                   PROVE  next[<<i - 1, j>>] = at[<<i - 1, j>>]
        OBVIOUS
      <3>1. i - 1 \in 0..c - 1 /\ at[<<i - 1, j>>] # Empty
        BY <2>1, CanvasSigns
      <3> QED
        BY <1>4, <2>2, <3>1
    <2>6. at[<<i, j>>] \in Wide => next[<<i + 1, j>>] = at[<<i + 1, j>>]
      <3> SUFFICES ASSUME at[<<i, j>>] \in Wide
                   PROVE  next[<<i + 1, j>>] = at[<<i + 1, j>>]
        OBVIOUS
      <3>1. i + 1 \in 0..c - 1 /\ at[<<i + 1, j>>] # Empty
        BY <2>1, CanvasSigns
      <3> QED
        BY <1>4, <2>2, <3>1
    <2> QED
      BY <2>1, <2>3, <2>4, <2>5, <2>6
  <1> QED
    BY <1>3, <1>5, <1>6 DEF Canvases

LEMMA BorderKeeps ==
    ASSUME NEW c \in Nat, NEW r \in Nat, NEW cv \in Canvases(c, r), NEW rect
    PROVE  border(cv, rect) \in Canvases(c, r)
  BY DecorationKeeps DEF border

LEMMA DecorationSpares ==
    ASSUME NEW c \in Nat, NEW r \in Nat, NEW cv \in Canvases(c, r), NEW places
    PROVE  /\ Spares(cv.at, decoration(cv, places).at, c, r)
           /\ \A rect : (\A i, j \in Int : <<i, j>> \in places => Lies(rect, i, j)) =>
                 Within(rect, cv.at, decoration(cv, places).at, c, r)
  <1> DEFINE at == cv.at
             next == [p \in DOMAIN at |-> IF p \in places /\ at[p] = Empty THEN Mark ELSE at[p]]
  <1>1. at \in [Places(c, r) -> Slots] /\ cv = [cols |-> c, rows |-> r, at |-> at]
    BY DEF Canvases
  <1>2. decoration(cv, places) = [cv EXCEPT !.at = next]
    BY DEF decoration
  <1> HIDE DEF at
  <1>3. \A i \in 0..c - 1, j \in 0..r - 1 :
           next[<<i, j>>] = IF <<i, j>> \in places /\ at[<<i, j>>] = Empty THEN Mark
                            ELSE at[<<i, j>>]
    BY <1>1 DEF Places
  <1> HIDE DEF next
  <1>4. decoration(cv, places).at = next
    BY <1>1, <1>2
  <1>5. Spares(at, next, c, r)
    BY <1>3 DEF Spares
  <1>6. ASSUME NEW rect, \A i, j \in Int : <<i, j>> \in places => Lies(rect, i, j)
        PROVE  Within(rect, at, next, c, r)
    <2> SUFFICES ASSUME NEW i \in 0..c - 1, NEW j \in 0..r - 1, next[<<i, j>>] # at[<<i, j>>]
                 PROVE  Lies(rect, i, j)
      BY DEF Within
    <2>1. i \in Int /\ j \in Int /\ <<i, j>> \in places
      BY <1>3
    <2> QED
      BY <1>6, <2>1
  <1> QED
    BY <1>4, <1>5, <1>6 DEF at

LEMMA BlankIsWhole ==
    ASSUME NEW c \in Nat, NEW r \in Nat
    PROVE  Blank(c, r) \in Canvases(c, r)
  <1> DEFINE at == [p \in Places(c, r) |-> Empty]
  <1>1. Blank(c, r) = [cols |-> c, rows |-> r, at |-> at]
    BY DEF Blank, Places
  <1>2. at \in [Places(c, r) -> Slots]
    BY DEF Slots
  <1>3. WholeAt(at, c, r)
    <2>1. \A x \in 0..c - 1, y \in 0..r - 1 : at[<<x, y>>] = Empty
      BY DEF Places
    <2> HIDE DEF at
    <2> QED
      BY <2>1, CanvasSigns DEF WholeAt
  <1> HIDE DEF at
  <1> QED
    BY <1>1, <1>2, <1>3 DEF Canvases

\* Where something is drawn: on or beyond the canvas, a row high at least.
Areas == [x : Nat, y : Nat, width : Nat, height : Nat \ {0}]

LEMMA AreaParts ==
    ASSUME NEW rect \in Areas
    PROVE  /\ rect.x \in Nat /\ rect.y \in Nat /\ rect.width \in Nat /\ rect.height \in Nat \ {0}
           /\ Right(rect) \in Nat /\ Bottom(rect) \in Nat /\ Middle(rect) \in Nat
  <1>1. rect.x \in Nat /\ rect.y \in Nat /\ rect.width \in Nat /\ rect.height \in Nat \ {0}
    BY DEF Areas
  <1>2. rect.height - 1 \in Nat
    BY <1>1
  <1>3. (rect.height - 1) \div 2 \in Nat
    BY <1>2
  <1> QED
    BY <1>1, <1>3 DEF Right, Bottom, Middle

LEMMA AreaLies ==
    ASSUME NEW rect \in Areas, NEW i \in Int, NEW j \in Int
    PROVE  Lies(rect, i, j) <=> /\ rect.x <= i /\ i < rect.x + rect.width
                                /\ rect.y <= j /\ j < rect.y + rect.height
  BY AreaParts DEF Lies, Right, Bottom

LEMMA MiddleLies ==
    ASSUME NEW rect \in Areas
    PROVE  rect.y <= Middle(rect) /\ Middle(rect) < rect.y + rect.height
  <1> DEFINE h == rect.height - 1
  <1>1. rect.y \in Nat /\ rect.height \in Nat \ {0} /\ h \in Nat
    BY AreaParts
  <1>2. Middle(rect) = rect.y + h \div 2
    BY DEF Middle
  <1>3. h \div 2 \in Nat /\ h \div 2 <= h
    <2> HIDE DEF h
    <2> QED
      BY <1>1
  <1> QED
    BY <1>1, <1>2, <1>3

\* Borders and lines are drawn in their rectangle, on what is free.
LEMMA BorderSpares ==
    ASSUME NEW c \in Nat, NEW r \in Nat, NEW cv \in Canvases(c, r), NEW rect \in Areas
    PROVE  /\ Spares(cv.at, border(cv, rect).at, c, r)
           /\ Within(rect, cv.at, border(cv, rect).at, c, r)
  <1>1. /\ rect.x \in Nat /\ rect.y \in Nat /\ rect.width \in Nat /\ rect.height \in Nat
    BY AreaParts
  <1>2. CASE rect.width < 2 \/ rect.height < 2
    BY <1>2 DEF border, Spares, Within
  <1>3. CASE ~(rect.width < 2 \/ rect.height < 2)
    <2> DEFINE right == Right(rect) - 1
               bottom == Bottom(rect) - 1
               places == ((rect.x..right) \X {rect.y, bottom})
                         \cup ({rect.x, right} \X (rect.y..bottom))
    <2>1. border(cv, rect) = decoration(cv, places)
      BY <1>3 DEF border
    <2>2. ASSUME NEW i \in Int, NEW j \in Int, <<i, j>> \in places
          PROVE  Lies(rect, i, j)
      <3>1. \/ i \in rect.x..right /\ j \in {rect.y, bottom}
            \/ i \in {rect.x, right} /\ j \in rect.y..bottom
        BY <2>2
      <3> HIDE DEF places
      <3>2. right = rect.x + rect.width - 1 /\ bottom = rect.y + rect.height - 1
        BY <1>1 DEF Right, Bottom
      <3> HIDE DEF right, bottom
      <3>3. rect.x <= right /\ rect.y <= bottom /\ right \in Int /\ bottom \in Int
        BY <1>1, <1>3, <3>2
      <3>4. i \in rect.x..right /\ j \in rect.y..bottom
        BY <1>1, <3>1, <3>3
      <3>5. /\ rect.x <= i /\ i < rect.x + rect.width
            /\ rect.y <= j /\ j < rect.y + rect.height
        BY <1>1, <3>2, <3>4
      <3> QED
        BY <3>5, AreaLies
    <2> HIDE DEF places
    <2> QED
      BY <2>1, <2>2, DecorationSpares
  <1> QED
    BY <1>2, <1>3

LEMMA HorizontalSpares ==
    ASSUME NEW c \in Nat, NEW r \in Nat, NEW cv \in Canvases(c, r), NEW rect \in Areas
    PROVE  LET drawn == horizontal(cv, rect.x, Middle(rect), rect.width)
           IN  Spares(cv.at, drawn.at, c, r) /\ Within(rect, cv.at, drawn.at, c, r)
  <1> DEFINE places == (rect.x..rect.x + rect.width - 1) \X {Middle(rect)}
  <1>1. horizontal(cv, rect.x, Middle(rect), rect.width) = decoration(cv, places)
    BY DEF horizontal
  <1>2. ASSUME NEW i \in Int, NEW j \in Int, <<i, j>> \in places
        PROVE  Lies(rect, i, j)
    <2>1. i \in rect.x..rect.x + rect.width - 1 /\ j = Middle(rect)
      BY <1>2
    <2>2. rect.x \in Nat /\ rect.width \in Nat
      BY AreaParts
    <2>3. rect.x <= i /\ i < rect.x + rect.width
      BY <2>1, <2>2
    <2> QED
      BY <2>1, <2>3, AreaLies, MiddleLies
  <1> HIDE DEF places
  <1> QED
    BY <1>1, <1>2, DecorationSpares

LEMMA FlowKeeps ==
    ASSUME NEW c \in Nat, NEW r \in Nat, NEW cv \in Canvases(c, r),
           NEW x \in Nat, NEW y \in Nat, NEW bound \in Int, NEW text \in Texts
    PROVE  flow_text_bounded(cv, x, y, bound, text) \in Canvases(c, r)
  <1> DEFINE right == Min({bound, cv.cols})
             size == WidthOf(text)
             room == Room(cv, x, y, right, size)
             m == Min(room)
             width == IF size <= right - m THEN right - m ELSE right - m - 1
             label == Elide(text, width)
             next == m + WidthOf(label)
             drawn == DrawText(cv, m, y, WidthOf(label), label)
  <1>1. cv.cols = c /\ right \in Int /\ size \in Nat
    BY MinPair, WidthOfText DEF Canvases
  <1>2. flow_text_bounded(cv, x, y, bound, text) = FlowFrom(cv, room, y, right, text, size)
    BY DEF flow_text_bounded, FlowInto
  <1>3. room \subseteq x..right - 1
    BY DEF Room
  <1> HIDE DEF right, room, size
  <1>4. CASE room = {}
    BY <1>2, <1>4 DEF FlowFrom
  <1>5. CASE room # {}
    <2>1. right - 1 \in Nat /\ room \subseteq 0..right - 1
      <3>1. PICK s \in room : TRUE
        BY <1>5
      <3>2. s \in x..right - 1
        BY <1>3, <3>1
      <3> QED
        BY <1>1, <1>3, <3>2
    <2>2. m \in room
      BY <1>5, <2>1, EndsOf
    <2>3. m \in Nat /\ m <= right - 1
      <3>1. m \in 0..right - 1
        BY <2>1, <2>2
      <3> HIDE DEF m
      <3> QED
        BY <2>1, <3>1
    <2> HIDE DEF m
    <2>4. width \in Nat
      BY <1>1, <2>3
    <2> HIDE DEF width
    <2>5. label \in Texts
      BY <2>4, ElideOf
    <2> HIDE DEF label
    <2>6. WidthOf(label) \in Nat /\ WidthOf(label) \in Int /\ next \in Nat
      BY <2>3, <2>5, WidthOfText
    <2>7. drawn \in Canvases(c, r)
      BY <2>3, <2>5, <2>6, DrawTextKeeps
    <2> HIDE DEF drawn, next
    <2>8. DrawText(drawn, next, y, 1, <<Space>>) \in Canvases(c, r)
      <3>1. <<Space>> \in Texts /\ 1 \in Int
        BY Signs DEF Texts
      <3> QED
        BY <2>6, <2>7, <3>1, DrawTextKeeps
    <2>9. FlowFrom(cv, room, y, right, text, size) = LabelAndBlank(cv, m, y, right, label)
      BY <1>5 DEF FlowFrom, label, width, m
    <2>10. LabelAndBlank(cv, m, y, right, label) \in {drawn, DrawText(drawn, next, y, 1, <<Space>>)}
      BY DEF LabelAndBlank, drawn, next
    <2> QED
      BY <1>2, <2>7, <2>8, <2>9, <2>10
  <1> QED
    BY <1>4, <1>5

\* Text that flows finds free columns for the label and for the blank after it.
LEMMA FlowSpares ==
    ASSUME NEW c \in Nat, NEW r \in Nat, NEW cv \in Canvases(c, r),
           NEW x \in Nat, NEW y \in Nat, NEW bound \in Int, NEW text \in Texts
    PROVE  LET drawn == flow_text_bounded(cv, x, y, bound, text)
           IN  /\ Spares(cv.at, drawn.at, c, r)
               /\ Within(Span(x, y, bound - x), cv.at, drawn.at, c, r)
  <1> DEFINE right == Min({bound, cv.cols})
             size == WidthOf(text)
             room == Room(cv, x, y, right, size)
             m == Min(room)
             width == IF size <= right - m THEN right - m ELSE right - m - 1
             label == Elide(text, width)
             next == m + WidthOf(label)
             drawn == DrawText(cv, m, y, WidthOf(label), label)
             end == Min({m + size + 1, right})
             place == Span(x, y, bound - x)
  <1>1. /\ cv.cols = c /\ cv.rows = r /\ right \in Int /\ size \in Nat
        /\ right <= c /\ right <= bound
    <2>1. cv.cols = c /\ cv.rows = r /\ size \in Nat
      BY WidthOfText DEF Canvases
    <2>2. right = IF bound <= c THEN bound ELSE c
      BY <2>1, MinPair
    <2> HIDE DEF right
    <2> QED
      BY <2>1, <2>2
  <1>2. flow_text_bounded(cv, x, y, bound, text) = FlowFrom(cv, room, y, right, text, size)
    BY DEF flow_text_bounded, FlowInto
  <1>3. \A s \in room : s \in x..right - 1 /\ y < r
    BY <1>1 DEF Room
  <1>4. \A s \in room : \A k \in s..Min({s + size + 1, right}) - 1 : cv.at[<<k, y>>] = Empty
    BY <1>1 DEF Room, IsFree
  <1> HIDE DEF right, room, size
  <1>5. CASE room = {}
    <2>1. flow_text_bounded(cv, x, y, bound, text) = cv
      BY <1>2, <1>5 DEF FlowFrom
    <2> QED
      BY <2>1 DEF Spares, Within
  <1>6. CASE room # {}
    <2>1. right - 1 \in Nat /\ room \subseteq 0..right - 1
      <3>1. PICK s \in room : TRUE
        BY <1>6
      <3>2. s \in x..right - 1
        BY <1>3, <3>1
      <3> QED
        BY <1>1, <1>3, <3>2
    <2>2. m \in room
      BY <1>6, <2>1, EndsOf
    <2>3. m \in Nat /\ m <= right - 1 /\ x <= m /\ y < r
      <3>1. m \in 0..right - 1 /\ m \in x..right - 1
        BY <1>3, <2>1, <2>2
      <3> HIDE DEF m
      <3> QED
        BY <1>3, <2>1, <2>2, <3>1
    <2>4. \A k \in m..end - 1 : cv.at[<<k, y>>] = Empty
      BY <1>4, <2>2
    <2> HIDE DEF m
    <2>5. end \in Int /\ end = IF m + size + 1 <= right THEN m + size + 1 ELSE right
      <3>1. m + size + 1 \in Int
        BY <1>1, <2>3
      <3>2. end = IF m + size + 1 <= right THEN m + size + 1 ELSE right
        BY <1>1, <3>1, MinPair
      <3> QED
        BY <1>1, <3>1, <3>2
    <2> HIDE DEF end
    <2>6. width \in Nat /\ size <= right - m => width = right - m
      BY <1>1, <2>3
    <2>7. label \in Texts /\ WidthOf(label) \in Nat /\ WidthOf(label) <= width
          /\ (size <= width => WidthOf(label) <= size)
      <3>1. width \in Nat
        BY <1>1, <2>3
      <3> HIDE DEF width
      <3> QED
        BY <3>1, ElideOf, ElideWidth, WidthOfText DEF size
    \* The label ends in what is free, and so does the blank.
    <2>8. /\ next \in Nat /\ next <= right /\ next <= end
          /\ next < right => next < end
      <3> DEFINE w == WidthOf(label)
      <3>1. w \in Nat /\ w <= width /\ (size <= width => w <= size) /\ next = m + w
        BY <2>7
      <3> HIDE DEF w, next, label
      <3>2. CASE size <= right - m
        <4>1. width = right - m
          BY <3>2
        <4> HIDE DEF width
        <4>2. w <= size /\ w <= right - m
          BY <3>1, <3>2, <4>1
        <4> QED
          BY <1>1, <2>3, <2>5, <3>1, <4>2
      <3>3. CASE ~(size <= right - m)
        <4>1. width = right - m - 1
          BY <3>3
        <4> HIDE DEF width
        <4>2. w <= right - m - 1
          BY <3>1, <4>1
        <4> QED
          BY <1>1, <2>3, <2>5, <3>1, <3>3, <4>2
      <3> QED
        BY <3>2, <3>3
    <2> HIDE DEF width, label
    <2>9. /\ place.x = x /\ place.y = y /\ Right(place) = x + (bound - x)
          /\ Bottom(place) = y + 1
      BY DEF Span, Right, Bottom
    <2> HIDE DEF place
    <2>10. /\ place.x \in Int /\ place.y \in Int /\ Right(place) = bound /\ Right(place) \in Int
           /\ Bottom(place) = y + 1 /\ Bottom(place) \in Int
      BY <2>9
    \* The label.
    <2>11. drawn \in Canvases(c, r)
      BY <2>3, <2>7, DrawTextKeeps
    <2>12. Within(place, cv.at, drawn.at, c, r)
      <3>1. WidthOf(label) \in Int /\ m + WidthOf(label) <= Right(place)
        BY <1>1, <2>7, <2>8, <2>10
      <3> QED
        BY <2>3, <2>7, <2>9, <2>10, <3>1, DrawTextWithin
    <2>13. /\ Spares(cv.at, drawn.at, c, r)
           /\ Within(Span(m, y, WidthOf(label)), cv.at, drawn.at, c, r)
      <3>1. ASSUME NEW k \in m..m + WidthOf(label) - 1 PROVE cv.at[<<k, y>>] = Empty
        <4>1. k \in m..end - 1
          BY <2>3, <2>5, <2>7, <2>8
        <4> QED
          BY <2>4, <4>1
      <3>2. WidthOf(label) \in Int
        BY <2>7
      <3> QED
        BY <2>3, <2>7, <3>1, <3>2, DrawTextSpares, DrawTextRuns
    <2> HIDE DEF drawn
    \* The blank.
    <2> DEFINE both == DrawText(drawn, next, y, 1, <<Space>>)
    <2>14. <<Space>> \in Texts /\ 1 \in Int
      BY Signs DEF Texts
    <2>15. ASSUME next < right
           PROVE  Spares(cv.at, both.at, c, r) /\ Within(place, cv.at, both.at, c, r)
      <3>1. drawn.at[<<next, y>>] = Empty
        <4>1. next \in m..end - 1 /\ next \in 0..c - 1 /\ y \in 0..r - 1
          BY <1>1, <2>3, <2>5, <2>7, <2>8, <2>15
        <4>2. cv.at[<<next, y>>] = Empty
          BY <2>4, <4>1
        <4>3. ~Lies(Span(m, y, WidthOf(label)), next, y)
          <5>1. m \in Int /\ y \in Int /\ WidthOf(label) \in Int /\ next \in Int
            BY <2>3, <2>7, <2>8
          <5>2. Lies(Span(m, y, WidthOf(label)), next, y)
                <=> m <= next /\ next < m + WidthOf(label) /\ y = y
            BY <5>1, SpanIs
          <5>3. ~(next < m + WidthOf(label))
            BY <5>1
          <5> QED
            BY <5>2, <5>3
        <4>4. ~HalfOf(Span(m, y, WidthOf(label)), cv.at[<<next, y>>], next, y)
          BY <4>2, CanvasSigns DEF HalfOf
        <4> HIDE DEF next
        <4> QED
          BY <2>13, <4>1, <4>2, <4>3, <4>4 DEF Within
      <3> HIDE DEF next
      <3>2. Spares(drawn.at, both.at, c, r)
        <4>1. \A k \in next..next + 1 - 1 : drawn.at[<<k, y>>] = Empty
          <5>1. \A k \in next..next + 1 - 1 : k = next
            BY <2>8
          <5> QED
            BY <3>1, <5>1
        <4> QED
          BY <2>8, <2>11, <2>14, <4>1, DrawTextSpares
      <3>3. Within(place, drawn.at, both.at, c, r)
        <4>1. /\ place.x <= next /\ next + 1 <= Right(place)
              /\ place.y <= y /\ y < Bottom(place)
          <5>1. x <= next
            BY <2>3, <2>7, <2>8 DEF next
          <5> QED
            BY <1>1, <2>8, <2>9, <2>10, <2>15, <5>1
        <4> QED
          BY <2>8, <2>10, <2>11, <2>14, <4>1, DrawTextWithin
      <3> HIDE DEF both
      <3> QED
        BY <2>12, <2>13, <3>2, <3>3, SparesOn, WithinOn
    <2>16. FlowFrom(cv, room, y, right, text, size) = LabelAndBlank(cv, m, y, right, label)
      BY <1>6 DEF FlowFrom, label, width, m
    <2>17. LabelAndBlank(cv, m, y, right, label) = IF next >= right THEN drawn ELSE both
      BY DEF LabelAndBlank, drawn, next
    <2>18. next >= right <=> ~(next < right)
      BY <1>1, <2>8
    <2> HIDE DEF both, next
    <2> QED
      BY <1>2, <2>12, <2>13, <2>15, <2>16, <2>17, <2>18 DEF place
  <1> QED
    BY <1>5, <1>6

LEMMA InlineKeeps ==
    ASSUME NEW c \in Nat, NEW r \in Nat, NEW cv \in Canvases(c, r),
           NEW rect \in Areas, NEW label \in Texts, NEW trailing
    PROVE  draw_inline_label(cv, rect, label, trailing) \in Canvases(c, r)
  <1> DEFINE gutter == IF trailing /\ rect.width > 1 THEN 1 ELSE 0
             y == Middle(rect)
             width == rect.width - gutter
             drawn == DrawText(cv, rect.x, y, width, Elide(label, width))
  <1>1. draw_inline_label(cv, rect, label, trailing) = InlineLabel(cv, rect, y, label, gutter)
    BY DEF draw_inline_label
  <1>2. rect.x \in Nat /\ rect.width \in Nat /\ y \in Nat /\ Right(rect) \in Nat
    BY AreaParts
  <1>3. gutter \in {0, 1} /\ (gutter = 1 => rect.width > 1)
    OBVIOUS
  <1> HIDE DEF gutter, y
  <1>4. width \in Nat /\ width \in Int
    BY <1>2, <1>3
  <1> HIDE DEF width
  <1>5. drawn \in Canvases(c, r)
    BY <1>2, <1>4, ElideOf, DrawTextKeeps
  <1> HIDE DEF drawn
  <1>6. clear_footprint(drawn, Right(rect) - 1, y) \in Canvases(c, r)
    <2>1. Right(rect) - 1 \in Int /\ y \in Int
      BY <1>2
    <2> QED
      BY <1>5, <2>1, ClearKeeps
  <1> QED
    BY <1>1, <1>5, <1>6 DEF InlineLabel, drawn, width

LEMMA BoxKeeps ==
    ASSUME NEW c \in Nat, NEW r \in Nat, NEW cv \in Canvases(c, r),
           NEW rect \in Areas, NEW label \in Texts
    PROVE  /\ IsBox(rect) => Framed(cv, rect, Middle(rect), label) \in Canvases(c, r)
           /\ draw_labeled_box(cv, rect, label) \in Canvases(c, r)
           /\ draw_titled_border(cv, rect, label) \in Canvases(c, r)
           /\ draw_intrinsic_label(cv, rect, label) \in Canvases(c, r)
  <1>1. /\ rect.x \in Nat /\ rect.y \in Nat /\ rect.width \in Nat /\ Middle(rect) \in Nat
        /\ rect.x + 1 \in Nat
    BY AreaParts
  <1>2. border(cv, rect) \in Canvases(c, r)
    BY BorderKeeps
  <1>3. ASSUME IsBox(rect) PROVE Framed(cv, rect, Middle(rect), label) \in Canvases(c, r)
    <2> DEFINE width == rect.width - 2
    <2>1. width \in Nat /\ width \in Int
      BY <1>1, <1>3 DEF IsBox
    <2>2. Framed(cv, rect, Middle(rect), label)
          = DrawText(border(cv, rect), rect.x + 1, Middle(rect), width, Elide(label, width))
      BY DEF Framed
    <2> HIDE DEF width
    <2> QED
      BY <1>1, <1>2, <2>1, <2>2, ElideOf, DrawTextKeeps
  <1>4. draw_labeled_box(cv, rect, label) \in Canvases(c, r)
    BY <1>3, InlineKeeps DEF draw_labeled_box
  <1>5. draw_titled_border(cv, rect, label) \in Canvases(c, r)
    <2> DEFINE width == Max({rect.width - 2, 0})
    <2>1. width \in Nat /\ width \in Int
      <3>1. rect.width - 2 \in Int /\ 0 \in Int
        BY <1>1
      <3>2. width = IF rect.width - 2 <= 0 THEN 0 ELSE rect.width - 2
        BY <3>1, MaxPair
      <3> HIDE DEF width
      <3> QED
        BY <3>1, <3>2
    <2>2. draw_titled_border(cv, rect, label)
          = DrawText(border(cv, rect), rect.x + 1, rect.y, width, Elide(label, width))
      BY DEF draw_titled_border
    <2> HIDE DEF width
    <2> QED
      BY <1>1, <1>2, <2>1, <2>2, ElideOf, DrawTextKeeps
  <1>6. draw_intrinsic_label(cv, rect, label) \in Canvases(c, r)
    <2> DEFINE a == Max({WidthOf(label), rect.width})
               b == Max({cv.cols - rect.x, 0})
               width == Min({a, b})
    <2>1. a \in Int /\ b \in Int
      <3>1. WidthOf(label) \in Int /\ cv.cols - rect.x \in Int /\ rect.width \in Int /\ 0 \in Int
        BY <1>1, WidthOfText DEF Canvases
      <3>2. /\ a = IF WidthOf(label) <= rect.width THEN rect.width ELSE WidthOf(label)
            /\ b = IF cv.cols - rect.x <= 0 THEN 0 ELSE cv.cols - rect.x
        BY <3>1, MaxPair
      <3> HIDE DEF a, b
      <3> QED
        BY <3>1, <3>2
    <2>2. draw_intrinsic_label(cv, rect, label) = DrawText(cv, rect.x, Middle(rect), width, label)
      BY DEF draw_intrinsic_label
    <2> HIDE DEF a, b
    <2>3. width \in Int
      <3>1. width = IF a <= b THEN a ELSE b
        BY <2>1, MinPair
      <3> HIDE DEF width
      <3> QED
        BY <2>1, <3>1
    <2> HIDE DEF width
    <2> QED
      BY <1>1, <2>2, <2>3, DrawTextKeeps
  <1> QED
    BY <1>3, <1>4, <1>5, <1>6

\* Labels and boxes stay in their rectangle.
LEMMA TextInArea ==
    ASSUME NEW c \in Nat, NEW r \in Nat, NEW cv \in Canvases(c, r), NEW rect \in Areas,
           NEW x \in Nat, NEW y \in Nat, NEW width \in Nat, NEW text \in Texts,
           rect.x <= x, width > 0 => x + width <= rect.x + rect.width,
           rect.y <= y, y < rect.y + rect.height
    PROVE  Within(rect, cv.at, DrawText(cv, x, y, width, text).at, c, r)
  <1>1. /\ rect.x \in Int /\ rect.y \in Int /\ Right(rect) \in Int /\ Bottom(rect) \in Int
        /\ Right(rect) = rect.x + rect.width /\ Bottom(rect) = rect.y + rect.height
    BY AreaParts DEF Right, Bottom
  <1>2. width \in Int
    OBVIOUS
  <1> QED
    BY <1>1, <1>2, DrawTextWithin

LEMMA InlineWithin ==
    ASSUME NEW c \in Nat, NEW r \in Nat, NEW cv \in Canvases(c, r),
           NEW rect \in Areas, NEW label \in Texts, NEW trailing
    PROVE  Within(rect, cv.at, draw_inline_label(cv, rect, label, trailing).at, c, r)
  <1> DEFINE gutter == IF trailing /\ rect.width > 1 THEN 1 ELSE 0
             y == Middle(rect)
             width == rect.width - gutter
             drawn == DrawText(cv, rect.x, y, width, Elide(label, width))
             last == Right(rect) - 1
  <1>1. draw_inline_label(cv, rect, label, trailing) = InlineLabel(cv, rect, y, label, gutter)
    BY DEF draw_inline_label
  <1>2. /\ rect.x \in Nat /\ rect.width \in Nat /\ y \in Nat
        /\ rect.y <= y /\ y < rect.y + rect.height
    BY AreaParts, MiddleLies
  <1>3. gutter \in {0, 1} /\ (gutter = 1 => rect.width > 1)
    OBVIOUS
  <1>4. last = rect.x + rect.width - 1
    BY <1>2 DEF Right
  <1> HIDE DEF gutter, y, last
  <1>5. width \in Nat /\ width <= rect.width
    BY <1>2, <1>3
  <1> HIDE DEF width
  <1>6. drawn \in Canvases(c, r) /\ Within(rect, cv.at, drawn.at, c, r)
    <2>1. Elide(label, width) \in Texts /\ width \in Int
      BY <1>5, ElideOf
    <2>2. rect.x <= rect.x /\ rect.x + width <= rect.x + rect.width
      BY <1>2, <1>5
    <2> QED
      BY <1>2, <1>5, <2>1, <2>2, DrawTextKeeps, TextInArea
  <1> HIDE DEF drawn
  <1>7. ASSUME gutter = 1
        PROVE  Within(rect, cv.at, clear_footprint(drawn, last, y).at, c, r)
    <2>1. last \in Int /\ y \in Int /\ 1 \in Int
      BY <1>2, <1>4
    <2>2. Within(Span(last, y, 1), drawn.at, clear_footprint(drawn, last, y).at, c, r)
      BY <1>6, <2>1, ClearWithin
    <2>3. ASSUME NEW i \in Int, NEW j \in Int, Lies(Span(last, y, 1), i, j)
          PROVE  Lies(rect, i, j)
      <3>1. last <= i /\ i < last + 1 /\ j = y
        BY <2>1, <2>3, SpanIs
      <3>2. rect.x <= i /\ i < rect.x + rect.width
        BY <1>2, <1>3, <1>4, <1>7, <3>1
      <3> QED
        BY <1>2, <3>1, <3>2, AreaLies
    <2>4. Within(rect, drawn.at, clear_footprint(drawn, last, y).at, c, r)
      BY <2>2, <2>3, WithinMore
    <2> QED
      BY <1>6, <2>4, WithinOn
  <1> QED
    BY <1>1, <1>3, <1>6, <1>7 DEF InlineLabel, drawn, width, last

LEMMA BoxWithin ==
    ASSUME NEW c \in Nat, NEW r \in Nat, NEW cv \in Canvases(c, r),
           NEW rect \in Areas, NEW label \in Texts
    PROVE  /\ IsBox(rect) =>
                 Within(rect, cv.at, Framed(cv, rect, Middle(rect), label).at, c, r)
           /\ Within(rect, cv.at, draw_labeled_box(cv, rect, label).at, c, r)
           /\ Within(rect, cv.at, draw_titled_border(cv, rect, label).at, c, r)
  <1>1. /\ rect.x \in Nat /\ rect.y \in Nat /\ rect.width \in Nat /\ Middle(rect) \in Nat
        /\ rect.x + 1 \in Nat /\ rect.height \in Nat \ {0}
        /\ rect.y <= Middle(rect) /\ Middle(rect) < rect.y + rect.height
    BY AreaParts, MiddleLies
  <1>2. border(cv, rect) \in Canvases(c, r) /\ Within(rect, cv.at, border(cv, rect).at, c, r)
    BY BorderKeeps, BorderSpares
  <1>3. ASSUME NEW y \in Nat, rect.y <= y, y < rect.y + rect.height,
               NEW width \in Nat, width > 0 => width = rect.width - 2
        PROVE  Within(rect, cv.at,
                      DrawText(border(cv, rect), rect.x + 1, y, width, Elide(label, width)).at, c, r)
    <2> DEFINE frame1 == border(cv, rect)
               text == Elide(label, width)
    <2>1. text \in Texts
      BY ElideOf
    <2>2. rect.x <= rect.x + 1 /\ (width > 0 => (rect.x + 1) + width <= rect.x + rect.width)
      BY <1>1, <1>3
    <2> HIDE DEF frame1, text
    <2>3. Within(rect, frame1.at, DrawText(frame1, rect.x + 1, y, width, text).at, c, r)
      BY <1>1, <1>2, <1>3, <2>1, <2>2, TextInArea DEF frame1
    <2> QED
      BY <1>2, <2>3, WithinOn DEF frame1, text
  <1>4. ASSUME IsBox(rect)
        PROVE  Within(rect, cv.at, Framed(cv, rect, Middle(rect), label).at, c, r)
    <2> DEFINE width == rect.width - 2
    <2>1. width \in Nat /\ (width > 0 => width = rect.width - 2)
      BY <1>1, <1>4 DEF IsBox
    <2>2. Framed(cv, rect, Middle(rect), label)
          = DrawText(border(cv, rect), rect.x + 1, Middle(rect), width, Elide(label, width))
      BY DEF Framed
    <2> HIDE DEF width
    <2> QED
      BY <1>1, <1>3, <2>1, <2>2
  <1>5. Within(rect, cv.at, draw_labeled_box(cv, rect, label).at, c, r)
    BY <1>4, InlineWithin DEF draw_labeled_box
  <1>6. Within(rect, cv.at, draw_titled_border(cv, rect, label).at, c, r)
    <2> DEFINE width == Max({rect.width - 2, 0})
    <2>1. width \in Nat /\ (width > 0 => width = rect.width - 2)
      <3>1. rect.width - 2 \in Int /\ 0 \in Int
        BY <1>1
      <3>2. width = IF rect.width - 2 <= 0 THEN 0 ELSE rect.width - 2
        BY <3>1, MaxPair
      <3> HIDE DEF width
      <3> QED
        BY <3>1, <3>2
    <2>2. draw_titled_border(cv, rect, label)
          = DrawText(border(cv, rect), rect.x + 1, rect.y, width, Elide(label, width))
      BY DEF draw_titled_border
    <2> HIDE DEF width
    <2>3. rect.y <= rect.y /\ rect.y < rect.y + rect.height
      BY <1>1
    <2> QED
      BY <1>1, <1>3, <2>1, <2>2, <2>3
  <1> QED
    BY <1>4, <1>5, <1>6

\* A title is written on the first row, whatever is there; the border is not.
LEMMA TitleSpares ==
    ASSUME NEW c \in Nat, NEW r \in Nat, NEW cv \in Canvases(c, r),
           NEW rect \in Areas, NEW label \in Texts,
           NEW i \in 0..c - 1, NEW j \in 0..r - 1, j # rect.y, cv.at[<<i, j>>] # Empty
    PROVE  draw_titled_border(cv, rect, label).at[<<i, j>>] = cv.at[<<i, j>>]
  <1> DEFINE width == Max({rect.width - 2, 0})
             bordered == border(cv, rect)
             drawn == DrawText(bordered, rect.x + 1, rect.y, width, Elide(label, width))
  <1>1. rect.x + 1 \in Nat /\ rect.y \in Nat /\ rect.width \in Nat
    BY AreaParts
  <1>2. width \in Nat
    <2>1. rect.width - 2 \in Int /\ 0 \in Int
      BY <1>1
    <2>2. width = IF rect.width - 2 <= 0 THEN 0 ELSE rect.width - 2
      BY <2>1, MaxPair
    <2> HIDE DEF width
    <2> QED
      BY <2>1, <2>2
  <1>3. draw_titled_border(cv, rect, label) = drawn
    BY DEF draw_titled_border
  <1> HIDE DEF width
  <1>4. bordered \in Canvases(c, r) /\ bordered.at[<<i, j>>] = cv.at[<<i, j>>]
    BY BorderKeeps, BorderSpares DEF Spares
  <1> HIDE DEF bordered
  <1>5. Within(Span(rect.x + 1, rect.y, width), bordered.at, drawn.at, c, r)
    <2>1. Elide(label, width) \in Texts /\ width \in Int
      BY <1>2, ElideOf
    <2> QED
      BY <1>1, <1>4, <2>1, DrawTextRuns
  <1>6. \A k \in Int : ~Lies(Span(rect.x + 1, rect.y, width), k, j)
    <2> SUFFICES ASSUME NEW k \in Int PROVE ~Lies(Span(rect.x + 1, rect.y, width), k, j)
      OBVIOUS
    <2>1. rect.x + 1 \in Int /\ rect.y \in Int /\ width \in Int /\ j \in Int
      BY <1>1, <1>2
    <2>2. Lies(Span(rect.x + 1, rect.y, width), k, j)
          <=> rect.x + 1 <= k /\ k < (rect.x + 1) + width /\ j = rect.y
      BY <2>1, SpanIs
    <2> QED
      BY <2>2
  <1> HIDE DEF drawn
  <1>7. i \in Int /\ i - 1 \in Int /\ i + 1 \in Int
    OBVIOUS
  <1> QED
    BY <1>3, <1>4, <1>5, <1>6, <1>7 DEF Within, HalfOf

\* Line after line: what no line changes, the lines do not change.
LEMMA FlowLinesRun ==
    ASSUME NEW cv, NEW rect \in Areas, NEW text \in Texts, NEW A, cv \in A,
           \A v \in A, y \in rect.y..Bottom(rect) - 1, line \in Texts :
               flow_text_bounded(v, rect.x, y, Right(rect), line) \in A
    PROVE  draw_flow_text(cv, rect, text) \in A
  <1>0. /\ rect.x \in Nat /\ rect.y \in Nat /\ rect.width \in Nat /\ rect.height \in Nat
        /\ rect.width \in Int /\ Right(rect) \in Int /\ Bottom(rect) = rect.y + rect.height
    BY AreaParts DEF Bottom
  <1> DEFINE lines == WrapFlowText(text, rect.width, rect.height)
             n == Len(lines)
             order == Numbers(lines)
             Draw(v, k) == flow_text_bounded(v, rect.x, rect.y + k - 1, Right(rect), lines[k])
             step == [z \in A \X (1..n) |-> Draw(z[1], z[2])]
             Folds(f) == f = [s \in SUBSET DOMAIN order |->
                                 IF s = {} THEN cv
                                 ELSE Draw(f[s \ {Max(s)}], order[Max(s)])]
             it == CHOOSE f : Folds(f)
  <1>1. lines \in Seq(Texts) /\ n <= rect.height
    BY <1>0, WrapFlowTextOf DEF Pages
  <1>2. draw_flow_text(cv, rect, text) = it[DOMAIN order]
    BY DEF draw_flow_text, FoldLeft, MapThenFoldSet
  <1> HIDE DEF lines
  <1>3. n \in Nat /\ DOMAIN lines = 1..n /\ \A k \in 1..n : lines[k] \in Texts
    BY <1>1, LenProperties, ElementOfSeq
  <1>4. DOMAIN order = 1..n
    BY <1>3 DEF Numbers
  <1>5. \A v \in A, k \in 1..n : Draw(v, k) \in A
    <2> SUFFICES ASSUME NEW v \in A, NEW k \in 1..n
                 PROVE  Draw(v, k) \in A
      OBVIOUS
    <2>1. rect.y + k - 1 \in rect.y..Bottom(rect) - 1 /\ lines[k] \in Texts
      BY <1>0, <1>1, <1>3
    <2> QED
      BY <2>1
  <1>6. step \in [A \X (1..n) -> A]
    <2> HIDE DEF Draw
    <2> QED
      BY <1>5
  <1>7. \A v \in A, k \in 1..n : step[<<v, k>>] = Draw(v, order[k])
    <2>1. \A v \in A, k \in 1..n : step[<<v, k>>] = Draw(v, k)
      <3> HIDE DEF Draw
      <3> QED
        OBVIOUS
    <2>2. \A k \in 1..n : order[k] = k
      BY <1>3 DEF Numbers
    <2> HIDE DEF Draw, step, order
    <2> QED
      BY <2>1, <2>2
  <1> HIDE DEF n, step, Draw, order
  <1>8. Folds(it)
    <2>1. PICK f : FoldsAlways(f, A, n, cv, step)
      BY <1>3, <1>6, FoldExists
    <2>2. Folds(f)
      BY <1>4, <1>7, <2>1 DEF FoldsAlways
    <2> HIDE DEF Folds
    <2> QED
      BY <2>2
  <1> HIDE DEF it
  <1>9. FoldsWithin(it, A, n, cv, step)
    BY <1>4, <1>7, <1>8 DEF FoldsWithin
  <1>10. it[1..n] \in A
    BY <1>3, <1>6, <1>9, FoldStaysIn
  <1> QED
    BY <1>2, <1>4, <1>10

LEMMA TextLinesRun ==
    ASSUME NEW cv, NEW rect \in Areas, NEW lines \in Seq(Texts), NEW scroll \in 0..2,
           NEW A, cv \in A,
           \A v \in A, y \in rect.y..Bottom(rect) - 1, line \in Texts :
               DrawText(v, rect.x, y, rect.width, line) \in A
    PROVE  DrawLines(cv, rect, lines, scroll) \in A
  <1>0. /\ rect.x \in Nat /\ rect.y \in Nat /\ rect.width \in Nat /\ rect.height \in Nat
        /\ rect.width \in Int /\ Right(rect) \in Int /\ Bottom(rect) = rect.y + rect.height
    BY AreaParts DEF Bottom
  <1> DEFINE above == (Max({Len(lines) - rect.height, 0}) * scroll + 1) \div 2
             seen == Slice(lines, above, rect.height)
             n == Len(seen)
             order == Numbers(seen)
             Draw(v, k) == DrawText(v, rect.x, rect.y + k - 1, rect.width, seen[k])
             step == [z \in A \X (1..n) |-> Draw(z[1], z[2])]
             Folds(f) == f = [s \in SUBSET DOMAIN order |->
                                 IF s = {} THEN cv
                                 ELSE Draw(f[s \ {Max(s)}], order[Max(s)])]
             it == CHOOSE f : Folds(f)
  <1>1. seen \in Seq(Texts) /\ n <= rect.height
    <2> DEFINE over == Max({Len(lines) - rect.height, 0})
    <2>1. Len(lines) \in Nat
      BY LenProperties
    <2>2. over \in Nat
      <3>1. Len(lines) - rect.height \in Int /\ 0 \in Int
        BY <1>0, <2>1
      <3>2. over = IF Len(lines) - rect.height <= 0 THEN 0 ELSE Len(lines) - rect.height
        BY <3>1, MaxPair
      <3> HIDE DEF over
      <3> QED
        BY <3>1, <3>2
    <2> HIDE DEF over
    <2>3. above \in Nat
      <3>1. scroll \in {0, 1, 2}
        OBVIOUS
      <3>2. over * scroll + 1 \in Nat
        BY <2>2, <3>1
      <3>3. (over * scroll + 1) \div 2 \in Nat
        BY <3>2
      <3> QED
        BY <3>3 DEF over
    <2> HIDE DEF above
    <2>4. Slice(lines, above, rect.height)
          = SubSeq(lines, above + 1, Min({above + rect.height, Len(lines)}))
      BY DEF Slice
    <2> DEFINE last == Min({above + rect.height, Len(lines)})
    <2>5. /\ last \in Int /\ last <= Len(lines) /\ last <= above + rect.height
      <3>1. above + rect.height \in Int /\ Len(lines) \in Int
        BY <1>0, <2>1, <2>3
      <3>2. Min({above + rect.height, Len(lines)})
            = IF above + rect.height <= Len(lines) THEN above + rect.height ELSE Len(lines)
        BY <3>1, MinPair
      <3> QED
        BY <3>1, <3>2
    <2>6. above + 1 \in Nat \ {0}
      BY <2>3
    <2> HIDE DEF last
    <2>7. SubSeq(lines, above + 1, last) \in Seq(Texts)
          /\ Len(SubSeq(lines, above + 1, last)) <= rect.height
      <3>1. SubSeq(lines, above + 1, last) \in Seq(Texts)
        BY <2>5, <2>6, PartOf
      <3>2. Len(SubSeq(lines, above + 1, last))
            = IF above + 1 <= last THEN last - (above + 1) + 1 ELSE 0
        BY <2>5, <2>6, PartLength
      <3> QED
        BY <1>0, <2>3, <2>5, <3>1, <3>2
    <2> QED
      BY <2>4, <2>7 DEF last
  <1>2. DrawLines(cv, rect, lines, scroll) = it[DOMAIN order]
    BY DEF DrawLines, FoldLeft, MapThenFoldSet
  <1> HIDE DEF seen
  <1>3. n \in Nat /\ DOMAIN seen = 1..n /\ \A k \in 1..n : seen[k] \in Texts
    BY <1>1, LenProperties, ElementOfSeq
  <1>4. DOMAIN order = 1..n
    BY <1>3 DEF Numbers
  <1>5. \A v \in A, k \in 1..n : Draw(v, k) \in A
    <2> SUFFICES ASSUME NEW v \in A, NEW k \in 1..n
                 PROVE  Draw(v, k) \in A
      OBVIOUS
    <2>1. rect.y + k - 1 \in rect.y..Bottom(rect) - 1 /\ seen[k] \in Texts
      BY <1>0, <1>1, <1>3
    <2> QED
      BY <2>1
  <1>6. step \in [A \X (1..n) -> A]
    <2> HIDE DEF Draw
    <2> QED
      BY <1>5
  <1>7. \A v \in A, k \in 1..n : step[<<v, k>>] = Draw(v, order[k])
    <2>1. \A v \in A, k \in 1..n : step[<<v, k>>] = Draw(v, k)
      <3> HIDE DEF Draw
      <3> QED
        OBVIOUS
    <2>2. \A k \in 1..n : order[k] = k
      BY <1>3 DEF Numbers
    <2> HIDE DEF Draw, step, order
    <2> QED
      BY <2>1, <2>2
  <1> HIDE DEF n, step, Draw, order
  <1>8. Folds(it)
    <2>1. PICK f : FoldsAlways(f, A, n, cv, step)
      BY <1>3, <1>6, FoldExists
    <2>2. Folds(f)
      BY <1>4, <1>7, <2>1 DEF FoldsAlways
    <2> HIDE DEF Folds
    <2> QED
      BY <2>2
  <1> HIDE DEF it
  <1>9. FoldsWithin(it, A, n, cv, step)
    BY <1>4, <1>7, <1>8 DEF FoldsWithin
  <1>10. it[1..n] \in A
    BY <1>3, <1>6, <1>9, FoldStaysIn
  <1> QED
    BY <1>2, <1>4, <1>10

LEMMA LinesKeep ==
    ASSUME NEW c \in Nat, NEW r \in Nat, NEW cv \in Canvases(c, r), NEW rect \in Areas
    PROVE  /\ \A text \in Texts : draw_flow_text(cv, rect, text) \in Canvases(c, r)
           /\ \A lines \in Seq(Texts), scroll \in 0..2 :
                 DrawLines(cv, rect, lines, scroll) \in Canvases(c, r)
  <1>1. /\ rect.x \in Nat /\ rect.y \in Nat /\ rect.width \in Nat /\ rect.height \in Nat
        /\ rect.width \in Int /\ Right(rect) \in Int /\ Bottom(rect) \in Int
    BY AreaParts
  <1>2. ASSUME NEW v \in Canvases(c, r), NEW y \in rect.y..Bottom(rect) - 1, NEW line \in Texts
        PROVE  /\ flow_text_bounded(v, rect.x, y, Right(rect), line) \in Canvases(c, r)
               /\ DrawText(v, rect.x, y, rect.width, line) \in Canvases(c, r)
    <2>1. y \in Nat
      BY <1>1
    <2> QED
      BY <1>1, <2>1, FlowKeeps, DrawTextKeeps
  <1> QED
    BY <1>2, FlowLinesRun, TextLinesRun

\* Lines that flow spare what is there, and no line leaves its rectangle.
LEMMA FlowLinesSpare ==
    ASSUME NEW c \in Nat, NEW r \in Nat, NEW cv \in Canvases(c, r), NEW rect \in Areas,
           NEW text \in Texts
    PROVE  LET drawn == draw_flow_text(cv, rect, text)
           IN  Spares(cv.at, drawn.at, c, r) /\ Within(rect, cv.at, drawn.at, c, r)
  <1> DEFINE A == {v \in Canvases(c, r) : /\ Spares(cv.at, v.at, c, r)
                                          /\ Within(rect, cv.at, v.at, c, r)}
  <1>1. /\ rect.x \in Nat /\ rect.y \in Nat /\ rect.width \in Nat /\ rect.height \in Nat
        /\ Right(rect) \in Int /\ Bottom(rect) \in Int
        /\ Right(rect) = rect.x + rect.width /\ Bottom(rect) = rect.y + rect.height
    BY AreaParts DEF Right, Bottom
  <1>2. cv \in A
    BY DEF Spares, Within
  <1>3. ASSUME NEW v \in A, NEW y \in rect.y..Bottom(rect) - 1, NEW line \in Texts
        PROVE  flow_text_bounded(v, rect.x, y, Right(rect), line) \in A
    <2> DEFINE next == flow_text_bounded(v, rect.x, y, Right(rect), line)
               span == Span(rect.x, y, Right(rect) - rect.x)
    <2>1. y \in Nat /\ rect.y <= y /\ y < rect.y + rect.height
      BY <1>1
    <2>2. /\ next \in Canvases(c, r) /\ Spares(v.at, next.at, c, r)
          /\ Within(span, v.at, next.at, c, r)
      BY <1>1, <2>1, FlowKeeps, FlowSpares
    <2>3. ASSUME NEW i \in Int, NEW j \in Int, Lies(span, i, j) PROVE Lies(rect, i, j)
      <3>1. rect.x \in Int /\ y \in Int /\ Right(rect) - rect.x \in Int
        BY <1>1
      <3>2. rect.x <= i /\ i < rect.x + (Right(rect) - rect.x) /\ j = y
        BY <2>3, <3>1, SpanIs
      <3> QED
        BY <1>1, <2>1, <3>2, AreaLies
    <2> HIDE DEF next, span
    <2>4. Within(rect, v.at, next.at, c, r)
      BY <2>2, <2>3, WithinMore
    <2>5. Spares(cv.at, next.at, c, r) /\ Within(rect, cv.at, next.at, c, r)
      BY <2>2, <2>4, SparesOn, WithinOn
    <2> QED
      BY <2>2, <2>5 DEF next
  <1>4. draw_flow_text(cv, rect, text) \in A
    <2> HIDE DEF A
    <2> QED
      BY <1>2, <1>3, FlowLinesRun
  <1> QED
    BY <1>4

LEMMA TextLinesWithin ==
    ASSUME NEW c \in Nat, NEW r \in Nat, NEW cv \in Canvases(c, r), NEW rect \in Areas,
           NEW lines \in Seq(Texts), NEW scroll \in 0..2
    PROVE  Within(rect, cv.at, DrawLines(cv, rect, lines, scroll).at, c, r)
  <1> DEFINE A == {v \in Canvases(c, r) : Within(rect, cv.at, v.at, c, r)}
  <1>1. /\ rect.x \in Nat /\ rect.y \in Nat /\ rect.width \in Nat /\ rect.height \in Nat
        /\ rect.width \in Int /\ Bottom(rect) = rect.y + rect.height
    BY AreaParts DEF Bottom
  <1>2. cv \in A
    BY DEF Within
  <1>3. ASSUME NEW v \in A, NEW y \in rect.y..Bottom(rect) - 1, NEW line \in Texts
        PROVE  DrawText(v, rect.x, y, rect.width, line) \in A
    <2> DEFINE next == DrawText(v, rect.x, y, rect.width, line)
    <2>1. y \in Nat /\ rect.y <= y /\ y < rect.y + rect.height
      BY <1>1
    <2>2. next \in Canvases(c, r) /\ Within(rect, v.at, next.at, c, r)
      <3>1. rect.x <= rect.x /\ rect.x + rect.width <= rect.x + rect.width
        BY <1>1
      <3> QED
        BY <1>1, <2>1, <3>1, DrawTextKeeps, TextInArea
    <2> HIDE DEF next
    <2>3. Within(rect, cv.at, next.at, c, r)
      BY <2>2, WithinOn
    <2> QED
      BY <2>2, <2>3 DEF next
  <1>4. DrawLines(cv, rect, lines, scroll) \in A
    <2> HIDE DEF A
    <2> QED
      BY <1>2, <1>3, TextLinesRun
  <1> QED
    BY <1>4

LEMMA TextAreaKeeps ==
    ASSUME NEW c \in Nat, NEW r \in Nat, NEW cv \in Canvases(c, r),
           NEW rect \in Areas, NEW text \in Texts, NEW scroll \in 0..2
    PROVE  /\ draw_multiline_text(cv, rect, text, scroll) \in Canvases(c, r)
           /\ draw_text_area(cv, rect, text, scroll) \in Canvases(c, r)
  <1>1. ASSUME NEW v \in Canvases(c, r), NEW area \in Areas
        PROVE  draw_multiline_text(v, area, text, scroll) \in Canvases(c, r)
    <2> DEFINE lines == WrapText(Unpadded(text), area.width, Len(text) + 1)
    <2>1. Len(text) + 1 \in Nat
      BY LenProperties DEF Texts
    <2>2. lines \in Seq(Texts)
      BY <2>1, UnpaddedOf, WrapTextOf DEF Pages
    <2> HIDE DEF lines
    <2>3. DrawLines(v, area, lines, scroll) \in Canvases(c, r)
      BY <2>2, LinesKeep
    <2> QED
      BY <2>3 DEF draw_multiline_text, lines
  <1>2. ASSUME IsBox(rect) PROVE Inside(rect) \in Areas
    <2>1. /\ rect.x \in Nat /\ rect.y \in Nat /\ rect.width \in Nat /\ rect.height \in Nat
          /\ rect.width >= 4 /\ rect.height >= 3
      BY <1>2, AreaParts DEF IsBox
    <2>2. /\ rect.x + 1 \in Nat /\ rect.y + 1 \in Nat
          /\ rect.width - 2 \in Nat /\ rect.height - 2 \in Nat \ {0}
      BY <2>1
    <2> QED
      BY <2>2 DEF Inside, Areas
  <1> QED
    BY <1>1, <1>2, BorderKeeps DEF draw_text_area

LEMMA TextAreaWithin ==
    ASSUME NEW c \in Nat, NEW r \in Nat, NEW cv \in Canvases(c, r),
           NEW rect \in Areas, NEW text \in Texts, NEW scroll \in 0..2
    PROVE  /\ Within(rect, cv.at, draw_multiline_text(cv, rect, text, scroll).at, c, r)
           /\ Within(rect, cv.at, draw_text_area(cv, rect, text, scroll).at, c, r)
  <1>1. ASSUME NEW v \in Canvases(c, r), NEW area \in Areas
        PROVE  Within(area, v.at, draw_multiline_text(v, area, text, scroll).at, c, r)
    <2> DEFINE lines == WrapText(Unpadded(text), area.width, Len(text) + 1)
    <2>1. Len(text) + 1 \in Nat
      BY LenProperties DEF Texts
    <2>2. lines \in Seq(Texts)
      BY <2>1, UnpaddedOf, WrapTextOf DEF Pages
    <2> HIDE DEF lines
    <2>3. Within(area, v.at, DrawLines(v, area, lines, scroll).at, c, r)
      BY <2>2, TextLinesWithin
    <2> QED
      BY <2>3 DEF draw_multiline_text, lines
  <1>2. CASE ~IsBox(rect)
    BY <1>1, <1>2 DEF draw_text_area
  <1>3. CASE IsBox(rect)
    <2> DEFINE bordered == border(cv, rect)
               inner == Inside(rect)
               drawn == draw_multiline_text(bordered, inner, text, scroll)
    <2>1. /\ rect.x \in Nat /\ rect.y \in Nat /\ rect.width \in Nat /\ rect.height \in Nat
          /\ rect.width >= 4 /\ rect.height >= 3
      BY <1>3, AreaParts DEF IsBox
    <2>2. /\ inner.x = rect.x + 1 /\ inner.y = rect.y + 1
          /\ inner.width = rect.width - 2 /\ inner.height = rect.height - 2
      BY DEF Inside
    <2>3. inner \in Areas
      <3>1. /\ rect.x + 1 \in Nat /\ rect.y + 1 \in Nat
            /\ rect.width - 2 \in Nat /\ rect.height - 2 \in Nat \ {0}
        BY <2>1
      <3> QED
        BY <3>1 DEF Inside, Areas
    <2>4. /\ bordered \in Canvases(c, r) /\ Within(rect, cv.at, bordered.at, c, r)
      BY BorderKeeps, BorderSpares
    <2>5. draw_text_area(cv, rect, text, scroll) = drawn
      BY <1>3 DEF draw_text_area
    <2> HIDE DEF bordered, inner
    <2>6. Within(inner, bordered.at, drawn.at, c, r)
      BY <1>1, <2>3, <2>4
    <2>7. ASSUME NEW i \in Int, NEW j \in Int, Lies(inner, i, j) PROVE Lies(rect, i, j)
      <3>1. /\ inner.x <= i /\ i < inner.x + inner.width
            /\ inner.y <= j /\ j < inner.y + inner.height
        BY <2>3, <2>7, AreaLies
      <3>2. /\ rect.x <= i /\ i < rect.x + rect.width
            /\ rect.y <= j /\ j < rect.y + rect.height
        BY <2>1, <2>2, <3>1
      <3> QED
        BY <3>2, AreaLies
    <2> HIDE DEF drawn
    <2>8. Within(rect, bordered.at, drawn.at, c, r)
      BY <2>6, <2>7, WithinMore
    <2>9. Within(rect, cv.at, drawn.at, c, r)
      BY <2>4, <2>8, WithinOn
    <2> QED
      BY <1>1, <2>5, <2>9
  <1> QED
    BY <1>1, <1>2, <1>3

\* Without the second columns, the glyphs of a row are as wide as the canvas.
LEMMA RowsWidth ==
    ASSUME NEW c \in Nat, NEW r \in Nat, NEW cv \in Canvases(c, r)
    PROVE  /\ into_rows(cv) \in Seq(Seq(Slots)) /\ Len(into_rows(cv)) = r
           /\ \A y \in 1..r : WidthOf(into_rows(cv)[y]) = c
  <1>1. /\ cv.cols = c /\ cv.rows = r /\ cv.at \in [Places(c, r) -> Slots] /\ WholeAt(cv.at, c, r)
    BY DEF Canvases
  <1> DEFINE Kept(y) == {x \in 1..cv.cols : RowOf(cv, y)[x] # Continuation}
             Line(y) == Chosen(RowOf(cv, y), Kept(y))
  <1>2. into_rows(cv) = [y \in 1..r |-> Line(y)]
    BY <1>1 DEF into_rows
  <1>3. ASSUME NEW y \in 1..r
        PROVE  Line(y) \in Seq(Slots) /\ WidthOf(Line(y)) = c
    <2> DEFINE row == RowOf(cv, y)
               S == Kept(y)
               C == {x \in 1..c : row[x] = Continuation}
               W == {x \in 1..c : row[x] \in Wide}
               n == Cardinality(S)
               line == Line(y)
               K == {k \in DOMAIN line : line[k] \in Wide}
    <2>1. row \in [1..c -> Slots] /\ \A x \in 1..c : row[x] = cv.at[<<x - 1, y - 1>>]
      <3>1. \A x \in 1..c : <<x - 1, y - 1>> \in Places(c, r)
        BY DEF Places
      <3> QED
        BY <1>1, <3>1 DEF RowOf
    <2>2. row \in Seq(Slots) /\ DOMAIN row = 1..c
      BY <2>1, SeqDef
    <2>3. S = {x \in 1..c : row[x] # Continuation}
      BY <1>1
    <2> HIDE DEF row
    <2>4. S \in SUBSET (1..c) /\ W \in SUBSET S /\ C = (1..c) \ S
      BY <2>3, CanvasSigns
    <2> HIDE DEF S
    <2>5. S \in SUBSET DOMAIN row
      BY <2>2, <2>4
    <2>6. /\ Chosen(row, S) \in Seq(Slots) /\ n \in Nat /\ Len(Chosen(row, S)) = n
          /\ InOrder(S) \in Bijection(1..n, S)
          /\ \A k \in 1..n : Chosen(row, S)[k] = row[InOrder(S)[k]]
      BY <2>2, <2>5, ChosenOf
    <2>7. line = Chosen(row, S)
      BY DEF row, S
    <2> HIDE DEF line
    <2>8. line \in Seq(Slots) /\ Len(line) = n /\ DOMAIN line = 1..n
      BY <2>6, <2>7, LenProperties
    <2>9. IsFiniteSet(1..c) /\ Cardinality(1..c) = c /\ IsFiniteSet(S) /\ IsFiniteSet(W)
          /\ Cardinality(C) = c - n
      <3>1. IsFiniteSet(1..c) /\ Cardinality(1..c) = c
        BY FS_Interval
      <3>2. IsFiniteSet(S) /\ IsFiniteSet(W)
        <4>1. IsFiniteSet(S)
          BY <2>4, <3>1, FS_Subset
        <4> HIDE DEF W
        <4> QED
          BY <2>4, <4>1, FS_Subset
      <3>3. (1..c) \cap S = S
        BY <2>4
      <3>4. Cardinality((1..c) \ S) = Cardinality(1..c) - Cardinality((1..c) \cap S)
        BY <3>1, FS_Difference
      <3> QED
        BY <2>4, <3>1, <3>2, <3>3, <3>4
    \* A wide glyph and what extends it.
    <2>10. Cardinality(W) = Cardinality(C)
      <3> DEFINE f == [x \in W |-> x + 1]
      <3>1. ASSUME NEW x \in 1..c
            PROVE  /\ row[x] = Continuation => x - 1 \in 1..c /\ row[x - 1] \in Wide
                   /\ row[x] \in Wide => x + 1 \in 1..c /\ row[x + 1] = Continuation
        <4>1. x - 1 \in 0..c - 1 /\ y - 1 \in 0..r - 1 /\ (x - 1) + 1 = (x + 1) - 1
          OBVIOUS
        <4>2. /\ cv.at[<<x - 1, y - 1>>] = Continuation =>
                    x - 1 > 0 /\ cv.at[<<(x - 1) - 1, y - 1>>] \in Wide
              /\ cv.at[<<x - 1, y - 1>>] \in Wide =>
                    (x - 1) + 1 < c /\ cv.at[<<(x - 1) + 1, y - 1>>] = Continuation
          BY <1>1, <4>1 DEF WholeAt
        <4>3. row[x] = cv.at[<<x - 1, y - 1>>]
          BY <2>1
        <4>4. row[x] = Continuation => x - 1 \in 1..c /\ row[x - 1] \in Wide
          BY <2>1, <4>2, <4>3
        <4>5. row[x] \in Wide => x + 1 \in 1..c /\ row[x + 1] = Continuation
          <5> SUFFICES ASSUME row[x] \in Wide
                       PROVE  x + 1 \in 1..c /\ row[x + 1] = Continuation
            OBVIOUS
          <5>1. x + 1 \in 1..c
            BY <4>2, <4>3
          <5>2. row[x + 1] = cv.at[<<(x + 1) - 1, y - 1>>]
            BY <2>1, <5>1
          <5> QED
            BY <4>1, <4>2, <4>3, <5>1, <5>2
        <4> QED
          BY <4>4, <4>5
      <3>2. f \in [W -> C]
        BY <3>1
      <3>3. \A a, b \in W : f[a] = f[b] => a = b
        OBVIOUS
      <3>4. \A z \in C : \E a \in W : f[a] = z
        <4> SUFFICES ASSUME NEW z \in C PROVE z - 1 \in W /\ f[z - 1] = z
          OBVIOUS
        <4>1. z - 1 \in W
          BY <3>1
        <4> QED
          BY <4>1
      <3> HIDE DEF f, W, C
      <3>5. f \in Bijection(W, C)
        BY <3>2, <3>3, <3>4 DEF Bijection, Injection, Surjection, IsInjective
      <3>6. ExistsBijection(W, C)
        BY <3>5 DEF ExistsBijection
      <3> QED
        BY <2>9, <3>6, FS_Bijection
    <2>11. Cardinality(K) = Cardinality(W)
      <3> DEFINE f == [k \in K |-> InOrder(S)[k]]
      <3>1. /\ InOrder(S) \in [1..n -> S]
            /\ \A a, b \in 1..n : InOrder(S)[a] = InOrder(S)[b] => a = b
            /\ \A x \in S : \E k \in 1..n : InOrder(S)[k] = x
        BY <2>6 DEF Bijection, Injection, Surjection, IsInjective
      <3>2. K \in SUBSET (1..n) /\ \A k \in 1..n : k \in K <=> row[InOrder(S)[k]] \in Wide
        BY <2>6, <2>7, <2>8
      <3>3. \A x \in S : x \in W <=> row[x] \in Wide
        BY <2>4
      <3> HIDE DEF K, W, n
      <3>4. f \in [K -> W]
        BY <3>1, <3>2, <3>3
      <3>5. \A a, b \in K : f[a] = f[b] => a = b
        BY <3>1, <3>2
      <3>6. \A x \in W : \E k \in K : f[k] = x
        <4> SUFFICES ASSUME NEW x \in W PROVE \E k \in K : f[k] = x
          OBVIOUS
        <4>1. x \in S
          BY <2>4
        <4>2. PICK k \in 1..n : InOrder(S)[k] = x
          BY <3>1, <4>1
        <4>3. k \in K
          BY <3>2, <3>3, <4>1, <4>2
        <4> QED
          BY <4>2, <4>3
      <3> HIDE DEF f
      <3>7. f \in Bijection(K, W)
        BY <3>4, <3>5, <3>6 DEF Bijection, Injection, Surjection, IsInjective
      <3>8. ExistsBijection(K, W) /\ IsFiniteSet(K)
        <4>1. IsFiniteSet(1..n)
          BY <2>6, FS_Interval
        <4> QED
          BY <3>2, <3>7, <4>1, FS_Subset DEF ExistsBijection
      <3> QED
        BY <3>8, FS_Bijection
    <2>12. WidthOf(line) = n + Cardinality(K)
      BY <2>8 DEF WidthOf
    <2>13. WidthOf(line) = c
      <3> HIDE DEF n, K, W, C
      <3> QED
        BY <2>6, <2>9, <2>10, <2>11, <2>12
    <2> QED
      BY <2>8, <2>13 DEF line
  <1> HIDE DEF Line
  <1>4. into_rows(cv) \in [1..r -> Seq(Slots)]
    BY <1>2, <1>3
  <1>5. into_rows(cv) \in Seq(Seq(Slots)) /\ DOMAIN into_rows(cv) = 1..r
    BY <1>4, SeqDef
  <1>6. Len(into_rows(cv)) = r
    BY <1>5, LenProperties
  <1> QED
    BY <1>2, <1>3, <1>5, <1>6

-------------------------------------------------------------------------------
(* Quotients.                                                                  *)

LEMMA DivParts ==
    ASSUME NEW m \in Int, NEW b \in Nat \ {0}
    PROVE  m \div b \in Int /\ b * (m \div b) <= m /\ m < b * (m \div b) + b
  OBVIOUS

LEMMA DivKeepsOrder ==
    ASSUME NEW m \in Int, NEW n \in Int, m <= n, NEW b \in Nat \ {0}
    PROVE  /\ m \div b \in Int /\ n \div b \in Int /\ m \div b <= n \div b
           /\ m \in Nat => m \div b \in Nat
  OBVIOUS

LEMMA DivOfProduct ==
    ASSUME NEW m \in Nat, NEW b \in Nat \ {0}
    PROVE  (m * b) \div b = m
  OBVIOUS

LEMMA DivBelow ==
    ASSUME NEW m \in Int, NEW n \in Nat, NEW b \in Nat \ {0}, m < n * b
    PROVE  m \div b < n
  OBVIOUS

\* What fits at a scale fits at a coarser one.
LEMMA CoarserFits ==
    ASSUME NEW p \in Nat, NEW q \in Nat, NEW a \in Nat \ {0}, NEW b \in Nat \ {0},
           NEW H \in Nat \ {0}, b <= a * H
    PROVE  /\ p * a <= q * b => p * 1 <= q * H
           /\ p * (2 * a) <= q * b => p * 2 <= q * H
  OBVIOUS

-------------------------------------------------------------------------------
(* Where things are put.                                                       *)

LEMMA CellOf ==
    ASSUME NEW pixels \in Int, NEW scale \in Nat \X (Nat \ {0})
    PROVE  Cell(pixels, scale) \in Int /\ (pixels \in Nat => Cell(pixels, scale) \in Nat)
  <1>1. PICK a \in Nat, b \in Nat \ {0} : scale[1] = a /\ scale[2] = b
    OBVIOUS
  <1>2. pixels * a \in Int /\ (pixels \in Nat => pixels * a \in Nat)
    BY <1>1
  <1> DEFINE m == pixels * a
  <1>3. Cell(pixels, scale) = m \div b
    BY <1>1 DEF Cell
  <1> HIDE DEF m
  <1>4. m \in Int /\ (pixels \in Nat => m \in Nat)
    BY <1>2 DEF m
  <1>5. m \div b \in Int /\ (m \in Nat => m \div b \in Nat)
    BY <1>1, <1>4
  <1> QED
    BY <1>3, <1>4, <1>5

LEMMA OffsetOf ==
    ASSUME NEW extent \in Nat, NEW size \in Nat, NEW scale \in Nat \X (Nat \ {0})
    PROVE  Offset(extent, size, scale) \in Nat
  <1> DEFINE taken == Max({Cell(extent, scale), 1})
             free == Max({size - taken, 0})
  <1>1. taken \in Nat
    <2>1. Cell(extent, scale) \in Nat
      BY CellOf
    <2>2. taken = IF Cell(extent, scale) <= 1 THEN 1 ELSE Cell(extent, scale)
      BY <2>1, MaxPair
    <2> HIDE DEF taken
    <2> QED
      BY <2>1, <2>2
  <1> HIDE DEF taken
  <1>2. free \in Nat
    <2>1. size - taken \in Int /\ 0 \in Int
      BY <1>1
    <2>2. free = IF size - taken <= 0 THEN 0 ELSE size - taken
      BY <2>1, MaxPair
    <2> HIDE DEF free
    <2> QED
      BY <2>1, <2>2
  <1>3. Offset(extent, size, scale) = free \div 2
    BY DEF Offset, free, taken
  <1> HIDE DEF free
  <1> QED
    BY <1>2, <1>3

-------------------------------------------------------------------------------
(* A projection keeps within the canvas and keeps the order of pixels.         *)

Scales == (Nat \ {0}) \X (Nat \ {0})

LEMMA CellsInOrder ==
    ASSUME NEW p \in Int, NEW q \in Int, p <= q, NEW scale \in Scales
    PROVE  Cell(p, scale) \in Int /\ Cell(q, scale) \in Int /\ Cell(p, scale) <= Cell(q, scale)
  <1>1. PICK a \in Nat \ {0}, b \in Nat \ {0} : scale[1] = a /\ scale[2] = b
    BY DEF Scales
  <1>2. p * a \in Int /\ q * a \in Int /\ p * a <= q * a
    <2>1. (q - p) * a \in Nat /\ (q - p) * a = q * a - p * a
      BY <1>1
    <2>2. p * a \in Int /\ q * a \in Int
      BY <1>1
    <2> QED
      BY <2>1, <2>2
  <1> DEFINE m == p * a
             n == q * a
  <1>3. Cell(p, scale) = m \div b /\ Cell(q, scale) = n \div b
    BY <1>1 DEF Cell
  <1>4. m \in Int /\ n \in Int /\ m <= n
    BY <1>2
  <1> HIDE DEF m, n
  <1>5. m \div b \in Int /\ n \div b \in Int /\ m \div b <= n \div b
    BY <1>1, <1>4, DivKeepsOrder
  <1> QED
    BY <1>3, <1>5

\* A scale that fits the extent leaves what lies before its end room.
LEMMA CellsFit ==
    ASSUME NEW extent \in Nat, NEW size \in Nat \ {0}, NEW scale \in Scales,
           extent * scale[1] <= size * scale[2]
    PROVE  /\ Cell(extent, scale) \in Nat /\ Cell(extent, scale) <= size
           /\ \A p \in Int : p < extent => Cell(p, scale) < size
  <1>1. PICK a \in Nat \ {0}, b \in Nat \ {0} : scale[1] = a /\ scale[2] = b
    BY DEF Scales
  <1>2. extent * a \in Nat /\ extent * a <= size * b /\ size * b \in Nat
    BY <1>1
  <1>3. (extent * a) \div b \in Nat /\ (extent * a) \div b <= size
    <2> DEFINE m == extent * a
               full == size * b
    <2>1. m \in Nat /\ m \in Int /\ full \in Int /\ m <= full
      BY <1>2
    <2>2. full \div b = size
      BY <1>1, DivOfProduct
    <2> HIDE DEF m, full
    <2>3. m \div b \in Nat /\ m \div b <= full \div b
      BY <1>1, <2>1, DivKeepsOrder
    <2> QED
      BY <2>2, <2>3 DEF m
  <1>4. ASSUME NEW p \in Int, p < extent PROVE (p * a) \div b < size
    <2> DEFINE m == p * a
    <2>1. m \in Int /\ m < size * b
      <3>1. p * a \in Int /\ (extent - p) * a \in Nat \ {0}
        BY <1>1, <1>4
      <3>2. (extent - p) * a = extent * a - p * a
        BY <1>1
      <3> QED
        BY <1>2, <3>1, <3>2
    <2> HIDE DEF m
    <2>2. m \div b < size
      BY <1>1, <2>1, DivBelow
    <2> QED
      BY <2>2 DEF m
  <1> QED
    BY <1>1, <1>3, <1>4 DEF Cell

\* In one direction: what ends where another begins, or before, is not beyond it.
LEMMA EndBeforeStart ==
    ASSUME NEW extent \in Nat, NEW size \in Nat \ {0}, NEW scale \in Scales,
           extent * scale[1] <= size * scale[2],
           NEW to \in Int, NEW from \in Nat, to <= from, from < extent
    PROVE  End(to, extent, size, scale) <= Start(from, extent, size, scale)
  <1> DEFINE ce == Cell(extent, scale)
             cf == Cell(from, scale)
             ct == Cell(to, scale)
             taken == Max({ce, 1})
             free == Max({size - taken, 0})
             off == Offset(extent, size, scale)
  <1>1. /\ ce \in Nat /\ ce <= size /\ cf < size
        /\ cf \in Int /\ ct \in Int /\ ct <= cf /\ cf <= ce
    BY CellsFit, CellsInOrder
  <1>2. off = free \div 2
    BY DEF Offset
  <1>3. Start(from, extent, size, scale) = Min({off + cf, size - 1})
        /\ End(to, extent, size, scale) = Min({off + ct, size})
    BY DEF Start, End
  <1> HIDE DEF ce, cf, ct, off
  <1>4. taken = IF ce <= 1 THEN 1 ELSE ce
    BY <1>1, MaxPair
  <1>5. taken \in Nat
    BY <1>1, <1>4
  <1> HIDE DEF taken
  <1>6. free = IF size - taken <= 0 THEN 0 ELSE size - taken
    BY <1>5, MaxPair
  <1> HIDE DEF free
  <1>7. off \in Nat /\ off + cf <= size - 1
    BY <1>1, <1>2, <1>4, <1>5, <1>6
  <1>8. /\ Min({off + cf, size - 1}) = IF off + cf <= size - 1 THEN off + cf ELSE size - 1
        /\ Min({off + ct, size}) = IF off + ct <= size THEN off + ct ELSE size
    BY <1>1, <1>7, MinPair
  <1> QED
    BY <1>1, <1>3, <1>7, <1>8

\* Both scales fit the window to the canvas, whichever direction is the tighter one.
LEMMA ScaleFits ==
    ASSUME NEW cv, cv.cols \in Nat \ {0}, cv.rows \in Nat \ {0},
           NEW root \in Rects, root.width > 0, root.height > 0, NEW fit
    PROVE  LET scale == RowScale(FitScale(root, cv), fit)
           IN  /\ scale \in Scales /\ <<2 * scale[1], scale[2]>> \in Scales
               /\ root.width * (2 * scale[1]) <= cv.cols * scale[2]
               /\ root.height * scale[1] <= cv.rows * scale[2]
  <1> DEFINE w == root.width
             h == root.height
             c == cv.cols
             r == cv.rows
             one == FitScale(root, cv)
             scale == RowScale(one, fit)
  <1>1. w \in Nat \ {0} /\ h \in Nat \ {0} /\ c \in Nat \ {0} /\ r \in Nat \ {0}
    BY DEF Rects
  <1>2. one = IF r * 2 * w <= c * h THEN <<r, h>> ELSE <<c, 2 * w>>
    BY DEF FitScale
  <1>3. scale = IF ~fit /\ one[2] <= one[1] * CellHeight THEN <<1, CellHeight>> ELSE one
    BY DEF RowScale
  <1> HIDE DEF w, h, c, r, one, scale
  <1>4. one \in Scales
    <2>1. 2 * w \in Nat \ {0}
      BY <1>1
    <2> QED
      BY <1>1, <1>2, <2>1 DEF Scales
  <1>5. PICK a \in Nat \ {0}, b \in Nat \ {0} : one = <<a, b>>
    BY <1>4 DEF Scales
  <1>6. w * (2 * a) <= c * b /\ h * a <= r * b
    <2>1. CASE r * 2 * w <= c * h
      <3>1. a = r /\ b = h
        BY <1>2, <1>5, <2>1
      <3>2. w * (2 * r) = r * 2 * w /\ h * r = r * h /\ r * h \in Int
        BY <1>1
      <3> QED
        BY <2>1, <3>1, <3>2
    <2>2. CASE ~(r * 2 * w <= c * h)
      <3>1. a = c /\ b = 2 * w
        BY <1>2, <1>5, <2>2
      <3>2. w * (2 * c) = c * (2 * w) /\ h * c = c * h /\ r * (2 * w) = r * 2 * w
            /\ c * h \in Int /\ r * 2 * w \in Int /\ c * (2 * w) \in Int
        BY <1>1
      <3> QED
        BY <2>2, <3>1, <3>2
    <2> QED
      BY <2>1, <2>2
  <1> DEFINE FitsWindow == /\ scale \in Scales /\ <<2 * scale[1], scale[2]>> \in Scales
                           /\ w * (2 * scale[1]) <= c * scale[2]
                           /\ h * scale[1] <= r * scale[2]
  <1>7. ASSUME ~fit /\ b <= a * CellHeight PROVE FitsWindow
    <2> DEFINE H == CellHeight
    <2>1. H \in Nat \ {0} /\ b <= a * H
      BY <1>7, LayoutAssumption
    <2>2. scale = <<1, H>>
      BY <1>3, <1>5, <1>7
    <2> HIDE DEF H
    <2>3. w * 2 <= c * H
      BY <1>1, <1>5, <1>6, <2>1, CoarserFits
    <2>4. h * 1 <= r * H
      BY <1>1, <1>5, <1>6, <2>1, CoarserFits
    <2>5. scale[1] = 1 /\ scale[2] = H /\ 2 * scale[1] = 2
      BY <2>2
    <2> QED
      BY <2>1, <2>2, <2>3, <2>4, <2>5 DEF Scales
  <1>8. ASSUME ~(~fit /\ b <= a * CellHeight) PROVE FitsWindow
    <2>1. scale = <<a, b>>
      BY <1>3, <1>5, <1>8
    <2>2. 2 * a \in Nat \ {0}
      BY <1>5
    <2> QED
      BY <1>5, <1>6, <2>1, <2>2 DEF Scales
  <1>9. FitsWindow
    BY <1>7, <1>8
  <1> QED
    BY <1>9 DEF scale, one, w, h, c, r

\* What of a rectangle is seen of the window, and where its edges are projected to.
LEMMA ProjectedParts ==
    ASSUME NEW cv, cv.cols \in Nat \ {0}, cv.rows \in Nat \ {0},
           NEW root \in Rects, root.width > 0, root.height > 0, NEW fit, NEW bounds \in Rects,
           project_clipped_bounds(bounds, root, fit, cv) # NoCells
    PROVE  LET rows == RowScale(FitScale(root, cv), fit)
               cols == <<2 * rows[1], rows[2]>>
           IN  \E left, top, right, bottom \in Int :
                  /\ root.x <= left /\ bounds.x <= left /\ left < right
                  /\ right <= Right(bounds) /\ right <= Right(root)
                  /\ root.y <= top /\ bounds.y <= top /\ top < bottom
                  /\ bottom <= Bottom(bounds) /\ bottom <= Bottom(root)
                  /\ project_clipped_bounds(bounds, root, fit, cv)
                     = AtLeastOne(Start(left - root.x, root.width, cv.cols, cols),
                                  Start(top - root.y, root.height, cv.rows, rows),
                                  End(right - root.x, root.width, cv.cols, cols),
                                  End(bottom - root.y, root.height, cv.rows, rows))
  <1> DEFINE rows == RowScale(FitScale(root, cv), fit)
             cols == <<2 * rows[1], rows[2]>>
             seen == intersect_rect(bounds, root)
             left == Max({bounds.x, root.x})
             top == Max({bounds.y, root.y})
             right == Min({Right(bounds), Right(root)})
             bottom == Min({Bottom(bounds), Bottom(root)})
  <1>1. /\ bounds.x \in Int /\ bounds.y \in Int /\ bounds.width \in Nat /\ bounds.height \in Nat
        /\ root.x \in Int /\ root.y \in Int /\ root.width \in Nat /\ root.height \in Nat
    BY DEF Rects
  <1>2. /\ left \in Int /\ left >= root.x /\ left >= bounds.x
        /\ top \in Int /\ top >= root.y /\ top >= bounds.y
        /\ right \in Int /\ right <= Right(bounds) /\ right <= Right(root)
        /\ bottom \in Int /\ bottom <= Bottom(bounds) /\ bottom <= Bottom(root)
    <2>1. /\ left = IF bounds.x <= root.x THEN root.x ELSE bounds.x
          /\ top = IF bounds.y <= root.y THEN root.y ELSE bounds.y
      BY <1>1, MaxPair
    <2>2. /\ Right(bounds) \in Int /\ Right(root) \in Int
          /\ Bottom(bounds) \in Int /\ Bottom(root) \in Int
      BY <1>1 DEF Right, Bottom
    <2>3. /\ right = IF Right(bounds) <= Right(root) THEN Right(bounds) ELSE Right(root)
          /\ bottom = IF Bottom(bounds) <= Bottom(root) THEN Bottom(bounds) ELSE Bottom(root)
      BY <2>2, MinPair
    <2> HIDE DEF left, top, right, bottom
    <2> QED
      BY <1>1, <2>1, <2>2, <2>3
  <1>3. seen = Between(left, top, right, bottom)
    BY DEF intersect_rect
  <1>4. project_clipped_bounds(bounds, root, fit, cv) = project_bounds(seen, root, rows, cols, cv)
    BY DEF project_clipped_bounds, ProjectAt, rows, cols
  <1> HIDE DEF seen, left, top, right, bottom, rows, cols
  <1>5. seen # NoCells
    BY <1>4 DEF project_bounds
  <1>6. /\ left < right /\ top < bottom /\ seen.x = left /\ seen.y = top
        /\ Right(seen) = right /\ Bottom(seen) = bottom
    BY <1>2, <1>3, <1>5 DEF Between, Right, Bottom
  <1>7. project_bounds(seen, root, rows, cols, cv)
        = AtLeastOne(Start(left - root.x, root.width, cv.cols, cols),
                     Start(top - root.y, root.height, cv.rows, rows),
                     End(right - root.x, root.width, cv.cols, cols),
                     End(bottom - root.y, root.height, cv.rows, rows))
    BY <1>5, <1>6 DEF project_bounds
  <1> QED
    BY <1>2, <1>4, <1>6, <1>7 DEF rows, cols

\* In one direction: at least one cell, and those within the size.
LEMMA StartAndEndWithin ==
    ASSUME NEW extent \in Nat, NEW size \in Nat \ {0}, NEW scale \in Scales,
           NEW from \in Nat, NEW to \in Int
    PROVE  LET start == Start(from, extent, size, scale)
               end == End(to, extent, size, scale)
               wide == Max({end - start, 1})
           IN  /\ start \in Nat /\ end \in Int /\ wide \in Nat \ {0}
               /\ start + wide <= size
               /\ start + wide = start + 1 \/ start + wide <= end
  <1> DEFINE off == Offset(extent, size, scale)
             start == Start(from, extent, size, scale)
             end == End(to, extent, size, scale)
             wide == Max({end - start, 1})
             a == off + Cell(from, scale)
             b == off + Cell(to, scale)
  <1>1. off \in Nat /\ Cell(from, scale) \in Nat /\ Cell(to, scale) \in Int
    <2>1. scale \in Nat \X (Nat \ {0}) /\ size \in Nat
      BY DEF Scales
    <2>2. off \in Nat
      BY <2>1, OffsetOf
    <2>3. Cell(from, scale) \in Nat /\ Cell(to, scale) \in Int
      BY <2>1, CellOf
    <2> HIDE DEF off
    <2> QED
      BY <2>2, <2>3
  <1>2. start = Min({a, size - 1}) /\ end = Min({b, size})
    BY DEF Start, End
  <1> HIDE DEF start, end
  <1>3. a \in Nat /\ b \in Int
    BY <1>1
  <1> HIDE DEF a, b
  <1>4. /\ start = IF a <= size - 1 THEN a ELSE size - 1
        /\ end = IF b <= size THEN b ELSE size
    BY <1>2, <1>3, MinPair
  <1>5. start \in Nat /\ end \in Int /\ start <= size - 1 /\ end <= size
    BY <1>3, <1>4
  <1>6. wide = IF end - start <= 1 THEN 1 ELSE end - start
    BY <1>5, MaxPair
  <1> HIDE DEF wide
  <1>7. /\ start \in Nat /\ end \in Int /\ wide \in Nat \ {0}
        /\ start + wide <= size
        /\ start + wide = start + 1 \/ start + wide <= end
    BY <1>5, <1>6
  <1> QED
    BY <1>7 DEF start, end, wide

OnCanvas(r, cv) == /\ r.width \in Nat \ {0} /\ r.x >= 0 /\ r.y >= 0
                   /\ Right(r) <= cv.cols /\ Bottom(r) <= cv.rows

\* A projected rectangle is on the canvas; what has one has a width.
LEMMA ProjectedWithin ==
    ASSUME NEW cv, cv.cols \in Nat \ {0}, cv.rows \in Nat \ {0},
           NEW root \in Rects, root.width > 0, root.height > 0, NEW fit, NEW bounds \in Rects,
           project_clipped_bounds(bounds, root, fit, cv) # NoCells
    PROVE  /\ project_clipped_bounds(bounds, root, fit, cv) \in Areas /\ bounds.width > 0
           /\ OnCanvas(project_clipped_bounds(bounds, root, fit, cv), cv)
  <1> DEFINE rows == RowScale(FitScale(root, cv), fit)
             cols == <<2 * rows[1], rows[2]>>
             place == project_clipped_bounds(bounds, root, fit, cv)
  <1>1. /\ bounds.x \in Int /\ bounds.width \in Nat
        /\ root.x \in Int /\ root.y \in Int /\ root.width \in Nat /\ root.height \in Nat
    BY DEF Rects
  <1>2. rows \in Scales /\ cols \in Scales
    BY ScaleFits
  <1>3. PICK left \in Int, top \in Int, right \in Int, bottom \in Int :
            /\ root.x <= left /\ bounds.x <= left /\ left < right
            /\ right <= Right(bounds) /\ right <= Right(root)
            /\ root.y <= top /\ bounds.y <= top /\ top < bottom
            /\ bottom <= Bottom(bounds) /\ bottom <= Bottom(root)
            /\ place = AtLeastOne(Start(left - root.x, root.width, cv.cols, cols),
                                  Start(top - root.y, root.height, cv.rows, rows),
                                  End(right - root.x, root.width, cv.cols, cols),
                                  End(bottom - root.y, root.height, cv.rows, rows))
    BY ProjectedParts
  <1> HIDE DEF rows, cols, place
  <1>4. bounds.width > 0
    BY <1>1, <1>3 DEF Right
  <1> DEFINE x == Start(left - root.x, root.width, cv.cols, cols)
             y == Start(top - root.y, root.height, cv.rows, rows)
             far == End(right - root.x, root.width, cv.cols, cols)
             low == End(bottom - root.y, root.height, cv.rows, rows)
             wide == Max({far - x, 1})
             tall == Max({low - y, 1})
  <1>5. /\ left - root.x \in Nat /\ right - root.x \in Int
        /\ top - root.y \in Nat /\ bottom - root.y \in Int
    BY <1>1, <1>3
  <1>6. x \in Nat /\ wide \in Nat \ {0} /\ x + wide <= cv.cols
    BY <1>1, <1>2, <1>5, StartAndEndWithin
  <1>7. y \in Nat /\ tall \in Nat \ {0} /\ y + tall <= cv.rows
    BY <1>1, <1>2, <1>5, StartAndEndWithin
  <1>8. place = [x |-> x, y |-> y, width |-> wide, height |-> tall]
    BY <1>3 DEF AtLeastOne
  <1> HIDE DEF x, y, far, low, wide, tall
  <1>9. place \in Areas /\ OnCanvas(place, cv)
    BY <1>6, <1>7, <1>8 DEF Areas, OnCanvas, Right, Bottom
  <1> QED
    BY <1>4, <1>9 DEF place

\* What lies beside or below something lies so on the canvas, but for a cell of its own.
LEMMA ProjectedApart ==
    ASSUME NEW cv, cv.cols \in Nat \ {0}, cv.rows \in Nat \ {0},
           NEW root \in Rects, root.width > 0, root.height > 0, NEW fit,
           NEW b \in Rects, project_clipped_bounds(b, root, fit, cv) # NoCells,
           NEW c \in Rects, project_clipped_bounds(c, root, fit, cv) # NoCells
    PROVE  LET r == project_clipped_bounds(b, root, fit, cv)
               s == project_clipped_bounds(c, root, fit, cv)
           IN  /\ Right(b) <= c.x => Right(r) <= Max({s.x, r.x + 1})
               /\ Bottom(b) <= c.y => Bottom(r) <= Max({s.y, r.y + 1})
  <1> DEFINE rows == RowScale(FitScale(root, cv), fit)
             cols == <<2 * rows[1], rows[2]>>
             r == project_clipped_bounds(b, root, fit, cv)
             s == project_clipped_bounds(c, root, fit, cv)
  <1>1. /\ root.x \in Int /\ root.y \in Int /\ root.width \in Nat /\ root.height \in Nat
        /\ Right(b) \in Int /\ Bottom(b) \in Int /\ c.x \in Int /\ c.y \in Int
        /\ Right(root) = root.x + root.width /\ Bottom(root) = root.y + root.height
    BY DEF Rects, Right, Bottom
  <1>2. /\ rows \in Scales /\ cols \in Scales
        /\ root.width * cols[1] <= cv.cols * cols[2]
        /\ root.height * rows[1] <= cv.rows * rows[2]
    BY ScaleFits
  <1>3. PICK left \in Int, top \in Int, right \in Int, bottom \in Int :
            /\ root.x <= left /\ right <= Right(b)
            /\ root.y <= top /\ bottom <= Bottom(b)
            /\ r = AtLeastOne(Start(left - root.x, root.width, cv.cols, cols),
                              Start(top - root.y, root.height, cv.rows, rows),
                              End(right - root.x, root.width, cv.cols, cols),
                              End(bottom - root.y, root.height, cv.rows, rows))
    BY ProjectedParts
  <1>4. PICK west \in Int, north \in Int, east \in Int, south \in Int :
            /\ root.x <= west /\ c.x <= west /\ west < east /\ east <= Right(root)
            /\ root.y <= north /\ c.y <= north /\ north < south /\ south <= Bottom(root)
            /\ s = AtLeastOne(Start(west - root.x, root.width, cv.cols, cols),
                              Start(north - root.y, root.height, cv.rows, rows),
                              End(east - root.x, root.width, cv.cols, cols),
                              End(south - root.y, root.height, cv.rows, rows))
    BY ProjectedParts
  <1> HIDE DEF rows, cols, r, s
  <1>5. Right(b) <= c.x => Right(r) <= Max({s.x, r.x + 1})
    <2> SUFFICES ASSUME Right(b) <= c.x PROVE Right(r) <= Max({s.x, r.x + 1})
      OBVIOUS
    <2> DEFINE start == Start(left - root.x, root.width, cv.cols, cols)
               end == End(right - root.x, root.width, cv.cols, cols)
               next == Start(west - root.x, root.width, cv.cols, cols)
               wide == Max({end - start, 1})
    <2>1. /\ left - root.x \in Nat /\ right - root.x \in Int /\ west - root.x \in Nat
          /\ right - root.x <= west - root.x /\ west - root.x < root.width
      BY <1>1, <1>3, <1>4
    <2>2. /\ start \in Nat /\ end \in Int /\ wide \in Nat \ {0}
          /\ start + wide = start + 1 \/ start + wide <= end
      <3>1. root.width \in Nat /\ cv.cols \in Nat \ {0} /\ cols \in Scales
        BY <1>1, <1>2
      <3> QED
        BY <2>1, <3>1, StartAndEndWithin
    <2>3. next \in Nat /\ end <= next
      BY <1>1, <1>2, <2>1, StartAndEndWithin, EndBeforeStart
    <2>4. r.x = start /\ Right(r) = start + wide /\ s.x = next
      BY <1>3, <1>4 DEF AtLeastOne, Right
    <2> HIDE DEF start, end, next, wide
    <2>5. Max({s.x, r.x + 1}) = IF next <= start + 1 THEN start + 1 ELSE next
      BY <2>2, <2>3, <2>4, MaxPair
    <2> QED
      BY <2>2, <2>3, <2>4, <2>5
  <1>6. Bottom(b) <= c.y => Bottom(r) <= Max({s.y, r.y + 1})
    <2> SUFFICES ASSUME Bottom(b) <= c.y PROVE Bottom(r) <= Max({s.y, r.y + 1})
      OBVIOUS
    <2> DEFINE start == Start(top - root.y, root.height, cv.rows, rows)
               end == End(bottom - root.y, root.height, cv.rows, rows)
               next == Start(north - root.y, root.height, cv.rows, rows)
               tall == Max({end - start, 1})
    <2>1. /\ top - root.y \in Nat /\ bottom - root.y \in Int /\ north - root.y \in Nat
          /\ bottom - root.y <= north - root.y /\ north - root.y < root.height
      BY <1>1, <1>3, <1>4
    <2>2. /\ start \in Nat /\ end \in Int /\ tall \in Nat \ {0}
          /\ start + tall = start + 1 \/ start + tall <= end
      <3>1. root.height \in Nat /\ cv.rows \in Nat \ {0} /\ rows \in Scales
        BY <1>1, <1>2
      <3> QED
        BY <2>1, <3>1, StartAndEndWithin
    <2>3. next \in Nat /\ end <= next
      BY <1>1, <1>2, <2>1, StartAndEndWithin, EndBeforeStart
    <2>4. r.y = start /\ Bottom(r) = start + tall /\ s.y = next
      BY <1>3, <1>4 DEF AtLeastOne, Bottom
    <2> HIDE DEF start, end, next, tall
    <2>5. Max({s.y, r.y + 1}) = IF next <= start + 1 THEN start + 1 ELSE next
      BY <2>2, <2>3, <2>4, MaxPair
    <2> QED
      BY <2>2, <2>3, <2>4, <2>5
  <1> QED
    BY <1>5, <1>6 DEF r, s

-------------------------------------------------------------------------------
(* The widths of the columns of a table.                                       *)

\* Some of finitely many entries have the largest measure.
LEMMA LargestOf ==
    ASSUME NEW n \in Nat, NEW entries, entries \subseteq 1..n, entries # {}, NEW measure,
           \A k \in entries : measure[k] \in Int
    PROVE  /\ \E k \in entries : \A j \in entries : measure[j] <= measure[k]
           /\ LastLargest(entries, measure) \in entries
  <1> DEFINE Has1(S) == \E k \in S : \A j \in S : measure[j] <= measure[k]
             T == {m \in Nat : \A S \in SUBSET entries : S \subseteq 1..m /\ S # {} => Has1(S)}
  <1>1. 0 \in T
    <2>1. 1..0 = {} /\ 0 \in Nat
      OBVIOUS
    <2> QED
      BY <2>1
  <1>2. ASSUME NEW m \in T PROVE m + 1 \in T
    <2> SUFFICES ASSUME NEW S \in SUBSET entries, S \subseteq 1..m + 1, S # {} PROVE Has1(S)
      OBVIOUS
    <2>1. m \in Nat /\ S \ {m + 1} \subseteq 1..m
      OBVIOUS
    <2>2. CASE m + 1 \notin S
      BY <2>1, <2>2
    <2>3. CASE S = {m + 1}
      BY <2>3
    <2>4. CASE m + 1 \in S /\ S # {m + 1}
      <3>1. Has1(S \ {m + 1})
        BY <2>1, <2>4
      <3>2. PICK k \in S \ {m + 1} : \A j \in S \ {m + 1} : measure[j] <= measure[k]
        BY <3>1
      <3>3. \A j \in S : measure[j] \in Int
        OBVIOUS
      <3>4. CASE measure[m + 1] <= measure[k]
        BY <3>2, <3>4
      <3>5. CASE ~(measure[m + 1] <= measure[k])
        BY <2>4, <3>2, <3>3, <3>5
      <3> QED
        BY <3>4, <3>5
    <2> QED
      BY <2>2, <2>3, <2>4
  <1>3. T = Nat
    <2>1. T \subseteq Nat
      OBVIOUS
    <2> HIDE DEF T
    <2> QED
      BY <1>1, <1>2, <2>1, NaturalsClosed
  <1>4. Has1(entries)
    BY <1>3
  <1> DEFINE best == {k \in entries : \A j \in entries : measure[j] <= measure[k]}
  <1>5. best # {} /\ best \subseteq entries /\ best \subseteq 0..n
    <2>1. best # {} /\ best \subseteq entries
      BY <1>4
    <2>2. entries \subseteq 0..n
      OBVIOUS
    <2> HIDE DEF best
    <2> QED
      BY <2>1, <2>2
  <1>6. LastLargest(entries, measure) = Max(best)
    BY DEF LastLargest
  <1> HIDE DEF best
  <1>7. Max(best) \in best
    BY <1>5, EndsOf
  <1> QED
    BY <1>4, <1>5, <1>6, <1>7

LEMMA SumOfWidths ==
    ASSUME NEW widths \in Seq(Nat)
    PROVE  SumOf(widths) \in Nat
  <1> DEFINE n == Len(widths)
             step == [z \in Nat \X (1..n) |-> z[1] + widths[z[2]]]
             Folds(f) == f = [s \in SUBSET DOMAIN widths |->
                                 IF s = {} THEN 0 ELSE f[s \ {Max(s)}] + widths[Max(s)]]
             it == CHOOSE f : Folds(f)
  <1>1. n \in Nat /\ DOMAIN widths = 1..n
    BY LenProperties
  <1>2. 0 \in Nat /\ \A a \in Nat, k \in 1..n : a + widths[k] \in Nat
    BY <1>1, ElementOfSeq
  <1>3. step \in [Nat \X (1..n) -> Nat]
    BY <1>2
  <1>4. \A a \in Nat, k \in 1..n : step[<<a, k>>] = a + widths[k]
    OBVIOUS
  <1> HIDE DEF n, step
  <1>5. Folds(it)
    <2>1. PICK f : FoldsAlways(f, Nat, n, 0, step)
      BY <1>1, <1>2, <1>3, FoldExists
    <2>2. Folds(f)
      BY <1>1, <1>4, <2>1 DEF FoldsAlways
    <2> HIDE DEF Folds
    <2> QED
      BY <2>2
  <1>6. SumOf(widths) = it[1..n]
    BY <1>1 DEF SumOf, FoldLeft, MapThenFoldSet
  <1> HIDE DEF it
  <1>7. FoldsWithin(it, Nat, n, 0, step)
    BY <1>1, <1>4, <1>5 DEF FoldsWithin
  <1>8. it[1..n] \in Nat
    BY <1>1, <1>2, <1>3, <1>7, FoldStaysIn
  <1> QED
    BY <1>6, <1>8

\* n columns, each at least one column of the canvas wide.
Widths(n) == [1..n -> Nat \ {0}]

LEMMA WidthsOf ==
    ASSUME NEW n \in Nat, NEW w \in Widths(n)
    PROVE  /\ w \in Seq(Nat) /\ Len(w) = n /\ DOMAIN w = 1..n /\ SumOf(w) \in Nat
           /\ \A k \in 1..n : w[k] \in Nat \ {0}
  <1>1. w \in [1..n -> Nat] /\ \A k \in 1..n : w[k] \in Nat \ {0}
    BY DEF Widths
  <1>2. w \in Seq(Nat) /\ Len(w) = n
    BY <1>1, SeqDef, LenProperties
  <1> QED
    BY <1>1, <1>2, SumOfWidths

LEMMA ShrinkTurnKeeps ==
    ASSUME NEW n \in Nat, NEW w \in Widths(n), NEW total \in Nat
    PROVE  ShrinkTurn(w, total) \in Widths(n)
  <1> DEFINE wide == {k \in DOMAIN w : w[k] > 1}
             last == LastLargest(wide, w)
  <1>1. /\ DOMAIN w = 1..n /\ \A k \in 1..n : w[k] \in Nat \ {0}
        /\ w = [k \in 1..n |-> w[k]]
    BY WidthsOf DEF Widths
  <1>2. wide # {} => last \in wide
    <2> SUFFICES ASSUME wide # {} PROVE last \in wide
      OBVIOUS
    <2>1. wide \subseteq 1..n /\ \A k \in wide : w[k] \in Int
      BY <1>1
    <2> HIDE DEF wide
    <2> QED
      BY <2>1, LargestOf
  <1>3. ShrinkTurn(w, total)
        = IF SumOf(w) <= total \/ wide = {} THEN w ELSE [w EXCEPT ![last] = @ - 1]
    BY DEF ShrinkTurn
  <1>4. wide # {} => last \in 1..n /\ w[last] > 1 /\ w[last] - 1 \in Nat \ {0}
    BY <1>1, <1>2
  <1> HIDE DEF last, wide
  <1>5. wide # {} => [w EXCEPT ![last] = @ - 1] \in Widths(n)
    BY <1>1, <1>4 DEF Widths
  <1> QED
    BY <1>3, <1>5

LEMMA GrowTurnKeeps ==
    ASSUME NEW n \in Nat, NEW w \in Widths(n), NEW total \in Nat, NEW preferred
    PROVE  GrowTurn(w, preferred, total) \in Widths(n)
  <1> DEFINE short == {k \in DOMAIN w : w[k] < preferred[k]}
             most == LastLargest(short, [k \in short |-> preferred[k] - w[k]])
             sum == SumOf(w)
             length == Len(w)
  <1>1. /\ DOMAIN w = 1..n /\ \A k \in 1..n : w[k] \in Nat \ {0}
        /\ w = [k \in 1..n |-> w[k]] /\ sum \in Nat
    BY WidthsOf DEF Widths
  <1>2. GrowTurn(w, preferred, total)
        = IF sum >= total THEN w
          ELSE IF short = {} THEN [w EXCEPT ![length] = @ + total - sum]
          ELSE [w EXCEPT ![most] = @ + 1]
    BY DEF GrowTurn
  <1> HIDE DEF short, most, sum, length
  <1>3. \A k \in 1..n : w[k] + 1 \in Nat \ {0}
    BY <1>1
  <1>4. ~(sum >= total) => \A k \in 1..n : w[k] + total - sum \in Nat \ {0}
    BY <1>1
  <1>5. [w EXCEPT ![most] = @ + 1] \in Widths(n)
    BY <1>1, <1>3 DEF Widths
  <1>6. ~(sum >= total) => [w EXCEPT ![length] = @ + total - sum] \in Widths(n)
    BY <1>1, <1>4 DEF Widths
  <1> QED
    BY <1>2, <1>5, <1>6

\* What the turns are runs of.
LEMMA ShrunkRuns ==
    ASSUME NEW n \in Nat, NEW widths \in Widths(n), NEW total \in Nat
    PROVE  \E after \in [Nat -> Widths(n)] :
              /\ after[0] = widths /\ \A k \in Nat : after[k + 1] = ShrinkTurn(after[k], total)
              /\ Shrunk(widths, total) = after[SumOf(widths)]
  <1> DEFINE step == [w \in Widths(n) |-> ShrinkTurn(w, total)]
             Runs(f) == f = [k \in Nat |->
                                IF k = 0 THEN widths ELSE ShrinkTurn(f[k - 1], total)]
             after == CHOOSE f : Runs(f)
             T == {k \in Nat : after[k] \in Widths(n)}
  <1>1. step \in [Widths(n) -> Widths(n)]
    BY ShrinkTurnKeeps
  <1>2. Runs(after)
    <2>1. PICK f \in [Nat -> Widths(n)] : Iterates(f, widths, step)
      BY <1>1, IterationDefined
    <2>2. \A k \in Nat \ {0} : f[k - 1] \in Widths(n)
      OBVIOUS
    <2>3. Runs(f)
      BY <2>1, <2>2 DEF Iterates
    <2> HIDE DEF Runs
    <2> QED
      BY <2>3
  <1>3. Shrunk(widths, total) = after[SumOf(widths)]
    BY DEF Shrunk
  <1> HIDE DEF after
  <1>4. after[0] = widths /\ \A k \in Nat : after[k + 1] = ShrinkTurn(after[k], total)
    <2>1. \A k \in Nat : k + 1 \in Nat /\ k + 1 # 0 /\ (k + 1) - 1 = k
      OBVIOUS
    <2> QED
      BY <1>2, <2>1
  <1>5. T = Nat
    <2>1. T \subseteq Nat /\ 0 \in T
      BY <1>4
    <2>2. ASSUME NEW k \in T PROVE k + 1 \in T
      <3>1. k \in Nat /\ k + 1 \in Nat /\ after[k] \in Widths(n)
        OBVIOUS
      <3>2. ShrinkTurn(after[k], total) \in Widths(n)
        BY <3>1, ShrinkTurnKeeps
      <3> QED
        BY <1>4, <3>1, <3>2
    <2> HIDE DEF T
    <2> QED
      BY <2>1, <2>2, NaturalsClosed
  <1>6. after \in [Nat -> Widths(n)]
    <2>1. \A k \in Nat : after[k] \in Widths(n)
      BY <1>5
    <2>2. DOMAIN after = Nat /\ after = [k \in Nat |-> after[k]]
      BY <1>2
    <2> QED
      BY <2>1, <2>2
  <1> QED
    BY <1>3, <1>4, <1>6

LEMMA GrownRuns ==
    ASSUME NEW n \in Nat, NEW widths \in Widths(n), NEW total \in Nat, NEW preferred
    PROVE  \E after \in [Nat -> Widths(n)] :
              /\ after[0] = widths
              /\ \A k \in Nat : after[k + 1] = GrowTurn(after[k], preferred, total)
              /\ Grown(widths, preferred, total) = after[total]
  <1> DEFINE step == [w \in Widths(n) |-> GrowTurn(w, preferred, total)]
             Runs(f) == f = [k \in Nat |->
                                IF k = 0 THEN widths
                                ELSE GrowTurn(f[k - 1], preferred, total)]
             after == CHOOSE f : Runs(f)
             T == {k \in Nat : after[k] \in Widths(n)}
  <1>1. step \in [Widths(n) -> Widths(n)]
    BY GrowTurnKeeps
  <1>2. Runs(after)
    <2>1. PICK f \in [Nat -> Widths(n)] : Iterates(f, widths, step)
      BY <1>1, IterationDefined
    <2>2. \A k \in Nat \ {0} : f[k - 1] \in Widths(n)
      OBVIOUS
    <2>3. Runs(f)
      BY <2>1, <2>2 DEF Iterates
    <2> HIDE DEF Runs
    <2> QED
      BY <2>3
  <1>3. Grown(widths, preferred, total) = after[total]
    BY DEF Grown
  <1> HIDE DEF after
  <1>4. after[0] = widths /\ \A k \in Nat : after[k + 1] = GrowTurn(after[k], preferred, total)
    <2>1. \A k \in Nat : k + 1 \in Nat /\ k + 1 # 0 /\ (k + 1) - 1 = k
      OBVIOUS
    <2> QED
      BY <1>2, <2>1
  <1>5. T = Nat
    <2>1. T \subseteq Nat /\ 0 \in T
      BY <1>4
    <2>2. ASSUME NEW k \in T PROVE k + 1 \in T
      <3>1. k \in Nat /\ k + 1 \in Nat /\ after[k] \in Widths(n)
        OBVIOUS
      <3>2. GrowTurn(after[k], preferred, total) \in Widths(n)
        BY <3>1, GrowTurnKeeps
      <3> QED
        BY <1>4, <3>1, <3>2
    <2> HIDE DEF T
    <2> QED
      BY <2>1, <2>2, NaturalsClosed
  <1>6. after \in [Nat -> Widths(n)]
    <2>1. \A k \in Nat : after[k] \in Widths(n)
      BY <1>5
    <2>2. DOMAIN after = Nat /\ after = [k \in Nat |-> after[k]]
      BY <1>2
    <2> QED
      BY <2>1, <2>2
  <1> QED
    BY <1>3, <1>4, <1>6

LEMMA ShrunkKeeps ==
    ASSUME NEW n \in Nat, NEW widths \in Widths(n), NEW total \in Nat
    PROVE  Shrunk(widths, total) \in Widths(n)
  <1>1. PICK after \in [Nat -> Widths(n)] :
            /\ after[0] = widths /\ \A k \in Nat : after[k + 1] = ShrinkTurn(after[k], total)
            /\ Shrunk(widths, total) = after[SumOf(widths)]
    BY ShrunkRuns
  <1> QED
    BY <1>1, WidthsOf

LEMMA GrownKeeps ==
    ASSUME NEW n \in Nat, NEW widths \in Widths(n), NEW total \in Nat, NEW preferred
    PROVE  Grown(widths, preferred, total) \in Widths(n)
  <1>1. PICK after \in [Nat -> Widths(n)] : Grown(widths, preferred, total) = after[total]
    BY GrownRuns
  <1> QED
    BY <1>1

LEMMA AllocatedKeeps ==
    ASSUME NEW n \in Nat, NEW minimum \in Widths(n), NEW total \in Nat, NEW preferred
    PROVE  allocate_table_widths(preferred, minimum, total) \in Widths(n)
  <1>1. Grown(Shrunk(minimum, total), preferred, total) \in Widths(n)
    BY ShrunkKeeps, GrownKeeps
  <1> QED
    BY <1>1 DEF allocate_table_widths

-------------------------------------------------------------------------------
(* What widths add up to, from the left.                                       *)

Adds(g, w) == g[0] = 0 /\ \A k \in 1..Len(w) : g[k - 1] \in Nat /\ g[k] = g[k - 1] + w[k]

LEMMA SumIs ==
    ASSUME NEW w \in Seq(Nat), NEW g, Adds(g, w)
    PROVE  SumOf(w) = g[Len(w)] /\ \A k \in 0..Len(w) : g[k] \in Nat
  <1> DEFINE n == Len(w)
             step == [z \in Nat \X (1..n) |-> z[1] + w[z[2]]]
             Folds(f) == f = [s \in SUBSET DOMAIN w |->
                                 IF s = {} THEN 0 ELSE f[s \ {Max(s)}] + w[Max(s)]]
             it == CHOOSE f : Folds(f)
             T == {k \in Nat : k <= n => it[1..k] = g[k] /\ g[k] \in Nat}
  <1>1. n \in Nat /\ DOMAIN w = 1..n
    BY LenProperties
  <1>2. 0 \in Nat /\ \A a \in Nat, k \in 1..n : a + w[k] \in Nat
    BY <1>1, ElementOfSeq
  <1>3. step \in [Nat \X (1..n) -> Nat]
    BY <1>2
  <1>4. \A a \in Nat, k \in 1..n : step[<<a, k>>] = a + w[k]
    OBVIOUS
  <1>11. g[0] = 0 /\ \A k \in 1..n : g[k - 1] \in Nat /\ g[k] = g[k - 1] + w[k]
    BY DEF Adds
  <1>6. SumOf(w) = it[1..n]
    BY <1>1 DEF SumOf, FoldLeft, MapThenFoldSet
  <1> HIDE DEF n, step
  <1>5. Folds(it)
    <2>1. PICK f : FoldsAlways(f, Nat, n, 0, step)
      BY <1>1, <1>2, <1>3, FoldExists
    <2>2. Folds(f)
      BY <1>1, <1>4, <2>1 DEF FoldsAlways
    <2> HIDE DEF Folds
    <2> QED
      BY <2>2
  <1> HIDE DEF it
  <1>7. 0 \in T
    <2>1. 1..0 = {} /\ {} \in SUBSET DOMAIN w /\ 0 \in Nat
      OBVIOUS
    <2>2. it[{}] = 0
      BY <1>5, <2>1
    <2>3. it[1..0] = g[0] /\ g[0] \in Nat
      BY <1>11, <2>1, <2>2
    <2> QED
      BY <2>1, <2>3
  <1>8. ASSUME NEW k \in T PROVE k + 1 \in T
    <2>1. k \in Nat /\ k + 1 \in Nat
      OBVIOUS
    <2> SUFFICES ASSUME k + 1 <= n PROVE it[1..k + 1] = g[k + 1] /\ g[k + 1] \in Nat
      BY <2>1
    <2>2. it[1..k] = g[k] /\ g[k] \in Nat
      <3>1. k <= n
        BY <1>1, <2>1
      <3> QED
        BY <3>1
    <2>3. 1..k + 1 # {} /\ Max(1..k + 1) = k + 1 /\ (1..k + 1) \ {k + 1} = 1..k
      BY <2>1, TopOfInterval
    <2>4. 1..k + 1 \in SUBSET DOMAIN w /\ k + 1 \in 1..n /\ k + 1 - 1 = k
      BY <1>1, <2>1
    <2>5. it[1..k + 1] = it[1..k] + w[k + 1]
      BY <1>5, <2>3, <2>4
    <2>6. g[k + 1] = g[k] + w[k + 1]
      BY <1>11, <2>4
    <2> QED
      BY <1>2, <2>2, <2>4, <2>5, <2>6
  <1>9. T = Nat
    <2>1. T \subseteq Nat
      OBVIOUS
    <2> HIDE DEF T
    <2> QED
      BY <1>7, <1>8, <2>1, NaturalsClosed
  <1>10. it[1..n] = g[n] /\ \A k \in 0..n : g[k] \in Nat
    <2>1. n \in T /\ \A k \in 0..n : k \in T
      BY <1>1, <1>9
    <2>2. n <= n /\ \A k \in 0..n : k <= n
      BY <1>1
    <2> QED
      BY <2>1, <2>2
  <1> QED
    BY <1>6, <1>10 DEF n

LEMMA SumsExist ==
    ASSUME NEW w \in Seq(Nat)
    PROVE  \E g : Adds(g, w)
  <1> DEFINE n == Len(w)
             step == [z \in Nat \X (1..n) |-> z[1] + w[z[2]]]
  <1>1. n \in Nat /\ DOMAIN w = 1..n
    BY LenProperties
  <1>2. 0 \in Nat /\ \A a \in Nat, k \in 1..n : a + w[k] \in Nat
    BY <1>1, ElementOfSeq
  <1>3. step \in [Nat \X (1..n) -> Nat]
    BY <1>2
  <1>4. \A a \in Nat, k \in 1..n : step[<<a, k>>] = a + w[k]
    OBVIOUS
  <1> HIDE DEF step
  <1>5. PICK f : FoldsAlways(f, Nat, n, 0, step)
    BY <1>1, <1>2, <1>3, FoldExists
  <1> DEFINE g == [k \in 0..n |-> f[1..k]]
  <1>6. g[0] = 0
    <2>1. 1..0 = {}
      OBVIOUS
    <2> QED
      BY <1>1, <1>5, <2>1 DEF FoldsAlways
  <1>7. ASSUME NEW k \in 1..n PROVE g[k - 1] \in Nat /\ g[k] = g[k - 1] + w[k]
    <2>1. k - 1 \in Nat /\ k - 1 + 1 = k /\ k \in 0..n /\ k - 1 \in 0..n /\ k \in Nat
      BY <1>1
    <2>2. 1..k # {} /\ Max(1..k) = k /\ (1..k) \ {k} = 1..k - 1
      BY <2>1, TopOfInterval
    <2>3. 1..k \in SUBSET (1..n) /\ 1..k - 1 \in SUBSET (1..n)
      BY <1>1, <2>1
    <2>4. f[1..k - 1] \in Nat
      BY <1>5, <2>3 DEF FoldsAlways
    <2>5. f[1..k] = step[<<f[1..k - 1], k>>]
      BY <1>5, <2>2, <2>3 DEF FoldsAlways
    <2> QED
      BY <1>4, <2>1, <2>4, <2>5
  <1> QED
    BY <1>6, <1>7 DEF Adds

\* The sum of the first columns, and of columns one of which changes.
LEMMA SumOfFirst ==
    ASSUME NEW w \in Seq(Nat), NEW g, Adds(g, w), NEW m \in 0..Len(w)
    PROVE  SumOf(SubSeq(w, 1, m)) = g[m]
  <1> DEFINE v == SubSeq(w, 1, m)
  <1>1. Len(w) \in Nat /\ m \in Nat /\ m <= Len(w)
    BY LenProperties
  <1>2. v \in Seq(Nat) /\ Len(v) = m /\ \A k \in 1..m : v[k] = w[k]
    BY <1>1, SubSeqProperties
  <1> HIDE DEF v
  <1>3. \A k \in 1..m : k \in 1..Len(w)
    BY <1>1
  <1>4. Adds(g, v)
    BY <1>2, <1>3 DEF Adds
  <1> QED
    BY <1>2, <1>4, SumIs DEF v

LEMMA SumOfChanged ==
    ASSUME NEW n \in Nat, NEW w \in Widths(n), NEW j \in 1..n, NEW x \in Nat \ {0}
    PROVE  /\ [w EXCEPT ![j] = x] \in Widths(n)
           /\ SumOf([w EXCEPT ![j] = x]) = SumOf(w) - w[j] + x
  <1> DEFINE v == [w EXCEPT ![j] = x]
  <1>1. /\ w \in Seq(Nat) /\ Len(w) = n /\ \A k \in 1..n : w[k] \in Nat \ {0}
        /\ w \in [1..n -> Nat \ {0}]
    BY WidthsOf DEF Widths
  <1>2. v \in Widths(n) /\ \A k \in 1..n : v[k] = IF k = j THEN x ELSE w[k]
    BY <1>1 DEF Widths
  <1> HIDE DEF v
  <1>3. v \in Seq(Nat) /\ Len(v) = n
    BY <1>2, WidthsOf
  <1>4. PICK g : Adds(g, w)
    BY <1>1, SumsExist
  <1>5. SumOf(w) = g[n] /\ \A k \in 0..n : g[k] \in Nat
    BY <1>1, <1>4, SumIs
  <1>6. g[0] = 0 /\ \A k \in 1..n : g[k] = g[k - 1] + w[k]
    BY <1>1, <1>4 DEF Adds
  <1> DEFINE h == [k \in 0..n |-> IF k < j THEN g[k] ELSE g[k] - w[j] + x]
  <1>7. h[0] = 0
    BY <1>6
  <1>8. ASSUME NEW k \in 1..n PROVE h[k - 1] \in Int /\ h[k] = h[k - 1] + v[k]
    <2>1. k \in 0..n /\ k - 1 \in 0..n /\ w[j] \in Nat /\ w[k] \in Nat
      BY <1>1
    <2>2. g[k - 1] \in Nat /\ g[k] \in Nat /\ g[k] = g[k - 1] + w[k]
      BY <1>5, <1>6, <2>1
    <2>3. /\ h[k - 1] = IF k - 1 < j THEN g[k - 1] ELSE g[k - 1] - w[j] + x
          /\ h[k] = IF k < j THEN g[k] ELSE g[k] - w[j] + x
      BY <2>1
    <2>4. v[k] = IF k = j THEN x ELSE w[k]
      BY <1>2
    <2> HIDE DEF h
    <2> QED
      BY <2>1, <2>2, <2>3, <2>4
  <1>9. h[n] = g[n] - w[j] + x
    BY <1>1
  <1> HIDE DEF h
  <1> DEFINE T == {k \in Nat : k <= n => h[k] \in Nat}
  <1>10. 0 \in T
    BY <1>7
  <1>11. ASSUME NEW k \in T PROVE k + 1 \in T
    <2>1. k \in Nat /\ k + 1 \in Nat
      OBVIOUS
    <2> SUFFICES ASSUME k + 1 <= n PROVE h[k + 1] \in Nat
      BY <2>1
    <2>2. h[k] \in Nat /\ k + 1 \in 1..n /\ k + 1 - 1 = k
      BY <2>1
    <2>3. h[k + 1] = h[k] + v[k + 1]
      BY <1>8, <2>2
    <2>4. v[k + 1] \in Nat
      BY <1>2, <2>2, WidthsOf
    <2> QED
      BY <2>2, <2>3, <2>4
  <1>12. T = Nat
    <2>1. T \subseteq Nat
      OBVIOUS
    <2> HIDE DEF T
    <2> QED
      BY <1>10, <1>11, <2>1, NaturalsClosed
  <1>13. \A k \in 1..n : h[k - 1] \in Nat
    <2>1. \A k \in 1..n : k - 1 \in Nat /\ k - 1 <= n
      OBVIOUS
    <2>2. \A m \in Nat : m <= n => h[m] \in Nat
      BY <1>12
    <2> QED
      BY <2>1, <2>2
  <1>14. Adds(h, v)
    BY <1>3, <1>7, <1>8, <1>13 DEF Adds
  <1>15. SumOf(v) = h[n]
    BY <1>3, <1>14, SumIs
  <1> QED
    BY <1>2, <1>5, <1>9, <1>15 DEF v

\* Each column counts for one at least, and what comes later lies further right.
LEMMA SumsGrow ==
    ASSUME NEW n \in Nat, NEW w \in Widths(n), NEW g, Adds(g, w)
    PROVE  /\ \A a, b \in 0..n : a <= b => g[a] <= g[b]
           /\ g[n] >= n /\ ((\A k \in 1..n : w[k] = 1) => g[n] = n)
  <1>1. /\ w \in Seq(Nat) /\ Len(w) = n /\ \A k \in 1..n : w[k] \in Nat \ {0}
    BY WidthsOf
  <1>2. \A k \in 0..n : g[k] \in Nat
    BY <1>1, SumIs
  <1>3. g[0] = 0 /\ \A k \in 1..n : g[k] = g[k - 1] + w[k]
    BY <1>1 DEF Adds
  <1>4. ASSUME NEW k \in Nat, k + 1 <= n
        PROVE  /\ k \in 0..n /\ k + 1 \in 0..n /\ g[k] \in Nat
               /\ w[k + 1] \in Nat \ {0} /\ g[k + 1] = g[k] + w[k + 1]
    <2>1. k \in 0..n /\ k + 1 \in 0..n /\ k + 1 \in 1..n /\ k + 1 - 1 = k
      BY <1>4
    <2> QED
      BY <1>1, <1>2, <1>3, <2>1
  <1> DEFINE T == {k \in Nat : k <= n =>
                      /\ g[k] >= k /\ ((\A m \in 1..n : w[m] = 1) => g[k] = k)
                      /\ \A a \in 0..k : g[a] <= g[k]}
  <1>5. 0 \in T
    BY <1>3
  <1>6. ASSUME NEW k \in T PROVE k + 1 \in T
    <2>1. k \in Nat /\ k + 1 \in Nat
      OBVIOUS
    <2> SUFFICES ASSUME k + 1 <= n
                 PROVE  /\ g[k + 1] >= k + 1
                        /\ (\A m \in 1..n : w[m] = 1) => g[k + 1] = k + 1
                        /\ \A a \in 0..k + 1 : g[a] <= g[k + 1]
      BY <2>1
    <2>2. /\ g[k] >= k /\ ((\A m \in 1..n : w[m] = 1) => g[k] = k)
          /\ \A a \in 0..k : g[a] <= g[k]
      BY <2>1
    <2>3. /\ k \in 0..n /\ k + 1 \in 0..n /\ g[k] \in Nat
          /\ w[k + 1] \in Nat \ {0} /\ g[k + 1] = g[k] + w[k + 1]
      BY <1>4, <2>1
    <2>4. g[k + 1] >= k + 1 /\ g[k] <= g[k + 1] /\ g[k + 1] \in Nat
      BY <2>1, <2>2, <2>3
    <2>5. (\A m \in 1..n : w[m] = 1) => g[k + 1] = k + 1
      <3>1. k + 1 \in 1..n
        BY <2>1
      <3> QED
        BY <2>2, <2>3, <3>1
    <2>6. ASSUME NEW a \in 0..k + 1 PROVE g[a] <= g[k + 1]
      <3>1. CASE a = k + 1
        BY <2>4, <3>1
      <3>2. CASE a # k + 1
        <4>1. a \in 0..k /\ a \in 0..n
          BY <2>1, <3>2
        <4>2. g[a] <= g[k] /\ g[a] \in Nat
          BY <1>2, <2>2, <4>1
        <4> QED
          BY <2>3, <2>4, <4>2
      <3> QED
        BY <3>1, <3>2
    <2> QED
      BY <2>4, <2>5, <2>6
  <1>7. T = Nat
    <2>1. T \subseteq Nat
      OBVIOUS
    <2> HIDE DEF T
    <2> QED
      BY <1>5, <1>6, <2>1, NaturalsClosed
  <1>8. \A k \in Nat : k <= n =>
            /\ g[k] >= k /\ ((\A m \in 1..n : w[m] = 1) => g[k] = k)
            /\ \A a \in 0..k : g[a] <= g[k]
    BY <1>7
  <1>9. \A a, b \in 0..n : a <= b => b \in Nat /\ b <= n /\ a \in 0..b
    OBVIOUS
  <1> HIDE DEF T
  <1>10. n <= n
    OBVIOUS
  <1> QED
    BY <1>8, <1>9, <1>10

\* The loops end when the columns fit or are one column wide each, and when they
\* take up what there is.
Settled(w, total) == SumOf(w) <= total \/ \A k \in DOMAIN w : w[k] = 1

LEMMA ShrinkTurnSum ==
    ASSUME NEW n \in Nat, NEW w \in Widths(n), NEW total \in Nat
    PROVE  IF Settled(w, total) THEN ShrinkTurn(w, total) = w
           ELSE SumOf(ShrinkTurn(w, total)) = SumOf(w) - 1
  <1> DEFINE wide == {k \in DOMAIN w : w[k] > 1}
             last == LastLargest(wide, w)
  <1>1. /\ DOMAIN w = 1..n /\ \A k \in 1..n : w[k] \in Nat \ {0}
        /\ SumOf(w) \in Nat
    BY WidthsOf
  <1>2. wide = {} <=> \A k \in DOMAIN w : w[k] = 1
    BY <1>1
  <1>3. ShrinkTurn(w, total)
        = IF SumOf(w) <= total \/ wide = {} THEN w ELSE [w EXCEPT ![last] = @ - 1]
    BY DEF ShrinkTurn
  <1>4. wide # {} => last \in wide
    <2> SUFFICES ASSUME wide # {} PROVE last \in wide
      OBVIOUS
    <2>1. wide \subseteq 1..n /\ \A k \in wide : w[k] \in Int
      BY <1>1
    <2> HIDE DEF wide
    <2> QED
      BY <2>1, LargestOf
  <1>5. wide # {} => last \in 1..n /\ w[last] > 1 /\ w[last] - 1 \in Nat \ {0}
    BY <1>1, <1>4
  <1> HIDE DEF wide, last
  <1>6. ASSUME wide # {} PROVE SumOf([w EXCEPT ![last] = @ - 1]) = SumOf(w) - 1
    <2> DEFINE x == w[last] - 1
    <2>1. x \in Nat \ {0} /\ last \in 1..n /\ w[last] \in Nat
      BY <1>1, <1>5, <1>6
    <2>2. [w EXCEPT ![last] = @ - 1] = [w EXCEPT ![last] = x]
      BY <1>1, <2>1
    <2> HIDE DEF x
    <2>3. SumOf([w EXCEPT ![last] = x]) = SumOf(w) - w[last] + x
      BY <2>1, SumOfChanged
    <2> QED
      BY <1>1, <2>1, <2>2, <2>3 DEF x
  <1> QED
    BY <1>2, <1>3, <1>6 DEF Settled

LEMMA GrowTurnSum ==
    ASSUME NEW n \in Nat \ {0}, NEW w \in Widths(n), NEW total \in Nat,
           NEW preferred, \A k \in 1..n : preferred[k] \in Int
    PROVE  IF SumOf(w) >= total THEN GrowTurn(w, preferred, total) = w
           ELSE SumOf(GrowTurn(w, preferred, total)) \in {SumOf(w) + 1, total}
  <1> DEFINE short == {k \in DOMAIN w : w[k] < preferred[k]}
             measure == [k \in short |-> preferred[k] - w[k]]
             most == LastLargest(short, measure)
  <1>1. /\ DOMAIN w = 1..n /\ \A k \in 1..n : w[k] \in Nat \ {0}
        /\ SumOf(w) \in Nat /\ Len(w) = n
    BY WidthsOf
  <1>2. GrowTurn(w, preferred, total)
        = IF SumOf(w) >= total THEN w
          ELSE IF short = {} THEN [w EXCEPT ![Len(w)] = @ + total - SumOf(w)]
          ELSE [w EXCEPT ![most] = @ + 1]
    BY DEF GrowTurn
  <1>3. short # {} => most \in 1..n
    <2> SUFFICES ASSUME short # {} PROVE most \in 1..n
      OBVIOUS
    <2>1. short \subseteq 1..n /\ \A k \in short : measure[k] \in Int
      BY <1>1
    <2> HIDE DEF short, measure
    <2> QED
      BY <2>1, LargestOf
  <1> HIDE DEF short, most
  <1>4. ASSUME ~(SumOf(w) >= total)
        PROVE  SumOf([w EXCEPT ![Len(w)] = @ + total - SumOf(w)]) = total
    <2> DEFINE x == w[n] + total - SumOf(w)
    <2>1. x \in Nat \ {0} /\ n \in 1..n /\ w[n] \in Nat
      BY <1>1, <1>4
    <2>2. [w EXCEPT ![Len(w)] = @ + total - SumOf(w)] = [w EXCEPT ![n] = x]
      BY <1>1, <2>1
    <2> HIDE DEF x
    <2>3. SumOf([w EXCEPT ![n] = x]) = SumOf(w) - w[n] + x
      BY <2>1, SumOfChanged
    <2> QED
      BY <1>1, <2>1, <2>2, <2>3 DEF x
  <1>5. ASSUME short # {} PROVE SumOf([w EXCEPT ![most] = @ + 1]) = SumOf(w) + 1
    <2> DEFINE x == w[most] + 1
    <2>1. x \in Nat \ {0} /\ most \in 1..n /\ w[most] \in Nat
      BY <1>1, <1>3, <1>5
    <2>2. [w EXCEPT ![most] = @ + 1] = [w EXCEPT ![most] = x]
      BY <1>1, <2>1
    <2> HIDE DEF x
    <2>3. SumOf([w EXCEPT ![most] = x]) = SumOf(w) - w[most] + x
      BY <2>1, SumOfChanged
    <2> QED
      BY <1>1, <2>1, <2>2, <2>3 DEF x
  <1> QED
    BY <1>2, <1>4, <1>5

LEMMA ShrunkSettles ==
    ASSUME NEW n \in Nat, NEW widths \in Widths(n), NEW total \in Nat
    PROVE  Settled(Shrunk(widths, total), total)
  <1>1. PICK after \in [Nat -> Widths(n)] :
            /\ after[0] = widths /\ \A k \in Nat : after[k + 1] = ShrinkTurn(after[k], total)
            /\ Shrunk(widths, total) = after[SumOf(widths)]
    BY ShrunkRuns
  <1> DEFINE Left(k) == SumOf(after[k])
             T == {k \in Nat : Settled(after[k], total) \/ Left(k) = SumOf(widths) - k}
  <1>2. \A k \in Nat : Left(k) \in Nat /\ after[k] \in Widths(n)
    BY WidthsOf
  <1>3. SumOf(widths) \in Nat
    BY WidthsOf
  <1>4. 0 \in T
    BY <1>1, <1>3
  <1>5. ASSUME NEW k \in T PROVE k + 1 \in T
    <2>1. k \in Nat /\ k + 1 \in Nat /\ after[k] \in Widths(n)
      OBVIOUS
    <2>2. after[k + 1] = ShrinkTurn(after[k], total)
      BY <1>1, <2>1
    <2>3. CASE Settled(after[k], total)
      <3>1. after[k + 1] = after[k]
        BY <2>1, <2>2, <2>3, ShrinkTurnSum
      <3> QED
        BY <2>1, <2>3, <3>1
    <2>4. CASE ~Settled(after[k], total)
      <3>1. Left(k) = SumOf(widths) - k
        BY <2>4
      <3>2. Left(k + 1) = Left(k) - 1
        BY <2>1, <2>2, <2>4, ShrinkTurnSum
      <3>3. Left(k + 1) = SumOf(widths) - (k + 1)
        BY <1>3, <2>1, <3>1, <3>2
      <3> QED
        BY <2>1, <3>3
    <2> QED
      BY <2>3, <2>4
  <1>6. T = Nat
    <2>1. T \subseteq Nat
      OBVIOUS
    <2> HIDE DEF T
    <2> QED
      BY <1>4, <1>5, <2>1, NaturalsClosed
  <1> DEFINE m == SumOf(widths)
  <1>7. Settled(after[m], total) \/ Left(m) = m - m
    BY <1>3, <1>6
  <1>8. Left(m) = m - m => Settled(after[m], total)
    <2>1. Left(m) = m - m => Left(m) <= total
      BY <1>3
    <2> QED
      BY <2>1 DEF Settled
  <1> QED
    BY <1>1, <1>7, <1>8

LEMMA GrownFills ==
    ASSUME NEW n \in Nat \ {0}, NEW widths \in Widths(n), NEW total \in Nat,
           NEW preferred, \A k \in 1..n : preferred[k] \in Int
    PROVE  SumOf(Grown(widths, preferred, total))
           = IF SumOf(widths) >= total THEN SumOf(widths) ELSE total
  <1>1. PICK after \in [Nat -> Widths(n)] :
            /\ after[0] = widths
            /\ \A k \in Nat : after[k + 1] = GrowTurn(after[k], preferred, total)
            /\ Grown(widths, preferred, total) = after[total]
    BY GrownRuns
  <1> DEFINE Got(k) == SumOf(after[k])
             T == {k \in Nat : IF SumOf(widths) >= total THEN Got(k) = SumOf(widths)
                               ELSE Got(k) = total \/ (Got(k) >= k /\ Got(k) < total)}
  <1>2. SumOf(widths) \in Nat
    BY WidthsOf
  <1>3. 0 \in T
    BY <1>1, <1>2
  <1>4. ASSUME NEW k \in T PROVE k + 1 \in T
    <2>1. k \in Nat /\ k + 1 \in Nat /\ after[k] \in Widths(n)
      OBVIOUS
    <2>2. after[k + 1] = GrowTurn(after[k], preferred, total)
      BY <1>1, <2>1
    <2>3. /\ Got(k) \in Nat
          /\ IF Got(k) >= total THEN Got(k + 1) = Got(k)
             ELSE Got(k + 1) \in {Got(k) + 1, total}
      BY <2>1, <2>2, GrowTurnSum, WidthsOf
    <2>4. IF SumOf(widths) >= total THEN Got(k) = SumOf(widths)
          ELSE Got(k) = total \/ (Got(k) >= k /\ Got(k) < total)
      OBVIOUS
    <2> HIDE DEF Got
    <2>5. IF SumOf(widths) >= total THEN Got(k + 1) = SumOf(widths)
          ELSE Got(k + 1) = total \/ (Got(k + 1) >= k + 1 /\ Got(k + 1) < total)
      BY <1>2, <2>1, <2>3, <2>4
    <2> QED
      BY <2>1, <2>5
  <1>5. T = Nat
    <2>1. T \subseteq Nat
      OBVIOUS
    <2> HIDE DEF T
    <2> QED
      BY <1>3, <1>4, <2>1, NaturalsClosed
  <1>6. IF SumOf(widths) >= total THEN Got(total) = SumOf(widths)
        ELSE Got(total) = total \/ (Got(total) >= total /\ Got(total) < total)
    BY <1>5
  <1>7. Got(total) \in Nat
    BY WidthsOf
  <1> HIDE DEF T
  <1>8. Got(total) = IF SumOf(widths) >= total THEN SumOf(widths) ELSE total
    <2> HIDE DEF Got
    <2> QED
      BY <1>2, <1>6, <1>7
  <1> QED
    BY <1>1, <1>8

\* The columns of a table take up its width, unless there are too many.
LEMMA AllocatedFills ==
    ASSUME NEW n \in Nat \ {0}, NEW minimum \in Widths(n), NEW total \in Nat \ {0},
           NEW preferred, \A k \in 1..n : preferred[k] \in Int
    PROVE  SumOf(allocate_table_widths(preferred, minimum, total)) = Max({total, n})
  <1> DEFINE w == Shrunk(minimum, total)
  <1>1. total \in Nat /\ n \in Nat
    OBVIOUS
  <1>2. w \in Widths(n) /\ Settled(w, total)
    BY <1>1, ShrunkKeeps, ShrunkSettles
  <1>3. minimum # <<>>
    <2>1. Len(minimum) = n
      BY WidthsOf
    <2> QED
      BY <2>1
  <1>4. allocate_table_widths(preferred, minimum, total) = Grown(w, preferred, total)
    BY <1>3 DEF allocate_table_widths
  <1> HIDE DEF w
  <1>5. PICK g : Adds(g, w)
    BY <1>1, <1>2, WidthsOf, SumsExist
  <1>6. SumOf(w) = g[n] /\ g[n] >= n /\ ((\A k \in 1..n : w[k] = 1) => g[n] = n)
    <2>1. w \in Seq(Nat) /\ Len(w) = n
      BY <1>1, <1>2, WidthsOf
    <2> QED
      BY <1>1, <1>2, <1>5, <2>1, SumIs, SumsGrow
  <1>7. SumOf(w) \in Nat /\ DOMAIN w = 1..n
    BY <1>1, <1>2, WidthsOf
  <1>8. SumOf(w) <= total \/ SumOf(w) = n
    BY <1>2, <1>6, <1>7 DEF Settled
  <1>9. SumOf(Grown(w, preferred, total))
        = IF SumOf(w) >= total THEN SumOf(w) ELSE total
    BY <1>1, <1>2, GrownFills
  <1>10. Max({total, n}) = IF total <= n THEN n ELSE total
    BY <1>1, MaxPair
  <1> QED
    BY <1>1, <1>4, <1>6, <1>7, <1>8, <1>9, <1>10

-------------------------------------------------------------------------------
(* Rows are packed from the top.                                               *)

\* The cursor of packed rows.
Cursors == [begun : BOOLEAN, source : Int, bottom : Int, output : Nat]

LEMMA NextRowOf ==
    ASSUME NEW cursor \in Cursors, NEW bounds \in Rects, NEW desired \in Nat
    PROVE  NextRow(cursor, bounds, desired) \in Cursors
  <1>1. /\ bounds.y \in Int /\ Bottom(bounds) \in Int
        /\ cursor.output \in Nat /\ cursor.output + 1 \in Nat
    BY DEF Cursors, Rects, Bottom
  <1>2. Max({desired, cursor.output + 1}) \in Nat
    <2>1. Max({desired, cursor.output + 1})
          = IF desired <= cursor.output + 1 THEN cursor.output + 1 ELSE desired
      BY <1>1, MaxPair
    <2> QED
      BY <1>1, <2>1
  <1> QED
    BY <1>1, <1>2 DEF NextRow, Cursors

-------------------------------------------------------------------------------
(* What is drawn of the nodes that are kept.                                   *)

NodesKept == kept \in Seq(Nodes) /\ Len(kept) \in Nat \ {0} /\ DOMAIN kept = 1..Len(kept)

\* The root is kept, and nothing but nodes.
LEMMA KeptOf ==
    ASSUME IsWindow, Captured
    PROVE  NodesKept /\ kept[1] = window[1]
  <1> DEFINE n == Len(window)
  <1>1. /\ n \in Nat \ {0} /\ DOMAIN window = 1..n
        /\ \A i \in 1..n : window[i] \in Nodes
    BY NodesOfWindow DEF IsWindow
  <1>2. kept \in Seq(Found) /\ Len(kept) \in Nat \ {0} /\ DOMAIN kept = 1..Len(kept)
    BY CapturedIsPrefix
  <1>3. kept \in Seq(Nodes)
    <2>1. Found \subseteq Nodes
      BY <1>1 DEF Found
    <2>2. \A i \in 1..Len(kept) : kept[i] \in Nodes
      BY <1>2, <2>1, ElementOfSeq
    <2>3. IsSequence(kept)
      BY <1>2 DEF IsSequence
    <2> QED
      BY <2>2, <2>3, SequenceOver
  <1>4. kept[1] = window[1]
    <2>1. Eligible(1)
      BY DEF Eligible
    <2>2. 1 \in Ahead(n)
      BY <1>1, <2>1 DEF Ahead
    <2>3. Rank(0 + 1) = Rank(0) + 1 /\ 0 + 1 = 1 /\ Rank(0) = 0
      BY <2>1, Ranks
    <2>4. Rank(1) = 1 /\ 1 <= MaxNodes
      BY <2>3, Limits
    <2>5. CapturedUpto(n, Snapshot)
      BY SnapshotIsPrefix DEF IsWindow
    <2> QED
      BY <2>2, <2>4, <2>5 DEF CapturedUpto, Captured
  <1> QED
    BY <1>2, <1>3, <1>4 DEF NodesKept

LEMMA KeptNode ==
    ASSUME NodesKept, NEW i \in DOMAIN kept
    PROVE  /\ kept[i].label \in Texts /\ kept[i].bounds \in Rects /\ kept[i].depth \in Nat
           /\ kept[i].scroll \in 0..2
  <1>1. kept[i] \in Nodes
    BY ElementOfSeq DEF NodesKept
  <1> QED
    BY <1>1 DEF Nodes, Texts

\* Some of the nodes, in document order.
LEMMA OrderedNodes ==
    ASSUME NodesKept, NEW S, S \subseteq DOMAIN kept
    PROVE  /\ IsFiniteSet(S) /\ Cardinality(S) \in Nat
           /\ InOrder(S) \in Seq(S) /\ InOrder(S) \in Seq(DOMAIN kept)
           /\ Len(InOrder(S)) = Cardinality(S) /\ DOMAIN InOrder(S) = 1..Cardinality(S)
           /\ \A n \in 1..Cardinality(S) : InOrder(S)[n] \in S /\ InOrder(S)[n] \in DOMAIN kept
  <1>1. S \subseteq Int /\ IsFiniteSet(S)
    <2>1. IsFiniteSet(1..Len(kept)) /\ DOMAIN kept = 1..Len(kept)
      BY FS_Interval DEF NodesKept
    <2>2. IsFiniteSet(S)
      BY <2>1, FS_Subset
    <2>3. 1..Len(kept) \subseteq Int
      BY DEF NodesKept
    <2> QED
      BY <2>1, <2>2, <2>3
  <1>2. /\ Cardinality(S) \in Nat /\ InOrder(S) \in Seq(S)
        /\ Len(InOrder(S)) = Cardinality(S) /\ DOMAIN InOrder(S) = 1..Cardinality(S)
    BY <1>1, InOrderOf
  <1> DEFINE order == InOrder(S)
  <1> HIDE DEF order
  <1>3. \A n \in 1..Cardinality(S) : order[n] \in S /\ order[n] \in DOMAIN kept
    BY <1>2, ElementOfSeq DEF order
  <1>4. order \in Seq(DOMAIN kept)
    <2>1. IsSequence(order) /\ Len(order) = Cardinality(S)
      BY <1>2 DEF IsSequence, order
    <2> QED
      BY <1>3, <2>1, SequenceOver
  <1> QED
    BY <1>1, <1>2, <1>3, <1>4 DEF order

LEMMA FamilyOf ==
    ASSUME NodesKept, NEW i \in DOMAIN kept
    PROVE  /\ Subtree(i) \subseteq DOMAIN kept /\ Children(i) \subseteq Subtree(i)
           /\ Children(i) \subseteq DOMAIN kept
           /\ Kids(i) \in Seq(DOMAIN kept)
  <1>1. Subtree(i) \subseteq DOMAIN kept /\ Children(i) \subseteq Subtree(i)
    BY DEF Subtree, Children, NodesKept
  <1>2. Children(i) \subseteq DOMAIN kept
    BY <1>1
  <1> QED
    BY <1>1, <1>2, OrderedNodes DEF Kids

LEMMA FlowTextOf ==
    ASSUME NodesKept, NEW i \in DOMAIN kept
    PROVE  inline_flow_text(i) \in Texts
  <1> DEFINE S == {j \in Subtree(i) : IsLeaf(j)}
             leaves == InOrder(S)
             labels == [n \in DOMAIN leaves |-> kept[leaves[n]].label]
  <1>1. S \subseteq DOMAIN kept
    BY FamilyOf
  <1> HIDE DEF S
  <1>2. Cardinality(S) \in Nat /\ DOMAIN leaves = 1..Cardinality(S)
        /\ \A n \in 1..Cardinality(S) : leaves[n] \in DOMAIN kept
    BY <1>1, OrderedNodes
  <1>3. inline_flow_text(i) = Together(labels)
    BY DEF inline_flow_text, S
  <1> HIDE DEF leaves
  <1>4. labels \in [1..Cardinality(S) -> Texts]
    BY <1>2, KeptNode
  <1>5. labels \in Seq(Texts)
    BY <1>2, <1>4, SeqDef
  <1> HIDE DEF labels
  <1> QED
    BY <1>3, <1>5, TogetherOf

LEMMA Letters ==
    /\ {Bullet, "[", "x", "]", "n", "o", "t", "e", "p", "s", "d", Space, Newline} \subseteq Glyphs
    /\ Message \in Texts /\ <<>> \in Texts
    /\ <<Newline, Space, Space, Bullet, Space>> \in Texts /\ <<Bullet, Space>> \in Texts
    /\ <<"[", "x", "]", Space>> \in Texts /\ <<Space, Space>> \in Texts
    /\ <<Mark, Space>> \in Texts
  <1>1. {Bullet, "[", "x", "]", "n", "o", "t", "e", "p", "s", "d", Space, Newline, Mark}
        \subseteq Glyphs
    BY ReconstructionAssumption, Signs, CanvasSigns
  <1>2. Message \in Texts
    BY <1>1 DEF Message, Texts
  <1>3. /\ <<>> \in Texts /\ <<Newline, Space, Space, Bullet, Space>> \in Texts
        /\ <<Bullet, Space>> \in Texts /\ <<"[", "x", "]", Space>> \in Texts
        /\ <<Space, Space>> \in Texts /\ <<Mark, Space>> \in Texts
    BY <1>1 DEF Texts
  <1> QED
    BY <1>1, <1>2, <1>3

LEMMA BulletLinesOf ==
    ASSUME NodesKept, NEW i \in DOMAIN kept
    PROVE  BulletLines(i) \in Seq(Texts)
  <1> DEFINE lines == Filled(Lines(kept[i].label))
             n == Len(lines)
  <1>1. lines \in Seq(Texts)
    BY KeptNode, LinesOf, FilledOf
  <1>2. BulletLines(i) = [k \in DOMAIN lines |-> Trim(lines[k])]
    BY DEF BulletLines
  <1> HIDE DEF lines
  <1>3. n \in Nat /\ DOMAIN lines = 1..n /\ \A k \in 1..n : lines[k] \in Texts
    BY <1>1, LenProperties, ElementOfSeq
  <1> HIDE DEF n
  <1>4. [k \in DOMAIN lines |-> Trim(lines[k])] \in [1..n -> Texts]
    BY <1>3, TrimOf
  <1> QED
    BY <1>2, <1>3, <1>4, SeqDef

LEMMA BulletedOf ==
    ASSUME NEW lines \in Seq(Texts)
    PROVE  Bulleted(lines) \in Texts
  <1> DEFINE n == Len(lines)
             First1(line) == <<Bullet, Space>> \o (IF n = 1 THEN Unmarked(line) ELSE line)
             Other(line) == <<Newline, Space, Space, Bullet, Space>> \o line
             parts == [k \in DOMAIN lines |-> IF k > 1 THEN Other(lines[k]) ELSE First1(lines[1])]
  <1>1. n \in Nat /\ DOMAIN lines = 1..n /\ \A k \in 1..n : lines[k] \in Texts
    BY LenProperties, ElementOfSeq
  <1>2. ASSUME NEW line \in Texts PROVE Unmarked(line) \in Texts
    <2>1. CASE line = <<>>
      BY <2>1 DEF Unmarked
    <2>2. CASE line # <<>>
      <3>1. Tail(line) \in Texts
        BY <2>2, HeadTailProperties DEF Texts
      <3>2. Trim(Tail(line)) \in Texts
        BY <3>1, TrimOf
      <3> QED
        BY <3>2 DEF Unmarked
    <2> QED
      BY <2>1, <2>2
  <1>3. \A line \in Texts : First1(line) \in Texts /\ Other(line) \in Texts
    <2>1. \A a, b \in Texts : a \o b \in Texts
      BY ConcatProperties DEF Texts
    <2> QED
      BY <1>2, <2>1, Letters
  <1>4. Bulleted(lines) = Together(parts)
    BY DEF Bulleted
  <1> HIDE DEF n, First1, Other
  <1>5. parts \in [1..n -> Texts]
    BY <1>1, <1>3
  <1>6. parts \in Seq(Texts)
    BY <1>1, <1>5, SeqDef
  <1> HIDE DEF parts
  <1> QED
    BY <1>4, <1>6, TogetherOf

LEMMA WrappedTextOf ==
    ASSUME NodesKept, NEW i \in DOMAIN kept
    PROVE  bullet_list_label(i) \in Texts /\ WrappedText(i) \in Texts
  <1>1. bullet_list_label(i) \in Texts
    BY BulletLinesOf, BulletedOf DEF bullet_list_label
  <1> QED
    BY <1>1, FlowTextOf DEF WrappedText

-------------------------------------------------------------------------------
(* What is left to draw: nodes, and entries with the place they are given.     *)

Tasks == [act : {"visit"}, node : DOMAIN kept, rect : {NoCells}]
         \cup [act : {"row", "cell"}, node : DOMAIN kept, rect : Areas]
\* The window can be drawn: it has a size and so has the canvas.
Drawable ==
    /\ NodesKept
    /\ canvas.rows \in Nat \ {0} /\ canvas \in Canvases(Cols, canvas.rows)
    /\ Root.bounds.width > 0 /\ Root.bounds.height > 0

LEMMA CanvasSize ==
    ASSUME Drawable
    PROVE  canvas.cols = Cols /\ canvas.cols \in Nat \ {0} /\ canvas.rows \in Nat \ {0}
  <1>1. canvas.cols = Cols
    BY DEF Drawable, Canvases
  <1> QED
    BY <1>1, Limits DEF Drawable

\* Places on the canvas keep the order of the window that is drawn.
LEMMA PlacesWithin ==
    ASSUME Drawable
    PROVE  /\ \A b \in Rects : Project(b) # NoCells =>
                  Project(b) \in Areas /\ b.width > 0 /\ OnCanvas(Project(b), canvas)
           /\ \A b, c \in Rects : Project(b) # NoCells /\ Project(c) # NoCells =>
                  /\ Right(b) <= c.x => Right(Project(b)) <= Max({Project(c).x, Project(b).x + 1})
                  /\ Bottom(b) <= c.y => Bottom(Project(b)) <= Max({Project(c).y, Project(b).y + 1})
  <1>1. 1 \in DOMAIN kept
    BY DEF Drawable, NodesKept
  <1> DEFINE root == Root.bounds
             fit == fit_window
  <1>2. root \in Rects /\ root.width > 0 /\ root.height > 0
    BY <1>1, KeptNode DEF Drawable, Root
  <1> HIDE DEF root, fit
  <1>3. \A b : Project(b) = project_clipped_bounds(b, root, fit, canvas)
    BY DEF Project, root, fit
  <1>4. canvas.cols \in Nat \ {0} /\ canvas.rows \in Nat \ {0}
    BY CanvasSize
  <1>5. ASSUME NEW b \in Rects, Project(b) # NoCells
        PROVE  Project(b) \in Areas /\ b.width > 0 /\ OnCanvas(Project(b), canvas)
    BY <1>2, <1>3, <1>4, <1>5, ProjectedWithin
  <1>6. ASSUME NEW b \in Rects, NEW c \in Rects, Project(b) # NoCells, Project(c) # NoCells
        PROVE  /\ Right(b) <= c.x => Right(Project(b)) <= Max({Project(c).x, Project(b).x + 1})
               /\ Bottom(b) <= c.y =>
                     Bottom(Project(b)) <= Max({Project(c).y, Project(b).y + 1})
    <2>1. project_clipped_bounds(b, root, fit, canvas) # NoCells
          /\ project_clipped_bounds(c, root, fit, canvas) # NoCells
      BY <1>3, <1>6
    <2> QED
      BY <1>2, <1>3, <1>4, <2>1, ProjectedApart
  <1> QED
    BY <1>5, <1>6

LEMMA AdjacentApart == Drawable => AdjacentStayApart
  <1> SUFFICES ASSUME Drawable PROVE AdjacentStayApart
    OBVIOUS
  <1>1. \A i \in DOMAIN kept : kept[i].bounds \in Rects
    BY KeptNode DEF Drawable
  <1>2. canvas.cols = Cols
    BY CanvasSize
  <1> QED
    BY <1>1, <1>2, PlacesWithin DEF AdjacentStayApart, OnCanvas

LEMMA ProjectOf ==
    ASSUME Drawable, NEW bounds \in Rects, Project(bounds) # NoCells
    PROVE  Project(bounds) \in Areas /\ bounds.width > 0
  BY PlacesWithin

LEMMA VisitsOf ==
    ASSUME NEW nodes \in Seq(DOMAIN kept)
    PROVE  Visits(nodes) \in Seq(Tasks) /\ <<>> \in Seq(Tasks)
  <1> DEFINE n == Len(nodes)
  <1>1. n \in Nat /\ DOMAIN nodes = 1..n /\ \A k \in 1..n : nodes[k] \in DOMAIN kept
    BY LenProperties, ElementOfSeq
  <1>2. \A i \in DOMAIN kept : Visit(i) \in Tasks
    BY DEF Visit, Tasks
  <1>3. Visits(nodes) = [k \in 1..n |-> Visit(nodes[k])]
    BY <1>1 DEF Visits
  <1> HIDE DEF n
  <1>4. Visits(nodes) \in [1..n -> Tasks]
    BY <1>1, <1>2, <1>3
  <1> QED
    BY <1>1, <1>4, SeqDef

\* The columns of a table.
LEMMA ColumnsOf ==
    ASSUME NodesKept, NEW i \in DOMAIN kept
    PROVE  /\ infer_grid_columns(i) \in Seq(Int)
           /\ PlacedEntries(i) \subseteq DOMAIN kept /\ Entries(i) \subseteq DOMAIN kept
  <1> DEFINE S == FirstRow(PlacedEntries(i))
             T == {kept[k].bounds.x : k \in S}
  <1>1. PlacedEntries(i) \subseteq DOMAIN kept /\ Entries(i) \subseteq DOMAIN kept
        /\ S \subseteq PlacedEntries(i)
    BY FamilyOf DEF PlacedEntries, Entries, FirstRow
  <1>2. S \subseteq DOMAIN kept
    BY <1>1
  <1> HIDE DEF S
  <1>3. IsFiniteSet(S)
    BY <1>2, OrderedNodes
  <1>4. T \subseteq Int
    <2>1. \A k \in S : kept[k].bounds.x \in Int
      BY <1>2, KeptNode DEF Rects
    <2> QED
      BY <2>1
  <1>5. IsFiniteSet(T)
    <2> DEFINE f == [k \in S |-> kept[k].bounds.x]
    <2>1. f \in Surjection(S, T)
      BY DEF Surjection
    <2> QED
      BY <1>3, <2>1, FS_Surjection
  <1>6. infer_grid_columns(i) = InOrder(T)
    BY DEF infer_grid_columns, S
  <1> HIDE DEF T
  <1>7. InOrder(T) \in Seq(T) /\ Cardinality(T) \in Nat
        /\ DOMAIN InOrder(T) = 1..Cardinality(T) /\ Len(InOrder(T)) = Cardinality(T)
    BY <1>4, <1>5, InOrderOf
  <1> DEFINE columns == InOrder(T)
  <1> HIDE DEF columns
  <1>8. columns \in Seq(Int)
    <2>1. \A n \in 1..Len(columns) : columns[n] \in Int
      BY <1>4, <1>7, ElementOfSeq DEF columns
    <2>2. IsSequence(columns)
      BY <1>7 DEF IsSequence, columns
    <2> QED
      BY <2>1, <2>2, SequenceOver
  <1> QED
    BY <1>1, <1>6, <1>8 DEF columns

LEMMA ColumnIs ==
    ASSUME NEW columns \in Seq(Int), columns # <<>>, NEW x
    PROVE  ColumnOf(columns, x) \in 1..Len(columns)
  <1> DEFINE S == {1} \cup {c \in DOMAIN columns : columns[c] <= x}
             n == Len(columns)
  <1>1. n \in Nat \ {0} /\ DOMAIN columns = 1..n
    BY LenProperties, EmptySeq
  <1> HIDE DEF n
  <1>2. S \subseteq 1..n /\ S # {}
    BY <1>1
  <1>3. ColumnOf(columns, x) = Max(S)
    BY DEF ColumnOf
  <1> HIDE DEF S
  <1>4. S \subseteq 0..n /\ n \in Nat
    BY <1>1, <1>2
  <1>5. Max(S) \in S
    BY <1>2, <1>4, EndsOf
  <1> QED
    BY <1>2, <1>3, <1>5 DEF n

LEMMA LabelWidthOf ==
    ASSUME NodesKept, NEW k \in DOMAIN kept
    PROVE  LabelWidth(k) \in Nat
  BY KeptNode, WidthOfText DEF LabelWidth

\* Three quarters of the entries are not all: some width is enough.
LEMMA PercentileOf ==
    ASSUME NodesKept, NEW S, S \subseteq DOMAIN kept
    PROVE  Percentile([k \in S |-> LabelWidth(k)]) \in Nat
  <1> DEFINE width == [k \in S |-> LabelWidth(k)]
             Within1(w) == Cardinality({k \in S : width[k] <= w})
             enough == {w \in Range(width) : Within1(w) > ((Cardinality(S) - 1) * 3) \div 4}
  <1>1. width \in [S -> Nat] /\ DOMAIN width = S
    BY LabelWidthOf
  <1> HIDE DEF width
  <1>2. IsFiniteSet(S) /\ Cardinality(S) \in Nat /\ (S # {} => Cardinality(S) # 0)
    <2>1. IsFiniteSet(S) /\ Cardinality(S) \in Nat
      BY OrderedNodes
    <2> QED
      BY <2>1, FS_EmptySet
  <1>3. (S = {} => Percentile(width) = 0) /\ (S # {} => Percentile(width) = Min(enough))
    BY <1>1 DEF Percentile
  <1>4. enough \subseteq Nat
    BY <1>1 DEF Range
  <1>5. S # {} => enough # {}
    <2> SUFFICES ASSUME S # {} PROVE enough # {}
      OBVIOUS
    <2>1. PICK k \in S : \A j \in S : width[j] <= width[k]
      <3>1. Len(kept) \in Nat /\ S \subseteq 1..Len(kept)
        BY DEF NodesKept
      <3>2. \A j \in S : width[j] \in Int
        BY <1>1
      <3> QED
        BY <3>1, <3>2, LargestOf
    <2>2. {j \in S : width[j] <= width[k]} = S
      BY <2>1
    <2>3. Within1(width[k]) = Cardinality(S)
      BY <2>2
    <2>4. Cardinality(S) > ((Cardinality(S) - 1) * 3) \div 4
      <3> DEFINE c == Cardinality(S)
      <3>1. c \in Nat \ {0}
        BY <1>2
      <3> HIDE DEF c
      <3>2. c > ((c - 1) * 3) \div 4
        BY <3>1, Z3
      <3> QED
        BY <3>2 DEF c
    <2>5. width[k] \in Range(width)
      BY <1>1 DEF Range
    <2> QED
      BY <2>3, <2>4, <2>5
  <1> HIDE DEF enough
  <1>6. S # {} => Min(enough) \in enough
    <2> SUFFICES ASSUME S # {} PROVE Min(enough) \in enough
      OBVIOUS
    <2>1. PICK m \in enough : \A w \in enough : m <= w
      BY <1>4, <1>5, LeastOf
    <2> QED
      BY <2>1 DEF Min
  <1>7. Percentile(width) \in Nat
    <2>1. S # {} => Min(enough) \in Nat
      BY <1>4, <1>6
    <2>2. 0 \in Nat
      OBVIOUS
    <2> QED
      BY <1>3, <2>1, <2>2
  <1> QED
    BY <1>7 DEF width

LEMMA TableMinimumOf ==
    ASSUME NodesKept, NEW i \in DOMAIN kept, NEW columns \in Seq(Int)
    PROVE  TableMinimum(i, columns) \in Widths(Len(columns))
  <1> DEFINE n == Len(columns)
  <1>1. n \in Nat /\ DOMAIN columns = 1..n
    BY LenProperties
  <1>2. \A c \in 1..n : Percentile([k \in InTableColumn(i, columns, c) |-> LabelWidth(k)]) + 1
                        \in Nat \ {0}
    <2> SUFFICES ASSUME NEW c \in 1..n
                 PROVE  Percentile([k \in InTableColumn(i, columns, c) |-> LabelWidth(k)]) + 1
                        \in Nat \ {0}
      OBVIOUS
    <2>1. InTableColumn(i, columns, c) \subseteq DOMAIN kept
      BY ColumnsOf DEF InTableColumn
    <2> DEFINE p == Percentile([k \in InTableColumn(i, columns, c) |-> LabelWidth(k)])
    <2>2. p \in Nat
      BY <2>1, PercentileOf
    <2> HIDE DEF p
    <2>3. p + 1 \in Nat \ {0}
      BY <2>2
    <2> QED
      BY <2>3 DEF p
  <1>3. TableMinimum(i, columns)
        = [c \in 1..n |-> Percentile([k \in InTableColumn(i, columns, c) |-> LabelWidth(k)]) + 1]
    BY <1>1 DEF TableMinimum
  <1> QED
    BY <1>2, <1>3 DEF Widths

LEMMA TableWidthsOf ==
    ASSUME NodesKept, NEW i \in DOMAIN kept, NEW columns \in Seq(Int), NEW rect \in Areas
    PROVE  TableWidths(i, columns, rect) \in Widths(Len(columns))
  <1> DEFINE n == Len(columns)
             minimum == TableMinimum(i, columns)
  <1>1. n \in Nat /\ rect.width \in Nat /\ minimum \in Widths(n)
    BY LenProperties, AreaParts, TableMinimumOf
  <1>2. TableWidths(i, columns, rect)
        = allocate_table_widths(TablePreferred(kept[i].bounds, columns, rect), minimum, rect.width)
    BY DEF TableWidths
  <1> HIDE DEF minimum, n
  <1> QED
    BY <1>1, <1>2, AllocatedKeeps DEF n

LEMMA PreferredOf ==
    ASSUME NEW columns \in Seq(Int), NEW bounds \in Rects, bounds.width > 0, NEW rect \in Areas
    PROVE  \A c \in 1..Len(columns) : TablePreferred(bounds, columns, rect)[c] \in Int
  <1> DEFINE n == Len(columns)
             Edge(c) == IF c = n THEN Right(bounds) ELSE columns[c + 1]
             source == SourceWidths(columns, Right(bounds))
             preferred == TablePreferred(bounds, columns, rect)
  <1>1. /\ n \in Nat /\ DOMAIN columns = 1..n /\ \A c \in 1..n : columns[c] \in Int
        /\ Right(bounds) \in Int /\ bounds.width \in Nat \ {0} /\ rect.width \in Nat
    BY LenProperties, ElementOfSeq, AreaParts DEF Rects, Right
  <1> SUFFICES ASSUME NEW c \in 1..n PROVE preferred[c] \in Int
    OBVIOUS
  <1>2. source[c] \in Int
    <2> DEFINE room == Edge(c) - columns[c]
    <2>1. room \in Int
      <3>1. c # n => c + 1 \in 1..n
        <4>1. n \in Nat /\ c \in 1..n
          BY <1>1
        <4> HIDE DEF n
        <4> QED
          BY <4>1
      <3>2. Edge(c) \in Int
        BY <1>1, <3>1
      <3> HIDE DEF Edge
      <3> QED
        BY <1>1, <3>2
    <2>2. source[c] = Max({room, 1})
      BY <1>1 DEF SourceWidths
    <2> HIDE DEF room
    <2>3. Max({room, 1}) = IF room <= 1 THEN 1 ELSE room
      BY <2>1, MaxPair
    <2> QED
      BY <2>1, <2>2, <2>3
  <1>3. preferred[c] = Max({(source[c] * rect.width) \div bounds.width, 1})
    BY <1>1 DEF TablePreferred
  <1> HIDE DEF preferred, source
  <1> DEFINE m == source[c] * rect.width
             b == bounds.width
             q == m \div b
  <1>4. m \in Int /\ b \in Nat \ {0}
    BY <1>1, <1>2
  <1> HIDE DEF m, b
  <1>5. q \in Int
    BY <1>4, DivParts
  <1> HIDE DEF q
  <1>6. Max({q, 1}) = IF q <= 1 THEN 1 ELSE q
    BY <1>5, MaxPair
  <1>7. Max({q, 1}) \in Int
    BY <1>5, <1>6
  <1> QED
    BY <1>3, <1>7 DEF q, m, b

LEMMA TableWidthsFill ==
    ASSUME NodesKept, NEW i \in DOMAIN kept, kept[i].bounds.width > 0,
           NEW columns \in Seq(Int), columns # <<>>, NEW rect \in Areas, rect.width > 0
    PROVE  /\ TableWidths(i, columns, rect) \in Widths(Len(columns))
           /\ SumOf(TableWidths(i, columns, rect)) = Max({rect.width, Len(columns)})
  <1> DEFINE n == Len(columns)
             minimum == TableMinimum(i, columns)
             preferred == TablePreferred(kept[i].bounds, columns, rect)
  <1>1. n \in Nat \ {0} /\ rect.width \in Nat \ {0}
    BY LenProperties, EmptySeq, AreaParts
  <1>2. minimum \in Widths(n)
    BY TableMinimumOf
  <1>3. \A c \in 1..n : preferred[c] \in Int
    BY PreferredOf, KeptNode
  <1>4. TableWidths(i, columns, rect)
        = allocate_table_widths(preferred, minimum, rect.width)
    BY DEF TableWidths
  <1> HIDE DEF n, minimum, preferred
  <1>5. allocate_table_widths(preferred, minimum, rect.width) \in Widths(n)
    BY <1>1, <1>2, AllocatedKeeps
  <1>6. SumOf(allocate_table_widths(preferred, minimum, rect.width)) = Max({rect.width, n})
    BY <1>1, <1>2, <1>3, AllocatedFills
  <1> QED
    BY <1>4, <1>5, <1>6 DEF n

LEMMA DesiredRow ==
    ASSUME Drawable, NEW k \in DOMAIN kept
    PROVE  /\ kept[k].bounds \in Rects
           /\ Project(kept[k].bounds) # NoCells =>
                 /\ Project(kept[k].bounds) \in Areas
                 /\ Project(kept[k].bounds).y \in Nat
                 /\ kept[k].bounds.width > 0
  <1>1. kept[k].bounds \in Rects
    BY KeptNode DEF Drawable
  <1> QED
    BY <1>1, ProjectOf, AreaParts

Source(item) == kept[item.node].bounds.y
Column(columns, item) == ColumnOf(columns, kept[item.node].bounds.x)
\* Where the cells of a column are: from its left edge to its right one.
InLane(rect, widths, c, place) ==
    /\ rect.x + SumOf(SubSeq(widths, 1, c - 1)) <= place.x
    /\ Right(place) <= rect.x + SumOf(SubSeq(widths, 1, c))

LEMMA LanesApart ==
    ASSUME NEW n \in Nat, NEW widths \in Widths(n), NEW rect \in Areas,
           NEW c \in 1..n, NEW d \in 1..n, c # d, NEW one \in Areas, NEW other \in Areas,
           InLane(rect, widths, c, one), InLane(rect, widths, d, other)
    PROVE  ~Overlaps(one, other)
  <1>1. widths \in Seq(Nat) /\ Len(widths) = n
    BY WidthsOf
  <1>2. PICK g : Adds(g, widths)
    BY <1>1, SumsExist
  <1>3. \A m \in 0..n : SumOf(SubSeq(widths, 1, m)) = g[m] /\ g[m] \in Nat
    BY <1>1, <1>2, SumOfFirst, SumIs
  <1>4. \A a, b \in 0..n : a <= b => g[a] <= g[b]
    BY <1>2, SumsGrow
  <1>5. /\ c \in 0..n /\ c - 1 \in 0..n /\ d \in 0..n /\ d - 1 \in 0..n
        /\ c <= d - 1 \/ d <= c - 1
    OBVIOUS
  <1>6. g[c] <= g[d - 1] \/ g[d] <= g[c - 1]
    BY <1>4, <1>5
  <1>7. /\ rect.x \in Nat /\ one.x \in Nat /\ other.x \in Nat
        /\ Right(one) \in Nat /\ Right(other) \in Nat
    BY AreaParts
  <1>8. /\ rect.x + g[c - 1] <= one.x /\ Right(one) <= rect.x + g[c]
        /\ rect.x + g[d - 1] <= other.x /\ Right(other) <= rect.x + g[d]
    BY <1>3, <1>5 DEF InLane
  <1>9. g[c] \in Nat /\ g[d] \in Nat /\ g[c - 1] \in Nat /\ g[d - 1] \in Nat
    BY <1>3, <1>5
  <1>10. Right(one) <= other.x \/ Right(other) <= one.x
    BY <1>6, <1>7, <1>8, <1>9
  <1> QED
    BY <1>7, <1>10 DEF Overlaps

\* A row of one cell's height.
Flat(item, row) == item.rect.y = row /\ item.rect.height = 1

LEMMA TableCellIn ==
    ASSUME Drawable, NEW k \in DOMAIN kept, NEW columns \in Seq(Int), columns # <<>>,
           NEW rect \in Areas, NEW bounds \in Rects, bounds.width > 0,
           NEW widths \in Widths(Len(columns)), NEW row \in Nat
    PROVE  LET c == ColumnOf(columns, kept[k].bounds.x)
               item == TableCell(k, c, columns, rect, bounds, widths, row)
           IN  /\ item \in Tasks /\ item.act = "cell" /\ item.node = k /\ item.rect \in Areas
               /\ Flat(item, row) /\ InLane(rect, widths, c, item.rect)
  <1> DEFINE c == ColumnOf(columns, kept[k].bounds.x)
             start == rect.x + SumOf(SubSeq(widths, 1, c - 1))
             shift == kept[k].bounds.x - columns[c]
             indent == IndentOf(shift, rect, bounds, widths[c])
             n == Len(columns)
  <1>1. n \in Nat /\ c \in 1..n
    BY ColumnIs, LenProperties
  <1>2. columns[c] \in Int /\ kept[k].bounds.x \in Int
    <2>1. columns[c] \in Int
      BY <1>1, ElementOfSeq
    <2>2. kept[k].bounds.x \in Int
      BY DesiredRow DEF Rects
    <2> QED
      BY <2>1, <2>2
  <1>3. rect.x \in Nat /\ rect.width \in Nat /\ bounds.width \in Nat \ {0}
    BY AreaParts DEF Rects
  <1>4. /\ widths \in Seq(Nat) /\ Len(widths) = n /\ widths[c] \in Nat \ {0}
    BY <1>1, WidthsOf
  <1>5. /\ start \in Nat
        /\ rect.x + SumOf(SubSeq(widths, 1, c)) = start + widths[c]
    <2>1. PICK g : Adds(g, widths)
      BY <1>4, SumsExist
    <2>2. c \in 0..n /\ c - 1 \in 0..n
      <3> HIDE DEF c, n
      <3> QED
        BY <1>1
    <2>3. SumOf(SubSeq(widths, 1, c)) = g[c] /\ SumOf(SubSeq(widths, 1, c - 1)) = g[c - 1]
      BY <1>4, <2>1, <2>2, SumOfFirst
    <2>4. g[c - 1] \in Nat /\ g[c] = g[c - 1] + widths[c]
      BY <1>1, <1>4, <2>1 DEF Adds
    <2> HIDE DEF c, n
    <2> QED
      BY <1>3, <1>4, <2>3, <2>4
  <1>6. indent \in Nat /\ indent <= widths[c]
    <2> DEFINE w == widths[c]
               ahead == Max({shift, 0})
               scaled == ahead * rect.width
               moved == scaled \div bounds.width
    <2>1. shift \in Int
      <3> HIDE DEF c
      <3> QED
        BY <1>2
    <2> HIDE DEF shift
    <2>2. ahead \in Nat
      <3>1. ahead = IF shift <= 0 THEN 0 ELSE shift
        BY <2>1, MaxPair
      <3> QED
        BY <2>1, <3>1
    <2> HIDE DEF ahead
    <2>3. scaled \in Nat
      BY <1>3, <2>2
    <2> HIDE DEF scaled
    <2>4. moved \in Nat
      <3> DEFINE b == bounds.width
      <3>1. b \in Nat \ {0} /\ scaled \in Int /\ scaled <= scaled
        BY <1>3, <2>3
      <3> HIDE DEF b
      <3>2. scaled \div b \in Nat
        BY <2>3, <3>1, DivKeepsOrder
      <3> QED
        BY <3>2 DEF b
    <2>5. indent = Min({moved, w - 1})
      BY DEF IndentOf, moved, scaled, ahead
    <2>6. w \in Nat \ {0}
      BY <1>4
    <2> HIDE DEF moved, w
    <2>7. w - 1 \in Nat
      BY <2>6
    <2>8. Min({moved, w - 1}) = IF moved <= w - 1 THEN moved ELSE w - 1
      BY <2>4, <2>7, MinPair
    <2>9. indent \in Nat /\ indent <= w
      <3> HIDE DEF indent
      <3> QED
        BY <2>4, <2>5, <2>6, <2>7, <2>8
    <2> QED
      BY <2>9 DEF w
  <1> DEFINE place == CellRect(start, widths[c], row, indent)
  <1>7. TableCell(k, c, columns, rect, bounds, widths, row) = Item("cell", k, place)
    BY DEF TableCell
  <1>8. SumOf(SubSeq(widths, 1, c - 1)) \in Nat /\ rect.x + SumOf(SubSeq(widths, 1, c - 1)) = start
    <2>1. c - 1 \in Int /\ c - 1 <= Len(widths)
      <3> HIDE DEF c, n
      <3> QED
        BY <1>1, <1>4
    <2>2. SubSeq(widths, 1, c - 1) \in Seq(Nat)
      BY <1>4, <2>1, PartOf
    <2> QED
      BY <2>2, SumOfWidths
  <1> HIDE DEF start, indent, n
  <1>9. /\ place \in Areas /\ place.y = row /\ place.height = 1
        /\ place.x = start + indent /\ Right(place) = start + widths[c]
    <2> DEFINE w == widths[c]
    <2>1. w \in Nat /\ w - indent \in Nat /\ start + indent \in Nat
      BY <1>4, <1>5, <1>6
    <2> HIDE DEF w
    <2>2. place = [x |-> start + indent, y |-> row, width |-> w - indent, height |-> 1]
      BY DEF CellRect, w
    <2> HIDE DEF place
    <2>3. place \in Areas
      BY <2>1, <2>2 DEF Areas
    <2>4. Right(place) = start + w
      BY <1>5, <1>6, <2>1, <2>2 DEF Right
    <2> QED
      BY <2>2, <2>3, <2>4 DEF w
  <1> HIDE DEF place
  <1>10. InLane(rect, widths, c, place)
    <2>1. start <= place.x
      BY <1>5, <1>6, <1>9
    <2>2. Right(place) <= start + widths[c]
      <3>1. start + widths[c] \in Int
        BY <1>4, <1>5
      <3> QED
        BY <1>9, <3>1
    <2> HIDE DEF c
    <2> QED
      BY <1>5, <1>8, <2>1, <2>2 DEF InLane
  <1>11. Item("cell", k, place) \in Tasks
    BY <1>9 DEF Item, Tasks
  <1> HIDE DEF c
  <1>12. LET item == Item("cell", k, place)
         IN  item.act = "cell" /\ item.node = k /\ item.rect = place
    BY DEF Item
  <1> QED
    BY <1>7, <1>9, <1>10, <1>11, <1>12 DEF Flat, c

\* What packing has done so far.
Packs == [cursor : Cursors, items : Seq(Tasks)]

LEMMA NothingPacked == NoItems \in Packs
  <1>1. NoRow \in Cursors
    BY DEF NoRow, Cursors
  <1>2. <<>> \in Seq(Tasks)
    OBVIOUS
  <1> QED
    BY <1>1, <1>2 DEF NoItems, Packs

LEMMA NextRowBelow ==
    ASSUME NEW cursor \in Cursors, NEW bounds \in Rects, NEW desired \in Nat
    PROVE  LET next == NextRow(cursor, bounds, desired)
           IN  /\ next \in Cursors /\ next.output \in Nat /\ next.begun /\ next.source = bounds.y
               /\ cursor.begun =>
                     \/ next = cursor /\ cursor.source = bounds.y
                     \/ cursor.output < next.output
  <1> DEFINE next == NextRow(cursor, bounds, desired)
  <1>1. next \in Cursors
    BY NextRowOf
  <1>2. next.output \in Nat /\ cursor.output \in Nat /\ cursor.output + 1 \in Nat
    BY <1>1 DEF Cursors
  <1>3. next.begun /\ next.source = bounds.y
    BY DEF NextRow
  <1>4. ASSUME cursor.begun, ~(cursor.source = bounds.y) PROVE cursor.output < next.output
    <2>1. Max({desired, cursor.output + 1})
          = IF desired <= cursor.output + 1 THEN cursor.output + 1 ELSE desired
      BY <1>2, MaxPair
    <2>2. next.output = cursor.output + 1 \/ next.output = Max({desired, cursor.output + 1})
      BY <1>4 DEF NextRow
    <2> HIDE DEF next
    <2> QED
      BY <1>2, <2>1, <2>2
  <1>5. cursor.begun /\ cursor.source = bounds.y => next = cursor
    BY DEF NextRow
  <1> QED
    BY <1>1, <1>2, <1>3, <1>4, <1>5

\* A table as far as it is packed: its cells are in their columns, those of the row
\* the cursor is on are on it and the others above, and rows differ with their source.
PackedCell(columns, rect, widths, cursor, item) ==
    /\ item.act = "cell" /\ item.rect \in Areas /\ item.rect.height = 1
    /\ InLane(rect, widths, Column(columns, item), item.rect)
    /\ cursor.begun /\ item.rect.y <= cursor.output
    /\ Source(item) # cursor.source => item.rect.y < cursor.output
PackedTables(columns, rect, widths) ==
    {acc \in Packs :
        /\ \A m \in DOMAIN acc.items :
              PackedCell(columns, rect, widths, acc.cursor, acc.items[m])
        /\ \A m, n \in DOMAIN acc.items :
              Source(acc.items[m]) # Source(acc.items[n]) =>
                  acc.items[m].rect.y # acc.items[n].rect.y}

LEMMA NoTablePacked ==
    ASSUME NEW columns, NEW rect, NEW widths
    PROVE  NoItems \in PackedTables(columns, rect, widths)
  <1>1. NoItems \in Packs /\ DOMAIN NoItems.items = {}
    BY NothingPacked DEF NoItems
  <1> QED
    BY <1>1 DEF PackedTables

\* The cursor goes on to the row of the next entry.
LEMMA CursorMoves ==
    ASSUME NEW columns, NEW rect, NEW widths, NEW acc \in PackedTables(columns, rect, widths),
           NEW bounds \in Rects, NEW desired \in Nat
    PROVE  LET cursor == NextRow(acc.cursor, bounds, desired)
           IN  /\ [cursor |-> cursor, items |-> acc.items] \in PackedTables(columns, rect, widths)
               /\ cursor.begun /\ cursor.source = bounds.y /\ cursor.output \in Nat
  <1> DEFINE cursor == NextRow(acc.cursor, bounds, desired)
             items == acc.items
  <1>1. acc.cursor \in Cursors /\ items \in Seq(Tasks) /\ acc.cursor.output \in Nat
    BY DEF PackedTables, Packs, Cursors
  <1>2. /\ cursor \in Cursors /\ cursor.output \in Nat /\ cursor.begun /\ cursor.source = bounds.y
        /\ acc.cursor.begun =>
              cursor = acc.cursor \/ acc.cursor.output < cursor.output
    BY <1>1, NextRowBelow
  <1> HIDE DEF cursor
  <1>3. ASSUME NEW m \in DOMAIN items
        PROVE  PackedCell(columns, rect, widths, cursor, items[m])
    <2>1. PackedCell(columns, rect, widths, acc.cursor, items[m])
      BY DEF PackedTables
    <2>2. items[m].rect.y \in Nat
      BY <2>1, AreaParts DEF PackedCell
    <2> QED
      BY <1>1, <1>2, <2>1, <2>2 DEF PackedCell
  <1>4. [cursor |-> cursor, items |-> items] \in Packs
    BY <1>1, <1>2 DEF Packs
  <1>5. [cursor |-> cursor, items |-> items] \in PackedTables(columns, rect, widths)
    BY <1>3, <1>4 DEF PackedTables
  <1> QED
    BY <1>2, <1>5 DEF cursor

\* An entry is put at the end, on the row of the cursor.
LEMMA CellAdded ==
    ASSUME NEW columns, NEW rect, NEW widths, NEW acc \in PackedTables(columns, rect, widths),
           NEW item \in Tasks, item.act = "cell", item.rect \in Areas,
           Flat(item, acc.cursor.output), InLane(rect, widths, Column(columns, item), item.rect),
           acc.cursor.begun, Source(item) = acc.cursor.source
    PROVE  [cursor |-> acc.cursor, items |-> Append(acc.items, item)]
           \in PackedTables(columns, rect, widths)
  <1> DEFINE items == acc.items
             more == Append(items, item)
             n == Len(items)
  <1>1. acc.cursor \in Cursors /\ items \in Seq(Tasks) /\ acc.cursor.output \in Nat
    BY DEF PackedTables, Packs, Cursors
  <1>2. /\ n \in Nat /\ DOMAIN items = 1..n /\ more \in Seq(Tasks) /\ DOMAIN more = 1..n + 1
        /\ \A m \in 1..n : more[m] = items[m]
        /\ more[n + 1] = item
    BY <1>1, AppendProperties, LenProperties
  <1>3. /\ \A m \in 1..n : PackedCell(columns, rect, widths, acc.cursor, items[m])
        /\ \A m, k \in 1..n : Source(items[m]) # Source(items[k]) =>
              items[m].rect.y # items[k].rect.y
    BY <1>2 DEF PackedTables
  <1> HIDE DEF more, n, items
  <1>4. item.rect.y = acc.cursor.output /\ item.rect.height = 1
    BY DEF Flat
  <1>5. PackedCell(columns, rect, widths, acc.cursor, item)
    BY <1>1, <1>4 DEF PackedCell
  <1>6. \A m \in 1..n : items[m].rect.y \in Nat
    BY <1>3, AreaParts DEF PackedCell
  <1>7. \A m \in 1..n : Source(items[m]) # Source(item) => items[m].rect.y # item.rect.y
    BY <1>1, <1>3, <1>4, <1>6 DEF PackedCell
  <1>8. ASSUME NEW m \in DOMAIN more PROVE PackedCell(columns, rect, widths, acc.cursor, more[m])
    <2>1. m \in 1..n \/ m = n + 1
      BY <1>2
    <2> QED
      BY <1>2, <1>3, <1>5, <2>1
  <1>9. ASSUME NEW m \in DOMAIN more, NEW k \in DOMAIN more, Source(more[m]) # Source(more[k])
        PROVE  more[m].rect.y # more[k].rect.y
    <2>1. (m \in 1..n \/ m = n + 1) /\ (k \in 1..n \/ k = n + 1)
      BY <1>2
    <2> QED
      BY <1>2, <1>3, <1>7, <1>9, <2>1
  <1>10. [cursor |-> acc.cursor, items |-> more] \in Packs
    BY <1>1, <1>2 DEF Packs
  <1> QED
    BY <1>8, <1>9, <1>10 DEF PackedTables, more, items

LEMMA TablePacked ==
    ASSUME Drawable, NEW i \in DOMAIN kept, NEW columns \in Seq(Int), columns # <<>>,
           NEW rect \in Areas, kept[i].bounds.width > 0, NEW widths \in Widths(Len(columns))
    PROVE  \E acc \in PackedTables(columns, rect, widths) :
              TableRows(i, rect, columns, widths) = acc.items
  <1> DEFINE order == InOrder(PlacedEntries(i))
             n == Len(order)
             Tables1 == PackedTables(columns, rect, widths)
             Desired(place) == IF place = NoCells THEN rect.y ELSE place.y
             Add(items, k, row) ==
                 IF row >= Min({Bottom(rect), canvas.rows}) THEN items
                 ELSE Append(items, TableCell(k, ColumnOf(columns, kept[k].bounds.x), columns,
                                              rect, kept[i].bounds, widths, row))
             Entry(acc, k, cursor) ==
                 [cursor |-> cursor, items |-> Add(acc.items, k, cursor.output)]
             Turn(acc, k) == Entry(acc, k, NextRow(acc.cursor, kept[k].bounds,
                                                   Desired(Project(kept[k].bounds))))
             step == [z \in Tables1 \X (1..n) |-> Turn(z[1], order[z[2]])]
             Folds(f) == f = [s \in SUBSET DOMAIN order |->
                                 IF s = {} THEN NoItems
                                 ELSE Turn(f[s \ {Max(s)}], order[Max(s)])]
             it == CHOOSE f : Folds(f)
  <1>1. n \in Nat /\ DOMAIN order = 1..n /\ \A k \in 1..n : order[k] \in DOMAIN kept
    <2>1. NodesKept
      BY DEF Drawable
    <2> QED
      BY <2>1, ColumnsOf, OrderedNodes
  <1>2. ASSUME NEW acc \in Tables1, NEW k \in DOMAIN kept PROVE Turn(acc, k) \in Tables1
    <2>1. kept[k].bounds \in Rects /\ kept[i].bounds \in Rects
          /\ Desired(Project(kept[k].bounds)) \in Nat
      BY <1>2, DesiredRow, AreaParts
    <2> DEFINE cursor == NextRow(acc.cursor, kept[k].bounds, Desired(Project(kept[k].bounds)))
               moved == [cursor |-> cursor, items |-> acc.items]
    <2>2. /\ moved \in Tables1 /\ cursor.begun
          /\ cursor.source = kept[k].bounds.y /\ cursor.output \in Nat
      <3> HIDE DEF Desired
      <3> QED
        BY <1>2, <2>1, CursorMoves
    <2> HIDE DEF cursor
    <2> DEFINE c == ColumnOf(columns, kept[k].bounds.x)
               item == TableCell(k, c, columns, rect, kept[i].bounds, widths, cursor.output)
    <2>3. /\ item \in Tasks /\ item.act = "cell" /\ item.node = k /\ item.rect \in Areas
          /\ Flat(item, cursor.output) /\ InLane(rect, widths, c, item.rect)
      BY <1>2, <2>1, <2>2, TableCellIn
    <2> HIDE DEF item
    <2>4. Column(columns, item) = c /\ Source(item) = cursor.source
      BY <2>2, <2>3 DEF Column, Source
    <2> HIDE DEF c
    <2>5. [cursor |-> cursor, items |-> Append(acc.items, item)] \in Tables1
      <3>1. moved.cursor = cursor /\ moved.items = acc.items
        OBVIOUS
      <3> HIDE DEF moved
      <3>2. [cursor |-> moved.cursor, items |-> Append(moved.items, item)] \in Tables1
        BY <2>2, <2>3, <2>4, <3>1, CellAdded
      <3> QED
        BY <3>1, <3>2
    <2>6. Add(acc.items, k, cursor.output) \in {acc.items, Append(acc.items, item)}
      BY DEF item, c
    <2> HIDE DEF Add
    <2>7. Entry(acc, k, cursor) \in Tables1
      BY <2>2, <2>5, <2>6
    <2> QED
      BY <2>7 DEF cursor
  <1> HIDE DEF Turn
  <1>3. step \in [Tables1 \X (1..n) -> Tables1]
    BY <1>1, <1>2
  <1>4. \A a \in Tables1, k \in 1..n : step[<<a, k>>] = Turn(a, order[k])
    OBVIOUS
  <1>5. TableRows(i, rect, columns, widths) = it[1..n].items
    BY <1>1 DEF TableRows, FoldLeft, MapThenFoldSet, Turn
  <1>6. NoItems \in Tables1
    BY NoTablePacked
  <1> HIDE DEF n, step, order, Tables1
  <1>7. Folds(it)
    <2>1. PICK f : FoldsAlways(f, Tables1, n, NoItems, step)
      BY <1>1, <1>3, <1>6, FoldExists
    <2>2. Folds(f)
      BY <1>1, <1>4, <2>1 DEF FoldsAlways
    <2> HIDE DEF Folds
    <2> QED
      BY <2>2
  <1> HIDE DEF it
  <1>8. FoldsWithin(it, Tables1, n, NoItems, step)
    BY <1>1, <1>4, <1>7 DEF FoldsWithin
  <1>9. it[1..n] \in Tables1
    BY <1>1, <1>3, <1>6, <1>8, FoldStaysIn
  <1> QED
    BY <1>5, <1>9 DEF Tables1

LEMMA TableRowsOf ==
    ASSUME Drawable, NEW i \in DOMAIN kept, NEW columns \in Seq(Int), columns # <<>>,
           NEW rect \in Areas, kept[i].bounds.width > 0, NEW widths \in Widths(Len(columns))
    PROVE  TableRows(i, rect, columns, widths) \in Seq(Tasks)
  BY TablePacked DEF PackedTables, Packs

LEMMA TableItemsOf ==
    ASSUME Drawable, NEW i \in DOMAIN kept, IsTable(i)
    PROVE  TableItems(i) \in Seq(Tasks)
  <1> DEFINE columns == infer_grid_columns(i)
             rect == Project(kept[i].bounds)
  <1>1. columns \in Seq(Int) /\ columns # <<>>
    BY ColumnsOf DEF IsTable, HasGrid, Drawable
  <1>2. TableItems(i) = TableAt(i, rect, columns)
    BY DEF TableItems
  <1>3. rect # NoCells => rect \in Areas /\ kept[i].bounds.width > 0
    BY DesiredRow
  <1> HIDE DEF columns, rect
  <1>4. CASE rect = NoCells
    BY <1>2, <1>4 DEF TableAt
  <1>5. CASE rect # NoCells
    <2>1. TableWidths(i, columns, rect) \in Widths(Len(columns))
      BY <1>1, <1>3, <1>5, TableWidthsOf DEF Drawable
    <2>2. TableRows(i, rect, columns, TableWidths(i, columns, rect)) \in Seq(Tasks)
      BY <1>1, <1>3, <1>5, <2>1, TableRowsOf
    <2> QED
      BY <1>2, <1>5, <2>2 DEF TableAt
  <1> QED
    BY <1>4, <1>5

LEMMA TablesOf ==
    ASSUME Drawable, NEW t \in Tables
    PROVE  /\ t \in DOMAIN kept /\ IsTable(t) /\ TableItems(t) \in Seq(Tasks)
           /\ infer_grid_columns(t) \in Seq(Int) /\ infer_grid_columns(t) # <<>>
           /\ kept[t].bounds \in Rects
           /\ Project(kept[t].bounds) # NoCells =>
                 /\ Project(kept[t].bounds) \in Areas /\ Project(kept[t].bounds).width > 0
                 /\ kept[t].bounds.width > 0
  <1>1. t \in DOMAIN kept /\ IsTable(t)
    BY DEF Tables
  <1>2. infer_grid_columns(t) \in Seq(Int) /\ infer_grid_columns(t) # <<>>
    BY <1>1, ColumnsOf DEF IsTable, HasGrid, Drawable
  <1>3. kept[t].bounds \in Rects
    BY <1>1, KeptNode DEF Drawable
  <1>4. Project(kept[t].bounds) # NoCells =>
           /\ Project(kept[t].bounds) \in Areas /\ Project(kept[t].bounds).width > 0
           /\ kept[t].bounds.width > 0
    BY <1>3, PlacesWithin DEF OnCanvas
  <1> QED
    BY <1>1, <1>2, <1>3, <1>4, TableItemsOf

LEMMA ColumnsFill == Drawable => ColumnsFillTheTable
  <1> SUFFICES ASSUME Drawable, NEW t \in Tables, Project(kept[t].bounds) # NoCells
               PROVE  LET rect == Project(kept[t].bounds)
                          widths == TableWidths(t, infer_grid_columns(t), rect)
                      IN  /\ SumOf(widths) = Max({rect.width, Len(widths)})
                          /\ \A c \in DOMAIN widths : widths[c] >= 1
    BY DEF ColumnsFillTheTable
  <1> DEFINE rect == Project(kept[t].bounds)
             columns == infer_grid_columns(t)
             widths == TableWidths(t, columns, rect)
             n == Len(columns)
  <1>1. /\ t \in DOMAIN kept /\ columns \in Seq(Int) /\ columns # <<>>
        /\ rect \in Areas /\ rect.width > 0 /\ kept[t].bounds.width > 0
    BY TablesOf
  <1>2. widths \in Widths(n) /\ SumOf(widths) = Max({rect.width, n}) /\ n \in Nat
    BY <1>1, TableWidthsFill, LenProperties DEF Drawable
  <1> HIDE DEF widths, n
  <1>3. Len(widths) = n /\ \A c \in DOMAIN widths : widths[c] >= 1
    BY <1>2, WidthsOf
  <1> QED
    BY <1>2, <1>3 DEF widths, n

LEMMA TablesApart == Drawable => TableCellsAreApart
  <1> SUFFICES ASSUME Drawable, NEW t \in Tables,
                      NEW m \in DOMAIN TableItems(t), NEW n \in DOMAIN TableItems(t),
                      ~(/\ Source(TableItems(t)[m]) = Source(TableItems(t)[n])
                        /\ Column(infer_grid_columns(t), TableItems(t)[m])
                           = Column(infer_grid_columns(t), TableItems(t)[n]))
               PROVE  ~Overlaps(TableItems(t)[m].rect, TableItems(t)[n].rect)
    BY DEF TableCellsAreApart, SourceOf, Source, Column
  <1> DEFINE rect == Project(kept[t].bounds)
             columns == infer_grid_columns(t)
             widths == TableWidths(t, columns, rect)
             items == TableItems(t)
  <1>1. /\ t \in DOMAIN kept /\ columns \in Seq(Int) /\ columns # <<>>
        /\ rect # NoCells => rect \in Areas /\ rect.width > 0 /\ kept[t].bounds.width > 0
    BY TablesOf
  <1>2. items = TableAt(t, rect, columns)
    BY DEF TableItems
  <1>3. rect # NoCells
    <2> SUFFICES ASSUME rect = NoCells PROVE FALSE
      OBVIOUS
    <2>1. items = <<>>
      BY <1>2 DEF TableAt
    <2> QED
      BY <2>1
  <1>4. items = TableRows(t, rect, columns, widths)
    BY <1>2, <1>3 DEF TableAt
  <1>5. widths \in Widths(Len(columns)) /\ Len(columns) \in Nat
    BY <1>1, <1>3, TableWidthsFill, LenProperties DEF Drawable
  <1> HIDE DEF widths, rect
  <1>6. PICK acc \in PackedTables(columns, rect, widths) : items = acc.items
    BY <1>1, <1>3, <1>4, <1>5, TablePacked
  <1> DEFINE one == items[m]
             other == items[n]
  <1>7. /\ PackedCell(columns, rect, widths, acc.cursor, one)
        /\ PackedCell(columns, rect, widths, acc.cursor, other)
        /\ Source(one) # Source(other) => one.rect.y # other.rect.y
    BY <1>6 DEF PackedTables
  <1>8. ~(Source(one) = Source(other) /\ Column(columns, one) = Column(columns, other))
    OBVIOUS
  <1>9. \A item : Column(columns, item) \in 1..Len(columns)
    BY <1>1, ColumnIs DEF Column
  <1> HIDE DEF items, one, other, columns
  <1>10. ASSUME Column(columns, one) # Column(columns, other)
         PROVE  ~Overlaps(one.rect, other.rect)
    <2>1. Column(columns, one) \in 1..Len(columns) /\ Column(columns, other) \in 1..Len(columns)
      BY <1>9
    <2>2. /\ one.rect \in Areas /\ InLane(rect, widths, Column(columns, one), one.rect)
          /\ other.rect \in Areas /\ InLane(rect, widths, Column(columns, other), other.rect)
      BY <1>7 DEF PackedCell
    <2> QED
      BY <1>1, <1>3, <1>5, <1>10, <2>1, <2>2, LanesApart
  <1>11. ASSUME Source(one) # Source(other)
         PROVE  ~Overlaps(one.rect, other.rect)
    <2>1. one.rect.y \in Nat /\ other.rect.y \in Nat /\ one.rect.y # other.rect.y
          /\ one.rect.height = 1 /\ other.rect.height = 1
      BY <1>7, <1>11, AreaParts DEF PackedCell
    <2>2. Bottom(one.rect) = one.rect.y + 1 /\ Bottom(other.rect) = other.rect.y + 1
      BY <2>1 DEF Bottom
    <2> QED
      BY <2>1, <2>2 DEF Overlaps
  <1>12. ~Overlaps(one.rect, other.rect)
    BY <1>8, <1>10, <1>11
  <1> QED
    BY <1>12 DEF one, other, items

-------------------------------------------------------------------------------
(* The rows of a list: every entry gets a place of its own row on.             *)

\* A place that is moved or resized, part by part.
LEMMA AreaMoved ==
    ASSUME NEW rect \in Areas, NEW y, NEW width
    PROVE  [rect EXCEPT !.y = y, !.width = width]
           = [x |-> rect.x, y |-> y, width |-> width, height |-> rect.height]
  <1> DEFINE one == [rect EXCEPT !.y = y]
  <1>1. one = [x |-> rect.x, y |-> y, width |-> rect.width, height |-> rect.height]
    BY DEF Areas
  <1> HIDE DEF one
  <1>2. [one EXCEPT !.width = width]
        = [x |-> rect.x, y |-> y, width |-> width, height |-> rect.height]
    BY <1>1
  <1> QED
    BY <1>2 DEF one

LEMMA AreaResized ==
    ASSUME NEW rect \in Areas, NEW tall, NEW width
    PROVE  /\ [rect EXCEPT !.height = tall]
              = [x |-> rect.x, y |-> rect.y, width |-> rect.width, height |-> tall]
           /\ [rect EXCEPT !.height = tall, !.width = width]
              = [x |-> rect.x, y |-> rect.y, width |-> width, height |-> tall]
  <1> DEFINE one == [rect EXCEPT !.height = tall]
  <1>1. one = [x |-> rect.x, y |-> rect.y, width |-> rect.width, height |-> tall]
    BY DEF Areas
  <1> HIDE DEF one
  <1>2. [one EXCEPT !.width = width]
        = [x |-> rect.x, y |-> rect.y, width |-> width, height |-> tall]
    BY <1>1
  <1> QED
    BY <1>1, <1>2 DEF one

LEMMA AreaBorrowed ==
    ASSUME NEW rect \in Areas, NEW x, NEW width
    PROVE  [rect EXCEPT !.x = x, !.width = width]
           = [x |-> x, y |-> rect.y, width |-> width, height |-> rect.height]
  <1> DEFINE one == [rect EXCEPT !.x = x]
  <1>1. one = [x |-> x, y |-> rect.y, width |-> rect.width, height |-> rect.height]
    BY DEF Areas
  <1> HIDE DEF one
  <1>2. [one EXCEPT !.width = width]
        = [x |-> x, y |-> rect.y, width |-> width, height |-> rect.height]
    BY <1>1
  <1> QED
    BY <1>2 DEF one

\* A row within a list and the canvas leaves room for lines below it.
LEMMA RowRoom ==
    ASSUME Drawable, NEW whole \in Areas, NEW row \in Nat,
           row < Min({Bottom(whole), canvas.rows})
    PROVE  Min({Bottom(whole), canvas.rows}) - row \in Nat
  <1>1. Bottom(whole) \in Nat /\ canvas.rows \in Nat
    BY AreaParts, CanvasSize
  <1> DEFINE m == Min({Bottom(whole), canvas.rows})
  <1>2. m = IF Bottom(whole) <= canvas.rows THEN Bottom(whole) ELSE canvas.rows
    BY <1>1, MinPair
  <1>3. m \in Nat
    BY <1>1, <1>2
  <1>4. row < m
    OBVIOUS
  <1> HIDE DEF m
  <1>5. m - row \in Nat
    BY <1>3, <1>4
  <1> QED
    BY <1>5 DEF m

LEMMA OnRowOf ==
    ASSUME NEW place \in Areas, NEW row \in Nat, NEW right \in Nat, place.x < right
    PROVE  OnRow(place, row, right) \in Areas /\ OnRow(place, row, right).y = row
  <1>1. place.x \in Nat /\ place.width \in Nat
    BY AreaParts
  <1>2. right - place.x \in Nat
    BY <1>1
  <1> DEFINE w == Min({place.width, right - place.x})
  <1>3. w \in Nat
    <2>1. w = IF place.width <= right - place.x THEN place.width ELSE right - place.x
      BY <1>1, <1>2, MinPair
    <2> QED
      BY <1>1, <1>2, <2>1
  <1>4. OnRow(place, row, right)
        = [x |-> place.x, y |-> row, width |-> w, height |-> place.height]
    <2>1. [place EXCEPT !.y = row, !.width = Min({@, right - place.x})]
          = [place EXCEPT !.y = row, !.width = w]
      BY DEF Areas
    <2> HIDE DEF w
    <2> QED
      BY <2>1, AreaMoved DEF OnRow
  <1> HIDE DEF w
  <1> QED
    BY <1>1, <1>3, <1>4, AreaParts DEF Areas

LEMMA WrappedOf ==
    ASSUME Drawable, NEW k \in DOMAIN kept, NEW rect \in Areas, NEW rows \in Nat
    PROVE  Wrapped(k, rect, rows) \in Areas
  <1>1. rect.width \in Nat /\ rect.height \in Nat \ {0}
    BY AreaParts
  <1>2. bullet_list_label(k) \in Texts
    BY WrappedTextOf DEF Drawable
  <1> DEFINE lines == WrapFlowText(bullet_list_label(k), rect.width, rows)
             T == {rect.height, Len(lines), 1}
  <1>3. lines \in Pages(rows)
    BY <1>1, <1>2, WrapFlowTextOf
  <1>4. Wrapped(k, rect, rows) = [rect EXCEPT !.height = Max(T)]
    BY DEF Wrapped
  <1> HIDE DEF lines
  <1>5. Len(lines) \in Nat
    BY <1>3, LenProperties DEF Pages
  <1>6. Max(T) \in T /\ \A n \in T : n <= Max(T)
    <2> DEFINE n == rect.height + Len(lines)
    <2>1. n \in Nat /\ T \subseteq 0..n /\ T # {}
      BY <1>1, <1>5
    <2> HIDE DEF n, T
    <2> QED
      BY <2>1, EndsOf
  <1>7. 1 <= Max(T) /\ Max(T) \in Nat
    BY <1>1, <1>5, <1>6
  <1> HIDE DEF T
  <1>8. Max(T) \in Nat \ {0}
    BY <1>7
  <1>9. Wrapped(k, rect, rows)
        = [x |-> rect.x, y |-> rect.y, width |-> rect.width, height |-> Max(T)]
    BY <1>4, AreaResized
  <1> QED
    BY <1>8, <1>9, AreaParts DEF Areas

LEMMA WidenedOf ==
    ASSUME NEW rect \in Areas, NEW right \in Nat
    PROVE  Widened(rect, right) \in Areas /\ Widened(rect, right).x = rect.x
  <1>1. rect.x \in Nat /\ rect.width \in Nat /\ right - rect.x \in Int
    BY AreaParts
  <1> DEFINE w == Max({rect.width, right - rect.x})
  <1>2. w \in Nat
    <2>1. w = IF rect.width <= right - rect.x THEN right - rect.x ELSE rect.width
      BY <1>1, MaxPair
    <2> QED
      BY <1>1, <2>1
  <1>3. Widened(rect, right) = [x |-> rect.x, y |-> rect.y, width |-> w, height |-> 1]
    <2>1. [rect EXCEPT !.height = 1, !.width = Max({@, right - rect.x})]
          = [rect EXCEPT !.height = 1, !.width = w]
      BY DEF Areas
    <2> HIDE DEF w
    <2> QED
      BY <2>1, AreaResized DEF Widened
  <1> HIDE DEF w
  <1> QED
    BY <1>1, <1>2, <1>3, AreaParts DEF Areas

\* A tree item borrows no more than there is to its left.
LEMMA BorrowedOf ==
    ASSUME NEW rect \in Areas, NEW wanted \in Nat, NEW room \in Int, room <= rect.x
    PROVE  WidenTreeItem(rect, wanted, room) \in Areas
  <1>1. rect.x \in Nat /\ rect.width \in Nat /\ wanted - rect.width \in Int
    BY AreaParts
  <1> DEFINE a == Max({wanted - rect.width, 0})
             b == Max({room, 0})
             borrow == Min({a, b})
  <1>2. a \in Nat /\ b \in Nat /\ b <= rect.x
    <2>1. /\ a = IF wanted - rect.width <= 0 THEN 0 ELSE wanted - rect.width
          /\ b = IF room <= 0 THEN 0 ELSE room
      BY <1>1, MaxPair
    <2> HIDE DEF a, b
    <2> QED
      BY <1>1, <2>1
  <1>3. WidenTreeItem(rect, wanted, room)
        = [x |-> rect.x - borrow, y |-> rect.y, width |-> rect.width + borrow,
           height |-> rect.height]
    <2>1. WidenTreeItem(rect, wanted, room)
          = [rect EXCEPT !.x = @ - borrow, !.width = @ + borrow]
      BY DEF WidenTreeItem
    <2> HIDE DEF borrow
    <2>2. [rect EXCEPT !.x = @ - borrow, !.width = @ + borrow]
          = [rect EXCEPT !.x = rect.x - borrow, !.width = rect.width + borrow]
      BY DEF Areas
    <2> QED
      BY <2>1, <2>2, AreaBorrowed
  <1> HIDE DEF a, b
  <1>4. borrow \in Nat /\ borrow <= rect.x
    <2>1. borrow = IF a <= b THEN a ELSE b
      BY <1>2, MinPair
    <2> QED
      BY <1>1, <1>2, <2>1
  <1> HIDE DEF borrow
  <1>5. rect.x - borrow \in Nat /\ rect.width + borrow \in Nat
    BY <1>1, <1>4
  <1> QED
    BY <1>3, <1>5, AreaParts DEF Areas

LEMMA RowRectOf ==
    ASSUME Drawable, NEW i \in DOMAIN kept, NEW k \in DOMAIN kept,
           NEW rect \in Areas, NEW whole \in Areas,
           rect.y < Min({Bottom(whole), canvas.rows})
    PROVE  RowRect(i, k, rect, whole) \in Areas
  <1> DEFINE rows == Min({Bottom(whole), canvas.rows}) - rect.y
             wide == Widened(rect, Right(whole))
  <1>1. /\ rect.x \in Nat /\ rect.y \in Nat
        /\ whole.x \in Nat /\ Right(whole) \in Nat
    BY AreaParts
  <1>2. rows \in Nat
    BY <1>1, RowRoom
  <1>3. Wrapped(k, rect, rows) \in Areas
    BY <1>2, WrappedOf
  <1>4. wide \in Areas /\ wide.x = rect.x
    BY <1>1, WidenedOf
  <1>5. WidenTreeItem(wide, LabelWidth(k) + 3, rect.x - whole.x) \in Areas
    <2>1. LabelWidth(k) + 3 \in Nat
      BY LabelWidthOf DEF Drawable
    <2>2. rect.x - whole.x \in Int /\ rect.x - whole.x <= rect.x
      BY <1>1
    <2> HIDE DEF wide
    <2> QED
      BY <1>4, <2>1, <2>2, BorrowedOf
  <1>6. [rect EXCEPT !.height = 1] \in Areas
    <2>1. [rect EXCEPT !.height = 1]
          = [x |-> rect.x, y |-> rect.y, width |-> rect.width, height |-> 1]
      BY AreaResized
    <2> QED
      BY <2>1, AreaParts DEF Areas
  <1> QED
    BY <1>3, <1>4, <1>5, <1>6 DEF RowRect

\* The row an entry is put on is the one it is drawn at, however it is resized.
LEMMA RowStays ==
    ASSUME NEW rect \in Areas, NEW i, NEW k, NEW whole
    PROVE  RowRect(i, k, rect, whole).y = rect.y
  <1>1. \A rows : Wrapped(k, rect, rows).y = rect.y
    <2> TAKE rows
    <2> DEFINE tall == Max({rect.height, Len(WrapFlowText(bullet_list_label(k), rect.width, rows)),
                            1})
    <2>1. Wrapped(k, rect, rows) = [rect EXCEPT !.height = tall]
      BY DEF Wrapped
    <2> HIDE DEF tall
    <2> QED
      BY <2>1, AreaResized
  <1>2. ASSUME NEW right
        PROVE  Widened(rect, right).y = rect.y /\ DOMAIN Widened(rect, right) = DOMAIN rect
    <2> DEFINE width == Max({rect.width, right - rect.x})
    <2>1. Widened(rect, right) = [rect EXCEPT !.height = 1, !.width = width]
      BY DEF Widened, Areas
    <2> HIDE DEF width
    <2> QED
      BY <2>1 DEF Areas
  <1>3. ASSUME NEW place, DOMAIN place = DOMAIN rect, NEW wanted, NEW room
        PROVE  WidenTreeItem(place, wanted, room).y = place.y
    <2> DEFINE borrow == Min({Max({wanted - place.width, 0}), Max({room, 0})})
    <2>1. WidenTreeItem(place, wanted, room)
          = [place EXCEPT !.x = @ - borrow, !.width = @ + borrow]
      BY DEF WidenTreeItem
    <2>2. DOMAIN place = {"x", "y", "width", "height"}
      BY <1>3 DEF Areas
    <2> HIDE DEF borrow
    <2> QED
      BY <2>1, <2>2
  <1>4. [rect EXCEPT !.height = 1].y = rect.y
    BY AreaResized
  <1> QED
    BY <1>1, <1>2, <1>3, <1>4 DEF RowRect

\* A list as far as it is packed: its entries are above the row the cursor is on,
\* but those that share it, and above those that come later from other rows.
PackedRow(cursor, item) ==
    item.act = "row" =>
        /\ item.rect \in Areas /\ cursor.begun
        /\ Bottom(item.rect) <= cursor.output + 1
        /\ Source(item) # cursor.source => Bottom(item.rect) <= cursor.output
\* Two entries, the first of which comes before the other.
RowsInOrder(one, other) ==
    one.act = "row" /\ other.act = "row" /\ Source(one) # Source(other)
        => Bottom(one.rect) <= other.rect.y
PackedLists ==
    {acc \in Packs :
        /\ \A m \in DOMAIN acc.items : PackedRow(acc.cursor, acc.items[m])
        /\ \A m, n \in DOMAIN acc.items : m < n => RowsInOrder(acc.items[m], acc.items[n])}

LEMMA NoListPacked == NoItems \in PackedLists
  <1>1. NoItems \in Packs /\ DOMAIN NoItems.items = {}
    BY NothingPacked DEF NoItems
  <1> QED
    BY <1>1 DEF PackedLists

\* The cursor goes down, past the entries of other rows.
LEMMA CursorDescends ==
    ASSUME NEW acc \in PackedLists, NEW cursor \in Cursors,
           acc.cursor.begun =>
              /\ cursor.begun /\ acc.cursor.output <= cursor.output
              /\ cursor.source = acc.cursor.source \/ acc.cursor.output < cursor.output
    PROVE  [cursor |-> cursor, items |-> acc.items] \in PackedLists
  <1> DEFINE items == acc.items
  <1>1. /\ acc.cursor \in Cursors /\ items \in Seq(Tasks)
        /\ acc.cursor.output \in Nat /\ cursor.output \in Nat
    BY DEF PackedLists, Packs, Cursors
  <1>2. ASSUME NEW m \in DOMAIN items PROVE PackedRow(cursor, items[m])
    <2>1. PackedRow(acc.cursor, items[m])
      BY DEF PackedLists
    <2> SUFFICES ASSUME items[m].act = "row" PROVE PackedRow(cursor, items[m])
      BY DEF PackedRow
    <2>2. /\ items[m].rect \in Areas /\ acc.cursor.begun
          /\ Bottom(items[m].rect) <= acc.cursor.output + 1
          /\ Source(items[m]) # acc.cursor.source => Bottom(items[m].rect) <= acc.cursor.output
      BY <2>1 DEF PackedRow
    <2>3. Bottom(items[m].rect) \in Nat
      BY <2>2, AreaParts
    <2>4. Bottom(items[m].rect) <= cursor.output + 1
      BY <1>1, <2>2, <2>3
    <2>5. Source(items[m]) # cursor.source => Bottom(items[m].rect) <= cursor.output
      BY <1>1, <2>2, <2>3
    <2> QED
      BY <2>2, <2>4, <2>5 DEF PackedRow
  <1>3. [cursor |-> cursor, items |-> items] \in Packs
    BY <1>1 DEF Packs
  <1> QED
    BY <1>2, <1>3 DEF PackedLists

\* An entry that is given rows pushes the cursor to the last of them.
LEMMA RowAdded ==
    ASSUME NEW acc \in PackedLists, acc.cursor.begun,
           NEW k \in DOMAIN kept, kept[k].bounds.y = acc.cursor.source,
           NEW rect \in Areas, rect.y = acc.cursor.output
    PROVE  AddRow(acc, acc.cursor, k, rect) \in PackedLists
  <1> DEFINE items == acc.items
             item == Item("row", k, rect)
             more == Append(items, item)
             cursor == PastEntry(acc.cursor, rect)
             n == Len(items)
  <1>1. acc.cursor \in Cursors /\ items \in Seq(Tasks) /\ acc.cursor.output \in Nat
    BY DEF PackedLists, Packs, Cursors
  <1>2. /\ rect.y \in Nat /\ rect.height \in Nat \ {0} /\ Bottom(rect) = rect.y + rect.height
    BY AreaParts DEF Bottom
  <1>3. /\ cursor \in Cursors /\ cursor.begun /\ cursor.source = acc.cursor.source
        /\ cursor.output = rect.y + rect.height - 1
        /\ cursor.output \in Nat /\ acc.cursor.output <= cursor.output
    BY <1>1, <1>2 DEF PastEntry, Cursors
  <1>4. item \in Tasks /\ item.act = "row" /\ item.rect = rect /\ Source(item) = acc.cursor.source
    BY DEF Item, Tasks, Source
  <1>5. /\ n \in Nat /\ DOMAIN items = 1..n /\ more \in Seq(Tasks) /\ DOMAIN more = 1..n + 1
        /\ \A m \in 1..n : more[m] = items[m]
        /\ more[n + 1] = item
    BY <1>1, <1>4, AppendProperties, LenProperties
  <1>6. AddRow(acc, acc.cursor, k, rect) = [cursor |-> cursor, items |-> more]
    BY DEF AddRow
  <1> HIDE DEF cursor, item
  <1>7. [cursor |-> cursor, items |-> items] \in PackedLists
    BY <1>3, CursorDescends
  <1>8. PackedRow(cursor, item)
    BY <1>2, <1>3, <1>4 DEF PackedRow
  <1>9. /\ \A m \in 1..n : PackedRow(acc.cursor, items[m]) /\ PackedRow(cursor, items[m])
        /\ \A m, j \in 1..n : m < j => RowsInOrder(items[m], items[j])
    BY <1>5, <1>7 DEF PackedLists
  <1> HIDE DEF more, n, items
  <1>10. \A m \in 1..n : RowsInOrder(items[m], item)
    BY <1>4, <1>9 DEF PackedRow, RowsInOrder
  <1>11. ASSUME NEW m \in DOMAIN more PROVE PackedRow(cursor, more[m])
    <2>1. m \in 1..n \/ m = n + 1
      BY <1>5
    <2> QED
      BY <1>5, <1>8, <1>9, <2>1
  <1>12. ASSUME NEW m \in DOMAIN more, NEW j \in DOMAIN more, m < j
         PROVE  RowsInOrder(more[m], more[j])
    <2>1. m \in 1..n /\ (j \in 1..n \/ j = n + 1)
      BY <1>5, <1>12
    <2> QED
      BY <1>5, <1>9, <1>10, <1>12, <2>1
  <1>13. [cursor |-> cursor, items |-> more] \in Packs
    BY <1>3, <1>5 DEF Packs
  <1>14. [cursor |-> cursor, items |-> more] \in PackedLists
    BY <1>11, <1>12, <1>13 DEF PackedLists
  <1> DEFINE packed == [cursor |-> cursor, items |-> more]
  <1>15. AddRow(acc, acc.cursor, k, rect) = packed /\ packed \in PackedLists
    BY <1>6, <1>14
  <1> QED
    BY <1>15

\* An entry without a place is visited in its turn.
LEMMA VisitAdded ==
    ASSUME NEW acc \in PackedLists, NEW k \in DOMAIN kept
    PROVE  [acc EXCEPT !.items = Append(@, Visit(k))] \in PackedLists
  <1> DEFINE items == acc.items
             item == Visit(k)
             more == Append(items, item)
             n == Len(items)
  <1>1. acc.cursor \in Cursors /\ items \in Seq(Tasks)
        /\ acc = [cursor |-> acc.cursor, items |-> items]
    BY DEF PackedLists, Packs
  <1>2. item \in Tasks /\ item.act = "visit"
    BY DEF Visit, Tasks
  <1>3. /\ n \in Nat /\ DOMAIN items = 1..n /\ more \in Seq(Tasks) /\ DOMAIN more = 1..n + 1
        /\ \A m \in 1..n : more[m] = items[m]
        /\ more[n + 1] = item
    BY <1>1, <1>2, AppendProperties, LenProperties
  <1>4. [acc EXCEPT !.items = Append(@, Visit(k))] = [cursor |-> acc.cursor, items |-> more]
    BY <1>1
  <1>5. /\ \A m \in 1..n : PackedRow(acc.cursor, items[m])
        /\ \A m, j \in 1..n : m < j => RowsInOrder(items[m], items[j])
    BY <1>3 DEF PackedLists
  <1> HIDE DEF more, n, items, item
  <1>6. \A m \in DOMAIN more : m \in 1..n \/ more[m].act = "visit"
    BY <1>2, <1>3
  <1>7. \A m \in DOMAIN more : PackedRow(acc.cursor, more[m])
    BY <1>3, <1>5, <1>6 DEF PackedRow
  <1>8. ASSUME NEW m \in DOMAIN more, NEW j \in DOMAIN more, m < j
        PROVE  RowsInOrder(more[m], more[j])
    BY <1>3, <1>5, <1>6, <1>8 DEF RowsInOrder
  <1>9. [cursor |-> acc.cursor, items |-> more] \in Packs
    BY <1>1, <1>3 DEF Packs
  <1>10. [cursor |-> acc.cursor, items |-> more] \in PackedLists
    BY <1>7, <1>8, <1>9 DEF PackedLists
  <1> QED
    BY <1>4, <1>10

LEMMA EntryPacked ==
    ASSUME Drawable, NEW i \in DOMAIN kept, NEW k \in DOMAIN kept, NEW whole \in Areas,
           NEW acc \in PackedLists
    PROVE  CollectionEntry(acc, i, k, Project(kept[k].bounds), whole) \in PackedLists
  <1> DEFINE place == Project(kept[k].bounds)
             cursor == NextRow(acc.cursor, kept[k].bounds, place.y)
             row == OnRow(place, cursor.output, Right(whole))
             rect == RowRect(i, k, row, whole)
             moved == [cursor |-> cursor, items |-> acc.items]
  <1>1. /\ acc.cursor \in Cursors /\ acc.items \in Seq(Tasks)
        /\ acc = [cursor |-> acc.cursor, items |-> acc.items]
        /\ acc.cursor.output \in Nat
    BY DEF PackedLists, Packs, Cursors
  <1>2. Right(whole) \in Nat /\ Bottom(whole) \in Nat /\ canvas.rows \in Nat
    BY AreaParts, CanvasSize
  <1>3. CASE ~kept[k].placed
    BY <1>3, VisitAdded DEF CollectionEntry
  <1>4. CASE kept[k].placed /\ place # NoCells /\ ~(place.x >= Right(whole))
    <2>1. place \in Areas /\ kept[k].bounds \in Rects /\ place.y \in Nat /\ place.x \in Nat
      BY <1>4, DesiredRow, AreaParts
    <2>2. place.x < Right(whole)
      BY <1>2, <1>4, <2>1
    <2> HIDE DEF place
    <2>3. /\ cursor \in Cursors /\ cursor.output \in Nat /\ cursor.begun
          /\ cursor.source = kept[k].bounds.y
          /\ acc.cursor.begun => \/ cursor = acc.cursor /\ acc.cursor.source = kept[k].bounds.y
                                 \/ acc.cursor.output < cursor.output
      BY <1>1, <2>1, NextRowBelow
    <2> HIDE DEF cursor
    <2>4. moved \in PackedLists
      BY <1>1, <2>3, CursorDescends
    <2>5. row \in Areas /\ row.y = cursor.output
      BY <1>2, <2>1, <2>2, <2>3, OnRowOf
    <2> HIDE DEF row
    <2>6. ASSUME ~(cursor.output >= Min({Bottom(whole), canvas.rows}))
          PROVE  AddRow(acc, cursor, k, rect) \in PackedLists
      <3>1. row.y < Min({Bottom(whole), canvas.rows})
        <4> DEFINE m == Min({Bottom(whole), canvas.rows})
        <4>1. m \in Int
          <5>1. m = IF Bottom(whole) <= canvas.rows THEN Bottom(whole) ELSE canvas.rows
            BY <1>2, MinPair
          <5> QED
            BY <1>2, <5>1
        <4>2. ~(cursor.output >= m)
          BY <2>6
        <4> HIDE DEF m
        <4>3. row.y < m
          BY <2>3, <2>5, <4>1, <4>2
        <4> QED
          BY <4>3 DEF m
      <3>2. rect \in Areas /\ rect.y = cursor.output
        BY <2>5, <3>1, RowRectOf, RowStays
      <3> HIDE DEF rect
      <3>3. moved.cursor = cursor /\ moved.items = acc.items
        OBVIOUS
      <3> HIDE DEF moved
      <3>4. AddRow(moved, moved.cursor, k, rect) \in PackedLists
        BY <2>3, <2>4, <3>2, <3>3, RowAdded
      <3> QED
        BY <3>3, <3>4 DEF AddRow
    <2>7. [acc EXCEPT !.cursor = cursor] = moved
      BY <1>1
    <2>8. CollectionRow(acc, i, k, place, cursor, whole) \in PackedLists
      BY <2>4, <2>6, <2>7 DEF CollectionRow, rect, row
    <2> QED
      BY <1>4, <2>8 DEF CollectionEntry, cursor, place
  <1>5. CASE kept[k].placed /\ (place = NoCells \/ place.x >= Right(whole))
    BY <1>5 DEF CollectionEntry
  <1> QED
    BY <1>3, <1>4, <1>5

LEMMA ListPacked ==
    ASSUME Drawable, NEW i \in DOMAIN kept, NEW whole \in Areas
    PROVE  \E acc \in PackedLists : CollectionIn(i, whole) = acc.items
  <1> DEFINE order == InOrder(Entries(i))
             n == Len(order)
             Turn(acc, k) == CollectionEntry(acc, i, k, Project(kept[k].bounds), whole)
             step == [z \in PackedLists \X (1..n) |-> Turn(z[1], order[z[2]])]
             Folds(f) == f = [s \in SUBSET DOMAIN order |->
                                 IF s = {} THEN NoItems
                                 ELSE Turn(f[s \ {Max(s)}], order[Max(s)])]
             it == CHOOSE f : Folds(f)
  <1>1. n \in Nat /\ DOMAIN order = 1..n /\ \A k \in 1..n : order[k] \in DOMAIN kept
    <2>1. NodesKept
      BY DEF Drawable
    <2> QED
      BY <2>1, ColumnsOf, OrderedNodes
  <1>2. \A acc \in PackedLists, k \in DOMAIN kept : Turn(acc, k) \in PackedLists
    BY EntryPacked
  <1> HIDE DEF Turn
  <1>3. step \in [PackedLists \X (1..n) -> PackedLists]
    BY <1>1, <1>2
  <1>4. \A a \in PackedLists, k \in 1..n : step[<<a, k>>] = Turn(a, order[k])
    OBVIOUS
  <1>5. CollectionIn(i, whole) = it[1..n].items
    BY <1>1 DEF CollectionIn, FoldLeft, MapThenFoldSet, Turn
  <1> HIDE DEF n, step, order
  <1>6. Folds(it)
    <2>1. PICK f : FoldsAlways(f, PackedLists, n, NoItems, step)
      BY <1>1, <1>3, NoListPacked, FoldExists
    <2>2. Folds(f)
      BY <1>1, <1>4, <2>1 DEF FoldsAlways
    <2> HIDE DEF Folds
    <2> QED
      BY <2>2
  <1> HIDE DEF it
  <1>7. FoldsWithin(it, PackedLists, n, NoItems, step)
    BY <1>1, <1>4, <1>6 DEF FoldsWithin
  <1>8. it[1..n] \in PackedLists
    BY <1>1, <1>3, <1>7, NoListPacked, FoldStaysIn
  <1> QED
    BY <1>5, <1>8

LEMMA WholeOf ==
    ASSUME Drawable, NEW i \in DOMAIN kept
    PROVE  \E whole \in Areas : CollectionItems(i) = CollectionIn(i, whole)
  <1> DEFINE own == IF kept[i].placed THEN Project(kept[i].bounds) ELSE NoCells
  <1>1. Whole(own) \in Areas
    <2>1. own # NoCells => own \in Areas
      BY DesiredRow
    <2>2. [x |-> 0, y |-> 0, width |-> canvas.cols, height |-> canvas.rows] \in Areas
      BY CanvasSize DEF Areas
    <2> HIDE DEF own
    <2> QED
      BY <2>1, <2>2 DEF Whole
  <1>2. CollectionItems(i) = CollectionIn(i, Whole(own))
    BY DEF CollectionItems
  <1> HIDE DEF own
  <1> QED
    BY <1>1, <1>2

LEMMA CollectionOf ==
    ASSUME Drawable, NEW i \in DOMAIN kept
    PROVE  CollectionItems(i) \in Seq(Tasks)
  BY WholeOf, ListPacked DEF PackedLists, Packs

LEMMA ListsApart == Drawable => ListRowsAreApart
  <1> SUFFICES ASSUME Drawable, NEW i \in DOMAIN kept,
                      NEW m \in DOMAIN CollectionItems(i), NEW n \in DOMAIN CollectionItems(i),
                      m < n
               PROVE  RowsInOrder(CollectionItems(i)[m], CollectionItems(i)[n])
    BY DEF ListRowsAreApart, SourceOf, Source, RowsInOrder
  <1>1. PICK whole \in Areas : CollectionItems(i) = CollectionIn(i, whole)
    BY WholeOf
  <1>2. PICK acc \in PackedLists : CollectionItems(i) = acc.items
    BY <1>1, ListPacked
  <1> QED
    BY <1>2 DEF PackedLists

\* What is left to draw below a node.
LEMMA BelowOf ==
    ASSUME Drawable, NEW i \in DOMAIN kept
    PROVE  Below(i) \in Seq(Tasks)
  <1>1. IsTable(i) => TableItems(i) \in Seq(Tasks)
    BY TableItemsOf
  <1>2. CollectionItems(i) \in Seq(Tasks)
    BY CollectionOf
  <1>3. Visits(Kids(i)) \in Seq(Tasks) /\ <<>> \in Seq(Tasks)
    BY FamilyOf, VisitsOf DEF Drawable
  <1> QED
    BY <1>1, <1>2, <1>3 DEF Below

-------------------------------------------------------------------------------
(* Whatever is drawn of a node leaves the canvas whole.                        *)

LEMMA ControlKeeps ==
    ASSUME Drawable, NEW rect \in Areas, NEW i \in DOMAIN kept, NEW role, NEW label \in Texts
    PROVE  draw_spatial_control(canvas, rect, i, role, label) \in Canvases(Cols, canvas.rows)
  <1> DEFINE c == Cols
             r == canvas.rows
             cv == canvas
             scroll == kept[i].scroll
             marks == [k \in 1..rect.width |-> Mark]
  <1>1. /\ c \in Nat /\ r \in Nat /\ cv \in Canvases(c, r)
    BY Limits DEF Drawable
  <1>2. /\ rect.x \in Nat /\ rect.y \in Nat /\ rect.width \in Nat
        /\ Right(rect) \in Nat /\ Bottom(rect) \in Nat /\ Middle(rect) \in Nat
    BY AreaParts
  <1>3. scroll \in 0..2 /\ WrappedText(i) \in Texts
    BY KeptNode, WrappedTextOf DEF Drawable
  <1>4. FlowBound(i, rect) \in Int
    BY <1>2, CanvasSize DEF FlowBound
  <1> HIDE DEF c, r, cv, scroll
  \* Texts that flow or are wrapped.
  <1>5. /\ draw_text_area(cv, rect, label, scroll) \in Canvases(c, r)
        /\ draw_multiline_text(cv, rect, label, scroll) \in Canvases(c, r)
        /\ draw_flow_text(cv, rect, WrappedText(i)) \in Canvases(c, r)
    <2>1. /\ draw_text_area(cv, rect, label, scroll) \in Canvases(c, r)
          /\ draw_multiline_text(cv, rect, label, scroll) \in Canvases(c, r)
      BY <1>1, <1>3, TextAreaKeeps
    <2>2. draw_flow_text(cv, rect, WrappedText(i)) \in Canvases(c, r)
      BY <1>1, <1>3, LinesKeep
    <2> QED
      BY <2>1, <2>2
  <1>6. flow_text_bounded(cv, rect.x, Middle(rect), FlowBound(i, rect), label) \in Canvases(c, r)
    BY <1>1, <1>2, <1>4, FlowKeeps
  \* Boxes, borders and labels.
  <1>7. /\ draw_labeled_box(cv, rect, label) \in Canvases(c, r)
        /\ draw_titled_border(cv, rect, label) \in Canvases(c, r)
        /\ IsBox(rect) => Framed(cv, rect, Middle(rect), label) \in Canvases(c, r)
    BY <1>1, BoxKeeps
  <1>8. draw_intrinsic_label(cv, rect, <<"[", "x", "]", Space>> \o label) \in Canvases(c, r)
    <2>1. <<"[", "x", "]", Space>> \o label \in Texts
      BY Letters, ConcatProperties DEF Texts
    <2> DEFINE text == <<"[", "x", "]", Space>> \o label
    <2> HIDE DEF text
    <2>2. text \in Texts
      BY <2>1 DEF text
    <2>3. draw_intrinsic_label(cv, rect, text) \in Canvases(c, r)
      BY <1>1, <2>2, BoxKeeps
    <2> QED
      BY <2>3 DEF text
  <1>9. \A trailing : draw_inline_label(cv, rect, label, trailing) \in Canvases(c, r)
    BY <1>1, InlineKeeps
  \* Lines of marks, and texts of their own.
  <1>10. horizontal(cv, rect.x, Middle(rect), rect.width) \in Canvases(c, r)
    BY <1>1, DecorationKeeps DEF horizontal
  <1>11. /\ DrawText(cv, rect.x, Middle(rect), rect.width, marks) \in Canvases(c, r)
         /\ DrawText(cv, rect.x, rect.y, rect.width, Message) \in Canvases(c, r)
    <2>1. marks \in Texts
      <3>1. Mark \in Glyphs
        BY CanvasSigns
      <3>2. marks \in [1..rect.width -> Glyphs]
        BY <3>1
      <3> QED
        BY <1>2, <3>2, SeqDef DEF Texts
    <2> HIDE DEF marks
    <2>2. rect.width \in Int /\ Message \in Texts
      BY <1>2, Letters
    <2> QED
      BY <1>1, <1>2, <2>1, <2>2, DrawTextKeeps
  <1>12. DrawTreeItem(cv, rect, label) \in Canvases(c, r)
    <2> DEFINE text == <<Space, Space>> \o label
               width == Max({rect.width - 1, 1})
    <2>1. text \in Texts
      BY Letters, ConcatProperties DEF Texts
    <2>2. width \in Nat
      <3>1. rect.width - 1 \in Int /\ 1 \in Int
        BY <1>2
      <3>2. width = IF rect.width - 1 <= 1 THEN 1 ELSE rect.width - 1
        BY <3>1, MaxPair
      <3> HIDE DEF width
      <3> QED
        BY <1>2, <3>2
    <2>3. DrawTreeItem(cv, rect, label)
          = DrawText(cv, rect.x, Middle(rect), rect.width, Elide(text, width))
      BY DEF DrawTreeItem
    <2> HIDE DEF text, width
    <2>4. Elide(text, width) \in Texts
      BY <2>1, <2>2, ElideOf
    <2>5. rect.width \in Int
      BY <1>2
    <2> QED
      BY <1>1, <1>2, <2>3, <2>4, <2>5, DrawTextKeeps
  <1> HIDE DEF marks
  <1>13. draw_spatial_control(cv, rect, i, role, label) \in Canvases(c, r)
    <2>1. CASE IsArea(i)
      BY <1>5, <2>1 DEF draw_spatial_control, scroll
    <2>2. CASE ~IsArea(i) /\ FlowsWrapped(i)
      BY <1>5, <2>2 DEF draw_spatial_control
    <2>3. CASE ~IsArea(i) /\ ~FlowsWrapped(i) /\ role = "StaticText" /\ IsMultiline(label)
      BY <1>5, <2>3 DEF draw_spatial_control, scroll
    <2>4. CASE /\ ~IsArea(i) /\ ~FlowsWrapped(i) /\ ~(role = "StaticText" /\ IsMultiline(label))
               /\ FlowsInLine(i, rect, label)
      BY <1>6, <2>4 DEF draw_spatial_control
    <2>5. CASE /\ ~IsArea(i) /\ ~FlowsWrapped(i) /\ ~(role = "StaticText" /\ IsMultiline(label))
               /\ ~FlowsInLine(i, rect, label)
      <3> DEFINE result == draw_spatial_control(cv, rect, i, role, label)
      <3>1. CASE role \in {"TextField", "Button"}
        BY <1>7, <2>5, <3>1 DEF draw_spatial_control
      <3>2. CASE role = "CheckBox"
        BY <1>8, <2>5, <3>2 DEF draw_spatial_control
      <3>3. CASE role = "Dialog"
        BY <1>7, <2>5, <3>3 DEF draw_spatial_control
      <3>4. CASE role = "TableCell" /\ IsBox(rect)
        BY <1>7, <2>5, <3>4 DEF draw_spatial_control
      <3>5. CASE role = "Separator"
        BY <1>10, <2>5, <3>5 DEF draw_spatial_control
      <3>6. CASE role = "ProgressBar"
        BY <1>11, <2>5, <3>6 DEF draw_spatial_control, marks
      <3>7. CASE role = "TreeItem"
        BY <1>12, <2>5, <3>7 DEF draw_spatial_control
      <3>8. CASE role = "Group" /\ OnlyBars(i)
        BY <1>11, <2>5, <3>8 DEF draw_spatial_control
      <3>9. CASE /\ role \notin {"TextField", "Button", "CheckBox", "Dialog", "Separator",
                                 "ProgressBar", "TreeItem"}
                 /\ ~(role = "TableCell" /\ IsBox(rect)) /\ ~(role = "Group" /\ OnlyBars(i))
        BY <1>9, <2>5, <3>9 DEF draw_spatial_control
      <3> QED
        BY <3>1, <3>2, <3>3, <3>4, <3>5, <3>6, <3>7, <3>8, <3>9
    <2> QED
      BY <2>1, <2>2, <2>3, <2>4, <2>5
  <1> QED
    BY <1>13 DEF c, r, cv

LEMMA ShownKeeps ==
    ASSUME Drawable, NEW rect \in Areas, NEW i \in DOMAIN kept
    PROVE  Shown(rect, i) \in Canvases(Cols, canvas.rows)
  <1> DEFINE label == IF NonEmpty(kept[i].label) THEN kept[i].label ELSE <<>>
  <1>1. label \in Texts
    BY KeptNode, Letters DEF Drawable
  <1>2. Shown(rect, i) = draw_spatial_control(canvas, rect, i, kept[i].role, label)
    BY DEF Shown
  <1> HIDE DEF label
  <1> QED
    BY <1>1, <1>2, ControlKeeps

\* A control stays in its place, whatever it is, unless it may be longer.
LEMMA ControlWithin ==
    ASSUME Drawable, NEW rect \in Areas, NEW i \in DOMAIN kept, NEW label \in Texts,
           kept[i].role \notin {"MenuItem", "ListItem", "CheckBox"}
    PROVE  Within(rect, canvas.at,
                  draw_spatial_control(canvas, rect, i, kept[i].role, label).at,
                  Cols, canvas.rows)
  <1> DEFINE c == Cols
             r == canvas.rows
             cv == canvas
             role == kept[i].role
             scroll == kept[i].scroll
             marks == [k \in 1..rect.width |-> Mark]
             Stays(drawn) == Within(rect, cv.at, drawn.at, c, r)
  <1>1. c \in Nat /\ r \in Nat /\ cv \in Canvases(c, r)
    BY Limits DEF Drawable
  <1>2. /\ rect.x \in Nat /\ rect.y \in Nat /\ rect.width \in Nat /\ rect.height \in Nat \ {0}
        /\ Right(rect) \in Nat /\ Middle(rect) \in Nat /\ Right(rect) = rect.x + rect.width
        /\ rect.y <= Middle(rect) /\ Middle(rect) < rect.y + rect.height
    BY AreaParts, MiddleLies DEF Right
  <1>3. scroll \in 0..2 /\ WrappedText(i) \in Texts
    BY KeptNode, WrappedTextOf DEF Drawable
  <1> HIDE DEF c, r, cv, scroll
  <1>4. /\ Stays(draw_text_area(cv, rect, label, scroll))
        /\ Stays(draw_multiline_text(cv, rect, label, scroll))
    BY <1>1, <1>3, TextAreaWithin
  <1>5. Stays(draw_flow_text(cv, rect, WrappedText(i)))
    BY <1>1, <1>3, FlowLinesSpare
  <1>6. Stays(flow_text_bounded(cv, rect.x, Middle(rect), Right(rect), label))
    <2> DEFINE next == flow_text_bounded(cv, rect.x, Middle(rect), Right(rect), label)
               span == Span(rect.x, Middle(rect), Right(rect) - rect.x)
    <2>1. Within(span, cv.at, next.at, c, r)
      BY <1>1, <1>2, FlowSpares
    <2>2. ASSUME NEW x \in Int, NEW y \in Int, Lies(span, x, y) PROVE Lies(rect, x, y)
      <3>1. rect.x \in Int /\ Middle(rect) \in Int /\ Right(rect) - rect.x \in Int
        BY <1>2
      <3>2. rect.x <= x /\ x < rect.x + (Right(rect) - rect.x) /\ y = Middle(rect)
        BY <2>2, <3>1, SpanIs
      <3> QED
        BY <1>2, <3>2, AreaLies
    <2> HIDE DEF next, span
    <2>3. Within(rect, cv.at, next.at, c, r)
      BY <1>1, <2>1, <2>2, WithinMore
    <2> QED
      BY <2>3 DEF next
  <1>7. /\ Stays(draw_labeled_box(cv, rect, label))
        /\ Stays(draw_titled_border(cv, rect, label))
        /\ IsBox(rect) => Stays(Framed(cv, rect, Middle(rect), label))
    BY <1>1, BoxWithin
  <1>8. \A trailing : Stays(draw_inline_label(cv, rect, label, trailing))
    BY <1>1, InlineWithin
  <1>9. Stays(horizontal(cv, rect.x, Middle(rect), rect.width))
    BY <1>1, HorizontalSpares
  \* A text from the left edge of the rectangle on.
  <1>10. ASSUME NEW text \in Texts
         PROVE  /\ Stays(DrawText(cv, rect.x, Middle(rect), rect.width, text))
                /\ Stays(DrawText(cv, rect.x, rect.y, rect.width, text))
    <2>1. /\ rect.x <= rect.x /\ rect.x + rect.width <= rect.x + rect.width
          /\ rect.y <= rect.y /\ rect.y < rect.y + rect.height
      BY <1>2
    <2> QED
      BY <1>1, <1>2, <2>1, TextInArea
  <1>11. marks \in Texts /\ Message \in Texts
    <2>1. Mark \in Glyphs
      BY CanvasSigns
    <2>2. marks \in [1..rect.width -> Glyphs]
      BY <2>1
    <2>3. marks \in Texts
      BY <1>2, <2>2, SeqDef DEF Texts
    <2> QED
      BY <2>3, Letters
  <1>12. Stays(DrawTreeItem(cv, rect, label))
    <2> DEFINE text == <<Space, Space>> \o label
               width == Max({rect.width - 1, 1})
    <2>1. text \in Texts
      BY Letters, ConcatProperties DEF Texts
    <2>2. width \in Nat
      <3>1. rect.width - 1 \in Int /\ 1 \in Int
        BY <1>2
      <3>2. width = IF rect.width - 1 <= 1 THEN 1 ELSE rect.width - 1
        BY <3>1, MaxPair
      <3> HIDE DEF width
      <3> QED
        BY <1>2, <3>2
    <2>3. DrawTreeItem(cv, rect, label)
          = DrawText(cv, rect.x, Middle(rect), rect.width, Elide(text, width))
      BY DEF DrawTreeItem
    <2> HIDE DEF text, width, Stays
    <2>4. Elide(text, width) \in Texts
      BY <2>1, <2>2, ElideOf
    <2> QED
      BY <1>10, <2>3, <2>4
  <1> DEFINE drawn == draw_spatial_control(cv, rect, i, role, label)
             inline == ~IsArea(i) /\ ~FlowsWrapped(i) /\ ~(role = "StaticText" /\ IsMultiline(label))
  <1> HIDE DEF marks, Stays
  <1>13. Stays(drawn)
    <2>1. CASE IsArea(i)
      BY <1>4, <2>1 DEF draw_spatial_control, scroll
    <2>2. CASE ~IsArea(i) /\ FlowsWrapped(i)
      BY <1>5, <2>2 DEF draw_spatial_control
    <2>3. CASE ~IsArea(i) /\ ~FlowsWrapped(i) /\ role = "StaticText" /\ IsMultiline(label)
      BY <1>4, <2>3 DEF draw_spatial_control, scroll
    <2>4. CASE inline /\ FlowsInLine(i, rect, label)
      <3>1. role = "StaticText" /\ FlowBound(i, rect) = Right(rect)
        BY <2>4 DEF FlowsInLine, FlowBound
      <3>2. drawn = flow_text_bounded(cv, rect.x, Middle(rect), FlowBound(i, rect), label)
        BY <2>4 DEF draw_spatial_control
      <3> QED
        BY <1>6, <3>1, <3>2
    <2>5. CASE inline /\ ~FlowsInLine(i, rect, label)
      <3>1. CASE role \in {"TextField", "Button"}
        BY <1>7, <2>5, <3>1 DEF draw_spatial_control
      <3>2. CASE role = "Dialog"
        BY <1>7, <2>5, <3>2 DEF draw_spatial_control
      <3>3. CASE role = "TableCell" /\ IsBox(rect)
        BY <1>7, <2>5, <3>3 DEF draw_spatial_control
      <3>4. CASE role = "Separator"
        BY <1>9, <2>5, <3>4 DEF draw_spatial_control
      <3>5. CASE role = "ProgressBar"
        BY <1>10, <1>11, <2>5, <3>5 DEF draw_spatial_control, marks
      <3>6. CASE role = "TreeItem"
        BY <1>12, <2>5, <3>6 DEF draw_spatial_control
      <3>7. CASE role = "Group" /\ OnlyBars(i)
        BY <1>10, <1>11, <2>5, <3>7 DEF draw_spatial_control
      <3>8. CASE /\ role \notin {"TextField", "Button", "CheckBox", "Dialog", "Separator",
                                 "ProgressBar", "TreeItem"}
                 /\ ~(role = "TableCell" /\ IsBox(rect)) /\ ~(role = "Group" /\ OnlyBars(i))
        BY <1>8, <2>5, <3>8 DEF draw_spatial_control
      <3> QED
        BY <3>1, <3>2, <3>3, <3>4, <3>5, <3>6, <3>7, <3>8
    <2> QED
      BY <2>1, <2>2, <2>3, <2>4, <2>5
  <1> QED
    BY <1>13 DEF c, r, cv, Stays

\* Labels that flow and separators go where nothing is.
LEMMA ControlSpares ==
    ASSUME Drawable, NEW rect \in Areas, NEW i \in DOMAIN kept, NEW label \in Texts,
           kept[i].role \in {"MenuItem", "Separator", "StaticText"},
           kept[i].role = "StaticText" => ~IsMultiline(label)
    PROVE  Spares(canvas.at, draw_spatial_control(canvas, rect, i, kept[i].role, label).at,
                  Cols, canvas.rows)
  <1> DEFINE c == Cols
             r == canvas.rows
             cv == canvas
             role == kept[i].role
             drawn == draw_spatial_control(cv, rect, i, role, label)
  <1>1. c \in Nat /\ r \in Nat /\ cv \in Canvases(c, r)
    BY Limits DEF Drawable
  <1>2. rect.x \in Nat /\ Middle(rect) \in Nat /\ FlowBound(i, rect) \in Int
    BY AreaParts, CanvasSize DEF FlowBound
  <1>3. WrappedText(i) \in Texts
    BY WrappedTextOf DEF Drawable
  <1>4. ~IsArea(i) /\ ~(role = "StaticText" /\ IsMultiline(label))
    BY DEF IsArea
  <1> HIDE DEF c, r, cv
  <1>5. CASE FlowsWrapped(i)
    <2>1. drawn = draw_flow_text(cv, rect, WrappedText(i))
      BY <1>4, <1>5 DEF draw_spatial_control
    <2>2. Spares(cv.at, draw_flow_text(cv, rect, WrappedText(i)).at, c, r)
      BY <1>1, <1>3, FlowLinesSpare
    <2> QED
      BY <2>1, <2>2 DEF c, r, cv
  <1>6. CASE ~FlowsWrapped(i) /\ FlowsInLine(i, rect, label)
    <2>1. drawn = flow_text_bounded(cv, rect.x, Middle(rect), FlowBound(i, rect), label)
      BY <1>4, <1>6 DEF draw_spatial_control
    <2>2. Spares(cv.at, flow_text_bounded(cv, rect.x, Middle(rect), FlowBound(i, rect), label).at,
                 c, r)
      BY <1>1, <1>2, FlowSpares
    <2> QED
      BY <2>1, <2>2 DEF c, r, cv
  <1>7. CASE ~FlowsWrapped(i) /\ ~FlowsInLine(i, rect, label)
    <2>1. role = "Separator"
      BY <1>7 DEF FlowsInLine
    <2>2. drawn = horizontal(cv, rect.x, Middle(rect), rect.width)
      BY <1>4, <1>7, <2>1 DEF draw_spatial_control
    <2>3. Spares(cv.at, horizontal(cv, rect.x, Middle(rect), rect.width).at, c, r)
      BY <1>1, HorizontalSpares
    <2> QED
      BY <2>2, <2>3 DEF c, r, cv
  <1> QED
    BY <1>5, <1>6, <1>7

LEMMA InitCaptures == Init => CaptureInv
  BY ReconstructionAssumption
     DEF Init, CaptureInv, IsWindow, FocusIsShown, NoFrame

LEMMA StepCaptures == CaptureInv /\ [Next]_vars => CaptureInv'
  <1> SUFFICES ASSUME CaptureInv, [Next]_vars PROVE CaptureInv'
    OBVIOUS
  <1> USE DEF CaptureInv
  <1>1. CASE Capture
    <2>1. /\ window' = window /\ height' = height /\ frame' = NoFrame
          /\ phase' \in {"draw", "tree"}
      BY <1>1 DEF Capture
    <2>2. IsWindow'
      BY <2>1 DEF IsWindow
    <2>3. Captured'
      BY <1>1 DEF Capture, Captured, Snapshot
    <2>4. FocusIsShown'
      BY <2>1 DEF FocusIsShown, NoFrame
    <2> QED
      BY <2>1, <2>2, <2>3, <2>4
  \* Drawing leaves the frame alone.
  <1>2. CASE render_spatial_node \/ DrawRow \/ DrawCell
    <2>1. /\ UNCHANGED <<window, height, phase, kept, truncated, frame>>
          /\ phase = "draw"
      BY <1>2 DEF render_spatial_node, DrawRow, DrawCell, DrawAt, Drawing, snapshot
    <2>2. IsWindow' /\ Captured'
      BY <2>1 DEF IsWindow, Captured, Snapshot
    <2>3. FocusIsShown'
      BY <2>1 DEF FocusIsShown, NoFrame
    <2> QED
      BY <2>1, <2>2, <2>3
  <1>3. CASE Finish \/ SayUnexposed
    <2>1. /\ UNCHANGED <<window, height, kept, truncated>>
          /\ phase = "draw" /\ phase' = "done"
          /\ frame'.kind # "tree"
      BY <1>3 DEF Finish, SayUnexposed, Drawn, snapshot, NoFrame
    <2>2. IsWindow' /\ Captured'
      BY <2>1 DEF IsWindow, Captured, Snapshot
    <2>3. FocusIsShown'
      BY <2>1 DEF FocusIsShown
    <2> QED
      BY <2>1, <2>2, <2>3
  <1>4. CASE RenderTree
    <2> DEFINE viewport == Max({height - 3, 0})
               start == TreeStart(Len(kept), viewport, FocusedLine)
               end == Min({start + viewport, Len(kept)})
    <2>1. /\ UNCHANGED <<window, height, kept, truncated>>
          /\ phase \in {"tree", "draw"} /\ phase' = "done"
          /\ frame'.first = start + 1 /\ frame'.last = end
      BY <1>4 DEF RenderTree, Drawn, snapshot
    <2>2. IsWindow' /\ Captured'
      BY <2>1 DEF IsWindow, Captured, Snapshot
    <2>3. Len(kept) \in Nat \ {0} /\ DOMAIN kept = 1..Len(kept)
      BY <2>1, CapturedIsPrefix
    <2>4. FocusedLine \in Nat /\ FocusedLine < Len(kept)
      BY <2>3, FocusedLineOf
    <2>5. FocusIsShown'
      <3> SUFFICES ASSUME height - 3 > 0
                   PROVE  /\ FocusedLine + 1 \in start + 1..end
                          /\ end - (start + 1) + 1 = Min({height - 3, Len(kept)})
        BY <2>1 DEF FocusIsShown, FocusedLine
      <3>1. height - 3 \in Nat \ {0} /\ viewport = height - 3
        BY MaxPair DEF IsWindow
      <3>2. /\ start = TreeStart(Len(kept), viewport, FocusedLine)
            /\ end = Min({start + viewport, Len(kept)})
        OBVIOUS
      <3> HIDE DEF viewport, start, end
      <3>3. viewport \in Nat \ {0} /\ Len(kept) \in Nat
        BY <2>3, <3>1
      <3>4. /\ FocusedLine + 1 \in start + 1..end
            /\ end - (start + 1) + 1 = Min({viewport, Len(kept)})
        BY <2>4, <3>2, <3>3, TreePart
      <3> QED
        BY <3>1, <3>4
    <2> QED
      BY <2>1, <2>2, <2>5
  <1>5. CASE UNCHANGED vars
    <2>1. UNCHANGED <<window, height, phase, kept, truncated, frame>>
      BY <1>5 DEF vars
    <2> QED
      BY <2>1 DEF IsWindow, Captured, Snapshot, FocusIsShown, FocusedLine
  <1> QED
    BY <1>1, <1>2, <1>3, <1>4, <1>5 DEF Next

\* What is captured is captured once and whole, and only then shown.
THEOREM ReconstructionInvariant == Spec => []CaptureInv
  <1> QED
    BY InitCaptures, StepCaptures, PTL DEF Spec

\* The snapshot is the first nodes, in document order, that are neither too deep
\* nor in a hidden subtree, and says whether there were more (capture_node).
THEOREM SnapshotIsAlwaysPrefix == Spec => []CaptureIsPrefix
  <1>1. CaptureInv => CaptureIsPrefix
    BY CapturedIsPrefix DEF CaptureInv, CaptureIsPrefix
  <1> QED
    BY <1>1, ReconstructionInvariant, PTL

\* A tree listing shows the node with the focus and uses all of its rows.
THEOREM FocusIsAlwaysShown == Spec => []FocusIsShown
  <1>1. CaptureInv => FocusIsShown
    BY DEF CaptureInv
  <1> QED
    BY <1>1, ReconstructionInvariant, PTL

-------------------------------------------------------------------------------
(* The rows of a frame.                                                        *)

FullRows == {row \in Seq(Slots) : WidthOf(row) = Cols}

LEMMA NumberedRows ==
    ASSUME NEW S, NEW n \in Nat, NEW f \in [1..n -> S]
    PROVE  f \in Seq(S) /\ Len(f) = n
  <1>1. IsSequence(f) /\ Len(f) = n
    <2>1. f = [i \in 1..n |-> f[i]]
      OBVIOUS
    <2> QED
      BY <2>1, FunctionIsSequence
  <1>2. \A i \in 1..Len(f) : f[i] \in S
    BY <1>1
  <1> QED
    BY <1>1, <1>2, SequenceOver

LEMMA TextRow ==
    ASSUME NEW text \in Texts
    PROVE  Cells(text, Cols) \in FullRows
  <1> DEFINE row == Cells(text, Cols)
  <1>1. row \in Texts /\ WidthOf(row) = Cols
    BY Limits, CellsWidth
  <1> HIDE DEF row
  <1>2. row \in Seq(Slots)
    <2>1. IsSequence(row) /\ \A k \in 1..Len(row) : row[k] \in Glyphs
      BY <1>1, LenProperties, ElementOfSeq DEF Texts, IsSequence
    <2>2. \A k \in 1..Len(row) : row[k] \in Slots
      BY <2>1 DEF Slots
    <2> QED
      BY <2>1, <2>2, SequenceOver
  <1>3. row \in FullRows
    BY <1>1, <1>2 DEF FullRows
  <1> QED
    BY <1>3 DEF row

LEMMA FixedRows ==
    ASSUME NodesKept
    PROVE  Heading \in FullRows /\ Divider \in FullRows /\ Footer \in FullRows
  <1>1. Root.label \in Texts
    <2>1. 1 \in DOMAIN kept
      BY DEF NodesKept
    <2> QED
      BY <2>1, KeptNode DEF Root
  <1>2. [k \in 1..Cols |-> Mark] \in Texts
    <2>1. [k \in 1..Cols |-> Mark] \in [1..Cols -> Glyphs]
      BY CanvasSigns
    <2> QED
      BY <2>1, Limits, SeqDef DEF Texts
  <1>3. Heading \in FullRows
    BY <1>1, TextRow DEF Heading
  <1>4. Divider \in FullRows
    <2> DEFINE text == [k \in 1..Cols |-> Mark]
    <2> HIDE DEF text
    <2>1. Cells(text, Cols) \in FullRows
      BY <1>2, TextRow DEF text
    <2> QED
      BY <2>1 DEF Divider, text
  <1>5. Footer \in FullRows
    BY Letters, TextRow DEF Footer
  <1> QED
    BY <1>3, <1>4, <1>5

LEMMA SpatialRowsOf ==
    ASSUME NodesKept, NEW r \in Nat, NEW cv \in Canvases(Cols, r)
    PROVE  SpatialRows(cv) \in Seq(FullRows) /\ Len(SpatialRows(cv)) = r + 3
  <1> DEFINE body == into_rows(cv)
             top == <<Heading, Divider>>
             upper == top \o body
  <1>1. body \in Seq(Seq(Slots)) /\ Len(body) = r /\ \A y \in 1..r : WidthOf(body[y]) = Cols
    BY Limits, RowsWidth
  <1> HIDE DEF body
  <1>2. body \in Seq(FullRows)
    <2>1. IsSequence(body) /\ \A y \in 1..Len(body) : body[y] \in Seq(Slots)
      BY <1>1, LenProperties, ElementOfSeq DEF IsSequence
    <2>2. \A y \in 1..Len(body) : body[y] \in FullRows
      BY <1>1, <2>1 DEF FullRows
    <2> QED
      BY <2>1, <2>2, SequenceOver
  <1>3. top \in Seq(FullRows) /\ Len(top) = 2
    BY FixedRows
  <1> HIDE DEF top
  <1>4. upper \in Seq(FullRows) /\ Len(upper) = r + 2
    <2>1. upper \in Seq(FullRows) /\ Len(upper) = Len(top) + Len(body)
      BY <1>2, <1>3, ConcatProperties
    <2> HIDE DEF upper
    <2> QED
      BY <1>1, <1>3, <2>1
  <1>5. <<Footer>> \in Seq(FullRows) /\ Len(<<Footer>>) = 1
    BY FixedRows
  <1>6. SpatialRows(cv) = upper \o <<Footer>>
    BY DEF SpatialRows, body, top
  <1> HIDE DEF upper
  <1>7. SpatialRows(cv) \in Seq(FullRows) /\ Len(SpatialRows(cv)) = Len(upper) + Len(<<Footer>>)
    BY <1>4, <1>5, <1>6, ConcatProperties
  <1> QED
    BY <1>4, <1>5, <1>7

\* The part of the tree that is listed is between its ends.
LEMMA ListedPart ==
    ASSUME NEW lines \in Nat, NEW viewport \in Nat, NEW line \in Nat,
           NEW start, start = TreeStart(lines, viewport, line),
           NEW end, end = Min({start + viewport, lines})
    PROVE  start \in Nat /\ end \in Nat /\ start <= end /\ end <= lines
  <1>1. PICK half \in Nat : half = viewport \div 2
    OBVIOUS
  <1> DEFINE a == Max({line - half, 0})
             b == Max({lines - viewport, 0})
  <1>2. /\ a = IF line - half <= 0 THEN 0 ELSE line - half
        /\ b = IF lines - viewport <= 0 THEN 0 ELSE lines - viewport
    BY MaxPair
  <1>3. start = Min({a, b})
    BY <1>1 DEF TreeStart
  <1> HIDE DEF a, b
  <1>4. a \in Nat /\ b \in Nat /\ b <= lines
    BY <1>2
  <1>5. start = IF a <= b THEN a ELSE b
    BY <1>3, <1>4, MinPair
  <1>6. start \in Nat /\ start <= lines
    BY <1>4, <1>5
  <1>7. end = IF start + viewport <= lines THEN start + viewport ELSE lines
    BY <1>6, MinPair
  <1> QED
    BY <1>6, <1>7

LEMMA TreeLineRow ==
    ASSUME NodesKept, NEW i \in DOMAIN kept
    PROVE  Cells(TreeLine(i), Cols) \in FullRows
  <1> DEFINE margin == Blanks(3 * kept[i].depth)
             text == Clean(kept[i].label)
  <1>1. margin \in Texts /\ text \in Texts
    <2>1. 3 * kept[i].depth \in Int /\ kept[i].label \in Texts
      BY KeptNode
    <2> QED
      BY <2>1, BlanksOf, CleanOf
  <1>2. TreeLine(i) = margin \o <<Mark, Space>> \o text
    BY DEF TreeLine
  <1> HIDE DEF margin, text
  <1>3. TreeLine(i) \in Texts
    BY <1>1, <1>2, Letters, ConcatProperties DEF Texts
  <1> QED
    BY <1>3, TextRow

\* Rows, then as many more as there is room for, then the last: cut at the height.
LEMMA CutRows ==
    ASSUME NEW S, NEW rows \in Seq(S), NEW rest \in Seq(S), NEW last \in S, NEW h \in Nat \ {0},
           Len(rest) = IF h - 1 - Len(rows) >= 0 THEN h - 1 - Len(rows) ELSE 0
    PROVE  /\ SubSeq(Append(rows \o rest, last), 1, h) \in Seq(S)
           /\ Len(SubSeq(Append(rows \o rest, last), 1, h)) = h
  <1> DEFINE joined == rows \o rest
             all == Append(joined, last)
  <1>1. Len(rows) \in Nat /\ Len(rest) \in Nat
    BY LenProperties
  <1>2. joined \in Seq(S) /\ Len(joined) = Len(rows) + Len(rest)
    BY ConcatProperties
  <1> HIDE DEF joined
  <1>3. all \in Seq(S) /\ Len(all) = Len(joined) + 1
    BY <1>2, AppendProperties
  <1> HIDE DEF all
  <1>4. Len(all) \in Nat /\ Len(all) >= h
    BY <1>1, <1>2, <1>3
  <1>5. \A k \in 1..h : all[k] \in S
    <2>1. \A k \in 1..h : k \in 1..Len(all)
      BY <1>4
    <2> QED
      BY <1>3, <2>1, ElementOfSeq
  <1>6. SubSeq(all, 1, h) \in Seq(S) /\ Len(SubSeq(all, 1, h)) = h
    <2>1. 1 \in Int /\ h \in Int /\ 1 <= h /\ h - 1 + 1 = h
      OBVIOUS
    <2> QED
      BY <1>5, <2>1, SubSeqProperties
  <1> QED
    BY <1>6 DEF all, joined

\* A listing fills the viewer: what it has too little of is blank, what it has
\* too much of is cut.
LEMMA ListedRows ==
    ASSUME NodesKept, height \in Nat \ {0}, NEW start \in Nat, NEW end \in Nat, start <= end,
           end <= Len(kept)
    PROVE  LET listed == <<Heading, Divider>>
                         \o [n \in 1..end - start |-> Cells(TreeLine(start + n), Cols)]
               padded == listed \o [n \in 1..height - 1 - Len(listed) |-> Blanks(Cols)]
               rows == SubSeq(Append(padded, Footer), 1, height)
           IN  rows \in Seq(FullRows) /\ Len(rows) = height
  <1> DEFINE shown == end - start
             top == <<Heading, Divider>>
             body == [n \in 1..shown |-> Cells(TreeLine(start + n), Cols)]
             listed == top \o body
             blank == height - 1 - Len(listed)
             rest == [n \in 1..blank |-> Blanks(Cols)]
             last == Footer
             h == height
  <1>1. shown \in Nat /\ \A n \in 1..shown : start + n \in DOMAIN kept
    BY DEF NodesKept
  <1> HIDE DEF shown
  <1>2. body \in Seq(FullRows) /\ Len(body) = shown
    <2>1. body \in [1..shown -> FullRows]
      BY <1>1, TreeLineRow
    <2> HIDE DEF body
    <2> QED
      BY <1>1, <2>1, NumberedRows
  <1>3. top \in Seq(FullRows) /\ Len(top) = 2 /\ last \in FullRows /\ h \in Nat \ {0}
    BY FixedRows
  <1> HIDE DEF top, body, last, h
  <1>4. listed \in Seq(FullRows) /\ Len(listed) \in Nat
    <2>1. listed \in Seq(FullRows) /\ Len(listed) = Len(top) + Len(body)
      BY <1>2, <1>3, ConcatProperties
    <2> HIDE DEF listed
    <2> QED
      BY <1>1, <1>2, <1>3, <2>1
  <1> HIDE DEF listed
  <1>5. blank \in Int /\ blank = h - 1 - Len(listed)
    BY <1>4 DEF h
  <1> HIDE DEF blank
  <1>6. Blanks(Cols) \in FullRows
    <2> DEFINE row == Blanks(Cols)
    <2>1. row \in Texts /\ WidthOf(row) = Cols
      BY Limits, BlanksOf, BlanksWidth
    <2> HIDE DEF row
    <2>2. IsSequence(row) /\ \A k \in 1..Len(row) : row[k] \in Glyphs
      BY <2>1, LenProperties, ElementOfSeq DEF Texts, IsSequence
    <2>3. \A k \in 1..Len(row) : row[k] \in Slots
      BY <2>2 DEF Slots
    <2>4. row \in Seq(Slots)
      BY <2>2, <2>3, SequenceOver
    <2> QED
      BY <2>1, <2>4 DEF FullRows, row
  <1>7. rest \in Seq(FullRows) /\ Len(rest) = IF blank >= 0 THEN blank ELSE 0
    <2>1. CASE blank >= 0
      <3>1. blank \in Nat
        BY <1>5, <2>1
      <3>2. rest \in [1..blank -> FullRows]
        BY <1>6
      <3> HIDE DEF rest
      <3> QED
        BY <2>1, <3>1, <3>2, NumberedRows
    <2>2. CASE ~(blank >= 0)
      <3>1. 1..blank = {}
        BY <1>5, <2>2
      <3>2. rest = <<>>
        BY <3>1
      <3> HIDE DEF rest
      <3> QED
        BY <2>2, <3>2
    <2> QED
      BY <2>1, <2>2
  <1> HIDE DEF rest
  <1>8. /\ SubSeq(Append(listed \o rest, last), 1, h) \in Seq(FullRows)
        /\ Len(SubSeq(Append(listed \o rest, last), 1, h)) = h
    <2>1. Len(rest) = IF h - 1 - Len(listed) >= 0 THEN h - 1 - Len(listed) ELSE 0
      BY <1>5, <1>7
    <2> QED
      BY <1>3, <1>4, <1>7, <2>1, CutRows
  <1> QED
    BY <1>8 DEF listed, rest, blank, last, h, top, body, shown

-------------------------------------------------------------------------------
(* The invariant of the drawing.                                               *)

WholeInv ==
    /\ CaptureInv
    /\ canvas.rows \in Nat /\ canvas \in Canvases(Cols, canvas.rows)
    /\ phase = "draw" => HasPlace /\ canvas.rows = height - 3 /\ todo \in Seq(Tasks)
    /\ phase = "done" => frame.rows \in Seq(FullRows) /\ Len(frame.rows) = height

LEMMA WholeCanvas ==
    ASSUME NEW r \in Nat, NEW cv \in Canvases(Cols, r)
    PROVE  \A p \in DOMAIN cv.at :
              /\ cv.at[p] = Continuation => p[1] > 0 /\ cv.at[<<p[1] - 1, p[2]>>] \in Wide
              /\ cv.at[p] \in Wide => p[1] + 1 < cv.cols /\ cv.at[<<p[1] + 1, p[2]>>] = Continuation
  <1>1. /\ cv.cols = Cols /\ cv.rows = r /\ DOMAIN cv.at = Places(Cols, r)
        /\ WholeAt(cv.at, Cols, r)
    BY DEF Canvases
  <1> SUFFICES ASSUME NEW p \in DOMAIN cv.at
               PROVE  /\ cv.at[p] = Continuation =>
                            p[1] > 0 /\ cv.at[<<p[1] - 1, p[2]>>] \in Wide
                      /\ cv.at[p] \in Wide =>
                            p[1] + 1 < cv.cols /\ cv.at[<<p[1] + 1, p[2]>>] = Continuation
    OBVIOUS
  <1>2. p = <<p[1], p[2]>> /\ p[1] \in 0..Cols - 1 /\ p[2] \in 0..r - 1
    BY <1>1 DEF Places
  <1> QED
    BY <1>1, <1>2 DEF WholeAt

LEMMA WholeIsShown == WholeInv => RowsAreWhole
  <1> SUFFICES ASSUME WholeInv PROVE RowsAreWhole
    OBVIOUS
  <1>1. \A p \in DOMAIN canvas.at :
           /\ canvas.at[p] = Continuation =>
                 p[1] > 0 /\ canvas.at[<<p[1] - 1, p[2]>>] \in Wide
           /\ canvas.at[p] \in Wide =>
                 p[1] + 1 < canvas.cols /\ canvas.at[<<p[1] + 1, p[2]>>] = Continuation
    BY WholeCanvas DEF WholeInv
  <1>2. phase = "done" => /\ Len(frame.rows) = height
                          /\ \A n \in DOMAIN frame.rows : WidthOf(frame.rows[n]) = Cols
    <2> SUFFICES ASSUME phase = "done"
                 PROVE  /\ Len(frame.rows) = height
                        /\ \A n \in DOMAIN frame.rows : WidthOf(frame.rows[n]) = Cols
      OBVIOUS
    <2>1. frame.rows \in Seq(FullRows) /\ Len(frame.rows) = height
      BY DEF WholeInv
    <2>2. \A n \in DOMAIN frame.rows : frame.rows[n] \in FullRows
      BY <2>1, LenProperties, ElementOfSeq
    <2> QED
      BY <2>1, <2>2 DEF FullRows
  <1> QED
    BY <1>1, <1>2 DEF RowsAreWhole

LEMMA InitIsWhole == Init => WholeInv
  <1> SUFFICES ASSUME Init PROVE WholeInv
    OBVIOUS
  <1>1. CaptureInv
    BY InitCaptures
  <1>2. phase = "capture" /\ canvas = Blank(Cols, 0)
    BY DEF Init
  <1>3. canvas.rows = 0 /\ Blank(Cols, 0) \in Canvases(Cols, 0)
    BY <1>2, Limits, BlankIsWhole DEF Blank
  <1> QED
    BY <1>1, <1>2, <1>3 DEF WholeInv

LEMMA WhileDrawing ==
    ASSUME WholeInv, phase = "draw"
    PROVE  /\ Drawable /\ NodesKept /\ height \in Nat \ {0} /\ height > 3
           /\ todo \in Seq(Tasks) /\ canvas.rows = height - 3
  <1>1. IsWindow /\ Captured /\ HasPlace /\ canvas.rows = height - 3 /\ todo \in Seq(Tasks)
    BY DEF WholeInv, CaptureInv
  <1>2. NodesKept /\ kept[1] = window[1]
    BY <1>1, KeptOf
  <1>3. height \in Nat \ {0} /\ height > 3 /\ canvas.rows \in Nat \ {0}
    BY <1>1 DEF IsWindow, HasPlace
  <1>4. Root.bounds.width > 0 /\ Root.bounds.height > 0
    BY <1>1, <1>2 DEF Root, HasPlace
  <1> QED
    BY <1>1, <1>2, <1>3, <1>4 DEF Drawable, WholeInv

\* The node that is next, and what is left after it.
LEMMA NextTask ==
    ASSUME todo \in Seq(Tasks), todo # <<>>
    PROVE  /\ Head(todo) \in Tasks /\ Tail(todo) \in Seq(Tasks)
           /\ Head(todo).node \in DOMAIN kept
           /\ Head(todo).act \in {"row", "cell"} => Head(todo).rect \in Areas
           /\ \A s \in Seq(Tasks) : s \o Tail(todo) \in Seq(Tasks)
  <1>1. Head(todo) \in Tasks /\ Tail(todo) \in Seq(Tasks)
    BY HeadTailProperties
  <1>2. /\ Head(todo).node \in DOMAIN kept
        /\ Head(todo).act \in {"row", "cell"} => Head(todo).rect \in Areas
    BY <1>1 DEF Tasks
  <1>3. \A s \in Seq(Tasks) : s \o Tail(todo) \in Seq(Tasks)
    BY <1>1, ConcatProperties
  <1> QED
    BY <1>1, <1>2, <1>3

LEMMA KeptOfNext == IsWindow' /\ Captured' => NodesKept'
  <1>1. IsWindow /\ Captured => NodesKept
    BY KeptOf
  <1> QED
    BY <1>1, PTL

\* Drawing a node, at its place.
LEMMA DrawnIsWhole ==
    ASSUME WholeInv, phase = "draw", NEW rect, NEW i, NEW shown \in BOOLEAN, NEW below,
           DrawAt(rect, i, shown), shown => rect \in Areas, i \in DOMAIN kept,
           below \in Seq(Tasks), todo' = below \o Tail(todo), todo # <<>>, CaptureInv'
    PROVE  WholeInv'
  <1>1. Drawable /\ todo \in Seq(Tasks) /\ canvas.rows = height - 3
    BY WhileDrawing
  <1>2. /\ canvas' = IF shown THEN Shown(rect, i) ELSE canvas
        /\ UNCHANGED <<window, height, phase, kept, frame>>
    BY DEF DrawAt, snapshot
  <1>3. canvas' \in Canvases(Cols, canvas.rows)
    <2>1. shown => Shown(rect, i) \in Canvases(Cols, canvas.rows)
      BY <1>1, ShownKeeps
    <2> QED
      BY <1>1, <1>2, <2>1 DEF Drawable
  <1>4. canvas'.rows = canvas.rows /\ canvas.rows \in Nat
    <2>1. canvas'.rows = canvas.rows
      BY <1>3 DEF Canvases
    <2> QED
      BY <2>1 DEF WholeInv
  <1>5. todo' \in Seq(Tasks)
    BY <1>1, NextTask
  <1>6. Tasks' = Tasks
    BY <1>2 DEF Tasks
  <1>7. HasPlace'
    BY <1>2 DEF HasPlace, WholeInv
  <1> QED
    BY <1>1, <1>2, <1>3, <1>4, <1>5, <1>6, <1>7 DEF WholeInv

\* The end: the frame has the rows of the viewer.
LEMMA FrameIsWhole ==
    ASSUME WholeInv, CaptureInv', height' = height, phase' = "done",
           canvas'.rows \in Nat, canvas' \in Canvases(Cols, canvas'.rows),
           frame'.rows \in Seq(FullRows), Len(frame'.rows) = height
    PROVE  WholeInv'
  BY DEF WholeInv

LEMMA StepIsWhole == WholeInv /\ [Next]_vars => WholeInv'
  <1> SUFFICES ASSUME WholeInv, [Next]_vars PROVE WholeInv'
    OBVIOUS
  <1>0. CaptureInv /\ CaptureInv'
    BY StepCaptures DEF WholeInv
  <1>1. CASE Capture
    <2>1. /\ window' = window /\ height' = height /\ phase = "capture"
          /\ phase' = IF HasPlace THEN "draw" ELSE "tree"
          /\ HasPlace => canvas' = Blank(Cols, height - 3) /\ todo' = <<Visit(1)>>
          /\ ~HasPlace => canvas' = canvas
      BY <1>1 DEF Capture
    <2>2. NodesKept'
      <3>1. IsWindow' /\ Captured'
        BY <1>0, <2>1 DEF CaptureInv
      <3> QED
        BY <3>1, KeptOfNext
    <2>3. CASE HasPlace
      <3>1. height - 3 \in Nat /\ Cols \in Nat
        BY <1>0, <2>3, Limits DEF CaptureInv, IsWindow, HasPlace
      <3>2. canvas' \in Canvases(Cols, height - 3) /\ canvas'.rows = height - 3
        BY <2>1, <2>3, <3>1, BlankIsWhole DEF Blank
      <3>3. Visit(1) \in Tasks'
        <4>1. 1 \in DOMAIN kept'
          BY <2>2 DEF NodesKept
        <4> QED
          BY <4>1 DEF Tasks, Visit
      <3>4. todo' \in Seq(Tasks')
        <4> DEFINE T == Tasks'
                   v == Visit(1)
        <4>1. v \in T
          BY <3>3
        <4> HIDE DEF T, v
        <4>2. <<v>> \in Seq(T)
          BY <4>1
        <4> QED
          BY <2>1, <2>3, <4>2 DEF T, v
      <3>5. HasPlace' /\ phase' = "draw"
        BY <2>1, <2>3 DEF HasPlace
      <3> QED
        BY <1>0, <2>1, <3>1, <3>2, <3>4, <3>5 DEF WholeInv
    <2>4. CASE ~HasPlace
      <3>1. phase' = "tree" /\ canvas' = canvas
        BY <2>1, <2>4
      <3> QED
        BY <1>0, <3>1 DEF WholeInv
    <2> QED
      BY <2>3, <2>4
  <1>2. CASE render_spatial_node
    <2> DEFINE i == Head(todo).node
               node == kept[i]
               rect == IF i # 1 /\ node.placed THEN Project(node.bounds) ELSE NoCells
               passed == ~node.visible \/ node.role = "ScrollBar"
               shown == ~passed /\ rect # NoCells /\ Shows(i)
               below == IF passed \/ (shown /\ owns_descendant_text(i)) THEN <<>> ELSE Below(i)
    <2>1. /\ phase = "draw" /\ todo # <<>>
          /\ DrawAt(rect, i, shown) /\ todo' = below \o Tail(todo)
      BY <1>2 DEF render_spatial_node, Drawing
    <2>2. Drawable /\ NodesKept /\ todo \in Seq(Tasks)
      BY <2>1, WhileDrawing
    <2>3. i \in DOMAIN kept
      BY <2>1, <2>2, NextTask
    <2> HIDE DEF i
    <2>4. shown \in BOOLEAN
      OBVIOUS
    <2>5. shown => rect \in Areas
      <3>1. rect # NoCells => rect \in Areas
        BY <2>2, <2>3, DesiredRow
      <3> HIDE DEF rect, passed
      <3> QED
        BY <3>1
    <2> HIDE DEF shown, rect, passed
    <2>6. below \in Seq(Tasks)
      <3>1. Below(i) \in Seq(Tasks)
        BY <2>2, <2>3, BelowOf
      <3>2. <<>> \in Seq(Tasks)
        OBVIOUS
      <3> QED
        BY <3>1, <3>2
    <2> HIDE DEF below
    <2> QED
      BY <1>0, <2>1, <2>3, <2>4, <2>5, <2>6, DrawnIsWhole
  <1>3. CASE DrawRow
    <2> DEFINE i == Head(todo).node
               rect == Head(todo).rect
               owns == owns_descendant_text(i)
               shown == Shows(i) /\ (kept[i].role = "ListItem" /\ ~IsLeaf(i) => owns)
               below == IF shown /\ owns THEN <<>> ELSE Visits(Kids(i))
    <2>1. /\ phase = "draw" /\ todo # <<>> /\ Head(todo).act = "row"
          /\ DrawAt(rect, i, shown) /\ todo' = below \o Tail(todo)
      BY <1>3 DEF DrawRow, Drawing
    <2>2. NodesKept /\ todo \in Seq(Tasks)
      BY <2>1, WhileDrawing
    <2>3. i \in DOMAIN kept /\ rect \in Areas
      BY <2>1, <2>2, NextTask
    <2> HIDE DEF i, rect
    <2>4. shown \in BOOLEAN
      OBVIOUS
    <2>5. below \in Seq(Tasks)
      <3>1. Visits(Kids(i)) \in Seq(Tasks) /\ <<>> \in Seq(Tasks)
        BY <2>2, <2>3, FamilyOf, VisitsOf
      <3> QED
        BY <3>1
    <2> HIDE DEF shown, below
    <2> QED
      BY <1>0, <2>1, <2>3, <2>4, <2>5, DrawnIsWhole
  <1>4. CASE DrawCell
    <2> DEFINE i == Head(todo).node
               rect == Head(todo).rect
               shown == Shows(i)
               below == Visits(Kids(i))
    <2>1. /\ phase = "draw" /\ todo # <<>> /\ Head(todo).act = "cell"
          /\ DrawAt(rect, i, shown) /\ todo' = below \o Tail(todo)
      BY <1>4 DEF DrawCell, Drawing
    <2>2. NodesKept /\ todo \in Seq(Tasks)
      BY <2>1, WhileDrawing
    <2>3. i \in DOMAIN kept /\ rect \in Areas
      BY <2>1, <2>2, NextTask
    <2> HIDE DEF i, rect
    <2>4. shown \in BOOLEAN
      BY DEF Shows
    <2>5. below \in Seq(Tasks)
      BY <2>2, <2>3, FamilyOf, VisitsOf
    <2> HIDE DEF shown, below
    <2> QED
      BY <1>0, <2>1, <2>3, <2>4, <2>5, DrawnIsWhole
  <1>5. CASE Finish
    <2>1. /\ phase = "draw" /\ phase' = "done" /\ height' = height /\ canvas' = canvas
          /\ frame' = [NoFrame EXCEPT !.kind = "spatial", !.rows = SpatialRows(canvas)]
      BY <1>5 DEF Finish, Drawn
    <2>2. NodesKept /\ canvas.rows = height - 3 /\ height \in Nat
      BY <2>1, WhileDrawing
    <2>3. canvas.rows \in Nat /\ canvas \in Canvases(Cols, canvas.rows)
      BY DEF WholeInv
    <2>4. frame'.rows = SpatialRows(canvas)
      BY <2>1 DEF NoFrame
    <2>5. SpatialRows(canvas) \in Seq(FullRows) /\ Len(SpatialRows(canvas)) = height
      BY <2>2, <2>3, SpatialRowsOf
    <2> QED
      BY <1>0, <2>1, <2>3, <2>4, <2>5, FrameIsWhole
  <1>6. CASE SayUnexposed
    <2> DEFINE width == Min({WidthOf(Message), Cols})
               cv == DrawText(canvas, (Cols - width) \div 2, canvas.rows \div 2, width, Message)
    <2>1. /\ phase = "draw" /\ phase' = "done" /\ height' = height /\ canvas' = cv
          /\ frame' = [NoFrame EXCEPT !.kind = "message", !.rows = SpatialRows(canvas')]
      BY <1>6 DEF SayUnexposed, Drawn
    <2>2. NodesKept /\ canvas.rows = height - 3 /\ height \in Nat
      BY <2>1, WhileDrawing
    <2>3. canvas.rows \in Nat /\ canvas \in Canvases(Cols, canvas.rows)
      BY DEF WholeInv
    <2>4. width \in Nat /\ width <= Cols
      <3>1. WidthOf(Message) \in Nat /\ Cols \in Nat
        BY Letters, WidthOfText, Limits
      <3>2. width = IF WidthOf(Message) <= Cols THEN WidthOf(Message) ELSE Cols
        BY <3>1, MinPair
      <3> QED
        BY <3>1, <3>2
    <2> HIDE DEF width
    <2>5. (Cols - width) \div 2 \in Nat /\ canvas.rows \div 2 \in Nat
      <3>1. Cols - width \in Nat
        BY <2>4, Limits
      <3> QED
        BY <2>3, <3>1
    <2>6. cv \in Canvases(Cols, canvas.rows)
      <3>1. width \in Int /\ Message \in Texts /\ Cols \in Nat
        BY <2>4, Letters, Limits
      <3> QED
        BY <2>3, <2>5, <3>1, DrawTextKeeps
    <2> HIDE DEF cv
    <2>7. canvas'.rows = canvas.rows /\ canvas' \in Canvases(Cols, canvas'.rows)
      BY <2>1, <2>6 DEF Canvases
    <2>8. frame'.rows = SpatialRows(canvas')
      BY <2>1 DEF NoFrame
    <2>9. SpatialRows(canvas') \in Seq(FullRows) /\ Len(SpatialRows(canvas')) = height
      <3>1. Heading' = Heading
        BY <1>6 DEF Heading, Root, SayUnexposed, snapshot
      <3>2. SpatialRows(cv) \in Seq(FullRows) /\ Len(SpatialRows(cv)) = canvas.rows + 3
        BY <2>2, <2>3, <2>6, SpatialRowsOf
      <3>3. canvas.rows + 3 = height
        BY <2>2
      <3> QED
        BY <2>1, <3>2, <3>3
    <2> QED
      BY <1>0, <2>1, <2>3, <2>7, <2>8, <2>9, FrameIsWhole
  <1>7. CASE RenderTree
    <2> DEFINE viewport == Max({height - 3, 0})
               start == TreeStart(Len(kept), viewport, FocusedLine)
               end == Min({start + viewport, Len(kept)})
               listed == <<Heading, Divider>>
                         \o [n \in 1..end - start |-> Cells(TreeLine(start + n), Cols)]
               padded == listed \o [n \in 1..height - 1 - Len(listed) |-> Blanks(Cols)]
               rows == SubSeq(Append(padded, Footer), 1, height)
    <2>1. /\ phase \in {"tree", "draw"} /\ phase' = "done" /\ height' = height
          /\ canvas' = canvas
          /\ frame' = [kind |-> "tree", first |-> start + 1, last |-> end, rows |-> rows]
      BY <1>7 DEF RenderTree, Drawn
    <2>2. frame'.rows = rows
      BY <2>1
    <2>3. NodesKept /\ height \in Nat \ {0}
      <3>1. IsWindow /\ Captured
        BY <1>0, <2>1 DEF CaptureInv
      <3> QED
        BY <3>1, KeptOf DEF IsWindow
    <2>4. viewport \in Nat
      <3>1. viewport = IF height - 3 <= 0 THEN 0 ELSE height - 3
        BY <2>3, MaxPair
      <3> QED
        BY <2>3, <3>1
    <2>5. Len(kept) \in Nat /\ FocusedLine \in Nat
      BY <2>3, FocusedLineOf DEF NodesKept
    <2>6. start \in Nat /\ end \in Nat /\ start <= end /\ end <= Len(kept)
      <3> HIDE DEF viewport
      <3> QED
        BY <2>4, <2>5, ListedPart
    <2> HIDE DEF start, end
    <2>7. rows \in Seq(FullRows) /\ Len(rows) = height
      BY <2>3, <2>6, ListedRows
    <2> HIDE DEF rows
    <2>8. canvas'.rows \in Nat /\ canvas' \in Canvases(Cols, canvas'.rows)
      BY <2>1 DEF WholeInv
    <2> QED
      BY <1>0, <2>1, <2>2, <2>7, <2>8, FrameIsWhole
  <1>8. CASE UNCHANGED vars
    <2>1. /\ UNCHANGED <<window, height, phase, kept, canvas, todo, frame>>
      BY <1>8 DEF vars, snapshot
    <2>2. Tasks' = Tasks /\ HasPlace' = HasPlace
      BY <2>1 DEF Tasks, HasPlace
    <2> QED
      BY <1>0, <2>1, <2>2 DEF WholeInv
  <1> QED
    BY <1>1, <1>2, <1>3, <1>4, <1>5, <1>6, <1>7, <1>8 DEF Next

\* Whatever is drawn, the canvas is whole, and what is left to draw has places on it.
THEOREM DrawingInvariant == Spec => []WholeInv
  <1> QED
    BY InitIsWhole, StepIsWhole, PTL DEF Spec

\* No half of a wide glyph is ever without the other, and a frame has exactly the
\* rows of its viewer, each exactly as wide (AccessibilityCanvas, into_rows).
THEOREM RowsAreAlwaysWhole == Spec => []RowsAreWhole
  <1> QED
    BY WholeIsShown, DrawingInvariant, PTL

-------------------------------------------------------------------------------
(* What is laid out, as long as it is shown.                                   *)

\* A spatial frame is of the canvas the window was drawn on.
LayoutInv == WholeInv /\ (SpatialFrame => HasPlace /\ canvas.rows = height - 3)

LEMMA WhileShown == LayoutInv /\ SpatialFrame => Drawable
  <1> SUFFICES ASSUME LayoutInv, SpatialFrame PROVE Drawable
    OBVIOUS
  <1>1. WholeInv /\ CaptureInv /\ HasPlace /\ canvas.rows = height - 3
    BY DEF LayoutInv, WholeInv
  <1>2. phase = "done"
    BY <1>1 DEF CaptureInv, SpatialFrame, NoFrame
  <1>3. IsWindow /\ Captured
    BY <1>1, <1>2 DEF CaptureInv
  <1>4. NodesKept /\ kept[1] = window[1]
    BY <1>3, KeptOf
  <1>5. canvas.rows \in Nat \ {0}
    BY <1>1, <1>3 DEF IsWindow, HasPlace
  <1>6. Root.bounds.width > 0 /\ Root.bounds.height > 0
    BY <1>1, <1>4 DEF Root, HasPlace
  <1> QED
    BY <1>1, <1>4, <1>5, <1>6 DEF Drawable, WholeInv

LEMMA LayoutIsApart == LayoutInv => LayoutKeepsApart
  <1>1. ~SpatialFrame => LayoutKeepsApart
    BY DEF LayoutKeepsApart, AdjacentStayApart, ColumnsFillTheTable, TableCellsAreApart,
           ListRowsAreApart
  <1> QED
    BY <1>1, WhileShown, AdjacentApart, ColumnsFill, TablesApart, ListsApart
    DEF LayoutKeepsApart

LEMMA InitIsLaidOut == Init => LayoutInv
  BY InitIsWhole DEF Init, LayoutInv, SpatialFrame, NoFrame

LEMMA StepIsLaidOut == LayoutInv /\ [Next]_vars => LayoutInv'
  <1> SUFFICES ASSUME LayoutInv, [Next]_vars, SpatialFrame'
               PROVE  HasPlace' /\ canvas'.rows = height' - 3
    BY StepIsWhole DEF LayoutInv
  <1>1. WholeInv /\ (phase # "done" => ~SpatialFrame)
    BY DEF LayoutInv, WholeInv, CaptureInv, SpatialFrame, NoFrame
  <1>2. CASE UNCHANGED frame /\ phase # "done"
    BY <1>1, <1>2 DEF SpatialFrame
  <1>3. CASE Capture \/ render_spatial_node \/ DrawRow \/ DrawCell
    BY <1>2, <1>3 DEF Capture, render_spatial_node, DrawRow, DrawCell, Drawing, DrawAt
  <1>4. CASE Finish
    BY <1>1, <1>4 DEF Finish, Drawn, WholeInv, HasPlace
  <1>5. CASE SayUnexposed
    <2> DEFINE rows == SpatialRows(canvas')
    <2>1. frame' = [NoFrame EXCEPT !.kind = "message", !.rows = rows]
      BY <1>5 DEF SayUnexposed
    <2> HIDE DEF rows
    <2>2. frame'.kind = "message"
      BY <2>1 DEF NoFrame
    <2> QED
      BY <2>2 DEF SpatialFrame
  <1>6. CASE RenderTree
    <2>1. frame'.kind = "tree"
      BY <1>6 DEF RenderTree
    <2> QED
      BY <2>1 DEF SpatialFrame
  <1>7. CASE UNCHANGED vars
    BY <1>7 DEF vars, LayoutInv, SpatialFrame, HasPlace
  <1> QED
    BY <1>3, <1>4, <1>5, <1>6, <1>7 DEF Next

\* As long as a spatial frame is shown, the canvas and the window are those it was
\* drawn with (render_spatial_snapshot returns the rows of the canvas it drew on).
THEOREM LayoutInvariant == Spec => []LayoutInv
  <1> QED
    BY InitIsLaidOut, StepIsLaidOut, PTL DEF Spec

\* Neighbours, the cells of tables and the rows of lists never get places that
\* overlap, and the columns of a table take up its width (project_clipped_bounds,
\* allocate_table_widths, render_table_children, render_collection_children).
THEOREM LayoutAlwaysKeepsApart == Spec => []LayoutKeepsApart
  <1> QED
    BY LayoutIsApart, LayoutInvariant, PTL

-------------------------------------------------------------------------------
(* What a step draws, and what it leaves.                                      *)

\* A step changes nothing of the canvas, or draws the node that is next at its place.
LEMMA StepDraws ==
    ASSUME WholeInv, [Next]_vars, phase = "draw", todo # <<>>
    PROVE  \/ canvas' = canvas
           \/ PlaceOfCurrent \in Areas /\ canvas' = Shown(PlaceOfCurrent, Head(todo).node)
  <1> DEFINE i == Head(todo).node
  <1>1. Drawable /\ NodesKept /\ todo \in Seq(Tasks)
    BY WhileDrawing
  <1>2. i \in DOMAIN kept /\ (Head(todo).act \in {"row", "cell"} => Head(todo).rect \in Areas)
    BY <1>1, NextTask
  <1>3. CASE render_spatial_node
    <2> DEFINE node == kept[i]
               rect == IF i # 1 /\ node.placed THEN Project(node.bounds) ELSE NoCells
               shown == ~(~node.visible \/ node.role = "ScrollBar") /\ rect # NoCells /\ Shows(i)
    <2>1. Head(todo).act = "visit" /\ canvas' = IF shown THEN Shown(rect, i) ELSE canvas
      BY <1>3 DEF render_spatial_node, Drawing, DrawAt
    <2>2. PlaceOfCurrent = Project(node.bounds)
      BY <2>1 DEF PlaceOfCurrent, Current
    <2>3. rect # NoCells => rect = PlaceOfCurrent /\ rect \in Areas
      BY <1>1, <1>2, <2>2, DesiredRow
    <2> HIDE DEF rect
    <2> QED
      BY <2>1, <2>3
  <1>4. CASE DrawRow
    <2>1. /\ Head(todo).act = "row"
          /\ \/ canvas' = canvas
             \/ canvas' = Shown(Head(todo).rect, i)
      BY <1>4 DEF DrawRow, Drawing, DrawAt
    <2> QED
      BY <1>2, <2>1 DEF PlaceOfCurrent
  <1>5. CASE DrawCell
    <2>1. /\ Head(todo).act = "cell"
          /\ \/ canvas' = canvas
             \/ canvas' = Shown(Head(todo).rect, i)
      BY <1>5 DEF DrawCell, Drawing, DrawAt
    <2> QED
      BY <1>2, <2>1 DEF PlaceOfCurrent
  <1>6. ~Capture /\ ~Finish /\ ~SayUnexposed
    BY DEF Capture, Finish, SayUnexposed, Drawn
  <1>7. CASE RenderTree
    BY <1>7 DEF RenderTree
  <1>8. CASE UNCHANGED vars
    BY <1>8 DEF vars
  <1> QED
    BY <1>3, <1>4, <1>5, <1>6, <1>7, <1>8 DEF Next

LEMMA StepSpares ==
    WholeInv /\ [Next]_vars =>
        [phase = "draw" /\ todo # <<>> => LateMarksSpareText /\ ControlsKeepToTheirPlace]_vars
  <1> SUFFICES ASSUME WholeInv, [Next]_vars, phase = "draw", todo # <<>>
               PROVE  LateMarksSpareText /\ ControlsKeepToTheirPlace
    OBVIOUS
  <1> DEFINE i == Head(todo).node
             rect == PlaceOfCurrent
             label == IF NonEmpty(kept[i].label) THEN kept[i].label ELSE <<>>
             at == canvas.at
             next == canvas'.at
             r == canvas.rows
  <1>1. Drawable /\ NodesKept /\ todo \in Seq(Tasks)
    BY WhileDrawing
  <1>2. i \in DOMAIN kept /\ Current = kept[i]
    BY <1>1, NextTask DEF Current
  <1>3. r \in Nat /\ canvas \in Canvases(Cols, r) /\ Cols \in Nat
    BY <1>1, Limits DEF Drawable
  <1>4. \A p \in DOMAIN at : p = <<p[1], p[2]>> /\ p[1] \in 0..Cols - 1 /\ p[2] \in 0..r - 1
    <2>1. DOMAIN at = Places(Cols, r)
      BY <1>3 DEF Canvases
    <2> HIDE DEF at
    <2> QED
      BY <2>1 DEF Places
  <1>5. CASE canvas' = canvas
    BY <1>5 DEF LateMarksSpareText, ControlsKeepToTheirPlace, Overwritten, Changed
  <1>6. CASE rect \in Areas /\ canvas' = Shown(rect, i)
    <2>1. label \in Texts
      BY <1>1, <1>2, KeptNode, Letters
    <2>2. canvas' = draw_spatial_control(canvas, rect, i, kept[i].role, label)
      BY <1>6 DEF Shown
    <2>3. ~IsMultiline(kept[i].label) => ~IsMultiline(label)
      BY DEF IsMultiline
    <2> HIDE DEF label, rect, i, at, next, r
    <2>4. ASSUME kept[i].role \in {"MenuItem", "Separator", "StaticText"},
                 kept[i].role = "StaticText" => ~IsMultiline(kept[i].label)
          PROVE  Overwritten = {}
      <3>1. Spares(at, next, Cols, r)
        BY <1>1, <1>2, <1>6, <2>1, <2>2, <2>3, <2>4, ControlSpares DEF at, next, r
      <3>2. ASSUME NEW p \in DOMAIN at, at[p] # Empty PROVE next[p] = at[p]
        <4>1. p = <<p[1], p[2]>> /\ p[1] \in 0..Cols - 1 /\ p[2] \in 0..r - 1
          BY <1>4
        <4> QED
          BY <3>1, <3>2, <4>1 DEF Spares
      <3> QED
        BY <3>2 DEF Overwritten, Changed, at, next
    <2>5. ASSUME kept[i].role = "Dialog", NEW p \in Overwritten
          PROVE  p[2] = rect.y
      <3>1. p \in DOMAIN at /\ next[p] # at[p] /\ at[p] # Empty
        BY <2>5 DEF Overwritten, Changed, at, next
      <3>2. p = <<p[1], p[2]>> /\ p[1] \in 0..Cols - 1 /\ p[2] \in 0..r - 1
        BY <1>4, <3>1
      <3>3. canvas' = draw_titled_border(canvas, rect, label)
        BY <2>2, <2>5 DEF draw_spatial_control, IsArea, FlowsWrapped, IsBullet, Flows, FlowsInLine
      <3>4. p[2] # rect.y => next[<<p[1], p[2]>>] = at[<<p[1], p[2]>>]
        BY <1>3, <1>6, <2>1, <3>1, <3>2, <3>3, TitleSpares DEF at, next
      <3> QED
        BY <3>1, <3>2, <3>4
    <2>6. ASSUME kept[i].role \notin {"MenuItem", "ListItem", "CheckBox"}, NEW p \in Changed
          PROVE  Lies(rect, p[1], p[2]) \/ HalfOf(rect, at[p], p[1], p[2])
      <3>1. p \in DOMAIN at /\ next[p] # at[p]
        BY <2>6 DEF Changed, at, next
      <3>2. p = <<p[1], p[2]>> /\ p[1] \in 0..Cols - 1 /\ p[2] \in 0..r - 1
        BY <1>4, <3>1
      <3>3. Within(rect, at, next, Cols, r)
        BY <1>1, <1>2, <1>6, <2>1, <2>2, <2>6, ControlWithin DEF at, next, r
      <3> QED
        BY <3>1, <3>2, <3>3 DEF Within
    <2>7. LateMarksSpareText
      BY <1>2, <2>4, <2>5 DEF LateMarksSpareText, rect
    <2>8. ControlsKeepToTheirPlace
      BY <1>2, <2>6 DEF ControlsKeepToTheirPlace, rect, at
    <2> QED
      BY <2>7, <2>8
  <1> QED
    BY <1>5, <1>6, StepDraws

\* No control leaves its place but those that may be longer, and labels that flow,
\* separators and borders overwrite nothing (draw_spatial_control with
\* flow_text_bounded, decoration, draw_inline_label, draw_titled_border).
THEOREM DrawingAlwaysSparesOthers == Spec => DrawingSparesOthers
  <1>1. WholeInv /\ [Next]_vars =>
            [phase = "draw" /\ todo # <<>> => LateMarksSpareText /\ ControlsKeepToTheirPlace]_vars
    BY StepSpares
  <1> QED
    BY <1>1, DrawingInvariant, PTL DEF Spec, DrawingSparesOthers
===============================================================================
