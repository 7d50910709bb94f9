---------------------------- MODULE ProtocolProofs ----------------------------
(* Theorems about NativeProtocol: for every viewport, every set of clusters     *)
(* and styles, every limit and every set of packets that break a rule, however  *)
(* the stream is cut into reads, the broker is given the packets as they were   *)
(* written, a connection ends only for a reason, and viewers see the matrix.    *)
(*                                                                              *)
(* The matrix is tiled: from the first column on, a glyph begins where the one  *)
(* before it ends.  So a row of a frame leaves no gap and decode_frame takes    *)
(* it.  A packet on the wire is one of the adapter's, which the decoder accepts *)
(* unless its payload is too long, or it breaks a rule, and then no decoder     *)
(* that took what was before it accepts it.  The loop of one push is a run of   *)
(* turns, of which each takes a packet, fails, or finds no whole packet left.   *)
EXTENDS NativeProtocol, DataLemmas, SequenceTheorems

\* A matrix of cells whose glyphs stand side by side: behind each comes, over its
\* width, nothing but its continuation, and then the next glyph.
Texts == {" "} \cup {k.text : k \in Clusters}
Cells == [text : Texts, width : {1, 2}, continuation : BOOLEAN, style : Styles]
Matrices == [1..Cols -> Cells]

Tiled(m) ==
    /\ ~m[1].continuation
    /\ \A c \in GlyphColumns(m) :
          /\ c + m[c].width <= Cols + 1
          /\ m[c].width = 2 => m[c + 1].continuation
          /\ c + m[c].width <= Cols => ~m[c + m[c].width].continuation

\* A packet that the adapter wrote by the rules, as the i-th.
Own(packet, i) ==
    /\ ~packet.broken /\ packet.magic /\ packet.version = 1
    /\ packet.kind \in {"hello", "frame", "image"}
    /\ packet.kind = "hello" <=> i = 1
    /\ packet.nonce = 1 /\ packet.sequence = i
    /\ decode_payload(packet.kind, packet.payload) # <<>>
    /\ packet.drawn # <<>> =>
          /\ packet.kind = "frame"
          /\ packet.drawn \in Matrices /\ Tiled(packet.drawn)
          /\ \E answers \in BOOLEAN :
                packet.payload = FramePayload(packet.drawn, answers)

\* A packet that breaks a rule, whatever the decoder took before it.
Rejected(packet, i) ==
    /\ packet.broken /\ packet.drawn = <<>>
    /\ \/ ~EnvelopeKnown(packet)
       \/ decode_payload(packet.kind, packet.payload) = <<>>
       \/ packet.kind = "hello" /\ i > 1
       \/ packet.kind # "hello" /\ (packet.nonce # 1 \/ packet.sequence = 1)

\* The packets lie one after the other in the stream.
WireInv ==
    /\ IsSequence(wire)
    /\ \A i \in 1..Len(wire) :
          /\ DOMAIN wire[i] = PacketFields
          /\ {wire[i].units, wire[i].nonce, wire[i].sequence} \subseteq Nat
          /\ wire[i].end = End(i - 1) + Total(wire[i])
          /\ Own(wire[i], i) \/ Rejected(wire[i], i)

\* A decoder that took the packets before the next one, all by the rules.
TookAll(d) ==
    /\ d \in DecoderStates /\ d.next \in 1..Len(wire) + 1
    /\ d.saw_hello <=> d.next > 1
    /\ d.next > 1 => d.nonce = 1 /\ d.sequence = d.next - 1
    /\ \A i \in 1..d.next - 1 : Own(wire[i], i)

DecoderInv ==
    /\ TookAll(decoder)
    /\ IsSequence(delivered) /\ Len(delivered) = decoder.next - 1
    /\ \A i \in 1..Len(delivered) : delivered[i] = Message(i)
    /\ received \in Nat /\ refused \in BOOLEAN
    /\ received <= End(Len(wire))
    /\ End(decoder.next - 1) <= received

ProtocolInv ==
    /\ matrix \in Matrices /\ Tiled(matrix)
    /\ WireInv /\ DecoderInv
    /\ NothingHeldBack /\ RefusalIsDeserved
-------------------------------------------------------------------------------
(* Constants.                                                                  *)

LEMMA Limits ==
    /\ Cols \in Nat /\ Cols >= 1 /\ Cols <= 1000
    /\ EnvelopeLen \in Nat /\ EnvelopeLen >= 1
    /\ MaxPayload \in Nat /\ MaxPayload >= 1
    /\ ReadSize \in Nat /\ ReadSize >= 1
    /\ MaxStyles \in Nat /\ MaxStyles >= 1
    /\ MaxPackets \in Nat /\ MaxPaints \in Nat
  BY ProtocolAssumption
-------------------------------------------------------------------------------
(* Numbers in order.                                                           *)

Increasing(s, n) == \A i, j \in 1..n : i < j => s[i] < s[j]

\* A set of numbers up to n can be put in order: its greatest goes last.
LEMMA OrderExists ==
    \A n \in Nat : \A S \in SUBSET (1..n) :
        \E s \in [1..Cardinality(S) -> S] : Increasing(s, Cardinality(S))
  <1> DEFINE Ordered(S) == \E s \in [1..Cardinality(S) -> S] :
                               Increasing(s, Cardinality(S))
             T == {n \in Nat : \A S \in SUBSET (1..n) : Ordered(S)}
  <1>1. 0 \in T
    <2>1. ASSUME NEW S \in SUBSET (1..0) PROVE Ordered(S)
      <3>1. S = {}
        OBVIOUS
      <3>2. Cardinality(S) = 0
        BY <3>1, FS_EmptySet
      <3>3. [i \in 1..0 |-> 0] \in [1..Cardinality(S) -> S]
        BY <3>1, <3>2
      <3>4. Increasing([i \in 1..0 |-> 0], Cardinality(S))
        BY <3>2 DEF Increasing
      <3> QED
        BY <3>3, <3>4
    <2> QED
      BY <2>1
  <1>2. ASSUME NEW n \in T PROVE n + 1 \in T
    <2>1. n \in Nat /\ \A S \in SUBSET (1..n) : Ordered(S)
      BY <1>2
    <2>2. ASSUME NEW S \in SUBSET (1..n + 1) PROVE Ordered(S)
      <3> DEFINE R == S \ {n + 1}
                 k == Cardinality(R)
      <3>1. R \in SUBSET (1..n)
        BY <2>1
      <3>2. IsFiniteSet(1..n)
        BY <2>1, FS_Interval
      <3>3. IsFiniteSet(R)
        BY <3>1, <3>2, FS_Subset
      <3>4. k \in Nat
        BY <3>3, FS_CardinalityType
      <3>5. CASE n + 1 \notin S
        <4>1. S = R
          BY <3>5
        <4> QED
          BY <4>1, <3>1, <2>1
      <3>6. CASE n + 1 \in S
        <4>1. S = R \cup {n + 1} /\ n + 1 \notin R
          BY <3>6
        <4>2. Cardinality(S) = k + 1
          BY <4>1, <3>3, FS_AddElement
        <4>3. PICK r \in [1..k -> R] : Increasing(r, k)
          BY <3>1, <2>1
        <4> DEFINE s == [i \in 1..k + 1 |-> IF i = k + 1 THEN n + 1 ELSE r[i]]
        <4> HIDE DEF k, R
        <4>4. \A i \in 1..k : r[i] \in R /\ r[i] \in 1..n
          BY <4>3, <3>1
        <4>5. s \in [1..k + 1 -> S]
          <5>1. \A i \in 1..k + 1 : i = k + 1 \/ i \in 1..k
            BY <3>4
          <5> QED
            BY <4>1, <4>4, <5>1
        <4>6. Increasing(s, k + 1)
          <5> SUFFICES ASSUME NEW i \in 1..k + 1, NEW j \in 1..k + 1, i < j
                       PROVE  s[i] < s[j]
            BY DEF Increasing
          <5>1. i \in 1..k /\ s[i] = r[i] /\ i # k + 1
            BY <3>4
          <5>2. CASE j = k + 1
            BY <5>1, <5>2, <4>4, <2>1
          <5>3. CASE j # k + 1
            <6>1. j \in 1..k /\ s[j] = r[j]
              BY <5>3, <3>4
            <6> QED
              BY <5>1, <6>1, <4>3 DEF Increasing
          <5> QED
            BY <5>2, <5>3
        <4> HIDE DEF s
        <4> QED
          BY <4>2, <4>5, <4>6
      <3> QED
        BY <3>5, <3>6
    <2> HIDE DEF Ordered
    <2> QED
      BY <2>1, <2>2
  <1>3. T \subseteq Nat
    OBVIOUS
  <1> HIDE DEF T
  <1>4. T = Nat
    BY <1>1, <1>2, <1>3, NaturalsClosed
  <1> QED
    BY <1>4 DEF T

\* What Ascending returns for columns: all of them, once each, in order.
LEMMA AscendingOf ==
    ASSUME NEW S \in SUBSET (1..Cols)
    PROVE  /\ Cardinality(S) \in 0..Cols
           /\ Ascending(S) \in [1..Cardinality(S) -> S]
           /\ Len(Ascending(S)) = Cardinality(S)
           /\ Increasing(Ascending(S), Cardinality(S))
           /\ \A x \in S : \E i \in 1..Cardinality(S) : Ascending(S)[i] = x
  <1> DEFINE n == Cardinality(S)
             s == Ascending(S)
  <1>1. IsFiniteSet(1..Cols) /\ Cardinality(1..Cols) = Cols
    BY Limits, FS_Interval
  <1>2. IsFiniteSet(S) /\ n \in Nat /\ n <= Cols
    BY <1>1, FS_Subset, FS_CardinalityType
  <1>3. \E t \in [1..n -> S] : Increasing(t, n)
    BY OrderExists, Limits
  <1>4. s \in [1..n -> S] /\ Increasing(s, n)
    BY <1>3 DEF Ascending, Increasing
  <1> HIDE DEF s, n
  <1>5. Len(s) = n
    BY <1>2, <1>4, FunctionIsSequence
  <1>6. s \in Injection(1..n, S)
    <2>1. \A i \in 1..n : s[i] \in Nat
      <3>1. \A i \in 1..n : s[i] \in 1..Cols
        BY <1>4
      <3> QED
        BY <3>1, Limits
    <2>2. ASSUME NEW i \in 1..n, NEW j \in 1..n, s[i] = s[j] PROVE i = j
      <3>1. ~(i < j) /\ ~(j < i)
        BY <1>4, <2>1, <2>2 DEF Increasing
      <3> QED
        BY <3>1, <1>2
    <2> QED
      BY <1>4, <2>2 DEF Injection, IsInjective
  <1>7. Cardinality(1..n) = n
    BY <1>2, FS_Interval
  <1>8. s \in Surjection(1..n, S)
    BY <1>2, <1>6, <1>7, FS_Injection DEF n
  <1>9. \A x \in S : \E i \in 1..n : s[i] = x
    BY <1>8 DEF Surjection
  <1>10. n \in 0..Cols
    BY <1>2, Limits
  <1> QED
    BY <1>4, <1>5, <1>9, <1>10 DEF s, n
-------------------------------------------------------------------------------
(* The glyphs of a matrix, and its table of styles.                            *)

LEMMA CellTypes ==
    ASSUME NEW m \in Matrices, NEW c \in 1..Cols
    PROVE  /\ m[c].width \in {1, 2} /\ m[c].style \in Styles
           /\ m[c].continuation \in BOOLEAN
  BY DEF Matrices, Cells

\* A row of glyphs: each begins where the one before it ends.
SideBySide(m, g, n) ==
    /\ n \in 1..Cols /\ Len(g) = n
    /\ g \in [1..n -> GlyphColumns(m)]
    /\ \A c \in GlyphColumns(m) : \E i \in 1..n : g[i] = c
    /\ g[1] = 1
    /\ \A i \in 2..n : g[i] = g[i - 1] + m[g[i - 1]].width
    /\ g[n] + m[g[n]].width = Cols + 1

\* The columns without continuation of a tiled matrix are such a row.
LEMMA GlyphsSideBySide ==
    ASSUME NEW m \in Matrices, Tiled(m)
    PROVE  SideBySide(m, Glyphs(m), Cardinality(GlyphColumns(m)))
  <1> DEFINE S == GlyphColumns(m)
             n == Cardinality(S)
             g == Glyphs(m)
  <1>1. S \in SUBSET (1..Cols) /\ 1 \in S
    BY Limits DEF Tiled, GlyphColumns
  <1>2. /\ n \in 0..Cols /\ g \in [1..n -> S] /\ Len(g) = n
        /\ \A i, j \in 1..n : i < j => g[i] < g[j]
        /\ \A x \in S : \E i \in 1..n : g[i] = x
    BY <1>1, AscendingOf DEF Glyphs, Increasing
  <1>3. \A c \in S : /\ c \in 1..Cols /\ c \in Nat /\ m[c].width \in {1, 2}
                     /\ c + m[c].width <= Cols + 1
                     /\ m[c].width = 2 => c + 1 \notin S
                     /\ c + m[c].width <= Cols => c + m[c].width \in S
    <2> TAKE c \in S
    <2>1. c \in 1..Cols /\ c \in Nat
      BY <1>1, Limits
    <2>2. m[c].width \in {1, 2}
      BY <2>1, CellTypes
    <2>3. /\ c + m[c].width <= Cols + 1
          /\ m[c].width = 2 => m[c + 1].continuation
          /\ c + m[c].width <= Cols => ~m[c + m[c].width].continuation
      BY DEF Tiled
    <2>4. c + m[c].width <= Cols => c + m[c].width \in 1..Cols
      BY <2>1, <2>2, Limits
    <2> QED
      BY <2>1, <2>2, <2>3, <2>4 DEF GlyphColumns
  <1> HIDE DEF S, g, n
  <1>4. n \in 1..Cols /\ n \in Nat
    <2>1. PICK i \in 1..n : g[i] = 1
      BY <1>1, <1>2
    <2> QED
      BY <2>1, <1>2, Limits
  <1>5. \A i \in 1..n : g[i] \in S /\ g[i] \in Nat
    BY <1>2, <1>3
  <1>6. g[1] = 1
    <2>1. PICK i \in 1..n : g[i] = 1
      BY <1>1, <1>2
    <2>2. 1 \in 1..n /\ g[1] \in 1..Cols
      BY <1>3, <1>4, <1>5
    <2>3. CASE i = 1
      BY <2>1, <2>3
    <2>4. CASE i # 1
      <3>1. g[1] < 1
        BY <2>1, <2>2, <2>4, <1>2, <1>4
      <3> QED
        BY <3>1, <2>2, Limits
    <2> QED
      BY <2>3, <2>4
  \* Between a glyph and the one behind it no other begins.
  <1>7. ASSUME NEW i \in 1..n, NEW x \in S, g[i] < x PROVE g[i] + m[g[i]].width <= x
    <2>1. /\ g[i] \in S /\ g[i] \in Nat /\ x \in Nat /\ m[g[i]].width \in {1, 2}
          /\ m[g[i]].width = 2 => g[i] + 1 # x
      BY <1>3, <1>5
    <2> QED
      BY <2>1, <1>7
  <1>8. ASSUME NEW i \in 1..n, i + 1 <= n PROVE g[i + 1] = g[i] + m[g[i]].width
    <2> DEFINE next == g[i] + m[g[i]].width
    <2>1. i + 1 \in 1..n /\ g[i] < g[i + 1] /\ g[i] \in Nat /\ g[i + 1] \in S
      BY <1>2, <1>4, <1>5, <1>8
    <2>2. next <= g[i + 1]
      BY <2>1, <1>7
    <2>3. g[i + 1] \in 1..Cols /\ m[g[i]].width \in {1, 2}
      BY <2>1, <1>3, <1>5
    <2>4. next <= Cols
      BY <2>1, <2>2, <2>3, Limits
    <2>5. next \in S
      BY <2>4, <1>3, <1>5
    <2>6. PICK j \in 1..n : g[j] = next
      BY <2>5, <1>2
    <2>7. g[i] < g[j] /\ g[i] \in Nat /\ g[j] \in Nat
      BY <2>1, <2>3, <2>6, <1>5
    <2>8. i < j
      <3>1. ~(j < i)
        BY <2>7, <1>2
      <3>2. i # j
        BY <2>7
      <3> QED
        BY <3>1, <3>2, <1>4
    <2>9. j = i + 1 \/ i + 1 < j
      BY <2>8, <1>4
    <2>10. ~(i + 1 < j)
      <3> SUFFICES ASSUME i + 1 < j PROVE FALSE
        OBVIOUS
      <3>1. g[i + 1] < g[j]
        BY <2>1, <1>2
      <3> QED
        BY <3>1, <2>1, <2>2, <2>6, <2>7, <1>5
    <2> QED
      BY <2>6, <2>9, <2>10
  <1>9. \A i \in 2..n : g[i] = g[i - 1] + m[g[i - 1]].width
    <2> TAKE i \in 2..n
    <2>1. i - 1 \in 1..n /\ (i - 1) + 1 = i /\ (i - 1) + 1 <= n
      BY <1>4
    <2> QED
      BY <2>1, <1>8
  <1>10. g[n] + m[g[n]].width = Cols + 1
    <2> DEFINE next == g[n] + m[g[n]].width
    <2>1. n \in 1..n /\ g[n] \in S /\ g[n] \in Nat
      BY <1>4, <1>5
    <2>2. m[g[n]].width \in {1, 2} /\ next <= Cols + 1 /\ (next <= Cols => next \in S)
      BY <2>1, <1>3
    <2>3. ASSUME next \in S PROVE FALSE
      <3>1. PICK j \in 1..n : g[j] = next
        BY <2>3, <1>2
      <3>2. g[n] < g[j] /\ g[j] \in Nat
        BY <2>1, <2>2, <3>1, <1>5
      <3>3. j = n \/ j < n
        BY <1>4
      <3>4. j < n => g[j] < g[n]
        BY <2>1, <1>2
      <3> QED
        BY <2>1, <3>2, <3>3, <3>4
    <2> QED
      BY <2>1, <2>2, <2>3, Limits
  <1> QED
    BY <1>2, <1>4, <1>6, <1>9, <1>10 DEF SideBySide, S, g, n

\* The styles of the glyphs.
UsedStyles(m) == {m[c].style : c \in GlyphColumns(m)}

\* Every style that is used is used first at one column.
LEMMA FirstUseExists ==
    ASSUME NEW m \in Matrices, NEW c \in GlyphColumns(m)
    PROVE  \E d \in FirstUses(m) : m[d].style = m[c].style
  <1> DEFINE S == {d \in GlyphColumns(m) : m[d].style = m[c].style}
  <1>1. GlyphColumns(m) \subseteq Nat
    BY Limits DEF GlyphColumns
  <1>2. S \subseteq Nat /\ c \in S
    BY <1>1
  <1>3. PICK d \in S : \A e \in S : d <= e
    BY <1>2, LeastOf
  <1>4. \A e \in GlyphColumns(m) : e < d => m[e].style # m[d].style
    <2> SUFFICES ASSUME NEW e \in GlyphColumns(m), e < d, m[e].style = m[d].style
                 PROVE  FALSE
      OBVIOUS
    <2>1. e \in S
      BY <1>3
    <2>2. d <= e /\ d \in Nat /\ e \in Nat
      BY <2>1, <1>1, <1>3
    <2> QED
      BY <2>2
  <1> QED
    BY <1>3, <1>4 DEF FirstUses

\* The table has between one and MaxStyles styles, each once; and when it has room
\* for all of them, it has all of them.
LEMMA TableOf ==
    ASSUME NEW m \in Matrices, Tiled(m)
    PROVE  /\ Len(StyleTable(m)) \in 1..MaxStyles
           /\ StyleTable(m) \in [1..Len(StyleTable(m)) -> Styles]
           /\ Cardinality(UsedStyles(m)) <= MaxStyles =>
                 \A style \in UsedStyles(m) :
                    \E n \in 1..Len(StyleTable(m)) : StyleTable(m)[n] = style
  <1> DEFINE F == FirstUses(m)
             k == Cardinality(F)
             first == Ascending(F)
             n == Min({Len(first), MaxStyles})
  <1>1. F \in SUBSET (1..Cols) /\ F \subseteq GlyphColumns(m)
    BY DEF FirstUses, GlyphColumns
  <1>2. /\ k \in 0..Cols /\ first \in [1..k -> F] /\ Len(first) = k
        /\ \A x \in F : \E i \in 1..k : first[i] = x
    BY <1>1, AscendingOf
  <1>3. 1 \in GlyphColumns(m)
    BY Limits DEF Tiled, GlyphColumns
  <1>4. PICK d \in F : m[d].style = m[1].style
    BY <1>3, FirstUseExists
  <1>5. k \in Nat /\ k >= 1
    BY <1>2, <1>4, Limits
  <1>6. n = IF k <= MaxStyles THEN k ELSE MaxStyles
    <2>1. n \in {k, MaxStyles} /\ n <= k /\ n <= MaxStyles
      <3> DEFINE least == IF k <= MaxStyles THEN k ELSE MaxStyles
      <3>1. least \in {k, MaxStyles} /\ \A y \in {k, MaxStyles} : least <= y
        BY <1>5, Limits
      <3>2. \E x \in {k, MaxStyles} : \A y \in {k, MaxStyles} : x <= y
        BY <3>1
      <3>3. Min({k, MaxStyles}) \in {k, MaxStyles} /\
            \A y \in {k, MaxStyles} : Min({k, MaxStyles}) <= y
        BY <3>2 DEF Min
      <3> QED
        BY <1>2, <3>3
    <2> HIDE DEF n
    <2> QED
      BY <2>1, <1>5, Limits
  <1> DEFINE table == [i \in 1..n |-> m[first[i]].style]
  <1>7. StyleTable(m) = table
    BY DEF StyleTable
  <1> HIDE DEF n, first, k
  <1>8. n \in 1..MaxStyles /\ n \in Nat /\ n <= k
    BY <1>5, <1>6, Limits
  <1>9. \A i \in 1..n : first[i] \in F /\ first[i] \in 1..Cols
    BY <1>1, <1>2, <1>5, <1>8
  <1>10. \A i \in 1..n : m[first[i]].style \in Styles
    BY <1>9, CellTypes
  <1>11. table \in [1..n -> Styles] /\ Len(table) = n
    <2>1. table \in [1..n -> Styles]
      BY <1>10
    <2>2. table = [i \in 1..n |-> table[i]]
      OBVIOUS
    <2> HIDE DEF table
    <2> QED
      BY <2>1, <2>2, <1>8, FunctionIsSequence
  <1>12. ASSUME Cardinality(UsedStyles(m)) <= MaxStyles
         PROVE  \A style \in UsedStyles(m) : \E i \in 1..n : table[i] = style
    <2> DEFINE used == [c \in F |-> m[c].style]
    <2>1. IsFiniteSet(UsedStyles(m))
      <3>1. IsFiniteSet(GlyphColumns(m))
        <4>1. IsFiniteSet(1..Cols) /\ GlyphColumns(m) \in SUBSET (1..Cols)
          BY Limits, FS_Interval DEF GlyphColumns
        <4> QED
          BY <4>1, FS_Subset
      <3> DEFINE styles == [c \in GlyphColumns(m) |-> m[c].style]
      <3>2. styles \in Surjection(GlyphColumns(m), UsedStyles(m))
        BY DEF Surjection, UsedStyles
      <3> QED
        BY <3>1, <3>2, FS_Surjection
    <2>2. used \in Injection(F, UsedStyles(m))
      <3>1. used \in [F -> UsedStyles(m)]
        BY <1>1 DEF UsedStyles
      <3>2. ASSUME NEW c \in F, NEW e \in F, used[c] = used[e] PROVE c = e
        <4>1. c \in Nat /\ e \in Nat
          BY <1>1, Limits
        <4>2. ~(c < e) /\ ~(e < c)
          BY <3>2 DEF FirstUses
        <4> QED
          BY <4>1, <4>2
      <3> QED
        BY <3>1, <3>2 DEF Injection, IsInjective
    <2>3. k <= Cardinality(UsedStyles(m)) /\ Cardinality(UsedStyles(m)) \in Nat
      BY <2>1, <2>2, FS_Injection, FS_CardinalityType DEF k
    <2>4. n = k
      BY <2>3, <1>5, <1>6, <1>12, Limits
    <2> TAKE style \in UsedStyles(m)
    <2>5. PICK c \in GlyphColumns(m) : m[c].style = style
      BY DEF UsedStyles
    <2>6. PICK e \in F : m[e].style = style
      BY <2>5, FirstUseExists
    <2>7. PICK i \in 1..k : first[i] = e
      BY <2>6, <1>2
    <2> QED
      BY <2>4, <2>6, <2>7
  <1> HIDE DEF table
  <1> QED
    BY <1>7, <1>8, <1>11, <1>12

\* The index a cell is given is in the table; and when the table has the style, it
\* is the index of that style.
LEMMA IndexOf ==
    ASSUME NEW table, Len(table) \in Nat, Len(table) >= 1, NEW style
    PROVE  /\ StyleIndex(table, style) \in Nat
           /\ StyleIndex(table, style) < Len(table)
           /\ (\E n \in 1..Len(table) : table[n] = style) =>
                 table[StyleIndex(table, style) + 1] = style
  <1>1. CASE \E n \in 1..Len(table) : table[n] = style
    <2> DEFINE k == CHOOSE n \in 1..Len(table) : table[n] = style
    <2>1. k \in 1..Len(table) /\ table[k] = style
      BY <1>1
    <2>2. StyleIndex(table, style) = k - 1
      BY <1>1 DEF StyleIndex
    <2> HIDE DEF k
    <2>3. (k - 1) + 1 = k /\ k - 1 \in Nat /\ k - 1 < Len(table)
      BY <2>1
    <2> QED
      BY <2>1, <2>2, <2>3
  <1>2. CASE ~(\E n \in 1..Len(table) : table[n] = style)
    BY <1>2 DEF StyleIndex
  <1> QED
    BY <1>1, <1>2
-------------------------------------------------------------------------------
(* What decode_frame makes of a frame of the adapter's.                        *)

\* The glyph that viewers are told for the i-th of a matrix.
Told(m, i) ==
    LET cell == m[Glyphs(m)[i]]
    IN  [text |-> IF cell.text = "" THEN " " ELSE cell.text,
         wide |-> cell.width = 2,
         look |-> StyleTable(m)[StyleIndex(StyleTable(m), cell.style) + 1]]

LEMMA StylesOfFrame ==
    ASSUME NEW m \in Matrices, Tiled(m), NEW answers \in BOOLEAN
    PROVE  StylesKnown(FramePayload(m, answers))
  <1> DEFINE table == StyleTable(m)
             p == FramePayload(m, answers)
             L == {Link[table[n]] : n \in 1..Len(table)}
             links == IF answers THEN L \ {NoLink} ELSE {}
             Style(n) == [flags |-> {}, underline |-> 0, look |-> table[n],
                          link |-> IF Link[table[n]] \in links
                                   THEN Link[table[n]] ELSE NoLink]
             styles == [n \in 1..Len(table) |-> Style(n)]
  <1>1. p.styles = styles /\ p.links = SetToSeq(links)
    BY DEF FramePayload
  <1>2. Len(table) \in 1..MaxStyles /\ Len(table) \in Nat
    <2>1. Len(table) \in 1..MaxStyles
      BY TableOf
    <2> QED
      BY <2>1, Limits
  <1> HIDE DEF table, p
  <1>3. IsFiniteSet(links)
    <2> DEFINE link == [n \in 1..Len(table) |-> Link[table[n]]]
    <2>1. link \in Surjection(1..Len(table), L)
      BY DEF Surjection
    <2>2. IsFiniteSet(1..Len(table))
      BY <1>2, FS_Interval
    <2> HIDE DEF link, L
    <2>3. IsFiniteSet(L)
      BY <2>1, <2>2, FS_Surjection
    <2>4. links \in SUBSET L
      OBVIOUS
    <2> QED
      BY <2>3, <2>4, FS_Subset
  <1> HIDE DEF links
  <1>4. IsInjective(p.links) /\ ToSet(p.links) = links
    <2>1. /\ SetToSeq(links) \in [1..Cardinality(links) -> links]
          /\ IsInjective(SetToSeq(links))
          /\ \A x \in links : \E k \in 1..Cardinality(links) : SetToSeq(links)[k] = x
      BY <1>3, SetToSeqOf
    <2>2. ToSet(SetToSeq(links)) = links
      BY <2>1 DEF ToSet
    <2> QED
      BY <1>1, <2>1, <2>2
  <1>5. Len(styles) = Len(table)
    <2>1. styles = [n \in 1..Len(table) |-> styles[n]]
      OBVIOUS
    <2> HIDE DEF styles
    <2> QED
      BY <1>2, <2>1, FunctionIsSequence
  <1>6. \A n \in 1..Len(table) : /\ p.styles[n] = Style(n)
                                 /\ p.styles[n].flags = {}
                                 /\ p.styles[n].underline = 0
                                 /\ p.styles[n].link \in links \cup {NoLink}
    BY <1>1
  <1> HIDE DEF styles, Style
  <1>7. Len(p.styles) = Len(table)
    BY <1>1, <1>5
  <1>8. \A n \in 1..Len(p.styles) : /\ p.styles[n].flags \subseteq 0..6
                                     /\ p.styles[n].underline <= 5
    BY <1>6, <1>7
  <1>9. {p.styles[n].link : n \in 1..Len(p.styles)} \subseteq ToSet(p.links) \cup {NoLink}
    BY <1>4, <1>6, <1>7
  <1>10. StylesKnown(p)
    BY <1>2, <1>4, <1>7, <1>8, <1>9 DEF StylesKnown
  <1> QED
    BY <1>10 DEF p

LEMMA RowOfFrame ==
    ASSUME NEW m \in Matrices, Tiled(m), NEW answers \in BOOLEAN
    PROVE  LET p == FramePayload(m, answers)
               row == p.cells[1]
           IN  /\ Len(p.cells) = 1 /\ RowCovers(row, p)
               /\ Len(row) = Cardinality(GlyphColumns(m))
               /\ \A i \in 1..Len(row) :
                     /\ row[i].columns = m[Glyphs(m)[i]].width
                     /\ row[i].text = m[Glyphs(m)[i]].text
                     /\ p.styles[row[i].style + 1].look =
                           StyleTable(m)[StyleIndex(StyleTable(m), m[Glyphs(m)[i]].style) + 1]
  <1> DEFINE table == StyleTable(m)
             p == FramePayload(m, answers)
             g == Glyphs(m)
             n == Cardinality(GlyphColumns(m))
             row == p.cells[1]
             Cell0(i) == [col |-> g[i] - 1, columns |-> m[g[i]].width,
                          style |-> StyleIndex(table, m[g[i]].style),
                          text |-> m[g[i]].text]
  <1>1. SideBySide(m, g, n)
    BY GlyphsSideBySide
  <1>2. /\ row = [i \in 1..Len(g) |-> Cell0(i)]
        /\ Len(p.cells) = 1
        /\ p.cols = Cols
        /\ \E link : p.styles = [k \in 1..Len(table) |->
                                    [flags |-> {}, underline |-> 0, look |-> table[k],
                                     link |-> link[k]]]
    <2> DEFINE links == IF answers THEN {Link[table[k]] : k \in 1..Len(table)} \ {NoLink}
                        ELSE {}
               link == [k \in 1..Len(table) |->
                           IF Link[table[k]] \in links THEN Link[table[k]] ELSE NoLink]
    <2>1. p.cells = <<[i \in 1..Len(g) |-> Cell0(i)]>> /\ p.cols = Cols
      BY DEF FramePayload
    <2>2. p.styles = [k \in 1..Len(table) |->
                         [flags |-> {}, underline |-> 0, look |-> table[k],
                          link |-> IF Link[table[k]] \in links
                                   THEN Link[table[k]] ELSE NoLink]]
      BY DEF FramePayload
    <2>3. p.styles = [k \in 1..Len(table) |->
                         [flags |-> {}, underline |-> 0, look |-> table[k],
                          link |-> link[k]]]
      BY <2>2
    <2> HIDE DEF p, link, Cell0
    <2>4. row = [i \in 1..Len(g) |-> Cell0(i)] /\ Len(p.cells) = 1
      BY <2>1
    <2> QED
      BY <2>1, <2>3, <2>4
  <1>3. Len(table) \in Nat /\ Len(table) >= 1
    <2>1. Len(table) \in 1..MaxStyles
      BY TableOf
    <2> QED
      BY <2>1, Limits
  <1> HIDE DEF table, p, g, n
  <1>4. n \in 1..Cols /\ n \in Nat /\ Len(g) = n
    BY <1>1, Limits DEF SideBySide
  <1>5. Len(row) = n
    <2>1. row = [i \in 1..n |-> row[i]]
      BY <1>2, <1>4
    <2> HIDE DEF row
    <2> QED
      BY <1>4, <2>1, FunctionIsSequence
  <1>6. \A i \in 1..n : /\ row[i].col = g[i] - 1 /\ row[i].columns = m[g[i]].width
                        /\ row[i].style = StyleIndex(table, m[g[i]].style)
                        /\ row[i].text = m[g[i]].text
    BY <1>2, <1>4
  <1> HIDE DEF row
  <1>7. \A i \in 1..n : /\ g[i] \in 1..Cols /\ g[i] \in Nat /\ m[g[i]].width \in {1, 2}
    <2> TAKE i \in 1..n
    <2>1. g[i] \in 1..Cols
      BY <1>1 DEF SideBySide, GlyphColumns
    <2> QED
      BY <2>1, Limits, CellTypes
  <1>8. \A i \in 1..n : /\ row[i].style \in Nat /\ row[i].style < Len(table)
                        /\ p.styles[row[i].style + 1].look = table[row[i].style + 1]
    <2> TAKE i \in 1..n
    <2>1. row[i].style \in Nat /\ row[i].style < Len(table)
      BY <1>3, <1>6, IndexOf
    <2>2. row[i].style + 1 \in 1..Len(table)
      BY <2>1, <1>3
    <2> QED
      BY <2>1, <2>2, <1>2
  <1>9. Len(p.styles) = Len(table)
    <2>1. p.styles = [k \in 1..Len(table) |-> p.styles[k]]
      BY <1>2
    <2> QED
      BY <2>1, <1>3, FunctionIsSequence
  <1>10. \A i \in 1..n : row[i].col = Column(row, i)
    <2> TAKE i \in 1..n
    <2>1. CASE i = 1
      BY <2>1, <1>1, <1>4, <1>6 DEF Column, SideBySide
    <2>2. CASE i # 1
      <3>1. i \in 2..n /\ i - 1 \in 1..n
        BY <2>2, <1>4
      <3>2. g[i] = g[i - 1] + m[g[i - 1]].width
        BY <3>1, <1>1 DEF SideBySide
      <3>3. Column(row, i) = (g[i - 1] - 1) + m[g[i - 1]].width
        BY <2>2, <3>1, <1>6 DEF Column
      <3>4. g[i - 1] \in Nat /\ m[g[i - 1]].width \in {1, 2} /\ row[i].col = g[i] - 1
        BY <3>1, <1>6, <1>7
      <3> QED
        BY <3>2, <3>3, <3>4
    <2> QED
      BY <2>1, <2>2
  <1>11. Column(row, n + 1) = Cols
    <2>1. n + 1 # 1 /\ (n + 1) - 1 = n /\ n \in 1..n
      BY <1>4
    <2>2. Column(row, n + 1) = (g[n] - 1) + m[g[n]].width
      BY <2>1, <1>6 DEF Column
    <2>3. g[n] + m[g[n]].width = Cols + 1
      BY <1>1 DEF SideBySide
    <2>4. g[n] \in Nat /\ m[g[n]].width \in {1, 2}
      BY <2>1, <1>7
    <2> QED
      BY <2>2, <2>3, <2>4, Limits
  <1>12. RowCovers(row, p)
    <2>1. \A i \in 1..n : row[i].columns \in {1, 2} /\ row[i].style < Len(p.styles)
      BY <1>6, <1>7, <1>8, <1>9
    <2>2. Len(row) <= p.cols /\ p.cols = Cols
      BY <1>2, <1>4, <1>5, Limits
    <2> QED
      BY <2>1, <2>2, <1>5, <1>10, <1>11 DEF RowCovers
  <1>13. \A i \in 1..n : p.styles[row[i].style + 1].look =
                            table[StyleIndex(table, m[g[i]].style) + 1]
    BY <1>6, <1>8
  <1>14. /\ Len(p.cells) = 1 /\ RowCovers(row, p) /\ Len(row) = n
         /\ \A i \in 1..Len(row) :
               /\ row[i].columns = m[g[i]].width /\ row[i].text = m[g[i]].text
               /\ p.styles[row[i].style + 1].look =
                     table[StyleIndex(table, m[g[i]].style) + 1]
    BY <1>2, <1>5, <1>6, <1>12, <1>13
  <1> QED
    BY <1>14 DEF row, g, n, table, p

\* The decoder takes it, and returns its glyphs.
LEMMA FrameDecodes ==
    ASSUME NEW m \in Matrices, Tiled(m), NEW answers \in BOOLEAN
    PROVE  LET message == decode_payload("frame", FramePayload(m, answers))
               row == message[1].rows[1]
           IN  /\ message # <<>>
               /\ Len(row) = Cardinality(GlyphColumns(m))
               /\ \A i \in 1..Len(row) :
                     [text |-> row[i].text, wide |-> row[i].wide,
                      look |-> row[i].look] = Told(m, i)
  <1> DEFINE p == FramePayload(m, answers)
             n == Len(p.cells[1])
             Decoded(i) ==
                LET cell == p.cells[1][i]
                    style == p.styles[cell.style + 1]
                IN  [text |-> IF cell.text = "" THEN " " ELSE cell.text,
                     wide |-> cell.columns = 2,
                     look |-> style.look, link |-> style.link]
             frame == [cols |-> p.cols,
                       rows |-> [r \in 1..p.rows |-> [i \in 1..Len(p.cells[r]) |->
                LET cell == p.cells[r][i]
                    style == p.styles[cell.style + 1]
                IN  [text |-> IF cell.text = "" THEN " " ELSE cell.text,
                     wide |-> cell.columns = 2,
                     look |-> style.look, link |-> style.link]]]]
  <1>1. /\ p.rows = 1 /\ p.cols = Cols /\ p.cursor = <<>> /\ p.cursor_style = 2
        /\ p.images = <<>> /\ p.missing = FALSE /\ p.left = FALSE
    BY DEF FramePayload
  <1>2. StylesKnown(p)
    BY StylesOfFrame
  <1>3. /\ Len(p.cells) = 1 /\ RowCovers(p.cells[1], p)
        /\ n = Cardinality(GlyphColumns(m))
        /\ \A i \in 1..n :
              /\ p.cells[1][i].columns = m[Glyphs(m)[i]].width
              /\ p.cells[1][i].text = m[Glyphs(m)[i]].text
              /\ p.styles[p.cells[1][i].style + 1].look =
                    StyleTable(m)[StyleIndex(StyleTable(m), m[Glyphs(m)[i]].style) + 1]
    BY RowOfFrame
  <1> HIDE DEF p
  <1>4. dimensions(p.rows, p.cols)
    BY <1>1, Limits DEF dimensions
  <1>5. \A r \in 1..p.rows : RowCovers(p.cells[r], p)
    BY <1>1, <1>3
  <1>6. CursorInside(p)
    BY <1>1 DEF CursorInside
  <1>7. \A k \in 1..Len(p.images) : p.images[k].hex /\ p.images[k].extent
    BY <1>1
  <1>8. decode_frame(p) = <<frame>>
    BY <1>1, <1>2, <1>3, <1>4, <1>5, <1>6, <1>7 DEF decode_frame
  <1>9. decode_payload("frame", p) = decode_frame(p)
    BY <1>1 DEF decode_payload, Whole, Commands
  <1> DEFINE row == [i \in 1..n |-> Decoded(i)]
  <1>10. frame.rows[1] = row
    BY <1>1
  <1> HIDE DEF frame, row
  <1>11. /\ decode_payload("frame", p) # <<>>
         /\ decode_payload("frame", p)[1].rows[1] = row
    <2>1. decode_payload("frame", p) = <<frame>>
      BY <1>8, <1>9
    <2>2. <<frame>> # <<>> /\ <<frame>>[1] = frame
      OBVIOUS
    <2> QED
      BY <1>10, <2>1, <2>2
  <1>12. n \in Nat /\ n \in 1..Cols
    <2>1. n \in 1..Cols
      BY <1>3, GlyphsSideBySide DEF SideBySide
    <2> QED
      BY <2>1, Limits
  <1>13. \A i \in 1..n : [text |-> row[i].text, wide |-> row[i].wide,
                          look |-> row[i].look] = Told(m, i)
    BY <1>3 DEF Told, row
  <1>14. Len(row) = n
    <2>1. row = [i \in 1..n |-> row[i]]
      BY DEF row
    <2> HIDE DEF n
    <2> QED
      BY <2>1, <1>12, FunctionIsSequence
  <1> HIDE DEF n
  <1> QED
    BY <1>3, <1>11, <1>13, <1>14 DEF p

\* Viewers find every glyph at its column, with its style if the table has room.
LEMMA RowShowsMatrix ==
    ASSUME NEW m \in Matrices, Tiled(m),
           NEW row, Len(row) = Cardinality(GlyphColumns(m)),
           \A i \in 1..Len(row) : [text |-> row[i].text, wide |-> row[i].wide,
                                   look |-> row[i].look] = Told(m, i)
    PROVE  LET there == MatrixGlyphs(m)
               here == RowGlyphs(row)
               Plain(glyphs) == {[at |-> g.at, text |-> g.text, wide |-> g.wide] :
                                 g \in glyphs}
           IN  /\ Plain(here) = Plain(there)
               /\ Cardinality({g.look : g \in there}) <= MaxStyles => here = there
  <1> DEFINE g == Glyphs(m)
             n == Cardinality(GlyphColumns(m))
             table == StyleTable(m)
             Width(i) == IF row[i].wide THEN 2 ELSE 1
             Adds(f) == f = [i \in 1..Len(row) |-> IF i = 1 THEN 0
                                                   ELSE f[i - 1] + Width(i - 1)]
             at == CHOOSE f : Adds(f)
             Text(c) == IF m[c].text = "" THEN " " ELSE m[c].text
             Look(i) == table[StyleIndex(table, m[g[i]].style) + 1]
  <1>1. SideBySide(m, g, n)
    BY GlyphsSideBySide
  <1>2. RowGlyphs(row) = {[at |-> at[i], text |-> row[i].text, wide |-> row[i].wide,
                           look |-> row[i].look] : i \in 1..Len(row)}
    BY DEF RowGlyphs
  <1>3. MatrixGlyphs(m) = {[at |-> c - 1, text |-> Text(c), wide |-> m[c].width = 2,
                            look |-> m[c].style] : c \in GlyphColumns(m)}
    BY DEF MatrixGlyphs
  <1>4. \A i \in 1..Len(row) : /\ row[i].text = Text(g[i])
                               /\ row[i].wide = (m[g[i]].width = 2)
                               /\ row[i].look = Look(i)
    BY DEF Told
  <1>5. n \in 1..Cols /\ n \in Nat /\ Len(row) = n
    BY <1>1, Limits DEF SideBySide
  <1> HIDE DEF n, g, Text, Look, table
  <1>6. \A i \in 1..n : g[i] \in GlyphColumns(m) /\ g[i] \in 1..Cols /\ g[i] \in Nat
    BY <1>1, Limits DEF SideBySide, GlyphColumns
  <1>7. \A i \in 1..n : Width(i) = m[g[i]].width /\ Width(i) \in {1, 2}
    <2> TAKE i \in 1..n
    <2>1. m[g[i]].width \in {1, 2} /\ row[i].wide = (m[g[i]].width = 2)
      BY <1>4, <1>5, <1>6, CellTypes
    <2> QED
      BY <2>1
  <1> DEFINE columns == [i \in 1..Len(row) |-> g[i] - 1]
  <1>8. \A i \in 1..n : columns[i] = IF i = 1 THEN 0 ELSE columns[i - 1] + Width(i - 1)
    <2> TAKE i \in 1..n
    <2>1. CASE i = 1
      BY <2>1, <1>1, <1>5 DEF SideBySide
    <2>2. CASE i # 1
      <3>1. i \in 2..n /\ i - 1 \in 1..n
        BY <2>2, <1>5
      <3>2. g[i] = g[i - 1] + m[g[i - 1]].width
        BY <3>1, <1>1 DEF SideBySide
      <3>3. /\ g[i - 1] \in Nat /\ Width(i - 1) = m[g[i - 1]].width
            /\ Width(i - 1) \in {1, 2}
        BY <3>1, <1>6, <1>7
      <3>4. columns[i] = g[i] - 1 /\ columns[i - 1] = g[i - 1] - 1
        BY <3>1, <1>5
      <3> HIDE DEF columns, Width
      <3> QED
        BY <2>2, <3>2, <3>3, <3>4
    <2> QED
      BY <2>1, <2>2
  <1>9. Adds(columns)
    <2>1. \A i \in 1..Len(row) : columns[i] = IF i = 1 THEN 0
                                              ELSE columns[i - 1] + Width(i - 1)
      BY <1>5, <1>8
    <2>2. columns = [i \in 1..Len(row) |-> columns[i]]
      OBVIOUS
    <2> HIDE DEF columns, Width
    <2> QED
      BY <2>1, <2>2
  <1>10. Adds(at)
    <2> HIDE DEF Adds
    <2> QED
      BY <1>9
  <1> HIDE DEF at
  <1>11. \A i \in 1..n : at[i] = g[i] - 1
    <2> DEFINE U == {k \in Nat : k + 1 <= n => at[k + 1] = g[k + 1] - 1}
    <2>0. \A i \in 1..n : at[i] = IF i = 1 THEN 0 ELSE at[i - 1] + Width(i - 1)
      <3> HIDE DEF Width
      <3> QED
        BY <1>5, <1>10
    <2>1. 0 \in U
      <3>1. 0 + 1 = 1 /\ 1 \in 1..n /\ at[1] = 0 /\ g[1] = 1
        BY <2>0, <1>1, <1>5 DEF SideBySide
      <3> QED
        BY <3>1
    <2>2. ASSUME NEW k \in U PROVE k + 1 \in U
      <3> SUFFICES ASSUME (k + 1) + 1 <= n
                   PROVE  at[(k + 1) + 1] = g[(k + 1) + 1] - 1
        BY <2>2
      <3> DEFINE i == (k + 1) + 1
      <3>1. /\ i \in 2..n /\ i \in 1..n /\ i # 1 /\ i - 1 \in 1..n /\ i - 1 = k + 1
            /\ k + 1 <= n
        BY <2>2, <1>5
      <3> HIDE DEF i
      <3>2. at[i - 1] = g[i - 1] - 1
        BY <2>2, <3>1
      <3>3. at[i] = at[i - 1] + Width(i - 1)
        BY <2>0, <3>1
      <3>4. g[i] = g[i - 1] + m[g[i - 1]].width
        BY <3>1, <1>1 DEF SideBySide
      <3>5. /\ g[i - 1] \in Nat /\ Width(i - 1) = m[g[i - 1]].width
            /\ Width(i - 1) \in {1, 2}
        BY <3>1, <1>6, <1>7
      <3> HIDE DEF Width
      <3>6. at[i] = g[i] - 1
        BY <3>2, <3>3, <3>4, <3>5
      <3> QED
        BY <3>6 DEF i
    <2> HIDE DEF U
    <2>3. U = Nat
      <3>1. U \subseteq Nat
        BY DEF U
      <3> QED
        BY <2>1, <2>2, <3>1, NaturalsClosed
    <2> TAKE i \in 1..n
    <2>4. i - 1 \in Nat /\ (i - 1) + 1 = i /\ (i - 1) + 1 <= n
      BY <1>5
    <2> QED
      BY <2>3, <2>4 DEF U
  <1> DEFINE there == MatrixGlyphs(m)
             here == RowGlyphs(row)
             There(c) == [at |-> c - 1, text |-> Text(c), wide |-> m[c].width = 2,
                          look |-> m[c].style]
             Here(i) == [at |-> g[i] - 1, text |-> Text(g[i]), wide |-> m[g[i]].width = 2,
                         look |-> Look(i)]
             PlainOf(x) == [at |-> x.at, text |-> x.text, wide |-> x.wide]
             Plain(glyphs) == {PlainOf(x) : x \in glyphs}
             Bare(c) == [at |-> c - 1, text |-> Text(c), wide |-> m[c].width = 2]
  <1>12. here = {Here(i) : i \in 1..n}
    BY <1>2, <1>4, <1>5, <1>11
  <1>13. there = {There(c) : c \in GlyphColumns(m)}
    BY <1>3
  <1> HIDE DEF here, there
  <1>14. \A c \in GlyphColumns(m) : \E i \in 1..n : g[i] = c
    BY <1>1 DEF SideBySide
  <1>15. Plain(here) = Plain(there)
    <2>1. /\ \A c \in GlyphColumns(m) : PlainOf(There(c)) = Bare(c)
          /\ \A i \in 1..n : PlainOf(Here(i)) = Bare(g[i])
      OBVIOUS
    <2> HIDE DEF Bare, PlainOf, Here, There
    <2>2. Plain(here) = {Bare(g[i]) : i \in 1..n}
      BY <1>12, <2>1
    <2>3. Plain(there) = {Bare(c) : c \in GlyphColumns(m)}
      BY <1>13, <2>1
    <2> HIDE DEF Plain
    <2> QED
      BY <2>2, <2>3, <1>6, <1>14
  <1>16. ASSUME Cardinality({x.look : x \in there}) <= MaxStyles PROVE here = there
    <2>1. {x.look : x \in there} = UsedStyles(m)
      <3>1. \A c \in GlyphColumns(m) : There(c).look = m[c].style
        OBVIOUS
      <3> HIDE DEF There
      <3> QED
        BY <3>1, <1>13 DEF UsedStyles
    <2>2. \A style \in UsedStyles(m) : \E k \in 1..Len(table) : table[k] = style
      BY <2>1, <1>16, TableOf DEF table
    <2>3. Len(table) \in Nat /\ Len(table) >= 1
      <3>1. Len(table) \in 1..MaxStyles
        BY TableOf DEF table
      <3> QED
        BY <3>1, Limits
    <2>4. \A i \in 1..n : Look(i) = m[g[i]].style
      <3> TAKE i \in 1..n
      <3>1. m[g[i]].style \in UsedStyles(m)
        BY <1>6 DEF UsedStyles
      <3> QED
        BY <3>1, <2>2, <2>3, IndexOf DEF Look
    <2>5. \A i \in 1..n : Here(i) = There(g[i])
      BY <2>4
    <2> HIDE DEF Here, There
    <2> QED
      BY <2>5, <1>6, <1>12, <1>13, <1>14
  <1> HIDE DEF Plain
  <1> QED
    BY <1>15, <1>16 DEF here, there, Plain
-------------------------------------------------------------------------------
(* The adapter paints.                                                         *)

LEMMA BlankMatrix ==
    /\ [c \in 1..Cols |-> Blank] \in Matrices
    /\ Tiled([c \in 1..Cols |-> Blank])
  <1>1. Blank \in Cells
    BY ProtocolAssumption DEF Blank, Cell, Cells, Texts
  <1>2. Blank.width = 1 /\ Blank.continuation = FALSE
    BY DEF Blank, Cell
  <1> HIDE DEF Blank
  <1>3. \A c \in 1..Cols : c + 1 <= Cols => c + 1 \in 1..Cols
    BY Limits
  <1>4. 1 \in 1..Cols /\ \A c \in 1..Cols : c + 1 <= Cols + 1
    BY Limits
  <1> QED
    BY <1>1, <1>2, <1>3, <1>4 DEF Matrices, Tiled, GlyphColumns

\* The clusters of a line stand side by side and leave no column between them.
LEMMA LineIsTiled ==
    ASSUME NEW line \in Lines
    PROVE  /\ Len(line) \in 1..Cols
           /\ \A i \in 1..Len(line) :
                 /\ line[i].col \in 1..Cols /\ line[i].width \in {1, 2}
                 /\ line[i].style \in Styles /\ line[i].text \in Texts
           /\ \A i \in 1..Len(line) - 1 : line[i + 1].col = After(line, i)
           /\ After(line, Len(line)) <= Cols + 1
           /\ \A i, j \in 1..Len(line) : i < j => After(line, i) <= line[j].col
           /\ \A c \in Nat : line[1].col <= c /\ c < After(line, Len(line)) =>
                 \E i \in 1..Len(line) :
                     \/ line[i].col = c
                     \/ line[i].width = 2 /\ line[i].col + 1 = c
  <1> DEFINE n == Len(line)
  <1>1. PICK k \in 1..Cols : line \in [1..k -> Placed]
    BY DEF Lines
  <1>2. k \in Nat /\ n = k
    <2>1. k \in Nat
      BY Limits
    <2>2. line = [i \in 1..k |-> line[i]]
      BY <1>1
    <2> QED
      BY <2>1, <2>2, FunctionIsSequence
  <1>3. /\ \A i \in 1..n - 1 : line[i + 1].col = After(line, i)
        /\ After(line, n) <= Cols + 1
    BY DEF Lines
  <1> HIDE DEF n
  <1>4. \A i \in 1..n : /\ line[i].col \in 1..Cols /\ line[i].width \in {1, 2}
                        /\ line[i].style \in Styles /\ line[i].text \in Texts
                        /\ line[i].col \in Nat
    <2> TAKE i \in 1..n
    <2>1. line[i] \in Placed
      BY <1>1, <1>2
    <2>2. PICK c \in 1..Cols, cluster \in Clusters :
             line[i] = [col |-> c, text |-> cluster.text, width |-> cluster.width,
                        style |-> cluster.style]
      BY <2>1 DEF Placed
    <2>3. cluster.width \in {1, 2} /\ cluster.style \in Styles
      BY ProtocolAssumption
    <2>4. line[i].col = c /\ line[i].width = cluster.width
          /\ line[i].style = cluster.style /\ line[i].text = cluster.text
      BY <2>2
    <2>5. cluster.text \in Texts
      BY DEF Texts
    <2>6. c \in Nat
      BY Limits
    <2> QED
      BY <2>3, <2>4, <2>5, <2>6
  <1>5. \A i \in 1..n : After(line, i) \in Nat /\ line[i].col < After(line, i)
    BY <1>4 DEF After
  <1>6. \A i \in 1..n - 1 : i \in 1..n /\ i + 1 \in 1..n
    BY <1>2
  <1>7. \A i, j \in 1..n : i < j => After(line, i) <= line[j].col
    <2> TAKE i \in 1..n
    <2> DEFINE U == {d \in Nat : (i + 1) + d <= n => After(line, i) <= line[(i + 1) + d].col}
    <2>1. 0 \in U
      <3>1. (i + 1) + 0 = i + 1 /\ (i + 1 <= n => i \in 1..n - 1)
        BY <1>2
      <3>2. i + 1 <= n => line[i + 1].col = After(line, i)
        BY <3>1, <1>3
      <3> QED
        BY <3>1, <3>2, <1>5
    <2>2. ASSUME NEW d \in U PROVE d + 1 \in U
      <3> SUFFICES ASSUME (i + 1) + (d + 1) <= n
                   PROVE  After(line, i) <= line[(i + 1) + (d + 1)].col
        BY <2>2
      <3> DEFINE j == (i + 1) + d
      <3>1. j \in 1..n - 1 /\ j <= n /\ j + 1 = (i + 1) + (d + 1)
        BY <2>2, <1>2
      <3>2. After(line, i) <= line[j].col
        BY <2>2, <3>1
      <3> HIDE DEF j
      <3>3. line[j + 1].col = After(line, j) /\ j \in 1..n
        BY <3>1, <1>3, <1>6
      <3>4. After(line, i) \in Nat /\ line[j].col \in Nat /\ After(line, j) \in Nat
            /\ line[j].col < After(line, j)
        BY <3>3, <1>4, <1>5
      <3>5. After(line, i) <= line[j + 1].col
        BY <3>2, <3>3, <3>4
      <3> QED
        BY <3>1, <3>5
    <2> HIDE DEF U
    <2>3. U = Nat
      <3>1. U \subseteq Nat
        BY DEF U
      <3> QED
        BY <2>1, <2>2, <3>1, NaturalsClosed
    <2> TAKE j \in 1..n
    <2> HAVE i < j
    <2>4. j - (i + 1) \in Nat /\ (i + 1) + (j - (i + 1)) = j /\ j <= n
      BY <1>2
    <2> QED
      BY <2>3, <2>4 DEF U
  <1> DEFINE Covered(c) == \E i \in 1..n : \/ line[i].col = c
                                           \/ line[i].width = 2 /\ line[i].col + 1 = c
  <1>8. \A c \in Nat : line[1].col <= c /\ c < After(line, n) => Covered(c)
    <2> DEFINE Upto(d) == \A c \in Nat : line[1].col <= c /\ c < After(line, d) => Covered(c)
               U == {d \in Nat : d + 1 <= n => Upto(d + 1)}
    <2>1. ASSUME NEW i \in 1..n, NEW c \in Nat, line[i].col <= c, c < After(line, i)
          PROVE  Covered(c)
      <3>1. c = line[i].col \/ (line[i].width = 2 /\ line[i].col + 1 = c)
        BY <2>1, <1>4 DEF After
      <3> QED
        BY <3>1
    <2> HIDE DEF Covered
    <2>2. 0 \in U
      <3>1. 0 + 1 = 1 /\ 1 \in 1..n
        BY <1>1, <1>2
      <3> QED
        BY <2>1, <3>1
    <2>3. ASSUME NEW d \in U PROVE d + 1 \in U
      <3> SUFFICES ASSUME (d + 1) + 1 <= n, NEW c \in Nat,
                          line[1].col <= c, c < After(line, (d + 1) + 1)
                   PROVE  Covered(c)
        BY <2>3
      <3>1. d + 1 \in 1..n - 1 /\ d + 1 <= n /\ (d + 1) + 1 \in 1..n /\ d + 1 \in 1..n
        BY <2>3, <1>2
      <3>2. line[(d + 1) + 1].col = After(line, d + 1) /\ After(line, d + 1) \in Nat
        BY <3>1, <1>3, <1>5
      <3>3. CASE c < After(line, d + 1)
        <4>1. Upto(d + 1)
          BY <2>3, <3>1
        <4> QED
          BY <4>1, <3>3
      <3>4. CASE ~(c < After(line, d + 1))
        <4>1. line[(d + 1) + 1].col <= c
          BY <3>2, <3>4
        <4> QED
          BY <4>1, <3>1, <2>1
      <3> QED
        BY <3>3, <3>4
    <2> HIDE DEF U
    <2>4. U = Nat
      <3>1. U \subseteq Nat
        BY DEF U
      <3> QED
        BY <2>2, <2>3, <3>1, NaturalsClosed
    <2>5. n - 1 \in Nat /\ (n - 1) + 1 = n /\ (n - 1) + 1 <= n
      BY <1>1, <1>2
    <2>6. Upto((n - 1) + 1)
      BY <2>4, <2>5 DEF U
    <2> QED
      BY <2>5, <2>6
  <1>9. n \in 1..Cols
    BY <1>1, <1>2
  <1> QED
    BY <1>3, <1>4, <1>7, <1>8, <1>9 DEF n

\* What is painted over whole glyphs leaves whole glyphs.
LEMMA PaintedIsTiled ==
    ASSUME NEW m \in Matrices, Tiled(m), NEW line \in Lines,
           ~m[line[1].col].continuation,
           After(line, Len(line)) <= Cols => ~m[After(line, Len(line))].continuation
    PROVE  Painted(m, line) \in Matrices /\ Tiled(Painted(m, line))
  <1> DEFINE n == Len(line)
             after == After(line, n)
             first == line[1].col
             Here(c) == {i \in 1..n : line[i].col = c}
             Before(c) == {i \in 1..n : line[i].width = 2 /\ line[i].col + 1 = c}
             At(c) == LET k == line[CHOOSE i \in Here(c) : TRUE]
                      IN  Cell(k.text, k.width, k.style)
             p == Painted(m, line)
  <1>1. /\ n \in 1..Cols
        /\ \A i \in 1..n : /\ line[i].col \in 1..Cols /\ line[i].width \in {1, 2}
                           /\ line[i].style \in Styles /\ line[i].text \in Texts
        /\ \A i \in 1..n - 1 : line[i + 1].col = After(line, i)
        /\ after <= Cols + 1
        /\ \A i, j \in 1..n : i < j => After(line, i) <= line[j].col
        /\ \A c \in Nat : first <= c /\ c < after => Here(c) # {} \/ Before(c) # {}
    BY LineIsTiled
  <1>2. p = [c \in 1..Cols |-> IF Here(c) # {} THEN At(c)
                               ELSE IF Before(c) # {} THEN Continuation ELSE m[c]]
    BY DEF Painted
  <1>3. ~m[first].continuation /\ (after <= Cols => ~m[after].continuation)
    OBVIOUS
  <1> HIDE DEF p, n, after, first
  <1>4. n \in Nat /\ 1 \in 1..n /\ n \in 1..n
    BY <1>1, Limits
  <1>5. \A i \in 1..n : /\ line[i].col \in Nat /\ After(line, i) \in Nat
                        /\ After(line, i) = line[i].col + line[i].width
                        /\ line[i].width \in {1, 2}
    BY <1>1, Limits DEF After
  <1> DEFINE last == line[n].col
  <1>6. last \in Nat /\ after \in Nat /\ last < after
    BY <1>4, <1>5 DEF after
  <1>7. first \in Nat /\ after \in Nat /\ first \in 1..Cols
    BY <1>1, <1>4, <1>5 DEF first, after
  <1>8. ASSUME NEW i \in 1..n PROVE After(line, i) <= after
    <2>1. CASE i = n
      BY <2>1, <1>6 DEF after
    <2>2. CASE i # n
      <3>1. After(line, i) <= last /\ After(line, i) \in Nat
        BY <2>2, <1>1, <1>4, <1>5
      <3> HIDE DEF last
      <3> QED
        BY <3>1, <1>6
    <2> QED
      BY <2>1, <2>2
  \* Where a cluster begins its cell is; where a wide one goes on, a continuation.
  <1>9. ASSUME NEW i \in 1..n
        PROVE  p[line[i].col] = Cell(line[i].text, line[i].width, line[i].style)
    <2>1. i \in Here(line[i].col) /\ line[i].col \in 1..Cols
      BY <1>1
    <2>2. \A j \in Here(line[i].col) : j = i
      <3> SUFFICES ASSUME NEW j \in 1..n, line[j].col = line[i].col PROVE j = i
        OBVIOUS
      <3>1. i < j => After(line, i) <= line[j].col
        BY <1>1
      <3>2. j < i => After(line, j) <= line[i].col
        BY <1>1
      <3>3. ~(i < j) /\ ~(j < i)
        BY <3>1, <3>2, <1>5
      <3> QED
        BY <3>3, <1>4
    <2>3. (CHOOSE j \in Here(line[i].col) : TRUE) = i
      <3> HIDE DEF Here
      <3> QED
        BY <2>1, <2>2
    <2>4. At(line[i].col) = Cell(line[i].text, line[i].width, line[i].style)
      BY <2>3
    <2> HIDE DEF At, Here
    <2> QED
      BY <2>1, <2>4, <1>2
  <1>10. ASSUME NEW i \in 1..n, line[i].width = 2
        PROVE  line[i].col + 1 \in 1..Cols /\ p[line[i].col + 1] = Continuation
    <2> DEFINE c == line[i].col + 1
    <2>1. After(line, i) = line[i].col + 2 /\ line[i].col \in 1..Cols
      BY <1>1, <1>5, <1>10
    <2>2. After(line, i) <= after
      BY <1>8
    <2>3. c \in 1..Cols
      BY <2>1, <2>2, <1>1, <1>7, Limits
    <2>4. Here(c) = {}
      <3> SUFFICES ASSUME NEW j \in 1..n, line[j].col = c PROVE FALSE
        OBVIOUS
      <3>1. i < j => After(line, i) <= line[j].col
        BY <1>1
      <3>2. j < i => After(line, j) <= line[i].col
        BY <1>1
      <3>3. i # j
        BY <1>5
      <3>4. i < j \/ j < i
        BY <3>3, <1>4
      <3> QED
        BY <2>1, <3>1, <3>2, <3>4, <1>5
    <2>5. i \in Before(c)
      BY <1>10
    <2> HIDE DEF Here, Before, c
    <2>6. p[c] = Continuation
      BY <2>3, <2>4, <2>5, <1>2
    <2> QED
      BY <2>3, <2>6 DEF c
  \* Elsewhere nothing changes.
  <1>11. ASSUME NEW c \in 1..Cols, c < first \/ after <= c
        PROVE  p[c] = m[c]
    <2>1. c \in Nat
      BY Limits
    <2>2. \A i \in 1..n : first <= line[i].col /\ After(line, i) <= after
      <3> TAKE i \in 1..n
      <3>1. first <= line[i].col
        <4>1. CASE i = 1
          BY <4>1, <1>7 DEF first
        <4>2. CASE i # 1
          <5>1. After(line, 1) <= line[i].col
            BY <4>2, <1>1, <1>4
          <5> QED
            BY <5>1, <1>4, <1>5 DEF first
        <4> QED
          BY <4>1, <4>2
      <3>2. After(line, i) <= after
        BY <1>8
      <3> QED
        BY <3>1, <3>2
    <2>3. \A i \in 1..n : line[i].col # c /\ ~(line[i].width = 2 /\ line[i].col + 1 = c)
      <3> TAKE i \in 1..n
      <3>1. /\ first <= line[i].col /\ After(line, i) <= after
            /\ line[i].col \in Nat /\ After(line, i) = line[i].col + line[i].width
            /\ line[i].width \in {1, 2}
        BY <2>2, <1>5
      <3> QED
        BY <3>1, <2>1, <1>7, <1>11
    <2>4. Here(c) = {} /\ Before(c) = {}
      BY <2>3
    <2> HIDE DEF Here, Before
    <2> QED
      BY <2>4, <1>2
  \* Every column is one of these.
  <1>12. ASSUME NEW c \in 1..Cols
         PROVE  \/ \E i \in 1..n : line[i].col = c
                \/ \E i \in 1..n : line[i].width = 2 /\ line[i].col + 1 = c
                \/ c < first \/ after <= c
    <2>1. c \in Nat
      BY Limits
    <2>2. CASE first <= c /\ c < after
      BY <2>1, <2>2, <1>1
    <2>3. CASE ~(first <= c /\ c < after)
      BY <2>1, <2>3, <1>7
    <2> QED
      BY <2>2, <2>3
  <1> HIDE DEF Here, Before, At
  <1>13. /\ Continuation \in Cells /\ Continuation.continuation = TRUE
         /\ \A i \in 1..n :
               /\ Cell(line[i].text, line[i].width, line[i].style) \in Cells
               /\ Cell(line[i].text, line[i].width, line[i].style).continuation = FALSE
               /\ Cell(line[i].text, line[i].width, line[i].style).width = line[i].width
    BY <1>1, ProtocolAssumption DEF Continuation, Blank, Cell, Cells, Texts
  <1>14. p \in Matrices
    <2>1. ASSUME NEW c \in 1..Cols PROVE p[c] \in Cells
      <3>1. CASE \E i \in 1..n : line[i].col = c
        BY <3>1, <1>9, <1>13
      <3>2. CASE \E i \in 1..n : line[i].width = 2 /\ line[i].col + 1 = c
        BY <3>2, <1>10, <1>13
      <3>3. CASE c < first \/ after <= c
        BY <3>3, <1>11 DEF Matrices
      <3> QED
        BY <3>1, <3>2, <3>3, <1>12
    <2> QED
      BY <2>1, <1>2 DEF Matrices
  <1>15. ~p[1].continuation
    <2>1. 1 \in 1..Cols /\ ~m[1].continuation
      BY Limits DEF Tiled
    <2>2. CASE first = 1
      BY <2>2, <1>4, <1>9, <1>13 DEF first
    <2>3. CASE first # 1
      BY <2>1, <2>3, <1>7, <1>11
    <2> QED
      BY <2>2, <2>3
  <1>16. after <= Cols => ~p[after].continuation
    <2> HAVE after <= Cols
    <2>1. after \in 1..Cols
      BY <1>6, Limits
    <2>2. p[after] = m[after]
      BY <2>1, <1>7, <1>11
    <2> QED
      BY <2>2, <1>3
  <1>17. ~p[first].continuation
    BY <1>4, <1>9, <1>13 DEF first
  <1>18. ASSUME NEW c \in GlyphColumns(p)
         PROVE  /\ c + p[c].width <= Cols + 1
                /\ p[c].width = 2 => p[c + 1].continuation
                /\ c + p[c].width <= Cols => ~p[c + p[c].width].continuation
    <2>1. c \in 1..Cols /\ c \in Nat /\ ~p[c].continuation
      BY Limits DEF GlyphColumns
    <2>2. CASE \E i \in 1..n : line[i].col = c
      <3>1. PICK i \in 1..n : line[i].col = c
        BY <2>2
      <3>2. p[c].width = line[i].width
        BY <3>1, <1>9, <1>13
      <3>3. c + p[c].width = After(line, i)
        BY <3>1, <3>2, <1>5
      <3>4. p[c].width = 2 => p[c + 1].continuation
        BY <3>1, <3>2, <1>10, <1>13
      <3>5. CASE i = n
        BY <3>3, <3>4, <3>5, <1>1, <1>16 DEF after
      <3>6. CASE i # n
        <4>1. i \in 1..n - 1 /\ i + 1 \in 1..n
          BY <3>6, <1>4
        <4>2. line[i + 1].col = After(line, i) /\ line[i + 1].col \in 1..Cols
          BY <4>1, <1>1
        <4>3. ~p[After(line, i)].continuation
          BY <4>1, <4>2, <1>9, <1>13
        <4> QED
          BY <3>3, <3>4, <4>2, <4>3, Limits
      <3> QED
        BY <3>5, <3>6
    <2>3. CASE \E i \in 1..n : line[i].width = 2 /\ line[i].col + 1 = c
      BY <2>1, <2>3, <1>10, <1>13
    <2>4. CASE c < first \/ after <= c
      <3>1. p[c] = m[c]
        BY <2>1, <2>4, <1>11
      <3>2. c \in GlyphColumns(m)
        BY <2>1, <3>1 DEF GlyphColumns
      <3> DEFINE w == m[c].width
      <3>3. /\ c + w <= Cols + 1 /\ (w = 2 => m[c + 1].continuation)
            /\ (c + w <= Cols => ~m[c + w].continuation)
        BY <3>2 DEF Tiled
      <3>4. w \in {1, 2}
        BY <2>1, CellTypes
      <3> HIDE DEF w
      <3>5. CASE c < first
        <4>1. w = 2 => c + 1 # first
          BY <3>3, <1>3
        <4>2. c + w <= first
          BY <2>1, <3>4, <3>5, <4>1, <1>7
        <4>3. w = 2 => c + 1 \in 1..Cols /\ p[c + 1] = m[c + 1]
          BY <2>1, <3>4, <4>2, <1>7, <1>11, Limits
        <4>4. CASE c + w = first
          BY <3>1, <3>3, <4>3, <4>4, <1>17 DEF w
        <4>5. CASE c + w # first
          <5>1. c + w \in 1..Cols /\ c + w < first
            BY <2>1, <3>4, <4>2, <4>5, <1>7, Limits
          <5>2. p[c + w] = m[c + w]
            BY <5>1, <1>11
          <5> QED
            BY <3>1, <3>3, <4>3, <5>2 DEF w
        <4> QED
          BY <4>4, <4>5
      <3>6. CASE after <= c
        <4>1. w = 2 => c + 1 \in 1..Cols /\ after <= c + 1
          BY <2>1, <3>3, <3>4, <3>6, <1>7, Limits
        <4>2. c + w <= Cols => c + w \in 1..Cols /\ after <= c + w
          BY <2>1, <3>4, <3>6, <1>7, Limits
        <4>3. (w = 2 => p[c + 1] = m[c + 1]) /\ (c + w <= Cols => p[c + w] = m[c + w])
          BY <4>1, <4>2, <1>11
        <4> QED
          BY <3>1, <3>3, <4>3 DEF w
      <3> QED
        BY <2>4, <3>5, <3>6
    <2> QED
      BY <2>1, <2>2, <2>3, <2>4, <1>12
  <1>19. Tiled(p)
    BY <1>15, <1>18 DEF Tiled
  <1> QED
    BY <1>14, <1>19 DEF p
-------------------------------------------------------------------------------
(* Packets and the decoder.                                                    *)

\* A packet's other fields stay when one is set.
LEMMA FieldSet ==
    ASSUME NEW p, DOMAIN p = PacketFields, NEW field \in PacketFields, NEW value
    PROVE  LET q == [p EXCEPT ![field] = value]
           IN  /\ DOMAIN q = PacketFields /\ q[field] = value
               /\ \A other \in PacketFields \ {field} : q[other] = p[other]
  OBVIOUS

LEMMA EndSet ==
    ASSUME NEW p, DOMAIN p = PacketFields, NEW value
    PROVE  LET q == [p EXCEPT !.end = value]
           IN  /\ DOMAIN q = PacketFields /\ q.end = value
               /\ q.magic = p.magic /\ q.version = p.version /\ q.kind = p.kind
               /\ q.nonce = p.nonce /\ q.sequence = p.sequence /\ q.units = p.units
               /\ q.payload = p.payload /\ q.drawn = p.drawn /\ q.broken = p.broken
  BY FieldSet DEF PacketFields

LEMMA SequenceSet ==
    ASSUME NEW p, DOMAIN p = PacketFields, NEW value
    PROVE  LET q == [p EXCEPT !.sequence = value]
           IN  /\ DOMAIN q = PacketFields /\ q.sequence = value
               /\ q.magic = p.magic /\ q.version = p.version /\ q.kind = p.kind
               /\ q.nonce = p.nonce /\ q.end = p.end /\ q.units = p.units
               /\ q.payload = p.payload /\ q.drawn = p.drawn /\ q.broken = p.broken
  BY FieldSet DEF PacketFields

LEMMA BrokenSet ==
    ASSUME NEW p, DOMAIN p = PacketFields, NEW value
    PROVE  LET q == [p EXCEPT !.broken = value]
           IN  /\ DOMAIN q = PacketFields /\ q.broken = value
               /\ q.magic = p.magic /\ q.version = p.version /\ q.kind = p.kind
               /\ q.nonce = p.nonce /\ q.end = p.end /\ q.units = p.units
               /\ q.payload = p.payload /\ q.drawn = p.drawn /\ q.sequence = p.sequence
  BY FieldSet DEF PacketFields

\* The ends in the stream are numbers that grow by at least an envelope.
LEMMA EndTypes ==
    ASSUME WireInv
    PROVE  /\ Len(wire) \in Nat
           /\ \A n \in 0..Len(wire) : End(n) \in Nat
           /\ \A n \in 1..Len(wire) :
                 /\ wire[n].units \in Nat
                 /\ End(n) = End(n - 1) + EnvelopeLen + wire[n].units
  <1>1. Len(wire) \in Nat
    BY DEF WireInv, IsSequence
  <1>2. \A n \in 1..Len(wire) : wire[n].units \in Nat
    BY DEF WireInv
  <1>3. \A n \in 1..Len(wire) : End(n) = End(n - 1) + (EnvelopeLen + wire[n].units)
    <2> TAKE n \in 1..Len(wire)
    <2>1. wire[n].end = End(n - 1) + Total(wire[n]) /\ n # 0
      BY <1>1 DEF WireInv
    <2> QED
      BY <2>1 DEF End, Total
  <1> DEFINE T == {n \in Nat : n <= Len(wire) => End(n) \in Nat}
  <1>4. 0 \in T
    BY DEF End
  <1>5. ASSUME NEW n \in T PROVE n + 1 \in T
    <2> SUFFICES ASSUME n + 1 <= Len(wire) PROVE End(n + 1) \in Nat
      BY <1>5
    <2>1. n \in Nat /\ n + 1 \in 1..Len(wire) /\ (n + 1) - 1 = n /\ n <= Len(wire)
      BY <1>1, <1>5
    <2>2. End(n) \in Nat
      BY <2>1, <1>5
    <2>3. End(n + 1) = End(n) + (EnvelopeLen + wire[n + 1].units)
      BY <2>1, <1>3
    <2> QED
      BY <2>1, <2>2, <2>3, <1>2, Limits
  <1> HIDE DEF T
  <1>6. T = Nat
    <2>1. T \subseteq Nat
      BY DEF T
    <2> QED
      BY <1>4, <1>5, <2>1, NaturalsClosed
  <1>7. \A n \in 0..Len(wire) : End(n) \in Nat
    BY <1>1, <1>6 DEF T
  <1>8. ASSUME NEW n \in 1..Len(wire)
        PROVE  End(n) = End(n - 1) + EnvelopeLen + wire[n].units
    <2>1. n - 1 \in 0..Len(wire)
      BY <1>1
    <2> QED
      BY <2>1, <1>2, <1>3, <1>7, Limits
  <1> QED
    BY <1>1, <1>2, <1>7, <1>8

\* A decoder that took all before it takes the adapter's packet, unless that is
\* too long, and fails on one that breaks a rule.
LEMMA DecoderAccepts ==
    ASSUME NEW d, TookAll(d), NEW p, Own(p, d.next), p.units \in Nat,
           p.units <= MaxPayload
    PROVE  Accepted(d, p)
  <1>1. d.next \in Nat /\ d.next # 0
    BY DEF TookAll, DecoderStates
  <1>2. EnvelopeKnown(p)
    BY DEF Own, EnvelopeKnown, Kinds
  <1>3. (p.kind = "hello" <=> d.next = 1) /\ (d.saw_hello <=> d.next > 1)
    BY DEF Own, TookAll
  <1>4. d.next > 1 => p.nonce = d.nonce /\ p.sequence > d.sequence
    BY <1>1 DEF Own, TookAll
  <1>5. InOrder(d, p)
    <2>1. CASE d.next = 1
      <3>1. ~d.saw_hello /\ p.kind = "hello"
        BY <1>3, <2>1
      <3> QED
        BY <3>1 DEF InOrder
    <2>2. CASE d.next > 1
      <3>1. d.saw_hello /\ p.kind # "hello"
        BY <1>1, <1>3, <2>2
      <3> QED
        BY <3>1, <1>4, <2>2 DEF InOrder
    <2> QED
      BY <1>1, <2>1, <2>2
  <1> QED
    BY <1>2, <1>5 DEF Accepted, Own

LEMMA DecoderRejects ==
    ASSUME NEW d, TookAll(d), NEW p, Rejected(p, d.next)
    PROVE  ~Accepted(d, p)
  <1>1. d.next \in Nat /\ d.next # 0
    BY DEF TookAll, DecoderStates
  <1>2. (d.saw_hello <=> d.next > 1)
        /\ (d.next > 1 => d.nonce = 1 /\ d.sequence = d.next - 1)
    BY DEF TookAll
  <1>3. CASE p.kind = "hello" /\ d.next > 1
    BY <1>2, <1>3 DEF Accepted, InOrder
  <1>4. CASE p.kind # "hello" /\ (p.nonce # 1 \/ p.sequence = 1)
    <2>1. CASE d.next > 1
      BY <1>1, <1>2, <1>4, <2>1 DEF Accepted, InOrder
    <2>2. CASE ~(d.next > 1)
      BY <1>2, <1>4, <2>2 DEF Accepted, InOrder
    <2> QED
      BY <2>1, <2>2
  <1> QED
    BY <1>3, <1>4 DEF Rejected, Accepted
-------------------------------------------------------------------------------
(* The loop of a push.                                                         *)

\* A packet that lets a connection end.
Deserved ==
    \E i \in 1..Len(wire) : wire[i].broken \/ wire[i].units + ReadSize > MaxPayload + 1

\* The loop has taken the packets from the decoder's next on, one after the other.
LoopInv(units, s) ==
    /\ s \in LoopStates /\ TookAll(s.decoder)
    /\ decoder.next <= s.decoder.next
    /\ Len(s.out) = s.decoder.next - decoder.next
    /\ \A i \in 1..Len(s.out) : s.out[i] = decoder.next + i - 1
    /\ End(s.decoder.next - 1) <= units
    /\ s.failed => Deserved

\* The loop cannot go on.
Stopped(units, s) == s.failed \/ Settled(units, s.decoder.next)

LEMMA TurnKeeps ==
    ASSUME WireInv, decoder \in DecoderStates, NEW units \in Nat,
           NEW s, LoopInv(units, s)
    PROVE  LET t == Turn(units)[s]
           IN  /\ LoopInv(units, t)
               /\ Stopped(units, s) => t = s
               /\ ~Stopped(units, s) => t.failed \/ t.decoder.next = s.decoder.next + 1
  <1> DEFINE n == s.decoder.next
             t == Turn(units)[s]
             after == [next |-> n + 1, nonce |-> wire[n].nonce,
                       sequence |-> wire[n].sequence, saw_hello |-> TRUE]
             taken == [decoder |-> after, out |-> Append(s.out, n), failed |-> FALSE]
             Kept == /\ LoopInv(units, t)
                     /\ Stopped(units, s) => t = s
                     /\ ~Stopped(units, s) => \/ t.failed
                                              \/ t.decoder.next = s.decoder.next + 1
  <1>1. s \in LoopStates /\ TookAll(s.decoder) /\ s.decoder \in DecoderStates
    BY DEF LoopInv, LoopStates
  <1>2. /\ n \in Nat \ {0} /\ n \in 1..Len(wire) + 1 /\ s.out \in Seq(Nat)
        /\ s.failed \in BOOLEAN
        /\ decoder.next \in Nat \ {0} /\ decoder.next <= n
        /\ s = [decoder |-> s.decoder, out |-> s.out, failed |-> s.failed]
    BY <1>1 DEF LoopStates, DecoderStates, TookAll, LoopInv
  <1>3. t = IF s.failed \/ Settled(units, n) THEN s
            ELSE IF ~Accepted(s.decoder, wire[n]) THEN [s EXCEPT !.failed = TRUE]
            ELSE taken
    BY <1>1 DEF Turn
  <1> HIDE DEF t
  <1>4. ASSUME Stopped(units, s) PROVE Kept
    BY <1>3, <1>4 DEF Stopped
  <1>5. ASSUME ~Stopped(units, s) PROVE Kept
    <2>1. s.failed = FALSE /\ ~Settled(units, n)
      BY <1>2, <1>5 DEF Stopped
    <2>2. Len(wire) \in Nat
      BY EndTypes
    <2>3. /\ n \in 1..Len(wire) /\ ~(units < End(n - 1) + EnvelopeLen)
          /\ ~(EnvelopeKnown(wire[n]) /\ units < End(n))
      BY <2>1, <2>2, <1>2 DEF Settled
    <2>4. wire[n].units \in Nat /\ (Own(wire[n], n) \/ Rejected(wire[n], n))
          /\ {wire[n].nonce, wire[n].sequence} \subseteq Nat
      BY <2>3 DEF WireInv
    <2>5. CASE ~Accepted(s.decoder, wire[n])
      <3>1. t = [s EXCEPT !.failed = TRUE]
        BY <1>3, <2>1, <2>5
      <3>2. /\ t.decoder = s.decoder /\ t.out = s.out /\ t.failed = TRUE
            /\ t \in LoopStates
        BY <3>1, <1>1 DEF LoopStates
      <3>3. Deserved
        <4>1. CASE Own(wire[n], n)
          <5>1. ~(wire[n].units <= MaxPayload)
            BY <4>1, <2>4, <2>5, <1>1, DecoderAccepts
          <5>2. wire[n].units + ReadSize > MaxPayload + 1
            BY <5>1, <2>4, Limits
          <5> QED
            BY <5>2, <2>3 DEF Deserved
        <4>2. CASE Rejected(wire[n], n)
          BY <4>2, <2>3 DEF Deserved, Rejected
        <4> QED
          BY <4>1, <4>2, <2>4
      <3>4. LoopInv(units, t)
        BY <3>2, <3>3 DEF LoopInv
      <3> QED
        BY <3>2, <3>4, <1>5
    <2>6. CASE Accepted(s.decoder, wire[n])
      <3>1. t = taken
        BY <1>3, <2>1, <2>6
      <3>2. t.decoder = after /\ t.out = Append(s.out, n) /\ t.failed = FALSE
        BY <3>1
      <3>3. Own(wire[n], n)
        BY <2>4, <2>6, <1>1, DecoderRejects
      <3>4. /\ after \in DecoderStates /\ after.next = n + 1 /\ after.saw_hello = TRUE
            /\ after.nonce = 1 /\ after.sequence = n
        BY <2>4, <3>3, <1>2 DEF DecoderStates, Own
      <3> HIDE DEF after, taken
      <3>5. n + 1 \in 1..Len(wire) + 1 /\ (n + 1) - 1 = n /\ n + 1 > 1
        BY <2>2, <2>3, <1>2
      <3>6. \A i \in 1..n : Own(wire[i], i)
        <4> TAKE i \in 1..n
        <4>1. i = n \/ i \in 1..n - 1
          BY <1>2
        <4> QED
          BY <4>1, <3>3, <1>1 DEF TookAll
      <3>7. TookAll(after)
        BY <3>4, <3>5, <3>6 DEF TookAll
      <3>8. /\ Append(s.out, n) \in Seq(Nat)
            /\ Len(Append(s.out, n)) = Len(s.out) + 1
            /\ \A i \in 1..Len(s.out) : Append(s.out, n)[i] = s.out[i]
            /\ Append(s.out, n)[Len(s.out) + 1] = n
        BY <1>2, AppendProperties
      <3> DEFINE out == Append(s.out, n)
      <3> HIDE DEF out
      <3>9. Len(s.out) = n - decoder.next /\ Len(s.out) \in Nat
            /\ \A i \in 1..Len(s.out) : s.out[i] = decoder.next + i - 1
        BY <1>2, LenProperties DEF LoopInv
      <3>10. Len(out) = (n + 1) - decoder.next
        BY <3>8, <3>9, <1>2 DEF out
      <3>11. \A i \in 1..Len(out) : out[i] = decoder.next + i - 1
        <4> TAKE i \in 1..Len(out)
        <4>1. i \in 1..Len(s.out) \/ i = Len(s.out) + 1
          BY <3>8, <3>9 DEF out
        <4>2. i = Len(s.out) + 1 => decoder.next + i - 1 = n
          BY <3>9, <1>2
        <4> QED
          BY <4>1, <4>2, <3>8, <3>9 DEF out
      <3>12. End(n) <= units
        <4>1. End(n) \in Nat /\ ~(units < End(n))
          <5>1. n \in 0..Len(wire)
            BY <2>2, <2>3
          <5> QED
            BY <5>1, <2>3, <2>6, EndTypes DEF Accepted
        <4> QED
          BY <4>1
      <3>13. t \in LoopStates
        BY <3>1, <3>4, <3>8 DEF LoopStates, taken
      <3>14. decoder.next <= n + 1
        BY <1>2
      <3>15. LoopInv(units, t)
        BY <3>2, <3>4, <3>5, <3>7, <3>10, <3>11, <3>12, <3>13, <3>14 DEF LoopInv, out
      <3> QED
        BY <3>2, <3>4, <3>15, <1>5
    <2> QED
      BY <2>5, <2>6
  <1>6. Kept
    BY <1>4, <1>5
  <1> QED
    BY <1>6 DEF t

\* The loop of a push is a run of turns from the decoder as it is.
LEMMA DrainRuns ==
    ASSUME WireInv, TookAll(decoder), NEW units \in Nat, End(decoder.next - 1) <= units
    PROVE  \E run : /\ run[0] = [decoder |-> decoder, out |-> <<>>, failed |-> FALSE]
                    /\ \A n \in Nat : /\ LoopInv(units, run[n])
                                      /\ run[n + 1] = Turn(units)[run[n]]
                    /\ Drained(units) = run[Len(wire)]
  <1> DEFINE start == [decoder |-> decoder, out |-> <<>>, failed |-> FALSE]
             S == {s \in LoopStates : LoopInv(units, s)}
             step == [s \in S |-> Turn(units)[s]]
             Runs(f) == f = [n \in Nat |-> IF n = 0 THEN start
                                           ELSE Turn(units)[f[n - 1]]]
             run == CHOOSE f : Runs(f)
  <1>0. decoder \in DecoderStates /\ decoder.next \in Nat
    BY DEF TookAll, DecoderStates
  <1>1. start \in S
    <2>1. <<>> \in Seq(Nat) /\ Len(<<>>) = 0
      BY EmptySeq
    <2>2. start \in LoopStates
      BY <2>1, <1>0 DEF LoopStates
    <2>3. start.decoder = decoder /\ start.out = <<>> /\ start.failed = FALSE
      OBVIOUS
    <2> HIDE DEF start
    <2>4. Len(start.out) = decoder.next - decoder.next /\ decoder.next <= decoder.next
          /\ \A i \in 1..Len(start.out) : FALSE
      BY <2>1, <2>3, <1>0
    <2>5. LoopInv(units, start)
      BY <2>2, <2>3, <2>4 DEF LoopInv
    <2> QED
      BY <2>2, <2>5
  <1>2. \E f \in [Nat -> S] : Runs(f)
    <2>1. step \in [S -> S]
      <3>1. ASSUME NEW s \in S PROVE Turn(units)[s] \in S
        <4>1. LoopInv(units, Turn(units)[s])
          BY <1>0, TurnKeeps
        <4> QED
          BY <4>1 DEF LoopInv
      <3> QED
        BY <3>1
    <2> HIDE DEF step, S, start
    <2>2. PICK f \in [Nat -> S] : Iterates(f, start, step)
      BY <1>1, <2>1, IterationDefined
    <2>3. \A n \in Nat : n # 0 => step[f[n - 1]] = Turn(units)[f[n - 1]]
      <3> TAKE n \in Nat
      <3> HAVE n # 0
      <3>1. f[n - 1] \in S
        BY <2>2
      <3> QED
        BY <3>1 DEF step
    <2> QED
      BY <2>2, <2>3 DEF Iterates
  <1>3. Runs(run)
    <2> HIDE DEF Runs
    <2> QED
      BY <1>2
  <1>4. Drained(units) = run[Len(wire)]
    BY DEF Drained
  <1> HIDE DEF run, S, step
  <1>5. run[0] = start /\ \A n \in Nat : run[n + 1] = Turn(units)[run[n]]
    <2>1. run = [n \in Nat |-> IF n = 0 THEN start ELSE Turn(units)[run[n - 1]]]
      BY <1>3
    <2>2. ASSUME NEW n \in Nat PROVE run[n + 1] = Turn(units)[run[n]]
      <3>1. n + 1 \in Nat /\ n + 1 # 0 /\ (n + 1) - 1 = n
        OBVIOUS
      <3> QED
        BY <2>1, <3>1
    <2> QED
      BY <2>1, <2>2
  <1>6. \A n \in Nat : LoopInv(units, run[n])
    <2> DEFINE T == {n \in Nat : LoopInv(units, run[n])}
    <2>1. 0 \in T
      BY <1>1, <1>5 DEF S
    <2>2. ASSUME NEW n \in T PROVE n + 1 \in T
      <3>1. LoopInv(units, Turn(units)[run[n]])
        BY <1>0, TurnKeeps
      <3> QED
        BY <3>1, <1>5
    <2>3. T \subseteq Nat
      OBVIOUS
    <2> HIDE DEF T
    <2>4. T = Nat
      BY <2>1, <2>2, <2>3, NaturalsClosed
    <2> QED
      BY <2>4 DEF T
  <1> QED
    BY <1>4, <1>5, <1>6 DEF start

\* It ends: what it returns cannot go on.
LEMMA DrainEnds ==
    ASSUME WireInv, TookAll(decoder), NEW units \in Nat, End(decoder.next - 1) <= units
    PROVE  LoopInv(units, Drained(units)) /\ Stopped(units, Drained(units))
  <1>1. PICK run :
           /\ run[0] = [decoder |-> decoder, out |-> <<>>, failed |-> FALSE]
           /\ \A n \in Nat : /\ LoopInv(units, run[n])
                             /\ run[n + 1] = Turn(units)[run[n]]
           /\ Drained(units) = run[Len(wire)]
    BY DrainRuns
  <1>2. decoder \in DecoderStates /\ decoder.next \in Nat \ {0} /\ Len(wire) \in Nat
    BY EndTypes DEF TookAll, DecoderStates
  <1> DEFINE Through(n) == Stopped(units, run[n]) \/ run[n].decoder.next = decoder.next + n
             T == {n \in Nat : Through(n)}
  <1>3. 0 \in T
    <2>1. run[0].decoder = decoder
      BY <1>1
    <2>2. \A k \in Nat : k + 0 = k
      OBVIOUS
    <2>3. run[0].decoder.next = decoder.next + 0
      BY <2>1, <2>2, <1>2
    <2> QED
      BY <2>3
  <1>4. ASSUME NEW n \in T PROVE n + 1 \in T
    <2>1. /\ Stopped(units, run[n]) => run[n + 1] = run[n]
          /\ ~Stopped(units, run[n]) =>
                \/ run[n + 1].failed
                \/ run[n + 1].decoder.next = run[n].decoder.next + 1
      <3>1. n \in Nat
        OBVIOUS
      <3>2. LoopInv(units, run[n]) /\ run[n + 1] = Turn(units)[run[n]]
        BY <3>1, <1>1
      <3> HIDE DEF T
      <3>3. LET t == Turn(units)[run[n]]
            IN  /\ Stopped(units, run[n]) => t = run[n]
                /\ ~Stopped(units, run[n]) =>
                      t.failed \/ t.decoder.next = run[n].decoder.next + 1
        BY <3>2, <1>2, TurnKeeps
      <3> QED
        BY <3>2, <3>3
    <2>2. CASE Stopped(units, run[n])
      BY <2>1, <2>2
    <2>3. CASE ~Stopped(units, run[n])
      <3>1. run[n].decoder.next = decoder.next + n
        BY <2>3
      <3>2. CASE run[n + 1].failed
        BY <3>2 DEF Stopped
      <3>3. CASE run[n + 1].decoder.next = run[n].decoder.next + 1
        <4>1. run[n + 1].decoder.next = decoder.next + (n + 1)
          BY <3>1, <3>3, <1>2
        <4> QED
          BY <4>1
      <3> QED
        BY <2>1, <2>3, <3>2, <3>3
    <2> QED
      BY <2>2, <2>3
  <1>5. T \subseteq Nat
    OBVIOUS
  <1> HIDE DEF T
  <1>6. T = Nat
    BY <1>3, <1>4, <1>5, NaturalsClosed
  <1>7. Through(Len(wire))
    BY <1>2, <1>6 DEF T
  <1>8. run[Len(wire)].decoder.next = decoder.next + Len(wire) => Stopped(units, run[Len(wire)])
    BY <1>2 DEF Stopped, Settled
  <1> QED
    BY <1>1, <1>2, <1>7, <1>8
-------------------------------------------------------------------------------
(* Steps.                                                                      *)

LEMMA InitSatisfies == Init => ProtocolInv
  <1> SUFFICES ASSUME Init PROVE ProtocolInv
    OBVIOUS
  <1>1. wire = <<>> /\ Len(wire) = 0 /\ \A i \in 1..Len(wire) : FALSE
    BY DEF Init
  <1>2. matrix \in Matrices /\ Tiled(matrix)
    BY BlankMatrix DEF Init
  <1>3. WireInv
    <2>1. IsSequence(wire)
      BY <1>1 DEF IsSequence
    <2> QED
      BY <2>1, <1>1 DEF WireInv
  <1>4. /\ decoder = Fresh /\ decoder.next = 1 /\ ~decoder.saw_hello
        /\ decoder \in DecoderStates
    BY DEF Init, Fresh, DecoderStates
  <1>5. TookAll(decoder)
    BY <1>1, <1>4 DEF TookAll
  <1>6. /\ delivered = <<>> /\ Len(delivered) = 0 /\ IsSequence(delivered)
        /\ received = 0 /\ refused = FALSE
    BY DEF Init, IsSequence
  <1>7. End(Len(wire)) = 0 /\ decoder.next - 1 = 0 /\ End(decoder.next - 1) = 0
    BY <1>1, <1>4 DEF End
  <1>8. DecoderInv
    <2>1. Len(delivered) = decoder.next - 1 /\ \A i \in 1..Len(delivered) : FALSE
      BY <1>6, <1>7
    <2>2. received \in Nat /\ received <= End(Len(wire)) /\ End(decoder.next - 1) <= received
      BY <1>6, <1>7
    <2> QED
      BY <1>5, <1>6, <2>1, <2>2 DEF DecoderInv
  <1>9. NothingHeldBack /\ RefusalIsDeserved
    BY <1>1, <1>4, <1>6 DEF NothingHeldBack, RefusalIsDeserved
  <1> QED
    BY <1>2, <1>3, <1>8, <1>9 DEF ProtocolInv

\* A packet that is the adapter's, or breaks a rule, is written behind the others.
LEMMA WriteKeeps ==
    ASSUME ProtocolInv, NEW packet, DOMAIN packet = PacketFields,
           {packet.units, packet.nonce, packet.sequence} \subseteq Nat,
           Own(packet, Len(wire) + 1) \/ Rejected(packet, Len(wire) + 1),
           Write(packet)
    PROVE  ProtocolInv'
  <1>0. PICK M \in Nat : M = Len(wire)
    BY DEF ProtocolInv, WireInv, IsSequence
  <1>1. IsSequence(wire) /\ WireInv /\ TookAll(decoder) /\ DecoderInv
    BY DEF ProtocolInv, WireInv, DecoderInv
  <1>2. PICK k \in 1..M + 1 : k = decoder.next
    BY <1>0, <1>1 DEF TookAll
  <1> DEFINE p == [packet EXCEPT !.end = End(M) + Total(packet)]
             Then(n) == IF n = 0 THEN 0 ELSE wire'[n].end
  <1>3. /\ wire' = Append(wire, p)
        /\ UNCHANGED <<matrix, paints, received, decoder, delivered, refused>>
    BY <1>0 DEF Write
  <1>4. /\ DOMAIN p = PacketFields /\ p.end = End(M) + Total(packet)
        /\ p.magic = packet.magic /\ p.version = packet.version /\ p.kind = packet.kind
        /\ p.nonce = packet.nonce /\ p.sequence = packet.sequence
        /\ p.units = packet.units /\ p.payload = packet.payload
        /\ p.drawn = packet.drawn /\ p.broken = packet.broken
    BY EndSet
  <1> HIDE DEF p
  <1>5. Total(p) = Total(packet) /\ Total(packet) = EnvelopeLen + packet.units
    BY <1>4 DEF Total
  <1>6. Own(p, M + 1) \/ Rejected(p, M + 1)
    <2>1. CASE Own(packet, M + 1)
      BY <2>1, <1>4 DEF Own
    <2>2. CASE Rejected(packet, M + 1)
      <3>1. EnvelopeKnown(p) <=> EnvelopeKnown(packet)
        BY <1>4 DEF EnvelopeKnown
      <3> QED
        BY <2>2, <1>4, <3>1 DEF Rejected
    <2> QED
      BY <2>1, <2>2, <1>0
  <1>7. /\ IsSequence(wire') /\ Len(wire') = M + 1
        /\ \A i \in 1..M : wire'[i] = wire[i]
        /\ wire'[M + 1] = p
    BY <1>0, <1>1, <1>3, AppendedSequence
  <1>8. /\ \A n \in 0..M : Then(n) = End(n)
        /\ Then(M + 1) = End(M) + Total(p)
    BY <1>4, <1>5, <1>7 DEF End
  <1> HIDE DEF Then
  <1>9. WireInv'
    <2>1. ASSUME NEW i \in 1..M + 1
          PROVE  /\ DOMAIN wire'[i] = PacketFields
                 /\ {wire'[i].units, wire'[i].nonce, wire'[i].sequence} \subseteq Nat
                 /\ wire'[i].end = Then(i - 1) + Total(wire'[i])
                 /\ Own(wire'[i], i) \/ Rejected(wire'[i], i)
      <3>1. CASE i \in 1..M
        <4>1. Then(i - 1) = End(i - 1)
          BY <1>8, <3>1
        <4> QED
          BY <3>1, <4>1, <1>0, <1>1, <1>7 DEF WireInv
      <3>2. CASE i = M + 1
        <4>1. Then(i - 1) = End(M)
          BY <1>8, <3>2
        <4> QED
          BY <3>2, <4>1, <1>4, <1>5, <1>6, <1>7
      <3> QED
        BY <3>1, <3>2
    <2> QED
      BY <2>1, <1>7 DEF WireInv, End, Then
  <1>10. TookAll(decoder)'
    <2>1. k \in 1..Len(wire') + 1
      BY <1>7
    <2>2. \A i \in 1..k - 1 : Own(wire'[i], i)
      BY <1>1, <1>2, <1>7 DEF TookAll
    <2> QED
      BY <2>1, <2>2, <1>1, <1>2, <1>3 DEF TookAll
  <1>11. /\ End(M) \in Nat /\ Then(M + 1) \in Nat /\ received < Then(M + 1)
         /\ received \in Nat /\ received <= End(M)
    <2>1. End(M) \in Nat
      BY <1>0, <1>1, EndTypes
    <2>2. received \in Nat /\ received <= End(M)
      BY <1>0, <1>1 DEF DecoderInv
    <2>3. packet.units \in Nat
      OBVIOUS
    <2> QED
      BY <1>5, <1>8, <2>1, <2>2, <2>3, Limits
  <1>12. DecoderInv'
    <2>1. \A i \in 1..Len(delivered) : delivered[i] = Message(i)'
      <3> TAKE i \in 1..Len(delivered)
      <3>1. delivered[i] = Message(i) /\ wire'[i] = wire[i]
        BY <1>1, <1>2, <1>7 DEF DecoderInv
      <3> QED
        BY <3>1 DEF Message
    <2>2. received <= Then(M + 1)
      BY <1>11
    <2>3. Then(k - 1) <= received
      <3>1. k - 1 \in 0..M /\ End(k - 1) <= received
        BY <1>1, <1>2 DEF DecoderInv
      <3> QED
        BY <3>1, <1>8
    <2>4. received <= End(Len(wire))' /\ End(decoder.next - 1)' <= received
      BY <2>2, <2>3, <1>2, <1>3, <1>7 DEF End, Then
    <2> QED
      BY <2>1, <2>4, <1>1, <1>3, <1>10 DEF DecoderInv
  <1>13. NothingHeldBack'
    <2> SUFFICES ASSUME ~refused PROVE k > M + 1 \/ received < Then(k)
      BY <1>2, <1>3, <1>7 DEF NothingHeldBack, End, Then
    <2>1. CASE k \in 1..M
      <3>1. received < End(k)
        BY <2>1, <1>0, <1>2 DEF ProtocolInv, NothingHeldBack
      <3> QED
        BY <2>1, <3>1, <1>8
    <2>2. CASE k = M + 1
      BY <2>2, <1>11
    <2> QED
      BY <2>1, <2>2, <1>2
  <1>14. RefusalIsDeserved'
    <2> SUFFICES ASSUME refused
                 PROVE  \E i \in 1..M + 1 : \/ wire'[i].broken
                                            \/ wire'[i].units + ReadSize > MaxPayload + 1
      BY <1>3, <1>7 DEF RefusalIsDeserved
    <2>1. PICK i \in 1..M : wire[i].broken \/ wire[i].units + ReadSize > MaxPayload + 1
      BY <1>0 DEF ProtocolInv, RefusalIsDeserved
    <2>2. i \in 1..M + 1 /\ wire'[i] = wire[i]
      BY <1>7
    <2> QED
      BY <2>1, <2>2
  <1> QED
    BY <1>3, <1>9, <1>12, <1>13, <1>14 DEF ProtocolInv

\* The adapter's packets carry a payload that decodes.
LEMMA OwnHello ==
    ASSUME ProtocolInv, wire = <<>>, NEW payload,
           payload = [missing |-> FALSE, left |-> FALSE, provider |-> 1,
                      architecture |-> 1, modules |-> 1]
    PROVE  Own(Envelope("hello", 1, NextSequence, 1, payload, <<>>), Len(wire) + 1)
  <1>1. Len(wire) + 1 = 1 /\ NextSequence = 1
    BY DEF NextSequence
  <1>2. decode_payload("hello", payload) # <<>>
    <2>1. Whole(payload) /\ "hello" \notin Commands
      BY DEF Whole, Commands
    <2>2. decode_hello(payload) = <<[provider |-> 1]>>
      BY DEF decode_hello
    <2> QED
      BY <2>1, <2>2 DEF decode_payload
  <1> QED
    BY <1>1, <1>2 DEF Envelope, Own

LEMMA OwnFrame ==
    ASSUME ProtocolInv, wire # <<>>, NEW answers \in BOOLEAN
    PROVE  Own(Envelope("frame", 1, NextSequence, 2, FramePayload(matrix, answers),
                        matrix), Len(wire) + 1)
  <1>1. Len(wire) + 1 # 1 /\ NextSequence = Len(wire) + 1
    BY DEF NextSequence, ProtocolInv, WireInv, IsSequence
  <1>2. matrix \in Matrices /\ Tiled(matrix)
    BY DEF ProtocolInv
  <1>3. decode_payload("frame", FramePayload(matrix, answers)) # <<>>
    BY <1>2, FrameDecodes
  <1> QED
    BY <1>1, <1>2, <1>3 DEF Envelope, Own

LEMMA OwnImage ==
    ASSUME ProtocolInv, wire # <<>>, NEW payload,
           payload = [missing |-> FALSE, left |-> FALSE, hex |-> TRUE,
                      mime |-> "image/png", matches |-> TRUE]
    PROVE  Own(Envelope("image", 1, NextSequence, MaxPayload, payload, <<>>),
               Len(wire) + 1)
  <1>1. Len(wire) + 1 # 1 /\ NextSequence = Len(wire) + 1
    BY DEF NextSequence, ProtocolInv, WireInv, IsSequence
  <1>2. decode_payload("image", payload) # <<>>
    <2>1. Whole(payload) /\ "image" \notin Commands
      BY DEF Whole, Commands
    <2>2. decode_image(payload) = <<[mime |-> "image/png"]>>
      BY DEF decode_image
    <2> QED
      BY <2>1, <2>2 DEF decode_payload
  <1> QED
    BY <1>1, <1>2 DEF Envelope, Own

LEMMA EnvelopeFields ==
    ASSUME NEW kind, NEW nonce \in Nat, NEW sequence \in Nat, NEW units \in Nat,
           NEW payload, NEW drawn
    PROVE  LET p == Envelope(kind, nonce, sequence, units, payload, drawn)
           IN  /\ DOMAIN p = PacketFields
               /\ {p.units, p.nonce, p.sequence} \subseteq Nat
  BY DEF Envelope, PacketFields

\* What the adapter writes keeps the invariant.
LEMMA HelloKeeps == ASSUME ProtocolInv, SendHello PROVE ProtocolInv'
  <1> DEFINE payload == [missing |-> FALSE, left |-> FALSE, provider |-> 1,
                         architecture |-> 1, modules |-> 1]
             p == Envelope("hello", 1, NextSequence, 1, payload, <<>>)
  <1>1. wire = <<>> /\ Write(p)
    BY DEF SendHello
  <1>2. NextSequence \in Nat /\ 1 \in Nat
    BY DEF NextSequence, ProtocolInv, WireInv, IsSequence
  <1>3. Own(p, Len(wire) + 1)
    BY <1>1, OwnHello
  <1>4. DOMAIN p = PacketFields /\ {p.units, p.nonce, p.sequence} \subseteq Nat
    BY <1>2, EnvelopeFields
  <1> HIDE DEF p
  <1> QED
    BY <1>1, <1>3, <1>4, WriteKeeps

LEMMA FrameKeeps ==
    ASSUME ProtocolInv, NEW answers \in BOOLEAN, SendFrame(answers)
    PROVE  ProtocolInv'
  <1> DEFINE p == Envelope("frame", 1, NextSequence, 2, FramePayload(matrix, answers),
                           matrix)
  <1>1. wire # <<>> /\ Write(p)
    BY DEF SendFrame
  <1>2. NextSequence \in Nat /\ 1 \in Nat /\ 2 \in Nat
    BY DEF NextSequence, ProtocolInv, WireInv, IsSequence
  <1>3. Own(p, Len(wire) + 1)
    BY <1>1, OwnFrame
  <1>4. DOMAIN p = PacketFields /\ {p.units, p.nonce, p.sequence} \subseteq Nat
    BY <1>2, EnvelopeFields
  <1> HIDE DEF p
  <1> QED
    BY <1>1, <1>3, <1>4, WriteKeeps

LEMMA ImageKeeps == ASSUME ProtocolInv, SendImage PROVE ProtocolInv'
  <1> DEFINE payload == [missing |-> FALSE, left |-> FALSE, hex |-> TRUE,
                         mime |-> "image/png", matches |-> TRUE]
             p == Envelope("image", 1, NextSequence, MaxPayload, payload, <<>>)
  <1>1. wire # <<>> /\ Write(p)
    BY DEF SendImage
  <1>2. NextSequence \in Nat /\ 1 \in Nat /\ MaxPayload \in Nat
    BY Limits DEF NextSequence, ProtocolInv, WireInv, IsSequence
  <1>3. Own(p, Len(wire) + 1)
    BY <1>1, OwnImage
  <1>4. DOMAIN p = PacketFields /\ {p.units, p.nonce, p.sequence} \subseteq Nat
    BY <1>2, EnvelopeFields
  <1> HIDE DEF p
  <1> QED
    BY <1>1, <1>3, <1>4, WriteKeeps

\* What breaks a rule keeps it too: nothing before it was broken.
LEMMA AgainKeeps == ASSUME ProtocolInv, SendAgain PROVE ProtocolInv'
  <1> DEFINE q == [wire[1] EXCEPT !.sequence = NextSequence]
             p == [q EXCEPT !.broken = TRUE]
  <1>1. wire # <<>> /\ (\A i \in 1..Len(wire) : ~wire[i].broken) /\ Write(p)
    BY DEF SendAgain
  <1>2. Len(wire) \in Nat /\ 1 \in 1..Len(wire) /\ NextSequence \in Nat
        /\ Len(wire) + 1 > 1
    BY <1>1 DEF NextSequence, ProtocolInv, WireInv, IsSequence
  <1>3. /\ DOMAIN wire[1] = PacketFields
        /\ {wire[1].units, wire[1].nonce, wire[1].sequence} \subseteq Nat
        /\ Own(wire[1], 1)
    BY <1>1, <1>2 DEF ProtocolInv, WireInv, Rejected
  <1>4. /\ DOMAIN q = PacketFields /\ q.sequence = NextSequence
        /\ q.kind = wire[1].kind /\ q.nonce = wire[1].nonce
        /\ q.units = wire[1].units /\ q.drawn = wire[1].drawn
    BY <1>3, SequenceSet
  <1> HIDE DEF q
  <1>5. /\ DOMAIN p = PacketFields /\ p.broken = TRUE /\ p.sequence = NextSequence
        /\ p.kind = wire[1].kind /\ p.nonce = wire[1].nonce
        /\ p.units = wire[1].units /\ p.drawn = wire[1].drawn
    BY <1>4, BrokenSet
  <1> HIDE DEF p
  <1>6. p.kind = "hello" /\ p.drawn = <<>>
    BY <1>3, <1>5 DEF Own
  <1>7. Rejected(p, Len(wire) + 1)
    BY <1>2, <1>5, <1>6 DEF Rejected
  <1> QED
    BY <1>1, <1>2, <1>3, <1>5, <1>7, WriteKeeps

LEMMA BrokenKeeps ==
    ASSUME ProtocolInv, NEW packet \in BrokenPackets, SendBroken(packet)
    PROVE  ProtocolInv'
  <1> DEFINE v == IF packet.sequence = 0 THEN NextSequence ELSE packet.sequence
             p == [packet EXCEPT !.sequence = v]
  <1>1. Write(p)
    BY DEF SendBroken
  <1>2. NextSequence \in Nat
    BY DEF NextSequence, ProtocolInv, WireInv, IsSequence
  <1>3. /\ DOMAIN packet = PacketFields /\ packet.broken /\ packet.drawn = <<>>
        /\ {packet.units, packet.nonce, packet.sequence} \subseteq Nat
        /\ \/ ~EnvelopeKnown(packet)
           \/ decode_payload(packet.kind, packet.payload) = <<>>
           \/ packet.kind # "hello" /\ (packet.nonce # 1 \/ packet.sequence = 1)
    BY BrokenAssumption
  <1>4. v \in Nat /\ (packet.sequence = 1 => v = 1)
    BY <1>2, <1>3
  <1> HIDE DEF v
  <1>5. /\ DOMAIN p = PacketFields /\ p.sequence = v
        /\ p.magic = packet.magic /\ p.version = packet.version /\ p.kind = packet.kind
        /\ p.nonce = packet.nonce /\ p.units = packet.units
        /\ p.payload = packet.payload /\ p.drawn = packet.drawn
        /\ p.broken = packet.broken
    BY <1>3, SequenceSet
  <1> HIDE DEF p
  <1>6. EnvelopeKnown(p) <=> EnvelopeKnown(packet)
    BY <1>5 DEF EnvelopeKnown
  <1>7. Rejected(p, Len(wire) + 1)
    BY <1>3, <1>4, <1>5, <1>6 DEF Rejected
  <1> QED
    BY <1>1, <1>3, <1>4, <1>5, <1>7, WriteKeeps

\* Nothing but the matrix matters to a paint, nothing at all to a stutter.
LEMMA StreamStays ==
    ASSUME ProtocolInv, UNCHANGED <<wire, received, decoder, delivered, refused>>,
           (matrix \in Matrices /\ Tiled(matrix))'
    PROVE  ProtocolInv'
  <1>1. WireInv'
    BY DEF ProtocolInv, WireInv, End
  <1>2. DecoderInv'
    BY DEF ProtocolInv, DecoderInv, TookAll, End, Message
  <1>3. NothingHeldBack' /\ RefusalIsDeserved'
    BY DEF ProtocolInv, NothingHeldBack, RefusalIsDeserved, End
  <1> QED
    BY <1>1, <1>2, <1>3 DEF ProtocolInv

LEMMA PaintKeeps ==
    ASSUME ProtocolInv, NEW line \in Lines, Paint(line)
    PROVE  ProtocolInv'
  <1>1. Painted(matrix, line) \in Matrices /\ Tiled(Painted(matrix, line))
    <2>1. matrix \in Matrices /\ Tiled(matrix)
      BY DEF ProtocolInv
    <2>2. /\ ~matrix[line[1].col].continuation
          /\ After(line, Len(line)) <= Cols =>
                ~matrix[After(line, Len(line))].continuation
      BY DEF Paint, WholeGlyphs
    <2> QED
      BY <2>1, <2>2, PaintedIsTiled
  <1>2. /\ matrix' = Painted(matrix, line)
        /\ UNCHANGED <<wire, received, decoder, delivered, refused>>
    BY DEF Paint
  <1>3. matrix' \in Matrices /\ Tiled(matrix')
    BY <1>1, <1>2
  <1>4. (matrix \in Matrices /\ Tiled(matrix))'
    BY <1>3 DEF Matrices, Tiled, GlyphColumns
  <1> QED
    BY <1>2, <1>4, StreamStays

\* A chunk of at most ReadSize, before which u units of payload were not complete.
LEMMA LeavesNoRoom ==
    ASSUME NEW start \in Nat, NEW before \in Nat, NEW u \in Nat,
           NEW count \in 1..ReadSize, before < start + EnvelopeLen + u,
           (before + count) - start > MaxPayload + EnvelopeLen
    PROVE  u + ReadSize > MaxPayload + 1
  BY Limits

\* A chunk that does not fit the buffer means a payload that leaves no room.
LEMMA OverfullIsDeserved ==
    ASSUME ProtocolInv, ~refused, NEW count \in 1..ReadSize,
           received + count <= End(Len(wire)), Overfull(received + count)
    PROVE  Deserved
  <1>0. PICK M \in Nat : M = Len(wire)
    BY DEF ProtocolInv, WireInv, IsSequence
  <1>1. WireInv /\ TookAll(decoder) /\ DecoderInv
    BY DEF ProtocolInv, DecoderInv
  <1>2. PICK k \in 1..M + 1 : k = decoder.next
    BY <1>0, <1>1 DEF TookAll
  <1>3. received \in Nat /\ End(k - 1) \in Nat /\ End(M) \in Nat
    <2>1. k - 1 \in 0..Len(wire) /\ M \in 0..Len(wire)
      BY <1>0
    <2> QED
      BY <2>1, <1>1, EndTypes DEF DecoderInv
  <1>4. (received + count) - End(k - 1) > MaxPayload + EnvelopeLen
    BY <1>2 DEF Overfull
  <1>5. received + count <= End(M)
    BY <1>0
  <1>6. k # M + 1
    <2> SUFFICES ASSUME k = M + 1 PROVE FALSE
      OBVIOUS
    <2>1. k - 1 = M
      OBVIOUS
    <2> QED
      BY <2>1, <1>3, <1>4, <1>5, Limits
  <1>7. k \in 1..M /\ received < End(k)
    BY <1>0, <1>2, <1>6 DEF ProtocolInv, NothingHeldBack
  <1>8. wire[k].units \in Nat /\ End(k) = End(k - 1) + EnvelopeLen + wire[k].units
    BY <1>0, <1>1, <1>7, EndTypes
  <1>9. wire[k].units + ReadSize > MaxPayload + 1
    <2>1. received < End(k - 1) + EnvelopeLen + wire[k].units
      BY <1>7, <1>8
    <2> QED
      BY <2>1, <1>3, <1>4, <1>8, LeavesNoRoom
  <1> QED
    BY <1>0, <1>7, <1>9 DEF Deserved

\* What the loop returned is delivered behind what was.
LEMMA DeliveredGrows ==
    ASSUME DecoderInv, decoder.next \in Nat, NEW out, NEW next \in Nat,
           decoder.next <= next, Len(out) = next - decoder.next,
           \A i \in 1..Len(out) : out[i] = decoder.next + i - 1
    PROVE  LET all == delivered \o [i \in 1..Len(out) |-> Message(out[i])]
           IN  /\ IsSequence(all) /\ Len(all) = next - 1
               /\ \A i \in 1..Len(all) : all[i] = Message(i)
  <1> DEFINE more == [i \in 1..Len(out) |-> Message(out[i])]
             all == delivered \o more
  <1>1. /\ IsSequence(delivered) /\ Len(delivered) = decoder.next - 1
        /\ \A i \in 1..Len(delivered) : delivered[i] = Message(i)
        /\ Len(delivered) \in Nat
    BY DEF DecoderInv, IsSequence
  <1>2. Len(out) \in Nat
    OBVIOUS
  <1>3. \A i \in 1..Len(out) : more[i] = Message(decoder.next + i - 1)
    OBVIOUS
  <1>4. more = [i \in 1..Len(out) |-> more[i]]
    OBVIOUS
  <1> HIDE DEF more
  <1>5. IsSequence(more) /\ Len(more) = Len(out)
    BY <1>2, <1>4, FunctionIsSequence
  <1>6. /\ IsSequence(all) /\ Len(all) = Len(delivered) + Len(more)
        /\ \A i \in 1..Len(delivered) : all[i] = delivered[i]
        /\ \A i \in 1..Len(more) : all[Len(delivered) + i] = more[i]
    <2>1. IsSequence(delivered) /\ IsSequence(more)
      BY <1>1, <1>5
    <2> HIDE DEF DecoderInv
    <2> QED
      BY <2>1, JoinedSequence
  <1> HIDE DEF all
  <1>7. /\ Len(delivered) \in Nat /\ Len(more) \in Nat
        /\ Len(all) = Len(delivered) + Len(more)
    BY <1>1, <1>2, <1>5, <1>6
  <1>8. ASSUME NEW i \in 1..Len(all) PROVE all[i] = Message(i)
    <2>1. CASE i \in 1..Len(delivered)
      BY <2>1, <1>1, <1>6
    <2>2. CASE i \notin 1..Len(delivered)
      <3>1. PICK j \in 1..Len(more) : i = Len(delivered) + j
        <4>1. i - Len(delivered) \in 1..Len(more) /\ i = Len(delivered) + (i - Len(delivered))
          BY <2>2, <1>7
        <4> QED
          BY <4>1
      <3>2. decoder.next + j - 1 = i
        BY <3>1, <1>1, <1>2, <1>5
      <3> QED
        BY <3>1, <3>2, <1>3, <1>5, <1>6
    <2> QED
      BY <2>1, <2>2
  <1>9. Len(all) = next - 1
    BY <1>1, <1>5, <1>7
  <1> QED
    BY <1>6, <1>8, <1>9 DEF all, more

LEMMA PushKeeps ==
    ASSUME ProtocolInv, NEW count \in 1..ReadSize, Push(count)
    PROVE  ProtocolInv'
  <1> DEFINE units == received + count
             result == Drained(units)
             failed == Overfull(units) \/ result.failed
             all == delivered \o [i \in 1..Len(result.out) |-> Message(result.out[i])]
  <1>0. PICK M \in Nat : M = Len(wire)
    BY DEF ProtocolInv, WireInv, IsSequence
  <1>1. WireInv /\ TookAll(decoder) /\ DecoderInv
    BY DEF ProtocolInv, DecoderInv
  <1>2. PICK k \in 1..M + 1 : k = decoder.next
    BY <1>0, <1>1 DEF TookAll
  <1>3. /\ ~refused /\ units <= End(Len(wire))
        /\ received' = units /\ refused' = failed
        /\ decoder' = IF failed THEN decoder ELSE result.decoder
        /\ delivered' = IF failed THEN delivered ELSE all
        /\ UNCHANGED <<matrix, paints, wire>>
    BY DEF Push
  <1>4. units \in Nat /\ received <= units /\ received \in Nat
    BY <1>1 DEF DecoderInv
  <1>5. End(k - 1) \in Nat /\ End(k - 1) <= received
    BY <1>0, <1>1, <1>2, EndTypes DEF DecoderInv
  <1>6. End(decoder.next - 1) <= units
    BY <1>2, <1>4, <1>5
  <1> HIDE DEF units, result
  <1>7. LoopInv(units, result) /\ Stopped(units, result)
    BY <1>1, <1>4, <1>6, DrainEnds DEF result
  <1>8. failed \in BOOLEAN
    <2>1. result.failed \in BOOLEAN
      BY <1>7 DEF LoopInv, LoopStates
    <2> QED
      BY <2>1
  <1> HIDE DEF failed, all
  <1>9. WireInv'
    BY <1>1, <1>3 DEF WireInv, End
  <1>10. matrix' \in Matrices /\ Tiled(matrix)'
    BY <1>3 DEF ProtocolInv, Tiled, GlyphColumns
  <1>11. CASE failed
    <2>1. Deserved
      <3>1. Overfull(units) => Deserved
        BY <1>3, OverfullIsDeserved DEF units
      <3>2. result.failed => Deserved
        BY <1>7 DEF LoopInv
      <3> QED
        BY <3>1, <3>2, <1>11 DEF failed
    <2>2. decoder' = decoder /\ delivered' = delivered /\ refused' = TRUE
      BY <1>3, <1>8, <1>11
    <2>3. DecoderInv'
      <3>1. TookAll(decoder)'
        BY <2>2, <1>1, <1>3 DEF TookAll
      <3>2. \A i \in 1..Len(delivered) : delivered[i] = Message(i)'
        BY <1>1, <1>3 DEF DecoderInv, Message
      <3>3. received' <= End(Len(wire))' /\ End(decoder.next - 1)' <= received'
        BY <2>2, <1>3, <1>6 DEF End
      <3> QED
        BY <2>2, <3>1, <3>2, <3>3, <1>1, <1>3, <1>4 DEF DecoderInv
    <2>4. NothingHeldBack' /\ RefusalIsDeserved'
      BY <2>1, <2>2, <1>3 DEF NothingHeldBack, RefusalIsDeserved, Deserved
    <2> QED
      BY <2>3, <2>4, <1>3, <1>9, <1>10 DEF ProtocolInv, Matrices, Cells
  <1>12. CASE ~failed
    <2>1. /\ decoder' = result.decoder /\ delivered' = all /\ refused' = FALSE
          /\ ~result.failed
      BY <1>3, <1>8, <1>12 DEF failed
    <2>2. TookAll(result.decoder) /\ result.decoder.next \in Nat
          /\ Settled(units, result.decoder.next)
      BY <1>7, <2>1 DEF LoopInv, Stopped, TookAll, DecoderStates
    <2>3. PICK n \in 1..M + 1 : n = result.decoder.next
      BY <2>2, <1>0 DEF TookAll
    <2>4. End(n - 1) <= units
      BY <2>3, <1>7 DEF LoopInv
    <2>5. /\ IsSequence(all) /\ Len(all) = n - 1
          /\ \A i \in 1..Len(all) : all[i] = Message(i)
      <3>1. /\ k <= n /\ Len(result.out) = n - decoder.next
            /\ \A i \in 1..Len(result.out) : result.out[i] = decoder.next + i - 1
            /\ decoder.next \in Nat /\ n \in Nat /\ decoder.next <= n
        BY <1>2, <1>7, <2>3 DEF LoopInv
      <3> QED
        BY <3>1, <1>1, <1>2, DeliveredGrows DEF all
    <2>6. DecoderInv'
      <3>1. TookAll(decoder)'
        BY <2>1, <2>2, <1>3 DEF TookAll
      <3>2. \A i \in 1..Len(all) : all[i] = Message(i)'
        BY <2>5, <1>3 DEF Message
      <3>3. received' <= End(Len(wire))' /\ End(decoder.next - 1)' <= received'
        BY <2>1, <2>3, <2>4, <1>3 DEF End
      <3> QED
        BY <2>1, <2>3, <2>5, <3>1, <3>2, <3>3, <1>3, <1>4 DEF DecoderInv
    <2>7. n > M \/ units < End(n)
      <3> SUFFICES ASSUME n \in 1..M PROVE units < End(n)
        OBVIOUS
      <3>1. /\ End(n - 1) \in Nat /\ wire[n].units \in Nat
            /\ End(n) = End(n - 1) + EnvelopeLen + wire[n].units
        BY <1>0, <1>1, EndTypes
      <3>2. units < End(n - 1) + EnvelopeLen \/ units < End(n)
        BY <2>2, <2>3, <1>0 DEF Settled
      <3> QED
        BY <3>1, <3>2, <1>4, Limits
    <2>8. NothingHeldBack' /\ RefusalIsDeserved'
      BY <2>1, <2>3, <2>7, <1>0, <1>3 DEF NothingHeldBack, RefusalIsDeserved, End
    <2> QED
      BY <2>6, <2>8, <1>3, <1>9, <1>10 DEF ProtocolInv, Matrices, Cells
  <1> QED
    BY <1>11, <1>12

LEMMA NextKeeps ==
    ASSUME ProtocolInv, [Next]_vars
    PROVE  ProtocolInv'
  <1>1. ASSUME NEW line \in Lines, Paint(line) PROVE ProtocolInv'
    BY <1>1, PaintKeeps
  <1>2. CASE SendHello
    BY <1>2, HelloKeeps
  <1>3. ASSUME NEW answers \in BOOLEAN, SendFrame(answers) PROVE ProtocolInv'
    BY <1>3, FrameKeeps
  <1>4. CASE SendImage
    BY <1>4, ImageKeeps
  <1>5. CASE SendAgain
    BY <1>5, AgainKeeps
  <1>6. ASSUME NEW packet \in BrokenPackets, SendBroken(packet) PROVE ProtocolInv'
    BY <1>6, BrokenKeeps
  <1>7. ASSUME NEW count \in 1..ReadSize, Push(count) PROVE ProtocolInv'
    BY <1>7, PushKeeps
  <1>8. CASE UNCHANGED vars
    <2>1. (matrix \in Matrices /\ Tiled(matrix))'
      BY <1>8 DEF vars, ProtocolInv, Matrices, Cells, Tiled, GlyphColumns
    <2> QED
      BY <2>1, <1>8, StreamStays DEF vars
  <1> QED
    BY <1>1, <1>2, <1>3, <1>4, <1>5, <1>6, <1>7, <1>8 DEF Next, Adapter
-------------------------------------------------------------------------------
(* Theorems.                                                                   *)

\* The inductive invariant: the matrix stays tiled under every paint, the stream
\* is packets of the adapter's or rejected ones, and the decoder took, by the
\* rules, all before the one its buffer begins with (applyBatch and framePayload
\* in wt_adapter.cpp, Decoder::push in native_protocol.rs).
THEOREM ProtocolInvariant == Spec => []ProtocolInv
  <1>1. Init => ProtocolInv
    BY InitSatisfies
  <1>2. ProtocolInv /\ [Next]_vars => ProtocolInv'
    BY NextKeeps
  <1> QED
    BY <1>1, <1>2, PTL DEF Spec

\* However the pipe cuts and joins the packets, the broker is given each of them
\* once, in the order they were written, under one nonce from one HELLO on, none
\* that breaks a rule, and none that is complete is held back (Decoder::push).
THEOREM PacketsAlwaysArrive == Spec => []PacketsArrive
  <1>1. ASSUME ProtocolInv PROVE PacketsArrive
    <2>1. TookAll(decoder) /\ DecoderInv /\ NothingHeldBack
      BY <1>1 DEF ProtocolInv, DecoderInv
    <2>2. ASSUME NEW i \in 1..Len(delivered)
          PROVE  delivered[i].packet = i /\ Own(wire[i], i) /\ Own(wire[1], 1)
      <3>1. delivered[i] = Message(i)
        BY <2>1 DEF DecoderInv
      <3>2. i \in 1..decoder.next - 1 /\ 1 \in 1..decoder.next - 1
        BY <2>1 DEF DecoderInv, TookAll, DecoderStates
      <3>3. Own(wire[i], i) /\ Own(wire[1], 1)
        BY <2>1, <3>2 DEF TookAll
      <3> QED
        BY <3>1, <3>3 DEF Message
    <2>3. DeliveredInOrder
      BY <2>2 DEF DeliveredInOrder, Own
    <2> QED
      BY <2>1, <2>3 DEF PacketsArrive
  <1> QED
    BY <1>1, ProtocolInvariant, PTL

\* Push fails only over a packet that breaks a rule, or over a payload that leaves
\* the buffer no room for one read; any other connection lives on.
THEOREM RefusalIsAlwaysDeserved == Spec => []RefusalIsDeserved
  <1>1. ProtocolInv => RefusalIsDeserved
    BY DEF ProtocolInv
  <1> QED
    BY <1>1, ProtocolInvariant, PTL

\* What decode_frame makes of a FRAME shows every glyph of the matrix it was made
\* of, at its column, and in its own style while the table holds all styles
\* (framePayload in wt_adapter.cpp, decode_frame in native_protocol.rs).
THEOREM MatrixAlwaysArrives == Spec => []MatrixArrives
  <1>1. ASSUME ProtocolInv PROVE MatrixArrives
    <2> SUFFICES ASSUME NEW i \in 1..Len(delivered), wire[i].drawn # <<>>
                 PROVE  LET there == MatrixGlyphs(wire[i].drawn)
                            here == RowGlyphs(delivered[i].message.rows[1])
                            Plain(glyphs) == {[at |-> g.at, text |-> g.text,
                                               wide |-> g.wide] : g \in glyphs}
                        IN  /\ Plain(here) = Plain(there)
                            /\ Cardinality({g.look : g \in there}) <= MaxStyles =>
                                  here = there
      BY DEF MatrixArrives
    <2>1. TookAll(decoder) /\ DecoderInv
      BY <1>1 DEF ProtocolInv, DecoderInv
    <2>2. delivered[i] = Message(i) /\ i \in 1..decoder.next - 1
      BY <2>1 DEF DecoderInv, TookAll, DecoderStates
    <2>3. Own(wire[i], i)
      BY <2>1, <2>2 DEF TookAll
    <2>4. PICK m \in Matrices : m = wire[i].drawn /\ Tiled(m)
      BY <2>3 DEF Own
    <2>5. PICK answers \in BOOLEAN :
             wire[i].kind = "frame" /\ wire[i].payload = FramePayload(m, answers)
      BY <2>3, <2>4 DEF Own
    <2> DEFINE row == delivered[i].message.rows[1]
    <2>6. delivered[i].message = decode_payload("frame", FramePayload(m, answers))[1]
      BY <2>2, <2>5 DEF Message
    <2>7. /\ Len(row) = Cardinality(GlyphColumns(m))
          /\ \A j \in 1..Len(row) :
                [text |-> row[j].text, wide |-> row[j].wide,
                 look |-> row[j].look] = Told(m, j)
      BY <2>4, <2>6, FrameDecodes
    <2> HIDE DEF row
    <2>8. LET there == MatrixGlyphs(m)
              here == RowGlyphs(row)
              Plain(glyphs) == {[at |-> g.at, text |-> g.text, wide |-> g.wide] :
                                g \in glyphs}
          IN  /\ Plain(here) = Plain(there)
              /\ Cardinality({g.look : g \in there}) <= MaxStyles => here = there
      BY <2>4, <2>7, RowShowsMatrix
    <2> QED
      BY <2>4, <2>8 DEF row
  <1> QED
    BY <1>1, ProtocolInvariant, PTL
===============================================================================
