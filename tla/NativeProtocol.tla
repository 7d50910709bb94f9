----------------------------- MODULE NativeProtocol -----------------------------
(* The byte stream between an adapter and the broker: how the adapter turns its *)
(* cell matrix into a FRAME, how the broker's decoder cuts packets out of the   *)
(* chunks a read returns, and what decode_payload makes of them.  Lengths are   *)
(* in units; a payload is a record of its fields, with the number of its units  *)
(* and whether bytes of it are missing or left over.                            *)
EXTENDS Naturals, Sequences, FiniteSetsExt, SequencesExt

CONSTANTS
    EnvelopeLen, MaxPayload, ReadSize,      \* in units
    Cols,               \* of the viewport, whose one row stands for every row
    Clusters,           \* what the renderer paints: [text, width, style]
    Link,               \* the hyperlink of each style, 0 without one
    MaxStyles,
    BrokenPackets,      \* what no adapter should send
    MaxPackets, MaxPaints

Kinds == {"hello", "source_added", "source_updated", "source_removed", "frame",
          "image", "diagnostic"}
Commands == {"subscribe", "unsubscribe", "request_full", "ping", "shutdown"}
NoLink == 0
Default == 1        \* the style of a blank cell
Styles == DOMAIN Link

ASSUME ProtocolAssumption ==
    /\ {EnvelopeLen, MaxPayload, ReadSize, Cols, MaxStyles} \subseteq Nat \ {0}
    /\ {MaxPackets, MaxPaints} \subseteq Nat
    /\ Cols <= 1000         \* UpdateViewport takes no wider viewport
    /\ Default \in Styles
    /\ \A c \in Clusters : c.width \in {1, 2} /\ c.style \in Styles

VARIABLES
    matrix,         \* the adapter's cells
    paints,         \* lines painted so far
    wire,           \* the packets written, each with its end in the stream
    received,       \* the units the decoder was given
    decoder,        \* its state; next is the packet its buffer begins with
    delivered,      \* the packets it returned, for the broker to handle
    refused         \* whether a push failed, which ends the connection

vars == <<matrix, paints, wire, received, decoder, delivered, refused>>

Cell(text, width, style) ==
    [text |-> text, width |-> width, continuation |-> FALSE, style |-> style]
Blank == Cell(" ", 1, Default)
Continuation == [Blank EXCEPT !.continuation = TRUE]

Total(packet) == EnvelopeLen + packet.units
\* Units up to and with the n-th packet.
End(n) == IF n = 0 THEN 0 ELSE wire[n].end

Fresh == [next |-> 1, nonce |-> 0, sequence |-> 0, saw_hello |-> FALSE]

Init ==
    /\ matrix = [c \in 1..Cols |-> Blank] /\ paints = 0
    /\ wire = <<>> /\ received = 0
    /\ decoder = Fresh /\ delivered = <<>> /\ refused = FALSE
-------------------------------------------------------------------------------
(* The adapter: applyBatch and framePayload.                                   *)

\* A line of clusters, each of which begins where the one before it ends.
Placed == {[col |-> c, text |-> k.text, width |-> k.width, style |-> k.style] :
           c \in 1..Cols, k \in Clusters}
After(line, i) == line[i].col + line[i].width
Lines == {line \in UNION {[1..n -> Placed] : n \in 1..Cols} :
             /\ \A i \in 1..Len(line) - 1 : line[i + 1].col = After(line, i)
             /\ After(line, Len(line)) <= Cols + 1}

\* Each cluster goes to its column; a wide one leaves a continuation.
Painted(m, line) ==
    LET Here(c) == {i \in 1..Len(line) : line[i].col = c}
        Before(c) == {i \in 1..Len(line) : line[i].width = 2 /\ line[i].col + 1 = c}
    IN  [c \in 1..Cols |->
            IF Here(c) # {}
            THEN LET k == line[CHOOSE i \in Here(c) : TRUE]
                 IN  Cell(k.text, k.width, k.style)
            ELSE IF Before(c) # {} THEN Continuation
            ELSE m[c]]

\* The renderer paints whole glyphs: what it overwrites it overwrites entirely.
WholeGlyphs(first, after) ==
    /\ ~matrix[first].continuation
    /\ after <= Cols => ~matrix[after].continuation

Paint(line) ==
    /\ paints < MaxPaints /\ Len(wire) < MaxPackets
    /\ WholeGlyphs(line[1].col, After(line, Len(line)))
    /\ matrix' = Painted(matrix, line)
    /\ paints' = paints + 1
    /\ UNCHANGED <<wire, received, decoder, delivered, refused>>

\* The numbers of a set from the least on.
Ascending(S) ==
    CHOOSE s \in [1..Cardinality(S) -> S] :
        \A i, j \in 1..Cardinality(S) : i < j => s[i] < s[j]

GlyphColumns(m) == {c \in 1..Cols : ~m[c].continuation}
Glyphs(m) == Ascending(GlyphColumns(m))

\* The table in the order of first use; a style beyond its end becomes the first.
FirstUses(m) ==
    {c \in GlyphColumns(m) :
        \A d \in GlyphColumns(m) : d < c => m[d].style # m[c].style}
StyleTable(m) ==
    LET first == Ascending(FirstUses(m))
    IN  [n \in 1..Min({Len(first), MaxStyles}) |-> m[first[n]].style]

\* Defect: indices count from one.
StyleIndexFromOne(table, style) ==
    IF \E n \in 1..Len(table) : table[n] = style
    THEN Min({CHOOSE n \in 1..Len(table) : table[n] = style, Len(table) - 1})
    ELSE 0

StyleIndex(table, style) ==
    IF \E n \in 1..Len(table) : table[n] = style
    THEN (CHOOSE n \in 1..Len(table) : table[n] = style) - 1
    ELSE 0

\* The renderer's data answers for hyperlinks only while the engine lives.
FramePayload(m, answers) ==
    LET table == StyleTable(m)
        columns == Glyphs(m)
        links == IF answers THEN {Link[table[n]] : n \in 1..Len(table)} \ {NoLink}
                 ELSE {}
    IN  [missing |-> FALSE, left |-> FALSE, rows |-> 1, cols |-> Cols,
         styles |-> [n \in 1..Len(table) |->
                        [flags |-> {}, underline |-> 0, look |-> table[n],
                         link |-> IF Link[table[n]] \in links
                                  THEN Link[table[n]] ELSE NoLink]],
         links |-> SetToSeq(links),
         cells |-> <<[i \in 1..Len(columns) |->
                        LET cell == m[columns[i]]
                        IN  [col |-> columns[i] - 1, columns |-> cell.width,
                             style |-> StyleIndex(table, cell.style),
                             text |-> cell.text]]>>,
         cursor |-> <<>>, cursor_style |-> 2, images |-> <<>>]

\* encode_packet, and the adapter's sendPacket.
Envelope(kind, nonce, sequence, units, payload, drawn) ==
    [magic |-> TRUE, version |-> 1, kind |-> kind, nonce |-> nonce,
     sequence |-> sequence, units |-> units, payload |-> payload,
     drawn |-> drawn, broken |-> FALSE, end |-> 0]

PacketFields == {"magic", "version", "kind", "nonce", "sequence", "units", "payload",
                 "drawn", "broken", "end"}

Write(packet) ==
    /\ Len(wire) < MaxPackets
    /\ wire' = Append(wire, [packet EXCEPT !.end = End(Len(wire)) + Total(packet)])
    /\ UNCHANGED <<matrix, paints, received, decoder, delivered, refused>>

NextSequence == Len(wire) + 1

SendHello ==
    /\ wire = <<>>
    /\ Write(Envelope("hello", 1, NextSequence, 1,
                      [missing |-> FALSE, left |-> FALSE, provider |-> 1,
                       architecture |-> 1, modules |-> 1], <<>>))

SendFrame(answers) ==
    /\ wire # <<>>
    /\ Write(Envelope("frame", 1, NextSequence, 2, FramePayload(matrix, answers),
                      matrix))

\* An image blob that fills the payload to its limit.
SendImage ==
    /\ wire # <<>>
    /\ Write(Envelope("image", 1, NextSequence, MaxPayload,
                      [missing |-> FALSE, left |-> FALSE, hex |-> TRUE,
                       mime |-> "image/png", matches |-> TRUE], <<>>))

\* What another program, or a broken adapter, may write.
SendBroken(packet) ==
    /\ \A i \in 1..Len(wire) : ~wire[i].broken
    /\ Write([packet EXCEPT !.sequence = IF @ = 0 THEN NextSequence ELSE @])

\* HELLO once more.
SendAgain ==
    /\ wire # <<>>
    /\ \A i \in 1..Len(wire) : ~wire[i].broken
    /\ Write([wire[1] EXCEPT !.sequence = NextSequence, !.broken = TRUE])
-------------------------------------------------------------------------------
(* decode_payload: <<>> when it fails.                                         *)

decode_hello(p) ==
    IF p.provider \in {1, 2} /\ p.architecture \in {1, 2} /\ p.modules <= 16
    THEN <<[provider |-> p.provider]>> ELSE <<>>

dimensions(rows, cols) == rows \in 1..500 /\ cols \in 1..1000

decode_source_added(p) ==
    IF dimensions(p.rows, p.cols)
    THEN <<[source |-> p.source, rows |-> p.rows, cols |-> p.cols]>> ELSE <<>>

\* A mask is the set of its bits: owner, dimensions, focused, visible, title.
decode_source_updated(p) ==
    IF /\ p.mask \subseteq 0..4
       /\ 1 \in p.mask => dimensions(p.rows, p.cols)
       /\ 2 \in p.mask => p.focused \in {0, 1}
       /\ 3 \in p.mask => p.visible \in {0, 1}
    THEN <<[source |-> p.source,
            dimensions |-> IF 1 \in p.mask THEN <<p.rows, p.cols>> ELSE <<>>,
            focused |-> IF 2 \in p.mask THEN <<p.focused = 1>> ELSE <<>>,
            visible |-> IF 3 \in p.mask THEN <<p.visible = 1>> ELSE <<>>]>>
    ELSE <<>>

\* A row is told cell by cell, without a gap or an overlap, to its last column.
Column(row, i) == IF i = 1 THEN 0 ELSE row[i - 1].col + row[i - 1].columns
RowCovers(row, p) ==
    /\ Len(row) <= p.cols
    /\ \A i \in 1..Len(row) : /\ row[i].columns \in {1, 2}
                              /\ row[i].col = Column(row, i)
                              /\ row[i].style < Len(p.styles)
    /\ Column(row, Len(row) + 1) = p.cols

StylesKnown(p) ==
    /\ Len(p.styles) \in 1..MaxStyles
    /\ \A n \in 1..Len(p.styles) : /\ p.styles[n].flags \subseteq 0..6
                                   /\ p.styles[n].underline <= 5
    /\ IsInjective(p.links)
    /\ {p.styles[n].link : n \in 1..Len(p.styles)} \subseteq ToSet(p.links) \cup {NoLink}

CursorInside(p) ==
    /\ p.cursor # <<>> => p.cursor[1] < p.rows /\ p.cursor[2] < p.cols
    /\ p.cursor_style <= 6

decode_frame(p) ==
    IF /\ dimensions(p.rows, p.cols)
       /\ StylesKnown(p)
       /\ Len(p.cells) = p.rows /\ \A r \in 1..p.rows : RowCovers(p.cells[r], p)
       /\ CursorInside(p)
       /\ \A n \in 1..Len(p.images) : p.images[n].hex /\ p.images[n].extent
    THEN <<[cols |-> p.cols,
            rows |-> [r \in 1..p.rows |-> [i \in 1..Len(p.cells[r]) |->
                LET cell == p.cells[r][i]
                    style == p.styles[cell.style + 1]
                IN  [text |-> IF cell.text = "" THEN " " ELSE cell.text,
                     wide |-> cell.columns = 2,
                     look |-> style.look, link |-> style.link]]]]>>
    ELSE <<>>

decode_image(p) ==
    IF p.hex /\ p.matches /\ p.mime \in {"image/png", "image/jpeg", "image/gif",
                                         "image/webp"}
    THEN <<[mime |-> p.mime]>> ELSE <<>>

decode_diagnostic(p) ==
    IF p.present \in {0, 1} THEN <<[code |-> p.code]>> ELSE <<>>

\* The Reader finds every field and, at the end, nothing after them.
Whole(p) == ~p.missing /\ ~p.left

decode_payload(kind, p) ==
    CASE ~Whole(p) -> <<>>
      [] kind \in Commands -> <<>>
      [] kind = "hello" -> decode_hello(p)
      [] kind = "source_added" -> decode_source_added(p)
      [] kind = "source_updated" -> decode_source_updated(p)
      [] kind = "source_removed" -> <<[source |-> p.source]>>
      [] kind = "frame" -> decode_frame(p)
      [] kind = "image" -> decode_image(p)
      [] kind = "diagnostic" -> decode_diagnostic(p)
-------------------------------------------------------------------------------
(* Decoder::push.                                                              *)

EnvelopeKnown(packet) ==
    /\ packet.magic /\ packet.version = 1
    /\ packet.kind \in Kinds \cup Commands
    /\ packet.units <= MaxPayload

\* Defect: neither the nonce nor the sequence is compared.
InOrderByKind(d, packet) == packet.kind = "hello" <=> ~d.saw_hello

InOrder(d, packet) ==
    /\ d.saw_hello => packet.nonce = d.nonce /\ packet.sequence > d.sequence
    /\ packet.kind = "hello" <=> ~d.saw_hello

DecoderStates == [next : Nat \ {0}, nonce : Nat, sequence : Nat, saw_hello : BOOLEAN]
LoopStates == [decoder : DecoderStates, out : Seq(Nat), failed : BOOLEAN]

\* The loop breaks: what is left of the units is no whole packet.
Settled(units, n) ==
    \/ n > Len(wire)
    \/ units < End(n - 1) + EnvelopeLen
    \/ EnvelopeKnown(wire[n]) /\ units < End(n)

Accepted(d, packet) ==
    /\ EnvelopeKnown(packet) /\ InOrder(d, packet)
    /\ decode_payload(packet.kind, packet.payload) # <<>>

Turn(units) ==
    [s \in LoopStates |->
        LET n == s.decoder.next
        IN  IF s.failed \/ Settled(units, n) THEN s
            ELSE IF ~Accepted(s.decoder, wire[n]) THEN [s EXCEPT !.failed = TRUE]
            ELSE [decoder |-> [next |-> n + 1, nonce |-> wire[n].nonce,
                               sequence |-> wire[n].sequence, saw_hello |-> TRUE],
                  out |-> Append(s.out, n), failed |-> FALSE]]

\* What one push returns, and the decoder it leaves.  A turn takes a packet or is
\* the last: as many turns as there are packets, and further ones change nothing.
Drained(units) ==
    LET run[n \in Nat] ==
            IF n = 0 THEN [decoder |-> decoder, out |-> <<>>, failed |-> FALSE]
            ELSE Turn(units)[run[n - 1]]
    IN  run[Len(wire)]

\* Defect: the envelope is not counted.
OverfullByPayload(units) == units - End(decoder.next - 1) > MaxPayload

\* A chunk that would not fit the buffer, whatever packets it would complete.
Overfull(units) == units - End(decoder.next - 1) > MaxPayload + EnvelopeLen

Message(n) ==
    [packet |-> n, message |-> decode_payload(wire[n].kind, wire[n].payload)[1]]

\* A read returns what there is, up to ReadSize; an error drops the packets the
\* same push had cut out already.
Push(count) ==
    /\ ~refused
    /\ received + count <= End(Len(wire))
    /\ LET units == received + count
           result == Drained(units)
           failed == Overfull(units) \/ result.failed
       IN  /\ received' = units
           /\ refused' = failed
           /\ decoder' = IF failed THEN decoder ELSE result.decoder
           /\ delivered' = IF failed THEN delivered
                           ELSE delivered \o [i \in 1..Len(result.out) |->
                                                 Message(result.out[i])]
    /\ UNCHANGED <<matrix, paints, wire>>

Adapter ==
    \/ \E line \in Lines : Paint(line)
    \/ SendHello
    \/ \E answers \in BOOLEAN : SendFrame(answers)
    \/ SendImage
    \/ SendAgain
    \/ \E packet \in BrokenPackets : SendBroken(packet)

Next == Adapter \/ \E count \in 1..ReadSize : Push(count)

Spec == Init /\ [][Next]_vars

\* Every packet of BrokenPackets breaks a rule of the decoder's.
ASSUME BrokenAssumption ==
    \A p \in BrokenPackets :
        /\ DOMAIN p = PacketFields /\ p.broken /\ p.drawn = <<>>
        /\ {p.units, p.nonce, p.sequence} \subseteq Nat
        /\ \/ ~EnvelopeKnown(p)
           \/ decode_payload(p.kind, p.payload) = <<>>
           \/ p.kind # "hello" /\ (p.nonce # 1 \/ p.sequence = 1)
-------------------------------------------------------------------------------
(* Properties.                                                                 *)

\* What the broker is given is the packets in the order they were written, from
\* one HELLO on, under one nonce; nothing that was broken is among them.
DeliveredInOrder ==
    \A i \in 1..Len(delivered) :
        /\ delivered[i].packet = i
        /\ ~wire[i].broken
        /\ wire[i].kind = "hello" <=> i = 1
        /\ wire[i].nonce = wire[1].nonce

\* However a stream is cut into reads, the connection of an adapter that keeps
\* to the protocol ends only over a payload that leaves the buffer no room for
\* one read: the chunk is refused though it completes the packet.
RefusalIsDeserved ==
    refused => \E i \in 1..Len(wire) :
                   \/ wire[i].broken
                   \/ wire[i].units + ReadSize > MaxPayload + 1

\* Nothing complete stays in the buffer: the last packet of a burst is not held
\* back until another one arrives.
NothingHeldBack ==
    ~refused => decoder.next > Len(wire) \/ received < End(decoder.next)

\* However the pipe cuts and joins the packets, none is lost, repeated, held back
\* or let through against the rules.
PacketsArrive == DeliveredInOrder /\ NothingHeldBack

RowGlyphs(row) ==
    LET at[i \in 1..Len(row)] ==
            IF i = 1 THEN 0 ELSE at[i - 1] + (IF row[i - 1].wide THEN 2 ELSE 1)
    IN  {[at |-> at[i], text |-> row[i].text, wide |-> row[i].wide,
          look |-> row[i].look] : i \in 1..Len(row)}
MatrixGlyphs(m) ==
    {[at |-> c - 1, text |-> IF m[c].text = "" THEN " " ELSE m[c].text,
      wide |-> m[c].width = 2, look |-> m[c].style] : c \in GlyphColumns(m)}

\* Viewers see every glyph of the adapter's matrix at its own column, with its
\* own style as long as the style table holds them all.
MatrixArrives ==
    \A i \in 1..Len(delivered) :
        wire[i].drawn # <<>> =>
            LET there == MatrixGlyphs(wire[i].drawn)
                here == RowGlyphs(delivered[i].message.rows[1])
                Plain(glyphs) == {[at |-> g.at, text |-> g.text, wide |-> g.wide] :
                                  g \in glyphs}
            IN  /\ Plain(here) = Plain(there)
                /\ Cardinality({g.look : g \in there}) <= MaxStyles => here = there
=============================================================================
