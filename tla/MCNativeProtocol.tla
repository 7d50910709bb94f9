--------------------------- MODULE MCNativeProtocol ---------------------------
(* The instance of NativeProtocol for TLC: three styles of which a frame holds *)
(* two, and one packet for each way to break the protocol.                     *)
EXTENDS NativeProtocol

MCClusters == {[text |-> "a", width |-> 1, style |-> 1],
               [text |-> "b", width |-> 2, style |-> 2],
               [text |-> "", width |-> 1, style |-> 3]}
MCLink == <<0, 7, 0>>

Nothing == [missing |-> FALSE, left |-> FALSE]
Hello == [missing |-> FALSE, left |-> FALSE, provider |-> 1, architecture |-> 1,
          modules |-> 1]
Added == [missing |-> FALSE, left |-> FALSE, source |-> 1, rows |-> 1, cols |-> 3]
Updated == [missing |-> FALSE, left |-> FALSE, source |-> 1, mask |-> 0..4,
            rows |-> 1, cols |-> 3, focused |-> 1, visible |-> 1]
Image == [missing |-> FALSE, left |-> FALSE, hex |-> TRUE, mime |-> "image/png",
          matches |-> TRUE]
Diagnostic == [missing |-> FALSE, left |-> FALSE, present |-> 1, code |-> 202]
GlyphCell(col, columns, style) ==
    [col |-> col, columns |-> columns, style |-> style, text |-> "a"]
Frame == [missing |-> FALSE, left |-> FALSE, rows |-> 1, cols |-> 3,
          styles |-> <<[flags |-> {}, underline |-> 0, look |-> 1, link |-> 7]>>,
          links |-> <<7>>,
          cells |-> <<<<GlyphCell(0, 2, 0), GlyphCell(2, 1, 0)>>>>,
          cursor |-> <<0, 2>>, cursor_style |-> 6,
          images |-> <<[hex |-> TRUE, extent |-> TRUE]>>]

BrokenFrames ==
    {[Frame EXCEPT !.rows = 0], [Frame EXCEPT !.cols = 1001],
     [Frame EXCEPT !.styles = <<>>], [Frame EXCEPT !.styles[1].flags = {7}],
     [Frame EXCEPT !.styles[1].underline = 6],
     [Frame EXCEPT !.links = <<>>], [Frame EXCEPT !.links = <<7, 7>>],
     [Frame EXCEPT !.cells = <<<<GlyphCell(0, 2, 0)>>>>],
     [Frame EXCEPT !.cells = <<<<GlyphCell(0, 2, 0), GlyphCell(2, 2, 0)>>>>],
     [Frame EXCEPT !.cells = <<<<GlyphCell(0, 2, 0), GlyphCell(1, 1, 0)>>>>],
     [Frame EXCEPT !.cells = <<<<GlyphCell(0, 3, 0)>>>>],
     [Frame EXCEPT !.cells[1][2].style = 1],
     [Frame EXCEPT !.cursor = <<0, 3>>], [Frame EXCEPT !.cursor_style = 7],
     [Frame EXCEPT !.images[1].hex = FALSE], [Frame EXCEPT !.images[1].extent = FALSE]}

Broken(kind, payload) ==
    [Envelope(kind, 1, 0, 1, payload, <<>>) EXCEPT !.broken = TRUE]

MCBrokenPackets ==
    {[Broken("diagnostic", Diagnostic) EXCEPT !.magic = FALSE],
     [Broken("diagnostic", Diagnostic) EXCEPT !.version = 99],
     [Broken("diagnostic", Diagnostic) EXCEPT !.units = MaxPayload + 1],
     [Broken("diagnostic", Diagnostic) EXCEPT !.nonce = 2],
     [Broken("diagnostic", Diagnostic) EXCEPT !.sequence = 1],
     Broken("unknown", Nothing), Broken("subscribe", Nothing),
     Broken("diagnostic", [Diagnostic EXCEPT !.missing = TRUE]),
     Broken("diagnostic", [Diagnostic EXCEPT !.left = TRUE]),
     Broken("diagnostic", [Diagnostic EXCEPT !.present = 2]),
     Broken("hello", [Hello EXCEPT !.provider = 3]),
     Broken("hello", [Hello EXCEPT !.modules = 17]),
     Broken("source_added", [Added EXCEPT !.rows = 501]),
     Broken("source_updated", [Updated EXCEPT !.mask = {5}]),
     Broken("source_updated", [Updated EXCEPT !.cols = 0]),
     Broken("source_updated", [Updated EXCEPT !.focused = 2]),
     Broken("source_removed", [missing |-> TRUE, left |-> FALSE, source |-> 1]),
     Broken("image", [Image EXCEPT !.mime = "image/svg"]),
     Broken("image", [Image EXCEPT !.matches = FALSE])}
    \cup {Broken("frame", frame) : frame \in BrokenFrames}

\* What is painted makes no difference to what is wrong with another packet.
BrokenOrPainted == paints = 0 \/ \A i \in 1..Len(wire) : ~wire[i].broken
=============================================================================
