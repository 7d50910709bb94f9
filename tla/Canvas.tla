-------------------------------- MODULE Canvas --------------------------------
(* The character canvas of the reconstruction and the ways to draw on it.  A   *)
(* slot is empty, holds a glyph, or is the continuation of the wide glyph to its left. *)
(* A canvas is a record of its size and its slots; colours are left out.       *)
EXTENDS TextFlow

Empty == ""
Continuation == "<"
Mark == "-"         \* the glyphs of borders and separators

ASSUME CanvasAssumption ==
    Empty \notin Glyphs /\ Continuation \notin Glyphs /\ Mark \in Glyphs \ Wide

NoCells == [x |-> 0, y |-> 0, width |-> 0, height |-> 0]

Blank(cols, rows) ==
    [cols |-> cols, rows |-> rows,
     at |-> [p \in (0..cols - 1) \X (0..rows - 1) |-> Empty]]
Has(cv, x, y) == x \in 0..cv.cols - 1 /\ y \in 0..cv.rows - 1
IsFree(cv, x, y) == cv.at[<<x, y>>] = Empty
Right(rect) == rect.x + rect.width
Bottom(rect) == rect.y + rect.height
Middle(rect) == rect.y + (rect.height - 1) \div 2

clear_footprint(cv, x, y) ==
    IF ~Has(cv, x, y) THEN cv
    ELSE LET slot == cv.at[<<x, y>>]
             gone == {<<x, y>>} \cup (IF slot = Continuation THEN {<<x - 1, y>>} ELSE {})
                                \cup (IF slot \in Wide THEN {<<x + 1, y>>} ELSE {})
         IN  [cv EXCEPT !.at = [p \in DOMAIN @ |-> IF p \in gone THEN Empty ELSE @[p]]]

\* Defect: the slot a wide glyph extends into is not cleared first.
PutOverTail(cv, x, y, glyph) ==
    LET cleared == clear_footprint(cv, x, y)
    IN  [cleared EXCEPT !.at[<<x, y>>] = glyph,
                        !.at[<<x + Width(glyph) - 1, y>>] =
                            IF glyph \in Wide THEN Continuation ELSE glyph]

Extend(cv, x, y) == [clear_footprint(cv, x, y) EXCEPT !.at[<<x, y>>] = Continuation]
Put(cv, x, y, glyph) ==
    LET one == [clear_footprint(cv, x, y) EXCEPT !.at[<<x, y>>] = glyph]
    IN  IF glyph \in Wide THEN Extend(one, x + 1, y) ELSE one

DrawText(cv, x, y, width, text) ==
    LET Place(acc, glyph) ==
            IF acc.full \/ acc.column + Width(glyph) > Min({x + width, cv.cols})
            THEN [acc EXCEPT !.full = TRUE]
            ELSE [cv |-> Put(acc.cv, acc.column, y, glyph),
                  column |-> acc.column + Width(glyph), full |-> FALSE]
    IN  IF y >= cv.rows \/ x >= cv.cols \/ width = 0 THEN cv
        ELSE FoldLeft(Place, [cv |-> cv, column |-> x, full |-> FALSE], Clean(text)).cv

\* Defect: the search leaves no room for the blank that follows the label.
RoomForLabel(cv, x, y, right, size) ==
    {s \in x..right - 1 :
        y < cv.rows /\ \A c \in s..Min({s + size, right}) - 1 : IsFree(cv, c, y)}

\* Columns from which a label and the blank after it meet nothing drawn before.
Room(cv, x, y, right, size) ==
    {s \in x..right - 1 :
        y < cv.rows /\ \A c \in s..Min({s + size + 1, right}) - 1 : IsFree(cv, c, y)}
LabelAndBlank(cv, x, y, right, label) ==
    LET drawn == DrawText(cv, x, y, WidthOf(label), label)
    IN  IF x + WidthOf(label) >= right THEN drawn
        ELSE DrawText(drawn, x + WidthOf(label), y, 1, <<Space>>)
FlowFrom(cv, room, y, right, text, size) ==
    IF room = {} THEN cv
    ELSE LabelAndBlank(cv, Min(room), y, right,
                       Elide(text, IF size <= right - Min(room) THEN right - Min(room)
                                   ELSE right - Min(room) - 1))
FlowInto(cv, x, y, right, text, size) ==
    FlowFrom(cv, Room(cv, x, y, right, size), y, right, text, size)
flow_text_bounded(cv, x, y, bound, text) ==
    FlowInto(cv, x, y, Min({bound, cv.cols}), text, WidthOf(text))

decoration(cv, places) ==
    [cv EXCEPT !.at = [p \in DOMAIN @ |->
                          IF p \in places /\ @[p] = Empty THEN Mark ELSE @[p]]]
horizontal(cv, x, y, width) == decoration(cv, (x..x + width - 1) \X {y})
border(cv, rect) ==
    LET right == Right(rect) - 1  bottom == Bottom(rect) - 1
    IN  IF rect.width < 2 \/ rect.height < 2 THEN cv
        ELSE decoration(cv, ((rect.x..right) \X {rect.y, bottom})
                            \cup ({rect.x, right} \X (rect.y..bottom)))

InlineLabel(cv, rect, y, label, gutter) ==
    LET width == rect.width - gutter
        drawn == DrawText(cv, rect.x, y, width, Elide(label, width))
    IN  IF gutter = 0 THEN drawn ELSE clear_footprint(drawn, Right(rect) - 1, y)
draw_inline_label(cv, rect, label, trailing) ==
    InlineLabel(cv, rect, Middle(rect), label, IF trailing /\ rect.width > 1 THEN 1 ELSE 0)

IsBox(rect) == rect.width >= 4 /\ rect.height >= 3
Framed(cv, rect, y, label) ==
    DrawText(border(cv, rect), rect.x + 1, y, rect.width - 2, Elide(label, rect.width - 2))
draw_labeled_box(cv, rect, label) ==
    IF IsBox(rect) THEN Framed(cv, rect, Middle(rect), label)
    ELSE draw_inline_label(cv, rect, label, TRUE)
draw_titled_border(cv, rect, label) ==
    LET width == Max({rect.width - 2, 0})
    IN  DrawText(border(cv, rect), rect.x + 1, rect.y, width, Elide(label, width))
draw_intrinsic_label(cv, rect, label) ==
    DrawText(cv, rect.x, Middle(rect),
             Min({Max({WidthOf(label), rect.width}), Max({cv.cols - rect.x, 0})}), label)

\* Lines are drawn from the top of a rectangle down.
Numbers(lines) == [k \in DOMAIN lines |-> k]
draw_flow_text(cv, rect, text) ==
    LET lines == WrapFlowText(text, rect.width, rect.height)
        Draw(c, k) == flow_text_bounded(c, rect.x, rect.y + k - 1, Right(rect), lines[k])
    IN  FoldLeft(Draw, cv, Numbers(lines))

TrimEnd(line) == SubSeq(line, 1, Max({0} \cup {n \in DOMAIN line : line[n] # Space}))
Joined(parts) ==
    Together([n \in DOMAIN parts |->
                 (IF n = 1 THEN <<>> ELSE <<Newline>>) \o TrimEnd(parts[n])])
Unpadded(text) == Joined(Split(text, Newline))
Slice(lines, start, size) == SubSeq(lines, start + 1, Min({start + size, Len(lines)}))
\* scroll is how far down the text is scrolled, in halves.
DrawLines(cv, rect, lines, scroll) ==
    LET above == (Max({Len(lines) - rect.height, 0}) * scroll + 1) \div 2
        seen == Slice(lines, above, rect.height)
        Draw(c, k) == DrawText(c, rect.x, rect.y + k - 1, rect.width, seen[k])
    IN  FoldLeft(Draw, cv, Numbers(seen))
draw_multiline_text(cv, rect, text, scroll) ==
    DrawLines(cv, rect, WrapText(Unpadded(text), rect.width, Len(text) + 1), scroll)
Inside(rect) == [x |-> rect.x + 1, y |-> rect.y + 1,
                 width |-> rect.width - 2, height |-> rect.height - 2]
draw_text_area(cv, rect, text, scroll) ==
    draw_multiline_text(IF IsBox(rect) THEN border(cv, rect) ELSE cv,
                        IF IsBox(rect) THEN Inside(rect) ELSE rect, text, scroll)

RowOf(cv, y) == [x \in 1..cv.cols |-> cv.at[<<x - 1, y - 1>>]]
into_rows(cv) ==
    [y \in 1..cv.rows |->
        Chosen(RowOf(cv, y), {x \in 1..cv.cols : RowOf(cv, y)[x] # Continuation})]
=============================================================================
