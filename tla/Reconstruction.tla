---------------------------- MODULE Reconstruction ----------------------------
(* A window's accessibility tree becomes a frame of text: the tree is captured *)
(* within its limits, its nodes are drawn one after another on a canvas, and a *)
(* window that shows nothing in its place is listed as a tree instead.         *)
(* A node has one text, the first of its value, name and description.  Roles   *)
(* that are drawn alike are one role.  The windows have no link with children, *)
(* no list item with several and no tree item with a status letter; no button  *)
(* of 64 pixels, no group of that height around a field and no group so large  *)
(* that it is said to be unexposed; no group of cells or of tree items in a    *)
(* list, no group with a list among links; and no names that mark a scroll     *)
(* bar, a title bar or a group as such.                                        *)
EXTENDS Layout

CONSTANTS
    Cases,          \* the trees (nodes in document order, each with its depth), each
                    \* with the rows of a viewer
    Cols,           \* the columns of the viewers
    MaxDepth, MaxNodes

Bullet == "*"
Message == <<"n", "o", "t", Space, "e", "x", "p", "o", "s", "e", "d">>

Rects == [x : Int, y : Int, width : Nat, height : Nat]
Nodes == [depth : Nat, role : STRING, placed : BOOLEAN, bounds : Rects, visible : BOOLEAN,
          focused : BOOLEAN, label : Seq(Glyphs), scroll : 0..2]
\* Nodes in document order: the root, and what is below it.
OneRoot(nodes) ==
    nodes \in Seq(Nodes) /\ nodes # <<>> /\ \A i \in DOMAIN nodes : nodes[i].depth = 0 <=> i = 1

ASSUME ReconstructionAssumption ==
    /\ Cols \in Nat \ {0}
    /\ MaxDepth \in Nat /\ MaxNodes \in Nat \ {0}
    /\ \A c \in Cases : OneRoot(c[1]) /\ c[2] \in Nat \ {0}
    /\ {Bullet, "[", "x", "]", "n", "o", "t", "e", "p", "s", "d"} \subseteq Glyphs

VARIABLES
    window,         \* what the application exposes
    height,         \* rows of the viewer
    phase,          \* "capture", "draw", "tree" or "done"
    kept, truncated,\* the snapshot
    canvas,
    todo,           \* what is left to draw: nodes to visit, entries with their place
    positioned,     \* nodes drawn so far
    frame

snapshot == <<kept, truncated>>
vars == <<window, height, phase, kept, truncated, canvas, todo, positioned, frame>>

NoFrame == [kind |-> "none", rows |-> <<>>, first |-> 0, last |-> 0]

\* Defect: a hidden child ends the loop over its siblings.
CaptureUntilHidden(acc, node) ==
    IF node.depth > Min({acc.under, MaxDepth}) THEN acc
    ELSE IF node.depth > 0 /\ ~node.visible THEN [acc EXCEPT !.under = node.depth - 1]
    ELSE IF Len(acc.kept) >= MaxNodes
         THEN [acc EXCEPT !.truncated = TRUE, !.under = node.depth - 1]
    ELSE [acc EXCEPT !.kept = Append(@, node), !.under = MaxDepth]

\* Nodes deeper than "under" belong to a subtree that is passed over.
capture_node(acc, node) ==
    IF node.depth > Min({acc.under, MaxDepth}) THEN acc
    ELSE IF node.depth > 0 /\ ~node.visible THEN [acc EXCEPT !.under = node.depth]
    ELSE IF Len(acc.kept) >= MaxNodes
         THEN [acc EXCEPT !.truncated = TRUE, !.under = node.depth - 1]
    ELSE [acc EXCEPT !.kept = Append(@, node), !.under = MaxDepth]
Snapshot == FoldLeft(capture_node,
                     [kept |-> <<>>, truncated |-> FALSE, under |-> MaxDepth], window)

Subtree(i) == {j \in i + 1..Len(kept) : \A k \in i + 1..j : kept[k].depth > kept[i].depth}
Children(i) == {j \in Subtree(i) : kept[j].depth = kept[i].depth + 1}
Kids(i) == InOrder(Children(i))
IsLeaf(i) == Subtree(i) = {}
Root == kept[1]
fit_window == Root.role = "Window"
Project(bounds) == project_clipped_bounds(bounds, Root.bounds, fit_window, canvas)

InColumn(places) ==
    /\ Len(places) >= 2
    /\ \A n \in DOMAIN places : places[n].x - places[1].x \in -2..2
    /\ \A n \in 1..Len(places) - 1 : places[n + 1].y + 2 >= Bottom(places[n])
PlacesOf(nodes) == [n \in DOMAIN nodes |-> kept[nodes[n]].bounds]
Stacked(i) == InColumn(PlacesOf(InOrder({k \in Children(i) : kept[k].placed})))
Flows(i) ==
    /\ kept[i].role \in {"Group", "StaticText"} /\ ~IsLeaf(i)
    /\ \A j \in Subtree(i) : /\ kept[j].role \in {"StaticText", "Link", "Group"}
                             /\ IsLeaf(j) => NonEmpty(kept[j].label)
    /\ ~Stacked(i)
inline_flow_text(i) ==
    LET leaves == InOrder({j \in Subtree(i) : IsLeaf(j)})
    IN  Together([n \in DOMAIN leaves |-> kept[leaves[n]].label])

BulletLines(i) ==
    LET lines == Filled(Lines(kept[i].label)) IN [n \in DOMAIN lines |-> Trim(lines[n])]
IsBullet(i) ==
    /\ kept[i].role = "ListItem" /\ NonEmpty(kept[i].label)
    /\ \/ Len(BulletLines(i)) >= 2
       \/ Head(kept[i].label) = Bullet
       \/ \E j \in Children(i) :
              kept[j].role = "StaticText" /\ Words(kept[j].label) = << <<Bullet>> >>
Unmarked(line) == IF line # <<>> /\ Head(line) = Bullet THEN Trim(Tail(line)) ELSE line
Bulleted(lines) ==
    Together([n \in DOMAIN lines |->
                 IF n > 1 THEN <<Newline, Space, Space, Bullet, Space>> \o lines[n]
                 ELSE <<Bullet, Space>>
                      \o (IF Len(lines) = 1 THEN Unmarked(lines[1]) ELSE lines[1])])
bullet_list_label(i) == Bulleted(BulletLines(i))

OnlyBars(i) == ~IsLeaf(i) /\ \A j \in Children(i) : kept[j].role = "ScrollBar"
AlwaysShown == {"CheckBox", "TextField", "TextArea", "Dialog", "TableCell", "Separator", "Link",
                "ProgressBar"}
ShownWhenNamed == {"Button", "ListItem", "TreeItem", "MenuItem", "Tab", "StaticText", "Heading"}
ShownWhenAlone == {"Group", "List", "Table", "Toolbar"}
Shows(i) ==
    \/ kept[i].role \in AlwaysShown
    \/ kept[i].role \in ShownWhenNamed /\ NonEmpty(kept[i].label)
    \/ kept[i].role \in ShownWhenAlone /\ IsLeaf(i) /\ NonEmpty(kept[i].label)
    \/ kept[i].role = "Group" /\ OnlyBars(i)
    \/ Flows(i)

Owners == {"TreeItem", "Button", "CheckBox", "TextField", "TextArea", "Link", "MenuItem",
           "StaticText", "Heading", "ProgressBar"}
owns_descendant_text(i) ==
    \/ kept[i].role \in Owners
    \/ kept[i].role = "Group" /\ Flows(i)
    \/ /\ kept[i].role = "ListItem"
       /\ \/ IsBullet(i)
          \/ Len(Kids(i)) = 1 /\ kept[Head(Kids(i))].role \in {"Link", "StaticText"}

IsMultiline(text) == \E k \in DOMAIN text : text[k] = Newline
\* The text a node flows into its rectangle, if it is drawn so.
FlowsWrapped(i) == IsBullet(i) \/ Flows(i)
WrappedText(i) == IF IsBullet(i) THEN bullet_list_label(i) ELSE inline_flow_text(i)
\* Roles whose label is put in line with the controls around it.
FlowsInLine(i, rect, label) ==
    \/ kept[i].role \in {"MenuItem", "StaticText"}
    \/ kept[i].role = "ListItem" /\ WidthOf(label) > rect.width /\ WidthOf(label) <= 12
FlowBound(i, rect) == IF kept[i].role = "StaticText" THEN Right(rect) ELSE canvas.cols
IsArea(i) == \/ kept[i].role = "TextArea"
             \/ kept[i].role = "TextField" /\ IsMultiline(kept[i].label)
DrawTreeItem(cv, rect, label) ==
    DrawText(cv, rect.x, Middle(rect), rect.width,
             Elide(<<Space, Space>> \o label, Max({rect.width - 1, 1})))
\* What draw_spatial_control draws of a node that shows something.
draw_spatial_control(cv, rect, i, role, label) ==
    IF IsArea(i) THEN draw_text_area(cv, rect, label, kept[i].scroll)
    ELSE IF FlowsWrapped(i) THEN draw_flow_text(cv, rect, WrappedText(i))
    ELSE IF role = "StaticText" /\ IsMultiline(label)
         THEN draw_multiline_text(cv, rect, label, kept[i].scroll)
    ELSE IF FlowsInLine(i, rect, label)
         THEN flow_text_bounded(cv, rect.x, Middle(rect), FlowBound(i, rect), label)
    ELSE CASE role \in {"TextField", "Button"} -> draw_labeled_box(cv, rect, label)
           [] role = "CheckBox" ->
                 draw_intrinsic_label(cv, rect, <<"[", "x", "]", Space>> \o label)
           [] role = "Dialog" -> draw_titled_border(cv, rect, label)
           [] role = "TableCell" /\ IsBox(rect) -> Framed(cv, rect, Middle(rect), label)
           [] role = "Separator" -> horizontal(cv, rect.x, Middle(rect), rect.width)
           [] role = "ProgressBar" ->
                 DrawText(cv, rect.x, Middle(rect), rect.width, [k \in 1..rect.width |-> Mark])
           [] role = "TreeItem" -> DrawTreeItem(cv, rect, label)
           [] role = "Group" /\ OnlyBars(i) ->
                 DrawText(cv, rect.x, rect.y, rect.width, Message)
           [] OTHER -> draw_inline_label(cv, rect, label,
                                         role \in {"TableCell", "Link", "Tab", "Group"})

Shown(rect, i) ==
    draw_spatial_control(canvas, rect, i, kept[i].role,
                         IF NonEmpty(kept[i].label) THEN kept[i].label ELSE <<>>)

is_collection_chrome(i) == kept[i].role = "ScrollBar"
Entries(i) == {k \in Children(i) : ~is_collection_chrome(k)}
PlacedEntries(i) == {k \in Entries(i) : kept[k].placed}
FirstRow(entries) ==
    {k \in entries : \A j \in entries : kept[k].bounds.y <= kept[j].bounds.y}
infer_grid_columns(i) ==
    InOrder({kept[k].bounds.x : k \in FirstRow(PlacedEntries(i))})
ColumnOf(columns, x) == Max({1} \cup {c \in DOMAIN columns : columns[c] <= x})

Visit(i) == [act |-> "visit", node |-> i, rect |-> NoCells]
Visits(nodes) == [n \in DOMAIN nodes |-> Visit(nodes[n])]
NoItems == [cursor |-> NoRow, items |-> <<>>]
Item(act, i, rect) == [act |-> act, node |-> i, rect |-> rect]

SourceWidths(columns, right) ==
    [c \in DOMAIN columns |->
        Max({(IF c = Len(columns) THEN right ELSE columns[c + 1]) - columns[c], 1})]
TablePreferred(bounds, columns, rect) ==
    LET source == SourceWidths(columns, Right(bounds))
    IN  [c \in DOMAIN columns |-> Max({(source[c] * rect.width) \div bounds.width, 1})]
\* The width that three quarters of the entries do not exceed.
Percentile(width) ==
    LET entries == DOMAIN width
        Within(w) == Cardinality({k \in entries : width[k] <= w})
    IN  IF entries = {} THEN 0
        ELSE Min({w \in Range(width) : Within(w) > ((Cardinality(entries) - 1) * 3) \div 4})
LabelWidth(k) == IF NonEmpty(kept[k].label) THEN WidthOf(kept[k].label) ELSE 0
InTableColumn(i, columns, c) ==
    {k \in PlacedEntries(i) : ColumnOf(columns, kept[k].bounds.x) = c}
TableMinimum(i, columns) ==
    [c \in DOMAIN columns |->
        Percentile([k \in InTableColumn(i, columns, c) |-> LabelWidth(k)]) + 1]
TableWidths(i, columns, rect) ==
    allocate_table_widths(TablePreferred(kept[i].bounds, columns, rect),
                          TableMinimum(i, columns), rect.width)

CellRect(start, width, row, indent) ==
    [x |-> start + indent, y |-> row, width |-> width - indent, height |-> 1]
IndentOf(shift, rect, bounds, width) ==
    Min({(Max({shift, 0}) * rect.width) \div bounds.width, width - 1})
TableCell(k, c, columns, rect, bounds, widths, row) ==
    Item("cell", k,
         CellRect(rect.x + SumOf(SubSeq(widths, 1, c - 1)), widths[c], row,
                  IndentOf(kept[k].bounds.x - columns[c], rect, bounds, widths[c])))
TableRows(i, rect, columns, widths) ==
    LET Desired(place) == IF place = NoCells THEN rect.y ELSE place.y
        Add(items, k, row) ==
            IF row >= Min({Bottom(rect), canvas.rows}) THEN items
            ELSE Append(items, TableCell(k, ColumnOf(columns, kept[k].bounds.x), columns, rect,
                                         kept[i].bounds, widths, row))
        Entry(acc, k, cursor) == [cursor |-> cursor, items |-> Add(acc.items, k, cursor.output)]
    IN  FoldLeft(LAMBDA acc, k :
                     Entry(acc, k, NextRow(acc.cursor, kept[k].bounds,
                                           Desired(Project(kept[k].bounds)))),
                 NoItems, InOrder(PlacedEntries(i))).items
TableAt(i, rect, columns) ==
    IF rect = NoCells THEN <<>> ELSE TableRows(i, rect, columns, TableWidths(i, columns, rect))
TableItems(i) == TableAt(i, Project(kept[i].bounds), infer_grid_columns(i))

\* The place of a list's entry on the row it gets: its projection, the rows its
\* text takes, or what is free beside it.
Wrapped(k, rect, rows) ==
    [rect EXCEPT !.height = Max({@, Len(WrapFlowText(bullet_list_label(k), rect.width, rows)), 1})]
WidenTreeItem(rect, wanted, room) ==
    LET borrow == Min({Max({wanted - rect.width, 0}), Max({room, 0})})
    IN  [rect EXCEPT !.x = @ - borrow, !.width = @ + borrow]
IsAlone(i, k) == \A j \in Children(i) :
                     kept[j].placed /\ kept[j].bounds.y = kept[k].bounds.y => j = k
Widened(rect, right) == [rect EXCEPT !.height = 1, !.width = Max({@, right - rect.x})]
RowRect(i, k, rect, whole) ==
    IF IsBullet(k) THEN Wrapped(k, rect, Min({Bottom(whole), canvas.rows}) - rect.y)
    ELSE IF kept[k].role = "TreeItem"
         THEN WidenTreeItem(Widened(rect, Right(whole)), LabelWidth(k) + 3, rect.x - whole.x)
    ELSE IF kept[k].role = "ListItem" /\ IsAlone(i, k) THEN Widened(rect, Right(whole))
    ELSE [rect EXCEPT !.height = 1]

\* Defect: the cursor stays on the first row of an entry that took several.
FirstRowOnly(cursor, rect) == [cursor EXCEPT !.output = rect.y]

PastEntry(cursor, rect) == [cursor EXCEPT !.output = rect.y + rect.height - 1]

OnRow(place, row, right) == [place EXCEPT !.y = row, !.width = Min({@, right - place.x})]
AddRow(acc, cursor, k, rect) ==
    [cursor |-> PastEntry(cursor, rect), items |-> Append(acc.items, Item("row", k, rect))]
CollectionRow(acc, i, k, place, cursor, whole) ==
    IF cursor.output >= Min({Bottom(whole), canvas.rows}) THEN [acc EXCEPT !.cursor = cursor]
    ELSE AddRow(acc, cursor, k,
                RowRect(i, k, OnRow(place, cursor.output, Right(whole)), whole))
CollectionEntry(acc, i, k, place, whole) ==
    IF ~kept[k].placed THEN [acc EXCEPT !.items = Append(@, Visit(k))]
    ELSE IF \/ kept[i].placed /\ kept[k].bounds.x >= Right(kept[i].bounds)
            \/ place = NoCells \/ place.x >= Right(whole) THEN acc
    ELSE CollectionRow(acc, i, k, place, NextRow(acc.cursor, kept[k].bounds, place.y), whole)
Whole(own) == IF own # NoCells THEN own
              ELSE [x |-> 0, y |-> 0, width |-> canvas.cols, height |-> canvas.rows]
CollectionIn(i, whole) ==
    FoldLeft(LAMBDA acc, k : CollectionEntry(acc, i, k, Project(kept[k].bounds), whole),
             NoItems, InOrder(Entries(i))).items
CollectionItems(i) ==
    CollectionIn(i, Whole(IF kept[i].placed THEN Project(kept[i].bounds) ELSE NoCells))

HasGrid(i, columns) ==
    /\ kept[i].placed /\ columns # <<>>
    /\ \/ kept[i].role = "Table"
       \/ /\ kept[i].role = "List" /\ Len(columns) >= 2
          /\ \A k \in Children(i) : kept[k].role # "TreeItem"
IsTable(i) == HasGrid(i, infer_grid_columns(i))
IsOutside(i) == kept[i].placed /\ Project(kept[i].bounds) = NoCells

Below(i) == IF IsTable(i) THEN TableItems(i)
            ELSE IF kept[i].role = "Table" /\ IsOutside(i) THEN <<>>
            ELSE IF kept[i].role \in {"List", "Table"} THEN CollectionItems(i)
            ELSE Visits(Kids(i))

Init ==
    /\ \E c \in Cases : window = c[1] /\ height = c[2]
    /\ phase = "capture" /\ kept = <<>> /\ truncated = FALSE
    /\ canvas = Blank(Cols, 0) /\ todo = <<>> /\ positioned = 0
    /\ frame = NoFrame

HasPlace == /\ window[1].placed /\ height > 3
            /\ window[1].bounds.width > 0 /\ window[1].bounds.height > 0
Capture ==
    /\ phase = "capture"
    /\ kept' = Snapshot.kept /\ truncated' = Snapshot.truncated
    /\ phase' = IF HasPlace THEN "draw" ELSE "tree"
    /\ IF HasPlace THEN canvas' = Blank(Cols, height - 3) /\ todo' = <<Visit(1)>>
       ELSE UNCHANGED <<canvas, todo>>
    /\ UNCHANGED <<window, height, positioned, frame>>

Drawing(act) == phase = "draw" /\ todo # <<>> /\ Head(todo).act = act
DrawAt(rect, i, shown) ==
    /\ canvas' = IF shown THEN Shown(rect, i) ELSE canvas
    /\ positioned' = IF shown THEN positioned + 1 ELSE positioned
    /\ UNCHANGED <<window, height, phase, snapshot, frame>>

render_spatial_node ==
    /\ Drawing("visit")
    /\ LET i == Head(todo).node
           node == kept[i]
           rect == IF i # 1 /\ node.placed THEN Project(node.bounds) ELSE NoCells
           passed == ~node.visible \/ node.role = "ScrollBar"
           shown == ~passed /\ rect # NoCells /\ Shows(i)
       IN  /\ DrawAt(rect, i, shown)
           /\ todo' = (IF passed \/ (shown /\ owns_descendant_text(i)) THEN <<>> ELSE Below(i))
                      \o Tail(todo)

DrawRow ==
    /\ Drawing("row")
    /\ LET i == Head(todo).node
           owns == owns_descendant_text(i)
           shown == Shows(i) /\ (kept[i].role = "ListItem" /\ ~IsLeaf(i) => owns)
       IN  /\ DrawAt(Head(todo).rect, i, shown)
           /\ todo' = (IF shown /\ owns THEN <<>> ELSE Visits(Kids(i))) \o Tail(todo)

DrawCell ==
    /\ Drawing("cell")
    /\ LET i == Head(todo).node
       IN  /\ DrawAt(Head(todo).rect, i, Shows(i))
           /\ todo' = Visits(Kids(i)) \o Tail(todo)

Heading == Cells(Root.label, Cols)
Divider == Cells([k \in 1..Cols |-> Mark], Cols)
Footer == Cells(Message, Cols)
SpatialRows(cv) == <<Heading, Divider>> \o into_rows(cv) \o <<Footer>>
HasScrollBar == \E i \in DOMAIN kept : kept[i].role = "ScrollBar"
Drawn == phase = "draw" /\ todo = <<>>

Finish ==
    /\ Drawn /\ positioned > 0
    /\ frame' = [NoFrame EXCEPT !.kind = "spatial", !.rows = SpatialRows(canvas)]
    /\ phase' = "done"
    /\ UNCHANGED <<window, height, snapshot, canvas, todo, positioned>>

SayUnexposed ==
    /\ Drawn /\ positioned = 0 /\ HasScrollBar
    /\ LET width == Min({WidthOf(Message), Cols})
       IN  canvas' = DrawText(canvas, (Cols - width) \div 2, canvas.rows \div 2, width, Message)
    /\ frame' = [NoFrame EXCEPT !.kind = "message", !.rows = SpatialRows(canvas')]
    /\ positioned' = 1
    /\ phase' = "done"
    /\ UNCHANGED <<window, height, snapshot, todo>>

\* One line of the tree listing per node.
TreeLine(i) == Blanks(3 * kept[i].depth) \o <<Mark, Space>> \o Clean(kept[i].label)
FocusedLine == Max({1} \cup {i \in DOMAIN kept : kept[i].focused}) - 1

\* Defect: the last start is counted from the last line.
StartBeyond(lines, viewport, focused) ==
    Min({Max({focused - viewport \div 2, 0}), Max({lines - 1, 0})})
TreeStart(lines, viewport, focused) ==
    Min({Max({focused - viewport \div 2, 0}), Max({lines - viewport, 0})})

RenderTree ==
    /\ phase = "tree" \/ (Drawn /\ positioned = 0 /\ ~HasScrollBar)
    /\ LET viewport == Max({height - 3, 0})
           start == TreeStart(Len(kept), viewport, FocusedLine)
           end == Min({start + viewport, Len(kept)})
           listed == <<Heading, Divider>>
                     \o [n \in 1..end - start |-> Cells(TreeLine(start + n), Cols)]
           padded == listed \o [n \in 1..height - 1 - Len(listed) |-> Blanks(Cols)]
       IN  frame' = [kind |-> "tree", first |-> start + 1, last |-> end,
                     rows |-> SubSeq(Append(padded, Footer), 1, height)]
    /\ phase' = "done"
    /\ UNCHANGED <<window, height, snapshot, canvas, todo, positioned>>

Next == \/ Capture \/ render_spatial_node \/ DrawRow \/ DrawCell
        \/ Finish \/ SayUnexposed \/ RenderTree

Spec == Init /\ [][Next]_vars

(* ------------------------------ Properties ------------------------------- *)

Eligible(i) ==
    i = 1 \/ /\ window[i].depth <= MaxDepth
             /\ \A j \in 2..i : (\A k \in j + 1..i : window[k].depth > window[j].depth)
                                    => window[j].visible

\* The snapshot is the beginning, in document order, of the nodes that are not
\* too deep and not in a hidden subtree, up to the limit, and says whether there
\* were more (capture_node counts across recursion, skips some children and
\* stops its loops at others).
CaptureIsPrefix ==
    LET eligible == {i \in DOMAIN window : Eligible(i)}
        Place(i) == Cardinality({j \in eligible : j <= i})
    IN  phase # "capture" =>
            /\ Len(kept) = Min({MaxNodes, Cardinality(eligible)})
            /\ \A i \in eligible : Place(i) <= MaxNodes => kept[Place(i)] = window[i]
            /\ truncated <=> Cardinality(eligible) > MaxNodes

\* Whatever is drawn over whatever else, a wide glyph and its second column are
\* never parted, and a frame has exactly the viewer's rows, each exactly as wide
\* as the viewer (the broker and the viewers refuse anything else).
RowsAreWhole ==
    /\ \A p \in DOMAIN canvas.at :
          /\ canvas.at[p] = Continuation =>
                p[1] > 0 /\ canvas.at[<<p[1] - 1, p[2]>>] \in Wide
          /\ canvas.at[p] \in Wide =>
                p[1] + 1 < canvas.cols /\ canvas.at[<<p[1] + 1, p[2]>>] = Continuation
    /\ phase = "done" => /\ Len(frame.rows) = height
                         /\ \A n \in DOMAIN frame.rows : WidthOf(frame.rows[n]) = Cols

SpatialFrame == frame.kind = "spatial"
Tables == {i \in DOMAIN kept : IsTable(i)}

SourceOf(item) == kept[item.node].bounds
\* Entries of different columns or of different rows of a table get rectangles
\* that do not overlap, although the widths are negotiated from the labels and
\* the rows are packed.
TableCellsAreApart ==
    LET Apart(items, columns) ==
            \A m, n \in DOMAIN items :
                \/ SourceOf(items[m]).y = SourceOf(items[n]).y
                   /\ ColumnOf(columns, SourceOf(items[m]).x)
                      = ColumnOf(columns, SourceOf(items[n]).x)
                \/ ~Overlaps(items[m].rect, items[n].rect)
    IN  SpatialFrame => \A t \in Tables : Apart(TableItems(t), infer_grid_columns(t))

\* The columns of a table take its width up exactly, each at least one column of
\* the canvas; only a table with more columns than that is wider.
ColumnsFillTheTable ==
    SpatialFrame => \A t \in Tables :
        LET rect == Project(kept[t].bounds)
            widths == TableWidths(t, infer_grid_columns(t), rect)
        IN  rect # NoCells => /\ SumOf(widths) = Max({rect.width, Len(widths)})
                              /\ \A c \in DOMAIN widths : widths[c] >= 1

\* Entries of different source rows of a list never share a row of the canvas:
\* not even when an earlier one was wrapped over several (the comment at
\* accessibility.rs:1411).
ListRowsAreApart ==
    LET Rows(items) == {n \in DOMAIN items : items[n].act = "row"}
        Apart(items) ==
            \A m, n \in Rows(items) :
                m < n /\ SourceOf(items[m]).y # SourceOf(items[n]).y
                    => Bottom(items[m].rect) <= items[n].rect.y
    IN  SpatialFrame => \A i \in DOMAIN kept \ Tables :
            kept[i].role \in {"List", "Table"} => Apart(CollectionItems(i))

\* Projected rectangles lie on the canvas and keep the order of their pixels:
\* two nodes side by side, or one above the other, overlap only where one has
\* less than a column, or a row, of its own.
AdjacentStayApart ==
    LET OnCanvas(r) == r.x >= 0 /\ r.y >= 0 /\ Right(r) <= Cols /\ Bottom(r) <= canvas.rows
        Ordered(b, c, r, s) ==
            /\ Right(b) <= c.x => Right(r) <= Max({s.x, r.x + 1})
            /\ Bottom(b) <= c.y => Bottom(r) <= Max({s.y, r.y + 1})
        Kept(b, c, r, s) == r # NoCells /\ s # NoCells => OnCanvas(r) /\ Ordered(b, c, r, s)
        Places == {kept[i].bounds : i \in {k \in DOMAIN kept : kept[k].placed}}
    IN  SpatialFrame => \A b, c \in Places : Kept(b, c, Project(b), Project(c))

Inked(text) == SelectSeq(text, LAMBDA glyph : glyph \notin {Space, Newline})
\* Wrapping keeps within the width and the number of lines, loses and reorders
\* nothing but the end that has no room, and breaks no word that fits on a line
\* (with at least two columns beside the indentation).
WrapKeepsWords ==
    LET WordsOf(lines) == FlattenSeq([k \in DOMAIN lines |-> Words(lines[k])])
        Beside(text, width) ==
            Min({width} \cup {width - Indent(line, width) : line \in Range(Lines(text))})
        Within(lines, width, max) ==
            Len(lines) <= max /\ \A k \in DOMAIN lines : WidthOf(lines[k]) <= width
        KeepsText(inked, text, full) == IsPrefix(inked, text) /\ (~full => inked = text)
        KeepsWords(wrapped, words, room) ==
            (\A word \in Range(words) : WidthOf(word) <= room) => IsPrefix(wrapped, words)
        Keeps(text, lines, width, max) ==
            /\ Within(lines, width, max)
            /\ KeepsText(Inked(FlattenSeq(lines)), Inked(text), Len(lines) = max)
            /\ KeepsWords(WordsOf(lines), WordsOf(Lines(text)), Beside(text, width))
    IN  SpatialFrame => \A text \in {kept[i].label : i \in DOMAIN kept}, width \in 3..5,
                           max \in 1..3 :
            NonEmpty(text) /\ Beside(text, width) >= 2 =>
                Keeps(text, WrapFlowText(text, width, max), width, max)

\* The tree listing shows the node that has the focus, and leaves no row blank
\* while there are nodes it does not show.
FocusIsShown ==
    LET viewport == height - 3
    IN  frame.kind = "tree" /\ viewport > 0 =>
            /\ FocusedLine + 1 \in frame.first..frame.last
            /\ frame.last - frame.first + 1 = Min({viewport, Len(kept)})

\* What a viewer sees is laid out like the window, whatever is packed, shrunk,
\* wrapped or rounded: entries and neighbours keep out of one another.
LayoutKeepsApart ==
    AdjacentStayApart /\ ColumnsFillTheTable /\ TableCellsAreApart /\ ListRowsAreApart

Current == kept[Head(todo).node]
\* Where the next entry is drawn: a node that is visited, at its own place.
PlaceOfCurrent == IF Head(todo).act = "visit" THEN Project(Current.bounds) ELSE Head(todo).rect
Changed == {p \in DOMAIN canvas.at : canvas'.at[p] # canvas.at[p]}
Overwritten == {p \in Changed : canvas.at[p] # Empty}
\* Flowing labels, separators and borders, which come after other things in
\* document order, never overwrite what is there; a dialog's title may, on the
\* first row of its border.
LateMarksSpareText ==
    /\ Current.role \in {"MenuItem", "Separator"} => Overwritten = {}
    /\ Current.role = "StaticText" /\ ~IsMultiline(Current.label) => Overwritten = {}
    /\ Current.role = "Dialog" => \A p \in Overwritten : p[2] = PlaceOfCurrent.y

Lies(rect, x, y) == x \in rect.x..Right(rect) - 1 /\ y \in rect.y..Bottom(rect) - 1
\* A slot with half of a wide glyph, the other half of which is in the rectangle.
HalfOf(rect, slot, x, y) == \/ slot = Continuation /\ Lies(rect, x - 1, y)
                            \/ slot \in Wide /\ Lies(rect, x + 1, y)
\* Drawing a control leaves everything outside its place as it is, but for wide
\* glyphs that reach into it: no label, gutter, border or line of text goes into
\* what is drawn beside it.  Menu items, list items and check boxes may be longer
\* than their place.
ControlsKeepToTheirPlace ==
    Current.role \notin {"MenuItem", "ListItem", "CheckBox"} =>
        \A p \in Changed : \/ Lies(PlaceOfCurrent, p[1], p[2])
                            \/ HalfOf(PlaceOfCurrent, canvas.at[p], p[1], p[2])

\* Whatever is drawn makes do with its place, and what comes late with the room
\* that is left to it.
DrawingSparesOthers ==
    [][phase = "draw" /\ todo # <<>> => LateMarksSpareText /\ ControlsKeepToTheirPlace]_vars
=============================================================================
