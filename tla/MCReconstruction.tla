--------------------------- MODULE MCReconstruction ---------------------------
(* Windows of up to seven nodes on a canvas of eight columns and four rows, or *)
(* three, or none.  The windows are 16 pixels wide and high, so that a column  *)
(* is two pixels wide and a row four pixels high, except for the dialogs.      *)
EXTENDS Reconstruction

Rect(x, y, width, high) == [x |-> x, y |-> y, width |-> width, height |-> high]
Node(depth, role, rect, label) ==
    [depth |-> depth, role |-> role, placed |-> TRUE, bounds |-> rect, visible |-> TRUE,
     focused |-> FALSE, label |-> label, scroll |-> 0]
Top == Node(0, "Window", Rect(0, 0, 16, 16), <<"a">>)
Short == <<"a">>
Broad == <<"W", "W", "b">>
Long == <<"a", "b", " ", "W", "c", "d">>
Line2 == <<"a", "b", "\n", " ", "b", " ", "W", "a">>

MCGlyphs == {Space, Newline, Ellipsis, Mark, "W", "a", "b", "c", "d", "[", "x", "]"}
            \cup Range(Message) \cup {Bullet}

\* Two controls that may lie on one another.
Controls ==
    {Node(1, role, rect, label) :
        role \in {"StaticText", "MenuItem", "Separator", "Dialog", "Button", "CheckBox", "Heading",
                 "ProgressBar"},
        rect \in {Rect(0, 4, 16, 12), Rect(3, 4, 6, 4), Rect(12, 4, 4, 4)},
        label \in {Broad, Long}}
ControlWindows == {<<Top, a, b>> : a, b \in Controls}

\* Texts of several lines and inline fragments.
TextWindows ==
    {<<Top, [Node(1, role, rect, Line2 \o more) EXCEPT !.scroll = scroll]>> :
        role \in {"TextArea", "TextField", "StaticText", "Heading"},
        rect \in {Rect(0, 0, 16, 16), Rect(2, 4, 6, 8)}, scroll \in 0..2,
        more \in {<<>>, <<"\n", "\n", "c">>, <<"b", "b", "b", "W", "b", "a">>}}
    \cup {<<Top, Node(1, outer, Rect(0, 4, 10, 8), <<>>), Node(2, "StaticText", Rect(0, y, 6, 4), a),
            Node(2, "Link", Rect(x, 4, 6, 4), b), Node(1, "ScrollBar", Rect(14, 0, 2, 16), <<>>)>> :
        outer \in {"Group", "StaticText"}, y \in {0, 4}, x \in {0, 6}, a, b \in {Short, Broad, Long}}

\* Tables: columns at 0 and 6 (and 3 or 8, or an outlier there), two rows and a
\* third.
Cells4(role) == {Node(2, role, Rect(x, y, 5, 4), label) :
                    x \in {0, 3, 6, 8}, y \in {0, 4}, label \in {<<>>, Broad, Long}}
TableWindows ==
    {<<Top, Node(1, outer, Rect(0, 0, w, 16), <<>>), Node(2, "TableCell", Rect(0, 0, 4, 4), a),
       Node(2, "TableCell", Rect(6, 0, 4, 4), b), c, Node(2, "Tab", tab, b)>> :
        outer \in {"Table", "List"}, w \in {5, 15}, a \in {Short, Long}, c \in Cells4("TableCell"),
        tab \in {Rect(0, 6, 4, 4), Rect(11, 6, 4, 4), Rect(7, 4, 4, 4)}, b \in {Short, Broad}}

\* Lists of up to three entries.
Rows3 == {Node(2, role, Rect(x, y, 6, 4), label) :
             role \in {"ListItem", "TreeItem"}, x \in {0, 4}, y \in {0, 4},
             label \in {Short, Broad, <<"*", " ", "a", "b", " ", "b", "W">>, Line2}}
ListWindows ==
    {<<Top, Node(1, "List", Rect(0, 0, w, 16), <<>>), a, b,
       Node(2, "ListItem", Rect(0, 10, 4, 4), <<>>), Node(3, "Heading", Rect(0, 10, 4, 4), Short)>> :
        w \in {8, 16}, a, b \in Rows3}

\* Trees that show nothing in place: depths, hidden and focused nodes.
Depths == {d \in [1..4 -> 1..4] : d[1] = 1 /\ \A k \in 1..3 : d[k + 1] <= d[k] + 1}
TreeWindows ==
    {<<[Top EXCEPT !.placed = placed, !.focused = TRUE]>> \o
     [k \in 1..4 |-> [Node(d[k], IF k = bar THEN "ScrollBar" ELSE "Group",
                           Rect(0, 0, 4, 4), <<>>)
                          EXCEPT !.visible = k # hidden, !.focused = k = focus]]
     \o <<Node(2, "Group", Rect(0, 4, 4, 4), <<>>),
          [Node(1, "Group", Rect(0, 8, 4, 4), <<>>) EXCEPT !.focused = focus = 5]>> :
        placed \in BOOLEAN, d \in Depths, hidden \in 0..4, focus \in 0..5, bar \in {0, 4}}
\* A small dialog is not enlarged.
DialogWindows ==
    {<<[Top EXCEPT !.role = "Dialog", !.bounds = Rect(4, 4, 34, size)], Node(1, "CheckBox", r, a),
       Node(1, "Button", Rect(21, 21, 17, 17), a)>> :
        size \in {20, 34}, r \in {Rect(4, 4, 17, 17), Rect(0, 8, 20, 4)}, a \in {Short, Broad}}

MCCases == ((ControlWindows \cup TextWindows \cup TableWindows \cup ListWindows) \X {7})
           \cup (TreeWindows \X {6}) \cup (DialogWindows \X {3, 7})
=============================================================================
