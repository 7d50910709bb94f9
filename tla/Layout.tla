-------------------------------- MODULE Layout --------------------------------
(* Where the reconstruction puts things: the projection of pixels to columns   *)
(* and rows, the columns of a table, and the packing of the rows of tables and *)
(* lists.  The arithmetic is exact where the program's is in floating point.   *)
EXTENDS Canvas

CONSTANT CellHeight     \* pixels of one row at the largest scale

ASSUME LayoutAssumption == CellHeight \in Nat \ {0}

Overlaps(r, s) == /\ r.x < Right(s) /\ s.x < Right(r)
                  /\ r.y < Bottom(s) /\ s.y < Bottom(r)

Between(left, top, right, bottom) ==
    IF left >= right \/ top >= bottom THEN NoCells
    ELSE [x |-> left, y |-> top, width |-> right - left, height |-> bottom - top]
intersect_rect(r, s) == Between(Max({r.x, s.x}), Max({r.y, s.y}),
                                Min({Right(r), Right(s)}), Min({Bottom(r), Bottom(s)}))

\* Rows per pixel, as a fraction; a pixel is as wide as it is high and a column
\* half as wide as a row is high.
FitScale(root, cv) ==
    IF cv.rows * 2 * root.width <= cv.cols * root.height
    THEN <<cv.rows, root.height>> ELSE <<cv.cols, 2 * root.width>>
RowScale(fit, fit_window) ==
    IF ~fit_window /\ fit[2] <= fit[1] * CellHeight THEN <<1, CellHeight>> ELSE fit

\* In one direction: pixels to cells, and the offset that centres the window.
Cell(pixels, scale) == (pixels * scale[1]) \div scale[2]
Offset(extent, size, scale) == Max({size - Max({Cell(extent, scale), 1}), 0}) \div 2
Start(from, extent, size, scale) ==
    Min({Offset(extent, size, scale) + Cell(from, scale), size - 1})

End(to, extent, size, scale) ==
    Min({Offset(extent, size, scale) + Cell(to, scale), size})

AtLeastOne(x, y, right, bottom) ==
    [x |-> x, y |-> y, width |-> Max({right - x, 1}), height |-> Max({bottom - y, 1})]
project_bounds(seen, root, rows, cols, cv) ==
    IF seen = NoCells THEN NoCells
    ELSE AtLeastOne(Start(seen.x - root.x, root.width, cv.cols, cols),
                    Start(seen.y - root.y, root.height, cv.rows, rows),
                    End(Right(seen) - root.x, root.width, cv.cols, cols),
                    End(Bottom(seen) - root.y, root.height, cv.rows, rows))
ProjectAt(bounds, root, scale, cv) ==
    project_bounds(intersect_rect(bounds, root), root, scale, <<2 * scale[1], scale[2]>>, cv)
project_clipped_bounds(bounds, root, fit_window, cv) ==
    ProjectAt(bounds, root, RowScale(FitScale(root, cv), fit_window), cv)

SumOf(widths) == FoldLeft(LAMBDA sum, width : sum + width, 0, widths)

\* The last of the entries that a measure makes largest (max_by_key).
LastLargest(entries, measure) ==
    Max({k \in entries : \A j \in entries : measure[j] <= measure[k]})

\* The loops, each a run of as many turns as it can need at most.
ShrinkTurn(w, total) ==
    LET wide == {k \in DOMAIN w : w[k] > 1}
    IN  IF SumOf(w) <= total \/ wide = {} THEN w
        ELSE [w EXCEPT ![LastLargest(wide, w)] = @ - 1]
Shrunk(widths, total) ==
    LET after[n \in Nat] == IF n = 0 THEN widths ELSE ShrinkTurn(after[n - 1], total)
    IN  after[SumOf(widths)]

GrowTurn(w, preferred, total) ==
    LET short == {k \in DOMAIN w : w[k] < preferred[k]}
        most == LastLargest(short, [k \in short |-> preferred[k] - w[k]])
    IN  IF SumOf(w) >= total THEN w
        ELSE IF short = {} THEN [w EXCEPT ![Len(w)] = @ + total - SumOf(w)]
        ELSE [w EXCEPT ![most] = @ + 1]
Grown(widths, preferred, total) ==
    LET after[n \in Nat] == IF n = 0 THEN widths ELSE GrowTurn(after[n - 1], preferred, total)
    IN  after[total]

allocate_table_widths(preferred, minimum, total) ==
    IF minimum = <<>> \/ total = 0 THEN minimum
    ELSE Grown(Shrunk(minimum, total), preferred, total)

\* The packed-row cursor: the source row it stands on, the lowest pixel of that
\* row's first entry, and the row of the canvas last used.
NoRow == [begun |-> FALSE, source |-> 0, bottom |-> 0, output |-> 0]

NextRow(cursor, bounds, desired) ==
    IF cursor.begun /\ cursor.source = bounds.y THEN cursor
    ELSE [begun |-> TRUE, source |-> bounds.y, bottom |-> Bottom(bounds),
          output |-> IF ~cursor.begun THEN desired
                     ELSE IF bounds.y <= cursor.bottom + 2 THEN cursor.output + 1
                     ELSE Max({desired, cursor.output + 1})]
=============================================================================
