------------------------------- MODULE TextFlow -------------------------------
(* How the reconstruction of a window measures, cuts and wraps text.  A text   *)
(* is a sequence of glyphs; a glyph takes one column, or two when it is Wide.  *)
(* Marks of no width, tabs and the limits on the length of a field are left    *)
(* out.                                                                        *)
EXTENDS Integers, Sequences, FiniteSets, SequencesExt

CONSTANTS
    Glyphs,         \* what texts are made of
    Wide            \* those two columns wide

Space == " "
Newline == "\n"
Ellipsis == ".."

ASSUME TextAssumption ==
    Wide \subseteq Glyphs /\ {Space, Newline, Ellipsis} \subseteq Glyphs \ Wide

Width(glyph) == IF glyph \in Wide THEN 2 ELSE 1
WidthOf(text) == Len(text) + Cardinality({k \in DOMAIN text : text[k] \in Wide})
Blanks(n) == [k \in 1..n |-> Space]
Clean(text) == [k \in DOMAIN text |-> IF text[k] = Newline THEN Space ELSE text[k]]
NonEmpty(text) == \E k \in DOMAIN text : text[k] \notin {Space, Newline}

\* The members of a set of numbers from the least on; the elements at such places.
InOrder(S) ==
    [n \in 1..Cardinality(S) |-> CHOOSE k \in S : Cardinality({j \in S : j <= k}) = n]
Chosen(seq, places) == [n \in 1..Cardinality(places) |-> seq[InOrder(places)[n]]]
Filled(lines) == Chosen(lines, {k \in DOMAIN lines : NonEmpty(lines[k])})

Trim(line) ==
    LET inked == {k \in DOMAIN line : line[k] # Space}
    IN  IF inked = {} THEN <<>> ELSE SubSeq(line, Min(inked), Max(inked))

Split(text, mark) ==
    LET cuts == InOrder({0, Len(text) + 1} \cup {k \in DOMAIN text : text[k] = mark})
    IN  [n \in 1..Len(cuts) - 1 |-> SubSeq(text, cuts[n] + 1, cuts[n + 1] - 1)]
WithoutLastEmpty(parts) == IF Last(parts) = <<>> THEN Front(parts) ELSE parts
Lines(text) == WithoutLastEmpty(Split(text, Newline))
Words(line) == Filled(Split(line, Space))
Together(parts) == FoldLeft(LAMBDA all, part : all \o part, <<>>, parts)

\* The longest beginning of the text that fits.
Fitting(text, width) ==
    SubSeq(text, 1, Max({n \in 0..Len(text) : WidthOf(SubSeq(text, 1, n)) <= width}))
Elide(text, width) ==
    IF width = 0 THEN <<>>
    ELSE IF WidthOf(text) <= width THEN Clean(text)
    ELSE Append(Fitting(Clean(text), width - 1), Ellipsis)

\* Lines done so far and the line begun.
NoLines == [lines |-> <<>>, line |-> <<>>]
LastLine(acc, max_lines) ==
    IF Len(acc.lines) < max_lines /\ (acc.line # <<>> \/ acc.lines = <<>>)
    THEN Append(acc.lines, acc.line) ELSE acc.lines
WrapText(text, width, max_lines) ==
    LET Glyph(acc, glyph) ==
            IF Len(acc.lines) = max_lines THEN acc
            ELSE IF glyph = Newline
                 THEN [lines |-> Append(acc.lines, acc.line), line |-> <<>>]
            ELSE IF WidthOf(acc.line) + Width(glyph) > width
                 THEN [lines |-> Append(acc.lines, acc.line), line |-> <<glyph>>]
            ELSE [acc EXCEPT !.line = Append(@, glyph)]
    IN  IF width = 0 \/ max_lines = 0 THEN <<>>
        ELSE LastLine(FoldLeft(Glyph, NoLines, text), max_lines)

Indent(line, width) ==
    Min({width - 1} \cup {n \in 0..Len(line) : n = Len(line) \/ line[n + 1] # Space})

\* Defect: the space before the word is not counted.
FitsAnySpace(line, word, width) ==
    line = <<>> \/ WidthOf(line) + WidthOf(word) <= width

Fits(line, word, width) ==
    line = <<>> \/ WidthOf(line) + 1 + WidthOf(word) <= width

\* A word joins the line begun, begins the next one, or is cut into lines of its
\* own.
Flush(acc, prefix) == [lines |-> Append(acc.lines, prefix \o acc.line), line |-> <<>>]
CutWord(acc, chunks, prefix) ==
    [lines |-> acc.lines \o [k \in 1..Len(chunks) - 1 |-> prefix \o chunks[k]],
     line |-> Last(chunks)]
JoinWord(acc, word, prefix, width, max_lines) ==
    IF Len(acc.lines) = max_lines THEN acc
    ELSE IF WidthOf(word) > width
         THEN CutWord(acc, WrapText(word, width, max_lines - Len(acc.lines)), prefix)
    ELSE IF acc.line = <<>> THEN [acc EXCEPT !.line = word]
    ELSE [acc EXCEPT !.line = @ \o <<Space>> \o word]
WrapLine(lines, line, prefix, width, max_lines) ==
    FoldLeft(LAMBDA acc, word :
                 IF Len(acc.lines) = max_lines THEN acc
                 ELSE JoinWord(IF Fits(acc.line, word, width) THEN acc ELSE Flush(acc, prefix),
                               word, prefix, width, max_lines),
             [NoLines EXCEPT !.lines = lines], Words(line))
EndLine(acc, line, prefix, max_lines) ==
    IF Len(acc.lines) < max_lines /\ (acc.line # <<>> \/ line = <<>>)
    THEN Append(acc.lines, IF line = <<>> THEN <<>> ELSE prefix \o acc.line)
    ELSE acc.lines

WrapFlowText(text, width, max_lines) ==
    LET Line(lines, line, prefix) ==
            EndLine(WrapLine(lines, line, prefix, Max({width - Len(prefix), 1}), max_lines),
                    line, prefix, max_lines)
    IN  IF width = 0 \/ max_lines = 0 THEN <<>>
        ELSE FoldLeft(LAMBDA lines, line :
                          IF Len(lines) = max_lines THEN lines
                          ELSE Line(lines, line, Blanks(Indent(line, width))),
                      <<>>, Lines(text))

\* A whole row of text: what fits, then blanks.
Padded(text, cols) == text \o Blanks(cols - WidthOf(text))
Cells(text, cols) == Padded(Fitting(text, cols), cols)
=============================================================================
