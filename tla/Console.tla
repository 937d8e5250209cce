-------------------------------- MODULE Console --------------------------------
(***************************************************************************)
(* The text console of kernel/src/console.rs on the frame buffer of        *)
(* kernel/src/arch/x86_64/display.rs, in pixels.  A character is a record: *)
(* `nl` a newline, `low` a letter that reaches below the baseline, and `n` *)
(* tells characters apart.                                                 *)
(***************************************************************************)
EXTENDS Integers, SequencesExt, Functions

VARIABLES
  size,         \* [width, height] of the frame buffer
  cursor,       \* [x, y]: the baseline of the next character
  screen,       \* history: how often the screen was cleared
  drawn,        \* history: glyphs [ch, x, y, screen, first], in order
  typed         \* history: the characters written

consoleVars == <<size, cursor, screen, drawn, typed>>

MARGIN == 5
CHAR_WIDTH == 10        \* of ascii::FONT_10X20
LINE_HEIGHT == 20
DESCENT == 4            \* the rows of a glyph below the baseline

origin == [x |-> MARGIN, y |-> MARGIN + LINE_HEIGHT]

ConsoleInit(sizes) ==
  /\ size \in sizes
  /\ cursor = origin
  /\ screen = 0
  /\ drawn = << >>
  /\ typed = << >>

\* The state of a write: where it is, the text from line_start on that is not
\* drawn yet, its width, whether a line was broken, and whether it panicked.
Writing(c, s, glyphs, line, line_width, first, panicked) ==
  [cursor |-> c, screen |-> s, glyphs |-> glyphs, line |-> line,
   line_width |-> line_width, first |-> first, panicked |-> panicked]

\* FrameBufferTarget::draw_iter does not clip: a pixel beyond the last row is
\* beyond the end of the buffer, and indexing it panics.
OutOfBuffer(g) ==
  LET row == g.y + (IF g.ch.low THEN DESCENT ELSE 0)
  IN  row * size.width + g.x >= size.height * size.width

\* Text::draw, which returns the position after the text.
draw(w) ==
  LET glyphs == [i \in 1 .. Len(w.line) |->
                   [ch |-> w.line[i], x |-> w.cursor.x + (i - 1) * CHAR_WIDTH, y |-> w.cursor.y,
                    screen |-> w.screen, first |-> w.first]]
  IN  [w EXCEPT !.glyphs = @ \o glyphs,
                !.cursor.x = @ + Len(w.line) * CHAR_WIDTH,
                !.line = << >>,
                !.panicked = @ \/ \E i \in DOMAIN glyphs : OutOfBuffer(glyphs[i])]

\* newline: the screen is cleared when the next line would be below its end.
newline(w) ==
  LET new_y == w.cursor.y + LINE_HEIGHT
  IN  IF new_y > size.height
      THEN [w EXCEPT !.cursor = origin, !.screen = @ + 1]
      ELSE [w EXCEPT !.cursor = [x |-> MARGIN, y |-> new_y]]

\* Mutant: the character that did not fit is taken for the newline it causes.
rest_of_line_Skips(ch) == << >>

\* The text of the new line: line_start is after a newline, or at a character that
\* did not fit.
rest_of_line(ch) == IF ch.nl THEN << >> ELSE <<ch>>

\* One turn of the loop of write.
write_char(w, ch) ==
  LET wider == w.line_width + (IF ch.nl THEN 0 ELSE CHAR_WIDTH)
  IN  IF w.panicked THEN w
      ELSE IF ch.nl \/ wider >= size.width
      THEN [newline(draw(w)) EXCEPT !.line = rest_of_line(ch), !.line_width = 0, !.first = FALSE]
      ELSE [w EXCEPT !.line = Append(@, ch), !.line_width = wider]

\* Mutant: a line is taken to begin at the left of the screen.
line_width_Zero == 0

\* The width of what is already on the line.
line_width == cursor.x

\* write, for the whole string.
write(s) ==
  draw(FoldLeft(write_char, Writing(cursor, screen, drawn, << >>, line_width, TRUE, FALSE), s))

\* Console::clear.
clear ==
  /\ cursor' = origin
  /\ screen' = screen + 1
  /\ UNCHANGED <<size, drawn, typed>>

\* fmt::Write::write_str.  The histories are of the writes that did not panic.
write_str(s) ==
  LET w == write(s)
  IN  /\ cursor' = w.cursor
      /\ screen' = w.screen
      /\ drawn' = IF w.panicked THEN drawn ELSE w.glyphs
      /\ typed' = IF w.panicked THEN typed ELSE typed \o s
      /\ UNCHANGED size
-----------------------------------------------------------------------------
\* All characters but newlines are drawn, once and in order, wherever lines are
\* broken; and none is drawn over another one on the same screen.
TextDrawnOnce ==
  /\ [i \in DOMAIN drawn |-> drawn[i].ch] = SelectSeq(typed, LAMBDA ch : ~ch.nl)
  /\ \A i, j \in DOMAIN drawn :
       (i < j /\ drawn[i].screen = drawn[j].screen /\ drawn[i].y = drawn[j].y)
         => drawn[i].x + CHAR_WIDTH <= drawn[j].x

\* What a write draws on the line where it begins is within the width of the
\* screen, however much of the line earlier writes have used.  (Of the lines that
\* begin in the same write this is not true: their width is counted from 0, not
\* from the margin, and without the character that did not fit.)
FirstLineFits ==
  \A i \in DOMAIN drawn : drawn[i].first => drawn[i].x + CHAR_WIDTH < size.width
=============================================================================
