----------------------------- MODULE OutputScreen -----------------------------
(***************************************************************************)
(* What the user sees of the output: output_dump of palmapp.c draws the    *)
(* lines in view from the store of OutputStore onto the gadget.            *)
(*                                                                         *)
(* Text that arrives (app_output_show) is stored chunk by chunk, one for   *)
(* each of its newlines, and then drawn.  When the form is opened, updated *)
(* or its output erased everything is drawn; after new text, and after a   *)
(* scroll, output_dump moves the picture and draws only the lines that it  *)
(* takes for new, from two numbers that it keeps in static variables.      *)
(*                                                                         *)
(* The picture is a grid of characters: what a chunk's text puts on it     *)
(* stands in the columns it is drawn to.  The rows in front of the first   *)
(* and behind the last one are what surrounds the gadget.  The main form   *)
(* is active and visible whenever text arrives.                            *)
(***************************************************************************)
EXTENDS OutputStore

CONSTANT Blank  (* a column without a character *)

ASSUME ScreenAssumption == Blank \notin Streams /\ Visible >= 3

VARIABLES
  fifoed,   (* count_lines_fifoed: lines lost since the last drawing         *)
  adding,   (* the text that app_output_show is storing, NoShow between      *)
  screen,   (* the picture                                                   *)
  news,     (* history: lines started since the last drawing                 *)
  last,     (* last_scroll_pos and last_avail_count of output_dump           *)
  torn      (* history: since the last full drawing a drawing skipped lines, *)
            (* or the store was replaced                                     *)

screenVars == <<vars, fifoed, adding, screen, last, news, torn>>

NoShow == [stream |-> OCT_TERM, more |-> FALSE]

Rows == 0 .. Visible - 1
Columns == 1 .. Width
BlankRow == [x \in Columns |-> Blank]
(* The gadget and a row on either side of it. *)
BlankScreen == [y \in -1 .. Visible |-> BlankRow]

-----------------------------------------------------------------------------
(* output_dump: the characters of one line *)

(* WinDrawChars *)
Put(row, text, x) ==
  [c \in Columns |-> IF c - x \in DOMAIN text THEN text[c - x] ELSE row[c]]

(* One turn of the loop over the chunks of a line that ends at "to". *)
DrawChunk(pen, c, to) ==
  LET rest == SubSeq(c.text, pen.char + 1, Len(c.text))
  IN  IF pen.done \/ c.type = OCT_TERM THEN [pen EXCEPT !.done = TRUE]
      ELSE IF rest = <<>> THEN [pen EXCEPT !.char = 0]
      ELSE IF c.at = to.chunk
      THEN [pen EXCEPT !.row = Put(@, SubSeq(c.text, pen.char + 1, to.char), pen.x),
                       !.done = TRUE]
      ELSE [pen EXCEPT !.row = Put(@, rest, pen.x), !.x = c.endx, !.char = 0]

(* The line between two items of the table.  A chunk at 0 is the table     *)
(* itself, one at the terminator has no text: nothing is drawn then.       *)
DrawLine(b, line, row) ==
  LET from == b.tab[line - 1]
      pen[k \in 0 .. Len(b.chunks)] ==
        IF k = 0 THEN [row |-> row, x |-> 0, char |-> from.char, done |-> FALSE]
        ELSE IF b.chunks[k].at < from.chunk THEN pen[k - 1]
        ELSE DrawChunk(pen[k - 1], b.chunks[k], b.tab[line])
  IN  IF from.chunk = 0 THEN row ELSE pen[Len(b.chunks)].row

-----------------------------------------------------------------------------
(* output_dump: move, erase and draw *)

Erased(scr, rows) == [y \in DOMAIN scr |-> IF y \in rows THEN BlankRow ELSE scr[y]]

(* WinScrollRectangle by k rows, up or (k < 0) down, and the erased vacancy *)
Moved(scr, k) ==
  [y \in DOMAIN scr |->
     IF y \notin Rows THEN scr[y] ELSE IF y + k \in Rows THEN scr[y + k] ELSE BlankRow]

(* The lines from "first" to "to", the first one in row y. *)
DrawLines(b, scr, first, to, y) ==
  [r \in DOMAIN scr |->
     IF r >= y /\ first + (r - y) <= to THEN DrawLine(b, first + (r - y), scr[r]) ELSE scr[r]]

Least(i, j) == IF i <= j THEN i ELSE j
LastLine(b) == Least(b.pos + Visible - 1, b.avail)

(* Mutant: the picture stays when lines fall out of the history. *)
CaughtUp_Stays(scr) == IF fifoed >= Visible THEN Erased(scr, Rows) ELSE scr

(* The picture has followed what fell out of the history. *)
CaughtUp(scr) == IF fifoed >= Visible THEN Erased(scr, Rows) ELSE Moved(scr, fifoed)

DrawAll(b) == DrawLines(b, Erased(screen, Rows), b.pos, LastLine(b), 0)

DrawNew(b) ==
  LET back == last.pos - b.pos
      keepheight == Visible - (b.pos - last.pos)
      old == last.avail - b.pos - 1
  IN  IF back >= Visible \/ keepheight <= 0 THEN DrawAll(b)
      ELSE IF back > 0
      THEN DrawLines(b, Moved(CaughtUp(screen), -back), b.pos, b.pos + back, 0)
      ELSE IF back < 0
      THEN DrawLines(b, Moved(CaughtUp(screen), -back), b.pos + keepheight - 1, LastLine(b),
                     keepheight - 1)
      ELSE IF b.pos + old - 1 < 1
      THEN DrawLines(b, CaughtUp(screen), 1, LastLine(b), 0)
      ELSE DrawLines(b, CaughtUp(screen), b.pos + old - 1, LastLine(b), old - 1)

-----------------------------------------------------------------------------
Noted(b) ==
  /\ last' = [pos |-> b.pos, avail |-> b.avail]
  /\ fifoed' = 0
  /\ news' = 0

(* DrawOutputGadget, after the form was drawn: frmOpenEvent, frmUpdateEvent *)
Redraw ==
  /\ block.made /\ adding = NoShow
  /\ screen' = DrawAll(block)
  /\ Noted(block)
  /\ torn' = FALSE
  /\ UNCHANGED <<vars, adding>>

(* The "erase" item of the menu: output_clear, a full drawing and an empty *)
(* gadget; without memory for the store there is nothing to draw.          *)
EraseAll ==
  /\ adding = NoShow
  /\ Clear
  /\ screen' = Erased(screen, Rows)
  /\ IF block'.made THEN Noted(block') ELSE fifoed' = 0 /\ UNCHANGED <<last, news>>
  /\ torn' = FALSE
  /\ UNCHANGED adding

(* The setup was applied: output_clear, and an event asks for the full     *)
(* drawing.  What is handled before it finds the old picture and the       *)
(* static variables of a store that is gone.                               *)
ClearAll ==
  /\ adding = NoShow
  /\ Clear
  /\ fifoed' = 0
  /\ torn' = TRUE
  /\ UNCHANGED <<adding, screen, last, news>>

(* app_output_show: one output_addchunk for the text up to each newline ... *)
AddChunk(stream, n, feed) ==
  /\ adding = NoShow \/ (adding.more /\ adding.stream = stream)
  /\ Store(stream, n, feed)
  /\ adding' = [stream |-> stream, more |-> feed]
  /\ UNCHANGED <<fifoed, screen, last, news, torn>>

(* Counted as far as anyone asks. *)
Counted ==
  /\ fifoed' = IF block.avail = MaxLines THEN Least(fifoed + 1, Visible) ELSE fifoed
  /\ news' = Least(news + 1, Visible)
  /\ UNCHANGED <<adding, screen, last, torn>>

WrapLine == Wrap /\ Counted

FinishChunk ==
  /\ Finish
  /\ IF LastChunk(block).feed THEN Counted
     ELSE UNCHANGED <<fifoed, adding, screen, last, news, torn>>

(* ... and output_refreshdisplay *)
Refresh ==
  /\ adding # NoShow /\ Idle
  /\ screen' = DrawNew(block)
  /\ Noted(block)
  /\ adding' = NoShow
  /\ torn' = (torn \/ news > 1 \/ (fifoed > 0 /\ block.scrolling))
  /\ UNCHANGED vars

ScrollLines(k) ==
  /\ adding = NoShow
  /\ Scroll(k)
  /\ screen' = DrawNew(block')
  /\ Noted(block')
  /\ UNCHANGED <<adding, torn>>

-----------------------------------------------------------------------------
ScreenInit ==
  /\ Init
  /\ fifoed = 0 /\ adding = NoShow /\ screen = BlankScreen /\ news = 0
  /\ last = [pos |-> block.pos, avail |-> block.avail]
  /\ torn = FALSE

ScreenNext ==
  \/ \E stream \in Streams, n \in Pieces, feed \in BOOLEAN : AddChunk(stream, n, feed)
  \/ WrapLine
  \/ FinishChunk
  \/ Refresh
  \/ \E k \in 1 .. MaxLines : ScrollLines(k)
  \/ Redraw
  \/ EraseAll
  \/ ClearAll

ScreenSpec == ScreenInit /\ [][ScreenNext]_screenVars

-----------------------------------------------------------------------------
(* Properties *)

(* The characters that belong into a row of the view. *)
Wanted(y) ==
  LET i == block.pos + y
  IN  [x \in Columns |->
         IF i <= block.avail /\ x <= Len(lines[i]) THEN lines[i][x] ELSE Blank]

ChunksAt(at) == {c \in {block.chunks[k] : k \in DOMAIN block.chunks} : c.at = at}

(* The lines that output_dump can draw at all.  It misses the end of a     *)
(* line whose newline stands in a chunk of its own and runs on into the    *)
(* text that follows; and the table's overflow (see UnusedCleared) leaves  *)
(* the first line without a chunk and the last one, when it began with a   *)
(* wrap, with its own start for its end.                                   *)
Drawable(i) ==
  /\ \A c \in ChunksAt(block.tab[i].chunk) : c.text # <<>>
  /\ \A c \in ChunksAt(block.tab[i - 1].chunk) : c.type \in Streams
  /\ i = block.avail =>
       \/ block.tab[i] = NoRef
       \/ \A c \in ChunksAt(block.tab[i].chunk) : block.tab[i].char = Len(c.text)

(* The rows around the gadget. *)
Margins == screen[-1] = BlankRow /\ screen[Visible] = BlankRow

(* As long as no two lines were started between two drawings, none was     *)
(* lost from the history while the user was scrolled back, and no update   *)
(* is due to a store that was replaced, moving the picture and drawing     *)
(* only what is new comes to the same as drawing everything: each row      *)
(* shows its line of the view, whole, whatever was scrolled, wrapped and   *)
(* lost; and all rows are right again after the next full drawing.  Nor is *)
(* anything ever drawn above or below the gadget, over other objects of    *)
(* the form, although the last line to draw may not exist and the static   *)
(* variables may be those of a store that is gone.                         *)
RowsShown ==
  block.made /\ adding = NoShow =>
    /\ Margins
    /\ ~torn => \A y \in Rows :
         block.pos + y <= block.avail /\ Drawable(block.pos + y) => screen[y] = Wanted(y)

(* What the comments at palmapp.c:1597 ("reduce what needs drawing now     *)
(* (only draw previously unseen part)") and palmapp.c:1652 ("draw the      *)
(* visible lines of the saved output") say of a drawing: afterwards the    *)
(* rows of the gadget show the lines in view.                              *)
ViewShown == block.made /\ adding = NoShow => \A y \in Rows : screen[y] = Wanted(y)
=============================================================================
