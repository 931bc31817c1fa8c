------------------------- MODULE OutputScreenProofs -------------------------
(***************************************************************************)
(* Proofs about OutputScreen, for every size of table and gadget and every *)
(* length of text, from the invariants of OutputStoreProofs: what          *)
(* output_dump draws is what was written.                                  *)
(*                                                                         *)
(* MarginInv says that what is drawn stays on the gadget (...Framed,       *)
(* ...View).  LineInv says what a drawing relies on in the store: the      *)
(* flags and headers it stops at (Tidy), the columns it goes on from       *)
(* (Ends), and that the lines of the table are those of the history        *)
(* (Told), with one lemma for each change of a block (Grow..., Begins...,  *)
(* Frees...) and each action (...LineInv).  LineDrawn is what DrawLine then *)
(* makes of one line, and PicInv what the picture shows of the lines that  *)
(* were there at the last drawing (...Pic).                                *)
(***************************************************************************)
EXTENDS OutputScreen, OutputStoreProofs

-----------------------------------------------------------------------------
(* What output_dump draws stays on the gadget. *)
(* What is drawn leaves the rows around the gadget alone. *)
Framed(scr) ==
  DOMAIN scr = -1 .. Visible /\ scr[-1] = BlankRow /\ scr[Visible] = BlankRow

(* The view is never beyond the one that shows the end of the output, also *)
(* when the user has scrolled back.                                        *)
PosBound(b) == b.pos <= IF Visible >= b.avail THEN 1 ELSE b.avail - Visible + 1

(* Only scrolling lets the view stay behind or follow the output again.    *)
Held(b, c) == c.scrolling = b.scrolling /\ (b.scrolling => c.pos = b.pos)

(* So the static variables of output_dump are those of such a view: the    *)
(* line that output_dump draws again is in it.                             *)
Remembered(l) ==
  /\ l.pos \in Nat /\ l.avail \in Nat
  /\ l.avail <= 2 => l.pos <= 1
  /\ l.avail >= 3 => l.pos <= l.avail - 2

MarginInv ==
  /\ block.made => PosBound(block)
  /\ adding # NoShow => block.made
  /\ Remembered(last)
  /\ Framed(screen)

(* The gadget has three lines at least. *)
LEMMA VisibleType == Visible \in Nat /\ Visible >= 3
BY StoreAssumption, ScreenAssumption DEF StoreAssumption, ScreenAssumption

(* At first nothing is drawn. *)
LEMMA BlankFramed == Framed(BlankScreen)
BY VisibleType DEF Framed, BlankScreen

(* Erasing and moving stay on the gadget. *)
LEMMA ErasedFramed ==
  ASSUME NEW scr, Framed(scr)
  PROVE  Framed(Erased(scr, Rows))
BY VisibleType DEF Framed, Erased, Rows

LEMMA MovedFramed ==
  ASSUME NEW scr, Framed(scr), NEW k
  PROVE  Framed(Moved(scr, k))
<1>1. -1 \notin Rows /\ Visible \notin Rows
  BY VisibleType DEF Rows
<1> QED
  BY <1>1, VisibleType DEF Framed, Moved

(* So does drawing, when the last line lies in the last row or above it. *)
LEMMA DrawLinesFramed ==
  ASSUME NEW b, NEW scr, Framed(scr), NEW first \in Int, NEW to \in Int, NEW y \in Nat,
         first + (Visible - y) > to
  PROVE  Framed(DrawLines(b, scr, first, to, y))
<1>1. ~(-1 >= y) /\ ~(first + (Visible - y) <= to)
  BY VisibleType
<1> QED
  BY <1>1, VisibleType DEF Framed, DrawLines

LEMMA CaughtUpFramed ==
  ASSUME NEW scr, Framed(scr)
  PROVE  Framed(CaughtUp(scr))
BY ErasedFramed, MovedFramed DEF CaughtUp

(* All lines of the view. *)
LEMMA DrawAllFramed ==
  ASSUME NEW b, b.pos \in Nat, b.avail \in Nat, Framed(screen)
  PROVE  Framed(DrawAll(b))
<1>1. LastLine(b) \in Int /\ LastLine(b) <= b.pos + Visible - 1
  BY VisibleType DEF LastLine, Least
<1>2. b.pos + (Visible - 0) > LastLine(b)
  BY <1>1, VisibleType
<1>3. Framed(Erased(screen, Rows))
  BY ErasedFramed
<1> QED
  BY <1>1, <1>2, <1>3, DrawLinesFramed DEF DrawAll

(* The lines that output_dump takes for new. *)
LEMMA DrawNewFramed ==
  ASSUME NEW b, b.pos \in Nat, b.avail \in Nat, Framed(screen), Remembered(last)
  PROVE  Framed(DrawNew(b))
<1> DEFINE back == last.pos - b.pos
           keepheight == Visible - (b.pos - last.pos)
           old == last.avail - b.pos - 1
           to == LastLine(b)
<1>1. /\ to \in Int /\ to <= b.pos + Visible - 1
      /\ back \in Int /\ keepheight \in Int /\ old \in Int
      /\ last.pos \in Nat /\ last.avail \in Nat
  BY VisibleType DEF LastLine, Least, Remembered
<1>2. Framed(CaughtUp(screen)) /\ Framed(Moved(CaughtUp(screen), -back))
  BY CaughtUpFramed, MovedFramed
<1> HIDE DEF to
<1>3. CASE back >= Visible \/ keepheight <= 0
  <2>1. DrawNew(b) = DrawAll(b)
    BY <1>3 DEF DrawNew
  <2> QED
    BY <2>1, DrawAllFramed
<1>4. CASE ~(back >= Visible \/ keepheight <= 0) /\ back > 0
  <2>1. DrawNew(b) = DrawLines(b, Moved(CaughtUp(screen), -back), b.pos, b.pos + back, 0)
    BY <1>4 DEF DrawNew
  <2>2. b.pos + (Visible - 0) > b.pos + back /\ b.pos + back \in Int /\ b.pos \in Int
    BY <1>1, <1>4, VisibleType
  <2> HIDE DEF back
  <2> QED
    BY <1>2, <2>1, <2>2, DrawLinesFramed
<1>5. CASE ~(back >= Visible \/ keepheight <= 0) /\ back < 0
  <2>1. DrawNew(b) = DrawLines(b, Moved(CaughtUp(screen), -back), b.pos + keepheight - 1,
                               to, keepheight - 1)
    <3>1. ~(back > 0)
      BY <1>1, <1>5
    <3> HIDE DEF back
    <3> QED
      BY <1>5, <3>1 DEF DrawNew, back, to
  <2>2. /\ keepheight - 1 \in Nat /\ b.pos + keepheight - 1 \in Int
        /\ (b.pos + keepheight - 1) + (Visible - (keepheight - 1)) > to
    BY <1>1, <1>5, VisibleType
  <2> HIDE DEF back, keepheight
  <2> QED
    BY <1>1, <1>2, <2>1, <2>2, DrawLinesFramed
<1>6. CASE ~(back >= Visible \/ keepheight <= 0) /\ back = 0 /\ b.pos + old - 1 < 1
  <2>1. DrawNew(b) = DrawLines(b, CaughtUp(screen), 1, to, 0)
    BY <1>6 DEF DrawNew, to
  <2>2. b.pos <= 1
    BY <1>1, <1>6 DEF Remembered
  <2>3. 1 + (Visible - 0) > to
    BY <1>1, <2>2, VisibleType
  <2> QED
    BY <1>1, <1>2, <2>1, <2>3, DrawLinesFramed
<1>7. CASE ~(back >= Visible \/ keepheight <= 0) /\ back = 0 /\ ~(b.pos + old - 1 < 1)
  <2>1. DrawNew(b) = DrawLines(b, CaughtUp(screen), b.pos + old - 1, to, old - 1)
    BY <1>7 DEF DrawNew, to
  <2>2. old - 1 \in Nat
    BY <1>1, <1>7 DEF Remembered
  <2>3. b.pos + old - 1 \in Int /\ (b.pos + old - 1) + (Visible - (old - 1)) > to
    BY <1>1, VisibleType
  <2> HIDE DEF old
  <2> QED
    BY <1>1, <1>2, <2>1, <2>2, <2>3, DrawLinesFramed
<1> QED
  BY <1>1, <1>3, <1>4, <1>5, <1>6, <1>7

(* A new line moves the view only while that follows the output. *)
LEMMA NewLineView ==
  ASSUME NEW b, Sound(b), b.chunks # <<>>, NEW char \in Nat, PosBound(b),
         char <= Len(LastChunk(b).text)
  PROVE  PosBound(NewLine(b, b.lastdata, char)) /\ Held(b, NewLine(b, b.lastdata, char))
<1> DEFINE ref == Ref(b.lastdata, char)
           longer == [b EXCEPT !.tab = [b.tab EXCEPT ![b.avail] = ref],
                               !.avail = b.avail + 1]
           c == NewLine(b, b.lastdata, char)
           next == IF Overflows(longer) THEN Shifted(longer) ELSE longer
<1>1. c = Followed(next)
  BY DEF NewLine, Sound, BlockType
<1>2. /\ b.avail \in 1 .. MaxLines /\ b.pos \in Nat /\ b.scrolling \in BOOLEAN
      /\ MaxLines \in Nat
  BY BlockChunks DEF Sound, BlockType
<1>3. /\ next.scrolling = b.scrolling /\ next.pos = b.pos
      /\ next.avail \in Nat /\ next.avail >= b.avail
  <2>1. longer.avail = b.avail + 1 /\ longer.scrolling = b.scrolling /\ longer.pos = b.pos
    BY DEF Sound, BlockType
  <2>2. /\ Shifted(longer).avail = b.avail /\ Shifted(longer).scrolling = b.scrolling
        /\ Shifted(longer).pos = b.pos
    BY <1>2 DEF Shifted, Sound, BlockType
  <2> HIDE DEF longer
  <2> QED
    BY <1>2, <2>1, <2>2
<1>4. Sound(c)
  BY NewLineSound
<1> HIDE DEF next
<1> HIDE DEF c
<1>5. CASE b.scrolling
  <2>1. c = next
    BY <1>1, <1>3, <1>5 DEF Followed
  <2>2. PosBound(c)
    BY <1>2, <1>3, <2>1, VisibleType DEF PosBound
  <2>3. Held(b, c)
    BY <1>3, <2>1 DEF Held
  <2> QED
    BY <2>2, <2>3 DEF c
<1>6. CASE ~b.scrolling
  <2>1. ~c.scrolling
    <3>1. c = next \/ c = [next EXCEPT !.pos = next.pos + 1]
      BY <1>1 DEF Followed
    <3>2. [next EXCEPT !.pos = next.pos + 1].scrolling = next.scrolling
      BY <1>3, <1>4 DEF next, Shifted, Sound, BlockType
    <3> QED
      BY <1>3, <1>6, <3>1, <3>2
  <2>2. c.pos = IF Visible >= c.avail THEN 1 ELSE c.avail - Visible + 1
    BY <1>4, <2>1 DEF Sound, View
  <2>3. c.avail \in Nat
    BY <1>4 DEF Sound, BlockType
  <2>4. PosBound(c)
    BY <2>2, <2>3, VisibleType DEF PosBound
  <2>5. c.scrolling = b.scrolling
    <3>1. c.scrolling \in BOOLEAN
      BY <1>4 DEF Sound, BlockType
    <3> QED
      BY <1>2, <1>6, <2>1, <3>1
  <2>6. Held(b, c)
    BY <1>6, <2>5 DEF Held
  <2> QED
    BY <2>4, <2>6 DEF c
<1> QED
  BY <1>2, <1>5, <1>6

(* Releasing old chunks leaves the view. *)
LEMMA ReleasedView ==
  ASSUME NEW b, Sound(b)
  PROVE  /\ Released(b).pos = b.pos /\ Released(b).avail = b.avail
         /\ Released(b).scrolling = b.scrolling
BY DEF Released, Sound, BlockType

(* What output_dump remembers of a view is such a view. *)
LEMMA NotedRemembered ==
  ASSUME NEW b, Sound(b), PosBound(b)
  PROVE  Remembered([pos |-> b.pos, avail |-> b.avail])
<1>1. b.pos \in Nat /\ b.avail \in Nat /\ b.avail >= 1
  BY DEF Sound, BlockType, Table
<1> QED
  BY <1>1, VisibleType DEF Remembered, PosBound

(* Laying out moves the view with the end only, and scrolling not beyond.  *)
LEMMA WrapView ==
  ASSUME IInv, PosBound(block), Wrap
  PROVE  block'.made /\ PosBound(block') /\ Held(block, block')
<1> DEFINE fits == Width - job.x
           done == job.done + fits
           new == [LastChunk(block) EXCEPT !.wrap = TRUE]
           w == [block EXCEPT !.chunks = [block.chunks EXCEPT ![Len(block.chunks)] = new]]
<1>1. ~Idle /\ job.left > fits
  BY DEF Wrap
<1>2. block.made /\ Sound(block) /\ block.chunks # <<>> /\ job.at = block.lastdata
      /\ job.done + job.left <= Len(LastChunk(block).text)
  BY <1>1 DEF IInv, JobSound, BlockSound
<1>3. /\ done \in Nat /\ done <= job.done + job.left /\ job.done + job.left \in Nat
  BY <1>1, StoreAssumption DEF IInv, JobType, StoreAssumption
<1>4. PICK c : c = w
  OBVIOUS
<1>5. LastChunk(block) \in ChunkType
  BY <1>2 DEF LastChunk, Sound, BlockType
<1>6. new \in ChunkType /\ new.text = LastChunk(block).text
  BY <1>5 DEF ChunkType
<1>7. block' = NewLine(c, job.at, done)
  BY <1>2, <1>4 DEF Wrap, LastChunk, Sound, BlockType
<1>8. /\ Sound(c) /\ c.chunks # <<>> /\ c.lastdata = block.lastdata /\ c.made = block.made
      /\ LastChunk(c).text = LastChunk(block).text
      /\ c.pos = block.pos /\ c.avail = block.avail /\ c.scrolling = block.scrolling
  <2>1. [block EXCEPT !.chunks[Len(block.chunks)].wrap = TRUE] = c
    BY <1>2, <1>4 DEF LastChunk, Sound, BlockType
  <2>2. c.pos = block.pos /\ c.avail = block.avail /\ c.scrolling = block.scrolling
    BY <1>2, <1>4 DEF Sound, BlockType
  <2> HIDE DEF w
  <2> QED
    BY <1>2, <2>1, <2>2, WrappedSound
<1> HIDE DEF done, w, new, fits
<1>9. PosBound(c)
  BY <1>8 DEF PosBound
<1>10. Len(LastChunk(c).text) \in Nat
  BY <1>5, <1>8 DEF ChunkType
<1>11. done \in Nat /\ done <= Len(LastChunk(c).text)
  BY <1>2, <1>3, <1>8, <1>10
<1>12. PICK r : r = NewLine(c, c.lastdata, done)
  OBVIOUS
<1>13. PosBound(r) /\ r.made /\ Held(c, r)
  BY <1>2, <1>8, <1>9, <1>11, <1>12, NewLineView, NewLineSound
<1>14. Held(block, r)
  BY <1>8, <1>13 DEF Held
<1> QED
  BY <1>2, <1>7, <1>8, <1>12, <1>13, <1>14

LEMMA FinishView ==
  ASSUME IInv, PosBound(block), Finish
  PROVE  block'.made /\ PosBound(block') /\ Held(block, block')
<1> DEFINE feeds == LastChunk(block).feed
           char == job.done + job.left
           laid == IF feeds THEN NewLine(block, job.at, char) ELSE block
           endx == IF feeds THEN 0 ELSE job.x + job.left
           new == [LastChunk(laid) EXCEPT !.endx = endx]
           c == [laid EXCEPT !.chunks = [laid.chunks EXCEPT ![Len(laid.chunks)] = new]]
<1>1. ~Idle /\ job.left <= Width - job.x
  BY DEF Finish
<1>2. block.made /\ Sound(block) /\ block.chunks # <<>> /\ job.at = block.lastdata
      /\ char <= Len(LastChunk(block).text)
  BY <1>1 DEF IInv, JobSound, BlockSound
<1>3. /\ char \in Nat /\ job.x + job.left \in 0 .. Width /\ 0 \in 0 .. Width
  BY <1>1, StoreAssumption DEF IInv, JobType, StoreAssumption
<1>4. PICK l : l = laid
  OBVIOUS
<1> HIDE DEF char
<1>5. Sound(l) /\ l.made /\ l.chunks # <<>> /\ PosBound(l) /\ Held(block, l)
  <2>1. CASE feeds
    <3>1. l = NewLine(block, block.lastdata, char)
      BY <1>2, <1>4, <2>1
    <3> QED
      BY <1>2, <1>3, <3>1, NewLineView, NewLineSound
  <2>2. CASE ~feeds
    BY <1>2, <1>4, <2>2 DEF Held
  <2> QED
    BY <2>1, <2>2
<1>6. endx \in 0 .. Width
  BY <1>3
<1>7. block' = Released(c)
  BY <1>4, <1>5 DEF Finish, LastChunk, Sound, BlockType, char
<1>8. PICK k : k = c
  OBVIOUS
<1> HIDE DEF laid, endx
<1>9. LastChunk(l) \in ChunkType /\ l.chunks \in Seq(ChunkType)
      /\ Len(l.chunks) \in 1 .. Len(l.chunks)
  BY <1>5 DEF LastChunk, Sound, BlockType
<1>10. /\ new \in ChunkType /\ new.at = LastChunk(l).at /\ new.text = LastChunk(l).text
       /\ new.type = LastChunk(l).type /\ new.length = LastChunk(l).length
  BY <1>4, <1>6, <1>9 DEF ChunkType
<1>11. k = [l EXCEPT !.chunks = [l.chunks EXCEPT ![Len(l.chunks)] = new]]
  BY <1>4, <1>8
<1> HIDE DEF new, c
<1>12. /\ Sound(k) /\ k.made = l.made /\ k.pos = l.pos /\ k.avail = l.avail
       /\ k.scrolling = l.scrolling /\ Len(k.chunks) = Len(l.chunks)
  <2>1. PICK m, e : m = Len(l.chunks) /\ e = new
    OBVIOUS
  <2>2. m \in 1 .. Len(l.chunks) /\ e \in ChunkType
    BY <1>9, <1>10, <2>1
  <2>3. e.at = l.chunks[m].at /\ e.text = l.chunks[m].text
    BY <1>10, <2>1 DEF LastChunk
  <2>4. e.type = l.chunks[m].type /\ e.length = l.chunks[m].length
    BY <1>10, <2>1 DEF LastChunk
  <2>5. PICK r : r = [l EXCEPT !.chunks = [l.chunks EXCEPT ![m] = e]]
    OBVIOUS
  <2>6. Sound(r) /\ r.made = l.made /\ Len(r.chunks) = Len(l.chunks)
    <3>1. Sound(l) /\ (e.type \in Streams => e.type = l.chunks[m].type /\ e.length = l.chunks[m].length)
      BY <1>5, <2>4
    <3> QED
      BY <2>2, <2>3, <2>5, <3>1, RelabelledSound, ZenonT(60)
  <2>7. r.pos = l.pos /\ r.avail = l.avail /\ r.scrolling = l.scrolling
    BY <1>5, <2>2, <2>5 DEF Sound, BlockType
  <2>8. k = r
    BY <1>11, <2>1, <2>5
  <2> QED
    BY <2>6, <2>7, <2>8
<1>13. k.chunks # <<>>
  BY <1>9, <1>12
<1>14. /\ Released(k).pos = k.pos /\ Released(k).avail = k.avail /\ Released(k).made = k.made
       /\ Released(k).scrolling = k.scrolling
  BY <1>12, <1>13, ReleasedView, ReleasedSound
<1> QED
  BY <1>5, <1>7, <1>8, <1>12, <1>14 DEF PosBound, Held

LEMMA ScrollView ==
  ASSUME IInv, PosBound(block), NEW k \in Int, Scroll(k)
  PROVE  block'.made /\ PosBound(block')
<1>1. block.made /\ Sound(block) /\ k > 0
  BY DEF Scroll, IInv, BlockSound
<1>2. block.avail \in Nat /\ block.avail >= 1 /\ block.pos \in Nat /\ block.pos >= 1
  BY <1>1 DEF Sound, BlockType, Table, View
<1>3. /\ block'.made = block.made /\ block'.avail = block.avail
      /\ block'.pos <= IF Visible >= block.avail THEN 1 ELSE block.avail - Visible + 1
  <2>1. CASE block' = ScrolledBack(block, k)
    <3>1. /\ block'.made = block.made /\ block'.avail = block.avail
          /\ block'.pos = IF k >= block.pos THEN 1 ELSE block.pos - k
      BY <1>1, <2>1 DEF ScrolledBack, Sound, BlockType
    <3> QED
      BY <1>1, <1>2, <3>1, VisibleType DEF PosBound
  <2>2. CASE block' = ScrolledOn(block, k)
    <3>1. PICK on : on = IF block.pos + k > block.avail THEN block.avail ELSE block.pos + k
      OBVIOUS
    <3>2. /\ block'.made = block.made /\ block'.avail = block.avail
          /\ block'.pos = IF on + Visible > block.avail
                          THEN IF Visible > block.avail THEN 1 ELSE block.avail - Visible + 1
                          ELSE on
      <4>1. CASE on + Visible > block.avail
        BY <1>1, <2>2, <3>1, <4>1 DEF ScrolledOn, Sound, BlockType
      <4>2. CASE ~(on + Visible > block.avail)
        BY <1>1, <2>2, <3>1, <4>2 DEF ScrolledOn, Sound, BlockType
      <4> QED
        BY <4>1, <4>2
    <3>3. on \in Nat /\ on >= 1
      BY <1>1, <1>2, <3>1
    <3> QED
      BY <1>2, <3>2, <3>3, VisibleType
  <2> QED
    BY <2>1, <2>2 DEF Scroll
<1> QED
  BY <1>1, <1>3 DEF PosBound

(* A new store. *)
LEMMA EmptyView == EmptyBlock.made /\ PosBound(EmptyBlock)
BY VisibleType DEF EmptyBlock, PosBound

(* Every step of the drawing is a step of the store or leaves it alone. *)
LEMMA StoreStep == [ScreenNext]_screenVars => [Next]_vars
<1>1. ASSUME NEW k \in 1 .. MaxLines, ScrollLines(k) PROVE Next
  BY <1>1 DEF ScrollLines, Next
<1>2. ASSUME NEW stream \in Streams, NEW n \in Pieces, NEW feed \in BOOLEAN,
             AddChunk(stream, n, feed)
      PROVE  Next
  BY <1>2 DEF AddChunk, Next
<1> QED
  BY <1>1, <1>2
  DEF ScreenNext, Next, WrapLine, FinishChunk, Refresh, Redraw, EraseAll, ClearAll, screenVars,
      vars

(* The invariant of the margins. *)
LEMMA InitMargin == ScreenInit => IInv /\ MarginInv
<1> SUFFICES ASSUME ScreenInit PROVE MarginInv
  BY InitInv DEF ScreenInit
<1>1. Framed(screen)
  BY BlankFramed DEF ScreenInit
<1>2. block.made => PosBound(block)
  BY EmptyView, NoBlockType DEF ScreenInit, Init
<1>3. Remembered(last)
  <2>1. CASE block = EmptyBlock
    <3>1. Remembered([pos |-> block.pos, avail |-> block.avail])
      BY <2>1, EmptyView, EmptySound, NotedRemembered
    <3> QED
      BY <3>1 DEF ScreenInit
  <2>2. CASE block = NoBlock
    <3>1. last = [pos |-> 0, avail |-> 0]
      BY <2>2 DEF ScreenInit, NoBlock
    <3> QED
      BY <3>1 DEF Remembered
  <2> QED
    BY <2>1, <2>2 DEF ScreenInit, Init
<1> QED
  BY <1>1, <1>2, <1>3 DEF MarginInv, ScreenInit

LEMMA NextMargin == IInv /\ MarginInv /\ [ScreenNext]_screenVars => MarginInv'
<1> SUFFICES ASSUME IInv, MarginInv, [ScreenNext]_screenVars PROVE MarginInv'
  OBVIOUS
<1>1. IInv'
  BY StoreStep, NextInv
<1>2. block.made => Sound(block) /\ block.pos \in Nat /\ block.avail \in Nat
  BY DEF IInv, BlockSound, Sound, BlockType
<1>3. block'.made => Sound(block') /\ block'.pos \in Nat /\ block'.avail \in Nat
  BY <1>1 DEF IInv, BlockSound, Sound, BlockType
<1>4. ASSUME NEW stream \in Streams, NEW n \in Pieces, NEW feed \in BOOLEAN,
             AddChunk(stream, n, feed)
      PROVE  MarginInv'
  <2>1. block.made /\ Store(stream, n, feed) /\ UNCHANGED <<screen, last>>
    BY <1>4 DEF AddChunk, Store
  <2>2. block'.made /\ block'.pos = block.pos /\ block'.avail = block.avail
    BY <2>1, StoreView
  <2> QED
    BY <2>1, <2>2 DEF MarginInv, PosBound
<1>5. CASE WrapLine
  <2>1. Wrap /\ UNCHANGED <<adding, screen, last>> /\ block.made
    BY <1>5 DEF WrapLine, Counted, Wrap, IInv, JobSound
  <2>2. block'.made /\ PosBound(block')
    BY <2>1, WrapView DEF MarginInv
  <2> QED
    BY <2>1, <2>2 DEF MarginInv
<1>6. CASE FinishChunk
  <2>1. Finish /\ UNCHANGED <<adding, screen, last>> /\ block.made
    BY <1>6 DEF FinishChunk, Counted, Finish, IInv, JobSound
  <2>2. block'.made /\ PosBound(block')
    BY <2>1, FinishView DEF MarginInv
  <2> QED
    BY <2>1, <2>2 DEF MarginInv
<1>7. CASE Refresh
  <2>1. /\ block.made /\ block' = block /\ adding' = NoShow /\ screen' = DrawNew(block)
        /\ last' = [pos |-> block.pos, avail |-> block.avail]
    BY <1>7 DEF Refresh, MarginInv, Noted, vars
  <2>2. Framed(DrawNew(block))
    BY <1>2, <2>1, DrawNewFramed DEF MarginInv
  <2>3. Remembered(last')
    BY <1>2, <2>1, NotedRemembered DEF MarginInv
  <2> QED
    BY <2>1, <2>2, <2>3 DEF MarginInv
<1>8. ASSUME NEW k \in 1 .. MaxLines, ScrollLines(k) PROVE MarginInv'
  <2>1. /\ Scroll(k) /\ adding' = adding /\ adding = NoShow /\ screen' = DrawNew(block')
        /\ last' = [pos |-> block'.pos, avail |-> block'.avail]
        /\ block.made
    BY <1>8 DEF ScrollLines, Noted, Scroll
  <2>2. block'.made /\ PosBound(block')
    BY <2>1, ScrollView DEF MarginInv
  <2>3. PICK b : b = block'
    OBVIOUS
  <2>4. Framed(DrawNew(b))
    BY <1>3, <2>2, <2>3, DrawNewFramed DEF MarginInv
  <2>5. Remembered([pos |-> b.pos, avail |-> b.avail])
    BY <1>3, <2>2, <2>3, NotedRemembered
  <2> QED
    BY <2>1, <2>2, <2>3, <2>4, <2>5 DEF MarginInv
<1>9. CASE Redraw
  <2>1. /\ block.made /\ block' = block /\ adding' = adding /\ screen' = DrawAll(block)
        /\ last' = [pos |-> block.pos, avail |-> block.avail]
    BY <1>9 DEF Redraw, Noted, vars
  <2>2. Framed(DrawAll(block))
    BY <1>2, <2>1, DrawAllFramed DEF MarginInv
  <2>3. Remembered(last')
    BY <1>2, <2>1, NotedRemembered DEF MarginInv
  <2> QED
    BY <2>1, <2>2, <2>3 DEF MarginInv
<1>10. CASE EraseAll
  <2>1. /\ block' = EmptyBlock \/ block' = NoBlock
        /\ screen' = Erased(screen, Rows) /\ adding' = adding /\ adding = NoShow
        /\ IF block'.made THEN last' = [pos |-> block'.pos, avail |-> block'.avail]
           ELSE last' = last
    BY <1>10 DEF EraseAll, Clear, Noted
  <2>2. Framed(Erased(screen, Rows))
    BY ErasedFramed DEF MarginInv
  <2>3. block'.made => PosBound(block')
    BY <2>1, EmptyView, NoBlockType
  <2>4. Remembered(last')
    <3>1. PICK b : b = block'
      OBVIOUS
    <3>2. b.made => Remembered([pos |-> b.pos, avail |-> b.avail])
      BY <1>3, <2>3, <3>1, NotedRemembered
    <3> QED
      BY <2>1, <3>1, <3>2 DEF MarginInv
  <2> QED
    BY <2>1, <2>2, <2>3, <2>4 DEF MarginInv
<1>11. CASE ClearAll
  <2>1. /\ block' = EmptyBlock \/ block' = NoBlock
        /\ screen' = screen /\ adding' = adding /\ adding = NoShow /\ last' = last
    BY <1>11 DEF ClearAll, Clear
  <2>2. block'.made => PosBound(block')
    BY <2>1, EmptyView, NoBlockType
  <2> QED
    BY <2>1, <2>2 DEF MarginInv
<1>12. CASE UNCHANGED screenVars
  BY <1>12 DEF screenVars, vars, MarginInv
<1> QED
  BY <1>4, <1>5, <1>6, <1>7, <1>8, <1>9, <1>10, <1>11, <1>12 DEF ScreenNext

-----------------------------------------------------------------------------
(* What a drawing relies on.  A line starts in a chunk that still has its  *)
(* header, or is lost to the drawing.                                      *)
OfText(b, ref) ==
  \A k \in 1 .. Len(b.chunks) : b.chunks[k].at = ref.chunk => b.chunks[k].type \in Streams
Bare(b, ref) ==
  \E k \in 1 .. Len(b.chunks) : b.chunks[k].at = ref.chunk /\ b.chunks[k].text = <<>>
Lost(b, i) == ~OfText(b, b.tab[i - 1]) \/ (i < b.avail /\ Bare(b, b.tab[i]))

(* Only the first chunk loses its header, when the table is full.          *)
Heads(b) ==
  \A k \in 1 .. Len(b.chunks) :
    b.chunks[k].type \in Streams \/ (k = 1 /\ b.avail = MaxLines)
(* Behind the last line the table is clear, or what the overflow left.     *)
Stale(b) ==
  \A j \in b.avail .. MaxLines :
    b.tab[j] = NoRef \/ (b.avail = MaxLines /\ j = MaxLines /\ b.tab[j] = b.tab[j - 1])
(* Of two lines in one chunk the later one starts further on, or there is  *)
(* no text in the chunk.                                                   *)
Rises(r, s, text) == r.char < s.char \/ (r.char = s.char /\ text = <<>>)
Distinct(b) ==
  \A i \in 1 .. b.avail - 1, k \in 1 .. Len(b.chunks) :
    b.tab[i - 1].chunk = b.tab[i].chunk /\ b.chunks[k].at = b.tab[i].chunk
      => Rises(b.tab[i - 1], b.tab[i], b.chunks[k].text)
(* A line starts inside a chunk behind its newline or where it was wrapped. *)
Flagged(b) ==
  \A i \in 0 .. b.avail - 1, k \in 1 .. Len(b.chunks) :
    b.chunks[k].at = b.tab[i].chunk /\ b.chunks[k].type \in Streams /\ b.tab[i].char > 0
      => b.chunks[k].feed \/ b.chunks[k].wrap
(* A chunk without text is one for a newline. *)
Empties(b) ==
  \A k \in 1 .. Len(b.chunks) :
    b.chunks[k].type \in Streams /\ b.chunks[k].text = <<>> => b.chunks[k].feed
Tidy(b) == Heads(b) /\ Stale(b) /\ Distinct(b) /\ Flagged(b) /\ Empties(b)

(* The first m chunks say how far the line in which they end has come.     *)
Ends(b, m) ==
  \A i \in 1 .. b.avail, k \in 1 .. m :
    /\ OfText(b, b.tab[i - 1]) /\ b.tab[i - 1].chunk <= b.chunks[k].at
    /\ i < b.avail => b.chunks[k].at < b.tab[i].chunk
    => b.chunks[k].endx = Len(Texts(b.chunks)[k]) - Start(b, i)

(* The lines of c are those of b without the first ones, which are lost:   *)
(* what c can draw, b could.                                               *)
Keeps(b, c, lost) ==
  \A i \in 1 .. c.avail, j \in 1 .. b.avail : j = i + lost =>
    /\ OfText(c, c.tab[i - 1]) => OfText(b, b.tab[j - 1])
    /\ ~Lost(c, i) => ~Lost(b, j)

-----------------------------------------------------------------------------
(* No two chunks stand at one place. *)
LEMMA OneChunk ==
  ASSUME NEW b, Sound(b), NEW i \in 1 .. Len(b.chunks), NEW j \in 1 .. Len(b.chunks),
         b.chunks[i].at = b.chunks[j].at
  PROVE  i = j
<1>1. /\ b.chunks[i].at \in Nat /\ b.chunks[j].at \in Nat
      /\ i < j => b.chunks[i].at < b.chunks[j].at
  BY ChunkOrder
<1>2. j < i => b.chunks[j].at < b.chunks[i].at
  BY ChunkOrder
<1>3. Len(b.chunks) \in Nat
  BY BlockChunks
<1> QED
  BY <1>1, <1>2, <1>3

(* Chunks with the same text hold the same texts. *)
LEMMA SameTexts ==
  ASSUME NEW cs \in Seq(ChunkType), NEW ds \in Seq(ChunkType), NEW q \in Nat,
         q <= Len(cs), q <= Len(ds), \A k \in 1 .. q : ds[k].text = cs[k].text
  PROVE  \A k \in 0 .. q : Texts(ds)[k] = Texts(cs)[k]
<1>1. PICK S, T : S = Texts(cs) /\ T = Texts(ds)
  OBVIOUS
<1>2. /\ Len(cs) \in Nat /\ Len(ds) \in Nat
      /\ \A k \in 1 .. q : k \in 1 .. Len(cs) /\ k \in 1 .. Len(ds)
  OBVIOUS
<1>3. /\ S[0] = <<>> /\ T[0] = <<>>
      /\ \A k \in 1 .. Len(cs) : S[k] = Joined(S[k - 1], cs[k])
      /\ \A k \in 1 .. Len(ds) : T[k] = Joined(T[k - 1], ds[k])
  BY <1>1, <1>2, TextsAre
<1> DEFINE G == {k \in 0 .. q : T[k] = S[k]}
<1>4. 0 \in G
  BY <1>3
<1>5. ASSUME NEW k \in 1 .. q, k - 1 \in G PROVE k \in G
  <2>1. T[k - 1] = S[k - 1] /\ k \in 0 .. q
    BY <1>5
  <2>2. T[k] = Joined(T[k - 1], ds[k]) /\ S[k] = Joined(S[k - 1], cs[k])
    BY <1>2, <1>3
  <2>3. Joined(T[k - 1], ds[k]) = Joined(S[k - 1], cs[k])
    BY <2>1 DEF Joined
  <2> QED
    BY <2>1, <2>2, <2>3
<1>6. \A k \in 0 .. q : k \in G
  <2> HIDE DEF G
  <2> QED
    BY <1>4, <1>5, Upto
<1> QED
  BY <1>1, <1>6

(* Where a line starts. *)
LEMMA StartIs ==
  ASSUME NEW b, Sound(b), NEW i \in 1 .. b.avail, NEW k \in 1 .. Len(b.chunks),
         b.chunks[k].at = b.tab[i - 1].chunk
  PROVE  /\ Start(b, i) = Len(Texts(b.chunks)[k - 1]) + b.tab[i - 1].char
         /\ b.tab[i - 1] \in RefType
<1>1. PICK h : h = i - 1
  OBVIOUS
<1>2. h \in 0 .. b.avail - 1
  BY <1>1, BlockChunks
<1>3. b.tab[h] \in RefType
  BY <1>2, BlockChunks
<1> QED
  BY <1>1, <1>3, OffsetIs DEF Start

(* The chunk in which a line starts. *)
LEMMA StartChunk ==
  ASSUME NEW b, Sound(b), b.chunks # <<>>, NEW i \in 1 .. b.avail
  PROVE  \E k \in 1 .. Len(b.chunks) :
           b.chunks[k].at = b.tab[i - 1].chunk /\ b.tab[i - 1].char <= Len(b.chunks[k].text)
<1>1. PICK h : h = i - 1
  OBVIOUS
<1>2. h \in 0 .. b.avail - 1
  BY <1>1, BlockChunks
<1> QED
  BY <1>1, <1>2, TableBounds DEF InChunk

(* c has the chunks of b, of which the last one may hold more text and     *)
(* flags, perhaps another one behind them, and the same table.             *)
Grows(b, c) ==
  /\ c.tab = b.tab /\ c.avail = b.avail /\ Len(b.chunks) <= Len(c.chunks)
  /\ \A k \in 1 .. Len(b.chunks) :
       /\ c.chunks[k].at = b.chunks[k].at /\ c.chunks[k].type = b.chunks[k].type
       /\ k < Len(b.chunks) => c.chunks[k].text = b.chunks[k].text
       /\ c.chunks[k].text = <<>> <=> b.chunks[k].text = <<>>
       /\ b.chunks[k].feed => c.chunks[k].feed
       /\ b.chunks[k].wrap => c.chunks[k].wrap
  /\ \A k \in Len(b.chunks) + 1 .. Len(c.chunks) :
       c.chunks[k].type \in Streams /\ (c.chunks[k].text = <<>> => c.chunks[k].feed)

(* No line starts in the chunk that is added. *)
LEMMA NewUnused ==
  ASSUME NEW b, Sound(b), NEW c, Sound(c), Grows(b, c), b.chunks # <<>>,
         NEW i \in 0 .. b.avail - 1, NEW k \in 1 .. Len(c.chunks),
         c.chunks[k].at = b.tab[i].chunk
  PROVE  k \in 1 .. Len(b.chunks)
<1>1. PICK j \in 1 .. Len(b.chunks) : b.chunks[j].at = b.tab[i].chunk
  BY TableBounds DEF InChunk
<1>2. Len(b.chunks) \in Nat /\ Len(c.chunks) \in Nat /\ Len(b.chunks) <= Len(c.chunks)
  BY BlockChunks DEF Grows
<1>3. j \in 1 .. Len(c.chunks) /\ c.chunks[j].at = b.chunks[j].at
  BY <1>2 DEF Grows
<1>4. j = k
  BY <1>1, <1>3, OneChunk
<1> QED
  BY <1>4

(* An empty block and its first chunk. *)
LEMMA EmptyTable ==
  ASSUME NEW b, Sound(b), b.chunks = <<>>
  PROVE  /\ b.avail = 1 /\ b.tab[0].char = 0 /\ Len(b.chunks) = 0
         /\ \A i \in 0 .. b.avail - 1 : i = 0
         /\ \A i \in 1 .. b.avail : i = 1 /\ i - 1 = 0
<1>1. b.avail = 1 /\ b.tab[0] = Ref(HeadLength, 0)
  BY DEF Sound, Table
<1> QED
  BY <1>1 DEF Ref

(* A store that grows stays tidy.                                          *)
LEMMA GrowTidy ==
  ASSUME NEW b, Sound(b), NEW c, Sound(c), Grows(b, c), Tidy(b)
  PROVE  Tidy(c)
<1> DEFINE n == Len(b.chunks)
<1>1. /\ n \in Nat /\ Len(c.chunks) \in Nat /\ n <= Len(c.chunks)
      /\ b.avail \in Nat /\ b.avail \in 1 .. MaxLines
      /\ c.avail = b.avail /\ c.tab = b.tab
  BY BlockChunks DEF Grows
<1>2. ASSUME NEW k \in 1 .. n
      PROVE  /\ c.chunks[k].at = b.chunks[k].at /\ c.chunks[k].type = b.chunks[k].type
             /\ c.chunks[k].text = <<>> <=> b.chunks[k].text = <<>>
             /\ b.chunks[k].feed => c.chunks[k].feed
             /\ b.chunks[k].wrap => c.chunks[k].wrap
  BY DEF Grows
<1>3. ASSUME NEW k \in 1 .. Len(c.chunks), k \notin 1 .. n
      PROVE  c.chunks[k].type \in Streams /\ (c.chunks[k].text = <<>> => c.chunks[k].feed)
  <2>1. k \in n + 1 .. Len(c.chunks)
    BY <1>1, <1>3
  <2> QED
    BY <2>1 DEF Grows
<1>4. ASSUME NEW k \in 1 .. Len(c.chunks), k \notin 1 .. n,
             NEW i \in 0 .. b.avail - 1, c.chunks[k].at = b.tab[i].chunk
      PROVE  b.avail = 1 /\ b.tab[i].char = 0
  <2>1. CASE b.chunks = <<>>
    BY <2>1, EmptyTable
  <2>2. CASE b.chunks # <<>>
    BY <1>4, <2>2, NewUnused
  <2> QED
    BY <2>1, <2>2
<1>5. Heads(c)
  <2>1. ASSUME NEW k \in 1 .. Len(c.chunks)
        PROVE  c.chunks[k].type \in Streams \/ (k = 1 /\ c.avail = MaxLines)
    <3>1. CASE k \in 1 .. n
      BY <1>1, <1>2, <3>1 DEF Tidy, Heads
    <3>2. CASE k \notin 1 .. n
      BY <1>3, <3>2
    <3> QED
      BY <3>1, <3>2
  <2> QED
    BY <2>1 DEF Heads
<1>6. Stale(c)
  BY <1>1 DEF Tidy, Stale
<1>7. Distinct(c)
  <2>1. ASSUME NEW i \in 1 .. b.avail - 1, NEW k \in 1 .. Len(c.chunks),
               b.tab[i - 1].chunk = b.tab[i].chunk, c.chunks[k].at = b.tab[i].chunk
        PROVE  Rises(b.tab[i - 1], b.tab[i], c.chunks[k].text)
    <3>1. i \in 0 .. b.avail - 1 /\ b.avail # 1
      BY <1>1
    <3>2. k \in 1 .. n
      BY <1>4, <2>1, <3>1
    <3>3. Rises(b.tab[i - 1], b.tab[i], b.chunks[k].text)
      BY <1>2, <2>1, <3>2 DEF Tidy, Distinct
    <3> QED
      BY <1>2, <3>2, <3>3 DEF Rises
  <2> QED
    BY <1>1, <2>1 DEF Distinct
<1>8. Flagged(c)
  <2>1. ASSUME NEW i \in 0 .. b.avail - 1, NEW k \in 1 .. Len(c.chunks),
               c.chunks[k].at = b.tab[i].chunk, c.chunks[k].type \in Streams, b.tab[i].char > 0
        PROVE  c.chunks[k].feed \/ c.chunks[k].wrap
    <3>1. k \in 1 .. n
      <4>1. b.tab[i].char # 0
        BY <2>1
      <4> QED
        BY <1>4, <2>1, <4>1
    <3>2. b.chunks[k].at = b.tab[i].chunk /\ b.chunks[k].type \in Streams
      BY <1>2, <2>1, <3>1
    <3>3. b.chunks[k].feed \/ b.chunks[k].wrap
      BY <2>1, <3>1, <3>2 DEF Tidy, Flagged
    <3> QED
      BY <1>2, <3>1, <3>3
  <2> QED
    BY <1>1, <2>1 DEF Flagged
<1>9. Empties(c)
  <2>1. ASSUME NEW k \in 1 .. Len(c.chunks), c.chunks[k].type \in Streams,
               c.chunks[k].text = <<>>
        PROVE  c.chunks[k].feed
    <3>1. CASE k \in 1 .. n
      <4>1. b.chunks[k].type \in Streams /\ b.chunks[k].text = <<>>
        BY <1>2, <2>1, <3>1
      <4>2. b.chunks[k].feed
        BY <3>1, <4>1 DEF Tidy, Empties
      <4> QED
        BY <1>2, <3>1, <4>2
    <3>2. CASE k \notin 1 .. n
      BY <1>3, <2>1, <3>2
    <3> QED
      BY <3>1, <3>2
  <2> QED
    BY <2>1 DEF Empties
<1> QED
  BY <1>5, <1>6, <1>7, <1>8, <1>9 DEF Tidy

(* Its lines start where they did and end no earlier.                      *)
LEMMA GrowKeeps ==
  ASSUME NEW b, Sound(b), NEW c, Sound(c), Grows(b, c)
  PROVE  Keeps(b, c, 0)
<1> DEFINE n == Len(b.chunks)
<1>1. /\ n \in Nat /\ Len(c.chunks) \in Nat /\ n <= Len(c.chunks)
      /\ b.avail \in Nat /\ c.avail = b.avail /\ c.tab = b.tab
  BY BlockChunks DEF Grows
<1>2. ASSUME NEW k \in 1 .. n
      PROVE  /\ k \in 1 .. Len(c.chunks)
             /\ c.chunks[k].at = b.chunks[k].at /\ c.chunks[k].type = b.chunks[k].type
             /\ c.chunks[k].text = <<>> <=> b.chunks[k].text = <<>>
  BY <1>1 DEF Grows
<1>3. ASSUME NEW i \in 1 .. b.avail
      PROVE  /\ OfText(c, c.tab[i - 1]) => OfText(b, b.tab[i - 1])
             /\ ~Lost(c, i) => ~Lost(b, i)
  <2>1. OfText(c, c.tab[i - 1]) => OfText(b, b.tab[i - 1])
    BY <1>1, <1>2 DEF OfText
  <2>2. Bare(b, b.tab[i]) => Bare(c, c.tab[i])
    BY <1>1, <1>2 DEF Bare
  <2> QED
    BY <1>1, <2>1, <2>2 DEF Lost
<1>4. ASSUME NEW i \in 1 .. c.avail, NEW j \in 1 .. b.avail, j = i + 0
      PROVE  /\ OfText(c, c.tab[i - 1]) => OfText(b, b.tab[j - 1])
             /\ ~Lost(c, i) => ~Lost(b, j)
  <2>1. j = i
    BY <1>4
  <2> QED
    BY <1>3, <2>1
<1> QED
  BY <1>4 DEF Keeps

(* The columns its chunks say stay right.                                  *)
LEMMA GrowEnds ==
  ASSUME NEW b, Sound(b), NEW c, Sound(c), Grows(b, c)
  PROVE  /\ \A i \in 1 .. b.avail : Start(c, i) = Start(b, i)
         /\ \A m \in 0 .. Len(b.chunks) :
              /\ m = Len(b.chunks) => \A k \in 1 .. m : c.chunks[k].text = b.chunks[k].text
              /\ \A k \in 1 .. m : c.chunks[k].endx = b.chunks[k].endx
              /\ Ends(b, m)
              => Ends(c, m)
<1> DEFINE n == Len(b.chunks)
<1>1. /\ n \in Nat /\ Len(c.chunks) \in Nat /\ n <= Len(c.chunks)
      /\ b.chunks \in Seq(ChunkType) /\ c.chunks \in Seq(ChunkType)
      /\ b.avail \in Nat /\ c.avail = b.avail /\ c.tab = b.tab
  BY BlockChunks DEF Grows
<1>2. ASSUME NEW k \in 1 .. n
      PROVE  /\ k \in 1 .. Len(c.chunks)
             /\ c.chunks[k].at = b.chunks[k].at /\ c.chunks[k].type = b.chunks[k].type
             /\ k < n => c.chunks[k].text = b.chunks[k].text
  BY <1>1 DEF Grows
<1>3. PICK S, T : S = Texts(b.chunks) /\ T = Texts(c.chunks)
  OBVIOUS
<1>4. ASSUME NEW m \in 0 .. n, m = n => \A k \in 1 .. m : c.chunks[k].text = b.chunks[k].text
      PROVE  \A k \in 0 .. m : T[k] = S[k]
  <2>1. m \in Nat /\ m <= Len(b.chunks) /\ m <= Len(c.chunks)
    BY <1>1
  <2>2. \A k \in 1 .. m : c.chunks[k].text = b.chunks[k].text
    <3>1. CASE m = n
      BY <1>4, <3>1
    <3>2. CASE m # n
      <4>1. \A k \in 1 .. m : k \in 1 .. n /\ k < n
        BY <1>1, <3>2
      <4> QED
        BY <1>2, <4>1
    <3> QED
      BY <3>1, <3>2
  <2> HIDE DEF n
  <2> QED
    BY <1>1, <1>3, <2>1, <2>2, SameTexts
<1>5. ASSUME NEW k \in 1 .. n PROVE T[k - 1] = S[k - 1]
  <2>1. PICK m : m = k - 1
    OBVIOUS
  <2>2. m \in 0 .. n /\ m # n /\ m \in 0 .. m
    BY <1>1, <2>1
  <2> QED
    BY <1>4, <2>1, <2>2
<1>6. ASSUME NEW i \in 1 .. b.avail PROVE Start(c, i) = Start(b, i)
  <2>1. CASE b.chunks = <<>>
    <3>1. i = 1 /\ b.avail = 1 /\ b.tab[0] = Ref(HeadLength, 0)
      BY <2>1, EmptyTable DEF Sound, Table
    <3>2. Start(b, 1) = 0
      BY <2>1, EmptyOffset DEF Start
    <3>3. CASE c.chunks = <<>>
      BY <3>1, <3>2, <3>3, EmptyOffset DEF Start
    <3>4. CASE c.chunks # <<>>
      <4>1. 1 \in 1 .. Len(c.chunks) /\ c.chunks[1].at = HeadLength
        <5>1. 1 \in 1 .. Len(c.chunks)
          BY <1>1, <3>4
        <5> QED
          BY <5>1 DEF Sound, Chain
      <4>2. c.tab[0].chunk = HeadLength /\ c.tab[0].char = 0
        BY <1>1, <3>1 DEF Ref
      <4>3. Start(c, 1) = Len(T[1 - 1]) + 0
        BY <1>1, <1>3, <3>1, <4>1, <4>2, StartIs
      <4>4. T[1 - 1] = <<>>
        <5>1. T[0] = <<>>
          BY <1>1, <1>3, TextsAre
        <5> QED
          BY <5>1
      <4> QED
        BY <3>1, <3>2, <4>3, <4>4
    <3> QED
      BY <3>3, <3>4
  <2>2. CASE b.chunks # <<>>
    <3>1. PICK k \in 1 .. n : b.chunks[k].at = b.tab[i - 1].chunk
      BY <2>2, StartChunk
    <3>2. Start(b, i) = Len(S[k - 1]) + b.tab[i - 1].char
      BY <1>3, <3>1, StartIs
    <3>3. k \in 1 .. Len(c.chunks) /\ c.chunks[k].at = c.tab[i - 1].chunk /\ i \in 1 .. c.avail
      BY <1>1, <1>2, <3>1
    <3>4. Start(c, i) = Len(T[k - 1]) + c.tab[i - 1].char
      BY <1>3, <3>3, StartIs
    <3> QED
      BY <1>1, <1>5, <3>2, <3>4
  <2> QED
    BY <2>1, <2>2
<1>7. ASSUME NEW m \in 0 .. n,
             m = n => \A k \in 1 .. m : c.chunks[k].text = b.chunks[k].text,
             \A k \in 1 .. m : c.chunks[k].endx = b.chunks[k].endx,
             Ends(b, m)
      PROVE  Ends(c, m)
  <2>1. ASSUME NEW i \in 1 .. c.avail, NEW k \in 1 .. m,
               OfText(c, c.tab[i - 1]), c.tab[i - 1].chunk <= c.chunks[k].at,
               i < c.avail => c.chunks[k].at < c.tab[i].chunk
        PROVE  c.chunks[k].endx = Len(T[k]) - Start(c, i)
    <3>1. k \in 1 .. n /\ k \in 0 .. m
      BY <1>1
    <3>2. T[k] = S[k]
      BY <1>4, <1>7, <3>1
    <3>3. OfText(b, b.tab[i - 1])
      BY <1>1, <1>2, <2>1 DEF OfText
    <3>4. b.tab[i - 1].chunk <= b.chunks[k].at /\ (i < b.avail => b.chunks[k].at < b.tab[i].chunk)
      BY <1>1, <1>2, <2>1, <3>1
    <3>5. b.chunks[k].endx = Len(S[k]) - Start(b, i)
      BY <1>1, <1>3, <1>7, <3>3, <3>4 DEF Ends
    <3> QED
      BY <1>1, <1>6, <1>7, <3>2, <3>5
  <2> QED
    BY <1>3, <2>1 DEF Ends
<1> QED
  BY <1>6, <1>7

(* A new line: what it does to the chunks and behind the last line. *)
LEMMA NewLineShape ==
  ASSUME NEW b, Sound(b), b.chunks # <<>>, NEW char \in Nat
  PROVE  LET c == NewLine(b, b.lastdata, char)
         IN  /\ \A k \in 1 .. Len(b.chunks) : c.chunks[k].endx = b.chunks[k].endx
             /\ \A k \in 1 .. Len(b.chunks) :
                  k # 1 \/ b.avail # MaxLines => c.chunks[k] = b.chunks[k]
             /\ b.avail = MaxLines =>
                  c.chunks[1].type = OCT_TERM /\ c.tab[MaxLines] = c.tab[MaxLines - 1]
             /\ b.avail # MaxLines =>
                  \A j \in b.avail + 1 .. MaxLines : c.tab[j] = b.tab[j]
<1> DEFINE ref == Ref(b.lastdata, char)
           longer == [b EXCEPT !.tab = [b.tab EXCEPT ![b.avail] = ref],
                               !.avail = b.avail + 1]
           n == Len(b.chunks)
           c == NewLine(b, b.lastdata, char)
<1>1. /\ b.chunks \in Seq(ChunkType) /\ n \in Nat /\ n \in 1 .. n /\ 1 \in 1 .. n
      /\ b.avail \in 1 .. MaxLines /\ MaxLines \in Nat
      /\ b.tab \in [0 .. MaxLines -> RefType]
  <2>1. /\ b.chunks \in Seq(ChunkType) /\ n \in Nat
        /\ b.avail \in 1 .. MaxLines /\ MaxLines \in Nat
        /\ b.tab \in [0 .. MaxLines -> RefType]
    BY BlockChunks
  <2>2. n \in 1 .. n /\ 1 \in 1 .. n
    BY <2>1
  <2> QED
    BY <2>1, <2>2
<1>2. c = Followed(IF Overflows(longer) THEN Shifted(longer) ELSE longer)
  BY DEF NewLine, Sound, BlockType
<1>3. /\ longer.avail = b.avail + 1 /\ longer.tab = [b.tab EXCEPT ![b.avail] = ref]
      /\ longer.chunks = b.chunks
  BY DEF Sound, BlockType
<1> HIDE DEF c, ref
<1>4. CASE b.avail # MaxLines
  <2> DEFINE tab == [b.tab EXCEPT ![b.avail] = ref]
  <2>1. c = Followed(longer)
    BY <1>1, <1>2, <1>3, <1>4 DEF Overflows
  <2>2. c.chunks = b.chunks /\ c.tab = tab
    BY <2>1, <1>3 DEF Followed, Sound, BlockType
  <2>3. ASSUME NEW j \in b.avail + 1 .. MaxLines PROVE c.tab[j] = b.tab[j]
    <3>1. j \in 0 .. MaxLines /\ j # b.avail
      BY <1>1
    <3> QED
      BY <1>1, <2>2, <3>1
  <2> QED
    BY <1>4, <2>2, <2>3 DEF c
<1>5. CASE b.avail = MaxLines
  <2> DEFINE tab == [i \in 0 .. MaxLines |->
                       IF i < MaxLines THEN longer.tab[i + 1] ELSE longer.tab[i]]
             head == [b.chunks[1] EXCEPT !.type = OCT_TERM, !.length = 0,
                                         !.feed = FALSE, !.wrap = FALSE]
             chunks == [b.chunks EXCEPT ![1] = head]
  <2>1. c = Followed(Shifted(longer))
    BY <1>1, <1>2, <1>3, <1>5 DEF Overflows
  <2>2. Shifted(longer) = [longer EXCEPT !.tab = tab, !.chunks = chunks,
                                         !.avail = longer.avail - 1]
    BY <1>3 DEF Shifted
  <2> HIDE DEF tab, head, chunks
  <2>3. c.chunks = chunks /\ c.tab = tab
    BY <2>1, <2>2 DEF Followed, Sound, BlockType
  <2>4. c.tab[MaxLines] = c.tab[MaxLines - 1]
    <3>1. PICK m : m = MaxLines - 1
      OBVIOUS
    <3>2. m \in 0 .. MaxLines /\ m < MaxLines /\ MaxLines \in 0 .. MaxLines /\ m + 1 = MaxLines
      BY <1>1, <3>1
    <3>3. tab[m] = longer.tab[m + 1] /\ tab[MaxLines] = longer.tab[MaxLines]
      BY <3>2 DEF tab
    <3> QED
      BY <2>3, <3>1, <3>2, <3>3
  <2>5. /\ \A k \in 1 .. n : chunks[k] = IF k = 1 THEN head ELSE b.chunks[k]
        /\ b.chunks[1] \in ChunkType
    BY <1>1 DEF chunks
  <2>6. head.type = OCT_TERM /\ head.endx = b.chunks[1].endx
    BY <2>5 DEF head, ChunkType
  <2>7. c.chunks[1].type = OCT_TERM
    BY <1>1, <2>3, <2>5, <2>6
  <2>8. \A k \in 1 .. n : c.chunks[k].endx = b.chunks[k].endx
    BY <2>3, <2>5, <2>6
  <2>9. \A k \in 1 .. n : k # 1 => c.chunks[k] = b.chunks[k]
    BY <2>3, <2>5
  <2> QED
    BY <1>5, <2>4, <2>7, <2>8, <2>9 DEF c
<1> QED
  BY <1>4, <1>5

(* The item of c that was an item of b, or is the new one. *)
Renewed(b, c, lost, ref) ==
  /\ lost = IF b.avail = MaxLines THEN 1 ELSE 0
  /\ Retold(b, c)
  /\ c.avail = b.avail + 1 - lost
  /\ \A i \in 0 .. c.avail - 2 : c.tab[i] = b.tab[i + lost]
  /\ c.tab[c.avail - 1] = ref
  /\ \A k \in 1 .. Len(b.chunks) : c.chunks[k].endx = b.chunks[k].endx
  /\ \A k \in 1 .. Len(b.chunks) : k # 1 \/ lost = 0 => c.chunks[k] = b.chunks[k]
  /\ lost = 1 => c.chunks[1].type = OCT_TERM /\ c.tab[MaxLines] = c.tab[MaxLines - 1]
  /\ lost = 0 => \A j \in c.avail .. MaxLines : c.tab[j] = b.tab[j]

(* A new line at the end of the last chunk renews the table.               *)
LEMMA NewLineRenewed ==
  ASSUME NEW b, Sound(b), b.chunks # <<>>, NEW char \in Nat,
         NEW c, c = NewLine(b, b.lastdata, char),
         NEW lost, lost = IF b.avail = MaxLines THEN 1 ELSE 0
  PROVE  Renewed(b, c, lost, Ref(b.lastdata, char))
<1>1. /\ Retold(b, c)
      /\ c.avail = b.avail + 1 - lost
      /\ \A i \in 0 .. c.avail - 2 : c.tab[i] = b.tab[i + lost]
      /\ c.tab[c.avail - 1] = Ref(b.lastdata, char)
  BY NewLineTable
<1>2. /\ \A k \in 1 .. Len(b.chunks) : c.chunks[k].endx = b.chunks[k].endx
      /\ \A k \in 1 .. Len(b.chunks) :
           k # 1 \/ b.avail # MaxLines => c.chunks[k] = b.chunks[k]
      /\ b.avail = MaxLines =>
           c.chunks[1].type = OCT_TERM /\ c.tab[MaxLines] = c.tab[MaxLines - 1]
      /\ b.avail # MaxLines =>
           \A j \in b.avail + 1 .. MaxLines : c.tab[j] = b.tab[j]
  BY NewLineShape
<1>3. lost = 0 <=> b.avail # MaxLines
  OBVIOUS
<1>4. lost = 0 => c.avail = b.avail + 1
  BY <1>1, BlockChunks
<1>5. lost = 0 => \A j \in c.avail .. MaxLines : c.tab[j] = b.tab[j]
  BY <1>2, <1>3, <1>4
<1>6. lost = 1 => c.chunks[1].type = OCT_TERM /\ c.tab[MaxLines] = c.tab[MaxLines - 1]
  BY <1>2
<1>7. \A k \in 1 .. Len(b.chunks) : k # 1 \/ lost = 0 => c.chunks[k] = b.chunks[k]
  BY <1>2, <1>3
<1> QED
  BY <1>1, <1>2, <1>5, <1>6, <1>7 DEF Renewed

(* Where the items of c come from. *)
LEMMA RenewedItem ==
  ASSUME NEW b, Sound(b), NEW c, Sound(c), b.chunks # <<>>, NEW lost, NEW ref,
         Renewed(b, c, lost, ref)
  PROVE  /\ lost \in 0 .. 1 /\ b.avail \in 1 .. MaxLines /\ MaxLines \in Nat
         /\ c.avail = b.avail + 1 - lost /\ c.avail \in 1 .. MaxLines
         /\ lost = 1 => b.avail = MaxLines /\ c.avail = MaxLines
         /\ \A i \in 0 .. c.avail - 1, j \in 0 .. b.avail - 1 : j = i + lost =>
              c.tab[i] = b.tab[j]
         /\ \A i \in 0 .. c.avail - 1 :
              \/ i = c.avail - 1 /\ c.tab[i] = ref
              \/ \E j \in 0 .. b.avail - 1 : j = i + lost /\ c.tab[i] = b.tab[j]
<1>1. /\ lost = IF b.avail = MaxLines THEN 1 ELSE 0
      /\ c.avail = b.avail + 1 - lost
      /\ \A i \in 0 .. c.avail - 2 : c.tab[i] = b.tab[i + lost]
      /\ c.tab[c.avail - 1] = ref
  BY DEF Renewed
<1>2. /\ b.avail \in 1 .. MaxLines /\ MaxLines \in Nat /\ lost \in 0 .. 1
      /\ c.avail \in 1 .. MaxLines
  BY <1>1, BlockChunks
<1>3. ASSUME NEW i \in 0 .. c.avail - 1, NEW j \in 0 .. b.avail - 1, j = i + lost
      PROVE  c.tab[i] = b.tab[j]
  <2>1. i \in 0 .. c.avail - 2
    BY <1>1, <1>2, <1>3
  <2> QED
    BY <1>1, <1>3, <2>1
<1>4. ASSUME NEW i \in 0 .. c.avail - 1, i # c.avail - 1
      PROVE  \E j \in 0 .. b.avail - 1 : j = i + lost /\ c.tab[i] = b.tab[j]
  <2>1. PICK j : j = i + lost
    OBVIOUS
  <2>2. j \in 0 .. b.avail - 1
    BY <1>1, <1>2, <1>4, <2>1
  <2> QED
    BY <1>3, <2>1, <2>2
<1> QED
  BY <1>1, <1>2, <1>3, <1>4

(* A new line that is begun at ref, where a line may begin. *)
Begins(b, c, lost, ref, char) ==
  /\ Sound(b) /\ Sound(c) /\ b.chunks # <<>> /\ Tidy(b)
  /\ Renewed(b, c, lost, ref)
  /\ ref = Ref(b.lastdata, char)
  /\ b.tab[b.avail - 1].chunk = ref.chunk
       => Rises(b.tab[b.avail - 1], ref, LastChunk(b).text)
  /\ char > 0 /\ LastChunk(b).type \in Streams => LastChunk(b).feed \/ LastChunk(b).wrap

(* The types of the two blocks, and what the new line leaves alone.        *)
LEMMA BeginsTypes ==
  ASSUME NEW b, NEW c, NEW lost, NEW ref, NEW char, Begins(b, c, lost, ref, char)
  PROVE  /\ Len(b.chunks) \in Nat /\ Len(b.chunks) \in 1 .. Len(b.chunks)
         /\ Len(c.chunks) = Len(b.chunks)
         /\ ref.chunk = b.chunks[Len(b.chunks)].at /\ ref.char = char
         /\ LastChunk(b) = b.chunks[Len(b.chunks)]
         /\ \A k \in 1 .. Len(b.chunks) :
              /\ c.chunks[k].at = b.chunks[k].at /\ c.chunks[k].text = b.chunks[k].text
              /\ c.chunks[k].type \in Streams => c.chunks[k] = b.chunks[k]
<1>1. Len(b.chunks) \in Nat /\ Len(b.chunks) \in 1 .. Len(b.chunks)
  <2>1. Len(b.chunks) \in Nat /\ b.chunks \in Seq(ChunkType) /\ b.chunks # <<>>
    BY BlockChunks DEF Begins
  <2> QED
    BY <2>1
<1>2. b.lastdata = b.chunks[Len(b.chunks)].at
  BY <1>1 DEF Begins, Sound, Chain
<1>3. ref.chunk = b.lastdata /\ ref.char = char
  BY DEF Begins, Ref
<1>4. /\ Len(c.chunks) = Len(b.chunks)
      /\ \A k \in 1 .. Len(b.chunks) :
           c.chunks[k].at = b.chunks[k].at /\ c.chunks[k].text = b.chunks[k].text
  BY DEF Begins, Renewed, Retold
<1>5. ASSUME NEW k \in 1 .. Len(b.chunks), c.chunks[k].type \in Streams
      PROVE  c.chunks[k] = b.chunks[k]
  <2>1. OCT_TERM \notin Streams
    BY StoreAssumption DEF StoreAssumption
  <2>2. /\ lost = 0 \/ lost = 1
        /\ lost = 1 => c.chunks[1].type = OCT_TERM
        /\ k # 1 \/ lost = 0 => c.chunks[k] = b.chunks[k]
    BY DEF Begins, Renewed
  <2> QED
    BY <1>5, <2>1, <2>2
<1> QED
  BY <1>1, <1>2, <1>3, <1>4, <1>5 DEF LastChunk

(* The items of c, once more. *)
LEMMA BeginsItem ==
  ASSUME NEW b, NEW c, NEW lost, NEW ref, NEW char, Begins(b, c, lost, ref, char)
  PROVE  /\ lost \in 0 .. 1 /\ b.avail \in 1 .. MaxLines /\ MaxLines \in Nat
         /\ c.avail = b.avail + 1 - lost /\ c.avail \in 1 .. MaxLines
         /\ lost = 1 => b.avail = MaxLines /\ c.avail = MaxLines
         /\ \A i \in 0 .. c.avail - 1, j \in 0 .. b.avail - 1 : j = i + lost =>
              c.tab[i] = b.tab[j]
         /\ \A i \in 0 .. c.avail - 1 :
              \/ i = c.avail - 1 /\ c.tab[i] = ref
              \/ \E j \in 0 .. b.avail - 1 : j = i + lost /\ c.tab[i] = b.tab[j]
BY RenewedItem DEF Begins

(* A block that begins a line stays tidy.                                  *)
LEMMA BeginsTidy ==
  ASSUME NEW b, NEW c, NEW lost, NEW ref, NEW char, Begins(b, c, lost, ref, char)
  PROVE  Tidy(c)
<1> DEFINE n == Len(b.chunks)
<1>1. /\ n \in Nat /\ n \in 1 .. n /\ Len(c.chunks) = n
      /\ ref.chunk = b.chunks[n].at /\ ref.char = char
      /\ LastChunk(b) = b.chunks[n]
  BY BeginsTypes
<1>2. ASSUME NEW k \in 1 .. n
      PROVE  /\ c.chunks[k].at = b.chunks[k].at /\ c.chunks[k].text = b.chunks[k].text
             /\ c.chunks[k].type \in Streams => c.chunks[k] = b.chunks[k]
  BY BeginsTypes
<1>3. /\ lost \in 0 .. 1 /\ b.avail \in 1 .. MaxLines /\ MaxLines \in Nat
      /\ c.avail = b.avail + 1 - lost /\ c.avail \in 1 .. MaxLines
      /\ lost = 1 => b.avail = MaxLines /\ c.avail = MaxLines
  BY BeginsItem
<1>4. ASSUME NEW i \in 0 .. c.avail - 1, NEW j \in 0 .. b.avail - 1, j = i + lost
      PROVE  c.tab[i] = b.tab[j]
  BY <1>4, BeginsItem
<1>5. ASSUME NEW i \in 0 .. c.avail - 1
      PROVE  \/ i = c.avail - 1 /\ c.tab[i] = ref
             \/ \E j \in 0 .. b.avail - 1 : j = i + lost /\ c.tab[i] = b.tab[j]
  BY BeginsItem
<1>6. /\ Sound(b) /\ Sound(c) /\ Tidy(b)
      /\ b.tab[b.avail - 1].chunk = ref.chunk
           => Rises(b.tab[b.avail - 1], ref, b.chunks[n].text)
      /\ char > 0 /\ b.chunks[n].type \in Streams => b.chunks[n].feed \/ b.chunks[n].wrap
      /\ \A k \in 1 .. n : k # 1 \/ lost = 0 => c.chunks[k] = b.chunks[k]
      /\ lost = IF b.avail = MaxLines THEN 1 ELSE 0
      /\ lost = 1 => c.tab[MaxLines] = c.tab[MaxLines - 1]
      /\ lost = 0 => \A j \in c.avail .. MaxLines : c.tab[j] = b.tab[j]
  BY <1>1 DEF Begins, Renewed
<1>7. Heads(c)
  <2>1. ASSUME NEW k \in 1 .. n
        PROVE  c.chunks[k].type \in Streams \/ (k = 1 /\ c.avail = MaxLines)
    <3>1. CASE k = 1 /\ lost = 1
      BY <1>3, <3>1
    <3>2. CASE ~(k = 1 /\ lost = 1)
      <4>1. c.chunks[k] = b.chunks[k]
        BY <1>3, <1>6, <3>2
      <4>2. b.chunks[k].type \in Streams \/ (k = 1 /\ b.avail = MaxLines)
        BY <1>6 DEF Tidy, Heads
      <4> QED
        BY <1>6, <3>2, <4>1, <4>2
    <3> QED
      BY <3>1, <3>2
  <2> QED
    BY <1>1, <2>1 DEF Heads
<1>8. Stale(c)
  <2>1. ASSUME NEW j \in c.avail .. MaxLines
        PROVE  c.tab[j] = NoRef
               \/ (c.avail = MaxLines /\ j = MaxLines /\ c.tab[j] = c.tab[j - 1])
    <3>1. CASE lost = 1
      <4>1. j = MaxLines /\ c.avail = MaxLines
        BY <1>3, <3>1
      <4> QED
        BY <1>6, <3>1, <4>1
    <3>2. CASE lost = 0
      <4>1. b.avail # MaxLines /\ j \in b.avail .. MaxLines
        BY <1>3, <1>6, <3>2
      <4>2. b.tab[j] = NoRef
        BY <1>6, <4>1 DEF Tidy, Stale
      <4> QED
        BY <1>6, <3>2, <4>2
    <3> QED
      BY <1>3, <3>1, <3>2
  <2> QED
    BY <2>1 DEF Stale
<1>9. Distinct(c)
  <2>1. ASSUME NEW i \in 1 .. c.avail - 1, NEW k \in 1 .. n,
               c.tab[i - 1].chunk = c.tab[i].chunk, c.chunks[k].at = c.tab[i].chunk
        PROVE  Rises(c.tab[i - 1], c.tab[i], c.chunks[k].text)
    <3>1. PICK h, j, g : h = i - 1 /\ j = h + lost /\ g = i + lost
      OBVIOUS
    <3>2. /\ h \in 0 .. c.avail - 1 /\ j \in 0 .. b.avail - 1 /\ i \in 0 .. c.avail - 1
          /\ j = g - 1 /\ g \in 1 .. b.avail
      BY <1>3, <3>1
    <3>3. c.tab[h] = b.tab[j]
      BY <1>4, <3>1, <3>2
    <3>4. CASE g = b.avail
      <4>1. c.tab[i] = ref
        <5>1. ~\E q \in 0 .. b.avail - 1 : q = i + lost
          BY <1>3, <3>1, <3>4
        <5> QED
          BY <1>5, <3>2, <5>1
      <4>2. c.tab[i - 1] = b.tab[b.avail - 1] /\ b.tab[b.avail - 1].chunk = ref.chunk
        BY <2>1, <3>1, <3>2, <3>3, <3>4, <4>1
      <4>3. b.chunks[k].at = b.chunks[n].at
        BY <1>1, <1>2, <2>1, <4>1
      <4>4. k = n
        BY <1>1, <1>6, <4>3, OneChunk
      <4> QED
        BY <1>2, <1>6, <4>1, <4>2, <4>4
    <3>5. CASE g # b.avail
      <4>1. g \in 0 .. b.avail - 1 /\ g \in 1 .. b.avail - 1
        BY <1>3, <3>2, <3>5
      <4>2. c.tab[i] = b.tab[g]
        BY <1>4, <3>1, <3>2, <4>1
      <4>3. /\ c.tab[i - 1] = b.tab[g - 1] /\ b.tab[g - 1].chunk = b.tab[g].chunk
            /\ b.chunks[k].at = b.tab[g].chunk
        BY <1>2, <2>1, <3>1, <3>2, <3>3, <4>2
      <4>4. Rises(b.tab[g - 1], b.tab[g], b.chunks[k].text)
        BY <1>6, <4>1, <4>3 DEF Tidy, Distinct
      <4> QED
        BY <1>2, <4>2, <4>3, <4>4
    <3> QED
      BY <3>4, <3>5
  <2> QED
    BY <1>1, <2>1 DEF Distinct
<1>10. Flagged(c)
  <2>1. ASSUME NEW i \in 0 .. c.avail - 1, NEW k \in 1 .. n,
               c.chunks[k].at = c.tab[i].chunk, c.chunks[k].type \in Streams, c.tab[i].char > 0
        PROVE  c.chunks[k].feed \/ c.chunks[k].wrap
    <3>1. c.chunks[k] = b.chunks[k]
      BY <1>2, <2>1
    <3>2. CASE c.tab[i] = ref
      <4>1. b.chunks[k].at = b.chunks[n].at
        BY <1>1, <2>1, <3>1, <3>2
      <4>2. k = n
        BY <1>1, <1>6, <4>1, OneChunk
      <4> QED
        BY <1>1, <1>6, <2>1, <3>1, <3>2, <4>2
    <3>3. ASSUME NEW j \in 0 .. b.avail - 1, c.tab[i] = b.tab[j]
          PROVE  c.chunks[k].feed \/ c.chunks[k].wrap
      BY <1>6, <2>1, <3>1, <3>3 DEF Tidy, Flagged
    <3> QED
      BY <1>5, <3>2, <3>3
  <2> QED
    BY <1>1, <2>1 DEF Flagged
<1>11. Empties(c)
  BY <1>1, <1>2, <1>6 DEF Tidy, Empties
<1> QED
  BY <1>7, <1>8, <1>9, <1>10, <1>11 DEF Tidy

(* It keeps its lines, but the first one of a full table.                  *)
LEMMA BeginsKeeps ==
  ASSUME NEW b, NEW c, NEW lost, NEW ref, NEW char, Begins(b, c, lost, ref, char)
  PROVE  Keeps(b, c, lost)
<1> DEFINE n == Len(b.chunks)
<1>1. /\ n \in Nat /\ Len(c.chunks) = n
      /\ \A k \in 1 .. n :
           /\ c.chunks[k].at = b.chunks[k].at /\ c.chunks[k].text = b.chunks[k].text
           /\ c.chunks[k].type \in Streams => c.chunks[k] = b.chunks[k]
  BY BeginsTypes
<1>2. /\ lost \in 0 .. 1 /\ b.avail \in 1 .. MaxLines /\ MaxLines \in Nat
      /\ c.avail = b.avail + 1 - lost /\ c.avail \in 1 .. MaxLines
  BY BeginsItem
<1>3. ASSUME NEW i \in 0 .. c.avail - 1, NEW j \in 0 .. b.avail - 1, j = i + lost
      PROVE  c.tab[i] = b.tab[j]
  BY <1>3, BeginsItem
<1>4. ASSUME NEW r, OfText(c, r) PROVE OfText(b, r)
  BY <1>1, <1>4 DEF OfText
<1>5. ASSUME NEW r, Bare(b, r) PROVE Bare(c, r)
  BY <1>1, <1>5 DEF Bare
<1>6. ASSUME NEW i \in 1 .. c.avail, NEW j \in 1 .. b.avail, j = i + lost
      PROVE  /\ OfText(c, c.tab[i - 1]) => OfText(b, b.tab[j - 1])
             /\ ~Lost(c, i) => ~Lost(b, j)
  <2>1. PICK h, g : h = i - 1 /\ g = j - 1
    OBVIOUS
  <2>2. h \in 0 .. c.avail - 1 /\ g \in 0 .. b.avail - 1 /\ g = h + lost
    BY <1>2, <1>6, <2>1
  <2>3. c.tab[i - 1] = b.tab[j - 1]
    BY <1>3, <2>1, <2>2
  <2>4. j < b.avail => i < c.avail /\ i \in 0 .. c.avail - 1 /\ j \in 0 .. b.avail - 1
    BY <1>2, <1>6
  <2>5. j < b.avail => c.tab[i] = b.tab[j]
    BY <1>3, <1>6, <2>4
  <2>6. OfText(c, c.tab[i - 1]) => OfText(b, b.tab[j - 1])
    BY <1>4, <2>3
  <2>7. j < b.avail /\ Bare(b, b.tab[j]) => i < c.avail /\ Bare(c, c.tab[i])
    BY <1>5, <2>4, <2>5
  <2> QED
    BY <2>6, <2>7 DEF Lost
<1> QED
  BY <1>6 DEF Keeps

(* Its chunks but the last still say their columns.                        *)
LEMMA BeginsEnds ==
  ASSUME NEW b, NEW c, NEW lost, NEW ref, NEW char, Begins(b, c, lost, ref, char),
         Ends(b, Len(b.chunks) - 1)
  PROVE  Ends(c, Len(c.chunks) - 1)
<1> DEFINE n == Len(b.chunks)
<1>1. /\ n \in Nat /\ n \in 1 .. n /\ Len(c.chunks) = n /\ ref.chunk = b.chunks[n].at
      /\ \A k \in 1 .. n :
           /\ c.chunks[k].at = b.chunks[k].at /\ c.chunks[k].text = b.chunks[k].text
           /\ c.chunks[k].type \in Streams => c.chunks[k] = b.chunks[k]
  BY BeginsTypes
<1>2. /\ lost \in 0 .. 1 /\ b.avail \in 1 .. MaxLines /\ MaxLines \in Nat
      /\ c.avail = b.avail + 1 - lost /\ c.avail \in 1 .. MaxLines
  BY BeginsItem
<1>3. /\ Sound(b) /\ Sound(c) /\ b.chunks # <<>> /\ Keeps(b, c, lost)
      /\ \A k \in 1 .. n : c.chunks[k].endx = b.chunks[k].endx
  BY BeginsKeeps DEF Begins, Renewed
<1>4. b.chunks \in Seq(ChunkType) /\ c.chunks \in Seq(ChunkType)
  BY <1>3, BlockChunks
<1>5. PICK S, T : S = Texts(b.chunks) /\ T = Texts(c.chunks)
  OBVIOUS
<1>6. \A k \in 0 .. n : T[k] = S[k]
  <2>1. PICK q : q = n
    OBVIOUS
  <2>2. /\ q \in Nat /\ q <= Len(b.chunks) /\ q <= Len(c.chunks)
        /\ \A k \in 1 .. q : c.chunks[k].text = b.chunks[k].text
    BY <1>1, <2>1
  <2> HIDE DEF n
  <2>3. \A k \in 0 .. q : T[k] = S[k]
    BY <1>4, <1>5, <2>2, SameTexts
  <2> QED
    BY <2>1, <2>3
<1>7. ASSUME NEW i \in 0 .. c.avail - 1, NEW j \in 0 .. b.avail - 1, j = i + lost
      PROVE  c.tab[i] = b.tab[j]
  BY <1>7, BeginsItem
<1>8. ASSUME NEW i \in 1 .. c.avail, NEW j \in 1 .. b.avail, j = i + lost
      PROVE  c.tab[i - 1] = b.tab[j - 1] /\ Start(c, i) = Start(b, j)
  <2>1. PICK h, g : h = i - 1 /\ g = j - 1
    OBVIOUS
  <2>2. h \in 0 .. c.avail - 1 /\ g \in 0 .. b.avail - 1 /\ g = h + lost
    BY <1>2, <1>8, <2>1
  <2>3. c.tab[i - 1] = b.tab[j - 1]
    BY <1>7, <2>1, <2>2
  <2>4. PICK k \in 1 .. n : b.chunks[k].at = b.tab[j - 1].chunk
    BY <1>3, StartChunk
  <2>5. k - 1 \in 0 .. n
    BY <1>1
  <2>6. Start(b, j) = Len(S[k - 1]) + b.tab[j - 1].char
    BY <1>3, <1>5, <2>4, StartIs
  <2>7. Start(c, i) = Len(T[k - 1]) + c.tab[i - 1].char
    <3>1. k \in 1 .. Len(c.chunks) /\ c.chunks[k].at = c.tab[i - 1].chunk
      BY <1>1, <2>3, <2>4
    <3> QED
      BY <1>3, <1>5, <3>1, StartIs
  <2> QED
    BY <1>6, <2>3, <2>5, <2>6, <2>7
<1>9. ASSUME NEW i \in 1 .. c.avail, NEW k \in 1 .. n - 1,
             OfText(c, c.tab[i - 1]), c.tab[i - 1].chunk <= c.chunks[k].at,
             i < c.avail => c.chunks[k].at < c.tab[i].chunk
      PROVE  c.chunks[k].endx = Len(T[k]) - Start(c, i)
  <2>1. k \in 1 .. n /\ k < n /\ k \in 0 .. n
    BY <1>1
  <2>2. PICK j : j = i + lost
    OBVIOUS
  <2>3. j \in 1 .. b.avail + 1
    BY <1>2, <2>2
  <2>4. CASE j = b.avail + 1
    <3>1. PICK h : h = i - 1
      OBVIOUS
    <3>2. h \in 0 .. c.avail - 1 /\ ~\E q \in 0 .. b.avail - 1 : q = h + lost
      BY <1>2, <2>2, <2>4, <3>1
    <3>3. c.tab[h] = ref
      BY <3>2, BeginsItem
    <3>4. b.chunks[n].at <= b.chunks[k].at
      BY <1>1, <1>9, <2>1, <3>1, <3>3
    <3>5. /\ b.chunks[k].at \in Nat /\ b.chunks[k].at < b.chunks[n].at
          /\ b.chunks[n].at \in Nat
      BY <1>1, <1>3, <2>1, ChunkOrder
    <3> QED
      BY <3>4, <3>5
  <2>5. CASE j # b.avail + 1
    <3>1. j \in 1 .. b.avail
      BY <1>2, <2>3, <2>5
    <3>2. c.tab[i - 1] = b.tab[j - 1] /\ Start(c, i) = Start(b, j)
      BY <1>8, <2>2, <3>1
    <3>3. OfText(b, b.tab[j - 1])
      BY <1>3, <1>9, <2>2, <3>1 DEF Keeps
    <3>4. b.tab[j - 1].chunk <= b.chunks[k].at
      BY <1>1, <1>9, <2>1, <3>2
    <3>5. j < b.avail => b.chunks[k].at < b.tab[j].chunk
      <4>1. j < b.avail => i < c.avail /\ i \in 0 .. c.avail - 1 /\ j \in 0 .. b.avail - 1
        BY <1>2, <2>2, <3>1
      <4>2. j < b.avail => c.tab[i] = b.tab[j]
        BY <1>7, <2>2, <4>1
      <4> QED
        BY <1>1, <1>9, <2>1, <4>1, <4>2
    <3>6. b.chunks[k].endx = Len(S[k]) - Start(b, j)
      BY <1>5, <3>1, <3>3, <3>4, <3>5 DEF Ends
    <3> QED
      BY <1>3, <1>6, <2>1, <3>2, <3>6
  <2> QED
    BY <2>4, <2>5
<1>10. Len(c.chunks) - 1 = n - 1
  BY <1>1
<1> QED
  BY <1>5, <1>9, <1>10 DEF Ends

(* Old chunks are released, from a block that is tidy. *)
Frees(b, c, d, dist) ==
  /\ Sound(b) /\ Sound(c) /\ b.chunks # <<>> /\ Tidy(b)
  /\ d \in Nat /\ dist \in Int
  /\ Kept(b, c, d, dist) /\ Shed(b, c, d, dist)

(* The types of the two blocks; every chunk that is left was one before.   *)
LEMMA FreesTypes ==
  ASSUME NEW b, NEW c, NEW d, NEW dist, Frees(b, c, d, dist)
  PROVE  /\ Len(b.chunks) \in Nat /\ Len(c.chunks) \in Nat /\ d \in Nat /\ dist \in Int
         /\ d > 0 /\ d < Len(b.chunks) /\ d + Len(c.chunks) = Len(b.chunks)
         /\ b.avail \in 1 .. MaxLines /\ MaxLines \in Nat /\ c.avail = b.avail
         /\ \A k \in 1 .. Len(c.chunks) :
              /\ d + k \in 2 .. Len(b.chunks)
              /\ c.chunks[k].at = b.chunks[d + k].at - dist
              /\ c.chunks[k].type = b.chunks[d + k].type
              /\ c.chunks[k].text = b.chunks[d + k].text
              /\ c.chunks[k].feed = b.chunks[d + k].feed
              /\ c.chunks[k].wrap = b.chunks[d + k].wrap
              /\ c.chunks[k].endx = b.chunks[d + k].endx
<1>1. /\ Len(b.chunks) \in Nat /\ Len(c.chunks) \in Nat
      /\ b.avail \in 1 .. MaxLines /\ MaxLines \in Nat /\ b.chunks \in Seq(ChunkType)
  BY BlockChunks DEF Frees
<1>2. /\ d \in Nat /\ dist \in Int /\ d > 0 /\ d + Len(c.chunks) = Len(b.chunks)
      /\ c.avail = b.avail /\ d < Len(b.chunks)
  BY DEF Frees, Shed, Kept
<1>3. ASSUME NEW k \in 1 .. Len(c.chunks)
      PROVE  /\ d + k \in 2 .. Len(b.chunks)
             /\ c.chunks[k].at = b.chunks[d + k].at - dist
             /\ c.chunks[k].type = b.chunks[d + k].type
             /\ c.chunks[k].text = b.chunks[d + k].text
             /\ c.chunks[k].feed = b.chunks[d + k].feed
             /\ c.chunks[k].wrap = b.chunks[d + k].wrap
             /\ c.chunks[k].endx = b.chunks[d + k].endx
  <2>1. PICK j : j = d + k
    OBVIOUS
  <2>2. j \in 1 .. Len(b.chunks) /\ j \in 2 .. Len(b.chunks)
    BY <1>1, <1>2, <2>1
  <2>3. c.chunks[k] = [b.chunks[j] EXCEPT !.at = b.chunks[j].at - dist]
    BY <2>1 DEF Frees, Shed
  <2>4. b.chunks[j] \in ChunkType
    BY <1>1, <2>2
  <2> QED
    BY <2>1, <2>2, <2>3, <2>4 DEF ChunkType
<1> QED
  BY <1>1, <1>2, <1>3

(* The lines start where they started. *)
LEMMA FreesItem ==
  ASSUME NEW b, NEW c, NEW d, NEW dist, Frees(b, c, d, dist), NEW i \in 0 .. b.avail - 1
  PROVE  /\ b.tab[i] \in RefType /\ c.tab[i] \in RefType
         /\ c.tab[i].chunk = b.tab[i].chunk - dist /\ c.tab[i].char = b.tab[i].char
         /\ b.tab[i].chunk # 0
         /\ \A p \in 1 .. Len(b.chunks) : b.chunks[p].at = b.tab[i].chunk =>
              \E k \in 1 .. Len(c.chunks) : p = d + k
<1>1. /\ Len(b.chunks) \in Nat /\ Len(c.chunks) \in Nat /\ d \in Nat /\ dist \in Int
      /\ d < Len(b.chunks) /\ d + Len(c.chunks) = Len(b.chunks) /\ c.avail = b.avail
  BY FreesTypes
<1>2. Sound(b) /\ Sound(c) /\ b.chunks # <<>> /\ Kept(b, c, d, dist)
  BY DEF Frees
<1>3. b.tab[i] \in RefType /\ c.tab[i] \in RefType
  BY <1>1, <1>2, BlockChunks
<1>4. /\ c.tab[i].chunk = b.tab[i].chunk - dist /\ c.tab[i].char = b.tab[i].char
      /\ b.chunks[d + 1].at <= b.tab[i].chunk
  BY <1>2 DEF Kept
<1>5. HeadLength <= b.tab[i].chunk /\ b.tab[i].chunk \in Nat
  BY <1>2, TableBounds
<1>6. b.tab[i].chunk # 0
  BY <1>5, HeadLengthType
<1>7. ASSUME NEW p \in 1 .. Len(b.chunks), b.chunks[p].at = b.tab[i].chunk
      PROVE  \E k \in 1 .. Len(c.chunks) : p = d + k
  <2>1. PICK q : q = d + 1
    OBVIOUS
  <2>2. q \in 1 .. Len(b.chunks) /\ b.chunks[q].at <= b.chunks[p].at
    BY <1>1, <1>4, <1>7, <2>1
  <2>3. /\ p < q => b.chunks[p].at < b.chunks[q].at
        /\ b.chunks[p].at \in Nat /\ b.chunks[q].at \in Nat
    BY <1>2, <2>2, ChunkOrder
  <2>4. q <= p
    BY <1>1, <2>2, <2>3
  <2>5. PICK k : k = p - d
    OBVIOUS
  <2>6. k \in 1 .. Len(c.chunks) /\ p = d + k
    BY <1>1, <2>1, <2>4, <2>5
  <2> QED
    BY <2>6
<1> QED
  BY <1>3, <1>4, <1>6, <1>7

(* A line that is left starts in the same chunk as before.                 *)
LEMMA FreesPlace ==
  ASSUME NEW b, NEW c, NEW d, NEW dist, Frees(b, c, d, dist), NEW i \in 0 .. b.avail - 1
  PROVE  /\ OfText(c, c.tab[i]) <=> OfText(b, b.tab[i])
         /\ Bare(c, c.tab[i]) <=> Bare(b, b.tab[i])
         /\ \A k \in 1 .. Len(c.chunks) :
              /\ b.chunks[d + k].at \in Int /\ b.tab[i].chunk \in Int
              /\ c.chunks[k].at = c.tab[i].chunk <=> b.chunks[d + k].at = b.tab[i].chunk
              /\ c.tab[i].chunk <= c.chunks[k].at <=> b.tab[i].chunk <= b.chunks[d + k].at
              /\ c.chunks[k].at < c.tab[i].chunk <=> b.chunks[d + k].at < b.tab[i].chunk
<1>1. /\ Len(b.chunks) \in Nat /\ Len(c.chunks) \in Nat /\ d \in Nat /\ dist \in Int
      /\ \A k \in 1 .. Len(c.chunks) :
              /\ d + k \in 1 .. Len(b.chunks)
              /\ c.chunks[k].at = b.chunks[d + k].at - dist
              /\ c.chunks[k].type = b.chunks[d + k].type
              /\ c.chunks[k].text = b.chunks[d + k].text
  BY FreesTypes
<1>2. /\ b.tab[i] \in RefType /\ c.tab[i].chunk = b.tab[i].chunk - dist
      /\ \A p \in 1 .. Len(b.chunks) : b.chunks[p].at = b.tab[i].chunk =>
           \E k \in 1 .. Len(c.chunks) : p = d + k
  BY FreesItem
<1>3. b.tab[i].chunk \in Nat
  BY <1>2 DEF RefType
<1>4. ASSUME NEW k \in 1 .. Len(c.chunks)
      PROVE  /\ b.chunks[d + k].at \in Int
             /\ c.chunks[k].at = c.tab[i].chunk <=> b.chunks[d + k].at = b.tab[i].chunk
             /\ c.tab[i].chunk <= c.chunks[k].at <=> b.tab[i].chunk <= b.chunks[d + k].at
             /\ c.chunks[k].at < c.tab[i].chunk <=> b.chunks[d + k].at < b.tab[i].chunk
  <2>1. PICK p : p = d + k
    OBVIOUS
  <2>2. p \in 1 .. Len(b.chunks)
    BY <1>1, <2>1
  <2>3. b.chunks[p].at \in Nat
    BY <2>2, ChunkOrder DEF Frees
  <2>4. c.chunks[k].at = b.chunks[p].at - dist
    BY <1>1, <2>1
  <2>5. PICK x, y : x = b.chunks[p].at /\ y = b.tab[i].chunk
    OBVIOUS
  <2>6. x \in Int /\ y \in Int /\ dist \in Int /\ c.chunks[k].at = x - dist /\ c.tab[i].chunk = y - dist
    BY <1>1, <1>2, <1>3, <2>3, <2>4, <2>5
  <2>7. /\ x - dist = y - dist <=> x = y
        /\ y - dist <= x - dist <=> y <= x
        /\ x - dist < y - dist <=> x < y
    BY <2>6
  <2> QED
    BY <2>1, <2>5, <2>6, <2>7
<1>5. OfText(c, c.tab[i]) <=> OfText(b, b.tab[i])
  <2>1. ASSUME OfText(c, c.tab[i]), NEW p \in 1 .. Len(b.chunks), b.chunks[p].at = b.tab[i].chunk
        PROVE  b.chunks[p].type \in Streams
    <3>1. PICK k \in 1 .. Len(c.chunks) : p = d + k
      BY <1>2, <2>1
    <3> QED
      BY <1>1, <1>4, <2>1, <3>1 DEF OfText
  <2>2. ASSUME OfText(b, b.tab[i]), NEW k \in 1 .. Len(c.chunks), c.chunks[k].at = c.tab[i].chunk
        PROVE  c.chunks[k].type \in Streams
    BY <1>1, <1>4, <2>2 DEF OfText
  <2> QED
    BY <2>1, <2>2 DEF OfText
<1>6. Bare(c, c.tab[i]) <=> Bare(b, b.tab[i])
  <2>1. ASSUME NEW p \in 1 .. Len(b.chunks), b.chunks[p].at = b.tab[i].chunk,
               b.chunks[p].text = <<>>
        PROVE  Bare(c, c.tab[i])
    <3>1. PICK k \in 1 .. Len(c.chunks) : p = d + k
      BY <1>2, <2>1
    <3> QED
      BY <1>1, <1>4, <2>1, <3>1 DEF Bare
  <2>2. ASSUME NEW k \in 1 .. Len(c.chunks), c.chunks[k].at = c.tab[i].chunk,
               c.chunks[k].text = <<>>
        PROVE  Bare(b, b.tab[i])
    BY <1>1, <1>4, <2>2 DEF Bare
  <2> QED
    BY <2>1, <2>2 DEF Bare
<1> QED
  BY <1>3, <1>4, <1>5, <1>6

(* A block stays tidy when old chunks are released.                        *)
LEMMA FreesTidy ==
  ASSUME NEW b, NEW c, NEW d, NEW dist, Frees(b, c, d, dist)
  PROVE  Tidy(c)
<1>1. /\ Len(b.chunks) \in Nat /\ Len(c.chunks) \in Nat /\ d \in Nat /\ dist \in Int /\ d > 0
      /\ b.avail \in 1 .. MaxLines /\ MaxLines \in Nat /\ c.avail = b.avail
  BY FreesTypes
<1>2. ASSUME NEW k \in 1 .. Len(c.chunks)
      PROVE  /\ d + k \in 2 .. Len(b.chunks) /\ d + k \in 1 .. Len(b.chunks) /\ d + k # 1
             /\ c.chunks[k].type = b.chunks[d + k].type
             /\ c.chunks[k].text = b.chunks[d + k].text
             /\ c.chunks[k].feed = b.chunks[d + k].feed
             /\ c.chunks[k].wrap = b.chunks[d + k].wrap
  <2>1. /\ d + k \in 2 .. Len(b.chunks)
        /\ c.chunks[k].type = b.chunks[d + k].type
        /\ c.chunks[k].text = b.chunks[d + k].text
        /\ c.chunks[k].feed = b.chunks[d + k].feed
        /\ c.chunks[k].wrap = b.chunks[d + k].wrap
    BY FreesTypes
  <2>2. PICK p : p = d + k
    OBVIOUS
  <2>3. p \in 1 .. Len(b.chunks) /\ p # 1
    BY <1>1, <2>1, <2>2
  <2> QED
    BY <2>1, <2>2, <2>3
<1>3. Tidy(b) /\ Shed(b, c, d, dist)
  BY DEF Frees
<1>4. Heads(c)
  <2>1. ASSUME NEW k \in 1 .. Len(c.chunks) PROVE c.chunks[k].type \in Streams
    BY <1>2, <1>3 DEF Tidy, Heads
  <2> QED
    BY <2>1 DEF Heads
<1>5. Stale(c)
  <2>1. ASSUME NEW j \in b.avail .. MaxLines
        PROVE  c.tab[j] = NoRef \/ (c.avail = MaxLines /\ j = MaxLines /\ c.tab[j] = c.tab[j - 1])
    <3>1. j \in 0 .. MaxLines
      BY <1>1
    <3>2. c.tab[j] = IF b.tab[j].chunk = 0 THEN b.tab[j]
                     ELSE [b.tab[j] EXCEPT !.chunk = b.tab[j].chunk - dist]
      BY <1>3, <3>1 DEF Shed
    <3>3. CASE b.tab[j] = NoRef
      BY <3>2, <3>3 DEF NoRef, Ref
    <3>4. CASE b.avail = MaxLines /\ j = MaxLines /\ b.tab[j] = b.tab[j - 1]
      <4>1. PICK h : h = j - 1
        OBVIOUS
      <4>2. h \in 0 .. b.avail - 1 /\ h \in 0 .. MaxLines
        BY <1>1, <3>4, <4>1
      <4>3. c.tab[h] = IF b.tab[h].chunk = 0 THEN b.tab[h]
                       ELSE [b.tab[h] EXCEPT !.chunk = b.tab[h].chunk - dist]
        BY <1>3, <4>2 DEF Shed
      <4>4. c.tab[j] = c.tab[h]
        BY <3>2, <3>4, <4>1, <4>3
      <4> QED
        BY <1>1, <3>4, <4>1, <4>4
    <3> QED
      BY <1>3, <3>3, <3>4 DEF Tidy, Stale
  <2> QED
    BY <1>1, <2>1 DEF Stale
<1>6. Distinct(c)
  <2>1. ASSUME NEW i \in 1 .. b.avail - 1, NEW k \in 1 .. Len(c.chunks),
               c.tab[i - 1].chunk = c.tab[i].chunk, c.chunks[k].at = c.tab[i].chunk
        PROVE  Rises(c.tab[i - 1], c.tab[i], c.chunks[k].text)
    <3>1. PICK h : h = i - 1
      OBVIOUS
    <3>2. h \in 0 .. b.avail - 1 /\ i \in 0 .. b.avail - 1
      BY <1>1, <3>1
    <3>3. /\ b.tab[h] \in RefType /\ c.tab[h].chunk = b.tab[h].chunk - dist
          /\ c.tab[h].char = b.tab[h].char
          /\ b.tab[i] \in RefType /\ c.tab[i].chunk = b.tab[i].chunk - dist
          /\ c.tab[i].char = b.tab[i].char
      BY <3>2, FreesItem
    <3>4. b.tab[h].chunk = b.tab[i].chunk
      <4>1. PICK x, y : x = b.tab[h].chunk /\ y = b.tab[i].chunk
        OBVIOUS
      <4>2. x \in Nat /\ y \in Nat
        BY <3>3, <4>1 DEF RefType
      <4>3. x - dist = y - dist
        BY <2>1, <3>1, <3>3, <4>1
      <4>4. x = y
        BY <1>1, <4>2, <4>3
      <4> QED
        BY <4>1, <4>4
    <3>6. b.chunks[d + k].at = b.tab[i].chunk
      BY <2>1, <3>2, FreesPlace
    <3>7. Rises(b.tab[h], b.tab[i], b.chunks[d + k].text)
      BY <1>2, <1>3, <3>1, <3>4, <3>6 DEF Tidy, Distinct
    <3> QED
      BY <1>2, <3>1, <3>3, <3>7 DEF Rises
  <2> QED
    BY <1>1, <2>1 DEF Distinct
<1>7. Flagged(c)
  <2>1. ASSUME NEW i \in 0 .. b.avail - 1, NEW k \in 1 .. Len(c.chunks),
               c.chunks[k].at = c.tab[i].chunk, c.chunks[k].type \in Streams, c.tab[i].char > 0
        PROVE  c.chunks[k].feed \/ c.chunks[k].wrap
    <3>1. b.chunks[d + k].at = b.tab[i].chunk
      BY <2>1, FreesPlace
    <3>2. b.tab[i].char > 0
      BY <2>1, FreesItem
    <3>3. b.chunks[d + k].feed \/ b.chunks[d + k].wrap
      BY <1>2, <1>3, <2>1, <3>1, <3>2 DEF Tidy, Flagged
    <3> QED
      BY <1>2, <3>3
  <2> QED
    BY <1>1, <2>1 DEF Flagged
<1>8. Empties(c)
  <2>1. ASSUME NEW k \in 1 .. Len(c.chunks), c.chunks[k].type \in Streams, c.chunks[k].text = <<>>
        PROVE  c.chunks[k].feed
    BY <1>2, <1>3, <2>1 DEF Tidy, Empties
  <2> QED
    BY <2>1 DEF Empties
<1> QED
  BY <1>4, <1>5, <1>6, <1>7, <1>8 DEF Tidy

(* It keeps all its lines.                                                 *)
LEMMA FreesKeeps ==
  ASSUME NEW b, NEW c, NEW d, NEW dist, Frees(b, c, d, dist)
  PROVE  Keeps(b, c, 0)
<1>1. b.avail \in 1 .. MaxLines /\ MaxLines \in Nat /\ c.avail = b.avail
  BY FreesTypes
<1>2. ASSUME NEW i \in 1 .. c.avail
      PROVE  /\ OfText(c, c.tab[i - 1]) => OfText(b, b.tab[i - 1])
             /\ ~Lost(c, i) => ~Lost(b, i)
  <2>1. PICK h : h = i - 1
    OBVIOUS
  <2>2. h \in 0 .. b.avail - 1 /\ (i < b.avail => i \in 0 .. b.avail - 1)
    BY <1>1, <2>1
  <2>3. OfText(c, c.tab[i - 1]) <=> OfText(b, b.tab[i - 1])
    BY <2>1, <2>2, FreesPlace
  <2>4. i < b.avail => (Bare(c, c.tab[i]) <=> Bare(b, b.tab[i]))
    BY <2>2, FreesPlace
  <2> QED
    BY <1>1, <2>3, <2>4 DEF Lost
<1>3. ASSUME NEW i \in 1 .. c.avail, NEW j \in 1 .. b.avail, j = i + 0
      PROVE  j = i
  BY <1>1, <1>3
<1> QED
  BY <1>2, <1>3 DEF Keeps

(* The chunks that are left still say their columns.                       *)
LEMMA FreesEnds ==
  ASSUME NEW b, NEW c, NEW d, NEW dist, Frees(b, c, d, dist), Ends(b, Len(b.chunks))
  PROVE  Ends(c, Len(c.chunks))
<1>1. /\ Len(b.chunks) \in Nat /\ Len(c.chunks) \in Nat /\ d \in Nat /\ dist \in Int
      /\ d < Len(b.chunks) /\ d + Len(c.chunks) = Len(b.chunks)
      /\ b.avail \in 1 .. MaxLines /\ MaxLines \in Nat /\ c.avail = b.avail
  BY FreesTypes
<1>2. \A k \in 1 .. Len(c.chunks) :
        /\ d + k \in 2 .. Len(b.chunks)
        /\ c.chunks[k].text = b.chunks[d + k].text
        /\ c.chunks[k].endx = b.chunks[d + k].endx
  <2>1. \A k \in 1 .. Len(c.chunks) :
          /\ d + k \in 2 .. Len(b.chunks)
          /\ c.chunks[k].at = b.chunks[d + k].at - dist
          /\ c.chunks[k].type = b.chunks[d + k].type
          /\ c.chunks[k].text = b.chunks[d + k].text
          /\ c.chunks[k].feed = b.chunks[d + k].feed
          /\ c.chunks[k].wrap = b.chunks[d + k].wrap
          /\ c.chunks[k].endx = b.chunks[d + k].endx
    BY FreesTypes, SMT
  <2> QED
    BY <2>1, Zenon
<1>3. /\ Sound(b) /\ Sound(c) /\ Kept(b, c, d, dist)
      /\ b.chunks \in Seq(ChunkType) /\ c.chunks \in Seq(ChunkType)
  BY BlockChunks DEF Frees
<1>4. PICK S, T : S = Texts(b.chunks) /\ T = Texts(c.chunks)
  OBVIOUS
<1>5. \A k \in 0 .. Len(c.chunks) : Follows(S[d + k], S[d], T[k])
  <2>1. PICK q : q = Len(c.chunks)
    OBVIOUS
  <2>2. q \in Nat /\ d + q <= Len(b.chunks) /\ q <= Len(c.chunks)
    BY <1>1, <2>1
  <2>3. \A k \in 1 .. q : c.chunks[k].text = b.chunks[d + k].text
    BY <1>2, <2>1
  <2>4. \A k \in 0 .. q : Follows(S[d + k], S[d], T[k])
    BY <1>1, <1>3, <1>4, <2>2, <2>3, Drop
  <2> QED
    BY <2>1, <2>4
<1>6. \A i \in 1 .. b.avail : Start(b, i) = Len(S[d]) + Start(c, i)
  BY <1>1, <1>3, <1>4, StartsKept
<1>7. ASSUME NEW i \in 1 .. c.avail, NEW k \in 1 .. Len(c.chunks),
             OfText(c, c.tab[i - 1]), c.tab[i - 1].chunk <= c.chunks[k].at,
             i < c.avail => c.chunks[k].at < c.tab[i].chunk
      PROVE  c.chunks[k].endx = Len(T[k]) - Start(c, i)
  <2>1. PICK h, p : h = i - 1 /\ p = d + k
    OBVIOUS
  <2>2. /\ h \in 0 .. b.avail - 1 /\ (i < b.avail => i \in 0 .. b.avail - 1)
        /\ p \in 1 .. Len(b.chunks) /\ k \in 0 .. Len(c.chunks)
    BY <1>1, <2>1
  <2>3. OfText(b, b.tab[i - 1]) /\ b.tab[i - 1].chunk <= b.chunks[p].at
    BY <1>7, <2>1, <2>2, FreesPlace
  <2>4. i < b.avail => b.chunks[p].at < b.tab[i].chunk
    BY <1>1, <1>7, <2>1, <2>2, FreesPlace
  <2>5. b.chunks[p].endx = Len(S[p]) - Start(b, i)
    BY <1>1, <1>4, <2>2, <2>3, <2>4 DEF Ends
  <2>6. c.chunks[k].endx = b.chunks[p].endx
    BY <1>2, <2>1
  <2>7. Len(S[p]) = Len(S[d]) + Len(T[k])
    BY <1>5, <2>1, <2>2 DEF Follows
  <2>8. Start(b, i) = Len(S[d]) + Start(c, i)
    BY <1>1, <1>6
  <2>9. Len(S[d]) \in Nat /\ Len(T[k]) \in Nat
    <3>1. d \in 0 .. Len(b.chunks)
      BY <1>1
    <3>2. S[d] \in Seq(Streams) /\ T[k] \in Seq(Streams)
      BY <1>3, <1>4, <2>2, <3>1, TextsRise
    <3> QED
      BY <3>2
  <2>10. Start(c, i) \in Nat
    BY <1>3, StartType
  <2>11. PICK x, y, z : x = Len(S[d]) /\ y = Len(T[k]) /\ z = Start(c, i)
    OBVIOUS
  <2>12. c.chunks[k].endx = (x + y) - (x + z)
    BY <2>5, <2>6, <2>7, <2>8, <2>11, Zenon
  <2>13. (x + y) - (x + z) = y - z
    <3>1. x \in Nat /\ y \in Nat /\ z \in Nat
      BY <2>9, <2>10, <2>11, Zenon
    <3> QED
      BY <3>1
  <2> QED
    BY <2>11, <2>12, <2>13, Zenon
<1> QED
  BY <1>4, <1>7 DEF Ends

(* What the release of old chunks leaves. *)
LEMMA ReleasedLaid ==
  ASSUME NEW b, Sound(b), b.chunks # <<>>, Tidy(b), Ends(b, Len(b.chunks))
  PROVE  LET c == Released(b)
         IN  Sound(c) /\ Tidy(c) /\ Ends(c, Len(c.chunks)) /\ Keeps(b, c, 0) /\ c.avail = b.avail
<1>1. PICK c : c = Released(b)
  OBVIOUS
<1>2. Sound(c)
  BY <1>1, ReleasedSound
<1>3. CASE c = b
  <2>1. \A i \in 1 .. b.avail, j \in 1 .. b.avail : j = i + 0 => i = j
    BY BlockChunks
  <2>2. Keeps(b, b, 0)
    BY <2>1 DEF Keeps
  <2> QED
    BY <1>1, <1>3, <2>2
<1>4. CASE c # b
  <2>1. PICK d \in Nat, dist \in Int : Kept(b, c, d, dist) /\ Shed(b, c, d, dist)
    BY <1>1, <1>4, ReleasedKept
  <2>2. Frees(b, c, d, dist)
    BY <1>2, <2>1 DEF Frees
  <2>3. Tidy(c) /\ Ends(c, Len(c.chunks)) /\ Keeps(b, c, 0) /\ c.avail = b.avail
    BY <2>2, FreesTidy, FreesKeeps, FreesEnds, FreesTypes
  <2> QED
    BY <1>1, <1>2, <2>3
<1> QED
  BY <1>3, <1>4

(* How the text of a call is stored: it joins the last chunk, or follows it. *)
Joining(b, c, j) ==
  /\ b.chunks # <<>> /\ Len(c.chunks) = Len(b.chunks)
  /\ LastChunk(b).type \in Streams /\ ~LastChunk(b).feed /\ ~LastChunk(b).wrap
  /\ j.at = b.lastdata /\ j.x = LastChunk(b).endx /\ j.done = Len(LastChunk(b).text)
Following(b, c, j) ==
  /\ Len(c.chunks) = Len(b.chunks) + 1
  /\ \A k \in 1 .. Len(b.chunks) : c.chunks[k] = b.chunks[k]
  /\ j.at = b.term /\ j.x \in StartColumns(b) /\ j.done = 0

(* output_addchunk stores the text of a call in a block that grows.        *)
LEMMA StoreGrows ==
  ASSUME IInv, Tidy(block), NEW stream \in Streams, NEW n \in Pieces, NEW feed \in BOOLEAN,
         Store(stream, n, feed)
  PROVE  /\ Sound(block) /\ Sound(block') /\ Grows(block, block')
         /\ \A k \in 1 .. Len(block.chunks) : block'.chunks[k].endx = block.chunks[k].endx
         /\ Joining(block, block', job') \/ Following(block, block', job')
<1> DEFINE text == [i \in 1 .. n |-> stream]
           size == IF feed THEN n + 1 ELSE n
           minadd == size + TextLength(size)
           b == Resized(block, minadd)
<1>1. /\ block.made /\ Idle /\ Sound(block) /\ size > 0
      /\ IF Extendable(b, stream, n)
         THEN /\ block' = Extended(b, text, feed)
              /\ job' = [at |-> b.lastdata, x |-> LastChunk(b).endx,
                         done |-> Len(LastChunk(b).text), left |-> n, feed |-> feed]
         ELSE /\ block' = Added(b, stream, text, feed)
              /\ \E x \in StartColumns(b) :
                   job' = [at |-> b.term, x |-> x, done |-> 0, left |-> n, feed |-> feed]
  <2>1. block.made /\ Idle /\ size > 0
    BY DEF Store
  <2>2. Sound(block)
    BY <2>1 DEF IInv, BlockSound
  <2> QED
    BY <2>1, <2>2, Zenon DEF Store
<1>2. n \in Nat
  BY StoreAssumption DEF StoreAssumption
<1>3. text \in Seq(Streams) /\ Len(text) = n
  BY <1>2
<1>4. IInv' /\ block'.made
  BY StoreInv, StoreView
<1>5. Sound(block')
  BY <1>4 DEF IInv, BlockSound
<1>6. minadd \in Nat /\ size \in Nat /\ (n = 0 => feed)
  <2>1. size \in Nat /\ (n = 0 => feed)
    BY <1>1, <1>2
  <2> HIDE DEF size
  <2> QED
    BY <2>1, TextLengthBounds
<1>7. /\ Sound(b) /\ b.chunks = block.chunks /\ b.lastdata = block.lastdata
      /\ b.term = block.term /\ b.tab = block.tab /\ b.avail = block.avail
  <2>1. b.tab = block.tab /\ b.avail = block.avail
    BY <1>1 DEF Resized, Sound, BlockType
  <2> HIDE DEF minadd
  <2> QED
    BY <1>1, <1>6, <2>1, ResizedSound
<1> HIDE DEF b, minadd, size
<1> DEFINE len == Len(b.chunks)
<1>8. b.chunks \in Seq(ChunkType) /\ len \in Nat
  BY <1>7, BlockChunks
<1>9. CASE Extendable(b, stream, n)
  <2> DEFINE old == LastChunk(b)
             length == TextLength(Len(old.text) + Len(text))
             new == [old EXCEPT !.length = length, !.text = old.text \o text,
                                !.feed = old.feed \/ feed]
             grow == length - old.length
  <2>1. block' = Extended(b, text, feed)
    BY <1>1, <1>9
  <2>2. b.chunks # <<>> /\ len \in 1 .. len
    <3>1. len # 0
      BY <1>7, <1>9 DEF Extendable, LastIsText, Sound, Chain
    <3> QED
      BY <1>8, <3>1
  <2>3. /\ old \in ChunkType /\ ~old.feed /\ ~old.wrap /\ old.type \in Streams
        /\ old = b.chunks[len]
    BY <1>8, <1>9, <2>2 DEF LastChunk, Extendable, LastIsText
  <2>4. block' = [b EXCEPT !.chunks = [b.chunks EXCEPT ![len] = new],
                           !.term = b.term + grow, !.free = b.free - grow]
    BY <1>7, <2>1 DEF Sound, BlockType, Extended, LastChunk
  <2> HIDE DEF new, grow, length
  <2>5. /\ block'.chunks = [b.chunks EXCEPT ![len] = new]
        /\ block'.tab = b.tab /\ block'.avail = b.avail
    BY <1>7, <2>4 DEF Sound, BlockType
  <2>6. /\ Len(block'.chunks) = len
        /\ \A k \in 1 .. len : block'.chunks[k] = IF k = len THEN new ELSE b.chunks[k]
    BY <1>8, <2>5
  <2>7. /\ new.at = old.at /\ new.type = old.type /\ new.text = old.text \o text
        /\ new.wrap = old.wrap /\ new.endx = old.endx
    BY <2>3 DEF new, ChunkType
  <2>8. old.text # <<>>
    BY <1>7, <2>2, <2>3 DEF Tidy, Empties
  <2>9. new.text # <<>>
    <3>1. old.text \in Seq(Streams)
      BY <2>3 DEF ChunkType
    <3> HIDE DEF text, old
    <3>2. Len(old.text \o text) = Len(old.text) + Len(text)
      BY <1>3, <3>1, SMTT(60)
    <3>3. Len(old.text) \in Nat /\ Len(old.text) # 0
      BY <2>8, <3>1
    <3> QED
      BY <1>2, <1>3, <2>7, <3>2, <3>3
  <2> HIDE DEF old
  <2>10. ASSUME NEW k \in 1 .. len
         PROVE  /\ block'.chunks[k].at = b.chunks[k].at /\ block'.chunks[k].type = b.chunks[k].type
                /\ k < len => block'.chunks[k].text = b.chunks[k].text
                /\ block'.chunks[k].text = <<>> <=> b.chunks[k].text = <<>>
                /\ b.chunks[k].feed => block'.chunks[k].feed
                /\ b.chunks[k].wrap => block'.chunks[k].wrap
                /\ block'.chunks[k].endx = b.chunks[k].endx
    <3>1. CASE k = len
      <4>1. block'.chunks[k] = new /\ b.chunks[k] = old
        BY <2>3, <2>6, <3>1
      <4>2. ~(k < len)
        BY <1>8, <3>1
      <4> QED
        BY <2>3, <2>7, <2>8, <2>9, <4>1, <4>2
    <3>2. CASE k # len
      BY <2>6, <3>2
    <3> QED
      BY <3>1, <3>2
  <2>11. Grows(block, block')
    <3>1. ~\E k \in len + 1 .. Len(block'.chunks) : TRUE
      BY <1>8, <2>6
    <3>2. Len(b.chunks) <= Len(block'.chunks)
      BY <1>8, <2>6
    <3> QED
      BY <1>7, <2>5, <2>10, <3>1, <3>2 DEF Grows
  <2>12. Joining(block, block', job')
    <3>1. /\ job'.at = b.lastdata /\ job'.x = LastChunk(b).endx
          /\ job'.done = Len(LastChunk(b).text)
      BY <1>1, <1>9
    <3>2. LastChunk(block) = LastChunk(b)
      BY <1>7 DEF LastChunk
    <3> QED
      BY <1>7, <2>2, <2>3, <2>6, <3>1, <3>2 DEF Joining, old
  <2> QED
    BY <1>1, <1>5, <1>7, <2>10, <2>11, <2>12
<1>10. CASE ~Extendable(b, stream, n)
  <2> DEFINE new == [at |-> b.term, type |-> stream, length |-> TextLength(n),
                     text |-> text, feed |-> feed, wrap |-> FALSE, endx |-> 0]
  <2>1. block' = Added(b, stream, text, feed) /\ job'.done = 0 /\ job'.at = b.term
    BY <1>1, <1>10
  <2>2. job'.x \in StartColumns(block)
    <3>1. job'.x \in StartColumns(b)
      BY <1>1, <1>10
    <3>2. StartColumns(b) = StartColumns(block)
      BY <1>7 DEF StartColumns, LastIsText, LastChunk
    <3> QED
      BY <3>1, <3>2
  <2>3. new \in ChunkType /\ new.text = text /\ new.feed = feed /\ new.type = stream
    <3>1. 0 \in 0 .. Width
      BY StoreAssumption DEF StoreAssumption
    <3>2. b.term \in Nat /\ TextLength(n) \in Nat
      BY <1>2, <1>7, TextLengthBounds DEF Sound, BlockType
    <3> QED
      BY <1>3, <3>1, <3>2 DEF ChunkType
  <2>4. block' = [b EXCEPT !.chunks = Append(b.chunks, new), !.lastdata = b.term,
                           !.term = b.term + TextLength(n), !.free = b.free - TextLength(n)]
    BY <1>3, <1>7, <2>1 DEF Sound, BlockType, Added
  <2> HIDE DEF new
  <2>5. /\ block'.chunks = Append(b.chunks, new)
        /\ block'.tab = b.tab /\ block'.avail = b.avail
    BY <1>7, <2>4 DEF Sound, BlockType
  <2>6. /\ Len(block'.chunks) = len + 1 /\ block'.chunks[len + 1] = new
        /\ \A k \in 1 .. len : block'.chunks[k] = b.chunks[k]
    BY <1>8, <2>3, <2>5
  <2>7. text = <<>> => feed
    <3> HIDE DEF text
    <3>1. text = <<>> => Len(text) = 0
      OBVIOUS
    <3> QED
      BY <1>3, <1>6, <3>1
  <2> HIDE DEF text
  <2>8. Grows(block, block')
    <3>1. \A k \in len + 1 .. Len(block'.chunks) : k = len + 1
      BY <1>8, <2>6
    <3>2. Len(b.chunks) <= Len(block'.chunks)
      BY <1>8, <2>6
    <3>3. \A k \in len + 1 .. Len(block'.chunks) :
            block'.chunks[k].type \in Streams /\ (block'.chunks[k].text = <<>> => block'.chunks[k].feed)
      BY <2>3, <2>6, <2>7, <3>1
    <3> QED
      BY <1>7, <2>5, <2>6, <3>2, <3>3 DEF Grows
  <2>9. Following(block, block', job')
    BY <1>7, <2>1, <2>2, <2>6 DEF Following
  <2> QED
    BY <1>1, <1>5, <1>7, <2>6, <2>8, <2>9
<1> QED
  BY <1>9, <1>10

(* c is b with "new" for its last chunk, which has the same text. *)
Labels(b, c, new) ==
  /\ Sound(c) /\ c.chunks # <<>> /\ c.lastdata = b.lastdata /\ c.made = b.made
  /\ Grows(b, c) /\ Len(c.chunks) = Len(b.chunks) /\ LastChunk(c) = new
  /\ new.type = LastChunk(b).type /\ new.feed = LastChunk(b).feed
  /\ new.text = LastChunk(b).text
  /\ \A k \in 1 .. Len(b.chunks) : k # Len(b.chunks) => c.chunks[k] = b.chunks[k]
  /\ \A k \in 1 .. Len(b.chunks) : c.chunks[k].text = b.chunks[k].text

(* The last chunk gets another flag or another end. *)
LEMMA LabelGrows ==
  ASSUME NEW b, Sound(b), b.chunks # <<>>, NEW new \in ChunkType,
         new = [LastChunk(b) EXCEPT !.wrap = TRUE]
           \/ \E endx \in 0 .. Width : new = [LastChunk(b) EXCEPT !.endx = endx],
         NEW c, c = [b EXCEPT !.chunks = [b.chunks EXCEPT ![Len(b.chunks)] = new]]
  PROVE  Labels(b, c, new)
<1> DEFINE n == Len(b.chunks)
<1>1. b.chunks \in Seq(ChunkType) /\ n \in Nat /\ n \in 1 .. n
  <2>1. b.chunks \in Seq(ChunkType) /\ n \in Nat
    BY BlockChunks
  <2> QED
    BY <2>1
<1>2. b.chunks[n] \in ChunkType /\ LastChunk(b) = b.chunks[n]
  BY <1>1 DEF LastChunk
<1>3. /\ new.at = b.chunks[n].at /\ new.text = b.chunks[n].text
      /\ new.type = b.chunks[n].type /\ new.length = b.chunks[n].length
      /\ new.feed = b.chunks[n].feed /\ (b.chunks[n].wrap => new.wrap)
  BY <1>2 DEF ChunkType
<1>4. /\ Sound(c) /\ c.made = b.made /\ c.lastdata = b.lastdata
      /\ c.tab = b.tab /\ c.avail = b.avail
  BY <1>1, <1>3, RelabelledSound
<1>5. c.chunks = [b.chunks EXCEPT ![n] = new]
  BY DEF Sound, BlockType
<1>6. Len(c.chunks) = n /\ \A k \in 1 .. n : c.chunks[k] = IF k = n THEN new ELSE b.chunks[k]
  BY <1>1, <1>5
<1>7. LastChunk(c) = new /\ c.chunks # <<>>
  BY <1>1, <1>6 DEF LastChunk
<1>8. ASSUME NEW k \in 1 .. n
      PROVE  /\ c.chunks[k].at = b.chunks[k].at /\ c.chunks[k].type = b.chunks[k].type
             /\ c.chunks[k].text = b.chunks[k].text
             /\ b.chunks[k].feed => c.chunks[k].feed
             /\ b.chunks[k].wrap => c.chunks[k].wrap
  <2>1. CASE k = n
    BY <1>3, <1>6, <2>1
  <2>2. CASE k # n
    BY <1>6, <2>2
  <2> QED
    BY <2>1, <2>2
<1>9. Grows(b, c)
  <2>1. ~\E k \in n + 1 .. Len(c.chunks) : TRUE
    BY <1>1, <1>6
  <2>2. n <= Len(c.chunks)
    BY <1>1, <1>6
  <2> QED
    BY <1>4, <1>8, <2>1, <2>2 DEF Grows
<1> QED
  BY <1>2, <1>3, <1>4, <1>6, <1>7, <1>8, <1>9 DEF Labels

-----------------------------------------------------------------------------
(* The lines as they are written *)

(* fs is ls with one line more, and one less in front of a full table. *)
FedTo(ls, fs, a, lost) ==
  /\ Len(fs) = a + 1 - lost
  /\ \A i \in 1 .. a - lost, j \in 1 .. a : j = i + lost => fs[i] = ls[j]
  /\ fs[a + 1 - lost] = <<>>

(* The lines of the history after a new one was started.                   *)
LEMMA FedAt ==
  ASSUME NEW ls \in Seq(Seq(Streams)), NEW a \in 1 .. MaxLines, Len(ls) = a,
         NEW lost, lost = IF a = MaxLines THEN 1 ELSE 0
  PROVE  FedTo(ls, Fed(ls), a, lost)
<1> SUFFICES /\ Len(Fed(ls)) = a + 1 - lost
             /\ \A i \in 1 .. a - lost, j \in 1 .. a : j = i + lost => Fed(ls)[i] = ls[j]
             /\ Fed(ls)[a + 1 - lost] = <<>>
  BY DEF FedTo
<1>1. MaxLines \in Nat /\ a \in Nat /\ a > 0 /\ <<>> \in Seq(Streams)
  BY StoreAssumption DEF StoreAssumption
<1>2. CASE a = MaxLines
  <2>1. Fed(ls) = Append(Tail(ls), <<>>) /\ lost = 1
    BY <1>2 DEF Fed
  <2>2. /\ Tail(ls) \in Seq(Seq(Streams)) /\ Len(Tail(ls)) = a - 1
        /\ \A i \in 1 .. a - 1 : Tail(ls)[i] = ls[i + 1]
    <3>1. ls # <<>>
      BY <1>1
    <3> QED
      BY <1>1, <3>1
  <2>3. PICK tl : tl = Tail(ls)
    OBVIOUS
  <2>4. PICK w : w = Append(tl, <<>>)
    OBVIOUS
  <2>5. /\ Len(w) = a
        /\ \A i \in 1 .. a - 1 : w[i] = tl[i]
        /\ w[a] = <<>>
    BY <1>1, <2>2, <2>3, <2>4
  <2>6. Fed(ls) = w
    BY <2>1, <2>3, <2>4
  <2>7. a + 1 - lost = a /\ a - lost = a - 1
    BY <1>1, <2>1
  <2>8. \A i \in 1 .. a - 1 : w[i] = ls[i + 1]
    BY <2>2, <2>3, <2>5
  <2> QED
    BY <2>1, <2>5, <2>6, <2>7, <2>8
<1>3. CASE a # MaxLines
  <2>1. Fed(ls) = Append(ls, <<>>) /\ lost = 0
    BY <1>3 DEF Fed
  <2>2. PICK w : w = Append(ls, <<>>)
    OBVIOUS
  <2>3. /\ Len(w) = a + 1
        /\ \A i \in 1 .. a : w[i] = ls[i]
        /\ w[a + 1] = <<>>
    BY <1>1, <2>2
  <2>4. a + 1 - lost = a + 1 /\ a - lost = a
    BY <1>1, <2>1
  <2>5. \A i \in 1 .. a : i + lost = i
    BY <2>1
  <2> QED
    BY <2>1, <2>2, <2>3, <2>4, <2>5
<1> QED
  BY <1>2, <1>3

(* The lines of the history after n characters were written.               *)
LEMMA WrittenAt ==
  ASSUME NEW ls \in Seq(Seq(Streams)), ls # <<>>, NEW n
  PROVE  /\ Len(WrittenTo(ls, n)) = Len(ls)
         /\ \A i \in 1 .. Len(ls) :
              WrittenTo(ls, n)[i] =
                IF i = Len(ls) THEN ls[i] \o [k \in 1 .. n |-> LastChunk(block).text[job.done + k]]
                ELSE ls[i]
<1>1. Len(ls) \in Nat /\ Len(ls) \in 1 .. Len(ls) /\ DOMAIN ls = 1 .. Len(ls)
  BY DEF Seq
<1>2. PICK piece : piece = [k \in 1 .. n |-> LastChunk(block).text[job.done + k]]
  OBVIOUS
<1>3. PICK line : line = ls[Len(ls)] \o piece
  OBVIOUS
<1>4. WrittenTo(ls, n) = [ls EXCEPT ![Len(ls)] = line]
  BY <1>2, <1>3 DEF WrittenTo
<1>5. PICK w : w = [ls EXCEPT ![Len(ls)] = line]
  OBVIOUS
<1>6. DOMAIN w = 1 .. Len(ls) /\ \A i \in 1 .. Len(ls) : w[i] = IF i = Len(ls) THEN line ELSE ls[i]
  BY <1>1, <1>5
<1>7. Len(w) = Len(ls)
  <2>1. PICK m : m = Len(ls)
    OBVIOUS
  <2>2. w = [i \in 1 .. m |-> w[i]]
    BY <1>1, <1>5, <2>1
  <2>3. m \in Nat
    BY <1>1, <2>1
  <2> QED
    BY <2>1, <2>2, <2>3
<1> QED
  BY <1>2, <1>3, <1>4, <1>5, <1>6, <1>7

(* Two histories agree on the lines that start in a chunk with a header. *)
Agree(b, ls, ms) ==
  /\ Len(ls) = b.avail /\ Len(ms) = b.avail
  /\ \A i \in 1 .. b.avail : OfText(b, b.tab[i - 1]) => ls[i] = ms[i]

(* The table cuts the text into lines that agree with those written. *)
Told(b, ls, left) ==
  \E ms \in Seq(Seq(Streams)) : Cut(b, ms, left) /\ Agree(b, ls, ms)

(* What is still to be laid out follows what has been laid out. *)
JobLaid(b, j, ls) ==
  /\ LastChunk(b).type \in Streams => LastChunk(b).feed = j.feed
  /\ OfText(b, b.tab[b.avail - 1]) => j.x = Len(ls[b.avail])
  /\ b.tab[b.avail - 1].chunk = j.at =>
       /\ j.x = j.done - b.tab[b.avail - 1].char
       /\ j.left > 0 \/ b.tab[b.avail - 1].char = 0

(* Between two steps the block is tidy, it tells the lines of the history, *)
(* and its chunks say how far the lines in which they end have come.       *)
LineInv ==
  block.made =>
    /\ Tidy(block) /\ Told(block, lines, job.left)
    /\ IF Idle THEN Ends(block, Len(block.chunks))
       ELSE Ends(block, Len(block.chunks) - 1) /\ JobLaid(block, job, lines)

(* Histories that agree do so after the same was written.                  *)
LEMMA AgreeWritten ==
  ASSUME NEW b, Sound(b), NEW ls \in Seq(Seq(Streams)), NEW ms \in Seq(Seq(Streams)),
         Agree(b, ls, ms), NEW n
  PROVE  Agree(b, WrittenTo(ls, n), WrittenTo(ms, n))
<1>1. Len(ls) = b.avail /\ Len(ms) = b.avail /\ b.avail \in 1 .. MaxLines /\ MaxLines \in Nat
  BY BlockChunks DEF Agree
<1>2. ls # <<>> /\ ms # <<>>
  BY <1>1
<1>3. PICK piece : piece = [k \in 1 .. n |-> LastChunk(block).text[job.done + k]]
  OBVIOUS
<1>4. /\ Len(WrittenTo(ls, n)) = b.avail
      /\ \A i \in 1 .. b.avail :
           WrittenTo(ls, n)[i] = IF i = b.avail THEN ls[i] \o piece ELSE ls[i]
  <2>1. /\ Len(WrittenTo(ls, n)) = Len(ls)
        /\ \A i \in 1 .. Len(ls) :
             WrittenTo(ls, n)[i] =
               IF i = Len(ls)
               THEN ls[i] \o [k \in 1 .. n |-> LastChunk(block).text[job.done + k]]
               ELSE ls[i]
    BY <1>2, WrittenAt, Zenon
  <2> QED
    BY <1>1, <1>3, <2>1
<1>5. /\ Len(WrittenTo(ms, n)) = b.avail
      /\ \A i \in 1 .. b.avail :
           WrittenTo(ms, n)[i] = IF i = b.avail THEN ms[i] \o piece ELSE ms[i]
  <2>1. /\ Len(WrittenTo(ms, n)) = Len(ms)
        /\ \A i \in 1 .. Len(ms) :
             WrittenTo(ms, n)[i] =
               IF i = Len(ms)
               THEN ms[i] \o [k \in 1 .. n |-> LastChunk(block).text[job.done + k]]
               ELSE ms[i]
    BY <1>2, WrittenAt, Zenon
  <2> QED
    BY <1>1, <1>3, <2>1
<1>6. ASSUME NEW i \in 1 .. b.avail, OfText(b, b.tab[i - 1])
      PROVE  WrittenTo(ls, n)[i] = WrittenTo(ms, n)[i]
  <2>1. ls[i] = ms[i]
    BY <1>6 DEF Agree
  <2> QED
    BY <1>4, <1>5, <2>1
<1> QED
  BY <1>4, <1>5, <1>6 DEF Agree

(* And after a line was started.                                           *)
LEMMA AgreeFed ==
  ASSUME NEW b, Sound(b), NEW c, NEW lost, lost = IF b.avail = MaxLines THEN 1 ELSE 0,
         c.avail = b.avail + 1 - lost, Keeps(b, c, lost),
         NEW ls \in Seq(Seq(Streams)), NEW ms \in Seq(Seq(Streams)), Agree(b, ls, ms)
  PROVE  Agree(c, Fed(ls), Fed(ms))
<1>1. Len(ls) = b.avail /\ Len(ms) = b.avail /\ b.avail \in 1 .. MaxLines /\ MaxLines \in Nat
  BY BlockChunks DEF Agree
<1>2. /\ Len(Fed(ls)) = c.avail
      /\ \A i \in 1 .. b.avail - lost, j \in 1 .. b.avail : j = i + lost => Fed(ls)[i] = ls[j]
      /\ Fed(ls)[c.avail] = <<>>
  <2>1. PICK a : a = b.avail
    OBVIOUS
  <2>2. a \in 1 .. MaxLines /\ Len(ls) = a /\ lost = IF a = MaxLines THEN 1 ELSE 0
    BY <1>1, <2>1
  <2>3. FedTo(ls, Fed(ls), a, lost)
    BY <2>2, FedAt
  <2> QED
    BY <2>1, <2>3 DEF FedTo
<1>3. /\ Len(Fed(ms)) = c.avail
      /\ \A i \in 1 .. b.avail - lost, j \in 1 .. b.avail : j = i + lost => Fed(ms)[i] = ms[j]
      /\ Fed(ms)[c.avail] = <<>>
  <2>1. PICK a : a = b.avail
    OBVIOUS
  <2>2. a \in 1 .. MaxLines /\ Len(ms) = a /\ lost = IF a = MaxLines THEN 1 ELSE 0
    BY <1>1, <2>1
  <2>3. FedTo(ms, Fed(ms), a, lost)
    BY <2>2, FedAt
  <2> QED
    BY <2>1, <2>3 DEF FedTo
<1>4. ASSUME NEW i \in 1 .. c.avail, OfText(c, c.tab[i - 1])
      PROVE  Fed(ls)[i] = Fed(ms)[i]
  <2>1. CASE i = c.avail
    BY <1>2, <1>3, <2>1
  <2>2. CASE i # c.avail
    <3>1. PICK j : j = i + lost
      OBVIOUS
    <3>2. i \in 1 .. b.avail - lost /\ j \in 1 .. b.avail
      BY <1>1, <2>2, <3>1
    <3>3. OfText(b, b.tab[j - 1])
      BY <1>4, <3>1, <3>2 DEF Keeps
    <3>4. ls[j] = ms[j]
      BY <3>2, <3>3 DEF Agree
    <3> QED
      BY <1>2, <1>3, <3>1, <3>2, <3>4
  <2> QED
    BY <2>1, <2>2
<1> QED
  BY <1>2, <1>3, <1>4 DEF Agree

(* The open line holds what lies between its start and what is not laid out. *)
LEMMA CutOpen ==
  ASSUME NEW b, Sound(b), NEW left \in Nat, NEW ms, Cut(b, ms, left)
  PROVE  /\ Len(ms[b.avail]) = Len(Whole(b)) - left - Start(b, b.avail)
         /\ Start(b, b.avail) \in Nat /\ Len(Whole(b)) \in Nat
<1>1. b.avail \in 1 .. MaxLines /\ MaxLines \in Nat
  BY BlockChunks
<1>2. b.avail \in 1 .. b.avail
  BY <1>1
<1>3. PICK from, w : from = Start(b, b.avail) /\ w = Len(Whole(b))
  OBVIOUS
<1>4. from \in Nat /\ w \in Nat
  BY <1>2, <1>3, StartType
<1>5. from + left <= w
  BY <1>3 DEF Cut
<1>6. ms = [i \in 1 .. b.avail |-> Part(Whole(b), Start(b, i), End(b, i, left))]
  BY DEF Cut
<1>7. End(b, b.avail, left) = w - left
  BY <1>1, <1>3 DEF End
<1>8. ms[b.avail] = Part(Whole(b), from, w - left)
  BY <1>2, <1>3, <1>6, <1>7
<1>9. PICK d : d = w - left - from
  OBVIOUS
<1>10. d \in Nat /\ (w - left) - from = d
  BY <1>4, <1>5, <1>9
<1>11. ms[b.avail] = [j \in 1 .. d |-> Whole(b)[from + j]]
  BY <1>8, <1>10 DEF Part
<1>12. Len(ms[b.avail]) = d
  BY <1>10, <1>11
<1> QED
  BY <1>3, <1>4, <1>9, <1>12

(* What holds of m chunks holds of fewer.                                  *)
LEMMA EndsLess ==
  ASSUME NEW b, NEW m \in Nat, NEW q \in Int, q <= m, Ends(b, m)
  PROVE  Ends(b, q)
<1>1. \A k \in 1 .. q : k \in 1 .. m
  OBVIOUS
<1> QED
  BY <1>1 DEF Ends

(* The last chunk says how far the open line has come. *)
LEMMA LastColumn ==
  ASSUME NEW b, Sound(b), b.chunks # <<>>, OfText(b, b.tab[b.avail - 1]),
         NEW ms, Cut(b, ms, 0)
  PROVE  Ends(b, Len(b.chunks)) => LastChunk(b).endx = Len(ms[b.avail])
<1> SUFFICES ASSUME Ends(b, Len(b.chunks)) PROVE LastChunk(b).endx = Len(ms[b.avail])
  OBVIOUS
<1> DEFINE n == Len(b.chunks)
<1>1. b.avail \in 1 .. MaxLines /\ MaxLines \in Nat /\ n \in Nat /\ b.chunks \in Seq(ChunkType)
  BY BlockChunks
<1>2. n \in 1 .. n /\ b.avail \in 1 .. b.avail /\ ~(b.avail < b.avail)
  BY <1>1
<1>3. PICK h : h = b.avail - 1
  OBVIOUS
<1>4. h \in 0 .. b.avail - 1
  BY <1>1, <1>3
<1>5. b.tab[h].chunk <= b.lastdata
  BY <1>4, TableBounds
<1>6. b.lastdata = b.chunks[n].at
  BY <1>1, <1>2 DEF Sound, Chain
<1>7. b.chunks[n].endx = Len(Texts(b.chunks)[n]) - Start(b, b.avail)
  BY <1>2, <1>3, <1>5, <1>6 DEF Ends
<1>8. Len(ms[b.avail]) = Len(Whole(b)) - 0 - Start(b, b.avail)
      /\ Start(b, b.avail) \in Nat /\ Len(Whole(b)) \in Nat
  BY CutOpen
<1>9. Len(Whole(b)) = Len(Texts(b.chunks)[n])
  BY DEF Whole
<1>10. PICK x, y : x = Len(Whole(b)) /\ y = Start(b, b.avail)
  OBVIOUS
<1>11. x \in Nat /\ y \in Nat /\ Len(ms[b.avail]) = x - 0 - y /\ b.chunks[n].endx = x - y
  BY <1>7, <1>8, <1>9, <1>10, Zenon
<1>12. x - 0 - y = x - y
  BY <1>11
<1> QED
  BY <1>11, <1>12 DEF LastChunk

(* So it does once the text is laid out. *)
LEMMA LastEnds ==
  ASSUME NEW b, Sound(b), b.chunks # <<>>, Ends(b, Len(b.chunks) - 1),
         NEW ms, Cut(b, ms, 0),
         OfText(b, b.tab[b.avail - 1]) => LastChunk(b).endx = Len(ms[b.avail])
  PROVE  Ends(b, Len(b.chunks))
<1> DEFINE n == Len(b.chunks)
<1>1. b.avail \in 1 .. MaxLines /\ MaxLines \in Nat /\ n \in Nat /\ b.chunks \in Seq(ChunkType)
  BY BlockChunks
<1>2. n \in 1 .. n
  BY <1>1
<1>3. b.lastdata = b.chunks[n].at /\ b.chunks[n].at \in Nat
  <2>1. b.chunks[n].at \in Nat
    BY <1>2, ChunkOrder
  <2>2. b.lastdata = IF n = 0 THEN 0 ELSE b.chunks[n].at
    BY DEF Sound, Chain
  <2>3. n # 0
    BY <1>2
  <2> QED
    BY <2>1, <2>2, <2>3
<1>4. ASSUME NEW i \in 1 .. b.avail, NEW k \in 1 .. n,
             OfText(b, b.tab[i - 1]), b.tab[i - 1].chunk <= b.chunks[k].at,
             i < b.avail => b.chunks[k].at < b.tab[i].chunk
      PROVE  b.chunks[k].endx = Len(Texts(b.chunks)[k]) - Start(b, i)
  <2>1. CASE k # n
    <3>1. k \in 1 .. n - 1
      BY <1>1, <2>1
    <3> QED
      BY <1>4, <3>1 DEF Ends
  <2>2. CASE k = n
    <3>1. i = b.avail
      <4>1. SUFFICES ASSUME i # b.avail PROVE FALSE
        OBVIOUS
      <4>2. i < b.avail /\ i \in 0 .. b.avail - 1
        BY <1>1, <4>1
      <4>3. b.tab[i].chunk <= b.lastdata /\ b.tab[i].chunk \in Nat
        BY <4>2, TableBounds
      <4> QED
        BY <1>3, <1>4, <2>2, <4>2, <4>3
    <3>2. LastChunk(b).endx = Len(ms[b.avail])
      BY <1>4, <3>1
    <3>3. Len(ms[b.avail]) = Len(Whole(b)) - 0 - Start(b, b.avail)
          /\ Start(b, b.avail) \in Nat /\ Len(Whole(b)) \in Nat
      BY CutOpen
    <3>4. PICK x, y : x = Len(Whole(b)) /\ y = Start(b, b.avail)
      OBVIOUS
    <3>5. x \in Nat /\ y \in Nat /\ LastChunk(b).endx = x - 0 - y
      BY <3>2, <3>3, <3>4, Zenon
    <3>6. x - 0 - y = x - y
      BY <3>5
    <3>7. b.chunks[k] = LastChunk(b) /\ Texts(b.chunks)[k] = Whole(b)
      BY <2>2 DEF LastChunk, Whole
    <3> QED
      BY <3>1, <3>4, <3>5, <3>6, <3>7
  <2> QED
    BY <2>1, <2>2
<1> QED
  BY <1>4 DEF Ends

(* The call starts behind the place where the table may point to. *)
LEMMA FollowPlace ==
  ASSUME NEW b, Sound(b), NEW c, Sound(c), NEW j, Following(b, c, j)
  PROVE  /\ j.at > 0
         /\ b.chunks # <<>> => b.tab[b.avail - 1].chunk # j.at
<1> DEFINE n == Len(b.chunks)
<1>1. /\ b.chunks \in Seq(ChunkType) /\ n \in Nat /\ c.chunks \in Seq(ChunkType)
      /\ b.avail \in 1 .. MaxLines /\ MaxLines \in Nat
  BY BlockChunks
<1>2. j.at = b.term
  BY DEF Following
<1>3. b.chunks = <<>> => b.term = HeadLength
  BY DEF Sound, Chain
<1>4. ASSUME b.chunks # <<>>
      PROVE  b.term > b.tab[b.avail - 1].chunk /\ b.tab[b.avail - 1].chunk \in Nat /\ b.term \in Nat
             /\ b.term > 0
  <2>1. n \in 1 .. n
    BY <1>1, <1>4
  <2>2. b.chunks[n] \in ChunkType
    BY <1>1, <2>1
  <2>3. b.term = ChunkEnd(b.chunks[n]) /\ b.lastdata = b.chunks[n].at
    BY <1>1, <2>1 DEF Sound, Chain
  <2>4. ChunkEnd(b.chunks[n]) \in Nat /\ ChunkEnd(b.chunks[n]) >= b.chunks[n].at + 34
        /\ b.chunks[n].at \in Nat
    BY <2>2, ChunkEndBounds DEF ChunkType
  <2>5. PICK h : h = b.avail - 1
    OBVIOUS
  <2>6. h \in 0 .. b.avail - 1
    BY <1>1, <2>5
  <2>7. b.tab[h].chunk <= b.lastdata /\ b.tab[h].chunk \in Nat
    BY <1>4, <2>6, TableBounds
  <2> QED
    BY <2>3, <2>4, <2>5, <2>7
<1> QED
  BY <1>2, <1>3, <1>4, HeadLengthType

(* To store the text of a call keeps LineInv and the lines.                *)
LEMMA StoreLine ==
  ASSUME IInv, LineInv, NEW stream \in Streams, NEW n \in Pieces, NEW feed \in BOOLEAN,
         Store(stream, n, feed)
  PROVE  LineInv' /\ Keeps(block, block', 0) /\ Idle /\ ~Idle'
<1>1. block.made /\ Idle /\ lines' = lines
  BY DEF Store
<1>2. Tidy(block) /\ Told(block, lines, job.left) /\ Ends(block, Len(block.chunks))
  BY <1>1 DEF LineInv
<1>3. job.left = 0
  BY <1>1 DEF Idle, NoJob
<1>4. PICK ms \in Seq(Seq(Streams)) : Cut(block, ms, 0) /\ Agree(block, lines, ms)
  BY <1>2, <1>3 DEF Told
<1>5. /\ Sound(block) /\ Sound(block') /\ Grows(block, block')
      /\ \A k \in 1 .. Len(block.chunks) : block'.chunks[k].endx = block.chunks[k].endx
      /\ Joining(block, block', job') \/ Following(block, block', job')
  BY <1>2, StoreGrows
<1>6. /\ block'.made /\ job'.left = n /\ job'.feed = feed
      /\ Cut(block', ms, n)
      /\ LastChunk(block').feed = feed
      /\ job'.done + n = Len(LastChunk(block').text)
  BY <1>4, StoreCut
<1>7. PICK b, c, j, ls : b = block /\ c = block' /\ j = job' /\ ls = lines
  OBVIOUS
<1>8. /\ Sound(b) /\ Sound(c) /\ Grows(b, c) /\ Tidy(b) /\ Ends(b, Len(b.chunks))
      /\ \A k \in 1 .. Len(b.chunks) : c.chunks[k].endx = b.chunks[k].endx
      /\ Joining(b, c, j) \/ Following(b, c, j)
      /\ j.left = n /\ j.feed = feed /\ LastChunk(c).feed = feed
      /\ Cut(b, ms, 0) /\ Cut(c, ms, n) /\ Agree(b, ls, ms)
  BY <1>2, <1>4, <1>5, <1>6, <1>7
<1>9. Tidy(c) /\ Keeps(b, c, 0)
  BY <1>8, GrowTidy, GrowKeeps
<1>10. /\ b.avail \in 1 .. MaxLines /\ MaxLines \in Nat /\ Len(b.chunks) \in Nat
       /\ c.avail = b.avail /\ c.tab = b.tab
       /\ b.avail \in 1 .. b.avail
       /\ \A i \in 1 .. b.avail : i = i + 0
  <2>1. b.avail \in 1 .. MaxLines /\ MaxLines \in Nat /\ Len(b.chunks) \in Nat
    BY <1>8, BlockChunks
  <2> QED
    BY <1>8, <2>1 DEF Grows
<1>11. ASSUME NEW i \in 1 .. b.avail, OfText(c, c.tab[i - 1]) PROVE OfText(b, b.tab[i - 1])
  BY <1>9, <1>10, <1>11 DEF Keeps
<1>12. Told(c, ls, n)
  <2>1. Agree(c, ls, ms)
    BY <1>8, <1>10, <1>11 DEF Agree
  <2> QED
    BY <1>8, <2>1 DEF Told
<1>13. Ends(c, Len(c.chunks) - 1)
  <2>1. CASE Joining(b, c, j)
    <3>1. PICK m : m = Len(b.chunks) - 1
      OBVIOUS
    <3>2. b.chunks # <<>> /\ Len(c.chunks) = Len(b.chunks)
      BY <2>1 DEF Joining
    <3>3. Len(b.chunks) # 0
      BY <1>8, <3>2, BlockChunks
    <3>4. m \in 0 .. Len(b.chunks) /\ m # Len(b.chunks) /\ m \in Int /\ m <= Len(b.chunks)
          /\ Len(c.chunks) - 1 = m
          /\ \A k \in 1 .. m : k \in 1 .. Len(b.chunks)
      BY <1>10, <3>1, <3>2, <3>3
    <3>5. Ends(b, m)
      BY <1>8, <1>10, <3>4, EndsLess
    <3>6. Ends(c, m)
      BY <1>8, <3>4, <3>5, GrowEnds
    <3> QED
      BY <3>4, <3>6
  <2>2. CASE Following(b, c, j)
    <3>1. PICK m : m = Len(b.chunks)
      OBVIOUS
    <3>2. m \in 0 .. Len(b.chunks) /\ Len(c.chunks) - 1 = m
          /\ \A k \in 1 .. m : /\ c.chunks[k].text = b.chunks[k].text
                               /\ c.chunks[k].endx = b.chunks[k].endx
      BY <1>10, <2>2, <3>1 DEF Following
    <3>3. Ends(b, m)
      BY <1>8, <3>1
    <3>4. Ends(c, m)
      BY <1>8, <3>2, <3>3, GrowEnds
    <3> QED
      BY <3>2, <3>4
  <2> QED
    BY <1>8, <2>1, <2>2
<1>14. ASSUME OfText(c, c.tab[c.avail - 1]) PROVE j.x = Len(ls[c.avail])
  <2>1. OfText(b, b.tab[b.avail - 1]) /\ ls[c.avail] = ms[b.avail]
    <3>1. OfText(b, b.tab[b.avail - 1])
      BY <1>10, <1>11, <1>14
    <3> QED
      BY <1>8, <1>10, <3>1 DEF Agree
  <2>2. b.chunks # <<>> => LastChunk(b).endx = Len(ms[b.avail])
    BY <1>8, <2>1, LastColumn
  <2>3. CASE Joining(b, c, j)
    BY <2>1, <2>2, <2>3 DEF Joining
  <2>4. CASE Following(b, c, j)
    <3>1. j.x \in StartColumns(b)
      BY <2>4 DEF Following
    <3>2. CASE b.chunks = <<>>
      <4>1. b.lastdata = 0 /\ j.x = 0
        BY <1>8, <3>1, <3>2 DEF Sound, Chain, StartColumns
      <4>2. b.avail = 1 /\ Offset(b, b.tab[0]) = 0 /\ Whole(b) = <<>>
        BY <1>8, <3>2, EmptyOffset
      <4>3. Len(ms[b.avail]) = Len(Whole(b)) - 0 - Start(b, b.avail)
        BY <1>8, CutOpen
      <4>4. Start(b, b.avail) = 0
        BY <4>2 DEF Start
      <4>5. Len(Whole(b)) = 0
        BY <4>2
      <4> QED
        BY <2>1, <4>1, <4>3, <4>4, <4>5
    <3>3. CASE b.chunks # <<>>
      <4>1. b.lastdata # 0
        <5>1. Len(b.chunks) # 0 /\ Len(b.chunks) \in 1 .. Len(b.chunks)
          BY <1>10, <3>3, <1>8, BlockChunks
        <5>2. b.lastdata = b.chunks[Len(b.chunks)].at
          BY <1>8, <5>1 DEF Sound, Chain
        <5>3. HeadLength <= b.chunks[Len(b.chunks)].at
          BY <1>8, <5>1, ChunkOrder
        <5> QED
          BY <5>2, <5>3, HeadLengthType
      <4>2. CASE LastChunk(b).type \in Streams
        <5>1. j.x = LastChunk(b).endx
          BY <3>1, <4>1, <4>2 DEF StartColumns, LastIsText
        <5> QED
          BY <2>1, <2>2, <3>3, <5>1
      <4>3. CASE LastChunk(b).type \notin Streams
        <5>1. Len(b.chunks) \in 1 .. Len(b.chunks)
          BY <1>10, <3>3, <1>8, BlockChunks
        <5>2. Len(b.chunks) = 1
          BY <1>8, <4>3, <5>1 DEF Tidy, Heads, LastChunk
        <5>3. PICK k \in 1 .. Len(b.chunks) : b.chunks[k].at = b.tab[b.avail - 1].chunk
          BY <1>8, <1>10, <3>3, StartChunk
        <5>4. k = 1
          BY <5>2, <5>3
        <5>5. b.chunks[k].type \notin Streams
          BY <4>3, <5>2, <5>4 DEF LastChunk
        <5> QED
          BY <2>1, <5>3, <5>5 DEF OfText
      <4> QED
        BY <4>2, <4>3
    <3> QED
      BY <3>2, <3>3
  <2> QED
    BY <1>8, <2>3, <2>4
<1>15. ASSUME c.tab[c.avail - 1].chunk = j.at
       PROVE  /\ j.x = j.done - c.tab[c.avail - 1].char
              /\ j.left > 0 \/ c.tab[c.avail - 1].char = 0
  <2>1. PICK h : h = b.avail - 1
    OBVIOUS
  <2>2. h \in 0 .. b.avail - 1
    BY <1>10, <2>1
  <2>3. CASE Joining(b, c, j)
    <3>1. /\ b.chunks # <<>> /\ LastChunk(b).type \in Streams
          /\ ~LastChunk(b).feed /\ ~LastChunk(b).wrap
          /\ j.at = b.lastdata /\ j.x = LastChunk(b).endx /\ j.done = Len(LastChunk(b).text)
      BY <2>3 DEF Joining
    <3>2. PICK m : m = Len(b.chunks)
      OBVIOUS
    <3>3. m \in 1 .. m /\ m \in 1 .. Len(b.chunks) /\ m \in 1 .. m /\ LastChunk(b) = b.chunks[m]
          /\ b.lastdata = b.chunks[m].at
      <4>1. m # 0 /\ m \in Nat
        BY <1>8, <1>10, <3>1, <3>2, BlockChunks
      <4> QED
        BY <1>8, <3>2, <4>1 DEF LastChunk, Sound, Chain
    <3>4. b.chunks[m].at = b.tab[h].chunk
      BY <1>10, <1>15, <2>1, <3>1, <3>3
    <3>5. b.tab[h].char = 0
      <4>1. ~(b.tab[h].char > 0)
        BY <1>8, <2>2, <3>1, <3>3, <3>4 DEF Tidy, Flagged
      <4>2. b.tab[h].char \in Nat
        BY <1>8, <2>2, <3>1, TableBounds
      <4> QED
        BY <4>1, <4>2
    <3>6. OfText(b, b.tab[b.avail - 1])
      <4>1. ASSUME NEW k \in 1 .. Len(b.chunks), b.chunks[k].at = b.tab[h].chunk
            PROVE  b.chunks[k].type \in Streams
        <5>1. k = m
          BY <1>8, <3>3, <3>4, <4>1, OneChunk
        <5> QED
          BY <3>1, <3>3, <5>1
      <4> QED
        BY <2>1, <4>1 DEF OfText
    <3>7. LastChunk(b).endx = Len(ms[b.avail])
      BY <1>8, <3>1, <3>6, LastColumn
    <3>8. Len(ms[b.avail]) = Len(Whole(b)) - 0 - Start(b, b.avail)
      BY <1>8, CutOpen
    <3>9. PICK T : T = Texts(b.chunks)
      OBVIOUS
    <3>10. Start(b, b.avail) = Len(T[m - 1]) + b.tab[h].char
      BY <1>8, <1>10, <2>1, <3>3, <3>4, <3>9, StartIs
    <3>11. b.chunks \in Seq(ChunkType)
      BY <1>8, BlockChunks
    <3>12. /\ T[m - 1] \in Seq(Streams) /\ b.chunks[m].text \in Seq(Streams)
           /\ Len(T[m]) = Len(T[m - 1]) + Len(b.chunks[m].text)
      BY <3>3, <3>9, <3>11, TextsGrow
    <3>13. Whole(b) = T[m]
      BY <3>2, <3>9 DEF Whole
    <3>14. PICK x, y : x = Len(T[m - 1]) /\ y = Len(b.chunks[m].text)
      OBVIOUS
    <3>15. x \in Nat /\ y \in Nat
      BY <3>12, <3>14
    <3>16. LastChunk(b).endx = (x + y) - 0 - (x + 0)
      BY <3>5, <3>7, <3>8, <3>10, <3>12, <3>13, <3>14, Zenon
    <3>17. (x + y) - 0 - (x + 0) = y - 0
      BY <3>15
    <3>18. j.x = y - 0 /\ j.done = y
      BY <3>1, <3>3, <3>14, <3>16, <3>17
    <3> QED
      BY <1>10, <2>1, <3>5, <3>18
  <2>4. CASE Following(b, c, j)
    <3>1. b.chunks = <<>>
      BY <1>8, <1>10, <1>15, <2>4, FollowPlace
    <3>2. b.lastdata = 0 /\ j.x = 0 /\ j.done = 0
      BY <1>8, <2>4, <3>1 DEF Following, Sound, Chain, StartColumns
    <3>3. b.tab[h].char = 0
      BY <1>8, <2>2, <3>1, EmptyTable
    <3> QED
      BY <1>10, <2>1, <3>2, <3>3
  <2> QED
    BY <1>8, <2>3, <2>4
<1>16. JobLaid(c, j, ls)
  <2>1. LastChunk(c).feed = j.feed
    BY <1>8
  <2> QED
    BY <1>14, <1>15, <2>1 DEF JobLaid
<1>17. j # NoJob
  <2>1. j.at # 0
    <3>1. CASE Joining(b, c, j)
      <4>1. Len(b.chunks) # 0 /\ Len(b.chunks) \in 1 .. Len(b.chunks)
        BY <1>8, <1>10, <3>1, BlockChunks DEF Joining
      <4>2. b.lastdata = b.chunks[Len(b.chunks)].at /\ HeadLength <= b.chunks[Len(b.chunks)].at
        BY <1>8, <4>1, ChunkOrder DEF Sound, Chain
      <4> QED
        BY <3>1, <4>2, HeadLengthType DEF Joining
    <3>2. CASE Following(b, c, j)
      <4>1. j.at > 0
        BY <1>8, <3>2, FollowPlace
      <4> QED
        BY <4>1
    <3> QED
      BY <1>8, <3>1, <3>2
  <2> QED
    BY <2>1 DEF NoJob
<1>18. ~Idle'
  BY <1>7, <1>17 DEF Idle
<1>19. LineInv'
  <2>1. /\ Tidy(block') /\ Told(block', lines', job'.left)
        /\ Ends(block', Len(block'.chunks) - 1) /\ JobLaid(block', job', lines')
    BY <1>1, <1>7, <1>8, <1>9, <1>12, <1>13, <1>16
  <2> QED
    BY <1>18, <2>1 DEF LineInv, Idle
<1> QED
  BY <1>1, <1>7, <1>9, <1>18, <1>19

(* t begins with s. *)
Begun(s, t) == Len(s) <= Len(t) /\ \A x \in 1 .. Len(s) : t[x] = s[x]

(* The lines ls of b, but the lost ones, are lines of c; only the last one *)
(* of them has perhaps become longer.                                      *)
Stays(b, c, ls, ms, lost) ==
  /\ Keeps(b, c, lost)
  /\ \A i \in 1 .. c.avail, j \in 1 .. b.avail : j = i + lost /\ OfText(c, c.tab[i - 1]) =>
       Begun(ls[j], ms[i]) /\ (j < b.avail => ms[i] = ls[j])

(* ks is ls with n characters more in its last line. *)
Wrote(ls, ks, n) ==
  /\ ks \in Seq(Seq(Streams)) /\ Len(ks) = Len(ls)
  /\ \A i \in 1 .. Len(ls) : Begun(ls[i], ks[i]) /\ (i < Len(ls) => ks[i] = ls[i])
  /\ Len(ks[Len(ls)]) = Len(ls[Len(ls)]) + n

(* The same line, with more behind it. *)
LEMMA BegunJoin ==
  ASSUME NEW s \in Seq(Streams), NEW t \in Seq(Streams)
  PROVE  Begun(s, s) /\ Begun(s, s \o t) /\ Len(s \o t) = Len(s) + Len(t)
<1>1. Len(s) \in Nat /\ Len(t) \in Nat
  OBVIOUS
<1>2. Len(s \o t) = Len(s) + Len(t)
  OBVIOUS
<1>3. ASSUME NEW x \in 1 .. Len(s) PROVE (s \o t)[x] = s[x]
  OBVIOUS
<1>4. Len(s) <= Len(s) /\ Len(s) <= Len(s) + Len(t)
  BY <1>1
<1> QED
  BY <1>2, <1>3, <1>4 DEF Begun

(* Writing makes the last line longer, and no other.                       *)
LEMMA WrittenBegun ==
  ASSUME IInv, ~Idle, NEW n \in Nat, n <= job.left, NEW ls \in Seq(Seq(Streams)), ls # <<>>,
         NEW ks, ks = WrittenTo(ls, n)
  PROVE  Wrote(ls, ks, n)
<1>1. ks \in Seq(Seq(Streams))
  BY WrittenType
<1>2. /\ Len(ks) = Len(ls)
      /\ \A i \in 1 .. Len(ls) :
           ks[i] = IF i = Len(ls) THEN ls[i] \o [k \in 1 .. n |-> LastChunk(block).text[job.done + k]]
                   ELSE ls[i]
  BY WrittenAt
<1>3. PICK piece : piece = [k \in 1 .. n |-> LastChunk(block).text[job.done + k]]
  OBVIOUS
<1>4. piece \in Seq(Streams) /\ Len(piece) = n
  <2>1. PICK u : u = LastChunk(block).text
    OBVIOUS
  <2>2. Sound(block) /\ block.chunks # <<>> /\ job.done + job.left <= Len(u)
    BY <2>1 DEF IInv, JobSound, BlockSound
  <2>3. u \in Seq(Streams)
    <3>1. LastChunk(block) \in ChunkType
      BY <2>2 DEF LastChunk, Sound, BlockType
    <3> QED
      BY <2>1, <3>1 DEF ChunkType
  <2>4. job.done \in Nat /\ job.left \in Nat
    BY DEF IInv, JobType
  <2>5. PICK d : d = job.done
    OBVIOUS
  <2>6. ASSUME NEW k \in 1 .. n PROVE u[d + k] \in Streams
    <3>1. d + k \in 1 .. Len(u)
      BY <2>2, <2>3, <2>4, <2>5
    <3> QED
      BY <2>3, <3>1
  <2>7. piece = [k \in 1 .. n |-> u[d + k]]
    BY <1>3, <2>1, <2>5
  <2> QED
    BY <2>6, <2>7
<1>5. PICK m : m = Len(ls)
  OBVIOUS
<1>6. m \in Nat /\ m \in 1 .. m
  <2>1. m # 0 /\ m \in Nat
    BY <1>5
  <2> QED
    BY <2>1
<1>7. Len(ks) = m /\ \A i \in 1 .. m : ks[i] = IF i = m THEN ls[i] \o piece ELSE ls[i]
  BY <1>2, <1>3, <1>5
<1>8. ASSUME NEW i \in 1 .. m
      PROVE  /\ Begun(ls[i], ks[i]) /\ (i < m => ks[i] = ls[i])
             /\ i = m => Len(ks[i]) = Len(ls[i]) + n
  <2>1. PICK s : s = ls[i]
    OBVIOUS
  <2>2. s \in Seq(Streams)
    BY <1>5, <2>1
  <2>3. Begun(s, s) /\ Begun(s, s \o piece) /\ Len(s \o piece) = Len(s) + n
    BY <1>4, <2>2, BegunJoin
  <2>4. CASE i = m
    <3>1. ks[i] = s \o piece
      BY <1>7, <2>1, <2>4
    <3>2. ~(i < m)
      BY <1>6, <2>4
    <3> QED
      BY <2>1, <2>3, <3>1, <3>2
  <2>5. CASE i # m
    <3>1. ks[i] = s
      BY <1>7, <2>1, <2>5
    <3> QED
      BY <2>1, <2>3, <2>5, <3>1
  <2> QED
    BY <2>4, <2>5
<1>9. Len(ks[m]) = Len(ls[m]) + n
  BY <1>6, <1>8
<1> QED
  BY <1>1, <1>5, <1>7, <1>8, <1>9 DEF Wrote

(* Lines are kept by one step after another.                               *)
LEMMA KeepsBoth ==
  ASSUME NEW b, NEW w, NEW c, NEW lost \in Int, w.avail = b.avail,
         b.avail \in Int, Keeps(b, w, 0), Keeps(w, c, lost)
  PROVE  Keeps(b, c, lost)
<1>1. ASSUME NEW i \in 1 .. c.avail, NEW j \in 1 .. b.avail, j = i + lost
      PROVE  /\ OfText(c, c.tab[i - 1]) => OfText(b, b.tab[j - 1])
             /\ ~Lost(c, i) => ~Lost(b, j)
  <2>1. j \in 1 .. w.avail /\ j = j + 0
    OBVIOUS
  <2>2. /\ OfText(c, c.tab[i - 1]) => OfText(w, w.tab[j - 1])
        /\ ~Lost(c, i) => ~Lost(w, j)
    BY <1>1, <2>1 DEF Keeps
  <2>3. /\ OfText(w, w.tab[j - 1]) => OfText(b, b.tab[j - 1])
        /\ ~Lost(w, j) => ~Lost(b, j)
    BY <2>1 DEF Keeps
  <2> QED
    BY <2>2, <2>3
<1> QED
  BY <1>1 DEF Keeps

(* A line more, after n more characters in the line that was open. *)
LEMMA FedStays ==
  ASSUME NEW b, Sound(b), NEW c, NEW lost, lost = IF b.avail = MaxLines THEN 1 ELSE 0,
         c.avail = b.avail + 1 - lost, Keeps(b, c, lost),
         NEW ls \in Seq(Seq(Streams)), Len(ls) = b.avail,
         NEW ks, NEW n, Wrote(ls, ks, n)
  PROVE  Stays(b, c, ls, Fed(ks), lost) /\ Fed(ks)[c.avail] = <<>>
<1>1. b.avail \in 1 .. MaxLines /\ MaxLines \in Nat /\ ks \in Seq(Seq(Streams))
      /\ Len(ks) = b.avail
  BY BlockChunks DEF Wrote
<1>2. PICK a, fs : a = b.avail /\ fs = Fed(ks)
  OBVIOUS
<1>3. a \in 1 .. MaxLines /\ Len(ks) = a /\ lost = IF a = MaxLines THEN 1 ELSE 0
  BY <1>1, <1>2
<1>4. FedTo(ks, fs, a, lost)
  <2>1. FedTo(ks, Fed(ks), a, lost)
    BY <1>1, <1>3, FedAt
  <2> QED
    BY <1>2, <2>1
<1>5. ASSUME NEW i \in 1 .. c.avail, NEW j \in 1 .. b.avail, j = i + lost
      PROVE  Begun(ls[j], fs[i]) /\ (j < b.avail => fs[i] = ls[j])
  <2>1. i \in 1 .. a - lost
    BY <1>1, <1>2, <1>3, <1>5
  <2>2. fs[i] = ks[j]
    BY <1>2, <1>4, <1>5, <2>1 DEF FedTo
  <2>3. Begun(ls[j], ks[j]) /\ (j < b.avail => ks[j] = ls[j])
    BY <1>5 DEF Wrote
  <2> QED
    BY <2>2, <2>3
<1>6. fs[c.avail] = <<>>
  BY <1>2, <1>4 DEF FedTo
<1> QED
  BY <1>2, <1>5, <1>6 DEF Stays

(* To wrap a line keeps LineInv, and the lines but the open one.           *)
LEMMA WrapLineInv ==
  ASSUME IInv, BoundInv, LineInv, Wrap,
         NEW lost, lost = IF block.avail = MaxLines THEN 1 ELSE 0
  PROVE  /\ LineInv' /\ Stays(block, block', lines, lines', lost) /\ ~Idle'
         /\ block'.avail = block.avail + 1 - lost
<1> DEFINE fits == Width - job.x
           done == job.done + fits
           new == [LastChunk(block) EXCEPT !.wrap = TRUE]
           w == [block EXCEPT !.chunks = [block.chunks EXCEPT ![Len(block.chunks)] = new]]
           ref == Ref(w.lastdata, done)
<1>1. ~Idle /\ job.left > fits
  BY DEF Wrap
<1>2. block.made /\ Sound(block) /\ block.chunks # <<>> /\ job.at = block.lastdata
  BY <1>1 DEF IInv, JobSound, BlockSound
<1>3. /\ job \in JobType /\ fits \in Nat /\ fits \in 0 .. job.left /\ job.left - fits \in Nat
      /\ job.left - fits > 0 /\ job.x \in Nat /\ job.done \in Nat /\ job.left \in Nat
      /\ Width \in Nat /\ Width > 0 /\ done \in Nat /\ fits <= job.left
      /\ lines \in Seq(Seq(Streams))
  BY <1>1, StoreAssumption DEF IInv, JobType, StoreAssumption
<1>4. LastChunk(block) \in ChunkType
  BY <1>2 DEF LastChunk, Sound, BlockType
<1>5. new \in ChunkType /\ new.wrap
  BY <1>4 DEF ChunkType
<1>6. block' = NewLine(w, job.at, done)
  BY <1>2 DEF Wrap, LastChunk, Sound, BlockType
<1>7. job' = [job EXCEPT !.x = 0, !.done = done, !.left = job.left - fits]
  BY DEF Wrap
<1>8. /\ job'.x = 0 /\ job'.done = done /\ job'.left = job.left - fits
      /\ job'.feed = job.feed /\ job'.at = job.at
  BY <1>3, <1>7 DEF JobType
<1>9. lines' = Fed(WrittenTo(lines, fits))
  BY DEF Wrap, Written, WrittenTo
<1>10. /\ Tidy(block) /\ Told(block, lines, job.left)
       /\ Ends(block, Len(block.chunks) - 1) /\ JobLaid(block, job, lines)
  BY <1>1, <1>2 DEF LineInv
<1>11. job.done + job.left = Len(LastChunk(block).text)
  BY <1>1, <1>2 DEF BoundInv, JobClose
<1>12. PICK ms \in Seq(Seq(Streams)) : Cut(block, ms, job.left) /\ Agree(block, lines, ms)
  BY <1>10 DEF Told
<1>13. /\ Cut(block', Fed(WrittenTo(ms, fits)), job'.left)
       /\ WrittenTo(ms, fits) \in Seq(Seq(Streams))
       /\ Fed(WrittenTo(ms, fits)) \in Seq(Seq(Streams))
  BY <1>1, <1>3, <1>11, <1>12, WrapCut, WrittenType
<1>14. new = [LastChunk(block) EXCEPT !.wrap = TRUE]
  OBVIOUS
<1> HIDE DEF fits, new
<1>15. PICK v : v = w
  OBVIOUS
<1>16. /\ Sound(v) /\ v.chunks # <<>> /\ v.lastdata = block.lastdata /\ v.made = block.made
       /\ Grows(block, v) /\ Len(v.chunks) = Len(block.chunks) /\ LastChunk(v) = new
       /\ new.type = LastChunk(block).type /\ new.feed = LastChunk(block).feed
       /\ new.text = LastChunk(block).text
       /\ \A k \in 1 .. Len(block.chunks) : k # Len(block.chunks) => v.chunks[k] = block.chunks[k]
  <2>1. new \in ChunkType /\ (new = [LastChunk(block) EXCEPT !.wrap = TRUE]
           \/ \E endx \in 0 .. Width : new = [LastChunk(block) EXCEPT !.endx = endx])
    BY <1>5, <1>14
  <2>2. v = [block EXCEPT !.chunks = [block.chunks EXCEPT ![Len(block.chunks)] = new]]
    BY <1>15
  <2>3. Labels(block, v, new)
    BY <1>2, <2>1, <2>2, LabelGrows
  <2> QED
    BY <2>3 DEF Labels
<1>17. Tidy(v) /\ Keeps(block, v, 0) /\ v.avail = block.avail /\ v.tab = block.tab
  BY <1>2, <1>10, <1>16, GrowTidy, GrowKeeps DEF Grows
<1>18. /\ Len(block.chunks) \in Nat /\ Len(block.chunks) > 0
       /\ block.avail \in 1 .. MaxLines /\ MaxLines \in Nat
  <2>1. Len(block.chunks) \in Nat /\ block.avail \in 1 .. MaxLines /\ MaxLines \in Nat
        /\ block.chunks \in Seq(ChunkType)
    BY <1>2, BlockChunks
  <2> QED
    BY <1>2, <2>1
<1>19. Ends(v, Len(v.chunks) - 1)
  <2>1. PICK m : m = Len(block.chunks) - 1
    OBVIOUS
  <2>2. m \in 0 .. Len(block.chunks) /\ m # Len(block.chunks) /\ Len(v.chunks) - 1 = m
        /\ \A k \in 1 .. m : k \in 1 .. Len(block.chunks) /\ k # Len(block.chunks)
    BY <1>16, <1>18, <2>1
  <2>3. \A k \in 1 .. m : v.chunks[k].endx = block.chunks[k].endx
    BY <1>16, <2>2
  <2>4. Ends(v, m)
    BY <1>2, <1>10, <1>16, <2>1, <2>2, <2>3, GrowEnds
  <2> QED
    BY <2>2, <2>4
<1>20. PICK c : c = block'
  OBVIOUS
<1>21. c = NewLine(v, v.lastdata, done) /\ done <= Len(LastChunk(v).text)
  <2>1. done <= job.done + job.left
    BY <1>3
  <2> QED
    BY <1>2, <1>6, <1>11, <1>15, <1>16, <1>20, <2>1
<1> HIDE DEF w, done
<1>22. Sound(c) /\ c.made = v.made /\ c.chunks # <<>>
  BY <1>3, <1>16, <1>21, NewLineSound
<1>23. Renewed(v, c, lost, Ref(v.lastdata, done))
  BY <1>3, <1>16, <1>17, <1>21, NewLineRenewed
<1>24. PICK r : r = Ref(v.lastdata, done)
  OBVIOUS
<1>25. r.chunk = v.lastdata /\ r.char = done
  BY <1>24 DEF Ref
<1>26. v.tab[v.avail - 1].chunk = r.chunk
         => Rises(v.tab[v.avail - 1], r, LastChunk(v).text)
  <2>1. SUFFICES ASSUME v.tab[v.avail - 1].chunk = r.chunk
                 PROVE  v.tab[v.avail - 1].char < r.char
    BY DEF Rises
  <2>2. PICK y : y = block.tab[block.avail - 1].char
    OBVIOUS
  <2>3. block.tab[block.avail - 1].chunk = job.at /\ v.tab[v.avail - 1].char = y
    BY <1>2, <1>16, <1>17, <1>25, <2>1, <2>2
  <2>4. job.x = job.done - y
    BY <1>10, <2>2, <2>3 DEF JobLaid
  <2>5. y \in Nat
    <3>1. PICK h : h = block.avail - 1
      OBVIOUS
    <3>2. h \in 0 .. block.avail - 1
      BY <1>18, <3>1
    <3>3. block.tab[h] \in RefType
      BY <1>2, <3>2, BlockChunks
    <3> QED
      BY <2>2, <3>1, <3>3 DEF RefType
  <2>6. y < done
    BY <1>3, <2>4, <2>5 DEF done, fits
  <2> QED
    BY <1>25, <2>3, <2>6
<1>27. Begins(v, c, lost, r, done)
  BY <1>5, <1>16, <1>17, <1>22, <1>23, <1>24, <1>26 DEF Begins
<1>28. Tidy(c) /\ Keeps(v, c, lost) /\ Ends(c, Len(c.chunks) - 1)
  BY <1>19, <1>27, BeginsTidy, BeginsKeeps, BeginsEnds
<1>29. c.avail = block.avail + 1 - lost /\ lost \in 0 .. 1
  BY <1>17, <1>27, BeginsItem
<1>30. Keeps(block, c, lost)
  BY <1>17, <1>18, <1>28, <1>29, KeepsBoth
<1>31. PICK ks, ns : ks = WrittenTo(lines, fits) /\ ns = WrittenTo(ms, fits)
  OBVIOUS
<1>32. Agree(block, ks, ns) /\ Len(lines) = block.avail /\ lines # <<>>
  <2>1. Len(lines) = block.avail
    BY <1>12 DEF Agree
  <2>2. lines # <<>>
    BY <1>18, <2>1
  <2>3. Agree(block, ks, ns)
    BY <1>2, <1>3, <1>12, <1>31, AgreeWritten
  <2> QED
    BY <2>1, <2>2, <2>3
<1>33. Wrote(lines, ks, fits) /\ ks \in Seq(Seq(Streams))
  <2>1. Wrote(lines, ks, fits)
    BY <1>1, <1>3, <1>31, <1>32, WrittenBegun
  <2> QED
    BY <2>1 DEF Wrote
<1>34. Agree(c, Fed(ks), Fed(ns))
  BY <1>2, <1>13, <1>29, <1>30, <1>31, <1>32, <1>33, AgreeFed
<1>35. Stays(block, c, lines, Fed(ks), lost) /\ Fed(ks)[c.avail] = <<>>
  BY <1>2, <1>3, <1>29, <1>30, <1>32, <1>33, FedStays
<1>36. PICK j, fs : j = job' /\ fs = lines'
  OBVIOUS
<1>37. fs = Fed(ks) /\ j.x = 0 /\ j.done = done /\ j.left = job.left - fits /\ j.at = job.at
       /\ j.feed = job.feed
  BY <1>8, <1>9, <1>31, <1>36 DEF done, fits
<1>38. Told(c, fs, j.left)
  BY <1>13, <1>20, <1>31, <1>34, <1>36, <1>37 DEF Told
<1>39. JobLaid(c, j, fs)
  <2>1. LastChunk(c).type \in Streams => LastChunk(c).feed = j.feed
    <3>1. /\ Len(v.chunks) \in 1 .. Len(v.chunks) /\ Len(c.chunks) = Len(v.chunks)
          /\ \A k \in 1 .. Len(v.chunks) :
               c.chunks[k].type \in Streams => c.chunks[k] = v.chunks[k]
      BY <1>27, BeginsTypes
    <3>2. LastChunk(c).type \in Streams => LastChunk(c) = LastChunk(v)
      BY <3>1 DEF LastChunk
    <3>3. LastChunk(block).type \in Streams => LastChunk(block).feed = job.feed
      BY <1>10 DEF JobLaid
    <3> QED
      BY <1>16, <1>37, <3>2, <3>3
  <2>2. j.x = Len(fs[c.avail])
    BY <1>35, <1>37
  <2>3. /\ j.x = j.done - c.tab[c.avail - 1].char
        /\ j.left > 0 \/ c.tab[c.avail - 1].char = 0
    <3>1. c.tab[c.avail - 1] = r
      BY <1>27 DEF Begins, Renewed
    <3>2. 0 = done - done
      BY <1>3 DEF done, fits
    <3> QED
      BY <1>3, <1>25, <1>37, <3>1, <3>2 DEF fits
  <2> QED
    BY <2>1, <2>2, <2>3 DEF JobLaid
<1>40. ~Idle'
  <2>1. job'.left > 0
    BY <1>3, <1>8 DEF fits
  <2> QED
    BY <2>1 DEF Idle, NoJob
<1>41. LineInv'
  <2>1. /\ Tidy(block') /\ Told(block', lines', job'.left)
        /\ Ends(block', Len(block'.chunks) - 1) /\ JobLaid(block', job', lines')
    BY <1>20, <1>28, <1>36, <1>38, <1>39
  <2> QED
    BY <1>40, <2>1 DEF LineInv, Idle
<1> QED
  BY <1>20, <1>29, <1>35, <1>36, <1>37, <1>40, <1>41

(* The text is laid out: l is the block b with the new line, if there is   *)
(* one, and endx the column that is to be kept.                            *)
Laid(b, l, ls, ks, lost, ms, endx) ==
  /\ Sound(l) /\ l.chunks # <<>> /\ Tidy(l) /\ Ends(l, Len(l.chunks) - 1)
  /\ Stays(b, l, ls, ks, lost)
  /\ ms \in Seq(Seq(Streams)) /\ Cut(l, ms, 0) /\ Agree(l, ks, ms)
  /\ endx \in 0 .. Width
  /\ OfText(l, l.tab[l.avail - 1]) => endx = Len(ms[l.avail])

(* A block whose last chunk keeps the column its text ends at. *)
Relaid(l, endx) ==
  [l EXCEPT !.chunks = [l.chunks EXCEPT ![Len(l.chunks)] = [LastChunk(l) EXCEPT !.endx = endx]]]

(* Nothing can be drawn of a chunk without a header. *)
LEMMA NoText ==
  ASSUME NEW b, Sound(b), Len(b.chunks) = 1, b.chunks[1].type \notin Streams,
         NEW i \in 1 .. b.avail
  PROVE  ~OfText(b, b.tab[i - 1])
<1>1. b.chunks # <<>>
  OBVIOUS
<1>2. PICK k \in 1 .. Len(b.chunks) : b.chunks[k].at = b.tab[i - 1].chunk
  BY <1>1, StartChunk
<1>3. k = 1
  BY <1>2
<1> QED
  BY <1>2, <1>3 DEF OfText

(* Lines that stayed do so when the block then keeps them.                 *)
LEMMA StaysOn ==
  ASSUME NEW b, NEW l, NEW r, NEW ls, NEW ks, NEW lost \in Int, l.avail \in Int,
         r.avail = l.avail, Stays(b, l, ls, ks, lost), Keeps(l, r, 0),
         b.avail \in Int, lost \in 0 .. 1, l.avail + lost >= b.avail, l.avail + lost <= b.avail + 1
  PROVE  Stays(b, r, ls, ks, lost)
<1>1. ASSUME NEW i \in 1 .. r.avail
      PROVE  /\ OfText(r, r.tab[i - 1]) => OfText(l, l.tab[i - 1])
             /\ ~Lost(r, i) => ~Lost(l, i)
  <2>1. i \in 1 .. l.avail /\ i = i + 0
    BY <1>1
  <2> QED
    BY <1>1, <2>1 DEF Keeps
<1>2. Keeps(b, l, lost)
  BY DEF Stays
<1>3. Keeps(b, r, lost)
  <2>1. ASSUME NEW i \in 1 .. r.avail, NEW j \in 1 .. b.avail, j = i + lost
        PROVE  /\ OfText(r, r.tab[i - 1]) => OfText(b, b.tab[j - 1])
               /\ ~Lost(r, i) => ~Lost(b, j)
    <3>1. i \in 1 .. l.avail
      BY <2>1
    <3>2. /\ OfText(l, l.tab[i - 1]) => OfText(b, b.tab[j - 1])
          /\ ~Lost(l, i) => ~Lost(b, j)
      BY <1>2, <2>1, <3>1 DEF Keeps
    <3> QED
      BY <1>1, <2>1, <3>2
  <2> QED
    BY <2>1 DEF Keeps
<1>4. ASSUME NEW i \in 1 .. r.avail, NEW j \in 1 .. b.avail, j = i + lost,
             OfText(r, r.tab[i - 1])
      PROVE  Begun(ls[j], ks[i]) /\ (j < b.avail => ks[i] = ls[j])
  <2>1. i \in 1 .. l.avail /\ OfText(l, l.tab[i - 1])
    BY <1>1, <1>4
  <2> QED
    BY <1>4, <2>1 DEF Stays
<1> QED
  BY <1>3, <1>4 DEF Stays

(* The end of output_addchunk: the column is kept, old chunks go.          *)
LEMMA LaidReleased ==
  ASSUME NEW b, Sound(b), NEW l, NEW ls, NEW ks, NEW lost \in 0 .. 1, NEW ms, NEW endx,
         Laid(b, l, ls, ks, lost, ms, endx),
         l.avail + lost >= b.avail, l.avail + lost <= b.avail + 1,
         NEW r, r = Released(Relaid(l, endx))
  PROVE  /\ Tidy(r) /\ Told(r, ks, 0) /\ Ends(r, Len(r.chunks))
         /\ Stays(b, r, ls, ks, lost) /\ r.avail = l.avail
<1>0. PICK new, c : /\ new = [LastChunk(l) EXCEPT !.endx = endx] /\ c = Relaid(l, endx)
                    /\ c = [l EXCEPT !.chunks = [l.chunks EXCEPT ![Len(l.chunks)] = new]]
                    /\ r = Released(c)
  BY DEF Relaid
<1>1. /\ Sound(l) /\ l.chunks # <<>> /\ Tidy(l) /\ Ends(l, Len(l.chunks) - 1)
      /\ Stays(b, l, ls, ks, lost)
      /\ ms \in Seq(Seq(Streams)) /\ Cut(l, ms, 0) /\ Agree(l, ks, ms)
      /\ endx \in 0 .. Width
      /\ OfText(l, l.tab[l.avail - 1]) => endx = Len(ms[l.avail])
  BY DEF Laid
<1>2. /\ Len(l.chunks) \in Nat /\ l.chunks \in Seq(ChunkType) /\ l.avail \in 1 .. MaxLines
      /\ MaxLines \in Nat /\ b.avail \in 1 .. MaxLines
  BY <1>1, BlockChunks
<1>3. Len(l.chunks) > 0 /\ Len(l.chunks) \in 1 .. Len(l.chunks)
  BY <1>1, <1>2
<1>4. LastChunk(l) \in ChunkType
  BY <1>2, <1>3 DEF LastChunk
<1>5. new \in ChunkType /\ new.endx = endx
  BY <1>0, <1>1, <1>4 DEF ChunkType
<1>6. \E e \in 0 .. Width : new = [LastChunk(l) EXCEPT !.endx = e]
  BY <1>0, <1>1
<1>7. Labels(l, c, new)
  BY <1>0, <1>1, <1>5, <1>6, LabelGrows
<1>8. /\ Sound(c) /\ c.chunks # <<>> /\ Grows(l, c) /\ Len(c.chunks) = Len(l.chunks)
      /\ LastChunk(c) = new
      /\ \A k \in 1 .. Len(l.chunks) : k # Len(l.chunks) => c.chunks[k] = l.chunks[k]
  BY <1>7 DEF Labels
<1>9. Tidy(c) /\ Keeps(l, c, 0) /\ c.avail = l.avail /\ c.tab = l.tab
  <2>1. Sound(l) /\ Sound(c) /\ Grows(l, c) /\ Tidy(l)
    BY <1>1, <1>8
  <2>2. Tidy(c)
    BY <2>1, GrowTidy
  <2>3. Keeps(l, c, 0)
    BY <2>1, GrowKeeps
  <2> QED
    BY <2>1, <2>2, <2>3 DEF Grows
<1>10. Ends(c, Len(c.chunks) - 1)
  <2>1. PICK m : m = Len(l.chunks) - 1
    OBVIOUS
  <2>2. m \in 0 .. Len(l.chunks) /\ m # Len(l.chunks) /\ Len(c.chunks) - 1 = m
        /\ \A k \in 1 .. m : k \in 1 .. Len(l.chunks) /\ k # Len(l.chunks)
    BY <1>3, <1>2, <1>8, <2>1
  <2>3. \A k \in 1 .. m : c.chunks[k].endx = l.chunks[k].endx
    BY <1>8, <2>2
  <2>4. Ends(c, m)
    <3>1. Sound(l) /\ Sound(c) /\ Grows(l, c) /\ Ends(l, m)
      BY <1>1, <1>8, <2>1
    <3> QED
      BY <2>2, <2>3, <3>1, GrowEnds
  <2> QED
    BY <2>2, <2>4
<1>11. Cut(c, ms, 0)
  <2>1. Relabelled(l, c)
    BY <1>0, <1>5, <1>6 DEF Relabelled
  <2> QED
    <3>1. Sound(l) /\ l.chunks # <<>> /\ Cut(l, ms, 0) /\ 0 \in Nat
      BY <1>1
    <3> QED
      BY <2>1, <3>1, RelabelledCut
<1>12. ASSUME NEW i \in 1 .. l.avail, OfText(c, c.tab[i - 1]) PROVE OfText(l, l.tab[i - 1])
  <2>1. i \in 1 .. c.avail /\ i = i + 0
    BY <1>2, <1>9
  <2> QED
    BY <1>9, <1>12, <2>1 DEF Keeps
<1>13. Ends(c, Len(c.chunks))
  <2>1. l.avail \in 1 .. l.avail
    BY <1>2
  <2>2. OfText(c, c.tab[c.avail - 1]) => LastChunk(c).endx = Len(ms[c.avail])
    BY <1>1, <1>5, <1>8, <1>9, <1>12, <2>1
  <2> QED
    BY <1>8, <1>10, <1>11, <2>2, LastEnds
<1>14. Sound(r) /\ Tidy(r) /\ Ends(r, Len(r.chunks)) /\ Keeps(c, r, 0) /\ r.avail = c.avail
  BY <1>0, <1>8, <1>9, <1>13, ReleasedLaid
<1>15. Cut(r, ms, 0)
  <2>1. Cut(Released(c), ms, 0)
    BY <1>8, <1>11, ReleasedCut
  <2> QED
    BY <1>0, <2>1
<1>16. Keeps(l, r, 0)
  <2>1. c.avail = l.avail /\ l.avail \in Int /\ 0 \in Int /\ Keeps(l, c, 0) /\ Keeps(c, r, 0)
    BY <1>2, <1>9, <1>14
  <2> QED
    BY <2>1, KeepsBoth
<1>17. Stays(b, r, ls, ks, lost)
  <2>1. /\ l.avail \in Int /\ b.avail \in Int /\ r.avail = l.avail /\ lost \in Int
        /\ Stays(b, l, ls, ks, lost)
    BY <1>1, <1>2, <1>9, <1>14
  <2> QED
    BY <1>16, <2>1, StaysOn
<1>18. Told(r, ks, 0)
  <2>1. ASSUME NEW i \in 1 .. r.avail, OfText(r, r.tab[i - 1]) PROVE ks[i] = ms[i]
    <3>1. i \in 1 .. l.avail /\ i = i + 0
      BY <1>2, <1>9, <1>14
    <3>2. OfText(l, l.tab[i - 1])
      BY <1>16, <2>1, <3>1 DEF Keeps
    <3> QED
      BY <1>1, <3>1, <3>2 DEF Agree
  <2>2. Len(ks) = r.avail /\ Len(ms) = r.avail
    BY <1>1, <1>9, <1>14 DEF Agree
  <2>3. Agree(r, ks, ms)
    BY <2>1, <2>2 DEF Agree
  <2> QED
    BY <1>1, <1>15, <2>3 DEF Told
<1> QED
  BY <1>9, <1>14, <1>17, <1>18

(* The layout comes to an end without a new line. *)
LEMMA EndLaid ==
  ASSUME IInv, BoundInv, LineInv, Finish, ~LastChunk(block).feed
  PROVE  \E ms : Laid(block, block, lines, lines', 0, ms, job.x + job.left)
<1>1. ~Idle /\ job.left <= Width - job.x
  BY DEF Finish
<1>2. block.made /\ Sound(block) /\ block.chunks # <<>> /\ job.at = block.lastdata
  BY <1>1 DEF IInv, JobSound, BlockSound
<1>3. /\ job.left \in Nat /\ job.done \in Nat /\ job.x \in Nat
      /\ job.x + job.left \in 0 .. Width /\ job.left \in 0 .. job.left
      /\ job.left - job.left = 0 /\ job.left <= job.left
      /\ lines \in Seq(Seq(Streams))
  BY <1>1, StoreAssumption DEF IInv, JobType, StoreAssumption
<1>4. /\ Tidy(block) /\ Told(block, lines, job.left)
      /\ Ends(block, Len(block.chunks) - 1) /\ JobLaid(block, job, lines)
  BY <1>1, <1>2 DEF LineInv
<1>5. job.done + job.left = Len(LastChunk(block).text)
  BY <1>1, <1>2 DEF BoundInv, JobClose
<1>6. PICK ms \in Seq(Seq(Streams)) : Cut(block, ms, job.left) /\ Agree(block, lines, ms)
  BY <1>4 DEF Told
<1>7. /\ Len(lines) = block.avail /\ lines # <<>> /\ block.avail \in 1 .. MaxLines
      /\ MaxLines \in Nat /\ Len(block.chunks) \in Nat /\ block.avail \in 1 .. block.avail
  <2>1. Len(lines) = block.avail /\ block.avail \in 1 .. MaxLines /\ MaxLines \in Nat
        /\ Len(block.chunks) \in Nat
    BY <1>2, <1>6, BlockChunks DEF Agree
  <2> QED
    BY <2>1
<1>8. PICK ks, ns : ks = WrittenTo(lines, job.left) /\ ns = WrittenTo(ms, job.left)
  OBVIOUS
<1>9. Wrote(lines, ks, job.left)
  BY <1>1, <1>3, <1>7, <1>8, WrittenBegun
<1>10. ns \in Seq(Seq(Streams)) /\ Cut(block, ns, 0)
  <2>1. ns \in Seq(Seq(Streams)) /\ Cut(block, ns, job.left - job.left)
    BY <1>1, <1>3, <1>5, <1>6, <1>8, WrittenCut
  <2> QED
    BY <1>3, <2>1
<1>11. Agree(block, ks, ns)
  BY <1>2, <1>3, <1>6, <1>8, AgreeWritten
<1>12. Keeps(block, block, 0)
  <2>1. \A i \in 1 .. block.avail, j \in 1 .. block.avail : j = i + 0 => i = j
    BY <1>7
  <2> QED
    BY <2>1 DEF Keeps
<1>13. CASE ~job.feed
  <2>1. lines' = ks
    BY <1>8, <1>13 DEF Finish, Written, WrittenTo
  <2>2. Stays(block, block, lines, ks, 0)
    <3>1. ASSUME NEW i \in 1 .. block.avail, NEW j \in 1 .. block.avail, j = i + 0
          PROVE  Begun(lines[j], ks[i]) /\ (j < block.avail => ks[i] = lines[j])
      <4>1. i = j
        BY <1>7, <3>1
      <4> QED
        BY <1>7, <1>9, <4>1 DEF Wrote
    <3> QED
      BY <1>12, <3>1 DEF Stays
  <2>3. ASSUME OfText(block, block.tab[block.avail - 1])
        PROVE  job.x + job.left = Len(ns[block.avail])
    <3>1. job.x = Len(lines[block.avail])
      BY <1>4, <2>3 DEF JobLaid
    <3>2. Len(ks[block.avail]) = Len(lines[block.avail]) + job.left
      BY <1>7, <1>9 DEF Wrote
    <3>3. ks[block.avail] = ns[block.avail]
      BY <1>7, <1>11, <2>3 DEF Agree
    <3> QED
      BY <3>1, <3>2, <3>3
  <2>4. Laid(block, block, lines, ks, 0, ns, job.x + job.left)
    BY <1>2, <1>3, <1>4, <1>10, <1>11, <2>2, <2>3 DEF Laid
  <2> QED
    BY <2>1, <2>4
<1>14. CASE job.feed
  <2>1. PICK fs : fs = lines'
    OBVIOUS
  <2>2. fs = Fed(ks)
    BY <1>8, <1>14, <2>1 DEF Finish, Written, WrittenTo
  <2>3. LastChunk(block).type \notin Streams
    BY <1>4, <1>14 DEF JobLaid
  <2>4. /\ Len(block.chunks) = 1 /\ block.avail = MaxLines /\ block.chunks[1].type \notin Streams
    <3>1. Len(block.chunks) # 0
      BY <1>2, BlockChunks
    <3>2. Len(block.chunks) \in 1 .. Len(block.chunks)
      BY <1>7, <3>1
    <3> QED
      BY <1>4, <2>3, <3>2 DEF Tidy, Heads, LastChunk
  <2>5. \A i \in 1 .. block.avail : ~OfText(block, block.tab[i - 1])
    BY <1>2, <2>4, NoText
  <2>6. Len(fs) = block.avail
    <3>1. ks \in Seq(Seq(Streams)) /\ Len(ks) = block.avail
      BY <1>7, <1>9 DEF Wrote
    <3>2. FedTo(ks, Fed(ks), block.avail, 1)
      <4>1. PICK a : a = block.avail
        OBVIOUS
      <4>2. a \in 1 .. MaxLines /\ Len(ks) = a /\ 1 = IF a = MaxLines THEN 1 ELSE 0
        BY <1>7, <2>4, <3>1, <4>1
      <4>3. FedTo(ks, Fed(ks), a, 1)
        BY <3>1, <4>2, FedAt
      <4> QED
        BY <4>1, <4>3
    <3>3. Len(Fed(ks)) = block.avail + 1 - 1
      BY <3>2 DEF FedTo
    <3> QED
      BY <1>7, <2>2, <3>3
  <2>7. Agree(block, fs, ns)
    BY <1>11, <2>5, <2>6 DEF Agree
  <2>8. Stays(block, block, lines, fs, 0)
    BY <1>12, <2>5 DEF Stays
  <2>9. Laid(block, block, lines, fs, 0, ns, job.x + job.left)
    BY <1>2, <1>3, <1>4, <1>7, <1>10, <2>5, <2>7, <2>8 DEF Laid
  <2> QED
    BY <2>1, <2>9
<1> QED
  BY <1>13, <1>14

(* The layout comes to an end with a new line. *)
LEMMA FeedLaid ==
  ASSUME IInv, BoundInv, LineInv, Finish, LastChunk(block).feed,
         NEW lost, lost = IF block.avail = MaxLines THEN 1 ELSE 0
  PROVE  LET l == NewLine(block, job.at, job.done + job.left)
         IN  /\ \E ms : Laid(block, l, lines, lines', lost, ms, 0)
             /\ l.avail = block.avail + 1 - lost
<1> DEFINE char == job.done + job.left
<1>1. ~Idle /\ job.left <= Width - job.x
  BY DEF Finish
<1>2. block.made /\ Sound(block) /\ block.chunks # <<>> /\ job.at = block.lastdata
  BY <1>1 DEF IInv, JobSound, BlockSound
<1>3. /\ job.left \in Nat /\ job.done \in Nat /\ job.x \in Nat /\ char \in Nat
      /\ 0 \in 0 .. Width /\ job.left \in 0 .. job.left
      /\ job.left - job.left = 0 /\ job.left <= job.left
      /\ lines \in Seq(Seq(Streams))
  BY <1>1, StoreAssumption DEF IInv, JobType, StoreAssumption
<1>4. /\ Tidy(block) /\ Told(block, lines, job.left)
      /\ Ends(block, Len(block.chunks) - 1) /\ JobLaid(block, job, lines)
  BY <1>1, <1>2 DEF LineInv
<1>5. char = Len(LastChunk(block).text)
  BY <1>1, <1>2 DEF BoundInv, JobClose
<1>6. PICK ms \in Seq(Seq(Streams)) : Cut(block, ms, job.left) /\ Agree(block, lines, ms)
  BY <1>4 DEF Told
<1>7. /\ Len(lines) = block.avail /\ lines # <<>> /\ block.avail \in 1 .. MaxLines
      /\ MaxLines \in Nat /\ Len(block.chunks) \in Nat /\ block.avail \in 1 .. block.avail
  <2>1. Len(lines) = block.avail /\ block.avail \in 1 .. MaxLines /\ MaxLines \in Nat
        /\ Len(block.chunks) \in Nat
    BY <1>2, <1>6, BlockChunks DEF Agree
  <2> QED
    BY <2>1
<1>8. PICK ks, ns : ks = WrittenTo(lines, job.left) /\ ns = WrittenTo(ms, job.left)
  OBVIOUS
<1>9. Wrote(lines, ks, job.left)
  BY <1>1, <1>3, <1>7, <1>8, WrittenBegun
<1>10. ns \in Seq(Seq(Streams)) /\ Cut(block, ns, 0)
  <2>1. ns \in Seq(Seq(Streams)) /\ Cut(block, ns, job.left - job.left)
    BY <1>1, <1>3, <1>5, <1>6, <1>8, WrittenCut
  <2> QED
    BY <1>3, <2>1
<1>11. Agree(block, ks, ns)
  BY <1>2, <1>3, <1>6, <1>8, AgreeWritten
<1>12. PICK l : l = NewLine(block, block.lastdata, char)
  OBVIOUS
<1> HIDE DEF char
<1>13. Sound(l) /\ l.chunks # <<>>
  <2>1. char <= Len(LastChunk(block).text)
    BY <1>3, <1>5
  <2> QED
    BY <1>2, <1>3, <1>12, <2>1, NewLineSound
<1>14. PICK r : r = Ref(block.lastdata, char)
  OBVIOUS
<1>15. r.chunk = block.lastdata /\ r.char = char
  BY <1>14 DEF Ref
<1>16. Renewed(block, l, lost, r)
  BY <1>2, <1>3, <1>12, <1>14, NewLineRenewed
<1>17. block.tab[block.avail - 1].chunk = r.chunk
         => Rises(block.tab[block.avail - 1], r, LastChunk(block).text)
  <2>1. SUFFICES ASSUME block.tab[block.avail - 1].chunk = r.chunk
                 PROVE  Rises(block.tab[block.avail - 1], r, LastChunk(block).text)
    OBVIOUS
  <2>2. PICK y : y = block.tab[block.avail - 1].char
    OBVIOUS
  <2>3. job.x = job.done - y /\ (job.left > 0 \/ y = 0)
    BY <1>2, <1>4, <1>15, <2>1, <2>2 DEF JobLaid
  <2>8. y \in Nat
    <3>1. PICK h : h = block.avail - 1
      OBVIOUS
    <3>2. h \in 0 .. block.avail - 1
      BY <1>7, <3>1
    <3>3. block.tab[h] \in RefType
      BY <1>2, <3>2, BlockChunks
    <3> QED
      BY <2>2, <3>1, <3>3 DEF RefType
  <2>9. y < char \/ (y = 0 /\ char = 0)
    BY <1>3, <2>3, <2>8 DEF char
  <2>4. LastChunk(block).text \in Seq(Streams)
    <3>1. LastChunk(block) \in ChunkType
      BY <1>2 DEF LastChunk, Sound, BlockType
    <3> QED
      BY <3>1 DEF ChunkType
  <2>5. PICK u : u = LastChunk(block).text
    OBVIOUS
  <2>6. u \in Seq(Streams) /\ Len(u) = char
    BY <1>5, <2>4, <2>5
  <2>7. char = 0 => u = <<>>
    BY <2>6
  <2> QED
    BY <1>15, <2>2, <2>5, <2>7, <2>9 DEF Rises
<1>18. Begins(block, l, lost, r, char)
  BY <1>2, <1>4, <1>13, <1>14, <1>16, <1>17 DEF Begins
<1>19. Tidy(l) /\ Keeps(block, l, lost) /\ Ends(l, Len(l.chunks) - 1)
  BY <1>4, <1>18, BeginsTidy, BeginsKeeps, BeginsEnds
<1>20. l.avail = block.avail + 1 - lost /\ lost \in 0 .. 1 /\ l.avail \in 1 .. MaxLines
  BY <1>18, BeginsItem
<1>21. Cut(l, Fed(ns), 0)
  <2>1. char + 0 = Len(LastChunk(block).text)
    BY <1>3, <1>5
  <2> QED
    BY <1>2, <1>3, <1>10, <1>12, <2>1, NewLineCut
<1>22. Fed(ns) \in Seq(Seq(Streams))
  BY <1>1, <1>3, <1>8, WrittenType
<1>23. Len(ks) = block.avail /\ Len(ns) = block.avail /\ ks \in Seq(Seq(Streams))
  BY <1>9, <1>11 DEF Agree, Wrote
<1>24. Agree(l, Fed(ks), Fed(ns))
  BY <1>2, <1>10, <1>11, <1>19, <1>20, <1>23, AgreeFed
<1>25. Stays(block, l, lines, Fed(ks), lost) /\ Fed(ks)[l.avail] = <<>>
  BY <1>2, <1>3, <1>7, <1>9, <1>19, <1>20, FedStays
<1>26. l.avail \in 1 .. l.avail
  BY <1>7, <1>20
<1>27. OfText(l, l.tab[l.avail - 1]) => 0 = Len(Fed(ns)[l.avail])
  <2>1. OfText(l, l.tab[l.avail - 1]) => Fed(ks)[l.avail] = Fed(ns)[l.avail]
    BY <1>24, <1>26 DEF Agree
  <2> QED
    BY <1>25, <2>1
<1>28. CASE job.feed
  <2>1. PICK fs : fs = lines'
    OBVIOUS
  <2>2. fs = Fed(ks)
    BY <1>8, <1>28, <2>1 DEF Finish, Written, WrittenTo
  <2>3. Laid(block, l, lines, fs, lost, Fed(ns), 0)
    BY <1>3, <1>13, <1>19, <1>21, <1>22, <1>24, <1>25, <1>27, <2>2 DEF Laid
  <2> QED
    BY <1>2, <1>12, <1>20, <2>1, <2>3 DEF char
<1>29. CASE ~job.feed
  <2>1. PICK fs : fs = lines'
    OBVIOUS
  <2>2. fs = ks
    BY <1>8, <1>29, <2>1 DEF Finish, Written, WrittenTo
  <2>3. LastChunk(block).type \notin Streams
    BY <1>4, <1>29 DEF JobLaid
  <2>4. Len(block.chunks) = 1 /\ block.avail = MaxLines
    <3>1. Len(block.chunks) # 0
      BY <1>2, BlockChunks
    <3>2. Len(block.chunks) \in 1 .. Len(block.chunks)
      BY <1>7, <3>1
    <3> QED
      BY <1>4, <2>3, <3>2 DEF Tidy, Heads, LastChunk
  <2>5. Len(l.chunks) = 1 /\ l.chunks[1].type \notin Streams /\ l.avail = block.avail
    <3>1. lost = 1
      BY <2>4
    <3>2. l.chunks[1].type = OCT_TERM
      BY <1>16, <3>1 DEF Renewed
    <3>3. Len(l.chunks) = 1
      BY <1>18, <2>4, BeginsTypes
    <3> QED
      BY <1>7, <1>20, <3>1, <3>2, <3>3, StoreAssumption DEF StoreAssumption
  <2>6. \A i \in 1 .. l.avail : ~OfText(l, l.tab[i - 1])
    BY <1>13, <2>5, NoText
  <2>7. Agree(l, fs, Fed(ns))
    BY <1>23, <1>24, <2>2, <2>5, <2>6 DEF Agree
  <2>8. Stays(block, l, lines, fs, lost)
    BY <1>19, <2>6 DEF Stays
  <2>9. Laid(block, l, lines, fs, lost, Fed(ns), 0)
    BY <1>3, <1>13, <1>19, <1>21, <1>22, <1>27, <2>7, <2>8 DEF Laid
  <2> QED
    BY <1>2, <1>12, <1>20, <2>1, <2>9 DEF char
<1> QED
  BY <1>28, <1>29

(* To come to the end of the text keeps LineInv and the lines.             *)
LEMMA FinishLineInv ==
  ASSUME IInv, BoundInv, LineInv, Finish,
         NEW lost, lost = IF LastChunk(block).feed /\ block.avail = MaxLines THEN 1 ELSE 0
  PROVE  /\ LineInv' /\ Stays(block, block', lines, lines', lost) /\ Idle'
         /\ block'.avail = IF LastChunk(block).feed THEN block.avail + 1 - lost ELSE block.avail
<1> DEFINE feeds == LastChunk(block).feed
           char == job.done + job.left
           laid == IF feeds THEN NewLine(block, job.at, char) ELSE block
           endx == IF feeds THEN 0 ELSE job.x + job.left
<1>1. ~Idle
  BY DEF Finish
<1>2. block.made /\ Sound(block) /\ block.chunks # <<>> /\ job.at = block.lastdata
  BY <1>1 DEF IInv, JobSound, BlockSound
<1>3. feeds \in BOOLEAN /\ block.avail \in 1 .. MaxLines /\ MaxLines \in Nat /\ lost \in 0 .. 1
  <2>1. LastChunk(block) \in ChunkType
    BY <1>2 DEF LastChunk, Sound, BlockType
  <2> QED
    BY <1>2, <2>1, BlockChunks DEF ChunkType
<1>4. PICK l, e, ks : l = laid /\ e = endx /\ ks = lines'
  OBVIOUS
<1>5. /\ \E ms : Laid(block, l, lines, ks, lost, ms, e)
      /\ l.avail = IF feeds THEN block.avail + 1 - lost ELSE block.avail
  <2>1. CASE feeds
    <3>1. lost = IF block.avail = MaxLines THEN 1 ELSE 0
      BY <2>1
    <3>2. l = NewLine(block, job.at, job.done + job.left) /\ e = 0
      BY <1>4, <2>1
    <3>3. (\E ms : Laid(block, l, lines, lines', lost, ms, 0)) /\ l.avail = block.avail + 1 - lost
      BY <2>1, <3>1, <3>2, FeedLaid
    <3> QED
      BY <1>4, <2>1, <3>2, <3>3
  <2>2. CASE ~feeds
    <3>1. lost = 0 /\ l = block /\ e = job.x + job.left
      BY <1>4, <2>2
    <3>2. \E ms : Laid(block, block, lines, lines', 0, ms, job.x + job.left)
      BY <2>2, EndLaid
    <3> QED
      BY <1>4, <2>2, <3>1, <3>2
  <2> QED
    BY <1>3, <2>1, <2>2
<1>6. PICK ms : Laid(block, l, lines, ks, lost, ms, e)
  BY <1>5
<1>7. Sound(l)
  BY <1>6 DEF Laid
<1>9. block' = Released(Relaid(l, e))
  <2>1. block' = Released([laid EXCEPT !.chunks[Len(laid.chunks)].endx = endx])
    BY DEF Finish
  <2>2. [l EXCEPT !.chunks[Len(l.chunks)].endx = e] = Relaid(l, e)
    BY <1>7 DEF LastChunk, Sound, BlockType, Relaid
  <2> HIDE DEF laid, endx
  <2> QED
    BY <1>4, <2>1, <2>2
<1>10. PICK r : r = block'
  OBVIOUS
<1>11. l.avail + lost >= block.avail /\ l.avail + lost <= block.avail + 1
  <2>1. CASE feeds
    <3>1. l.avail = block.avail + 1 - lost
      BY <1>5, <2>1
    <3> QED
      BY <1>3, <3>1
  <2>2. CASE ~feeds
    <3>1. l.avail = block.avail /\ lost = 0
      BY <1>5, <2>2
    <3> QED
      BY <1>3, <3>1
  <2> QED
    BY <1>3, <2>1, <2>2
<1> HIDE DEF laid, endx, char
<1>12. /\ Tidy(r) /\ Told(r, ks, 0) /\ Ends(r, Len(r.chunks))
       /\ Stays(block, r, lines, ks, lost) /\ r.avail = l.avail
  <2>1. /\ Sound(block) /\ lost \in 0 .. 1 /\ Laid(block, l, lines, ks, lost, ms, e)
        /\ l.avail + lost >= block.avail /\ l.avail + lost <= block.avail + 1
        /\ r = Released(Relaid(l, e))
    BY <1>2, <1>3, <1>6, <1>9, <1>10, <1>11
  <2> QED
    BY <2>1, LaidReleased
<1>13. job' = NoJob
  BY DEF Finish
<1>14. Idle' /\ job'.left = 0
  BY <1>13 DEF Idle, NoJob
<1>15. LineInv'
  <2>1. Tidy(block') /\ Told(block', lines', job'.left) /\ Ends(block', Len(block'.chunks))
    BY <1>4, <1>10, <1>12, <1>14
  <2> QED
    BY <1>14, <2>1 DEF LineInv, Idle
<1> QED
  BY <1>4, <1>5, <1>10, <1>12, <1>14, <1>15

(* c holds the same lines as b, perhaps in another view. *)
SameStore(b, c) == c.chunks = b.chunks /\ c.tab = b.tab /\ c.avail = b.avail

(* What is laid out does not depend on the view. *)
LEMMA SameLaid ==
  ASSUME NEW b, NEW c, SameStore(b, c)
  PROVE  /\ Tidy(b) => Tidy(c)
         /\ \A m : Ends(b, m) => Ends(c, m)
         /\ \A i : (OfText(c, c.tab[i]) <=> OfText(b, b.tab[i])) /\ (Lost(c, i) <=> Lost(b, i))
<1>1. c.chunks = b.chunks /\ c.tab = b.tab /\ c.avail = b.avail
  BY DEF SameStore
<1>2. \A ref : (OfText(c, ref) <=> OfText(b, ref)) /\ (Bare(c, ref) <=> Bare(b, ref))
  BY <1>1 DEF OfText, Bare
<1>3. \A i : Start(c, i) = Start(b, i)
  BY <1>1 DEF Start, Offset, TextBefore
<1>4. Tidy(b) => Tidy(c)
  BY <1>1 DEF Tidy, Heads, Stale, Distinct, Flagged, Empties
<1>5. \A m : Ends(b, m) => Ends(c, m)
  BY <1>1, <1>2, <1>3 DEF Ends
<1>6. \A i : (OfText(c, c.tab[i]) <=> OfText(b, b.tab[i])) /\ (Lost(c, i) <=> Lost(b, i))
  BY <1>1, <1>2 DEF Lost
<1> QED
  BY <1>4, <1>5, <1>6

(* Scrolling changes nothing but the view.                                 *)
LEMMA ScrollSame ==
  ASSUME IInv, NEW k \in Int, Scroll(k)
  PROVE  /\ block.made /\ Idle /\ Sound(block) /\ Sound(block') /\ SameStore(block, block')
         /\ job' = job /\ lines' = lines /\ block'.made
<1>1. block.made /\ Idle /\ Sound(block) /\ job' = job /\ lines' = lines
  BY DEF Scroll, IInv, BlockSound
<1>2. IInv'
  BY ScrollInv
<1>3. block'.made = block.made /\ SameStore(block, block')
  <2>1. CASE block' = ScrolledBack(block, k)
    BY <1>1, <2>1 DEF ScrolledBack, Sound, BlockType, SameStore
  <2>2. CASE block' = ScrolledOn(block, k)
    BY <1>1, <2>2 DEF ScrolledOn, Sound, BlockType, SameStore
  <2> QED
    BY <2>1, <2>2 DEF Scroll
<1>4. Sound(block')
  BY <1>1, <1>2, <1>3 DEF IInv, BlockSound
<1> QED
  BY <1>1, <1>3, <1>4

(* Scrolling keeps LineInv.                                                *)
LEMMA ScrollLineInv ==
  ASSUME IInv, LineInv, NEW k \in Int, Scroll(k)
  PROVE  LineInv'
<1>1. /\ block.made /\ Idle /\ Sound(block) /\ Sound(block') /\ SameStore(block, block')
      /\ job' = job /\ lines' = lines /\ block'.made
  BY ScrollSame
<1>2. /\ block'.chunks = block.chunks /\ block'.tab = block.tab /\ block'.avail = block.avail
  BY <1>1 DEF SameStore
<1>3. Tidy(block) /\ Told(block, lines, job.left) /\ Ends(block, Len(block.chunks))
  BY <1>1 DEF LineInv
<1>4. PICK b, c : b = block /\ c = block'
  OBVIOUS
<1>5. Tidy(c) /\ Ends(c, Len(c.chunks))
  <2>1. SameStore(b, c) /\ Tidy(b) /\ Ends(b, Len(b.chunks)) /\ c.chunks = b.chunks
    BY <1>1, <1>2, <1>3, <1>4
  <2> QED
    BY <2>1, SameLaid
<1>6. Told(c, lines, job.left)
  <2>1. PICK ms \in Seq(Seq(Streams)) : Cut(b, ms, job.left) /\ Agree(b, lines, ms)
    BY <1>3, <1>4 DEF Told
  <2>2. Sound(b) /\ Sound(c) /\ Retold(b, c) /\ c.tab = b.tab /\ c.avail = b.avail
    BY <1>1, <1>2, <1>4 DEF Retold
  <2>3. job.left \in Nat
    BY DEF IInv, JobType
  <2>4. Cut(c, ms, job.left)
    BY <2>1, <2>2, <2>3, RetoldCut
  <2>5. SameStore(b, c)
    BY <1>1, <1>4
  <2>6. \A i : OfText(c, c.tab[i]) <=> OfText(b, b.tab[i])
    BY <2>5, SameLaid
  <2>7. Agree(c, lines, ms)
    BY <2>1, <2>2, <2>6 DEF Agree
  <2> QED
    BY <2>1, <2>4, <2>7 DEF Told
<1>7. Idle' /\ job'.left = job.left
  BY <1>1 DEF Idle
<1> QED
  BY <1>1, <1>4, <1>5, <1>6, <1>7 DEF LineInv

(* A new store. *)
LEMMA FreshLine ==
  /\ Tidy(EmptyBlock) /\ Told(EmptyBlock, << <<>> >>, 0)
  /\ Ends(EmptyBlock, Len(EmptyBlock.chunks))
<1>1. PICK b : b = EmptyBlock
  OBVIOUS
<1>2. /\ b.chunks = <<>> /\ Len(b.chunks) = 0 /\ b.avail = 1
      /\ b.tab = [i \in 0 .. MaxLines |-> IF i = 0 THEN Ref(HeadLength, 0) ELSE NoRef]
  BY <1>1 DEF EmptyBlock
<1>3. MaxLines \in Nat /\ \A j \in 1 .. MaxLines : b.tab[j] = NoRef
  BY <1>2, StoreAssumption DEF StoreAssumption
<1>4. Tidy(b)
  BY <1>2, <1>3 DEF Tidy, Heads, Stale, Distinct, Flagged, Empties
<1>5. Ends(b, Len(b.chunks))
  BY <1>2 DEF Ends
<1>6. PICK ls : ls = << <<>> >>
  OBVIOUS
<1>7. ls \in Seq(Seq(Streams)) /\ Len(ls) = 1
  BY <1>6
<1>8. Cut(b, ls, 0)
  BY <1>1, <1>6, EmptyCut, Zenon
<1>9. Agree(b, ls, ls)
  BY <1>2, <1>7 DEF Agree
<1>10. Told(b, ls, 0)
  BY <1>7, <1>8, <1>9 DEF Told
<1> QED
  BY <1>1, <1>4, <1>5, <1>6, <1>10, Zenon

(* LineInv holds of an empty block, and without one.                       *)
LEMMA FreshLineInv ==
  ASSUME (block = EmptyBlock /\ lines = << <<>> >>) \/ (block = NoBlock /\ lines = <<>>),
         job = NoJob
  PROVE  LineInv
<1>1. Idle /\ job.left = 0
  BY DEF Idle, NoJob
<1>2. CASE block = NoBlock
  BY <1>2, NoBlockType DEF LineInv
<1>3. CASE block = EmptyBlock /\ lines = << <<>> >>
  BY <1>1, <1>3, FreshLine DEF LineInv
<1> QED
  BY <1>2, <1>3

(* LineInv holds when the program starts.                                  *)
LEMMA InitLineInv == Init => LineInv
BY FreshLineInv DEF Init

(* LineInv is kept by every step.                                          *)
LEMMA NextLineInv == IInv /\ BoundInv /\ LineInv /\ [Next]_vars => LineInv'
<1> SUFFICES ASSUME IInv, BoundInv, LineInv, [Next]_vars PROVE LineInv'
  OBVIOUS
<1>1. ASSUME NEW stream \in Streams, NEW n \in Pieces, NEW feed \in BOOLEAN,
             Store(stream, n, feed)
      PROVE  LineInv'
  BY <1>1, StoreLine
<1>2. CASE Wrap
  <2>1. PICK lost : lost = IF block.avail = MaxLines THEN 1 ELSE 0
    OBVIOUS
  <2> QED
    BY <1>2, <2>1, WrapLineInv
<1>3. CASE Finish
  <2>1. PICK lost : lost = IF LastChunk(block).feed /\ block.avail = MaxLines THEN 1 ELSE 0
    OBVIOUS
  <2> QED
    BY <1>3, <2>1, FinishLineInv
<1>4. ASSUME NEW k \in 1 .. MaxLines, Scroll(k) PROVE LineInv'
  BY <1>4, ScrollLineInv
<1>5. CASE ScrollPage
  <2>1. Visible - 1 \in Int
    BY StoreAssumption DEF StoreAssumption
  <2> QED
    BY <1>5, <2>1, ScrollLineInv DEF ScrollPage
<1>6. CASE Clear
  <2>1. /\ (block' = EmptyBlock /\ lines' = << <<>> >>) \/ (block' = NoBlock /\ lines' = <<>>)
        /\ job' = NoJob
    BY <1>6 DEF Clear, Idle
  <2>2. Idle' /\ job'.left = 0
    BY <2>1 DEF Idle, NoJob
  <2>3. CASE block' = NoBlock
    BY <2>3, NoBlockType DEF LineInv
  <2>4. CASE block' = EmptyBlock /\ lines' = << <<>> >>
    BY <2>2, <2>4, FreshLine DEF LineInv
  <2> QED
    BY <2>1, <2>3, <2>4
<1>7. CASE UNCHANGED vars
  BY <1>7 DEF vars, LineInv, Idle, JobLaid
<1> QED
  BY <1>1, <1>2, <1>3, <1>4, <1>5, <1>6, <1>7 DEF Next

-----------------------------------------------------------------------------
(* The characters of one line *)

(* A row that shows, from its first column on, what stands between a and t *)
(* in the text w, and goes on as before.                                   *)
Shown(row, w, a, t) ==
  [c \in Columns |-> IF a + c <= t THEN w[a + c] ELSE row[c]]
IsRow(row) == row = [c \in Columns |-> row[c]]

(* The pen when that is drawn; "before" stands in front of the next chunk. *)
PenOf(row, w, a, t, before) ==
  [row |-> Shown(row, w, a, t), x |-> t - a, char |-> t - before, done |-> FALSE]

(* One turn of the loop in DrawLine. *)
Turn(pen, c, from, to) == IF c.at < from.chunk THEN pen ELSE DrawChunk(pen, c, to)
Turns(cs, from, to, first, n, f) ==
  f = [k \in 0 .. n |-> IF k = 0 THEN first ELSE Turn(f[k - 1], cs[k], from, to)]

(* The definition of DrawLine has a value: it is drawn chunk by chunk. *)
LEMMA TurnsExist ==
  ASSUME NEW cs, NEW from, NEW to, NEW first, NEW n \in Nat
  PROVE  \E f : Turns(cs, from, to, first, n, f)
<1> DEFINE G == {k \in 0 .. n : \E f : Turns(cs, from, to, first, k, f)}
<1>1. 0 \in G
  <2>1. PICK f : f = [k \in 0 .. 0 |-> first]
    OBVIOUS
  <2>2. Turns(cs, from, to, first, 0, f)
    BY <2>1 DEF Turns
  <2> QED
    BY <2>2
<1>2. ASSUME NEW k \in 1 .. n, k - 1 \in G PROVE k \in G
  <2>1. PICK h : h = k - 1
    OBVIOUS
  <2>2. h \in Nat /\ k = h + 1
    BY <2>1
  <2>3. PICK f : Turns(cs, from, to, first, h, f)
    BY <1>2, <2>1
  <2>4. \A j \in 0 .. h : f[j] = IF j = 0 THEN first ELSE Turn(f[j - 1], cs[j], from, to)
    <3>1. PICK g : g = f
      OBVIOUS
    <3>2. g = [j \in 0 .. h |-> IF j = 0 THEN first ELSE Turn(f[j - 1], cs[j], from, to)]
      BY <2>3, <3>1 DEF Turns
    <3> QED
      BY <3>1, <3>2
  <2>5. PICK final : final = Turn(f[h], cs[k], from, to)
    OBVIOUS
  <2>6. PICK g : g = [j \in 0 .. k |-> IF j = k THEN final ELSE f[j]]
    OBVIOUS
  <2>7. ASSUME NEW j \in 0 .. k
        PROVE  g[j] = IF j = 0 THEN first ELSE Turn(g[j - 1], cs[j], from, to)
    <3>1. CASE j = 0
      BY <2>2, <2>4, <2>6, <3>1
    <3>2. CASE j = k
      <4>1. g[k] = final /\ g[k - 1] = f[h]
        BY <2>1, <2>2, <2>6
      <4> QED
        BY <2>2, <2>5, <3>2, <4>1
    <3>3. CASE j # 0 /\ j # k
      <4>1. j \in 0 .. h /\ j - 1 \in 0 .. k /\ j - 1 # k
        BY <2>2, <2>7, <3>3
      <4>2. g[j] = f[j] /\ g[j - 1] = f[j - 1]
        BY <2>6, <3>3, <4>1
      <4> QED
        BY <2>4, <3>3, <4>1, <4>2
    <3> QED
      BY <3>1, <3>2, <3>3
  <2>8. Turns(cs, from, to, first, k, g)
    <3>1. g = [j \in 0 .. k |-> g[j]]
      BY <2>6
    <3> QED
      BY <2>7, <3>1 DEF Turns
  <2> QED
    BY <2>8
<1>3. n \in G
  <2> HIDE DEF G
  <2> QED
    BY <1>1, <1>2, Upto
<1> QED
  BY <1>3

(* What the pen is at each chunk. *)
Draws(b, i, row, f) ==
  /\ f[0] = [row |-> row, x |-> 0, char |-> b.tab[i - 1].char, done |-> FALSE]
  /\ \A k \in 1 .. Len(b.chunks) :
       f[k] = Turn(f[k - 1], b.chunks[k], b.tab[i - 1], b.tab[i])
  /\ DrawLine(b, i, row) = f[Len(b.chunks)].row

(* DrawLine draws chunk by chunk.                                          *)
LEMMA DrawLineIs ==
  ASSUME NEW b, Len(b.chunks) \in Nat, NEW i, NEW row, b.tab[i - 1].chunk # 0
  PROVE  \E f : Draws(b, i, row, f)
<1>1. PICK n, from, to, cs : n = Len(b.chunks) /\ from = b.tab[i - 1] /\ to = b.tab[i]
                             /\ cs = b.chunks
  OBVIOUS
<1>2. PICK first : first = [row |-> row, x |-> 0, char |-> from.char, done |-> FALSE]
  OBVIOUS
<1>3. PICK f : f = CHOOSE g : Turns(cs, from, to, first, n, g)
  OBVIOUS
<1>4. Turns(cs, from, to, first, n, f)
  <2>1. \E g : Turns(cs, from, to, first, n, g)
    BY <1>1, TurnsExist
  <2> QED
    BY <1>3, <2>1, Zenon
<1>5. \A k \in 0 .. n : f[k] = IF k = 0 THEN first ELSE Turn(f[k - 1], cs[k], from, to)
  <2>1. PICK g : g = f
    OBVIOUS
  <2>2. g = [k \in 0 .. n |-> IF k = 0 THEN first ELSE Turn(f[k - 1], cs[k], from, to)]
    BY <1>4, <2>1 DEF Turns
  <2> QED
    BY <2>1, <2>2
<1>6. DrawLine(b, i, row) = f[n].row
  BY <1>1, <1>2, <1>3, Zenon DEF DrawLine, Turns, Turn
<1>7. f[0] = first /\ \A k \in 1 .. n : f[k] = Turn(f[k - 1], cs[k], from, to)
  BY <1>1, <1>5
<1> QED
  BY <1>1, <1>2, <1>6, <1>7 DEF Draws

(* The text of a chunk stands behind those of the chunks before it. *)
Placed(w, s, t, text) ==
  /\ Len(s) \in Nat /\ Len(text) \in Nat /\ text \in Seq(Streams)
  /\ Len(t) = Len(s) + Len(text) /\ Len(t) <= Len(w)
  /\ \A y \in 1 .. Len(text) : w[Len(s) + y] = text[y]

(* The text of a chunk stands where the texts before it end.               *)
LEMMA TextPlace ==
  ASSUME NEW b, Sound(b), NEW k \in 1 .. Len(b.chunks), NEW S, S = Texts(b.chunks)
  PROVE  Placed(Whole(b), S[k - 1], S[k], b.chunks[k].text)
<1>1. PICK cs, n, text : cs = b.chunks /\ n = Len(cs) /\ text = cs[k].text
  OBVIOUS
<1>2. cs \in Seq(ChunkType) /\ n \in Nat /\ k \in 1 .. n /\ k \in 0 .. n /\ n \in 0 .. n
  BY <1>1, BlockChunks
<1>3. /\ \A m \in 0 .. n : S[m] \in Seq(Streams)
      /\ \A j, m \in 0 .. n : j <= m => Len(S[j]) <= Len(S[m])
  BY <1>1, <1>2, TextsRise
<1>4. \A m \in 1 .. n :
        /\ S[m - 1] \in Seq(Streams) /\ cs[m].text \in Seq(Streams)
        /\ Len(S[m]) = Len(S[m - 1]) + Len(cs[m].text)
        /\ Extends(S[m], S[m - 1], cs[m].text)
  BY <1>1, <1>2, TextsGrow
<1> DEFINE G == {m \in 0 .. n : m >= k => \A i \in 1 .. Len(S[k]) : S[m][i] = S[k][i]}
<1>5. 0 \in G
  BY <1>2
<1>6. ASSUME NEW m \in 1 .. n, m - 1 \in G PROVE m \in G
  <2>1. CASE m <= k
    BY <1>2, <2>1
  <2>2. CASE m > k
    <3>1. PICK h : h = m - 1
      OBVIOUS
    <3>2. h \in 0 .. n /\ h >= k
      BY <1>2, <2>2, <3>1
    <3>3. \A i \in 1 .. Len(S[k]) : S[h][i] = S[k][i]
      BY <1>6, <3>1, <3>2
    <3>4. Len(S[k]) <= Len(S[h]) /\ Len(S[h]) \in Nat /\ Len(S[k]) \in Nat
      BY <1>2, <1>3, <3>2
    <3>5. \A i \in 1 .. Len(S[h]) : S[m][i] = S[h][i]
      BY <1>4, <3>1 DEF Extends
    <3>6. \A i \in 1 .. Len(S[k]) : S[m][i] = S[k][i]
      BY <3>3, <3>4, <3>5
    <3> QED
      BY <3>6
  <2> QED
    BY <1>2, <2>1, <2>2
<1>7. n \in G
  <2> HIDE DEF G
  <2>1. \A m \in 0 .. n : m \in G
    BY <1>2, <1>5, <1>6, Upto
  <2> QED
    BY <1>2, <2>1
<1>8. Whole(b) = S[n]
  BY <1>1 DEF Whole
<1>9. /\ Len(S[k - 1]) \in Nat /\ Len(text) \in Nat /\ text \in Seq(Streams)
      /\ Len(S[k]) = Len(S[k - 1]) + Len(text) /\ Len(S[k]) <= Len(S[n])
  <2>1. /\ S[k - 1] \in Seq(Streams) /\ text \in Seq(Streams)
        /\ Len(S[k]) = Len(S[k - 1]) + Len(text)
    BY <1>1, <1>2, <1>4
  <2>2. Len(S[k]) <= Len(S[n])
    BY <1>2, <1>3
  <2> QED
    BY <2>1, <2>2
<1>10. ASSUME NEW y \in 1 .. Len(text) PROVE S[n][Len(S[k - 1]) + y] = text[y]
  <2>1. PICK i : i = Len(S[k - 1]) + y
    OBVIOUS
  <2>2. i \in 1 .. Len(S[k])
    BY <1>9, <2>1
  <2>3. S[n][i] = S[k][i]
    BY <1>2, <1>7, <2>2
  <2>4. S[k][i] = text[y]
    BY <1>1, <1>2, <1>4, <2>1 DEF Extends, Follows
  <2> QED
    BY <2>1, <2>3, <2>4
<1> QED
  BY <1>1, <1>8, <1>9, <1>10 DEF Placed

(* The pen stands at t of w, u characters into "text", which follows what  *)
(* is before it, x columns from the start of the line at a; the characters *)
(* up to q are the text's first m.                                         *)
Reaches(w, a, t, before, text, m, u, x, q) ==
  /\ a \in Nat /\ t \in Nat /\ a <= t /\ before \in Nat /\ before <= t
  /\ text \in Seq(Streams) /\ m \in Nat /\ m <= Len(text) /\ t <= before + m
  /\ \A y \in 1 .. Len(text) : w[before + y] = text[y]
  /\ u = t - before /\ x = t - a /\ q = before + m

(* Drawing what follows in the text where the row ends shows more of it. *)
LEMMA PutShown ==
  ASSUME NEW row, NEW w, NEW a, NEW t, NEW before, NEW text, NEW m, NEW u, NEW x, NEW q,
         Reaches(w, a, t, before, text, m, u, x, q)
  PROVE  Put(Shown(row, w, a, t), SubSeq(text, u + 1, m), x) = Shown(row, w, a, q)
<1>0. /\ a \in Nat /\ t \in Nat /\ a <= t /\ before \in Nat /\ before <= t
      /\ text \in Seq(Streams) /\ m \in Nat /\ m <= Len(text) /\ t <= before + m
      /\ \A y \in 1 .. Len(text) : w[before + y] = text[y]
      /\ u = t - before /\ x = t - a /\ q = before + m
  BY DEF Reaches
<1>1. PICK s : s = SubSeq(text, u + 1, m)
  OBVIOUS
<1>2. u \in Nat /\ x \in Nat /\ u <= m /\ Len(text) \in Nat
  BY <1>0
<1>3. s = SubSeq(text, u + 1, m)
  BY <1>1
<1>4. Len(s) = m - u /\ DOMAIN s = 1 .. m - u
  BY <1>0, <1>2, <1>3
<1>5. \A j \in 1 .. m - u : s[j] = text[u + j]
  <2>1. ASSUME NEW j \in 1 .. m - u PROVE s[j] = text[u + j]
    <3>1. s[j] = text[(u + 1) + j - 1]
      BY <1>0, <1>2, <1>3, <2>1
    <3>2. (u + 1) + j - 1 = u + j
      BY <1>2
    <3> QED
      BY <3>1, <3>2
  <2> QED
    BY <2>1
<1>6. ASSUME NEW c \in Columns
      PROVE  (IF c - x \in DOMAIN s THEN s[c - x] ELSE Shown(row, w, a, t)[c])
             = (IF a + c <= q THEN w[a + c] ELSE row[c])
  <2>1. c \in Nat
    BY StoreAssumption DEF Columns, StoreAssumption
  <2>2. Shown(row, w, a, t)[c] = IF a + c <= t THEN w[a + c] ELSE row[c]
    BY DEF Shown
  <2>3. CASE c - x \in 1 .. m - u
    <3>1. PICK j, y : j = c - x /\ y = u + j
      OBVIOUS
    <3>2. j \in 1 .. m - u /\ y \in 1 .. Len(text)
      BY <1>0, <1>2, <2>1, <2>3, <3>1
    <3>3. s[c - x] = text[y]
      BY <1>5, <3>1, <3>2
    <3>4. before + y = a + c /\ a + c <= q
      BY <1>0, <1>2, <2>1, <2>3, <3>1
    <3>5. w[before + y] = text[y]
      BY <1>0, <3>2
    <3> QED
      BY <1>4, <2>3, <3>3, <3>4, <3>5
  <2>4. CASE c - x \notin 1 .. m - u
    <3>1. a + c <= t \/ a + c > q
      BY <1>0, <1>2, <2>1, <2>4
    <3>2. (IF c - x \in DOMAIN s THEN s[c - x] ELSE Shown(row, w, a, t)[c])
            = IF a + c <= t THEN w[a + c] ELSE row[c]
      BY <1>4, <2>2, <2>4
    <3>3. a + c <= t <=> a + c <= q
      BY <1>0, <2>1, <3>1
    <3> QED
      BY <3>2, <3>3
  <2> QED
    BY <2>3, <2>4
<1> QED
  BY <1>0, <1>1, <1>6 DEF Put, Shown

(* What a turn draws of a chunk: from the pen on to the chunk's end, when  *)
(* the line does not end in it or nothing is left of it.                   *)
LEMMA DrawOn ==
  ASSUME NEW row, NEW w, NEW a \in Nat, NEW t \in Nat, a <= t,
         NEW before \in Nat, before <= t,
         NEW c, c.type \in Streams, c.text \in Seq(Streams), t <= before + Len(c.text),
         \A y \in 1 .. Len(c.text) : w[before + y] = c.text[y],
         NEW after, after = before + Len(c.text), c.endx = after - a,
         NEW to, c.at # to.chunk \/ t = after
  PROVE  DrawChunk(PenOf(row, w, a, t, before), c, to) = PenOf(row, w, a, after, after)
<1>1. PICK pen, text : pen = PenOf(row, w, a, t, before) /\ text = c.text
  OBVIOUS
<1>2. /\ pen.row = Shown(row, w, a, t) /\ pen.x = t - a /\ pen.char = t - before
      /\ pen.done = FALSE
  BY <1>1 DEF PenOf
<1>3. PICK u, n : u = t - before /\ n = Len(text)
  OBVIOUS
<1>4. u \in Nat /\ n \in Nat /\ u <= n /\ text \in Seq(Streams) /\ after \in Nat
  BY <1>1, <1>3
<1>5. PICK rest : rest = SubSeq(text, pen.char + 1, Len(text))
  OBVIOUS
<1>6. rest = SubSeq(text, u + 1, n) /\ Len(rest) = n - u
  BY <1>2, <1>3, <1>4, <1>5
<1>7. c.type # OCT_TERM
  BY StoreAssumption DEF StoreAssumption
<1>8. CASE u = n
  <2>1. rest = <<>>
    BY <1>4, <1>6, <1>8
  <2>2. DrawChunk(pen, c, to) = [pen EXCEPT !.char = 0]
    BY <1>1, <1>2, <1>5, <1>7, <2>1 DEF DrawChunk
  <2>3. t = after /\ after - after = 0
    BY <1>1, <1>3, <1>4, <1>8
  <2>4. PICK s, x : s = Shown(row, w, a, t) /\ x = t - a
    OBVIOUS
  <2>5. DrawChunk(pen, c, to) = [row |-> s, x |-> x, char |-> 0, done |-> FALSE]
    <3>1. pen = [row |-> s, x |-> x, char |-> u, done |-> FALSE]
      BY <1>1, <1>3, <2>4 DEF PenOf
    <3> QED
      BY <2>2, <3>1
  <2> QED
    BY <1>1, <2>2, <2>3, <2>4, <2>5 DEF PenOf
<1>9. CASE u # n
  <2>1. rest # <<>>
    <3>1. n - u # 0
      BY <1>4, <1>9
    <3>2. Len(rest) # 0
      BY <1>6, <3>1
    <3> QED
      BY <3>2
  <2>2. c.at # to.chunk
    BY <1>1, <1>3, <1>4, <1>9
  <2>3. DrawChunk(pen, c, to)
          = [pen EXCEPT !.row = Put(pen.row, rest, pen.x), !.x = c.endx, !.char = 0]
    BY <1>1, <1>2, <1>5, <1>7, <2>1, <2>2 DEF DrawChunk
  <2>4. Put(pen.row, rest, pen.x) = Shown(row, w, a, after)
    <3>1. PICK x : x = t - a
      OBVIOUS
    <3>2. Put(Shown(row, w, a, t), SubSeq(text, u + 1, n), x) = Shown(row, w, a, after)
      <4>1. /\ text \in Seq(Streams) /\ n \in Nat /\ n <= Len(text) /\ t <= before + n
            /\ \A y \in 1 .. Len(text) : w[before + y] = text[y]
            /\ u = t - before /\ x = t - a /\ after = before + n
        BY <1>1, <1>3, <1>4, <3>1
      <4>2. Reaches(w, a, t, before, text, n, u, x, after)
        BY <4>1 DEF Reaches
      <4> QED
        BY <4>2, PutShown
    <3> QED
      BY <1>2, <1>3, <1>6, <3>1, <3>2
  <2>5. pen = [row |-> Shown(row, w, a, t), x |-> t - a, char |-> t - before, done |-> FALSE]
    BY <1>1 DEF PenOf
  <2>6. after - after = 0
    BY <1>4
  <2>7. DrawChunk(pen, c, to)
          = [row |-> Shown(row, w, a, after), x |-> after - a, char |-> after - after, done |-> FALSE]
    <3>1. PICK s, x, e, q : s = Shown(row, w, a, t) /\ x = t - a /\ e = after - a
                            /\ q = Shown(row, w, a, after)
      OBVIOUS
    <3>2. pen = [row |-> s, x |-> x, char |-> u, done |-> FALSE]
      BY <1>3, <2>5, <3>1
    <3>3. DrawChunk(pen, c, to) = [pen EXCEPT !.row = q, !.x = e, !.char = 0]
      BY <2>3, <2>4, <3>1
    <3>4. DrawChunk(pen, c, to) = [row |-> q, x |-> e, char |-> 0, done |-> FALSE]
      BY <3>2, <3>3
    <3> QED
      BY <2>6, <3>1, <3>4
  <2> QED
    BY <1>1, <2>7 DEF PenOf
<1> QED
  BY <1>8, <1>9

(* And up to where the line ends. *)
LEMMA DrawEnd ==
  ASSUME NEW row, NEW w, NEW a \in Nat, NEW t \in Nat, a <= t,
         NEW before \in Nat, before <= t,
         NEW c, c.type \in Streams, c.text \in Seq(Streams), t < before + Len(c.text),
         \A y \in 1 .. Len(c.text) : w[before + y] = c.text[y],
         NEW to, c.at = to.chunk, to.char \in Nat, to.char <= Len(c.text),
         t <= before + to.char,
         NEW pen, pen = DrawChunk(PenOf(row, w, a, t, before), c, to)
  PROVE  pen.row = Shown(row, w, a, before + to.char) /\ pen.done
<1>1. PICK old, text, m : old = PenOf(row, w, a, t, before) /\ text = c.text /\ m = to.char
  OBVIOUS
<1>2. /\ old.row = Shown(row, w, a, t) /\ old.x = t - a /\ old.char = t - before
      /\ old.done = FALSE
  BY <1>1 DEF PenOf
<1>3. PICK u, n : u = t - before /\ n = Len(text)
  OBVIOUS
<1>4. u \in Nat /\ n \in Nat /\ u < n /\ text \in Seq(Streams) /\ m \in Nat /\ m <= Len(text)
  BY <1>1, <1>3
<1>5. PICK rest : rest = SubSeq(text, old.char + 1, Len(text))
  OBVIOUS
<1>6. rest = SubSeq(text, u + 1, n) /\ Len(rest) = n - u
  BY <1>2, <1>3, <1>4, <1>5
<1>7. c.type # OCT_TERM /\ rest # <<>>
  <2>1. c.type # OCT_TERM
    BY StoreAssumption DEF StoreAssumption
  <2>2. Len(rest) # 0
    BY <1>4, <1>6
  <2> QED
    BY <1>6, <2>1, <2>2
<1>8. pen = [old EXCEPT !.row = Put(old.row, SubSeq(text, old.char + 1, m), old.x), !.done = TRUE]
  BY <1>1, <1>2, <1>5, <1>7 DEF DrawChunk
<1>9. PICK x, q : x = t - a /\ q = before + m
  OBVIOUS
<1>12. Put(Shown(row, w, a, t), SubSeq(text, u + 1, m), x) = Shown(row, w, a, q)
  <2>1. /\ text \in Seq(Streams) /\ m \in Nat /\ m <= Len(text) /\ t <= before + m
        /\ \A y \in 1 .. Len(text) : w[before + y] = text[y]
        /\ u = t - before /\ x = t - a /\ q = before + m
    BY <1>1, <1>3, <1>4, <1>9
  <2>2. Reaches(w, a, t, before, text, m, u, x, q)
    BY <2>1 DEF Reaches
  <2> QED
    BY <2>2, PutShown
<1>10. old = [row |-> Shown(row, w, a, t), x |-> t - a, char |-> t - before, done |-> FALSE]
  BY <1>1 DEF PenOf
<1>11. pen.row = Put(old.row, SubSeq(text, old.char + 1, m), old.x) /\ pen.done
  BY <1>8, <1>10
<1> QED
  BY <1>1, <1>2, <1>3, <1>9, <1>11, <1>12

(* Line i starts in chunk q and ends in chunk p, or with the last one.     *)
StopsAt(b, i, q, p) ==
  /\ q \in 1 .. Len(b.chunks) /\ p \in q .. Len(b.chunks) + 1
  /\ b.chunks[q].at = b.tab[i - 1].chunk /\ b.tab[i - 1].char <= Len(b.chunks[q].text)
  /\ \A k \in q .. Len(b.chunks) : b.chunks[k].type \in Streams
  /\ \A k \in q .. Len(b.chunks) : k < p =>
       /\ b.chunks[k].endx = Len(Texts(b.chunks)[k]) - Start(b, i)
       /\ b.chunks[k].at # b.tab[i].chunk \/ (k = q /\ b.tab[i - 1].char = Len(b.chunks[k].text))
  /\ p <= Len(b.chunks) =>
       /\ b.chunks[p].at = b.tab[i].chunk
       /\ b.tab[i].char \in Nat /\ b.tab[i].char <= Len(b.chunks[p].text)
       /\ p = q => b.tab[i - 1].char <= b.tab[i].char /\ b.tab[i - 1].char < Len(b.chunks[p].text)
       /\ p # q => b.chunks[p].text # <<>>
StopOf(b, i, p) ==
  IF p <= Len(b.chunks) THEN Len(Texts(b.chunks)[p - 1]) + b.tab[i].char ELSE Len(Whole(b))

(* Then it is drawn from its start to its end. *)
LEMMA LineShown ==
  ASSUME NEW b, Sound(b), NEW i \in 1 .. b.avail, NEW q, NEW p, StopsAt(b, i, q, p),
         NEW row, IsRow(row)
  PROVE  DrawLine(b, i, row) = Shown(row, Whole(b), Start(b, i), StopOf(b, i, p))
<1>1. PICK n, from, to, w, a, S : /\ n = Len(b.chunks) /\ from = b.tab[i - 1] /\ to = b.tab[i]
                                  /\ w = Whole(b) /\ a = Start(b, i) /\ S = Texts(b.chunks)
  OBVIOUS
<1>2. /\ q \in 1 .. n /\ p \in q .. n + 1 /\ n \in Nat /\ q \in Nat /\ p \in Nat
      /\ b.chunks[q].at = from.chunk /\ from.char <= Len(b.chunks[q].text)
      /\ \A k \in q .. n : b.chunks[k].type \in Streams /\ k \in 1 .. n
  <2>1. /\ q \in 1 .. n /\ p \in q .. n + 1 /\ n \in Nat
        /\ b.chunks[q].at = from.chunk /\ from.char <= Len(b.chunks[q].text)
        /\ \A k \in q .. n : b.chunks[k].type \in Streams
    BY <1>1, BlockChunks DEF StopsAt
  <2>2. \A k \in q .. n : k \in 1 .. n
    BY <2>1
  <2> QED
    BY <2>1, <2>2
<1>3. ASSUME NEW k \in q .. n, k < p
      PROVE  /\ b.chunks[k].endx = Len(S[k]) - a
             /\ b.chunks[k].at # to.chunk \/ (k = q /\ from.char = Len(b.chunks[k].text))
  BY <1>1, <1>3 DEF StopsAt
<1>4. ASSUME p <= n
      PROVE  /\ b.chunks[p].at = to.chunk /\ to.char \in Nat /\ to.char <= Len(b.chunks[p].text)
             /\ p = q => from.char <= to.char /\ from.char < Len(b.chunks[p].text)
             /\ p # q => b.chunks[p].text # <<>>
  BY <1>1, <1>4 DEF StopsAt
<1>5. ASSUME NEW k \in 1 .. n
      PROVE  /\ Len(S[k - 1]) \in Nat /\ Len(b.chunks[k].text) \in Nat
             /\ b.chunks[k].text \in Seq(Streams)
             /\ Len(S[k]) = Len(S[k - 1]) + Len(b.chunks[k].text)
             /\ Len(S[k]) \in Nat
             /\ \A y \in 1 .. Len(b.chunks[k].text) : w[Len(S[k - 1]) + y] = b.chunks[k].text[y]
  <2>1. /\ Len(S[k - 1]) \in Nat /\ Len(b.chunks[k].text) \in Nat
        /\ b.chunks[k].text \in Seq(Streams)
        /\ Len(S[k]) = Len(S[k - 1]) + Len(b.chunks[k].text)
        /\ \A y \in 1 .. Len(b.chunks[k].text) : w[Len(S[k - 1]) + y] = b.chunks[k].text[y]
    <3>1. k \in 1 .. Len(b.chunks) /\ S = Texts(b.chunks)
      BY <1>1
    <3>2. Placed(w, S[k - 1], S[k], b.chunks[k].text)
      BY <1>1, <3>1, TextPlace
    <3> QED
      BY <3>2, Zenon DEF Placed
  <2>2. Len(S[k]) \in Nat
    <3>1. PICK x, y : x = Len(S[k - 1]) /\ y = Len(b.chunks[k].text)
      OBVIOUS
    <3>2. Len(S[k]) = x + y /\ x \in Nat /\ y \in Nat
      BY <2>1, <3>1, Zenon
    <3> QED
      BY <3>2
  <2> QED
    BY <2>1, <2>2, Zenon
<1>6. a = Len(S[q - 1]) + from.char /\ from \in RefType
  BY <1>1, <1>2, StartIs
<1>7. from.char \in Nat /\ a \in Nat /\ from.chunk \in Nat /\ Len(S[q - 1]) \in Nat
  <2>1. Len(S[q - 1]) \in Nat
    BY <1>2, <1>5
  <2>2. from.char \in Nat /\ from.chunk \in Nat
    BY <1>6 DEF RefType
  <2> QED
    BY <1>6, <2>1, <2>2
<1>8. from.chunk # 0
  <2>1. b.chunks[q].at >= HeadLength
    BY <1>1, <1>2, ChunkOrder
  <2> QED
    BY <1>2, <1>7, <2>1, HeadLengthType
<1>9. PICK f :
           /\ f[0] = [row |-> row, x |-> 0, char |-> from.char, done |-> FALSE]
           /\ \A k \in 1 .. n : f[k] = Turn(f[k - 1], b.chunks[k], from, to)
           /\ DrawLine(b, i, row) = f[n].row
  <2>1. PICK f : Draws(b, i, row, f)
    <3>1. Len(b.chunks) \in Nat /\ b.tab[i - 1].chunk # 0
      BY <1>1, <1>2, <1>8
    <3> QED
      BY <3>1, DrawLineIs
  <2> QED
    BY <1>1, <2>1, Zenon DEF Draws
<1>10. f[0] = PenOf(row, w, a, a, Len(S[q - 1]))
  <2>1. PICK s, x, u : s = Shown(row, w, a, a) /\ x = a - a /\ u = a - Len(S[q - 1])
    OBVIOUS
  <2>2. x = 0 /\ u = from.char
    BY <1>6, <1>7, <2>1
  <2>3. s = row
    <3>1. \A c \in Columns : ~(a + c <= a)
      BY <1>7, StoreAssumption DEF StoreAssumption, Columns
    <3>2. s = [c \in Columns |-> row[c]]
      BY <2>1, <3>1 DEF Shown
    <3> QED
      BY <3>2 DEF IsRow
  <2>4. f[0] = [row |-> s, x |-> x, char |-> u, done |-> FALSE]
    BY <1>9, <2>2, <2>3
  <2> QED
    BY <2>1, <2>4, Zenon DEF PenOf
<1>11. ASSUME NEW k \in 1 .. n
       PROVE  b.chunks[k].at < from.chunk <=> k < q
  <2>1. /\ k < q => b.chunks[k].at < b.chunks[q].at
        /\ q < k => b.chunks[q].at < b.chunks[k].at
        /\ b.chunks[k].at \in Nat /\ b.chunks[q].at \in Nat
    BY <1>1, <1>2, ChunkOrder
  <2> QED
    BY <1>2, <2>1
<1>18. ASSUME NEW h \in q .. n PROVE a <= Len(S[h])
  <2>1. h \in 0 .. n /\ q <= h /\ q \in 0 .. n /\ h \in 1 .. n
    BY <1>2
  <2>2. Len(S[q]) <= Len(S[h])
    BY <1>1, <2>1, BlockChunks, TextsRise
  <2>3. Len(S[q]) = Len(S[q - 1]) + Len(b.chunks[q].text) /\ Len(b.chunks[q].text) \in Nat
    BY <1>2, <1>5
  <2>4. PICK x, y, z : x = Len(S[q - 1]) /\ y = Len(b.chunks[q].text) /\ z = Len(S[h])
    OBVIOUS
  <2>5. x \in Nat /\ y \in Nat /\ x + y <= z /\ a = x + from.char /\ from.char <= y
    BY <1>2, <1>6, <1>7, <2>2, <2>3, <2>4, Zenon
  <2>6. z \in Nat
    BY <1>5, <2>1, <2>4
  <2>7. PICK u : u = from.char
    OBVIOUS
  <2>8. u \in Nat /\ a = x + u /\ u <= y
    BY <1>7, <2>5, <2>7, Zenon
  <2>9. a <= z
    BY <2>5, <2>6, <2>8
  <2> QED
    BY <2>4, <2>9
<1> DEFINE G == {k \in 0 .. n : k < q => f[k] = f[0]}
<1>12. \A k \in 0 .. n : k \in G
  <2>1. 0 \in G
    BY <1>2
  <2>2. ASSUME NEW k \in 1 .. n, k - 1 \in G PROVE k \in G
    <3>1. SUFFICES ASSUME k < q PROVE f[k] = f[0]
      OBVIOUS
    <3>2. f[k - 1] = f[0]
      <4>1. PICK h : h = k - 1
        OBVIOUS
      <4>2. h < q
        BY <1>2, <3>1, <4>1
      <4> QED
        BY <2>2, <4>1, <4>2
    <3>3. f[k] = f[k - 1]
      BY <1>9, <1>11, <3>1 DEF Turn
    <3> QED
      BY <3>2, <3>3
  <2> HIDE DEF G
  <2> QED
    BY <1>2, <2>1, <2>2, Upto
<1>13. PICK g : g = q - 1
  OBVIOUS
<1>14. f[g] = PenOf(row, w, a, a, Len(S[g]))
  <2>1. g \in 0 .. n /\ g < q
    BY <1>2, <1>13
  <2> QED
    BY <1>10, <1>12, <1>13, <2>1
<1> HIDE DEF G
<1> DEFINE H == {k \in 0 .. n : q <= k /\ k < p => f[k] = PenOf(row, w, a, Len(S[k]), Len(S[k]))}
<1>15. \A k \in 0 .. n : k \in H
  <2>1. 0 \in H
    BY <1>2
  <2>2. ASSUME NEW k \in 1 .. n, k - 1 \in H PROVE k \in H
    <3>1. SUFFICES ASSUME q <= k, k < p PROVE f[k] = PenOf(row, w, a, Len(S[k]), Len(S[k]))
      OBVIOUS
    <3>2. PICK h, c, t, before, after : /\ h = k - 1 /\ c = b.chunks[k]
                                        /\ t = IF k = q THEN a ELSE Len(S[h])
                                        /\ before = Len(S[h]) /\ after = Len(S[k])
      OBVIOUS
    <3>3. k \in q .. n
      BY <1>2, <3>1
    <3>4. /\ before \in Nat /\ after \in Nat /\ Len(c.text) \in Nat
          /\ c.text \in Seq(Streams) /\ after = before + Len(c.text)
          /\ \A y \in 1 .. Len(c.text) : w[before + y] = c.text[y]
      BY <1>5, <3>2
    <3>5. t \in Nat /\ a <= t /\ before <= t /\ t <= after
      <4>1. CASE k = q
        <5>1. t = a /\ before = Len(S[q - 1]) /\ from.char <= Len(c.text)
          BY <1>2, <3>2, <4>1
        <5>2. PICK y : y = Len(c.text)
          OBVIOUS
        <5>3. PICK u : u = from.char
          OBVIOUS
        <5>4. /\ t = before + u /\ after = before + y /\ y \in Nat /\ u <= y
              /\ u \in Nat /\ before \in Nat /\ t = a
          BY <1>6, <1>7, <3>4, <5>1, <5>2, <5>3, Zenon
        <5> QED
          BY <5>4
      <4>2. CASE k # q
        <5>1. t = before /\ h \in q .. n
          BY <1>2, <3>1, <3>2, <4>2
        <5>2. a <= before
          BY <1>18, <3>2, <5>1
        <5>3. PICK y : y = Len(c.text)
          OBVIOUS
        <5>4. after = before + y /\ y \in Nat
          BY <3>4, <5>3, Zenon
        <5> QED
          BY <3>4, <5>1, <5>2, <5>4
      <4> QED
        BY <4>1, <4>2
    <3>6. f[h] = PenOf(row, w, a, t, before)
      <4>1. CASE k = q
        BY <1>13, <1>14, <3>2, <4>1
      <4>2. CASE k # q
        <5>1. q <= h /\ h < p
          BY <1>2, <3>1, <3>2, <4>2
        <5> QED
          BY <2>2, <3>2, <4>2, <5>1
      <4> QED
        BY <4>1, <4>2
    <3>7. c.at # to.chunk \/ t = after
      <4>1. k = q /\ from.char = Len(b.chunks[k].text) => t = after
        <5>1. SUFFICES ASSUME k = q, from.char = Len(b.chunks[k].text) PROVE t = after
          OBVIOUS
        <5>2. t = a /\ before = Len(S[q - 1]) /\ from.char = Len(c.text)
          BY <3>2, <5>1
        <5> QED
          BY <1>6, <3>4, <5>2
      <4> QED
        BY <1>3, <3>1, <3>2, <3>3, <4>1
    <3>8. c.type \in Streams /\ c.endx = after - a
      BY <1>2, <1>3, <3>1, <3>2, <3>3
    <3>9. DrawChunk(PenOf(row, w, a, t, before), c, to) = PenOf(row, w, a, after, after)
      <4>1. t <= before + Len(c.text)
        BY <3>4, <3>5
      <4> QED
        BY <1>7, <3>4, <3>5, <3>7, <3>8, <4>1, DrawOn
    <3>10. f[k] = DrawChunk(f[h], c, to)
      <4>1. ~(k < q)
        BY <1>2, <3>1
      <4> QED
        BY <1>9, <1>11, <3>2, <4>1 DEF Turn
    <3> QED
      BY <3>2, <3>6, <3>9, <3>10
  <2> HIDE DEF H
  <2> QED
    BY <1>2, <2>1, <2>2, Upto
<1>16. CASE p > n
  <2>1. n \in 0 .. n /\ q <= n /\ n < p
    BY <1>2, <1>16
  <2>2. f[n] = PenOf(row, w, a, Len(S[n]), Len(S[n]))
    BY <1>15, <2>1
  <2>3. f[n].row = Shown(row, w, a, Len(S[n]))
    BY <2>2 DEF PenOf
  <2>4. StopOf(b, i, p) = Len(S[n])
    BY <1>1, <1>2, <1>16 DEF StopOf, Whole
  <2> QED
    BY <1>1, <1>9, <2>3, <2>4
<1>17. CASE p <= n
  <2>1. PICK h, c, t, before, stop : /\ h = p - 1 /\ c = b.chunks[p]
                                     /\ t = IF p = q THEN a ELSE Len(S[h])
                                     /\ before = Len(S[h]) /\ stop = before + to.char
    OBVIOUS
  <2>2. p \in 1 .. n /\ p \in q .. n
    BY <1>2, <1>17
  <2>3. /\ before \in Nat /\ Len(c.text) \in Nat /\ c.text \in Seq(Streams)
        /\ \A y \in 1 .. Len(c.text) : w[before + y] = c.text[y]
    BY <1>5, <2>1, <2>2
  <2>4. c.type \in Streams /\ c.at = to.chunk /\ to.char \in Nat /\ to.char <= Len(c.text)
    BY <1>2, <1>4, <1>17, <2>1, <2>2
  <2>5. t \in Nat /\ a <= t /\ before <= t /\ t < before + Len(c.text) /\ t <= stop
    <3>1. CASE p = q
      <4>1. t = a /\ before = Len(S[q - 1]) /\ from.char <= to.char /\ from.char < Len(c.text)
        BY <1>4, <1>17, <2>1, <3>1
      <4>2. PICK y, z : y = Len(c.text) /\ z = to.char
        OBVIOUS
      <4>3. /\ a = before + from.char /\ stop = before + z /\ y \in Nat /\ z \in Nat
            /\ from.char <= z /\ from.char < y
        BY <1>6, <2>1, <2>3, <2>4, <4>1, <4>2, Zenon
      <4>4. t \in Nat /\ a <= t /\ before <= t /\ t < before + y /\ t <= stop
        BY <1>7, <2>3, <4>1, <4>3
      <4> QED
        BY <4>2, <4>4
    <3>2. CASE p # q
      <4>1. t = before /\ h \in q .. n
        BY <1>2, <1>17, <2>1, <3>2
      <4>4. a <= before
        BY <1>18, <2>1, <4>1
      <4>5. Len(c.text) > 0
        <5>1. c.text # <<>>
          BY <1>4, <1>17, <2>1, <3>2
        <5> QED
          BY <2>3, <5>1
      <4>6. PICK y, z : y = Len(c.text) /\ z = to.char
        OBVIOUS
      <4>7. stop = before + z /\ y \in Nat /\ z \in Nat /\ y > 0
        BY <2>1, <2>3, <2>4, <4>5, <4>6, Zenon
      <4>8. t \in Nat /\ a <= t /\ before <= t /\ t < before + y /\ t <= stop
        BY <2>3, <4>1, <4>4, <4>7
      <4> QED
        BY <4>6, <4>8
    <3> QED
      BY <3>1, <3>2
  <2>6. f[h] = PenOf(row, w, a, t, before)
    <3>1. CASE p = q
      BY <1>13, <1>14, <2>1, <3>1
    <3>2. CASE p # q
      <4>1. h \in 0 .. n /\ q <= h /\ h < p
        BY <1>2, <1>17, <2>1, <3>2
      <4> QED
        BY <1>15, <2>1, <3>2, <4>1
    <3> QED
      BY <3>1, <3>2
  <2>7. PICK pen : pen = DrawChunk(PenOf(row, w, a, t, before), c, to)
    OBVIOUS
  <2>8. pen.row = Shown(row, w, a, before + to.char) /\ pen.done
    <3>1. t <= before + to.char
      BY <2>1, <2>5
    <3> QED
      BY <1>7, <2>3, <2>4, <2>5, <2>7, <3>1, DrawEnd
  <2>9. f[p] = pen
    <3>1. ~(p < q)
      BY <1>2
    <3>2. f[p] = DrawChunk(f[h], c, to)
      BY <1>9, <1>11, <2>1, <2>2, <3>1 DEF Turn
    <3> QED
      BY <2>6, <2>7, <3>2
  <2> DEFINE K == {k \in 0 .. n : p <= k => f[k].row = Shown(row, w, a, stop) /\ f[k].done}
  <2>10. \A k \in 0 .. n : k \in K
    <3>1. 0 \in K
      BY <1>2, <2>2
    <3>2. ASSUME NEW k \in 1 .. n, k - 1 \in K PROVE k \in K
      <4>1. SUFFICES ASSUME p <= k PROVE f[k].row = Shown(row, w, a, stop) /\ f[k].done
        OBVIOUS
      <4>2. CASE k = p
        BY <2>1, <2>8, <2>9, <4>2
      <4>3. CASE k # p
        <5>1. PICK y : y = k - 1
          OBVIOUS
        <5>2. p <= y
          BY <1>2, <4>1, <4>3, <5>1
        <5>3. f[y].row = Shown(row, w, a, stop) /\ f[y].done
          BY <3>2, <5>1, <5>2
        <5>4. ~(k < q)
          BY <1>2, <4>1
        <5>5. f[k] = DrawChunk(f[y], b.chunks[k], to)
          BY <1>9, <1>11, <5>1, <5>4 DEF Turn
        <5>6. f[k] = [f[y] EXCEPT !.done = TRUE]
          BY <5>3, <5>5 DEF DrawChunk
        <5> QED
          BY <5>3, <5>6
      <4> QED
        BY <4>2, <4>3
    <3> HIDE DEF K
    <3> QED
      BY <1>2, <3>1, <3>2, Upto
  <2>11. f[n].row = Shown(row, w, a, stop)
    BY <1>2, <1>17, <2>10
  <2>12. StopOf(b, i, p) = stop
    BY <1>1, <1>17, <2>1 DEF StopOf
  <2> QED
    BY <1>1, <1>9, <2>11, <2>12
<1> QED
  BY <1>2, <1>16, <1>17

(* The open line has its own start for an end only if the table overflowed *)
(* when it began with a wrap: then nothing of it is drawn.                 *)
Full(b, i) ==
  \/ i < b.avail \/ b.tab[i] = NoRef
  \/ \A k \in 1 .. Len(b.chunks) :
       b.chunks[k].at = b.tab[i].chunk => b.tab[i].char = Len(b.chunks[k].text)

(* Where the loop over the chunks of a line stops. *)
LEMMA LineStops ==
  ASSUME NEW b, Sound(b), Tidy(b), Ends(b, Len(b.chunks)), b.chunks # <<>>,
         NEW i \in 1 .. b.avail, ~Lost(b, i)
  PROVE  \E q, p : /\ StopsAt(b, i, q, p)
                   /\ StopOf(b, i, p) = IF Full(b, i) THEN End(b, i, 0) ELSE Start(b, i)
<1>1. PICK n, from, to, S, g : /\ n = Len(b.chunks) /\ from = b.tab[i - 1] /\ to = b.tab[i]
                               /\ S = Texts(b.chunks) /\ g = i - 1
  OBVIOUS
<1>2. /\ b.avail \in 1 .. MaxLines /\ MaxLines \in Nat /\ i \in 1 .. b.avail
      /\ g \in 0 .. b.avail - 1 /\ n \in Nat /\ b.chunks \in Seq(ChunkType)
  BY <1>1, BlockChunks
<1>3. InChunk(b, from)
  BY <1>1, <1>2 DEF Sound, Table
<1>4. PICK q \in 1 .. n : b.chunks[q].at = from.chunk /\ from.char <= Len(b.chunks[q].text)
  BY <1>1, <1>3 DEF InChunk
<1>5. from \in RefType /\ Start(b, i) = Len(S[q - 1]) + from.char
  BY <1>1, <1>4, StartIs
<1>6. from.chunk \in Nat /\ from.char \in Nat
  BY <1>5 DEF RefType
<1>7. OfText(b, from) /\ (i < b.avail => ~Bare(b, to))
  BY <1>1 DEF Lost
<1>8. \A k \in q .. n : b.chunks[k].type \in Streams
  <2>1. ASSUME NEW k \in q .. n PROVE b.chunks[k].type \in Streams
    <3>1. CASE k = q
      BY <1>1, <1>4, <1>7, <3>1 DEF OfText
    <3>2. CASE k # q
      <4>1. k \in 1 .. Len(b.chunks) /\ k # 1
        BY <1>1, <1>2, <3>2
      <4> QED
        BY <4>1 DEF Tidy, Heads
    <3> QED
      BY <3>1, <3>2
  <2> QED
    BY <2>1
<1>9. \A k \in 1 .. n, l \in 1 .. n :
        /\ b.chunks[k].at \in Nat /\ b.chunks[k].at > 0
        /\ k < l => b.chunks[k].at < b.chunks[l].at
        /\ Len(b.chunks[k].text) \in Nat
  <2>1. \A k \in 1 .. n, l \in 1 .. n :
          /\ b.chunks[k] \in ChunkType /\ b.chunks[k].at \in Nat
          /\ HeadLength <= b.chunks[k].at
          /\ k < l => b.chunks[k].at < b.chunks[l].at
    BY <1>1, ChunkOrder
  <2>2. \A k \in 1 .. n : b.chunks[k].text \in Seq(Streams)
    BY <2>1 DEF ChunkType
  <2>3. \A k \in 1 .. n : Len(b.chunks[k].text) \in Nat
    BY <2>2
  <2>4. \A k \in 1 .. n : b.chunks[k].at > 0
    <3>1. \A at \in Nat : HeadLength <= at => at > 0
      BY HeadLengthType
    <3> QED
      BY <2>1, <3>1
  <2> QED
    BY <2>1, <2>3, <2>4
<1>10. ASSUME NEW k \in q .. n, i < b.avail => b.chunks[k].at < to.chunk
       PROVE  b.chunks[k].endx = Len(S[k]) - Start(b, i)
  <2>1. k \in 1 .. n /\ q <= k
    BY <1>2
  <2>2. from.chunk <= b.chunks[k].at
    <3>1. CASE k = q
      BY <1>4, <1>6, <3>1
    <3>2. CASE k # q
      <4>1. b.chunks[q].at < b.chunks[k].at
        BY <1>2, <1>9, <2>1, <3>2
      <4> QED
        BY <1>4, <1>6, <1>9, <2>1, <4>1
    <3> QED
      BY <3>1, <3>2
  <2> QED
    BY <1>1, <1>7, <1>10, <2>1, <2>2 DEF Ends
<1>11. ASSUME NEW p, p = n + 1,
              \A k \in q .. n : i < b.avail => b.chunks[k].at < to.chunk,
              \A k \in q .. n : b.chunks[k].at # to.chunk \/ (k = q /\ from.char = Len(b.chunks[k].text))
       PROVE  StopsAt(b, i, q, p) /\ StopOf(b, i, p) = Len(Whole(b))
  <2>1. p \in q .. n + 1 /\ ~(p <= n)
    BY <1>2, <1>11
  <2>2. StopOf(b, i, p) = Len(Whole(b))
    BY <1>1, <2>1 DEF StopOf
  <2>3. \A k \in q .. n : k < p =>
          /\ b.chunks[k].endx = Len(S[k]) - Start(b, i)
          /\ b.chunks[k].at # to.chunk \/ (k = q /\ from.char = Len(b.chunks[k].text))
    BY <1>10, <1>11
  <2> QED
    BY <1>1, <1>4, <1>8, <2>1, <2>2, <2>3 DEF StopsAt
<1>12. CASE i < b.avail
  <2>1. InChunk(b, to)
    <3>1. i \in 0 .. b.avail - 1
      BY <1>2, <1>12
    <3> QED
      BY <1>1, <3>1 DEF Sound, Table
  <2>2. PICK p \in 1 .. n : b.chunks[p].at = to.chunk /\ to.char <= Len(b.chunks[p].text)
    BY <1>1, <2>1 DEF InChunk
  <2>3. i + 1 \in 1 .. b.avail /\ (i + 1) - 1 = i
    BY <1>2, <1>12
  <2>4. to \in RefType /\ Start(b, i + 1) = Len(S[p - 1]) + to.char
    BY <1>1, <2>2, <2>3, StartIs
  <2>5. to.chunk \in Nat /\ to.char \in Nat
    BY <2>4 DEF RefType
  <2>6. b.chunks[p].text # <<>>
    BY <1>1, <1>7, <1>12, <2>2 DEF Bare
  <2>7. p >= q
    <3>1. from.chunk <= to.chunk
      <4>1. g \in 0 .. b.avail - 1 /\ i \in 0 .. b.avail - 1 /\ g <= i
        BY <1>1, <1>2, <1>12
      <4> QED
        BY <1>1, <4>1 DEF Sound, Table
    <3>2. ~(b.chunks[p].at < b.chunks[q].at)
      BY <1>4, <1>6, <2>2, <2>5, <3>1
    <3>3. p < q => b.chunks[p].at < b.chunks[q].at
      BY <1>9
    <3>4. ~(p < q)
      BY <3>2, <3>3
    <3>5. p \in Nat /\ q \in Nat
      BY <1>2
    <3> QED
      BY <3>4, <3>5
  <2>8. p = q => from.char <= to.char /\ from.char < Len(b.chunks[p].text)
    <3>1. SUFFICES ASSUME p = q PROVE from.char <= to.char /\ from.char < Len(b.chunks[p].text)
      OBVIOUS
    <3>2. i \in 1 .. b.avail - 1 /\ from.chunk = to.chunk
      BY <1>2, <1>4, <1>12, <2>2, <3>1
    <3>3. Rises(from, to, b.chunks[p].text)
      BY <1>1, <2>2, <3>2 DEF Tidy, Distinct
    <3>4. from.char < to.char
      BY <2>6, <3>3 DEF Rises
    <3> QED
      BY <1>6, <1>9, <2>2, <2>5, <3>4
  <2>9. \A k \in q .. n : k < p =>
          /\ b.chunks[k].endx = Len(S[k]) - Start(b, i)
          /\ b.chunks[k].at # to.chunk
    <3>1. ASSUME NEW k \in q .. n, k < p
          PROVE  b.chunks[k].endx = Len(S[k]) - Start(b, i) /\ b.chunks[k].at # to.chunk
      <4>1. b.chunks[k].at < to.chunk /\ k \in 1 .. n /\ b.chunks[k].at \in Nat
        BY <1>2, <1>9, <2>2, <3>1
      <4>2. b.chunks[k].at # to.chunk
        BY <2>5, <4>1
      <4> QED
        BY <1>10, <4>1, <4>2
    <3> QED
      BY <3>1
  <2>10. p \in q .. n + 1 /\ p <= n
    BY <1>2, <2>2, <2>7
  <2>11. StopsAt(b, i, q, p)
    BY <1>1, <1>4, <1>8, <2>2, <2>5, <2>6, <2>8, <2>9, <2>10 DEF StopsAt
  <2>12. StopOf(b, i, p) = Start(b, i + 1)
    BY <1>1, <2>4, <2>10 DEF StopOf
  <2>13. End(b, i, 0) = Start(b, i + 1) /\ Full(b, i)
    BY <1>12 DEF End, Full
  <2> QED
    BY <2>11, <2>12, <2>13
<1>13. CASE ~(i < b.avail)
  <2>1. i = b.avail /\ Len(Whole(b)) \in Nat
    BY <1>2, <1>13, BlockChunks
  <2>2. End(b, i, 0) = Len(Whole(b))
    BY <1>13, <2>1 DEF End
  <2>3. CASE to = NoRef
    <3>1. \A k \in q .. n : b.chunks[k].at # to.chunk
      <4>1. to.chunk = 0 /\ \A k \in q .. n : k \in 1 .. n
        BY <1>2, <2>3 DEF NoRef, Ref
      <4> QED
        BY <1>9, <4>1
    <3>2. PICK p : p = n + 1
      OBVIOUS
    <3>3. StopsAt(b, i, q, p) /\ StopOf(b, i, p) = Len(Whole(b))
      BY <1>11, <1>13, <3>1, <3>2
    <3>4. Full(b, i)
      BY <1>1, <2>3 DEF Full
    <3> QED
      BY <2>2, <3>3, <3>4
  <2>4. CASE to # NoRef
    <3>1. to = from
      <4>1. b.avail \in b.avail .. MaxLines
        BY <1>2
      <4> QED
        BY <1>1, <2>1, <2>4, <4>1 DEF Tidy, Stale
    <3>2. \A k \in 1 .. n : b.chunks[k].at = to.chunk => k = q
      BY <1>1, <1>4, <3>1, OneChunk
    <3>3. CASE from.char = Len(b.chunks[q].text)
      <4>1. Full(b, i)
        BY <1>1, <3>1, <3>2, <3>3 DEF Full
      <4>2. \A k \in q .. n : b.chunks[k].at # to.chunk \/ (k = q /\ from.char = Len(b.chunks[k].text))
        <5>1. \A k \in q .. n : k \in 1 .. n
          BY <1>2
        <5> QED
          BY <3>2, <3>3, <5>1
      <4>3. PICK p : p = n + 1
        OBVIOUS
      <4>4. StopsAt(b, i, q, p) /\ StopOf(b, i, p) = Len(Whole(b))
        BY <1>11, <1>13, <4>2, <4>3
      <4> QED
        BY <2>2, <4>1, <4>4
    <3>4. CASE from.char # Len(b.chunks[q].text)
      <4>1. ~Full(b, i)
        BY <1>1, <1>4, <1>13, <2>4, <3>1, <3>4 DEF Full
      <4>2. from.char < Len(b.chunks[q].text) /\ from.char <= to.char
        BY <1>4, <1>6, <1>9, <3>1, <3>4
      <4>3. q \in q .. n + 1 /\ q <= n /\ \A k \in q .. n : ~(k < q)
        BY <1>2
      <4>4. StopsAt(b, i, q, q)
        BY <1>1, <1>4, <1>6, <1>8, <3>1, <4>2, <4>3 DEF StopsAt
      <4>5. StopOf(b, i, q) = Start(b, i)
        BY <1>1, <1>5, <3>1, <4>3 DEF StopOf
      <4> QED
        BY <4>1, <4>4, <4>5
    <3> QED
      BY <3>3, <3>4
  <2> QED
    BY <2>3, <2>4
<1> QED
  BY <1>12, <1>13

(* A row that shows a text from its first column on. *)
Over(row, text) == [c \in Columns |-> IF c <= Len(text) THEN text[c] ELSE row[c]]

(* Drawing a line shows it, from its first character to its last.          *)
LEMMA LineDrawn ==
  ASSUME NEW b, Sound(b), Tidy(b), Ends(b, Len(b.chunks)), NEW ls, Told(b, ls, 0),
         NEW i \in 1 .. b.avail, ~Lost(b, i), NEW row, IsRow(row)
  PROVE  DrawLine(b, i, row) = IF Full(b, i) THEN Over(row, ls[i]) ELSE row
<1>1. PICK ms \in Seq(Seq(Streams)) : Cut(b, ms, 0) /\ Agree(b, ls, ms)
  BY DEF Told
<1>2. OfText(b, b.tab[i - 1])
  BY DEF Lost
<1>3. ls[i] = ms[i]
  BY <1>1, <1>2 DEF Agree
<1>4. ms[i] = Part(Whole(b), Start(b, i), End(b, i, 0))
  BY <1>1 DEF Cut
<1>5. PICK w, a, z : w = Whole(b) /\ a = Start(b, i) /\ z = End(b, i, 0)
  OBVIOUS
<1>6. \A c \in Columns : c \in Nat /\ c >= 1
  BY StoreAssumption DEF StoreAssumption, Columns
<1>7. CASE b.chunks # <<>>
  <2>1. PICK q, p : /\ StopsAt(b, i, q, p)
                    /\ StopOf(b, i, p) = IF Full(b, i) THEN End(b, i, 0) ELSE Start(b, i)
    BY <1>7, LineStops
  <2>2. DrawLine(b, i, row) = Shown(row, w, a, StopOf(b, i, p))
    BY <1>5, <2>1, LineShown
  <2>3. a \in Nat /\ z \in Int
    <3>1. Start(b, i) \in 0 .. Len(Whole(b)) /\ Len(Whole(b)) \in Nat
      BY StartType
    <3>2. 0 \in Nat
      OBVIOUS
    <3>3. End(b, i, 0) \in Int
      BY <3>2, EndType
    <3> QED
      BY <1>5, <3>1, <3>3
  <2>4. CASE Full(b, i)
    <3>1. DrawLine(b, i, row) = Shown(row, w, a, z)
      BY <1>5, <2>1, <2>2, <2>4
    <3>2. \A c \in Columns : (IF a + c <= z THEN w[a + c] ELSE row[c])
                             = IF c <= Len(ls[i]) THEN ls[i][c] ELSE row[c]
      <4>1. ASSUME NEW c \in Columns
            PROVE (IF a + c <= z THEN w[a + c] ELSE row[c])
                             = IF c <= Len(ls[i]) THEN ls[i][c] ELSE row[c]
        <5>1. PICK s : s = ls[i]
          OBVIOUS
        <5>2. s = [j \in 1 .. z - a |-> w[a + j]]
          BY <1>3, <1>4, <1>5, <5>1 DEF Part
        <5>3. s \in Seq(Streams)
          BY <1>1, <1>3, <5>1 DEF Cut, Agree
        <5>4. DOMAIN s = 1 .. z - a
          BY <5>2
        <5>5. c \in Nat /\ c >= 1
          BY <1>6
        <5>6. DOMAIN s = 1 .. Len(s) /\ Len(s) \in Nat
          BY <5>3
        <5>7. c <= Len(s) <=> a + c <= z
          <6>1. c <= Len(s) <=> c \in 1 .. Len(s)
            BY <5>5, <5>6
          <6>2. c \in 1 .. z - a <=> a + c <= z
            BY <2>3, <5>5
          <6> QED
            BY <5>4, <5>6, <6>1, <6>2
        <5>8. a + c <= z => s[c] = w[a + c]
          <6>1. a + c <= z => c \in 1 .. z - a
            BY <2>3, <5>5
          <6> QED
            BY <5>2, <6>1
        <5> QED
          BY <5>1, <5>7, <5>8
      <4> QED
        BY <4>1
    <3>3. Shown(row, w, a, z) = Over(row, ls[i])
      BY <3>2 DEF Shown, Over
    <3> QED
      BY <2>4, <3>1, <3>3
  <2>5. CASE ~Full(b, i)
    <3>1. DrawLine(b, i, row) = Shown(row, w, a, a)
      BY <1>5, <2>1, <2>2, <2>5
    <3>2. \A c \in Columns : ~(a + c <= a)
      BY <1>6, <2>3
    <3>3. Shown(row, w, a, a) = [c \in Columns |-> row[c]]
      BY <3>2 DEF Shown
    <3> QED
      BY <2>5, <3>1, <3>3 DEF IsRow
  <2> QED
    BY <2>4, <2>5
<1>8. CASE b.chunks = <<>>
  <2>1. b.avail = 1 /\ i = 1 /\ b.tab[0] = Ref(HeadLength, 0) /\ Whole(b) = <<>>
    BY <1>8, EmptyOffset DEF Sound, Table
  <2>2. Start(b, i) = 0 /\ End(b, i, 0) = 0
    BY <1>8, <2>1, EmptyOffset DEF Start, End
  <2>3. DrawLine(b, i, row) = row
    <3>1. b.tab[i - 1].chunk # 0 /\ Len(b.chunks) = 0 /\ Len(b.chunks) \in Nat
      <4>1. b.tab[i - 1] = Ref(HeadLength, 0)
        BY <2>1
      <4>2. b.tab[i - 1].chunk # 0
        BY <4>1, HeadLengthType DEF Ref
      <4> QED
        BY <1>8, <4>2
    <3>2. PICK f : Draws(b, i, row, f)
      BY <3>1, DrawLineIs
    <3>3. f[0].row = row
      BY <3>2 DEF Draws
    <3> QED
      BY <3>1, <3>2, <3>3 DEF Draws
  <2>4. Over(row, ls[i]) = row
    <3>1. PICK s : s = ls[i]
      OBVIOUS
    <3>2. s \in Seq(Streams)
      BY <1>1, <1>3, <3>1 DEF Agree
    <3>6. DOMAIN s = 1 .. 0
      <4>1. s = [j \in 1 .. 0 - 0 |-> Whole(b)[0 + j]]
        BY <1>3, <1>4, <2>2, <3>1 DEF Part
      <4>2. 0 - 0 = 0
        OBVIOUS
      <4> QED
        BY <4>1, <4>2
    <3>3. Len(s) = 0
      BY <3>2, <3>6
    <3>4. \A c \in Columns : ~(c <= Len(s))
      BY <1>6, <3>3
    <3>5. Over(row, s) = [c \in Columns |-> row[c]]
      BY <3>4 DEF Over
    <3> QED
      BY <3>1, <3>5 DEF IsRow
  <2> QED
    BY <2>3, <2>4
<1> QED
  BY <1>7, <1>8

(* A row that shows some of a text, and blanks; one that shows what is to  *)
(* be drawn of line i.                                                     *)
HoldsPart(row, text) ==
  /\ IsRow(row)
  /\ \A x \in Columns : row[x] = Blank \/ (x <= Len(text) /\ row[x] = text[x])
RowOf(text) == Over(BlankRow, text)
Shows(b, ls, i, row) == HoldsPart(row, ls[i]) /\ (Full(b, i) => row = RowOf(ls[i]))

(* The row in which line j stood when the table ended with line la, f      *)
(* lines ago: blank behind the end, otherwise some of the line, and all of *)
(* it if it was not the last one or is not written to now.                 *)
PicRow(b, ls, j, la, f, settled, row) ==
  /\ j > la => row = BlankRow
  /\ \A i \in 1 .. b.avail :
       j = i + f /\ j <= la /\ ~Lost(b, i)
         => /\ HoldsPart(row, ls[i])
            /\ j < la \/ (settled /\ Full(b, i)) => row = RowOf(ls[i])
Pic(scr, b, ls, lp, la, f, settled) ==
  \A y \in Rows, j \in Int : j = lp + y => PicRow(b, ls, j, la, f, settled, scr[y])

(* The store can be drawn. *)
Able(b, ls) ==
  /\ Sound(b) /\ Tidy(b) /\ Told(b, ls, 0) /\ Ends(b, Len(b.chunks))
  /\ PosBound(b)

(* A row that holds some of a text holds some of it when it has grown. *)
LEMMA PartGrows ==
  ASSUME NEW row, NEW s \in Seq(Streams), NEW t \in Seq(Streams), Begun(s, t),
         HoldsPart(row, s)
  PROVE  HoldsPart(row, t)
<1>1. Len(s) \in Nat /\ Len(t) \in Nat
  OBVIOUS
<1>2. ASSUME NEW x \in Columns, row[x] # Blank
      PROVE  x <= Len(t) /\ row[x] = t[x]
  <2>1. x \in Nat /\ x >= 1
    BY StoreAssumption DEF StoreAssumption, Columns
  <2>2. x <= Len(s) /\ row[x] = s[x]
    BY <1>2 DEF HoldsPart
  <2>3. x \in 1 .. Len(s)
    BY <1>1, <2>1, <2>2
  <2>4. s[x] = t[x] /\ Len(s) <= Len(t)
    BY <2>3 DEF Begun
  <2> QED
    BY <1>1, <2>1, <2>2, <2>4
<1> QED
  BY <1>2 DEF HoldsPart

(* A blank row does. *)
LEMMA BlankHolds ==
  ASSUME NEW text
  PROVE  HoldsPart(BlankRow, text) /\ IsRow(BlankRow)
BY DEF HoldsPart, IsRow, BlankRow

(* Drawn over, it shows all of it. *)
LEMMA OverHolds ==
  ASSUME NEW row, NEW text \in Seq(Streams), HoldsPart(row, text)
  PROVE  Over(row, text) = RowOf(text) /\ HoldsPart(RowOf(text), text)
<1>1. \A x \in Columns : x \in Nat /\ x >= 1
  BY StoreAssumption DEF StoreAssumption, Columns
<1>2. Len(text) \in Nat
  OBVIOUS
<1>3. \A x \in Columns : ~(x <= Len(text)) => row[x] = Blank
  BY DEF HoldsPart
<1>4. Over(row, text) = RowOf(text)
  BY <1>3 DEF Over, RowOf, BlankRow
<1>5. \A x \in Columns :
        RowOf(text)[x] = IF x <= Len(text) THEN text[x] ELSE Blank
  BY DEF RowOf, Over, BlankRow
<1>6. IsRow(RowOf(text))
  BY DEF RowOf, Over, IsRow
<1> QED
  BY <1>4, <1>5, <1>6 DEF HoldsPart

(* What was written is a text. *)
LEMMA ToldType ==
  ASSUME NEW b, NEW ls, NEW left, Told(b, ls, left), NEW i \in 1 .. b.avail,
         OfText(b, b.tab[i - 1])
  PROVE  ls[i] \in Seq(Streams)
<1>1. PICK ms \in Seq(Seq(Streams)) : Agree(b, ls, ms)
  BY DEF Told
<1>2. ls[i] = ms[i] /\ i \in 1 .. Len(ms)
  BY <1>1 DEF Agree
<1> QED
  BY <1>2

(* Drawing a line over some of it shows it. *)
LEMMA RowDrawn ==
  ASSUME NEW b, NEW ls, Able(b, ls), NEW i \in 1 .. b.avail, ~Lost(b, i),
         NEW row, HoldsPart(row, ls[i])
  PROVE  Shows(b, ls, i, DrawLine(b, i, row))
<1>1. IsRow(row) /\ OfText(b, b.tab[i - 1])
  BY DEF HoldsPart, Lost
<1>2. DrawLine(b, i, row) = IF Full(b, i) THEN Over(row, ls[i]) ELSE row
  BY <1>1, LineDrawn DEF Able
<1>3. ls[i] \in Seq(Streams)
  BY <1>1, ToldType DEF Able
<1>4. Over(row, ls[i]) = RowOf(ls[i]) /\ HoldsPart(RowOf(ls[i]), ls[i])
  BY <1>3, OverHolds
<1> QED
  BY <1>2, <1>4 DEF Shows

(* Before the lines up to "to" are drawn, from row y on: what is not drawn *)
(* is there already.                                                       *)
Ready(b, ls, T, to, y) ==
  \A r \in Rows, j \in Int : j = b.pos + r =>
    /\ j > b.avail => T[r] = BlankRow /\ ~(r >= y /\ j <= to)
    /\ j <= b.avail /\ ~Lost(b, j) =>
         IF r >= y /\ j <= to THEN HoldsPart(T[r], ls[j]) ELSE Shows(b, ls, j, T[r])

(* Then the picture shows the view. *)
LEMMA LinesDrawn ==
  ASSUME NEW b, NEW ls, Able(b, ls), NEW T, DOMAIN T = -1 .. Visible,
         NEW to, NEW y \in Int, NEW first, first = b.pos + y, Ready(b, ls, T, to, y)
  PROVE  Pic(DrawLines(b, T, first, to, y), b, ls, b.pos, b.avail, 0, TRUE)
<1>1. b.pos \in Nat /\ b.pos >= 1 /\ b.avail \in Nat
  BY DEF Able, Sound, BlockType, View
<1>2. PICK U : U = DrawLines(b, T, first, to, y)
  OBVIOUS
<1>3. ASSUME NEW r \in Rows, NEW j \in Int, j = b.pos + r
      PROVE  PicRow(b, ls, j, b.avail, 0, TRUE, U[r])
  <2>1. r \in Nat /\ r \in -1 .. Visible /\ j >= 1
    BY <1>1, <1>3, VisibleType DEF Rows
  <2>2. first + (r - y) = j
    BY <1>1, <1>3, <2>1
  <2>3. U[r] = IF r >= y /\ j <= to THEN DrawLine(b, j, T[r]) ELSE T[r]
    BY <1>2, <2>1, <2>2 DEF DrawLines
  <2>4. j > b.avail => U[r] = BlankRow
    BY <1>3, <2>3 DEF Ready
  <2>5. ASSUME NEW i \in 1 .. b.avail, j = i + 0, j <= b.avail, ~Lost(b, i)
        PROVE  HoldsPart(U[r], ls[i]) /\ (j < b.avail \/ Full(b, i) => U[r] = RowOf(ls[i]))
    <3>1. i = j /\ j \in 1 .. b.avail
      BY <2>5
    <3>2. Shows(b, ls, j, U[r])
      <4>1. CASE r >= y /\ j <= to
        <5>1. HoldsPart(T[r], ls[j])
          BY <1>3, <2>5, <3>1, <4>1 DEF Ready
        <5>2. Shows(b, ls, j, DrawLine(b, j, T[r]))
          BY <2>5, <3>1, <5>1, RowDrawn
        <5> QED
          BY <2>3, <4>1, <5>2
      <4>2. CASE ~(r >= y /\ j <= to)
        <5>1. Shows(b, ls, j, T[r])
          BY <1>3, <2>5, <3>1, <4>2 DEF Ready
        <5> QED
          BY <2>3, <4>2, <5>1
      <4> QED
        BY <4>1, <4>2
    <3>3. j < b.avail => Full(b, i)
      BY <3>1 DEF Full
    <3> QED
      BY <3>1, <3>2, <3>3 DEF Shows
  <2> QED
    BY <2>4, <2>5 DEF PicRow
<1> QED
  BY <1>2, <1>3 DEF Pic

(* Writing on leaves what is shown: lines go on, start and are lost.       *)
LEMMA PicMoves ==
  ASSUME NEW scr, NEW b, NEW c, NEW ls, NEW ms, NEW lp \in Int, NEW la \in Int,
         NEW f \in Nat, NEW lost \in Nat, NEW settled, Pic(scr, b, ls, lp, la, f, settled),
         Stays(b, c, ls, ms, lost), NEW left, Told(b, ls, left), NEW more, Told(c, ms, more),
         b.avail \in Nat, c.avail \in Nat, la <= b.avail + f,
         NEW g, g = f + lost
  PROVE  Pic(scr, c, ms, lp, la, g, FALSE)
<1>1. ASSUME NEW y \in Rows, NEW j \in Int, j = lp + y
      PROVE  PicRow(c, ms, j, la, g, FALSE, scr[y])
  <2>1. PicRow(b, ls, j, la, f, settled, scr[y])
    BY <1>1 DEF Pic
  <2>2. ASSUME NEW i \in 1 .. c.avail, j = i + g, j <= la, ~Lost(c, i)
        PROVE  HoldsPart(scr[y], ms[i]) /\ (j < la => scr[y] = RowOf(ms[i]))
    <3>1. PICK h : h = i + lost
      OBVIOUS
    <3>2. h \in 1 .. b.avail /\ j = h + f /\ (j < la => h < b.avail)
      BY <2>2, <3>1
    <3>3. OfText(c, c.tab[i - 1]) /\ ~Lost(b, h)
      BY <2>2, <3>1, <3>2 DEF Lost, Stays, Keeps
    <3>4. OfText(b, b.tab[h - 1])
      BY <3>3 DEF Lost
    <3>5. Begun(ls[h], ms[i]) /\ (h < b.avail => ms[i] = ls[h])
      BY <3>1, <3>2, <3>3 DEF Stays
    <3>6. HoldsPart(scr[y], ls[h]) /\ (j < la => scr[y] = RowOf(ls[h]))
      BY <2>1, <2>2, <3>2, <3>3 DEF PicRow
    <3>7. ls[h] \in Seq(Streams) /\ ms[i] \in Seq(Streams)
      BY <3>2, <3>3, <3>4, ToldType
    <3>8. HoldsPart(scr[y], ms[i])
      BY <3>5, <3>6, <3>7, PartGrows
    <3> QED
      BY <3>2, <3>5, <3>6, <3>8
  <2> QED
    BY <2>1, <2>2 DEF PicRow
<1> QED
  BY <1>1 DEF Pic

Follow(a) == IF Visible >= a THEN 1 ELSE a - Visible + 1

(* The picture has followed the lines lost from the history; n lines were  *)
(* started since the last drawing, which ended with line la and began with *)
(* lp: the view is as it was then, or follows the end of the output.       *)
Caught(b, ls, T, lp, la, f, n, settled) ==
  /\ Able(b, ls) /\ DOMAIN T = -1 .. Visible
  /\ lp \in Nat /\ lp >= 1 /\ la \in Nat /\ f \in 0 .. 1 /\ n \in 0 .. 1 /\ f <= n
  /\ b.avail + f = la + n
  /\ settled \in BOOLEAN
  /\ settled => n = 0 /\ lp <= b.avail
  /\ ~settled => lp = IF b.scrolling THEN b.pos ELSE Follow(la)
  /\ Pic(T, b, ls, lp, la - f, 0, settled)

(* The lines that fell out of the history have taken their rows along. *)
LEMMA CaughtUpPic ==
  ASSUME NEW b, NEW ls, NEW lp \in Int, NEW la \in Int, NEW settled,
         DOMAIN screen = -1 .. Visible, fifoed \in 0 .. 1,
         Pic(screen, b, ls, lp, la, fifoed, settled),
         fifoed = 1 => lp + Visible > la, NEW d, d = la - fifoed
  PROVE  Pic(CaughtUp(screen), b, ls, lp, d, 0, settled) /\ DOMAIN CaughtUp(screen) = -1 .. Visible
<1>1. PICK f, T : f = fifoed /\ T = CaughtUp(screen)
  OBVIOUS
<1>2. f \in 0 .. 1 /\ ~(f >= Visible) /\ d = la - f
  BY <1>1, VisibleType
<1>3. T = Moved(screen, f)
  BY <1>1, <1>2 DEF CaughtUp
<1>4. DOMAIN T = -1 .. Visible
  BY <1>3 DEF Moved
<1>5. ASSUME NEW y \in Rows, NEW j \in Int, j = lp + y
      PROVE  PicRow(b, ls, j, d, 0, settled, T[y])
  <2>1. T[y] = IF y + f \in Rows THEN screen[y + f] ELSE BlankRow
    <3>1. y \in -1 .. Visible
      BY VisibleType DEF Rows
    <3> QED
      BY <1>3, <3>1 DEF Moved
  <2>2. CASE y + f \in Rows
    <3>1. PICK r, h : r = y + f /\ h = j + f
      OBVIOUS
    <3>2. r \in Rows /\ h \in Int /\ h = lp + r
      BY <1>2, <1>5, <2>2, <3>1 DEF Rows
    <3>3. PicRow(b, ls, h, la, f, settled, screen[r])
      BY <1>1, <3>2 DEF Pic
    <3>4. (j > d <=> h > la) /\ (j <= d <=> h <= la) /\ (j < d <=> h < la)
      BY <1>2, <1>5, <3>1
    <3>5. \A i \in 1 .. b.avail : j = i + 0 => h = i + f
      BY <1>2, <3>1
    <3>6. T[y] = screen[r]
      BY <2>1, <2>2, <3>1
    <3> QED
      BY <3>3, <3>4, <3>5, <3>6 DEF PicRow
  <2>3. CASE y + f \notin Rows
    <3>1. f = 1 /\ y = Visible - 1
      BY <1>2, <2>3, VisibleType DEF Rows
    <3>2. j > d /\ ~(j <= d)
      BY <1>1, <1>2, <1>5, <3>1, VisibleType
    <3> QED
      BY <2>1, <2>3, <3>2 DEF PicRow
  <2> QED
    BY <2>2, <2>3
<1> QED
  BY <1>1, <1>4, <1>5 DEF Pic

(* A row of it: nothing, or some of its line, or all that is to be drawn.  *)
LEMMA CaughtRow ==
  ASSUME NEW b, NEW ls, NEW T, NEW lp, NEW la, NEW f, NEW n, NEW settled,
         Caught(b, ls, T, lp, la, f, n, settled),
         NEW r \in Rows, NEW j \in Int, j = lp + r
  PROVE  /\ j > b.avail => T[r] = BlankRow
         /\ j <= b.avail /\ ~Lost(b, j) =>
              /\ HoldsPart(T[r], ls[j])
              /\ settled \/ j < la - f => Shows(b, ls, j, T[r])
<1>1. PICK d : d = la - f
  OBVIOUS
<1>2. d \in Int /\ d <= b.avail /\ b.avail \in Nat /\ (settled => d = b.avail) /\ j >= 1
  BY <1>1, VisibleType DEF Caught, Able, Sound, BlockType, Rows
<1>3. PicRow(b, ls, j, d, 0, settled, T[r])
  BY <1>1 DEF Caught, Pic
<1>4. j > b.avail => T[r] = BlankRow
  BY <1>2, <1>3 DEF PicRow
<1>5. ASSUME j <= b.avail, ~Lost(b, j)
      PROVE  HoldsPart(T[r], ls[j]) /\ (settled \/ j < d => Shows(b, ls, j, T[r]))
  <2>1. j \in 1 .. b.avail /\ j = j + 0
    BY <1>2, <1>5
  <2>2. CASE j <= d
    <3>1. /\ HoldsPart(T[r], ls[j])
          /\ j < d \/ (settled /\ Full(b, j)) => T[r] = RowOf(ls[j])
      BY <1>3, <1>5, <2>1, <2>2 DEF PicRow
    <3> QED
      BY <3>1 DEF Shows
  <2>3. CASE ~(j <= d)
    <3>1. T[r] = BlankRow /\ ~settled /\ ~(j < d)
      BY <1>2, <1>3, <1>5, <2>3 DEF PicRow
    <3> QED
      BY <3>1, BlankHolds
  <2> QED
    BY <2>2, <2>3
<1> QED
  BY <1>1, <1>4, <1>5

(* Everything is drawn. *)
LEMMA AllDrawn ==
  ASSUME NEW b, NEW ls, Able(b, ls), DOMAIN screen = -1 .. Visible
  PROVE  Pic(DrawAll(b), b, ls, b.pos, b.avail, 0, TRUE)
<1>1. PICK T, to : T = Erased(screen, Rows) /\ to = LastLine(b)
  OBVIOUS
<1>2. b.pos \in Nat /\ b.avail \in Nat
  BY DEF Able, Sound, BlockType
<1>3. DOMAIN T = -1 .. Visible /\ \A r \in Rows : T[r] = BlankRow
  <2>1. \A r \in Rows : r \in -1 .. Visible
    BY VisibleType DEF Rows
  <2> QED
    BY <1>1, <2>1 DEF Erased
<1>4. Ready(b, ls, T, to, 0)
  <2>1. ASSUME NEW r \in Rows, NEW j \in Int, j = b.pos + r
        PROVE  /\ j > b.avail => T[r] = BlankRow /\ ~(r >= 0 /\ j <= to)
               /\ j <= b.avail /\ ~Lost(b, j) =>
                    IF r >= 0 /\ j <= to THEN HoldsPart(T[r], ls[j]) ELSE Shows(b, ls, j, T[r])
    <3>1. to = IF b.pos + Visible - 1 <= b.avail THEN b.pos + Visible - 1 ELSE b.avail
      BY <1>1 DEF LastLine, Least
    <3>2. r \in Nat /\ r >= 0 /\ r <= Visible - 1
      BY VisibleType DEF Rows
    <3>3. j > b.avail => ~(j <= to)
      BY <1>2, <3>1, VisibleType
    <3>4. j <= b.avail => j <= to
      BY <1>2, <2>1, <3>1, <3>2, VisibleType
    <3> QED
      BY <1>3, <3>2, <3>3, <3>4, BlankHolds
  <2> QED
    BY <2>1 DEF Ready
<1>5. Pic(DrawLines(b, T, b.pos, to, 0), b, ls, b.pos, b.avail, 0, TRUE)
  <2>1. b.pos = b.pos + 0 /\ 0 \in Int
    BY <1>2
  <2> QED
    BY <1>3, <1>4, <2>1, LinesDrawn
<1> QED
  BY <1>1, <1>5 DEF DrawAll

(* The view went back: what was in it moves down, the rest is drawn. *)
LEMMA BackDrawn ==
  ASSUME NEW b, NEW ls, NEW T, NEW lp, NEW la, NEW f, NEW n, NEW settled,
         Caught(b, ls, T, lp, la, f, n, settled),
         NEW back, back = lp - b.pos, back > 0, back < Visible
  PROVE  Pic(DrawLines(b, Moved(T, -back), b.pos, b.pos + back, 0), b, ls, b.pos, b.avail, 0, TRUE)
<1>1. /\ b.pos \in Nat /\ b.avail \in Nat /\ lp \in Nat /\ la \in Nat /\ f \in 0 .. 1
      /\ n \in 0 .. 1 /\ f <= n /\ b.avail + f = la + n /\ back \in Int /\ settled \in BOOLEAN
  BY DEF Caught, Able, Sound, BlockType
<1>2. settled
  <2>1. SUFFICES ASSUME ~settled PROVE FALSE
    BY <1>1
  <2>2. ~b.scrolling /\ lp = Follow(la)
    BY <1>1, <2>1 DEF Caught
  <2>3. b.pos = Follow(b.avail)
    BY <2>2 DEF Caught, Able, Sound, View, Follow
  <2>4. la <= b.avail
    BY <1>1
  <2> QED
    BY <1>1, <2>2, <2>3, <2>4, VisibleType DEF Follow
<1>3. lp <= b.avail
  BY <1>2 DEF Caught
<1>4. PICK U : U = Moved(T, -back)
  OBVIOUS
<1>5. DOMAIN U = -1 .. Visible
  BY <1>4 DEF Caught, Moved
<1>6. Ready(b, ls, U, b.pos + back, 0)
  <2>1. ASSUME NEW r \in Rows, NEW j \in Int, j = b.pos + r
        PROVE  /\ j > b.avail => U[r] = BlankRow /\ ~(r >= 0 /\ j <= b.pos + back)
               /\ j <= b.avail /\ ~Lost(b, j) =>
                    IF r >= 0 /\ j <= b.pos + back THEN HoldsPart(U[r], ls[j])
                    ELSE Shows(b, ls, j, U[r])
    <3>1. r \in Nat /\ r >= 0 /\ r <= Visible - 1
      BY VisibleType DEF Rows
    <3>2. PICK h : h = r - back
      OBVIOUS
    <3>3. U[r] = IF h \in Rows THEN T[h] ELSE BlankRow
      <4>1. r \in -1 .. Visible /\ r + (-back) = h
        BY <1>1, <3>1, <3>2, VisibleType
      <4> QED
        BY <1>4, <4>1 DEF Moved, Caught
    <3>4. CASE r >= back
      <4>1. h \in Rows /\ j = lp + h
        BY <1>1, <2>1, <3>1, <3>2, <3>4, VisibleType DEF Rows
      <4>2. /\ j > b.avail => T[h] = BlankRow
            /\ j <= b.avail /\ ~Lost(b, j) =>
                 HoldsPart(T[h], ls[j]) /\ Shows(b, ls, j, T[h])
        BY <1>2, <4>1, CaughtRow
      <4>4. j > b.avail => ~(j <= b.pos + back)
        BY <1>1, <1>3
      <4> QED
        BY <3>3, <4>1, <4>2, <4>4
    <3>5. CASE ~(r >= back)
      <4>1. h \notin Rows /\ j <= b.pos + back /\ ~(j > b.avail)
        BY <1>1, <1>3, <2>1, <3>1, <3>2, <3>5 DEF Rows
      <4> QED
        BY <3>1, <3>3, <4>1, BlankHolds
    <3> QED
      BY <3>4, <3>5
  <2> QED
    BY <2>1 DEF Ready
<1>7. b.pos = b.pos + 0 /\ 0 \in Int /\ Able(b, ls)
  BY <1>1 DEF Caught
<1>8. PICK to : to = b.pos + back
  OBVIOUS
<1>9. Pic(DrawLines(b, U, b.pos, to, 0), b, ls, b.pos, b.avail, 0, TRUE)
  BY <1>5, <1>6, <1>7, <1>8, LinesDrawn
<1> QED
  BY <1>4, <1>8, <1>9

(* It went on: what is still in it moves up, its last line is drawn again. *)
LEMMA OnDrawn ==
  ASSUME NEW b, NEW ls, NEW T, NEW lp, NEW la, NEW f, NEW n, NEW settled,
         Caught(b, ls, T, lp, la, f, n, settled),
         NEW k, k = b.pos - lp, k > 0, k < Visible,
         NEW y, y = Visible - k - 1, NEW first, first = b.pos + y
  PROVE  Pic(DrawLines(b, Moved(T, k), first, LastLine(b), y), b, ls, b.pos, b.avail, 0, TRUE)
<1>1. /\ b.pos \in Nat /\ b.avail \in Nat /\ lp \in Nat /\ la \in Nat /\ f \in 0 .. 1
      /\ n \in 0 .. 1 /\ f <= n /\ b.avail + f = la + n /\ k \in Int /\ settled \in BOOLEAN
      /\ lp >= 1
  <2>1. /\ lp \in Nat /\ la \in Nat /\ f \in 0 .. 1 /\ n \in 0 .. 1 /\ f <= n
        /\ b.avail + f = la + n /\ settled \in BOOLEAN /\ lp >= 1 /\ Sound(b)
    BY DEF Caught, Able
  <2>2. b.pos \in Nat /\ b.avail \in Nat
    BY <2>1 DEF Sound, BlockType
  <2> QED
    BY <2>1, <2>2
<1>2. ~settled => la - f = b.avail - 1 /\ k = 1 /\ b.pos = b.avail - Visible + 1
  <2>1. SUFFICES ASSUME ~settled PROVE la - f = b.avail - 1 /\ k = 1 /\ b.pos = b.avail - Visible + 1
    OBVIOUS
  <2>2. ~b.scrolling /\ lp = Follow(la)
    BY <1>1, <2>1 DEF Caught
  <2>3. b.pos = Follow(b.avail)
    BY <2>2 DEF Caught, Able, Sound, View, Follow
  <2>4. la # b.avail
    BY <1>1, <2>2, <2>3
  <2>5. n = 1 /\ f = 0 /\ b.avail = la + 1
    BY <1>1, <2>4
  <2> QED
    BY <1>1, <2>2, <2>3, <2>5, VisibleType DEF Follow
<1>3. PICK U, to : U = Moved(T, k) /\ to = LastLine(b)
  OBVIOUS
<1>4. DOMAIN U = -1 .. Visible
  BY <1>3 DEF Caught, Moved
<1>5. Ready(b, ls, U, to, y)
  <2>1. ASSUME NEW r \in Rows, NEW j \in Int, j = b.pos + r
        PROVE  /\ j > b.avail => U[r] = BlankRow /\ ~(r >= y /\ j <= to)
               /\ j <= b.avail /\ ~Lost(b, j) =>
                    IF r >= y /\ j <= to THEN HoldsPart(U[r], ls[j])
                    ELSE Shows(b, ls, j, U[r])
    <3>1. r \in Nat /\ r >= 0 /\ r <= Visible - 1
      BY VisibleType DEF Rows
    <3>2. to = IF b.pos + Visible - 1 <= b.avail THEN b.pos + Visible - 1 ELSE b.avail
      BY <1>3 DEF LastLine, Least
    <3>3. (j > b.avail => ~(j <= to)) /\ (j <= b.avail => j <= to)
      BY <1>1, <2>1, <3>1, <3>2, VisibleType
    <3>4. PICK h : h = r + k
      OBVIOUS
    <3>5. U[r] = IF h \in Rows THEN T[h] ELSE BlankRow
      <4>1. r \in -1 .. Visible
        BY <3>1, VisibleType
      <4> QED
        BY <1>3, <3>4, <4>1 DEF Moved, Caught
    <3>6. CASE h \in Rows
      <4>1. j = lp + h
        BY <1>1, <2>1, <3>1, <3>4
      <4>2. /\ j > b.avail => T[h] = BlankRow
            /\ j <= b.avail /\ ~Lost(b, j) =>
                 /\ HoldsPart(T[h], ls[j])
                 /\ settled \/ j < la - f => Shows(b, ls, j, T[h])
        BY <3>6, <4>1, CaughtRow
      <4>3. ~(r >= y) => settled \/ j < la - f
        BY <1>1, <1>2, <2>1, <3>1, VisibleType
      <4> QED
        BY <3>3, <3>5, <3>6, <4>2, <4>3
    <3>7. CASE h \notin Rows
      <4>1. r >= y
        BY <1>1, <3>1, <3>4, <3>7, VisibleType DEF Rows
      <4> QED
        BY <3>3, <3>5, <3>7, <4>1, BlankHolds
    <3> QED
      BY <3>6, <3>7
  <2> QED
    BY <2>1 DEF Ready
<1>6. Able(b, ls) /\ y \in Int
  BY <1>1, VisibleType DEF Caught
<1>7. Pic(DrawLines(b, U, first, to, y), b, ls, b.pos, b.avail, 0, TRUE)
  BY <1>4, <1>5, <1>6, LinesDrawn
<1> QED
  BY <1>3, <1>7

(* It stayed: the lines from some line y on are drawn, which is before the *)
(* last one that was there already.                                        *)
LEMMA StillDrawn ==
  ASSUME NEW b, NEW ls, NEW T, NEW lp, NEW la, NEW f, NEW n, NEW settled,
         Caught(b, ls, T, lp, la, f, n, settled), lp = b.pos,
         NEW y \in Int, NEW first, first = b.pos + y, first < la - f \/ y <= 0
  PROVE  Pic(DrawLines(b, T, first, LastLine(b), y), b, ls, b.pos, b.avail, 0, TRUE)
<1>1. /\ b.pos \in Nat /\ b.avail \in Nat /\ la \in Nat /\ f \in 0 .. 1
      /\ n \in 0 .. 1 /\ b.avail + f = la + n /\ f <= n
  BY DEF Caught, Able, Sound, BlockType
<1>3. PICK to : to = LastLine(b)
  OBVIOUS
<1>5. Ready(b, ls, T, to, y)
  <2>1. ASSUME NEW r \in Rows, NEW j \in Int, j = b.pos + r
        PROVE  /\ j > b.avail => T[r] = BlankRow /\ ~(r >= y /\ j <= to)
               /\ j <= b.avail /\ ~Lost(b, j) =>
                    IF r >= y /\ j <= to THEN HoldsPart(T[r], ls[j])
                    ELSE Shows(b, ls, j, T[r])
    <3>1. r \in Nat /\ r >= 0 /\ r <= Visible - 1
      BY VisibleType DEF Rows
    <3>2. to = IF b.pos + Visible - 1 <= b.avail THEN b.pos + Visible - 1 ELSE b.avail
      BY <1>3 DEF LastLine, Least
    <3>3. (j > b.avail => ~(j <= to)) /\ (j <= b.avail => j <= to)
      BY <1>1, <2>1, <3>1, <3>2, VisibleType
    <3>4. /\ j > b.avail => T[r] = BlankRow
          /\ j <= b.avail /\ ~Lost(b, j) =>
               /\ HoldsPart(T[r], ls[j])
               /\ settled \/ j < la - f => Shows(b, ls, j, T[r])
      BY <2>1, CaughtRow
    <3>5. ~(r >= y) => j < la - f
      BY <1>1, <2>1, <3>1
    <3> QED
      BY <3>3, <3>4, <3>5
  <2> QED
    BY <2>1 DEF Ready
<1>6. Able(b, ls) /\ DOMAIN T = -1 .. Visible
  BY DEF Caught
<1>7. Pic(DrawLines(b, T, first, to, y), b, ls, b.pos, b.avail, 0, TRUE)
  BY <1>5, <1>6, LinesDrawn
<1> QED
  BY <1>3, <1>7

(* After new text and after a scroll, output_dump comes to the picture     *)
(* that drawing everything gives.                                          *)
LEMMA NewDrawn ==
  ASSUME NEW b, NEW ls, NEW f, NEW n, NEW settled, DOMAIN screen = -1 .. Visible,
         Caught(b, ls, CaughtUp(screen), last.pos, last.avail, f, n, settled)
  PROVE  Pic(DrawNew(b), b, ls, b.pos, b.avail, 0, TRUE)
<1> DEFINE back == last.pos - b.pos
           keepheight == Visible - (b.pos - last.pos)
           old == last.avail - b.pos - 1
<1>1. PICK T, lp, la : T = CaughtUp(screen) /\ lp = last.pos /\ la = last.avail
  OBVIOUS
<1>2. Caught(b, ls, T, lp, la, f, n, settled)
  BY <1>1
<1>3. /\ b.pos \in Nat /\ b.avail \in Nat /\ lp \in Nat /\ la \in Nat /\ f \in 0 .. 1
      /\ n \in 0 .. 1 /\ b.avail + f = la + n /\ f <= n /\ Able(b, ls) /\ b.pos >= 1
  BY <1>2 DEF Caught, Able, Sound, BlockType, View
<1>4. back = lp - b.pos /\ keepheight = Visible - (b.pos - lp) /\ old = la - b.pos - 1
  BY <1>1
<1>5. CASE back >= Visible \/ keepheight <= 0
  <2>1. DrawNew(b) = DrawAll(b)
    BY <1>5 DEF DrawNew
  <2> QED
    BY <1>3, <2>1, AllDrawn
<1>6. CASE ~(back >= Visible \/ keepheight <= 0) /\ back > 0
  <2>1. DrawNew(b) = DrawLines(b, Moved(T, -back), b.pos, b.pos + back, 0)
    BY <1>1, <1>6 DEF DrawNew
  <2>2. PICK k : k = back
    OBVIOUS
  <2>3. k = lp - b.pos /\ k > 0 /\ k < Visible
    BY <1>3, <1>4, <1>6, <2>2, VisibleType
  <2> HIDE DEF back, keepheight, old
  <2>4. Pic(DrawLines(b, Moved(T, -k), b.pos, b.pos + k, 0), b, ls, b.pos, b.avail, 0, TRUE)
    BY <1>2, <2>3, BackDrawn
  <2> QED
    BY <2>1, <2>2, <2>4
<1>7. CASE ~(back >= Visible \/ keepheight <= 0) /\ back < 0
  <2>1. DrawNew(b) = DrawLines(b, Moved(T, -back), b.pos + keepheight - 1, LastLine(b), keepheight - 1)
    <3>1. ~(back > 0)
      BY <1>3, <1>4, <1>7
    <3> QED
      BY <1>1, <1>7, <3>1 DEF DrawNew
  <2>2. PICK k, y, first : k = -back /\ y = keepheight - 1 /\ first = b.pos + keepheight - 1
    OBVIOUS
  <2>3. k = b.pos - lp /\ k > 0 /\ k < Visible /\ y = Visible - k - 1 /\ first = b.pos + y
    <3>1. PICK p, v, h : p = b.pos /\ v = Visible /\ h = keepheight
      OBVIOUS
    <3>2. /\ p \in Nat /\ lp \in Nat /\ v \in Nat /\ h = v - (p - lp) /\ back = lp - p
          /\ ~(back >= v) /\ ~(h <= 0) /\ back < 0
      BY <1>1, <1>3, <1>4, <1>7, <3>1, VisibleType
    <3>3. k = -back /\ y = h - 1 /\ first = p + h - 1
      BY <2>2, <3>1
    <3> HIDE DEF back, keepheight, old
    <3>4. k = p - lp /\ k > 0 /\ k < v /\ y = v - k - 1 /\ first = p + y
      BY <3>2, <3>3
    <3> QED
      BY <3>1, <3>4
  <2> HIDE DEF back, keepheight, old
  <2>4. Pic(DrawLines(b, Moved(T, k), first, LastLine(b), y), b, ls, b.pos, b.avail, 0, TRUE)
    BY <1>2, <2>3, OnDrawn
  <2> QED
    BY <2>1, <2>2, <2>4
<1>8. CASE ~(back >= Visible \/ keepheight <= 0) /\ back = 0 /\ b.pos + old - 1 < 1
  <2>1. DrawNew(b) = DrawLines(b, T, 1, LastLine(b), 0)
    BY <1>1, <1>8 DEF DrawNew
  <2>2. b.pos = 1 /\ lp = b.pos
    <3>1. la <= 2
      BY <1>3, <1>4, <1>8
    <3>2. b.avail <= Visible
      BY <1>3, <3>1, VisibleType
    <3>3. b.pos <= 1
      BY <1>3, <3>2 DEF Able, PosBound
    <3> QED
      BY <1>3, <1>4, <1>8, <3>3
  <2>3. 1 = b.pos + 0 /\ 0 \in Int /\ 0 <= 0
    BY <2>2
  <2> HIDE DEF back, keepheight, old
  <2>4. Pic(DrawLines(b, T, 1, LastLine(b), 0), b, ls, b.pos, b.avail, 0, TRUE)
    BY <1>2, <2>2, <2>3, StillDrawn
  <2> QED
    BY <2>1, <2>4
<1>9. CASE ~(back >= Visible \/ keepheight <= 0) /\ back = 0 /\ ~(b.pos + old - 1 < 1)
  <2>1. DrawNew(b) = DrawLines(b, T, b.pos + old - 1, LastLine(b), old - 1)
    BY <1>1, <1>9 DEF DrawNew
  <2>2. PICK y, first : y = old - 1 /\ first = b.pos + old - 1
    OBVIOUS
  <2>3. y \in Int /\ first = b.pos + y /\ first < la - f /\ lp = b.pos
    <3>1. PICK p, h : p = b.pos /\ h = old
      OBVIOUS
    <3>2. /\ p \in Nat /\ lp \in Nat /\ la \in Nat /\ f \in 0 .. 1
          /\ h = la - p - 1 /\ lp - p = 0
      BY <1>3, <1>4, <1>9, <3>1
    <3>3. y = h - 1 /\ first = p + h - 1
      BY <2>2, <3>1
    <3> HIDE DEF back, keepheight, old
    <3>4. y \in Int /\ first = p + y /\ first < la - f /\ lp = p
      BY <3>2, <3>3
    <3> QED
      BY <3>1, <3>4
  <2> HIDE DEF back, keepheight, old
  <2>4. Pic(DrawLines(b, T, first, LastLine(b), y), b, ls, b.pos, b.avail, 0, TRUE)
    BY <1>2, <2>3, StillDrawn
  <2> QED
    BY <2>1, <2>2, <2>4
<1>10. back \in Int
  BY <1>3, <1>4
<1> HIDE DEF back, keepheight, old
<1>11. back > 0 \/ back < 0 \/ back = 0
  BY <1>10
<1> QED
  BY <1>5, <1>6, <1>7, <1>8, <1>9, <1>11

-----------------------------------------------------------------------------
(* No two lines were started between two drawings, none was lost while the *)
(* user was scrolled back, and the store is still that of the picture.     *)
Steady == ~torn /\ news <= 1 /\ ~(fifoed > 0 /\ block.scrolling)

(* What the counters say of the last drawing, and what it left.            *)
Count ==
  /\ fifoed \in Nat /\ news \in Nat /\ fifoed <= news /\ news <= Visible
  /\ last.pos \in Nat /\ last.pos >= 1 /\ last.avail \in Nat
  /\ adding = NoShow => news = 0 /\ last = [pos |-> block.pos, avail |-> block.avail]
  /\ news <= 1 => block.avail + fifoed = last.avail + news
  /\ fifoed > 0 => block.avail = MaxLines
  /\ last.pos = IF block.scrolling THEN block.pos ELSE Follow(last.avail)

(* After every call the picture is one of the stored lines, and while      *)
(* one goes on, of those that were there at the last drawing.  Nothing is  *)
(* said of it while a full drawing is due.                                 *)
PicInv ==
  /\ adding = NoShow => Idle
  /\ block.made /\ ~torn =>
       /\ Count
       /\ Steady => Pic(screen, block, lines, last.pos, last.avail, fifoed, adding = NoShow)

(* Then what was noted of a drawing is what the counters say.              *)
LEMMA PicNoted ==
  ASSUME NEW b, Sound(b)
  PROVE  /\ b.pos \in Nat /\ b.pos >= 1 /\ b.avail \in Nat /\ b.pos <= b.avail
         /\ b.pos = IF b.scrolling THEN b.pos ELSE Follow(b.avail)
BY DEF Sound, BlockType, View, Follow

(* A store that keeps its lines keeps what was written. *)
LEMMA StaysSame ==
  ASSUME NEW b, NEW c, NEW ls, NEW left, Told(b, ls, left), Keeps(b, c, 0)
  PROVE  Stays(b, c, ls, ls, 0)
<1>1. ASSUME NEW i \in 1 .. c.avail, NEW j \in 1 .. b.avail, j = i + 0, OfText(c, c.tab[i - 1])
      PROVE  Begun(ls[j], ls[i]) /\ (j < b.avail => ls[i] = ls[j])
  <2>1. i = j
    BY <1>1
  <2>2. OfText(b, b.tab[j - 1])
    BY <1>1 DEF Keeps
  <2>3. ls[j] \in Seq(Streams)
    BY <2>2, ToldType
  <2>4. Begun(ls[j], ls[j])
    BY <2>3, BegunJoin
  <2> QED
    BY <2>1, <2>4
<1> QED
  BY <1>1 DEF Stays

(* What a store that is laid out can draw. *)
LEMMA AbleNow == IInv /\ LineInv /\ MarginInv /\ block.made /\ Idle => Able(block, lines)
BY DEF IInv, BlockSound, LineInv, MarginInv, Idle, NoJob, Able

(* A block that is there tells the lines of the history.                   *)
LEMMA ToldNow == LineInv /\ block.made => Told(block, lines, job.left)
BY DEF LineInv

(* New text. *)
LEMMA AddPic ==
  ASSUME IInv, LineInv, MarginInv, PicInv, ~torn, NEW stream \in Streams, NEW n \in Pieces,
         NEW feed \in BOOLEAN, AddChunk(stream, n, feed)
  PROVE  PicInv'
<1>1. /\ Store(stream, n, feed) /\ block.made /\ UNCHANGED <<fifoed, screen, last, news, torn>>
      /\ lines' = lines /\ adding' = [stream |-> stream, more |-> feed]
  BY DEF AddChunk, Store
<1>2. LineInv' /\ Keeps(block, block', 0) /\ Idle /\ ~Idle'
  BY <1>1, StoreLine
<1>3. /\ block'.made /\ block'.pos = block.pos /\ block'.avail = block.avail
      /\ block'.scrolling = block.scrolling
  BY <1>1, StoreView
<1>4. adding' # NoShow
  BY <1>1, StoreAssumption DEF StoreAssumption, NoShow
<1>5. Count'
  <2>1. Count
    BY <1>1 DEF PicInv
  <2> QED
    BY <1>1, <1>3, <1>4, <2>1 DEF Count
<1>6. Steady' => Steady
  BY <1>1, <1>3 DEF Steady
<1>7. ASSUME Steady
      PROVE  Pic(screen, block', lines, last.pos, last.avail, fifoed, FALSE)
  <2>1. PICK settled, c : settled = (adding = NoShow) /\ c = block'
    OBVIOUS
  <2>2. Pic(screen, block, lines, last.pos, last.avail, fifoed, settled)
    BY <1>1, <1>7, <2>1 DEF PicInv
  <2>3. Told(block, lines, job.left)
    BY <1>1, ToldNow
  <2>4. PICK more : Told(c, lines, more)
    BY <1>1, <1>2, <1>3, <2>1 DEF LineInv
  <2>5. Stays(block, c, lines, lines, 0)
    BY <1>2, <2>1, <2>3, StaysSame
  <2>6. /\ last.pos \in Int /\ last.avail \in Int /\ fifoed \in Nat
        /\ block.avail \in Nat /\ c.avail \in Nat /\ last.avail <= block.avail + fifoed
        /\ 0 \in Nat /\ fifoed = fifoed + 0
    BY <1>1, <1>3, <1>7, <2>1 DEF PicInv, Count, Steady, IInv, BlockSound, Sound, BlockType
  <2>7. Pic(screen, c, lines, last.pos, last.avail, fifoed, FALSE)
    BY <2>2, <2>3, <2>4, <2>5, <2>6, PicMoves
  <2> QED
    BY <2>1, <2>7
<1> QED
  BY <1>1, <1>4, <1>5, <1>6, <1>7 DEF PicInv

(* A line started. *)
LEMMA CountedPic ==
  ASSUME IInv, LineInv, PicInv, ~torn, ~Idle, block.made, Counted, LineInv', block'.made,
         Held(block, block'), NEW lost, lost = IF block.avail = MaxLines THEN 1 ELSE 0,
         block'.avail = block.avail + 1 - lost, Stays(block, block', lines, lines', lost)
  PROVE  PicInv'
<1>1. Count /\ adding # NoShow /\ adding' = adding /\ screen' = screen /\ last' = last /\ torn' = torn
  BY DEF PicInv, Counted
<1>2. /\ fifoed' = IF block.avail = MaxLines THEN Least(fifoed + 1, Visible) ELSE fifoed
      /\ news' = Least(news + 1, Visible)
  BY DEF Counted
<1>3. PICK f, g, m, n, a, c : /\ f = fifoed /\ g = fifoed' /\ m = news /\ n = news'
                              /\ a = block.avail /\ c = block'
  OBVIOUS
<1>4. /\ f \in Nat /\ m \in Nat /\ f <= m /\ m <= Visible
      /\ g = (IF a = MaxLines THEN IF f + 1 <= Visible THEN f + 1 ELSE Visible ELSE f)
      /\ n = (IF m + 1 <= Visible THEN m + 1 ELSE Visible)
      /\ a \in Nat /\ MaxLines \in Nat /\ c.avail = a + 1 - lost /\ lost \in 0 .. 1
      /\ lost = (IF a = MaxLines THEN 1 ELSE 0)
  BY <1>1, <1>2, <1>3, StoreAssumption
  DEF Count, Least, IInv, BlockSound, Sound, BlockType, StoreAssumption
<1>5. /\ last.pos \in Nat /\ last.pos >= 1 /\ last.avail \in Nat
      /\ (m <= 1 => a + f = last.avail + m) /\ (f > 0 => a = MaxLines)
      /\ last.pos = IF block.scrolling THEN block.pos ELSE Follow(last.avail)
  BY <1>1, <1>3 DEF Count
<1>6. g \in Nat /\ n \in Nat /\ g <= n /\ n <= Visible /\ (g > 0 => c.avail = MaxLines)
  <2>1. Visible \in Nat
    BY VisibleType
  <2> QED
    BY <1>4, <1>5, <2>1
<1>7. n <= 1 => m = 0 /\ f = 0 /\ n = 1 /\ g = lost /\ a = last.avail
  BY <1>4, <1>5, VisibleType
<1>8. last.pos = IF c.scrolling THEN c.pos ELSE Follow(last.avail)
  BY <1>3, <1>5 DEF Held
<1>11. /\ c.avail \in Nat /\ (n <= 1 => c.avail + g = last.avail + n)
       /\ lost \in Nat /\ a \in Nat
  <2>1. PICK x, z : x = c.avail /\ z = last.avail
    OBVIOUS
  <2>2. x = a + 1 - lost /\ a \in Nat /\ lost \in 0 .. 1 /\ g \in Nat /\ n \in Nat /\ z \in Nat
    BY <1>4, <1>5, <1>6, <2>1, Zenon
  <2>3. n <= 1 => n = 1 /\ g = lost /\ a = z
    BY <1>7, <2>1, Zenon
  <2>4. x \in Nat /\ (n <= 1 => x + g = z + n) /\ lost \in Nat
    BY <2>2, <2>3
  <2> QED
    BY <2>1, <2>2, <2>4
<1>9. Count'
  <2>1. n <= 1 => c.avail + g = last.avail + n
    BY <1>11
  <2> QED
    BY <1>1, <1>3, <1>5, <1>6, <1>8, <2>1 DEF Count
<1>10. ASSUME Steady'
       PROVE  Pic(screen, c, lines', last.pos, last.avail, g, FALSE)
  <2>1. n <= 1 /\ ~torn
    BY <1>1, <1>3, <1>10 DEF Steady
  <2>2. Steady
    BY <1>3, <1>7, <2>1 DEF Steady
  <2>3. Pic(screen, block, lines, last.pos, last.avail, 0, FALSE)
    BY <1>1, <1>3, <1>7, <2>1, <2>2 DEF PicInv
  <2>4. Told(block, lines, job.left)
    BY ToldNow
  <2>5. PICK ms : ms = lines'
    OBVIOUS
  <2>6. PICK more : Told(c, ms, more)
    BY <1>3, <2>5 DEF LineInv
  <2>7. Stays(block, c, lines, ms, lost)
    BY <1>3, <2>5
  <2>8. /\ last.pos \in Int /\ last.avail \in Int /\ 0 \in Nat /\ lost \in Nat
        /\ block.avail \in Nat /\ c.avail \in Nat /\ last.avail <= block.avail + 0 /\ g = 0 + lost
    <3>1. PICK z : z = last.avail
      OBVIOUS
    <3>2. z \in Nat /\ a \in Nat /\ a = z /\ g = lost /\ lost \in Nat
      BY <1>5, <1>7, <1>11, <2>1, <3>1
    <3>3. z \in Int /\ z <= a + 0 /\ 0 \in Nat /\ g = 0 + lost
      BY <3>2
    <3>4. last.pos \in Int
      BY <1>5
    <3> QED
      BY <1>3, <1>11, <3>1, <3>3, <3>4
  <2>9. Pic(screen, c, ms, last.pos, last.avail, g, FALSE)
    BY <2>3, <2>4, <2>6, <2>7, <2>8, PicMoves
  <2> QED
    BY <2>5, <2>9
<1> QED
  BY <1>1, <1>3, <1>9, <1>10 DEF PicInv

(* A wrapped line.                                                         *)
LEMMA WrapPic ==
  ASSUME IInv, BoundInv, LineInv, MarginInv, PicInv, ~torn, WrapLine
  PROVE  PicInv'
<1>1. Wrap /\ Counted /\ ~Idle
  BY DEF WrapLine, Wrap
<1>2. block.made
  BY <1>1 DEF IInv, JobSound
<1>3. block'.made /\ Held(block, block')
  BY <1>1, <1>2, WrapView DEF MarginInv
<1>4. PICK lost : lost = IF block.avail = MaxLines THEN 1 ELSE 0
  OBVIOUS
<1>5. /\ LineInv' /\ Stays(block, block', lines, lines', lost)
      /\ block'.avail = block.avail + 1 - lost
  BY <1>1, <1>4, WrapLineInv
<1> QED
  BY <1>1, <1>2, <1>3, <1>4, <1>5, CountedPic

(* The end of a text.                                                      *)
LEMMA FinishPic ==
  ASSUME IInv, BoundInv, LineInv, MarginInv, PicInv, ~torn, FinishChunk
  PROVE  PicInv'
<1>1. Finish /\ ~Idle
  BY DEF FinishChunk, Finish
<1>2. block.made
  BY <1>1 DEF IInv, JobSound
<1>3. block'.made /\ Held(block, block')
  BY <1>1, <1>2, FinishView DEF MarginInv
<1>4. PICK lost : lost = IF LastChunk(block).feed /\ block.avail = MaxLines THEN 1 ELSE 0
  OBVIOUS
<1>5. /\ LineInv' /\ Stays(block, block', lines, lines', lost) /\ Idle'
      /\ block'.avail = IF LastChunk(block).feed THEN block.avail + 1 - lost ELSE block.avail
  BY <1>1, <1>4, FinishLineInv
<1>6. CASE LastChunk(block).feed
  <2>1. Counted
    BY <1>6 DEF FinishChunk
  <2>2. /\ lost = IF block.avail = MaxLines THEN 1 ELSE 0
        /\ block'.avail = block.avail + 1 - lost
    BY <1>4, <1>5, <1>6
  <2> QED
    BY <1>1, <1>2, <1>3, <1>5, <2>1, <2>2, CountedPic
<1>7. CASE ~LastChunk(block).feed
  <2>1. UNCHANGED <<fifoed, adding, screen, last, news, torn>>
    BY <1>7 DEF FinishChunk
  <2>2. lost = 0 /\ block'.avail = block.avail
    BY <1>4, <1>5, <1>7
  <2>3. Count /\ adding # NoShow
    BY <1>1, <1>2 DEF PicInv
  <2>4. Count'
    BY <1>3, <2>1, <2>2, <2>3 DEF Count, Held
  <2>5. Steady' => Steady
    BY <1>3, <2>1 DEF Steady, Held
  <2>6. ASSUME Steady
        PROVE  Pic(screen, block', lines', last.pos, last.avail, fifoed, FALSE)
    <3>1. PICK ms, c : ms = lines' /\ c = block'
      OBVIOUS
    <3>2. Pic(screen, block, lines, last.pos, last.avail, fifoed, FALSE)
      BY <1>2, <2>3, <2>6 DEF PicInv
    <3>3. Told(block, lines, job.left)
      BY <1>2, ToldNow
    <3>4. PICK more : Told(c, ms, more)
      BY <1>3, <1>5, <3>1 DEF LineInv
    <3>5. Stays(block, c, lines, ms, 0)
      BY <1>5, <2>2, <3>1
    <3>6. /\ last.pos \in Int /\ last.avail \in Int /\ fifoed \in Nat
          /\ block.avail \in Nat /\ c.avail \in Nat /\ last.avail <= block.avail + fifoed
          /\ 0 \in Nat /\ fifoed = fifoed + 0
      BY <1>2, <2>2, <2>3, <2>6, <3>1 DEF Count, Steady, IInv, BlockSound, Sound, BlockType
    <3>7. Pic(screen, c, ms, last.pos, last.avail, fifoed, FALSE)
      BY <3>2, <3>3, <3>4, <3>5, <3>6, PicMoves
    <3> QED
      BY <3>1, <3>7
  <2> QED
    BY <2>1, <2>3, <2>4, <2>5, <2>6 DEF PicInv
<1> QED
  BY <1>6, <1>7

(* A picture of the view is one of every store with the same lines. *)
LEMMA SamePic ==
  ASSUME NEW b, NEW c, SameStore(b, c), NEW scr, NEW ls, NEW lp, NEW la, NEW f, NEW settled,
         Pic(scr, b, ls, lp, la, f, settled)
  PROVE  Pic(scr, c, ls, lp, la, f, settled)
<1>1. \A i : (Lost(c, i) <=> Lost(b, i)) /\ (Full(c, i) <=> Full(b, i))
  <2>1. \A i : Lost(c, i) <=> Lost(b, i)
    BY SameLaid
  <2>2. \A i : Full(c, i) <=> Full(b, i)
    BY DEF SameStore, Full
  <2> QED
    BY <2>1, <2>2
<1>2. c.avail = b.avail
  BY DEF SameStore
<1>3. ASSUME NEW y \in Rows, NEW j \in Int, j = lp + y
      PROVE  PicRow(c, ls, j, la, f, settled, scr[y])
  <2>1. PicRow(b, ls, j, la, f, settled, scr[y])
    BY <1>3 DEF Pic
  <2> QED
    BY <1>1, <1>2, <2>1 DEF PicRow
<1> QED
  BY <1>3 DEF Pic

(* A drawing of the view, noted, keeps the invariant. *)
LEMMA NotedPic ==
  ASSUME NEW b, b = block', b.made => Sound(b), adding' = NoShow, Idle', b.made => Noted(b),
         (b.made /\ ~torn') => Pic(screen', b, lines', b.pos, b.avail, 0, TRUE)
  PROVE  PicInv'
<1>1. CASE ~b.made
  BY <1>1 DEF PicInv
<1>2. CASE b.made
  <2>1. /\ last' = [pos |-> b.pos, avail |-> b.avail] /\ fifoed' = 0 /\ news' = 0
        /\ b.pos \in Nat /\ b.pos >= 1 /\ b.avail \in Nat
        /\ b.pos = IF b.scrolling THEN b.pos ELSE Follow(b.avail)
    BY <1>2, PicNoted DEF Noted
  <2>2. last'.pos = b.pos /\ last'.avail = b.avail
    BY <2>1
  <2>3. Count'
    <3>1. b.avail + 0 = b.avail + 0 /\ 0 <= 0 /\ 0 <= Visible /\ ~(0 > 0) /\ 0 \in Nat
      BY VisibleType
    <3> QED
      BY <2>1, <2>2, <3>1 DEF Count
  <2>4. Steady' => ~torn'
    BY DEF Steady
  <2> QED
    BY <1>2, <2>1, <2>2, <2>3, <2>4 DEF PicInv
<1> QED
  BY <1>1, <1>2

(* The drawing after new text.                                             *)
LEMMA RefreshPic ==
  ASSUME IInv, LineInv, MarginInv, PicInv, ~torn, Refresh
  PROVE  PicInv'
<1>1. /\ adding # NoShow /\ Idle /\ screen' = DrawNew(block) /\ Noted(block)
      /\ adding' = NoShow /\ torn' = (torn \/ news > 1 \/ (fifoed > 0 /\ block.scrolling))
      /\ UNCHANGED vars
  BY DEF Refresh
<1>2. block.made /\ block' = block /\ lines' = lines /\ Idle' /\ Sound(block)
  BY <1>1 DEF MarginInv, vars, Idle, IInv, BlockSound
<1>3. ASSUME ~torn'
      PROVE  Pic(DrawNew(block), block, lines, block.pos, block.avail, 0, TRUE)
  <2>1. Count /\ fifoed \in Nat /\ news \in Nat
    BY <1>2 DEF PicInv, Count
  <2>2. Steady
    <3>1. ~torn /\ ~(news > 1) /\ ~(fifoed > 0 /\ block.scrolling)
      BY <1>1, <1>3, Zenon
    <3>2. news <= 1
      BY <2>1, <3>1
    <3> QED
      BY <3>1, <3>2 DEF Steady
  <2>3. news \in 0 .. 1 /\ fifoed \in 0 .. 1 /\ fifoed <= news
    BY <2>1, <2>2 DEF Steady, Count
  <2>4. PICK lp, la, n : lp = last.pos /\ la = last.avail /\ n = news
    OBVIOUS
  <2>5. /\ lp \in Nat /\ lp >= 1 /\ la \in Nat /\ block.avail + fifoed = la + n /\ n \in 0 .. 1
        /\ lp = IF block.scrolling THEN block.pos ELSE Follow(la)
    BY <2>1, <2>2, <2>3, <2>4 DEF Count, Steady
  <2>6. Pic(screen, block, lines, lp, la, fifoed, FALSE)
    BY <1>1, <1>2, <2>2, <2>4 DEF PicInv
  <2>7. DOMAIN screen = -1 .. Visible
    BY DEF MarginInv, Framed
  <2>8. fifoed = 1 => lp + Visible > la
    <3>1. fifoed = 1 => lp = Follow(la)
      BY <2>2, <2>5 DEF Steady
    <3> QED
      BY <2>5, <3>1, VisibleType DEF Follow
  <2>9. PICK d : d = la - fifoed
    OBVIOUS
  <2>10. Pic(CaughtUp(screen), block, lines, lp, d, 0, FALSE) /\ DOMAIN CaughtUp(screen) = -1 .. Visible
    <3>1. lp \in Int /\ la \in Int
      BY <2>5
    <3> QED
      BY <2>3, <2>6, <2>7, <2>8, <2>9, <3>1, CaughtUpPic
  <2>11. Able(block, lines)
    BY <1>1, <1>2, AbleNow
  <2>12. Caught(block, lines, CaughtUp(screen), lp, la, fifoed, n, FALSE)
    <3>1. FALSE \in BOOLEAN /\ fifoed <= n
      BY <2>3, <2>4
    <3> QED
      BY <2>3, <2>5, <2>9, <2>10, <2>11, <3>1 DEF Caught
  <2> QED
    BY <2>4, <2>7, <2>12, NewDrawn
<1>4. PICK b : b = block
  OBVIOUS
<1>5. Noted(b) /\ (~torn' => Pic(screen', b, lines', b.pos, b.avail, 0, TRUE))
  BY <1>1, <1>2, <1>3, <1>4
<1> QED
  BY <1>1, <1>2, <1>4, <1>5, NotedPic

(* The drawing after a scroll.                                             *)
LEMMA ScrollPic ==
  ASSUME IInv, LineInv, MarginInv, PicInv, ~torn, NEW k \in 1 .. MaxLines, ScrollLines(k),
         LineInv', MarginInv'
  PROVE  PicInv'
<1>1. /\ adding = NoShow /\ Scroll(k) /\ screen' = DrawNew(block') /\ Noted(block')
      /\ adding' = NoShow /\ torn' = torn
  BY DEF ScrollLines
<1>2. /\ block.made /\ Idle /\ Sound(block) /\ Sound(block') /\ SameStore(block, block')
      /\ job' = job /\ lines' = lines /\ block'.made
  BY <1>1, ScrollSame
<1>3. Idle'
  BY <1>2 DEF Idle
<1>4. PICK c : c = block'
  OBVIOUS
<1>5. Able(c, lines)
  <2>1. PosBound(c)
    BY <1>2, <1>4 DEF MarginInv
  <2>2. Tidy(c) /\ Told(c, lines, 0) /\ Ends(c, Len(c.chunks))
    BY <1>2, <1>3, <1>4 DEF LineInv, Idle, NoJob
  <2> QED
    BY <1>2, <1>4, <2>1, <2>2 DEF Able
<1>6. ASSUME ~torn
      PROVE  Pic(DrawNew(c), c, lines, c.pos, c.avail, 0, TRUE)
  <2>1. Count /\ news = 0 /\ fifoed = 0 /\ last = [pos |-> block.pos, avail |-> block.avail]
    <3>1. Count /\ news = 0 /\ fifoed \in Nat /\ fifoed <= news
          /\ last = [pos |-> block.pos, avail |-> block.avail]
      BY <1>1, <1>2 DEF PicInv, Count
    <3> QED
      BY <3>1
  <2>2. Steady
    BY <1>6, <2>1 DEF Steady
  <2>3. PICK lp, la : lp = last.pos /\ la = last.avail
    OBVIOUS
  <2>4. lp = block.pos /\ la = block.avail /\ la = c.avail
    BY <1>2, <1>4, <2>1, <2>3 DEF SameStore
  <2>5. lp \in Nat /\ lp >= 1 /\ la \in Nat /\ lp <= la
    <3>1. PICK b : b = block
      OBVIOUS
    <3>2. Sound(b)
      BY <1>2, <3>1
    <3> QED
      BY <2>4, <3>1, <3>2, PicNoted
  <2>6. Pic(screen, c, lines, lp, la, fifoed, TRUE)
    <3>1. Pic(screen, block, lines, lp, la, fifoed, TRUE)
      BY <1>1, <1>2, <2>2, <2>3 DEF PicInv
    <3> QED
      BY <1>2, <1>4, <3>1, SamePic
  <2>7. DOMAIN screen = -1 .. Visible
    BY DEF MarginInv, Framed
  <2>8. fifoed \in 0 .. 1 /\ (fifoed = 1 => lp + Visible > la)
    BY <2>1
  <2>9. PICK d : d = la - fifoed
    OBVIOUS
  <2>10. Pic(CaughtUp(screen), c, lines, lp, d, 0, TRUE) /\ DOMAIN CaughtUp(screen) = -1 .. Visible
    <3>1. lp \in Int /\ la \in Int
      BY <2>5
    <3> QED
      BY <2>6, <2>7, <2>8, <2>9, <3>1, CaughtUpPic
  <2>12. Caught(c, lines, CaughtUp(screen), lp, la, fifoed, 0, TRUE)
    <3>1. TRUE \in BOOLEAN /\ fifoed <= 0 /\ 0 \in 0 .. 1 /\ c.avail + fifoed = la + 0 /\ lp <= c.avail
      BY <2>1, <2>4, <2>5
    <3> QED
      BY <1>5, <2>5, <2>8, <2>9, <2>10, <3>1 DEF Caught
  <2> QED
    BY <2>3, <2>7, <2>12, NewDrawn
<1>7. Noted(c) /\ (~torn' => Pic(screen', c, lines', c.pos, c.avail, 0, TRUE)) /\ Sound(c)
  BY <1>1, <1>2, <1>4, <1>6
<1> QED
  BY <1>1, <1>3, <1>4, <1>7, NotedPic

(* The drawing of everything.                                              *)
LEMMA RedrawPic ==
  ASSUME IInv, LineInv, MarginInv, PicInv, Redraw
  PROVE  PicInv'
<1>1. /\ block.made /\ adding = NoShow /\ screen' = DrawAll(block) /\ Noted(block)
      /\ block' = block /\ lines' = lines /\ job' = job /\ adding' = NoShow
  BY DEF Redraw, vars
<1>2. Idle /\ Idle' /\ Sound(block)
  BY <1>1 DEF PicInv, Idle, IInv, BlockSound
<1>3. Able(block, lines) /\ DOMAIN screen = -1 .. Visible
  BY <1>1, <1>2, AbleNow DEF MarginInv, Framed
<1>4. Pic(DrawAll(block), block, lines, block.pos, block.avail, 0, TRUE)
  BY <1>3, AllDrawn
<1>5. PICK b : b = block
  OBVIOUS
<1>6. Noted(b) /\ Pic(screen', b, lines', b.pos, b.avail, 0, TRUE)
  BY <1>1, <1>4, <1>5
<1> QED
  BY <1>1, <1>2, <1>5, <1>6, NotedPic

(* An empty store, and nothing on the gadget. *)
LEMMA BlankPic ==
  ASSUME NEW scr, \A r \in Rows : scr[r] = BlankRow
  PROVE  Pic(scr, EmptyBlock, << <<>> >>, EmptyBlock.pos, EmptyBlock.avail, 0, TRUE)
<1>1. EmptyBlock.avail = 1 /\ EmptyBlock.pos = 1
  BY DEF EmptyBlock
<1>2. RowOf(<<>>) = BlankRow
  <2>1. \A x \in Columns : ~(x <= Len(<<>>))
    BY StoreAssumption DEF StoreAssumption, Columns
  <2>2. RowOf(<<>>) = [x \in Columns |-> BlankRow[x]]
    BY <2>1 DEF RowOf, Over
  <2> QED
    BY <2>2 DEF BlankRow
<1>3. PICK ls : ls = << <<>> >>
  OBVIOUS
<1>4. ls[1] = <<>>
  BY <1>3
<1>5. ASSUME NEW y \in Rows, NEW j \in Int, j = EmptyBlock.pos + y
      PROVE  PicRow(EmptyBlock, ls, j, EmptyBlock.avail, 0, TRUE, scr[y])
  <2>1. \A i \in 1 .. EmptyBlock.avail : ls[i] = <<>>
    BY <1>1, <1>4
  <2> QED
    BY <1>2, <2>1, BlankHolds DEF PicRow
<1> QED
  BY <1>3, <1>5 DEF Pic

(* The output is erased, and the gadget with it.                           *)
LEMMA ErasePic ==
  ASSUME MarginInv, EraseAll, IInv'
  PROVE  PicInv'
<1>1. /\ adding = NoShow /\ adding' = NoShow /\ Idle /\ job' = job
      /\ screen' = Erased(screen, Rows) /\ (block'.made => Noted(block'))
      /\ \/ block' = EmptyBlock /\ lines' = << <<>> >>
         \/ block' = NoBlock
  BY DEF EraseAll, Clear
<1>2. Idle'
  BY <1>1 DEF Idle
<1>3. PICK b : b = block'
  OBVIOUS
<1>4. (b.made => Sound(b)) /\ (b.made => Noted(b))
  BY <1>1, <1>3 DEF IInv, BlockSound
<1>5. b.made => Pic(screen', b, lines', b.pos, b.avail, 0, TRUE)
  <2>1. CASE b = NoBlock
    BY <2>1 DEF NoBlock
  <2>2. CASE b = EmptyBlock /\ lines' = << <<>> >>
    <3>1. PICK scr : scr = screen'
      OBVIOUS
    <3>2. \A r \in Rows : scr[r] = BlankRow
      <4>1. \A r \in Rows : r \in DOMAIN screen
        BY VisibleType DEF Rows, MarginInv, Framed
      <4> QED
        BY <1>1, <3>1, <4>1 DEF Erased
    <3> QED
      BY <2>2, <3>1, <3>2, BlankPic
  <2> QED
    BY <1>1, <1>3, <2>1, <2>2
<1> QED
  BY <1>1, <1>2, <1>3, <1>4, <1>5, NotedPic

(* While a full drawing is due, nothing but the calls that end matters.    *)
LEMMA TornPic ==
  ASSUME torn', adding' = NoShow => Idle'
  PROVE  PicInv'
BY DEF PicInv

(* The store is cleared under the picture.                                 *)
LEMMA ClearPic ==
  ASSUME ClearAll
  PROVE  PicInv'
<1>1. torn' /\ Idle /\ job' = job
  BY DEF ClearAll, Clear
<1>2. Idle'
  BY <1>1 DEF Idle
<1> QED
  BY <1>1, <1>2, TornPic

(* Only a full drawing ends that time.                                     *)
LEMMA StillTorn ==
  ASSUME PicInv, torn,
         \/ \E stream \in Streams, n \in Pieces, feed \in BOOLEAN : AddChunk(stream, n, feed)
         \/ WrapLine \/ FinishChunk \/ Refresh
         \/ \E k \in 1 .. MaxLines : ScrollLines(k)
  PROVE  PicInv'
<1>1. ASSUME NEW stream \in Streams, NEW n \in Pieces, NEW feed \in BOOLEAN,
             AddChunk(stream, n, feed)
      PROVE  PicInv'
  <2>1. adding' # NoShow /\ torn'
    BY <1>1, StoreAssumption DEF AddChunk, StoreAssumption, NoShow
  <2> QED
    BY <2>1, TornPic
<1>2. CASE WrapLine \/ FinishChunk
  <2>1. ~Idle /\ adding' = adding /\ torn'
    BY <1>2 DEF WrapLine, FinishChunk, Wrap, Finish, Counted
  <2>2. adding' # NoShow
    BY <2>1 DEF PicInv
  <2> QED
    BY <2>1, <2>2, TornPic
<1>3. CASE Refresh
  <2>1. torn' /\ Idle /\ job' = job
    BY <1>3 DEF Refresh, vars
  <2>2. Idle'
    BY <2>1 DEF Idle
  <2> QED
    BY <2>1, <2>2, TornPic
<1>4. ASSUME NEW k \in 1 .. MaxLines, ScrollLines(k)
      PROVE  PicInv'
  <2>1. torn' /\ Idle /\ job' = job
    BY <1>4 DEF ScrollLines, Scroll
  <2>2. Idle'
    BY <2>1 DEF Idle
  <2> QED
    BY <2>1, <2>2, TornPic
<1> QED
  BY <1>1, <1>2, <1>3, <1>4

(* PicInv holds when the program starts.                                   *)
LEMMA InitPic == ScreenInit => PicInv
<1> SUFFICES ASSUME ScreenInit PROVE PicInv
  OBVIOUS
<1>1. /\ Idle /\ fifoed = 0 /\ news = 0 /\ adding = NoShow /\ screen = BlankScreen
      /\ last = [pos |-> block.pos, avail |-> block.avail]
      /\ (block = EmptyBlock /\ lines = << <<>> >>) \/ block = NoBlock
  BY DEF ScreenInit, Init, Idle
<1>2. CASE block = NoBlock
  BY <1>1, <1>2 DEF PicInv, NoBlock
<1>3. CASE block = EmptyBlock /\ lines = << <<>> >>
  <2>1. /\ block.pos \in Nat /\ block.pos >= 1 /\ block.avail \in Nat
        /\ block.pos = IF block.scrolling THEN block.pos ELSE Follow(block.avail)
    <3>1. PICK b : b = block
      OBVIOUS
    <3>2. Sound(b)
      BY <1>3, <3>1, EmptySound
    <3> QED
      BY <3>1, <3>2, PicNoted
  <2>2. last.pos = block.pos /\ last.avail = block.avail
    BY <1>1
  <2>3. Count
    <3>1. 0 <= 0 /\ 0 <= Visible /\ ~(0 > 0) /\ 0 \in Nat
      BY VisibleType
    <3> QED
      BY <1>1, <2>1, <2>2, <3>1 DEF Count
  <2>4. Pic(screen, block, lines, last.pos, last.avail, 0, TRUE)
    <3>1. \A r \in Rows : BlankScreen[r] = BlankRow
      BY VisibleType DEF Rows, BlankScreen
    <3> QED
      BY <1>1, <1>3, <2>2, <3>1, BlankPic
  <2> QED
    BY <1>1, <2>3, <2>4 DEF PicInv
<1> QED
  BY <1>1, <1>2, <1>3

(* PicInv is kept by every step of OutputScreen.                           *)
LEMMA NextPic ==
  ASSUME IInv, BoundInv, LineInv, MarginInv, PicInv, [ScreenNext]_screenVars,
         IInv', LineInv', MarginInv'
  PROVE  PicInv'
<1>1. ASSUME NEW stream \in Streams, NEW n \in Pieces, NEW feed \in BOOLEAN,
             AddChunk(stream, n, feed)
      PROVE  PicInv'
  BY <1>1, AddPic, StillTorn
<1>2. CASE WrapLine
  BY <1>2, WrapPic, StillTorn
<1>3. CASE FinishChunk
  BY <1>3, FinishPic, StillTorn
<1>4. CASE Refresh
  BY <1>4, RefreshPic, StillTorn
<1>5. ASSUME NEW k \in 1 .. MaxLines, ScrollLines(k) PROVE PicInv'
  BY <1>5, ScrollPic, StillTorn
<1>6. CASE Redraw
  BY <1>6, RedrawPic
<1>7. CASE EraseAll
  BY <1>7, ErasePic
<1>8. CASE ClearAll
  BY <1>8, ClearPic
<1>9. CASE UNCHANGED screenVars
  BY <1>9 DEF screenVars, vars, PicInv, Count, Steady, Idle
<1> QED
  BY <1>1, <1>2, <1>3, <1>4, <1>5, <1>6, <1>7, <1>8, <1>9 DEF ScreenNext

(* Then the rows show their lines. *)
LEMMA PicRows == MarginInv /\ PicInv => RowsShown
<1> SUFFICES ASSUME MarginInv, PicInv, block.made, adding = NoShow
             PROVE  /\ Margins
                    /\ ~torn => \A y \in Rows :
                         block.pos + y <= block.avail /\ Drawable(block.pos + y)
                           => screen[y] = Wanted(y)
  BY DEF RowsShown
<1>1. Margins
  BY DEF MarginInv, Framed, Margins
<1>2. ASSUME ~torn, NEW y \in Rows, block.pos + y <= block.avail, Drawable(block.pos + y)
      PROVE  screen[y] = Wanted(y)
  <2>1. /\ news = 0 /\ fifoed \in Nat /\ fifoed <= news
        /\ last = [pos |-> block.pos, avail |-> block.avail] /\ last.pos \in Nat /\ last.pos >= 1
        /\ last.avail \in Nat
    BY <1>2 DEF PicInv, Count
  <2>2. fifoed = 0 /\ last.pos = block.pos /\ last.avail = block.avail
    BY <2>1
  <2>3. Steady
    BY <1>2, <2>1, <2>2 DEF Steady
  <2>4. Pic(screen, block, lines, block.pos, block.avail, 0, TRUE)
    BY <1>2, <2>2, <2>3 DEF PicInv
  <2>5. PICK i : i = block.pos + y
    OBVIOUS
  <2>6. i \in 1 .. block.avail /\ i \in Int /\ i = i + 0 /\ i <= block.avail
    BY <1>2, <2>1, <2>2, <2>5, VisibleType DEF Rows
  <2>7. PicRow(block, lines, i, block.avail, 0, TRUE, screen[y])
    BY <2>4, <2>5, <2>6 DEF Pic
  <2>8. Drawable(i)
    BY <1>2, <2>5
  <2>9. \A k \in 1 .. Len(block.chunks) : \A ref : block.chunks[k].at = ref.chunk
          => block.chunks[k] \in ChunksAt(ref.chunk)
    BY DEF ChunksAt
  <2>10. ~Lost(block, i)
    <3>1. OfText(block, block.tab[i - 1])
      BY <2>8, <2>9 DEF Drawable, OfText
    <3>2. ~Bare(block, block.tab[i])
      BY <2>8, <2>9 DEF Drawable, Bare
    <3> QED
      BY <3>1, <3>2 DEF Lost
  <2>11. Full(block, i)
    <3>1. i < block.avail \/ i = block.avail
      BY <2>1, <2>2, <2>6
    <3> QED
      BY <2>8, <2>9, <3>1 DEF Drawable, Full
  <2>12. screen[y] = RowOf(lines[i])
    BY <2>6, <2>7, <2>10, <2>11 DEF PicRow
  <2>13. RowOf(lines[i]) = Wanted(y)
    <3>1. Wanted(y) = [x \in Columns |-> IF i <= block.avail /\ x <= Len(lines[i])
                                         THEN lines[i][x] ELSE Blank]
      BY <2>5 DEF Wanted
    <3>2. RowOf(lines[i]) = [x \in Columns |-> IF x <= Len(lines[i]) THEN lines[i][x] ELSE Blank]
      BY DEF RowOf, Over, BlankRow
    <3> QED
      BY <2>6, <3>1, <3>2
  <2> QED
    BY <2>12, <2>13
<1> QED
  BY <1>1, <1>2

-----------------------------------------------------------------------------
(* Theorems *)

(* The store behind the gadget is not disturbed by what is drawn from it:  *)
(* with output_dump, output_addchunk and the scrolling are still what      *)
(* OutputStore says, and every theorem about the store holds of them.      *)
THEOREM DrawingKeepsStore == ScreenSpec => Spec
<1>1. ScreenInit => Init
  BY DEF ScreenInit
<1> QED
  BY <1>1, StoreStep, PTL DEF ScreenSpec, Spec

(* output_dump draws no line above or below the gadget, over other objects *)
(* of the form, although it draws the last line it knew once more and      *)
(* takes where that is from static variables, which may still be those of  *)
(* a store that was replaced.                                              *)
THEOREM MarginsStayClear == ScreenSpec => []Margins
<1>1. MarginInv => Margins
  BY DEF MarginInv, Framed, Margins
<1>2. IInv /\ MarginInv /\ [ScreenNext]_screenVars => (IInv /\ MarginInv)'
  BY StoreStep, NextInv, NextMargin
<1> QED
  BY <1>1, <1>2, InitMargin, PTL DEF ScreenSpec

(* The gadget shows what was written, row by row, and blanks behind the    *)
(* end, although output_dump moves the picture by the lines that came and  *)
(* went since the last drawing, clears what that uncovers and draws only   *)
(* the new lines, all from static variables, and takes the text of a line  *)
(* from chunks whose flags and columns were set when it was laid out: it   *)
(* comes to the same as drawing every line again, as long as no two lines  *)
(* were started between two drawings, none was lost while the user was     *)
(* scrolled back, and no update is due to a store that was replaced under  *)
(* the picture; and even then nothing is drawn off the gadget, and the     *)
(* full drawing of the update makes all rows right again.                  *)
THEOREM ViewDrawn == ScreenSpec => []RowsShown
<1> DEFINE AllInv == IInv /\ BoundInv /\ LineInv /\ MarginInv /\ PicInv
<1>1. ScreenInit => AllInv
  BY InitInv, InitBound, InitLineInv, InitMargin, InitPic DEF ScreenInit
<1>2. AllInv /\ [ScreenNext]_screenVars => AllInv'
  <2> SUFFICES ASSUME AllInv, [ScreenNext]_screenVars PROVE AllInv'
    OBVIOUS
  <2>1. [Next]_vars
    BY StoreStep
  <2>2. IInv' /\ BoundInv' /\ LineInv'
    BY <2>1, NextInv, NextBound, NextLineInv
  <2>3. MarginInv'
    BY NextMargin
  <2>4. PicInv'
    BY <2>2, <2>3, NextPic
  <2> QED
    BY <2>2, <2>3, <2>4
<1>3. AllInv => RowsShown
  BY PicRows
<1> QED
  BY <1>1, <1>2, <1>3, PTL DEF ScreenSpec
=============================================================================
