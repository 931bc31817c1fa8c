----------------------------- MODULE OutputStore -----------------------------
(***************************************************************************)
(* The store behind the output gadget of palmapp.c: one movable memory     *)
(* block that starts with a table of contents (the HEAD chunk), holds a    *)
(* chain of text chunks and ends with a terminator chunk.  The table of    *)
(* contents says where each of the last max_lines screen lines starts.     *)
(* Text is appended, screen lines that fall out of the history take the    *)
(* chunks nobody refers to any more with them, and the user scrolls.       *)
(*                                                                         *)
(* Positions, lengths and the growth of the block are the bytes of the     *)
(* code.  A character is as wide as a column and is known by the stream it *)
(* came from; y coordinates, which only ever follow the line count, colors *)
(* and fonts are left out, and so are line_flags, which nothing reads, and *)
(* count_lines_fifoed, which only the drawing reads.                       *)
(*                                                                         *)
(* output_addchunk is a loop over the screen lines it starts: here it is   *)
(* one step that stores the text (Store), one for each line wrap (Wrap)    *)
(* and one for the end of the text and the release of old chunks (Finish). *)
(* Nothing else happens between them.                                      *)
(***************************************************************************)
EXTENDS Integers, Sequences, FiniteSets

CONSTANTS
  Streams,    (* OCT_STDIN, OCT_STDOUT, OCT_STDERR                          *)
  OCT_TERM,   (* chunk type 0                                               *)
  MaxLines,   (* preferences.output.maxlines when the store is made         *)
  Width,      (* columns of the gadget                                      *)
  Visible,    (* screen lines of the gadget: count_lines_visible            *)
  Pieces      (* lengths of the text of one call, without its newline       *)

ASSUME StoreAssumption ==
  /\ MaxLines \in Nat \ {0}
  /\ Width \in Nat \ {0}
  /\ Visible \in Nat \ {0}
  /\ Pieces \subseteq Nat
  /\ OCT_TERM \notin Streams

(* The length of a text is a UInt32, and the text lies in memory. *)
ASSUME PiecesAssumption == \E n \in Pieces : \A m \in Pieces : m <= n

VARIABLES
  block,   (* the memory block, NoBlock while there is none                 *)
  job,     (* what output_addchunk still has to lay out                     *)
  lines,   (* history: the last MaxLines screen lines as they were written  *)
  hit      (* history: the last chunk has lost its header                   *)

vars == <<block, job, lines, hit>>

-----------------------------------------------------------------------------
(* Layout of the block *)

HeadLength == 72 + 12 * MaxLines             \* OUTPUT_CHUNK_LENGTH_TOC
TextLength(n) == ((34 + n + 3) \div 4) * 4   \* OUTPUT_CHUNK_LENGTH_TEXT on m68k
TermLength == 12                             \* OUTPUT_CHUNK_LENGTH_TERMINATOR
RoundedUp(n) == ((n + 255) \div 256) * 256   \* OUTPUT_CHUNK_LIST_CHUNKSIZE

Ref(chunk, char) == [chunk |-> chunk, char |-> char]
NoRef == Ref(0, 0)

(* The text chunks stand in the order of their positions. *)
EmptyBlock ==
  [made |-> TRUE,
   total |-> RoundedUp(HeadLength + TermLength),
   free |-> RoundedUp(HeadLength + TermLength) - (HeadLength + TermLength),
   chunks |-> <<>>, lastdata |-> 0, term |-> HeadLength,
   tab |-> [i \in 0 .. MaxLines |-> IF i = 0 THEN Ref(HeadLength, 0) ELSE NoRef],
   avail |-> 1, pos |-> 1, scrolling |-> FALSE]

NoBlock ==
  [made |-> FALSE, total |-> 0, free |-> 0, chunks |-> <<>>, lastdata |-> 0, term |-> 0,
   tab |-> [i \in 0 .. MaxLines |-> NoRef], avail |-> 0, pos |-> 0, scrolling |-> FALSE]

NoJob == [at |-> 0, x |-> 0, done |-> 0, left |-> 0, feed |-> FALSE]
Idle == job = NoJob

LastChunk(b) == b.chunks[Len(b.chunks)]

(* output_clear: output_done, then output_init, which may find no memory *)
Clear ==
  /\ Idle
  /\ \/ block' = EmptyBlock /\ lines' = << <<>> >>
     \/ block' = NoBlock /\ lines' = <<>>
  /\ hit' = FALSE
  /\ UNCHANGED job

-----------------------------------------------------------------------------
(* output_addchunk: make room, then extend the last chunk or add a new one *)

(* Mutant: the block grows although there is room. *)
Resized_Always(b, minadd) ==
  [b EXCEPT !.total = @ + RoundedUp(minadd), !.free = @ + RoundedUp(minadd)]

(* output_resize for "minadd" bytes; when it fails the text is dropped and *)
(* nothing changes.                                                        *)
Resized(b, minadd) ==
  IF minadd >= b.free
  THEN [b EXCEPT !.total = @ + RoundedUp(minadd), !.free = @ + RoundedUp(minadd)]
  ELSE b

(* offset_lastdata leads to a chunk that still looks like text. *)
LastIsText(b) == b.lastdata # 0 /\ LastChunk(b).type \in Streams

(* Mutant: text joins a chunk that ends its line. *)
Extendable_AfterFeed(b, stream, n) ==
  /\ LastIsText(b)
  /\ LastChunk(b).type = stream
  /\ LastChunk(b).length + n <= 128
  /\ ~LastChunk(b).wrap

Extendable(b, stream, n) ==
  /\ LastIsText(b)
  /\ LastChunk(b).type = stream
  /\ LastChunk(b).length + n <= 128
  /\ ~LastChunk(b).feed
  /\ ~LastChunk(b).wrap

(* Where the text of a new chunk goes on.  When the last chunk has lost    *)
(* its header the code reads the position through a NULL pointer: any      *)
(* column may come of it.                                                  *)
StartColumns(b) ==
  IF b.lastdata = 0 THEN {0}
  ELSE IF LastIsText(b) THEN {LastChunk(b).endx} ELSE 0 .. Width

(* Mutant: the length of the added text is charged, not the chunk's growth. *)
Extended_ByText(b, text, feed) ==
  LET old == LastChunk(b)
      length == TextLength(Len(old.text) + Len(text))
  IN  [b EXCEPT !.chunks[Len(b.chunks)] =
                   [old EXCEPT !.length = length, !.text = @ \o text, !.feed = @ \/ feed],
                !.term = @ + (length - old.length), !.free = @ - Len(text)]

(* The new text joins the last chunk, or gets a chunk of its own. *)
Extended(b, text, feed) ==
  LET old == LastChunk(b)
      length == TextLength(Len(old.text) + Len(text))
      grow == length - old.length
  IN  [b EXCEPT !.chunks[Len(b.chunks)] =
                   [old EXCEPT !.length = length, !.text = @ \o text, !.feed = @ \/ feed],
                !.term = @ + grow, !.free = @ - grow]

Added(b, stream, text, feed) ==
  LET length == TextLength(Len(text))
      chunk == [at |-> b.term, type |-> stream, length |-> length, text |-> text,
                feed |-> feed, wrap |-> FALSE, endx |-> 0]
  IN  [b EXCEPT !.chunks = Append(@, chunk), !.lastdata = b.term,
                !.term = @ + length, !.free = @ - length]

Store(stream, n, feed) ==
  LET text == [i \in 1 .. n |-> stream]
      size == IF feed THEN n + 1 ELSE n
      b == Resized(block, size + TextLength(size))
      old == LastChunk(b)
  IN
  /\ block.made /\ Idle
  /\ size > 0
  /\ IF Extendable(b, stream, n)
     THEN /\ block' = Extended(b, text, feed)
          /\ job' = [at |-> b.lastdata, x |-> old.endx, done |-> Len(old.text),
                     left |-> n, feed |-> feed]
     ELSE /\ block' = Added(b, stream, text, feed)
          /\ \E x \in StartColumns(b) :
               job' = [at |-> b.term, x |-> x, done |-> 0, left |-> n, feed |-> feed]
  /\ UNCHANGED <<lines, hit>>

-----------------------------------------------------------------------------
(* output_addchunk: lay out the text *)

(* The table is one line too long: it moves up.  The item that the code    *)
(* clears then is the one behind the table, which is where the header of   *)
(* the first text chunk begins (type, length, flags).                      *)
Overflows(b) == b.avail > MaxLines
Shifted(b) ==
  [b EXCEPT !.tab = [i \in 0 .. MaxLines |-> IF i < MaxLines THEN b.tab[i + 1] ELSE b.tab[i]],
            !.chunks[1] = [@ EXCEPT !.type = OCT_TERM, !.length = 0,
                                    !.feed = FALSE, !.wrap = FALSE],
            !.avail = @ - 1]

(* The view follows the end of the output unless the user has scrolled. *)
Followed(b) ==
  IF ~b.scrolling /\ b.pos + Visible <= b.avail THEN [b EXCEPT !.pos = @ + 1] ELSE b

(* A new screen line starts after "char" characters of the chunk at "at". *)
NewLine(b, at, char) ==
  LET longer == [b EXCEPT !.tab[b.avail] = Ref(at, char), !.avail = @ + 1]
  IN  Followed(IF Overflows(longer) THEN Shifted(longer) ELSE longer)

(* Mutant: offset_lastdata stays where it was. *)
Released_LeavesLast(b) ==
  LET first == CHOOSE i \in DOMAIN b.chunks : b.chunks[i].at = b.tab[0].chunk
      distance == b.tab[0].chunk - HeadLength
  IN  IF distance <= 0 THEN b
      ELSE [b EXCEPT !.chunks = [i \in 1 .. Len(b.chunks) - first + 1 |->
                                   [b.chunks[i + first - 1] EXCEPT !.at = @ - distance]],
                     !.free = @ + distance, !.term = @ - distance,
                     !.tab = [i \in 0 .. MaxLines |->
                                IF b.tab[i].chunk = 0 THEN b.tab[i]
                                ELSE [b.tab[i] EXCEPT !.chunk = @ - distance]]]

(* Mutant: the update of the references stops before the open line. *)
Released_LeavesLine(b) ==
  LET first == CHOOSE i \in DOMAIN b.chunks : b.chunks[i].at = b.tab[0].chunk
      distance == b.tab[0].chunk - HeadLength
  IN  IF distance <= 0 THEN b
      ELSE [b EXCEPT !.chunks = [i \in 1 .. Len(b.chunks) - first + 1 |->
                                   [b.chunks[i + first - 1] EXCEPT !.at = @ - distance]],
                     !.free = @ + distance, !.lastdata = @ - distance, !.term = @ - distance,
                     !.tab = [i \in 0 .. MaxLines |->
                                IF b.tab[i].chunk = 0 \/ i >= b.avail - 1 THEN b.tab[i]
                                ELSE [b.tab[i] EXCEPT !.chunk = @ - distance]]]

(* Chunks before the one the first line starts in are given up. *)
Released(b) ==
  LET first == CHOOSE i \in DOMAIN b.chunks : b.chunks[i].at = b.tab[0].chunk
      distance == b.tab[0].chunk - HeadLength
  IN  IF distance <= 0 THEN b
      ELSE [b EXCEPT !.chunks = [i \in 1 .. Len(b.chunks) - first + 1 |->
                                   [b.chunks[i + first - 1] EXCEPT !.at = @ - distance]],
                     !.free = @ + distance, !.lastdata = @ - distance, !.term = @ - distance,
                     !.tab = [i \in 0 .. MaxLines |->
                                IF b.tab[i].chunk = 0 THEN b.tab[i]
                                ELSE [b.tab[i] EXCEPT !.chunk = @ - distance]]]

(* What a reader of the screen should find: the last line is open, at most *)
(* MaxLines lines are kept.                                                *)
Written(n) ==
  LET text == LastChunk(block).text
  IN  [lines EXCEPT ![Len(lines)] = @ \o [i \in 1 .. n |-> text[job.done + i]]]
Fed(ls) == IF Len(ls) = MaxLines THEN Append(Tail(ls), <<>>) ELSE Append(ls, <<>>)
Hit == block.avail = MaxLines /\ Len(block.chunks) = 1

(* An iteration that leaves text over: the line is full. *)
Wrap ==
  LET fits == Width - job.x
      done == job.done + fits
      wrapped == [block EXCEPT !.chunks[Len(block.chunks)].wrap = TRUE]
  IN
  /\ ~Idle
  /\ job.left > fits
  /\ block' = NewLine(wrapped, job.at, done)
  /\ job' = [job EXCEPT !.x = 0, !.done = done, !.left = @ - fits]
  /\ lines' = Fed(Written(fits))
  /\ hit' = (hit \/ Hit)

(* The last iteration.  The chunk's flag, not the caller's text, says      *)
(* whether a newline follows; then the column is kept for the text to come *)
(* and old chunks are released.                                            *)
Finish ==
  LET feeds == LastChunk(block).feed
      laid == IF feeds THEN NewLine(block, job.at, job.done + job.left) ELSE block
      endx == IF feeds THEN 0 ELSE job.x + job.left
  IN
  /\ ~Idle
  /\ job.left <= Width - job.x
  /\ block' = Released([laid EXCEPT !.chunks[Len(laid.chunks)].endx = endx])
  /\ job' = NoJob
  /\ lines' = IF job.feed THEN Fed(Written(job.left)) ELSE Written(job.left)
  /\ hit' = (hit \/ (feeds /\ Hit))

-----------------------------------------------------------------------------
(* output_scroll_lines, and output_scroll_page in terms of it *)

ScrolledBack(b, k) ==
  [b EXCEPT !.pos = IF k >= @ THEN 1 ELSE @ - k, !.scrolling = TRUE]

(* Mutant: one line short of the end. *)
ScrolledOn_Short(b, k) ==
  LET pos == IF b.pos + k > b.avail THEN b.avail ELSE b.pos + k
  IN  IF pos + Visible > b.avail
      THEN [b EXCEPT !.pos = IF Visible >= b.avail THEN 1 ELSE b.avail - Visible,
                     !.scrolling = FALSE]
      ELSE [b EXCEPT !.pos = pos]

(* Forwards, but not beyond the last line; when the end of the output is   *)
(* in view again, the view follows it again.                               *)
ScrolledOn(b, k) ==
  LET pos == IF b.pos + k > b.avail THEN b.avail ELSE b.pos + k
  IN  IF pos + Visible > b.avail
      THEN [b EXCEPT !.pos = IF Visible > b.avail THEN 1 ELSE b.avail - Visible + 1,
                     !.scrolling = FALSE]
      ELSE [b EXCEPT !.pos = pos]

Scroll(k) ==
  /\ block.made /\ Idle
  /\ k > 0
  /\ \/ block' = ScrolledBack(block, k)
     \/ block' = ScrolledOn(block, k)
  /\ UNCHANGED <<job, lines, hit>>

ScrollPage == Scroll(Visible - 1)

-----------------------------------------------------------------------------
Init ==
  /\ \/ block = EmptyBlock /\ lines = << <<>> >>
     \/ block = NoBlock /\ lines = <<>>
  /\ job = NoJob
  /\ hit = FALSE

Next ==
  \/ \E stream \in Streams, n \in Pieces, feed \in BOOLEAN : Store(stream, n, feed)
  \/ Wrap
  \/ Finish
  \/ \E k \in 1 .. MaxLines : Scroll(k)
  \/ ScrollPage
  \/ Clear

Spec == Init /\ [][Next]_vars

-----------------------------------------------------------------------------
(* Properties *)

RefType == [chunk : Nat, char : Nat]
ChunkType ==
  [at : Nat, type : Streams \union {OCT_TERM}, length : Nat, text : Seq(Streams),
   feed : BOOLEAN, wrap : BOOLEAN, endx : 0 .. Width]
BlockType ==
  [made : BOOLEAN, total : Nat, free : Nat, chunks : Seq(ChunkType), lastdata : Nat,
   term : Nat, tab : [0 .. MaxLines -> RefType], avail : 0 .. MaxLines,
   pos : 0 .. MaxLines, scrolling : BOOLEAN]
JobType == [at : Nat, x : 0 .. Width, done : Nat, left : Nat, feed : BOOLEAN]

(* Every field has the type its struct in palmapp.c gives it: no count of  *)
(* bytes or lines runs below zero, and no line number out of the table.    *)
TypeOK ==
  /\ block \in BlockType
  /\ job \in JobType
  /\ lines \in Seq(Seq(Streams))
  /\ hit \in BOOLEAN

(* mem_free is exactly what lies behind the terminator chunk: what         *)
(* output_addchunk writes never runs past the end of the block, however    *)
(* chunks grew, joined and were released before.                           *)
Accounted == block.made => block.total = block.term + TermLength + block.free

(* A walk from the first chunk over the lengths of the text chunks meets   *)
(* every chunk where it stands and ends at the terminator; offset_lastdata *)
(* leads to the last of them.                                              *)
ChunkEnd(c) == c.at + TextLength(Len(c.text))
Chained ==
  LET cs == block.chunks
      n == Len(cs)
  IN  block.made =>
        /\ \A i \in 1 .. n :
             /\ cs[i].at = IF i = 1 THEN HeadLength ELSE ChunkEnd(cs[i - 1])
             /\ cs[i].type \in Streams => cs[i].length = TextLength(Len(cs[i].text))
        /\ block.term = IF n = 0 THEN HeadLength ELSE ChunkEnd(cs[n])
        /\ block.lastdata = IF n = 0 THEN 0 ELSE cs[n].at

(* The text of the first k chunks, and what a block holds in front of a    *)
(* place in it.                                                            *)
Texts(cs) ==
  LET text[k \in 0 .. Len(cs)] == IF k = 0 THEN <<>> ELSE text[k - 1] \o cs[k].text
  IN  text
TextBefore(b, chunk) ==
  Texts(b.chunks)[Cardinality({k \in DOMAIN b.chunks : b.chunks[k].at < chunk})]
Offset(b, ref) == Len(TextBefore(b, ref.chunk)) + ref.char
Part(text, from, to) == [j \in 1 .. to - from |-> text[from + j]]
LineText(b, i) ==
  LET text == TextBefore(b, b.term)
  IN  Part(text, Offset(b, b.tab[i - 1]), IF i < b.avail THEN Offset(b, b.tab[i]) ELSE Len(text))

(* Between two calls the table of contents cuts the stored text into the   *)
(* very lines that were written, whatever was joined, wrapped, shifted and *)
(* released -- until one chunk alone fills the whole history, when the     *)
(* header that goes astray is the one still in use.                        *)
HistoryKept == Idle /\ ~hit => lines = [i \in 1 .. block.avail |-> LineText(block, i)]

(* The lines point at chunks that exist, at characters that these hold:    *)
(* none of them is left behind when chunks are released.                   *)
Referenced ==
  \A i \in 0 .. block.avail - 1 :
    LET ref == block.tab[i]
    IN  IF block.chunks = <<>> THEN ref = Ref(block.term, 0)
        ELSE \E c \in {block.chunks[k] : k \in DOMAIN block.chunks} :
               c.at = ref.chunk /\ ref.char <= Len(c.text)

(* However long a program writes, the block grows no further than the      *)
(* lines of the history need: what falls out of it is reclaimed.           *)
Longest == CHOOSE n \in Pieces : \A m \in Pieces : m <= n
Largest == TextLength(Width + Longest)
TotalBound ==
  HeadLength + TermLength + (MaxLines * (Width + 1) + 1) * Largest
    + 2 * RoundedUp(Longest + Largest)
Bounded == block.total <= TotalBound

(* The view always starts at a line that exists, and as long as the user   *)
(* has not scrolled back it shows the end of the output: scrolling back    *)
(* and on again, and lines lost from the history, never strand it.         *)
ViewFollows ==
  block.made =>
    /\ block.pos \in 1 .. block.avail
    /\ ~block.scrolling =>
         block.pos = IF Visible >= block.avail THEN 1 ELSE block.avail - Visible + 1

(* What the comment at palmapp.c:1333 says of an overflow: "clear the new  *)
(* last item".  The items of the table behind the last line are clear.     *)
UnusedCleared == \A i \in block.avail .. MaxLines : block.tab[i] = NoRef
=============================================================================
