------------------------- MODULE OutputStoreProofs -------------------------
(***************************************************************************)
(* Proofs about OutputStore, for every size of table and gadget and every  *)
(* length of text.                                                         *)
(*                                                                         *)
(* Sound(b) says what a block is like between two steps.  The properties   *)
(* of OutputStore are parts of it, but they do not carry themselves: that  *)
(* releasing chunks leaves no count of bytes below zero and no line behind *)
(* needs the order of the chunks (Ahead), the order of the lines, and that *)
(* every line starts in a chunk (Table).  One lemma for each operation     *)
(* shows that it keeps a block sound (...Sound); the invariant adds that   *)
(* the text still to be laid out lies in the last chunk (JobSound), and    *)
(* one lemma for each action shows that it is kept (...Inv).               *)
(*                                                                         *)
(* HistoryInv adds that the table of contents cuts the text into the lines *)
(* as they were written (Cut), up to the end that is not laid out yet.     *)
(* Where a reference leads is counted in characters from the start of the  *)
(* text, so each operator moves, lengthens or shortens the text by a       *)
(* stretch (Displaced, Feeds, Retold) and the lines stay what they were    *)
(* (...Cut); one lemma for each action follows (...History).               *)
(*                                                                         *)
(* BoundInv bounds the block by what lies between two lines (...Close,     *)
(* ...Bound).                                                              *)
(***************************************************************************)
EXTENDS OutputStore, FiniteSetTheorems, WellFoundedInduction, TLAPS

(* Accounted, Chained and ViewFollows, of any block *)

Room(b) == b.total = b.term + TermLength + b.free

Chain(b) ==
  LET cs == b.chunks
      n == Len(cs)
  IN  /\ \A i \in 1 .. n :
           /\ cs[i].at = IF i = 1 THEN HeadLength ELSE ChunkEnd(cs[i - 1])
           /\ cs[i].type \in Streams => cs[i].length = TextLength(Len(cs[i].text))
      /\ b.term = IF n = 0 THEN HeadLength ELSE ChunkEnd(cs[n])
      /\ b.lastdata = IF n = 0 THEN 0 ELSE cs[n].at

(* No chunk reaches into one behind it. *)
Ahead(b) ==
  \A i, j \in 1 .. Len(b.chunks) : i < j => ChunkEnd(b.chunks[i]) <= b.chunks[j].at

(* ref is the place in front of, in or behind the text of a chunk. *)
InChunk(b, ref) ==
  \E k \in 1 .. Len(b.chunks) :
    b.chunks[k].at = ref.chunk /\ ref.char <= Len(b.chunks[k].text)

(* Lines start where there is text, one after the other; an item behind    *)
(* the last line is clear or points behind the start of the first line.    *)
Table(b) ==
  /\ b.avail >= 1
  /\ b.chunks = <<>> => b.avail = 1 /\ b.tab[0] = Ref(HeadLength, 0)
  /\ b.chunks # <<>> => \A i \in 0 .. b.avail - 1 : InChunk(b, b.tab[i])
  /\ \A i, j \in 0 .. b.avail - 1 : i <= j => b.tab[i].chunk <= b.tab[j].chunk
  /\ \A i \in b.avail .. MaxLines : b.tab[i].chunk = 0 \/ b.tab[0].chunk <= b.tab[i].chunk

View(b) ==
  /\ b.pos \in 1 .. b.avail
  /\ ~b.scrolling => b.pos = IF Visible >= b.avail THEN 1 ELSE b.avail - Visible + 1

Sound(b) == b \in BlockType /\ Room(b) /\ Chain(b) /\ Ahead(b) /\ Table(b) /\ View(b)

-----------------------------------------------------------------------------
(* Lengths *)

(* A chunk is longer than its text by its header. *)
LEMMA TextLengthBounds ==
  ASSUME NEW n \in Nat
  PROVE  TextLength(n) \in Nat /\ TextLength(n) >= n + 34
BY DEF TextLength

(* Joined text takes no more than a chunk of its own. *)
LEMMA TextLengthJoin ==
  ASSUME NEW m \in Nat, NEW n \in Nat
  PROVE  TextLength(m + n) - TextLength(m) \in 0 .. TextLength(n)
BY DEF TextLength

(* The block grows by at least what was asked for. *)
LEMMA RoundedUpBounds ==
  ASSUME NEW n \in Nat
  PROVE  RoundedUp(n) \in Nat /\ RoundedUp(n) >= n
BY DEF RoundedUp

LEMMA HeadLengthType == HeadLength \in Nat /\ HeadLength >= 72
BY StoreAssumption DEF StoreAssumption, HeadLength

(* A chunk ends behind its header. *)
LEMMA ChunkEndBounds ==
  ASSUME NEW c \in ChunkType
  PROVE  ChunkEnd(c) \in Nat /\ ChunkEnd(c) >= c.at + 34
<1>1. c.at \in Nat /\ Len(c.text) \in Nat
  BY DEF ChunkType
<1>2. TextLength(Len(c.text)) \in Nat /\ TextLength(Len(c.text)) >= Len(c.text) + 34
  BY <1>1, TextLengthBounds
<1> QED
  BY <1>1, <1>2 DEF ChunkEnd

-----------------------------------------------------------------------------
(* What output_init makes is sound. *)
LEMMA EmptySound == Sound(EmptyBlock)
<1>1. EmptyBlock \in BlockType
  <2>1. <<>> \in Seq(ChunkType)
    OBVIOUS
  <2>2. HeadLength + TermLength \in Nat
    BY HeadLengthType DEF TermLength
  <2>3. RoundedUp(HeadLength + TermLength) - (HeadLength + TermLength) \in Nat
    BY <2>2, RoundedUpBounds
  <2>4. RoundedUp(HeadLength + TermLength) \in Nat
    BY <2>2, RoundedUpBounds
  <2>5. [i \in 0 .. MaxLines |-> IF i = 0 THEN Ref(HeadLength, 0) ELSE NoRef]
          \in [0 .. MaxLines -> RefType]
    BY HeadLengthType DEF RefType, Ref, NoRef
  <2>6. 1 \in 0 .. MaxLines
    BY StoreAssumption DEF StoreAssumption
  <2> QED
    BY <2>1, <2>3, <2>4, <2>5, <2>6, HeadLengthType DEF EmptyBlock, BlockType
<1>2. Room(EmptyBlock)
  <2>1. HeadLength + TermLength \in Nat
    BY HeadLengthType DEF TermLength
  <2> QED
    BY <2>1, RoundedUpBounds, HeadLengthType DEF Room, EmptyBlock, TermLength
<1>3. Chain(EmptyBlock) /\ Ahead(EmptyBlock)
  BY DEF Chain, Ahead, EmptyBlock
<1>4. Table(EmptyBlock)
  BY HeadLengthType, StoreAssumption DEF StoreAssumption, Table, EmptyBlock, Ref, NoRef
<1>5. View(EmptyBlock)
  BY StoreAssumption DEF StoreAssumption, View, EmptyBlock
<1> QED
  BY <1>1, <1>2, <1>3, <1>4, <1>5 DEF Sound

(* Making room changes the room only, and makes enough of it. *)
LEMMA ResizedSound ==
  ASSUME NEW b, Sound(b), NEW minadd \in Nat
  PROVE  LET r == Resized(b, minadd)
         IN  /\ Sound(r) /\ r.free >= minadd
             /\ r.chunks = b.chunks /\ r.lastdata = b.lastdata /\ r.term = b.term
             /\ r.made = b.made
<1>1. CASE minadd < b.free
  <2>1. Resized(b, minadd) = b
    BY <1>1 DEF Resized, Sound, BlockType
  <2> QED
    BY <1>1, <2>1 DEF Sound, BlockType
<1>2. CASE ~(minadd < b.free)
  <2> DEFINE more == RoundedUp(minadd)
             r == [b EXCEPT !.total = b.total + more, !.free = b.free + more]
  <2>1. Resized(b, minadd) = r
    BY <1>2 DEF Resized, Sound, BlockType
  <2>2. more \in Nat /\ more >= minadd
    BY RoundedUpBounds
  <2> HIDE DEF more
  <2>3. /\ r.total = b.total + more /\ r.free = b.free + more
        /\ r.chunks = b.chunks /\ r.lastdata = b.lastdata /\ r.term = b.term
        /\ r.tab = b.tab /\ r.avail = b.avail /\ r.pos = b.pos
        /\ r.scrolling = b.scrolling /\ r.made = b.made
    BY DEF Sound, BlockType
  <2>4. r \in BlockType
    <3>1. b.total + more \in Nat /\ b.free + more \in Nat
      BY <2>2 DEF Sound, BlockType
    <3> QED
      BY <3>1 DEF Sound, BlockType
  <2>5. r.free >= minadd
    BY <2>2, <2>3 DEF Sound, BlockType
  <2>6. Room(r)
    BY <2>2, <2>3 DEF Sound, Room, BlockType, TermLength
  <2> HIDE DEF r
  <2>7. Chain(r) /\ Ahead(r) /\ Table(r) /\ View(r)
    BY <2>3 DEF Sound, Chain, Ahead, Table, View, InChunk
  <2> QED
    BY <2>1, <2>3, <2>4, <2>5, <2>6, <2>7 DEF Sound
<1> QED
  BY <1>1, <1>2

(* Text joins the last chunk. *)
LEMMA ExtendedSound ==
  ASSUME NEW b, Sound(b), NEW stream \in Streams, NEW feed \in BOOLEAN,
         NEW n \in Nat, NEW text \in Seq(Streams), Len(text) = n,
         Extendable(b, stream, n), b.made, b.free >= TextLength(n)
  PROVE  LET e == Extended(b, text, feed)
         IN  /\ Sound(e) /\ e.made
             /\ e.chunks # <<>> /\ e.lastdata = b.lastdata
             /\ Len(LastChunk(e).text) = Len(LastChunk(b).text) + n
<1> DEFINE cs == b.chunks
           len == Len(cs)
           old == cs[len]
           length == TextLength(Len(old.text) + n)
           grow == length - old.length
           new == [old EXCEPT !.length = length, !.text = old.text \o text,
                              !.feed = old.feed \/ feed]
           e == Extended(b, text, feed)
<1>1. /\ cs \in Seq(ChunkType) /\ len \in Nat \ {0} /\ len \in 1 .. len
      /\ old \in ChunkType /\ old.type \in Streams
      /\ b.lastdata = old.at
  <2>1. cs \in Seq(ChunkType) /\ len \in Nat
    BY DEF Sound, BlockType
  <2>2. len # 0
    BY DEF Extendable, LastIsText, Sound, Chain
  <2> QED
    BY <2>1, <2>2 DEF Extendable, LastIsText, LastChunk, Sound, Chain
<1>2. text \in Seq(Streams) /\ Len(text) = n
  OBVIOUS
<1>3. /\ old.text \in Seq(Streams) /\ Len(old.text) \in Nat /\ old.at \in Nat
      /\ old.length \in Nat
  BY <1>1 DEF ChunkType
<1>4. old.length = TextLength(Len(old.text))
  BY <1>1 DEF Sound, Chain
<1>5. length \in Nat /\ grow \in 0 .. TextLength(n)
  <2>1. Len(old.text) + n \in Nat
    BY <1>3
  <2>2. length \in Nat
    BY <2>1, TextLengthBounds
  <2>3. TextLength(Len(old.text) + n) - TextLength(Len(old.text)) \in 0 .. TextLength(n)
    BY <1>3, TextLengthJoin
  <2> QED
    BY <2>2, <2>3, <1>4
<1>6. old.text \o text \in Seq(Streams) /\ Len(old.text \o text) = Len(old.text) + n
  BY <1>2, <1>3, SMTT(60)
<1>7. /\ new \in ChunkType /\ new.at = old.at /\ new.type = old.type
      /\ new.length = length /\ new.text = old.text \o text
  <2>1. (old.feed \/ feed) \in BOOLEAN
    OBVIOUS
  <2> QED
    BY <1>1, <1>5, <1>6, <2>1 DEF ChunkType
<1>8. ChunkEnd(new) = ChunkEnd(old) + grow
  <2>1. ChunkEnd(new) = old.at + length
    BY <1>6, <1>7 DEF ChunkEnd
  <2>2. ChunkEnd(old) = old.at + old.length
    BY <1>4 DEF ChunkEnd
  <2> HIDE DEF new, length
  <2> QED
    BY <2>1, <2>2, <1>3, <1>5, SMTT(60)
<1>9. /\ e.made = b.made /\ e.total = b.total /\ e.free = b.free - grow
      /\ e.chunks = [cs EXCEPT ![len] = new]
      /\ e.lastdata = b.lastdata /\ e.term = b.term + grow /\ e.tab = b.tab
      /\ e.avail = b.avail /\ e.pos = b.pos /\ e.scrolling = b.scrolling
  BY <1>2 DEF Sound, BlockType, Extended, LastChunk
<1>e. e = [b EXCEPT !.chunks = [cs EXCEPT ![len] = new],
                    !.term = b.term + grow, !.free = b.free - grow]
  BY <1>2 DEF Sound, BlockType, Extended, LastChunk
<1> HIDE DEF e, new, grow, length
<1>10. /\ e.chunks \in Seq(ChunkType) /\ Len(e.chunks) = len
       /\ \A i \in 1 .. len : e.chunks[i] = IF i = len THEN new ELSE cs[i]
  BY <1>1, <1>7, <1>9
<1>11. LastChunk(e) = new
  BY <1>1, <1>10 DEF LastChunk
<1>12. b.free \in Nat /\ b.term \in Nat /\ b.total \in Nat
  BY DEF Sound, BlockType
<1>13. e \in BlockType
  <2>1. b.free - grow \in Nat
    <3>1. TextLength(n) \in Nat
      BY TextLengthBounds
    <3> QED
      BY <3>1, <1>5, <1>12
  <2>2. b.term + grow \in Nat
    BY <1>5, <1>12
  <2>3. [cs EXCEPT ![len] = new] \in Seq(ChunkType)
    BY <1>9, <1>10
  <2> QED
    BY <2>1, <2>2, <2>3, <1>e DEF Sound, BlockType
<1>14. Room(e)
  <2>1. b.total = b.term + TermLength + b.free
    BY DEF Sound, Room
  <2>2. grow \in Int
    BY <1>5
  <2>3. e.total = b.total /\ e.free = b.free - grow /\ e.term = b.term + grow
    BY <1>9
  <2> QED
    BY <2>1, <2>2, <2>3, <1>12, SMTT(60) DEF Room, TermLength
<1>15. Chain(e)
  <2>1. \A i \in 1 .. len :
          /\ cs[i].at = IF i = 1 THEN HeadLength ELSE ChunkEnd(cs[i - 1])
          /\ cs[i].type \in Streams => cs[i].length = TextLength(Len(cs[i].text))
    BY DEF Sound, Chain
  <2>2. ASSUME NEW i \in 1 .. len
        PROVE  /\ e.chunks[i].at = IF i = 1 THEN HeadLength ELSE ChunkEnd(e.chunks[i - 1])
               /\ e.chunks[i].type \in Streams
                    => e.chunks[i].length = TextLength(Len(e.chunks[i].text))
    <3>1. e.chunks[i].at = cs[i].at
      BY <1>7, <1>10
    <3>2. i # 1 => e.chunks[i - 1] = cs[i - 1]
      BY <1>1, <1>10
    <3>3. new.length = TextLength(Len(new.text))
      BY <1>6, <1>7 DEF length
    <3> QED
      BY <1>10, <2>1, <3>1, <3>2, <3>3
  <2>3. e.term = ChunkEnd(new)
    BY <1>1, <1>8, <1>9 DEF Sound, Chain
  <2>4. e.lastdata = new.at
    BY <1>1, <1>7, <1>9
  <2> QED
    BY <1>1, <1>10, <2>2, <2>3, <2>4 DEF Chain
<1>16. Ahead(e)
  <2>1. ASSUME NEW i \in 1 .. len, NEW j \in 1 .. len, i < j
        PROVE  ChunkEnd(e.chunks[i]) <= e.chunks[j].at
    <3>1. e.chunks[i] = cs[i] /\ e.chunks[j].at = cs[j].at
      BY <1>1, <1>7, <1>10, <2>1
    <3> QED
      BY <2>1, <3>1 DEF Sound, Ahead
  <2> QED
    BY <1>10, <2>1 DEF Ahead
<1>17. Table(e)
  <2>1. cs # <<>> /\ e.chunks # <<>>
    BY <1>1, <1>10
  <2>2. ASSUME NEW ref \in RefType, InChunk(b, ref)
        PROVE  InChunk(e, ref)
    <3>1. PICK k \in 1 .. len : cs[k].at = ref.chunk /\ ref.char <= Len(cs[k].text)
      BY <2>2 DEF InChunk
    <3>2. Len(new.text) >= Len(old.text)
      BY <1>3, <1>6, <1>7
    <3>3. e.chunks[k].at = ref.chunk /\ ref.char <= Len(e.chunks[k].text)
      <4>1. CASE k = len
        <5>1. e.chunks[k] = new
          BY <1>10, <4>1
        <5>2. ref.char \in Nat /\ Len(new.text) \in Nat
          BY <1>3, <1>6, <1>7, <2>2 DEF RefType
        <5> QED
          BY <5>1, <5>2, <1>3, <1>7, <3>1, <3>2, <4>1
      <4>2. CASE k # len
        BY <1>10, <3>1, <4>2
      <4> QED
        BY <4>1, <4>2
    <3> QED
      BY <1>10, <3>3 DEF InChunk
  <2>3. \A i \in 0 .. b.avail - 1 : b.tab[i] \in RefType /\ InChunk(b, b.tab[i])
    <3>1. b.tab \in [0 .. MaxLines -> RefType] /\ b.avail \in 0 .. MaxLines
      BY DEF Sound, BlockType
    <3>2. \A i \in 0 .. b.avail - 1 : i \in 0 .. MaxLines
      BY <3>1, StoreAssumption DEF StoreAssumption
    <3>3. \A i \in 0 .. b.avail - 1 : InChunk(b, b.tab[i])
      BY <2>1 DEF Sound, Table
    <3> QED
      BY <3>1, <3>2, <3>3
  <2>4. \A i \in 0 .. e.avail - 1 : InChunk(e, e.tab[i])
    BY <1>9, <2>2, <2>3
  <2> QED
    BY <1>9, <2>1, <2>4 DEF Sound, Table
<1>18. View(e)
  BY <1>9 DEF Sound, View
<1>19. Sound(e)
  BY <1>13, <1>14, <1>15, <1>16, <1>17, <1>18 DEF Sound
<1>20. e.made /\ e.chunks # <<>> /\ e.lastdata = b.lastdata
  BY <1>1, <1>9, <1>10
<1>21. Len(LastChunk(e).text) = Len(LastChunk(b).text) + n
  BY <1>6, <1>7, <1>11 DEF LastChunk
<1> QED
  BY <1>19, <1>20, <1>21 DEF e

(* Text gets a chunk of its own, behind the last one. *)
LEMMA AddedSound ==
  ASSUME NEW b, Sound(b), NEW stream \in Streams, NEW feed \in BOOLEAN,
         NEW n \in Nat, NEW text \in Seq(Streams), Len(text) = n,
         b.made, b.free >= TextLength(n)
  PROVE  LET e == Added(b, stream, text, feed)
         IN  /\ Sound(e) /\ e.made
             /\ e.chunks # <<>> /\ e.lastdata = b.term
             /\ LastChunk(e).text = text
<1> DEFINE cs == b.chunks
           len == Len(cs)
           length == TextLength(n)
           new == [at |-> b.term, type |-> stream, length |-> length, text |-> text,
                   feed |-> feed, wrap |-> FALSE, endx |-> 0]
           e == Added(b, stream, text, feed)
<1>1. text \in Seq(Streams) /\ Len(text) = n
  OBVIOUS
<1>2. length \in Nat /\ length >= 34
  BY TextLengthBounds
<1>3. /\ cs \in Seq(ChunkType) /\ len \in Nat
      /\ b.free \in Nat /\ b.term \in Nat /\ b.total \in Nat
  BY DEF Sound, BlockType
<1>4. b.free - length \in Nat /\ b.term + length \in Nat
  BY <1>2, <1>3
<1>5. /\ new \in ChunkType /\ new.at = b.term /\ new.type = stream
      /\ new.length = length /\ new.text = text
  <2>1. 0 \in 0 .. Width
    BY StoreAssumption DEF StoreAssumption
  <2> QED
    BY <1>1, <1>2, <1>3, <2>1 DEF ChunkType
<1>6. ChunkEnd(new) = b.term + length
  BY <1>1, <1>5 DEF ChunkEnd
<1>7. e = [b EXCEPT !.chunks = Append(cs, new), !.lastdata = b.term,
                    !.term = b.term + length, !.free = b.free - length]
  BY <1>1 DEF Sound, BlockType, Added
<1> HIDE DEF e, new, length
<1>8. /\ e.made = b.made /\ e.total = b.total /\ e.free = b.free - length
      /\ e.chunks = Append(cs, new)
      /\ e.lastdata = b.term /\ e.term = b.term + length /\ e.tab = b.tab
      /\ e.avail = b.avail /\ e.pos = b.pos /\ e.scrolling = b.scrolling
  BY <1>7 DEF Sound, BlockType
<1>9. /\ e.chunks \in Seq(ChunkType) /\ Len(e.chunks) = len + 1
      /\ e.chunks[len + 1] = new
      /\ \A i \in 1 .. len : e.chunks[i] = cs[i]
  BY <1>3, <1>5, <1>8
<1>10. e \in BlockType
  BY <1>3, <1>4, <1>7, <1>8, <1>9 DEF Sound, BlockType
<1>11. Room(e)
  <2>1. b.total = b.term + TermLength + b.free
    BY DEF Sound, Room
  <2>2. b.free \in Nat /\ b.term \in Nat /\ length \in Nat
    BY <1>2, <1>3
  <2>3. e.total = b.total /\ e.free = b.free - length /\ e.term = b.term + length
    BY <1>8
  <2> QED
    BY <2>1, <2>2, <2>3 DEF Room, TermLength
<1>12. ASSUME NEW i \in 1 .. len
       PROVE  ChunkEnd(cs[i]) <= b.term /\ cs[i] \in ChunkType
  <2>1. cs[i] \in ChunkType /\ cs[len] \in ChunkType /\ len \in 1 .. len
    BY <1>3
  <2>2. b.term = ChunkEnd(cs[len])
    BY <1>3 DEF Sound, Chain
  <2>3. ChunkEnd(cs[len]) >= cs[len].at + 34 /\ ChunkEnd(cs[len]) \in Nat
    BY <2>1, ChunkEndBounds
  <2>4. ChunkEnd(cs[i]) \in Nat
    BY <2>1, ChunkEndBounds
  <2>5. cs[len].at \in Nat
    BY <2>1 DEF ChunkType
  <2>6. i < len => ChunkEnd(cs[i]) <= cs[len].at
    BY <2>1 DEF Sound, Ahead
  <2> QED
    BY <1>3, <2>1, <2>2, <2>3, <2>4, <2>5, <2>6
<1>13. Chain(e)
  <2>1. ASSUME NEW i \in 1 .. len + 1
        PROVE  /\ e.chunks[i].at = IF i = 1 THEN HeadLength ELSE ChunkEnd(e.chunks[i - 1])
               /\ e.chunks[i].type \in Streams
                    => e.chunks[i].length = TextLength(Len(e.chunks[i].text))
    <3>1. CASE i = len + 1
      <4>1. e.chunks[i] = new
        BY <3>1, <1>9
      <4>2. b.term = IF i = 1 THEN HeadLength ELSE ChunkEnd(cs[i - 1])
        BY <1>3, <3>1 DEF Sound, Chain
      <4>3. i # 1 => e.chunks[i - 1] = cs[i - 1]
        BY <1>3, <1>9, <3>1
      <4>4. new.length = TextLength(Len(new.text))
        BY <1>1, <1>5 DEF length
      <4> QED
        BY <1>5, <4>1, <4>2, <4>3, <4>4
    <3>2. CASE i # len + 1
      <4>1. i \in 1 .. len /\ e.chunks[i] = cs[i]
        BY <3>2, <1>3, <1>9
      <4>2. i # 1 => e.chunks[i - 1] = cs[i - 1]
        BY <1>3, <1>9, <4>1
      <4>3. /\ cs[i].at = IF i = 1 THEN HeadLength ELSE ChunkEnd(cs[i - 1])
            /\ cs[i].type \in Streams => cs[i].length = TextLength(Len(cs[i].text))
        BY <4>1 DEF Sound, Chain
      <4> QED
        BY <4>1, <4>2, <4>3
    <3> QED
      BY <3>1, <3>2
  <2>2. e.term = ChunkEnd(e.chunks[len + 1]) /\ e.lastdata = e.chunks[len + 1].at
    BY <1>5, <1>6, <1>8, <1>9
  <2>3. len + 1 # 0
    BY <1>3
  <2> QED
    BY <1>9, <2>1, <2>2, <2>3 DEF Chain
<1>14. Ahead(e)
  <2>1. ASSUME NEW i \in 1 .. len + 1, NEW j \in 1 .. len + 1, i < j
        PROVE  ChunkEnd(e.chunks[i]) <= e.chunks[j].at
    <3>1. i \in 1 .. len /\ e.chunks[i] = cs[i]
      BY <1>3, <1>9, <2>1
    <3>2. CASE j = len + 1
      BY <1>5, <1>9, <1>12, <3>1, <3>2
    <3>3. CASE j # len + 1
      <4>1. j \in 1 .. len /\ e.chunks[j] = cs[j]
        BY <1>3, <1>9, <3>3
      <4> QED
        BY <2>1, <3>1, <4>1 DEF Sound, Ahead
    <3> QED
      BY <3>2, <3>3
  <2> QED
    BY <1>9, <2>1 DEF Ahead
<1>15. Table(e)
  <2>1. e.chunks # <<>>
    BY <1>3, <1>9
  <2>2. ASSUME NEW i \in 0 .. b.avail - 1
        PROVE  InChunk(e, e.tab[i])
    <3>1. CASE cs = <<>>
      <4>1. b.avail = 1 /\ b.tab[0] = Ref(HeadLength, 0) /\ b.term = HeadLength
        BY <3>1 DEF Sound, Table, Chain
      <4>2. e.tab[i] = Ref(HeadLength, 0)
        BY <4>1, <1>8
      <4>3. /\ e.chunks[1].at = HeadLength /\ 0 <= Len(e.chunks[1].text)
            /\ 1 \in 1 .. Len(e.chunks)
        BY <1>1, <1>5, <1>9, <3>1, <4>1
      <4> QED
        BY <4>2, <4>3 DEF InChunk, Ref
    <3>2. CASE cs # <<>>
      <4>1. InChunk(b, b.tab[i])
        BY <3>2 DEF Sound, Table
      <4>2. PICK k \in 1 .. len : cs[k].at = b.tab[i].chunk /\ b.tab[i].char <= Len(cs[k].text)
        BY <4>1 DEF InChunk
      <4>3. k \in 1 .. Len(e.chunks) /\ e.chunks[k] = cs[k]
        BY <1>3, <1>9
      <4> QED
        BY <1>8, <4>2, <4>3 DEF InChunk
    <3> QED
      BY <3>1, <3>2
  <2> QED
    BY <1>8, <2>1, <2>2 DEF Sound, Table
<1>16. View(e)
  BY <1>8 DEF Sound, View
<1>17. Sound(e)
  BY <1>10, <1>11, <1>13, <1>14, <1>15, <1>16 DEF Sound
<1>18. e.made /\ e.chunks # <<>> /\ e.lastdata = b.term /\ LastChunk(e).text = text
  <2>1. e.made /\ e.lastdata = b.term
    BY <1>8
  <2>2. e.chunks # <<>>
    BY <1>3, <1>9
  <2>3. LastChunk(e) = new
    BY <1>3, <1>9 DEF LastChunk
  <2> QED
    BY <1>5, <2>1, <2>2, <2>3
<1> QED
  BY <1>17, <1>18 DEF e

(* A chunk may get other flags, another end or lose its header. *)
LEMMA RelabelledSound ==
  ASSUME NEW b, Sound(b), NEW k \in 1 .. Len(b.chunks), NEW new \in ChunkType,
         new.at = b.chunks[k].at, new.text = b.chunks[k].text,
         new.type \in Streams =>
           new.type = b.chunks[k].type /\ new.length = b.chunks[k].length
  PROVE  LET r == [b EXCEPT !.chunks = [b.chunks EXCEPT ![k] = new]]
         IN  /\ Sound(r)
             /\ r.made = b.made /\ r.lastdata = b.lastdata /\ r.term = b.term
             /\ r.tab = b.tab /\ r.avail = b.avail /\ r.pos = b.pos
             /\ r.scrolling = b.scrolling
             /\ r.chunks \in Seq(ChunkType) /\ Len(r.chunks) = Len(b.chunks)
             /\ \A i \in 1 .. Len(b.chunks) : r.chunks[i].text = b.chunks[i].text
<1> DEFINE cs == b.chunks
           len == Len(cs)
           r == [b EXCEPT !.chunks = [cs EXCEPT ![k] = new]]
<1>1. cs \in Seq(ChunkType) /\ len \in Nat
  BY DEF Sound, BlockType
<1>2. /\ r.made = b.made /\ r.total = b.total /\ r.free = b.free
      /\ r.chunks = [cs EXCEPT ![k] = new]
      /\ r.lastdata = b.lastdata /\ r.term = b.term /\ r.tab = b.tab
      /\ r.avail = b.avail /\ r.pos = b.pos /\ r.scrolling = b.scrolling
  BY DEF Sound, BlockType
<1>3. [cs EXCEPT ![k] = new] \in Seq(ChunkType)
  BY <1>1
<1>4. r \in BlockType
  BY <1>3 DEF Sound, BlockType
<1> HIDE DEF r
<1>5. /\ r.chunks \in Seq(ChunkType) /\ Len(r.chunks) = len
      /\ \A i \in 1 .. len : r.chunks[i] = IF i = k THEN new ELSE cs[i]
  BY <1>1, <1>2
<1>6. \A i \in 1 .. len : r.chunks[i].at = cs[i].at /\ r.chunks[i].text = cs[i].text
  BY <1>5
<1>7. \A i \in 1 .. len : ChunkEnd(r.chunks[i]) = ChunkEnd(cs[i])
  BY <1>6 DEF ChunkEnd
<1>8. Room(r)
  BY <1>2 DEF Sound, Room
<1>9. Chain(r)
  <2>1. ASSUME NEW i \in 1 .. len
        PROVE  /\ r.chunks[i].at = IF i = 1 THEN HeadLength ELSE ChunkEnd(r.chunks[i - 1])
               /\ r.chunks[i].type \in Streams
                    => r.chunks[i].length = TextLength(Len(r.chunks[i].text))
    <3>1. /\ cs[i].at = IF i = 1 THEN HeadLength ELSE ChunkEnd(cs[i - 1])
          /\ cs[i].type \in Streams => cs[i].length = TextLength(Len(cs[i].text))
      BY DEF Sound, Chain
    <3>2. i # 1 => i - 1 \in 1 .. len
      BY <1>1
    <3>3. r.chunks[i].type \in Streams
            => r.chunks[i].length = cs[i].length /\ cs[i].type \in Streams
      BY <1>5
    <3> QED
      BY <1>6, <1>7, <3>1, <3>2, <3>3
  <2>2. len # 0 /\ len \in 1 .. len
    BY <1>1
  <2>3. r.term = ChunkEnd(r.chunks[len]) /\ r.lastdata = r.chunks[len].at
    BY <1>2, <1>6, <1>7, <2>2 DEF Sound, Chain
  <2> QED
    BY <1>5, <2>1, <2>2, <2>3 DEF Chain
<1>10. Ahead(r)
  BY <1>5, <1>6, <1>7 DEF Sound, Ahead
<1>11. Table(r)
  <2>1. cs # <<>> /\ r.chunks # <<>>
    BY <1>1, <1>5
  <2>2. ASSUME NEW i \in 0 .. b.avail - 1
        PROVE  InChunk(r, b.tab[i])
    <3>1. InChunk(b, b.tab[i])
      BY <2>1 DEF Sound, Table
    <3> QED
      BY <1>5, <1>6, <3>1 DEF InChunk
  <2> QED
    BY <1>2, <2>1, <2>2 DEF Sound, Table
<1>12. View(r)
  BY <1>2 DEF Sound, View
<1>13. Sound(r)
  BY <1>4, <1>8, <1>9, <1>10, <1>11, <1>12 DEF Sound
<1> QED
  BY <1>2, <1>5, <1>6, <1>13 DEF r

(* Chunks stand in the order of their numbers. *)
LEMMA ChunkOrder ==
  ASSUME NEW b, Sound(b), NEW i \in 1 .. Len(b.chunks), NEW j \in 1 .. Len(b.chunks)
  PROVE  /\ b.chunks[i] \in ChunkType /\ b.chunks[i].at \in Nat
         /\ HeadLength <= b.chunks[i].at
         /\ i < j => b.chunks[i].at < b.chunks[j].at
<1>1. b.chunks \in Seq(ChunkType) /\ Len(b.chunks) \in Nat
  BY DEF Sound, BlockType
<1>2. b.chunks[i] \in ChunkType /\ b.chunks[i].at \in Nat /\ b.chunks[j].at \in Nat
  <2>1. b.chunks[i] \in ChunkType /\ b.chunks[j] \in ChunkType
    BY <1>1
  <2> QED
    BY <2>1 DEF ChunkType
<1>3. i < j => b.chunks[i].at < b.chunks[j].at
  <2>1. ChunkEnd(b.chunks[i]) \in Nat /\ ChunkEnd(b.chunks[i]) >= b.chunks[i].at + 34
    BY <1>2, ChunkEndBounds
  <2>2. i < j => ChunkEnd(b.chunks[i]) <= b.chunks[j].at
    BY DEF Sound, Ahead
  <2> QED
    BY <1>2, <2>1, <2>2
<1>4. 1 \in 1 .. Len(b.chunks) /\ b.chunks[1] \in ChunkType /\ b.chunks[1].at = HeadLength
  BY <1>1 DEF Sound, Chain
<1>5. HeadLength <= b.chunks[i].at
  <2>1. ChunkEnd(b.chunks[1]) \in Nat /\ ChunkEnd(b.chunks[1]) >= HeadLength + 34
    BY <1>4, ChunkEndBounds
  <2>2. 1 < i => ChunkEnd(b.chunks[1]) <= b.chunks[i].at
    BY <1>4 DEF Sound, Ahead
  <2>3. 1 = i => HeadLength <= b.chunks[i].at
    BY <1>4, HeadLengthType
  <2> QED
    BY <1>2, <2>1, <2>2, <2>3, HeadLengthType
<1> QED
  BY <1>2, <1>3, <1>5

(* Every line starts between the first chunk and the last one. *)
LEMMA TableBounds ==
  ASSUME NEW b, Sound(b), b.chunks # <<>>, NEW i \in 0 .. b.avail - 1
  PROVE  /\ b.tab[i].chunk \in Nat /\ b.tab[i].char \in Nat
         /\ HeadLength <= b.tab[i].chunk
         /\ b.tab[i].chunk <= b.lastdata
         /\ InChunk(b, b.tab[i])
<1>1. InChunk(b, b.tab[i])
  BY DEF Sound, Table
<1>2. PICK k \in 1 .. Len(b.chunks) : b.chunks[k].at = b.tab[i].chunk
  BY <1>1 DEF InChunk
<1>3. b.chunks \in Seq(ChunkType) /\ Len(b.chunks) \in Nat \ {0}
  BY DEF Sound, BlockType
<1>4. Len(b.chunks) \in 1 .. Len(b.chunks) /\ b.lastdata = b.chunks[Len(b.chunks)].at
  BY <1>3 DEF Sound, Chain
<1>5. /\ b.chunks[k].at \in Nat /\ HeadLength <= b.chunks[k].at
      /\ k < Len(b.chunks) => b.chunks[k].at < b.chunks[Len(b.chunks)].at
      /\ b.chunks[Len(b.chunks)].at \in Nat
  BY <1>4, ChunkOrder
<1>6. b.tab[i] \in RefType
  <2>1. i \in 0 .. MaxLines /\ b.tab \in [0 .. MaxLines -> RefType]
    BY StoreAssumption DEF StoreAssumption, Sound, BlockType
  <2> QED
    BY <2>1
<1>7. b.tab[i].chunk <= b.lastdata
  BY <1>2, <1>3, <1>4, <1>5
<1> QED
  BY <1>1, <1>2, <1>5, <1>6, <1>7 DEF RefType

-----------------------------------------------------------------------------
(* One more line, the table not being full. *)
LEMMA LongerSound ==
  ASSUME NEW b, Sound(b), b.chunks # <<>>, b.avail < MaxLines,
         NEW char \in Nat, char <= Len(LastChunk(b).text)
  PROVE  LET ref == Ref(b.lastdata, char)
             r == Followed([b EXCEPT !.tab = [b.tab EXCEPT ![b.avail] = ref],
                                     !.avail = b.avail + 1])
         IN  /\ Sound(r) /\ r.made = b.made /\ r.chunks = b.chunks
             /\ r.lastdata = b.lastdata
<1> DEFINE ref == Ref(b.lastdata, char)
           avail == b.avail + 1
           c == [b EXCEPT !.tab = [b.tab EXCEPT ![b.avail] = ref], !.avail = b.avail + 1]
           pos == IF ~b.scrolling /\ b.pos + Visible <= avail THEN b.pos + 1 ELSE b.pos
           r == Followed(c)
           n == Len(b.chunks)
<1>1. /\ b.avail \in Nat /\ b.avail >= 1 /\ b.tab \in [0 .. MaxLines -> RefType]
      /\ b.pos \in 0 .. MaxLines /\ b.lastdata \in Nat /\ MaxLines \in Nat
      /\ b.scrolling \in BOOLEAN
  BY StoreAssumption DEF StoreAssumption, Sound, BlockType, Table
<1>2. b.chunks \in Seq(ChunkType) /\ n \in Nat \ {0} /\ n \in 1 .. n
  BY DEF Sound, BlockType
<1>3. ref \in RefType /\ ref.chunk = b.lastdata /\ ref.char = char
  BY <1>1 DEF RefType, Ref
<1>4. View(b)
  BY DEF Sound
<1>5. b.pos \in 1 .. b.avail
  BY <1>4 DEF View
<1>6. pos \in 1 .. avail
  BY <1>1, <1>5, StoreAssumption DEF StoreAssumption
<1>7. ~b.scrolling => pos = IF Visible >= avail THEN 1 ELSE avail - Visible + 1
  <2>1. Visible \in Nat \ {0}
    BY StoreAssumption DEF StoreAssumption
  <2>2. ~b.scrolling => b.pos = IF Visible >= b.avail THEN 1 ELSE b.avail - Visible + 1
    BY <1>4 DEF View
  <2>3. ASSUME ~b.scrolling, Visible >= avail
        PROVE  pos = 1
    BY <2>1, <2>2, <2>3, <1>1
  <2>4. ASSUME ~b.scrolling, Visible < avail, Visible >= b.avail
        PROVE  pos = avail - Visible + 1
    BY <2>1, <2>2, <2>4, <1>1
  <2>5. ASSUME ~b.scrolling, Visible < b.avail
        PROVE  pos = avail - Visible + 1
    BY <2>1, <2>2, <2>5, <1>1
  <2> QED
    BY <2>1, <2>3, <2>4, <2>5, <1>1
<1>8. /\ c.made = b.made /\ c.total = b.total /\ c.free = b.free /\ c.chunks = b.chunks
      /\ c.lastdata = b.lastdata /\ c.term = b.term
      /\ c.tab = [b.tab EXCEPT ![b.avail] = ref]
      /\ c.avail = avail /\ c.pos = b.pos /\ c.scrolling = b.scrolling
  BY DEF Sound, BlockType
<1>9. r = [c EXCEPT !.pos = pos]
  BY <1>8 DEF Followed, Sound, BlockType
<1>10. r = [b EXCEPT !.tab = [b.tab EXCEPT ![b.avail] = ref],
                     !.avail = avail, !.pos = pos]
  BY <1>9 DEF Sound, BlockType
<1> HIDE DEF r, c, ref, pos
<1>11. /\ r.made = b.made /\ r.total = b.total /\ r.free = b.free /\ r.chunks = b.chunks
       /\ r.lastdata = b.lastdata /\ r.term = b.term
       /\ r.tab = [b.tab EXCEPT ![b.avail] = ref]
       /\ r.avail = avail /\ r.pos = pos /\ r.scrolling = b.scrolling
  BY <1>10 DEF Sound, BlockType
<1>12. r \in BlockType
  <2>1. [b.tab EXCEPT ![b.avail] = ref] \in [0 .. MaxLines -> RefType]
    BY <1>1, <1>3
  <2>2. avail \in 0 .. MaxLines /\ pos \in 0 .. MaxLines
    BY <1>1, <1>6
  <2> QED
    BY <1>10, <2>1, <2>2 DEF Sound, BlockType
<1>13. Room(r) /\ Chain(r) /\ Ahead(r)
  BY <1>11 DEF Sound, Room, Chain, Ahead
<1>14. /\ \A i \in 0 .. MaxLines : i # b.avail => r.tab[i] = b.tab[i]
       /\ r.tab[b.avail] = ref /\ b.avail \in 0 .. MaxLines
  BY <1>1, <1>11
<1>15. Table(r)
  <2>1. InChunk(r, ref)
    <3>1. r.chunks[n].at = b.lastdata /\ r.chunks[n] = LastChunk(b)
      BY <1>2, <1>11 DEF Sound, Chain, LastChunk
    <3> QED
      BY <1>2, <1>3, <1>11, <3>1 DEF InChunk
  <2>2. ASSUME NEW i \in 0 .. b.avail - 1
        PROVE  /\ InChunk(r, r.tab[i]) /\ r.tab[i] = b.tab[i]
               /\ r.tab[i].chunk <= b.lastdata /\ r.tab[i].chunk \in Nat
    <3>1. r.tab[i] = b.tab[i]
      BY <1>1, <1>14
    <3>2. InChunk(b, b.tab[i]) /\ b.tab[i].chunk <= b.lastdata /\ b.tab[i].chunk \in Nat
      BY TableBounds
    <3> QED
      BY <1>11, <3>1, <3>2 DEF InChunk
  <2>3. \A i \in 0 .. avail - 1 : i \in 0 .. b.avail - 1 \/ i = b.avail
    BY <1>1
  <2>4. \A i \in 0 .. avail - 1 : InChunk(r, r.tab[i])
    BY <2>1, <2>2, <2>3, <1>14
  <2>5. ASSUME NEW i \in 0 .. avail - 1, NEW j \in 0 .. avail - 1, i <= j
        PROVE  r.tab[i].chunk <= r.tab[j].chunk
    <3>1. CASE j = b.avail
      <4>1. r.tab[j].chunk = b.lastdata
        BY <3>1, <1>3, <1>14
      <4> QED
        BY <4>1, <2>2, <2>3, <1>1, <1>3, <1>14
    <3>2. CASE j # b.avail
      <4>1. i \in 0 .. b.avail - 1 /\ j \in 0 .. b.avail - 1
        BY <3>2, <2>5, <1>1
      <4>2. b.tab[i].chunk <= b.tab[j].chunk
        BY <4>1, <2>5 DEF Sound, Table
      <4> QED
        BY <4>1, <4>2, <2>2
    <3> QED
      BY <3>1, <3>2
  <2>6. ASSUME NEW i \in avail .. MaxLines
        PROVE  r.tab[i].chunk = 0 \/ r.tab[0].chunk <= r.tab[i].chunk
    <3>1. i \in b.avail .. MaxLines /\ i # b.avail /\ i \in 0 .. MaxLines
      BY <1>1
    <3>2. 0 # b.avail /\ 0 \in 0 .. MaxLines
      BY <1>1
    <3>3. b.tab[i].chunk = 0 \/ b.tab[0].chunk <= b.tab[i].chunk
      BY <3>1 DEF Sound, Table
    <3> QED
      BY <3>1, <3>2, <3>3, <1>14
  <2>7. avail >= 1
    BY <1>1
  <2> QED
    BY <1>11, <2>4, <2>5, <2>6, <2>7 DEF Table
<1>16. View(r)
  BY <1>6, <1>7, <1>11 DEF View
<1>17. Sound(r)
  BY <1>12, <1>13, <1>15, <1>16 DEF Sound
<1> QED
  BY <1>11, <1>17 DEF r, c, ref

(* One more line, the table being full: the first chunk loses its header. *)
LEMMA ShiftedSound ==
  ASSUME NEW b, Sound(b), b.chunks # <<>>, b.avail = MaxLines,
         NEW char \in Nat, char <= Len(LastChunk(b).text)
  PROVE  LET ref == Ref(b.lastdata, char)
             r == Followed(Shifted([b EXCEPT !.tab = [b.tab EXCEPT ![b.avail] = ref],
                                             !.avail = b.avail + 1]))
         IN  /\ Sound(r) /\ r.made = b.made /\ r.lastdata = b.lastdata
             /\ Len(r.chunks) = Len(b.chunks) /\ r.chunks # <<>>
             /\ LastChunk(r).text = LastChunk(b).text
<1> DEFINE ref == Ref(b.lastdata, char)
           n == Len(b.chunks)
           longer == [b EXCEPT !.tab = [b.tab EXCEPT ![b.avail] = ref],
                               !.avail = b.avail + 1]
           tab == [i \in 0 .. MaxLines |-> IF i < MaxLines - 1 THEN b.tab[i + 1] ELSE ref]
           head == [b.chunks[1] EXCEPT !.type = OCT_TERM, !.length = 0,
                                       !.feed = FALSE, !.wrap = FALSE]
           d == [b EXCEPT !.tab = tab]
           e == [d EXCEPT !.chunks = [d.chunks EXCEPT ![1] = head]]
           r == Followed(Shifted(longer))
<1>1. /\ MaxLines \in Nat /\ MaxLines >= 1 /\ b.tab \in [0 .. MaxLines -> RefType]
      /\ b.lastdata \in Nat /\ b.pos \in Nat /\ b.scrolling \in BOOLEAN
  BY StoreAssumption DEF StoreAssumption, Sound, BlockType
<1>2. b.chunks \in Seq(ChunkType) /\ n \in Nat \ {0} /\ n \in 1 .. n /\ 1 \in 1 .. n
  BY DEF Sound, BlockType
<1>3. ref \in RefType /\ ref.chunk = b.lastdata /\ ref.char = char
  BY <1>1 DEF RefType, Ref
<1>4. /\ d.made = b.made /\ d.total = b.total /\ d.free = b.free /\ d.chunks = b.chunks
      /\ d.lastdata = b.lastdata /\ d.term = b.term /\ d.tab = tab
      /\ d.avail = b.avail /\ d.pos = b.pos /\ d.scrolling = b.scrolling
  BY DEF Sound, BlockType
<1>5. Shifted(longer) = e
  <2>1. /\ longer.tab = [b.tab EXCEPT ![MaxLines] = ref] /\ longer.avail = MaxLines + 1
        /\ longer.chunks = b.chunks
    BY DEF Sound, BlockType
  <2>2. [i \in 0 .. MaxLines |-> IF i < MaxLines THEN longer.tab[i + 1] ELSE longer.tab[i]]
          = tab
    <3>1. ASSUME NEW i \in 0 .. MaxLines
          PROVE  (IF i < MaxLines THEN longer.tab[i + 1] ELSE longer.tab[i])
                   = IF i < MaxLines - 1 THEN b.tab[i + 1] ELSE ref
      <4>1. CASE i = MaxLines
        BY <1>1, <2>1, <4>1
      <4>2. CASE i = MaxLines - 1
        BY <1>1, <2>1, <4>2
      <4>3. CASE i < MaxLines - 1
        <5>1. i + 1 \in 0 .. MaxLines /\ i + 1 # MaxLines
          BY <1>1, <4>3
        <5>2. longer.tab[i + 1] = b.tab[i + 1]
          BY <1>1, <2>1, <5>1
        <5> QED
          BY <1>1, <4>3, <5>2
      <4> QED
        BY <1>1, <4>1, <4>2, <4>3
    <3> QED
      BY <3>1
  <2>3. (MaxLines + 1) - 1 = b.avail
    BY <1>1
  <2>4. Shifted(longer) = [longer EXCEPT !.tab = tab, !.chunks = [b.chunks EXCEPT ![1] = head],
                                         !.avail = b.avail]
    BY <2>1, <2>2, <2>3 DEF Shifted
  <2> HIDE DEF tab, head
  <2>5. [longer EXCEPT !.tab = tab, !.chunks = [b.chunks EXCEPT ![1] = head],
                       !.avail = b.avail]
          = [b EXCEPT !.tab = tab, !.chunks = [b.chunks EXCEPT ![1] = head]]
    BY DEF Sound, BlockType
  <2>6. e = [b EXCEPT !.tab = tab, !.chunks = [b.chunks EXCEPT ![1] = head]]
    BY <1>4 DEF Sound, BlockType
  <2> QED
    BY <2>4, <2>5, <2>6
<1> HIDE DEF ref, longer
<1>6. \A i \in 0 .. MaxLines : tab[i] = IF i < MaxLines - 1 THEN b.tab[i + 1] ELSE ref
  OBVIOUS
<1>7. tab \in [0 .. MaxLines -> RefType]
  <2>1. \A i \in 0 .. MaxLines : i < MaxLines - 1 => i + 1 \in 0 .. MaxLines
    BY <1>1
  <2> QED
    BY <1>1, <1>3, <2>1
<1>8. d \in BlockType
  BY <1>7 DEF Sound, BlockType
<1> HIDE DEF d, tab
<1>9. Room(d) /\ Chain(d) /\ Ahead(d) /\ View(d)
  BY <1>4 DEF Sound, Room, Chain, Ahead, View
<1>10. Table(d)
  <2>1. InChunk(d, ref)
    <3>1. d.chunks[n].at = b.lastdata /\ d.chunks[n] = LastChunk(b)
      BY <1>2, <1>4 DEF Sound, Chain, LastChunk
    <3> QED
      BY <1>2, <1>3, <1>4, <3>1 DEF InChunk
  <2>2. ASSUME NEW i \in 0 .. MaxLines - 2
        PROVE  /\ InChunk(d, tab[i]) /\ tab[i] = b.tab[i + 1]
               /\ tab[i].chunk <= b.lastdata /\ tab[i].chunk \in Nat
    <3>1. tab[i] = b.tab[i + 1] /\ i + 1 \in 0 .. b.avail - 1
      BY <1>1, <1>6
    <3>2. /\ InChunk(b, b.tab[i + 1]) /\ b.tab[i + 1].chunk <= b.lastdata
          /\ b.tab[i + 1].chunk \in Nat
      BY <3>1, TableBounds
    <3> QED
      BY <1>4, <3>1, <3>2 DEF InChunk
  <2>3. \A i \in 0 .. MaxLines : i \in 0 .. MaxLines - 2 \/ tab[i] = ref
    BY <1>1, <1>6
  <2>4. \A i \in 0 .. MaxLines - 1 : InChunk(d, tab[i])
    BY <1>1, <2>1, <2>2, <2>3
  <2>5. ASSUME NEW i \in 0 .. MaxLines - 1, NEW j \in 0 .. MaxLines - 1, i <= j
        PROVE  tab[i].chunk <= tab[j].chunk
    <3>1. CASE tab[j] = ref
      BY <1>1, <1>3, <2>2, <2>3, <3>1
    <3>2. CASE tab[j] # ref
      <4>1. j \in 0 .. MaxLines - 2 /\ i \in 0 .. MaxLines - 2
        BY <1>1, <2>3, <2>5, <3>2
      <4>2. i + 1 \in 0 .. b.avail - 1 /\ j + 1 \in 0 .. b.avail - 1 /\ i + 1 <= j + 1
        BY <1>1, <4>1, <2>5
      <4>3. b.tab[i + 1].chunk <= b.tab[j + 1].chunk
        BY <4>2 DEF Sound, Table
      <4> QED
        BY <4>1, <4>3, <2>2
    <3> QED
      BY <3>1, <3>2
  <2>6. tab[0].chunk <= tab[MaxLines].chunk
    <3>1. tab[MaxLines] = ref
      BY <1>1, <1>6
    <3> QED
      BY <1>1, <1>3, <2>2, <2>3, <3>1
  <2>7. d.chunks # <<>> /\ b.avail >= 1
    BY <1>1, <1>4
  <2>8. \A i \in b.avail .. MaxLines : i = MaxLines
    BY <1>1
  <2> QED
    BY <1>4, <2>4, <2>5, <2>6, <2>7, <2>8 DEF Table
<1>11. Sound(d)
  BY <1>8, <1>9, <1>10 DEF Sound
<1>12. head \in ChunkType /\ head.at = b.chunks[1].at /\ head.text = b.chunks[1].text
       /\ head.type = OCT_TERM
  <2>1. b.chunks[1] \in ChunkType
    BY <1>2
  <2> QED
    BY <2>1 DEF ChunkType
<1> HIDE DEF head
<1>13. head.type \notin Streams
  BY <1>12, StoreAssumption DEF StoreAssumption
<1>14. /\ Sound(e) /\ e.made = b.made /\ e.lastdata = b.lastdata
       /\ e.avail = b.avail /\ e.pos = b.pos /\ e.scrolling = b.scrolling
       /\ Len(e.chunks) = n
       /\ \A i \in 1 .. n : e.chunks[i].text = b.chunks[i].text
  BY <1>2, <1>4, <1>11, <1>12, <1>13, RelabelledSound
<1> HIDE DEF e
<1>15. Followed(e) = e
  <2>1. View(b) /\ Visible \in Nat
    BY StoreAssumption DEF StoreAssumption, Sound
  <2>2. ~(~e.scrolling /\ e.pos + Visible <= e.avail)
    BY <1>1, <1>14, <2>1 DEF View
  <2> QED
    BY <2>2 DEF Followed
<1>16. LastChunk(e).text = LastChunk(b).text /\ e.chunks # <<>>
  BY <1>2, <1>14 DEF LastChunk
<1> QED
  BY <1>5, <1>14, <1>15, <1>16 DEF longer, ref

(* One more line in the chunk that was written last. *)
LEMMA NewLineSound ==
  ASSUME NEW b, Sound(b), b.chunks # <<>>,
         NEW char \in Nat, char <= Len(LastChunk(b).text)
  PROVE  LET r == NewLine(b, b.lastdata, char)
         IN  /\ Sound(r) /\ r.made = b.made /\ r.lastdata = b.lastdata
             /\ r.chunks # <<>> /\ LastChunk(r).text = LastChunk(b).text
<1> DEFINE ref == Ref(b.lastdata, char)
           longer == [b EXCEPT !.tab = [b.tab EXCEPT ![b.avail] = ref],
                               !.avail = b.avail + 1]
<1>1. b.avail \in 0 .. MaxLines /\ MaxLines \in Nat /\ b.tab \in [0 .. MaxLines -> RefType]
  BY StoreAssumption DEF StoreAssumption, Sound, BlockType
<1>2. NewLine(b, b.lastdata, char)
        = Followed(IF Overflows(longer) THEN Shifted(longer) ELSE longer)
  BY DEF NewLine, Sound, BlockType
<1>3. longer.avail = b.avail + 1
  BY DEF Sound, BlockType
<1>4. CASE b.avail < MaxLines
  <2>1. NewLine(b, b.lastdata, char) = Followed(longer)
    BY <1>1, <1>2, <1>3, <1>4 DEF Overflows
  <2> QED
    BY <1>4, <2>1, LongerSound DEF LastChunk
<1>5. CASE b.avail = MaxLines
  <2>1. NewLine(b, b.lastdata, char) = Followed(Shifted(longer))
    BY <1>1, <1>2, <1>3, <1>5 DEF Overflows
  <2> QED
    BY <1>5, <2>1, ShiftedSound
<1> QED
  BY <1>1, <1>4, <1>5

-----------------------------------------------------------------------------
(* Releasing moves the chunks that stay, and every reference with them. *)
LEMMA ReleasedSound ==
  ASSUME NEW b, Sound(b), b.chunks # <<>>
  PROVE  Sound(Released(b)) /\ Released(b).made = b.made
<1> DEFINE cs == b.chunks
           n == Len(cs)
           first == CHOOSE i \in DOMAIN cs : cs[i].at = b.tab[0].chunk
           distance == b.tab[0].chunk - HeadLength
           left == n - first + 1
           rest == [i \in 1 .. left |->
                      [cs[i + first - 1] EXCEPT !.at = cs[i + first - 1].at - distance]]
           tab == [i \in 0 .. MaxLines |->
                     IF b.tab[i].chunk = 0 THEN b.tab[i]
                     ELSE [b.tab[i] EXCEPT !.chunk = b.tab[i].chunk - distance]]
           r == Released(b)
<1>1. CASE distance <= 0
  <2>1. r = b
    BY <1>1 DEF Released
  <2> QED
    BY <2>1
<1>2. CASE ~(distance <= 0)
  <2>1. /\ cs \in Seq(ChunkType) /\ n \in Nat \ {0} /\ DOMAIN cs = 1 .. n
        /\ b.tab \in [0 .. MaxLines -> RefType] /\ b.avail \in 0 .. MaxLines
        /\ b.avail >= 1 /\ MaxLines \in Nat
        /\ b.free \in Nat /\ b.term \in Nat /\ b.total \in Nat
    BY StoreAssumption DEF StoreAssumption, Sound, BlockType, Table
  <2>2. /\ 0 \in 0 .. b.avail - 1 /\ b.tab[0].chunk \in Nat /\ HeadLength <= b.tab[0].chunk
        /\ InChunk(b, b.tab[0])
    BY <2>1, TableBounds
  <2>3. \E i \in DOMAIN cs : cs[i].at = b.tab[0].chunk
    BY <2>1, <2>2 DEF InChunk
  <2>4. first \in 1 .. n /\ cs[first].at = b.tab[0].chunk
    BY <2>1, <2>3
  <2>5. distance \in Nat /\ distance > 0
    BY <1>2, <2>2, HeadLengthType, SMTT(60)
  <2>6. r = [b EXCEPT !.chunks = rest, !.free = b.free + distance,
                      !.lastdata = b.lastdata - distance, !.term = b.term - distance,
                      !.tab = tab]
    BY <1>2 DEF Released, Sound, BlockType
  <2> HIDE DEF r, first
  <2>7. /\ r.made = b.made /\ r.total = b.total /\ r.free = b.free + distance
        /\ r.chunks = rest /\ r.lastdata = b.lastdata - distance
        /\ r.term = b.term - distance /\ r.tab = tab
        /\ r.avail = b.avail /\ r.pos = b.pos /\ r.scrolling = b.scrolling
    BY <2>6 DEF Sound, BlockType
  <2>8. left \in 1 .. n /\ left \in Nat
    BY <2>1, <2>4
  <2>9. ASSUME NEW i \in 1 .. left
        PROVE  /\ i + first - 1 \in 1 .. n /\ cs[i + first - 1] \in ChunkType
               /\ cs[i + first - 1].at - distance \in Nat
               /\ cs[i + first - 1].at \in Nat
               /\ HeadLength <= cs[i + first - 1].at - distance
    <3>1. i + first - 1 \in 1 .. n /\ (first < i + first - 1 \/ first = i + first - 1)
      BY <2>1, <2>4, <2>8, SMTT(60)
    <3>2. /\ cs[i + first - 1] \in ChunkType /\ cs[i + first - 1].at \in Nat
          /\ cs[first].at \in Nat
      BY <3>1, <2>4, ChunkOrder
    <3>3. first < i + first - 1 => cs[first].at < cs[i + first - 1].at
      BY <3>1, <2>4, ChunkOrder
    <3>4. cs[first].at <= cs[i + first - 1].at
      BY <3>1, <3>2, <3>3
    <3>5. cs[i + first - 1].at - distance >= HeadLength
      BY <3>2, <3>4, <2>4, HeadLengthType, SMTT(60)
    <3>6. cs[i + first - 1].at - distance \in Int
      BY <3>2, <2>5
    <3>7. PICK at : at = cs[i + first - 1].at - distance
      OBVIOUS
    <3>8. at \in Nat
      BY <3>5, <3>6, <3>7, HeadLengthType
    <3> QED
      BY <3>1, <3>2, <3>5, <3>7, <3>8
  <2> DEFINE moved(c) == [c EXCEPT !.at = c.at - distance]
  <2>10. ASSUME NEW c \in ChunkType, c.at - distance \in Nat
         PROVE  /\ moved(c) \in ChunkType /\ moved(c).at = c.at - distance
                /\ moved(c).text = c.text /\ moved(c).type = c.type
                /\ moved(c).length = c.length
                /\ ChunkEnd(moved(c)) = ChunkEnd(c) - distance
    <3>1. /\ moved(c) \in ChunkType /\ moved(c).at = c.at - distance
          /\ moved(c).text = c.text /\ moved(c).type = c.type
          /\ moved(c).length = c.length
      BY <2>10 DEF ChunkType
    <3>2. TextLength(Len(c.text)) \in Nat /\ c.at \in Nat
      BY TextLengthBounds DEF ChunkType
    <3> QED
      BY <3>1, <3>2, <2>5 DEF ChunkEnd
  <2>11. \A i \in 1 .. left : rest[i] = moved(cs[i + first - 1])
    OBVIOUS
  <2> HIDE DEF moved
  <2>12. /\ rest \in Seq(ChunkType) /\ Len(rest) = left
    <3>1. \A i \in 1 .. left : rest[i] \in ChunkType
      BY <2>9, <2>10, <2>11
    <3>2. rest = [i \in 1 .. left |-> rest[i]]
      OBVIOUS
    <3> HIDE DEF rest, left
    <3> QED
      BY <3>1, <3>2, <2>8
  <2> HIDE DEF rest, left
  <2>13. \A i \in 1 .. left :
           /\ rest[i].at = cs[i + first - 1].at - distance
           /\ rest[i].text = cs[i + first - 1].text
           /\ rest[i].type = cs[i + first - 1].type
           /\ rest[i].length = cs[i + first - 1].length
           /\ ChunkEnd(rest[i]) = ChunkEnd(cs[i + first - 1]) - distance
    BY <2>9, <2>10, <2>11
  <2>14. \A k \in 1 .. n : ChunkEnd(cs[k]) \in Nat /\ cs[k].at \in Nat
    BY ChunkOrder, ChunkEndBounds
  <2>15. /\ b.lastdata = cs[n].at /\ b.term = ChunkEnd(cs[n]) /\ n \in 1 .. n
         /\ left + first - 1 = n /\ left \in 1 .. left
    BY <2>1, <2>4, <2>8 DEF Sound, Chain, left
  <2>16. ASSUME NEW i \in 0 .. MaxLines
         PROVE  /\ tab[i] \in RefType
                /\ tab[i].char = b.tab[i].char
                /\ b.tab[i].chunk \in Nat
                /\ b.tab[i].chunk = 0 =>
                     tab[i].chunk = 0 /\ ~(i < b.avail)
                /\ b.tab[i].chunk # 0 =>
                     /\ tab[i].chunk = b.tab[i].chunk - distance
                     /\ b.tab[0].chunk <= b.tab[i].chunk
    <3>1. b.tab[i] \in RefType /\ b.tab[i].chunk \in Nat /\ b.tab[i].char \in Nat
      BY <2>1 DEF RefType
    <3>2. i < b.avail => HeadLength <= b.tab[i].chunk /\ b.tab[0].chunk <= b.tab[i].chunk
      <4>1. i < b.avail => i \in 0 .. b.avail - 1
        BY <2>1
      <4>2. i < b.avail => HeadLength <= b.tab[i].chunk
        BY <4>1, TableBounds
      <4>3. i < b.avail => b.tab[0].chunk <= b.tab[i].chunk
        BY <4>1, <2>2 DEF Sound, Table
      <4> QED
        BY <4>2, <4>3
    <3>3. ~(i < b.avail) => b.tab[i].chunk = 0 \/ b.tab[0].chunk <= b.tab[i].chunk
      <4>1. ~(i < b.avail) => i \in b.avail .. MaxLines
        BY <2>1
      <4> QED
        BY <4>1 DEF Sound, Table
    <3>4. CASE b.tab[i].chunk = 0
      <4>1. tab[i] = b.tab[i]
        BY <3>4
      <4>2. ~(i < b.avail)
        BY <3>2, <3>4, HeadLengthType
      <4> QED
        BY <3>1, <3>4, <4>1, <4>2
    <3>5. CASE b.tab[i].chunk # 0
      <4>1. tab[i] = [b.tab[i] EXCEPT !.chunk = b.tab[i].chunk - distance]
        BY <3>5
      <4>2. b.tab[0].chunk <= b.tab[i].chunk
        BY <3>2, <3>3, <3>5
      <4>3. b.tab[i].chunk - distance \in Nat
        BY <2>2, <3>1, <4>2, HeadLengthType
      <4> HIDE DEF tab, distance
      <4> QED
        BY <3>1, <3>5, <4>1, <4>2, <4>3 DEF RefType
    <3> QED
      BY <3>4, <3>5
  <2>17. tab \in [0 .. MaxLines -> RefType]
    BY <2>16
  <2>18. r \in BlockType
    <3>1. cs[n].at - distance \in Nat
      BY <2>9, <2>15
    <3>2. ChunkEnd(cs[n]) - distance \in Nat
      <4>1. cs[n] \in ChunkType
        BY <2>1
      <4>2. ChunkEnd(cs[n]) >= cs[n].at + 34
        BY <4>1, ChunkEndBounds
      <4> QED
        BY <4>2, <3>1, <2>14, <2>15, <2>5
    <3>3. b.free + distance \in Nat
      BY <2>1, <2>5
    <3> HIDE DEF distance, tab
    <3>4. b.lastdata - distance \in Nat /\ b.term - distance \in Nat
      BY <3>1, <3>2, <2>15
    <3> QED
      BY <2>6, <2>12, <2>17, <3>3, <3>4 DEF Sound, BlockType
  <2> HIDE DEF tab
  <2>19. Room(r)
    <3>1. b.total = b.term + TermLength + b.free
      BY DEF Sound, Room
    <3>2. r.total = b.total /\ r.free = b.free + distance /\ r.term = b.term - distance
      BY <2>7
    <3>3. b.total \in Nat /\ b.free \in Nat /\ b.term \in Nat /\ distance \in Nat
      BY <2>1, <2>5
    <3> HIDE DEF distance
    <3> QED
      BY <3>1, <3>2, <3>3 DEF Room, TermLength
  <2>20. Chain(r)
    <3>a. \A k \in 1 .. n :
            /\ cs[k].at = IF k = 1 THEN HeadLength ELSE ChunkEnd(cs[k - 1])
            /\ cs[k].type \in Streams => cs[k].length = TextLength(Len(cs[k].text))
      BY DEF Sound, Chain
    <3>1. ASSUME NEW i \in 1 .. left
          PROVE  /\ rest[i].at = IF i = 1 THEN HeadLength ELSE ChunkEnd(rest[i - 1])
                 /\ rest[i].type \in Streams => rest[i].length = TextLength(Len(rest[i].text))
      <4>1. PICK k \in 1 .. n : k = i + first - 1
        BY <2>9
      <4>2. /\ cs[k].at = IF k = 1 THEN HeadLength ELSE ChunkEnd(cs[k - 1])
            /\ cs[k].type \in Streams => cs[k].length = TextLength(Len(cs[k].text))
        BY <3>a
      <4>3. /\ rest[i].at = cs[k].at - distance
            /\ rest[i].type \in Streams => rest[i].length = TextLength(Len(rest[i].text))
        BY <4>1, <4>2, <2>13
      <4>4. CASE i = 1
        <5>1. k = first
          BY <4>1, <4>4, <2>4
        <5>2. rest[i].at = HeadLength
          BY <5>1, <4>3, <2>2, <2>4, HeadLengthType
        <5> QED
          BY <4>3, <4>4, <5>2
      <4>5. CASE i # 1
        <5>1. i - 1 \in 1 .. left /\ k # 1 /\ k - 1 = (i - 1) + first - 1
          BY <4>1, <4>5, <2>4, <2>8
        <5>2. ChunkEnd(rest[i - 1]) = ChunkEnd(cs[k - 1]) - distance
          BY <5>1, <2>13
        <5> QED
          BY <4>2, <4>3, <4>5, <5>1, <5>2
      <4> QED
        BY <4>4, <4>5
    <3>2. r.term = ChunkEnd(rest[left]) /\ r.lastdata = rest[left].at /\ left # 0
      BY <2>7, <2>8, <2>13, <2>15
    <3> QED
      BY <2>7, <2>12, <3>1, <3>2 DEF Chain
  <2>21. Ahead(r)
    <3>1. ASSUME NEW i \in 1 .. left, NEW j \in 1 .. left, i < j
          PROVE  ChunkEnd(rest[i]) <= rest[j].at
      <4>1. /\ i + first - 1 \in 1 .. n /\ j + first - 1 \in 1 .. n
            /\ i + first - 1 < j + first - 1
        BY <3>1, <2>4, <2>9
      <4>2. ChunkEnd(cs[i + first - 1]) <= cs[j + first - 1].at
        BY <4>1 DEF Sound, Ahead
      <4>3. /\ ChunkEnd(cs[i + first - 1]) \in Nat /\ cs[j + first - 1].at \in Nat
        BY <4>1, <2>14
      <4> HIDE DEF distance
      <4> QED
        BY <4>2, <4>3, <2>5, <2>13
    <3> QED
      BY <2>7, <2>12, <3>1 DEF Ahead
  <2>22. Table(r)
    <3>1. r.chunks # <<>>
      BY <2>7, <2>8, <2>12
    <3>2. \A i \in 0 .. b.avail - 1 : i \in 0 .. MaxLines /\ i < b.avail
      BY <2>1
    <3>3. ASSUME NEW i \in 0 .. b.avail - 1
          PROVE  InChunk(r, tab[i])
      <4>1. InChunk(b, b.tab[i])
        BY TableBounds
      <4>2. PICK k \in 1 .. n : cs[k].at = b.tab[i].chunk /\ b.tab[i].char <= Len(cs[k].text)
        BY <4>1 DEF InChunk
      <4>3. /\ tab[i].chunk = b.tab[i].chunk - distance
            /\ tab[i].char = b.tab[i].char
            /\ b.tab[0].chunk <= b.tab[i].chunk
        BY <3>2, <2>16
      <4>4. first <= k
        <5>1. k < first => cs[k].at < cs[first].at
          BY <2>4, ChunkOrder
        <5>2. cs[k].at \in Nat /\ cs[first].at \in Nat
          BY <2>4, <2>14
        <5> QED
          BY <5>1, <5>2, <4>2, <4>3, <2>1, <2>4
      <4>5. k - first + 1 \in 1 .. left /\ (k - first + 1) + first - 1 = k
        BY <4>4, <2>1, <2>4 DEF left
      <4>6. /\ rest[k - first + 1].at = cs[k].at - distance
            /\ rest[k - first + 1].text = cs[k].text
        BY <4>5, <2>13
      <4>7. k - first + 1 \in 1 .. Len(r.chunks)
        BY <4>5, <2>7, <2>12
      <4> HIDE DEF distance
      <4> QED
        BY <4>2, <4>3, <4>6, <4>7, <2>7 DEF InChunk
    <3>4. ASSUME NEW i \in 0 .. b.avail - 1, NEW j \in 0 .. b.avail - 1, i <= j
          PROVE  tab[i].chunk <= tab[j].chunk
      <4>1. b.tab[i].chunk <= b.tab[j].chunk
        BY <3>4 DEF Sound, Table
      <4>2. /\ tab[i].chunk = b.tab[i].chunk - distance
            /\ tab[j].chunk = b.tab[j].chunk - distance
            /\ b.tab[i].chunk \in Nat /\ b.tab[j].chunk \in Nat
        BY <3>2, <2>16
      <4> HIDE DEF distance
      <4> QED
        BY <4>1, <4>2, <2>5
    <3>5. ASSUME NEW i \in b.avail .. MaxLines
          PROVE  tab[i].chunk = 0 \/ tab[0].chunk <= tab[i].chunk
      <4>1. i \in 0 .. MaxLines /\ 0 \in 0 .. MaxLines /\ 0 < b.avail
        BY <2>1
      <4>2. tab[0].chunk = b.tab[0].chunk - distance
        BY <4>1, <2>16
      <4>3. tab[i].chunk = 0 \/
              (tab[i].chunk = b.tab[i].chunk - distance /\ b.tab[0].chunk <= b.tab[i].chunk)
        BY <4>1, <2>16
      <4>4. b.tab[i].chunk \in Nat /\ b.tab[0].chunk \in Nat
        BY <4>1, <2>16
      <4> HIDE DEF distance
      <4> QED
        BY <4>2, <4>3, <4>4, <2>5
    <3> QED
      BY <2>1, <2>7, <3>1, <3>3, <3>4, <3>5 DEF Table
  <2>23. View(r)
    BY <2>7 DEF Sound, View
  <2>24. Sound(r)
    BY <2>18, <2>19, <2>20, <2>21, <2>22, <2>23 DEF Sound
  <2> QED
    BY <2>7, <2>24 DEF r
<1> QED
  BY <1>1, <1>2

-----------------------------------------------------------------------------
(* The inductive invariant: the block is sound at every statement where    *)
(* the model stops, and what is left to lay out lies in the last chunk.    *)
BlockSound == IF block.made THEN Sound(block) ELSE block = NoBlock

JobSound ==
  ~Idle =>
    /\ block.made /\ block.chunks # <<>>
    /\ job.at = block.lastdata
    /\ job.done + job.left <= Len(LastChunk(block).text)

IInv ==
  /\ BlockSound
  /\ JobSound
  /\ job \in JobType
  /\ lines \in Seq(Seq(Streams))
  /\ hit \in BOOLEAN

LEMMA NoBlockType == NoBlock \in BlockType /\ ~NoBlock.made
<1>1. [i \in 0 .. MaxLines |-> NoRef] \in [0 .. MaxLines -> RefType]
  BY DEF RefType, Ref, NoRef
<1>2. 0 \in 0 .. MaxLines /\ <<>> \in Seq(ChunkType)
  BY StoreAssumption DEF StoreAssumption
<1> QED
  BY <1>1, <1>2 DEF NoBlock, BlockType

LEMMA NoJobType == NoJob \in JobType
BY StoreAssumption DEF StoreAssumption, NoJob, JobType

(* A block as it is made or given up. *)
LEMMA FreshInv ==
  ASSUME (block = EmptyBlock /\ lines = << <<>> >>) \/ (block = NoBlock /\ lines = <<>>),
         job = NoJob, hit = FALSE
  PROVE  IInv
<1>1. lines \in Seq(Seq(Streams))
  <2>1. << <<>> >> \in Seq(Seq(Streams)) /\ <<>> \in Seq(Seq(Streams))
    OBVIOUS
  <2> QED
    BY <2>1
<1>2. EmptyBlock.made = TRUE
  BY DEF EmptyBlock
<1>3. BlockSound
  BY <1>2, EmptySound, NoBlockType DEF BlockSound
<1> QED
  BY <1>1, <1>3, NoJobType DEF IInv, JobSound, Idle

(* The invariant holds at first, and every action keeps it. *)
LEMMA InitInv == Init => IInv
BY FreshInv DEF Init

LEMMA ClearInv == IInv /\ Clear => IInv'
<1> SUFFICES ASSUME IInv, Clear PROVE IInv'
  OBVIOUS
<1>1. /\ (block' = EmptyBlock /\ lines' = << <<>> >>) \/ (block' = NoBlock /\ lines' = <<>>)
      /\ job' = NoJob /\ hit' = FALSE
  BY DEF Clear, Idle
<1>2. lines' \in Seq(Seq(Streams))
  <2>1. << <<>> >> \in Seq(Seq(Streams)) /\ <<>> \in Seq(Seq(Streams))
    OBVIOUS
  <2> QED
    BY <1>1, <2>1
<1>3. BlockSound'
  <2>1. EmptyBlock.made = TRUE
    BY DEF EmptyBlock
  <2> QED
    BY <1>1, <2>1, EmptySound, NoBlockType DEF BlockSound
<1> QED
  BY <1>1, <1>2, <1>3, NoJobType DEF IInv, JobSound, Idle

LEMMA StoreInv ==
  ASSUME IInv, NEW stream \in Streams, NEW n \in Pieces, NEW feed \in BOOLEAN,
         Store(stream, n, feed)
  PROVE  IInv'
<1> DEFINE text == [i \in 1 .. n |-> stream]
           size == IF feed THEN n + 1 ELSE n
           b == Resized(block, size + TextLength(size))
<1>1. n \in Nat /\ size \in Nat /\ size >= n
  BY StoreAssumption DEF StoreAssumption
<1>2. /\ size + TextLength(size) \in Nat
      /\ TextLength(n) \in Nat /\ TextLength(n) <= size + TextLength(size)
  BY <1>1 DEF TextLength
<1>3. block.made /\ Sound(block)
  BY DEF Store, IInv, BlockSound
<1>4. Sound(b) /\ b.free >= size + TextLength(size) /\ b.made
  BY <1>2, <1>3, ResizedSound
<1>5. b.free >= TextLength(n)
  <2>1. b.free \in Nat
    BY <1>4 DEF Sound, BlockType
  <2> QED
    BY <2>1, <1>2, <1>4
<1>6. /\ IF Extendable(b, stream, n)
         THEN /\ block' = Extended(b, text, feed)
              /\ job' = [at |-> b.lastdata, x |-> LastChunk(b).endx,
                         done |-> Len(LastChunk(b).text), left |-> n, feed |-> feed]
         ELSE /\ block' = Added(b, stream, text, feed)
              /\ \E x \in StartColumns(b) :
                   job' = [at |-> b.term, x |-> x, done |-> 0, left |-> n, feed |-> feed]
      /\ lines' = lines /\ hit' = hit
  BY DEF Store
<1>7. text \in Seq(Streams) /\ Len(text) = n
  BY <1>1
<1> HIDE DEF b, size, text
<1>8. CASE Extendable(b, stream, n)
  <2>1. /\ Sound(block') /\ block'.made /\ block'.chunks # <<>>
        /\ block'.lastdata = b.lastdata
        /\ Len(LastChunk(block').text) = Len(LastChunk(b).text) + n
    <3>1. block' = Extended(b, text, feed)
      BY <1>6, <1>8
    <3>2. PICK e : e = Extended(b, text, feed)
      OBVIOUS
    <3>3. /\ Sound(e) /\ e.made /\ e.chunks # <<>> /\ e.lastdata = b.lastdata
          /\ Len(LastChunk(e).text) = Len(LastChunk(b).text) + n
      BY <1>1, <1>4, <1>5, <1>7, <1>8, <3>2, ExtendedSound
    <3> QED
      BY <3>1, <3>2, <3>3
  <2>2. LastChunk(b) \in ChunkType
    <3>1. b.chunks # <<>> /\ b.chunks \in Seq(ChunkType)
      BY <1>4, <1>8 DEF Extendable, LastIsText, Sound, Chain, BlockType
    <3> QED
      BY <3>1 DEF LastChunk
  <2>3. /\ LastChunk(b).endx \in 0 .. Width /\ LastChunk(b).text \in Seq(Streams)
        /\ Len(LastChunk(b).text) \in Nat /\ b.lastdata \in Nat
    BY <1>4, <2>2 DEF ChunkType, Sound, BlockType
  <2>5. /\ job' \in JobType /\ job'.at = block'.lastdata
        /\ job'.done + job'.left = Len(LastChunk(b).text) + n
    BY <1>1, <1>6, <1>8, <2>1, <2>3 DEF JobType
  <2>6. BlockSound' /\ JobSound'
    BY <1>1, <2>1, <2>3, <2>5 DEF BlockSound, JobSound, LastChunk
  <2> QED
    BY <1>6, <2>5, <2>6 DEF IInv
<1>9. CASE ~Extendable(b, stream, n)
  <2>1. /\ Sound(block') /\ block'.made /\ block'.chunks # <<>>
        /\ block'.lastdata = b.term
        /\ LastChunk(block').text = text
    BY <1>1, <1>4, <1>5, <1>6, <1>7, <1>9, AddedSound
  <2>2. StartColumns(b) \subseteq 0 .. Width
    <3>1. CASE LastIsText(b)
      <4>1. b.chunks # <<>> /\ b.chunks \in Seq(ChunkType)
        BY <1>4, <3>1 DEF LastIsText, Sound, Chain, BlockType
      <4>2. LastChunk(b) \in ChunkType
        BY <4>1 DEF LastChunk
      <4>3. LastChunk(b).endx \in 0 .. Width
        BY <4>2 DEF ChunkType
      <4> QED
        BY <3>1, <4>3 DEF StartColumns, LastIsText
    <3>2. CASE ~LastIsText(b)
      BY <3>2, StoreAssumption DEF StartColumns, StoreAssumption
    <3> QED
      BY <3>1, <3>2
  <2>3. PICK x \in 0 .. Width :
          job' = [at |-> b.term, x |-> x, done |-> 0, left |-> n, feed |-> feed]
    BY <1>6, <1>9, <2>2
  <2>4. b.term \in Nat
    BY <1>4 DEF Sound, BlockType
  <2>5. /\ job' \in JobType /\ job'.at = block'.lastdata
        /\ job'.done + job'.left = n
    BY <1>1, <2>1, <2>3, <2>4 DEF JobType
  <2>6. BlockSound' /\ JobSound'
    <3>1. Len(LastChunk(block').text) = n
      BY <2>1, <1>7
    <3> QED
      BY <1>1, <2>1, <2>5, <3>1 DEF BlockSound, JobSound, LastChunk
  <2> QED
    BY <1>6, <2>5, <2>6 DEF IInv
<1> QED
  BY <1>8, <1>9

(* The view does not change while text is stored. *)
LEMMA StoreView ==
  ASSUME IInv, NEW stream \in Streams, NEW n \in Pieces, NEW feed \in BOOLEAN,
         Store(stream, n, feed)
  PROVE  /\ block'.made /\ block'.pos = block.pos /\ block'.avail = block.avail
         /\ block'.scrolling = block.scrolling
<1> DEFINE text == [i \in 1 .. n |-> stream]
           size == IF feed THEN n + 1 ELSE n
           b == Resized(block, size + TextLength(size))
<1>1. block.made /\ Sound(block)
  BY DEF Store, IInv, BlockSound
<1>2. block' = Extended(b, text, feed) \/ block' = Added(b, stream, text, feed)
  BY DEF Store
<1>3. /\ b.made /\ b.pos = block.pos /\ b.avail = block.avail /\ b \in BlockType
      /\ b.scrolling = block.scrolling
  <2>1. size + TextLength(size) \in Nat
    <3>1. size \in Nat
      BY StoreAssumption DEF StoreAssumption
    <3> QED
      BY <3>1, TextLengthBounds
  <2> HIDE DEF size
  <2>2. Sound(b) /\ b.made = block.made
    BY <1>1, <2>1, ResizedSound
  <2>3. b.pos = block.pos /\ b.avail = block.avail /\ b.scrolling = block.scrolling
    BY <1>1 DEF Resized, Sound, BlockType
  <2> QED
    BY <1>1, <2>2, <2>3 DEF Sound
<1> HIDE DEF b, text
<1>4. /\ Extended(b, text, feed).made /\ Extended(b, text, feed).pos = b.pos
      /\ Extended(b, text, feed).avail = b.avail
      /\ Extended(b, text, feed).scrolling = b.scrolling
  BY <1>3 DEF Extended, BlockType
<1>5. /\ Added(b, stream, text, feed).made /\ Added(b, stream, text, feed).pos = b.pos
      /\ Added(b, stream, text, feed).avail = b.avail
      /\ Added(b, stream, text, feed).scrolling = b.scrolling
  BY <1>3 DEF Added, BlockType
<1> QED
  BY <1>2, <1>3, <1>4, <1>5

(* The next n characters of the text, written into the last of the lines ls. *)
WrittenTo(ls, n) ==
  LET text == LastChunk(block).text
  IN  [ls EXCEPT ![Len(ls)] = @ \o [i \in 1 .. n |-> text[job.done + i]]]

(* The history that the properties compare with grows with every step. *)
LEMMA WrittenType ==
  ASSUME IInv, ~Idle, NEW k \in Nat, k <= job.left, NEW ls \in Seq(Seq(Streams))
  PROVE  /\ WrittenTo(ls, k) \in Seq(Seq(Streams))
         /\ Fed(WrittenTo(ls, k)) \in Seq(Seq(Streams))
<1> DEFINE text == LastChunk(block).text
           piece == [i \in 1 .. k |-> text[job.done + i]]
<1>1. /\ block.made /\ Sound(block) /\ block.chunks # <<>>
      /\ job.done + job.left <= Len(text)
  BY DEF IInv, JobSound, BlockSound
<1>2. block.chunks \in Seq(ChunkType)
  BY <1>1 DEF Sound, BlockType
<1>3. LastChunk(block) \in ChunkType
  BY <1>1, <1>2 DEF LastChunk
<1>4. text \in Seq(Streams) /\ job.done \in Nat /\ job.left \in Nat
  BY <1>3 DEF ChunkType, IInv, JobType
<1> HIDE DEF text
<1>5. \A i \in 1 .. k : text[job.done + i] \in Streams
  BY <1>1, <1>4
<1>6. piece \in Seq(Streams)
  BY <1>5
<1> HIDE DEF piece
<1>7. ls \in Seq(Seq(Streams))
  OBVIOUS
<1>8. [ls EXCEPT ![Len(ls)] = ls[Len(ls)] \o piece] \in Seq(Seq(Streams))
  <2> DEFINE longer == [ls EXCEPT ![Len(ls)] = ls[Len(ls)] \o piece]
  <2>1. DOMAIN ls = 1 .. Len(ls) /\ Len(ls) \in Nat
    BY <1>7
  <2>2. ASSUME NEW i \in 1 .. Len(ls) PROVE longer[i] \in Seq(Streams)
    <3>1. ls[i] \in Seq(Streams)
      BY <1>7
    <3>2. i = Len(ls) => ls[Len(ls)] \o piece \in Seq(Streams)
      BY <3>1, <1>6
    <3> QED
      BY <2>1, <3>1, <3>2
  <2>3. longer = [i \in 1 .. Len(ls) |-> longer[i]]
    BY <2>1
  <2> HIDE DEF longer
  <2>4. longer \in Seq(Seq(Streams))
    BY <2>1, <2>2, <2>3
  <2> QED
    BY <2>4 DEF longer
<1>9. WrittenTo(ls, k) \in Seq(Seq(Streams))
  BY <1>8 DEF WrittenTo, piece, text
<1>10. ASSUME NEW ks \in Seq(Seq(Streams)) PROVE Fed(ks) \in Seq(Seq(Streams))
  <2>1. <<>> \in Seq(Streams)
    OBVIOUS
  <2>2. Append(ks, <<>>) \in Seq(Seq(Streams))
    BY <2>1
  <2>3. CASE Len(ks) = MaxLines
    <3>1. ks # <<>>
      BY <2>3, StoreAssumption DEF StoreAssumption
    <3>2. Tail(ks) \in Seq(Seq(Streams))
      BY <3>1
    <3> QED
      BY <2>1, <2>3, <3>2 DEF Fed
  <2> QED
    BY <2>2, <2>3 DEF Fed
<1> QED
  BY <1>9, <1>10

LEMMA LinesType ==
  ASSUME IInv, ~Idle, NEW k \in Nat, k <= job.left
  PROVE  Written(k) \in Seq(Seq(Streams)) /\ Fed(Written(k)) \in Seq(Seq(Streams))
<1>1. lines \in Seq(Seq(Streams))
  BY DEF IInv
<1>2. Written(k) = WrittenTo(lines, k)
  BY DEF Written, WrittenTo
<1> QED
  BY <1>1, <1>2, WrittenType

(* The last chunk is marked as wrapped. *)
LEMMA WrappedSound ==
  ASSUME NEW b, Sound(b), b.chunks # <<>>
  PROVE  LET w == [b EXCEPT !.chunks[Len(b.chunks)].wrap = TRUE]
         IN  /\ Sound(w) /\ w.made = b.made /\ w.lastdata = b.lastdata
             /\ w.chunks # <<>> /\ LastChunk(w).text = LastChunk(b).text
<1> DEFINE cs == b.chunks
           n == Len(cs)
           final == [cs[n] EXCEPT !.wrap = TRUE]
           w == [b EXCEPT !.chunks = [cs EXCEPT ![n] = final]]
<1>1. cs \in Seq(ChunkType) /\ n \in 1 .. n
  BY DEF Sound, BlockType
<1>2. cs[n] \in ChunkType
  BY <1>1
<1>3. /\ final \in ChunkType /\ final.at = cs[n].at /\ final.text = cs[n].text
      /\ final.type = cs[n].type /\ final.length = cs[n].length
  BY <1>2 DEF ChunkType
<1>4. [b EXCEPT !.chunks[Len(b.chunks)].wrap = TRUE] = w
  BY DEF Sound, BlockType
<1> HIDE DEF final
<1>5. /\ Sound(w) /\ w.made = b.made /\ w.lastdata = b.lastdata
      /\ Len(w.chunks) = n
      /\ \A i \in 1 .. n : w.chunks[i].text = cs[i].text
  BY <1>1, <1>3, RelabelledSound
<1> HIDE DEF w
<1>6. w.chunks # <<>> /\ LastChunk(w).text = LastChunk(b).text
  BY <1>1, <1>5 DEF LastChunk
<1> QED
  BY <1>4, <1>5, <1>6

LEMMA WrapInv == IInv /\ Wrap => IInv'
<1> SUFFICES ASSUME IInv, Wrap PROVE IInv'
  OBVIOUS
<1> DEFINE fits == Width - job.x
           done == job.done + fits
           wrapped == [block EXCEPT !.chunks[Len(block.chunks)].wrap = TRUE]
<1>1. ~Idle /\ job.left > fits
  BY DEF Wrap
<1>2. /\ Sound(block) /\ block.made /\ block.chunks # <<>> /\ job.at = block.lastdata
      /\ job.done + job.left <= Len(LastChunk(block).text)
  BY <1>1 DEF IInv, JobSound, BlockSound
<1>3. /\ job \in JobType /\ job.done \in Nat /\ job.left \in Nat /\ fits \in Nat
      /\ done \in Nat /\ job.left - fits \in Nat
  BY <1>1, StoreAssumption DEF IInv, JobType, StoreAssumption
<1>4. /\ block' = NewLine(wrapped, job.at, done)
      /\ job' = [job EXCEPT !.x = 0, !.done = done, !.left = job.left - fits]
      /\ lines' = Fed(Written(fits))
      /\ hit' = (hit \/ Hit)
  BY DEF Wrap
<1> HIDE DEF done
<1>5. /\ Sound(wrapped) /\ wrapped.made = block.made /\ wrapped.lastdata = block.lastdata
      /\ wrapped.chunks # <<>> /\ LastChunk(wrapped).text = LastChunk(block).text
  BY <1>2, WrappedSound
<1> HIDE DEF wrapped
<1>6. done <= Len(LastChunk(wrapped).text) /\ done + (job.left - fits) = job.done + job.left
  <2>1. LastChunk(block) \in ChunkType
    BY <1>2 DEF LastChunk, Sound, BlockType
  <2>2. Len(LastChunk(block).text) \in Nat
    BY <2>1 DEF ChunkType
  <2> HIDE DEF fits
  <2> QED
    BY <1>1, <1>2, <1>3, <1>5, <2>2, SMTT(60) DEF done
<1>7. /\ Sound(block') /\ block'.made = block.made /\ block'.lastdata = block.lastdata
      /\ block'.chunks # <<>> /\ LastChunk(block').text = LastChunk(block).text
  <2>1. block' = NewLine(wrapped, wrapped.lastdata, done)
    BY <1>2, <1>4, <1>5
  <2>2. done \in Nat /\ done <= Len(LastChunk(wrapped).text)
    BY <1>3, <1>6
  <2> QED
    BY <2>1, <2>2, <1>5, NewLineSound
<1>8. /\ job' \in JobType /\ job'.at = job.at
      /\ job'.done + job'.left = job.done + job.left
  <2>1. 0 \in 0 .. Width
    BY StoreAssumption DEF StoreAssumption
  <2> QED
    BY <1>3, <1>4, <1>6, <2>1 DEF JobType
<1>9. lines' \in Seq(Seq(Streams))
  BY <1>1, <1>3, <1>4, LinesType
<1>10. hit' \in BOOLEAN
  BY <1>4 DEF IInv, Hit
<1>11. BlockSound' /\ JobSound'
  BY <1>2, <1>7, <1>8 DEF BlockSound, JobSound, LastChunk
<1> QED
  BY <1>8, <1>9, <1>10, <1>11 DEF IInv

LEMMA FinishMade == IInv /\ Finish => IInv' /\ block'.made
<1> SUFFICES ASSUME IInv, Finish PROVE IInv' /\ block'.made
  OBVIOUS
<1> DEFINE feeds == LastChunk(block).feed
           laid == IF feeds THEN NewLine(block, job.at, job.done + job.left) ELSE block
           endx == IF feeds THEN 0 ELSE job.x + job.left
           n == Len(laid.chunks)
           final == [laid.chunks[n] EXCEPT !.endx = endx]
           kept == [laid EXCEPT !.chunks = [laid.chunks EXCEPT ![n] = final]]
<1>1. ~Idle /\ job.left <= Width - job.x
  BY DEF Finish
<1>2. /\ Sound(block) /\ block.made /\ block.chunks # <<>> /\ job.at = block.lastdata
      /\ job.done + job.left <= Len(LastChunk(block).text)
  BY <1>1 DEF IInv, JobSound, BlockSound
<1>3. /\ job.left \in Nat /\ job.done + job.left \in Nat
      /\ job.x + job.left \in 0 .. Width /\ 0 \in 0 .. Width
  BY <1>1, StoreAssumption DEF IInv, JobType, StoreAssumption
<1>4. feeds \in BOOLEAN
  <2>1. LastChunk(block) \in ChunkType
    BY <1>2 DEF LastChunk, Sound, BlockType
  <2> QED
    BY <2>1 DEF ChunkType
<1>5. Sound(laid) /\ laid.made = block.made /\ laid.chunks # <<>>
  <2>1. CASE feeds
    <3>1. laid = NewLine(block, job.at, job.done + job.left)
      BY <2>1
    <3> QED
      BY <1>2, <1>3, <3>1, NewLineSound
  <2>2. CASE ~feeds
    BY <1>2, <2>2
  <2> QED
    BY <1>4, <2>1, <2>2
<1>6. endx \in 0 .. Width
  BY <1>3
<1> HIDE DEF endx, laid
<1>7. laid.chunks \in Seq(ChunkType) /\ n \in 1 .. n
  BY <1>5 DEF Sound, BlockType
<1>8. laid.chunks[n] \in ChunkType
  BY <1>7
<1>9. /\ final \in ChunkType /\ final.at = laid.chunks[n].at /\ final.text = laid.chunks[n].text
      /\ final.type = laid.chunks[n].type /\ final.length = laid.chunks[n].length
  BY <1>6, <1>8 DEF ChunkType
<1>10. block' = Released(kept)
  BY <1>5 DEF Finish, laid, endx, Sound, BlockType
<1> HIDE DEF final
<1>11. Sound(kept) /\ kept.made = block.made /\ Len(kept.chunks) = n
  BY <1>5, <1>7, <1>9, RelabelledSound
<1> HIDE DEF kept
<1>12. kept.chunks # <<>>
  BY <1>7, <1>11
<1>13. Sound(block') /\ block'.made
  BY <1>2, <1>10, <1>11, <1>12, ReleasedSound
<1>14. lines' \in Seq(Seq(Streams)) /\ job' = NoJob /\ hit' \in BOOLEAN
  BY <1>1, <1>3, <1>4, LinesType DEF Finish, IInv, Hit
<1> QED
  BY <1>13, <1>14, NoJobType DEF IInv, BlockSound, JobSound, Idle

LEMMA FinishInv == IInv /\ Finish => IInv'
BY FinishMade

LEMMA ScrollInv == ASSUME IInv, NEW k \in Int, Scroll(k) PROVE IInv'
<1> DEFINE pos == block'.pos
           scrolling == block'.scrolling
           on == IF block.pos + k > block.avail THEN block.avail ELSE block.pos + k
<1>1. /\ block.made /\ Idle /\ k > 0 /\ Sound(block)
      /\ job' = job /\ lines' = lines /\ hit' = hit
  BY DEF Scroll, IInv, BlockSound
<1>2. block.avail \in 1 .. MaxLines /\ block.pos \in 1 .. block.avail /\ MaxLines \in Nat
      /\ Visible \in Nat \ {0} /\ block.scrolling \in BOOLEAN
  BY <1>1, StoreAssumption DEF StoreAssumption, Sound, BlockType, Table, View
<1>3. \E p \in 1 .. block.avail, s \in BOOLEAN :
        /\ block' = [block EXCEPT !.pos = p, !.scrolling = s]
        /\ ~s => p = IF Visible >= block.avail THEN 1 ELSE block.avail - Visible + 1
  <2>1. CASE block' = ScrolledBack(block, k)
    <3> DEFINE p == IF k >= block.pos THEN 1 ELSE block.pos - k
    <3>1. block' = [block EXCEPT !.pos = p, !.scrolling = TRUE]
      BY <1>1, <2>1 DEF ScrolledBack, Sound, BlockType
    <3>2. p \in 1 .. block.avail
      BY <1>1, <1>2
    <3> QED
      BY <3>1, <3>2
  <2>2. CASE block' = ScrolledOn(block, k)
    <3>1. on \in 1 .. block.avail /\ on >= block.pos
      BY <1>1, <1>2
    <3>2. CASE on + Visible > block.avail
      <4> DEFINE p == IF Visible > block.avail THEN 1 ELSE block.avail - Visible + 1
      <4>1. block' = [block EXCEPT !.pos = p, !.scrolling = FALSE]
        BY <2>2, <3>2 DEF ScrolledOn
      <4>2. p \in 1 .. block.avail
        BY <1>2
      <4>3. p = IF Visible >= block.avail THEN 1 ELSE block.avail - Visible + 1
        BY <1>2
      <4> QED
        BY <4>1, <4>2, <4>3
    <3>3. CASE ~(on + Visible > block.avail)
      <4>1. block' = [block EXCEPT !.pos = on]
        BY <2>2, <3>3 DEF ScrolledOn
      <4>2. block' = [block EXCEPT !.pos = on, !.scrolling = block.scrolling]
        BY <1>1, <4>1 DEF Sound, BlockType
      <4>3. block.scrolling
        <5>1. ~block.scrolling =>
                block.pos = IF Visible >= block.avail THEN 1 ELSE block.avail - Visible + 1
          BY <1>1 DEF Sound, View
        <5> QED
          BY <5>1, <1>2, <3>1, <3>3
      <4> HIDE DEF on
      <4> QED
        BY <1>2, <3>1, <4>2, <4>3
    <3> QED
      BY <3>2, <3>3
  <2> QED
    BY <2>1, <2>2 DEF Scroll
<1>4. PICK p \in 1 .. block.avail, s \in BOOLEAN :
        /\ block' = [block EXCEPT !.pos = p, !.scrolling = s]
        /\ ~s => p = IF Visible >= block.avail THEN 1 ELSE block.avail - Visible + 1
  BY <1>3
<1>5. /\ block'.made = block.made /\ block'.total = block.total /\ block'.free = block.free
      /\ block'.chunks = block.chunks /\ block'.lastdata = block.lastdata
      /\ block'.term = block.term /\ block'.tab = block.tab /\ block'.avail = block.avail
      /\ block'.pos = p /\ block'.scrolling = s
  BY <1>1, <1>4 DEF Sound, BlockType
<1>6. block' \in BlockType
  <2>1. p \in 0 .. MaxLines
    BY <1>2
  <2> QED
    BY <1>1, <1>4, <2>1 DEF Sound, BlockType
<1>7. Room(block') /\ Chain(block') /\ Ahead(block') /\ Table(block')
  BY <1>1, <1>5 DEF Sound, Room, Chain, Ahead, Table, InChunk
<1>8. View(block')
  BY <1>4, <1>5 DEF View
<1>9. BlockSound'
  BY <1>1, <1>5, <1>6, <1>7, <1>8 DEF BlockSound, Sound
<1> QED
  BY <1>1, <1>9 DEF IInv, JobSound, Idle

LEMMA NextInv == IInv /\ [Next]_vars => IInv'
<1> SUFFICES ASSUME IInv, [Next]_vars PROVE IInv'
  OBVIOUS
<1>1. ASSUME NEW stream \in Streams, NEW n \in Pieces, NEW feed \in BOOLEAN,
             Store(stream, n, feed)
      PROVE  IInv'
  BY <1>1, StoreInv
<1>2. CASE Wrap
  BY <1>2, WrapInv
<1>3. CASE Finish
  BY <1>3, FinishInv
<1>4. ASSUME NEW k \in 1 .. MaxLines, Scroll(k) PROVE IInv'
  BY <1>4, ScrollInv
<1>5. CASE ScrollPage
  <2>1. Visible - 1 \in Int
    BY StoreAssumption DEF StoreAssumption
  <2> QED
    BY <1>5, <2>1, ScrollInv DEF ScrollPage
<1>6. CASE Clear
  BY <1>6, ClearInv
<1>7. CASE UNCHANGED vars
  BY <1>7 DEF vars, IInv, BlockSound, JobSound, Idle
<1> QED
  BY <1>1, <1>2, <1>3, <1>4, <1>5, <1>6, <1>7 DEF Next

LEMMA Invariance == Spec => []IInv
BY InitInv, NextInv, PTL DEF Spec

-----------------------------------------------------------------------------
(* The numbers up to n, one after the other: G is a set, so that no        *)
(* operator stands for the induction hypothesis.                           *)
LEMMA Upto ==
  ASSUME NEW n \in Nat, NEW G, 0 \in G, \A k \in 1 .. n : k - 1 \in G => k \in G
  PROVE  \A k \in 0 .. n : k \in G
<1> DEFINE Bad == {k \in 0 .. n : k \notin G}
<1>1. SUFFICES ASSUME Bad # {} PROVE FALSE
  OBVIOUS
<1>2. PICK R : R = OpToRel(<, Nat)
  OBVIOUS
<1>3. IsWellFoundedOn(R, Nat)
  BY <1>2, NatLessThanWellFounded
<1>4. Bad \subseteq Nat
  OBVIOUS
<1>5. PICK k \in Bad : \A j \in Bad : ~(<<j, k>> \in R)
  <2> HIDE DEF Bad
  <2> QED
    BY <1>1, <1>3, <1>4, WFMin
<1>6. PICK j : j = k - 1
  OBVIOUS
<1>7. k # 0 /\ k \in 1 .. n /\ j \in 0 .. n /\ j < k
  BY <1>6
<1>8. <<j, k>> \in R
  BY <1>2, <1>7 DEF OpToRel
<1>9. j \in G
  BY <1>5, <1>7, <1>8
<1> QED
  BY <1>6, <1>7, <1>9

-----------------------------------------------------------------------------
(* The text of the chunks *)

Joined(s, c) == s \o c.text
Joins(cs, n, f) == f = [k \in 0 .. n |-> IF k = 0 THEN <<>> ELSE Joined(f[k - 1], cs[k])]

(* The definition of Texts has a value: it is built chunk by chunk. *)
LEMMA JoinsExist ==
  ASSUME NEW cs, NEW n \in Nat
  PROVE  \E f : Joins(cs, n, f)
<1> DEFINE G == {k \in 0 .. n : \E f : Joins(cs, k, f)}
<1>1. 0 \in G
  <2>1. PICK f : f = [k \in 0 .. 0 |-> <<>>]
    OBVIOUS
  <2>2. Joins(cs, 0, f)
    BY <2>1 DEF Joins
  <2> QED
    BY <2>2
<1>2. ASSUME NEW k \in 1 .. n, k - 1 \in G PROVE k \in G
  <2>1. PICK h : h = k - 1
    OBVIOUS
  <2>2. h \in Nat /\ k = h + 1
    BY <2>1
  <2>3. PICK f : Joins(cs, h, f)
    BY <1>2, <2>1
  <2>4. \A j \in 0 .. h : f[j] = IF j = 0 THEN <<>> ELSE Joined(f[j - 1], cs[j])
    <3>1. PICK g : g = f
      OBVIOUS
    <3>2. g = [j \in 0 .. h |-> IF j = 0 THEN <<>> ELSE Joined(f[j - 1], cs[j])]
      BY <2>3, <3>1 DEF Joins
    <3> QED
      BY <3>1, <3>2
  <2>5. PICK final : final = Joined(f[h], cs[k])
    OBVIOUS
  <2>6. PICK g : g = [j \in 0 .. k |-> IF j = k THEN final ELSE f[j]]
    OBVIOUS
  <2>7. ASSUME NEW j \in 0 .. k
        PROVE  g[j] = IF j = 0 THEN <<>> ELSE Joined(g[j - 1], cs[j])
    <3>1. CASE j = 0
      BY <2>2, <2>4, <2>6, <3>1
    <3>2. CASE j = k
      <4>1. g[k] = final /\ g[k - 1] = f[h]
        BY <2>1, <2>2, <2>6
      <4> QED
        BY <2>2, <2>5, <3>2, <4>1
    <3>3. CASE j # 0 /\ j # k
      <4>1. j \in 0 .. h /\ j - 1 \in 0 .. k /\ j - 1 # k
        BY <2>2, <2>7, <3>3
      <4>2. g[j] = f[j] /\ g[j - 1] = f[j - 1]
        BY <2>6, <3>3, <4>1
      <4> QED
        BY <2>4, <3>3, <4>1, <4>2
    <3> QED
      BY <3>1, <3>2, <3>3
  <2>8. Joins(cs, k, g)
    <3>1. g = [j \in 0 .. k |-> g[j]]
      BY <2>6
    <3> QED
      BY <2>7, <3>1 DEF Joins
  <2> QED
    BY <2>8
<1>3. n \in G
  <2> HIDE DEF G
  <2> QED
    BY <1>1, <1>2, Upto
<1> QED
  BY <1>3

(* What Texts is at each chunk. *)
LEMMA TextsAre ==
  ASSUME NEW cs, Len(cs) \in Nat
  PROVE  /\ Texts(cs)[0] = <<>>
         /\ \A k \in 1 .. Len(cs) : Texts(cs)[k] = Joined(Texts(cs)[k - 1], cs[k])
<1>1. PICK n : n = Len(cs)
  OBVIOUS
<1>2. PICK f : f = CHOOSE g : Joins(cs, n, g)
  OBVIOUS
<1>3. Joins(cs, n, f)
  <2>1. \E g : Joins(cs, n, g)
    BY <1>1, JoinsExist
  <2> QED
    BY <1>2, <2>1, Zenon
<1>4. \A k \in 0 .. n : f[k] = IF k = 0 THEN <<>> ELSE Joined(f[k - 1], cs[k])
  <2>1. PICK g : g = f
    OBVIOUS
  <2>2. g = [k \in 0 .. n |-> IF k = 0 THEN <<>> ELSE Joined(f[k - 1], cs[k])]
    BY <1>3, <2>1 DEF Joins
  <2> QED
    BY <2>1, <2>2
<1>5. Texts(cs) = f
  BY <1>1, <1>2, Zenon DEF Texts, Joins, Joined
<1>6. f[0] = <<>> /\ \A k \in 1 .. n : f[k] = Joined(f[k - 1], cs[k])
  BY <1>1, <1>4
<1> QED
  BY <1>1, <1>5, <1>6

(* s is t and then u. *)
Follows(s, t, u) ==
  /\ Len(s) = Len(t) + Len(u)
  /\ \A i \in 1 .. Len(u) : s[Len(t) + i] = u[i]
Extends(s, t, u) == Follows(s, t, u) /\ \A i \in 1 .. Len(t) : s[i] = t[i]

(* With each chunk its text is added. *)
LEMMA TextsGrow ==
  ASSUME NEW cs \in Seq(ChunkType), NEW T, T = Texts(cs), NEW k \in 1 .. Len(cs)
  PROVE  /\ T[k - 1] \in Seq(Streams) /\ T[k] \in Seq(Streams) /\ cs[k].text \in Seq(Streams)
         /\ Len(T[k]) = Len(T[k - 1]) + Len(cs[k].text)
         /\ Extends(T[k], T[k - 1], cs[k].text)
<1>1. \A j \in 1 .. Len(cs) : cs[j].text \in Seq(Streams)
  <2>1. \A j \in 1 .. Len(cs) : cs[j] \in ChunkType
    OBVIOUS
  <2> QED
    BY <2>1 DEF ChunkType
<1>2. T[0] = <<>> /\ \A j \in 1 .. Len(cs) : T[j] = Joined(T[j - 1], cs[j])
  <2>1. Len(cs) \in Nat
    OBVIOUS
  <2> QED
    BY <2>1, TextsAre
<1>3. \A j \in 0 .. Len(cs) : T[j] \in Seq(Streams)
  <2> DEFINE G == {j \in 0 .. Len(cs) : T[j] \in Seq(Streams)}
  <2>1. 0 \in G
    <3>1. <<>> \in Seq(Streams) /\ 0 \in 0 .. Len(cs)
      OBVIOUS
    <3> QED
      BY <1>2, <3>1
  <2>2. ASSUME NEW j \in 1 .. Len(cs), j - 1 \in G PROVE j \in G
    <3>1. T[j] = Joined(T[j - 1], cs[j])
      BY <1>2
    <3>2. T[j - 1] \in Seq(Streams) /\ cs[j].text \in Seq(Streams)
      BY <1>1, <2>2
    <3>3. T[j] \in Seq(Streams)
      BY <3>1, <3>2 DEF Joined
    <3> QED
      BY <3>3
  <2>3. Len(cs) \in Nat
    OBVIOUS
  <2> HIDE DEF G
  <2>4. \A j \in 0 .. Len(cs) : j \in G
    BY <2>1, <2>2, <2>3, Upto
  <2> QED
    BY <2>4 DEF G
<1>4. PICK s, u : s = T[k - 1] /\ u = cs[k].text
  OBVIOUS
<1>5. s \in Seq(Streams) /\ u \in Seq(Streams) /\ T[k] = s \o u
  <2>1. k - 1 \in 0 .. Len(cs)
    OBVIOUS
  <2>2. s \in Seq(Streams) /\ u \in Seq(Streams)
    BY <1>1, <1>3, <1>4, <2>1
  <2>3. T[k] = Joined(s, cs[k])
    BY <1>2, <1>4
  <2> QED
    BY <1>4, <2>2, <2>3 DEF Joined
<1>6. /\ Len(s \o u) = Len(s) + Len(u) /\ s \o u \in Seq(Streams)
      /\ \A i \in 1 .. Len(s) : (s \o u)[i] = s[i]
      /\ \A i \in 1 .. Len(u) : (s \o u)[Len(s) + i] = u[i]
  BY <1>5
<1>7. Extends(T[k], s, u)
  BY <1>5, <1>6, Zenon DEF Extends, Follows
<1> QED
  BY <1>4, <1>5, <1>6, <1>7

(* A text goes on in the same way when both get the same chunk more. *)
LEMMA FollowsStep ==
  ASSUME NEW A, NEW s \in Seq(A), NEW t \in Seq(A), NEW u \in Seq(A), NEW x \in Seq(A),
         NEW s2 \in Seq(A), NEW u2 \in Seq(A),
         Follows(s, t, u), Extends(s2, s, x), Extends(u2, u, x)
  PROVE  Follows(s2, t, u2)
<1>1. /\ Len(s) \in Nat /\ Len(t) \in Nat /\ Len(u) \in Nat /\ Len(x) \in Nat
      /\ Len(s) = Len(t) + Len(u) /\ Len(s2) = Len(s) + Len(x) /\ Len(u2) = Len(u) + Len(x)
  BY DEF Follows, Extends
<1>2. ASSUME NEW i \in 1 .. Len(u2) PROVE s2[Len(t) + i] = u2[i]
  <2>1. CASE i <= Len(u)
    <3>1. i \in 1 .. Len(u)
      BY <1>1, <2>1
    <3>2. PICK j : j = Len(t) + i
      OBVIOUS
    <3>3. j \in 1 .. Len(s)
      BY <1>1, <3>1, <3>2
    <3>4. s[j] = u[i] /\ u2[i] = u[i] /\ s2[j] = s[j]
      BY <3>1, <3>2, <3>3 DEF Follows, Extends
    <3> QED
      BY <3>2, <3>4
  <2>2. CASE ~(i <= Len(u))
    <3>1. PICK j : j = i - Len(u)
      OBVIOUS
    <3>2. j \in 1 .. Len(x) /\ i = Len(u) + j /\ Len(t) + i = Len(s) + j
      BY <1>1, <2>2, <3>1
    <3>3. u2[Len(u) + j] = x[j] /\ s2[Len(s) + j] = x[j]
      BY <3>2 DEF Follows, Extends
    <3> QED
      BY <3>2, <3>3
  <2> QED
    BY <2>1, <2>2
<1> QED
  BY <1>1, <1>2 DEF Follows

(* The texts are sequences, longer the more chunks they span. *)
LEMMA TextsRise ==
  ASSUME NEW cs \in Seq(ChunkType), NEW T, T = Texts(cs)
  PROVE  /\ \A k \in 0 .. Len(cs) : T[k] \in Seq(Streams)
         /\ \A j, k \in 0 .. Len(cs) : j <= k => Len(T[j]) <= Len(T[k])
         /\ T[0] = <<>>
         /\ \A k \in 1 .. Len(cs) : Extends(T[k], T[k - 1], cs[k].text)
<1> DEFINE G == {k \in 0 .. Len(cs) :
                   /\ T[k] \in Seq(Streams)
                   /\ \A j \in 0 .. Len(cs) : j <= k => Len(T[j]) <= Len(T[k])}
<1>1. Len(cs) \in Nat
  OBVIOUS
<1>2. T[0] = <<>>
  BY <1>1, TextsAre
<1>3. 0 \in G
  <2>1. T[0] \in Seq(Streams) /\ Len(T[0]) = 0 /\ 0 \in 0 .. Len(cs)
    BY <1>1, <1>2
  <2>2. \A j \in 0 .. Len(cs) : j <= 0 => j = 0
    BY <1>1
  <2> QED
    BY <2>1, <2>2
<1>4. ASSUME NEW k \in 1 .. Len(cs), k - 1 \in G PROVE k \in G
  <2>1. PICK h : h = k - 1
    OBVIOUS
  <2>2. /\ T[h] \in Seq(Streams) /\ T[k] \in Seq(Streams) /\ cs[k].text \in Seq(Streams)
        /\ Len(T[k]) = Len(T[h]) + Len(cs[k].text)
    BY <2>1, TextsGrow
  <2>3. Len(T[h]) <= Len(T[k]) /\ Len(T[h]) \in Nat /\ Len(T[k]) \in Nat
    <3>1. PICK a, b, c : a = Len(T[h]) /\ b = Len(cs[k].text) /\ c = Len(T[k])
      OBVIOUS
    <3>2. a \in Nat
      BY <2>2, <3>1
    <3>3. b \in Nat
      BY <2>2, <3>1
    <3>4. c = a + b
      BY <2>2, <3>1, Zenon
    <3>5. a <= c /\ c \in Nat
      BY <3>2, <3>3, <3>4
    <3> QED
      BY <3>1, <3>2, <3>5, Zenon
  <2>4. \A j \in 0 .. Len(cs) : j <= h => Len(T[j]) <= Len(T[h])
    BY <1>4, <2>1
  <2>5. ASSUME NEW j \in 0 .. Len(cs), j <= k PROVE Len(T[j]) <= Len(T[k])
    <3>1. CASE j = k
      BY <2>3, <3>1
    <3>2. CASE j # k
      <4>1. j <= h
        BY <1>1, <2>1, <2>5, <3>2
      <4>2. Len(T[j]) <= Len(T[h])
        BY <2>4, <4>1
      <4>3. PICK a, b, c : a = Len(T[j]) /\ b = Len(T[h]) /\ c = Len(T[k])
        OBVIOUS
      <4>4. a <= b /\ b <= c /\ b \in Nat /\ c \in Nat
        BY <2>3, <4>2, <4>3
      <4>5. a \in Int
        <5>1. h < k /\ h \in 0 .. Len(cs)
          BY <1>1, <2>1
        <5>2. j = 0 \/ j \in 1 .. Len(cs)
          OBVIOUS
        <5>3. ASSUME j \in 1 .. Len(cs) PROVE T[j] \in Seq(Streams)
          BY <5>3, TextsGrow
        <5>4. <<>> \in Seq(Streams)
          OBVIOUS
        <5>5. T[j] \in Seq(Streams)
          BY <5>2, <5>3, <5>4, <1>2
        <5> QED
          BY <4>3, <5>5
      <4> QED
        BY <4>3, <4>4, <4>5
    <3> QED
      BY <3>1, <3>2
  <2>6. k \in 0 .. Len(cs)
    BY <1>1
  <2>7. T[k] \in Seq(Streams)
    BY <2>2
  <2> QED
    BY <2>5, <2>6, <2>7, Zenon
<1>5. \A k \in 0 .. Len(cs) : k \in G
  <2> HIDE DEF G
  <2> QED
    BY <1>1, <1>3, <1>4, Upto
<1>6. ASSUME NEW k \in 1 .. Len(cs)
      PROVE  Extends(T[k], T[k - 1], cs[k].text)
  BY TextsGrow
<1> QED
  BY <1>2, <1>5, <1>6

(* Without its first d chunks a text goes on where they end. *)
LEMMA Drop ==
  ASSUME NEW cs \in Seq(ChunkType), NEW ds \in Seq(ChunkType),
         NEW S, S = Texts(cs), NEW T, T = Texts(ds),
         NEW d \in Nat, NEW q \in Nat, d + q <= Len(cs), q <= Len(ds),
         \A k \in 1 .. q : ds[k].text = cs[d + k].text
  PROVE  \A k \in 0 .. q : Follows(S[d + k], S[d], T[k])
<1> DEFINE G == {k \in 0 .. q : Follows(S[d + k], S[d], T[k])}
<1>1. Len(cs) \in Nat /\ Len(ds) \in Nat
  OBVIOUS
<1>2. /\ \A k \in 0 .. Len(cs) : S[k] \in Seq(Streams)
      /\ \A k \in 1 .. Len(cs) : Extends(S[k], S[k - 1], cs[k].text)
  BY TextsRise
<1>3. /\ \A k \in 0 .. Len(ds) : T[k] \in Seq(Streams)
      /\ T[0] = <<>>
      /\ \A k \in 1 .. Len(ds) : Extends(T[k], T[k - 1], ds[k].text)
  BY TextsRise
<1>4. 0 \in G
  <2>1. S[d] \in Seq(Streams)
    BY <1>1, <1>2
  <2>2. d + 0 = d /\ Len(S[d]) \in Nat /\ Len(T[0]) = 0
    BY <1>3, <2>1
  <2>3. Follows(S[d], S[d], T[0])
    BY <2>2 DEF Follows
  <2> QED
    BY <2>2, <2>3
<1>5. ASSUME NEW k \in 1 .. q, k - 1 \in G PROVE k \in G
  <2>1. PICK h, e, f : h = k - 1 /\ e = d + k /\ f = d + h
    OBVIOUS
  <2>2. /\ h \in 0 .. Len(ds) /\ k \in 1 .. Len(ds) /\ e \in 1 .. Len(cs)
        /\ f \in 0 .. Len(cs) /\ f = e - 1 /\ k \in 0 .. Len(ds) /\ e \in 0 .. Len(cs)
        /\ d \in 0 .. Len(cs)
    BY <1>1, <2>1
  <2>3. PICK x : x = ds[k].text
    OBVIOUS
  <2>4. x \in Seq(Streams) /\ x = cs[e].text
    <3>1. ds[k] \in ChunkType
      BY <2>2
    <3> QED
      BY <2>1, <2>3, <3>1 DEF ChunkType
  <2>5. Follows(S[f], S[d], T[h])
    BY <1>5, <2>1
  <2>6. Extends(S[e], S[f], x) /\ Extends(T[k], T[h], x)
    BY <1>2, <1>3, <2>1, <2>2, <2>3, <2>4
  <2>7. /\ S[f] \in Seq(Streams) /\ S[d] \in Seq(Streams) /\ T[h] \in Seq(Streams)
        /\ S[e] \in Seq(Streams) /\ T[k] \in Seq(Streams)
    BY <1>2, <1>3, <2>2
  <2>8. Follows(S[e], S[d], T[k])
    BY <2>4, <2>5, <2>6, <2>7, FollowsStep, SMTT(60)
  <2> QED
    BY <2>1, <2>8
<1>6. \A k \in 0 .. q : k \in G
  <2> HIDE DEF G
  <2> QED
    BY <1>4, <1>5, Upto
<1> QED
  BY <1>6
-----------------------------------------------------------------------------
(* The text of a block *)

Whole(b) == Texts(b.chunks)[Len(b.chunks)]

(* The types that the lemmas about the text need of a block. *)
LEMMA BlockChunks ==
  ASSUME NEW b, Sound(b)
  PROVE  /\ b.chunks \in Seq(ChunkType) /\ Len(b.chunks) \in Nat
         /\ DOMAIN b.chunks = 1 .. Len(b.chunks)
         /\ b.avail \in 1 .. MaxLines /\ MaxLines \in Nat
         /\ b.tab \in [0 .. MaxLines -> RefType]
         /\ \A i \in 0 .. b.avail - 1 : b.tab[i] \in RefType
         /\ Whole(b) \in Seq(Streams) /\ Len(Whole(b)) \in Nat
<1>1. b.chunks \in Seq(ChunkType) /\ Len(b.chunks) \in Nat
  BY DEF Sound, BlockType
<1>2. /\ b.avail \in 1 .. MaxLines /\ MaxLines \in Nat
      /\ b.tab \in [0 .. MaxLines -> RefType]
  BY StoreAssumption DEF StoreAssumption, Sound, BlockType, Table
<1>3. \A i \in 0 .. b.avail - 1 : b.tab[i] \in RefType
  BY <1>2
<1>4. DOMAIN b.chunks = 1 .. Len(b.chunks)
  BY <1>1
<1>5. Whole(b) \in Seq(Streams)
  <2>1. Len(b.chunks) \in 0 .. Len(b.chunks)
    BY <1>1
  <2> QED
    BY <1>1, <2>1, TextsRise DEF Whole
<1> QED
  BY <1>1, <1>2, <1>3, <1>4, <1>5

(* What stands in front of a chunk, and in front of the terminator. *)
LEMMA Before ==
  ASSUME NEW b, Sound(b), NEW k \in 1 .. Len(b.chunks)
  PROVE  TextBefore(b, b.chunks[k].at) = Texts(b.chunks)[k - 1]
<1>1. Len(b.chunks) \in Nat /\ DOMAIN b.chunks = 1 .. Len(b.chunks)
  BY BlockChunks
<1>2. ASSUME NEW j \in 1 .. Len(b.chunks)
      PROVE  b.chunks[j].at < b.chunks[k].at <=> j < k
  <2>1. j < k => b.chunks[j].at < b.chunks[k].at
    BY ChunkOrder
  <2>2. k < j => b.chunks[k].at < b.chunks[j].at
    BY ChunkOrder
  <2>3. b.chunks[j].at \in Nat /\ b.chunks[k].at \in Nat
    BY ChunkOrder
  <2> QED
    BY <1>1, <2>1, <2>2, <2>3
<1>3. {j \in DOMAIN b.chunks : b.chunks[j].at < b.chunks[k].at} = 1 .. k - 1
  BY <1>1, <1>2
<1>4. Cardinality(1 .. k - 1) = k - 1
  <2>1. PICK h : h = k - 1
    OBVIOUS
  <2>2. h \in Int /\ 1 \in Int /\ h >= 0
    BY <1>1, <2>1
  <2>3. Cardinality(1 .. h) = IF 1 > h THEN 0 ELSE h - 1 + 1
    BY <2>2, FS_Interval
  <2>4. Cardinality(1 .. h) = h
    BY <2>2, <2>3
  <2> QED
    BY <2>1, <2>4
<1> QED
  BY <1>3, <1>4, Zenon DEF TextBefore

(* In front of the terminator stands the whole text. *)
LEMMA BeforeTerm ==
  ASSUME NEW b, Sound(b)
  PROVE  TextBefore(b, b.term) = Whole(b)
<1> DEFINE n == Len(b.chunks)
<1>1. n \in Nat /\ DOMAIN b.chunks = 1 .. n /\ b.chunks \in Seq(ChunkType)
  BY BlockChunks
<1>2. ASSUME NEW j \in 1 .. n PROVE b.chunks[j].at < b.term
  <2>1. n \in 1 .. n /\ b.term = ChunkEnd(b.chunks[n])
    BY <1>1 DEF Sound, Chain
  <2>2. b.chunks[n] \in ChunkType
    BY <1>1, <2>1
  <2>3. ChunkEnd(b.chunks[n]) \in Nat /\ ChunkEnd(b.chunks[n]) >= b.chunks[n].at + 34
    BY <2>2, ChunkEndBounds
  <2>4. b.chunks[j].at \in Nat /\ b.chunks[n].at \in Nat
    BY <2>1, ChunkOrder
  <2>5. j < n => b.chunks[j].at < b.chunks[n].at
    BY <2>1, ChunkOrder
  <2>6. b.chunks[j].at <= b.chunks[n].at
    BY <1>1, <2>4, <2>5
  <2> QED
    BY <2>1, <2>3, <2>4, <2>6
<1>3. {j \in DOMAIN b.chunks : b.chunks[j].at < b.term} = 1 .. n
  BY <1>1, <1>2
<1>4. Cardinality(1 .. n) = n
  <2>1. n \in Int /\ 1 \in Int /\ n >= 0
    BY <1>1
  <2> HIDE DEF n
  <2>2. Cardinality(1 .. n) = IF 1 > n THEN 0 ELSE n - 1 + 1
    BY <2>1, FS_Interval
  <2> QED
    BY <2>1, <2>2
<1> QED
  BY <1>3, <1>4, Zenon DEF TextBefore, Whole

(* Where a reference into the k-th chunk leads. *)
LEMMA OffsetIs ==
  ASSUME NEW b, Sound(b), NEW ref \in RefType, NEW k \in 1 .. Len(b.chunks),
         b.chunks[k].at = ref.chunk
  PROVE  Offset(b, ref) = Len(Texts(b.chunks)[k - 1]) + ref.char
BY Before DEF Offset

(* An empty block has one line, at the start of no text. *)
LEMMA EmptyOffset ==
  ASSUME NEW b, Sound(b), b.chunks = <<>>
  PROVE  b.avail = 1 /\ Offset(b, b.tab[0]) = 0 /\ Whole(b) = <<>>
<1>1. b.avail = 1 /\ b.tab[0] = Ref(HeadLength, 0) /\ b.term = HeadLength
  BY DEF Sound, Table, Chain
<1>2. Whole(b) = <<>>
  <2>1. Len(b.chunks) = 0
    OBVIOUS
  <2> QED
    BY <2>1, TextsAre DEF Whole
<1>3. Offset(b, b.tab[0]) = Len(Whole(b)) + 0
  BY <1>1, BeforeTerm DEF Offset, Ref
<1> QED
  BY <1>1, <1>2, <1>3

(* Every line starts in the text. *)
LEMMA LineStart ==
  ASSUME NEW b, Sound(b), NEW i \in 0 .. b.avail - 1
  PROVE  Offset(b, b.tab[i]) \in 0 .. Len(Whole(b))
<1>1. CASE b.chunks = <<>>
  <2>1. i = 0
    BY <1>1, EmptyOffset
  <2> QED
    BY <1>1, <2>1, EmptyOffset
<1>2. CASE b.chunks # <<>>
  <2>1. PICK k \in 1 .. Len(b.chunks) :
          b.chunks[k].at = b.tab[i].chunk /\ b.tab[i].char <= Len(b.chunks[k].text)
    BY <1>2 DEF Sound, Table, InChunk
  <2>2. b.tab[i] \in RefType /\ b.tab[i].char \in Nat
    BY BlockChunks DEF RefType
  <2>3. PICK T : T = Texts(b.chunks)
    OBVIOUS
  <2>4. Offset(b, b.tab[i]) = Len(T[k - 1]) + b.tab[i].char
    BY <2>1, <2>2, <2>3, OffsetIs
  <2>5. b.chunks \in Seq(ChunkType) /\ Len(b.chunks) \in Nat
    BY BlockChunks
  <2>6. /\ T[k - 1] \in Seq(Streams) /\ b.chunks[k].text \in Seq(Streams)
        /\ Len(T[k]) = Len(T[k - 1]) + Len(b.chunks[k].text)
    BY <2>3, <2>5, TextsGrow
  <2>7. Len(T[k]) <= Len(Whole(b))
    <3>1. \A j, h \in 0 .. Len(b.chunks) : j <= h => Len(T[j]) <= Len(T[h])
      BY <2>3, <2>5, TextsRise
    <3>2. k \in 0 .. Len(b.chunks) /\ Len(b.chunks) \in 0 .. Len(b.chunks) /\ k <= Len(b.chunks)
      BY <2>5
    <3> QED
      BY <2>3, <3>1, <3>2 DEF Whole
  <2>8. PICK x, y, z, c : /\ x = Len(T[k - 1]) /\ y = Len(b.chunks[k].text)
                          /\ z = Len(Whole(b)) /\ c = b.tab[i].char
    OBVIOUS
  <2>9. x \in Nat /\ y \in Nat
    BY <2>6, <2>8
  <2>10. z \in Nat /\ c \in Nat
    BY <2>2, <2>8, BlockChunks
  <2>11. c <= y
    BY <2>1, <2>8
  <2>12. x + y <= z
    BY <2>6, <2>7, <2>8
  <2>13. x + c \in 0 .. z
    BY <2>9, <2>10, <2>11, <2>12
  <2> QED
    BY <2>4, <2>8, <2>13
<1> QED
  BY <1>1, <1>2
-----------------------------------------------------------------------------

(* The lines that the table of contents cuts out of the text, of which the *)
(* last "left" characters are not laid out yet.                            *)
Start(b, i) == Offset(b, b.tab[i - 1])
End(b, i, left) == IF i < b.avail THEN Start(b, i + 1) ELSE Len(Whole(b)) - left
Cut(b, ls, left) ==
  /\ ls = [i \in 1 .. b.avail |-> Part(Whole(b), Start(b, i), End(b, i, left))]
  /\ Start(b, b.avail) + left <= Len(Whole(b))

(* The same stretch, counted from a place that lies D further on. *)
LEMMA PartMoved ==
  ASSUME NEW s, NEW t, NEW D \in Nat, NEW from \in Nat, NEW to \in Int,
         \A j \in 1 .. to : t[j] = s[D + j]
  PROVE  Part(t, from, to) = Part(s, D + from, D + to)
<1>1. (D + to) - (D + from) = to - from
  OBVIOUS
<1>2. ASSUME NEW j \in 1 .. to - from PROVE t[from + j] = s[D + from + j]
  <2>1. PICK k : k = from + j
    OBVIOUS
  <2>2. k \in 1 .. to /\ D + k = D + from + j
    BY <2>1
  <2> QED
    BY <2>1, <2>2
<1> QED
  BY <1>1, <1>2 DEF Part

(* Where a line starts and ends is a place in the text. *)
LEMMA StartType ==
  ASSUME NEW b, Sound(b), NEW i \in 1 .. b.avail
  PROVE  Start(b, i) \in 0 .. Len(Whole(b)) /\ Len(Whole(b)) \in Nat
<1>1. b.avail \in Nat
  BY BlockChunks
<1>2. PICK h : h = i - 1
  OBVIOUS
<1>3. h \in 0 .. b.avail - 1
  BY <1>1, <1>2
<1>4. Offset(b, b.tab[h]) \in 0 .. Len(Whole(b))
  BY <1>3, LineStart
<1> QED
  BY <1>2, <1>4, BlockChunks DEF Start

LEMMA EndType ==
  ASSUME NEW b, Sound(b), NEW i \in 1 .. b.avail, NEW left \in Nat
  PROVE  /\ End(b, i, left) \in Int /\ End(b, i, left) <= Len(Whole(b))
         /\ i < b.avail => i + 1 \in 1 .. b.avail
<1>1. b.avail \in Nat /\ Len(Whole(b)) \in Nat
  BY BlockChunks
<1>2. i < b.avail => i + 1 \in 1 .. b.avail
  BY <1>1
<1>3. i < b.avail => Start(b, i + 1) \in 0 .. Len(Whole(b))
  BY <1>2, StartType
<1> QED
  BY <1>1, <1>2, <1>3 DEF End

(* c holds the text of b without its first D characters and with "more"    *)
(* characters at its end, and the lines start at the same ones.            *)
Displaced(b, c, D, more) ==
  /\ c.avail = b.avail
  /\ \A i \in 1 .. b.avail : Start(b, i) = D + Start(c, i)
  /\ D + Len(Whole(c)) = Len(Whole(b)) + more
  /\ \A j \in 1 .. Len(Whole(b)) - D : Whole(c)[j] = Whole(b)[D + j]

(* A text that lost D characters in front and got more at its end. *)
LEMMA CutMoved ==
  ASSUME NEW b, Sound(b), NEW c, Sound(c), NEW D \in Nat, NEW more \in Nat,
         NEW left \in Nat, Displaced(b, c, D, more), NEW ls, Cut(b, ls, left)
  PROVE  Cut(c, ls, left + more)
<1>1. /\ b.avail \in Nat /\ b.avail \in 1 .. b.avail
      /\ Len(Whole(b)) \in Nat /\ Len(Whole(c)) \in Nat
  BY BlockChunks
<1>2. c.avail = b.avail /\ D + Len(Whole(c)) = Len(Whole(b)) + more
  BY DEF Displaced
<1>3. ASSUME NEW i \in 1 .. b.avail
      PROVE  Start(c, i) \in Nat /\ Start(b, i) = D + Start(c, i)
  <2>1. Start(c, i) \in 0 .. Len(Whole(c))
    BY <1>2, StartType
  <2> QED
    BY <2>1 DEF Displaced
<1>4. ASSUME NEW i \in 1 .. b.avail
      PROVE  /\ End(b, i, left) = D + End(c, i, left + more)
             /\ End(c, i, left + more) \in Int
             /\ End(b, i, left) <= Len(Whole(b))
  <2>1. /\ End(b, i, left) <= Len(Whole(b)) /\ End(b, i, left) \in Int
        /\ i < b.avail => i + 1 \in 1 .. b.avail
    BY EndType
  <2>2. End(c, i, left + more) \in Int
    <3>1. left + more \in Nat /\ i \in 1 .. c.avail
      BY <1>2
    <3> QED
      BY <3>1, EndType
  <2>3. i < b.avail => Start(b, i + 1) = D + Start(c, i + 1)
    BY <1>3, <2>1
  <2>4. End(b, i, left) = D + End(c, i, left + more)
    BY <1>1, <1>2, <2>3 DEF End
  <2> QED
    BY <2>1, <2>2, <2>4
<1>5. ASSUME NEW i \in 1 .. b.avail
      PROVE  Part(Whole(c), Start(c, i), End(c, i, left + more))
               = Part(Whole(b), Start(b, i), End(b, i, left))
  <2>1. PICK from, to : from = Start(c, i) /\ to = End(c, i, left + more)
    OBVIOUS
  <2>2. /\ from \in Nat /\ to \in Int /\ Start(b, i) = D + from /\ End(b, i, left) = D + to
        /\ D + to <= Len(Whole(b))
    BY <1>3, <1>4, <2>1
  <2>3. \A j \in 1 .. to : j \in 1 .. Len(Whole(b)) - D
    BY <1>1, <2>2
  <2>4. \A j \in 1 .. to : Whole(c)[j] = Whole(b)[D + j]
    BY <2>3 DEF Displaced
  <2>5. Part(Whole(c), from, to) = Part(Whole(b), D + from, D + to)
    BY <2>2, <2>4, PartMoved
  <2> QED
    BY <2>1, <2>2, <2>5
<1>6. ls = [i \in 1 .. c.avail |-> Part(Whole(c), Start(c, i), End(c, i, left + more))]
  <2>1. ls = [i \in 1 .. b.avail |-> Part(Whole(b), Start(b, i), End(b, i, left))]
    BY DEF Cut
  <2> QED
    BY <1>2, <1>5, <2>1
<1>7. Start(c, c.avail) + (left + more) <= Len(Whole(c))
  <2>1. Start(b, b.avail) + left <= Len(Whole(b))
    BY DEF Cut
  <2>2. Start(c, b.avail) \in Nat /\ Start(b, b.avail) = D + Start(c, b.avail)
    BY <1>1, <1>3
  <2> QED
    BY <1>1, <1>2, <2>1, <2>2
<1> QED
  BY <1>6, <1>7 DEF Cut
(* c has the chunks of b from number d + 1 on, "dist" further to the front; *)
(* the text of the last of them may differ.                                *)
Kept(b, c, d, dist) ==
  LET n == Len(b.chunks)
  IN  /\ d < n /\ n - d <= Len(c.chunks)
      /\ c.avail = b.avail
      /\ \A k \in 1 .. n - d : c.chunks[k].at = b.chunks[d + k].at - dist
      /\ \A k \in 1 .. n - d - 1 : c.chunks[k].text = b.chunks[d + k].text
      /\ \A i \in 0 .. b.avail - 1 :
           /\ c.tab[i].chunk = b.tab[i].chunk - dist /\ c.tab[i].char = b.tab[i].char
           /\ b.chunks[d + 1].at <= b.tab[i].chunk

(* Every line starts as far behind the chunks that are gone as before. *)
LEMMA StartsKept ==
  ASSUME NEW b, Sound(b), NEW c, Sound(c), NEW d \in Nat, NEW dist \in Int, Kept(b, c, d, dist)
  PROVE  \A i \in 1 .. b.avail : Start(b, i) = Len(Texts(b.chunks)[d]) + Start(c, i)
<1> DEFINE n == Len(b.chunks)
<1>1. /\ n \in Nat /\ Len(c.chunks) \in Nat /\ b.avail \in Nat
      /\ b.chunks \in Seq(ChunkType) /\ c.chunks \in Seq(ChunkType)
  BY BlockChunks
<1>2. d < n /\ n - d <= Len(c.chunks) /\ c.avail = b.avail
  BY DEF Kept
<1>3. PICK S, T : S = Texts(b.chunks) /\ T = Texts(c.chunks)
  OBVIOUS
<1>4. \A k \in 0 .. n - d - 1 : Follows(S[d + k], S[d], T[k])
  <2>1. PICK q : q = n - d - 1
    OBVIOUS
  <2>2. q \in Nat /\ d + q <= Len(b.chunks) /\ q <= Len(c.chunks)
    BY <1>1, <1>2, <2>1
  <2>3. \A k \in 1 .. q : c.chunks[k].text = b.chunks[d + k].text
    BY <2>1 DEF Kept
  <2>4. \A k \in 0 .. q : Follows(S[d + k], S[d], T[k])
    BY <1>1, <1>3, <2>2, <2>3, Drop
  <2> QED
    BY <2>1, <2>4
<1>5. ASSUME NEW i \in 0 .. b.avail - 1
      PROVE  Offset(b, b.tab[i]) = Len(S[d]) + Offset(c, c.tab[i])
  <2>1. b.tab[i] \in RefType /\ c.tab[i] \in RefType
    BY <1>2, BlockChunks
  <2>2. PICK k \in 1 .. n : b.chunks[k].at = b.tab[i].chunk
    <3>1. b.chunks # <<>>
      BY <1>1, <1>2
    <3> QED
      BY <3>1 DEF Sound, Table, InChunk
  <2>3. /\ c.tab[i].chunk = b.tab[i].chunk - dist /\ c.tab[i].char = b.tab[i].char
        /\ b.chunks[d + 1].at <= b.tab[i].chunk
    BY DEF Kept
  <2>4. d + 1 <= k
    <3>1. d + 1 \in 1 .. n
      BY <1>1, <1>2
    <3>2. k < d + 1 => b.chunks[k].at < b.chunks[d + 1].at
      BY <3>1, ChunkOrder
    <3>3. b.chunks[k].at \in Nat /\ b.chunks[d + 1].at \in Nat
      BY <3>1, ChunkOrder
    <3> QED
      BY <1>1, <2>2, <2>3, <3>1, <3>2, <3>3
  <2>5. PICK h : h = k - d
    OBVIOUS
  <2>6. /\ h \in 1 .. n - d /\ d + h = k /\ h \in 1 .. Len(c.chunks)
        /\ h - 1 \in 0 .. n - d - 1 /\ d + (h - 1) = k - 1
    BY <1>1, <1>2, <2>4, <2>5
  <2>7. c.chunks[h].at = c.tab[i].chunk
    <3>1. c.chunks[h].at = b.chunks[k].at - dist
      BY <2>6 DEF Kept
    <3> QED
      BY <2>2, <2>3, <3>1
  <2>8. /\ Offset(b, b.tab[i]) = Len(S[k - 1]) + b.tab[i].char
        /\ Offset(c, c.tab[i]) = Len(T[h - 1]) + c.tab[i].char
    BY <1>3, <2>1, <2>2, <2>6, <2>7, OffsetIs
  <2>9. Len(S[k - 1]) = Len(S[d]) + Len(T[h - 1])
    BY <1>4, <2>6 DEF Follows
  <2>10. Len(S[d]) \in Nat /\ Len(T[h - 1]) \in Nat /\ b.tab[i].char \in Nat
    <3>1. d \in 0 .. n /\ h - 1 \in 0 .. Len(c.chunks)
      BY <1>1, <1>2, <2>6
    <3>2. S[d] \in Seq(Streams) /\ T[h - 1] \in Seq(Streams)
      BY <1>1, <1>3, <3>1, TextsRise
    <3>3. b.tab[i].char \in Nat
      BY <2>1 DEF RefType
    <3> QED
      BY <3>2, <3>3
  <2>11. PICK x, y, z : x = Len(S[d]) /\ y = Len(T[h - 1]) /\ z = b.tab[i].char
    OBVIOUS
  <2>12. Offset(b, b.tab[i]) = (x + y) + z /\ Offset(c, c.tab[i]) = y + z
    BY <2>3, <2>8, <2>9, <2>11, Zenon
  <2>13. (x + y) + z = x + (y + z)
    <3>1. x \in Nat /\ y \in Nat /\ z \in Nat
      BY <2>10, <2>11, Zenon
    <3> QED
      BY <3>1
  <2> QED
    BY <2>11, <2>12, <2>13, Zenon
<1>6. ASSUME NEW i \in 1 .. b.avail
      PROVE  Start(b, i) = Len(S[d]) + Start(c, i)
  <2>1. PICK h : h = i - 1
    OBVIOUS
  <2>2. h \in 0 .. b.avail - 1
    BY <1>1, <2>1
  <2>3. Offset(b, b.tab[h]) = Len(S[d]) + Offset(c, c.tab[h])
    BY <1>5, <2>2
  <2> QED
    BY <2>1, <2>3, Zenon DEF Start
<1> QED
  BY <1>3, <1>6

(* The chunks that are kept keep their text. *)
LEMMA MovedKept ==
  ASSUME NEW b, Sound(b), NEW c, Sound(c), NEW d \in Nat, NEW dist \in Int,
         Kept(b, c, d, dist), d + Len(c.chunks) = Len(b.chunks),
         LastChunk(c).text = LastChunk(b).text
  PROVE  Displaced(b, c, Len(Texts(b.chunks)[d]), 0) /\ Len(Texts(b.chunks)[d]) \in Nat
<1> DEFINE n == Len(b.chunks)
           m == Len(c.chunks)
<1>1. /\ n \in Nat /\ m \in Nat /\ b.avail \in Nat
      /\ b.chunks \in Seq(ChunkType) /\ c.chunks \in Seq(ChunkType)
  BY BlockChunks
<1>2. d < n /\ c.avail = b.avail /\ d + m = n
  BY DEF Kept
<1>3. PICK S, T : S = Texts(b.chunks) /\ T = Texts(c.chunks)
  OBVIOUS
<1>4. ASSUME NEW k \in 1 .. m PROVE c.chunks[k].text = b.chunks[d + k].text
  <2>1. CASE k = m
    BY <1>2, <2>1 DEF LastChunk
  <2>2. CASE k # m
    <3>1. k \in 1 .. n - d - 1
      BY <1>1, <1>2, <2>2
    <3> QED
      BY <3>1 DEF Kept
  <2> QED
    BY <2>1, <2>2
<1>5. Follows(S[n], S[d], T[m])
  <2>1. d + m <= Len(b.chunks) /\ m <= Len(c.chunks) /\ m \in 0 .. m
    BY <1>1, <1>2
  <2>2. \A k \in 0 .. m : Follows(S[d + k], S[d], T[k])
    BY <1>1, <1>3, <1>4, <2>1, Drop
  <2> QED
    BY <1>2, <2>1, <2>2
<1>6. Follows(Whole(b), S[d], Whole(c))
  BY <1>3, <1>5 DEF Whole
<1>7. Len(S[d]) \in Nat /\ Len(Whole(b)) \in Nat /\ Len(Whole(c)) \in Nat
  <2>1. d \in 0 .. n
    BY <1>1, <1>2
  <2>2. S[d] \in Seq(Streams)
    BY <1>1, <1>3, <2>1, TextsRise
  <2> QED
    BY <2>2, BlockChunks
<1>8. \A i \in 1 .. b.avail : Start(b, i) = Len(S[d]) + Start(c, i)
  BY <1>3, StartsKept
<1>9. Len(S[d]) + Len(Whole(c)) = Len(Whole(b)) + 0
  BY <1>6, <1>7 DEF Follows
<1>10. \A j \in 1 .. Len(Whole(b)) - Len(S[d]) : Whole(c)[j] = Whole(b)[Len(S[d]) + j]
  <2>1. Len(Whole(b)) - Len(S[d]) = Len(Whole(c))
    BY <1>7, <1>9
  <2> QED
    BY <1>6, <2>1 DEF Follows
<1> QED
  BY <1>2, <1>3, <1>7, <1>8, <1>9, <1>10 DEF Displaced

(* Two sequences with the same beginning, one of them longer by x. *)
Grown(s, t, u, x, s2, t2) ==
  /\ s \in Seq(Streams) /\ t \in Seq(Streams) /\ u \in Seq(Streams) /\ x \in Seq(Streams)
  /\ Follows(s, <<>>, t) /\ Extends(s2, s, u) /\ Extends(t2, t, u \o x)

LongerBy(s, t, n) == Len(t) = Len(s) + n /\ \A j \in 1 .. Len(s) : t[j] = s[j]

(* A chunk more: the text that follows on the longer chunk is longer. *)
LEMMA GrownLonger ==
  ASSUME NEW s, NEW t, NEW u, NEW x, NEW s2, NEW t2, Grown(s, t, u, x, s2, t2)
  PROVE  LongerBy(s2, t2, Len(x))
<1> DEFINE e == <<>>
<1>0. /\ s \in Seq(Streams) /\ t \in Seq(Streams) /\ u \in Seq(Streams)
      /\ x \in Seq(Streams)
      /\ Follows(s, e, t) /\ Extends(s2, s, u) /\ Extends(t2, t, u \o x)
  BY DEF Grown
<1>1. PICK v : v = u \o x
  OBVIOUS
<1>2. v \in Seq(Streams) /\ Len(v) = Len(u) + Len(x) /\ \A i \in 1 .. Len(u) : v[i] = u[i]
  BY <1>0, <1>1
<1>3. /\ Len(s) \in Nat /\ Len(t) \in Nat /\ Len(u) \in Nat /\ Len(x) \in Nat
      /\ Len(e) = 0
  BY <1>0
<1>4. /\ Len(s) = Len(t) /\ Len(s2) = Len(s) + Len(u) /\ Len(t2) = Len(t) + Len(v)
      /\ \A i \in 1 .. Len(t) : s[i] = t[i]
  BY <1>0, <1>1, <1>3 DEF Follows, Extends
<1>5. ASSUME NEW j \in 1 .. Len(s2) PROVE t2[j] = s2[j]
  <2>1. CASE j <= Len(s)
    <3>1. j \in 1 .. Len(s) /\ j \in 1 .. Len(t)
      BY <1>3, <1>4, <2>1
    <3>2. s2[j] = s[j] /\ t2[j] = t[j]
      BY <1>0, <3>1 DEF Extends
    <3> QED
      BY <1>4, <3>1, <3>2
  <2>2. CASE ~(j <= Len(s))
    <3>1. PICK i : i = j - Len(s)
      OBVIOUS
    <3>2. i \in 1 .. Len(u) /\ j = Len(s) + i
      BY <1>3, <1>4, <2>2, <3>1
    <3>3. j = Len(t) + i /\ i \in 1 .. Len(v)
      BY <1>2, <1>3, <1>4, <3>2
    <3>4. s2[Len(s) + i] = u[i] /\ t2[Len(t) + i] = v[i]
      BY <1>0, <1>1, <3>2, <3>3 DEF Extends, Follows
    <3> QED
      BY <1>2, <3>2, <3>3, <3>4
  <2> QED
    BY <2>1, <2>2
<1>6. Len(t2) = Len(s2) + Len(x)
  <2>1. PICK p, q, r : p = Len(t) /\ q = Len(u) /\ r = Len(x)
    OBVIOUS
  <2>2. p \in Nat /\ q \in Nat /\ r \in Nat
    BY <1>3, <2>1
  <2>3. Len(s2) = p + q /\ Len(t2) = p + (q + r)
    BY <1>2, <1>4, <2>1, Zenon
  <2> QED
    BY <2>1, <2>2, <2>3
<1> QED
  BY <1>5, <1>6, Zenon DEF LongerBy

(* The text of the last chunk grows. *)
LEMMA MovedExtended ==
  ASSUME NEW b, Sound(b), NEW c, Sound(c), NEW x \in Seq(Streams),
         Kept(b, c, 0, 0), Len(c.chunks) = Len(b.chunks),
         LastChunk(c).text = LastChunk(b).text \o x
  PROVE  Displaced(b, c, 0, Len(x))
<1> DEFINE n == Len(b.chunks)
<1>1. /\ n \in Nat /\ b.avail \in Nat
      /\ b.chunks \in Seq(ChunkType) /\ c.chunks \in Seq(ChunkType)
  BY BlockChunks
<1>2. 0 < n /\ c.avail = b.avail
  BY DEF Kept
<1>3. PICK S, T, h, u : /\ S = Texts(b.chunks) /\ T = Texts(c.chunks) /\ h = n - 1
                        /\ u = LastChunk(b).text
  OBVIOUS
<1>4. h \in Nat /\ 0 + h <= n /\ h <= n /\ n \in 1 .. n /\ h \in 0 .. h /\ 0 + h = h
  BY <1>1, <1>2, <1>3
<1>5. /\ S[0] = <<>>
      /\ S[h] \in Seq(Streams) /\ T[h] \in Seq(Streams)
      /\ S[n] \in Seq(Streams) /\ T[n] \in Seq(Streams) /\ u \in Seq(Streams)
      /\ Extends(S[n], S[h], u) /\ Extends(T[n], T[h], u \o x)
  <2>1. S[0] = <<>>
    BY <1>1, <1>3, TextsRise
  <2>2. /\ S[h] \in Seq(Streams) /\ S[n] \in Seq(Streams) /\ u \in Seq(Streams)
        /\ Extends(S[n], S[h], u)
    BY <1>1, <1>3, <1>4, TextsGrow DEF LastChunk
  <2>3. n \in 1 .. Len(c.chunks) /\ c.chunks[n].text = u \o x
    BY <1>3, <1>4 DEF LastChunk
  <2>4. /\ T[h] \in Seq(Streams) /\ T[n] \in Seq(Streams)
        /\ Extends(T[n], T[h], u \o x)
    BY <1>1, <1>3, <2>3, TextsGrow
  <2> QED
    BY <2>1, <2>2, <2>4
<1>6. Follows(S[h], S[0], T[h])
  <2>1. ASSUME NEW k \in 1 .. h PROVE c.chunks[k].text = b.chunks[0 + k].text
    <3>1. k \in 1 .. n - 0 - 1
      BY <1>1, <1>3
    <3> QED
      BY <3>1 DEF Kept
  <2>2. \A k \in 0 .. h : Follows(S[0 + k], S[0], T[k])
    BY <1>1, <1>3, <1>4, <2>1, Drop
  <2> QED
    BY <1>4, <2>2
<1>7. S[0] \in Seq(Streams)
  BY <1>5
<1>8. /\ Len(T[n]) = Len(S[n]) + Len(x)
      /\ \A j \in 1 .. Len(S[n]) : T[n][j] = S[n][j]
  <2>1. PICK s, t, s2, t2 : s = S[h] /\ t = T[h] /\ s2 = S[n] /\ t2 = T[n]
    OBVIOUS
  <2>2. s \in Seq(Streams) /\ t \in Seq(Streams) /\ u \in Seq(Streams)
    BY <1>5, <2>1
  <2>3. Follows(s, <<>>, t) /\ Extends(s2, s, u) /\ Extends(t2, t, u \o x)
    BY <1>5, <1>6, <2>1, Zenon
  <2>4. Grown(s, t, u, x, s2, t2)
    BY <2>2, <2>3 DEF Grown
  <2>5. LongerBy(s2, t2, Len(x))
    BY <2>4, GrownLonger, Zenon
  <2> QED
    BY <2>1, <2>5 DEF LongerBy
<1>9. \A i \in 1 .. b.avail : Start(b, i) = 0 + Start(c, i)
  <2>1. \A i \in 1 .. b.avail : Start(b, i) = Len(S[0]) + Start(c, i)
    BY <1>3, StartsKept
  <2> QED
    BY <1>5, <2>1
<1>10. Whole(b) = S[n] /\ Whole(c) = T[n]
  BY <1>3 DEF Whole
<1>11. 0 + Len(Whole(c)) = Len(Whole(b)) + Len(x)
  BY <1>8, <1>10, BlockChunks
<1>12. \A j \in 1 .. Len(Whole(b)) - 0 : Whole(c)[j] = Whole(b)[0 + j]
  BY <1>8, <1>10, BlockChunks
<1> QED
  BY <1>2, <1>9, <1>11, <1>12 DEF Displaced

(* A new chunk holds the text. *)
LEMMA MovedAdded ==
  ASSUME NEW b, Sound(b), NEW c, Sound(c), NEW new \in ChunkType,
         c.chunks = Append(b.chunks, new), c.tab = b.tab, c.avail = b.avail
  PROVE  Displaced(b, c, 0, Len(new.text))
<1> DEFINE n == Len(b.chunks)
<1>1. /\ n \in Nat /\ b.avail \in Nat
      /\ b.chunks \in Seq(ChunkType) /\ c.chunks \in Seq(ChunkType)
  BY BlockChunks
<1>2. /\ Len(c.chunks) = n + 1 /\ c.chunks[n + 1] = new
      /\ \A k \in 1 .. n : c.chunks[k] = b.chunks[k]
  BY <1>1
<1>3. PICK S, T, m, x : /\ S = Texts(b.chunks) /\ T = Texts(c.chunks) /\ m = n + 1
                        /\ x = new.text
  OBVIOUS
<1>4. /\ 0 + n <= n /\ n <= Len(c.chunks) /\ m \in 1 .. Len(c.chunks) /\ n = m - 1
      /\ n \in 0 .. n /\ 0 + n = n
  BY <1>1, <1>2, <1>3
<1>5. /\ S[0] = <<>> /\ T[0] = <<>>
      /\ S[n] \in Seq(Streams) /\ T[n] \in Seq(Streams)
      /\ T[m] \in Seq(Streams) /\ x \in Seq(Streams)
      /\ Extends(T[m], T[n], x)
  <2>1. S[0] = <<>> /\ S[n] \in Seq(Streams) /\ T[0] = <<>>
    BY <1>1, <1>3, <1>4, TextsRise
  <2>2. /\ T[n] \in Seq(Streams) /\ T[m] \in Seq(Streams)
        /\ x \in Seq(Streams) /\ Extends(T[m], T[n], x)
    BY <1>1, <1>2, <1>3, <1>4, TextsGrow
  <2> QED
    BY <2>1, <2>2
<1>6. Follows(S[n], S[0], T[n])
  <2>1. \A k \in 1 .. n : c.chunks[k].text = b.chunks[0 + k].text
    BY <1>2
  <2>2. \A k \in 0 .. n : Follows(S[0 + k], S[0], T[k])
    BY <1>1, <1>3, <1>4, <2>1, Drop
  <2> QED
    BY <1>4, <2>2
<1>7. /\ Len(T[m]) = Len(S[n]) + Len(x)
      /\ \A j \in 1 .. Len(S[n]) : T[m][j] = S[n][j]
  <2>1. PICK s, t, t2 : s = S[n] /\ t = T[n] /\ t2 = T[m]
    OBVIOUS
  <2>2. /\ s \in Seq(Streams) /\ t \in Seq(Streams) /\ t2 \in Seq(Streams)
        /\ Follows(s, <<>>, t) /\ Extends(t2, t, x)
    BY <1>5, <1>6, <2>1
  <2>3. Len(s) = Len(t) /\ \A j \in 1 .. Len(t) : s[j] = t[j]
    <3>1. Len(<<>>) = 0 /\ Len(t) \in Nat
      BY <2>2
    <3> QED
      BY <2>2, <3>1 DEF Follows
  <2>4. Len(t2) = Len(t) + Len(x) /\ \A j \in 1 .. Len(t) : t2[j] = t[j]
    BY <2>2 DEF Extends, Follows
  <2> QED
    BY <2>1, <2>3, <2>4
<1>8. \A i \in 1 .. b.avail : Start(b, i) = 0 + Start(c, i)
  <2>1. CASE b.chunks = <<>>
    <3>1. b.avail = 1 /\ b.tab[0] = Ref(HeadLength, 0)
      BY <2>1 DEF Sound, Table
    <3>2. Offset(b, b.tab[0]) = 0
      BY <2>1, EmptyOffset
    <3>3. n = 0 /\ 1 \in 1 .. Len(c.chunks)
      BY <1>2, <2>1
    <3>4. c.chunks[1].at = HeadLength
      BY <3>3 DEF Sound, Chain
    <3>5. PICK ref : ref = c.tab[0]
      OBVIOUS
    <3>6. ref \in RefType /\ ref.chunk = HeadLength /\ ref.char = 0
      <4>1. ref = Ref(HeadLength, 0)
        BY <3>1, <3>5
      <4> QED
        BY <4>1, HeadLengthType DEF Ref, RefType
    <3>7. Offset(c, ref) = Len(T[1 - 1]) + ref.char
      BY <1>3, <3>3, <3>4, <3>6, OffsetIs
    <3>8. Offset(c, c.tab[0]) = 0
      BY <1>5, <3>5, <3>6, <3>7
    <3>9. \A i \in 1 .. b.avail : i = 1 /\ i - 1 = 0
      BY <3>1
    <3> QED
      BY <3>2, <3>8, <3>9 DEF Start
  <2>2. CASE b.chunks # <<>>
    <3>1. Kept(b, c, 0, 0)
      <4>1. 0 < n /\ n - 0 = n
        BY <1>1, <2>2
      <4>2. ASSUME NEW k \in 1 .. n
            PROVE  /\ c.chunks[k].at = b.chunks[0 + k].at - 0
                   /\ c.chunks[k].text = b.chunks[0 + k].text
        BY <1>2, ChunkOrder
      <4>3. ASSUME NEW i \in 0 .. b.avail - 1
            PROVE  /\ c.tab[i].chunk = b.tab[i].chunk - 0
                   /\ c.tab[i].char = b.tab[i].char
                   /\ b.chunks[0 + 1].at <= b.tab[i].chunk
        <5>1. b.tab[i].chunk \in Nat /\ HeadLength <= b.tab[i].chunk
          BY <2>2, TableBounds
        <5>2. b.chunks[1].at = HeadLength
          BY <4>1 DEF Sound, Chain
        <5> QED
          BY <5>1, <5>2
      <4>4. \A k \in 1 .. n - 0 - 1 : k \in 1 .. n
        BY <1>1
      <4>5. n <= Len(c.chunks) /\ c.avail = b.avail
        BY <1>1, <1>2
      <4> QED
        BY <4>1, <4>2, <4>3, <4>4, <4>5, SMTT(60) DEF Kept
    <3>2. \A i \in 1 .. b.avail : Start(b, i) = Len(S[0]) + Start(c, i)
      BY <1>3, <3>1, StartsKept
    <3> QED
      BY <1>5, <3>2
  <2> QED
    BY <2>1, <2>2
<1>9. Whole(b) = S[n] /\ Whole(c) = T[m]
  BY <1>2, <1>3 DEF Whole
<1>10. 0 + Len(Whole(c)) = Len(Whole(b)) + Len(x)
  BY <1>7, <1>9, BlockChunks
<1>11. \A j \in 1 .. Len(Whole(b)) - 0 : Whole(c)[j] = Whole(b)[0 + j]
  BY <1>7, <1>9, BlockChunks
<1> QED
  BY <1>3, <1>8, <1>10, <1>11 DEF Displaced
-----------------------------------------------------------------------------
(* Text is laid out *)

(* Stretches of a text, and two that follow one another. *)
LEMMA PartType ==
  ASSUME NEW t \in Seq(Streams), NEW from \in Nat, NEW to \in Nat, from <= to, to <= Len(t)
  PROVE  Part(t, from, to) \in Seq(Streams) /\ Len(Part(t, from, to)) = to - from
<1>1. PICK n : n = to - from
  OBVIOUS
<1>2. n \in Nat
  BY <1>1
<1>3. ASSUME NEW j \in 1 .. n PROVE t[from + j] \in Streams
  <2>1. from + j \in 1 .. Len(t)
    BY <1>1, <1>2
  <2> QED
    BY <2>1
<1>4. PICK p : p = [j \in 1 .. n |-> t[from + j]]
  OBVIOUS
<1>5. p \in Seq(Streams) /\ Len(p) = n
  BY <1>2, <1>3, <1>4
<1>6. Part(t, from, to) = p
  BY <1>1, <1>4 DEF Part
<1> QED
  BY <1>1, <1>5, <1>6

LEMMA PartJoin ==
  ASSUME NEW t \in Seq(Streams), NEW from \in Nat, NEW mid \in Nat, NEW to \in Nat,
         from <= mid, mid <= to, to <= Len(t)
  PROVE  Part(t, from, mid) \o Part(t, mid, to) = Part(t, from, to)
<1>1. PICK p, q, r : p = Part(t, from, mid) /\ q = Part(t, mid, to) /\ r = Part(t, from, to)
  OBVIOUS
<1>2. Len(t) \in Nat /\ from <= to /\ mid <= Len(t)
  OBVIOUS
<1>3. p \in Seq(Streams) /\ Len(p) = mid - from
  BY <1>1, <1>2, PartType
<1>4. q \in Seq(Streams) /\ Len(q) = to - mid
  BY <1>1, PartType
<1>5. r \in Seq(Streams) /\ Len(r) = to - from
  BY <1>1, <1>2, PartType
<1>6. /\ \A j \in 1 .. mid - from : p[j] = t[from + j]
      /\ \A j \in 1 .. to - mid : q[j] = t[mid + j]
      /\ \A j \in 1 .. to - from : r[j] = t[from + j]
  BY <1>1 DEF Part
<1>7. PICK s : s = p \o q
  OBVIOUS
<1>8. /\ s \in Seq(Streams) /\ Len(s) = Len(p) + Len(q)
      /\ \A j \in 1 .. Len(p) : s[j] = p[j]
      /\ \A j \in 1 .. Len(q) : s[Len(p) + j] = q[j]
  <2>1. p \in Seq(Streams) /\ q \in Seq(Streams)
    BY <1>3, <1>4
  <2>2. /\ Len(p \o q) = Len(p) + Len(q) /\ p \o q \in Seq(Streams)
        /\ \A j \in 1 .. Len(p) : (p \o q)[j] = p[j]
        /\ \A j \in 1 .. Len(q) : (p \o q)[Len(p) + j] = q[j]
    BY <2>1
  <2> QED
    BY <1>7, <2>2, Zenon
<1>9. Len(s) = Len(r)
  BY <1>3, <1>4, <1>5, <1>8
<1>10. ASSUME NEW j \in 1 .. Len(r) PROVE s[j] = r[j]
  <2>1. CASE j <= mid - from
    <3>1. j \in 1 .. mid - from /\ j \in 1 .. to - from
      BY <1>5, <2>1
    <3>2. s[j] = p[j] /\ p[j] = t[from + j] /\ r[j] = t[from + j]
      BY <1>3, <1>6, <1>8, <3>1
    <3> QED
      BY <3>2
  <2>2. CASE ~(j <= mid - from)
    <3>1. PICK i : i = j - (mid - from)
      OBVIOUS
    <3>2. i \in 1 .. to - mid /\ j = (mid - from) + i /\ mid + i = from + j
      BY <1>5, <2>2, <3>1
    <3>3. s[j] = q[i]
      BY <1>3, <1>4, <1>8, <3>2
    <3>4. q[i] = t[mid + i] /\ r[j] = t[from + j]
      BY <1>5, <1>6, <3>2
    <3> QED
      BY <3>2, <3>3, <3>4
  <2> QED
    BY <2>1, <2>2
<1>11. s = r
  BY <1>5, <1>8, <1>9, <1>10
<1> QED
  BY <1>1, <1>7, <1>11

(* m more characters are laid out. *)
LEMMA CutWritten ==
  ASSUME NEW b, Sound(b), NEW left \in Nat, NEW m \in 0 .. left, NEW ls, Cut(b, ls, left),
         NEW W, W = Len(Whole(b)), NEW piece, piece = Part(Whole(b), W - left, W - left + m)
  PROVE  /\ ls \in Seq(Seq(Streams)) => Len(ls) = b.avail
         /\ Cut(b, [ls EXCEPT ![b.avail] = ls[b.avail] \o piece], left - m)
<1> DEFINE n == b.avail
           more == [ls EXCEPT ![n] = ls[n] \o piece]
<1>1. n \in Nat /\ n \in 1 .. n /\ W \in Nat /\ Whole(b) \in Seq(Streams) /\ W = Len(Whole(b))
  BY BlockChunks
<1>2. /\ ls = [i \in 1 .. n |-> Part(Whole(b), Start(b, i), End(b, i, left))]
      /\ Start(b, n) + left <= W
  BY DEF Cut
<1>3. ls[n] = Part(Whole(b), Start(b, n), W - left)
  <2>1. End(b, n, left) = W - left
    BY <1>1 DEF End
  <2> QED
    BY <1>1, <1>2, <2>1
<1>4. ls[n] \o piece = Part(Whole(b), Start(b, n), W - (left - m))
  <2>1. PICK from, mid, to : from = Start(b, n) /\ mid = W - left /\ to = W - left + m
    OBVIOUS
  <2>2. from \in Nat
    BY <1>1, <2>1, StartType
  <2>3. /\ mid \in Nat /\ to \in Nat /\ from <= mid /\ mid <= to /\ to <= Len(Whole(b))
        /\ to = W - (left - m)
    BY <1>1, <1>2, <2>1, <2>2
  <2>4. Part(Whole(b), from, mid) \o Part(Whole(b), mid, to) = Part(Whole(b), from, to)
    BY <1>1, <2>2, <2>3, PartJoin
  <2> QED
    BY <1>3, <2>1, <2>3, <2>4
<1>5. ASSUME NEW i \in 1 .. n
      PROVE  more[i] = Part(Whole(b), Start(b, i), End(b, i, left - m))
  <2>1. CASE i = n
    <3>1. End(b, i, left - m) = W - (left - m)
      BY <1>1, <2>1 DEF End
    <3>2. more[i] = ls[n] \o piece
      BY <1>1, <1>2, <2>1
    <3> QED
      BY <1>4, <2>1, <3>1, <3>2
  <2>2. CASE i # n
    <3>1. End(b, i, left - m) = End(b, i, left)
      BY <1>1, <2>2 DEF End
    <3>2. more[i] = ls[i]
      BY <1>1, <1>2, <2>2
    <3> QED
      BY <1>2, <3>1, <3>2
  <2> QED
    BY <2>1, <2>2
<1>6. more = [i \in 1 .. n |-> more[i]]
  BY <1>2
<1>7. Start(b, n) + (left - m) <= Len(Whole(b))
  <2>1. Start(b, n) \in Nat
    BY <1>1, StartType
  <2> QED
    BY <1>1, <1>2, <2>1
<1>8. ls \in Seq(Seq(Streams)) => Len(ls) = n
  <2>1. DOMAIN ls = 1 .. n
    BY <1>2
  <2> QED
    BY <1>1, <2>1
<1>9. Cut(b, more, left - m)
  <2> HIDE DEF more
  <2>1. more = [i \in 1 .. n |-> Part(Whole(b), Start(b, i), End(b, i, left - m))]
    BY <1>5, <1>6
  <2> QED
    BY <1>7, <2>1 DEF Cut
<1> QED
  BY <1>8, <1>9

(* The text ends with that of the last chunk. *)
EndsWith(t, u) ==
  /\ u \in Seq(Streams) /\ Len(u) <= Len(t)
  /\ \A i \in 1 .. Len(u) : t[Len(t) - Len(u) + i] = u[i]

LEMMA LastText ==
  ASSUME NEW b, Sound(b), b.chunks # <<>>
  PROVE  EndsWith(Whole(b), LastChunk(b).text)
<1> DEFINE n == Len(b.chunks)
<1>0. PICK u : u = LastChunk(b).text
  OBVIOUS
<1>1. n \in Nat /\ b.chunks \in Seq(ChunkType)
  BY BlockChunks
<1>2. n \in 1 .. n
  BY <1>1
<1>3. PICK T, h : T = Texts(b.chunks) /\ h = n - 1
  OBVIOUS
<1>4. T[h] \in Seq(Streams) /\ T[n] \in Seq(Streams) /\ u \in Seq(Streams)
      /\ Extends(T[n], T[h], u)
  BY <1>0, <1>1, <1>2, <1>3, TextsGrow DEF LastChunk
<1>5. PICK x, y, z : x = Len(T[h]) /\ y = Len(u) /\ z = Len(T[n])
  OBVIOUS
<1>6. x \in Nat /\ y \in Nat
  BY <1>4, <1>5
<1>7. z = x + y /\ \A i \in 1 .. y : T[n][x + i] = u[i]
  BY <1>4, <1>5 DEF Extends, Follows
<1>8. y <= z /\ z - y = x
  BY <1>6, <1>7
<1>9. Whole(b) = T[n]
  BY <1>3 DEF Whole
<1>10. EndsWith(T[n], u)
  BY <1>4, <1>5, <1>7, <1>8 DEF EndsWith
<1> QED
  BY <1>0, <1>9, <1>10

(* c has the same text in the same chunks. *)
Retold(b, c) ==
  /\ Len(c.chunks) = Len(b.chunks)
  /\ \A k \in 1 .. Len(b.chunks) :
       c.chunks[k].at = b.chunks[k].at /\ c.chunks[k].text = b.chunks[k].text

(* Then every reference leads to the same place of the same text. *)
LEMMA WholeRetold ==
  ASSUME NEW b, Sound(b), NEW c, Sound(c), Retold(b, c)
  PROVE  /\ Whole(c) = Whole(b)
         /\ \A ref \in RefType : InChunk(b, ref) => Offset(c, ref) = Offset(b, ref)
<1> DEFINE n == Len(b.chunks)
<1>1. /\ n \in Nat /\ b.chunks \in Seq(ChunkType) /\ c.chunks \in Seq(ChunkType)
      /\ Len(c.chunks) = n
  BY BlockChunks DEF Retold
<1>2. PICK S, T : S = Texts(b.chunks) /\ T = Texts(c.chunks)
  OBVIOUS
<1>3. S[0] = <<>>
  BY <1>1, <1>2, TextsRise
<1>4. \A k \in 0 .. n : S[k] \in Seq(Streams) /\ T[k] \in Seq(Streams)
  BY <1>1, <1>2, TextsRise
<1>5. \A k \in 0 .. n : Follows(S[0 + k], S[0], T[k])
  <2>1. 0 + n <= Len(b.chunks) /\ n <= Len(c.chunks)
    BY <1>1
  <2>2. \A k \in 1 .. n : c.chunks[k].text = b.chunks[0 + k].text
    BY DEF Retold
  <2> QED
    BY <1>1, <1>2, <2>1, <2>2, Drop
<1>6. ASSUME NEW k \in 0 .. n
      PROVE  Len(S[k]) = Len(T[k]) /\ \A i \in 1 .. Len(T[k]) : S[k][i] = T[k][i]
  <2>1. PICK s, t, e : s = S[k] /\ t = T[k] /\ e = S[0]
    OBVIOUS
  <2>2. Follows(s, e, t) /\ Len(e) = 0 /\ t \in Seq(Streams)
    <3>1. 0 + k = k
      OBVIOUS
    <3>2. Follows(S[0 + k], S[0], T[k])
      BY <1>5
    <3> QED
      BY <1>3, <1>4, <2>1, <3>1, <3>2
  <2>3. Len(s) = Len(t) /\ \A i \in 1 .. Len(t) : s[i] = t[i]
    BY <2>2 DEF Follows
  <2> QED
    BY <2>1, <2>3
<1>7. Whole(c) = Whole(b)
  <2>1. n \in 0 .. n
    BY <1>1
  <2>2. PICK s, t : s = S[n] /\ t = T[n]
    OBVIOUS
  <2>3. s \in Seq(Streams) /\ t \in Seq(Streams)
    BY <1>4, <2>1, <2>2
  <2>4. Len(s) = Len(t) /\ \A i \in 1 .. Len(t) : s[i] = t[i]
    BY <1>6, <2>1, <2>2
  <2>5. s = t
    BY <2>3, <2>4
  <2> QED
    BY <1>1, <1>2, <2>2, <2>5 DEF Whole
<1>8. ASSUME NEW ref \in RefType, InChunk(b, ref)
      PROVE  Offset(c, ref) = Offset(b, ref)
  <2>1. PICK k \in 1 .. n : b.chunks[k].at = ref.chunk
    BY <1>8 DEF InChunk
  <2>2. k \in 1 .. Len(c.chunks) /\ c.chunks[k].at = ref.chunk
    BY <1>1, <2>1 DEF Retold
  <2>3. k - 1 \in 0 .. n
    BY <1>1
  <2>4. Offset(b, ref) = Len(S[k - 1]) + ref.char /\ Offset(c, ref) = Len(T[k - 1]) + ref.char
    BY <1>2, <2>1, <2>2, OffsetIs
  <2>5. Len(S[k - 1]) = Len(T[k - 1])
    BY <1>6, <2>3
  <2> QED
    BY <2>4, <2>5
<1> QED
  BY <1>7, <1>8

(* A line is fed: the first "lost" lines (one or none) fall out. *)
Feeds(b, c, left, lost) ==
  /\ Whole(c) = Whole(b) /\ left <= Len(Whole(b))
  /\ c.avail = b.avail + 1 - lost
  /\ \A i \in 1 .. c.avail - 1 : Start(c, i) = Start(b, i + lost)
  /\ Start(c, c.avail) = Len(Whole(b)) - left

(* The open line ends, a new one begins and the oldest may be lost. *)
LEMMA CutFed ==
  ASSUME NEW b, Sound(b), NEW c, Sound(c), NEW left \in Nat, NEW lost \in Nat,
         Feeds(b, c, left, lost), NEW ls, Cut(b, ls, left)
  PROVE  Cut(c, [i \in 1 .. c.avail |-> IF i < c.avail THEN ls[i + lost] ELSE <<>>], left)
<1> DEFINE W == Len(Whole(b))
           new == [i \in 1 .. c.avail |-> IF i < c.avail THEN ls[i + lost] ELSE <<>>]
<1>0. /\ Whole(c) = Whole(b) /\ left <= Len(Whole(b))
      /\ c.avail = b.avail + 1 - lost
      /\ \A i \in 1 .. c.avail - 1 : Start(c, i) = Start(b, i + lost)
      /\ Start(c, c.avail) = Len(Whole(b)) - left
  BY DEF Feeds
<1>1. /\ b.avail \in Nat /\ W \in Nat /\ c.avail \in Nat /\ c.avail \in 1 .. c.avail
  BY BlockChunks
<1>2. ls = [i \in 1 .. b.avail |-> Part(Whole(b), Start(b, i), End(b, i, left))]
  BY DEF Cut
<1>3. ASSUME NEW i \in 1 .. c.avail
      PROVE  new[i] = Part(Whole(c), Start(c, i), End(c, i, left))
  <2>1. CASE i < c.avail
    <3>1. PICK k : k = i + lost
      OBVIOUS
    <3>2. k \in 1 .. b.avail /\ i \in 1 .. c.avail - 1
      BY <1>0, <1>1, <2>1, <3>1
    <3>3. new[i] = Part(Whole(b), Start(b, k), End(b, k, left))
      BY <1>2, <2>1, <3>1, <3>2
    <3>4. Start(c, i) = Start(b, k)
      BY <1>0, <3>1, <3>2
    <3>5. End(c, i, left) = End(b, k, left)
      <4>1. End(c, i, left) = Start(c, i + 1)
        BY <2>1 DEF End
      <4>2. CASE k < b.avail
        <5>1. PICK j : j = i + 1
          OBVIOUS
        <5>2. j \in 1 .. c.avail - 1 /\ j + lost = k + 1
          BY <1>0, <1>1, <2>1, <3>1, <4>2, <5>1
        <5>3. Start(c, j) = Start(b, k + 1)
          BY <1>0, <5>2
        <5> QED
          BY <4>1, <4>2, <5>1, <5>3 DEF End
      <4>3. CASE ~(k < b.avail)
        <5>1. i + 1 = c.avail
          BY <1>0, <1>1, <2>1, <3>1, <4>3
        <5> QED
          BY <1>0, <4>1, <4>3, <5>1 DEF End
      <4> QED
        BY <4>2, <4>3
    <3> QED
      BY <1>0, <3>3, <3>4, <3>5
  <2>2. CASE ~(i < c.avail)
    <3>1. i = c.avail
      BY <1>1, <2>2
    <3>2. new[i] = <<>>
      BY <2>2
    <3>3. End(c, i, left) = W - left /\ Start(c, i) = W - left
      BY <1>0, <2>2, <3>1 DEF End
    <3>4. Part(Whole(c), W - left, W - left) = <<>>
      <4>1. W - left \in Nat /\ W - left <= Len(Whole(b)) /\ Whole(b) \in Seq(Streams)
        BY <1>0, <1>1, BlockChunks
      <4>2. PICK t, x : t = Whole(b) /\ x = W - left
        OBVIOUS
      <4>3. PICK p : p = Part(t, x, x)
        OBVIOUS
      <4>4. t \in Seq(Streams) /\ x \in Nat /\ x <= x /\ x <= Len(t)
        BY <4>1, <4>2
      <4>5. p \in Seq(Streams) /\ Len(p) = x - x /\ x \in Nat
        BY <4>3, <4>4, PartType
      <4>6. Len(p) = 0
        BY <4>5
      <4>7. p = <<>>
        BY <4>5, <4>6
      <4> QED
        BY <1>0, <4>2, <4>7, <4>3
    <3> QED
      BY <3>2, <3>3, <3>4
  <2> QED
    BY <2>1, <2>2
<1>4. new = [i \in 1 .. c.avail |-> new[i]]
  OBVIOUS
<1>5. new = [i \in 1 .. c.avail |-> Part(Whole(c), Start(c, i), End(c, i, left))]
  BY <1>0, <1>3, <1>4
<1>6. Start(c, c.avail) + left <= Len(Whole(c))
  BY <1>0, <1>1
<1> QED
  BY <1>5, <1>6 DEF Cut

(* What a new line leaves of the table and the chunks. *)
LEMMA NewLineTable ==
  ASSUME NEW b, Sound(b), b.chunks # <<>>, NEW char \in Nat
  PROVE  LET c == NewLine(b, b.lastdata, char)
             lost == IF b.avail = MaxLines THEN 1 ELSE 0
         IN  /\ Retold(b, c)
             /\ c.avail = b.avail + 1 - lost
             /\ \A i \in 0 .. c.avail - 2 : c.tab[i] = b.tab[i + lost]
             /\ c.tab[c.avail - 1] = Ref(b.lastdata, char)
             /\ ~(b.avail = MaxLines /\ Len(b.chunks) = 1)
                  => LastChunk(c).feed = LastChunk(b).feed
<1> DEFINE ref == Ref(b.lastdata, char)
           longer == [b EXCEPT !.tab = [b.tab EXCEPT ![b.avail] = ref],
                               !.avail = b.avail + 1]
           n == Len(b.chunks)
           c == NewLine(b, b.lastdata, char)
<1>1. /\ b.chunks \in Seq(ChunkType) /\ n \in Nat /\ n \in 1 .. n /\ 1 \in 1 .. n
      /\ b.avail \in 1 .. MaxLines /\ MaxLines \in Nat
      /\ b.tab \in [0 .. MaxLines -> RefType]
  <2>1. /\ b.chunks \in Seq(ChunkType) /\ n \in Nat
        /\ b.avail \in 1 .. MaxLines /\ MaxLines \in Nat
        /\ b.tab \in [0 .. MaxLines -> RefType]
    BY BlockChunks
  <2>2. n \in 1 .. n /\ 1 \in 1 .. n
    BY <2>1
  <2> QED
    BY <2>1, <2>2
<1>2. c = Followed(IF Overflows(longer) THEN Shifted(longer) ELSE longer)
  BY DEF NewLine, Sound, BlockType
<1>3. /\ longer.avail = b.avail + 1 /\ longer.tab = [b.tab EXCEPT ![b.avail] = ref]
      /\ longer.chunks = b.chunks
  BY DEF Sound, BlockType
<1> HIDE DEF c, ref
<1>4. CASE b.avail < MaxLines
  <2> DEFINE tab == [b.tab EXCEPT ![b.avail] = ref]
             avail == b.avail + 1
             pos == IF ~b.scrolling /\ b.pos + Visible <= avail THEN b.pos + 1 ELSE b.pos
  <2>1. c = Followed(longer)
    BY <1>1, <1>2, <1>3, <1>4 DEF Overflows
  <2>2. c = [longer EXCEPT !.pos = pos]
    BY <2>1, <1>3 DEF Followed, Sound, BlockType
  <2>3. c = [b EXCEPT !.tab = tab, !.avail = avail, !.pos = pos]
    BY <2>2 DEF Sound, BlockType
  <2> HIDE DEF tab, avail, pos
  <2>4. c.chunks = b.chunks /\ c.tab = tab /\ c.avail = avail
    BY <2>3 DEF Sound, BlockType
  <2>5. \A i \in 0 .. c.avail - 2 : c.tab[i] = b.tab[i + 0]
    <3>1. \A i \in 0 .. avail - 2 : i \in 0 .. MaxLines /\ i # b.avail /\ i + 0 = i
      BY <1>1 DEF avail
    <3> QED
      BY <1>1, <2>4, <3>1 DEF tab
  <2>6. c.tab[c.avail - 1] = ref
    <3>1. avail - 1 = b.avail /\ b.avail \in 0 .. MaxLines
      BY <1>1 DEF avail
    <3> QED
      BY <1>1, <2>4, <3>1 DEF tab
  <2>7. Retold(b, c) /\ LastChunk(c).feed = LastChunk(b).feed
    BY <2>4 DEF Retold, LastChunk
  <2>8. c.avail = b.avail + 1 - 0
    BY <1>1, <2>4 DEF avail
  <2>9. b.avail # MaxLines
    BY <1>1, <1>4
  <2> QED
    BY <2>5, <2>6, <2>7, <2>8, <2>9 DEF c, ref
<1>5. CASE b.avail = MaxLines
  <2> DEFINE tab == [i \in 0 .. MaxLines |->
                       IF i < MaxLines THEN longer.tab[i + 1] ELSE longer.tab[i]]
             head == [b.chunks[1] EXCEPT !.type = OCT_TERM, !.length = 0,
                                         !.feed = FALSE, !.wrap = FALSE]
             chunks == [b.chunks EXCEPT ![1] = head]
             avail == b.avail
             pos == IF ~b.scrolling /\ b.pos + Visible <= avail THEN b.pos + 1 ELSE b.pos
  <2>1. c = Followed(Shifted(longer))
    BY <1>1, <1>2, <1>3, <1>5 DEF Overflows
  <2>2. longer.avail - 1 = avail
    BY <1>1, <1>3
  <2>3. Shifted(longer) = [longer EXCEPT !.tab = tab, !.chunks = chunks, !.avail = avail]
    BY <1>3, <2>2 DEF Shifted
  <2> HIDE DEF tab, head, chunks
  <2>4. Shifted(longer) = [b EXCEPT !.tab = tab, !.chunks = chunks]
    BY <2>3 DEF Sound, BlockType
  <2>5. PICK e : e = [b EXCEPT !.tab = tab, !.chunks = chunks]
    OBVIOUS
  <2>6. c = [e EXCEPT !.pos = pos]
    BY <2>1, <2>4, <2>5 DEF Followed, Sound, BlockType
  <2>7. c = [b EXCEPT !.tab = tab, !.chunks = chunks, !.pos = pos]
    BY <2>5, <2>6 DEF Sound, BlockType
  <2> HIDE DEF avail, pos
  <2>8. c.chunks = chunks /\ c.tab = tab /\ c.avail = b.avail
    BY <2>7 DEF Sound, BlockType
  <2>9. ASSUME NEW i \in 0 .. MaxLines - 1
        PROVE  tab[i] = IF i = MaxLines - 1 THEN ref ELSE b.tab[i + 1]
    <3>1. PICK k : k = i + 1
      OBVIOUS
    <3>2. k \in 0 .. MaxLines /\ i < MaxLines /\ i \in 0 .. MaxLines
      BY <1>1, <3>1
    <3>3. tab[i] = longer.tab[k]
      BY <3>1, <3>2 DEF tab
    <3>4. longer.tab[k] = IF k = MaxLines THEN ref ELSE b.tab[k]
      BY <1>1, <1>3, <1>5, <3>2
    <3> QED
      BY <1>1, <3>1, <3>2, <3>3, <3>4
  <2>10. \A i \in 0 .. c.avail - 2 : c.tab[i] = b.tab[i + 1]
    <3>1. \A i \in 0 .. b.avail - 2 : i \in 0 .. MaxLines - 1 /\ i # MaxLines - 1
      BY <1>1, <1>5
    <3> QED
      BY <2>8, <2>9, <3>1
  <2>11. c.tab[c.avail - 1] = ref
    <3>1. b.avail - 1 \in 0 .. MaxLines - 1 /\ b.avail - 1 = MaxLines - 1
      BY <1>1, <1>5
    <3> QED
      BY <2>8, <2>9, <3>1
  <2>12. /\ Len(chunks) = n
         /\ \A k \in 1 .. n : chunks[k] = IF k = 1 THEN head ELSE b.chunks[k]
    BY <1>1 DEF chunks
  <2>13. head.at = b.chunks[1].at /\ head.text = b.chunks[1].text
    <3>1. b.chunks[1] \in ChunkType
      BY <1>1
    <3> QED
      BY <3>1 DEF head, ChunkType
  <2>14. Retold(b, c)
    BY <2>8, <2>12, <2>13 DEF Retold
  <2>15. n # 1 => LastChunk(c).feed = LastChunk(b).feed
    BY <1>1, <2>8, <2>12 DEF LastChunk
  <2>16. c.avail = b.avail + 1 - 1
    BY <1>1, <2>8
  <2> QED
    BY <1>5, <2>10, <2>11, <2>14, <2>15, <2>16 DEF c, ref
<1> QED
  BY <1>1, <1>4, <1>5

(* The line that is cut off where the layout has come to. *)
LEMMA NewLineCut ==
  ASSUME NEW b, Sound(b), b.chunks # <<>>, NEW left \in Nat, NEW char \in Nat,
         char + left = Len(LastChunk(b).text),
         NEW ls \in Seq(Seq(Streams)), Cut(b, ls, left)
  PROVE  Cut(NewLine(b, b.lastdata, char), Fed(ls), left)
<1> DEFINE c == NewLine(b, b.lastdata, char)
           lost == IF b.avail = MaxLines THEN 1 ELSE 0
           new == [i \in 1 .. c.avail |-> IF i < c.avail THEN ls[i + lost] ELSE <<>>]
           ref == Ref(b.lastdata, char)
           n == Len(b.chunks)
<1>1. /\ n \in Nat /\ b.chunks \in Seq(ChunkType) /\ n \in 1 .. n
      /\ b.avail \in 1 .. MaxLines /\ MaxLines \in Nat
      /\ b.tab \in [0 .. MaxLines -> RefType]
  <2>1. /\ b.chunks \in Seq(ChunkType) /\ n \in Nat
        /\ b.avail \in 1 .. MaxLines /\ MaxLines \in Nat
        /\ b.tab \in [0 .. MaxLines -> RefType]
    BY BlockChunks
  <2>2. n \in 1 .. n
    BY <2>1
  <2> QED
    BY <2>1, <2>2
<1>2. PICK u : u = LastChunk(b).text
  OBVIOUS
<1>3. u \in Seq(Streams) /\ Len(u) \in Nat /\ Len(u) <= Len(Whole(b)) /\ Len(Whole(b)) \in Nat
  <2>1. u \in Seq(Streams) /\ Len(u) <= Len(Whole(b))
    <3>1. EndsWith(Whole(b), LastChunk(b).text)
      BY LastText
    <3> QED
      BY <1>2, <3>1 DEF EndsWith
  <2> QED
    BY <2>1, BlockChunks
<1>4. char + left = Len(u) /\ char <= Len(u) /\ left <= Len(Whole(b))
  BY <1>2, <1>3
<1>5. Sound(c)
  BY <1>2, <1>4, NewLineSound
<1>6. /\ Retold(b, c) /\ c.avail = b.avail + 1 - lost
      /\ \A i \in 0 .. c.avail - 2 : c.tab[i] = b.tab[i + lost]
      /\ c.tab[c.avail - 1] = ref
  BY NewLineTable
<1>7. lost \in Nat /\ c.avail \in Nat /\ c.avail >= 1 /\ lost <= b.avail
  BY <1>1, <1>6
<1> HIDE DEF c, lost
<1>8. /\ Whole(c) = Whole(b)
      /\ \A r \in RefType : InChunk(b, r) => Offset(c, r) = Offset(b, r)
  BY <1>5, <1>6, WholeRetold
<1>9. ASSUME NEW i \in 1 .. c.avail - 1 PROVE Start(c, i) = Start(b, i + lost)
  <2>1. PICK h, k : h = i - 1 /\ k = h + lost
    OBVIOUS
  <2>2. h \in 0 .. c.avail - 2 /\ k \in 0 .. b.avail - 1 /\ k = (i + lost) - 1
    <3>1. PICK x, y : x = c.avail /\ y = b.avail
      OBVIOUS
    <3>2. /\ x \in Nat /\ y \in Nat /\ lost \in Nat /\ i \in 1 .. x - 1
          /\ x = y + 1 - lost
      BY <1>1, <1>6, <1>7, <3>1
    <3>3. h \in 0 .. x - 2 /\ k \in 0 .. y - 1 /\ k = (i + lost) - 1
      BY <2>1, <3>2
    <3> QED
      BY <3>1, <3>3
  <2>3. c.tab[h] = b.tab[k]
    BY <1>6, <2>1, <2>2
  <2>4. b.tab[k] \in RefType /\ InChunk(b, b.tab[k])
    BY <2>2, BlockChunks, TableBounds
  <2>5. Offset(c, c.tab[h]) = Offset(b, b.tab[k])
    BY <1>8, <2>3, <2>4
  <2> QED
    BY <2>1, <2>2, <2>5 DEF Start
<1>10. Start(c, c.avail) = Len(Whole(b)) - left
  <2>1. ref \in RefType /\ ref.chunk = b.chunks[n].at /\ ref.char = char
    <3>1. b.lastdata = b.chunks[n].at /\ b.lastdata \in Nat
      BY <1>1 DEF Sound, Chain, BlockType
    <3> QED
      BY <3>1 DEF Ref, RefType
  <2>2. InChunk(b, ref)
    BY <1>1, <1>2, <1>4, <2>1 DEF InChunk, LastChunk
  <2>3. PICK T, h : T = Texts(b.chunks) /\ h = n - 1
    OBVIOUS
  <2>4. Offset(b, ref) = Len(T[h]) + char
    BY <1>1, <2>1, <2>3, OffsetIs
  <2>5. T[h] \in Seq(Streams) /\ Len(T[n]) = Len(T[h]) + Len(u)
    BY <1>1, <1>2, <2>3, TextsGrow DEF LastChunk
  <2>6. Whole(b) = T[n]
    BY <2>3 DEF Whole
  <2>7. PICK x, y, z : x = Len(T[h]) /\ y = Len(u) /\ z = Len(Whole(b))
    OBVIOUS
  <2>8. x \in Nat /\ y \in Nat
    BY <1>3, <2>5, <2>7
  <2>9. z = x + y /\ char + left = y
    BY <1>4, <2>5, <2>6, <2>7
  <2>10. x + char = z - left
    BY <2>8, <2>9
  <2>11. Offset(c, c.tab[c.avail - 1]) = Offset(b, ref)
    BY <1>6, <1>8, <2>1, <2>2
  <2>12. Offset(c, c.tab[c.avail - 1]) = z - left
    BY <2>4, <2>7, <2>10, <2>11
  <2> QED
    BY <2>7, <2>12 DEF Start
<1>11. Fed(ls) = new
  <2>1. ls = [i \in 1 .. b.avail |-> Part(Whole(b), Start(b, i), End(b, i, left))]
    BY DEF Cut
  <2>2. DOMAIN ls = 1 .. b.avail
    BY <2>1
  <2>3. Len(ls) = b.avail
    BY <1>1, <2>2
  <2>4. CASE b.avail = MaxLines
    <3>1. lost = 1 /\ c.avail = b.avail
      BY <1>1, <1>6, <2>4 DEF lost
    <3>2. Fed(ls) = Append(Tail(ls), <<>>)
      BY <2>3, <2>4 DEF Fed
    <3>3. ls # <<>>
      BY <1>1, <2>3
    <3>4. /\ Tail(ls) \in Seq(Seq(Streams)) /\ Len(Tail(ls)) = b.avail - 1
          /\ \A i \in 1 .. b.avail - 1 : Tail(ls)[i] = ls[i + 1]
      BY <1>1, <2>3, <3>3
    <3>5. PICK tl : tl = Tail(ls)
      OBVIOUS
    <3>6. Append(tl, <<>>) = [i \in 1 .. b.avail |-> IF i < b.avail THEN ls[i + 1] ELSE <<>>]
      <4>1. tl \in Seq(Seq(Streams)) /\ Len(tl) = b.avail - 1 /\ <<>> \in Seq(Streams)
        BY <3>4, <3>5
      <4>2. /\ Append(tl, <<>>) \in Seq(Seq(Streams)) /\ Len(Append(tl, <<>>)) = b.avail
            /\ \A i \in 1 .. b.avail - 1 : Append(tl, <<>>)[i] = tl[i]
            /\ Append(tl, <<>>)[b.avail] = <<>>
        BY <1>1, <4>1
      <4>3. PICK a : a = Append(tl, <<>>)
        OBVIOUS
      <4>4. ASSUME NEW i \in 1 .. b.avail
            PROVE  a[i] = IF i < b.avail THEN ls[i + 1] ELSE <<>>
        <5>1. CASE i < b.avail
          <6>1. i \in 1 .. b.avail - 1
            BY <1>1, <5>1
          <6>2. a[i] = tl[i] /\ tl[i] = ls[i + 1]
            BY <3>4, <3>5, <4>2, <4>3, <6>1
          <6> QED
            BY <5>1, <6>2
        <5>2. CASE ~(i < b.avail)
          <6>1. i = b.avail
            BY <1>1, <5>2
          <6> QED
            BY <4>2, <4>3, <5>2, <6>1
        <5> QED
          BY <5>1, <5>2
      <4>5. a = [i \in 1 .. b.avail |-> a[i]]
        <5>1. a \in Seq(Seq(Streams)) /\ Len(a) = b.avail
          BY <4>2, <4>3
        <5> QED
          BY <5>1
      <4> QED
        BY <4>3, <4>4, <4>5
    <3> QED
      BY <3>1, <3>2, <3>5, <3>6
  <2>5. CASE b.avail # MaxLines
    <3>1. lost = 0 /\ c.avail = b.avail + 1
      BY <1>1, <1>6, <2>5 DEF lost
    <3>2. Fed(ls) = Append(ls, <<>>)
      BY <2>3, <2>5 DEF Fed
    <3>3. /\ Append(ls, <<>>) \in Seq(Seq(Streams)) /\ Len(Append(ls, <<>>)) = b.avail + 1
          /\ \A i \in 1 .. b.avail : Append(ls, <<>>)[i] = ls[i]
          /\ Append(ls, <<>>)[b.avail + 1] = <<>>
      <4>1. <<>> \in Seq(Streams)
        OBVIOUS
      <4> QED
        BY <1>1, <2>3, <4>1
    <3>4. PICK a : a = Append(ls, <<>>)
      OBVIOUS
    <3>5. ASSUME NEW i \in 1 .. c.avail
          PROVE  a[i] = IF i < c.avail THEN ls[i + lost] ELSE <<>>
      <4>1. CASE i < c.avail
        <5>1. i \in 1 .. b.avail /\ i + lost = i
          BY <1>1, <3>1, <4>1
        <5> QED
          BY <3>3, <3>4, <4>1, <5>1
      <4>2. CASE ~(i < c.avail)
        <5>1. i = b.avail + 1
          BY <1>1, <3>1, <4>2
        <5> QED
          BY <3>3, <3>4, <4>2, <5>1
      <4> QED
        BY <4>1, <4>2
    <3>6. a = [i \in 1 .. c.avail |-> a[i]]
      <4>1. a \in Seq(Seq(Streams)) /\ Len(a) = c.avail
        BY <3>1, <3>3, <3>4
      <4> QED
        BY <4>1
    <3> QED
      BY <3>2, <3>4, <3>5, <3>6
  <2> QED
    BY <2>4, <2>5
<1>12. PICK w : w = new
  OBVIOUS
<1>13. Feeds(b, c, left, lost)
  BY <1>4, <1>6, <1>8, <1>9, <1>10 DEF Feeds
<1>14. Cut(c, w, left)
  BY <1>5, <1>7, <1>12, <1>13, CutFed
<1> QED
  BY <1>11, <1>12, <1>14 DEF c

(* Other flags, another view or more room: the same lines. *)
LEMMA RetoldCut ==
  ASSUME NEW b, Sound(b), NEW c, Sound(c), Retold(b, c), c.tab = b.tab, c.avail = b.avail,
         NEW left \in Nat, NEW ls, Cut(b, ls, left)
  PROVE  Cut(c, ls, left)
<1>1. b.avail \in Nat /\ b.avail \in 1 .. b.avail
  BY BlockChunks
<1>2. /\ Whole(c) = Whole(b)
      /\ \A ref \in RefType : InChunk(b, ref) => Offset(c, ref) = Offset(b, ref)
  BY WholeRetold
<1>3. ASSUME NEW h \in 0 .. b.avail - 1 PROVE Offset(c, c.tab[h]) = Offset(b, b.tab[h])
  <2>1. CASE b.chunks = <<>>
    <3>1. c.chunks = <<>>
      <4>1. c.chunks \in Seq(ChunkType) /\ Len(c.chunks) = 0
        BY <2>1, BlockChunks DEF Retold
      <4> QED
        BY <4>1
    <3>2. h = 0
      BY <2>1, EmptyOffset
    <3> QED
      BY <2>1, <3>1, <3>2, EmptyOffset
  <2>2. CASE b.chunks # <<>>
    <3>1. InChunk(b, b.tab[h]) /\ b.tab[h] \in RefType
      BY <2>2, TableBounds, BlockChunks
    <3> QED
      BY <1>2, <3>1
  <2> QED
    BY <2>1, <2>2
<1>4. \A i \in 1 .. b.avail : Start(c, i) = Start(b, i)
  <2>1. ASSUME NEW i \in 1 .. b.avail PROVE Start(c, i) = Start(b, i)
    <3>1. PICK h : h = i - 1
      OBVIOUS
    <3>2. h \in 0 .. b.avail - 1
      BY <1>1, <3>1
    <3> QED
      BY <1>3, <3>1, <3>2 DEF Start
  <2> QED
    BY <2>1
<1>5. \A i \in 1 .. b.avail : End(c, i, left) = End(b, i, left)
  <2>1. ASSUME NEW i \in 1 .. b.avail PROVE End(c, i, left) = End(b, i, left)
    <3>1. i < b.avail => i + 1 \in 1 .. b.avail
      BY <1>1
    <3> QED
      BY <1>2, <1>4, <3>1 DEF End
  <2> QED
    BY <2>1
<1>6. ls = [i \in 1 .. b.avail |-> Part(Whole(b), Start(b, i), End(b, i, left))]
  BY DEF Cut
<1>7. ls = [i \in 1 .. c.avail |-> Part(Whole(c), Start(c, i), End(c, i, left))]
  BY <1>2, <1>4, <1>5, <1>6
<1>8. Start(c, c.avail) + left <= Len(Whole(c))
  BY <1>1, <1>2, <1>4 DEF Cut
<1> QED
  BY <1>7, <1>8 DEF Cut

(* All but the first d chunks stand "dist" further to the front, and every *)
(* item of the table with them.                                            *)
Shed(b, c, d, dist) ==
  /\ d > 0 /\ d + Len(c.chunks) = Len(b.chunks)
  /\ \A k \in 1 .. Len(c.chunks) :
       c.chunks[k] = [b.chunks[d + k] EXCEPT !.at = b.chunks[d + k].at - dist]
  /\ \A i \in 0 .. MaxLines :
       c.tab[i] = IF b.tab[i].chunk = 0 THEN b.tab[i]
                  ELSE [b.tab[i] EXCEPT !.chunk = b.tab[i].chunk - dist]

(* Old chunks are released: no line began in them. *)
LEMMA ReleasedKept ==
  ASSUME NEW b, Sound(b), b.chunks # <<>>, Released(b) # b
  PROVE  \E d \in Nat, dist \in Int :
           /\ Kept(b, Released(b), d, dist)
           /\ d + Len(Released(b).chunks) = Len(b.chunks)
           /\ LastChunk(Released(b)).text = LastChunk(b).text
           /\ Released(b).total = b.total /\ Released(b).tab[0].chunk = HeadLength
           /\ LastChunk(Released(b)) = [LastChunk(b) EXCEPT !.at = LastChunk(b).at - dist]
           /\ Shed(b, Released(b), d, dist)
<1> DEFINE cs == b.chunks
           n == Len(cs)
           first == CHOOSE i \in DOMAIN cs : cs[i].at = b.tab[0].chunk
           dist == b.tab[0].chunk - HeadLength
           left == n - first + 1
           rest == [i \in 1 .. left |->
                      [cs[i + first - 1] EXCEPT !.at = cs[i + first - 1].at - dist]]
           tab == [i \in 0 .. MaxLines |->
                     IF b.tab[i].chunk = 0 THEN b.tab[i]
                     ELSE [b.tab[i] EXCEPT !.chunk = b.tab[i].chunk - dist]]
           r == Released(b)
<1>1. ~(dist <= 0)
  <2>1. dist <= 0 => r = b
    BY DEF Released
  <2> QED
    BY <2>1
<1>2. /\ cs \in Seq(ChunkType) /\ n \in Nat \ {0} /\ DOMAIN cs = 1 .. n
      /\ b.tab \in [0 .. MaxLines -> RefType] /\ MaxLines \in Nat
      /\ b.avail \in 1 .. MaxLines
  <2>1. /\ cs \in Seq(ChunkType) /\ n \in Nat /\ DOMAIN cs = 1 .. n
        /\ b.tab \in [0 .. MaxLines -> RefType] /\ MaxLines \in Nat
        /\ b.avail \in 1 .. MaxLines
    BY BlockChunks
  <2> QED
    BY <2>1
<1>3. /\ 0 \in 0 .. b.avail - 1 /\ b.tab[0].chunk \in Nat /\ HeadLength <= b.tab[0].chunk
      /\ InChunk(b, b.tab[0])
  BY <1>2, TableBounds
<1>4. first \in 1 .. n /\ cs[first].at = b.tab[0].chunk
  <2>1. \E i \in DOMAIN cs : cs[i].at = b.tab[0].chunk
    BY <1>2, <1>3 DEF InChunk
  <2> QED
    BY <1>2, <2>1
<1>5. dist \in Int
  BY <1>3, HeadLengthType
<1>6. r = [b EXCEPT !.chunks = rest, !.free = b.free + dist,
                    !.lastdata = b.lastdata - dist, !.term = b.term - dist,
                    !.tab = tab]
  BY <1>1 DEF Released, Sound, BlockType
<1> HIDE DEF r, first
<1>7. r.chunks = rest /\ r.tab = tab /\ r.avail = b.avail /\ r.total = b.total
  BY <1>6 DEF Sound, BlockType
<1>17. b.tab[0].chunk - dist = HeadLength
  BY <1>3, HeadLengthType
<1>18. first # 1
  <2>1. 1 \in 1 .. n
    BY <1>2
  <2>2. cs[1].at = HeadLength
    BY <2>1 DEF Sound, Chain
  <2> QED
    BY <1>1, <1>3, <1>4, <2>2, HeadLengthType
<1>19. \A i \in 0 .. MaxLines :
         r.tab[i] = IF b.tab[i].chunk = 0 THEN b.tab[i]
                    ELSE [b.tab[i] EXCEPT !.chunk = b.tab[i].chunk - dist]
  BY <1>7
<1> HIDE DEF dist
<1>8. PICK d : d = first - 1
  OBVIOUS
<1>9. d \in Nat /\ d < n /\ left = n - d /\ left \in 1 .. left /\ d + left = n /\ left \in Nat
  <2>1. PICK f, m, l : f = first /\ m = n /\ l = left
    OBVIOUS
  <2>2. m \in Nat /\ f \in 1 .. m /\ l = m - f + 1 /\ d = f - 1
    BY <1>2, <1>4, <1>8, <2>1
  <2>3. d \in Nat /\ d < m /\ l = m - d /\ l \in 1 .. l /\ d + l = m /\ l \in Nat
    BY <2>2
  <2> QED
    BY <2>1, <2>3
<1>10. ASSUME NEW k \in 1 .. left
       PROVE  /\ rest[k].at = cs[d + k].at - dist /\ rest[k].text = cs[d + k].text
              /\ rest[k] = [cs[d + k] EXCEPT !.at = cs[d + k].at - dist]
  <2>1. PICK j : j = d + k
    OBVIOUS
  <2>2. j \in 1 .. n /\ j = k + first - 1
    BY <1>2, <1>4, <1>8, <1>9, <2>1
  <2>3. rest[k] = [cs[j] EXCEPT !.at = cs[j].at - dist]
    BY <2>2
  <2>4. cs[j] \in ChunkType
    BY <1>2, <2>2
  <2> QED
    BY <2>1, <2>3, <2>4 DEF ChunkType
<1>11. Len(rest) = left
  BY <1>9
<1> HIDE DEF rest, left
<1>12. ASSUME NEW i \in 0 .. b.avail - 1
       PROVE  /\ tab[i].chunk = b.tab[i].chunk - dist /\ tab[i].char = b.tab[i].char
              /\ cs[d + 1].at <= b.tab[i].chunk
  <2>1. i \in 0 .. MaxLines /\ b.tab[i] \in RefType
    BY <1>2
  <2>2. HeadLength <= b.tab[i].chunk /\ b.tab[i].chunk \in Nat
    BY TableBounds
  <2>3. b.tab[i].chunk # 0
    BY <2>2, HeadLengthType
  <2>4. tab[i] = [b.tab[i] EXCEPT !.chunk = b.tab[i].chunk - dist]
    BY <2>1, <2>3
  <2>5. tab[i].chunk = b.tab[i].chunk - dist /\ tab[i].char = b.tab[i].char
    BY <2>1, <2>4 DEF RefType
  <2>6. b.tab[0].chunk <= b.tab[i].chunk
    BY <1>3 DEF Sound, Table
  <2>7. d + 1 = first
    BY <1>2, <1>4, <1>8
  <2> QED
    BY <1>4, <2>5, <2>6, <2>7
<1> HIDE DEF tab
<1>13. Kept(b, r, d, dist)
  <2>1. \A k \in 1 .. n - d : r.chunks[k].at = cs[d + k].at - dist
    BY <1>7, <1>9, <1>10
  <2>2. \A k \in 1 .. n - d - 1 : r.chunks[k].text = cs[d + k].text
    <3>1. \A k \in 1 .. n - d - 1 : k \in 1 .. left
      BY <1>9
    <3> QED
      BY <1>7, <1>10, <3>1
  <2>3. n - d <= Len(r.chunks)
    BY <1>2, <1>7, <1>9, <1>11
  <2> QED
    BY <1>7, <1>9, <1>12, <2>1, <2>2, <2>3 DEF Kept
<1>14. d + Len(r.chunks) = n
  BY <1>7, <1>9, <1>11
<1>15. /\ LastChunk(r).text = LastChunk(b).text
       /\ LastChunk(r) = [LastChunk(b) EXCEPT !.at = LastChunk(b).at - dist]
  <2>1. /\ rest[left].text = cs[d + left].text
        /\ rest[left] = [cs[d + left] EXCEPT !.at = cs[d + left].at - dist]
    BY <1>9, <1>10
  <2> QED
    BY <1>7, <1>9, <1>11, <2>1 DEF LastChunk
<1>16. r.total = b.total /\ r.tab[0].chunk = HeadLength
  BY <1>3, <1>7, <1>12, <1>17
<1>20. Shed(b, r, d, dist)
  <2>1. d > 0
    BY <1>4, <1>8, <1>18
  <2>2. \A k \in 1 .. Len(r.chunks) :
          r.chunks[k] = [cs[d + k] EXCEPT !.at = cs[d + k].at - dist]
    BY <1>7, <1>10, <1>11
  <2> QED
    BY <1>14, <1>19, <2>1, <2>2 DEF Shed
<1> QED
  BY <1>5, <1>9, <1>13, <1>14, <1>15, <1>16, <1>20 DEF r

(* The lines stay what they were when old chunks are released. *)
LEMMA ReleasedCut ==
  ASSUME NEW b, Sound(b), b.chunks # <<>>, NEW left \in Nat, NEW ls, Cut(b, ls, left)
  PROVE  Cut(Released(b), ls, left)
<1>1. CASE Released(b) = b
  BY <1>1
<1>2. CASE Released(b) # b
  <2>1. PICK d \in Nat, dist \in Int :
          /\ Kept(b, Released(b), d, dist)
          /\ d + Len(Released(b).chunks) = Len(b.chunks)
          /\ LastChunk(Released(b)).text = LastChunk(b).text
    BY <1>2, ReleasedKept
  <2>2. PICK c : c = Released(b)
    OBVIOUS
  <2>3. Sound(c)
    BY <2>2, ReleasedSound
  <2>4. PICK D : D = Len(Texts(b.chunks)[d])
    OBVIOUS
  <2>5. Displaced(b, c, D, 0) /\ D \in Nat
    BY <2>1, <2>2, <2>3, <2>4, MovedKept
  <2>6. Cut(c, ls, left + 0)
    BY <2>3, <2>5, CutMoved
  <2>7. left + 0 = left
    OBVIOUS
  <2> QED
    BY <2>2, <2>6, <2>7
<1> QED
  BY <1>1, <1>2

-----------------------------------------------------------------------------
(* The invariant of the history: what is not laid out yet is the end of    *)
(* the text, and the last chunk says whether a newline follows it.         *)
HistoryInv ==
  IF block.made
  THEN ~hit => /\ Cut(block, lines, job.left)
               /\ ~Idle => /\ LastChunk(block).feed = job.feed
                           /\ job.done + job.left = Len(LastChunk(block).text)
  ELSE lines = <<>>

(* A new block holds one empty line. *)
LEMMA EmptyCut == Cut(EmptyBlock, << <<>> >>, 0)
<1>1. PICK b : b = EmptyBlock
  OBVIOUS
<1>2. Sound(b) /\ b.chunks = <<>>
  BY <1>1, EmptySound DEF EmptyBlock
<1>3. b.avail = 1 /\ Offset(b, b.tab[0]) = 0 /\ Whole(b) = <<>>
  BY <1>2, EmptyOffset
<1>4. Len(Whole(b)) = 0
  BY <1>3
<1>5. Start(b, 1) = 0 /\ End(b, 1, 0) = 0
  BY <1>3, <1>4 DEF Start, End
<1>6. PICK p : p = Part(Whole(b), 0, 0)
  OBVIOUS
<1>7. p = <<>>
  <2>1. Whole(b) \in Seq(Streams) /\ 0 \in Nat /\ 0 <= 0 /\ 0 <= Len(Whole(b))
    BY <1>2, <1>4, BlockChunks
  <2>2. p \in Seq(Streams) /\ Len(p) = 0 - 0
    BY <1>6, <2>1, PartType
  <2> QED
    BY <2>2
<1>8. \A i \in 1 .. 1 : Part(Whole(b), Start(b, i), End(b, i, 0)) = <<>>
  <2>1. \A i \in 1 .. 1 : i = 1
    OBVIOUS
  <2> QED
    BY <1>5, <1>6, <1>7, <2>1
<1>9. PICK ls : ls = << <<>> >>
  OBVIOUS
<1>10. ls = [i \in 1 .. 1 |-> <<>>]
  BY <1>9
<1>11. ls = [i \in 1 .. 1 |-> Part(Whole(b), Start(b, i), End(b, i, 0))]
  BY <1>8, <1>10
<1>12. Cut(b, ls, 0)
  BY <1>3, <1>5, <1>11 DEF Cut
<1> QED
  BY <1>1, <1>9, <1>12, Zenon

(* The invariant holds of a new store. *)
LEMMA FreshHistory ==
  ASSUME (block = EmptyBlock /\ lines = << <<>> >>) \/ (block = NoBlock /\ lines = <<>>),
         job = NoJob
  PROVE  HistoryInv
<1>1. EmptyBlock.made = TRUE /\ job.left = 0
  BY DEF EmptyBlock, NoJob
<1> QED
  BY <1>1, EmptyCut, NoBlockType DEF HistoryInv, Idle

(* The text of a call is stored: none of it is laid out yet. *)
LEMMA StoreCut ==
  ASSUME IInv, NEW stream \in Streams, NEW n \in Pieces, NEW feed \in BOOLEAN,
         Store(stream, n, feed), NEW ls, Cut(block, ls, 0)
  PROVE  /\ block'.made /\ job'.left = n /\ job'.feed = feed
         /\ Cut(block', ls, n)
         /\ LastChunk(block').feed = feed
         /\ job'.done + n = Len(LastChunk(block').text)
<1> DEFINE text == [i \in 1 .. n |-> stream]
           size == IF feed THEN n + 1 ELSE n
           minadd == size + TextLength(size)
           b == Resized(block, minadd)
<1>1. /\ block.made /\ Idle /\ lines' = lines /\ hit' = hit /\ Sound(block)
      /\ IF Extendable(b, stream, n)
         THEN /\ block' = Extended(b, text, feed)
              /\ job' = [at |-> b.lastdata, x |-> LastChunk(b).endx,
                         done |-> Len(LastChunk(b).text), left |-> n, feed |-> feed]
         ELSE /\ block' = Added(b, stream, text, feed)
              /\ \E x \in StartColumns(b) :
                   job' = [at |-> b.term, x |-> x, done |-> 0, left |-> n, feed |-> feed]
  <2>1. block.made /\ Idle /\ lines' = lines /\ hit' = hit
    BY DEF Store
  <2>2. Sound(block)
    BY <2>1 DEF IInv, BlockSound
  <2> QED
    BY <2>1, <2>2, Zenon DEF Store
<1>2. n \in Nat
  BY StoreAssumption DEF StoreAssumption
<1>3. text \in Seq(Streams) /\ Len(text) = n
  BY <1>2
<1>4. IInv'
  BY StoreInv
<1>5. block'.made /\ job'.left = n /\ job'.feed = feed
  <2>1. job'.left = n /\ job'.feed = feed
    BY <1>1
  <2>2. job' # NoJob \/ job'.left = 0
    BY DEF NoJob
  <2>3. minadd \in Nat
    <3>1. size \in Nat
      BY <1>2
    <3> QED
      BY <3>1, TextLengthBounds
  <2>4. b.made = block.made /\ Sound(b)
    <3> HIDE DEF minadd
    <3> QED
      BY <1>1, <2>3, ResizedSound
  <2>5. block'.made = b.made
    <3> HIDE DEF b, text
    <3>1. Extended(b, text, feed).made = b.made
      BY <2>4 DEF Extended, Sound, BlockType
    <3>2. Added(b, stream, text, feed).made = b.made
      BY <2>4 DEF Added, Sound, BlockType
    <3> QED
      BY <1>1, <3>1, <3>2
  <2> QED
    BY <1>1, <2>1, <2>4, <2>5
<1>6. Sound(block')
  BY <1>4, <1>5 DEF IInv, BlockSound
<1> SUFFICES /\ Cut(block', ls, n)
             /\ LastChunk(block').feed = feed
             /\ job'.done + n = Len(LastChunk(block').text)
  BY <1>5
<1>7. Cut(block, ls, 0)
  OBVIOUS
<1>8. minadd \in Nat /\ minadd >= TextLength(n)
  <2>1. size \in Nat /\ (size = n \/ size = n + 1)
    BY <1>2
  <2>2. TextLength(size) \in Nat /\ TextLength(size) >= TextLength(n) /\ TextLength(n) \in Nat
    <3>1. TextLength(n + 1) - TextLength(n) \in 0 .. TextLength(1)
      BY <1>2, TextLengthJoin
    <3>2. TextLength(n) \in Nat /\ TextLength(n + 1) \in Nat
      BY <1>2, TextLengthBounds
    <3> QED
      BY <2>1, <3>1, <3>2
  <2> HIDE DEF size
  <2> QED
    BY <2>1, <2>2
<1>9. /\ Sound(b) /\ b.free >= minadd /\ b.chunks = block.chunks /\ b.made
      /\ b.tab = block.tab /\ b.avail = block.avail
  <2>1. b.tab = block.tab /\ b.avail = block.avail
    BY <1>1 DEF Resized, Sound, BlockType
  <2> HIDE DEF minadd
  <2> QED
    BY <1>1, <1>8, <2>1, ResizedSound
<1>10. b.free >= TextLength(n)
  <2>1. b.free \in Nat /\ TextLength(n) \in Nat
    BY <1>2, <1>9, TextLengthBounds DEF Sound, BlockType
  <2> HIDE DEF minadd
  <2> QED
    BY <1>8, <1>9, <2>1
<1> HIDE DEF b, minadd, size
<1>11. Cut(b, ls, 0)
  <2>1. Retold(block, b)
    BY <1>9 DEF Retold
  <2> QED
    BY <1>1, <1>7, <1>9, <2>1, RetoldCut
<1> DEFINE len == Len(b.chunks)
<1>12. /\ b.chunks \in Seq(ChunkType) /\ len \in Nat
       /\ b.tab \in [0 .. MaxLines -> RefType] /\ b.avail \in Nat
  BY <1>9, BlockChunks
<1>13. CASE Extendable(b, stream, n)
  <2> DEFINE old == LastChunk(b)
             length == TextLength(Len(old.text) + Len(text))
             new == [old EXCEPT !.length = length, !.text = old.text \o text,
                                !.feed = old.feed \/ feed]
             grow == length - old.length
  <2>1. block' = Extended(b, text, feed)
    BY <1>1, <1>13
  <2>2. len # 0 /\ len \in 1 .. len
    <3>1. len # 0
      BY <1>9, <1>13 DEF Extendable, LastIsText, Sound, Chain
    <3> QED
      BY <1>12, <3>1
  <2>3. old \in ChunkType /\ ~old.feed
    BY <1>12, <1>13, <2>2 DEF LastChunk, Extendable
  <2>4. block' = [b EXCEPT !.chunks = [b.chunks EXCEPT ![len] = new],
                           !.term = b.term + grow, !.free = b.free - grow]
    BY <1>9, <2>1 DEF Sound, BlockType, Extended, LastChunk
  <2> HIDE DEF new, grow, length
  <2>5. /\ block'.chunks = [b.chunks EXCEPT ![len] = new]
        /\ block'.tab = b.tab /\ block'.avail = b.avail
    BY <1>9, <2>4 DEF Sound, BlockType
  <2>6. /\ Len(block'.chunks) = len
        /\ \A k \in 1 .. len : block'.chunks[k] = IF k = len THEN new ELSE b.chunks[k]
    BY <1>12, <2>5
  <2>7. new.at = old.at /\ new.text = old.text \o text /\ new.feed = feed
    BY <2>3 DEF new, ChunkType
  <2>8. LastChunk(block') = new /\ old = b.chunks[len]
    BY <2>2, <2>6 DEF LastChunk
  <2> HIDE DEF old
  <2>9. Kept(b, block', 0, 0)
    <3>1. 0 < len /\ len - 0 <= Len(block'.chunks) /\ block'.avail = b.avail
      BY <1>12, <2>2, <2>5, <2>6
    <3>2. ASSUME NEW k \in 1 .. len - 0
          PROVE  block'.chunks[k].at = b.chunks[0 + k].at - 0
      <4>1. k \in 1 .. len
        BY <1>12
      <4>2. block'.chunks[k].at = b.chunks[k].at
        BY <2>6, <2>7, <2>8, <4>1
      <4>3. b.chunks[k].at \in Nat
        BY <1>9, <4>1, ChunkOrder
      <4> QED
        BY <4>2, <4>3
    <3>3. ASSUME NEW k \in 1 .. len - 0 - 1
          PROVE  block'.chunks[k].text = b.chunks[0 + k].text
      <4>1. k \in 1 .. len /\ k # len
        BY <1>12
      <4> QED
        BY <2>6, <4>1
    <3>4. ASSUME NEW i \in 0 .. b.avail - 1
          PROVE  /\ block'.tab[i].chunk = b.tab[i].chunk - 0
                 /\ block'.tab[i].char = b.tab[i].char
                 /\ b.chunks[0 + 1].at <= b.tab[i].chunk
      <4>1. b.chunks # <<>>
        BY <2>2
      <4>2. b.tab[i].chunk \in Nat /\ HeadLength <= b.tab[i].chunk
        BY <1>9, <4>1, TableBounds
      <4>3. b.chunks[1].at = HeadLength
        <5>1. 1 \in 1 .. len
          BY <2>2
        <5> QED
          BY <1>9, <5>1 DEF Sound, Chain
      <4> QED
        BY <2>5, <4>2, <4>3
    <3> QED
      BY <3>1, <3>2, <3>3, <3>4 DEF Kept
  <2>10. Displaced(b, block', 0, Len(text))
    <3> HIDE DEF text
    <3> QED
      BY <1>3, <1>6, <1>9, <2>6, <2>7, <2>8, <2>9, MovedExtended DEF old
  <2>11. Cut(block', ls, n)
    <3>1. Cut(block', ls, 0 + n)
      BY <1>2, <1>3, <1>6, <1>9, <1>11, <2>10, CutMoved
    <3> QED
      BY <1>2, <3>1
  <2>12. job'.done + n = Len(LastChunk(block').text)
    <3>1. job'.done = Len(old.text)
      BY <1>1, <1>9, <1>13 DEF old, LastChunk
    <3>2. Len(old.text \o text) = Len(old.text) + n
      <4>1. old.text \in Seq(Streams)
        BY <2>3 DEF ChunkType
      <4> HIDE DEF text
      <4> QED
        BY <1>3, <4>1, SMTT(60)
    <3> QED
      BY <2>7, <2>8, <3>1, <3>2
  <2> QED
    BY <2>7, <2>8, <2>11, <2>12
<1>14. CASE ~Extendable(b, stream, n)
  <2> DEFINE new == [at |-> b.term, type |-> stream, length |-> TextLength(n),
                     text |-> text, feed |-> feed, wrap |-> FALSE, endx |-> 0]
  <2>1. block' = Added(b, stream, text, feed) /\ job'.done = 0
    BY <1>1, <1>14
  <2>2. new \in ChunkType /\ new.text = text /\ new.feed = feed
    <3>1. 0 \in 0 .. Width
      BY StoreAssumption DEF StoreAssumption
    <3>2. b.term \in Nat /\ TextLength(n) \in Nat
      BY <1>2, <1>9, TextLengthBounds DEF Sound, BlockType
    <3> QED
      BY <1>3, <3>1, <3>2 DEF ChunkType
  <2>3. block' = [b EXCEPT !.chunks = Append(b.chunks, new), !.lastdata = b.term,
                           !.term = b.term + TextLength(n), !.free = b.free - TextLength(n)]
    BY <1>3, <1>9, <2>1 DEF Sound, BlockType, Added
  <2> HIDE DEF new
  <2>4. /\ block'.chunks = Append(b.chunks, new)
        /\ block'.tab = b.tab /\ block'.avail = b.avail
    BY <1>9, <2>3 DEF Sound, BlockType
  <2>5. LastChunk(block') = new
    <3>1. Len(Append(b.chunks, new)) = len + 1 /\ Append(b.chunks, new)[len + 1] = new
      BY <1>12, <2>2
    <3> QED
      BY <2>4, <3>1 DEF LastChunk
  <2>6. Displaced(b, block', 0, Len(new.text))
    BY <1>6, <1>9, <2>2, <2>4, MovedAdded
  <2>7. Cut(block', ls, n)
    <3>1. Cut(block', ls, 0 + n)
      BY <1>2, <1>3, <1>6, <1>9, <1>11, <2>2, <2>6, CutMoved
    <3> QED
      BY <1>2, <3>1
  <2> QED
    BY <1>2, <1>3, <2>1, <2>2, <2>5, <2>7
<1> QED
  BY <1>13, <1>14

LEMMA StoreHistory ==
  ASSUME IInv, HistoryInv, NEW stream \in Streams, NEW n \in Pieces, NEW feed \in BOOLEAN,
         Store(stream, n, feed)
  PROVE  HistoryInv'
<1>1. block.made /\ Idle /\ lines' = lines /\ hit' = hit
  BY DEF Store
<1>2. block'.made
  BY StoreView
<1>3. CASE hit
  BY <1>1, <1>2, <1>3 DEF HistoryInv
<1>4. CASE ~hit
  <2>1. Cut(block, lines, 0)
    BY <1>1, <1>4 DEF HistoryInv, Idle, NoJob
  <2>2. /\ job'.left = n /\ job'.feed = feed /\ Cut(block', lines, n)
        /\ LastChunk(block').feed = feed /\ job'.done + n = Len(LastChunk(block').text)
    BY <2>1, StoreCut
  <2> QED
    BY <1>1, <1>2, <2>2 DEF HistoryInv
<1> QED
  BY <1>3, <1>4

(* m more characters of the text are written into the open line. *)
LEMMA WrittenCut ==
  ASSUME IInv, ~Idle, job.done + job.left = Len(LastChunk(block).text),
         NEW m \in 0 .. job.left, NEW ls \in Seq(Seq(Streams)), Cut(block, ls, job.left)
  PROVE  /\ Sound(block) /\ block.made /\ block.chunks # <<>> /\ job.at = block.lastdata
         /\ WrittenTo(ls, m) \in Seq(Seq(Streams))
         /\ Cut(block, WrittenTo(ls, m), job.left - m)
         /\ job.done \in Nat /\ job.left \in Nat
<1>1. /\ Sound(block) /\ block.made /\ block.chunks # <<>> /\ job.at = block.lastdata
  BY DEF IInv, JobSound, BlockSound
<1>2. job.done \in Nat /\ job.left \in Nat /\ m \in Nat /\ m <= job.left
  BY DEF IInv, JobType
<1>3. WrittenTo(ls, m) \in Seq(Seq(Streams))
  BY <1>2, WrittenType
<1>4. Cut(block, ls, job.left) /\ job.done + job.left = Len(LastChunk(block).text)
  OBVIOUS
<1>5. PICK u, W : u = LastChunk(block).text /\ W = Len(Whole(block))
  OBVIOUS
<1>6. /\ u \in Seq(Streams) /\ Len(u) <= W
      /\ \A i \in 1 .. Len(u) : Whole(block)[W - Len(u) + i] = u[i]
  <2>1. EndsWith(Whole(block), LastChunk(block).text)
    BY <1>1, LastText
  <2> QED
    BY <1>5, <2>1 DEF EndsWith
<1>7. W \in Nat /\ Len(u) \in Nat /\ job.done + job.left = Len(u)
  BY <1>1, <1>4, <1>5, <1>6, BlockChunks
<1>8. PICK from : from = W - job.left
  OBVIOUS
<1>9. from = W - Len(u) + job.done /\ (from + m) - from = m
  <2>1. PICK x, y, z : x = Len(u) /\ y = job.done /\ z = job.left
    OBVIOUS
  <2>2. /\ W \in Nat /\ x \in Nat /\ y \in Nat /\ z \in Nat /\ m \in Nat
        /\ y + z = x /\ from = W - z
    BY <1>2, <1>7, <1>8, <2>1
  <2>3. from = W - x + y /\ (from + m) - from = m
    BY <2>2
  <2> QED
    BY <2>1, <2>3
<1>10. ASSUME NEW i \in 1 .. m PROVE Whole(block)[from + i] = u[job.done + i]
  <2>1. PICK k : k = job.done + i
    OBVIOUS
  <2>2. k \in 1 .. Len(u) /\ from + i = W - Len(u) + k
    <3>1. PICK x, y, z : x = Len(u) /\ y = job.done /\ z = job.left
      OBVIOUS
    <3>2. /\ W \in Nat /\ x \in Nat /\ y \in Nat /\ z \in Nat /\ m <= z
          /\ y + z = x /\ from = W - x + y /\ k = y + i
      BY <1>2, <1>7, <1>9, <2>1, <3>1
    <3>3. k \in 1 .. x /\ from + i = W - x + k
      BY <3>2
    <3> QED
      BY <3>1, <3>3
  <2>3. Whole(block)[W - Len(u) + k] = u[k]
    BY <1>6, <2>2
  <2> QED
    BY <2>1, <2>2, <2>3
<1>11. PICK piece : piece = Part(Whole(block), from, from + m)
  OBVIOUS
<1>12. piece = [i \in 1 .. m |-> u[job.done + i]]
  <2>1. piece = [i \in 1 .. m |-> Whole(block)[from + i]]
    BY <1>9, <1>11 DEF Part
  <2> QED
    BY <1>10, <2>1
<1>13. /\ Len(ls) = block.avail
       /\ Cut(block, [ls EXCEPT ![block.avail] = ls[block.avail] \o piece], job.left - m)
  <2>1. ls \in Seq(Seq(Streams))
    OBVIOUS
  <2>2. piece = Part(Whole(block), W - job.left, W - job.left + m)
    BY <1>8, <1>11
  <2> QED
    BY <1>1, <1>2, <1>4, <1>5, <2>1, <2>2, CutWritten
<1>14. WrittenTo(ls, m) = [ls EXCEPT ![block.avail] = ls[block.avail] \o piece]
  BY <1>5, <1>12, <1>13 DEF WrittenTo
<1> QED
  BY <1>1, <1>2, <1>3, <1>4, <1>13, <1>14

(* A chunk gets another flag or another end. *)
Relabelled(b, c) ==
  \E new \in ChunkType :
    /\ new = [LastChunk(b) EXCEPT !.wrap = TRUE]
         \/ \E endx \in 0 .. Width : new = [LastChunk(b) EXCEPT !.endx = endx]
    /\ c = [b EXCEPT !.chunks = [b.chunks EXCEPT ![Len(b.chunks)] = new]]

(* Its text and its lines stay what they were. *)
LEMMA RelabelledCut ==
  ASSUME NEW b, Sound(b), b.chunks # <<>>, NEW c, Relabelled(b, c),
         NEW left \in Nat, NEW ls, Cut(b, ls, left)
  PROVE  /\ Sound(c) /\ c.chunks # <<>> /\ c.lastdata = b.lastdata /\ c.made = b.made
         /\ c.avail = b.avail /\ Len(c.chunks) = Len(b.chunks)
         /\ LastChunk(c).text = LastChunk(b).text /\ LastChunk(c).feed = LastChunk(b).feed
         /\ Cut(c, ls, left)
<1> DEFINE n == Len(b.chunks)
<1>0. PICK new \in ChunkType :
        /\ new = [LastChunk(b) EXCEPT !.wrap = TRUE]
             \/ \E endx \in 0 .. Width : new = [LastChunk(b) EXCEPT !.endx = endx]
        /\ c = [b EXCEPT !.chunks = [b.chunks EXCEPT ![Len(b.chunks)] = new]]
  BY DEF Relabelled
<1>1. b.chunks \in Seq(ChunkType) /\ n \in Nat /\ n \in 1 .. n
  <2>1. b.chunks \in Seq(ChunkType) /\ n \in Nat
    BY BlockChunks
  <2> QED
    BY <2>1
<1>2. b.chunks[n] \in ChunkType /\ LastChunk(b) = b.chunks[n]
  BY <1>1 DEF LastChunk
<1>3. /\ new.at = b.chunks[n].at /\ new.text = b.chunks[n].text
      /\ new.type = b.chunks[n].type /\ new.length = b.chunks[n].length
      /\ new.feed = b.chunks[n].feed
  BY <1>0, <1>2 DEF ChunkType
<1>4. /\ Sound(c) /\ c.made = b.made /\ c.lastdata = b.lastdata
      /\ c.tab = b.tab /\ c.avail = b.avail
  BY <1>0, <1>1, <1>3, RelabelledSound
<1>5. c.chunks = [b.chunks EXCEPT ![n] = new]
  BY <1>0 DEF Sound, BlockType
<1>6. Len(c.chunks) = n /\ \A k \in 1 .. n : c.chunks[k] = IF k = n THEN new ELSE b.chunks[k]
  BY <1>1, <1>5
<1>7. Retold(b, c)
  BY <1>3, <1>6 DEF Retold
<1>8. Cut(c, ls, left)
  BY <1>4, <1>7, RetoldCut
<1>9. LastChunk(c) = new /\ c.chunks # <<>>
  BY <1>1, <1>6 DEF LastChunk
<1> QED
  BY <1>2, <1>3, <1>4, <1>6, <1>8, <1>9

(* The line is full: what fits is written and a new line begins. *)
LEMMA WrapCut ==
  ASSUME IInv, Wrap, job.done + job.left = Len(LastChunk(block).text),
         NEW ls \in Seq(Seq(Streams)), Cut(block, ls, job.left)
  PROVE  /\ Cut(block', Fed(WrittenTo(ls, Width - job.x)), job'.left)
         /\ job'.done + job'.left = Len(LastChunk(block').text)
         /\ job'.feed = job.feed
         /\ ~Hit => LastChunk(block').feed = LastChunk(block).feed
<1> DEFINE fits == Width - job.x
           done == job.done + fits
           new == [LastChunk(block) EXCEPT !.wrap = TRUE]
           w == [block EXCEPT !.chunks = [block.chunks EXCEPT ![Len(block.chunks)] = new]]
<1>1. ~Idle /\ job.left > fits
  BY DEF Wrap
<1>2. block.made /\ Sound(block) /\ block.chunks # <<>>
  BY <1>1 DEF IInv, JobSound, BlockSound
<1>3. job \in JobType /\ fits \in Nat /\ fits \in 0 .. job.left /\ job.left - fits \in Nat
  BY <1>1, StoreAssumption DEF IInv, JobType, StoreAssumption
<1>4. LastChunk(block) \in ChunkType
  BY <1>2 DEF LastChunk, Sound, BlockType
<1>5. new \in ChunkType
  BY <1>4 DEF ChunkType
<1>6. block' = NewLine(w, job.at, done)
  BY <1>2 DEF Wrap, LastChunk, Sound, BlockType
<1>7. job' = [job EXCEPT !.x = 0, !.done = done, !.left = job.left - fits]
  BY DEF Wrap
<1>8. job'.done = done /\ job'.left = job.left - fits /\ job'.feed = job.feed
  BY <1>3, <1>7 DEF JobType
<1> HIDE DEF fits, new, w
<1>9. PICK ks : ks = WrittenTo(ls, fits)
  OBVIOUS
<1>10. /\ ks \in Seq(Seq(Streams)) /\ Cut(block, ks, job.left - fits)
       /\ job.at = block.lastdata /\ job.done \in Nat /\ job.left \in Nat
       /\ job.done + job.left = Len(LastChunk(block).text)
  BY <1>1, <1>3, <1>9, WrittenCut
<1>11. /\ Sound(w) /\ w.chunks # <<>> /\ w.lastdata = block.lastdata /\ w.made = block.made
       /\ w.avail = block.avail /\ Len(w.chunks) = Len(block.chunks)
       /\ LastChunk(w).text = LastChunk(block).text
       /\ LastChunk(w).feed = LastChunk(block).feed
       /\ Cut(w, ks, job.left - fits)
  <2>1. new = [LastChunk(block) EXCEPT !.wrap = TRUE]
    BY DEF new
  <2>2. w = [block EXCEPT !.chunks = [block.chunks EXCEPT ![Len(block.chunks)] = new]]
    BY DEF w
  <2>3. Relabelled(block, w)
    BY <1>5, <2>1, <2>2 DEF Relabelled
  <2>4. PICK l : l = job.left - fits
    OBVIOUS
  <2>5. l \in Nat /\ Cut(block, ks, l)
    BY <1>3, <1>10, <2>4
  <2>6. /\ Sound(w) /\ w.chunks # <<>> /\ w.lastdata = block.lastdata /\ w.made = block.made
        /\ w.avail = block.avail /\ Len(w.chunks) = Len(block.chunks)
        /\ LastChunk(w).text = LastChunk(block).text
        /\ LastChunk(w).feed = LastChunk(block).feed
        /\ Cut(w, ks, l)
    BY <1>2, <2>3, <2>5, RelabelledCut
  <2> QED
    BY <2>4, <2>6
<1>12. /\ done \in Nat /\ done + (job.left - fits) = Len(LastChunk(w).text)
       /\ done <= Len(LastChunk(w).text)
  <2>1. done \in Nat /\ done + (job.left - fits) = job.done + job.left
    BY <1>3, <1>10
  <2> HIDE DEF done
  <2> QED
    BY <1>3, <1>10, <1>11, <2>1
<1>13. block' = NewLine(w, w.lastdata, done)
  BY <1>6, <1>10, <1>11
<1> HIDE DEF done
<1>14. Cut(block', Fed(ks), job'.left)
  <2>1. Cut(NewLine(w, w.lastdata, done), Fed(ks), job.left - fits)
    BY <1>3, <1>10, <1>11, <1>12, NewLineCut
  <2> QED
    BY <1>8, <1>13, <2>1
<1>15. LastChunk(block').text = LastChunk(block).text
  BY <1>2, <1>11, <1>12, <1>13, NewLineSound
<1>16. ~Hit => LastChunk(block').feed = LastChunk(block).feed
  <2> SUFFICES ASSUME ~Hit PROVE LastChunk(block').feed = LastChunk(block).feed
    OBVIOUS
  <2>1. ~(w.avail = MaxLines /\ Len(w.chunks) = 1)
    BY <1>11 DEF Hit
  <2>2. LastChunk(block').feed = LastChunk(w).feed
    BY <1>11, <1>12, <1>13, <2>1, NewLineTable
  <2> QED
    BY <1>11, <2>2
<1>17. job'.done + job'.left = Len(LastChunk(block').text)
  BY <1>8, <1>11, <1>12, <1>15
<1> QED
  BY <1>8, <1>9, <1>14, <1>16, <1>17 DEF fits

LEMMA WrapHistory == IInv /\ HistoryInv /\ Wrap => HistoryInv'
<1> SUFFICES ASSUME IInv, HistoryInv, Wrap PROVE HistoryInv'
  OBVIOUS
<1>1. ~Idle /\ lines' = Fed(Written(Width - job.x)) /\ hit' = (hit \/ Hit)
  BY DEF Wrap
<1>2. block.made
  BY <1>1 DEF IInv, JobSound
<1>3. block'.made
  <2>1. IInv' /\ job' # NoJob
    <3>1. job.left \in Nat /\ job.left > Width - job.x /\ Width - job.x \in Nat
      BY StoreAssumption DEF Wrap, IInv, JobType, StoreAssumption
    <3>2. job'.left = job.left - (Width - job.x)
      BY DEF Wrap, IInv, JobType
    <3>3. job'.left # 0
      BY <3>1, <3>2
    <3> QED
      BY <3>3, WrapInv DEF NoJob
  <2> QED
    BY <2>1 DEF IInv, JobSound, Idle
<1>4. CASE hit'
  BY <1>3, <1>4 DEF HistoryInv
<1>5. CASE ~hit'
  <2>1. /\ Cut(block, lines, job.left) /\ LastChunk(block).feed = job.feed
        /\ job.done + job.left = Len(LastChunk(block).text) /\ ~Hit
    BY <1>1, <1>2, <1>5 DEF HistoryInv
  <2>2. lines \in Seq(Seq(Streams))
    BY DEF IInv
  <2>3. /\ Cut(block', Fed(WrittenTo(lines, Width - job.x)), job'.left)
        /\ job'.done + job'.left = Len(LastChunk(block').text)
        /\ job'.feed = job.feed /\ LastChunk(block').feed = LastChunk(block).feed
    BY <2>1, <2>2, WrapCut
  <2>4. Written(Width - job.x) = WrittenTo(lines, Width - job.x)
    BY DEF Written, WrittenTo
  <2> QED
    BY <1>1, <1>3, <2>1, <2>3, <2>4 DEF HistoryInv
<1> QED
  BY <1>4, <1>5

(* The rest of the text is written and old chunks are released. *)
LEMMA FinishCut ==
  ASSUME IInv, Finish, job.done + job.left = Len(LastChunk(block).text),
         NEW ls \in Seq(Seq(Streams)), Cut(block, ls, job.left)
  PROVE  Cut(block', IF LastChunk(block).feed THEN Fed(WrittenTo(ls, job.left))
                     ELSE WrittenTo(ls, job.left), 0)
<1> DEFINE feeds == LastChunk(block).feed
           char == job.done + job.left
           laid == IF feeds THEN NewLine(block, job.at, char) ELSE block
           endx == IF feeds THEN 0 ELSE job.x + job.left
           n == Len(laid.chunks)
           new == [LastChunk(laid) EXCEPT !.endx = endx]
           c == [laid EXCEPT !.chunks = [laid.chunks EXCEPT ![n] = new]]
<1>1. ~Idle /\ job.left <= Width - job.x
  BY DEF Finish
<1>2. block.made /\ Sound(block) /\ block.chunks # <<>> /\ job.at = block.lastdata
      /\ char <= Len(LastChunk(block).text)
  BY <1>1 DEF IInv, JobSound, BlockSound
<1>3. /\ job.left \in Nat /\ job.done \in Nat /\ char \in Nat
      /\ job.x + job.left \in 0 .. Width /\ 0 \in 0 .. Width
      /\ job.left \in 0 .. job.left /\ job.left - job.left = 0
  BY <1>1, StoreAssumption DEF IInv, JobType, StoreAssumption
<1>4. feeds \in BOOLEAN
  <2>1. LastChunk(block) \in ChunkType
    BY <1>2 DEF LastChunk, Sound, BlockType
  <2> QED
    BY <2>1 DEF ChunkType
<1>5. Sound(laid) /\ laid.made = block.made /\ laid.chunks # <<>>
  <2>1. CASE feeds
    <3>1. laid = NewLine(block, block.lastdata, char)
      BY <1>2, <2>1
    <3> QED
      BY <1>2, <1>3, <3>1, NewLineSound
  <2>2. CASE ~feeds
    BY <1>2, <2>2
  <2> QED
    BY <1>4, <2>1, <2>2
<1>6. endx \in 0 .. Width
  BY <1>3
<1>7. block' = Released(c)
  BY <1>5 DEF Finish, LastChunk, Sound, BlockType
<1> HIDE DEF endx
<1>8. new \in ChunkType
  <2> HIDE DEF laid
  <2>1. LastChunk(laid) \in ChunkType
    BY <1>5 DEF LastChunk, Sound, BlockType
  <2> QED
    BY <1>6, <2>1 DEF ChunkType
<1>9. PICK ks : ks = WrittenTo(ls, job.left)
  OBVIOUS
<1>10. ks \in Seq(Seq(Streams)) /\ Cut(block, ks, 0) /\ char = Len(LastChunk(block).text)
  <2>1. /\ ks \in Seq(Seq(Streams)) /\ Cut(block, ks, job.left - job.left)
        /\ job.done + job.left = Len(LastChunk(block).text)
    BY <1>1, <1>3, <1>9, WrittenCut
  <2> QED
    BY <1>3, <2>1
<1>11. PICK ms : ms = IF feeds THEN Fed(ks) ELSE ks
  OBVIOUS
<1>12. Cut(laid, ms, 0)
  <2>1. CASE feeds
    <3>1. laid = NewLine(block, block.lastdata, char)
      BY <1>2, <2>1
    <3>2. char + 0 = Len(LastChunk(block).text)
      BY <1>3, <1>10
    <3> HIDE DEF char, laid
    <3>3. Cut(laid, Fed(ks), 0)
      BY <1>2, <1>3, <1>10, <3>1, <3>2, NewLineCut
    <3> QED
      BY <1>11, <2>1, <3>3
  <2>2. CASE ~feeds
    BY <1>10, <1>11, <2>2
  <2> QED
    BY <1>4, <2>1, <2>2
<1> HIDE DEF laid
<1>13. Sound(c) /\ c.chunks # <<>> /\ Cut(c, ms, 0)
  <2>1. \E e \in 0 .. Width : new = [LastChunk(laid) EXCEPT !.endx = e]
    BY <1>6
  <2>2. PICK w : w = c
    OBVIOUS
  <2> HIDE DEF new
  <2>3. w = [laid EXCEPT !.chunks = [laid.chunks EXCEPT ![Len(laid.chunks)] = new]]
    BY <2>2
  <2>4. Relabelled(laid, w)
    BY <1>8, <2>1, <2>3 DEF Relabelled
  <2>5. Sound(w) /\ w.chunks # <<>> /\ Cut(w, ms, 0)
    BY <1>5, <1>12, <2>4, RelabelledCut
  <2> QED
    BY <2>2, <2>5
<1> HIDE DEF c
<1>14. Cut(block', ms, 0)
  BY <1>7, <1>13, ReleasedCut
<1> QED
  BY <1>9, <1>11, <1>14

LEMMA FinishHistory == IInv /\ HistoryInv /\ Finish => HistoryInv'
<1> SUFFICES ASSUME IInv, HistoryInv, Finish PROVE HistoryInv'
  OBVIOUS
<1>1. /\ ~Idle /\ job' = NoJob /\ hit' = (hit \/ (LastChunk(block).feed /\ Hit))
      /\ lines' = IF job.feed THEN Fed(Written(job.left)) ELSE Written(job.left)
  BY DEF Finish
<1>2. block.made /\ job'.left = 0 /\ Idle'
  BY <1>1 DEF IInv, JobSound, NoJob, Idle
<1>3. block'.made
  BY FinishMade
<1>4. CASE hit'
  BY <1>3, <1>4 DEF HistoryInv
<1>5. CASE ~hit'
  <2>1. /\ Cut(block, lines, job.left) /\ LastChunk(block).feed = job.feed
        /\ job.done + job.left = Len(LastChunk(block).text)
    BY <1>1, <1>2, <1>5 DEF HistoryInv
  <2>2. lines \in Seq(Seq(Streams))
    BY DEF IInv
  <2>3. Cut(block', IF LastChunk(block).feed THEN Fed(WrittenTo(lines, job.left))
                    ELSE WrittenTo(lines, job.left), 0)
    BY <2>1, <2>2, FinishCut
  <2>4. Written(job.left) = WrittenTo(lines, job.left)
    BY DEF Written, WrittenTo
  <2>5. Cut(block', lines', 0)
    BY <1>1, <2>1, <2>3, <2>4
  <2> QED
    BY <1>2, <1>3, <2>5 DEF HistoryInv
<1> QED
  BY <1>4, <1>5

(* The view moves, the text does not. *)
LEMMA ScrollHistory ==
  ASSUME IInv, HistoryInv, NEW k \in Int, Scroll(k)
  PROVE  HistoryInv'
<1>1. /\ block.made /\ Idle /\ Sound(block)
      /\ job' = job /\ lines' = lines /\ hit' = hit
  BY DEF Scroll, IInv, BlockSound
<1>2. IInv'
  BY ScrollInv
<1>3. /\ block'.made = block.made /\ block'.chunks = block.chunks
      /\ block'.tab = block.tab /\ block'.avail = block.avail
  <2>1. CASE block' = ScrolledBack(block, k)
    BY <1>1, <2>1 DEF ScrolledBack, Sound, BlockType
  <2>2. CASE block' = ScrolledOn(block, k)
    BY <1>1, <2>2 DEF ScrolledOn, Sound, BlockType
  <2> QED
    BY <2>1, <2>2 DEF Scroll
<1>4. Sound(block')
  BY <1>1, <1>2, <1>3 DEF IInv, BlockSound
<1>5. Retold(block, block')
  BY <1>3 DEF Retold
<1>6. job.left \in Nat
  BY DEF IInv, JobType
<1>7. Cut(block, lines, job.left) => Cut(block', lines, job.left)
  BY <1>1, <1>3, <1>4, <1>5, <1>6, RetoldCut
<1> QED
  BY <1>1, <1>3, <1>7 DEF HistoryInv, Idle, LastChunk

(* Every step keeps the invariant. *)
LEMMA NextHistory == IInv /\ HistoryInv /\ [Next]_vars => HistoryInv'
<1> SUFFICES ASSUME IInv, HistoryInv, [Next]_vars PROVE HistoryInv'
  OBVIOUS
<1>1. ASSUME NEW stream \in Streams, NEW n \in Pieces, NEW feed \in BOOLEAN,
             Store(stream, n, feed)
      PROVE  HistoryInv'
  BY <1>1, StoreHistory
<1>2. CASE Wrap
  BY <1>2, WrapHistory
<1>3. CASE Finish
  BY <1>3, FinishHistory
<1>4. ASSUME NEW k \in 1 .. MaxLines, Scroll(k) PROVE HistoryInv'
  BY <1>4, ScrollHistory
<1>5. CASE ScrollPage
  <2>1. Visible - 1 \in Int
    BY StoreAssumption DEF StoreAssumption
  <2> QED
    BY <1>5, <2>1, ScrollHistory DEF ScrollPage
<1>6. CASE Clear
  <2>1. job' = NoJob
    BY <1>6 DEF Clear, Idle
  <2>2. (block' = EmptyBlock /\ lines' = << <<>> >>) \/ (block' = NoBlock /\ lines' = <<>>)
    BY <1>6 DEF Clear
  <2>3. EmptyBlock.made = TRUE /\ job'.left = 0
    BY <2>1 DEF EmptyBlock, NoJob
  <2> QED
    BY <2>1, <2>2, <2>3, EmptyCut, NoBlockType DEF HistoryInv, Idle
<1>7. CASE UNCHANGED vars
  BY <1>7 DEF vars, HistoryInv, Idle
<1> QED
  BY <1>1, <1>2, <1>3, <1>4, <1>5, <1>6, <1>7 DEF Next

LEMMA InitHistory == Init => HistoryInv
BY FreshHistory DEF Init

(* The invariant says more than HistoryKept: also while text is laid out. *)
LEMMA HistoryCut == IInv /\ HistoryInv => HistoryKept
<1> SUFFICES ASSUME IInv, HistoryInv, Idle, ~hit
             PROVE  lines = [i \in 1 .. block.avail |-> LineText(block, i)]
  BY DEF HistoryKept
<1>1. CASE block.made
  <2>1. Sound(block) /\ Cut(block, lines, 0)
    BY <1>1 DEF IInv, BlockSound, HistoryInv, Idle, NoJob
  <2>2. /\ Len(Whole(block)) \in Nat /\ block.avail \in Nat
        /\ TextBefore(block, block.term) = Whole(block)
    BY <2>1, BlockChunks, BeforeTerm
  <2>3. ASSUME NEW i \in 1 .. block.avail
        PROVE  LineText(block, i) = Part(Whole(block), Start(block, i), End(block, i, 0))
    <3>1. (i + 1) - 1 = i /\ Len(Whole(block)) - 0 = Len(Whole(block))
      BY <2>2
    <3> QED
      BY <2>2, <3>1 DEF LineText, Start, End
  <2> QED
    BY <2>1, <2>3 DEF Cut
<1>2. CASE ~block.made
  <2>1. lines = <<>> /\ block = NoBlock
    BY <1>2 DEF IInv, BlockSound, HistoryInv
  <2>2. block.avail = 0
    BY <2>1 DEF NoBlock
  <2>3. [i \in 1 .. 0 |-> LineText(block, i)] = <<>>
    OBVIOUS
  <2> QED
    BY <2>1, <2>2, <2>3
<1> QED
  BY <1>1, <1>2

-----------------------------------------------------------------------------
(* How large the block grows.  Two lines that follow each other start at   *)
(* most Width + 1 chunks apart (LinesClose): every chunk of a line but the *)
(* first and the last one takes at least a column of it, or ends it.  For  *)
(* the open line that is counted while it grows (OpenClose), in columns    *)
(* (IdleClose, JobClose).  No chunk holds more text than a line that is    *)
(* open and one more piece (Short).  So there are only so many chunks      *)
(* between the first line and the end, of so many bytes each, and the      *)
(* block grows only when there is less room than one more chunk needs.     *)
LinesClose(b) ==
  \A i \in 1 .. b.avail - 1, p, q \in 1 .. Len(b.chunks) :
    b.chunks[p].at = b.tab[i - 1].chunk /\ b.chunks[q].at = b.tab[i].chunk => q - p <= Width + 1
(* The open line starts at most d chunks before the last one. *)
OpenClose(b, d) ==
  \A p \in 1 .. Len(b.chunks) :
    b.chunks[p].at = b.tab[b.avail - 1].chunk => Len(b.chunks) - p <= d
(* Text joins a chunk only while all of that lies in the open line. *)
Short(b) == \A k \in 1 .. Len(b.chunks) : Len(b.chunks[k].text) <= Width + Longest
Close(b) == LinesClose(b) /\ Short(b) /\ b.total <= TotalBound

(* Between two calls: the text still to come starts behind endx columns of *)
(* the open line.                                                          *)
IdleClose(b) ==
  b.chunks # <<>> =>
    IF LastChunk(b).type \in Streams
    THEN /\ OpenClose(b, LastChunk(b).endx)
         /\ ~LastChunk(b).feed /\ ~LastChunk(b).wrap
              => Len(LastChunk(b).text) <= LastChunk(b).endx
    ELSE OpenClose(b, 0)

(* During a call: x columns of the open line are laid out. *)
JobClose(b, j) ==
  /\ OpenClose(b, j.x + 1)
  /\ OpenClose(b, j.x + j.left + (IF LastChunk(b).feed THEN 1 ELSE 0))
  /\ IF LastChunk(b).type \in Streams
     THEN ~LastChunk(b).wrap => j.done <= j.x
     ELSE OpenClose(b, 0)
  /\ j.done + j.left = Len(LastChunk(b).text)

BoundInv ==
  block.made =>
    /\ Close(block)
    /\ IF Idle THEN block.tab[0].chunk = HeadLength /\ IdleClose(block)
       ELSE JobClose(block, job)

(* The prover takes products for numbers it knows nothing of. *)
LEMMA TimesNext ==
  ASSUME NEW i \in Nat, NEW j \in Nat, j = i + 1, NEW w \in Nat
  PROVE  j * w = i * w + w
OBVIOUS

LEMMA TimesMonotone ==
  ASSUME NEW i \in Nat, NEW j \in Nat, i <= j, NEW w \in Nat
  PROVE  i * w <= j * w /\ i * w \in Nat
<1>1. PICK d \in Nat : j = i + d
  <2>1. j - i \in Nat /\ j = i + (j - i)
    OBVIOUS
  <2> QED
    BY <2>1
<1>2. j * w = i * w + d * w
  BY <1>1
<1>3. d * w \in Nat /\ i * w \in Nat
  OBVIOUS
<1> QED
  BY <1>2, <1>3

(* There is a longest piece. *)
LEMMA LongestType == Longest \in Nat /\ \A n \in Pieces : n <= Longest
<1>1. Longest \in Pieces /\ \A n \in Pieces : n <= Longest
  BY PiecesAssumption DEF Longest
<1> QED
  BY <1>1, StoreAssumption DEF StoreAssumption

(* Line by line: there are only so many chunks. *)
LEMMA ChunksBounded ==
  ASSUME NEW b, Sound(b), b.chunks # <<>>, LinesClose(b), OpenClose(b, Width),
         b.tab[0].chunk = HeadLength
  PROVE  Len(b.chunks) <= MaxLines * (Width + 1) + 1
<1>1. PICK w, n, a : w = Width + 1 /\ n = Len(b.chunks) /\ a = b.avail
  OBVIOUS
<1>2. w \in Nat /\ n \in Nat /\ a \in Nat /\ a >= 1 /\ a <= MaxLines /\ MaxLines \in Nat /\ Width = w - 1
  BY <1>1, BlockChunks, StoreAssumption DEF StoreAssumption
<1>3. PICK final : final = a - 1
  OBVIOUS
<1>4. final \in Nat /\ a = final + 1
  BY <1>2, <1>3
<1> DEFINE G == {i \in 0 .. final : \A p \in 1 .. n : b.chunks[p].at = b.tab[i].chunk => p <= i * w + 1}
<1>5. 0 \in G
  <2>1. ASSUME NEW p \in 1 .. n, b.chunks[p].at = b.tab[0].chunk PROVE p <= 1
    <3>1. 1 \in 1 .. n /\ p \in 1 .. Len(b.chunks) /\ 1 \in 1 .. Len(b.chunks)
      BY <1>1, <1>2
    <3>2. b.chunks[1].at = HeadLength
      BY <3>1 DEF Sound, Chain
    <3>3. 1 < p => b.chunks[1].at < b.chunks[p].at
      BY <3>1, ChunkOrder
    <3> QED
      BY <2>1, <3>2, <3>3, HeadLengthType
  <2>2. 0 * w + 1 = 1 /\ 0 \in 0 .. final
    BY <1>2, <1>4
  <2> QED
    BY <2>1, <2>2
<1>6. ASSUME NEW i \in 1 .. final, i - 1 \in G PROVE i \in G
  <2>1. PICK h : h = i - 1
    OBVIOUS
  <2>2. h \in Nat /\ i = h + 1 /\ i \in Nat /\ i \in 1 .. b.avail - 1 /\ h \in 0 .. b.avail - 1
    BY <1>1, <1>2, <1>4, <2>1
  <2>3. i * w = h * w + w /\ h * w \in Nat
    BY <1>2, <2>2, TimesNext, TimesMonotone
  <2>4. PICK p \in 1 .. n : b.chunks[p].at = b.tab[h].chunk
    BY <1>1, <2>2, TableBounds DEF InChunk
  <2>5. p <= h * w + 1
    BY <1>6, <2>1, <2>4
  <2>6. ASSUME NEW q \in 1 .. n, b.chunks[q].at = b.tab[i].chunk PROVE q <= i * w + 1
    <3>1. q - p <= w
      BY <1>1, <2>1, <2>2, <2>4, <2>6 DEF LinesClose
    <3>2. PICK y, z : y = h * w /\ z = i * w
      OBVIOUS
    <3> QED
      BY <1>2, <2>3, <2>5, <3>1, <3>2
  <2> QED
    BY <2>6
<1>7. \A i \in 0 .. final : i \in G
  <2> HIDE DEF G
  <2> QED
    BY <1>4, <1>5, <1>6, Upto
<1>8. final \in G
  BY <1>4, <1>7
<1>9. PICK p \in 1 .. n : b.chunks[p].at = b.tab[final].chunk
  <2>1. final \in 0 .. b.avail - 1
    BY <1>1, <1>4
  <2> QED
    BY <1>1, <2>1, TableBounds DEF InChunk
<1>10. p <= final * w + 1
  BY <1>8, <1>9
<1>11. n - p <= w - 1
  BY <1>1, <1>2, <1>3, <1>9 DEF OpenClose
<1>12. a * w = final * w + w /\ a * w <= MaxLines * w /\ final * w \in Nat /\ a * w \in Nat
       /\ MaxLines * w \in Nat
  BY <1>2, <1>4, TimesNext, TimesMonotone
<1>13. PICK x, y, z : x = final * w /\ y = a * w /\ z = MaxLines * w
  OBVIOUS
<1>14. n <= z + 1
  BY <1>2, <1>10, <1>11, <1>12, <1>13
<1> QED
  BY <1>1, <1>13, <1>14

(* Chunk by chunk: the terminator comes after so many bytes. *)
LEMMA TermBounded ==
  ASSUME NEW b, Sound(b), NEW large \in Nat,
         \A k \in 1 .. Len(b.chunks) : TextLength(Len(b.chunks[k].text)) <= large
  PROVE  b.term <= HeadLength + Len(b.chunks) * large
<1>1. PICK n, cs : n = Len(b.chunks) /\ cs = b.chunks
  OBVIOUS
<1>2. n \in Nat /\ cs \in Seq(ChunkType) /\ n = Len(cs)
  BY <1>1, BlockChunks
<1>3. \A i \in 1 .. n : cs[i].at = IF i = 1 THEN HeadLength ELSE ChunkEnd(cs[i - 1])
  BY <1>1 DEF Sound, Chain
<1>4. b.term = IF n = 0 THEN HeadLength ELSE ChunkEnd(cs[n])
  BY <1>1 DEF Sound, Chain
<1> DEFINE E(k) == IF k = 0 THEN HeadLength ELSE ChunkEnd(cs[k])
           G == {k \in 0 .. n : E(k) \in Nat /\ E(k) <= HeadLength + k * large}
<1>5. 0 \in G
  BY <1>2, HeadLengthType
<1>6. ASSUME NEW k \in 1 .. n, k - 1 \in G PROVE k \in G
  <2>1. PICK h : h = k - 1
    OBVIOUS
  <2>2. h \in Nat /\ k = h + 1 /\ k \in Nat
    BY <2>1
  <2>3. PICK e : e = E(h)
    OBVIOUS
  <2>4. e \in Nat /\ e <= HeadLength + h * large
    BY <1>6, <2>1, <2>3
  <2>5. cs[k].at = e
    BY <1>3, <2>1, <2>2, <2>3
  <2>6. PICK t : t = TextLength(Len(cs[k].text))
    OBVIOUS
  <2>7. t \in Nat /\ t <= large
    <3>1. cs[k] \in ChunkType
      BY <1>2
    <3>2. Len(cs[k].text) \in Nat
      BY <3>1 DEF ChunkType
    <3> QED
      BY <1>1, <2>6, <3>2, TextLengthBounds
  <2>8. E(k) = e + t
    BY <2>2, <2>5, <2>6 DEF ChunkEnd
  <2>9. k * large = h * large + large /\ h * large \in Nat
    BY <2>2, TimesNext, TimesMonotone
  <2>10. PICK x, y : x = h * large /\ y = k * large
    OBVIOUS
  <2>11. e + t <= HeadLength + y
    BY <2>4, <2>7, <2>9, <2>10, HeadLengthType
  <2> QED
    BY <2>2, <2>4, <2>7, <2>8, <2>10, <2>11
<1>7. \A k \in 0 .. n : k \in G
  <2> HIDE DEF G
  <2> QED
    BY <1>2, <1>5, <1>6, Upto
<1>8. n \in G
  BY <1>2, <1>7
<1> QED
  BY <1>1, <1>4, <1>8

LEMMA RoundedUpRises ==
  ASSUME NEW m \in Nat, NEW n \in Nat, m <= n
  PROVE  RoundedUp(m) <= RoundedUp(n)
BY DEF RoundedUp

(* What output_addchunk asks for, and what output_resize makes of it.  The *)
(* newline may cost a chunk four bytes more, but never another 256.        *)
LEMMA RoomNeeded ==
  ASSUME NEW s \in Nat, NEW l \in Nat, s <= l + 1, NEW w \in Nat \ {0}
  PROVE  LET large == TextLength(w + l)
             minadd == s + TextLength(s)
         IN  minadd + RoundedUp(minadd) <= 2 * RoundedUp(l + large)
<1> DEFINE large == TextLength(w + l)
           minadd == s + TextLength(s)
<1>1. PICK q, r : q \in Nat /\ r \in 0 .. 3 /\ l = 4 * q + r
  <2>1. l \div 4 \in Nat /\ l % 4 \in 0 .. 3 /\ l = 4 * (l \div 4) + (l % 4)
    OBVIOUS
  <2> QED
    BY <2>1
<1>2. minadd \in Nat /\ large \in Nat
  BY TextLengthBounds
<1>3. minadd <= l + 1 + TextLength(l + 1)
  BY DEF TextLength
<1>4. RoundedUp(minadd) <= RoundedUp(l + large)
  <2>1. TextLength(l + 1) <= large
    BY DEF TextLength
  <2>2. RoundedUp(l + 1 + TextLength(l + 1)) = RoundedUp(l + TextLength(l + 1))
    <3>1. CASE r = 0
      <4>1. TextLength(l + 1) = 4 * q + 36
        BY <1>1, <3>1 DEF TextLength
      <4> QED
        BY <1>1, <3>1, <4>1 DEF RoundedUp
    <3>2. CASE r # 0
      BY <1>1, <3>2 DEF RoundedUp, TextLength
    <3> QED
      BY <3>1, <3>2
  <2>3. PICK t, u : t = TextLength(l + 1) /\ u = l + 1 + t
    OBVIOUS
  <2>4. t \in Nat /\ u \in Nat /\ l + t \in Nat /\ l + t <= l + large
    BY <1>2, <2>1, <2>3, TextLengthBounds
  <2>5. RoundedUp(minadd) <= RoundedUp(u)
    BY <1>2, <1>3, <2>3, <2>4, RoundedUpRises
  <2>6. RoundedUp(l + t) <= RoundedUp(l + large)
    BY <1>2, <2>4, RoundedUpRises
  <2>7. RoundedUp(u) = RoundedUp(l + t)
    BY <2>2, <2>3
  <2>8. /\ RoundedUp(minadd) \in Nat /\ RoundedUp(l + t) \in Nat
        /\ RoundedUp(l + large) \in Nat
    BY <1>2, <2>4, RoundedUpBounds
  <2> QED
    BY <2>5, <2>6, <2>7, <2>8
<1>5. minadd <= RoundedUp(minadd) /\ RoundedUp(minadd) \in Nat /\ RoundedUp(l + large) \in Nat
  BY <1>2, RoundedUpBounds
<1> QED
  BY <1>2, <1>4, <1>5

(* The bounds are upper bounds. *)
LEMMA OpenCloser ==
  ASSUME NEW b, Sound(b), NEW d \in Int, NEW e \in Int, d <= e, OpenClose(b, d)
  PROVE  OpenClose(b, e)
<1>1. Len(b.chunks) \in Nat
  BY BlockChunks
<1> QED
  BY <1>1 DEF OpenClose

(* The chunks stand where they stood, and so do the lines. *)
Unmoved(b, c) ==
  /\ Len(c.chunks) = Len(b.chunks)
  /\ \A k \in 1 .. Len(b.chunks) : c.chunks[k].at = b.chunks[k].at
  /\ c.tab = b.tab /\ c.avail = b.avail

(* Then the lines are as close as before. *)
LEMMA CloseUnmoved ==
  ASSUME NEW b, NEW c, Unmoved(b, c)
  PROVE  /\ LinesClose(b) => LinesClose(c)
         /\ \A d \in Int : OpenClose(b, d) => OpenClose(c, d)
<1>1. LinesClose(b) => LinesClose(c)
  BY DEF LinesClose, Unmoved
<1>2. \A d \in Int : OpenClose(b, d) => OpenClose(c, d)
  BY DEF OpenClose, Unmoved
<1> QED
  BY <1>1, <1>2

(* A new line starts in the last chunk, and the line it ends is closed.  *)
LEMMA NewLineClose ==
  ASSUME NEW b, Sound(b), b.chunks # <<>>, NEW char \in Nat,
         LinesClose(b), OpenClose(b, Width + 1), Short(b)
  PROVE  LET c == NewLine(b, b.lastdata, char)
         IN  LinesClose(c) /\ OpenClose(c, 0) /\ Short(c)
<1>1. PICK c, lost, n : /\ c = NewLine(b, b.lastdata, char) /\ n = Len(b.chunks)
                        /\ lost = IF b.avail = MaxLines THEN 1 ELSE 0
  OBVIOUS
<1>2. /\ Retold(b, c) /\ c.avail = b.avail + 1 - lost
      /\ \A i \in 0 .. c.avail - 2 : c.tab[i] = b.tab[i + lost]
      /\ c.tab[c.avail - 1] = Ref(b.lastdata, char)
  BY <1>1, NewLineTable
<1>3. /\ n \in Nat /\ b.avail \in 1 .. MaxLines /\ MaxLines \in Nat /\ lost \in {0, 1}
      /\ n \in 1 .. n /\ Width \in Nat
  <2>1. n \in Nat /\ b.avail \in 1 .. MaxLines /\ MaxLines \in Nat /\ b.chunks \in Seq(ChunkType)
    BY <1>1, BlockChunks
  <2> QED
    BY <1>1, <2>1, StoreAssumption DEF StoreAssumption
<1>4. b.lastdata = b.chunks[n].at
  BY <1>1, <1>3 DEF Sound, Chain
<1>5. /\ Len(c.chunks) = n /\ \A k \in 1 .. n : c.chunks[k].at = b.chunks[k].at
      /\ \A k \in 1 .. n : c.chunks[k].text = b.chunks[k].text
  BY <1>1, <1>2 DEF Retold
<1>6. c.tab[c.avail - 1].chunk = b.lastdata
  BY <1>2 DEF Ref
<1>7. ASSUME NEW i \in 1 .. c.avail - 1, NEW p \in 1 .. n, NEW q \in 1 .. n,
             c.chunks[p].at = c.tab[i - 1].chunk, c.chunks[q].at = c.tab[i].chunk
      PROVE  q - p <= Width + 1
  <2>1. PICK h, j, k : h = i - 1 /\ j = h + lost /\ k = i + lost
    OBVIOUS
  <2>2. h \in 0 .. c.avail - 2 /\ j \in 0 .. b.avail - 1 /\ j = k - 1
    BY <1>2, <1>3, <2>1
  <2>3. b.chunks[p].at = b.tab[j].chunk
    BY <1>2, <1>5, <1>7, <2>1, <2>2
  <2>4. CASE i = c.avail - 1
    <3>1. j = b.avail - 1
      <4>1. PICK g, a : g = c.avail /\ a = b.avail
        OBVIOUS
      <4>2. /\ a \in Nat /\ lost \in {0, 1} /\ g = a + 1 - lost
            /\ i = g - 1 /\ h = i - 1 /\ j = h + lost
        BY <1>2, <1>3, <2>1, <2>4, <4>1
      <4>3. j = a - 1
        BY <4>2
      <4> QED
        BY <4>1, <4>3
    <3>2. n - p <= Width + 1
      BY <1>1, <2>3, <3>1 DEF OpenClose
    <3> QED
      BY <1>3, <3>2
  <2>5. CASE i # c.avail - 1
    <3>1. i \in 0 .. c.avail - 2 /\ k \in 1 .. b.avail - 1
      BY <1>2, <1>3, <2>1, <2>5
    <3>2. b.chunks[q].at = b.tab[k].chunk
      BY <1>2, <1>5, <1>7, <2>1, <3>1
    <3>3. b.chunks[p].at = b.tab[k - 1].chunk
      BY <2>2, <2>3
    <3> QED
      BY <1>1, <3>1, <3>2, <3>3 DEF LinesClose
  <2> QED
    BY <2>4, <2>5
<1>8. LinesClose(c)
  BY <1>5, <1>7 DEF LinesClose
<1>9. OpenClose(c, 0)
  <2>1. ASSUME NEW p \in 1 .. n, c.chunks[p].at = c.tab[c.avail - 1].chunk
        PROVE  n - p <= 0
    <3>1. b.chunks[p].at = b.chunks[n].at
      BY <1>4, <1>5, <1>6, <2>1
    <3>2. p < n => b.chunks[p].at < b.chunks[n].at
      BY <1>1, <1>3, ChunkOrder
    <3>3. b.chunks[n].at \in Nat
      BY <1>1, <1>3, ChunkOrder
    <3> QED
      BY <1>3, <3>1, <3>2, <3>3
  <2> QED
    BY <1>5, <2>1 DEF OpenClose
<1>10. Short(c)
  BY <1>1, <1>5 DEF Short
<1> QED
  BY <1>1, <1>8, <1>9, <1>10

(* The last chunk stays what it was, or loses its header. *)
LEMMA NewLineLast ==
  ASSUME NEW b, Sound(b), b.chunks # <<>>, NEW char \in Nat
  PROVE  LET c == NewLine(b, b.lastdata, char)
         IN  /\ c.total = b.total
             /\ LastChunk(c) = LastChunk(b) \/ LastChunk(c).type = OCT_TERM
<1> DEFINE ref == Ref(b.lastdata, char)
           longer == [b EXCEPT !.tab = [b.tab EXCEPT ![b.avail] = ref],
                               !.avail = b.avail + 1]
           shifted == Shifted(longer)
           n == Len(b.chunks)
           c == NewLine(b, b.lastdata, char)
<1>1. /\ b.chunks \in Seq(ChunkType) /\ n \in Nat /\ n \in 1 .. n /\ 1 \in 1 .. n
  <2>1. b.chunks \in Seq(ChunkType) /\ n \in Nat
    BY BlockChunks
  <2> QED
    BY <2>1
<1>2. c = Followed(IF Overflows(longer) THEN shifted ELSE longer)
  BY DEF NewLine, Sound, BlockType
<1>3. longer.total = b.total /\ longer.chunks = b.chunks
  BY DEF Sound, BlockType
<1> HIDE DEF c, longer
<1> DEFINE head == [b.chunks[1] EXCEPT !.type = OCT_TERM, !.length = 0,
                                       !.feed = FALSE, !.wrap = FALSE]
<1>4. shifted.total = b.total /\ shifted.chunks = [b.chunks EXCEPT ![1] = head]
  BY <1>3 DEF Shifted, longer, Sound, BlockType
<1> HIDE DEF shifted
<1>5. head.type = OCT_TERM
  <2>1. b.chunks[1] \in ChunkType
    BY <1>1
  <2> QED
    BY <2>1 DEF ChunkType
<1> HIDE DEF head
<1>6. /\ Len(shifted.chunks) = n
      /\ shifted.chunks[n] = IF n = 1 THEN head ELSE b.chunks[n]
  BY <1>1, <1>4
<1>7. CASE Overflows(longer)
  <2>1. c.total = shifted.total /\ c.chunks = shifted.chunks
    BY <1>2, <1>7 DEF Followed, shifted, Shifted, longer, Sound, BlockType
  <2> QED
    BY <1>4, <1>5, <1>6, <2>1 DEF c, LastChunk
<1>8. CASE ~Overflows(longer)
  <2>1. c.total = longer.total /\ c.chunks = longer.chunks
    BY <1>2, <1>8 DEF Followed, longer, Sound, BlockType
  <2> QED
    BY <1>3, <2>1 DEF c, LastChunk
<1> QED
  BY <1>7, <1>8

(* All of this is counted in natural numbers. *)
LEMMA BoundTypes ==
  /\ Longest \in Nat /\ Largest \in Nat /\ Width \in Nat /\ TermLength \in Nat
  /\ HeadLength \in Nat /\ MaxLines * (Width + 1) + 1 \in Nat
  /\ (MaxLines * (Width + 1) + 1) * Largest \in Nat
  /\ RoundedUp(Longest + Largest) \in Nat /\ TotalBound \in Nat
<1>1. /\ Longest \in Nat /\ Width \in Nat /\ TermLength \in Nat
      /\ HeadLength \in Nat /\ MaxLines \in Nat
  BY LongestType, HeadLengthType, StoreAssumption DEF StoreAssumption, TermLength
<1>2. Width + Longest \in Nat
  BY <1>1
<1>3. Largest \in Nat
  BY <1>2, TextLengthBounds DEF Largest
<1>4. RoundedUp(Longest + Largest) \in Nat
  <2>1. Longest + Largest \in Nat
    BY <1>1, <1>3
  <2> QED
    BY <2>1, RoundedUpBounds
<1>5. MaxLines * (Width + 1) + 1 \in Nat
  BY <1>1
<1>6. (MaxLines * (Width + 1) + 1) * Largest \in Nat
  BY <1>3, <1>5
<1> QED
  BY <1>1, <1>3, <1>4, <1>5, <1>6 DEF TotalBound

(* Between two calls the open line is at most Width chunks long. *)
LEMMA IdleOpen ==
  ASSUME NEW b, Sound(b), b.chunks # <<>>, IdleClose(b)
  PROVE  /\ LastChunk(b) \in ChunkType /\ LastChunk(b).endx \in 0 .. Width
         /\ OpenClose(b, Width)
<1>1. LastChunk(b) \in ChunkType
  BY DEF LastChunk, Sound, BlockType
<1>2. LastChunk(b).endx \in 0 .. Width /\ Width \in Nat
  BY <1>1, StoreAssumption DEF ChunkType, StoreAssumption
<1>3. PICK d \in 0 .. Width : OpenClose(b, d)
  BY <1>2 DEF IdleClose
<1>4. OpenClose(b, Width)
  BY <1>2, <1>3, OpenCloser
<1> QED
  BY <1>1, <1>2, <1>4

(* The block grows only when what is left of it is less than what the     *)
(* next chunk needs.                                                       *)
LEMMA ResizedBound ==
  ASSUME NEW b, Sound(b), Close(b), IdleClose(b), b.tab[0].chunk = HeadLength,
         NEW s \in Nat, s <= Longest + 1
  PROVE  Resized(b, s + TextLength(s)).total <= TotalBound
<1>1. PICK large, minadd, n, count :
        /\ large = Largest /\ minadd = s + TextLength(s) /\ n = Len(b.chunks)
        /\ count = MaxLines * (Width + 1) + 1
  OBVIOUS
<1>2. /\ large \in Nat /\ minadd \in Nat /\ n \in Nat /\ count \in Nat
      /\ count * large \in Nat
  <2>1. n \in Nat
    BY <1>1, BlockChunks
  <2>2. minadd \in Nat
    <3>1. TextLength(s) \in Nat
      BY TextLengthBounds
    <3> QED
      BY <1>1, <3>1
  <2> QED
    BY <1>1, <2>1, <2>2, BoundTypes
<1>3. n <= count
  <2>1. CASE b.chunks = <<>>
    <3>1. n = 0
      BY <1>1, <2>1
    <3> QED
      BY <1>2, <3>1
  <2>2. CASE b.chunks # <<>>
    <3>1. OpenClose(b, Width)
      BY <2>2, IdleOpen
    <3> QED
      BY <1>1, <2>2, <3>1, ChunksBounded DEF Close
  <2> QED
    BY <2>1, <2>2
<1>4. b.term <= HeadLength + n * large
  <2>1. ASSUME NEW k \in 1 .. n PROVE TextLength(Len(b.chunks[k].text)) <= large
    <3>1. PICK l : l = Len(b.chunks[k].text)
      OBVIOUS
    <3>2. l \in Nat
      <4>1. b.chunks[k] \in ChunkType
        BY <1>1, ChunkOrder
      <4> QED
        BY <3>1, <4>1 DEF ChunkType
    <3>3. l <= Width + Longest
      BY <1>1, <3>1 DEF Close, Short
    <3>4. PICK w : w = Width + Longest
      OBVIOUS
    <3>5. w \in Nat
      BY <3>4, BoundTypes
    <3>6. TextLength(l) <= TextLength(w)
      BY <3>2, <3>3, <3>4, <3>5 DEF TextLength
    <3> QED
      BY <1>1, <3>1, <3>4, <3>6 DEF Largest
  <2> QED
    BY <1>1, <1>2, <2>1, TermBounded
<1>5. n * large <= count * large /\ n * large \in Nat
  BY <1>2, <1>3, TimesMonotone
<1>6. minadd + RoundedUp(minadd) <= 2 * RoundedUp(Longest + large) /\ RoundedUp(minadd) \in Nat
  <2>1. Width \in Nat \ {0} /\ Longest \in Nat
    BY BoundTypes, StoreAssumption DEF StoreAssumption
  <2>2. s + TextLength(s) + RoundedUp(s + TextLength(s))
          <= 2 * RoundedUp(Longest + TextLength(Width + Longest))
    BY <2>1, RoomNeeded
  <2> QED
    BY <1>1, <1>2, <2>2, RoundedUpBounds DEF Largest
<1>7. Resized(b, minadd).total =
        IF minadd >= b.free THEN b.total + RoundedUp(minadd) ELSE b.total
  BY DEF Resized, Sound, BlockType
<1>8. CASE minadd >= b.free
  <2>1. b.total = b.term + TermLength + b.free
    BY DEF Sound, Room
  <2>2. b.term \in Nat /\ b.free \in Nat
    BY DEF Sound, BlockType
  <2>3. PICK x, y, r, z : x = n * large /\ y = count * large /\ r = RoundedUp(minadd)
                          /\ z = RoundedUp(Longest + large)
    OBVIOUS
  <2>4. z \in Nat /\ HeadLength \in Nat /\ TermLength \in Nat
    BY <1>1, <2>3, BoundTypes
  <2>5. b.term + TermLength + b.free + r <= HeadLength + TermLength + y + 2 * z
    BY <1>2, <1>4, <1>5, <1>6, <1>8, <2>2, <2>3, <2>4
  <2>6. TotalBound = HeadLength + TermLength + y + 2 * z
    BY <1>1, <2>3 DEF TotalBound
  <2> QED
    BY <1>1, <1>7, <1>8, <2>1, <2>3, <2>5, <2>6
<1>9. CASE ~(minadd >= b.free)
  BY <1>1, <1>7, <1>9 DEF Close
<1> QED
  BY <1>8, <1>9

(* Making room moves nothing. *)
LEMMA ResizedClose ==
  ASSUME NEW b, Sound(b), Close(b), IdleClose(b), b.tab[0].chunk = HeadLength,
         NEW s \in Nat, s <= Longest + 1
  PROVE  LET r == Resized(b, s + TextLength(s))
         IN  Close(r) /\ IdleClose(r) /\ r.avail = b.avail
<1>1. PICK r : r = Resized(b, s + TextLength(s))
  OBVIOUS
<1>2. r.chunks = b.chunks /\ r.tab = b.tab /\ r.avail = b.avail
  BY <1>1 DEF Resized, Sound, BlockType
<1>3. r.total <= TotalBound
  BY <1>1, ResizedBound
<1>4. LinesClose(r) /\ Short(r)
  BY <1>2 DEF Close, LinesClose, Short
<1>5. IdleClose(r)
  BY <1>2 DEF IdleClose, OpenClose, LastChunk
<1> QED
  BY <1>1, <1>2, <1>3, <1>4, <1>5 DEF Close

(* Text joins the last chunk: that has been in the open line from its      *)
(* start.                                                                  *)
LEMMA ExtendedClose ==
  ASSUME NEW b, Sound(b), Close(b), IdleClose(b), NEW stream \in Streams,
         NEW n \in Nat, n <= Longest, NEW feed \in BOOLEAN,
         NEW text \in Seq(Streams), Len(text) = n, Extendable(b, stream, n),
         NEW j, j.x = LastChunk(b).endx, j.done = Len(LastChunk(b).text),
         j.left = n, j.feed = feed
  PROVE  LET e == Extended(b, text, feed) IN Close(e) /\ JobClose(e, j)
<1> DEFINE old == LastChunk(b)
           len == Len(b.chunks)
           length == TextLength(Len(old.text) + Len(text))
           new == [old EXCEPT !.length = length, !.text = old.text \o text,
                              !.feed = old.feed \/ feed]
           grow == length - old.length
           e == Extended(b, text, feed)
<1>1. len \in Nat /\ len \in 1 .. len /\ b.chunks \in Seq(ChunkType) /\ b.chunks # <<>>
  <2>1. len # 0
    BY DEF Extendable, LastIsText, Sound, Chain
  <2>2. len \in Nat /\ b.chunks \in Seq(ChunkType)
    BY BlockChunks
  <2> QED
    BY <2>1, <2>2
<1>2. old \in ChunkType /\ old.endx \in 0 .. Width /\ old = b.chunks[len]
  BY <1>1, IdleOpen DEF LastChunk
<1>3. old.type \in Streams /\ ~old.feed /\ ~old.wrap
  BY DEF Extendable, LastIsText
<1>4. OpenClose(b, old.endx) /\ Len(old.text) <= old.endx
  BY <1>1, <1>3 DEF IdleClose
<1>5. e = [b EXCEPT !.chunks = [b.chunks EXCEPT ![len] = new],
                    !.term = b.term + grow, !.free = b.free - grow]
  BY DEF Sound, BlockType, Extended, LastChunk
<1>6. /\ new.at = old.at /\ new.text = old.text \o text /\ new.type = old.type
      /\ new.wrap = old.wrap /\ new.feed = feed
  BY <1>2, <1>3 DEF ChunkType
<1> HIDE DEF new, grow, length
<1>7. /\ e.chunks = [b.chunks EXCEPT ![len] = new]
      /\ e.tab = b.tab /\ e.avail = b.avail /\ e.total = b.total
  BY <1>5 DEF Sound, BlockType
<1> HIDE DEF e
<1>8. /\ Len(e.chunks) = len
      /\ \A k \in 1 .. len : e.chunks[k] = IF k = len THEN new ELSE b.chunks[k]
  BY <1>1, <1>7
<1>9. LastChunk(e) = new
  BY <1>1, <1>8 DEF LastChunk
<1>10. Unmoved(b, e)
  BY <1>2, <1>6, <1>7, <1>8 DEF Unmoved
<1> HIDE DEF old
<1>11. Len(new.text) = Len(old.text) + n /\ Len(old.text) \in Nat
  <2>1. old.text \in Seq(Streams)
    BY <1>2 DEF ChunkType
  <2>2. PICK u : u = old.text
    OBVIOUS
  <2>3. Len(u \o text) = Len(u) + Len(text) /\ Len(u) \in Nat
    BY <2>1, <2>2
  <2> QED
    BY <1>6, <2>2, <2>3
<1>12. Short(e)
  <2>1. Len(new.text) <= Width + Longest
    BY <1>2, <1>4, <1>11, BoundTypes, SMTT(60)
  <2> QED
    BY <1>8, <2>1 DEF Close, Short
<1>13. Close(e)
  BY <1>7, <1>10, <1>12, CloseUnmoved DEF Close
<1>14. OpenClose(e, old.endx)
  BY <1>2, <1>4, <1>10, CloseUnmoved
<1>16. OpenClose(e, old.endx + 1) /\ OpenClose(e, old.endx + n + (IF new.feed THEN 1 ELSE 0))
  <2>1. ASSUME NEW d \in Int, old.endx <= d PROVE OpenClose(e, d)
    BY <1>1, <1>2, <1>8, <1>14, <2>1 DEF OpenClose
  <2>2. /\ old.endx + 1 \in Int /\ old.endx <= old.endx + 1
        /\ old.endx + n + (IF new.feed THEN 1 ELSE 0) \in Int
        /\ old.endx <= old.endx + n + (IF new.feed THEN 1 ELSE 0)
    BY <1>2, SMTT(60)
  <2> QED
    BY <2>1, <2>2
<1>17. j.x = old.endx /\ j.done = Len(old.text)
  BY DEF old
<1>18. JobClose(e, j)
  BY <1>3, <1>4, <1>6, <1>9, <1>11, <1>16, <1>17 DEF JobClose
<1> QED
  BY <1>13, <1>18 DEF e

(* A chunk more in the open line, with a column more or a newline. *)
LEMMA AddedClose ==
  ASSUME NEW b, Sound(b), Close(b), IdleClose(b), NEW stream \in Streams,
         NEW n \in Nat, n <= Longest, NEW feed \in BOOLEAN, feed \/ n > 0,
         NEW text \in Seq(Streams), Len(text) = n,
         NEW j, j.x \in StartColumns(b), j.done = 0, j.left = n
  PROVE  LET e == Added(b, stream, text, feed) IN Close(e) /\ JobClose(e, j)
<1> DEFINE len == Len(b.chunks)
           new == [at |-> b.term, type |-> stream, length |-> TextLength(n),
                   text |-> text, feed |-> feed, wrap |-> FALSE, endx |-> 0]
           e == Added(b, stream, text, feed)
           more == n + (IF feed THEN 1 ELSE 0)
<1>1. len \in Nat /\ b.chunks \in Seq(ChunkType)
  BY BlockChunks
<1>2. e = [b EXCEPT !.chunks = Append(b.chunks, new), !.lastdata = b.term,
                    !.term = b.term + TextLength(n), !.free = b.free - TextLength(n)]
  BY DEF Sound, BlockType, Added
<1>3. /\ new \in ChunkType /\ new.at = b.term /\ new.text = text /\ new.feed = feed
      /\ new.type = stream /\ new.wrap = FALSE
  <2>1. 0 \in 0 .. Width
    BY StoreAssumption DEF StoreAssumption
  <2>2. b.term \in Nat /\ TextLength(n) \in Nat
    BY TextLengthBounds DEF Sound, BlockType
  <2> QED
    BY <2>1, <2>2 DEF ChunkType
<1> HIDE DEF new
<1>4. /\ e.chunks = Append(b.chunks, new)
      /\ e.tab = b.tab /\ e.avail = b.avail /\ e.total = b.total
  BY <1>2 DEF Sound, BlockType
<1> HIDE DEF e
<1>5. /\ Len(e.chunks) = len + 1 /\ e.chunks[len + 1] = new
      /\ \A k \in 1 .. len : e.chunks[k] = b.chunks[k]
  BY <1>1, <1>3, <1>4
<1>6. LastChunk(e) = new
  BY <1>5 DEF LastChunk
<1>7. Short(e)
  <2>1. ASSUME NEW k \in 1 .. len + 1 PROVE Len(e.chunks[k].text) <= Width + Longest
    <3>1. CASE k = len + 1
      BY <1>3, <1>5, <3>1, BoundTypes, SMTT(60)
    <3>2. CASE k # len + 1
      <4>1. k \in 1 .. len
        BY <1>1, <3>2
      <4> QED
        BY <1>5, <4>1 DEF Close, Short
    <3> QED
      BY <3>1, <3>2
  <2> QED
    BY <1>5, <2>1 DEF Short
<1>8. ASSUME b.chunks # <<>>, NEW i \in 0 .. b.avail - 1, NEW p \in 1 .. len + 1,
             e.chunks[p].at = b.tab[i].chunk
      PROVE  p \in 1 .. len /\ b.chunks[p].at = b.tab[i].chunk
  <2>1. b.tab[i].chunk <= b.lastdata /\ b.tab[i].chunk \in Nat
    BY <1>8, TableBounds
  <2>2. b.lastdata < b.term
    <3>1. len \in 1 .. len /\ b.chunks[len] \in ChunkType
      BY <1>1, <1>8
    <3>2. b.lastdata = b.chunks[len].at /\ b.term = ChunkEnd(b.chunks[len])
      BY <3>1 DEF Sound, Chain
    <3>3. b.chunks[len].at \in Nat /\ ChunkEnd(b.chunks[len]) \in Nat
          /\ ChunkEnd(b.chunks[len]) >= b.chunks[len].at + 34
      BY <3>1, ChunkEndBounds DEF ChunkType
    <3> QED
      BY <3>2, <3>3
  <2>3. b.lastdata \in Nat /\ b.term \in Nat
    BY DEF Sound, BlockType
  <2>4. p # len + 1
    BY <1>3, <1>5, <1>8, <2>1, <2>2, <2>3
  <2>5. p \in 1 .. len
    BY <1>1, <2>4
  <2> QED
    BY <1>5, <1>8, <2>5
<1>9. b.avail \in Nat
  BY DEF Sound, BlockType
<1>10. LinesClose(e)
  <2>1. CASE b.chunks = <<>>
    <3>1. e.avail = 1
      BY <1>4, <2>1 DEF Sound, Table
    <3> QED
      BY <3>1 DEF LinesClose
  <2>2. CASE b.chunks # <<>>
    <3>1. ASSUME NEW i \in 1 .. b.avail - 1, NEW p \in 1 .. len + 1, NEW q \in 1 .. len + 1,
                 e.chunks[p].at = b.tab[i - 1].chunk, e.chunks[q].at = b.tab[i].chunk
          PROVE  q - p <= Width + 1
      <4>1. i \in 0 .. b.avail - 1 /\ i - 1 \in 0 .. b.avail - 1
        BY <1>9
      <4>2. p \in 1 .. len /\ b.chunks[p].at = b.tab[i - 1].chunk
        BY <1>8, <2>2, <3>1, <4>1
      <4>3. q \in 1 .. len /\ b.chunks[q].at = b.tab[i].chunk
        BY <1>8, <2>2, <3>1, <4>1
      <4> QED
        BY <4>2, <4>3 DEF Close, LinesClose
    <3>2. ASSUME NEW i \in 1 .. e.avail - 1,
                 NEW p \in 1 .. Len(e.chunks), NEW q \in 1 .. Len(e.chunks),
                 e.chunks[p].at = e.tab[i - 1].chunk, e.chunks[q].at = e.tab[i].chunk
          PROVE  q - p <= Width + 1
      BY <1>4, <1>5, <3>1, <3>2
    <3> QED
      BY <3>2 DEF LinesClose
  <2> QED
    BY <2>1, <2>2
<1>11. Close(e)
  BY <1>4, <1>7, <1>10 DEF Close
<1>12. ASSUME NEW d \in Nat, b.chunks # <<>> => OpenClose(b, d)
       PROVE  \A f \in Int : d + 1 <= f => OpenClose(e, f)
  <2>1. ASSUME NEW f \in Int, d + 1 <= f, NEW p \in 1 .. len + 1,
               e.chunks[p].at = b.tab[b.avail - 1].chunk
        PROVE  len + 1 - p <= f
    <3>1. CASE p = len + 1
      BY <1>1, <1>12, <2>1, <3>1
    <3>2. CASE p # len + 1
      <4>1. b.chunks # <<>>
        BY <1>1, <3>2
      <4>2. b.avail - 1 \in 0 .. b.avail - 1
        BY <1>9 DEF Sound, Table
      <4>3. p \in 1 .. len /\ b.chunks[p].at = b.tab[b.avail - 1].chunk
        BY <1>8, <2>1, <4>1, <4>2
      <4>4. len - p <= d
        BY <1>12, <4>1, <4>3 DEF OpenClose
      <4> QED
        BY <1>1, <1>12, <2>1, <4>3, <4>4
    <3> QED
      BY <3>1, <3>2
  <2>2. ASSUME NEW f \in Int, d + 1 <= f, NEW p \in 1 .. Len(e.chunks),
               e.chunks[p].at = e.tab[e.avail - 1].chunk
        PROVE  Len(e.chunks) - p <= f
    <3>1. p \in 1 .. len + 1 /\ e.chunks[p].at = b.tab[b.avail - 1].chunk
      BY <1>4, <1>5, <2>2
    <3>2. len + 1 - p <= f
      BY <2>1, <2>2, <3>1
    <3> QED
      BY <1>5, <3>2
  <2> QED
    BY <2>2 DEF OpenClose
<1>13. more \in Nat /\ more >= 1
  OBVIOUS
<1>14. j.x \in Nat /\ OpenClose(e, j.x + 1) /\ OpenClose(e, j.x + more)
  <2>1. PICK d \in Nat : (b.chunks # <<>> => OpenClose(b, d)) /\ j.x \in Nat /\ d <= j.x
    <3>1. CASE b.chunks = <<>>
      <4>1. b.lastdata = 0
        BY <3>1 DEF Sound, Chain
      <4>2. j.x = 0
        BY <4>1 DEF StartColumns
      <4>3. (b.chunks # <<>> => OpenClose(b, 0)) /\ j.x \in Nat /\ 0 <= j.x
        BY <3>1, <4>2
      <4> QED
        BY <4>3
    <3>2. CASE b.chunks # <<>>
      <4>1. LastChunk(b).endx \in Nat
        BY <3>2, BoundTypes, IdleOpen
      <4>2. b.lastdata # 0
        <5>1. len \in 1 .. len /\ b.lastdata = b.chunks[len].at
          BY <1>1, <3>2 DEF Sound, Chain
        <5>2. HeadLength <= b.chunks[len].at /\ b.chunks[len].at \in Nat
          BY <5>1, ChunkOrder
        <5> QED
          BY <5>1, <5>2, HeadLengthType
      <4>3. CASE LastChunk(b).type \in Streams
        <5>1. j.x = LastChunk(b).endx
          BY <4>2, <4>3 DEF StartColumns, LastIsText
        <5>2. OpenClose(b, LastChunk(b).endx)
          BY <3>2, <4>3 DEF IdleClose
        <5> QED
          BY <4>1, <5>1, <5>2
      <4>4. CASE LastChunk(b).type \notin Streams
        <5>1. j.x \in 0 .. Width
          BY <4>2, <4>4 DEF StartColumns, LastIsText
        <5>2. OpenClose(b, 0)
          BY <3>2, <4>4 DEF IdleClose
        <5> QED
          BY <5>1, <5>2
      <4> QED
        BY <4>3, <4>4
    <3> QED
      BY <3>1, <3>2
  <2> HIDE DEF more
  <2>2. /\ j.x + 1 \in Int /\ d + 1 <= j.x + 1
        /\ j.x + more \in Int /\ d + 1 <= j.x + more
    BY <1>13, <2>1
  <2> QED
    BY <1>12, <2>1, <2>2
<1>15. j.x + more = j.x + j.left + (IF new.feed THEN 1 ELSE 0)
  BY <1>3, <1>14
<1> HIDE DEF more
<1>16. JobClose(e, j)
  <2>1. new.type \in Streams /\ j.done <= j.x /\ j.done + j.left = Len(new.text)
    BY <1>3, <1>14
  <2> QED
    BY <1>6, <1>14, <1>15, <2>1 DEF JobClose
<1> QED
  BY <1>11, <1>16 DEF e

(* Chunks in front of the first line go, and the block starts with it. *)
LEMMA ReleasedClose ==
  ASSUME NEW b, Sound(b), b.chunks # <<>>, Close(b), IdleClose(b)
  PROVE  LET r == Released(b) IN Close(r) /\ IdleClose(r) /\ r.tab[0].chunk = HeadLength
<1>1. /\ b.avail \in 1 .. MaxLines /\ b.chunks \in Seq(ChunkType) /\ Len(b.chunks) \in Nat
      /\ Len(b.chunks) # 0 /\ LastChunk(b) \in ChunkType
  <2>1. b.avail \in 1 .. MaxLines /\ b.chunks \in Seq(ChunkType) /\ Len(b.chunks) \in Nat
    BY BlockChunks
  <2>2. LastChunk(b) \in ChunkType
    BY IdleOpen
  <2> QED
    BY <2>1, <2>2
<1>2. CASE Released(b) = b
  <2>1. 0 \in 0 .. b.avail - 1
    BY <1>1
  <2>2. b.tab[0].chunk \in Nat /\ HeadLength <= b.tab[0].chunk /\ InChunk(b, b.tab[0])
    BY <2>1, TableBounds
  <2>3. PICK dist : dist = b.tab[0].chunk - HeadLength
    OBVIOUS
  <2>4. CASE dist <= 0
    <3>1. b.tab[0].chunk = HeadLength
      BY <2>2, <2>3, <2>4, HeadLengthType
    <3> QED
      BY <1>2, <3>1
  <2>5. CASE ~(dist <= 0)
    <3>1. Released(b).free = b.free + dist
      BY <2>3, <2>5 DEF Released, Sound, BlockType
    <3>2. b.free \in Nat /\ dist \in Int
      BY <2>2, <2>3, HeadLengthType DEF Sound, BlockType
    <3> QED
      BY <1>2, <2>5, <3>1, <3>2
  <2> QED
    BY <2>4, <2>5
<1>3. CASE Released(b) # b
  <2>1. PICK d \in Nat, dist \in Int :
          /\ Kept(b, Released(b), d, dist)
          /\ d + Len(Released(b).chunks) = Len(b.chunks)
          /\ LastChunk(Released(b)).text = LastChunk(b).text
          /\ Released(b).total = b.total /\ Released(b).tab[0].chunk = HeadLength
          /\ LastChunk(Released(b)) = [LastChunk(b) EXCEPT !.at = LastChunk(b).at - dist]
    BY <1>3, ReleasedKept
  <2>2. PICK c, n, m : c = Released(b) /\ n = Len(b.chunks) /\ m = Len(c.chunks)
    OBVIOUS
  <2>3. Sound(c)
    BY <2>2, ReleasedSound
  <2>4. /\ n \in Nat /\ m \in Nat /\ n = d + m /\ n - d = m
    <3>1. m \in Nat
      BY <2>2, <2>3, BlockChunks
    <3> QED
      BY <1>1, <2>1, <2>2, <3>1
  <2>5. /\ c.avail = b.avail /\ d < n
        /\ \A k \in 1 .. m : c.chunks[k].at = b.chunks[d + k].at - dist
        /\ \A k \in 1 .. m - 1 : c.chunks[k].text = b.chunks[d + k].text
        /\ \A i \in 0 .. b.avail - 1 : c.tab[i].chunk = b.tab[i].chunk - dist
    BY <2>1, <2>2, <2>4 DEF Kept
  <2>6. ASSUME NEW k \in 1 .. m, NEW i \in 0 .. b.avail - 1, c.chunks[k].at = c.tab[i].chunk
        PROVE  d + k \in 1 .. n /\ b.chunks[d + k].at = b.tab[i].chunk
    <3>1. d + k \in 1 .. n
      BY <2>4
    <3>2. b.chunks[d + k].at \in Nat
      BY <2>2, <3>1, ChunkOrder
    <3>3. b.tab[i].chunk \in Nat
      BY TableBounds
    <3>4. b.chunks[d + k].at - dist = b.tab[i].chunk - dist
      BY <2>5, <2>6
    <3> QED
      BY <3>1, <3>2, <3>3, <3>4
  <2>7. LinesClose(c)
    <3>1. ASSUME NEW i \in 1 .. c.avail - 1, NEW p \in 1 .. Len(c.chunks),
                 NEW q \in 1 .. Len(c.chunks),
                 c.chunks[p].at = c.tab[i - 1].chunk, c.chunks[q].at = c.tab[i].chunk
          PROVE  q - p <= Width + 1
      <4>1. i \in 0 .. b.avail - 1 /\ i - 1 \in 0 .. b.avail - 1 /\ i \in 1 .. b.avail - 1
        BY <1>1, <2>5
      <4>2. d + p \in 1 .. n /\ b.chunks[d + p].at = b.tab[i - 1].chunk
        BY <2>2, <2>6, <3>1, <4>1
      <4>3. d + q \in 1 .. n /\ b.chunks[d + q].at = b.tab[i].chunk
        BY <2>2, <2>6, <3>1, <4>1
      <4>4. (d + q) - (d + p) <= Width + 1
        BY <2>2, <4>1, <4>2, <4>3 DEF Close, LinesClose
      <4> QED
        BY <4>4
    <3> QED
      BY <3>1 DEF LinesClose
  <2>8. ASSUME NEW e \in Int, OpenClose(b, e) PROVE OpenClose(c, e)
    <3>1. ASSUME NEW p \in 1 .. Len(c.chunks), c.chunks[p].at = c.tab[c.avail - 1].chunk
          PROVE  Len(c.chunks) - p <= e
      <4>1. b.avail - 1 \in 0 .. b.avail - 1 /\ c.chunks[p].at = c.tab[b.avail - 1].chunk
        BY <1>1, <2>5, <3>1
      <4>2. d + p \in 1 .. n /\ b.chunks[d + p].at = b.tab[b.avail - 1].chunk
        BY <2>2, <2>6, <4>1
      <4>3. n - (d + p) <= e
        BY <2>2, <2>8, <4>2 DEF OpenClose
      <4>4. m - p <= e
        BY <2>4, <4>3
      <4> QED
        BY <2>2, <4>4
    <3> QED
      BY <3>1 DEF OpenClose
  <2>9. LastChunk(c) = [LastChunk(b) EXCEPT !.at = LastChunk(b).at - dist]
    BY <2>1, <2>2
  <2>10. /\ LastChunk(c).text = LastChunk(b).text /\ LastChunk(c).type = LastChunk(b).type
         /\ LastChunk(c).feed = LastChunk(b).feed /\ LastChunk(c).wrap = LastChunk(b).wrap
         /\ LastChunk(c).endx = LastChunk(b).endx
    BY <1>1, <2>9 DEF ChunkType
  <2>11. Short(c)
    <3>1. ASSUME NEW k \in 1 .. Len(c.chunks) PROVE Len(c.chunks[k].text) <= Width + Longest
      <4>1. d + k \in 1 .. n /\ k \in 1 .. m
        BY <2>2, <2>4
      <4>2. Len(b.chunks[d + k].text) <= Width + Longest
        BY <2>2, <4>1 DEF Close, Short
      <4>3. CASE k = m
        <5>1. c.chunks[k] = LastChunk(c) /\ b.chunks[d + k] = LastChunk(b)
          BY <2>2, <2>4, <4>3 DEF LastChunk
        <5> QED
          BY <2>10, <4>2, <5>1
      <4>4. CASE k # m
        <5>1. k \in 1 .. m - 1
          BY <2>4, <4>1, <4>4
        <5> QED
          BY <2>5, <4>2, <5>1
      <4> QED
        BY <4>3, <4>4
    <3> QED
      BY <3>1 DEF Short
  <2>12. Close(c)
    BY <2>1, <2>2, <2>7, <2>11 DEF Close
  <2>13. IdleClose(c)
    <3>1. LastChunk(b).endx \in Int /\ 0 \in Int
      BY <1>1 DEF ChunkType
    <3>2. OpenClose(b, LastChunk(b).endx) => OpenClose(c, LastChunk(b).endx)
      BY <2>8, <3>1
    <3>3. OpenClose(b, 0) => OpenClose(c, 0)
      BY <2>8, <3>1
    <3> QED
      BY <2>10, <3>2, <3>3 DEF IdleClose
  <2> QED
    BY <2>1, <2>2, <2>12, <2>13
<1> QED
  BY <1>2, <1>3

(* A chunk gets another flag or another end. *)
LEMMA RelabelledClose ==
  ASSUME NEW b, Sound(b), b.chunks # <<>>, Close(b), NEW new \in ChunkType,
         new = [LastChunk(b) EXCEPT !.wrap = TRUE]
           \/ \E endx \in 0 .. Width : new = [LastChunk(b) EXCEPT !.endx = endx],
         NEW c, c = [b EXCEPT !.chunks = [b.chunks EXCEPT ![Len(b.chunks)] = new]]
  PROVE  /\ Sound(c) /\ c.chunks # <<>> /\ c.lastdata = b.lastdata /\ c.made = b.made
         /\ c.tab = b.tab /\ Close(c) /\ LastChunk(c) = new
         /\ \A d \in Int : OpenClose(b, d) => OpenClose(c, d)
<1> DEFINE n == Len(b.chunks)
<1>1. b.chunks \in Seq(ChunkType) /\ n \in Nat /\ n \in 1 .. n
  <2>1. b.chunks \in Seq(ChunkType) /\ n \in Nat
    BY BlockChunks
  <2> QED
    BY <2>1
<1>2. b.chunks[n] \in ChunkType /\ LastChunk(b) = b.chunks[n]
  BY <1>1 DEF LastChunk
<1>3. /\ new.at = b.chunks[n].at /\ new.text = b.chunks[n].text
      /\ new.type = b.chunks[n].type /\ new.length = b.chunks[n].length
  BY <1>2 DEF ChunkType
<1>4. /\ Sound(c) /\ c.made = b.made /\ c.lastdata = b.lastdata
      /\ c.tab = b.tab /\ c.avail = b.avail
  BY <1>1, <1>3, RelabelledSound
<1>5. c.chunks = [b.chunks EXCEPT ![n] = new] /\ c.total = b.total
  BY DEF Sound, BlockType
<1>6. Len(c.chunks) = n /\ \A k \in 1 .. n : c.chunks[k] = IF k = n THEN new ELSE b.chunks[k]
  BY <1>1, <1>5
<1>7. Unmoved(b, c)
  BY <1>3, <1>4, <1>6 DEF Unmoved
<1>8. Short(c)
  BY <1>3, <1>6 DEF Close, Short
<1>9. Close(c) /\ \A d \in Int : OpenClose(b, d) => OpenClose(c, d)
  BY <1>5, <1>7, <1>8, CloseUnmoved DEF Close
<1>10. LastChunk(c) = new /\ c.chunks # <<>>
  BY <1>1, <1>6 DEF LastChunk
<1> QED
  BY <1>4, <1>9, <1>10

(* A call stores its text. *)
LEMMA StoreBound ==
  ASSUME IInv, BoundInv, NEW stream \in Streams, NEW n \in Pieces, NEW feed \in BOOLEAN,
         Store(stream, n, feed)
  PROVE  BoundInv'
<1> DEFINE text == [i \in 1 .. n |-> stream]
           size == IF feed THEN n + 1 ELSE n
           b == Resized(block, size + TextLength(size))
<1>1. /\ block.made /\ Idle /\ Sound(block) /\ size > 0
      /\ IF Extendable(b, stream, n)
         THEN /\ block' = Extended(b, text, feed)
              /\ job' = [at |-> b.lastdata, x |-> LastChunk(b).endx,
                         done |-> Len(LastChunk(b).text), left |-> n, feed |-> feed]
         ELSE /\ block' = Added(b, stream, text, feed)
              /\ \E x \in StartColumns(b) :
                   job' = [at |-> b.term, x |-> x, done |-> 0, left |-> n, feed |-> feed]
  <2>1. block.made /\ Idle /\ size > 0
    BY DEF Store
  <2>2. Sound(block)
    BY <2>1 DEF IInv, BlockSound
  <2> QED
    BY <2>1, <2>2, Zenon DEF Store
<1>2. n \in Nat /\ n <= Longest /\ Longest \in Nat
  BY LongestType, StoreAssumption DEF StoreAssumption
<1>3. text \in Seq(Streams) /\ Len(text) = n
  BY <1>2
<1>4. size \in Nat /\ size <= Longest + 1 /\ (feed \/ n > 0)
  BY <1>1, <1>2
<1>5. Close(block) /\ IdleClose(block) /\ block.tab[0].chunk = HeadLength
  BY <1>1 DEF BoundInv
<1>6. size + TextLength(size) \in Nat
  BY <1>4, TextLengthBounds
<1> HIDE DEF size, text
<1>7. Close(b) /\ IdleClose(b)
  BY <1>1, <1>4, <1>5, ResizedClose
<1>8. Sound(b)
  BY <1>1, <1>6, ResizedSound
<1> HIDE DEF b
<1>9. b.term \in Nat /\ b.lastdata \in Nat /\ b.term > 0
  <2>1. b.chunks = <<>> => b.term = HeadLength
    BY <1>8 DEF Sound, Chain
  <2>2. b.chunks # <<>> => b.term > 0
    <3>1. b.chunks \in Seq(ChunkType) /\ Len(b.chunks) \in Nat
      BY <1>8, BlockChunks
    <3>2. b.chunks # <<>> => b.chunks[Len(b.chunks)] \in ChunkType
      BY <3>1
    <3>3. b.chunks # <<>> => b.term = ChunkEnd(b.chunks[Len(b.chunks)])
      BY <1>8, <3>1 DEF Sound, Chain
    <3> QED
      BY <3>2, <3>3, ChunkEndBounds DEF ChunkType
  <2>3. b.term \in Nat /\ b.lastdata \in Nat
    BY <1>8 DEF Sound, BlockType
  <2> QED
    BY <2>1, <2>2, <2>3, HeadLengthType
<1>10. CASE Extendable(b, stream, n)
  <2>1. block' = Extended(b, text, feed)
    BY <1>1, <1>10
  <2>2. PICK j : /\ j = job' /\ j.at = b.lastdata /\ j.x = LastChunk(b).endx
                 /\ j.done = Len(LastChunk(b).text) /\ j.left = n /\ j.feed = feed
    BY <1>1, <1>10
  <2>3. Close(block') /\ JobClose(block', j)
    BY <1>2, <1>3, <1>7, <1>8, <1>10, <2>1, <2>2, ExtendedClose
  <2>4. j # NoJob
    <3>1. b.lastdata # 0
      BY <1>10 DEF Extendable, LastIsText
    <3> QED
      BY <2>2, <3>1 DEF NoJob
  <2> QED
    BY <2>2, <2>3, <2>4 DEF BoundInv, Idle
<1>11. CASE ~Extendable(b, stream, n)
  <2>1. block' = Added(b, stream, text, feed)
    BY <1>1, <1>11
  <2>2. PICK j : /\ j = job' /\ j.at = b.term /\ j.x \in StartColumns(b)
                 /\ j.done = 0 /\ j.left = n
    BY <1>1, <1>11
  <2>3. Close(block') /\ JobClose(block', j)
    BY <1>2, <1>3, <1>4, <1>7, <1>8, <2>1, <2>2, AddedClose
  <2>4. j # NoJob
    BY <1>9, <2>2 DEF NoJob
  <2> QED
    BY <2>2, <2>3, <2>4 DEF BoundInv, Idle
<1> QED
  BY <1>10, <1>11

(* A line wrap. *)
LEMMA WrapBound == IInv /\ BoundInv /\ Wrap => BoundInv'
<1> SUFFICES ASSUME IInv, BoundInv, Wrap PROVE BoundInv'
  OBVIOUS
<1> DEFINE fits == Width - job.x
           done == job.done + fits
           new == [LastChunk(block) EXCEPT !.wrap = TRUE]
           w == [block EXCEPT !.chunks = [block.chunks EXCEPT ![Len(block.chunks)] = new]]
<1>1. ~Idle /\ job.left > fits
  BY DEF Wrap
<1>2. block.made /\ Sound(block) /\ block.chunks # <<>> /\ job.at = block.lastdata
  BY <1>1 DEF IInv, JobSound, BlockSound
<1>3. /\ job \in JobType /\ fits \in Nat /\ done \in Nat /\ job.left \in Nat
      /\ job.done \in Nat /\ job.x \in 0 .. Width /\ Width \in Nat
  BY <1>1, StoreAssumption DEF IInv, JobType, StoreAssumption
<1>4. LastChunk(block) \in ChunkType
  BY <1>2 DEF LastChunk, Sound, BlockType
<1>5. /\ new \in ChunkType /\ new.wrap = TRUE /\ new.text = LastChunk(block).text
  BY <1>4 DEF ChunkType
<1>6. block' = NewLine(w, job.at, done)
  BY <1>2 DEF Wrap, LastChunk, Sound, BlockType
<1>7. /\ job' = [job EXCEPT !.x = 0, !.done = done, !.left = job.left - fits]
  BY DEF Wrap
<1>8. job'.x = 0 /\ job'.done = done /\ job'.left = job.left - fits
  BY <1>3, <1>7 DEF JobType
<1>9. Close(block) /\ JobClose(block, job)
  BY <1>1, <1>2 DEF BoundInv
<1>10. PICK c : c = w
  OBVIOUS
<1> HIDE DEF fits
<1>11. /\ Sound(c) /\ c.chunks # <<>> /\ c.lastdata = block.lastdata
       /\ c.tab = block.tab /\ Close(c) /\ LastChunk(c) = new
       /\ \A d \in Int : OpenClose(block, d) => OpenClose(c, d)
  <2>1. new = [LastChunk(block) EXCEPT !.wrap = TRUE]
    OBVIOUS
  <2>2. c = [block EXCEPT !.chunks = [block.chunks EXCEPT ![Len(block.chunks)] = new]]
    BY <1>10
  <2> HIDE DEF new, w
  <2>3. \/ new = [LastChunk(block) EXCEPT !.wrap = TRUE]
        \/ \E endx \in 0 .. Width : new = [LastChunk(block) EXCEPT !.endx = endx]
    BY <2>1
  <2> QED
    BY <1>2, <1>5, <1>9, <2>2, <2>3, RelabelledClose, SMTT(60)
<1> HIDE DEF new, w
<1>12. OpenClose(c, Width + 1)
  <2>1. OpenClose(c, job.x + 1)
    BY <1>3, <1>9, <1>11 DEF JobClose
  <2> QED
    BY <1>3, <1>11, <2>1, OpenCloser
<1>13. PICK r : r = NewLine(c, c.lastdata, done)
  OBVIOUS
<1>14. block' = r
  BY <1>2, <1>6, <1>10, <1>11, <1>13
<1>15. done + (job.left - fits) = Len(new.text) /\ done <= Len(new.text)
  <2>1. job.done + job.left = Len(new.text)
    BY <1>5, <1>9 DEF JobClose
  <2>2. done + (job.left - fits) = job.done + job.left
    BY <1>3
  <2> HIDE DEF done
  <2> QED
    BY <1>1, <1>3, <2>1, <2>2
<1> HIDE DEF done
<1>16. LinesClose(r) /\ OpenClose(r, 0) /\ Short(r)
  BY <1>3, <1>11, <1>12, <1>13, NewLineClose DEF Close
<1>17. r.total = c.total /\ (LastChunk(r) = new \/ LastChunk(r).type = OCT_TERM)
  BY <1>3, <1>11, <1>13, NewLineLast
<1>18. Sound(r) /\ LastChunk(r).text = new.text
  BY <1>3, <1>11, <1>13, <1>15, NewLineSound
<1>19. Close(r)
  BY <1>11, <1>16, <1>17 DEF Close
<1>20. PICK j : j = job'
  OBVIOUS
<1>21. JobClose(r, j)
  <2>1. j.x = 0 /\ j.left = job.left - fits /\ j.left \in Nat /\ j.done = done
    BY <1>1, <1>3, <1>8, <1>20
  <2>2. OpenClose(r, 1) /\ OpenClose(r, j.left + (IF LastChunk(r).feed THEN 1 ELSE 0))
    BY <1>16, <1>18, <2>1, OpenCloser
  <2>3. j.x + 1 = 1 /\ j.x + j.left = j.left
    BY <2>1
  <2>4. LastChunk(r).type \in Streams => LastChunk(r).wrap
    BY <1>5, <1>17, StoreAssumption DEF StoreAssumption
  <2>5. j.done + j.left = Len(LastChunk(r).text)
    BY <1>15, <1>18, <2>1
  <2> QED
    BY <1>16, <2>2, <2>3, <2>4, <2>5 DEF JobClose
<1>22. j # NoJob
  <2>1. j.left # 0
    BY <1>1, <1>3, <1>8, <1>20
  <2> QED
    BY <2>1 DEF NoJob
<1> QED
  BY <1>14, <1>19, <1>20, <1>21, <1>22 DEF BoundInv, Idle

(* The end of the text. *)
LEMMA FinishBound == IInv /\ BoundInv /\ Finish => BoundInv'
<1> SUFFICES ASSUME IInv, BoundInv, Finish PROVE BoundInv'
  OBVIOUS
<1> DEFINE feeds == LastChunk(block).feed
           char == job.done + job.left
           laid == IF feeds THEN NewLine(block, job.at, char) ELSE block
           endx == IF feeds THEN 0 ELSE job.x + job.left
           new == [LastChunk(laid) EXCEPT !.endx = endx]
           c == [laid EXCEPT !.chunks = [laid.chunks EXCEPT ![Len(laid.chunks)] = new]]
<1>1. ~Idle /\ job.left <= Width - job.x
  BY DEF Finish
<1>2. block.made /\ Sound(block) /\ block.chunks # <<>> /\ job.at = block.lastdata
      /\ char <= Len(LastChunk(block).text)
  BY <1>1 DEF IInv, JobSound, BlockSound
<1>3. /\ job.left \in Nat /\ job.done \in Nat /\ char \in Nat /\ job.x \in Nat
      /\ job.x <= Width /\ Width \in Nat
      /\ job.x + job.left \in 0 .. Width /\ 0 \in 0 .. Width
  BY <1>1, StoreAssumption DEF IInv, JobType, StoreAssumption
<1>4. LastChunk(block) \in ChunkType /\ feeds \in BOOLEAN
  <2>1. LastChunk(block) \in ChunkType
    BY <1>2 DEF LastChunk, Sound, BlockType
  <2> QED
    BY <2>1 DEF ChunkType
<1>5. Close(block) /\ JobClose(block, job)
  BY <1>1, <1>2 DEF BoundInv
<1>6. PICK l : l = laid
  OBVIOUS
<1>7. /\ Sound(l) /\ l.chunks # <<>> /\ Close(l) /\ OpenClose(l, endx)
      /\ LastChunk(l).text = LastChunk(block).text
      /\ IF LastChunk(l).type \in Streams
         THEN ~LastChunk(l).feed /\ ~LastChunk(l).wrap => Len(LastChunk(l).text) <= endx
         ELSE OpenClose(l, 0)
  <2>1. CASE feeds
    <3>1. l = NewLine(block, block.lastdata, char) /\ endx = 0
      BY <1>2, <1>6, <2>1
    <3>2. OpenClose(block, Width + 1)
      <4>1. OpenClose(block, job.x + 1)
        BY <1>5 DEF JobClose
      <4>2. job.x + 1 \in Int /\ Width + 1 \in Int /\ job.x + 1 <= Width + 1
        BY <1>3
      <4> QED
        BY <1>2, <4>1, <4>2, OpenCloser
    <3> HIDE DEF char
    <3>3. LinesClose(l) /\ OpenClose(l, 0) /\ Short(l)
      BY <1>2, <1>3, <1>5, <3>1, <3>2, NewLineClose DEF Close
    <3>4. l.total = block.total /\ (LastChunk(l) = LastChunk(block) \/ LastChunk(l).type = OCT_TERM)
      BY <1>2, <1>3, <3>1, NewLineLast
    <3>5. Sound(l) /\ l.chunks # <<>> /\ LastChunk(l).text = LastChunk(block).text
      BY <1>2, <1>3, <3>1, NewLineSound
    <3>6. LastChunk(l).type \in Streams => LastChunk(l).feed
      BY <2>1, <3>4, StoreAssumption DEF StoreAssumption
    <3> QED
      BY <1>5, <3>1, <3>3, <3>4, <3>5, <3>6 DEF Close
  <2>2. CASE ~feeds
    <3>1. l = block /\ endx = job.x + job.left
      BY <1>6, <2>2
    <3>2. OpenClose(block, job.x + job.left)
      <4>1. OpenClose(block, job.x + job.left + 0)
        BY <1>5, <2>2 DEF JobClose
      <4>2. job.x + job.left + 0 = job.x + job.left
        BY <1>3
      <4> QED
        BY <4>1, <4>2
    <3>3. job.done + job.left = Len(LastChunk(block).text)
          /\ IF LastChunk(block).type \in Streams
             THEN ~LastChunk(block).wrap => job.done <= job.x ELSE OpenClose(block, 0)
      BY <1>5 DEF JobClose
    <3>4. job.done <= job.x => job.done + job.left <= job.x + job.left
      BY <1>3
    <3> QED
      BY <1>2, <1>5, <3>1, <3>2, <3>3, <3>4
  <2> QED
    BY <1>4, <2>1, <2>2
<1>8. endx \in 0 .. Width
  BY <1>3
<1>9. block' = Released(c)
  <2>1. Sound(laid)
    BY <1>6, <1>7
  <2> QED
    BY <2>1 DEF Finish, LastChunk, Sound, BlockType
<1> HIDE DEF endx, laid
<1>10. LastChunk(l) \in ChunkType
  BY <1>7 DEF LastChunk, Sound, BlockType
<1>11. PICK label, k : /\ label = [LastChunk(l) EXCEPT !.endx = endx] /\ k = c
                       /\ k = [l EXCEPT !.chunks = [l.chunks EXCEPT ![Len(l.chunks)] = label]]
  BY <1>6
<1> HIDE DEF new, c
<1>12. /\ label \in ChunkType /\ label.endx = endx /\ label.type = LastChunk(l).type
       /\ label.text = LastChunk(l).text /\ label.feed = LastChunk(l).feed
       /\ label.wrap = LastChunk(l).wrap
  BY <1>8, <1>10, <1>11 DEF ChunkType
<1>13. \E e \in 0 .. Width : label = [LastChunk(l) EXCEPT !.endx = e]
  BY <1>8, <1>11
<1>14. /\ Sound(k) /\ k.chunks # <<>> /\ Close(k) /\ LastChunk(k) = label
       /\ \A d \in Int : OpenClose(l, d) => OpenClose(k, d)
  BY <1>7, <1>11, <1>12, <1>13, RelabelledClose
<1>15. IdleClose(k)
  <2>1. OpenClose(k, endx) /\ (OpenClose(l, 0) => OpenClose(k, 0))
    <3>1. endx \in Int /\ 0 \in Int
      BY <1>8
    <3> QED
      BY <1>7, <1>14, <3>1
  <2> QED
    BY <1>7, <1>12, <1>14, <2>1 DEF IdleClose
<1>16. Close(block') /\ IdleClose(block') /\ block'.tab[0].chunk = HeadLength
  BY <1>9, <1>11, <1>14, <1>15, ReleasedClose
<1>17. Idle'
  BY DEF Finish, Idle
<1> QED
  BY <1>16, <1>17 DEF BoundInv

(* The view moves, the store does not. *)
LEMMA ScrollBound ==
  ASSUME IInv, BoundInv, NEW k \in Int, Scroll(k)
  PROVE  BoundInv'
<1>1. block.made /\ Idle /\ Sound(block) /\ job' = job
  BY DEF Scroll, IInv, BlockSound
<1>2. /\ block'.made = block.made /\ block'.chunks = block.chunks
      /\ block'.tab = block.tab /\ block'.avail = block.avail /\ block'.total = block.total
  <2>1. CASE block' = ScrolledBack(block, k)
    BY <1>1, <2>1 DEF ScrolledBack, Sound, BlockType
  <2>2. CASE block' = ScrolledOn(block, k)
    BY <1>1, <2>2 DEF ScrolledOn, Sound, BlockType
  <2> QED
    BY <2>1, <2>2 DEF Scroll
<1>3. Close(block) /\ IdleClose(block) /\ block.tab[0].chunk = HeadLength
  BY <1>1 DEF BoundInv
<1>4. PICK c : c = block'
  OBVIOUS
<1>5. Close(c)
  <2>1. LinesClose(c)
    <3>1. Unmoved(block, c)
      BY <1>2, <1>4 DEF Unmoved
    <3> QED
      BY <1>3, <3>1, CloseUnmoved DEF Close
  <2>2. Short(c) /\ c.total <= TotalBound
    BY <1>2, <1>3, <1>4 DEF Close, Short
  <2> QED
    BY <2>1, <2>2 DEF Close
<1>6. IdleClose(c)
  BY <1>2, <1>3, <1>4 DEF IdleClose, OpenClose, LastChunk
<1>7. Idle'
  BY <1>1 DEF Idle
<1> QED
  BY <1>2, <1>3, <1>4, <1>5, <1>6, <1>7 DEF BoundInv

(* A new store. *)
LEMMA EmptyClose == Close(EmptyBlock) /\ IdleClose(EmptyBlock) /\ EmptyBlock.tab[0].chunk = HeadLength
<1>1. EmptyBlock.chunks = <<>> /\ EmptyBlock.avail = 1
      /\ EmptyBlock.total = RoundedUp(HeadLength + TermLength)
  BY DEF EmptyBlock
<1>2. EmptyBlock.tab[0].chunk = HeadLength
  BY StoreAssumption DEF StoreAssumption, EmptyBlock, Ref
<1>3. RoundedUp(HeadLength + TermLength) <= TotalBound
  <2>1. PICK h : h = HeadLength + TermLength
    OBVIOUS
  <2>2. h \in Nat
    BY <2>1, BoundTypes
  <2>3. RoundedUp(h) <= h + 255
    BY <2>2 DEF RoundedUp
  <2>4. PICK l : l = Longest + Largest
    OBVIOUS
  <2>5. l \in Nat /\ l >= 1
    <3>1. Width + Longest \in Nat
      BY BoundTypes
    <3>2. Largest >= 34
      BY <3>1, TextLengthBounds DEF Largest
    <3> QED
      BY <2>4, <3>2, BoundTypes
  <2>6. RoundedUp(l) >= 256
    BY <2>5 DEF RoundedUp
  <2>7. PICK x, y : x = (MaxLines * (Width + 1) + 1) * Largest /\ y = RoundedUp(l)
    OBVIOUS
  <2>8. x \in Nat /\ y \in Nat
    BY <2>4, <2>7, BoundTypes
  <2>9. TotalBound = h + x + 2 * y
    BY <2>1, <2>4, <2>7 DEF TotalBound
  <2>10. RoundedUp(h) \in Nat
    BY <2>2, RoundedUpBounds
  <2> QED
    BY <2>1, <2>2, <2>3, <2>6, <2>7, <2>8, <2>9, <2>10
<1>4. LinesClose(EmptyBlock) /\ Short(EmptyBlock)
  BY <1>1 DEF LinesClose, Short
<1> QED
  BY <1>1, <1>2, <1>3, <1>4 DEF Close, IdleClose

LEMMA FreshBound ==
  ASSUME NEW b, b = EmptyBlock \/ b = NoBlock, NEW j, j = NoJob
  PROVE  b.made => Close(b) /\ b.tab[0].chunk = HeadLength /\ IdleClose(b)
BY EmptyClose, NoBlockType

LEMMA InitBound == Init => BoundInv
BY FreshBound DEF Init, BoundInv, Idle

(* Every step keeps the bound. *)
LEMMA NextBound == IInv /\ BoundInv /\ [Next]_vars => BoundInv'
<1> SUFFICES ASSUME IInv, BoundInv, [Next]_vars PROVE BoundInv'
  OBVIOUS
<1>1. ASSUME NEW stream \in Streams, NEW n \in Pieces, NEW feed \in BOOLEAN,
             Store(stream, n, feed)
      PROVE  BoundInv'
  BY <1>1, StoreBound
<1>2. CASE Wrap
  BY <1>2, WrapBound
<1>3. CASE Finish
  BY <1>3, FinishBound
<1>4. ASSUME NEW k \in 1 .. MaxLines, Scroll(k) PROVE BoundInv'
  BY <1>4, ScrollBound
<1>5. CASE ScrollPage
  <2>1. Visible - 1 \in Int
    BY StoreAssumption DEF StoreAssumption
  <2> QED
    BY <1>5, <2>1, ScrollBound DEF ScrollPage
<1>6. CASE Clear
  <2>1. Idle' /\ (block' = EmptyBlock \/ block' = NoBlock)
    BY <1>6 DEF Clear, Idle
  <2> QED
    BY <2>1, FreshBound DEF BoundInv
<1>7. CASE UNCHANGED vars
  BY <1>7 DEF vars, BoundInv, Idle
<1> QED
  BY <1>1, <1>2, <1>3, <1>4, <1>5, <1>6, <1>7 DEF Next

-----------------------------------------------------------------------------
(* Theorems *)

(* Every field keeps the type of its struct: none of the counts of bytes   *)
(* that output_addchunk adds to and subtracts from falls below zero, and   *)
(* no line number leaves the table.                                        *)
THEOREM TypeCorrect == Spec => []TypeOK
<1>1. IInv => TypeOK
  BY NoBlockType DEF IInv, BlockSound, Sound, TypeOK
<1> QED
  BY <1>1, Invariance, PTL

(* mem_free is always exactly what lies behind the terminator chunk, so    *)
(* that the test before output_resize guards what is written after it.     *)
THEOREM RoomAccounted == Spec => []Accounted
<1>1. IInv => Accounted
  BY DEF IInv, BlockSound, Sound, Room, Accounted
<1> QED
  BY <1>1, Invariance, PTL

(* The walk over the chunks by their lengths meets every one of them and   *)
(* ends at the terminator, and offset_lastdata leads to the last one.      *)
THEOREM ChainIntact == Spec => []Chained
<1>1. IInv => Chained
  BY DEF IInv, BlockSound, Sound, Chain, Chained
<1> QED
  BY <1>1, Invariance, PTL

(* Every line of the table of contents points into a chunk that is there,  *)
(* however many chunks output_addchunk has released before.                *)
THEOREM LinesReferToText == Spec => []Referenced
<1>1. IInv => Referenced
  <2> SUFFICES ASSUME IInv, NEW i \in 0 .. block.avail - 1
               PROVE  IF block.chunks = <<>> THEN block.tab[i] = Ref(block.term, 0)
                      ELSE \E c \in {block.chunks[k] : k \in DOMAIN block.chunks} :
                             c.at = block.tab[i].chunk /\ block.tab[i].char <= Len(c.text)
    BY DEF Referenced
  <2>1. block.made /\ Sound(block)
    BY DEF IInv, BlockSound, NoBlock
  <2>2. CASE block.chunks = <<>>
    BY <2>1, <2>2 DEF Sound, Table, Chain
  <2>3. CASE block.chunks # <<>>
    <3>1. InChunk(block, block.tab[i])
      BY <2>1, <2>3 DEF Sound, Table
    <3>2. DOMAIN block.chunks = 1 .. Len(block.chunks)
      BY <2>1 DEF Sound, BlockType
    <3> QED
      BY <2>3, <3>1, <3>2 DEF InChunk
  <2> QED
    BY <2>2, <2>3
<1> QED
  BY <1>1, Invariance, PTL

(* The view starts at a line that exists, and shows the end of the output  *)
(* unless the user has scrolled back, whatever lines came and went.        *)
THEOREM ViewFollowsEnd == Spec => []ViewFollows
<1>1. IInv => ViewFollows
  BY DEF IInv, BlockSound, Sound, View, ViewFollows
<1> QED
  BY <1>1, Invariance, PTL

(* Between two calls the table of contents cuts the stored text into the   *)
(* lines that were written, as long as no header in use went astray.       *)
THEOREM HistoryAlways == Spec => []HistoryKept
BY InitInv, NextInv, InitHistory, NextHistory, HistoryCut, PTL DEF Spec

(* However long a program writes, the block stays within what the lines of *)
(* the history need: what falls out of it is reclaimed.                    *)
THEOREM BoundedAlways == Spec => []Bounded
<1>1. IInv /\ BoundInv => Bounded
  <2> SUFFICES ASSUME IInv, BoundInv PROVE block.total <= TotalBound
    BY DEF Bounded
  <2>1. CASE block.made
    BY <2>1 DEF BoundInv, Close
  <2>2. CASE ~block.made
    <3>1. block = NoBlock
      BY <2>2 DEF IInv, BlockSound
    <3>2. block.total = 0
      BY <3>1 DEF NoBlock
    <3> QED
      BY <3>2, BoundTypes
  <2> QED
    BY <2>1, <2>2
<1> QED
  BY <1>1, InitInv, NextInv, InitBound, NextBound, PTL DEF Spec
=============================================================================
