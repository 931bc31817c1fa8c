--------------------------- MODULE StrFormatProofs ---------------------------
(***************************************************************************)
(* Proofs about the printf family and string.format, for every format, every *)
(* argument and every outcome of the allocations.                            *)
(*                                                                         *)
(* What a call has allocated is at each point that of the items in its list, *)
(* the text, and an item that was dropped: HeapInv says which of them, where *)
(* the call is.  Nothing is asked of how a directive is taken apart.         *)
(*                                                                         *)
(* What a call writes is a sequence of parts, one for an item: the text in   *)
(* front of its directive and its own.  Counts are the parts the first walk  *)
(* made room for, Writes those of the second; TextInv says how far each of   *)
(* the walks is, and a lemma on items (RoomForItem, Same) that a part is not *)
(* longer than its room, and that it is what the C library writes.  LuaForm  *)
(* is what string.format passes on.  What the functions that walk over a     *)
(* format compute (After, Number, Plain, Digits) is shown place by place, by *)
(* Upto and Along.                                                          *)
(***************************************************************************)
EXTENDS StrFormat, SequenceTheorems, NaturalsInduction, WellFoundedInduction, TLAPS

IsSeq(s) == \E S : s \in Seq(S)

Walking == {"allocate", "write", "release"}

(* What is left of a call's blocks, by the place it is at. *)
HeapInv ==
  /\ IsSeq(items)
  /\ pc = "count" => heap \subseteq Blocks(Listed)
  /\ pc \in Walking => heap \subseteq Blocks(Listed) \cup Dropped \cup {Output}
  /\ pc = "return" => heap \subseteq Dropped \cup {Output}
  /\ pc = "end" => heap \subseteq Dropped
  /\ pc \in {"idle", "count", "return", "end"} \cup Walking

-----------------------------------------------------------------------------
(* Appending an item adds it to the list and keeps the others. *)
LEMMA Appended ==
  ASSUME NEW s, NEW e, IsSeq(s)
  PROVE  IsSeq(Append(s, e)) /\ ToSet(Append(s, e)) = ToSet(s) \cup {e}
<1>1. PICK S : s \in Seq(S)  BY DEF IsSeq
<1>2. s \in Seq(S \cup {e})
  <2>1. Len(s) \in Nat /\ s \in [1 .. Len(s) -> S]  BY <1>1
  <2>2. s \in [1 .. Len(s) -> S \cup {e}]  BY <2>1
  <2> QED  BY <2>1, <2>2, SeqDef
<1>3. Append(s, e) \in Seq(S \cup {e})  BY <1>2
<1>4. /\ Len(s) \in Nat /\ Len(Append(s, e)) = Len(s) + 1
      /\ DOMAIN s = 1 .. Len(s) /\ DOMAIN Append(s, e) = 1 .. Len(s) + 1
      /\ \A i \in 1 .. Len(s) : Append(s, e)[i] = s[i]
      /\ Append(s, e)[Len(s) + 1] = e
  BY <1>2
<1>5. 1 .. Len(s) + 1 = (1 .. Len(s)) \cup {Len(s) + 1}  BY <1>4
<1>6. ToSet(Append(s, e)) = ToSet(s) \cup {e}  BY <1>4, <1>5 DEF ToSet
<1> QED  BY <1>3, <1>6 DEF IsSeq

(* The blocks of an item. *)
LEMMA BlocksOf ==
  ASSUME NEW S, NEW i
  PROVE  Blocks(S \cup {i}) = Blocks(S) \cup {Item(i.start), Buffer(i.start)}
BY DEF Blocks

(* Which items may have been dropped depends on the format and the list. *)
LEMMA DroppedKept ==
  ASSUME UNCHANGED <<fmt, items>>
  PROVE  Dropped' = Dropped /\ Blocks(Listed)' = Blocks(Listed)
BY DEF Dropped, Positional, After, Char, Blocks, Listed, Item, Buffer

-----------------------------------------------------------------------------
(* The invariant, action by action *)

LEMMA BeginsInv ==
  ASSUME NEW c, NEW f, Begins(c, f)
  PROVE  HeapInv'
<1>1. IsSeq(<<>>)
  <2>1. <<>> \in Seq({})  OBVIOUS
  <2> QED  BY <2>1 DEF IsSeq
<1> QED  BY <1>1 DEF HeapInv, Begins, Walking

(* Steps that change neither the list nor the blocks, and stay or stop walking. *)
LEMMA QuietInv ==
  ASSUME HeapInv, UNCHANGED <<fmt, items, heap>>,
         \/ pc' = pc
         \/ pc \in {"count"} \cup Walking /\ pc' \in Walking
  PROVE  HeapInv'
BY DroppedKept DEF HeapInv, Walking

(* The item that is dropped is the one at the percent sign of its directive. *)
LEMMA UnsupportedInv == HeapInv /\ Unsupported => HeapInv'
<1> SUFFICES ASSUME HeapInv, Unsupported PROVE HeapInv'  OBVIOUS
<1>1. p \in DOMAIN fmt /\ fmt[p] = "%"
  BY DEF Unsupported, AtDirective, Char
<1>2. Item(p) \in Dropped
  BY <1>1 DEF Unsupported, Dropped
<1>3. Dropped' = Dropped /\ Blocks(Listed)' = Blocks(Listed)
  BY DroppedKept DEF Unsupported
<1>4. pc = "count" /\ pc' = "allocate" /\ heap' = heap \cup {Item(p)} /\ items' = items
  BY DEF Unsupported, AtDirective, Fails_
<1> QED  BY <1>2, <1>3, <1>4 DEF HeapInv, Walking

(* The item of a directive is in the list before its buffer is allocated. *)
LEMMA TakenInv == HeapInv /\ Taken => HeapInv'
<1> SUFFICES ASSUME HeapInv, Taken PROVE HeapInv'  OBVIOUS
<1>1. PICK i, v :
        /\ items' = Append(items, [i EXCEPT !.value = v])
        /\ i = Directive(p + 1)
        /\ \/ /\ heap' = heap \cup {Item(i.start)}
                           \cup (IF Preformats(i.conv) THEN {Buffer(i.start)} ELSE {})
              /\ pc' = pc
           \/ heap' = heap \cup {Item(i.start)} /\ pc' = "allocate"
  BY DEF Taken, Fails_
<1>2. [i EXCEPT !.value = v].start = i.start  BY <1>1 DEF Directive
<1>3. IsSeq(items') /\ ToSet(items') = ToSet(items) \cup {[i EXCEPT !.value = v]}
  BY <1>1, Appended DEF HeapInv
<1>4. Blocks(Listed)' = Blocks(Listed) \cup {Item(i.start), Buffer(i.start)}
  <2>1. Blocks(Listed)' = Blocks(ToSet(items'))  BY DEF Blocks, Listed, Item, Buffer
  <2> QED  BY <1>2, <1>3, <2>1, BlocksOf DEF Listed
<1>5. pc = "count" /\ heap \subseteq Blocks(Listed)  BY DEF Taken, AtDirective, HeapInv
<1>6. heap' \subseteq Blocks(Listed)'  BY <1>1, <1>4, <1>5
<1> QED  BY <1>1, <1>3, <1>5, <1>6 DEF HeapInv, Walking

LEMMA AllocateInv == HeapInv /\ Allocate => HeapInv'
<1> SUFFICES ASSUME HeapInv, Allocate PROVE HeapInv'  OBVIOUS
<1>1. Dropped' = Dropped /\ Blocks(Listed)' = Blocks(Listed)  BY DroppedKept DEF Allocate
<1>2. /\ pc = "allocate" /\ pc' \in Walking /\ items' = items
      /\ heap' \subseteq heap \cup {Output}
  BY DEF Allocate, Walking
<1> QED  BY <1>1, <1>2 DEF HeapInv, Walking

(* The list is walked to its end whatever has been written. *)
LEMMA ReleaseInv == HeapInv /\ Release => HeapInv'
<1> SUFFICES ASSUME HeapInv, Release PROVE HeapInv'  OBVIOUS
<1>1. Dropped' = Dropped  BY DroppedKept DEF Release
<1>2. heap \subseteq Blocks(Listed) \cup Dropped \cup {Output}  BY DEF HeapInv, Release, Walking
<1>3. heap' \subseteq Dropped \cup {Output}  BY <1>2 DEF Release
<1> QED  BY <1>1, <1>3 DEF HeapInv, Release, Walking

LEMMA ReturnInv == HeapInv /\ Return => HeapInv'
<1> SUFFICES ASSUME HeapInv, Return PROVE HeapInv'  OBVIOUS
<1>1. Dropped' = Dropped  BY DroppedKept DEF Return
<1>2. heap' \subseteq Dropped  BY DEF HeapInv, Return
<1> QED  BY <1>1, <1>2 DEF HeapInv, Return, Walking

LEMMA DoneInv == Done => HeapInv'
<1>1. <<>> \in Seq({})  OBVIOUS
<1> QED  BY <1>1 DEF Done, HeapInv, IsSeq, Walking

LEMMA StepInv == HeapInv /\ [Next]_allVars => HeapInv'
<1> SUFFICES ASSUME HeapInv, [Next]_allVars PROVE HeapInv'  OBVIOUS
<1>1. CASE UNCHANGED vars
  BY <1>1, QuietInv DEF vars
<1>2. CASE CallsC
  BY <1>2, BeginsInv DEF CallsC
<1>3. CASE Verbatim \/ ItemFails \/ Refused \/ Counted \/ WriteItem \/ WriteRest
  BY <1>3, QuietInv DEF Verbatim, ItemFails, Refused, Counted, WriteItem, WriteRest,
                        AtDirective, Fails_, Walking
<1>4. CASE Unsupported \/ Taken \/ Allocate \/ Release \/ Return
  BY <1>4, UnsupportedInv, TakenInv, AllocateInv, ReleaseInv, ReturnInv
<1>5. CASE AddItem
  BY <1>5, BeginsInv DEF AddItem
<1>6. CASE Added \/ Finished
  BY <1>6, DoneInv DEF Added, Finished
<1>7. UNCHANGED vars \/ CallsC \/ AddItem \/ Added \/ Finished
      \/ Verbatim \/ ItemFails \/ Unsupported \/ Refused \/ Taken \/ Counted
      \/ Allocate \/ WriteItem \/ WriteRest \/ Release \/ Return
  BY DEF Next, allVars, Formats_, AddChar, Error, AddString, PushResult
<1> QED  BY <1>1, <1>2, <1>3, <1>4, <1>5, <1>6, <1>7

(* Released: however a call of the printf family goes, for C code or for a   *)
(* script, of what formatted_write allocated nothing is left (the item of a  *)
(* positional directive apart).                                              *)
THEOREM BlocksReleased == Spec => []Released
<1>1. LuaInit => HeapInv
  <2>1. <<>> \in Seq({})  OBVIOUS
  <2> QED  BY <2>1 DEF LuaInit, Init, HeapInv, IsSeq, Walking
<1>2. HeapInv => Released  BY DEF HeapInv, Released
<1> QED  BY <1>1, <1>2, StepInv, PTL DEF Spec

-----------------------------------------------------------------------------
(* Walks.  What a recursive function computes is shown place by place.      *)

(* The numbers up to n, one after the other: G is a set, so that no         *)
(* operator stands for the induction hypothesis.                            *)
LEMMA Upto ==
  ASSUME NEW n \in Nat, NEW G, 0 \in G, \A k \in 1 .. n : k - 1 \in G => k \in G
  PROVE  \A k \in 0 .. n : k \in G
<1> DEFINE Bad == {k \in 0 .. n : k \notin G}
<1>1. SUFFICES ASSUME Bad # {} PROVE FALSE
  OBVIOUS
<1>2. PICK R : R = OpToRel(<, Nat)
  OBVIOUS
<1>3. IsWellFoundedOn(R, Nat)
  BY <1>2, NatLessThanWellFounded
<1>4. Bad \subseteq Nat
  OBVIOUS
<1>5. PICK k \in Bad : \A j \in Bad : ~(<<j, k>> \in R)
  <2> HIDE DEF Bad
  <2> QED
    BY <1>1, <1>3, <1>4, WFMin
<1>6. PICK j : j = k - 1
  OBVIOUS
<1>7. k # 0 /\ k \in 1 .. n /\ j \in 0 .. n /\ j < k
  BY <1>6
<1>8. <<j, k>> \in R
  BY <1>2, <1>7 DEF OpToRel
<1>9. j \in G
  BY <1>5, <1>7, <1>8
<1> QED
  BY <1>6, <1>7, <1>9

(* The same from any place i to any other. *)
LEMMA Along ==
  ASSUME NEW i \in Int, NEW j \in Int, NEW G,
         i \in G, \A k \in i + 1 .. j : k - 1 \in G => k \in G
  PROVE  \A k \in i .. j : k \in G
<1>1. SUFFICES ASSUME i <= j PROVE \A k \in i .. j : k \in G
  OBVIOUS
<1> DEFINE H == {x \in Nat : i + x \in G}
<1>2. PICK n : n = j - i
  OBVIOUS
<1>3. n \in Nat
  BY <1>1, <1>2
<1>4. 0 \in H
  OBVIOUS
<1>5. ASSUME NEW x \in 1 .. n, x - 1 \in H PROVE x \in H
  <2>1. PICK k : k = i + x
    OBVIOUS
  <2>2. k \in i + 1 .. j /\ k - 1 = i + (x - 1) /\ x \in Nat
    BY <1>1, <1>2, <2>1
  <2>3. k - 1 \in G
    BY <1>5, <2>2
  <2> QED
    BY <2>1, <2>2, <2>3
<1>6. \A x \in 0 .. n : x \in H
  <2> HIDE DEF H
  <2> QED
    BY <1>3, <1>4, <1>5, Upto
<1>7. ASSUME NEW k \in i .. j PROVE k \in G
  <2>1. PICK x : x = k - i
    OBVIOUS
  <2>2. x \in 0 .. n /\ i + x = k
    BY <1>2, <2>1
  <2>3. x \in H
    BY <1>6, <2>2
  <2> QED
    BY <2>2, <2>3
<1> QED
  BY <1>7

(* A walk from a at i to j, by the steps G. *)
Walk(f, i, j, a, G) == f[i] = a /\ \A k \in i + 1 .. j : f[k] = G[<<f[k - 1], k>>]

(* Every such walk exists: a recursive function over places has a value. *)
LEMMA WalkExists ==
  ASSUME NEW A, NEW a \in A, NEW i \in Int, NEW j \in Int, i <= j,
         NEW G \in [A \X (i + 1 .. j) -> A]
  PROVE  \E f \in [i .. j -> A] : Walk(f, i, j, a, G)
<1> DEFINE S == {k \in i .. j : \E f \in [i .. k -> A] : Walk(f, i, k, a, G)}
<1>1. i \in S
  <2>1. PICK f : f = [k \in i .. i |-> a]
    OBVIOUS
  <2>2. f \in [i .. i -> A] /\ f[i] = a /\ i + 1 .. i = {}
    BY <2>1
  <2> QED
    BY <2>2 DEF Walk
<1>2. ASSUME NEW k \in i + 1 .. j, k - 1 \in S PROVE k \in S
  <2>1. PICK h : h = k - 1
    OBVIOUS
  <2>2. h \in i .. j /\ k = h + 1 /\ h \in Int /\ i <= h
    BY <2>1
  <2>3. PICK f \in [i .. h -> A] : Walk(f, i, h, a, G)
    BY <1>2, <2>1
  <2>4. PICK e : e = G[<<f[h], k>>]
    OBVIOUS
  <2>5. e \in A
    <3>1. f[h] \in A
      BY <2>2, <2>3
    <3> QED
      BY <2>4, <3>1
  <2>6. PICK g : g = [x \in i .. k |-> IF x = k THEN e ELSE f[x]]
    OBVIOUS
  <2>7. \A x \in i .. k : x # k => x \in i .. h
    BY <2>2
  <2>8. g \in [i .. k -> A]
    BY <2>3, <2>5, <2>6, <2>7
  <2>9. g[i] = a
    <3>1. i \in i .. k /\ i # k
      BY <2>2
    <3> QED
      BY <2>3, <2>6, <3>1 DEF Walk
  <2>10. ASSUME NEW x \in i + 1 .. k PROVE g[x] = G[<<g[x - 1], x>>]
    <3>1. PICK y : y = x - 1
      OBVIOUS
    <3>2. y \in i .. k /\ y # k /\ x \in i .. k /\ x \in Int
      BY <2>2, <3>1
    <3>3. g[y] = f[y]
      BY <2>6, <3>2
    <3>4. CASE x = k
      <4>1. y = h
        BY <2>1, <3>1, <3>4
      <4> QED
        BY <2>4, <2>6, <3>1, <3>2, <3>3, <3>4, <4>1
    <3>5. CASE x # k
      <4>1. x \in i + 1 .. h
        BY <2>2, <3>2, <3>5
      <4>2. f[x] = G[<<f[y], x>>]
        BY <2>3, <3>1, <4>1 DEF Walk
      <4> QED
        BY <2>6, <3>1, <3>2, <3>3, <3>5, <4>2
    <3> QED
      BY <3>4, <3>5
  <2>11. Walk(g, i, k, a, G)
    BY <2>9, <2>10 DEF Walk
  <2>12. k \in i .. j
    OBVIOUS
  <2> QED
    BY <2>8, <2>11, <2>12
<1>3. \A k \in i .. j : k \in S
  <2> HIDE DEF S
  <2> QED
    BY <1>1, <1>2, Along
<1>4. j \in i .. j
  OBVIOUS
<1> QED
  BY <1>3, <1>4

-----------------------------------------------------------------------------
(* Texts, and several of them one after the other *)

(* The provers do not know that a literal is in STRING. *)
Character == STRING \cup {" ", "0", "-", "+", "%", "l", "c"} \cup {Digit[k] : k \in 1 .. 16}
Text == Seq(Character)
LEMMA Literals ==
  /\ \A k \in 1 .. 16 : Digit[k] \in Character
  /\ " " \in Character /\ "0" \in Character /\ "-" \in Character /\ "+" \in Character
  /\ "%" \in Character /\ "l" \in Character /\ "c" \in Character
BY DEF Character

(* A text of one character *)
LEMMA Single ==
  ASSUME NEW c \in Character
  PROVE  <<c>> \in Text /\ Len(<<c>>) = 1
BY DEF Text

LEMMA InText ==
  ASSUME NEW s \in Seq(STRING)
  PROVE  s \in Text
<1>1. Len(s) \in Nat /\ s \in [1 .. Len(s) -> STRING]
  OBVIOUS
<1>2. s \in [1 .. Len(s) -> Character]
  BY <1>1 DEF Character
<1> QED
  BY <1>1, <1>2, SeqDef DEF Text

Flat(parts, f) == f = [i \in 1 .. Len(parts) |-> IF i = 1 THEN parts[i] ELSE f[i - 1] \o parts[i]]

(* FlattenSeq puts the parts one behind the other, beginning with none. *)
LEMMA FlattenSteps ==
  ASSUME NEW n \in Nat, NEW parts \in [1 .. n -> Text]
  PROVE  \E f \in [0 .. n -> Text] :
           /\ f[0] = <<>> /\ f[n] = FlattenSeq(parts)
           /\ \A k \in 1 .. n : f[k] = f[k - 1] \o parts[k]
<1>1. parts \in Seq(Text) /\ Len(parts) = n
  <2>1. parts \in Seq(Text)
    BY SeqDef
  <2> QED
    BY <2>1
<1>2. <<>> \in Text
  BY DEF Text
<1>3. CASE n = 0
  <2>1. FlattenSeq(parts) = <<>>
    BY <1>1, <1>3 DEF FlattenSeq
  <2>2. PICK f : f = [k \in 0 .. 0 |-> <<>>]
    OBVIOUS
  <2>3. f \in [0 .. n -> Text] /\ f[0] = <<>> /\ 1 .. n = {}
    BY <1>2, <1>3, <2>2
  <2> QED
    BY <1>3, <2>1, <2>3
<1>4. CASE n # 0
  <2>1. n \in Int /\ 1 \in Int /\ 1 <= n /\ 1 \in 1 .. n
    BY <1>4
  <2>2. parts[1] \in Text
    BY <2>1
  <2>3. PICK G : G = [x \in (Text \X (1 + 1 .. n)) |-> x[1] \o parts[x[2]]]
    OBVIOUS
  <2>4. ASSUME NEW s \in Text, NEW k \in 1 + 1 .. n
        PROVE  G[<<s, k>>] = s \o parts[k] /\ s \o parts[k] \in Text
    <3>1. <<s, k>> \in Text \X (1 + 1 .. n)
      OBVIOUS
    <3>2. parts[k] \in Text
      OBVIOUS
    <3> QED
      BY <2>3, <3>1, <3>2 DEF Text
  <2>5. G \in [Text \X (1 + 1 .. n) -> Text]
    <3>1. ASSUME NEW x \in Text \X (1 + 1 .. n) PROVE x[1] \o parts[x[2]] \in Text
      <4>1. x[1] \in Text /\ x[2] \in 1 + 1 .. n
        OBVIOUS
      <4> QED
        BY <2>4, <4>1
    <3> QED
      BY <2>3, <3>1
  <2>6. PICK w \in [1 .. n -> Text] : Walk(w, 1, n, parts[1], G)
    BY <2>1, <2>2, <2>5, WalkExists
  <2>7. ASSUME NEW k \in 1 .. n
        PROVE  w[k] = IF k = 1 THEN parts[k] ELSE w[k - 1] \o parts[k]
    <3>1. CASE k = 1
      BY <2>6, <3>1 DEF Walk
    <3>2. CASE k # 1
      <4>1. k \in 1 + 1 .. n /\ k - 1 \in 1 .. n
        BY <3>2
      <4>2. w[k - 1] \in Text /\ w[k] = G[<<w[k - 1], k>>]
        BY <2>6, <4>1 DEF Walk
      <4> QED
        BY <2>4, <3>2, <4>1, <4>2
    <3> QED
      BY <3>1, <3>2
  <2>8. Flat(parts, w)
    <3>1. w = [k \in 1 .. n |-> w[k]]
      OBVIOUS
    <3> QED
      BY <1>1, <2>7, <3>1 DEF Flat
  <2>9. PICK c : c = CHOOSE f : Flat(parts, f)
    OBVIOUS
  <2>10. Flat(parts, c)
    BY <2>8, <2>9
  <2>11. FlattenSeq(parts) = c[n]
    BY <1>1, <1>4, <2>9 DEF FlattenSeq, Flat
  <2>12. ASSUME NEW k \in 1 .. n
         PROVE  c[k] = IF k = 1 THEN parts[k] ELSE c[k - 1] \o parts[k]
    <3>1. PICK d : d = c
      OBVIOUS
    <3>2. d = [i \in 1 .. n |-> IF i = 1 THEN parts[i] ELSE c[i - 1] \o parts[i]]
      BY <1>1, <2>10, <3>1 DEF Flat
    <3> QED
      BY <3>1, <3>2
  <2>13. \A k \in 1 .. n : c[k] = w[k]
    <3> DEFINE S == {k \in 1 .. n : c[k] = w[k]}
    <3>1. 1 \in S
      BY <2>1, <2>7, <2>12
    <3>2. ASSUME NEW k \in 1 + 1 .. n, k - 1 \in S PROVE k \in S
      <4>1. k \in 1 .. n /\ k # 1
        OBVIOUS
      <4>2. c[k - 1] = w[k - 1]
        BY <3>2
      <4> QED
        BY <2>7, <2>12, <4>1, <4>2
    <3>3. \A k \in 1 .. n : k \in S
      <4> HIDE DEF S
      <4> QED
        BY <2>1, <3>1, <3>2, Along
    <3> QED
      BY <3>3
  <2>14. PICK f : f = [k \in 0 .. n |-> IF k = 0 THEN <<>> ELSE w[k]]
    OBVIOUS
  <2>15. f \in [0 .. n -> Text]
    <3>1. \A k \in 0 .. n : k # 0 => k \in 1 .. n
      OBVIOUS
    <3> QED
      BY <1>2, <2>6, <2>14, <3>1
  <2>16. f[0] = <<>> /\ f[n] = FlattenSeq(parts)
    <3>1. 0 \in 0 .. n /\ n \in 0 .. n /\ n \in 1 .. n
      BY <2>1
    <3> QED
      BY <1>4, <2>11, <2>13, <2>14, <3>1
  <2>17. ASSUME NEW k \in 1 .. n PROVE f[k] = f[k - 1] \o parts[k]
    <3>1. k \in 0 .. n /\ k # 0 /\ k - 1 \in 0 .. n /\ parts[k] \in Text
      OBVIOUS
    <3>2. CASE k = 1
      <4>1. f[k - 1] = <<>> /\ f[k] = parts[k]
        BY <2>7, <2>14, <3>1, <3>2
      <4>2. <<>> \o parts[k] = parts[k]
        BY <3>1 DEF Text
      <4> QED
        BY <4>1, <4>2
    <3>3. CASE k # 1
      BY <2>7, <2>14, <3>1, <3>3
    <3> QED
      BY <3>2, <3>3
  <2> QED
    BY <2>15, <2>16, <2>17
<1> QED
  BY <1>3, <1>4

(* The first m of the parts. *)
First(parts, m) == [k \in 1 .. m |-> parts[k]]

(* What is put together so far is what the first m parts give. *)
LEMMA FlattenFirst ==
  ASSUME NEW n \in Nat, NEW parts \in [1 .. n -> Text], NEW f,
         f[0] = <<>>, \A k \in 1 .. n : f[k] = f[k - 1] \o parts[k],
         NEW m \in 0 .. n
  PROVE  f[m] = FlattenSeq(First(parts, m)) /\ f[m] \in Text
<1>1. PICK part : part = First(parts, m)
  OBVIOUS
<1>2. /\ part \in [1 .. m -> Text] /\ m \in Nat
      /\ \A k \in 1 .. m : part[k] = parts[k] /\ k \in 1 .. n
  BY <1>1 DEF First
<1>3. PICK g \in [0 .. m -> Text] :
        /\ g[0] = <<>> /\ g[m] = FlattenSeq(part)
        /\ \A k \in 1 .. m : g[k] = g[k - 1] \o part[k]
  BY <1>2, FlattenSteps
<1> DEFINE S == {k \in 0 .. m : f[k] = g[k]}
<1>4. 0 \in S
  BY <1>2, <1>3
<1>5. ASSUME NEW k \in 1 .. m, k - 1 \in S PROVE k \in S
  <2>1. f[k - 1] = g[k - 1] /\ k \in 0 .. m /\ k \in 1 .. n
    BY <1>2, <1>5
  <2> QED
    BY <1>2, <1>3, <2>1
<1>6. \A k \in 0 .. m : k \in S
  <2> HIDE DEF S
  <2> QED
    BY <1>2, <1>4, <1>5, Upto
<1>7. m \in 0 .. m
  BY <1>2
<1>8. f[m] = g[m]
  BY <1>6, <1>7
<1> QED
  BY <1>1, <1>3, <1>7, <1>8

(* One more part is put behind those before it. *)
LEMMA FlattenOneMore ==
  ASSUME NEW n \in Nat, NEW parts \in [1 .. n + 1 -> Text]
  PROVE  /\ FlattenSeq(First(parts, n)) \in Text
         /\ FlattenSeq(parts) = FlattenSeq(First(parts, n)) \o parts[n + 1]
<1>1. PICK m : m = n + 1
  OBVIOUS
<1>2. m \in Nat /\ parts \in [1 .. m -> Text] /\ n \in 0 .. m /\ m \in 1 .. m /\ m - 1 = n
  BY <1>1
<1>3. PICK f \in [0 .. m -> Text] :
        /\ f[0] = <<>> /\ f[m] = FlattenSeq(parts)
        /\ \A k \in 1 .. m : f[k] = f[k - 1] \o parts[k]
  BY <1>2, FlattenSteps
<1>4. f[n] = FlattenSeq(First(parts, n)) /\ f[n] \in Text
  BY <1>2, <1>3, FlattenFirst
<1>5. f[m] = f[n] \o parts[m]
  BY <1>2, <1>3
<1> QED
  BY <1>1, <1>3, <1>4, <1>5

(* The first parts of what has shorter parts are not longer than the whole. *)
LEMMA FlattenShorter ==
  ASSUME NEW n \in Nat, NEW p_ \in [1 .. n -> Text], NEW q \in [1 .. n -> Text],
         \A k \in 1 .. n : Len(p_[k]) <= Len(q[k]), NEW m \in 0 .. n
  PROVE  Len(FlattenSeq(First(p_, m))) <= Len(FlattenSeq(q))
<1>1. PICK f \in [0 .. n -> Text] :
        f[0] = <<>> /\ \A k \in 1 .. n : f[k] = f[k - 1] \o p_[k]
  BY FlattenSteps
<1>2. PICK g \in [0 .. n -> Text] :
        /\ g[0] = <<>> /\ g[n] = FlattenSeq(q)
        /\ \A k \in 1 .. n : g[k] = g[k - 1] \o q[k]
  BY FlattenSteps
<1>3. f[m] = FlattenSeq(First(p_, m))
  BY <1>1, FlattenFirst
<1>4. ASSUME NEW k \in 1 .. n
      PROVE  /\ Len(f[k]) = Len(f[k - 1]) + Len(p_[k]) /\ Len(g[k]) = Len(g[k - 1]) + Len(q[k])
             /\ Len(f[k - 1]) \in Nat /\ Len(p_[k]) \in Nat
             /\ Len(g[k - 1]) \in Nat /\ Len(q[k]) \in Nat
  <2>1. k - 1 \in 0 .. n /\ k \in 0 .. n
    OBVIOUS
  <2>2. f[k - 1] \in Text /\ g[k - 1] \in Text /\ p_[k] \in Text /\ q[k] \in Text
    BY <2>1
  <2>3. f[k] = f[k - 1] \o p_[k] /\ g[k] = g[k - 1] \o q[k]
    BY <1>1, <1>2
  <2>4. ASSUME NEW s \in Text, NEW t \in Text
        PROVE  Len(s \o t) = Len(s) + Len(t) /\ Len(s) \in Nat /\ Len(t) \in Nat
    BY DEF Text
  <2> QED
    BY <2>2, <2>3, <2>4
<1> DEFINE S == {k \in 0 .. n : Len(f[k]) <= Len(g[k])}
<1>5. 0 \in S
  <2>1. 0 \in 0 .. n /\ Len(f[0]) = 0 /\ Len(g[0]) = 0
    BY <1>1, <1>2
  <2> QED
    BY <2>1
<1>6. ASSUME NEW k \in 1 .. n, k - 1 \in S PROVE k \in S
  <2>1. Len(f[k - 1]) <= Len(g[k - 1]) /\ k \in 0 .. n
    BY <1>6
  <2> QED
    BY <1>4, <2>1
<1>7. \A k \in 0 .. n : Len(f[k]) <= Len(g[k])
  <2>1. \A k \in 0 .. n : k \in S
    <3> HIDE DEF S
    <3> QED
      BY <1>5, <1>6, Upto
  <2> QED
    BY <2>1
<1> DEFINE T == {k \in Int : k \in m .. n => Len(g[m]) <= Len(g[k])}
<1>8. m \in T /\ m \in Int /\ n \in Int
  <2>1. g[m] \in Text
    OBVIOUS
  <2>2. Len(g[m]) \in Nat
    BY <2>1 DEF Text
  <2> QED
    BY <2>2
<1>9. ASSUME NEW k \in m + 1 .. n, k - 1 \in T PROVE k \in T
  <2>1. k \in 1 .. n /\ k - 1 \in m .. n /\ k \in Int
    OBVIOUS
  <2>2. Len(g[m]) <= Len(g[k - 1])
    BY <1>9, <2>1
  <2>3. g[m] \in Text
    OBVIOUS
  <2>4. Len(g[m]) \in Nat
    BY <2>3 DEF Text
  <2> QED
    BY <1>4, <2>1, <2>2, <2>4
<1>10. \A k \in m .. n : k \in T
  <2> HIDE DEF T
  <2> QED
    BY <1>8, <1>9, Along
<1>11. Len(g[m]) <= Len(g[n])
  <2>1. n \in m .. n
    OBVIOUS
  <2> QED
    BY <1>10, <2>1
<1>12. f[m] \in Text /\ g[m] \in Text /\ g[n] \in Text
  <2>1. m \in 0 .. n /\ n \in 0 .. n
    OBVIOUS
  <2> QED
    BY <2>1
<1>13. Len(f[m]) \in Nat /\ Len(g[m]) \in Nat /\ Len(g[n]) \in Nat
  BY <1>12 DEF Text
<1>14. Len(f[m]) <= Len(g[m])
  BY <1>7
<1> QED
  BY <1>2, <1>3, <1>11, <1>13, <1>14

-----------------------------------------------------------------------------
(* The text between two directives *)

States == [text : Text, escaped : BOOLEAN]
Start == [text |-> <<>>, escaped |-> FALSE]
Copies(i, c) ==
  c = [k \in i .. Len(fmt) + 1 |-> IF k = i THEN [text |-> <<>>, escaped |-> FALSE]
                                   ELSE Copied(c[k - 1], fmt[k - 1])]
Copy(i) == CHOOSE c : Copies(i, c)

LEMMA PlainIsCopy ==
  ASSUME NEW i, NEW j
  PROVE  Plain(i, j) = IF i >= j THEN <<>> ELSE Copy(i)[j].text
BY DEF Plain, Copy, Copies

(* A character is copied, but for the second of two percent signs. *)
LEMMA CopySteps ==
  ASSUME fmt \in Text, NEW i \in 1 .. Len(fmt) + 1
  PROVE  /\ Copy(i) \in [i .. Len(fmt) + 1 -> States]
         /\ Copy(i)[i] = Start
         /\ \A k \in i + 1 .. Len(fmt) + 1 : Copy(i)[k] = Copied(Copy(i)[k - 1], fmt[k - 1])
<1>1. PICK n : n = Len(fmt) + 1
  OBVIOUS
<1>2. Len(fmt) \in Nat /\ n \in Int /\ i \in Int /\ i <= n /\ 1 <= i
  BY <1>1 DEF Text
<1>3. \A k \in i + 1 .. n : fmt[k - 1] \in Character
  BY <1>1, <1>2 DEF Text
<1>4. Start \in States
  BY DEF Start, States, Text
<1>5. ASSUME NEW s \in States, NEW c \in Character PROVE Copied(s, c) \in States
  <2>1. s.text \in Text /\ s.escaped \in BOOLEAN
    BY DEF States
  <2>2. Append(s.text, c) \in Text
    BY <2>1 DEF Text
  <2>3. (c = "%") \in BOOLEAN
    OBVIOUS
  <2>4. [text |-> Append(s.text, c), escaped |-> c = "%"] \in States
    BY <2>2, <2>3 DEF States
  <2>5. [s EXCEPT !.escaped = FALSE] \in States
    BY DEF States
  <2> QED
    BY <2>4, <2>5 DEF Copied
<1>6. PICK G : G = [x \in (States \X (i + 1 .. n)) |-> Copied(x[1], fmt[x[2] - 1])]
  OBVIOUS
<1>7. ASSUME NEW s \in States, NEW k \in i + 1 .. n
      PROVE  G[<<s, k>>] = Copied(s, fmt[k - 1]) /\ Copied(s, fmt[k - 1]) \in States
  <2>1. <<s, k>> \in States \X (i + 1 .. n)
    OBVIOUS
  <2>2. G[<<s, k>>] = Copied(s, fmt[k - 1])
    BY <1>6, <2>1
  <2> QED
    BY <1>3, <1>5, <2>2
<1>8. G \in [States \X (i + 1 .. n) -> States]
  <2>1. ASSUME NEW x \in States \X (i + 1 .. n) PROVE Copied(x[1], fmt[x[2] - 1]) \in States
    <3>1. x[1] \in States /\ x[2] \in i + 1 .. n
      OBVIOUS
    <3> QED
      BY <1>7, <3>1
  <2> QED
    BY <1>6, <2>1
<1>9. PICK w \in [i .. n -> States] : Walk(w, i, n, Start, G)
  BY <1>2, <1>4, <1>8, WalkExists
<1>10. ASSUME NEW k \in i .. n
       PROVE  w[k] = IF k = i THEN Start ELSE Copied(w[k - 1], fmt[k - 1])
  <2>1. CASE k = i
    BY <1>9, <2>1 DEF Walk
  <2>2. CASE k # i
    <3>1. k \in i + 1 .. n /\ k - 1 \in i .. n
      BY <1>2, <2>2
    <3>2. w[k] = G[<<w[k - 1], k>>] /\ w[k - 1] \in States
      BY <1>9, <3>1 DEF Walk
    <3> QED
      BY <1>7, <2>2, <3>1, <3>2
  <2> QED
    BY <2>1, <2>2
<1>11. Copies(i, w)
  <2>1. w = [k \in i .. n |-> w[k]]
    OBVIOUS
  <2> QED
    BY <1>1, <1>10, <2>1 DEF Copies, Start
<1>12. PICK c : c = Copy(i)
  OBVIOUS
<1>13. Copies(i, c)
  BY <1>11, <1>12 DEF Copy
<1>14. /\ DOMAIN c = i .. n
       /\ c = [k \in i .. n |-> c[k]]
       /\ \A k \in i .. n : c[k] = IF k = i THEN Start ELSE Copied(c[k - 1], fmt[k - 1])
  <2>1. PICK d : d = c
    OBVIOUS
  <2>2. d = [k \in i .. n |-> IF k = i THEN Start ELSE Copied(c[k - 1], fmt[k - 1])]
    BY <1>1, <1>13, <2>1 DEF Copies, Start
  <2> QED
    BY <2>1, <2>2
<1> DEFINE S == {k \in i .. n : c[k] = w[k]}
<1>15. i \in S
  <2>1. i \in i .. n
    BY <1>2
  <2>2. c[i] = Start /\ w[i] = Start
    BY <1>10, <1>14, <2>1
  <2> QED
    BY <2>1, <2>2
<1>16. ASSUME NEW k \in i + 1 .. n, k - 1 \in S PROVE k \in S
  <2>1. k \in i .. n /\ k # i /\ c[k - 1] = w[k - 1]
    BY <1>2, <1>16
  <2> QED
    BY <1>10, <1>14, <2>1
<1>17. \A k \in i .. n : c[k] = w[k]
  <2>1. \A k \in i .. n : k \in S
    <3> HIDE DEF S
    <3> QED
      BY <1>2, <1>15, <1>16, Along
  <2> QED
    BY <2>1
<1>18. c \in [i .. n -> States]
  BY <1>9, <1>14, <1>17
<1>19. c[i] = Start /\ \A k \in i + 1 .. n : c[k] = Copied(c[k - 1], fmt[k - 1])
  <2>1. i \in i .. n /\ \A k \in i + 1 .. n : k \in i .. n /\ k # i
    BY <1>2
  <2> QED
    BY <1>14, <2>1
<1> QED
  BY <1>1, <1>12, <1>18, <1>19

(* No percent sign before j is still without its second one. *)
Even(i, j) == i = j \/ (i < j /\ ~Copy(i)[j].escaped)

LEMMA PlainType ==
  ASSUME fmt \in Text, NEW i \in 1 .. Len(fmt) + 1, NEW j \in 1 .. Len(fmt) + 1
  PROVE  Plain(i, j) \in Text
<1>1. CASE i >= j
  <2>1. <<>> \in Text
    BY DEF Text
  <2> QED
    BY <1>1, <2>1, PlainIsCopy
<1>2. CASE ~(i >= j)
  <2>1. j \in i .. Len(fmt) + 1
    BY <1>2 DEF Text
  <2>2. Copy(i)[j] \in States
    BY <2>1, CopySteps
  <2> QED
    BY <1>2, <2>2, PlainIsCopy DEF States
<1> QED
  BY <1>1, <1>2

(* Where the first walk counts one, the second copies one. *)
LEMMA PlainGrows ==
  ASSUME fmt \in Text, NEW i \in 1 .. Len(fmt) + 1, NEW j \in DOMAIN fmt, i <= j, Even(i, j),
         fmt[j] = "%" => Char(j + 1) = "%"
  PROVE  LET k == IF fmt[j] = "%" THEN j + 2 ELSE j + 1
         IN /\ k \in 1 .. Len(fmt) + 1 /\ i <= k /\ Even(i, k)
            /\ Len(Plain(i, k)) = Len(Plain(i, j)) + 1
<1>1. Len(fmt) \in Nat /\ j \in 1 .. Len(fmt) /\ i \in Int /\ j \in Int
  BY DEF Text
<1>2. PICK n : n = Len(fmt) + 1
  OBVIOUS
<1>3. PICK c : c = Copy(i)
  OBVIOUS
<1>4. /\ c \in [i .. n -> States] /\ c[i] = Start
      /\ \A k \in i + 1 .. n : c[k] = Copied(c[k - 1], fmt[k - 1])
  BY <1>2, <1>3, CopySteps
<1>5. c[j] \in States /\ ~c[j].escaped /\ Plain(i, j) = c[j].text
  <2>1. CASE i = j
    <3>1. c[j] = Start
      BY <1>4, <2>1
    <3>2. Plain(i, j) = <<>>
      BY <1>1, <2>1, PlainIsCopy
    <3> QED
      BY <3>1, <3>2 DEF Start, States, Text
  <2>2. CASE i # j
    <3>1. i < j /\ ~(i >= j) /\ j \in i .. n
      BY <1>1, <1>2, <2>2
    <3>2. c[j] \in States
      BY <1>4, <3>1
    <3> QED
      BY <1>1, <1>3, <3>1, <3>2, PlainIsCopy DEF Even
  <2> QED
    BY <2>1, <2>2
<1>6. j + 1 \in i + 1 .. n /\ (j + 1) - 1 = j
  BY <1>1, <1>2
<1>7. c[j + 1] = Copied(c[j], fmt[j])
  BY <1>4, <1>6
<1>8. c[j + 1] = [text |-> Append(c[j].text, fmt[j]), escaped |-> fmt[j] = "%"]
  BY <1>5, <1>7 DEF Copied
<1>9. c[j].text \in Text /\ fmt[j] \in Character
  BY <1>1, <1>5 DEF States, Text
<1>10. Len(Append(c[j].text, fmt[j])) = Len(c[j].text) + 1
  BY <1>9 DEF Text
<1>11. CASE fmt[j] # "%"
  <2>1. ~(i >= j + 1) /\ i < j + 1 /\ j + 1 \in 1 .. Len(fmt) + 1
    BY <1>1
  <2>2. Plain(i, j + 1) = c[j + 1].text
    BY <1>3, <2>1, PlainIsCopy
  <2>3. ~c[j + 1].escaped /\ c[j + 1].text = Append(c[j].text, fmt[j])
    <3>1. (fmt[j] = "%") = FALSE
      BY <1>11
    <3>2. c[j + 1] = [text |-> Append(c[j].text, fmt[j]), escaped |-> FALSE]
      BY <1>8, <3>1
    <3> QED
      BY <3>2
  <2>4. Even(i, j + 1)
    BY <1>3, <2>1, <2>3 DEF Even
  <2>5. Len(Plain(i, j + 1)) = Len(Plain(i, j)) + 1
    BY <1>5, <1>10, <2>2, <2>3
  <2> QED
    BY <1>11, <2>1, <2>4, <2>5
<1>12. CASE fmt[j] = "%"
  <2>1. Char(j + 1) = "%"
    BY <1>12
  <2>2. j + 1 \in DOMAIN fmt /\ fmt[j + 1] = "%"
    BY <2>1 DEF Char
  <2>3. j + 1 \in 1 .. Len(fmt)
    BY <2>2 DEF Text
  <2>4. j + 2 \in i + 1 .. n /\ (j + 2) - 1 = j + 1
    BY <1>1, <1>2, <2>3
  <2>5. c[j + 2] = Copied(c[j + 1], "%")
    BY <1>4, <2>2, <2>4
  <2>6. (fmt[j] = "%") = TRUE
    BY <1>12
  <2>7. c[j + 1] = [text |-> Append(c[j].text, "%"), escaped |-> TRUE]
    BY <1>8, <1>12, <2>6
  <2>8. ~c[j + 2].escaped /\ c[j + 2].text = Append(c[j].text, "%")
    <3>1. PICK a : a = c[j + 1]
      OBVIOUS
    <3>2. a \in States
      BY <1>1, <1>2, <1>4, <1>6, <3>1
    <3>3. a.escaped /\ a.text = Append(c[j].text, "%")
      BY <2>7, <3>1
    <3>4. Copied(a, "%") = [a EXCEPT !.escaped = FALSE]
      BY <3>3 DEF Copied
    <3>5. PICK e : e = [a EXCEPT !.escaped = FALSE]
      OBVIOUS
    <3>6. e.escaped = FALSE /\ e.text = a.text
      BY <3>2, <3>5 DEF States
    <3> QED
      BY <2>5, <3>1, <3>3, <3>4, <3>5, <3>6
  <2>9. ~(i >= j + 2) /\ i < j + 2 /\ j + 2 \in 1 .. Len(fmt) + 1
    BY <1>1, <2>3
  <2>10. Plain(i, j + 2) = c[j + 2].text
    BY <1>3, <2>9, PlainIsCopy
  <2>11. Even(i, j + 2)
    BY <1>3, <2>8, <2>9 DEF Even
  <2>12. Len(Plain(i, j + 2)) = Len(Plain(i, j)) + 1
    BY <1>5, <1>10, <1>12, <2>8, <2>10
  <2> QED
    BY <1>12, <2>9, <2>11, <2>12
<1> QED
  BY <1>11, <1>12

-----------------------------------------------------------------------------
(* Taking a directive apart *)

(* Of places of which the last is not in G there is a first one. *)
LEMMA FirstPlace ==
  ASSUME NEW i \in Int, NEW n \in Int, i <= n, NEW G, n \notin G
  PROVE  \E j \in i .. n : j \notin G /\ \A k \in i .. j - 1 : k \in G
<1> DEFINE H == {j \in i - 1 .. n : \A k \in i .. j : k \in G}
<1>1. i - 1 \in H
  OBVIOUS
<1>2. n \notin H
  OBVIOUS
<1>3. \E j \in i .. n : j - 1 \in H /\ j \notin H
  <2>1. SUFFICES ASSUME \A j \in i .. n : j - 1 \in H => j \in H PROVE FALSE
    OBVIOUS
  <2>2. PICK h : h = i - 1
    OBVIOUS
  <2>3. h \in Int /\ h + 1 .. n = i .. n /\ n \in h .. n
    BY <2>2
  <2>4. \A j \in h .. n : j \in H
    <3> HIDE DEF H
    <3> QED
      BY <1>1, <2>1, <2>2, <2>3, Along
  <2> QED
    BY <1>2, <2>3, <2>4
<1>4. PICK j \in i .. n : j - 1 \in H /\ j \notin H
  BY <1>3
<1>5. \A k \in i .. j - 1 : k \in G
  BY <1>4
<1>6. j \notin G
  <2>1. SUFFICES ASSUME j \in G PROVE FALSE
    OBVIOUS
  <2>2. \A k \in i .. j : k = j \/ k \in i .. j - 1
    OBVIOUS
  <2>3. j \in H
    BY <1>5, <2>1, <2>2
  <2> QED
    BY <1>4, <2>3
<1> QED
  BY <1>5, <1>6

(* There is a first place behind i that is not in S. *)
LEMMA AfterIs ==
  ASSUME fmt \in Text, NEW S, "NUL" \notin S, NEW i \in 1 .. Len(fmt) + 1
  PROVE  /\ After(i, S) \in i .. Len(fmt) + 1
         /\ Char(After(i, S)) \notin S
         /\ \A k \in i .. After(i, S) - 1 : Char(k) \in S
<1>1. PICK n : n = Len(fmt) + 1
  OBVIOUS
<1>2. Len(fmt) \in Nat /\ n \in Int /\ i \in Int /\ i <= n /\ n \notin DOMAIN fmt
  BY <1>1 DEF Text
<1>3. Char(n) = "NUL"
  BY <1>2 DEF Char
<1> DEFINE G == {k \in Int : Char(k) \in S}
<1>4. n \notin G
  BY <1>3
<1>5. PICK j \in i .. n : j \notin G /\ \A k \in i .. j - 1 : k \in G
  <2> HIDE DEF G
  <2> QED
    BY <1>2, <1>4, FirstPlace
<1>6. Char(j) \notin S /\ \A k \in i .. j - 1 : Char(k) \in S
  BY <1>2, <1>5
<1> HIDE DEF G
<1>7. \E k \in i .. Len(fmt) + 1 : Char(k) \notin S /\ \A x \in i .. k - 1 : Char(x) \in S
  BY <1>1, <1>6
<1> QED
  BY <1>7 DEF After

(* A number in a format *)
LEMMA DigitValueType ==
  ASSUME NEW c \in DigitChars
  PROVE  DigitValue(c) \in 0 .. 9
<1>1. PICK x \in 1 .. 10 : c = Digit[x]
  BY DEF DigitChars
<1>2. PICK d : d = x - 1
  OBVIOUS
<1>3. d \in 0 .. 9 /\ d + 1 = x
  BY <1>2
<1>4. \E e \in 0 .. 9 : Digit[e + 1] = c
  BY <1>1, <1>3
<1> QED
  BY <1>4 DEF DigitValue

Numbered(i, j, f) ==
  f = [k \in i - 1 .. j |-> IF k < i THEN 0 ELSE 10 * f[k - 1] + DigitValue(fmt[k])]

LEMMA NumberType ==
  ASSUME NEW i \in Int, NEW j \in Int, i - 1 <= j, \A k \in i .. j : fmt[k] \in DigitChars
  PROVE  Number(i, j) \in Nat
<1>1. PICK h : h = i - 1
  OBVIOUS
<1>2. h \in Int /\ h <= j /\ i = h + 1
  BY <1>1
<1>3. PICK G : G = [x \in (Nat \X (h + 1 .. j)) |-> 10 * x[1] + DigitValue(fmt[x[2]])]
  OBVIOUS
<1>4. ASSUME NEW m \in Nat, NEW k \in h + 1 .. j
      PROVE  /\ G[<<m, k>>] = 10 * m + DigitValue(fmt[k])
             /\ 10 * m + DigitValue(fmt[k]) \in Nat
  <2>1. <<m, k>> \in Nat \X (h + 1 .. j)
    OBVIOUS
  <2>2. fmt[k] \in DigitChars
    BY <1>2
  <2>3. DigitValue(fmt[k]) \in 0 .. 9
    BY <2>2, DigitValueType
  <2> QED
    BY <1>3, <2>1, <2>3
<1>5. G \in [Nat \X (h + 1 .. j) -> Nat]
  <2>1. ASSUME NEW x \in Nat \X (h + 1 .. j) PROVE 10 * x[1] + DigitValue(fmt[x[2]]) \in Nat
    <3>1. x[1] \in Nat /\ x[2] \in h + 1 .. j
      OBVIOUS
    <3> QED
      BY <1>4, <3>1
  <2> QED
    BY <1>3, <2>1
<1>6. PICK w \in [h .. j -> Nat] : Walk(w, h, j, 0, G)
  <2>1. 0 \in Nat
    OBVIOUS
  <2> QED
    BY <1>2, <1>5, <2>1, WalkExists
<1>7. ASSUME NEW k \in h .. j
      PROVE  w[k] = IF k < i THEN 0 ELSE 10 * w[k - 1] + DigitValue(fmt[k])
  <2>1. CASE k = h
    BY <1>2, <1>6, <2>1 DEF Walk
  <2>2. CASE k # h
    <3>1. k \in h + 1 .. j /\ k - 1 \in h .. j /\ ~(k < i)
      BY <1>2, <2>2
    <3>2. w[k] = G[<<w[k - 1], k>>] /\ w[k - 1] \in Nat
      BY <1>6, <3>1 DEF Walk
    <3> QED
      BY <1>4, <3>1, <3>2
  <2> QED
    BY <2>1, <2>2
<1>8. Numbered(i, j, w)
  <2>1. w = [k \in h .. j |-> w[k]]
    OBVIOUS
  <2> QED
    BY <1>1, <1>7, <2>1 DEF Numbered
<1>9. PICK c : c = CHOOSE f : Numbered(i, j, f)
  OBVIOUS
<1>10. Numbered(i, j, c) /\ Number(i, j) = c[j]
  BY <1>8, <1>9 DEF Number, Numbered
<1>11. \A k \in h .. j : c[k] = IF k < i THEN 0 ELSE 10 * c[k - 1] + DigitValue(fmt[k])
  <2>1. PICK d : d = c
    OBVIOUS
  <2>2. d = [k \in h .. j |-> IF k < i THEN 0 ELSE 10 * c[k - 1] + DigitValue(fmt[k])]
    BY <1>1, <1>10, <2>1 DEF Numbered
  <2> QED
    BY <2>1, <2>2
<1> DEFINE S == {k \in h .. j : c[k] \in Nat}
<1>12. h \in S
  <2>1. h \in h .. j /\ h < i
    BY <1>2
  <2> QED
    BY <1>11, <2>1
<1>13. ASSUME NEW k \in h + 1 .. j, k - 1 \in S PROVE k \in S
  <2>1. k \in h .. j /\ ~(k < i) /\ c[k - 1] \in Nat
    BY <1>2, <1>13
  <2>2. 10 * c[k - 1] + DigitValue(fmt[k]) \in Nat
    BY <1>4, <2>1
  <2> QED
    BY <1>11, <2>1, <2>2
<1>14. \A k \in h .. j : k \in S
  <2> HIDE DEF S
  <2> QED
    BY <1>2, <1>12, <1>13, Along
<1>15. j \in h .. j
  BY <1>2
<1> QED
  BY <1>10, <1>14, <1>15

(* Directive(i), part by part. *)
Parsed(i, w, d, n, m, c) ==
  /\ w = After(i, FlagChars)
  /\ d = IF Char(w) \in DigitChars THEN After(w, DigitChars) ELSE w
  /\ n = IF Char(d) = "." /\ Char(d + 1) = "-" THEN d + 2 ELSE d + 1
  /\ m = IF Char(d) # "." THEN d
         ELSE IF Char(n) \in DigitChars \ {"0"} THEN After(n, DigitChars)
         ELSE IF Char(d + 1) = "-" THEN Len(fmt) + 1 ELSE n
  /\ c = m + Len(Modifier(m))

LEMMA DirectiveIs ==
  ASSUME NEW i
  PROVE  \E w, d, n, m, c :
           /\ Parsed(i, w, d, n, m, c)
           /\ Directive(i) =
                [start |-> i - 1, flags |-> {fmt[k] : k \in i .. w - 1},
                 width |-> IF d > w THEN Number(w, d - 1) ELSE NONE,
                 precision |-> IF Char(d) # "." THEN NONE ELSE IF Char(d + 1) = "-" THEN 0 ELSE Number(n, m - 1),
                 known |-> Known(Char(c), Modifier(m)), conv |-> Char(c), modifier |-> Modifier(m),
                 end |-> c, value |-> NONE]
<1>1. PICK w : w = After(i, FlagChars)
  OBVIOUS
<1>2. PICK d : d = IF Char(w) \in DigitChars THEN After(w, DigitChars) ELSE w
  OBVIOUS
<1>3. PICK n : n = IF Char(d) = "." /\ Char(d + 1) = "-" THEN d + 2 ELSE d + 1
  OBVIOUS
<1>4. PICK m : m = IF Char(d) # "." THEN d
                   ELSE IF Char(n) \in DigitChars \ {"0"} THEN After(n, DigitChars)
                   ELSE IF Char(d + 1) = "-" THEN Len(fmt) + 1 ELSE n
  OBVIOUS
<1>5. PICK c : c = m + Len(Modifier(m))
  OBVIOUS
<1>6. Parsed(i, w, d, n, m, c)
  BY <1>1, <1>2, <1>3, <1>4, <1>5 DEF Parsed
<1>7. Directive(i) =
                [start |-> i - 1, flags |-> {fmt[k] : k \in i .. w - 1},
                 width |-> IF d > w THEN Number(w, d - 1) ELSE NONE,
                 precision |-> IF Char(d) # "." THEN NONE ELSE IF Char(d + 1) = "-" THEN 0 ELSE Number(n, m - 1),
                 known |-> Known(Char(c), Modifier(m)), conv |-> Char(c), modifier |-> Modifier(m),
                 end |-> c, value |-> NONE]
  BY <1>1, <1>2, <1>3, <1>4, <1>5 DEF Directive
<1> QED
  BY <1>6, <1>7

Conversions == Integer \cup Floats \cup {"n", "c", "s", "p"}

LEMMA Characters ==
  /\ "NUL" \notin FlagChars /\ "NUL" \notin DigitChars /\ "NUL" \notin Conversions
  /\ DigitChars = {"0", "1", "2", "3", "4", "5", "6", "7", "8", "9"}
<1>1. DigitChars = {"0", "1", "2", "3", "4", "5", "6", "7", "8", "9"}
  <2>1. 1 .. 10 = {1, 2, 3, 4, 5, 6, 7, 8, 9, 10}
    OBVIOUS
  <2>2. /\ Digit[1] = "0" /\ Digit[2] = "1" /\ Digit[3] = "2" /\ Digit[4] = "3" /\ Digit[5] = "4"
        /\ Digit[6] = "5" /\ Digit[7] = "6" /\ Digit[8] = "7" /\ Digit[9] = "8" /\ Digit[10] = "9"
    BY DEF Digit
  <2>3. DigitChars = {Digit[x] : x \in {1, 2, 3, 4, 5, 6, 7, 8, 9, 10}}
    BY <2>1 DEF DigitChars
  <2> QED
    BY <2>2, <2>3
<1>2. "NUL" \notin FlagChars
  BY DEF FlagChars
<1>3. "NUL" \notin Conversions
  BY DEF Conversions, Integer, Floats, Signed, Hex
<1> QED
  BY <1>1, <1>2, <1>3

(* A width or a precision *)
Given(n) == n \in Nat \cup {NONE}

LEMMA DirectiveType ==
  ASSUME fmt \in Text, NEW i \in 1 .. Len(fmt) + 1, NEW r, r = Directive(i)
  PROVE  /\ Given(r.width) /\ Given(r.precision) /\ r.start = i - 1
         /\ r.known => r.end \in 1 .. Len(fmt) /\ r.conv \in Conversions
<1>1. PICK w, d, n, m, c :
           /\ Parsed(i, w, d, n, m, c)
           /\ r =
                [start |-> i - 1, flags |-> {fmt[k] : k \in i .. w - 1},
                 width |-> IF d > w THEN Number(w, d - 1) ELSE NONE,
                 precision |-> IF Char(d) # "." THEN NONE ELSE IF Char(d + 1) = "-" THEN 0 ELSE Number(n, m - 1),
                 known |-> Known(Char(c), Modifier(m)), conv |-> Char(c), modifier |-> Modifier(m),
                 end |-> c, value |-> NONE]
  BY DirectiveIs
<1>2. Len(fmt) \in Nat /\ DOMAIN fmt = 1 .. Len(fmt)
  BY DEF Text
<1>3. w \in 1 .. Len(fmt) + 1
  <2>1. w = After(i, FlagChars)
    BY <1>1 DEF Parsed
  <2>2. w \in i .. Len(fmt) + 1
    BY <2>1, AfterIs, Characters
  <2> QED
    BY <2>2
<1>4. d \in w .. Len(fmt) + 1 /\ \A k \in w .. d - 1 : Char(k) \in DigitChars
  <2>1. CASE Char(w) \in DigitChars
    <3>1. d = After(w, DigitChars)
      BY <1>1, <2>1 DEF Parsed
    <3> QED
      BY <1>3, <3>1, AfterIs, Characters
  <2>2. CASE Char(w) \notin DigitChars
    <3>1. d = w
      BY <1>1, <2>2 DEF Parsed
    <3> QED
      BY <1>2, <1>3, <3>1
  <2> QED
    BY <2>1, <2>2
<1>5. \A k \in 1 .. Len(fmt) : Char(k) = fmt[k]
  BY <1>2 DEF Char
<1>6. Given(r.width)
  <2>1. r.width = IF d > w THEN Number(w, d - 1) ELSE NONE
    BY <1>1
  <2>2. \A k \in w .. d - 1 : fmt[k] \in DigitChars
    <3>1. ASSUME NEW k \in w .. d - 1 PROVE fmt[k] \in DigitChars
      <4>1. k \in 1 .. Len(fmt)
        BY <1>2, <1>3, <1>4
      <4> QED
        BY <1>4, <1>5, <4>1
    <3> QED
      BY <3>1
  <2>3. w \in Int /\ d - 1 \in Int /\ w - 1 <= d - 1
    BY <1>2, <1>3, <1>4
  <2>4. Number(w, d - 1) \in Nat
    BY <2>2, <2>3, NumberType
  <2> QED
    BY <2>1, <2>4 DEF Given
<1>7. Given(r.precision)
  <2>1. r.precision = IF Char(d) # "." THEN NONE ELSE IF Char(d + 1) = "-" THEN 0 ELSE Number(n, m - 1)
    BY <1>1
  <2>2. CASE Char(d) = "." /\ Char(d + 1) # "-"
    <3>1. n = d + 1 /\ m = IF Char(n) \in DigitChars \ {"0"} THEN After(n, DigitChars) ELSE n
      BY <1>1, <2>2 DEF Parsed
    <3>2. d \in DOMAIN fmt
      BY <2>2 DEF Char
    <3>3. n \in 1 .. Len(fmt) + 1
      BY <1>2, <3>1, <3>2
    <3>4. m \in n .. Len(fmt) + 1 /\ \A k \in n .. m - 1 : Char(k) \in DigitChars
      <4>1. CASE m = After(n, DigitChars)
        BY <3>3, <4>1, AfterIs, Characters
      <4>2. CASE m = n
        BY <1>2, <3>3, <4>2
      <4> QED
        BY <3>1, <4>1, <4>2
    <3>5. \A k \in n .. m - 1 : fmt[k] \in DigitChars
      <4>1. ASSUME NEW k \in n .. m - 1 PROVE fmt[k] \in DigitChars
        <5>1. k \in 1 .. Len(fmt)
          BY <1>2, <3>3, <3>4
        <5> QED
          BY <1>5, <3>4, <5>1
      <4> QED
        BY <4>1
    <3>6. n \in Int /\ m - 1 \in Int /\ n - 1 <= m - 1
      BY <1>2, <3>3, <3>4
    <3>7. Number(n, m - 1) \in Nat
      BY <3>5, <3>6, NumberType
    <3> QED
      BY <2>1, <2>2, <3>7 DEF Given
  <2> QED
    BY <2>1, <2>2 DEF Given
<1>8. r.start = i - 1 /\ r.end = c /\ r.conv = Char(c)
  BY <1>1
<1>9. ASSUME r.known PROVE r.end \in 1 .. Len(fmt) /\ r.conv \in Conversions
  <2>1. Known(Char(c), Modifier(m))
    BY <1>1, <1>9
  <2>2. Char(c) \in Conversions
    BY <2>1 DEF Known, Conversions, Integer
  <2>3. Char(c) # "NUL"
    BY <2>2, Characters
  <2>4. c \in DOMAIN fmt
    BY <2>3 DEF Char
  <2> QED
    BY <1>2, <1>8, <2>2, <2>4
<1> QED
  BY <1>6, <1>7, <1>8, <1>9

-----------------------------------------------------------------------------
(* The text of an item *)

LEMMA FillType ==
  ASSUME NEW c \in Character, NEW n \in Int
  PROVE  /\ Fill(c, n) \in Text /\ Len(Fill(c, n)) = Larger(0, n)
         /\ n <= 0 => Fill(c, n) = <<>>
<1>1. PICK m : m = Larger(0, n)
  OBVIOUS
<1>2. m \in Nat /\ 1 .. n = 1 .. m
  BY <1>1 DEF Larger
<1>3. Fill(c, n) \in [1 .. m -> Character]
  BY <1>2 DEF Fill
<1>4. Fill(c, n) \in Text
  BY <1>2, <1>3, SeqDef DEF Text
<1>5. Len(Fill(c, n)) = m
  BY <1>2, <1>3, <1>4 DEF Text
<1>6. n <= 0 => Fill(c, n) = <<>>
  <2>1. ASSUME n <= 0 PROVE Fill(c, n) = <<>>
    <3>1. m = 0
      BY <1>1, <2>1 DEF Larger
    <3> QED
      BY <1>4, <1>5, <3>1, EmptySeq DEF Text
  <2> QED
    BY <2>1
<1> QED
  BY <1>1, <1>4, <1>5, <1>6

Bases == {8, 10, 16}
Put(D, k, base) ==
  IF k < base THEN <<Digit[k + 1]>> ELSE Append(D[k \div base], Digit[(k % base) + 1])
Puts(n, base, D) == D = [k \in 0 .. n |-> Put(D, k, base)]

LEMMA Divided ==
  ASSUME NEW base \in Bases, NEW k \in Nat, k >= base
  PROVE  k \div base \in 0 .. k - 1
<1>1. CASE base = 8
  BY <1>1
<1>2. CASE base = 10
  BY <1>2
<1>3. CASE base = 16
  BY <1>3
<1> QED
  BY <1>1, <1>2, <1>3 DEF Bases

LEMMA DigitType ==
  ASSUME NEW base \in Bases, NEW k \in Nat
  PROVE  /\ Digit[(k % base) + 1] \in Character
         /\ k < base => Digit[k + 1] \in Character
<1>1. \A x \in 1 .. 16 : Digit[x] \in Character
  BY Literals
<1>2. (k % base) + 1 \in 1 .. 16
  BY DEF Bases
<1>3. k < base => k + 1 \in 1 .. 16
  BY DEF Bases
<1> QED
  BY <1>1, <1>2, <1>3

(* The digits of a number are those of its quotient and one more. *)
LEMMA PutType ==
  ASSUME NEW base \in Bases, NEW k \in Nat, NEW D, \A x \in 0 .. k - 1 : D[x] \in Text
  PROVE  Put(D, k, base) \in Text
<1>1. CASE k < base
  <2>1. PICK c : c = Digit[k + 1]
    OBVIOUS
  <2>2. c \in Character
    BY <1>1, <2>1, DigitType
  <2>3. <<c>> \in Text
    BY <2>2 DEF Text
  <2> QED
    BY <1>1, <2>1, <2>3 DEF Put
<1>2. CASE ~(k < base)
  <2>1. k >= base
    BY <1>2 DEF Bases
  <2>2. D[k \div base] \in Text
    BY <2>1, Divided
  <2>3. PICK c : c = Digit[(k % base) + 1]
    OBVIOUS
  <2>4. c \in Character
    BY <2>3, DigitType
  <2>5. Append(D[k \div base], c) \in Text
    BY <2>2, <2>4 DEF Text
  <2> QED
    BY <1>2, <2>3, <2>5 DEF Put
<1> QED
  BY <1>1, <1>2

LEMMA PutsExist ==
  ASSUME NEW base \in Bases, NEW n \in Nat
  PROVE  \E D : Puts(n, base, D)
<1> DEFINE G == {k \in 0 .. n : \E D : Puts(k, base, D)}
<1>1. 0 \in G
  <2>1. PICK d : d = [k \in 0 .. 0 |-> <<Digit[k + 1]>>]
    OBVIOUS
  <2>2. \A k \in 0 .. 0 : Put(d, k, base) = <<Digit[k + 1]>>
    BY DEF Put, Bases
  <2>3. Puts(0, base, d)
    BY <2>1, <2>2 DEF Puts
  <2> QED
    BY <2>3
<1>2. ASSUME NEW k \in 1 .. n, k - 1 \in G PROVE k \in G
  <2>1. PICK h : h = k - 1
    OBVIOUS
  <2>2. h \in Nat /\ k = h + 1
    BY <2>1
  <2>3. PICK d : Puts(h, base, d)
    BY <1>2, <2>1
  <2>4. \A x \in 0 .. h : d[x] = Put(d, x, base)
    <3>1. PICK e : e = d
      OBVIOUS
    <3>2. e = [x \in 0 .. h |-> Put(d, x, base)]
      BY <2>3, <3>1 DEF Puts
    <3> QED
      BY <3>1, <3>2
  <2>5. PICK last : last = Put(d, k, base)
    OBVIOUS
  <2>6. PICK e : e = [x \in 0 .. k |-> IF x = k THEN last ELSE d[x]]
    OBVIOUS
  <2>7. ASSUME NEW x \in 0 .. k PROVE e[x] = Put(e, x, base)
    <3>1. Put(e, x, base) = Put(d, x, base)
      <4>1. CASE x < base
        BY <4>1 DEF Put
      <4>2. CASE ~(x < base)
        <5>1. PICK y : y = x \div base
          OBVIOUS
        <5>2. x \in Nat /\ x >= base
          BY <4>2 DEF Bases
        <5>3. y \in 0 .. x - 1
          BY <5>1, <5>2, Divided
        <5>4. y \in 0 .. k /\ y # k
          BY <2>2, <5>2, <5>3
        <5>5. e[y] = d[y]
          BY <2>6, <5>4
        <5> QED
          BY <4>2, <5>1, <5>5 DEF Put
      <4> QED
        BY <4>1, <4>2
    <3>2. CASE x = k
      BY <2>5, <2>6, <3>1, <3>2
    <3>3. CASE x # k
      <4>1. x \in 0 .. h
        BY <2>2, <3>3
      <4> QED
        BY <2>4, <2>6, <3>1, <3>3, <4>1
    <3> QED
      BY <3>2, <3>3
  <2>8. Puts(k, base, e)
    <3>1. e = [x \in 0 .. k |-> e[x]]
      BY <2>6
    <3> QED
      BY <2>7, <3>1 DEF Puts
  <2> QED
    BY <2>8
<1>3. \A k \in 0 .. n : k \in G
  <2> HIDE DEF G
  <2> QED
    BY <1>1, <1>2, Upto
<1>4. n \in 0 .. n
  OBVIOUS
<1> QED
  BY <1>3, <1>4

LEMMA DigitsType ==
  ASSUME NEW base \in Bases, NEW n \in Nat
  PROVE  Digits(n, base) \in Text
<1>1. PICK D : D = CHOOSE d : Puts(n, base, d)
  OBVIOUS
<1>2. Puts(n, base, D)
  BY <1>1, PutsExist
<1>3. Digits(n, base) = D[n]
  BY <1>1 DEF Digits, Puts, Put
<1>4. \A k \in 0 .. n : D[k] = Put(D, k, base)
  <2>1. PICK e : e = D
    OBVIOUS
  <2>2. e = [x \in 0 .. n |-> Put(D, x, base)]
    BY <1>2, <2>1 DEF Puts
  <2> QED
    BY <2>1, <2>2
<1> DEFINE G == {k \in 0 .. n : \A x \in 0 .. k : D[x] \in Text}
<1>5. 0 \in G
  <2>1. \A x \in 0 .. 0 - 1 : D[x] \in Text
    OBVIOUS
  <2>2. Put(D, 0, base) \in Text
    BY <2>1, PutType
  <2>3. D[0] \in Text
    BY <1>4, <2>2
  <2> QED
    BY <2>3
<1>6. ASSUME NEW k \in 1 .. n, k - 1 \in G PROVE k \in G
  <2>1. k \in Nat /\ \A x \in 0 .. k - 1 : D[x] \in Text
    BY <1>6
  <2>2. Put(D, k, base) \in Text
    BY <2>1, PutType
  <2>3. D[k] \in Text
    BY <1>4, <2>2
  <2>4. \A x \in 0 .. k : x = k \/ x \in 0 .. k - 1
    OBVIOUS
  <2> QED
    BY <2>1, <2>3, <2>4
<1>7. \A k \in 0 .. n : k \in G
  <2> HIDE DEF G
  <2> QED
    BY <1>5, <1>6, Upto
<1>8. n \in G
  <2>1. n \in 0 .. n
    OBVIOUS
  <2> QED
    BY <1>7, <2>1
<1> QED
  BY <1>3, <1>8

(* What the first walk puts into the list *)
Fields(i) ==
  i = [start |-> i.start, flags |-> i.flags, width |-> i.width, precision |-> i.precision,
       known |-> i.known, conv |-> i.conv, modifier |-> i.modifier, end |-> i.end,
       value |-> i.value]
ItemOk(i) ==
  /\ Fields(i)
  /\ Given(i.width) /\ Given(i.precision)
  /\ i.start \in 1 .. Len(fmt) /\ i.end \in 1 .. Len(fmt)
  /\ i.conv \in Conversions
  /\ i.conv \in Integer \cup {"p"} => i.value \in Numbers
  /\ i.conv \in Floats => i.value \in FloatTexts
  /\ i.conv = "s" => i.value \in Texts
  /\ i.conv = "c" => i.value \in Character

LEMMA NumberTypes ==
  ASSUME NEW v \in Numbers, NEW i
  PROVE  v \in Nat /\ AsSigned(v) \in Int /\ Value(i, v) \in Int /\ Abs_(Value(i, v)) \in Nat
<1>1. v \in Nat /\ INT_MAX \in Nat
  BY PrintfAssumption
<1>2. AsSigned(v) \in Int
  BY <1>1 DEF AsSigned
<1>3. Abs_(AsSigned(v)) \in Nat
  BY <1>2 DEF Abs_
<1>4. Value(i, v) \in Int
  BY <1>1, <1>2, <1>3 DEF Value
<1>5. Abs_(Value(i, v)) \in Nat
  BY <1>4 DEF Abs_
<1> QED
  BY <1>1, <1>2, <1>4, <1>5

LEMMA BaseType ==
  ASSUME NEW c
  PROVE  Base(c) \in Bases
BY DEF Base, Bases

LEMMA SignType ==
  ASSUME NEW i, NEW v
  PROVE  Sign(i, v) \in Text
<1>1. <<"-">> \in Text /\ <<" ">> \in Text /\ <<"+">> \in Text /\ <<>> \in Text
  <2>1. <<>> \in Text
    BY DEF Text
  <2> QED
    BY <2>1, Literals, Single, Zenon
<1> QED
  BY <1>1 DEF Sign

(* A number is written into at most the room counted for it. *)
LEMMA IntWritten ==
  ASSUME NEW i, Given(i.width), Given(i.precision), NEW v \in Numbers
  PROVE  /\ IntNeeded(i, v) \in Nat
         /\ preformat_int_number(i, v) \in Text
         /\ Len(preformat_int_number(i, v)) <= IntNeeded(i, v)
<1>1. PICK s : s = Sign(i, v)
  OBVIOUS
<1>2. PICK d : d = Digits(Abs_(Value(i, v)), Base(i.conv))
  OBVIOUS
<1>3. s \in Text
  BY <1>1, SignType
<1>4. Abs_(Value(i, v)) \in Nat /\ Value(i, v) \in Int
  BY NumberTypes
<1>5. d \in Text
  <2>1. PICK a, b : a = Abs_(Value(i, v)) /\ b = Base(i.conv)
    OBVIOUS
  <2>2. a \in Nat /\ b \in Bases
    BY <1>4, <2>1, BaseType
  <2> QED
    BY <1>2, <2>1, <2>2, DigitsType
<1>6. PICK x, y : x = Len(s) /\ y = Len(d)
  OBVIOUS
<1>7. x \in Nat /\ y \in Nat
  BY <1>3, <1>5, <1>6 DEF Text
<1>8. IntNeeded(i, v) = Larger(Larger(x + y, i.width), i.precision)
  BY <1>1, <1>2, <1>6 DEF IntNeeded
<1>9. i.width \in Int /\ i.precision \in Int
  BY DEF Given, NONE
<1>10. IntNeeded(i, v) \in Nat /\ x + y <= IntNeeded(i, v)
  BY <1>7, <1>8, <1>9 DEF Larger
<1>11. PICK z : z = IF "0" \in i.flags /\ Value(i, v) >= 0 THEN IntNeeded(i, v) - x - y ELSE 0
  OBVIOUS
<1>12. z \in Nat /\ x + z + y <= IntNeeded(i, v)
  BY <1>7, <1>10, <1>11
<1>13. preformat_int_number(i, v) = (s \o Fill("0", z)) \o d
  BY <1>1, <1>2, <1>6, <1>11 DEF preformat_int_number
<1>14. PICK f : f = Fill("0", z)
  OBVIOUS
<1>15. f \in Text /\ Len(f) = z
  <2>1. z \in Int /\ Larger(0, z) = z
    BY <1>12 DEF Larger
  <2> QED
    BY <1>14, <2>1, FillType, Literals
<1>16. (s \o f) \o d \in Text /\ Len((s \o f) \o d) = x + z + y
  BY <1>3, <1>5, <1>6, <1>7, <1>12, <1>15 DEF Text
<1> QED
  BY <1>10, <1>12, <1>13, <1>14, <1>16

(* The first n characters of a text *)
LEMMA CutType ==
  ASSUME NEW s \in Text, NEW n \in 0 .. Len(s)
  PROVE  /\ SubSeq(s, 1, n) \in Text /\ Len(SubSeq(s, 1, n)) = n
         /\ n = Len(s) => SubSeq(s, 1, n) = s
BY DEF Text

(* Room is counted for all that is written, but for a string that is wider *)
(* than its precision.                                                     *)
LEMMA RoomForItem ==
  ASSUME NEW i, ItemOk(i)
  PROVE  /\ Written(i) \in Text /\ Needed(i, i.value) \in Nat
         /\ ~Overruns(i) => Len(Written(i)) <= Needed(i, i.value)
<1>1. PICK w, r, v : w = i.width /\ r = i.precision /\ v = i.value
  OBVIOUS
<1>2. w \in Nat \cup {NONE} /\ r \in Nat \cup {NONE}
  BY <1>1 DEF ItemOk, Given
<1>3. CASE i.conv \in Integer \cup {"p"}
  <2>1. v \in Numbers /\ Given(i.width) /\ Given(i.precision)
    BY <1>1, <1>3 DEF ItemOk
  <2>2. Written(i) = preformat_int_number(i, v) /\ Needed(i, v) = IntNeeded(i, v)
    BY <1>1, <1>3 DEF Written, Needed
  <2> QED
    BY <1>1, <2>1, <2>2, IntWritten
<1>4. CASE i.conv \in Floats /\ i.conv \notin Integer \cup {"p"}
  <2>1. v \in Text
    BY <1>1, <1>4, PrintfAssumption, InText DEF ItemOk
  <2>2. Written(i) = v /\ Needed(i, v) = Len(v)
    BY <1>1, <1>4 DEF Written, Needed
  <2>3. Len(v) \in Nat
    BY <2>1 DEF Text
  <2> QED
    BY <1>1, <2>1, <2>2, <2>3
<1>5. CASE i.conv = "c"
  <2>1. i.conv \notin Integer \cup {"p"} /\ i.conv \notin Floats /\ v \in Character
    BY <1>1, <1>5 DEF Integer, Floats, Signed, Hex, ItemOk
  <2>2. PICK m : m = Larger(0, w - 1)
    OBVIOUS
  <2>3. Written(i) = Fill(" ", m) \o <<v>> /\ Needed(i, v) = Larger(1, w)
    BY <1>1, <1>5, <2>1, <2>2 DEF Written, Needed
  <2>4. m \in Nat /\ Larger(0, m) = m /\ Larger(1, w) = m + 1
    BY <1>2, <2>2 DEF Larger, NONE
  <2>5. PICK f : f = Fill(" ", m)
    OBVIOUS
  <2>6. f \in Text /\ Len(f) = m
    <3>1. m \in Int
      BY <2>4
    <3> QED
      BY <2>4, <2>5, <3>1, FillType, Literals, Zenon
  <2>7. f \o <<v>> \in Text /\ Len(f \o <<v>>) = m + 1
    BY <2>1, <2>4, <2>6 DEF Text
  <2>8. Written(i) \in Text /\ Len(Written(i)) = m + 1
    BY <2>3, <2>5, <2>7
  <2>9. Needed(i, i.value) = m + 1
    BY <1>1, <2>3, <2>4
  <2>10. m + 1 \in Nat /\ m + 1 <= m + 1
    BY <2>4
  <2> QED
    BY <2>8, <2>9, <2>10
<1>6. CASE i.conv = "n"
  <2>1. i.conv \notin Integer \cup {"p"} /\ i.conv \notin Floats /\ i.conv # "c"
    BY <1>6 DEF Integer, Floats, Signed, Hex
  <2>2. Written(i) = <<>> /\ Needed(i, v) = 0
    BY <1>6, <2>1 DEF Written, Needed
  <2>3. <<>> \in Text
    BY DEF Text
  <2> QED
    BY <1>1, <2>2, <2>3
<1>7. CASE i.conv = "s"
  <2>1. /\ i.conv \notin Integer \cup {"p"} /\ i.conv \notin Floats /\ i.conv # "c" /\ i.conv # "n"
        /\ v \in Text
    BY <1>1, <1>7, PrintfAssumption, InText DEF Integer, Floats, Signed, Hex, ItemOk
  <2>2. PICK len : len = Len(v)
    OBVIOUS
  <2>3. len \in Nat
    BY <2>1, <2>2 DEF Text
  <2>4. PICK use : use = IF r = NONE THEN len ELSE Lesser(len, r)
    OBVIOUS
  <2>5. use \in 0 .. len
    BY <1>2, <2>3, <2>4 DEF Lesser
  <2>6. PICK m : m = Larger(0, w - use)
    OBVIOUS
  <2>7. m \in Nat /\ Larger(0, m) = m
    BY <1>2, <2>5, <2>6 DEF Larger, NONE
  <2>8. Written(i) = Fill(" ", m) \o SubSeq(v, 1, use)
    BY <1>1, <1>7, <2>1, <2>2, <2>4, <2>6 DEF Written
  <2>9. Needed(i, v) = IF r = NONE THEN Larger(len, w) ELSE Lesser(Larger(len, w), r)
    BY <1>1, <1>7, <2>1, <2>2 DEF Needed
  <2>10. PICK f, t : f = Fill(" ", m) /\ t = SubSeq(v, 1, use)
    OBVIOUS
  <2>11. f \in Text /\ Len(f) = m
    <3>1. m \in Int
      BY <2>7
    <3> QED
      BY <2>7, <2>10, <3>1, FillType, Literals, Zenon
  <2>12. t \in Text /\ Len(t) = use
    BY <2>1, <2>2, <2>5, <2>10, CutType
  <2>13. f \o t \in Text /\ Len(f \o t) = m + use
    BY <2>5, <2>7, <2>11, <2>12 DEF Text
  <2>14. Needed(i, v) \in Nat
    BY <1>2, <2>3, <2>9 DEF Larger, Lesser, NONE
  <2>15. ASSUME ~Overruns(i) PROVE m + use <= Needed(i, v)
    <3>1. r = NONE \/ w <= r
      BY <1>1, <1>2, <1>7, <2>15 DEF Overruns, NONE
    <3>2. CASE r = NONE
      BY <1>2, <2>3, <2>4, <2>6, <2>9, <3>2 DEF Larger, NONE
    <3>3. CASE r # NONE
      <4>1. r \in Nat /\ w <= r /\ w \in Int
        BY <1>2, <3>1, <3>3 DEF NONE
      <4>2. use = Lesser(len, r) /\ Needed(i, v) = Lesser(Larger(len, w), r)
        BY <2>4, <2>9, <3>3
      <4> QED
        BY <2>3, <2>6, <4>1, <4>2 DEF Larger, Lesser
    <3> QED
      BY <3>2, <3>3
  <2> QED
    BY <1>1, <2>8, <2>10, <2>13, <2>14, <2>15
<1> QED
  BY <1>3, <1>4, <1>5, <1>6, <1>7 DEF ItemOk, Conversions

(* Without its width a number needs its sign and its digits. *)
LEMMA NarrowNeeded ==
  ASSUME NEW i, Fields(i), Given(i.width), i.precision = NONE, NEW v \in Numbers,
         NEW x \in Nat, NEW y \in Nat, x = Len(Sign(i, v)),
         y = Len(Digits(Abs_(Value(i, v)), Base(i.conv)))
  PROVE  /\ IntNeeded([i EXCEPT !.width = NONE], v) = x + y
         /\ IntNeeded(i, v) = Larger(x + y, i.width)
<1>1. PICK e : e = [i EXCEPT !.width = NONE]
  OBVIOUS
<1>2. /\ e.flags = i.flags /\ e.conv = i.conv /\ e.modifier = i.modifier
      /\ e.precision = NONE /\ e.width = NONE
  BY <1>1 DEF Fields
<1>3. Value(e, v) = Value(i, v)
  BY <1>2 DEF Value
<1>4. Sign(e, v) = Sign(i, v)
  BY <1>2, <1>3 DEF Sign
<1>5. IntNeeded(e, v) = Larger(Larger(x + y, NONE), NONE)
  BY <1>2, <1>3, <1>4 DEF IntNeeded
<1>6. IntNeeded(i, v) = Larger(Larger(x + y, i.width), NONE)
  BY DEF IntNeeded
<1>7. Larger(Larger(x + y, NONE), NONE) = x + y
  BY DEF Larger, NONE
<1>8. Larger(Larger(x + y, i.width), NONE) = Larger(x + y, i.width)
  BY DEF Larger, NONE, Given
<1> QED
  BY <1>1, <1>5, <1>6, <1>7, <1>8

(* For the directives that the code does as C does, a number has the same text. *)
LEMMA IntSame ==
  ASSUME NEW i, ItemOk(i), Supported(i), i.conv \in Integer
  PROVE  Written(i) = CText(i)
<1>1. PICK v, V : v = i.value /\ V = Value(i, i.value)
  OBVIOUS
<1>2. v \in Numbers /\ Given(i.width) /\ Fields(i) /\ i.precision = NONE
  BY <1>1 DEF ItemOk, Supported
<1>3. v \in Nat /\ V \in Int /\ Abs_(V) \in Nat /\ INT_MAX \in Nat
  BY <1>1, <1>2, NumberTypes, PrintfAssumption
<1>4. PICK n : n = IF i.conv \in Signed THEN AsSigned(v) ELSE v
  OBVIOUS
<1>5. n = V
  <2>1. CASE i.conv \notin Signed
    BY <1>1, <1>4, <2>1 DEF Supported
  <2>2. CASE i.conv \in Signed /\ i.modifier # <<"z">>
    BY <1>1, <1>4, <2>2 DEF Value
  <2>3. CASE i.conv \in Signed /\ i.modifier = <<"z">>
    <3>1. V = v
      BY <1>1, <2>3 DEF Value
    <3>2. v <= INT_MAX
      BY <1>1, <2>3 DEF Supported
    <3>3. AsSigned(v) = v
      BY <1>3, <3>2 DEF AsSigned
    <3> QED
      BY <1>4, <2>3, <3>1, <3>3
  <2> QED
    BY <2>1, <2>2, <2>3
<1>6. PICK plus : plus = IF n < 0 THEN <<"-">> ELSE IF "+" \in i.flags THEN <<"+">>
                         ELSE IF " " \in i.flags THEN <<" ">> ELSE <<>>
  OBVIOUS
<1>7. PICK s, c : s = Sign(i, v) /\ c = IF i.conv \in Signed THEN plus ELSE <<>>
  OBVIOUS
<1>8. s = IF V < 0 THEN <<"-">> ELSE IF " " \in i.flags THEN <<" ">>
          ELSE IF "+" \in i.flags THEN <<"+">> ELSE <<>>
  BY <1>1, <1>7 DEF Sign
<1>9. s = c
  <2>1. CASE i.conv \notin Signed
    <3>1. " " \notin i.flags /\ "+" \notin i.flags /\ V = v
      BY <1>1, <2>1 DEF Supported
    <3>2. ~(V < 0)
      <4>1. V = v
        BY <3>1
      <4> QED
        BY <1>3, <4>1
    <3> QED
      BY <1>7, <1>8, <2>1, <3>1, <3>2
  <2>2. CASE i.conv \in Signed
    <3>1. ~(V < 0) => " " \notin i.flags \/ "+" \notin i.flags
      BY <1>1 DEF Supported
    <3> QED
      BY <1>5, <1>6, <1>7, <1>8, <2>2, <3>1
  <2> QED
    BY <2>1, <2>2
<1>10. PICK d : d = Digits(Abs_(V), Base(i.conv))
  OBVIOUS
<1>11. s \in Text
  BY <1>7, SignType
<1>12. d \in Text
  <2>1. PICK a, b : a = Abs_(V) /\ b = Base(i.conv)
    OBVIOUS
  <2>2. a \in Nat /\ b \in Bases
    BY <1>3, <2>1, BaseType
  <2> QED
    BY <1>10, <2>1, <2>2, DigitsType
<1>13. PICK x, y, w : x = Len(s) /\ y = Len(d) /\ w = i.width
  OBVIOUS
<1>14. x \in Nat /\ y \in Nat /\ w \in Int
  BY <1>2, <1>11, <1>12, <1>13 DEF Text, Given, NONE
<1>15. IntNeeded([i EXCEPT !.width = NONE], v) = x + y /\ IntNeeded(i, v) = Larger(x + y, w)
  <2>1. x = Len(Sign(i, v)) /\ y = Len(Digits(Abs_(Value(i, v)), Base(i.conv)))
    BY <1>1, <1>7, <1>10, <1>13
  <2> QED
    BY <1>2, <1>13, <1>14, <2>1, NarrowNeeded
<1>16. w > x + y => "0" \in i.flags /\ V >= 0
  BY <1>1, <1>13, <1>15 DEF Supported
<1>17. PICK z, room : /\ z = IF "0" \in i.flags /\ V >= 0 THEN IntNeeded(i, v) - x - y ELSE 0
                      /\ room = Larger(0, w - x - y)
  OBVIOUS
<1>18. "0" \in i.flags => z = room
  BY <1>3, <1>14, <1>15, <1>16, <1>17 DEF Larger
<1>19. "0" \notin i.flags => z = 0 /\ room = 0
  BY <1>14, <1>16, <1>17 DEF Larger
<1>20. Written(i) = (s \o Fill("0", z)) \o d
  <2>1. Written(i) = preformat_int_number(i, v)
    BY <1>1 DEF Written
  <2> QED
    BY <1>1, <1>7, <1>10, <1>13, <1>17, <2>1 DEF preformat_int_number
<1>21. CText(i) = Padded(i, s, d)
  <2>1. CText(i) = Padded(i, c, Digits(Abs_(n), Base(i.conv)))
    BY <1>1, <1>4, <1>6, <1>7 DEF CText
  <2> QED
    BY <1>5, <1>9, <1>10, <2>1
<1>22. "-" \notin i.flags
  BY DEF Supported
<1>23. Padded(i, s, d) = IF "0" \in i.flags THEN (s \o Fill("0", room)) \o d
                         ELSE (Fill(" ", room) \o s) \o d
  BY <1>13, <1>17, <1>22 DEF Padded
<1>24. CASE "0" \in i.flags
  BY <1>18, <1>20, <1>21, <1>23, <1>24
<1>25. CASE "0" \notin i.flags
  <2>1. 0 \in Int /\ 0 <= 0
    OBVIOUS
  <2>2. Fill("0", 0) = <<>> /\ Fill(" ", 0) = <<>>
    BY <2>1, FillType, Literals, Zenon
  <2>3. s \o <<>> = s /\ <<>> \o s = s
    BY <1>11 DEF Text
  <2> QED
    BY <1>19, <1>20, <1>21, <1>23, <1>25, <2>2, <2>3
<1> QED
  BY <1>24, <1>25

LEMMA Same ==
  ASSUME NEW i, ItemOk(i), Supported(i)
  PROVE  Written(i) = CText(i)
<1>1. CASE i.conv \in Integer
  BY <1>1, IntSame
<1>2. "-" \notin i.flags
  BY DEF Supported
<1>3. CASE i.conv = "s"
  <2>1. /\ i.conv \notin Integer \cup {"p"} /\ i.conv \notin Floats /\ i.conv # "c" /\ i.conv # "n"
        /\ i.value \in Text /\ "0" \notin i.flags
    BY <1>3, PrintfAssumption, InText DEF Integer, Floats, Signed, Hex, ItemOk, Supported
  <2>2. PICK w, r, v, len : w = i.width /\ r = i.precision /\ v = i.value /\ len = Len(i.value)
    OBVIOUS
  <2>3. len \in Nat /\ w \in Int /\ r \in Nat \cup {NONE}
    BY <2>1, <2>2 DEF Text, ItemOk, Given, NONE
  <2>4. PICK use : use = IF r = NONE THEN len ELSE Lesser(len, r)
    OBVIOUS
  <2>5. use \in 0 .. len
    BY <2>3, <2>4 DEF Lesser
  <2>6. PICK t : t = SubSeq(v, 1, use)
    OBVIOUS
  <2>7. t \in Text /\ Len(t) = use /\ (r = NONE => t = v)
    BY <2>1, <2>2, <2>4, <2>5, <2>6, CutType
  <2>8. Written(i) = Fill(" ", Larger(0, w - use)) \o t
    BY <1>3, <2>1, <2>2, <2>4, <2>6 DEF Written
  <2>9. CText(i) = Padded(i, <<>>, t)
    <3>1. t = IF r = NONE THEN v ELSE SubSeq(v, 1, Lesser(len, r))
      BY <2>4, <2>6, <2>7
    <3> QED
      BY <1>3, <2>1, <2>2, <3>1 DEF CText
  <2>10. Padded(i, <<>>, t) = (Fill(" ", Larger(0, w - 0 - use)) \o <<>>) \o t
    BY <1>2, <2>1, <2>2, <2>7 DEF Padded
  <2>11. w - 0 - use = w - use
    BY <2>3, <2>5
  <2>12. PICK n : n = Larger(0, w - use)
    OBVIOUS
  <2>13. n \in Int
    BY <2>3, <2>5, <2>12 DEF Larger
  <2>14. PICK f : f = Fill(" ", n)
    OBVIOUS
  <2>15. f \in Text
    BY <2>13, <2>14, FillType, Literals, Zenon
  <2>16. f \o <<>> = f
    BY <2>15 DEF Text
  <2> QED
    BY <2>8, <2>9, <2>10, <2>11, <2>12, <2>14, <2>16
<1>4. CASE i.conv = "c"
  <2>1. /\ i.conv \notin Integer \cup {"p"} /\ i.conv \notin Floats /\ i.conv # "s"
        /\ "0" \notin i.flags /\ i.value \in Character
    BY <1>4 DEF Integer, Floats, Signed, Hex, Supported, ItemOk
  <2>2. PICK t, w : t = <<i.value>> /\ w = i.width
    OBVIOUS
  <2>3. Len(t) = 1 /\ w \in Int
    BY <2>1, <2>2, Single DEF ItemOk, Given, NONE
  <2>4. Written(i) = Fill(" ", Larger(0, w - 1)) \o t
    BY <1>4, <2>1, <2>2 DEF Written
  <2>5. CText(i) = Padded(i, <<>>, t)
    BY <1>4, <2>1, <2>2 DEF CText
  <2>6. Padded(i, <<>>, t) = (Fill(" ", Larger(0, w - 0 - 1)) \o <<>>) \o t
    BY <1>2, <2>1, <2>2, <2>3 DEF Padded
  <2>7. w - 0 - 1 = w - 1
    BY <2>3
  <2>8. PICK n : n = Larger(0, w - 1)
    OBVIOUS
  <2>9. n \in Int
    BY <2>3, <2>8 DEF Larger
  <2>10. PICK f : f = Fill(" ", n)
    OBVIOUS
  <2>11. f \in Text
    BY <2>9, <2>10, FillType, Literals, Zenon
  <2>12. f \o <<>> = f
    BY <2>11 DEF Text
  <2> QED
    BY <2>4, <2>5, <2>6, <2>7, <2>8, <2>10, <2>12
<1>5. CASE i.conv = "g"
  <2>1. i.conv \notin Integer \cup {"p"} /\ i.conv \in Floats /\ i.conv # "s" /\ i.conv # "c"
    BY <1>5 DEF Integer, Floats, Signed, Hex
  <2>2. Written(i) = i.value
    BY <2>1 DEF Written
  <2>3. CText(i) = i.value
    BY <2>1 DEF CText
  <2> QED
    BY <2>2, <2>3
<1> QED
  BY <1>1, <1>3, <1>4, <1>5 DEF Supported

-----------------------------------------------------------------------------
(* The two walks *)

(* What the first walk counts and what the second writes, item by item *)
Counts == [k \in 1 .. Len(items) |->
             Plain(From(k - 1), items[k].start) \o Fill(" ", Needed(items[k], items[k].value))]
Writes == [k \in 1 .. Len(items) |-> Plain(From(k - 1), items[k].start) \o Written(items[k])]
Rest == Plain(From(Len(items)), Len(fmt) + 1)
Total == Len(FlattenSeq(Counts)) + Len(Rest)
Whole == FlattenSeq(Writes) \o Rest

ItemsOk == Len(items) \in Nat /\ \A k \in 1 .. Len(items) : ItemOk(items[k])

Counting ==
  /\ From(Len(items)) <= p /\ Even(From(Len(items)), p)
  /\ sz = Len(FlattenSeq(Counts)) + Len(Plain(From(Len(items)), p))
Writing ==
  /\ sz = Total /\ next \in 1 .. Len(items) + 1 /\ p = From(next - 1)
  /\ out = FlattenSeq(First(Writes, next - 1))
Unwritten == out = <<>> /\ got = Nothing

TextInv ==
  /\ fmt \in Text /\ p \in 1 .. Len(fmt) + 1 /\ IsSeq(items) /\ ItemsOk /\ call.strings \subseteq Texts
  /\ pc = "count" => Counting /\ Unwritten /\ next = 1
  /\ pc = "allocate" => (sz = -1 \/ sz = Total) /\ Unwritten /\ next = 1
  /\ pc = "write" => Writing /\ got = Nothing
  /\ pc \in {"release", "return"} =>
       /\ sz = -1 \/ sz = Total
       /\ (got.rc = -1 /\ out = <<>>) \/ (got = Nothing /\ out = Whole)
  /\ pc = "end" /\ got.rc # -1 =>
       got.text = IF call.f = "snprintf" THEN SubSeq(Whole, 1, Lesser(Len(Whole), call.size - 1))
                  ELSE Whole

LEMMA FromType ==
  ASSUME fmt \in Text, ItemsOk, NEW k \in 0 .. Len(items)
  PROVE  From(k) \in 1 .. Len(fmt) + 1
<1>1. Len(fmt) \in Nat
  BY DEF Text
<1>2. CASE k = 0
  BY <1>1, <1>2 DEF From
<1>3. CASE k # 0
  <2>1. k \in 1 .. Len(items)
    BY <1>3 DEF ItemsOk
  <2>2. items[k].end \in 1 .. Len(fmt)
    BY <2>1 DEF ItemsOk, ItemOk
  <2> QED
    BY <1>1, <1>3, <2>2 DEF From
<1> QED
  BY <1>2, <1>3

(* Each part is a text, and room is counted for it. *)
LEMMA PartTypes ==
  ASSUME fmt \in Text, ItemsOk
  PROVE  /\ Counts \in [1 .. Len(items) -> Text] /\ Writes \in [1 .. Len(items) -> Text]
         /\ Rest \in Text
         /\ \A k \in 1 .. Len(items) :
              ~Overruns(items[k]) => Len(Writes[k]) <= Len(Counts[k])
         /\ \A k \in 1 .. Len(items) :
              Len(Counts[k]) = Len(Plain(From(k - 1), items[k].start))
                                 + Needed(items[k], items[k].value)
<1>1. Len(items) \in Nat /\ Len(fmt) \in Nat
  BY DEF ItemsOk, Text
<1>2. ASSUME NEW k \in 1 .. Len(items)
      PROVE  /\ Counts[k] \in Text /\ Writes[k] \in Text
             /\ ~Overruns(items[k]) => Len(Writes[k]) <= Len(Counts[k])
             /\ Len(Counts[k]) = Len(Plain(From(k - 1), items[k].start))
                                 + Needed(items[k], items[k].value)
  <2>1. ItemOk(items[k])
    BY DEF ItemsOk
  <2>2. k - 1 \in 0 .. Len(items)
    BY <1>1
  <2>3. PICK i, a : i = items[k] /\ a = From(k - 1)
    OBVIOUS
  <2>4. a \in 1 .. Len(fmt) + 1 /\ i.start \in 1 .. Len(fmt) + 1
    BY <1>1, <2>1, <2>2, <2>3, FromType DEF ItemOk
  <2>5. PICK t : t = Plain(a, i.start)
    OBVIOUS
  <2>6. t \in Text
    <3>1. PICK e : e = i.start
      OBVIOUS
    <3>2. e \in 1 .. Len(fmt) + 1
      BY <2>4, <3>1
    <3> QED
      BY <2>4, <2>5, <3>1, <3>2, PlainType
  <2>7. PICK u, n : u = Written(i) /\ n = Needed(i, i.value)
    OBVIOUS
  <2>8. u \in Text /\ n \in Nat /\ (~Overruns(i) => Len(u) <= n)
    BY <2>1, <2>3, <2>7, RoomForItem
  <2>9. PICK f : f = Fill(" ", n)
    OBVIOUS
  <2>10. f \in Text /\ Len(f) = n
    <3>1. n \in Int /\ Larger(0, n) = n
      BY <2>8 DEF Larger
    <3> QED
      BY <2>9, <3>1, FillType, Literals, Zenon
  <2>11. Counts[k] = t \o f /\ Writes[k] = t \o u
    BY <2>3, <2>5, <2>7, <2>9 DEF Counts, Writes
  <2>12. /\ t \o f \in Text /\ t \o u \in Text
         /\ Len(t \o f) = Len(t) + n /\ Len(t \o u) = Len(t) + Len(u)
         /\ Len(t) \in Nat /\ Len(u) \in Nat
    BY <2>6, <2>8, <2>10 DEF Text
  <2>13. ASSUME ~Overruns(items[k]) PROVE Len(Writes[k]) <= Len(Counts[k])
    <3>1. Len(u) <= n
      BY <2>3, <2>8, <2>13
    <3>2. Len(t) + Len(u) <= Len(t) + n
      BY <2>8, <2>12, <3>1
    <3> QED
      BY <2>11, <2>12, <3>2
  <2>14. Len(Counts[k]) = Len(Plain(From(k - 1), items[k].start)) + Needed(items[k], items[k].value)
    BY <2>3, <2>5, <2>7, <2>11, <2>12
  <2> QED
    BY <2>11, <2>12, <2>13, <2>14
<1>3. Counts \in [1 .. Len(items) -> Text] /\ Writes \in [1 .. Len(items) -> Text]
  BY <1>2 DEF Counts, Writes
<1>4. Rest \in Text
  <2>1. Len(items) \in 0 .. Len(items) /\ Len(fmt) + 1 \in 1 .. Len(fmt) + 1
    BY <1>1
  <2>2. PICK a, e : a = From(Len(items)) /\ e = Len(fmt) + 1
    OBVIOUS
  <2>3. a \in 1 .. Len(fmt) + 1 /\ e \in 1 .. Len(fmt) + 1
    BY <2>1, <2>2, FromType
  <2> QED
    BY <2>2, <2>3, PlainType DEF Rest
<1> QED
  BY <1>2, <1>3, <1>4

(* The text depends on the format and the items only. *)
LEMMA Unmoved ==
  ASSUME UNCHANGED <<fmt, items>>
  PROVE  /\ Total' = Total /\ Whole' = Whole /\ ItemsOk' = ItemsOk
         /\ Counts' = Counts /\ Writes' = Writes
         /\ \A k : From(k)' = From(k)
         /\ \A i, j : Plain(i, j)' = Plain(i, j)
<1>1. ASSUME NEW i, NEW j PROVE Plain(i, j)' = Plain(i, j)
  BY DEF Plain
<1>2. ASSUME NEW k PROVE From(k)' = From(k)
  BY DEF From
<1>3. Counts' = Counts
  BY DEF Counts, Plain, From
<1>4. Writes' = Writes
  BY DEF Writes, Plain, From
<1>5. Rest' = Rest
  BY DEF Rest, Plain, From
<1>6. ItemsOk' = ItemsOk
  BY DEF ItemsOk, ItemOk
<1> QED
  BY <1>1, <1>2, <1>3, <1>4, <1>5, <1>6 DEF Total, Whole

LEMMA NoParts ==
  /\ FlattenSeq(<<>>) = <<>>
  /\ \A S : First(S, 0) = <<>>
<1>1. FlattenSeq(<<>>) = <<>>
  BY DEF FlattenSeq
<1>2. ASSUME NEW S PROVE First(S, 0) = <<>>
  <2>1. First(S, 0) \in [1 .. 0 -> {}]
    BY DEF First
  <2>2. First(S, 0) \in Seq({})
    BY <2>1, SeqDef
  <2>3. Len(First(S, 0)) = 0
    BY <2>1, <2>2
  <2> QED
    BY <2>2, <2>3, EmptySeq
<1> QED
  BY <1>1, <1>2

LEMMA TotalType ==
  ASSUME fmt \in Text, ItemsOk
  PROVE  /\ FlattenSeq(Counts) \in Text /\ FlattenSeq(Writes) \in Text
         /\ Total \in Nat /\ Whole \in Text
         /\ Len(FlattenSeq(Counts)) <= Total
<1>1. PICK n, C, W, r : n = Len(items) /\ C = Counts /\ W = Writes /\ r = Rest
  OBVIOUS
<1>2. n \in Nat /\ C \in [1 .. n -> Text] /\ W \in [1 .. n -> Text] /\ r \in Text
  BY <1>1, PartTypes DEF ItemsOk
<1>3. FlattenSeq(C) \in Text
  <2>1. PICK f \in [0 .. n -> Text] : f[n] = FlattenSeq(C)
    BY <1>2, FlattenSteps
  <2>2. n \in 0 .. n
    BY <1>2
  <2> QED
    BY <2>1, <2>2
<1>4. FlattenSeq(W) \in Text
  <2>1. PICK f \in [0 .. n -> Text] : f[n] = FlattenSeq(W)
    BY <1>2, FlattenSteps
  <2>2. n \in 0 .. n
    BY <1>2
  <2> QED
    BY <2>1, <2>2
<1>5. PICK x, y : x = FlattenSeq(C) /\ y = FlattenSeq(W)
  OBVIOUS
<1>6. Len(x) \in Nat /\ Len(r) \in Nat /\ y \o r \in Text
  BY <1>2, <1>3, <1>4, <1>5 DEF Text
<1>7. Total = Len(x) + Len(r) /\ Whole = y \o r
  BY <1>1, <1>5 DEF Total, Whole
<1>8. Len(x) <= Len(x) + Len(r)
  BY <1>6
<1> QED
  BY <1>1, <1>3, <1>4, <1>5, <1>6, <1>7, <1>8

LEMMA BeginsText ==
  ASSUME NEW c, NEW f, Begins(c, f), f \in Text, c.strings \subseteq Texts
  PROVE  TextInv'
<1>1. /\ pc' = "count" /\ call' = c /\ fmt' = f /\ p' = 1 /\ sz' = 0 /\ items' = <<>>
      /\ next' = 1 /\ out' = <<>> /\ got' = Nothing
  BY DEF Begins
<1>2. Len(items') = 0
  BY <1>1
<1>3. IsSeq(items')
  <2>1. <<>> \in Seq({})
    OBVIOUS
  <2> QED
    BY <1>1, <2>1 DEF IsSeq
<1>4. ItemsOk'
  BY <1>2 DEF ItemsOk
<1>5. From(Len(items))' = 1
  BY <1>2 DEF From
<1>6. Counts' = <<>>
  <2>1. PICK S : S = Counts'
    OBVIOUS
  <2>2. S \in [1 .. 0 -> {}]
    BY <1>2, <2>1 DEF Counts
  <2>3. S \in Seq({})
    BY <2>2, SeqDef
  <2>4. Len(S) = 0
    BY <2>2, <2>3
  <2> QED
    BY <2>1, <2>3, <2>4, EmptySeq
<1>7. Len(FlattenSeq(Counts))' = 0
  BY <1>6, NoParts
<1>8. Plain(1, 1)' = <<>>
  BY DEF Plain
<1>9. Counting'
  <2>1. Even(1, 1)'
    BY DEF Even
  <2>2. (Plain(From(Len(items)), p))' = <<>>
    BY <1>1, <1>5, <1>8
  <2>3. Even(From(Len(items)), p)'
    BY <1>1, <1>5, <2>1
  <2> QED
    BY <1>1, <1>5, <1>7, <2>2, <2>3 DEF Counting
<1>10. fmt' \in Text /\ p' \in 1 .. Len(fmt') + 1
  BY <1>1 DEF Text
<1> QED
  BY <1>1, <1>3, <1>4, <1>9, <1>10 DEF TextInv, Unwritten

(* A step of the first walk that goes on *)
LEMMA VerbatimText == TextInv /\ Verbatim => TextInv'
<1> SUFFICES ASSUME TextInv, Verbatim PROVE TextInv'
  OBVIOUS
<1>1. /\ pc = "count" /\ pc' = "count" /\ p \in DOMAIN fmt
      /\ fmt[p] = "%" => Char(p + 1) = "%"
      /\ sz' = sz + 1 /\ p' = IF fmt[p] = "%" THEN p + 2 ELSE p + 1
      /\ UNCHANGED <<call, fmt, pc, items, next, out, heap, got>>
  BY DEF Verbatim
<1>2. PICK a, n : a = From(Len(items)) /\ n = Len(items)
  OBVIOUS
<1>3. /\ fmt \in Text /\ ItemsOk /\ n \in 0 .. Len(items) /\ a <= p /\ Even(a, p)
      /\ sz = Len(FlattenSeq(Counts)) + Len(Plain(a, p))
  BY <1>1, <1>2 DEF TextInv, Counting, ItemsOk
<1>4. a \in 1 .. Len(fmt) + 1
  BY <1>2, <1>3, FromType
<1>5. /\ p' \in 1 .. Len(fmt) + 1 /\ a <= p' /\ Even(a, p')
      /\ Len(Plain(a, p')) = Len(Plain(a, p)) + 1
  <2>1. PICK k : k = IF fmt[p] = "%" THEN p + 2 ELSE p + 1
    OBVIOUS
  <2>2. PICK j : j = p
    OBVIOUS
  <2>3. /\ j \in DOMAIN fmt /\ a <= j /\ Even(a, j) /\ (fmt[j] = "%" => Char(j + 1) = "%")
        /\ k = IF fmt[j] = "%" THEN j + 2 ELSE j + 1
    BY <1>1, <1>3, <2>1, <2>2
  <2>4. /\ k \in 1 .. Len(fmt) + 1 /\ a <= k /\ Even(a, k)
        /\ Len(Plain(a, k)) = Len(Plain(a, j)) + 1
    BY <1>3, <1>4, <2>3, PlainGrows
  <2> QED
    BY <1>1, <2>1, <2>2, <2>4
<1>6. /\ Counts' = Counts /\ From(Len(items))' = a /\ ItemsOk' = ItemsOk
      /\ Plain(a, p)' = Plain(a, p') /\ Even(a, p)' = Even(a, p')
  <2>1. Counts' = Counts /\ ItemsOk' = ItemsOk
    BY <1>1, Unmoved
  <2>2. From(Len(items))' = a
    BY <1>1, <1>2 DEF From
  <2>3. PICK q : q = p'
    OBVIOUS
  <2>4. Plain(a, q)' = Plain(a, q)
    BY <1>1 DEF Plain
  <2>5. Even(a, q)' = Even(a, q)
    BY <1>1 DEF Even, Copy, Copies
  <2> QED
    BY <2>1, <2>2, <2>3, <2>4, <2>5
<1>7. sz' = Len(FlattenSeq(Counts)) + Len(Plain(a, p'))
  <2>1. FlattenSeq(Counts) \in Text
    BY <1>3, TotalType
  <2>2. Plain(a, p) \in Text
    <3>1. PICK j : j = p
      OBVIOUS
    <3>2. j \in 1 .. Len(fmt) + 1
      BY <3>1 DEF TextInv
    <3> QED
      BY <1>3, <1>4, <3>1, <3>2, PlainType
  <2>3. Len(FlattenSeq(Counts)) \in Nat /\ Len(Plain(a, p)) \in Nat
    BY <2>1, <2>2 DEF Text
  <2> QED
    BY <1>1, <1>3, <1>5, <2>3
<1>8. Counting'
  BY <1>2, <1>5, <1>6, <1>7 DEF Counting
<1> QED
  BY <1>1, <1>5, <1>6, <1>8 DEF TextInv, Unwritten

(* The first walk ends, with an error or at the end of the format. *)
LEMMA EndsText ==
  ASSUME TextInv, pc = "count", pc' = "allocate", UNCHANGED <<call, fmt, items, next, out, got>>,
         p' = p, sz' = -1 \/ sz' = Total
  PROVE  TextInv'
<1>1. Total' = Total /\ ItemsOk' = ItemsOk
  BY Unmoved
<1> QED
  BY <1>1 DEF TextInv, Unwritten

LEMMA CountedText == TextInv /\ Counted => TextInv'
<1> SUFFICES ASSUME TextInv, Counted PROVE TextInv'
  OBVIOUS
<1>1. pc = "count" /\ fmt \in Text /\ p \in 1 .. Len(fmt) + 1 /\ p > Len(fmt)
  BY DEF Counted, TextInv
<1>2. p = Len(fmt) + 1
  BY <1>1 DEF Text
<1>3. sz = Total
  BY <1>1, <1>2 DEF TextInv, Counting, Total, Rest
<1> QED
  BY <1>1, <1>3, EndsText DEF Counted

(* What is taken from the format and the arguments is an item. *)
Taking(i, r, v, e) ==
  /\ fmt \in Text /\ call.strings \subseteq Texts /\ i \in 1 .. Len(fmt)
  /\ r = Directive(i + 1) /\ r.known /\ v \in Arguments(r.conv) /\ e = [r EXCEPT !.value = v]
IsTaken(i, r, v, e) ==
  /\ ItemOk(e) /\ e.start = i /\ e.end = r.end /\ e.value = v
  /\ Needed(e, e.value) = Needed(r, v)
LEMMA TakenItem ==
  ASSUME NEW i, NEW r, NEW v, NEW e, Taking(i, r, v, e)
  PROVE  IsTaken(i, r, v, e)
<1>0. /\ fmt \in Text /\ call.strings \subseteq Texts /\ i \in 1 .. Len(fmt)
      /\ r = Directive(i + 1) /\ r.known /\ v \in Arguments(r.conv) /\ e = [r EXCEPT !.value = v]
  BY DEF Taking
<1>1. r = Directive(i + 1)
  BY <1>0
<1>2. i + 1 \in 1 .. Len(fmt) + 1 /\ (i + 1) - 1 = i
  BY <1>0 DEF Text
<1>3. /\ Given(r.width) /\ Given(r.precision) /\ r.start = i
      /\ r.end \in 1 .. Len(fmt) /\ r.conv \in Conversions
  BY <1>0, <1>1, <1>2, DirectiveType
<1>4. r = [start |-> r.start, flags |-> r.flags, width |-> r.width, precision |-> r.precision,
           known |-> r.known, conv |-> r.conv, modifier |-> r.modifier, end |-> r.end,
           value |-> r.value]
  <2>1. PICK j : j = i + 1
    OBVIOUS
  <2>2. PICK w, d, n, m, c :
           /\ Parsed(j, w, d, n, m, c)
           /\ r =
                [start |-> j - 1, flags |-> {fmt[k] : k \in j .. w - 1},
                 width |-> IF d > w THEN Number(w, d - 1) ELSE NONE,
                 precision |-> IF Char(d) # "." THEN NONE ELSE IF Char(d + 1) = "-" THEN 0 ELSE Number(n, m - 1),
                 known |-> Known(Char(c), Modifier(m)), conv |-> Char(c), modifier |-> Modifier(m),
                 end |-> c, value |-> NONE]
    BY <1>1, <2>1, DirectiveIs
  <2> QED
    BY <2>2
<1>5. e = [r EXCEPT !.value = v]
  BY <1>0
<1>6. /\ e.start = r.start /\ e.flags = r.flags /\ e.width = r.width
      /\ e.precision = r.precision /\ e.known = r.known /\ e.conv = r.conv
      /\ e.modifier = r.modifier /\ e.end = r.end /\ e.value = v
  BY <1>4, <1>5
<1>7. Fields(e)
  <2>1. e = [start |-> r.start, flags |-> r.flags, width |-> r.width, precision |-> r.precision,
             known |-> r.known, conv |-> r.conv, modifier |-> r.modifier, end |-> r.end,
             value |-> v]
    BY <1>4, <1>5
  <2> QED
    BY <1>6, <2>1 DEF Fields
<1>8. v \in Arguments(r.conv)
  BY <1>0
<1>9. r.conv \in Integer \cup {"p"} => v \in Numbers
  BY <1>8 DEF Arguments
<1>10. r.conv \in Floats => v \in FloatTexts
  <2>1. r.conv \in Floats => r.conv \notin Integer \cup {"p"}
    BY DEF Floats, Integer, Signed, Hex
  <2> QED
    BY <1>8, <2>1 DEF Arguments
<1>11. r.conv = "s" => v \in Texts
  <2>1. r.conv = "s" => r.conv \notin Integer \cup {"p"} /\ r.conv \notin Floats
    BY DEF Floats, Integer, Signed, Hex
  <2> QED
    BY <1>0, <2>1 DEF Arguments
<1>12. r.conv = "c" => v \in Character
  <2>1. r.conv = "c" => r.conv \notin Integer \cup {"p"} /\ r.conv \notin Floats /\ r.conv # "s"
    BY DEF Floats, Integer, Signed, Hex
  <2>2. r.conv = "c" => v = "c"
    BY <1>8, <2>1 DEF Arguments
  <2> QED
    BY <2>2, Literals
<1>13. ItemOk(e)
  BY <1>0, <1>3, <1>6, <1>7, <1>9, <1>10, <1>11, <1>12 DEF ItemOk
<1>14. Needed(e, v) = Needed(r, v)
  <2>1. Value(e, v) = Value(r, v)
    BY <1>6 DEF Value
  <2>2. Sign(e, v) = Sign(r, v)
    BY <1>6, <2>1 DEF Sign
  <2>3. IntNeeded(e, v) = IntNeeded(r, v)
    BY <1>6, <2>1, <2>2 DEF IntNeeded
  <2> QED
    BY <1>6, <2>3 DEF Needed
<1> QED
  BY <1>3, <1>6, <1>13, <1>14 DEF IsTaken

(* One more item: the others, and their parts, are as before. *)
LEMMA ItemAppended ==
  ASSUME fmt \in Text, ItemsOk, IsSeq(items), fmt' = fmt, NEW e, ItemOk(e),
         items' = Append(items, e), NEW n, n = Len(items)
  PROVE  /\ Len(items') = n + 1 /\ IsSeq(items') /\ ItemsOk'
         /\ \A k \in 1 .. n : items'[k] = items[k]
         /\ items'[n + 1] = e
         /\ \A k \in 0 .. n : From(k)' = From(k)
         /\ From(n + 1)' = e.end + 1
<1>1. PICK S : items \in Seq(S)
  BY DEF IsSeq
<1>2. /\ n \in Nat /\ Len(items') = n + 1 /\ items'[n + 1] = e
      /\ \A k \in 1 .. n : items'[k] = items[k]
  BY <1>1
<1>3. IsSeq(items')
  BY Appended
<1>4. ItemsOk'
  <2>1. ASSUME NEW k \in 1 .. n + 1 PROVE ItemOk(items'[k])
    <3>1. CASE k = n + 1
      BY <1>2, <3>1
    <3>2. CASE k # n + 1
      <4>1. k \in 1 .. n
        BY <1>2, <3>2
      <4> QED
        BY <1>2, <4>1 DEF ItemsOk
    <3> QED
      BY <3>1, <3>2
  <2>2. \A x : ItemOk(x)' <=> ItemOk(x)
    BY DEF ItemOk
  <2>3. \A k \in 1 .. n + 1 : ItemOk(items[k])'
    BY <2>1, <2>2 DEF ItemOk
  <2> QED
    BY <1>2, <2>3 DEF ItemsOk
<1>5. ASSUME NEW k \in 0 .. n PROVE From(k)' = From(k)
  <2>1. k # 0 => k \in 1 .. n
    BY <1>2
  <2> QED
    BY <1>2, <2>1 DEF From
<1>6. From(n + 1)' = e.end + 1
  <2>1. PICK m : m = n + 1
    OBVIOUS
  <2>2. m # 0
    BY <1>2, <2>1
  <2>3. From(m)' = items'[m].end + 1
    BY <2>2 DEF From
  <2> QED
    BY <1>2, <2>1, <2>3
<1> QED
  BY <1>2, <1>3, <1>4, <1>5, <1>6

LEMMA TakenText == TextInv /\ Taken => TextInv'
<1> SUFFICES ASSUME TextInv, Taken PROVE TextInv'
  OBVIOUS
<1>1. /\ pc = "count" /\ Char(p) = "%" /\ fmt \in Text /\ ItemsOk /\ IsSeq(items)
      /\ call.strings \subseteq Texts /\ p \in 1 .. Len(fmt) + 1
  BY DEF Taken, AtDirective, TextInv
<1>2. PICK r : r = Directive(p + 1)
  OBVIOUS
<1>3. /\ r.known /\ p' = r.end + 1 /\ fmt' = fmt /\ call' = call /\ next' = next
      /\ out' = out /\ got' = got
  BY <1>2 DEF Taken
<1>4. PICK v \in Arguments(r.conv) :
        /\ items' = Append(items, [r EXCEPT !.value = v])
        /\ \/ sz' = sz + Needed(r, v) /\ pc' = pc
           \/ sz' = -1 /\ pc' = "allocate"
  BY <1>2 DEF Taken, Fails_
<1>5. PICK e, n, i : e = [r EXCEPT !.value = v] /\ n = Len(items) /\ i = p
  OBVIOUS
<1>6. i \in 1 .. Len(fmt) /\ Char(i) = "%"
  BY <1>1, <1>5 DEF Char, Text
<1>7. /\ ItemOk(e) /\ e.start = i /\ e.end = r.end /\ e.value = v
      /\ Needed(e, e.value) = Needed(r, v)
  <2>1. r = Directive(i + 1)
    BY <1>2, <1>5
  <2>2. Taking(i, r, v, e)
    BY <1>1, <1>3, <1>5, <1>6, <2>1 DEF Taking
  <2> QED
    BY <2>2, TakenItem DEF IsTaken
<1>8. items' = Append(items, e)
  BY <1>4, <1>5
<1>9. /\ Len(items') = n + 1 /\ IsSeq(items') /\ ItemsOk'
      /\ \A k \in 1 .. n : items'[k] = items[k]
      /\ items'[n + 1] = e
      /\ \A k \in 0 .. n : From(k)' = From(k)
      /\ From(n + 1)' = e.end + 1
  BY <1>1, <1>3, <1>5, <1>7, <1>8, ItemAppended
<1>10. p' \in 1 .. Len(fmt') + 1
  <2>1. r.end \in 1 .. Len(fmt)
    BY <1>7 DEF ItemOk
  <2>2. Len(fmt) \in Nat
    BY <1>1 DEF Text
  <2> QED
    BY <1>3, <2>1, <2>2
<1>11. CASE sz' = -1 /\ pc' = "allocate"
  BY <1>1, <1>3, <1>9, <1>10, <1>11 DEF TextInv, Unwritten
<1>12. CASE sz' = sz + Needed(r, v) /\ pc' = pc
  <2>1. PICK a, m : a = From(n) /\ m = Needed(e, e.value)
    OBVIOUS
  <2>2. n \in Nat /\ n \in 0 .. Len(items)
    BY <1>1, <1>5 DEF ItemsOk
  <2>3. a \in 1 .. Len(fmt) + 1
    BY <1>1, <2>1, <2>2, FromType
  <2>4. m \in Nat
    BY <1>7, <2>1, RoomForItem
  <2>5. PICK t, f : t = Plain(a, i) /\ f = Fill(" ", m)
    OBVIOUS
  <2>6. t \in Text /\ Len(t) \in Nat
    <3>1. i \in 1 .. Len(fmt) + 1
      BY <1>1, <1>5
    <3>2. t \in Text
      BY <1>1, <2>3, <2>5, <3>1, PlainType
    <3> QED
      BY <3>2 DEF Text
  <2>7. f \in Text /\ Len(f) = m
    <3>1. m \in Int /\ Larger(0, m) = m
      BY <2>4 DEF Larger
    <3> QED
      BY <2>5, <3>1, FillType, Literals, Zenon
  <2>8. t \o f \in Text /\ Len(t \o f) = Len(t) + m
    BY <2>6, <2>7 DEF Text
  <2>9. PICK C, D : C = Counts /\ D = Counts'
    OBVIOUS
  <2>10. C \in [1 .. n -> Text]
    BY <1>1, <1>5, <2>9, PartTypes
  <2>11. D = [k \in 1 .. n + 1 |-> D[k]]
    BY <1>9, <2>9 DEF Counts
  <2>12. ASSUME NEW k \in 1 .. n PROVE D[k] = C[k]
    <3>1. k \in 1 .. n + 1 /\ k \in 1 .. Len(items) /\ k \in 1 .. Len(items') /\ k - 1 \in 0 .. n
      BY <1>5, <1>9, <2>2
    <3>2. items'[k] = items[k] /\ From(k - 1)' = From(k - 1)
      BY <1>9, <3>1
    <3>3. PICK h : h = k - 1
      OBVIOUS
    <3>4. PICK x, y, z : x = items[k] /\ y = From(h) /\ z = Needed(items[k], items[k].value)
      OBVIOUS
    <3>5. C[k] = Plain(y, x.start) \o Fill(" ", z)
      BY <2>9, <3>1, <3>3, <3>4 DEF Counts
    <3>6. D[k] = Plain(From(h), items[k].start)' \o Fill(" ", Needed(items'[k], items'[k].value))
      BY <2>9, <3>1, <3>3 DEF Counts
    <3>7. \A b, c : Plain(b, c)' = Plain(b, c)
      BY <1>3 DEF Plain
    <3> QED
      BY <3>2, <3>3, <3>4, <3>5, <3>6, <3>7
  <2>13. D[n + 1] = t \o f
    <3>1. PICK q : q = n + 1
      OBVIOUS
    <3>2. q \in 1 .. Len(items') /\ q - 1 = n
      BY <1>9, <2>2, <3>1
    <3>3. D[q] = Plain(From(n), items[q].start)' \o Fill(" ", Needed(items'[q], items'[q].value))
      BY <2>9, <3>2 DEF Counts
    <3>4. items'[q] = e /\ From(n)' = a
      BY <1>9, <2>1, <2>2, <3>1
    <3>5. Plain(a, i)' = Plain(a, i)
      BY <1>3 DEF Plain
    <3> QED
      BY <1>7, <2>1, <2>5, <3>1, <3>3, <3>4, <3>5
  <2>14. D \in [1 .. n + 1 -> Text]
    <3>1. ASSUME NEW k \in 1 .. n + 1 PROVE D[k] \in Text
      <4>1. k = n + 1 \/ k \in 1 .. n
        BY <2>2
      <4> QED
        BY <2>8, <2>10, <2>12, <2>13, <4>1
    <3> QED
      BY <2>11, <3>1
  <2>15. First(D, n) = C
    <3>1. First(D, n) = [k \in 1 .. n |-> C[k]]
      BY <2>12 DEF First
    <3>2. C = [k \in 1 .. n |-> C[k]]
      BY <2>10
    <3> QED
      BY <3>1, <3>2
  <2>16. FlattenSeq(C) \in Text /\ FlattenSeq(D) = FlattenSeq(C) \o (t \o f)
    <3>1. FlattenSeq(First(D, n)) \in Text /\ FlattenSeq(D) = FlattenSeq(First(D, n)) \o D[n + 1]
      BY <2>2, <2>14, FlattenOneMore
    <3> QED
      BY <2>13, <2>15, <3>1
  <2>17. PICK x, y : x = FlattenSeq(C) /\ y = t \o f
    OBVIOUS
  <2>18. Len(x \o y) = Len(x) + Len(y) /\ Len(x) \in Nat
    BY <2>8, <2>16, <2>17 DEF Text
  <2>19. Len(FlattenSeq(D)) = Len(x) + Len(t) + m
    BY <2>4, <2>6, <2>8, <2>16, <2>17, <2>18
  <2>20. sz = Len(x) + Len(t)
    <3>1. sz = Len(FlattenSeq(Counts)) + Len(Plain(From(Len(items)), p))
      BY <1>1 DEF TextInv, Counting
    <3> QED
      BY <1>5, <2>1, <2>5, <2>9, <2>17, <3>1
  <2>21. sz' = Len(FlattenSeq(D))
    BY <1>7, <1>12, <2>1, <2>4, <2>6, <2>18, <2>19, <2>20
  <2>22. From(Len(items))' = p'
    <3>1. From(Len(items))' = From(n + 1)'
      BY <1>9 DEF From
    <3> QED
      BY <1>3, <1>7, <1>9, <3>1
  <2>23. PICK q : q = p'
    OBVIOUS
  <2>24. Plain(q, q)' = <<>> /\ Even(q, q)' /\ q \in Int
    BY <1>10, <2>23 DEF Plain, Even
  <2>25. Counting'
    <3>1. Plain(From(Len(items)), p)' = <<>> /\ Even(From(Len(items)), p)'
      BY <2>22, <2>23, <2>24
    <3>2. FlattenSeq(D) \in Text
      BY <2>8, <2>16 DEF Text
    <3>3. sz' = Len(FlattenSeq(Counts))' + 0
      BY <2>9, <2>21, <3>2 DEF Text
    <3> QED
      BY <2>9, <2>22, <2>23, <2>24, <3>1, <3>3 DEF Counting
  <2> QED
    BY <1>1, <1>3, <1>9, <1>10, <1>12, <2>25 DEF TextInv, Unwritten
<1> QED
  BY <1>4, <1>11, <1>12

LEMMA FailsText == TextInv /\ (ItemFails \/ Unsupported \/ Refused) => TextInv'
<1> SUFFICES ASSUME TextInv, ItemFails \/ Unsupported \/ Refused PROVE TextInv'
  OBVIOUS
<1>1. /\ pc = "count" /\ pc' = "allocate" /\ sz' = -1
      /\ UNCHANGED <<call, fmt, p, items, next, out, got>>
  BY DEF ItemFails, Unsupported, Refused, Fails_, AtDirective
<1> QED
  BY <1>1, EndsText

LEMMA AllocateText == TextInv /\ Allocate => TextInv'
<1> SUFFICES ASSUME TextInv, Allocate PROVE TextInv'
  OBVIOUS
<1>1. /\ pc = "allocate" /\ p' = 1 /\ UNCHANGED <<call, fmt, sz, items, next, out>>
      /\ \/ sz >= 0 /\ pc' = "write" /\ got' = got
         \/ pc' = "release" /\ got' = [got EXCEPT !.rc = -1]
  BY DEF Allocate
<1>2. /\ fmt \in Text /\ ItemsOk /\ IsSeq(items) /\ call.strings \subseteq Texts
      /\ sz = -1 \/ sz = Total
      /\ out = <<>> /\ got = Nothing /\ next = 1
  BY <1>1 DEF TextInv, Unwritten
<1>3. Total' = Total /\ ItemsOk' = ItemsOk /\ Writes' = Writes
  BY <1>1, Unmoved
<1>4. p' \in 1 .. Len(fmt') + 1
  BY <1>1, <1>2 DEF Text
<1>5. CASE sz >= 0 /\ pc' = "write" /\ got' = got
  <2>1. sz' = Total'
    BY <1>1, <1>2, <1>3, <1>5
  <2>2. next' = 1 /\ next' - 1 = 0 /\ next' \in 1 .. Len(items') + 1
    BY <1>1, <1>2 DEF ItemsOk
  <2>3. p' = From(next - 1)'
    BY <1>1, <2>2 DEF From
  <2>4. out' = FlattenSeq(First(Writes', next' - 1))
    BY <1>1, <1>2, <2>2, NoParts
  <2>5. Writing'
    BY <2>1, <2>2, <2>3, <2>4 DEF Writing
  <2> QED
    BY <1>1, <1>2, <1>3, <1>4, <1>5, <2>5 DEF TextInv
<1>6. CASE pc' = "release" /\ got' = [got EXCEPT !.rc = -1]
  <2>1. got'.rc = -1
    BY <1>2, <1>6 DEF Nothing
  <2> QED
    BY <1>1, <1>2, <1>3, <1>4, <1>6, <2>1 DEF TextInv
<1> QED
  BY <1>1, <1>5, <1>6

(* The second walk writes one part after the other. *)
LEMMA WriteItemText == TextInv /\ WriteItem => TextInv'
<1> SUFFICES ASSUME TextInv, WriteItem PROVE TextInv'
  OBVIOUS
<1>1. /\ pc = "write" /\ next <= Len(items) /\ p' = items[next].end + 1 /\ next' = next + 1
      /\ out' = out \o Plain(p, items[next].start) \o Written(items[next])
      /\ UNCHANGED <<call, fmt, pc, sz, items, heap, got>>
  BY DEF WriteItem
<1>2. /\ fmt \in Text /\ ItemsOk /\ IsSeq(items) /\ call.strings \subseteq Texts
      /\ sz = Total /\ next \in 1 .. Len(items) + 1 /\ p = From(next - 1)
      /\ out = FlattenSeq(First(Writes, next - 1)) /\ got = Nothing
  BY <1>1 DEF TextInv, Writing
<1>3. Total' = Total /\ ItemsOk' = ItemsOk /\ Writes' = Writes
  BY <1>1, Unmoved
<1>4. PICK n, m : n = next /\ m = next - 1
  OBVIOUS
<1>5. n \in 1 .. Len(items) /\ m \in Nat /\ n = m + 1 /\ m \in 0 .. Len(items)
  BY <1>1, <1>2, <1>4 DEF ItemsOk
<1>6. From(n)' = p' /\ p' \in 1 .. Len(fmt) + 1
  <2>1. From(n) = items[n].end + 1
    BY <1>5 DEF From
  <2>2. n \in 0 .. Len(items)
    BY <1>5 DEF ItemsOk
  <2>3. From(n) \in 1 .. Len(fmt) + 1
    BY <1>2, <2>2, FromType
  <2>4. From(n)' = From(n)
    BY <1>1 DEF From
  <2> QED
    BY <1>1, <1>4, <2>1, <2>3, <2>4
<1>7. PICK W, V : W = Writes /\ V = First(Writes, n)
  OBVIOUS
<1>8. W \in [1 .. Len(items) -> Text]
  BY <1>2, <1>7, PartTypes
<1>9. V \in [1 .. m + 1 -> Text] /\ V[m + 1] = W[n]
  <2>1. ASSUME NEW k \in 1 .. n PROVE W[k] \in Text
    <3>1. k \in 1 .. Len(items)
      BY <1>2, <1>5 DEF ItemsOk
    <3> QED
      BY <1>8, <3>1
  <2>2. V = [k \in 1 .. n |-> W[k]]
    BY <1>7 DEF First
  <2>3. n \in 1 .. n
    BY <1>5
  <2> QED
    BY <1>5, <2>1, <2>2, <2>3
<1>10. First(V, m) = First(W, m)
  <2>1. \A k \in 1 .. m : V[k] = W[k]
    BY <1>5, <1>7 DEF First
  <2> QED
    BY <2>1 DEF First
<1>11. FlattenSeq(V) = FlattenSeq(First(W, m)) \o W[n] /\ FlattenSeq(First(W, m)) \in Text
  <2>1. /\ FlattenSeq(First(V, m)) \in Text
        /\ FlattenSeq(V) = FlattenSeq(First(V, m)) \o V[m + 1]
    BY <1>5, <1>9, FlattenOneMore
  <2> QED
    BY <1>9, <1>10, <2>1
<1>12. PICK x, t, u : /\ x = FlattenSeq(First(W, m)) /\ t = Plain(From(m), items[n].start)
                      /\ u = Written(items[n])
  OBVIOUS
<1>13. W[n] = t \o u
  BY <1>4, <1>5, <1>7, <1>12 DEF Writes
<1>14. out' = (x \o t) \o u
  BY <1>1, <1>2, <1>4, <1>7, <1>12
<1>15. t \in Text /\ u \in Text
  <2>1. ItemOk(items[n])
    BY <1>2, <1>5 DEF ItemsOk
  <2>2. u \in Text
    BY <1>12, <2>1, RoomForItem
  <2>3. PICK a, b : a = From(m) /\ b = items[n].start
    OBVIOUS
  <2>4. a \in 1 .. Len(fmt) + 1 /\ b \in 1 .. Len(fmt) + 1
    <3>1. a \in 1 .. Len(fmt) + 1
      BY <1>2, <1>5, <2>3, FromType
    <3>2. b \in 1 .. Len(fmt) /\ Len(fmt) \in Nat
      BY <1>2, <2>1, <2>3 DEF ItemOk, Text
    <3> QED
      BY <3>1, <3>2
  <2>5. t \in Text
    BY <1>2, <1>12, <2>3, <2>4, PlainType
  <2> QED
    BY <2>2, <2>5
<1>16. (x \o t) \o u = x \o (t \o u)
  <2>1. x \in Text
    BY <1>11, <1>12
  <2> QED
    BY <1>15, <2>1 DEF Text
<1>17. out' = FlattenSeq(V)
  BY <1>11, <1>12, <1>13, <1>14, <1>16
<1>18. Writing'
  <2>1. next' - 1 = n /\ next' \in 1 .. Len(items') + 1
    BY <1>1, <1>2, <1>4, <1>5 DEF ItemsOk
  <2>2. out' = FlattenSeq(First(Writes', next' - 1))
    BY <1>3, <1>7, <1>17, <2>1
  <2>3. p' = From(next - 1)'
    BY <1>6, <2>1
  <2> QED
    BY <1>1, <1>2, <1>3, <2>1, <2>2, <2>3 DEF Writing
<1> QED
  BY <1>1, <1>2, <1>3, <1>6, <1>18 DEF TextInv

LEMMA WriteRestText == TextInv /\ WriteRest => TextInv'
<1> SUFFICES ASSUME TextInv, WriteRest PROVE TextInv'
  OBVIOUS
<1>1. /\ pc = "write" /\ next > Len(items) /\ pc' = "release"
      /\ out' = out \o Plain(p, Len(fmt) + 1)
      /\ UNCHANGED <<call, fmt, p, sz, items, next, heap, got>>
  BY DEF WriteRest
<1>2. /\ fmt \in Text /\ ItemsOk /\ IsSeq(items) /\ call.strings \subseteq Texts
      /\ sz = Total /\ next \in 1 .. Len(items) + 1 /\ p = From(next - 1)
      /\ out = FlattenSeq(First(Writes, next - 1)) /\ got = Nothing
      /\ p \in 1 .. Len(fmt) + 1
  BY <1>1 DEF TextInv, Writing
<1>3. Total' = Total /\ ItemsOk' = ItemsOk /\ Whole' = Whole
  BY <1>1, Unmoved
<1>4. PICK n : n = Len(items)
  OBVIOUS
<1>5. n \in Nat /\ next - 1 = n
  BY <1>1, <1>2, <1>4 DEF ItemsOk
<1>6. First(Writes, n) = Writes
  <2>1. Writes = [k \in 1 .. n |-> Writes[k]]
    BY <1>4 DEF Writes
  <2> QED
    BY <2>1 DEF First
<1>7. out' = Whole
  BY <1>1, <1>2, <1>4, <1>5, <1>6 DEF Whole, Rest
<1> QED
  BY <1>1, <1>2, <1>3, <1>7 DEF TextInv

LEMMA ReleaseText == TextInv /\ Release => TextInv'
<1> SUFFICES ASSUME TextInv, Release PROVE TextInv'
  OBVIOUS
<1>1. pc = "release" /\ pc' = "return" /\ UNCHANGED <<call, fmt, p, sz, items, next, out, got>>
  BY DEF Release
<1>2. Total' = Total /\ ItemsOk' = ItemsOk /\ Whole' = Whole
  BY <1>1, Unmoved
<1> QED
  BY <1>1, <1>2 DEF TextInv

LEMMA ReturnText == TextInv /\ Return => TextInv'
<1> SUFFICES ASSUME TextInv, Return PROVE TextInv'
  OBVIOUS
<1>1. /\ pc = "return" /\ pc' = "end" /\ UNCHANGED <<call, fmt, p, sz, items, next, out>>
      /\ got' = IF got.rc # 0 THEN got ELSE Delivered(out)
  BY DEF Return
<1>2. Total' = Total /\ ItemsOk' = ItemsOk /\ Whole' = Whole
  BY <1>1, Unmoved
<1>3. (got.rc = -1 /\ out = <<>>) \/ (got = Nothing /\ out = Whole)
  BY <1>1 DEF TextInv
<1>4. CASE got.rc = -1
  <2>1. got' = got
    BY <1>1, <1>4
  <2> QED
    BY <1>1, <1>2, <1>4, <2>1 DEF TextInv
<1>5. CASE got = Nothing /\ out = Whole
  <2>1. got.rc = 0
    BY <1>5 DEF Nothing
  <2>2. got' = Delivered(Whole)
    BY <1>1, <1>5, <2>1
  <2>3. Delivered(Whole).text = IF call.f = "snprintf"
                                THEN SubSeq(Whole, 1, Lesser(Len(Whole), call.size - 1)) ELSE Whole
    <3>1. CASE call.f = "snprintf"
      BY <3>1 DEF Delivered
    <3>2. CASE call.f = "fprintf"
      BY <3>2 DEF Delivered
    <3>3. CASE call.f # "snprintf" /\ call.f # "fprintf"
      BY <3>3 DEF Delivered
    <3> QED
      BY <3>1, <3>2, <3>3
  <2> QED
    BY <1>1, <1>2, <2>2, <2>3 DEF TextInv
<1> QED
  BY <1>3, <1>4, <1>5

(* Between calls nothing is being walked over. *)
LEMMA IdleText ==
  ASSUME call = NoCall, fmt = <<>>, pc = "idle", p = 1, items = <<>>
  PROVE  TextInv
<1>1. fmt \in Text /\ p \in 1 .. Len(fmt) + 1
  BY DEF Text
<1>2. IsSeq(items)
  <2>1. <<>> \in Seq({})
    OBVIOUS
  <2> QED
    BY <2>1 DEF IsSeq
<1>3. ItemsOk
  BY DEF ItemsOk
<1> QED
  BY <1>1, <1>2, <1>3 DEF TextInv, NoCall

LEMMA DoneText == Done => TextInv'
<1> SUFFICES ASSUME Done PROVE TextInv'
  OBVIOUS
<1>1. call' = NoCall /\ fmt' = <<>> /\ pc' = "idle" /\ p' = 1 /\ items' = <<>>
  BY DEF Done
<1>2. fmt' \in Text /\ p' \in 1 .. Len(fmt') + 1
  BY <1>1 DEF Text
<1>3. IsSeq(items')
  <2>1. <<>> \in Seq({})
    OBVIOUS
  <2> QED
    BY <1>1, <2>1 DEF IsSeq
<1>4. ItemsOk'
  BY <1>1 DEF ItemsOk
<1> QED
  BY <1>1, <1>2, <1>3, <1>4 DEF TextInv, NoCall

-----------------------------------------------------------------------------
(* What the invariant is for *)

LEMMA RoomEnough == TextInv => RoomCounted
<1> SUFFICES ASSUME TextInv, pc \in {"write", "release", "return"}, sz >= 0,
                    \A i \in ToSet(items) : ~Overruns(i)
             PROVE  Len(out) <= sz
  BY DEF RoomCounted
<1>1. fmt \in Text /\ ItemsOk /\ IsSeq(items)
  BY DEF TextInv
<1>2. PICK n, C, W, r : n = Len(items) /\ C = Counts /\ W = Writes /\ r = Rest
  OBVIOUS
<1>3. /\ n \in Nat /\ C \in [1 .. n -> Text] /\ W \in [1 .. n -> Text] /\ r \in Text
  BY <1>1, <1>2, PartTypes DEF ItemsOk
<1>4. \A k \in 1 .. n : Len(W[k]) <= Len(C[k])
  <2>1. ASSUME NEW k \in 1 .. n PROVE Len(W[k]) <= Len(C[k])
    <3>1. PICK S : items \in Seq(S)
      BY <1>1 DEF IsSeq
    <3>2. items[k] \in ToSet(items)
      BY <1>2, <3>1 DEF ToSet
    <3>3. ~Overruns(items[k])
      BY <3>2
    <3> QED
      BY <1>1, <1>2, <3>3, PartTypes
  <2> QED
    BY <2>1
<1>5. /\ FlattenSeq(C) \in Text /\ FlattenSeq(W) \in Text /\ Total \in Nat /\ Whole \in Text
      /\ Len(FlattenSeq(C)) <= Total
  BY <1>1, <1>2, TotalType
<1>6. \A m \in 0 .. n : Len(FlattenSeq(First(W, m))) <= Len(FlattenSeq(C))
  BY <1>3, <1>4, FlattenShorter
<1>7. \A m \in 0 .. n : FlattenSeq(First(W, m)) \in Text
  <2>1. ASSUME NEW m \in 0 .. n PROVE FlattenSeq(First(W, m)) \in Text
    <3>1. PICK V : V = First(W, m)
      OBVIOUS
    <3>2. V \in [1 .. m -> Text] /\ m \in Nat /\ m \in 0 .. m
      BY <1>3, <3>1 DEF First
    <3>3. PICK f \in [0 .. m -> Text] : f[m] = FlattenSeq(V)
      BY <3>2, FlattenSteps
    <3> QED
      BY <3>1, <3>2, <3>3
  <2> QED
    BY <2>1
<1>8. CASE pc = "write"
  <2>1. sz = Total /\ next \in 1 .. n + 1 /\ out = FlattenSeq(First(W, next - 1))
    BY <1>2, <1>8 DEF TextInv, Writing
  <2>2. PICK m : m = next - 1
    OBVIOUS
  <2>3. m \in 0 .. n
    BY <1>3, <2>1, <2>2
  <2>4. PICK x, y : x = FlattenSeq(First(W, m)) /\ y = FlattenSeq(C)
    OBVIOUS
  <2>5. x \in Text /\ y \in Text /\ Len(x) <= Len(y) /\ Len(y) <= Total
    BY <1>5, <1>6, <1>7, <2>3, <2>4
  <2>6. Len(x) \in Nat /\ Len(y) \in Nat
    BY <2>5 DEF Text
  <2> QED
    BY <1>5, <2>1, <2>2, <2>4, <2>5, <2>6
<1>9. CASE pc \in {"release", "return"}
  <2>1. sz = Total /\ ((got.rc = -1 /\ out = <<>>) \/ (got = Nothing /\ out = Whole))
    BY <1>9 DEF TextInv
  <2>2. CASE out = <<>>
    BY <1>5, <2>1, <2>2
  <2>3. CASE out = Whole
    <3>1. PICK x, y : x = FlattenSeq(W) /\ y = FlattenSeq(C)
      OBVIOUS
    <3>2. First(W, n) = W
      BY <1>3 DEF First
    <3>3. n \in 0 .. n
      BY <1>3
    <3>4. x \in Text /\ y \in Text /\ Len(x) <= Len(y)
      BY <1>5, <1>6, <3>1, <3>2, <3>3
    <3>5. /\ Len(x) \in Nat /\ Len(y) \in Nat /\ Len(r) \in Nat
          /\ Len(x \o r) = Len(x) + Len(r)
      BY <1>3, <3>4 DEF Text
    <3>6. Whole = x \o r /\ Total = Len(y) + Len(r)
      BY <1>2, <3>1 DEF Whole, Total
    <3> QED
      BY <2>1, <2>3, <3>4, <3>5, <3>6
  <2> QED
    BY <2>1, <2>2, <2>3
<1> QED
  BY <1>8, <1>9

LEMMA TextAsC == TextInv => TextRight
<1> SUFFICES ASSUME TextInv, pc = "end", got.rc # -1, \A i \in ToSet(items) : Supported(i)
             PROVE  got.text = IF call.f = "snprintf"
                               THEN SubSeq(Expected, 1, Lesser(Len(Expected), call.size - 1))
                               ELSE Expected
  BY DEF TextRight
<1>1. ItemsOk /\ IsSeq(items)
  BY DEF TextInv
<1>2. PICK S : items \in Seq(S)
  BY <1>1 DEF IsSeq
<1>3. DOMAIN items = 1 .. Len(items)
  BY <1>2
<1>4. ASSUME NEW k \in 1 .. Len(items) PROVE Written(items[k]) = CText(items[k])
  <2>1. items[k] \in ToSet(items)
    BY <1>3 DEF ToSet
  <2>2. Supported(items[k]) /\ ItemOk(items[k])
    BY <1>1, <2>1 DEF ItemsOk
  <2> QED
    BY <2>2, Same
<1>5. Writes = [k \in DOMAIN items |-> Plain(From(k - 1), items[k].start) \o CText(items[k])]
  BY <1>3, <1>4 DEF Writes
<1>6. Whole = Expected
  BY <1>5 DEF Whole, Expected, Rest
<1> QED
  BY <1>6 DEF TextInv

-----------------------------------------------------------------------------
(* What string.format lets through *)

(* Flags from i on, a width at f, a period at w with a precision or none, up to e *)
Scheme(g, i, f, w, e) ==
  /\ f \in Int /\ w \in Int /\ e \in 1 .. Len(g) /\ i <= f /\ f <= w /\ w <= e
  /\ \A k \in i .. f - 1 : g[k] \in FLAGS
  /\ g[f] \notin FLAGS
  /\ \A k \in f .. w - 1 : g[k] \in DigitChars
  /\ g[w] \notin DigitChars
  /\ \/ g[w] = "." /\ w < e /\ \A k \in w + 1 .. e - 1 : g[k] \in DigitChars
     \/ g[w] # "." /\ e = w
  /\ g[e] \notin DigitChars

LuaForm(g) ==
  /\ Len(g) \in Nat /\ g[1] = "%"
  /\ \E f, w, e :
       /\ Scheme(g, 2, f, w, e)
       /\ \/ e = Len(g) /\ g[e] \in Options \ (IntOptions \cup {"q"})
          \/ e = Len(g) - 1 /\ g[e] = "l" /\ g[Len(g)] \in IntOptions

LEMMA LetterKinds ==
  /\ "NUL" \notin Options /\ "NUL" \notin FLAGS /\ "NUL" \notin DigitChars
  /\ \A c \in Options : /\ c \notin FLAGS /\ c \notin DigitChars /\ c # "." /\ c # "%" /\ c # "-"
                        /\ c # "l" /\ c # "'"
  /\ \A c \in FLAGS : c # "%" /\ c \in FlagChars
  /\ \A c \in DigitChars : c # "%" /\ c # "." /\ c # "-" /\ c # "'"
  /\ "l" \notin FLAGS /\ "l" \notin DigitChars /\ "." \notin DigitChars
  /\ \A c \in FlagChars : c = "'" \/ c \in FLAGS
<1>1. /\ "NUL" \notin Options
      /\ \A c \in Options : /\ c \notin FLAGS /\ c # "." /\ c # "%" /\ c # "-" /\ c # "l" /\ c # "'"
      /\ \A c \in Options : c \notin DigitChars
  BY Characters DEF Options, IntOptions, FloatOptions, FLAGS
<1>2. "NUL" \notin FLAGS /\ "l" \notin FLAGS
  BY DEF FLAGS
<1>3. \A c \in FLAGS : c # "%" /\ c \in FlagChars
  BY DEF FLAGS, FlagChars
<1>4. /\ \A c \in DigitChars : c # "%" /\ c # "." /\ c # "-" /\ c # "'"
      /\ "NUL" \notin DigitChars /\ "l" \notin DigitChars /\ "." \notin DigitChars
  BY Characters
<1>5. \A c \in FlagChars : c = "'" \/ c \in FLAGS
  BY DEF FLAGS, FlagChars
<1> QED
  BY <1>1, <1>2, <1>3, <1>4, <1>5

LEMMA PassedIs ==
  ASSUME lua.fmt \in Text, NEW i \in 1 .. Len(lua.fmt) + 1
  PROVE  /\ Passed(i) \in i .. Len(lua.fmt) + 1
         /\ \A k \in i .. Passed(i) - 1 : lua.fmt[k] \in DigitChars
<1>1. Len(lua.fmt) \in Nat /\ DOMAIN lua.fmt = 1 .. Len(lua.fmt)
  BY DEF Text
<1>2. \A k : LuaChar(k) \in DigitChars => k \in 1 .. Len(lua.fmt) /\ lua.fmt[k] \in DigitChars
  BY <1>1, LetterKinds DEF LuaChar
<1>3. CASE LuaChar(i) \notin DigitChars
  <2>1. Passed(i) = i
    BY <1>3 DEF Passed
  <2> QED
    BY <1>1, <2>1
<1>4. CASE LuaChar(i) \in DigitChars /\ LuaChar(i + 1) \in DigitChars
  <2>1. Passed(i) = i + 2
    BY <1>4 DEF Passed
  <2>2. i + 1 \in 1 .. Len(lua.fmt) /\ \A k \in i .. i + 1 : k = i \/ k = i + 1
    BY <1>1, <1>2, <1>4
  <2> QED
    BY <1>1, <1>2, <1>4, <2>1, <2>2
<1>5. CASE LuaChar(i) \in DigitChars /\ LuaChar(i + 1) \notin DigitChars
  <2>1. Passed(i) = i + 1
    BY <1>5 DEF Passed
  <2>2. \A k \in i .. i : k = i
    BY <1>1
  <2>3. i + 1 \in i .. Len(lua.fmt) + 1
    BY <1>1, <1>2, <1>5
  <2>4. \A k \in i .. (i + 1) - 1 : k = i
    BY <1>1
  <2> QED
    BY <1>2, <1>5, <2>1, <2>3, <2>4
<1> QED
  BY <1>3, <1>4, <1>5

(* The place that scanformat finds *)
LEMMA Scanned ==
  ASSUME lua.fmt \in Text, NEW i \in 1 .. Len(lua.fmt) + 1, NEW e, e = scanformat(i), e # NONE,
         LuaChar(e) \in Options
  PROVE  \E f, w : Scheme(lua.fmt, i, f, w, e)
<1>1. PICK g, n : g = lua.fmt /\ n = Len(lua.fmt) + 1
  OBVIOUS
<1>2. Len(g) \in Nat /\ DOMAIN g = 1 .. Len(g) /\ n \in Int /\ i \in Int /\ i <= n /\ n \notin DOMAIN g
  BY <1>1 DEF Text
<1>3. \A k \in 1 .. Len(g) : LuaChar(k) = g[k]
  BY <1>1, <1>2 DEF LuaChar
<1>4. LuaChar(n) = "NUL"
  BY <1>1, <1>2 DEF LuaChar
<1>5. \E j \in i .. n : LuaChar(j) \notin FLAGS /\ \A k \in i .. j - 1 : LuaChar(k) \in FLAGS
  <2> DEFINE G == {k \in Int : LuaChar(k) \in FLAGS}
  <2>1. n \notin G
    BY <1>4, LetterKinds
  <2>2. PICK j \in i .. n : j \notin G /\ \A k \in i .. j - 1 : k \in G
    <3> HIDE DEF G
    <3> QED
      BY <1>2, <2>1, FirstPlace
  <2> QED
    BY <1>2, <2>2
<1>6. PICK f : f = CHOOSE j \in i .. Len(lua.fmt) + 1 :
                     LuaChar(j) \notin FLAGS /\ \A k \in i .. j - 1 : LuaChar(k) \in FLAGS
  OBVIOUS
<1>7. f \in i .. n /\ LuaChar(f) \notin FLAGS /\ \A k \in i .. f - 1 : LuaChar(k) \in FLAGS
  BY <1>1, <1>5, <1>6
<1>8. PICK w, d : w = Passed(f) /\ d = IF LuaChar(w) = "." THEN Passed(w + 1) ELSE w
  OBVIOUS
<1>9. e = d /\ LuaChar(d) \notin DigitChars
  BY <1>6, <1>8 DEF scanformat
<1>10. e \in 1 .. Len(g)
  <2>1. LuaChar(e) # "NUL"
    BY LetterKinds
  <2>2. e \in DOMAIN g
    BY <1>1, <2>1 DEF LuaChar
  <2> QED
    BY <1>2, <2>2
<1>11. w \in f .. n /\ \A k \in f .. w - 1 : g[k] \in DigitChars
  <2>1. f \in 1 .. Len(lua.fmt) + 1
    BY <1>1, <1>2, <1>7
  <2> QED
    BY <1>1, <1>8, <2>1, PassedIs
<1>12. CASE LuaChar(w) = "."
  <2>1. w \in 1 .. Len(g)
    <3>1. w \in DOMAIN g
      BY <1>1, <1>12 DEF LuaChar
    <3> QED
      BY <1>2, <3>1
  <2>2. PICK x : x = w + 1
    OBVIOUS
  <2>3. x \in 1 .. Len(lua.fmt) + 1 /\ x \in Int
    BY <1>1, <1>2, <2>1, <2>2
  <2>4. e = Passed(x)
    BY <1>8, <1>9, <1>12, <2>2
  <2>5. e \in x .. n /\ \A k \in x .. e - 1 : g[k] \in DigitChars
    BY <1>1, <2>3, <2>4, PassedIs
  <2>6. f \in 1 .. Len(g) /\ \A k \in i .. f - 1 : k \in 1 .. Len(g)
    BY <1>2, <1>7, <1>11, <2>1
  <2>7. g[w] = "." /\ g[w] \notin DigitChars /\ g[f] \notin FLAGS /\ \A k \in i .. f - 1 : g[k] \in FLAGS
    BY <1>3, <1>7, <1>12, <2>1, <2>6, LetterKinds
  <2>8. w < e /\ w <= e /\ i <= f /\ f <= w /\ f \in Int /\ w \in Int
    BY <1>2, <1>7, <1>11, <2>2, <2>3, <2>5
  <2>9. g[e] \notin DigitChars
    BY <1>3, <1>9, <1>10
  <2>10. Scheme(g, i, f, w, e)
    BY <1>10, <1>11, <2>2, <2>5, <2>7, <2>8, <2>9 DEF Scheme
  <2> QED
    BY <1>1, <2>10
<1>13. CASE LuaChar(w) # "."
  <2>1. e = w
    BY <1>8, <1>9, <1>13
  <2>2. f \in 1 .. Len(g) /\ \A k \in i .. f - 1 : k \in 1 .. Len(g)
    BY <1>2, <1>7, <1>10, <1>11, <2>1
  <2>3. g[f] \notin FLAGS /\ \A k \in i .. f - 1 : g[k] \in FLAGS
    BY <1>3, <1>7, <2>2
  <2>4. g[w] # "." /\ g[w] \notin DigitChars
    BY <1>3, <1>9, <1>10, <1>13, <2>1
  <2>5. w <= e /\ i <= f /\ f <= w /\ f \in Int /\ w \in Int
    BY <1>2, <1>7, <1>11, <2>1
  <2>6. Scheme(g, i, f, w, e)
    BY <1>10, <1>11, <2>1, <2>3, <2>4, <2>5 DEF Scheme
  <2> QED
    BY <1>1, <2>6
<1> QED
  BY <1>12, <1>13

(* The first place is the one place with those in front of it in S. *)
LEMMA AfterWhere ==
  ASSUME fmt \in Text, NEW S, "NUL" \notin S, NEW i \in 1 .. Len(fmt) + 1,
         NEW j \in i .. Len(fmt) + 1, Char(j) \notin S, \A k \in i .. j - 1 : Char(k) \in S
  PROVE  After(i, S) = j
<1>1. PICK a : a = After(i, S)
  OBVIOUS
<1>2. a \in i .. Len(fmt) + 1 /\ Char(a) \notin S /\ \A k \in i .. a - 1 : Char(k) \in S
  BY <1>1, AfterIs
<1>3. i \in Int /\ Len(fmt) \in Nat
  BY DEF Text
<1>4. ~(a < j)
  <2>1. a < j => a \in i .. j - 1
    BY <1>2, <1>3
  <2> QED
    BY <1>2, <2>1
<1>5. ~(j < a)
  <2>1. j < a => j \in i .. a - 1
    BY <1>2, <1>3
  <2> QED
    BY <1>2, <2>1
<1> QED
  BY <1>1, <1>2, <1>3, <1>4, <1>5

(* Where the flags, the width and the letter of a script's form are. *)
LEMMA SchemeParts ==
  ASSUME fmt \in Text, NEW f, NEW w, NEW e, Scheme(fmt, 2, f, w, e),
         fmt[e] \in Options \cup {"l"}
  PROVE  /\ f \in 2 .. e /\ w \in f .. e /\ e \in 1 .. Len(fmt)
         /\ \A k \in 1 .. Len(fmt) : Char(k) = fmt[k]
         /\ After(2, FlagChars) = f
         /\ Char(w) \notin DigitChars
         /\ Char(f) \in DigitChars => After(f, DigitChars) = w
         /\ Char(f) \notin DigitChars => w = f
<1>1. Len(fmt) \in Nat /\ DOMAIN fmt = 1 .. Len(fmt)
  BY DEF Text
<1>2. \A k \in 1 .. Len(fmt) : Char(k) = fmt[k]
  BY <1>1 DEF Char
<1>3. f \in 2 .. e /\ w \in f .. e /\ e \in 1 .. Len(fmt)
  BY <1>1 DEF Scheme
<1>4. f \in 1 .. Len(fmt) /\ w \in 1 .. Len(fmt)
  BY <1>1, <1>3
<1>5. After(2, FlagChars) = f
  <2>1. fmt[f] \notin FLAGS /\ fmt[f] # "'"
    <3>1. CASE f < w
      <4>1. f \in f .. w - 1
        BY <1>1, <1>3, <3>1
      <4>2. fmt[f] \in DigitChars
        BY <4>1 DEF Scheme
      <4> QED
        BY <4>2, LetterKinds DEF Scheme
    <3>2. CASE f = w
      <4>1. fmt[w] = "." \/ fmt[w] = fmt[e]
        BY DEF Scheme
      <4>2. fmt[w] # "'"
        BY <4>1, LetterKinds
      <4> QED
        BY <3>2, <4>2 DEF Scheme
    <3> QED
      BY <1>1, <1>3, <3>1, <3>2
  <2>2. fmt[f] \notin FlagChars
    BY <2>1, LetterKinds
  <2>3. Char(f) \notin FlagChars
    BY <1>2, <1>4, <2>2
  <2>4. ASSUME NEW k \in 2 .. f - 1 PROVE Char(k) \in FlagChars
    <3>1. k \in 1 .. Len(fmt)
      BY <1>1, <1>3
    <3>2. fmt[k] \in FLAGS
      BY DEF Scheme
    <3> QED
      BY <1>2, <3>1, <3>2, LetterKinds
  <2>5. 2 \in 1 .. Len(fmt) + 1 /\ f \in 2 .. Len(fmt) + 1
    BY <1>1, <1>3
  <2> QED
    BY <2>3, <2>4, <2>5, AfterWhere, Characters
<1>6. Char(w) \notin DigitChars
  BY <1>2, <1>4 DEF Scheme
<1>7. ASSUME NEW k \in f .. w - 1 PROVE Char(k) \in DigitChars
  <2>1. k \in 1 .. Len(fmt)
    BY <1>1, <1>3
  <2>2. fmt[k] \in DigitChars
    BY DEF Scheme
  <2> QED
    BY <1>2, <2>1, <2>2
<1>8. After(f, DigitChars) = w
  <2>1. f \in 1 .. Len(fmt) + 1 /\ w \in f .. Len(fmt) + 1
    BY <1>1, <1>3
  <2> QED
    BY <1>6, <1>7, <2>1, AfterWhere, Characters
<1>9. Char(f) \notin DigitChars => w = f
  <2>1. w # f => f \in f .. w - 1
    BY <1>1, <1>3
  <2> QED
    BY <1>7, <2>1
<1> QED
  BY <1>2, <1>3, <1>5, <1>6, <1>8, <1>9

(* Behind the width and the precision is where formatted_write looks for the *)
(* length modifier and the letter.                                           *)
LEMMA SchemeEnd ==
  ASSUME fmt \in Text, NEW f, NEW w, NEW e, Scheme(fmt, 2, f, w, e),
         fmt[e] \in Options \cup {"l"}, Len(fmt) = e \/ Len(fmt) = e + 1,
         ~\E i \in 2 .. Len(fmt) - 1 : fmt[i - 1] = "." /\ fmt[i] = "0",
         NEW v, NEW d, NEW n, NEW m, NEW c, Parsed(2, v, d, n, m, c)
  PROVE  m = e
<1>1. /\ f \in 2 .. e /\ w \in f .. e /\ e \in 1 .. Len(fmt)
      /\ \A k \in 1 .. Len(fmt) : Char(k) = fmt[k]
      /\ After(2, FlagChars) = f
      /\ Char(w) \notin DigitChars
      /\ Char(f) \in DigitChars => After(f, DigitChars) = w
      /\ Char(f) \notin DigitChars => w = f
  BY SchemeParts
<1>2. Len(fmt) \in Nat
  BY DEF Text
<1>3. v = f /\ d = w
  BY <1>1 DEF Parsed
<1>4. w \in 1 .. Len(fmt) /\ Char(w) = fmt[w]
  BY <1>1, <1>2
<1>5. CASE fmt[w] # "."
  BY <1>3, <1>4, <1>5 DEF Parsed, Scheme
<1>6. CASE fmt[w] = "."
  <2>1. PICK x : x = w + 1
    OBVIOUS
  <2>2. w < e /\ \A k \in x .. e - 1 : fmt[k] \in DigitChars
    BY <1>6, <2>1 DEF Scheme
  <2>3. x \in 1 .. Len(fmt) /\ x \in 2 .. e /\ x - 1 = w
    BY <1>1, <1>2, <2>1, <2>2
  <2>4. Char(x) = fmt[x]
    BY <1>1, <2>3
  <2>5. fmt[e] \notin DigitChars
    BY DEF Scheme
  <2>6. x < e => fmt[x] \in DigitChars
    <3>1. x < e => x \in x .. e - 1
      BY <1>1, <2>3
    <3> QED
      BY <2>2, <3>1
  <2>7. Char(x) # "-"
    <3>1. CASE x < e
      BY <2>4, <2>6, <3>1, LetterKinds
    <3>2. CASE x = e
      <4>1. fmt[e] = "l" \/ fmt[e] \in Options
        OBVIOUS
      <4> QED
        BY <2>4, <3>2, <4>1, LetterKinds
    <3>3. x < e \/ x = e
      BY <1>1, <2>3
    <3> QED
      BY <3>1, <3>2, <3>3
  <2>8. n = x
    BY <1>3, <2>1, <2>7 DEF Parsed
  <2>9. m = IF Char(x) \in DigitChars \ {"0"} THEN After(x, DigitChars) ELSE x
    BY <1>3, <1>4, <1>6, <2>1, <2>7, <2>8 DEF Parsed
  <2>10. CASE x = e
    BY <2>4, <2>5, <2>9, <2>10
  <2>11. CASE x < e
    <3>1. fmt[x] # "0"
      <4>1. x \in 2 .. Len(fmt) - 1 /\ fmt[x - 1] = "."
        BY <1>1, <1>2, <1>6, <2>3, <2>11
      <4> QED
        BY <4>1
    <3>2. m = After(x, DigitChars)
      BY <2>4, <2>6, <2>9, <2>11, <3>1
    <3>3. ASSUME NEW k \in x .. e - 1 PROVE Char(k) \in DigitChars
      <4>1. k \in 1 .. Len(fmt)
        BY <1>1, <1>2, <2>3
      <4> QED
        BY <1>1, <2>2, <4>1
    <3>4. Char(e) \notin DigitChars
      BY <1>1, <2>5
    <3>5. x \in 1 .. Len(fmt) + 1 /\ e \in x .. Len(fmt) + 1
      BY <1>1, <1>2, <2>3
    <3> QED
      BY <3>2, <3>3, <3>4, <3>5, AfterWhere, Characters
  <2>12. x < e \/ x = e
    BY <1>1, <2>3
  <2> QED
    BY <2>10, <2>11, <2>12
<1> QED
  BY <1>5, <1>6

(* What string.format passes on is known, but for the zero behind the point. *)
LEMMA KnownForm ==
  ASSUME fmt \in Text, LuaForm(fmt),
         ~\E i \in 2 .. Len(fmt) - 1 : fmt[i - 1] = "." /\ fmt[i] = "0"
  PROVE  Directive(2).known
<1>1. PICK f, w, e :
        /\ Scheme(fmt, 2, f, w, e)
        /\ \/ e = Len(fmt) /\ fmt[e] \in Options \ (IntOptions \cup {"q"})
           \/ e = Len(fmt) - 1 /\ fmt[e] = "l" /\ fmt[Len(fmt)] \in IntOptions
  BY DEF LuaForm
<1>2. Len(fmt) \in Nat
  BY DEF Text
<1>3. /\ fmt[e] \in Options \cup {"l"} /\ (Len(fmt) = e \/ Len(fmt) = e + 1)
      /\ e \in 1 .. Len(fmt) /\ \A k \in 1 .. Len(fmt) : Char(k) = fmt[k]
  <2>1. fmt[e] \in Options \cup {"l"}
    BY <1>1
  <2>2. Len(fmt) = e \/ Len(fmt) = e + 1
    BY <1>1, <1>2
  <2> QED
    BY <1>1, <2>1, <2>2, SchemeParts
<1>4. PICK v, d, n, m, c :
        /\ Parsed(2, v, d, n, m, c)
        /\ Directive(2).known = Known(Char(c), Modifier(m))
  <2>1. \E v, d, n, m, c :
           /\ Parsed(2, v, d, n, m, c)
           /\ Directive(2) =
                [start |-> 2 - 1, flags |-> {fmt[k] : k \in 2 .. v - 1},
                 width |-> IF d > v THEN Number(v, d - 1) ELSE NONE,
                 precision |-> IF Char(d) # "." THEN NONE ELSE IF Char(d + 1) = "-" THEN 0 ELSE Number(n, m - 1),
                 known |-> Known(Char(c), Modifier(m)), conv |-> Char(c), modifier |-> Modifier(m),
                 end |-> c, value |-> NONE]
    BY DirectiveIs
  <2> QED
    BY <2>1
<1>5. m = e
  BY <1>1, <1>3, <1>4, SchemeEnd
<1>6. c = e + Len(Modifier(e))
  BY <1>4, <1>5 DEF Parsed
<1>7. CASE e = Len(fmt) /\ fmt[e] \in Options \ (IntOptions \cup {"q"})
  <2>1. Char(e) \in FloatOptions \cup {"c", "s"}
    BY <1>3, <1>7 DEF Options
  <2>2. Char(e) \notin {"h", "l", "L", "q", "j", "z", "t"}
    BY <2>1 DEF FloatOptions
  <2>3. Modifier(e) = <<>>
    BY <2>2 DEF Modifier
  <2>4. c = e
    BY <1>3, <1>6, <2>3
  <2>5. Known(Char(c), Modifier(m))
    BY <1>5, <2>1, <2>3, <2>4 DEF Known, FloatOptions, Floats, FloatModifiers
  <2> QED
    BY <1>4, <2>5
<1>8. CASE e = Len(fmt) - 1 /\ fmt[e] = "l" /\ fmt[Len(fmt)] \in IntOptions
  <2>1. PICK x : x = e + 1
    OBVIOUS
  <2>2. x = Len(fmt) /\ x \in 1 .. Len(fmt)
    BY <1>2, <1>3, <1>8, <2>1
  <2>3. Char(e) = "l" /\ Char(x) \in IntOptions
    BY <1>3, <1>8, <2>2
  <2>4. Char(x) # "l"
    BY <2>3 DEF IntOptions
  <2>5. Modifier(e) = <<"l">>
    BY <2>1, <2>3, <2>4 DEF Modifier
  <2>6. Len(<<"l">>) = 1
    OBVIOUS
  <2>7. c = x
    BY <1>6, <2>1, <2>5, <2>6
  <2>8. Char(c) \in Signed \cup {"u"} \cup Hex
    BY <2>3, <2>7 DEF IntOptions, Signed, Hex
  <2>9. Modifier(m) \in IntModifiers /\ Modifier(m) \in HexModifiers
    BY <1>5, <2>5 DEF IntModifiers, HexModifiers
  <2>10. Known(Char(c), Modifier(m))
    BY <2>8, <2>9 DEF Known
  <2> QED
    BY <1>4, <2>10
<1> QED
  BY <1>1, <1>7, <1>8

(* Its percent sign is the only one. *)
LEMMA OnePercent ==
  ASSUME NEW g, g \in Text, LuaForm(g), NEW k \in 2 .. Len(g)
  PROVE  g[k] # "%"
<1>1. PICK f, w, e :
        /\ Scheme(g, 2, f, w, e)
        /\ \/ e = Len(g) /\ g[e] \in Options \ (IntOptions \cup {"q"})
           \/ e = Len(g) - 1 /\ g[e] = "l" /\ g[Len(g)] \in IntOptions
  BY DEF LuaForm
<1>2. Len(g) \in Nat /\ k \in Int
  BY DEF Text
<1>3. /\ f \in Int /\ w \in Int /\ e \in 1 .. Len(g)
      /\ k \in 2 .. f - 1 \/ k \in f .. w - 1 \/ k = w \/ k \in w + 1 .. e - 1 \/ k = e \/ k = Len(g)
  <2>1. f \in Int /\ w \in Int /\ e \in 1 .. Len(g)
    BY <1>1 DEF Scheme
  <2>2. e = Len(g) \/ e = Len(g) - 1
    BY <1>1
  <2> QED
    BY <1>2, <2>1, <2>2
<1>4. CASE k \in 2 .. f - 1
  BY <1>1, <1>4, LetterKinds DEF Scheme
<1>5. CASE k \in f .. w - 1
  BY <1>1, <1>5, LetterKinds DEF Scheme
<1>6. g[e] # "%"
  BY <1>1, LetterKinds
<1>7. g[Len(g)] # "%"
  BY <1>1, LetterKinds DEF Options
<1>8. CASE k = w
  BY <1>1, <1>6, <1>8 DEF Scheme
<1>9. CASE k \in w + 1 .. e - 1
  <2>1. g[w] = "."
    <3>1. e # w
      BY <1>3, <1>9
    <3> QED
      BY <1>1, <3>1 DEF Scheme
  <2>2. g[k] \in DigitChars
    BY <1>1, <1>9, <2>1 DEF Scheme
  <2> QED
    BY <2>2, LetterKinds
<1> QED
  BY <1>3, <1>4, <1>5, <1>6, <1>7, <1>8, <1>9

(* A directive that is cut out of the format reads as it did in the format. *)
Cutting(g, p1, f, w, e, h) ==
  /\ g \in Text /\ p1 \in 1 .. Len(g) /\ g[p1] = "%" /\ Scheme(g, p1 + 1, f, w, e)
  /\ h = SubSeq(g, p1, e)

IsCut(g, e, h) ==
  /\ h \in Text /\ h[1] = "%" /\ h[Len(h)] = g[e]
  /\ \E a, b : Scheme(h, 2, a, b, Len(h))

LEMMA CutScheme ==
  ASSUME NEW g, NEW p1, NEW f, NEW w, NEW e, NEW h, Cutting(g, p1, f, w, e, h)
  PROVE  IsCut(g, e, h)
<1>0. /\ g \in Text /\ p1 \in 1 .. Len(g) /\ g[p1] = "%" /\ Scheme(g, p1 + 1, f, w, e)
      /\ h = SubSeq(g, p1, e)
  BY DEF Cutting
<1>1. Len(g) \in Nat
  BY <1>0 DEF Text
<1>2. p1 \in Int /\ f \in Int /\ w \in Int /\ e \in 1 .. Len(g) /\ p1 + 1 <= f /\ f <= w /\ w <= e
  BY <1>0, <1>1 DEF Scheme
<1>3. PICK n, a, b : n = e - p1 + 1 /\ a = f - p1 + 1 /\ b = w - p1 + 1
  OBVIOUS
<1>4. n \in Nat /\ a \in Int /\ b \in Int /\ 2 <= a /\ a <= b /\ b <= n /\ n \in 1 .. n
  BY <1>2, <1>3
<1>5. h \in Text /\ Len(h) = n /\ \A k \in 1 .. n : h[k] = g[p1 + k - 1]
  <2>1. p1 <= e /\ e \in Int
    BY <1>0, <1>1, <1>2
  <2>2. \A k \in p1 .. e : g[k] \in Character
    <3>1. \A k \in p1 .. e : k \in 1 .. Len(g)
      BY <1>0, <1>1, <1>2
    <3>2. g \in Seq(Character)
      BY <1>0 DEF Text
    <3> QED
      BY <3>1, <3>2
  <2>3. /\ SubSeq(g, p1, e) \in Seq(Character)
        /\ Len(SubSeq(g, p1, e)) = IF p1 <= e THEN e - p1 + 1 ELSE 0
        /\ \A k \in 1 .. e - p1 + 1 : SubSeq(g, p1, e)[k] = g[p1 + k - 1]
    BY <1>2, <2>1, <2>2, SubSeqProperties
  <2> QED
    BY <1>0, <1>3, <2>1, <2>3 DEF Text
<1>6. Len(h) = n /\ \A k \in 1 .. n : h[k] = g[p1 + k - 1]
  BY <1>5
<1>7. ASSUME NEW k \in 1 .. n, NEW x, x = p1 + k - 1 PROVE h[k] = g[x]
  BY <1>6, <1>7
<1>8. h[1] = "%"
  <2>1. p1 = p1 + 1 - 1 /\ 1 \in 1 .. n
    BY <1>2, <1>4
  <2> QED
    BY <1>0, <1>7, <2>1
<1>9. h[n] = g[e] /\ h[a] = g[f] /\ h[b] = g[w]
  <2>1. e = p1 + n - 1 /\ f = p1 + a - 1 /\ w = p1 + b - 1 /\ a \in 1 .. n /\ b \in 1 .. n
    BY <1>2, <1>3, <1>4
  <2> QED
    BY <1>4, <1>7, <2>1
<1>10. ASSUME NEW k \in 2 .. a - 1 PROVE h[k] \in FLAGS
  <2>1. PICK x : x = p1 + k - 1
    OBVIOUS
  <2>2. x \in p1 + 1 .. f - 1 /\ k \in 1 .. n
    BY <1>2, <1>3, <1>4, <2>1
  <2>3. g[x] \in FLAGS
    BY <1>0, <2>2 DEF Scheme
  <2> QED
    BY <1>7, <2>1, <2>2, <2>3
<1>11. ASSUME NEW k \in a .. b - 1 PROVE h[k] \in DigitChars
  <2>1. PICK x : x = p1 + k - 1
    OBVIOUS
  <2>2. x \in f .. w - 1 /\ k \in 1 .. n
    BY <1>2, <1>3, <1>4, <2>1
  <2>3. g[x] \in DigitChars
    BY <1>0, <2>2 DEF Scheme
  <2> QED
    BY <1>7, <2>1, <2>2, <2>3
<1>12. \/ h[b] = "." /\ b < n /\ \A k \in b + 1 .. n - 1 : h[k] \in DigitChars
       \/ h[b] # "." /\ n = b
  <2>1. CASE g[w] = "." /\ w < e /\ \A k \in w + 1 .. e - 1 : g[k] \in DigitChars
    <3>1. h[b] = "." /\ b < n
      BY <1>2, <1>3, <1>9, <2>1
    <3>2. ASSUME NEW k \in b + 1 .. n - 1 PROVE h[k] \in DigitChars
      <4>1. PICK x : x = p1 + k - 1
        OBVIOUS
      <4>2. x \in w + 1 .. e - 1 /\ k \in 1 .. n
        BY <1>2, <1>3, <1>4, <4>1
      <4>3. g[x] \in DigitChars
        BY <2>1, <4>2
      <4> QED
        BY <1>7, <4>1, <4>2, <4>3
    <3> QED
      BY <3>1, <3>2
  <2>2. CASE g[w] # "." /\ e = w
    BY <1>3, <1>9, <2>2
  <2> QED
    BY <1>0, <2>1, <2>2 DEF Scheme
<1>13. h[a] \notin FLAGS /\ h[b] \notin DigitChars /\ h[n] \notin DigitChars
  BY <1>0, <1>9 DEF Scheme
<1>14. Scheme(h, 2, a, b, Len(h))
  BY <1>4, <1>6, <1>10, <1>11, <1>12, <1>13 DEF Scheme
<1> QED
  BY <1>5, <1>6, <1>8, <1>9, <1>14 DEF IsCut

(* The length modifier stands in front of the letter. *)
LEMMA WithLength ==
  ASSUME NEW g, g \in Text, g[1] = "%", NEW f, NEW w, Scheme(g, 2, f, w, Len(g)),
         g[Len(g)] \in IntOptions
  PROVE  addintlen(g) \in Text /\ LuaForm(addintlen(g))
<1>1. PICK n, h, c : n = Len(g) /\ h = addintlen(g) /\ c = g[n]
  OBVIOUS
<1>2. n \in Nat /\ f \in Int /\ w \in Int /\ n \in 1 .. n /\ 2 <= f /\ f <= w /\ w <= n
  BY <1>1 DEF Scheme, Text
<1>3. n - 1 \in Nat /\ c \in Character /\ "l" \in Character
  <2>1. g \in Seq(Character) /\ n \in 1 .. Len(g)
    BY <1>1, <1>2 DEF Text
  <2>2. c \in Character
    BY <1>1, <2>1
  <2>3. "l" \in Character
    BY Literals, Zenon
  <2>4. n - 1 \in Nat
    BY <1>2
  <2> QED
    BY <2>2, <2>3, <2>4
<1>4. PICK t : t = SubSeq(g, 1, n - 1)
  OBVIOUS
<1>5. h = t \o <<"l">> \o <<c>>
  BY <1>1, <1>4 DEF addintlen, Front, Last
<1>6. t \in Seq(Character) /\ Len(t) = n - 1 /\ \A k \in 1 .. n - 1 : t[k] = g[k]
  <2>1. g \in Seq(Character) /\ n - 1 \in 0 .. Len(g) /\ 1 \in 1 .. Len(g) + 1
    BY <1>1, <1>2 DEF Text
  <2>2. t \in Seq(Character) /\ Len(t) = n - 1
    BY <1>3, <1>4, <2>1
  <2>3. ASSUME NEW k \in 1 .. n - 1 PROVE t[k] = g[k]
    BY <1>3, <1>4, <2>1
  <2> QED
    BY <2>2, <2>3
<1>7. h \in Text /\ Len(h) = n + 1
  <2>1. PICK x, y, u : x = <<"l">> /\ y = <<c>> /\ u = t \o x
    OBVIOUS
  <2>2. x \in Seq(Character) /\ y \in Seq(Character) /\ Len(x) = 1 /\ Len(y) = 1
    BY <1>3, <2>1
  <2>3. u \in Seq(Character) /\ Len(u) = n
    BY <1>2, <1>3, <1>6, <2>1, <2>2
  <2>4. h = u \o y
    BY <1>5, <2>1
  <2>5. u \o y \in Seq(Character) /\ Len(u \o y) = Len(u) + Len(y)
    BY <2>2, <2>3, ConcatProperties
  <2>6. Len(h) = n + 1
    BY <2>2, <2>3, <2>4, <2>5
  <2> QED
    BY <2>4, <2>5, <2>6 DEF Text
<1>8. /\ \A k \in 1 .. n - 1 : h[k] = g[k]
      /\ h[n] = "l" /\ h[n + 1] = c
  <2>1. PICK u : u = t \o <<"l">>
    OBVIOUS
  <2>2. u \in Seq(Character) /\ Len(u) = n
    BY <1>2, <1>3, <1>6, <2>1
  <2>3. u[n] = "l" /\ \A k \in 1 .. n - 1 : u[k] = t[k]
    BY <1>2, <1>3, <1>6, <2>1
  <2>4. h = u \o <<c>>
    BY <1>5, <2>1
  <2>5. h[n + 1] = c /\ \A k \in 1 .. n : h[k] = u[k]
    BY <1>2, <1>3, <2>2, <2>4
  <2> QED
    BY <1>2, <1>6, <2>3, <2>5
<1>9. h[1] = "%"
  <2>1. 1 \in 1 .. n - 1
    BY <1>2
  <2> QED
    BY <1>8, <2>1
<1>10. ASSUME NEW k \in 2 .. f - 1 PROVE h[k] \in FLAGS
  <2>1. k \in 1 .. n - 1 /\ g[k] \in FLAGS
    <3>1. k \in 1 .. n - 1
      BY <1>2
    <3>2. g[k] \in FLAGS
      BY DEF Scheme
    <3> QED
      BY <3>1, <3>2
  <2> QED
    BY <1>8, <2>1
<1>11. ASSUME NEW k \in f .. w - 1 PROVE h[k] \in DigitChars
  <2>1. k \in 1 .. n - 1
    BY <1>2
  <2>2. g[k] \in DigitChars
    BY DEF Scheme
  <2> QED
    BY <1>8, <2>1, <2>2
<1>12. h[f] \notin FLAGS
  <2>1. CASE f = n
    BY <1>8, <2>1, LetterKinds
  <2>2. CASE f # n
    <3>1. f \in 1 .. n - 1
      BY <1>2, <2>2
    <3>2. g[f] \notin FLAGS
      BY DEF Scheme
    <3> QED
      BY <1>8, <3>1, <3>2
  <2> QED
    BY <2>1, <2>2
<1>13. h[w] \notin DigitChars
  <2>1. CASE w = n
    BY <1>8, <2>1, LetterKinds
  <2>2. CASE w # n
    <3>1. w \in 1 .. n - 1
      BY <1>2, <2>2
    <3>2. g[w] \notin DigitChars
      BY DEF Scheme
    <3> QED
      BY <1>8, <3>1, <3>2
  <2> QED
    BY <2>1, <2>2
<1>14. \/ h[w] = "." /\ w < n /\ \A k \in w + 1 .. n - 1 : h[k] \in DigitChars
       \/ h[w] # "." /\ n = w
  <2>1. CASE w = n
    BY <1>8, <2>1
  <2>2. CASE w # n
    <3>1. w \in 1 .. n - 1 /\ w < n
      BY <1>2, <2>2
    <3>2. g[w] = "." /\ \A k \in w + 1 .. n - 1 : g[k] \in DigitChars
      BY <1>1, <2>2 DEF Scheme
    <3>3. ASSUME NEW k \in w + 1 .. n - 1 PROVE h[k] \in DigitChars
      <4>1. k \in 1 .. n - 1
        BY <1>2
      <4> QED
        BY <1>8, <3>2, <4>1
    <3> QED
      BY <1>8, <3>1, <3>2, <3>3
  <2> QED
    BY <2>1, <2>2
<1>15. h[n] \notin DigitChars /\ n \in 1 .. Len(h)
  BY <1>2, <1>7, <1>8, LetterKinds
<1>16. Scheme(h, 2, f, w, n)
  BY <1>2, <1>10, <1>11, <1>12, <1>13, <1>14, <1>15 DEF Scheme
<1>17. n = Len(h) - 1 /\ h[Len(h)] \in IntOptions /\ Len(h) \in Nat
  BY <1>1, <1>2, <1>7, <1>8
<1>18. LuaForm(h)
  BY <1>8, <1>9, <1>16, <1>17 DEF LuaForm
<1> QED
  BY <1>1, <1>7, <1>18

-----------------------------------------------------------------------------
(* A script's format and the forms that are cut out of it *)

LuaInv ==
  /\ lua = [on |-> lua.on, fmt |-> lua.fmt, p |-> lua.p, b |-> lua.b]
  /\ lua.fmt \in Text /\ lua.p \in Nat \ {0}
FormInv == call.f = "str_format" => LuaForm(fmt)
FormatInv == TextInv /\ LuaInv /\ FormInv

LEMMA NoScriptInv ==
  ASSUME LuaInv, lua' = NoScript
  PROVE  LuaInv'
<1>1. <<>> \in Text
  BY DEF Text
<1>2. lua' = [on |-> FALSE, fmt |-> <<>>, p |-> 1, b |-> <<>>]
  BY DEF NoScript
<1> QED
  BY <1>1, <1>2 DEF LuaInv

LEMMA LetterIn ==
  ASSUME LuaInv, LuaChar(Letter) \in Options
  PROVE  Letter \in 1 .. Len(lua.fmt)
<1>1. LuaChar(Letter) # "NUL"
  BY LetterKinds
<1>2. PICK e : e = Letter
  OBVIOUS
<1>3. e \in DOMAIN lua.fmt
  BY <1>1, <1>2 DEF LuaChar
<1>4. DOMAIN lua.fmt = 1 .. Len(lua.fmt)
  BY DEF LuaInv, Text
<1> QED
  BY <1>2, <1>3, <1>4

LEMMA ScriptInv ==
  ASSUME LuaInv, Formats_ \/ AddChar \/ Error \/ AddString \/ PushResult
  PROVE  LuaInv'
<1>1. CASE Formats_
  <2>1. PICK f \in LuaFormats : lua' = [NoScript EXCEPT !.on = TRUE, !.fmt = f]
    BY <1>1 DEF Formats_
  <2>2. f \in Text
    BY LuaFormatsAssumption, InText
  <2>3. lua' = [on |-> TRUE, fmt |-> f, p |-> 1, b |-> <<>>]
    BY <2>1 DEF NoScript
  <2> QED
    BY <2>2, <2>3 DEF LuaInv
<1>2. CASE AddChar
  <2>1. PICK c, n : n \in {1, 2} /\ lua' = [lua EXCEPT !.b = Append(@, c), !.p = @ + n]
    BY <1>2 DEF AddChar
  <2>2. lua' = [on |-> lua.on, fmt |-> lua.fmt, p |-> lua.p + n, b |-> Append(lua.b, c)]
    BY <2>1 DEF LuaInv
  <2>3. lua.p + n \in Nat \ {0}
    BY <2>1 DEF LuaInv
  <2> QED
    BY <2>2, <2>3 DEF LuaInv
<1>3. CASE AddString
  <2>1. LuaChar(Letter) \in {"q", "s"} /\ \E t : lua' = [lua EXCEPT !.b = t, !.p = Letter + 1]
    BY <1>3 DEF AddString
  <2>2. PICK t : lua' = [lua EXCEPT !.b = t, !.p = Letter + 1]
    BY <2>1
  <2>3. PICK e : e = Letter
    OBVIOUS
  <2>4. e \in 1 .. Len(lua.fmt)
    BY <2>1, <2>3, LetterIn DEF Options
  <2>5. lua' = [on |-> lua.on, fmt |-> lua.fmt, p |-> e + 1, b |-> t]
    BY <2>2, <2>3 DEF LuaInv
  <2>6. e + 1 \in Nat \ {0}
    BY <2>4
  <2> QED
    BY <2>5, <2>6 DEF LuaInv
<1>4. CASE Error \/ PushResult
  BY <1>4, NoScriptInv DEF Error, PushResult
<1> QED
  BY <1>1, <1>2, <1>3, <1>4

(* What a script passes on. *)
LEMMA FormPassed ==
  ASSUME LuaInv, Escape, Letter # NONE, LuaChar(Letter) \in Options \ {"q"}, NEW g,
         g = IF LuaChar(Letter) \in IntOptions THEN addintlen(Form) ELSE Form
  PROVE  g \in Text /\ LuaForm(g)
<1>1. PICK x, i, e, h : x = lua.p /\ i = lua.p + 1 /\ e = Letter /\ h = Form
  OBVIOUS
<1>2. lua.fmt \in Text /\ Len(lua.fmt) \in Nat /\ DOMAIN lua.fmt = 1 .. Len(lua.fmt)
  BY DEF LuaInv, Text
<1>3. e \in 1 .. Len(lua.fmt) /\ LuaChar(e) = lua.fmt[e]
  <2>1. LuaChar(Letter) \in Options
    OBVIOUS
  <2>2. e \in 1 .. Len(lua.fmt)
    BY <1>1, <2>1, LetterIn
  <2> QED
    BY <1>2, <2>2 DEF LuaChar
<1>4. x \in 1 .. Len(lua.fmt) /\ lua.fmt[x] = "%"
  <2>1. LuaChar(x) = "%"
    BY <1>1 DEF Escape, L_ESC
  <2>2. x \in DOMAIN lua.fmt
    BY <2>1 DEF LuaChar
  <2> QED
    BY <1>2, <2>1, <2>2 DEF LuaChar
<1>5. PICK f, w : Scheme(lua.fmt, i, f, w, e)
  <2>1. i \in 1 .. Len(lua.fmt) + 1
    BY <1>1, <1>2, <1>4
  <2>2. e = scanformat(i) /\ e # NONE /\ LuaChar(e) \in Options
    BY <1>1 DEF Letter
  <2> QED
    BY <1>2, <2>1, <2>2, Scanned
<1>6. /\ h \in Text /\ h[1] = "%" /\ h[Len(h)] = LuaChar(e)
      /\ \E a, b : Scheme(h, 2, a, b, Len(h))
  <2>1. h = SubSeq(lua.fmt, x, e)
    BY <1>1 DEF Form
  <2>2. Scheme(lua.fmt, x + 1, f, w, e)
    <3>1. i = x + 1
      BY <1>1
    <3> QED
      BY <1>5, <3>1
  <2>3. PICK t : t = lua.fmt
    OBVIOUS
  <2>4. Cutting(t, x, f, w, e, h)
    BY <1>2, <1>4, <2>1, <2>2, <2>3 DEF Cutting
  <2>5. IsCut(t, e, h)
    BY <2>4, CutScheme, Zenon
  <2> QED
    BY <1>3, <2>3, <2>5 DEF IsCut
<1>7. PICK a, b : Scheme(h, 2, a, b, Len(h))
  BY <1>6
<1>8. CASE LuaChar(e) \in IntOptions
  <2>1. g = addintlen(h)
    BY <1>1, <1>8
  <2> QED
    BY <1>6, <1>7, <1>8, <2>1, WithLength
<1>9. CASE LuaChar(e) \notin IntOptions
  <2>1. g = h
    BY <1>1, <1>9
  <2>2. h[Len(h)] \in Options \ (IntOptions \cup {"q"})
    BY <1>1, <1>6, <1>9
  <2>3. Len(h) \in Nat
    BY <1>6 DEF Text
  <2>4. LuaForm(h)
    BY <1>6, <1>7, <2>2, <2>3 DEF LuaForm
  <2> QED
    BY <1>6, <2>1, <2>4
<1> QED
  BY <1>8, <1>9

LEMMA AddItemInv == FormatInv /\ AddItem => FormatInv'
<1> SUFFICES ASSUME FormatInv, AddItem PROVE FormatInv'
  OBVIOUS
<1>1. PICK g, S : /\ g = IF LuaChar(Letter) \in IntOptions THEN addintlen(Form) ELSE Form
                  /\ S = {s \in Texts : Contains(Form, ".") \/ Len(s) < LONG}
  OBVIOUS
<1>2. PICK c : c = [f |-> "str_format", size |-> 0, strings |-> S]
  OBVIOUS
<1>3. /\ Begins(c, g) /\ lua' = [lua EXCEPT !.p = Letter + 1]
      /\ Escape /\ Letter # NONE /\ LuaChar(Letter) \in Options \ {"q"}
  BY <1>1, <1>2 DEF AddItem
<1>4. LuaInv
  BY DEF FormatInv
<1>5. g \in Text /\ LuaForm(g)
  BY <1>1, <1>3, <1>4, FormPassed
<1>6. TextInv'
  <2>1. c.strings \subseteq Texts
    BY <1>1, <1>2
  <2> QED
    BY <1>3, <1>5, <2>1, BeginsText
<1>7. FormInv'
  <2>1. fmt' = g
    BY <1>3 DEF Begins
  <2> QED
    BY <1>5, <2>1 DEF FormInv
<1>8. LuaInv'
  <2>1. PICK e : e = Letter
    OBVIOUS
  <2>2. e \in 1 .. Len(lua.fmt)
    BY <1>3, <1>4, <2>1, LetterIn
  <2>3. lua' = [on |-> lua.on, fmt |-> lua.fmt, p |-> e + 1, b |-> lua.b]
    BY <1>3, <1>4, <2>1 DEF LuaInv
  <2>4. e + 1 \in Nat \ {0}
    BY <2>2
  <2> QED
    BY <1>4, <2>3, <2>4 DEF LuaInv
<1> QED
  BY <1>6, <1>7, <1>8 DEF FormatInv

LEMMA CallsText == FormatInv /\ CallsC /\ UNCHANGED lua => FormatInv'
<1> SUFFICES ASSUME FormatInv, CallsC, UNCHANGED lua PROVE FormatInv'
  OBVIOUS
<1>1. PICK c, f : f \in Formats /\ Begins(c, f) /\ c.strings = Texts /\ c.f # "str_format"
  <2>1. PICK f \in Formats :
       \/ \E name \in {"sprintf", "fprintf"} : Begins([f |-> name, size |-> 0, strings |-> Texts], f)
       \/ \E n \in Sizes : Begins([f |-> "snprintf", size |-> n, strings |-> Texts], f)
    BY DEF CallsC
  <2>2. CASE \E name \in {"sprintf", "fprintf"} :
               Begins([f |-> name, size |-> 0, strings |-> Texts], f)
    <3>1. PICK name \in {"sprintf", "fprintf"} :
            Begins([f |-> name, size |-> 0, strings |-> Texts], f)
      BY <2>2
    <3>2. PICK c : c = [f |-> name, size |-> 0, strings |-> Texts]
      OBVIOUS
    <3> QED
      BY <3>1, <3>2
  <2>3. CASE \E n \in Sizes : Begins([f |-> "snprintf", size |-> n, strings |-> Texts], f)
    <3>1. PICK n \in Sizes : Begins([f |-> "snprintf", size |-> n, strings |-> Texts], f)
      BY <2>3
    <3>2. PICK c : c = [f |-> "snprintf", size |-> n, strings |-> Texts]
      OBVIOUS
    <3> QED
      BY <3>1, <3>2
  <2> QED
    BY <2>1, <2>2, <2>3
<1>2. f \in Text
  <2>1. f \in Seq(STRING)
    BY <1>1, PrintfAssumption
  <2> QED
    BY <2>1, InText
<1>3. TextInv'
  BY <1>1, <1>2, BeginsText
<1>4. call'.f # "str_format"
  BY <1>1 DEF Begins
<1> QED
  BY <1>3, <1>4 DEF FormatInv, FormInv, LuaInv

LEMMA WalksText ==
  ASSUME FormatInv, UNCHANGED lua,
         \/ Verbatim \/ ItemFails \/ Unsupported \/ Refused \/ Taken \/ Counted
         \/ Allocate \/ WriteItem \/ WriteRest \/ Release \/ Return
  PROVE  FormatInv'
<1>1. TextInv'
  BY VerbatimText, FailsText, TakenText, CountedText, AllocateText, WriteItemText, WriteRestText,
     ReleaseText, ReturnText DEF FormatInv
<1>2. fmt' = fmt /\ call' = call
  BY DEF Verbatim, ItemFails, Unsupported, Refused, Taken, Counted, Allocate, WriteItem, WriteRest,
         Release, Return
<1> QED
  BY <1>1, <1>2 DEF FormatInv, FormInv, LuaInv

LEMMA ReturnsText == FormatInv /\ (Added \/ Finished) => FormatInv'
<1> SUFFICES ASSUME FormatInv, Added \/ Finished PROVE FormatInv'
  OBVIOUS
<1>1. Done
  BY DEF Added, Finished
<1>2. TextInv'
  BY <1>1, DoneText
<1>3. FormInv'
  BY <1>1 DEF Done, NoCall, FormInv
<1>4. LuaInv'
  <2>1. CASE Added
    <3>1. PICK t : lua' = [lua EXCEPT !.b = t]
      BY <2>1 DEF Added
    <3>2. lua' = [on |-> lua.on, fmt |-> lua.fmt, p |-> lua.p, b |-> t]
      BY <3>1 DEF FormatInv, LuaInv
    <3> QED
      BY <3>2 DEF FormatInv, LuaInv
  <2>2. CASE Finished
    BY <2>2 DEF Finished, FormatInv, LuaInv
  <2> QED
    BY <2>1, <2>2
<1> QED
  BY <1>2, <1>3, <1>4 DEF FormatInv

LEMMA QuietText ==
  ASSUME TextInv, UNCHANGED vars
  PROVE  TextInv'
<1>1. /\ UNCHANGED <<fmt, items>> /\ UNCHANGED <<call, pc, p, sz, next, out, got>>
  BY DEF vars
<1>2. /\ Total' = Total /\ Whole' = Whole /\ ItemsOk' = ItemsOk
      /\ Counts' = Counts /\ Writes' = Writes
      /\ \A k : From(k)' = From(k)
      /\ \A i, j : Plain(i, j)' = Plain(i, j)
  BY <1>1, Unmoved
<1>3. Counting => Counting'
  <2>1. Even(From(Len(items)), p)' = Even(From(Len(items)), p)
    BY <1>1 DEF Even, Copy, Copies, From
  <2>2. Plain(From(Len(items)), p)' = Plain(From(Len(items)), p)
    BY <1>1 DEF Plain, From
  <2>3. From(Len(items))' = From(Len(items))
    BY <1>1 DEF From
  <2> QED
    BY <1>1, <1>2, <2>1, <2>2, <2>3 DEF Counting
<1>4. Writing => Writing'
  BY <1>1, <1>2 DEF Writing, From, First
<1>5. Unwritten => Unwritten'
  BY <1>1 DEF Unwritten
<1> QED
  BY <1>1, <1>2, <1>3, <1>4, <1>5 DEF TextInv

LEMMA FormatStep == FormatInv /\ [Next]_allVars => FormatInv'
<1> SUFFICES ASSUME FormatInv, [Next]_allVars PROVE FormatInv'
  OBVIOUS
<1>1. CASE UNCHANGED allVars
  <2>1. TextInv'
    BY <1>1, QuietText DEF allVars, FormatInv
  <2> QED
    BY <1>1, <2>1 DEF allVars, vars, FormatInv, FormInv, LuaInv
<1>2. CASE CallsC /\ UNCHANGED lua
  BY <1>2, CallsText
<1>3. CASE /\ \/ Verbatim \/ ItemFails \/ Unsupported \/ Refused \/ Taken \/ Counted
              \/ Allocate \/ WriteItem \/ WriteRest \/ Release \/ Return
           /\ UNCHANGED lua
  BY <1>3, WalksText
<1>4. CASE Formats_ \/ AddChar \/ Error \/ AddString \/ PushResult
  <2>1. UNCHANGED vars
    BY <1>4 DEF Formats_, AddChar, Error, AddString, PushResult
  <2>2. TextInv'
    BY <2>1, QuietText DEF FormatInv
  <2>3. LuaInv'
    BY <1>4, ScriptInv DEF FormatInv
  <2> QED
    BY <2>1, <2>2, <2>3 DEF vars, FormatInv, FormInv
<1>5. CASE AddItem
  BY <1>5, AddItemInv
<1>6. CASE Added \/ Finished
  BY <1>6, ReturnsText
<1> QED
  BY <1>1, <1>2, <1>3, <1>4, <1>5, <1>6 DEF Next

LEMMA FormsKnown == FormatInv => FormsAccepted
<1> SUFFICES ASSUME FormatInv, call.f = "str_format", AtDirective,
                    ~\E i \in 2 .. Len(fmt) - 1 : fmt[i - 1] = "." /\ fmt[i] = "0"
             PROVE  Directive(p + 1).known
  BY DEF FormsAccepted
<1>1. fmt \in Text /\ LuaForm(fmt) /\ p \in 1 .. Len(fmt) + 1 /\ Len(fmt) \in Nat
  BY DEF FormatInv, TextInv, FormInv, Text
<1>2. p \in DOMAIN fmt /\ fmt[p] = "%"
  BY DEF AtDirective, Char
<1>3. ~(p \in 2 .. Len(fmt))
  BY <1>1, <1>2, OnePercent
<1>4. DOMAIN fmt = 1 .. Len(fmt)
  BY <1>1 DEF Text
<1>5. p = 1 /\ p + 1 = 2
  BY <1>1, <1>2, <1>3, <1>4
<1>6. Directive(2).known
  BY <1>1, KnownForm
<1> QED
  BY <1>5, <1>6

(* Formatted: for C code and for a script, the room that the first walk      *)
(* counts is enough for the second unless a string is cut to less than its   *)
(* width ("%5.2s", osglue.c:2341); the text is the one the C library gives,  *)
(* if all directives are supported ones; and what string.format lets through *)
(* is understood unless a precision begins with a zero (osglue.c:1878).      *)
THEOREM FormatRight == Spec => []Formatted
<1>1. LuaInit => FormatInv
  <2> SUFFICES ASSUME LuaInit PROVE FormatInv
    OBVIOUS
  <2>1. call = NoCall /\ fmt = <<>> /\ pc = "idle" /\ p = 1 /\ items = <<>> /\ lua = NoScript
    BY DEF LuaInit, Init
  <2>2. TextInv
    BY <2>1, IdleText
  <2>3. <<>> \in Text
    BY DEF Text
  <2>4. LuaInv
    BY <2>1, <2>3 DEF LuaInv, NoScript
  <2>5. FormInv
    BY <2>1 DEF FormInv, NoCall
  <2> QED
    BY <2>2, <2>4, <2>5 DEF FormatInv
<1>2. FormatInv => Formatted
  BY RoomEnough, TextAsC, FormsKnown DEF FormatInv, Formatted
<1> QED
  BY <1>1, <1>2, FormatStep, PTL DEF Spec
=============================================================================
