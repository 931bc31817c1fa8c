--------------------------- MODULE GlueHeapProofs ---------------------------
(***************************************************************************)
(* Theorems about the heap of osglue.c, for every number of handles,       *)
(* addresses, callers and sizes, and every pattern of failing resizes and  *)
(* allocations.                                                            *)
(***************************************************************************)
EXTENDS GlueHeap, SequenceTheorems, TLAPS

-----------------------------------------------------------------------------
(* The operations of memory_list *)

(* Removing slot i yields a table one slot shorter that differs from the   *)
(* old one at slot i only, where the former last entry now is.             *)
LEMMA UnregisteredFacts ==
  ASSUME NEW l \in Seq(Slot), NEW i \in 1 .. Len(l)
  PROVE  /\ Unregistered(l, i) \in Seq(Slot)
         /\ Len(Unregistered(l, i)) = Len(l) - 1
         /\ \A j \in 1 .. (Len(l) - 1) :
              Unregistered(l, i)[j] = IF j = i THEN l[Len(l)] ELSE l[j]
<1> DEFINE n == Len(l) - 1
<1>1. n \in Nat /\ Len(l) \in Nat
  OBVIOUS
<1>2. \A j \in 1 .. Len(l) : l[j] \in Slot
  BY ElementOfSeq
<1>3. Unregistered(l, i) \in [1 .. n -> Slot]
  BY <1>1, <1>2 DEF Unregistered
<1>4. Unregistered(l, i) \in Seq(Slot)
  BY <1>1, <1>3, SeqDef
<1>5. DOMAIN Unregistered(l, i) = 1 .. n
  BY DEF Unregistered
<1>6. Len(Unregistered(l, i)) = n
  BY <1>1, <1>4, <1>5, LenProperties
<1> QED BY <1>4, <1>6 DEF Unregistered

LEMMA UnregisteredKeepsOthers ==
  ASSUME NEW l \in Seq(Slot), NEW i \in 1 .. Len(l),
         NEW j \in 1 .. Len(Unregistered(l, i))
  PROVE  \E k \in 1 .. Len(l) : k # i /\ Unregistered(l, i)[j] = l[k]
<1>1. Len(l) \in Nat /\ Len(Unregistered(l, i)) = Len(l) - 1
  BY UnregisteredFacts
<1>2. Unregistered(l, i)[j] = IF j = i THEN l[Len(l)] ELSE l[j]
  BY <1>1, UnregisteredFacts
<1> QED BY <1>1, <1>2

(* Updating the address of a handle changes no handle, and only the        *)
(* address of the first slot that holds this one.                          *)
LEMMA UpdatedFacts ==
  ASSUME NEW l \in Seq(Slot), NEW h \in Handles, NEW a \in Addresses
  PROVE  /\ Updated(l, h, a) \in Seq(Slot)
         /\ Len(Updated(l, h, a)) = Len(l)
         /\ \A j \in 1 .. Len(l) :
              /\ Updated(l, h, a)[j].hdl = l[j].hdl
              /\ Updated(l, h, a)[j] # l[j] =>
                   /\ l[j].hdl = h /\ \A k \in 1 .. (j - 1) : l[k].hdl # h
              /\ l[j].hdl = h /\ (\A k \in 1 .. (j - 1) : l[k].hdl # h) =>
                   Updated(l, h, a)[j].ptr = a
<1> DEFINE first(j) == l[j].hdl = h /\ \A k \in 1 .. (j - 1) : l[k].hdl # h
           new(j) == [l[j] EXCEPT !.ptr = a]
<1>1. Len(l) \in Nat
  OBVIOUS
<1>2. \A j \in 1 .. Len(l) : l[j] \in Slot
  BY ElementOfSeq
<1>3. ASSUME NEW j \in 1 .. Len(l), l[j].hdl = h
      PROVE  new(j) \in Slot /\ new(j).hdl = h /\ new(j).ptr = a
  <2>1. l[j] \in Entry
    BY <1>2, <1>3, HeapAssumption DEF HeapAssumption, Slot, Unset
  <2> QED BY <1>3, <2>1 DEF Entry, Slot
<1> HIDE DEF new
<1>4. Updated(l, h, a) = [j \in 1 .. Len(l) |-> IF first(j) THEN new(j) ELSE l[j]]
  BY DEF Updated, new
<1>5. Updated(l, h, a) \in [1 .. Len(l) -> Slot]
  BY <1>1, <1>2, <1>3, <1>4
<1>6. Updated(l, h, a) \in Seq(Slot)
  BY <1>1, <1>5, SeqDef
<1>7. DOMAIN Updated(l, h, a) = 1 .. Len(l)
  BY <1>4
<1>8. Len(Updated(l, h, a)) = Len(l)
  BY <1>1, <1>6, <1>7, LenProperties
<1> QED BY <1>3, <1>4, <1>6, <1>8

(* The handles a table knows, and that it knows each of them once. *)
HandlesOf(l) == {l[i].hdl : i \in 1 .. Len(l)}
Once(l) == \A i, j \in 1 .. Len(l) : l[i].hdl = l[j].hdl => i = j

LEMMA UnregisteredHandles ==
  ASSUME NEW l \in Seq(Slot), NEW i \in 1 .. Len(l), Once(l)
  PROVE  /\ Once(Unregistered(l, i))
         /\ HandlesOf(Unregistered(l, i)) = HandlesOf(l) \ {l[i].hdl}
<1> DEFINE u == Unregistered(l, i)
<1>1. Len(l) \in Nat /\ Len(u) = Len(l) - 1
  BY UnregisteredFacts
<1>2. \A j \in 1 .. Len(u) : u[j] = IF j = i THEN l[Len(l)] ELSE l[j]
  BY <1>1, UnregisteredFacts
<1> HIDE DEF u
<1>3. Once(u)
  BY <1>1, <1>2 DEF Once
<1>4. ASSUME NEW x \in HandlesOf(u) PROVE x \in HandlesOf(l) \ {l[i].hdl}
  <2>1. PICK j \in 1 .. Len(u) : x = u[j].hdl
    BY DEF HandlesOf
  <2>2. PICK k \in 1 .. Len(l) : k # i /\ u[j] = l[k]
    BY <1>1, <1>2
  <2> QED BY <2>1, <2>2 DEF HandlesOf, Once
<1>5. ASSUME NEW x \in HandlesOf(l) \ {l[i].hdl} PROVE x \in HandlesOf(u)
  <2>1. PICK k \in 1 .. Len(l) : x = l[k].hdl
    BY DEF HandlesOf
  <2>2. k # i
    BY <2>1
  <2>3. PICK j \in 1 .. Len(u) : u[j] = l[k]
    <3>1. CASE k = Len(l)
      BY <1>1, <1>2, <2>2, <3>1
    <3>2. CASE k # Len(l)
      BY <1>1, <1>2, <2>2, <3>2
    <3> QED BY <3>1, <3>2
  <2> QED BY <2>1, <2>3 DEF HandlesOf
<1> QED BY <1>3, <1>4, <1>5 DEF u

LEMMA AppendHandles ==
  ASSUME NEW l \in Seq(Slot), NEW e \in Slot, Once(l), e.hdl \notin HandlesOf(l)
  PROVE  /\ Once(Append(l, e))
         /\ HandlesOf(Append(l, e)) = HandlesOf(l) \union {e.hdl}
<1> DEFINE u == Append(l, e)
<1>1. /\ Len(l) \in Nat /\ Len(u) = Len(l) + 1
      /\ \A j \in 1 .. Len(l) : u[j] = l[j]
      /\ u[Len(l) + 1] = e
  BY AppendProperties
<1> HIDE DEF u
<1>2. \A j \in 1 .. Len(u) : j \in 1 .. Len(l) \/ j = Len(l) + 1
  BY <1>1
<1>3. \A j \in 1 .. Len(l) : l[j].hdl # e.hdl
  BY DEF HandlesOf
<1>4. Once(u)
  BY <1>1, <1>2, <1>3 DEF Once
<1>5. \A j \in 1 .. Len(l) : j \in 1 .. Len(u)
  BY <1>1
<1>6. Len(l) + 1 \in 1 .. Len(u)
  BY <1>1
<1>7. HandlesOf(u) = HandlesOf(l) \union {e.hdl}
  BY <1>1, <1>2, <1>5, <1>6 DEF HandlesOf
<1> QED BY <1>4, <1>7 DEF u

LEMMA SameHandles ==
  ASSUME NEW l \in Seq(Slot), NEW u \in Seq(Slot), Once(l), Len(u) = Len(l),
         \A j \in 1 .. Len(l) : u[j].hdl = l[j].hdl
  PROVE  Once(u) /\ HandlesOf(u) = HandlesOf(l)
BY DEF Once, HandlesOf

(* What is freed leaves the table and the memory together. *)
LEMMA ReleasedTypes ==
  ASSUME NEW l \in Seq(Slot), NEW m \in [Handles -> Chunk], NEW p, NEW l2, NEW m2,
         Released(p, l, m, l2, m2)
  PROVE  /\ l2 \in Seq(Slot) /\ m2 \in [Handles -> Chunk]
         /\ Len(l2) <= Len(l) /\ Len(l2) \in Nat
<1>1. NoChunk \in Chunk
  BY HeapAssumption DEF HeapAssumption, NoChunk, Chunk
<1>2. Len(l) \in Nat
  OBVIOUS
<1>3. ASSUME NEW i \in 1 .. Len(l), l2 = Unregistered(l, i),
             m2 = [m EXCEPT ![l[i].hdl] = NoChunk]
      PROVE  /\ l2 \in Seq(Slot) /\ m2 \in [Handles -> Chunk]
             /\ Len(l2) <= Len(l) /\ Len(l2) \in Nat
  <2>1. l2 \in Seq(Slot) /\ Len(l2) = Len(l) - 1
    BY <1>3, UnregisteredFacts
  <2>2. m2 \in [Handles -> Chunk]
    BY <1>1, <1>3
  <2> QED BY <1>2, <2>1, <2>2
<1> QED BY <1>2, <1>3 DEF Released

Allocated(m) == {h \in Handles : m[h].addr # NULL}

LEMMA ReleasedHandles ==
  ASSUME NEW l \in Seq(Slot), NEW m \in [Handles -> Chunk], NEW p, NEW l2, NEW m2,
         Released(p, l, m, l2, m2), Once(l), Allocated(m) = HandlesOf(l)
  PROVE  Once(l2) /\ Allocated(m2) = HandlesOf(l2)
<1>1. ASSUME NEW i \in 1 .. Len(l), l2 = Unregistered(l, i),
             m2 = [m EXCEPT ![l[i].hdl] = NoChunk]
      PROVE  Once(l2) /\ Allocated(m2) = HandlesOf(l2)
  <2>1. Once(l2) /\ HandlesOf(l2) = HandlesOf(l) \ {l[i].hdl}
    BY <1>1, UnregisteredHandles
  <2>2. Allocated(m2) = Allocated(m) \ {l[i].hdl}
    BY <1>1 DEF Allocated, NoChunk
  <2> QED BY <2>1, <2>2
<1> QED BY <1>1 DEF Released

-----------------------------------------------------------------------------
(* The table while a call waits *)

(* memory_list as it will be when the waiting call has written its slot. *)
known == IF waiting = NULL THEN list ELSE Written(list, waiting)

Pair(call) == [hdl |-> call.hdl, ptr |-> call.ptr]

LEMMA WrittenFacts ==
  ASSUME NEW l \in Seq(Slot), NEW call \in Call
  PROVE  /\ Written(l, call) \in Seq(Slot)
         /\ Len(Written(l, call)) = Len(l)
         /\ \A j \in 1 .. Len(l) :
              Written(l, call)[j] = IF j = call.slot THEN Pair(call) ELSE l[j]
<1>1. Len(l) \in Nat
  OBVIOUS
<1>2. \A j \in 1 .. Len(l) : l[j] \in Slot
  BY ElementOfSeq
<1>3. Pair(call) \in Slot
  BY DEF Pair, Call, Slot, Entry
<1>4. Written(l, call) = [j \in 1 .. Len(l) |-> IF j = call.slot THEN Pair(call) ELSE l[j]]
  BY DEF Written, Pair
<1>5. Written(l, call) \in [1 .. Len(l) -> Slot]
  BY <1>2, <1>3, <1>4
<1>6. Written(l, call) \in Seq(Slot)
  BY <1>1, <1>5, SeqDef
<1>7. Len(Written(l, call)) = Len(l)
  BY <1>1, <1>4, <1>6, LenProperties
<1> QED BY <1>4, <1>6, <1>7

(* What a suspended call leaves will be the old table and its pair. *)
LEMMA WrittenAppends ==
  ASSUME NEW l \in Seq(Slot), NEW junk \in Slot, NEW call \in Call, call.slot = Len(l) + 1
  PROVE  /\ Written(Append(l, junk), call) = Append(l, Pair(call))
         /\ Len(Append(l, junk)) = Len(l) + 1 /\ Len(l) + 1 > 0
<1>1. Pair(call) \in Slot
  BY DEF Pair, Call, Slot, Entry
<1> DEFINE u == Append(l, Pair(call))
           w == Append(l, junk)
<1>2. /\ Len(l) \in Nat /\ u \in Seq(Slot) /\ Len(u) = Len(l) + 1
      /\ \A j \in 1 .. Len(l) : u[j] = l[j]
      /\ u[Len(l) + 1] = Pair(call)
  BY <1>1, AppendProperties
<1>3. /\ w \in Seq(Slot) /\ Len(w) = Len(l) + 1
      /\ \A j \in 1 .. Len(l) : w[j] = l[j]
  BY AppendProperties
<1> HIDE DEF u, w
<1>4. Written(w, call) \in Seq(Slot) /\ Len(Written(w, call)) = Len(u)
  BY <1>2, <1>3, WrittenFacts
<1>5. ASSUME NEW j \in 1 .. Len(u) PROVE Written(w, call)[j] = u[j]
  <2>1. Written(w, call)[j] = IF j = call.slot THEN Pair(call) ELSE w[j]
    BY <1>2, <1>3, WrittenFacts
  <2>2. CASE j = Len(l) + 1
    BY <1>2, <2>1, <2>2
  <2>3. CASE j # Len(l) + 1
    <3>1. j \in 1 .. Len(l)
      BY <1>2, <2>3
    <3> QED BY <1>2, <1>3, <2>1, <2>3, <3>1
  <2> QED BY <2>2, <2>3
<1>6. Written(w, call) = u
  BY <1>2, <1>4, <1>5, SeqEqual
<1> QED BY <1>2, <1>3, <1>6 DEF u, w

-----------------------------------------------------------------------------
(* Type correctness *)

LEMMA TypeInit == Init => TypeOK
<1>1. NoChunk \in Chunk /\ Nothing \in [size: 0 .. MaxSize, len: 0 .. MaxSize]
  BY HeapAssumption DEF HeapAssumption, NoChunk, Chunk, Nothing
<1>2. <<>> \in Seq(Slot)
  OBVIOUS
<1>3. ASSUME Init
      PROVE  /\ up \in BOOLEAN /\ moved \in BOOLEAN /\ starved \in BOOLEAN
             /\ disturbed \in BOOLEAN /\ waiting \in Call \union {NULL}
  BY <1>3, Zenon DEF Init
<1>4. ASSUME Init PROVE mem \in [Handles -> Chunk] /\ ptr \in [Blocks -> Addresses \union {NULL}]
  BY <1>1, <1>4 DEF Init
<1>5. ASSUME Init PROVE want \in [Blocks -> [size: 0 .. MaxSize, len: 0 .. MaxSize]]
  BY <1>1, <1>5 DEF Init
<1>6. ASSUME Init PROVE size \in Nat /\ cap \in Nat /\ list \in Seq(Slot)
  BY <1>2, <1>6 DEF Init
<1> QED BY <1>3, <1>4, <1>5, <1>6, Zenon DEF TypeOK

LEMMA GrownType ==
  ASSUME size \in Nat, cap \in Nat, Grown
  PROVE  size' \in Nat /\ cap' \in Nat
BY DEF Grown

LEMMA DisturbsType ==
  ASSUME disturbed \in BOOLEAN, Disturbs
  PROVE  disturbed' \in BOOLEAN
BY Zenon DEF Disturbs

LEMMA SuspendedType ==
  ASSUME TypeOK, NEW call \in Call, Suspended(call)
  PROVE  /\ list' \in Seq(Slot) /\ size' \in Nat /\ cap' \in Nat
         /\ waiting' \in Call \union {NULL} /\ starved' \in BOOLEAN /\ disturbed' \in BOOLEAN
<1>1. PICK junk \in Slot : list' = Append(list, junk)
  BY DEF Suspended
<1>2. list' \in Seq(Slot)
  BY <1>1, AppendProperties DEF TypeOK
<1>3. size' \in Nat /\ cap' \in Nat
  BY DEF Suspended, TypeOK
<1>4. waiting' \in Call \union {NULL} /\ starved' \in BOOLEAN /\ disturbed' \in BOOLEAN
  BY Zenon DEF Suspended, TypeOK
<1> QED BY <1>2, <1>3, <1>4

LEMMA NewChunkType ==
  ASSUME TypeOK, NEW n \in Sizes, NEW h \in Handles, NEW a \in Addresses, NewChunk(n, h, a)
  PROVE  mem' \in [Handles -> Chunk]
<1>1. Fresh(a, n) \in Chunk
  BY HeapAssumption DEF HeapAssumption, Fresh, Chunk, Sizes
<1> QED BY <1>1 DEF TypeOK, NewChunk

(* The table and the memory after a copy, and what its caller holds. *)
LEMMA CopiedTypes ==
  ASSUME TypeOK, NEW b \in Blocks, NEW n \in Sizes, NEW h \in Handles, NEW a,
         NEW h2 \in Handles, NEW a2 \in Addresses, NEW l \in Seq(Slot),
         NEW m \in [Handles -> Chunk], Copied(b, n, h, a, h2, a2, l, m)
  PROVE  /\ list' \in Seq(Slot) /\ mem' \in [Handles -> Chunk]
         /\ ptr' \in [Blocks -> Addresses \union {NULL}]
         /\ want' \in [Blocks -> [size: 0 .. MaxSize, len: 0 .. MaxSize]]
         /\ Len(list') <= Len(l) /\ Len(list') \in Nat
<1> USE HeapAssumption DEF HeapAssumption
<1>1. \A k, q \in 0 .. MaxSize : Smaller(k, q) \in 0 .. MaxSize
  BY DEF Smaller
<1>2. n \in 0 .. MaxSize
  BY DEF Sizes
<1>3. CopyOf(m[h], a2, n) \in Chunk
  <2>1. m[h] \in Chunk
    OBVIOUS
  <2> QED BY <1>1, <1>2, <2>1 DEF CopyOf, Chunk
<1>4. PICK both \in [Handles -> Chunk] : both = [m EXCEPT ![h2] = CopyOf(m[h], a2, n)]
  BY <1>3
<1>5. Released(a, l, both, list', mem')
  BY <1>4 DEF Copied
<1>6. list' \in Seq(Slot) /\ mem' \in [Handles -> Chunk] /\ Len(list') <= Len(l) /\ Len(list') \in Nat
  BY <1>5, ReleasedTypes
<1>7. ptr' \in [Blocks -> Addresses \union {NULL}]
  BY DEF Copied, TypeOK
<1>8. want' \in [Blocks -> [size: 0 .. MaxSize, len: 0 .. MaxSize]]
  <2>1. want[b].len \in 0 .. MaxSize
    BY DEF TypeOK
  <2>2. want' = [want EXCEPT ![b] = [size |-> n, len |-> Smaller(want[b].len, n)]]
    BY DEF Copied, TypeOK
  <2>3. [size |-> n, len |-> Smaller(want[b].len, n)] \in [size: 0 .. MaxSize, len: 0 .. MaxSize]
    BY <1>1, <1>2, <2>1
  <2> QED BY <2>2, <2>3 DEF TypeOK
<1> QED BY <1>6, <1>7, <1>8

(* The memory with the old chunk where it was locked again. *)
LEMMA LockedAgain ==
  ASSUME TypeOK, NEW h \in Handles, NEW a \in Addresses
  PROVE  [mem EXCEPT ![h].addr = a] \in [Handles -> Chunk]
BY DEF TypeOK, Chunk

LEMMA TypeStep == TypeOK /\ [Next]_vars => TypeOK'
<1> SUFFICES ASSUME TypeOK, [Next]_vars PROVE TypeOK'
  OBVIOUS
<1> USE HeapAssumption DEF HeapAssumption
<1>0. NoChunk \in Chunk /\ Nothing \in [size: 0 .. MaxSize, len: 0 .. MaxSize]
  BY DEF NoChunk, Chunk, Nothing
<1>00. \A m, n \in 0 .. MaxSize : Smaller(m, n) \in 0 .. MaxSize
  BY DEF Smaller
<1>000. \A n \in Sizes : n \in 0 .. MaxSize
  BY DEF Sizes
<1>1. ASSUME NEW b \in Blocks, MallocFails(b) PROVE TypeOK'
  BY <1>1 DEF MallocFails, TypeOK, vars
<1>2. ASSUME NEW b \in Blocks, NEW n \in Sizes, Malloc(b, n) PROVE TypeOK'
  <2>1. PICK h \in Handles, a \in Addresses :
          /\ NewChunk(n, h, a)
          /\ list' = Append(list, [hdl |-> h, ptr |-> a])
          /\ ptr' = [ptr EXCEPT ![b] = a]
    BY <1>2 DEF Malloc
  <2>2. mem' \in [Handles -> Chunk] /\ ptr' \in [Blocks -> Addresses \union {NULL}]
    BY <2>1, NewChunkType DEF TypeOK
  <2>3. [hdl |-> h, ptr |-> a] \in Slot
    BY DEF Slot, Entry
  <2>4. list' \in Seq(Slot)
    BY <2>1, <2>3, AppendProperties DEF TypeOK
  <2>5. want' \in [Blocks -> [size: 0 .. MaxSize, len: 0 .. MaxSize]]
    BY <1>2, <1>000 DEF Malloc, TypeOK
  <2>6. size' \in Nat /\ cap' \in Nat /\ disturbed' \in BOOLEAN
    BY <1>2, GrownType, DisturbsType DEF Malloc, TypeOK
  <2> QED BY <1>2, <2>2, <2>4, <2>5, <2>6 DEF Malloc, TypeOK
<1>3. ASSUME NEW b \in Blocks, NEW n \in Sizes, MallocWaits(b, n) PROVE TypeOK'
  <2>1. PICK h \in Handles, a \in Addresses :
          /\ NewChunk(n, h, a)
          /\ Suspended([block |-> b, slot |-> Len(list) + 1, hdl |-> h, ptr |-> a,
                        size |-> n, old |-> NULL, at |-> NULL])
    BY <1>3 DEF MallocWaits
  <2>2. [block |-> b, slot |-> Len(list) + 1, hdl |-> h, ptr |-> a,
         size |-> n, old |-> NULL, at |-> NULL] \in Call
    BY DEF Call, TypeOK
  <2>3. mem' \in [Handles -> Chunk]
    BY <2>1, NewChunkType
  <2> QED BY <1>3, <2>1, <2>2, <2>3, SuspendedType DEF MallocWaits, TypeOK
<1>4. ASSUME NEW b \in Blocks, Fill(b) PROVE TypeOK'
  <2>1. mem' \in [Handles -> Chunk]
    <3>1. \A h \in Handles : mem[h] \in Chunk
      BY DEF TypeOK
    <3>2. want[b].size \in 0 .. MaxSize
      BY DEF TypeOK
    <3>3. \A h \in Handles : [mem[h] EXCEPT !.owner = b, !.len = Smaller(want[b].size, mem[h].size)] \in Chunk
      BY <3>1, <3>2, <1>00 DEF Chunk
    <3> QED BY <1>4, <3>1, <3>3 DEF Fill
  <2>2. want' \in [Blocks -> [size: 0 .. MaxSize, len: 0 .. MaxSize]]
    BY <1>4 DEF Fill, TypeOK
  <2> QED BY <1>4, <2>1, <2>2 DEF Fill, TypeOK, table
<1>5. ASSUME NEW b \in Blocks, Free(b) PROVE TypeOK'
  <2>1. PICK l \in Seq(Slot), m \in [Handles -> Chunk] : l = list /\ m = mem
    BY DEF TypeOK
  <2>2. PICK l2, m2 : l2 = list' /\ m2 = mem'
    OBVIOUS
  <2>3. Released(ptr[b], l, m, l2, m2)
    BY <1>5, <2>1, <2>2 DEF Free
  <2>4. list' \in Seq(Slot) /\ mem' \in [Handles -> Chunk]
    BY <2>2, <2>3, ReleasedTypes
  <2>5. /\ ptr' \in [Blocks -> Addresses \union {NULL}]
        /\ want' \in [Blocks -> [size: 0 .. MaxSize, len: 0 .. MaxSize]]
    BY <1>5, <1>0 DEF Free, TypeOK
  <2>6. disturbed' \in BOOLEAN
    BY <1>5, DisturbsType DEF Free, TypeOK
  <2> QED BY <1>5, <2>4, <2>5, <2>6 DEF Free, TypeOK
<1>6. ASSUME NEW b \in Blocks, ReallocUnknown(b) PROVE TypeOK'
  BY <1>6 DEF ReallocUnknown, TypeOK, vars
<1>7. ASSUME NEW b \in Blocks, NEW n \in Sizes, ReallocInPlace(b, n) PROVE TypeOK'
  <2>1. PICK i \in 1 .. Len(list), a \in Addresses : Resized(b, n, i, a)
    BY <1>7 DEF ReallocInPlace
  <2>2. PICK h \in Handles : h = list[i].hdl
    BY <2>1 DEF Resized, Relocked, Live
  <2>3. mem' \in [Handles -> Chunk]
    <3>1. mem[h] \in Chunk
      BY DEF TypeOK
    <3>2. ResizedChunk(mem[h], a, n) \in Chunk
      BY <3>1, <1>00, <1>000 DEF Chunk, ResizedChunk
    <3> QED BY <2>1, <2>2, <3>2 DEF TypeOK, Resized
  <2>4. list' \in Seq(Slot)
    BY <2>1, <2>2, UpdatedFacts DEF TypeOK, Resized
  <2>5. ptr' \in [Blocks -> Addresses \union {NULL}]
    BY <2>1 DEF TypeOK, Resized
  <2>6. want' \in [Blocks -> [size: 0 .. MaxSize, len: 0 .. MaxSize]]
    <3>1. want[b].len \in 0 .. MaxSize
      BY DEF TypeOK
    <3> QED BY <1>7, <3>1, <1>00, <1>000 DEF ReallocInPlace, TypeOK
  <2> QED BY <1>7, <2>3, <2>4, <2>5, <2>6 DEF ReallocInPlace, TypeOK
<1>8. ASSUME NEW b \in Blocks, NEW n \in Sizes, ReallocFails(b, n) PROVE TypeOK'
  <2>1. PICK i \in 1 .. Len(list), a \in Addresses :
          Displaced(b, n, i, a) /\ mem' = [mem EXCEPT ![list[i].hdl].addr = a]
    BY <1>8 DEF ReallocFails
  <2>2. list[i].hdl \in Handles
    BY <2>1 DEF Displaced, Relocked, Live
  <2>3. mem' \in [Handles -> Chunk]
    BY <2>1, <2>2, LockedAgain
  <2>4. moved' \in BOOLEAN
    BY <2>1, Zenon DEF Displaced, TypeOK
  <2> QED BY <1>8, <2>3, <2>4 DEF ReallocFails, TypeOK, table
<1>9. ASSUME NEW b \in Blocks, NEW n \in Sizes, ReallocCopies(b, n) PROVE TypeOK'
  <2>1. PICK i \in 1 .. Len(list), h2 \in Handles, a \in Addresses, a2 \in Addresses :
          /\ Doubled(b, n, i, a, h2, a2)
          /\ Copied(b, n, list[i].hdl, a, h2, a2, Append(list, [hdl |-> h2, ptr |-> a2]),
                    [mem EXCEPT ![list[i].hdl].addr = a])
    BY <1>9 DEF ReallocCopies
  <2>2. PICK h \in Handles : h = list[i].hdl
    BY <2>1 DEF Doubled, Displaced, Relocked, Live
  <2>3. [hdl |-> h2, ptr |-> a2] \in Slot
    BY DEF Slot, Entry
  <2>4. PICK l \in Seq(Slot) : l = Append(list, [hdl |-> h2, ptr |-> a2])
    BY <2>3, AppendProperties DEF TypeOK
  <2>5. PICK m \in [Handles -> Chunk] : m = [mem EXCEPT ![h].addr = a]
    BY LockedAgain
  <2>6. Copied(b, n, h, a, h2, a2, l, m)
    BY <2>1, <2>2, <2>4, <2>5
  <2>7. moved' \in BOOLEAN
    BY <2>1, Zenon DEF Doubled, Displaced, TypeOK
  <2>8. size' \in Nat /\ cap' \in Nat /\ disturbed' \in BOOLEAN
    BY <1>9, GrownType, DisturbsType DEF ReallocCopies, TypeOK
  <2> QED BY <1>9, <2>6, <2>7, <2>8, CopiedTypes DEF ReallocCopies, TypeOK
<1>10. ASSUME NEW b \in Blocks, NEW n \in Sizes, ReallocWaits(b, n) PROVE TypeOK'
  <2>1. PICK i \in 1 .. Len(list), h2 \in Handles, a \in Addresses, a2 \in Addresses :
          /\ Doubled(b, n, i, a, h2, a2)
          /\ mem' = [mem EXCEPT ![list[i].hdl].addr = a, ![h2] = Fresh(a2, n)]
          /\ Suspended([block |-> b, slot |-> Len(list) + 1, hdl |-> h2, ptr |-> a2,
                        size |-> n, old |-> list[i].hdl, at |-> a])
    BY <1>10 DEF ReallocWaits
  <2>2. PICK h \in Handles : h = list[i].hdl
    BY <2>1 DEF Doubled, Displaced, Relocked, Live
  <2>3. [block |-> b, slot |-> Len(list) + 1, hdl |-> h2, ptr |-> a2,
         size |-> n, old |-> list[i].hdl, at |-> a] \in Call
    BY <2>2 DEF Call, TypeOK
  <2>4. Fresh(a2, n) \in Chunk
    BY DEF Fresh, Chunk, Sizes
  <2>5. PICK m \in [Handles -> Chunk] : m = [mem EXCEPT ![h].addr = a]
    BY LockedAgain
  <2>6. mem' = [m EXCEPT ![h2] = Fresh(a2, n)]
    BY <2>1, <2>2, <2>5
  <2>7. mem' \in [Handles -> Chunk]
    BY <2>4, <2>5, <2>6
  <2>8. moved' \in BOOLEAN
    BY <2>1, Zenon DEF Doubled, Displaced, TypeOK
  <2> QED BY <1>10, <2>1, <2>3, <2>7, <2>8, SuspendedType DEF ReallocWaits, TypeOK
<1>11. CASE MallocResumes
  <2>1. PICK call \in Call : call = waiting
    BY <1>11, Zenon DEF MallocResumes, TypeOK
  <2>2. /\ list' = Written(list, call) /\ ptr' = [ptr EXCEPT ![call.block] = call.ptr]
        /\ want' = [want EXCEPT ![call.block] = [size |-> call.size, len |-> 0]]
    BY <1>11, <2>1 DEF MallocResumes
  <2>3. list' \in Seq(Slot)
    BY <2>2, WrittenFacts DEF TypeOK
  <2>4. call.block \in Blocks /\ call.ptr \in Addresses /\ call.size \in 0 .. MaxSize
    BY <1>000 DEF Call
  <2>5. /\ ptr' \in [Blocks -> Addresses \union {NULL}]
        /\ want' \in [Blocks -> [size: 0 .. MaxSize, len: 0 .. MaxSize]]
    BY <2>2, <2>4 DEF TypeOK
  <2> QED BY <1>11, <2>3, <2>5 DEF MallocResumes, TypeOK
<1>12. CASE ReallocResumes
  <2>1. PICK call \in Call : call = waiting
    BY <1>12, Zenon DEF ReallocResumes, TypeOK
  <2>2. call.block \in Blocks /\ call.ptr \in Addresses /\ call.size \in Sizes /\ call.hdl \in Handles
    BY DEF Call
  <2>3. PICK l \in Seq(Slot) : l = Written(list, call)
    BY WrittenFacts DEF TypeOK
  <2>4. PICK m \in [Handles -> Chunk] : m = mem
    BY DEF TypeOK
  <2>5. PICK h \in Handles : h = call.old
    BY <1>12, <2>1 DEF ReallocResumes, Live
  <2>6. Copied(call.block, call.size, h, call.at, call.hdl, call.ptr, l, m)
    BY <1>12, <2>1, <2>3, <2>4, <2>5 DEF ReallocResumes
  <2> QED BY <1>12, <2>2, <2>6, CopiedTypes DEF ReallocResumes, TypeOK
<1>13. CASE Release
  <2>1. <<>> \in Seq(Slot)
    OBVIOUS
  <2> QED BY <1>13, <1>0, <2>1 DEF Release, TypeOK
<1>14. CASE Prepare
  <2>1. <<>> \in Seq(Slot)
    OBVIOUS
  <2> QED BY <1>14, <2>1 DEF Prepare, TypeOK
<1>15. CASE UNCHANGED vars
  BY <1>15 DEF TypeOK, vars
<1> QED
  BY <1>1, <1>2, <1>3, <1>4, <1>5, <1>6, <1>7, <1>8, <1>9, <1>10, <1>11, <1>12, <1>13,
     <1>14, <1>15 DEF Next

(* Every variable keeps its type in every step of the glue's heap. *)
THEOREM HeapTypeCorrect == Spec => []TypeOK
BY TypeInit, TypeStep, PTL DEF Spec

-----------------------------------------------------------------------------
(* memory_list knows exactly the allocated handles *)

(* Between shutdown and launch the table is empty, nobody has a pointer    *)
(* and no call waits.                                                      *)
Idle == ~up => list = <<>> /\ waiting = NULL /\ \A b \in Blocks : ptr[b] = NULL

LEMMA IdleInit == Init => Idle
BY DEF Init, Idle

LEMMA IdleStep == Idle /\ [Next]_vars => Idle'
<1> SUFFICES ASSUME Idle, [Next]_vars PROVE Idle'
  OBVIOUS
<1>1. CASE Release
  BY <1>1 DEF Release, Idle
<1>2. CASE up /\ up' = up
  BY <1>2 DEF Idle
<1>3. CASE Prepare \/ UNCHANGED vars
  BY <1>3 DEF Prepare, Idle, vars
<1> QED
  BY <1>1, <1>2, <1>3 DEF Next, Calls, Running, MallocFails, Malloc, MallocWaits, Fill, Free,
     ReallocUnknown, ReallocInPlace, ReallocFails, ReallocCopies, ReallocWaits, MallocResumes,
     ReallocResumes, vars

(* The table with the pair of the waiting call has each allocated handle   *)
(* once; the call waits for the last slot.                                 *)
Awaited ==
  ~disturbed =>
    /\ Once(known) /\ Live = HandlesOf(known)
    /\ waiting # NULL => waiting.slot = Len(list) /\ Len(list) > 0

LEMMA AwaitedIsTracked == Awaited => Tracked
BY DEF Awaited, Tracked, known, Once, HandlesOf

LEMMA AwaitedInit == Init => Awaited
<1> SUFFICES ASSUME Init PROVE Awaited
  OBVIOUS
<1>1. Live = {}
  BY DEF Init, Live, NoChunk
<1> QED BY <1>1 DEF Init, Awaited, known, Once, HandlesOf

LEMMA KnownType == TypeOK => known \in Seq(Slot) /\ Len(known) = Len(list)
<1> SUFFICES ASSUME TypeOK PROVE known \in Seq(Slot) /\ Len(known) = Len(list)
  OBVIOUS
<1>1. CASE waiting = NULL
  BY <1>1 DEF known, TypeOK
<1>2. CASE waiting # NULL
  <2>1. PICK call \in Call : call = waiting
    BY <1>2, Zenon DEF TypeOK
  <2>2. known = Written(list, call)
    BY <1>2, <2>1 DEF known
  <2> QED BY <2>2, WrittenFacts DEF TypeOK
<1> QED BY <1>1, <1>2

(* A call that is suspended leaves a table that knows its chunk. *)
LEMMA SuspendedKnown ==
  ASSUME TypeOK, NEW call \in Call, Suspended(call), call.slot = Len(list) + 1
  PROVE  /\ known' = Append(list, Pair(call))
         /\ waiting' = call /\ waiting' # NULL /\ waiting'.slot = Len(list') /\ Len(list') > 0
<1>1. PICK junk \in Slot : list' = Append(list, junk)
  BY DEF Suspended
<1>2. PICK l \in Seq(Slot) : l = list
  BY DEF TypeOK
<1>3. waiting' = call
  BY DEF Suspended
<1>4. waiting' # NULL
  BY <1>3, CallAssumption DEF CallAssumption
<1>5. /\ Written(list', call) = Append(l, Pair(call))
      /\ Len(list') = Len(l) + 1 /\ Len(list') > 0
  BY <1>1, <1>2, WrittenAppends
<1> QED BY <1>2, <1>3, <1>4, <1>5 DEF known

LEMMA AwaitedStep == TypeOK /\ Idle /\ Awaited /\ [Next]_vars => Awaited'
<1> DEFINE Good == /\ Once(known') /\ Live' = HandlesOf(known')
                   /\ waiting' # NULL => waiting'.slot = Len(list') /\ Len(list') > 0
<1> SUFFICES ASSUME TypeOK, Idle, Awaited, [Next]_vars, ~disturbed'
             PROVE  Good
  BY DEF Awaited
<1> USE HeapAssumption DEF HeapAssumption
<1>1. ~disturbed
  <2>1. CASE disturbed' = disturbed
    BY <2>1
  <2>2. CASE Disturbs
    BY <2>2, Zenon DEF Disturbs
  <2> QED
    BY <2>1, <2>2, ZenonT(60) DEF Next, MallocFails, Malloc, MallocWaits, Fill, Free, ReallocUnknown,
       ReallocInPlace, ReallocFails, ReallocCopies, ReallocWaits, MallocResumes, ReallocResumes,
       Release, Prepare, Suspended, table, vars
<1>2. /\ Once(known) /\ Live = HandlesOf(known)
      /\ waiting # NULL => waiting.slot = Len(list) /\ Len(list) > 0
  BY <1>1 DEF Awaited
<1>3. \A a \in Addresses : a # NULL
  OBVIOUS
<1>4. mem \in [Handles -> Chunk] /\ list \in Seq(Slot)
  BY DEF TypeOK
<1>5. known \in Seq(Slot) /\ Len(known) = Len(list)
  BY KnownType
<1>6. ASSUME Disturbs PROVE waiting = NULL /\ known = list
  <2>1. waiting = NULL
    BY <1>6, Zenon DEF Disturbs
  <2> QED BY <2>1 DEF known
<1>7. Live = Allocated(mem) /\ Live' = Allocated(mem')
  BY DEF Live, Allocated
<1>8. ASSUME UNCHANGED <<list, waiting>>, Live' = Live PROVE Good
  BY <1>2, <1>8 DEF known
<1>9. ASSUME UNCHANGED vars PROVE Good
  BY <1>8, <1>9 DEF vars, Live
<1>10. ASSUME NEW b \in Blocks, MallocFails(b) \/ ReallocUnknown(b) PROVE Good
  <2>1. UNCHANGED vars
    BY <1>10 DEF MallocFails, ReallocUnknown
  <2> QED BY <1>9, <2>1
<1>11. ASSUME NEW b \in Blocks, NEW n \in Sizes, Malloc(b, n) PROVE Good
  <2>1. PICK h \in Handles, a \in Addresses :
          NewChunk(n, h, a) /\ list' = Append(list, [hdl |-> h, ptr |-> a])
    BY <1>11 DEF Malloc
  <2>2. waiting = NULL /\ waiting' = NULL /\ known = list /\ known' = list'
    BY <1>6, <1>11 DEF Malloc, known
  <2>3. PICK e \in Slot : e = [hdl |-> h, ptr |-> a]
    BY DEF Slot, Entry
  <2>4. h \notin HandlesOf(list)
    BY <1>2, <2>1, <2>2 DEF NewChunk
  <2>5. Once(list') /\ HandlesOf(list') = HandlesOf(list) \union {h}
    BY <1>2, <1>4, <2>1, <2>2, <2>3, <2>4, AppendHandles
  <2>6. Live' = Live \union {h}
    BY <1>3, <1>4, <2>1 DEF Live, NewChunk, Fresh
  <2> QED BY <1>2, <2>2, <2>5, <2>6
<1>12. ASSUME NEW call \in Call, Suspended(call), call.slot = Len(list) + 1,
              call.hdl \notin Live, Live' = Live \union {call.hdl}
       PROVE  Good
  <2>1. waiting = NULL /\ known = list
    BY <1>12 DEF Suspended, known
  <2>2. PICK e \in Slot : e = Pair(call)
    BY DEF Slot, Entry, Pair, Call
  <2>3. e.hdl = call.hdl
    BY <2>2 DEF Pair
  <2>4. known' = Append(list, e) /\ (waiting' # NULL => waiting'.slot = Len(list') /\ Len(list') > 0)
    BY <1>12, <2>2, SuspendedKnown
  <2>5. Once(known') /\ HandlesOf(known') = HandlesOf(list) \union {call.hdl}
    BY <1>2, <1>4, <1>12, <2>1, <2>3, <2>4, AppendHandles
  <2> QED BY <1>2, <1>12, <2>1, <2>4, <2>5
<1>13. ASSUME NEW b \in Blocks, NEW n \in Sizes, MallocWaits(b, n) PROVE Good
  <2>1. PICK h \in Handles, a \in Addresses :
          /\ NewChunk(n, h, a)
          /\ Suspended([block |-> b, slot |-> Len(list) + 1, hdl |-> h, ptr |-> a,
                        size |-> n, old |-> NULL, at |-> NULL])
    BY <1>13 DEF MallocWaits
  <2>2. PICK call \in Call :
          call = [block |-> b, slot |-> Len(list) + 1, hdl |-> h, ptr |-> a,
                  size |-> n, old |-> NULL, at |-> NULL]
    <3>1. Len(list) + 1 \in Nat
      BY <1>4
    <3> QED BY <3>1 DEF Call
  <2>3. Live' = Live \union {h} /\ h \notin Live
    BY <1>3, <1>4, <2>1 DEF Live, NewChunk, Fresh
  <2>4. call.hdl = h /\ call.slot = Len(list) + 1 /\ Suspended(call)
    BY <2>1, <2>2
  <2> QED BY <1>12, <2>3, <2>4
<1>14. ASSUME NEW b \in Blocks, Fill(b) PROVE Good
  <2>1. \A h \in Handles : mem'[h].addr = mem[h].addr
    BY <1>4, <1>14 DEF Fill, Chunk
  <2>2. Live' = Live
    BY <2>1 DEF Live
  <2> QED BY <1>8, <1>14, <2>2 DEF Fill, table
<1>15. ASSUME NEW b \in Blocks, Free(b) PROVE Good
  <2>1. waiting = NULL /\ waiting' = NULL /\ known = list /\ known' = list'
    BY <1>6, <1>15 DEF Free, known
  <2>2. PICK l2, m2 : l2 = list' /\ m2 = mem'
    OBVIOUS
  <2>3. Released(ptr[b], list, mem, l2, m2)
    BY <1>15, <2>2 DEF Free
  <2>4. Once(list) /\ Allocated(mem) = HandlesOf(list)
    BY <1>2, <1>7, <2>1
  <2>5. Once(l2) /\ Allocated(m2) = HandlesOf(l2)
    BY <1>4, <2>3, <2>4, ReleasedHandles
  <2> QED BY <1>7, <2>1, <2>2, <2>5
<1>16. ASSUME NEW b \in Blocks, NEW n \in Sizes, ReallocInPlace(b, n) PROVE Good
  <2>1. PICK i \in 1 .. Len(list), a \in Addresses : Resized(b, n, i, a)
    BY <1>16 DEF ReallocInPlace
  <2>2. PICK h \in Live : h = list[i].hdl
    BY <2>1 DEF Resized, Relocked
  <2>3. h \in Handles
    BY DEF Live
  <2>4. PICK u \in Seq(Slot) : /\ u = list' /\ Len(u) = Len(list)
                               /\ \A j \in 1 .. Len(list) : u[j].hdl = list[j].hdl
    BY <1>4, <2>1, <2>2, <2>3, UpdatedFacts DEF Resized
  <2>5. ResizedChunk(mem[h], a, n).addr = a
    BY <1>4, <2>3 DEF ResizedChunk, Chunk
  <2>6. Live' = Live
    BY <1>3, <1>4, <2>1, <2>2, <2>5 DEF Live, Resized
  <2>7. waiting' = waiting
    BY <1>16 DEF ReallocInPlace
  <2>8. known' \in Seq(Slot) /\ Len(known') = Len(known)
        /\ \A j \in 1 .. Len(known) : known'[j].hdl = known[j].hdl
    <3>1. CASE waiting = NULL
      BY <1>4, <2>4, <2>7, <3>1 DEF known
    <3>2. CASE waiting # NULL
      <4>1. PICK call \in Call : call = waiting
        BY <3>2, Zenon DEF TypeOK
      <4>2. known = Written(list, call) /\ known' = Written(u, call)
        BY <2>4, <2>7, <3>2, <4>1 DEF known
      <4> QED BY <1>4, <2>4, <4>2, WrittenFacts
    <3> QED BY <3>1, <3>2
  <2>9. PICK k : k = known'
    OBVIOUS
  <2>10. Once(k) /\ HandlesOf(k) = HandlesOf(known)
    BY <1>2, <1>5, <2>8, <2>9, SameHandles
  <2> QED BY <1>2, <2>4, <2>6, <2>7, <2>9, <2>10
<1>17. ASSUME NEW i \in 1 .. Len(list), NEW a \in Addresses, list[i].hdl \in Live,
              NEW m, m = [mem EXCEPT ![list[i].hdl].addr = a]
       PROVE  m \in [Handles -> Chunk] /\ Allocated(m) = Live
  <2>1. PICK h \in Live : h = list[i].hdl
    BY <1>17
  <2>2. h \in Handles
    BY DEF Live
  <2>3. m \in [Handles -> Chunk]
    BY <1>17, <2>1, <2>2, LockedAgain
  <2>4. \A g \in Handles : m[g].addr = IF g = h THEN a ELSE mem[g].addr
    BY <1>4, <1>17, <2>1, <2>2 DEF Chunk
  <2> QED BY <1>3, <2>1, <2>3, <2>4 DEF Allocated, Live
<1>18. ASSUME NEW b \in Blocks, NEW n \in Sizes, ReallocFails(b, n) PROVE Good
  <2>1. PICK i \in 1 .. Len(list), a \in Addresses :
          list[i].hdl \in Live /\ mem' = [mem EXCEPT ![list[i].hdl].addr = a]
    BY <1>18 DEF ReallocFails, Displaced, Relocked
  <2>2. Live' = Live
    BY <1>7, <1>17, <2>1
  <2> QED BY <1>8, <1>18, <2>2 DEF ReallocFails, table
<1>19. ASSUME NEW h2 \in Handles, NEW a2 \in Addresses, NEW h \in Handles, NEW a,
              NEW l \in Seq(Slot), NEW m \in [Handles -> Chunk], NEW b, NEW n,
              Copied(b, n, h, a, h2, a2, l, m), Once(l), n \in Sizes,
              Allocated(m) \union {h2} = HandlesOf(l), waiting' = NULL
       PROVE  Good
  <2>1. CopyOf(m[h], a2, n) \in Chunk /\ CopyOf(m[h], a2, n).addr = a2
    <3>1. m[h] \in Chunk
      OBVIOUS
    <3>2. \A k, q \in 0 .. MaxSize : Smaller(k, q) \in 0 .. MaxSize
      BY DEF Smaller
    <3>3. n \in 0 .. MaxSize
      BY <1>19 DEF Sizes
    <3> QED BY <3>1, <3>2, <3>3 DEF CopyOf, Chunk
  <2>2. PICK both \in [Handles -> Chunk] : both = [m EXCEPT ![h2] = CopyOf(m[h], a2, n)]
    BY <2>1
  <2>3. Allocated(both) = Allocated(m) \union {h2}
    BY <1>3, <2>1, <2>2 DEF Allocated
  <2>4. PICK l2, m2 : l2 = list' /\ m2 = mem'
    OBVIOUS
  <2>5. Released(a, l, both, l2, m2)
    BY <1>19, <2>2, <2>4 DEF Copied
  <2>6. Once(l2) /\ Allocated(m2) = HandlesOf(l2)
    <3>1. Allocated(both) = HandlesOf(l) /\ Once(l)
      BY <1>19, <2>3
    <3> QED BY <2>5, <3>1, ReleasedHandles
  <2>7. known' = list'
    BY <1>19 DEF known
  <2> QED BY <1>7, <1>19, <2>4, <2>6, <2>7
<1>20. ASSUME NEW b \in Blocks, NEW n \in Sizes, ReallocCopies(b, n) PROVE Good
  <2>1. PICK i \in 1 .. Len(list), h2 \in Handles, a \in Addresses, a2 \in Addresses :
          /\ Doubled(b, n, i, a, h2, a2)
          /\ Copied(b, n, list[i].hdl, a, h2, a2, Append(list, [hdl |-> h2, ptr |-> a2]),
                    [mem EXCEPT ![list[i].hdl].addr = a])
    BY <1>20 DEF ReallocCopies
  <2>2. waiting' = NULL /\ known = list
    BY <1>6, <1>20 DEF ReallocCopies
  <2>3. PICK h \in Handles : h = list[i].hdl /\ h \in Live
    BY <2>1 DEF Doubled, Displaced, Relocked, Live
  <2>4. PICK e \in Slot : e = [hdl |-> h2, ptr |-> a2]
    BY DEF Slot, Entry
  <2>5. e.hdl = h2 /\ h2 \notin HandlesOf(list)
    BY <1>2, <2>1, <2>2, <2>4 DEF Doubled
  <2>6. PICK l \in Seq(Slot) : l = Append(list, e)
    BY <1>4, AppendProperties
  <2>7. Once(l) /\ HandlesOf(l) = HandlesOf(list) \union {h2}
    BY <1>2, <1>4, <2>2, <2>5, <2>6, AppendHandles
  <2>8. PICK m \in [Handles -> Chunk] : m = [mem EXCEPT ![h].addr = a] /\ Allocated(m) = Live
    BY <1>17, <2>3
  <2>9. Copied(b, n, h, a, h2, a2, l, m)
    BY <2>1, <2>3, <2>4, <2>6, <2>8
  <2>10. Allocated(m) \union {h2} = HandlesOf(l)
    BY <1>2, <2>2, <2>7, <2>8
  <2> QED BY <1>19, <2>2, <2>7, <2>9, <2>10
<1>21. ASSUME NEW b \in Blocks, NEW n \in Sizes, ReallocWaits(b, n) PROVE Good
  <2>1. PICK i \in 1 .. Len(list), h2 \in Handles, a \in Addresses, a2 \in Addresses :
          /\ Doubled(b, n, i, a, h2, a2)
          /\ mem' = [mem EXCEPT ![list[i].hdl].addr = a, ![h2] = Fresh(a2, n)]
          /\ Suspended([block |-> b, slot |-> Len(list) + 1, hdl |-> h2, ptr |-> a2,
                        size |-> n, old |-> list[i].hdl, at |-> a])
    BY <1>21 DEF ReallocWaits
  <2>2. PICK h \in Handles : h = list[i].hdl /\ h \in Live
    BY <2>1 DEF Doubled, Displaced, Relocked, Live
  <2>3. PICK call \in Call :
          call = [block |-> b, slot |-> Len(list) + 1, hdl |-> h2, ptr |-> a2,
                  size |-> n, old |-> h, at |-> a]
    <3>1. Len(list) + 1 \in Nat
      BY <1>4
    <3> QED BY <3>1 DEF Call
  <2>4. PICK m \in [Handles -> Chunk] : m = [mem EXCEPT ![h].addr = a] /\ Allocated(m) = Live
    BY <1>17, <2>2
  <2>5. mem' = [m EXCEPT ![h2] = Fresh(a2, n)]
    BY <2>1, <2>2, <2>4
  <2>6. Live' = Live \union {h2}
    BY <1>3, <1>7, <2>4, <2>5 DEF Allocated, Fresh
  <2>7. h2 \notin Live
    BY <2>1 DEF Doubled
  <2>8. call.hdl = h2 /\ call.slot = Len(list) + 1 /\ Suspended(call)
    BY <2>1, <2>2, <2>3
  <2> QED BY <1>12, <2>6, <2>7, <2>8
<1>22. CASE MallocResumes
  <2>1. waiting # NULL /\ waiting' = NULL /\ list' = Written(list, waiting) /\ mem' = mem
    BY <1>22 DEF MallocResumes
  <2>2. known' = known
    BY <2>1 DEF known
  <2> QED BY <1>2, <2>1, <2>2 DEF Live
<1>23. CASE ReallocResumes
  <2>1. PICK call \in Call : call = waiting
    BY <1>23, Zenon DEF ReallocResumes, TypeOK
  <2>2. /\ waiting' = NULL /\ known = Written(list, call) /\ call.old \in Live
        /\ Copied(call.block, call.size, call.old, call.at, call.hdl, call.ptr,
                  Written(list, call), mem)
    BY <1>23, <2>1 DEF ReallocResumes, known
  <2>3. call.hdl \in Handles /\ call.ptr \in Addresses /\ call.size \in Sizes /\ call.old \in Handles
    BY <2>2 DEF Call, Live
  <2>4. call.hdl \in HandlesOf(known)
    <3>1. Len(list) \in 1 .. Len(list) /\ call.slot = Len(list)
      BY <1>2, <1>4, <1>23, <2>1 DEF ReallocResumes
    <3>2. known[Len(list)] = Pair(call)
      BY <1>4, <2>2, <3>1, WrittenFacts
    <3>3. known[Len(list)].hdl = call.hdl
      BY <3>2 DEF Pair
    <3> QED BY <1>5, <3>1, <3>3 DEF HandlesOf
  <2>5. Allocated(mem) \union {call.hdl} = HandlesOf(known)
    BY <1>2, <1>7, <2>4
  <2> QED BY <1>2, <1>4, <1>5, <1>19, <2>2, <2>3, <2>5
<1>24. CASE Release
  <2>1. waiting = NULL /\ waiting' = NULL /\ known = list /\ known' = list' /\ list' = <<>>
    BY <1>24 DEF Release, known
  <2>2. Live' = {}
    <3>1. \A h \in Handles : mem'[h].addr = NULL
      BY <1>2, <1>24, <2>1 DEF Release, Live, HandlesOf, NoChunk
    <3> QED BY <3>1 DEF Live
  <2> QED BY <2>1, <2>2 DEF Once, HandlesOf
<1>25. CASE Prepare
  <2>1. list = <<>> /\ list' = <<>> /\ waiting = NULL /\ waiting' = NULL /\ mem' = mem
    BY <1>25 DEF Prepare, Idle
  <2> QED BY <1>8, <2>1 DEF Live
<1> HIDE DEF Good
<1> QED
  BY <1>9, <1>10, <1>11, <1>13, <1>14, <1>15, <1>16, <1>18, <1>20, <1>21, <1>22, <1>23,
     <1>24, <1>25 DEF Next

(* The table holds each allocated handle exactly once between any two      *)
(* calls, also after growing it has failed, until a malloc or free of      *)
(* exit's event loop disturbs a call that waits in it.                     *)
THEOREM HeapTracked == Spec => []Tracked
<1>1. Init => TypeOK /\ Idle /\ Awaited
  BY TypeInit, IdleInit, AwaitedInit
<1>2. TypeOK /\ Idle /\ Awaited /\ [Next]_vars => (TypeOK /\ Idle /\ Awaited)'
  BY TypeStep, IdleStep, AwaitedStep
<1> QED BY <1>1, <1>2, AwaitedIsTracked, PTL DEF Spec

-----------------------------------------------------------------------------
(* The table is large enough *)

(* Until a resize of the table fails, memory_list.size says how many slots *)
(* there are, and at least one of them is free.                            *)
Room == /\ size \in Nat /\ cap \in Nat
        /\ up /\ ~starved => cap = size /\ Len(list) < size

LEMMA RoomStep == TypeOK /\ Room /\ [Next]_vars => Room'
<1> SUFFICES ASSUME TypeOK, Room, [Next]_vars PROVE Room'
  OBVIOUS
<1> DEFINE Fits == cap' = size' /\ Len(list') < size'
<1>0. TypeOK' /\ list \in Seq(Slot) /\ Len(list) \in Nat /\ Len(list') \in Nat
  BY TypeStep DEF TypeOK
<1>1. SUFFICES ASSUME up', ~starved' PROVE Fits
  BY <1>0 DEF Room, TypeOK
<1>2. ASSUME Grown, up, starved' = starved, Len(list') <= Len(list) + 1 PROVE Fits
  <2>1. ~starved
    BY <1>1, <1>2, Zenon
  <2>2. cap = size /\ Len(list) < size /\ size \in Nat
    BY <1>2, <2>1 DEF Room
  <2>3. CASE Full
    BY <1>0, <1>2, <2>2, <2>3 DEF Grown, Full
  <2>4. CASE ~Full
    BY <1>0, <1>2, <2>2, <2>4 DEF Grown, Full
  <2> QED BY <2>3, <2>4
<1>3. ASSUME UNCHANGED <<size, cap, starved>>, up, Len(list') <= Len(list) PROVE Fits
  <2>1. ~starved
    BY <1>1, <1>3, Zenon
  <2> QED BY <1>0, <1>3, <2>1 DEF Room
<1>4. ASSUME UNCHANGED vars PROVE Fits
  <2>1. up /\ ~starved
    BY <1>1, <1>4, Zenon DEF vars
  <2> QED BY <1>4, <2>1 DEF Room, vars
<1>5. ASSUME NEW b \in Blocks, MallocFails(b) \/ ReallocUnknown(b) PROVE Fits
  BY <1>4, <1>5 DEF MallocFails, ReallocUnknown
<1>6. ASSUME NEW b \in Blocks, NEW n \in Sizes, Malloc(b, n) PROVE Fits
  <2>1. PICK h \in Handles, a \in Addresses : list' = Append(list, [hdl |-> h, ptr |-> a])
    BY <1>6 DEF Malloc
  <2>2. [hdl |-> h, ptr |-> a] \in Slot
    BY DEF Slot, Entry
  <2>3. Len(list') = Len(list) + 1
    BY <1>0, <2>1, <2>2, AppendProperties
  <2>4. Grown /\ up /\ starved' = starved
    BY <1>6 DEF Malloc, Calls, Running
  <2> QED BY <1>0, <1>2, <2>3, <2>4
<1>7. ASSUME NEW b \in Blocks, NEW n \in Sizes, MallocWaits(b, n) \/ ReallocWaits(b, n) PROVE Fits
  <2>1. starved'
    BY <1>7, Zenon DEF MallocWaits, ReallocWaits, Suspended
  <2> QED BY <1>1, <2>1
<1>8. ASSUME NEW b \in Blocks, Fill(b) PROVE Fits
  <2>1. UNCHANGED <<size, cap, starved>> /\ list' = list /\ up
    BY <1>8, Zenon DEF Fill, table, Calls, Running
  <2> QED BY <1>0, <1>3, <2>1
<1>9. ASSUME NEW b \in Blocks, Free(b) PROVE Fits
  <2>1. PICK l \in Seq(Slot), m \in [Handles -> Chunk] : l = list /\ m = mem
    BY DEF TypeOK
  <2>2. PICK l2, m2 : l2 = list' /\ m2 = mem'
    OBVIOUS
  <2>3. Released(ptr[b], l, m, l2, m2)
    BY <1>9, <2>1, <2>2 DEF Free
  <2>4. Len(list') <= Len(list)
    BY <2>1, <2>2, <2>3, ReleasedTypes
  <2> QED BY <1>3, <1>9, <2>4 DEF Free, Calls, Running
<1>10. ASSUME NEW b \in Blocks, NEW n \in Sizes, ReallocInPlace(b, n) PROVE Fits
  <2>1. PICK i \in 1 .. Len(list), a \in Addresses : Resized(b, n, i, a)
    BY <1>10 DEF ReallocInPlace
  <2>2. PICK h \in Handles : h = list[i].hdl
    BY <2>1 DEF Resized, Relocked, Live
  <2>3. Len(list') = Len(list)
    BY <1>0, <2>1, <2>2, UpdatedFacts DEF Resized
  <2> QED BY <1>0, <1>3, <1>10, <2>3 DEF ReallocInPlace, Calls, Running
<1>11. ASSUME NEW b \in Blocks, NEW n \in Sizes, ReallocFails(b, n) PROVE Fits
  <2>1. UNCHANGED <<size, cap, starved>> /\ list' = list /\ up
    BY <1>11, Zenon DEF ReallocFails, table, Calls, Running
  <2> QED BY <1>0, <1>3, <2>1
<1>12. ASSUME NEW b \in Blocks, NEW n \in Sizes, ReallocCopies(b, n) PROVE Fits
  <2>1. PICK i \in 1 .. Len(list), h2 \in Handles, a \in Addresses, a2 \in Addresses :
          /\ Doubled(b, n, i, a, h2, a2)
          /\ Copied(b, n, list[i].hdl, a, h2, a2, Append(list, [hdl |-> h2, ptr |-> a2]),
                    [mem EXCEPT ![list[i].hdl].addr = a])
    BY <1>12 DEF ReallocCopies
  <2>2. PICK h \in Handles : h = list[i].hdl
    BY <2>1 DEF Doubled, Displaced, Relocked, Live
  <2>3. PICK e \in Slot : e = [hdl |-> h2, ptr |-> a2]
    BY DEF Slot, Entry
  <2>4. PICK l \in Seq(Slot) : l = Append(list, e) /\ Len(l) = Len(list) + 1
    BY <1>0, AppendProperties
  <2>5. PICK m \in [Handles -> Chunk] : m = [mem EXCEPT ![h].addr = a]
    BY LockedAgain
  <2>6. Copied(b, n, h, a, h2, a2, l, m)
    BY <2>1, <2>2, <2>3, <2>4, <2>5
  <2>7. Len(list') <= Len(list) + 1
    BY <2>4, <2>6, CopiedTypes
  <2> QED BY <1>0, <1>2, <1>12, <2>7 DEF ReallocCopies, Calls, Running
<1>13. CASE MallocResumes
  <2>1. PICK call \in Call : call = waiting
    BY <1>13, Zenon DEF MallocResumes, TypeOK
  <2>2. Len(list') = Len(list)
    BY <1>0, <1>13, <2>1, WrittenFacts DEF MallocResumes
  <2> QED BY <1>0, <1>3, <1>13, <2>2 DEF MallocResumes, Running
<1>14. CASE ReallocResumes
  <2>1. PICK call \in Call : call = waiting
    BY <1>14, Zenon DEF ReallocResumes, TypeOK
  <2>2. call.block \in Blocks /\ call.ptr \in Addresses /\ call.size \in Sizes /\ call.hdl \in Handles
    BY DEF Call
  <2>3. PICK l \in Seq(Slot) : l = Written(list, call) /\ Len(l) = Len(list)
    BY <1>0, WrittenFacts
  <2>4. PICK m \in [Handles -> Chunk] : m = mem
    BY DEF TypeOK
  <2>5. PICK h \in Handles : h = call.old
    BY <1>14, <2>1 DEF ReallocResumes, Live
  <2>6. Copied(call.block, call.size, h, call.at, call.hdl, call.ptr, l, m)
    BY <1>14, <2>1, <2>3, <2>4, <2>5 DEF ReallocResumes
  <2>7. Len(list') <= Len(list)
    BY <2>2, <2>3, <2>6, CopiedTypes
  <2> QED BY <1>3, <1>14, <2>7 DEF ReallocResumes, Running
<1>15. CASE Release
  BY <1>1, <1>15 DEF Release
<1>16. CASE Prepare
  BY <1>16, HeapAssumption DEF Prepare, HeapAssumption
<1> HIDE DEF Fits
<1>17. Fits
  BY <1>4, <1>5, <1>6, <1>7, <1>8, <1>9, <1>10, <1>11, <1>12, <1>13, <1>14, <1>15, <1>16 DEF Next
<1> QED BY <1>17 DEF Fits

(* memory_register always finds the slot it writes to, as long as growing  *)
(* the table has not failed.                                               *)
THEOREM HeapTableFits == Spec => []TableFits
<1>1. Init => TypeOK /\ Room
  BY TypeInit DEF Init, Room
<1>2. TypeOK /\ Room /\ [Next]_vars => (TypeOK /\ Room)'
  BY TypeStep, RoomStep
<1>3. Room => TableFits
  BY DEF Room, TableFits
<1> QED BY <1>1, <1>2, <1>3, PTL DEF Spec

-----------------------------------------------------------------------------
(* Nobody's block is touched by a call for another one *)

(* The chunk h is what its holder b may rely on. *)
Serves(h, b) ==
  /\ mem[h].addr = ptr[b]
  /\ mem[h].size = want[b].size
  /\ want[b].len <= mem[h].len
  /\ want[b].len > 0 => mem[h].owner = b

(* Until a failed resize moves a chunk or a waiting call is disturbed:     *)
(* chunks have addresses of their own, the table has them, and chunks and  *)
(* pointers correspond.  The chunk of a call that waits is nobody's yet,   *)
(* and the one it will replace is still its caller's.                      *)
Apart == \A g, h \in Live : mem[g].addr = mem[h].addr => g = h
Located == \A i \in 1 .. Len(known) : known[i].ptr = mem[known[i].hdl].addr
Served == \A b \in Blocks : ptr[b] # NULL => \E h \in Live : Serves(h, b)
Held == /\ \A h \in Live :
             (\E b \in Blocks : ptr[b] = mem[h].addr) \/ (waiting # NULL /\ waiting.hdl = h)
        /\ \A b, c \in Blocks : ptr[b] = ptr[c] /\ ptr[b] # NULL => b = c
Pending ==
  waiting # NULL =>
    /\ waiting.hdl \in Live /\ mem[waiting.hdl] = Fresh(waiting.ptr, waiting.size)
    /\ \A c \in Blocks : ptr[c] # waiting.ptr
    /\ waiting.old = NULL => ptr[waiting.block] = NULL
    /\ waiting.old # NULL =>
         /\ waiting.old \in Live /\ Serves(waiting.old, waiting.block)
         /\ waiting.at = ptr[waiting.block] /\ ptr[waiting.block] # NULL
InOrder == Apart /\ Located /\ Served /\ Held /\ Pending
Orderly == ~moved /\ ~disturbed => InOrder

HeapInv == TypeOK /\ Idle /\ Awaited /\ Orderly

LEMMA OrderlyIsOwned == Orderly => OwnedIntact /\ NoLeak
BY DEF Orderly, InOrder, Served, Serves, Held, OwnedIntact, NoLeak

LEMMA OrderlyInit == Init => Orderly
<1> SUFFICES ASSUME Init PROVE Orderly
  OBVIOUS
<1>1. Live = {}
  BY DEF Init, Live, NoChunk
<1> QED BY <1>1 DEF Init, Orderly, InOrder, Apart, Located, Served, Held, Pending, known

(* The state in which the lemmas on single steps are used. *)
Calm == HeapInv /\ ~moved /\ ~disturbed

LEMMA CalmFacts ==
  ASSUME Calm
  PROVE  /\ InOrder /\ Once(known) /\ Live = HandlesOf(known)
         /\ waiting # NULL => waiting.slot = Len(list) /\ Len(list) > 0
         /\ mem \in [Handles -> Chunk] /\ list \in Seq(Slot)
         /\ ptr \in [Blocks -> Addresses \union {NULL}]
         /\ want \in [Blocks -> [size: 0 .. MaxSize, len: 0 .. MaxSize]]
         /\ waiting \in Call \union {NULL}
         /\ known \in Seq(Slot) /\ Len(known) = Len(list) /\ Len(list) \in Nat
         /\ Live \subseteq Handles
<1>1. known \in Seq(Slot) /\ Len(known) = Len(list)
  BY KnownType DEF Calm, HeapInv
<1>2. InOrder
  BY DEF Calm, HeapInv, Orderly
<1>3. /\ Once(known) /\ Live = HandlesOf(known)
      /\ waiting # NULL => waiting.slot = Len(list) /\ Len(list) > 0
  BY DEF Calm, HeapInv, Awaited
<1>4. /\ mem \in [Handles -> Chunk] /\ list \in Seq(Slot)
      /\ ptr \in [Blocks -> Addresses \union {NULL}]
      /\ want \in [Blocks -> [size: 0 .. MaxSize, len: 0 .. MaxSize]]
      /\ waiting \in Call \union {NULL}
  BY DEF Calm, HeapInv, TypeOK
<1> QED BY <1>1, <1>2, <1>3, <1>4 DEF Live

(* All slots but the one a call waits for are as they will be. *)
LEMMA KnownSlots ==
  ASSUME Calm
  PROVE  /\ waiting = NULL => known = list
         /\ waiting # NULL =>
              /\ \A j \in 1 .. Len(list) : j # waiting.slot => known[j] = list[j]
              /\ waiting.slot \in 1 .. Len(list)
              /\ known[waiting.slot].hdl = waiting.hdl /\ known[waiting.slot].ptr = waiting.ptr
<1>1. ASSUME waiting # NULL
      PROVE  /\ \A j \in 1 .. Len(list) : j # waiting.slot => known[j] = list[j]
             /\ waiting.slot \in 1 .. Len(list)
             /\ known[waiting.slot].hdl = waiting.hdl /\ known[waiting.slot].ptr = waiting.ptr
  <2>1. PICK call \in Call : call = waiting
    BY <1>1, CalmFacts, Zenon
  <2>2. known = Written(list, call)
    BY <1>1, <2>1 DEF known
  <2>3. \A j \in 1 .. Len(list) : known[j] = IF j = call.slot THEN Pair(call) ELSE list[j]
    BY <2>2, CalmFacts, WrittenFacts
  <2>4. call.slot \in 1 .. Len(list)
    BY <1>1, <2>1, CalmFacts
  <2>5. known[call.slot] = Pair(call)
    BY <2>3, <2>4
  <2>6. known[call.slot].hdl = call.hdl /\ known[call.slot].ptr = call.ptr
    BY <2>5 DEF Pair
  <2> QED BY <2>1, <2>3, <2>4, <2>6
<1>2. waiting = NULL => known = list
  BY DEF known
<1> QED BY <1>1, <1>2

(* Looking up a pointer that is held finds its chunk, also past the slot   *)
(* that is not written.                                                    *)
LEMMA LookupFindsChunk ==
  ASSUME Calm, NEW b \in Blocks, ptr[b] # NULL
  PROVE  /\ ~Unknown(ptr[b])
         /\ \A i \in 1 .. Len(list) : IsLookup(list, ptr[b], i) =>
              /\ list[i].hdl \in Live /\ Serves(list[i].hdl, b)
              /\ waiting # NULL => i # waiting.slot
<1>1. PICK h \in Live : Serves(h, b)
  BY CalmFacts DEF InOrder, Served
<1>2. PICK k \in 1 .. Len(known) : known[k].hdl = h
  BY CalmFacts DEF HandlesOf
<1>3. known[k].ptr = ptr[b]
  BY <1>1, <1>2, CalmFacts DEF InOrder, Located, Serves
<1>4. waiting # NULL => k # waiting.slot
  BY <1>3, CalmFacts, KnownSlots DEF InOrder, Pending
<1>5. k \in 1 .. Len(list) /\ list[k] = known[k]
  BY <1>4, CalmFacts, KnownSlots
<1>6. ASSUME NEW i \in 1 .. Len(list), IsLookup(list, ptr[b], i)
      PROVE  /\ list[i].hdl \in Live /\ Serves(list[i].hdl, b)
             /\ waiting # NULL => i # waiting.slot
  <2>1. i <= k
    <3>1. ~(k < i)
      <4>1. ASSUME k < i PROVE FALSE
        <5>1. k \in 1 .. (i - 1)
          BY <1>5, <4>1, CalmFacts
        <5> QED BY <1>3, <1>5, <1>6, <5>1 DEF IsLookup
      <4> QED BY <4>1
    <3> QED BY <1>5, <3>1, CalmFacts
  <2>2. waiting # NULL => i # waiting.slot
    <3>1. ASSUME waiting # NULL, i = waiting.slot PROVE FALSE
      <4>1. i = Len(list) /\ k # i
        BY <1>4, <3>1, CalmFacts
      <4> QED BY <1>5, <2>1, <4>1, CalmFacts
    <3> QED BY <3>1
  <2>3. list[i] = known[i] /\ i \in 1 .. Len(known)
    BY <2>2, CalmFacts, KnownSlots
  <2>4. mem[list[i].hdl].addr = ptr[b]
    BY <1>6, <2>3, CalmFacts DEF IsLookup, InOrder, Located
  <2>5. list[i].hdl \in Live
    BY <2>3, CalmFacts DEF HandlesOf
  <2>6. list[i].hdl = h
    BY <1>1, <2>4, <2>5, CalmFacts DEF InOrder, Apart, Serves
  <2> QED BY <1>1, <2>2, <2>6
<1> QED BY <1>3, <1>5, <1>6 DEF Unknown

(* A new chunk at an address of its own, and a table that will know it. *)
LEMMA ChunkAdded ==
  ASSUME Calm, waiting = NULL, NEW n \in Sizes, NEW h \in Handles, NEW a \in Addresses,
         NewChunk(n, h, a), known' = Append(list, [hdl |-> h, ptr |-> a])
  PROVE  /\ Apart' /\ Located' /\ Live' = Live \union {h} /\ h \notin Live
         /\ mem'[h] = Fresh(a, n)
         /\ \A g \in Handles : g # h => mem'[g] = mem[g] /\ mem[g].addr # a
         /\ \A c \in Blocks : ptr[c] # a
<1> USE HeapAssumption DEF HeapAssumption
<1>1. /\ mem \in [Handles -> Chunk] /\ list \in Seq(Slot) /\ known = list
      /\ Live \subseteq Handles /\ Live = HandlesOf(list) /\ InOrder
  BY CalmFacts, KnownSlots
<1>2. mem'[h] = Fresh(a, n) /\ h \notin Live
  BY <1>1 DEF NewChunk
<1>3. \A g \in Handles : g # h => mem'[g] = mem[g] /\ mem[g].addr # a
  BY <1>1 DEF NewChunk, RoomFor
<1>4. Live' = Live \union {h}
  BY <1>2, <1>3 DEF Live, Fresh
<1>5. Apart'
  BY <1>1, <1>2, <1>3, <1>4 DEF Apart, InOrder, Fresh
<1>6. Located'
  <2>1. PICK e \in Slot : e = [hdl |-> h, ptr |-> a]
    BY DEF Slot, Entry
  <2>2. /\ Len(list) \in Nat /\ Len(known') = Len(list) + 1
        /\ \A i \in 1 .. Len(list) : known'[i] = list[i]
        /\ known'[Len(list) + 1] = e
    BY <1>1, <2>1, AppendProperties
  <2>3. \A i \in 1 .. Len(list) : list[i].hdl \in Live
    BY <1>1 DEF HandlesOf
  <2>4. \A i \in 1 .. Len(list) : known'[i].ptr = mem'[known'[i].hdl].addr
    BY <1>1, <1>2, <1>3, <2>2, <2>3 DEF InOrder, Located
  <2>5. known'[Len(list) + 1].ptr = mem'[known'[Len(list) + 1].hdl].addr
    BY <1>2, <2>1, <2>2 DEF Fresh
  <2>6. \A i \in 1 .. Len(known') : i \in 1 .. Len(list) \/ i = Len(list) + 1
    BY <2>2
  <2> QED BY <2>4, <2>5, <2>6 DEF Located
<1>7. ASSUME NEW c \in Blocks, ptr[c] = a PROVE FALSE
  <2>1. ptr[c] # NULL
    BY <1>7
  <2>2. PICK g \in Live : mem[g].addr = a
    BY <1>1, <1>7, <2>1 DEF InOrder, Served, Serves
  <2> QED BY <1>1, <1>2, <1>3, <2>2
<1> QED BY <1>2, <1>3, <1>4, <1>5, <1>6, <1>7

LEMMA MallocOrderly ==
  ASSUME Calm, NEW b \in Blocks, NEW n \in Sizes, Malloc(b, n), ~disturbed'
  PROVE  InOrder'
<1> USE HeapAssumption DEF HeapAssumption
<1>1. PICK h \in Handles, a \in Addresses :
        /\ NewChunk(n, h, a)
        /\ list' = Append(list, [hdl |-> h, ptr |-> a])
        /\ ptr' = [ptr EXCEPT ![b] = a]
  BY DEF Malloc
<1>2. waiting = NULL /\ waiting' = NULL
  <2>1. waiting = NULL
    BY Zenon DEF Malloc, Disturbs
  <2> QED BY <2>1 DEF Malloc
<1>3. known' = Append(list, [hdl |-> h, ptr |-> a])
  BY <1>1, <1>2 DEF known
<1>4. /\ Apart' /\ Located' /\ Live' = Live \union {h} /\ h \notin Live
      /\ mem'[h] = Fresh(a, n)
      /\ \A g \in Handles : g # h => mem'[g] = mem[g] /\ mem[g].addr # a
      /\ \A c \in Blocks : ptr[c] # a
  BY <1>1, <1>2, <1>3, ChunkAdded
<1>5. /\ ptr \in [Blocks -> Addresses \union {NULL}] /\ Live \subseteq Handles /\ InOrder
      /\ want \in [Blocks -> [size: 0 .. MaxSize, len: 0 .. MaxSize]]
  BY CalmFacts
<1>6. /\ \A c \in Blocks : c # b => ptr'[c] = ptr[c] /\ want'[c] = want[c]
      /\ ptr'[b] = a /\ want'[b] = [size |-> n, len |-> 0] /\ ptr[b] = NULL
  BY <1>1, <1>5 DEF Malloc
<1>7. Served'
  <2>1. ASSUME NEW c \in Blocks, ptr'[c] # NULL PROVE \E g \in Live' : Serves(g, c)'
    <3>1. CASE c = b
      <4>1. Serves(h, c)'
        BY <1>4, <1>6, <3>1 DEF Serves, Sizes, Fresh
      <4> QED BY <1>4, <4>1
    <3>2. CASE c # b
      <4>1. PICK g \in Live : Serves(g, c)
        BY <1>5, <1>6, <2>1, <3>2 DEF InOrder, Served
      <4>2. g \in Handles /\ g # h
        BY <1>4, <1>5
      <4>3. Serves(g, c)'
        BY <1>4, <1>6, <3>2, <4>1, <4>2 DEF Serves
      <4> QED BY <1>4, <4>3
    <3> QED BY <3>1, <3>2
  <2> QED BY <2>1 DEF Served
<1>8. Held'
  <2>1. ASSUME NEW g \in Live PROVE \E c \in Blocks : ptr'[c] = mem'[g].addr
    <3>1. PICK c \in Blocks : ptr[c] = mem[g].addr
      BY <1>2, <1>5 DEF InOrder, Held
    <3>2. c # b
      BY <1>6, <3>1 DEF Live
    <3> QED BY <1>4, <1>5, <1>6, <3>1, <3>2
  <2>2. \E c \in Blocks : ptr'[c] = mem'[h].addr
    BY <1>4, <1>6 DEF Fresh
  <2>3. \A c, d \in Blocks : ptr'[c] = ptr'[d] /\ ptr'[c] # NULL => c = d
    BY <1>4, <1>5, <1>6 DEF InOrder, Held
  <2> QED BY <1>4, <2>1, <2>2, <2>3 DEF Held
<1>9. Pending'
  BY <1>2 DEF Pending
<1> QED BY <1>4, <1>7, <1>8, <1>9 DEF InOrder

(* A call that is suspended touches nobody else's block. *)
LEMMA SuspendedOrderly ==
  ASSUME Calm, NEW call \in Call, Suspended(call), call.slot = Len(list) + 1,
         NewChunk(call.size, call.hdl, call.ptr), UNCHANGED <<ptr, want>>,
         call.old = NULL => ptr[call.block] = NULL,
         call.old # NULL =>
           /\ call.old \in Live /\ Serves(call.old, call.block)
           /\ call.at = ptr[call.block] /\ ptr[call.block] # NULL
  PROVE  InOrder'
<1> USE HeapAssumption DEF HeapAssumption
<1>1. waiting = NULL /\ waiting' = call /\ waiting' # NULL /\ known' = Append(list, Pair(call))
  BY SuspendedKnown DEF Suspended, Calm, HeapInv
<1>2. PICK n \in Sizes, h \in Handles, a \in Addresses : n = call.size /\ h = call.hdl /\ a = call.ptr
  BY DEF Call
<1>3. known' = Append(list, [hdl |-> h, ptr |-> a])
  BY <1>1, <1>2 DEF Pair
<1>4. NewChunk(n, h, a)
  BY <1>2
<1>5. /\ Apart' /\ Located' /\ Live' = Live \union {h} /\ h \notin Live
      /\ mem'[h] = Fresh(a, n)
      /\ \A g \in Handles : g # h => mem'[g] = mem[g] /\ mem[g].addr # a
      /\ \A c \in Blocks : ptr[c] # a
  BY <1>1, <1>3, <1>4, ChunkAdded
<1>6. Live \subseteq Handles /\ InOrder
  BY CalmFacts
<1>7. \A g \in Live : g \in Handles /\ g # h /\ mem'[g] = mem[g]
  BY <1>5, <1>6
<1>8. \A g \in Live, c \in Blocks : Serves(g, c) => Serves(g, c)'
  BY <1>7 DEF Serves
<1>9. Served'
  BY <1>5, <1>6, <1>8 DEF InOrder, Served
<1>10. Held'
  <2>1. ASSUME NEW g \in Live' PROVE (\E c \in Blocks : ptr'[c] = mem'[g].addr) \/ waiting'.hdl = g
    <3>1. CASE g = h
      BY <1>1, <1>2, <3>1
    <3>2. CASE g \in Live
      BY <1>1, <1>6, <1>7, <3>2 DEF InOrder, Held
    <3> QED BY <1>5, <3>1, <3>2
  <2>2. \A c, d \in Blocks : ptr'[c] = ptr'[d] /\ ptr'[c] # NULL => c = d
    BY <1>6 DEF InOrder, Held
  <2> QED BY <1>1, <2>1, <2>2 DEF Held
<1>11. Pending'
  <2>1. call.block \in Blocks
    BY DEF Call
  <2>2. call.hdl \in Live' /\ mem'[call.hdl] = Fresh(call.ptr, call.size)
    BY <1>2, <1>5
  <2>3. \A c \in Blocks : ptr'[c] # call.ptr
    BY <1>2, <1>5
  <2>4. call.old # NULL => call.old \in Live' /\ Serves(call.old, call.block)'
    BY <1>5, <1>8, <2>1
  <2> QED BY <1>1, <2>2, <2>3, <2>4 DEF Pending
<1> QED BY <1>5, <1>9, <1>10, <1>11 DEF InOrder

LEMMA MallocWaitsOrderly ==
  ASSUME Calm, NEW b \in Blocks, NEW n \in Sizes, MallocWaits(b, n)
  PROVE  InOrder'
<1>1. PICK h \in Handles, a \in Addresses :
        /\ NewChunk(n, h, a)
        /\ Suspended([block |-> b, slot |-> Len(list) + 1, hdl |-> h, ptr |-> a,
                      size |-> n, old |-> NULL, at |-> NULL])
  BY DEF MallocWaits
<1>2. PICK call \in Call :
        call = [block |-> b, slot |-> Len(list) + 1, hdl |-> h, ptr |-> a,
                size |-> n, old |-> NULL, at |-> NULL]
  <2>1. Len(list) + 1 \in Nat
    BY CalmFacts
  <2> QED BY <2>1 DEF Call
<1>3. /\ Suspended(call) /\ NewChunk(call.size, call.hdl, call.ptr)
      /\ call.slot = Len(list) + 1 /\ call.old = NULL /\ call.block = b
  BY <1>1, <1>2
<1>4. ptr[b] = NULL /\ UNCHANGED <<ptr, want>>
  BY DEF MallocWaits
<1> QED BY <1>3, <1>4, SuspendedOrderly

LEMMA FillOrderly ==
  ASSUME Calm, NEW b \in Blocks, Fill(b)
  PROVE  InOrder'
<1>1. /\ mem \in [Handles -> Chunk] /\ InOrder /\ Live = HandlesOf(known)
      /\ want \in [Blocks -> [size: 0 .. MaxSize, len: 0 .. MaxSize]]
  BY CalmFacts
<1>2. \A g \in Handles : mem'[g].addr = mem[g].addr /\ mem'[g].size = mem[g].size
  BY <1>1 DEF Fill, Chunk
<1>3. Live' = Live /\ Live \subseteq Handles
  BY <1>2 DEF Live
<1>4. list' = list /\ ptr' = ptr /\ waiting' = waiting /\ known' = known
  BY DEF Fill, table, known
<1>5. \A i \in 1 .. Len(known) : known[i].hdl \in Live
  BY <1>1 DEF HandlesOf
<1>6. Apart' /\ Located' /\ Held'
  BY <1>1, <1>2, <1>3, <1>4, <1>5 DEF InOrder, Apart, Located, Held
<1>7. ASSUME NEW c \in Blocks, ptr[c] # NULL, NEW g \in Live, Serves(g, c) PROVE Serves(g, c)'
  <2>1. g \in Handles /\ want[c].size \in 0 .. MaxSize /\ mem[g] \in Chunk
    BY <1>1, <1>3
  <2>2. CASE c = b
    <3>1. mem'[g] = [mem[g] EXCEPT !.owner = b, !.len = Smaller(want[b].size, mem[g].size)]
      BY <1>1, <1>7, <2>1, <2>2 DEF Fill, Serves
    <3>2. mem'[g].owner = b /\ mem'[g].len = want[b].size
      BY <1>7, <2>1, <2>2, <3>1 DEF Serves, Smaller, Chunk
    <3>3. want'[b].size = want[b].size /\ want'[b].len = want[b].size
      BY <1>1 DEF Fill
    <3> QED BY <1>2, <1>4, <1>7, <2>1, <2>2, <3>2, <3>3 DEF Serves
  <2>3. CASE c # b
    <3>1. mem[g].addr # ptr[b]
      BY <1>1, <1>7, <2>3 DEF Serves, InOrder, Held
    <3>2. mem'[g] = mem[g] /\ want'[c] = want[c]
      BY <1>1, <2>1, <2>3, <3>1 DEF Fill
    <3> QED BY <1>4, <1>7, <3>2 DEF Serves
  <2> QED BY <2>2, <2>3
<1>8. Served'
  BY <1>1, <1>3, <1>4, <1>7 DEF InOrder, Served
<1>9. Pending'
  <2> SUFFICES ASSUME waiting # NULL PROVE Pending'
    BY <1>4 DEF Pending
  <2>1. PICK call \in Call : call = waiting
    BY CalmFacts, Zenon
  <2>2. /\ call.hdl \in Live /\ mem[call.hdl] = Fresh(call.ptr, call.size)
        /\ ptr[b] # call.ptr
    BY <1>1, <2>1 DEF InOrder, Pending
  <2>3. mem[call.hdl].addr # ptr[b]
    BY <2>2 DEF Fresh
  <2>4. mem'[call.hdl] = mem[call.hdl]
    BY <1>1, <1>3, <2>2, <2>3 DEF Fill
  <2>5. call.old # NULL => Serves(call.old, call.block)'
    <3>1. call.block \in Blocks
      BY DEF Call
    <3> QED BY <1>1, <1>7, <2>1, <3>1 DEF InOrder, Pending
  <2> QED BY <1>1, <1>3, <1>4, <2>1, <2>2, <2>4, <2>5 DEF InOrder, Pending
<1> QED BY <1>6, <1>8, <1>9 DEF InOrder

(* A pointer that is held is freed: its chunk and its slot are gone. *)
LEMMA FreeOrderly ==
  ASSUME Calm, NEW b \in Blocks, Free(b), ~disturbed'
  PROVE  InOrder'
<1> USE HeapAssumption DEF HeapAssumption
<1>0. waiting = NULL /\ waiting' = NULL
  <2>1. waiting = NULL
    BY Zenon DEF Free, Disturbs
  <2> QED BY <2>1 DEF Free
<1>1. /\ mem \in [Handles -> Chunk] /\ list \in Seq(Slot) /\ InOrder
      /\ ptr \in [Blocks -> Addresses \union {NULL}]
      /\ want \in [Blocks -> [size: 0 .. MaxSize, len: 0 .. MaxSize]]
      /\ Live \subseteq Handles /\ known = list /\ known' = list'
      /\ Once(list) /\ Live = HandlesOf(list) /\ ptr[b] # NULL
  BY <1>0, CalmFacts, KnownSlots DEF known, Free
<1>2. PICK i \in 1 .. Len(list) :
        /\ IsLookup(list, ptr[b], i)
        /\ list' = Unregistered(list, i)
        /\ mem' = [mem EXCEPT ![list[i].hdl] = NoChunk]
  <2>1. ~ \A i \in 1 .. Len(list) : list[i].ptr # ptr[b]
    BY <1>1, LookupFindsChunk DEF Unknown
  <2> QED BY <2>1 DEF Free, Released
<1>3. PICK h \in Live : h = list[i].hdl /\ Serves(h, b)
  BY <1>1, <1>2, LookupFindsChunk
<1>4. mem'[h] = NoChunk /\ \A g \in Handles : g # h => mem'[g] = mem[g]
  BY <1>1, <1>2, <1>3
<1>5. Live' = Live \ {h}
  BY <1>1, <1>3, <1>4 DEF Live, NoChunk
<1>6. /\ ptr'[b] = NULL
      /\ \A c \in Blocks : c # b => ptr'[c] = ptr[c] /\ want'[c] = want[c]
  BY <1>1 DEF Free
<1>7. Apart'
  BY <1>1, <1>4, <1>5 DEF Apart, InOrder
<1>8. Located'
  <2>1. ASSUME NEW j \in 1 .. Len(list') PROVE list'[j].ptr = mem'[list'[j].hdl].addr
    <3>1. PICK k \in 1 .. Len(list) : k # i /\ list'[j] = list[k]
      <4>1. list' = Unregistered(list, i) /\ j \in 1 .. Len(Unregistered(list, i))
        BY <1>2
      <4>2. \E k \in 1 .. Len(list) : k # i /\ Unregistered(list, i)[j] = list[k]
        BY <1>1, <4>1, UnregisteredKeepsOthers, SMTT(60)
      <4> QED BY <4>1, <4>2
    <3>2. list[k].hdl # h /\ list[k].hdl \in Live
      BY <1>1, <1>3, <3>1 DEF HandlesOf, Once
    <3> QED BY <1>1, <1>4, <3>1, <3>2 DEF InOrder, Located
  <2> QED BY <1>1, <2>1 DEF Located
<1>9. Served'
  <2>1. ASSUME NEW c \in Blocks, ptr'[c] # NULL PROVE \E g \in Live' : Serves(g, c)'
    <3>1. c # b /\ ptr[c] # NULL
      BY <1>6, <2>1
    <3>2. PICK g \in Live : Serves(g, c)
      BY <1>1, <3>1 DEF InOrder, Served
    <3>3. g # h
      BY <1>1, <1>3, <3>1, <3>2 DEF Serves, InOrder, Held
    <3>4. Serves(g, c)'
      BY <1>1, <1>4, <1>6, <3>1, <3>2, <3>3 DEF Serves
    <3> QED BY <1>5, <3>3, <3>4
  <2> QED BY <2>1 DEF Served
<1>10. Held'
  <2>1. ASSUME NEW g \in Live' PROVE \E c \in Blocks : ptr'[c] = mem'[g].addr
    <3>1. g \in Live /\ g # h
      BY <1>5
    <3>2. PICK c \in Blocks : ptr[c] = mem[g].addr
      BY <1>0, <1>1, <3>1 DEF InOrder, Held
    <3>3. c # b
      BY <1>1, <1>3, <3>1, <3>2 DEF Serves, InOrder, Apart
    <3> QED BY <1>1, <1>4, <1>6, <3>1, <3>2, <3>3
  <2>2. \A c, d \in Blocks : ptr'[c] = ptr'[d] /\ ptr'[c] # NULL => c = d
    BY <1>1, <1>6 DEF InOrder, Held
  <2> QED BY <2>1, <2>2 DEF Held
<1>11. Pending'
  BY <1>0 DEF Pending
<1> QED BY <1>7, <1>8, <1>9, <1>10, <1>11 DEF InOrder

LEMMA ReallocInPlaceOrderly ==
  ASSUME Calm, NEW b \in Blocks, NEW n \in Sizes, ReallocInPlace(b, n)
  PROVE  InOrder'
<1> USE HeapAssumption DEF HeapAssumption
<1>1. /\ mem \in [Handles -> Chunk] /\ list \in Seq(Slot) /\ InOrder
      /\ ptr \in [Blocks -> Addresses \union {NULL}]
      /\ want \in [Blocks -> [size: 0 .. MaxSize, len: 0 .. MaxSize]]
      /\ Live \subseteq Handles /\ Once(known) /\ Live = HandlesOf(known)
      /\ known \in Seq(Slot) /\ Len(known) = Len(list) /\ Len(list) \in Nat
  BY CalmFacts
<1>2. PICK i \in 1 .. Len(list), a \in Addresses : Resized(b, n, i, a)
  BY DEF ReallocInPlace
<1>3. PICK h \in Live : h = list[i].hdl /\ Serves(h, b) /\ ptr[b] # NULL /\ (waiting # NULL => i # waiting.slot)
  <2>1. ptr[b] # NULL
    BY DEF ReallocInPlace
  <2> QED BY <1>2, <2>1, LookupFindsChunk DEF Resized, Relocked
<1>4. waiting' = waiting
  BY DEF ReallocInPlace
<1>5. /\ mem'[h] = ResizedChunk(mem[h], a, n)
      /\ \A g \in Handles : g # h => mem'[g] = mem[g] /\ mem[g].addr # a
  BY <1>1, <1>2, <1>3 DEF Resized, Relocked, RoomFor
<1>6. /\ mem'[h].addr = a /\ mem'[h].size = n /\ mem'[h].owner = mem[h].owner
      /\ mem'[h].len = Smaller(mem[h].len, n)
  <2>1. mem[h] \in Chunk
    BY <1>1, <1>3
  <2> QED BY <1>5, <2>1 DEF ResizedChunk, Chunk
<1>7. /\ ptr'[b] = a
      /\ want'[b] = [size |-> n, len |-> Smaller(want[b].len, n)]
      /\ \A c \in Blocks : c # b => ptr'[c] = ptr[c] /\ want'[c] = want[c]
  <2>1. want' = [want EXCEPT ![b] = [size |-> n, len |-> Smaller(@.len, n)]]
    BY DEF ReallocInPlace
  <2>2. ptr' = [ptr EXCEPT ![b] = a]
    BY <1>2 DEF Resized
  <2> QED BY <1>1, <2>1, <2>2
<1>8. PICK u \in Seq(Slot) : u = list' /\ u = Updated(list, h, a) /\ Len(u) = Len(list)
  BY <1>1, <1>2, <1>3, UpdatedFacts DEF Resized
<1>9. Live' = Live
  BY <1>1, <1>3, <1>5, <1>6 DEF Live
<1>10. Apart'
  BY <1>1, <1>5, <1>6, <1>9 DEF Apart, InOrder
<1>11. \A j \in 1 .. Len(known) : known[j].hdl \in Live
  BY <1>1 DEF HandlesOf
<1>12. waiting # NULL =>
         /\ waiting.hdl \in Live /\ waiting.hdl # h /\ mem'[waiting.hdl] = mem[waiting.hdl]
         /\ mem[waiting.hdl].addr = waiting.ptr /\ a # waiting.ptr
  <2> SUFFICES ASSUME waiting # NULL
               PROVE  /\ waiting.hdl \in Live /\ waiting.hdl # h
                      /\ mem'[waiting.hdl] = mem[waiting.hdl]
                      /\ mem[waiting.hdl].addr = waiting.ptr /\ a # waiting.ptr
    OBVIOUS
  <2>1. /\ waiting.hdl \in Live /\ mem[waiting.hdl] = Fresh(waiting.ptr, waiting.size)
        /\ ptr[b] # waiting.ptr
    BY <1>1 DEF InOrder, Pending
  <2>2. mem[waiting.hdl].addr = waiting.ptr
    BY <2>1 DEF Fresh
  <2>3. waiting.hdl # h
    BY <1>3, <2>1, <2>2 DEF Serves
  <2> QED BY <1>1, <1>5, <2>1, <2>2, <2>3
<1>13. Located'
  <2>1. ASSUME NEW j \in 1 .. Len(known), waiting # NULL => j # waiting.slot
        PROVE  u[j].ptr = mem'[u[j].hdl].addr
    <3>1. j \in 1 .. Len(list) /\ list[j] = known[j] /\ list[j].hdl \in Live
      BY <1>1, <1>11, <2>1, KnownSlots
    <3>2. list[j].ptr = mem[list[j].hdl].addr
      BY <1>1, <3>1 DEF InOrder, Located
    <3>3. CASE list[j].hdl = h
      <4>1. \A k \in 1 .. (j - 1) : list[k].hdl # h
        <5>1. ASSUME NEW k \in 1 .. (j - 1), list[k].hdl = h PROVE FALSE
          <6>1. k \in 1 .. Len(list) /\ k # j
            BY <1>1, <3>1
          <6>2. waiting # NULL => k # waiting.slot
            <7>1. ASSUME waiting # NULL PROVE k # waiting.slot
              BY <1>1, <3>1, <7>1, CalmFacts
            <7> QED BY <7>1
          <6>3. known[k].hdl = known[j].hdl /\ k \in 1 .. Len(known)
            BY <1>1, <3>1, <3>3, <5>1, <6>1, <6>2, KnownSlots
          <6> QED BY <6>1, <6>3, <1>1 DEF Once
        <5> QED BY <5>1
      <4>2. u[j].ptr = a /\ u[j].hdl = h
        <5>1. h \in Handles /\ j \in 1 .. Len(list)
          BY <1>1, <1>3, <3>1
        <5>2. /\ Updated(list, h, a)[j].hdl = list[j].hdl
              /\ list[j].hdl = h /\ (\A k \in 1 .. (j - 1) : list[k].hdl # h) =>
                   Updated(list, h, a)[j].ptr = a
          BY <1>1, <5>1, UpdatedFacts
        <5> QED BY <1>8, <3>3, <4>1, <5>2
      <4> QED BY <1>6, <4>2
    <3>4. CASE list[j].hdl # h
      <4>1. u[j] = list[j]
        BY <1>1, <1>3, <1>8, <3>1, <3>4, UpdatedFacts, SMTT(60)
      <4> QED BY <1>1, <1>5, <3>1, <3>2, <3>4, <4>1
    <3> QED BY <3>3, <3>4
  <2>2. CASE waiting = NULL
    <3>1. known' = u /\ known = list
      BY <1>4, <1>8, <2>2 DEF known
    <3> QED BY <1>8, <2>1, <2>2, <3>1 DEF Located
  <2>3. CASE waiting # NULL
    <3>1. PICK call \in Call : call = waiting
      BY <2>3, CalmFacts, Zenon
    <3>2. known' = Written(u, call)
      BY <1>4, <1>8, <2>3, <3>1 DEF known
    <3>3. /\ Len(known') = Len(known)
          /\ \A j \in 1 .. Len(known) :
               known'[j] = IF j = call.slot THEN Pair(call) ELSE u[j]
      BY <1>1, <1>8, <3>2, WrittenFacts
    <3>4. Pair(call).hdl = call.hdl /\ Pair(call).ptr = call.ptr
      BY DEF Pair
    <3>5. ASSUME NEW j \in 1 .. Len(known) PROVE known'[j].ptr = mem'[known'[j].hdl].addr
      <4>1. CASE j = call.slot
        <5>1. known'[j] = Pair(call)
          BY <3>3, <4>1
        <5> QED BY <1>12, <2>3, <3>1, <3>4, <5>1
      <4>2. CASE j # call.slot
        <5>1. known'[j] = u[j]
          BY <3>3, <4>2
        <5> QED BY <2>1, <3>1, <4>2, <5>1
      <4> QED BY <4>1, <4>2
    <3> QED BY <3>3, <3>5 DEF Located
  <2> QED BY <2>2, <2>3
<1>14. \A c \in Blocks, g \in Live : c # b /\ g # h /\ Serves(g, c) => Serves(g, c)'
  BY <1>1, <1>5, <1>7 DEF Serves
<1>15. Served'
  <2>1. ASSUME NEW c \in Blocks, ptr'[c] # NULL PROVE \E g \in Live' : Serves(g, c)'
    <3>1. CASE c = b
      <4>1. /\ want[b].len <= mem[h].len /\ (want[b].len > 0 => mem[h].owner = b)
            /\ want[b].len \in Nat /\ mem[h].len \in Nat /\ n \in Nat /\ n > 0
        BY <1>1, <1>3 DEF Serves, Chunk, Sizes
      <4>2. /\ Smaller(want[b].len, n) <= Smaller(mem[h].len, n)
            /\ Smaller(want[b].len, n) > 0 => want[b].len > 0
        BY <4>1 DEF Smaller
      <4>3. want'[b].size = n /\ want'[b].len = Smaller(want[b].len, n)
        BY <1>7
      <4>4. Serves(h, b)'
        BY <1>6, <1>7, <4>1, <4>2, <4>3 DEF Serves
      <4> QED BY <1>9, <3>1, <4>4
    <3>2. CASE c # b
      <4>1. PICK g \in Live : Serves(g, c)
        BY <1>1, <1>7, <2>1, <3>2 DEF InOrder, Served
      <4>2. g # h
        BY <1>1, <1>3, <3>2, <4>1 DEF Serves, InOrder, Held
      <4> QED BY <1>9, <1>14, <3>2, <4>1, <4>2
    <3> QED BY <3>1, <3>2
  <2> QED BY <2>1 DEF Served
<1>16. Held'
  <2>1. ASSUME NEW g \in Live'
        PROVE  (\E c \in Blocks : ptr'[c] = mem'[g].addr) \/ (waiting # NULL /\ waiting.hdl = g)
    <3>1. CASE g = h
      BY <1>6, <1>7, <3>1
    <3>2. CASE g # h /\ ~(waiting # NULL /\ waiting.hdl = g)
      <4>1. PICK c \in Blocks : ptr[c] = mem[g].addr
        BY <1>1, <1>9, <3>2 DEF InOrder, Held
      <4>2. c # b
        BY <1>1, <1>3, <1>9, <3>2, <4>1 DEF Serves, InOrder, Apart
      <4> QED BY <1>1, <1>5, <1>7, <1>9, <3>2, <4>1, <4>2
    <3> QED BY <3>1, <3>2
  <2>2. \A c \in Blocks : c # b => ptr[c] # a
    <3>1. ASSUME NEW c \in Blocks, c # b, ptr[c] = a PROVE FALSE
      <4>1. PICK g \in Live : Serves(g, c)
        BY <1>1, <3>1 DEF InOrder, Served
      <4>2. g # h
        BY <1>1, <1>3, <3>1, <4>1 DEF Serves, InOrder, Held
      <4> QED BY <1>1, <1>5, <3>1, <4>1, <4>2 DEF Serves
    <3> QED BY <3>1
  <2>3. \A c, d \in Blocks : ptr'[c] = ptr'[d] /\ ptr'[c] # NULL => c = d
    BY <1>1, <1>7, <2>2 DEF InOrder, Held
  <2> QED BY <1>4, <2>1, <2>3 DEF Held
<1>17. Pending'
  <2> SUFFICES ASSUME waiting # NULL PROVE Pending'
    BY <1>4 DEF Pending
  <2>1. PICK call \in Call : call = waiting
    BY CalmFacts, Zenon
  <2>2. call.block \in Blocks /\ call.block # b
    BY <2>1 DEF Call, ReallocInPlace, Calls
  <2>3. call.hdl \in Live' /\ mem'[call.hdl] = Fresh(call.ptr, call.size)
    BY <1>1, <1>9, <1>12, <2>1 DEF InOrder, Pending
  <2>4. \A c \in Blocks : ptr'[c] # call.ptr
    BY <1>1, <1>7, <1>12, <2>1 DEF InOrder, Pending
  <2>5. ptr'[call.block] = ptr[call.block]
    BY <1>7, <2>2
  <2>6. call.old = NULL => ptr'[call.block] = NULL
    BY <1>1, <2>1, <2>5 DEF InOrder, Pending
  <2>7. ASSUME call.old # NULL
        PROVE  /\ call.old \in Live' /\ Serves(call.old, call.block)'
               /\ call.at = ptr'[call.block] /\ ptr'[call.block] # NULL
    <3>1. /\ call.old \in Live /\ Serves(call.old, call.block)
          /\ call.at = ptr[call.block] /\ ptr[call.block] # NULL
      BY <1>1, <2>1, <2>7 DEF InOrder, Pending
    <3>2. call.old # h
      BY <1>1, <1>3, <2>2, <3>1 DEF Serves, InOrder, Held
    <3> QED BY <1>9, <1>14, <2>2, <2>5, <3>1, <3>2
  <2> QED BY <1>4, <2>1, <2>3, <2>4, <2>6, <2>7 DEF Pending
<1> QED BY <1>10, <1>13, <1>15, <1>16, <1>17 DEF InOrder

(* A resize that fails without moving the chunk changes nothing. *)
LEMMA ReallocFailsOrderly ==
  ASSUME Calm, NEW b \in Blocks, NEW n \in Sizes, ReallocFails(b, n), ~moved'
  PROVE  InOrder'
<1>1. mem \in [Handles -> Chunk] /\ InOrder
  BY CalmFacts
<1>2. PICK i \in 1 .. Len(list), a \in Addresses :
        Displaced(b, n, i, a) /\ mem' = [mem EXCEPT ![list[i].hdl].addr = a]
  BY DEF ReallocFails
<1>3. list[i].hdl \in Handles
  BY <1>2 DEF Displaced, Relocked, Live
<1>4. a = mem[list[i].hdl].addr
  BY <1>2 DEF Displaced
<1>5. mem' = mem
  BY <1>1, <1>2, <1>3, <1>4 DEF Chunk
<1>6. UNCHANGED <<ptr, want, list, waiting>>
  BY DEF ReallocFails, table
<1> QED BY <1>1, <1>5, <1>6 DEF InOrder, Apart, Located, Served, Serves, Held, Pending, Live, known

(* What a copy starts from: h is b's chunk, table l has the new chunk h2   *)
(* at a2 besides the old ones, and the rest is in order.                   *)
Ready(b, h, h2, a2, l) ==
  /\ h \in Live /\ h2 # h /\ Serves(h, b) /\ ptr[b] # NULL
  /\ \A g \in Handles : g # h2 => mem[g].addr # a2
  /\ \A g, g1 \in Live \ {h2} : mem[g].addr = mem[g1].addr => g = g1
  /\ Once(l) /\ h \in HandlesOf(l)
  /\ \A j \in 1 .. Len(l) :
       \/ l[j].hdl = h2 /\ l[j].ptr = a2
       \/ l[j].hdl \in Live \ {h2} /\ l[j].ptr = mem[l[j].hdl].addr
  /\ \A c \in Blocks : ptr[c] # NULL => \E g \in Live \ {h2} : Serves(g, c)
  /\ \A g \in Live \ {h2} : \E c \in Blocks : ptr[c] = mem[g].addr
  /\ \A c, d \in Blocks : ptr[c] = ptr[d] /\ ptr[c] # NULL => c = d

(* Copying: the new chunk takes the place of the old one, which is freed   *)
(* because it is still where the table says.                               *)
LEMMA CopiedOrderly ==
  ASSUME TypeOK, NEW b \in Blocks, NEW n \in Sizes, NEW h \in Handles, NEW h2 \in Handles,
         NEW a2 \in Addresses, NEW l \in Seq(Slot), NEW m \in [Handles -> Chunk],
         \A g \in Handles : g # h2 => m[g] = mem[g],
         Ready(b, h, h2, a2, l), Copied(b, n, h, ptr[b], h2, a2, l, m), waiting' = NULL
  PROVE  InOrder'
<1> USE HeapAssumption DEF HeapAssumption
<1>1. /\ mem \in [Handles -> Chunk] /\ ptr \in [Blocks -> Addresses \union {NULL}]
      /\ want \in [Blocks -> [size: 0 .. MaxSize, len: 0 .. MaxSize]]
      /\ Live \subseteq Handles /\ Len(l) \in Nat
  BY DEF TypeOK, Live
<1>2. PICK a \in Addresses : a = ptr[b] /\ a = mem[h].addr
  BY <1>1 DEF Ready, Serves
<1>3. h # h2 /\ h \in Live /\ m[h] = mem[h] /\ a # a2
  BY <1>2 DEF Ready
<1>4. PICK both : both = [m EXCEPT ![h2] = CopyOf(mem[h], a2, n)]
  OBVIOUS
<1>5. both[h2] = CopyOf(mem[h], a2, n) /\ \A g \in Handles : g # h2 => both[g] = mem[g]
  BY <1>4
<1>6. PICK k \in 1 .. Len(l) :
        /\ l[k].ptr = a
        /\ list' = Unregistered(l, k)
        /\ mem' = [both EXCEPT ![l[k].hdl] = NoChunk]
  <2>1. PICK k \in 1 .. Len(l) : l[k].hdl = h
    BY DEF Ready, HandlesOf
  <2>2. l[k].ptr = a
    BY <1>2, <1>3, <2>1 DEF Ready
  <2>3. ~ \A j \in 1 .. Len(l) : l[j].ptr # ptr[b]
    BY <1>2, <2>2
  <2>4. Released(ptr[b], l, both, list', mem')
    BY <1>3, <1>4 DEF Copied
  <2> QED BY <1>2, <2>3, <2>4 DEF Released, IsLookup
<1>7. l[k].hdl = h
  <2>1. l[k].hdl \in Live \ {h2} /\ mem[l[k].hdl].addr = a
    BY <1>3, <1>6 DEF Ready
  <2> QED BY <1>2, <1>3, <2>1 DEF Ready
<1>8. /\ mem'[h] = NoChunk /\ mem'[h2] = CopyOf(mem[h], a2, n)
      /\ \A g \in Handles : g # h /\ g # h2 => mem'[g] = mem[g]
  BY <1>3, <1>4, <1>5, <1>6, <1>7
<1>9. Live' = (Live \ {h, h2}) \union {h2}
  <2>1. mem'[h2].addr = a2 /\ a2 # NULL /\ mem'[h].addr = NULL
    BY <1>8 DEF CopyOf, NoChunk
  <2> QED BY <1>1, <1>3, <1>8, <2>1 DEF Live
<1>10. /\ ptr'[b] = a2
       /\ want'[b].size = n /\ want'[b].len = Smaller(want[b].len, n)
       /\ \A c \in Blocks : c # b => ptr'[c] = ptr[c] /\ want'[c] = want[c]
  <2>1. want' = [want EXCEPT ![b] = [size |-> n, len |-> Smaller(@.len, n)]]
    BY DEF Copied
  <2>2. ptr' = [ptr EXCEPT ![b] = a2]
    BY DEF Copied
  <2> QED BY <1>1, <2>1, <2>2
<1>11. mem'[h2].addr = a2 /\ mem'[h2].size = n /\ mem'[h2].owner = mem[h].owner
       /\ mem'[h2].len = Smaller(mem[h].len, n)
  BY <1>8 DEF CopyOf
<1>12. \A g \in Live \ {h, h2} : g \in Handles /\ mem'[g] = mem[g] /\ mem[g].addr # a2
  BY <1>1, <1>8 DEF Ready
<1>13. Apart'
  BY <1>9, <1>11, <1>12 DEF Apart, Ready
<1>14. known' = list'
  BY DEF known
<1>15. Located'
  <2>1. ASSUME NEW j \in 1 .. Len(list') PROVE list'[j].ptr = mem'[list'[j].hdl].addr
    <3>1. PICK q \in 1 .. Len(l) : q # k /\ list'[j] = l[q]
      <4>1. list' = Unregistered(l, k) /\ j \in 1 .. Len(Unregistered(l, k))
        BY <1>6
      <4>2. \E q \in 1 .. Len(l) : q # k /\ Unregistered(l, k)[j] = l[q]
        BY <4>1, UnregisteredKeepsOthers
      <4> QED BY <4>1, <4>2
    <3>2. l[q].hdl # h
      BY <1>7, <3>1 DEF Ready, Once
    <3>3. CASE l[q].hdl = h2 /\ l[q].ptr = a2
      BY <1>11, <3>1, <3>3
    <3>4. CASE l[q].hdl \in Live \ {h2} /\ l[q].ptr = mem[l[q].hdl].addr
      <4>1. l[q].hdl \in Live \ {h, h2}
        BY <3>2, <3>4
      <4> QED BY <1>12, <3>1, <3>4, <4>1
    <3> QED BY <3>3, <3>4 DEF Ready
  <2> QED BY <1>14, <2>1 DEF Located
<1>16. Served'
  <2>1. ASSUME NEW c \in Blocks, ptr'[c] # NULL PROVE \E g \in Live' : Serves(g, c)'
    <3>1. CASE c = b
      <4>1. /\ want[b].len <= mem[h].len /\ (want[b].len > 0 => mem[h].owner = b)
            /\ want[b].len \in Nat /\ mem[h].len \in Nat /\ n \in Nat /\ n > 0
        BY <1>1 DEF Ready, Serves, Chunk, Sizes
      <4>2. /\ Smaller(want[b].len, n) <= Smaller(mem[h].len, n)
            /\ Smaller(want[b].len, n) > 0 => want[b].len > 0
        BY <4>1 DEF Smaller
      <4>3. Serves(h2, b)'
        BY <1>10, <1>11, <4>1, <4>2 DEF Serves
      <4> QED BY <1>9, <3>1, <4>3
    <3>2. CASE c # b
      <4>1. PICK g \in Live \ {h2} : Serves(g, c)
        BY <1>10, <2>1, <3>2 DEF Ready
      <4>2. g # h
        BY <1>10, <2>1, <3>2, <4>1 DEF Serves, Ready
      <4>3. Serves(g, c)'
        BY <1>10, <1>12, <3>2, <4>1, <4>2 DEF Serves
      <4> QED BY <1>9, <4>1, <4>2, <4>3
    <3> QED BY <3>1, <3>2
  <2> QED BY <2>1 DEF Served
<1>17. Held'
  <2>1. ASSUME NEW g \in Live' PROVE \E c \in Blocks : ptr'[c] = mem'[g].addr
    <3>1. CASE g = h2
      BY <1>10, <1>11, <3>1
    <3>2. CASE g # h2
      <4>1. g \in Live \ {h, h2}
        BY <1>9, <3>2
      <4>2. PICK c \in Blocks : ptr[c] = mem[g].addr
        BY <4>1 DEF Ready
      <4>3. \A g1, g2 \in Live \ {h2} : mem[g1].addr = mem[g2].addr => g1 = g2
        BY DEF Ready
      <4>4. mem[g].addr # mem[h].addr
        BY <1>3, <4>1, <4>3
      <4>5. c # b
        BY <1>2, <4>2, <4>4
      <4> QED BY <1>10, <1>12, <4>1, <4>2, <4>5
    <3> QED BY <3>1, <3>2
  <2>2. \A c \in Blocks : c # b => ptr[c] # a2
    <3>1. ASSUME NEW c \in Blocks, c # b, ptr[c] = a2 PROVE FALSE
      <4>1. PICK g \in Live \ {h2} : Serves(g, c)
        BY <3>1 DEF Ready
      <4>2. g \in Handles /\ mem[g].addr = a2
        BY <1>1, <3>1, <4>1 DEF Serves
      <4> QED BY <4>1, <4>2 DEF Ready
    <3> QED BY <3>1
  <2>3. \A c, d \in Blocks : ptr'[c] = ptr'[d] /\ ptr'[c] # NULL => c = d
    BY <1>10, <2>2 DEF Ready
  <2> QED BY <2>1, <2>3 DEF Held
<1>18. Pending'
  BY DEF Pending
<1> QED BY <1>13, <1>15, <1>16, <1>17, <1>18 DEF InOrder

(* What the two realloc's that copy have found out before. *)
LEMMA DoubledFacts ==
  ASSUME Calm, NEW b \in Blocks, NEW n \in Sizes, NEW i \in 1 .. Len(list),
         NEW h2 \in Handles, NEW a \in Addresses, NEW a2 \in Addresses,
         Doubled(b, n, i, a, h2, a2), ~moved', ptr[b] # NULL
  PROVE  /\ list[i].hdl \in Live /\ Serves(list[i].hdl, b) /\ a = ptr[b]
         /\ [mem EXCEPT ![list[i].hdl].addr = a] = mem
         /\ h2 \notin Live /\ a2 \in RoomFor({h2})
<1>1. list[i].hdl \in Live /\ Serves(list[i].hdl, b)
  BY LookupFindsChunk DEF Doubled, Displaced, Relocked
<1>2. a = mem[list[i].hdl].addr
  BY Zenon DEF Doubled, Displaced
<1>3. mem \in [Handles -> Chunk] /\ list[i].hdl \in Handles
  BY <1>1, CalmFacts
<1>4. [mem EXCEPT ![list[i].hdl].addr = a] = mem
  BY <1>2, <1>3 DEF Chunk
<1>5. a2 \in RoomFor({h2})
  BY <1>2 DEF Doubled, RoomFor
<1> QED BY <1>1, <1>2, <1>4, <1>5 DEF Doubled, Serves

LEMMA ReallocCopiesOrderly ==
  ASSUME Calm, NEW b \in Blocks, NEW n \in Sizes, ReallocCopies(b, n), ~moved', ~disturbed'
  PROVE  InOrder'
<1> USE HeapAssumption DEF HeapAssumption
<1>1. PICK i \in 1 .. Len(list), h2 \in Handles, a \in Addresses, a2 \in Addresses :
        /\ Doubled(b, n, i, a, h2, a2)
        /\ Copied(b, n, list[i].hdl, a, h2, a2, Append(list, [hdl |-> h2, ptr |-> a2]),
                  [mem EXCEPT ![list[i].hdl].addr = a])
  BY DEF ReallocCopies
<1>2. waiting = NULL /\ waiting' = NULL
  <2>1. waiting = NULL
    BY Zenon DEF ReallocCopies, Disturbs
  <2> QED BY <2>1 DEF ReallocCopies
<1>3. /\ mem \in [Handles -> Chunk] /\ list \in Seq(Slot) /\ InOrder /\ Len(list) \in Nat
      /\ Live \subseteq Handles /\ known = list /\ Once(list) /\ Live = HandlesOf(list)
      /\ ptr[b] # NULL
  BY <1>2, CalmFacts, KnownSlots DEF ReallocCopies
<1>4. /\ list[i].hdl \in Live /\ Serves(list[i].hdl, b) /\ a = ptr[b]
      /\ [mem EXCEPT ![list[i].hdl].addr = a] = mem
      /\ h2 \notin Live /\ a2 \in RoomFor({h2})
  BY <1>1, <1>3, DoubledFacts
<1>5. PICK h \in Handles : h = list[i].hdl
  BY <1>3, <1>4
<1>6. PICK e \in Slot : e = [hdl |-> h2, ptr |-> a2]
  BY DEF Slot, Entry
<1>7. PICK l \in Seq(Slot) :
        /\ l = Append(list, e) /\ Len(l) = Len(list) + 1
        /\ \A j \in 1 .. Len(list) : l[j] = list[j]
        /\ l[Len(list) + 1] = e
  <2>1. /\ Append(list, e) \in Seq(Slot) /\ Len(Append(list, e)) = Len(list) + 1
        /\ \A j \in 1 .. Len(list) : Append(list, e)[j] = list[j]
        /\ Append(list, e)[Len(list) + 1] = e
    BY <1>3, AppendProperties
  <2> QED BY <2>1
<1>8. e.hdl = h2 /\ e.ptr = a2 /\ e.hdl \notin HandlesOf(list)
  BY <1>3, <1>4, <1>6
<1>9. Once(l) /\ HandlesOf(l) = HandlesOf(list) \union {h2}
  BY <1>3, <1>7, <1>8, AppendHandles
<1>10. PICK m \in [Handles -> Chunk] : m = mem
  BY <1>3
<1>11. Copied(b, n, h, ptr[b], h2, a2, l, m)
  BY <1>1, <1>4, <1>5, <1>6, <1>7, <1>10
<1>12. Ready(b, h, h2, a2, l)
  <2>1. \A g \in Handles : g # h2 => mem[g].addr # a2
    BY <1>4 DEF RoomFor
  <2>2. \A g, g1 \in Live \ {h2} : mem[g].addr = mem[g1].addr => g = g1
    BY <1>3 DEF InOrder, Apart
  <2>3. ASSUME NEW j \in 1 .. Len(l)
        PROVE  \/ l[j].hdl = h2 /\ l[j].ptr = a2
               \/ l[j].hdl \in Live \ {h2} /\ l[j].ptr = mem[l[j].hdl].addr
    <3>1. CASE j = Len(list) + 1
      BY <1>7, <1>8, <3>1
    <3>2. CASE j # Len(list) + 1
      <4>1. j \in 1 .. Len(list) /\ l[j] = list[j]
        BY <1>3, <1>7, <3>2
      <4>2. list[j].hdl \in Live /\ list[j].ptr = mem[list[j].hdl].addr
        BY <1>3, <4>1 DEF InOrder, Located, HandlesOf
      <4> QED BY <1>4, <4>1, <4>2
    <3> QED BY <3>1, <3>2
  <2>4. \A c \in Blocks : ptr[c] # NULL => \E g \in Live \ {h2} : Serves(g, c)
    BY <1>3, <1>4 DEF InOrder, Served
  <2>5. /\ \A g \in Live \ {h2} : \E c \in Blocks : ptr[c] = mem[g].addr
        /\ \A c, d \in Blocks : ptr[c] = ptr[d] /\ ptr[c] # NULL => c = d
    BY <1>2, <1>3 DEF InOrder, Held
  <2>6. h \in Live /\ h2 # h /\ Serves(h, b) /\ ptr[b] # NULL /\ h \in HandlesOf(l)
    BY <1>3, <1>4, <1>5, <1>9
  <2> QED BY <1>9, <2>1, <2>2, <2>3, <2>4, <2>5, <2>6 DEF Ready
<1>13. TypeOK
  BY DEF Calm, HeapInv
<1> QED BY <1>2, <1>10, <1>11, <1>12, <1>13, CopiedOrderly

LEMMA ReallocWaitsOrderly ==
  ASSUME Calm, NEW b \in Blocks, NEW n \in Sizes, ReallocWaits(b, n), ~moved'
  PROVE  InOrder'
<1>1. PICK i \in 1 .. Len(list), h2 \in Handles, a \in Addresses, a2 \in Addresses :
        /\ Doubled(b, n, i, a, h2, a2)
        /\ mem' = [mem EXCEPT ![list[i].hdl].addr = a, ![h2] = Fresh(a2, n)]
        /\ Suspended([block |-> b, slot |-> Len(list) + 1, hdl |-> h2, ptr |-> a2,
                      size |-> n, old |-> list[i].hdl, at |-> a])
  BY DEF ReallocWaits
<1>2. ptr[b] # NULL /\ UNCHANGED <<ptr, want>>
  BY DEF ReallocWaits
<1>3. /\ list[i].hdl \in Live /\ Serves(list[i].hdl, b) /\ a = ptr[b]
      /\ [mem EXCEPT ![list[i].hdl].addr = a] = mem
      /\ h2 \notin Live /\ a2 \in RoomFor({h2})
  BY <1>1, <1>2, DoubledFacts
<1>4. PICK h \in Handles : h = list[i].hdl
  BY <1>3 DEF Live
<1>5. PICK call \in Call :
        call = [block |-> b, slot |-> Len(list) + 1, hdl |-> h2, ptr |-> a2,
                size |-> n, old |-> h, at |-> a]
  <2>1. Len(list) + 1 \in Nat
    BY CalmFacts
  <2> QED BY <2>1 DEF Call
<1>6. /\ call.slot = Len(list) + 1 /\ call.size = n /\ call.hdl = h2 /\ call.ptr = a2
      /\ call.old = h /\ call.at = a /\ call.block = b
  BY <1>5
<1>7. Suspended(call)
  BY <1>1, <1>4, <1>5
<1>8. NewChunk(n, h2, a2)
  <2>1. mem' = [[mem EXCEPT ![h].addr = a] EXCEPT ![h2] = Fresh(a2, n)]
    BY <1>1, <1>4
  <2> QED BY <1>3, <1>4, <2>1 DEF NewChunk
<1>9. h # NULL
  BY HeapAssumption DEF HeapAssumption
<1> QED BY <1>2, <1>3, <1>4, <1>6, <1>7, <1>8, <1>9, SuspendedOrderly

LEMMA MallocResumesOrderly ==
  ASSUME Calm, MallocResumes
  PROVE  InOrder'
<1> USE HeapAssumption DEF HeapAssumption
<1>1. /\ InOrder /\ Live \subseteq Handles
      /\ ptr \in [Blocks -> Addresses \union {NULL}]
      /\ want \in [Blocks -> [size: 0 .. MaxSize, len: 0 .. MaxSize]]
      /\ mem \in [Handles -> Chunk]
  BY CalmFacts
<1>2. waiting # NULL /\ waiting.old = NULL /\ waiting' = NULL /\ mem' = mem
  BY DEF MallocResumes
<1>3. PICK call \in Call : call = waiting
  BY <1>2, CalmFacts, Zenon
<1>4. PICK b \in Blocks, a \in Addresses, n \in Sizes, h \in Handles :
        b = call.block /\ a = call.ptr /\ n = call.size /\ h = call.hdl
  BY DEF Call
<1>5. /\ h \in Live /\ mem[h] = Fresh(a, n) /\ ptr[b] = NULL
      /\ \A c \in Blocks : ptr[c] # a
  BY <1>1, <1>2, <1>3, <1>4 DEF InOrder, Pending
<1>6. /\ ptr' = [ptr EXCEPT ![b] = a]
      /\ want' = [want EXCEPT ![b] = [size |-> n, len |-> 0]]
  BY <1>3, <1>4 DEF MallocResumes
<1>7. /\ ptr'[b] = a /\ want'[b] = [size |-> n, len |-> 0]
      /\ \A c \in Blocks : c # b => ptr'[c] = ptr[c] /\ want'[c] = want[c]
  BY <1>1, <1>6
<1>8. known' = known
  BY <1>2 DEF known, MallocResumes
<1>9. Live' = Live
  BY <1>2 DEF Live
<1>10. Apart' /\ Located'
  BY <1>1, <1>2, <1>8, <1>9 DEF InOrder, Apart, Located
<1>11. Served'
  <2>1. Serves(h, b)'
    BY <1>2, <1>5, <1>7 DEF Serves, Fresh, Sizes
  <2>2. ASSUME NEW c \in Blocks, c # b, ptr'[c] # NULL PROVE \E g \in Live : Serves(g, c)'
    <3>1. PICK g \in Live : Serves(g, c)
      BY <1>1, <1>7, <2>2 DEF InOrder, Served
    <3>2. Serves(g, c)'
      BY <1>2, <1>7, <2>2, <3>1 DEF Serves
    <3> QED BY <3>2
  <2> QED BY <1>5, <1>9, <2>1, <2>2 DEF Served
<1>12. Held'
  <2>1. ASSUME NEW g \in Live PROVE \E c \in Blocks : ptr'[c] = mem[g].addr
    <3>1. CASE g = h
      BY <1>5, <1>7, <3>1 DEF Fresh
    <3>2. CASE g # h
      <4>1. PICK c \in Blocks : ptr[c] = mem[g].addr
        BY <1>1, <1>3, <1>4, <3>2 DEF InOrder, Held
      <4>2. c # b
        BY <1>5, <4>1 DEF Live
      <4> QED BY <1>7, <4>1, <4>2
    <3> QED BY <3>1, <3>2
  <2>2. \A c, d \in Blocks : ptr'[c] = ptr'[d] /\ ptr'[c] # NULL => c = d
    BY <1>1, <1>5, <1>7 DEF InOrder, Held
  <2> QED BY <1>2, <1>9, <2>1, <2>2 DEF Held
<1>13. Pending'
  BY <1>2 DEF Pending
<1> QED BY <1>10, <1>11, <1>12, <1>13 DEF InOrder

LEMMA ReallocResumesOrderly ==
  ASSUME Calm, ReallocResumes
  PROVE  InOrder'
<1> USE HeapAssumption DEF HeapAssumption
<1>1. /\ InOrder /\ Live \subseteq Handles /\ mem \in [Handles -> Chunk]
      /\ known \in Seq(Slot) /\ Once(known) /\ Live = HandlesOf(known)
  BY CalmFacts
<1>2. waiting # NULL /\ waiting.old \in Live /\ waiting' = NULL
  BY DEF ReallocResumes
<1>3. PICK call \in Call : call = waiting
  BY <1>2, CalmFacts, Zenon
<1>4. PICK b \in Blocks, a2 \in Addresses, n \in Sizes, h2 \in Handles, h \in Handles :
        b = call.block /\ a2 = call.ptr /\ n = call.size /\ h2 = call.hdl /\ h = call.old
  BY <1>1, <1>2, <1>3 DEF Call
<1>5. h # NULL
  OBVIOUS
<1>6. /\ h2 \in Live /\ mem[h2] = Fresh(a2, n)
      /\ \A c \in Blocks : ptr[c] # a2
      /\ h \in Live /\ Serves(h, b) /\ call.at = ptr[b] /\ ptr[b] # NULL
  BY <1>1, <1>2, <1>3, <1>4, <1>5 DEF InOrder, Pending
<1>7. mem[h2].addr = a2
  BY <1>6 DEF Fresh
<1>8. h # h2
  BY <1>6, <1>7 DEF Serves
<1>9. PICK l \in Seq(Slot) : l = known
  BY <1>1
<1>10. known = Written(list, waiting)
  BY <1>2 DEF known
<1>11. PICK m \in [Handles -> Chunk] : m = mem
  BY <1>1
<1>12. Copied(b, n, h, ptr[b], h2, a2, l, m)
  BY <1>3, <1>4, <1>6, <1>9, <1>10, <1>11 DEF ReallocResumes
<1>13. Ready(b, h, h2, a2, l)
  <2>1. \A g \in Handles : g # h2 => mem[g].addr # a2
    <3>1. ASSUME NEW g \in Handles, g # h2, mem[g].addr = a2 PROVE FALSE
      <4>1. g \in Live
        BY <3>1 DEF Live
      <4> QED BY <1>1, <1>6, <1>7, <3>1, <4>1 DEF InOrder, Apart
    <3> QED BY <3>1
  <2>2. \A g, g1 \in Live \ {h2} : mem[g].addr = mem[g1].addr => g = g1
    BY <1>1 DEF InOrder, Apart
  <2>3. ASSUME NEW j \in 1 .. Len(l)
        PROVE  \/ l[j].hdl = h2 /\ l[j].ptr = a2
               \/ l[j].hdl \in Live \ {h2} /\ l[j].ptr = mem[l[j].hdl].addr
    <3>1. l[j].hdl \in Live /\ l[j].ptr = mem[l[j].hdl].addr
      BY <1>1, <1>9 DEF InOrder, Located, HandlesOf
    <3> QED BY <1>7, <3>1
  <2>4. ASSUME NEW c \in Blocks, ptr[c] # NULL PROVE \E g \in Live \ {h2} : Serves(g, c)
    <3>1. PICK g \in Live : Serves(g, c)
      BY <1>1, <2>4 DEF InOrder, Served
    <3>2. g # h2
      BY <1>6, <1>7, <3>1 DEF Serves
    <3> QED BY <3>1, <3>2
  <2>5. /\ \A g \in Live \ {h2} : \E c \in Blocks : ptr[c] = mem[g].addr
        /\ \A c, d \in Blocks : ptr[c] = ptr[d] /\ ptr[c] # NULL => c = d
    BY <1>1, <1>3, <1>4 DEF InOrder, Held
  <2>6. h \in Live /\ h2 # h /\ Serves(h, b) /\ ptr[b] # NULL /\ h \in HandlesOf(l) /\ Once(l)
    BY <1>1, <1>6, <1>8, <1>9
  <2> QED BY <2>1, <2>2, <2>3, <2>4, <2>5, <2>6 DEF Ready
<1>14. TypeOK /\ \A g \in Handles : g # h2 => m[g] = mem[g]
  BY <1>11 DEF Calm, HeapInv
<1> QED BY <1>2, <1>12, <1>13, <1>14, CopiedOrderly

LEMMA HeapInvStep == HeapInv /\ [Next]_vars => HeapInv'
<1> SUFFICES ASSUME HeapInv, [Next]_vars PROVE HeapInv'
  OBVIOUS
<1>1. (TypeOK /\ Idle /\ Awaited)'
  BY TypeStep, IdleStep, AwaitedStep DEF HeapInv
<1>2. SUFFICES ASSUME ~moved', ~disturbed' PROVE InOrder'
  BY <1>1 DEF HeapInv, Orderly
<1>3. ~disturbed
  <2>1. CASE disturbed' = disturbed
    BY <1>2, <2>1
  <2>2. CASE Disturbs
    BY <1>2, <2>2, Zenon DEF Disturbs
  <2> QED
    BY <2>1, <2>2, ZenonT(60) DEF Next, MallocFails, Malloc, MallocWaits, Fill, Free, ReallocUnknown,
       ReallocInPlace, ReallocFails, ReallocCopies, ReallocWaits, MallocResumes, ReallocResumes,
       Release, Prepare, Suspended, table, vars
<1>4. CASE Prepare
  <2>1. /\ list = <<>> /\ waiting = NULL /\ \A b \in Blocks : ptr[b] = NULL
        /\ known = list /\ Live = HandlesOf(known)
    BY <1>3, <1>4 DEF Prepare, HeapInv, Idle, Awaited, known
  <2>2. Live = {}
    BY <2>1 DEF HandlesOf
  <2>3. Live' = {} /\ known' = <<>> /\ waiting' = NULL /\ ptr' = ptr
    BY <1>4, <2>1, <2>2 DEF Prepare, Live, known
  <2> QED BY <2>1, <2>3 DEF InOrder, Apart, Located, Served, Held, Pending
<1>5. CASE ~Prepare
  <2>1. ~moved
    <3>1. CASE moved' = moved
      BY <1>2, <3>1
    <3>2. ASSUME NEW b \in Blocks, NEW n \in Sizes, ReallocFails(b, n) PROVE ~moved
      BY <1>2, <3>2, ZenonT(60) DEF ReallocFails, Displaced
    <3>3. ASSUME NEW b \in Blocks, NEW n \in Sizes, ReallocCopies(b, n) PROVE ~moved
      BY <1>2, <3>3, ZenonT(60) DEF ReallocCopies, Doubled, Displaced
    <3>4. ASSUME NEW b \in Blocks, NEW n \in Sizes, ReallocWaits(b, n) PROVE ~moved
      BY <1>2, <3>4, ZenonT(60) DEF ReallocWaits, Doubled, Displaced
    <3> QED
      BY <1>5, <3>1, <3>2, <3>3, <3>4, Zenon DEF Next, MallocFails, Malloc, MallocWaits, Fill,
         Free, ReallocUnknown, ReallocInPlace, MallocResumes, ReallocResumes, Release, vars
  <2>2. Calm
    BY <1>3, <2>1 DEF Calm
  <2>3. CASE UNCHANGED vars
    <3>1. InOrder
      BY <2>2, CalmFacts
    <3> QED BY <2>3, <3>1 DEF vars, InOrder, Apart, Located, Served, Serves, Held, Pending, Live, known
  <2>4. ASSUME NEW b \in Blocks, MallocFails(b) \/ ReallocUnknown(b) PROVE InOrder'
    <3>1. UNCHANGED vars
      BY <2>4 DEF MallocFails, ReallocUnknown
    <3> QED BY <2>3, <3>1
  <2>5. CASE Release
    <3>1. waiting = NULL /\ waiting' = NULL /\ list' = <<>> /\ \A b \in Blocks : ptr'[b] = NULL
      BY <2>5 DEF Release
    <3>2. Live = HandlesOf(list)
      BY <2>2, <3>1, CalmFacts, KnownSlots
    <3>3. Live' = {}
      <4>1. \A h \in Handles : mem'[h].addr = NULL
        BY <2>5, <3>2 DEF Release, Live, NoChunk, HandlesOf
      <4> QED BY <4>1 DEF Live
    <3>4. known' = <<>>
      BY <3>1 DEF known
    <3> QED BY <3>1, <3>3, <3>4 DEF InOrder, Apart, Located, Served, Held, Pending
  <2> QED
    BY <1>2, <1>5, <2>2, <2>3, <2>4, <2>5, MallocOrderly, MallocWaitsOrderly, FillOrderly,
       FreeOrderly, ReallocInPlaceOrderly, ReallocFailsOrderly, ReallocCopiesOrderly,
       ReallocWaitsOrderly, MallocResumesOrderly, ReallocResumesOrderly DEF Next
<1> QED BY <1>4, <1>5

(* As long as no failed resize has moved a chunk and no waiting call was   *)
(* disturbed, every pointer leads to the chunk its caller asked for, with  *)
(* the caller's data in it.                                                *)
THEOREM HeapOwnedIntact == Spec => []OwnedIntact
<1>1. Init => HeapInv
  BY TypeInit, IdleInit, AwaitedInit, OrderlyInit DEF HeapInv
<1>2. HeapInv => OwnedIntact
  BY OrderlyIsOwned DEF HeapInv
<1> QED BY <1>1, <1>2, HeapInvStep, PTL DEF Spec

(* As long as no failed resize has moved a chunk and no waiting call was   *)
(* disturbed, nothing is leaked and no two callers share a chunk.          *)
THEOREM HeapNoLeak == Spec => []NoLeak
<1>1. Init => HeapInv
  BY TypeInit, IdleInit, AwaitedInit, OrderlyInit DEF HeapInv
<1>2. HeapInv => NoLeak
  BY OrderlyIsOwned DEF HeapInv
<1> QED BY <1>1, <1>2, HeapInvStep, PTL DEF Spec
=============================================================================
