------------------------------ MODULE GlueHeap ------------------------------
(***************************************************************************)
(* The heap that osglue.c puts under the Lua core: malloc, free and        *)
(* realloc on top of relocatable PalmOS memory handles, and memory_list,   *)
(* the table that maps every pointer handed out back to its handle.        *)
(*                                                                         *)
(* PalmOS runs one application thread, so a C call is one action.  The one *)
(* exception is a call that cannot grow memory_list: it calls exit(-1),    *)
(* whose event loop handles what is queued before the stop and then comes  *)
(* back, so that other calls may run in the middle of this one.            *)
(*                                                                         *)
(* What makes the code hard is the memory manager beneath it: a chunk may  *)
(* move whenever it is unlocked, and every allocation or resize may fail.  *)
(* A handle is locked from the moment it is allocated until it is freed,   *)
(* except inside realloc; so outside realloc a chunk has a fixed address.  *)
(*                                                                         *)
(* The callers (the Lua core through l_alloc, the application, the glue    *)
(* itself) are the Blocks: each holds at most one pointer at a time, keeps *)
(* its pointer when realloc fails (as ISO C and lmem.c rely on) and fills  *)
(* the bytes it was given with its own data.                               *)
(***************************************************************************)
EXTENDS Naturals, Sequences, FiniteSets

CONSTANTS
  Handles,      (* memory handles of the dynamic heap                        *)
  Addresses,    (* places a locked chunk can be at; equality is pointer "==" *)
  Blocks,       (* the callers' variables that hold a malloc'ed pointer      *)
  MaxSize,      (* largest request, in units of the model                    *)
  InitialSize,  (* slots of a fresh memory_list (8 in the code)              *)
  NULL

ASSUME HeapAssumption ==
  /\ MaxSize \in Nat \ {0}
  /\ InitialSize \in Nat /\ InitialSize > 1
  /\ NULL \notin Handles \union Addresses \union Blocks

VARIABLES
  up,      (* between memory_prepare and memory_release                      *)
  mem,     (* the memory manager: what each handle stands for                *)
  list,    (* memory_list.items[0 .. used-1], in order                       *)
  size,    (* memory_list.size                                               *)
  cap,     (* slots the chunk behind memory_list.items really has            *)
  ptr,     (* the pointer each caller holds                                  *)
  want,    (* what each caller may rely on: its size and its leading bytes   *)
  waiting, (* the call whose growth of the table has failed, in exit's loop  *)
  moved,   (* history: a resize that failed has moved the chunk              *)
  starved, (* history: growing the table has failed                          *)
  disturbed (* history: the table changed while a call waited in exit        *)

vars == <<up, mem, list, size, cap, ptr, want, waiting, moved, starved, disturbed>>
table == <<list, size, cap, starved, disturbed>>

Sizes == 1 .. MaxSize

(* A handle: where its chunk is, its size, and whose data fill its first   *)
(* "len" units.                                                            *)
Chunk == [addr: Addresses \union {NULL}, size: 0 .. MaxSize,
          owner: Blocks \union {NULL}, len: 0 .. MaxSize]

(* A slot of the table; a slot in use that was never written may hold any  *)
(* old pair or none.                                                       *)
Entry == [hdl: Handles, ptr: Addresses]
Unset == [hdl |-> NULL, ptr |-> NULL]
Slot == Entry \union {Unset}

(* The locals of a call that waits in exit: its caller, the slot it will   *)
(* write, the new chunk and its size and, in realloc, the old handle and   *)
(* where that is locked.                                                   *)
Call == [block: Blocks, slot: Nat, hdl: Handles, ptr: Addresses, size: Sizes,
         old: Handles \union {NULL}, at: Addresses \union {NULL}]

ASSUME CallAssumption == NULL \notin Call

NoChunk == [addr |-> NULL, size |-> 0, owner |-> NULL, len |-> 0]
Nothing == [size |-> 0, len |-> 0]

Live == {h \in Handles : mem[h].addr # NULL}
Smaller(m, n) == IF m < n THEN m ELSE n

(* Where the memory manager may put chunks while the handles hs are not     *)
(* locked.                                                                  *)
RoomFor(hs) == {a \in Addresses : \A g \in Handles \ hs : mem[g].addr # a}

-----------------------------------------------------------------------------
(* memory_list *)

(* memory_lookuphandle: the first slot whose pointer is p. *)
IsLookup(l, p, i) ==
  /\ i \in 1 .. Len(l)
  /\ l[i].ptr = p
  /\ \A j \in 1 .. (i - 1) : l[j].ptr # p

Unknown(p) == \A i \in 1 .. Len(list) : list[i].ptr # p

(* Mutant: the counter goes down, the gap is not filled. *)
Unregistered_LeavesGap(l, i) == SubSeq(l, 1, Len(l) - 1)

(* memory_unregister: the last slot takes the place of slot i. *)
Unregistered(l, i) ==
  [j \in 1 .. (Len(l) - 1) |-> IF j = i THEN l[Len(l)] ELSE l[j]]

(* memory_update: the first slot of handle h gets its new address. *)
Updated(l, h, a) ==
  [j \in 1 .. Len(l) |->
     IF l[j].hdl = h /\ \A k \in 1 .. (j - 1) : l[k].hdl # h
     THEN [l[j] EXCEPT !.ptr = a] ELSE l[j]]

(* Mutant: the bound is tested with the count of the slots in use before. *)
Full_TooLate == Len(list) > size

(* memory_register advances the counter first, so the table doubles while  *)
(* one slot is still unused.                                               *)
Full == Len(list) + 1 >= size

(* The table has a slot for one more pair, as it is or after a resize. *)
Grown ==
  \/ ~Full /\ UNCHANGED <<size, cap>>
  \/ Full /\ size' = 2 * size /\ cap' = 2 * size

(* The resize of the table fails: the counter and the size have been       *)
(* advanced, the slot is not written, and the call waits in exit.          *)
Suspended(call) ==
  /\ Full /\ waiting = NULL
  /\ waiting' = call
  /\ \E junk \in Slot : list' = Append(list, junk)
  /\ size' = 2 * size
  /\ starved' = TRUE
  /\ UNCHANGED <<cap, disturbed>>

(* A slot written beyond the chunk of the table overwrites memory of       *)
(* somebody else, and while a call waits the table is not locked and may   *)
(* move: the model describes the program up to such a write, and as long   *)
(* as the table stays where it is.                                         *)
Running == up /\ Len(list) <= cap

(* b can make a call: it is not itself in the middle of one. *)
Calls(b) == Running /\ (waiting # NULL => waiting.block # b)

(* What adds or removes slots in the middle of another call. *)
Disturbs == disturbed' = (disturbed \/ waiting # NULL)

-----------------------------------------------------------------------------
(* malloc *)

MallocFails(b) ==
  /\ Calls(b) /\ ptr[b] = NULL
  /\ UNCHANGED vars

Fresh(a, n) == [addr |-> a, size |-> n, owner |-> NULL, len |-> 0]

(* A new handle h, locked at a, of n units. *)
NewChunk(n, h, a) ==
  /\ h \notin Live
  /\ a \in RoomFor({h})
  /\ mem' = [mem EXCEPT ![h] = Fresh(a, n)]

Malloc(b, n) ==
  /\ Calls(b) /\ ptr[b] = NULL
  /\ \E h \in Handles, a \in Addresses :
       /\ NewChunk(n, h, a)
       /\ list' = Append(list, [hdl |-> h, ptr |-> a])
       /\ ptr' = [ptr EXCEPT ![b] = a]
  /\ Grown
  /\ want' = [want EXCEPT ![b] = [size |-> n, len |-> 0]]
  /\ Disturbs
  /\ UNCHANGED <<up, waiting, starved, moved>>

MallocWaits(b, n) ==
  /\ Calls(b) /\ ptr[b] = NULL
  /\ \E h \in Handles, a \in Addresses :
       /\ NewChunk(n, h, a)
       /\ Suspended([block |-> b, slot |-> Len(list) + 1, hdl |-> h, ptr |-> a,
                     size |-> n, old |-> NULL, at |-> NULL])
  /\ UNCHANGED <<up, ptr, want, moved>>

(* The caller writes all bytes it was given; a pointer that no longer      *)
(* leads to a chunk writes into unused memory.                             *)
Fill(b) ==
  /\ Calls(b) /\ ptr[b] # NULL
  /\ mem' = [h \in Handles |->
               IF mem[h].addr = ptr[b]
               THEN [mem[h] EXCEPT !.owner = b, !.len = Smaller(want[b].size, mem[h].size)]
               ELSE mem[h]]
  /\ want' = [want EXCEPT ![b].len = want[b].size]
  /\ UNCHANGED <<up, ptr, moved, waiting, table>>

-----------------------------------------------------------------------------
(* free; realloc(p, 0) is the same call.  A handle that is not allocated   *)
(* is never given to the memory manager as long as nothing disturbed the   *)
(* table; the program stops there.                                         *)

(* free(p) on table l and memory m leaves l2 and m2. *)
Released(p, l, m, l2, m2) ==
  \/ \E i \in 1 .. Len(l) :
       /\ IsLookup(l, p, i)
       /\ l[i].hdl \in Handles /\ m[l[i].hdl].addr # NULL
       /\ l2 = Unregistered(l, i)
       /\ m2 = [m EXCEPT ![l[i].hdl] = NoChunk]
  \/ /\ \A i \in 1 .. Len(l) : l[i].ptr # p
     /\ l2 = l /\ m2 = m

Free(b) ==
  /\ Calls(b) /\ ptr[b] # NULL
  /\ Released(ptr[b], list, mem, list', mem')
  /\ ptr' = [ptr EXCEPT ![b] = NULL]
  /\ want' = [want EXCEPT ![b] = Nothing]
  /\ Disturbs
  /\ UNCHANGED <<up, size, cap, starved, moved, waiting>>

-----------------------------------------------------------------------------
(* realloc of a pointer to another size; realloc(NULL, n) is malloc *)

(* Mutant: the new chunk is returned without the old data. *)
CopyOf_Empty(chunk, a, n) == Fresh(a, n)

(* The new chunk of n units at a, after MemMove of what fits. *)
CopyOf(chunk, a, n) ==
  [addr |-> a, size |-> n, owner |-> chunk.owner, len |-> Smaller(chunk.len, n)]

(* Slot i is the one of b's pointer, its handle is unlocked for a resize   *)
(* to n units and is at a when it is locked again.                         *)
Relocked(b, n, i, a) ==
  /\ IsLookup(list, ptr[b], i)
  /\ list[i].hdl \in Live
  /\ n # mem[list[i].hdl].size
  /\ a \in RoomFor({list[i].hdl})

(* A pointer the table does not know: NULL comes back, the caller keeps    *)
(* what it had.                                                            *)
ReallocUnknown(b) ==
  /\ Calls(b) /\ ptr[b] # NULL
  /\ Unknown(ptr[b])
  /\ UNCHANGED vars

ResizedChunk(chunk, a, n) ==
  [chunk EXCEPT !.addr = a, !.size = n, !.len = Smaller(@, n)]

(* The handle could be resized, and the table learns where it is now. *)
Resized(b, n, i, a) ==
  LET h == list[i].hdl IN
  /\ Relocked(b, n, i, a)
  /\ mem' = [mem EXCEPT ![h] = ResizedChunk(@, a, n)]
  /\ list' = Updated(list, h, a)
  /\ ptr' = [ptr EXCEPT ![b] = a]

ReallocInPlace(b, n) ==
  /\ Calls(b) /\ ptr[b] # NULL
  /\ \E i \in 1 .. Len(list), a \in Addresses : Resized(b, n, i, a)
  /\ want' = [want EXCEPT ![b] = [size |-> n, len |-> Smaller(@.len, n)]]
  /\ UNCHANGED <<up, size, cap, starved, disturbed, moved, waiting>>

(* The resize failed.  The old handle has been locked again, perhaps       *)
(* elsewhere; the table is not told.                                       *)
Displaced(b, n, i, a) ==
  /\ Relocked(b, n, i, a)
  /\ moved' = (moved \/ a # mem[list[i].hdl].addr)

(* So did the allocation of a new chunk. *)
ReallocFails(b, n) ==
  /\ Calls(b) /\ ptr[b] # NULL
  /\ \E i \in 1 .. Len(list), a \in Addresses :
       /\ Displaced(b, n, i, a)
       /\ mem' = [mem EXCEPT ![list[i].hdl].addr = a]
  /\ UNCHANGED <<up, ptr, want, waiting, table>>

(* There is a new chunk h2 at a2 for the data. *)
Doubled(b, n, i, a, h2, a2) ==
  /\ Displaced(b, n, i, a)
  /\ h2 \notin Live
  /\ a2 # a /\ a2 \in RoomFor({list[i].hdl, h2})

(* With h2 in table l and both chunks in memory m: the data of h are       *)
(* copied, and the old chunk is given to free() by its present address a,  *)
(* which the table knows only if the failed resize left it where it was.   *)
Copied(b, n, h, a, h2, a2, l, m) ==
  /\ Released(a, l, [m EXCEPT ![h2] = CopyOf(m[h], a2, n)], list', mem')
  /\ ptr' = [ptr EXCEPT ![b] = a2]
  /\ want' = [want EXCEPT ![b] = [size |-> n, len |-> Smaller(@.len, n)]]

ReallocCopies(b, n) ==
  /\ Calls(b) /\ ptr[b] # NULL
  /\ \E i \in 1 .. Len(list), h2 \in Handles, a, a2 \in Addresses :
       /\ Doubled(b, n, i, a, h2, a2)
       /\ Copied(b, n, list[i].hdl, a, h2, a2, Append(list, [hdl |-> h2, ptr |-> a2]),
                 [mem EXCEPT ![list[i].hdl].addr = a])
  /\ Grown
  /\ Disturbs
  /\ UNCHANGED <<up, waiting, starved>>

ReallocWaits(b, n) ==
  /\ Calls(b) /\ ptr[b] # NULL
  /\ \E i \in 1 .. Len(list), h2 \in Handles, a, a2 \in Addresses :
       /\ Doubled(b, n, i, a, h2, a2)
       /\ mem' = [mem EXCEPT ![list[i].hdl].addr = a, ![h2] = Fresh(a2, n)]
       /\ Suspended([block |-> b, slot |-> Len(list) + 1, hdl |-> h2, ptr |-> a2,
                     size |-> n, old |-> list[i].hdl, at |-> a])
  /\ UNCHANGED <<up, ptr, want>>

-----------------------------------------------------------------------------
(* exit comes back, and the call that waited in it goes on *)

(* Mutant: the pair goes to the slot behind the counter of now. *)
Written_PastCounter(l, call) == l

(* The pair is written to the slot chosen before; a slot that is no longer *)
(* in use is out of sight.                                                 *)
Written(l, call) ==
  [j \in 1 .. Len(l) |->
     IF j = call.slot THEN [hdl |-> call.hdl, ptr |-> call.ptr] ELSE l[j]]

MallocResumes ==
  /\ Running /\ waiting # NULL /\ waiting.old = NULL
  /\ list' = Written(list, waiting)
  /\ ptr' = [ptr EXCEPT ![waiting.block] = waiting.ptr]
  /\ want' = [want EXCEPT ![waiting.block] = [size |-> waiting.size, len |-> 0]]
  /\ waiting' = NULL
  /\ UNCHANGED <<up, mem, size, cap, moved, starved, disturbed>>

ReallocResumes ==
  /\ Running /\ waiting # NULL /\ waiting.old \in Live
  /\ Copied(waiting.block, waiting.size, waiting.old, waiting.at, waiting.hdl, waiting.ptr,
            Written(list, waiting), mem)
  /\ waiting' = NULL
  /\ UNCHANGED <<up, size, cap, moved, starved, disturbed>>

-----------------------------------------------------------------------------
(* memory_release at shutdown and memory_prepare at the next launch *)

Release ==
  /\ Running /\ waiting = NULL
  /\ up' = FALSE
  /\ mem' = [h \in Handles |->
               IF \E i \in 1 .. Len(list) : list[i].hdl = h THEN NoChunk ELSE mem[h]]
  /\ list' = <<>>
  /\ size' = 0 /\ cap' = 0
  /\ ptr' = [b \in Blocks |-> NULL]
  /\ want' = [b \in Blocks |-> Nothing]
  /\ UNCHANGED <<waiting, moved, starved, disturbed>>

Prepare ==
  /\ ~up
  /\ up' = TRUE
  /\ list' = <<>>
  /\ size' = InitialSize /\ cap' = InitialSize
  /\ moved' = FALSE /\ starved' = FALSE
  /\ UNCHANGED <<mem, ptr, want, waiting, disturbed>>

Init ==
  /\ up = FALSE
  /\ mem = [h \in Handles |-> NoChunk]
  /\ list = <<>>
  /\ size = 0 /\ cap = 0
  /\ ptr = [b \in Blocks |-> NULL]
  /\ want = [b \in Blocks |-> Nothing]
  /\ waiting = NULL
  /\ moved = FALSE /\ starved = FALSE /\ disturbed = FALSE

Next ==
  \/ \E b \in Blocks : MallocFails(b)
  \/ \E b \in Blocks, n \in Sizes : Malloc(b, n)
  \/ \E b \in Blocks, n \in Sizes : MallocWaits(b, n)
  \/ \E b \in Blocks : Fill(b)
  \/ \E b \in Blocks : Free(b)
  \/ \E b \in Blocks : ReallocUnknown(b)
  \/ \E b \in Blocks, n \in Sizes : ReallocInPlace(b, n)
  \/ \E b \in Blocks, n \in Sizes : ReallocFails(b, n)
  \/ \E b \in Blocks, n \in Sizes : ReallocCopies(b, n)
  \/ \E b \in Blocks, n \in Sizes : ReallocWaits(b, n)
  \/ MallocResumes
  \/ ReallocResumes
  \/ Release
  \/ Prepare

Spec == Init /\ [][Next]_vars

-----------------------------------------------------------------------------
(* Properties *)

(* Every variable has the type its struct in osglue.c gives it: only a     *)
(* slot never written lacks an address, no chunk outgrows the largest      *)
(* request.                                                                *)
TypeOK ==
  /\ up \in BOOLEAN
  /\ mem \in [Handles -> Chunk]
  /\ list \in Seq(Slot)
  /\ size \in Nat /\ cap \in Nat
  /\ ptr \in [Blocks -> Addresses \union {NULL}]
  /\ want \in [Blocks -> [size: 0 .. MaxSize, len: 0 .. MaxSize]]
  /\ waiting \in Call \union {NULL}
  /\ moved \in BOOLEAN /\ starved \in BOOLEAN /\ disturbed \in BOOLEAN

(* Between calls memory_list knows every chunk the glue has allocated,     *)
(* each once, and nothing else, whatever resizes and allocations have      *)
(* failed before, growing the table included: what memory_release walks at *)
(* shutdown is all there is, and no handle is freed twice.  What the code  *)
(* does not survive is a malloc or free of the event loop that exit runs   *)
(* in the middle of memory_register.                                       *)
Tracked ==
  waiting = NULL /\ ~disturbed =>
    /\ \A i, j \in 1 .. Len(list) : list[i].hdl = list[j].hdl => i = j
    /\ Live = {list[i].hdl : i \in 1 .. Len(list)}

(* As long as no failed resize has moved a chunk and nothing disturbed a   *)
(* waiting call, a caller's pointer leads to a chunk of the size it asked  *)
(* for that still holds its data, also while another caller waits in exit: *)
(* no call for one block frees, moves, truncates or overwrites another     *)
(* block, and realloc keeps the common prefix of the old and the new size. *)
OwnedIntact ==
  ~moved /\ ~disturbed => \A b \in Blocks : ptr[b] # NULL =>
    \E h \in Live :
      /\ mem[h].addr = ptr[b]
      /\ mem[h].size = want[b].size
      /\ want[b].len <= mem[h].len
      /\ want[b].len > 0 => mem[h].owner = b

(* Under the same conditions nothing is leaked: each chunk is one that a   *)
(* caller still holds, and only one caller, or the new one of the call     *)
(* that waits in exit.                                                     *)
NoLeak ==
  ~moved /\ ~disturbed =>
    /\ \A h \in Live :
         (\E b \in Blocks : ptr[b] = mem[h].addr) \/ (waiting # NULL /\ waiting.hdl = h)
    /\ \A b, c \in Blocks : ptr[b] = ptr[c] /\ ptr[b] # NULL => b = c

(* memory_register writes into the table it has: unless growing the table  *)
(* has failed, the slot at index "used" always exists.                     *)
TableFits ==
  up /\ ~starved => Len(list) < cap
=============================================================================
