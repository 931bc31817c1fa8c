# A TLA+ model of lua-yapp

lua-yapp is a Lua 5.1 interpreter for PalmOS: the Lua core (`lua/src`), a C
library for it on top of the PalmOS API (`osglue`), an application with an
output window, an input dialog and a source editor (`palmapp`) and a graphics
binding (`palmbind`). This directory holds TLA+ modules of the parts that keep
state over many calls, the TLC instances that check them, and proofs checked by
TLAPS.

## Inventory

PalmOS runs one application thread. Nothing is preempted; what makes this code
hard is the memory manager (chunks move when unlocked, every call may fail),
event loops that nest, state that is built up over long call sequences, text
that passes through several buffers, and, in the Lua core, a compiler of one
pass, coroutines, and a collector that interleaves with the program it works for.

| Component | State | Operations | Interacts with | Module |
|---|---|---|---|---|
| Glue heap (`osglue.c` 183-390) | `memory_list`: handle/pointer pairs | malloc, free, realloc, prepare, release | called by everything that allocates; calls `exit` when the table cannot grow | `GlueHeap` |
| Output store (`palmapp.c` 638-1527) | one block: table of contents, text chunks, terminator | init, clear, resize, addchunk, scroll | fed by the glue's STDOUT/STDERR events | `OutputStore` |
| Output drawing (`palmapp.c` 1529-1784) | last position and count drawn | show, dump, redraw, scroll | reads the store | `OutputScreen` |
| Standard input (`palmapp.c` 600-627, 1786-1978; `osglue.c` 2616-2633, 2901-3067; `liolib.c` 297-399) | input buffer with EOF and error flags; the FILE's eof, err and one character put back | app_input_get, fread_stdin, fgets, fgetc, ungetc, fread, io.read | the C library posts an event and the application answers before it returns | `StdinPath` |
| Application life cycle, memo and setup forms (`palmapp.c` 178-489, 2014-3325, 3463-3596) | event queue, nested loops, script text in database / main form / editor, list of memos, preferences | launch, events, editor, memos, setup, run, exit, stop | scripts run inside event handlers; exit runs an event loop inside a script | `AppLifecycle` |
| Glue start and stop, FILEs, io handles (`osglue.c` 690-1100, 3528-3575, 4039-4086; `liolib.c`) | standard streams, FILEs, Lua handles | osglue_init, osglue_done, fopen, fclose, io.open, close, lines, collection | PilotMain decides on osglue_init's results; lua_close and done_fileio both close FILEs | `IoFiles` |
| Formatted output (`osglue.c` 1105-2590, 3463-3520; `lstrlib.c` 730-868) | the list of directives of a call | printf family, string.format | malloc | `Printf`, `StrFormat` |
| Lua tables (`ltable.c`) | array and hash part | get, set, resize, next, length | the collector marks dead keys | `LuaTable`, `LuaMap` |
| Lua collector (`lgc.c`, `lfunc.c`, `lstring.c`, `lstate.c`) | colours, lists, phase, finalizers | steps, barriers, close | the program between its steps | `LuaGC` |
| Lua compiler, bytecode, machine, calls, coroutines, libraries (`lparser.c`, `lcode.c`, `lopcodes.c`, `ldebug.c`, `ldump.c`, `lundump.c`, `lvm.c`, `ldo.c`, `lfunc.c`, `lbaselib.c`, `ltablib.c`) | registers, jump lists; threads with stacks and frames, upvalues | every opcode, call, error, yield | strings and tables | `LuaOpcodes` ... `LuaMachine` |
| Scanning, numbers, strings, time (`osglue.c`) | almost none | pure functions | | |
| Graphics binding (`palmbind`) | the turtle | draw, turn | window manager | |

What makes each correct, and what could go wrong in it, is listed as hazards in
`PROJECT.json`; in short:

* heap: no chunk is lost, freed twice, or handed to two callers, whatever fails and
  whatever runs while the table cannot grow;
* output: the bookkeeping of the block is exact, the line table cuts the stored
  text into the lines that were written, the view never strands, the picture
  shows it;
* standard input: what was typed arrives once, in order, before end of file, and
  every read returns;
* life cycle: the script text survives, each block of it has one owner, memos and
  setup change only as the user chose, and the application stops when told to;
* files: every FILE has one owner and is gone at the end;
* printf: the two walks over a format agree, and give what C's printf gives;
* tables: they are maps; traversals meet every field once;
* collector: nothing in use is freed, garbage is, finalizers run once;
* compiler and machine: a program does what its text means.

## Modules and runs

`MC<module>` is the instance of a module for TLC, `MC<module>.cfg` the run that
passes, `MC<module><Question>.cfg` one that shows a disagreement between the code
and what its comments say. `<module>Proofs` holds theorems; `PalmAppProofs` holds those about
`AppLifecycle` and `StdinPath`, the two sides of the main form, whose actions are named apart
for that (`InputNext`, `InputSpec`). A definition with a
suffix of the form `Updated_Never` or `Stops_AtLimit` is a mutant: the definition of
the same name with a plausible bug, to show that the property would notice. Nothing
uses it.

| Run | Distinct states | Shows |
|---|---|---|
| `glue_heap` | 332,717 | the heap under every failure, and calls in the middle of a call |
| `output_store` | 2,663,849 | bookkeeping, history and view of the store |
| `output_store_shift` | violation | the last item of the lines table is not cleared |
| `output_screen` | 758,238 | the store and its drawing together |
| `output_screen_view` | violation | rows with the text of other lines |
| `stdin_path` | 1,286 | io.read down to the dialog |
| `app_lifecycle` | 665,035 | event loops, editor, memos, setup, shutdown |
| `io_files` | 840,389 | FILEs and handles over sessions |
| `printf` | 557,252 | every form of a directive, and pairs of them |
| `lua_table` | 123,227 | a table against the abstract map |
| `lua_gc` | 676,302 | the collector against programs on small heaps |
| `lua_machine` | 120,750 | 1490 programs from source to result |

### GlueHeap

`mem` is the memory manager's view (where the chunk of a handle is, its size, and
whose data are in it), `list`, `size` and `cap` are `memory_list`, `ptr` is what the
callers hold. A C call is one action, one for each outcome: `Malloc`/`MallocFails`,
`Free`, `ReallocInPlace` (the resize worked, the chunk may have moved), `ReallocFails`
(resize and allocation failed), `ReallocCopies` (the slow path), `ReallocUnknown`, and
`Release`/`Prepare` for shutdown and launch. `RoomFor` is the freedom of the memory
manager: an unlocked chunk may come back anywhere that is not taken.

The exception is a call in which `memory_register` cannot grow the table: it calls
`exit(-1)`, whose event loop handles what is queued and comes back. Such a call is two
actions, `MallocWaits` or `ReallocWaits` up to the loop and `MallocResumes` or
`ReallocResumes` behind it; `waiting` holds its locals, and the other callers go on in
between, with the counter advanced, the size doubled and the slot unwritten (`Suspended`
leaves any old pair in it). `disturbed` says that a call of the loop added or removed an
entry: the slot chosen before is then another's, and the table is past saving. Until then
`Tracked` holds whenever no call waits, and `OwnedIntact` and `NoLeak` all the time.

A resize that fails and moves the chunk leaves the table with a stale address.
From then on (`moved`) neither the pointer nor `free` finds the chunk, which is why
`OwnedIntact` and `NoLeak` are stated for `~moved`; `Tracked` and `TableFits` are not
limited by it. A realloc to the same size returns its argument and is a stutter.

The model stops where the code writes behind the table's chunk (`Running`), as it would
after a failed growth once the old chunk is full, and it does not move the chunk of the
table while that is unlocked in the loop. A second failed growth while a call waits is
not reached before that.

Run `glue_heap`: three handles, three addresses, two callers, sizes 1 and 2, a table
of two slots. Two callers and a third handle are what the slow path of realloc
needs; the table of two grows at the first allocation and again at the third, so a call
waits with the other caller free to act.

### OutputStore

`block` is the memory block with the code's byte counts (`total`, `free`, `term`,
`lastdata`, positions of chunks), so that the room for a chunk, the rounding and the
limit of 128 bytes of a chunk are the code's own. `tab` has `MaxLines + 1` items as
in the code. `output_addchunk` is a loop over screen lines; it is split into `Store`
(make room, extend or add a chunk), `Wrap` (an iteration that fills a line) and
`Finish` (the last iteration, the newline, the release of old chunks). `job` is the
loop's local state. `lines` is a history of what a reader of the screen should find.

`Shifted` models the overflow of the lines table as it is: the item that the code
clears is one behind the table, and that is the header of the first text chunk. When
that chunk is the last one as well (`hit`), the newline flag, the type and the
length of the chunk in use are lost; `HistoryKept` holds until that happens, the
bookkeeping invariants (`Accounted`, `Chained`, `Referenced`) always. `StartColumns`
is the read through a NULL pointer that follows from it: any column.

Run `output_store`: two streams, three lines of two columns, two of them visible,
texts of 0, 1 and 5 characters with and without newline. Five characters wrap twice
and so overflow a history of three in one call; the limit of 128 bytes is reached by
repeated extension. The space is finite because chunks are released, which is what
`Bounded` says.

### OutputScreen

It EXTENDS `OutputStore`: `AddChunk`, `WrapLine`, `FinishChunk`, `Refresh` are
`app_output_show` with the store's steps inside, `ScrollLines`, `Redraw`, `EraseAll`
the form's events. `ClearAll` is the setup's "Apply": it replaces the store and queues an
update, so text and scrolls may still be drawn from the old `last` before `Redraw`. `screen` is the picture as a grid of characters with one row around
the gadget, so that what is drawn outside would be seen; `last` the two static
variables of `output_dump`. `DrawNew` moves the picture and draws only what the code
takes for new; `DrawLine` is the loop over the chunks of one line with its `continue`.

`RowsShown` says that this comes to the same as drawing everything. It is stated for
lines the code can draw at all (`Drawable`: a newline in a chunk of its own is run
past, and the table's overflow spoils the first and the last line) and not between a
drawing that skipped lines and the next full one (`torn`: two lines started at once,
lines lost while scrolled back, or a store that was replaced under the picture); that nothing
is drawn beside the gadget holds even then. Without those limits it is `ViewShown`, which
fails. Three visible rows are the least for which moving the picture leaves rows that
are not drawn anew (`Visible >= 3`); a history of four leaves one line to scroll to.

### StdinPath

`input` is the buffer of the main form, `stream` the FILE, `call` the `io.read` under
way. Everything is synchronous, so `Fetch` is one call of the C library with the
dialog it may bring up; the reader of `liolib.c` that made the call decides what comes
next. The dialog may return any text up to its length with any of its three buttons.
`PutBack` and `FreadStdin` model that the put-back character is overwritten. EOF is a
character that `ungetc` accepts. `ReadNumber` gets nothing: the scanner refuses every format
but `"%ld"`, and Lua passes `"%lf"`.

`owed` is what was typed and not yet read. An error of the buffer (`input.error`) is
sticky in the code and ends what can be said of `owed`. What `fread_stdin` forgets
(`Forgotten`: one character put back, when more than one is asked for) is taken out of
`owed`, and `NothingLost` then still speaks of all the rest.

Fairness: `WF(Fetch \/ ReadNumber)`, as a C call returns, and `SF(FetchOne(TRUE))`: a user who is
asked again and again at some time ends the line, or the input without further
text. Without it the user may press "OK" for ever and a whole line never ends. (A user
who presses "EOF" with text pending is asked again before the end of file is
reported; the assumption is therefore about the empty answer.)

Run `stdin_path`: one letter, a dialog of two characters, a C
buffer of three, counts up to four: lines longer than the C buffer, text left over,
and a buffer that must grow all happen. Deadlock is not checked since nothing is
claimed after `read_chars` has moved its pointer below its buffer (`fault`).

### AppLifecycle

`frames` is the C stack of event loops, dialogs and scripts; `queue` the event queue.
A tap means what the form active on top of the stack makes of it. The text goes from
the database record to the main form (`script`), to the editor's field (`field`) and
back as a copy; texts are numbered by the edits that made them. From the editor the
list of memos opens: `list` is `memo_list`, titles and record numbers in step unless an
allocation failed (`Listed`). Loading and saving go by record number. A memo that cannot
be locked, resized or written keeps what it had; what is saved from an empty field, and a
new memo that cannot be written, have `Junk` in them. From the main form the setup opens;
`Applied` has the number of lines, bounded below, and makes a new output store, which may
fail, when that or another setting of the output has changed. Dialogs that ask or tell
something and keep nothing (input, runtime, about) are one kind, `alert`.

`exit()` posts a stop event and runs an event loop that serves the main form like that of
`PilotMain`: over a script that waits in it an editor may open, another script run and call
`exit()` again. The loop ends at any stop event, its own or one of the system that came
first, and exit returns into the script. `StopsKept` says that no stop is lost or made by
that: those that wait are those the system has posted (`asked`) and one for each exit that runs.

The code loses the text in three places, and `failed` holds from there until the editor
is closed with a text again or the application starts again: no memory for the copy
(palmapp.c:2855), a stop while the editor is open (2940), and a database that cannot be
written at shutdown, of which nobody is told (475-485). When an editor that was opened over
the running script is closed, the handle that `RunScript` unlocks at its end (2951) is free; the
text itself is neither lost nor leaked, and that unlock changes nothing in the model.

Fairness: `WF(Handle)`, the loops and dialogs go on taking events, as a PalmOS event loop does.
Of scripts nothing is assumed. `StopHonoured` therefore says what it needs of them: that no
script runs for ever, and that at some time no `exit()` is running any more. The code does not
guarantee either: a dialog of `io.read` that a stop ends gives an empty text, and
`read_line` (liolib.c:318-327) asks again for ever.

Run `app_lifecycle`: two handles (text and copy), one memo and one edit more, a stack
of five (an editor with its list, or another script with its `exit()`, over the loop of an `exit()`), two
waiting events besides those of `exit()`, line numbers below and above the least.

### IoFiles

Sessions follow each other. A launch ends in each way that `PilotMain` tells apart:
no memory table, no MathLib (with and without the application's own copy installed,
after which it goes on without standard streams), no memory for the first, second or
third standard FILE. `io` has the FILEs (blocks of the heap, which may be handed out
again), the FileHands of the system that are open and those nobody refers to any more;
`lua` the handles, who holds them, and the default files. The program opens with a mode
that `fopen` takes and one it refuses, closes, sets default files, iterates, forgets
handles, and the collector finalizes what is forgotten; every allocation and the
device may fail. `FilesOwned`: no FILE has two owners and no FileHand is lost while
open. `StreamsLive`: a FILE that is not there is used only after one of the named
`causes`. `ReleasedAtExit`: nothing is left when the heap goes.

Run `io_files`: four blocks, so that one is free besides the standard three, two
FileHands, four handles.

### Printf and StrFormat

`Printf` is `formatted_write` and its callers; a step is one directive or literal of
the first walk (`Verbatim`, `Taken`, `Refused`, `ItemFails`, `Unsupported`), the
allocation, and one item of the second walk. `Directive` parses flags, width,
precision, modifier and conversion as the code does (an asterisk is looked at but not
passed; a precision may not begin with a zero). `heap` has the blocks of the call. `Needed` is
what the first walk counts, `Written` what the second writes, each from its own part
of the source. `StrFormat` puts `str_format` on top, with `scanformat`, `addintlen`, the
long strings it passes by `sprintf`, and the buffer on its stack that `sprintf` leaves
alone when it fails.

`Formatted` is `RoomCounted` (what is written fits what was allocated), `TextRight` (a call
that succeeds gives C's text, `Expected`) and `FormsAccepted` (what `scanformat` lets
through, `formatted_write` accepts). `Supported` and `Overruns` name the directives for
which the code is known to differ from C; see Known divergences. `Released`: every
block goes, but for the item of a positional directive.

Run `printf`: integers of seven bits, of which one is in the upper half; every
combination of five flags, four widths, six precisions, four modifiers and nine
letters, and pairs of nine directives with text between them, for `sprintf`,
`fprintf`, `snprintf` with buffers of 1 and 4, and scripts.

### LuaTable and LuaMap

`LuaTable` has array part, nodes, chains and `lastfree` of `ltable.c`; an action is a
call of the API (`luaH_set` with all it causes: a free position, moving a colliding
node, rehash with `computesizes`, both parts resized), a step of a traversal, or the
collector turning the key of an empty node dead. `LuaMap` is what a table promises: a
map, and traversals that meet each field once while fields are changed or cleared.
`Refines` is `LuaMap!Spec` under the mapping of a table to its map. `LengthIsBorder` is
the length operator, `MainPosition` that a key which is not at its main position has
one there that is, `PartsAgree` that no key is in both parts, `HalfUsed` that whenever a table is
reorganised more than half of its new array part is in use, and of no greater power of
two (the comment, ltable.c:11, says "at least half"; see Known divergences).

Memory is taken to be enough (`SizeAssumption`: a part has room for all keys), so that the error "table
overflow" is not reached.

Run `lua_table`: four numbers with the hash values of 16 bit ints, a string and an
object, which collide; one value, since values are only stored. `Presizes` are the
sizes of list constructors. With `MAXBITS` and `MAX_INT` as small as six keys allow, the length
operator overflows on the way (the fields 1, 4 and 5), so its linear search is run too.

### LuaGC

`refs` is the heap; the collector's state is `marked`, the lists, `gcstate`, the objects
still to be swept and finalizers still to be run. The program acts between any two
steps of the collector: it allocates, stores (with the barrier the code has there),
makes closures, opens and closes upvalues, switches coroutines, brings strings back to
life, gives a userdata a metatable, or sets and clears the `__gc` of one (`SetGc`). When
the collector runs depends on thresholds that are left open: any time. So is the order in
its lists, in particular that of `tmudata`. `GCTM` takes a userdata out of `tmudata` and
calls the finalizer if the metatable has one still (lgc.c:482). A finalizer may store its object
anywhere, and start a full collection itself (`full` is `call` while it runs within one); an
error in it (`luaD_throw`) ends the full collection that called it.

The state ends as the code ends it. `lua_close` separates the userdata that are left;
`callallgcTM` runs one finalizer after the other (`phase` is `closing` between two and
`finalizing` in one), and in a finalizer the program may do all that it may otherwise, the
collector included; `FinalizerEnds` is its return or its error, after which `lua_close` goes on with the
next; `close_state` frees everything. `due` has the userdata that `lua_close` owes a call.

`Colours` is the tricolour invariant while marking, and that all is white when the barriers
say so. `NothingLost`: what is reachable from what is alive is alive. Both are stated while
the state is open: `lua_close` may come in the middle of a cycle, and then `GCTM` makes a
userdata white that black objects refer to (lgc.c:480), so that a finalizer which drives the
collector on (`collectgarbage("step")`) has it taken for garbage although the registry leads to it.
Nothing is said either of whether such a collection ends: when `lua_close` comes in the middle of a sweep,
`sweepgc` may stand at a userdata that is moved to the circular list `tmudata` (lgc.c:170), which
a sweep in a finalizer then goes round; the model's goes on with what is left of the other list.

`FinalizedOnce`, `FinalizedAtClose`: each `__gc` once, at the latest by `lua_close`. The
second is about the userdata that have a `__gc` when `lua_close` begins and until they are
called; those that a finalizer makes then are freed without. It leaves out `Spared`: a
userdata found to be garbage while it has no `__gc` is marked as
finalized (lgc.c:159), and stays so when the finalizer of another brings it back and the
program gives it a `__gc` later.

`Collected`: garbage is freed, or becomes reachable again, while the state is open. The
fairness is weak fairness of `singlestep`, spelled out
(`[]<>(phase # "open") \/ []<><<singlestep>>_vars`) as TLC's ENABLED would
execute the steps; while the state is open a step is always enabled. It is justified as a
program that allocates drives the collector.

Run `lua_gc`: eight worlds of one to three objects besides main thread and registry,
chosen so that each kind of object, weak keys and values, open upvalues of a
suspended coroutine, finalizers and two userdata with one metatable occur; `may` bounds what
may refer to what. Deadlock is not checked as a closed state stops.

### LuaMachine and what it is made of

| Module | Models |
|---|---|
| `LuaOpcodes` | instructions, operand modes, values, arithmetic |
| `LuaCode` | `lcode.c`: registers, constants, jump lists, expressions, folding |
| `LuaParser` | `lparser.c`: one pass over the tokens, with the code generator called as it goes |
| `LuaCheck` | the bytecode checker of `ldebug.c` |
| `LuaDump` | `ldump.c` and `lundump.c` |
| `LuaDo` | `ldo.c`, `lfunc.c`, coroutines: calls, tail calls, errors, handlers, upvalues |
| `LuaVM` | every opcode of `lvm.c`, metamethods included |
| `LuaTabLib`, `LuaBaseLib` | `ltablib.c` and the functions of `lbaselib.c` that do not load |
| `LuaMeaning` | what a program means, on its tree; the reference, from the manual |
| `LuaPrograms` | the programs |
| `LuaMachine` | loads a chunk, runs it: one instruction, C function or error a step |

The machine `m` has the threads (stack, frames, status, open upvalues, nCcalls), the
closures, tables and upvalues by number, and the C stack `m.cs`: one entry for each
activation of `luaV_execute` and of C code that called back into Lua, so that a callback of
`table.sort`, a metamethod or a protected call goes on in a step of its own, and an
error or a yield meets exactly the frames the C code has. `m.pend` is what C code is about to do
next; splitting it into steps also keeps the evaluation of a step shallow.
In the compiler, `LuaParser!Rule` calls the grammar's functions by name, and each first
looks at the error of the state it is given: once `luaX_syntaxerror` has jumped out,
nothing is done any more. Loading a precompiled chunk takes a step for each function.

A program is a tree; its tokens are what is compiled. `Meaning`, `<>Computed`, says that
every program ends and that results, output and errors are those of the tree (for the
texts of coroutines, overflows and syntax errors, those the manual gives), whether
it is run from its text or dumped and loaded again, with or without debug information;
and that a dump that is cut off anywhere is refused. `AssertsHold` are the asserts of the
code generator, machine and API; `CodeChecked` that every function the compiler makes passes the
bytecode checker; `UpvaluesSound` and `StacksAgree` relate frames, upvalues and the C
stack of all threads. Fairness is weak fairness of `Next`, spelled out as in `LuaGC`: the
machine goes on.

Run `lua_machine`: 1490 chunks: families of expressions (every operator over values,
variables, calls and one another, with conditions and short cuts, but for those of lcode.c:587, 615 and 742, see Known divergences), assignments,
loops with breaks and closures, calls with open results, metamethods, errors in and
out of protected calls, coroutines, `table` functions with orders that fail, yield or
answer nonsense. Limits are lowered so that they are reached: 2 fields per flush, 32
calls, 20 C calls, 3 levels of metatables. Strings are not ordered, numbers are small
integers. `next`, `foreach` and number formatting are left out of the machine: traversals are in `LuaTable`.

## What is proved

`GlueHeapProofs` proves, from `HeapAssumption` alone and so for any number of handles,
addresses and callers:

* `HeapTypeCorrect`: `TypeOK`;
* `HeapTracked`: `memory_list` and the live handles correspond one to one. While a call
  waits, its slot is unwritten, so the invariant (`Awaited`) speaks of `known`, the table as
  it will be when the pair is written (`WrittenAppends`); as long as nothing disturbs the call, that
  is what the other calls need. The steps with content are the removal from the middle of
  the table (`Unregistered`) and the slow path of realloc, where an entry is added and
  another, possibly the added one, is removed;
* `HeapTableFits`: from `size = cap` while the growth has never failed;
* `HeapOwnedIntact` and `HeapNoLeak`: both need that addresses are not shared
  between live handles (`Apart`), that the table's addresses are the true ones while nothing has
  moved (`Located`), that each pointer has its chunk and each chunk its pointer (`Served`, `Held`),
  and that the chunk of a waiting call is still as it was made (`Pending`). Together they
  are `InOrder`, kept by a lemma for each action; the two reallocs that copy,
  at once or after waiting, share `CopiedOrderly`.

`OutputStoreProofs` proves, from `StoreAssumption` alone and so for every length of the
history, size of the gadget and length of text: `TypeCorrect`, `RoomAccounted`
(`Accounted`), `ChainIntact` (`Chained`), `LinesReferToText` (`Referenced`) and
`ViewFollowsEnd` (`ViewFollows`). These are not inductive by themselves. `Sound(b)` adds
that no chunk reaches into one behind it (`Ahead`), and that the lines start in chunks
that exist, in order, while the items behind the last line are clear or point behind
the first line's start (`Table`); `JobSound` adds that the text still to be laid out
lies in the last chunk. The steps with content:

* there is always room: joined text makes a chunk grow by no more than a chunk of its
  own would take (`TextLengthJoin`), which needs that a chunk whose header is intact
  has the length of its text, and `output_resize` makes room for more than that;
* the overflow of the table (`ShiftedSound`) clears the first chunk's header and leaves
  a stale last item, and neither disturbs positions, order or view;
* the release (`ReleasedSound`) moves every position by the same distance: nothing falls
  below the head of the block because the first line starts at or before every other
  reference, stale ones included, and no line's chunk is among those released.
* `HistoryAlways` (`HistoryKept`) needs an invariant of its own, `HistoryInv`: the lines are
  the text cut where the table says (`Cut`), up to the end that `job` has still to lay out,
  and as long as `~hit` the last chunk's newline flag is the caller's. A place is counted in
  characters from the start of the text (`Offset`), and the text of the first k chunks is a
  recursive function, whose value and growth are shown chunk by chunk (`TextsAre`,
  `TextsRise`; `Upto` does the induction on sets, without an operator as hypothesis). Each
  operator then moves the text by one stretch: a store makes it longer (`MovedExtended`,
  `MovedAdded`), a release drops a front in which no line begins (`MovedKept`,
  `ReleasedKept`), a new line ends the open one and may lose the first (`NewLineCut`), and
  the overflow changes headers but no text (`WholeRetold`).
* `BoundedAlways` (`Bounded`) also needs `PiecesAssumption`, that the texts of single calls have a
  greatest length. Two lines that follow each other start at most `Width + 1` chunks apart
  (`LinesClose`): each chunk between takes a column of the line at least, or ends it. For
  the open line that is counted while it grows, in columns (`OpenClose` with `IdleClose` and
  `JobClose`). No chunk holds more than an open line and one piece (`Short`). So the release
  leaves only so many chunks behind the first line (`ChunksBounded`), the terminator stands no
  further than they reach (`TermBounded`), and the block grows only when there is less room than
  one more chunk needs (`ResizedBound`).
* `DrawingKeepsStore` (this one and the next two are in `OutputScreenProofs`): `OutputScreen` implements `OutputStore`, by the identity. With it
  `MarginsStayClear` (`Margins`, the part of `RowsShown` on the rows around the gadget, which
  holds of torn pictures too) follows: no line that is drawn is further down than the
  last row, since the view is never further than its end (`PosBound`) and the static variables
  that `output_dump` keeps never point beyond the table they were taken from (`Remembered`), which is
  enough also when the store has been replaced since.
* `ViewDrawn` (`RowsShown`, of `ScreenSpec`) is about what is read from the block as the code
  reads it: from the headers, flags and columns that were put into it when the text was laid out,
  which `HistoryInv` says nothing of. It needs two more invariants.
  `LineInv` is about the store. `Tidy`: only the first chunk can have lost its header, and only
  in a full table; a line starts behind a newline or a wrap; the item behind the last line is
  clear or what the overflow left. `Ends`: a chunk's column is where its line has come to
  with its text, so that the next chunk is drawn at the right place; while a call is laid out that
  holds of all chunks but the last, and `JobLaid` says where that one stands. `Told`: the lines that are
  not `Lost` to the drawing are those of the history, compared with a history of which nothing
  went astray. Each change of a block has a lemma for each part: text is
  stored (`Grow...`), a line begins (`Begins...`), chunks are released (`Frees...`).
  From it `LineDrawn` shows, chunk by chunk, that `DrawLine` puts the whole text of a line on
  a row from its first column on, or, for the last line after an overflow (`Full` is false), nothing.
  `PicInv` is about the picture, also while a call goes on: it shows the lines as they were
  at the last drawing (`Pic`), and `Count` says by how much the table has moved on since,
  so that what `fifoed` and `last` say brings both together (`Caught`). Each branch of
  `output_dump` has a lemma then (`AllDrawn`, `BackDrawn`, `OnDrawn`, `StillDrawn`), and
  `Steady` is the condition of `RowsShown` as it is in the middle of a call. When the store is
  replaced under the picture, nothing is said of it any more until the full drawing (`TornPic`,
  `StillTorn`), which then asks nothing of what was there.

`TypeOK` of `GlueHeap` and `OutputStore` is stated for these proofs only; no run checks it.

`StrFormatProofs` proves `BlocksReleased` (`Released`) and `FormatRight` (`Formatted`) for
every format, argument and outcome of the allocations. The first asks nothing of the constants.
`HeapInv` says, by the place at
which a call is, which blocks may be left: those of the items in the list, the text, and an item
that was dropped. The steps with content: an item is in the list before its buffer is
allocated (`TakenInv`), so a failure in between leaves nothing that the list does not
lead to, and the release walks the whole list whatever was written (`ReleaseInv`).

`FormatRight` needs that formats and texts are sequences of characters (`PrintfAssumption`,
`LuaFormatsAssumption`). `TextInv` compares the two walks part by part, a part being
the text in front of a directive and the directive's own: `sz` is the length of the parts that
were counted, `out` is the parts that were written, and between two directives the walk never stands on
the second of two percent signs (`Even`), so that counting character by character comes to the
length of what `Plain` copies (`PlainGrows`). For an item, `RoomForItem` shows that what is
written fits what was counted, and `Same` that it is the C library's text if the item is supported. `Scanned` says what
`scanformat` accepts, `LuaForm` what is left of it after the length modifier went in
(`WithLength`), and `KnownForm` that `formatted_write` takes such a form apart at the same places.
Recursive functions (`Plain`, `Number`, `Digits`, the concatenation of the parts) are
shown to have their values place by place, with `Upto` and `Along`.

`PalmAppProofs` proves, of `StdinPath`, `TypedTextKept` (`NothingLost`) and `EofComesLast` (`EofLast`) from
`StdinAssumption`, for texts and lines of any length. `Answered` says what an answer of
`app_input_get` is worth: with what was typed for it, the buffer before is the data it hands
over followed by the buffer after, and in the data a newline is only at the end of a
line that was asked for. `Fetching` carries that over to `fread_stdin` with its put-back character, and
`FetchedKept` to the program, whichever reader asked and whatever it puts back: with the character that `fread_stdin` forgets
taken out (`BehindParts`), nothing else is missing. The invariant adds
that a read of n characters never has 0 of them due, so that each request is for at least one, that a buffer at its end is empty, and that nothing is
being read from a stream at its end. The cut of a text at the first newline or the limit
(`Cutting`) is proved without induction, from the least element of a set of positions.

`PalmAppProofs` proves, of `AppLifecycle` and from `AppAssumption`,
`ScriptTextKept` (`TextKept`), `TextOwned` (`NoTextLeaked`), `StopsCounted`
(`StopsKept`), `SetupKept` (`SetupInForce`) and the action property `MemosAsChosen`
(`MemoChosen`). They have one inductive invariant: `ControlInv` says what may be on top of what on the C stack
(`Stacked`), and that an open event waits only in front of everything else and while the main form has no text;
`TextInv` that the editor is open exactly where the stack says and that the main form has no text
then; `FormInv` relates the store to the preferences and the list of memos to the
memos. `Stacked` is what makes the rest inductive for stacks of any height: an editor, a list or a
setup is only ever on top, with at most the list above the editor, so that there is never a second
editor, whatever scripts and loops of exit are below it. `StopsCounted` counts: an event taken from the queue or a
frame taken from the stack changes each side of the equation by as much (`Waiting`, `Exiting`).

`LuaGCProofs` proves `NothingLive` (`NothingLost`), `ColoursHold` (`Colours`),
`FinalizersOnce` (`FinalizedOnce`) and the action property `ClosedFinalized`
(`FinalizedAtClose`) for heaps of any size and shape. `TypesAssumption` says that an object has one
type, and `WorldsAssumption` that in the first heap a thing refers to things that are there.
`NothingLost` is far from inductive. That nothing white is in use when
`atomic` is done rests on what marking keeps (`MarkInv`: gray objects are in a list, black ones refer
to nothing white, the userdata with a finalizer under way apart), and the end of `atomic` on a fixed
point: when the gray lists are empty what is reached is closed. `SweepInv` says that what is not white yet is
still to be swept, `IdleInv` that all is white between cycles, so that the next one may start;
`ColourInv`, which types have which colours, is needed by each of them. Each barrier is a
step of its own: a store that would make a black object refer to a white one marks the one or makes the
other gray again. All of this is for the open state. `ClosedFinalized` needs little of it, but holds on to
the end: `ClosingInv` says that a userdata which is due has its finalizer, is in `tmudata` or has been called, and that
nothing sweeps what is in `tmudata` while the state closes, whatever the finalizers do.

`IoFilesProofs` proves `OwnersHaveFiles` (`FilesOwned`), `HandlesLive` (`StreamsLive`) and
`AllReleased` (`ReleasedAtExit`) from `FilesAssumption`, for any number of blocks,
FileHands and handles. The invariant looks at the same FILEs from three sides: `Streams` from the system's
(each open FileHand belongs to one FILE, or was forgotten by a failing fopen), `Owned` from Lua's
(an open handle has a FILE of its own; a FILE at no standard address has a handle), `StdInv`
from the three standard variables. `Closing` and `Opening` are the two lemmas that all actions use: a set of
FILEs is closed, a FILE is made. In `osglue_init`, the cases of the start that fail are one lemma
each, and `AllReleased` follows as the session's end closes what these leave.

`LuaTableProofs` proves `LengthIsBorderAlways` (`LengthIsBorder`), `MainPositionAlways` (`MainPosition`), `PartsAgreeAlways` (`PartsAgree`),
`TableIsMap` (the refinement `Refines` of `LuaMap`) and the action property `HalfUsedAlways` (`HalfUsed`) from
`HashAssumption`, `SizeAssumption` and `IntAssumption`, for any keys and any hash values: they may all collide. The
inductive invariant has three parts. `Tab` is the structure: a chain leads from the
main position of each key that is in a node to that node (`AtHome`), the node there belongs there, two
chains never meet (`Linked`), a live key is in one node (`Unique`). `Pow` is the size of the hash part, which `hashpow2`
masks by. `TraversalInv` cuts the order of the slots at the key that `luaH_next` was given: what has been
returned lies before. The lemmas follow the code: a colliding insertion (`Collide`, with both kinds of
move), an assignment, the filling of a reorganised table. That this never overflows, so that a
rehash starts no other one, is a count of used and free nodes (`Sizes` against what does not go to
the array part), and needs `computesizes` to count what it says (`nums` over slices adds up to the indexes below a power of two). The searches of
`luaH_getn` are iterated functions (`Rounds`); `RoundsEnd` proves that one which comes nearer each time
has ended after as many rounds as it was far.

Only model-checked: the machine (`AssertsHold`, `CodeChecked`, `UpvaluesSound`, `StacksAgree`), whose
parser and reference need RECURSIVE operators; and all liveness properties (`Returns`, `StopHonoured`, `Collected`, `Meaning`), which need
fairness and are beyond the prover.

## Known divergences

Shown by runs that find a violation (see "findings" in `PROJECT.json`):

* palmapp.c:1338: at the overflow of the lines table the item behind the table is
  cleared, not the last one (`output_store_shift`);
* palmapp.c:1688: an empty line is drawn with the text of the lines behind it
  (`output_screen_view`).

Modelled as they are, and named in the properties they limit:

* osglue.c:267: the slow path of realloc loses the new block when the old one cannot be
  found in the table;
* osglue.c:311: `exit` runs an event loop in the middle of `memory_register` and returns; a
  `malloc` or `free` in it changes the table under the slot that was chosen (`disturbed`);
* palmapp.c:1818: a character that was put back (by `io.read(0)`) is lost when the next read is of
  more than one;
* osglue.c:2631: `fscanf` refuses every format but `"%ld"`, and Lua passes `"%lf"` (luaconf.h:537):
  `io.read("*n")` never reads a number;
* osglue.c:3062, liolib.c:347: `fread` answers -1 for an error, which `read_chars` adds to
  its buffer pointer;
* palmapp.c:2026: `exit()` runs an event loop and returns to its caller;
* osglue.c:972: after `r`, `w` or `a`, fopen wants two more characters: `"r"`, the default
  of `io.open`, is refused (lua/doc/manual.html:7413 lists it);
* lgc.c:160: a userdata that was garbage once, without a `__gc`, and came back is never finalized,
  though manual.html:2660 has the finalizer of every userdata with the field called;
* lcode.c:587, 615: a condition that is the constant `false` (`true`) jumps without its value, so
  `((nil and nil) or false) and true` is `nil` where manual.html:1038 makes it `false`; the
  programs of the run have no such condition, and the comments at `Meaning` say so;
* lcode.c:742: of the constants, only VK goes to a register before a unary minus: `-nil` compiles to
  an UNM that names a constant for its register, which the bytecode checker refuses; nor do the
  programs have that, and the comments at `CodeChecked` and `Meaning` say so;
* ltable.c:11: "the largest n such that at least half the slots between 0 and n are in use" is said
  of the array part; `computesizes` takes powers of two only, and exactly half is not enough for it
  (the keys 1 and 2 get two slots, not four): `HalfUsed` is what it does;
* lgc.c:480, lstate.c:217: `lua_close` in the middle of a cycle lets `GCTM` make a userdata white that
  black objects refer to, and a finalizer that drives the collector on has it taken for garbage:
  `NothingLost` and `Colours` are stated while the state is open;
* liolib.c:318: when the dialog of `io.read("*l")` is ended by a stop, its empty text has no newline and
  `read_line` asks again, for ever: `StopHonoured` assumes that scripts come to an end;
* palmapp.c:475, 2855, 2940: the three places where the script's text is lost (`failed`);
* osglue.c:2341: `"%5.2s"` counts two characters and writes five;
* osglue.c:1847, 1874: `*` is read from the arguments but not skipped: the format is refused;
* osglue.c:1878: a precision that begins with a zero is refused: `string.format("%.0f", x)`
  adds what its buffer held before, since `str_format` does not look at `sprintf`'s result;
* osglue.c:1377: numbers are not filled with blanks up to their width, and negative ones not
  with zeros; `-`, `#` and `'` have no effect; `%X` writes small letters; octal and hexadecimal
  numbers in the upper half of their range are written as their negative's digits;
* osglue.c:1781: the item of a positional directive is not freed;
* osglue.c:3463, 3498: `snprintf` and `sprintf` return 0, not the length.

## Not modelled, and why

Scanning (`scanf`, `strtod`, `strftime`), number conversion and the random generator are
pure functions without state a property could relate. Reading, writing and seeking in
files of the device, and the fsdb store, are stubs in the source (XXX TODO). Limits of the size of a
function are left out of the compiler: the count word behind a SETLIST of more than `MAXARG_C` batches,
jumps farther than `MAXARG_sBx`, more than `MAXARG_Bx` constants or functions. The lexer's
characters, line information and hooks of Lua appear in nothing the properties speak of;
patterns of `lstrlib.c` and `loadlib.c` are upstream's and keep no state. The runtime
form, fonts, colours and pixel coordinates are copies between controls and preferences;
the turtle (`palmbind`) draws and keeps nothing to relate. `contrib` is third party; code
sections and the build have no behaviour.
