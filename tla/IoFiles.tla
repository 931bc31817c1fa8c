------------------------------- MODULE IoFiles -------------------------------
(***************************************************************************)
(* The C library's FILEs from the start of the application to its end, and *)
(* the Lua file handles that own them.                                     *)
(*                                                                         *)
(* PilotMain starts the glue of osglue.c (memory table, MathLib, the three *)
(* standard FILEs), StartApplication makes the one Lua state of the        *)
(* session, whose io library (liolib.c) wraps the standard FILEs and opens *)
(* others in handles that the program closes or the collector finalizes;   *)
(* StopApplication closes the state, osglue_done the glue.  A FILE is a    *)
(* block of the glue heap and a block that was freed may be handed out     *)
(* again, as another FILE.                                                 *)
(*                                                                         *)
(* Reading and writing a FILE of the device is not implemented in osglue.c *)
(* (it always fails), reading stdin is StdinPath and writing stdout is     *)
(* OutputStore: here a use of a FILE only matters for whether it is one.   *)
(***************************************************************************)
EXTENDS Naturals, Sequences, FiniteSets, SequencesExt

CONSTANTS
  Blocks,    (* addresses of FILEs                                          *)
  NULL,
  Hands,     (* the FileHands of the system's file streams                  *)
  MaxHandle, (* bound on the Lua handles alive, the standard ones included  *)
  Modes      (* mode strings programs open files with                       *)

ASSUME FilesAssumption ==
  NULL \notin Blocks \union Hands /\ MaxHandle \in Nat /\ MaxHandle >= 3

VARIABLES
  running,  (* between StartApplication and StopApplication                 *)
  std,      (* stdin_var, stdout_var, stderr_var                            *)
  io,       (* the FILEs, the open FileHands, and those forgotten           *)
  lua,      (* the handles of the Lua state: their FILEs, those that the    *)
            (* program or an iterator has, the default input and output     *)
  misused,  (* history: a FILE was used that is not there, in this session  *)
  causes,   (* history: what makes that possible, in this session           *)
  unbalanced(* history: FILEs were left over when the glue's memory went    *)

history == <<misused, causes, unbalanced>>
vars == <<running, std, io, lua, history>>

Standard == <<"stdin", "stdout", "stderr">>
File(kind, hand) == [kind |-> kind, hand |-> hand]
NoFiles == [files |-> <<>>, open |-> {}, lost |-> {}]
NoLua == [file |-> <<>>, held |-> {}, default |-> <<>>]
NoHandle == 0

With(f, k, v) == [j \in DOMAIN f \union {k} |-> IF j = k THEN v ELSE f[j]]
Except(f, k) == [j \in DOMAIN f \ {k} |-> f[j]]

-----------------------------------------------------------------------------
(* osglue.c *)

(* What malloc may return for a FILE. *)
malloc(s) == {NULL} \union (Blocks \ DOMAIN s.files)

(* a can be used as a FILE of one of the kinds. *)
Live(s, a, kinds) == a \in DOMAIN s.files /\ s.files[a].kind \in kinds
Kinds == ToSet(Standard) \union {"file"}

(* A use of a that finds no FILE there: fwrite takes anything, the others  *)
(* turn NULL down.                                                         *)
fwrite(s, a) == ~Live(s, a, Kinds)
fgets(s, a) == a # NULL /\ ~Live(s, a, Kinds)
fseek(s, a) == a # NULL /\ ~Live(s, a, Kinds)
fflush(s, a) == a # NULL /\ ~Live(s, a, Kinds)

(* fclose flushes and closes the stream of the device; the block goes even *)
(* if that fails.  Of NULL it does nothing; of a block that is no FILE any *)
(* more it reads what is left there, and free does not know it.  What      *)
(* several calls close does not depend on their order.                     *)
fclose_all(s, as) ==
  LET gone == as \intersect DOMAIN s.files
  IN  [s EXCEPT !.files = [a \in DOMAIN s.files \ gone |-> s.files[a]],
                !.open = s.open \ {s.files[a].hand : a \in gone}]
fclose(s, a) == fclose_all(s, {a})

(* The switches of fopen over the mode string: one of r, w, a, then one of *)
(* + and b, then one of + and b, then nothing; an end of the string is an  *)
(* error where a character is looked at.                                   *)
ModeAccepted(mode) ==
  /\ Len(mode) = 3
  /\ mode[1] \in {"r", "w", "a"}
  /\ mode[2] \in {"+", "b"}
  /\ mode[3] \in {"+", "b"}

(* fopen_file: FileOpen, then FileTell and FileError, whose errors forget  *)
(* the FileHand.                                                           *)
fopen_file(s, a) ==
  LET hands == Hands \ s.open
  IN  {[io |-> s, file |-> NULL]}
        \union {[io |-> [s EXCEPT !.open = s.open \union {d}, !.lost = s.lost \union {d}],
                 file |-> NULL] : d \in hands}
        \union {[io |-> [s EXCEPT !.open = s.open \union {d},
                                  !.files = With(s.files, a, File("file", d))],
                 file |-> a] : d \in hands}

(* Memory files and databases ("//memo/", "//fsdb/") are not implemented:  *)
(* they fail as a file of the device does that cannot be opened.           *)
fopen(s, mode) ==
  {[io |-> s, file |-> NULL]}
    \union IF ModeAccepted(mode)
           THEN UNION {fopen_file(s, a) : a \in malloc(s) \ {NULL}}
           ELSE {}

(* remove opens the file to find where it is, and closes it again. *)
remove(s) == {fclose(r.io, r.file) : r \in fopen(s, <<"r">>)}

(* init_fileio makes the three FILEs one after the other; when one cannot  *)
(* be had those before it are closed again, and their variables keep the   *)
(* addresses.                                                              *)
NoStd == [i \in 1 .. 3 |-> NULL]
Made(s, i) == {[std |-> [s.std EXCEPT ![i] = a], ok |-> TRUE,
                io |-> [s.io EXCEPT !.files = With(s.io.files, a, File(Standard[i], NULL))]]
                 : a \in malloc(s.io) \ {NULL}}
NotMade(s, i) == [std |-> s.std, ok |-> FALSE,
                  io |-> fclose_all(s.io, {s.std[j] : j \in 1 .. i - 1})]
init_fileio ==
  LET one == [std |-> NoStd, io |-> NoFiles, ok |-> TRUE]
      first == Made(one, 1)
      second == UNION {Made(s, 2) : s \in first}
      third == UNION {Made(s, 3) : s \in second}
  IN  third \union {NotMade(one, 1)} \union {NotMade(s, 2) : s \in first}
        \union {NotMade(s, 3) : s \in second}

(* done_fileio closes what the variables point to. *)
done_fileio(s, vs) == fclose_all(s, ToSet(vs))
Stale(s, vs) == \E i \in 1 .. 3 : vs[i] # NULL /\ ~Live(s, vs[i], {Standard[i]})

-----------------------------------------------------------------------------
(* liolib.c: handles *)

Fresh == (1 .. MaxHandle) \ DOMAIN lua.file
newfile == IF Fresh = {} THEN {} ELSE {CHOOSE h \in Fresh : TRUE}
Reachable == lua.held \union ToSet(lua.default)

(* io_gc ignores closed and standard files, and closes the others. *)
io_gc_Any(s, as) == fclose_all(s, as)                                 \* mutant
io_gc(s, as) == fclose_all(s, as \ ({NULL} \union ToSet(std)))

(* newfile, then fopen: handles are made closed, and making one may fail   *)
(* for want of memory.  The handle of the result is NoHandle if the file   *)
(* could not be opened.                                                    *)
Opened_First(mode) ==                                                 \* mutant
  UNION {{[io |-> r.io, file |-> lua.file, handle |-> NoHandle]}
           \union {[io |-> r.io, file |-> With(lua.file, h, r.file),
                    handle |-> IF r.file = NULL THEN NoHandle ELSE h]
                     : h \in newfile}
           : r \in fopen(io, mode)}
Opened(mode) ==
  {[io |-> io, file |-> lua.file, handle |-> NoHandle]}
    \union {[io |-> r.io, file |-> With(lua.file, h, r.file),
             handle |-> IF r.file = NULL THEN NoHandle ELSE h]
              : r \in fopen(io, mode), h \in newfile}

(* io.open *)
io_open(mode) ==
  /\ running
  /\ \E o \in Opened(mode) :
       /\ io' = o.io
       /\ lua' = [lua EXCEPT !.file = o.file, !.held = (lua.held \union {o.handle}) \ {NoHandle}]
  /\ UNCHANGED <<running, std, misused, causes, unbalanced>>

(* io.popen and io.tmpfile: a handle that stays closed. *)
io_popen ==
  /\ running
  /\ \E h \in newfile : lua' = [lua EXCEPT !.file = With(lua.file, h, NULL)]
  /\ UNCHANGED <<running, std, io, history>>

(* io.input and io.output with a file name. *)
IO_INPUT == 1
IO_OUTPUT == 2
g_iofile(f) ==
  LET mode == IF f = IO_INPUT THEN <<"r">> ELSE <<"w">>
  IN  /\ running
      /\ \E o \in Opened(mode) :
           /\ io' = o.io
           /\ lua' = [lua EXCEPT !.file = o.file,
                                 !.default[f] = IF o.handle = NoHandle THEN @ ELSE o.handle]
      /\ UNCHANGED <<running, std, history>>

(* and with a handle: a closed one is an error. *)
SetDefault(f, h) ==
  /\ running
  /\ h \in lua.held
  /\ lua.file[h] # NULL
  /\ lua' = [lua EXCEPT !.default[f] = h]
  /\ UNCHANGED <<running, std, io, history>>

(* io.lines with a file name, and file:lines: the iterator has the handle. *)
io_lines ==
  /\ running
  /\ \E o \in Opened(<<"r">>) :
       /\ io' = o.io
       /\ lua' = [lua EXCEPT !.file = o.file, !.held = (lua.held \union {o.handle}) \ {NoHandle}]
  /\ UNCHANGED <<running, std, history>>
f_lines(h) ==
  /\ running
  /\ h \in lua.held \union {lua.default[IO_INPUT]}
  /\ lua.file[h] # NULL
  /\ lua' = [lua EXCEPT !.held = @ \union {h}]
  /\ UNCHANGED <<running, std, io, history>>

(* file:read, write, seek and flush, and their io.read, io.write, io.flush *)
(* for the default files: a closed handle is an error of the program       *)
(* ("attempt to use a closed file"), an open one uses its FILE.            *)
Use(h, misuses(_, _)) ==
  /\ running
  /\ h \in Reachable
  /\ lua.file[h] # NULL
  /\ misused' = (misused \/ misuses(io, lua.file[h]))
  /\ UNCHANGED <<running, std, io, lua, causes, unbalanced>>
g_read(h) == Use(h, fgets)
g_write(h) == Use(h, fwrite)
f_seek(h) == Use(h, fseek)
f_flush(h) == Use(h, fflush)

(* print, the messages of the debug library and the menu of the main form  *)
(* use the standard files without a handle.                                *)
UseStandard(i, misuses(_, _)) ==
  /\ running
  /\ misused' = (misused \/ misuses(io, std[i]) \/ ~(std[i] = NULL \/ Live(io, std[i], {Standard[i]})))
  /\ UNCHANGED <<running, std, io, lua, causes, unbalanced>>
luaB_print == UseStandard(2, fwrite)
db_debug == UseStandard(3, fwrite)
InputTest == UseStandard(1, fgets)

(* io_close, through aux_close to io_fclose. *)
io_fclose(h) ==
  /\ io' = fclose(io, lua.file[h])
  /\ lua' = [lua EXCEPT !.file[h] = NULL]
io_close(h) ==
  /\ running
  /\ h \in lua.held \union {lua.default[IO_OUTPUT]}
  /\ lua.file[h] # NULL
  /\ misused' = (misused \/ fflush(io, lua.file[h]))
  /\ causes' = IF lua.file[h] \in ToSet(std) THEN causes \union {"standard file closed"} ELSE causes
  /\ io_fclose(h)
  /\ UNCHANGED <<running, std, unbalanced>>

(* The program forgets a handle (or the iterator that has it ends), and    *)
(* the collector finalizes it.                                             *)
Forget(h) ==
  /\ running
  /\ h \in lua.held
  /\ lua' = [lua EXCEPT !.held = @ \ {h}]
  /\ UNCHANGED <<running, std, io, history>>
Collect(h) ==
  /\ running
  /\ h \in DOMAIN lua.file \ Reachable
  /\ io' = io_gc(io, {lua.file[h]})
  /\ lua' = [lua EXCEPT !.file = Except(lua.file, h)]
  /\ UNCHANGED <<running, std, history>>

(* os.remove *)
RemoveFile ==
  /\ running
  /\ io' \in remove(io)
  /\ UNCHANGED <<running, std, lua, history>>

-----------------------------------------------------------------------------
(* The life of the application *)

(* osglue_done: done_fileio, then memory_release with its alert if a block *)
(* is left over.                                                           *)
osglue_done_Two(s, vs) == fclose(fclose(s, vs[1]), vs[2])              \* mutant
osglue_done(s, vs) == done_fileio(s, vs)

Ended(s, vs) ==
  /\ running' = FALSE
  /\ std' = NoStd /\ io' = NoFiles /\ lua' = NoLua
  /\ misused' = ((running /\ misused) \/ Stale(s, vs))
  /\ unbalanced' = (DOMAIN osglue_done(s, vs).files # {})

(* luaopen_io: the standard handles, and the default input and output. *)
luaopen_io(vs) ==
  [file |-> vs, held |-> {1, 2, 3}, default |-> <<1, 2>>]

Began(s) ==
  /\ running' = TRUE
  /\ std' = s.std /\ io' = s.io /\ lua' = luaopen_io(s.std)
  /\ misused' = FALSE /\ unbalanced' = FALSE

(* Every step of osglue_init went well; StartApplication may still fail,   *)
(* and is followed by StopApplication and osglue_done then.                *)
Launch ==
  /\ ~running
  /\ \E s \in init_fileio :
       /\ s.ok
       /\ Began(s) \/ Ended(s.io, s.std)
       /\ causes' = {}

(* No memory for a standard FILE: PilotMain cleans up and returns. *)
LaunchFailsInFiles ==
  /\ ~running
  /\ \E s \in init_fileio :
       /\ ~s.ok
       /\ Ended(s.io, s.std)
       /\ causes' = IF s.std = NoStd THEN {} ELSE {"standard file not made"}

(* MathLib is missing: osglue_init returns before init_fileio.  Unless the *)
(* user has the copy in the application installed, PilotMain cleans up and *)
(* returns (as it does when there is no memory table); if the copy goes in *)
(* it goes on.                                                             *)
LaunchWithoutLibrary ==
  /\ ~running
  /\ \/ Ended(NoFiles, NoStd) /\ causes' = {}
     \/ Began([std |-> NoStd, io |-> NoFiles]) /\ causes' = {"library installed"}

(* StopApplication closes the Lua state, whose userdata are all finalized, *)
(* then comes osglue_done.                                                 *)
lua_close == io_gc(io, {lua.file[h] : h \in DOMAIN lua.file})
Stop ==
  /\ running
  /\ Ended(lua_close, std)
  /\ UNCHANGED causes

Init ==
  /\ running = FALSE
  /\ std = NoStd /\ io = NoFiles /\ lua = NoLua
  /\ misused = FALSE /\ unbalanced = FALSE
  /\ causes = {}

Program ==
  \/ \E mode \in Modes : io_open(mode)
  \/ io_popen \/ io_lines \/ RemoveFile
  \/ \E f \in {IO_INPUT, IO_OUTPUT} : g_iofile(f)
  \/ \E f \in {IO_INPUT, IO_OUTPUT}, h \in 1 .. MaxHandle : SetDefault(f, h)
  \/ \E h \in 1 .. MaxHandle :
       \/ f_lines(h) \/ io_close(h) \/ Forget(h) \/ Collect(h)
       \/ g_read(h) \/ g_write(h) \/ f_seek(h) \/ f_flush(h)
  \/ luaB_print \/ db_debug \/ InputTest

Next == Launch \/ LaunchFailsInFiles \/ LaunchWithoutLibrary \/ Program \/ Stop

Spec == Init /\ [][Next]_vars

-----------------------------------------------------------------------------
(* Properties *)

Files(kind) == {a \in DOMAIN io.files : io.files[a].kind = kind}
Owners(a) == {h \in DOMAIN lua.file : lua.file[h] = a}

(* No FILE of the device is left without an owner, whatever fails while it *)
(* is opened (newfile comes before fopen for this, and io_gc closes what   *)
(* the program forgot): one handle owns it, and each FileHand the system   *)
(* has open belongs to a FILE, but for those that fopen_file forgets.  (A  *)
(* standard file that the program closed frees its address; a file that    *)
(* gets it is taken for a standard one by io_gc and loses its owner.)      *)
FilesOwned ==
  /\ io.open = {io.files[a].hand : a \in Files("file")} \union io.lost
  /\ \A a \in Files("file") \ ToSet(std) : Cardinality(Owners(a)) = 1

(* An open handle has a FILE, which no other handle has: close, the        *)
(* collector and the end of the state never free it twice, and a handle    *)
(* that was closed is not used with a block that is another FILE by then.  *)
(* A FILE is used that is not there only after a program has closed a      *)
(* standard file, when the standard files could not all be made, and when  *)
(* the application goes on with a MathLib it has just installed.           *)
StreamsLive ==
  /\ misused => causes # {}
  /\ \A h \in DOMAIN lua.file : lua.file[h] # NULL =>
       Live(io, lua.file[h], Kinds) /\ Owners(lua.file[h]) = {h}

(* When the glue's memory is released no FILE is left in it: the handles   *)
(* of the Lua state and done_fileio between them have closed them all.     *)
ReleasedAtExit == ~unbalanced
=============================================================================
