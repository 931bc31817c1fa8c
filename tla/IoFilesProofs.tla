---------------------------- MODULE IoFilesProofs ----------------------------
(***************************************************************************)
(* Proofs about IoFiles: for any number of blocks, FileHands and handles   *)
(* every FILE has its one owner, no FILE is used when it is gone but for   *)
(* the causes the model names, and none is left when the glue ends.        *)
(*                                                                         *)
(* The invariant looks at the same FILEs from three sides: Streams from    *)
(* the system's (every open FileHand has one FILE, or was forgotten),      *)
(* Owned from Lua's (an open handle has a FILE of its own, and what is not *)
(* at an address of the standard FILEs has a handle), StdInv from that of  *)
(* the three variables, which nothing sets again: as long as the program   *)
(* has closed none of them they lead to the FILEs of their kinds.          *)
(***************************************************************************)
EXTENDS IoFiles, FiniteSetTheorems, TLAPS

FileIn == [kind : Kinds, hand : Hands \union {NULL}]

Streams(s, vs) ==
  /\ s = [files |-> s.files, open |-> s.open, lost |-> s.lost]
  /\ s.files \in [DOMAIN s.files -> FileIn]
  /\ DOMAIN s.files \subseteq Blocks
  /\ s.lost \subseteq Hands
  /\ \A a \in DOMAIN s.files :
       IF s.files[a].kind = "file" THEN s.files[a].hand \in Hands \ s.lost
       ELSE s.files[a].hand = NULL /\ a \in ToSet(vs)
  /\ \A a, b \in DOMAIN s.files :
       s.files[a].hand = s.files[b].hand /\ s.files[a].hand # NULL => a = b
  /\ s.open = ({s.files[a].hand : a \in DOMAIN s.files} \ {NULL}) \union s.lost

Owned(s, vs, file) ==
  /\ file \in [DOMAIN file -> Blocks \union {NULL}]
  /\ \A h \in DOMAIN file : file[h] # NULL =>
       file[h] \in DOMAIN s.files /\ \A g \in DOMAIN file : file[g] = file[h] => g = h
  /\ \A a \in DOMAIN s.files \ ToSet(vs) : \E h \in DOMAIN file : file[h] = a

HandlesIn(l) ==
  /\ l = [file |-> l.file, held |-> l.held, default |-> l.default]
  /\ DOMAIN l.file \subseteq 1 .. MaxHandle
  /\ l.held \subseteq DOMAIN l.file
  /\ l.default \in [1 .. 2 -> DOMAIN l.file]

StdInv ==
  /\ std \in [1 .. 3 -> Blocks \union {NULL}]
  /\ causes = {} => \A i \in 1 .. 3 : Live(io, std[i], {Standard[i]})

Idle == std = NoStd /\ io = NoFiles /\ lua = NoLua
Session == Streams(io, std) /\ Owned(io, std, lua.file) /\ HandlesIn(lua) /\ StdInv

IInv ==
  /\ IF running THEN Session ELSE Idle
  /\ misused => causes # {}
  /\ ~unbalanced

-----------------------------------------------------------------------------
(* fclose, of any addresses: what is left is as it was, and only the       *)
(* FileHands of the closed FILEs are closed.                               *)
Shrunk(s, t, as) ==
  /\ DOMAIN t.files = DOMAIN s.files \ as
  /\ \A a \in DOMAIN t.files : t.files[a] = s.files[a]

LEMMA Closing ==
  ASSUME NEW s, NEW vs, NEW as, Streams(s, vs)
  PROVE  Streams(fclose_all(s, as), vs) /\ Shrunk(s, fclose_all(s, as), as)
<1>1. PICK t : t = fclose_all(s, as)  OBVIOUS
<1>2. t = [files |-> [a \in DOMAIN s.files \ as |-> s.files[a]],
           open |-> s.open \ {s.files[a].hand : a \in as \intersect DOMAIN s.files},
           lost |-> s.lost]
  <2>1. DOMAIN s.files \ (as \intersect DOMAIN s.files) = DOMAIN s.files \ as  OBVIOUS
  <2> QED  BY <1>1, <2>1 DEF fclose_all, Streams
<1>3. /\ DOMAIN t.files = DOMAIN s.files \ as
      /\ \A a \in DOMAIN t.files : t.files[a] = s.files[a]
      /\ t.lost = s.lost
      /\ t = [files |-> t.files, open |-> t.open, lost |-> t.lost]
      /\ t.files \in [DOMAIN t.files -> FileIn]
  BY <1>2 DEF Streams
<1>4. t.open = ({t.files[a].hand : a \in DOMAIN t.files} \ {NULL}) \union t.lost
  <2>1. t.open = s.open \ {s.files[a].hand : a \in as \intersect DOMAIN s.files}  BY <1>2
  <2>2. ASSUME NEW d \in t.open
        PROVE  d \in ({t.files[a].hand : a \in DOMAIN t.files} \ {NULL}) \union t.lost
    <3>1. d \in s.open /\ ~\E a \in as \intersect DOMAIN s.files : s.files[a].hand = d  BY <2>1, <2>2
    <3>2. CASE d \in s.lost  BY <3>2, <1>3
    <3>3. CASE d \notin s.lost
      <4>1. d # NULL /\ \E a \in DOMAIN s.files : s.files[a].hand = d  BY <3>1, <3>3 DEF Streams
      <4>2. PICK a \in DOMAIN s.files : s.files[a].hand = d  BY <4>1
      <4>3. a \in DOMAIN t.files /\ t.files[a].hand = d  BY <4>2, <3>1, <1>3
      <4> QED  BY <4>1, <4>3
    <3> QED  BY <3>2, <3>3
  <2>3. ASSUME NEW d \in ({t.files[a].hand : a \in DOMAIN t.files} \ {NULL}) \union t.lost
        PROVE  d \in t.open
    <3>1. CASE d \in t.lost
      <4>1. d \in s.lost /\ d \in s.open /\ d \in Hands  BY <3>1, <1>3 DEF Streams
      <4>2. ASSUME NEW a \in as \intersect DOMAIN s.files, s.files[a].hand = d PROVE FALSE
        <5>1. IF s.files[a].kind = "file" THEN s.files[a].hand \in Hands \ s.lost
              ELSE s.files[a].hand = NULL
          BY <4>2 DEF Streams
        <5> QED  BY <5>1, <4>1, <4>2, FilesAssumption
      <4> QED  BY <4>1, <4>2, <2>1
    <3>2. CASE d \notin t.lost
      <4>1. PICK a \in DOMAIN t.files : t.files[a].hand = d /\ d # NULL  BY <3>2, <2>3
      <4>2. a \in DOMAIN s.files /\ a \notin as /\ s.files[a].hand = d  BY <4>1, <1>3
      <4>3. d \in s.open  BY <4>1, <4>2 DEF Streams
      <4>4. ASSUME NEW b \in as \intersect DOMAIN s.files, s.files[b].hand = d PROVE FALSE
        BY <4>1, <4>2, <4>4 DEF Streams
      <4> QED  BY <4>3, <4>4, <2>1
    <3> QED  BY <3>1, <3>2
  <2> QED  BY <2>2, <2>3
<1>5. Streams(t, vs)  BY <1>3, <1>4 DEF Streams
<1> QED  BY <1>1, <1>3, <1>5 DEF Shrunk

(* fopen: nothing, a FileHand that is forgotten, or a new FILE for one     *)
(* that was not open.                                                      *)
Grown(s, t, a) ==
  /\ DOMAIN t.files = DOMAIN s.files \union ({a} \ {NULL})
  /\ a \notin DOMAIN s.files
  /\ \A b \in DOMAIN s.files : t.files[b] = s.files[b]

LEMMA Opening ==
  ASSUME NEW s, NEW vs, NEW mode, Streams(s, vs), NEW r \in fopen(s, mode)
  PROVE  /\ Streams(r.io, vs)
         /\ r.file \in Blocks \union {NULL}
         /\ Grown(s, r.io, r.file)
<1> USE FilesAssumption
<1>1. NULL \notin DOMAIN s.files  BY DEF Streams
<1>2. CASE r = [io |-> s, file |-> NULL]  BY <1>1, <1>2 DEF Grown
<1>3. CASE r # [io |-> s, file |-> NULL]
  <2>1. PICK a \in malloc(s) \ {NULL} : r \in fopen_file(s, a)  BY <1>3 DEF fopen
  <2>2. a \in Blocks /\ a \notin DOMAIN s.files  BY <2>1 DEF malloc
  <2>3. PICK d \in Hands \ s.open :
          \/ r = [io |-> [s EXCEPT !.open = s.open \union {d}, !.lost = s.lost \union {d}],
                  file |-> NULL]
          \/ r = [io |-> [s EXCEPT !.open = s.open \union {d},
                                   !.files = With(s.files, a, File("file", d))], file |-> a]
    BY <2>1, <1>3 DEF fopen_file
  <2>4. d \notin s.lost /\ d # NULL /\ \A b \in DOMAIN s.files : s.files[b].hand # d
    BY <2>3 DEF Streams
  <2>5. CASE r = [io |-> [s EXCEPT !.open = s.open \union {d}, !.lost = s.lost \union {d}],
                  file |-> NULL]
    <3>1. PICK t : t = r.io  OBVIOUS
    <3>2. t = [files |-> s.files, open |-> s.open \union {d}, lost |-> s.lost \union {d}]
      BY <2>5, <3>1 DEF Streams
    <3>3. t.files = s.files /\ t.open = s.open \union {d} /\ t.lost = s.lost \union {d}  BY <3>2
    <3>4. t.open = ({t.files[b].hand : b \in DOMAIN t.files} \ {NULL}) \union t.lost
      BY <3>3 DEF Streams
    <3>5. \A b \in DOMAIN t.files :
            IF t.files[b].kind = "file" THEN t.files[b].hand \in Hands \ t.lost
            ELSE t.files[b].hand = NULL /\ b \in ToSet(vs)
      BY <3>3, <2>4 DEF Streams
    <3>6. Streams(t, vs)  BY <3>2, <3>3, <3>4, <3>5, <2>3 DEF Streams
    <3> QED  BY <3>1, <3>3, <3>6, <2>5, <1>1 DEF Grown
  <2>6. CASE r = [io |-> [s EXCEPT !.open = s.open \union {d},
                                   !.files = With(s.files, a, File("file", d))], file |-> a]
    <3>1. PICK t : t = r.io  OBVIOUS
    <3>2. PICK f : f = With(s.files, a, File("file", d))  OBVIOUS
    <3>3. t = [files |-> f, open |-> s.open \union {d}, lost |-> s.lost]
      BY <2>6, <3>1, <3>2 DEF Streams
    <3>4. /\ f \in [DOMAIN s.files \union {a} -> FileIn]
          /\ f[a] = [kind |-> "file", hand |-> d]
          /\ \A b \in DOMAIN s.files : f[b] = s.files[b]
      BY <3>2, <2>2, <2>3 DEF With, File, FileIn, Kinds, Streams
    <3>5. DOMAIN f = DOMAIN s.files \union {a}  BY <3>4
    <3>6. t.files = f /\ t.open = s.open \union {d} /\ t.lost = s.lost  BY <3>3
    <3>7. {f[b].hand : b \in DOMAIN f} = {s.files[b].hand : b \in DOMAIN s.files} \union {d}
      <4>1. f[a].hand = d  BY <3>4
      <4>2. \A b \in DOMAIN s.files : f[b].hand = s.files[b].hand  BY <3>4
      <4> QED  BY <4>1, <4>2, <3>5
    <3>8. t.open = ({t.files[b].hand : b \in DOMAIN t.files} \ {NULL}) \union t.lost
      <4>1. s.open = ({s.files[b].hand : b \in DOMAIN s.files} \ {NULL}) \union s.lost  BY DEF Streams
      <4> QED  BY <4>1, <3>6, <3>7, <2>4
    <3>9. \A b \in DOMAIN f :
            IF f[b].kind = "file" THEN f[b].hand \in Hands \ s.lost
            ELSE f[b].hand = NULL /\ b \in ToSet(vs)
      BY <3>4, <3>5, <2>3, <2>4 DEF Streams
    <3>10. \A b, c \in DOMAIN f : f[b].hand = f[c].hand /\ f[b].hand # NULL => b = c
      <4>1. \A b, c \in DOMAIN s.files :
              s.files[b].hand = s.files[c].hand /\ s.files[b].hand # NULL => b = c  BY DEF Streams
      <4>2. f[a].hand = d  BY <3>4
      <4>3. \A b \in DOMAIN s.files : f[b].hand = s.files[b].hand /\ f[b].hand # d  BY <3>4, <2>4
      <4> QED  BY <4>1, <4>2, <4>3, <3>5
    <3>11. DOMAIN f \subseteq Blocks /\ s.lost \subseteq Hands  BY <3>5, <2>2 DEF Streams
    <3>12. Streams(t, vs)
      BY <3>3, <3>4, <3>5, <3>6, <3>8, <3>9, <3>10, <3>11 DEF Streams
    <3> QED  BY <3>1, <3>4, <3>5, <3>6, <3>12, <2>2, <2>6 DEF Grown
  <2> QED  BY <2>3, <2>5, <2>6
<1> QED  BY <1>2, <1>3

-----------------------------------------------------------------------------
(* Opening in a handle that was made before, as io.open, io.lines and the  *)
(* default files do.                                                       *)
LEMMA newfileIn ==
  ASSUME NEW h \in newfile
  PROVE  h \in 1 .. MaxHandle /\ h \notin DOMAIN lua.file
BY DEF newfile, Fresh

LEMMA OpenedKept ==
  ASSUME Session, NEW mode, NEW o \in Opened(mode)
  PROVE  /\ Streams(o.io, std) /\ Owned(o.io, std, o.file)
         /\ DOMAIN lua.file \subseteq DOMAIN o.file /\ DOMAIN o.file \subseteq 1 .. MaxHandle
         /\ o.handle \in DOMAIN o.file \union {NoHandle}
         /\ \A b \in DOMAIN io.files : b \in DOMAIN o.io.files /\ o.io.files[b] = io.files[b]
<1> USE FilesAssumption
<1>1. CASE o = [io |-> io, file |-> lua.file, handle |-> NoHandle]
  BY <1>1 DEF Session, HandlesIn
<1>2. CASE o # [io |-> io, file |-> lua.file, handle |-> NoHandle]
  <2>1. PICK r \in fopen(io, mode), h \in newfile :
          o = [io |-> r.io, file |-> With(lua.file, h, r.file),
               handle |-> IF r.file = NULL THEN NoHandle ELSE h]
    BY <1>2 DEF Opened
  <2>2. h \in 1 .. MaxHandle /\ h \notin DOMAIN lua.file  BY <2>1, newfileIn
  <2>3. Streams(r.io, std) /\ r.file \in Blocks \union {NULL} /\ Grown(io, r.io, r.file)
    BY <2>1, Opening DEF Session
  <2>4. PICK f : f = With(lua.file, h, r.file)  OBVIOUS
  <2>5. /\ f \in [DOMAIN lua.file \union {h} -> Blocks \union {NULL}]
        /\ f[h] = r.file
        /\ \A g \in DOMAIN lua.file : f[g] = lua.file[g]
    BY <2>2, <2>3, <2>4 DEF With, Session, Owned
  <2>6. DOMAIN f = DOMAIN lua.file \union {h}  BY <2>5
  <2>7. ASSUME NEW g \in DOMAIN f, f[g] # NULL
        PROVE  f[g] \in DOMAIN r.io.files /\ \A k \in DOMAIN f : f[k] = f[g] => k = g
    <3>1. CASE g = h
      <4>1. f[g] \in DOMAIN r.io.files /\ f[g] \notin DOMAIN io.files
        BY <3>1, <2>3, <2>5, <2>7 DEF Grown
      <4>2. \A k \in DOMAIN lua.file : f[k] # f[g]
        BY <4>1, <2>5, <2>7 DEF Session, Owned
      <4> QED  BY <4>1, <4>2, <3>1, <2>6
    <3>2. CASE g # h
      <4>1. g \in DOMAIN lua.file /\ f[g] = lua.file[g]  BY <3>2, <2>5, <2>6
      <4>2. f[g] \in DOMAIN io.files /\ \A k \in DOMAIN lua.file : lua.file[k] = lua.file[g] => k = g
        BY <4>1, <2>7 DEF Session, Owned
      <4>3. f[h] # f[g]  BY <4>2, <2>3, <2>5 DEF Grown
      <4> QED  BY <4>1, <4>2, <4>3, <2>3, <2>5, <2>6 DEF Grown
    <3> QED  BY <3>1, <3>2
  <2>8. ASSUME NEW b \in DOMAIN r.io.files \ ToSet(std)
        PROVE  \E g \in DOMAIN f : f[g] = b
    <3>1. CASE b = r.file  BY <3>1, <2>5, <2>6
    <3>2. CASE b # r.file
      <4>1. b \in DOMAIN io.files \ ToSet(std)  BY <3>2, <2>3, <2>8 DEF Grown
      <4>2. PICK g \in DOMAIN lua.file : lua.file[g] = b  BY <4>1 DEF Session, Owned
      <4> QED  BY <4>2, <2>5, <2>6
    <3> QED  BY <3>1, <3>2
  <2>9. Owned(r.io, std, f)  BY <2>5, <2>6, <2>7, <2>8 DEF Owned
  <2>10. o.io = r.io /\ o.file = f /\ o.handle \in {NoHandle, h}  BY <2>1, <2>4
  <2>11. DOMAIN f \subseteq 1 .. MaxHandle  BY <2>2, <2>6 DEF Session, HandlesIn
  <2>12. \A b \in DOMAIN io.files : b \in DOMAIN o.io.files /\ o.io.files[b] = io.files[b]
    BY <2>3, <2>10 DEF Grown
  <2> QED  BY <2>3, <2>6, <2>9, <2>10, <2>11, <2>12
<1> QED  BY <1>1, <1>2

LEMMA StdKept ==
  ASSUME StdInv, std' = std, causes' = causes,
         \A b \in DOMAIN io.files : b \in DOMAIN io'.files /\ io'.files[b] = io.files[b]
  PROVE  StdInv'
BY DEF StdInv, Live

LEMMA OpenKept ==
  ASSUME IInv, running, running' = running, std' = std,
         misused' = misused, causes' = causes, unbalanced' = unbalanced,
         NEW mode, NEW o \in Opened(mode), io' = o.io,
         lua' = [file |-> o.file, held |-> lua'.held, default |-> lua'.default],
         lua'.held \subseteq lua.held \union ({o.handle} \ {NoHandle}),
         \/ lua'.default = lua.default
         \/ \E f \in 1 .. 2 : o.handle # NoHandle /\ lua'.default = [lua.default EXCEPT ![f] = o.handle]
  PROVE  IInv'
<1>1. Session  BY DEF IInv
<1>2. /\ Streams(o.io, std) /\ Owned(o.io, std, o.file)
      /\ DOMAIN lua.file \subseteq DOMAIN o.file /\ DOMAIN o.file \subseteq 1 .. MaxHandle
      /\ o.handle \in DOMAIN o.file \union {NoHandle}
      /\ \A b \in DOMAIN io.files : b \in DOMAIN o.io.files /\ o.io.files[b] = io.files[b]
  BY <1>1, OpenedKept
<1>3. lua'.file = o.file  OBVIOUS
<1>4. lua'.held \subseteq DOMAIN o.file  BY <1>1, <1>2 DEF Session, HandlesIn
<1>5. lua'.default \in [1 .. 2 -> DOMAIN o.file]
  <2>1. lua.default \in [1 .. 2 -> DOMAIN o.file]  BY <1>1, <1>2 DEF Session, HandlesIn
  <2> QED  BY <2>1, <1>2
<1>6. HandlesIn(lua')  BY <1>2, <1>3, <1>4, <1>5 DEF HandlesIn
<1>7. StdInv'  BY <1>1, <1>2, StdKept DEF Session
<1>8. Streams(io', std') /\ Owned(io', std', lua'.file)  BY <1>2, <1>3
<1>9. Session'  BY <1>6, <1>7, <1>8 DEF Session
<1> QED  BY <1>9 DEF IInv

LEMMA OpensKept ==
  ASSUME IInv, (\E mode \in Modes : io_open(mode)) \/ io_lines
               \/ (\E f \in {IO_INPUT, IO_OUTPUT} : g_iofile(f))
  PROVE  IInv'
<1>1. running => lua = [file |-> lua.file, held |-> lua.held, default |-> lua.default]
                 /\ NoHandle \notin lua.held
  BY DEF IInv, Session, HandlesIn, NoHandle
<1>2. CASE \E mode \in Modes : io_open(mode)
  <2>1. PICK mode \in Modes : io_open(mode)  BY <1>2
  <2>2. PICK o \in Opened(mode) :
          /\ io' = o.io
          /\ lua' = [lua EXCEPT !.file = o.file, !.held = (lua.held \union {o.handle}) \ {NoHandle}]
    BY <2>1 DEF io_open
  <2>3. running /\ UNCHANGED <<running, std, misused, causes, unbalanced>>  BY <2>1 DEF io_open
  <2>4. /\ lua' = [file |-> o.file, held |-> lua'.held, default |-> lua'.default]
        /\ lua'.held \subseteq lua.held \union ({o.handle} \ {NoHandle})
        /\ lua'.default = lua.default
    BY <1>1, <2>2, <2>3
  <2> QED  BY <2>2, <2>3, <2>4, OpenKept
<1>3. CASE io_lines
  <2>1. PICK mode : mode = <<"r">>  OBVIOUS
  <2>2. PICK o \in Opened(mode) :
          /\ io' = o.io
          /\ lua' = [lua EXCEPT !.file = o.file, !.held = (lua.held \union {o.handle}) \ {NoHandle}]
    BY <1>3, <2>1 DEF io_lines
  <2>3. running /\ UNCHANGED <<running, std, misused, causes, unbalanced>>
    BY <1>3 DEF io_lines, history
  <2>4. /\ lua' = [file |-> o.file, held |-> lua'.held, default |-> lua'.default]
        /\ lua'.held \subseteq lua.held \union ({o.handle} \ {NoHandle})
        /\ lua'.default = lua.default
    BY <1>1, <2>2, <2>3
  <2> QED  BY <2>2, <2>3, <2>4, OpenKept
<1>4. CASE \E f \in {IO_INPUT, IO_OUTPUT} : g_iofile(f)
  <2>1. PICK f \in {IO_INPUT, IO_OUTPUT} : g_iofile(f)  BY <1>4
  <2>2. PICK mode : mode = IF f = IO_INPUT THEN <<"r">> ELSE <<"w">>  OBVIOUS
  <2>3. PICK o \in Opened(mode) :
          /\ io' = o.io
          /\ lua' = [lua EXCEPT !.file = o.file,
                                !.default[f] = IF o.handle = NoHandle THEN lua.default[f] ELSE o.handle]
    BY <2>1, <2>2 DEF g_iofile
  <2>4. running /\ UNCHANGED <<running, std, misused, causes, unbalanced>>
    BY <2>1 DEF g_iofile, history
  <2>5. f \in 1 .. 2 /\ lua.default \in [1 .. 2 -> DOMAIN lua.file]
    BY <2>4 DEF IInv, Session, HandlesIn, IO_INPUT, IO_OUTPUT
  <2>6. lua' = [file |-> o.file, held |-> lua.held,
                default |-> [lua.default EXCEPT ![f] =
                               IF o.handle = NoHandle THEN lua.default[f] ELSE o.handle]]
    BY <1>1, <2>3, <2>4
  <2>7. o.handle = NoHandle => lua'.default = lua.default  BY <2>5, <2>6
  <2>8. o.handle # NoHandle => lua'.default = [lua.default EXCEPT ![f] = o.handle]  BY <2>6
  <2>9. /\ lua' = [file |-> o.file, held |-> lua'.held, default |-> lua'.default]
        /\ lua'.held \subseteq lua.held \union ({o.handle} \ {NoHandle})
    BY <2>6
  <2>10. \/ lua'.default = lua.default
         \/ \E g \in 1 .. 2 : o.handle # NoHandle /\ lua'.default = [lua.default EXCEPT ![g] = o.handle]
    BY <2>5, <2>7, <2>8
  <2> QED  BY <2>3, <2>4, <2>9, <2>10, OpenKept
<1> QED  BY <1>2, <1>3, <1>4

(* What does not open or close: the program only comes to have, or to do   *)
(* without, handles that there are.                                        *)
LEMMA OthersKept ==
  ASSUME IInv, \/ io_popen \/ RemoveFile
               \/ \E f \in {IO_INPUT, IO_OUTPUT}, h \in 1 .. MaxHandle : SetDefault(f, h)
               \/ \E h \in 1 .. MaxHandle : f_lines(h) \/ Forget(h)
  PROVE  IInv'
<1> USE FilesAssumption DEF IO_INPUT, IO_OUTPUT
<1>1. running /\ Session /\ UNCHANGED <<running, std, history>>
  BY DEF IInv, io_popen, RemoveFile, SetDefault, f_lines, Forget
<1>2. lua = [file |-> lua.file, held |-> lua.held, default |-> lua.default]
      /\ lua.held \subseteq DOMAIN lua.file /\ lua.default \in [1 .. 2 -> DOMAIN lua.file]
  BY <1>1 DEF Session, HandlesIn
<1>3. CASE io_popen
  <2>2. PICK h \in newfile : lua' = [lua EXCEPT !.file = With(lua.file, h, NULL)] /\ io' = io
    BY <1>3 DEF io_popen
  <2>3. h \in 1 .. MaxHandle /\ h \notin DOMAIN lua.file  BY newfileIn
  <2>4. PICK f : f = With(lua.file, h, NULL)  OBVIOUS
  <2>5. /\ f \in [DOMAIN lua.file \union {h} -> Blocks \union {NULL}]
        /\ f[h] = NULL /\ \A g \in DOMAIN lua.file : f[g] = lua.file[g]
    BY <2>3, <2>4, <1>1 DEF With, Session, Owned
  <2>6. DOMAIN f = DOMAIN lua.file \union {h}  BY <2>5
  <2>7. Owned(io, std, f)  BY <2>5, <2>6, <1>1 DEF Owned, Session
  <2>8. lua' = [file |-> f, held |-> lua.held, default |-> lua.default]  BY <2>2, <2>4, <1>2
  <2>9. HandlesIn(lua')
    <3>1. lua.default \in [1 .. 2 -> DOMAIN f] /\ lua.held \subseteq DOMAIN f
      BY <1>2, <2>6
    <3>2. DOMAIN f \subseteq 1 .. MaxHandle  BY <2>3, <2>6, <1>1 DEF Session, HandlesIn
    <3> QED  BY <2>8, <3>1, <3>2 DEF HandlesIn
  <2>10. Streams(io', std') /\ Owned(io', std', lua'.file) /\ StdInv'
    BY <1>1, <2>2, <2>7, <2>8 DEF Session, StdInv, history
  <2>11. Session'  BY <2>9, <2>10 DEF Session
  <2> QED  BY <2>11, <1>1 DEF IInv, history
<1>4. CASE RemoveFile
  <2>1. Len(<<"r">>) = 1  OBVIOUS
  <2>2. fopen(io, <<"r">>) = {[io |-> io, file |-> NULL]}
    BY <2>1 DEF fopen, ModeAccepted
  <2>3. io' = fclose_all(io, {NULL})
    <3>1. io' \in remove(io)  BY <1>4 DEF RemoveFile
    <3>2. PICK r \in fopen(io, <<"r">>) : io' = fclose(r.io, r.file)  BY <3>1 DEF remove
    <3> QED  BY <3>2, <2>2 DEF fclose
  <2>4. PICK as : as = {NULL}  OBVIOUS
  <2>5. io' = fclose_all(io, as)  BY <2>3, <2>4
  <2>6. /\ Streams(io', std) /\ DOMAIN io'.files = DOMAIN io.files \ as
        /\ \A a \in DOMAIN io'.files : io'.files[a] = io.files[a]
    <3>1. Streams(io, std)  BY <1>1 DEF Session
    <3>2. PICK t : t = fclose_all(io, as)  OBVIOUS
    <3>3. Streams(t, std) /\ Shrunk(io, t, as)  BY <3>1, <3>2, Closing
    <3> QED  BY <2>5, <3>2, <3>3 DEF Shrunk
  <2>7. NULL \notin DOMAIN io.files  BY <1>1 DEF Session, Streams
  <2>8. DOMAIN io'.files = DOMAIN io.files  BY <2>4, <2>6, <2>7
  <2>9. lua' = lua  BY <1>4 DEF RemoveFile
  <2>10. Owned(io', std', lua'.file)  BY <2>8, <2>9, <1>1 DEF Owned, Session
  <2>11. StdInv'  BY <1>1, <2>6, <2>8, StdKept DEF Session, history
  <2>12. Session'  BY <2>6, <2>9, <2>10, <2>11, <1>1 DEF Session
  <2> QED  BY <2>12, <1>1 DEF IInv, history
<1>5. CASE \E f \in {IO_INPUT, IO_OUTPUT}, h \in 1 .. MaxHandle : SetDefault(f, h)
  <2>1. PICK f \in 1 .. 2, h \in lua.held : lua' = [lua EXCEPT !.default[f] = h] /\ io' = io
    BY <1>5 DEF SetDefault
  <2>2. lua' = [file |-> lua.file, held |-> lua.held, default |-> [lua.default EXCEPT ![f] = h]]
    BY <2>1, <1>2
  <2>3. HandlesIn(lua') /\ lua'.file = lua.file
    BY <2>1, <2>2, <1>1, <1>2 DEF HandlesIn, Session
  <2>4. Session'  BY <2>1, <2>3, <1>1 DEF Session, StdInv, history
  <2> QED  BY <2>4, <1>1 DEF IInv, history
<1>6. CASE \E h \in 1 .. MaxHandle : f_lines(h) \/ Forget(h)
  <2>1. PICK held \in SUBSET DOMAIN lua.file : lua' = [lua EXCEPT !.held = held] /\ io' = io
    <3>1. PICK h \in 1 .. MaxHandle : f_lines(h) \/ Forget(h)  BY <1>6
    <3>2. CASE f_lines(h)
      <4>1. lua.held \union {h} \in SUBSET DOMAIN lua.file  BY <3>2, <1>2 DEF f_lines
      <4> QED  BY <3>2, <4>1 DEF f_lines
    <3>3. CASE Forget(h)
      <4>1. lua.held \ {h} \in SUBSET DOMAIN lua.file  BY <1>2
      <4> QED  BY <3>3, <4>1 DEF Forget
    <3> QED  BY <3>1, <3>2, <3>3
  <2>2. lua' = [file |-> lua.file, held |-> held, default |-> lua.default]  BY <2>1, <1>2
  <2>3. HandlesIn(lua') /\ lua'.file = lua.file
    BY <2>1, <2>2, <1>1, <1>2 DEF HandlesIn, Session
  <2>4. Session'  BY <2>1, <2>3, <1>1 DEF Session, StdInv, history
  <2> QED  BY <2>4, <1>1 DEF IInv, history
<1> QED  BY <1>3, <1>4, <1>5, <1>6

(* A use of an open handle finds its FILE; a use of a standard FILE does   *)
(* as long as nothing has closed one.                                      *)
LEMMA UsesKept ==
  ASSUME IInv, \/ \E h \in 1 .. MaxHandle : g_read(h) \/ g_write(h) \/ f_seek(h) \/ f_flush(h)
               \/ luaB_print \/ db_debug \/ InputTest
  PROVE  IInv'
<1>1. running /\ UNCHANGED <<running, std, io, lua, causes, unbalanced>>
  BY DEF g_read, g_write, f_seek, f_flush, luaB_print, db_debug, InputTest, Use, UseStandard
<1>2. Session /\ Session'  BY <1>1 DEF IInv, Session, StdInv
<1>3. ASSUME NEW h \in Reachable, lua.file[h] # NULL PROVE Live(io, lua.file[h], Kinds)
  <2>1. h \in DOMAIN lua.file
    BY <1>2, <1>3 DEF Session, HandlesIn, Reachable, ToSet
  <2>2. lua.file[h] \in DOMAIN io.files  BY <2>1, <1>2, <1>3 DEF Session, Owned
  <2> QED  BY <2>2, <1>2 DEF Live, Session, Streams, FileIn
<1>4. ASSUME causes = {}, NEW i \in 1 .. 3
      PROVE  Live(io, std[i], {Standard[i]}) /\ Live(io, std[i], Kinds)
  <2>1. Live(io, std[i], {Standard[i]})  BY <1>2, <1>4 DEF Session, StdInv
  <2> QED  BY <2>1, <1>2 DEF Live, Session, Streams, FileIn
<1>5. misused' /\ ~misused => causes # {}
  <2>1. ASSUME misused', ~misused,
               \E h \in 1 .. MaxHandle : g_read(h) \/ g_write(h) \/ f_seek(h) \/ f_flush(h)
        PROVE  FALSE
    <3>1. PICK h \in Reachable : lua.file[h] # NULL /\ ~Live(io, lua.file[h], Kinds)
      BY <2>1 DEF g_read, g_write, f_seek, f_flush, Use, fgets, fwrite, fseek, fflush
    <3> QED  BY <3>1, <1>3
  <2>2. ASSUME misused', ~misused, luaB_print \/ db_debug \/ InputTest PROVE causes # {}
    <3>1. PICK i \in 1 .. 3 : ~Live(io, std[i], Kinds) \/ ~Live(io, std[i], {Standard[i]})
      <4>1. CASE luaB_print
        <5>1. ~Live(io, std[2], Kinds) \/ ~Live(io, std[2], {Standard[2]})
          BY <2>2, <4>1 DEF luaB_print, UseStandard, fwrite
        <5> QED  BY <5>1
      <4>2. CASE db_debug
        <5>1. ~Live(io, std[3], Kinds) \/ ~Live(io, std[3], {Standard[3]})
          BY <2>2, <4>2 DEF db_debug, UseStandard, fwrite
        <5> QED  BY <5>1
      <4>3. CASE InputTest
        <5>1. ~Live(io, std[1], Kinds) \/ ~Live(io, std[1], {Standard[1]})
          BY <2>2, <4>3 DEF InputTest, UseStandard, fgets
        <5> QED  BY <5>1
      <4> QED  BY <2>2, <4>1, <4>2, <4>3
    <3> QED  BY <3>1, <1>4
  <2> QED  BY <2>1, <2>2
<1> QED  BY <1>1, <1>2, <1>5 DEF IInv

(* io_close: of a standard FILE it is a cause; of another it takes the     *)
(* FILE away from the only handle that has it.                             *)
LEMMA io_closeKept ==
  ASSUME IInv, NEW h \in 1 .. MaxHandle, io_close(h)
  PROVE  IInv'
<1> USE FilesAssumption DEF IO_OUTPUT
<1>1. running /\ Session /\ UNCHANGED <<running, std, unbalanced>>  BY DEF IInv, io_close
<1>2. h \in DOMAIN lua.file /\ lua.file[h] # NULL
  <2>1. h \in lua.held \union {lua.default[IO_OUTPUT]} /\ lua.file[h] # NULL  BY DEF io_close
  <2>2. lua.held \subseteq DOMAIN lua.file /\ lua.default \in [1 .. 2 -> DOMAIN lua.file]
    BY <1>1 DEF Session, HandlesIn
  <2> QED  BY <2>1, <2>2
<1>3. PICK a \in Blocks : a = lua.file[h]  BY <1>1, <1>2 DEF Session, Owned
<1>4. Streams(io, std) /\ a \in DOMAIN io.files /\ \A g \in DOMAIN lua.file : lua.file[g] = a => g = h
  BY <1>1, <1>2, <1>3 DEF Session, Owned
<1>5. PICK as : as = {a}  OBVIOUS
<1>6. io' = fclose_all(io, as) /\ lua' = [lua EXCEPT !.file[h] = NULL]
  BY <1>3, <1>5 DEF io_close, io_fclose, fclose
<1>7. /\ Streams(io', std) /\ DOMAIN io'.files = DOMAIN io.files \ as
      /\ \A b \in DOMAIN io'.files : io'.files[b] = io.files[b]
  <2>1. PICK t : t = fclose_all(io, as)  OBVIOUS
  <2>2. Streams(t, std) /\ Shrunk(io, t, as)  BY <2>1, <1>4, Closing
  <2> QED  BY <2>1, <2>2, <1>6 DEF Shrunk
<1>8. PICK f : f = [lua.file EXCEPT ![h] = NULL]  OBVIOUS
<1>9. lua' = [file |-> f, held |-> lua.held, default |-> lua.default]
  BY <1>1, <1>6, <1>8 DEF Session, HandlesIn
<1>10. /\ f \in [DOMAIN lua.file -> Blocks \union {NULL}] /\ DOMAIN f = DOMAIN lua.file
       /\ f[h] = NULL /\ \A g \in DOMAIN lua.file \ {h} : f[g] = lua.file[g]
  BY <1>1, <1>2, <1>8 DEF Session, Owned
<1>11. HandlesIn(lua')  BY <1>1, <1>9, <1>10 DEF Session, HandlesIn
<1>12. Owned(io', std, f)
  <2>1. ASSUME NEW g \in DOMAIN f, f[g] # NULL
        PROVE  f[g] \in DOMAIN io'.files /\ \A k \in DOMAIN f : f[k] = f[g] => k = g
    <3>1. g # h /\ f[g] = lua.file[g] /\ g \in DOMAIN lua.file  BY <1>10, <2>1
    <3>2. f[g] \in DOMAIN io.files /\ \A k \in DOMAIN lua.file : lua.file[k] = f[g] => k = g
      BY <3>1, <2>1, <1>1 DEF Session, Owned
    <3>3. f[g] # a  BY <3>1, <1>4
    <3>4. ASSUME NEW k \in DOMAIN f, f[k] = f[g] PROVE k = g
      BY <3>2, <3>4, <2>1, <1>10
    <3> QED  BY <3>2, <3>3, <3>4, <1>5, <1>7
  <2>2. ASSUME NEW b \in DOMAIN io'.files \ ToSet(std) PROVE \E g \in DOMAIN f : f[g] = b
    <3>1. b \in DOMAIN io.files \ ToSet(std) /\ b # a  BY <2>2, <1>5, <1>7
    <3>2. PICK g \in DOMAIN lua.file : lua.file[g] = b  BY <3>1, <1>1 DEF Session, Owned
    <3> QED  BY <3>1, <3>2, <1>3, <1>10
  <2> QED  BY <1>10, <2>1, <2>2 DEF Owned
<1>13. StdInv' /\ (misused' => causes' # {})
  <2>1. causes' = IF a \in ToSet(std) THEN causes \union {"standard file closed"} ELSE causes
    BY <1>3 DEF io_close
  <2>2. Live(io, a, Kinds)  BY <1>4 DEF Live, Streams, FileIn
  <2>3. misused' => causes' # {}
    BY <2>1, <2>2, <1>3 DEF io_close, fflush, IInv
  <2>4. causes' = {} => \A i \in 1 .. 3 : Live(io', std[i], {Standard[i]})
    <3>1. SUFFICES ASSUME causes' = {}, NEW i \in 1 .. 3 PROVE Live(io', std[i], {Standard[i]})
      OBVIOUS
    <3>2. a \notin ToSet(std) /\ causes = {}  BY <2>1, <3>1
    <3>3. std \in [1 .. 3 -> Blocks \union {NULL}] /\ Live(io, std[i], {Standard[i]})
      BY <3>2, <1>1 DEF Session, StdInv
    <3>4. std[i] # a  BY <3>2, <3>3 DEF ToSet
    <3> QED  BY <3>3, <3>4, <1>5, <1>7 DEF Live
  <2> QED  BY <2>3, <2>4, <1>1 DEF StdInv, Session
<1>14. Session'  BY <1>1, <1>7, <1>9, <1>11, <1>12, <1>13 DEF Session
<1> QED  BY <1>1, <1>13, <1>14 DEF IInv

(* The collector finalizes a handle that nothing has. *)
LEMMA CollectKept ==
  ASSUME IInv, NEW h \in 1 .. MaxHandle, Collect(h)
  PROVE  IInv'
<1> USE FilesAssumption
<1>1. running /\ Session /\ UNCHANGED <<running, std, misused, causes, unbalanced>>
  BY DEF IInv, Collect, history
<1>2. /\ Streams(io, std) /\ h \in DOMAIN lua.file
      /\ h \notin lua.held /\ \A i \in 1 .. 2 : lua.default[i] # h
  BY <1>1 DEF Collect, Session, HandlesIn, Reachable, ToSet
<1>3. PICK as : as = {lua.file[h]} \ ({NULL} \union ToSet(std))  OBVIOUS
<1>4. io' = fclose_all(io, as) /\ lua' = [lua EXCEPT !.file = Except(lua.file, h)]
  BY <1>3 DEF Collect, io_gc
<1>5. /\ Streams(io', std) /\ DOMAIN io'.files = DOMAIN io.files \ as
      /\ \A b \in DOMAIN io'.files : io'.files[b] = io.files[b]
  <2>1. PICK t : t = fclose_all(io, as)  OBVIOUS
  <2>2. Streams(t, std) /\ Shrunk(io, t, as)  BY <2>1, <1>2, Closing
  <2> QED  BY <2>1, <2>2, <1>4 DEF Shrunk
<1>6. PICK f : f = Except(lua.file, h)  OBVIOUS
<1>7. lua' = [file |-> f, held |-> lua.held, default |-> lua.default]
  BY <1>1, <1>4, <1>6 DEF Session, HandlesIn
<1>8. /\ f \in [DOMAIN lua.file \ {h} -> Blocks \union {NULL}] /\ DOMAIN f = DOMAIN lua.file \ {h}
      /\ \A g \in DOMAIN f : f[g] = lua.file[g]
  BY <1>1, <1>6 DEF Except, Session, Owned
<1>9. HandlesIn(lua')  BY <1>1, <1>2, <1>7, <1>8 DEF Session, HandlesIn
<1>10. Owned(io', std, f)
  <2>1. ASSUME NEW g \in DOMAIN f, f[g] # NULL
        PROVE  f[g] \in DOMAIN io'.files /\ \A k \in DOMAIN f : f[k] = f[g] => k = g
    <3>1. g # h /\ f[g] = lua.file[g] /\ g \in DOMAIN lua.file  BY <1>8, <2>1
    <3>2. f[g] \in DOMAIN io.files /\ \A k \in DOMAIN lua.file : lua.file[k] = f[g] => k = g
      BY <3>1, <2>1, <1>1 DEF Session, Owned
    <3>3. f[g] \notin as  BY <3>1, <3>2, <1>2, <1>3
    <3> QED  BY <3>2, <3>3, <1>5, <1>8
  <2>2. ASSUME NEW b \in DOMAIN io'.files \ ToSet(std) PROVE \E g \in DOMAIN f : f[g] = b
    <3>1. b \in DOMAIN io.files \ ToSet(std) /\ b \notin as  BY <2>2, <1>5
    <3>2. PICK g \in DOMAIN lua.file : lua.file[g] = b  BY <3>1, <1>1 DEF Session, Owned
    <3>3. b # NULL  BY <3>1, <1>2 DEF Streams
    <3>4. g # h  BY <3>1, <3>2, <3>3, <1>3
    <3> QED  BY <3>2, <3>4, <1>8
  <2> QED  BY <1>8, <2>1, <2>2 DEF Owned
<1>11. StdInv'
  <2>1. causes = {} => \A i \in 1 .. 3 : Live(io', std[i], {Standard[i]})
    <3>1. SUFFICES ASSUME causes = {}, NEW i \in 1 .. 3 PROVE Live(io', std[i], {Standard[i]})
      OBVIOUS
    <3>2. std \in [1 .. 3 -> Blocks \union {NULL}] /\ Live(io, std[i], {Standard[i]})
      BY <3>1, <1>1 DEF Session, StdInv
    <3>3. std[i] \notin as  BY <3>2, <1>3 DEF ToSet
    <3> QED  BY <3>2, <3>3, <1>5 DEF Live
  <2> QED  BY <2>1, <1>1 DEF StdInv, Session
<1>12. Session'  BY <1>1, <1>5, <1>7, <1>9, <1>10, <1>11 DEF Session
<1> QED  BY <1>1, <1>12 DEF IInv

-----------------------------------------------------------------------------
(* init_fileio after n of its FILEs. *)
MadeUpTo(s, n) ==
  /\ s = [std |-> s.std, io |-> s.io, ok |-> TRUE]
  /\ s.io = [files |-> s.io.files, open |-> {}, lost |-> {}]
  /\ s.std \in [1 .. 3 -> Blocks \union {NULL}]
  /\ s.io.files \in [DOMAIN s.io.files -> FileIn]
  /\ DOMAIN s.io.files = {s.std[j] : j \in 1 .. n}
  /\ \A j \in 1 .. 3 : IF j \in 1 .. n
       THEN s.std[j] \in Blocks /\ s.io.files[s.std[j]] = File(Standard[j], NULL)
       ELSE s.std[j] = NULL
  /\ \A j, k \in 1 .. n : s.std[j] = s.std[k] => j = k

LEMMA StandardKinds == \A i \in 1 .. 3 : Standard[i] \in Kinds \ {"file"}
<1>1. Standard \in [1 .. 3 -> {"stdin", "stdout", "stderr"}]  BY DEF Standard
<1>2. DOMAIN Standard = 1 .. 3  BY <1>1
<1>3. \A i \in 1 .. 3 : Standard[i] \in ToSet(Standard)  BY <1>2 DEF ToSet
<1>4. \A i \in 1 .. 3 : Standard[i] # "file"  BY <1>1
<1> QED  BY <1>3, <1>4 DEF Kinds

LEMMA MadeNext ==
  ASSUME NEW n \in 0 .. 2, NEW s, MadeUpTo(s, n), NEW t \in Made(s, n + 1)
  PROVE  MadeUpTo(t, n + 1)
<1> USE FilesAssumption
<1>1. PICK i \in 1 .. 3 : i = n + 1  OBVIOUS
<1>2. PICK a \in malloc(s.io) \ {NULL} :
        t = [std |-> [s.std EXCEPT ![i] = a], ok |-> TRUE,
             io |-> [s.io EXCEPT !.files = With(s.io.files, a, File(Standard[i], NULL))]]
  BY <1>1 DEF Made
<1>3. a \in Blocks /\ a # NULL /\ a \notin DOMAIN s.io.files  BY <1>2 DEF malloc
<1>4. PICK f : f = With(s.io.files, a, File(Standard[i], NULL))  OBVIOUS
<1>5. PICK vs : vs = [s.std EXCEPT ![i] = a]  OBVIOUS
<1>6. /\ t.std = vs /\ t.ok = TRUE /\ t.io = [files |-> f, open |-> {}, lost |-> {}]
      /\ t = [std |-> t.std, io |-> t.io, ok |-> TRUE]
  BY <1>2, <1>4, <1>5, SMTT(60) DEF MadeUpTo
<1>7. t.io.files = f /\ t.io = [files |-> t.io.files, open |-> {}, lost |-> {}]  BY <1>6
<1>8. File(Standard[i], NULL) \in FileIn  BY StandardKinds DEF File, FileIn
<1>9. /\ f \in [DOMAIN s.io.files \union {a} -> FileIn]
      /\ f[a] = File(Standard[i], NULL)
      /\ \A b \in DOMAIN s.io.files : f[b] = s.io.files[b]
  BY <1>3, <1>4, <1>8 DEF With, MadeUpTo
<1>10. /\ vs \in [1 .. 3 -> Blocks \union {NULL}] /\ vs[i] = a
       /\ \A j \in 1 .. 3 : j # i => vs[j] = s.std[j]
  BY <1>3, <1>5 DEF MadeUpTo
<1>11. 1 .. n + 1 = 1 .. n \union {i} /\ i \notin 1 .. n /\ 1 .. n \subseteq 1 .. 3  BY <1>1
<1>12. DOMAIN f = {vs[j] : j \in 1 .. n + 1}
  <2>1. DOMAIN f = {s.std[j] : j \in 1 .. n} \union {a}  BY <1>9 DEF MadeUpTo
  <2>2. \A j \in 1 .. n : vs[j] = s.std[j]  BY <1>10, <1>11
  <2> QED  BY <2>1, <2>2, <1>10, <1>11
<1>13. \A j \in 1 .. 3 : IF j \in 1 .. n + 1
         THEN vs[j] \in Blocks /\ f[vs[j]] = File(Standard[j], NULL)
         ELSE vs[j] = NULL
  <2>1. ASSUME NEW j \in 1 .. n
        PROVE  vs[j] \in Blocks /\ f[vs[j]] = File(Standard[j], NULL)
    <3>1. j \in 1 .. 3 /\ j # i /\ vs[j] = s.std[j]  BY <1>10, <1>11
    <3>2. s.std[j] \in DOMAIN s.io.files /\ s.std[j] \in Blocks
          /\ s.io.files[s.std[j]] = File(Standard[j], NULL)
      BY <3>1 DEF MadeUpTo
    <3> QED  BY <3>1, <3>2, <1>9
  <2>2. vs[i] \in Blocks /\ f[vs[i]] = File(Standard[i], NULL)  BY <1>3, <1>9, <1>10
  <2>3. ASSUME NEW j \in 1 .. 3, j \notin 1 .. n + 1 PROVE vs[j] = NULL
    <3>1. j \notin 1 .. n /\ j # i  BY <2>3, <1>11
    <3> QED  BY <3>1, <1>10 DEF MadeUpTo
  <2> QED  BY <2>1, <2>2, <2>3, <1>11
<1>14. \A j, k \in 1 .. n + 1 : vs[j] = vs[k] => j = k
  <2>1. \A j \in 1 .. n : vs[j] = s.std[j] /\ s.std[j] \in DOMAIN s.io.files
    BY <1>10, <1>11 DEF MadeUpTo
  <2>2. \A j, k \in 1 .. n : vs[j] = vs[k] => j = k  BY <2>1 DEF MadeUpTo
  <2> QED  BY <2>1, <2>2, <1>3, <1>10, <1>11
<1>15. f \in [DOMAIN f -> FileIn]  BY <1>9
<1> QED  BY <1>6, <1>7, <1>10, <1>12, <1>13, <1>14, <1>15 DEF MadeUpTo

(* The FILEs made before one that cannot be had are closed again. *)
LEMMA NotMadeEmpty ==
  ASSUME NEW n \in 0 .. 2, NEW s, MadeUpTo(s, n), NEW t, t = NotMade(s, n + 1)
  PROVE  DOMAIN t.io.files = {} /\ t.ok = FALSE
<1>1. PICK as : as = {s.std[j] : j \in 1 .. (n + 1) - 1}  OBVIOUS
<1>2. (n + 1) - 1 = n  OBVIOUS
<1>3. as = DOMAIN s.io.files  BY <1>1, <1>2 DEF MadeUpTo
<1>4. t.ok = FALSE /\ t.io = fclose_all(s.io, as)  BY <1>1 DEF NotMade
<1>5. DOMAIN s.io.files \ (as \intersect DOMAIN s.io.files) = {}  BY <1>3
<1>6. s.io = [files |-> s.io.files, open |-> {}, lost |-> {}]  BY DEF MadeUpTo
<1>7. t.io.files = [a \in DOMAIN s.io.files \ (as \intersect DOMAIN s.io.files) |-> s.io.files[a]]
  BY <1>4, <1>6 DEF fclose_all
<1> QED  BY <1>4, <1>5, <1>7

LEMMA Startup ==
  ASSUME NEW s \in init_fileio
  PROVE  IF s.ok THEN MadeUpTo(s, 3) ELSE DOMAIN s.io.files = {}
<1> DEFINE one == [std |-> NoStd, io |-> NoFiles, ok |-> TRUE]
           first == Made(one, 1)
           second == UNION {Made(r, 2) : r \in first}
           third == UNION {Made(r, 3) : r \in second}
<1>1. MadeUpTo(one, 0)
  <2>1. NoStd \in [1 .. 3 -> Blocks \union {NULL}] /\ \A j \in 1 .. 3 : NoStd[j] = NULL
    BY DEF NoStd
  <2>2. DOMAIN <<>> = {} /\ <<>> \in [DOMAIN <<>> -> FileIn]  OBVIOUS
  <2>3. 1 .. 0 = {}  OBVIOUS
  <2> QED  BY <2>1, <2>2, <2>3 DEF MadeUpTo, NoFiles
<1>2. s \in third \union {NotMade(one, 1)} \union {NotMade(r, 2) : r \in first}
             \union {NotMade(r, 3) : r \in second}
  BY DEF init_fileio
<1> HIDE DEF one
<1>3. \A r \in first : MadeUpTo(r, 1)
  <2>1. 0 \in 0 .. 2 /\ 0 + 1 = 1  OBVIOUS
  <2> QED  BY <1>1, <2>1, MadeNext
<1>4. \A r \in second : MadeUpTo(r, 2)
  <2>1. 1 \in 0 .. 2 /\ 1 + 1 = 2  OBVIOUS
  <2> QED  BY <1>3, <2>1, MadeNext
<1>5. \A r \in third : MadeUpTo(r, 3)
  <2>1. 2 \in 0 .. 2 /\ 2 + 1 = 3  OBVIOUS
  <2> QED  BY <1>4, <2>1, MadeNext
<1>6. CASE s \in third
  <2>1. MadeUpTo(s, 3)  BY <1>5, <1>6
  <2>2. s.ok = TRUE  BY <2>1 DEF MadeUpTo
  <2> QED  BY <2>1, <2>2
<1>7. CASE s = NotMade(one, 1)
  <2>1. 0 \in 0 .. 2 /\ 0 + 1 = 1  OBVIOUS
  <2> QED  BY <1>1, <1>7, <2>1, NotMadeEmpty
<1>8. ASSUME NEW r \in first, s = NotMade(r, 2) PROVE ~s.ok /\ DOMAIN s.io.files = {}
  <2>1. 1 \in 0 .. 2 /\ 1 + 1 = 2  OBVIOUS
  <2> QED  BY <1>3, <1>8, <2>1, NotMadeEmpty
<1>9. ASSUME NEW r \in second, s = NotMade(r, 3) PROVE ~s.ok /\ DOMAIN s.io.files = {}
  <2>1. 2 \in 0 .. 2 /\ 2 + 1 = 3  OBVIOUS
  <2> QED  BY <1>4, <1>9, <2>1, NotMadeEmpty
<1> QED  BY <1>2, <1>6, <1>7, <1>8, <1>9

-----------------------------------------------------------------------------
(* osglue_done, when everything that is left is at a standard address. *)
LEMMA NoneLeft ==
  ASSUME NEW s, NEW vs, DOMAIN s.files \subseteq ToSet(vs),
         s = [files |-> s.files, open |-> s.open, lost |-> s.lost]
  PROVE  DOMAIN osglue_done(s, vs).files = {}
<1>1. PICK as : as = ToSet(vs)  OBVIOUS
<1>2. PICK t : t = fclose_all(s, as)  OBVIOUS
<1>3. osglue_done(s, vs) = t  BY <1>1, <1>2 DEF osglue_done, done_fileio
<1>4. DOMAIN s.files \ (as \intersect DOMAIN s.files) = {}  BY <1>1
<1>5. t.files = [a \in DOMAIN s.files \ (as \intersect DOMAIN s.files) |-> s.files[a]]
  BY <1>2 DEF fclose_all
<1> QED  BY <1>3, <1>4, <1>5

LEMMA EndKept ==
  ASSUME NEW s, NEW vs, Ended(s, vs), DOMAIN osglue_done(s, vs).files = {},
         Stale(s, vs) \/ (running /\ misused) => causes' # {}
  PROVE  IInv'
BY DEF Ended, IInv, Idle

(* The session begins with what init_fileio has made. *)
LEMMA BeginKept ==
  ASSUME NEW s, Began(s), Streams(s.io, s.std), Owned(s.io, s.std, s.std),
         s.std \in [1 .. 3 -> Blocks \union {NULL}],
         causes' = {} => \A i \in 1 .. 3 : Live(s.io, s.std[i], {Standard[i]})
  PROVE  IInv'
<1> USE FilesAssumption
<1>1. /\ running' = TRUE /\ misused' = FALSE /\ unbalanced' = FALSE
      /\ std' = s.std /\ io' = s.io
      /\ lua' = [file |-> s.std, held |-> {1, 2, 3}, default |-> <<1, 2>>]
  BY DEF Began, luaopen_io
<1>2. DOMAIN s.std = 1 .. 3 /\ lua'.file = s.std  BY <1>1
<1>3. 1 .. 3 \subseteq 1 .. MaxHandle /\ {1, 2, 3} \subseteq 1 .. 3  OBVIOUS
<1>4. <<1, 2>> \in [1 .. 2 -> 1 .. 3]  OBVIOUS
<1>5. HandlesIn(lua')  BY <1>1, <1>2, <1>3, <1>4 DEF HandlesIn
<1>6. StdInv'  BY <1>1 DEF StdInv
<1>7. Streams(io', std') /\ Owned(io', std', lua'.file)  BY <1>1, <1>2
<1>8. Session'  BY <1>5, <1>6, <1>7 DEF Session
<1> QED  BY <1>1, <1>8 DEF IInv

LEMMA StartedWell ==
  ASSUME NEW s, MadeUpTo(s, 3)
  PROVE  /\ Streams(s.io, s.std) /\ Owned(s.io, s.std, s.std)
         /\ s.std \in [1 .. 3 -> Blocks \union {NULL}]
         /\ \A i \in 1 .. 3 : Live(s.io, s.std[i], {Standard[i]})
         /\ DOMAIN s.io.files \subseteq ToSet(s.std)
<1> USE FilesAssumption
<1>1. PICK f : f = s.io.files  OBVIOUS
<1>2. /\ s.io = [files |-> f, open |-> {}, lost |-> {}]
      /\ s.std \in [1 .. 3 -> Blocks \union {NULL}]
      /\ f \in [DOMAIN f -> FileIn]
      /\ DOMAIN f = {s.std[j] : j \in 1 .. 3}
      /\ \A j \in 1 .. 3 : s.std[j] \in Blocks /\ f[s.std[j]] = File(Standard[j], NULL)
      /\ \A j, k \in 1 .. 3 : s.std[j] = s.std[k] => j = k
  BY <1>1 DEF MadeUpTo
<1>3. DOMAIN f = ToSet(s.std)  BY <1>2 DEF ToSet
<1>4. \A i \in 1 .. 3 : Live(s.io, s.std[i], {Standard[i]})
  BY <1>1, <1>2 DEF Live, File
<1>5. \A a \in DOMAIN f : f[a].hand = NULL /\ f[a].kind # "file" /\ a \in Blocks
  BY <1>2, StandardKinds DEF File
<1>6. {f[a].hand : a \in DOMAIN f} \ {NULL} = {}  BY <1>5
<1>7. Streams(s.io, s.std)
  <2>1. s.io.files = f /\ s.io.open = {} /\ s.io.lost = {}  BY <1>2
  <2>2. s.io = [files |-> s.io.files, open |-> s.io.open, lost |-> s.io.lost]  BY <1>2
  <2> QED  BY <2>1, <2>2, <1>2, <1>3, <1>5, <1>6 DEF Streams
<1>8. Owned(s.io, s.std, s.std)  BY <1>1, <1>2, <1>3 DEF Owned
<1> QED  BY <1>1, <1>2, <1>3, <1>4, <1>7, <1>8

LEMMA StaleNot ==
  ASSUME NEW s, NEW vs, \A i \in 1 .. 3 : Live(s, vs[i], {Standard[i]})
  PROVE  ~Stale(s, vs)
BY DEF Stale

LEMMA LaunchesKept ==
  ASSUME IInv, Launch \/ LaunchFailsInFiles \/ LaunchWithoutLibrary
  PROVE  IInv'
<1> USE FilesAssumption
<1>0. ~running  BY DEF Launch, LaunchFailsInFiles, LaunchWithoutLibrary
<1>1. CASE Launch
  <2>1. PICK s \in init_fileio : s.ok /\ (Began(s) \/ Ended(s.io, s.std)) /\ causes' = {}
    BY <1>1 DEF Launch
  <2>2. MadeUpTo(s, 3)  BY <2>1, Startup
  <2>3. /\ Streams(s.io, s.std) /\ Owned(s.io, s.std, s.std)
        /\ s.std \in [1 .. 3 -> Blocks \union {NULL}]
        /\ \A i \in 1 .. 3 : Live(s.io, s.std[i], {Standard[i]})
        /\ DOMAIN s.io.files \subseteq ToSet(s.std)
    BY <2>2, StartedWell
  <2>4. CASE Began(s)  BY <2>3, <2>4, BeginKept
  <2>5. CASE Ended(s.io, s.std)
    <3>1. ~Stale(s.io, s.std)  BY <2>3, StaleNot
    <3>2. s.io = [files |-> s.io.files, open |-> s.io.open, lost |-> s.io.lost]
      BY <2>3 DEF Streams
    <3>3. DOMAIN osglue_done(s.io, s.std).files = {}  BY <2>3, <3>2, NoneLeft
    <3> QED  BY <2>5, <3>1, <3>3, <1>0, EndKept
  <2> QED  BY <2>1, <2>4, <2>5
<1>2. CASE LaunchFailsInFiles
  <2>1. PICK s \in init_fileio :
          /\ ~s.ok /\ Ended(s.io, s.std)
          /\ causes' = IF s.std = NoStd THEN {} ELSE {"standard file not made"}
    BY <1>2 DEF LaunchFailsInFiles
  <2>2. DOMAIN s.io.files = {}  BY <2>1, Startup
  <2>3. Stale(s.io, s.std) => causes' # {}
    <3>1. ASSUME Stale(s.io, s.std), s.std = NoStd PROVE FALSE  BY <3>1 DEF Stale, NoStd
    <3> QED  BY <3>1, <2>1
  <2>4. DOMAIN osglue_done(s.io, s.std).files = {}
    <3>1. PICK as : as = ToSet(s.std)  OBVIOUS
    <3>2. PICK t : t = fclose_all(s.io, as)  OBVIOUS
    <3>3. t.files = [a \in DOMAIN s.io.files \ (as \intersect DOMAIN s.io.files) |-> s.io.files[a]]
      BY <3>2 DEF fclose_all
    <3> QED  BY <3>1, <3>2, <3>3, <2>2 DEF osglue_done, done_fileio
  <2> QED  BY <2>1, <2>3, <2>4, <1>0, EndKept
<1>3. CASE LaunchWithoutLibrary
  <2>1. DOMAIN NoFiles.files = {} /\ NoFiles.open = {} /\ NoFiles.lost = {}
        /\ NoFiles = [files |-> NoFiles.files, open |-> NoFiles.open, lost |-> NoFiles.lost]
        /\ NoFiles.files \in [DOMAIN NoFiles.files -> FileIn]
    <3>1. DOMAIN <<>> = {} /\ <<>> \in [DOMAIN <<>> -> FileIn]  OBVIOUS
    <3> QED  BY <3>1 DEF NoFiles
  <2>2. NoStd \in [1 .. 3 -> Blocks \union {NULL}] /\ \A i \in 1 .. 3 : NoStd[i] = NULL
    BY DEF NoStd
  <2>3. CASE Ended(NoFiles, NoStd) /\ causes' = {}
    <3>1. ~Stale(NoFiles, NoStd)  BY <2>2 DEF Stale
    <3>2. DOMAIN osglue_done(NoFiles, NoStd).files = {}  BY <2>1, NoneLeft
    <3> QED  BY <2>3, <3>1, <3>2, <1>0, EndKept
  <2>4. CASE Began([std |-> NoStd, io |-> NoFiles]) /\ causes' = {"library installed"}
    <3>1. PICK s : s = [std |-> NoStd, io |-> NoFiles]  OBVIOUS
    <3>2. s.std = NoStd /\ s.io = NoFiles /\ Began(s) /\ causes' # {}  BY <2>4, <3>1
    <3>3. Streams(NoFiles, NoStd)  BY <2>1 DEF Streams
    <3>4. Owned(NoFiles, NoStd, NoStd)  BY <2>1, <2>2 DEF Owned
    <3> QED  BY <3>2, <3>3, <3>4, <2>2, BeginKept
  <2> QED  BY <1>3, <2>3, <2>4 DEF LaunchWithoutLibrary
<1> QED  BY <1>1, <1>2, <1>3

(* lua_close closes every file of a handle, osglue_done the standard ones. *)
LEMMA StopKept ==
  ASSUME IInv, Stop
  PROVE  IInv'
<1> USE FilesAssumption
<1>1. running /\ Session /\ Ended(lua_close, std) /\ causes' = causes  BY DEF IInv, Stop
<1>2. Streams(io, std)  BY <1>1 DEF Session
<1>3. PICK as : as = {lua.file[h] : h \in DOMAIN lua.file} \ ({NULL} \union ToSet(std))  OBVIOUS
<1>4. PICK t : t = fclose_all(io, as)  OBVIOUS
<1>5. lua_close = t  BY <1>3, <1>4 DEF lua_close, io_gc
<1>6. Streams(t, std) /\ Shrunk(io, t, as)  BY <1>2, <1>4, Closing
<1>7. DOMAIN t.files \subseteq ToSet(std)
  <2>1. ASSUME NEW a \in DOMAIN t.files, a \notin ToSet(std) PROVE FALSE
    <3>1. a \in DOMAIN io.files /\ a \notin as  BY <2>1, <1>6 DEF Shrunk
    <3>2. PICK h \in DOMAIN lua.file : lua.file[h] = a  BY <3>1, <2>1, <1>1 DEF Session, Owned
    <3>3. a # NULL  BY <3>1, <1>2 DEF Streams
    <3> QED  BY <3>1, <3>2, <3>3, <2>1, <1>3
  <2> QED  BY <2>1
<1>8. DOMAIN osglue_done(t, std).files = {}
  <2>1. t = [files |-> t.files, open |-> t.open, lost |-> t.lost]  BY <1>6 DEF Streams
  <2> QED  BY <2>1, <1>7, NoneLeft
<1>9. Stale(t, std) => causes # {}
  <2>1. ASSUME causes = {} PROVE \A i \in 1 .. 3 : Live(t, std[i], {Standard[i]})
    <3>1. SUFFICES ASSUME NEW i \in 1 .. 3 PROVE Live(t, std[i], {Standard[i]})  OBVIOUS
    <3>2. std \in [1 .. 3 -> Blocks \union {NULL}] /\ Live(io, std[i], {Standard[i]})
      BY <2>1, <1>1 DEF Session, StdInv
    <3>3. std[i] \notin as  BY <3>2, <1>3 DEF ToSet
    <3> QED  BY <3>2, <3>3, <1>6 DEF Live, Shrunk
  <2> QED  BY <2>1, StaleNot
<1>10. running /\ misused => causes # {}  BY DEF IInv
<1> QED  BY <1>1, <1>5, <1>8, <1>9, <1>10, EndKept

-----------------------------------------------------------------------------
LEMMA InitKept == Init => IInv
BY DEF Init, IInv, Idle

LEMMA StepKept == IInv /\ [Next]_vars => IInv'
<1> SUFFICES ASSUME IInv, [Next]_vars PROVE IInv'  OBVIOUS
<1>1. CASE Launch \/ LaunchFailsInFiles \/ LaunchWithoutLibrary  BY <1>1, LaunchesKept
<1>2. CASE Stop  BY <1>2, StopKept
<1>3. CASE Program
  <2>1. CASE (\E mode \in Modes : io_open(mode)) \/ io_lines
             \/ (\E f \in {IO_INPUT, IO_OUTPUT} : g_iofile(f))
    BY <2>1, OpensKept
  <2>2. CASE \/ io_popen \/ RemoveFile
             \/ \E f \in {IO_INPUT, IO_OUTPUT}, h \in 1 .. MaxHandle : SetDefault(f, h)
             \/ \E h \in 1 .. MaxHandle : f_lines(h) \/ Forget(h)
    BY <2>2, OthersKept
  <2>3. CASE \/ \E h \in 1 .. MaxHandle : g_read(h) \/ g_write(h) \/ f_seek(h) \/ f_flush(h)
             \/ luaB_print \/ db_debug \/ InputTest
    BY <2>3, UsesKept
  <2>4. CASE \E h \in 1 .. MaxHandle : io_close(h)  BY <2>4, io_closeKept
  <2>5. CASE \E h \in 1 .. MaxHandle : Collect(h)  BY <2>5, CollectKept
  <2> QED  BY <1>3, <2>1, <2>2, <2>3, <2>4, <2>5 DEF Program
<1>4. CASE UNCHANGED vars
  BY <1>4 DEF vars, history, IInv, Session, Idle, StdInv
<1> QED  BY <1>1, <1>2, <1>3, <1>4 DEF Next

LEMMA Inductive == Spec => []IInv
BY InitKept, StepKept, PTL DEF Spec

-----------------------------------------------------------------------------
(* FilesOwned: each FILE of the device has one handle, but for those at    *)
(* the address of a standard FILE that the program closed, and each open   *)
(* FileHand one FILE, but for those that a failing fopen_file forgets.     *)
THEOREM OwnersHaveFiles == Spec => []FilesOwned
<1>1. IInv => FilesOwned
  <2> SUFFICES ASSUME IInv PROVE FilesOwned  OBVIOUS
  <2>1. (Streams(io, std) /\ Owned(io, std, lua.file)) \/ (DOMAIN io.files = {} /\ io = NoFiles)
    BY DEF IInv, Session, Idle, NoFiles
  <2>2. CASE DOMAIN io.files = {} /\ io = NoFiles
    BY <2>2 DEF FilesOwned, Files, NoFiles
  <2>3. CASE Streams(io, std) /\ Owned(io, std, lua.file)
    <3>1. \A a \in DOMAIN io.files : a \in Files("file") <=> io.files[a].hand # NULL
      BY <2>3, FilesAssumption DEF Streams, Files
    <3>2. {io.files[a].hand : a \in Files("file")} = {io.files[a].hand : a \in DOMAIN io.files} \ {NULL}
      BY <3>1 DEF Files
    <3>3. io.open = {io.files[a].hand : a \in Files("file")} \union io.lost
      BY <2>3, <3>2 DEF Streams
    <3>4. ASSUME NEW a \in Files("file") \ ToSet(std) PROVE Cardinality(Owners(a)) = 1
      <4>1. a \in DOMAIN io.files \ ToSet(std) /\ a # NULL
        BY <2>3, FilesAssumption DEF Files, Streams
      <4>2. PICK h \in DOMAIN lua.file : lua.file[h] = a  BY <4>1, <2>3 DEF Owned
      <4>3. Owners(a) = {h}  BY <4>1, <4>2, <2>3 DEF Owners, Owned
      <4> QED  BY <4>3, FS_Singleton
    <3> QED  BY <3>3, <3>4 DEF FilesOwned
  <2> QED  BY <2>1, <2>2, <2>3
<1> QED  BY <1>1, Inductive, PTL

(* StreamsLive: an open handle has a FILE of its own; none is used when it *)
(* is gone but after the three causes.                                     *)
THEOREM HandlesLive == Spec => []StreamsLive
<1>1. IInv => StreamsLive
  <2> SUFFICES ASSUME IInv PROVE StreamsLive  OBVIOUS
  <2>1. misused => causes # {}  BY DEF IInv
  <2>2. ASSUME NEW h \in DOMAIN lua.file, lua.file[h] # NULL
        PROVE  Live(io, lua.file[h], Kinds) /\ Owners(lua.file[h]) = {h}
    <3>1. Streams(io, std) /\ Owned(io, std, lua.file)
      BY <2>2 DEF IInv, Session, Idle, NoLua
    <3>2. lua.file[h] \in DOMAIN io.files /\ \A g \in DOMAIN lua.file : lua.file[g] = lua.file[h] => g = h
      BY <2>2, <3>1 DEF Owned
    <3>3. Owners(lua.file[h]) = {h}  BY <2>2, <3>2 DEF Owners
    <3>4. Live(io, lua.file[h], Kinds)  BY <3>1, <3>2 DEF Live, Streams, FileIn
    <3> QED  BY <3>3, <3>4
  <2> QED  BY <2>1, <2>2 DEF StreamsLive
<1> QED  BY <1>1, Inductive, PTL

(* ReleasedAtExit: lua_close and done_fileio leave no FILE behind, however *)
(* the session went and wherever it failed to start.                       *)
THEOREM AllReleased == Spec => []ReleasedAtExit
<1>1. IInv => ReleasedAtExit  BY DEF IInv, ReleasedAtExit
<1> QED  BY <1>1, Inductive, PTL

=============================================================================
