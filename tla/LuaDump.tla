------------------------------ MODULE LuaDump -------------------------------
(***************************************************************************)
(* Precompiled chunks (ldump.c, lundump.c): a function and the functions in  *)
(* it are written depth first, the counts in front of what they count, and   *)
(* read back in the same order.  A chunk is a sequence of items, each one    *)
(* byte, int, number, instruction or string; a chunk that was truncated is a *)
(* prefix of it.  Line numbers and the names of locals and upvalues are      *)
(* blank.  A load state s is [z: the items left, err, r: what was read].     *)
(***************************************************************************)
EXTENDS LuaCheck, SequencesExt

CONSTANT SOURCE                \* the name of the chunk

NULL == "NULL"
LUA_TNIL == 0
LUA_TBOOLEAN == 1
LUA_TNUMBER == 3
LUA_TSTRING == 4
Char(y) == y % 256

\* version 5.1, official format, big endian; sizes of int, size_t, Instruction
\* and lua_Number; not integral
LUA_SIGNATURE == <<"ESC", "L", "u", "a">>
luaU_header == LUA_SIGNATURE \o <<81, 0, 0, 2, 4, 4, 8, 0>>

----------------------------------------------------------------------------
\* Dump

DumpVector(b) == <<Len(b)>> \o b
DumpString(s) == IF s = NULL THEN <<0>> ELSE <<Len(s) + 1, s>>
DumpEach(Dump(_), xs) == <<Len(xs)>> \o FlattenSeq([i \in DOMAIN xs |-> Dump(xs[i])])

DumpConstant(o) ==
  CASE o[1] = "nil" -> <<LUA_TNIL>>
    [] o[1] = "bool" -> <<LUA_TBOOLEAN, IF o[2] THEN 1 ELSE 0>>
    [] o[1] = "num" -> <<LUA_TNUMBER, o[2]>>
    [] o[1] = "str" -> <<LUA_TSTRING>> \o DumpString(o[2])

DumpDebug(f, strip) ==
  LET blank(xs) == IF strip THEN <<>> ELSE [i \in DOMAIN xs |-> 0]
  IN DumpVector(blank(f.code)) \o <<0>> \o DumpEach(LAMBDA u : DumpString(""), blank(f.upv))

RECURSIVE DumpFunction(_, _, _)
DumpConstants(f, source, strip) ==
  DumpEach(DumpConstant, f.k) \o DumpEach(LAMBDA g : DumpFunction(g, source, strip), f.p)
\* p is the source of the enclosing function, which is not repeated
DumpFunction(f, p, strip) ==
  DumpString(IF SOURCE = p \/ strip THEN NULL ELSE SOURCE)
  \o <<0, 0, Char(Len(f.upv)), Char(f.numparams), IF f.is_vararg THEN 1 ELSE 0, Char(f.maxstacksize)>>
  \o DumpVector(f.code) \o DumpConstants(f, SOURCE, strip) \o DumpDebug(f, strip)

luaU_dump(f, strip) == luaU_header \o DumpFunction(f, NULL, strip)

----------------------------------------------------------------------------
\* Load

LoadError(s, why) == [s EXCEPT !.err = IF @ = "" THEN why ELSE @, !.r = 0]

\* the next n items, at most one of which is needed for what has a size
luaZ_read(s, n) ==
  IF s.err # "" \/ n > Len(s.z) THEN LoadError(s, "unexpected end")
  ELSE [s EXCEPT !.z = SubSeq(@, n + 1, Len(@)), !.r = SubSeq(s.z, 1, n)]
LoadBlock(s) == LET b == luaZ_read(s, 1) IN IF b.err = "" THEN [b EXCEPT !.r = @[1]] ELSE b
LoadInt(s) == LET x == LoadBlock(s) IN IF x.r < 0 THEN LoadError(x, "bad integer") ELSE x
LoadVector(s) ==               \* a count and as many items
  LET n == LoadInt(s)
      b == luaZ_read(n, n.r)
  IN IF b.err = "" THEN b ELSE [b EXCEPT !.r = <<>>]
LoadString(s) ==
  LET size == LoadBlock(s)
  IN IF size.r = 0 THEN [size EXCEPT !.r = NULL] ELSE LoadBlock(size)

RECURSIVE LoadItems(_, _, _)   \* the results of items of these kinds, after those got
LoadEach(s, kind) ==           \* a count and as many items
  LoadItems(LoadInt(s), [i \in 1 .. LoadInt(s).r |-> kind], <<>>)

LoadConstant(s) ==
  LET t == LoadBlock(s)
      v == LoadBlock(t)
      str == LoadString(t)
  IN CASE t.r = LUA_TNIL -> [t EXCEPT !.r = NilV]
       [] t.r = LUA_TBOOLEAN -> [v EXCEPT !.r = Bool(@ # 0)]
       [] t.r = LUA_TNUMBER -> [v EXCEPT !.r = Num(@)]
       [] t.r = LUA_TSTRING -> [str EXCEPT !.r = Str(@)]
       [] OTHER -> LoadError(t, "bad constant")

LoadItem(s, kind) ==
  CASE kind = "string" -> LoadString(s)
    [] kind = "int" -> LoadInt(s)
    [] kind = "char" -> LoadBlock(s)
    [] kind = "vector" -> LoadVector(s)
    [] kind = "constant" -> LoadConstant(s)
    [] kind = "constants" -> LoadEach(s, "constant")
    [] kind = "names" -> LoadEach(s, "string")
LoadItems(s, kinds, got) ==
  IF s.err # "" \/ kinds = <<>> THEN [s EXCEPT !.r = got]
  ELSE LoadItems(LoadItem(s, Head(kinds)), Tail(kinds), Append(got, LoadItem(s, Head(kinds)).r))

\* A function up to the functions in it, and what follows them.  The functions
\* whose loading has begun are open, each with how many of its own are to come;
\* below them is the holder of the main function.
FunctionItems == <<"string", "int", "int", "char", "char", "char", "char", "vector", "constants", "int">>
DebugItems == <<"vector", "int", "names">>            \* read, and dropped
Unnamed == [k |-> NULL, info |-> 0]                   \* all that is known of an upvalue
Holder == [p |-> <<>>, more |-> 1]
Opened(s) ==
  LET r == s.r
      f == [code |-> r[8], k |-> r[9], p |-> <<>>, upv |-> [i \in 1 .. r[4] |-> Unnamed],
            numparams |-> r[5], is_vararg |-> r[6] # 0, maxstacksize |-> r[7]]
  IN [s EXCEPT !.open = [@ EXCEPT ![Len(@)].more = @ - 1] \o <<[f |-> f, p |-> <<>>, more |-> r[10]]>>]
Closed(s) ==
  LET f == [Last(s.open).f EXCEPT !.p = Last(s.open).p]
      outer == Front(s.open)
  IN IF ~luaG_checkcode(f) THEN LoadError(s, "bad code")
     ELSE [s EXCEPT !.open = [outer EXCEPT ![Len(outer)].p = Append(@, f)]]
Unless(s, t) == IF s.err = "" THEN t ELSE s
LoadFunction(s) ==
  IF Last(s.open).more > 0
  THEN LET t == LoadItems(s, FunctionItems, <<>>) IN Unless(t, Opened(t))
  ELSE LET t == LoadItems(s, DebugItems, <<>>) IN Unless(t, Closed(t))

LoadHeader(s) ==
  LET h == luaZ_read(s, Len(luaU_header))
  IN IF h.err = "" /\ h.r # luaU_header THEN LoadError(h, "bad header") ELSE h

luaU_undump(z) == LoadHeader([z |-> z, err |-> "", r |-> 0, open |-> <<Holder>>])
Undumping(s) == s.err = "" /\ (Len(s.open) > 1 \/ s.open[1].more > 0)
\* what luaY_parser gives for a text
Undumped(s) == [err |-> s.err, f |-> IF s.err = "" THEN s.open[1].p[1] ELSE 0, bad |-> FALSE]
=============================================================================
