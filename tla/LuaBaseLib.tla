----------------------------- MODULE LuaBaseLib -----------------------------
(***************************************************************************)
(* Functions of the basic library of Lua 5.1.2 (lbaselib.c) that look at     *)
(* values and tables without metamethods.  (Calls, errors and coroutines are *)
(* in LuaDo.)                                                                *)
(***************************************************************************)
EXTENDS LuaTabLib

\* a C function that wants a table, or n arguments
WithTable(m, r) == IF Arg(m, 1)[1] = "table" THEN r ELSE luaG_runerror(m, "table expected")
WithArgs(m, n, r) == IF Len(Args(m)) >= n THEN r ELSE luaG_runerror(m, "value expected")

luaL_getmetafield(m, v, event) == Meta(m, v, event)
luaB_getmetatable(m) ==
  LET v == Arg(m, 1)
      hidden == luaL_getmetafield(m, v, "__metatable")
  IN WithArgs(m, 1, ReturnAll(m,
       <<IF v[1] # "table" \/ m.tb[v[2]].meta = 0 THEN NilV
         ELSE IF hidden # NilV THEN hidden ELSE <<"table", m.tb[v[2]].meta>>>>))
luaB_setmetatable(m) ==
  LET t == Arg(m, 1)
      mt == Arg(m, 2)
      id == IF mt = NilV THEN 0 ELSE mt[2]
  IN WithTable(m,
       IF Len(Args(m)) < 2 \/ mt[1] \notin {"nil", "table"} THEN luaG_runerror(m, "nil or table expected")
       ELSE IF luaL_getmetafield(m, t, "__metatable") # NilV
       THEN luaG_runerror(m, "cannot change a protected metatable")
       ELSE ReturnAll([m EXCEPT !.tb[t[2]].meta = id], <<t>>))

luaB_rawequal(m) == WithArgs(m, 2, ReturnAll(m, <<Bool(Arg(m, 1) = Arg(m, 2))>>))
luaB_rawget(m) ==
  WithTable(m, WithArgs(m, 2, ReturnAll(m, <<RawGet(m, Arg(m, 1)[2], Arg(m, 2))>>)))
luaB_rawset(m) ==
  WithTable(m, WithArgs(m, 3,
    IF Arg(m, 2) = NilV THEN luaG_runerror(m, "index is nil")
    ELSE ReturnAll(RawSet(m, Arg(m, 1)[2], Arg(m, 2), Arg(m, 3)), <<Arg(m, 1)>>)))

luaB_assert(m) ==
  WithArgs(m, 1,
    IF ~IsFalse(Arg(m, 1)) THEN ReturnAll(m, Args(m))
    ELSE luaG_runerror(m, IF Arg(m, 2) = NilV THEN "assertion failed!" ELSE Arg(m, 2)[2]))

luaB_unpack(m) ==
  LET i == OptInt(m, 2, 1)
      e == OptInt(m, 3, aux_getn(m))
  IN WithTable(m, ReturnAll(m, [j \in 1 .. e - i + 1 |-> RawGet(m, Arg(m, 1)[2], Num(i + j - 1))]))

luaB_select(m) ==
  LET n == Len(Args(m))
      x == luaV_tonumber(Arg(m, 1))
      i == IF x[2] < 0 THEN n + x[2] ELSE IF x[2] > n THEN n ELSE x[2]
  IN IF Arg(m, 1) = Str("#") THEN ReturnAll(m, <<Num(n - 1)>>)
     ELSE IF x = NilV THEN luaG_runerror(m, "number expected")
     ELSE IF i < 1 THEN luaG_runerror(m, "index out of range")
     ELSE FinishC(m, n - i)

----------------------------------------------------------------------------
base_funcs == {"getmetatable", "setmetatable", "rawequal", "rawget", "rawset", "assert", "unpack",
               "select"}
OfLibrary == CContinuations \cup base_funcs
CFunctions == CoreFunctions \cup OfLibrary
RunLibrary(m) ==               \* m.pend is a C function
  LET c == [m EXCEPT !.pend = NoFrame]
      name == m.pend.k
  IN CASE name \in CoreFunctions -> RunC(c)
       [] name \in CContinuations -> ContinueC(m)
       [] name = "getmetatable" -> luaB_getmetatable(c)
       [] name = "setmetatable" -> luaB_setmetatable(c)
       [] name = "rawequal" -> luaB_rawequal(c)
       [] name = "rawget" -> luaB_rawget(c)
       [] name = "rawset" -> luaB_rawset(c)
       [] name = "assert" -> luaB_assert(c)
       [] name = "unpack" -> luaB_unpack(c)
       [] name = "select" -> luaB_select(c)
=============================================================================
