----------------------------- MODULE LuaTabLib ------------------------------
(***************************************************************************)
(* The table library of Lua 5.1.2 (ltablib.c).  A function that calls back   *)
(* (the order of sort, the body of foreachi) leaves a frame on the C stack   *)
(* and goes on, when it is answered, in a step of its own; between the steps *)
(* the callback may do anything, fail, or try to yield.  The values sort     *)
(* works on are on the Lua stack, as they are in the C code.                 *)
(***************************************************************************)
EXTENDS LuaVM

Top(m, n) == Slot(m, T(m).top - n)                    \* index -n
Pop(m, n) == SetTop(m, T(m).top - n)
rawgeti(m, i) == Push(m, RawGet(m, Arg(m, 1)[2], Num(i)))
rawseti(m, i) == Pop(RawSet(m, Arg(m, 1)[2], Num(i), Top(m, 1)), 1)
aux_getn(m) == luaH_getn(m, Arg(m, 1)[2])
OptInt(m, n, default) == IF Arg(m, n) = NilV THEN default ELSE luaV_tonumber(Arg(m, n))[2]
ReturnAll(m, vs) == FinishC(PushAll(m, vs), Len(vs))

----------------------------------------------------------------------------
tinsert(m) ==
  LET n == aux_getn(m) + 1
      pos == IF Len(Args(m)) = 2 THEN n ELSE OptInt(m, 2, 0)
      e == IF pos > n THEN pos ELSE n
      up == [i \in 1 .. e - pos |-> e - i + 1]        \* e, e - 1, ..., pos + 1
      moved == FoldLeft(LAMBDA t, i : rawseti(rawgeti(t, i - 1), i), m, up)
  IN IF Len(Args(m)) \notin {2, 3} THEN luaG_runerror(m, "wrong number of arguments")
     ELSE FinishC(rawseti(Push(moved, Arg(m, Len(Args(m)))), pos), 0)

tremove(m) ==
  LET e == aux_getn(m)
      pos == OptInt(m, 2, e)
      result == rawgeti(m, pos)
      moved == FoldLeft(LAMBDA t, i : rawseti(rawgeti(t, i + 1), i), result,
                        [i \in 1 .. e - pos |-> pos + i - 1])
  IN IF e = 0 THEN FinishC(m, 0) ELSE FinishC(rawseti(Push(moved, NilV), e), 1)

tconcat(m) ==
  LET sep == IF Arg(m, 2) = NilV THEN "" ELSE luaV_tostring(Arg(m, 2))[2]
      first == OptInt(m, 3, 1)
      last == OptInt(m, 4, aux_getn(m))
      item(i) == RawGet(m, Arg(m, 1)[2], Num(i))
      range == [i \in 1 .. last - first + 1 |-> first + i - 1]
      Add(s, i) == s \o luaV_tostring(item(i))[2] \o (IF i = last THEN "" ELSE sep)
  IN IF \E i \in first..last : ~IsStringy(item(i)) THEN luaG_runerror(m, "table contains non-strings")
     ELSE ReturnAll(m, <<Str(FoldLeft(Add, "", range))>>)

getn(m) == ReturnAll(m, <<Num(aux_getn(m))>>)
setn(m) == luaG_runerror(m, "'setn' is obsolete")
maxn(m) ==
  LET keys == {k \in DOMAIN m.tb[Arg(m, 1)[2]].map : k[1] = "num"}
  IN ReturnAll(m, <<Num(Max({k[2] : k \in keys} \cup {0}))>>)

----------------------------------------------------------------------------
\* foreachi: the next item, or the result the last call gave

foreachi(m, i, n) ==
  LET item == RawGet(m, Arg(m, 1)[2], Num(i))
  IN IF i > n THEN FinishC(m, 0)
     ELSE luaD_call(PushAll(m, <<Arg(m, 2), Num(i), item>>), T(m).top, 1,
                    [k |-> "foreachi", i |-> i, n |-> n])
foreachi_Answered(m, f) ==
  IF Top(m, 1) # NilV THEN FinishC(m, 1) ELSE foreachi(Pop(m, 1), f.i + 1, f.n)

----------------------------------------------------------------------------
\* Quicksort.  The state s of auxsort: at (the comparison that is awaited), the
\* range l..u, i, j, and rest: the ranges of the callers that are still to sort

set2(m, i, j) == rawseti(rawseti(m, i), j)
SortState(at, l, u, i, j, rest) ==
  [k |-> "sort", at |-> at, l |-> l, u |-> u, i |-> i, j |-> j, rest |-> rest]

\* Is the value at -a less than the one at -b?  The answer comes at the next step.
sort_comp(m, a, b, s) ==
  LET x == Top(m, a)
      y == Top(m, b)
      tm == SameTM(m, x, y, "__lt")
  IN IF Arg(m, 2) # NilV THEN luaD_call(PushAll(m, <<Arg(m, 2), x, y>>), T(m).top, 1, s)
     ELSE IF x[1] = "num" /\ y[1] = "num" THEN [Push(m, Bool(x[2] < y[2])) EXCEPT !.pend = s]
     ELSE IF TypeName(x) # TypeName(y) \/ tm = NilV THEN luaG_runerror(m, "compare")
     ELSE callTMres(m, tm, <<x, y>>, s)

auxsort(m, ranges) ==
  LET todo == SelectSeq(ranges, LAMBDA r : r[1] < r[2])
      l == Head(todo)[1]
      u == Head(todo)[2]
  IN IF todo = <<>> THEN FinishC(m, 0)
     ELSE sort_comp(rawgeti(rawgeti(m, l), u), 1, 2, SortState("ends", l, u, 0, 0, Tail(todo)))
Sorted(m, s) == auxsort(m, s.rest)                    \* the range is

Median(m, s) ==
  LET i == (s.l + s.u) \div 2
  IN IF s.u - s.l = 1 THEN Sorted(m, s)
     ELSE sort_comp(rawgeti(rawgeti(m, i), s.l), 2, 1, [s EXCEPT !.at = "low", !.i = i])
Up(m, s) == sort_comp(rawgeti(m, s.i + 1), 1, 2, [s EXCEPT !.at = "up", !.i = @ + 1])
Down(m, s) == sort_comp(rawgeti(m, s.j - 1), 3, 1, [s EXCEPT !.at = "down", !.j = @ - 1])
Pivot(m, s) ==
  LET p == rawgeti(m, s.i)
      parked == set2(rawgeti(Push(p, Top(p, 1)), s.u - 1), s.i, s.u - 1)
  IN IF s.u - s.l = 2 THEN Sorted(m, s) ELSE Up(parked, [s EXCEPT !.i = s.l, !.j = s.u - 1])
Partitioned(m, s) ==           \* the smaller part first
  LET placed == set2(rawgeti(rawgeti(m, s.u - 1), s.i), s.u - 1, s.i)
      below == <<s.l, s.i - 1>>
      above == <<s.i + 1, s.u>>
      less == s.i - s.l < s.u - s.i
  IN auxsort(placed, (IF less THEN <<below, above>> ELSE <<above, below>>) \o s.rest)

Compared(m, s, res) ==
  CASE s.at = "ends" -> Median(IF res THEN set2(m, s.l, s.u) ELSE Pop(m, 2), s)
    [] s.at = "low" ->
         IF res THEN Pivot(set2(m, s.i, s.l), s)
         ELSE sort_comp(rawgeti(Pop(m, 1), s.u), 1, 2, [s EXCEPT !.at = "high"])
    [] s.at = "high" -> Pivot(IF res THEN set2(m, s.i, s.u) ELSE Pop(m, 2), s)
    [] s.at = "up" ->
         IF ~res THEN Down(m, s)
         ELSE IF s.i > s.u THEN luaG_runerror(m, "invalid order function for sorting")
         ELSE Up(Pop(m, 1), s)
    [] s.at = "down" ->
         IF res /\ s.j < s.l THEN luaG_runerror(m, "invalid order function for sorting")
         ELSE IF res THEN Down(Pop(m, 1), s)
         ELSE IF s.j < s.i THEN Partitioned(Pop(m, 3), s)
         ELSE Up(set2(m, s.i, s.j), s)

sort(m) ==                     \* lua_settop: there are two arguments
  LET two == IF Len(Args(m)) = 1 THEN Push(m, NilV) ELSE SetTop(m, T(m).base + 2)
  IN IF Arg(m, 2)[1] \notin {"nil", "func", "cfn"} THEN luaG_runerror(m, "bad argument")
     ELSE auxsort(two, <<<<1, aux_getn(m)>>>>)

----------------------------------------------------------------------------
\* A function of the library starts, or goes on when it has been answered.
CContinuations == {"tconcat", "foreachi", "getn", "maxn", "tinsert", "tremove", "setn", "sort"}
ContinueC(m) ==
  LET f == m.pend
      c == [m EXCEPT !.pend = NoFrame]
      answered == "i" \in DOMAIN f
  IN IF Arg(c, 1)[1] # "table" THEN luaG_runerror(c, "table expected")
     ELSE CASE f.k = "tconcat" -> tconcat(c)
            [] f.k = "foreachi" -> IF answered THEN foreachi_Answered(c, f)
                                   ELSE IF ~IsFunction(Arg(c, 2)) THEN luaG_runerror(c, "bad argument")
                                   ELSE foreachi(c, 1, aux_getn(c))
            [] f.k = "getn" -> getn(c)
            [] f.k = "maxn" -> maxn(c)
            [] f.k = "tinsert" -> tinsert(c)
            [] f.k = "tremove" -> tremove(c)
            [] f.k = "setn" -> setn(c)
            [] f.k = "sort" -> IF answered THEN Compared(Pop(c, 1), f, ~IsFalse(Top(c, 1))) ELSE sort(c)
=============================================================================
