------------------------------- MODULE LuaVM --------------------------------
(***************************************************************************)
(* The virtual machine of Lua 5.1.2 (lvm.c): luaV_execute one instruction at *)
(* a time, over the machine state of LuaDo.  An instruction that calls a Lua *)
(* function from C code (a metamethod, an iterator) is suspended in m.pend   *)
(* when the call returns and completed by a step of its own.                 *)
(* Strings are not ordered; the length of a table is the border luaH_getn    *)
(* finds when the array has no hole.                                         *)
(***************************************************************************)
EXTENDS LuaDo, LuaCheck

CONSTANT MAXTAGLOOP            \* limit of the chains of __index and __newindex

ASSUME TagLoopAssumption == MAXTAGLOOP \in Nat \ {0}

R(m, x) == Slot(m, T(m).base + x)
SetR(m, x, v) == Put(m, T(m).base + x, v)
Running(m) == m.cl[Slot(m, Ci(m).func)[2]]
KOf(m, x) == Running(m).p.k[x + 1]
RK(m, x) == IF ISK(x) THEN KOf(m, x - BITRK) ELSE R(m, x)
Instruction(m, pc) == Running(m).p.code[pc + 1]
dojump(m, d) == EditCi(m, "pc", Ci(m).pc + d)
CondJump(m, c) ==              \* the jump that follows a test
  LET pc == Ci(m).pc
  IN dojump(m, 1 + IF c THEN Instruction(m, pc).B ELSE 0)
ToTop(m) == SetTop(m, Ci(m).top)

TypeName(v) == IF v[1] = "cfn" THEN "func" ELSE v[1]
luaV_tonumber(v) ==            \* nil when there is no number in it
  IF v[1] = "num" THEN v
  ELSE IF v[1] = "str" /\ v[2] \in DOMAIN Numerals THEN Num(Numerals[v[2]]) ELSE NilV
IsStringy(v) == v[1] \in {"str", "num"}
luaV_tostring(v) == IF v[1] = "num" THEN Str(ToString(v[2])) ELSE v

RawGet(m, t, key) ==
  IF key \in DOMAIN m.tb[t].map THEN m.tb[t].map[key] ELSE NilV
RawSet(m, t, key, v) ==
  [m EXCEPT !.tb[t].map = IF v = NilV THEN [k \in DOMAIN @ \ {key} |-> @[k]]
                          ELSE (key :> v) @@ @]
luaH_getn(m, t) ==
  CHOOSE n \in 0 .. Cardinality(DOMAIN m.tb[t].map) :
    /\ Num(n + 1) \notin DOMAIN m.tb[t].map
    /\ \A i \in 1..n : Num(i) \in DOMAIN m.tb[t].map

callTMres(m, f, args, frame) == luaD_call(PushAll(m, <<f>> \o args), T(m).top, 1, frame)
callTM(m, f, args) == luaD_call(PushAll(m, <<f>> \o args), T(m).top, 0, [k |-> "drop"])

RECURSIVE luaV_gettable(_, _, _, _, _)
luaV_gettable(m, t, key, res, loop) ==
  LET raw == IF t[1] = "table" THEN RawGet(m, t[2], key) ELSE NilV
      tm == Meta(m, t, "__index")
  IN IF loop = MAXTAGLOOP THEN luaG_runerror(m, "loop in gettable")
     ELSE IF raw # NilV \/ (t[1] = "table" /\ tm = NilV) THEN Put(m, res, raw)
     ELSE IF tm = NilV THEN luaG_runerror(m, "index")
     ELSE IF IsFunction(tm) THEN callTMres(m, tm, <<t, key>>, [k |-> "setres", res |-> res])
     ELSE luaV_gettable(m, tm, key, res, loop + 1)

RECURSIVE luaV_settable(_, _, _, _, _)
luaV_settable(m, t, key, v, loop) ==
  LET old == IF t[1] = "table" THEN RawGet(m, t[2], key) ELSE NilV
      tm == Meta(m, t, "__newindex")
  IN IF loop = MAXTAGLOOP THEN luaG_runerror(m, "loop in settable")
     ELSE IF t[1] = "table" /\ key = NilV THEN luaG_runerror(m, "index is nil")
     ELSE IF old # NilV \/ (t[1] = "table" /\ tm = NilV) THEN RawSet(m, t[2], key, v)
     ELSE IF tm = NilV THEN luaG_runerror(m, "index")
     ELSE IF IsFunction(tm) THEN callTM(m, tm, <<t, key, v>>)
     ELSE luaV_settable(m, tm, key, v, loop + 1)

BinTM(m, p1, p2, event) ==
  IF Meta(m, p1, event) # NilV THEN Meta(m, p1, event) ELSE Meta(m, p2, event)
call_binTM(m, p1, p2, event, kind, frame) ==
  LET tm == BinTM(m, p1, p2, event)
  IN IF tm = NilV THEN luaG_runerror(m, kind) ELSE callTMres(m, tm, <<p1, p2>>, frame)

ArithEvent == [ADD |-> "__add", SUB |-> "__sub", MUL |-> "__mul", DIV |-> "__div",
               MOD |-> "__mod", POW |-> "__pow", UNM |-> "__unm"]
Arith(m, ra, p1, p2, op) ==
  LET b == luaV_tonumber(p1)
      c == luaV_tonumber(p2)
  IN IF b # NilV /\ c # NilV THEN Put(m, ra, Num(luai_arith(op, b[2], c[2])))
     ELSE call_binTM(m, p1, p2, ArithEvent[op], "arithmetic", [k |-> "setres", res |-> ra])

\* total values up to register `last' become one, then go to register A
RECURSIVE luaV_concat(_, _, _, _, _)
luaV_concat(m, total, last, a, first) ==
  LET top == T(m).base + last + 1
      At_(n) == Slot(m, top - n)
      n == CHOOSE q \in 2 .. total : /\ \A i \in 1..q : IsStringy(At_(i))
                                     /\ q = total \/ ~IsStringy(At_(q + 1))
      all == FoldLeft(LAMBDA s, i : luaV_tostring(At_(i))[2] \o s, "", [i \in 1..n |-> i])
  IN IF total = 1 THEN SetR(m, a, R(m, first))
     ELSE IF ~IsStringy(At_(1)) \/ ~IsStringy(At_(2))
     THEN call_binTM(m, At_(2), At_(1), "__concat", "concatenate",
                     [k |-> "concat", res |-> top - 2, total |-> total - 1,
                      last |-> last - 1, A |-> a, B |-> first])
     ELSE IF At_(1) = Str("")
     THEN luaV_concat(Put(m, top - 2, luaV_tostring(At_(2))), total - 1, last - 1, a, first)
     ELSE luaV_concat(Put(m, top - n, Str(all)), total - n + 1, last - n + 1, a, first)

----------------------------------------------------------------------------
\* Comparisons: the outcome is compared with A, and decides the jump

\* both operands must have the same metamethod
SameTM(m, v1, v2, event) ==
  IF Meta(m, v1, event) = Meta(m, v2, event) THEN Meta(m, v1, event) ELSE NilV
CmpFrame(A, neg) == [k |-> "cmp", A |-> A, neg |-> neg]
Outcome(m, A, c) == CondJump(m, c = (A = 1))

luaV_equalval(m, v1, v2, A) ==
  LET tm == IF v1[1] = "table" /\ v2[1] = "table" THEN SameTM(m, v1, v2, "__eq") ELSE NilV
  IN IF v1 = v2 \/ tm = NilV THEN Outcome(m, A, v1 = v2)
     ELSE callTMres(m, tm, <<v1, v2>>, CmpFrame(A, FALSE))

luaV_lessthan(m, l, r, A) ==
  LET tm == SameTM(m, l, r, "__lt")
  IN IF l[1] = "num" /\ r[1] = "num" THEN Outcome(m, A, l[2] < r[2])
     ELSE IF TypeName(l) # TypeName(r) \/ tm = NilV THEN luaG_runerror(m, "compare")
     ELSE callTMres(m, tm, <<l, r>>, CmpFrame(A, FALSE))

lessequal(m, l, r, A) ==
  LET le == SameTM(m, l, r, "__le")
      lt == SameTM(m, r, l, "__lt")
  IN IF l[1] = "num" /\ r[1] = "num" THEN Outcome(m, A, l[2] <= r[2])
     ELSE IF TypeName(l) # TypeName(r) THEN luaG_runerror(m, "compare")
     ELSE IF le # NilV THEN callTMres(m, le, <<l, r>>, CmpFrame(A, FALSE))
     ELSE IF lt # NilV THEN callTMres(m, lt, <<r, l>>, CmpFrame(A, TRUE))
     ELSE luaG_runerror(m, "compare")

----------------------------------------------------------------------------
\* luaV_execute: m's pc is already past i

OpMove(m, i) ==
  CASE i.op = "MOVE" -> SetR(m, i.A, R(m, i.B))
    [] i.op = "LOADK" -> SetR(m, i.A, KOf(m, i.B))
    [] i.op = "LOADBOOL" -> dojump(SetR(m, i.A, Bool(i.B = 1)), IF i.C # 0 THEN 1 ELSE 0)
    [] i.op = "LOADNIL" ->
         FoldLeft(LAMBDA t, x : SetR(t, x, NilV), m, [j \in 1 .. i.B - i.A + 1 |-> i.A + j - 1])
    [] i.op = "GETUPVAL" -> SetR(m, i.A, UpGet(m, Running(m).upvals[i.B + 1]))
    [] i.op = "SETUPVAL" -> UpSet(m, Running(m).upvals[i.B + 1], R(m, i.A))
    [] i.op = "NOT" -> SetR(m, i.A, Bool(IsFalse(R(m, i.B))))

Globals == <<"table", 1>>
OpTable(m, i) ==
  LET ra == T(m).base + i.A
      new == Len(m.tb) + 1
  IN CASE i.op = "GETGLOBAL" -> luaV_gettable(m, Globals, KOf(m, i.B), ra, 0)
       [] i.op = "GETTABLE" -> luaV_gettable(m, R(m, i.B), RK(m, i.C), ra, 0)
       [] i.op = "SETGLOBAL" -> luaV_settable(m, Globals, KOf(m, i.B), R(m, i.A), 0)
       [] i.op = "SETTABLE" -> luaV_settable(m, R(m, i.A), RK(m, i.B), RK(m, i.C), 0)
       [] i.op = "NEWTABLE" -> Put([m EXCEPT !.tb = Append(@, [map |-> << >>, meta |-> 0])],
                                   ra, <<"table", new>>)
       [] i.op = "SELF" -> luaV_gettable(Put(m, ra + 1, R(m, i.B)), R(m, i.B),
                                         RK(Put(m, ra + 1, R(m, i.B)), i.C), ra, 0)

OpArith(m, i) ==
  LET ra == T(m).base + i.A
      b == R(m, i.B)
  IN CASE i.op \in {"ADD", "SUB", "MUL", "DIV", "MOD", "POW"} ->
            Arith(m, ra, RK(m, i.B), RK(m, i.C), i.op)
       [] i.op = "UNM" -> Arith(m, ra, b, b, "UNM")
       [] i.op = "LEN" -> IF b[1] = "table" THEN Put(m, ra, Num(luaH_getn(m, b[2])))
                          ELSE IF b[1] = "str" THEN Put(m, ra, Num(Len(b[2])))
                          ELSE luaG_runerror(m, "get length of")
       [] i.op = "CONCAT" -> luaV_concat(m, i.C - i.B + 1, i.C, i.A, i.B)

OpJump(m, i) ==
  CASE i.op = "JMP" -> dojump(m, i.B)
    [] i.op = "EQ" -> luaV_equalval(m, RK(m, i.B), RK(m, i.C), i.A)
    [] i.op = "LT" -> luaV_lessthan(m, RK(m, i.B), RK(m, i.C), i.A)
    [] i.op = "LE" -> lessequal(m, RK(m, i.B), RK(m, i.C), i.A)
    [] i.op = "TEST" -> CondJump(m, IsFalse(R(m, i.A)) # (i.C = 1))
    [] i.op = "TESTSET" -> IF IsFalse(R(m, i.B)) # (i.C = 1)
                           THEN CondJump(SetR(m, i.A, R(m, i.B)), TRUE) ELSE CondJump(m, FALSE)

OpCall(m, i) ==
  LET ra == T(m).base + i.A
  IN Precall(IF i.B # 0 THEN SetTop(m, ra + i.B) ELSE m, ra, i.C - 1, FALSE)

\* The new frame is put in the place of the previous one.
OpTailcall(m, i) ==
  LET ra == T(m).base + i.A
      n == Len(T(m).ci)
      deep == Len(m.cs)
      c == Precall(IF i.B # 0 THEN SetTop(m, ra + i.B) ELSE m, ra, LUA_MULTRET, FALSE)
      new == Last(T(c).ci)
      old == T(c).ci[n]
      u == luaF_close(c, old.base)
      moved == PushAll(SetTop(u, old.func), Between(u, new.func, T(u).top))
      base == old.func + (new.base - new.func)
      ci == [old EXCEPT !.base = base, !.top = T(moved).top, !.pc = new.pc, !.tailcalls = @ + 1]
      p == [moved EXCEPT !.th[m.L].base = base, !.th[m.L].ci = Append(SubSeq(@, 1, n - 1), ci),
                         !.cs[deep].n = @ - 1]
      islua == c.L = m.L /\ Len(T(c).ci) = n + 1 /\ Len(c.cs) = deep /\ IsLuaFunction(Slot(c, new.func))
  IN IF islua THEN VmAssert(p, T(p).top = base + Running(p).p.maxstacksize) ELSE c

OpReturn(m, i) ==
  LET ra == T(m).base + i.A
      t == IF i.B # 0 THEN SetTop(m, ra + i.B - 1) ELSE m
      wanted == Ci(m).nresults
      r == luaD_poscall(luaF_close(t, T(t).base), ra)
      n == Last(m.cs).n - 1
      p == [IF wanted # LUA_MULTRET THEN ToTop(r) ELSE r EXCEPT !.cs[Len(m.cs)].n = n]
  IN IF n = 0 THEN LeaveExec(r)
     ELSE VmAssert(p, /\ IsLuaFunction(Slot(p, Ci(p).func))
                      /\ Instruction(p, Ci(p).pc - 1).op = "CALL")

OpFor(m, i) ==
  LET a(n) == R(m, i.A + n)
      idx == Num(a(0)[2] + a(2)[2])
      goes == IF a(2)[2] > 0 THEN idx[2] <= a(1)[2] ELSE a(1)[2] <= idx[2]
      v(n) == luaV_tonumber(a(n))
      prep == SetR(SetR(SetR(m, i.A + 2, v(2)), i.A + 1, v(1)), i.A, Num(v(0)[2] - v(2)[2]))
      cb == T(m).base + i.A + 3
  IN CASE i.op = "FORLOOP" ->
            IF goes THEN SetR(SetR(dojump(m, i.B), i.A, idx), i.A + 3, idx) ELSE m
       [] i.op = "FORPREP" ->
            IF \E n \in 0..2 : v(n) = NilV THEN luaG_runerror(m, "for")
            ELSE dojump(prep, i.B)
       [] i.op = "TFORLOOP" ->
            luaD_call(PushAll(SetTop(m, cb), <<a(0), a(1), a(2)>>), cb, i.C,
                      [k |-> "tfor", A |-> i.A])

OpSetlist(m, i) ==
  LET open == i.B = 0
      n == IF open THEN T(m).top - (T(m).base + i.A) - 1 ELSE i.B
      first == (i.C - 1) * LFIELDS_PER_FLUSH
  IN FoldLeft(LAMBDA t, j : RawSet(t, R(m, i.A)[2], Num(first + j), R(m, i.A + j)),
              IF open THEN ToTop(m) ELSE m, [j \in 1..n |-> j])

\* The instructions after CLOSURE say where its upvalues come from.
OpClosure(m, i) ==
  LET p == Running(m).p.p[i.B + 1]
      nup == Len(p.upv)
      pc == Ci(m).pc
      Capture(t, j) ==
        LET q == Instruction(m, pc + j - 1)
            f == luaF_findupval(t.m, T(m).base + q.B)
        IN IF q.op = "GETUPVAL" THEN [t EXCEPT !.up = Append(@, Running(m).upvals[q.B + 1])]
           ELSE [m |-> VmAssert(f, q.op = "MOVE"), up |-> Append(t.up, f.r)]
      c == FoldLeft(Capture, [m |-> m, up |-> <<>>], [j \in 1..nup |-> j])
      new == Append(m.cl, [p |-> p, upvals |-> c.up])
  IN dojump(SetR([c.m EXCEPT !.cl = new], i.A, <<"func", Len(new)>>), nup)

OpVararg(m, i) ==
  LET ra == T(m).base + i.A
      ci == Ci(m)
      n == ci.base - ci.func - Running(m).p.numparams - 1
      b == IF i.B = 0 THEN n ELSE i.B - 1
      Copy(t, j) == Put(t, ra + j - 1, IF j <= n THEN Slot(m, ci.base - n + j - 1) ELSE NilV)
      f == FoldLeft(Copy, m, [j \in 1..b |-> j])
  IN IF i.B = 0 THEN SetTop(f, ra + n) ELSE f

MoveOps == {"MOVE", "LOADK", "LOADBOOL", "LOADNIL", "GETUPVAL", "SETUPVAL", "NOT"}
TableOps == {"GETGLOBAL", "GETTABLE", "SETGLOBAL", "SETTABLE", "NEWTABLE", "SELF"}
ArithOps == {"ADD", "SUB", "MUL", "DIV", "MOD", "POW", "UNM", "LEN", "CONCAT"}
JumpOps == {"JMP", "EQ", "LT", "LE", "TEST", "TESTSET"}
ForOps == {"FORLOOP", "FORPREP", "TFORLOOP"}

NextInstruction(m) == Instruction(m, Ci(m).pc)
Fetch(m) ==                    \* with the asserts at the head of the loop
  LET i == NextInstruction(m)
  IN VmAssert(dojump(m, 1), /\ T(m).base = Ci(m).base
                            /\ T(m).base <= T(m).top
                            /\ T(m).top = Ci(m).top \/ luaG_checkopenop(i))

\* what C code does next: after an error, a return, or the call an instruction made
Continue(m) ==
  LET f == m.pend
      c == [m EXCEPT !.pend = NoFrame]
      v == Slot(c, T(c).top - 1)
      pop == SetTop(c, T(c).top - 1)
      cb == f.A + 3
      t == ToTop(c)
  IN CASE f.k = "raise" -> CallHandler(c, f.v)
       [] f.k = "throw" -> luaD_throw(c, f.v)
       [] f.k = "call" -> Precall(c, f.func, f.nresults, TRUE)
       [] f.k = "done" -> Complete(c)
       [] f.k = "setres" -> Put(pop, f.res, v)
       [] f.k = "drop" -> c
       [] f.k = "concat" -> luaV_concat(Put(pop, f.res, v), f.total, f.last, f.A, f.B)
       [] f.k = "cmp" -> Outcome(pop, f.A, IsFalse(v) = f.neg)
       [] f.k = "tfor" -> IF R(t, cb) # NilV THEN CondJump(SetR(t, cb - 1, R(t, cb)), TRUE)
                          ELSE CondJump(t, FALSE)

\* the host's protected call of a chunk, with its library in Globals
Host(p, lib) ==
  LET main == [NewThread EXCEPT !.stack = <<NilV, <<"func", 1>>>>, !.top = 2]
      m == [th |-> <<main>>, L |-> 1, cl |-> <<[p |-> p, upvals |-> <<>>]>>, uv |-> <<>>,
            tb |-> lib, cs |-> <<>>, pend |-> NoFrame, halt |-> <<>>, out |-> <<>>,
            bad |-> FALSE, r |-> ""]
  IN luaD_call(m, 1, LUA_MULTRET, [k |-> "start", oldtop |-> 1, ci |-> 1])
=============================================================================
