------------------------------ MODULE LuaCode -------------------------------
(***************************************************************************)
(* The code generator of the Lua 5.1.2 compiler (lcode.c), as operators on  *)
(* a compiler state s.  s.code, s.k, s.freereg, s.nactvar, s.jpc,           *)
(* s.lasttarget and s.stack are the fields of FuncState and Proto of the    *)
(* same names; s.e is the expression (expdesc) the operation works on: its  *)
(* kind k, its info (or number), aux and its jump lists t and f; s.r is the *)
(* value the C function returns.  A lua_assert that fails sets s.bad, a     *)
(* syntax error sets s.err (and see LuaParser!luaX_syntaxerror).            *)
(***************************************************************************)
EXTENDS LuaOpcodes, SequencesExt

\* The functions that emit code are called by name, Do("luaK_ret", s, <<0, 1>>),
\* so that TLC's coverage has one tree of them and not one for every use.
RECURSIVE Do(_, _, _)

VNONE == [k |-> "VVOID", info |-> 0, aux |-> 0, t |-> NO_JUMP, f |-> NO_JUMP]
init_exp(kind, i) == [VNONE EXCEPT !.k = kind, !.info = i]

\* Syntax errors unwind to the protected call: what is compiled after the
\* first one is thrown away, so the state only remembers it and the parser is
\* sent to the end of the source.
luaX_syntaxerror(s, msg) ==
  IF s.err # "" THEN s ELSE [s EXCEPT !.err = msg, !.p = Len(s.toks) + 1]
lua_assert(s, cond) == IF cond \/ s.err # "" THEN s ELSE [s EXCEPT !.bad = TRUE]
On(s, e) == [s EXCEPT !.e = e]          \* let the next operation work on e

hasjumps(e) == e.t # e.f
isnumeral(e) == e.k = "VKNUM" /\ e.t = NO_JUMP /\ e.f = NO_JUMP
Pc(s) == Len(s.code)
At(s, pc) == s.code[pc + 1]
getcode(s) == At(s, s.e.info)
SetArg(s, pc, arg, v) == [s EXCEPT !.code[pc + 1][arg] = v]

----------------------------------------------------------------------------
\* Jump lists: threaded through the offsets of the jumps themselves.

fixjump(s, pc, dest) == SetArg(s, pc, "B", dest - (pc + 1))
getjump(s, pc) ==
  IF At(s, pc).B = NO_JUMP THEN NO_JUMP ELSE pc + 1 + At(s, pc).B

RECURSIVE JumpList(_, _)
JumpList(s, list) ==
  IF list = NO_JUMP THEN <<>> ELSE <<list>> \o JumpList(s, getjump(s, list))

getjumpcontrol(s, pc) ==
  IF pc >= 1 /\ testTMode(At(s, pc - 1).op) THEN pc - 1 ELSE pc

need_value(s, list) ==
  \E pc \in ToSet(JumpList(s, list)) : At(s, getjumpcontrol(s, pc)).op # "TESTSET"

\* s.r says whether the node was a TESTSET and has been patched
patchtestreg(s, node, reg) ==
  LET pc == getjumpcontrol(s, node)
      i == At(s, pc)
  IN IF i.op # "TESTSET" THEN [s EXCEPT !.r = 0]
     ELSE IF reg # NO_REG /\ reg # i.B
          THEN [s EXCEPT !.r = 1, !.code[pc + 1].A = reg]
          ELSE [s EXCEPT !.r = 1, !.code[pc + 1] = Instr("TEST", i.B, 0, i.C)]

\* Mutant: the operand of a `not' keeps its values.
removevalues_Never(s, list) == s
removevalues(s, list) ==
  FoldLeft(LAMBDA t, pc : patchtestreg(t, pc, NO_REG), s, JumpList(s, list))

patchlistaux(s, list, vtarget, reg, dtarget) ==
  FoldLeft(LAMBDA t, pc : LET u == patchtestreg(t, pc, reg)
                          IN fixjump(lua_assert(u, u.r = 1 \/ dtarget # NO_JUMP), pc,
                                     IF u.r = 1 THEN vtarget ELSE dtarget),
           s, JumpList(s, list))

dischargejpc(s) ==
  [Do("patchlistaux", s, <<s.jpc, Pc(s), NO_REG, Pc(s)>>) EXCEPT !.jpc = NO_JUMP]

\* s.r is the concatenated list
luaK_concat(s, l1, l2) ==
  IF l2 = NO_JUMP THEN [s EXCEPT !.r = l1]
  ELSE IF l1 = NO_JUMP THEN [s EXCEPT !.r = l2]
  ELSE [fixjump(s, Last(JumpList(s, l1)), l2) EXCEPT !.r = l1]

luaK_getlabel(s) == [s EXCEPT !.lasttarget = Pc(s), !.r = Pc(s)]
luaK_patchtohere(s, list) ==
  LET c == Do("luaK_concat", luaK_getlabel(s), <<s.jpc, list>>) IN [c EXCEPT !.jpc = c.r]
luaK_patchlist(s, list, target) ==
  IF target = Pc(s) THEN Do("luaK_patchtohere", s, list)
  ELSE Do("patchlistaux", lua_assert(s, target < Pc(s)), <<list, target, NO_REG, target>>)

----------------------------------------------------------------------------
\* Emitting instructions

luaK_code(s, i) ==
  LET d == dischargejpc(s) IN [d EXCEPT !.code = Append(@, i), !.r = Pc(d)]
luaK_codeABC(s, op, a, b, c) ==
  LET valid == /\ getOpMode(op) = "ABC"
               /\ getBMode(op) # "N" \/ b = 0
               /\ getCMode(op) # "N" \/ c = 0
  IN Do("luaK_code", lua_assert(s, valid), Instr(op, a, b, c))
luaK_codeABx(s, op, a, bx) ==
  Do("luaK_code", lua_assert(s, getOpMode(op) \in {"ABx", "AsBx"}), Instr(op, a, bx, 0))

luaK_jump(s) ==
  LET j == Do("luaK_codeABx", [s EXCEPT !.jpc = NO_JUMP], <<"JMP", 0, NO_JUMP>>)
  IN Do("luaK_concat", j, <<j.r, s.jpc>>)
condjump(s, op, a, b, c) == Do("luaK_jump", Do("luaK_codeABC", s, <<op, a, b, c>>), 0)
luaK_ret(s, first, nret) == Do("luaK_codeABC", s, <<"RETURN", first, nret + 1, 0>>)

luaK_nil(s, from, n) ==
  LET prev == At(s, Pc(s) - 1)
      free == Pc(s) > s.lasttarget          \* no jumps to current position
  IN IF free /\ Pc(s) = 0 /\ from >= s.nactvar THEN s
     ELSE IF /\ free /\ Pc(s) # 0 /\ prev.op = "LOADNIL"
             /\ prev.A <= from /\ from <= prev.B + 1
     THEN IF from + n - 1 > prev.B THEN SetArg(s, Pc(s) - 1, "B", from + n - 1) ELSE s
     ELSE Do("luaK_codeABC", s, <<"LOADNIL", from, from + n - 1, 0>>)

----------------------------------------------------------------------------
\* Registers and constants

\* Mutant: the function is given one register less than it uses.
luaK_checkstack_Short(s, n) == [s EXCEPT !.stack = IF s.freereg + n <= @ THEN @ ELSE s.freereg + n - 1]
luaK_checkstack(s, n) ==
  IF s.freereg + n <= s.stack THEN s
  ELSE IF s.freereg + n >= MAXSTACK
  THEN luaX_syntaxerror(s, "function or expression too complex")
  ELSE [s EXCEPT !.stack = s.freereg + n]
luaK_reserveregs(s, n) == [luaK_checkstack(s, n) EXCEPT !.freereg = @ + n]

\* Mutant: the register of an active local variable is freed, too.
freereg_Locals(s, reg) ==
  IF ISK(reg) THEN s ELSE lua_assert([s EXCEPT !.freereg = @ - 1], reg = s.freereg - 1)
freereg(s, reg) ==
  IF ISK(reg) \/ reg < s.nactvar THEN s
  ELSE lua_assert([s EXCEPT !.freereg = @ - 1], reg = s.freereg - 1)
freeexp(s, e) == IF e.k = "VNONRELOC" THEN freereg(s, e.info) ELSE s

addk(s, v) ==
  IF Contains(s.k, v)
  THEN [s EXCEPT !.r = (CHOOSE i \in DOMAIN s.k : s.k[i] = v) - 1]
  ELSE [s EXCEPT !.k = Append(@, v), !.r = Len(s.k)]

----------------------------------------------------------------------------
\* Expressions

Relocable(s, pc) == [s EXCEPT !.e.k = "VRELOCABLE", !.e.info = pc]

luaK_setreturns(s, nresults) ==
  CASE s.e.k = "VCALL" -> SetArg(s, s.e.info, "C", nresults + 1)
    [] s.e.k = "VVARARG" ->
         luaK_reserveregs(SetArg(SetArg(s, s.e.info, "B", nresults + 1),
                                 s.e.info, "A", s.freereg), 1)
    [] OTHER -> s

luaK_setoneret(s) ==
  CASE s.e.k = "VCALL" -> [s EXCEPT !.e.k = "VNONRELOC", !.e.info = getcode(s).A]
    [] s.e.k = "VVARARG" -> [SetArg(s, s.e.info, "B", 2) EXCEPT !.e.k = "VRELOCABLE"]
    [] OTHER -> s

luaK_dischargevars(s) ==
  LET e == s.e
      Emit(c) == Relocable(c, c.r)
  IN CASE e.k = "VLOCAL"   -> [s EXCEPT !.e.k = "VNONRELOC"]
       [] e.k = "VUPVAL"   -> Emit(Do("luaK_codeABC", s, <<"GETUPVAL", 0, e.info, 0>>))
       [] e.k = "VGLOBAL"  -> Emit(Do("luaK_codeABx", s, <<"GETGLOBAL", 0, e.info>>))
       [] e.k = "VINDEXED" -> Emit(Do("luaK_codeABC", freereg(freereg(s, e.aux), e.info),
                                   <<"GETTABLE", 0, e.info, e.aux>>))
       [] OTHER -> luaK_setoneret(s)

code_label(s, a, b, jump) == Do("luaK_codeABC", luaK_getlabel(s), <<"LOADBOOL", a, b, jump>>)

discharge2reg(s0, reg) ==
  LET s == Do("luaK_dischargevars", s0, 0)
      e == s.e
      Here(c) == [c EXCEPT !.e.info = reg, !.e.k = "VNONRELOC"]
  IN CASE e.k = "VNIL" -> Here(Do("luaK_nil", s, <<reg, 1>>))
       [] e.k \in {"VFALSE", "VTRUE"} ->
            Here(Do("luaK_codeABC", s, <<"LOADBOOL", reg, IF e.k = "VTRUE" THEN 1 ELSE 0, 0>>))
       [] e.k = "VK" -> Here(Do("luaK_codeABx", s, <<"LOADK", reg, e.info>>))
       [] e.k = "VKNUM" -> LET c == addk(s, Num(e.info))
                           IN Here(Do("luaK_codeABx", c, <<"LOADK", reg, c.r>>))
       [] e.k = "VRELOCABLE" -> Here(SetArg(s, e.info, "A", reg))
       [] e.k = "VNONRELOC" -> Here(IF reg = e.info THEN s
                                    ELSE Do("luaK_codeABC", s, <<"MOVE", reg, e.info, 0>>))
       [] OTHER -> lua_assert(s, e.k \in {"VVOID", "VJMP"})

discharge2anyreg(s) ==
  IF s.e.k = "VNONRELOC" THEN s
  ELSE LET t == luaK_reserveregs(s, 1) IN Do("discharge2reg", t, t.freereg - 1)

exp2reg(s0, reg) ==
  LET d == Do("discharge2reg", s0, reg)
      c == Do("luaK_concat", d, <<d.e.t, d.e.info>>)
      s == IF d.e.k = "VJMP" THEN [c EXCEPT !.e.t = c.r] ELSE d
      e == s.e
      jp == IF e.k = "VJMP" THEN [s EXCEPT !.r = NO_JUMP] ELSE Do("luaK_jump", s, 0)
      lf == Do("code_label", jp, <<reg, 0, 1>>)          \* p_f: an eventual LOAD false
      lt == Do("code_label", lf, <<reg, 1, 0>>)          \* p_t: an eventual LOAD true
      loads == need_value(s, e.t) \/ need_value(s, e.f)
      v == luaK_getlabel(IF loads THEN Do("luaK_patchtohere", lt, jp.r) ELSE s)
      pf == IF loads THEN lf.r ELSE NO_JUMP
      pt == IF loads THEN lt.r ELSE NO_JUMP
      p == Do("patchlistaux", Do("patchlistaux", v, <<e.f, v.r, reg, pf>>), <<e.t, v.r, reg, pt>>)
  IN On(IF hasjumps(e) THEN p ELSE s, init_exp("VNONRELOC", reg))

luaK_exp2nextreg(s0) ==
  LET d == Do("luaK_dischargevars", s0, 0)
      s == luaK_reserveregs(freeexp(d, d.e), 1)
  IN Do("exp2reg", s, s.freereg - 1)

\* leaves the register in s.e.info
luaK_exp2anyreg(s0) ==
  LET s == Do("luaK_dischargevars", s0, 0)
  IN IF s.e.k = "VNONRELOC" /\ ~hasjumps(s.e) THEN s
     ELSE IF s.e.k = "VNONRELOC" /\ s.e.info >= s.nactvar THEN Do("exp2reg", s, s.e.info)
     ELSE Do("luaK_exp2nextreg", s, 0)

luaK_exp2val(s) ==
  IF hasjumps(s.e) THEN Do("luaK_exp2anyreg", s, 0) ELSE Do("luaK_dischargevars", s, 0)

\* s.r is a register, or a constant with BITRK
luaK_exp2RK(s0) ==
  LET s == Do("luaK_exp2val", s0, 0)
      e == s.e
      c == addk(s, CASE e.k = "VNIL" -> NilV
                     [] e.k = "VKNUM" -> Num(e.info)
                     [] OTHER -> Bool(e.k = "VTRUE"))
      r == Do("luaK_exp2anyreg", s, 0)
  IN IF e.k \in {"VKNUM", "VTRUE", "VFALSE", "VNIL"} /\ Len(s.k) <= MAXINDEXRK
     THEN [c EXCEPT !.e.k = "VK", !.e.info = c.r, !.r = RKASK(c.r)]
     ELSE IF e.k = "VK" /\ e.info <= MAXINDEXRK THEN [s EXCEPT !.r = RKASK(e.info)]
     ELSE [r EXCEPT !.r = r.e.info]

luaK_storevar(s, var) ==
  LET a == Do("luaK_exp2anyreg", s, 0)
      rk == Do("luaK_exp2RK", s, 0)
  IN CASE var.k = "VLOCAL" -> Do("exp2reg", freeexp(s, s.e), var.info)
       [] var.k = "VUPVAL" ->
            freeexp(Do("luaK_codeABC", a, <<"SETUPVAL", a.e.info, var.info, 0>>), a.e)
       [] var.k = "VGLOBAL" ->
            freeexp(Do("luaK_codeABx", a, <<"SETGLOBAL", a.e.info, var.info>>), a.e)
       [] var.k = "VINDEXED" ->
            freeexp(Do("luaK_codeABC", rk, <<"SETTABLE", var.info, var.aux, rk.r>>), rk.e)
       [] OTHER -> lua_assert(s, FALSE)

luaK_self(s0, key) ==
  LET o == Do("luaK_exp2anyreg", s0, 0)
      s == luaK_reserveregs(freeexp(o, o.e), 2)
      func == s.freereg - 2
      rk == Do("luaK_exp2RK", On(s, key), 0)
  IN On(freeexp(Do("luaK_codeABC", rk, <<"SELF", func, o.e.info, rk.r>>), rk.e),
        init_exp("VNONRELOC", func))

invertjump(s) ==
  LET pc == getjumpcontrol(s, s.e.info)
  IN SetArg(lua_assert(s, testTMode(At(s, pc).op) /\ At(s, pc).op \notin {"TESTSET", "TEST"}),
            pc, "A", 1 - At(s, pc).A)

jumponcond(s, cond) ==
  LET i == getcode(s)
      d == Do("discharge2anyreg", s, 0)
  IN IF s.e.k = "VRELOCABLE" /\ i.op = "NOT"
     THEN Do("condjump", [s EXCEPT !.code = Front(@)], <<"TEST", i.B, 0, 1 - cond>>)
     ELSE Do("condjump", freeexp(d, d.e), <<"TESTSET", NO_REG, d.e.info, cond>>)

luaK_goiftrue(s0) ==
  LET s == Do("luaK_dischargevars", s0, 0)
      j == CASE s.e.k \in {"VK", "VKNUM", "VTRUE"} -> [s EXCEPT !.r = NO_JUMP]
             [] s.e.k = "VFALSE" -> Do("luaK_jump", s, 0)
             [] s.e.k = "VJMP" -> [Do("invertjump", s, 0) EXCEPT !.r = s.e.info]
             [] OTHER -> Do("jumponcond", s, 0)
      c == Do("luaK_concat", j, <<j.e.f, j.r>>)
  IN [Do("luaK_patchtohere", c, c.e.t) EXCEPT !.e.f = c.r, !.e.t = NO_JUMP]

luaK_goiffalse(s0) ==
  LET s == Do("luaK_dischargevars", s0, 0)
      j == CASE s.e.k \in {"VNIL", "VFALSE"} -> [s EXCEPT !.r = NO_JUMP]
             [] s.e.k = "VTRUE" -> Do("luaK_jump", s, 0)
             [] s.e.k = "VJMP" -> [s EXCEPT !.r = s.e.info]
             [] OTHER -> Do("jumponcond", s, 1)
      c == Do("luaK_concat", j, <<j.e.t, j.r>>)
  IN [Do("luaK_patchtohere", c, c.e.f) EXCEPT !.e.t = c.r, !.e.f = NO_JUMP]

codenot(s0) ==
  LET s == Do("luaK_dischargevars", s0, 0)
      d == Do("discharge2anyreg", s, 0)
      c == Do("luaK_codeABC", freeexp(d, d.e), <<"NOT", 0, d.e.info, 0>>)
      n == CASE s.e.k \in {"VNIL", "VFALSE"} -> [s EXCEPT !.e.k = "VTRUE"]
             [] s.e.k \in {"VK", "VKNUM", "VTRUE"} -> [s EXCEPT !.e.k = "VFALSE"]
             [] s.e.k = "VJMP" -> Do("invertjump", s, 0)
             [] s.e.k \in {"VRELOCABLE", "VNONRELOC"} -> Relocable(c, c.r)
             [] OTHER -> lua_assert(s, FALSE)
      x == [n EXCEPT !.e.f = n.e.t, !.e.t = n.e.f]
  IN removevalues(removevalues(x, x.e.f), x.e.t)

luaK_indexed(s0, t) ==
  LET s == Do("luaK_exp2RK", s0, 0) IN On(s, [t EXCEPT !.aux = s.r, !.k = "VINDEXED"])

----------------------------------------------------------------------------
\* Operators: e1 is the left operand, s.e the right one

constfolding(op, e1, e2) ==
  /\ isnumeral(e1) /\ isnumeral(e2)
  /\ op \notin {"LEN", "CONCAT"}
  /\ op \in {"DIV", "MOD"} => e2.info # 0

codearith(s0, op, e1) ==
  LET s2 == IF op \in {"UNM", "LEN"} THEN [s0 EXCEPT !.r = 0] ELSE Do("luaK_exp2RK", s0, 0)
      s1 == Do("luaK_exp2RK", On(s2, e1), 0)
      fr == IF s1.r > s2.r THEN freeexp(freeexp(s1, s1.e), s2.e)
                           ELSE freeexp(freeexp(s1, s2.e), s1.e)
      c == Do("luaK_codeABC", fr, <<op, 0, s1.r, s2.r>>)
  IN IF constfolding(op, e1, s0.e)
     THEN On(s0, [e1 EXCEPT !.info = luai_arith(op, e1.info, s0.e.info)])
     ELSE Relocable(c, c.r)

codecomp(s0, op, cond, e1) ==
  LET s1 == Do("luaK_exp2RK", On(s0, e1), 0)
      s2 == Do("luaK_exp2RK", On(s1, s0.e), 0)
      fr == On(freeexp(freeexp(s2, s2.e), s1.e), s1.e)
      swap == cond = 0 /\ op # "EQ"
      j == Do("condjump", fr, <<op, IF swap THEN 1 ELSE cond,
                            IF swap THEN s2.r ELSE s1.r, IF swap THEN s1.r ELSE s2.r>>)
  IN [j EXCEPT !.e.k = "VJMP", !.e.info = j.r]

luaK_prefix(s, op) ==
  LET zero == init_exp("VKNUM", 0)
      a == Do("luaK_exp2anyreg", s, 0)
      m == IF s.e.k = "VK" THEN a ELSE s
  IN CASE op = "-" -> Do("codearith", On(m, zero), <<"UNM", m.e>>)
       [] op = "not" -> Do("codenot", s, 0)
       [] op = "#" -> Do("codearith", On(a, zero), <<"LEN", a.e>>)

ArithOp == [o \in {"+", "-", "*", "/", "%", "^"} |->
              CASE o = "+" -> "ADD" [] o = "-" -> "SUB" [] o = "*" -> "MUL"
                [] o = "/" -> "DIV" [] o = "%" -> "MOD" [] o = "^" -> "POW"]
CompOp == [o \in {"==", "~=", "<", "<=", ">", ">="} |->
             CASE o = "==" -> <<"EQ", 1>> [] o = "~=" -> <<"EQ", 0>>
               [] o = "<" -> <<"LT", 1>> [] o = "<=" -> <<"LE", 1>>
               [] o = ">" -> <<"LT", 0>> [] o = ">=" -> <<"LE", 0>>]

luaK_infix(s, op) ==
  CASE op = "and" -> Do("luaK_goiftrue", s, 0)
    [] op = "or" -> Do("luaK_goiffalse", s, 0)
    [] op = ".." -> Do("luaK_exp2nextreg", s, 0)
    [] op \in DOMAIN ArithOp /\ isnumeral(s.e) -> s
    [] OTHER -> Do("luaK_exp2RK", s, 0)

concatpostfix(s0, e1) ==
  LET s == Do("luaK_exp2val", s0, 0)
      right == s.e.k = "VRELOCABLE" /\ getcode(s).op = "CONCAT"
      a == lua_assert(s, e1.info = getcode(s).B - 1)
  IN IF right
     THEN On(SetArg(freeexp(a, e1), s.e.info, "B", e1.info),
             [e1 EXCEPT !.k = "VRELOCABLE", !.info = s.e.info])
     ELSE Do("codearith", Do("luaK_exp2nextreg", s, 0), <<"CONCAT", e1>>)

luaK_posfix(s, op, e1) ==
  LET d(list) == Do("luaK_dischargevars", lua_assert(s, list = NO_JUMP), 0)
      and == Do("luaK_concat", d(e1.t), <<d(e1.t).e.f, e1.f>>)
      or == Do("luaK_concat", d(e1.f), <<d(e1.f).e.t, e1.t>>)
  IN CASE op = "and" -> [and EXCEPT !.e.f = and.r]
       [] op = "or" -> [or EXCEPT !.e.t = or.r]
       [] op = ".." -> concatpostfix(s, e1)
       [] op \in DOMAIN ArithOp -> Do("codearith", s, <<ArithOp[op], e1>>)
       [] op \in DOMAIN CompOp -> Do("codecomp", s, <<CompOp[op][1], CompOp[op][2], e1>>)

luaK_setlist(s, base, nelems, tostore) ==
  LET c == (nelems - 1) \div LFIELDS_PER_FLUSH + 1
      b == IF tostore = -1 THEN 0 ELSE tostore
  IN [Do("luaK_codeABC", lua_assert(s, tostore # 0), <<"SETLIST", base, b, c>>)
        EXCEPT !.freereg = base + 1]
----------------------------------------------------------------------------
\* A function works on s, with what else it takes in x.
Do(f, s, x) ==
  IF s.err # "" THEN s ELSE        \* an error left by longjmp
  CASE f = "luaK_concat" -> luaK_concat(s, x[1], x[2])
    [] f = "luaK_patchtohere" -> luaK_patchtohere(s, x)
    [] f = "patchlistaux" -> patchlistaux(s, x[1], x[2], x[3], x[4])
    [] f = "discharge2anyreg" -> discharge2anyreg(s)
    [] f = "jumponcond" -> jumponcond(s, x)
    [] f = "invertjump" -> invertjump(s)
    [] f = "code_label" -> code_label(s, x[1], x[2], x[3])
    [] f = "condjump" -> condjump(s, x[1], x[2], x[3], x[4])
    [] f = "luaK_patchlist" -> luaK_patchlist(s, x[1], x[2])
    [] f = "luaK_code" -> luaK_code(s, x)
    [] f = "luaK_codeABC" -> luaK_codeABC(s, x[1], x[2], x[3], x[4])
    [] f = "luaK_codeABx" -> luaK_codeABx(s, x[1], x[2], x[3])
    [] f = "luaK_jump" -> luaK_jump(s)
    [] f = "luaK_ret" -> luaK_ret(s, x[1], x[2])
    [] f = "luaK_nil" -> luaK_nil(s, x[1], x[2])
    [] f = "luaK_setreturns" -> luaK_setreturns(s, x)
    [] f = "luaK_dischargevars" -> luaK_dischargevars(s)
    [] f = "discharge2reg" -> discharge2reg(s, x)
    [] f = "exp2reg" -> exp2reg(s, x)
    [] f = "luaK_exp2nextreg" -> luaK_exp2nextreg(s)
    [] f = "luaK_exp2anyreg" -> luaK_exp2anyreg(s)
    [] f = "luaK_exp2val" -> luaK_exp2val(s)
    [] f = "luaK_exp2RK" -> luaK_exp2RK(s)
    [] f = "luaK_storevar" -> luaK_storevar(s, x)
    [] f = "luaK_self" -> luaK_self(s, x)
    [] f = "luaK_goiftrue" -> luaK_goiftrue(s)
    [] f = "luaK_goiffalse" -> luaK_goiffalse(s)
    [] f = "codenot" -> codenot(s)
    [] f = "luaK_indexed" -> luaK_indexed(s, x)
    [] f = "codearith" -> codearith(s, x[1], x[2])
    [] f = "codecomp" -> codecomp(s, x[1], x[2], x[3])
    [] f = "luaK_prefix" -> luaK_prefix(s, x)
    [] f = "luaK_infix" -> luaK_infix(s, x)
    [] f = "luaK_posfix" -> luaK_posfix(s, x[1], x[2])
    [] f = "luaK_setlist" -> luaK_setlist(s, x[1], x[2], x[3])
=============================================================================
