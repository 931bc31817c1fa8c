----------------------------- MODULE LuaParser ------------------------------
(***************************************************************************)
(* The one-pass compiler of Lua 5.1.2 (lparser.c) over the code generator   *)
(* of LuaCode.  The source text is a sequence of tokens (strings; "NL" marks *)
(* a line end).  The compiler state s stands for LexState and the current   *)
(* FuncState: besides the fields LuaCode names, s.p is the position of the   *)
(* current token, s.depth is nCcalls, s.actvar the names of the local        *)
(* variables (the ones after nactvar are declared but not active yet), s.bl  *)
(* the blocks, s.upv the upvalues, s.protos the nested functions, and s.prev *)
(* holds the state of the enclosing function, if there is one.  Every        *)
(* grammar rule takes s, leaves the expression it read in s.e and what else  *)
(* it returns in s.r.  Line numbers and debug information are left out.      *)
(***************************************************************************)
EXTENDS LuaCode

CONSTANT Strings               \* [token -> contents]

RECURSIVE Rule(_, _, _)        \* the grammar rules and the code generator, by name

Reserved == {"and", "break", "do", "else", "elseif", "end", "false", "for",
  "function", "if", "in", "local", "nil", "not", "or", "repeat", "return",
  "then", "true", "until", "while", "..", "...", "==", ">=", "<=", "~=", "+",
  "-", "*", "/", "%", "^", "#", "<", ">", "=", "(", ")", "{", "}", "[", "]",
  ";", ":", ",", ".", "EOS"}

Tok(s) == IF s.p > Len(s.toks) THEN "EOS" ELSE s.toks[s.p]
TokenKind(t) == IF t \in Reserved THEN t
                ELSE IF t \in DOMAIN Numerals THEN "NUMBER"
                ELSE IF t \in DOMAIN Strings THEN "STRING" ELSE "NAME"
Kind(s) == TokenKind(Tok(s))
luaX_next(s) ==
  LET q == s.p + 1
  IN [s EXCEPT !.p = IF q <= Len(s.toks) /\ s.toks[q] = "NL" THEN q + 1 ELSE q]
luaX_lookahead(s) == Kind(luaX_next(s))

testnext(s, c) == IF Kind(s) = c THEN [luaX_next(s) EXCEPT !.r = 1] ELSE [s EXCEPT !.r = 0]
check(s, c) == IF Kind(s) = c THEN s ELSE luaX_syntaxerror(s, c)
checknext(s, c) == IF Kind(s) = c THEN luaX_next(s) ELSE luaX_syntaxerror(s, c)
luaY_checklimit(s, v, limit, what) ==
  IF v > limit THEN luaX_syntaxerror(s, what) ELSE s
str_checkname(s) == checknext(s, "NAME")        \* the name is Tok(s)
codestring(s, atom) == LET c == addk(s, Str(atom)) IN On(c, init_exp("VK", c.r))
checkname(s) == codestring(str_checkname(s), Tok(s))
hasmultret(e) == e.k \in {"VCALL", "VVARARG"}
Multret == -1

----------------------------------------------------------------------------
\* Variables

new_localvar(s, name, n) ==
  [luaY_checklimit(s, s.nactvar + n + 1, LUAI_MAXVARS, "local variables")
     EXCEPT !.actvar = Append(SubSeq(@, 1, s.nactvar + n), name)]
adjustlocalvars(s, nvars) == [s EXCEPT !.nactvar = @ + nvars]
removevars(s, tolevel) == [s EXCEPT !.nactvar = tolevel]

searchvar(s, name) ==
  SelectLastInSubSeq(s.actvar, 1, s.nactvar, LAMBDA v : v = name) - 1
markupval(s, level) ==
  LET b == SelectLastInSeq(s.bl, LAMBDA x : x.nactvar <= level)
  IN IF b = 0 THEN s ELSE [s EXCEPT !.bl[b].upval = TRUE]

indexupvalue(s) ==
  LET u == [k |-> s.e.k, info |-> s.e.info]
      i == SelectInSeq(s.upv, LAMBDA x : x = u)
      new == [luaY_checklimit(s, Len(s.upv) + 1, LUAI_MAXUPVALUES, "upvalues")
                EXCEPT !.upv = Append(@, u)]
  IN IF i # 0 THEN On(s, init_exp("VUPVAL", i - 1))
     ELSE On(new, init_exp("VUPVAL", Len(s.upv)))

RECURSIVE singlevaraux(_, _, _)
singlevaraux(s, name, base) ==
  LET v == searchvar(s, name)
      up == singlevaraux(s.prev[1], name, FALSE)
  IN IF v >= 0 THEN On(IF base THEN s ELSE markupval(s, v), init_exp("VLOCAL", v))
     ELSE IF s.prev = <<>> THEN On(s, init_exp("VGLOBAL", NO_REG))
     ELSE IF up.err # "" THEN luaX_syntaxerror(s, up.err)
     ELSE IF up.e.k = "VGLOBAL" THEN On(s, up.e)
     ELSE indexupvalue([s EXCEPT !.prev = <<up>>, !.e = up.e])

singlevar(s) ==
  LET v == singlevaraux(str_checkname(s), Tok(s), TRUE)
      g == addk(v, Str(Tok(s)))
  IN IF v.e.k = "VGLOBAL" THEN [g EXCEPT !.e.info = g.r] ELSE v

\* s.e is the last of nexps expressions
adjust_assign(s, nvars, nexps) ==
  LET extra == nvars - nexps
      open == IF extra + 1 < 0 THEN 0 ELSE extra + 1       \* includes the call
      m == Rule("luaK_setreturns", s, open)
      v == IF s.e.k = "VVOID" THEN s ELSE Rule("luaK_exp2nextreg", s, 0)
  IN IF hasmultret(s.e) THEN IF open > 1 THEN luaK_reserveregs(m, open - 1) ELSE m
     ELSE IF extra > 0 THEN Rule("luaK_nil", luaK_reserveregs(v, extra), <<v.freereg, extra>>)
     ELSE v

enterlevel(s) ==
  luaY_checklimit([s EXCEPT !.depth = @ + 1], s.depth + 1, LUAI_MAXCCALLS, "syntax levels")
leavelevel(s) == [s EXCEPT !.depth = @ - 1]
chunk(s) == leavelevel(Rule("statements", enterlevel(s), 0))

----------------------------------------------------------------------------
\* Blocks and functions

enterblock(s, isbreakable) ==
  [lua_assert(s, s.freereg = s.nactvar) EXCEPT
     !.bl = Append(@, [breaklist |-> NO_JUMP, nactvar |-> s.nactvar,
                       upval |-> FALSE, isbreakable |-> isbreakable])]
leaveblock(s0) ==
  LET bl == Last(s0.bl)
      s == lua_assert([removevars(s0, bl.nactvar) EXCEPT !.bl = Front(@)],
                      ~bl.isbreakable \/ ~bl.upval)
      c == IF bl.upval THEN Rule("luaK_codeABC", s, <<"CLOSE", bl.nactvar, 0, 0>>) ELSE s
  IN Rule("luaK_patchtohere", [c EXCEPT !.freereg = c.nactvar], bl.breaklist)

open_func(s) ==
  [s EXCEPT !.prev = <<s>>, !.code = <<>>, !.k = <<>>, !.protos = <<>>,
            !.lasttarget = -1, !.jpc = NO_JUMP, !.freereg = 0, !.nactvar = 0,
            !.actvar = <<>>, !.bl = <<>>, !.upv = <<>>, !.stack = 2,
            !.numparams = 0, !.is_vararg = FALSE]
Proto(s) == [code |-> s.code, k |-> s.k, p |-> s.protos, upv |-> s.upv,
             maxstacksize |-> s.stack, numparams |-> s.numparams,
             is_vararg |-> s.is_vararg]
\* The state that remains is the function's, complete; its Proto is taken by
\* the caller, which goes on in s.prev.
close_func(s) ==
  LET c == Rule("luaK_ret", removevars(s, 0), <<0, 0>>) IN lua_assert(c, c.bl = <<>>)

pushclosure(fn) ==
  LET s == [fn.prev[1] EXCEPT !.p = fn.p, !.err = fn.err, !.bad = fn.bad,
                              !.depth = fn.depth, !.protos = Append(@, Proto(fn))]
      c == Rule("luaK_codeABx", s, <<"CLOSURE", 0, Len(s.protos) - 1>>)
      Pseudo(t, u) == Rule("luaK_codeABC", t,
                           <<IF u.k = "VLOCAL" THEN "MOVE" ELSE "GETUPVAL", 0, u.info, 0>>)
  IN FoldLeft(Pseudo, On(c, init_exp("VRELOCABLE", c.r)), fn.upv)

----------------------------------------------------------------------------
\* Expressions

expr(s) == Rule("subexpr", s, 0)

field(s) ==
  LET v == Rule("luaK_exp2anyreg", s, 0)
  IN Rule("luaK_indexed", Rule("checkname", luaX_next(v), 0), v.e)
yindex(s) == checknext(Rule("luaK_exp2val", expr(luaX_next(s)), 0), "]")

explist1(s) == Rule("explistrest", expr(s), 1)
explistrest(s, n) ==
  LET c == testnext(s, ",")
  IN IF c.r = 0 THEN [s EXCEPT !.r = n]
     ELSE Rule("explistrest", expr(Rule("luaK_exp2nextreg", c, 0)), n + 1)

\* cc: the last list item read (v), the register of the table (t), the numbers
\* of record and of array elements (nh, na) and of the elements pending (tostore)
recfield(s, cc) ==
  LET key == checknext(Rule(IF Kind(s) = "NAME" THEN "checkname" ELSE "yindex", s, 0), "=")
      rk == Rule("luaK_exp2RK", key, 0)
      val == Rule("luaK_exp2RK", expr(rk), 0)
      c == Rule("luaK_codeABC", val, <<"SETTABLE", cc.t, rk.r, val.r>>)
  IN [s |-> [c EXCEPT !.freereg = s.freereg], cc |-> [cc EXCEPT !.nh = @ + 1]]

closelistfield(s, cc) ==
  LET v == Rule("luaK_exp2nextreg", On(s, cc.v), 0)
      full == cc.tostore = LFIELDS_PER_FLUSH
  IN IF cc.v.k = "VVOID" THEN [s |-> s, cc |-> cc]
     ELSE [s |-> IF full THEN Rule("luaK_setlist", v, <<cc.t, cc.na, cc.tostore>>) ELSE v,
           cc |-> [cc EXCEPT !.v = VNONE, !.tostore = IF full THEN 0 ELSE @]]

lastlistfield(s, cc) ==
  LET v == Rule("luaK_exp2nextreg", On(s, cc.v), 0)
      open == Rule("luaK_setlist", Rule("luaK_setreturns", On(s, cc.v), Multret),
                   <<cc.t, cc.na, Multret>>)
  IN IF cc.tostore = 0 THEN s
     ELSE IF hasmultret(cc.v) THEN open
     ELSE Rule("luaK_setlist", IF cc.v.k = "VVOID" THEN s ELSE v, <<cc.t, cc.na, cc.tostore>>)

listfield(s, cc) ==
  LET v == expr(s)
  IN [s |-> v, cc |-> [cc EXCEPT !.v = v.e, !.na = @ + 1, !.tostore = @ + 1]]

constructoritems(s0, cc0) ==
  LET c == closelistfield(lua_assert(s0, cc0.v.k = "VVOID" \/ cc0.tostore > 0), cc0)
      s == c.s
      isrec == Kind(s) = "[" \/ (Kind(s) = "NAME" /\ luaX_lookahead(s) = "=")
      item == IF isrec THEN recfield(s, c.cc) ELSE listfield(s, c.cc)
      sep == Kind(item.s) \in {",", ";"}
  IN IF Kind(s0) = "}" THEN [s |-> s0, cc |-> cc0]
     ELSE IF sep THEN Rule("constructoritems", luaX_next(item.s), item.cc) ELSE item

\* the sizes in OP_NEWTABLE are hints; luaO_int2fb keeps those below 8
constructor(s0) ==
  LET n == Rule("luaK_codeABC", s0, <<"NEWTABLE", 0, 0, 0>>)
      s == Rule("luaK_exp2nextreg", On(n, init_exp("VRELOCABLE", n.r)), 0)
      i == Rule("constructoritems", checknext(s, "{"),
                [v |-> VNONE, t |-> s.e.info, na |-> 0, nh |-> 0, tostore |-> 0])
      l == lastlistfield(checknext(i.s, "}"), i.cc)
      na == i.cc.na - (IF i.cc.tostore # 0 /\ hasmultret(i.cc.v) THEN 1 ELSE 0)
  IN On(SetArg(SetArg(l, n.r, "B", na), n.r, "C", i.cc.nh), s.e)

\* n parameters read so far; LUA_COMPAT_VARARG is not defined
params(s, n) ==
  LET name == new_localvar(str_checkname(s), Tok(s), n)
  IN IF Kind(s) = "..." THEN [luaX_next(s) EXCEPT !.is_vararg = TRUE, !.r = n]
     ELSE IF Kind(s) # "NAME" THEN [luaX_syntaxerror(s, "<name> or ... expected") EXCEPT !.r = n]
     ELSE IF Kind(name) = "," THEN Rule("params", luaX_next(name), n + 1)
     ELSE [name EXCEPT !.r = n + 1]
parlist(s) ==
  LET q == IF Kind(s) = ")" THEN [s EXCEPT !.r = 0] ELSE Rule("params", s, 0)
      a == adjustlocalvars(q, q.r)
  IN luaK_reserveregs([a EXCEPT !.numparams = a.nactvar], a.nactvar)

body(s, needself) ==
  LET o == checknext(open_func(s), "(")
      f == IF needself THEN adjustlocalvars(new_localvar(o, "self", 0), 1) ELSE o
      b == chunk(checknext(parlist(f), ")"))
  IN Rule("pushclosure", close_func(checknext(b, "end")), 0)

\* s.e is the function; it has been put in a register at the top
funcargs(s) ==
  LET open == luaX_next(s)
      inner == IF Kind(open) = ")" THEN On(open, VNONE)
               ELSE Rule("luaK_setreturns", explist1(open), Multret)
      a == CASE Kind(s) = "(" ->
                  checknext(IF s.toks[s.p - 1] = "NL"
                            THEN luaX_syntaxerror(s, "ambiguous syntax") ELSE inner, ")")
             [] Kind(s) = "{" -> Rule("constructor", s, 0)
             [] Kind(s) = "STRING" -> luaX_next(codestring(s, Strings[Tok(s)]))
             [] OTHER -> luaX_syntaxerror(s, "function arguments expected")
      base == s.e.info
      v == IF hasmultret(a.e) \/ a.e.k = "VVOID" THEN a ELSE Rule("luaK_exp2nextreg", a, 0)
      n == IF hasmultret(a.e) THEN Multret ELSE v.freereg - (base + 1)
      c == Rule("luaK_codeABC", lua_assert(v, s.e.k = "VNONRELOC"), <<"CALL", base, n + 1, 2>>)
  IN On([c EXCEPT !.freereg = base + 1], init_exp("VCALL", c.r))

prefixexp(s) ==
  CASE Kind(s) = "(" -> Rule("luaK_dischargevars", checknext(expr(luaX_next(s)), ")"), 0)
    [] Kind(s) = "NAME" -> Rule("singlevar", s, 0)
    [] OTHER -> luaX_syntaxerror(s, "unexpected symbol")

primarysuffix(s) ==
  LET obj == Rule("luaK_exp2anyreg", s, 0)
  IN CASE Kind(s) = "." -> Rule("primarysuffix", Rule("field", s, 0), 0)
       [] Kind(s) = "[" ->
            Rule("primarysuffix", Rule("luaK_indexed", Rule("yindex", obj, 0), obj.e), 0)
       [] Kind(s) = ":" ->
            LET key == Rule("checkname", luaX_next(s), 0)
            IN Rule("primarysuffix",
                    Rule("funcargs", Rule("luaK_self", On(key, s.e), key.e), 0), 0)
       [] Kind(s) \in {"(", "STRING", "{"} ->
            Rule("primarysuffix", Rule("funcargs", Rule("luaK_exp2nextreg", s, 0), 0), 0)
       [] OTHER -> s
primaryexp(s) == Rule("primarysuffix", prefixexp(s), 0)

simpleexp(s) ==
  LET Take(t, e) == luaX_next(On(t, e))
      va == IF s.is_vararg THEN Rule("luaK_codeABC", s, <<"VARARG", 0, 1, 0>>)
            ELSE luaX_syntaxerror(s, "cannot use ...")
  IN CASE Kind(s) = "NUMBER" -> Take(s, init_exp("VKNUM", Numerals[Tok(s)]))
       [] Kind(s) = "STRING" -> luaX_next(codestring(s, Strings[Tok(s)]))
       [] Kind(s) = "nil" -> Take(s, init_exp("VNIL", 0))
       [] Kind(s) = "true" -> Take(s, init_exp("VTRUE", 0))
       [] Kind(s) = "false" -> Take(s, init_exp("VFALSE", 0))
       [] Kind(s) = "..." -> IF va.err # "" THEN va ELSE Take(va, init_exp("VVARARG", va.r))
       [] Kind(s) = "{" -> Rule("constructor", s, 0)
       [] Kind(s) = "function" -> Rule("body", luaX_next(s), FALSE)
       [] OTHER -> Rule("primaryexp", s, 0)

\* <<left, right>> priorities of the binary operators
priority == [o \in {"+", "-"} |-> <<6, 6>>] @@ [o \in {"*", "/", "%"} |-> <<7, 7>>]
         @@ ("^" :> <<10, 9>>) @@ (".." :> <<5, 4>>)
         @@ [o \in {"~=", "==", "<", "<=", ">", ">="} |-> <<3, 3>>]
         @@ ("and" :> <<2, 2>>) @@ ("or" :> <<1, 1>>)
UNARY_PRIORITY == 8

operators(s, limit) ==
  LET op == Kind(s)
      left == Rule("luaK_infix", luaX_next(s), op)
      right == Rule("subexpr", left, priority[op][2])
  IN IF op \in DOMAIN priority /\ priority[op][1] > limit
     THEN Rule("operators", Rule("luaK_posfix", right, <<op, left.e>>), limit) ELSE s
subexpr(s0, limit) ==
  LET s == enterlevel(s0)
      v == IF Kind(s) \in {"not", "-", "#"}
           THEN Rule("luaK_prefix", Rule("subexpr", luaX_next(s), UNARY_PRIORITY), Kind(s))
           ELSE simpleexp(s)
  IN leavelevel(Rule("operators", v, limit))

----------------------------------------------------------------------------
\* Statements

block_follow(kind) == kind \in {"else", "elseif", "end", "until", "EOS"}
block(s) ==
  LET c == chunk(enterblock(s, FALSE))
  IN Rule("leaveblock", lua_assert(c, Last(c.bl).breaklist = NO_JUMP), 0)

\* A local variable assigned to after it has been used as a table or an index
\* in the same assignment is copied to a new register first.
check_conflict(s, lhs, v) ==
  LET InTable(x) == x.k = "VINDEXED" /\ x.info = v.info
      InIndex(x) == x.k = "VINDEXED" /\ x.aux = v.info
      Safe(x) == [x EXCEPT !.info = IF InTable(x) THEN s.freereg ELSE @,
                           !.aux = IF InIndex(x) THEN s.freereg ELSE @]
      conflict == \E x \in ToSet(lhs) : InTable(x) \/ InIndex(x)
  IN [s |-> IF conflict
            THEN luaK_reserveregs(Rule("luaK_codeABC", s, <<"MOVE", s.freereg, v.info, 0>>), 1)
            ELSE s,
      lhs |-> [i \in DOMAIN lhs |-> Safe(lhs[i])]]

\* the variables take, from the last one, the values at the top registers
StoreDefaults(s0, lhs) ==
  FoldLeft(LAMBDA s, v : Rule("luaK_storevar", On(s, init_exp("VNONRELOC", s.freereg - 1)), v),
           s0, Reverse(lhs))

assignment(s0, lhs) ==
  LET s == IF Last(lhs).k \in {"VLOCAL", "VUPVAL", "VGLOBAL", "VINDEXED"} THEN s0
           ELSE luaX_syntaxerror(s0, "syntax error")
      nv == Rule("primaryexp", luaX_next(s), 0)
      cf == check_conflict(nv, lhs, nv.e)
      ex == explist1(checknext(s, "="))
      nexps == ex.r
      nvars == Len(lhs)
      adj == Rule("adjust_assign", ex, <<nvars, nexps>>)
      cut == [adj EXCEPT !.freereg = @ - (IF nexps > nvars THEN nexps - nvars ELSE 0)]
      one == Rule("luaK_storevar", luaK_setoneret(ex), Last(lhs))
  IN IF Kind(s) = ","
     THEN IF nv.e.k = "VLOCAL" THEN Rule("assignment", cf.s, Append(cf.lhs, nv.e))
          ELSE Rule("assignment", nv, Append(lhs, nv.e))
     ELSE IF s.err # "" THEN s
     ELSE IF nexps # nvars THEN StoreDefaults(cut, lhs)
     ELSE StoreDefaults(one, Front(lhs))

\* s.r is the list of jumps taken when the condition is false
cond(s0) ==
  LET s == expr(s0)
      g == Rule("luaK_goiftrue", IF s.e.k = "VNIL" THEN [s EXCEPT !.e.k = "VFALSE"] ELSE s, 0)
  IN [g EXCEPT !.r = g.e.f]

breakstat(s) ==
  LET b == SelectLastInSeq(s.bl, LAMBDA x : x.isbreakable)
      upval == \E i \in b + 1 .. Len(s.bl) : s.bl[i].upval
      c == IF upval THEN Rule("luaK_codeABC", s, <<"CLOSE", s.bl[b].nactvar, 0, 0>>) ELSE s
      j == Rule("luaK_jump", c, 0)
      l == Rule("luaK_concat", j, <<j.bl[b].breaklist, j.r>>)
  IN IF b = 0 THEN luaX_syntaxerror(s, "no loop to break")
     ELSE [l EXCEPT !.bl[b].breaklist = l.r]

whilestat(s0) ==
  LET s == luaK_getlabel(luaX_next(s0))
      c == Rule("cond", s, 0)
      j == Rule("luaK_jump", Rule("block", checknext(enterblock(c, TRUE), "do"), 0), 0)
      back == Rule("luaK_patchlist", j, <<j.r, s.r>>)
  IN Rule("luaK_patchtohere", Rule("leaveblock", checknext(back, "end"), 0), c.r)

repeatstat(s0) ==
  LET s == luaK_getlabel(s0)
      b == chunk(luaX_next(enterblock(enterblock(s, TRUE), FALSE)))
      c == Rule("cond", checknext(b, "until"), 0)
      simple == Rule("luaK_patchlist", Rule("leaveblock", c, 0), <<c.r, s.r>>)
      j == Rule("luaK_jump", Rule("leaveblock", Rule("luaK_patchtohere", breakstat(c), c.r), 0), 0)
      upval == Last(c.bl).upval
  IN Rule("leaveblock", IF upval THEN Rule("luaK_patchlist", j, <<j.r, s.r>>) ELSE simple, 0)

exp1(s) == Rule("luaK_exp2nextreg", expr(s), 0)

forbody(s0, base, nvars, isnum) ==
  LET s == checknext(adjustlocalvars(s0, 3), "do")
      prep == IF isnum THEN Rule("luaK_codeABx", s, <<"FORPREP", base, NO_JUMP>>)
              ELSE Rule("luaK_jump", s, 0)
      inner == adjustlocalvars(enterblock(prep, FALSE), nvars)
      b == Rule("block", luaK_reserveregs(inner, nvars), 0)
      e == Rule("luaK_patchtohere", Rule("leaveblock", b, 0), prep.r)
      loop == IF isnum THEN Rule("luaK_codeABx", e, <<"FORLOOP", base, NO_JUMP>>)
              ELSE Rule("luaK_jump", Rule("luaK_codeABC", e, <<"TFORLOOP", base, 0, nvars>>), 0)
  IN Rule("luaK_patchlist", loop, <<loop.r, prep.r + 1>>)

Locals(s0, names) ==
  FoldLeft(LAMBDA s, i : new_localvar(s, names[i], i - 1), s0, [i \in DOMAIN names |-> i])
fornum(s, varname) ==
  LET v == Locals(s, <<"(for index)", "(for limit)", "(for step)", varname>>)
      l == exp1(checknext(exp1(checknext(v, "=")), ","))
      one == addk(l, Num(1))
      step == IF Kind(l) = "," THEN exp1(luaX_next(l))
              ELSE luaK_reserveregs(Rule("luaK_codeABx", one, <<"LOADK", l.freereg, one.r>>), 1)
  IN Rule("forbody", step, <<s.freereg, 1, TRUE>>)

\* {`,' NAME}: s.r is the number of names so far
namelist(s, n) ==
  LET c == luaX_next(s)
  IN IF Kind(s) = "," THEN Rule("namelist", new_localvar(str_checkname(c), Tok(c), n), n + 1)
     ELSE [s EXCEPT !.r = n]
forlist(s, indexname) ==
  LET control == <<"(for generator)", "(for state)", "(for control)", indexname>>
      v == Rule("namelist", Locals(s, control), 4)
      x == explist1(checknext(v, "in"))
      a == luaK_checkstack(Rule("adjust_assign", x, <<3, x.r>>), 3)
  IN Rule("forbody", a, <<s.freereg, v.r - 3, FALSE>>)

forstat(s0) ==
  LET s == luaX_next(enterblock(s0, TRUE))
      n == str_checkname(s)
      b == CASE Kind(n) = "=" -> fornum(n, Tok(s))
             [] Kind(n) \in {",", "in"} -> forlist(n, Tok(s))
             [] OTHER -> luaX_syntaxerror(n, "= or in expected")
  IN Rule("leaveblock", checknext(b, "end"), 0)

test_then_block(s) ==          \* s.r is the list of jumps over the block
  LET c == Rule("cond", luaX_next(s), 0)
  IN [Rule("block", checknext(c, "then"), 0) EXCEPT !.r = c.r]

elseparts(s, flist, escapelist) ==
  LET j == Rule("luaK_jump", s, 0)
      esc == Rule("luaK_concat", j, <<escapelist, j.r>>)
      here == Rule("luaK_patchtohere", esc, flist)
      t == test_then_block(here)
      el == Rule("block", luaX_next(here), 0)
      last == Rule("luaK_concat", s, <<escapelist, flist>>)
  IN CASE Kind(s) = "elseif" -> Rule("elseparts", t, <<t.r, esc.r>>)
       [] Kind(s) = "else" -> Rule("luaK_patchtohere", el, esc.r)
       [] OTHER -> Rule("luaK_patchtohere", last, last.r)
ifstat(s) ==
  LET t == test_then_block(s) IN checknext(Rule("elseparts", t, <<t.r, NO_JUMP>>), "end")

localfunc(s0) ==
  LET s == new_localvar(str_checkname(s0), Tok(s0), 0)
      b == Rule("body", adjustlocalvars(luaK_reserveregs(s, 1), 1), FALSE)
  IN Rule("luaK_storevar", b, init_exp("VLOCAL", s.freereg))
localstat(s0) ==
  LET n == Rule("namelist", new_localvar(str_checkname(s0), Tok(s0), 0), 1)
      x == IF Kind(n) = "=" THEN explist1(luaX_next(n)) ELSE [On(n, VNONE) EXCEPT !.r = 0]
  IN adjustlocalvars(Rule("adjust_assign", x, <<n.r, x.r>>), n.r)

fieldnames(s) == IF Kind(s) = "." THEN Rule("fieldnames", Rule("field", s, 0), 0) ELSE s
funcstat(s) ==
  LET n == Rule("fieldnames", Rule("singlevar", luaX_next(s), 0), 0)
      needself == Kind(n) = ":"
      v == IF needself THEN Rule("field", n, 0) ELSE n
  IN Rule("luaK_storevar", Rule("body", v, needself), v.e)

exprstat(s) ==
  LET v == Rule("primaryexp", s, 0)
  IN IF v.e.k = "VCALL" THEN SetArg(v, v.e.info, "C", 1) ELSE Rule("assignment", v, <<v.e>>)

retstat(s0) ==
  LET s == luaX_next(s0)
      x == explist1(s)
      m == Rule("luaK_setreturns", x, Multret)
      tail == lua_assert([m EXCEPT !.code[m.e.info + 1].op = "TAILCALL"],
                         getcode(m).A = m.nactvar)
      one == Rule("luaK_exp2anyreg", x, 0)
      all == Rule("luaK_exp2nextreg", x, 0)
  IN CASE block_follow(Kind(s)) \/ Kind(s) = ";" -> Rule("luaK_ret", s, <<0, 0>>)
       [] hasmultret(x.e) ->
            Rule("luaK_ret", IF x.e.k = "VCALL" /\ x.r = 1 THEN tail ELSE m, <<s.nactvar, Multret>>)
       [] x.r = 1 -> Rule("luaK_ret", one, <<one.e.info, 1>>)
       [] OTHER -> Rule("luaK_ret", lua_assert(all, x.r = all.freereg - s.nactvar),
                        <<s.nactvar, x.r>>)

statement(s) ==                \* s.r = 1 when it must be the last one
  LET k == Kind(s)
      st == CASE k = "if" -> ifstat(s)
              [] k = "while" -> whilestat(s)
              [] k = "do" -> checknext(Rule("block", luaX_next(s), 0), "end")
              [] k = "for" -> forstat(s)
              [] k = "repeat" -> repeatstat(s)
              [] k = "function" -> funcstat(s)
              [] k = "local" /\ luaX_lookahead(s) = "function" ->
                   localfunc(luaX_next(luaX_next(s)))
              [] k = "local" -> localstat(luaX_next(s))
              [] k = "return" -> retstat(s)
              [] k = "break" -> breakstat(luaX_next(s))
              [] OTHER -> exprstat(s)
  IN [st EXCEPT !.r = IF k \in {"return", "break"} THEN 1 ELSE 0]

statements(s) ==
  LET st == Rule("statement", s, 0)
      t == [testnext(st, ";") EXCEPT !.r = st.r]
      a == lua_assert(t, t.stack >= t.freereg /\ t.freereg >= t.nactvar)
      n == [a EXCEPT !.freereg = a.nactvar]
  IN IF block_follow(Kind(s)) THEN s ELSE IF n.r = 1 THEN n ELSE Rule("statements", n, 0)

mainfunc(s) == close_func(check(chunk(s), "EOS"))

Rule(f, s, x) ==
  IF s.err # "" THEN s ELSE        \* an error left by longjmp
  CASE f = "mainfunc" -> mainfunc(s)
    [] f = "primaryexp" -> primaryexp(s)
    [] f = "body" -> body(s, x)
    [] f = "forbody" -> forbody(s, x[1], x[2], x[3])
    [] f = "singlevar" -> singlevar(s)
    [] f = "cond" -> cond(s)
    [] f = "adjust_assign" -> adjust_assign(s, x[1], x[2])
    [] f = "constructor" -> constructor(s)
    [] f = "block" -> block(s)
    [] f = "leaveblock" -> leaveblock(s)
    [] f = "field" -> field(s)
    [] f = "yindex" -> yindex(s)
    [] f = "pushclosure" -> pushclosure(s)
    [] f = "checkname" -> checkname(s)
    [] f = "statement" -> statement(s)
    [] f = "funcargs" -> funcargs(s)
    [] f = "subexpr" -> subexpr(s, x)
    [] f = "operators" -> operators(s, x)
    [] f = "primarysuffix" -> primarysuffix(s)
    [] f = "constructoritems" -> constructoritems(s, x)
    [] f = "explistrest" -> explistrest(s, x)
    [] f = "params" -> params(s, x)
    [] f = "assignment" -> assignment(s, x)
    [] f = "namelist" -> namelist(s, x)
    [] f = "elseparts" -> elseparts(s, x[1], x[2])
    [] f = "fieldnames" -> fieldnames(s)
    [] f = "statements" -> statements(s)
    [] OTHER -> Do(f, s, x)

\* s.f of the result is the Proto of the main function
Parsed(c) == [err |-> c.err, f |-> Proto(c),
              bad |-> c.bad \/ (c.err = "" /\ (c.upv # <<>> \/ c.prev # <<>>))]
luaY_parser(toks) ==
  Parsed(Rule("mainfunc",
    [toks |-> toks, p |-> IF toks # <<>> /\ toks[1] = "NL" THEN 2 ELSE 1,
     err |-> "", bad |-> FALSE, depth |-> 0,
     e |-> VNONE, r |-> 0, prev |-> <<>>, code |-> <<>>, k |-> <<>>,
     protos |-> <<>>, lasttarget |-> -1, jpc |-> NO_JUMP, freereg |-> 0,
     nactvar |-> 0, actvar |-> <<>>, bl |-> <<>>, upv |-> <<>>, stack |-> 2,
     numparams |-> 0, is_vararg |-> TRUE], 0))        \* main is always vararg
=============================================================================
