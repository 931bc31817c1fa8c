------------------------------- MODULE LuaDo --------------------------------
(***************************************************************************)
(* Calls, errors, coroutines and upvalues of Lua 5.1.2 (ldo.c, lfunc.c, the  *)
(* coroutine part of lbaselib.c), as operators on a machine state m:         *)
(*   m.th   the threads: stack (slot i is stack[i + 1]), base, top, ci (the  *)
(*          CallInfo array, last one active), size_ci, status, openupval     *)
(*          (ids, in list order) and nCcalls; m.L is the running one         *)
(*   m.cl, m.uv, m.tb   closures, upvalues and tables, by id                 *)
(*   m.cs   the C stack: "exec" is a luaV_execute with its nexeccalls, the   *)
(*          other kinds are C code that has called luaD_call (or, "resume",  *)
(*          luaV_execute) and what it will do with the results               *)
(*   m.pend what C code does next, a step of its own: it calls a function, a *)
(*          C function starts, has returned ("done") or goes on, an error is *)
(*          raised; m.halt the final outcome.                                *)
(* Memory is unlimited; strings of error messages are kinds.                 *)
(***************************************************************************)
EXTENDS LuaOpcodes, SequencesExt

CONSTANTS LUAI_MAXCALLS,       \* limit of the CallInfo array
          BASIC_CI_SIZE        \* its first size

ASSUME CallLimits == /\ BASIC_CI_SIZE \in Nat \ {0, 1}
                     /\ LUAI_MAXCALLS \in Nat /\ BASIC_CI_SIZE <= LUAI_MAXCALLS

LUA_MULTRET == -1
LUA_MINSTACK == 20
NoFrame == [k |-> "none"]

T(m) == m.th[m.L]
Ci(m) == Last(T(m).ci)
Slot(m, i) == T(m).stack[i + 1]
Put(m, i, v) ==
  [m EXCEPT !.th[m.L].stack =
     IF i < Len(@) THEN [@ EXCEPT ![i + 1] = v]
     ELSE @ \o [j \in 1 .. i - Len(@) |-> NilV] \o <<v>>]
SetTop(m, top) == [m EXCEPT !.th[m.L].top = top]
Push(m, v) == SetTop(Put(m, T(m).top, v), T(m).top + 1)
PushAll(m, vs) == FoldLeft(Push, m, vs)
Between(m, from, to) == [i \in 1 .. to - from |-> Slot(m, from + i - 1)]
Args(m) == Between(m, T(m).base, T(m).top)
Arg(m, n) == IF n <= Len(Args(m)) THEN Args(m)[n] ELSE NilV
EditCi(m, field, v) == [m EXCEPT !.th[m.L].ci[Len(T(m).ci)][field] = v]
IsLuaFunction(v) == v[1] = "func"
IsFunction(v) == v[1] \in {"func", "cfn"}
VmAssert(m, c) == IF c THEN m ELSE [m EXCEPT !.bad = TRUE]
ErrorKind(kind) == Str(kind)

----------------------------------------------------------------------------
\* Upvalues: the open ones of a thread are listed from the top of its stack

UpSlot(m, u) == m.uv[u].slot
UpGet(m, u) == IF m.uv[u].open THEN m.th[m.uv[u].t].stack[m.uv[u].slot + 1] ELSE m.uv[u].val
UpSet(m, u, v) ==
  IF m.uv[u].open THEN [m EXCEPT !.th[m.uv[u].t].stack[m.uv[u].slot + 1] = v]
  ELSE [m EXCEPT !.uv[u].val = v]

\* m.r is the upvalue of the slot
\* Mutant: a new upvalue goes to the end of the list.
luaF_findupval_AtEnd(m, level) ==
  LET i == SelectInSeq(T(m).openupval, LAMBDA u : UpSlot(m, u) = level)
      new == Len(m.uv) + 1
  IN IF i # 0 THEN [m EXCEPT !.r = T(m).openupval[i]]
     ELSE [m EXCEPT !.r = new,
                    !.uv = Append(@, [open |-> TRUE, t |-> m.L, slot |-> level, val |-> NilV]),
                    !.th[m.L].openupval = Append(@, new)]
luaF_findupval(m, level) ==
  LET open == T(m).openupval
      i == SelectInSeq(open, LAMBDA u : UpSlot(m, u) <= level)
      at == IF i = 0 THEN Len(open) + 1 ELSE i
      new == Len(m.uv) + 1
  IN IF i # 0 /\ UpSlot(m, open[at]) = level THEN [m EXCEPT !.r = open[at]]
     ELSE [m EXCEPT !.r = new,
                    !.uv = Append(@, [open |-> TRUE, t |-> m.L, slot |-> level, val |-> NilV]),
                    !.th[m.L].openupval = InsertAt(@, at, new)]

luaF_close(m, level) ==
  LET open == T(m).openupval
      i == SelectInSeq(open, LAMBDA u : UpSlot(m, u) < level)
      n == IF i = 0 THEN Len(open) ELSE i - 1
      closed == ToSet(SubSeq(open, 1, n))
  IN [m EXCEPT !.th[m.L].openupval = SubSeq(@, n + 1, Len(@)),
               !.uv = [u \in DOMAIN @ |-> IF u \in closed
                                          THEN [@[u] EXCEPT !.open = FALSE, !.val = UpGet(m, u)]
                                          ELSE @[u]]]

----------------------------------------------------------------------------
\* Errors: unwind to the innermost luaD_rawrunprotected

InUse(m) == Len(T(m).ci)
restore_stack_limit(m) ==
  IF T(m).size_ci > LUAI_MAXCALLS /\ InUse(m) < LUAI_MAXCALLS
  THEN [m EXCEPT !.th[m.L].size_ci = LUAI_MAXCALLS] ELSE m

luaD_poscall(m, first) ==
  LET ci == Ci(m)
      have == Between(m, first, T(m).top)
      res == IF ci.nresults = LUA_MULTRET THEN have
             ELSE [i \in 1 .. ci.nresults |-> IF i <= Len(have) THEN have[i] ELSE NilV]
      p == [m EXCEPT !.th[m.L].ci = Front(@)]
  IN PushAll(SetTop([p EXCEPT !.th[m.L].base = Ci(p).base], ci.func), res)

\* an error; with a handler set, its call comes first
luaG_errormsg(m, v) == [m EXCEPT !.pend = [k |-> "raise", v |-> v]]
luaG_runerror(m, kind) == luaG_errormsg(m, ErrorKind(kind))

\* a C function returns its n topmost values
FinishC(m, n) ==
  LET wanted == Ci(m).nresults
      p == luaD_poscall(m, T(m).top - n)
      t == IF wanted = LUA_MULTRET THEN p ELSE SetTop(p, Ci(p).top)
  IN IF Last(p.cs).k = "exec" THEN t ELSE [p EXCEPT !.pend = [k |-> "done"]]

\* luaB_pcall (or luaB_xpcall) after lua_pcall: status in front of the results
EndPcall(m, ok, f) ==
  LET res == Between(m, f.oldtop, T(m).top)
      handler == [m EXCEPT !.th[m.L].errfunc = f.errfunc]
  IN FinishC(PushAll(SetTop(handler, T(m).base), <<Bool(ok)>> \o res), Len(res) + 1)

\* luaB_coresume (or luaB_auxwrap) in the resuming thread
EndResume(m, ok, vals) ==
  IF Slot(m, Ci(m).func)[2] = "auxwrap"
  THEN IF ok THEN FinishC(PushAll(m, vals), Len(vals)) ELSE luaG_errormsg(m, vals[1])
  ELSE FinishC(PushAll(m, <<Bool(ok)>> \o vals), Len(vals) + 1)

\* back in auxresume: the values the coroutine has on its stack are moved
ResumeReturns(m, from, ok) ==
  LET n == IF ok THEN T(m).top - T(m).base ELSE 1
      vals == Between(m, T(m).top - n, T(m).top)
  IN EndResume([SetTop(m, T(m).top - n) EXCEPT !.L = from], ok, vals)

\* C code on top of the C stack gets the results of what it called
Complete(m0) ==
  LET f == Last(m0.cs)
      m == [m0 EXCEPT !.cs = Front(@)]
      r == [m EXCEPT !.th[m.L].nCcalls = f.nCcalls]
  IN CASE f.k = "start" -> [r EXCEPT !.halt = <<"ok", Between(m, f.oldtop, T(m).top)>>]
       [] f.k = "pcall" -> EndPcall(r, TRUE, f)
       [] f.k = "errormsg" -> [r EXCEPT !.pend = [k |-> "throw", v |-> Slot(r, T(r).top - 1)]]
       [] f.k = "resume" -> ResumeReturns(m, f.from, TRUE)
       [] OTHER -> [r EXCEPT !.pend = f]

\* luaD_throw with the handler: luaD_pcall, lua_resume or the host's call
luaD_throw(m, v) ==
  LET b == SelectLastInSeq(m.cs, LAMBDA f : f.k \in {"pcall", "resume", "start"})
      f == m.cs[b]
      u == [m EXCEPT !.cs = SubSeq(@, 1, b - 1)]
      c == Push(SetTop(luaF_close(u, f.oldtop), f.oldtop), v)
      p == [c EXCEPT !.th[m.L].nCcalls = f.nCcalls, !.th[m.L].ci = SubSeq(@, 1, f.ci)]
      d == Push([u EXCEPT !.th[m.L].status = "error"], v)
  IN CASE f.k = "start" -> [u EXCEPT !.halt = <<"error", v>>]
       [] f.k = "pcall" ->
            EndPcall(restore_stack_limit([p EXCEPT !.th[m.L].base = Ci(p).base]), FALSE, f)
       [] f.k = "resume" -> ResumeReturns(EditCi(d, "top", T(d).top), f.from, FALSE)

----------------------------------------------------------------------------
\* Calls

Meta(m, v, event) ==                                   \* luaT_gettmbyobj
  IF v[1] = "table" /\ m.tb[v[2]].meta # 0
     /\ Str(event) \in DOMAIN m.tb[m.tb[v[2]].meta].map
  THEN m.tb[m.tb[v[2]].meta].map[Str(event)] ELSE NilV

\* the stack with the function to call at func
tryfuncTM(m, func) ==
  LET tm == Meta(m, Slot(m, func), "__call")
      vs == <<tm>> \o Between(m, func, T(m).top)
  IN IF IsFunction(Slot(m, func)) THEN m
     ELSE IF IsFunction(tm) THEN PushAll(SetTop(m, func), vs)
     ELSE [m EXCEPT !.r = "not callable"]

\* inc_ci: s.r says what went wrong, if anything
inc_ci(m) ==
  LET size == T(m).size_ci
      grown == [m EXCEPT !.th[m.L].size_ci = 2 * size]
  IN IF InUse(m) < size THEN [m EXCEPT !.r = ""]
     ELSE IF size > LUAI_MAXCALLS THEN [m EXCEPT !.r = "error in error handling"]
     ELSE IF 2 * size > LUAI_MAXCALLS THEN [grown EXCEPT !.r = "stack overflow"]
     ELSE [grown EXCEPT !.r = ""]
NewCi(m, func, base, top, nresults) ==
  [m EXCEPT !.th[m.L].base = base,
            !.th[m.L].ci = Append(@, [func |-> func, base |-> base, top |-> top, pc |-> 0,
                                      nresults |-> nresults, tailcalls |-> 0])]

\* m.r is the base of the function
adjust_varargs(m, p, actual) ==
  LET pad == PushAll(m, [i \in 1 .. p.numparams - actual |-> NilV])
      n == IF actual < p.numparams THEN p.numparams ELSE actual
      fixed == T(pad).top - n
      Move(t, i) == Put(Push(t, Slot(t, fixed + i)), fixed + i, NilV)
  IN [FoldLeft(Move, pad, [i \in 1 .. p.numparams |-> i - 1]) EXCEPT !.r = T(pad).top]

EnterLua(m, func, nresults) ==
  LET p == m.cl[Slot(m, func)[2]].p
      fixed == IF T(m).top > func + 1 + p.numparams THEN SetTop(m, func + 1 + p.numparams) ELSE m
      a == IF p.is_vararg THEN adjust_varargs(m, p, T(m).top - func - 1)
           ELSE [fixed EXCEPT !.r = func + 1]
      top == a.r + p.maxstacksize
      ci == NewCi(a, func, a.r, top, nresults)
  IN SetTop(PushAll(ci, [i \in 1 .. top - T(a).top |-> NilV]), top)

EnterC(m, func, nresults) ==
  [NewCi(m, func, func + 1, T(m).top + LUA_MINSTACK, nresults)
     EXCEPT !.pend = [k |-> Slot(m, func)[2]]]

\* Precall(m, func, nresults, fresh): fresh when a new luaV_execute is to run
\* a Lua function, else it goes on in the one at the top of the C stack.
Precall(m0, func, nresults, fresh) ==
  LET m == tryfuncTM([m0 EXCEPT !.r = ""], func)
      c == inc_ci(m)
      e == EnterLua(c, func, nresults)
  IN IF m.r # "" THEN luaG_runerror(m, "call error")
     ELSE IF c.r = "error in error handling" THEN [c EXCEPT !.pend = [k |-> "throw", v |-> ErrorKind(c.r)]]
     ELSE IF c.r # "" THEN luaG_runerror(c, c.r)
     ELSE IF ~IsLuaFunction(Slot(m, func)) THEN EnterC(c, func, nresults)
     ELSE IF fresh THEN [e EXCEPT !.cs = Append(@, [k |-> "exec", n |-> 1])]
     ELSE [e EXCEPT !.cs[Len(m.cs)].n = @ + 1]

\* the caller's frame is completed when the results are there
luaD_call(m, func, nresults, frame) ==
  LET n == T(m).nCcalls + 1
      c == [m EXCEPT !.th[m.L].nCcalls = n,
                     !.cs = Append(@, frame @@ [nCcalls |-> n - 1])]
  IN IF n = LUAI_MAXCCALLS THEN luaG_runerror(c, "C stack overflow")
     ELSE IF n >= LUAI_MAXCCALLS + LUAI_MAXCCALLS \div 8
     THEN [c EXCEPT !.pend = [k |-> "throw", v |-> ErrorKind("error in error handling")]]
     ELSE [c EXCEPT !.pend = [k |-> "call", func |-> func, nresults |-> nresults]]

\* the handler of an xpcall makes the message, where the error is
CallHandler(m, v) ==
  LET handler == Slot(m, T(m).errfunc)
  IN IF T(m).errfunc = 0 THEN luaD_throw(m, v)
     ELSE IF ~IsFunction(handler) THEN luaD_throw(m, ErrorKind("error in error handling"))
     ELSE luaD_call(PushAll(m, <<handler, v>>), T(m).top, 1, [k |-> "errormsg"])

\* luaV_execute returns to the C code that called it
LeaveExec(m) == Complete([m EXCEPT !.cs = Front(@)])

----------------------------------------------------------------------------
\* Coroutines

NewThread == [stack |-> <<NilV>>, base |-> 1, top |-> 1, size_ci |-> BASIC_CI_SIZE,
              ci |-> <<[func |-> 0, base |-> 1, top |-> 1 + LUA_MINSTACK, pc |-> 0,
                        nresults |-> 0, tailcalls |-> 0]>>,
              status |-> "ok", openupval |-> <<>>, nCcalls |-> 0, errfunc |-> 0]

\* luaB_cowrap makes a function of the thread luaB_cocreate has made
luaB_cocreate(m, wrapped) ==
  LET id == Len(m.th) + 1
      t == [NewThread EXCEPT !.stack = Append(@, Arg(m, 1)), !.top = 2]
      v == IF wrapped THEN <<"cfn", "auxwrap", id>> ELSE <<"thread", id>>
  IN IF ~IsLuaFunction(Arg(m, 1)) THEN luaG_runerror(m, "Lua function expected")
     ELSE FinishC(Push([m EXCEPT !.th = Append(@, t)], v), 1)

\* the luaV_execute that goes on with the frames of a coroutine that yielded
\* Mutant: the C function that yielded, or the first record, is counted as one.
Reentered_All(m) == [k |-> "exec", n |-> InUse(m)]
Reentered(m) == [k |-> "exec", n |-> InUse(m) - 1]
\* lua_resume on the running thread m.L, which has its arguments on its stack
lua_resume(m, nargs) ==
  LET first == T(m).top - nargs
      wanted == Ci(m).nresults
      r == luaD_poscall([m EXCEPT !.th[m.L].status = "ok"], first)
      t == IF wanted = LUA_MULTRET THEN r ELSE SetTop(r, Ci(r).top)
  IN IF T(m).status = "ok" THEN Precall(m, first - 1, LUA_MULTRET, TRUE)
     ELSE [t EXCEPT !.cs = Append(@, Reentered(t))]

auxresume(m, co, args) ==
  LET c == m.th[co]
      l == SetTop(m, T(m).top - Len(args))
      moved == PushAll([l EXCEPT !.L = co], args)
      go == [moved EXCEPT !.cs = Append(@, [k |-> "resume", from |-> m.L, nCcalls |-> 0])]
      \* resume_error: the message replaces what the coroutine has on its stack
      refused == [SetTop(moved, Ci(moved).base) EXCEPT !.L = m.L]
  IN IF c.status = "ok" /\ c.top = c.base THEN EndResume(m, FALSE, <<ErrorKind("dead coroutine")>>)
     ELSE IF c.status = "error" THEN EndResume(refused, FALSE, <<ErrorKind("dead coroutine")>>)
     ELSE IF c.status = "ok" /\ Len(c.ci) > 1
     THEN EndResume(refused, FALSE, <<ErrorKind("non-suspended coroutine")>>)
     ELSE lua_resume(VmAssert(go, c.nCcalls = 0 /\ c.errfunc = 0), Len(args))

lua_yield(m, nresults) ==
  IF T(m).nCcalls > 0 THEN luaG_runerror(m, "yield across C-call boundary")
  ELSE LeaveExec([m EXCEPT !.th[m.L].base = T(m).top - nresults,
                           !.th[m.L].status = "yield"])

costatus(m, co) ==
  LET c == m.th[co]
  IN CASE co = m.L -> "running"
       [] co # m.L /\ c.status = "yield" -> "suspended"
       [] co # m.L /\ c.status = "ok" ->
            IF Len(c.ci) > 1 THEN "normal" ELSE IF c.top = c.base THEN "dead" ELSE "suspended"
       [] OTHER -> "dead"

----------------------------------------------------------------------------
\* The C functions the programs call

luaD_pcall(m, func, errfunc) ==
  luaD_call([m EXCEPT !.th[m.L].errfunc = errfunc], func, LUA_MULTRET,
            [k |-> "pcall", oldtop |-> func, ci |-> InUse(m), errfunc |-> T(m).errfunc])
luaB_pcall(m) == luaD_pcall(m, T(m).base, 0)
luaB_xpcall(m) ==              \* the handler goes under the function
  LET base == T(m).base
  IN luaD_pcall(PushAll(SetTop(m, base), <<Arg(m, 2), Arg(m, 1)>>), base + 1, base)

Return(m, v) == FinishC(Push(m, v), 1)
ipairsaux(m) ==
  LET i == Num(Arg(m, 2)[2] + 1)
      map == m.tb[Arg(m, 1)[2]].map
  IN IF i \in DOMAIN map THEN FinishC(PushAll(m, <<i, map[i]>>), 2) ELSE FinishC(m, 0)

\* the C function that was called
CoreFunctions == {"print", "error", "pcall", "xpcall", "ipairs", "ipairsaux", "create", "wrap",
                  "resume", "auxwrap", "yield", "status"}
RunC(m) ==
  LET f == Slot(m, Ci(m).func)
      name == f[2]
      a == Arg(m, 1)
  IN CASE name = "print" -> FinishC([m EXCEPT !.out = @ \o Args(m)], 0)
       [] name = "error" -> luaG_errormsg(m, a)
       [] name = "pcall" -> luaB_pcall(m)
       [] name = "xpcall" -> luaB_xpcall(m)
       [] name = "ipairs" -> FinishC(PushAll(m, <<<<"cfn", "ipairsaux">>, a, Num(0)>>), 3)
       [] name = "ipairsaux" -> ipairsaux(m)
       [] name = "create" -> luaB_cocreate(m, FALSE)
       [] name = "wrap" -> luaB_cocreate(m, TRUE)
       [] name = "resume" -> IF a[1] # "thread" THEN luaG_runerror(m, "coroutine expected")
                             ELSE auxresume(m, a[2], Tail(Args(m)))
       [] name = "auxwrap" -> auxresume(m, f[3], Args(m))
       [] name = "yield" -> lua_yield(m, Len(Args(m)))
       [] name = "status" -> Return(m, ErrorKind(costatus(m, a[2])))
=============================================================================
