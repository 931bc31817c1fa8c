----------------------------- MODULE LuaMachine -----------------------------
(***************************************************************************)
(* A chunk from its source to its end: the host loads it (lua_load, through  *)
(* LuaParser, or precompiled through LuaDump) and calls it protected         *)
(* (lua_pcall, through LuaDo); the virtual machine (LuaVM) then executes one *)
(* instruction at a step.                                                    *)
(***************************************************************************)
EXTENDS LuaBaseLib, LuaParser, LuaDump

CONSTANTS Source,              \* [chunk -> its tokens]
          Library              \* the tables of the host's library, globals first

VARIABLES chunkid,             \* the chunk the host runs
          form,                \* what it loads: "text", "binary", or a "cut" binary
          unit,                \* what f_parser makes of it, or of a binary, while it is read
          m                    \* the machine

vars == <<chunkid, form, unit, m>>

NotLoaded == [err |-> "not loaded", f |-> <<>>, bad |-> FALSE]
Idle == [halt |-> <<"idle">>, bad |-> FALSE]

Init ==
  /\ chunkid \in DOMAIN Source
  /\ form = "text"
  /\ unit = NotLoaded
  /\ m = Idle

\* what f_parser reads, and the host of what it makes of it
IsBinary(z) == z # <<>> /\ Head(z) = Head(LUA_SIGNATURE)
Loaded_(u) == IF u.err = "" THEN Host(u.f, Library) ELSE [Idle EXCEPT !.halt = <<"syntax error">>]

Load ==
  /\ unit = NotLoaded
  /\ ~IsBinary(Source[chunkid])
  /\ unit' = luaY_parser(Source[chunkid])
  /\ m' = Loaded_(unit')
  /\ UNCHANGED <<chunkid, form>>

\* The function, before it is called, is dumped, with or without what a
\* debugger needs, and loaded in its place, a function at a step.
Undumps(s) ==
  IF Undumping(s) THEN unit' = s /\ m' = Idle ELSE unit' = Undumped(s) /\ m' = Loaded_(unit')
LoadBinary ==
  /\ form = "text" /\ unit.err = "" /\ m = Host(unit.f, Library)
  /\ \E strip \in BOOLEAN : \E z \in {luaU_dump(unit.f, strip)} : IsBinary(z) /\ Undumps(luaU_undump(z))
  /\ form' = "binary"
  /\ UNCHANGED chunkid
LoadNext ==
  /\ m = Idle /\ unit # NotLoaded
  /\ Undumps(LoadFunction(unit))
  /\ UNCHANGED <<chunkid, form>>

\* What is left of it ends after n items, before what is read next.
Cut ==
  /\ form = "binary" /\ m = Idle
  /\ \E n \in 0 .. Len(unit.z) - Len(LoadFunction(unit).z) - 1 :
       Undumps(LoadFunction([unit EXCEPT !.z = SubSeq(@, 1, n)]))
  /\ form' = "cut"
  /\ UNCHANGED chunkid

Executing == m.halt = <<>> /\ m.pend = NoFrame
Execute(ops, Op(_, _)) ==
  /\ Executing
  /\ NextInstruction(m).op \in ops
  /\ m' = Op(Fetch(m), NextInstruction(m))
  /\ UNCHANGED <<chunkid, form, unit>>

Move == Execute(MoveOps, OpMove)
TableAccess == Execute(TableOps, OpTable)
Arithmetic == Execute(ArithOps, OpArith)
Jump == Execute(JumpOps, OpJump)
Call == Execute({"CALL"}, OpCall)
Tailcall == Execute({"TAILCALL"}, OpTailcall)
Return_ == Execute({"RETURN"}, OpReturn)
For == Execute(ForOps, OpFor)
Setlist == Execute({"SETLIST"}, OpSetlist)
Close == Execute({"CLOSE"}, LAMBDA x, i : luaF_close(x, T(x).base + i.A))
Closure == Execute({"CLOSURE"}, OpClosure)
Vararg == Execute({"VARARG"}, OpVararg)
Resume ==
  /\ m.halt = <<>> /\ m.pend # NoFrame
  /\ m' = IF m.pend.k \in CFunctions THEN RunLibrary(m) ELSE Continue(m)
  /\ UNCHANGED <<chunkid, form, unit>>

Next ==
  \/ Load \/ LoadBinary \/ LoadNext \/ Cut \/ Resume
  \/ Move \/ TableAccess \/ Arithmetic \/ Jump \/ Call \/ Tailcall \/ Return_
  \/ For \/ Setlist \/ Close \/ Closure \/ Vararg

\* Weak fairness of Next, with the guards of its actions in the place of its
\* ENABLED (which TLC evaluates by executing them).
Going ==
  \/ m = Idle
  \/ m.halt = <<>> /\ m.pend # NoFrame
  \/ Executing /\ NextInstruction(m).op \in DOMAIN luaP_opmodes
Halted == m.halt \notin {<<"idle">>, <<>>}
Fairness == []<>~Going \/ []<><<Next>>_vars
Spec == Init /\ [][Next]_vars /\ Fairness

----------------------------------------------------------------------------
Loaded == m # Idle /\ m.halt # <<"syntax error">>
Alive(t) == m.th[t].status # "error"

\* The lua_asserts of the compiler (lcode.c, lparser.c) and of the machine
\* (lvm.c, ldo.c, lapi.c) hold: registers are freed in stack order, a call
\* that leaves its results open is followed by their user, the saved frame is
\* the one that runs.
AssertsHold == m # Idle => ~m.bad /\ ~unit.bad

\* Every function of the programs that are run, at whatever depth, passes the
\* bytecode checker, as close_func asserts (lparser.c:451): no operand reaches
\* past the registers, constants and upvalues of its function, and no jump leaves
\* its code.  It is not true of every program: -nil has an operand that is a
\* constant where the checker wants a register (lcode.c:742, which takes only VK
\* to a register); the programs have no unary minus of nil, true or false.
RECURSIVE AllChecked(_)
AllChecked(f) == luaG_checkcode(f) /\ \A i \in DOMAIN f.p : AllChecked(f.p[i])
CodeChecked == m # Idle /\ unit.err = "" => AllChecked(unit.f)

\* The upvalues two closures share: an upvalue is open exactly as long as it
\* is in the list of its thread, the list descends strictly (one upvalue for a
\* slot), and the slot is one of a frame the thread still has.
UpvaluesSound ==
  Loaded => /\ \A t \in DOMAIN m.th :
                 LET open == m.th[t].openupval
                     ci == m.th[t].ci
                 IN /\ \A i, j \in DOMAIN open : i < j => UpSlot(m, open[i]) > UpSlot(m, open[j])
                    /\ \A u \in ToSet(open) : m.uv[u].open /\ m.uv[u].t = t
                    /\ Alive(t) => \A u \in ToSet(open) :
                         \E f \in ToSet(ci) : f.base <= UpSlot(m, u) /\ UpSlot(m, u) < f.top
            /\ \A u \in DOMAIN m.uv : m.uv[u].open => Contains(m.th[m.uv[u].t].openupval, u)

\* The thread whose code a frame of the C stack is: the one that resumed the
\* next coroutine, or the running one.
OwnerOf(i) ==
  LET j == SelectInSubSeq(m.cs, i, Len(m.cs), LAMBDA f : f.k = "resume")
  IN IF j = 0 THEN m.L ELSE m.cs[j].from
FramesOf(t) == {i \in DOMAIN m.cs : OwnerOf(i) = t}
SumOfCalls(I) == FoldSet(LAMBDA i, n : n + m.cs[i].n, 0, I)

\* The C stack and the stacks of the threads agree, through yields, errors and
\* coroutines that resume coroutines: a thread resumes at most one other and
\* none that waits for it; nCcalls, which forbids a yield and bounds the C
\* stack, counts the C calls of the thread that are pending; and every
\* activation record belongs to a luaV_execute or to a C function in progress
\* (one that is called back, or is to go on).
StacksAgree ==
  Loaded /\ m.halt = <<>> =>
    /\ \A i, j \in DOMAIN m.cs : i < j /\ m.cs[i].k = "resume" /\ m.cs[j].k = "resume"
                                  => m.cs[i].from # m.cs[j].from
    /\ \A i \in DOMAIN m.cs : m.cs[i].k = "resume" => m.cs[i].from # m.L
    /\ \A t \in DOMAIN m.th :
         LET F == FramesOf(t)
             exec == {i \in F : m.cs[i].k = "exec"}
             pending == {i \in F : m.cs[i].k \notin {"exec", "resume"}}
             cfuns == {i \in F : m.cs[i].k \in {"pcall", "resume"} \cup CContinuations}
             waiting == IF t = m.L /\ m.pend.k \in CFunctions THEN 1 ELSE 0
             raised == Cardinality({i \in F : m.cs[i].k = "errormsg"})
                       + IF t = m.L /\ m.pend.k \in {"raise", "throw"} THEN 1 ELSE 0
             lua == {i \in 2 .. Len(m.th[t].ci) : IsLuaFunction(m.th[t].stack[m.th[t].ci[i].func + 1])}
             c == Len(m.th[t].ci) - 1 - Cardinality(lua) - Cardinality(cfuns) - waiting
         IN Alive(t) => /\ m.th[t].nCcalls = Cardinality(pending)
                        /\ F # {} => Cardinality(lua) = SumOfCalls(exec) /\ c \in 0 .. raised

=============================================================================
