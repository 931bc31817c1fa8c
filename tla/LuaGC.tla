-------------------------------- MODULE LuaGC --------------------------------
(***************************************************************************)
(* The incremental garbage collector of Lua (lgc.c) and the program that     *)
(* works on the heap between its steps.  An object refers to the objects in  *)
(* refs: the fields of a table, the upvalues of a closure, the metatable of  *)
(* a userdata, the value of an upvalue, the stack of a thread.  The slot of  *)
(* a local variable that closures share is the refs of its open upvalue, and *)
(* part of the stack of its owner.  Lists of objects are sets: the order in  *)
(* which the collector takes them is left open.  How much one luaC_step does *)
(* is left open too: the program may run after every singlestep, and a sweep *)
(* step takes one object.                                                    *)
(***************************************************************************)
EXTENDS Integers, FiniteSets

CONSTANTS Main, Coroutines, Registry, Tables, WeakValues, WeakKeys,
          Closures, Upvals, Udata, Strings,
          NoThread,            \* the owner of a closed upvalue
          Worlds               \* [refs, owner: the heap at first, pool: what may be
                               \* allocated, may: what an object may refer to]

Threads == {Main} \cup Coroutines
AllTables == {Registry} \cup Tables \cup WeakValues \cup WeakKeys
Weak == WeakValues \cup WeakKeys
Values == (AllTables \ {Registry}) \cup Coroutines \cup Closures \cup Udata \cup Strings
Objects == {Main, Registry} \cup Values \cup Upvals
Listed == AllTables \cup Closures \cup Threads     \* traversed through the gray list
Whites == {"white", "otherwhite"}     \* the current white, and that of the cycle before

\* an object is of one type
ASSUME TypesAssumption ==
  /\ Threads \cap (AllTables \cup Closures \cup Upvals \cup Udata \cup Strings) = {}
  /\ AllTables \cap (Closures \cup Upvals \cup Udata \cup Strings) = {}
  /\ Closures \cap (Upvals \cup Udata \cup Strings) = {}
  /\ Upvals \cap (Udata \cup Strings) = {}
  /\ Udata \cap Strings = {}
  /\ Main \notin Coroutines /\ Registry \notin Tables \cup Weak
  /\ NoThread \notin Threads

\* the heap at first: what refers is there, and so is the thread of an open upvalue
ASSUME WorldsAssumption ==
  \A w \in Worlds :
    LET there == {Main, Registry} \cup UNION {w.refs[o] : o \in Objects}
    IN /\ w.refs \in [Objects -> SUBSET (Values \cup Upvals)]
       /\ w.owner \in [Upvals -> Threads \cup {NoThread}]
       /\ \A o \in Objects \ there : w.refs[o] = {}
       /\ \A u \in Upvals : w.refs[u] \subseteq Values
       /\ \A u \in Upvals \cap there : w.owner[u] \in there \cup {NoThread}
       /\ \A d \in Udata : w.refs[d] \subseteq AllTables
       /\ \A s \in Strings : w.refs[s] = {}

VARIABLES
  world, allocated, refs, owner, running,          \* the heap and the program
  marked, gcstate, gray, grayagain, weak, unswept,
  full,                                            \* luaC_fullgc: no, clear (the cycle before it),
                                                   \* mark, call (of a finalizer)
  hasgc, finalized, tmudata, called,               \* userdata and their __gc
  due,                                             \* those that lua_close owes theirs
  phase                                            \* of the state: open, closing (lua_close is
                                                   \* between two finalizers), finalizing, closed

heap == <<world, allocated, refs, owner, running>>
lists == <<gray, grayagain, weak>>
cycle == <<gcstate, unswept, full>>
final == <<hasgc, finalized, tmudata, called, due>>
vars == <<heap, marked, lists, cycle, final, phase>>

IsWhite(m, o) == m[o] \in Whites
isblack(o) == marked[o] = "black"
isdead(o) == marked[o] = "otherwhite"
OpenUpvals(th) == {u \in Upvals \cap allocated : owner[u] = th}

----------------------------------------------------------------------------
\* Marking

\* what the traversal of o marks
Strong(o) ==
  IF o \in Weak THEN {}
  ELSE IF o \in Threads THEN refs[o] \cup UNION {refs[u] : u \in OpenUpvals(o)}
  ELSE refs[o]

WhiteIn(m, S) == {o \in S : IsWhite(m, o)}
\* reallymarkobject follows userdata and upvalues itself, and lists the others
Marking(S) ==
  LET values(T) == T \cup UNION {refs[u] : u \in WhiteIn(marked, T) \cap Upvals}
      metatables(T) == T \cup UNION {refs[u] : u \in WhiteIn(marked, T) \cap Udata}
  IN WhiteIn(marked, metatables(values(S)))
MarkedAs(o) == IF o \in Udata \/ (o \in Upvals /\ owner[o] = NoThread) THEN "black" ELSE "gray"
Painted(S) == [o \in Objects |-> IF o \in S THEN MarkedAs(o) ELSE marked[o]]
reallymarkobject(S) ==
  /\ marked' = Painted(Marking(S))
  /\ gray' = gray \cup (Marking(S) \cap Listed)

\* propagateall: the white objects that S leads to, as m has the colours
Reached(m, S) ==
  LET whites == WhiteIn(m, allocated)
      closed == {T \in SUBSET whites : \A o \in T : WhiteIn(m, Strong(o)) \subseteq T}
  IN {o \in whites : \A T \in closed : WhiteIn(m, S) \subseteq T => o \in T}
TraversedAs(o) == IF o \in Listed \ (Threads \cup Weak) THEN "black" ELSE MarkedAs(o)

----------------------------------------------------------------------------
\* Barriers

\* luaC_barrier: o, which may be black, refers to v now
\* Mutant: there is none.
luaC_barrier_None(o, v) == UNCHANGED <<marked, lists>>
luaC_barrier(o, v) ==
  IF isblack(o) /\ IsWhite(marked, v)
  THEN IF gcstate = "propagate" THEN reallymarkobject({v}) /\ UNCHANGED <<grayagain, weak>>
       ELSE marked' = [marked EXCEPT ![o] = "white"] /\ UNCHANGED lists
  ELSE UNCHANGED <<marked, lists>>
\* luaC_barriert: table t refers to v now
\* Mutant: the table is not traversed again.
luaC_barriert_Gray(t, v) ==
  /\ marked' = IF isblack(t) /\ IsWhite(marked, v) THEN [marked EXCEPT ![t] = "gray"] ELSE marked
  /\ UNCHANGED lists
luaC_barriert(t, v) ==
  IF isblack(t) /\ IsWhite(marked, v)
  THEN /\ marked' = [marked EXCEPT ![t] = "gray"]
       /\ grayagain' = grayagain \cup {t}
       /\ UNCHANGED <<gray, weak>>
  ELSE UNCHANGED <<marked, lists>>

----------------------------------------------------------------------------
Init ==
  /\ world \in Worlds /\ refs = world.refs /\ owner = world.owner
  /\ allocated = {Main, Registry} \cup UNION {refs[o] : o \in Objects}
  /\ running = Main
  /\ marked = [o \in Objects |-> "white"]
  /\ gcstate = "pause" /\ full = "no"
  /\ gray = {} /\ grayagain = {} /\ weak = {} /\ unswept = {}
  /\ hasgc = {} /\ finalized = {} /\ tmudata = {} /\ called = {} /\ due = {}
  /\ phase = "open"

----------------------------------------------------------------------------
\* The program: what it has is on the stack of the running thread.  It runs
\* between steps, and in finalizers also within a full collection and lua_close.
Going == phase \in {"open", "finalizing"}
Active == Going /\ full \in {"no", "call"}
Held == refs[running]
Table(t) == t \in (Held \cup {Registry} \cup refs[Registry]) \cap AllTables
Push(o) == /\ o \in world.may[running]
           /\ refs' = [refs EXCEPT ![running] = @ \cup {o}]
NewObject(S) == marked' = [o \in Objects |-> IF o \in S THEN "white" ELSE marked[o]]

\* luaC_link, luaS_newudata, newlstr, luaE_newthread
luaC_link(o) ==
  /\ Active /\ o \in (world.pool \cap Values) \ allocated
  /\ Push(o) /\ allocated' = allocated \cup {o} /\ NewObject({o})
  /\ UNCHANGED <<world, owner, running, lists, cycle, final, phase>>

\* luaS_newlstr of a string that exists, possibly dead
luaS_newlstr(s) ==
  /\ Active /\ s \in Strings \cap allocated
  /\ Push(s) /\ NewObject({s} \cap {o \in Objects : isdead(o)})
  /\ UNCHANGED <<world, allocated, owner, running, lists, cycle, final, phase>>

\* a field, or a variable of a closure, is read
Read(x, o) ==
  /\ Active /\ (Table(x) \/ \E c \in Held \cap Closures : x \in refs[c])
  /\ o \in refs[x] /\ Push(o)
  /\ UNCHANGED <<world, allocated, owner, running, marked, lists, cycle, final, phase>>

SetField(t, o) ==
  /\ Active /\ Table(t) /\ o \in Held /\ o \in world.may[t]
  /\ refs' = [refs EXCEPT ![t] = @ \cup {o}]
  /\ luaC_barriert(t, o)
  /\ UNCHANGED <<world, allocated, owner, running, cycle, final, phase>>

ClearField(t, o) ==
  /\ Active /\ Table(t) /\ o \in refs[t]
  /\ refs' = [refs EXCEPT ![t] = @ \ {o}]
  /\ UNCHANGED <<world, allocated, owner, running, marked, lists, cycle, final, phase>>

Pop(o) ==
  /\ Active /\ o \in Held
  /\ refs' = [refs EXCEPT ![running] = @ \ {o}]
  /\ UNCHANGED <<world, allocated, owner, running, marked, lists, cycle, final, phase>>

\* OP_CLOSURE: a closure over a local variable, whose upvalue luaF_findupval
\* finds, possibly dead, or creates
\* Mutant: a dead upvalue is found and left dead.
Resurrected_Not(u) == {u} \ allocated
Resurrected(u) == {u} \cap {x \in Upvals : x \notin allocated \/ isdead(x)}
NewClosure(c, u) ==
  /\ Active /\ c \in (world.pool \cap Closures) \ allocated
  /\ u \in (world.pool \ allocated) \cup OpenUpvals(running)
  /\ c \in world.may[running]
  /\ refs' = [refs EXCEPT ![running] = @ \cup {c}, ![c] = {u}]
  /\ allocated' = allocated \cup {c, u}
  /\ owner' = [owner EXCEPT ![u] = running]
  /\ NewObject({c} \cup Resurrected(u))
  /\ UNCHANGED <<world, running, lists, cycle, final, phase>>

\* the local variable is assigned where it lives, on the stack
SetLocal(u, o) ==
  /\ Active /\ u \in OpenUpvals(running) /\ o \in Held
  /\ o \in world.may[u] /\ refs' = [refs EXCEPT ![u] = {o}]
  /\ UNCHANGED <<world, allocated, owner, running, marked, lists, cycle, final, phase>>

\* OP_SETUPVAL
SetUpval(c, u, o) ==
  /\ Active /\ c \in Held \cap Closures /\ u \in refs[c] \cap Upvals /\ o \in Held
  /\ o \in world.may[u] /\ refs' = [refs EXCEPT ![u] = {o}]
  /\ luaC_barrier(u, o)
  /\ UNCHANGED <<world, allocated, owner, running, cycle, final, phase>>

\* luaC_linkupval: the upvalue that is closed keeps the tricolour invariant
luaC_linkupval(u) ==
  LET new == Marking(refs[u])
  IN CASE marked[u] # "gray" -> UNCHANGED <<marked, lists>>
       [] marked[u] = "gray" /\ gcstate = "propagate" ->
            /\ marked' = [Painted(new) EXCEPT ![u] = "black"]
            /\ gray' = gray \cup (new \cap Listed) /\ UNCHANGED <<grayagain, weak>>
       [] OTHER -> marked' = [marked EXCEPT ![u] = "white"] /\ UNCHANGED lists
luaF_close(u) ==               \* the block of the variable ends
  /\ Active /\ u \in OpenUpvals(running)
  /\ owner' = [owner EXCEPT ![u] = NoThread]
  /\ IF isdead(u)
     THEN /\ allocated' = allocated \ {u} /\ refs' = [refs EXCEPT ![u] = {}]
          /\ marked' = [marked EXCEPT ![u] = "white"] /\ UNCHANGED lists
     ELSE luaC_linkupval(u) /\ UNCHANGED <<allocated, refs>>
  /\ UNCHANGED <<world, running, cycle, final, phase>>

\* lua_setmetatable of a userdata; withgc: the metatable has a __gc
With(t) == {u \in Udata : t \in refs[u]}
Gc(S, withgc) ==
  /\ hasgc' = IF withgc THEN hasgc \cup S ELSE hasgc \ S
  /\ due' = due \cap hasgc'
lua_setmetatable(u, t, withgc) ==
  /\ Active /\ u \in Held \cap Udata /\ t \in Held \cap AllTables
  /\ With(t) \subseteq IF withgc THEN hasgc ELSE Udata \ hasgc
  /\ refs' = [refs EXCEPT ![u] = {t}]
  /\ Gc({u}, withgc)
  /\ luaC_barrier(u, t)
  /\ UNCHANGED <<world, allocated, owner, running, cycle, finalized, tmudata, called, phase>>

\* the field __gc of a metatable is set, or cleared
SetGc(t, withgc) ==
  /\ Active /\ Table(t) /\ With(t) # {}
  /\ Gc(With(t), withgc)
  /\ UNCHANGED <<heap, marked, lists, cycle, finalized, tmudata, called, phase>>

\* lua_resume and lua_yield, with an argument or none
Switch(th, given) ==
  /\ Active /\ given \subseteq Held \cap world.may[th]
  /\ \/ running = Main /\ th \in Held \cap Coroutines
     \/ running \in Coroutines /\ th = Main
  /\ running' = th
  /\ refs' = [refs EXCEPT ![th] = @ \cup given]
  /\ UNCHANGED <<world, allocated, owner, marked, lists, cycle, final, phase>>

\* an error in a finalizer ends the full collection that has called it
luaD_throw ==
  /\ Active /\ full = "call" /\ full' = "no"
  /\ UNCHANGED <<heap, marked, lists, gcstate, unswept, final, phase>>

----------------------------------------------------------------------------
\* The collector

NewCycle ==                    \* markroot
  /\ gcstate' = "propagate"
  /\ LET new == WhiteIn(marked, {Main, Registry})
     IN marked' = Painted(new) /\ gray' = new
  /\ grayagain' = {} /\ weak' = {}
markroot ==
  /\ Going /\ gcstate = "pause"
  /\ NewCycle
  /\ UNCHANGED <<heap, unswept, full, final, phase>>

propagatemark(o) ==
  /\ Going /\ gcstate = "propagate" /\ o \in gray
  /\ LET new == Marking(Strong(o))
     IN /\ marked' = [Painted(new) EXCEPT ![o] = TraversedAs(o)]
        /\ gray' = (gray \ {o}) \cup (new \cap Listed)
  /\ grayagain' = IF o \in Threads THEN grayagain \cup {o} ELSE grayagain
  /\ weak' = IF o \in Weak THEN weak \cup {o} ELSE weak
  /\ UNCHANGED <<heap, cycle, final, phase>>

\* remarkupvals: the variables that live on stacks, also of dead threads
\* Mutant: they are left to the traversal of the stacks.
remarkupvals_None == {}
remarkupvals ==
  UNION {refs[u] : u \in {x \in Upvals \cap allocated : owner[x] # NoThread /\ marked[x] = "gray"}}

\* what cleartable takes out of w
Cleared(w, m, ended) ==
  {o \in refs[w] \ Strings : IsWhite(m, o) \/ (w \in WeakValues /\ o \in Udata \cap ended)}

\* luaC_separateudata: the unreachable userdata that have not been finalized
\* Mutant: those that have, too.
luaC_separateudata_Again(m) == WhiteIn(m, Udata \cap allocated)
luaC_separateudata(m) == WhiteIn(m, Udata \cap allocated) \ finalized

atomic ==
  /\ Going /\ gcstate = "propagate" /\ gray = {}
  /\ LET again == grayagain \cup weak
         first == Reached(marked, remarkupvals \cup {running} \cup UNION {Strong(o) : o \in again})
         m1 == [o \in Objects |-> IF o \in first \cup again THEN TraversedAs(o) ELSE marked[o]]
         dead == luaC_separateudata(m1)
         waiting == tmudata \cup (dead \cap hasgc)
         second == Reached(m1, UNION {refs[u] : u \in waiting})   \* marktmu, propagateall
         m2 == [o \in Objects |-> IF o \in second \cup waiting THEN TraversedAs(o) ELSE m1[o]]
         tables == weak \cup (Weak \cap (first \cup second))
         strings == WhiteIn(m2, Strings) \cap UNION {refs[w] : w \in tables}
     IN /\ marked' = [o \in Objects |-> IF o \in strings THEN "gray"
                                         ELSE IF o \in allocated /\ m2[o] = "white" THEN "otherwhite" ELSE m2[o]]
        /\ finalized' = finalized \cup dead
        /\ tmudata' = waiting
        /\ refs' = [w \in Objects |-> IF w \in tables THEN refs[w] \ Cleared(w, m2, finalized')
                                      ELSE refs[w]]
        /\ weak' = tables /\ grayagain' = Threads \cap (again \cup first \cup second)
        /\ unswept' = allocated \ (waiting \cup {u \in Upvals : owner[u] # NoThread})
  /\ gcstate' = "sweepstring"
  /\ UNCHANGED <<world, allocated, owner, running, gray, full, hasgc, called, due, phase>>

\* sweeplist: an object, and the open upvalues of a thread before it
\* Mutant: only the open upvalues are freed.
Erased_Upvals(o) == {x \in OpenUpvals(o) : isdead(x)}
Erased(o) == {x \in OpenUpvals(o) \cup ({o} \ {Main}) : isdead(x)}
sweeplist(o) ==
  LET open == OpenUpvals(o)
      freed == Erased(o)
  IN /\ o \in unswept /\ unswept' = unswept \ {o}
     /\ allocated' = allocated \ freed
     /\ marked' = [x \in Objects |-> IF x \in freed THEN "white"
                                     ELSE IF x \in open \cup {o} THEN "white" ELSE marked[x]]
     /\ refs' = [x \in Objects |-> IF x \in freed THEN {} ELSE refs[x]]
     /\ owner' = [u \in Upvals |-> IF u \in open /\ ({u, o} \cap freed) # {}   \* luaE_freethread
                                   THEN NoThread ELSE owner[u]]
     /\ hasgc' = hasgc \ freed /\ finalized' = finalized \ freed /\ called' = called \ freed
     /\ due' = due \ freed
     /\ UNCHANGED <<world, running, lists, full, tmudata, phase>>
SweepString(s) ==
  /\ Going /\ gcstate = "sweepstring" /\ s \in Strings
  /\ sweeplist(s) /\ UNCHANGED gcstate
StringsSwept ==
  /\ Going /\ gcstate = "sweepstring" /\ unswept \cap Strings = {}
  /\ gcstate' = "sweep"
  /\ UNCHANGED <<heap, marked, lists, unswept, full, final, phase>>
Sweep(o) ==
  /\ Going /\ gcstate = "sweep"
  /\ sweeplist(o)
  /\ gcstate' = IF unswept' = {} THEN "finalize" ELSE "sweep"

\* GCTM: u returns to the other objects, and its finalizer, if it has one still,
\* is called with u on the stack
GCTMOf(u) ==
  /\ u \in tmudata /\ tmudata' = tmudata \ {u}
  /\ marked' = [marked EXCEPT ![u] = "white"]
  /\ called' = called \cup ({u} \cap hasgc)
  /\ refs' = [refs EXCEPT ![running] = @ \cup ({u} \cap hasgc)]
  /\ UNCHANGED <<world, allocated, owner, running, lists, gcstate, unswept, hasgc, finalized, due>>
GCTM(u) ==
  /\ Going /\ gcstate = "finalize" /\ full # "clear"
  /\ GCTMOf(u) /\ UNCHANGED phase
  /\ full' = IF full = "mark" /\ u \in hasgc THEN "call" ELSE full
EndCycle ==
  /\ Going /\ gcstate = "finalize" /\ full # "clear" /\ tmudata = {}
  /\ gcstate' = "pause" /\ full' = "no"
  /\ UNCHANGED <<heap, marked, lists, unswept, final, phase>>

\* luaC_fullgc ends the cycle there is, or sweeps the marks it made, and then
\* runs a cycle.  A finalizer it calls may start another one, and end with it.
luaC_fullgc ==
  /\ Active /\ full' = "clear"
  /\ IF gcstate \in {"pause", "propagate"}
     THEN /\ gray' = {} /\ grayagain' = {} /\ weak' = {}
          /\ unswept' = allocated \ (tmudata \cup {u \in Upvals : owner[u] # NoThread})
          /\ gcstate' = "sweepstring"
     ELSE UNCHANGED <<lists, unswept, gcstate>>
  /\ UNCHANGED <<heap, marked, final, phase>>
FullCycle ==
  /\ Going /\ full = "clear" /\ gcstate = "finalize" /\ full' = "mark"
  /\ NewCycle
  /\ UNCHANGED <<heap, unswept, final, phase>>

----------------------------------------------------------------------------
\* lua_close

\* luaC_separateudata with all
\* Mutant: only the dead userdata are separated.
LeftToFinalize_Dead == {u \in Udata \cap allocated : isdead(u)} \ finalized
LeftToFinalize == (Udata \cap allocated) \ finalized
\* taken for garbage while it had no finalizer (lgc.c:159): it gets none
Spared == finalized \ (called \cup tmudata)

\* The host calls it, outside of any Lua function.  The variables of the main
\* thread have been closed (luaF_close), its stack is emptied.
lua_close ==
  /\ phase = "open" /\ full = "no" /\ running = Main /\ OpenUpvals(Main) = {}
  /\ phase' = "closing"
  /\ refs' = [refs EXCEPT ![Main] = {}]
  /\ finalized' = finalized \cup LeftToFinalize
  /\ tmudata' = tmudata \cup (LeftToFinalize \cap hasgc)
  /\ unswept' = unswept \ tmudata'
  /\ due' = hasgc \ (called \cup Spared)
  /\ UNCHANGED <<world, allocated, owner, running, marked, lists, gcstate, full, hasgc, called>>

\* luaC_callGCTM: one finalizer after the other, as Lua code.  It returns or it
\* fails, which leaves its variables open and a full collection where it is, and
\* lua_close goes on with the next.
callallgcTM(u) ==
  /\ phase = "closing" /\ GCTMOf(u) /\ UNCHANGED full
  /\ phase' = IF u \in hasgc THEN "finalizing" ELSE "closing"
FinalizerEnds ==
  /\ phase = "finalizing" /\ Active /\ phase' = "closing"
  /\ running' = Main /\ refs' = [refs EXCEPT ![Main] = {}] /\ full' = "no"
  /\ UNCHANGED <<world, allocated, owner, marked, lists, gcstate, unswept, final>>

\* luaC_freeall: everything but the main thread is freed
close_state ==
  /\ phase = "closing" /\ tmudata = {} /\ phase' = "closed"
  /\ allocated' = {Main} /\ refs' = [o \in Objects |-> {}]
  /\ owner' = [u \in Upvals |-> NoThread] /\ marked' = [o \in Objects |-> "white"]
  /\ gray' = {} /\ grayagain' = {} /\ weak' = {} /\ unswept' = {}
  /\ hasgc' = {} /\ finalized' = {} /\ called' = {} /\ due' = {}
  /\ UNCHANGED <<world, running, gcstate, full, tmudata>>

----------------------------------------------------------------------------
Program ==
  \/ \E o \in Values : luaC_link(o) \/ Pop(o)
  \/ \E s \in Strings : luaS_newlstr(s)
  \/ \E x \in Objects, o \in Values : Read(x, o)
  \/ \E t \in AllTables, o \in Values : SetField(t, o) \/ ClearField(t, o)
  \/ \E c \in Closures, u \in Upvals : NewClosure(c, u)
  \/ \E u \in Upvals, o \in Values : SetLocal(u, o)
  \/ \E c \in Closures, u \in Upvals, o \in Values : SetUpval(c, u, o)
  \/ \E u \in Upvals : luaF_close(u)
  \/ \E u \in Udata, t \in AllTables, withgc \in BOOLEAN : lua_setmetatable(u, t, withgc)
  \/ \E t \in AllTables, withgc \in BOOLEAN : SetGc(t, withgc)
  \/ \E th \in Threads : Switch(th, {}) \/ \E o \in Values : Switch(th, {o})
  \/ luaC_fullgc \/ luaD_throw

singlestep ==
  \/ markroot \/ atomic \/ StringsSwept \/ EndCycle \/ FullCycle
  \/ \E o \in Objects : propagatemark(o) \/ SweepString(o) \/ Sweep(o)
  \/ \E u \in Udata : GCTM(u)

Close ==
  \/ lua_close \/ FinalizerEnds \/ close_state
  \/ \E u \in Udata : callallgcTM(u)

Next == Program \/ singlestep \/ Close
\* The program allocates now and then, and luaC_checkGC runs the collector: weak
\* fairness of singlestep, which is enabled as long as the state is open
Fairness == []<>(phase # "open") \/ []<><<singlestep>>_vars
Spec == Init /\ [][Next]_vars /\ Fairness

----------------------------------------------------------------------------
Lists == {gray, grayagain, weak}

Alive(o) == o \in allocated /\ (isdead(o) => o = Main)
Edges(o) == refs[o] \cup IF o \in Threads THEN UNION {refs[u] : u \in OpenUpvals(o)} ELSE {}

\* Whatever the program does between the steps, what it can get to from its
\* stack, the registry, a finalizer's argument or a dead thread's variables is
\* neither freed nor about to be freed.
NothingLost ==
  phase = "open" =>
    /\ {Main, Registry, running} \cup tmudata \subseteq {o \in Objects : Alive(o)}
    /\ \A o \in Objects : Alive(o) => \A x \in Edges(o) : Alive(x)

\* The tricolour invariant: while the collector marks, no object it is done with
\* refers to one it has not reached, and what is gray is still in a list.
Tricolour ==
  phase = "open" /\ gcstate = "propagate" =>
    \A o \in allocated \ tmudata :
      /\ isblack(o) => WhiteIn(marked, Edges(o)) = {}
      /\ marked[o] = "gray" /\ o \in Listed => o \in UNION Lists

\* "lua_assert(g->gcstate != GCSfinalize && g->gcstate != GCSpause)" in the
\* barriers (lgc.c:667, 680, 707): after a sweep all is white, so no barrier acts.
AllWhite ==
  phase = "open" /\ gcstate \in {"pause", "finalize"} =>
    \A o \in allocated \ tmudata : marked[o] = "white"

\* What the collector takes the colours for, from one cycle to the next.
Colours == Tricolour /\ AllWhite

\* A finalizer runs once, also for a userdata that a finalizer, its own or
\* another's, has made reachable again.
FinalizedOnce == tmudata \cap called = {}

\* However the finalizers that lua_close runs fail, store their objects, change
\* metatables, make new userdata or run the collector: a userdata that had a
\* finalizer when lua_close began, and keeps one, is not freed before it has been
\* called.  Userdata that a finalizer makes are not among them, nor are those
\* taken for garbage while they had none (Spared).
FinalizedAtClose ==
  [][\A u \in due : u \in allocated' \cup called]_vars

\* what the program can still get to, also through weak tables
Reachable ==
  LET within[n \in Nat] == IF n = 0 THEN {Main, Registry, running} \cap allocated
                           ELSE LET S == within[n - 1] IN S \cup UNION {Edges(o) : o \in S}
  IN within[Cardinality(Objects)]
\* Garbage is freed, however the program works against the collector; only a
\* finalizer can make it reachable again.
Collected ==
  \A o \in Tables \cup Coroutines :
    (o \in allocated \ Reachable) ~> (o \notin allocated \/ o \in Reachable \/ phase # "open")
=============================================================================
