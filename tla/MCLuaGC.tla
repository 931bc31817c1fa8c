------------------------------- MODULE MCLuaGC -------------------------------
EXTENDS LuaGC

CONSTANTS main, registry, co, t, w, k, c, u, d, e, s, none

\* the heap after the host's luaL_openlibs, and the one of a program that has
\* stored a closure over a local of a coroutine, and the coroutine in a weak table
Heap(objects, kept, given) ==
  [pool |-> objects, owner |-> [x \in Upvals |-> none],
   refs |-> [o \in Objects |-> {}],
   may |-> [o \in Objects |-> CASE o = main -> Values
                                 [] o = registry -> kept
                                 [] o \in {co, u} -> {t}
                                 [] OTHER -> given]]
Fresh(objects) == Heap(objects, Values, Values \ AllTables)
Finalized(x) == Heap({x, d}, {x}, {d})
Suspended ==
  LET links == [o \in Objects |-> CASE o = registry -> {w, c} [] o = w -> {co}
                                   [] o = c -> {u} [] OTHER -> {}]
  IN [pool |-> {}, owner |-> [x \in Upvals |-> co], refs |-> links,
      may |-> [links EXCEPT ![main] = {co}, ![co] = {co}, ![u] = {co}]]
Proxies ==                     \* two userdata share a metatable
  LET links == [o \in Objects |-> CASE o = registry -> {t, d, e} [] o \in {d, e} -> {t} [] OTHER -> {}]
  IN [pool |-> {}, owner |-> [x \in Upvals |-> none], refs |-> links,
      may |-> links]
MCWorlds == {Fresh(objects) : objects \in {{t, c, u}, {t, co}, {w, s}}}
              \cup {Finalized(x) : x \in {t, w, k}} \cup {Suspended, Proxies}
=============================================================================
