----------------------------- MODULE LuaGCProofs -----------------------------
(***************************************************************************)
(* Proofs about LuaGC, for heaps of any size and shape and any order of the  *)
(* steps of the program, the barriers and the collector.                     *)
(*                                                                         *)
(* NothingLost is not inductive: that atomic leaves nothing white that is in *)
(* use rests on what marking has kept true since the cycle began (MarkInv),  *)
(* the start of the cycle on what sweeping has left (IdleInv), that on what  *)
(* is still to be swept (SweepInv), and all of them on which colours an      *)
(* object of each type may have (ColourInv).                                 *)
(***************************************************************************)
EXTENDS LuaGC, TLAPS

Colour == Whites \cup {"gray", "black"}
States == {"pause", "propagate", "sweepstring", "sweep", "finalize"}
Sweeping == gcstate \in {"sweepstring", "sweep"}

(* o is there and will not be freed. *)
InUse(o) == o \in allocated /\ ~isdead(o)

TypeInv ==
  /\ allocated \subseteq Objects
  /\ running \in Threads
  /\ refs \in [Objects -> SUBSET (Values \cup Upvals)]
  /\ owner \in [Upvals -> Threads \cup {NoThread}]
  /\ marked \in [Objects -> Colour]
  /\ gcstate \in States
  /\ unswept \subseteq Objects
  /\ tmudata \cup hasgc \subseteq Udata \cap allocated

(* What refers to what. *)
EdgeInv ==
  /\ \A o \in Objects \ allocated : refs[o] = {}
  /\ \A u \in Upvals : refs[u] \subseteq Values
  /\ \A u \in Upvals \cap allocated : owner[u] # NoThread => owner[u] \in allocated
  /\ \A d \in Udata : refs[d] \subseteq AllTables
  /\ \A s \in Strings : refs[s] = {}

(* The colours: threads, weak tables and open upvalues are never black. *)
ColourInv ==
  \A o \in allocated :
    /\ isblack(o) => o \notin Threads \cup Weak /\ (o \in Upvals => owner[o] = NoThread)
    /\ marked[o] = "gray" => o \notin Udata /\ (o \in Upvals => owner[o] # NoThread)

(* NothingLost, and that objects are dead only while the collector sweeps. *)
AliveInv ==
  /\ \A o \in {Main, Registry, running} \cup tmudata : InUse(o)
  /\ \A o \in allocated : ~isdead(o) => \A x \in refs[o] : InUse(x)
  /\ \A u \in Upvals \cap allocated :
       owner[u] # NoThread /\ ~isdead(owner[u]) => \A x \in refs[u] : InUse(x)
  /\ ~Sweeping => \A o \in allocated : ~isdead(o)

(* While the collector marks: what is reached is listed, and what it is    *)
(* done with refers to nothing white.                                      *)
Listing ==
  /\ gray \cup grayagain \cup weak \subseteq Listed \cap allocated
  /\ grayagain \cap Weak = {}
  /\ \A o \in allocated \cap Listed :
       marked[o] = "gray" => o \in gray \cup grayagain \cup weak
Blackness ==
  /\ ~IsWhite(marked, Main) /\ ~IsWhite(marked, Registry)
  /\ \A o \in allocated \ tmudata : isblack(o) => \A x \in refs[o] : ~IsWhite(marked, x)
MarkInv == gcstate = "propagate" => Listing /\ Blackness

(* Sweeping: what is not white yet is still to be swept, if need be with   *)
(* the thread whose variable it is.                                        *)
SweepInv ==
  Sweeping =>
    /\ \A o \in allocated \ tmudata :
         marked[o] = "white" \/ o \in unswept \/ (o \in Upvals /\ owner[o] \in unswept)
    /\ tmudata \cap unswept = {}

(* Between the sweep and the next cycle all is white. *)
IdleInv ==
  gcstate \in {"pause", "finalize"} =>
    \A o \in allocated \ tmudata : marked[o] = "white"

FinalInv ==
  /\ tmudata \cup called \subseteq finalized
  /\ tmudata \cap called = {}

OpenInv ==
  /\ TypeInv /\ EdgeInv /\ ColourInv /\ AliveInv
  /\ MarkInv /\ SweepInv /\ IdleInv /\ FinalInv

(* While lua_close calls the finalizers the heap may be out of order (see   *)
(* README.md); the userdata that are to be finalized are not.               *)
ClosingInv ==
  /\ tmudata \subseteq Udata \cap allocated
  /\ unswept \cap tmudata = {}
  /\ FinalInv
  /\ due \subseteq called \cup tmudata
Closing == phase \in {"closing", "finalizing"}
IInv == /\ due \subseteq hasgc
        /\ \/ phase = "open" /\ OpenInv /\ due = {}
           \/ Closing /\ ClosingInv
           \/ phase = "closed" /\ tmudata = {} /\ due = {}
-----------------------------------------------------------------------------
(* Objects of each type, and marking *)

(* An object has one type. *)
LEMMA Sorts ==
  /\ Values \cup Upvals \cup Threads \cup AllTables \subseteq Objects
  /\ Strings \cup Udata \cup Closures \cup Coroutines \subseteq Values
  /\ Weak \subseteq AllTables
  /\ Main \in Threads \ Values /\ Registry \in AllTables \ (Weak \cup Values)
  /\ Coroutines \subseteq Threads
  /\ NoThread \notin Threads
  /\ \A o \in Threads : o \notin AllTables \cup Closures \cup Upvals \cup Udata \cup Strings
  /\ \A o \in AllTables : o \notin Closures \cup Upvals \cup Udata \cup Strings
  /\ \A o \in Closures : o \notin Upvals \cup Udata \cup Strings
  /\ \A o \in Upvals : o \notin Udata \cup Strings \cup Values
  /\ Udata \cap Strings = {}
  /\ \A o \in Objects : o \in Listed \cup Upvals \cup Udata \cup Strings
BY TypesAssumption DEF Values, Threads, AllTables, Objects, Weak, Listed

(* What marking a set of objects paints: the white ones of them, and the   *)
(* white objects that the userdata and the upvalues among these refer to.  *)
LEMMA MarkingFacts ==
  ASSUME TypeInv, EdgeInv, NEW S, S \subseteq Objects
  PROVE  /\ Marking(S) \subseteq Objects
         /\ \A x \in Marking(S) : IsWhite(marked, x)
         /\ \A x \in S : IsWhite(marked, x) => x \in Marking(S)
         /\ \A x \in Marking(S) \cap (Udata \cup Upvals) :
              \A y \in refs[x] : IsWhite(marked, y) => y \in Marking(S)
         /\ \A x \in Marking(S) \cap Upvals : x \in S
<1> DEFINE T == S \cup UNION {refs[u] : u \in WhiteIn(marked, S) \cap Upvals}
           M == T \cup UNION {refs[u] : u \in WhiteIn(marked, T) \cap Udata}
<1>1. Marking(S) = WhiteIn(marked, M)
  BY DEF Marking
<1>2. T \subseteq Objects /\ M \subseteq Objects
  BY Sorts DEF TypeInv, WhiteIn
<1>3. \A x \in T \cap Upvals : x \in S
  BY Sorts DEF EdgeInv, WhiteIn
<1>4. \A x \in M \cap (Upvals \cup Udata) : x \in T
  BY Sorts DEF EdgeInv, WhiteIn
<1>5. \A x \in S \cap Upvals : IsWhite(marked, x) => refs[x] \subseteq T
  BY DEF WhiteIn
<1>6. \A x \in T \cap Udata : IsWhite(marked, x) => refs[x] \subseteq M
  BY DEF WhiteIn
<1>7. S \subseteq T /\ T \subseteq M
  OBVIOUS
<1> HIDE DEF T, M
<1>8. \A x : x \in Marking(S) <=> x \in M /\ IsWhite(marked, x)
  BY <1>1 DEF WhiteIn
<1> QED
  BY <1>2, <1>3, <1>4, <1>5, <1>6, <1>7, <1>8

LEMMA MarkingThere ==
  ASSUME TypeInv, NEW S, S \subseteq allocated,
         \A o \in allocated : refs[o] \subseteq allocated
  PROVE  Marking(S) \subseteq allocated
<1> DEFINE T == S \cup UNION {refs[u] : u \in WhiteIn(marked, S) \cap Upvals}
           M == T \cup UNION {refs[u] : u \in WhiteIn(marked, T) \cap Udata}
<1>1. Marking(S) = WhiteIn(marked, M)
  BY DEF Marking
<1>2. T \subseteq allocated
  BY DEF WhiteIn
<1>3. M \subseteq allocated
  BY <1>2 DEF WhiteIn
<1> QED
  BY <1>1, <1>3 DEF WhiteIn

(* Painting them keeps the colours of the others, leaves none of S white,  *)
(* and what it makes black refers to nothing white.                        *)
LEMMA PaintedFacts ==
  ASSUME TypeInv, EdgeInv, NEW S, S \subseteq Objects,
         NEW P, P = Painted(Marking(S))
  PROVE  /\ P \in [Objects -> Colour]
         /\ \A x \in Objects : ~IsWhite(marked, x) => P[x] = marked[x]
         /\ \A x \in Objects : P[x] = marked[x] \/ (x \in Marking(S) /\ ~IsWhite(P, x))
         /\ \A x \in S : ~IsWhite(P, x)
         /\ \A x \in Objects : P[x] = "black" =>
              \/ marked[x] = "black"
              \/ /\ x \in Udata \/ (x \in Upvals /\ owner[x] = NoThread /\ x \in S)
                 /\ \A y \in refs[x] : ~IsWhite(P, y)
         /\ \A x \in Objects : P[x] = "gray" =>
              \/ marked[x] = "gray"
              \/ /\ x \in Marking(S) /\ x \notin Udata
                 /\ x \in Upvals => owner[x] # NoThread
<1>1. \A x \in Objects : /\ x \in Marking(S) => P[x] = MarkedAs(x)
                         /\ x \notin Marking(S) => P[x] = marked[x]
  BY DEF Painted
<1>2. \A x \in Objects : MarkedAs(x) \in {"gray", "black"}
  BY DEF MarkedAs
<1>3. P \in [Objects -> Colour]
  BY <1>2 DEF Painted, TypeInv, Colour
<1>4. \A x \in Objects : ~IsWhite(marked, x) => P[x] = marked[x]
  BY <1>1, MarkingFacts
<1>5. \A x \in Objects : x \in Marking(S) => ~IsWhite(P, x)
  BY <1>1, <1>2 DEF IsWhite, Whites
<1>6. \A x \in Objects : ~IsWhite(marked, x) => ~IsWhite(P, x)
  BY <1>4 DEF IsWhite
<1>7. \A x \in S : ~IsWhite(P, x)
  BY <1>5, <1>6, MarkingFacts
<1>8. ASSUME NEW x \in Objects, P[x] = "black", marked[x] # "black"
      PROVE  /\ x \in Udata \/ (x \in Upvals /\ owner[x] = NoThread /\ x \in S)
             /\ \A y \in refs[x] : ~IsWhite(P, y)
  <2>1. x \in Marking(S) /\ MarkedAs(x) = "black"
    BY <1>1, <1>8
  <2>2. x \in Udata \/ (x \in Upvals /\ owner[x] = NoThread)
    BY <2>1 DEF MarkedAs
  <2>3. \A y \in refs[x] : y \in Objects
    BY Sorts DEF TypeInv
  <2> QED
    BY <1>5, <1>6, <2>1, <2>2, <2>3, MarkingFacts
<1>9. ASSUME NEW x \in Objects, P[x] = "gray", marked[x] # "gray"
      PROVE  /\ x \in Marking(S) /\ x \notin Udata
             /\ x \in Upvals => owner[x] # NoThread
  BY <1>1, <1>9 DEF MarkedAs
<1>10. \A x \in Objects : P[x] = marked[x] \/ (x \in Marking(S) /\ ~IsWhite(P, x))
  BY <1>1, <1>5
<1> QED
  BY <1>3, <1>4, <1>7, <1>8, <1>9, <1>10

-----------------------------------------------------------------------------
(* Steps that let nothing die *)

(* They keep AliveInv if what gets a reference gets it to something in use, *)
(* and what comes back, or is new, refers to nothing else.                  *)
LEMMA AliveKept ==
  ASSUME TypeInv, EdgeInv, AliveInv, TypeInv',
         allocated \subseteq allocated', tmudata' \subseteq tmudata,
         ~Sweeping' => ~Sweeping,
         \A x \in allocated' : isdead(x)' => x \in allocated /\ isdead(x),
         InUse(running)',
         \A x \in allocated' : \A y \in refs'[x] : y \in refs[x] \/ InUse(y)',
         \A x \in allocated' : InUse(x) \/ isdead(x)' \/ \A y \in refs[x] : InUse(y),
         \A x \in Threads \cap allocated : isdead(x) => isdead(x)',
         \A u \in Upvals \cap allocated' :
           \/ u \in allocated /\ owner'[u] = owner[u]
           \/ \A y \in refs[u] : InUse(y)
  PROVE  AliveInv'
<1>1. ASSUME NEW x, InUse(x) PROVE InUse(x)'
  BY <1>1 DEF InUse
<1>2. \A x \in {Main, Registry, running'} \cup tmudata' : InUse(x)'
  BY <1>1 DEF AliveInv
<1>3. ASSUME NEW x \in allocated', ~isdead(x)', NEW y \in refs'[x]
      PROVE  InUse(y)'
  <2>1. CASE y \notin refs[x]
    BY <1>3, <2>1
  <2>2. CASE y \in refs[x] /\ InUse(x)
    BY <1>1, <2>2 DEF AliveInv, InUse
  <2>3. CASE y \in refs[x] /\ ~InUse(x)
    BY <1>1, <1>3, <2>3
  <2> QED
    BY <2>1, <2>2, <2>3
<1>4. ASSUME NEW u \in Upvals \cap allocated', owner'[u] # NoThread, ~isdead(owner[u])',
             NEW y \in refs'[u]
      PROVE  InUse(y)'
  <2>1. CASE y \notin refs[u]
    BY <1>4, <2>1
  <2>2. CASE \A z \in refs[u] : InUse(z)
    BY <1>1, <1>4, <2>1, <2>2
  <2>3. CASE y \in refs[u] /\ u \in allocated /\ owner'[u] = owner[u]
    <3>1. owner[u] \in allocated
      BY <1>4, <2>3 DEF EdgeInv
    <3>2. CASE InUse(owner[u])
      BY <1>1, <1>4, <2>3, <3>1, <3>2 DEF AliveInv, InUse
    <3>3. owner[u] \in Threads /\ ~isdead(owner[u])
      BY <1>4, <2>3, <3>1 DEF TypeInv
    <3> QED
      BY <3>1, <3>2, <3>3 DEF InUse
  <2> QED
    BY <1>4, <2>1, <2>2, <2>3
<1>5. ~Sweeping' => \A x \in allocated' : ~isdead(x)'
  BY DEF AliveInv
<1> QED
  BY <1>2, <1>3, <1>4, <1>5 DEF AliveInv

(* They keep SweepInv and IdleInv if nothing that was white is painted, and *)
(* an open upvalue that is not white stays one.                            *)
LEMMA SweepKept ==
  ASSUME TypeInv, SweepInv, IdleInv,
         UNCHANGED <<gcstate, unswept, tmudata>>,
         \A x \in allocated' \ tmudata' :
           \/ marked'[x] = "white"
           \/ /\ x \in allocated /\ marked[x] # "white"
              /\ x \in Upvals => owner'[x] = owner[x]
  PROVE  SweepInv' /\ IdleInv'
<1>1. SweepInv'
  BY DEF SweepInv, Sweeping
<1>2. IdleInv'
  BY DEF IdleInv
<1> QED
  BY <1>1, <1>2

(* They keep MarkInv and ColourInv if they paint nothing but what was dead  *)
(* or is new white, and give nothing to a black object.                    *)
LEMMA MarkKept ==
  ASSUME TypeInv, EdgeInv, ColourInv, AliveInv, MarkInv, TypeInv',
         UNCHANGED <<gcstate, gray, grayagain, weak, tmudata>>,
         allocated \subseteq allocated',
         \A x \in allocated' : \/ x \in allocated /\ marked'[x] = marked[x]
                               \/ ~InUse(x) /\ marked'[x] = "white",
         \A x \in Upvals \cap allocated : InUse(x) => owner'[x] = owner[x],
         \A x \in allocated : isblack(x) => refs'[x] \subseteq refs[x]
  PROVE  MarkInv' /\ ColourInv'
<1>1. ColourInv'
  <2> SUFFICES ASSUME NEW x \in allocated', marked'[x] # "white"
               PROVE  /\ isblack(x)' => x \notin Threads \cup Weak /\ (x \in Upvals => owner'[x] = NoThread)
                      /\ marked'[x] = "gray" => x \notin Udata /\ (x \in Upvals => owner'[x] # NoThread)
    BY DEF ColourInv, isblack
  <2>1. x \in allocated /\ marked'[x] = marked[x]
    OBVIOUS
  <2>2. isblack(x) \/ marked[x] = "gray" => InUse(x)
    BY <2>1 DEF InUse, isblack, isdead
  <2> QED
    BY <2>1, <2>2 DEF ColourInv, isblack
<1>2. MarkInv'
  <2> SUFFICES ASSUME gcstate = "propagate" PROVE Listing' /\ Blackness'
    BY DEF MarkInv
  <2>1. \A x \in allocated : InUse(x) /\ marked'[x] = marked[x]
    BY DEF AliveInv, Sweeping, InUse
  <2>2. \A x \in allocated' \ allocated : marked'[x] = "white"
    OBVIOUS
  <2>3. Listing'
    BY <2>1, <2>2 DEF MarkInv, Listing
  <2>4. ~IsWhite(marked, Main)' /\ ~IsWhite(marked, Registry)'
    BY <2>1 DEF MarkInv, Blackness, AliveInv, InUse, IsWhite
  <2>5. ASSUME NEW x \in allocated' \ tmudata', isblack(x)', NEW y \in refs'[x]
        PROVE  ~IsWhite(marked, y)'
    <3>1. x \in allocated \ tmudata /\ isblack(x)
      BY <2>1, <2>2, <2>5 DEF isblack
    <3>2. y \in refs[x]
      BY <2>5, <3>1
    <3>3. ~IsWhite(marked, y) /\ y \in allocated
      BY <2>1, <3>1, <3>2 DEF MarkInv, Blackness, AliveInv, InUse, isblack, isdead
    <3> QED
      BY <2>1, <3>3 DEF IsWhite
  <2> QED
    BY <2>3, <2>4, <2>5 DEF Blackness
<1> QED
  BY <1>1, <1>2

-----------------------------------------------------------------------------
(* The program *)

LEMMA LinkKept ==
  ASSUME OpenInv, NEW o, luaC_link(o)
  PROVE  OpenInv'
<1> DEFINE added == refs[running] \cup {o}
<1>1. /\ o \in Values /\ o \in Objects /\ o \notin allocated /\ running \in Objects
      /\ allocated' = allocated \cup {o}
      /\ refs' = [refs EXCEPT ![running] = added]
      /\ marked' = [x \in Objects |-> IF x = o THEN "white" ELSE marked[x]]
      /\ UNCHANGED <<owner, running, gray, grayagain, weak, gcstate, unswept, full,
                     hasgc, finalized, tmudata, called, phase>>
  BY Sorts DEF OpenInv, TypeInv, luaC_link, Push, NewObject, lists, cycle, final
<1>2. InUse(running) /\ refs[o] = {} /\ running # o
  BY <1>1 DEF OpenInv, AliveInv, EdgeInv, InUse
<1>3. \A x \in allocated : x # o /\ marked'[x] = marked[x]
  BY <1>1 DEF OpenInv, TypeInv
<1>4. \A x \in Objects : refs'[x] = IF x = running THEN added ELSE refs[x]
  BY <1>1 DEF OpenInv, TypeInv
<1>5. marked'[o] = "white" /\ ~InUse(o) /\ InUse(o)' /\ InUse(running)'
  BY <1>1, <1>2, <1>3 DEF InUse, isdead
<1>6. TypeInv'
  BY <1>1, Sorts DEF OpenInv, TypeInv, Colour, Whites
<1>7. EdgeInv'
  <2>1. \A u \in Upvals : u # o /\ u # running
    BY <1>1, Sorts DEF OpenInv, TypeInv
  <2>2. \A x \in Udata \cup Strings : x # running
    BY <1>1, Sorts DEF OpenInv, TypeInv
  <2>3. \A x \in Upvals \cup Udata \cup Strings : refs'[x] = refs[x]
    BY <1>4, <2>1, <2>2, Sorts
  <2>4. \A x \in Objects \ allocated' : refs'[x] = {}
    BY <1>1, <1>2, <1>4 DEF OpenInv, EdgeInv, InUse
  <2> QED
    BY <1>1, <2>1, <2>3, <2>4 DEF OpenInv, EdgeInv
<1>8. AliveInv'
  <2>1. \A x \in allocated' : \A y \in refs'[x] : y \in refs[x] \/ InUse(y)'
    BY <1>4, <1>5, <1>6 DEF TypeInv
  <2>2. \A x \in allocated' : InUse(x) \/ isdead(x)' \/ \A y \in refs[x] : InUse(y)
    BY <1>1, <1>2, <1>3 DEF InUse, isdead
  <2>3. \A x \in allocated' : isdead(x)' => x \in allocated /\ isdead(x)
    BY <1>1, <1>3, <1>5 DEF isdead
  <2>4. \A u \in Upvals \cap allocated' : u \in allocated /\ owner'[u] = owner[u]
    BY <1>1, Sorts
  <2>5. \A x \in Threads \cap allocated : isdead(x) => isdead(x)'
    BY <1>3 DEF isdead
  <2>6. allocated \subseteq allocated' /\ tmudata' \subseteq tmudata /\ (~Sweeping' => ~Sweeping)
    BY <1>1 DEF Sweeping
  <2> QED
    BY <1>5, <1>6, <2>1, <2>2, <2>3, <2>4, <2>5, <2>6, AliveKept DEF OpenInv
<1>9. MarkInv' /\ ColourInv'
  <2>1. \A x \in allocated' : \/ x \in allocated /\ marked'[x] = marked[x]
                              \/ ~InUse(x) /\ marked'[x] = "white"
    BY <1>1, <1>3, <1>5
  <2>2. \A x \in allocated : isblack(x) => refs'[x] \subseteq refs[x]
    BY <1>1, <1>4 DEF OpenInv, ColourInv, TypeInv
  <2> QED
    BY <1>1, <1>6, <2>1, <2>2, MarkKept DEF OpenInv
<1>10. SweepInv' /\ IdleInv'
  <2>1. \A x \in allocated' \ tmudata' :
           \/ marked'[x] = "white"
           \/ /\ x \in allocated /\ marked[x] # "white"
              /\ x \in Upvals => owner'[x] = owner[x]
    BY <1>1, <1>3, <1>5
  <2> QED
    BY <1>1, <2>1, SweepKept DEF OpenInv
<1>11. FinalInv'
  BY <1>1 DEF OpenInv, FinalInv
<1> QED
  BY <1>6, <1>7, <1>8, <1>9, <1>10, <1>11 DEF OpenInv

(* What holds of the edges, if only the references of tables, closures and *)
(* threads are written.                                                    *)
LEMMA EdgeKept ==
  ASSUME EdgeInv, allocated \subseteq allocated',
         \A x \in Objects : refs'[x] = refs[x] \/ x \in allocated' \cap Listed,
         \A u \in Upvals \cap allocated' :
           (u \in allocated /\ owner'[u] = owner[u]) \/ owner'[u] \in allocated'
  PROVE  EdgeInv'
<1>1. \A x \in Upvals \cup Udata \cup Strings : refs'[x] = refs[x]
  BY Sorts DEF Listed
<1> QED
  BY <1>1 DEF EdgeInv

(* A step that only writes references. *)
LEMMA WriteKept ==
  ASSUME OpenInv, EdgeInv',
         UNCHANGED <<allocated, owner, marked, lists, cycle, finalized, tmudata, called, phase>>,
         hasgc' \subseteq Udata \cap allocated,
         refs' \in [Objects -> SUBSET (Values \cup Upvals)],
         running' \in Threads, InUse(running'),
         \A x \in allocated : \A y \in refs'[x] : y \in refs[x] \/ InUse(y),
         \A x \in allocated : isblack(x) => refs'[x] \subseteq refs[x]
  PROVE  OpenInv'
<1>1. UNCHANGED <<gray, grayagain, weak, gcstate, unswept, full, finalized, tmudata, called>>
  BY DEF lists, cycle
<1>2. \A x : (isdead(x)' <=> isdead(x)) /\ (InUse(x)' <=> InUse(x))
  BY DEF isdead, InUse
<1>3. TypeInv'
  BY <1>1 DEF OpenInv, TypeInv
<1>4. AliveInv'
  <2>1. \A x \in allocated' : InUse(x) \/ isdead(x)' \/ \A y \in refs[x] : InUse(y)
    BY <1>2 DEF InUse
  <2>2. InUse(running)'
    BY DEF InUse, isdead
  <2>3. ~Sweeping' => ~Sweeping
    BY <1>1 DEF Sweeping
  <2> QED
    BY <1>1, <1>2, <1>3, <2>1, <2>2, <2>3, AliveKept DEF OpenInv
<1>5. MarkInv' /\ ColourInv'
  BY <1>1, <1>3, MarkKept DEF OpenInv
<1>6. SweepInv' /\ IdleInv'
  BY <1>1, SweepKept DEF OpenInv
<1>7. FinalInv'
  BY <1>1 DEF OpenInv, FinalInv
<1> QED
  BY <1>3, <1>4, <1>5, <1>6, <1>7 DEF OpenInv

(* What the program has at hand is in use. *)
LEMMA AtHand ==
  ASSUME OpenInv
  PROVE  /\ running \in Threads \cap allocated /\ InUse(running) /\ ~isblack(running)
         /\ \A o \in Held : InUse(o) /\ o \in Values \cup Upvals
         /\ \A t : Table(t) => InUse(t) /\ t \in AllTables
         /\ \A x : InUse(x) => \A y \in refs[x] : InUse(y)
<1>1. running \in Threads \cap allocated /\ InUse(running) /\ ~isblack(running)
  BY DEF OpenInv, AliveInv, TypeInv, ColourInv, InUse
<1>2. \A x : InUse(x) => \A y \in refs[x] : InUse(y)
  BY DEF OpenInv, AliveInv, InUse
<1>3. \A o \in Held : InUse(o) /\ o \in Values \cup Upvals
  BY <1>1, <1>2, Sorts DEF OpenInv, TypeInv, Held
<1>4. InUse(Registry)
  BY DEF OpenInv, AliveInv
<1>5. \A t : Table(t) => InUse(t) /\ t \in AllTables
  BY <1>2, <1>3, <1>4 DEF Table
<1> QED
  BY <1>1, <1>2, <1>3, <1>5

LEMMA ReadKept ==
  ASSUME OpenInv, NEW x \in Objects, NEW o \in Values, Read(x, o)
  PROVE  OpenInv'
<1>1. /\ refs' = [refs EXCEPT ![running] = @ \cup {o}] /\ running' = running
      /\ UNCHANGED <<allocated, owner, marked, lists, cycle, final, phase>>
  BY DEF Read, Push
<1>2. InUse(o)
  BY AtHand DEF Read
<1>3. \A z \in Objects : refs'[z] = IF z = running THEN refs[running] \cup {o} ELSE refs[z]
  BY <1>1 DEF OpenInv, TypeInv
<1>4. refs' \in [Objects -> SUBSET (Values \cup Upvals)]
  BY <1>1 DEF OpenInv, TypeInv
<1>5. EdgeInv'
  <2>1. \A z \in Objects : refs'[z] = refs[z] \/ z \in allocated' \cap Listed
    BY <1>1, <1>3, AtHand DEF Listed
  <2> QED
    BY <1>1, <2>1, EdgeKept DEF OpenInv
<1>6. \A z \in allocated : \A y \in refs'[z] : y \in refs[z] \/ InUse(y)
  BY <1>2, <1>3 DEF OpenInv, TypeInv
<1>7. \A z \in allocated : isblack(z) => refs'[z] \subseteq refs[z]
  BY <1>3, AtHand DEF OpenInv, TypeInv
<1> QED
  BY <1>1, <1>4, <1>5, <1>6, <1>7, AtHand, WriteKept DEF final, OpenInv, TypeInv

LEMMA ClearFieldKept ==
  ASSUME OpenInv, NEW t \in AllTables, NEW o \in Values, ClearField(t, o)
  PROVE  OpenInv'
<1>1. /\ refs' = [refs EXCEPT ![t] = @ \ {o}] /\ running' = running
      /\ UNCHANGED <<allocated, owner, marked, lists, cycle, final, phase>>
  BY DEF ClearField
<1>2. \A z \in Objects : refs'[z] \subseteq refs[z] /\ (z # t => refs'[z] = refs[z])
  BY <1>1 DEF OpenInv, TypeInv
<1>3. refs' \in [Objects -> SUBSET (Values \cup Upvals)]
  BY <1>1 DEF OpenInv, TypeInv
<1>4. EdgeInv'
  <2>1. \A z \in Objects : refs'[z] = refs[z] \/ z \in allocated' \cap Listed
    BY <1>1, <1>2, AtHand DEF ClearField, InUse, Listed
  <2> QED
    BY <1>1, <2>1, EdgeKept DEF OpenInv
<1>5. allocated \subseteq Objects
  BY DEF OpenInv, TypeInv
<1> QED
  BY <1>1, <1>2, <1>3, <1>4, <1>5, AtHand, WriteKept DEF final, OpenInv, TypeInv

LEMMA PopKept ==
  ASSUME OpenInv, NEW o \in Values, Pop(o)
  PROVE  OpenInv'
<1>1. /\ refs' = [refs EXCEPT ![running] = @ \ {o}] /\ running' = running
      /\ UNCHANGED <<allocated, owner, marked, lists, cycle, final, phase>>
  BY DEF Pop
<1>2. \A z \in Objects : refs'[z] \subseteq refs[z] /\ (z # running => refs'[z] = refs[z])
  BY <1>1 DEF OpenInv, TypeInv
<1>3. refs' \in [Objects -> SUBSET (Values \cup Upvals)]
  BY <1>1 DEF OpenInv, TypeInv
<1>4. EdgeInv'
  <2>1. \A z \in Objects : refs'[z] = refs[z] \/ z \in allocated' \cap Listed
    BY <1>1, <1>2, AtHand DEF Listed
  <2> QED
    BY <1>1, <2>1, EdgeKept DEF OpenInv
<1>5. allocated \subseteq Objects
  BY DEF OpenInv, TypeInv
<1> QED
  BY <1>1, <1>2, <1>3, <1>4, <1>5, AtHand, WriteKept DEF final, OpenInv, TypeInv

LEMMA SetLocalKept ==
  ASSUME OpenInv, NEW u \in Upvals, NEW o \in Values, SetLocal(u, o)
  PROVE  OpenInv'
<1>1. /\ refs' = [refs EXCEPT ![u] = {o}] /\ running' = running
      /\ UNCHANGED <<allocated, owner, marked, lists, cycle, final, phase>>
  BY DEF SetLocal
<1>2. u \in allocated /\ owner[u] = running /\ InUse(o)
  BY AtHand DEF SetLocal, OpenUpvals
<1>3. \A z \in Objects : refs'[z] = IF z = u THEN {o} ELSE refs[z]
  BY <1>1 DEF OpenInv, TypeInv
<1>4. refs' \in [Objects -> SUBSET (Values \cup Upvals)]
  BY <1>1 DEF OpenInv, TypeInv
<1>5. EdgeInv'
  <2>1. \A z \in Udata \cup Strings : z # u
    BY Sorts
  <2> QED
    BY <1>1, <1>2, <1>3, <2>1, Sorts DEF OpenInv, EdgeInv
<1>6. \A z \in allocated : \A y \in refs'[z] : y \in refs[z] \/ InUse(y)
  BY <1>2, <1>3 DEF OpenInv, TypeInv
<1>7. ~isblack(u)
  BY <1>2, Sorts DEF OpenInv, ColourInv, TypeInv
<1>8. \A z \in allocated : isblack(z) => refs'[z] \subseteq refs[z]
  BY <1>3, <1>7 DEF OpenInv, TypeInv
<1> QED
  BY <1>1, <1>4, <1>5, <1>6, <1>8, AtHand, WriteKept DEF final, OpenInv, TypeInv

LEMMA SwitchKept ==
  ASSUME OpenInv, NEW th \in Threads, NEW given, Switch(th, given)
  PROVE  OpenInv'
<1>1. /\ refs' = [refs EXCEPT ![th] = @ \cup given] /\ running' = th
      /\ given \subseteq Held
      /\ UNCHANGED <<allocated, owner, marked, lists, cycle, final, phase>>
  BY DEF Switch
<1>2. InUse(th) /\ th \in allocated /\ ~isblack(th)
  <2>1. InUse(th)
    BY AtHand DEF Switch, OpenInv, AliveInv
  <2> QED
    BY <2>1 DEF OpenInv, ColourInv, InUse
<1>3. \A z \in Objects : refs'[z] = IF z = th THEN refs[th] \cup given ELSE refs[z]
  BY <1>1, Sorts DEF OpenInv, TypeInv
<1>4. refs' \in [Objects -> SUBSET (Values \cup Upvals)]
  BY <1>1, AtHand, Sorts DEF OpenInv, TypeInv
<1>5. EdgeInv'
  <2>1. \A z \in Objects : refs'[z] = refs[z] \/ z \in allocated' \cap Listed
    BY <1>1, <1>2, <1>3 DEF Listed
  <2> QED
    BY <1>1, <2>1, EdgeKept DEF OpenInv
<1>6. \A z \in allocated : \A y \in refs'[z] : y \in refs[z] \/ InUse(y)
  BY <1>1, <1>3, AtHand DEF OpenInv, TypeInv
<1>7. \A z \in allocated : isblack(z) => refs'[z] \subseteq refs[z]
  BY <1>2, <1>3 DEF OpenInv, TypeInv
<1> QED
  BY <1>1, <1>2, <1>4, <1>5, <1>6, <1>7, WriteKept DEF final, OpenInv, TypeInv

LEMMA NewStringKept ==
  ASSUME OpenInv, NEW s, luaS_newlstr(s)
  PROVE  OpenInv'
<1> DEFINE back == {s} \cap {o \in Objects : isdead(o)}
<1>1. /\ s \in Strings \cap allocated
      /\ refs' = [refs EXCEPT ![running] = @ \cup {s}]
      /\ marked' = [o \in Objects |-> IF o \in back THEN "white" ELSE marked[o]]
      /\ UNCHANGED <<allocated, owner, running, gray, grayagain, weak, gcstate, unswept, full,
                     hasgc, finalized, tmudata, called, phase>>
  BY DEF luaS_newlstr, Push, NewObject, lists, cycle, final
<1>2. \A z \in Objects : refs'[z] = IF z = running THEN refs[running] \cup {s} ELSE refs[z]
  BY <1>1 DEF OpenInv, TypeInv
<1>3. \A x \in Objects : marked'[x] = marked[x] \/ (x = s /\ isdead(x) /\ marked'[x] = "white")
  BY <1>1
<1>4. \A x \in Objects : isdead(x)' => isdead(x)
  BY <1>3 DEF isdead
<1>5. InUse(s)' /\ InUse(running)' /\ s \in Values /\ s \in Objects /\ s \notin Threads \cup Upvals
  <2>1. marked'[s] # "otherwhite"
    BY <1>1, <1>3, Sorts DEF isdead
  <2> QED
    BY <1>1, <1>4, <2>1, AtHand, Sorts DEF InUse, isdead
<1>6. TypeInv'
  BY <1>1, <1>5, AtHand, Sorts DEF OpenInv, TypeInv, Colour, Whites
<1>7. EdgeInv'
  <2>1. \A z \in Objects : refs'[z] = refs[z] \/ z \in allocated' \cap Listed
    BY <1>1, <1>2, AtHand DEF Listed
  <2> QED
    BY <1>1, <2>1, EdgeKept DEF OpenInv
<1>8. AliveInv'
  <2>1. \A x \in allocated' : \A y \in refs'[x] : y \in refs[x] \/ InUse(y)'
    BY <1>2, <1>5, <1>6 DEF TypeInv
  <2>2. \A x \in allocated' : InUse(x) \/ isdead(x)' \/ \A y \in refs[x] : InUse(y)
    BY <1>1, <1>3 DEF InUse, isdead, OpenInv, EdgeInv, TypeInv
  <2>3. \A x \in allocated' : isdead(x)' => x \in allocated /\ isdead(x)
    BY <1>1, <1>4 DEF OpenInv, TypeInv
  <2>4. \A x \in Threads \cap allocated : isdead(x) => isdead(x)'
    BY <1>3, <1>5, Sorts DEF isdead
  <2>5. ~Sweeping' => ~Sweeping
    BY <1>1 DEF Sweeping
  <2> QED
    BY <1>1, <1>5, <1>6, <2>1, <2>2, <2>3, <2>4, <2>5, AliveKept DEF OpenInv
<1>9. MarkInv' /\ ColourInv'
  <2>1. \A x \in allocated' : \/ x \in allocated /\ marked'[x] = marked[x]
                              \/ ~InUse(x) /\ marked'[x] = "white"
    BY <1>1, <1>3 DEF OpenInv, TypeInv, InUse
  <2>2. \A x \in allocated : isblack(x) => refs'[x] \subseteq refs[x]
    BY <1>2, AtHand DEF OpenInv, TypeInv
  <2> QED
    BY <1>1, <1>6, <2>1, <2>2, MarkKept DEF OpenInv
<1>10. SweepInv' /\ IdleInv'
  <2>1. \A x \in allocated' \ tmudata' :
           \/ marked'[x] = "white"
           \/ /\ x \in allocated /\ marked[x] # "white"
              /\ x \in Upvals => owner'[x] = owner[x]
    BY <1>1, <1>3 DEF OpenInv, TypeInv
  <2> QED
    BY <1>1, <2>1, SweepKept DEF OpenInv
<1>11. FinalInv'
  BY <1>1 DEF OpenInv, FinalInv
<1> QED
  BY <1>6, <1>7, <1>8, <1>9, <1>10, <1>11 DEF OpenInv

LEMMA NewClosureKept ==
  ASSUME OpenInv, NEW c \in Closures, NEW u \in Upvals, NewClosure(c, u)
  PROVE  OpenInv'
<1> DEFINE new == {c} \cup Resurrected(u)
<1>1. /\ refs' = [refs EXCEPT ![running] = @ \cup {c}, ![c] = {u}]
      /\ allocated' = allocated \cup {c, u}
      /\ owner' = [owner EXCEPT ![u] = running]
      /\ marked' = [o \in Objects |-> IF o \in new THEN "white" ELSE marked[o]]
      /\ UNCHANGED <<running, gray, grayagain, weak, gcstate, unswept, full,
                     hasgc, finalized, tmudata, called, phase>>
  BY DEF NewClosure, NewObject, OpenUpvals, lists, cycle, final
<1>2. c \notin allocated /\ (u \notin allocated \/ owner[u] = running)
  BY DEF NewClosure, OpenUpvals
<1>3. /\ c \in Objects /\ c \in Values /\ u \in Objects /\ c # u /\ c # running /\ u # running
      /\ running \in Objects /\ c \notin Threads \cup Upvals
  BY AtHand, Sorts
<1>4. \A z \in Objects : refs'[z] = IF z = c THEN {u}
                                    ELSE IF z = running THEN refs[running] \cup {c} ELSE refs[z]
  BY <1>1, <1>3 DEF OpenInv, TypeInv
<1>5. \A x \in Upvals : owner'[x] = IF x = u THEN running ELSE owner[x]
  BY <1>1 DEF OpenInv, TypeInv
<1>6. \A x \in Objects : \/ marked'[x] = marked[x] /\ x # c /\ (x = u => InUse(u))
                         \/ x \in {c, u} /\ ~InUse(x) /\ marked'[x] = "white"
  BY <1>1, <1>2 DEF Resurrected, InUse
<1>7. InUse(c)' /\ InUse(u)' /\ InUse(running)'
  <2>1. marked'[c] # "otherwhite" /\ marked'[u] # "otherwhite"
    BY <1>3, <1>6 DEF InUse, isdead
  <2>2. marked'[running] = marked[running]
    BY <1>3, <1>6
  <2> QED
    BY <1>1, <2>1, <2>2, AtHand DEF InUse, isdead
<1>8. TypeInv'
  <2>1. refs' \in [Objects -> SUBSET (Values \cup Upvals)]
    BY <1>1, <1>3 DEF OpenInv, TypeInv
  <2>2. owner' \in [Upvals -> Threads \cup {NoThread}]
    BY <1>1, AtHand DEF OpenInv, TypeInv
  <2> QED
    BY <1>1, <1>3, <2>1, <2>2 DEF OpenInv, TypeInv, Colour, Whites
<1>9. EdgeInv'
  <2>1. \A z \in Objects : refs'[z] = refs[z] \/ z \in allocated' \cap Listed
    BY <1>1, <1>3, <1>4, AtHand DEF Listed
  <2>2. \A x \in Upvals \cap allocated' :
           (x \in allocated /\ owner'[x] = owner[x]) \/ owner'[x] \in allocated'
    BY <1>1, <1>3, <1>5, AtHand
  <2> QED
    BY <1>1, <2>1, <2>2, EdgeKept DEF OpenInv
<1>10. \A x \in allocated' : \/ x \in allocated /\ marked'[x] = marked[x]
                             \/ ~InUse(x) /\ marked'[x] = "white"
  <2>1. allocated' \subseteq Objects
    BY <1>8 DEF TypeInv
  <2> QED
    BY <1>1, <1>6, <2>1 DEF InUse
<1>11. AliveInv'
  <2>1. \A x \in allocated' : \A y \in refs'[x] : y \in refs[x] \/ InUse(y)'
    BY <1>4, <1>7, <1>8 DEF TypeInv
  <2>2. \A x \in allocated : x = u => \A y \in refs[x] : InUse(y)
    BY <1>2, AtHand, Sorts DEF OpenInv, AliveInv, InUse
  <2>3. refs[c] = {} /\ (u \notin allocated => refs[u] = {})
    BY <1>2, <1>3 DEF OpenInv, EdgeInv
  <2>4. \A y \in refs[u] : InUse(y)
    BY <2>2, <2>3
  <2>5. \A x \in allocated' : InUse(x) \/ isdead(x)' \/ \A y \in refs[x] : InUse(y)
    <3>1. \A x \in allocated' : x = c \/ x = u \/ (x \in allocated /\ marked'[x] = marked[x])
      BY <1>1, <1>6, <1>8 DEF TypeInv
    <3> QED
      BY <2>3, <2>4, <3>1 DEF InUse, isdead
  <2>6. \A x \in allocated' : isdead(x)' => x \in allocated /\ isdead(x)
    BY <1>10 DEF isdead
  <2>7. \A x \in Threads \cap allocated : isdead(x) => isdead(x)'
    BY <1>3, <1>6, Sorts DEF isdead
  <2>8. \A x \in Upvals \cap allocated' :
           \/ x \in allocated /\ owner'[x] = owner[x]
           \/ \A y \in refs[x] : InUse(y)
    BY <1>1, <1>2, <1>3, <1>5, <2>4, Sorts
  <2>9. ~Sweeping' => ~Sweeping
    BY <1>1 DEF Sweeping
  <2> QED
    BY <1>1, <1>7, <1>8, <2>1, <2>5, <2>6, <2>7, <2>8, <2>9, AliveKept DEF OpenInv
<1>12. MarkInv' /\ ColourInv'
  <2>1. \A x \in allocated : isblack(x) => refs'[x] \subseteq refs[x]
    BY <1>2, <1>4, AtHand DEF OpenInv, TypeInv
  <2>2. \A x \in Upvals \cap allocated : InUse(x) => owner'[x] = owner[x]
    BY <1>2, <1>5
  <2> QED
    BY <1>1, <1>8, <1>10, <2>1, <2>2, MarkKept DEF OpenInv
<1>13. SweepInv' /\ IdleInv'
  <2>1. \A x \in allocated' \ tmudata' :
           \/ marked'[x] = "white"
           \/ /\ x \in allocated /\ marked[x] # "white"
              /\ x \in Upvals => owner'[x] = owner[x]
    BY <1>2, <1>5, <1>10
  <2> QED
    BY <1>1, <2>1, SweepKept DEF OpenInv
<1>14. FinalInv'
  BY <1>1 DEF OpenInv, FinalInv
<1> QED
  BY <1>8, <1>9, <1>11, <1>12, <1>13, <1>14 DEF OpenInv

-----------------------------------------------------------------------------
(* Steps that paint while the collector marks *)

LEMMA PaintKept ==
  ASSUME OpenInv, gcstate = "propagate", NEW S, S \subseteq allocated,
         NEW P, P = Painted(Marking(S))
  PROVE  /\ P \in [Objects -> Colour]
         /\ Marking(S) \subseteq allocated
         /\ \A x \in allocated : P[x] # "otherwhite"
         /\ \A x \in Objects : ~IsWhite(marked, x) => P[x] = marked[x]
         /\ \A x \in S : ~IsWhite(P, x)
         /\ ~IsWhite(P, Main) /\ ~IsWhite(P, Registry)
         /\ \A x \in allocated : P[x] = "black" =>
              /\ x \notin Threads \cup Weak
              /\ x \in Upvals => owner[x] = NoThread
              /\ x \notin tmudata => \A y \in refs[x] : ~IsWhite(P, y)
         /\ \A x \in allocated : P[x] = "gray" =>
              /\ x \notin Udata
              /\ x \in Upvals => owner[x] # NoThread
              /\ x \in Listed => x \in gray \cup grayagain \cup weak \cup Marking(S)
<1>1. /\ TypeInv /\ EdgeInv /\ ColourInv /\ AliveInv /\ Listing /\ Blackness
      /\ S \subseteq Objects /\ allocated \subseteq Objects
  BY DEF OpenInv, MarkInv, TypeInv
<1>2. \A x \in allocated : ~isdead(x) /\ refs[x] \subseteq allocated
  BY <1>1 DEF AliveInv, Sweeping, InUse
<1>3. Marking(S) \subseteq allocated
  BY <1>1, <1>2, MarkingThere
<1>4. /\ P \in [Objects -> Colour]
      /\ \A x \in Objects : ~IsWhite(marked, x) => P[x] = marked[x]
      /\ \A x \in Objects : P[x] = marked[x] \/ (x \in Marking(S) /\ ~IsWhite(P, x))
      /\ \A x \in S : ~IsWhite(P, x)
      /\ \A x \in Objects : P[x] = "black" =>
           \/ marked[x] = "black"
           \/ /\ x \in Udata \/ (x \in Upvals /\ owner[x] = NoThread /\ x \in S)
              /\ \A y \in refs[x] : ~IsWhite(P, y)
      /\ \A x \in Objects : P[x] = "gray" =>
           \/ marked[x] = "gray"
           \/ /\ x \in Marking(S) /\ x \notin Udata
              /\ x \in Upvals => owner[x] # NoThread
  BY <1>1, PaintedFacts
<1>5. \A x \in Objects : ~IsWhite(marked, x) => ~IsWhite(P, x)
  BY <1>4 DEF IsWhite
<1>6. ~IsWhite(P, Main) /\ ~IsWhite(P, Registry)
  BY <1>1, <1>5, Sorts DEF Blackness
<1>7. \A x \in allocated : P[x] # "otherwhite"
  BY <1>1, <1>2, <1>4 DEF isdead, IsWhite, Whites
<1>8. ASSUME NEW x \in allocated, P[x] = "black"
      PROVE  /\ x \notin Threads \cup Weak
             /\ x \in Upvals => owner[x] = NoThread
             /\ x \notin tmudata => \A y \in refs[x] : ~IsWhite(P, y)
  <2>1. CASE marked[x] = "black"
    <3>1. refs[x] \subseteq Objects
      BY <1>1, <1>2
    <3> QED
      BY <1>1, <1>5, <2>1, <3>1 DEF ColourInv, Blackness, isblack
  <2>2. CASE marked[x] # "black"
    BY <1>1, <1>4, <1>8, <2>2, Sorts
  <2> QED
    BY <2>1, <2>2
<1>9. ASSUME NEW x \in allocated, P[x] = "gray"
      PROVE  /\ x \notin Udata
             /\ x \in Upvals => owner[x] # NoThread
             /\ x \in Listed => x \in gray \cup grayagain \cup weak \cup Marking(S)
  BY <1>1, <1>4, <1>9 DEF ColourInv, Listing
<1> QED
  BY <1>3, <1>4, <1>6, <1>7, <1>8, <1>9

(* luaC_barrier keeps them when o gets v as what it refers to. *)
LEMMA BarrierKept ==
  ASSUME OpenInv, NEW o \in Upvals \cup Udata, NEW v \in Values, luaC_barrier(o, v),
         InUse(o), InUse(v), refs' = [refs EXCEPT ![o] = {v}],
         o \in Udata => v \in AllTables,
         UNCHANGED <<allocated, owner, running, cycle, finalized, tmudata, called, phase>>,
         hasgc' \subseteq Udata \cap allocated
  PROVE  OpenInv'
<1>1. o \in Objects /\ o \in allocated /\ v \in Objects /\ v \in allocated
  BY Sorts DEF InUse
<1>2. \A z \in Objects : refs'[z] = IF z = o THEN {v} ELSE refs[z]
  BY DEF OpenInv, TypeInv
<1>3. refs' \in [Objects -> SUBSET (Values \cup Upvals)]
  BY DEF OpenInv, TypeInv
<1>4. EdgeInv'
  BY <1>1, <1>2, Sorts DEF OpenInv, EdgeInv
<1>5. \A z \in allocated : \A y \in refs'[z] : y \in refs[z] \/ InUse(y)
  BY <1>2 DEF OpenInv, TypeInv
<1>6. FinalInv'
  BY DEF OpenInv, FinalInv
<1>7. UNCHANGED <<gcstate, unswept, full>>
  BY DEF cycle
<1>8. CASE ~(isblack(o) /\ IsWhite(marked, v))
  <2>1. UNCHANGED <<marked, lists>>
    BY <1>8 DEF luaC_barrier
  <2>2. CASE ~isblack(o)
    <3>1. \A x \in allocated : isblack(x) => refs'[x] \subseteq refs[x]
      BY <1>2, <2>2 DEF OpenInv, TypeInv
    <3> QED
      BY <1>3, <1>4, <1>5, <2>1, <3>1, AtHand, WriteKept
  <2>3. CASE ~IsWhite(marked, v)
    <3>1. TypeInv'
      BY <1>3, <1>7, <2>1 DEF OpenInv, TypeInv
    <3>2. \A x : (isdead(x)' <=> isdead(x)) /\ (InUse(x)' <=> InUse(x))
      BY <2>1 DEF isdead, InUse
    <3>3. AliveInv'
      <4>1. \A x \in allocated' : InUse(x) \/ isdead(x)' \/ \A y \in refs[x] : InUse(y)
        BY <3>2 DEF InUse
      <4>2. InUse(running)'
        BY <3>2, AtHand DEF InUse
      <4>3. ~Sweeping' => ~Sweeping
        BY <1>7 DEF Sweeping
      <4> QED
        BY <1>5, <3>1, <3>2, <4>1, <4>2, <4>3, AliveKept DEF OpenInv
    <3>4. ColourInv'
      BY <2>1 DEF OpenInv, ColourInv, isblack
    <3>5. MarkInv'
      <4>1. Listing' <=> Listing
        BY <2>1 DEF Listing, lists
      <4>2. Blackness => Blackness'
        BY <1>2, <2>1, <2>3 DEF Blackness, OpenInv, TypeInv, IsWhite, isblack
      <4> QED
        BY <1>7, <4>1, <4>2 DEF OpenInv, MarkInv
    <3>6. SweepInv' /\ IdleInv'
      BY <1>7, <2>1, SweepKept DEF OpenInv
    <3> QED
      BY <1>4, <1>6, <3>1, <3>3, <3>4, <3>5, <3>6 DEF OpenInv
  <2> QED
    BY <1>8, <2>2, <2>3
<1>9. CASE isblack(o) /\ IsWhite(marked, v) /\ gcstate = "propagate"
  <2>1. /\ marked' = Painted(Marking({v})) /\ gray' = gray \cup (Marking({v}) \cap Listed)
        /\ UNCHANGED <<grayagain, weak>>
    BY <1>9 DEF luaC_barrier, reallymarkobject
  <2>2. /\ marked' \in [Objects -> Colour]
        /\ Marking({v}) \subseteq allocated
        /\ \A x \in allocated : marked'[x] # "otherwhite"
        /\ \A x \in Objects : ~IsWhite(marked, x) => marked'[x] = marked[x]
        /\ \A x \in {v} : ~IsWhite(marked', x)
        /\ ~IsWhite(marked', Main) /\ ~IsWhite(marked', Registry)
        /\ \A x \in allocated : marked'[x] = "black" =>
              /\ x \notin Threads \cup Weak
              /\ x \in Upvals => owner[x] = NoThread
              /\ x \notin tmudata => \A y \in refs[x] : ~IsWhite(marked', y)
        /\ \A x \in allocated : marked'[x] = "gray" =>
              /\ x \notin Udata
              /\ x \in Upvals => owner[x] # NoThread
              /\ x \in Listed => x \in gray \cup grayagain \cup weak \cup Marking({v})
    <3>1. PICK S : S = {v}
      OBVIOUS
    <3>2. S \subseteq allocated /\ marked' = Painted(Marking(S))
      BY <1>1, <2>1, <3>1
    <3> QED
      BY <1>9, <3>1, <3>2, PaintKept
  <2>3. TypeInv'
    BY <1>3, <1>7, <2>2 DEF OpenInv, TypeInv
  <2>4. \A x \in allocated : ~isdead(x) /\ ~isdead(x)'
    BY <1>9, <2>2 DEF OpenInv, AliveInv, Sweeping, isdead
  <2>5. AliveInv'
    <3>1. \A x \in allocated : InUse(x) /\ InUse(x)'
      BY <2>4 DEF InUse
    <3>2. \A x \in allocated' : \A y \in refs'[x] : y \in refs[x] \/ InUse(y)'
      BY <1>5, <3>1 DEF InUse
    <3>3. InUse(running)' /\ (~Sweeping' => ~Sweeping)
      BY <1>7, <3>1, AtHand DEF Sweeping
    <3> QED
      BY <2>3, <2>4, <3>1, <3>2, <3>3, AliveKept DEF OpenInv
  <2>6. ColourInv'
    BY <2>2 DEF ColourInv, isblack
  <2>7. Listing'
    BY <1>9, <2>1, <2>2 DEF OpenInv, MarkInv, Listing
  <2>8. Blackness'
    <3>1. ~IsWhite(marked', v)
      BY <2>2
    <3> QED
      BY <1>1, <1>2, <2>2, <3>1 DEF Blackness, OpenInv, TypeInv, IsWhite, isblack
  <2>9. MarkInv' /\ SweepInv' /\ IdleInv'
    BY <1>7, <1>9, <2>7, <2>8 DEF MarkInv, SweepInv, IdleInv, Sweeping
  <2> QED
    BY <1>4, <1>6, <2>3, <2>5, <2>6, <2>9 DEF OpenInv
<1>10. CASE isblack(o) /\ IsWhite(marked, v) /\ gcstate # "propagate"
  <2>1. marked' = [marked EXCEPT ![o] = "white"] /\ UNCHANGED lists
    BY <1>10 DEF luaC_barrier
  <2>2. \A x \in Objects : marked'[x] = IF x = o THEN "white" ELSE marked[x]
    BY <2>1 DEF OpenInv, TypeInv
  <2>3. TypeInv'
    BY <1>3, <1>7, <2>1 DEF OpenInv, TypeInv, Colour, Whites
  <2>4. \A x \in Objects : (isdead(x)' <=> isdead(x)) /\ (InUse(x)' <=> InUse(x))
    BY <1>10, <2>2 DEF isdead, InUse, isblack
  <2>5. allocated \subseteq Objects
    BY DEF OpenInv, TypeInv
  <2>6. AliveInv'
    <3>1. \A x \in allocated' : InUse(x) \/ isdead(x)' \/ \A y \in refs[x] : InUse(y)
      BY <2>4, <2>5 DEF InUse
    <3>2. InUse(running)' /\ (~Sweeping' => ~Sweeping)
      BY <1>7, <2>4, <2>5, AtHand DEF InUse, Sweeping
    <3>3. \A x \in allocated' : \A y \in refs'[x] : y \in refs[x] \/ InUse(y)'
      BY <1>5, <2>4, <2>5 DEF InUse
    <3>4. Threads \subseteq Objects
      BY Sorts
    <3> QED
      BY <2>3, <2>4, <2>5, <3>1, <3>2, <3>3, <3>4, AliveKept DEF OpenInv
  <2>7. ColourInv'
    BY <2>2, <2>5 DEF OpenInv, ColourInv, isblack
  <2>8. MarkInv'
    BY <1>7, <1>10 DEF MarkInv
  <2>9. SweepInv' /\ IdleInv'
    <3>1. \A x \in allocated' \ tmudata' :
           \/ marked'[x] = "white"
           \/ /\ x \in allocated /\ marked[x] # "white"
              /\ x \in Upvals => owner'[x] = owner[x]
      BY <2>2, <2>5
    <3> QED
      BY <1>7, <3>1, SweepKept DEF OpenInv
  <2> QED
    BY <1>4, <1>6, <2>3, <2>6, <2>7, <2>8, <2>9 DEF OpenInv
<1> QED
  BY <1>8, <1>9, <1>10

LEMMA SetUpvalKept ==
  ASSUME OpenInv, NEW c \in Closures, NEW u \in Upvals, NEW o \in Values, SetUpval(c, u, o)
  PROVE  OpenInv'
<1>1. InUse(u) /\ InUse(o)
  BY AtHand DEF SetUpval
<1>2. u \notin Udata /\ hasgc \subseteq Udata \cap allocated
  BY Sorts DEF OpenInv, TypeInv
<1> QED
  BY <1>1, <1>2, BarrierKept DEF SetUpval, final

LEMMA SetMetatableKept ==
  ASSUME OpenInv, NEW u \in Udata, NEW t \in AllTables, NEW withgc \in BOOLEAN,
         lua_setmetatable(u, t, withgc)
  PROVE  OpenInv'
<1>1. InUse(u) /\ InUse(t) /\ t \in Values
  BY AtHand, Sorts DEF lua_setmetatable
<1>2. hasgc' \subseteq Udata \cap allocated
  BY <1>1 DEF lua_setmetatable, Gc, OpenInv, TypeInv, InUse
<1> QED
  BY <1>1, <1>2, BarrierKept DEF lua_setmetatable

(* The steps that leave the heap, the collector and the list of userdata   *)
(* that wait alone.                                                        *)
LEMMA FlagsKept ==
  ASSUME OpenInv, UNCHANGED <<heap, marked, lists, gcstate, unswept, finalized, tmudata, called>>,
         hasgc' \subseteq Udata \cap allocated
  PROVE  OpenInv'
<1>1. UNCHANGED <<allocated, refs, owner, running, marked, gray, grayagain, weak, gcstate,
                  unswept, finalized, tmudata, called>>
  BY DEF heap, lists
<1>2. TypeInv' /\ EdgeInv' /\ ColourInv' /\ FinalInv'
  BY <1>1 DEF OpenInv, TypeInv, EdgeInv, ColourInv, FinalInv, isblack
<1>3. AliveInv'
  BY <1>1 DEF OpenInv, AliveInv, Sweeping, InUse, isdead
<1>4. MarkInv' /\ SweepInv' /\ IdleInv'
  BY <1>1 DEF OpenInv, MarkInv, Listing, Blackness, IsWhite, isblack, SweepInv, IdleInv, Sweeping
<1> QED
  BY <1>2, <1>3, <1>4 DEF OpenInv

LEMMA SetGcKept ==
  ASSUME OpenInv, NEW t, NEW withgc \in BOOLEAN, SetGc(t, withgc)
  PROVE  OpenInv'
<1>1. \A u \in With(t) : u \in Udata /\ u \in allocated
  BY Sorts DEF With, OpenInv, EdgeInv
<1>2. hasgc' \subseteq Udata \cap allocated
  BY <1>1 DEF SetGc, Gc, OpenInv, TypeInv
<1> QED
  BY <1>2, FlagsKept DEF SetGc, cycle

LEMMA ThrowKept ==
  ASSUME OpenInv, luaD_throw
  PROVE  OpenInv'
<1>1. hasgc' \subseteq Udata \cap allocated
  BY DEF luaD_throw, final, OpenInv, TypeInv, heap
<1> QED
  BY <1>1, FlagsKept DEF luaD_throw, final

LEMMA SetFieldKept ==
  ASSUME OpenInv, NEW t \in AllTables, NEW o \in Values, SetField(t, o)
  PROVE  OpenInv'
<1>1. /\ refs' = [refs EXCEPT ![t] = @ \cup {o}] /\ luaC_barriert(t, o)
      /\ UNCHANGED <<allocated, owner, running, gcstate, unswept, full,
                     hasgc, finalized, tmudata, called, phase>>
  BY DEF SetField, cycle, final
<1>2. InUse(t) /\ t \in allocated /\ t \in Objects /\ InUse(o) /\ t \in Listed
  BY AtHand, Sorts DEF SetField, InUse, Listed
<1>3. \A z \in Objects : refs'[z] = IF z = t THEN refs[t] \cup {o} ELSE refs[z]
  BY <1>1 DEF OpenInv, TypeInv
<1>4. refs' \in [Objects -> SUBSET (Values \cup Upvals)]
  BY <1>1 DEF OpenInv, TypeInv
<1>5. EdgeInv'
  <2>1. \A z \in Objects : refs'[z] = refs[z] \/ z \in allocated' \cap Listed
    BY <1>1, <1>2, <1>3
  <2> QED
    BY <1>1, <2>1, EdgeKept DEF OpenInv
<1>6. \A z \in allocated : \A y \in refs'[z] : y \in refs[z] \/ InUse(y)
  BY <1>2, <1>3 DEF OpenInv, TypeInv
<1>7. allocated \subseteq Objects
  BY DEF OpenInv, TypeInv
<1>8. FinalInv'
  BY <1>1 DEF OpenInv, FinalInv
<1> DEFINE again == isblack(t) /\ IsWhite(marked, o)
<1>9. \A x \in Objects : marked'[x] = IF again /\ x = t THEN "gray" ELSE marked[x]
  BY <1>1 DEF OpenInv, TypeInv, luaC_barriert
<1>10. /\ gray' = gray /\ weak' = weak
       /\ grayagain' = IF again THEN grayagain \cup {t} ELSE grayagain
  BY <1>1 DEF luaC_barriert, lists
<1>11. TypeInv'
  <2>1. marked' \in [Objects -> Colour]
    BY <1>1, <1>2 DEF OpenInv, TypeInv, luaC_barriert, Colour
  <2> QED
    BY <1>1, <1>4, <2>1 DEF OpenInv, TypeInv
<1>12. \A x \in Objects : (isdead(x)' <=> isdead(x)) /\ (InUse(x)' <=> InUse(x))
  BY <1>1, <1>9 DEF isdead, InUse, isblack
<1>13. AliveInv'
  <2>1. \A x \in allocated' : InUse(x) \/ isdead(x)' \/ \A y \in refs[x] : InUse(y)
    BY <1>1, <1>7, <1>12 DEF InUse
  <2>2. InUse(running)' /\ (~Sweeping' => ~Sweeping)
    BY <1>1, <1>7, <1>12, AtHand DEF InUse, Sweeping
  <2>3. \A x \in allocated' : \A y \in refs'[x] : y \in refs[x] \/ InUse(y)'
    BY <1>1, <1>6, <1>7, <1>12 DEF InUse
  <2>4. Threads \subseteq Objects
    BY Sorts
  <2> QED
    BY <1>1, <1>7, <1>11, <1>12, <2>1, <2>2, <2>3, <2>4, AliveKept DEF OpenInv
<1>14. ColourInv'
  <2>1. t \notin Udata \cup Upvals
    BY Sorts
  <2> QED
    BY <1>1, <1>7, <1>9, <2>1 DEF OpenInv, ColourInv, isblack
<1>15. MarkInv'
  <2> SUFFICES ASSUME gcstate = "propagate" PROVE Listing' /\ Blackness'
    BY <1>1 DEF MarkInv
  <2>1. Listing /\ Blackness
    BY DEF OpenInv, MarkInv
  <2>2. Listing'
    <3>1. again => t \notin Weak
      BY <1>2 DEF OpenInv, ColourInv
    <3> QED
      BY <1>1, <1>2, <1>7, <1>9, <1>10, <2>1, <3>1 DEF Listing
  <2>3. \A x \in Objects : ~IsWhite(marked, x) => ~IsWhite(marked, x)'
    BY <1>9 DEF IsWhite, Whites
  <2>4. ~IsWhite(marked, Main)' /\ ~IsWhite(marked, Registry)'
    BY <2>1, <2>3, Sorts DEF Blackness
  <2>5. ASSUME NEW x \in allocated' \ tmudata', isblack(x)', NEW y \in refs'[x]
        PROVE  ~IsWhite(marked, y)'
    <3>1. x \in allocated \ tmudata /\ isblack(x) /\ ~(again /\ x = t)
      BY <1>1, <1>7, <1>9, <2>5 DEF isblack
    <3>2. ~IsWhite(marked, y)
      BY <1>3, <1>7, <2>1, <2>5, <3>1 DEF Blackness
    <3>3. y \in Objects
      BY <1>11, <2>5, <3>1, <1>7, Sorts DEF TypeInv
    <3> QED
      BY <2>3, <3>2, <3>3
  <2> QED
    BY <2>2, <2>4, <2>5 DEF Blackness
<1>16. SweepInv' /\ IdleInv'
  <2>1. \A x \in allocated' \ tmudata' :
           \/ marked'[x] = "white"
           \/ /\ x \in allocated /\ marked[x] # "white"
              /\ x \in Upvals => owner'[x] = owner[x]
    BY <1>1, <1>7, <1>9 DEF isblack
  <2> QED
    BY <1>1, <2>1, SweepKept DEF OpenInv
<1> QED
  BY <1>5, <1>8, <1>11, <1>13, <1>14, <1>15, <1>16 DEF OpenInv

(* luaF_close: a dead upvalue is freed, and no object in use refers to it;  *)
(* a gray one, which the stack of its thread kept up to date, is traversed. *)
LEMMA CloseKept ==
  ASSUME OpenInv, NEW u \in Upvals, luaF_close(u)
  PROVE  OpenInv'
<1>1. /\ u \in allocated /\ owner[u] = running /\ u \in Objects /\ u \notin Values /\ u \notin Threads
      /\ owner' = [owner EXCEPT ![u] = NoThread]
      /\ UNCHANGED <<running, gcstate, unswept, full, hasgc, finalized, tmudata, called, phase>>
  BY Sorts DEF luaF_close, OpenUpvals, cycle, final
<1>2. \A x \in Upvals : owner'[x] = IF x = u THEN NoThread ELSE owner[x]
  BY <1>1 DEF OpenInv, TypeInv
<1>3. owner' \in [Upvals -> Threads \cup {NoThread}]
  BY <1>1 DEF OpenInv, TypeInv
<1>4. FinalInv'
  BY <1>1 DEF OpenInv, FinalInv
<1>5. ~isblack(u)
  BY <1>1, AtHand, Sorts DEF OpenInv, ColourInv
<1>6. CASE isdead(u)
  <2>1. /\ allocated' = allocated \ {u} /\ refs' = [refs EXCEPT ![u] = {}]
        /\ marked' = [marked EXCEPT ![u] = "white"]
        /\ UNCHANGED <<gray, grayagain, weak>>
    BY <1>6 DEF luaF_close, lists
  <2>2. \A x \in Objects : /\ refs'[x] = IF x = u THEN {} ELSE refs[x]
                           /\ marked'[x] = IF x = u THEN "white" ELSE marked[x]
    BY <2>1 DEF OpenInv, TypeInv
  <2>3. Sweeping /\ Sweeping'
    BY <1>1, <1>6 DEF OpenInv, AliveInv, Sweeping
  <2>4. allocated \subseteq Objects /\ u \notin Udata
    BY <1>1, Sorts DEF OpenInv, TypeInv
  <2>5. TypeInv'
    BY <1>1, <1>3, <2>1, <2>4 DEF OpenInv, TypeInv, Colour, Whites
  <2>6. EdgeInv'
    <3>1. u \notin Threads /\ NoThread \notin Threads
      BY Sorts
    <3>2. \A x \in Upvals \cap allocated' : owner'[x] # NoThread => owner'[x] \in allocated'
      BY <1>1, <1>2, <2>1, <3>1 DEF OpenInv, EdgeInv, TypeInv
    <3>3. \A x \in Udata \cup Strings : x # u /\ x \in Objects
      BY Sorts
    <3>4. \A x \in Objects \ allocated' : refs'[x] = {}
      BY <2>1, <2>2 DEF OpenInv, EdgeInv
    <3>5. \A x \in Upvals : refs'[x] \subseteq Values
      BY <2>2, Sorts DEF OpenInv, EdgeInv
    <3> QED
      BY <2>2, <3>2, <3>3, <3>4, <3>5 DEF OpenInv, EdgeInv
  <2>7. ColourInv'
    BY <1>2, <2>1, <2>2, <2>4 DEF OpenInv, ColourInv, isblack
  <2>8. \A x \in Objects : InUse(x) <=> InUse(x)'
    BY <1>6, <2>1, <2>2 DEF InUse, isdead
  <2>9. AliveInv'
    <3>1. \A x \in {Main, Registry, running'} \cup tmudata' : InUse(x)'
      BY <1>1, <2>8, Sorts DEF OpenInv, AliveInv, TypeInv
    <3>2. ASSUME NEW x \in allocated', ~isdead(x)', NEW y \in refs'[x] PROVE InUse(y)'
      <4>1. x \in allocated /\ ~isdead(x) /\ y \in refs[x] /\ y \in Objects
        BY <2>1, <2>2, <2>4, <3>2, Sorts DEF isdead, OpenInv, TypeInv
      <4> QED
        BY <2>8, <4>1 DEF OpenInv, AliveInv
    <3>3. ASSUME NEW x \in Upvals \cap allocated', owner'[x] # NoThread, ~isdead(owner[x])',
                 NEW y \in refs'[x]
          PROVE  InUse(y)'
      <4>1. x \in allocated /\ owner[x] # NoThread /\ owner'[x] = owner[x]
        BY <1>2, <2>1, <3>3
      <4>2. owner[x] \in Threads /\ owner[x] \in Objects /\ owner[x] # u
        BY <1>1, <4>1, Sorts DEF OpenInv, TypeInv
      <4>3. ~isdead(owner[x])
        BY <2>2, <3>3, <4>1, <4>2 DEF isdead
      <4>4. y \in refs[x] /\ y \in Objects
        BY <2>1, <2>2, <2>4, <3>3, Sorts DEF OpenInv, TypeInv
      <4> QED
        BY <2>8, <4>1, <4>3, <4>4 DEF OpenInv, AliveInv
    <3> QED
      BY <2>3, <3>1, <3>2, <3>3 DEF AliveInv
  <2>10. MarkInv' /\ IdleInv'
    BY <2>3 DEF MarkInv, IdleInv, Sweeping
  <2>11. SweepInv'
    BY <1>1, <1>2, <2>1, <2>2, <2>4 DEF OpenInv, SweepInv, Sweeping
  <2> QED
    BY <1>4, <2>5, <2>6, <2>7, <2>9, <2>10, <2>11 DEF OpenInv
<1>7. CASE ~isdead(u)
  <2>1. allocated' = allocated /\ refs' = refs /\ luaC_linkupval(u)
    BY <1>7 DEF luaF_close
  <2>2. EdgeInv'
    BY <1>2, <2>1 DEF OpenInv, EdgeInv
  <2>3. allocated \subseteq Objects /\ refs[u] \subseteq Objects
    BY <1>1, Sorts DEF OpenInv, TypeInv
  <2>4. \A y \in refs[u] : InUse(y)
    BY <1>1, <1>7 DEF OpenInv, AliveInv
  <2>5. ASSUME TypeInv',
               \A x \in Objects : isdead(x)' <=> isdead(x)
        PROVE  AliveInv'
    <3>1. \A x \in Objects : InUse(x)' <=> InUse(x)
      BY <2>1, <2>5 DEF InUse
    <3>2. InUse(running)' /\ (~Sweeping' => ~Sweeping)
      BY <1>1, <2>3, <3>1, AtHand DEF InUse, Sweeping
    <3>3. \A x \in allocated' : InUse(x) \/ isdead(x)' \/ \A y \in refs[x] : InUse(y)
      BY <2>1, <2>3, <2>5 DEF InUse
    <3>4. \A x \in Upvals \cap allocated' :
            \/ x \in allocated /\ owner'[x] = owner[x]
            \/ \A y \in refs[x] : InUse(y)
      BY <1>2, <2>1, <2>4
    <3> QED
      BY <1>1, <2>1, <2>3, <2>5, <3>2, <3>3, <3>4, Sorts, AliveKept DEF OpenInv
  <2>6. CASE marked[u] # "gray"
    <3>1. UNCHANGED <<marked, gray, grayagain, weak>>
      BY <2>1, <2>6 DEF luaC_linkupval, lists
    <3>2. TypeInv'
      BY <1>1, <1>3, <2>1, <3>1 DEF OpenInv, TypeInv
    <3>3. AliveInv'
      BY <2>5, <3>1, <3>2 DEF isdead
    <3>4. ColourInv'
      BY <1>2, <2>1, <2>6, <3>1, <1>5 DEF OpenInv, ColourInv, isblack
    <3>5. MarkInv'
      BY <1>1, <2>1, <3>1 DEF OpenInv, MarkInv, Listing, Blackness, IsWhite, isblack
    <3>6. marked[u] = "white"
      BY <1>1, <1>5, <1>7, <2>3, <2>6 DEF OpenInv, TypeInv, Colour, Whites, isdead, isblack
    <3>7. SweepInv' /\ IdleInv'
      <4>1. \A x \in allocated' \ tmudata' :
              \/ marked'[x] = "white"
              \/ /\ x \in allocated /\ marked[x] # "white"
                 /\ x \in Upvals => owner'[x] = owner[x]
        BY <1>2, <2>1, <3>1, <3>6
      <4> QED
        BY <1>1, <4>1, SweepKept DEF OpenInv
    <3> QED
      BY <1>4, <2>2, <3>2, <3>3, <3>4, <3>5, <3>7 DEF OpenInv
  <2>7. CASE marked[u] = "gray" /\ gcstate = "propagate"
    <3>1. /\ marked' = [Painted(Marking(refs[u])) EXCEPT ![u] = "black"]
          /\ gray' = gray \cup (Marking(refs[u]) \cap Listed) /\ UNCHANGED <<grayagain, weak>>
      BY <2>1, <2>7 DEF luaC_linkupval
    <3>2. PICK P : P = Painted(Marking(refs[u]))
      OBVIOUS
    <3>3. refs[u] \subseteq allocated
      BY <2>4 DEF InUse
    <3>4. /\ P \in [Objects -> Colour]
          /\ Marking(refs[u]) \subseteq allocated
          /\ \A x \in allocated : P[x] # "otherwhite"
          /\ \A x \in Objects : ~IsWhite(marked, x) => P[x] = marked[x]
          /\ \A x \in refs[u] : ~IsWhite(P, x)
          /\ ~IsWhite(P, Main) /\ ~IsWhite(P, Registry)
          /\ \A x \in allocated : P[x] = "black" =>
               /\ x \notin Threads \cup Weak
               /\ x \in Upvals => owner[x] = NoThread
               /\ x \notin tmudata => \A y \in refs[x] : ~IsWhite(P, y)
          /\ \A x \in allocated : P[x] = "gray" =>
               /\ x \notin Udata
               /\ x \in Upvals => owner[x] # NoThread
               /\ x \in Listed => x \in gray \cup grayagain \cup weak \cup Marking(refs[u])
      BY <2>7, <3>2, <3>3, PaintKept
    <3>5. \A x \in Objects : marked'[x] = IF x = u THEN "black" ELSE P[x]
      BY <3>1, <3>2, <3>4
    <3>6. TypeInv'
      <4>1. marked' \in [Objects -> Colour]
        BY <3>1, <3>2, <3>4 DEF Colour
      <4> QED
        BY <1>1, <1>3, <2>1, <4>1 DEF OpenInv, TypeInv
    <3>7. \A x \in allocated : ~isdead(x) /\ ~isdead(x)'
      BY <2>3, <2>7, <3>4, <3>5 DEF OpenInv, AliveInv, Sweeping, isdead
    <3>8. AliveInv'
      <4>1. \A x \in allocated : InUse(x) /\ InUse(x)'
        BY <2>1, <3>7 DEF InUse
      <4>2. InUse(running)' /\ (~Sweeping' => ~Sweeping)
        BY <1>1, <4>1, AtHand DEF Sweeping
      <4>3. \A x \in Upvals \cap allocated' :
            \/ x \in allocated /\ owner'[x] = owner[x]
            \/ \A y \in refs[x] : InUse(y)
        BY <1>2, <2>1, <2>4
      <4> QED
        BY <1>1, <2>1, <3>6, <3>7, <4>1, <4>2, <4>3, AliveKept DEF OpenInv
    <3>9. u \notin Threads \cup Weak \cup Udata \cup Listed
      BY Sorts DEF Listed
    <3>10. ColourInv'
      BY <1>1, <1>2, <2>1, <2>3, <3>4, <3>5, <3>9 DEF ColourInv, isblack
    <3>11. Listing'
      BY <2>1, <2>3, <2>7, <3>1, <3>2, <3>4, <3>5, <3>9 DEF OpenInv, MarkInv, Listing
    <3>12. Blackness'
      <4>1. \A x \in Objects : ~IsWhite(P, x) => ~IsWhite(marked, x)'
        BY <3>5 DEF IsWhite, Whites
      <4>2. \A x \in allocated : refs[x] \subseteq Objects
        BY <2>3, Sorts DEF OpenInv, TypeInv
      <4>3. ~IsWhite(marked, Main)' /\ ~IsWhite(marked, Registry)'
        BY <3>4, <4>1, Sorts
      <4>4. ASSUME NEW x \in allocated \ tmudata, isblack(x)', NEW y \in refs[x]
            PROVE  ~IsWhite(marked, y)'
        <5>1. ~IsWhite(P, y)
          BY <2>3, <3>4, <3>5, <4>4 DEF isblack
        <5> QED
          BY <4>1, <4>2, <5>1
      <4> QED
        BY <1>1, <2>1, <4>3, <4>4 DEF Blackness
    <3>13. MarkInv' /\ SweepInv' /\ IdleInv'
      BY <1>1, <2>7, <3>11, <3>12 DEF MarkInv, SweepInv, IdleInv, Sweeping
    <3> QED
      BY <1>4, <2>2, <3>6, <3>8, <3>10, <3>13 DEF OpenInv
  <2>8. CASE marked[u] = "gray" /\ gcstate # "propagate"
    <3>1. marked' = [marked EXCEPT ![u] = "white"] /\ UNCHANGED <<gray, grayagain, weak>>
      BY <2>1, <2>8 DEF luaC_linkupval, lists
    <3>2. \A x \in Objects : marked'[x] = IF x = u THEN "white" ELSE marked[x]
      BY <3>1 DEF OpenInv, TypeInv
    <3>3. TypeInv'
      BY <1>1, <1>3, <2>1, <3>1 DEF OpenInv, TypeInv, Colour, Whites
    <3>4. AliveInv'
      BY <1>7, <2>5, <3>2, <3>3 DEF isdead
    <3>5. ColourInv'
      BY <1>2, <2>1, <2>3, <3>2 DEF OpenInv, ColourInv, isblack
    <3>6. MarkInv'
      BY <1>1, <2>8 DEF MarkInv
    <3>7. SweepInv' /\ IdleInv'
      <4>1. \A x \in allocated' \ tmudata' :
              \/ marked'[x] = "white"
              \/ /\ x \in allocated /\ marked[x] # "white"
                 /\ x \in Upvals => owner'[x] = owner[x]
        BY <1>2, <2>1, <2>3, <3>2
      <4> QED
        BY <1>1, <4>1, SweepKept DEF OpenInv
    <3> QED
      BY <1>4, <2>2, <3>3, <3>4, <3>5, <3>6, <3>7 DEF OpenInv
  <2> QED
    BY <2>6, <2>7, <2>8
<1> QED
  BY <1>6, <1>7

-----------------------------------------------------------------------------
(* The collector *)

(* A cycle starts from a heap that is all white, but for the userdata that  *)
(* wait for their finalizers.                                              *)
LEMMA NewCycleKept ==
  ASSUME OpenInv, NewCycle, gcstate \in {"pause", "finalize"},
         UNCHANGED <<heap, unswept, final>>
  PROVE  OpenInv'
<1>1. UNCHANGED <<allocated, refs, owner, running, unswept, hasgc, finalized, tmudata, called>>
  BY DEF heap, final
<1>2. /\ gcstate' = "propagate" /\ gray' = WhiteIn(marked, {Main, Registry})
      /\ marked' = Painted(gray') /\ grayagain' = {} /\ weak' = {}
  BY DEF NewCycle
<1>3. /\ {Main, Registry} \subseteq allocated /\ allocated \subseteq Objects
      /\ {Main, Registry} \cap (Udata \cup Upvals) = {} /\ {Main, Registry} \subseteq Listed
  BY Sorts DEF OpenInv, AliveInv, TypeInv, InUse, Listed
<1>4. \A o \in allocated \ tmudata : marked[o] = "white"
  BY DEF OpenInv, IdleInv
<1>5. gray' = {Main, Registry}
  BY <1>2, <1>3, <1>4 DEF OpenInv, TypeInv, WhiteIn, IsWhite, Whites
<1>6. \A x \in Objects : marked'[x] = IF x \in {Main, Registry} THEN "gray" ELSE marked[x]
  BY <1>2, <1>3, <1>5 DEF Painted, MarkedAs
<1>7. TypeInv'
  <2>1. marked' \in [Objects -> Colour]
    BY <1>2, <1>6 DEF Painted, OpenInv, TypeInv, Colour
  <2> QED
    BY <1>1, <1>2, <2>1 DEF OpenInv, TypeInv, States
<1>8. EdgeInv' /\ FinalInv'
  BY <1>1 DEF OpenInv, EdgeInv, FinalInv
<1>9. \A x \in allocated : ~isdead(x) /\ ~isdead(x)'
  BY <1>3, <1>6 DEF OpenInv, AliveInv, Sweeping, isdead
<1>10. AliveInv'
  <2>1. \A x \in allocated : InUse(x) /\ InUse(x)'
    BY <1>1, <1>9 DEF InUse
  <2>2. InUse(running)' /\ ~Sweeping
    BY <1>1, <2>1, AtHand DEF Sweeping
  <2> QED
    BY <1>1, <1>7, <1>9, <2>1, <2>2, AliveKept DEF OpenInv
<1>11. ColourInv'
  BY <1>1, <1>3, <1>6 DEF OpenInv, ColourInv, isblack
<1>12. Listing' /\ Blackness'
  <2>1. \A x \in allocated \ tmudata : ~isblack(x)'
    BY <1>3, <1>4, <1>6 DEF isblack
  <2>2. ~IsWhite(marked, Main)' /\ ~IsWhite(marked, Registry)'
    BY <1>3, <1>6 DEF IsWhite, Whites
  <2>3. \A x \in allocated \cap Listed : x \notin tmudata
    BY Sorts DEF Listed, OpenInv, TypeInv
  <2>4. Listing'
    BY <1>1, <1>2, <1>3, <1>4, <1>5, <1>6, <2>3 DEF Listing
  <2> QED
    BY <1>1, <2>1, <2>2, <2>4 DEF Blackness
<1>13. MarkInv' /\ SweepInv' /\ IdleInv'
  BY <1>2, <1>12 DEF MarkInv, SweepInv, IdleInv, Sweeping
<1> QED
  BY <1>7, <1>8, <1>10, <1>11, <1>13 DEF OpenInv

(* propagatemark: what the traversal of o leads to is painted before o is   *)
(* taken off the gray list; threads and weak tables stay listed.           *)
LEMMA PropagateKept ==
  ASSUME OpenInv, NEW o, propagatemark(o)
  PROVE  OpenInv'
<1>1. /\ gcstate = "propagate" /\ o \in gray
      /\ UNCHANGED <<allocated, refs, owner, running, gcstate, unswept, full,
                     hasgc, finalized, tmudata, called, phase>>
      /\ marked' = [Painted(Marking(Strong(o))) EXCEPT ![o] = TraversedAs(o)]
      /\ gray' = (gray \ {o}) \cup (Marking(Strong(o)) \cap Listed)
      /\ grayagain' = (IF o \in Threads THEN grayagain \cup {o} ELSE grayagain)
      /\ weak' = (IF o \in Weak THEN weak \cup {o} ELSE weak)
  BY DEF propagatemark, heap, cycle, final
<1>2. Listing /\ Blackness /\ o \in Listed \cap allocated /\ allocated \subseteq Objects
  BY <1>1 DEF OpenInv, MarkInv, Listing, TypeInv
<1>3. \A x \in allocated : ~isdead(x) /\ refs[x] \subseteq allocated
  BY <1>1 DEF OpenInv, AliveInv, Sweeping, InUse
<1>4. Strong(o) \subseteq allocated
  BY <1>2, <1>3 DEF Strong, OpenUpvals
<1>5. PICK P : P = Painted(Marking(Strong(o)))
  OBVIOUS
<1>6. /\ P \in [Objects -> Colour]
      /\ Marking(Strong(o)) \subseteq allocated
      /\ \A x \in allocated : P[x] # "otherwhite"
      /\ \A x \in Objects : ~IsWhite(marked, x) => P[x] = marked[x]
      /\ \A x \in Strong(o) : ~IsWhite(P, x)
      /\ ~IsWhite(P, Main) /\ ~IsWhite(P, Registry)
      /\ \A x \in allocated : P[x] = "black" =>
           /\ x \notin Threads \cup Weak
           /\ x \in Upvals => owner[x] = NoThread
           /\ x \notin tmudata => \A y \in refs[x] : ~IsWhite(P, y)
      /\ \A x \in allocated : P[x] = "gray" =>
           /\ x \notin Udata
           /\ x \in Upvals => owner[x] # NoThread
           /\ x \in Listed => x \in gray \cup grayagain \cup weak \cup Marking(Strong(o))
  BY <1>1, <1>4, <1>5, PaintKept
<1>7. /\ o \in Objects /\ o \notin Udata /\ o \notin Upvals
      /\ TraversedAs(o) \in {"gray", "black"}
      /\ TraversedAs(o) = "black" => o \notin Threads \cup Weak
      /\ TraversedAs(o) = "gray" => o \in Threads \cup Weak
  BY <1>2, Sorts DEF Listed, TraversedAs, MarkedAs
<1>8. \A x \in Objects : marked'[x] = IF x = o THEN TraversedAs(o) ELSE P[x]
  BY <1>1, <1>5, <1>6
<1>9. TypeInv'
  <2>1. marked' \in [Objects -> Colour]
    BY <1>1, <1>5, <1>6, <1>7 DEF Colour
  <2> QED
    BY <1>1, <2>1 DEF OpenInv, TypeInv
<1>10. EdgeInv' /\ FinalInv'
  BY <1>1 DEF OpenInv, EdgeInv, FinalInv
<1>11. \A x \in allocated : ~isdead(x)'
  BY <1>2, <1>6, <1>7, <1>8 DEF isdead
<1>12. AliveInv'
  <2>1. \A x \in allocated : InUse(x) /\ InUse(x)'
    BY <1>1, <1>3, <1>11 DEF InUse
  <2>2. InUse(running)' /\ ~Sweeping
    BY <1>1, <2>1, AtHand DEF Sweeping
  <2> QED
    BY <1>1, <1>3, <1>9, <1>11, <2>1, <2>2, AliveKept DEF OpenInv
<1>13. ColourInv'
  BY <1>1, <1>2, <1>6, <1>7, <1>8 DEF ColourInv, isblack
<1>14. Listing'
  <2>1. gray' \cup grayagain' \cup weak' \subseteq Listed \cap allocated
    BY <1>1, <1>2, <1>6 DEF Listing
  <2>2. grayagain' \cap Weak = {}
    BY <1>1, <1>2, Sorts DEF Listing
  <2>3. \A x \in allocated \cap Listed :
          marked'[x] = "gray" => x \in gray' \cup grayagain' \cup weak'
    BY <1>1, <1>2, <1>6, <1>7, <1>8
  <2> QED
    BY <1>1, <2>1, <2>2, <2>3 DEF Listing
<1>15. Blackness'
  <2>1. \A x \in Objects : ~IsWhite(P, x) => ~IsWhite(marked, x)'
    BY <1>7, <1>8 DEF IsWhite, Whites
  <2>2. ~IsWhite(marked, Main)' /\ ~IsWhite(marked, Registry)'
    BY <1>6, <2>1, Sorts
  <2>3. ASSUME NEW x \in allocated \ tmudata, isblack(x)', NEW y \in refs[x]
        PROVE  ~IsWhite(marked, y)'
    <3>1. CASE x = o
      <4>1. refs[x] = Strong(o)
        BY <1>7, <1>8, <2>3, <3>1 DEF Strong, isblack
      <4> QED
        BY <1>2, <1>4, <1>6, <2>1, <2>3, <4>1
    <3>2. CASE x # o
      BY <1>2, <1>3, <1>6, <1>8, <2>1, <2>3, <3>2 DEF isblack
    <3> QED
      BY <3>1, <3>2
  <2> QED
    BY <1>1, <2>2, <2>3 DEF Blackness
<1>16. MarkInv' /\ SweepInv' /\ IdleInv'
  BY <1>1, <1>14, <1>15 DEF MarkInv, SweepInv, IdleInv, Sweeping
<1> QED
  BY <1>9, <1>10, <1>12, <1>13, <1>16 DEF OpenInv

LEMMA StringsSweptKept ==
  ASSUME OpenInv, StringsSwept
  PROVE  OpenInv'
<1>1. /\ gcstate = "sweepstring" /\ gcstate' = "sweep"
      /\ UNCHANGED <<allocated, refs, owner, running, marked, gray, grayagain, weak, unswept,
                     full, hasgc, finalized, tmudata, called, phase>>
  BY DEF StringsSwept, heap, lists, final
<1>2. TypeInv' /\ EdgeInv' /\ ColourInv' /\ FinalInv'
  BY <1>1 DEF OpenInv, TypeInv, EdgeInv, ColourInv, FinalInv, States, isblack
<1>3. AliveInv'
  BY <1>1 DEF OpenInv, AliveInv, Sweeping, InUse, isdead
<1>4. MarkInv' /\ SweepInv' /\ IdleInv'
  BY <1>1 DEF OpenInv, MarkInv, SweepInv, IdleInv, Sweeping
<1> QED
  BY <1>2, <1>3, <1>4 DEF OpenInv

LEMMA EndCycleKept ==
  ASSUME OpenInv, EndCycle
  PROVE  OpenInv'
<1>1. /\ gcstate = "finalize" /\ gcstate' = "pause"
      /\ UNCHANGED <<allocated, refs, owner, running, marked, gray, grayagain, weak, unswept,
                     hasgc, finalized, tmudata, called, phase>>
  BY DEF EndCycle, heap, lists, final
<1>2. TypeInv' /\ EdgeInv' /\ ColourInv' /\ FinalInv'
  BY <1>1 DEF OpenInv, TypeInv, EdgeInv, ColourInv, FinalInv, States, isblack
<1>3. AliveInv'
  BY <1>1 DEF OpenInv, AliveInv, Sweeping, InUse, isdead
<1>4. MarkInv' /\ SweepInv' /\ IdleInv'
  BY <1>1 DEF OpenInv, MarkInv, SweepInv, IdleInv, Sweeping
<1> QED
  BY <1>2, <1>3, <1>4 DEF OpenInv

LEMMA GCTMKept ==
  ASSUME OpenInv, NEW u, GCTM(u)
  PROVE  OpenInv'
<1> DEFINE given == {u} \cap hasgc
<1>1. /\ gcstate = "finalize" /\ u \in tmudata
      /\ tmudata' = tmudata \ {u} /\ called' = called \cup given
      /\ marked' = [marked EXCEPT ![u] = "white"]
      /\ refs' = [refs EXCEPT ![running] = @ \cup given]
      /\ UNCHANGED <<allocated, owner, running, gcstate, unswept, hasgc, finalized, phase>>
  BY DEF GCTM, GCTMOf
<1> given \subseteq {u}
  OBVIOUS
<1> HIDE DEF given
<1>2. u \in Udata /\ u \in allocated /\ u \in Objects /\ u \in Values /\ allocated \subseteq Objects
  BY <1>1, Sorts DEF OpenInv, TypeInv
<1>3. \A z \in Objects : /\ refs'[z] = IF z = running THEN refs[running] \cup given ELSE refs[z]
                         /\ marked'[z] = IF z = u THEN "white" ELSE marked[z]
  BY <1>1 DEF OpenInv, TypeInv
<1>4. TypeInv'
  BY <1>1, <1>2, AtHand, Sorts DEF OpenInv, TypeInv, Colour, Whites
<1>5. EdgeInv'
  <2>1. \A z \in Objects : refs'[z] = refs[z] \/ z \in allocated' \cap Listed
    BY <1>1, <1>3, AtHand DEF Listed
  <2> QED
    BY <1>1, <2>1, EdgeKept DEF OpenInv
<1>6. \A x \in allocated : ~isdead(x) /\ ~isdead(x)'
  BY <1>1, <1>2, <1>3 DEF OpenInv, AliveInv, Sweeping, isdead
<1>7. AliveInv'
  <2>1. \A x \in allocated : InUse(x) /\ InUse(x)'
    BY <1>1, <1>6 DEF InUse
  <2>2. InUse(running)' /\ ~Sweeping
    BY <1>1, <2>1, AtHand DEF Sweeping
  <2>3. \A x \in allocated' : \A y \in refs'[x] : y \in refs[x] \/ InUse(y)'
    BY <1>1, <1>2, <1>3, <2>1
  <2> QED
    BY <1>1, <1>4, <1>6, <2>1, <2>2, <2>3, AliveKept DEF OpenInv
<1>8. ColourInv'
  BY <1>1, <1>2, <1>3 DEF OpenInv, ColourInv, isblack
<1>9. MarkInv' /\ SweepInv'
  BY <1>1 DEF MarkInv, SweepInv, Sweeping
<1>10. IdleInv'
  BY <1>1, <1>2, <1>3 DEF OpenInv, IdleInv
<1>11. FinalInv'
  BY <1>1 DEF OpenInv, FinalInv
<1> QED
  BY <1>4, <1>5, <1>7, <1>8, <1>9, <1>10, <1>11 DEF OpenInv

(* luaC_fullgc sweeps what is marked, also when nothing is dead. *)
LEMMA FullGCKept ==
  ASSUME OpenInv, luaC_fullgc
  PROVE  OpenInv'
<1>1. UNCHANGED <<allocated, refs, owner, running, marked, hasgc, finalized, tmudata, called, phase>>
  BY DEF luaC_fullgc, heap, final
<1>2. EdgeInv' /\ ColourInv' /\ FinalInv'
  BY <1>1 DEF OpenInv, EdgeInv, ColourInv, FinalInv, isblack
<1>3. CASE gcstate \in {"pause", "propagate"}
  <2>1. /\ gray' = {} /\ grayagain' = {} /\ weak' = {}
        /\ unswept' = allocated \ (tmudata \cup {u \in Upvals : owner[u] # NoThread})
        /\ gcstate' = "sweepstring"
    BY <1>3 DEF luaC_fullgc
  <2>2. TypeInv'
    BY <1>1, <2>1 DEF OpenInv, TypeInv, States
  <2>3. AliveInv'
    BY <1>1, <2>1 DEF OpenInv, AliveInv, Sweeping, InUse, isdead
  <2>4. MarkInv' /\ IdleInv'
    BY <2>1 DEF MarkInv, IdleInv
  <2>5. SweepInv'
    <3>1. \A u \in Upvals \cap allocated : owner[u] # NoThread =>
            /\ owner[u] \in allocated /\ owner[u] \in Threads
      BY DEF OpenInv, EdgeInv, TypeInv
    <3>2. \A th \in Threads : th \notin tmudata /\ th \notin Upvals
      BY Sorts DEF OpenInv, TypeInv
    <3> QED
      BY <1>1, <2>1, <3>1, <3>2 DEF SweepInv
  <2> QED
    BY <1>2, <2>2, <2>3, <2>4, <2>5 DEF OpenInv
<1>4. CASE gcstate \notin {"pause", "propagate"}
  <2>1. UNCHANGED <<gray, grayagain, weak, unswept, gcstate>>
    BY <1>4 DEF luaC_fullgc, lists
  <2>2. TypeInv'
    BY <1>1, <2>1 DEF OpenInv, TypeInv, States
  <2>3. AliveInv'
    BY <1>1, <2>1 DEF OpenInv, AliveInv, Sweeping, InUse, isdead
  <2>4. MarkInv' /\ IdleInv' /\ SweepInv'
    BY <1>1, <1>4, <2>1 DEF OpenInv, MarkInv, IdleInv, SweepInv, Sweeping
  <2> QED
    BY <1>2, <2>2, <2>3, <2>4 DEF OpenInv
<1> QED
  BY <1>3, <1>4

(* What sweeplist does: what was dead is freed, and what is swept is white, *)
(* the open upvalues of a thread with it.                                  *)
LEMMA SweptFacts ==
  ASSUME OpenInv, Sweeping, NEW o, sweeplist(o)
  PROVE  /\ allocated' \subseteq allocated
         /\ \A x : InUse(x) <=> InUse(x)'
         /\ \A x \in Objects : refs'[x] = IF x \in allocated \ allocated' THEN {} ELSE refs[x]
         /\ \A x \in allocated' : marked'[x] = marked[x] \/ marked'[x] = "white"
         /\ \A x \in allocated' : x = o \/ (x \in Upvals /\ owner[x] = o) => marked'[x] = "white"
         /\ \A u \in Upvals : owner'[u] = owner[u] \/ owner'[u] = NoThread
         /\ \A u \in Upvals \cap allocated' :
              owner'[u] # owner[u] => marked'[u] = "white"
         /\ \A u \in Upvals \cap allocated' : owner'[u] # NoThread =>
              owner'[u] = owner[u] /\ owner[u] \in allocated'
         /\ unswept' = unswept \ {o} /\ UNCHANGED <<running, tmudata, phase>>
         /\ refs' \in [Objects -> SUBSET (Values \cup Upvals)]
         /\ owner' \in [Upvals -> Threads \cup {NoThread}]
         /\ marked' \in [Objects -> Colour]
         /\ tmudata \cup hasgc' \subseteq Udata \cap allocated'
         /\ FinalInv'
<1> DEFINE open == OpenUpvals(o)
           freed == Erased(o)
<1>1. /\ unswept' = unswept \ {o} /\ allocated' = allocated \ freed
      /\ marked' = [x \in Objects |-> IF x \in freed THEN "white"
                                      ELSE IF x \in open \cup {o} THEN "white" ELSE marked[x]]
      /\ refs' = [x \in Objects |-> IF x \in freed THEN {} ELSE refs[x]]
      /\ owner' = [u \in Upvals |-> IF u \in open /\ ({u, o} \cap freed) # {}
                                    THEN NoThread ELSE owner[u]]
      /\ hasgc' = hasgc \ freed /\ finalized' = finalized \ freed /\ called' = called \ freed
      /\ UNCHANGED <<running, tmudata, phase>>
  BY DEF sweeplist
<1>2. \A x : x \in open <=> x \in Upvals /\ x \in allocated /\ owner[x] = o
  BY DEF OpenUpvals
<1>3. \A x : x \in freed <=> isdead(x) /\ (x \in open \/ (x = o /\ x # Main))
  BY DEF Erased
<1> HIDE DEF open, freed
<1>4. allocated \subseteq Objects
  BY DEF OpenInv, TypeInv
<1>5. InUse(Main) /\ \A x \in tmudata : InUse(x)
  BY DEF OpenInv, AliveInv
<1>6. \A x : InUse(x) <=> InUse(x)'
  BY <1>1, <1>3, <1>4, <1>5 DEF InUse, isdead
<1>7. \A x \in Objects : refs'[x] = IF x \in allocated \ allocated' THEN {} ELSE refs[x]
  BY <1>1 DEF OpenInv, EdgeInv
<1>8. \A x \in allocated' : /\ marked'[x] = marked[x] \/ marked'[x] = "white"
                            /\ x = o \/ (x \in Upvals /\ owner[x] = o) => marked'[x] = "white"
  BY <1>1, <1>2, <1>4
<1>9. \A u \in Upvals : owner'[u] = owner[u] \/ (owner'[u] = NoThread /\ u \in open)
  BY <1>1
<1>10. \A u \in Upvals \cap allocated' : owner'[u] # owner[u] => marked'[u] = "white"
  BY <1>2, <1>8, <1>9
<1>11. ASSUME NEW u \in Upvals \cap allocated', owner'[u] # NoThread
       PROVE  owner'[u] = owner[u] /\ owner[u] \in allocated'
  <2>1. owner'[u] = owner[u] /\ u \in allocated /\ owner[u] \in allocated /\ owner[u] \in Threads
    BY <1>1, <1>9, <1>11 DEF OpenInv, EdgeInv, TypeInv
  <2>2. ASSUME owner[u] \in freed PROVE FALSE
    <3>1. owner[u] \notin open
      BY <1>2, <2>1, Sorts
    <3>2. owner[u] = o
      BY <1>3, <2>2, <3>1
    <3>3. u \in open /\ o \in freed
      BY <1>2, <2>1, <2>2, <3>2
    <3> QED
      BY <1>1, <1>11, <3>3
  <2> QED
    BY <1>1, <2>1, <2>2
<1>12. refs' \in [Objects -> SUBSET (Values \cup Upvals)]
  BY <1>1 DEF OpenInv, TypeInv
<1>13. owner' \in [Upvals -> Threads \cup {NoThread}]
  BY <1>1 DEF OpenInv, TypeInv
<1>14. marked' \in [Objects -> Colour]
  BY <1>1 DEF OpenInv, TypeInv, Colour, Whites
<1>15. \A x \in freed : x \notin tmudata
  BY <1>3, <1>5 DEF InUse
<1>16. tmudata \cup hasgc' \subseteq Udata \cap allocated'
  BY <1>1, <1>15 DEF OpenInv, TypeInv
<1>17. FinalInv'
  BY <1>1, <1>15 DEF OpenInv, FinalInv
<1> QED
  BY <1>1, <1>6, <1>7, <1>8, <1>9, <1>10, <1>11, <1>12, <1>13, <1>14, <1>16, <1>17

LEMMA SweptKept ==
  ASSUME OpenInv, Sweeping, NEW o, sweeplist(o), gcstate' \in {"sweepstring", "sweep", "finalize"},
         gcstate' = "finalize" => unswept' = {}
  PROVE  OpenInv'
<1>1. TypeInv'
  BY SweptFacts DEF OpenInv, TypeInv, States
<1>2. EdgeInv'
  BY SweptFacts, Sorts DEF OpenInv, EdgeInv, TypeInv
<1>3. ColourInv'
  BY SweptFacts DEF OpenInv, ColourInv, isblack
<1>4. \A x \in allocated' \ tmudata' :
        marked'[x] = "white" \/ x \in unswept' \/ (x \in Upvals /\ owner'[x] \in unswept')
  <2> SUFFICES ASSUME NEW x \in allocated' \ tmudata', marked'[x] # "white"
               PROVE  x \in unswept' \/ (x \in Upvals /\ owner'[x] \in unswept')
    OBVIOUS
  <2>1. x \in allocated \ tmudata /\ marked[x] # "white" /\ x # o /\ (x \in Upvals => owner[x] # o)
    BY SweptFacts
  <2>2. x \in unswept \/ (x \in Upvals /\ owner[x] \in unswept)
    BY <2>1 DEF OpenInv, SweepInv
  <2>3. x \in Upvals => owner'[x] = owner[x]
    BY SweptFacts
  <2> QED
    BY <2>1, <2>2, <2>3, SweptFacts
<1>5. AliveInv'
  <2>1. \A x \in {Main, Registry, running'} \cup tmudata' : InUse(x)'
    BY SweptFacts DEF OpenInv, AliveInv
  <2>2. ASSUME NEW x \in allocated', ~isdead(x)', NEW y \in refs'[x] PROVE InUse(y)'
    <3>1. InUse(x)
      BY <2>2, SweptFacts DEF InUse
    <3>2. y \in refs[x]
      BY <2>2, SweptFacts DEF OpenInv, TypeInv
    <3> QED
      BY <3>1, <3>2, SweptFacts DEF OpenInv, AliveInv, InUse
  <2>3. ASSUME NEW u \in Upvals \cap allocated', owner'[u] # NoThread, ~isdead(owner[u])',
               NEW y \in refs'[u]
        PROVE  InUse(y)'
    <3>1. u \in allocated /\ owner'[u] = owner[u] /\ owner[u] \in allocated'
      BY <2>3, SweptFacts
    <3>2. InUse(owner[u])
      BY <2>3, <3>1, SweptFacts DEF InUse
    <3>3. y \in refs[u]
      BY <2>3, SweptFacts DEF OpenInv, TypeInv
    <3> QED
      BY <2>3, <3>1, <3>2, <3>3, SweptFacts DEF OpenInv, AliveInv, InUse
  <2>4. ASSUME ~Sweeping', NEW x \in allocated' PROVE ~isdead(x)'
    <3>1. unswept' = {}
      BY <2>4 DEF Sweeping
    <3>2. CASE x \in tmudata'
      BY <2>1, <3>2 DEF InUse
    <3>3. CASE x \notin tmudata'
      BY <1>4, <3>1, <3>3 DEF isdead
    <3> QED
      BY <3>2, <3>3
  <2> QED
    BY <2>1, <2>2, <2>3, <2>4 DEF AliveInv
<1>6. SweepInv'
  <2>1. tmudata' \cap unswept' = {}
    BY SweptFacts DEF OpenInv, SweepInv
  <2> QED
    BY <1>4, <2>1 DEF SweepInv
<1>7. IdleInv'
  BY <1>4 DEF IdleInv
<1>8. MarkInv'
  BY DEF MarkInv
<1> QED
  BY <1>1, <1>2, <1>3, <1>5, <1>6, <1>7, <1>8, SweptFacts DEF OpenInv

-----------------------------------------------------------------------------
(* The atomic step *)

LEMMA ReachedFacts ==
  ASSUME NEW m, NEW S
  PROVE  /\ Reached(m, S) \subseteq allocated
         /\ \A x \in Reached(m, S) : IsWhite(m, x)
         /\ \A x \in S \cap allocated : IsWhite(m, x) => x \in Reached(m, S)
         /\ \A o \in Reached(m, S) : \A x \in Strong(o) \cap allocated :
              IsWhite(m, x) => x \in Reached(m, S)
<1> DEFINE whites == WhiteIn(m, allocated)
           closed == {T \in SUBSET whites : \A o \in T : WhiteIn(m, Strong(o)) \subseteq T}
<1>1. Reached(m, S) = {o \in whites : \A T \in closed : WhiteIn(m, S) \subseteq T => o \in T}
  BY DEF Reached
<1>2. \A x : x \in whites <=> x \in allocated /\ IsWhite(m, x)
  BY DEF WhiteIn
<1>3. \A T \in closed : \A o \in T : \A x \in Strong(o) : IsWhite(m, x) => x \in T
  BY DEF WhiteIn
<1>4. \A x \in S : IsWhite(m, x) => x \in WhiteIn(m, S)
  BY DEF WhiteIn
<1> HIDE DEF whites, closed
<1> QED
  BY <1>1, <1>2, <1>3, <1>4

LEMMA Traversed ==
  ASSUME NEW o \in Objects
  PROVE  /\ TraversedAs(o) \in {"gray", "black"}
         /\ TraversedAs(o) = "black" =>
              o \notin Threads \cup Weak /\ (o \in Upvals => owner[o] = NoThread)
         /\ TraversedAs(o) = "gray" =>
              o \notin Udata /\ (o \in Upvals => owner[o] # NoThread)
BY Sorts DEF TraversedAs, MarkedAs, Listed

(* A pass over the objects G and what is white and reached from S, which    *)
(* has all that G refers to and all the white objects that others with a   *)
(* colour, but those of X, refer to: m has the colours before, n after it.  *)
Pass(m, n, S, G, X) ==
  /\ \A o \in Objects : n[o] = IF o \in Reached(m, S) \cup G THEN TraversedAs(o) ELSE m[o]
  /\ G \subseteq allocated
  /\ \A o \in G : Strong(o) \subseteq S
  /\ \A o \in allocated \ (G \cup X) : ~IsWhite(m, o) =>
       \A y \in Strong(o) : IsWhite(m, y) => y \in S

(* Nothing with a colour refers to a white object after it. *)
LEMMA Passed ==
  ASSUME NEW m, NEW n, NEW S, NEW G, NEW X, Pass(m, n, S, G, X),
         allocated \subseteq Objects, \A o \in allocated : Strong(o) \subseteq allocated
  PROVE  /\ \A o \in Objects : ~IsWhite(m, o) => ~IsWhite(n, o)
         /\ \A o \in Reached(m, S) \cup G : ~IsWhite(n, o)
         /\ \A o \in Objects : ~IsWhite(n, o) => o \in Reached(m, S) \cup G \/ ~IsWhite(m, o)
         /\ \A y \in S \cap allocated : ~IsWhite(n, y)
         /\ \A o \in allocated \ X : ~IsWhite(n, o) => \A y \in Strong(o) : ~IsWhite(n, y)
         /\ \A o \in allocated \ (Reached(m, S) \cup G) : n[o] = m[o]
         /\ \A o \in Reached(m, S) \cup G : n[o] = TraversedAs(o)
<1> DEFINE R == Reached(m, S)
<1>1. /\ R \subseteq allocated
      /\ \A x \in S \cap allocated : IsWhite(m, x) => x \in R
      /\ \A o \in R : \A x \in Strong(o) \cap allocated : IsWhite(m, x) => x \in R
  BY ReachedFacts
<1>2. \A o \in Objects : n[o] = IF o \in R \cup G THEN TraversedAs(o) ELSE m[o]
  BY DEF Pass
<1> HIDE DEF R
<1>3. \A o \in Objects : TraversedAs(o) \in {"gray", "black"}
  BY Traversed
<1>4. \A o \in R \cup G : ~IsWhite(n, o) /\ n[o] = TraversedAs(o)
  <2>1. R \cup G \subseteq Objects
    BY <1>1 DEF Pass
  <2> QED
    BY <1>2, <1>3, <2>1 DEF IsWhite, Whites
<1>5. \A o \in Objects : o \notin R \cup G => n[o] = m[o] /\ (IsWhite(n, o) <=> IsWhite(m, o))
  BY <1>2 DEF IsWhite
<1>6. \A y \in allocated : y \in R \/ ~IsWhite(m, y) => ~IsWhite(n, y)
  BY <1>4, <1>5
<1>7. \A y \in S \cap allocated : ~IsWhite(n, y)
  BY <1>1, <1>6
<1>8. ASSUME NEW o \in allocated \ X, ~IsWhite(n, o), NEW y \in Strong(o)
      PROVE  ~IsWhite(n, y)
  <2>1. y \in allocated /\ G \subseteq allocated
    BY <1>8 DEF Pass
  <2>2. CASE o \in R
    BY <1>1, <1>6, <1>8, <2>1, <2>2
  <2>3. CASE o \in G
    BY <1>7, <1>8, <2>1, <2>3 DEF Pass
  <2>4. CASE o \notin R \cup G
    <3>1. ~IsWhite(m, o)
      BY <1>5, <1>8, <2>4
    <3>2. IsWhite(m, y) => y \in S
      BY <1>8, <2>4, <3>1 DEF Pass
    <3> QED
      BY <1>6, <1>7, <2>1, <3>2
  <2> QED
    BY <2>2, <2>3, <2>4
<1> QED
  BY <1>4, <1>5, <1>7, <1>8 DEF R, Pass

(* atomic: after both passes, no object with a colour refers to a white one *)
(* but from weak tables, which are cleared of these.                       *)
LEMMA AtomicKept ==
  ASSUME OpenInv, atomic
  PROVE  OpenInv'
<1> DEFINE again == grayagain \cup weak
           S1 == remarkupvals \cup {running} \cup UNION {Strong(o) : o \in again}
           first == Reached(marked, S1)
           m1 == [o \in Objects |-> IF o \in first \cup again THEN TraversedAs(o) ELSE marked[o]]
           dead == luaC_separateudata(m1)
           waiting == tmudata \cup (dead \cap hasgc)
           S2 == UNION {refs[u] : u \in waiting}
           second == Reached(m1, S2)
           m2 == [o \in Objects |-> IF o \in second \cup waiting THEN TraversedAs(o) ELSE m1[o]]
           tables == weak \cup (Weak \cap (first \cup second))
           strings == WhiteIn(m2, Strings) \cap UNION {refs[w] : w \in tables}
<1>1. /\ gcstate = "propagate" /\ gray = {} /\ gcstate' = "sweepstring"
      /\ marked' = [o \in Objects |-> IF o \in strings THEN "gray"
                      ELSE IF o \in allocated /\ m2[o] = "white" THEN "otherwhite" ELSE m2[o]]
      /\ finalized' = finalized \cup dead
      /\ tmudata' = waiting
      /\ refs' = [w \in Objects |-> IF w \in tables THEN refs[w] \ Cleared(w, m2, finalized')
                                    ELSE refs[w]]
      /\ unswept' = allocated \ (waiting \cup {u \in Upvals : owner[u] # NoThread})
      /\ UNCHANGED <<allocated, owner, running, hasgc, called, phase>>
  BY DEF atomic
<1>2. /\ TypeInv /\ EdgeInv /\ ColourInv /\ AliveInv /\ Listing /\ Blackness /\ FinalInv
      /\ allocated \subseteq Objects /\ again \subseteq Listed \cap allocated
  BY <1>1 DEF OpenInv, MarkInv, Listing, TypeInv
<1>3. \A o \in allocated : ~isdead(o) /\ refs[o] \subseteq allocated /\ Strong(o) \subseteq allocated
  <2>1. \A o \in allocated : ~isdead(o) /\ refs[o] \subseteq allocated
    BY <1>1, <1>2 DEF AliveInv, Sweeping, InUse
  <2> QED
    BY <2>1 DEF Strong, OpenUpvals
<1>4. ASSUME NEW o \in allocated, ~IsWhite(marked, o), o \notin again, o \notin tmudata
      PROVE  \A y \in Strong(o) : IsWhite(marked, y) => y \in S1
  <2>1. marked[o] \in {"gray", "black"}
    BY <1>2, <1>4 DEF TypeInv, Colour, IsWhite
  <2>2. CASE marked[o] = "black"
    <3>1. Strong(o) = refs[o]
      BY <1>2, <2>2 DEF ColourInv, isblack, Strong
    <3> QED
      BY <1>2, <1>4, <2>2, <3>1 DEF Blackness, isblack
  <2>3. CASE marked[o] = "gray"
    <3>1. o \notin Listed
      BY <1>1, <1>2, <1>4, <2>3 DEF Listing
    <3>2. o \in Upvals \cup Strings /\ o \notin Threads \cup Weak
      BY <1>2, <2>3, <3>1, Sorts DEF ColourInv, Listed
    <3>3. Strong(o) = refs[o]
      BY <3>2 DEF Strong
    <3>4. CASE o \in Strings
      BY <1>2, <3>3, <3>4 DEF EdgeInv
    <3>5. CASE o \in Upvals
      <4>1. owner[o] # NoThread
        BY <1>2, <2>3, <3>5 DEF ColourInv
      <4>2. refs[o] \subseteq remarkupvals
        BY <2>3, <3>5, <4>1 DEF remarkupvals
      <4> QED
        BY <3>3, <4>2
    <3> QED
      BY <3>2, <3>4, <3>5
  <2> QED
    BY <2>1, <2>2, <2>3
<1>5. \A o \in again : Strong(o) \subseteq S1
  OBVIOUS
<1>6. running \in S1 /\ running \in allocated
  BY <1>2 DEF AliveInv, InUse
<1> HIDE DEF S1
<1>7. /\ \A o \in Objects : ~IsWhite(marked, o) => ~IsWhite(m1, o)
      /\ \A o \in first \cup again : ~IsWhite(m1, o)
      /\ \A o \in Objects : ~IsWhite(m1, o) => o \in first \cup again \/ ~IsWhite(marked, o)
      /\ \A y \in S1 \cap allocated : ~IsWhite(m1, y)
      /\ \A o \in allocated \ tmudata : ~IsWhite(m1, o) => \A y \in Strong(o) : ~IsWhite(m1, y)
      /\ \A o \in allocated \ (first \cup again) : m1[o] = marked[o]
      /\ \A o \in first \cup again : m1[o] = TraversedAs(o)
  <2>1. PICK n, G, X : n = m1 /\ G = again /\ X = tmudata
    OBVIOUS
  <2>2. \A o \in Objects :
          n[o] = IF o \in Reached(marked, S1) \cup G THEN TraversedAs(o) ELSE marked[o]
    BY <2>1
  <2>3. G \subseteq allocated /\ \A o \in G : Strong(o) \subseteq S1
    BY <1>2, <1>5, <2>1
  <2>4. \A o \in allocated \ (G \cup X) : ~IsWhite(marked, o) =>
          \A y \in Strong(o) : IsWhite(marked, y) => y \in S1
    BY <1>4, <2>1
  <2>5. \A o \in allocated : Strong(o) \subseteq allocated
    BY <1>3
  <2> HIDE DEF m1, again
  <2>6. Pass(marked, n, S1, G, X)
    BY <2>2, <2>3, <2>4 DEF Pass
  <2>7. /\ \A o \in Objects : ~IsWhite(marked, o) => ~IsWhite(n, o)
        /\ \A o \in Reached(marked, S1) \cup G : ~IsWhite(n, o)
        /\ \A o \in Objects : ~IsWhite(n, o) => o \in Reached(marked, S1) \cup G \/ ~IsWhite(marked, o)
        /\ \A y \in S1 \cap allocated : ~IsWhite(n, y)
        /\ \A o \in allocated \ X : ~IsWhite(n, o) => \A y \in Strong(o) : ~IsWhite(n, y)
        /\ \A o \in allocated \ (Reached(marked, S1) \cup G) : n[o] = marked[o]
        /\ \A o \in Reached(marked, S1) \cup G : n[o] = TraversedAs(o)
    BY <1>2, <2>5, <2>6, Passed
  <2> QED
    BY <2>1, <2>7
<1>8. first \subseteq allocated
  BY ReachedFacts
<1>9. /\ waiting \subseteq Udata \cap allocated
      /\ dead \cap finalized = {}
  BY <1>2 DEF TypeInv, luaC_separateudata, WhiteIn
<1> HIDE DEF m1, first, dead
<1>10. /\ \A o \in Objects : ~IsWhite(m1, o) => ~IsWhite(m2, o)
       /\ \A o \in second \cup waiting : ~IsWhite(m2, o)
       /\ \A o \in Objects : ~IsWhite(m2, o) => o \in second \cup waiting \/ ~IsWhite(m1, o)
       /\ \A o \in allocated : ~IsWhite(m2, o) => \A y \in Strong(o) : ~IsWhite(m2, y)
       /\ \A o \in allocated \ (second \cup waiting) : m2[o] = m1[o]
       /\ \A o \in second \cup waiting : m2[o] = TraversedAs(o)
  <2>1. PICK n, G, X, S, m : n = m2 /\ G = waiting /\ X = {} /\ S = S2 /\ m = m1
    OBVIOUS
  <2>2. \A o \in Objects : n[o] = IF o \in Reached(m, S) \cup G THEN TraversedAs(o) ELSE m[o]
    BY <2>1
  <2>3. G \subseteq allocated /\ \A o \in G : Strong(o) \subseteq S
    <3>1. \A o \in G : Strong(o) = refs[o]
      BY <1>9, <2>1, Sorts DEF Strong
    <3> QED
      BY <1>9, <2>1, <3>1
  <2>4. \A o \in allocated \ (G \cup X) : ~IsWhite(m, o) =>
          \A y \in Strong(o) : IsWhite(m, y) => y \in S
    BY <1>7, <2>1
  <2>5. \A o \in allocated : Strong(o) \subseteq allocated
    BY <1>3
  <2> HIDE DEF m2, waiting, S2
  <2>6. Pass(m, n, S, G, X)
    BY <2>2, <2>3, <2>4 DEF Pass
  <2>7. /\ \A o \in Objects : ~IsWhite(m, o) => ~IsWhite(n, o)
        /\ \A o \in Reached(m, S) \cup G : ~IsWhite(n, o)
        /\ \A o \in Objects : ~IsWhite(n, o) => o \in Reached(m, S) \cup G \/ ~IsWhite(m, o)
        /\ \A o \in allocated \ X : ~IsWhite(n, o) => \A y \in Strong(o) : ~IsWhite(n, y)
        /\ \A o \in allocated \ (Reached(m, S) \cup G) : n[o] = m[o]
        /\ \A o \in Reached(m, S) \cup G : n[o] = TraversedAs(o)
    BY <1>2, <2>5, <2>6, Passed
  <2> QED
    BY <2>1, <2>7
<1>11. second \subseteq allocated
  BY ReachedFacts
<1> HIDE DEF m2, second, waiting
<1>12. \A o \in Objects : ~IsWhite(marked, o) => ~IsWhite(m2, o)
  BY <1>7, <1>10
<1>13. ~IsWhite(m2, Main) /\ ~IsWhite(m2, Registry) /\ ~IsWhite(m2, running)
  BY <1>2, <1>6, <1>7, <1>10, <1>12, Sorts DEF Blackness
<1>14. \A o \in allocated : m2[o] \in Colour \ {"otherwhite"}
  <2>1. \A o \in allocated : TraversedAs(o) \in {"gray", "black"}
    BY <1>2, Traversed
  <2>2. \A o \in allocated : marked[o] \in Colour \ {"otherwhite"}
    BY <1>2, <1>3 DEF TypeInv, isdead
  <2> QED
    BY <1>7, <1>10, <2>1, <2>2 DEF Colour, Whites
<1>15. \A x \in strings : x \in Strings /\ x \in Objects
  BY Sorts DEF WhiteIn
<1>16. \A o \in allocated : /\ o \in strings => marked'[o] = "gray"
                            /\ o \notin strings /\ m2[o] = "white" => marked'[o] = "otherwhite"
                            /\ o \notin strings /\ ~IsWhite(m2, o) => marked'[o] = m2[o]
  BY <1>1, <1>2 DEF IsWhite, Whites
<1>17. \A o \in allocated : InUse(o)' <=> o \in strings \/ ~IsWhite(m2, o)
  BY <1>1, <1>14, <1>16 DEF InUse, isdead, IsWhite, Whites, Colour
<1>18. \A w \in Objects : refs'[w] = IF w \in tables THEN refs[w] \ Cleared(w, m2, finalized')
                                     ELSE refs[w]
  BY <1>1
<1>19. \A w \in Objects : refs'[w] \subseteq refs[w]
  BY <1>18
<1>20. \A w \in tables : \A y \in refs'[w] : ~IsWhite(m2, y) \/ y \in strings
  <2>1. ASSUME NEW w \in tables, NEW y \in refs'[w], IsWhite(m2, y) PROVE y \in strings
    <3>1. w \in Objects
      BY <1>2, <1>8, <1>11
    <3>2. y \in refs[w] /\ y \notin Cleared(w, m2, finalized')
      BY <1>18, <2>1, <3>1
    <3>3. y \in Strings
      BY <2>1, <3>2 DEF Cleared
    <3> QED
      BY <2>1, <3>2, <3>3 DEF WhiteIn
  <2> QED
    BY <2>1
<1> HIDE DEF strings
<1>21. ASSUME NEW w \in Weak \cap allocated, ~IsWhite(m2, w) PROVE w \in tables
  <2>1. w \notin Udata /\ w \in Listed
    BY Sorts DEF Listed
  <2>2. w \in second \/ w \in first \cup again \/ ~IsWhite(marked, w)
    BY <1>2, <1>7, <1>9, <1>10, <1>21, <2>1
  <2>3. ~IsWhite(marked, w) => w \in again
    <3>1. ~IsWhite(marked, w) => marked[w] = "gray"
      BY <1>2 DEF TypeInv, Colour, IsWhite, ColourInv, isblack
    <3> QED
      BY <1>1, <1>2, <2>1, <3>1 DEF Listing
  <2>4. w \in again => w \in weak
    BY <1>2 DEF Listing
  <2> QED
    BY <2>2, <2>3, <2>4
<1> HIDE DEF tables
<1>22. TypeInv'
  <2>1. refs' \in [Objects -> SUBSET (Values \cup Upvals)]
    BY <1>1, <1>19, <1>2 DEF TypeInv
  <2>2. \A o \in Objects : m2[o] \in Colour
    <3>1. \A o \in Objects : TraversedAs(o) \in Colour
      BY Traversed DEF Colour
    <3>2. \A o \in Objects : m1[o] \in Colour
      BY <1>2, <3>1 DEF TypeInv, m1
    <3> QED
      BY <3>1, <3>2 DEF m2
  <2>3. marked' \in [Objects -> Colour]
    BY <1>1, <2>2 DEF Colour, Whites
  <2>4. unswept' \subseteq Objects /\ tmudata' \cup hasgc' \subseteq Udata \cap allocated'
    BY <1>1, <1>2, <1>9 DEF TypeInv
  <2> QED
    BY <1>1, <1>2, <2>1, <2>3, <2>4 DEF TypeInv, States
<1>23. EdgeInv'
  <2>1. Upvals \cup Udata \cup Strings \subseteq Objects
    BY Sorts
  <2> QED
    BY <1>1, <1>2, <1>19, <2>1 DEF EdgeInv
<1>24. ColourInv'
  <2> SUFFICES ASSUME NEW o \in allocated
               PROVE  /\ marked'[o] = "black" => o \notin Threads \cup Weak /\ (o \in Upvals => owner[o] = NoThread)
                      /\ marked'[o] = "gray" => o \notin Udata /\ (o \in Upvals => owner[o] # NoThread)
    BY <1>1 DEF ColourInv, isblack
  <2>1. CASE o \in strings
    BY <1>15, <1>16, <2>1, Sorts
  <2>2. CASE o \notin strings
    <3>1. marked'[o] \in {"gray", "black"} => marked'[o] = m2[o]
      BY <1>14, <1>16, <2>2 DEF IsWhite, Whites, Colour
    <3>2. m2[o] = marked[o] \/ m2[o] = TraversedAs(o)
      BY <1>7, <1>10
    <3> QED
      BY <1>2, <3>1, <3>2, Traversed DEF ColourInv, isblack
  <2> QED
    BY <2>1, <2>2
<1>25. AliveInv'
  <2>1. \A x \in {Main, Registry, running'} \cup tmudata' : InUse(x)'
    BY <1>1, <1>2, <1>9, <1>10, <1>13, <1>17 DEF AliveInv, InUse
  <2>2. ASSUME NEW x \in allocated, InUse(x)', NEW y \in refs'[x] PROVE InUse(y)'
    <3>1. y \in refs[x] /\ y \in allocated /\ x \in Objects
      BY <1>2, <1>3, <1>19, <2>2
    <3>2. x \notin strings
      BY <1>2, <1>15, <3>1 DEF EdgeInv
    <3>3. ~IsWhite(m2, x)
      BY <1>17, <2>2, <3>2
    <3>4. CASE x \in tables
      BY <1>17, <1>20, <2>2, <3>1, <3>4
    <3>5. CASE x \notin tables
      <4>1. x \notin Weak
        BY <1>21, <3>3, <3>5
      <4>2. y \in Strong(x)
        BY <3>1, <4>1 DEF Strong
      <4> QED
        BY <1>10, <1>17, <3>1, <3>3, <4>2
    <3> QED
      BY <3>4, <3>5
  <2>3. ASSUME NEW u \in Upvals \cap allocated, owner[u] # NoThread, ~isdead(owner[u])',
               NEW y \in refs'[u]
        PROVE  InUse(y)'
    <3>1. owner[u] \in allocated /\ owner[u] \in Threads
      BY <1>2, <2>3 DEF EdgeInv, TypeInv
    <3>2. PICK th : th = owner[u]
      OBVIOUS
    <3>3. marked'[th] # "otherwhite"
      BY <1>1, <2>3, <3>2 DEF isdead
    <3>4. InUse(th)' /\ th \notin strings
      BY <1>1, <1>15, <3>1, <3>2, <3>3, Sorts DEF InUse, isdead
    <3>5. ~IsWhite(m2, owner[u])
      BY <1>17, <3>1, <3>2, <3>4
    <3>6. y \in refs[u] /\ y \in allocated
      BY <1>2, <1>3, <1>19, <2>3
    <3>7. u \in OpenUpvals(owner[u])
      BY DEF OpenUpvals
    <3>8. refs[u] \subseteq Strong(owner[u])
      BY <3>1, <3>7, Sorts DEF Strong
    <3>9. ~IsWhite(m2, y)
      <4>1. owner[u] \in allocated /\ y \in Strong(owner[u])
        BY <3>1, <3>6, <3>8
      <4> QED
        BY <1>10, <3>5, <4>1
    <3> QED
      BY <1>17, <3>6, <3>9
  <2>4. Sweeping'
    BY <1>1 DEF Sweeping
  <2> QED
    BY <1>1, <2>1, <2>2, <2>3, <2>4 DEF AliveInv, InUse
<1>26. SweepInv'
  <2>1. \A u \in Upvals \cap allocated : owner[u] # NoThread =>
          /\ owner[u] \in allocated /\ owner[u] \in Threads
    BY <1>2 DEF EdgeInv, TypeInv
  <2>2. \A th \in Threads : th \notin waiting /\ th \notin Upvals
    BY <1>9, Sorts
  <2> QED
    BY <1>1, <2>1, <2>2 DEF SweepInv
<1>27. MarkInv' /\ IdleInv'
  BY <1>1 DEF MarkInv, IdleInv
<1>28. FinalInv'
  BY <1>1, <1>2, <1>9 DEF FinalInv, waiting
<1> QED
  BY <1>22, <1>23, <1>24, <1>25, <1>26, <1>27, <1>28 DEF OpenInv

-----------------------------------------------------------------------------
(* The theorems *)

LEMMA InitKept ==
  ASSUME Init
  PROVE  IInv
<1> DEFINE there == {Main, Registry} \cup UNION {world.refs[o] : o \in Objects}
<1>1. /\ world \in Worlds /\ refs = world.refs /\ owner = world.owner /\ allocated = there
      /\ running = Main /\ marked = [o \in Objects |-> "white"] /\ gcstate = "pause"
      /\ unswept = {} /\ hasgc = {} /\ finalized = {} /\ tmudata = {} /\ called = {}
      /\ due = {} /\ phase = "open"
  BY DEF Init
<1>2. /\ world.refs \in [Objects -> SUBSET (Values \cup Upvals)]
      /\ world.owner \in [Upvals -> Threads \cup {NoThread}]
      /\ \A o \in Objects \ there : world.refs[o] = {}
      /\ \A u \in Upvals : world.refs[u] \subseteq Values
      /\ \A u \in Upvals \cap there : world.owner[u] \in there \cup {NoThread}
      /\ \A d \in Udata : world.refs[d] \subseteq AllTables
      /\ \A s \in Strings : world.refs[s] = {}
  BY <1>1, WorldsAssumption
<1>3. \A o \in Objects : \A x \in world.refs[o] : x \in there
  OBVIOUS
<1>4. there \subseteq Objects /\ Main \in there /\ Registry \in there
  BY <1>2, Sorts
<1> HIDE DEF there
<1>5. TypeInv
  BY <1>1, <1>2, <1>4, Sorts DEF TypeInv, Colour, Whites, States
<1>6. EdgeInv
  BY <1>1, <1>2 DEF EdgeInv
<1>7. \A o \in Objects : marked[o] = "white"
  BY <1>1
<1>8. \A x \in there : InUse(x)
  BY <1>1, <1>4, <1>7 DEF InUse, isdead
<1>9. AliveInv
  <2>1. \A o \in Objects : \A x \in refs[o] : InUse(x)
    BY <1>1, <1>3, <1>8
  <2> QED
    BY <1>1, <1>4, <1>8, <2>1, Sorts DEF AliveInv, InUse
<1>10. ColourInv /\ IdleInv
  BY <1>1, <1>4, <1>7 DEF ColourInv, IdleInv, isblack
<1>11. MarkInv /\ SweepInv /\ FinalInv
  BY <1>1 DEF MarkInv, SweepInv, FinalInv, Sweeping
<1> QED
  BY <1>1, <1>5, <1>6, <1>9, <1>10, <1>11 DEF IInv, OpenInv

LEMMA OpenKept ==
  ASSUME OpenInv, Program \/ singlestep
  PROVE  OpenInv'
<1>1. ASSUME Program PROVE OpenInv'
  <2>1. CASE luaC_fullgc \/ luaD_throw
    BY <2>1, FullGCKept, ThrowKept
  <2>2. CASE \E o \in Values : luaC_link(o) \/ Pop(o)
    BY <2>2, LinkKept, PopKept
  <2>3. CASE \E s \in Strings : luaS_newlstr(s)
    BY <2>3, NewStringKept
  <2>4. CASE \E x \in Objects, o \in Values : Read(x, o)
    BY <2>4, ReadKept
  <2>5. CASE \E t \in AllTables, o \in Values : SetField(t, o) \/ ClearField(t, o)
    BY <2>5, SetFieldKept, ClearFieldKept
  <2>6. CASE \E c \in Closures, u \in Upvals : NewClosure(c, u)
    BY <2>6, NewClosureKept
  <2>7. CASE \E u \in Upvals, o \in Values : SetLocal(u, o)
    BY <2>7, SetLocalKept
  <2>8. CASE \E c \in Closures, u \in Upvals, o \in Values : SetUpval(c, u, o)
    BY <2>8, SetUpvalKept
  <2>9. CASE \E u \in Upvals : luaF_close(u)
    BY <2>9, CloseKept
  <2>10. CASE \E u \in Udata, t \in AllTables, withgc \in BOOLEAN : lua_setmetatable(u, t, withgc)
    BY <2>10, SetMetatableKept
  <2>11. CASE \E th \in Threads : Switch(th, {}) \/ \E o \in Values : Switch(th, {o})
    BY <2>11, SwitchKept
  <2>12. CASE \E t \in AllTables, withgc \in BOOLEAN : SetGc(t, withgc)
    BY <2>12, SetGcKept
  <2> QED
    BY <1>1, <2>1, <2>2, <2>3, <2>4, <2>5, <2>6, <2>7, <2>8, <2>9, <2>10, <2>11, <2>12 DEF Program
<1>2. ASSUME singlestep PROVE OpenInv'
  <2>1. CASE markroot
    <3>1. UNCHANGED <<heap, unswept, final>> /\ gcstate = "pause" /\ NewCycle
      BY <2>1 DEF markroot
    <3> QED
      BY <3>1, NewCycleKept
  <2>2. CASE FullCycle
    <3>1. UNCHANGED <<heap, unswept, final>> /\ gcstate = "finalize" /\ NewCycle
      BY <2>2 DEF FullCycle
    <3> QED
      BY <3>1, NewCycleKept
  <2>3. CASE atomic
    BY <2>3, AtomicKept
  <2>4. CASE StringsSwept
    BY <2>4, StringsSweptKept
  <2>5. CASE EndCycle
    BY <2>5, EndCycleKept
  <2>6. ASSUME NEW o \in Objects, propagatemark(o) PROVE OpenInv'
    BY <2>6, PropagateKept
  <2>7. ASSUME NEW o \in Objects, SweepString(o) PROVE OpenInv'
    <3>1. Sweeping /\ sweeplist(o) /\ gcstate' = "sweepstring"
      BY <2>7 DEF SweepString, Sweeping, sweeplist
    <3> QED
      BY <3>1, SweptKept
  <2>8. ASSUME NEW o \in Objects, Sweep(o) PROVE OpenInv'
    <3>1. /\ Sweeping /\ sweeplist(o)
          /\ gcstate' \in {"sweep", "finalize"} /\ (gcstate' = "finalize" => unswept' = {})
      BY <2>8 DEF Sweep, Sweeping, sweeplist
    <3> QED
      BY <3>1, SweptKept
  <2>9. ASSUME NEW u \in Udata, GCTM(u) PROVE OpenInv'
    BY <2>9, GCTMKept
  <2> QED
    BY <1>2, <2>1, <2>2, <2>3, <2>4, <2>5, <2>6, <2>7, <2>8, <2>9 DEF singlestep
<1> QED
  BY <1>1, <1>2

-----------------------------------------------------------------------------
(* lua_close *)

(* Only lua_close makes a finalizer due. *)
LEMMA DueKept ==
  ASSUME due \subseteq hasgc, Program \/ singlestep
  PROVE  phase' = phase /\ due' \subseteq due /\ due' \subseteq hasgc'
<1>1. CASE UNCHANGED <<phase, due, hasgc>>
  BY <1>1
<1>2. ASSUME NEW S, NEW withgc, Gc(S, withgc), phase' = phase
      PROVE  phase' = phase /\ due' \subseteq due /\ due' \subseteq hasgc'
  BY <1>2 DEF Gc
<1>3. ASSUME NEW o, sweeplist(o)
      PROVE  phase' = phase /\ due' \subseteq due /\ due' \subseteq hasgc'
  BY <1>3 DEF sweeplist
<1>4. CASE Program
  BY <1>1, <1>2, <1>4 DEF Program, luaC_link, Pop, luaS_newlstr, Read, SetField, ClearField,
     NewClosure, SetLocal, SetUpval, luaF_close, lua_setmetatable, SetGc, Switch, luaC_fullgc,
     luaD_throw, final
<1>5. CASE singlestep
  BY <1>1, <1>3, <1>5 DEF singlestep, markroot, atomic, StringsSwept, EndCycle, FullCycle,
     propagatemark, SweepString, Sweep, GCTM, GCTMOf, final
<1> QED
  BY <1>4, <1>5

(* A step that takes no userdata that waits away, and gives none to the    *)
(* sweep.                                                                  *)
LEMMA QuietKept ==
  ASSUME ClosingInv, due' \subseteq due, UNCHANGED <<finalized, tmudata, called>>,
         \A u \in tmudata : u \in allocated', unswept' \cap tmudata = {}
  PROVE  ClosingInv' /\ tmudata \subseteq allocated'
BY DEF ClosingInv, FinalInv

(* The program, and the collector it runs, between two finalizers. *)
LEMMA ClosingKept ==
  ASSUME ClosingInv, due \subseteq hasgc, due' \subseteq due, Program \/ singlestep
  PROVE  ClosingInv' /\ tmudata \subseteq allocated'
<1> DEFINE Quiet == /\ UNCHANGED <<finalized, tmudata, called>>
                    /\ \A u \in tmudata : u \in allocated'
                    /\ unswept' \cap tmudata = {}
<1>1. ASSUME Quiet PROVE ClosingInv' /\ tmudata \subseteq allocated'
  BY <1>1, QuietKept
<1>2. /\ tmudata \subseteq Udata /\ \A u \in tmudata : u \in allocated /\ u \notin Upvals
      /\ unswept \cap tmudata = {}
  BY Sorts DEF ClosingInv
<1>3. ASSUME UNCHANGED <<finalized, tmudata, called, unswept>>, allocated \subseteq allocated'
      PROVE  Quiet
  BY <1>2, <1>3
<1>4. ASSUME UNCHANGED <<finalized, tmudata, called, allocated>>, unswept' \cap tmudata = {}
      PROVE  Quiet
  BY <1>2, <1>4
<1>5. ASSUME Program PROVE Quiet
  <2>1. CASE luaC_fullgc
    <3>1. UNCHANGED <<finalized, tmudata, called, allocated>>
      BY <2>1 DEF luaC_fullgc, final, heap
    <3>2. unswept' = unswept \/ unswept' \cap tmudata = {}
      BY <2>1 DEF luaC_fullgc
    <3> QED
      BY <1>2, <1>4, <3>1, <3>2
  <2>2. ASSUME NEW u \in Upvals, luaF_close(u) PROVE Quiet
    <3>1. UNCHANGED <<finalized, tmudata, called, unswept>>
      BY <2>2 DEF luaF_close, cycle, final
    <3>2. allocated' = allocated \/ allocated' = allocated \ {u}
      BY <2>2 DEF luaF_close
    <3> QED
      BY <1>2, <3>1, <3>2
  <2>3. CASE ~luaC_fullgc /\ ~(\E u \in Upvals : luaF_close(u))
    <3> SUFFICES UNCHANGED <<finalized, tmudata, called, unswept>> /\ allocated \subseteq allocated'
      BY <1>3
    <3> QED
      BY <1>5, <2>3 DEF Program, luaC_link, Pop, luaS_newlstr, Read, SetField, ClearField,
         NewClosure, SetLocal, SetUpval, lua_setmetatable, SetGc, Switch, luaD_throw,
         heap, cycle, final
  <2> QED
    BY <2>1, <2>2, <2>3
<1>6. ASSUME NEW o, sweeplist(o) PROVE ClosingInv' /\ tmudata \subseteq allocated'
  <2>1. /\ o \in unswept /\ unswept' = unswept \ {o} /\ allocated' = allocated \ Erased(o)
        /\ finalized' = finalized \ Erased(o) /\ called' = called \ Erased(o)
        /\ due' = due \ Erased(o) /\ tmudata' = tmudata
    BY <1>6 DEF sweeplist
  <2>2. \A u \in tmudata : u \notin Erased(o)
    BY <1>2, <2>1 DEF Erased, OpenUpvals
  <2>3. ClosingInv'
    BY <2>1, <2>2 DEF ClosingInv, FinalInv
  <2> QED
    BY <1>2, <2>1, <2>2, <2>3
<1>7. ASSUME NEW u, GCTM(u) PROVE ClosingInv' /\ tmudata \subseteq allocated'
  <2>1. /\ u \in tmudata /\ tmudata' = tmudata \ {u} /\ called' = called \cup ({u} \cap hasgc)
        /\ UNCHANGED <<allocated, unswept, finalized, due>>
    BY <1>7 DEF GCTM, GCTMOf
  <2>2. tmudata \subseteq allocated'
    BY <1>2, <2>1
  <2>3. due \subseteq hasgc /\ due \subseteq called \cup tmudata
    BY DEF ClosingInv
  <2>4. due' \subseteq called' \cup tmudata'
    BY <2>1, <2>3
  <2>5. ClosingInv'
    BY <1>2, <2>1, <2>4 DEF ClosingInv, FinalInv
  <2> QED
    BY <2>2, <2>5
<1>8. CASE atomic
  <2>1. PICK m1 : /\ finalized' = finalized \cup luaC_separateudata(m1)
                  /\ tmudata' = tmudata \cup (luaC_separateudata(m1) \cap hasgc)
                  /\ unswept' = allocated \ (tmudata' \cup {u \in Upvals : owner[u] # NoThread})
    BY <1>8 DEF atomic
  <2>2. PICK dead : dead = luaC_separateudata(m1)
    OBVIOUS
  <2>3. dead \subseteq Udata \cap allocated /\ dead \cap finalized = {}
    BY <2>2 DEF luaC_separateudata, WhiteIn
  <2>4. UNCHANGED <<allocated, called>>
    BY <1>8 DEF atomic
  <2>5. /\ finalized' = finalized \cup dead /\ tmudata' = tmudata \cup (dead \cap hasgc)
        /\ unswept' \cap tmudata' = {}
    BY <2>1, <2>2
  <2> QED
    BY <1>2, <2>3, <2>4, <2>5 DEF ClosingInv, FinalInv
<1>9. CASE markroot \/ StringsSwept \/ EndCycle \/ FullCycle \/ \E o \in Objects : propagatemark(o)
  <2>1. UNCHANGED <<finalized, tmudata, called, allocated, unswept>>
    BY <1>9 DEF markroot, StringsSwept, EndCycle, FullCycle, propagatemark, heap, final, cycle
  <2> QED
    BY <1>1, <1>2, <1>4, <2>1
<1>10. ASSUME NEW o, SweepString(o) \/ Sweep(o) PROVE ClosingInv' /\ tmudata \subseteq allocated'
  BY <1>6, <1>10 DEF SweepString, Sweep
<1> HIDE DEF Quiet
<1> QED
  BY <1>1, <1>5, <1>7, <1>8, <1>9, <1>10 DEF singlestep

(* What lua_close does itself. *)
LEMMA CloseStepKept ==
  ASSUME IInv, Close
  PROVE  /\ IInv' /\ (Closing => \A u \in due : u \in allocated' \cup called)
<1>1. CASE lua_close
  <2>1. /\ phase = "open" /\ OpenInv /\ phase' = "closing"
        /\ finalized' = finalized \cup LeftToFinalize
        /\ tmudata' = tmudata \cup (LeftToFinalize \cap hasgc)
        /\ unswept' = unswept \ tmudata'
        /\ due' = hasgc \ (called \cup Spared)
        /\ UNCHANGED <<allocated, hasgc, called>>
    BY <1>1 DEF lua_close, IInv, Closing
  <2>2. /\ FinalInv /\ tmudata \cup hasgc \subseteq Udata \cap allocated
    BY <2>1 DEF OpenInv, TypeInv
  <2>3. LeftToFinalize = (Udata \cap allocated) \ finalized
    BY DEF LeftToFinalize
  <2>4. ASSUME NEW u \in due' PROVE u \in tmudata'
    BY <2>1, <2>2, <2>3, <2>4 DEF Spared
  <2>5. ClosingInv'
    BY <2>1, <2>2, <2>3, <2>4 DEF ClosingInv, FinalInv
  <2> QED
    BY <2>1, <2>5 DEF IInv, Closing
<1>2. CASE FinalizerEnds
  <2>1. /\ phase = "finalizing" /\ phase' = "closing"
        /\ UNCHANGED <<allocated, unswept, hasgc, finalized, tmudata, called, due>>
    BY <1>2 DEF FinalizerEnds, final
  <2>2. ClosingInv /\ ClosingInv'
    BY <2>1 DEF IInv, Closing, ClosingInv, FinalInv
  <2> QED
    BY <2>1, <2>2 DEF IInv, Closing, ClosingInv
<1>3. ASSUME NEW u \in Udata, callallgcTM(u)
      PROVE  IInv' /\ (Closing => \A x \in due : x \in allocated' \cup called)
  <2>1. /\ phase = "closing" /\ phase' \in {"closing", "finalizing"}
        /\ u \in tmudata /\ tmudata' = tmudata \ {u} /\ called' = called \cup ({u} \cap hasgc)
        /\ UNCHANGED <<allocated, unswept, hasgc, finalized, due>>
    BY <1>3 DEF callallgcTM, GCTMOf
  <2>2. ClosingInv /\ due \subseteq hasgc
    BY <2>1 DEF IInv, Closing
  <2>3. ClosingInv'
    BY <2>1, <2>2 DEF ClosingInv, FinalInv
  <2> QED
    BY <2>1, <2>2, <2>3 DEF IInv, Closing, ClosingInv
<1>4. CASE close_state
  <2>1. /\ phase = "closing" /\ phase' = "closed" /\ tmudata = {} /\ tmudata' = {} /\ due' = {}
    BY <1>4 DEF close_state
  <2>2. ClosingInv
    BY <2>1 DEF IInv, Closing
  <2> QED
    BY <2>1, <2>2 DEF IInv, ClosingInv
<1> QED
  BY <1>1, <1>2, <1>3, <1>4 DEF Close

LEMMA StepKept ==
  ASSUME IInv, Next
  PROVE  IInv' /\ \A u \in due : u \in allocated' \cup called
<1>1. CASE Close
  BY <1>1, CloseStepKept DEF IInv
<1>2. CASE Program \/ singlestep
  <2>1. phase' = phase /\ due' \subseteq due /\ due' \subseteq hasgc'
    BY <1>2, DueKept DEF IInv
  <2>2. phase # "closed"
    BY <1>2 DEF Program, singlestep, luaC_link, Pop, luaS_newlstr, Read, SetField, ClearField,
       NewClosure, SetLocal, SetUpval, luaF_close, lua_setmetatable, SetGc, Switch, luaC_fullgc,
       luaD_throw, markroot, atomic, StringsSwept, EndCycle, FullCycle, propagatemark,
       SweepString, Sweep, GCTM, Active, Going
  <2>3. CASE phase = "open" /\ OpenInv /\ due = {}
    BY <1>2, <2>1, <2>3, OpenKept DEF IInv
  <2>4. CASE Closing /\ ClosingInv
    <3>1. ClosingInv' /\ tmudata \subseteq allocated'
      BY <1>2, <2>1, <2>4, ClosingKept DEF IInv
    <3> QED
      BY <2>1, <2>4, <3>1 DEF IInv, Closing, ClosingInv
  <2> QED
    BY <2>2, <2>3, <2>4 DEF IInv
<1> QED
  BY <1>1, <1>2 DEF Next

LEMMA Inductive == Spec => []IInv
<1>1. Init => IInv
  BY InitKept
<1>2. IInv /\ [Next]_vars => IInv'
  <2> SUFFICES ASSUME IInv, [Next]_vars PROVE IInv'
    OBVIOUS
  <2>1. CASE Next
    BY <2>1, StepKept
  <2>2. CASE UNCHANGED vars
    <3>1. UNCHANGED <<allocated, refs, owner, running, marked, gray, grayagain, weak, gcstate,
                      unswept, hasgc, finalized, tmudata, called, due, phase>>
      BY <2>2 DEF vars, heap, lists, cycle, final
    <3>2. TypeInv' <=> TypeInv
      BY <3>1 DEF TypeInv
    <3>3. EdgeInv' <=> EdgeInv
      BY <3>1 DEF EdgeInv
    <3>4. ColourInv' <=> ColourInv
      BY <3>1 DEF ColourInv, isblack
    <3>5. AliveInv' <=> AliveInv
      BY <3>1 DEF AliveInv, InUse, isdead, Sweeping
    <3>6. MarkInv' <=> MarkInv
      BY <3>1 DEF MarkInv, Listing, Blackness, IsWhite, isblack
    <3>7. (SweepInv' <=> SweepInv) /\ (IdleInv' <=> IdleInv) /\ (FinalInv' <=> FinalInv)
      BY <3>1 DEF SweepInv, IdleInv, FinalInv, Sweeping
    <3>8. (OpenInv' <=> OpenInv) /\ (ClosingInv' <=> ClosingInv)
      BY <3>1, <3>2, <3>3, <3>4, <3>5, <3>6, <3>7 DEF OpenInv, ClosingInv
    <3> QED
      BY <3>1, <3>8 DEF IInv, Closing
  <2> QED
    BY <2>1, <2>2
<1> QED
  BY <1>1, <1>2, PTL DEF Spec

(* What the program can still get to is neither freed nor taken for garbage *)
(* (lgc.c, lfunc.c): however its steps, the barriers, the finalizers and   *)
(* the incremental collector follow each other.                            *)
THEOREM NothingLive == Spec => []NothingLost
<1>1. IInv => NothingLost
  <2> SUFFICES ASSUME OpenInv
               PROVE  /\ {Main, Registry, running} \cup tmudata \subseteq {o \in Objects : Alive(o)}
                      /\ \A o \in Objects : Alive(o) => \A x \in Edges(o) : Alive(x)
    BY DEF IInv, NothingLost, Closing
  <2>1. AliveInv /\ EdgeInv /\ TypeInv
    BY DEF OpenInv
  <2>2. \A x : Alive(x) <=> InUse(x)
    BY <2>1 DEF Alive, InUse, AliveInv
  <2>3. \A x : InUse(x) => x \in Objects
    BY <2>1 DEF InUse, TypeInv
  <2>4. ASSUME NEW o, InUse(o), NEW x \in Edges(o) PROVE InUse(x)
    <3>1. CASE x \in refs[o]
      BY <2>1, <2>4, <3>1 DEF AliveInv, InUse
    <3>2. CASE x \notin refs[o]
      <4>1. PICK u \in OpenUpvals(o) : x \in refs[u] /\ o \in Threads
        BY <2>4, <3>2 DEF Edges
      <4>2. u \in Upvals \cap allocated /\ owner[u] = o /\ owner[u] # NoThread
        BY <4>1, Sorts DEF OpenUpvals
      <4> QED
        BY <2>1, <2>4, <4>1, <4>2 DEF AliveInv, InUse
    <3> QED
      BY <3>1, <3>2
  <2> QED
    BY <2>1, <2>2, <2>3, <2>4 DEF AliveInv
<1> QED
  BY <1>1, Inductive, PTL

(* The tricolour invariant that the barriers and atomic rely on, and the   *)
(* assertions of the barriers that nothing is black between two cycles     *)
(* (lgc.c:667, 680, 707).                                                  *)
THEOREM ColoursHold == Spec => []Colours
<1>1. IInv => Colours
  <2>1. CASE phase # "open"
    BY <2>1 DEF Colours, Tricolour, AllWhite
  <2>2. CASE OpenInv
    <3>1. AllWhite
      BY <2>2 DEF OpenInv, IdleInv, AllWhite
    <3>2. ASSUME gcstate = "propagate", NEW o \in allocated \ tmudata
          PROVE  /\ isblack(o) => WhiteIn(marked, Edges(o)) = {}
                 /\ marked[o] = "gray" /\ o \in Listed => o \in UNION Lists
      <4>1. Listing /\ Blackness /\ ColourInv
        BY <2>2, <3>2 DEF OpenInv, MarkInv
      <4>2. ASSUME isblack(o) PROVE WhiteIn(marked, Edges(o)) = {}
        <5>1. Edges(o) = refs[o]
          BY <4>1, <4>2 DEF ColourInv, Edges
        <5> QED
          BY <4>1, <4>2, <5>1 DEF Blackness, WhiteIn
      <4>3. marked[o] = "gray" /\ o \in Listed => o \in UNION Lists
        BY <4>1 DEF Listing, Lists
      <4> QED
        BY <4>2, <4>3
    <3> QED
      BY <3>1, <3>2 DEF Colours, Tricolour
  <2> QED
    BY <2>1, <2>2 DEF IInv, Closing
<1> QED
  BY <1>1, Inductive, PTL

(* No userdata is finalized twice (luaC_separateudata, GCTM). *)
THEOREM FinalizersOnce == Spec => []FinalizedOnce
<1>1. IInv => FinalizedOnce
  BY DEF IInv, OpenInv, ClosingInv, FinalInv, FinalizedOnce
<1> QED
  BY <1>1, Inductive, PTL

(* A userdata that had a finalizer when lua_close began (lstate.c:213-227), *)
(* and keeps one, is finalized before it is freed, whatever the finalizers *)
(* run before it do and however they end.  Spared and the userdata that are *)
(* made by finalizers are not due.                                         *)
THEOREM ClosedFinalized == Spec => FinalizedAtClose
<1>1. IInv /\ [Next]_vars => [\A u \in due : u \in allocated' \cup called]_vars
  BY StepKept DEF vars
<1> QED
  BY <1>1, Inductive, PTL DEF Spec, FinalizedAtClose
=============================================================================
