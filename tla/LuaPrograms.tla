---------------------------- MODULE LuaPrograms -----------------------------
(***************************************************************************)
(* The chunks the machine is run on: families of trees whose outcome          *)
(* LuaMeaning gives, and texts (coroutines, overflows, syntax errors) whose   *)
(* outcome the manual gives and that is written next to them.                 *)
(***************************************************************************)
EXTENDS LuaMeaning

CONSTANT LUAI_MAXCALLS

C(t) == <<"const", t>>
V(n) == <<"var", n>>
Dots == <<"...">>
Bin(op, a, b) == <<"bin", op, a, b>>
Un(op, a) == <<"un", op, a>>
Par(e) == <<"paren", e>>
At(t, k) == <<"index", t, k>>
Dot(t, n) == <<"dot", t, n>>
Call_(f, args) == <<"call", V(f), args>>
Meth(o, n, args) == <<"method", o, n, args>>
Fn(ps, b) == <<"function", ps, b>>
Tab(items) == <<"table", items>>
Rec(k, e) == <<"rec", k, e>>
Local(ns, es) == <<"local", ns, es>>
Assign(ls, es) == <<"set", ls, es>>
Set(n, e) == <<"set", <<V(n)>>, <<e>>>>
Do(e) == <<"do", e>>
Ret(es) == <<"return", es>>
If(c, a, b) == <<"if", c, a, b>>
Loop(c, b) == <<"while", c, b>>
Repeat_(b, c) == <<"repeat", b, c>>
ForI(n, es, b) == <<"for", n, es, b>>
ForEach(ns, es, b) == <<"forin", ns, es, b>>
Break == <<"break">>
Blk(b) == <<"block", b>>
Out(es) == Do(Call_("print", es))
Def(n, ps, b) == Local(<<n>>, <<Fn(ps, b)>>)
Protected(es) == Ret(<<Call_("pcall", es)>>)
One1 == C("1")
Two == C("2")

(* Expressions of two operators, as a value, as conditions, and negated,      *)
(* over constants, a local and an upvalue.                                    *)
Operands == {C("nil"), One1, V("x"), V("y")}
Logical == {"and", "or", "=="}
Pairs == {Bin(o, a, b) : o \in Logical, a \in Operands, b \in Operands}
Trees1 == {Bin(o, Par(p), c) : o \in {"and", "or"}, p \in Pairs, c \in {C("nil"), V("y")}}
     \cup {Bin(o, a, Un("not", Par(p))) : o \in {"and", "or"}, a \in {V("x"), V("y")}, p \in Pairs}
Test(e) == <<
  Local(<<"y">>, <<Two>>),
  Def("f", <<"x">>, <<Local(<<"v">>, <<e>>),
                      If(e, <<Out(<<One1>>)>>, <<Out(<<Two>>)>>),
                      Loop(Un("not", Par(e)), <<Out(<<C("3")>>), Break>>),
                      Ret(<<V("v"), Un("not", Par(e))>>)>>),
  Protected(<<V("f"), C("false")>>)>>
Expressions == {Test(e) : e \in Trees1}

(* Arithmetic, concatenation and comparison of every two kinds of value.       *)
Kinds == {C("nil"), Two, C("'10'"), C("''"), V("u"), C("3")}
Operations == {"+", "-", "*", "%", "^", "..", "==", "~=", "<", "<=", ">", ">="}
NoOrder(a, b, o) == o \in {"<", "<=", ">", ">="} /\ {a, b} \subseteq {C("'10'"), C("''"), V("u")}
Kind_(o, a, b) == <<
  Def("f", <<"u">>, <<Ret(<<Bin(o, a, b)>>)>>), Protected(<<V("f"), C("'s'")>>)>>
Operators == {Kind_(c[1], c[2], c[3]) :
  c \in {q \in Operations \X Kinds \X Kinds : ~NoOrder(q[2], q[3], q[1])
                                              /\ (q[1] = "^" => q[3] # C("'10'"))}}

(* Loops of every kind, left early or not, whose body defines closures over    *)
(* a variable of the loop or of a block in it.                                 *)
Capture(n) == Assign(<<At(V("t"), V("n"))>>,
                     <<Fn(<<>>, <<Set(n, Bin("+", V(n), One1)), Ret(<<V(n)>>)>>)>>)
Body(leave, n) == <<
  Set("n", Bin("+", V("n"), One1)),
  Local(<<"j">>, <<Bin("*", V("n"), C("10"))>>)>>
  \o (IF n = "" THEN <<>> ELSE <<Blk(<<Local(<<"k">>, <<V("j")>>), Capture(n)>>)>>)
  \o (IF leave THEN <<If(Bin("==", V("n"), Two), <<Break>>, <<>>)>> ELSE <<>>)
Loops(b) == {
  ForI("i", <<One1, C("3")>>, b), ForI("i", <<C("3"), One1, Un("-", V("n1"))>>, b),
  Loop(Bin("<", V("n"), C("3")), b), Repeat_(b, Bin(">=", V("n"), C("3"))),
  Repeat_(b, Bin("and", V("j"), Bin("==", V("n"), C("3")))),
  ForEach(<<"i", "v">>, <<Call_("ipairs", <<Tab(<<Two, Two, Two>>)>>)>>, b)}
LoopTests == {<<
  Local(<<"t", "n", "n1">>, <<Tab(<<>>), C("0"), One1>>), l,
  ForEach(<<"i", "f">>, <<Call_("ipairs", <<V("t")>>)>>,
          <<Out(<<Call_("f", <<>>), Call_("f", <<>>)>>)>>),
  Ret(<<V("n")>>)>> :
    l \in UNION {Loops(Body(leave, n)) : leave \in BOOLEAN, n \in {"", "j", "k"}}}

(* Assignments of one to three values to two or three variables.              *)
Targets == {V("a"), V("g"), V("u"), At(V("t"), V("a")), At(V("a1"), One1), At(V("t"), V("b"))}
Values == {<<Two>>, <<Bin("+", V("a"), One1), V("t")>>, <<Call_("m", <<>>)>>,
           <<V("b"), Call_("m", <<>>)>>, <<One1, Two, C("3")>>, <<Par(Call_("m", <<>>))>>}
Assignments == {<<
  Local(<<"u">>, <<C("5")>>),
  Def("m", <<>>, <<Ret(<<C("4"), C("3")>>)>>),
  Def("f", <<"a", "b">>, <<
    Local(<<"t">>, <<Tab(<<C("0"), C("0"), C("0")>>)>>), Local(<<"a1">>, <<V("t")>>),
    Assign(ls, vs),
    Ret(<<Bin("==", V("a"), V("t")), V("u"), V("b"),
          At(V("a1"), One1), At(V("a1"), Two), At(V("a1"), C("3"))>>)>>),
  Protected(<<V("f"), One1, Two>>)>> :
    ls \in {<<x, y>> : x \in Targets, y \in Targets \ {V("g")}} \cup {<<V("a"), At(V("t"), V("a")), V("b")>>},
    vs \in Values}

(* Calls: fixed and extra arguments, adjusted results, tail calls, methods,   *)
(* recursion.                                                                 *)
Params == {<<>>, <<"a">>, <<"a", "b">>, <<"...">>, <<"a", "...">>}
Results(ps) ==
  {<<One1, Two>>, <<>>} \cup (IF Contains(ps, "...") THEN {<<Dots>>, <<Dots, One1>>, <<Par(Dots)>>} ELSE {})
     \cup (IF Contains(ps, "a") THEN {<<V("a"), Call_("g", <<V("a")>>)>>, <<Call_("g", <<V("a"), Two>>)>>} ELSE {})
Uses == {<<Call_("f", <<>>)>>, <<Call_("f", <<Two>>), One1>>,
         <<Two, Call_("f", <<One1, Two, C("3")>>)>>, <<Call_("f", <<Call_("g", <<C("3")>>)>>)>>}
Calls == {<<
  Def("g", <<"n", "...">>, <<Ret(<<Bin("and", V("n"), Bin("+", V("n"), One1)), Dots, V("n")>>)>>),
  Def("f", x.ps, <<Ret(x.rs)>>),
  Local(<<"t">>, <<Tab(us)>>),
  Ret(<<Un("#", V("t")), At(V("t"), One1), At(V("t"), Two)>> \o us)>> :
    x \in UNION {{[ps |-> ps, rs |-> rs] : rs \in Results(ps)} : ps \in Params}, us \in Uses}

(* Metamethods, that answer or fail, reached from every kind of instruction.   *)
Events == {"__index", "__newindex", "__add", "__concat", "__eq", "__lt", "__le", "__call", "__unm"}
Answers == {Fn(<<"a", "b">>, <<Out(<<One1>>), Ret(<<Two>>)>>), Fn(<<>>, <<Ret(<<C("nil")>>)>>),
            Fn(<<"a">>, <<Ret(<<Call_("error", <<C("'s'")>>)>>)>>)}
UseOf(e) == CASE e = "__index" -> {Ret(<<Dot(V("o"), "x")>>), Ret(<<Meth(V("o"), "x", <<One1>>)>>)}
  [] e = "__newindex" -> {Assign(<<Dot(V("o"), "x")>>, <<One1>>)}
  [] e = "__add" -> {Ret(<<Bin("+", V("o"), One1)>>), Ret(<<Bin("+", One1, V("o"))>>)}
  [] e = "__concat" -> {Ret(<<Bin("..", One1, Bin("..", V("o"), Two))>>)}
  [] e = "__eq" -> {Ret(<<Bin("==", V("o"), V("p"))>>)}
  [] e = "__lt" -> {If(Bin("<", V("o"), V("p")), <<Ret(<<One1>>)>>, <<>>),
                    Ret(<<Bin("<=", V("o"), V("p"))>>)}
  [] e = "__le" -> {Ret(<<Bin("<=", V("o"), V("p"))>>)}
  [] e = "__call" -> {Ret(<<Call_("o", <<One1>>), Two>>), Ret(<<Call_("o", <<>>)>>)}
  [] e = "__unm" -> {Ret(<<Un("-", V("o"))>>)}
Metas == {<<
  Local(<<"mt">>, <<Tab(<<Rec(C(c.ev), c.fn)>>)>>),
  Def("f", <<"o", "p">>, <<Blk(<<c.use>>), Ret(<<C("'s'")>>)>>),
  Protected(<<V("f"), Call_("setmetatable", <<Tab(<<>>), V("mt")>>),
                      Call_("setmetatable", <<Tab(<<>>), V("mt")>>)>>)>> :
    c \in UNION {{[ev |-> e, fn |-> a, use |-> u] : a \in Answers, u \in UseOf(e)} : e \in Events}}

(* The table library: every order of four values, sorted by every order       *)
(* function, one that fails after n comparisons included; insertion and        *)
(* removal at every place, with the list as it then is.                       *)
TLib(n, args) == <<"call", Dot(V("table"), n), args>>
Numbers_(ns) == [i \in DOMAIN ns |-> C(ToString(ns[i]))]
Lists == {Numbers_(ns) : ns \in {q \in [1..4 -> 1..4] : Cardinality({q[i] : i \in 1..4}) = 4}}
   \cup {Numbers_(ns) : ns \in {<<>>, <<1>>, <<2, 1>>, <<1, 2>>, <<2, 2, 1>>, <<2, 1, 2>>, <<1, 2, 2>>, <<2, 2, 2, 1>>,
                                <<3, 1, 4, 2, 5, 0>>, <<5, 4, 3, 2, 1, 0>>, <<1, 2, 3, 4, 5, 10>>, <<2, 1, 2, 1, 2, 1, 2>>}}
Order(op) == Fn(<<"a", "b">>, <<Ret(<<Bin(op, V("a"), V("b"))>>)>>)
Orders == {<<>>, <<Order("<")>>, <<Order(">")>>}
Each(t) == ForEach(<<"i", "v">>, <<Call_("ipairs", <<t>>)>>, <<Out(<<V("v")>>)>>)
SortTests == {<<
  Local(<<"t">>, <<Tab(l)>>), Do(TLib("sort", <<V("t")>> \o o)), Each(V("t"))>> :
    l \in Lists, o \in Orders}
Broken == {<<
  Local(<<"t", "n", "s">>, <<Tab(Numbers_(<<3, 1, 4, 2, 5>>)), C("0"), C("0")>>),
  Def("f", <<"a", "b">>, <<Set("n", Bin("+", V("n"), One1)),
                           If(Bin("==", V("n"), k), <<Do(Call_("error", <<C("'s'")>>))>>, <<>>),
                           Ret(<<Bin("<", V("a"), V("b"))>>)>>),
  Out(<<Call_("pcall", <<Dot(V("table"), "sort"), V("t"), V("f")>>)>>),
  ForEach(<<"i", "v">>, <<Call_("ipairs", <<V("t")>>)>>, <<Set("s", Bin("+", V("s"), V("v")))>>),
  Ret(<<V("s"), TLib("maxn", <<V("t")>>), TLib("getn", <<V("t")>>)>>)>> :
    k \in {C(ToString(n)) : n \in {1, 2, 3, 4, 5}}}
Mixed == {<<
  Protected(<<Dot(V("table"), n), Tab(l)>> \o args)>> :
    n \in {"sort", "concat", "setn", "foreachi"}, l \in {<<C("2"), C("true"), C("1")>>},
    args \in {<<Fn(<<"a", "b">>, <<Ret(<<Bin("+", V("a"), V("b"))>>)>>)>>}}
Edits == {<<
  Local(<<"t">>, <<Tab(Numbers_(l))>>), Do(TLib("insert", <<V("t")>> \o c)),
  Out(<<TLib("remove", <<V("t")>> \o d)>>), Out(<<TLib("concat", <<V("t")>> \o e)>>), Each(V("t"))>> :
    l \in {<<5, 4>>, <<5, 4, 3>>}, c \in {<<One1>>, <<One1, Two>>, <<Two, Two>>, <<C("3"), Two>>},
    d \in {<<>>, <<One1>>, <<Two>>, <<C("3")>>}, e \in {<<>>, <<C("'s'")>>, <<C("''"), Two>>, <<C("'s'"), One1, One1>>}}
Bodies == {
  <<Local(<<"r">>, <<C("0")>>),
    Do(TLib("foreachi", <<Tab(Numbers_(<<4, 3, 2>>)),
       Fn(<<"i", "v">>, <<Set("r", Bin("+", V("r"), Bin("*", V("i"), V("v"))))>>)>>)),
    Ret(<<V("r")>>)>>,
  <<Ret(<<TLib("foreachi", <<Tab(Numbers_(<<4, 3, 2>>)),
          Fn(<<"i", "v">>, <<If(Bin("==", V("v"), C("3")), <<Ret(<<V("i")>>)>>, <<>>)>>)>>)>>)>>,
  <<Local(<<"x">>, <<C("false")>>), Ret(<<Bin("==", V("x"), C("true")), Bin("==", V("x"), C("false"))>>)>>,
  <<Ret(<<TLib("remove", <<Tab(<<>>)>>), TLib("foreachi", <<Tab(<<>>), V("print")>>)>>)>>}
(* Errors with a handler: where the error is raised, what the handler does,    *)
(* and that the next error meets the handler of before.                       *)
Raisers == {Call_("error", <<One1>>), Bin("+", V("u"), C("nil")), Call_("u", <<>>), Bin("+", V("u"), One1),
            Call_("setmetatable", <<Tab(<<>>), One1>>),
            Call_("pcall", <<V("error"), Two>>), Call_("xpcall", <<V("error"), V("pcall")>>)}
Handlers == {Fn(<<"e">>, <<Set("n", Bin("+", V("n"), One1)), Ret(<<V("e"), V("n")>>)>>),
             Fn(<<>>, <<Ret(<<Call_("pcall", <<V("error"), C("'s'")>>)>>)>>),
             Fn(<<"e">>, <<Ret(<<Bin("+", V("e"), C("nil"))>>)>>), V("assert"), One1}
Handled == {<<
  Local(<<"n", "u">>, <<C("0"), Two>>),
  Def("f", <<>>, <<Local(<<"r">>, <<e>>), Ret(<<V("r"), V("u")>>)>>),
  Out(<<Call_("xpcall", <<V("f"), h>>)>>),
  Out(<<Call_("xpcall", <<Fn(<<>>, <<Ret(<<Call_("pcall", <<V("f")>>)>>)>>), h>>)>>),
  Ret(<<V("n")>>)>> : e \in Raisers, h \in Handlers}
(* Functions of the basic library on a table with metamethods.                *)
Basics == {<<
  Local(<<"m">>, <<Tab(<<Rec(C("__eq"), V("rawequal")), Rec(C("__metatable"), p)>>)>>),
  Local(<<"t">>, <<Call_("setmetatable", <<Tab(<<C("4"), C("3")>>), V("m")>>)>>),
  Out(<<Call_("pcall", <<V(c[1])>> \o c[2])>>), Out(<<Call_("unpack", <<V("t")>>)>>),
  Ret(<<Bin("==", Call_("getmetatable", <<V("t")>>), V("m")), Call_("select", <<C("'#'"), V("t"), V("m")>>)>>)>> :
    p \in {C("nil"), C("5")},
    c \in {<<"setmetatable", <<V("t"), Tab(<<>>)>>>>, <<"setmetatable", <<V("t"), C("nil")>>>>,
           <<"setmetatable", <<V("t")>>>>, <<"getmetatable", <<One1>>>>, <<"rawget", <<V("t"), One1>>>>,
           <<"rawget", <<V("t"), C("5")>>>>, <<"rawget", <<One1, Two>>>>, <<"rawset", <<V("t"), C("3"), Two>>>>,
           <<"rawset", <<V("t"), C("nil"), Two>>>>, <<"rawequal", <<V("t"), V("t")>>>>, <<"rawequal", <<V("t"), V("m")>>>>,
           <<"assert", <<>>>>, <<"assert", <<One1, Two>>>>, <<"assert", <<C("nil")>>>>, <<"assert", <<C("false"), C("'s'")>>>>,
           <<"unpack", <<V("t"), Two, C("3")>>>>, <<"unpack", <<V("t"), Two, One1>>>>,
           <<"select", <<Two, One1, Two, C("3")>>>>, <<"select", <<C("5"), One1>>>>, <<"select", <<C("0"), One1>>>>,
           <<"select", <<Un("-", One1), One1, Two>>>>, <<"select", <<Un("-", C("3")), One1, Two>>>>}}
Libraries == Handled \cup Basics \cup SortTests \cup Broken \cup Mixed \cup Edits \cup Bodies

Trees == Expressions \cup Operators \cup LoopTests \cup Assignments \cup Calls \cup Metas \cup Libraries

----------------------------------------------------------------------------
(* Texts, with how they end and what they print.                              *)
T_ == Bool(TRUE)
F_ == Bool(FALSE)
Ok(vs) == <<"ok", vs>>
Fails(kind) == Ok(<<F_, Str(kind)>>)

\* the values passed by resume, yield and return, and a dead coroutine
generator == <<"text",
  <<"local", "co", "=", "coroutine", ".", "create", "(", "function", "(", "a", ",", "b", ")",
     "print", "(", "a", ",", "b", ")", "local", "c", "=", "coroutine", ".", "yield", "(", "a", "+",
     "b", ")", "print", "(", "c", ")", "local", "d", ",", "e", "=", "coroutine", ".", "yield", "(",
     ")", "print", "(", "d", ",", "e", ")", "return", "c", ",", "5", "end", ")", "print", "(",
     "coroutine", ".", "resume", "(", "co", ",", "1", ",", "2", ")", ")", "print", "(", "coroutine",
     ".", "status", "(", "co", ")", ")", "print", "(", "coroutine", ".", "resume", "(", "co", ",",
     "3", ")", ")", "print", "(", "coroutine", ".", "resume", "(", "co", ",", "4", ")", ")",
     "print", "(", "coroutine", ".", "status", "(", "co", ")", ")", "return", "coroutine", ".",
     "resume", "(", "co", ")">>,
  [halt |-> Fails("dead coroutine"),
   out |-> <<Num(1), Num(2), T_, Num(3), Str("suspended"), Num(3), T_, Num(4), NilV, T_, Num(3), Num(5), Str("dead")>>]>>
\* an upvalue of the main thread and one of a suspended coroutine, which dies with it open
shared == <<"text",
  <<"local", "n", "=", "0", "local", "get", "local", "f", "=", "coroutine", ".", "wrap", "(",
     "function", "(", ")", "local", "k", "=", "1", "get", "=", "function", "(", ")", "k", "=", "k",
     "+", "n", "return", "k", "end", "while", "true", "do", "n", "=", "n", "+", "1", "coroutine",
     ".", "yield", "(", "k", ")", "end", "end", ")", "f", "(", ")", "print", "(", "get", "(", ")",
     ")", "print", "(", "f", "(", ")", ")", "n", "=", "5", "print", "(", "get", "(", ")", ",", "f",
     "(", ")", ")", "return", "n", ",", "get", "(", ")">>,
  [halt |-> Ok(<<Num(6), Num(13)>>),
   out |-> <<Num(2), Num(2), Num(7), Num(7)>>]>>
\* a coroutine in a coroutine: the outer one is normal and cannot be resumed (it is called dead: its frame is empty)
nested == <<"text",
  <<"local", "outer", "local", "function", "body", "(", ")", "print", "(", "coroutine", ".",
     "status", "(", "outer", ")", ")", "print", "(", "coroutine", ".", "resume", "(", "outer", ")",
     ")", "coroutine", ".", "yield", "(", "1", ")", "end", "outer", "=", "coroutine", ".", "create",
     "(", "function", "(", ")", "local", "inner", "=", "coroutine", ".", "wrap", "(", "body", ")",
     "print", "(", "inner", "(", ")", ")", "coroutine", ".", "yield", "(", "2", ")", "inner", "(",
     ")", "inner", "(", ")", "end", ")", "print", "(", "coroutine", ".", "resume", "(", "outer",
     ")", ")", "print", "(", "coroutine", ".", "resume", "(", "outer", ")", ")", "return",
     "coroutine", ".", "status", "(", "outer", ")">>,
  [halt |-> Ok(<<Str("dead")>>),
   out |-> <<Str("normal"), F_, Str("dead coroutine"), Num(1), T_, Num(2), F_, Str("dead coroutine")>>]>>
\* a coroutine that resumes itself
self == <<"text",
  <<"local", "co", "co", "=", "coroutine", ".", "create", "(", "function", "(", ")", "return",
     "coroutine", ".", "resume", "(", "co", ")", "end", ")", "return", "coroutine", ".", "resume",
     "(", "co", ")">>,
  [halt |-> Ok(<<T_, F_, Str("non-suspended coroutine")>>),
   out |-> <<>>]>>
\* a yield under a protected call, from the main thread, and in an iterator
boundary == <<"text",
  <<"local", "co", "=", "coroutine", ".", "wrap", "(", "function", "(", ")", "print", "(", "pcall",
     "(", "coroutine", ".", "yield", ",", "1", ")", ")", "for", "i", "in", "coroutine", ".",
     "yield", "do", "print", "(", "1", ")", "end", "end", ")", "print", "(", "pcall", "(",
     "coroutine", ".", "yield", ")", ")", "return", "pcall", "(", "co", ")">>,
  [halt |-> Ok(<<F_, Str("yield across C-call boundary")>>),
   out |-> <<F_, Str("yield across C-call boundary"), F_, Str("yield across C-call boundary")>>]>>
\* a yield in a tail call, resumed with more values than it left
tailyield == <<"text",
  <<"local", "co", "=", "coroutine", ".", "wrap", "(", "function", "(", "...", ")", "return",
     "coroutine", ".", "yield", "(", "...", ")", "end", ")", "print", "(", "co", "(", "1", ",", "2",
     ")", ")", "print", "(", "co", "(", "3", ",", "4", ",", "5", ")", ")", "return", "pcall", "(",
     "co", ")">>,
  [halt |-> Fails("dead coroutine"),
   out |-> <<Num(1), Num(2), Num(3), Num(4), Num(5)>>]>>
\* an error in a coroutine reaches who resumed it; its upvalues live on
fails == <<"text",
  <<"local", "get", "local", "co", "=", "coroutine", ".", "create", "(", "function", "(", ")",
     "local", "k", "=", "1", "get", "=", "function", "(", ")", "k", "=", "k", "+", "1", "return",
     "k", "end", "error", "(", "2", ")", "end", ")", "print", "(", "coroutine", ".", "resume", "(",
     "co", ")", ")", "print", "(", "coroutine", ".", "status", "(", "co", ")", ",", "coroutine",
     ".", "resume", "(", "co", ")", ")", "return", "get", "(", ")", ",", "get", "(", ")">>,
  [halt |-> Ok(<<Num(2), Num(3)>>),
   out |-> <<F_, Num(2), Str("dead"), F_, Str("dead coroutine")>>]>>
\* what is not a function or a thread
wrongarg == <<"text",
  <<"print", "(", "pcall", "(", "coroutine", ".", "create", ",", "1", ")", ")", "return", "pcall",
     "(", "coroutine", ".", "resume", ",", "1", ")">>,
  [halt |-> Fails("coroutine expected"),
   out |-> <<F_, Str("Lua function expected")>>]>>
\* endless recursion is stopped, twice, and the program goes on
overflow == <<"text",
  <<"local", "n", "=", "0", "local", "function", "f", "(", ")", "n", "=", "n", "+", "1", "return",
     "1", "+", "f", "(", ")", "end", "print", "(", "pcall", "(", "f", ")", ")", "n", "=", "0",
     "print", "(", "pcall", "(", "f", ")", ")", "return", "n">>,
  [halt |-> Ok(<<Num(LUAI_MAXCALLS - 3)>>),
   out |-> <<F_, Str("stack overflow"), F_, Str("stack overflow")>>]>>
\* an overflow while the first one is being handled
deeper == <<"text",
  <<"local", "function", "f", "(", ")", "return", "pcall", "(", "f", ")", ",", "1", "end", "local",
     "function", "g", "(", ")", "return", "1", "+", "g", "(", ")", "end", "local", "function", "h",
     "(", ")", "print", "(", "pcall", "(", "g", ")", ")", "return", "g", "(", ")", "end", "print",
     "(", "pcall", "(", "h", ")", ")", "return", "1">>,
  [halt |-> Ok(<<Num(1)>>),
   out |-> <<F_, Str("stack overflow"), F_, Str("stack overflow")>>]>>
\* endless recursion through a metamethod
coverflow == <<"text",
  <<"local", "t", "=", "setmetatable", "(", "{", "}", ",", "{", "}", ")", "setmetatable", "(", "t",
     ",", "{", "[", "__index", "]", "=", "function", "(", "a", ",", "k", ")", "return", "a", "[",
     "k", "]", ",", "1", "end", "}", ")", "print", "(", "pcall", "(", "function", "(", ")",
     "return", "t", ".", "x", "end", ")", ")", "return", "1">>,
  [halt |-> Ok(<<Num(1)>>),
   out |-> <<F_, Str("C stack overflow")>>]>>
\* tail calls take no frames
tails == <<"text",
  <<"local", "function", "f", "(", "n", ")", "if", "n", "==", "0", "then", "return", "1", "end",
     "return", "f", "(", "n", "-", "1", ")", "end", "return", "f", "(", "10", ")">>,
  [halt |-> Ok(<<Num(1)>>),
   out |-> <<>>]>>
\* an error leaves the upvalues of the frames it unwinds
closes == <<"text",
  <<"local", "get", "local", "function", "f", "(", ")", "local", "k", "=", "1", "get", "=",
     "function", "(", ")", "k", "=", "k", "+", "1", "return", "k", "end", "error", "(", "2", ")",
     "end", "print", "(", "pcall", "(", "f", ")", ")", "local", "a", ",", "b", ",", "c", "=", "10",
     ",", "10", ",", "10", "return", "get", "(", ")", ",", "get", "(", ")", ",", "a", ",", "b", ",",
     "c">>,
  [halt |-> Ok(<<Num(2), Num(3), Num(10), Num(10), Num(10)>>),
   out |-> <<F_, Num(2)>>]>>
\* a chain of metatables that has no end
tagloop == <<"text",
  <<"local", "t", "=", "{", "}", "local", "mt", "=", "{", "[", "__index", "]", "=", "t", ",", "[",
     "__newindex", "]", "=", "t", "}", "setmetatable", "(", "t", ",", "mt", ")", "print", "(",
     "pcall", "(", "function", "(", ")", "return", "t", ".", "x", "end", ")", ")", "return",
     "pcall", "(", "function", "(", ")", "t", ".", "x", "=", "1", "end", ")">>,
  [halt |-> Fails("loop in settable"),
   out |-> <<F_, Str("loop in gettable")>>]>>
\* for loops that cannot start
fors == <<"text",
  <<"print", "(", "pcall", "(", "function", "(", ")", "for", "i", "=", "1", ",", "{", "}", "do",
     "end", "end", ")", ")", "return", "pcall", "(", "function", "(", ")", "for", "i", "in", "1",
     "do", "end", "end", ")">>,
  [halt |-> Fails("call error"),
   out |-> <<F_, Str("for")>>]>>
\* each call of a function makes its own variable
makers == <<"text",
  <<"local", "function", "mk", "(", "k", ")", "return", "function", "(", ")", "k", "=", "k", "+",
     "1", "return", "k", "end", "end", "local", "a", ",", "b", "=", "mk", "(", "1", ")", ",", "mk",
     "(", "3", ")", "return", "a", "(", ")", ",", "b", "(", ")", ",", "a", "(", ")", ",", "b", "(",
     ")">>,
  [halt |-> Ok(<<Num(2), Num(4), Num(3), Num(5)>>),
   out |-> <<>>]>>
\* two variables of one function, captured by three closures in any order
captured == <<"text",
  <<"local", "function", "f", "(", "a", ",", "b", ")", "local", "c", "=", "1", "local", "function",
     "g", "(", ")", "a", "=", "a", "+", "c", "return", "a", "end", "local", "function", "h", "(",
     ")", "c", "=", "c", "+", "b", "return", "c", "end", "local", "function", "i", "(", ")", "b",
     "=", "b", "+", "a", "return", "b", "end", "return", "h", "(", ")", ",", "g", "(", ")", ",",
     "i", "(", ")", ",", "h", "(", ")", ",", "a", ",", "b", ",", "c", "end", "return", "f", "(",
     "2", ",", "3", ")">>,
  [halt |-> Ok(<<Num(4), Num(6), Num(9), Num(13), Num(6), Num(9), Num(13)>>),
   out |-> <<>>]>>
\* an order that says yes to everything, and one that yields
noorder == <<"text",
  <<"local", "t", "=", "{", "4", ",", "2", ",", "1", ",", "3", "}", "print", "(", "pcall", "(", "table", ".",
     "sort", ",", "t", ",", "function", "(", ")", "return", "true", "end", ")", ")", "print", "(", "pcall", "(",
     "table", ".", "sort", ",", "t", ",", "coroutine", ".", "yield", ")", ")", "local", "co", "=", "coroutine",
     ".", "wrap", "(", "function", "(", ")", "table", ".", "sort", "(", "t", ",", "coroutine", ".", "yield",
     ")", "end", ")", "return", "pcall", "(", "co", ")">>,
  [halt |-> Fails("yield across C-call boundary"),
   out |-> <<F_, Str("invalid order function for sorting"), F_, Str("yield across C-call boundary")>>]>>
Texts == {noorder, generator, shared, nested, self, boundary, tailyield, fails, wrongarg, overflow, deeper, coverflow, tails, closes, tagloop, fors, makers, captured}

\* what is not a chunk
Ungrammatical == {
  <<"break">>,
  <<"x">>,
  <<"x", "y", "=", "1">>,
  <<"local", "x", "=", "function", "(", "return", "end">>,
  <<"f", "(">>,
  <<"f", "NL", "(", ")">>,
  <<"return", "1", "2">>,
  <<"for", "x", "do", "end">>,
  <<"local", "a", "=", "...", "function", "g", "(", ")", "return", "...", "end">>,
  <<"x", "=", "{", "1", "2">>,
  <<"if", "x", "then">>,
  <<"repeat", "until">>,
  <<"a", ".", "b", ":", "c", "=", "1">>,
  <<"f", "(", ")", "=", "1">>,
  <<"while", "1", "do">>,
  <<"goto", "1">>,
  <<"1", "=", "x">>,
  <<"local", "function", "1">>,
  <<"for", "i", "=", "1", "do", "end">>,
  <<"x", "=", "=", "2">>,
  <<"do", "break", "end">>}

Chunks == {<<"tree", t>> : t \in Trees} \cup Texts
          \cup {<<"text", u, [halt |-> <<"syntax error">>, out |-> <<>>]>> : u \in Ungrammatical}
ChunkText(c) == IF c[1] = "tree" THEN Join([i \in DOMAIN c[2] |-> Text(c[2][i])]) ELSE c[2]
Outcome(c, lib) == IF c[1] = "tree" THEN MeaningOf(c[2], lib) ELSE c[3]
=============================================================================
