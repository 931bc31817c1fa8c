----------------------------- MODULE LuaMeaning -----------------------------
(***************************************************************************)
(* What a Lua chunk means, on its syntax tree and without registers, jumps,  *)
(* frames or upvalues: an environment maps the names in scope to the places  *)
(* of their values, a closure keeps the environment of its definition.  This *)
(* is the specification the compiler and the virtual machine implement; it   *)
(* follows the reference manual the program's documentation refers to, not   *)
(* the code.  A tree is a tagged tuple; Text gives its tokens.               *)
(***************************************************************************)
EXTENDS LuaOpcodes, SequencesExt

CONSTANT Strings               \* [literal -> contents]

TokenValue(tok) ==
  CASE tok = "nil" -> NilV [] tok = "true" -> Bool(TRUE) [] tok = "false" -> Bool(FALSE)
    [] tok \in DOMAIN Numerals -> Num(Numerals[tok]) [] tok \in DOMAIN Strings -> Str(Strings[tok])

Sep(texts) == FoldLeft(LAMBDA a, t : IF a = <<>> THEN t ELSE a \o <<",">> \o t, <<>>, texts)
Join(texts) == FoldLeft(LAMBDA a, t : a \o t, <<>>, texts)

RECURSIVE Text(_)
Text(x) ==
  LET All(xs) == [i \in DOMAIN xs |-> Text(xs[i])]
      List(xs) == Sep(All(xs))
      Block(xs) == Join(All(xs))
      Names(ns) == Sep([i \in DOMAIN ns |-> <<ns[i]>>])
      t == x[1]
  IN CASE t \in {"const", "var"} -> <<x[2]>>
       [] t = "..." -> <<"...">>
       [] t = "un" -> <<x[2]>> \o Text(x[3])
       [] t = "bin" -> Text(x[3]) \o <<x[2]>> \o Text(x[4])
       [] t = "paren" -> <<"(">> \o Text(x[2]) \o <<")">>
       [] t = "call" -> Text(x[2]) \o <<"(">> \o List(x[3]) \o <<")">>
       [] t = "method" -> Text(x[2]) \o <<":", x[3], "(">> \o List(x[4]) \o <<")">>
       [] t = "index" -> Text(x[2]) \o <<"[">> \o Text(x[3]) \o <<"]">>
       [] t = "dot" -> Text(x[2]) \o <<".", x[3]>>
       [] t = "function" -> <<"function", "(">> \o Names(x[2]) \o <<")">> \o Block(x[3]) \o <<"end">>
       [] t = "table" -> <<"{">> \o List(x[2]) \o <<"}">>
       [] t = "rec" -> <<"[">> \o Text(x[2]) \o <<"]", "=">> \o Text(x[3])
       [] t = "local" -> <<"local">> \o Names(x[2])
                         \o (IF x[3] = <<>> THEN <<>> ELSE <<"=">> \o List(x[3])) \o <<";">>
       [] t = "set" -> List(x[2]) \o <<"=">> \o List(x[3]) \o <<";">>
       [] t = "do" -> Text(x[2]) \o <<";">>
       [] t = "return" -> <<"return">> \o List(x[2])
       [] t = "if" -> <<"if">> \o Text(x[2]) \o <<"then">> \o Block(x[3])
                      \o (IF x[4] = <<>> THEN <<>> ELSE <<"else">> \o Block(x[4])) \o <<"end">>
       [] t = "while" -> <<"while">> \o Text(x[2]) \o <<"do">> \o Block(x[3]) \o <<"end">>
       [] t = "repeat" -> <<"repeat">> \o Block(x[2]) \o <<"until">> \o Text(x[3])
       [] t = "for" -> <<"for", x[2], "=">> \o List(x[3]) \o <<"do">> \o Block(x[4]) \o <<"end">>
       [] t = "forin" -> <<"for">> \o Names(x[2]) \o <<"in">> \o List(x[3]) \o <<"do">>
                         \o Block(x[4]) \o <<"end">>
       [] t = "break" -> <<"break">>
       [] t = "block" -> <<"do">> \o Block(x[2]) \o <<"end">>

----------------------------------------------------------------------------
\* st: env (name -> place), mem (place -> value), va (the extra arguments),
\* tb, fn, out, and err (<<>>, or the error that is being raised)

First(vs) == IF vs = <<>> THEN NilV ELSE vs[1]
Raise(st, kind) == [st |-> [st EXCEPT !.err = Str(kind)], vs |-> <<>>]
Val(st, v) == [st |-> st, vs |-> <<v>>]
Declare(st, names, vs) ==
  FoldLeft(LAMBDA s, i : [s EXCEPT !.mem = Append(@, IF i <= Len(vs) THEN vs[i] ELSE NilV),
                                   !.env = (names[i] :> Len(s.mem) + 1) @@ @],
           st, [i \in DOMAIN names |-> i])
GetField(st, t, k) == IF k \in DOMAIN st.tb[t].map THEN st.tb[t].map[k] ELSE NilV
MetaOf(st, v, event) ==
  IF v[1] = "table" /\ st.tb[v[2]].meta # 0 THEN GetField(st, st.tb[v[2]].meta, Str(event)) ELSE NilV
TryMeta(st, a, b, event) ==
  IF MetaOf(st, a, event) # NilV THEN MetaOf(st, a, event) ELSE MetaOf(st, b, event)
Same(st, a, b, event) ==
  IF MetaOf(st, a, event) = MetaOf(st, b, event) THEN MetaOf(st, a, event) ELSE NilV
ToNum(v) ==
  IF v[1] = "num" THEN v
  ELSE IF v[1] = "str" /\ v[2] \in DOMAIN Numerals THEN Num(Numerals[v[2]]) ELSE NilV
ToStr(v) == IF v[1] = "num" THEN ToString(v[2]) ELSE v[2]
ArithName == ("+" :> <<"ADD", "__add">>) @@ ("-" :> <<"SUB", "__sub">>) @@ ("*" :> <<"MUL", "__mul">>)
             @@ ("/" :> <<"DIV", "__div">>) @@ ("%" :> <<"MOD", "__mod">>) @@ ("^" :> <<"POW", "__pow">>)

\* a list is a table whose keys are 1..n
Items(st, t) ==
  LET map == st.tb[t[2]].map
  IN [i \in 1 .. Max({j \in 0 .. Cardinality(DOMAIN map) : \A i \in 1..j : Num(i) \in DOMAIN map})
        |-> map[Num(i)]]
WithItems(st, t, xs) ==
  [st EXCEPT !.tb[t[2]].map = [k \in {Num(i) : i \in DOMAIN xs} |-> xs[k[2]]]]

RECURSIVE Ev(_, _), Ev1(_, _), EvList(_, _), Apply(_, _, _), Exec(_, _), ExecBlock(_, _),
          Index(_, _, _), SetIndex(_, _, _, _), While(_, _), Repeat(_, _), ForNum(_, _, _, _, _),
          ForIn(_, _, _, _, _), Ordered(_, _, _, _), TableLib(_, _, _), BaseLib(_, _, _)

\* a list of expressions: only the last one keeps more or less than one value
EvList(st, es) ==
  LET r == FoldLeft(LAMBDA a, i :
                      LET v == Ev(a.st, es[i])
                      IN IF a.st.err # <<>> THEN a
                         ELSE [st |-> v.st, vs |-> a.vs \o (IF i < Len(es) THEN <<First(v.vs)>>
                                                            ELSE v.vs)],
                    [st |-> st, vs |-> <<>>], [i \in DOMAIN es |-> i])
  IN r
Ev1(st, e) == LET r == Ev(st, e) IN [r EXCEPT !.vs = <<First(@)>>]

Bool1(r, neg) == IF r.st.err # <<>> THEN r ELSE Val(r.st, Bool(IsFalse(First(r.vs)) = neg))
One(r) == [r EXCEPT !.vs = <<First(@)>>]
Index(st, t, k) ==
  LET tm == MetaOf(st, t, "__index")
      raw == IF t[1] = "table" THEN GetField(st, t[2], k) ELSE NilV
  IN IF t[1] = "table" /\ (raw # NilV \/ tm = NilV) THEN Val(st, raw)
     ELSE IF tm = NilV THEN Raise(st, "index")
     ELSE IF tm[1] = "table" THEN Index(st, tm, k) ELSE One(Apply(st, tm, <<t, k>>))
SetIndex(st, t, k, v) ==
  LET tm == MetaOf(st, t, "__newindex")
      raw == IF t[1] = "table" THEN GetField(st, t[2], k) ELSE NilV
      Put_(f) == IF v = NilV THEN [x \in DOMAIN f \ {k} |-> f[x]] ELSE (k :> v) @@ f
  IN IF t[1] = "table" /\ k = NilV THEN Raise(st, "index is nil")
     ELSE IF t[1] = "table" /\ (raw # NilV \/ tm = NilV)
     THEN [st |-> [st EXCEPT !.tb[t[2]].map = Put_(@)], vs |-> <<>>]
     ELSE IF tm = NilV THEN Raise(st, "index")
     ELSE IF tm[1] = "table" THEN SetIndex(st, tm, k, v) ELSE Apply(st, tm, <<t, k, v>>)

BinOp(st, op, a, b) ==
  LET x == ToNum(a)
      y == ToNum(b)
      Or(tm, kind) == IF tm = NilV THEN Raise(st, kind) ELSE One(Apply(st, tm, <<a, b>>))
      kinds == a[1] = "num" /\ b[1] = "num"
      eq == Same(st, a, b, "__eq")
      lt == Same(st, a, b, "__lt")
      le == Same(st, a, b, "__le")
  IN CASE op \in DOMAIN ArithName ->
            IF x # NilV /\ y # NilV THEN Val(st, Num(luai_arith(ArithName[op][1], x[2], y[2])))
            ELSE Or(TryMeta(st, a, b, ArithName[op][2]), "arithmetic")
       [] op = ".." -> IF {a[1], b[1]} \subseteq {"num", "str"} THEN Val(st, Str(ToStr(a) \o ToStr(b)))
                       ELSE Or(TryMeta(st, a, b, "__concat"), "concatenate")
       [] op = "==" -> IF a = b \/ eq = NilV THEN Val(st, Bool(a = b))
                       ELSE Bool1(Apply(st, eq, <<a, b>>), FALSE)
       [] op = "<" -> IF kinds THEN Val(st, Bool(a[2] < b[2]))
                      ELSE IF lt = NilV THEN Raise(st, "compare")
                      ELSE Bool1(Apply(st, lt, <<a, b>>), FALSE)
       [] op = "<=" -> IF kinds THEN Val(st, Bool(a[2] <= b[2]))
                       ELSE IF le # NilV THEN Bool1(Apply(st, le, <<a, b>>), FALSE)
                       ELSE IF lt # NilV THEN Bool1(Apply(st, lt, <<b, a>>), TRUE)
                       ELSE Raise(st, "compare")
UnOp(st, op, a) ==
  LET x == ToNum(a)
      tm == MetaOf(st, a, "__unm")
      n == CHOOSE i \in 0..10 : i + 1 = 11 \/ (Num(i + 1) \notin DOMAIN st.tb[a[2]].map
             /\ \A j \in 1..i : Num(j) \in DOMAIN st.tb[a[2]].map)
  IN CASE op = "not" -> Val(st, Bool(IsFalse(a)))
       [] op = "-" -> IF x # NilV THEN Val(st, Num(-x[2]))
                      ELSE IF tm = NilV THEN Raise(st, "arithmetic") ELSE One(Apply(st, tm, <<a, a>>))
       [] op = "#" -> IF a[1] = "str" THEN Val(st, Num(Len(a[2])))
                      ELSE IF a[1] = "table" THEN Val(st, Num(n)) ELSE Raise(st, "get length of")

\* a > b is b < a, evaluated in the order it is written
Ev(st, e) ==
  LET t == e[1]
      a == Ev1(st, e[3])
      b == Ev1(a.st, e[4])
      swap == e[2] \in {">", ">="}
      o == Ev1(st, e[2])
      k == Ev1(o.st, e[3])
      args == EvList(o.st, e[3])
      f == Index(o.st, o.vs[1], Str(e[3]))
      margs == EvList(f.st, e[4])
      r == BinOp(b.st, IF e[2] = ">" THEN "<" ELSE IF e[2] = ">=" THEN "<=" ELSE "==", b.vs[1], a.vs[1])
  IN IF st.err # <<>> THEN [st |-> st, vs |-> <<>>]
     ELSE CASE t = "const" -> Val(st, TokenValue(e[2]))
       [] t = "var" -> IF e[2] \in DOMAIN st.env THEN Val(st, st.mem[st.env[e[2]]])
                       ELSE Index(st, <<"table", 1>>, Str(e[2]))
       [] t = "..." -> [st |-> st, vs |-> st.va]
       [] t = "paren" -> Ev1(st, e[2])
       [] t = "un" -> IF a.st.err # <<>> THEN a ELSE UnOp(a.st, e[2], a.vs[1])
       [] t = "bin" /\ e[2] \in {"and", "or"} ->
            IF a.st.err # <<>> \/ IsFalse(a.vs[1]) = (e[2] = "and") THEN a ELSE b
       [] t = "bin" /\ e[2] \notin {"and", "or"} ->
            IF b.st.err # <<>> THEN b
            ELSE IF swap THEN r
            ELSE IF e[2] = "~=" THEN Bool1(BinOp(b.st, "==", a.vs[1], b.vs[1]), TRUE)
            ELSE BinOp(b.st, e[2], a.vs[1], b.vs[1])
       [] t = "index" -> IF k.st.err # <<>> THEN k ELSE Index(k.st, o.vs[1], k.vs[1])
       [] t = "dot" -> IF o.st.err # <<>> THEN o ELSE Index(o.st, o.vs[1], Str(e[3]))
       [] t = "call" -> IF args.st.err # <<>> THEN args ELSE Apply(args.st, o.vs[1], args.vs)
       [] t = "method" -> IF f.st.err # <<>> THEN f
                          ELSE IF margs.st.err # <<>> THEN margs
                          ELSE Apply(margs.st, f.vs[1], o.vs \o margs.vs)
       [] t = "function" ->
            Val([st EXCEPT !.fn = Append(@, [e |-> e, env |-> st.env])], <<"func", Len(st.fn) + 1>>)
       [] t = "table" ->
            LET id == Len(st.tb) + 1
                new == [st EXCEPT !.tb = Append(@, [map |-> << >>, meta |-> 0])]
                Put_(s, key, v) == SetIndex(s, <<"table", id>>, key, v).st
                Item(c, i) ==
                  LET x == e[2][i]
                      key == Ev1(c.s, x[2])
                      rv == Ev1(key.st, x[3])
                      vs == IF i = Len(e[2]) THEN Ev(c.s, x) ELSE Ev1(c.s, x)
                  IN IF c.s.err # <<>> THEN c
                     ELSE IF x[1] = "rec"
                     THEN [c EXCEPT !.s = IF rv.st.err # <<>> THEN rv.st
                                          ELSE Put_(rv.st, key.vs[1], rv.vs[1])]
                     ELSE [s |-> FoldLeft(LAMBDA s, j : IF vs.vs[j] = NilV THEN s
                                                        ELSE Put_(s, Num(c.n + j), vs.vs[j]),
                                          vs.st, [j \in DOMAIN vs.vs |-> j]),
                           n |-> c.n + Len(vs.vs)]
                end == FoldLeft(Item, [s |-> new, n |-> 0], [i \in DOMAIN e[2] |-> i])
            IN Val(end.s, <<"table", id>>)

\* a call: the body runs in the environment of the definition
Apply(st, f, args) ==
  LET c == st.fn[f[2]]
      named == SelectSeq(c.e[2], LAMBDA n : n # "...")
      in == Declare([st EXCEPT !.env = c.env,
                               !.va = IF Contains(c.e[2], "...")
                                      THEN SubSeq(args, Len(named) + 1, Len(args)) ELSE <<>>],
                    named, args)
      r == ExecBlock(in, c.e[3])
      Back(s) == [s EXCEPT !.err = <<>>, !.env = st.env, !.va = st.va]
      p == Apply(st, args[1], Tail(args))
      x == Apply(st, args[1], <<>>)
      h == IF args[2][1] \in {"func", "cfn"} THEN Apply(Back(x.st), args[2], <<x.st.err>>) ELSE x
      tm == MetaOf(st, f, "__call")
      i == Num(args[2][2] + 1)
  IN CASE f[1] = "func" ->
            [st |-> [r.st EXCEPT !.env = st.env, !.va = st.va], vs |-> r.vs]
       [] f[1] # "func" /\ f[1] # "cfn" ->
            IF tm = NilV THEN Raise(st, "call error") ELSE Apply(st, tm, <<f>> \o args)
       [] f = <<"cfn", "print">> -> [st |-> [st EXCEPT !.out = @ \o args], vs |-> <<>>]
       [] f = <<"cfn", "error">> -> [st |-> [st EXCEPT !.err = First(args)], vs |-> <<>>]
       [] f = <<"cfn", "pcall">> ->
            IF p.st.err = <<>> THEN [p EXCEPT !.vs = <<Bool(TRUE)>> \o @]
            ELSE [st |-> Back(p.st), vs |-> <<Bool(FALSE), p.st.err>>]
       [] f = <<"cfn", "xpcall">> ->
            IF x.st.err = <<>> THEN [x EXCEPT !.vs = <<Bool(TRUE)>> \o @]
            ELSE [st |-> Back(h.st), vs |-> <<Bool(FALSE), IF h.st.err = <<>> THEN First(h.vs)
                                                          ELSE Str("error in error handling")>>]
       [] f = <<"cfn", "ipairs">> -> [st |-> st, vs |-> <<<<"cfn", "ipairsaux">>, args[1], Num(0)>>]
       [] f = <<"cfn", "ipairsaux">> ->
            [st |-> st, vs |-> IF GetField(st, args[1][2], i) = NilV THEN <<>>
                               ELSE <<i, GetField(st, args[1][2], i)>>]
       [] OTHER -> IF f[2] \in {"assert", "select", "rawequal", "getmetatable"} THEN BaseLib(st, f[2], args)
                   ELSE IF args = <<>> \/ args[1][1] # "table" THEN Raise(st, "table expected")
                   ELSE IF f[2] \in {"setmetatable", "rawget", "rawset", "unpack"} THEN BaseLib(st, f[2], args)
                   ELSE TableLib(st, f[2], args)

\* functions of the basic library
BaseLib(st, name, args) ==
  LET a == args[1]
      meta == MetaOf(st, a, "__metatable")
      n == ToNum(a)[2]
      raw(k, v) == IF v = NilV THEN [x \in DOMAIN st.tb[a[2]].map \ {k} |-> st.tb[a[2]].map[x]]
                   ELSE (k :> v) @@ st.tb[a[2]].map
  IN CASE name = "setmetatable" ->
            IF Len(args) < 2 \/ args[2][1] \notin {"nil", "table"} THEN Raise(st, "nil or table expected")
            ELSE IF meta # NilV THEN Raise(st, "cannot change a protected metatable")
            ELSE Val([st EXCEPT !.tb[a[2]].meta = IF args[2] = NilV THEN 0 ELSE args[2][2]], a)
       [] name = "getmetatable" ->
            Val(st, IF meta # NilV THEN meta
                    ELSE IF a[1] = "table" /\ st.tb[a[2]].meta # 0 THEN <<"table", st.tb[a[2]].meta>> ELSE NilV)
       [] name = "rawequal" -> Val(st, Bool(a = args[2]))
       [] name = "rawget" -> Val(st, GetField(st, a[2], args[2]))
       [] name = "rawset" -> IF args[2] = NilV THEN Raise(st, "index is nil")
                             ELSE Val([st EXCEPT !.tb[a[2]].map = raw(args[2], args[3])], a)
       [] name = "assert" ->
            IF args = <<>> THEN Raise(st, "value expected")
            ELSE IF ~IsFalse(a) THEN [st |-> st, vs |-> args]
            ELSE Raise(st, IF Len(args) = 1 THEN "assertion failed!" ELSE args[2][2])
       [] name = "unpack" ->
            [st |-> st, vs |-> IF Len(args) = 1 THEN Items(st, a)
                               ELSE [i \in 1 .. args[3][2] - args[2][2] + 1 |->
                                       GetField(st, a[2], Num(args[2][2] + i - 1))]]
       [] name = "select" ->
            IF a = Str("#") THEN Val(st, Num(Len(args) - 1))
            ELSE IF n > 0 THEN [st |-> st, vs |-> SubSeq(args, n + 1, Len(args))]
            ELSE IF n = 0 \/ -n > Len(args) - 1 THEN Raise(st, "index out of range")
            ELSE [st |-> st, vs |-> SubSeq(args, Len(args) + n + 1, Len(args))]
\* the table library on lists
TableLib(st, name, args) ==
  LET t == args[1]
      xs == Items(st, t)
      n == Len(xs)
      Opt(i, default) == IF i > Len(args) THEN default ELSE args[i][2]
      Nothing(s) == [st |-> s, vs |-> <<>>]
      part == SubSeq(xs, Opt(3, 1), Opt(4, n))
      sep == IF Len(args) = 1 THEN "" ELSE ToStr(args[2])
      each == FoldLeft(LAMBDA r, i : IF r.st.err # <<>> \/ First(r.vs) # NilV THEN r
                                     ELSE Apply(r.st, args[2], <<Num(i), xs[i]>>),
                       Nothing(st), [i \in DOMAIN xs |-> i])
      sorted == FoldLeft(LAMBDA r, x : IF r.st.err # <<>> THEN r
                                       ELSE Ordered(r.st, r.vs, x, IF Len(args) = 1 THEN NilV ELSE args[2]),
                         Nothing(st), xs)
  IN CASE name = "getn" -> Val(st, Num(n))
       [] name = "maxn" -> Val(st, Num(Max({k[2] : k \in {q \in DOMAIN st.tb[t[2]].map : q[1] = "num"}} \cup {0})))
       [] name = "setn" -> Raise(st, "'setn' is obsolete")
       [] name = "tinsert" ->
            Nothing(WithItems(st, t, IF Len(args) = 2 THEN Append(xs, args[2])
                                     ELSE InsertAt(xs, args[2][2], args[3])))
       [] name = "tremove" ->
            IF n = 0 THEN Nothing(st)
            ELSE [st |-> WithItems(st, t, RemoveAt(xs, Opt(2, n))), vs |-> <<xs[Opt(2, n)]>>]
       [] name = "tconcat" ->
            IF \E i \in DOMAIN part : part[i][1] \notin {"num", "str"}
            THEN Raise(st, "table contains non-strings")
            ELSE Val(st, Str(FoldLeft(LAMBDA s, i : s \o (IF i = 1 THEN "" ELSE sep) \o ToStr(part[i]),
                                      "", [i \in DOMAIN part |-> i])))
       [] name = "foreachi" -> [each EXCEPT !.vs = IF First(@) = NilV THEN <<>> ELSE <<First(@)>>]
       [] name = "sort" -> IF sorted.st.err # <<>> THEN sorted
                           ELSE Nothing(WithItems(sorted.st, t, sorted.vs))
\* x in its place in the ordered sequence vs
Ordered(st, vs, x, order) ==
  LET less == IF order = NilV THEN BinOp(st, "<", x, Last(vs)) ELSE Apply(st, order, <<x, Last(vs)>>)
      r == Ordered(less.st, Front(vs), x, order)
  IN IF vs = <<>> THEN [st |-> st, vs |-> <<x>>]
     ELSE IF less.st.err # <<>> THEN less
     ELSE IF IsFalse(First(less.vs)) THEN [st |-> less.st, vs |-> Append(vs, x)]
     ELSE [r EXCEPT !.vs = Append(@, Last(vs))]

\* statements: ctl says how they end
End(st) == [st |-> st, ctl |-> IF st.err = <<>> THEN "next" ELSE "error", vs |-> <<>>]
ExecBlock(st, b) ==
  LET r == FoldLeft(LAMBDA a, s : IF a.ctl = "next" THEN Exec(a.st, s) ELSE a, End(st), b)
  IN [r EXCEPT !.st.env = st.env]
After(r, next) == IF r.ctl = "break" THEN End(r.st) ELSE IF r.ctl # "next" THEN r ELSE next

While(st, s) ==
  LET c == Ev1(st, s[2])
      r == ExecBlock(c.st, s[3])
  IN IF c.st.err # <<>> \/ IsFalse(c.vs[1]) THEN End(c.st) ELSE After(r, While(r.st, s))
Repeat(st, s) ==               \* the condition sees the locals of the body
  LET r == FoldLeft(LAMBDA a, x : IF a.ctl = "next" THEN Exec(a.st, x) ELSE a, End(st), s[2])
      c == Ev1(r.st, s[3])
      out == [c.st EXCEPT !.env = st.env]
  IN After([r EXCEPT !.st.env = IF r.ctl = "next" THEN @ ELSE st.env],
           IF c.st.err # <<>> \/ ~IsFalse(c.vs[1]) THEN End(out) ELSE Repeat(out, s))
ForNum(st, s, i, limit, step) ==
  LET r == ExecBlock(Declare(st, <<s[2]>>, <<Num(i)>>), s[4])
      done == [r EXCEPT !.st.env = st.env]
  IN IF (IF step > 0 THEN i > limit ELSE i < limit) THEN End(st)
     ELSE After(done, ForNum(done.st, s, i + step, limit, step))
ForIn(st, s, f, state, control) ==
  LET c == Apply(st, f, <<state, control>>)
      r == ExecBlock(Declare(c.st, s[2], c.vs), s[4])
      done == [r EXCEPT !.st.env = st.env]
  IN IF c.st.err # <<>> \/ First(c.vs) = NilV THEN End(c.st)
     ELSE After(done, ForIn(done.st, s, f, state, c.vs[1]))

\* the tables, keys and names on the left are known before anything is stored
Places(st, lhs) ==
  FoldLeft(LAMBDA a, x :
             LET o == Ev1(a.st, x[2])
                 k == Ev1(o.st, x[3])
             IN CASE x[1] = "var" -> [a EXCEPT !.ps = Append(@, <<"var", x[2]>>)]
                  [] x[1] = "index" -> [st |-> k.st, ps |-> Append(a.ps, <<"at", o.vs[1], k.vs[1]>>)]
                  [] x[1] = "dot" -> [st |-> o.st, ps |-> Append(a.ps, <<"at", o.vs[1], Str(x[3])>>)],
           [st |-> st, ps |-> <<>>], lhs)
Store(st, p, v) ==
  IF st.err # <<>> THEN st
  ELSE IF p[1] = "at" THEN SetIndex(st, p[2], p[3], v).st
  ELSE IF p[2] \in DOMAIN st.env THEN [st EXCEPT !.mem[st.env[p[2]]] = v]
  ELSE SetIndex(st, <<"table", 1>>, Str(p[2]), v).st

Exec(st, s) ==
  LET t == s[1]
      vs == EvList(st, s[3])
      pl == Places(st, s[2])
      as == EvList(pl.st, s[3])
      Stored == FoldLeft(LAMBDA x, i : Store(x, pl.ps[i], IF i <= Len(as.vs) THEN as.vs[i] ELSE NilV),
                         as.st, Reverse([i \in DOMAIN pl.ps |-> i]))
      c == Ev1(st, s[2])
      rt == EvList(st, s[2])
      n == [i \in 1..3 |-> IF i <= Len(vs.vs) THEN ToNum(vs.vs[i]) ELSE Num(1)]
      g == [i \in 1..3 |-> IF i <= Len(vs.vs) THEN vs.vs[i] ELSE NilV]
  IN CASE t = "local" -> End(IF vs.st.err # <<>> THEN vs.st ELSE Declare(vs.st, s[2], vs.vs))
       [] t = "set" -> End(IF as.st.err # <<>> THEN as.st ELSE Stored)
       [] t = "do" -> End(Ev(st, s[2]).st)
       [] t = "return" -> IF rt.st.err # <<>> THEN End(rt.st)
                          ELSE [st |-> rt.st, ctl |-> "return", vs |-> rt.vs]
       [] t = "if" -> IF c.st.err # <<>> THEN End(c.st)
                      ELSE ExecBlock(c.st, IF IsFalse(c.vs[1]) THEN s[4] ELSE s[3])
       [] t = "while" -> While(st, s)
       [] t = "repeat" -> Repeat(st, s)
       [] t = "break" -> [st |-> st, ctl |-> "break", vs |-> <<>>]
       [] t = "block" -> ExecBlock(st, s[2])
       [] t = "for" -> IF vs.st.err # <<>> THEN End(vs.st)
                       ELSE IF \E i \in 1..3 : n[i] = NilV THEN End(Raise(vs.st, "for").st)
                       ELSE ForNum(vs.st, s, n[1][2], n[2][2], n[3][2])
       [] t = "forin" -> IF vs.st.err # <<>> THEN End(vs.st) ELSE ForIn(vs.st, s, g[1], g[2], g[3])

\* how the chunk ends, and what it has printed
MeaningOf(body, lib) ==
  LET r == ExecBlock([env |-> << >>, mem |-> <<>>, va |-> <<>>, tb |-> lib, fn |-> <<>>,
                      out |-> <<>>, err |-> <<>>], body)
  IN [halt |-> IF r.st.err = <<>> THEN <<"ok", r.vs>> ELSE <<"error", r.st.err>>,
      out |-> r.st.out]
=============================================================================
