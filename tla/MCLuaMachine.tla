---------------------------- MODULE MCLuaMachine ----------------------------
EXTENDS LuaMachine

MCNumerals == [n \in {"0", "1", "2", "3", "4", "5", "10"} |->
  CASE n = "0" -> 0 [] n = "1" -> 1 [] n = "2" -> 2 [] n = "3" -> 3 [] n = "4" -> 4
    [] n = "5" -> 5 [] n = "10" -> 10]
MCStrings == ("'s'" :> "s") @@ ("'10'" :> "10") @@ ("''" :> "") @@ ("'#'" :> "#")
  @@ [e \in {"__index", "__newindex", "__add", "__concat", "__eq", "__lt", "__le", "__call", "__unm", "__metatable"} |-> e]

\* the globals the host registers, and the coroutine and table libraries
MCLibrary ==
  LET Fns(names) == [v \in {Str(n) : n \in names} |-> <<"cfn", v[2]>>]
  IN <<[map |-> Fns({"print", "error", "pcall", "xpcall", "ipairs"} \cup
            {"setmetatable", "getmetatable", "rawequal", "rawget", "rawset", "assert", "select", "unpack"})
               @@ (Str("coroutine") :> <<"table", 2>>) @@ (Str("table") :> <<"table", 3>>), meta |-> 0],
       [map |-> Fns({"create", "resume", "yield", "wrap", "status"}), meta |-> 0],
       [map |-> Fns({"foreachi", "getn", "maxn", "setn", "sort"})
               @@ (Str("insert") :> <<"cfn", "tinsert">>) @@ (Str("remove") :> <<"cfn", "tremove">>)
               @@ (Str("concat") :> <<"cfn", "tconcat">>), meta |-> 0]>>

P == INSTANCE LuaPrograms
MCSource == [c \in P!Chunks |-> P!ChunkText(c)]

\* Every program comes to an end (loops finish; endless recursion of functions,
\* metamethods or metatables is stopped by a limit), and what it has done is
\* what its tree means: the compiler's one pass, its
\* jump lists and register allocation, and the machine's frames and upvalues
\* together yield the results, the output and the errors of LuaMeaning (for a
\* text, those the manual gives).  A precompiled chunk does the same; a part
\* of one is refused.  The programs leave out what the compiler is known to get
\* wrong: an operand of and and or that is the constant false or true and jumps
\* without its value (lcode.c:587, 615), and the unary minus of a constant that is
\* no number or string (lcode.c:742).
Computed ==
  /\ Halted
  /\ [halt |-> m.halt, out |-> IF unit.err = "" THEN m.out ELSE <<>>]
       = IF form = "cut" THEN [halt |-> <<"syntax error">>, out |-> <<>>]
         ELSE P!Outcome(chunkid, Library)
Meaning == <>Computed
=============================================================================
