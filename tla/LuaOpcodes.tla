----------------------------- MODULE LuaOpcodes -----------------------------
(***************************************************************************)
(* The instruction set of the Lua 5.1.2 virtual machine (lopcodes.h/.c) and *)
(* the arithmetic (luaconf.h) shared by the constant folder and by the      *)
(* machine.  An instruction is a record; a Bx or sBx argument is in B.      *)
(* A Lua value is a tagged tuple: <<"nil">>, <<"bool", b>>, <<"num", n>>,   *)
(* <<"str", s>>, <<"table", id>>, <<"func", id>>, <<"cfn", name>>,          *)
(* <<"thread", id>>.  Numbers are the integers.                             *)
(***************************************************************************)
EXTENDS Integers, Sequences

CONSTANTS MAXINDEXRK,          \* greatest constant index an RK operand holds
          MAXSTACK,            \* limit of the registers of a function
          LUAI_MAXVARS,        \* limit of the active local variables
          LUAI_MAXUPVALUES,    \* limit of the upvalues of a function
          LUAI_MAXCCALLS,      \* limit of the nesting of the parser
          LFIELDS_PER_FLUSH,   \* list items stored by one OP_SETLIST
          Numerals             \* [numeral -> number]

ASSUME LimitsAssumption ==
  /\ MAXINDEXRK \in 0..255 /\ MAXSTACK \in 3..250
  /\ LUAI_MAXVARS \in 1..200 /\ LUAI_MAXUPVALUES \in 1..255
  /\ LUAI_MAXCCALLS \in Nat \ {0} /\ LFIELDS_PER_FLUSH \in Nat \ {0}

NO_JUMP == -1
NO_REG == 255                  \* MAXARG_A: no register for the value
BITRK == 256

\* <<is a test, sets register A, argument B, argument C, format>>
luaP_opmodes ==
  [MOVE     |-> <<0, 1, "R", "N", "ABC">>, LOADK    |-> <<0, 1, "K", "N", "ABx">>,
   LOADBOOL |-> <<0, 1, "U", "U", "ABC">>, LOADNIL  |-> <<0, 1, "R", "N", "ABC">>,
   GETUPVAL |-> <<0, 1, "U", "N", "ABC">>, GETGLOBAL|-> <<0, 1, "K", "N", "ABx">>,
   GETTABLE |-> <<0, 1, "R", "K", "ABC">>, SETGLOBAL|-> <<0, 0, "K", "N", "ABx">>,
   SETUPVAL |-> <<0, 0, "U", "N", "ABC">>, SETTABLE |-> <<0, 0, "K", "K", "ABC">>,
   NEWTABLE |-> <<0, 1, "U", "U", "ABC">>, SELF     |-> <<0, 1, "R", "K", "ABC">>,
   ADD      |-> <<0, 1, "K", "K", "ABC">>, SUB      |-> <<0, 1, "K", "K", "ABC">>,
   MUL      |-> <<0, 1, "K", "K", "ABC">>, DIV      |-> <<0, 1, "K", "K", "ABC">>,
   MOD      |-> <<0, 1, "K", "K", "ABC">>, POW      |-> <<0, 1, "K", "K", "ABC">>,
   UNM      |-> <<0, 1, "R", "N", "ABC">>, NOT      |-> <<0, 1, "R", "N", "ABC">>,
   LEN      |-> <<0, 1, "R", "N", "ABC">>, CONCAT   |-> <<0, 1, "R", "R", "ABC">>,
   JMP      |-> <<0, 0, "R", "N", "AsBx">>,EQ       |-> <<1, 0, "K", "K", "ABC">>,
   LT       |-> <<1, 0, "K", "K", "ABC">>, LE       |-> <<1, 0, "K", "K", "ABC">>,
   TEST     |-> <<1, 1, "R", "U", "ABC">>, TESTSET  |-> <<1, 1, "R", "U", "ABC">>,
   CALL     |-> <<0, 1, "U", "U", "ABC">>, TAILCALL |-> <<0, 1, "U", "U", "ABC">>,
   RETURN   |-> <<0, 0, "U", "N", "ABC">>, FORLOOP  |-> <<0, 1, "R", "N", "AsBx">>,
   FORPREP  |-> <<0, 1, "R", "N", "AsBx">>,TFORLOOP |-> <<1, 0, "N", "U", "ABC">>,
   SETLIST  |-> <<0, 0, "U", "U", "ABC">>, CLOSE    |-> <<0, 0, "N", "N", "ABC">>,
   CLOSURE  |-> <<0, 1, "U", "N", "ABx">>, VARARG   |-> <<0, 1, "U", "N", "ABC">>]

testTMode(op) == luaP_opmodes[op][1] = 1
testAMode(op) == luaP_opmodes[op][2] = 1
getBMode(op)  == luaP_opmodes[op][3]
getCMode(op)  == luaP_opmodes[op][4]
getOpMode(op) == luaP_opmodes[op][5]

Instr(op, a, b, c) == [op |-> op, A |-> a, B |-> b, C |-> c]
ISK(x) == x >= BITRK
RKASK(x) == x + BITRK

NilV == <<"nil">>
Bool(b) == <<"bool", b>>
Num(n) == <<"num", n>>
Str(s) == <<"str", s>>
IsFalse(v) == v = NilV \/ v = Bool(FALSE)

\* Division and remainder round toward minus infinity, as luai_nummod does;
\* a quotient is only asked of operands that divide exactly.
FloorDiv(a, b) == IF b > 0 THEN a \div b ELSE (-a) \div (-b)
luai_arith(op, a, b) ==
  CASE op = "ADD" -> a + b
    [] op = "SUB" -> a - b
    [] op = "MUL" -> a * b
    [] op = "DIV" -> FloorDiv(a, b)
    [] op = "MOD" -> a - FloorDiv(a, b) * b
    [] op = "POW" -> a ^ b
    [] op = "UNM" -> -a
=============================================================================
