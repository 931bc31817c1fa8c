----------------------------- MODULE LuaCheck -------------------------------
(***************************************************************************)
(* The bytecode checker of Lua 5.1.2 (ldebug.c): symbexec over a whole       *)
(* function with reg = NO_REG, which is what luaG_checkcode asks; lparser.c  *)
(* asserts it of every function it closes and lundump.c requires it of       *)
(* every function it loads.                                                  *)
(***************************************************************************)
EXTENDS LuaOpcodes

LOCAL Ins(pt, pc) == pt.code[pc + 1]
LOCAL SizeCode(pt) == Len(pt.code)
checkreg(pt, reg) == reg < pt.maxstacksize

precheck(pt) ==
  /\ pt.maxstacksize <= MAXSTACK
  /\ pt.numparams <= pt.maxstacksize
  /\ Ins(pt, SizeCode(pt) - 1).op = "RETURN"

\* what may follow an instruction that leaves the number of its results open
luaG_checkopenop(i) == i.op \in {"CALL", "TAILCALL", "RETURN", "SETLIST"} /\ i.B = 0

checkArgMode(pt, r, mode) ==
  CASE mode = "N" -> r = 0
    [] mode = "U" -> TRUE
    [] mode = "R" -> checkreg(pt, r)
    [] mode = "K" -> IF ISK(r) THEN r - BITRK < Len(pt.k) ELSE checkreg(pt, r)

checkOperands(pt, pc) ==
  LET i == Ins(pt, pc)
      mode == getOpMode(i.op)
      dest == pc + 1 + i.B
  IN /\ checkreg(pt, i.A)
     /\ mode = "ABC" => /\ checkArgMode(pt, i.B, getBMode(i.op))
                        /\ checkArgMode(pt, i.C, getCMode(i.op))
     /\ mode = "ABx" /\ getBMode(i.op) = "K" => i.B < Len(pt.k)
     /\ mode = "AsBx" =>
          /\ dest \in 0 .. SizeCode(pt) - 1
          /\ dest > 0 => ~(Ins(pt, dest - 1).op = "SETLIST" /\ Ins(pt, dest - 1).C = 0)
     /\ testTMode(i.op) => pc + 2 < SizeCode(pt) /\ Ins(pt, pc + 1).op = "JMP"

checkOpcode(pt, pc) ==
  LET i == Ins(pt, pc)
      open == luaG_checkopenop(Ins(pt, pc + 1))
  IN CASE i.op = "LOADBOOL" -> i.C = 0 \/ pc + 2 < SizeCode(pt)
       [] i.op \in {"GETUPVAL", "SETUPVAL"} -> i.B < Len(pt.upv)
       [] i.op \in {"GETGLOBAL", "SETGLOBAL"} -> pt.k[i.B + 1][1] = "str"
       [] i.op = "SELF" -> checkreg(pt, i.A + 1)
       [] i.op = "CONCAT" -> i.B < i.C
       [] i.op = "TFORLOOP" -> i.C >= 1 /\ checkreg(pt, i.A + 2 + i.C)
       [] i.op \in {"FORLOOP", "FORPREP"} -> checkreg(pt, i.A + 3)
       [] i.op \in {"CALL", "TAILCALL"} ->
            /\ i.B # 0 => checkreg(pt, i.A + i.B - 1)
            /\ IF i.C = 0 THEN open ELSE i.C > 1 => checkreg(pt, i.A + i.C - 2)
       [] i.op = "RETURN" -> i.B > 1 => checkreg(pt, i.A + i.B - 2)
       [] i.op = "SETLIST" -> i.B > 0 => checkreg(pt, i.A + i.B)
       [] i.op = "CLOSURE" ->
            /\ i.B < Len(pt.p)
            /\ LET nup == Len(pt.p[i.B + 1].upv)
               IN /\ pc + nup < SizeCode(pt)
                  /\ \A j \in 1..nup : Ins(pt, pc + j).op \in {"GETUPVAL", "MOVE"}
       [] i.op = "VARARG" -> /\ pt.is_vararg
                             /\ i.B = 0 => open
                             /\ checkreg(pt, i.A + i.B - 2)
       [] OTHER -> TRUE

luaG_checkcode(pt) ==
  /\ precheck(pt)
  /\ \A pc \in 0 .. SizeCode(pt) - 1 : checkOperands(pt, pc) /\ checkOpcode(pt, pc)
=============================================================================
