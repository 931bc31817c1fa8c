------------------------------ MODULE StrFormat ------------------------------
(***************************************************************************)
(* string.format of lstrlib.c on top of sprintf: a script's format is cut    *)
(* into directives, each of which is checked, given a length modifier if it  *)
(* is for an integer, and passed to sprintf with a buffer on the stack.  C   *)
(* code calls the printf family directly.                                    *)
(***************************************************************************)
EXTENDS Printf

CONSTANTS LuaFormats,          \* formats scripts use
          LONG                 \* 100: strings that long are not passed on

ASSUME LuaFormatsAssumption == LuaFormats \subseteq Seq(STRING)

VARIABLE lua                   \* the format, the position in it and what was added; on?

NoScript == [on |-> FALSE, fmt |-> <<>>, p |-> 1, b |-> <<>>]
allVars == <<vars, lua>>

FLAGS == {"-", "+", " ", "#", "0"}
MAXFLAGS == 5
L_ESC == "%"
LuaChar(i) == IF i \in DOMAIN lua.fmt THEN lua.fmt[i] ELSE "NUL"
\* up to two digits
Passed(i) ==
  IF LuaChar(i) \notin DigitChars THEN i ELSE IF LuaChar(i + 1) \in DigitChars THEN i + 2 ELSE i + 1

\* the directive at i, behind the percent sign: where its letter is, or an error
scanformat(i) ==
  LET f == CHOOSE j \in i .. Len(lua.fmt) + 1 :
             LuaChar(j) \notin FLAGS /\ \A k \in i .. j - 1 : LuaChar(k) \in FLAGS
      w == Passed(f)
      d == IF LuaChar(w) = "." THEN Passed(w + 1) ELSE w
  IN IF f - i > MAXFLAGS \/ LuaChar(d) \in DigitChars THEN NONE ELSE d

addintlen(form) == Front(form) \o <<"l">> \o <<Last(form)>>
IntOptions == {"d", "i", "o", "u", "x", "X"}
FloatOptions == {"e", "E", "f", "g", "G"}

LuaInit == Init /\ lua = NoScript

Formats_ ==                    \* a script calls string.format
  /\ pc = "idle" /\ ~lua.on
  /\ \E f \in LuaFormats : lua' = [NoScript EXCEPT !.on = TRUE, !.fmt = f]
  /\ UNCHANGED vars

Scanning == pc = "idle" /\ lua.on /\ lua.p <= Len(lua.fmt)
Escape == LuaChar(lua.p) = L_ESC /\ LuaChar(lua.p + 1) # L_ESC
AddChar ==
  /\ Scanning /\ ~Escape
  /\ lua' = [lua EXCEPT !.b = Append(@, LuaChar(lua.p)), !.p = @ + IF LuaChar(lua.p) = L_ESC THEN 2 ELSE 1]
  /\ UNCHANGED vars

Letter == scanformat(lua.p + 1)
Form == SubSeq(lua.fmt, lua.p, Letter)
Options == IntOptions \cup FloatOptions \cup {"c", "q", "s"}
\* luaL_error, for a format that is not understood or an argument of the wrong type
Error ==
  /\ Scanning /\ Escape
  /\ lua' = NoScript
  /\ UNCHANGED vars
\* a string in quotes, or one that is long and has no precision
AddString ==
  /\ Scanning /\ Escape /\ Letter # NONE
  /\ \/ /\ LuaChar(Letter) = "q"
        /\ \E s \in Texts : lua' = [lua EXCEPT !.b = @ \o <<"Q">> \o s \o <<"Q">>, !.p = Letter + 1]
     \/ /\ LuaChar(Letter) = "s" /\ ~Contains(Form, ".")
        /\ \E s \in Texts : Len(s) >= LONG /\ lua' = [lua EXCEPT !.b = @ \o s, !.p = Letter + 1]
  /\ UNCHANGED vars
AddItem ==
  /\ Scanning /\ Escape /\ Letter # NONE
  /\ LuaChar(Letter) \in Options \ {"q"}
  /\ Begins([f |-> "str_format", size |-> 0,
             strings |-> {s \in Texts : Contains(Form, ".") \/ Len(s) < LONG}],
            IF LuaChar(Letter) \in IntOptions THEN addintlen(Form) ELSE Form)
  /\ lua' = [lua EXCEPT !.p = Letter + 1]

\* What sprintf left in the buffer is added: what was there before, if it failed.
JUNK == "JUNK"
Buff == IF got.rc = 0 THEN got.text ELSE <<JUNK>>
Added ==
  /\ pc = "end" /\ call.f = "str_format"
  /\ lua' = [lua EXCEPT !.b = @ \o Buff]
  /\ Done
Finished ==
  /\ pc = "end" /\ call.f # "str_format"
  /\ Done
  /\ UNCHANGED lua
PushResult ==
  /\ pc = "idle" /\ lua.on /\ lua.p > Len(lua.fmt)
  /\ lua' = NoScript
  /\ UNCHANGED vars

Next ==
  \/ /\ ~lua.on /\ CallsC /\ UNCHANGED lua
  \/ /\ Verbatim \/ ItemFails \/ Unsupported \/ Refused \/ Taken \/ Counted
        \/ Allocate \/ WriteItem \/ WriteRest \/ Release \/ Return
     /\ UNCHANGED lua
  \/ Formats_ \/ AddChar \/ Error \/ AddString \/ AddItem \/ Added \/ Finished \/ PushResult
Spec == LuaInit /\ [][Next]_allVars
----------------------------------------------------------------------------
\* What string.format lets through, formatted_write understands, but for a
\* precision that begins with a zero.
FormsAccepted ==
  call.f = "str_format" /\ AtDirective /\ ~Directive(p + 1).known
    => \E i \in 2 .. Len(fmt) - 1 : fmt[i - 1] = "." /\ fmt[i] = "0"

\* The two walks over a format agree, and what they make of it is what the C
\* library makes, for C code and for scripts.
Formatted == RoomCounted /\ TextRight /\ FormsAccepted
=============================================================================
