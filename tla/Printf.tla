------------------------------- MODULE Printf --------------------------------
(***************************************************************************)
(* The printf family of osglue.c.  formatted_write walks over the format     *)
(* twice: it first takes the arguments apart, one list item for a directive, *)
(* and counts the characters to come; then it allocates that many and writes *)
(* them.  The two walks must agree, and every block must go again, whichever *)
(* of the allocations fails.                                                 *)
(*                                                                         *)
(* A character is a string, a format and a text are sequences of them.  The  *)
(* types of the arguments match the format.  All integers have one width, of *)
(* which INT_MAX is half the range.  The digits of a double (contrib/pdouble)*)
(* are external.                                                             *)
(***************************************************************************)
EXTENDS Integers, SequencesExt

CONSTANTS Formats,             \* formats C code uses
          Numbers,             \* values of integer arguments, as unsigned ones
          INT_MAX,
          Texts,               \* strings that are passed
          FloatTexts,          \* texts printDouble gives
          Sizes                \* of buffers for snprintf

ASSUME PrintfAssumption ==
  /\ INT_MAX \in Nat /\ Numbers \subseteq 0 .. 2 * INT_MAX + 1 /\ Sizes \subseteq Nat \ {0}
  /\ Formats \cup Texts \cup FloatTexts \subseteq Seq(STRING)

VARIABLES call,                \* who calls: a function of the family, size, strings it passes
          fmt,
          pc,                  \* idle, count, allocate, write, release, return, end
          p,                   \* the position in the format
          sz,                  \* the count, -1 after an error
          items,               \* poslist
          next,                \* the item to be written
          out,                 \* what was written at *s
          heap,                \* the blocks the call has allocated
          got                  \* what the caller gets: rc and text

vars == <<call, fmt, pc, p, sz, items, next, out, heap, got>>

NONE == -1
Nothing == [rc |-> 0, text |-> <<>>]
NoCall == [f |-> "none", size |-> 0, strings |-> {}]

Init ==
  /\ call = NoCall /\ fmt = <<>> /\ pc = "idle" /\ p = 1 /\ sz = 0 /\ items = <<>>
  /\ next = 1 /\ out = <<>> /\ heap = {} /\ got = Nothing

----------------------------------------------------------------------------
\* A directive

Digit == <<"0", "1", "2", "3", "4", "5", "6", "7", "8", "9", "a", "b", "c", "d", "e", "f">>
DigitChars == {Digit[i] : i \in 1 .. 10}
Char(i) == IF i \in DOMAIN fmt THEN fmt[i] ELSE "NUL"
After(i, S) ==                 \* the first place from i on with a character not in S
  CHOOSE j \in i .. Len(fmt) + 1 : Char(j) \notin S /\ \A k \in i .. j - 1 : Char(k) \in S
DigitValue(c) == CHOOSE d \in 0 .. 9 : Digit[d + 1] = c
Number(i, j) ==
  LET number[k \in i - 1 .. j] == IF k < i THEN 0 ELSE 10 * number[k - 1] + DigitValue(fmt[k])
  IN number[j]

FlagChars == {"#", "0", " ", "+", "-", "'"}
IntModifiers == {<<>>, <<"h", "h">>, <<"h">>, <<"l">>, <<"l", "l">>, <<"q">>, <<"j">>, <<"z">>, <<"t">>}
HexModifiers == {<<>>, <<"h", "h">>, <<"h">>, <<"l">>, <<"l", "l">>}
FloatModifiers == {<<>>, <<"L">>}
Modifier(i) ==
  IF Char(i) \in {"h", "l"} /\ Char(i + 1) = Char(i) THEN <<Char(i), Char(i)>>
  ELSE IF Char(i) \in {"h", "l", "L", "q", "j", "z", "t"} THEN <<Char(i)>> ELSE <<>>

Signed == {"d", "i"}
Hex == {"o", "x", "X"}
Floats == {"e", "E", "f", "F", "g", "G", "a", "A"}
Integer == Signed \cup {"u"} \cup Hex
Known(conv, modifier) ==
  \/ conv \in Signed \cup {"u"} /\ modifier \in IntModifiers
  \/ conv \in Hex \cup {"n"} /\ modifier \in HexModifiers
  \/ conv \in Floats /\ modifier \in FloatModifiers
  \/ conv \in {"c", "s", "p"}

\* what is at i, behind a percent sign; an asterisk is looked at and not passed
Directive(i) ==
  LET w == After(i, FlagChars)
      d == IF Char(w) \in DigitChars THEN After(w, DigitChars) ELSE w
      dot == Char(d) = "."
      minus == dot /\ Char(d + 1) = "-"
      n == IF minus THEN d + 2 ELSE d + 1
      m == IF ~dot THEN d
           ELSE IF Char(n) \in DigitChars \ {"0"} THEN After(n, DigitChars)
           ELSE IF minus THEN Len(fmt) + 1 ELSE n
      c == m + Len(Modifier(m))
  IN [start |-> i - 1, flags |-> {fmt[k] : k \in i .. w - 1},
      width |-> IF d > w THEN Number(w, d - 1) ELSE NONE,
      precision |-> IF ~dot THEN NONE ELSE IF minus THEN 0 ELSE Number(n, m - 1),
      known |-> Known(Char(c), Modifier(m)), conv |-> Char(c), modifier |-> Modifier(m), end |-> c,
      value |-> NONE]
Positional(i) == items = <<>> /\ After(i, DigitChars) > i /\ Char(After(i, DigitChars)) = "$"

----------------------------------------------------------------------------
\* Its text

Larger(a, b) == IF a > b THEN a ELSE b
Lesser(a, b) == IF a < b THEN a ELSE b
Fill(c, n) == [k \in 1 .. n |-> c]
Digits(n, base) ==
  LET D[k \in 0 .. n] ==
        IF k < base THEN <<Digit[k + 1]>> ELSE Append(D[k \div base], Digit[(k % base) + 1])
  IN D[n]
Base(conv) == IF conv = "o" THEN 8 ELSE IF conv \in Hex \cup {"p"} THEN 16 ELSE 10

\* The argument in a long long: hexadecimal and octal ones are taken as signed,
\* and one that is negative then loses its sign; a size_t is never negative.
AsSigned(v) == IF v > INT_MAX THEN v - 2 * (INT_MAX + 1) ELSE v
Abs_(n) == IF n < 0 THEN -n ELSE n
Value(i, v) ==
  IF i.conv \in Signed THEN IF i.modifier = <<"z">> THEN v ELSE AsSigned(v)
  ELSE IF i.conv \in Hex \cup {"p"} \/ i.modifier = <<"l", "l">> THEN Abs_(AsSigned(v)) ELSE v

Sign(i, v) ==
  IF Value(i, v) < 0 THEN <<"-">>
  ELSE IF " " \in i.flags THEN <<" ">> ELSE IF "+" \in i.flags THEN <<"+">> ELSE <<>>
IntNeeded(i, v) ==
  Larger(Larger(Len(Sign(i, v)) + Len(Digits(Abs_(Value(i, v)), Base(i.conv))), i.width), i.precision)
preformat_int_number(i, v) ==
  LET digits == Digits(Abs_(Value(i, v)), Base(i.conv))
      zeros == IF "0" \in i.flags /\ Value(i, v) >= 0
               THEN IntNeeded(i, v) - Len(Sign(i, v)) - Len(digits) ELSE 0
  IN Sign(i, v) \o Fill("0", zeros) \o digits

Preformats(conv) == conv \in Integer \cup Floats \cup {"p"}
Arguments(conv) ==
  IF conv \in Integer \cup {"p"} THEN Numbers
  ELSE IF conv \in Floats THEN FloatTexts
  ELSE IF conv = "s" THEN call.strings
  ELSE IF conv = "c" THEN {"c"} ELSE {"&n"}

\* Mutant: the width of a string is taken for its longest text.
Needed_Width(i, v) ==
  IF i.conv = "s" THEN IF i.width = NONE THEN Len(v) ELSE i.width
  ELSE IF i.conv \in Integer \cup {"p"} THEN IntNeeded(i, v)
  ELSE IF i.conv \in Floats THEN Len(v) ELSE IF i.conv = "c" THEN Larger(1, i.width) ELSE 0
\* the characters a directive is counted for, and those written for it
Needed(i, v) ==
  IF i.conv \in Integer \cup {"p"} THEN IntNeeded(i, v)
  ELSE IF i.conv \in Floats THEN Len(v)
  ELSE IF i.conv = "c" THEN Larger(1, i.width)
  ELSE IF i.conv = "n" THEN 0
  ELSE IF i.precision = NONE THEN Larger(Len(v), i.width)
  ELSE Lesser(Larger(Len(v), i.width), i.precision)
Written(i) ==
  IF i.conv \in Integer \cup {"p"} THEN preformat_int_number(i, i.value)
  ELSE IF i.conv \in Floats THEN i.value
  ELSE IF i.conv = "c" THEN Fill(" ", Larger(0, i.width - 1)) \o <<i.value>>
  ELSE IF i.conv = "n" THEN <<>>
  ELSE LET use == IF i.precision = NONE THEN Len(i.value) ELSE Lesser(Len(i.value), i.precision)
       IN Fill(" ", Larger(0, i.width - use)) \o SubSeq(i.value, 1, use)

----------------------------------------------------------------------------
\* formatted_write: the first walk

Item(i) == <<"item", i>>
Buffer(i) == <<"buffer", i>>
Output == <<"s", 0>>

Begins(c, f) ==
  /\ pc' = "count" /\ call' = c /\ fmt' = f /\ p' = 1 /\ sz' = 0 /\ items' = <<>>
  /\ next' = 1 /\ out' = <<>> /\ heap' = {} /\ got' = Nothing

Fails_ == sz' = -1 /\ pc' = "allocate"

Verbatim ==
  /\ pc = "count" /\ p \in DOMAIN fmt /\ (fmt[p] = "%" => Char(p + 1) = "%")
  /\ sz' = sz + 1
  /\ p' = IF fmt[p] = "%" THEN p + 2 ELSE p + 1
  /\ UNCHANGED <<call, fmt, pc, items, next, out, heap, got>>

AtDirective == pc = "count" /\ Char(p) = "%" /\ Char(p + 1) # "%"
ItemFails ==
  /\ AtDirective
  /\ Fails_
  /\ UNCHANGED <<call, fmt, p, items, next, out, heap, got>>
\* the item is not in the list yet, and is lost
Unsupported ==
  /\ AtDirective /\ Positional(p + 1)
  /\ heap' = heap \cup {Item(p)}
  /\ Fails_
  /\ UNCHANGED <<call, fmt, p, items, next, out, got>>
Refused ==
  /\ AtDirective /\ ~Positional(p + 1) /\ ~Directive(p + 1).known
  /\ Fails_
  /\ UNCHANGED <<call, fmt, p, items, next, out, heap, got>>
Taken ==
  /\ AtDirective /\ ~Positional(p + 1) /\ Directive(p + 1).known
  /\ LET i == Directive(p + 1) IN
       /\ p' = i.end + 1
       /\ \E v \in Arguments(i.conv) :
            /\ items' = Append(items, [i EXCEPT !.value = v])
            /\ \/ /\ sz' = sz + Needed(i, v)
                  /\ heap' = heap \cup {Item(i.start)} \cup (IF Preformats(i.conv) THEN {Buffer(i.start)} ELSE {})
                  /\ UNCHANGED pc
               \/ /\ Preformats(i.conv)                \* no memory for its buffer
                  /\ heap' = heap \cup {Item(i.start)}
                  /\ Fails_
  /\ UNCHANGED <<call, fmt, next, out, got>>
Counted ==
  /\ pc = "count" /\ p > Len(fmt)
  /\ pc' = "allocate"
  /\ UNCHANGED <<call, fmt, p, sz, items, next, out, heap, got>>

----------------------------------------------------------------------------
\* the second walk

Allocate ==
  /\ pc = "allocate"
  /\ p' = 1
  /\ \/ sz >= 0 /\ heap' = heap \cup {Output} /\ pc' = "write" /\ UNCHANGED got
     \/ heap' = heap /\ pc' = "release" /\ got' = [got EXCEPT !.rc = -1]
  /\ UNCHANGED <<call, fmt, sz, items, next, out>>

\* the format from i to j - 1, two percent signs as one
Copied(a, c) == IF c = "%" /\ a.escaped THEN [a EXCEPT !.escaped = FALSE]
                ELSE [text |-> Append(a.text, c), escaped |-> c = "%"]
Plain(i, j) ==
  LET copy[k \in i .. Len(fmt) + 1] ==
        IF k = i THEN [text |-> <<>>, escaped |-> FALSE] ELSE Copied(copy[k - 1], fmt[k - 1])
  IN IF i >= j THEN <<>> ELSE copy[j].text
WriteItem ==
  /\ pc = "write" /\ next <= Len(items)
  /\ out' = out \o Plain(p, items[next].start) \o Written(items[next])
  /\ p' = items[next].end + 1
  /\ next' = next + 1
  /\ UNCHANGED <<call, fmt, pc, sz, items, heap, got>>
WriteRest ==
  /\ pc = "write" /\ next > Len(items)
  /\ out' = out \o Plain(p, Len(fmt) + 1)
  /\ pc' = "release"
  /\ UNCHANGED <<call, fmt, p, sz, items, next, heap, got>>

\* Mutant: the items whose text was written, as if each were freed with it.
Listed_Written == {items[k] : k \in 1 .. next - 1}
Listed == ToSet(items)
Blocks(S) == UNION {{Item(i.start), Buffer(i.start)} : i \in S}
Release ==
  /\ pc = "release"
  /\ heap' = heap \ Blocks(Listed)
  /\ pc' = "return"
  /\ UNCHANGED <<call, fmt, p, sz, items, next, out, got>>

----------------------------------------------------------------------------
\* The callers

CallsC ==
  /\ pc = "idle"
  /\ \E f \in Formats :
       \/ \E name \in {"sprintf", "fprintf"} : Begins([f |-> name, size |-> 0, strings |-> Texts], f)
       \/ \E n \in Sizes : Begins([f |-> "snprintf", size |-> n, strings |-> Texts], f)

Delivered(text) ==
  CASE call.f = "snprintf" -> [rc |-> 0, text |-> SubSeq(text, 1, Lesser(Len(text), call.size - 1))]
    [] call.f = "fprintf" -> [rc |-> Len(text), text |-> text]
    [] OTHER -> [rc |-> 0, text |-> text]
Return ==
  /\ pc = "return"
  /\ got' = IF got.rc # 0 THEN got ELSE Delivered(out)
  /\ heap' = heap \ {Output}
  /\ pc' = "end"
  /\ UNCHANGED <<call, fmt, p, sz, items, next, out>>
Done ==                        \* the caller goes on; the next call starts afresh
  /\ call' = NoCall /\ fmt' = <<>> /\ pc' = "idle" /\ p' = 1 /\ sz' = 0 /\ items' = <<>>
  /\ next' = 1 /\ out' = <<>> /\ heap' = {} /\ got' = Nothing
----------------------------------------------------------------------------
\* What is promised

\* The text the C library gives for a directive.
Padded(i, sign, text) ==
  LET room == Larger(0, i.width - Len(sign) - Len(text))
  IN IF "-" \in i.flags THEN sign \o text \o Fill(" ", room)
     ELSE IF "0" \in i.flags THEN sign \o Fill("0", room) \o text ELSE Fill(" ", room) \o sign \o text
CText(i) ==
  LET n == IF i.conv \in Signed THEN AsSigned(i.value) ELSE i.value
      plus == IF n < 0 THEN <<"-">> ELSE IF "+" \in i.flags THEN <<"+">>
              ELSE IF " " \in i.flags THEN <<" ">> ELSE <<>>
  IN IF i.conv \in Integer
     THEN Padded(i, IF i.conv \in Signed THEN plus ELSE <<>>, Digits(Abs_(n), Base(i.conv)))
     ELSE IF i.conv = "s"
     THEN Padded(i, <<>>, IF i.precision = NONE THEN i.value ELSE SubSeq(i.value, 1, Lesser(Len(i.value), i.precision)))
     ELSE IF i.conv = "c" THEN Padded(i, <<>>, <<i.value>>) ELSE i.value

\* Directives the code leaves for later or treats in another way: a string
\* that is wider than its precision; left adjustment and the other flags;
\* numbers that have a precision or are narrower than their width, unless
\* they are not negative and filled with zeros; signs of what has none; digits
\* in capitals; octal and hexadecimal values in the upper half of the range.
Overruns(i) == i.conv = "s" /\ i.precision # NONE /\ i.width > i.precision
Supported(i) ==
  /\ i.flags \cap {"-", "#", "'"} = {}
  /\ i.conv \in Integer =>
       /\ i.precision = NONE
       /\ i.width > IntNeeded([i EXCEPT !.width = NONE], i.value)
            => "0" \in i.flags /\ Value(i, i.value) >= 0
       /\ i.conv \notin Signed => i.flags \cap {" ", "+"} = {} /\ Value(i, i.value) = i.value
       /\ i.modifier = <<"z">> => i.value <= INT_MAX
       /\ {" ", "+"} \subseteq i.flags => Value(i, i.value) < 0
       /\ i.conv = "X" => i.value < 10
  /\ i.conv \in {"s", "c"} => "0" \notin i.flags
  /\ i.conv \in Integer \cup {"s", "c", "g"}

\* The room that the first walk counts is enough for what the second writes,
\* but for formats with a string that Overruns describes.
RoomCounted ==
  pc \in {"write", "release", "return"} /\ sz >= 0
    => Len(out) <= sz \/ \E i \in ToSet(items) : Overruns(i)

From(k) == IF k = 0 THEN 1 ELSE items[k].end + 1   \* where the text behind item k begins

\* A call that succeeds gives the text the C library gives, cut if its buffer
\* is small.
Expected ==
  FlattenSeq([k \in DOMAIN items |-> Plain(From(k - 1), items[k].start) \o CText(items[k])])
    \o Plain(From(Len(items)), Len(fmt) + 1)
TextRight ==
  pc = "end" /\ got.rc # -1 /\ (\A i \in ToSet(items) : Supported(i))
    => got.text = IF call.f = "snprintf"
                  THEN SubSeq(Expected, 1, Lesser(Len(Expected), call.size - 1)) ELSE Expected

\* Whichever allocation fails and wherever the format is refused, a call leaves
\* none of its blocks behind, but for the item of a positional directive, which
\* is dropped before it is in the list (osglue.c:1781).
Dropped == {Item(k) : k \in {j \in DOMAIN fmt : fmt[j] = "%" /\ Positional(j + 1)}}
Released == pc = "end" => heap \subseteq Dropped
=============================================================================
