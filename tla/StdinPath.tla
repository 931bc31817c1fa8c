----------------------------- MODULE StdinPath -----------------------------
(***************************************************************************)
(* How a Lua program gets what the user types: io.read of liolib.c loops   *)
(* over fgets, fread and getc of osglue.c, these ask fread_stdin, which    *)
(* posts a STDIN event that app_input_get of palmapp.c answers from its    *)
(* input buffer and, if that is not enough, from a dialog with the buttons *)
(* "OK", "Newline" and "EOF".                                              *)
(*                                                                         *)
(* Everything is synchronous: one Fetch step is one call of the C library, *)
(* with the dialog it may bring up.  The echo of the text goes to          *)
(* OutputStore.  Text is a sequence of Letters and NL; EOF is the -1 that  *)
(* getc returns and ungetc accepts like any other character.               *)
(***************************************************************************)
EXTENDS Naturals, Sequences, FiniteSetsExt

CONSTANTS
  Letters,      (* characters the user may type                            *)
  NL, EOF,
  DialogLength, (* 256: the least room for text in the dialog              *)
  BufferSize,   (* BUFSIZ: what Lua asks of fgets and fread at a time      *)
  Spare,        (* 256: room beyond the need when the buffer grows         *)
  MaxCount      (* bound on n in io.read(n)                                *)

ASSUME StdinAssumption ==
  /\ NL \notin Letters /\ EOF \notin Letters /\ EOF # NL
  /\ BufferSize \in Nat /\ BufferSize > 1
  /\ DialogLength \in Nat /\ Spare \in Nat /\ MaxCount \in Nat

VARIABLES
  input,   (* the input buffer of the main form                            *)
  stream,  (* stdin's FILE: eof, err, unget (at most one character)        *)
  call,    (* the io.read under way: what it reads, characters still due   *)
  last,    (* history: what the last fgets handed to Lua                   *)
  owed,    (* history: typed and neither handed to Lua nor the character   *)
           (* put back that fread_stdin forgets (until an error)           *)
  fault    (* read_chars has moved its buffer pointer below the buffer     *)

inputVars == <<input, stream, call, last, owed, fault>>

NoCall == [reads |-> "nothing", due |-> 0]
Calls == {[reads |-> r, due |-> 0] : r \in {"line", "number", "test"}}
           \union {[reads |-> "chars", due |-> n] : n \in 1 .. MaxCount}

Smaller(m, n) == IF m < n THEN m ELSE n
Larger(m, n) == IF m < n THEN n ELSE m
Dropped(s, n) == SubSeq(s, n + 1, Len(s))
Text == Letters \union {NL}

(* What s holds of the text: EOF is never among other characters. *)
Real(s) == IF s = <<EOF>> THEN <<>> ELSE s

-----------------------------------------------------------------------------
(* app_input_get *)

(* How much of s is taken: up to the limit, up to a newline if the caller  *)
(* wants whole lines, or all of it.                                        *)
Stops_AtLimit(s, limit, whole) == {k \in 1 .. Len(s) : k = limit}        \* mutant
Stops(s, limit, whole) == {k \in 1 .. Len(s) : k = limit \/ (whole /\ s[k] = NL)}
Cut(s, limit, whole) ==
  IF Stops(s, limit, whole) = {} THEN Len(s) ELSE Min(Stops(s, limit, whole))

(* What the dialog returns: text and a button. *)
Typed(limit) == UNION {[1 .. k -> Letters] : k \in 0 .. Larger(DialogLength, limit)}
Buttons == {"OK", "Newline", "EOF"}

(* An answer: the buffer afterwards, the text for the caller, eof or error *)
(* for the caller, the button pressed and the text typed.                  *)
Answer(buffer, data, eof, button, typed) ==
  [input |-> buffer, data |-> data, eof |-> eof, error |-> ~buffer.made \/ buffer.error,
   button |-> button, typed |-> typed]

(* Mutant: that the block could not grow goes unnoticed. *)
Stored_Silent(buffer, rest) ==
  IF rest = <<>> THEN {buffer}
  ELSE IF Len(rest) < buffer.room THEN {[buffer EXCEPT !.chars = rest]}
  ELSE {[buffer EXCEPT !.chars = rest, !.room = Len(rest) + Spare], buffer}

(* The text left over needs room; the block may refuse to grow. *)
Stored(buffer, rest) ==
  IF rest = <<>> THEN {buffer}
  ELSE IF Len(rest) < buffer.room THEN {[buffer EXCEPT !.chars = rest]}
  ELSE {[buffer EXCEPT !.chars = rest, !.room = Len(rest) + Spare],
        [buffer EXCEPT !.error = TRUE]}

(* The user types text and taps a button. *)
Entered(buffer, head, limit, whole, entry, button) ==
  LET typed == IF button = "Newline" THEN Append(entry, NL) ELSE entry
      k == Cut(typed, limit - Len(head), whole)
      pending == [buffer EXCEPT !.eofpend = buffer.eofpend \/ button = "EOF"]
  IN  {Answer(b, head \o SubSeq(typed, 1, k), FALSE, button, typed)
         : b \in Stored(pending, Dropped(typed, k))}

(* The dialog, when the "head" from the buffer is not enough; there may be *)
(* no memory for it.                                                       *)
Asked(buffer, head, limit, whole) ==
  {Answer([buffer EXCEPT !.error = TRUE], head, FALSE, "none", <<>>)}
    \union UNION {UNION {Entered(buffer, head, limit, whole, entry, button) : button \in Buttons}
                    : entry \in Typed(limit)}

EofReached == input.eofsent
EofDue_Early == input.eofpend                          \* mutant
EofDue_Never == FALSE                                  \* mutant
EofDue == input.chars = <<>> /\ input.eofpend

AppInputGet(limit, whole) ==
  IF ~input.made THEN {Answer(input, <<>>, FALSE, "none", <<>>)}
  ELSE IF EofReached THEN {Answer(input, <<>>, TRUE, "none", <<>>)}
  ELSE IF EofDue
  THEN {Answer([input EXCEPT !.eofsent = TRUE, !.eofpend = FALSE], <<>>, TRUE, "none", <<>>)}
  ELSE LET k == Cut(input.chars, limit, whole)
           head == SubSeq(input.chars, 1, k)
           rest == [input EXCEPT !.chars = Dropped(input.chars, k)]
       IN  IF Stops(input.chars, limit, whole) # {}
           THEN {Answer(rest, head, FALSE, "none", <<>>)}
           ELSE Asked(rest, head, limit, whole)

-----------------------------------------------------------------------------
(* fread_stdin: a character put back is placed in the caller's buffer, but *)
(* app_input_get starts that buffer afresh.                                *)
PutBack == stream.unget # <<>>
Forgotten(limit) == IF PutBack /\ limit > 1 THEN stream.unget ELSE <<>>
FreadStdin(limit, whole) ==
  IF PutBack /\ limit = 1
  THEN {[Answer(input, stream.unget, FALSE, "none", <<>>) EXCEPT !.error = FALSE]}
  ELSE AppInputGet(limit, whole)

Null(a) == a.error \/ a.eof

(* getc: anything but one character is EOF. *)
Getc(a) == IF Null(a) \/ Len(a.data) # 1 THEN EOF ELSE a.data[1]

-----------------------------------------------------------------------------
(* io.read: g_read clears the error flags and starts one of its readers *)

Read(c) ==
  /\ call = NoCall /\ ~fault
  /\ call' = c
  /\ stream' = [stream EXCEPT !.eof = FALSE, !.err = FALSE]
  /\ UNCHANGED <<input, last, owed, fault>>

(* One C call of the reader: the answer a, and what it does to the FILE    *)
(* before "unget" is put back.                                             *)
Limit ==
  CASE call.reads = "line" -> BufferSize - 1
    [] call.reads = "chars" -> Smaller(call.due, BufferSize)
    [] OTHER -> 1

(* What comes behind the head in s. *)
Behind(head, s) ==
  IF Len(head) <= Len(s) /\ SubSeq(s, 1, Len(head)) = head THEN Dropped(s, Len(head)) ELSE s

Fetched(a, unget) ==
  LET data == IF Null(a) THEN <<>> ELSE a.data
  IN
  /\ input' = a.input
  /\ stream' = [eof |-> stream.eof \/ (~a.error /\ a.eof), err |-> stream.err \/ a.error,
                unget |-> unget]
  /\ last' = IF call.reads = "line" THEN data ELSE <<>>
  /\ owed' = IF a.input.error THEN <<>>
             ELSE Real(unget) \o Behind(Real(data),
                                         Behind(Real(Forgotten(Limit)), owed) \o a.typed)

(* read_line: another fgets unless it failed or the line is complete. *)
ReadLine(a) ==
  LET complete == a.data # <<>> /\ a.data[Len(a.data)] = NL
  IN
  /\ call.reads = "line"
  /\ Fetched(a, <<>>)
  /\ call' = IF Null(a) \/ complete THEN NoCall ELSE call
  /\ UNCHANGED fault

(* read_chars: another fread while each brings all it was asked for.  When *)
(* fread fails, its -1 is added to the buffer pointer.                     *)
ReadChars(a) ==
  LET due == call.due - Len(a.data)
  IN
  /\ call.reads = "chars"
  /\ Fetched(a, <<>>)
  /\ call' = IF Null(a) \/ due = 0 \/ Len(a.data) < Limit
             THEN NoCall ELSE [call EXCEPT !.due = due]
  /\ fault' = Null(a)

(* read_number: fscanf understands no format but "%ld", and Lua passes     *)
(* "%lf", so it reads nothing and fails.                                   *)
ReadNumber ==
  /\ call.reads = "number"
  /\ call' = NoCall
  /\ UNCHANGED <<input, stream, last, owed, fault>>

(* test_eof, for io.read(0): getc, then ungetc *)
TestEof(a) ==
  /\ call.reads = "test"
  /\ Fetched(a, <<Getc(a)>>)
  /\ call' = NoCall
  /\ UNCHANGED fault

(* The user may type on and on, or else (with "ends") ends a line or, with *)
(* nothing more to say, the input.                                         *)
Ends(a) == a.button = "Newline" \/ (a.button = "EOF" /\ a.typed = <<>>)

FetchOne(ends) ==
  \E a \in FreadStdin(Limit, call.reads = "line") :
    /\ call # NoCall
    /\ ends => Ends(a)
    /\ ReadLine(a) \/ ReadChars(a) \/ TestEof(a)
Fetch == FetchOne(FALSE)

-----------------------------------------------------------------------------
InputInit ==
  /\ input \in {[made |-> m, error |-> FALSE, eofpend |-> FALSE, eofsent |-> FALSE,
                 chars |-> <<>>, room |-> 0] : m \in BOOLEAN}
  /\ stream = [eof |-> FALSE, err |-> FALSE, unget |-> <<>>]
  /\ call = NoCall
  /\ last = <<>>
  /\ owed = <<>>
  /\ fault = FALSE

InputNext == (\E c \in Calls : Read(c)) \/ Fetch \/ ReadNumber

(* A user who is asked again and again at some time ends. *)
Fairness == WF_inputVars(Fetch \/ ReadNumber) /\ SF_inputVars(FetchOne(TRUE))
InputSpec == InputInit /\ [][InputNext]_inputVars /\ Fairness

-----------------------------------------------------------------------------
(* Properties *)

(* What the program has not been given is still held, once and in the      *)
(* order it was typed: in the FILE if it was put back, else in the input   *)
(* buffer.  All that is ever missing, until an error is reported, is a     *)
(* single character that was put back when more than one is asked for; no  *)
(* other goes with it.  And a line that is handed over never has the       *)
(* beginning of the next in it.                                            *)
Held == Real(stream.unget) \o input.chars
NothingLost ==
  /\ input.error \/ owed = Held
  /\ \A i \in 1 .. Len(last) - 1 : last[i] # NL

(* The end of file is reported only after all that was typed before it.    *)
EofLast == stream.eof => input.eofsent /\ Held = <<>>

(* Every io.read returns, provided the user now and then ends a line or    *)
(* the input: no reader spins on an exhausted or failed stream.            *)
Returns == call # NoCall ~> call = NoCall
=============================================================================
