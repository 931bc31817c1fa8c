---------------------------- MODULE AppLifecycle ----------------------------
(***************************************************************************)
(* The life of the application in palmapp.c: the event loop of PilotMain,  *)
(* the source editor that runs as a dialog over the main form, the scripts *)
(* that both start, and exit() of osglue.c, which posts a stop event and   *)
(* runs an event loop of its own inside the script that called it.  That   *)
(* loop serves the main form: an editor, a setup or another script may run *)
(* over a script that has called exit().                                   *)
(*                                                                         *)
(* The C stack is "frames", the current activation last.  The text of the  *)
(* source editor moves between the database record, the block that the     *)
(* main form keeps (desc->script) and the editor's field; texts are known  *)
(* by the number of the edit that made them, 0 is the "hello world" that   *)
(* seeds the database.  An event is the stop event, the opening of the     *)
(* main form, or a tap, which means what the form then active makes of it. *)
(*                                                                         *)
(* From the editor the user opens the list of the memos of the device and  *)
(* loads one into the text or saves the text to one.  From the main form   *)
(* he opens the setup: of its values the number of output lines is kept,   *)
(* which the output store (OutputStore) is made with.                      *)
(***************************************************************************)
EXTENDS Naturals, Sequences, FiniteSets, SequencesExt

CONSTANTS
  Handles,    (* memory handles                                             *)
  None,       (* the handle 0                                               *)
  Memos,      (* the memos at first, their texts being the first edits      *)
  MinLines,   (* the least number of output lines, 50                       *)
  Lines,      (* numbers of output lines that a user enters                 *)
  MaxEdits,   (* bound on the edits of the source text                      *)
  MaxDepth,   (* bound on the C stack                                       *)
  MaxQueue    (* bound on the events that wait when another is posted       *)

ASSUME AppAssumption ==
  /\ None \notin Handles
  /\ Memos \in Nat /\ MinLines \in Nat \ {0} /\ Lines \subseteq Nat
  /\ MaxEdits \in Nat /\ MaxDepth \in Nat /\ MaxQueue \in Nat

VARIABLES
  running,  (* between StartApplication and StopApplication                 *)
  queue,    (* the event queue                                              *)
  frames,   (* the C stack: event loops, dialogs, scripts                   *)
  desc,     (* the main form has its inout_desc                             *)
  script,   (* desc->script                                                 *)
  field,    (* the handle in the field of the source editor                 *)
  text,     (* the texts of the allocated handles                           *)
  record,   (* the text in the database                                     *)
  memos,    (* the texts of the memo database, record by record             *)
  list,     (* memo_list: the titles on show and their record numbers       *)
  maxlines, (* preferences.output.maxlines                                  *)
  store,    (* the max_lines of the output store, 0 while there is none     *)
  edits,    (* edits so far                                                 *)
  agreed,   (* history: the text that the user last closed the editor with  *)
  failed,   (* history: memory or the database failed, or the editor was    *)
            (* interrupted, since it was last closed with a text            *)
  asked     (* history: the stops that the system has posted in the session *)

memory == <<desc, script, field, text>>
others == <<memos, list, maxlines, store>>
history == <<edits, agreed, failed, asked>>
vars == <<running, queue, frames, memory, record, others, history>>

Junk == MaxEdits + 1  \* a text that nobody wrote

(* A frame is the loop of PilotMain or of exit(), a script, or a dialog:   *)
(* the source editor, the list of the memos, the setup, or one that asks   *)
(* or tells something and keeps nothing.                                   *)
Loops == {"main", "exit"}
Dialogs == {"editor", "select", "setup", "alert"}
On(kinds) == frames # <<>> /\ Last(frames) \in kinds

Allocated == DOMAIN text
Holding(h, t) == [g \in Allocated \union {h} |-> IF g = h THEN t ELSE text[g]]
Without(f, h) == [g \in DOMAIN f \ {h} |-> f[g]]

-----------------------------------------------------------------------------
(* PilotMain: StartApplication asks for the main form. *)
Launch ==
  /\ ~running
  /\ running' = TRUE
  /\ queue' = <<"open">>
  /\ frames' = <<"main">>
  /\ agreed' = record
  /\ failed' = FALSE /\ asked' = 0
  /\ UNCHANGED <<others, memory, record, edits>>

(* Events come from the user and from the system. *)
Post(event) ==
  /\ running
  /\ Len(queue) < MaxQueue
  /\ queue' = Append(queue, event)
  /\ asked' = asked + (IF event = "stop" THEN 1 ELSE 0)
  /\ UNCHANGED <<others, running, frames, memory, record, edits, agreed, failed>>

(* The event loop on top of the stack takes the next event. *)
Takes(event) ==
  /\ queue # <<>>
  /\ Head(queue) = event
  /\ queue' = Tail(queue)

-----------------------------------------------------------------------------
(* InitMainForm, with FetchSourceDatabase for the text: either may fail. *)
OpenMain ==
  /\ On({"main"}) /\ Takes("open")
  /\ \/ desc' = FALSE /\ UNCHANGED <<script, text>>
     \/ desc' = TRUE /\ UNCHANGED <<script, text>>
     \/ \E h \in Handles \ Allocated :
          desc' = TRUE /\ script' = h /\ text' = Holding(h, record)
  /\ store' \in IF desc' THEN {0, maxlines} ELSE {0}
  /\ UNCHANGED <<memos, list, maxlines, running, frames, field, record, history>>

(* The "exec" button of the main form: RunScript on the script field. *)
TapRun ==
  /\ On(Loops) /\ Takes("tap")
  /\ Len(frames) < MaxDepth
  /\ frames' = Append(frames, "script")
  /\ UNCHANGED <<others, running, memory, record, history>>

(* Mutant: the main form keeps the text as well. *)
TapSource_Shares ==
  /\ On(Loops) /\ Takes("tap")
  /\ desc
  /\ Len(frames) < MaxDepth
  /\ frames' = Append(frames, "editor")
  /\ field' = script
  /\ UNCHANGED <<others, running, desc, script, text, record, history>>

(* RunSourceForm up to FrmDoDialog: the field takes the text over. *)
TapSource ==
  /\ On(Loops) /\ Takes("tap")
  /\ desc
  /\ Len(frames) < MaxDepth
  /\ frames' = Append(frames, "editor")
  /\ field' = script
  /\ script' = None
  /\ UNCHANGED <<others, running, desc, text, record, history>>

(* A tap that starts nothing. *)
TapElsewhere ==
  /\ On(Loops \union Dialogs) /\ Takes("tap")
  /\ UNCHANGED <<others, running, frames, memory, record, history>>

(* The user edits the text; an empty field gets its block with it. *)
TapEdit ==
  /\ On({"editor"}) /\ Takes("tap")
  /\ edits < MaxEdits
  /\ \E h \in IF field = None THEN Handles \ Allocated ELSE {field} :
       /\ field' = h
       /\ text' = Holding(h, edits + 1)
  /\ edits' = edits + 1
  /\ UNCHANGED <<others, running, frames, desc, script, record, agreed, failed, asked>>

(* A button of the editor: frmSourceHandleEvent gives the main form a copy *)
(* of the text, if there is one and there is memory; FrmDeleteForm frees   *)
(* the field's.  Without a copy the editor closes all the same.            *)
Closed(copy, runs) ==
  LET under == Front(frames)
  IN
  /\ script' = copy
  /\ field' = None
  /\ text' = Without(IF copy = None THEN text ELSE Holding(copy, text[field]), field)
  /\ frames' = IF runs /\ copy # None THEN Append(under, "script") ELSE under

TapButton ==
  /\ On({"editor"}) /\ Takes("tap")
  /\ \E runs \in BOOLEAN :
       \/ /\ field = None
          /\ Closed(None, runs)
          /\ UNCHANGED <<agreed, failed>>
       \/ /\ field # None
          /\ \E h \in Handles \ Allocated : Closed(h, runs)
          /\ agreed' = text[field] /\ failed' = FALSE
       \/ /\ field # None
          /\ Closed(None, runs)
          /\ failed' = TRUE
          /\ UNCHANGED agreed
  /\ UNCHANGED <<others, running, desc, record, edits, asked>>

-----------------------------------------------------------------------------
(* The memos, from the menu of the editor *)

NoList == [recno |-> <<>>, names |-> <<>>]

(* Mutant: the record numbers stay where the walk met them. *)
Listed_InPlace(recnos, named) ==
  [recno |-> recnos, names |-> [i \in DOMAIN SelectSeq(recnos, LAMBDA r : r \in named) |->
                                  memos[SelectSeq(recnos, LAMBDA r : r \in named)[i]]]]

(* The records met, those whose title could not be allocated passed over. *)
Listed(recnos, named) ==
  LET shown == SelectSeq(recnos, LAMBDA r : r \in named)
  IN  [recno |-> shown, names |-> [i \in DOMAIN shown |-> memos[shown[i]]]]

(* RunMemoSelect up to FrmDoDialog, with InitMemoList: a record may be     *)
(* hidden, the tables may not be allocated, the walk may end early, a      *)
(* title may not be allocated.                                             *)
TapMemos ==
  /\ On({"editor"}) /\ Takes("tap")
  /\ Len(frames) < MaxDepth
  /\ \E named \in SUBSET DOMAIN memos : list' = Listed([i \in DOMAIN memos |-> i], named)
  /\ frames' = Append(frames, "select")
  /\ UNCHANGED <<running, memory, record, memos, maxlines, store, history>>

(* A button of the list; DoneMemoList. *)
LeaveList == frames' = Front(frames) /\ list' = NoList

(* LoadMemoItem, which may not find the record: the text goes where the    *)
(* cursor stands.                                                          *)
TapLoad ==
  /\ On({"select"}) /\ Takes("tap")
  /\ \E i \in DOMAIN list.names :
       \/ /\ edits < MaxEdits /\ field # None
          /\ text' = Holding(field, edits + 1) /\ edits' = edits + 1
          /\ UNCHANGED field
       \/ /\ field = None
          /\ \E h \in Handles \ Allocated :
               field' = h /\ text' = Holding(h, memos[list.recno[i]])
          /\ UNCHANGED edits
       \/ UNCHANGED <<field, text, edits>>
  /\ LeaveList
  /\ UNCHANGED <<running, desc, script, record, memos, maxlines, store>>
  /\ UNCHANGED <<agreed, failed, asked>>

(* SaveMemoItem to a chosen memo.  The record may not be had; when it      *)
(* cannot be resized, or not be written, it keeps what it had.  An empty   *)
(* field has no text at all: what NULL points to is written.               *)
TapSave ==
  /\ On({"select"}) /\ Takes("tap")
  /\ \E i \in DOMAIN list.names :
       \/ field # None /\ memos' = [memos EXCEPT ![list.recno[i]] = text[field]]
       \/ field = None /\ memos' = [memos EXCEPT ![list.recno[i]] = Junk]
       \/ UNCHANGED memos
  /\ LeaveList
  /\ UNCHANGED <<running, memory, record, maxlines, store, history>>

(* SaveMemoItem to a new memo, which stays when it cannot be written. *)
TapSaveNew ==
  /\ On({"select"}) /\ Takes("tap")
  /\ Len(memos) <= Memos
  /\ \E t \in {Junk} \union (IF field = None THEN {} ELSE {text[field]}) :
       memos' = Append(memos, t)
  /\ LeaveList
  /\ UNCHANGED <<running, memory, record, maxlines, store, history>>

TapCancel ==
  /\ On({"select", "setup"}) /\ Takes("tap")
  /\ LeaveList
  /\ UNCHANGED <<running, memory, record, memos, maxlines, store, history>>

-----------------------------------------------------------------------------
(* The setup and the rest of the menu of the main form *)

(* "erase" of the menu: output_clear. *)
TapErase ==
  /\ On(Loops) /\ Takes("tap")
  /\ store' \in IF desc THEN {0, maxlines} ELSE {store}
  /\ UNCHANGED <<running, frames, memory, record, memos, list, maxlines, history>>

(* "input" of the menu, which asks for a line, and the forms that tell of  *)
(* the runtime and of the application.                                     *)
TapAlert ==
  /\ On(Loops) /\ Takes("tap")
  /\ Len(frames) < MaxDepth
  /\ frames' = Append(frames, "alert")
  /\ UNCHANGED <<others, running, memory, record, history>>

TapAnswer ==
  /\ On({"alert"}) /\ Takes("tap")
  /\ frames' = Front(frames)
  /\ UNCHANGED <<others, running, memory, record, history>>

TapSetup ==
  /\ On(Loops) /\ Takes("tap")
  /\ Len(frames) < MaxDepth
  /\ frames' = Append(frames, "setup")
  /\ UNCHANGED <<others, running, memory, record, history>>

(* Mutant: the store is cleared only when it gets more lines. *)
Applied_WhenMore(n, other) ==
  /\ maxlines' = n
  /\ store' \in IF (n > maxlines \/ other) /\ desc THEN {0, n} ELSE {store}

(* SaveSetupForm and, when the number or another setting of the output has *)
(* changed, output_clear: the new store may not be had.                    *)
Applied(n, other) ==
  /\ maxlines' = n
  /\ store' \in IF (n # maxlines \/ other) /\ desc THEN {0, n} ELSE {store}

TapApply ==
  /\ On({"setup"}) /\ Takes("tap")
  /\ \E n \in Lines, other \in BOOLEAN : Applied(IF n < MinLines THEN MinLines ELSE n, other)
  /\ frames' = Front(frames)
  /\ UNCHANGED <<running, memory, record, memos, list, history>>

-----------------------------------------------------------------------------
(* The stop event.  FrmDoDialog ends a dialog without a button and leaves  *)
(* the event to the loop below.                                            *)
StopEditor ==
  /\ On({"editor"})
  /\ queue # <<>> /\ Head(queue) = "stop"
  /\ Closed(None, FALSE)
  /\ failed' = TRUE
  /\ UNCHANGED <<others, running, queue, desc, record, edits, agreed, asked>>

(* Mutant: the dialog swallows the event. *)
StopDialog_Swallows ==
  /\ On({"select", "setup", "alert"}) /\ Takes("stop")
  /\ frames' = Front(frames) /\ list' = NoList
  /\ UNCHANGED <<running, memory, record, memos, maxlines, store, history>>

(* The other dialogs end as with their default button. *)
StopDialog ==
  /\ On({"select", "setup", "alert"})
  /\ queue # <<>> /\ Head(queue) = "stop"
  /\ frames' = Front(frames) /\ list' = NoList
  /\ UNCHANGED <<running, queue, memory, record, memos, maxlines, store, history>>

(* Mutant: exit() leaves the stop to the loop that is below it. *)
StopExit_Leaves ==
  /\ On({"exit"})
  /\ queue # <<>> /\ Head(queue) = "stop"
  /\ frames' = Front(frames)
  /\ UNCHANGED <<others, running, queue, memory, record, history>>

(* app_run_event_handler breaks, exit() returns, the script goes on. *)
StopExit ==
  /\ On({"exit"}) /\ Takes("stop")
  /\ frames' = Front(frames)
  /\ UNCHANGED <<others, running, memory, record, history>>

(* Mutant: the text is freed and not stored. *)
StopMain_NoStore ==
  /\ On({"main"}) /\ Takes("stop")
  /\ running' = FALSE
  /\ frames' = <<>>
  /\ text' = Without(text, script)
  /\ desc' = FALSE /\ script' = None /\ store' = 0
  /\ UNCHANGED <<memos, list, maxlines, field, record, edits, agreed, failed, asked>>

(* StopApplication, whose FrmCloseAllForms gets to DoneMainForm and with   *)
(* it to StoreSourceDatabase, which does not look at errors.               *)
StopMain ==
  /\ On({"main"}) /\ Takes("stop")
  /\ running' = FALSE
  /\ frames' = <<>>
  /\ \/ script # None /\ record' = text[script] /\ UNCHANGED failed
     \/ script # None /\ UNCHANGED record /\ failed' = TRUE
     \/ script = None /\ UNCHANGED <<record, failed>>
  /\ text' = Without(text, script)
  /\ desc' = FALSE /\ script' = None /\ store' = 0
  /\ UNCHANGED <<memos, list, maxlines, field, edits, agreed, asked>>

-----------------------------------------------------------------------------
(* A script runs in memory that the model does not look at (GlueHeap,      *)
(* LuaMachine).  It may end, done or failed; ask for input, for which      *)
(* app_input_get opens a dialog; or get to exit(), by os.exit or by an     *)
(* allocation that cannot grow the table of GlueHeap.                      *)
ScriptEnds ==
  /\ On({"script"})
  /\ frames' = Front(frames)
  /\ UNCHANGED <<others, running, queue, memory, record, history>>

ScriptAsks ==
  /\ On({"script"})
  /\ Len(frames) < MaxDepth
  /\ frames' = Append(frames, "alert")
  /\ UNCHANGED <<others, running, queue, memory, record, history>>

(* exit() posts the stop event and runs the event handler. *)
ScriptExits ==
  /\ On({"script"})
  /\ Len(frames) < MaxDepth
  /\ queue' = Append(queue, "stop")
  /\ frames' = Append(frames, "exit")
  /\ UNCHANGED <<others, running, memory, record, history>>

-----------------------------------------------------------------------------
Init ==
  /\ running = FALSE
  /\ queue = <<>> /\ frames = <<>>
  /\ desc = FALSE /\ script = None /\ field = None
  /\ text = [h \in {} |-> 0]
  /\ record = 0 /\ edits = Memos /\ agreed = 0
  /\ memos = [r \in 1 .. Memos |-> r] /\ list = NoList
  /\ maxlines = MinLines /\ store = 0
  /\ failed = FALSE /\ asked = 0

Handle ==
  \/ OpenMain \/ TapRun \/ TapSource \/ TapElsewhere \/ TapEdit \/ TapButton
  \/ TapMemos \/ TapLoad \/ TapSave \/ TapSaveNew \/ TapCancel
  \/ TapSetup \/ TapApply \/ TapErase \/ TapAlert \/ TapAnswer
  \/ StopEditor \/ StopDialog \/ StopExit \/ StopMain
Next ==
  \/ Launch
  \/ \E event \in {"tap", "stop"} : Post(event)
  \/ Handle
  \/ ScriptEnds \/ ScriptAsks \/ ScriptExits

(* The loops and the dialogs go on taking events.  Of a script nothing is  *)
(* promised: it may run, ask and exit for ever.                            *)
Spec == Init /\ [][Next]_vars /\ WF_vars(Handle)

-----------------------------------------------------------------------------
(* Properties *)

(* The text that the user last closed the editor with is never lost        *)
(* between the editor, the main form and the database, not even when       *)
(* scripts that call exit() run the editor over the script it has started: *)
(* with the editor closed the main form has it, or else the database.      *)
(* Apart from three ends where the code does lose it, each of which lasts  *)
(* until the editor is next closed with a text or the application starts   *)
(* again: no memory for the copy (palmapp.c:2855), a stop while the editor *)
(* is open (2940), a database that cannot be written, which nobody is told *)
(* of (475-485).                                                           *)
TextKept ==
  ~failed /\ ~On({"editor", "select"}) =>
    agreed = IF running /\ script # None THEN text[script] ELSE record

(* No block of text is leaked: those allocated are the main form's and the *)
(* editor's, and these are never the same.                                 *)
NoTextLeaked ==
  /\ Allocated = {script, field} \ {None}
  /\ script = field => script = None

(* Every loop of exit() that runs has one stop of its own in the queue, or *)
(* one in exchange for it: the stops that wait are those that the system   *)
(* has posted and those of the calls of exit() not yet returned.  So a     *)
(* stop of the system that such a loop takes in place of its own is made   *)
(* up for, in any order of posting, taking and nesting, and exit() never   *)
(* stops the application: its stop is gone when it returns.                *)
StopsKept ==
  running =>
    Cardinality({i \in DOMAIN queue : queue[i] = "stop"})
      = asked + Cardinality({i \in DOMAIN frames : frames[i] = "exit"})

(* What is saved to a memo, or loaded from one, is that memo's whose title *)
(* the user has tapped in the list, whatever titles could not be shown; no *)
(* other memo changes, and the tapped one gets the editor's text or keeps  *)
(* its own -- with the empty field apart.                                  *)
MemoChosen ==
  [][ /\ \A r \in DOMAIN memos : memos'[r] # memos[r] =>
           /\ \E i \in DOMAIN list.names : list.names[i] = memos[r]
           /\ memos'[r] = IF field = None THEN Junk ELSE text[field]
      /\ On({"select"}) /\ field = None /\ field' # None =>
           \E i \in DOMAIN list.names : list.names[i] = text'[field'] ]_vars

(* The output store has been made with the number of lines that is set:    *)
(* what is drawn, scrolled and kept goes by the store, the user by the     *)
(* setup, and a stop or a nested loop between the two parts them never.    *)
SetupInForce == store # 0 => store = maxlines /\ maxlines >= MinLines

(* The application stops once the system has asked for it, whatever waits  *)
(* in the queue or runs, and if a loop of exit() takes the stop; as long   *)
(* as its scripts come to an end: no script goes on for ever, as one would *)
(* that asks again for the line that a dialog ended by the stop has not    *)
(* given (liolib.c:318-327), and not every exit() finds another after it.  *)
StopHonoured ==
  <>[](\A i \in DOMAIN frames : frames[i] # "exit")
    /\ []<>(\A i \in DOMAIN frames : frames[i] # "script") =>
  ((running /\ asked > 0) ~> ~running)
=============================================================================
