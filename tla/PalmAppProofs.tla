---------------------------- MODULE PalmAppProofs ----------------------------
(***************************************************************************)
(* Proofs about the application of palmapp.c: what its main form does with *)
(* scripts, memos and preferences, and what it hands to a running script   *)
(* from its input buffer.                                                  *)
(*                                                                         *)
(* Proofs about AppLifecycle, for any number of handles, memos, edits and  *)
(* activations on the C stack.                                             *)
(*                                                                         *)
(* What may run on top of what (Stacked) is the key: the editor is open    *)
(* only at the top of the stack, with at most the list of the memos above  *)
(* it, so there is never a second one, even when exit() has its event loop *)
(* run over a script.  Stops are counted: an exit() that is running and    *)
(* a stop that it has posted, or taken in place of one, come in pairs.     *)
(*                                                                         *)
(* Proofs about StdinPath: for any alphabet, sizes of buffers, and texts   *)
(* of any length that the user types, nothing typed is lost or reordered   *)
(* on its way to the program, no line holds the beginning of the next, and *)
(* the end of file comes after all of it.                                  *)
(*                                                                         *)
(* Answered says what any answer of app_input_get is worth: with the text  *)
(* that was typed for it, the buffer before it is the data it returns and  *)
(* the buffer after it.  The invariant needs besides that what is still    *)
(* due is never zero (or a character put back would not be met by the test *)
(* of fread_stdin for single characters), and that a stream at its end is  *)
(* not being read.                                                         *)
(***************************************************************************)
EXTENDS AppLifecycle, StdinPath, SequenceTheorems, FiniteSetTheorems, WellFoundedInduction, TLAPS

Kinds == Loops \cup Dialogs \cup {"script"}

(* What the code starts from an activation of each kind. *)
Above(kind) ==
  CASE kind \in Loops -> {"script", "editor", "setup", "alert"}
    [] kind = "script" -> {"exit", "alert"}
    [] kind = "editor" -> {"select"}
    [] OTHER -> {}

Stacked(s) ==
  /\ s \in Seq(Kinds)
  /\ s # <<>> => s[1] = "main"
  /\ \A i \in DOMAIN s : i + 1 \in DOMAIN s => s[i + 1] \in Above(s[i])

Count(s, x) == Cardinality({i \in DOMAIN s : s[i] = x})
Waiting == Count(queue, "stop")
Exiting == Count(frames, "exit")

Events == {"open", "tap", "stop"}
IsSeq(s) == \E S : s \in Seq(S)
Editing == On({"editor", "select"})

-----------------------------------------------------------------------------
(* The inductive invariant *)

(* The stack, the queue, the stops, and when the application runs. *)
ControlInv ==
  /\ Stacked(frames)
  /\ running <=> frames # <<>>
  /\ queue \in Seq(Events)
  /\ \A i \in DOMAIN queue : queue[i] = "open" =>
       i = 1 /\ Len(frames) = 1 /\ script = None /\ ~desc
  /\ asked \in Nat
  /\ running => Waiting = asked + Exiting

(* Who has the text.  The editor takes it from the main form. *)
TextInv ==
  /\ script \in Handles \cup {None} /\ field \in Handles \cup {None}
  /\ NoTextLeaked
  /\ field # None => Editing
  /\ Editing => script = None
  /\ ~running => script = None /\ ~desc
  /\ Editing /\ field = None /\ ~failed => agreed = record

(* The output store, while there is one, and the list of the memos. *)
FormInv ==
  /\ maxlines \in Nat /\ maxlines >= MinLines
  /\ store # 0 => store = maxlines /\ desc
  /\ IsSeq(memos)
  /\ On({"select"}) => \A i \in DOMAIN list.names : list.names[i] = memos[list.recno[i]]

IInv == ControlInv /\ TextInv /\ FormInv /\ TextKept

-----------------------------------------------------------------------------
(* Lemmas about counting *)

LEMMA CountNat ==
  ASSUME NEW S, NEW s \in Seq(S), NEW x
  PROVE  IsFiniteSet({i \in DOMAIN s : s[i] = x}) /\ Count(s, x) \in Nat
<1>1. Len(s) \in Nat /\ DOMAIN s = 1 .. Len(s) /\ 1 \in Int /\ Len(s) \in Int
  OBVIOUS
<1>2. IsFiniteSet(1 .. Len(s))  BY <1>1, FS_Interval
<1>3. {i \in DOMAIN s : s[i] = x} \in SUBSET (1 .. Len(s))  BY <1>1
<1>4. IsFiniteSet({i \in DOMAIN s : s[i] = x})  BY <1>2, <1>3, FS_Subset
<1> QED  BY <1>4, FS_CardinalityType DEF Count

(* Another one at the end. *)
LEMMA CountAppend ==
  ASSUME NEW S, NEW s \in Seq(S), NEW y \in S, NEW x
  PROVE  Count(Append(s, y), x) = Count(s, x) + IF y = x THEN 1 ELSE 0
<1> DEFINE t == Append(s, y)
           P == {i \in DOMAIN s : s[i] = x}
           Q == {i \in DOMAIN t : t[i] = x}
<1>1. /\ Len(s) \in Nat /\ DOMAIN s = 1 .. Len(s) /\ DOMAIN t = 1 .. Len(s) + 1
      /\ t[Len(s) + 1] = y /\ \A i \in 1 .. Len(s) : t[i] = s[i]
  BY AppendProperties
<1> DEFINE n == Len(s) + 1
<1>2. n \in Nat /\ n \notin DOMAIN s /\ DOMAIN t = DOMAIN s \cup {n}  BY <1>1
<1>3. t[n] = y /\ \A i \in DOMAIN s : t[i] = s[i]  BY <1>1
<1>4. IsFiniteSet(P) /\ Cardinality(P) \in Nat  BY CountNat DEF Count
<1>5. Count(Append(s, y), x) = Cardinality(Q) /\ Count(s, x) = Cardinality(P)
  BY DEF Count
<1> HIDE DEF n, t
<1>6. ASSUME y = x PROVE Q = P \cup {n} /\ n \notin P  BY <1>2, <1>3, <1>6
<1>7. ASSUME y # x PROVE Q = P  BY <1>2, <1>3, <1>7
<1> HIDE DEF P, Q
<1>8. y = x => Cardinality(Q) = Cardinality(P) + 1
  BY <1>6, <1>4, FS_AddElement
<1>9. y # x => Cardinality(Q) = Cardinality(P)  BY <1>7
<1> QED  BY <1>4, <1>5, <1>8, <1>9

(* The last one gone. *)
LEMMA CountFront ==
  ASSUME NEW S, NEW s \in Seq(S), s # <<>>, NEW x
  PROVE  Count(s, x) = Count(Front(s), x) + IF Last(s) = x THEN 1 ELSE 0
<1>1. Len(s) \in Nat /\ Len(s) >= 1 /\ Len(s) - 1 \in 0 .. Len(s) /\ Last(s) = s[Len(s)] /\ Last(s) \in S
  BY DEF Last
<1>2. PICK t : t = Front(s)  OBVIOUS
<1>3. t \in Seq(S) /\ Len(t) = Len(s) - 1 /\ \A i \in 1 .. Len(s) - 1 : t[i] = s[i]
  <2>1. PICK m \in 0 .. Len(s) : m = Len(s) - 1  BY <1>1
  <2>2. t = SubSeq(s, 1, m)  BY <1>2, <2>1 DEF Front
  <2>3. 1 <= m + 1 /\ Len(s) \in Nat  BY <2>1, <1>1
  <2>4. t \in Seq(S) /\ Len(t) = m /\ \A i \in 1 .. m : t[i] = s[i]
    BY <2>2, <2>3, SubSeqProperties
  <2> QED  BY <2>1, <2>4
<1>4. /\ Append(t, Last(s)) \in Seq(S) /\ Len(Append(t, Last(s))) = Len(s)
      /\ \A i \in 1 .. Len(s) : Append(t, Last(s))[i] = s[i]
  BY <1>1, <1>3, AppendProperties
<1>5. Append(t, Last(s)) = s  BY <1>4, SeqEqual
<1>6. Count(Append(t, Last(s)), x) = Count(t, x) + IF Last(s) = x THEN 1 ELSE 0
  BY <1>1, <1>3, CountAppend
<1> QED  BY <1>2, <1>5, <1>6

(* The first one gone: the others move down by one. *)
LEMMA CountTail ==
  ASSUME NEW S, NEW s \in Seq(S), s # <<>>, NEW x
  PROVE  Count(s, x) = Count(Tail(s), x) + IF Head(s) = x THEN 1 ELSE 0
<1>1. PICK t : t = Tail(s)  OBVIOUS
<1>2. /\ Len(s) \in Nat /\ Len(s) >= 1 /\ DOMAIN s = 1 .. Len(s) /\ Head(s) = s[1]
      /\ t \in Seq(S) /\ DOMAIN t = 1 .. Len(s) - 1 /\ \A i \in 1 .. Len(s) - 1 : t[i] = s[i + 1]
  BY <1>1, HeadTailProperties
<1> DEFINE P == {i \in DOMAIN t : t[i] = x}
           Q == {i \in DOMAIN s : s[i] = x}
           R == {i \in DOMAIN s : s[i] = x} \ {1}
           up == [i \in P |-> i + 1]
<1>3. P \subseteq Nat /\ \A i \in P : i + 1 \in R
  BY <1>2
<1>4. \A j \in R : j - 1 \in P /\ (j - 1) + 1 = j
  BY <1>2
<1>5. up \in Bijection(P, R)
  <2>1. up \in [P -> R]  BY <1>3
  <2>2. \A i, k \in P : up[i] = up[k] => i = k  BY <1>3
  <2>3. \A j \in R : \E i \in P : up[i] = j
    <3> TAKE j \in R
    <3>1. j - 1 \in P /\ up[j - 1] = j  BY <1>4
    <3> QED  BY <3>1
  <2>4. up \in Injection(P, R)  BY <2>1, <2>2 DEF Injection, IsInjective
  <2>5. up \in Surjection(P, R)  BY <2>1, <2>3 DEF Surjection
  <2> QED  BY <2>4, <2>5 DEF Bijection
<1>6. IsFiniteSet(P) /\ Cardinality(P) \in Nat  BY <1>2, CountNat DEF Count
<1>7. IsFiniteSet(Q) /\ Cardinality(Q) \in Nat  BY CountNat DEF Count
<1> HIDE DEF up
<1>8. Cardinality(R) = Cardinality(P)
  <2>1. ExistsBijection(P, R)  BY <1>5 DEF ExistsBijection
  <2> HIDE DEF P, R
  <2> QED  BY <2>1, <1>6, FS_Bijection
<1>9. Cardinality(R) = IF 1 \in Q THEN Cardinality(Q) - 1 ELSE Cardinality(Q)
  <2>1. R = Q \ {1}  OBVIOUS
  <2> HIDE DEF Q, R
  <2> QED  BY <2>1, <1>7, FS_RemoveElement
<1>10. 1 \in Q <=> Head(s) = x  BY <1>2
<1>11. Count(s, x) = Cardinality(Q) /\ Count(Tail(s), x) = Cardinality(P)
  BY <1>1 DEF Count
<1> HIDE DEF P, Q, R
<1> QED  BY <1>6, <1>7, <1>8, <1>9, <1>10, <1>11

-----------------------------------------------------------------------------
(* Lemmas about the stack *)

(* The top of a stack is one of its frames. *)
LEMMA TopIn ==
  ASSUME NEW s, Stacked(s), s # <<>>
  PROVE  /\ Len(s) \in Nat /\ Len(s) >= 1 /\ DOMAIN s = 1 .. Len(s)
         /\ Last(s) = s[Len(s)] /\ Last(s) \in Kinds
BY DEF Stacked, Last

(* Calls: what the code may start is put on top. *)
LEMMA Pushed ==
  ASSUME NEW s, NEW f \in Kinds, Stacked(s), s # <<>>, f \in Above(Last(s))
  PROVE  LET t == Append(s, f)
         IN  /\ Stacked(t) /\ t # <<>> /\ Last(t) = f
             /\ Count(t, "exit") = Count(s, "exit") + IF f = "exit" THEN 1 ELSE 0
<1> DEFINE t == Append(s, f)
<1>1. Len(s) \in Nat /\ Len(s) >= 1 /\ DOMAIN s = 1 .. Len(s) /\ Last(s) = s[Len(s)]
  BY TopIn
<1>2. s \in Seq(Kinds)  BY DEF Stacked
<1>3. /\ t \in Seq(Kinds) /\ t # <<>> /\ Len(t) = Len(s) + 1 /\ t[Len(s) + 1] = f
      /\ \A i \in 1 .. Len(s) : t[i] = s[i]
      /\ DOMAIN t = 1 .. Len(s) + 1
  BY <1>2, AppendProperties
<1>4. Last(t) = f  BY <1>1, <1>3 DEF Last
<1>5. t[1] = "main"  BY <1>1, <1>3 DEF Stacked
<1>6. ASSUME NEW i \in DOMAIN t, i + 1 \in DOMAIN t
      PROVE  t[i + 1] \in Above(t[i])
  <2>1. CASE i = Len(s)  BY <2>1, <1>1, <1>3
  <2>2. CASE i # Len(s)
    <3>1. i \in DOMAIN s /\ i + 1 \in DOMAIN s  BY <2>2, <1>1, <1>3, <1>6
    <3> QED  BY <3>1, <1>1, <1>3 DEF Stacked
  <2> QED  BY <2>1, <2>2
<1>7. Stacked(t)  BY <1>3, <1>5, <1>6 DEF Stacked
<1>8. Count(t, "exit") = Count(s, "exit") + IF f = "exit" THEN 1 ELSE 0
  BY <1>2, CountAppend
<1> QED  BY <1>3, <1>4, <1>7, <1>8

(* Returns: what is left ends in what had started the top. *)
LEMMA Popped ==
  ASSUME NEW s, Stacked(s), s # <<>>, Last(s) # "main"
  PROVE  LET t == Front(s)
         IN  /\ Stacked(t) /\ t # <<>> /\ Last(s) \in Above(Last(t))
             /\ Count(s, "exit") = Count(t, "exit") + IF Last(s) = "exit" THEN 1 ELSE 0
<1> DEFINE t == Front(s)
<1>1. Len(s) \in Nat /\ Len(s) >= 1 /\ DOMAIN s = 1 .. Len(s) /\ Last(s) = s[Len(s)]
  BY TopIn
<1>2. Len(s) # 1  BY <1>1 DEF Stacked
<1>3. s \in Seq(Kinds)  BY DEF Stacked
<1>4. t \in Seq(Kinds) /\ Len(t) = Len(s) - 1 /\ \A i \in 1 .. Len(s) - 1 : t[i] = s[i]
  BY <1>1, <1>2, <1>3, SubSeqProperties DEF Front
<1>5. DOMAIN t = 1 .. Len(s) - 1 /\ t # <<>> /\ Last(t) = s[Len(s) - 1]
  BY <1>1, <1>2, <1>4 DEF Last
<1>6. Last(s) \in Above(Last(t))
  <2>1. PICK i \in DOMAIN s : i + 1 = Len(s) /\ i = Len(s) - 1 /\ i + 1 \in DOMAIN s
    <3>1. Len(s) - 1 \in DOMAIN s /\ Len(s) - 1 + 1 = Len(s) /\ Len(s) \in DOMAIN s
      BY <1>1, <1>2
    <3> QED  BY <3>1
  <2>2. s[i + 1] \in Above(s[i])  BY <2>1, <1>1 DEF Stacked
  <2> QED  BY <2>1, <2>2, <1>1, <1>5
<1>7. \A i \in DOMAIN t : i \in DOMAIN s /\ t[i] = s[i]  BY <1>1, <1>4, <1>5
<1>8. t[1] = "main"  BY <1>1, <1>2, <1>4 DEF Stacked
<1>9. Stacked(t)  BY <1>4, <1>7, <1>8 DEF Stacked
<1>10. Count(s, "exit") = Count(t, "exit") + IF Last(s) = "exit" THEN 1 ELSE 0
  BY <1>3, CountFront
<1> QED  BY <1>5, <1>6, <1>9, <1>10

(* The main loop is at the bottom only. *)
LEMMA MainAlone ==
  ASSUME NEW s, Stacked(s), s # <<>>, Last(s) = "main"
  PROVE  Len(s) = 1
<1>1. Len(s) \in Nat /\ Len(s) >= 1 /\ DOMAIN s = 1 .. Len(s) /\ Last(s) = s[Len(s)]
  BY TopIn
<1>2. ASSUME Len(s) # 1 PROVE FALSE
  <2>1. PICK i \in DOMAIN s : i + 1 = Len(s)
    <3>1. Len(s) - 1 \in DOMAIN s /\ Len(s) - 1 + 1 = Len(s)  BY <1>1, <1>2
    <3> QED  BY <3>1
  <2>2. s[i + 1] \in Above(s[i])  BY <2>1, <1>1 DEF Stacked
  <2>3. "main" \in Above(s[i])  BY <2>1, <2>2, <1>1
  <2> QED  BY <2>3 DEF Above
<1> QED  BY <1>2

(* Events: the opening of the main form is the first one of a session, and *)
(* a stop counts until it is taken.                                        *)
LEMMA Taken ==
  ASSUME NEW e, ControlInv, queue # <<>>, Head(queue) = e,
         \/ queue' = Tail(queue)
         \/ queue' = queue /\ e # "open"
  PROVE  /\ queue' \in Seq(Events)
         /\ \A i \in DOMAIN queue' : queue'[i] # "open"
         /\ e = "open" => Len(frames) = 1 /\ script = None /\ ~desc
         /\ Waiting' \in Nat
         /\ e # "stop" \/ queue' = queue => Waiting' = Waiting
         /\ e = "stop" /\ queue' = Tail(queue) => Waiting = Waiting' + 1
<1>1. /\ queue \in Seq(Events) /\ Len(queue) \in Nat /\ Len(queue) >= 1
      /\ DOMAIN queue = 1 .. Len(queue) /\ Head(queue) = queue[1]
  BY DEF ControlInv
<1>2. \A i \in DOMAIN queue : queue[i] = "open" => i = 1  BY DEF ControlInv
<1>3. PICK q : q = queue'  OBVIOUS
<1>4. Waiting' = Count(q, "stop")  BY <1>3 DEF Waiting, Count
<1>5. CASE queue' = queue /\ e # "open"
  <2>1. q = queue /\ Waiting' = Waiting  BY <1>3, <1>4, <1>5 DEF Waiting
  <2>2. Waiting' \in Nat  BY <2>1, <1>1, CountNat DEF Waiting
  <2>3. queue # Tail(queue)
    <3>1. PICK n \in Nat : n = Len(queue)  BY <1>1
    <3>2. Len(Tail(queue)) = n - 1  BY <1>1, <3>1, HeadTailProperties
    <3>3. n - 1 # n  OBVIOUS
    <3> QED  BY <3>1, <3>2, <3>3
  <2> QED  BY <1>1, <1>2, <1>5, <2>1, <2>2, <2>3
<1>6. CASE queue' = Tail(queue)
  <2>1. /\ queue' \in Seq(Events) /\ DOMAIN queue' = 1 .. Len(queue) - 1
        /\ \A i \in 1 .. Len(queue) - 1 : queue'[i] = queue[i + 1]
    BY <1>1, <1>6, HeadTailProperties
  <2>2. ASSUME NEW i \in DOMAIN queue' PROVE queue'[i] # "open"
    <3>1. i + 1 \in DOMAIN queue /\ i + 1 # 1 /\ queue'[i] = queue[i + 1]  BY <2>1, <1>1
    <3> QED  BY <3>1, <1>2
  <2>3. e = "open" => Len(frames) = 1 /\ script = None /\ ~desc
    BY <1>1 DEF ControlInv
  <2>4. q \in Seq(Events) /\ Waiting' \in Nat  BY <1>3, <1>4, <2>1, CountNat
  <2>5. Waiting = Waiting' + IF e = "stop" THEN 1 ELSE 0
    <3>1. Count(queue, "stop") = Count(Tail(queue), "stop") + IF Head(queue) = "stop" THEN 1 ELSE 0
      BY <1>1, CountTail
    <3> QED  BY <3>1, <1>3, <1>4, <1>6 DEF Waiting
  <2>6. queue' # queue
    <3>1. Len(queue') = Len(queue) - 1  BY <1>1, <1>6, HeadTailProperties
    <3> QED  BY <3>1, <1>1
  <2>7. /\ e # "stop" => Waiting' = Waiting
        /\ e = "stop" => Waiting = Waiting' + 1
    <3>1. Waiting' + 0 = Waiting'
      <4>1. \A n \in Nat : n + 0 = n  OBVIOUS
      <4>2. Waiting' \in Nat  BY <2>4
      <4> QED  BY <4>1, <4>2, Zenon
    <3>2. e = "stop" => Waiting = Waiting' + 1  BY <2>5
    <3>3. e # "stop" => Waiting = Waiting' + 0  BY <2>5
    <3>4. e # "stop" => Waiting' = Waiting  BY <3>1, <3>3
    <3> QED  BY <3>2, <3>4
  <2> QED  BY <2>1, <2>2, <2>3, <2>4, <2>6, <2>7
<1> QED  BY <1>5, <1>6

(* What ControlInv comes to when no opening waits. *)
LEMMA ControlKept ==
  ASSUME Stacked(frames'), running' <=> frames' # <<>>, queue' \in Seq(Events),
         \A i \in DOMAIN queue' : queue'[i] # "open",
         asked' \in Nat, running' => Waiting' = asked' + Exiting'
  PROVE  ControlInv'
BY DEF ControlInv

-----------------------------------------------------------------------------
(* IInv, action by action: first those that leave the stack as it is *)

LEMMA LaunchInv == IInv /\ Launch => IInv'
<1> SUFFICES ASSUME IInv, Launch PROVE IInv'  OBVIOUS
<1>1. /\ frames' = <<"main">> /\ Len(frames') = 1 /\ frames' # <<>>
      /\ DOMAIN frames' = {1} /\ frames'[1] = "main" /\ Last(frames') = "main"
  BY DEF Launch, Last
<1>2. frames = <<>> /\ script = None /\ ~desc /\ field = None
  BY DEF IInv, ControlInv, TextInv, Launch, Editing, On
<1>3. queue' = <<"open">> /\ queue' \in Seq(Events) /\ DOMAIN queue' = {1} /\ queue'[1] = "open"
  BY DEF Launch, Events
<1>4. Waiting' = 0 /\ Exiting' = 0
  <2>1. {i \in DOMAIN queue' : queue'[i] = "stop"} = {} /\ {i \in DOMAIN frames' : frames'[i] = "exit"} = {}
    BY <1>1, <1>3
  <2> QED  BY <2>1, FS_EmptySet DEF Waiting, Exiting, Count
<1>5. ControlInv'
  <2>1. frames' \in Seq(Kinds)  BY <1>1 DEF Kinds, Loops
  <2>2. Stacked(frames')  BY <1>1, <2>1 DEF Stacked
  <2>3. asked' = 0 /\ running'  BY DEF Launch
  <2> QED  BY <1>1, <1>2, <1>3, <1>4, <2>2, <2>3 DEF ControlInv, Launch, memory
<1>6. ~Editing'  BY <1>1 DEF Editing, On
<1>7. TextInv' /\ FormInv' /\ TextKept'
  BY <1>1, <1>2, <1>6 DEF IInv, TextInv, FormInv, TextKept, Launch, NoTextLeaked,
       memory, others, Allocated, On, Editing
<1> QED  BY <1>5, <1>7 DEF IInv

LEMMA PostInv == \A event \in {"tap", "stop"} : IInv /\ Post(event) => IInv'
<1> SUFFICES ASSUME NEW event \in {"tap", "stop"}, IInv, Post(event) PROVE IInv'  OBVIOUS
<1>1. /\ queue \in Seq(Events) /\ event \in Events /\ queue' = Append(queue, event)
  BY DEF IInv, ControlInv, Post, Events
<1>2. /\ queue' \in Seq(Events) /\ Len(queue) \in Nat /\ DOMAIN queue' = 1 .. Len(queue) + 1
      /\ DOMAIN queue = 1 .. Len(queue) /\ queue'[Len(queue) + 1] = event
      /\ \A i \in 1 .. Len(queue) : queue'[i] = queue[i]
  BY <1>1, AppendProperties
<1>3. asked' \in Nat /\ (running' => Waiting' = asked' + Exiting')
  <2>1. Waiting' = Waiting + IF event = "stop" THEN 1 ELSE 0
    <3>1. PICK q : q = queue'  OBVIOUS
    <3>2. Waiting' = Count(q, "stop") /\ q = Append(queue, event)  BY <3>1, <1>1 DEF Waiting, Count
    <3> QED  BY <3>2, <1>1, CountAppend DEF Waiting
  <2>2. Exiting' = Exiting  BY DEF Post, Exiting, Count
  <2>3. asked \in Nat /\ (running => Waiting = asked + Exiting) /\ running
    BY DEF IInv, ControlInv, Post
  <2>4. Exiting \in Nat  BY CountNat DEF Exiting, IInv, ControlInv, Stacked
  <2>5. asked' = asked + IF event = "stop" THEN 1 ELSE 0  BY DEF Post
  <2> QED  BY <2>1, <2>2, <2>3, <2>4, <2>5
<1>4. ControlInv'
  <2>1. Stacked(frames') /\ (running' <=> frames' # <<>>)  BY DEF IInv, ControlInv, Post
  <2>2. \A i \in DOMAIN queue' : queue'[i] = "open" =>
          i = 1 /\ Len(frames') = 1 /\ script' = None /\ ~desc'
    BY <1>2 DEF IInv, ControlInv, Post, memory
  <2> QED  BY <1>2, <1>3, <2>1, <2>2 DEF ControlInv
<1>5. TextInv' /\ FormInv' /\ TextKept'
  BY DEF IInv, TextInv, FormInv, TextKept, Post, NoTextLeaked,
       memory, others, Allocated, On, Editing
<1> QED  BY <1>4, <1>5 DEF IInv

(* What every event that leaves the stack as it is has in common. *)
LEMMA StayControl ==
  ASSUME IInv, NEW e \in {"open", "tap"}, queue # <<>>, Head(queue) = e, queue' = Tail(queue),
         UNCHANGED <<running, frames, asked>>
  PROVE  ControlInv'
<1>1. /\ queue' \in Seq(Events) /\ \A i \in DOMAIN queue' : queue'[i] # "open"
      /\ Waiting' = Waiting
  BY Taken DEF IInv
<1>2. Exiting' = Exiting  BY DEF Exiting, Count
<1>3. asked' \in Nat /\ (running' => Waiting' = asked' + Exiting')
  BY <1>1, <1>2 DEF IInv, ControlInv
<1>4. Stacked(frames') /\ (running' <=> frames' # <<>>)  BY DEF IInv, ControlInv
<1> QED  BY <1>1, <1>3, <1>4, ControlKept

(* A session begins with the text of the database, if it can be had. *)
LEMMA OpenMainInv == IInv /\ OpenMain => IInv'
<1> SUFFICES ASSUME IInv, OpenMain PROVE IInv'  OBVIOUS
<1>1. script = None /\ ~desc /\ frames # <<>> /\ Last(frames) = "main"
  BY Taken DEF IInv, OpenMain, Takes, On
<1>2. ~Editing /\ field = None /\ Allocated = {} /\ running
  <2>1. ~Editing /\ field = None
    BY <1>1 DEF IInv, TextInv, Editing, On
  <2>2. Allocated = {}  BY <1>1, <2>1 DEF IInv, TextInv, NoTextLeaked
  <2> QED  BY <1>1, <2>1, <2>2 DEF IInv, ControlInv
<1>3. ControlInv'  BY StayControl DEF OpenMain, Takes, history
<1>4. agreed = record \/ failed
  BY <1>1, <1>2 DEF IInv, TextKept, Editing
<1>5. CASE UNCHANGED <<script, text>>
  <2>1. TextInv' /\ TextKept'
    BY <1>1, <1>2, <1>4, <1>5 DEF IInv, TextInv, TextKept, OpenMain, NoTextLeaked,
       history, Allocated, On, Editing
  <2> QED  BY <1>3, <2>1, <1>2 DEF IInv, FormInv, OpenMain, On
<1>6. CASE \E h \in Handles \ Allocated :
             desc' = TRUE /\ script' = h /\ text' = Holding(h, record)
  <2>1. PICK h \in Handles : desc' = TRUE /\ script' = h /\ text' = Holding(h, record)
    BY <1>6
  <2>2. DOMAIN text' = {h} /\ text'[h] = record /\ h # None
    BY <1>2, <2>1, AppAssumption DEF Holding
  <2>3. TextInv' /\ TextKept'
    BY <1>1, <1>2, <1>4, <2>1, <2>2 DEF IInv, TextInv, TextKept, OpenMain,
       NoTextLeaked, history, Allocated, On, Editing
  <2> QED  BY <1>3, <2>1, <2>3, <1>2 DEF IInv, FormInv, OpenMain, On
<1> QED  BY <1>5, <1>6 DEF OpenMain

LEMMA TapElsewhereInv == IInv /\ TapElsewhere => IInv'
<1> SUFFICES ASSUME IInv, TapElsewhere PROVE IInv'  OBVIOUS
<1>1. ControlInv'  BY StayControl DEF TapElsewhere, Takes, history
<1> QED
  BY <1>1 DEF IInv, TextInv, FormInv, TextKept, TapElsewhere, NoTextLeaked,
       memory, others, history, Allocated, On, Editing

LEMMA TapEraseInv == IInv /\ TapErase => IInv'
<1> SUFFICES ASSUME IInv, TapErase PROVE IInv'  OBVIOUS
<1>1. ControlInv'  BY StayControl DEF TapErase, Takes, history
<1>2. FormInv'  BY DEF IInv, FormInv, TapErase, memory, On
<1>3. TextInv' /\ TextKept'
  BY DEF IInv, TextInv, TextKept, TapErase, NoTextLeaked, memory, history, Allocated, On, Editing
<1> QED  BY <1>1, <1>2, <1>3 DEF IInv

(* The first edit of an empty field makes the block of the text. *)
LEMMA TapEditInv == IInv /\ TapEdit => IInv'
<1> SUFFICES ASSUME IInv, TapEdit PROVE IInv'  OBVIOUS
<1>1. ControlInv'  BY StayControl DEF TapEdit, Takes
<1>2. Editing /\ Editing' /\ script = None /\ script' = None
  BY DEF IInv, TextInv, TapEdit, Editing, On
<1>3. PICK h \in Handles : field' = h /\ DOMAIN text' = {h} /\ h # None
  <2>1. PICK h \in IF field = None THEN Handles \ Allocated ELSE {field} :
           field' = h /\ text' = Holding(h, edits + 1)
    BY DEF TapEdit
  <2>2. Allocated = {field} \ {None}  BY <1>2 DEF IInv, TextInv, NoTextLeaked
  <2>3. h \in Handles /\ h # None  BY <2>1, AppAssumption DEF IInv, TextInv
  <2> QED  BY <2>1, <2>2, <2>3 DEF Holding
<1>4. TextInv' /\ TextKept'
  BY <1>2, <1>3 DEF IInv, TextInv, TextKept, TapEdit, NoTextLeaked, Allocated, Editing
<1> QED
  BY <1>1, <1>4 DEF IInv, FormInv, TapEdit, others, On

-----------------------------------------------------------------------------
(* Calls *)

(* What every call of the event loops has in common. *)
LEMMA CallControl ==
  ASSUME NEW f \in Kinds \ {"exit"}, IInv, queue # <<>>, queue' = Tail(queue),
         Head(queue) = "tap", frames # <<>>, frames' = Append(frames, f), f \in Above(Last(frames)),
         UNCHANGED <<running, asked>>
  PROVE  ControlInv' /\ frames' # <<>> /\ Last(frames') = f
<1>1. /\ queue' \in Seq(Events) /\ \A i \in DOMAIN queue' : queue'[i] # "open"
      /\ Waiting' = Waiting
  BY Taken DEF IInv
<1>2. Stacked(frames)  BY DEF IInv, ControlInv
<1>3. PICK s : s = frames' /\ s = Append(frames, f)  OBVIOUS
<1>4. /\ Stacked(s) /\ s # <<>> /\ Last(s) = f
      /\ Count(s, "exit") = Count(frames, "exit") + 0
  BY <1>2, <1>3, Pushed
<1>5. Exiting' = Exiting
  <2>1. Count(frames, "exit") \in Nat  BY <1>2, CountNat DEF Stacked
  <2>2. Count(s, "exit") = Count(frames, "exit")  BY <2>1, <1>4
  <2> QED  BY <2>2, <1>3 DEF Exiting, Count
<1>6. asked' \in Nat /\ (running' => Waiting' = asked' + Exiting')
  BY <1>1, <1>5 DEF IInv, ControlInv
<1> QED  BY <1>1, <1>3, <1>4, <1>6, ControlKept DEF IInv, ControlInv

LEMMA TapRunInv == IInv /\ (TapRun \/ TapSetup \/ TapAlert) => IInv'
<1> SUFFICES ASSUME IInv, TapRun \/ TapSetup \/ TapAlert PROVE IInv'  OBVIOUS
<1>1. PICK f \in {"script", "setup", "alert"} : frames' = Append(frames, f)
  BY DEF TapRun, TapSetup, TapAlert
<1>2. /\ frames # <<>> /\ Last(frames) \in Loops /\ queue # <<>> /\ Head(queue) = "tap"
      /\ queue' = Tail(queue) /\ UNCHANGED <<others, running, memory, record, history>>
  BY DEF TapRun, TapSetup, TapAlert, Takes, On
<1>3. f \in Kinds \ {"exit"} /\ f \in Above(Last(frames))
  BY <1>1, <1>2 DEF Above, Kinds, Dialogs, Loops
<1>4. ControlInv' /\ frames' # <<>> /\ Last(frames') = f
  BY <1>1, <1>2, <1>3, CallControl DEF history
<1>5. ~Editing /\ ~Editing' /\ ~On({"select"})'
  BY <1>1, <1>2, <1>4 DEF Editing, On, Loops
<1>6. TextInv' /\ TextKept' /\ FormInv'
  BY <1>2, <1>5 DEF IInv, TextInv, TextKept, FormInv, NoTextLeaked,
       memory, others, history, Allocated, Editing
<1> QED  BY <1>4, <1>6 DEF IInv

(* The editor takes the text over. *)
LEMMA TapSourceInv == IInv /\ TapSource => IInv'
<1> SUFFICES ASSUME IInv, TapSource PROVE IInv'  OBVIOUS
<1>1. "editor" \in Kinds \ {"exit"} /\ "editor" \in Above(Last(frames)) /\ frames # <<>>
  BY DEF TapSource, On, Above, Kinds, Dialogs, Loops
<1>2. ControlInv' /\ frames' # <<>> /\ Last(frames') = "editor"
  BY <1>1, CallControl DEF TapSource, Takes, history
<1>3. ~Editing /\ Editing' /\ field = None
  BY <1>2 DEF IInv, TextInv, TapSource, Editing, On, Loops
<1>4. TextInv' /\ TextKept'
  BY <1>3 DEF IInv, TextInv, TextKept, TapSource, NoTextLeaked, history, Allocated,
       Editing
<1>5. FormInv'  BY <1>2 DEF IInv, FormInv, TapSource, others, On
<1> QED  BY <1>2, <1>4, <1>5 DEF IInv

(* The list of the memos shows their texts as they are. *)
LEMMA TapMemosInv == IInv /\ TapMemos => IInv'
<1> SUFFICES ASSUME IInv, TapMemos PROVE IInv'  OBVIOUS
<1>1. "select" \in Kinds \ {"exit"} /\ "select" \in Above(Last(frames)) /\ frames # <<>>
  BY DEF TapMemos, On, Above, Kinds, Dialogs, Loops
<1>2. ControlInv' /\ frames' # <<>> /\ Last(frames') = "select"
  BY <1>1, CallControl DEF TapMemos, Takes, history
<1>3. Editing /\ Editing'
  BY <1>2 DEF TapMemos, Editing, On
<1>4. TextInv' /\ TextKept'
  BY <1>3 DEF IInv, TextInv, TextKept, TapMemos, NoTextLeaked, memory, history, Allocated,
       Editing
<1>5. \A i \in DOMAIN list'.names : list'.names[i] = memos'[list'.recno[i]]
  BY DEF TapMemos, Listed
<1>6. FormInv'  BY <1>5 DEF IInv, FormInv, TapMemos, memory
<1> QED  BY <1>2, <1>4, <1>6 DEF IInv

-----------------------------------------------------------------------------
(* Returns *)

(* What every return has in common: below the top is what had started it. *)
LEMMA ReturnControl ==
  ASSUME IInv, frames # <<>>, Last(frames) # "main", frames' = Front(frames),
         queue' \in Seq(Events), \A i \in DOMAIN queue' : queue'[i] # "open",
         Waiting = Waiting' + IF Last(frames) = "exit" THEN 1 ELSE 0, Waiting' \in Nat,
         UNCHANGED <<running, asked>>
  PROVE  ControlInv' /\ frames' # <<>> /\ Last(frames) \in Above(Last(frames'))
<1>1. Stacked(frames)  BY DEF IInv, ControlInv
<1>2. PICK s : s = frames' /\ s = Front(frames)  OBVIOUS
<1>3. /\ Stacked(s) /\ s # <<>> /\ Last(frames) \in Above(Last(s))
      /\ Count(frames, "exit") = Count(s, "exit") + IF Last(frames) = "exit" THEN 1 ELSE 0
  BY <1>1, <1>2, Popped
<1>4. Exiting = Exiting' + IF Last(frames) = "exit" THEN 1 ELSE 0
  BY <1>2, <1>3 DEF Exiting, Count
<1>5. Exiting' \in Nat
  <2>1. Count(s, "exit") \in Nat  BY <1>3, CountNat DEF Stacked
  <2> QED  BY <2>1, <1>2 DEF Exiting, Count
<1>6. asked' \in Nat /\ (running' => Waiting' = asked' + Exiting')
  <2>1. asked \in Nat /\ asked' = asked /\ running' = running
        /\ (running => Waiting = asked + Exiting)
    BY DEF IInv, ControlInv
  <2>2. PICK n \in {0, 1} : n = IF Last(frames) = "exit" THEN 1 ELSE 0  OBVIOUS
  <2>3. Waiting = Waiting' + n /\ Exiting = Exiting' + n  BY <2>2, <1>4
  <2>4. PICK w \in Nat, x \in Nat : w = Waiting' /\ x = Exiting'  BY <1>5
  <2>5. running => w + n = asked + (x + n)  BY <2>1, <2>3, <2>4
  <2>6. running => w = asked + x
    <3>1. PICK a \in Nat : a = asked  BY <2>1
    <3>2. w \in Nat /\ x \in Nat /\ n \in Nat  BY <2>2, <2>4
    <3>3. w + n = a + (x + n) => w = a + x  BY <3>1, <3>2
    <3> QED  BY <2>5, <3>1, <3>3
  <2>7. running' => Waiting' = asked' + Exiting'  BY <2>1, <2>4, <2>6
  <2> QED  BY <2>1, <2>7
<1> QED  BY <1>2, <1>3, <1>6, ControlKept DEF IInv, ControlInv

(* A dialog over the event loops or a script closes.  Its stop, if it was  *)
(* one, waits for the loop below.                                          *)
LEMMA LeaveInv ==
  ASSUME IInv, On({"editor", "select", "setup", "alert"}), frames' = Front(frames),
         queue # <<>>, \/ Head(queue) = "tap" /\ queue' = Tail(queue)
                       \/ Head(queue) = "stop" /\ queue' = queue,
         UNCHANGED <<running, asked>>
  PROVE  /\ ControlInv' /\ frames' # <<>> /\ Last(frames) \in Above(Last(frames'))
         /\ ~On({"select"})'
         /\ ~On({"editor"}) => (Editing <=> Editing')
         /\ On({"editor"}) => Last(frames') \in Loops
<1>1. /\ queue' \in Seq(Events) /\ \A i \in DOMAIN queue' : queue'[i] # "open"
      /\ Waiting' = Waiting /\ Waiting' \in Nat
  BY Taken DEF IInv
<1>2. frames # <<>> /\ Last(frames) \notin {"main", "exit"}  BY DEF On
<1>3. ControlInv' /\ frames' # <<>> /\ Last(frames) \in Above(Last(frames'))
  BY <1>1, <1>2, ReturnControl
<1>4. PICK k : k = Last(frames')  OBVIOUS
<1>5. Last(frames) \in Above(k)  BY <1>3, <1>4
<1>6. k # "select"  BY <1>5 DEF Above, Loops
<1>7. Last(frames) = "select" => k = "editor"  BY <1>5 DEF Above, Loops
<1>8. Last(frames) \in {"setup", "alert"} => k \notin {"editor", "select"}
  BY <1>5 DEF Above, Loops
<1>9. Last(frames) = "editor" => k \in Loops  BY <1>5 DEF Above
<1>10. ~On({"select"})'  BY <1>4, <1>6 DEF On
<1>11. ~On({"editor"}) => (Editing <=> Editing')
  BY <1>3, <1>4, <1>7, <1>8 DEF On, Editing
<1>12. On({"editor"}) => Last(frames') \in Loops  BY <1>4, <1>9 DEF On
<1> QED  BY <1>3, <1>10, <1>11, <1>12

(* The editor closes, with or without a copy of its text for the main      *)
(* form, from which a script may be run.                                   *)
LEMMA ClosedInv ==
  ASSUME IInv, On({"editor"}), NEW copy \in Handles \cup {None}, NEW runs \in BOOLEAN,
         Closed(copy, runs), copy # None => copy \notin Allocated /\ field # None,
         queue # <<>>, \/ Head(queue) = "tap" /\ queue' = Tail(queue)
                       \/ Head(queue) = "stop" /\ queue' = queue,
         UNCHANGED <<others, running, desc, record, asked>>
  PROVE  /\ ControlInv' /\ FormInv' /\ ~Editing'
         /\ script' = copy /\ field' = None
         /\ DOMAIN text' = {copy} \ {None}
         /\ copy # None => text'[copy] = text[field]
<1> DEFINE under == Front(frames)
<1>1. /\ Stacked(frames) /\ frames # <<>> /\ Last(frames) = "editor" /\ script = None
  BY DEF IInv, ControlInv, TextInv, On, Editing
<1>2. /\ Stacked(under) /\ under # <<>> /\ "editor" \in Above(Last(under))
      /\ Count(frames, "exit") = Count(under, "exit") + 0
  BY <1>1, Popped
<1>3. Last(under) \in Loops  BY <1>2 DEF Above
<1>4. script' = copy /\ field' = None  BY DEF Closed
<1>5. DOMAIN text' = {copy} \ {None} /\ (copy # None => text'[copy] = text[field])
  <2>1. Allocated = {field} \ {None}  BY <1>1 DEF IInv, TextInv, NoTextLeaked
  <2>2. CASE copy = None
    BY <2>1, <2>2 DEF Closed, Without, Allocated
  <2>3. CASE copy # None
    <3>1. text' = Without(Holding(copy, text[field]), field)  BY <2>3 DEF Closed
    <3>2. Allocated = {field} /\ copy # field  BY <2>1, <2>3
    <3>3. DOMAIN Holding(copy, text[field]) = {field, copy}
      BY <3>2 DEF Holding, Allocated
    <3>4. Holding(copy, text[field])[copy] = text[field]  BY DEF Holding
    <3> QED  BY <2>3, <3>1, <3>2, <3>3, <3>4 DEF Without
  <2> QED  BY <2>2, <2>3
<1>6. CASE ~(runs /\ copy # None)
  <2>1. frames' = under  BY <1>6 DEF Closed
  <2>2. On({"editor", "select", "setup", "alert"})  BY <1>1 DEF On
  <2>3. ControlInv' /\ frames' # <<>> /\ Last(frames') \in Loops
    BY <2>1, <2>2, LeaveInv
  <2>4. ~Editing' /\ FormInv'
    BY <2>3 DEF Editing, On, IInv, FormInv, others, Loops
  <2> QED  BY <2>3, <2>4, <1>4, <1>5
<1>7. CASE runs /\ copy # None
  <2>1. "script" \in Kinds /\ "script" \in Above(Last(under))  BY <1>3 DEF Above, Kinds, Loops
  <2>2. PICK s : s = frames' /\ s = Append(under, "script")  BY <1>7 DEF Closed
  <2>3. /\ Stacked(s) /\ s # <<>> /\ Last(s) = "script"
        /\ Count(s, "exit") = Count(under, "exit") + 0
    BY <2>1, <2>2, <1>2, Pushed
  <2>4. Exiting' = Exiting
    <3>1. Count(under, "exit") \in Nat  BY <1>2, CountNat DEF Stacked
    <3>2. Count(s, "exit") = Count(frames, "exit")  BY <3>1, <2>3, <1>2
    <3> QED  BY <3>2, <2>2 DEF Exiting, Count
  <2>5. /\ queue' \in Seq(Events) /\ \A i \in DOMAIN queue' : queue'[i] # "open"
        /\ Waiting' = Waiting
    BY Taken DEF IInv
  <2>6. running' /\ asked' \in Nat /\ Waiting' = asked' + Exiting'
    BY <1>1, <2>4, <2>5 DEF IInv, ControlInv
  <2>7. ControlInv'  BY <2>2, <2>3, <2>5, <2>6, ControlKept
  <2>8. ~Editing' /\ FormInv'
    BY <2>2, <2>3 DEF Editing, On, IInv, FormInv, others
  <2> QED  BY <2>7, <2>8, <1>4, <1>5
<1> QED  BY <1>6, <1>7

LEMMA TapButtonInv == IInv /\ TapButton => IInv'
<1> SUFFICES ASSUME IInv, TapButton PROVE IInv'  OBVIOUS
<1>1. /\ On({"editor"}) /\ Editing /\ script = None
      /\ queue # <<>> /\ Head(queue) = "tap" /\ queue' = Tail(queue)
      /\ UNCHANGED <<others, running, desc, record, asked>>
  BY DEF IInv, TextInv, TapButton, Takes, On, Editing
<1>2. running  BY <1>1 DEF IInv, ControlInv, On
<1>3. PICK runs \in BOOLEAN :
       \/ field = None /\ Closed(None, runs) /\ UNCHANGED <<agreed, failed>>
       \/ /\ field # None
          /\ \E h \in Handles \ Allocated : Closed(h, runs)
          /\ agreed' = text[field]
       \/ field # None /\ Closed(None, runs) /\ failed' = TRUE
  BY DEF TapButton
<1>4. CASE Closed(None, runs) /\ (failed' = TRUE \/ (field = None /\ UNCHANGED <<agreed, failed>>))
  <2>1. /\ ControlInv' /\ FormInv' /\ ~Editing'
        /\ script' = None /\ field' = None /\ DOMAIN text' = {}
    BY <1>1, <1>4, ClosedInv
  <2>2. TextInv'  BY <2>1, <1>1, <1>2 DEF TextInv, NoTextLeaked, Allocated
  <2>3. CASE failed' = TRUE  BY <2>1, <2>2, <2>3 DEF IInv, TextKept
  <2>4. CASE field = None /\ UNCHANGED <<agreed, failed>>
    <3>1. failed \/ agreed = record  BY <1>1, <2>4 DEF IInv, TextInv
    <3>2. TextKept'  BY <2>1, <2>4, <3>1, <1>1 DEF TextKept
    <3> QED  BY <2>1, <2>2, <3>2 DEF IInv
  <2> QED  BY <2>3, <2>4, <1>4
<1>5. CASE /\ field # None
           /\ \E h \in Handles \ Allocated : Closed(h, runs)
           /\ agreed' = text[field]
  <2>1. PICK h \in Handles \ Allocated : Closed(h, runs)  BY <1>5
  <2>2. h # None  BY AppAssumption
  <2>3. /\ ControlInv' /\ FormInv' /\ ~Editing'
        /\ script' = h /\ field' = None /\ DOMAIN text' = {h} \ {None}
        /\ text'[h] = text[field]
    BY <1>1, <1>5, <2>1, <2>2, ClosedInv
  <2>4. TextInv'  BY <2>2, <2>3, <1>1, <1>2 DEF TextInv, NoTextLeaked, Allocated
  <2>5. TextKept'  BY <2>2, <2>3, <1>1, <1>2, <1>5 DEF TextKept
  <2> QED  BY <2>3, <2>4, <2>5 DEF IInv
<1> QED  BY <1>3, <1>4, <1>5

LEMMA StopEditorInv == IInv /\ StopEditor => IInv'
<1> SUFFICES ASSUME IInv, StopEditor PROVE IInv'  OBVIOUS
<1>1. /\ On({"editor"}) /\ running
      /\ queue # <<>> /\ Head(queue) = "stop" /\ queue' = queue
      /\ UNCHANGED <<others, running, desc, record, asked>>
  BY DEF IInv, ControlInv, StopEditor, On
<1>2. /\ ControlInv' /\ FormInv' /\ ~Editing'
      /\ script' = None /\ field' = None /\ DOMAIN text' = {}
  BY <1>1, ClosedInv DEF StopEditor
<1>3. TextInv'  BY <1>1, <1>2 DEF TextInv, NoTextLeaked, Allocated
<1>4. TextKept'  BY DEF TextKept, StopEditor
<1> QED  BY <1>2, <1>3, <1>4 DEF IInv

LEMMA TapCancelInv == IInv /\ (TapCancel \/ StopDialog \/ TapAnswer) => IInv'
<1> SUFFICES ASSUME IInv, TapCancel \/ StopDialog \/ TapAnswer PROVE IInv'  OBVIOUS
<1>1. /\ On({"editor", "select", "setup", "alert"}) /\ ~On({"editor"}) /\ frames' = Front(frames)
      /\ UNCHANGED <<running, memory, record, memos, maxlines, store, history>>
      /\ queue # <<>>
      /\ \/ Head(queue) = "tap" /\ queue' = Tail(queue)
         \/ Head(queue) = "stop" /\ queue' = queue
  BY DEF TapCancel, StopDialog, TapAnswer, LeaveList, Takes, On, others
<1>2. ControlInv' /\ ~On({"select"})' /\ (Editing <=> Editing')
  BY <1>1, LeaveInv DEF history
<1>3. TextInv' /\ TextKept' /\ FormInv'
  BY <1>1, <1>2 DEF IInv, TextInv, TextKept, FormInv, NoTextLeaked, memory, history,
       Allocated, Editing
<1> QED  BY <1>2, <1>3 DEF IInv

LEMMA TapApplyInv == IInv /\ TapApply => IInv'
<1> SUFFICES ASSUME IInv, TapApply PROVE IInv'  OBVIOUS
<1>1. /\ On({"editor", "select", "setup", "alert"}) /\ ~On({"editor"}) /\ frames' = Front(frames)
      /\ UNCHANGED <<running, memory, record, memos, list, history>>
      /\ queue # <<>> /\ Head(queue) = "tap" /\ queue' = Tail(queue)
  BY DEF TapApply, On, Takes
<1>2. ControlInv' /\ ~On({"select"})' /\ (Editing <=> Editing')
  BY <1>1, LeaveInv DEF history
<1>3. TextInv' /\ TextKept'
  BY <1>1, <1>2 DEF IInv, TextInv, TextKept, NoTextLeaked, memory, history, Allocated, Editing
<1>4. FormInv'
  <2>1. PICK n \in Lines, other \in BOOLEAN : Applied(IF n < MinLines THEN MinLines ELSE n, other)
    BY DEF TapApply
  <2> DEFINE m == IF n < MinLines THEN MinLines ELSE n
  <2>2. m \in Nat /\ m >= MinLines  BY AppAssumption
  <2>3. /\ maxlines' = m
        /\ store' \in IF (m # maxlines \/ other) /\ desc THEN {0, m} ELSE {store}
    BY <2>1 DEF Applied
  <2>4. maxlines' \in Nat /\ maxlines' >= MinLines  BY <2>2, <2>3
  <2>5. store' # 0 => store' = maxlines' /\ desc'
    BY <2>3, <1>1 DEF IInv, FormInv, memory
  <2>6. IsSeq(memos)'  BY <1>1 DEF IInv, FormInv, IsSeq
  <2> QED  BY <2>4, <2>5, <2>6, <1>2 DEF FormInv
<1> QED  BY <1>2, <1>3, <1>4 DEF IInv
(* Loading a memo: into the text that there is, or as a new one. *)
LEMMA TapLoadInv == IInv /\ TapLoad => IInv'
<1> SUFFICES ASSUME IInv, TapLoad PROVE IInv'  OBVIOUS
<1>1. /\ On({"select"}) /\ On({"editor", "select", "setup", "alert"}) /\ ~On({"editor"})
      /\ frames' = Front(frames)
      /\ UNCHANGED <<running, desc, script, record, memos, maxlines, store>>
      /\ UNCHANGED <<agreed, failed, asked>>
      /\ queue # <<>> /\ Head(queue) = "tap" /\ queue' = Tail(queue)
  BY DEF TapLoad, On, LeaveList, Takes
<1>2. Editing  BY <1>1 DEF On, Editing
<1>3. ControlInv' /\ ~On({"select"})' /\ Editing /\ Editing'
  BY <1>1, <1>2, LeaveInv
<1>4. /\ field' \in Handles \cup {None} /\ DOMAIN text' = {field'} \ {None}
      /\ field' = None => field = None
  <2>1. Allocated = {field} \ {None} /\ field \in Handles \cup {None}
    BY <1>3 DEF IInv, TextInv, NoTextLeaked
  <2>2. CASE field # None /\ text' = Holding(field, edits + 1) /\ UNCHANGED field
    BY <2>1, <2>2 DEF Holding
  <2>3. ASSUME NEW i \in DOMAIN list.names, field = None,
               \E h \in Handles \ Allocated : field' = h /\ text' = Holding(h, memos[list.recno[i]])
        PROVE  field' \in Handles /\ DOMAIN text' = {field'} \ {None} /\ field' # None
    BY <2>1, <2>3, AppAssumption DEF Holding
  <2>4. CASE UNCHANGED <<field, text>>  BY <2>1, <2>4 DEF Allocated
  <2> QED  BY <2>2, <2>3, <2>4 DEF TapLoad
<1>5. TextInv'
  BY <1>1, <1>3, <1>4 DEF IInv, TextInv, NoTextLeaked, Allocated
<1>6. TextKept'  BY <1>3 DEF TextKept, Editing
<1>7. FormInv'  BY <1>1, <1>3 DEF IInv, FormInv
<1> QED  BY <1>3, <1>5, <1>6, <1>7 DEF IInv

(* Saving a memo changes the text of a memo, or adds one. *)
LEMMA TapSaveInv == IInv /\ (TapSave \/ TapSaveNew) => IInv'
<1> SUFFICES ASSUME IInv, TapSave \/ TapSaveNew PROVE IInv'  OBVIOUS
<1>1. /\ On({"select"}) /\ On({"editor", "select", "setup", "alert"}) /\ ~On({"editor"})
      /\ frames' = Front(frames)
      /\ UNCHANGED <<running, memory, record, maxlines, store, history>>
      /\ queue # <<>> /\ Head(queue) = "tap" /\ queue' = Tail(queue)
  BY DEF TapSave, TapSaveNew, On, LeaveList, Takes
<1>2. Editing  BY <1>1 DEF On, Editing
<1>3. ControlInv' /\ ~On({"select"})' /\ Editing /\ Editing'
  BY <1>1, <1>2, LeaveInv DEF memory, history
<1>4. IsSeq(memos')
  <2>1. PICK S : memos \in Seq(S)  BY DEF IInv, FormInv, IsSeq
  <2>2. ASSUME NEW x PROVE memos \in Seq(S \cup {x})
    <3>1. Len(memos) \in Nat /\ memos \in [1 .. Len(memos) -> S]  BY <2>1
    <3>2. memos \in [1 .. Len(memos) -> S \cup {x}]  BY <3>1
    <3> QED  BY <3>1, <3>2, SeqDef
  <2>3. ASSUME NEW r, NEW x, memos' = [memos EXCEPT ![r] = x]
        PROVE  IsSeq(memos')
    <3> DEFINE T == S \cup {x}
    <3>1. memos \in Seq(T)  BY <2>2
    <3> HIDE DEF T
    <3>2. Len(memos) \in Nat /\ memos \in [1 .. Len(memos) -> T]  BY <3>1
    <3>3. x \in T  BY DEF T
    <3>4. memos' \in [1 .. Len(memos) -> T]  BY <3>2, <3>3, <2>3
    <3>5. memos' \in Seq(T)  BY <3>2, <3>4, SeqDef
    <3> QED  BY <3>5 DEF IsSeq
  <2>4. ASSUME NEW x, memos' = Append(memos, x)
        PROVE  IsSeq(memos')
    <3>1. memos \in Seq(S \cup {x}) /\ x \in S \cup {x}  BY <2>2
    <3>2. memos' \in Seq(S \cup {x})  BY <3>1, <2>4, AppendProperties
    <3> QED  BY <3>2 DEF IsSeq
  <2>5. CASE memos' = memos  BY <2>1, <2>5 DEF IsSeq
  <2>6. \/ memos' = memos
        \/ \E r, x : memos' = [memos EXCEPT ![r] = x]
        \/ \E x : memos' = Append(memos, x)
    BY DEF TapSave, TapSaveNew
  <2> QED  BY <2>3, <2>4, <2>5, <2>6
<1>5. TextInv'
  BY <1>1, <1>3 DEF IInv, TextInv, NoTextLeaked, Allocated, memory, history
<1>6. TextKept'  BY <1>3 DEF TextKept, Editing
<1>7. FormInv'  BY <1>1, <1>3, <1>4 DEF IInv, FormInv, memory
<1> QED  BY <1>3, <1>5, <1>6, <1>7 DEF IInv

(* A script or the event loop of exit() returns, this one with a stop. *)
LEMMA ScriptEndsInv == IInv /\ (ScriptEnds \/ StopExit) => IInv'
<1> SUFFICES ASSUME IInv, ScriptEnds \/ StopExit PROVE IInv'  OBVIOUS
<1>1. /\ frames # <<>> /\ Last(frames) \in {"script", "exit"} /\ frames' = Front(frames)
      /\ UNCHANGED <<others, running, memory, record, history>>
  BY DEF ScriptEnds, StopExit, On
<1>2. /\ queue' \in Seq(Events) /\ \A i \in DOMAIN queue' : queue'[i] # "open"
      /\ Waiting = Waiting' + (IF Last(frames) = "exit" THEN 1 ELSE 0) /\ Waiting' \in Nat
  <2>1. CASE StopExit
    <3>1. Last(frames) = "exit" /\ queue # <<>> /\ Head(queue) = "stop" /\ queue' = Tail(queue)
      BY <2>1 DEF StopExit, On, Takes
    <3> QED  BY <3>1, Taken DEF IInv
  <2>2. CASE ScriptEnds
    <3>1. /\ queue' = queue /\ queue \in Seq(Events) /\ DOMAIN queue = 1 .. Len(queue)
          /\ Last(frames) = "script"
      BY <2>2 DEF IInv, ControlInv, ScriptEnds, On
    <3>2. Len(frames) # 1
      <4>1. Stacked(frames)  BY DEF IInv, ControlInv
      <4> QED  BY <4>1, <1>1, TopIn DEF Stacked
    <3>3. Waiting' = Waiting  BY <3>1 DEF Waiting, Count
    <3>4. Waiting \in Nat  BY <3>1, CountNat DEF Waiting
    <3> QED  BY <3>1, <3>2, <3>3, <3>4 DEF IInv, ControlInv
  <2> QED  BY <2>1, <2>2
<1>3. ControlInv' /\ frames' # <<>> /\ Last(frames) \in Above(Last(frames'))
  BY <1>1, <1>2, ReturnControl DEF history
<1>4. Last(frames') \in {"main", "exit", "script"}  BY <1>1, <1>3 DEF Above, Loops
<1>5. ~Editing /\ ~Editing' /\ ~On({"select"})'  BY <1>1, <1>4 DEF Editing, On
<1>6. TextInv' /\ TextKept' /\ FormInv'
  BY <1>1, <1>5 DEF IInv, TextInv, TextKept, FormInv, NoTextLeaked, memory, others, history,
       Allocated, Editing
<1> QED  BY <1>3, <1>6 DEF IInv

(* exit() posts a stop with its loop; a dialog for input posts none. *)
LEMMA ScriptExitsInv == IInv /\ (ScriptExits \/ ScriptAsks) => IInv'
<1> SUFFICES ASSUME IInv, ScriptExits \/ ScriptAsks PROVE IInv'  OBVIOUS
<1>1. PICK f \in {"exit", "alert"} :
        /\ frames' = Append(frames, f)
        /\ queue' = IF f = "exit" THEN Append(queue, "stop") ELSE queue
  BY DEF ScriptExits, ScriptAsks
<1>2. /\ Stacked(frames) /\ frames # <<>> /\ Last(frames) = "script"
      /\ UNCHANGED <<others, running, memory, record, history>>
  BY DEF IInv, ControlInv, ScriptExits, ScriptAsks, On
<1>3. f \in Kinds /\ f \in Above(Last(frames))
  BY <1>1, <1>2 DEF Above, Kinds, Dialogs, Loops
<1>4. PICK s : s = frames' /\ s = Append(frames, f)  BY <1>1
<1>5. /\ Stacked(s) /\ s # <<>> /\ Last(s) = f
      /\ Count(s, "exit") = Count(frames, "exit") + IF f = "exit" THEN 1 ELSE 0
  BY <1>2, <1>3, <1>4, Pushed
<1>6. Exiting' = Exiting + IF f = "exit" THEN 1 ELSE 0
  BY <1>4, <1>5 DEF Exiting, Count
<1>7. /\ queue \in Seq(Events) /\ Len(queue) \in Nat /\ DOMAIN queue = 1 .. Len(queue)
      /\ \A i \in DOMAIN queue : queue[i] # "open"
  BY <1>2, TopIn DEF IInv, ControlInv, Stacked
<1>8. /\ queue' \in Seq(Events) /\ \A i \in DOMAIN queue' : queue'[i] # "open"
      /\ Waiting' = Waiting + IF f = "exit" THEN 1 ELSE 0
  <2>1. CASE f = "exit"
    <3>1. PICK q : q = queue' /\ q = Append(queue, "stop") /\ "stop" \in Events
      BY <2>1, <1>1 DEF Events
    <3>2. /\ q \in Seq(Events) /\ DOMAIN q = 1 .. Len(queue) + 1
          /\ q[Len(queue) + 1] = "stop" /\ \A i \in 1 .. Len(queue) : q[i] = queue[i]
      BY <3>1, <1>7, AppendProperties
    <3>3. \A i \in DOMAIN q : q[i] # "open"  BY <3>2, <1>7
    <3>4. Count(q, "stop") = Count(queue, "stop") + 1  BY <3>1, <1>7, CountAppend
    <3> QED  BY <2>1, <3>1, <3>2, <3>3, <3>4 DEF Waiting, Count
  <2>2. CASE f # "exit"
    <3>1. queue' = queue  BY <2>2, <1>1
    <3>2. Waiting' = Waiting /\ Waiting \in Nat  BY <3>1, <1>7, CountNat DEF Waiting, Count
    <3> QED  BY <2>2, <3>1, <3>2, <1>7
  <2> QED  BY <2>1, <2>2
<1>9. asked' \in Nat /\ Waiting' = asked' + Exiting' /\ running' /\ running
  <2>1. asked \in Nat /\ running /\ Waiting = asked + Exiting /\ asked' = asked /\ running' = running
    BY <1>2 DEF IInv, ControlInv, history
  <2>2. Exiting \in Nat  BY <1>2, CountNat DEF Exiting, Stacked
  <2>3. CASE f = "exit"  BY <2>1, <2>2, <2>3, <1>6, <1>8
  <2>4. CASE f # "exit"  BY <2>1, <2>2, <2>4, <1>6, <1>8
  <2> QED  BY <2>3, <2>4
<1>10. ControlInv'  BY <1>4, <1>5, <1>8, <1>9, ControlKept
<1>11. ~Editing /\ ~Editing' /\ ~On({"select"})'  BY <1>1, <1>2, <1>4, <1>5 DEF Editing, On
<1>12. TextInv' /\ TextKept' /\ FormInv'
  BY <1>2, <1>11 DEF IInv, TextInv, TextKept, FormInv, NoTextLeaked, memory, others, history,
       Allocated, Editing
<1> QED  BY <1>10, <1>12 DEF IInv

(* The application stops from the main loop, where the editor is closed. *)
LEMMA StopMainInv == IInv /\ StopMain => IInv'
<1> SUFFICES ASSUME IInv, StopMain PROVE IInv'  OBVIOUS
<1>1. queue' \in Seq(Events) /\ \A i \in DOMAIN queue' : queue'[i] # "open"
  BY Taken DEF IInv, StopMain, Takes
<1>2. Stacked(<<>>)  BY DEF Stacked
<1>3. ControlInv'  BY <1>1, <1>2, ControlKept DEF IInv, ControlInv, StopMain
<1>4. ~Editing /\ ~Editing' /\ field = None /\ Allocated = {script} \ {None} /\ running
  BY DEF IInv, ControlInv, TextInv, StopMain, NoTextLeaked, Editing, On
<1>5. DOMAIN text' = {}  BY <1>4 DEF StopMain, Without, Allocated
<1>6. TextInv'
  BY <1>4, <1>5 DEF TextInv, StopMain, NoTextLeaked, Allocated
<1>7. TextKept'  BY <1>4 DEF IInv, TextKept, StopMain, Editing
<1>8. FormInv'  BY <1>4 DEF IInv, FormInv, StopMain, On
<1> QED  BY <1>3, <1>6, <1>7, <1>8 DEF IInv

LEMMA InitInv == Init => IInv
<1> SUFFICES ASSUME Init PROVE IInv  OBVIOUS
<1>1. Stacked(<<>>) /\ <<>> \in Seq(Events)  BY DEF Stacked
<1>2. ControlInv  BY <1>1 DEF Init, ControlInv
<1>3. ~Editing  BY DEF Init, Editing, On
<1>4. TextInv /\ TextKept
  BY <1>3 DEF Init, TextInv, TextKept, NoTextLeaked, Allocated
<1>5. memos \in Seq(Nat)
  <2>1. Memos \in Nat /\ memos \in [1 .. Memos -> Nat]  BY AppAssumption DEF Init
  <2> QED  BY <2>1, SeqDef
<1>6. ~On({"select"})  BY DEF Init, On
<1>7. IsSeq(memos)  BY <1>5 DEF IsSeq
<1>8. FormInv  BY <1>6, <1>7, AppAssumption DEF Init, FormInv
<1> QED  BY <1>2, <1>4, <1>8 DEF IInv

LEMMA StepInv == IInv /\ [Next]_vars => IInv'
<1> SUFFICES ASSUME IInv, [Next]_vars PROVE IInv'  OBVIOUS
<1>1. CASE UNCHANGED vars
  BY <1>1 DEF IInv, ControlInv, TextInv, FormInv, TextKept, NoTextLeaked,
       Allocated, Editing, On, Waiting, Exiting, Count, vars, memory, others, history
<1>2. CASE Launch \/ \E event \in {"tap", "stop"} : Post(event)
  BY <1>2, LaunchInv, PostInv
<1>3. CASE OpenMain \/ TapElsewhere \/ TapEdit \/ TapErase
  BY <1>3, OpenMainInv, TapElsewhereInv, TapEditInv, TapEraseInv
<1>4. CASE TapRun \/ TapSource \/ TapMemos \/ TapSetup \/ TapAlert \/ ScriptExits \/ ScriptAsks
  BY <1>4, TapRunInv, TapSourceInv, TapMemosInv, ScriptExitsInv
<1>5. CASE TapButton \/ StopEditor \/ TapLoad \/ TapSave \/ TapSaveNew
  BY <1>5, TapButtonInv, StopEditorInv, TapLoadInv, TapSaveInv
<1>6. CASE TapCancel \/ StopDialog \/ TapAnswer \/ TapApply \/ StopExit \/ StopMain \/ ScriptEnds
  BY <1>6, TapCancelInv, TapApplyInv, ScriptEndsInv, StopMainInv
<1> QED  BY <1>1, <1>2, <1>3, <1>4, <1>5, <1>6 DEF Next, Handle

LEMMA Inductive == Spec => []IInv
BY InitInv, StepInv, PTL DEF Spec

-----------------------------------------------------------------------------
(* TextKept: the text that the user last closed the editor with is never   *)
(* lost, however scripts, exit() and the editor nest, until one of the     *)
(* losses of the code itself: no memory for the copy, a stop while the     *)
(* editor is open, a database that cannot be written, which is not even    *)
(* told.  When the editor is then closed with a text, it holds again.      *)
THEOREM ScriptTextKept == Spec => []TextKept
<1>1. IInv => TextKept  BY DEF IInv
<1> QED  BY <1>1, Inductive, PTL

(* NoTextLeaked: what is allocated is the main form's or the editor's, and *)
(* no block is both's.                                                     *)
THEOREM TextOwned == Spec => []NoTextLeaked
<1>1. IInv => NoTextLeaked  BY DEF IInv, TextInv
<1> QED  BY <1>1, Inductive, PTL

(* StopsKept: the stops that wait are those of the system and one for each *)
(* exit() that runs, however scripts and event loops nest, whichever loop  *)
(* takes which: exit() costs no stop of the system and adds none.          *)
THEOREM StopsCounted == Spec => []StopsKept
<1>1. IInv => StopsKept  BY DEF IInv, ControlInv, StopsKept, Waiting, Exiting, Count
<1> QED  BY <1>1, Inductive, PTL

(* SetupInForce: the output store goes by the number of lines of the setup.*)
THEOREM SetupKept == Spec => []SetupInForce
<1>1. IInv => SetupInForce  BY DEF IInv, FormInv, SetupInForce
<1> QED  BY <1>1, Inductive, PTL

(* MemoChosen: what is saved to or loaded from a memo is that one whose    *)
(* title the user has tapped, whatever titles could not be shown.          *)
THEOREM MemosAsChosen == Spec => MemoChosen
<1> DEFINE Saved(r) ==
             /\ \E i \in DOMAIN list.names : list.names[i] = memos[r]
             /\ memos'[r] = IF field = None THEN Junk ELSE text[field]
           Loaded == \E i \in DOMAIN list.names : list.names[i] = text'[field']
           Chosen ==
             /\ \A r \in DOMAIN memos : memos'[r] # memos[r] => Saved(r)
             /\ On({"select"}) /\ field = None /\ field' # None => Loaded
<1>1. ASSUME IInv, TapSave PROVE Chosen
  <2>1. UNCHANGED field  BY <1>1 DEF TapSave, memory
  <2>2. \A i \in DOMAIN list.names : list.names[i] = memos[list.recno[i]]
    BY <1>1 DEF IInv, FormInv, TapSave
  <2>3. ASSUME NEW r \in DOMAIN memos, memos'[r] # memos[r] PROVE Saved(r)
    <3>1. PICK i \in DOMAIN list.names :
            \/ field # None /\ memos' = [memos EXCEPT ![list.recno[i]] = text[field]]
            \/ field = None /\ memos' = [memos EXCEPT ![list.recno[i]] = Junk]
      BY <1>1, <2>3 DEF TapSave
    <3>2. list.recno[i] = r  BY <2>3, <3>1
    <3> QED  BY <2>2, <3>1, <3>2
  <2> QED  BY <2>1, <2>3
<1>2. ASSUME IInv, TapSaveNew PROVE Chosen
  <2>1. UNCHANGED field  BY <1>2 DEF TapSaveNew, memory
  <2>2. PICK S : memos \in Seq(S)  BY <1>2 DEF IInv, FormInv, IsSeq
  <2>3. PICK t : memos' = Append(memos, t)  BY <1>2 DEF TapSaveNew
  <2>4. \A r \in DOMAIN memos : memos'[r] = memos[r]
    <3>1. Len(memos) \in Nat /\ DOMAIN memos = 1 .. Len(memos)  BY <2>2
    <3> QED  BY <2>2, <2>3, <3>1
  <2> QED  BY <2>1, <2>4
<1>3. ASSUME IInv, TapLoad PROVE Chosen
  <2>1. UNCHANGED memos  BY <1>3 DEF TapLoad
  <2>2. ASSUME field = None, field' # None PROVE Loaded
    <3>1. PICK i \in DOMAIN list.names, h \in Handles \ Allocated :
            field' = h /\ text' = Holding(h, memos[list.recno[i]])
      BY <1>3, <2>2 DEF TapLoad
    <3>2. text'[field'] = memos[list.recno[i]]  BY <3>1 DEF Holding
    <3>3. list.names[i] = memos[list.recno[i]]  BY <1>3, <3>1 DEF IInv, FormInv, TapLoad
    <3> QED  BY <3>2, <3>3
  <2> QED  BY <2>1, <2>2
<1>4. ASSUME [Next]_vars, ~TapSave, ~TapSaveNew, ~TapLoad PROVE Chosen
  <2>1. UNCHANGED memos
    BY <1>4 DEF Next, Handle, Launch, Post, OpenMain, TapElsewhere, TapEdit, TapRun, TapSource,
         TapMemos, TapSetup, TapErase, TapAlert, TapAnswer, ScriptExits, ScriptAsks, TapButton,
         StopEditor, StopDialog, TapCancel, TapApply, StopExit, StopMain, ScriptEnds, vars, others
  <2>2. On({"select"}) => UNCHANGED field
    BY <1>4 DEF Next, Handle, Launch, Post, OpenMain, TapElsewhere, TapEdit, TapRun, TapSource,
         TapMemos, TapSetup, TapErase, TapAlert, TapAnswer, ScriptExits, ScriptAsks, TapButton,
         StopEditor, StopDialog, TapCancel, TapApply, StopExit, StopMain, ScriptEnds, vars, memory,
         On, Loops, Dialogs
  <2> QED  BY <2>1, <2>2
<1>5. IInv /\ [Next]_vars => [Chosen]_vars
  BY <1>1, <1>2, <1>3, <1>4
<1> QED  BY <1>5, Inductive, PTL DEF Spec, MemoChosen

-----------------------------------------------------------------------------
(* Standard input *)

Inputs == [made : BOOLEAN, error : BOOLEAN, eofpend : BOOLEAN, eofsent : BOOLEAN,
           chars : Seq(Text), room : Nat]
Ungets == {<<>>} \union {<<c>> : c \in Text \union {EOF}}
Reading == [reads : {"nothing", "line", "chars", "number", "test"}, due : Nat]

InputTypes ==
  /\ input \in Inputs
  /\ stream \in [eof : BOOLEAN, err : BOOLEAN, unget : Ungets]
  /\ call \in Reading /\ (call.reads = "chars" => call.due >= 1)
  /\ owed \in Seq(Text)

InputInv ==
  /\ InputTypes
  /\ NothingLost
  /\ input.eofsent => input.chars = <<>>
  /\ stream.eof => call = NoCall /\ input.eofsent /\ Real(stream.unget) = <<>>

-----------------------------------------------------------------------------
(* The least element that Cut takes exists. *)
LEMMA MinIn ==
  ASSUME NEW T, T \subseteq Nat, T # {}
  PROVE  Min(T) \in T /\ \A y \in T : Min(T) <= y
<1>1. PICK R : R = OpToRel(<, Nat)  OBVIOUS
<1>2. IsWellFoundedOn(R, Nat)  BY <1>1, NatLessThanWellFounded
<1>3. PICK x \in T : \A y \in T : ~(<<y, x>> \in R)  BY <1>2, WFMin
<1>4. \A y \in T : x <= y
  <2>1. SUFFICES ASSUME NEW y \in T, ~(x <= y) PROVE FALSE  OBVIOUS
  <2>2. x \in Nat /\ y \in Nat /\ y < x  BY <2>1
  <2>3. <<y, x>> \in R  BY <2>2, <1>1 DEF OpToRel
  <2> QED  BY <2>3, <1>3
<1> QED  BY <1>4 DEF Min

(* Text cut in two, and put together again. *)
LEMMA Parts ==
  ASSUME NEW s \in Seq(Text), NEW k \in 0 .. Len(s)
  PROVE  /\ SubSeq(s, 1, k) \in Seq(Text) /\ Dropped(s, k) \in Seq(Text)
         /\ Len(SubSeq(s, 1, k)) = k
         /\ \A i \in 1 .. k : SubSeq(s, 1, k)[i] = s[i]
         /\ SubSeq(s, 1, k) \o Dropped(s, k) = s
         /\ k = Len(s) => SubSeq(s, 1, k) = s /\ Dropped(s, k) = <<>>
<1>1. Len(s) \in Nat /\ k \in Nat /\ k <= Len(s) /\ \A i \in 1 .. Len(s) : s[i] \in Text
  BY LenProperties
<1>2. SubSeq(s, 1, k) \in Seq(Text) /\ Len(SubSeq(s, 1, k)) = k
      /\ \A i \in 1 .. k : SubSeq(s, 1, k)[i] = s[i]
  <2>1. \A i \in 1 .. k : s[i] \in Text  BY <1>1
  <2>2. 1 \in Int /\ k \in Int  BY <1>1
  <2>3. /\ SubSeq(s, 1, k) \in Seq(Text)
        /\ Len(SubSeq(s, 1, k)) = IF 1 <= k THEN k - 1 + 1 ELSE 0
        /\ \A i \in 1 .. k - 1 + 1 : SubSeq(s, 1, k)[i] = s[1 + i - 1]
    BY <2>1, <2>2, SubSeqProperties
  <2> QED  BY <2>3, <1>1
<1>3. Dropped(s, k) \in Seq(Text)
  <2>1. \A i \in k + 1 .. Len(s) : s[i] \in Text  BY <1>1
  <2>2. k + 1 \in Int /\ Len(s) \in Int  BY <1>1
  <2> QED  BY <2>1, <2>2, SubSeqProperties DEF Dropped
<1>4. SubSeq(s, 1, k) \o Dropped(s, k) = s
  <2>1. 1 \in 1 .. Len(s) + 1 /\ k \in 1 - 1 .. Len(s) /\ Len(s) \in k .. Len(s)  BY <1>1
  <2>2. SubSeq(s, 1, k) \o SubSeq(s, k + 1, Len(s)) = SubSeq(s, 1, Len(s))
    BY <2>1, ConcatAdjacentSubSeq
  <2> QED  BY <2>2, SubSeqFull DEF Dropped
<1>5. k = Len(s) => SubSeq(s, 1, k) = s /\ Dropped(s, k) = <<>>
  <2>1. ASSUME k = Len(s) PROVE SubSeq(s, k + 1, Len(s)) = <<>>
    <3>1. k + 1 \in Int /\ Len(s) \in Int /\ Len(s) < k + 1  BY <1>1, <2>1
    <3> QED  BY <3>1, SubSeqEmpty
  <2> QED  BY <2>1, SubSeqFull DEF Dropped
<1> QED  BY <1>2, <1>3, <1>4, <1>5

(* What is handed over is the beginning of what was due. *)
LEMMA CutTaken ==
  ASSUME NEW d \in Seq(Text), NEW r \in Seq(Text)
  PROVE  LET all == d \o r
         IN  /\ all \in Seq(Text) /\ Len(d) <= Len(all)
             /\ SubSeq(all, 1, Len(d)) = d /\ Dropped(all, Len(d)) = r
<1> DEFINE all == d \o r
           k == Len(d)
<1>1. /\ all \in Seq(Text) /\ Len(all) = Len(d) + Len(r)
      /\ \A i \in 1 .. Len(d) + Len(r) : all[i] = IF i <= Len(d) THEN d[i] ELSE r[i - Len(d)]
  BY ConcatProperties
<1>2. Len(d) \in Nat /\ Len(r) \in Nat  BY LenProperties
<1> HIDE DEF all
<1>3. k \in 0 .. Len(all)  BY <1>1, <1>2
<1>4. /\ SubSeq(all, 1, k) \in Seq(Text) /\ Dropped(all, k) \in Seq(Text)
      /\ Len(SubSeq(all, 1, k)) = k
      /\ \A i \in 1 .. k : SubSeq(all, 1, k)[i] = all[i]
      /\ SubSeq(all, 1, k) \o Dropped(all, k) = all
  BY <1>1, <1>3, Parts
<1>5. \A i \in 1 .. Len(d) : SubSeq(all, 1, k)[i] = d[i]  BY <1>1, <1>2, <1>4
<1>6. SubSeq(all, 1, k) = d
  <2>1. PICK h \in Seq(Text) : h = SubSeq(all, 1, k)  BY <1>4
  <2>2. Len(h) = Len(d) /\ \A i \in 1 .. Len(h) : h[i] = d[i]  BY <2>1, <1>4, <1>5
  <2> QED  BY <2>1, <2>2, SeqEqual
<1>7. d \o Dropped(all, k) = d \o r  BY <1>4, <1>6 DEF all
<1>8. Dropped(all, k) = r  BY <1>4, <1>7, ConcatSimplifications
<1> QED  BY <1>1, <1>2, <1>6, <1>8 DEF all

-----------------------------------------------------------------------------
(* A text without its beginning. *)
LEMMA BehindParts ==
  ASSUME NEW s \in Seq(Text)
  PROVE  /\ Behind(<<>>, s) = s
         /\ \A h \in Seq(Text) : Behind(h, h \o s) = s
         /\ \A h : Len(h) \in Nat => Behind(h, s) \in Seq(Text)
<1>1. Len(s) \in Nat  BY LenProperties
<1>2. Behind(<<>>, s) = s
  <2>1. Len(<<>>) = 0  OBVIOUS
  <2>2. SubSeq(s, 0 + 1, Len(s)) = s  BY <1>1, SubSeqFull
  <2> QED  BY <2>1, <2>2 DEF Behind, Dropped
<1>3. ASSUME NEW h \in Seq(Text) PROVE Behind(h, h \o s) = s
  <2>1. PICK all : all = h \o s  OBVIOUS
  <2>2. Len(h) <= Len(all) /\ SubSeq(all, 1, Len(h)) = h /\ Dropped(all, Len(h)) = s
    BY <2>1, CutTaken
  <2> QED  BY <2>1, <2>2 DEF Behind
<1>4. ASSUME NEW h, Len(h) \in Nat PROVE Behind(h, s) \in Seq(Text)
  <2>1. CASE Len(h) <= Len(s) /\ SubSeq(s, 1, Len(h)) = h
    <3>1. Len(h) \in 0 .. Len(s)  BY <1>1, <1>4, <2>1
    <3>2. Dropped(s, Len(h)) \in Seq(Text)  BY <3>1, Parts
    <3> QED  BY <2>1, <3>2 DEF Behind
  <2>2. CASE ~(Len(h) <= Len(s) /\ SubSeq(s, 1, Len(h)) = h)  BY <2>2 DEF Behind
  <2> QED  BY <2>1, <2>2
<1> QED  BY <1>2, <1>3, <1>4

-----------------------------------------------------------------------------
(* Where app_input_get cuts. *)
OneLine(s, n, whole) == whole => \A i \in 1 .. n : s[i] # NL

LEMMA Cutting ==
  ASSUME NEW s \in Seq(Text), NEW limit \in Int, limit >= 1, NEW whole \in BOOLEAN,
         NEW k, k = Cut(s, limit, whole)
  PROVE  /\ k \in 0 .. Len(s) /\ k <= limit
         /\ OneLine(s, k - 1, whole)
         /\ Stops(s, limit, whole) = {} => k = Len(s) /\ k < limit /\ OneLine(s, k, whole)
<1>1. Len(s) \in Nat  BY LenProperties
<1>2. CASE Stops(s, limit, whole) = {}
  <2>1. k = Len(s)  BY <1>2 DEF Cut
  <2>2. \A i \in 1 .. Len(s) : i # limit  BY <1>2 DEF Stops
  <2>3. k < limit  BY <1>1, <2>1, <2>2
  <2>4. OneLine(s, k, whole)  BY <1>2, <2>1 DEF Stops, OneLine
  <2>5. 1 .. k - 1 \subseteq 1 .. k  BY <1>1, <2>1
  <2>6. OneLine(s, k - 1, whole)  BY <2>4, <2>5 DEF OneLine
  <2> QED  BY <1>1, <1>2, <2>1, <2>3, <2>4, <2>6
<1>3. CASE Stops(s, limit, whole) # {}
  <2>1. PICK T : T = Stops(s, limit, whole)  OBVIOUS
  <2>2. T \subseteq 1 .. Len(s) /\ T # {} /\ T \subseteq Nat  BY <2>1, <1>1, <1>3 DEF Stops
  <2>3. k = Min(T)  BY <2>1, <1>3 DEF Cut
  <2>4. k \in T /\ \A y \in T : k <= y  BY <2>2, <2>3, MinIn
  <2>5. k <= limit
    <3>1. CASE limit \in 1 .. Len(s)
      <4>1. limit \in T  BY <3>1, <2>1 DEF Stops
      <4> QED  BY <4>1, <2>4
    <3>2. CASE limit \notin 1 .. Len(s)  BY <3>2, <1>1, <2>2, <2>4
    <3> QED  BY <3>1, <3>2
  <2>6. k \in 1 .. Len(s)  BY <2>2, <2>4
  <2>7. ASSUME whole, NEW i \in 1 .. k - 1 PROVE s[i] # NL
    <3>1. i \in 1 .. Len(s) /\ i < k  BY <2>6, <1>1
    <3>2. i \notin T  BY <3>1, <2>2, <2>4
    <3> QED  BY <3>1, <3>2, <2>1, <2>7 DEF Stops
  <2>8. OneLine(s, k - 1, whole)  BY <2>7 DEF OneLine
  <2>9. k \in 0 .. Len(s)  BY <2>6, <1>1
  <2> QED  BY <1>3, <2>5, <2>8, <2>9
<1> QED  BY <1>2, <1>3

-----------------------------------------------------------------------------
(* app_input_get: where the text is, before and after an answer. *)
Answered(a, limit, whole) ==
  /\ a.input \in Inputs /\ a.data \in Seq(Text) /\ a.typed \in Seq(Text)
  /\ Len(a.data) <= limit
  /\ OneLine(a.data, Len(a.data) - 1, whole)
  /\ ~a.input.error => input.chars \o a.typed = a.data \o a.input.chars
  /\ a.error /\ ~a.input.error => a.data = <<>>
  /\ a.eof => a.data = <<>> /\ a.input.eofsent
  /\ a.input.eofsent => a.input.chars = <<>>
  /\ input.error => a.input.error

AnswerShape(a, buffer, data, eof, typed) ==
  /\ a.input = buffer /\ a.data = data /\ a.eof = eof /\ a.typed = typed
  /\ a.error = (~buffer.made \/ buffer.error)

LEMMA AnswerIs ==
  ASSUME NEW buffer, NEW data, NEW eof, NEW button, NEW typed
  PROVE  AnswerShape(Answer(buffer, data, eof, button, typed), buffer, data, eof, typed)
BY DEF Answer, AnswerShape

LEMMA StoredIn ==
  ASSUME NEW buffer \in Inputs, NEW rest \in Seq(Text), Spare \in Nat, buffer.chars = <<>>,
         NEW b \in Stored(buffer, rest)
  PROVE  /\ b \in Inputs /\ b.made = buffer.made /\ b.eofsent = buffer.eofsent
         /\ b.error \/ b.chars = rest
         /\ buffer.error => b.error
<1>1. Len(rest) + Spare \in Nat  BY LenProperties
<1> QED  BY <1>1 DEF Stored, Inputs

(* What is cut off the typed text goes behind the head. *)
LEMMA Joined ==
  ASSUME NEW head \in Seq(Text), NEW typed \in Seq(Text), NEW k \in 0 .. Len(typed), NEW whole,
         OneLine(head, Len(head), whole), OneLine(typed, k - 1, whole)
  PROVE  LET d == head \o SubSeq(typed, 1, k)
             r == Dropped(typed, k)
         IN  /\ d \in Seq(Text) /\ r \in Seq(Text) /\ Len(d) = Len(head) + k
             /\ OneLine(d, Len(d) - 1, whole) /\ head \o typed = d \o r
<1>1. PICK h, r, d : h = SubSeq(typed, 1, k) /\ r = Dropped(typed, k) /\ d = head \o h  OBVIOUS
<1>2. Len(head) \in Nat /\ Len(typed) \in Nat /\ k \in Nat  BY LenProperties
<1>3. /\ h \in Seq(Text) /\ r \in Seq(Text) /\ Len(h) = k
      /\ \A i \in 1 .. k : h[i] = typed[i]
      /\ h \o r = typed
  BY <1>1, Parts
<1>4. /\ d \in Seq(Text) /\ Len(d) = Len(head) + k
      /\ \A i \in 1 .. Len(head) + k : d[i] = IF i <= Len(head) THEN head[i] ELSE h[i - Len(head)]
  BY <1>1, <1>3, ConcatProperties
<1>5. ASSUME whole, NEW i \in 1 .. Len(d) - 1 PROVE d[i] # NL
  <2>1. i \in 1 .. Len(head) + k - 1  BY <1>4
  <2>2. CASE i \in 1 .. Len(head)
    <3>1. d[i] = head[i]  BY <1>2, <1>4, <2>1, <2>2
    <3> QED  BY <3>1, <1>5, <2>2 DEF OneLine
  <2>3. CASE i \notin 1 .. Len(head)
    <3>1. i - Len(head) \in 1 .. k - 1  BY <1>2, <2>1, <2>3
    <3>2. PICK j \in 1 .. k - 1 : j = i - Len(head)  BY <3>1
    <3>3. d[i] = h[j] /\ h[j] = typed[j]  BY <1>2, <1>3, <1>4, <2>1, <2>3, <3>2
    <3> QED  BY <3>2, <3>3, <1>5 DEF OneLine
  <2> QED  BY <2>2, <2>3
<1>6. OneLine(d, Len(d) - 1, whole)  BY <1>5 DEF OneLine
<1>7. (head \o h) \o r = head \o (h \o r)
  <2>1. h \in Seq(Text) /\ r \in Seq(Text)  BY <1>3
  <2> QED  BY <2>1, ConcatAssociative
<1> QED  BY <1>1, <1>3, <1>4, <1>6, <1>7

LEMMA AskedIn ==
  ASSUME NEW buffer \in Inputs, NEW head \in Seq(Text), NEW limit \in Int, NEW whole \in BOOLEAN,
         Len(head) < limit, buffer.chars = <<>>, ~buffer.eofsent, buffer.made,
         OneLine(head, Len(head), whole),
         input.chars = head, input.error => buffer.error,
         NEW a \in Asked(buffer, head, limit, whole)
  PROVE  Answered(a, limit, whole)
<1>0. Len(head) \in Nat /\ Spare \in Nat  BY LenProperties, StdinAssumption
<1>1. CASE a = Answer([buffer EXCEPT !.error = TRUE], head, FALSE, "none", <<>>)
  <2>1. PICK b : b = [buffer EXCEPT !.error = TRUE]  OBVIOUS
  <2>2. b \in Inputs /\ b.error /\ ~b.eofsent  BY <2>1 DEF Inputs
  <2>3. AnswerShape(a, b, head, FALSE, <<>>)  BY <1>1, <2>1, AnswerIs
  <2>4. <<>> \in Seq(Text)  OBVIOUS
  <2>5. OneLine(head, Len(head) - 1, whole)  BY <1>0 DEF OneLine
  <2>6. a.eof = FALSE /\ a.input = b /\ a.data = head /\ a.typed = <<>>
    BY <2>3 DEF AnswerShape
  <2>7. Len(head) <= limit  BY <1>0
  <2> QED  BY <2>2, <2>4, <2>5, <2>6, <2>7 DEF Answered
<1>2. ASSUME NEW entry \in Typed(limit), NEW button \in Buttons,
             NEW typed, typed = IF button = "Newline" THEN Append(entry, NL) ELSE entry,
             NEW k, k = Cut(typed, limit - Len(head), whole),
             NEW pending, pending = [buffer EXCEPT !.eofpend = buffer.eofpend \/ button = "EOF"],
             NEW b \in Stored(pending, Dropped(typed, k)),
             a = Answer(b, head \o SubSeq(typed, 1, k), FALSE, button, typed)
      PROVE  Answered(a, limit, whole)
  <2>1. entry \in Seq(Text)
    <3>1. PICK n \in Nat : entry \in [1 .. n -> Letters]
      <4>1. PICK n \in 0 .. Larger(DialogLength, limit) : entry \in [1 .. n -> Letters]
        BY DEF Typed
      <4> QED  BY <4>1
    <3>2. entry \in [1 .. n -> Text]  BY <3>1 DEF Text
    <3> QED  BY <3>2, SeqDef
  <2>2. typed \in Seq(Text)
    <3>1. NL \in Text  BY DEF Text
    <3>2. Append(entry, NL) \in Seq(Text)  BY <2>1, <3>1, AppendProperties
    <3> QED  BY <2>1, <3>2, <1>2
  <2>3. limit - Len(head) \in Int /\ limit - Len(head) >= 1  BY <1>0
  <2>4. /\ k \in 0 .. Len(typed) /\ k <= limit - Len(head)
        /\ OneLine(typed, k - 1, whole)
    BY <2>2, <2>3, <1>2, Cutting
  <2>5. PICK d, r : d = head \o SubSeq(typed, 1, k) /\ r = Dropped(typed, k)  OBVIOUS
  <2>6. /\ d \in Seq(Text) /\ r \in Seq(Text) /\ Len(d) = Len(head) + k
        /\ OneLine(d, Len(d) - 1, whole) /\ head \o typed = d \o r
    BY <2>2, <2>4, <2>5, Joined
  <2>7. pending \in Inputs /\ pending.chars = <<>> /\ ~pending.eofsent /\ pending.made
        /\ (buffer.error => pending.error)
    BY <1>2 DEF Inputs
  <2>8. /\ b \in Inputs /\ b.made = pending.made /\ b.eofsent = pending.eofsent
        /\ b.error \/ b.chars = r
        /\ pending.error => b.error
    <3>1. b \in Stored(pending, r)  BY <1>2, <2>5
    <3> QED  BY <3>1, <1>0, <2>6, <2>7, StoredIn
  <2>9. AnswerShape(a, b, d, FALSE, typed)  BY <1>2, <2>5, AnswerIs
  <2>10. k \in Nat  BY <2>2, <2>4, LenProperties
  <2>11. Len(d) <= limit  BY <1>0, <2>4, <2>6, <2>10
  <2>12. ~b.eofsent /\ (b.error \/ b.chars = r) /\ (input.error => b.error)  BY <2>7, <2>8
  <2>13. a.error => b.error  BY <2>7, <2>8, <2>9 DEF AnswerShape
  <2>14. a.eof = FALSE /\ a.input = b /\ a.data = d /\ a.typed = typed  BY <2>9 DEF AnswerShape
  <2> QED
    BY <2>2, <2>6, <2>8, <2>11, <2>12, <2>13, <2>14 DEF Answered
<1>3. CASE a # Answer([buffer EXCEPT !.error = TRUE], head, FALSE, "none", <<>>)
  <2>1. PICK entry \in Typed(limit), button \in Buttons :
          a \in Entered(buffer, head, limit, whole, entry, button)
    <3>1. PICK e : e = Answer([buffer EXCEPT !.error = TRUE], head, FALSE, "none", <<>>)
      OBVIOUS
    <3>2. PICK W : W = {UNION {Entered(buffer, head, limit, whole, entry, button)
                                : button \in Buttons} : entry \in Typed(limit)}
      OBVIOUS
    <3>3. Asked(buffer, head, limit, whole) = {e} \union UNION W
      BY <3>1, <3>2 DEF Asked
    <3>4. a # e  BY <1>3, <3>1
    <3>5. a \in UNION W BY <3>3, <3>4
    <3>6. PICK entry \in Typed(limit) : a \in UNION {Entered(buffer, head, limit, whole, entry, button) : button \in Buttons} BY <3>5, <3>2
    <3> QED  BY <3>6
  <2>2. PICK typed : typed = IF button = "Newline" THEN Append(entry, NL) ELSE entry  OBVIOUS
  <2>3. PICK k : k = Cut(typed, limit - Len(head), whole)  OBVIOUS
  <2>4. PICK pending : pending = [buffer EXCEPT !.eofpend = buffer.eofpend \/ button = "EOF"]
    OBVIOUS
  <2>5. PICK b \in Stored(pending, Dropped(typed, k)) :
          a = Answer(b, head \o SubSeq(typed, 1, k), FALSE, button, typed)
    BY <2>1, <2>2, <2>3, <2>4 DEF Entered
  <2> QED  BY <1>2, <2>2, <2>3, <2>4, <2>5
<1> QED  BY <1>1, <1>3

LEMMA AppInputGetIn ==
  ASSUME NEW limit \in Int, limit >= 1, NEW whole \in BOOLEAN, input \in Inputs,
         input.eofsent => input.chars = <<>>, NEW a \in AppInputGet(limit, whole)
  PROVE  Answered(a, limit, whole)
<1>0. /\ input.chars \in Seq(Text) /\ <<>> \in Seq(Text) /\ Len(<<>>) = 0
      /\ input.chars \o <<>> = input.chars /\ <<>> \o input.chars = input.chars
  <2>1. input.chars \in Seq(Text)  BY DEF Inputs
  <2> QED  BY <2>1, ConcatEmptySeq
<1>1. OneLine(<<>>, Len(<<>>) - 1, whole)  BY <1>0 DEF OneLine
<1>2. CASE ~input.made
  <2>1. AnswerShape(a, input, <<>>, FALSE, <<>>)  BY <1>2, AnswerIs DEF AppInputGet
  <2>2. a.eof = FALSE /\ a.input = input /\ a.data = <<>> /\ a.typed = <<>>
    BY <2>1 DEF AnswerShape
  <2> QED  BY <2>2, <1>0, <1>1 DEF Answered
<1>3. CASE input.made /\ EofReached
  <2>1. AnswerShape(a, input, <<>>, TRUE, <<>>)  BY <1>3, AnswerIs DEF AppInputGet
  <2>2. a.input = input /\ a.data = <<>> /\ a.typed = <<>> /\ input.eofsent
    BY <2>1, <1>3 DEF AnswerShape, EofReached
  <2> QED  BY <2>2, <1>0, <1>1 DEF Answered
<1>4. CASE input.made /\ ~EofReached /\ EofDue
  <2>1. PICK b : b = [input EXCEPT !.eofsent = TRUE, !.eofpend = FALSE]  OBVIOUS
  <2>2. AnswerShape(a, b, <<>>, TRUE, <<>>)
    <3>1. a = Answer(b, <<>>, TRUE, "none", <<>>)  BY <1>4, <2>1, Zenon DEF AppInputGet
    <3> QED  BY <3>1, AnswerIs
  <2>3. /\ b \in Inputs /\ b.eofsent /\ b.chars = input.chars /\ b.chars = <<>>
        /\ input.error => b.error
    BY <2>1, <1>4 DEF Inputs, EofDue
  <2>4. a.input = b /\ a.data = <<>> /\ a.typed = <<>>  BY <2>2 DEF AnswerShape
  <2> QED  BY <2>3, <2>4, <1>0, <1>1 DEF Answered
<1>5. CASE input.made /\ ~EofReached /\ ~EofDue
  <2>1. PICK s \in Seq(Text) : s = input.chars  BY <1>0
  <2>2. PICK k : k = Cut(s, limit, whole)  OBVIOUS
  <2>3. /\ k \in 0 .. Len(s) /\ k <= limit /\ OneLine(s, k - 1, whole)
        /\ Stops(s, limit, whole) = {} => k = Len(s) /\ k < limit /\ OneLine(s, k, whole)
    BY <2>2, Cutting
  <2>4. PICK h, r : h = SubSeq(s, 1, k) /\ r = Dropped(s, k)  OBVIOUS
  <2>5. /\ h \in Seq(Text) /\ r \in Seq(Text) /\ Len(h) = k
        /\ \A i \in 1 .. k : h[i] = s[i]
        /\ h \o r = s
        /\ k = Len(s) => h = s /\ r = <<>>
    BY <2>3, <2>4, Parts
  <2>6. PICK rest : rest = [input EXCEPT !.chars = r]  OBVIOUS
  <2>7. /\ rest \in Inputs /\ rest.chars = r /\ rest.made /\ ~rest.eofsent
        /\ input.error => rest.error
        /\ rest.error => input.error
    BY <2>5, <2>6, <1>5 DEF Inputs, EofReached
  <2>8. CASE Stops(s, limit, whole) # {}
    <3>1. a = Answer(rest, h, FALSE, "none", <<>>)
      BY <2>1, <2>2, <2>4, <2>6, <2>8, <1>5 DEF AppInputGet
    <3>2. AnswerShape(a, rest, h, FALSE, <<>>)  BY <3>1, AnswerIs
    <3>3. a.input = rest /\ a.data = h /\ a.typed = <<>> /\ a.eof = FALSE
      BY <3>2 DEF AnswerShape
    <3>4. a.error => rest.error  BY <3>2, <2>7 DEF AnswerShape
    <3>5. OneLine(h, Len(h) - 1, whole)
      <4>1. k \in Nat  BY <2>3, LenProperties
      <4>2. 1 .. Len(h) - 1 \subseteq 1 .. k /\ Len(h) - 1 = k - 1  BY <4>1, <2>5
      <4> QED  BY <4>2, <2>3, <2>5 DEF OneLine
    <3>6. input.chars \o <<>> = h \o r  BY <1>0, <2>1, <2>5
    <3> QED  BY <3>3, <3>4, <3>5, <3>6, <1>0, <2>3, <2>5, <2>7 DEF Answered
  <2>9. CASE Stops(s, limit, whole) = {}
    <3>1. a \in Asked(rest, h, limit, whole)
      BY <2>1, <2>2, <2>4, <2>6, <2>9, <1>5 DEF AppInputGet
    <3>2. h = s /\ r = <<>> /\ Len(h) < limit /\ OneLine(h, Len(h), whole)
      BY <2>3, <2>5, <2>9
    <3> QED  BY <3>1, <3>2, <2>1, <2>5, <2>7, AskedIn
  <2> QED  BY <2>8, <2>9
<1> QED  BY <1>2, <1>3, <1>4, <1>5

-----------------------------------------------------------------------------
(* Each call of the C library: what it returns, and that the text the      *)
(* program has not got is in the FILE and the buffer afterwards.           *)
Given(a) == IF Null(a) THEN <<>> ELSE a.data
Whole == call.reads = "line"

Fetching(a) ==
  /\ a.input \in Inputs /\ a.typed \in Seq(Text)
  /\ a.data \in Seq(Text \union {EOF}) /\ Len(a.data) <= Limit
  /\ OneLine(a.data, Len(a.data) - 1, Whole)
  /\ a.input.eofsent => a.input.chars = <<>>
  /\ a.eof => a.input.eofsent
  /\ input.error => a.input.error
  /\ ~a.input.error =>
       /\ Real(Given(a)) \in Seq(Text)
       /\ Behind(Real(Forgotten(Limit)), owed) \o a.typed = Real(Given(a)) \o a.input.chars

LEMMA LimitIn ==
  ASSUME InputTypes
  PROVE  Limit \in Int /\ Limit >= 1 /\ (call.reads = "chars" => Limit <= call.due)
BY StdinAssumption DEF InputTypes, Limit, Smaller, Reading

LEMMA RealIn ==
  /\ Text \subseteq Text \union {EOF} /\ EOF \notin Text
  /\ \A s \in Seq(Text) : Real(s) = s
  /\ \A u \in Ungets : u \in Seq(Text \union {EOF}) /\ Real(u) \in Seq(Text) /\ Len(u) <= 1
                       /\ (u # <<>> => Len(u) = 1)
<1>1. EOF \notin Text  BY StdinAssumption DEF Text
<1>2. ASSUME NEW s \in Seq(Text) PROVE Real(s) = s
  <2>1. s # <<EOF>>
    <3>1. SUFFICES ASSUME s = <<EOF>> PROVE FALSE  OBVIOUS
    <3>2. Len(s) = 1 /\ s[1] = EOF  BY <3>1
    <3>3. s[1] \in Text  BY <3>2, ElementOfSeq
    <3> QED  BY <1>1, <3>2, <3>3
  <2> QED  BY <2>1 DEF Real
<1>3. ASSUME NEW u \in Ungets
      PROVE  u \in Seq(Text \union {EOF}) /\ Real(u) \in Seq(Text) /\ Len(u) <= 1
             /\ (u # <<>> => Len(u) = 1)
  <2>1. CASE u = <<>>
    <3>1. <<>> \in Seq(Text) /\ <<>> \in Seq(Text \union {EOF}) /\ Len(<<>>) = 0  OBVIOUS
    <3>2. Real(<<>>) \in Seq(Text)  BY <1>2, <3>1
    <3> QED  BY <2>1, <3>1, <3>2
  <2>2. CASE u # <<>>
    <3>1. PICK c \in Text \union {EOF} : u = <<c>>  BY <2>2 DEF Ungets
    <3>2. u \in Seq(Text \union {EOF}) /\ Len(u) = 1  BY <3>1
    <3>3. Real(u) \in Seq(Text)
      <4>1. CASE c = EOF
        <5>1. Real(u) = <<>>  BY <3>1, <4>1 DEF Real
        <5>2. <<>> \in Seq(Text)  OBVIOUS
        <5> QED  BY <5>1, <5>2
      <4>2. CASE c # EOF
        <5>1. c \in Text  BY <3>1, <4>2
        <5>2. u \in Seq(Text)  BY <3>1, <5>1
        <5> QED  BY <1>2, <5>2
      <4> QED  BY <4>1, <4>2
    <3> QED  BY <3>2, <3>3
  <2> QED  BY <2>1, <2>2
<1> QED  BY <1>1, <1>2, <1>3

LEMMA UngetIn ==
  /\ <<>> \in Ungets /\ Real(<<>>) = <<>> /\ Real(<<EOF>>) = <<>>
  /\ \A c \in Text \union {EOF} : <<c>> \in Ungets
<1>1. <<>> \in Seq(Text)  OBVIOUS
<1>2. Real(<<>>) = <<>>  BY <1>1, RealIn
<1> QED  BY <1>2 DEF Ungets, Real

LEMMA FreadStdinIn ==
  ASSUME InputInv, NEW a \in FreadStdin(Limit, Whole)
  PROVE  Fetching(a)
<1>1. InputTypes /\ Limit \in Int /\ Limit >= 1 /\ Whole \in BOOLEAN
  BY LimitIn DEF InputInv, Whole
<1>2. /\ input \in Inputs /\ stream.unget \in Ungets /\ owed \in Seq(Text)
      /\ input.chars \in Seq(Text) /\ (input.eofsent => input.chars = <<>>)
  BY <1>1 DEF InputInv, InputTypes, Inputs
<1>3. input.error \/ owed = Real(stream.unget) \o input.chars
  BY DEF InputInv, NothingLost, Held
<1>4. CASE PutBack /\ Limit = 1
  <2>1. PICK b : b = Answer(input, stream.unget, FALSE, "none", <<>>)  OBVIOUS
  <2>2. a = [b EXCEPT !.error = FALSE]  BY <1>4, <2>1 DEF FreadStdin
  <2>3. /\ a.input = input /\ a.data = stream.unget /\ a.typed = <<>>
        /\ a.eof = FALSE /\ a.error = FALSE
    BY <2>1, <2>2 DEF Answer
  <2>4. Given(a) = stream.unget  BY <2>3 DEF Given, Null
  <2>5. /\ a.data \in Seq(Text \union {EOF}) /\ Len(a.data) = 1
        /\ Real(stream.unget) \in Seq(Text)
    BY <1>2, <1>4, <2>3, RealIn DEF PutBack
  <2>6. OneLine(a.data, Len(a.data) - 1, Whole)
    <3>1. 1 .. Len(a.data) - 1 = {}  BY <2>5
    <3> QED  BY <3>1 DEF OneLine
  <2>7. owed \o <<>> = owed /\ <<>> \in Seq(Text)  BY <1>2, ConcatEmptySeq
  <2>11. Behind(Real(Forgotten(Limit)), owed) = owed
    <3>1. Forgotten(Limit) = <<>>  BY <1>4 DEF Forgotten
    <3> QED  BY <3>1, <1>2, UngetIn, BehindParts
  <2>8. ASSUME ~input.error
        PROVE  Behind(Real(Forgotten(Limit)), owed) \o a.typed = Real(Given(a)) \o input.chars
    BY <1>3, <2>3, <2>4, <2>7, <2>8, <2>11
  <2>9. a.input.eofsent => a.input.chars = <<>>  BY <1>2, <2>3
  <2>10. a.input \in Inputs /\ a.typed \in Seq(Text) /\ Len(a.data) <= Limit
    BY <1>2, <1>4, <2>3, <2>5, <2>7
  <2> QED  BY <2>3, <2>4, <2>5, <2>6, <2>8, <2>9, <2>10 DEF Fetching
<1>5. CASE ~(PutBack /\ Limit = 1)
  <2>1. a \in AppInputGet(Limit, Whole)  BY <1>5 DEF FreadStdin
  <2>2. Answered(a, Limit, Whole)  BY <1>1, <1>2, <2>1, AppInputGetIn
  <2>3. a.data \in Seq(Text \union {EOF})  BY <2>2, RealIn, SeqMonotonic DEF Answered
  <2>4. ASSUME ~a.input.error
        PROVE  /\ Real(Given(a)) \in Seq(Text)
               /\ Behind(Real(Forgotten(Limit)), owed) \o a.typed = Real(Given(a)) \o a.input.chars
    <3>1. owed = Real(stream.unget) \o input.chars  BY <1>3, <2>2, <2>4 DEF Answered
    <3>2. Forgotten(Limit) = stream.unget
      <4>1. Limit > 1 \/ ~PutBack  BY <1>1, <1>5
      <4> QED  BY <4>1 DEF Forgotten, PutBack
    <3>3. Real(stream.unget) \in Seq(Text)  BY <1>2, RealIn
    <3>4. Behind(Real(stream.unget), owed) = input.chars  BY <1>2, <3>1, <3>3, BehindParts
    <3>5. Given(a) = a.data  BY <2>2, <2>4 DEF Given, Null, Answered
    <3>6. Real(a.data) = a.data /\ a.data \in Seq(Text)  BY <2>2, RealIn DEF Answered
    <3>7. input.chars \o a.typed = a.data \o a.input.chars  BY <2>2, <2>4 DEF Answered
    <3> QED  BY <3>2, <3>4, <3>5, <3>6, <3>7
  <2> QED  BY <2>2, <2>3, <2>4 DEF Fetching, Answered
<1> QED  BY <1>4, <1>5

LEMMA GetcIn ==
  ASSUME NEW a, a.data \in Seq(Text \union {EOF})
  PROVE  Getc(a) \in Text \union {EOF} /\ (Null(a) => Getc(a) = EOF)
<1>1. CASE Null(a) \/ Len(a.data) # 1  BY <1>1 DEF Getc
<1>2. CASE ~Null(a) /\ Len(a.data) = 1
  <2>1. Getc(a) = a.data[1]  BY <1>2 DEF Getc
  <2>2. 1 \in 1 .. Len(a.data)  BY <1>2
  <2> QED  BY <1>2, <2>1, <2>2, ElementOfSeq
<1> QED  BY <1>1, <1>2

(* What every reader keeps, whatever it puts back. *)
LEMMA FetchedKept ==
  ASSUME InputInv, call # NoCall, NEW a, Fetching(a),
         NEW unget \in Ungets, Null(a) => Real(unget) = <<>>,
         Fetched(a, unget), call' \in Reading, call'.reads = "chars" => call'.due >= 1,
         Null(a) => call' = NoCall
  PROVE  InputInv'
<1>1. /\ a.input \in Inputs /\ a.typed \in Seq(Text) /\ a.data \in Seq(Text \union {EOF})
      /\ input' = a.input /\ owed \in Seq(Text)
      /\ stream' = [eof |-> stream.eof \/ (~a.error /\ a.eof), err |-> stream.err \/ a.error,
                    unget |-> unget]
  BY DEF Fetching, Fetched, InputInv, InputTypes
<1>2. ~stream.eof /\ stream.eof \in BOOLEAN /\ stream.err \in BOOLEAN  BY DEF InputInv, InputTypes
<1>3. PICK all : all = Behind(Real(Forgotten(Limit)), owed) \o a.typed  OBVIOUS
<1>4. owed' = IF a.input.error THEN <<>>
              ELSE Real(unget) \o Behind(Real(Given(a)), all)
  BY <1>3 DEF Fetched, Given
<1>5. all \in Seq(Text)
  <2>1. Forgotten(Limit) \in Ungets  BY UngetIn DEF Forgotten, InputInv, InputTypes
  <2>2. Len(Real(Forgotten(Limit))) \in Nat  BY <2>1, RealIn, LenProperties
  <2>3. Behind(Real(Forgotten(Limit)), owed) \in Seq(Text)  BY <1>1, <2>2, BehindParts
  <2> QED  BY <1>1, <1>3, <2>3, ConcatProperties
<1>6. Real(unget) \in Seq(Text)  BY RealIn
<1>7. owed' \in Seq(Text)
  <2>1. Len(Real(Given(a))) \in Nat
    <3>1. Real(Given(a)) \in Seq(Text \union {EOF})
      <4>1. <<>> \in Seq(Text \union {EOF})  OBVIOUS
      <4> QED  BY <1>1, <4>1 DEF Real, Given
    <3> QED  BY <3>1, LenProperties
  <2>2. Behind(Real(Given(a)), all) \in Seq(Text)  BY <1>5, <2>1, BehindParts
  <2>3. Real(unget) \o Behind(Real(Given(a)), all) \in Seq(Text)
    BY <1>6, <2>2, ConcatProperties
  <2>4. <<>> \in Seq(Text)  OBVIOUS
  <2> QED  BY <1>4, <2>3, <2>4
<1>8. stream' \in [eof : BOOLEAN, err : BOOLEAN, unget : Ungets]
  <2>1. PICK e \in BOOLEAN, r \in BOOLEAN :
          e = (stream.eof \/ (~a.error /\ a.eof)) /\ r = (stream.err \/ a.error)
    OBVIOUS
  <2> QED  BY <1>1, <2>1
<1>9. InputTypes'  BY <1>1, <1>7, <1>8 DEF InputTypes
<1>10. input'.eofsent => input'.chars = <<>>  BY <1>1 DEF Fetching
<1>11. stream'.eof => call' = NoCall /\ input'.eofsent /\ Real(stream'.unget) = <<>>
  <2>1. stream'.eof = (stream.eof \/ (~a.error /\ a.eof)) /\ stream'.unget = unget  BY <1>1
  <2>2. ASSUME stream'.eof PROVE a.eof  BY <1>2, <2>1, <2>2
  <2> QED  BY <1>1, <2>1, <2>2 DEF Null, Fetching
<1>12. input'.error \/ owed' = Held'
  <2>1. SUFFICES ASSUME ~a.input.error PROVE owed' = Held'  BY <1>1
  <2>2. Real(Given(a)) \in Seq(Text) /\ all = Real(Given(a)) \o a.input.chars
    BY <1>3, <2>1 DEF Fetching
  <2>3. a.input.chars \in Seq(Text)  BY <1>1 DEF Inputs
  <2>4. Behind(Real(Given(a)), all) = a.input.chars  BY <2>2, <2>3, BehindParts
  <2>5. owed' = Real(unget) \o a.input.chars  BY <1>4, <2>1, <2>4
  <2>6. stream'.unget = unget  BY <1>1
  <2> QED  BY <1>1, <2>5, <2>6 DEF Held
<1>13. \A i \in 1 .. Len(last') - 1 : last'[i] # NL
  <2>1. last' = IF Whole THEN Given(a) ELSE <<>>  BY DEF Fetched, Whole, Given
  <2>2. CASE last' = <<>>
    <3>1. 1 .. Len(<<>>) - 1 = {}  OBVIOUS
    <3> QED  BY <2>2, <3>1
  <2>3. CASE last' # <<>>
    <3>1. Whole /\ last' = a.data  BY <2>1, <2>3 DEF Given
    <3> QED  BY <3>1 DEF Fetching, OneLine
  <2> QED  BY <2>2, <2>3
<1>14. NothingLost'  BY <1>12, <1>13 DEF NothingLost
<1> QED  BY <1>9, <1>10, <1>11, <1>14 DEF InputInv

-----------------------------------------------------------------------------
(* The readers, one call of the C library at a time. *)
LEMMA NoCallIn == NoCall \in Reading /\ NoCall.reads = "nothing"
BY DEF NoCall, Reading

LEMMA ReadLineKept ==
  ASSUME InputInv, call # NoCall, NEW a, Fetching(a), ReadLine(a)
  PROVE  InputInv'
<1>1. Fetched(a, <<>>) /\ call.reads = "line" /\ call' \in {call, NoCall} /\ (Null(a) => call' = NoCall)
  BY DEF ReadLine
<1>2. call \in Reading  BY DEF InputInv, InputTypes
<1>3. call' \in Reading /\ call'.reads # "chars"  BY <1>1, <1>2, NoCallIn
<1> QED  BY <1>1, <1>3, UngetIn, FetchedKept

LEMMA ReadCharsKept ==
  ASSUME InputInv, call # NoCall, NEW a, Fetching(a), ReadChars(a)
  PROVE  InputInv'
<1>1. PICK due : due = call.due - Len(a.data)  OBVIOUS
<1>2. /\ Fetched(a, <<>>) /\ call.reads = "chars" /\ (Null(a) => call' = NoCall)
      /\ call' = NoCall \/ (call' = [call EXCEPT !.due = due] /\ due # 0)
  BY <1>1 DEF ReadChars
<1>3. call \in Reading /\ InputTypes  BY DEF InputInv, InputTypes
<1>4. due \in Nat
  <2>1. Limit \in Int /\ Limit <= call.due  BY <1>2, <1>3, LimitIn
  <2>2. Len(a.data) \in Nat /\ Len(a.data) <= Limit  BY LenProperties DEF Fetching
  <2>3. call.due \in Nat  BY <1>3 DEF Reading
  <2> QED  BY <1>1, <2>1, <2>2, <2>3
<1>5. call' \in Reading /\ (call'.reads = "chars" => call'.due >= 1)
  <2>1. CASE call' = NoCall  BY <2>1, NoCallIn
  <2>2. CASE call' # NoCall
    <3>1. call' = [call EXCEPT !.due = due] /\ due >= 1  BY <1>2, <1>4, <2>2
    <3> QED  BY <1>3, <1>4, <3>1 DEF Reading
  <2> QED  BY <2>1, <2>2
<1> QED  BY <1>2, <1>5, UngetIn, FetchedKept

LEMMA ReadNumberKept ==
  ASSUME InputInv, ReadNumber
  PROVE  InputInv'
<1>1. /\ call' = NoCall /\ input' = input /\ stream' = stream /\ last' = last /\ owed' = owed
  BY DEF ReadNumber
<1>2. InputTypes'  BY <1>1, NoCallIn DEF InputInv, InputTypes
<1>3. NothingLost'  BY <1>1 DEF InputInv, NothingLost, Held
<1> QED  BY <1>1, <1>2, <1>3 DEF InputInv

LEMMA TestEofKept ==
  ASSUME InputInv, call # NoCall, NEW a, Fetching(a), TestEof(a)
  PROVE  InputInv'
<1>1. PICK c : c = Getc(a)  OBVIOUS
<1>2. c \in Text \union {EOF} /\ (Null(a) => c = EOF)  BY <1>1, GetcIn DEF Fetching
<1>3. Fetched(a, <<c>>) /\ call' = NoCall  BY <1>1 DEF TestEof
<1>4. <<c>> \in Ungets /\ (Null(a) => Real(<<c>>) = <<>>)  BY <1>2, UngetIn
<1>5. call' \in Reading /\ call'.reads # "chars"  BY <1>3, NoCallIn
<1> QED  BY <1>3, <1>4, <1>5, FetchedKept

LEMMA FetchKept ==
  ASSUME InputInv, Fetch
  PROVE  InputInv'
<1>1. PICK a \in FreadStdin(Limit, Whole) :
        call # NoCall /\ (ReadLine(a) \/ ReadChars(a) \/ TestEof(a))
  BY DEF Fetch, FetchOne, Whole
<1>2. Fetching(a)  BY FreadStdinIn
<1> QED  BY <1>1, <1>2, ReadLineKept, ReadCharsKept, TestEofKept

LEMMA ReadKept ==
  ASSUME InputInv, NEW c \in Calls, Read(c)
  PROVE  InputInv'
<1>1. /\ call' = c /\ stream' = [stream EXCEPT !.eof = FALSE, !.err = FALSE]
      /\ input' = input /\ last' = last /\ owed' = owed
  BY DEF Read
<1>2. c \in Reading /\ (c.reads = "chars" => c.due >= 1)
  BY StdinAssumption DEF Calls, Reading
<1>3. /\ stream \in [eof : BOOLEAN, err : BOOLEAN, unget : Ungets]
      /\ input \in Inputs /\ owed \in Seq(Text)
  BY DEF InputInv, InputTypes
<1>4. /\ stream' \in [eof : BOOLEAN, err : BOOLEAN, unget : Ungets]
      /\ stream'.eof = FALSE /\ stream'.unget = stream.unget
  BY <1>1, <1>3
<1>5. InputTypes'  BY <1>1, <1>2, <1>3, <1>4 DEF InputTypes
<1>6. NothingLost'  BY <1>1, <1>4 DEF InputInv, NothingLost, Held
<1> QED  BY <1>1, <1>4, <1>5, <1>6 DEF InputInv

LEMMA StutterKept ==
  ASSUME InputInv, UNCHANGED inputVars
  PROVE  InputInv'
BY DEF inputVars, InputInv, InputTypes, NothingLost, Held

LEMMA InitKept ==
  ASSUME InputInit
  PROVE  InputInv
<1>1. <<>> \in Seq(Text)  OBVIOUS
<1>2. /\ input \in Inputs /\ input.chars = <<>> /\ input.eofsent = FALSE
  <2>1. PICK m \in BOOLEAN : input = [made |-> m, error |-> FALSE, eofpend |-> FALSE,
                                      eofsent |-> FALSE, chars |-> <<>>, room |-> 0]
    BY DEF InputInit
  <2> QED  BY <1>1, <2>1 DEF Inputs
<1>3. /\ stream = [eof |-> FALSE, err |-> FALSE, unget |-> <<>>]
      /\ call = NoCall /\ last = <<>> /\ owed = <<>>
  BY DEF InputInit
<1>4. stream \in [eof : BOOLEAN, err : BOOLEAN, unget : Ungets]  BY <1>3, UngetIn
<1>5. InputTypes  BY <1>1, <1>2, <1>3, <1>4, NoCallIn DEF InputTypes
<1>6. Held = <<>>
  <2>1. Real(stream.unget) = <<>>  BY <1>3, UngetIn
  <2>2. Held = <<>> \o <<>>  BY <1>2, <2>1 DEF Held
  <2> QED  BY <1>1, <2>2, ConcatEmptySeq
<1>7. \A i \in 1 .. Len(last) - 1 : last[i] # NL
  <2>1. 1 .. Len(<<>>) - 1 = {}  OBVIOUS
  <2> QED  BY <1>3, <2>1
<1> QED  BY <1>2, <1>3, <1>5, <1>6, <1>7 DEF InputInv, NothingLost

(* In every state the invariant holds: InputInit establishes it, and each call  *)
(* of the C library and each start of an io.read keeps it.                 *)
THEOREM InputInductive == InputSpec => []InputInv
<1>1. InputInit => InputInv  BY InitKept
<1>2. InputInv /\ [InputNext]_inputVars => InputInv'  BY FetchKept, ReadKept, ReadNumberKept, StutterKept DEF InputNext
<1> QED  BY <1>1, <1>2, PTL DEF InputSpec

(* Until an error is reported, nothing that is typed is lost, doubled or   *)
(* reordered between the dialog of app_input_get and what fgets, fread and *)
(* getc hand to Lua, but for the single characters that were put back and  *)
(* that fread_stdin forgets; and a line never holds the beginning of the   *)
(* next.                                                                   *)
THEOREM TypedTextKept == InputSpec => []NothingLost
<1>1. InputInv => NothingLost  BY DEF InputInv
<1> QED  BY <1>1, InputInductive, PTL

(* feof is seen only when all that was typed before the end of file has    *)
(* been handed over: neither the FILE nor the input buffer holds any more. *)
THEOREM EofComesLast == InputSpec => []EofLast
<1>1. InputInv => EofLast
  <2>1. SUFFICES ASSUME InputInv, stream.eof PROVE input.eofsent /\ Held = <<>>  BY DEF EofLast
  <2>2. input.eofsent /\ input.chars = <<>> /\ Real(stream.unget) = <<>>  BY <2>1 DEF InputInv
  <2>3. Held = <<>> \o <<>>  BY <2>2 DEF Held
  <2>4. <<>> \in Seq(Text)  OBVIOUS
  <2> QED  BY <2>2, <2>3, <2>4, ConcatEmptySeq
<1> QED  BY <1>1, InputInductive, PTL
=============================================================================
