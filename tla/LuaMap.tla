------------------------------- MODULE LuaMap -------------------------------
(***************************************************************************)
(* What a Lua table promises: a map from keys to values, where nil stands    *)
(* for "no field", and traversals (lua_next) that meet every field once.     *)
(* During a traversal a program may clear and change the fields that exist,  *)
(* and may not add any.                                                      *)
(***************************************************************************)
CONSTANTS Keys, Values, Nil

VARIABLES dict,                \* [key -> its value or Nil]
          traversing,
          seen                 \* the keys the traversal has returned

vars == <<dict, traversing, seen>>

Init ==
  /\ dict = [k \in Keys |-> Nil]
  /\ traversing = FALSE
  /\ seen = {}

Set(k, v) ==
  /\ traversing => dict[k] # Nil
  /\ dict' = [dict EXCEPT ![k] = v]
  /\ UNCHANGED <<traversing, seen>>

Begin ==
  /\ ~traversing
  /\ traversing' = TRUE
  /\ seen' = {}
  /\ UNCHANGED dict

Visit ==
  /\ traversing
  /\ \E k \in Keys \ seen : dict[k] # Nil /\ seen' = seen \cup {k}
  /\ UNCHANGED <<dict, traversing>>

End ==
  /\ traversing
  /\ \A k \in Keys \ seen : dict[k] = Nil
  /\ traversing' = FALSE
  /\ seen' = {}
  /\ UNCHANGED dict

Next ==
  \/ \E k \in Keys, v \in Values \cup {Nil} : Set(k, v)
  \/ Begin \/ Visit \/ End

Spec == Init /\ [][Next]_vars
=============================================================================
