------------------------------ MODULE Interning ------------------------------
(***************************************************************************)
(* What the interner promises: one pointer for each string, the same for   *)
(* as long as the program runs, so that names are equal exactly when their *)
(* pointers are.                                                           *)
(***************************************************************************)
EXTENDS Naturals

CONSTANTS Strings, NoString

VARIABLES
  pointer,   \* the strings interned so far, each with its pointer
  reply      \* the last string asked for and what intern_str returned

vars == <<pointer, reply>>

Known(s) ==
  /\ s \in DOMAIN pointer
  /\ reply' = <<s, pointer[s]>>
  /\ UNCHANGED pointer

\* The answer may be any pointer that is not another string's.
New(s) ==
  LET p == reply'[2] IN
  /\ s \notin DOMAIN pointer
  /\ p \in Nat \ {0} /\ \A t \in DOMAIN pointer : pointer[t] # p
  /\ pointer' = [t \in DOMAIN pointer \cup {s} |-> IF t = s THEN p ELSE pointer[t]]
  /\ reply' = <<s, p>>

Init == pointer = [s \in {} |-> 0] /\ reply = <<NoString, 0>>

Next == \E s \in Strings : Known(s) \/ New(s)

Spec == Init /\ [][Next]_vars
=============================================================================
