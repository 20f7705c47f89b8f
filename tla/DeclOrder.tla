------------------------------ MODULE DeclOrder ------------------------------
(***************************************************************************)
(* What the analyser promises about global declarations, whatever order    *)
(* they are written in (Analyzer implements it):                           *)
(*   - each is evaluated once at most, and is "open" while that goes on;   *)
(*   - one opened inside another is closed first;                          *)
(*   - a function can be used before its body is evaluated;                *)
(*   - nothing is accepted while a declaration has not had its turn, and   *)
(*     nothing that was reported is forgotten.                             *)
(* That a declaration may be given up without a report is no promise but   *)
(* what the code does: a node met a second time may answer an error value. *)
(***************************************************************************)
VARIABLES
  level,     \* name -> "todo", "open", "done" or "given up"
  inside,    \* <<x, y>> when y was opened while x was open, and both still are
  reported,  \* an error has been reported
  verdict    \* "none", "ok", "error" or "aborted"

vars == <<level, inside, reported, verdict>>

Names  == DOMAIN level
Levels == {"todo", "open", "done", "given up"}
Opened == {x \in Names : level[x] = "open"}

Init ==
  /\ level = [x \in Names |-> "todo"]    \* whatever the names are
  /\ inside = {}
  /\ reported = FALSE
  /\ verdict = "none"

MayReport == reported' \in {reported, TRUE}

\* The initialiser of x starts to be evaluated.
Open(x) ==
  /\ level[x] = "todo"
  /\ level' = [level EXCEPT ![x] = "open"]
  /\ inside' = inside \cup (Opened \X {x})
  /\ MayReport
  /\ UNCHANGED verdict

\* The declaration of x is complete, and those opened inside it are.
Close(x) ==
  /\ level[x] = "open"
  /\ \A y \in Names : <<x, y>> \notin inside
  /\ level' = [level EXCEPT ![x] = "done"]
  /\ inside' = inside \ (Names \X {x})
  /\ MayReport
  /\ UNCHANGED verdict

\* A function can be used as soon as its signature is known.
Announce(x) ==
  /\ level[x] = "todo"
  /\ level' = [level EXCEPT ![x] = "done"]
  /\ UNCHANGED <<inside, reported, verdict>>

\* The declaration of x comes to nothing, and is not tried again.
GiveUp(x) ==
  /\ level[x] = "todo"
  /\ level' = [level EXCEPT ![x] = "given up"]
  /\ MayReport
  /\ UNCHANGED <<inside, verdict>>

Report ==
  /\ reported' = TRUE
  /\ UNCHANGED <<level, inside, verdict>>

Accept ==
  /\ ~reported
  /\ \A x \in Names : level[x] \in {"done", "given up"}
  /\ verdict' = "ok"
  /\ UNCHANGED <<level, inside, reported>>

Reject ==
  /\ Opened = {}
  /\ reported' = TRUE
  /\ verdict' = "error"
  /\ UNCHANGED <<level, inside>>

\* The compiler stops in the middle.
Abort ==
  /\ level' \in [Names -> Levels]
  /\ inside' = {}
  /\ reported' \in BOOLEAN
  /\ verdict' = "aborted"

Next ==
  /\ verdict = "none"
  /\ \/ \E x \in Names : Open(x) \/ Close(x) \/ Announce(x) \/ GiveUp(x)
     \/ Report \/ Accept \/ Reject \/ Abort

Spec == Init /\ [][Next]_vars
=============================================================================
