----------------------------- MODULE TokenQueue -----------------------------
(***************************************************************************)
(* What the token stream promises its callers: the tokens of the file, in  *)
(* order, each once; a look at the next token or the one after is what     *)
(* advancing will return.  Past the end there is only the end of file.     *)
(***************************************************************************)
EXTENDS Integers, Sequences

CONSTANTS EOF, NoToken

VARIABLES
  rest,    \* the tokens not yet advanced over
  reply,   \* the last call and its answer
  exited   \* an error in the text ended the program

vars == <<rest, reply, exited>>

\* The n-th token from here, the end of file when there are fewer.
Nth(n) == IF n <= Len(rest) THEN rest[n] ELSE EOF

Peek     == reply' = <<"peek", Nth(1)>> /\ UNCHANGED <<rest, exited>>
PeekNext == reply' = <<"next", Nth(2)>> /\ UNCHANGED <<rest, exited>>

\* At the end advance answers EOF or the zeroed token, and changes nothing.
Advance ==
  /\ IF rest # <<>> THEN reply' = <<"advance", rest[1]>> /\ rest' = Tail(rest)
     ELSE reply' \in {<<"advance", EOF>>, <<"advance", NoToken>>} /\ UNCHANGED rest
  /\ UNCHANGED exited

Exit == exited' = TRUE /\ UNCHANGED <<rest, reply>>

Init == rest = rest /\ reply = <<"none", NoToken>> /\ exited = FALSE
Next == ~exited /\ (Peek \/ PeekNext \/ Advance \/ Exit)

Spec == Init /\ [][Next]_vars
=============================================================================
