--------------------------- MODULE CompilerClaims ---------------------------
(***************************************************************************)
(* What PROGRESS.org says of compiled programs where the compiler makes    *)
(* something else of them, with a program that shows it.                   *)
(***************************************************************************)
EXTENDS Meaning, Syntax

\* "Inside a do-end block, return exits the function early with a value."
\*   func f(a: int): int do return 1; a end
ReturnPrograms ==
  {Program(<<Func("f", <<Par(<<"a">>, KwInt)>>, KwInt, Do(<<Ret(Num), Id("a")>>))>>)}

\* The first return among the statements of a body decides what the function
\* yields.  The analyser folds a return of a constant away, and no instruction
\* is generated for it.
ReturnsEarly ==
  stage = "codegen" /\ outcome = "ok" =>
    \A f \in DOMAIN functions :
      LET stmts   == Source(Source(functions[f].node).kids[2]).kids
          return(n) == Source(n).kind = "RETURN"
          first   == SelectInSeq(stmts, return)
          value   == Source(stmts[first]).kids[1]
      IN  first # 0 /\ folded[value] # None => Done(f).out = <<"const", value>>
=============================================================================
