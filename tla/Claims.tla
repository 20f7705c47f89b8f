------------------------------- MODULE Claims -------------------------------
(***************************************************************************)
(* What PROGRESS.org and the comments of the code say of the analyser      *)
(* where the code does something else: one statement and one program for   *)
(* each, the statement violated by that program.                           *)
(***************************************************************************)
EXTENDS MCAnalyzer

\* "Locals are scoped to the block they are declared in."
\*   func f(): int do const a = 1; return b; end   const b = a;
ScopePrograms ==
  {Program(<<Func("f", <<>>, KwInt, Do(<<Const("a", Nil, Num), Ret(Id("b"))>>)),
             Const("b", Nil, Id("a"))>>)}

\* A name means a global or a local of the declaration it is written in.  The
\* code looks it up in the scopes of whoever asked for the declaration first.
LexicalScope ==
  At("IDENT", "enter") /\ Lookup(This.name) # 0 =>
    scopes[Lookup(This.name)].root \in {0, This.root}

\* "Forward references allow declarations to appear in any order", and
\* unreachable() "marks code paths that must never execute".  Each of these
\* reaches one:
\*   func f(): int = g();   func g(): int = 1;
\*   func f(): void do return; end
UnreachablePrograms ==
  {Program(<<Func("f", <<>>, KwInt, CallOf(Id("g"), <<>>)), Func("g", <<>>, KwInt, Num)>>),
   Program(<<Func("f", <<>>, KwVoid, Do(<<Ret(Nil)>>))>>)}

\* The analysis reaches none of the paths the code says it never takes.
NeverUnreachable == status # "unreachable"
=============================================================================
