----------------------------- MODULE MCCompiler -----------------------------
(***************************************************************************)
(* The compiler on small programs, each a tree the parser builds.          *)
(***************************************************************************)
EXTENDS Meaning, Syntax

Int1(x, e)  == Var(x, KwInt, e)
G2(l, r)    == CallOf(Id("g"), <<l, r>>)
Sub(l, r)   == Binary("-", l, r)

\* func g(a, b: int): int = a - b;
Callee2 == Func("g", <<Par(<<"a", "b">>, KwInt)>>, KwInt, Sub(Id("a"), Id("b")))

(***************************************************************************)
(* Bodies of f(a: int, c: float): declarations, shadowing, nested blocks,  *)
(* calls, conversions and returns, in every order.                         *)
(***************************************************************************)
Statements ==
  { Int1("b", G2(Id("a"), Num)), Int1("a", G2(Num, Id("a"))), G2(Id("a"), Id("a")),
    Do(<<Int1("a", Id("a")), Ret(G2(Id("a"), Num))>>), Do(<<Int1("b", Id("a")), Id("b")>>),
    Const("b", Nil, KwInt), Ret(Id("a")), Ret(Num) }

Results ==
  { Id("a"), Sub(Id("a"), G2(Id("a"), Num)), Group(Minus(Id("a"))), Ret(Sub(Num, Id("a"))),
    CastTo(KwInt, Id("c")), Do(<<Int1("b", Id("a")), Sub(Id("b"), Id("a"))>>), Num,
    Int1("b", Id("a")) }

BodyTerms ==
  {<<Callee2, Func("f", <<Par(<<"a">>, KwInt), Par(<<"c">>, KwFloat)>>, KwInt, Do(<<s, t, r>>))>> :
     s \in Statements, t \in Statements, r \in Results}

(***************************************************************************)
(* Single expressions, types and globals.                                  *)
(***************************************************************************)
StructXY == Const("t", Nil, StructT(<<Fd(<<"x">>, KwInt, Nil), Fd(<<"y">>, KwFloat, Real)>>))
Nested   == Const("u", Nil, StructT(<<Fd(<<"n">>, Id("t"), Nil)>>))

Menu ==
  { Dot(Id("s"), "y"), Dot(Dot(Id("r"), "n"), "x"), Dot(Group(Id("s")), "x"), Id("s"), Id("c"),
    CallOf(Id("f"), <<Id("s"), Id("c")>>), Plus(Id("c")), Text, CastTo(KwFloat, Dot(Id("s"), "x")),
    CastTo(KwFloat, Num), Do(<<>>), Ret(Dot(Id("s"), "y")), Lit(Id("t"), <<Named("x", Num)>>),
    Lit(Id("t"), <<Named("x", Dot(Id("s"), "x"))>>), Func("k", <<>>, KwInt, Num),
    CastTo(KwCstr, Id("c")), CallOf(Group(Id("f")), <<>>), Id("v"), Var("w", Nil, Id("s")),
    Var("w", KwString, Text), Var("w", Id("t"), Nil), Var("w", Nil, CallOf(Id("e"), <<>>)) }

ExpressionTerms ==
  {<<StructXY, Nested, Var("v", type, value), Func("e", <<>>, Nil, Do(<<>>)),
     Func("f", <<Par(<<"s">>, Id("t")), Par(<<"c">>, KwFloat), Par(<<"r">>, Id("u"))>>, ret,
          Do(<<e>>))>> :
     type \in {Nil}, value \in {Num, CallOf(Id("f"), <<>>)},
     ret \in {KwFloat, KwVoid, Id("t"), KwType}, e \in Menu}

DeclarationTerms ==
  {<<Func("f", <<Par(<<"p", "q">>, p)>>, KwInt, Do(<<Id("p")>>)), Var("v", type, value),
     Func("g", <<>>, KwVoid, CallOf(Id("f"), <<Id("v"), Num>>))>> :
     p \in {KwInt, KwFloat, KwVoid, KwType, Group(KwInt), Nil},
     type \in {Nil, KwInt, KwType, KwString}, value \in {Nil, Num, Text, KwInt, CallOf(Id("f"), <<Num>>)}}

CompilerPrograms == {Program(terms) : terms \in BodyTerms \cup ExpressionTerms \cup DeclarationTerms}
=============================================================================
