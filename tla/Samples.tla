------------------------------ MODULE Samples ------------------------------
(***************************************************************************)
(* Small programs, as terms: every way of choosing one declaration for     *)
(* each of a few global names from a menu.  The menus differ in what they  *)
(* exercise; each declaration refers to the other names, so that forward   *)
(* references, cycles and shadowing come up in every order.                *)
(***************************************************************************)
EXTENDS Syntax

(***************************************************************************)
(* Global variables, constants and types that refer to one another.        *)
(***************************************************************************)
GlobalMenu(x, other, another) ==
  { Const(x, Nil, Num), Const(x, Nil, ZeroNum), Var(x, KwFloat, Real),
    Const(x, Nil, Id(other)), Const(x, KwType, Id(another)), Var(x, Id(other), Nil),
    Var(x, Id(another), Id(other)), Const(x, Nil, Group(Arith(Id(other), Id(another)))),
    Const(x, KwUint, Minus(Id(other))), Const(x, Nil, Distinct(Id(other))),
    Const(x, Nil, IntBits(129)), Const(x, Nil, UintBits(8)), Var(x, Nil, Nil) }

GlobalTerms ==
  {<<d, e, f>> : d \in GlobalMenu("a", "b", "c"), e \in GlobalMenu("b", "c", "a"),
               f \in GlobalMenu("c", "a", "b")}

(***************************************************************************)
(* Functions, blocks and calls.                                            *)
(***************************************************************************)
Locals == { Var("a", Nil, Num), Const("b", KwInt, Id("a")), Var("a", Nil, Id("b")),
            CallOf(Id("f"), <<Id("a")>>), Ret(Id("b")), Ret(Nil),
            Func("b", <<Par(<<"a">>, KwInt)>>, KwFloat, Ret(Id("a"))) }

Bodies == {Do(<<>>)} \cup {Do(<<s>>) : s \in Locals} \cup {Do(<<s, t>>) : s, t \in Locals}

FunctionTerms ==
  {<<Func("f", <<Par(<<"a">>, KwInt)>>, KwInt, body), d>> :
     body \in Bodies,
     d \in {Const("b", Nil, Num), Const("b", Nil, Do(<<Const("b", KwInt, Num)>>)),
            Var("b", Nil, CallOf(Id("f"), <<Num>>)), Func("b", <<>>, Id("b"), Id("f"))}}
  \cup
  {<<d, Func("f", <<Par(<<"a", "c">>, Id("b"))>>, ret, body)>> :
     ret \in {Nil, KwFloat, Id("b")}, body \in Bodies,
     d \in {Const("b", Nil, KwInt), Var("b", Nil, CallOf(Id("f"), <<Num>>))}}

(***************************************************************************)
(* Struct types and literals.                                              *)
(***************************************************************************)
StructMenu ==
  { StructT(<<Fd(<<"x", "y">>, KwInt, Nil)>>), StructT(<<Fd(<<"x">>, Nil, Num), Fd(<<"y">>, KwFloat, Real)>>),
    StructT(<<Fd(<<"x">>, Id("s"), ZeroNum)>>), StructT(<<Fd(<<"x">>, KwAuto, Nil)>>),
    StructT(<<Fd(<<"x", "y">>, KwString, Text)>>), StructT(<<Fd(<<"x">>, Id("t"), Nil)>>),
    StructT(<<Fd(<<"x">>, KwInt, Text)>>), StructT(<<>>), KwAuto, KwString, KwUsize, Id("t"), Num }

Values3 == { Num, ZeroNum, Real, Text, Minus(Real), Lit(Nil, <<Named("x", Num)>>), Lit(KwAuto, <<Named("y", Num)>>),
             Lit(Id("s"), <<Pos(Num), Pos(Real)>>), Lit(Nil, <<>>), Id("s") }

LiteralMenu ==
  {Lit(t, <<Named("x", v)>>) : t \in {Id("s"), Id("t")}, v \in Values3}
  \cup {Lit(Id("s"), items) : items \in {<<>>, <<Named("y", Num), Named("x", Num)>>,
          <<Pos(Num), Pos(Num), Pos(Num)>>, <<Named("z", Num)>>, <<Named("x", Group(Num)), Pos(ZeroNum)>>}}
  \cup {Lit(Nil, <<Pos(Num)>>), Dot(Id("v"), "x"), Dot(Dot(Lit(Id("t"), <<>>), "x"), "y"),
        CastTo(Id("s"), Lit(Nil, <<Named("y", Num)>>)), CastTo(Id("t"), ZeroNum), CastTo(Nil, Num),
        CastTo(KwCstr, Text), Minus(Id("s")), Plus(ZeroNum), Plus(Id("s")) }

StructTerms ==
  {<<Const("v", type, value), Const("t", Nil, StructT(<<Fd(<<"x">>, Id("s"), Nil)>>)),
             Const("s", Nil, s)>> :
     type \in {Nil, Id("t")}, value \in LiteralMenu, s \in StructMenu}
=============================================================================
