------------------------------ MODULE MCParser ------------------------------
(***************************************************************************)
(* The parser on texts printed from trees, and on the same texts with one  *)
(* token taken out, replaced or put in.  The trees are the programs the    *)
(* analyser is checked on, and declarations of every expression of up to   *)
(* two operators over one another.                                         *)
(***************************************************************************)
EXTENDS Parser, Samples

VARIABLE origin   \* the terms the text was printed from, or none

mcvars == <<vars, origin>>

(***************************************************************************)
(* Spelling.                                                              *)
(***************************************************************************)
Sign(kind) == <<Token(kind, "", 0)>>
Name(x)    == <<Token("IDENT", x, 0)>>

\* Every sequence of s, with the separator between them
Join(s, separator) ==
  FlattenSeq([i \in DOMAIN s |-> IF i = 1 THEN s[i] ELSE Sign(separator) \o s[i]])
SpellNames(names) == Join([i \in DOMAIN names |-> Name(names[i])], ",")

RECURSIVE Spell(_)
\* A term that may be missing, and what is printed before it if it is there
Given(before, t) == IF t = Nil THEN <<>> ELSE before \o Spell(t)

Spell(t) ==
  LET kid(i) == Spell(t.kids[i])
      items == Join([i \in DOMAIN t.labels |->
                  (IF t.labels[i] = <<>> THEN <<>> ELSE Name(t.labels[i][1]) \o Sign(":")) \o kid(i + 1)], ",")
      args  == Join([i \in 1 .. Len(t.kids) - 1 |-> kid(i + 1)], ",")
      params == Join([i \in DOMAIN t.labels |-> SpellNames(t.labels[i]) \o Sign(":") \o kid(i + 2)], ",")
      fields == FlattenSeq([i \in DOMAIN t.labels |->
                   SpellNames(t.labels[i]) \o Sign(":")
                     \o Given(<<>>, t.kids[2 * i - 1]) \o Given(Sign("="), t.kids[2 * i]) \o Sign(";")])
      body == IF t.kids[2].kind = "BLOCK" THEN kid(2) ELSE Sign("=") \o kid(2) \o Sign(";")
  IN  CASE t.kind \in Literals -> <<Token(t.kind, "", t.data)>>
        [] t.kind = "IDENT"    -> Name(t.name)
        [] t.kind = "BINARY"   -> kid(1) \o Sign(t.name) \o kid(2)
        [] t.kind = "UNARY"    -> Sign(IF t.const THEN "-" ELSE "+") \o kid(1)
        [] t.kind = "GROUPING" -> Sign("(") \o kid(1) \o Sign(")")
        [] t.kind = "DISTINCT" -> Sign("distinct") \o kid(1)
        [] t.kind = "CAST"     -> Sign("cast") \o (IF t.kids[1] = Nil THEN <<>> ELSE Sign("[") \o kid(1) \o Sign("]")) \o kid(2)
        [] t.kind = "ACCESS"   -> kid(1) \o Sign(".") \o Name(t.name)
        [] t.kind = "RETURN"   -> Sign("return") \o Given(<<>>, t.kids[1])
        [] t.kind = "BLOCK" ->
             Sign("do") \o FlattenSeq([i \in DOMAIN t.kids |-> kid(i) \o Sign(";")]) \o Sign("end")
        [] t.kind = "FUNC_CALL"   -> kid(1) \o Sign("(") \o args \o Sign(")")
        [] t.kind = "STRUCT_TYPE" -> Sign("struct") \o Sign("{") \o fields \o Sign("}")
        [] t.kind = "STRUCT_LITERAL" ->
             (IF t.kids[1] = Nil THEN Sign(".") ELSE kid(1)) \o Sign("{") \o items \o Sign("}")
        [] t.kind = "VAR_DECL" ->
             Sign(IF t.const THEN "const" ELSE "var") \o Name(t.name)
               \o Given(Sign(":"), t.kids[1]) \o Given(Sign("="), t.kids[2]) \o Sign(";")
        [] t.kind = "FUNC_DECL" ->
             Sign("func") \o Name(t.name) \o Sign("(") \o params \o Sign(")")
               \o Given(Sign(":"), t.kids[1]) \o body
        [] OTHER -> Sign(CHOOSE k \in DOMAIN PrimitiveType : PrimitiveType[k] = t)

SpellAll(terms) == FlattenSeq([i \in DOMAIN terms |-> Spell(terms[i])])

(***************************************************************************)
(* How tight a term is bound; what may stand where without parentheses.    *)
(***************************************************************************)
Strength(t) ==
  CASE t.kind = "BINARY"                         -> Level(t.name)
    [] t.kind \in {"UNARY", "DISTINCT", "CAST"}  -> UnaryLevel
    [] OTHER                                     -> Level("(")

\* A return takes all there is to its right, and so does what ends in one.
RECURSIVE Open(_)
Open(t) ==
  \/ t.kind = "RETURN"
  \/ t.kind \in {"BINARY", "UNARY", "DISTINCT", "CAST"} /\ Open(t.kids[Len(t.kids)])

\* An operand on the right, where a return may stand too, and on the left.
Behind(t, level) == t.kind = "RETURN" \/ Strength(t) >= level
Before(t, level) == ~Open(t) /\ Strength(t) >= level

\* Operands bind at least as tight as their operator, the right one tighter;
\* what is called, accessed or made into a literal binds tightest.
Bound(t) ==
  CASE t.kind = "BINARY" -> Before(t.kids[1], Level(t.name)) /\ Behind(t.kids[2], Level(t.name) + 1)
    [] t.kind \in {"UNARY", "DISTINCT", "CAST"} -> Behind(t.kids[Len(t.kids)], UnaryLevel)
    [] t.kind \in {"FUNC_CALL", "ACCESS", "STRUCT_LITERAL"} -> Before(t.kids[1], Level("("))
    [] OTHER -> TRUE

\* The kids a term cannot do without.
Needed(t) ==
  CASE t.kind = "VAR_DECL"       -> {}
    [] t.kind = "RETURN"         -> {}
    [] t.kind \in {"CAST", "STRUCT_LITERAL", "FUNC_DECL"} -> DOMAIN t.kids \ {1}
    [] t.kind = "STRUCT_TYPE"    -> {i \in DOMAIN t.kids : i % 2 = 1 /\ t.kids[i + 1] = Nil}
    [] OTHER                     -> DOMAIN t.kids

Complete(t) ==
  /\ \A i \in Needed(t) : t.kids[i] # Nil
  /\ t.kind \in {"STRUCT_TYPE", "FUNC_DECL"} => \A i \in DOMAIN t.labels : t.labels[i] # <<>>

RECURSIVE Subterms(_)
Subterms(t) == {t} \cup UNION {Subterms(t.kids[i]) : i \in DOMAIN t.kids}

(***************************************************************************)
(* The texts.                                                              *)
(***************************************************************************)
Over(es) ==
  {Binary(op, l, r) : op \in {"+", "-", "*"}, l, r \in es} \cup {Minus(e) : e \in es}
  \cup {Dot(e, "x") : e \in es} \cup {CallOf(e, <<f>>) : e, f \in es} \cup {CastTo(Nil, e) : e \in es}
  \cup {Distinct(e) : e \in es} \cup {Group(e) : e \in es} \cup {Ret(Group(e)) : e \in es}
  \cup {Lit(e, <<Named("x", e), Pos(e)>>) : e \in es} \cup {CastTo(e, e) : e \in es}

One == {Id("a"), Num}
Expressions == {e \in Over(One \cup {t \in Over(One) : Bound(t)}) : Bound(e)}

Spelled == GlobalTerms \cup StructTerms \cup FunctionTerms \cup {<<Const("a", Nil, e)>> : e \in Expressions}

\* Declarations with something of everything.
Mixed ==
  { <<Const("s", Nil, StructT(<<Fd(<<"x", "y">>, KwInt, Num), Fd(<<"z">>, Nil, Real), Fd(<<"w">>, Id("a"), Nil)>>))>>,
    <<Var("v", Id("s"), Lit(Id("s"), <<Named("x", Num), Pos(Minus(Id("a")))>>))>>,
    <<Func("f", <<Par(<<"a", "b">>, KwInt), Par(<<"c">>, Id("s"))>>, KwVoid,
         Do(<<Var("d", Nil, Dot(Id("c"), "x")), CallOf(Id("f"), <<Id("a"), Text>>), Ret(Nil)>>))>>,
    <<Func("g", <<>>, Nil, Binary("*", Group(Binary("-", Id("a"), Num)), CastTo(KwFloat, Id("b")))),
      Const("e", Nil, Distinct(UintBits(8)))>> }

Spare == { Token(kind, "", 0) : kind \in {";", ":", ",", ".", "=", "(", ")", "{", "}", "[", "-",
                                          "do", "end", "return", "const", "if", "int"} }
         \cup {Token("IDENT", "b", 0)}

Edits(t) ==
  {RemoveAt(t, i) : i \in DOMAIN t} \cup {ReplaceAt(t, i, k) : i \in DOMAIN t, k \in Spare}
  \cup {InsertAt(t, i, k) : i \in 1 .. Len(t) + 1, k \in Spare}

Edited == UNION {Edits(SpellAll(terms)) : terms \in Mixed}

MCTexts  == {SpellAll(terms) : terms \in Spelled} \cup Edited
MCStrays == {{}, {"int", ")"}}

MCInit ==
  /\ \/ origin \in Spelled /\ text = SpellAll(origin)
     \/ origin = <<>> /\ text \in Edited
  /\ Start

MCNext == Next /\ UNCHANGED origin

MCSpec == MCInit /\ [][MCNext]_mcvars

(***************************************************************************)
(* Properties.                                                             *)
(***************************************************************************)
AllTerms == UNION {Subterms(decls[i]) : i \in DOMAIN decls}

\* A text printed from a tree is accepted, and the tree is what it is parsed
\* to: of an accepted program each part is what it was written as.
ParsesBack == origin # <<>> => status \in {"parsing", "ok"} /\ IsPrefix(decls, origin)
                               /\ (status = "ok" => decls = origin)

\* The tokens a tree keeps nothing of.
Separators == {",", ";", ":", "[", "]"}
Kept(s) == SelectSeq(s, LAMBDA token : token.kind \notin Separators)

\* What was read, with the field after a dot as it was read: the name that is
\* in its token.
Read ==
  [i \in 1 .. place - 1 |->
     IF i > 1 /\ text[i - 1].kind = "." /\ text[i].kind # "{" THEN Name(text[i].name)[1] ELSE text[i]]

\* No token of any text is dropped, repeated or moved: the declarations parsed
\* so far print as what was read so far, but for the separators.
Unparses == Kept(SpellAll(decls)) = Kept(Read)

\* In whatever is accepted, operands bind tighter than their operators and
\* equal operators to the left, as parse_precedence's levels say.
BindsTighter == \A t \in AllTerms : Bound(t)

\* The analyser visits the parts of a node without asking whether they are
\* there, but for a declaration's type and value, what is returned, cast to or
\* written before a literal, and one of a field's type and default.
TreesAreComplete == \A t \in AllTerms : Complete(t)
=============================================================================
