------------------------------- MODULE Syntax -------------------------------
(***************************************************************************)
(* Syntax trees for model checking the analyser, in the shape parse.c      *)
(* builds them.  A program is written as nested terms and Flatten numbers  *)
(* the nodes.  Only what the parser can produce has a constructor: an      *)
(* expression of parse_precedence, a declaration of decl(), a statement    *)
(* of stmt().                                                              *)
(***************************************************************************)
EXTENDS Values, SequencesExt

Term(kind, name, const, data, labels, kids) ==
  [kind |-> kind, name |-> name, const |-> const, data |-> data,
   labels |-> labels, kids |-> kids]

\* A NULL child.
Nil == Term("NIL", "", FALSE, 0, <<>>, <<>>)

Atom(kind, data) == Term(kind, "", FALSE, data, <<>>, <<>>)
Unary(kind, kid) == Term(kind, "", FALSE, 0, <<>>, <<kid>>)

Num      == Atom("INTEGER_LIT", 1)
ZeroNum  == Atom("INTEGER_LIT", 0)
Real     == Atom("FLOAT_LIT", 1)
Text     == Atom("STRING_LIT", 0)
IntBits(w)  == Atom("INT_BITS", w)
UintBits(w) == Atom("UINT_BITS", w)
KwInt    == Atom("INT", 0)
KwUint   == Atom("UINT", 0)
KwFloat  == Atom("FLOAT", 0)
KwString == Atom("STRING", 0)
KwCstr   == Atom("CSTR", 0)
KwUsize  == Atom("USIZE", 0)
KwVoid   == Atom("VOID", 0)
KwAuto   == Atom("AUTO", 0)
KwType   == Atom("TYPE", 0)

Id(x)        == Term("IDENT", x, FALSE, 0, <<>>, <<>>)
Binary(op, l, r) == Term("BINARY", op, FALSE, 0, <<>>, <<l, r>>)
Arith(l, r)  == Binary("+", l, r)
Minus(e)     == Term("UNARY", "", TRUE, 0, <<>>, <<e>>)
Plus(e)      == Unary("UNARY", e)
Group(e)     == Unary("GROUPING", e)
Distinct(e)  == Unary("DISTINCT", e)
CastTo(t, e) == Term("CAST", "", FALSE, 0, <<>>, <<t, e>>)
Dot(e, x)    == Term("ACCESS", x, FALSE, 0, <<>>, <<e>>)
CallOf(f, args) == Term("FUNC_CALL", "", FALSE, 0, <<>>, <<f>> \o args)
Do(stmts)    == Term("BLOCK", "", FALSE, 0, <<>>, stmts)
Ret(e)       == Unary("RETURN", e)

\* Fields of struct types and literals.
Fd(labels, type, default) == [names |-> labels, type |-> type, default |-> default]
StructT(fds) ==
  Term("STRUCT_TYPE", "", FALSE, 0, [i \in DOMAIN fds |-> fds[i].names],
       FlattenSeq([i \in DOMAIN fds |-> <<fds[i].type, fds[i].default>>]))

Named(x, e) == [label |-> <<x>>, value |-> e]
Pos(e)      == [label |-> <<>>, value |-> e]
Lit(type, items) ==
  Term("STRUCT_LITERAL", "", FALSE, 0, [i \in DOMAIN items |-> items[i].label],
       <<type>> \o [i \in DOMAIN items |-> items[i].value])

Const(x, t, e) == Term("VAR_DECL", x, TRUE, 0, <<>>, <<t, e>>)
Var(x, t, e)   == Term("VAR_DECL", x, FALSE, 0, <<>>, <<t, e>>)

Par(labels, type) == [names |-> labels, type |-> type]
Func(x, pars, ret, body) ==
  Term("FUNC_DECL", x, FALSE, 0, [i \in DOMAIN pars |-> pars[i].names],
       <<ret, body>> \o [i \in DOMAIN pars |-> pars[i].type])

(***************************************************************************)
(* Numbering: preorder, node `at` first.                                   *)
(***************************************************************************)
RECURSIVE Flat(_, _, _)
Flat(t, at, root) ==
  LET add(acc, kid) ==
        LET here == at + Len(acc.nodes) + 1
        IN  IF kid = Nil THEN [acc EXCEPT !.ids = Append(@, 0)]
            ELSE [nodes |-> acc.nodes \o Flat(kid, here, root),
                  ids |-> Append(acc.ids, here)]
      kids == FoldLeft(add, [nodes |-> <<>>, ids |-> <<>>], t.kids)
  IN  << [kind |-> t.kind, root |-> root, name |-> t.name, const |-> t.const,
          data |-> t.data, labels |-> t.labels, kids |-> kids.ids] >> \o kids.nodes

Program(terms) ==
  LET add(acc, t) ==
        LET here == Len(acc.node) + 1
        IN  [node |-> acc.node \o Flat(t, here, here), decls |-> Append(acc.decls, here)]
  IN  FoldLeft(add, [node |-> <<>>, decls |-> <<>>], terms)
=============================================================================
