------------------------------- MODULE Parser -------------------------------
(***************************************************************************)
(* The parser (source/parse.c): declarations one after the other, each by  *)
(* recursive descent, expressions by precedence (Pratt).                   *)
(*                                                                         *)
(* The text is the sequence of its tokens, as TokenQueue promises them;    *)
(* one with a lexical error ends the program in the stream and is left     *)
(* out.  A parsing function of the code is an operator from the place of   *)
(* the token it begins at to a result, the place after what it took and    *)
(* the node it made.  Place 0 is what exit(1) leaves: there is no token    *)
(* there, so that nothing is taken from it and whatever is parsed from it  *)
(* ends there too.  The nodes are those of Syntax.                         *)
(***************************************************************************)
EXTENDS Syntax

CONSTANTS
  Texts,     \* the texts: sequences of tokens
  Strays     \* the sets of kinds _match may meet behind the arguments it has

VARIABLES
  text,      \* the tokens of the source
  stray,     \* what that is in this build
  place,     \* of the next token
  decls,     \* the list behind head
  status

vars == <<text, stray, place, decls, status>>

Token(kind, name, data) == [kind |-> kind, name |-> name, data |-> data]

Peek(p)   == IF p \in DOMAIN text THEN text[p].kind ELSE "EOF"
NameAt(p) == IF p \in DOMAIN text THEN text[p].name ELSE ""
Ended(p) == Peek(p) = "EOF"

(***************************************************************************)
(* Results.                                                                *)
(***************************************************************************)
Parsed(p, n) == [at |-> p, node |-> n]
Nothing(p)   == Parsed(p, Nil)
Exited       == Nothing(0)

\* match(), where the answer does not matter, and consume()
Skip(p, kind)    == IF Peek(p) = kind THEN p + 1 ELSE p
Consume(p, kind) == IF Peek(p) = kind THEN p + 1 ELSE 0

RECURSIVE Semicolons(_)
Semicolons(p) == IF Peek(p) = ";" THEN Semicolons(p + 1) ELSE p

(***************************************************************************)
(* Precedence.                                                             *)
(***************************************************************************)
PrimitiveType ==
  [ string |-> KwString, cstr |-> KwCstr, int |-> KwInt, uint |-> KwUint, float |-> KwFloat,
    void |-> KwVoid, auto |-> KwAuto, type |-> KwType, usize |-> KwUsize ]

Literals  == {"INTEGER_LIT", "FLOAT_LIT", "STRING_LIT", "INT_BITS", "UINT_BITS"}
Operators == {"+", "-", "*", "/"}
Primary   == Literals \cup DOMAIN PrimitiveType \cup {"IDENT", "struct", "(", "{", "."}

TermLevel  == 1
UnaryLevel == 4

\* get_rule(token).precedence; none is 0
Level(kind) ==
  CASE kind \in {"+", "-"}             -> TermLevel
    [] kind \in {"*", "/"}             -> 2
    [] kind \in {"distinct", "cast"}   -> UnaryLevel
    [] kind \in Primary                -> 5
    [] OTHER                           -> 0

(***************************************************************************)
(* The recursion: an expression, the rest of one behind its left operand,  *)
(* a list or a declaration, from p on.                                     *)
(***************************************************************************)
RECURSIVE Parse(_, _, _)

Expr(p)              == Parse("expr", p, TermLevel)
ExprFrom(p, level)   == Parse("expr", p, level)
Rest(p, left, level) == Parse("rest", p, [left |-> left, level |-> level])
List(p, of)          == Parse("list", p, of)
Declaration(p)       == Parse("decl", p, "")

\* Mutant: the expression is taken and not kept.
OptionalLost(p, kind) == Nothing(IF Peek(p) = kind THEN Expr(p + 1).at ELSE p)

\* match(kind) then expr(), or NULL
Optional(p, kind) == IF Peek(p) = kind THEN Expr(p + 1) ELSE Nothing(p)

(***************************************************************************)
(* What lists are made of.                                                 *)
(***************************************************************************)
RECURSIVE Names(_, _)
\* x, y: of a parameter, there may be a comma before the colon too.
Names(p, trailing) ==
  LET q == Consume(p, "IDENT")
      rest == Names(q + 1, trailing)
      name == <<NameAt(p)>>
  IN  CASE Peek(q) # ","                            -> Parsed(q, name)
        [] trailing /\ Peek(q + 1) \in {")", ":"}   -> Parsed(q + 1, name)
        [] OTHER                                    -> Parsed(rest.at, name \o rest.node)

\* Mutant: a label is looked for by one token only.
ItemUnseen(p, close) ==
  LET labelled == close = "}" /\ Peek(p) = "IDENT"
      value    == Expr(IF labelled THEN Consume(p + 1, ":") ELSE p)
  IN  Parsed(IF Peek(value.at) = close THEN value.at ELSE Consume(value.at, ","),
             IF labelled THEN Named(NameAt(p), value.node) ELSE Pos(value.node))

\* A field of a struct literal may be labelled, which takes two tokens to
\* see; an argument of a call may not.
Item(p, close) ==
  LET labelled == close = "}" /\ Peek(p) = "IDENT" /\ Peek(p + 1) = ":"
      value    == Expr(IF labelled THEN p + 2 ELSE p)
  IN  Parsed(IF Peek(value.at) = close THEN value.at ELSE Consume(value.at, ","),
             IF labelled THEN Named(NameAt(p), value.node) ELSE Pos(value.node))

\* Mutant: a field needs neither type nor value.
FieldTypeOptional(p) == IF Peek(p) \in {"=", ";"} THEN Nothing(p) ELSE Expr(p)

\* name := value, or name: type
FieldType(p) == IF Peek(p) = "=" THEN Nothing(p) ELSE Expr(p)

StructField(p) ==
  LET names   == Names(p, FALSE)
      type    == FieldType(Consume(names.at, ":"))
      default == Optional(type.at, "=")
  IN  Parsed(Consume(default.at, ";"), Fd(names.node, type.node, default.node))

Param(p) ==
  LET names == Names(p, TRUE)
      type  == Expr(Consume(names.at, ":"))
  IN  Parsed(Skip(type.at, ","), Par(names.node, type.node))

(***************************************************************************)
(* Expressions.                                                            *)
(***************************************************************************)
\* struct_literal_infix, and auto_struct_prefix with type NULL
StructLiteral(p, type) ==
  LET items == List(p, "item") IN Parsed(items.at, Lit(type, items.node))

Call(p, callee) ==
  LET args == List(p, "argument")
  IN  Parsed(args.at, CallOf(callee, [i \in DOMAIN args.node |-> args.node[i].value]))

\* The field's name is of kind TK_IDENT, or of one that _match happens to find
\* behind its argument: the list of kinds is given to it without the 0 that
\* should end it.
FieldAccess(p, left) ==
  IF Peek(p) \in {"IDENT"} \cup stray THEN Parsed(p + 1, Dot(left, NameAt(p))) ELSE Exited

\* Mutant: equals are taken into the right operand.
BinaryLevelSame(op) == Level(op)

BinaryLevel(op) == Level(op) + 1

\* binary(): the right operand binds tighter, so that equals bind to the left.
BinaryOp(p, op, left) ==
  LET right == ExprFrom(p, BinaryLevel(op)) IN Parsed(right.at, Binary(op, left, right.node))

UnaryOp(p, op) ==
  LET operand == ExprFrom(p, UnaryLevel)
  IN  Parsed(operand.at, IF op = "-" THEN Minus(operand.node) ELSE Plus(operand.node))

DistinctType(p) ==
  LET child == ExprFrom(p, UnaryLevel) IN Parsed(child.at, Distinct(child.node))

\* cast x, cast[] x, cast[type] x
Cast(p) ==
  LET to == CASE Peek(p) # "["     -> Nothing(p)
              [] Peek(p + 1) = "]" -> Nothing(p + 2)
              [] OTHER             -> LET type == Expr(p + 1)
                                      IN  Parsed(Consume(type.at, "]"), type.node)
      operand == ExprFrom(to.at, UnaryLevel)
  IN  Parsed(operand.at, CastTo(to.node, operand.node))

Grouping(p) ==
  LET child == Expr(p) IN Parsed(Consume(child.at, ")"), Group(child.node))

StructType(p) ==
  LET fields == List(Consume(p, "{"), "field") IN Parsed(fields.at, StructT(fields.node))

\* do ... end, after the do
Block(p) == LET stmts == List(p, "stmt") IN Parsed(stmts.at, Do(stmts.node))

\* return, up to one of the kinds that may follow one without a value
Return(p, follow) ==
  LET value == IF Peek(p) \in follow THEN Nothing(p) ELSE Expr(p)
  IN  Parsed(value.at, Ret(value.node))

\* get_rule(token).prefix, of the token before p
Prefix(p, kind) ==
  CASE kind \in Literals              -> Parsed(p, Atom(kind, text[p - 1].data))
    [] kind \in DOMAIN PrimitiveType  -> Parsed(p, PrimitiveType[kind])
    [] kind = "IDENT"                 -> Parsed(p, Id(NameAt(p - 1)))
    [] kind \in {"+", "-"}            -> UnaryOp(p, kind)
    [] kind = "distinct"              -> DistinctType(p)
    [] kind = "cast"                  -> Cast(p)
    [] kind = "("                     -> Grouping(p)
    [] kind = "struct"                -> StructType(p)
    [] kind = "."                     -> StructLiteral(Consume(p, "{"), Nil)
    [] kind = "return"                -> Return(p, {";", "end", ")"})
    [] kind = "do"                    -> Block(p)
    [] OTHER                          -> Exited

\* get_rule(token).infix
Infix(p, kind, left) ==
  CASE kind \in Operators -> BinaryOp(p, kind, left)
    [] kind = "("         -> Call(p, left)
    [] kind = "{"         -> StructLiteral(p, left)
    [] kind = "."         -> FieldAccess(p, left)
    [] OTHER              -> Exited

\* The loop of parse_precedence, one turn.
Infixes(p, left, level) ==
  LET kind == Peek(p)
      more == Infix(p + 1, kind, left)
  IN  IF kind = "EOF" \/ Level(kind) < level THEN Parsed(p, left) ELSE Rest(more.at, more.node, level)

\* parse_precedence
Precedence(p, level) ==
  LET left == Prefix(p + 1, Peek(p)) IN IF Ended(p) THEN Exited ELSE Rest(left.at, left.node, level)

(***************************************************************************)
(* Statements and declarations.                                            *)
(***************************************************************************)
VarDecl(p, const) ==
  LET name  == Consume(p, "IDENT")
      type  == CASE Peek(name) # ":"     -> Nothing(name)
                 [] Peek(name + 1) = "=" -> Nothing(name + 1)
                 [] OTHER                -> Expr(name + 1)
      value == Optional(type.at, "=")
  IN  Parsed(Consume(value.at, ";"),
             IF const THEN Const(NameAt(p), type.node, value.node)
                      ELSE Var(NameAt(p), type.node, value.node))

FuncDecl(p) ==
  LET params == List(Consume(Consume(p, "IDENT"), "("), "param")
      ret    == Optional(params.at, ":")
      value  == Expr(ret.at + 1)
      body   == CASE Peek(ret.at) = "="  -> Parsed(Consume(value.at, ";"), value.node)
                  [] Peek(ret.at) = "do" -> Block(ret.at + 1)
                  [] OTHER               -> Exited
  IN  Parsed(body.at, Func(NameAt(p), params.node, ret.node, body.node))

Declarations == {"const", "var", "func"}

\* decl(), of a token that begins a declaration
Decl(p) == IF Peek(p) = "func" THEN FuncDecl(p + 1) ELSE VarDecl(p + 1, Peek(p) = "const")

Stmt(p) ==
  CASE Peek(p) \in Declarations -> Declaration(p)
    [] Peek(p) = "return"       -> LET ret == Return(p + 1, {";", "end"})
                                   IN  Parsed(Skip(ret.at, ";"), ret.node)
    [] OTHER                    -> Expr(p)

Close == [item |-> "}", argument |-> ")", field |-> "}", param |-> ")", stmt |-> "end"]

Element(p, of) ==
  CASE of = "field" -> StructField(p)
    [] of = "param" -> Param(p)
    [] of = "stmt"  -> LET stmt == Stmt(p) IN Parsed(Semicolons(stmt.at), stmt.node)
    [] OTHER        -> Item(p, Close[of])

\* while not check(close) and not ended: one more; consume(close)
Elements(p, of) ==
  LET one  == Element(p, of)
      rest == List(one.at, of)
  IN  IF Peek(p) = Close[of] \/ Ended(p) THEN Parsed(Consume(p, Close[of]), <<>>)
      ELSE Parsed(rest.at, <<one.node>> \o rest.node)

Parse(form, p, arg) ==
  CASE form = "expr" -> Precedence(p, arg)
    [] form = "rest" -> Infixes(p, arg.left, arg.level)
    [] form = "list" -> Elements(p, arg)
    [] form = "decl" -> Decl(p)

(***************************************************************************)
(* parse(): one action per turn of its loop.                               *)
(***************************************************************************)
Unfinished == status = "parsing" /\ ~Ended(place)

\* Where the declaration of this turn begins.
Begin == Semicolons(place)

ParseDecl ==
  /\ Unfinished /\ Peek(Begin) \in Declarations
  /\ LET decl == Declaration(Begin)
     IN  IF decl.at = 0 THEN status' = "exited" /\ UNCHANGED <<place, decls>>
         ELSE place' = decl.at /\ decls' = Append(decls, decl.node) /\ UNCHANGED status
  /\ UNCHANGED <<text, stray>>

\* Semicolons are skipped before a declaration and not after it: the last ones
\* of a text are taken for the beginning of one that is missing.
MissingDecl ==
  /\ Unfinished /\ Ended(Begin)
  /\ status' = "exited"
  /\ UNCHANGED <<text, stray, place, decls>>

\* decl() answers NULL and parse() ERROR; nothing is reported.
UnexpectedToken ==
  /\ Unfinished /\ ~Ended(Begin) /\ Peek(Begin) \notin Declarations
  /\ status' = "error"
  /\ UNCHANGED <<text, stray, place, decls>>

Finish ==
  /\ status = "parsing" /\ Ended(place)
  /\ status' = "ok"
  /\ UNCHANGED <<text, stray, place, decls>>

Start == stray \in Strays /\ place = 1 /\ decls = <<>> /\ status = "parsing"

Init == text \in Texts /\ Start

Returned == status # "parsing" /\ UNCHANGED vars

Next == ParseDecl \/ MissingDecl \/ UnexpectedToken \/ Finish \/ Returned

Spec == Init /\ [][Next]_vars
=============================================================================
