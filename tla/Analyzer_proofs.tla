--------------------------- MODULE Analyzer_proofs ---------------------------
(***************************************************************************)
(* What the handlers of the analyser do to the call stack, the scopes and  *)
(* the values, for every set of programs, and that NoReentry holds.        *)
(*                                                                         *)
(* The handlers are many and each is long, but most of them only drop the  *)
(* running activation, or replace it by an activation of the same node and *)
(* perhaps call an expression below it; those that do more are the four    *)
(* of identifiers, variables, functions and blocks.  The lemmas up to      *)
(* HandlerMoves establish that, one per handler; what follows about the    *)
(* stack and the scopes, here and in Scopes_proofs, looks at these moves   *)
(* only.                                                                   *)
(*                                                                         *)
(* Values are another matter: what a handler stores or returns depends on  *)
(* all it does.  After NoReentry come the lemmas that conversions make     *)
(* well made values of well made ones (Made, with the fields of a struct   *)
(* as many as its type has, all the way down), that a new type leaves the  *)
(* values of the others as they are, and, one handler after the other,     *)
(* that ValueInv is kept: the nodes, the symbols, the activations and the  *)
(* value being returned hold well made values, and the default values in   *)
(* the pool are of older types.                                            *)
(*                                                                         *)
(* The last part is about error values: where nothing has been reported    *)
(* and none is kept, a handler that reports nothing keeps and returns none *)
(* (HandlersClean), and asks for a child it will not ask for again.        *)
(***************************************************************************)
EXTENDS Analyzer, FiniteSetTheorems, SequenceTheorems, WellFoundedInduction, TLAPS

FrameFields  == {"node", "pc", "exp", "i", "j", "ty", "val", "bad", "fields", "sym", "save"}
SymbolFields == {"level", "const", "type", "value", "node"}

\* A frame analyze_node may make.  The type of a struct field is read for a
\* field that exists.
FrameOK(f) ==
  /\ DOMAIN f = FrameFields
  /\ f.node \in Nodes
  /\ f.i \in Nat \ {0}
  /\ Node(f.node).kind = "STRUCT_TYPE" /\ f.pc = "type" => f.i <= Len(Node(f.node).labels)

\* f is an activation of the node that is running.
Activation(f) == FrameOK(f) /\ f.node = Top.node

Global(n) == \E d \in DOMAIN prog.decls : n = prog.decls[d]

\* A symbol still UNDEFINED is a global's, of the declaration it was made for.
SymbolOK(k, x) ==
  LET s == SymbolAt(k, x)
  IN  /\ DOMAIN s = SymbolFields
      /\ s.level = Undefined =>
           /\ k = 1 /\ Global(s.node)
           /\ s.node \in Nodes /\ IsDeclaration(s.node) /\ Node(s.node).name = x

ScopesOK ==
  /\ \E S : scopes \in Seq(S)
  /\ \A k \in DOMAIN scopes :
       /\ DOMAIN scopes[k] = {"root", "sym"}
       /\ \A x \in DOMAIN scopes[k].sym : SymbolOK(k, x)

\* What a handler finds when it runs.
Ready == ProgramOK(prog) /\ FrameOK(Top) /\ ScopesOK

(***************************************************************************)
(* The moves of a handler.                                                 *)
(***************************************************************************)
Expression(n) == n \in Nodes /\ ~IsDeclaration(n)

Returns     == stack' = Below /\ ctl'.op = "return"
Stays(f)    == stack' = Append(Below, f) /\ ctl'.op = "go"
Calls(f, n) == stack' = Append(Below, f) /\ ctl'.op = "call" /\ ctl'.node = n
Evaluates(f) == Stays(f) \/ \E n : Expression(n) /\ Calls(f, n)

\* Everything that is neither the stack nor the scopes stays.
Steady == /\ UNCHANGED <<prog, analyzed, retType, next, status>>
          /\ hadError => hadError'
Quiet  == Steady /\ UNCHANGED scopes

QuietReturn  == Quiet /\ Returns
QuietStep(f) == Quiet /\ Activation(f) /\ Evaluates(f)
QuietMove    == QuietReturn \/ \E f : QuietStep(f)

PlainMove == This.kind \notin {"IDENT", "VAR_DECL", "FUNC_DECL", "BLOCK"} /\ QuietMove

\* A symbol keeps its node; the one of a variable that has failed gets the
\* variable's.
OwnNode(s, k, x) ==
  \/ s.node = SymbolAt(k, x).node
  \/ This.kind = "VAR_DECL" /\ Top.pc # "enter" /\ s.node = Top.node

\* The symbol x of scope k is given the level, and no other symbol changes.
Rewrites(k, x, level, new) ==
  \E s : /\ new = SetSymbol(k, x, s)
         /\ k \in DOMAIN scopes /\ x \in DOMAIN scopes[k].sym
              => /\ DOMAIN s = SymbolFields /\ s.level = level
                 /\ OwnNode(s, k, x)

\* find_local_first has the declaration of a name analysed.
LazyUse(k) ==
  /\ Top.pc = "enter"
  /\ k = Lookup(This.name) /\ k # 0 /\ SymbolAt(k, This.name).level = Undefined
  /\ Quiet
  /\ \E f : /\ Activation(f) /\ f.pc = "lazy" /\ f.sym = k
            /\ Calls(f, SymbolAt(k, This.name).node)

IdentMove == This.kind = "IDENT" /\ (QuietReturn \/ \E k : LazyUse(k))

OpensVar(k) ==
  /\ Top.pc = "enter"
  /\ k = Lookup(This.name) /\ k # 0 /\ SymbolAt(k, This.name).level # Defined
  /\ Rewrites(k, This.name, Defined, scopes')
  /\ Steady
  /\ \E f : Activation(f) /\ f.pc # "enter" /\ f.sym = k /\ Evaluates(f)

Collides ==
  /\ status' = "sentinel" /\ hadError'
  /\ UNCHANGED <<prog, analyzed, scopes, stack, ctl, retType, next>>

ClosesVar ==
  /\ Top.pc # "enter"
  /\ Rewrites(Top.sym, This.name, Declared, scopes')
  /\ Steady /\ Returns

VarMove ==
  /\ This.kind = "VAR_DECL"
  /\ \/ \E k : OpensVar(k)
     \/ Collides
     \/ ClosesVar
     \/ QuietReturn /\ IsCrash(ctl'.val)
     \/ \E f : Top.pc # "enter" /\ f.pc # "enter" /\ f.sym = Top.sym /\ QuietStep(f)

\* A new innermost scope.
Pushes(old, sc) ==
  /\ scopes' = Append(old, sc)
  /\ DOMAIN sc = {"root", "sym"}
  /\ \A x \in DOMAIN sc.sym : DOMAIN sc.sym[x] = SymbolFields /\ sc.sym[x].level = Ahh

OpensFunc ==
  /\ Top.pc \in {"enter", "ret"}
  /\ \E here, sc :
       /\ here = scopes \/ /\ This.name \in DOMAIN Innermost
                           /\ Rewrites(Len(scopes), This.name, Declared, here)
       /\ Pushes(here, sc)
  /\ \E f : /\ Activation(f) /\ f.pc = "next" /\ Stays(f)
            /\ f.ty = retType' /\ f.save = retType
  /\ UNCHANGED <<prog, analyzed, next, status, hadError>>

\* The innermost scope gets more symbols, all of them declared.
AddsParams ==
  \E sym : /\ scopes' = [scopes EXCEPT ![Len(scopes)].sym = sym]
           /\ DOMAIN Innermost \subseteq DOMAIN sym
           /\ \A x \in DOMAIN sym :
                IF x \in DOMAIN Innermost THEN sym[x] = Innermost[x]
                ELSE DOMAIN sym[x] = SymbolFields /\ sym[x].level = Declared

ClosesFunc ==
  /\ scopes' = PopScope
  /\ retType' = Top.save
  /\ Returns
  /\ UNCHANGED <<prog, analyzed, next, status>> /\ (hadError => hadError')

InBody == {"next", "param", "body"}

FuncMove ==
  /\ This.kind = "FUNC_DECL"
  /\ \/ /\ Top.pc \notin InBody
        /\ QuietReturn \/ OpensFunc \/ \E f : f.pc = "ret" /\ QuietStep(f)
     \/ /\ Top.pc \in InBody
        /\ \/ ClosesFunc
           \/ \E f : /\ Activation(f) /\ Evaluates(f) /\ Steady
                     /\ f.pc \in InBody /\ f.ty = Top.ty /\ f.save = Top.save
                     /\ UNCHANGED scopes \/ AddsParams

OpensBlock ==
  /\ Top.pc = "enter"
  /\ \E sc : Pushes(scopes, sc) /\ sc.sym = Hoisted(This.kids, Ahh)
  /\ Steady
  /\ \/ Returns /\ hadError'
     \/ ~Redefines(This.kids) /\ \E f : Activation(f) /\ f.pc # "enter" /\ Stays(f)

ClosesBlock ==
  /\ Top.pc # "enter"
  /\ scopes' = PopScope
  /\ Steady /\ Returns

BlockMove ==
  /\ This.kind = "BLOCK"
  /\ \/ OpensBlock
     \/ ClosesBlock
     \/ \E f : /\ Top.pc # "enter" /\ Activation(f) /\ f.pc # "enter" /\ Quiet
               /\ Stays(f) \/ \E j \in DOMAIN This.kids : Kid(j) \in Nodes /\ Calls(f, Kid(j))

HandlerMove == PlainMove \/ IdentMove \/ VarMove \/ FuncMove \/ BlockMove

(***************************************************************************)
(* The children the handlers ask for.                                      *)
(***************************************************************************)
LEMMA KidIsExpression ==
  ASSUME Ready, This.kind # "BLOCK", NEW k \in DOMAIN This.kids, Kid(k) # 0
  PROVE  Expression(Kid(k))
<1>1. NodeOK(prog, This)
  BY DEF Ready, FrameOK, ProgramOK, This, Node, Nodes
<1>2. This.kids[k] \in Nodes
  BY <1>1 DEF NodeOK, Nodes, Kid
<1> QED BY <1>1, <1>2 DEF NodeOK, Expression, IsDeclaration, Kid, Node

LEMMA Operands ==
  ASSUME Ready
  PROVE  /\ This.kind \in {"UNARY", "GROUPING", "DISTINCT", "ACCESS", "BINARY", "FUNC_CALL"}
              => Expression(Kid(1))
         /\ This.kind \in {"BINARY", "CAST"} => Expression(Kid(2))
         /\ This.kind \in {"CAST", "STRUCT_LITERAL", "RETURN", "VAR_DECL", "FUNC_DECL"}
              /\ HasKid(1) => Expression(Kid(1))
         /\ This.kind \in {"VAR_DECL", "FUNC_DECL"} /\ HasKid(2) => Expression(Kid(2))
<1>1. NodeOK(prog, This)
  BY DEF Ready, FrameOK, ProgramOK, This, Node, Nodes
<1>2. PICK n \in Nat : n = Len(This.kids) /\ DOMAIN This.kids = 1 .. n
  BY <1>1 DEF NodeOK
<1>3. PICK m \in Nat : m = Len(This.labels)
  BY <1>1 DEF NodeOK
<1>4. n = Arity(This)
  BY <1>1, <1>2 DEF NodeOK
<1>5. \A k \in 1 .. n : k \notin Optional(This) => Kid(k) # 0
  BY <1>1, <1>2 DEF NodeOK, Kid
<1>6. ASSUME This.kind \in {"UNARY", "GROUPING", "DISTINCT", "ACCESS"}
      PROVE  n = 1 /\ Optional(This) = {}
  BY <1>4, <1>6 DEF Arity, Optional
<1>7. ASSUME This.kind = "BINARY" PROVE n = 2 /\ Optional(This) = {}
  BY <1>4, <1>7 DEF Arity, Optional
<1>8. ASSUME This.kind = "FUNC_CALL" PROVE n >= 1 /\ Optional(This) = {}
  BY <1>1, <1>2, <1>8 DEF Optional, NodeOK
<1>9. ASSUME This.kind = "CAST" PROVE n = 2 /\ Optional(This) = {1}
  BY <1>4, <1>9 DEF Arity, Optional
<1>10. ASSUME This.kind \in {"STRUCT_LITERAL", "RETURN"} PROVE n >= 1
  BY <1>3, <1>4, <1>10 DEF Arity
<1>11. ASSUME This.kind \in {"VAR_DECL", "FUNC_DECL"} PROVE n >= 2
  BY <1>3, <1>4, <1>11 DEF Arity
<1>12. ASSUME NEW k \in 1 .. n, This.kind # "BLOCK", Kid(k) # 0 PROVE Expression(Kid(k))
  BY <1>2, <1>12, KidIsExpression
<1>13. This.kind \in {"UNARY", "GROUPING", "DISTINCT", "ACCESS", "BINARY", "FUNC_CALL"}
         => Expression(Kid(1))
  BY <1>5, <1>6, <1>7, <1>8, <1>12
<1>14. This.kind \in {"BINARY", "CAST"} => Expression(Kid(2))
  BY <1>5, <1>7, <1>9, <1>12
<1>15. This.kind \in {"CAST", "STRUCT_LITERAL", "RETURN", "VAR_DECL", "FUNC_DECL"}
         /\ HasKid(1) => Expression(Kid(1))
  BY <1>9, <1>10, <1>11, <1>12 DEF HasKid
<1>16. This.kind \in {"VAR_DECL", "FUNC_DECL"} /\ HasKid(2) => Expression(Kid(2))
  BY <1>11, <1>12 DEF HasKid
<1> QED BY <1>13, <1>14, <1>15, <1>16

LEMMA ListedOperands ==
  ASSUME Ready
  PROVE  /\ This.kind = "STRUCT_TYPE" /\ Top.i <= Len(This.labels) =>
              /\ HasKid(2 * Top.i - 1) => Expression(Kid(2 * Top.i - 1))
              /\ HasKid(2 * Top.i) => Expression(Kid(2 * Top.i))
         /\ This.kind = "STRUCT_LITERAL" /\ Top.i <= Len(This.labels)
              => Expression(Kid(1 + Top.i))
         /\ This.kind = "FUNC_DECL" /\ Top.i <= Len(This.labels) /\ HasKid(2 + Top.i)
              => Expression(Kid(2 + Top.i))
         /\ This.kind = "FUNC_CALL" /\ Top.i < Len(This.kids) => Expression(Kid(1 + Top.i))
         /\ This.kind = "BLOCK" /\ Top.i <= Len(This.kids)
              => Top.i \in DOMAIN This.kids /\ Kid(Top.i) \in Nodes
<1>1. NodeOK(prog, This)
  BY DEF Ready, FrameOK, ProgramOK, This, Node, Nodes
<1>2. PICK n \in Nat : n = Len(This.kids) /\ DOMAIN This.kids = 1 .. n
  BY <1>1 DEF NodeOK
<1>3. PICK m \in Nat : m = Len(This.labels)
  BY <1>1 DEF NodeOK
<1>4. PICK i \in Nat : i = Top.i /\ i >= 1
  BY DEF Ready, FrameOK
<1>5. n = Arity(This)
  BY <1>1, <1>2 DEF NodeOK
<1>6. \A k \in 1 .. n : k \notin Optional(This) => Kid(k) # 0
  BY <1>1, <1>2 DEF NodeOK, Kid
<1>7. ASSUME NEW k \in 1 .. n, This.kind # "BLOCK", Kid(k) # 0 PROVE Expression(Kid(k))
  BY <1>2, <1>7, KidIsExpression
<1>8. ASSUME This.kind = "STRUCT_TYPE", i <= m
      PROVE  2 * i - 1 \in 1 .. n /\ 2 * i \in 1 .. n
  BY <1>3, <1>5, <1>4, <1>8 DEF Arity
<1>9. ASSUME This.kind = "STRUCT_LITERAL", i <= m
      PROVE  1 + i \in 1 .. n /\ Kid(1 + i) # 0
  <2>1. 1 + i \in 1 .. n
    BY <1>3, <1>5, <1>4, <1>9 DEF Arity
  <2>2. Optional(This) = {1}
    BY <1>9 DEF Optional
  <2> QED BY <1>4, <1>6, <2>1, <2>2
<1>10. ASSUME This.kind = "FUNC_DECL", i <= m PROVE 2 + i \in 1 .. n
  BY <1>3, <1>5, <1>4, <1>10 DEF Arity
<1>11. ASSUME This.kind = "FUNC_CALL", i < n PROVE 1 + i \in 1 .. n /\ Kid(1 + i) # 0
  <2>1. 1 + i \in 1 .. n
    BY <1>4, <1>11
  <2>2. Optional(This) = {}
    BY <1>11 DEF Optional
  <2> QED BY <1>6, <2>1, <2>2
<1>12. ASSUME This.kind = "BLOCK", i <= n PROVE i \in DOMAIN This.kids /\ Kid(i) \in Nodes
  <2>1. i \in 1 .. n
    BY <1>4, <1>12
  <2>2. Optional(This) = {}
    BY <1>12 DEF Optional
  <2>3. This.kids[i] \in Nodes \cup {0}
    BY <1>1, <1>2, <2>1 DEF NodeOK, Nodes
  <2> QED BY <1>2, <1>6, <2>1, <2>2, <2>3 DEF Kid
<1> QED BY <1>2, <1>3, <1>4, <1>7, <1>8, <1>9, <1>10, <1>11, <1>12 DEF HasKid

(***************************************************************************)
(* The pieces the handlers are made of.                                    *)
(***************************************************************************)
\* A recursive call leaves the running frame, updated, on top.
LEMMA VisitMoves ==
  ASSUME NEW f, Activation(f), NEW kid, Expression(kid), NEW exp, Visit(f, kid, exp)
  PROVE  QuietStep(f)
BY DEF Visit, QuietStep, Quiet, Steady, Evaluates, Calls, Call, Control, Driver

\* Going back to the head of a loop keeps the node of the frame.
LEMMA LoopMoves ==
  ASSUME NEW f, Activation(f), Loop(f)
  PROVE  \E g : /\ Activation(g) /\ g = [f EXCEPT !.pc = "next"] /\ g.pc = "next"
                /\ Stays(g)
<1>1. PICK g : g = [f EXCEPT !.pc = "next"]
  OBVIOUS
<1>2. DOMAIN g = FrameFields /\ g.node = f.node /\ g.i = f.i /\ g.pc = "next"
  BY <1>1 DEF Activation, FrameOK, FrameFields
<1>3. Activation(g)
  BY <1>2 DEF Activation, FrameOK
<1> QED BY <1>1, <1>2, <1>3 DEF Loop, Stays, Go, Control

LEMMA ContinueMoves ==
  ASSUME NEW f, Activation(f), NEW report, Continue(f, report)
  PROVE  \E g : QuietStep(g) /\ g = [f EXCEPT !.pc = "next"] /\ g.pc = "next"
BY LoopMoves DEF Continue, QuietStep, Quiet, Steady, Evaluates, Driver

LEMMA YieldMoves ==
  ASSUME NEW v, Yield(v)
  PROVE  QuietReturn /\ ctl'.val = v
BY DEF Yield, Return, Returned, Control, QuietReturn, Quiet, Steady, Returns, Driver

LEMMA BailMoves == ASSUME Bail PROVE QuietReturn
BY DEF Bail, Return, Returned, Control, QuietReturn, Quiet, Steady, Returns, Driver

LEMMA InjectMoves == ASSUME NEW v, Inject(v) PROVE QuietReturn
BY YieldMoves
   DEF Inject, Return, Returned, Control, QuietReturn, Quiet, Steady, Returns, Driver

LEMMA NewTypeMoves == ASSUME NEW info, NEW v, InjectNewType(info, v) PROVE QuietReturn
BY DEF InjectNewType, Return, Returned, Control, QuietReturn, Quiet, Steady, Returns, Driver

\* A frame at another point of its handler, or with other locals, is still an
\* activation of its node.
LEMMA Advanced ==
  ASSUME NEW f, Activation(f), This.kind # "STRUCT_TYPE", NEW x
  PROVE  /\ Activation([f EXCEPT !.pc = x])
         /\ Activation([f EXCEPT !.ty = x])
         /\ Activation([f EXCEPT !.val = x])
         /\ Activation([f EXCEPT !.sym = x])
         /\ Activation([f EXCEPT !.save = x])
         /\ Activation([f EXCEPT !.i = @ + 1])
<1>1. ASSUME NEW g, DOMAIN g = FrameFields, g.node = f.node, g.i \in Nat \ {0}
      PROVE  Activation(g)
  BY <1>1 DEF Activation, FrameOK, This
<1>2. DOMAIN f = FrameFields
  BY DEF Activation, FrameOK
<1>3. PICK i \in Nat \ {0} : i = f.i
  BY DEF Activation, FrameOK
<1>4. ASSUME NEW g, \/ g = [f EXCEPT !.pc = x] \/ g = [f EXCEPT !.ty = x]
                    \/ g = [f EXCEPT !.val = x] \/ g = [f EXCEPT !.sym = x]
                    \/ g = [f EXCEPT !.save = x]
      PROVE  Activation(g)
  <2>1. DOMAIN g = FrameFields /\ g.node = f.node /\ g.i = i
    BY <1>2, <1>3, <1>4 DEF FrameFields
  <2> QED BY <1>1, <2>1
<1>5. ASSUME NEW g, g = [f EXCEPT !.i = @ + 1] PROVE Activation(g)
  <2>1. DOMAIN g = FrameFields /\ g.node = f.node /\ g.i = i + 1
    BY <1>2, <1>3, <1>5 DEF FrameFields
  <2> QED BY <1>1, <2>1
<1> QED BY <1>4, <1>5

(***************************************************************************)
(* The handlers that only move quietly.                                    *)
(***************************************************************************)
LEMMA LiteralMoves ==
  ASSUME \/ AnalyzeIntegerLit \/ AnalyzeFloatLit \/ AnalyzeStringLit
         \/ \E kind \in {"INT_BITS", "UINT_BITS"} : AnalyzeBits(kind)
         \/ \E kind \in TypeKeywords : AnalyzeTypeKeyword(kind)
  PROVE  PlainMove
<1>1. CASE AnalyzeIntegerLit \/ AnalyzeFloatLit \/ AnalyzeStringLit
  BY <1>1, InjectMoves
     DEF AnalyzeIntegerLit, AnalyzeFloatLit, AnalyzeStringLit, At, PlainMove, QuietMove
<1>2. ASSUME NEW kind \in {"INT_BITS", "UINT_BITS"}, AnalyzeBits(kind) PROVE PlainMove
  BY <1>2, InjectMoves, BailMoves DEF AnalyzeBits, At, PlainMove, QuietMove
<1>3. ASSUME NEW kind \in TypeKeywords, AnalyzeTypeKeyword(kind) PROVE PlainMove
  BY <1>3, InjectMoves DEF AnalyzeTypeKeyword, TypeKeywords, TypeOfKeyword, At, PlainMove, QuietMove
<1> QED BY <1>1, <1>2, <1>3

LEMMA BinaryMoves == ASSUME Ready, Activation(Top), AnalyzeBinary PROVE PlainMove
<1>1. This.kind = "BINARY"
  BY DEF AnalyzeBinary, At
<1>2. Expression(Kid(1)) /\ Expression(Kid(2))
  BY <1>1, Operands
<1>3. Activation([Top EXCEPT !.pc = "lhs"])
  BY <1>1, Advanced
<1>4. Activation([Top EXCEPT !.pc = "rhs", !.val = ctl.val])
  BY <1>1, Advanced
<1>5. QuietMove
  BY <1>2, <1>3, <1>4, VisitMoves, YieldMoves, BailMoves, InjectMoves
     DEF AnalyzeBinary, FoldArith, RuntimeBinary, QuietMove
<1> QED BY <1>1, <1>5 DEF PlainMove

LEMMA UnaryMoves == ASSUME Ready, Activation(Top), AnalyzeUnary PROVE PlainMove
<1>1. This.kind = "UNARY"
  BY DEF AnalyzeUnary, At
<1>2. Expression(Kid(1)) /\ Activation([Top EXCEPT !.pc = "rhs"])
  BY <1>1, Operands, Advanced
<1>3. QuietMove
  BY <1>2, VisitMoves, YieldMoves, BailMoves, InjectMoves DEF AnalyzeUnary, QuietMove
<1> QED BY <1>1, <1>3 DEF PlainMove

LEMMA GroupingMoves == ASSUME Ready, Activation(Top), AnalyzeGrouping PROVE PlainMove
<1>1. This.kind = "GROUPING"
  BY DEF AnalyzeGrouping, At
<1>2. Expression(Kid(1)) /\ Activation([Top EXCEPT !.pc = "child"])
  BY <1>1, Operands, Advanced
<1>3. QuietMove
  BY <1>2, VisitMoves, YieldMoves DEF AnalyzeGrouping, QuietMove
<1> QED BY <1>1, <1>3 DEF PlainMove

LEMMA DistinctMoves == ASSUME Ready, Activation(Top), AnalyzeDistinct PROVE PlainMove
<1>1. This.kind = "DISTINCT"
  BY DEF AnalyzeDistinct, At
<1>2. Expression(Kid(1)) /\ Activation([Top EXCEPT !.pc = "child"])
  BY <1>1, Operands, Advanced
<1>3. QuietMove
  BY <1>2, VisitMoves, YieldMoves, BailMoves, NewTypeMoves DEF AnalyzeDistinct, QuietMove
<1> QED BY <1>1, <1>3 DEF PlainMove

LEMMA CastMoves == ASSUME Ready, Activation(Top), AnalyzeCast PROVE PlainMove
<1>1. This.kind = "CAST"
  BY DEF AnalyzeCast, At
<1>2. /\ Expression(Kid(2)) /\ (HasKid(1) => Expression(Kid(1)))
      /\ Activation([Top EXCEPT !.pc = "to"])
  BY <1>1, Operands, Advanced
<1>3. ASSUME NEW to, CastOperand(to) PROVE QuietMove
  <2>1. Activation([Top EXCEPT !.pc = "expr", !.ty = to])
    BY <1>1, Advanced
  <2> QED BY <1>2, <1>3, <2>1, VisitMoves DEF CastOperand, QuietMove
<1>4. QuietMove
  BY <1>2, <1>3, VisitMoves, YieldMoves, BailMoves DEF AnalyzeCast, QuietMove
<1> QED BY <1>1, <1>4 DEF PlainMove

LEMMA AccessMoves == ASSUME Ready, Activation(Top), AnalyzeAccess PROVE PlainMove
<1>1. This.kind = "ACCESS"
  BY DEF AnalyzeAccess, At
<1>2. Expression(Kid(1)) /\ Activation([Top EXCEPT !.pc = "lhs"])
  BY <1>1, Operands, Advanced
<1>3. QuietMove
  BY <1>2, VisitMoves, YieldMoves, BailMoves, InjectMoves DEF AnalyzeAccess, QuietMove
<1> QED BY <1>1, <1>3 DEF PlainMove

LEMMA StructTypeMoves == ASSUME Ready, Activation(Top), AnalyzeStructType PROVE PlainMove
<1>1. This.kind = "STRUCT_TYPE"
  BY DEF AnalyzeStructType, AtLoop, At
<1> SUFFICES QuietMove
  BY <1>1 DEF PlainMove
<1>2. ASSUME NEW f, Activation(f), NEW report, Continue(f, report) PROVE QuietMove
  BY <1>2, ContinueMoves DEF QuietMove
<1>3. ASSUME NEW f, Activation(f), NEW kid, HasKid(kid), Expression(Kid(kid)), NEW exp,
             Visit(f, Kid(kid), exp)
      PROVE  QuietMove
  BY <1>3, VisitMoves DEF QuietMove
<1>4. ASSUME NEW f, DOMAIN f = FrameFields, f.node = Top.node, f.i \in Nat \ {0}, f.pc # "type"
      PROVE  Activation(f)
  BY <1>4 DEF Ready, Activation, FrameOK
<1>5. ASSUME NEW f, DOMAIN f = FrameFields, f.node = Top.node, f.i = Top.i, NEW report,
             Continue(NextName(f), report)
      PROVE  QuietMove
  <2>1. PICK g : g = NextName(f)
    OBVIOUS
  <2>2. PICK i \in Nat \ {0} : i = Top.i
    BY DEF Ready, FrameOK
  <2>3. DOMAIN g = FrameFields /\ g.node = Top.node /\ (g.i = i \/ g.i = i + 1)
    BY <1>5, <2>1, <2>2 DEF NextName, FrameFields
  <2>4. PICK h : h = [g EXCEPT !.pc = "next"]
    OBVIOUS
  <2>5. DOMAIN h = FrameFields /\ h.node = Top.node /\ h.i \in Nat \ {0} /\ h.pc = "next"
    BY <2>3, <2>4 DEF FrameFields
  <2>6. Activation(h)
    BY <1>4, <2>5
  <2>7. stack' = Append(Below, h) /\ ctl'.op = "go" /\ Quiet
    BY <1>5, <2>1, <2>4 DEF Continue, Loop, Go, Control, Quiet, Steady, Driver
  <2> QED BY <2>6, <2>7 DEF QuietMove, QuietStep, Evaluates, Stays
<1>6. DOMAIN Top = FrameFields
  BY DEF Ready, FrameOK
<1>7. ASSUME NEW report, FailField(report) PROVE QuietMove
  <2>1. PICK f : f = [Top EXCEPT !.bad = TRUE]
    OBVIOUS
  <2>2. DOMAIN f = FrameFields /\ f.node = Top.node /\ f.i = Top.i
    BY <1>6, <2>1 DEF FrameFields
  <2> QED BY <1>5, <1>7, <2>1, <2>2 DEF FailField
<1>8. ASSUME NEW type, NEW has, NEW default, AddField(type, has, default) PROVE QuietMove
  <2>1. PICK f : f = [Top EXCEPT !.fields =
                        Append(@, Field(This.labels[Top.i][Top.j], type, has, default))]
    OBVIOUS
  <2>2. DOMAIN f = FrameFields /\ f.node = Top.node /\ f.i = Top.i
    BY <1>6, <2>1 DEF FrameFields
  <2>3. Continue(NextName(f), FALSE)
    BY <1>8, <2>1 DEF AddField
  <2> QED BY <1>5, <2>2, <2>3
<1>9. ASSUME NEW default, FieldDefault(default) PROVE QuietMove
  BY <1>7, <1>8, <1>9, YieldMoves DEF FieldDefault, QuietMove
<1>10. ASSUME Top.i <= Len(This.labels), NEW type, ReadDefault(type) PROVE QuietMove
  <2>1. PICK f : f = [Top EXCEPT !.pc = "default", !.ty = type]
    OBVIOUS
  <2>2. DOMAIN f = FrameFields /\ f.node = Top.node /\ f.i = Top.i /\ f.pc = "default"
    BY <1>6, <2>1 DEF FrameFields
  <2>3. Activation(f)
    BY <1>4, <2>2 DEF Ready, FrameOK
  <2>4. HasKid(2 * Top.i) => Expression(Kid(2 * Top.i))
    BY <1>1, <1>10, ListedOperands
  <2>5. CASE HasKid(2 * Top.i)
    BY <1>3, <1>10, <2>1, <2>3, <2>4, <2>5 DEF ReadDefault
  <2>6. CASE ~HasKid(2 * Top.i)
    BY <1>7, <1>8, <1>10, <2>6 DEF ReadDefault
  <2> QED BY <2>5, <2>6
<1>11. CASE AtLoop("STRUCT_TYPE") /\ Top.i <= Len(This.labels)
            /\ IF HasKid(2 * Top.i - 1)
               THEN Visit([Top EXCEPT !.pc = "type"], Kid(2 * Top.i - 1), NoType)
               ELSE ReadDefault(TyAuto)
  <2>1. PICK f : f = [Top EXCEPT !.pc = "type"]
    OBVIOUS
  <2>2. DOMAIN f = FrameFields /\ f.node = Top.node /\ f.i = Top.i
    BY <1>6, <2>1 DEF FrameFields
  <2>3. Activation(f)
    BY <1>11, <2>2 DEF Ready, Activation, FrameOK, This
  <2>4. HasKid(2 * Top.i - 1) => Expression(Kid(2 * Top.i - 1))
    BY <1>1, <1>11, ListedOperands
  <2>5. CASE HasKid(2 * Top.i - 1)
    BY <1>3, <1>11, <2>1, <2>3, <2>4, <2>5
  <2>6. CASE ~HasKid(2 * Top.i - 1)
    BY <1>10, <1>11, <2>6
  <2> QED BY <2>5, <2>6
<1>12. CASE At("STRUCT_TYPE", "type")
            /\ IF IsType(ctl.val) THEN ReadDefault(ctl.val.t) ELSE FailField(~IsBad(ctl.val))
  <2>1. Top.i <= Len(This.labels)
    BY <1>12 DEF At, Ready, FrameOK, This
  <2> QED BY <1>7, <1>10, <1>12, <2>1
<1>13. CASE At("STRUCT_TYPE", "default") /\ FieldDefault(ctl.val)
  BY <1>9, <1>13
<1>14. CASE AtLoop("STRUCT_TYPE") /\ Top.i > Len(This.labels)
            /\ IF Top.bad THEN Yield(Bad)
               ELSE InjectNewType(Info("STRUCT", FALSE, Top.fields), TypeVal(NextTypeId(types)))
  BY <1>14, YieldMoves, NewTypeMoves DEF QuietMove
<1> QED BY <1>11, <1>12, <1>13, <1>14 DEF AnalyzeStructType

LEMMA StructLiteralMoves ==
  ASSUME Ready, Activation(Top), AnalyzeStructLiteral
  PROVE  PlainMove
<1>1. This.kind = "STRUCT_LITERAL"
  BY DEF AnalyzeStructLiteral, AnalyzeAutoLiteral, At
<1> SUFFICES QuietMove
  BY <1>1 DEF PlainMove
<1>2. /\ HasKid(1) => Expression(Kid(1))
      /\ Top.i <= Len(This.labels) => Expression(Kid(1 + Top.i))
  BY <1>1, Operands, ListedOperands
<1>3. DOMAIN Top = FrameFields
  BY DEF Ready, FrameOK
<1>i. PICK i \in Nat \ {0} : i = Top.i
  BY DEF Ready, FrameOK
<1>4. ASSUME NEW f, DOMAIN f = FrameFields, f.node = Top.node, f.i \in {i, i + 1}
      PROVE  Activation(f)
  BY <1>1, <1>4 DEF Ready, Activation, FrameOK, This
<1>5. ASSUME NEW f, DOMAIN f = FrameFields, f.node = Top.node, f.i \in {i, i + 1},
             NEW report, Continue(f, report)
      PROVE  QuietMove
  BY <1>4, <1>5, ContinueMoves DEF QuietMove
<1>n. PICK nx : nx = NextItem
  OBVIOUS
<1>6. DOMAIN nx = FrameFields /\ nx.node = Top.node /\ nx.i = i + 1
  BY <1>3, <1>i, <1>n DEF NextItem, FrameFields
<1>7. ASSUME NEW t, StartLiteral(t) PROVE QuietMove
  <2>1. ASSUME NEW ty, NEW v, Continue([Top EXCEPT !.ty = ty, !.val = v], FALSE)
        PROVE  QuietMove
    <3>1. PICK f : f = [Top EXCEPT !.ty = ty, !.val = v]
      OBVIOUS
    <3>2. DOMAIN f = FrameFields /\ f.node = Top.node /\ f.i = i
      BY <1>3, <1>i, <3>1 DEF FrameFields
    <3> QED BY <1>5, <2>1, <3>1, <3>2
  <2> QED BY <1>7, <2>1, BailMoves, YieldMoves DEF StartLiteral, QuietMove
<1>8. ASSUME NEW pc, NEW kid, Expression(kid), NEW exp, Visit([Top EXCEPT !.pc = pc], kid, exp)
      PROVE  QuietMove
  <2>1. PICK f : f = [Top EXCEPT !.pc = pc]
    OBVIOUS
  <2>2. DOMAIN f = FrameFields /\ f.node = Top.node /\ f.i = i
    BY <1>3, <1>i, <2>1 DEF FrameFields
  <2>3. Activation(f)
    BY <1>4, <2>2
  <2> QED BY <1>8, <2>1, <2>3, VisitMoves DEF QuietMove
<1>9. CASE AnalyzeAutoLiteral
  <2>1. ASSUME NEW x, NEW y, Continue([NextItem EXCEPT !.fields = x, !.val.fs = y], FALSE)
        PROVE  QuietMove
    <3>1. PICK f : f = [nx EXCEPT !.fields = x, !.val.fs = y]
      OBVIOUS
    <3>2. DOMAIN f = FrameFields /\ f.node = Top.node /\ f.i = i + 1
      BY <1>6, <3>1 DEF FrameFields
    <3> QED BY <1>5, <1>n, <2>1, <3>1, <3>2
  <2> QED
    BY <1>2, <1>8, <1>9, <2>1, YieldMoves, BailMoves, NewTypeMoves
       DEF AnalyzeAutoLiteral, QuietMove
<1>10. ASSUME NEW k, NEW v, SetLiteralField(k, v) PROVE QuietMove
  <2>1. PICK f : f = [nx EXCEPT !.val.fs[k] = v, !.bad = @ \/ IsBad(v)]
    OBVIOUS
  <2>2. DOMAIN f = FrameFields /\ f.node = Top.node /\ f.i = i + 1
    BY <1>6, <2>1 DEF FrameFields
  <2>3. Continue(f, IsBad(v))
    BY <1>n, <1>10, <2>1 DEF SetLiteralField
  <2> QED BY <1>5, <2>2, <2>3
<1>11. CASE At("STRUCT_LITERAL", "enter")
            /\ IF hint[Top.node] # NoType THEN StartLiteral(hint[Top.node])
               ELSE IF HasKid(1) THEN Visit([Top EXCEPT !.pc = "to"], Kid(1), NoType)
               ELSE StartLiteral(TyAuto)
  BY <1>2, <1>7, <1>8, <1>11
<1>12. CASE At("STRUCT_LITERAL", "to")
            /\ IF IsBad(ctl.val) THEN Yield(Bad)
               ELSE IF ~IsType(ctl.val) THEN Bail
               ELSE StartLiteral(ctl.val.t)
  BY <1>7, <1>12, YieldMoves, BailMoves DEF QuietMove
<1>13. ASSUME Top.i <= Len(This.labels), NEW k,
              stack' = Append(Below, [Top EXCEPT !.pc = "value", !.j = k + 1]),
              NEW t, ctl' = Call(Kid(1 + Top.i), t),
              UNCHANGED <<folded, scopes, types, threshold, names, hadError, retType, Driver>>
       PROVE  QuietMove
  <2>1. PICK f : f = [Top EXCEPT !.pc = "value", !.j = k + 1]
    OBVIOUS
  <2>2. DOMAIN f = FrameFields /\ f.node = Top.node /\ f.i = i
    BY <1>3, <1>i, <2>1 DEF FrameFields
  <2>3. Activation(f)
    BY <1>4, <2>2
  <2>4. Calls(f, Kid(1 + Top.i)) /\ Quiet
    BY <1>13, <2>1 DEF Calls, Call, Control, Quiet, Steady, Driver
  <2> QED BY <1>2, <1>13, <2>3, <2>4 DEF QuietMove, QuietStep, Evaluates
<1>14. ASSUME NEW report, Continue([NextItem EXCEPT !.bad = TRUE], report) PROVE QuietMove
  <2>1. PICK f : f = [nx EXCEPT !.bad = TRUE]
    OBVIOUS
  <2>2. DOMAIN f = FrameFields /\ f.node = Top.node /\ f.i = i + 1
    BY <1>6, <2>1 DEF FrameFields
  <2> QED BY <1>5, <1>n, <1>14, <2>1, <2>2
<1> QED
  BY <1>9, <1>10, <1>11, <1>12, <1>13, <1>14, YieldMoves, BailMoves, InjectMoves
     DEF AnalyzeStructLiteral, QuietMove

LEMMA FuncCallMoves == ASSUME Ready, Activation(Top), AnalyzeFuncCall PROVE PlainMove
<1>1. This.kind = "FUNC_CALL"
  BY DEF AnalyzeFuncCall, At
<1>2. /\ Expression(Kid(1))
      /\ Top.i < Len(This.kids) => Expression(Kid(1 + Top.i))
  BY <1>1, Operands, ListedOperands
<1>3. /\ Activation([Top EXCEPT !.pc = "callee"]) /\ Activation([Top EXCEPT !.pc = "arg"])
      /\ \A t : Activation([Top EXCEPT !.ty = t])
      /\ Activation(NextItem)
  BY <1>1, Advanced DEF NextItem
<1>4. ASSUME Loop(NextItem), UNCHANGED <<hint, scopes, types, threshold, names, hadError,
                                         retType, Driver>>
      PROVE  QuietMove
  BY <1>3, <1>4, LoopMoves DEF QuietMove, QuietStep, Quiet, Steady, Evaluates, Driver
<1>5. ASSUME NEW t, Continue([Top EXCEPT !.ty = t], FALSE) PROVE QuietMove
  <2>1. Activation([Top EXCEPT !.ty = t])
    BY <1>3
  <2> QED BY <1>5, <2>1, ContinueMoves DEF QuietMove
<1>6. QuietMove
  BY <1>2, <1>3, <1>4, <1>5, VisitMoves, YieldMoves DEF AnalyzeFuncCall, QuietMove
<1> QED BY <1>1, <1>6 DEF PlainMove

LEMMA ReturnStatementMoves == ASSUME Ready, Activation(Top), AnalyzeReturn PROVE PlainMove
<1>1. This.kind = "RETURN"
  BY DEF AnalyzeReturn, At
<1>2. (HasKid(1) => Expression(Kid(1))) /\ Activation([Top EXCEPT !.pc = "value"])
  BY <1>1, Operands, Advanced
<1>3. QuietMove
  BY <1>2, VisitMoves, YieldMoves, BailMoves, InjectMoves DEF AnalyzeReturn, QuietMove
<1> QED BY <1>1, <1>3 DEF PlainMove

(***************************************************************************)
(* Scopes and symbols.                                                     *)
(***************************************************************************)
\* A set of naturals that is not empty has a least element.
LEMMA LeastElement ==
  ASSUME NEW S, S \subseteq Nat, S # {}
  PROVE  \E x \in S : \A y \in S : x <= y
<1> DEFINE R == OpToRel(<, Nat)
<1>1. \E x \in S : \A y \in S : ~(<<y, x>> \in R)
  <2>1. IsWellFoundedOn(R, Nat)
    BY NatLessThanWellFounded
  <2> HIDE DEF R
  <2> QED BY <2>1, WFMin
<1>2. \A x, y \in Nat : ~(<<y, x>> \in R) => x <= y
  BY DEF OpToRel
<1> QED BY <1>1, <1>2

\* A set of positions that is not empty has a last one.
LEMMA GreatestElement ==
  ASSUME NEW n \in Nat, NEW S, S \subseteq 1 .. n, S # {}
  PROVE  \E x \in S : \A y \in S : y <= x
<1> DEFINE T == {m \in 0 .. n : n - m \in S}
<1>1. T \subseteq Nat
  OBVIOUS
<1>2. \A x \in S : n - x \in T
  OBVIOUS
<1>3. PICK m \in T : \A k \in T : m <= k
  <2>1. T # {}
    BY <1>2
  <2> QED BY <1>1, <2>1, LeastElement
<1>4. n - m \in S /\ m \in 0 .. n
  BY <1>3
<1>5. ASSUME NEW y \in S PROVE y <= n - m
  <2>1. m <= n - y /\ y \in 1 .. n
    BY <1>2, <1>3, <1>5
  <2> QED BY <1>4, <2>1
<1> QED BY <1>4, <1>5

\* find_local finds the innermost declaration of a name, if there is one.
LEMMA LookupFinds ==
  ASSUME ScopesOK, NEW x, NEW k, k = Lookup(x)
  PROVE  /\ k # 0 => /\ k \in DOMAIN scopes /\ x \in DOMAIN scopes[k].sym
                     /\ \A j \in DOMAIN scopes : x \in DOMAIN scopes[j].sym => j <= k
         /\ k = 0 => \A j \in DOMAIN scopes : x \notin DOMAIN scopes[j].sym
<1>1. PICK n \in Nat : DOMAIN scopes = 1 .. n
  BY DEF ScopesOK
<1> DEFINE hits == {j \in DOMAIN scopes : x \in DOMAIN scopes[j].sym}
<1>2. CASE hits = {}
  BY <1>2 DEF Lookup
<1>3. CASE hits # {}
  <2>1. \E m \in hits : \A j \in hits : j <= m
    BY <1>1, <1>3, GreatestElement
  <2>2. k = CHOOSE m \in hits : \A j \in hits : j <= m
    BY <1>3 DEF Lookup
  <2>3. k \in hits /\ \A j \in hits : j <= k
    BY <2>1, <2>2
  <2>4. k # 0
    BY <1>1, <2>3
  <2> QED BY <2>3, <2>4
<1> QED BY <1>2, <1>3

\* The innermost scope.
LEMMA LastScope ==
  ASSUME ScopesOK
  PROVE  /\ Len(scopes) \in Nat /\ DOMAIN scopes = 1 .. Len(scopes)
         /\ scopes # <<>> => Len(scopes) \in DOMAIN scopes
BY DEF ScopesOK

\* A symbol that is changed keeps its fields.
LEMMA Rewritten ==
  ASSUME ScopesOK, NEW k, NEW x, NEW level, NEW s,
         k \in DOMAIN scopes /\ x \in DOMAIN scopes[k].sym
           => /\ DOMAIN s = DOMAIN SymbolAt(k, x) /\ ("level" \in DOMAIN s => s.level = level)
              /\ "node" \in DOMAIN s => OwnNode(s, k, x)
  PROVE  Rewrites(k, x, level, SetSymbol(k, x, s))
<1>1. k \in DOMAIN scopes /\ x \in DOMAIN scopes[k].sym => DOMAIN SymbolAt(k, x) = SymbolFields
  BY DEF ScopesOK, SymbolOK
<1> QED BY <1>1 DEF Rewrites, SymbolFields

(***************************************************************************)
(* The four handlers that do more.                                         *)
(***************************************************************************)
LEMMA IdentMoves == ASSUME Ready, Activation(Top), AnalyzeIdent PROVE IdentMove
<1>1. This.kind = "IDENT"
  BY DEF AnalyzeIdent, At
<1>2. ASSUME NEW s, UseSymbol(s) PROVE QuietReturn
  BY <1>2, BailMoves, YieldMoves, InjectMoves DEF UseSymbol
<1>3. CASE UndefinedName \/ RecursiveUse
  BY <1>1, <1>3 DEF UndefinedName, RecursiveUse, Return, Returned, Control, IdentMove,
     QuietReturn, Quiet, Steady, Returns, Driver
<1>4. ASSUME Top.pc = "enter", NEW k, k = Lookup(This.name), k # 0,
             SymbolAt(k, This.name).level = Undefined,
             Visit([Top EXCEPT !.pc = "lazy", !.sym = k], SymbolAt(k, This.name).node, NoType)
      PROVE  LazyUse(k)
  <2>1. PICK f : f = [Top EXCEPT !.pc = "lazy", !.sym = k]
    OBVIOUS
  <2>2. Activation(f)
    BY <1>1, <2>1, Advanced
  <2>3. f.pc = "lazy" /\ f.sym = k
    BY <2>1 DEF Ready, FrameOK, FrameFields
  <2>4. Calls(f, SymbolAt(k, This.name).node) /\ Quiet
    BY <1>4, <2>1 DEF Visit, Calls, Call, Control, Quiet, Steady, Driver
  <2> QED BY <1>4, <2>2, <2>3, <2>4 DEF LazyUse
<1>5. CASE At("IDENT", "lazy") /\ UseSymbol(SymbolAt(Top.sym, This.name))
  BY <1>1, <1>2, <1>5 DEF IdentMove
<1>6. CASE /\ At("IDENT", "enter")
           /\ LET k == Lookup(This.name)
              IN  IF k = 0 THEN UndefinedName
                  ELSE LET s == SymbolAt(k, This.name)
                       IN  IF s.level = Defined THEN RecursiveUse
                           ELSE IF s.level = Undefined
                           THEN Visit([Top EXCEPT !.pc = "lazy", !.sym = k], s.node, NoType)
                           ELSE UseSymbol(s)
  <2>1. PICK k : k = Lookup(This.name)
    OBVIOUS
  <2>2. Top.pc = "enter"
    BY <1>6 DEF At
  <2> QED BY <1>1, <1>2, <1>3, <1>4, <1>6, <2>1, <2>2 DEF IdentMove
<1> QED BY <1>5, <1>6 DEF AnalyzeIdent

LEMMA OpenVarDeclMoves ==
  ASSUME Ready, Activation(Top), This.kind = "VAR_DECL", Top.pc = "enter", OpenVarDecl
  PROVE  VarMove
<1>1. PICK k : k = Lookup(This.name)
  OBVIOUS
<1>2. PICK s : s = SymbolAt(k, This.name)
  OBVIOUS
<1>3. CASE k = 0
  <2>1. Yield(Crash)
    BY <1>1, <1>3 DEF OpenVarDecl
  <2> QED BY <2>1, YieldMoves DEF VarMove, IsCrash, Crash, Val
<1>4. CASE k # 0 /\ s.level = Defined
  <2>1. Collides
    BY <1>1, <1>2, <1>4 DEF OpenVarDecl, Collides
  <2> QED BY <2>1 DEF VarMove
<1>5. CASE k # 0 /\ s.level # Defined
  <2>1. PICK f : f = [Top EXCEPT !.sym = k, !.ty = TyAuto]
    OBVIOUS
  <2>2. Activation(f)
    BY <2>1, Advanced
  <2>3. DOMAIN f = FrameFields /\ f.sym = k
    BY <2>1 DEF Ready, FrameOK, FrameFields
  <2>4. ASSUME NEW pc, NEW v
        PROVE  /\ Activation([f EXCEPT !.pc = pc]) /\ [f EXCEPT !.pc = pc].pc = pc
               /\ [f EXCEPT !.pc = pc].sym = k
               /\ Activation([f EXCEPT !.val = v]) /\ [f EXCEPT !.val = v].sym = k
               /\ DOMAIN [f EXCEPT !.val = v] = FrameFields
    BY <2>2, <2>3, Advanced DEF FrameFields
  <2>5. (HasKid(1) => Expression(Kid(1))) /\ (HasKid(2) => Expression(Kid(2)))
    BY Operands
  <2>6. k \in DOMAIN scopes /\ This.name \in DOMAIN scopes[k].sym
    BY <1>1, <1>5, LookupFinds DEF Ready
  <2>7. /\ scopes' = SetSymbol(k, This.name, [s EXCEPT !.const = This.const, !.level = Defined])
        /\ hadError' = (hadError \/ (~HasKid(1) /\ ~HasKid(2)))
        /\ UNCHANGED <<folded, hint, types, threshold, names, retType, Driver>>
        /\ IF HasKid(1)
           THEN stack' = Append(Below, [f EXCEPT !.pc = "type"]) /\ ctl' = Call(Kid(1), NoType)
           ELSE IF HasKid(2)
           THEN stack' = Append(Below, [f EXCEPT !.pc = "value"]) /\ ctl' = Call(Kid(2), TyAuto)
           ELSE Loop([f EXCEPT !.val = Uninit])
    BY <1>1, <1>2, <1>5, <2>1 DEF OpenVarDecl
  <2>8. \E g : Activation(g) /\ g.pc # "enter" /\ g.sym = k /\ Evaluates(g)
    <3>1. CASE HasKid(1)
      <4>1. Calls([f EXCEPT !.pc = "type"], Kid(1))
        BY <2>7, <3>1 DEF Calls, Call, Control
      <4>2. Evaluates([f EXCEPT !.pc = "type"])
        BY <2>5, <3>1, <4>1 DEF Evaluates
      <4>3. [f EXCEPT !.pc = "type"].pc # "enter"
        BY <2>4
      <4> QED BY <2>4, <4>2, <4>3
    <3>2. CASE ~HasKid(1) /\ HasKid(2)
      <4>1. Calls([f EXCEPT !.pc = "value"], Kid(2))
        BY <2>7, <3>2 DEF Calls, Call, Control
      <4>2. Evaluates([f EXCEPT !.pc = "value"])
        BY <2>5, <3>2, <4>1 DEF Evaluates
      <4>3. [f EXCEPT !.pc = "value"].pc # "enter"
        BY <2>4
      <4> QED BY <2>4, <4>2, <4>3
    <3>3. CASE ~HasKid(1) /\ ~HasKid(2)
      <4>1. PICK h : h = [f EXCEPT !.val = Uninit]
        OBVIOUS
      <4>2. Loop(h) /\ Activation(h) /\ h.sym = k /\ DOMAIN h = FrameFields
        BY <2>4, <2>7, <3>3, <4>1
      <4>3. PICK g : Activation(g) /\ g = [h EXCEPT !.pc = "next"] /\ g.pc = "next" /\ Stays(g)
        BY <4>2, LoopMoves
      <4>4. g.sym = k
        BY <4>2, <4>3 DEF FrameFields
      <4> QED BY <4>3, <4>4 DEF Evaluates
    <3> QED BY <3>1, <3>2, <3>3
  <2>9. Rewrites(k, This.name, Defined, scopes')
    <3>1. PICK t : t = [s EXCEPT !.const = This.const, !.level = Defined]
      OBVIOUS
    <3>2. /\ DOMAIN t = DOMAIN s /\ ("level" \in DOMAIN t => t.level = Defined)
          /\ "node" \in DOMAIN t => OwnNode(t, k, This.name)
      BY <1>2, <3>1 DEF OwnNode
    <3> QED BY <1>2, <2>7, <3>1, <3>2, Rewritten DEF Ready
  <2>10. Steady
    BY <2>7 DEF Steady, Driver
  <2>11. OpensVar(k)
    BY <1>1, <1>2, <1>5, <2>8, <2>9, <2>10 DEF OpensVar
  <2> QED BY <2>11 DEF VarMove
<1> QED BY <1>3, <1>4, <1>5

LEMMA VarDeclMoves == ASSUME Ready, Activation(Top), AnalyzeVarDecl PROVE VarMove
<1>1. This.kind = "VAR_DECL"
  BY DEF AnalyzeVarDecl, At
<1>2. CASE At("VAR_DECL", "enter") /\ OpenVarDecl
  BY <1>1, <1>2, OpenVarDeclMoves DEF At
<1>3. ASSUME Top.pc # "enter", NEW report, FailVarDecl(report) PROVE VarMove
  <2>1. PICK s : s = [SymbolAt(Top.sym, This.name) EXCEPT
                        !.value = Bad, !.type = NoType, !.node = Top.node, !.level = Declared]
    OBVIOUS
  <2>2. /\ DOMAIN s = DOMAIN SymbolAt(Top.sym, This.name)
        /\ "level" \in DOMAIN s => s.level = Declared
        /\ "node" \in DOMAIN s => OwnNode(s, Top.sym, This.name)
    BY <1>1, <1>3, <2>1 DEF OwnNode
  <2>3. scopes' = SetSymbol(Top.sym, This.name, s)
    BY <1>3, <2>1 DEF FailVarDecl
  <2>4. Rewrites(Top.sym, This.name, Declared, scopes')
    BY <2>2, <2>3, Rewritten DEF Ready
  <2>5. Steady /\ Returns
    BY <1>3 DEF FailVarDecl, Return, Returned, Control, Steady, Returns, Driver
  <2> QED BY <1>1, <1>3, <2>4, <2>5 DEF VarMove, ClosesVar
<1>4. ASSUME Top.pc # "enter", NEW type, NEW v, DeclareVar(type, v) PROVE VarMove
  <2>1. PICK s : s = [SymbolAt(Top.sym, This.name) EXCEPT
                        !.type = type, !.value = v, !.level = Declared]
    OBVIOUS
  <2>2. /\ DOMAIN s = DOMAIN SymbolAt(Top.sym, This.name)
        /\ "level" \in DOMAIN s => s.level = Declared
        /\ "node" \in DOMAIN s => OwnNode(s, Top.sym, This.name)
    BY <2>1 DEF OwnNode
  <2>3. scopes' = SetSymbol(Top.sym, This.name, s)
    BY <1>4, <2>1 DEF DeclareVar
  <2>4. Rewrites(Top.sym, This.name, Declared, scopes')
    BY <2>2, <2>3, Rewritten DEF Ready
  <2>5. Steady /\ Returns
    BY <1>4 DEF DeclareVar, Return, Returned, Control, Steady, Returns, Driver
  <2> QED BY <1>1, <1>4, <2>4, <2>5 DEF VarMove, ClosesVar
<1>5. ASSUME Top.pc # "enter", NEW v, FinishVarDecl(v) PROVE VarMove
  <2>1. ASSUME Yield(Crash) PROVE VarMove
    BY <1>1, <2>1, YieldMoves DEF VarMove, IsCrash, Crash, Val
  <2> QED BY <1>3, <1>4, <1>5, <2>1 DEF FinishVarDecl
<1>6. CASE At("VAR_DECL", "type")
            /\ LET tp == ctl.val
                   f  == [Top EXCEPT !.ty = tp.t]
               IN  IF ~IsType(tp) THEN FailVarDecl(~IsBad(tp))
                   ELSE IF HasKid(2) THEN Visit([f EXCEPT !.pc = "value"], Kid(2), tp.t)
                   ELSE /\ Loop([f EXCEPT !.val = Uninit])
                        /\ UNCHANGED <<folded, hint, scopes, types, threshold, names,
                                       hadError, retType, Driver>>
  <2>1. Top.pc # "enter"
    BY <1>6 DEF At
  <2>2. PICK f : f = [Top EXCEPT !.ty = ctl.val.t]
    OBVIOUS
  <2>3. Activation(f) /\ DOMAIN f = FrameFields /\ f.sym = Top.sym
    BY <1>1, <2>2, Advanced DEF Ready, FrameOK, FrameFields
  <2>4. CASE ~IsType(ctl.val)
    BY <1>3, <1>6, <2>1, <2>4
  <2>5. CASE IsType(ctl.val) /\ HasKid(2)
    <3>1. PICK g : g = [f EXCEPT !.pc = "value"]
      OBVIOUS
    <3>2. Activation(g) /\ g.pc # "enter" /\ g.sym = Top.sym
      BY <1>1, <2>3, <3>1, Advanced DEF FrameFields
    <3>3. QuietStep(g)
      BY <1>1, <1>6, <2>2, <2>5, <3>1, <3>2, Operands, VisitMoves
    <3> QED BY <1>1, <2>1, <3>2, <3>3 DEF VarMove
  <2>6. CASE IsType(ctl.val) /\ ~HasKid(2)
    <3>1. PICK h : h = [f EXCEPT !.val = Uninit]
      OBVIOUS
    <3>2. Activation(h) /\ DOMAIN h = FrameFields /\ h.sym = Top.sym
      BY <1>1, <2>3, <3>1, Advanced DEF FrameFields
    <3>3. Loop(h) /\ Quiet
      BY <1>6, <2>2, <2>6, <3>1 DEF Quiet, Steady, Driver
    <3>4. PICK g : Activation(g) /\ g = [h EXCEPT !.pc = "next"] /\ g.pc = "next" /\ Stays(g)
      BY <3>2, <3>3, LoopMoves
    <3>5. g.sym = Top.sym /\ QuietStep(g)
      BY <3>2, <3>3, <3>4 DEF FrameFields, QuietStep, Evaluates
    <3> QED BY <1>1, <2>1, <3>4, <3>5 DEF VarMove
  <2> QED BY <2>4, <2>5, <2>6
<1>7. CASE At("VAR_DECL", "value")
            /\ IF IsBad(ctl.val) THEN FailVarDecl(FALSE) ELSE FinishVarDecl(ctl.val)
  BY <1>3, <1>5, <1>7 DEF At
<1>8. CASE At("VAR_DECL", "next") /\ FinishVarDecl(Top.val)
  BY <1>5, <1>8 DEF At
<1> QED BY <1>2, <1>6, <1>7, <1>8 DEF AnalyzeVarDecl

LEMMA FuncDeclMoves == ASSUME Ready, Activation(Top), AnalyzeFuncDecl PROVE FuncMove
<1>1. This.kind = "FUNC_DECL"
  BY DEF AnalyzeFuncDecl, At
<1>2. DOMAIN Top = FrameFields
  BY DEF Ready, FrameOK
<1>3. ASSUME NEW ret, OpenFunction(ret), Top.pc \in {"enter", "ret"} PROVE FuncMove
  <2>1. PICK f : f = [Top EXCEPT !.ty = ret, !.save = retType]
    OBVIOUS
  <2>2. Activation(f) /\ f.ty = ret /\ f.save = retType /\ DOMAIN f = FrameFields
    BY <1>1, <1>2, <2>1, Advanced DEF FrameFields
  <2>3. /\ Loop(f) /\ retType' = ret
        /\ UNCHANGED <<folded, hint, types, threshold, names, hadError, Driver>>
    BY <1>3, <2>1 DEF OpenFunction
  <2>4. PICK g : Activation(g) /\ g = [f EXCEPT !.pc = "next"] /\ g.pc = "next" /\ Stays(g)
    BY <2>2, <2>3, LoopMoves
  <2>5. g.ty = retType' /\ g.save = retType
    BY <2>2, <2>3, <2>4 DEF FrameFields
  <2>6. PICK sc : sc = Scope(This.root, <<>>)
    OBVIOUS
  <2>7. DOMAIN sc = {"root", "sym"} /\ DOMAIN sc.sym = {}
    BY <2>6 DEF Scope
  <2>8. CASE This.name \in DOMAIN Innermost
    <3>1. PICK s : s = [Innermost[This.name] EXCEPT
                          !.type = ret, !.value = Uninit, !.level = Declared]
      OBVIOUS
    <3>2. /\ DOMAIN s = DOMAIN SymbolAt(Len(scopes), This.name)
          /\ "level" \in DOMAIN s => s.level = Declared
          /\ "node" \in DOMAIN s => OwnNode(s, Len(scopes), This.name)
      BY <3>1 DEF Innermost, SymbolAt, OwnNode
    <3>3. PICK here : here = SetSymbol(Len(scopes), This.name, s)
      OBVIOUS
    <3>4. Rewrites(Len(scopes), This.name, Declared, here)
      BY <3>2, <3>3, Rewritten DEF Ready
    <3>5. scopes' = Append(here, sc)
      BY <1>3, <2>6, <2>8, <3>1, <3>3 DEF OpenFunction
    <3>6. Pushes(here, sc)
      BY <2>7, <3>5 DEF Pushes
    <3>7. OpensFunc
      BY <1>3, <2>3, <2>4, <2>5, <2>8, <3>4, <3>6 DEF OpensFunc, Driver
    <3> QED BY <1>1, <1>3, <3>7 DEF FuncMove, InBody
  <2>9. CASE This.name \notin DOMAIN Innermost
    <3>1. scopes' = Append(scopes, sc)
      BY <1>3, <2>6, <2>9 DEF OpenFunction
    <3>2. Pushes(scopes, sc)
      BY <2>7, <3>1 DEF Pushes
    <3>3. OpensFunc
      BY <1>3, <2>3, <2>4, <2>5, <3>2 DEF OpensFunc, Driver
    <3> QED BY <1>1, <1>3, <3>3 DEF FuncMove, InBody
  <2> QED BY <2>8, <2>9
<1>4. PICK nx : nx = NextItem
  OBVIOUS
<1>5. Activation(nx) /\ DOMAIN nx = FrameFields /\ nx.ty = Top.ty /\ nx.save = Top.save
  BY <1>1, <1>2, <1>4, Advanced DEF NextItem, FrameFields
<1>6. ASSUME NEW pc \in {"ret", "param", "body"}, NEW k, Expression(k), NEW exp,
             Visit([Top EXCEPT !.pc = pc], k, exp)
      PROVE  \E g : QuietStep(g) /\ g.pc = pc /\ g.ty = Top.ty /\ g.save = Top.save
  <2>1. PICK g : g = [Top EXCEPT !.pc = pc]
    OBVIOUS
  <2>2. Activation(g) /\ g.pc = pc /\ g.ty = Top.ty /\ g.save = Top.save
    BY <1>1, <1>2, <2>1, Advanced DEF FrameFields
  <2> QED BY <1>6, <2>1, <2>2, VisitMoves
<1>7. ASSUME Loop(nx)
      PROVE  \E g : /\ Activation(g) /\ Stays(g)
                    /\ g.pc = "next" /\ g.ty = Top.ty /\ g.save = Top.save
  <2>1. PICK g : Activation(g) /\ g = [nx EXCEPT !.pc = "next"] /\ g.pc = "next" /\ Stays(g)
    BY <1>5, <1>7, LoopMoves
  <2>2. g.ty = Top.ty /\ g.save = Top.save
    BY <1>5, <2>1 DEF FrameFields
  <2> QED BY <2>1, <2>2
<1>8. ASSUME Top.pc \in InBody, NEW type, DeclareParams(type) PROVE FuncMove
  <2>1. PICK param : param = [Symbol(Declared, 0) EXCEPT !.type = type, !.value = Uninit]
    OBVIOUS
  <2>2. DOMAIN param = SymbolFields /\ param.level = Declared
    BY <2>1 DEF Symbol, SymbolFields
  <2>3. PICK labels : labels = This.labels[Top.i]
    OBVIOUS
  <2>4. PICK new : new = {labels[l] : l \in DOMAIN labels}
    OBVIOUS
  <2>5. PICK sym : sym = [x \in DOMAIN Innermost \cup new |->
                            IF x \in DOMAIN Innermost THEN Innermost[x] ELSE param]
    OBVIOUS
  <2>6. scopes' = [scopes EXCEPT ![Len(scopes)].sym = sym]
    BY <1>8, <2>1, <2>3, <2>4, <2>5 DEF DeclareParams
  <2>7. AddsParams
    <3>1. DOMAIN Innermost \subseteq DOMAIN sym
      BY <2>5
    <3>2. \A x \in DOMAIN sym :
            IF x \in DOMAIN Innermost THEN sym[x] = Innermost[x] ELSE sym[x] = param
      BY <2>5
    <3> QED BY <2>2, <2>6, <3>1, <3>2 DEF AddsParams
  <2>8. Loop(nx) /\ Steady
    BY <1>4, <1>8 DEF DeclareParams, Steady, Driver
  <2> QED BY <1>1, <1>7, <1>8, <2>7, <2>8 DEF FuncMove, InBody, Evaluates
<1>9. ASSUME Top.pc \in InBody, NEW report, CloseFunction(report) PROVE FuncMove
  <2>1. ClosesFunc
    BY <1>9 DEF CloseFunction, ClosesFunc, Return, Returned, Control, Returns, Driver
  <2> QED BY <1>1, <1>9, <2>1 DEF FuncMove
<1>10. ASSUME Top.pc \in InBody, NEW pc \in {"param", "body"}, NEW k, Expression(k), NEW exp,
              Visit([Top EXCEPT !.pc = pc], k, exp)
       PROVE  FuncMove
  <2>1. PICK g : QuietStep(g) /\ g.pc = pc /\ g.ty = Top.ty /\ g.save = Top.save
    BY <1>6, <1>10
  <2> QED BY <1>1, <1>10, <2>1 DEF FuncMove, InBody, QuietStep, Quiet
<1>11. CASE At("FUNC_DECL", "enter")
            /\ IF HasKid(1) THEN Visit([Top EXCEPT !.pc = "ret"], Kid(1), NoType)
               ELSE OpenFunction(TyVoid)
  <2>1. Top.pc = "enter"
    BY <1>11 DEF At
  <2>2. CASE HasKid(1)
    <3>1. \E g : QuietStep(g) /\ g.pc = "ret"
      BY <1>1, <1>6, <1>11, <2>2, Operands
    <3> QED BY <1>1, <2>1, <3>1 DEF FuncMove, InBody
  <2>3. CASE ~HasKid(1)
    BY <1>3, <1>11, <2>1, <2>3
  <2> QED BY <2>2, <2>3
<1>12. CASE At("FUNC_DECL", "ret")
            /\ IF IsBad(ctl.val) THEN Yield(Bad)
               ELSE IF ~IsType(ctl.val) THEN Bail
               ELSE OpenFunction(ctl.val.t)
  <2>1. Top.pc = "ret"
    BY <1>12 DEF At
  <2>2. ASSUME QuietReturn PROVE FuncMove
    BY <1>1, <2>1, <2>2 DEF FuncMove, InBody
  <2> QED BY <1>3, <1>12, <2>1, <2>2, YieldMoves, BailMoves
<1>13. CASE At("FUNC_DECL", "next") /\ ParamsLeft
            /\ IF HasKid(2 + Top.i)
               THEN Visit([Top EXCEPT !.pc = "param"], Kid(2 + Top.i), NoType)
               ELSE DeclareParams(TyAuto)
  <2>1. Top.pc \in InBody /\ Top.i <= Len(This.labels)
    BY <1>13 DEF At, InBody, ParamsLeft
  <2>2. HasKid(2 + Top.i) => Expression(Kid(2 + Top.i))
    BY <1>1, <2>1, ListedOperands
  <2> QED BY <1>8, <1>10, <1>13, <2>1, <2>2
<1>14. CASE At("FUNC_DECL", "param")
            /\ IF IsType(ctl.val) THEN DeclareParams(ctl.val.t) ELSE Continue(NextItem, TRUE)
  <2>1. Top.pc \in InBody
    BY <1>14 DEF At, InBody
  <2>2. ASSUME Continue(nx, TRUE) PROVE FuncMove
    <3>1. Loop(nx) /\ Quiet
      BY <2>2 DEF Continue, Quiet, Steady, Driver
    <3> QED BY <1>1, <1>7, <2>1, <3>1 DEF FuncMove, InBody, Quiet, Evaluates
  <2> QED BY <1>4, <1>8, <1>14, <2>1, <2>2
<1>15. CASE At("FUNC_DECL", "next") /\ ~ParamsLeft
            /\ IF HasKid(2) THEN Visit([Top EXCEPT !.pc = "body"], Kid(2), Top.ty)
               ELSE CloseFunction(FALSE)
  <2>1. Top.pc \in InBody
    BY <1>15 DEF At, InBody
  <2>2. HasKid(2) => Expression(Kid(2))
    BY <1>1, Operands
  <2> QED BY <1>9, <1>10, <1>15, <2>1, <2>2
<1>16. CASE At("FUNC_DECL", "body")
            /\ CloseFunction(\/ IsBad(ctl.val)
                             \/ TypeOf(ctl.val) = TyVoid /\ Top.ty # TyVoid)
  BY <1>9, <1>16 DEF At, InBody
<1> QED BY <1>11, <1>12, <1>13, <1>14, <1>15, <1>16 DEF AnalyzeFuncDecl

LEMMA BlockMoves == ASSUME Ready, Activation(Top), AnalyzeBlock PROVE BlockMove
<1>1. This.kind = "BLOCK"
  BY DEF AnalyzeBlock, At
<1>2. PICK nx : nx = NextItem
  OBVIOUS
<1>3. Activation(nx)
  BY <1>1, <1>2, Advanced DEF NextItem
<1>4. CASE /\ At("BLOCK", "enter")
           /\ scopes' = Append(scopes, Scope(This.root, Hoisted(This.kids, Ahh)))
           /\ IF Redefines(This.kids) THEN Return(Bad) ELSE Loop(Top)
           /\ hadError' = (hadError \/ Redefines(This.kids))
           /\ UNCHANGED <<folded, hint, types, threshold, names, retType, Driver>>
  <2>1. PICK hoisted : hoisted = Hoisted(This.kids, Ahh)
    OBVIOUS
  <2>2. \A x \in DOMAIN hoisted : DOMAIN hoisted[x] = SymbolFields /\ hoisted[x].level = Ahh
    BY <2>1 DEF Hoisted, Symbol, SymbolFields
  <2>3. PICK sc : sc = Scope(This.root, hoisted)
    OBVIOUS
  <2>4. DOMAIN sc = {"root", "sym"} /\ sc.sym = hoisted
    BY <2>3 DEF Scope
  <2>5. Pushes(scopes, sc) /\ sc.sym = Hoisted(This.kids, Ahh)
    BY <1>4, <2>1, <2>2, <2>3, <2>4 DEF Pushes
  <2>6. Steady /\ Top.pc = "enter"
    BY <1>4 DEF Steady, Driver, At
  <2>7. CASE Redefines(This.kids)
    <3>1. Returns
      BY <1>4, <2>7 DEF Return, Returned, Control, Returns
    <3>2. hadError' = (hadError \/ Redefines(This.kids))
      BY <1>4
    <3>3. hadError'
      BY <2>7, <3>2
    <3> QED BY <1>1, <2>5, <2>6, <3>1, <3>3 DEF BlockMove, OpensBlock
  <2>8. CASE ~Redefines(This.kids)
    <3>1. \E g : Activation(g) /\ g.pc = "next" /\ Stays(g)
      BY <1>4, <2>8, LoopMoves
    <3>2. \E g : Activation(g) /\ g.pc # "enter" /\ Stays(g)
      BY <3>1
    <3> QED BY <1>1, <2>5, <2>6, <2>8, <3>2 DEF BlockMove, OpensBlock
  <2> QED BY <2>7, <2>8
<1>5. CASE /\ At("BLOCK", "next") /\ Top.i <= Len(This.kids)
           /\ Visit([Top EXCEPT !.pc = "stmt"], Kid(Top.i), Top.exp)
  <2>1. PICK g : g = [Top EXCEPT !.pc = "stmt"]
    OBVIOUS
  <2>2. Activation(g) /\ g.pc = "stmt"
    BY <1>1, <2>1, Advanced DEF Ready, FrameOK, FrameFields
  <2>3. Top.i \in DOMAIN This.kids /\ Kid(Top.i) \in Nodes
    BY <1>1, <1>5, ListedOperands
  <2>4. Calls(g, Kid(Top.i)) /\ Quiet
    BY <1>5, <2>1 DEF Visit, Calls, Call, Control, Quiet, Steady, Driver
  <2>5. Top.pc # "enter" /\ g.pc # "enter"
    BY <1>5, <2>2 DEF At
  <2> QED BY <1>1, <2>2, <2>3, <2>4, <2>5 DEF BlockMove
<1>6. CASE /\ At("BLOCK", "stmt")
           /\ Continue([NextItem EXCEPT !.val = IF IsBad(ctl.val) THEN None ELSE ctl.val],
                       IsBad(ctl.val))
  <2>1. PICK h : h = [nx EXCEPT !.val = IF IsBad(ctl.val) THEN None ELSE ctl.val]
    OBVIOUS
  <2>2. Activation(h)
    BY <1>1, <1>3, <2>1, Advanced
  <2>3. Continue(h, IsBad(ctl.val))
    BY <1>2, <1>6, <2>1
  <2>4. PICK g : QuietStep(g) /\ g = [h EXCEPT !.pc = "next"] /\ g.pc = "next"
    BY <2>2, <2>3, ContinueMoves
  <2>5. Stays(g)
    BY <2>3, <2>4 DEF Continue, Loop, Stays, Go, Control
  <2>6. Top.pc # "enter" /\ g.pc # "enter"
    BY <1>6, <2>4 DEF At
  <2> QED BY <1>1, <2>4, <2>5, <2>6 DEF BlockMove, QuietStep
<1>7. CASE /\ At("BLOCK", "next") /\ Top.i > Len(This.kids)
           /\ scopes' = PopScope
           /\ Return(IF Top.val = None THEN Uninit ELSE Top.val)
           /\ folded' = IF ComptimeKnown(Top.val) THEN [folded EXCEPT ![Top.node] = Top.val]
                        ELSE folded
           /\ UNCHANGED <<hint, types, threshold, names, hadError, retType, Driver>>
  <2>1. ClosesBlock
    BY <1>7 DEF ClosesBlock, At, Return, Returned, Control, Returns, Steady, Driver
  <2> QED BY <1>1, <2>1 DEF BlockMove
<1> QED BY <1>4, <1>5, <1>6, <1>7 DEF AnalyzeBlock

\* Every handler makes one of these moves.
LEMMA HandlerMoves ==
  ASSUME Ready, AnalyzeExpression \/ AnalyzeVarDecl \/ AnalyzeFuncDecl
  PROVE  HandlerMove
<1>1. Activation(Top)
  BY DEF Ready, Activation
<1> QED
  BY <1>1, LiteralMoves, IdentMoves, BinaryMoves, UnaryMoves, GroupingMoves, DistinctMoves,
     CastMoves, AccessMoves, StructTypeMoves, StructLiteralMoves, VarDeclMoves, FuncDeclMoves,
     FuncCallMoves, BlockMoves, ReturnStatementMoves
     DEF AnalyzeExpression, AnalyzeLeaf, HandlerMove

\* A handler runs only when its activation is on the stack, and not after a crash.
LEMMA HandlerRuns ==
  ASSUME AnalyzeExpression \/ AnalyzeVarDecl \/ AnalyzeFuncDecl
  PROVE  /\ stack # <<>> /\ status = "running" /\ ctl.op # "call" /\ ~IsCrash(ctl.val)
         /\ Top.pc = "enter" => ctl.op = "go"
<1> DEFINE Runs == /\ stack # <<>> /\ status = "running" /\ ctl.op # "call" /\ ~IsCrash(ctl.val)
                   /\ Top.pc = "enter" => ctl.op = "go"
<1>1. ASSUME NEW kind, NEW pc, At(kind, pc) PROVE Runs
  BY <1>1 DEF At, IsCrash
<1> HIDE DEF Runs
<1>2. CASE AnalyzeLeaf
  BY <1>1, <1>2 DEF AnalyzeLeaf, AnalyzeIntegerLit, AnalyzeFloatLit, AnalyzeStringLit,
     AnalyzeIdent, AnalyzeBits, AnalyzeTypeKeyword, Runs
<1>3. CASE AnalyzeBinary \/ AnalyzeUnary \/ AnalyzeGrouping \/ AnalyzeDistinct
  BY <1>1, <1>3 DEF AnalyzeBinary, AnalyzeUnary, AnalyzeGrouping, AnalyzeDistinct, Runs
<1>4. CASE AnalyzeCast \/ AnalyzeAccess \/ AnalyzeStructType
  BY <1>1, <1>4 DEF AnalyzeCast, AnalyzeAccess, AnalyzeStructType, AtLoop, Runs
<1>5. CASE AnalyzeStructLiteral
  BY <1>1, <1>5 DEF AnalyzeStructLiteral, AnalyzeAutoLiteral, Runs
<1>6. CASE AnalyzeFuncCall \/ AnalyzeBlock \/ AnalyzeReturn
  BY <1>1, <1>6 DEF AnalyzeFuncCall, AnalyzeBlock, AnalyzeReturn, Runs
<1>7. CASE AnalyzeVarDecl \/ AnalyzeFuncDecl
  BY <1>1, <1>7, Zenon DEF AnalyzeVarDecl, AnalyzeFuncDecl, Runs
<1> QED BY <1>2, <1>3, <1>4, <1>5, <1>6, <1>7 DEF AnalyzeExpression, Runs

(***************************************************************************)
(* What a step makes of the stack and of the scopes.                       *)
(***************************************************************************)
\* The stack is a sequence of frames, the scopes are scopes, and only nodes of
\* the program are analysed.
StackOK == /\ \E F : stack \in Seq(F)
           /\ \A i \in DOMAIN stack : FrameOK(stack[i])

Shape == /\ ProgramOK(prog) /\ StackOK /\ ScopesOK
         /\ ctl.op = "call" => ctl.node \in Nodes
         /\ next \in Nat \ {0}

LEMMA StackLength ==
  ASSUME StackOK
  PROVE  Len(stack) \in Nat /\ DOMAIN stack = 1 .. Len(stack)
BY DEF StackOK

LEMMA ReadyHolds ==
  ASSUME Shape, stack # <<>>
  PROVE  Ready /\ Len(stack) \in DOMAIN stack
<1>1. PICK n \in Nat : n = Len(stack) /\ DOMAIN stack = 1 .. n
  BY StackLength, Zenon DEF Shape
<1>2. n # 0
  BY <1>1 DEF Shape, StackOK
<1> QED BY <1>1, <1>2 DEF Shape, StackOK, Ready, Top

\* The running frame is replaced.
LEMMA Replaced ==
  ASSUME StackOK, stack # <<>>, NEW f, stack' = Append(Below, f)
  PROVE  /\ \E F : stack' \in Seq(F)
         /\ DOMAIN stack' = DOMAIN stack /\ Len(stack') = Len(stack)
         /\ stack'[Len(stack)] = f
         /\ \A i \in DOMAIN stack : i # Len(stack) => stack'[i] = stack[i]
<1>1. PICK F : stack \in Seq(F)
  BY DEF StackOK
<1>2. PICK n \in Nat : n = Len(stack) /\ n > 0 /\ DOMAIN stack = 1 .. n
  BY <1>1
<1>3. Below \in Seq(F) /\ Len(Below) = n - 1 /\ \A i \in 1 .. n - 1 : Below[i] = stack[i]
  BY <1>1, <1>2 DEF Below
<1>4. Below \in Seq(F \cup {f}) /\ f \in F \cup {f}
  BY <1>3
<1>5. stack' \in Seq(F \cup {f}) /\ Len(stack') = n
  BY <1>2, <1>3, <1>4
<1>6. stack'[n] = f /\ \A i \in 1 .. n - 1 : stack'[i] = stack[i]
  BY <1>2, <1>3, <1>4
<1>7. DOMAIN stack' = 1 .. n
  BY <1>5
<1>8. \A i \in DOMAIN stack : i # n => i \in 1 .. n - 1
  BY <1>2
<1> QED BY <1>2, <1>5, <1>6, <1>7, <1>8

\* The running frame is dropped.
LEMMA Dropped ==
  ASSUME StackOK, stack # <<>>, stack' = Below
  PROVE  /\ \E F : stack' \in Seq(F)
         /\ Len(stack') = Len(stack) - 1
         /\ DOMAIN stack' = DOMAIN stack \ {Len(stack)}
         /\ \A i \in DOMAIN stack' : stack'[i] = stack[i]
<1>1. PICK F : stack \in Seq(F)
  BY DEF StackOK
<1>2. PICK n \in Nat : n = Len(stack) /\ n > 0 /\ DOMAIN stack = 1 .. n
  BY <1>1
<1>3. Below \in Seq(F) /\ Len(Below) = n - 1 /\ \A i \in 1 .. n - 1 : Below[i] = stack[i]
  BY <1>1, <1>2 DEF Below
<1>4. DOMAIN Below = 1 .. n - 1
  BY <1>3
<1> QED BY <1>2, <1>3, <1>4

\* A frame is put on top.
LEMMA Entered ==
  ASSUME StackOK, NEW f, stack' = Append(stack, f)
  PROVE  /\ \E F : stack' \in Seq(F)
         /\ Len(stack') = Len(stack) + 1
         /\ DOMAIN stack' = DOMAIN stack \cup {Len(stack) + 1}
         /\ Len(stack) + 1 \notin DOMAIN stack
         /\ stack'[Len(stack) + 1] = f
         /\ \A i \in DOMAIN stack : stack'[i] = stack[i]
<1>1. PICK F : stack \in Seq(F)
  BY DEF StackOK
<1>2. PICK n \in Nat : n = Len(stack) /\ DOMAIN stack = 1 .. n
  BY <1>1
<1>3. stack \in Seq(F \cup {f}) /\ f \in F \cup {f}
  BY <1>1
<1>4. stack' \in Seq(F \cup {f}) /\ Len(stack') = n + 1
  BY <1>2, <1>3
<1>5. stack'[n + 1] = f /\ \A i \in 1 .. n : stack'[i] = stack[i]
  BY <1>2, <1>3
<1>6. DOMAIN stack' = 1 .. n + 1
  BY <1>4
<1> QED BY <1>2, <1>4, <1>5, <1>6

\* The scopes a step leaves: a symbol it makes or changes is not UNDEFINED.
WellMade(new) ==
  /\ \E S : new \in Seq(S)
  /\ \A k \in DOMAIN new :
       /\ DOMAIN new[k] = {"root", "sym"}
       /\ \A x \in DOMAIN new[k].sym :
            /\ DOMAIN new[k].sym[x] = SymbolFields
            /\ new[k].sym[x].level = Undefined =>
                 /\ k \in DOMAIN scopes /\ x \in DOMAIN scopes[k].sym
                 /\ new[k].sym[x] = scopes[k].sym[x]

LEMMA ScopesAreWellMade == ASSUME ScopesOK PROVE WellMade(scopes)
BY DEF ScopesOK, SymbolOK, SymbolAt, WellMade

LEMMA WellMadeIsOK ==
  ASSUME ScopesOK, prog' = prog, WellMade(scopes')
  PROVE  ScopesOK'
BY DEF ScopesOK, SymbolOK, SymbolAt, WellMade, Nodes, Node, IsDeclaration, Global

\* A symbol is rewritten: the other symbols, and the names, stay.
LEMMA RewriteIs ==
  ASSUME ScopesOK, NEW k, NEW x, NEW level, NEW new, Rewrites(k, x, level, new)
  PROVE  /\ \E S : new \in Seq(S)
         /\ Len(new) = Len(scopes) /\ DOMAIN new = DOMAIN scopes
         /\ \A j \in DOMAIN scopes :
              /\ DOMAIN new[j] = {"root", "sym"}
              /\ DOMAIN new[j].sym = DOMAIN scopes[j].sym
              /\ \A y \in DOMAIN scopes[j].sym :
                   IF j = k /\ y = x
                   THEN /\ DOMAIN new[j].sym[y] = SymbolFields /\ new[j].sym[y].level = level
                        /\ OwnNode(new[j].sym[y], j, y)
                   ELSE new[j].sym[y] = scopes[j].sym[y]
<1>1. PICK s : /\ new = SetSymbol(k, x, s)
               /\ k \in DOMAIN scopes /\ x \in DOMAIN scopes[k].sym
                    => /\ DOMAIN s = SymbolFields /\ s.level = level
                       /\ OwnNode(s, k, x)
  BY DEF Rewrites
<1>2. PICK n \in Nat : n = Len(scopes) /\ DOMAIN scopes = 1 .. n
  BY DEF ScopesOK
<1>3. /\ DOMAIN new = DOMAIN scopes
      /\ \A j \in DOMAIN scopes :
           new[j] = IF j = k THEN [scopes[j] EXCEPT !.sym[x] = s] ELSE scopes[j]
  BY <1>1 DEF SetSymbol
<1>4. \A j \in DOMAIN scopes : DOMAIN scopes[j] = {"root", "sym"}
  BY DEF ScopesOK
<1>5. ASSUME NEW j \in DOMAIN scopes
      PROVE  /\ DOMAIN new[j] = {"root", "sym"}
             /\ DOMAIN new[j].sym = DOMAIN scopes[j].sym
             /\ \A y \in DOMAIN scopes[j].sym :
                  IF j = k /\ y = x
                  THEN /\ DOMAIN new[j].sym[y] = SymbolFields /\ new[j].sym[y].level = level
                       /\ OwnNode(new[j].sym[y], j, y)
                  ELSE new[j].sym[y] = scopes[j].sym[y]
  <2>1. CASE j # k
    BY <1>3, <1>4, <2>1
  <2>2. CASE j = k
    <3>1. PICK sc : sc = scopes[j] /\ DOMAIN sc = {"root", "sym"}
      BY <1>4
    <3>2. new[j] = [sc EXCEPT !.sym[x] = s]
      BY <1>3, <2>2, <3>1
    <3>3. DOMAIN new[j] = {"root", "sym"} /\ new[j].sym = [sc.sym EXCEPT ![x] = s]
      BY <3>1, <3>2
    <3> QED BY <1>1, <2>2, <3>1, <3>3
  <2> QED BY <2>1, <2>2
<1>6. PICK R : R = {new[j] : j \in 1 .. n}
  OBVIOUS
<1>7. new \in [1 .. n -> R]
  <2>1. new = [j \in DOMAIN scopes |-> new[j]]
    BY <1>1 DEF SetSymbol
  <2> QED BY <1>2, <1>6, <2>1
<1>8. new \in Seq(R)
  BY <1>7
<1>9. Len(new) = n
  BY <1>2, <1>3, <1>8
<1> QED BY <1>2, <1>3, <1>5, <1>8, <1>9

LEMMA RewriteIsWellMade ==
  ASSUME ScopesOK, NEW k, NEW x, NEW level, level # Undefined,
         NEW new, Rewrites(k, x, level, new)
  PROVE  WellMade(new)
<1>1. \A j \in DOMAIN scopes : \A y \in DOMAIN scopes[j].sym : DOMAIN scopes[j].sym[y] = SymbolFields
  BY DEF ScopesOK, SymbolOK, SymbolAt
<1>2. /\ \E S : new \in Seq(S)
      /\ DOMAIN new = DOMAIN scopes
      /\ \A j \in DOMAIN scopes :
           /\ DOMAIN new[j] = {"root", "sym"}
           /\ DOMAIN new[j].sym = DOMAIN scopes[j].sym
           /\ \A y \in DOMAIN scopes[j].sym :
                IF j = k /\ y = x
                THEN DOMAIN new[j].sym[y] = SymbolFields /\ new[j].sym[y].level = level
                ELSE new[j].sym[y] = scopes[j].sym[y]
  BY RewriteIs
<1>3. ASSUME NEW j \in DOMAIN new, NEW y \in DOMAIN new[j].sym
      PROVE  /\ DOMAIN new[j].sym[y] = SymbolFields
             /\ new[j].sym[y].level = Undefined =>
                  /\ j \in DOMAIN scopes /\ y \in DOMAIN scopes[j].sym
                  /\ new[j].sym[y] = scopes[j].sym[y]
  <2>1. j \in DOMAIN scopes /\ y \in DOMAIN scopes[j].sym
    BY <1>2, <1>3
  <2>2. CASE j = k /\ y = x
    BY <1>2, <2>1, <2>2
  <2>3. CASE ~(j = k /\ y = x)
    BY <1>1, <1>2, <2>1, <2>3
  <2> QED BY <2>2, <2>3
<1> QED BY <1>2, <1>3 DEF WellMade

LEMMA PushIsWellMade ==
  ASSUME WellMade(scopes), NEW old, WellMade(old), NEW sc, Pushes(old, sc)
  PROVE  /\ WellMade(scopes')
         /\ Len(scopes') = Len(old) + 1
         /\ \A k \in DOMAIN old : k \in DOMAIN scopes' /\ scopes'[k] = old[k]
         /\ scopes'[Len(old) + 1] = sc
         /\ \A k \in DOMAIN scopes' : k \in DOMAIN old \/ k = Len(old) + 1
<1>1. PICK S : old \in Seq(S)
  BY DEF WellMade
<1>2. PICK n \in Nat : n = Len(old) /\ DOMAIN old = 1 .. n
  BY <1>1
<1>3. old \in Seq(S \cup {sc}) /\ sc \in S \cup {sc} /\ scopes' = Append(old, sc)
  BY <1>1 DEF Pushes
<1>4. scopes' \in Seq(S \cup {sc}) /\ Len(scopes') = n + 1
  BY <1>2, <1>3
<1>5. scopes'[n + 1] = sc /\ \A k \in 1 .. n : scopes'[k] = old[k]
  BY <1>2, <1>3
<1>6. DOMAIN scopes' = 1 .. n + 1
  BY <1>4
<1>7. \A k \in DOMAIN scopes' : k \in DOMAIN old \/ k = n + 1
  BY <1>2, <1>6
<1>8. ASSUME NEW k \in DOMAIN scopes'
      PROVE  /\ DOMAIN scopes'[k] = {"root", "sym"}
             /\ \A x \in DOMAIN scopes'[k].sym :
                  /\ DOMAIN scopes'[k].sym[x] = SymbolFields
                  /\ scopes'[k].sym[x].level = Undefined =>
                       /\ k \in DOMAIN scopes /\ x \in DOMAIN scopes[k].sym
                       /\ scopes'[k].sym[x] = scopes[k].sym[x]
  <2>1. CASE k \in DOMAIN old
    <3>1. scopes'[k] = old[k]
      BY <1>2, <1>5, <2>1
    <3>2. /\ DOMAIN old[k] = {"root", "sym"}
          /\ \A x \in DOMAIN old[k].sym :
               /\ DOMAIN old[k].sym[x] = SymbolFields
               /\ old[k].sym[x].level = Undefined =>
                    /\ k \in DOMAIN scopes /\ x \in DOMAIN scopes[k].sym
                    /\ old[k].sym[x] = scopes[k].sym[x]
      BY <2>1 DEF WellMade
    <3> QED BY <3>1, <3>2
  <2>2. CASE k = n + 1
    <3>1. /\ DOMAIN sc = {"root", "sym"}
          /\ \A x \in DOMAIN sc.sym : DOMAIN sc.sym[x] = SymbolFields /\ sc.sym[x].level = Ahh
      BY DEF Pushes
    <3>2. Ahh # Undefined
      BY DEF Ahh, Undefined
    <3>3. scopes'[k] = sc
      BY <1>5, <2>2
    <3> QED BY <3>1, <3>2, <3>3
  <2> QED BY <1>7, <2>1, <2>2
<1>9. WellMade(scopes')
  BY <1>4, <1>8 DEF WellMade
<1> QED BY <1>2, <1>4, <1>5, <1>6, <1>7, <1>9

LEMMA PopIsWellMade ==
  ASSUME ScopesOK, scopes' = PopScope, scopes # <<>>
  PROVE  /\ WellMade(scopes')
         /\ Len(scopes') = Len(scopes) - 1
         /\ DOMAIN scopes' = 1 .. Len(scopes) - 1
         /\ \A k \in 1 .. Len(scopes) - 1 : scopes'[k] = scopes[k]
<1>1. PICK S : scopes \in Seq(S)
  BY DEF ScopesOK
<1>2. PICK n \in Nat : n = Len(scopes) /\ n > 0 /\ DOMAIN scopes = 1 .. n
  BY <1>1
<1>3. /\ scopes' \in Seq(S) /\ Len(scopes') = n - 1
      /\ \A k \in 1 .. n - 1 : scopes'[k] = scopes[k]
  BY <1>1, <1>2 DEF PopScope
<1>4. DOMAIN scopes' = 1 .. n - 1
  BY <1>3
<1>5. \A k \in 1 .. n - 1 : k \in DOMAIN scopes
  BY <1>2
<1>6. WellMade(scopes)
  BY ScopesAreWellMade
<1>7. WellMade(scopes')
  BY <1>3, <1>4, <1>5, <1>6 DEF WellMade
<1> QED BY <1>2, <1>3, <1>4, <1>7

LEMMA ParamsAreWellMade ==
  ASSUME ScopesOK, scopes # <<>>, AddsParams
  PROVE  /\ WellMade(scopes')
         /\ DOMAIN scopes' = DOMAIN scopes /\ Len(scopes') = Len(scopes)
         /\ \A k \in DOMAIN scopes : k # Len(scopes) => scopes'[k] = scopes[k]
         /\ \A x \in DOMAIN Innermost :
              /\ x \in DOMAIN scopes'[Len(scopes)].sym
              /\ scopes'[Len(scopes)].sym[x] = Innermost[x]
<1>1. PICK S : scopes \in Seq(S)
  BY DEF ScopesOK
<1>2. PICK n \in Nat : n = Len(scopes) /\ n > 0 /\ DOMAIN scopes = 1 .. n
  BY <1>1
<1>3. PICK sym : /\ scopes' = [scopes EXCEPT ![n].sym = sym]
                 /\ DOMAIN Innermost \subseteq DOMAIN sym
                 /\ \A x \in DOMAIN sym :
                      IF x \in DOMAIN Innermost THEN sym[x] = Innermost[x]
                      ELSE DOMAIN sym[x] = SymbolFields /\ sym[x].level = Declared
  BY <1>2 DEF AddsParams
<1>0. n \in DOMAIN scopes
  BY <1>2
<1>4. PICK sc : sc = scopes[n] /\ DOMAIN sc = {"root", "sym"}
  BY <1>0 DEF ScopesOK
<1>5. PICK new : new = [sc EXCEPT !.sym = sym]
  OBVIOUS
<1>6. DOMAIN new = {"root", "sym"} /\ new.sym = sym
  BY <1>4, <1>5
<1>7. scopes' = [scopes EXCEPT ![n] = new]
  BY <1>3, <1>4, <1>5
<1>8. /\ scopes' \in Seq(S \cup {new}) /\ DOMAIN scopes' = 1 .. n /\ Len(scopes') = n
      /\ scopes'[n] = new /\ \A k \in 1 .. n : k # n => scopes'[k] = scopes[k]
  <2>1. scopes \in Seq(S \cup {new}) /\ new \in S \cup {new}
    BY <1>1
  <2> QED BY <1>2, <1>7, <2>1
<1>9. \A x \in DOMAIN scopes[n].sym : DOMAIN scopes[n].sym[x] = SymbolFields
  BY <1>2 DEF ScopesOK, SymbolOK, SymbolAt
<1>10. ASSUME NEW x \in DOMAIN sym
       PROVE  /\ DOMAIN sym[x] = SymbolFields
              /\ sym[x].level = Undefined =>
                   x \in DOMAIN scopes[n].sym /\ sym[x] = scopes[n].sym[x]
  BY <1>2, <1>3, <1>9 DEF Innermost, Declared, Undefined
<1>11. WellMade(scopes)
  BY ScopesAreWellMade
<1>12. WellMade(scopes')
  <2>1. ASSUME NEW k \in 1 .. n
        PROVE  /\ DOMAIN scopes'[k] = {"root", "sym"}
               /\ \A x \in DOMAIN scopes'[k].sym :
                    /\ DOMAIN scopes'[k].sym[x] = SymbolFields
                    /\ scopes'[k].sym[x].level = Undefined =>
                         /\ k \in DOMAIN scopes /\ x \in DOMAIN scopes[k].sym
                         /\ scopes'[k].sym[x] = scopes[k].sym[x]
    <3>1. CASE k = n
      BY <1>2, <1>6, <1>8, <1>10, <3>1
    <3>2. CASE k # n
      BY <1>2, <1>8, <1>11, <3>2 DEF WellMade
    <3> QED BY <3>1, <3>2
  <2> QED BY <1>8, <2>1 DEF WellMade
<1> QED BY <1>2, <1>3, <1>6, <1>8, <1>12 DEF Innermost

\* A declaration has the symbol of a name point at the first node of the name.
LEMMA HoistedIs ==
  ASSUME NEW nodes, NEW S, nodes \in Seq(S), NEW level, NEW x \in DOMAIN Hoisted(nodes, level)
  PROVE  \E i \in DOMAIN nodes :
           /\ IsDeclaration(nodes[i]) /\ Node(nodes[i]).name = x
           /\ Hoisted(nodes, level)[x] = Symbol(level, nodes[i])
<1> DEFINE decls == {i \in DOMAIN nodes : IsDeclaration(nodes[i])}
           named == {i \in decls : Node(nodes[i]).name = x}
<1>1. x \in {Node(nodes[i]).name : i \in decls}
  BY DEF Hoisted
<1>2. named # {} /\ named \subseteq Nat
  BY <1>1
<1>3. \E i \in named : \A j \in named : i <= j
  BY <1>2, LeastElement
<1>4. \E i \in decls : Node(nodes[i]).name = x /\ \A j \in decls : Node(nodes[j]).name = x => i <= j
  BY <1>3
<1>5. PICK i : i = CHOOSE k \in decls : /\ Node(nodes[k]).name = x
                                        /\ \A j \in decls : Node(nodes[j]).name = x => k <= j
  OBVIOUS
<1>6. i \in decls /\ Node(nodes[i]).name = x
  BY <1>4, <1>5
<1>7. Hoisted(nodes, level)[x] = Symbol(level, nodes[i])
  BY <1>1, <1>5 DEF Hoisted
<1> QED BY <1>6, <1>7

(***************************************************************************)
(* The shape of the state is kept.                                         *)
(***************************************************************************)
\* The moves of a handler, seen from the stack: it stays, loses the running
\* frame, or has it replaced by another activation of its node.
LEMMA MoveOfStack ==
  ASSUME Ready, HandlerMove
  PROVE  /\ UNCHANGED <<prog, analyzed, next>>
         /\ \/ stack' = stack /\ ctl' = ctl
            \/ stack' = Below /\ ctl'.op = "return"
            \/ \E f : /\ Activation(f) /\ stack' = Append(Below, f)
                      /\ ctl'.op = "call" => ctl'.node \in Nodes
<1> DEFINE Moved == /\ UNCHANGED <<prog, analyzed, next>>
                    /\ \/ stack' = stack /\ ctl' = ctl
                       \/ stack' = Below /\ ctl'.op = "return"
                       \/ \E f : /\ Activation(f) /\ stack' = Append(Below, f)
                                 /\ ctl'.op = "call" => ctl'.node \in Nodes
<1>1. ASSUME Steady, Returns PROVE Moved
  BY <1>1 DEF Steady, Returns
<1>2. ASSUME NEW f, Activation(f), Stays(f), UNCHANGED <<prog, analyzed, next>> PROVE Moved
  BY <1>2 DEF Stays
<1>3. ASSUME NEW f, Activation(f), NEW n \in Nodes, Calls(f, n), UNCHANGED <<prog, analyzed, next>>
      PROVE  Moved
  BY <1>3 DEF Calls
<1>4. ASSUME NEW f, Activation(f), Evaluates(f), Steady PROVE Moved
  BY <1>2, <1>3, <1>4 DEF Evaluates, Expression, Steady
<1>5. ASSUME NEW k, LazyUse(k) PROVE Moved
  <2>1. PICK f : Activation(f) /\ Calls(f, SymbolAt(k, This.name).node)
    BY <1>5 DEF LazyUse
  <2>2. SymbolAt(k, This.name).node \in Nodes
    <3>1. k \in DOMAIN scopes /\ This.name \in DOMAIN scopes[k].sym
      BY <1>5, LookupFinds DEF LazyUse, Ready
    <3>2. SymbolOK(k, This.name)
      BY <3>1 DEF Ready, ScopesOK
    <3> QED BY <1>5, <3>2 DEF LazyUse, SymbolOK
  <2> QED BY <1>3, <1>5, <2>1, <2>2 DEF LazyUse, Quiet, Steady
<1> SUFFICES Moved
  OBVIOUS
<1> HIDE DEF Moved
<1>6. CASE PlainMove
  BY <1>1, <1>4, <1>6 DEF PlainMove, QuietMove, QuietReturn, QuietStep, Quiet
<1>7. CASE IdentMove
  BY <1>1, <1>5, <1>7 DEF IdentMove, QuietReturn, Quiet
<1>8. CASE VarMove
  <2>1. CASE Collides
    BY <2>1 DEF Collides, Moved
  <2> QED
    BY <1>1, <1>4, <1>8, <2>1 DEF VarMove, OpensVar, ClosesVar, QuietReturn, QuietStep, Quiet
<1>9. CASE FuncMove
  <2>1. CASE OpensFunc
    BY <1>2, <2>1 DEF OpensFunc
  <2>2. CASE ClosesFunc
    BY <2>2 DEF ClosesFunc, Returns, Moved
  <2> QED BY <1>1, <1>4, <1>9, <2>1, <2>2 DEF FuncMove, QuietReturn, QuietStep, Quiet
<1>10. CASE BlockMove
  BY <1>1, <1>2, <1>3, <1>10 DEF BlockMove, OpensBlock, ClosesBlock, Quiet, Steady
<1> QED BY <1>6, <1>7, <1>8, <1>9, <1>10 DEF HandlerMove

\* And from the scopes: one is pushed, the innermost is popped or gets more
\* symbols, a symbol is rewritten, or nothing happens.  A scope is popped or
\* added to by an activation that has one.
LEMMA MoveOfScopes ==
  ASSUME Ready, HandlerMove
  PROVE  WellMade(scopes')
<1>1. WellMade(scopes)
  BY ScopesAreWellMade DEF Ready
<1>2. CASE Quiet \/ Collides
  BY <1>1, <1>2 DEF Quiet, Collides, WellMade
<1>3. ASSUME NEW k, NEW x, NEW level, level # Undefined, NEW new, Rewrites(k, x, level, new)
      PROVE  WellMade(new)
  BY <1>3, RewriteIsWellMade DEF Ready
<1>4. Declared # Undefined /\ Defined # Undefined
  BY DEF Declared, Defined, Undefined
<1>5. ASSUME NEW old, WellMade(old), NEW sc, Pushes(old, sc) PROVE WellMade(scopes')
  BY <1>1, <1>5, PushIsWellMade
<1>6. CASE scopes' = PopScope
  <2>1. CASE scopes = <<>>
    <3>1. scopes' = <<>>
      BY <1>6, <2>1 DEF PopScope
    <3> QED BY <1>1, <2>1, <3>1 DEF WellMade
  <2> QED BY <1>6, <2>1, PopIsWellMade DEF Ready
<1>7. CASE AddsParams
  <2>1. CASE scopes = <<>>
    <3>1. PICK sym : scopes' = [scopes EXCEPT ![Len(scopes)].sym = sym]
      BY <1>7 DEF AddsParams
    <3>2. scopes' = <<>>
      BY <2>1, <3>1
    <3> QED BY <1>1, <2>1, <3>2 DEF WellMade
  <2> QED BY <1>7, <2>1, ParamsAreWellMade DEF Ready
<1>8. CASE PlainMove \/ IdentMove
  BY <1>2, <1>8 DEF PlainMove, IdentMove, QuietMove, QuietReturn, QuietStep, LazyUse
<1>9. CASE VarMove
  BY <1>2, <1>3, <1>4, <1>9 DEF VarMove, OpensVar, ClosesVar, QuietReturn, QuietStep
<1>10. CASE FuncMove
  <2>1. CASE OpensFunc
    BY <1>1, <1>3, <1>4, <1>5, <2>1 DEF OpensFunc
  <2>2. CASE ClosesFunc
    BY <1>6, <2>2 DEF ClosesFunc
  <2>3. CASE scopes' = scopes
    BY <1>1, <2>3 DEF WellMade
  <2> QED BY <1>7, <1>10, <2>1, <2>2, <2>3 DEF FuncMove, QuietReturn, QuietStep, Quiet
<1>11. CASE BlockMove
  BY <1>1, <1>2, <1>5, <1>6, <1>11 DEF BlockMove, OpensBlock, ClosesBlock
<1> QED BY <1>8, <1>9, <1>10, <1>11 DEF HandlerMove

\* analyze_node is entered: a fresh activation is put on the stack.
Enters ==
  /\ ctl.op = "call" /\ ctl.node \notin analyzed
  /\ analyzed' = analyzed \cup {ctl.node}
  /\ stack' = Append(stack, Frame(ctl.node, ctl.exp))
  /\ ctl'.op = "go"
  /\ status = "running" /\ UNCHANGED <<prog, scopes, hadError, retType, next, status>>

\* The analysis goes on: no call has come back from an unreachable().
Alive == status = "running" /\ ~(ctl.op = "return" /\ IsCrash(ctl.val))

\* Nothing but what comes next, and the status, changes.
Idles ==
  /\ UNCHANGED <<prog, analyzed, scopes, stack, hadError, retType>>
  /\ next' \in Nat \ {0}
  /\ ctl'.op = "call" => ctl' = ctl \/ (stack = <<>> /\ Global(ctl'.node))
  /\ ctl'.op = "go" => ctl' = ctl
  /\ status' = "start" <=> status = "start"
  /\ Alive' => Alive

HandlerStep ==
  /\ Ready /\ stack # <<>> /\ status = "running" /\ ctl.op # "call" /\ ~IsCrash(ctl.val)
  /\ Top.pc = "enter" => ctl.op = "go"
  /\ HandlerMove

LEMMA ScopesStay ==
  ASSUME ScopesOK, UNCHANGED <<prog, scopes>>
  PROVE  ScopesOK'
BY DEF ScopesOK, SymbolOK, SymbolAt, Nodes, Node, IsDeclaration, Global

\* Every step is one of these.
LEMMA Steps ==
  ASSUME Shape, [Next]_vars
  PROVE  Start \/ Enters \/ Idles \/ HandlerStep
<1>1. CASE EnterNode
  BY <1>1 DEF EnterNode, Enters, Go, Control
<1>2. CASE AnalyzeExpression \/ AnalyzeVarDecl \/ AnalyzeFuncDecl
  BY <1>2, HandlerRuns, ReadyHolds, HandlerMoves DEF HandlerStep
<1>3. CASE NextDeclaration
  <2>1. next \in DOMAIN prog.decls
    BY <1>3 DEF NextDeclaration, Shape, ProgramOK
  <2>2. ctl'.node = prog.decls[next] /\ ctl'.op = "call"
    BY <1>3 DEF NextDeclaration, Call, Control
  <2>3. UNCHANGED <<prog, analyzed, scopes, stack, hadError, retType, status>>
    BY <1>3 DEF NextDeclaration
  <2>4. next' \in Nat \ {0}
    BY <1>3 DEF NextDeclaration, Shape
  <2>5. stack = <<>>
    BY <1>3 DEF NextDeclaration
  <2>6. Alive
    BY <1>3 DEF NextDeclaration, Alive
  <2> QED BY <2>1, <2>2, <2>3, <2>4, <2>5, <2>6 DEF Idles, Global
<1>4. CASE Finish \/ Unreachable
  BY <1>4 DEF Finish, Unreachable, Idles, Shape, Alive
<1>5. CASE Finished \/ UNCHANGED vars
  BY <1>5 DEF Finished, vars, Idles, Shape, Alive
<1>6. CASE ReuseNode
  BY <1>6 DEF ReuseNode, Returned, Control, Driver, Idles, Shape, Alive
<1> QED BY <1>1, <1>2, <1>3, <1>4, <1>5, <1>6 DEF Next, AnalyzeNode

LEMMA StartMakesScopes ==
  ASSUME Shape, Start
  PROVE  /\ ScopesOK'
         /\ Len(scopes') = 1 /\ DOMAIN scopes' = {1}
         /\ scopes'[1].sym = Hoisted(prog.decls, Undefined)
<1>1. PICK sc : sc = Scope(0, Hoisted(prog.decls, Undefined))
  OBVIOUS
<1>2. DOMAIN sc = {"root", "sym"} /\ sc.sym = Hoisted(prog.decls, Undefined)
  BY <1>1 DEF Scope
<1>3. scopes' = <<sc>> /\ prog' = prog
  BY <1>1 DEF Start
<1>4. scopes' \in Seq({sc}) /\ Len(scopes') = 1 /\ DOMAIN scopes' = {1} /\ scopes'[1] = sc
  BY <1>3
<1>5. prog.decls \in Seq(Nodes)
  BY DEF Shape, ProgramOK, Nodes
<1>6. ASSUME NEW x \in DOMAIN sc.sym PROVE SymbolOK(1, x)'
  <2>1. PICK i \in DOMAIN prog.decls :
           /\ IsDeclaration(prog.decls[i]) /\ Node(prog.decls[i]).name = x
           /\ sc.sym[x] = Symbol(Undefined, prog.decls[i])
    BY <1>2, <1>5, HoistedIs
  <2>2. prog.decls[i] \in Nodes
    BY <1>5
  <2>3. SymbolAt(1, x)' = Symbol(Undefined, prog.decls[i])
    BY <1>4, <2>1 DEF SymbolAt
  <2> QED
    BY <1>3, <2>1, <2>2, <2>3 DEF SymbolOK, Symbol, SymbolFields, Nodes, Node, IsDeclaration, Global
<1> QED BY <1>2, <1>4, <1>6 DEF ScopesOK

LEMMA FrameIsOK ==
  ASSUME NEW n \in Nodes, NEW exp
  PROVE  /\ FrameOK(Frame(n, exp))
         /\ Frame(n, exp).node = n /\ Frame(n, exp).pc = "enter"
<1>1. PICK f : f = Frame(n, exp)
  OBVIOUS
<1>2. DOMAIN f = FrameFields /\ f.node = n /\ f.pc = "enter" /\ f.i = 1
  BY <1>1 DEF Frame, FrameFields
<1> QED BY <1>1, <1>2 DEF FrameOK

\* The shape of the state is kept by every step.
LEMMA ShapeKept ==
  ASSUME Shape, Start \/ Enters \/ Idles \/ HandlerStep
  PROVE  Shape'
<1>1. CASE Start
  <2>1. ScopesOK' /\ UNCHANGED <<stack, prog, ctl, next>>
    BY <1>1, StartMakesScopes DEF Start
  <2> QED BY <2>1 DEF Shape, StackOK, FrameOK, Nodes, Node
<1>2. CASE Enters
  <2>1. PICK f : f = Frame(ctl.node, ctl.exp)
    OBVIOUS
  <2>2. FrameOK(f) /\ prog' = prog
    BY <1>2, <2>1, FrameIsOK DEF Shape, Enters
  <2>3. stack' = Append(stack, f)
    BY <1>2, <2>1 DEF Enters
  <2>4. PICK n : n = Len(stack) + 1
    OBVIOUS
  <2>5. /\ \E F : stack' \in Seq(F)
        /\ DOMAIN stack' = DOMAIN stack \cup {n}
        /\ stack'[n] = f
        /\ \A i \in DOMAIN stack : stack'[i] = stack[i]
    BY <2>3, <2>4, Entered DEF Shape
  <2>6. \A i \in DOMAIN stack' : FrameOK(stack'[i])
    BY <2>2, <2>5 DEF Shape, StackOK
  <2>7. ScopesOK'
    BY <1>2, ScopesStay DEF Shape, Enters
  <2> QED BY <1>2, <2>2, <2>5, <2>6, <2>7 DEF Shape, StackOK, Enters, FrameOK, Nodes, Node
<1>3. CASE Idles
  <2>1. ScopesOK' /\ UNCHANGED <<stack, prog>> /\ next' \in Nat \ {0}
    BY <1>3, ScopesStay DEF Shape, Idles
  <2>2. ctl'.op = "call" => ctl'.node \in Nodes
    BY <1>3 DEF Shape, Idles, ProgramOK, Nodes, Global
  <2> QED BY <2>1, <2>2 DEF Shape, StackOK, FrameOK, Nodes, Node
<1>4. CASE HandlerStep
  <2>1. /\ UNCHANGED <<prog, next>>
        /\ \/ stack' = stack /\ ctl' = ctl
           \/ stack' = Below /\ ctl'.op = "return"
           \/ \E f : /\ Activation(f) /\ stack' = Append(Below, f)
                     /\ ctl'.op = "call" => ctl'.node \in Nodes
    BY <1>4, MoveOfStack DEF HandlerStep
  <2>2. ScopesOK'
    BY <1>4, <2>1, MoveOfScopes, WellMadeIsOK DEF HandlerStep, Shape
  <2>3. CASE stack' = stack /\ ctl' = ctl
    BY <2>1, <2>2, <2>3 DEF Shape, StackOK, FrameOK, Nodes, Node
  <2>4. CASE stack' = Below /\ ctl'.op = "return"
    <3>1. /\ \E F : stack' \in Seq(F)
          /\ DOMAIN stack' \subseteq DOMAIN stack
          /\ \A i \in DOMAIN stack' : stack'[i] = stack[i]
      BY <1>4, <2>4, Dropped DEF HandlerStep, Shape
    <3>2. \A i \in DOMAIN stack' : FrameOK(stack'[i])
      BY <3>1 DEF Shape, StackOK
    <3> QED BY <2>1, <2>2, <2>4, <3>1, <3>2 DEF Shape, StackOK, FrameOK, Nodes, Node
  <2>5. ASSUME NEW f, Activation(f), stack' = Append(Below, f),
               ctl'.op = "call" => ctl'.node \in Nodes
        PROVE  Shape'
    <3>1. /\ \E F : stack' \in Seq(F)
          /\ DOMAIN stack' = DOMAIN stack
          /\ stack'[Len(stack)] = f
          /\ \A i \in DOMAIN stack : i # Len(stack) => stack'[i] = stack[i]
      BY <1>4, <2>5, Replaced DEF HandlerStep, Shape
    <3>2. \A i \in DOMAIN stack' : FrameOK(stack'[i])
      BY <2>5, <3>1 DEF Shape, StackOK, Activation
    <3> QED BY <2>1, <2>2, <2>5, <3>1, <3>2 DEF Shape, StackOK, FrameOK, Nodes, Node
  <2> QED BY <2>1, <2>3, <2>4, <2>5
<1> QED BY <1>1, <1>2, <1>3, <1>4

LEMMA ShapeInitially == Init => Shape
<1> SUFFICES ASSUME Init PROVE Shape
  OBVIOUS
<1>1. stack = <<>> /\ scopes = <<>>
  BY DEF Init
<1>2. stack \in Seq({}) /\ scopes \in Seq({}) /\ DOMAIN stack = {} /\ DOMAIN scopes = {}
  BY <1>1
<1>3. StackOK /\ ScopesOK
  BY <1>2 DEF StackOK, ScopesOK
<1> QED BY <1>3, ProgramsAssumption DEF Init, Shape, Returned, Control

(***************************************************************************)
(* No node is analysed inside its own analysis.                            *)
(***************************************************************************)
LEMMA NoReentryKept ==
  ASSUME Shape, NoReentry, Start \/ Enters \/ Idles \/ HandlerStep
  PROVE  NoReentry'
<1>1. CASE Start \/ Idles
  <2>1. UNCHANGED <<stack, analyzed>>
    BY <1>1 DEF Start, Idles
  <2> QED BY <2>1 DEF NoReentry
<1>2. CASE Enters
  <2>1. PICK f : f = Frame(ctl.node, ctl.exp)
    OBVIOUS
  <2>2. f.node = ctl.node
    BY <1>2, <2>1, FrameIsOK DEF Shape, Enters
  <2>3. stack' = Append(stack, f)
    BY <1>2, <2>1 DEF Enters
  <2>4. PICK n : n = Len(stack) + 1
    OBVIOUS
  <2>5. /\ DOMAIN stack' = DOMAIN stack \cup {n}
        /\ stack'[n] = f
        /\ \A i \in DOMAIN stack : stack'[i] = stack[i]
    BY <2>3, <2>4, Entered DEF Shape
  <2>6. \A i \in DOMAIN stack : stack[i].node \in analyzed /\ stack[i].node # ctl.node
    BY <1>2 DEF Enters, NoReentry
  <2> QED BY <1>2, <2>2, <2>5, <2>6 DEF Enters, NoReentry
<1>3. CASE HandlerStep
  <2>1. /\ analyzed' = analyzed
        /\ \/ stack' = stack
           \/ stack' = Below
           \/ \E f : Activation(f) /\ stack' = Append(Below, f)
    BY <1>3, MoveOfStack DEF HandlerStep
  <2>2. CASE stack' = stack
    BY <2>1, <2>2 DEF NoReentry
  <2>3. CASE stack' = Below
    <3>1. /\ DOMAIN stack' \subseteq DOMAIN stack
          /\ \A i \in DOMAIN stack' : stack'[i] = stack[i]
      BY <1>3, <2>3, Dropped DEF HandlerStep, Shape
    <3> QED BY <2>1, <3>1 DEF NoReentry
  <2>4. ASSUME NEW f, Activation(f), stack' = Append(Below, f) PROVE NoReentry'
    <3>1. /\ DOMAIN stack' = DOMAIN stack
          /\ stack'[Len(stack)] = f
          /\ \A i \in DOMAIN stack : i # Len(stack) => stack'[i] = stack[i]
      BY <1>3, <2>4, Replaced DEF HandlerStep, Shape
    <3>2. \A i \in DOMAIN stack : stack'[i].node = stack[i].node
      BY <2>4, <3>1 DEF Activation, Top
    <3> QED BY <2>1, <3>1, <3>2 DEF NoReentry
  <2> QED BY <2>1, <2>2, <2>3, <2>4
<1> QED BY <1>1, <1>2, <1>3

\* analyze_node never runs inside itself on the same node, in any program:
\* the `analyzed` flag is set before the first recursive call of a handler and
\* no handler ever clears it or puts another node's frame in its place.
THEOREM NoReentryHolds == Spec => []NoReentry
<1>1. Init => Shape /\ NoReentry
  BY ShapeInitially DEF Init, NoReentry
<1>2. Shape /\ NoReentry /\ [Next]_vars => (Shape /\ NoReentry)'
  BY Steps, ShapeKept, NoReentryKept
<1> QED BY <1>1, <1>2, PTL DEF Spec

(***************************************************************************)
(* Well made values.  A value nests, and a set that holds the fields of    *)
(* each of its struct objects stands in for a recursion over them.         *)
(***************************************************************************)
TypesIn(tp) == 0 .. LastTypeId(tp)

Closed(tp, S) ==
  \A v \in S :
    /\ v = Val(v.k, v.t, v.fs)
    /\ v.k \in ValueKinds /\ v.t \in TypesIn(tp) /\ v.fs \in Seq(S)
    /\ v.k = "STRUCT" => Len(v.fs) = Len(Fields(tp, v.t))

Made(tp, v) == \E S : v \in S /\ Closed(tp, S)

\* A value for a slot of type t.
MadeFor(tp, t, v) == Made(tp, v) /\ (IsCrash(v) \/ TypeOf(v) = t)

\* A field that may stand in a struct of type t.
FieldMade(tp, t, f) ==
  /\ f.type \in 0 .. t - 1
  /\ f.hasDefault => Made(tp, f.default)

FieldsMade(tp, t, fields) ==
  /\ \E F : fields \in Seq(F)
  /\ \A i \in DOMAIN fields : FieldMade(tp, t, fields[i])

PoolMade(tp) ==
  /\ \E I : tp \in Seq(I)
  /\ \A i \in DOMAIN tp : FieldsMade(tp, TyString + i, tp[i].fields)

LEMMA MadeIs ==
  ASSUME NEW tp, NEW v, Made(tp, v)
  PROVE  /\ v = Val(v.k, v.t, v.fs)
         /\ v.k \in ValueKinds /\ v.t \in TypesIn(tp)
         /\ \E S : v.fs \in Seq(S)
         /\ \A i \in DOMAIN v.fs : Made(tp, v.fs[i])
         /\ v.k = "STRUCT" => Len(v.fs) = Len(Fields(tp, v.t))
<1>1. PICK S : v \in S /\ Closed(tp, S)
  BY DEF Made
<1>2. v.fs \in Seq(S)
  BY <1>1 DEF Closed
<1>3. ASSUME NEW i \in DOMAIN v.fs PROVE Made(tp, v.fs[i])
  BY <1>1, <1>2 DEF Made
<1> QED BY <1>1, <1>2, <1>3 DEF Closed

LEMMA TypeIds0 ==
  ASSUME NEW tp, PoolMade(tp)
  PROVE  /\ Len(tp) \in Nat /\ DOMAIN tp = 1 .. Len(tp)
         /\ LastTypeId(tp) \in Nat /\ LastTypeId(tp) >= TyString
         /\ 0 .. TyString \subseteq TypesIn(tp)
         /\ TypesIn(tp) \subseteq Nat
BY DEF PoolMade, TypesIn, LastTypeId, TyString

\* The values without fields.
LEMMA PlainIsMade ==
  ASSUME NEW tp, NEW k \in ValueKinds \ {"STRUCT"}, NEW t \in TypesIn(tp)
  PROVE  Made(tp, Val(k, t, <<>>))
<1>1. PICK v : v = Val(k, t, <<>>)
  OBVIOUS
<1>2. v.k = k /\ v.t = t /\ v.fs = <<>>
  BY <1>1 DEF Val
<1>3. Closed(tp, {v})
  <2>1. v.fs \in Seq({v})
    BY <1>2
  <2> QED BY <1>1, <1>2, <2>1 DEF Closed
<1> QED BY <1>1, <1>3 DEF Made

LEMMA ConstantsAreMade ==
  ASSUME NEW tp, PoolMade(tp)
  PROVE  /\ Made(tp, None) /\ Made(tp, Bad) /\ Made(tp, Zero) /\ Made(tp, Uninit) /\ Made(tp, Crash)
         /\ \A t \in TypesIn(tp) : /\ MadeFor(tp, t, Scalar(t)) /\ MadeFor(tp, t, Runtime(t))
                                   /\ Made(tp, TypeVal(t)) /\ MadeFor(tp, t, StrObj(t))
<1>1. NoType \in TypesIn(tp)
  BY TypeIds0 DEF NoType, TyString
<1>2. \A k \in ValueKinds \ {"STRUCT"}, t \in TypesIn(tp) : Made(tp, Val(k, t, <<>>))
  BY PlainIsMade
<1>3. \A k \in {"NONE", "BAD", "ZERO", "UNINIT", "CRASH", "SCALAR", "RUNTIME", "TYPE", "STR"} :
        k \in ValueKinds \ {"STRUCT"}
  BY DEF ValueKinds
<1>4. /\ Made(tp, None) /\ Made(tp, Bad) /\ Made(tp, Zero) /\ Made(tp, Uninit) /\ Made(tp, Crash)
  BY <1>1, <1>2, <1>3 DEF None, Bad, Zero, Uninit, Crash
<1>5. ASSUME NEW t \in TypesIn(tp)
      PROVE  /\ Made(tp, Scalar(t)) /\ Made(tp, Runtime(t)) /\ Made(tp, TypeVal(t)) /\ Made(tp, StrObj(t))
  BY <1>2, <1>3 DEF Scalar, Runtime, TypeVal, StrObj
<1>6. \A t : TypeOf(Scalar(t)) = t /\ TypeOf(Runtime(t)) = t /\ TypeOf(StrObj(t)) = t
  BY DEF TypeOf, Scalar, Runtime, StrObj, Val
<1> QED BY <1>4, <1>5, <1>6 DEF MadeFor

\* A value of well made fields, as many as its type has if it is an object.
LEMMA ObjectIsMade ==
  ASSUME NEW tp, NEW kind \in ValueKinds, NEW t \in TypesIn(tp), NEW S, NEW fs \in Seq(S),
         \A i \in DOMAIN fs : Made(tp, fs[i]),
         kind = "STRUCT" => Len(fs) = Len(Fields(tp, t))
  PROVE  Made(tp, Val(kind, t, fs))
<1>1. PICK v : v = Val(kind, t, fs)
  OBVIOUS
<1>2. v.k = kind /\ v.t = t /\ v.fs = fs
  BY <1>1 DEF Val
<1> DEFINE Held(i) == CHOOSE T : fs[i] \in T /\ Closed(tp, T)
           All == {v} \cup UNION {Held(i) : i \in DOMAIN fs}
<1>3. ASSUME NEW i \in DOMAIN fs PROVE fs[i] \in Held(i) /\ Closed(tp, Held(i))
  BY <1>3 DEF Made
<1> HIDE DEF Held
<1>4. fs \in Seq(All)
  <2>1. \A i \in 1 .. Len(fs) : fs[i] \in All
    BY <1>3
  <2> HIDE DEF All
  <2> QED BY <2>1
<1>5. ASSUME NEW u \in All, u # v
      PROVE  /\ u = Val(u.k, u.t, u.fs)
             /\ u.k \in ValueKinds /\ u.t \in TypesIn(tp) /\ u.fs \in Seq(All)
             /\ u.k = "STRUCT" => Len(u.fs) = Len(Fields(tp, u.t))
  <2>1. PICK i \in DOMAIN fs : u \in Held(i)
    BY <1>5
  <2>2. Held(i) \subseteq All
    OBVIOUS
  <2>3. u.fs \in Seq(Held(i))
    BY <1>3, <2>1 DEF Closed
  <2>4. u.fs \in Seq(All)
    <3> HIDE DEF All
    <3> QED BY <2>2, <2>3
  <2> QED BY <1>3, <2>1, <2>4 DEF Closed
<1>6. Closed(tp, All)
  <2> HIDE DEF All
  <2> QED BY <1>1, <1>2, <1>4, <1>5 DEF Closed
<1> QED BY <1>1, <1>6 DEF Made

LEMMA StructIsMade ==
  ASSUME NEW tp, PoolMade(tp), NEW t \in TypesIn(tp), NEW S, NEW fs \in Seq(S),
         \A i \in DOMAIN fs : Made(tp, fs[i]), Len(fs) = Len(Fields(tp, t))
  PROVE  MadeFor(tp, t, StructObj(t, fs))
<1>1. Made(tp, Val("STRUCT", t, fs))
  BY ObjectIsMade DEF ValueKinds
<1>2. TypeOf(Val("STRUCT", t, fs)) = t
  BY DEF TypeOf, Val
<1>3. IsCrash(Crash)
  BY DEF IsCrash, Crash, Val
<1> QED BY <1>1, <1>2, <1>3, ConstantsAreMade DEF StructObj, MadeFor

(***************************************************************************)
(* The type pool.                                                          *)
(***************************************************************************)
\* The fields of a type are of older types.
LEMMA FieldsAreOlder ==
  ASSUME NEW tp, PoolMade(tp), NEW t \in TypesIn(tp)
  PROVE  FieldsMade(tp, t, Fields(tp, t))
<1>1. CASE t > TyString
  <2>1. PICK n \in Nat : n = Len(tp) /\ DOMAIN tp = 1 .. n
    BY TypeIds0
  <2>2. t \in 0 .. 270 + n /\ t > 270
    BY <1>1, <2>1 DEF TypesIn, LastTypeId, TyString
  <2>3. PICK i : i = t - TyString
    OBVIOUS
  <2>4. i \in DOMAIN tp /\ TyString + i = t
    BY <2>1, <2>2, <2>3 DEF TyString
  <2> QED BY <1>1, <2>3, <2>4 DEF PoolMade, Fields
<1>2. CASE t = TyString
  <2>1. Fields(tp, t) = StringFields
    BY <1>2 DEF Fields, TyString
  <2>2. PICK a, b : a = Field("ptr", TyCstr, FALSE, None) /\ b = Field("len", TyUsize, FALSE, None)
    OBVIOUS
  <2>3. a.type = TyCstr /\ ~a.hasDefault /\ b.type = TyUsize /\ ~b.hasDefault
    BY <2>2 DEF Field
  <2>4. StringFields = <<a, b>>
    BY <2>2 DEF StringFields
  <2>5. FieldMade(tp, t, a) /\ FieldMade(tp, t, b)
    BY <1>2, <2>3 DEF FieldMade, TyString, TyCstr, TyUsize
  <2>6. <<a, b>> \in Seq({a, b}) /\ \A i \in DOMAIN <<a, b>> : <<a, b>>[i] \in {a, b}
    OBVIOUS
  <2> QED BY <2>1, <2>4, <2>5, <2>6 DEF FieldsMade
<1>3. CASE ~(t > TyString) /\ t # TyString
  <2>1. Fields(tp, t) = <<>>
    BY <1>3 DEF Fields
  <2>2. <<>> \in Seq({})
    OBVIOUS
  <2> QED BY <2>1, <2>2 DEF FieldsMade
<1> QED BY <1>1, <1>2, <1>3

LEMMA FieldsAreSeq ==
  ASSUME NEW tp, PoolMade(tp), NEW t \in TypesIn(tp)
  PROVE  /\ Len(Fields(tp, t)) \in Nat /\ DOMAIN Fields(tp, t) = 1 .. Len(Fields(tp, t))
         /\ \A i \in DOMAIN Fields(tp, t) :
              /\ Fields(tp, t)[i].type \in TypesIn(tp)
              /\ Fields(tp, t)[i].type < t
              /\ Fields(tp, t)[i].hasDefault => Made(tp, Fields(tp, t)[i].default)
<1>1. FieldsMade(tp, t, Fields(tp, t))
  BY FieldsAreOlder
<1>2. t \in Nat /\ \A u \in 0 .. t - 1 : u \in TypesIn(tp) /\ u < t
  BY TypeIds0 DEF TypesIn
<1> QED BY <1>1, <1>2 DEF FieldsMade, FieldMade

\* The pool is the same or has grown.
Grows(tp, new) ==
  /\ PoolMade(new)
  /\ TypesIn(tp) \subseteq TypesIn(new) /\ LastTypeId(tp) <= LastTypeId(new)
  /\ \A t \in TypesIn(tp) : Fields(new, t) = Fields(tp, t)
  /\ \A v : Made(tp, v) => Made(new, v)

\* A new type leaves the others, and the values of theirs, as they are.
LEMMA PoolGrows ==
  ASSUME NEW tp, PoolMade(tp), NEW info, FieldsMade(tp, NextTypeId(tp), info.fields),
         NEW new, new = Append(tp, info)
  PROVE  /\ Grows(tp, new) /\ PoolMade(new)
         /\ NextTypeId(tp) \in TypesIn(new)
         /\ Fields(new, NextTypeId(tp)) = info.fields
<1>1. PICK n \in Nat : n = Len(tp) /\ DOMAIN tp = 1 .. n
  BY TypeIds0
<1>2. /\ \E I : new \in Seq(I)
      /\ Len(new) = n + 1 /\ DOMAIN new = 1 .. n + 1
      /\ new[n + 1] = info /\ \A i \in 1 .. n : new[i] = tp[i]
  <2>1. PICK I : tp \in Seq(I)
    BY DEF PoolMade
  <2>2. tp \in Seq(I \cup {info})
    BY <2>1
  <2>3. new \in Seq(I \cup {info})
    BY <2>2
  <2> QED BY <1>1, <2>2, <2>3
<1>3. /\ TypesIn(tp) = 0 .. 270 + n /\ TypesIn(new) = 0 .. 271 + n
      /\ NextTypeId(tp) = 271 + n /\ LastTypeId(tp) = 270 + n /\ LastTypeId(new) = 271 + n
  BY <1>1, <1>2 DEF TypesIn, LastTypeId, NextTypeId, TyString
<1>4. ASSUME NEW t \in TypesIn(tp) PROVE Fields(new, t) = Fields(tp, t)
  BY <1>1, <1>2, <1>3 DEF Fields, TyString
<1>5. Fields(new, NextTypeId(tp)) = info.fields
  BY <1>1, <1>2, <1>3 DEF Fields, TyString
<1>6. ASSUME NEW v, Made(tp, v) PROVE Made(new, v)
  <2>1. PICK S : v \in S /\ Closed(tp, S)
    BY <1>6 DEF Made
  <2>2. Closed(new, S)
    BY <1>3, <1>4, <2>1 DEF Closed
  <2> QED BY <2>1, <2>2 DEF Made
<1>7. ASSUME NEW t, NEW fields, FieldsMade(tp, t, fields) PROVE FieldsMade(new, t, fields)
  BY <1>6, <1>7 DEF FieldsMade, FieldMade
<1>8. ASSUME NEW i \in DOMAIN new PROVE FieldsMade(new, TyString + i, new[i].fields)
  <2>1. CASE i = n + 1
    <3>1. TyString + i = NextTypeId(tp)
      BY <1>3, <2>1 DEF TyString
    <3> QED BY <1>2, <1>7, <2>1, <3>1
  <2>2. CASE i \in 1 .. n
    BY <1>1, <1>2, <1>7, <2>2 DEF PoolMade
  <2> QED BY <1>2, <2>1, <2>2
<1>9. PoolMade(new)
  BY <1>2, <1>8 DEF PoolMade
<1>10. TypesIn(tp) \subseteq TypesIn(new) /\ LastTypeId(tp) <= LastTypeId(new)
       /\ NextTypeId(tp) \in TypesIn(new)
  BY <1>3
<1> QED BY <1>4, <1>5, <1>6, <1>9, <1>10 DEF Grows

(***************************************************************************)
(* default_for_type comes to an end: a function that satisfies its         *)
(* recursion exists, because the fields of a type are of older types.      *)
(***************************************************************************)
DefaultBody(tp, f, u) ==
  IF IsNumber(tp, u) THEN Scalar(u)
  ELSE IF u = TyCstr THEN StrObj(u)
  ELSE IF IsStructType(tp, u)
       THEN LET fields == Fields(tp, u)
            IN StructObj(u, [i \in DOMAIN fields |->
                 IF fields[i].hasDefault THEN fields[i].default
                                         ELSE f[fields[i].type]])
  ELSE Crash

DefaultUpTo(tp, n, f) == f = [u \in 0 .. n |-> DefaultBody(tp, f, u)]

LEMMA SameBody ==
  ASSUME NEW tp, PoolMade(tp), NEW u \in TypesIn(tp), NEW f, NEW g,
         \A t \in 0 .. u - 1 : f[t] = g[t]
  PROVE  DefaultBody(tp, f, u) = DefaultBody(tp, g, u)
<1>1. \A i \in DOMAIN Fields(tp, u) : Fields(tp, u)[i].type \in 0 .. u - 1
  BY FieldsAreOlder DEF FieldsMade, FieldMade
<1>2. [i \in DOMAIN Fields(tp, u) |-> IF Fields(tp, u)[i].hasDefault THEN Fields(tp, u)[i].default
                                      ELSE f[Fields(tp, u)[i].type]]
      = [i \in DOMAIN Fields(tp, u) |-> IF Fields(tp, u)[i].hasDefault THEN Fields(tp, u)[i].default
                                      ELSE g[Fields(tp, u)[i].type]]
  BY <1>1
<1> QED BY <1>2 DEF DefaultBody

LEMMA DefaultExists ==
  ASSUME NEW tp, PoolMade(tp)
  PROVE  \A n \in TypesIn(tp) : \E f : DefaultUpTo(tp, n, f)
<1> DEFINE Missing == {n \in TypesIn(tp) : ~ \E f : DefaultUpTo(tp, n, f)}
<1> SUFFICES ASSUME Missing # {} PROVE FALSE
  OBVIOUS
<1>1. PICK n \in Missing : \A m \in Missing : n <= m
  <2>1. Missing \subseteq Nat
    BY TypeIds0
  <2> HIDE DEF Missing
  <2> QED BY <2>1, LeastElement
<1>2. n \in Nat /\ n \in TypesIn(tp) /\ \A m \in Nat : m <= n => m \in TypesIn(tp)
  BY TypeIds0 DEF TypesIn
<1>3. PICK f : \A u \in 0 .. n - 1 : f[u] = DefaultBody(tp, f, u)
  <2>1. CASE n = 0
    BY <2>1
  <2>2. CASE n # 0
    <3>1. n - 1 \in TypesIn(tp) /\ n - 1 \notin Missing
      BY <1>1, <1>2, <2>2
    <3>2. PICK f : DefaultUpTo(tp, n - 1, f)
      BY <3>1
    <3>3. \A u \in 0 .. n - 1 : [x \in 0 .. n - 1 |-> DefaultBody(tp, f, x)][u] = DefaultBody(tp, f, u)
      OBVIOUS
    <3>4. f = [x \in 0 .. n - 1 |-> DefaultBody(tp, f, x)]
      BY <3>2 DEF DefaultUpTo
    <3> QED BY <3>3, <3>4
  <2> QED BY <2>1, <2>2
<1>4. PICK g : g = [u \in 0 .. n |-> DefaultBody(tp, f, u)]
  OBVIOUS
<1>5. \A u \in 0 .. n - 1 : g[u] = f[u]
  BY <1>2, <1>3, <1>4
<1>6. ASSUME NEW u \in 0 .. n PROVE DefaultBody(tp, f, u) = DefaultBody(tp, g, u)
  <2>1. u \in TypesIn(tp) /\ \A t \in 0 .. u - 1 : t \in 0 .. n - 1
    BY <1>2
  <2>2. \A t \in 0 .. u - 1 : f[t] = g[t]
    BY <1>5, <2>1
  <2> QED BY <2>1, <2>2, SameBody
<1>7. DefaultUpTo(tp, n, g)
  BY <1>4, <1>6 DEF DefaultUpTo
<1> QED BY <1>1, <1>7

LEMMA DefaultIs ==
  ASSUME NEW tp, PoolMade(tp)
  PROVE  \E f : /\ DefaultUpTo(tp, LastTypeId(tp), f)
                /\ \A t : DefaultFor(tp, t) = f[t]
<1> DEFINE f == CHOOSE g : DefaultUpTo(tp, LastTypeId(tp), g)
<1>1. DefaultUpTo(tp, LastTypeId(tp), f)
  <2>1. LastTypeId(tp) \in TypesIn(tp)
    BY TypeIds0 DEF TypesIn
  <2> QED BY <2>1, DefaultExists
<1>2. \A t : DefaultFor(tp, t) = f[t]
  BY DEF DefaultFor, DefaultUpTo, DefaultBody
<1> QED BY <1>1, <1>2

LEMMA DefaultIsMade ==
  ASSUME NEW tp, PoolMade(tp), NEW t \in TypesIn(tp)
  PROVE  MadeFor(tp, t, DefaultFor(tp, t)) /\ DefaultFor(tp, t).k \in {"SCALAR", "STR", "STRUCT", "CRASH"}
<1>1. PICK f : DefaultUpTo(tp, LastTypeId(tp), f) /\ \A u : DefaultFor(tp, u) = f[u]
  BY DefaultIs
<1>2. \A u \in TypesIn(tp) : f[u] = DefaultBody(tp, f, u)
  <2>1. f = [u \in TypesIn(tp) |-> DefaultBody(tp, f, u)]
    BY <1>1 DEF DefaultUpTo, TypesIn
  <2>2. \A u \in TypesIn(tp) : [x \in TypesIn(tp) |-> DefaultBody(tp, f, x)][u] = DefaultBody(tp, f, u)
    OBVIOUS
  <2> QED BY <2>1, <2>2
<1> DEFINE Wrong == {u \in TypesIn(tp) : ~MadeFor(tp, u, f[u])}
<1>3. Wrong = {}
  <2> SUFFICES ASSUME Wrong # {} PROVE FALSE
    OBVIOUS
  <2>1. PICK u \in Wrong : \A w \in Wrong : u <= w
    <3>1. Wrong \subseteq Nat
      BY TypeIds0
    <3> HIDE DEF Wrong
    <3> QED BY <3>1, LeastElement
  <2>2. PICK fields : fields = Fields(tp, u)
    OBVIOUS
  <2>3. PICK fs : fs = [i \in DOMAIN fields |-> IF fields[i].hasDefault THEN fields[i].default
                                                ELSE f[fields[i].type]]
    OBVIOUS
  <2>4. /\ Len(fields) \in Nat /\ DOMAIN fields = 1 .. Len(fields)
        /\ \A i \in DOMAIN fields : /\ fields[i].type \in TypesIn(tp) /\ fields[i].type < u
                                    /\ fields[i].hasDefault => Made(tp, fields[i].default)
    BY <2>2, FieldsAreSeq
  <2>5. ASSUME NEW i \in DOMAIN fs PROVE Made(tp, fs[i])
    <3>1. fields[i].type \notin Wrong
      BY <2>1, <2>3, <2>4, TypeIds0
    <3> QED BY <2>3, <2>4, <3>1 DEF MadeFor
  <2>6. fs \in Seq({fs[i] : i \in DOMAIN fs}) /\ Len(fs) = Len(fields)
    BY <2>3, <2>4
  <2>7. MadeFor(tp, u, StructObj(u, fs))
    BY <2>2, <2>5, <2>6, StructIsMade
  <2>8. MadeFor(tp, u, Crash)
    BY ConstantsAreMade DEF MadeFor, IsCrash, Crash, Val
  <2>9. MadeFor(tp, u, Scalar(u)) /\ MadeFor(tp, u, StrObj(u))
    BY ConstantsAreMade
  <2>10. f[u] \in {Scalar(u), StrObj(u), StructObj(u, fs), Crash}
    BY <1>2, <2>2, <2>3 DEF DefaultBody
  <2> QED BY <2>7, <2>8, <2>9, <2>10
<1>4. f[t].k \in {"SCALAR", "STR", "STRUCT", "CRASH"}
  <2>1. \A u, fs : StructObj(u, fs).k \in {"STRUCT", "CRASH"} /\ Scalar(u).k = "SCALAR"
                     /\ StrObj(u).k = "STR" /\ Crash.k = "CRASH"
    BY DEF StructObj, Scalar, StrObj, Crash, Val
  <2> QED BY <1>2, <2>1 DEF DefaultBody
<1> QED BY <1>1, <1>3, <1>4

LEMMA ZeroIsMade ==
  ASSUME NEW tp, PoolMade(tp), NEW t \in TypesIn(tp)
  PROVE  MadeFor(tp, t, ZeroFor(tp, t))
<1>1. CASE IsStructType(tp, t)
  <2>1. PICK fields : fields = Fields(tp, t)
    OBVIOUS
  <2>2. PICK fs : fs = [i \in DOMAIN fields |-> DefaultFor(tp, fields[i].type)]
    OBVIOUS
  <2>3. /\ Len(fields) \in Nat /\ DOMAIN fields = 1 .. Len(fields)
        /\ \A i \in DOMAIN fields : fields[i].type \in TypesIn(tp)
    BY <2>1, FieldsAreSeq
  <2>4. \A i \in DOMAIN fs : Made(tp, fs[i])
    BY <2>2, <2>3, DefaultIsMade DEF MadeFor
  <2>5. fs \in Seq({fs[i] : i \in DOMAIN fs}) /\ Len(fs) = Len(fields)
    BY <2>2, <2>3
  <2>6. MadeFor(tp, t, StructObj(t, fs))
    BY <2>1, <2>4, <2>5, StructIsMade
  <2> QED BY <1>1, <2>1, <2>2, <2>6 DEF ZeroFor
<1>2. CASE ~IsStructType(tp, t)
  BY <1>2, DefaultIsMade DEF ZeroFor
<1> QED BY <1>1, <1>2

LEMMA NewSlotIsMade ==
  ASSUME NEW tp, PoolMade(tp), NEW t \in TypesIn(tp)
  PROVE  MadeFor(tp, t, MakeValue(tp, t))
<1>1. CASE HasFields(tp, t)
  <2>1. PICK fields : fields = Fields(tp, t)
    OBVIOUS
  <2>2. PICK fs : fs = [i \in DOMAIN fields |-> IF fields[i].hasDefault THEN fields[i].default ELSE None]
    OBVIOUS
  <2>3. /\ Len(fields) \in Nat /\ DOMAIN fields = 1 .. Len(fields)
        /\ \A i \in DOMAIN fields : fields[i].hasDefault => Made(tp, fields[i].default)
    BY <2>1, FieldsAreSeq
  <2>4. \A i \in DOMAIN fs : Made(tp, fs[i])
    BY <2>2, <2>3, ConstantsAreMade
  <2>5. fs \in Seq({fs[i] : i \in DOMAIN fs}) /\ Len(fs) = Len(fields)
    BY <2>2, <2>3
  <2>6. MadeFor(tp, t, StructObj(t, fs))
    BY <2>1, <2>4, <2>5, StructIsMade
  <2> QED BY <1>1, <2>1, <2>2, <2>6 DEF MakeValue
<1>2. CASE ~HasFields(tp, t)
  BY <1>2, DefaultIsMade DEF MakeValue
<1> QED BY <1>1, <1>2

(***************************************************************************)
(* Conversions.                                                            *)
(***************************************************************************)
LEMMA FieldIndexIs ==
  ASSUME NEW F, NEW fields \in Seq(F), NEW name
  PROVE  FieldIndex(fields, name) # 0 => FieldIndex(fields, name) \in DOMAIN fields
<1> DEFINE hits == {i \in DOMAIN fields : fields[i].name = name}
<1>1. hits \subseteq Nat
  OBVIOUS
<1>2. CASE hits # {}
  <2>1. \E i \in hits : \A j \in hits : i <= j
    <3> HIDE DEF hits
    <3> QED BY <1>1, <1>2, LeastElement
  <2>2. FieldIndex(fields, name) = CHOOSE i \in hits : \A j \in hits : i <= j
    BY <1>2 DEF FieldIndex
  <2>3. FieldIndex(fields, name) \in hits
    <3> HIDE DEF hits
    <3> QED BY <2>1, <2>2
  <2> QED BY <2>3
<1>3. CASE hits = {}
  BY <1>3 DEF FieldIndex
<1> QED BY <1>2, <1>3

\* An object's fields are found by the index of their name in its type.
LEMMA ObjectFieldIsMade ==
  ASSUME NEW tp, PoolMade(tp), NEW v, Made(tp, v), v.k = "STRUCT", NEW name,
         FieldIndex(Fields(tp, v.t), name) # 0
  PROVE  Made(tp, v.fs[FieldIndex(Fields(tp, v.t), name)])
<1>1. PICK fields : fields = Fields(tp, v.t)
  OBVIOUS
<1>2. PICK i : i = FieldIndex(fields, name)
  OBVIOUS
<1>3. v.t \in TypesIn(tp)
  BY MadeIs
<1>4. \E F : fields \in Seq(F)
  BY <1>1, <1>3, FieldsAreOlder DEF FieldsMade
<1>5. i \in DOMAIN fields
  BY <1>1, <1>2, <1>4, FieldIndexIs
<1>6. DOMAIN v.fs = DOMAIN fields
  <2>1. (\E S : v.fs \in Seq(S)) /\ Len(v.fs) = Len(fields)
    BY <1>1, MadeIs
  <2> QED BY <1>4, <2>1
<1> QED BY <1>1, <1>2, <1>5, <1>6, MadeIs

LEMMA TextIsMade ==
  ASSUME NEW tp, PoolMade(tp)
  PROVE  MadeFor(tp, TyString, StructObj(TyString, <<StrObj(TyCstr), Scalar(TyUsize)>>))
<1>1. PICK a, b : a = StrObj(TyCstr) /\ b = Scalar(TyUsize)
  OBVIOUS
<1>2. TyString \in TypesIn(tp) /\ TyCstr \in TypesIn(tp) /\ TyUsize \in TypesIn(tp)
  BY TypeIds0 DEF TyString, TyCstr, TyUsize
<1>3. Made(tp, a) /\ Made(tp, b)
  BY <1>1, <1>2, ConstantsAreMade DEF MadeFor
<1>4. Len(Fields(tp, TyString)) = 2
  BY DEF Fields, StringFields, TyString
<1>5. <<a, b>> \in Seq({a, b}) /\ Len(<<a, b>>) = 2 /\ \A i \in DOMAIN <<a, b>> : <<a, b>>[i] \in {a, b}
  OBVIOUS
<1> QED BY <1>1, <1>2, <1>3, <1>4, <1>5, StructIsMade

LEMMA ImplicitIsMade ==
  ASSUME NEW tp, PoolMade(tp), NEW to \in TypesIn(tp), NEW v, Made(tp, v)
  PROVE  LET w == ImplicitCast(tp, to, v) IN Made(tp, w) /\ (IsBad(w) \/ MadeFor(tp, to, w))
<1>1. IsBad(Bad) /\ Made(tp, Bad)
  BY ConstantsAreMade DEF IsBad, Bad, Val
<1>2. TypeOf(v) = to => MadeFor(tp, to, v)
  BY DEF MadeFor
<1>3. MadeFor(tp, to, Scalar(to)) /\ MadeFor(tp, to, StrObj(to))
  BY ConstantsAreMade
<1>4. to = TyString => MadeFor(tp, to, StructObj(to, <<StrObj(TyCstr), Scalar(TyUsize)>>))
  BY TextIsMade
<1>5. \A w : MadeFor(tp, to, w) => Made(tp, w)
  BY DEF MadeFor
<1>6. PICK w : w = ImplicitCast(tp, to, v)
  OBVIOUS
<1>7. w = Bad \/ MadeFor(tp, to, w)
  BY <1>2, <1>3, <1>4, <1>6 DEF ImplicitCast
<1> QED BY <1>1, <1>5, <1>6, <1>7

LEMMA NoStructs == \A tp : ~IsStructType(tp, TyCstr) /\ ~IsStructType(tp, TyAuto)
BY DEF IsStructType, Kind, BuiltinKind, TyCstr, TyString, TyInt, UintBase, BitLimit, TyType, TyUnknown,
       TyUntypedInt, TyFloat, TyUntypedFloat, TyAuto, TyVoid, TyUntypedStr

LEMMA DefaultOfStruct ==
  ASSUME NEW tp, PoolMade(tp), NEW t \in TypesIn(tp), IsStructType(tp, t)
  PROVE  DefaultFor(tp, t).k \in {"STRUCT", "CRASH"}
<1>1. PICK f : DefaultUpTo(tp, LastTypeId(tp), f) /\ \A u : DefaultFor(tp, u) = f[u]
  BY DefaultIs
<1>2. f[t] = DefaultBody(tp, f, t)
  <2>1. f = [u \in TypesIn(tp) |-> DefaultBody(tp, f, u)]
    BY <1>1 DEF DefaultUpTo, TypesIn
  <2>2. \A u \in TypesIn(tp) : [x \in TypesIn(tp) |-> DefaultBody(tp, f, x)][u] = DefaultBody(tp, f, u)
    OBVIOUS
  <2> QED BY <2>1, <2>2
<1>3. ~IsNumber(tp, t)
  BY DEF IsNumber, IsInteger, IsFloat, IsStructType
<1>4. t # TyCstr
  BY NoStructs
<1>5. \A u, fs : StructObj(u, fs).k \in {"STRUCT", "CRASH"}
  BY DEF StructObj, Crash, Val
<1> QED BY <1>1, <1>2, <1>3, <1>4, <1>5 DEF DefaultBody

\* The conversion of an anonymous literal makes an object of the type asked for.
LEMMA AutoCastIsMade ==
  ASSUME NEW tp, PoolMade(tp), NEW to \in TypesIn(tp), IsStructType(tp, to), NEW v, NEW cast,
         \A i \in DOMAIN Fields(tp, to) : Giver(tp, to, v, i) # 0 => Made(tp, cast[i])
  PROVE  MadeFor(tp, to, CastAutoStruct(tp, to, v, cast))
<1>1. PICK start : start = DefaultFor(tp, to)
  OBVIOUS
<1>2. Made(tp, start)
  BY <1>1, DefaultIsMade DEF MadeFor
<1>3. CASE IsCrash(start)
  <2>1. CastAutoStruct(tp, to, v, cast) = Crash
    BY <1>1, <1>3 DEF CastAutoStruct
  <2> QED BY <2>1, ConstantsAreMade DEF MadeFor, IsCrash, Crash, Val
<1>4. CASE ~IsCrash(start)
  <2>1. start.k = "STRUCT"
    BY <1>1, <1>4, DefaultOfStruct DEF IsCrash
  <2>2. start.t = to
    BY <1>1, <1>4, <2>1, DefaultIsMade DEF MadeFor, TypeOf
  <2>3. PICK fields : fields = Fields(tp, to)
    OBVIOUS
  <2>4. Len(fields) \in Nat /\ DOMAIN fields = 1 .. Len(fields)
    BY <2>3, FieldsAreSeq
  <2>5. DOMAIN start.fs = DOMAIN fields /\ \A i \in DOMAIN start.fs : Made(tp, start.fs[i])
    <3>1. (\E S : start.fs \in Seq(S)) /\ Len(start.fs) = Len(fields)
      BY <1>2, <2>1, <2>2, <2>3, MadeIs
    <3> QED BY <1>2, <2>4, <3>1, MadeIs
  <2>6. PICK fs : fs = [i \in DOMAIN fields |-> IF Giver(tp, to, v, i) = 0 THEN start.fs[i] ELSE cast[i]]
    OBVIOUS
  <2>7. \A i \in DOMAIN fs : Made(tp, fs[i])
    BY <2>3, <2>5, <2>6
  <2>8. fs \in Seq({fs[i] : i \in DOMAIN fs}) /\ Len(fs) = Len(fields)
    BY <2>4, <2>6
  <2>9. MadeFor(tp, to, StructObj(to, fs))
    BY <2>3, <2>7, <2>8, StructIsMade
  <2> QED BY <1>1, <1>4, <2>3, <2>6, <2>9 DEF CastAutoStruct
<1> QED BY <1>3, <1>4

\* A conversion that succeeds makes a value of the type asked for, except to
\* `auto`, which leaves the value as it is, and to cstr, which takes a
\* string's pointer and the field `ptr` of any other struct.
LEMMA CastIsMade ==
  ASSUME NEW tp, PoolMade(tp), NEW to \in TypesIn(tp), NEW v, Made(tp, v), NEW cast,
         v.k = "STRUCT" =>
           \A i \in DOMAIN Fields(tp, to) : Giver(tp, to, v, i) # 0 => Made(tp, cast[i])
  PROVE  LET w == CastWith(tp, to, v, cast)
         IN  /\ Made(tp, w)
             /\ to \notin {TyAuto, TyCstr} => IsBad(w) \/ MadeFor(tp, to, w)
<1> DEFINE OK(w) == /\ Made(tp, w)
                    /\ to \notin {TyAuto, TyCstr} => IsBad(w) \/ MadeFor(tp, to, w)
<1>1. OK(Bad) /\ OK(Crash)
  BY ConstantsAreMade DEF IsBad, Bad, Crash, IsCrash, MadeFor, Val
<1>2. \A w : MadeFor(tp, to, w) => OK(w)
  BY DEF MadeFor
<1>3. OK(Scalar(to)) /\ OK(StrObj(to)) /\ OK(Runtime(to))
  BY <1>2, ConstantsAreMade
<1>4. to = TyString => OK(StructObj(to, <<StrObj(TyCstr), Scalar(TyUsize)>>))
  BY <1>2, TextIsMade
<1>5. OK(DefaultFor(tp, to)) /\ OK(ZeroFor(tp, to))
  BY <1>2, DefaultIsMade, ZeroIsMade
<1>6. ASSUME v.k = "STRUCT", to = TyCstr, NEW i, i = FieldIndex(Fields(tp, v.t), "ptr"), i # 0
      PROVE  OK(v.fs[i])
  BY <1>6, ObjectFieldIsMade
<1>7. v.k = "STRUCT" /\ IsStructType(tp, to) => OK(CastAutoStruct(tp, to, v, cast))
  BY <1>2, AutoCastIsMade
<1>8. to = TyAuto => OK(v)
  OBVIOUS
<1>9. IsBad(v) => OK(v)
  OBVIOUS
<1>10. OK(ImplicitCast(tp, to, v))
  BY ImplicitIsMade
<1> HIDE DEF OK
<1>11. OK(ExplicitCast(tp, to, v, cast))
  BY <1>1, <1>3, <1>4, <1>5, <1>6, <1>7 DEF ExplicitCast
<1>12. OK(CastWith(tp, to, v, cast))
  BY <1>1, <1>3, <1>8, <1>9, <1>10, <1>11 DEF CastWith
<1> QED BY <1>12 DEF OK

LEMMA ValueCastIsMade ==
  ASSUME NEW tp, PoolMade(tp), NEW to \in TypesIn(tp), NEW v, Made(tp, v)
  PROVE  LET w == ValueCast(tp, to, v)
         IN  /\ Made(tp, w)
             /\ to \notin {TyAuto, TyCstr} => IsBad(w) \/ MadeFor(tp, to, w)
<1>1. ASSUME NEW t \in TypesIn(tp), NEW u, Made(tp, u) PROVE Made(tp, CastFlat(tp, t, u))
  <2>1. \A i \in DOMAIN Fields(tp, t) : Made(tp, [j \in DOMAIN Fields(tp, t) |-> Bad][i])
    BY ConstantsAreMade
  <2> QED BY <1>1, <2>1, CastIsMade DEF CastFlat
<1>2. ASSUME NEW t \in TypesIn(tp), NEW u, Made(tp, u), u.k = "STRUCT",
             NEW i \in DOMAIN Fields(tp, t), Giver(tp, t, u, i) # 0
      PROVE  Made(tp, u.fs[Giver(tp, t, u, i)]) /\ Fields(tp, t)[i].type \in TypesIn(tp)
  BY <1>2, ObjectFieldIsMade, FieldsAreSeq DEF Giver
<1>3. ASSUME NEW t \in TypesIn(tp), NEW u, Made(tp, u) PROVE Made(tp, CastNested(tp, t, u))
  <2>1. PICK cast : cast = [i \in DOMAIN Fields(tp, t) |->
                              CastFlat(tp, Fields(tp, t)[i].type, u.fs[Giver(tp, t, u, i)])]
    OBVIOUS
  <2>2. u.k = "STRUCT" => \A i \in DOMAIN Fields(tp, t) : Giver(tp, t, u, i) # 0 => Made(tp, cast[i])
    BY <1>1, <1>2, <1>3, <2>1
  <2> QED BY <1>3, <2>1, <2>2, CastIsMade DEF CastNested
<1>4. PICK cast : cast = [i \in DOMAIN Fields(tp, to) |->
                            CastNested(tp, Fields(tp, to)[i].type, v.fs[Giver(tp, to, v, i)])]
  OBVIOUS
<1>5. v.k = "STRUCT" => \A i \in DOMAIN Fields(tp, to) : Giver(tp, to, v, i) # 0 => Made(tp, cast[i])
  BY <1>2, <1>3, <1>4
<1> QED BY <1>4, <1>5, CastIsMade DEF ValueCast

\* value_coerce answers an error or a value of the slot's type.
LEMMA CoerceIsMade ==
  ASSUME NEW tp, PoolMade(tp), NEW to \in TypesIn(tp), NEW v, Made(tp, v)
  PROVE  LET w == Coerce(tp, to, v) IN Made(tp, w) /\ (IsBad(w) \/ MadeFor(tp, to, w))
<1> DEFINE OK(w) == Made(tp, w) /\ (IsBad(w) \/ MadeFor(tp, to, w))
<1>1. OK(Bad) /\ OK(Crash)
  BY ConstantsAreMade DEF IsBad, Bad, Crash, IsCrash, MadeFor, Val
<1>2. OK(ImplicitCast(tp, to, v))
  BY ImplicitIsMade
<1>3. OK(DefaultFor(tp, to)) /\ OK(ZeroFor(tp, to))
  BY DefaultIsMade, ZeroIsMade DEF MadeFor
<1>4. IsStructType(tp, to) => OK(ValueCast(tp, to, v))
  <2>1. IsStructType(tp, to) => to \notin {TyAuto, TyCstr}
    BY NoStructs
  <2> QED BY <2>1, ValueCastIsMade
<1> HIDE DEF OK
<1>5. OK(Coerce(tp, to, v))
  BY <1>1, <1>2, <1>3, <1>4 DEF Coerce
<1> QED BY <1>5 DEF OK

(***************************************************************************)
(* The values of a state.                                                  *)
(***************************************************************************)
\* An anonymous literal whose type is not made yet collects its fields in a
\* value of no type.
Collects(f) == /\ Node(f.node).kind = "STRUCT_LITERAL"
               /\ f.ty = TyAuto /\ f.pc \in {"next", "item"}

FrameMade(tp, f) ==
  /\ f.exp \in TypesIn(tp) /\ f.ty \in TypesIn(tp) /\ f.save \in TypesIn(tp)
  /\ f.j \in Nat \ {0}
  /\ FieldsMade(tp, NextTypeId(tp), f.fields)
  /\ IF Collects(f)
     THEN /\ f.val = Val("STRUCT", NoType, f.val.fs)
          /\ \E S : f.val.fs \in Seq(S)
          /\ \A i \in DOMAIN f.val.fs : Made(tp, f.val.fs[i])
          /\ Len(f.val.fs) = Len(f.fields)
     ELSE Made(tp, f.val)
  /\ Node(f.node).kind = "STRUCT_LITERAL" /\ f.pc = "value" =>
       f.ty # TyAuto /\ f.j - 1 \in DOMAIN Fields(tp, f.ty)
  /\ Node(f.node).kind = "STRUCT_LITERAL" /\ f.pc \in {"enter", "to"} => f.fields = <<>>
  /\ Node(f.node).kind = "STRUCT_LITERAL" /\ f.pc = "item" => f.ty = TyAuto

\* A declared symbol has a value of its type, unless it is a function, a
\* parameter or a declaration that failed.
SymbolMade(tp, s) ==
  /\ s.level \in Levels /\ s.type \in TypesIn(tp) /\ Made(tp, s.value)
  /\ s.level = Declared => s.value = Uninit \/ IsBad(s.value) \/ TypeOf(s.value) = s.type

SymbolsMade ==
  \A k \in DOMAIN scopes : \A x \in DOMAIN scopes[k].sym : SymbolMade(types, scopes[k].sym[x])

NodesMade ==
  /\ DOMAIN folded = Nodes /\ \A n \in Nodes : Made(types, folded[n])
  /\ DOMAIN hint = Nodes /\ \A n \in Nodes : hint[n] \in TypesIn(types)

ControlMade == ctl.op \in {"call", "go", "return"} /\ Made(types, ctl.val) /\ ctl.exp \in TypesIn(types)
FramesMade  == \A i \in DOMAIN stack : FrameMade(types, stack[i])
RestMade    == /\ retType \in TypesIn(types) /\ threshold \in TyString .. LastTypeId(types)
               /\ hadError \in BOOLEAN

ValueInv == PoolMade(types) /\ ControlMade /\ NodesMade /\ SymbolsMade /\ FramesMade /\ RestMade

LEMMA SamePool == ASSUME NEW tp, PoolMade(tp) PROVE Grows(tp, tp)
BY TypeIds0 DEF Grows

LEMMA FrameLater ==
  ASSUME NEW tp, PoolMade(tp), NEW new, Grows(tp, new), NEW f, FrameMade(tp, f)
  PROVE  FrameMade(new, f)
<1>1. FieldsMade(new, NextTypeId(new), f.fields)
  <2>1. PICK a \in Nat, b \in Nat : a = LastTypeId(tp) /\ b = LastTypeId(new) /\ a <= b
    BY TypeIds0 DEF Grows
  <2>2. NextTypeId(tp) = a + 1 /\ NextTypeId(new) = b + 1
    BY <2>1, TypeIds0 DEF NextTypeId, LastTypeId, Grows, TyString
  <2>3. 0 .. NextTypeId(tp) - 1 \subseteq 0 .. NextTypeId(new) - 1
    BY <2>1, <2>2
  <2> QED BY <2>3 DEF FrameMade, FieldsMade, FieldMade, Grows
<1>2. Fields(new, f.ty) = Fields(tp, f.ty)
  BY DEF FrameMade, Grows
<1> QED BY <1>1, <1>2 DEF FrameMade, Grows

LEMMA SymbolLater ==
  ASSUME NEW tp, NEW new, Grows(tp, new), NEW s, SymbolMade(tp, s)
  PROVE  SymbolMade(new, s)
BY DEF SymbolMade, Grows

\* What a step has to establish: it drops or replaces the running frame, and
\* whatever it writes is well made.
LEMMA Assembled ==
  ASSUME ValueInv, Shape, stack # <<>>, UNCHANGED prog, Grows(types, types'),
         \/ stack' = Below
         \/ \E f : FrameMade(types', f) /\ stack' = Append(Below, f),
         ControlMade', SymbolsMade',
         \/ folded' = folded
         \/ \E n, v : Made(types', v) /\ folded' = [folded EXCEPT ![n] = v],
         \/ hint' = hint
         \/ \E n, t : t \in TypesIn(types') /\ hint' = [hint EXCEPT ![n] = t],
         RestMade'
  PROVE  ValueInv'
<1>1. PoolMade(types')
  BY DEF Grows
<1>2. Nodes' = Nodes
  BY DEF Nodes
<1>3. DOMAIN folded' = Nodes /\ \A n \in Nodes : Made(types', folded'[n])
  <2>1. \A n \in Nodes : Made(types', folded[n])
    BY DEF ValueInv, NodesMade, Grows
  <2> QED BY <2>1 DEF ValueInv, NodesMade
<1>4. DOMAIN hint' = Nodes /\ \A n \in Nodes : hint'[n] \in TypesIn(types')
  BY DEF ValueInv, NodesMade, Grows
<1>5. NodesMade'
  BY <1>2, <1>3, <1>4 DEF NodesMade
<1>6. ASSUME NEW f PROVE FrameMade(types, f)' <=> FrameMade(types', f)
  BY DEF FrameMade, Collects, Node
<1>7. \A i \in DOMAIN stack : FrameMade(types', stack[i])
  BY FrameLater DEF ValueInv, FramesMade
<1>8. \A i \in DOMAIN stack' : FrameMade(types', stack'[i])
  <2>1. CASE stack' = Below
    <3>1. DOMAIN stack' \subseteq DOMAIN stack /\ \A i \in DOMAIN stack' : stack'[i] = stack[i]
      BY <2>1, Dropped DEF Shape
    <3> QED BY <1>7, <3>1
  <2>2. ASSUME NEW f, FrameMade(types', f), stack' = Append(Below, f)
        PROVE  \A i \in DOMAIN stack' : FrameMade(types', stack'[i])
    <3>1. /\ DOMAIN stack' = DOMAIN stack
          /\ stack'[Len(stack)] = f
          /\ \A i \in DOMAIN stack : i # Len(stack) => stack'[i] = stack[i]
      BY <2>2, Replaced DEF Shape
    <3> QED BY <1>7, <2>2, <3>1
  <2> QED BY <2>1, <2>2
<1>9. FramesMade'
  <2>1. ASSUME NEW i \in DOMAIN stack' PROVE FrameMade(types, stack[i])'
    <3>1. PICK f : f = stack'[i]
      OBVIOUS
    <3>2. FrameMade(types', f)
      BY <1>8, <3>1
    <3> QED BY <3>1, <3>2 DEF FrameMade, Collects, Node
  <2> QED BY <2>1 DEF FramesMade
<1> QED BY <1>1, <1>5, <1>9 DEF ValueInv

\* The same with the pool and the scopes as they are.
LEMMA AssembledQuietly ==
  ASSUME ValueInv, Shape, stack # <<>>,
         UNCHANGED <<prog, types, scopes, threshold, retType>>, hadError' \in BOOLEAN,
         \/ stack' = Below
         \/ \E f : FrameMade(types, f) /\ stack' = Append(Below, f),
         ctl'.op \in {"call", "go", "return"}, Made(types, ctl'.val), ctl'.exp \in TypesIn(types),
         \/ folded' = folded
         \/ \E n, v : Made(types, v) /\ folded' = [folded EXCEPT ![n] = v],
         \/ hint' = hint
         \/ \E n, t : t \in TypesIn(types) /\ hint' = [hint EXCEPT ![n] = t]
  PROVE  ValueInv'
<1>1. Grows(types, types')
  BY SamePool DEF ValueInv
<1>2. ControlMade'
  BY DEF ControlMade
<1>3. SymbolsMade'
  BY DEF ValueInv, SymbolsMade
<1>4. RestMade'
  BY DEF ValueInv, RestMade
<1> QED BY <1>1, <1>2, <1>3, <1>4, Assembled

LEMMA NoTypeIsThere == ASSUME ValueInv PROVE NoType \in TypesIn(types) /\ Made(types, None)
BY TypeIds0, ConstantsAreMade DEF ValueInv, NoType, TyString

LEMMA VisitKeeps ==
  ASSUME ValueInv, Shape, stack # <<>>, NEW f, FrameMade(types, f), NEW kid,
         NEW exp \in TypesIn(types), Visit(f, kid, exp)
  PROVE  ValueInv'
<1>1. /\ UNCHANGED <<prog, types, scopes, threshold, retType, folded, hint, hadError>>
      /\ stack' = Append(Below, f) /\ ctl' = Call(kid, exp)
  BY DEF Visit, Driver
<1>2. ctl'.op = "call" /\ ctl'.val = None /\ ctl'.exp = exp
  BY <1>1 DEF Call, Control
<1>3. hadError' \in BOOLEAN
  BY <1>1 DEF ValueInv, RestMade
<1> QED BY <1>1, <1>2, <1>3, NoTypeIsThere, AssembledQuietly

LEMMA GoIs == Go.op = "go" /\ Go.val = None /\ Go.exp = NoType
BY DEF Go, Control

LEMMA ReturnedIs == \A v : Returned(v).op = "return" /\ Returned(v).val = v /\ Returned(v).exp = NoType
BY DEF Returned, Control

LEMMA ContinueKeeps ==
  ASSUME ValueInv, Shape, stack # <<>>, NEW f, NEW g, g = [f EXCEPT !.pc = "next"],
         FrameMade(types, g), NEW report \in BOOLEAN, Continue(f, report)
  PROVE  ValueInv'
<1>1. /\ UNCHANGED <<prog, types, scopes, threshold, retType, folded, hint>>
      /\ stack' = Append(Below, g) /\ ctl' = Go
      /\ hadError' = (hadError \/ report)
  BY DEF Continue, Loop, Driver
<1>2. ctl'.op = "go" /\ ctl'.val = None /\ ctl'.exp = NoType
  BY <1>1, GoIs
<1>3. hadError' \in BOOLEAN
  BY <1>1 DEF ValueInv, RestMade
<1> QED BY <1>1, <1>2, <1>3, NoTypeIsThere, AssembledQuietly

LEMMA YieldKeeps ==
  ASSUME ValueInv, Shape, stack # <<>>, NEW v, Made(types, v), Yield(v)
  PROVE  ValueInv'
<1>1. /\ UNCHANGED <<prog, types, scopes, threshold, retType, folded, hint, hadError>>
      /\ stack' = Below /\ ctl' = Returned(v)
  BY DEF Yield, Return, Driver
<1>2. hadError' \in BOOLEAN
  BY <1>1 DEF ValueInv, RestMade
<1> QED BY <1>1, <1>2, ReturnedIs, NoTypeIsThere, AssembledQuietly

LEMMA BailKeeps ==
  ASSUME ValueInv, Shape, stack # <<>>, Bail
  PROVE  ValueInv'
<1>1. /\ UNCHANGED <<prog, types, scopes, threshold, retType, folded, hint>>
      /\ stack' = Below /\ ctl' = Returned(Bad) /\ hadError' = TRUE
  BY DEF Bail, Return, Driver
<1>2. Made(types, Bad)
  BY ConstantsAreMade DEF ValueInv
<1> QED BY <1>1, <1>2, ReturnedIs, NoTypeIsThere, AssembledQuietly

LEMMA InjectKeeps ==
  ASSUME ValueInv, Shape, stack # <<>>, NEW v, Made(types, v), Inject(v)
  PROVE  ValueInv'
<1>1. CASE v.k \in {"NONE", "CRASH"}
  BY <1>1, YieldKeeps, ConstantsAreMade DEF Inject, ValueInv
<1>2. CASE v.k \notin {"NONE", "CRASH"}
  <2>1. /\ UNCHANGED <<prog, types, scopes, threshold, retType, hint, hadError>>
        /\ stack' = Below /\ ctl' = Returned(v)
        /\ folded' = [folded EXCEPT ![Top.node] = v]
    BY <1>2 DEF Inject, Return, Driver
  <2>2. hadError' \in BOOLEAN
    BY <2>1 DEF ValueInv, RestMade
  <2> QED BY <2>1, <2>2, ReturnedIs, NoTypeIsThere, AssembledQuietly
<1> QED BY <1>1, <1>2

LEMMA NewTypeKeeps ==
  ASSUME ValueInv, Shape, stack # <<>>, NEW info, FieldsMade(types, NextTypeId(types), info.fields),
         NEW v, Made(Append(types, info), v), InjectNewType(info, v)
  PROVE  ValueInv'
<1>1. /\ types' = Append(types, info)
      /\ UNCHANGED <<prog, scopes, threshold, retType, hint, hadError>>
      /\ stack' = Below /\ ctl' = Returned(v)
      /\ folded' = [folded EXCEPT ![Top.node] = v]
  BY DEF InjectNewType, Return, Driver
<1>2. PICK new : new = Append(types, info)
  OBVIOUS
<1>3. Grows(types, new)
  BY <1>2, PoolGrows DEF ValueInv
<1>4. ControlMade'
  <2>1. NoType \in TypesIn(new)
    BY <1>3, NoTypeIsThere DEF Grows
  <2> QED BY <1>1, <1>2, <2>1, ReturnedIs DEF ControlMade
<1>5. SymbolsMade'
  BY <1>1, <1>2, <1>3, SymbolLater DEF ValueInv, SymbolsMade
<1>6. RestMade'
  <2>1. PICK a \in Nat, b \in Nat : a = LastTypeId(types) /\ b = LastTypeId(new) /\ a <= b
    BY <1>3, TypeIds0 DEF Grows, ValueInv
  <2>2. \A x \in TyString .. a : x \in TyString .. b
    BY <2>1 DEF TyString
  <2> QED BY <1>1, <1>2, <1>3, <2>1, <2>2 DEF ValueInv, RestMade, Grows
<1> QED BY <1>1, <1>2, <1>3, <1>4, <1>5, <1>6, Assembled

(***************************************************************************)
(* The handlers of expressions.                                            *)
(***************************************************************************)
Sound == ValueInv /\ Shape /\ stack # <<>>

LEMMA TopIs ==
  ASSUME Sound
  PROVE  /\ DOMAIN Top = FrameFields /\ FrameMade(types, Top)
         /\ Top.node \in Nodes /\ Top.i \in Nat \ {0}
<1>1. Len(stack) \in DOMAIN stack
  BY StackLength DEF Sound, Shape
<1> QED BY <1>1 DEF Sound, Shape, StackOK, FrameOK, ValueInv, FramesMade, Top

\* The running frame with another value or type, of any node but a struct
\* literal.
LEMMA FrameChanged ==
  ASSUME Sound, This.kind # "STRUCT_LITERAL", NEW g,
         g.node = Top.node, g.exp = Top.exp, g.save \in {Top.save, retType}, g.j = Top.j,
         g.fields = Top.fields, g.ty \in TypesIn(types), Made(types, g.val)
  PROVE  FrameMade(types, g)
<1>1. FrameMade(types, Top) /\ retType \in TypesIn(types)
  BY TopIs DEF Sound, ValueInv, RestMade
<1> QED BY <1>1 DEF FrameMade, Collects, This

LEMMA TopVal == ASSUME Sound, This.kind # "STRUCT_LITERAL" PROVE Made(types, Top.val)
BY TopIs DEF FrameMade, Collects, This

\* The running frame waits at another point.
LEMMA FrameWaits ==
  ASSUME Sound, This.kind # "STRUCT_LITERAL", NEW p
  PROVE  FrameMade(types, [Top EXCEPT !.pc = p])
<1>1. PICK g : g = [Top EXCEPT !.pc = p]
  OBVIOUS
<1>2. /\ g.node = Top.node /\ g.exp = Top.exp /\ g.save = Top.save /\ g.j = Top.j
      /\ g.fields = Top.fields /\ g.ty = Top.ty /\ g.val = Top.val
  BY <1>1, TopIs DEF FrameFields
<1> QED BY <1>1, <1>2, FrameChanged, TopIs, TopVal DEF FrameMade

LEMMA FrameWaitsWith ==
  ASSUME Sound, This.kind # "STRUCT_LITERAL", NEW p, NEW v, Made(types, v)
  PROVE  FrameMade(types, [Top EXCEPT !.pc = p, !.val = v])
<1>1. PICK g : g = [Top EXCEPT !.pc = p, !.val = v]
  OBVIOUS
<1>2. /\ g.node = Top.node /\ g.exp = Top.exp /\ g.save = Top.save /\ g.j = Top.j
      /\ g.fields = Top.fields /\ g.ty = Top.ty /\ g.val = v
  BY <1>1, TopIs DEF FrameFields
<1> QED BY <1>1, <1>2, FrameChanged, TopIs DEF FrameMade

LEMMA FrameWaitsAs ==
  ASSUME Sound, This.kind # "STRUCT_LITERAL", NEW p, NEW t \in TypesIn(types)
  PROVE  FrameMade(types, [Top EXCEPT !.pc = p, !.ty = t])
<1>1. PICK g : g = [Top EXCEPT !.pc = p, !.ty = t]
  OBVIOUS
<1>2. /\ g.node = Top.node /\ g.exp = Top.exp /\ g.save = Top.save /\ g.j = Top.j
      /\ g.fields = Top.fields /\ g.ty = t /\ g.val = Top.val
  BY <1>1, TopIs DEF FrameFields
<1> QED BY <1>1, <1>2, FrameChanged, TopIs, TopVal DEF FrameMade

\* What the handlers start from: the value a call returned and the types.
LEMMA Given ==
  ASSUME Sound
  PROVE  /\ PoolMade(types) /\ Made(types, ctl.val)
         /\ ctl.val.t \in TypesIn(types) /\ TypeOf(ctl.val) \in TypesIn(types)
         /\ Top.exp \in TypesIn(types) /\ Top.ty \in TypesIn(types)
         /\ NoType \in TypesIn(types) /\ TyAuto \in TypesIn(types) /\ TyVoid \in TypesIn(types)
         /\ TyUntypedInt \in TypesIn(types) /\ TyUntypedFloat \in TypesIn(types)
         /\ TyUntypedStr \in TypesIn(types) /\ TyZero \in TypesIn(types)
         /\ TyFloat \in TypesIn(types)
<1>1. PoolMade(types) /\ Made(types, ctl.val)
  BY DEF Sound, ValueInv, ControlMade
<1>2. ctl.val.t \in TypesIn(types)
  BY <1>1, MadeIs
<1>3. 0 .. TyString \subseteq TypesIn(types)
  BY <1>1, TypeIds0
<1>4. \A t \in {NoType, TyAuto, TyVoid, TyUntypedInt, TyUntypedFloat, TyUntypedStr, TyZero, TyFloat,
                TyUnknown, TyType} : t \in 0 .. TyString
  BY DEF NoType, TyAuto, TyVoid, TyUntypedInt, TyUntypedFloat, TyUntypedStr, TyZero, TyFloat,
         TyUnknown, TyType, TyString
<1>5. TypeOf(ctl.val) \in TypesIn(types)
  BY <1>2, <1>3, <1>4 DEF TypeOf
<1>6. Top.exp \in TypesIn(types) /\ Top.ty \in TypesIn(types)
  BY TopIs DEF FrameMade
<1> QED BY <1>1, <1>2, <1>3, <1>4, <1>5, <1>6

LEMMA TypeOfMade ==
  ASSUME NEW tp, PoolMade(tp), NEW v, Made(tp, v)
  PROVE  TypeOf(v) \in TypesIn(tp)
<1>1. v.t \in TypesIn(tp) /\ 0 .. TyString \subseteq TypesIn(tp)
  BY MadeIs, TypeIds0
<1>2. \A t \in {TyZero, TyUnknown, TyType} : t \in 0 .. TyString
  BY DEF TyZero, TyUnknown, TyType, TyString
<1> QED BY <1>1, <1>2 DEF TypeOf

LEMMA SoundIs == ASSUME ValueInv, Shape, NEW kind, NEW pc, At(kind, pc)
                 PROVE  Sound /\ This.kind = kind /\ Top.pc = pc
BY DEF Sound, At

LEMMA LiteralKeeps ==
  ASSUME ValueInv, Shape,
         \/ AnalyzeIntegerLit \/ AnalyzeFloatLit \/ AnalyzeStringLit
         \/ \E kind \in {"INT_BITS", "UINT_BITS"} : AnalyzeBits(kind)
         \/ \E kind \in TypeKeywords : AnalyzeTypeKeyword(kind)
  PROVE  ValueInv'
<1>1. Sound
  BY SoundIs DEF AnalyzeIntegerLit, AnalyzeFloatLit, AnalyzeStringLit, AnalyzeBits, AnalyzeTypeKeyword
<1>2. \A v : Made(types, v) /\ Inject(v) => ValueInv'
  BY <1>1, InjectKeeps DEF Sound
<1>3. Bail => ValueInv'
  BY <1>1, BailKeeps DEF Sound
<1>4. /\ Made(types, Zero)
      /\ \A t \in TypesIn(types) : /\ Made(types, Scalar(t)) /\ Made(types, StrObj(t))
                                   /\ Made(types, TypeVal(t))
  BY <1>1, Given, ConstantsAreMade DEF MadeFor
<1>5. CASE AnalyzeIntegerLit
  BY <1>1, <1>2, <1>4, <1>5, Given DEF AnalyzeIntegerLit
<1>6. CASE AnalyzeFloatLit \/ AnalyzeStringLit
  BY <1>1, <1>2, <1>4, <1>6, Given DEF AnalyzeFloatLit, AnalyzeStringLit
<1>7. ASSUME NEW kind \in {"INT_BITS", "UINT_BITS"}, AnalyzeBits(kind) PROVE ValueInv'
  <2>1. ASSUME This.data \in 1 .. BitLimit PROVE IntType(This.data) \in TypesIn(types)
    <3>1. IntType(This.data) \in 0 .. TyString
      BY <2>1 DEF BitLimit, IntType, UintBase, TyString
    <3> QED BY <1>1, <3>1, Given, TypeIds0
  <2> QED BY <1>2, <1>3, <1>4, <1>7, <2>1 DEF AnalyzeBits
<1>8. ASSUME NEW kind \in TypeKeywords, AnalyzeTypeKeyword(kind) PROVE ValueInv'
  <2>1. TypeOfKeyword[kind] \in 0 .. TyString
    BY DEF TypeKeywords, TypeOfKeyword, TyInt, TyUint, UintBase, TyFloat, TyString, TyCstr, TyUsize,
           TyVoid, TyAuto, TyType
  <2>2. TypeOfKeyword[kind] \in TypesIn(types)
    BY <1>1, <2>1, Given, TypeIds0
  <2> QED BY <1>2, <1>4, <1>8, <2>2 DEF AnalyzeTypeKeyword
<1> QED BY <1>5, <1>6, <1>7, <1>8

LEMMA GroupingKeeps == ASSUME ValueInv, Shape, AnalyzeGrouping PROVE ValueInv'
<1>1. Sound /\ This.kind = "GROUPING"
  BY SoundIs DEF AnalyzeGrouping
<1> QED BY <1>1, FrameWaits, Given, VisitKeeps, YieldKeeps DEF Sound, AnalyzeGrouping

LEMMA DistinctKeeps == ASSUME ValueInv, Shape, AnalyzeDistinct PROVE ValueInv'
<1>1. Sound /\ This.kind = "DISTINCT"
  BY SoundIs DEF AnalyzeDistinct
<1>2. CASE At("DISTINCT", "enter") /\ Visit([Top EXCEPT !.pc = "child"], Kid(1), Top.exp)
  BY <1>1, <1>2, FrameWaits, Given, VisitKeeps DEF Sound
<1>3. CASE InjectNewType(TypeInfo(types, ctl.val.t), TypeVal(NextTypeId(types)))
  <2>1. PICK info : info = TypeInfo(types, ctl.val.t)
    OBVIOUS
  <2>2. info.fields = Fields(types, ctl.val.t)
    BY <2>1 DEF TypeInfo, Info
  <2>3. FieldsMade(types, NextTypeId(types), info.fields)
    <3>1. PICK n \in Nat, t \in Nat : n = NextTypeId(types) /\ t = ctl.val.t /\ t < n
      <4>1. PICK k \in Nat : k = Len(types) /\ ctl.val.t \in 0 .. 270 + k
        BY <1>1, Given, TypeIds0 DEF LastTypeId, TypesIn, TyString
      <4>2. NextTypeId(types) = 271 + k
        BY <4>1 DEF NextTypeId, TyString
      <4> QED BY <4>1, <4>2
    <3>2. \A u \in 0 .. t - 1 : u \in 0 .. n - 1
      BY <3>1
    <3>3. FieldsMade(types, t, info.fields)
      BY <1>1, <2>2, <3>1, Given, FieldsAreOlder
    <3> QED BY <3>1, <3>2, <3>3 DEF FieldsMade, FieldMade
  <2>4. PICK new : new = Append(types, info)
    OBVIOUS
  <2>5. PoolMade(new) /\ NextTypeId(types) \in TypesIn(new)
    BY <1>1, <2>3, <2>4, Given, PoolGrows
  <2>6. Made(new, TypeVal(NextTypeId(types)))
    BY <2>5, ConstantsAreMade
  <2> QED BY <1>1, <1>3, <2>1, <2>3, <2>4, <2>6, NewTypeKeeps DEF Sound
<1>4. Yield(Bad) \/ Bail => ValueInv'
  BY <1>1, YieldKeeps, BailKeeps, ConstantsAreMade, Given DEF Sound
<1> QED BY <1>2, <1>3, <1>4 DEF AnalyzeDistinct

LEMMA UnaryKeeps == ASSUME ValueInv, Shape, AnalyzeUnary PROVE ValueInv'
<1>1. Sound /\ This.kind = "UNARY"
  BY SoundIs DEF AnalyzeUnary
<1>2. CASE Visit([Top EXCEPT !.pc = "rhs"], Kid(1), Top.exp)
  BY <1>1, <1>2, FrameWaits, Given, VisitKeeps DEF Sound
<1>3. Made(types, Bad) /\ Made(types, Runtime(TypeOf(ctl.val))) /\ Made(types, Negated(ctl.val))
  BY <1>1, Given, ConstantsAreMade DEF Negated, MadeFor
<1>4. \A v : Made(types, v) /\ (Yield(v) \/ Inject(v)) => ValueInv'
  BY <1>1, YieldKeeps, InjectKeeps DEF Sound
<1>5. Bail => ValueInv'
  BY <1>1, BailKeeps DEF Sound
<1> QED BY <1>1, <1>2, <1>3, <1>4, <1>5, Given DEF AnalyzeUnary

LEMMA ArithIsMade ==
  ASSUME NEW tp, PoolMade(tp), NEW lhs, Made(tp, lhs), NEW rhs, Made(tp, rhs)
  PROVE  ArithType(tp, lhs, rhs) \in TypesIn(tp)
<1>1. lhs.t \in TypesIn(tp) /\ rhs.t \in TypesIn(tp) /\ 0 .. TyString \subseteq TypesIn(tp)
  BY MadeIs, TypeIds0
<1>2. \A t \in {TyUntypedInt, TyUntypedFloat, TyFloat, NoType} : t \in TypesIn(tp)
  BY <1>1 DEF TyUntypedInt, TyUntypedFloat, TyFloat, NoType, TyString
<1> QED BY <1>1, <1>2 DEF ArithType

LEMMA BinaryKeeps == ASSUME ValueInv, Shape, AnalyzeBinary PROVE ValueInv'
<1>1. Sound /\ This.kind = "BINARY"
  BY SoundIs DEF AnalyzeBinary
<1>2. CASE Visit([Top EXCEPT !.pc = "lhs"], Kid(1), Top.exp)
  BY <1>1, <1>2, FrameWaits, Given, VisitKeeps DEF Sound
<1>3. CASE Visit([Top EXCEPT !.pc = "rhs", !.val = ctl.val], Kid(2), Top.exp)
  BY <1>1, <1>3, FrameWaitsWith, Given, VisitKeeps DEF Sound
<1>4. Yield(Bad) \/ Bail => ValueInv'
  BY <1>1, YieldKeeps, BailKeeps, ConstantsAreMade, Given DEF Sound
<1>5. CASE FoldArith(Top.val, ctl.val)
  <2>1. Made(types, Scalar(ArithType(types, Top.val, ctl.val)))
    BY <1>1, Given, TopVal, ArithIsMade, ConstantsAreMade DEF MadeFor
  <2> QED BY <1>1, <1>4, <1>5, <2>1, InjectKeeps DEF Sound, FoldArith
<1>6. CASE RuntimeBinary(Top.val, ctl.val)
  <2>1. TypeOf(Top.val) \in TypesIn(types) /\ TypeOf(ctl.val) \in TypesIn(types)
    BY <1>1, Given, TopVal, TypeOfMade
  <2>2. \A t \in TypesIn(types) : Made(types, Runtime(t))
    BY <1>1, Given, ConstantsAreMade DEF MadeFor
  <2>3. \A t \in TypesIn(types) : Yield(Runtime(t)) => ValueInv'
    BY <1>1, <2>2, YieldKeeps DEF Sound
  <2> QED BY <1>4, <1>6, <2>1, <2>3 DEF RuntimeBinary
<1> QED BY <1>2, <1>3, <1>4, <1>5, <1>6 DEF AnalyzeBinary

LEMMA CastKeeps == ASSUME ValueInv, Shape, AnalyzeCast PROVE ValueInv'
<1>1. Sound /\ This.kind = "CAST"
  BY SoundIs DEF AnalyzeCast
<1>2. CASE Visit([Top EXCEPT !.pc = "to"], Kid(1), NoType)
  BY <1>1, <1>2, FrameWaits, Given, VisitKeeps DEF Sound
<1>3. ASSUME NEW t \in TypesIn(types), CastOperand(t) PROVE ValueInv'
  BY <1>1, <1>3, FrameWaitsAs, Given, VisitKeeps DEF Sound, CastOperand
<1>4. Yield(Bad) \/ Bail => ValueInv'
  BY <1>1, YieldKeeps, BailKeeps, ConstantsAreMade, Given DEF Sound
<1>5. CASE Yield(ValueCast(types, Top.ty, ctl.val))
  <2>1. Made(types, ValueCast(types, Top.ty, ctl.val))
    BY <1>1, Given, ValueCastIsMade
  <2> QED BY <1>1, <1>5, <2>1, YieldKeeps DEF Sound
<1> QED BY <1>1, <1>2, <1>3, <1>4, <1>5, Given DEF AnalyzeCast

LEMMA AccessKeeps == ASSUME ValueInv, Shape, AnalyzeAccess PROVE ValueInv'
<1>1. Sound /\ This.kind = "ACCESS"
  BY SoundIs DEF AnalyzeAccess
<1>2. CASE Visit([Top EXCEPT !.pc = "lhs"], Kid(1), Top.exp)
  BY <1>1, <1>2, FrameWaits, Given, VisitKeeps DEF Sound
<1>3. Yield(Bad) \/ Bail => ValueInv'
  BY <1>1, YieldKeeps, BailKeeps, ConstantsAreMade, Given DEF Sound
<1>4. PICK fields, i : fields = Fields(types, ctl.val.t) /\ i = FieldIndex(fields, This.name)
  OBVIOUS
<1>5. ASSUME i # 0 PROVE i \in DOMAIN fields
  BY <1>1, <1>4, <1>5, Given, FieldsAreOlder, FieldIndexIs DEF FieldsMade
<1>6. CASE i # 0 /\ Yield(Runtime(fields[i].type))
  <2>1. fields[i].type \in TypesIn(types)
    BY <1>1, <1>4, <1>5, <1>6, Given, FieldsAreSeq
  <2> QED BY <1>1, <1>6, <2>1, YieldKeeps, ConstantsAreMade, Given DEF Sound, MadeFor
<1>7. CASE i # 0 /\ ctl.val.k = "STRUCT" /\ Inject(ctl.val.fs[i])
  <2>1. Made(types, ctl.val.fs[i])
    BY <1>1, <1>4, <1>7, Given, ObjectFieldIsMade
  <2> QED BY <1>1, <1>7, <2>1, InjectKeeps DEF Sound
<1> QED BY <1>2, <1>3, <1>4, <1>6, <1>7 DEF AnalyzeAccess

(***************************************************************************)
(* The handlers that open and close scopes.                                *)
(***************************************************************************)
SymbolsIn(new) == \A k \in DOMAIN new : \A x \in DOMAIN new[k].sym : SymbolMade(types, new[k].sym[x])

LEMMA SymbolsWillBe ==
  ASSUME types' = types, NEW new, scopes' = new, SymbolsIn(new)
  PROVE  SymbolsMade'
BY DEF SymbolsMade, SymbolsIn

LEMMA SetSymbolMade ==
  ASSUME ScopesOK, SymbolsIn(scopes), NEW k, NEW x, NEW s,
         k \in DOMAIN scopes /\ x \in DOMAIN scopes[k].sym => SymbolMade(types, s)
  PROVE  SymbolsIn(SetSymbol(k, x, s))
<1>1. PICK new : new = SetSymbol(k, x, s)
  OBVIOUS
<1>2. /\ DOMAIN new = DOMAIN scopes
      /\ \A j \in DOMAIN scopes :
           new[j] = IF j = k THEN [scopes[j] EXCEPT !.sym[x] = s] ELSE scopes[j]
  BY <1>1 DEF SetSymbol
<1>3. ASSUME NEW j \in DOMAIN scopes, NEW y \in DOMAIN new[j].sym
      PROVE  SymbolMade(types, new[j].sym[y])
  <2>1. CASE j # k
    BY <1>2, <1>3, <2>1 DEF SymbolsIn
  <2>2. CASE j = k
    <3>1. PICK sc : sc = scopes[j] /\ DOMAIN sc = {"root", "sym"}
      BY DEF ScopesOK
    <3>2. new[j] = [sc EXCEPT !.sym[x] = s]
      BY <1>2, <2>2, <3>1
    <3>3. new[j].sym = [sc.sym EXCEPT ![x] = s]
      BY <3>1, <3>2
    <3>4. y \in DOMAIN sc.sym /\ new[j].sym[y] = IF y = x THEN s ELSE sc.sym[y]
      BY <1>3, <3>3
    <3> QED BY <2>2, <3>1, <3>4 DEF SymbolsIn
  <2> QED BY <2>1, <2>2
<1> QED BY <1>1, <1>2, <1>3 DEF SymbolsIn

LEMMA PushedMade ==
  ASSUME NEW old, NEW S, old \in Seq(S), SymbolsIn(old), NEW sc,
         \A x \in DOMAIN sc.sym : SymbolMade(types, sc.sym[x])
  PROVE  SymbolsIn(Append(old, sc))
<1>1. PICK n \in Nat : n = Len(old) /\ DOMAIN old = 1 .. n
  OBVIOUS
<1>2. PICK new : new = Append(old, sc)
  OBVIOUS
<1>3. DOMAIN new = 1 .. n + 1 /\ new[n + 1] = sc /\ \A j \in 1 .. n : new[j] = old[j]
  BY <1>1, <1>2
<1>4. \A j \in DOMAIN new : j \in 1 .. n \/ j = n + 1
  BY <1>3
<1>5. ASSUME NEW j \in DOMAIN new, NEW y \in DOMAIN new[j].sym PROVE SymbolMade(types, new[j].sym[y])
  BY <1>1, <1>3, <1>4, <1>5 DEF SymbolsIn
<1> QED BY <1>2, <1>5 DEF SymbolsIn

LEMMA PoppedMade ==
  ASSUME ScopesOK, SymbolsIn(scopes)
  PROVE  SymbolsIn(PopScope)
<1>1. PICK S : scopes \in Seq(S)
  BY DEF ScopesOK
<1>2. PICK n \in Nat : n = Len(scopes) /\ DOMAIN scopes = 1 .. n
  BY <1>1
<1>3. PICK new : new = PopScope
  OBVIOUS
<1>4. CASE n = 0
  <2>1. DOMAIN new = {}
    BY <1>1, <1>2, <1>3, <1>4 DEF PopScope
  <2> QED BY <1>3, <2>1 DEF SymbolsIn
<1>5. CASE n > 0
  <2>1. DOMAIN new = 1 .. n - 1 /\ \A j \in 1 .. n - 1 : new[j] = scopes[j]
    BY <1>1, <1>2, <1>3, <1>5 DEF PopScope
  <2>2. \A j \in 1 .. n - 1 : j \in DOMAIN scopes
    BY <1>2
  <2> QED BY <1>3, <2>1, <2>2 DEF SymbolsIn
<1> QED BY <1>2, <1>4, <1>5

\* A step that changes the scopes and leaves the pool.
LEMMA AssembledWithScopes ==
  ASSUME ValueInv, Shape, stack # <<>>, UNCHANGED <<prog, types, hint>>,
         hadError' \in BOOLEAN, retType' \in TypesIn(types),
         threshold' \in TyString .. LastTypeId(types),
         NEW new, scopes' = new, SymbolsIn(new),
         \/ stack' = Below
         \/ \E f : FrameMade(types, f) /\ stack' = Append(Below, f),
         ctl'.op \in {"call", "go", "return"}, Made(types, ctl'.val), ctl'.exp \in TypesIn(types),
         \/ folded' = folded
         \/ \E n, v : Made(types, v) /\ folded' = [folded EXCEPT ![n] = v]
  PROVE  ValueInv'
<1>1. Grows(types, types')
  BY SamePool DEF ValueInv
<1>2. ControlMade'
  BY DEF ControlMade
<1>3. SymbolsMade'
  BY SymbolsWillBe
<1>4. RestMade'
  BY DEF RestMade
<1> QED BY <1>1, <1>2, <1>3, <1>4, Assembled

LEMMA SymbolsAre == ASSUME ValueInv PROVE SymbolsIn(scopes) /\ retType \in TypesIn(types)
                                          /\ threshold \in TyString .. LastTypeId(types)
                                          /\ hadError \in BOOLEAN
BY DEF ValueInv, SymbolsMade, SymbolsIn, RestMade

LEMMA ReturnKeeps == ASSUME ValueInv, Shape, AnalyzeReturn PROVE ValueInv'
<1>1. Sound /\ This.kind = "RETURN"
  BY SoundIs DEF AnalyzeReturn
<1>2. CASE Visit([Top EXCEPT !.pc = "value"], Kid(1), retType)
  BY <1>1, <1>2, FrameWaits, SymbolsAre, VisitKeeps DEF Sound
<1>3. Yield(Bad) \/ Yield(Crash) \/ Bail => ValueInv'
  BY <1>1, YieldKeeps, BailKeeps, ConstantsAreMade, Given DEF Sound
<1>4. PICK v : v = IF retType \in {TyAuto, TypeOf(ctl.val)} THEN ctl.val
                   ELSE Coerce(types, retType, ctl.val)
  OBVIOUS
<1>5. Made(types, v)
  BY <1>1, <1>4, Given, SymbolsAre, CoerceIsMade DEF Sound
<1>6. Inject(v) \/ Yield(v) => ValueInv'
  BY <1>1, <1>5, YieldKeeps, InjectKeeps DEF Sound
<1> QED BY <1>2, <1>3, <1>4, <1>6 DEF AnalyzeReturn

\* The running frame at the head of its loop again.
LEMMA FrameLoops ==
  ASSUME Sound, This.kind # "STRUCT_LITERAL", NEW v, Made(types, v)
  PROVE  /\ FrameMade(types, [NextItem EXCEPT !.pc = "next"])
         /\ FrameMade(types, [[NextItem EXCEPT !.val = v] EXCEPT !.pc = "next"])
<1>1. PICK g : g = [NextItem EXCEPT !.pc = "next"]
  OBVIOUS
<1>2. /\ g.node = Top.node /\ g.exp = Top.exp /\ g.save = Top.save /\ g.j = Top.j
      /\ g.fields = Top.fields /\ g.ty = Top.ty /\ g.val = Top.val
  BY <1>1, TopIs DEF FrameFields, NextItem
<1>3. PICK h : h = [[NextItem EXCEPT !.val = v] EXCEPT !.pc = "next"]
  OBVIOUS
<1>4. /\ h.node = Top.node /\ h.exp = Top.exp /\ h.save = Top.save /\ h.j = Top.j
      /\ h.fields = Top.fields /\ h.ty = Top.ty /\ h.val = v
  BY <1>3, TopIs DEF FrameFields, NextItem
<1>5. FrameMade(types, g)
  BY <1>2, FrameChanged, TopIs, TopVal DEF FrameMade
<1>6. FrameMade(types, h)
  BY <1>4, FrameChanged, TopIs DEF FrameMade
<1> QED BY <1>1, <1>3, <1>5, <1>6

LEMMA FuncCallKeeps == ASSUME ValueInv, Shape, AnalyzeFuncCall PROVE ValueInv'
<1>1. Sound /\ This.kind = "FUNC_CALL"
  BY SoundIs DEF AnalyzeFuncCall
<1>2. CASE Visit([Top EXCEPT !.pc = "callee"], Kid(1), NoType)
  BY <1>1, <1>2, FrameWaits, Given, VisitKeeps DEF Sound
<1>3. CASE Visit([Top EXCEPT !.pc = "arg"], Kid(1 + Top.i), Top.exp)
  BY <1>1, <1>3, FrameWaits, Given, VisitKeeps DEF Sound
<1>4. Yield(Bad) \/ Yield(Runtime(Top.ty)) => ValueInv'
  BY <1>1, YieldKeeps, ConstantsAreMade, Given DEF Sound, MadeFor
<1>5. CASE Continue([Top EXCEPT !.ty = CallType(ctl.val)], FALSE)
  <2>1. PICK f, g : f = [Top EXCEPT !.ty = CallType(ctl.val)] /\ g = [f EXCEPT !.pc = "next"]
    OBVIOUS
  <2>2. CallType(ctl.val) \in TypesIn(types)
    BY <1>1, Given DEF CallType
  <2>3. /\ g.node = Top.node /\ g.exp = Top.exp /\ g.save = Top.save /\ g.j = Top.j
        /\ g.fields = Top.fields /\ g.ty = CallType(ctl.val) /\ g.val = Top.val
    BY <1>1, <2>1, TopIs DEF FrameFields
  <2>4. FrameMade(types, g)
    BY <1>1, <2>2, <2>3, FrameChanged, TopIs, TopVal DEF FrameMade
  <2> QED BY <1>1, <1>5, <2>1, <2>4, ContinueKeeps DEF Sound
<1>6. CASE /\ Loop(NextItem)
           /\ folded' = IF ctl.val.k = "RUNTIME" THEN folded
                        ELSE [folded EXCEPT ![Kid(1 + Top.i)] = ctl.val]
           /\ UNCHANGED <<hint, scopes, types, threshold, names, hadError, retType, Driver>>
  <2>1. /\ UNCHANGED <<prog, types, scopes, threshold, retType, hint, hadError>>
        /\ stack' = Append(Below, [NextItem EXCEPT !.pc = "next"]) /\ ctl' = Go
    BY <1>6 DEF Loop, Driver
  <2>2. hadError' \in BOOLEAN
    BY <1>1, <2>1, SymbolsAre DEF Sound
  <2>3. FrameMade(types, [NextItem EXCEPT !.pc = "next"])
    BY <1>1, FrameLoops, Given
  <2>4. Made(types, ctl.val)
    BY <1>1, Given
  <2> QED BY <1>1, <1>6, <2>1, <2>2, <2>3, <2>4, GoIs, NoTypeIsThere, AssembledQuietly DEF Sound
<1> QED BY <1>2, <1>3, <1>4, <1>5, <1>6 DEF AnalyzeFuncCall

LEMMA NewSymbolMade ==
  ASSUME ValueInv, NEW level \in {Ahh, Undefined}, NEW node
  PROVE  SymbolMade(types, Symbol(level, node))
<1>1. PICK s : s = Symbol(level, node)
  OBVIOUS
<1>2. s.level = level /\ s.type = NoType /\ s.value = None
  BY <1>1 DEF Symbol
<1>3. s.level \in Levels /\ s.level # Declared
  BY <1>2 DEF Levels, Ahh, Undefined, Declared
<1>4. SymbolMade(types, s)
  BY <1>2, <1>3, NoTypeIsThere DEF SymbolMade
<1> QED BY <1>1, <1>4

LEMMA HoistedMade ==
  ASSUME ValueInv, NEW nodes, NEW S, nodes \in Seq(S), NEW level \in {Ahh, Undefined}
  PROVE  \A x \in DOMAIN Hoisted(nodes, level) : SymbolMade(types, Hoisted(nodes, level)[x])
BY HoistedIs, NewSymbolMade

LEMMA BlockKeeps == ASSUME ValueInv, Shape, AnalyzeBlock PROVE ValueInv'
<1>1. Sound /\ This.kind = "BLOCK"
  BY SoundIs DEF AnalyzeBlock
<1>2. ScopesOK /\ SymbolsIn(scopes) /\ \E S : scopes \in Seq(S)
  BY SymbolsAre DEF Shape, ScopesOK
<1>3. CASE /\ scopes' = Append(scopes, Scope(This.root, Hoisted(This.kids, Ahh)))
           /\ IF Redefines(This.kids) THEN Return(Bad) ELSE Loop(Top)
           /\ hadError' = (hadError \/ Redefines(This.kids))
           /\ UNCHANGED <<folded, hint, types, threshold, names, retType, Driver>>
  <2>1. PICK sc : sc = Scope(This.root, Hoisted(This.kids, Ahh))
    OBVIOUS
  <2>2. sc.sym = Hoisted(This.kids, Ahh)
    BY <2>1 DEF Scope
  <2>3. This.kids \in Seq(Nodes \cup {0})
    BY <1>1, TopIs DEF Shape, ProgramOK, NodeOK, This, Node, Nodes
  <2>4. SymbolsIn(Append(scopes, sc))
    BY <1>2, <2>2, <2>3, HoistedMade, PushedMade
  <2>5. \/ stack' = Below /\ ctl' = Returned(Bad)
        \/ stack' = Append(Below, [Top EXCEPT !.pc = "next"]) /\ ctl' = Go
    BY <1>3 DEF Return, Loop
  <2>6. FrameMade(types, [Top EXCEPT !.pc = "next"])
    BY <1>1, FrameWaits
  <2>7. Redefines(This.kids) \in BOOLEAN
    BY DEF Redefines
  <2>8. hadError' \in BOOLEAN /\ UNCHANGED <<prog, types, hint, folded, threshold, retType>>
    BY <1>3, <2>7, SymbolsAre DEF Driver
  <2>9. ctl'.op \in {"call", "go", "return"} /\ Made(types, ctl'.val) /\ ctl'.exp \in TypesIn(types)
    BY <1>1, <2>5, GoIs, ReturnedIs, NoTypeIsThere, Given, ConstantsAreMade
  <2> QED BY <1>1, <1>3, <2>1, <2>4, <2>5, <2>6, <2>8, <2>9, SymbolsAre, AssembledWithScopes DEF Sound
<1>4. CASE Visit([Top EXCEPT !.pc = "stmt"], Kid(Top.i), Top.exp)
  BY <1>1, <1>4, FrameWaits, Given, VisitKeeps DEF Sound
<1>5. CASE Continue([NextItem EXCEPT !.val = IF IsBad(ctl.val) THEN None ELSE ctl.val], IsBad(ctl.val))
  <2>1. PICK v : v = IF IsBad(ctl.val) THEN None ELSE ctl.val
    OBVIOUS
  <2>2. Made(types, v)
    BY <1>1, <2>1, Given, NoTypeIsThere
  <2>3. FrameMade(types, [[NextItem EXCEPT !.val = v] EXCEPT !.pc = "next"])
    BY <1>1, <2>2, FrameLoops
  <2>4. PICK f, g : f = [NextItem EXCEPT !.val = v] /\ g = [f EXCEPT !.pc = "next"]
    OBVIOUS
  <2>5. IsBad(ctl.val) \in BOOLEAN
    BY DEF IsBad
  <2> QED BY <1>1, <1>5, <2>1, <2>3, <2>4, <2>5, ContinueKeeps DEF Sound
<1>6. CASE /\ scopes' = PopScope
           /\ Return(IF Top.val = None THEN Uninit ELSE Top.val)
           /\ folded' = IF ComptimeKnown(Top.val) THEN [folded EXCEPT ![Top.node] = Top.val]
                        ELSE folded
           /\ UNCHANGED <<hint, types, threshold, names, hadError, retType, Driver>>
  <2>1. Made(types, Top.val) /\ Made(types, Uninit)
    BY <1>1, TopVal, ConstantsAreMade, Given
  <2>2. SymbolsIn(PopScope)
    BY <1>2, PoppedMade
  <2>3. stack' = Below /\ ctl' = Returned(IF Top.val = None THEN Uninit ELSE Top.val)
    BY <1>6 DEF Return
  <2>4. ctl'.op \in {"call", "go", "return"} /\ Made(types, ctl'.val) /\ ctl'.exp \in TypesIn(types)
    BY <2>1, <2>3, ReturnedIs, NoTypeIsThere
  <2>5. hadError' \in BOOLEAN /\ UNCHANGED <<prog, types, hint, threshold, retType>>
    BY <1>6, SymbolsAre DEF Driver
  <2>6. \/ folded' = folded
        \/ \E n, v : Made(types, v) /\ folded' = [folded EXCEPT ![n] = v]
    BY <1>6, <2>1
  <2> QED BY <1>1, <1>6, <2>2, <2>3, <2>4, <2>5, <2>6, SymbolsAre, AssembledWithScopes DEF Sound
<1> QED BY <1>3, <1>4, <1>5, <1>6 DEF AnalyzeBlock

(***************************************************************************)
(* Functions.                                                              *)
(***************************************************************************)
LEMMA ParameterMade ==
  ASSUME ValueInv, NEW t \in TypesIn(types)
  PROVE  SymbolMade(types, [Symbol(Declared, 0) EXCEPT !.type = t, !.value = Uninit])
<1>1. PICK s : s = [Symbol(Declared, 0) EXCEPT !.type = t, !.value = Uninit]
  OBVIOUS
<1>2. s.level = Declared /\ s.type = t /\ s.value = Uninit
  BY <1>1 DEF Symbol
<1>3. Made(types, Uninit)
  BY ConstantsAreMade DEF ValueInv
<1> QED BY <1>1, <1>2, <1>3 DEF SymbolMade, Levels

\* A symbol of the scopes that is declared without a value.
LEMMA DeclaredMade ==
  ASSUME ValueInv, Shape, NEW k \in DOMAIN scopes, NEW x \in DOMAIN scopes[k].sym,
         NEW t \in TypesIn(types)
  PROVE  SymbolMade(types, [scopes[k].sym[x] EXCEPT !.type = t, !.value = Uninit, !.level = Declared])
<1>1. DOMAIN scopes[k].sym[x] = SymbolFields
  BY DEF Shape, ScopesOK, SymbolOK, SymbolAt
<1>2. PICK s : s = [scopes[k].sym[x] EXCEPT !.type = t, !.value = Uninit, !.level = Declared]
  OBVIOUS
<1>3. s.level = Declared /\ s.type = t /\ s.value = Uninit
  BY <1>1, <1>2 DEF SymbolFields
<1>4. Made(types, Uninit)
  BY ConstantsAreMade DEF ValueInv
<1> QED BY <1>2, <1>3, <1>4 DEF SymbolMade, Levels

LEMMA OpenFunctionKeeps ==
  ASSUME Sound, This.kind = "FUNC_DECL", NEW ret \in TypesIn(types), OpenFunction(ret)
  PROVE  ValueInv'
<1>1. ScopesOK /\ SymbolsIn(scopes) /\ \E S : scopes \in Seq(S)
  BY SymbolsAre DEF Sound, Shape, ScopesOK
<1>2. PICK s : s = [Innermost[This.name] EXCEPT !.type = ret, !.value = Uninit, !.level = Declared]
  OBVIOUS
<1>3. PICK here : here = IF This.name \in DOMAIN Innermost THEN SetSymbol(Len(scopes), This.name, s)
                         ELSE scopes
  OBVIOUS
<1>4. PICK sc : sc = Scope(This.root, <<>>)
  OBVIOUS
<1>5. PICK g : g = [[Top EXCEPT !.ty = ret, !.save = retType] EXCEPT !.pc = "next"]
  OBVIOUS
<1>6. /\ scopes' = Append(here, sc) /\ retType' = ret
      /\ stack' = Append(Below, g) /\ ctl' = Go
      /\ UNCHANGED <<prog, types, hint, folded, threshold, hadError>>
  BY <1>2, <1>3, <1>4, <1>5 DEF OpenFunction, Loop, Driver
<1>7. SymbolsIn(here) /\ \E S : here \in Seq(S)
  <2>1. CASE This.name \in DOMAIN Innermost
    <3>1. ASSUME Len(scopes) \in DOMAIN scopes, This.name \in DOMAIN scopes[Len(scopes)].sym
          PROVE  SymbolMade(types, s)
      BY <1>2, <3>1, DeclaredMade DEF Innermost, Sound
    <3>2. SymbolsIn(SetSymbol(Len(scopes), This.name, s))
      BY <1>1, <3>1, SetSymbolMade
    <3>3. \E S : SetSymbol(Len(scopes), This.name, s) \in Seq(S)
      <4>1. PICK k : k = Len(scopes)
        OBVIOUS
      <4>2. PICK S : scopes \in Seq(S)
        BY <1>1
      <4>3. PICK row : row = [scopes[k] EXCEPT !.sym[This.name] = s]
        OBVIOUS
      <4>4. SetSymbol(k, This.name, s) = [scopes EXCEPT ![k] = row]
        BY <4>3 DEF SetSymbol
      <4>5. scopes \in Seq(S \cup {row})
        BY <4>2
      <4>6. PICK T : T = S \cup {row}
        OBVIOUS
      <4>7. PICK n \in Nat : scopes \in [1 .. n -> T]
        BY <4>5, <4>6
      <4>8. PICK new : new = [scopes EXCEPT ![k] = row]
        OBVIOUS
      <4>9. new \in [1 .. n -> T] /\ n \in Nat
        BY <4>6, <4>7, <4>8
      <4>10. new \in Seq(T)
        BY <4>9
      <4> QED BY <4>1, <4>4, <4>8, <4>10
    <3> QED BY <1>3, <2>1, <3>2, <3>3
  <2> QED BY <1>1, <1>3, <2>1
<1>8. SymbolsIn(Append(here, sc))
  <2>1. sc.sym = <<>> /\ DOMAIN <<>> = {}
    BY <1>4 DEF Scope
  <2> QED BY <1>7, <2>1, PushedMade
<1>9. FrameMade(types, g)
  <2>1. /\ g.node = Top.node /\ g.exp = Top.exp /\ g.save = retType /\ g.j = Top.j
        /\ g.fields = Top.fields /\ g.ty = ret /\ g.val = Top.val
    BY <1>5, TopIs DEF FrameFields
  <2> QED BY <2>1, FrameChanged, TopVal
<1>10. ctl'.op \in {"call", "go", "return"} /\ Made(types, ctl'.val) /\ ctl'.exp \in TypesIn(types)
  BY <1>6, GoIs, NoTypeIsThere DEF Sound
<1>11. /\ hadError' \in BOOLEAN /\ retType' \in TypesIn(types)
       /\ threshold' \in TyString .. LastTypeId(types)
  BY <1>6, SymbolsAre DEF Sound
<1> QED BY <1>6, <1>8, <1>9, <1>10, <1>11, AssembledWithScopes DEF Sound

LEMMA DeclareParamsKeeps ==
  ASSUME Sound, This.kind = "FUNC_DECL", NEW t \in TypesIn(types), DeclareParams(t)
  PROVE  ValueInv'
<1>1. ScopesOK /\ SymbolsIn(scopes)
  BY SymbolsAre DEF Sound, Shape
<1>2. PICK param : param = [Symbol(Declared, 0) EXCEPT !.type = t, !.value = Uninit]
  OBVIOUS
<1>3. PICK names0 : names0 = {This.labels[Top.i][l] : l \in DOMAIN This.labels[Top.i]}
  OBVIOUS
<1>4. PICK sym : sym = [x \in DOMAIN Innermost \cup names0 |->
                          IF x \in DOMAIN Innermost THEN Innermost[x] ELSE param]
  OBVIOUS
<1>5. PICK new : new = [scopes EXCEPT ![Len(scopes)].sym = sym]
  OBVIOUS
<1>6. /\ scopes' = new
      /\ stack' = Append(Below, [NextItem EXCEPT !.pc = "next"]) /\ ctl' = Go
      /\ hadError' = (\/ hadError \/ names0 \cap DOMAIN Innermost # {}
                      \/ Cardinality(names0) # Len(This.labels[Top.i]))
      /\ UNCHANGED <<prog, types, hint, folded, threshold, retType>>
  BY <1>2, <1>3, <1>4, <1>5 DEF DeclareParams, Loop, Driver
<1>7. SymbolsIn(new)
  <2>1. SymbolMade(types, param)
    BY <1>2, ParameterMade DEF Sound
  <2>2. /\ DOMAIN new = DOMAIN scopes
        /\ \A j \in DOMAIN scopes : new[j] = IF j = Len(scopes) THEN [scopes[j] EXCEPT !.sym = sym]
                                             ELSE scopes[j]
    BY <1>5
  <2>3. ASSUME NEW j \in DOMAIN scopes, NEW y \in DOMAIN new[j].sym PROVE SymbolMade(types, new[j].sym[y])
    <3>1. CASE j = Len(scopes)
      <4>1. DOMAIN scopes[j] = {"root", "sym"}
        BY DEF Sound, Shape, ScopesOK
      <4>2. new[j].sym = sym
        BY <2>2, <3>1, <4>1
      <4>3. \A x \in DOMAIN sym : sym[x] = param \/ (x \in DOMAIN scopes[j].sym /\ sym[x] = scopes[j].sym[x])
        BY <1>4, <3>1 DEF Innermost
      <4> QED BY <1>1, <2>1, <2>3, <4>2, <4>3 DEF SymbolsIn
    <3>2. CASE j # Len(scopes)
      BY <1>1, <2>2, <2>3, <3>2 DEF SymbolsIn
    <3> QED BY <3>1, <3>2
  <2> QED BY <2>2, <2>3 DEF SymbolsIn
<1>8. FrameMade(types, [NextItem EXCEPT !.pc = "next"])
  BY FrameLoops, Given
<1>9. ctl'.op \in {"call", "go", "return"} /\ Made(types, ctl'.val) /\ ctl'.exp \in TypesIn(types)
  BY <1>6, GoIs, NoTypeIsThere DEF Sound
<1>10. hadError' \in BOOLEAN
  BY <1>6
<1>11. retType' \in TypesIn(types) /\ threshold' \in TyString .. LastTypeId(types)
  BY <1>6, SymbolsAre DEF Sound
<1> QED BY <1>6, <1>7, <1>8, <1>9, <1>10, <1>11, AssembledWithScopes DEF Sound

LEMMA CloseFunctionKeeps ==
  ASSUME Sound, This.kind = "FUNC_DECL", NEW report \in BOOLEAN, CloseFunction(report)
  PROVE  ValueInv'
<1>1. SymbolsIn(PopScope)
  BY SymbolsAre, PoppedMade DEF Sound, Shape
<1>2. /\ scopes' = PopScope /\ retType' = Top.save
      /\ hadError' = (hadError \/ report)
      /\ stack' = Below /\ ctl' = Returned(Uninit)
      /\ UNCHANGED <<prog, types, hint, folded, threshold>>
  BY DEF CloseFunction, Return, Driver
<1>3. Top.save \in TypesIn(types) /\ Made(types, Uninit)
  BY TopIs, Given, ConstantsAreMade DEF FrameMade
<1>4. ctl'.op \in {"call", "go", "return"} /\ Made(types, ctl'.val) /\ ctl'.exp \in TypesIn(types)
  BY <1>2, <1>3, ReturnedIs, Given
<1>5. hadError' \in BOOLEAN
  BY <1>2, SymbolsAre DEF Sound
<1> QED BY <1>1, <1>2, <1>3, <1>4, <1>5, SymbolsAre, AssembledWithScopes DEF Sound

LEMMA FuncDeclKeeps == ASSUME ValueInv, Shape, AnalyzeFuncDecl PROVE ValueInv'
<1>1. Sound /\ This.kind = "FUNC_DECL"
  BY SoundIs DEF AnalyzeFuncDecl
<1>2. ASSUME NEW p, NEW kid, NEW exp \in TypesIn(types), Visit([Top EXCEPT !.pc = p], kid, exp)
      PROVE  ValueInv'
  BY <1>1, <1>2, FrameWaits, VisitKeeps DEF Sound
<1>3. Yield(Bad) \/ Bail => ValueInv'
  BY <1>1, YieldKeeps, BailKeeps, ConstantsAreMade, Given DEF Sound
<1>4. CASE Continue(NextItem, TRUE)
  <2>1. PICK g : g = [NextItem EXCEPT !.pc = "next"]
    OBVIOUS
  <2>2. FrameMade(types, g)
    BY <1>1, <2>1, FrameLoops, Given
  <2> QED BY <1>1, <1>4, <2>1, <2>2, ContinueKeeps DEF Sound
<1>5. ASSUME NEW report, report \in BOOLEAN, CloseFunction(report) PROVE ValueInv'
  BY <1>1, <1>5, CloseFunctionKeeps
<1>6. (IsBad(ctl.val) \/ (TypeOf(ctl.val) = TyVoid /\ Top.ty # TyVoid)) \in BOOLEAN
  BY DEF IsBad
<1>7. \A t \in TypesIn(types) : OpenFunction(t) \/ DeclareParams(t) => ValueInv'
  BY <1>1, OpenFunctionKeeps, DeclareParamsKeeps
<1>8. /\ NoType \in TypesIn(types) /\ Top.ty \in TypesIn(types) /\ TyVoid \in TypesIn(types)
      /\ TyAuto \in TypesIn(types) /\ ctl.val.t \in TypesIn(types)
  BY <1>1, Given
<1> QED BY <1>2, <1>3, <1>4, <1>5, <1>6, <1>7, <1>8 DEF AnalyzeFuncDecl

(***************************************************************************)
(* Identifiers and variables.                                              *)
(***************************************************************************)
\* The symbol find_local_first has had analysed is still there.
LazyFound == Top.pc = "lazy" => Top.sym \in DOMAIN scopes /\ This.name \in DOMAIN scopes[Top.sym].sym

LEMMA IdentKeeps == ASSUME ValueInv, Shape, AnalyzeIdent, LazyFound PROVE ValueInv'
<1>1. Sound /\ This.kind = "IDENT"
  BY SoundIs DEF AnalyzeIdent
<1>2. ASSUME NEW k \in DOMAIN scopes, NEW x \in DOMAIN scopes[k].sym, UseSymbol(SymbolAt(k, x))
      PROVE  ValueInv'
  <2>1. PICK s : s = SymbolAt(k, x)
    OBVIOUS
  <2>2. SymbolMade(types, s)
    BY <1>1, <2>1, SymbolsAre DEF Sound, SymbolsIn, SymbolAt
  <2>3. Made(types, s.value) /\ Made(types, Runtime(s.type))
    BY <1>1, <2>2, Given, ConstantsAreMade DEF SymbolMade, MadeFor
  <2> QED BY <1>1, <1>2, <2>1, <2>3, YieldKeeps, InjectKeeps, BailKeeps DEF Sound, UseSymbol
<1>3. CASE UndefinedName \/ RecursiveUse
  <2>1. Made(types, Uninit) /\ Made(types, Bad)
    BY <1>1, Given, ConstantsAreMade
  <2>2. /\ UNCHANGED <<prog, types, scopes, threshold, retType, hint>> /\ hadError' = TRUE
        /\ stack' = Below
        /\ ctl' = Returned(Uninit) \/ ctl' = Returned(Bad)
        /\ folded' = folded \/ folded' = [folded EXCEPT ![Top.node] = Bad]
    BY <1>3 DEF UndefinedName, RecursiveUse, Return, Driver
  <2>3. ctl'.op = "return" /\ Made(types, ctl'.val) /\ ctl'.exp \in TypesIn(types)
    BY <1>1, <2>1, <2>2, ReturnedIs, Given
  <2> QED BY <1>1, <2>1, <2>2, <2>3, AssembledQuietly DEF Sound
<1>4. ASSUME NEW k, NEW n, Visit([Top EXCEPT !.pc = "lazy", !.sym = k], n, NoType) PROVE ValueInv'
  <2>1. PICK g : g = [Top EXCEPT !.pc = "lazy", !.sym = k]
    OBVIOUS
  <2>2. /\ g.node = Top.node /\ g.exp = Top.exp /\ g.save = Top.save /\ g.j = Top.j
        /\ g.fields = Top.fields /\ g.ty = Top.ty /\ g.val = Top.val
    BY <1>1, <2>1, TopIs DEF FrameFields
  <2>3. FrameMade(types, g)
    BY <1>1, <2>2, FrameChanged, Given, TopVal
  <2> QED BY <1>1, <1>4, <2>1, <2>3, Given, VisitKeeps DEF Sound
<1>5. PICK k : k = Lookup(This.name)
  OBVIOUS
<1>6. k # 0 => k \in DOMAIN scopes /\ This.name \in DOMAIN scopes[k].sym
  BY <1>5, LookupFinds DEF Shape
<1>7. CASE At("IDENT", "lazy") /\ UseSymbol(SymbolAt(Top.sym, This.name))
  BY <1>2, <1>7 DEF LazyFound, At
<1> QED BY <1>2, <1>3, <1>4, <1>5, <1>6, <1>7 DEF AnalyzeIdent

LEMMA OpenVarDeclKeeps ==
  ASSUME Sound, This.kind = "VAR_DECL", OpenVarDecl
  PROVE  ValueInv'
<1>1. PICK k : k = Lookup(This.name)
  OBVIOUS
<1>2. PICK s : s = SymbolAt(k, This.name)
  OBVIOUS
<1>3. CASE k = 0
  <2>1. Yield(Crash)
    BY <1>1, <1>3 DEF OpenVarDecl
  <2> QED BY <2>1, YieldKeeps, ConstantsAreMade, Given DEF Sound
<1>4. CASE k # 0 /\ s.level = Defined
  <2>1. UNCHANGED <<prog, folded, hint, scopes, types, threshold, stack, ctl, retType>> /\ hadError' = TRUE
    BY <1>1, <1>2, <1>4 DEF OpenVarDecl
  <2> QED BY <2>1 DEF Sound, ValueInv, ControlMade, NodesMade, Nodes, SymbolsMade, FramesMade,
             FrameMade, Collects, Node, RestMade
<1>5. CASE k # 0 /\ s.level # Defined
  <2>1. PICK new : new = [s EXCEPT !.const = This.const, !.level = Defined]
    OBVIOUS
  <2>2. k \in DOMAIN scopes /\ This.name \in DOMAIN scopes[k].sym
    BY <1>1, <1>5, LookupFinds DEF Sound, Shape
  <2>3. SymbolsIn(SetSymbol(k, This.name, new))
    <3>1. DOMAIN s = SymbolFields
      BY <1>2, <2>2 DEF Sound, Shape, ScopesOK, SymbolOK
    <3>2. SymbolMade(types, s)
      BY <1>2, <2>2, SymbolsAre DEF Sound, SymbolsIn, SymbolAt
    <3>3. new.level = Defined /\ new.type = s.type /\ new.value = s.value
      BY <2>1, <3>1 DEF SymbolFields
    <3>4. SymbolMade(types, new)
      BY <3>2, <3>3 DEF SymbolMade, Levels, Defined, Declared
    <3> QED BY <2>2, <3>4, SetSymbolMade, SymbolsAre DEF Sound, Shape
  <2>4. ASSUME NEW g, g.node = Top.node, g.exp = Top.exp, g.save = Top.save, g.j = Top.j,
               g.fields = Top.fields, g.ty = TyAuto, Made(types, g.val)
        PROVE  FrameMade(types, g)
    BY <2>4, FrameChanged, Given
  <2>5. PICK f : f = [Top EXCEPT !.sym = k, !.ty = TyAuto]
    OBVIOUS
  <2>6. PICK a, b, c : a = [f EXCEPT !.pc = "type"] /\ b = [f EXCEPT !.pc = "value"]
                       /\ c = [[f EXCEPT !.val = Uninit] EXCEPT !.pc = "next"]
    OBVIOUS
  <2>7. FrameMade(types, a) /\ FrameMade(types, b) /\ FrameMade(types, c)
    <3>1. Made(types, Uninit) /\ Made(types, Top.val)
      BY Given, ConstantsAreMade, TopVal
    <3>2. /\ a.node = Top.node /\ a.exp = Top.exp /\ a.save = Top.save /\ a.j = Top.j
          /\ a.fields = Top.fields /\ a.ty = TyAuto /\ a.val = Top.val
      BY <2>5, <2>6, TopIs DEF FrameFields
    <3>3. /\ b.node = Top.node /\ b.exp = Top.exp /\ b.save = Top.save /\ b.j = Top.j
          /\ b.fields = Top.fields /\ b.ty = TyAuto /\ b.val = Top.val
      BY <2>5, <2>6, TopIs DEF FrameFields
    <3>4. /\ c.node = Top.node /\ c.exp = Top.exp /\ c.save = Top.save /\ c.j = Top.j
          /\ c.fields = Top.fields /\ c.ty = TyAuto /\ c.val = Uninit
      BY <2>5, <2>6, TopIs DEF FrameFields
    <3> QED BY <2>4, <3>1, <3>2, <3>3, <3>4
  <2>8. /\ scopes' = SetSymbol(k, This.name, new)
        /\ hadError' = (hadError \/ (~HasKid(1) /\ ~HasKid(2)))
        /\ \/ stack' = Append(Below, a) /\ ctl' = Call(Kid(1), NoType)
           \/ stack' = Append(Below, b) /\ ctl' = Call(Kid(2), TyAuto)
           \/ stack' = Append(Below, c) /\ ctl' = Go
        /\ UNCHANGED <<prog, folded, hint, types, threshold, retType>>
    BY <1>1, <1>2, <1>5, <2>1, <2>5, <2>6 DEF OpenVarDecl, Loop, Driver
  <2>9. \A n, t : Call(n, t).op = "call" /\ Call(n, t).val = None /\ Call(n, t).exp = t
    BY DEF Call, Control
  <2>10. ctl'.op \in {"call", "go", "return"} /\ Made(types, ctl'.val) /\ ctl'.exp \in TypesIn(types)
    BY <2>8, <2>9, GoIs, Given, ConstantsAreMade
  <2>11. hadError' \in BOOLEAN
    BY <2>8 DEF HasKid
  <2>12. retType' \in TypesIn(types) /\ threshold' \in TyString .. LastTypeId(types)
    BY <2>8, SymbolsAre DEF Sound
  <2> QED BY <2>3, <2>7, <2>8, <2>10, <2>11, <2>12, AssembledWithScopes DEF Sound
<1> QED BY <1>3, <1>4, <1>5

LEMMA ResetIsMade == ASSUME ValueInv, ResetNewTypes, types' = types
                     PROVE  threshold' \in TyString .. LastTypeId(types)
<1>1. PICK n \in Nat : n = LastTypeId(types) /\ n >= TyString
  BY TypeIds0 DEF ValueInv
<1> QED BY <1>1 DEF ResetNewTypes, TyString

LEMMA FailVarDeclKeeps ==
  ASSUME Sound, This.kind = "VAR_DECL", NEW report \in BOOLEAN, FailVarDecl(report)
  PROVE  ValueInv'
<1>1. PICK s : s = SymbolAt(Top.sym, This.name)
  OBVIOUS
<1>2. PICK new : new = [s EXCEPT !.value = Bad, !.type = NoType, !.node = Top.node, !.level = Declared]
  OBVIOUS
<1>3. /\ scopes' = SetSymbol(Top.sym, This.name, new)
      /\ ResetNewTypes /\ hadError' = (hadError \/ report)
      /\ stack' = Below /\ ctl' = Returned(Bad)
      /\ UNCHANGED <<prog, folded, hint, types, retType>>
  BY <1>1, <1>2 DEF FailVarDecl, Return, Driver
<1>4. Made(types, Bad) /\ NoType \in TypesIn(types)
  BY Given, ConstantsAreMade
<1>5. SymbolsIn(SetSymbol(Top.sym, This.name, new))
  <2>1. ASSUME Top.sym \in DOMAIN scopes, This.name \in DOMAIN scopes[Top.sym].sym
        PROVE  SymbolMade(types, new)
    <3>1. DOMAIN s = SymbolFields
      BY <1>1, <2>1 DEF Sound, Shape, ScopesOK, SymbolOK
    <3>2. new.level = Declared /\ new.type = NoType /\ new.value = Bad
      BY <1>2, <3>1 DEF SymbolFields
    <3>3. IsBad(Bad)
      BY DEF IsBad, Bad, Val
    <3> QED BY <1>4, <3>2, <3>3 DEF SymbolMade, Levels
  <2> QED BY <2>1, SetSymbolMade, SymbolsAre DEF Sound, Shape
<1>6. ctl'.op \in {"call", "go", "return"} /\ Made(types, ctl'.val) /\ ctl'.exp \in TypesIn(types)
  BY <1>3, <1>4, ReturnedIs
<1>7. hadError' \in BOOLEAN /\ retType' \in TypesIn(types) /\ threshold' \in TyString .. LastTypeId(types)
  BY <1>3, ResetIsMade, SymbolsAre DEF Sound
<1> QED BY <1>3, <1>5, <1>6, <1>7, AssembledWithScopes DEF Sound

LEMMA DeclareVarKeeps ==
  ASSUME Sound, This.kind = "VAR_DECL", NEW type \in TypesIn(types),
         NEW v, Made(types, v), TypeOf(v) = type, DeclareVar(type, v)
  PROVE  ValueInv'
<1>1. PICK s : s = SymbolAt(Top.sym, This.name)
  OBVIOUS
<1>2. PICK new : new = [s EXCEPT !.type = type, !.value = v, !.level = Declared]
  OBVIOUS
<1>3. /\ scopes' = SetSymbol(Top.sym, This.name, new)
      /\ folded' = IF HasKid(2) /\ v.k # "RUNTIME" THEN [folded EXCEPT ![Kid(2)] = v] ELSE folded
      /\ ResetNewTypes
      /\ stack' = Below /\ ctl' = Returned(v)
      /\ UNCHANGED <<prog, hint, types, hadError, retType>>
  BY <1>1, <1>2 DEF DeclareVar, Return, Driver
<1>4. SymbolsIn(SetSymbol(Top.sym, This.name, new))
  <2>1. ASSUME Top.sym \in DOMAIN scopes, This.name \in DOMAIN scopes[Top.sym].sym
        PROVE  SymbolMade(types, new)
    <3>1. DOMAIN s = SymbolFields
      BY <1>1, <2>1 DEF Sound, Shape, ScopesOK, SymbolOK
    <3>2. new.level = Declared /\ new.type = type /\ new.value = v
      BY <1>2, <3>1 DEF SymbolFields
    <3> QED BY <3>2 DEF SymbolMade, Levels
  <2> QED BY <2>1, SetSymbolMade, SymbolsAre DEF Sound, Shape
<1>5. ctl'.op \in {"call", "go", "return"} /\ Made(types, ctl'.val) /\ ctl'.exp \in TypesIn(types)
  BY <1>3, ReturnedIs, Given
<1>6. hadError' \in BOOLEAN /\ retType' \in TypesIn(types) /\ threshold' \in TyString .. LastTypeId(types)
  BY <1>3, ResetIsMade, SymbolsAre DEF Sound
<1>7. folded' = folded \/ \E n, w : Made(types, w) /\ folded' = [folded EXCEPT ![n] = w]
  BY <1>3
<1> QED BY <1>3, <1>4, <1>5, <1>6, <1>7, AssembledWithScopes DEF Sound

\* A declaration is given a value of the type it has or infers, or fails.
LEMMA FinishIs ==
  ASSUME Sound, NEW value, Made(types, value), FinishVarDecl(value)
  PROVE  \E type \in TypesIn(types) : \E v :
           /\ Made(types, v) /\ (IsBad(v) \/ IsCrash(v) \/ TypeOf(v) = type)
           /\ \/ Yield(Crash) \/ FailVarDecl(TRUE)
              \/ ~IsCrash(v) /\ ~IsBad(v) /\ DeclareVar(type, v)
<1>1. PICK v0 : v0 = IF Top.ty # TyAuto /\ value.k = "UNINIT" THEN DefaultFor(types, Top.ty) ELSE value
  OBVIOUS
<1>2. PICK type : type = IF Top.ty = TyAuto THEN TypeOf(value) ELSE Top.ty
  OBVIOUS
<1>3. PICK v : v = IF type = TypeOf(v0) THEN v0 ELSE Coerce(types, type, v0)
  OBVIOUS
<1>4. IF IsCrash(v0) \/ IsCrash(v) THEN Yield(Crash)
      ELSE IF IsBad(v) THEN FailVarDecl(TRUE)
      ELSE DeclareVar(type, v)
  BY <1>1, <1>2, <1>3 DEF FinishVarDecl
<1>5. PoolMade(types) /\ Top.ty \in TypesIn(types) /\ type \in TypesIn(types) /\ Made(types, v0)
  BY <1>1, <1>2, Given, TypeOfMade, DefaultIsMade DEF MadeFor
<1>6. Made(types, v) /\ (IsBad(v) \/ IsCrash(v) \/ TypeOf(v) = type)
  <2>1. CASE type = TypeOf(v0)
    BY <1>3, <1>5, <2>1
  <2>2. CASE type # TypeOf(v0)
    BY <1>3, <1>5, <2>2, CoerceIsMade DEF MadeFor
  <2> QED BY <2>1, <2>2
<1> QED BY <1>4, <1>5, <1>6

LEMMA FinishVarDeclKeeps ==
  ASSUME Sound, This.kind = "VAR_DECL", NEW value, Made(types, value), FinishVarDecl(value)
  PROVE  ValueInv'
<1>1. Yield(Crash) => ValueInv'
  BY YieldKeeps, ConstantsAreMade, Given DEF Sound
<1> QED BY <1>1, FinishIs, FailVarDeclKeeps, DeclareVarKeeps

LEMMA VarDeclKeeps == ASSUME ValueInv, Shape, AnalyzeVarDecl PROVE ValueInv'
<1>1. Sound /\ This.kind = "VAR_DECL"
  BY SoundIs DEF AnalyzeVarDecl
<1>2. CASE OpenVarDecl
  BY <1>1, <1>2, OpenVarDeclKeeps
<1>3. ASSUME NEW report \in BOOLEAN, FailVarDecl(report) PROVE ValueInv'
  BY <1>1, <1>3, FailVarDeclKeeps
<1>4. (~IsBad(ctl.val)) \in BOOLEAN
  BY DEF IsBad
<1>5. PICK f, g, h : /\ f = [Top EXCEPT !.ty = ctl.val.t]
                     /\ g = [f EXCEPT !.pc = "value"]
                     /\ h = [[f EXCEPT !.val = Uninit] EXCEPT !.pc = "next"]
  OBVIOUS
<1>6. FrameMade(types, g) /\ FrameMade(types, h)
  <2>1. ctl.val.t \in TypesIn(types) /\ Made(types, Top.val) /\ Made(types, Uninit)
    BY <1>1, Given, TopVal, ConstantsAreMade
  <2>2. /\ g.node = Top.node /\ g.exp = Top.exp /\ g.save = Top.save /\ g.j = Top.j
        /\ g.fields = Top.fields /\ g.ty = ctl.val.t /\ g.val = Top.val
    BY <1>1, <1>5, TopIs DEF FrameFields
  <2>3. /\ h.node = Top.node /\ h.exp = Top.exp /\ h.save = Top.save /\ h.j = Top.j
        /\ h.fields = Top.fields /\ h.ty = ctl.val.t /\ h.val = Uninit
    BY <1>1, <1>5, TopIs DEF FrameFields
  <2>4. FrameMade(types, g)
    BY <1>1, <2>1, <2>2, FrameChanged
  <2>5. FrameMade(types, h)
    BY <1>1, <2>1, <2>3, FrameChanged
  <2> QED BY <2>4, <2>5
<1>7. CASE Visit(g, Kid(2), ctl.val.t)
  BY <1>1, <1>6, <1>7, Given, VisitKeeps DEF Sound
<1>8. CASE /\ Loop([f EXCEPT !.val = Uninit])
           /\ UNCHANGED <<folded, hint, scopes, types, threshold, names, hadError, retType, Driver>>
  <2>1. /\ UNCHANGED <<prog, types, scopes, threshold, retType, folded, hint, hadError>>
        /\ stack' = Append(Below, h) /\ ctl' = Go
    BY <1>5, <1>8 DEF Loop, Driver
  <2>2. hadError' \in BOOLEAN
    BY <2>1, SymbolsAre
  <2> QED BY <1>1, <1>6, <2>1, <2>2, GoIs, NoTypeIsThere, AssembledQuietly DEF Sound
<1>9. CASE FinishVarDecl(ctl.val) \/ FinishVarDecl(Top.val)
  BY <1>1, <1>9, FinishVarDeclKeeps, Given, TopVal
<1> QED BY <1>2, <1>3, <1>4, <1>5, <1>7, <1>8, <1>9 DEF AnalyzeVarDecl

(***************************************************************************)
(* Structs.                                                                *)
(***************************************************************************)
\* The fields of a struct type under way, with one more.
LEMMA FieldAdded ==
  ASSUME NEW tp, PoolMade(tp), NEW fields, FieldsMade(tp, NextTypeId(tp), fields),
         NEW fld, fld.type \in TypesIn(tp), fld.hasDefault => Made(tp, fld.default),
         NEW new, new = Append(fields, fld)
  PROVE  FieldsMade(tp, NextTypeId(tp), new) /\ Len(new) = Len(fields) + 1
<1>1. PICK k \in Nat : k = Len(tp) /\ TypesIn(tp) = 0 .. 270 + k
  BY TypeIds0 DEF LastTypeId, TypesIn, TyString
<1>2. NextTypeId(tp) = 271 + k
  BY <1>1 DEF NextTypeId, TyString
<1>3. FieldMade(tp, NextTypeId(tp), fld)
  BY <1>1, <1>2 DEF FieldMade
<1>4. PICK F : fields \in Seq(F)
  BY DEF FieldsMade
<1>5. PICK n \in Nat : n = Len(fields) /\ DOMAIN fields = 1 .. n
  BY <1>4
<1>6. PICK G : G = F \cup {fld}
  OBVIOUS
<1>7. fields \in Seq(G) /\ fld \in G
  BY <1>4, <1>6
<1>8. /\ new \in Seq(G) /\ Len(new) = n + 1 /\ DOMAIN new = 1 .. n + 1
       /\ new[n + 1] = fld /\ \A i \in 1 .. n : new[i] = fields[i]
  BY <1>5, <1>7
<1>9. \A i \in DOMAIN new : i \in 1 .. n \/ i = n + 1
  BY <1>8
<1>10. \A i \in DOMAIN new : FieldMade(tp, NextTypeId(tp), new[i])
  BY <1>3, <1>5, <1>8, <1>9 DEF FieldsMade
<1> QED BY <1>5, <1>8, <1>10 DEF FieldsMade

\* The running frame of a struct type, at another field and with more of them.
LEMMA StructFrameMade ==
  ASSUME Sound, This.kind = "STRUCT_TYPE", NEW g,
         g.node = Top.node, g.exp = Top.exp, g.save = Top.save, g.j \in Nat \ {0},
         FieldsMade(types, NextTypeId(types), g.fields), g.ty \in TypesIn(types), g.val = Top.val
  PROVE  FrameMade(types, g)
<1>1. FrameMade(types, Top)
  BY TopIs
<1> QED BY <1>1, TopVal DEF FrameMade, Collects, This

LEMMA NextNameIs ==
  ASSUME Sound, NEW f, DOMAIN f = FrameFields, f.j \in Nat \ {0},
         NEW g, g = [NextName(f) EXCEPT !.pc = "next"]
  PROVE  /\ g.node = f.node /\ g.exp = f.exp /\ g.save = f.save /\ g.j \in Nat \ {0}
         /\ g.fields = f.fields /\ g.ty = f.ty /\ g.val = f.val
<1>1. CASE f.j < Len(This.labels[f.i])
  <2>1. NextName(f) = [f EXCEPT !.j = f.j + 1]
    BY <1>1 DEF NextName
  <2> QED BY <2>1 DEF FrameFields
<1>2. CASE ~(f.j < Len(This.labels[f.i]))
  <2>1. NextName(f) = [f EXCEPT !.i = f.i + 1, !.j = 1]
    BY <1>2 DEF NextName
  <2> QED BY <2>1 DEF FrameFields
<1> QED BY <1>1, <1>2

LEMMA FailFieldKeeps ==
  ASSUME Sound, This.kind = "STRUCT_TYPE", NEW report \in BOOLEAN, FailField(report)
  PROVE  ValueInv'
<1>1. PICK f, h, g : /\ f = [Top EXCEPT !.bad = TRUE]
                     /\ h = NextName(f) /\ g = [h EXCEPT !.pc = "next"]
  OBVIOUS
<1>2. /\ DOMAIN f = FrameFields /\ f.node = Top.node /\ f.exp = Top.exp /\ f.save = Top.save
      /\ f.j = Top.j /\ f.fields = Top.fields /\ f.ty = Top.ty /\ f.val = Top.val
  BY <1>1, TopIs DEF FrameFields
<1>3. f.j \in Nat \ {0} /\ FieldsMade(types, NextTypeId(types), Top.fields) /\ Top.ty \in TypesIn(types)
  BY <1>2, TopIs DEF FrameMade
<1>4. FrameMade(types, g)
  <2>1. g = [NextName(f) EXCEPT !.pc = "next"]
    BY <1>1
  <2>2. /\ g.node = f.node /\ g.exp = f.exp /\ g.save = f.save /\ g.j \in Nat \ {0}
        /\ g.fields = f.fields /\ g.ty = f.ty /\ g.val = f.val
    BY <1>2, <1>3, <2>1, NextNameIs
  <2> QED BY <1>2, <1>3, <2>2, StructFrameMade
<1>5. Continue(h, report)
  BY <1>1 DEF FailField
<1> QED BY <1>1, <1>4, <1>5, ContinueKeeps DEF Sound

LEMMA AddFieldKeeps ==
  ASSUME Sound, This.kind = "STRUCT_TYPE", NEW type \in TypesIn(types), NEW has, NEW default,
         has => Made(types, default), AddField(type, has, default)
  PROVE  ValueInv'
<1>1. PICK new : new = Append(Top.fields, Field(This.labels[Top.i][Top.j], type, has, default))
  OBVIOUS
<1>2. PICK f, h, g : /\ f = [Top EXCEPT !.fields = new]
                     /\ h = NextName(f) /\ g = [h EXCEPT !.pc = "next"]
  OBVIOUS
<1>3. /\ DOMAIN f = FrameFields /\ f.node = Top.node /\ f.exp = Top.exp /\ f.save = Top.save
      /\ f.j = Top.j /\ f.fields = new /\ f.ty = Top.ty /\ f.val = Top.val
  BY <1>2, TopIs DEF FrameFields
<1>4. f.j \in Nat \ {0} /\ FieldsMade(types, NextTypeId(types), Top.fields) /\ Top.ty \in TypesIn(types)
  BY <1>3, TopIs DEF FrameMade
<1>5. FieldsMade(types, NextTypeId(types), new)
  <2>1. PICK fld : fld = Field(This.labels[Top.i][Top.j], type, has, default)
    OBVIOUS
  <2>2. fld.type = type /\ fld.hasDefault = has /\ fld.default = default
    BY <2>1 DEF Field
  <2> QED BY <1>1, <1>4, <2>1, <2>2, FieldAdded, Given
<1>6. FrameMade(types, g)
  <2>1. g = [NextName(f) EXCEPT !.pc = "next"]
    BY <1>2
  <2>2. /\ g.node = f.node /\ g.exp = f.exp /\ g.save = f.save /\ g.j \in Nat \ {0}
        /\ g.fields = f.fields /\ g.ty = f.ty /\ g.val = f.val
    BY <1>3, <1>4, <2>1, NextNameIs
  <2> QED BY <1>3, <1>4, <1>5, <2>2, StructFrameMade
<1>7. Continue(h, FALSE)
  BY <1>1, <1>2 DEF AddField
<1> QED BY <1>2, <1>6, <1>7, ContinueKeeps DEF Sound

LEMMA ReadDefaultKeeps ==
  ASSUME Sound, This.kind = "STRUCT_TYPE", NEW type \in TypesIn(types), ReadDefault(type)
  PROVE  ValueInv'
<1>1. CASE Visit([Top EXCEPT !.pc = "default", !.ty = type], Kid(2 * Top.i), type)
  BY <1>1, FrameWaitsAs, VisitKeeps DEF Sound
<1>2. CASE FailField(TRUE) \/ AddField(type, FALSE, None)
  BY <1>2, FailFieldKeeps, AddFieldKeeps
<1> QED BY <1>1, <1>2 DEF ReadDefault

LEMMA FieldDefaultKeeps ==
  ASSUME Sound, This.kind = "STRUCT_TYPE", FieldDefault(ctl.val)
  PROVE  ValueInv'
<1>1. PICK default : default = ctl.val
  OBVIOUS
<1>2. PICK inferred, coerced : /\ inferred = UntypedToTyped(TypeOf(default))
                               /\ coerced = Coerce(types, Top.ty, default)
  OBVIOUS
<1>3. /\ PoolMade(types) /\ Made(types, default) /\ Top.ty \in TypesIn(types)
      /\ TypeOf(default) \in TypesIn(types)
  BY <1>1, Given
<1>4. inferred \in TypesIn(types)
  <2>1. \A t \in {TyInt, TyFloat, TyString} : t \in 0 .. TyString
    BY DEF TyInt, TyFloat, TyString
  <2> QED BY <1>2, <1>3, <2>1, TypeIds0 DEF UntypedToTyped
<1>5. Made(types, ValueCast(types, inferred, default)) /\ Made(types, coerced)
  BY <1>2, <1>3, <1>4, ValueCastIsMade, CoerceIsMade
<1>6. PICK kept : kept = IF inferred = TypeOf(default) THEN default ELSE ValueCast(types, inferred, default)
  OBVIOUS
<1>7. FailField(TRUE) \/ FailField(FALSE) => ValueInv'
  BY FailFieldKeeps
<1>8. AddField(inferred, TRUE, kept) => ValueInv'
  BY <1>3, <1>4, <1>5, <1>6, AddFieldKeeps
<1>9. AddField(Top.ty, TRUE, default) \/ AddField(Top.ty, TRUE, coerced) => ValueInv'
  BY <1>3, <1>5, AddFieldKeeps
<1>10. Yield(Crash) => ValueInv'
  BY YieldKeeps, ConstantsAreMade, Given DEF Sound
<1> QED BY <1>1, <1>2, <1>6, <1>7, <1>8, <1>9, <1>10 DEF FieldDefault

LEMMA StructTypeKeeps == ASSUME ValueInv, Shape, AnalyzeStructType PROVE ValueInv'
<1>1. Sound /\ This.kind = "STRUCT_TYPE"
  BY SoundIs DEF AnalyzeStructType, AtLoop
<1>2. CASE Visit([Top EXCEPT !.pc = "type"], Kid(2 * Top.i - 1), NoType)
  BY <1>1, <1>2, FrameWaits, Given, VisitKeeps DEF Sound
<1>3. CASE ReadDefault(TyAuto) \/ ReadDefault(ctl.val.t)
  BY <1>1, <1>3, Given, ReadDefaultKeeps
<1>4. ASSUME NEW report \in BOOLEAN, FailField(report) PROVE ValueInv'
  BY <1>1, <1>4, FailFieldKeeps
<1>5. (~IsBad(ctl.val)) \in BOOLEAN
  BY DEF IsBad
<1>6. CASE FieldDefault(ctl.val)
  BY <1>1, <1>6, FieldDefaultKeeps
<1>7. CASE Yield(Bad)
  BY <1>1, <1>7, YieldKeeps, ConstantsAreMade, Given DEF Sound
<1>8. CASE InjectNewType(Info("STRUCT", FALSE, Top.fields), TypeVal(NextTypeId(types)))
  <2>1. PICK info : info = Info("STRUCT", FALSE, Top.fields)
    OBVIOUS
  <2>2. FieldsMade(types, NextTypeId(types), info.fields)
    BY <1>1, <2>1, TopIs DEF Info, FrameMade
  <2>3. PICK new : new = Append(types, info)
    OBVIOUS
  <2>4. PoolMade(new) /\ NextTypeId(types) \in TypesIn(new)
    BY <1>1, <2>2, <2>3, Given, PoolGrows
  <2>5. Made(new, TypeVal(NextTypeId(types)))
    BY <2>4, ConstantsAreMade
  <2> QED BY <1>1, <1>8, <2>1, <2>2, <2>3, <2>5, NewTypeKeeps DEF Sound
<1> QED BY <1>2, <1>3, <1>4, <1>5, <1>6, <1>7, <1>8 DEF AnalyzeStructType

(***************************************************************************)
(* Struct literals.                                                        *)
(***************************************************************************)
\* A value with another field is well made.
LEMMA FieldReplaced ==
  ASSUME NEW tp, PoolMade(tp), NEW v, Made(tp, v), NEW w, Made(tp, w), NEW i,
         NEW u, u = [v EXCEPT !.fs[i] = w]
  PROVE  Made(tp, u)
<1>1. /\ v = Val(v.k, v.t, v.fs) /\ v.k \in ValueKinds /\ v.t \in TypesIn(tp)
      /\ \A j \in DOMAIN v.fs : Made(tp, v.fs[j])
      /\ v.k = "STRUCT" => Len(v.fs) = Len(Fields(tp, v.t))
  BY MadeIs
<1>2. PICK S : v.fs \in Seq(S)
  BY MadeIs
<1>3. PICK fs : fs = [v.fs EXCEPT ![i] = w]
  OBVIOUS
<1>4. u = Val(v.k, v.t, fs)
  BY <1>1, <1>3 DEF Val
<1>5. PICK T : T = S \cup {w}
  OBVIOUS
<1>6. v.fs \in Seq(T)
  BY <1>2, <1>5
<1>7. PICK n \in Nat : v.fs \in [1 .. n -> T] /\ n = Len(v.fs)
  BY <1>6
<1>8. fs \in [1 .. n -> T] /\ n \in Nat
  BY <1>3, <1>5, <1>7
<1>9. fs \in Seq(T) /\ DOMAIN fs = 1 .. n
  BY <1>8
<1>10. Len(fs) = Len(v.fs)
  BY <1>7, <1>9
<1>11. \A j \in DOMAIN fs : Made(tp, fs[j])
  BY <1>1, <1>3
<1> QED BY <1>1, <1>4, <1>9, <1>10, <1>11, ObjectIsMade

\* The running frame of a literal whose type is known.
LEMMA LiteralFrameMade ==
  ASSUME Sound, This.kind = "STRUCT_LITERAL", NEW g,
         g.node = Top.node, g.exp = Top.exp, g.save = Top.save, g.j \in Nat \ {0},
         g.fields = Top.fields, g.ty \in TypesIn(types), ~Collects(g), Made(types, g.val),
         g.pc # "item", g.pc = "value" => g.ty # TyAuto /\ g.j - 1 \in DOMAIN Fields(types, g.ty),
         g.pc \in {"enter", "to"} => Top.pc \in {"enter", "to"}
  PROVE  FrameMade(types, g)
<1>1. FrameMade(types, Top)
  BY TopIs
<1> QED BY <1>1 DEF FrameMade, This

LEMMA StartLiteralKeeps ==
  ASSUME Sound, This.kind = "STRUCT_LITERAL", Top.pc \in {"enter", "to"},
         NEW t \in TypesIn(types), StartLiteral(t)
  PROVE  ValueInv'
<1>1. FrameMade(types, Top) /\ Top.fields = <<>> /\ DOMAIN Top = FrameFields
  BY TopIs DEF FrameMade, This
<1>2. CASE t = TyAuto
  <2>1. PICK v : v = Val("STRUCT", NoType, <<>>)
    OBVIOUS
  <2>2. PICK f, g : f = [Top EXCEPT !.ty = TyAuto, !.val = v] /\ g = [f EXCEPT !.pc = "next"]
    OBVIOUS
  <2>3. /\ g.node = Top.node /\ g.exp = Top.exp /\ g.save = Top.save /\ g.j = Top.j
        /\ g.fields = <<>> /\ g.ty = TyAuto /\ g.val = v /\ g.pc = "next"
    BY <1>1, <2>2 DEF FrameFields
  <2>4. v.fs = <<>> /\ v = Val("STRUCT", NoType, v.fs)
    BY <2>1 DEF Val
  <2>5. Collects(g)
    BY <2>3 DEF Collects, This
  <2>6. <<>> \in Seq({}) /\ DOMAIN <<>> = {}
    OBVIOUS
  <2>7. FrameMade(types, g)
    BY <1>1, <1>2, <2>3, <2>4, <2>5, <2>6 DEF FrameMade
  <2>8. Continue(f, FALSE)
    BY <1>2, <2>1, <2>2 DEF StartLiteral
  <2> QED BY <2>2, <2>7, <2>8, ContinueKeeps DEF Sound
<1>3. CASE t # TyAuto /\ (Bail \/ Yield(Crash))
  BY <1>3, BailKeeps, YieldKeeps, ConstantsAreMade, Given DEF Sound
<1>4. CASE t # TyAuto /\ Continue([Top EXCEPT !.ty = t, !.val = MakeValue(types, t)], FALSE)
  <2>1. PICK f, g : f = [Top EXCEPT !.ty = t, !.val = MakeValue(types, t)] /\ g = [f EXCEPT !.pc = "next"]
    OBVIOUS
  <2>2. /\ g.node = Top.node /\ g.exp = Top.exp /\ g.save = Top.save /\ g.j = Top.j
        /\ g.fields = Top.fields /\ g.ty = t /\ g.val = MakeValue(types, t) /\ g.pc = "next"
    BY <1>1, <2>1 DEF FrameFields
  <2>3. Made(types, g.val)
    BY <2>2, Given, NewSlotIsMade DEF MadeFor
  <2>4. ~Collects(g) /\ g.j \in Nat \ {0}
    BY <1>1, <1>4, <2>2 DEF Collects, FrameMade
  <2>5. FrameMade(types, g)
    BY <2>2, <2>3, <2>4, LiteralFrameMade
  <2> QED BY <1>4, <2>1, <2>5, ContinueKeeps DEF Sound
<1> QED BY <1>2, <1>3, <1>4 DEF StartLiteral

LEMMA AutoLiteralKeeps == ASSUME ValueInv, Shape, AnalyzeAutoLiteral PROVE ValueInv'
<1>1. Sound /\ This.kind = "STRUCT_LITERAL" /\ Top.pc \in {"next", "item"}
  BY SoundIs DEF AnalyzeAutoLiteral
<1>2. FrameMade(types, Top) /\ DOMAIN Top = FrameFields
  BY <1>1, TopIs
<1>3. Bail \/ Yield(Bad) => ValueInv'
  BY <1>1, BailKeeps, YieldKeeps, ConstantsAreMade, Given DEF Sound
<1>4. CASE Top.ty = TyAuto /\ Visit([Top EXCEPT !.pc = "item"], Kid(1 + Top.i), Top.exp)
  <2>1. PICK g : g = [Top EXCEPT !.pc = "item"]
    OBVIOUS
  <2>2. /\ g.node = Top.node /\ g.exp = Top.exp /\ g.save = Top.save /\ g.j = Top.j
        /\ g.fields = Top.fields /\ g.ty = Top.ty /\ g.val = Top.val /\ g.pc = "item"
    BY <1>2, <2>1 DEF FrameFields
  <2>3. Collects(Top) /\ Collects(g)
    BY <1>1, <1>4, <2>2 DEF Collects, This
  <2>4. FrameMade(types, g)
    BY <1>2, <1>4, <2>2, <2>3 DEF FrameMade
  <2> QED BY <1>1, <1>4, <2>1, <2>4, Given, VisitKeeps DEF Sound
<1>5. CASE /\ Top.pc = "item"
           /\ Continue([NextItem EXCEPT
                !.fields = Append(@, Field(Label[1], TypeOf(ctl.val), FALSE, None)),
                !.val.fs = Append(@, ctl.val)], FALSE)
  <2>1. PICK fld : fld = Field(Label[1], TypeOf(ctl.val), FALSE, None)
    OBVIOUS
  <2>2. PICK f, g : /\ f = [NextItem EXCEPT !.fields = Append(@, fld), !.val.fs = Append(@, ctl.val)]
                    /\ g = [f EXCEPT !.pc = "next"]
    OBVIOUS
  <2>3. PICK fs, fields, val : /\ fs = Append(Top.val.fs, ctl.val) /\ fields = Append(Top.fields, fld)
                               /\ val = [Top.val EXCEPT !.fs = fs]
    OBVIOUS
  <2>4. /\ g.node = Top.node /\ g.exp = Top.exp /\ g.save = Top.save /\ g.j = Top.j
        /\ g.fields = fields /\ g.ty = Top.ty /\ g.val = val /\ g.pc = "next"
    BY <1>2, <2>2, <2>3 DEF FrameFields, NextItem
  <2>5. CASE Top.ty = TyAuto
    <3>1. Collects(Top) /\ Collects(g)
      BY <1>1, <2>4, <2>5 DEF Collects, This
    <3>2. /\ Top.val = Val("STRUCT", NoType, Top.val.fs)
          /\ \A i \in DOMAIN Top.val.fs : Made(types, Top.val.fs[i])
          /\ Len(Top.val.fs) = Len(Top.fields)
          /\ FieldsMade(types, NextTypeId(types), Top.fields)
      BY <1>2, <3>1 DEF FrameMade
    <3>3. PICK S : Top.val.fs \in Seq(S)
      BY <1>2, <3>1 DEF FrameMade
    <3>4. val = Val("STRUCT", NoType, fs) /\ val.fs = fs
      <4>1. PICK w, x : w = Top.val /\ x = Top.val.fs
        OBVIOUS
      <4>2. w = Val("STRUCT", NoType, x)
        BY <3>2, <4>1
      <4>3. val = [w EXCEPT !.fs = fs]
        BY <2>3, <4>1
      <4> QED BY <4>2, <4>3 DEF Val
    <3>5. FieldsMade(types, NextTypeId(types), fields) /\ Len(fields) = Len(Top.fields) + 1
      <4>1. PICK type : type = TypeOf(ctl.val)
        OBVIOUS
      <4>2. type \in TypesIn(types) /\ PoolMade(types)
        BY <1>1, <4>1, Given
      <4>3. fld.type = type /\ ~fld.hasDefault /\ fields = Append(Top.fields, fld)
        BY <2>1, <2>3, <4>1 DEF Field
      <4> QED BY <3>2, <4>2, <4>3, FieldAdded
    <3>6. Made(types, ctl.val)
      BY <1>1, Given
    <3>7. PICK n \in Nat : n = Len(Top.val.fs) /\ DOMAIN Top.val.fs = 1 .. n
      BY <3>3
    <3>8. PICK T : T = S \cup {ctl.val}
      OBVIOUS
    <3>9. Top.val.fs \in Seq(T) /\ ctl.val \in T
      BY <3>3, <3>8
    <3>10. /\ fs \in Seq(T) /\ Len(fs) = n + 1 /\ DOMAIN fs = 1 .. n + 1
           /\ fs[n + 1] = ctl.val /\ \A i \in 1 .. n : fs[i] = Top.val.fs[i]
      BY <2>3, <3>7, <3>9
    <3>11. \A i \in DOMAIN fs : i \in 1 .. n \/ i = n + 1
      BY <3>10
    <3>12. \A i \in DOMAIN fs : Made(types, fs[i])
      BY <3>2, <3>6, <3>7, <3>10, <3>11
    <3>13. Len(fs) = Len(fields)
      BY <3>2, <3>5, <3>7, <3>10
    <3>14. FrameMade(types, g)
      BY <1>2, <2>4, <3>1, <3>4, <3>5, <3>10, <3>12, <3>13 DEF FrameMade
    <3> QED BY <1>1, <1>5, <2>1, <2>2, <3>14, ContinueKeeps DEF Sound
  <2>6. CASE Top.ty # TyAuto
    BY <1>1, <1>2, <1>5, <2>6 DEF FrameMade, This
  <2> QED BY <2>5, <2>6
<1>6. CASE /\ Top.ty = TyAuto /\ Top.pc = "next"
           /\ InjectNewType(Info("AUTO_STRUCT", FALSE, Top.fields),
                            StructObj(NextTypeId(types), Top.val.fs))
  <2>1. Collects(Top)
    BY <1>1, <1>6 DEF Collects, This
  <2>2. /\ \A i \in DOMAIN Top.val.fs : Made(types, Top.val.fs[i])
        /\ Len(Top.val.fs) = Len(Top.fields)
        /\ FieldsMade(types, NextTypeId(types), Top.fields)
    BY <1>2, <2>1 DEF FrameMade
  <2>3. PICK S : Top.val.fs \in Seq(S)
    BY <1>2, <2>1 DEF FrameMade
  <2>4. PICK info : info = Info("AUTO_STRUCT", FALSE, Top.fields)
    OBVIOUS
  <2>5. info.fields = Top.fields
    BY <2>4 DEF Info
  <2>6. PICK new : new = Append(types, info)
    OBVIOUS
  <2>7. /\ Grows(types, new) /\ PoolMade(new)
        /\ NextTypeId(types) \in TypesIn(new) /\ Fields(new, NextTypeId(types)) = Top.fields
    BY <1>1, <2>2, <2>5, <2>6, Given, PoolGrows
  <2>8. \A i \in DOMAIN Top.val.fs : Made(new, Top.val.fs[i])
    BY <2>2, <2>7 DEF Grows
  <2>9. Made(new, StructObj(NextTypeId(types), Top.val.fs))
    BY <2>2, <2>3, <2>7, <2>8, StructIsMade DEF MadeFor
  <2> QED BY <1>1, <1>6, <2>2, <2>4, <2>5, <2>6, <2>9, NewTypeKeeps DEF Sound
<1> QED BY <1>3, <1>4, <1>5, <1>6 DEF AnalyzeAutoLiteral, At

\* The field a positional or named item goes to exists.
LEMMA TargetExists ==
  ASSUME Sound, TargetField # 0
  PROVE  TargetField \in DOMAIN Fields(types, Top.ty)
<1>1. PICK fields : fields = Fields(types, Top.ty)
  OBVIOUS
<1>2. Top.j \in Nat \ {0} /\ Top.ty \in TypesIn(types) /\ PoolMade(types)
  BY TopIs, Given DEF FrameMade
<1>3. PICK F : fields \in Seq(F)
  BY <1>1, <1>2, FieldsAreOlder DEF FieldsMade
<1>4. PICK n \in Nat : n = Len(fields) /\ DOMAIN fields = 1 .. n
  BY <1>3
<1>5. CASE Positional
  <2>1. TargetField = IF Top.j > n THEN 0 ELSE Top.j
    BY <1>1, <1>4, <1>5 DEF TargetField
  <2> QED BY <1>1, <1>2, <1>4, <2>1
<1>6. CASE ~Positional
  BY <1>1, <1>3, <1>6, FieldIndexIs DEF TargetField
<1> QED BY <1>5, <1>6

LEMMA StructLiteralKeeps == ASSUME ValueInv, Shape, AnalyzeStructLiteral PROVE ValueInv'
<1>1. CASE AnalyzeAutoLiteral
  BY <1>1, AutoLiteralKeeps
<1>2. ASSUME NEW pc, At("STRUCT_LITERAL", pc)
      PROVE  Sound /\ This.kind = "STRUCT_LITERAL" /\ Top.pc = pc
  BY <1>2, SoundIs
<1>3. ASSUME Sound
      PROVE  /\ Made(types, ctl.val) /\ PoolMade(types) /\ Made(types, Bad) /\ Made(types, Crash)
             /\ FrameMade(types, Top) /\ DOMAIN Top = FrameFields
             /\ (Bail \/ Yield(Bad) \/ Yield(Crash) => ValueInv')
  BY <1>3, Given, ConstantsAreMade, BailKeeps, YieldKeeps, TopIs DEF Sound
<1>4. CASE /\ At("STRUCT_LITERAL", "enter")
           /\ IF hint[Top.node] # NoType THEN StartLiteral(hint[Top.node])
              ELSE IF HasKid(1) THEN Visit([Top EXCEPT !.pc = "to"], Kid(1), NoType)
              ELSE StartLiteral(TyAuto)
  <2>1. Sound /\ This.kind = "STRUCT_LITERAL" /\ Top.pc = "enter"
    BY <1>2, <1>4
  <2>2. hint[Top.node] \in TypesIn(types) /\ TyAuto \in TypesIn(types) /\ NoType \in TypesIn(types)
    BY <2>1, TopIs, Given DEF Sound, ValueInv, NodesMade
  <2>3. \A t \in TypesIn(types) : StartLiteral(t) => ValueInv'
    BY <2>1, StartLiteralKeeps
  <2>4. CASE Visit([Top EXCEPT !.pc = "to"], Kid(1), NoType)
    <3>1. PICK g : g = [Top EXCEPT !.pc = "to"]
      OBVIOUS
    <3>2. /\ g.node = Top.node /\ g.exp = Top.exp /\ g.save = Top.save /\ g.j = Top.j
          /\ g.fields = Top.fields /\ g.ty = Top.ty /\ g.val = Top.val /\ g.pc = "to"
      BY <1>3, <2>1, <3>1 DEF FrameFields
    <3>3. ~Collects(Top) /\ ~Collects(g)
      BY <2>1, <3>2 DEF Collects
    <3>4. FrameMade(types, Top)
      BY <1>3, <2>1
    <3>5. FrameMade(types, g)
      BY <2>1, <3>2, <3>3, <3>4 DEF FrameMade, This
    <3> QED BY <2>1, <2>2, <2>4, <3>1, <3>5, VisitKeeps DEF Sound
  <2> QED BY <1>4, <2>2, <2>3, <2>4
<1>5. CASE /\ At("STRUCT_LITERAL", "to")
           /\ IF IsBad(ctl.val) THEN Yield(Bad)
              ELSE IF ~IsType(ctl.val) THEN Bail
              ELSE StartLiteral(ctl.val.t)
  <2>1. Sound /\ This.kind = "STRUCT_LITERAL" /\ Top.pc = "to"
    BY <1>2, <1>5
  <2>2. ctl.val.t \in TypesIn(types)
    BY <2>1, Given
  <2> QED BY <1>3, <1>5, <2>1, <2>2, StartLiteralKeeps
<1>6. CASE /\ At("STRUCT_LITERAL", "next") /\ Top.ty # TyAuto
           /\ LET i == TargetField
                  n == Kid(1 + Top.i)
                  t == Fields(types, Top.ty)[i].type
              IN  IF i = 0 THEN Continue([NextItem EXCEPT !.bad = TRUE], TRUE)
                  ELSE /\ stack' = Append(Below, [Top EXCEPT !.pc = "value", !.j = i + 1])
                       /\ ctl' = Call(n, t)
                       /\ hint' = IF TakesHint(n) THEN [hint EXCEPT ![n] = t] ELSE hint
                       /\ UNCHANGED <<folded, scopes, types, threshold, names,
                                      hadError, retType, Driver>>
  <2>1. Sound /\ This.kind = "STRUCT_LITERAL" /\ Top.pc = "next"
    BY <1>2, <1>6
  <2>2. FrameMade(types, Top) /\ DOMAIN Top = FrameFields
    BY <1>3, <2>1
  <2>3. ~Collects(Top)
    BY <1>6 DEF Collects
  <2>4. CASE TargetField = 0
    <3>1. PICK f, g : f = [NextItem EXCEPT !.bad = TRUE] /\ g = [f EXCEPT !.pc = "next"]
      OBVIOUS
    <3>2. /\ g.node = Top.node /\ g.exp = Top.exp /\ g.save = Top.save /\ g.j = Top.j
          /\ g.fields = Top.fields /\ g.ty = Top.ty /\ g.val = Top.val /\ g.pc = "next"
      BY <2>2, <3>1 DEF FrameFields, NextItem
    <3>3. FrameMade(types, g)
      BY <1>6, <2>1, <2>2, <2>3, <3>2 DEF FrameMade, This, Collects
    <3> QED BY <1>6, <2>1, <2>4, <3>1, <3>3, ContinueKeeps DEF Sound
  <2>5. CASE TargetField # 0
    <3>1. PICK i, n, t : i = TargetField /\ n = Kid(1 + Top.i) /\ t = Fields(types, Top.ty)[i].type
      OBVIOUS
    <3>2. PICK g : g = [Top EXCEPT !.pc = "value", !.j = i + 1]
      OBVIOUS
    <3>3. /\ stack' = Append(Below, g) /\ ctl' = Call(n, t)
          /\ hint' = IF TakesHint(n) THEN [hint EXCEPT ![n] = t] ELSE hint
          /\ UNCHANGED <<prog, types, scopes, threshold, retType, folded, hadError>>
      BY <1>6, <2>5, <3>1, <3>2 DEF Driver
    <3>4. Top.ty \in TypesIn(types) /\ PoolMade(types)
      BY <2>1, Given
    <3>5. i \in DOMAIN Fields(types, Top.ty) /\ i \in Nat \ {0}
      BY <2>1, <2>5, <3>1, <3>4, TargetExists, FieldsAreSeq
    <3>6. t \in TypesIn(types)
      BY <3>1, <3>4, <3>5, FieldsAreSeq
    <3>7. /\ g.node = Top.node /\ g.exp = Top.exp /\ g.save = Top.save /\ g.j = i + 1
          /\ g.fields = Top.fields /\ g.ty = Top.ty /\ g.val = Top.val /\ g.pc = "value"
      BY <2>2, <3>2 DEF FrameFields
    <3>8. g.j \in Nat \ {0} /\ g.j - 1 \in DOMAIN Fields(types, g.ty) /\ ~Collects(g)
      BY <3>5, <3>7 DEF Collects
    <3>9. FrameMade(types, g)
      BY <1>6, <2>1, <2>2, <2>3, <3>7, <3>8 DEF FrameMade, This
    <3>10. ctl'.op \in {"call", "go", "return"} /\ Made(types, ctl'.val) /\ ctl'.exp \in TypesIn(types)
      BY <3>3, <3>6, <2>1, NoTypeIsThere DEF Call, Control, Sound
    <3>11. hadError' \in BOOLEAN
      BY <2>1, <3>3, SymbolsAre DEF Sound
    <3> QED BY <2>1, <3>3, <3>6, <3>9, <3>10, <3>11, AssembledQuietly DEF Sound
  <2> QED BY <2>4, <2>5
<1>7. CASE /\ At("STRUCT_LITERAL", "value")
           /\ LET i == Top.j - 1
                  v == ValueCast(types, Fields(types, Top.ty)[i].type, ctl.val)
              IN  IF IsCrash(v) THEN Yield(Crash) ELSE SetLiteralField(i, v)
  <2>1. Sound /\ This.kind = "STRUCT_LITERAL" /\ Top.pc = "value"
    BY <1>2, <1>7
  <2>2. FrameMade(types, Top) /\ DOMAIN Top = FrameFields
    BY <1>3, <2>1
  <2>3. PICK i, v : i = Top.j - 1 /\ v = ValueCast(types, Fields(types, Top.ty)[i].type, ctl.val)
    OBVIOUS
  <2>4. i \in DOMAIN Fields(types, Top.ty) /\ Top.ty # TyAuto /\ ~Collects(Top)
    BY <2>1, <2>2, <2>3 DEF FrameMade, Collects, This
  <2>5. Made(types, v)
    <3>1. Fields(types, Top.ty)[i].type \in TypesIn(types)
      BY <2>1, <2>4, FieldsAreSeq, Given
    <3> QED BY <2>1, <2>3, <3>1, ValueCastIsMade, Given
  <2>6. CASE SetLiteralField(i, v)
    <3>1. PICK f, g : /\ f = [NextItem EXCEPT !.val.fs[i] = v, !.bad = @ \/ IsBad(v)]
                      /\ g = [f EXCEPT !.pc = "next"]
      OBVIOUS
    <3>2. /\ g.node = Top.node /\ g.exp = Top.exp /\ g.save = Top.save /\ g.j = Top.j
          /\ g.fields = Top.fields /\ g.ty = Top.ty /\ g.val = [Top.val EXCEPT !.fs[i] = v]
          /\ g.pc = "next"
      BY <2>2, <3>1 DEF FrameFields, NextItem
    <3>3. PICK val : val = [Top.val EXCEPT !.fs[i] = v]
      OBVIOUS
    <3>4. Made(types, val)
      <4>1. Made(types, Top.val) /\ PoolMade(types)
        BY <2>1, <2>2, <2>4, Given DEF FrameMade
      <4> QED BY <2>5, <3>3, <4>1, FieldReplaced
    <3>5. ~Collects(g)
      BY <2>4, <3>2 DEF Collects
    <3>6. FrameMade(types, g)
      BY <2>1, <2>2, <3>2, <3>3, <3>4, <3>5 DEF FrameMade, This
    <3>7. Continue(f, IsBad(v)) /\ IsBad(v) \in BOOLEAN
      BY <2>6, <3>1 DEF SetLiteralField, IsBad
    <3> QED BY <2>1, <3>1, <3>6, <3>7, ContinueKeeps DEF Sound
  <2> QED BY <1>3, <1>7, <2>1, <2>3, <2>6
<1>8. CASE /\ At("STRUCT_LITERAL", "next") /\ Top.ty # TyAuto
           /\ LET missing == \E i \in DOMAIN Top.val.fs : Top.val.fs[i].k = "NONE"
              IN  IF missing THEN Bail ELSE IF Top.bad THEN Yield(Bad) ELSE Inject(Top.val)
  <2>1. Sound /\ This.kind = "STRUCT_LITERAL" /\ Top.pc = "next"
    BY <1>2, <1>8
  <2>2. Made(types, Top.val)
    BY <1>3, <1>8, <2>1 DEF FrameMade, Collects
  <2> QED BY <1>3, <1>8, <2>1, <2>2, InjectKeeps DEF Sound
<1> QED BY <1>1, <1>4, <1>5, <1>6, <1>7, <1>8 DEF AnalyzeStructLiteral

(***************************************************************************)
(* The values of a state, step by step.                                    *)
(***************************************************************************)
LEMMA ValuesInitially == Init => ValueInv
<1> SUFFICES ASSUME Init PROVE ValueInv
  OBVIOUS
<1>1. /\ types = <<>> /\ stack = <<>> /\ scopes = <<>> /\ hadError = FALSE /\ retType = NoType
      /\ ctl = Returned(Uninit) /\ threshold = LastTypeId(<<>>)
      /\ folded = [n \in Nodes |-> None] /\ hint = [n \in Nodes |-> NoType]
  BY DEF Init, Nodes
<1>2. PoolMade(types)
  <2>1. types \in Seq({}) /\ DOMAIN types = {}
    BY <1>1
  <2> QED BY <2>1 DEF PoolMade
<1>3. 0 .. TyString \subseteq TypesIn(types) /\ Made(types, None) /\ Made(types, Uninit)
  BY <1>2, TypeIds0, ConstantsAreMade
<1>4. NoType \in TypesIn(types)
  BY <1>3 DEF NoType, TyString
<1>5. ControlMade
  BY <1>1, <1>3, <1>4, ReturnedIs DEF ControlMade
<1>6. NodesMade
  BY <1>1, <1>3, <1>4 DEF NodesMade
<1>7. SymbolsMade /\ FramesMade
  BY <1>1 DEF SymbolsMade, FramesMade
<1>8. RestMade
  <2>1. PICK a \in Nat, b \in Nat : a = LastTypeId(types) /\ b = TyString /\ a >= b
    <3>1. LastTypeId(types) \in Nat /\ LastTypeId(types) >= TyString
      BY <1>2, TypeIds0
    <3>2. TyString \in Nat
      BY DEF TyString
    <3> QED BY <3>1, <3>2
  <2>2. threshold = a
    BY <1>1, <2>1
  <2>3. threshold \in b .. a
    BY <2>1, <2>2
  <2>4. hadError \in BOOLEAN
    BY <1>1
  <2> QED BY <1>1, <1>4, <2>1, <2>3, <2>4 DEF RestMade
<1> QED BY <1>2, <1>5, <1>6, <1>7, <1>8 DEF ValueInv

\* A step that leaves the frames, the pool and the nodes as they are.
LEMMA WalkKeepsValues ==
  ASSUME ValueInv, UNCHANGED <<prog, folded, hint, types, threshold, stack, retType>>,
         hadError' \in BOOLEAN, SymbolsMade',
         ctl'.op \in {"call", "go", "return"}, Made(types, ctl'.val), ctl'.exp \in TypesIn(types)
  PROVE  ValueInv'
<1>1. ControlMade' /\ RestMade'
  BY DEF ValueInv, ControlMade, RestMade
<1>2. NodesMade'
  BY DEF ValueInv, NodesMade, Nodes
<1>3. FramesMade'
  BY DEF ValueInv, FramesMade, FrameMade, Collects, Node
<1> QED BY <1>1, <1>2, <1>3 DEF ValueInv

LEMMA StartKeeps == ASSUME ValueInv, Shape, Start PROVE ValueInv'
<1>1. Len(scopes') = 1 /\ DOMAIN scopes' = {1} /\ scopes'[1].sym = Hoisted(prog.decls, Undefined)
  BY StartMakesScopes
<1>2. prog.decls \in Seq(Nodes)
  BY DEF Shape, ProgramOK, Nodes
<1>3. \A x \in DOMAIN scopes'[1].sym : SymbolMade(types, scopes'[1].sym[x])
  BY <1>1, <1>2, HoistedMade
<1>4. SymbolsMade'
  BY <1>1, <1>3 DEF SymbolsMade, Start
<1>5. hadError' \in BOOLEAN
  BY DEF Start, Redefines
<1> QED BY <1>4, <1>5, WalkKeepsValues DEF Start, ValueInv, ControlMade

LEMMA ReuseNodeKeeps == ASSUME ValueInv, Shape, ReuseNode PROVE ValueInv'
<1>1. PICK v : v = IF folded[ctl.node] # None THEN folded[ctl.node] ELSE Bad
  OBVIOUS
<1>2. ctl.node \in Nodes
  BY DEF Shape, ReuseNode
<1>3. Made(types, v)
  BY <1>1, <1>2, ConstantsAreMade DEF ValueInv, NodesMade
<1>4. ctl' = Returned(v) /\ UNCHANGED <<prog, folded, hint, types, threshold, stack, retType, scopes, hadError>>
  BY <1>1 DEF ReuseNode, Driver
<1>5. SymbolsMade'
  BY <1>4 DEF ValueInv, SymbolsMade
<1>6. ctl'.op = "return" /\ Made(types, ctl'.val) /\ ctl'.exp \in TypesIn(types)
  BY <1>3, <1>4, ReturnedIs, NoTypeIsThere
<1> QED BY <1>4, <1>5, <1>6, WalkKeepsValues DEF ValueInv, RestMade

LEMMA NewFrameMade ==
  ASSUME ValueInv, NEW n, NEW exp \in TypesIn(types)
  PROVE  FrameMade(types, Frame(n, exp))
<1>1. PICK f : f = Frame(n, exp)
  OBVIOUS
<1>2. /\ f.exp = exp /\ f.ty = NoType /\ f.save = NoType /\ f.j = 1 /\ f.fields = <<>>
      /\ f.val = None /\ f.pc = "enter"
  BY <1>1 DEF Frame
<1>3. FieldsMade(types, NextTypeId(types), f.fields)
  <2>1. <<>> \in Seq({}) /\ DOMAIN <<>> = {}
    OBVIOUS
  <2> QED BY <1>2, <2>1 DEF FieldsMade
<1> QED BY <1>1, <1>2, <1>3, NoTypeIsThere DEF FrameMade, Collects

LEMMA EnterNodeKeeps == ASSUME ValueInv, Shape, EnterNode PROVE ValueInv'
<1>1. PICK f : f = Frame(ctl.node, ctl.exp)
  OBVIOUS
<1>2. FrameMade(types, f)
  BY <1>1, NewFrameMade DEF ValueInv, ControlMade
<1>3. /\ UNCHANGED <<prog, folded, hint, types, threshold, scopes, retType, hadError>>
      /\ stack' = Append(stack, f) /\ ctl' = Go
  BY <1>1 DEF EnterNode
<1>4. PICK n : n = Len(stack) + 1
  OBVIOUS
<1>5. /\ DOMAIN stack' = DOMAIN stack \cup {n} /\ stack'[n] = f
      /\ \A i \in DOMAIN stack : stack'[i] = stack[i]
  BY <1>3, <1>4, Entered DEF Shape
<1>6. \A i \in DOMAIN stack' : FrameMade(types, stack'[i])
  BY <1>2, <1>5 DEF ValueInv, FramesMade
<1>7. FramesMade'
  <2>1. ASSUME NEW i \in DOMAIN stack' PROVE FrameMade(types, stack[i])'
    <3>1. PICK g : g = stack'[i]
      OBVIOUS
    <3>2. FrameMade(types, g)
      BY <1>6, <3>1
    <3> QED BY <1>3, <3>1, <3>2 DEF FrameMade, Collects, Node
  <2> QED BY <2>1 DEF FramesMade
<1>8. ControlMade' /\ RestMade'
  BY <1>3, GoIs, NoTypeIsThere DEF ValueInv, ControlMade, RestMade
<1>9. NodesMade' /\ SymbolsMade'
  BY <1>3 DEF ValueInv, NodesMade, Nodes, SymbolsMade
<1> QED BY <1>3, <1>7, <1>8, <1>9 DEF ValueInv

LEMMA HandlerKeepsValues ==
  ASSUME ValueInv, Shape, AnalyzeExpression \/ AnalyzeVarDecl \/ AnalyzeFuncDecl,
         This.kind = "IDENT" => LazyFound
  PROVE  ValueInv'
<1>1. AnalyzeIdent => LazyFound
  BY SoundIs DEF AnalyzeIdent
<1> QED
  BY <1>1, LiteralKeeps, IdentKeeps, BinaryKeeps, UnaryKeeps, GroupingKeeps, DistinctKeeps,
     CastKeeps, AccessKeeps, StructTypeKeeps, StructLiteralKeeps, VarDeclKeeps, FuncDeclKeeps,
     FuncCallKeeps, BlockKeeps, ReturnKeeps
     DEF AnalyzeExpression, AnalyzeLeaf

LEMMA ValuesKept ==
  ASSUME ValueInv, Shape, [Next]_vars, stack # <<>> /\ This.kind = "IDENT" => LazyFound
  PROVE  ValueInv'
<1>1. CASE UNCHANGED vars \/ Finish \/ Unreachable
  <2>1. UNCHANGED <<prog, folded, hint, types, threshold, stack, retType, scopes, hadError, ctl>>
    BY <1>1 DEF vars, Finish, Unreachable
  <2> QED BY <2>1, WalkKeepsValues DEF ValueInv, SymbolsMade, RestMade, ControlMade
<1>2. CASE NextDeclaration
  <2>1. /\ UNCHANGED <<prog, folded, hint, types, threshold, stack, retType, scopes, hadError>>
        /\ ctl' = Call(prog.decls[next], NoType)
    BY <1>2 DEF NextDeclaration
  <2>2. ctl'.op = "call" /\ ctl'.val = None /\ ctl'.exp = NoType
    BY <2>1 DEF Call, Control
  <2> QED BY <2>1, <2>2, NoTypeIsThere, WalkKeepsValues DEF ValueInv, SymbolsMade, RestMade
<1>3. CASE AnalyzeExpression \/ AnalyzeVarDecl \/ AnalyzeFuncDecl
  BY <1>3, HandlerRuns, HandlerKeepsValues
<1> QED BY <1>1, <1>2, <1>3, StartKeeps, ReuseNodeKeeps, EnterNodeKeeps DEF Next, Finished, AnalyzeNode

\* A declared symbol whose value, if it is not an error value, is of its type.
ValueFits(s) == s.level = Declared => IsBad(s.value) \/ TypeOf(s.value) = s.type

LEMMA OnlyThatSymbol ==
  ASSUME ScopesOK, NEW k, NEW x, NEW s, NEW new, new = SetSymbol(k, x, s),
         NEW j \in DOMAIN scopes, NEW y \in DOMAIN scopes[j].sym
  PROVE  new[j].sym[y] = scopes[j].sym[y] \/ (j = k /\ y = x /\ new[j].sym[y] = s)
<1>1. new[j] = IF j = k THEN [scopes[j] EXCEPT !.sym[x] = s] ELSE scopes[j]
  BY DEF SetSymbol
<1>2. CASE j # k
  BY <1>1, <1>2
<1>3. CASE j = k
  <2>1. PICK sc : sc = scopes[j] /\ DOMAIN sc = {"root", "sym"}
    BY DEF ScopesOK
  <2>2. new[j] = [sc EXCEPT !.sym[x] = s]
    BY <1>1, <1>3, <2>1
  <2>3. new[j].sym = [sc.sym EXCEPT ![x] = s]
    BY <2>1, <2>2
  <2> QED BY <1>3, <2>1, <2>3
<1> QED BY <1>2, <1>3

\* A variable is declared with a value that fits.
LEMMA DeclaredFits ==
  ASSUME ValueInv, Shape, AnalyzeVarDecl, NEW k \in DOMAIN scopes, NEW x \in DOMAIN scopes[k].sym
  PROVE  scopes'[k].sym[x] = scopes[k].sym[x] \/ ValueFits(scopes'[k].sym[x])
<1>1. Sound /\ This.kind = "VAR_DECL" /\ ScopesOK
  BY SoundIs DEF AnalyzeVarDecl, Shape
<1>2. PICK old : old = SymbolAt(Top.sym, This.name)
  OBVIOUS
<1>3. Top.sym \in DOMAIN scopes /\ This.name \in DOMAIN scopes[Top.sym].sym => DOMAIN old = SymbolFields
  BY <1>1, <1>2 DEF ScopesOK, SymbolOK
<1>4. ASSUME scopes' = scopes PROVE scopes'[k].sym[x] = scopes[k].sym[x]
  BY <1>4
<1>5. CASE OpenVarDecl
  <2>1. PICK l, s, new : /\ l = Lookup(This.name) /\ s = SymbolAt(l, This.name)
                         /\ new = [s EXCEPT !.const = This.const, !.level = Defined]
    OBVIOUS
  <2>2. scopes' = scopes \/ scopes' = SetSymbol(l, This.name, new)
    BY <1>5, <2>1 DEF OpenVarDecl, Yield, Driver
  <2>3. ASSUME l \in DOMAIN scopes, This.name \in DOMAIN scopes[l].sym PROVE ValueFits(new)
    <3>1. DOMAIN s = SymbolFields
      BY <1>1, <2>1, <2>3 DEF ScopesOK, SymbolOK
    <3>2. new.level = Defined /\ Defined # Declared
      BY <2>1, <3>1 DEF SymbolFields, Defined, Declared
    <3> QED BY <3>2 DEF ValueFits
  <2> QED BY <1>1, <1>4, <2>2, <2>3, OnlyThatSymbol
<1>6. ASSUME NEW report, FailVarDecl(report)
      PROVE  scopes'[k].sym[x] = scopes[k].sym[x] \/ ValueFits(scopes'[k].sym[x])
  <2>1. PICK new : new = [old EXCEPT !.value = Bad, !.type = NoType, !.node = Top.node, !.level = Declared]
    OBVIOUS
  <2>2. scopes' = SetSymbol(Top.sym, This.name, new)
    BY <1>2, <1>6, <2>1 DEF FailVarDecl
  <2>3. ASSUME DOMAIN old = SymbolFields PROVE ValueFits(new)
    <3>1. new.value = Bad
      BY <2>1, <2>3 DEF SymbolFields
    <3> QED BY <3>1 DEF ValueFits, IsBad, Bad, Val
  <2> QED BY <1>1, <1>3, <2>2, <2>3, OnlyThatSymbol
<1>7. ASSUME NEW value, Made(types, value), FinishVarDecl(value)
      PROVE  scopes'[k].sym[x] = scopes[k].sym[x] \/ ValueFits(scopes'[k].sym[x])
  <2>1. PICK type, v : /\ IsBad(v) \/ IsCrash(v) \/ TypeOf(v) = type
                       /\ \/ Yield(Crash) \/ FailVarDecl(TRUE)
                          \/ ~IsCrash(v) /\ DeclareVar(type, v)
    BY <1>1, <1>7, FinishIs
  <2>2. CASE Yield(Crash)
    BY <1>4, <2>2 DEF Yield, Driver
  <2>3. CASE ~IsCrash(v) /\ DeclareVar(type, v)
    <3>1. PICK new : new = [old EXCEPT !.type = type, !.value = v, !.level = Declared]
      OBVIOUS
    <3>2. scopes' = SetSymbol(Top.sym, This.name, new)
      BY <1>2, <2>3, <3>1 DEF DeclareVar
    <3>3. ASSUME DOMAIN old = SymbolFields PROVE ValueFits(new)
      <4>1. new.value = v /\ new.type = type
        BY <3>1, <3>3 DEF SymbolFields
      <4> QED BY <2>1, <2>3, <4>1 DEF ValueFits
    <3> QED BY <1>1, <1>3, <3>2, <3>3, OnlyThatSymbol
  <2> QED BY <1>6, <2>1, <2>2, <2>3
<1>8. Made(types, ctl.val) /\ Made(types, Top.val)
  BY <1>1, Given, TopVal
<1>9. \/ OpenVarDecl \/ scopes' = scopes \/ (\E report : FailVarDecl(report))
      \/ FinishVarDecl(ctl.val) \/ FinishVarDecl(Top.val)
  BY DEF AnalyzeVarDecl, Visit
<1> QED BY <1>4, <1>5, <1>6, <1>7, <1>8, <1>9

(***************************************************************************)
(* Errors are reported.                                                    *)
(***************************************************************************)
\* Each field of a struct type has a type of its own.  The type of `a, b: T` is
\* analysed once for each name, and the second time may be answered VAL_BAD
\* without a report.
OneNameEach ==
  \A n \in Nodes : Node(n).kind = "STRUCT_TYPE" =>
    \A i \in DOMAIN Node(n).labels : Len(Node(n).labels[i]) <= 1

\* The children an activation of a node of the kind may still ask for.
AheadIn(kind, f, k) ==
  \/ f.pc = "enter"
  \/ kind \in {"BINARY", "CAST", "VAR_DECL"} /\ f.pc \in {"lhs", "to", "type"} /\ k = 2
  \/ kind = "BLOCK" /\ k >= f.i /\ (k = f.i => f.pc = "next")
  \/ kind = "FUNC_CALL" /\ k >= f.i + 1 /\ (k = f.i + 1 => f.pc # "arg")
  \/ kind = "STRUCT_LITERAL" /\ k >= f.i + 1 /\ (k = f.i + 1 => f.pc \in {"to", "next"})
  \/ kind = "FUNC_DECL" /\ k = 2 /\ f.pc # "body"
  \/ kind = "FUNC_DECL" /\ k >= f.i + 2 /\ (k = f.i + 2 => f.pc \in {"ret", "next"})
  \/ /\ kind = "STRUCT_TYPE" /\ k >= 2 * f.i - 1
     /\ k = 2 * f.i     => f.pc \in {"next", "type"}
     /\ k = 2 * f.i - 1 => f.pc = "next"

Ahead(f, k) == AheadIn(Node(f.node).kind, f, k)

\* No VAL_BAD is kept where nothing has been reported.
FrameClean(f) ==
  /\ ~f.bad /\ ~IsBad(f.val)
  /\ Node(f.node).kind = "STRUCT_TYPE" =>
       f.j = 1 /\ (f.pc = "default" => f.i <= Len(Node(f.node).labels))

NodesClean   == \A n \in DOMAIN folded : ~IsBad(folded[n])
SymbolsClean == \A k \in DOMAIN scopes : \A x \in DOMAIN scopes[k].sym : ~IsBad(scopes[k].sym[x].value)
FramesClean  == \A i \in DOMAIN stack : FrameClean(stack[i])
ReturnClean  == ctl.op = "return" /\ stack # <<>> /\ Top.pc # "lazy" => ~IsBad(ctl.val)

\* What a handler finds.
Clear == Sound /\ OneNameEach /\ NodesClean /\ SymbolsClean /\ FramesClean /\ ReturnClean

\* The frame a handler goes on in.
Onward(f) == /\ f.node = Top.node /\ FrameClean(f)
             /\ \A k \in DOMAIN This.kids : Ahead(f, k) => Ahead(Top, k)

\* A child is asked for that was ahead and no longer is.
Asks(f, n) == \E k \in DOMAIN This.kids : Kid(k) = n /\ n # 0 /\ Ahead(Top, k) /\ ~Ahead(f, k)

CleanMove ==
  \/ stack' = Below /\ ctl'.op = "return" /\ ~IsBad(ctl'.val)
  \/ \E f : /\ Onward(f) /\ stack' = Append(Below, f)
            /\ \/ ctl'.op = "go"
               \/ f.pc # "lazy" /\ ctl'.op = "call" /\ Asks(f, ctl'.node)
               \/ f.pc = "lazy" /\ ctl'.op = "call" /\ Global(ctl'.node)

CleanStep == NodesClean' /\ SymbolsClean' /\ CleanMove

LEMMA Positions ==
  ASSUME Sound
  PROVE  /\ This.kind \in {"UNARY", "GROUPING", "DISTINCT", "ACCESS", "BINARY", "FUNC_CALL"}
              => 1 \in DOMAIN This.kids /\ Kid(1) # 0
         /\ This.kind \in {"BINARY", "CAST"} => 2 \in DOMAIN This.kids /\ Kid(2) # 0
         /\ This.kind \in {"CAST", "STRUCT_LITERAL", "RETURN", "VAR_DECL", "FUNC_DECL"}
              => 1 \in DOMAIN This.kids
         /\ This.kind \in {"VAR_DECL", "FUNC_DECL"} => 2 \in DOMAIN This.kids
         /\ This.kind = "STRUCT_TYPE" /\ Top.i <= Len(This.labels) =>
              2 * Top.i - 1 \in DOMAIN This.kids /\ 2 * Top.i \in DOMAIN This.kids
         /\ This.kind = "STRUCT_LITERAL" /\ Top.i <= Len(This.labels)
              => 1 + Top.i \in DOMAIN This.kids /\ Kid(1 + Top.i) # 0
         /\ This.kind = "FUNC_DECL" /\ Top.i <= Len(This.labels) => 2 + Top.i \in DOMAIN This.kids
         /\ This.kind = "FUNC_CALL" /\ Top.i < Len(This.kids)
              => 1 + Top.i \in DOMAIN This.kids /\ Kid(1 + Top.i) # 0
         /\ This.kind = "BLOCK" /\ Top.i <= Len(This.kids)
              => Top.i \in DOMAIN This.kids /\ Kid(Top.i) # 0
<1>0. Ready
  BY ReadyHolds DEF Sound
<1>1. NodeOK(prog, This)
  BY <1>0 DEF Ready, FrameOK, ProgramOK, This, Node, Nodes
<1>2. PICK n \in Nat : n = Len(This.kids) /\ DOMAIN This.kids = 1 .. n
  BY <1>1 DEF NodeOK
<1>3. PICK m \in Nat : m = Len(This.labels)
  BY <1>1 DEF NodeOK
<1>4. PICK i \in Nat \ {0} : i = Top.i
  BY TopIs
<1>5. n = Arity(This)
  BY <1>1, <1>2 DEF NodeOK
<1>6. 0 \notin Nodes
  BY DEF Sound, Shape, ProgramOK, Nodes
<1>7. \A k : Expression(Kid(k)) => Kid(k) # 0
  BY <1>6 DEF Expression
<1>8. This.kind \in {"UNARY", "GROUPING", "DISTINCT", "ACCESS", "RETURN"} => 1 \in DOMAIN This.kids
  BY <1>2, <1>5 DEF Arity
<1>9. This.kind \in {"BINARY", "CAST", "VAR_DECL"} => 1 \in DOMAIN This.kids /\ 2 \in DOMAIN This.kids
  BY <1>2, <1>5 DEF Arity
<1>10. This.kind = "FUNC_CALL" => 1 \in DOMAIN This.kids
  BY <1>1, <1>2 DEF NodeOK
<1>11. This.kind = "FUNC_DECL" => /\ 1 \in DOMAIN This.kids /\ 2 \in DOMAIN This.kids
                                  /\ i <= m => 2 + i \in DOMAIN This.kids
  BY <1>2, <1>3, <1>5 DEF Arity
<1>12. This.kind = "STRUCT_LITERAL" => /\ 1 \in DOMAIN This.kids
                                       /\ i <= m => 1 + i \in DOMAIN This.kids
  BY <1>2, <1>3, <1>5 DEF Arity
<1>13. This.kind = "STRUCT_TYPE" /\ i <= m => 2 * i - 1 \in DOMAIN This.kids /\ 2 * i \in DOMAIN This.kids
  BY <1>2, <1>3, <1>5 DEF Arity
<1>14. i < n => 1 + i \in DOMAIN This.kids
  BY <1>2
<1>15. i <= n => i \in DOMAIN This.kids
  BY <1>2
<1>16. /\ This.kind = "STRUCT_LITERAL" /\ Top.i <= Len(This.labels) => Kid(1 + Top.i) # 0
       /\ This.kind = "FUNC_CALL" /\ Top.i < Len(This.kids) => Kid(1 + Top.i) # 0
       /\ This.kind = "BLOCK" /\ Top.i <= Len(This.kids) => Kid(Top.i) # 0
  BY <1>0, <1>6, <1>7, ListedOperands
<1>17. /\ This.kind \in {"UNARY", "GROUPING", "DISTINCT", "ACCESS", "BINARY", "FUNC_CALL"} => Kid(1) # 0
       /\ This.kind \in {"BINARY", "CAST"} => Kid(2) # 0
  BY <1>0, <1>7, Operands
<1> QED BY <1>2, <1>3, <1>4, <1>8, <1>9, <1>10, <1>11, <1>12, <1>13, <1>14, <1>15, <1>16, <1>17

LEMMA TopIsClear ==
  ASSUME Clear
  PROVE  /\ DOMAIN Top = FrameFields /\ Top.i \in Nat \ {0} /\ FrameClean(Top)
         /\ ctl.op = "return" /\ Top.pc # "lazy" => ~IsBad(ctl.val)
<1>1. Len(stack) \in DOMAIN stack
  BY ReadyHolds DEF Clear, Sound
<1> QED BY <1>1, TopIs DEF Clear, Sound, FramesClean, ReturnClean, Top

(***************************************************************************)
(* The pieces of the handlers.                                             *)
(***************************************************************************)
LEMMA VisitClean ==
  ASSUME Clear, NEW f, Onward(f), f.pc # "lazy",
         NEW k \in DOMAIN This.kids, Kid(k) # 0, Ahead(Top, k), ~Ahead(f, k),
         NEW exp, Visit(f, Kid(k), exp)
  PROVE  CleanStep
<1>1. stack' = Append(Below, f) /\ ctl'.op = "call" /\ ctl'.node = Kid(k)
  BY DEF Visit, Call, Control
<1>2. Asks(f, Kid(k))
  BY DEF Asks
<1>3. NodesClean' /\ SymbolsClean'
  BY DEF Visit, Clear, NodesClean, SymbolsClean
<1> QED BY <1>1, <1>2, <1>3 DEF CleanStep, CleanMove

LEMMA ContinueClean ==
  ASSUME Clear, NEW f, NEW report, Continue(f, report), Onward([f EXCEPT !.pc = "next"])
  PROVE  CleanStep
<1>1. PICK g : g = [f EXCEPT !.pc = "next"]
  OBVIOUS
<1>2. stack' = Append(Below, g) /\ ctl'.op = "go"
  BY <1>1 DEF Continue, Loop, Go, Control
<1>3. NodesClean' /\ SymbolsClean'
  BY DEF Continue, Clear, NodesClean, SymbolsClean
<1> QED BY <1>1, <1>2, <1>3 DEF CleanStep, CleanMove

LEMMA ReturnIs == ASSUME NEW v, Return(v), ~IsBad(v) PROVE CleanMove
BY ReturnedIs DEF Return, CleanMove

LEMMA YieldClean == ASSUME Clear, NEW v, Yield(v), ~IsBad(v) PROVE CleanStep
<1>1. NodesClean' /\ SymbolsClean'
  BY DEF Yield, Clear, NodesClean, SymbolsClean
<1> QED BY <1>1, ReturnIs DEF Yield, CleanStep

LEMMA NodeSetClean ==
  ASSUME NodesClean, NEW n, NEW v, ~IsBad(v), folded' = [folded EXCEPT ![n] = v]
  PROVE  NodesClean'
BY DEF NodesClean

LEMMA InjectClean == ASSUME Clear, NEW v, Inject(v), ~IsBad(v) PROVE CleanStep
<1>1. CASE Yield(Crash)
  BY <1>1, YieldClean DEF IsBad, Crash, Val
<1>2. CASE Return(v) /\ folded' = [folded EXCEPT ![Top.node] = v] /\ UNCHANGED scopes
  <2>1. NodesClean' /\ SymbolsClean'
    BY <1>2, NodeSetClean DEF Clear, SymbolsClean
  <2> QED BY <1>2, <2>1, ReturnIs DEF CleanStep
<1> QED BY <1>1, <1>2 DEF Inject

LEMMA NewTypeClean ==
  ASSUME Clear, NEW info, NEW v, ~IsBad(v), InjectNewType(info, v)
  PROVE  CleanStep
<1>1. NodesClean' /\ SymbolsClean'
  BY NodeSetClean DEF InjectNewType, Clear, SymbolsClean
<1> QED BY <1>1, ReturnIs DEF InjectNewType, CleanStep

LEMMA BailReports == Bail => hadError'
BY DEF Bail

LEMMA NotBad ==
  /\ ~IsBad(None) /\ ~IsBad(Zero) /\ ~IsBad(Uninit) /\ ~IsBad(Crash)
  /\ \A t : ~IsBad(Scalar(t)) /\ ~IsBad(Runtime(t)) /\ ~IsBad(TypeVal(t)) /\ ~IsBad(StrObj(t))
  /\ \A t, fs : ~IsBad(StructObj(t, fs)) /\ ~IsBad(Val("STRUCT", t, fs))
BY DEF IsBad, None, Zero, Uninit, Crash, Scalar, Runtime, TypeVal, StrObj, StructObj, Val

(***************************************************************************)
(* The handlers of expressions.                                            *)
(***************************************************************************)
LEMMA ClearIs == ASSUME Clear, NEW kind, NEW pc, At(kind, pc)
                 PROVE  Sound /\ This.kind = kind /\ Top.pc = pc /\ (pc \notin {"enter", "next"} => ctl.op = "return")
BY DEF Clear, At

LEMMA LiteralClean ==
  ASSUME Clear, ~hadError',
         \/ AnalyzeIntegerLit \/ AnalyzeFloatLit \/ AnalyzeStringLit
         \/ \E kind \in {"INT_BITS", "UINT_BITS"} : AnalyzeBits(kind)
         \/ \E kind \in TypeKeywords : AnalyzeTypeKeyword(kind)
  PROVE  CleanStep
<1>1. CASE AnalyzeIntegerLit \/ AnalyzeFloatLit \/ AnalyzeStringLit
  BY <1>1, NotBad, InjectClean DEF AnalyzeIntegerLit, AnalyzeFloatLit, AnalyzeStringLit
<1>2. CASE \E kind \in {"INT_BITS", "UINT_BITS"} : AnalyzeBits(kind)
  BY <1>2, NotBad, InjectClean, BailReports DEF AnalyzeBits
<1>3. CASE \E kind \in TypeKeywords : AnalyzeTypeKeyword(kind)
  BY <1>3, NotBad, InjectClean DEF AnalyzeTypeKeyword
<1> QED BY <1>1, <1>2, <1>3

\* The frame of a node of any kind but a struct's, at another point.
LEMMA OnwardAt ==
  ASSUME Clear, This.kind # "STRUCT_TYPE",
         NEW f, f.node = Top.node, ~f.bad, ~IsBad(f.val),
         \A k \in DOMAIN This.kids : Ahead(f, k) => Ahead(Top, k)
  PROVE  Onward(f)
BY DEF Onward, FrameClean, This

\* The first operand of a node is asked for.
LEMMA FirstClean ==
  ASSUME Clear, Top.pc = "enter", NEW p, NEW exp, Visit([Top EXCEPT !.pc = p], Kid(1), exp),
         1 \in DOMAIN This.kids, Kid(1) # 0,
         \/ This.kind \in {"UNARY", "GROUPING", "DISTINCT", "ACCESS", "RETURN"} /\ p # "enter"
         \/ This.kind \in {"BINARY", "CAST", "VAR_DECL", "FUNC_DECL"} /\ p \in {"lhs", "to", "type", "ret"}
         \/ This.kind \in {"STRUCT_LITERAL", "FUNC_CALL"} /\ p \in {"to", "callee"},
         p # "lazy"
  PROVE  CleanStep
<1>1. PICK g : g = [Top EXCEPT !.pc = p]
  OBVIOUS
<1>2. PICK i \in Nat \ {0} : i = Top.i
  BY TopIsClear
<1>3. /\ g.node = Top.node /\ g.bad = Top.bad /\ g.val = Top.val /\ g.pc = p /\ g.i = i
  BY <1>1, <1>2, TopIsClear DEF FrameFields
<1>4. Onward(g)
  BY <1>3, OnwardAt, TopIsClear DEF FrameClean, Ahead, AheadIn
<1>5. ~Ahead(g, 1)
  BY <1>3 DEF Ahead, AheadIn, This
<1>6. Ahead(Top, 1)
  BY DEF Ahead, AheadIn
<1> QED BY <1>1, <1>3, <1>4, <1>5, <1>6, VisitClean

LEMMA GroupingClean == ASSUME Clear, ~hadError', AnalyzeGrouping PROVE CleanStep
<1>1. Sound /\ This.kind = "GROUPING"
  BY ClearIs DEF AnalyzeGrouping
<1>2. CASE At("GROUPING", "enter") /\ Visit([Top EXCEPT !.pc = "child"], Kid(1), Top.exp)
  BY <1>1, <1>2, ClearIs, Positions, FirstClean
<1>3. CASE At("GROUPING", "child") /\ Yield(ctl.val)
  BY <1>3, ClearIs, TopIsClear, YieldClean
<1> QED BY <1>2, <1>3 DEF AnalyzeGrouping

LEMMA DistinctClean == ASSUME Clear, ~hadError', AnalyzeDistinct PROVE CleanStep
<1>1. Sound /\ This.kind = "DISTINCT"
  BY ClearIs DEF AnalyzeDistinct
<1>2. CASE At("DISTINCT", "enter") /\ Visit([Top EXCEPT !.pc = "child"], Kid(1), Top.exp)
  BY <1>1, <1>2, ClearIs, Positions, FirstClean
<1>3. CASE /\ At("DISTINCT", "child")
           /\ IF IsBad(ctl.val) THEN Yield(Bad)
              ELSE IF ~IsType(ctl.val) THEN Bail
              ELSE InjectNewType(TypeInfo(types, ctl.val.t), TypeVal(NextTypeId(types)))
  BY <1>3, ClearIs, TopIsClear, NotBad, BailReports, NewTypeClean
<1> QED BY <1>2, <1>3 DEF AnalyzeDistinct

LEMMA UnaryClean == ASSUME Clear, ~hadError', AnalyzeUnary PROVE CleanStep
<1>1. Sound /\ This.kind = "UNARY"
  BY ClearIs DEF AnalyzeUnary
<1>2. CASE At("UNARY", "enter") /\ Visit([Top EXCEPT !.pc = "rhs"], Kid(1), Top.exp)
  BY <1>1, <1>2, ClearIs, Positions, FirstClean
<1>3. ASSUME At("UNARY", "rhs"), Yield(Runtime(TypeOf(ctl.val))) \/ Inject(ctl.val) \/ Inject(Negated(ctl.val))
      PROVE  CleanStep
  <2>1. ~IsBad(ctl.val) /\ ~IsBad(Negated(ctl.val))
    BY <1>3, ClearIs, TopIsClear, NotBad DEF Negated
  <2> QED BY <1>3, <2>1, NotBad, YieldClean, InjectClean
<1>4. CASE At("UNARY", "rhs") /\ IsBad(ctl.val)
  BY <1>4, ClearIs, TopIsClear
<1> QED BY <1>2, <1>3, <1>4, BailReports DEF AnalyzeUnary

LEMMA BinaryClean == ASSUME Clear, ~hadError', AnalyzeBinary PROVE CleanStep
<1>1. Sound /\ This.kind = "BINARY"
  BY ClearIs DEF AnalyzeBinary
<1>2. CASE At("BINARY", "enter") /\ Visit([Top EXCEPT !.pc = "lhs"], Kid(1), Top.exp)
  BY <1>1, <1>2, ClearIs, Positions, FirstClean
<1>3. CASE At("BINARY", "lhs") /\ Visit([Top EXCEPT !.pc = "rhs", !.val = ctl.val], Kid(2), Top.exp)
  <2>1. PICK g : g = [Top EXCEPT !.pc = "rhs", !.val = ctl.val]
    OBVIOUS
  <2>2. ~IsBad(ctl.val) /\ Top.pc = "lhs" /\ ~Top.bad
    BY <1>3, ClearIs, TopIsClear DEF FrameClean
  <2>3. g.node = Top.node /\ g.bad = Top.bad /\ g.val = ctl.val /\ g.pc = "rhs"
    BY <2>1, TopIsClear DEF FrameFields
  <2>4. \A k : ~Ahead(g, k)
    BY <1>1, <2>3 DEF Ahead, AheadIn, This
  <2>5. Ahead(Top, 2)
    BY <1>1, <2>2 DEF Ahead, AheadIn, This
  <2>6. Onward(g)
    BY <1>1, <2>2, <2>3, <2>4, OnwardAt
  <2> QED BY <1>1, <1>3, <2>1, <2>3, <2>4, <2>5, <2>6, Positions, VisitClean
<1>4. CASE (At("BINARY", "lhs") \/ At("BINARY", "rhs")) /\ IsBad(ctl.val)
  BY <1>4, ClearIs, TopIsClear
<1>5. CASE FoldArith(Top.val, ctl.val)
  BY <1>5, NotBad, InjectClean, BailReports DEF FoldArith
<1>6. CASE RuntimeBinary(Top.val, ctl.val)
  BY <1>6, NotBad, YieldClean, BailReports DEF RuntimeBinary
<1> QED BY <1>2, <1>3, <1>4, <1>5, <1>6 DEF AnalyzeBinary

LEMMA CastClean == ASSUME Clear, ~hadError', AnalyzeCast PROVE CleanStep
<1>1. Sound /\ This.kind = "CAST"
  BY ClearIs DEF AnalyzeCast
<1>2. CASE At("CAST", "enter") /\ HasKid(1) /\ Visit([Top EXCEPT !.pc = "to"], Kid(1), NoType)
  BY <1>1, <1>2, ClearIs, Positions, FirstClean DEF HasKid
<1>3. ASSUME NEW to, CastOperand(to), Top.pc \in {"enter", "to"} PROVE CleanStep
  <2>1. PICK g : g = [Top EXCEPT !.pc = "expr", !.ty = to]
    OBVIOUS
  <2>2. g.node = Top.node /\ g.bad = Top.bad /\ g.val = Top.val /\ g.pc = "expr"
    BY <2>1, TopIsClear DEF FrameFields
  <2>3. \A k : ~Ahead(g, k)
    BY <1>1, <2>2 DEF Ahead, AheadIn, This
  <2>4. Ahead(Top, 2)
    BY <1>1, <1>3 DEF Ahead, AheadIn, This
  <2>5. Onward(g)
    BY <1>1, <2>2, <2>3, OnwardAt, TopIsClear DEF FrameClean
  <2> QED BY <1>1, <1>3, <2>1, <2>2, <2>3, <2>4, <2>5, Positions, VisitClean DEF CastOperand
<1>4. CASE (At("CAST", "to") \/ At("CAST", "expr")) /\ IsBad(ctl.val)
  BY <1>4, ClearIs, TopIsClear
<1>5. ASSUME NEW v, ~IsBad(v), Yield(v) PROVE CleanStep
  BY <1>5, YieldClean
<1>6. At("CAST", "enter") \/ At("CAST", "to") => Top.pc \in {"enter", "to"}
  BY ClearIs
<1> QED BY <1>2, <1>3, <1>4, <1>5, <1>6, BailReports DEF AnalyzeCast

LEMMA AccessClean == ASSUME Clear, ~hadError', AnalyzeAccess PROVE CleanStep
<1>1. Sound /\ This.kind = "ACCESS"
  BY ClearIs DEF AnalyzeAccess
<1>2. CASE At("ACCESS", "enter") /\ Visit([Top EXCEPT !.pc = "lhs"], Kid(1), Top.exp)
  BY <1>1, <1>2, ClearIs, Positions, FirstClean
<1>3. CASE At("ACCESS", "lhs") /\ IsBad(ctl.val)
  BY <1>3, ClearIs, TopIsClear
<1>4. ASSUME NEW v, ~IsBad(v), Yield(v) \/ Inject(v) PROVE CleanStep
  BY <1>4, YieldClean, InjectClean
<1> QED BY <1>2, <1>3, <1>4, NotBad, BailReports DEF AnalyzeAccess

LEMMA ReturnStatementClean == ASSUME Clear, ~hadError', AnalyzeReturn PROVE CleanStep
<1>1. Sound /\ This.kind = "RETURN"
  BY ClearIs DEF AnalyzeReturn
<1>2. CASE At("RETURN", "enter") /\ HasKid(1) /\ Visit([Top EXCEPT !.pc = "value"], Kid(1), retType)
  BY <1>1, <1>2, ClearIs, Positions, FirstClean DEF HasKid
<1>3. CASE At("RETURN", "value") /\ IsBad(ctl.val)
  BY <1>3, ClearIs, TopIsClear
<1>4. ASSUME NEW v, ~IsBad(v), Yield(v) \/ Inject(v) PROVE CleanStep
  BY <1>4, YieldClean, InjectClean
<1> QED BY <1>2, <1>3, <1>4, NotBad, BailReports DEF AnalyzeReturn

LEMMA KidsAreNumbered == ASSUME Sound PROVE \A k \in DOMAIN This.kids : k \in Nat \ {0}
<1>1. NodeOK(prog, This)
  BY ReadyHolds DEF Sound, Ready, FrameOK, ProgramOK, This, Node, Nodes
<1>2. PICK n \in Nat : DOMAIN This.kids = 1 .. n
  BY <1>1 DEF NodeOK
<1> QED BY <1>2

LEMMA FuncCallClean == ASSUME Clear, ~hadError', AnalyzeFuncCall PROVE CleanStep
<1>1. Sound /\ This.kind = "FUNC_CALL"
  BY ClearIs DEF AnalyzeFuncCall
<1>2. PICK i \in Nat \ {0} : i = Top.i
  BY TopIsClear
<1>3. CASE At("FUNC_CALL", "enter") /\ Visit([Top EXCEPT !.pc = "callee"], Kid(1), NoType)
  BY <1>1, <1>3, ClearIs, Positions, FirstClean
<1>4. CASE (At("FUNC_CALL", "callee") \/ At("FUNC_CALL", "arg")) /\ IsBad(ctl.val)
  BY <1>4, ClearIs, TopIsClear
<1>5. CASE At("FUNC_CALL", "callee") /\ Continue([Top EXCEPT !.ty = CallType(ctl.val)], FALSE)
  <2>1. PICK t : t = CallType(ctl.val)
    OBVIOUS
  <2>2. PICK f, g : f = [Top EXCEPT !.ty = t] /\ g = [f EXCEPT !.pc = "next"]
    OBVIOUS
  <2>3. /\ g.node = Top.node /\ g.bad = Top.bad /\ g.val = Top.val /\ g.pc = "next" /\ g.i = i
        /\ Top.pc = "callee"
    BY <1>2, <1>5, <2>2, TopIsClear, ClearIs DEF FrameFields
  <2>4. Onward(g)
    BY <1>1, <1>2, <2>3, OnwardAt, TopIsClear DEF FrameClean, Ahead, AheadIn, This
  <2> QED BY <1>5, <2>1, <2>2, <2>4, ContinueClean
<1>6. CASE /\ At("FUNC_CALL", "next") /\ Top.i < Len(This.kids)
           /\ Visit([Top EXCEPT !.pc = "arg"], Kid(1 + Top.i), Top.exp)
  <2>1. PICK g : g = [Top EXCEPT !.pc = "arg"]
    OBVIOUS
  <2>2. /\ g.node = Top.node /\ g.bad = Top.bad /\ g.val = Top.val /\ g.pc = "arg" /\ g.i = i
        /\ Top.pc = "next"
    BY <1>2, <1>6, <2>1, TopIsClear, ClearIs DEF FrameFields
  <2>3. Onward(g)
    BY <1>1, <1>2, <2>2, OnwardAt, TopIsClear DEF FrameClean, Ahead, AheadIn, This
  <2>4. Ahead(Top, 1 + i) /\ ~Ahead(g, 1 + i)
    BY <1>1, <1>2, <2>2 DEF Ahead, AheadIn, This
  <2> QED BY <1>1, <1>2, <1>6, <2>1, <2>2, <2>3, <2>4, Positions, VisitClean
<1>7. CASE At("FUNC_CALL", "next") /\ Yield(Runtime(Top.ty))
  BY <1>7, NotBad, YieldClean
<1>8. CASE /\ At("FUNC_CALL", "arg") /\ ~IsBad(ctl.val)
           /\ Loop(NextItem) /\ UNCHANGED scopes
           /\ folded' = IF ctl.val.k = "RUNTIME" THEN folded
                        ELSE [folded EXCEPT ![Kid(1 + Top.i)] = ctl.val]
  <2>1. PICK f, g : f = NextItem /\ g = [f EXCEPT !.pc = "next"]
    OBVIOUS
  <2>2. /\ g.node = Top.node /\ g.bad = Top.bad /\ g.val = Top.val /\ g.pc = "next" /\ g.i = i + 1
        /\ Top.pc = "arg"
    BY <1>2, <1>8, <2>1, TopIsClear, ClearIs DEF FrameFields, NextItem
  <2>3. ASSUME NEW k \in DOMAIN This.kids, Ahead(g, k) PROVE Ahead(Top, k)
    <3>1. k \in Nat
      BY <1>1, KidsAreNumbered
    <3>2. Node(g.node) = This
      BY <2>2 DEF This
    <3>3. k > i + 1 + 1 \/ k = i + 1 + 1
      BY <1>1, <2>2, <2>3, <3>1, <3>2 DEF Ahead, AheadIn
    <3>4. k > i + 1 /\ Top.i = i
      BY <1>2, <3>1, <3>3
    <3>5. Node(Top.node).kind = This.kind
      BY DEF This
    <3> QED BY <1>1, <3>1, <3>4, <3>5 DEF Ahead, AheadIn
  <2>4. Onward(g)
    BY <1>1, <2>2, <2>3, OnwardAt, TopIsClear DEF FrameClean
  <2>5. NodesClean' /\ SymbolsClean'
    BY <1>8, NodeSetClean DEF Clear, NodesClean, SymbolsClean
  <2>6. stack' = Append(Below, g) /\ ctl'.op = "go"
    BY <1>8, <2>1 DEF Loop, Go, Control
  <2> QED BY <2>4, <2>5, <2>6 DEF CleanStep, CleanMove
<1> QED BY <1>3, <1>4, <1>5, <1>6, <1>7, <1>8 DEF AnalyzeFuncCall

\* A symbol is written.
LEMMA SymbolSetClean ==
  ASSUME SymbolsClean, ScopesOK, NEW k, NEW x, NEW s, NEW new, new = SetSymbol(k, x, s),
         k \in DOMAIN scopes /\ x \in DOMAIN scopes[k].sym => ~IsBad(s.value)
  PROVE  \A j \in DOMAIN new : \A y \in DOMAIN new[j].sym : ~IsBad(new[j].sym[y].value)
<1>1. \A j \in DOMAIN scopes : DOMAIN scopes[j] = {"root", "sym"}
  BY DEF ScopesOK
<1>2. /\ DOMAIN new = DOMAIN scopes
      /\ \A j \in DOMAIN scopes : j # k => new[j] = scopes[j]
      /\ k \in DOMAIN scopes => new[k].sym = [scopes[k].sym EXCEPT ![x] = s]
  BY <1>1 DEF SetSymbol
<1>3. ASSUME k \in DOMAIN scopes, NEW y \in DOMAIN new[k].sym PROVE ~IsBad(new[k].sym[y].value)
  <2>1. y \in DOMAIN scopes[k].sym /\ new[k].sym[y] = IF y = x THEN s ELSE scopes[k].sym[y]
    BY <1>2, <1>3
  <2> QED BY <1>3, <2>1 DEF SymbolsClean
<1> QED BY <1>2, <1>3 DEF SymbolsClean

\* A new innermost scope.
LEMMA PushedClean ==
  ASSUME NEW old, \E S : old \in Seq(S), NEW sc, NEW new, new = Append(old, sc),
         \A k \in DOMAIN old : \A x \in DOMAIN old[k].sym : ~IsBad(old[k].sym[x].value),
         \A x \in DOMAIN sc.sym : ~IsBad(sc.sym[x].value)
  PROVE  \A k \in DOMAIN new : \A x \in DOMAIN new[k].sym : ~IsBad(new[k].sym[x].value)
<1>1. PICK S : old \in Seq(S)
  OBVIOUS
<1>2. PICK n \in Nat : n = Len(old) /\ DOMAIN old = 1 .. n
  BY <1>1
<1>3. old \in Seq(S \cup {sc}) /\ sc \in S \cup {sc}
  BY <1>1
<1>4. /\ new \in Seq(S \cup {sc}) /\ Len(new) = n + 1 /\ new[n + 1] = sc
      /\ \A k \in 1 .. n : new[k] = old[k]
  BY <1>2, <1>3
<1>5. DOMAIN new = 1 .. n + 1
  BY <1>4
<1>6. \A k \in DOMAIN new : k \in 1 .. n \/ k = n + 1
  BY <1>5
<1> QED BY <1>2, <1>4, <1>6

LEMMA PoppedClean ==
  ASSUME SymbolsClean, ScopesOK, scopes' = PopScope
  PROVE  SymbolsClean'
<1>1. PICK S : scopes \in Seq(S)
  BY DEF ScopesOK
<1>2. PICK n \in Nat : n = Len(scopes) /\ DOMAIN scopes = 1 .. n
  BY <1>1
<1>3. CASE n = 0
  <2>1. scopes = <<>> /\ PopScope = SubSeq(scopes, 1, 0 - 1)
    BY <1>1, <1>2, <1>3 DEF PopScope
  <2>2. DOMAIN PopScope = {}
    BY <2>1
  <2> QED BY <2>2 DEF SymbolsClean
<1>4. CASE n > 0
  <2>1. DOMAIN PopScope = 1 .. n - 1 /\ \A k \in 1 .. n - 1 : PopScope[k] = scopes[k]
    BY <1>1, <1>2, <1>4 DEF PopScope
  <2>2. \A k \in 1 .. n - 1 : k \in DOMAIN scopes
    BY <1>2
  <2> QED BY <2>1, <2>2 DEF SymbolsClean
<1> QED BY <1>2, <1>3, <1>4

LEMMA NewSymbolClean == \A level, node : Symbol(level, node).value = None
BY DEF Symbol

LEMMA BlockClean == ASSUME Clear, ~hadError', AnalyzeBlock PROVE CleanStep
<1>1. Sound /\ This.kind = "BLOCK"
  BY ClearIs DEF AnalyzeBlock
<1>2. PICK i \in Nat \ {0} : i = Top.i
  BY TopIsClear
<1>3. CASE /\ At("BLOCK", "enter")
           /\ scopes' = Append(scopes, Scope(This.root, Hoisted(This.kids, Ahh)))
           /\ ~Redefines(This.kids) /\ Loop(Top) /\ UNCHANGED folded
  <2>1. PICK sc : sc = Scope(This.root, Hoisted(This.kids, Ahh))
    OBVIOUS
  <2>2. \A x \in DOMAIN sc.sym : ~IsBad(sc.sym[x].value)
    <3>1. sc.sym = Hoisted(This.kids, Ahh)
      BY <2>1 DEF Scope
    <3> QED BY <3>1, NewSymbolClean, NotBad DEF Hoisted
  <2>3. PICK new : new = Append(scopes, sc)
    OBVIOUS
  <2>4. \A k \in DOMAIN new : \A x \in DOMAIN new[k].sym : ~IsBad(new[k].sym[x].value)
    BY <1>1, <2>2, <2>3, PushedClean DEF Clear, SymbolsClean, Sound, Shape, ScopesOK
  <2>5. NodesClean' /\ SymbolsClean'
    BY <1>3, <2>1, <2>3, <2>4 DEF Clear, NodesClean, SymbolsClean
  <2>6. PICK g : g = [Top EXCEPT !.pc = "next"]
    OBVIOUS
  <2>7. /\ g.node = Top.node /\ g.bad = Top.bad /\ g.val = Top.val /\ Top.pc = "enter"
    BY <1>3, <2>6, TopIsClear, ClearIs DEF FrameFields
  <2>8. Onward(g)
    BY <1>1, <2>7, OnwardAt, TopIsClear DEF FrameClean, Ahead, AheadIn
  <2> QED BY <1>3, <2>5, <2>6, <2>8 DEF Loop, Go, Control, CleanStep, CleanMove
<1>4. CASE At("BLOCK", "next") /\ Top.i <= Len(This.kids)
           /\ Visit([Top EXCEPT !.pc = "stmt"], Kid(Top.i), Top.exp)
  <2>1. PICK g : g = [Top EXCEPT !.pc = "stmt"]
    OBVIOUS
  <2>2. /\ g.node = Top.node /\ g.bad = Top.bad /\ g.val = Top.val /\ g.pc = "stmt" /\ g.i = i
        /\ Top.pc = "next"
    BY <1>2, <1>4, <2>1, TopIsClear, ClearIs DEF FrameFields
  <2>3. Onward(g)
    BY <1>1, <1>2, <2>2, OnwardAt, TopIsClear DEF FrameClean, Ahead, AheadIn, This
  <2>4. Ahead(Top, i) /\ ~Ahead(g, i)
    BY <1>1, <1>2, <2>2 DEF Ahead, AheadIn, This
  <2> QED BY <1>1, <1>2, <1>4, <2>1, <2>2, <2>3, <2>4, Positions, VisitClean
<1>5. CASE At("BLOCK", "stmt")
           /\ Continue([NextItem EXCEPT !.val = IF IsBad(ctl.val) THEN None ELSE ctl.val], IsBad(ctl.val))
  <2>1. PICK v : v = IF IsBad(ctl.val) THEN None ELSE ctl.val
    OBVIOUS
  <2>2. PICK f, g : f = [NextItem EXCEPT !.val = v] /\ g = [f EXCEPT !.pc = "next"]
    OBVIOUS
  <2>3. /\ g.node = Top.node /\ g.bad = Top.bad /\ g.val = v /\ g.pc = "next" /\ g.i = i + 1
        /\ Top.pc = "stmt"
    BY <1>2, <1>5, <2>2, TopIsClear, ClearIs DEF FrameFields, NextItem
  <2>4. ~IsBad(v)
    BY <2>1, NotBad
  <2>5. ASSUME NEW k \in DOMAIN This.kids, Ahead(g, k) PROVE Ahead(Top, k)
    <3>1. k \in Nat
      BY <1>1, KidsAreNumbered
    <3>2. Node(g.node) = This
      BY <2>3 DEF This
    <3>3. k > i + 1 \/ k = i + 1
      BY <1>1, <2>3, <2>5, <3>1, <3>2 DEF Ahead, AheadIn
    <3>4. k > i /\ Top.i = i
      BY <1>2, <3>1, <3>3
    <3>5. Node(Top.node).kind = This.kind
      BY DEF This
    <3> QED BY <1>1, <3>1, <3>4, <3>5 DEF Ahead, AheadIn
  <2>6. Onward(g)
    BY <1>1, <2>3, <2>4, <2>5, OnwardAt, TopIsClear DEF FrameClean
  <2> QED BY <1>5, <2>1, <2>2, <2>6, ContinueClean
<1>6. CASE /\ At("BLOCK", "next")
           /\ scopes' = PopScope
           /\ Return(IF Top.val = None THEN Uninit ELSE Top.val)
           /\ folded' = IF ComptimeKnown(Top.val) THEN [folded EXCEPT ![Top.node] = Top.val] ELSE folded
  <2>1. ~IsBad(Top.val)
    BY TopIsClear DEF FrameClean
  <2>2. SymbolsClean'
    BY <1>1, <1>6, PoppedClean DEF Clear, Sound, Shape
  <2>3. NodesClean'
    BY <1>6, <2>1, NodeSetClean DEF Clear, NodesClean
  <2>4. PICK v : v = IF Top.val = None THEN Uninit ELSE Top.val
    OBVIOUS
  <2>5. ~IsBad(v) /\ Return(v)
    BY <1>6, <2>1, <2>4, NotBad
  <2> QED BY <2>2, <2>3, <2>5, ReturnIs DEF CleanStep
<1>7. CASE At("BLOCK", "enter") /\ Redefines(This.kids) /\ hadError' = (hadError \/ Redefines(This.kids))
  BY <1>7
<1> QED BY <1>3, <1>4, <1>5, <1>6, <1>7 DEF AnalyzeBlock

LEMMA IdentClean == ASSUME Clear, LazyFound, ~hadError', AnalyzeIdent PROVE CleanStep
<1>1. Sound /\ This.kind = "IDENT"
  BY ClearIs DEF AnalyzeIdent
<1>2. ASSUME NEW k \in DOMAIN scopes, This.name \in DOMAIN scopes[k].sym,
             UseSymbol(SymbolAt(k, This.name))
      PROVE  CleanStep
  <2>1. ~IsBad(SymbolAt(k, This.name).value)
    BY <1>2 DEF Clear, SymbolsClean, SymbolAt
  <2> QED BY <1>2, <2>1, NotBad, YieldClean, InjectClean, BailReports DEF UseSymbol
<1>3. CASE At("IDENT", "lazy") /\ UseSymbol(SymbolAt(Top.sym, This.name))
  BY <1>2, <1>3, ClearIs DEF LazyFound
<1>4. CASE UndefinedName \/ RecursiveUse
  BY <1>4 DEF UndefinedName, RecursiveUse
<1>5. PICK k : k = Lookup(This.name)
  OBVIOUS
<1>6. k # 0 => k \in DOMAIN scopes /\ This.name \in DOMAIN scopes[k].sym
  BY <1>1, <1>5, LookupFinds DEF Sound, Shape
<1>7. PICK s : s = SymbolAt(k, This.name)
  OBVIOUS
<1>8. CASE /\ At("IDENT", "enter") /\ k # 0 /\ s.level = Undefined
           /\ Visit([Top EXCEPT !.pc = "lazy", !.sym = k], s.node, NoType)
  <2>1. Global(s.node)
    BY <1>1, <1>6, <1>7, <1>8 DEF Sound, Shape, ScopesOK, SymbolOK
  <2>2. PICK g : g = [Top EXCEPT !.pc = "lazy", !.sym = k]
    OBVIOUS
  <2>3. g.node = Top.node /\ g.bad = Top.bad /\ g.val = Top.val /\ g.pc = "lazy" /\ Top.pc = "enter"
    BY <1>8, <2>2, TopIsClear, ClearIs DEF FrameFields
  <2>4. Onward(g)
    BY <1>1, <2>3, OnwardAt, TopIsClear DEF FrameClean, Ahead, AheadIn
  <2>5. stack' = Append(Below, g) /\ ctl'.op = "call" /\ ctl'.node = s.node
    BY <1>8, <2>2 DEF Visit, Call, Control
  <2>6. NodesClean' /\ SymbolsClean'
    BY <1>8 DEF Visit, Clear, NodesClean, SymbolsClean
  <2> QED BY <2>1, <2>3, <2>4, <2>5, <2>6 DEF CleanStep, CleanMove
<1>9. CASE k # 0 /\ UseSymbol(s)
  BY <1>2, <1>6, <1>7, <1>9
<1> QED BY <1>3, <1>4, <1>5, <1>7, <1>8, <1>9 DEF AnalyzeIdent

(***************************************************************************)
(* The handlers of declarations.                                           *)
(***************************************************************************)
LEMMA SymbolDomain ==
  ASSUME Sound, NEW k \in DOMAIN scopes, NEW x \in DOMAIN scopes[k].sym
  PROVE  DOMAIN SymbolAt(k, x) = SymbolFields
BY DEF Sound, Shape, ScopesOK, SymbolOK

LEMMA OpenVarDeclClean ==
  ASSUME Clear, This.kind = "VAR_DECL", Top.pc = "enter", ~hadError', OpenVarDecl
  PROVE  CleanStep
<1>0. Sound
  BY DEF Clear
<1>1. PICK k : k = Lookup(This.name)
  OBVIOUS
<1>2. PICK s : s = SymbolAt(k, This.name)
  OBVIOUS
<1>3. CASE k = 0 /\ Yield(Crash)
  BY <1>3, NotBad, YieldClean
<1>4. CASE k # 0 /\ s.level # Defined
  <2>0. PICK t : t = [s EXCEPT !.const = This.const, !.level = Defined]
    OBVIOUS
  <2>1. PICK new : new = SetSymbol(k, This.name, t)
    OBVIOUS
  <2>2. PICK f : f = [Top EXCEPT !.sym = k, !.ty = TyAuto]
    OBVIOUS
  <2>3. /\ scopes' = new /\ UNCHANGED folded
        /\ HasKid(1) \/ HasKid(2)
        /\ IF HasKid(1)
           THEN /\ stack' = Append(Below, [f EXCEPT !.pc = "type"])
                /\ ctl' = Call(Kid(1), NoType)
           ELSE /\ stack' = Append(Below, [f EXCEPT !.pc = "value"])
                /\ ctl' = Call(Kid(2), TyAuto)
    BY <1>1, <1>2, <1>4, <2>0, <2>1, <2>2 DEF OpenVarDecl
  <2>4. ASSUME k \in DOMAIN scopes, This.name \in DOMAIN scopes[k].sym
        PROVE  ~IsBad(t.value)
    <3>1. DOMAIN s = SymbolFields
      BY <1>0, <1>2, <2>4, SymbolDomain
    <3>2. ~IsBad(s.value)
      BY <1>2, <2>4 DEF Clear, SymbolsClean, SymbolAt
    <3> QED BY <2>0, <3>1, <3>2 DEF SymbolFields
  <2>5. \A j \in DOMAIN new : \A y \in DOMAIN new[j].sym : ~IsBad(new[j].sym[y].value)
    BY <1>0, <2>1, <2>4, SymbolSetClean DEF Clear, Sound, Shape
  <2>6. NodesClean' /\ SymbolsClean'
    BY <2>3, <2>5 DEF Clear, NodesClean, SymbolsClean
  <2>7. ASSUME NEW g, NEW p \in {"type", "value"}, NEW j \in {1, 2}, g = [f EXCEPT !.pc = p], NEW exp,
               p = "type" => j = 1, p = "value" => j = 2,
               HasKid(j), stack' = Append(Below, g), ctl' = Call(Kid(j), exp)
        PROVE  CleanMove
    <3>1. g.node = Top.node /\ g.bad = Top.bad /\ g.val = Top.val /\ g.pc = p
      BY <2>2, <2>7, TopIsClear DEF FrameFields
    <3>2. \A m : Ahead(Top, m)
      BY DEF Ahead, AheadIn
    <3>3. Onward(g)
      BY <3>1, <3>2, OnwardAt, TopIsClear DEF FrameClean
    <3>4. ~Ahead(g, j)
      BY <2>7, <3>1 DEF Ahead, AheadIn, This
    <3>5. Asks(g, Kid(j))
      BY <1>0, <2>7, <3>2, <3>4, Positions DEF Asks, HasKid
    <3> QED BY <2>7, <3>1, <3>3, <3>5 DEF CleanMove, Call, Control
  <2>8. CleanMove
    BY <2>3, <2>7
  <2> QED BY <2>6, <2>8 DEF CleanStep
<1>5. CASE k # 0 /\ s.level = Defined
  BY <1>1, <1>2, <1>5 DEF OpenVarDecl
<1> QED BY <1>1, <1>3, <1>4, <1>5 DEF OpenVarDecl

LEMMA DeclareVarClean ==
  ASSUME Clear, NEW type, NEW v, ~IsBad(v), DeclareVar(type, v)
  PROVE  CleanStep
<1>0. Sound
  BY DEF Clear
<1>1. PICK k, x, s : /\ k = Top.sym /\ x = This.name
                     /\ s = [SymbolAt(k, x) EXCEPT !.type = type, !.value = v, !.level = Declared]
  OBVIOUS
<1>2. k \in DOMAIN scopes /\ x \in DOMAIN scopes[k].sym => ~IsBad(s.value)
  BY <1>0, <1>1, SymbolDomain DEF SymbolFields
<1>3. PICK new : new = SetSymbol(k, x, s)
  OBVIOUS
<1>4. \A j \in DOMAIN new : \A y \in DOMAIN new[j].sym : ~IsBad(new[j].sym[y].value)
  BY <1>0, <1>2, <1>3, SymbolSetClean DEF Clear, Sound, Shape
<1>5. SymbolsClean'
  BY <1>1, <1>3, <1>4 DEF DeclareVar, SymbolsClean
<1>6. NodesClean'
  BY NodeSetClean DEF DeclareVar, Clear, NodesClean
<1> QED BY <1>5, <1>6, ReturnIs DEF DeclareVar, CleanStep

LEMMA FinishVarDeclClean ==
  ASSUME Clear, NEW value, Made(types, value), ~hadError', FinishVarDecl(value)
  PROVE  CleanStep
<1>1. Yield(Crash) => CleanStep
  BY NotBad, YieldClean
<1>2. FailVarDecl(TRUE) => hadError'
  BY DEF FailVarDecl
<1>3. Sound
  BY DEF Clear
<1>4. PICK type, v : \/ Yield(Crash) \/ FailVarDecl(TRUE)
                     \/ ~IsCrash(v) /\ ~IsBad(v) /\ DeclareVar(type, v)
  BY <1>3, FinishIs
<1>5. ~IsBad(v) /\ DeclareVar(type, v) => CleanStep
  BY DeclareVarClean
<1>6. ~FailVarDecl(TRUE)
  BY <1>2
<1> QED BY <1>1, <1>4, <1>5, <1>6

LEMMA VarDeclClean == ASSUME Clear, ~hadError', AnalyzeVarDecl PROVE CleanStep
<1>1. Sound /\ This.kind = "VAR_DECL"
  BY ClearIs DEF AnalyzeVarDecl
<1>2. CASE At("VAR_DECL", "enter") /\ OpenVarDecl
  BY <1>1, <1>2, ClearIs, OpenVarDeclClean
<1>3. FailVarDecl(TRUE) => hadError'
  BY DEF FailVarDecl
<1>4. CASE At("VAR_DECL", "type") /\ ~IsType(ctl.val) /\ FailVarDecl(~IsBad(ctl.val))
  <2>1. ~IsBad(ctl.val)
    BY <1>4, ClearIs, TopIsClear
  <2>2. hadError'
    BY <1>4, <2>1 DEF FailVarDecl
  <2> QED BY <2>2
<1>5. CASE At("VAR_DECL", "type")
           /\ \/ HasKid(2) /\ Visit([[Top EXCEPT !.ty = ctl.val.t] EXCEPT !.pc = "value"], Kid(2), ctl.val.t)
              \/ /\ Loop([[Top EXCEPT !.ty = ctl.val.t] EXCEPT !.val = Uninit])
                 /\ UNCHANGED <<folded, scopes>>
  <2>0. PICK t : t = ctl.val.t
    OBVIOUS
  <2>1. PICK f, g, u, h : /\ f = [Top EXCEPT !.ty = t] /\ g = [f EXCEPT !.pc = "value"]
                          /\ u = [f EXCEPT !.val = Uninit] /\ h = [u EXCEPT !.pc = "next"]
    OBVIOUS
  <2>2. /\ g.node = Top.node /\ g.bad = Top.bad /\ g.val = Top.val /\ g.pc = "value"
        /\ h.node = Top.node /\ h.bad = Top.bad /\ h.val = Uninit /\ h.pc = "next"
        /\ Top.pc = "type"
    BY <1>5, <2>1, TopIsClear, ClearIs DEF FrameFields
  <2>3. \A k : ~Ahead(g, k) /\ ~Ahead(h, k)
    BY <1>1, <2>2 DEF Ahead, AheadIn, This
  <2>4. Ahead(Top, 2)
    BY <1>1, <2>2 DEF Ahead, AheadIn, This
  <2>5. Onward(g) /\ Onward(h)
    BY <1>1, <2>2, <2>3, OnwardAt, TopIsClear, NotBad DEF FrameClean
  <2>6. CASE HasKid(2) /\ Visit(g, Kid(2), t)
    BY <1>1, <2>2, <2>3, <2>4, <2>5, <2>6, Positions, VisitClean DEF HasKid
  <2>7. CASE Loop(u) /\ UNCHANGED <<folded, scopes>>
    <3>1. stack' = Append(Below, h) /\ ctl'.op = "go"
      BY <2>1, <2>7 DEF Loop, Go, Control
    <3>2. NodesClean' /\ SymbolsClean'
      BY <2>7 DEF Clear, NodesClean, SymbolsClean
    <3> QED BY <2>5, <3>1, <3>2 DEF CleanStep, CleanMove
  <2> QED BY <1>5, <2>0, <2>1, <2>6, <2>7
<1>6. CASE At("VAR_DECL", "value") /\ IsBad(ctl.val)
  BY <1>6, ClearIs, TopIsClear
<1>7. Made(types, ctl.val) /\ Made(types, Top.val)
  BY <1>1, Given, TopVal
<1> QED BY <1>2, <1>4, <1>5, <1>6, <1>7, FinishVarDeclClean DEF AnalyzeVarDecl

LEMMA OpenFunctionClean ==
  ASSUME Clear, This.kind = "FUNC_DECL", Top.pc \in {"enter", "ret"}, NEW ret, OpenFunction(ret)
  PROVE  CleanStep
<1>0. Sound
  BY DEF Clear
<1>1. PICK n, x, s : /\ n = Len(scopes) /\ x = This.name
                     /\ s = [Innermost[x] EXCEPT !.type = ret, !.value = Uninit, !.level = Declared]
  OBVIOUS
<1>2. PICK here : here = IF x \in DOMAIN Innermost THEN SetSymbol(n, x, s) ELSE scopes
  OBVIOUS
<1>3. \A k \in DOMAIN here : \A y \in DOMAIN here[k].sym : ~IsBad(here[k].sym[y].value)
  <2>1. n \in DOMAIN scopes /\ x \in DOMAIN scopes[n].sym => ~IsBad(s.value)
    BY <1>0, <1>1, SymbolDomain, NotBad DEF SymbolFields, Innermost, SymbolAt
  <2>2. CASE x \in DOMAIN Innermost
    BY <1>0, <1>2, <2>1, <2>2, SymbolSetClean DEF Clear, Sound, Shape
  <2>3. CASE x \notin DOMAIN Innermost
    BY <1>2, <2>3 DEF Clear, SymbolsClean
  <2> QED BY <2>2, <2>3
<1>4. \E S : here \in Seq(S)
  <2>0. PICK S : scopes \in Seq(S)
    BY <1>0 DEF Sound, Shape, ScopesOK
  <2>1. PICK m \in Nat : scopes \in [1 .. m -> S]
    BY <2>0
  <2>2. PICK c : c = [scopes[n] EXCEPT !.sym[x] = s]
    OBVIOUS
  <2>3. [scopes EXCEPT ![n] = c] \in [1 .. m -> S \cup {c}]
    BY <2>1
  <2>4. [scopes EXCEPT ![n] = c] \in Seq(S \cup {c})
    BY <2>1, <2>3
  <2>5. SetSymbol(n, x, s) = [scopes EXCEPT ![n] = c]
    BY <2>2 DEF SetSymbol
  <2> QED BY <1>2, <2>0, <2>4, <2>5
<1>5. PICK sc : sc = Scope(This.root, <<>>)
  OBVIOUS
<1>6. \A y \in DOMAIN sc.sym : ~IsBad(sc.sym[y].value)
  BY <1>5 DEF Scope
<1>7. PICK new : new = Append(here, sc)
  OBVIOUS
<1>8. \A k \in DOMAIN new : \A y \in DOMAIN new[k].sym : ~IsBad(new[k].sym[y].value)
  BY <1>3, <1>4, <1>6, <1>7, PushedClean
<1>9. scopes' = new /\ folded' = folded
  BY <1>1, <1>2, <1>5, <1>7 DEF OpenFunction
<1>10. NodesClean' /\ SymbolsClean'
  BY <1>8, <1>9 DEF Clear, NodesClean, SymbolsClean
<1>11. PICK f, g : f = [Top EXCEPT !.ty = ret, !.save = retType] /\ g = [f EXCEPT !.pc = "next"]
  OBVIOUS
<1>12. PICK i \in Nat \ {0} : i = Top.i
  BY TopIsClear
<1>13. g.node = Top.node /\ g.bad = Top.bad /\ g.val = Top.val /\ g.pc = "next" /\ g.i = i
  BY <1>11, <1>12, TopIsClear DEF FrameFields
<1>14. Onward(g)
  BY <1>12, <1>13, OnwardAt, TopIsClear DEF FrameClean, Ahead, AheadIn, This
<1>15. stack' = Append(Below, g) /\ ctl'.op = "go"
  BY <1>11 DEF OpenFunction, Loop, Go, Control
<1> QED BY <1>10, <1>14, <1>15 DEF CleanStep, CleanMove

\* A loop goes on with the next item.
LEMMA NextItemIs ==
  ASSUME Sound, NEW g, g = [NextItem EXCEPT !.pc = "next"]
  PROVE  /\ DOMAIN g = FrameFields /\ g.node = Top.node /\ g.bad = Top.bad /\ g.val = Top.val
         /\ g.pc = "next" /\ g.i = Top.i + 1 /\ g.ty = Top.ty /\ g.j = Top.j
BY TopIs DEF FrameFields, NextItem

LEMMA ItemIsAhead ==
  ASSUME Clear, This.kind \in {"FUNC_DECL", "STRUCT_LITERAL"},
         Top.pc \in {"next", "param", "item", "value"},
         NEW g, g.node = Top.node, g.pc = "next", g.i = Top.i + 1
  PROVE  \A k \in DOMAIN This.kids : Ahead(g, k) => Ahead(Top, k)
<1>1. PICK i \in Nat \ {0} : i = Top.i /\ g.i = i + 1
  BY TopIsClear
<1>2. Node(g.node) = This /\ Node(Top.node) = This
  BY DEF This
<1> SUFFICES ASSUME NEW k \in DOMAIN This.kids, Ahead(g, k) PROVE Ahead(Top, k)
  OBVIOUS
<1>3. k \in Nat
  BY KidsAreNumbered DEF Clear
<1>4. CASE This.kind = "FUNC_DECL"
  <2>1. k = 2 \/ k >= i + 1 + 2
    BY <1>1, <1>2, <1>3, <1>4 DEF Ahead, AheadIn
  <2>2. k = 2 => Top.pc # "body"
    OBVIOUS
  <2>3. k = 2 \/ k > i + 2
    BY <1>1, <1>3, <2>1
  <2> QED BY <1>1, <1>2, <1>3, <1>4, <2>2, <2>3 DEF Ahead, AheadIn
<1>5. CASE This.kind = "STRUCT_LITERAL"
  <2>1. k > i + 1
    BY <1>1, <1>2, <1>3, <1>5 DEF Ahead, AheadIn
  <2> QED BY <1>1, <1>2, <1>3, <1>5, <2>1 DEF Ahead, AheadIn
<1> QED BY <1>4, <1>5

LEMMA ParamsClean ==
  ASSUME Clear, This.kind = "FUNC_DECL", Top.pc \in {"next", "param"}, NEW type, DeclareParams(type)
  PROVE  CleanStep
<1>0. Sound
  BY DEF Clear
<1>1. PICK g : g = [NextItem EXCEPT !.pc = "next"]
  OBVIOUS
<1>2. g.node = Top.node /\ g.bad = Top.bad /\ g.val = Top.val /\ g.pc = "next" /\ g.i = Top.i + 1
  BY <1>0, <1>1, NextItemIs
<1>3. Onward(g)
  BY <1>2, ItemIsAhead, OnwardAt, TopIsClear DEF FrameClean
<1>4. PICK n, sym : /\ n = Len(scopes)
                    /\ sym = [x \in DOMAIN Innermost \cup {This.labels[Top.i][l] : l \in DOMAIN This.labels[Top.i]} |->
                                IF x \in DOMAIN Innermost THEN Innermost[x]
                                ELSE [Symbol(Declared, 0) EXCEPT !.type = type, !.value = Uninit]]
  OBVIOUS
<1>5. scopes' = [scopes EXCEPT ![n].sym = sym] /\ folded' = folded
  BY <1>4 DEF DeclareParams
<1>6. ASSUME n \in DOMAIN scopes, NEW x \in DOMAIN sym PROVE ~IsBad(sym[x].value)
  <2>1. PICK p : p = [Symbol(Declared, 0) EXCEPT !.type = type, !.value = Uninit]
    OBVIOUS
  <2>2. p.value = Uninit
    BY <2>1 DEF Symbol
  <2>3. sym[x] = IF x \in DOMAIN Innermost THEN Innermost[x] ELSE p
    BY <1>4, <1>6, <2>1
  <2>4. x \in DOMAIN Innermost => ~IsBad(Innermost[x].value)
    BY <1>4, <1>6 DEF Innermost, Clear, SymbolsClean
  <2> QED BY <2>2, <2>3, <2>4, NotBad
<1>7. \A j \in DOMAIN scopes : DOMAIN scopes[j] = {"root", "sym"}
  BY <1>0 DEF Sound, Shape, ScopesOK
<1>8. /\ DOMAIN scopes' = DOMAIN scopes
      /\ \A j \in DOMAIN scopes : j # n => scopes'[j] = scopes[j]
      /\ n \in DOMAIN scopes => scopes'[n].sym = sym
  BY <1>5, <1>7
<1>9. NodesClean' /\ SymbolsClean'
  BY <1>5, <1>6, <1>8 DEF Clear, NodesClean, SymbolsClean
<1>10. stack' = Append(Below, g) /\ ctl'.op = "go"
  BY <1>1 DEF DeclareParams, Loop, Go, Control
<1> QED BY <1>3, <1>9, <1>10 DEF CleanStep, CleanMove

LEMMA CloseFunctionClean == ASSUME Clear, NEW report, CloseFunction(report) PROVE CleanStep
<1>1. SymbolsClean'
  BY PoppedClean DEF CloseFunction, Clear, Sound, Shape
<1>2. NodesClean'
  BY DEF CloseFunction, Clear, NodesClean
<1> QED BY <1>1, <1>2, NotBad, ReturnIs DEF CloseFunction, CleanStep

LEMMA FuncDeclClean == ASSUME Clear, ~hadError', AnalyzeFuncDecl PROVE CleanStep
<1>1. Sound /\ This.kind = "FUNC_DECL"
  BY ClearIs DEF AnalyzeFuncDecl
<1>2. PICK i \in Nat \ {0} : i = Top.i
  BY TopIsClear
<1>3. CASE At("FUNC_DECL", "enter") /\ HasKid(1) /\ Visit([Top EXCEPT !.pc = "ret"], Kid(1), NoType)
  BY <1>1, <1>3, ClearIs, Positions, FirstClean DEF HasKid
<1>4. CASE (At("FUNC_DECL", "enter") \/ At("FUNC_DECL", "ret"))
           /\ \E ret : OpenFunction(ret)
  BY <1>1, <1>4, ClearIs, OpenFunctionClean
<1>5. CASE At("FUNC_DECL", "ret") /\ IsBad(ctl.val)
  BY <1>5, ClearIs, TopIsClear
<1>6. CASE /\ At("FUNC_DECL", "next") /\ ParamsLeft /\ HasKid(2 + Top.i)
           /\ Visit([Top EXCEPT !.pc = "param"], Kid(2 + Top.i), NoType)
  <2>1. PICK g : g = [Top EXCEPT !.pc = "param"]
    OBVIOUS
  <2>2. /\ g.node = Top.node /\ g.bad = Top.bad /\ g.val = Top.val /\ g.pc = "param" /\ g.i = i
        /\ Top.pc = "next"
    BY <1>2, <1>6, <2>1, TopIsClear, ClearIs DEF FrameFields
  <2>3. Onward(g)
    BY <1>1, <1>2, <2>2, OnwardAt, TopIsClear DEF FrameClean, Ahead, AheadIn, This
  <2>4. Ahead(Top, 2 + i) /\ ~Ahead(g, 2 + i)
    BY <1>1, <1>2, <2>2 DEF Ahead, AheadIn, This
  <2> QED BY <1>1, <1>2, <1>6, <2>1, <2>2, <2>3, <2>4, Positions, VisitClean DEF ParamsLeft, HasKid
<1>7. CASE (At("FUNC_DECL", "next") \/ At("FUNC_DECL", "param")) /\ \E type : DeclareParams(type)
  BY <1>1, <1>7, ClearIs, ParamsClean
<1>8. CASE Continue(NextItem, TRUE)
  BY <1>8 DEF Continue
<1>9. CASE /\ At("FUNC_DECL", "next") /\ HasKid(2)
           /\ Visit([Top EXCEPT !.pc = "body"], Kid(2), Top.ty)
  <2>1. PICK g : g = [Top EXCEPT !.pc = "body"]
    OBVIOUS
  <2>2. /\ g.node = Top.node /\ g.bad = Top.bad /\ g.val = Top.val /\ g.pc = "body" /\ g.i = i
        /\ Top.pc = "next"
    BY <1>2, <1>9, <2>1, TopIsClear, ClearIs DEF FrameFields
  <2>3. Onward(g)
    BY <1>1, <1>2, <2>2, OnwardAt, TopIsClear DEF FrameClean, Ahead, AheadIn, This
  <2>4. Ahead(Top, 2) /\ ~Ahead(g, 2)
    BY <1>1, <1>2, <2>2 DEF Ahead, AheadIn, This
  <2> QED BY <1>1, <1>9, <2>1, <2>2, <2>3, <2>4, Positions, VisitClean DEF HasKid
<1>10. CASE \E report : CloseFunction(report)
  BY <1>10, CloseFunctionClean
<1> QED BY <1>3, <1>4, <1>5, <1>6, <1>7, <1>8, <1>9, <1>10, BailReports DEF AnalyzeFuncDecl

(***************************************************************************)
(* The handlers of structs.                                                *)
(***************************************************************************)
LEMMA NextFieldClean ==
  ASSUME Clear, This.kind = "STRUCT_TYPE", Top.i <= Len(This.labels),
         NEW f, DOMAIN f = FrameFields, f.node = Top.node, f.i = Top.i, f.j = 1, ~f.bad, ~IsBad(f.val),
         NEW report, Continue(NextName(f), report)
  PROVE  CleanStep
<1>1. PICK i \in Nat \ {0} : i = Top.i
  BY TopIsClear
<1>2. NodeOK(prog, This) /\ Top.node \in Nodes
  BY ReadyHolds DEF Clear, Sound, Ready, FrameOK, ProgramOK, This, Node, Nodes
<1>3. PICK m \in Nat : m = Len(This.labels) /\ DOMAIN This.labels = 1 .. m
  BY <1>2 DEF NodeOK
<1>4. This.labels[i] \in Seq(STRING) /\ i \in DOMAIN This.labels
  BY <1>1, <1>2, <1>3 DEF NodeOK
<1>5. PICK l \in Nat : l = Len(This.labels[i])
  BY <1>4
<1>6. l <= 1
  BY <1>2, <1>4, <1>5 DEF Clear, OneNameEach, This
<1>7. PICK g : g = NextName(f)
  OBVIOUS
<1>8. g = [f EXCEPT !.i = @ + 1, !.j = 1]
  BY <1>1, <1>5, <1>6, <1>7 DEF NextName
<1>9. PICK h : h = [g EXCEPT !.pc = "next"]
  OBVIOUS
<1>10. /\ h.node = Top.node /\ h.bad = f.bad /\ h.val = f.val /\ h.pc = "next" /\ h.i = i + 1 /\ h.j = 1
  BY <1>1, <1>8, <1>9 DEF FrameFields
<1>11. Node(h.node) = This /\ Node(Top.node) = This
  BY <1>10 DEF This
<1>12. ASSUME NEW k \in DOMAIN This.kids, Ahead(h, k) PROVE Ahead(Top, k)
  <2>1. k \in Nat
    BY KidsAreNumbered DEF Clear
  <2>2. k >= 2 * (i + 1) - 1
    BY <1>10, <1>11, <1>12, <2>1 DEF Ahead, AheadIn
  <2>3. k > 2 * i
    BY <2>1, <2>2
  <2> QED BY <1>1, <1>11, <2>1, <2>3 DEF Ahead, AheadIn
<1>13. Onward(h)
  BY <1>10, <1>12 DEF Onward, FrameClean
<1> QED BY <1>7, <1>9, <1>13, ContinueClean

LEMMA AddFieldClean ==
  ASSUME Clear, This.kind = "STRUCT_TYPE", Top.i <= Len(This.labels),
         NEW type, NEW has, NEW default, AddField(type, has, default)
  PROVE  CleanStep
<1>1. PICK f : f = [Top EXCEPT !.fields = Append(@, Field(This.labels[Top.i][Top.j], type, has, default))]
  OBVIOUS
<1>2. /\ DOMAIN f = FrameFields /\ f.node = Top.node /\ f.i = Top.i /\ f.j = Top.j
      /\ f.bad = Top.bad /\ f.val = Top.val
  BY <1>1, TopIsClear DEF FrameFields
<1>3. f.j = 1 /\ ~f.bad /\ ~IsBad(f.val)
  BY <1>2, TopIsClear DEF FrameClean, This
<1>4. Continue(NextName(f), FALSE)
  BY <1>1 DEF AddField
<1> QED BY <1>2, <1>3, <1>4, NextFieldClean

\* A field is read at another point.
LEMMA FieldVisitClean ==
  ASSUME Clear, This.kind = "STRUCT_TYPE", Top.i <= Len(This.labels), NEW exp, NEW g,
         g.node = Top.node, g.i = Top.i, g.j = Top.j, g.bad = Top.bad, g.val = Top.val,
         \/ /\ g.pc = "type" /\ Top.pc \in {"enter", "next"}
            /\ HasKid(2 * Top.i - 1) /\ Visit(g, Kid(2 * Top.i - 1), exp)
         \/ /\ g.pc = "default" /\ Top.pc \in {"enter", "next", "type"}
            /\ HasKid(2 * Top.i) /\ Visit(g, Kid(2 * Top.i), exp)
  PROVE  CleanStep
<1>1. PICK i \in Nat \ {0} : i = Top.i
  BY TopIsClear
<1>2. Node(g.node) = This /\ Node(Top.node) = This
  BY DEF This
<1>3. ASSUME NEW k \in DOMAIN This.kids, Ahead(g, k) PROVE Ahead(Top, k)
  <2>1. k \in Nat
    BY KidsAreNumbered DEF Clear
  <2>2. k >= 2 * i - 1 /\ k # 2 * i - 1 /\ (k = 2 * i => g.pc = "type")
    BY <1>1, <1>2, <1>3, <2>1 DEF Ahead, AheadIn
  <2> QED BY <1>1, <1>2, <2>1, <2>2 DEF Ahead, AheadIn
<1>4. FrameClean(g)
  BY <1>2, TopIsClear DEF FrameClean
<1>5. Onward(g)
  BY <1>3, <1>4 DEF Onward
<1>6. 2 * i - 1 \in DOMAIN This.kids /\ 2 * i \in DOMAIN This.kids
  BY <1>1, Positions DEF Clear
<1>7. CASE g.pc = "type"
  <2>1. Ahead(Top, 2 * i - 1) /\ ~Ahead(g, 2 * i - 1)
    BY <1>1, <1>2, <1>7 DEF Ahead, AheadIn
  <2> QED BY <1>1, <1>5, <1>6, <1>7, <2>1, VisitClean DEF HasKid
<1>8. CASE g.pc = "default"
  <2>1. Ahead(Top, 2 * i) /\ ~Ahead(g, 2 * i)
    BY <1>1, <1>2, <1>8 DEF Ahead, AheadIn
  <2> QED BY <1>1, <1>5, <1>6, <1>8, <2>1, VisitClean DEF HasKid
<1> QED BY <1>7, <1>8

LEMMA ReadDefaultClean ==
  ASSUME Clear, This.kind = "STRUCT_TYPE", Top.i <= Len(This.labels), Top.pc \in {"enter", "next", "type"},
         NEW type, ~hadError', ReadDefault(type)
  PROVE  CleanStep
<1>1. PICK g : g = [Top EXCEPT !.pc = "default", !.ty = type]
  OBVIOUS
<1>2. g.node = Top.node /\ g.i = Top.i /\ g.j = Top.j /\ g.bad = Top.bad /\ g.val = Top.val /\ g.pc = "default"
  BY <1>1, TopIsClear DEF FrameFields
<1>3. FailField(TRUE) => hadError'
  BY DEF FailField, Continue
<1>4. CASE HasKid(2 * Top.i) /\ Visit(g, Kid(2 * Top.i), type)
  BY <1>2, <1>4, FieldVisitClean
<1>5. CASE AddField(type, FALSE, None)
  BY <1>5, AddFieldClean
<1> QED BY <1>1, <1>3, <1>4, <1>5 DEF ReadDefault

LEMMA StructTypeClean == ASSUME Clear, ~hadError', AnalyzeStructType PROVE CleanStep
<1>1. Sound /\ This.kind = "STRUCT_TYPE"
  BY ClearIs DEF AnalyzeStructType, AtLoop
<1>2. AtLoop("STRUCT_TYPE") => Top.pc \in {"enter", "next"}
  BY ClearIs DEF AtLoop
<1>3. ~FailField(TRUE)
  BY DEF FailField, Continue
<1>4. CASE /\ AtLoop("STRUCT_TYPE") /\ Top.i <= Len(This.labels) /\ HasKid(2 * Top.i - 1)
           /\ Visit([Top EXCEPT !.pc = "type"], Kid(2 * Top.i - 1), NoType)
  <2>1. PICK g : g = [Top EXCEPT !.pc = "type"]
    OBVIOUS
  <2>2. g.node = Top.node /\ g.i = Top.i /\ g.j = Top.j /\ g.bad = Top.bad /\ g.val = Top.val /\ g.pc = "type"
    BY <2>1, TopIsClear DEF FrameFields
  <2> QED BY <1>1, <1>2, <1>4, <2>1, <2>2, FieldVisitClean
<1>5. CASE AtLoop("STRUCT_TYPE") /\ Top.i <= Len(This.labels) /\ ReadDefault(TyAuto)
  BY <1>1, <1>2, <1>5, ReadDefaultClean
<1>6. CASE /\ At("STRUCT_TYPE", "type")
           /\ IF IsType(ctl.val) THEN ReadDefault(ctl.val.t) ELSE FailField(~IsBad(ctl.val))
  <2>1. Top.pc = "type" /\ ~IsBad(ctl.val)
    BY <1>6, ClearIs, TopIsClear
  <2>2. Top.i <= Len(This.labels)
    BY <1>1, <2>1, ReadyHolds DEF Sound, Ready, FrameOK, This
  <2>3. CASE IsType(ctl.val)
    BY <1>1, <1>6, <2>1, <2>2, <2>3, ReadDefaultClean
  <2>4. CASE ~IsType(ctl.val)
    <3>1. (~IsBad(ctl.val)) = TRUE
      BY <2>1
    <3> QED BY <1>3, <1>6, <2>4, <3>1
  <2> QED BY <2>3, <2>4
<1>7. CASE At("STRUCT_TYPE", "default") /\ FieldDefault(ctl.val)
  <2>1. Top.pc = "default" /\ ~IsBad(ctl.val)
    BY <1>7, ClearIs, TopIsClear
  <2>2. Top.i <= Len(This.labels)
    BY <1>1, <2>1, TopIsClear DEF FrameClean, This
  <2>3. \A type, v : AddField(type, TRUE, v) => CleanStep
    BY <1>1, <2>2, AddFieldClean
  <2>4. Yield(Crash) => CleanStep
    BY NotBad, YieldClean
  <2> QED BY <1>3, <1>7, <2>1, <2>3, <2>4 DEF FieldDefault
<1>8. CASE /\ AtLoop("STRUCT_TYPE")
           /\ IF Top.bad THEN Yield(Bad)
              ELSE InjectNewType(Info("STRUCT", FALSE, Top.fields), TypeVal(NextTypeId(types)))
  <2>1. ~Top.bad
    BY TopIsClear DEF FrameClean
  <2> QED BY <1>8, <2>1, NotBad, NewTypeClean
<1> QED BY <1>4, <1>5, <1>6, <1>7, <1>8 DEF AnalyzeStructType

LEMMA TopValIs == ASSUME Sound PROVE Top.val = Val(Top.val.k, Top.val.t, Top.val.fs)
<1>1. FrameMade(types, Top)
  BY TopIs
<1>2. CASE Collects(Top)
  <2>1. PICK fs : fs = Top.val.fs
    OBVIOUS
  <2>2. Top.val = Val("STRUCT", NoType, fs)
    BY <1>1, <1>2, <2>1 DEF FrameMade
  <2> QED BY <2>1, <2>2 DEF Val
<1>3. CASE ~Collects(Top)
  BY <1>1, <1>3, MadeIs DEF FrameMade
<1> QED BY <1>2, <1>3

LEMMA StartLiteralClean ==
  ASSUME Clear, This.kind = "STRUCT_LITERAL", Top.pc \in {"enter", "to"}, ~hadError',
         NEW t, StartLiteral(t)
  PROVE  CleanStep
<1>1. PICK i \in Nat \ {0} : i = Top.i
  BY TopIsClear
<1>2. ASSUME NEW u, NEW v, ~IsBad(v), Continue([Top EXCEPT !.ty = u, !.val = v], FALSE) PROVE CleanStep
  <2>1. PICK f, g : f = [Top EXCEPT !.ty = u, !.val = v] /\ g = [f EXCEPT !.pc = "next"]
    OBVIOUS
  <2>2. g.node = Top.node /\ g.bad = Top.bad /\ g.val = v /\ g.pc = "next" /\ g.i = i
    BY <1>1, <2>1, TopIsClear DEF FrameFields
  <2>3. Onward(g)
    BY <1>1, <1>2, <2>2, OnwardAt, TopIsClear DEF FrameClean, Ahead, AheadIn, This
  <2> QED BY <1>2, <2>1, <2>3, ContinueClean
<1>3. CASE t = TyAuto
  BY <1>2, <1>3, NotBad DEF StartLiteral
<1>4. CASE t # TyAuto /\ IsStructType(types, t)
  <2>1. ~IsBad(MakeValue(types, t))
    BY <1>4, NotBad DEF MakeValue, HasFields, IsStructType
  <2> QED BY <1>2, <1>4, <2>1, NotBad, YieldClean DEF StartLiteral
<1>5. CASE t # TyAuto /\ ~IsStructType(types, t)
  BY <1>5, BailReports DEF StartLiteral
<1> QED BY <1>3, <1>4, <1>5

\* An item of a literal is asked for, or was answered.
LEMMA ItemAsked ==
  ASSUME Clear, This.kind = "STRUCT_LITERAL", Top.i <= Len(This.labels), Top.pc = "next",
         NEW g, g.node = Top.node, g.bad = Top.bad, g.val = Top.val, g.i = Top.i, g.pc \in {"item", "value"}
  PROVE  /\ Onward(g) /\ g.pc # "lazy"
         /\ 1 + Top.i \in DOMAIN This.kids /\ Kid(1 + Top.i) # 0
         /\ Ahead(Top, 1 + Top.i) /\ ~Ahead(g, 1 + Top.i)
<1>1. PICK i \in Nat \ {0} : i = Top.i
  BY TopIsClear
<1>2. Onward(g)
  BY <1>1, OnwardAt, TopIsClear DEF FrameClean, Ahead, AheadIn, This
<1>3. Ahead(Top, 1 + i) /\ ~Ahead(g, 1 + i)
  BY <1>1 DEF Ahead, AheadIn, This
<1>4. 1 + i \in DOMAIN This.kids /\ Kid(1 + i) # 0
  BY <1>1, Positions DEF Clear
<1> QED BY <1>1, <1>2, <1>3, <1>4

LEMMA ItemAnswered ==
  ASSUME Clear, This.kind = "STRUCT_LITERAL", Top.pc \in {"next", "item", "value"},
         NEW f, f.node = Top.node, NEW g, g = [f EXCEPT !.pc = "next"], DOMAIN f = FrameFields,
         f.i = Top.i + 1, ~f.bad, ~IsBad(f.val), NEW report, Continue(f, report)
  PROVE  CleanStep
<1>1. g.node = Top.node /\ g.bad = f.bad /\ g.val = f.val /\ g.pc = "next" /\ g.i = Top.i + 1
  BY DEF FrameFields
<1>2. Onward(g)
  BY <1>1, ItemIsAhead, OnwardAt
<1> QED BY <1>2, ContinueClean

LEMMA AutoLiteralClean == ASSUME Clear, ~hadError', AnalyzeAutoLiteral PROVE CleanStep
<1>1. Sound /\ This.kind = "STRUCT_LITERAL" /\ Top.pc \in {"next", "item"}
  BY ClearIs DEF AnalyzeAutoLiteral
<1>2. CASE /\ At("STRUCT_LITERAL", "next") /\ Top.i <= Len(This.labels)
           /\ Visit([Top EXCEPT !.pc = "item"], Kid(1 + Top.i), Top.exp)
  <2>1. PICK g : g = [Top EXCEPT !.pc = "item"]
    OBVIOUS
  <2>2. g.node = Top.node /\ g.bad = Top.bad /\ g.val = Top.val /\ g.i = Top.i /\ g.pc = "item"
    BY <2>1, TopIsClear DEF FrameFields
  <2>3. /\ Onward(g) /\ g.pc # "lazy"
        /\ 1 + Top.i \in DOMAIN This.kids /\ Kid(1 + Top.i) # 0
        /\ Ahead(Top, 1 + Top.i) /\ ~Ahead(g, 1 + Top.i)
    BY <1>1, <1>2, <2>2, ClearIs, ItemAsked
  <2> QED BY <1>2, <2>1, <2>3, VisitClean
<1>3. CASE At("STRUCT_LITERAL", "item") /\ IsBad(ctl.val)
  BY <1>3, ClearIs, TopIsClear
<1>4. CASE Continue([NextItem EXCEPT
             !.fields = Append(@, Field(Label[1], TypeOf(ctl.val), FALSE, None)),
             !.val.fs = Append(@, ctl.val)], FALSE)
  <2>1. PICK fld, w : fld = Field(Label[1], TypeOf(ctl.val), FALSE, None) /\ w = ctl.val
    OBVIOUS
  <2>2. PICK f, g : /\ f = [NextItem EXCEPT !.fields = Append(@, fld), !.val.fs = Append(@, w)]
                    /\ g = [f EXCEPT !.pc = "next"]
    OBVIOUS
  <2>3. PICK fs, val : fs = Append(Top.val.fs, w) /\ val = [Top.val EXCEPT !.fs = fs]
    OBVIOUS
  <2>4. /\ DOMAIN f = FrameFields /\ f.node = Top.node /\ f.i = Top.i + 1 /\ f.bad = Top.bad /\ f.val = val
    BY <2>2, <2>3, TopIsClear DEF FrameFields, NextItem
  <2>5. val.k = Top.val.k
    <3>1. PICK v : v = Top.val
      OBVIOUS
    <3>2. v = Val(v.k, v.t, v.fs) /\ val = [v EXCEPT !.fs = fs]
      BY <1>1, <2>3, <3>1, TopValIs
    <3> QED BY <3>1, <3>2 DEF Val
  <2>6. ~f.bad /\ ~IsBad(f.val)
    BY <2>4, <2>5, TopIsClear DEF FrameClean, IsBad
  <2>7. Continue(f, FALSE)
    BY <1>4, <2>1, <2>2
  <2> QED BY <1>1, <2>2, <2>4, <2>6, <2>7, ItemAnswered
<1>5. CASE InjectNewType(Info("AUTO_STRUCT", FALSE, Top.fields), StructObj(NextTypeId(types), Top.val.fs))
  BY <1>5, NotBad, NewTypeClean
<1> QED BY <1>2, <1>3, <1>4, <1>5, BailReports DEF AnalyzeAutoLiteral

LEMMA StructLiteralClean == ASSUME Clear, ~hadError', AnalyzeStructLiteral PROVE CleanStep
<1>1. Sound /\ This.kind = "STRUCT_LITERAL"
  BY ClearIs DEF AnalyzeStructLiteral, AnalyzeAutoLiteral
<1>2. CASE /\ At("STRUCT_LITERAL", "enter") \/ At("STRUCT_LITERAL", "to")
           /\ \E t : StartLiteral(t)
  BY <1>1, <1>2, ClearIs, StartLiteralClean
<1>3. CASE At("STRUCT_LITERAL", "enter") /\ HasKid(1) /\ Visit([Top EXCEPT !.pc = "to"], Kid(1), NoType)
  BY <1>1, <1>3, ClearIs, Positions, FirstClean DEF HasKid
<1>4. CASE At("STRUCT_LITERAL", "to") /\ IsBad(ctl.val)
  BY <1>4, ClearIs, TopIsClear
<1>5. Continue([NextItem EXCEPT !.bad = TRUE], TRUE) => hadError'
  BY DEF Continue
<1>6. ASSUME At("STRUCT_LITERAL", "next"), Top.i <= Len(This.labels), NEW i, NEW t, NEW g,
             g = [Top EXCEPT !.pc = "value", !.j = i + 1],
             stack' = Append(Below, g), ctl' = Call(Kid(1 + Top.i), t), UNCHANGED <<folded, scopes>>
      PROVE  CleanStep
  <2>1. g.node = Top.node /\ g.bad = Top.bad /\ g.val = Top.val /\ g.i = Top.i /\ g.pc = "value"
    BY <1>6, TopIsClear DEF FrameFields
  <2>2. /\ Onward(g) /\ g.pc # "lazy"
        /\ 1 + Top.i \in DOMAIN This.kids /\ Kid(1 + Top.i) # 0
        /\ Ahead(Top, 1 + Top.i) /\ ~Ahead(g, 1 + Top.i)
    BY <1>1, <1>6, <2>1, ClearIs, ItemAsked
  <2>3. Asks(g, Kid(1 + Top.i))
    BY <2>2 DEF Asks
  <2>4. NodesClean' /\ SymbolsClean'
    BY <1>6 DEF Clear, NodesClean, SymbolsClean
  <2> QED BY <1>6, <2>2, <2>3, <2>4 DEF CleanStep, CleanMove, Call, Control
<1>7. ASSUME At("STRUCT_LITERAL", "value"), NEW i, NEW v, SetLiteralField(i, v) PROVE CleanStep
  <2>1. (hadError' = (hadError \/ IsBad(v)))
    BY <1>7 DEF SetLiteralField, Continue
  <2>2. ~IsBad(v)
    BY <2>1
  <2>3. PICK b : b = (Top.bad \/ IsBad(v))
    OBVIOUS
  <2>4. ~b
    BY <2>2, <2>3, TopIsClear DEF FrameClean
  <2>5. PICK f, g : f = [NextItem EXCEPT !.val.fs[i] = v, !.bad = b] /\ g = [f EXCEPT !.pc = "next"]
    OBVIOUS
  <2>6. PICK fs, val : fs = [Top.val.fs EXCEPT ![i] = v] /\ val = [Top.val EXCEPT !.fs = fs]
    OBVIOUS
  <2>7. DOMAIN f = FrameFields /\ f.node = Top.node /\ f.i = Top.i + 1 /\ f.bad = b /\ f.val = val
    BY <2>5, <2>6, TopIsClear DEF FrameFields, NextItem
  <2>8. val.k = Top.val.k
    <3>1. PICK w : w = Top.val
      OBVIOUS
    <3>2. w = Val(w.k, w.t, w.fs) /\ val = [w EXCEPT !.fs = fs]
      BY <1>1, <2>6, <3>1, TopValIs
    <3> QED BY <3>1, <3>2 DEF Val
  <2>9. ~f.bad /\ ~IsBad(f.val)
    BY <2>4, <2>7, <2>8, TopIsClear DEF FrameClean, IsBad
  <2>10. Continue(f, IsBad(v))
    <3>1. [NextItem EXCEPT !.val.fs[i] = v, !.bad = @ \/ IsBad(v)] = f
      BY <2>3, <2>5, TopIsClear DEF NextItem, FrameFields
    <3> QED BY <1>7, <3>1 DEF SetLiteralField
  <2> QED BY <1>1, <1>7, <2>5, <2>7, <2>9, <2>10, ClearIs, ItemAnswered
<1>8. CASE /\ At("STRUCT_LITERAL", "next")
           /\ LET missing == \E i \in DOMAIN Top.val.fs : Top.val.fs[i].k = "NONE"
              IN  IF missing THEN Bail ELSE IF Top.bad THEN Yield(Bad) ELSE Inject(Top.val)
  <2>1. ~Top.bad /\ ~IsBad(Top.val)
    BY TopIsClear DEF FrameClean
  <2> QED BY <1>8, <2>1, InjectClean, BailReports
<1>9. CASE /\ At("STRUCT_LITERAL", "next") /\ Top.i <= Len(This.labels)
           /\ LET i == TargetField
                  n == Kid(1 + Top.i)
                  t == Fields(types, Top.ty)[i].type
              IN  IF i = 0 THEN Continue([NextItem EXCEPT !.bad = TRUE], TRUE)
                  ELSE /\ stack' = Append(Below, [Top EXCEPT !.pc = "value", !.j = i + 1])
                       /\ ctl' = Call(n, t)
                       /\ hint' = IF TakesHint(n) THEN [hint EXCEPT ![n] = t] ELSE hint
                       /\ UNCHANGED <<folded, scopes, types, threshold, names,
                                      hadError, retType, Driver>>
  <2>1. PICK i : i = TargetField
    OBVIOUS
  <2>2. PICK t : t = Fields(types, Top.ty)[i].type
    OBVIOUS
  <2>3. PICK g : g = [Top EXCEPT !.pc = "value", !.j = i + 1]
    OBVIOUS
  <2>4. stack' = Append(Below, g) /\ ctl' = Call(Kid(1 + Top.i), t) /\ UNCHANGED <<folded, scopes>>
    BY <1>5, <1>9, <2>1, <2>2, <2>3
  <2> QED BY <1>6, <1>9, <2>3, <2>4
<1>10. CASE /\ At("STRUCT_LITERAL", "value")
            /\ LET i == Top.j - 1
                   v == ValueCast(types, Fields(types, Top.ty)[i].type, ctl.val)
               IN  IF IsCrash(v) THEN Yield(Crash) ELSE SetLiteralField(i, v)
  <2>1. PICK i : i = Top.j - 1
    OBVIOUS
  <2>2. PICK v : v = ValueCast(types, Fields(types, Top.ty)[i].type, ctl.val)
    OBVIOUS
  <2>3. Yield(Crash) \/ SetLiteralField(i, v)
    BY <1>10, <2>1, <2>2
  <2> QED BY <1>7, <1>10, <2>3, NotBad, YieldClean
<1> QED BY <1>2, <1>3, <1>4, <1>8, <1>9, <1>10, AutoLiteralClean, BailReports DEF AnalyzeStructLiteral

\* Where nothing has been reported, a handler that reports nothing neither
\* keeps nor returns a VAL_BAD.
LEMMA HandlersClean ==
  ASSUME Clear, This.kind = "IDENT" => LazyFound, ~hadError', AnalyzeExpression \/ AnalyzeVarDecl \/ AnalyzeFuncDecl
  PROVE  CleanStep
<1>1. AnalyzeIdent => This.kind = "IDENT"
  BY DEF AnalyzeIdent, At
<1> QED
  BY <1>1, LiteralClean, IdentClean, BinaryClean, UnaryClean, GroupingClean, DistinctClean,
     CastClean, AccessClean, StructTypeClean, StructLiteralClean, VarDeclClean, FuncDeclClean,
     FuncCallClean, BlockClean, ReturnStatementClean
     DEF AnalyzeExpression, AnalyzeLeaf
=============================================================================
