------------------------------ MODULE Analyzer ------------------------------
(***************************************************************************)
(* The semantic analyser (source/analysis.c).                              *)
(*                                                                         *)
(* analyze() walks the top-level declarations in order, but an identifier  *)
(* that names a declaration not reached yet makes the analyser evaluate    *)
(* that declaration on the spot, from wherever it is: the C call stack is  *)
(* the only record of what is half done.  The module therefore makes that  *)
(* stack explicit.  A frame is one activation of analyze_node with the     *)
(* locals its handler keeps across recursive calls, `pc` names the point   *)
(* the handler waits at, and `ctl` is what happens next: a call of         *)
(* analyze_node, the start of a handler, or the value a call returned.     *)
(* One action is the stretch of a handler between two recursive calls.     *)
(*                                                                         *)
(* A program is given as its syntax tree.  Every node has the same shape:  *)
(*   kind    ND_... in haste.h;  `root` is the top-level declaration it is *)
(*           part of (the code does not keep it, properties use it)        *)
(*   name    of an identifier, declaration or accessed field               *)
(*   const   is_constant of a VAR_DECL, `op == TK_MINUS` of a UNARY        *)
(*   data    the width of a BITS, 0 for the literal 0 of an INTEGER_LIT    *)
(*   labels  the names of each STRUCT_TYPE field, STRUCT_LITERAL field     *)
(*           (<<>> when positional) or FUNC_DECL parameter                 *)
(*   kids    child nodes in the order of the C struct, 0 for NULL          *)
(***************************************************************************)
EXTENDS Values, FiniteSets

CONSTANT Programs    \* the syntax trees the parser may hand over

VARIABLES
  prog,      \* the program under analysis
  folded,    \* node -> the value inject() turned it into, None if it is intact
  hint,      \* struct literal -> type inject_struct_type gave it, or NoType
  analyzed,  \* the nodes whose `analyzed` flag is set
  scopes,    \* the scope list, the global scope first and self->local last
  types,     \* infos of the types created so far
  threshold, \* _new_type_therhold
  names,     \* TypeID -> the name type_pool_set_name gave it
  stack,     \* activations of analyze_node, the running one last
  ctl,       \* what happens next
  hadError,  \* self->had_error
  retType,   \* self->current_return_type
  next,      \* position of analyze()'s loop over the declarations
  status     \* "start", "running", then one of Final

vars == <<prog, folded, hint, analyzed, scopes, types, threshold, names,
          stack, ctl, hadError, retType, next, status>>

\* enum symbol_level
Ahh       == -1
Undefined == 0
Defined   == 1
Declared  == 2

\* "unreachable": an unreachable() or a NULL symbol was reached;
\* "sentinel": the shared _recursion_sentinel was about to be overwritten.
Final == {"ok", "error", "unreachable", "sentinel"}

TypeOfKeyword == [INT |-> TyInt, UINT |-> TyUint, FLOAT |-> TyFloat, STRING |-> TyString,
  CSTR |-> TyCstr, USIZE |-> TyUsize, VOID |-> TyVoid, AUTO |-> TyAuto, TYPE |-> TyType]
TypeKeywords == DOMAIN TypeOfKeyword
Kinds == TypeKeywords \cup
  {"INTEGER_LIT", "FLOAT_LIT", "STRING_LIT", "INT_BITS", "UINT_BITS", "IDENT",
   "BINARY", "UNARY", "ACCESS", "GROUPING", "DISTINCT", "CAST", "STRUCT_TYPE",
   "STRUCT_LITERAL", "VAR_DECL", "FUNC_DECL", "FUNC_CALL", "BLOCK", "RETURN"}

DeclarationKinds == {"VAR_DECL", "FUNC_DECL"}

NodesOf(p) == DOMAIN p.node

\* The number of children the struct of a node's kind has room for.  A block
\* has its statements, a call its callee and its arguments.
Arity(t) ==
  CASE t.kind \in {"UNARY", "GROUPING", "DISTINCT", "ACCESS", "RETURN"} -> 1
    [] t.kind \in {"BINARY", "CAST", "VAR_DECL"} -> 2
    [] t.kind = "STRUCT_TYPE"    -> 2 * Len(t.labels)
    [] t.kind = "STRUCT_LITERAL" -> 1 + Len(t.labels)
    [] t.kind = "FUNC_DECL"      -> 2 + Len(t.labels)
    [] OTHER -> Len(t.kids)

\* The children that may be NULL.
Optional(t) ==
  CASE t.kind \in {"CAST", "STRUCT_LITERAL", "RETURN"} -> {1}
    [] t.kind \in {"STRUCT_TYPE", "VAR_DECL", "FUNC_DECL"} -> DOMAIN t.kids
    [] OTHER -> {}

\* What the parser hands over, a tree: each node has the children of its kind
\* and no other node has them; declarations stand at the top level, where
\* nothing has them for a child, or among the statements of a block.
NodeOK(p, t) ==
  /\ t.kind \in Kinds
  /\ t.labels \in Seq(Seq(STRING))
  /\ t.kids \in Seq(NodesOf(p) \cup {0}) /\ Len(t.kids) = Arity(t)
  /\ t.kind = "FUNC_CALL" => t.kids # <<>>
  /\ \A k \in DOMAIN t.kids :
       /\ t.kids[k] = 0 => k \in Optional(t)
       /\ t.kids[k] # 0 /\ t.kind # "BLOCK" => p.node[t.kids[k]].kind \notin DeclarationKinds

ProgramOK(p) ==
  /\ 0 \notin NodesOf(p)
  /\ p.decls \in Seq(NodesOf(p))
  /\ \A d \in DOMAIN p.decls : p.node[p.decls[d]].kind \in DeclarationKinds
  /\ \A n \in NodesOf(p) :
       /\ NodeOK(p, p.node[n])
       /\ \A k \in DOMAIN p.node[n].kids, d \in DOMAIN p.decls : p.node[n].kids[k] # p.decls[d]
  /\ \A m, n \in NodesOf(p) : \A j \in DOMAIN p.node[m].kids, k \in DOMAIN p.node[n].kids :
       p.node[m].kids[j] = p.node[n].kids[k] /\ p.node[m].kids[j] # 0 => m = n /\ j = k

ASSUME ProgramsAssumption == \A p \in Programs : ProgramOK(p)

(***************************************************************************)
(* Reading the tree, the stack and the scopes.                             *)
(***************************************************************************)
Nodes    == NodesOf(prog)
Node(n)  == prog.node[n]
Top      == stack[Len(stack)]
Below    == SubSeq(stack, 1, Len(stack) - 1)
This     == Node(Top.node)
Kid(k)   == This.kids[k]
HasKid(k) == Kid(k) # 0
IsDeclaration(n) == Node(n).kind \in DeclarationKinds

Symbol(level, node) ==
  [level |-> level, const |-> FALSE, type |-> NoType, value |-> None, node |-> node]

Scope(root, sym) == [root |-> root, sym |-> sym]

\* Mutant: the outermost declaration of a name wins.
LookupOutermost(name) ==
  LET hits == {k \in DOMAIN scopes : name \in DOMAIN scopes[k].sym}
  IN  IF hits = {} THEN 0 ELSE CHOOSE k \in hits : \A j \in hits : k <= j

\* Depth of the innermost scope that declares the name, 0 if none does.
Lookup(name) ==
  LET hits == {k \in DOMAIN scopes : name \in DOMAIN scopes[k].sym}
  IN  IF hits = {} THEN 0 ELSE CHOOSE k \in hits : \A j \in hits : j <= k

SymbolAt(k, name) == scopes[k].sym[name]

Bind(f, x, y) == [z \in DOMAIN f \cup {x} |-> IF z = x THEN y ELSE f[z]]

\* prepare_scope: the first declaration of each name, at the given level.
Hoisted(nodes, level) ==
  LET decls == {i \in DOMAIN nodes : IsDeclaration(nodes[i])}
  IN  [x \in {Node(nodes[i]).name : i \in decls} |->
         Symbol(level, nodes[CHOOSE i \in decls :
           /\ Node(nodes[i]).name = x
           /\ \A j \in decls : Node(nodes[j]).name = x => i <= j])]

Redefines(nodes) ==
  \E i, j \in DOMAIN nodes :
    /\ i # j /\ IsDeclaration(nodes[i]) /\ IsDeclaration(nodes[j])
    /\ Node(nodes[i]).name = Node(nodes[j]).name

(***************************************************************************)
(* Control.                                                                *)
(***************************************************************************)
Control(op, node, exp, val) == [op |-> op, node |-> node, exp |-> exp, val |-> val]
Call(n, exp) == Control("call", n, exp, None)
Go           == Control("go", 0, NoType, None)
Returned(v)  == Control("return", 0, NoType, v)

Frame(n, exp) ==
  [node |-> n, pc |-> "enter", exp |-> exp, i |-> 1, j |-> 1, ty |-> NoType,
   val |-> None, bad |-> FALSE, fields |-> <<>>, sym |-> 0, save |-> NoType]

\* A handler of this kind runs at the point pc.  "enter" and "next" (the head
\* of a loop) follow no call; at the others ctl.val is what the call returned.
At(kind, pc) ==
  /\ status = "running"
  /\ stack # <<>>
  /\ Top.pc = pc
  /\ This.kind = kind
  /\ ctl.op = IF pc \in {"enter", "next"} THEN "go" ELSE "return"
  /\ ctl.val.k # "CRASH"

Driver == <<prog, analyzed, next, status>>   \* what no handler changes

\* analyze_node(kid, exp), to continue in frame f.
Visit(f, kid, exp) ==
  /\ stack' = Append(Below, f)
  /\ ctl' = Call(kid, exp)
  /\ UNCHANGED <<folded, hint, scopes, types, threshold, names, hadError,
                 retType, Driver>>

\* Continue at the head of the loop.
Loop(f) ==
  /\ stack' = Append(Below, [f EXCEPT !.pc = "next"])
  /\ ctl' = Go

\* The running frame, its loop cursor on the next element.
NextItem  == [Top EXCEPT !.i = @ + 1]

Return(v) ==
  /\ stack' = Below
  /\ ctl' = Returned(v)

\* return v; a Crash is returned as such and ends the analysis.
Yield(v) ==
  /\ Return(v)
  /\ UNCHANGED <<folded, hint, scopes, types, threshold, names, hadError,
                 retType, Driver>>

\* Mutant: VAL_BAD without a report.
BailSilently == Yield(Bad)

\* bail(): report an error at a node and return VAL_BAD.
Bail ==
  /\ Return(Bad)
  /\ hadError' = TRUE
  /\ UNCHANGED <<folded, hint, scopes, types, threshold, names, retType, Driver>>

\* inject(node, v); return v.  node_into_value takes the type of the value,
\* which a NONE value does not have.
Inject(v) ==
  IF v.k \in {"NONE", "CRASH"} THEN Yield(Crash)
  ELSE /\ Return(v)
       /\ folded' = [folded EXCEPT ![Top.node] = v]
       /\ UNCHANGED <<hint, scopes, types, threshold, names, hadError,
                      retType, Driver>>

\* type_pool_add(info); inject a value v of the new type; return v.
InjectNewType(info, v) ==
  /\ types' = Append(types, info)
  /\ Return(v)
  /\ folded' = [folded EXCEPT ![Top.node] = v]
  /\ UNCHANGED <<hint, scopes, threshold, names, hadError, retType, Driver>>

(***************************************************************************)
(* analyze_node.                                                           *)
(***************************************************************************)
\* The node was injected, or it was entered before and is not a value (yet):
\* then the answer is VAL_BAD, with no report.
ReuseNode ==
  /\ status = "running" /\ ctl.op = "call"
  /\ ctl.node \in analyzed \/ folded[ctl.node] # None
  /\ ctl' = Returned(IF folded[ctl.node] # None THEN folded[ctl.node] ELSE Bad)
  /\ UNCHANGED <<stack, folded, hint, scopes, types, threshold, names,
                 hadError, retType, Driver>>

\* Mutant: the `analyzed` flag is neither read nor set.
EnterUnflagged ==
  /\ status = "running" /\ ctl.op = "call"
  /\ folded[ctl.node] = None
  /\ stack' = Append(stack, Frame(ctl.node, ctl.exp))
  /\ ctl' = Go
  /\ UNCHANGED <<folded, hint, scopes, types, threshold, names, hadError,
                 retType, Driver>>

EnterNode ==
  /\ status = "running" /\ ctl.op = "call"
  /\ ctl.node \notin analyzed /\ folded[ctl.node] = None
  /\ analyzed' = analyzed \cup {ctl.node}
  /\ stack' = Append(stack, Frame(ctl.node, ctl.exp))
  /\ ctl' = Go
  /\ UNCHANGED <<prog, folded, hint, scopes, types, threshold, names,
                 hadError, retType, next, status>>

(***************************************************************************)
(* Literals and type names.                                                *)
(***************************************************************************)
AnalyzeIntegerLit ==
  /\ At("INTEGER_LIT", "enter")
  /\ Inject(IF This.data = 0 THEN Zero ELSE Scalar(TyUntypedInt))

AnalyzeFloatLit  == At("FLOAT_LIT", "enter") /\ Inject(Scalar(TyUntypedFloat))
AnalyzeStringLit == At("STRING_LIT", "enter") /\ Inject(StrObj(TyUntypedStr))

\* analyze_int_bits and analyze_uint_bits are the same code.
AnalyzeBits(kind) ==
  /\ At(kind, "enter")
  /\ IF This.data \in 1 .. BitLimit THEN Inject(TypeVal(IntType(This.data))) ELSE Bail

AnalyzeTypeKeyword(kind) == At(kind, "enter") /\ Inject(TypeVal(TypeOfKeyword[kind]))

(***************************************************************************)
(* Identifiers.  A name still UNDEFINED is a global the walk has not come  *)
(* to: find_local_first has its declaration analysed now, in the scopes of *)
(* this use, and reads the symbol afterwards whatever came of it.          *)
(***************************************************************************)
UseSymbol(s) ==
  IF s.level = Ahh THEN Bail
  ELSE IF s.value.k \in {"RUNTIME", "UNINIT"} THEN Yield(Runtime(s.type))
  ELSE Inject(s.value)

UndefinedName ==
  /\ Return(Uninit)
  /\ hadError' = TRUE
  /\ UNCHANGED <<folded, hint, scopes, types, threshold, names, retType, Driver>>

\* The symbol is being initialised: the caller gets the sentinel's VAL_BAD.
RecursiveUse ==
  /\ Return(Bad)
  /\ folded' = [folded EXCEPT ![Top.node] = Bad]
  /\ hadError' = TRUE
  /\ UNCHANGED <<hint, scopes, types, threshold, names, retType, Driver>>

AnalyzeIdent ==
  \/ /\ At("IDENT", "enter")
     /\ LET k == Lookup(This.name)
        IN  IF k = 0 THEN UndefinedName
            ELSE LET s == SymbolAt(k, This.name)
                 IN  IF s.level = Defined THEN RecursiveUse
                     ELSE IF s.level = Undefined
                     THEN Visit([Top EXCEPT !.pc = "lazy", !.sym = k], s.node, NoType)
                     ELSE UseSymbol(s)
  \/ /\ At("IDENT", "lazy")
     /\ UseSymbol(SymbolAt(Top.sym, This.name))

(***************************************************************************)
(* Operators.                                                              *)
(***************************************************************************)
\* Both operands known: fold, unless they do not combine or the numbers
\* overflow or divide by zero (either may happen, numbers are abstracted).
FoldArith(lhs, rhs) ==
  LET t == ArithType(types, lhs, rhs)
  IN  \/ t # NoType /\ Inject(Scalar(t))
      \/ Bail

\* An operand known only at run time: only the kinds of the types are looked at.
RuntimeBinary(lhs, rhs) ==
  LET lt == TypeOf(lhs)
      rt == TypeOf(rhs)
  IN  IF IsNumber(types, lt) /\ IsNumber(types, rt)
      THEN Yield(Runtime(IF IsUntyped(types, lt) THEN rt ELSE lt))
      ELSE Bail

AnalyzeBinary ==
  \/ /\ At("BINARY", "enter")
     /\ Visit([Top EXCEPT !.pc = "lhs"], Kid(1), Top.exp)
  \/ /\ At("BINARY", "lhs")
     /\ IF IsBad(ctl.val) THEN Yield(Bad)
        ELSE Visit([Top EXCEPT !.pc = "rhs", !.val = ctl.val], Kid(2), Top.exp)
  \/ /\ At("BINARY", "rhs")
     /\ IF IsBad(ctl.val) THEN Yield(Bad)
        ELSE IF ComptimeKnown(Top.val) /\ ComptimeKnown(ctl.val)
        THEN FoldArith(Top.val, ctl.val)
        ELSE RuntimeBinary(Top.val, ctl.val)

\* Negating the literal 0 makes a scalar of type `zero`.
Negated(v) == IF v.k = "ZERO" THEN Scalar(TyZero) ELSE v

AnalyzeUnary ==
  \/ /\ At("UNARY", "enter")
     /\ Visit([Top EXCEPT !.pc = "rhs"], Kid(1), Top.exp)
  \/ /\ At("UNARY", "rhs")
     /\ LET v == ctl.val
        IN  IF IsBad(v) THEN Yield(Bad)
            ELSE IF ~ComptimeKnown(v) THEN Yield(Runtime(TypeOf(v)))
            ELSE IF ~This.const THEN Inject(v)
            ELSE IF v.k = "ZERO" \/ (v.k = "SCALAR" /\ IsNumber(types, v.t))
            THEN Inject(Negated(v))
            ELSE Bail

\* Not injected: analysing the same grouping again answers VAL_BAD.
AnalyzeGrouping ==
  \/ At("GROUPING", "enter") /\ Visit([Top EXCEPT !.pc = "child"], Kid(1), Top.exp)
  \/ At("GROUPING", "child") /\ Yield(ctl.val)

AnalyzeDistinct ==
  \/ At("DISTINCT", "enter") /\ Visit([Top EXCEPT !.pc = "child"], Kid(1), Top.exp)
  \/ /\ At("DISTINCT", "child")
     /\ IF IsBad(ctl.val) THEN Yield(Bad)
        ELSE IF ~IsType(ctl.val) THEN Bail
        ELSE InjectNewType(TypeInfo(types, ctl.val.t), TypeVal(NextTypeId(types)))

\* The operand of a cast is analysed with no expected type, and the cast
\* node itself is not injected.
CastOperand(to) == Visit([Top EXCEPT !.pc = "expr", !.ty = to], Kid(2), NoType)

AnalyzeCast ==
  \/ /\ At("CAST", "enter")
     /\ IF HasKid(1) THEN Visit([Top EXCEPT !.pc = "to"], Kid(1), NoType)
        ELSE CastOperand(Top.exp)
  \/ /\ At("CAST", "to")
     /\ IF IsBad(ctl.val) THEN Yield(Bad)
        ELSE IF ~IsType(ctl.val) THEN Bail
        ELSE CastOperand(ctl.val.t)
  \/ /\ At("CAST", "expr")
     /\ IF IsBad(ctl.val) THEN Yield(Bad)
        ELSE LET v == ValueCast(types, Top.ty, ctl.val)
             IN  IF IsBad(v) THEN Bail ELSE Yield(v)

AnalyzeAccess ==
  \/ At("ACCESS", "enter") /\ Visit([Top EXCEPT !.pc = "lhs"], Kid(1), Top.exp)
  \/ /\ At("ACCESS", "lhs")
     /\ LET v == ctl.val
            fields == Fields(types, v.t)
            i == FieldIndex(fields, This.name)
        IN  IF IsBad(v) THEN Yield(Bad)
            ELSE IF v.k \notin {"RUNTIME", "STRUCT"} \/ i = 0 THEN Bail
            ELSE IF v.k = "RUNTIME" THEN Yield(Runtime(fields[i].type))
            ELSE IF IsBad(v.fs[i]) THEN Bail
            ELSE Inject(v.fs[i])


(***************************************************************************)
(* Variable declarations.                                                  *)
(***************************************************************************)
SetSymbol(k, name, s) == [scopes EXCEPT ![k].sym[name] = s]

\* find_local_first on the declaration's own name, then level = DEFINED.  A
\* global still UNDEFINED is analysed by find_local_first first, but its node
\* is this one, already marked: nothing happens.  A symbol that is being
\* initialised is answered with the sentinel, which the code then overwrites.
OpenVarDecl ==
  LET k == Lookup(This.name)
      s == SymbolAt(k, This.name)
      f == [Top EXCEPT !.sym = k, !.ty = TyAuto]
  IN  IF k = 0 THEN Yield(Crash)
      ELSE IF s.level = Defined
      THEN /\ status' = "sentinel"
           /\ hadError' = TRUE
           /\ UNCHANGED <<prog, folded, hint, analyzed, scopes, types, threshold,
                          names, stack, ctl, retType, next>>
      ELSE /\ scopes' = SetSymbol(k, This.name,
                          [s EXCEPT !.const = This.const, !.level = Defined])
           /\ hadError' = (hadError \/ (~HasKid(1) /\ ~HasKid(2)))
           /\ IF HasKid(1)
              THEN /\ stack' = Append(Below, [f EXCEPT !.pc = "type"])
                   /\ ctl' = Call(Kid(1), NoType)
              ELSE IF HasKid(2)
              THEN /\ stack' = Append(Below, [f EXCEPT !.pc = "value"])
                   /\ ctl' = Call(Kid(2), TyAuto)
              ELSE Loop([f EXCEPT !.val = Uninit])
           /\ UNCHANGED <<folded, hint, types, threshold, names, retType, Driver>>

\* reset_new_type_counter
ResetNewTypes == threshold' = LastTypeId(types)

\* Mutant: an early return leaves the symbol DEFINED.
FailLeavingOpen(report) ==
  /\ ResetNewTypes
  /\ hadError' = (hadError \/ report)
  /\ Return(Bad)
  /\ UNCHANGED <<folded, hint, scopes, types, names, retType, Driver>>

\* Mutant: had_error is assigned instead of raised.
FailForgetting(report) ==
  /\ scopes' = SetSymbol(Top.sym, This.name,
       [SymbolAt(Top.sym, This.name) EXCEPT
          !.value = Bad, !.type = NoType, !.node = Top.node, !.level = Declared])
  /\ ResetNewTypes
  /\ hadError' = report
  /\ Return(Bad)
  /\ UNCHANGED <<folded, hint, types, names, retType, Driver>>

\* fail_var_decl: the symbol becomes a declared BAD value.
FailVarDecl(report) ==
  /\ scopes' = SetSymbol(Top.sym, This.name,
       [SymbolAt(Top.sym, This.name) EXCEPT
          !.value = Bad, !.type = NoType, !.node = Top.node, !.level = Declared])
  /\ ResetNewTypes
  /\ hadError' = (hadError \/ report)
  /\ Return(Bad)
  /\ UNCHANGED <<folded, hint, types, names, retType, Driver>>

\* The type a value that names a type gives its declaration's name to.
Renamed(v) == IF IsType(v) /\ v.t >= threshold /\ v.t > TotalReserved THEN {v.t} ELSE {}

DeclareVar(type, v) ==
  /\ scopes' = SetSymbol(Top.sym, This.name,
       [SymbolAt(Top.sym, This.name) EXCEPT
          !.type = type, !.value = v, !.level = Declared])
  /\ names' = [t \in DOMAIN names \cup Renamed(v) |->
                 IF t \in Renamed(v) THEN This.name ELSE names[t]]
  /\ folded' = IF HasKid(2) /\ v.k # "RUNTIME" THEN [folded EXCEPT ![Kid(2)] = v] ELSE folded
  /\ ResetNewTypes
  /\ Return(v)
  /\ UNCHANGED <<hint, types, hadError, retType, Driver>>

\* The value is known, Uninit when there is none: give it the declared type.
FinishVarDecl(value) ==
  LET v0   == IF Top.ty # TyAuto /\ value.k = "UNINIT"
              THEN DefaultFor(types, Top.ty) ELSE value
      type == IF Top.ty = TyAuto THEN TypeOf(value) ELSE Top.ty
      v    == IF type = TypeOf(v0) THEN v0 ELSE Coerce(types, type, v0)
  IN  IF IsCrash(v0) \/ IsCrash(v) THEN Yield(Crash)
      ELSE IF IsBad(v) THEN FailVarDecl(TRUE)
      ELSE DeclareVar(type, v)

AnalyzeVarDecl ==
  \/ At("VAR_DECL", "enter") /\ OpenVarDecl
  \/ /\ At("VAR_DECL", "type")
     /\ LET tp == ctl.val
            f  == [Top EXCEPT !.ty = tp.t]
        IN  IF ~IsType(tp) THEN FailVarDecl(~IsBad(tp))
            ELSE IF HasKid(2) THEN Visit([f EXCEPT !.pc = "value"], Kid(2), tp.t)
            ELSE /\ Loop([f EXCEPT !.val = Uninit])
                 /\ UNCHANGED <<folded, hint, scopes, types, threshold, names,
                                hadError, retType, Driver>>
  \/ /\ At("VAR_DECL", "value")
     /\ IF IsBad(ctl.val) THEN FailVarDecl(FALSE) ELSE FinishVarDecl(ctl.val)
  \/ /\ At("VAR_DECL", "next")
     /\ FinishVarDecl(Top.val)

(***************************************************************************)
(* Structs.                                                                *)
(***************************************************************************)
AtLoop(kind) == At(kind, "enter") \/ At(kind, "next")

\* Go on with the loop, after reporting an error or not.
Continue(f, report) ==
  /\ Loop(f)
  /\ hadError' = (hadError \/ report)
  /\ UNCHANGED <<folded, hint, scopes, types, threshold, names, retType, Driver>>

\* read_struct_field runs once for every name, so `a, b: T = v` reads its type
\* and its default twice.
NextName(f) ==
  IF f.j < Len(This.labels[f.i]) THEN [f EXCEPT !.j = @ + 1]
  ELSE [f EXCEPT !.i = @ + 1, !.j = 1]

FailField(report) == Continue(NextName([Top EXCEPT !.bad = TRUE]), report)

AddField(type, hasDefault, default) ==
  Continue(NextName([Top EXCEPT !.fields =
    Append(@, Field(This.labels[Top.i][Top.j], type, hasDefault, default))]), FALSE)

ReadDefault(type) ==
  IF HasKid(2 * Top.i)
  THEN Visit([Top EXCEPT !.pc = "default", !.ty = type], Kid(2 * Top.i), type)
  ELSE IF type = TyAuto THEN FailField(TRUE)
  ELSE AddField(type, FALSE, None)

\* The default is kept as create_struct will store it, in the field's type.
FieldDefault(default) ==
  LET inferred == UntypedToTyped(TypeOf(default))
      coerced  == Coerce(types, Top.ty, default)
  IN  IF IsBad(default) THEN FailField(FALSE)
      ELSE IF Top.ty = TyAuto
      THEN AddField(inferred, TRUE, IF inferred = TypeOf(default) THEN default
                                    ELSE ValueCast(types, inferred, default))
      ELSE IF Top.ty = TypeOf(default) THEN AddField(Top.ty, TRUE, default)
      ELSE IF IsCrash(coerced) THEN Yield(Crash)
      ELSE IF IsBad(coerced) THEN FailField(TRUE)
      ELSE AddField(Top.ty, TRUE, coerced)

AnalyzeStructType ==
  \/ /\ AtLoop("STRUCT_TYPE")
     /\ Top.i <= Len(This.labels)
     /\ IF HasKid(2 * Top.i - 1)
        THEN Visit([Top EXCEPT !.pc = "type"], Kid(2 * Top.i - 1), NoType)
        ELSE ReadDefault(TyAuto)
  \/ /\ At("STRUCT_TYPE", "type")
     /\ IF IsType(ctl.val) THEN ReadDefault(ctl.val.t) ELSE FailField(~IsBad(ctl.val))
  \/ /\ At("STRUCT_TYPE", "default")
     /\ FieldDefault(ctl.val)
  \/ /\ AtLoop("STRUCT_TYPE")
     /\ Top.i > Len(This.labels)
     /\ IF Top.bad THEN Yield(Bad)
        ELSE InjectNewType(Info("STRUCT", FALSE, Top.fields), TypeVal(NextTypeId(types)))

\* A literal of type auto gets a type of its own; Top.val collects its fields.
StartLiteral(t) ==
  IF t = TyAuto
  THEN Continue([Top EXCEPT !.ty = TyAuto, !.val = Val("STRUCT", NoType, <<>>)], FALSE)
  ELSE IF ~IsStructType(types, t) THEN Bail
  ELSE IF IsCrash(MakeValue(types, t)) THEN Yield(Crash)
  ELSE Continue([Top EXCEPT !.ty = t, !.val = MakeValue(types, t)], FALSE)

Label == This.labels[Top.i]
Positional == Label = <<>>

AnalyzeAutoLiteral ==
  \/ /\ At("STRUCT_LITERAL", "next")
     /\ Top.ty = TyAuto /\ Top.i <= Len(This.labels)
     /\ IF Positional THEN Bail ELSE Visit([Top EXCEPT !.pc = "item"], Kid(1 + Top.i), Top.exp)
  \/ /\ At("STRUCT_LITERAL", "item")
     /\ IF IsBad(ctl.val) THEN Yield(Bad)
        ELSE Continue([NextItem EXCEPT
               !.fields = Append(@, Field(Label[1], TypeOf(ctl.val), FALSE, None)),
               !.val.fs = Append(@, ctl.val)], FALSE)
  \/ /\ At("STRUCT_LITERAL", "next")
     /\ Top.ty = TyAuto /\ Top.i > Len(This.labels)
     /\ InjectNewType(Info("AUTO_STRUCT", FALSE, Top.fields),
                      StructObj(NextTypeId(types), Top.val.fs))

\* inject_struct_type: a nested literal without a type of its own (or with
\* the type `auto`) takes the field's.
TakesHint(n) ==
  /\ Node(n).kind = "STRUCT_LITERAL" /\ folded[n] = None
  /\ LET t == Node(n).kids[1] IN t = 0 \/ (Node(t).kind = "AUTO" /\ folded[t] = None)

\* Top.j is positional_idx: the position after the field set last.
TargetField ==
  LET fields == Fields(types, Top.ty)
  IN  IF ~Positional THEN FieldIndex(fields, Label[1])
      ELSE IF Top.j > Len(fields) THEN 0 ELSE Top.j

SetLiteralField(i, v) ==
  Continue([NextItem EXCEPT !.val.fs[i] = v, !.bad = @ \/ IsBad(v)], IsBad(v))

AnalyzeStructLiteral ==
  \/ /\ At("STRUCT_LITERAL", "enter")
     /\ IF hint[Top.node] # NoType THEN StartLiteral(hint[Top.node])
        ELSE IF HasKid(1) THEN Visit([Top EXCEPT !.pc = "to"], Kid(1), NoType)
        ELSE StartLiteral(TyAuto)
  \/ /\ At("STRUCT_LITERAL", "to")
     /\ IF IsBad(ctl.val) THEN Yield(Bad)
        ELSE IF ~IsType(ctl.val) THEN Bail
        ELSE StartLiteral(ctl.val.t)
  \/ AnalyzeAutoLiteral
  \/ /\ At("STRUCT_LITERAL", "next")
     /\ Top.ty # TyAuto /\ Top.i <= Len(This.labels)
     /\ LET i == TargetField
            n == Kid(1 + Top.i)
            t == Fields(types, Top.ty)[i].type
        IN  IF i = 0 THEN Continue([NextItem EXCEPT !.bad = TRUE], TRUE)
            ELSE /\ stack' = Append(Below, [Top EXCEPT !.pc = "value", !.j = i + 1])
                 /\ ctl' = Call(n, t)
                 /\ hint' = IF TakesHint(n) THEN [hint EXCEPT ![n] = t] ELSE hint
                 /\ UNCHANGED <<folded, scopes, types, threshold, names,
                                hadError, retType, Driver>>
  \/ /\ At("STRUCT_LITERAL", "value")
     /\ LET i == Top.j - 1
            v == ValueCast(types, Fields(types, Top.ty)[i].type, ctl.val)
        IN  IF IsCrash(v) THEN Yield(Crash) ELSE SetLiteralField(i, v)
  \/ /\ At("STRUCT_LITERAL", "next")
     /\ Top.ty # TyAuto /\ Top.i > Len(This.labels)
     /\ LET missing == \E i \in DOMAIN Top.val.fs : Top.val.fs[i].k = "NONE"
        IN  IF missing THEN Bail ELSE IF Top.bad THEN Yield(Bad) ELSE Inject(Top.val)

(***************************************************************************)
(* Functions.                                                              *)
(***************************************************************************)
\* Mutant: end_scope is missing.
KeepScope == scopes

\* end_scope
PopScope == SubSeq(scopes, 1, Len(scopes) - 1)
Innermost == scopes[Len(scopes)].sym

\* Mutant: the symbol is looked for in the global scope.
OpenWritingGlobal(ret) ==
  /\ scopes' = Append(IF This.name \in DOMAIN scopes[1].sym
                      THEN SetSymbol(1, This.name, [SymbolAt(1, This.name) EXCEPT
                             !.type = ret, !.value = Uninit, !.level = Declared])
                      ELSE scopes,
                      Scope(This.root, <<>>))
  /\ retType' = ret
  /\ Loop([Top EXCEPT !.ty = ret, !.save = retType])
  /\ UNCHANGED <<folded, hint, types, threshold, names, hadError, Driver>>

\* The function's own symbol is looked for in the innermost scope only, which
\* is not the scope that declares it when a use made the analyser come here.
OpenFunction(ret) ==
  LET known == This.name \in DOMAIN Innermost
      here  == IF known THEN SetSymbol(Len(scopes), This.name,
                 [Innermost[This.name] EXCEPT
                    !.type = ret, !.value = Uninit, !.level = Declared])
               ELSE scopes
  IN  /\ scopes' = Append(here, Scope(This.root, <<>>))
      /\ retType' = ret
      /\ Loop([Top EXCEPT !.ty = ret, !.save = retType])
      /\ UNCHANGED <<folded, hint, types, threshold, names, hadError, Driver>>

\* Mutant: the parameters go to the global scope.
DeclareParamsGlobally(type) ==
  LET new == {This.labels[Top.i][l] : l \in DOMAIN This.labels[Top.i]}
      old == scopes[1].sym
  IN  /\ scopes' = [scopes EXCEPT ![1].sym =
                      [x \in DOMAIN old \cup new |->
                         IF x \in DOMAIN old THEN old[x]
                         ELSE [Symbol(Declared, 0) EXCEPT !.type = type, !.value = Uninit]]]
      /\ Loop(NextItem)
      /\ UNCHANGED <<folded, hint, types, threshold, names, hadError, retType, Driver>>

\* A parameter whose name is taken is reported and keeps its first meaning.
DeclareParams(type) ==
  LET labels == This.labels[Top.i]
      param  == [Symbol(Declared, 0) EXCEPT !.type = type, !.value = Uninit]
      new    == {labels[l] : l \in DOMAIN labels}
  IN  /\ scopes' = [scopes EXCEPT ![Len(scopes)].sym =
                      [x \in DOMAIN Innermost \cup new |->
                         IF x \in DOMAIN Innermost THEN Innermost[x] ELSE param]]
      /\ hadError' = (\/ hadError \/ new \cap DOMAIN Innermost # {}
                      \/ Cardinality(new) # Len(labels))
      /\ Loop(NextItem)
      /\ UNCHANGED <<folded, hint, types, threshold, names, retType, Driver>>

\* Mutant: current_return_type is not restored.
CloseKeepingReturn(report) ==
  /\ scopes' = PopScope
  /\ hadError' = (hadError \/ report)
  /\ Return(Uninit)
  /\ UNCHANGED <<folded, hint, types, threshold, names, retType, Driver>>

\* What the body returned is only compared with void: a body that ends
\* without a value is UNINIT, whose type is `unknown`.
CloseFunction(report) ==
  /\ scopes' = PopScope
  /\ retType' = Top.save
  /\ hadError' = (hadError \/ report)
  /\ Return(Uninit)
  /\ UNCHANGED <<folded, hint, types, threshold, names, Driver>>

ParamsLeft == Top.i <= Len(This.labels)

AnalyzeFuncDecl ==
  \/ /\ At("FUNC_DECL", "enter")
     /\ IF HasKid(1) THEN Visit([Top EXCEPT !.pc = "ret"], Kid(1), NoType)
        ELSE OpenFunction(TyVoid)
  \/ /\ At("FUNC_DECL", "ret")
     /\ IF IsBad(ctl.val) THEN Yield(Bad)
        ELSE IF ~IsType(ctl.val) THEN Bail
        ELSE OpenFunction(ctl.val.t)
  \/ /\ At("FUNC_DECL", "next") /\ ParamsLeft
     /\ IF HasKid(2 + Top.i) THEN Visit([Top EXCEPT !.pc = "param"], Kid(2 + Top.i), NoType)
        ELSE DeclareParams(TyAuto)
  \/ /\ At("FUNC_DECL", "param")
     /\ IF IsType(ctl.val) THEN DeclareParams(ctl.val.t)
        ELSE Continue(NextItem, TRUE)
  \/ /\ At("FUNC_DECL", "next") /\ ~ParamsLeft
     /\ IF HasKid(2) THEN Visit([Top EXCEPT !.pc = "body"], Kid(2), Top.ty)
        ELSE CloseFunction(FALSE)
  \/ /\ At("FUNC_DECL", "body")
     /\ CloseFunction(\/ IsBad(ctl.val)
                      \/ TypeOf(ctl.val) = TyVoid /\ Top.ty # TyVoid)

\* A callee of unknown type takes the type its context expects.
CallType(callee) ==
  IF TypeOf(callee) \notin {TyUnknown, TyZero} THEN TypeOf(callee)
  ELSE IF Top.exp = TyAuto THEN TyVoid ELSE Top.exp

AnalyzeFuncCall ==
  \/ At("FUNC_CALL", "enter") /\ Visit([Top EXCEPT !.pc = "callee"], Kid(1), NoType)
  \/ /\ At("FUNC_CALL", "callee")
     /\ IF IsBad(ctl.val) THEN Yield(Bad)
        ELSE Continue([Top EXCEPT !.ty = CallType(ctl.val)], FALSE)
  \/ /\ At("FUNC_CALL", "next")
     /\ IF Top.i < Len(This.kids) THEN Visit([Top EXCEPT !.pc = "arg"], Kid(1 + Top.i), Top.exp)
        ELSE Yield(Runtime(Top.ty))
  \/ /\ At("FUNC_CALL", "arg")
     /\ IF IsBad(ctl.val) THEN Yield(Bad)
        ELSE /\ Loop(NextItem)
             /\ folded' = IF ctl.val.k = "RUNTIME" THEN folded
                          ELSE [folded EXCEPT ![Kid(1 + Top.i)] = ctl.val]
             /\ UNCHANGED <<hint, scopes, types, threshold, names, hadError,
                            retType, Driver>>

\* Two declarations of one name in the block: it is given up, and the scope
\* begin_scope pushed is never popped.
AnalyzeBlock ==
  \/ /\ At("BLOCK", "enter")
     /\ scopes' = Append(scopes, Scope(This.root, Hoisted(This.kids, Ahh)))
     /\ IF Redefines(This.kids) THEN Return(Bad) ELSE Loop(Top)
     /\ hadError' = (hadError \/ Redefines(This.kids))
     /\ UNCHANGED <<folded, hint, types, threshold, names, retType, Driver>>
  \/ /\ At("BLOCK", "next") /\ Top.i <= Len(This.kids)
     /\ Visit([Top EXCEPT !.pc = "stmt"], Kid(Top.i), Top.exp)
  \/ /\ At("BLOCK", "stmt")
     /\ Continue([NextItem EXCEPT !.val = IF IsBad(ctl.val) THEN None ELSE ctl.val],
                 IsBad(ctl.val))
  \/ /\ At("BLOCK", "next") /\ Top.i > Len(This.kids)
     /\ scopes' = PopScope
     /\ Return(IF Top.val = None THEN Uninit ELSE Top.val)
     /\ folded' = IF ComptimeKnown(Top.val) THEN [folded EXCEPT ![Top.node] = Top.val]
                  ELSE folded
     /\ UNCHANGED <<hint, types, threshold, names, hadError, retType, Driver>>

\* A return without a value goes on to take the type of VAL_NONE.
AnalyzeReturn ==
  \/ /\ At("RETURN", "enter")
     /\ IF HasKid(1) THEN Visit([Top EXCEPT !.pc = "value"], Kid(1), retType)
        ELSE IF retType # TyVoid THEN Bail
        ELSE Yield(Crash)
  \/ /\ At("RETURN", "value")
     /\ LET v == IF retType \in {TyAuto, TypeOf(ctl.val)} THEN ctl.val
                 ELSE Coerce(types, retType, ctl.val)
        IN  IF IsBad(ctl.val) THEN Yield(Bad)
            ELSE IF IsBad(v) THEN Bail
            ELSE IF ComptimeKnown(v) THEN Inject(v)
            ELSE Yield(v)

(***************************************************************************)
(* analyze().                                                              *)
(***************************************************************************)
Start ==
  /\ status = "start"
  /\ scopes' = <<Scope(0, Hoisted(prog.decls, Undefined))>>
  /\ status' = IF Redefines(prog.decls) THEN "error" ELSE "running"
  /\ hadError' = Redefines(prog.decls)
  /\ UNCHANGED <<prog, folded, hint, analyzed, types, threshold, names, stack,
                 ctl, retType, next>>

\* Mutant: the same declaration for ever.
NextDeclarationAgain ==
  /\ status = "running" /\ stack = <<>>
  /\ ctl.op = "return" /\ ~IsCrash(ctl.val)
  /\ next <= Len(prog.decls)
  /\ ctl' = Call(prog.decls[next], NoType)
  /\ UNCHANGED <<prog, folded, hint, analyzed, scopes, types, threshold, names,
                 stack, hadError, retType, next, status>>

\* One turn of the loop; what the previous declaration came to is discarded.
NextDeclaration ==
  /\ status = "running" /\ stack = <<>>
  /\ ctl.op = "return" /\ ~IsCrash(ctl.val)
  /\ next <= Len(prog.decls)
  /\ ctl' = Call(prog.decls[next], NoType)
  /\ next' = next + 1
  /\ UNCHANGED <<prog, folded, hint, analyzed, scopes, types, threshold, names,
                 stack, hadError, retType, status>>

\* Mutant: off by one.
FinishEarly ==
  /\ status = "running" /\ stack = <<>>
  /\ ctl.op = "return" /\ ~IsCrash(ctl.val)
  /\ next >= Len(prog.decls)
  /\ status' = IF hadError THEN "error" ELSE "ok"
  /\ UNCHANGED <<prog, folded, hint, analyzed, scopes, types, threshold, names,
                 stack, ctl, hadError, retType, next>>

Finish ==
  /\ status = "running" /\ stack = <<>>
  /\ ctl.op = "return" /\ ~IsCrash(ctl.val)
  /\ next > Len(prog.decls)
  /\ status' = IF hadError THEN "error" ELSE "ok"
  /\ UNCHANGED <<prog, folded, hint, analyzed, scopes, types, threshold, names,
                 stack, ctl, hadError, retType, next>>

Unreachable ==
  /\ status = "running" /\ IsCrash(ctl.val)
  /\ status' = "unreachable"
  /\ UNCHANGED <<prog, folded, hint, analyzed, scopes, types, threshold, names,
                 stack, ctl, hadError, retType, next>>

Finished == status \in Final /\ UNCHANGED vars

Init ==
  /\ prog \in Programs
  /\ folded = [n \in NodesOf(prog) |-> None]
  /\ hint = [n \in NodesOf(prog) |-> NoType]
  /\ analyzed = {}
  /\ scopes = <<>>
  /\ types = <<>>
  /\ threshold = LastTypeId(<<>>)
  /\ names = [t \in {TyString} |-> "string"]
  /\ stack = <<>>
  /\ ctl = Returned(Uninit)
  /\ hadError = FALSE
  /\ retType = NoType
  /\ next = 1
  /\ status = "start"

AnalyzeLeaf ==
  \/ AnalyzeIntegerLit \/ AnalyzeFloatLit \/ AnalyzeStringLit \/ AnalyzeIdent
  \/ \E kind \in {"INT_BITS", "UINT_BITS"} : AnalyzeBits(kind)
  \/ \E kind \in TypeKeywords : AnalyzeTypeKeyword(kind)

AnalyzeExpression ==
  \/ AnalyzeLeaf \/ AnalyzeBinary \/ AnalyzeUnary \/ AnalyzeGrouping \/ AnalyzeDistinct
  \/ AnalyzeCast \/ AnalyzeAccess \/ AnalyzeStructType \/ AnalyzeStructLiteral
  \/ AnalyzeFuncCall \/ AnalyzeBlock \/ AnalyzeReturn

AnalyzeNode ==
  ReuseNode \/ EnterNode \/ AnalyzeExpression \/ AnalyzeVarDecl \/ AnalyzeFuncDecl

Next ==
  \/ Start \/ NextDeclaration \/ Finish \/ Unreachable \/ Finished \/ AnalyzeNode

Spec == Init /\ [][Next]_vars /\ WF_vars(Next)

(***************************************************************************)
(* Properties.                                                             *)
(***************************************************************************)
\* The analysis goes on: it has not just run into unreachable().
Running == status = "running" /\ ~IsCrash(ctl.val)
Levels  == {Ahh, Undefined, Defined, Declared}

TypeIds == 0 .. LastTypeId(types)

\* A value is of a type in the pool, and a struct object has a slot for every
\* field of its type: fields are read and written by their index in the type.
Shaped(v) ==
  /\ v.k \in ValueKinds /\ v.t \in TypeIds
  /\ v.k = "STRUCT" => Len(v.fs) = Len(Fields(types, v.t))

ShapedFields(v) == Shaped(v) /\ \A i \in DOMAIN v.fs : Shaped(v.fs[i])

\* The type of a field is older than the struct, so that no type contains itself
\* and default_for_type comes to an end.
TypesAreOlder ==
  \A t \in DOMAIN types : \A i \in DOMAIN types[t].fields :
    LET field == types[t].fields[i]
    IN  /\ field.type \in 0 .. TyString + t - 1
        /\ field.hasDefault => ShapedFields(field.default)

\* The variables hold what the C declarations say they hold, and every value
\* the analyser keeps, in a node, a symbol or a call under way, has the shape of
\* its type, though structs are built in four places and converted in three.
TypeOK ==
  /\ analyzed \subseteq Nodes
  /\ DOMAIN folded = Nodes /\ DOMAIN hint = Nodes
  /\ \A n \in Nodes : ShapedFields(folded[n]) /\ hint[n] \in TypeIds
  /\ \A i \in DOMAIN stack : stack[i].node \in Nodes /\ {stack[i].exp, stack[i].ty} \subseteq TypeIds
  /\ ctl.op \in {"call", "go", "return"} /\ ShapedFields(ctl.val)
  /\ ctl.op = "call" => ctl.node \in Nodes
  /\ \A k \in DOMAIN scopes : \A x \in DOMAIN scopes[k].sym :
       LET s == SymbolAt(k, x)
       IN  s.level \in Levels /\ s.type \in TypeIds /\ ShapedFields(s.value)
  /\ TypesAreOlder
  /\ threshold \in TyString .. LastTypeId(types) /\ retType \in TypeIds
  /\ hadError \in BOOLEAN /\ next \in 1 .. Len(prog.decls) + 1
  /\ status \in {"start", "running"} \cup Final

\* The `analyzed` flag keeps a node from being analysed inside its own
\* analysis, whatever the declarations refer to: each node is on the call
\* stack once at most, and flagged from then on.
NoReentry ==
  /\ \A i, j \in DOMAIN stack : stack[i].node = stack[j].node => i = j
  /\ \A i \in DOMAIN stack : stack[i].node \in analyzed

\* Activations of analyze_var_decl that hold the symbol x of scope k.
Holders(k, x) ==
  {i \in DOMAIN stack : /\ Node(stack[i].node).kind = "VAR_DECL"
                        /\ Node(stack[i].node).name = x
                        /\ stack[i].pc # "enter" /\ stack[i].sym = k}

\* A symbol reads as "being initialised" exactly while one activation of its
\* declaration is under way: no recursion is missed (the level was overwritten
\* under the activation) and none is seen where there is none (it was left
\* behind by an early return).
DefinedIffOpen ==
  Running => \A k \in DOMAIN scopes : \A x \in DOMAIN scopes[k].sym :
               Cardinality(Holders(k, x)) = (IF SymbolAt(k, x).level = Defined THEN 1 ELSE 0)

\* Activations that have a scope of their own open.
ScopeHolders ==
  {i \in DOMAIN stack : \/ Node(stack[i].node).kind = "BLOCK" /\ stack[i].pc # "enter"
                        \/ /\ Node(stack[i].node).kind = "FUNC_DECL"
                           /\ stack[i].pc \in {"next", "param", "body"}}

\* begin_scope and end_scope pair up across every early return: the scopes in
\* force are those of the open blocks and functions.  A block given up for a
\* redefinition leaves one more behind, never one fewer.
ScopesMatchStack ==
  Running => /\ Len(scopes) >= 1 + Cardinality(ScopeHolders)
             /\ ~hadError => Len(scopes) = 1 + Cardinality(ScopeHolders)

\* The functions whose signature has been read and whose body is under way.
OpenFunctions ==
  {i \in DOMAIN stack : /\ Node(stack[i].node).kind = "FUNC_DECL"
                        /\ stack[i].pc \in {"next", "param", "body"}}

\* current_return_type is that of the innermost function being analysed, also
\* after nested functions and functions analysed at their first use.
ReturnTypeMatches ==
  Running =>
    IF OpenFunctions = {} THEN retType = NoType
    ELSE \E i \in OpenFunctions :
           /\ \A j \in OpenFunctions : j <= i
           /\ retType = stack[i].ty

\* A VAL_BAD a handler is about to act on was reported by whoever made it.
\* (find_local_first discards what the declaration it evaluates comes to.)
BadIsReported ==
  Running /\ stack # <<>> /\ ctl.op = "return" /\ IsBad(ctl.val) /\ Top.pc # "lazy"
    => hadError

\* The symbol analyze_var_decl keeps a pointer to across its recursive calls
\* stays in a live scope, and it is the declaration's own unless a block was
\* given up before.
HoldsOwnSymbol ==
  Running =>
    \A i \in DOMAIN stack :
      LET f == stack[i]
      IN  Node(f.node).kind = "VAR_DECL" /\ f.pc # "enter" =>
            /\ f.sym \in DOMAIN scopes /\ Node(f.node).name \in DOMAIN scopes[f.sym].sym
            /\ ~hadError => SymbolAt(f.sym, Node(f.node).name).node = f.node

\* A program is accepted only when each of its global variables has been
\* evaluated, wherever that happened: none was passed over, left half done, or
\* mistaken for a local variable of its name, and its value, if it is not an
\* error value, is of the type the variable has.
VariablesAreEvaluated ==
  status = "ok" =>
    \A d \in DOMAIN prog.decls :
      Node(prog.decls[d]).kind = "VAR_DECL" =>
        LET s == SymbolAt(1, Node(prog.decls[d]).name)
        IN  s.level = Declared /\ (IsBad(s.value) \/ TypeOf(s.value) = s.type)

\* Activations that keep a pointer to a symbol of scope k across recursive
\* calls: a declaration its own, find_local_first the one it has analysed.
PointsInto(i, k) ==
  /\ Node(stack[i].node).kind \in {"VAR_DECL", "IDENT"}
  /\ stack[i].pc # "enter" /\ stack[i].sym = k

\* A scope's symbols lie in an array that moves when the table grows: nothing
\* is put into a scope while an activation holds a pointer into it.
SymbolsStayPut ==
  [][\A k \in DOMAIN scopes : (\E i \in DOMAIN stack : PointsInto(i, k)) =>
       k \in DOMAIN scopes' /\ DOMAIN scopes'[k].sym = DOMAIN scopes[k].sym]_vars

\* Once a global is declared its type and value are settled: no later
\* declaration, function or leaked scope overwrites them.
GlobalsSettle ==
  [][\A x \in IF scopes = <<>> THEN {} ELSE DOMAIN scopes[1].sym :
       SymbolAt(1, x).level = Declared => scopes'[1].sym[x] = SymbolAt(1, x)]_vars

(***************************************************************************)
(* The analyser implements DeclOrder: a global is open while its level is  *)
(* DEFINED, inside another that is held further down the stack, and given  *)
(* up when its analysis is over and its symbol was left alone.             *)
(***************************************************************************)
GlobalNames == {Node(prog.decls[d]).name : d \in DOMAIN prog.decls}

GivenUp(x) ==
  \E d \in DOMAIN prog.decls :
    LET m == prog.decls[d]
    IN  /\ Node(m).name = x
        /\ m \in analyzed /\ \A i \in DOMAIN stack : stack[i].node # m

AbstractLevel ==
  [x \in GlobalNames |->
     IF scopes = <<>> THEN "todo"
     ELSE IF SymbolAt(1, x).level = Defined THEN "open"
     ELSE IF SymbolAt(1, x).level = Declared THEN "done"
     ELSE IF GivenUp(x) THEN "given up" ELSE "todo"]

AbstractVerdict ==
  IF (ctl.op = "return" /\ IsCrash(ctl.val)) \/ status \in {"unreachable", "sentinel"}
  THEN "aborted"
  ELSE IF status \in {"ok", "error"} THEN status ELSE "none"

AbstractInside ==
  IF AbstractVerdict = "aborted" THEN {}
  ELSE {p \in GlobalNames \X GlobalNames :
          \E i \in Holders(1, p[1]), j \in Holders(1, p[2]) : i < j}

Order == INSTANCE DeclOrder WITH
           level <- AbstractLevel, inside <- AbstractInside,
           reported <- hadError, verdict <- AbstractVerdict

\* Every behaviour of the analyser is one DeclOrder allows.
ImplementsDeclOrder == Order!Spec

\* The analysis ends, with a verdict or in the middle: no order of declarations
\* makes it go round.
VerdictReached == <>(AbstractVerdict # "none")
=============================================================================
