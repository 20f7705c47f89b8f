------------------------------ MODULE Codegen ------------------------------
(***************************************************************************)
(* The code generator (source/codegen.c): from the analysed tree to LLVM   *)
(* instructions.                                                           *)
(*                                                                         *)
(* codegen() goes over the top-level declarations; codegen_expr,           *)
(* codegen_stmt, codegen_lvalue and llvm_value recurse over their nodes    *)
(* and values.  The module makes that recursion explicit: a frame of       *)
(* `stack` is one activation, with the recursive calls it makes and what   *)
(* those that are over returned.  Visit makes the next call; when all are  *)
(* over, the action of the handler does the rest and returns.              *)
(*                                                                         *)
(* The nodes have the shape Analyzer gives them, and a few fields more:     *)
(*   ty    node->base.type                                                 *)
(*   val   the value of a VALUE node; of a VAR_DECL without an initialiser *)
(*         the value the analyser put there; None elsewhere                *)
(*   data  of an ACCESS is field_index + 1                                 *)
(*   params  of a FUNC_DECL: the name of each parameter and the node of    *)
(*         its type, 0 when none is written                                *)
(* Type ids are those of the pool `tree.types` (see Values).  The LLVM     *)
(* type of a struct is known by its TypeID: ctx->struct_types sees to it   *)
(* that each TypeID is lowered once.                                       *)
(*                                                                         *)
(* LLVM itself is modelled as far as codegen.c uses it.  What its          *)
(* interface leaves undefined (a NULL operand, a slot of type void, a      *)
(* global initialised with an instruction) ends the model: "misuse".       *)
(***************************************************************************)
EXTENDS Values

CONSTANT Trees    \* the analysed trees the generator may be given

VARIABLES
  tree,       \* [node, decls, types]
  functions,  \* the module's functions, in the order they were added
  globals,    \* its global variables
  code,       \* its instructions; `fn` says which function's block each is in
  at,         \* the function whose block the builder appends to, 0 for none
  locals,     \* ctx->locals
  stack,      \* the activations, the running one last
  decl,       \* position of codegen()'s loop over the declarations
  missing,    \* a call's function was not found, which is only reported
  outcome     \* "running", then one of Outcomes

output == <<functions, globals, code, at, locals, missing>>
vars == <<tree, output, stack, decl, outcome>>

\* "unreachable" and "unimplemented" are the macros, which exit with 1.
Outcomes == {"ok", "unreachable", "unimplemented", "misuse"}

(***************************************************************************)
(* LLVM types and operands.                                                *)
(***************************************************************************)
LType(k, id) == [k |-> k, id |-> id]
IntT(bits) == LType("INT", bits)
FloatT     == LType("FLOAT", 32)
VoidT      == LType("VOID", 0)
PtrT       == LType("PTR", 0)
LStruct(t) == LType("STRUCT", t)

Operand(k, type, id) == [k |-> k, type |-> type, id |-> id]
Null            == Operand("NULL", VoidT, 0)
Constant(t, n)  == Operand("CONST", t, n)    \* n: the node that is the constant
Result(t, i)    == Operand("INST", t, i)     \* what code[i] computes
Param(t, i)     == Operand("PARAM", t, i)
Address(i)      == Operand("GLOBAL", PtrT, i)

Inst(op, type, args, data) ==
  [fn |-> at, op |-> op, type |-> type, args |-> args, data |-> data]

Terminators == {"ret", "retvoid"}

\* llvm_type: the bit width of an integer type is in its TypeID.
BitSize(t) == IF t > UintBase THEN t - UintBase ELSE t

Simple(t) ==
  LET kind == Kind(tree.types, t)
  IN  CASE kind \in {"UNTYPED_INT", "ZERO"}      -> IntT(32)
        [] kind = "USIZE"                        -> IntT(64)
        [] kind \in {"FLOAT", "UNTYPED_FLOAT"}   -> FloatT
        [] kind = "VOID"                         -> VoidT
        [] kind \in {"UNTYPED_STRING", "CSTR"}   -> PtrT
        [] kind \in {"INT", "UINT"}              -> IntT(BitSize(t))
        [] OTHER                                 -> LStruct(t)

\* llvm_type comes back: it does from every type but `type`, `auto` and
\* unknown ones, and from a struct when it does from its fields.
Lowers(t) ==
  LET lowers[u \in 0 .. LastTypeId(tree.types)] ==
        IF HasFields(tree.types, u)
        THEN \A i \in DOMAIN Fields(tree.types, u) : lowers[Fields(tree.types, u)[i].type]
        ELSE Kind(tree.types, u) \notin {"TYPE", "UNKNOWN", "AUTO"}
  IN  lowers[t]

(***************************************************************************)
(* The activations.  `op` says which function runs: codegen_expr, -_stmt,  *)
(* -_lvalue, llvm_value, or the handler of a top-level declaration.        *)
(***************************************************************************)
Node(n) == tree.node[n]

Task(op, n, v) == [op |-> op, node |-> n, val |-> v]
Expr(n)   == Task("expr", n, None)
Lvalue(n) == Task("lvalue", n, None)
Stmt(n)   == Task(IF Node(n).kind \in {"VAR_DECL", "FUNC_DECL"} THEN "stmt" ELSE "expr", n, None)

\* LLVMGetNamedGlobal and LLVMGetNamedFunction; names are unique.
NamedIn(items, name) ==
  LET hits == {i \in DOMAIN items : items[i].name = name}
  IN  IF hits = {} THEN 0 ELSE CHOOSE i \in hits : TRUE

\* The name a call's function is looked up by; "" names none.
Callee(n) ==
  LET callee == Node(Node(n).kids[1])
  IN  IF callee.kind = "IDENT" THEN callee.name ELSE ""

\* is_explicitly_comptime
Comptime(n) == Node(n).const /\ Node(n).ty = TyType

\* The calls a handler makes; none when it stops before it makes any.
ExprCalls(n) ==
  LET kids == Node(n).kids
      v    == Node(n).val
  IN  CASE Node(n).kind = "VALUE" ->
             IF ComptimeKnown(v) THEN <<Task("value", n, v)>>
             ELSE IF v.k = "RUNTIME" THEN <<Expr(kids[1])>> ELSE <<>>
        [] Node(n).kind \in {"GROUPING", "UNARY"}  -> <<Expr(kids[1])>>
        [] Node(n).kind = "CAST"                   -> <<Expr(kids[2])>>
        [] Node(n).kind = "BINARY"                 -> <<Expr(kids[1]), Expr(kids[2])>>
        [] Node(n).kind \in {"IDENT", "ACCESS"}    -> <<Lvalue(n)>>
        [] Node(n).kind = "FUNC_CALL" ->
             IF NamedIn(functions, Callee(n)) = 0 THEN <<>>
             ELSE [i \in 1 .. Len(kids) - 1 |-> Expr(kids[1 + i])]
        [] Node(n).kind = "BLOCK"  -> [i \in DOMAIN kids |-> Stmt(kids[i])]
        [] Node(n).kind = "RETURN" -> IF kids[1] = 0 THEN <<>> ELSE <<Expr(kids[1])>>
        [] OTHER -> <<>>

VarCalls(n) ==
  IF Node(n).kind # "VAR_DECL" \/ Comptime(n) \/ ~Lowers(Node(n).ty) THEN <<>>
  ELSE IF Node(n).kids[2] # 0 THEN <<Expr(Node(n).kids[2])>>
  ELSE IF Node(n).val # None THEN <<Task("value", n, Node(n).val)>>
  ELSE <<>>

ValueCalls(n, v) ==
  IF v.k = "STRUCT" /\ Lowers(v.t) THEN [i \in DOMAIN v.fs |-> Task("value", n, v.fs[i])]
  ELSE <<>>

Calls(t) ==
  CASE t.op = "expr"   -> ExprCalls(t.node)
    [] t.op = "lvalue" -> IF Node(t.node).kind = "ACCESS" THEN <<Lvalue(Node(t.node).kids[1])>>
                          ELSE <<>>
    [] t.op = "value"  -> ValueCalls(t.node, t.val)
    [] t.op = "body"   -> <<Expr(Node(t.node).kids[2])>>
    [] t.op = "func"   -> <<>>
    [] OTHER           -> VarCalls(t.node)      \* "stmt", "global"

Frame(t) == [task |-> t, calls |-> Calls(t), args |-> <<>>]

Top    == stack[Len(stack)]
Below  == SubSeq(stack, 1, Len(stack) - 1)
Here   == Top.task.node
This   == Node(Here)
Args   == Top.args
Answer == Top.args[1]

Running == outcome = "running" /\ stack # <<>>

\* The running activation has a call to make.
Pending == Len(Top.args) + 1 \in DOMAIN Top.calls

\* All calls of the running activation of `op` are over.
Ready(op) == Running /\ Top.task.op = op /\ ~Pending

\* ... which is at a node of one of the kinds.
At(op, kinds) == Ready(op) /\ This.kind \in kinds

Visit ==
  /\ Running /\ Pending
  /\ stack' = Append(stack, Frame(Top.calls[Len(Top.args) + 1]))
  /\ UNCHANGED <<tree, output, decl, outcome>>

(***************************************************************************)
(* The ways a handler ends.                                                *)
(***************************************************************************)
Stop(how) ==
  /\ outcome' = how
  /\ UNCHANGED <<tree, output, stack, decl>>

\* return v; what a top-level declaration returns is dropped.
Told(frame, v) ==
  [task |-> frame.task, calls |-> frame.calls, args |-> Append(frame.args, v)]
Answered(v) ==
  IF Len(stack) = 1 THEN <<>>
  ELSE [Below EXCEPT ![Len(stack) - 1] = Told(@, v)]

Return(v) ==
  /\ stack' = Answered(v)
  /\ UNCHANGED <<tree, output, decl, outcome>>

\* Append an instruction to the builder's block and return its result.
Emit(inst) ==
  IF at = 0 THEN Stop("misuse")
  ELSE /\ code' = Append(code, inst)
       /\ stack' = Answered(Result(inst.type, Len(code) + 1))
       /\ UNCHANGED <<tree, functions, globals, at, locals, missing, decl, outcome>>

\* The builder folds an operation on constants.
Compute(op, type) ==
  IF \E i \in DOMAIN Args : Args[i].k = "NULL" THEN Stop("misuse")
  ELSE IF \A i \in DOMAIN Args : Args[i].k = "CONST" THEN Return(Constant(type, Here))
  ELSE Emit(Inst(op, type, Args, 0))

(***************************************************************************)
(* llvm_value.                                                             *)
(***************************************************************************)
AddGlobal(name, type, init, const) ==
  Append(globals, [name |-> name, type |-> type, init |-> init, const |-> const])

\* A field known at run time only is no constant for LLVMConstNamedStruct.
LlvmValue ==
  /\ Ready("value")
  /\ LET v == Top.task.val
     IN  CASE v.k = "ZERO" -> Return(Constant(IntT(32), Here))
           [] v.k = "SCALAR" ->
                IF IsNumber(tree.types, v.t) THEN Return(Constant(Simple(v.t), Here))
                ELSE Stop("unreachable")
           [] v.k = "STR" ->
                /\ globals' = AddGlobal(".str", PtrT, Null, TRUE)
                /\ stack' = Answered(Constant(PtrT, Here))
                /\ UNCHANGED <<tree, functions, code, at, locals, missing, decl, outcome>>
           [] v.k = "STRUCT" ->
                IF Lowers(v.t) THEN Return(Constant(LStruct(v.t), Here)) ELSE Stop("unreachable")
           [] v.k = "RUNTIME" -> Stop("misuse")
           [] OTHER -> Stop("unreachable")

(***************************************************************************)
(* codegen_lvalue: the place a name stands for.                            *)
(***************************************************************************)
\* Mutant: the list is searched from its start.
FindLocalFromStart(name) ==
  LET hits == {i \in DOMAIN locals : locals[i].name = name}
  IN  IF hits = {} THEN 0 ELSE CHOOSE i \in hits : \A j \in hits : i <= j

\* find_local_entry: the entry pushed last, 0 when there is none.
FindLocal(name) ==
  LET hits == {i \in DOMAIN locals : locals[i].name = name}
  IN  IF hits = {} THEN 0 ELSE CHOOSE i \in hits : \A j \in hits : j <= i

LvalueIdent ==
  /\ At("lvalue", {"IDENT"})
  /\ LET l == FindLocal(This.name)
         g == NamedIn(globals, This.name)
     IN  IF l \in DOMAIN locals THEN Return(locals[l].slot)
         ELSE IF g # 0 THEN Return(Address(g))
         ELSE Stop("unreachable")

LvalueAccess ==
  /\ At("lvalue", {"ACCESS"})
  /\ IF Lowers(Node(This.kids[1]).ty) THEN Emit(Inst("gep", PtrT, Args, This.data))
     ELSE Stop("unreachable")

LvalueOther ==
  /\ Ready("lvalue") /\ This.kind \notin {"IDENT", "ACCESS"}
  /\ Stop("unreachable")

(***************************************************************************)
(* codegen_expr.                                                           *)
(***************************************************************************)
\* codegen_value, when the node holds something to generate, and a grouping.
CodegenInner ==
  /\ At("expr", {"VALUE", "GROUPING"})
  /\ IF Args = <<>> THEN Stop("unreachable") ELSE Return(Answer)

\* codegen_ident and codegen_access
CodegenLoad ==
  /\ At("expr", {"IDENT", "ACCESS"})
  /\ IF ~Lowers(This.ty) THEN Stop("unreachable")
     ELSE IF Simple(This.ty) = VoidT THEN Stop("misuse")
     ELSE Emit(Inst("load", Simple(This.ty), Args, 0))

\* Floating-point operands get the instructions for integers.
BinaryOp(op) == CASE op = "+" -> "add" [] op = "-" -> "sub" [] op = "*" -> "mul" [] OTHER -> "sdiv"

CodegenBinary ==
  /\ At("expr", {"BINARY"})
  /\ IF This.name \in {"+", "-", "*", "/"} THEN Compute(BinaryOp(This.name), Answer.type)
     ELSE Stop("unreachable")

\* `const` of a UNARY says whether its operator is the minus.
CodegenUnary ==
  /\ At("expr", {"UNARY"})
  /\ IF This.const THEN Compute("neg", Answer.type) ELSE Return(Answer)

\* Types of one kind are taken to be the same type: the cases further down
\* that convert an integer or a pointer to another are never reached.
CodegenCast ==
  /\ At("expr", {"CAST"})
  /\ LET from == Answer.type.k
         to   == Simple(This.ty)
     IN  IF ~Lowers(This.ty) THEN Stop("unreachable")
         ELSE IF Answer.k = "NULL" THEN Stop("misuse")
         ELSE IF from = to.k THEN Return(Answer)
         ELSE IF from = "INT" /\ to.k = "FLOAT" THEN Compute("sitofp", to)
         ELSE IF from = "FLOAT" /\ to.k = "INT" THEN Compute("fptosi", to)
         ELSE Stop("unreachable")

\* Mutant: the arguments are passed last to first.
ArgumentsReversed == [i \in DOMAIN Args |-> Args[Len(Args) - i + 1]]
Arguments == Args

\* A function the module does not have (yet) is reported, its arguments are
\* not generated, and the call is the number 0.
CodegenFuncCall ==
  /\ At("expr", {"FUNC_CALL"})
  /\ LET f == NamedIn(functions, Callee(Here))
     IN  IF f = 0
         THEN /\ missing' = TRUE
              /\ stack' = Answered(Constant(IntT(32), Here))
              /\ UNCHANGED <<tree, functions, globals, code, at, locals, decl, outcome>>
         ELSE IF \E i \in DOMAIN Args : Args[i].k = "NULL" THEN Stop("misuse")
         ELSE Emit(Inst("call", functions[f].ret, Arguments, f))

\* The value of the last statement.
CodegenBlock ==
  /\ At("expr", {"BLOCK"})
  /\ Return(IF Args = <<>> THEN Null ELSE Args[Len(Args)])

RetInst(v) == IF v.k = "NULL" THEN Inst("retvoid", VoidT, <<>>, 0)
          ELSE Inst("ret", VoidT, <<v>>, 0)

CodegenReturn ==
  /\ At("expr", {"RETURN"})
  /\ Emit(RetInst(IF Args = <<>> THEN Null ELSE Answer))

Expressions == {"VALUE", "CAST", "GROUPING", "IDENT", "BINARY", "UNARY", "ACCESS",
                "FUNC_CALL", "BLOCK", "RETURN"}

\* Other nodes have been folded, but for a function declared in a block.
Unimplemented ==
  /\ Running /\ Top.task.op \in {"expr", "stmt"}
  /\ This.kind \notin Expressions \cup (IF Top.task.op = "stmt" THEN {"VAR_DECL"} ELSE {})
  /\ Stop("unimplemented")

(***************************************************************************)
(* codegen_var.                                                            *)
(***************************************************************************)
\* Mutant: the slots are made, and nothing is stored in them.
SlotsUnset(f, ts, inits) ==
  [j \in DOMAIN ts |-> [Inst("alloca", PtrT, <<>>, ts[j]) EXCEPT !.fn = f]]

\* In function f: for every type a slot, and a store of its initial value.
Slots(f, ts, inits) ==
  [j \in 1 .. 2 * Len(ts) |->
     LET i == (j + 1) \div 2
     IN  [IF j % 2 = 1 THEN Inst("alloca", PtrT, <<>>, ts[i])
          ELSE Inst("store", VoidT, <<inits[i], Result(PtrT, Len(code) + j - 1)>>, 0)
          EXCEPT !.fn = f]]

Local(name, slot, n) == [name |-> name, slot |-> slot, decl |-> n]

\* The initialiser; a declaration without one starts as zero.
Initial == IF Args = <<>> THEN Constant(Simple(This.ty), 0) ELSE Answer

LocalVar ==
  /\ At("stmt", {"VAR_DECL"})
  /\ IF Comptime(Here) THEN Return(Null)
     ELSE IF ~Lowers(This.ty) THEN Stop("unreachable")
     ELSE IF Simple(This.ty) = VoidT \/ Initial.k = "NULL" \/ at = 0 THEN Stop("misuse")
     ELSE LET slot == Result(PtrT, Len(code) + 1)
          IN  /\ code' = code \o Slots(at, <<This.ty>>, <<Initial>>)
              /\ locals' = Append(locals, Local(This.name, slot, Here))
              /\ stack' = Answered(slot)
              /\ UNCHANGED <<tree, functions, globals, at, missing, decl, outcome>>

GlobalVar ==
  /\ At("global", {"VAR_DECL"})
  /\ IF Comptime(Here) THEN Return(Null)
     ELSE IF ~Lowers(This.ty) THEN Stop("unreachable")
     ELSE IF Simple(This.ty) = VoidT \/ Initial.k # "CONST" THEN Stop("misuse")
     ELSE /\ globals' = AddGlobal(This.name, Simple(This.ty), Initial, This.const)
          /\ stack' = Answered(Address(Len(globals) + 1))
          /\ UNCHANGED <<tree, functions, code, at, locals, missing, decl, outcome>>

(***************************************************************************)
(* codegen_func_decl.                                                      *)
(***************************************************************************)
\* The type of a parameter is the value of its type's node, once without the
\* types of other nodes (for the signature) and once with them.  TypeID 0 is
\* a zeroed entry of the pool, which lowers like the type `zero`.
SignatureType(p) ==
  IF p # 0 /\ Node(p).kind = "VALUE" THEN Node(p).val.t ELSE NoType
SlotType(p) ==
  IF p = 0 THEN NoType ELSE IF Node(p).kind = "VALUE" THEN Node(p).val.t ELSE Node(p).ty

\* Mutant: the builder is left where it is.
BuilderKept(f) == at
\* LLVMPositionBuilderAtEnd
BuilderAt(f) == f

\* The signature, and the slots of the parameters; then the body.
OpenFuncDecl ==
  /\ At("func", {"FUNC_DECL"})
  /\ LET f     == Len(functions) + 1
         types == [i \in DOMAIN This.params |-> SlotType(This.params[i].type)]
         sig   == [i \in DOMAIN This.params |-> SignatureType(This.params[i].type)]
         all   == <<This.ty>> \o types \o sig
     IN  IF \E i \in DOMAIN all : ~Lowers(all[i]) THEN Stop("unreachable")
         ELSE IF \E i \in DOMAIN types : Simple(types[i]) = VoidT THEN Stop("misuse")
         ELSE /\ functions' = Append(functions,
                   [name |-> This.name, node |-> Here, ret |-> Simple(This.ty),
                    params |-> [i \in DOMAIN sig |-> Simple(sig[i])]])
              /\ at' = BuilderAt(f)
              /\ code' = code \o Slots(f, types,
                           [i \in DOMAIN sig |-> Param(Simple(sig[i]), i)])
              /\ locals' = locals \o [i \in DOMAIN types |->
                   Local(This.params[i].name, Result(PtrT, Len(code) + 2 * i - 1), Here)]
              /\ stack' = <<Frame(Task("body", Here, None))>>
              /\ UNCHANGED <<tree, globals, missing, decl, outcome>>

\* The last instruction of the function's block is a terminator.
Terminated(f) ==
  \E i \in DOMAIN code :
    /\ code[i].fn = f /\ code[i].op \in Terminators
    /\ \A j \in i + 1 .. Len(code) : code[j].fn # f

DefaultReturn ==
  IF Answer.k # "NULL" THEN Answer
  ELSE IF functions[at].ret = VoidT THEN Null ELSE Constant(functions[at].ret, 0)

\* Mutant: no return is added where the body returns no value.
CloseIfValue ==
  /\ At("body", {"FUNC_DECL"})
  /\ IF Terminated(at) \/ Answer.k = "NULL" THEN Return(Null) ELSE Emit(RetInst(DefaultReturn))

CloseFuncDecl ==
  /\ At("body", {"FUNC_DECL"})
  /\ IF Terminated(at) THEN Return(Null) ELSE Emit(RetInst(DefaultReturn))

(***************************************************************************)
(* codegen().                                                              *)
(***************************************************************************)
\* Mutant: the loop does not go on.
SameDecl == decl
NextDecl == decl + 1

\* codegen_global_node
CodegenGlobalNode ==
  /\ outcome = "running" /\ stack = <<>>
  /\ decl <= Len(tree.decls)
  /\ LET n == tree.decls[decl]
     IN  stack' = <<Frame(Task(IF Node(n).kind = "FUNC_DECL" THEN "func" ELSE "global", n, None))>>
  /\ decl' = NextDecl
  /\ UNCHANGED <<tree, output, outcome>>

Generated ==
  /\ outcome = "running" /\ stack = <<>>
  /\ decl > Len(tree.decls)
  /\ outcome' = "ok"
  /\ UNCHANGED <<tree, output, stack, decl>>

InitWith(t) ==
  /\ tree = t
  /\ functions = <<>> /\ globals = <<>> /\ code = <<>> /\ locals = <<>>
  /\ at = 0
  /\ missing = FALSE
  /\ stack = <<>>
  /\ decl = 1
  /\ outcome = "running"

Init == \E t \in Trees : InitWith(t)

CodegenExpr ==
  \/ CodegenInner \/ CodegenCast \/ CodegenLoad \/ CodegenBinary \/ CodegenUnary
  \/ CodegenFuncCall \/ CodegenBlock \/ CodegenReturn \/ Unimplemented

CodegenPlace == LlvmValue \/ LvalueIdent \/ LvalueAccess \/ LvalueOther

CodegenDecl == LocalVar \/ GlobalVar \/ OpenFuncDecl \/ CloseFuncDecl

Next == CodegenGlobalNode \/ Generated \/ Visit \/ CodegenExpr \/ CodegenPlace \/ CodegenDecl

Spec == Init /\ [][Next]_vars /\ WF_vars(Next)

(***************************************************************************)
(* Properties.                                                             *)
(***************************************************************************)
IsSeq(s) == s \in Seq({s[i] : i \in DOMAIN s})

\* What the generator relies on: the declarations are a list, and the
\* parameters of each are one.
TreeOK(t) ==
  /\ IsSeq(t.decls)
  /\ \A d \in DOMAIN t.decls : IsSeq(t.node[t.decls[d]].params)

\* Activation i of a stack answers the call that made it; a declaration's is
\* the first; and an activation that loads, or goes into a field, first asks
\* for the place of what is named.
FrameOK(s, i) ==
  LET task == s[i].task
      node == Node(task.node)
  IN  /\ IsSeq(s[i].args)
      /\ \A c \in DOMAIN s[i].calls : s[i].calls[c].op # "func"
      /\ i > 1 => task.op # "func" /\ task = s[i - 1].calls[Len(s[i - 1].args) + 1]
      /\ task.op = "func" => \E d \in DOMAIN tree.decls : task.node = tree.decls[d]
      /\ task.op = "expr" /\ node.kind \in {"IDENT", "ACCESS"} =>
           s[i].calls = <<Lvalue(task.node)>>
      /\ task.op = "lvalue" /\ node.kind = "ACCESS" => s[i].calls = <<Lvalue(node.kids[1])>>

\* The state is well formed, the activations follow from one another, and the
\* builder is in the block of the function added last.
GeneratorOK ==
  /\ TreeOK(tree) /\ decl \in Nat \ {0}
  /\ IsSeq(functions) /\ IsSeq(globals) /\ IsSeq(code) /\ IsSeq(locals) /\ IsSeq(stack)
  /\ at = Len(functions)
  /\ \A i \in DOMAIN stack : FrameOK(stack, i)
  /\ outcome \in Outcomes \cup {"running"}

\* Instruction i of c makes a slot, and the next one stores its first value.
Filled(c, i) ==
  /\ c[i].op = "alloca"
  /\ i + 1 \in DOMAIN c
  /\ c[i + 1].op = "store" /\ c[i + 1].args[2] = Result(PtrT, i)

\* A place: a global, a filled slot, or a field of a place.
IsPlace(c, o) ==
  \/ o.k = "GLOBAL"
  \/ o.k = "INST" /\ o.id \in DOMAIN c /\ (c[o.id].op = "gep" \/ Filled(c, o.id))

\* What instruction i reads or goes into is a place computed before it.
Reads(c, i) ==
  c[i].op \in {"load", "gep"} =>
    IsPlace(c, c[i].args[1]) /\ (c[i].args[1].k = "INST" => c[i].args[1].id < i)

\* What a load reads, or a gep goes into, is a global or was stored into
\* before: codegen_var and codegen_func_decl fill each slot they make, and
\* codegen_lvalue yields no other.
SlotsAreFilled == \A i \in DOMAIN code : Reads(code, i)

HasReturn(f) == \E i \in DOMAIN code : code[i].fn = f /\ code[i].op \in Terminators

\* Every function of the module returns, whatever its body ends in: a return
\* in the text, one added after the value of the body, or one added to a body
\* without a value.
EveryFunctionReturns == outcome = "ok" => \A f \in DOMAIN functions : HasReturn(f)
=============================================================================
