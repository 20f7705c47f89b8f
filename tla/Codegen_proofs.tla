--------------------------- MODULE Codegen_proofs ---------------------------
(***************************************************************************)
(* For every tree: no load reads a slot that was not stored into, and      *)
(* every function generated returns.  For every program, that this holds   *)
(* of the tree the analyser hands over: at the end.                        *)
(***************************************************************************)
EXTENDS Compiler, SequenceTheorems, WellFoundedInduction, TLAPS

(***************************************************************************)
(* Sequences of anything.                                                  *)
(***************************************************************************)
\* The indices of a sequence.
LEMMA SeqIndices ==
  ASSUME NEW s, IsSeq(s)
  PROVE  Len(s) \in Nat /\ DOMAIN s = 1 .. Len(s)
BY DEF IsSeq

\* A function on 1 .. n is a sequence.
LEMMA FunctionSeq ==
  ASSUME NEW n \in Nat, NEW f, f = [i \in 1 .. n |-> f[i]]
  PROVE  IsSeq(f) /\ Len(f) = n
<1>1. DOMAIN f = 1 .. n /\ f \in [1 .. n -> {f[i] : i \in DOMAIN f}]
  OBVIOUS
<1>2. IsSeq(f)
  BY <1>1 DEF IsSeq
<1> QED BY <1>1, <1>2, SeqIndices

\* A sequence with an element more.
LEMMA AppendSeq ==
  ASSUME NEW s, IsSeq(s), NEW e
  PROVE  /\ IsSeq(Append(s, e))
         /\ Len(Append(s, e)) = Len(s) + 1
         /\ DOMAIN Append(s, e) = 1 .. Len(s) + 1
         /\ \A i \in 1 .. Len(s) : Append(s, e)[i] = s[i]
         /\ Append(s, e)[Len(s) + 1] = e
<1> DEFINE S == {s[i] : i \in DOMAIN s} \cup {e}
           t == Append(s, e)
<1>1. s \in Seq(S)
  BY SeqMonotonic DEF IsSeq
<1>2. /\ t \in Seq(S) /\ Len(t) = Len(s) + 1 /\ t[Len(s) + 1] = e
      /\ \A i \in 1 .. Len(s) : t[i] = s[i]
  BY <1>1, AppendProperties
<1>3. DOMAIN t = 1 .. Len(s) + 1 /\ Len(s) \in Nat
  BY <1>1, <1>2, LenProperties
<1> HIDE DEF t, S
<1>4. t \in [1 .. Len(t) -> {t[i] : i \in DOMAIN t}] /\ Len(t) \in Nat
  BY <1>2, <1>3, LenProperties
<1>5. IsSeq(t)
  BY <1>4 DEF IsSeq
<1> QED BY <1>2, <1>3, <1>5 DEF t

\* Two sequences, one after the other.
LEMMA ConcatSeq ==
  ASSUME NEW s, IsSeq(s), NEW t, IsSeq(t), NEW u, u = s \o t
  PROVE  /\ IsSeq(u)
         /\ Len(u) = Len(s) + Len(t)
         /\ DOMAIN u = 1 .. Len(s) + Len(t)
         /\ \A i \in 1 .. Len(s) : u[i] = s[i]
         /\ \A j \in 1 .. Len(t) : u[Len(s) + j] = t[j]
<1> DEFINE S == {s[i] : i \in DOMAIN s} \cup {t[i] : i \in DOMAIN t}
<1>1. s \in Seq(S) /\ t \in Seq(S)
  BY SeqMonotonic DEF IsSeq
<1>2. Len(s) \in Nat /\ Len(t) \in Nat
  BY <1>1, LenProperties
<1>3. /\ u \in Seq(S) /\ Len(u) = Len(s) + Len(t)
      /\ \A i \in 1 .. Len(s) + Len(t) : u[i] = IF i <= Len(s) THEN s[i] ELSE t[i - Len(s)]
  BY <1>1, ConcatProperties
<1>4. DOMAIN u = 1 .. Len(s) + Len(t)
  BY <1>3, LenProperties
<1> HIDE DEF S
<1>5. u = [i \in 1 .. Len(u) |-> u[i]] /\ Len(u) \in Nat
  BY <1>2, <1>3, <1>4, LenProperties
<1>6. IsSeq(u)
  BY <1>5, FunctionSeq
<1>7. \A i \in 1 .. Len(s) : u[i] = s[i]
  BY <1>2, <1>3
<1>8. \A j \in 1 .. Len(t) : u[Len(s) + j] = t[j]
  BY <1>2, <1>3
<1> QED BY <1>3, <1>4, <1>6, <1>7, <1>8

\* A sequence without its last element.
LEMMA FrontSeq ==
  ASSUME NEW s, IsSeq(s), s # <<>>
  PROVE  LET t == SubSeq(s, 1, Len(s) - 1)
         IN  /\ IsSeq(t) /\ Len(t) = Len(s) - 1 /\ Len(t) \in Nat
             /\ \A i \in 1 .. Len(s) - 1 : t[i] = s[i]
<1> DEFINE S == {s[i] : i \in DOMAIN s}
           t == SubSeq(s, 1, Len(s) - 1)
<1>1. s \in Seq(S) /\ Len(s) \in Nat \ {0} /\ DOMAIN s = 1 .. Len(s)
  BY EmptySeq, LenProperties DEF IsSeq
<1>2. /\ t \in Seq(S) /\ Len(t) = Len(s) - 1
      /\ \A i \in 1 .. Len(s) - 1 : t[i] = s[i]
  BY <1>1, SubSeqProperties
<1> HIDE DEF t, S
<1>3. t \in [1 .. Len(t) -> {t[i] : i \in DOMAIN t}] /\ Len(t) \in Nat
  BY <1>2, LenProperties
<1>4. IsSeq(t)
  BY <1>3 DEF IsSeq
<1> QED BY <1>1, <1>2, <1>3, <1>4 DEF t

\* A sequence with an element replaced.
LEMMA ExceptSeqOf ==
  ASSUME NEW s, IsSeq(s), NEW i \in DOMAIN s, NEW e
  PROVE  LET t == [s EXCEPT ![i] = e]
         IN  IsSeq(t) /\ Len(t) = Len(s) /\ DOMAIN t = DOMAIN s
<1> DEFINE t == [s EXCEPT ![i] = e]
<1>1. Len(s) \in Nat /\ DOMAIN t = 1 .. Len(s) /\ DOMAIN s = 1 .. Len(s)
  BY SeqIndices
<1> HIDE DEF t
<1>2. t = [j \in 1 .. Len(s) |-> t[j]]
  BY <1>1 DEF t
<1> QED BY <1>1, <1>2, FunctionSeq DEF t

(***************************************************************************)
(* The invariant.                                                          *)
(***************************************************************************)
\* Where a place was asked for, a place was answered.
PlacesOK(s, i, c) ==
  \A j \in DOMAIN s[i].args : s[i].calls[j].op = "lvalue" => IsPlace(c, s[i].args[j])

StackOK(s, c) == IsSeq(s) /\ \A i \in DOMAIN s : FrameOK(s, i) /\ PlacesOK(s, i, c)

\* The body of a function is being generated.
InBody == stack # <<>> /\ stack[1].task.op = "body"

\* A load is the last step of a handler that first asked for a place, so the
\* answers on the stack and the slots of the locals must be places; and every
\* function but the one being generated has its return.
IInv ==
  /\ GeneratorOK
  /\ StackOK(stack, code)
  /\ \A i \in DOMAIN locals : IsPlace(code, locals[i].slot)
  /\ SlotsAreFilled
  /\ \A f \in DOMAIN functions : HasReturn(f) \/ (f = at /\ InBody)

(***************************************************************************)
(* Code that grows.                                                        *)
(***************************************************************************)
Extends(c, d) ==
  /\ IsSeq(c) /\ IsSeq(d) /\ Len(c) <= Len(d)
  /\ \A i \in 1 .. Len(c) : d[i] = c[i]

\* A place stays one.
LEMMA PlaceStays ==
  ASSUME NEW c, NEW d, Extends(c, d), NEW o, IsPlace(c, o)
  PROVE  IsPlace(d, o)
<1>1. /\ Len(c) \in Nat /\ DOMAIN c = 1 .. Len(c)
      /\ Len(d) \in Nat /\ DOMAIN d = 1 .. Len(d)
  BY SeqIndices DEF Extends
<1>2. CASE o.k = "GLOBAL"
  BY <1>2 DEF IsPlace
<1>3. CASE o.k = "INST" /\ o.id \in DOMAIN c /\ (c[o.id].op = "gep" \/ Filled(c, o.id))
  <2>1. o.id \in DOMAIN d /\ d[o.id] = c[o.id]
    BY <1>1, <1>3 DEF Extends
  <2>2. Filled(c, o.id) => Filled(d, o.id)
    BY <1>1, <2>1 DEF Filled, Extends
  <2> QED BY <1>3, <2>1, <2>2 DEF IsPlace
<1> QED BY <1>2, <1>3 DEF IsPlace

\* Code that reads places only still does when what is added does.
LEMMA ReadsStay ==
  ASSUME NEW c, NEW d, Extends(c, d),
         \A i \in DOMAIN c : Reads(c, i), \A i \in Len(c) + 1 .. Len(d) : Reads(d, i)
  PROVE  \A i \in DOMAIN d : Reads(d, i)
<1>1. /\ Len(c) \in Nat /\ DOMAIN c = 1 .. Len(c)
      /\ Len(d) \in Nat /\ DOMAIN d = 1 .. Len(d)
  BY SeqIndices DEF Extends
<1> SUFFICES ASSUME NEW i \in DOMAIN d, i <= Len(c)
             PROVE  Reads(d, i)
  BY <1>1
<1>2. i \in DOMAIN c /\ d[i] = c[i]
  BY <1>1 DEF Extends
<1>3. Reads(c, i)
  BY <1>2
<1> QED BY <1>2, <1>3, PlaceStays DEF Reads

(***************************************************************************)
(* Calls and answers.                                                      *)
(***************************************************************************)
\* No handler calls codegen_func_decl.
LEMMA CallsMade ==
  ASSUME NEW t
  PROVE  \A c \in DOMAIN Calls(t) : Calls(t)[c].op # "func"
<1>1. \A n : /\ Expr(n).op # "func" /\ Lvalue(n).op # "func" /\ Stmt(n).op # "func"
             /\ \A v : Task("value", n, v).op # "func"
  BY DEF Expr, Lvalue, Stmt, Task
<1>2. \A c \in DOMAIN ExprCalls(t.node) : ExprCalls(t.node)[c].op # "func"
  BY <1>1 DEF ExprCalls
<1>3. \A c \in DOMAIN VarCalls(t.node) : VarCalls(t.node)[c].op # "func"
  BY DEF VarCalls, Expr, Task
<1>4. \A c \in DOMAIN ValueCalls(t.node, t.val) : ValueCalls(t.node, t.val)[c].op # "func"
  BY DEF ValueCalls, Task
<1> QED BY <1>1, <1>2, <1>3, <1>4 DEF Calls

\* The running activation is the last of the stack.
LEMMA TopOfStack ==
  ASSUME StackOK(stack, code), stack # <<>>
  PROVE  /\ Len(stack) \in Nat \ {0} /\ DOMAIN stack = 1 .. Len(stack)
         /\ FrameOK(stack, Len(stack)) /\ PlacesOK(stack, Len(stack), code)
<1>1. Len(stack) \in Nat /\ DOMAIN stack = 1 .. Len(stack)
  BY SeqIndices DEF StackOK
<1>2. Len(stack) # 0
  BY EmptySeq DEF StackOK, IsSeq
<1> QED BY <1>1, <1>2 DEF StackOK

\* A call that is over: its answer is a place if a place was asked for.
LEMMA Answering ==
  ASSUME StackOK(stack, code), stack # <<>>, NEW d, Extends(code, d), NEW v,
         Top.task.op = "lvalue" => IsPlace(d, v)
  PROVE  /\ StackOK(Answered(v), d)
         /\ Answered(v) # <<>> => Len(stack) > 1 /\ Answered(v)[1].task = stack[1].task
<1>1. Len(stack) \in Nat \ {0} /\ DOMAIN stack = 1 .. Len(stack)
  BY TopOfStack
<1>2. CASE Len(stack) = 1
  <2>1. Answered(v) = <<>>
    BY <1>2 DEF Answered
  <2>2. IsSeq(<<>>) /\ DOMAIN <<>> = {}
    BY EmptySeq DEF IsSeq
  <2> QED BY <2>1, <2>2 DEF StackOK
<1>3. CASE Len(stack) > 1
  <2> DEFINE n == Len(stack) - 1
             s == Answered(v)
  <2>1. /\ IsSeq(Below) /\ Len(Below) = n /\ n \in Nat \ {0} /\ DOMAIN Below = 1 .. n
        /\ \A i \in 1 .. n : Below[i] = stack[i]
    BY <1>1, <1>3, FrontSeq, SeqIndices DEF StackOK, Below
  <2>2. s = [Below EXCEPT ![n] = Told(stack[n], v)]
    <3>1. Len(stack) # 1 /\ Below[n] = stack[n]
      BY <1>1, <1>3, <2>1
    <3> QED BY <3>1 DEF Answered
  <2> HIDE DEF s
  <2>3. IsSeq(s) /\ DOMAIN s = 1 .. n
    <3>1. n \in DOMAIN Below
      BY <2>1
    <3> QED BY <2>1, <2>2, <3>1, ExceptSeqOf
  <2>4. s[n] = Told(stack[n], v) /\ \A i \in 1 .. n - 1 : s[i] = stack[i]
    BY <2>1, <2>2
  <2>5. FrameOK(stack, n) /\ PlacesOK(stack, n, code) /\ FrameOK(stack, n + 1)
    BY <1>1, <1>3 DEF StackOK
  <2>6. /\ IsSeq(stack[n].args) /\ Len(stack[n].args) \in Nat
        /\ DOMAIN stack[n].args = 1 .. Len(stack[n].args)
    BY <2>5, SeqIndices DEF FrameOK
  <2>7. /\ IsSeq(s[n].args) /\ s[n].task = stack[n].task /\ s[n].calls = stack[n].calls
        /\ DOMAIN s[n].args = 1 .. Len(stack[n].args) + 1
        /\ \A j \in DOMAIN stack[n].args : s[n].args[j] = stack[n].args[j]
        /\ s[n].args[Len(stack[n].args) + 1] = v
    BY <2>4, <2>6, AppendSeq DEF Told
  <2>8. Top.task = stack[n].calls[Len(stack[n].args) + 1]
    BY <1>1, <1>3, <2>5 DEF FrameOK, Top
  <2>9. PlacesOK(s, n, d)
    <3> SUFFICES ASSUME NEW j \in DOMAIN s[n].args, s[n].calls[j].op = "lvalue"
                 PROVE  IsPlace(d, s[n].args[j])
      BY DEF PlacesOK
    <3>1. CASE j \in DOMAIN stack[n].args
      BY <2>5, <2>7, <3>1, PlaceStays DEF PlacesOK
    <3>2. CASE j = Len(stack[n].args) + 1
      BY <2>7, <2>8, <3>2
    <3> QED BY <2>6, <2>7, <3>1, <3>2
  <2>10. \A i \in 1 .. n - 1 : PlacesOK(s, i, d)
    <3> SUFFICES ASSUME NEW i \in 1 .. n - 1 PROVE PlacesOK(s, i, d)
      OBVIOUS
    <3>1. PlacesOK(stack, i, code) /\ s[i] = stack[i]
      BY <1>1, <2>1, <2>4 DEF StackOK
    <3> QED BY <3>1, PlaceStays DEF PlacesOK
  <2>11. \A i \in 1 .. n : FrameOK(s, i)
    <3> SUFFICES ASSUME NEW i \in 1 .. n PROVE FrameOK(s, i)
      OBVIOUS
    <3>1. FrameOK(stack, i)
      BY <1>1, <2>1 DEF StackOK
    <3>2. s[i].task = stack[i].task /\ s[i].calls = stack[i].calls /\ IsSeq(s[i].args)
      <4>1. IsSeq(stack[i].args)
        BY <3>1 DEF FrameOK
      <4>2. CASE i = n
        BY <2>7, <4>2
      <4>3. CASE i < n
        BY <2>1, <2>4, <4>1, <4>3
      <4> QED BY <2>1, <4>2, <4>3
    <3>3. i > 1 => s[i - 1] = stack[i - 1]
      BY <2>1, <2>4
    <3> QED BY <3>1, <3>2, <3>3 DEF FrameOK
  <2>12. StackOK(s, d)
    BY <2>1, <2>3, <2>9, <2>10, <2>11 DEF StackOK
  <2>13. s[1].task = stack[1].task
    BY <2>1, <2>4, <2>7
  <2> QED BY <1>3, <2>12, <2>13 DEF s
<1> QED BY <1>1, <1>2, <1>3

\* The activation of a call.
LEMMA NewFrame ==
  ASSUME NEW t
  PROVE  /\ Frame(t).task = t /\ Frame(t).calls = Calls(t)
         /\ IsSeq(Frame(t).args) /\ DOMAIN Frame(t).args = {}
BY EmptySeq DEF Frame, IsSeq

\* A call that begins.
LEMMA Visiting ==
  ASSUME StackOK(stack, code), Running, Pending
  PROVE  LET s == Append(stack, Frame(Top.calls[Len(Top.args) + 1]))
         IN  StackOK(s, code) /\ s # <<>> /\ s[1].task = stack[1].task
<1> DEFINE n == Len(stack)
           t == Top.calls[Len(Top.args) + 1]
           s == Append(stack, Frame(t))
<1>1. /\ n \in Nat \ {0} /\ DOMAIN stack = 1 .. n
      /\ FrameOK(stack, n) /\ PlacesOK(stack, n, code)
  BY TopOfStack DEF Running
<1>2. /\ IsSeq(s) /\ DOMAIN s = 1 .. n + 1 /\ s[n + 1] = Frame(t)
      /\ \A i \in 1 .. n : s[i] = stack[i]
  BY AppendSeq DEF StackOK
<1>3. t = stack[n].calls[Len(stack[n].args) + 1] /\ t.op # "func"
  BY <1>1 DEF FrameOK, Top, Pending
<1>4. /\ s[n + 1].task = t /\ s[n + 1].calls = Calls(t)
      /\ IsSeq(s[n + 1].args) /\ DOMAIN s[n + 1].args = {}
  BY <1>2, NewFrame
<1> HIDE DEF t, s, n
<1>5. t.op = "expr" /\ Node(t.node).kind \in {"IDENT", "ACCESS"} => Calls(t) = <<Lvalue(t.node)>>
  BY DEF Calls, ExprCalls
<1>6. t.op = "lvalue" /\ Node(t.node).kind = "ACCESS" => Calls(t) = <<Lvalue(Node(t.node).kids[1])>>
  BY DEF Calls
<1>7. FrameOK(s, n + 1) /\ PlacesOK(s, n + 1, code)
  <2>1. n + 1 - 1 = n /\ s[n] = stack[n]
    BY <1>1, <1>2
  <2>2. \A c \in DOMAIN Calls(t) : Calls(t)[c].op # "func"
    BY CallsMade
  <2>3. PlacesOK(s, n + 1, code)
    BY <1>4 DEF PlacesOK
  <2>4. s[n + 1].task = s[n].calls[Len(s[n].args) + 1]
    BY <1>3, <1>4, <2>1
  <2>5. FrameOK(s, n + 1)
    <3> DEFINE i == n + 1
    <3>1. i - 1 = n /\ i = n + 1
      BY <1>1
    <3> HIDE DEF i
    <3>2. s[i].task = t /\ s[i].calls = Calls(t) /\ IsSeq(s[i].args)
      BY <1>4, <3>1
    <3>3. t = s[i - 1].calls[Len(s[i - 1].args) + 1]
      BY <1>4, <2>4, <3>1
    <3>4. FrameOK(s, i)
      BY <1>3, <1>5, <1>6, <2>2, <3>2, <3>3 DEF FrameOK
    <3> QED BY <3>1, <3>4
  <2> QED BY <2>3, <2>5
<1>8. \A i \in 1 .. n : FrameOK(s, i) /\ PlacesOK(s, i, code)
  <2> SUFFICES ASSUME NEW i \in 1 .. n PROVE FrameOK(s, i) /\ PlacesOK(s, i, code)
    OBVIOUS
  <2>1. FrameOK(stack, i) /\ PlacesOK(stack, i, code)
    BY <1>1 DEF StackOK
  <2>2. s[i] = stack[i] /\ (i > 1 => s[i - 1] = stack[i - 1])
    BY <1>1, <1>2
  <2> QED BY <2>1, <2>2 DEF FrameOK, PlacesOK
<1>9. StackOK(s, code)
  BY <1>1, <1>2, <1>7, <1>8 DEF StackOK
<1>10. s[1].task = stack[1].task /\ s # <<>>
  <2>1. 1 \in DOMAIN s
    BY <1>1, <1>2
  <2>2. s # <<>>
    BY <2>1
  <2> QED BY <1>1, <1>2, <2>2
<1> QED BY <1>9, <1>10 DEF s, t

\* The stack of a declaration's handler, or of a function's body.
LEMMA FirstFrame ==
  ASSUME NEW t, NEW c, t.op \in {"func", "global", "body"},
         t.op = "func" => \E d \in DOMAIN tree.decls : t.node = tree.decls[d]
  PROVE  StackOK(<<Frame(t)>>, c)
<1> DEFINE s == <<Frame(t)>>
<1>1. DOMAIN s = {1} /\ s[1] = Frame(t) /\ IsSeq(s)
  BY DEF IsSeq
<1>2. /\ s[1].task = t /\ s[1].calls = Calls(t)
      /\ IsSeq(s[1].args) /\ DOMAIN s[1].args = {}
  BY <1>1, NewFrame
<1> HIDE DEF s
<1>3. \A k \in DOMAIN Calls(t) : Calls(t)[k].op # "func"
  BY CallsMade
<1>4. FrameOK(s, 1) /\ PlacesOK(s, 1, c)
  BY <1>2, <1>3 DEF FrameOK, PlacesOK
<1> QED BY <1>1, <1>4 DEF StackOK, s

(***************************************************************************)
(* The ways a handler ends keep the invariant.                             *)
(***************************************************************************)
\* The invariant, after a step that leaves the tree.
LEMMA After ==
  ASSUME IInv, tree' = tree, decl' \in Nat \ {0}, outcome' \in Outcomes \cup {"running"},
         IsSeq(functions'), IsSeq(globals'), IsSeq(locals'), at' = Len(functions'),
         Extends(code, code'), StackOK(stack', code'),
         \A i \in DOMAIN locals' : IsPlace(code', locals'[i].slot),
         \A i \in Len(code) + 1 .. Len(code') : Reads(code', i),
         \A f \in DOMAIN functions' : HasReturn(f)' \/ (f = at' /\ InBody')
  PROVE  IInv'
<1>1. \A i \in DOMAIN code' : Reads(code', i)
  BY ReadsStay DEF IInv, SlotsAreFilled
<1>2. StackOK(stack, code)'
  BY DEF StackOK, FrameOK, PlacesOK, IsPlace, Filled, Node, IsSeq, Lvalue, Task
<1>3. GeneratorOK'
  <2>1. \A i \in DOMAIN stack' : FrameOK(stack, i)'
    BY <1>2 DEF StackOK
  <2>2. TreeOK(tree)' /\ IsSeq(code')
    <3>1. TreeOK(tree)
      BY DEF IInv, GeneratorOK
    <3>2. TreeOK(tree')
      BY <3>1
    <3> QED BY <3>2 DEF TreeOK, IsSeq, Extends
  <2>3. IsSeq(stack')
    BY DEF StackOK
  <2> QED BY <2>1, <2>2, <2>3 DEF GeneratorOK, IsSeq
<1>4. SlotsAreFilled'
  BY <1>1 DEF SlotsAreFilled, Reads, IsPlace, Filled
<1>5. (\A i \in DOMAIN locals : IsPlace(code, locals[i].slot))'
  BY DEF IsPlace, Filled
<1> QED BY <1>2, <1>3, <1>4, <1>5 DEF IInv

\* What the invariant says of the running activation.
LEMMA RunningFrame ==
  ASSUME IInv, Running
  PROVE  /\ Len(stack) \in Nat \ {0} /\ DOMAIN stack = 1 .. Len(stack)
         /\ FrameOK(stack, Len(stack)) /\ PlacesOK(stack, Len(stack), code)
         /\ IsSeq(Args)
BY TopOfStack DEF IInv, Running, FrameOK, Args, Top

\* The same code is an extension of itself.
LEMMA SameCode ==
  ASSUME IInv PROVE Extends(code, code)
BY SeqIndices DEF IInv, GeneratorOK, Extends

\* Where no function's body is over, the ones that had their return have it.
LEMMA ReturnsStay ==
  ASSUME IInv, UNCHANGED <<functions, at>>, Extends(code, code'),
         stack' # <<>> => stack'[1].task = stack[1].task,
         InBody => HasReturn(at)' \/ stack' # <<>>
  PROVE  \A f \in DOMAIN functions' : HasReturn(f)' \/ (f = at' /\ InBody')
<1> SUFFICES ASSUME NEW f \in DOMAIN functions
             PROVE  HasReturn(f)' \/ (f = at /\ InBody')
  OBVIOUS
<1>1. CASE HasReturn(f)
  <2>1. PICK i \in DOMAIN code : code[i].fn = f /\ code[i].op \in Terminators
    BY <1>1 DEF HasReturn
  <2>2. i \in DOMAIN code' /\ code'[i] = code[i]
    BY SeqIndices DEF Extends
  <2> QED BY <2>1, <2>2 DEF HasReturn
<1>2. CASE f = at /\ InBody
  BY <1>2 DEF InBody
<1> QED BY <1>1, <1>2 DEF IInv

\* The stack is empty after the answer of the only activation alone.
LEMMA AnsweredLast ==
  ASSUME IInv, Running, NEW v, Answered(v) = <<>>
  PROVE  Len(stack) = 1
<1> SUFFICES ASSUME Len(stack) # 1 PROVE FALSE
  OBVIOUS
<1>1. Len(stack) - 1 \in 1 .. Len(stack) - 1 /\ stack # <<>>
  BY RunningFrame
<1>2. DOMAIN Answered(v) = 1 .. Len(stack) - 1
  BY <1>1, RunningFrame, FrontSeq, SeqIndices, ExceptSeqOf
     DEF Answered, Below, IInv, GeneratorOK
<1>3. DOMAIN <<>> = {}
  OBVIOUS
<1> QED BY <1>1, <1>2, <1>3

\* The program stops.
LEMMA StopKeeps ==
  ASSUME IInv, Running, NEW how \in Outcomes, Stop(how)
  PROVE  IInv'
<1>1. UNCHANGED <<tree, functions, globals, code, at, locals, stack, decl>> /\ outcome' = how
  BY DEF Stop, output
<1>2. StackOK(stack', code')
  BY <1>1 DEF IInv
<1>3. \A f \in DOMAIN functions' : HasReturn(f)' \/ (f = at' /\ InBody')
  BY <1>1, SameCode, ReturnsStay DEF InBody
<1>4. /\ decl \in Nat \ {0} /\ IsSeq(functions) /\ IsSeq(globals) /\ IsSeq(locals)
      /\ at = Len(functions) /\ \A i \in DOMAIN locals : IsPlace(code, locals[i].slot)
  BY DEF IInv, GeneratorOK
<1>5. \A i \in Len(code) + 1 .. Len(code') : Reads(code', i)
  BY <1>1, SameCode, SeqIndices DEF Extends
<1> QED BY <1>1, <1>2, <1>3, <1>4, <1>5, SameCode, After

\* A handler that answers, and adds no code.
LEMMA AnswerKeeps ==
  ASSUME IInv, Running, NEW v,
         Top.task.op = "lvalue" => IsPlace(code, v),
         Top.task.op = "body" => HasReturn(at),
         stack' = Answered(v), IsSeq(globals'),
         UNCHANGED <<tree, functions, code, at, locals, decl, outcome>>
  PROVE  IInv'
<1>1. StackOK(stack', code') /\ (stack' # <<>> => Len(stack) > 1 /\ stack'[1].task = stack[1].task)
  BY SameCode, Answering DEF IInv, Running
<1>2. InBody => HasReturn(at)' \/ stack' # <<>>
  <2>1. HasReturn(at) => HasReturn(at)'
    BY DEF HasReturn
  <2> QED BY <2>1, AnsweredLast DEF InBody, Top
<1>3. \A f \in DOMAIN functions' : HasReturn(f)' \/ (f = at' /\ InBody')
  BY <1>1, <1>2, SameCode, ReturnsStay
<1>4. /\ decl \in Nat \ {0} /\ outcome \in Outcomes \cup {"running"}
      /\ IsSeq(functions) /\ IsSeq(locals) /\ at = Len(functions)
      /\ \A i \in DOMAIN locals : IsPlace(code, locals[i].slot)
  BY DEF IInv, GeneratorOK
<1>5. \A i \in Len(code) + 1 .. Len(code') : Reads(code', i)
  BY SameCode, SeqIndices DEF Extends
<1> QED BY <1>1, <1>3, <1>4, <1>5, SameCode, After

\* A handler that adds an instruction and answers with its result.
LEMMA EmitKeeps ==
  ASSUME IInv, Running, NEW inst, Emit(inst),
         inst.op \in {"load", "gep"} => IsPlace(code, inst.args[1]),
         Top.task.op = "lvalue" => inst.op = "gep",
         Top.task.op = "body" => inst.fn = at /\ inst.op \in Terminators
  PROVE  IInv'
<1>1. CASE at = 0
  <2>1. Stop("misuse") /\ "misuse" \in Outcomes
    BY <1>1 DEF Emit, Outcomes
  <2> QED BY <2>1, StopKeeps
<1>2. CASE at # 0
  <2> DEFINE n == Len(code) + 1
             r == Result(inst.type, n)
  <2>1. /\ code' = Append(code, inst) /\ stack' = Answered(r)
        /\ UNCHANGED <<tree, functions, globals, at, locals, decl, outcome>>
    BY <1>2 DEF Emit
  <2>2. /\ IsSeq(code') /\ Len(code') = n /\ DOMAIN code' = 1 .. n /\ n \in Nat \ {0}
        /\ code'[n] = inst /\ Extends(code, code') /\ DOMAIN code = 1 .. n - 1
    BY <2>1, AppendSeq, SeqIndices DEF IInv, GeneratorOK, Extends
  <2>3. r.k = "INST" /\ r.id = n
    BY DEF Result, Operand
  <2> HIDE DEF n, r
  <2>4. Top.task.op = "lvalue" => IsPlace(code', r)
    BY <2>2, <2>3 DEF IsPlace
  <2>5. StackOK(stack', code') /\ (stack' # <<>> => Len(stack) > 1 /\ stack'[1].task = stack[1].task)
    BY <2>1, <2>2, <2>4, Answering DEF IInv, Running
  <2>6. InBody => HasReturn(at)' \/ stack' # <<>>
    <3>1. Top.task.op = "body" => HasReturn(at)'
      BY <2>1, <2>2 DEF HasReturn
    <3> QED BY <2>1, <3>1, AnsweredLast DEF InBody, Top
  <2>7. \A f \in DOMAIN functions' : HasReturn(f)' \/ (f = at' /\ InBody')
    BY <2>1, <2>2, <2>5, <2>6, ReturnsStay
  <2>8. Reads(code', n)
    <3> SUFFICES ASSUME inst.op \in {"load", "gep"}
                 PROVE  IsPlace(code', inst.args[1]) /\ (inst.args[1].k = "INST" => inst.args[1].id < n)
      BY <2>2 DEF Reads
    <3>1. IsPlace(code, inst.args[1])
      OBVIOUS
    <3>2. inst.args[1].k = "INST" => inst.args[1].id \in DOMAIN code
      BY <3>1 DEF IsPlace
    <3> QED BY <2>2, <3>1, <3>2, PlaceStays
  <2>9. \A i \in Len(code) + 1 .. Len(code') : Reads(code', i)
    BY <2>2, <2>8 DEF n
  <2>10. /\ decl' \in Nat \ {0} /\ outcome' \in Outcomes \cup {"running"}
         /\ IsSeq(functions') /\ IsSeq(globals') /\ IsSeq(locals') /\ at' = Len(functions')
    BY <2>1 DEF IInv, GeneratorOK, IsSeq
  <2>11. \A i \in DOMAIN locals' : IsPlace(code', locals'[i].slot)
    BY <2>1, <2>2, PlaceStays DEF IInv
  <2> QED BY <2>1, <2>2, <2>5, <2>7, <2>9, <2>10, <2>11, After
<1> QED BY <1>1, <1>2

\* A handler that is asked for no place may answer anything, or stop.
LEMMA ReturnKeeps ==
  ASSUME IInv, Running, Top.task.op \notin {"lvalue", "body"}, NEW v, Return(v)
  PROVE  IInv'
<1>1. IsSeq(globals')
  BY DEF Return, output, IInv, GeneratorOK, IsSeq
<1> QED BY <1>1, AnswerKeeps DEF Return, output

\* An operation emitted, or folded, or refused for want of an operand.
LEMMA ComputeKeeps ==
  ASSUME IInv, Running, Top.task.op \notin {"lvalue", "body"},
         NEW op, op \notin {"load", "gep"}, NEW type, Compute(op, type)
  PROVE  IInv'
<1>1. CASE \E i \in DOMAIN Args : Args[i].k = "NULL"
  BY <1>1, StopKeeps DEF Compute, Outcomes
<1>2. CASE Return(Constant(type, Here))
  BY <1>2, ReturnKeeps
<1>3. CASE Emit(Inst(op, type, Args, 0))
  <2>1. Inst(op, type, Args, 0).op = op
    BY DEF Inst
  <2> QED BY <1>3, <2>1, EmitKeeps
<1> QED BY <1>1, <1>2, <1>3 DEF Compute

(***************************************************************************)
(* llvm_value and codegen_lvalue.                                          *)
(***************************************************************************)
\* The constant of a value.
LEMMA LlvmValueKeeps ==
  ASSUME IInv, LlvmValue PROVE IInv'
<1> DEFINE v == Top.task.val
<1>1. Running /\ Top.task.op \notin {"lvalue", "body"}
  BY DEF LlvmValue, Ready
<1>2. \/ \E c : Return(c)
      \/ \E how \in Outcomes : Stop(how)
      \/ /\ globals' = AddGlobal(".str", PtrT, Null, TRUE)
         /\ stack' = Answered(Constant(PtrT, Here))
         /\ UNCHANGED <<tree, functions, code, at, locals, missing, decl, outcome>>
  BY DEF LlvmValue, Outcomes
<1>3. CASE globals' = AddGlobal(".str", PtrT, Null, TRUE)
           /\ stack' = Answered(Constant(PtrT, Here))
           /\ UNCHANGED <<tree, functions, code, at, locals, missing, decl, outcome>>
  <2>1. IsSeq(globals')
    BY <1>3, AppendSeq DEF AddGlobal, IInv, GeneratorOK
  <2> QED BY <1>1, <1>3, <2>1, AnswerKeeps
<1> QED BY <1>1, <1>2, <1>3, ReturnKeeps, StopKeeps

\* The answer of the only call of a handler that asked for a place.
LEMMA AnswerIsPlace ==
  ASSUME IInv, Running, ~Pending, NEW n, Top.calls = <<Lvalue(n)>>
  PROVE  IsPlace(code, Args[1])
<1>1. IsSeq(Args) /\ Len(Args) \in Nat /\ DOMAIN Args = 1 .. Len(Args)
  BY RunningFrame, SeqIndices
<1>2. Len(Args) + 1 # 1
  BY DEF Pending, Args
<1>3. 1 \in DOMAIN Args
  BY <1>1, <1>2
<1>4. Top.calls[1].op = "lvalue"
  BY DEF Lvalue, Task
<1> QED BY <1>3, <1>4, RunningFrame DEF PlacesOK, Args, Top

\* A name or an access answers with a place.
LEMMA LvalueKeeps ==
  ASSUME IInv, LvalueIdent \/ LvalueAccess \/ LvalueOther
  PROVE  IInv'
<1>1. Running /\ Top.task.op = "lvalue" /\ ~Pending
  BY DEF LvalueIdent, LvalueAccess, LvalueOther, At, Ready
<1>2. CASE \E how \in Outcomes : Stop(how)
  BY <1>1, <1>2, StopKeeps
<1>3. ASSUME NEW v, Return(v), IsPlace(code, v)
      PROVE  IInv'
  <2>1. IsSeq(globals')
    BY <1>3 DEF Return, output, IInv, GeneratorOK, IsSeq
  <2> QED BY <1>1, <1>3, <2>1, AnswerKeeps DEF Return, output
<1>4. CASE LvalueIdent
  <2>1. \A l \in DOMAIN locals : IsPlace(code, locals[l].slot)
    BY DEF IInv
  <2>2. \A g : IsPlace(code, Address(g))
    BY DEF IsPlace, Address, Operand
  <2> QED BY <1>2, <1>3, <1>4, <2>1, <2>2 DEF LvalueIdent, Outcomes
<1>5. CASE LvalueAccess
  <2>1. Top.calls = <<Lvalue(This.kids[1])>>
    BY <1>1, <1>5, RunningFrame DEF LvalueAccess, At, FrameOK, Top, This, Here
  <2>2. IsPlace(code, Args[1])
    BY <1>1, <2>1, AnswerIsPlace
  <2> DEFINE inst == Inst("gep", PtrT, Args, This.data)
  <2>3. inst.op = "gep" /\ inst.args = Args
    BY DEF Inst
  <2>4. CASE Emit(inst)
    BY <1>1, <2>2, <2>3, <2>4, EmitKeeps
  <2> QED BY <1>2, <1>5, <2>4 DEF LvalueAccess, Outcomes
<1>6. CASE LvalueOther
  BY <1>2, <1>6 DEF LvalueOther, Outcomes
<1> QED BY <1>4, <1>5, <1>6

(***************************************************************************)
(* codegen_expr.                                                           *)
(***************************************************************************)
\* The handlers of the expressions.
LEMMA ExprKeeps ==
  ASSUME IInv, CodegenExpr PROVE IInv'
<1>1. Running /\ Top.task.op \notin {"lvalue", "body"}
  BY DEF CodegenExpr, CodegenInner, CodegenCast, CodegenLoad, CodegenBinary, CodegenUnary,
         CodegenFuncCall, CodegenBlock, CodegenReturn, Unimplemented, At, Ready
<1>2. CASE \E how \in Outcomes : Stop(how)
  BY <1>1, <1>2, StopKeeps
<1>3. CASE \E v : Return(v)
  BY <1>1, <1>3, ReturnKeeps
<1>4. ASSUME NEW op, op \notin {"load", "gep"}, NEW type, NEW args, NEW data,
             Emit(Inst(op, type, args, data))
      PROVE  IInv'
  <2>1. Inst(op, type, args, data).op = op
    BY DEF Inst
  <2> QED BY <1>1, <1>4, <2>1, EmitKeeps
<1>5. CASE CodegenInner
  BY <1>2, <1>3, <1>5 DEF CodegenInner, Outcomes
<1>6. CASE CodegenCast
  BY <1>1, <1>2, <1>3, <1>6, ComputeKeeps DEF CodegenCast, Outcomes
<1>7. CASE CodegenLoad
  <2>1. Top.calls = <<Lvalue(Here)>> /\ ~Pending
    BY <1>1, <1>7, RunningFrame DEF CodegenLoad, At, Ready, FrameOK, Top, This, Here
  <2>2. IsPlace(code, Args[1])
    BY <1>1, <2>1, AnswerIsPlace
  <2> DEFINE inst == Inst("load", Simple(This.ty), Args, 0)
  <2>3. inst.op = "load" /\ inst.args = Args
    BY DEF Inst
  <2>4. CASE Emit(inst)
    BY <1>1, <2>2, <2>3, <2>4, EmitKeeps
  <2> QED BY <1>2, <1>7, <2>4 DEF CodegenLoad, Outcomes
<1>8. CASE CodegenBinary
  <2>1. BinaryOp(This.name) \notin {"load", "gep"}
    BY DEF BinaryOp
  <2> QED BY <1>1, <1>2, <1>8, <2>1, ComputeKeeps DEF CodegenBinary, Outcomes
<1>9. CASE CodegenUnary
  BY <1>1, <1>3, <1>9, ComputeKeeps DEF CodegenUnary
<1>10. CASE CodegenFuncCall
  <2> DEFINE f == NamedIn(functions, Callee(Here))
  <2>1. CASE f = 0
    <3>1. IsSeq(globals')
      BY <1>10, <2>1 DEF CodegenFuncCall, IInv, GeneratorOK, IsSeq
    <3> QED BY <1>1, <1>10, <2>1, <3>1, AnswerKeeps DEF CodegenFuncCall
  <2>2. CASE f # 0
    BY <1>2, <1>4, <1>10, <2>2 DEF CodegenFuncCall, Outcomes
  <2> QED BY <2>1, <2>2
<1>11. CASE CodegenBlock
  BY <1>3, <1>11 DEF CodegenBlock
<1>12. CASE CodegenReturn
  BY <1>4, <1>12 DEF CodegenReturn, RetInst
<1>13. CASE Unimplemented
  BY <1>2, <1>13 DEF Unimplemented, Outcomes
<1> QED BY <1>5, <1>6, <1>7, <1>8, <1>9, <1>10, <1>11, <1>12, <1>13 DEF CodegenExpr

(***************************************************************************)
(* codegen_var and codegen_func_decl.                                      *)
(***************************************************************************)
\* What Slots appends are slots with a store each, and nothing that reads.
LEMMA SlotsFill ==
  ASSUME IsSeq(code), NEW f, NEW ts, IsSeq(ts), NEW inits
  PROVE  LET d == code \o Slots(f, ts, inits)
         IN  /\ IsSeq(d) /\ Extends(code, d)
             /\ \A i \in 1 .. Len(ts) : IsPlace(d, Result(PtrT, Len(code) + 2 * i - 1))
             /\ \A i \in Len(code) + 1 .. Len(d) : Reads(d, i)
<1> DEFINE s == Slots(f, ts, inits)
           d == code \o s
           m == Len(code)
           n == Len(ts)
<1>1. m \in Nat /\ n \in Nat /\ DOMAIN code = 1 .. m
  BY SeqIndices
<1>2. 2 * n \in Nat
  BY <1>1
<1>3. s = [j \in 1 .. 2 * n |-> s[j]]
  BY DEF Slots
<1>4. ASSUME NEW j \in 1 .. 2 * n
      PROVE  /\ j % 2 = 1 => s[j].op = "alloca"
             /\ j % 2 # 1 => s[j].op = "store" /\ s[j].args[2] = Result(PtrT, m + j - 1)
  BY DEF Slots, Inst
<1> HIDE DEF s
<1>5. IsSeq(s) /\ Len(s) = 2 * n
  BY <1>2, <1>3, FunctionSeq
<1>6. /\ IsSeq(d) /\ Len(d) = m + 2 * n /\ DOMAIN d = 1 .. m + 2 * n
      /\ \A i \in 1 .. m : d[i] = code[i]
      /\ \A j \in 1 .. 2 * n : d[m + j] = s[j]
  <2>1. /\ IsSeq(d) /\ Len(d) = m + Len(s) /\ DOMAIN d = 1 .. m + Len(s)
        /\ \A i \in 1 .. m : d[i] = code[i]
        /\ \A j \in 1 .. Len(s) : d[m + j] = s[j]
    <3>1. d = code \o s /\ m = Len(code)
      OBVIOUS
    <3> HIDE DEF d, m, n
    <3>2. IsSeq(d) /\ Len(d) = m + Len(s) /\ DOMAIN d = 1 .. m + Len(s)
      BY <1>5, <3>1, ConcatSeq
    <3>3. \A i \in 1 .. m : d[i] = code[i]
      BY <1>5, <3>1, ConcatSeq
    <3>4. \A j \in 1 .. Len(s) : d[m + j] = s[j]
      BY <1>5, <3>1, ConcatSeq
    <3> QED BY <3>2, <3>3, <3>4
  <2> HIDE DEF d, m, n
  <2> QED BY <1>5, <2>1
<1> HIDE DEF d, m, n
<1>7. Extends(code, d)
  BY <1>1, <1>2, <1>6 DEF Extends, m
<1>8. ASSUME NEW i \in 1 .. n
      PROVE  IsPlace(d, Result(PtrT, m + 2 * i - 1))
  <2> DEFINE a == 2 * i - 1
             o == Result(PtrT, m + a)
  <2>1. /\ a \in 1 .. 2 * n /\ a + 1 \in 1 .. 2 * n /\ a % 2 = 1 /\ (a + 1) % 2 # 1
        /\ m + a \in Int /\ m + a + 1 = m + (a + 1) /\ m + (a + 1) - 1 = m + a
        /\ m + a \in 1 .. m + 2 * n /\ m + a + 1 \in 1 .. m + 2 * n
        /\ m + 2 * i - 1 = m + a
    BY <1>1
  <2> HIDE DEF a
  <2>2. d[m + a].op = "alloca"
    BY <1>4, <1>6, <2>1
  <2>3. d[m + a + 1].op = "store" /\ d[m + a + 1].args[2] = o
    <3>1. d[m + a + 1] = s[a + 1]
      BY <1>6, <2>1
    <3>2. s[a + 1].op = "store" /\ s[a + 1].args[2] = Result(PtrT, m + (a + 1) - 1)
      BY <1>4, <2>1
    <3> QED BY <2>1, <3>1, <3>2
  <2>4. Filled(d, m + a)
    BY <1>6, <2>1, <2>2, <2>3 DEF Filled
  <2>5. o.k = "INST" /\ o.id = m + a
    BY DEF Result, Operand
  <2>6. IsPlace(d, o)
    BY <1>6, <2>1, <2>4, <2>5 DEF IsPlace
  <2> QED BY <2>1, <2>6
<1>9. ASSUME NEW i \in m + 1 .. Len(d)
      PROVE  Reads(d, i)
  <2> DEFINE j == i - m
  <2>1. j \in 1 .. 2 * n /\ i = m + j
    BY <1>1, <1>6
  <2> HIDE DEF j
  <2>2. d[i].op \in {"alloca", "store"}
    BY <1>4, <1>6, <2>1
  <2> QED BY <2>2 DEF Reads
<1> QED BY <1>6, <1>7, <1>8, <1>9 DEF d, m, n, s

\* A local's slot is made, filled and added to the locals.
LEMMA LocalVarKeeps ==
  ASSUME IInv, LocalVar PROVE IInv'
<1>1. Running /\ Top.task.op = "stmt"
  BY DEF LocalVar, At, Ready
<1>2. CASE Return(Null) \/ \E how \in Outcomes : Stop(how)
  BY <1>1, <1>2, ReturnKeeps, StopKeeps
<1> DEFINE ts   == <<This.ty>>
           slot == Result(PtrT, Len(code) + 1)
           new  == Local(This.name, slot, Here)
<1>3. CASE /\ code' = code \o Slots(at, ts, <<Initial>>)
           /\ locals' = Append(locals, new)
           /\ stack' = Answered(slot)
           /\ UNCHANGED <<tree, functions, globals, at, missing, decl, outcome>>
  <2>1. /\ IsSeq(code) /\ IsSeq(locals) /\ IsSeq(functions) /\ IsSeq(globals)
        /\ decl \in Nat \ {0} /\ outcome \in Outcomes \cup {"running"} /\ at = Len(functions)
        /\ \A i \in DOMAIN locals : IsPlace(code, locals[i].slot)
    BY DEF IInv, GeneratorOK
  <2>2. IsSeq(ts) /\ Len(ts) = 1
    BY DEF IsSeq
  <2> HIDE DEF ts
  <2>3. /\ Extends(code, code') /\ \A i \in Len(code) + 1 .. Len(code') : Reads(code', i)
        /\ \A i \in 1 .. Len(ts) : IsPlace(code', Result(PtrT, Len(code) + 2 * i - 1))
    BY <1>3, <2>1, <2>2, SlotsFill
  <2>4. IsPlace(code', slot)
    <3>1. Len(code) + 2 * 1 - 1 = Len(code) + 1 /\ 1 \in 1 .. Len(ts)
      BY <2>1, <2>2, SeqIndices
    <3> QED BY <2>3, <3>1
  <2>5. StackOK(stack', code') /\ (stack' # <<>> => Len(stack) > 1 /\ stack'[1].task = stack[1].task)
    BY <1>1, <1>3, <2>3, Answering DEF IInv, Running
  <2>6. new.slot = slot
    BY DEF Local
  <2> HIDE DEF new, slot
  <2>7. IsSeq(locals') /\ \A i \in DOMAIN locals' : IsPlace(code', locals'[i].slot)
    <3>1. /\ IsSeq(locals') /\ DOMAIN locals' = 1 .. Len(locals) + 1
          /\ \A i \in 1 .. Len(locals) : locals'[i] = locals[i]
          /\ locals'[Len(locals) + 1] = new
      BY <1>3, <2>1, AppendSeq
    <3>2. Len(locals) \in Nat /\ DOMAIN locals = 1 .. Len(locals)
      BY <2>1, SeqIndices
    <3> QED BY <2>1, <2>3, <2>4, <2>6, <3>1, <3>2, PlaceStays
  <2>8. InBody => stack' # <<>>
    BY <1>1, <1>3, AnsweredLast DEF InBody, Top
  <2>9. \A f \in DOMAIN functions' : HasReturn(f)' \/ (f = at' /\ InBody')
    BY <1>3, <2>3, <2>5, <2>8, ReturnsStay
  <2> QED BY <1>3, <2>1, <2>3, <2>5, <2>7, <2>9, After
<1> QED BY <1>2, <1>3 DEF LocalVar, Outcomes

\* A global is added, or not.
LEMMA GlobalVarKeeps ==
  ASSUME IInv, GlobalVar PROVE IInv'
<1>1. Running /\ Top.task.op = "global"
  BY DEF GlobalVar, At, Ready
<1>2. CASE Return(Null) \/ \E how \in Outcomes : Stop(how)
  BY <1>1, <1>2, ReturnKeeps, StopKeeps
<1>3. CASE /\ globals' = AddGlobal(This.name, Simple(This.ty), Initial, This.const)
           /\ stack' = Answered(Address(Len(globals) + 1))
           /\ UNCHANGED <<tree, functions, code, at, locals, missing, decl, outcome>>
  <2>1. IsSeq(globals')
    BY <1>3, AppendSeq DEF AddGlobal, IInv, GeneratorOK
  <2> QED BY <1>1, <1>3, <2>1, AnswerKeeps
<1> QED BY <1>2, <1>3 DEF GlobalVar, Outcomes

\* The activation of a function declaration is the only one.
LEMMA FunctionFirst ==
  ASSUME IInv, Running, Top.task.op = "func"
  PROVE  ~InBody /\ IsSeq(This.params)
<1>1. FrameOK(stack, Len(stack)) /\ Len(stack) \in Nat \ {0}
  BY RunningFrame
<1>2. Len(stack) = 1
  <2>1. PICK n \in Nat \ {0} : n = Len(stack)
    BY <1>1
  <2>2. ~(n > 1)
    BY <1>1, <2>1 DEF FrameOK, Top
  <2> QED BY <2>1, <2>2
<1>3. PICK d \in DOMAIN tree.decls : Here = tree.decls[d]
  BY <1>1 DEF FrameOK, Top, Here
<1>4. IsSeq(tree.node[tree.decls[d]].params)
  BY <1>3 DEF IInv, GeneratorOK, TreeOK
<1> QED BY <1>2, <1>3, <1>4 DEF InBody, Top, This, Node

\* A function is added: its parameters' slots are filled, and its body is next.
LEMMA OpenFuncDeclKeeps ==
  ASSUME IInv, OpenFuncDecl PROVE IInv'
<1>1. Running /\ Top.task.op = "func"
  BY DEF OpenFuncDecl, At, Ready
<1>2. CASE \E how \in Outcomes : Stop(how)
  BY <1>1, <1>2, StopKeeps
<1> DEFINE n     == Len(This.params)
           slots == [i \in DOMAIN This.params |-> SlotType(This.params[i].type)]
           sig   == [i \in DOMAIN This.params |-> SignatureType(This.params[i].type)]
           slot(i) == Result(PtrT, Len(code) + 2 * i - 1)
           new   == [i \in DOMAIN slots |-> Local(This.params[i].name, slot(i), Here)]
           body  == Task("body", Here, None)
           fun   == [name |-> This.name, node |-> Here, ret |-> Simple(This.ty),
                     params |-> [i \in DOMAIN sig |-> Simple(sig[i])]]
           inits == [i \in DOMAIN sig |-> Param(Simple(sig[i]), i)]
           f     == Len(functions) + 1
<1>3. CASE /\ functions' = Append(functions, fun) /\ at' = f
           /\ code' = code \o Slots(f, slots, inits)
           /\ locals' = locals \o new
           /\ stack' = <<Frame(body)>>
           /\ UNCHANGED <<tree, globals, missing, decl, outcome>>
  <2>1. /\ IsSeq(code) /\ IsSeq(locals) /\ IsSeq(functions) /\ IsSeq(globals)
        /\ decl \in Nat \ {0} /\ outcome \in Outcomes \cup {"running"} /\ at = Len(functions)
        /\ \A i \in DOMAIN locals : IsPlace(code, locals[i].slot)
    BY DEF IInv, GeneratorOK
  <2>2. ~InBody /\ n \in Nat /\ DOMAIN This.params = 1 .. n
    BY <1>1, FunctionFirst, SeqIndices
  <2>3. IsSeq(slots) /\ Len(slots) = n /\ IsSeq(new) /\ Len(new) = n
    <3>1. slots = [i \in 1 .. n |-> slots[i]] /\ new = [i \in 1 .. n |-> new[i]]
      BY <2>2
    <3> HIDE DEF slots, new, n
    <3> QED BY <2>2, <3>1, FunctionSeq
  <2>4. \A i \in 1 .. n : new[i].slot = slot(i)
    BY <2>2 DEF Local
  <2> HIDE DEF slots, sig, new, fun, inits, n
  <2>5. /\ Extends(code, code') /\ \A i \in Len(code) + 1 .. Len(code') : Reads(code', i)
        /\ \A i \in 1 .. n : IsPlace(code', slot(i))
    BY <1>3, <2>1, <2>3, SlotsFill
  <2> HIDE DEF slot
  <2>6. body.op = "body"
    BY DEF Task
  <2> HIDE DEF body
  <2>7. StackOK(stack', code')
    BY <1>3, <2>6, FirstFrame
  <2>8. IsSeq(locals') /\ \A i \in DOMAIN locals' : IsPlace(code', locals'[i].slot)
    <3>1. /\ IsSeq(locals') /\ DOMAIN locals' = 1 .. Len(locals) + n
          /\ \A i \in 1 .. Len(locals) : locals'[i] = locals[i]
          /\ \A j \in 1 .. n : locals'[Len(locals) + j] = new[j]
      <4>1. locals' = locals \o new /\ Len(new) = n
        BY <1>3, <2>3
      <4> HIDE DEF f
      <4>2. IsSeq(locals') /\ DOMAIN locals' = 1 .. Len(locals) + n
        <5>1. IsSeq(locals')
          BY <2>1, <2>3, <4>1, ConcatSeq
        <5>2. DOMAIN locals' = 1 .. Len(locals) + Len(new)
          BY <2>1, <2>3, <4>1, ConcatSeq
        <5> QED BY <4>1, <5>1, <5>2
      <4>3. \A i \in 1 .. Len(locals) : locals'[i] = locals[i]
        BY <2>1, <2>3, <4>1, ConcatSeq
      <4>4. \A j \in 1 .. n : locals'[Len(locals) + j] = new[j]
        <5>1. \A j \in 1 .. Len(new) : locals'[Len(locals) + j] = new[j]
          BY <2>1, <2>3, <4>1, ConcatSeq
        <5> QED BY <4>1, <5>1
      <4> QED BY <4>2, <4>3, <4>4
    <3>2. Len(locals) \in Nat /\ DOMAIN locals = 1 .. Len(locals)
      BY <2>1, SeqIndices
    <3> SUFFICES ASSUME NEW i \in DOMAIN locals' PROVE IsPlace(code', locals'[i].slot)
      BY <3>1
    <3>3. CASE i \in 1 .. Len(locals)
      BY <2>1, <2>5, <3>1, <3>2, <3>3, PlaceStays
    <3>4. CASE i \notin 1 .. Len(locals)
      <4>1. PICK j \in 1 .. n : i = Len(locals) + j
        <5>1. i - Len(locals) \in 1 .. n /\ i = Len(locals) + (i - Len(locals))
          BY <2>2, <3>1, <3>2, <3>4
        <5> QED BY <5>1
      <4> QED BY <2>4, <2>5, <3>1, <4>1
    <3> QED BY <3>3, <3>4
  <2>9. /\ IsSeq(functions') /\ Len(functions') = f /\ DOMAIN functions' = 1 .. f
        /\ DOMAIN functions = 1 .. Len(functions) /\ Len(functions) \in Nat
    BY <1>3, <2>1, AppendSeq, SeqIndices
  <2>10. InBody'
    <3>1. stack' # <<>> /\ stack'[1].task = body
      BY <1>3, NewFrame
    <3> QED BY <2>6, <3>1 DEF InBody
  <2>11. \A g \in DOMAIN functions' : HasReturn(g)' \/ (g = at' /\ InBody')
    <3> SUFFICES ASSUME NEW g \in DOMAIN functions', g # f PROVE HasReturn(g)'
      BY <1>3, <2>10
    <3>1. HasReturn(g)
      BY <2>2, <2>9 DEF IInv
    <3>2. PICK i \in DOMAIN code : code[i].fn = g /\ code[i].op \in Terminators
      BY <3>1 DEF HasReturn
    <3>3. i \in DOMAIN code' /\ code'[i] = code[i]
      BY <2>5, SeqIndices DEF Extends
    <3> QED BY <3>2, <3>3 DEF HasReturn
  <2> QED BY <1>3, <2>1, <2>5, <2>7, <2>8, <2>9, <2>11, After
<1> QED BY <1>2, <1>3 DEF OpenFuncDecl, Outcomes, BuilderAt

\* The function's block ends in a return, or one is added.
LEMMA CloseFuncDeclKeeps ==
  ASSUME IInv, CloseFuncDecl PROVE IInv'
<1>1. Running /\ Top.task.op = "body"
  BY DEF CloseFuncDecl, At, Ready
<1>2. CASE Terminated(at) /\ Return(Null)
  <2>1. HasReturn(at)
    BY <1>2 DEF Terminated, HasReturn
  <2>2. IsSeq(globals')
    BY <1>2 DEF Return, output, IInv, GeneratorOK, IsSeq
  <2> QED BY <1>1, <1>2, <2>1, <2>2, AnswerKeeps DEF Return, output
<1>3. CASE Emit(RetInst(DefaultReturn))
  <2> DEFINE inst == RetInst(DefaultReturn)
  <2>1. inst.fn = at /\ inst.op \in Terminators
    BY DEF RetInst, Inst, Terminators
  <2> HIDE DEF inst
  <2>2. inst.op \notin {"load", "gep"}
    BY <2>1 DEF Terminators
  <2>3. Emit(inst)
    BY <1>3 DEF inst
  <2> QED BY <1>1, <2>1, <2>2, <2>3, EmitKeeps
<1> QED BY <1>2, <1>3 DEF CloseFuncDecl

(***************************************************************************)
(* codegen(), and every step.                                              *)
(***************************************************************************)
\* The handler of the next declaration begins.
LEMMA CodegenGlobalNodeKeeps ==
  ASSUME IInv, CodegenGlobalNode PROVE IInv'
<1> DEFINE n == tree.decls[decl]
           t == Task(IF Node(n).kind = "FUNC_DECL" THEN "func" ELSE "global", n, None)
<1>1. /\ stack = <<>> /\ decl <= Len(tree.decls) /\ stack' = <<Frame(t)>> /\ decl' = decl + 1
      /\ UNCHANGED <<tree, functions, globals, code, at, locals, outcome>>
  BY DEF CodegenGlobalNode, NextDecl, output
<1>2. /\ IsSeq(tree.decls) /\ IsSeq(functions) /\ IsSeq(globals) /\ IsSeq(locals)
      /\ decl \in Nat \ {0} /\ outcome \in Outcomes \cup {"running"} /\ at = Len(functions)
      /\ \A i \in DOMAIN locals : IsPlace(code, locals[i].slot)
  BY DEF IInv, GeneratorOK, TreeOK
<1>3. decl \in DOMAIN tree.decls
  BY <1>1, <1>2, SeqIndices
<1>4. t.op \in {"func", "global", "body"} /\ \E d \in DOMAIN tree.decls : t.node = tree.decls[d]
  BY <1>3 DEF Task
<1> HIDE DEF t
<1>5. StackOK(stack', code')
  BY <1>1, <1>4, FirstFrame
<1>6. \A f \in DOMAIN functions' : HasReturn(f)' \/ (f = at' /\ InBody')
  BY <1>1 DEF IInv, InBody, HasReturn
<1>7. \A i \in Len(code) + 1 .. Len(code') : Reads(code', i)
  BY <1>1, SameCode, SeqIndices DEF Extends
<1>8. Extends(code, code')
  BY <1>1, SameCode
<1>9. decl' \in Nat \ {0}
  BY <1>1, <1>2
<1> QED BY <1>1, <1>2, <1>5, <1>6, <1>7, <1>8, <1>9, After

\* The loop over the declarations ends, or nothing happens.
LEMMA GeneratedKeeps ==
  ASSUME IInv, Generated \/ UNCHANGED vars PROVE IInv'
<1>1. /\ UNCHANGED <<tree, functions, globals, code, at, locals, stack, decl>>
      /\ outcome' \in {"ok", outcome}
  BY DEF Generated, output, vars
<1>2. /\ IsSeq(functions) /\ IsSeq(globals) /\ IsSeq(locals) /\ StackOK(stack, code)
      /\ decl \in Nat \ {0} /\ outcome \in Outcomes \cup {"running"} /\ at = Len(functions)
      /\ \A i \in DOMAIN locals : IsPlace(code, locals[i].slot)
  BY DEF IInv, GeneratorOK
<1>3. outcome' \in Outcomes \cup {"running"}
  BY <1>1, <1>2 DEF Outcomes
<1>4. \A f \in DOMAIN functions' : HasReturn(f)' \/ (f = at' /\ InBody')
  BY <1>1 DEF IInv, InBody, HasReturn
<1>5. \A i \in Len(code) + 1 .. Len(code') : Reads(code', i)
  BY <1>1, SameCode, SeqIndices DEF Extends
<1>6. Extends(code, code')
  BY <1>1, SameCode
<1> QED BY <1>1, <1>2, <1>3, <1>4, <1>5, <1>6, After

\* A handler makes its next call.
LEMMA VisitKeeps ==
  ASSUME IInv, Visit PROVE IInv'
<1>1. /\ Running /\ Pending /\ stack' = Append(stack, Frame(Top.calls[Len(Top.args) + 1]))
      /\ UNCHANGED <<tree, functions, globals, code, at, locals, decl, outcome>>
  BY DEF Visit, output
<1>2. StackOK(stack', code) /\ stack' # <<>> /\ stack'[1].task = stack[1].task
  BY <1>1, Visiting DEF IInv
<1>3. /\ IsSeq(functions) /\ IsSeq(globals) /\ IsSeq(locals)
      /\ decl \in Nat \ {0} /\ outcome \in Outcomes \cup {"running"} /\ at = Len(functions)
      /\ \A i \in DOMAIN locals : IsPlace(code, locals[i].slot)
  BY DEF IInv, GeneratorOK
<1>4. Extends(code, code')
  BY <1>1, SameCode
<1>5. \A f \in DOMAIN functions' : HasReturn(f)' \/ (f = at' /\ InBody')
  BY <1>1, <1>2, <1>4, ReturnsStay
<1>6. \A i \in Len(code) + 1 .. Len(code') : Reads(code', i)
  BY <1>1, SameCode, SeqIndices DEF Extends
<1> QED BY <1>1, <1>2, <1>3, <1>4, <1>5, <1>6, After

\* Nothing is generated at first.
LEMMA InitInvariant ==
  ASSUME NEW t, TreeOK(t), InitWith(t)
  PROVE  IInv
<1>1. /\ tree = t /\ functions = <<>> /\ globals = <<>> /\ code = <<>> /\ locals = <<>>
      /\ at = 0 /\ stack = <<>> /\ decl = 1 /\ outcome = "running"
  BY DEF InitWith
<1>2. IsSeq(<<>>) /\ DOMAIN <<>> = {} /\ Len(<<>>) = 0
  BY EmptySeq DEF IsSeq
<1>3. TreeOK(tree)
  BY <1>1
<1>4. GeneratorOK
  BY <1>1, <1>2, <1>3 DEF GeneratorOK
<1> QED BY <1>1, <1>2, <1>4 DEF IInv, StackOK, SlotsAreFilled

\* Every step keeps the invariant.
LEMMA NextInvariant ==
  ASSUME IInv, [Next]_vars PROVE IInv'
<1>1. CASE CodegenGlobalNode
  BY <1>1, CodegenGlobalNodeKeeps
<1>2. CASE Generated
  BY <1>2, GeneratedKeeps
<1>3. CASE Visit
  BY <1>3, VisitKeeps
<1>4. CASE CodegenExpr
  BY <1>4, ExprKeeps
<1>5. CASE CodegenPlace
  BY <1>5, LlvmValueKeeps, LvalueKeeps DEF CodegenPlace
<1>6. CASE CodegenDecl
  BY <1>6, LocalVarKeeps, GlobalVarKeeps, OpenFuncDeclKeeps, CloseFuncDeclKeeps
     DEF CodegenDecl
<1>7. CASE UNCHANGED vars
  BY <1>7, GeneratedKeeps
<1> QED BY <1>1, <1>2, <1>3, <1>4, <1>5, <1>6, <1>7 DEF Next

\* The invariant holds in every state.
LEMMA Invariance ==
  ASSUME \A t \in Trees : TreeOK(t)
  PROVE  Spec => []IInv
<1>1. Init => IInv
  BY InitInvariant DEF Init
<1>2. IInv /\ [Next]_vars => IInv'
  BY NextInvariant
<1> QED BY <1>1, <1>2, PTL DEF Spec

\* Whatever the trees, each activation answers the call that made it, and the
\* builder is in the block of the function that codegen_func_decl added last.
THEOREM WellFormed ==
  ASSUME \A t \in Trees : TreeOK(t)
  PROVE  Spec => []GeneratorOK
<1>1. IInv => GeneratorOK
  BY DEF IInv
<1> QED BY <1>1, Invariance, PTL

\* Whatever the trees, what codegen_ident and codegen_access load is a global
\* or a slot into which codegen_var or codegen_func_decl stored a value.
THEOREM LoadsAreFilled ==
  ASSUME \A t \in Trees : TreeOK(t)
  PROVE  Spec => []SlotsAreFilled
<1>1. IInv => SlotsAreFilled
  BY DEF IInv
<1> QED BY <1>1, Invariance, PTL

\* The generator comes to its end with no activation left.
EndsIdle == outcome = "ok" => stack = <<>>

LEMMA EndsIdleKept == ASSUME EndsIdle, [Next]_vars PROVE EndsIdle'
<1>1. \A how : Stop(how) => outcome' = how
  BY DEF Stop
<1>2. \A v : Return(v) => UNCHANGED outcome
  BY DEF Return
<1>3. \A inst : Emit(inst) => outcome' \in {outcome, "misuse"}
  BY <1>1 DEF Emit
<1>4. \A op, type : Compute(op, type) => outcome' \in {outcome, "misuse"}
  BY <1>1, <1>2, <1>3 DEF Compute
<1> DEFINE Ends == {outcome, "misuse", "unreachable", "unimplemented"}
<1>5. CodegenExpr => outcome = "running" /\ outcome' \in Ends
  BY <1>1, <1>2, <1>3, <1>4
     DEF CodegenExpr, CodegenInner, CodegenCast, CodegenLoad, CodegenBinary, CodegenUnary,
         CodegenFuncCall, CodegenBlock, CodegenReturn, Unimplemented, At, Ready, Running
<1>6. CodegenPlace => outcome = "running" /\ outcome' \in Ends
  BY <1>1, <1>2, <1>3
     DEF CodegenPlace, LlvmValue, LvalueIdent, LvalueAccess, LvalueOther, At, Ready, Running
<1>7. CodegenDecl => outcome = "running" /\ outcome' \in Ends
  BY <1>1, <1>2, <1>3
     DEF CodegenDecl, LocalVar, GlobalVar, OpenFuncDecl, CloseFuncDecl, At, Ready, Running
<1>8. CodegenGlobalNode \/ Visit => outcome = "running" /\ outcome' = outcome
  BY DEF CodegenGlobalNode, Visit, Running
<1>9. Generated => stack' = <<>>
  BY DEF Generated
<1>10. UNCHANGED vars => UNCHANGED <<stack, outcome>>
  BY DEF vars
<1> QED BY <1>5, <1>6, <1>7, <1>8, <1>9, <1>10 DEF Next, EndsIdle

LEMMA EndsEmpty == Spec => []EndsIdle
<1>1. Init => EndsIdle
  BY DEF Init, InitWith, EndsIdle
<1>2. EndsIdle /\ [Next]_vars => EndsIdle'
  BY EndsIdleKept
<1> QED BY <1>1, <1>2, PTL DEF Spec

\* Between two declarations no function is open, and when the last is done
\* none is.
LEMMA NoneOpen == ASSUME IInv, EndsIdle PROVE EveryFunctionReturns
BY DEF IInv, InBody, EveryFunctionReturns, EndsIdle

\* Whatever the trees, each function of a module that was generated to its end
\* has a return: codegen_func_decl adds one where the body ended without.
THEOREM AllReturn ==
  ASSUME \A t \in Trees : TreeOK(t)
  PROVE  Spec => []EveryFunctionReturns
<1>1. IInv /\ EndsIdle => EveryFunctionReturns
  BY NoneOpen
<1> QED BY <1>1, Invariance, EndsEmpty, PTL

\* A set of naturals has a least element.
LEMMA LeastElement ==
  ASSUME NEW S, S \subseteq Nat, S # {}
  PROVE  \E x \in S : \A y \in S : x <= y
<1> DEFINE R == OpToRel(<, Nat)
<1>1. \E x \in S : \A y \in S : ~(<<y, x>> \in R)
  <2>1. IsWellFoundedOn(R, Nat)
    BY NatLessThanWellFounded
  <2> HIDE DEF R
  <2> QED BY <2>1, WFMin
<1>2. \A x, y \in Nat : ~(<<y, x>> \in R) => x <= y
  BY DEF OpToRel
<1> QED BY <1>1, <1>2

(***************************************************************************)
(* The compiler.  The list of parameters is made by a loop over the lists  *)
(* of names, which comes to an end.                                        *)
(***************************************************************************)
ParamGroup(n, i) ==
  [j \in DOMAIN Source(n).labels[i] |->
     [name |-> Source(n).labels[i][j], type |-> Source(n).kids[2 + i]]]

ParamsBody(n, f, i) == IF i = 0 THEN <<>> ELSE f[i - 1] \o ParamGroup(n, i)

ParamsUpTo(n, m, f) == f = [i \in 0 .. m |-> ParamsBody(n, f, i)]

LEMMA ParamsExist ==
  ASSUME NEW n, NEW m \in Nat PROVE \E f : ParamsUpTo(n, m, f)
<1> DEFINE Missing == {k \in Nat : ~ \E f : ParamsUpTo(n, k, f)}
<1> SUFFICES ASSUME Missing # {} PROVE FALSE
  OBVIOUS
<1>1. PICK k \in Missing : \A l \in Missing : k <= l
  <2>1. Missing \subseteq Nat
    OBVIOUS
  <2> HIDE DEF Missing
  <2> QED BY <2>1, LeastElement
<1>2. PICK f : \A i \in 0 .. k - 1 : f[i] = ParamsBody(n, f, i)
  <2>1. CASE k = 0
    BY <2>1
  <2>2. CASE k # 0
    <3>1. k - 1 \in Nat /\ k - 1 \notin Missing
      BY <1>1, <2>2
    <3>2. PICK f : ParamsUpTo(n, k - 1, f)
      BY <3>1
    <3>3. \A i \in 0 .. k - 1 : [x \in 0 .. k - 1 |-> ParamsBody(n, f, x)][i] = ParamsBody(n, f, i)
      OBVIOUS
    <3> QED BY <3>2, <3>3 DEF ParamsUpTo
  <2> QED BY <2>1, <2>2
<1>3. PICK g : g = [i \in 0 .. k |-> ParamsBody(n, f, i)]
  OBVIOUS
<1>4. \A i \in 0 .. k - 1 : g[i] = f[i]
  BY <1>2, <1>3
<1>5. \A i \in 0 .. k : ParamsBody(n, f, i) = ParamsBody(n, g, i)
  BY <1>4 DEF ParamsBody
<1>6. g = [i \in 0 .. k |-> ParamsBody(n, g, i)]
  BY <1>3, <1>5
<1> QED BY <1>1, <1>6 DEF ParamsUpTo

LEMMA ParamsAreSeq ==
  ASSUME NEW n \in Nodes, A!NodeOK(prog, Source(n))
  PROVE  IsSeq(ParamsOf(n))
<1>1. PICK m \in Nat : /\ m = Len(Source(n).labels)
                       /\ \A i \in 1 .. m : Source(n).labels[i] \in Seq(STRING)
  <2>1. Source(n).labels \in Seq(Seq(STRING))
    BY DEF A!NodeOK
  <2> QED BY <2>1
<1> DEFINE f == CHOOSE g : ParamsUpTo(n, m, g)
<1>2. ParamsUpTo(n, m, f)
  BY ParamsExist
<1>3. ParamsOf(n) = f[m]
  BY <1>1 DEF ParamsOf, ParamsUpTo, ParamsBody, ParamGroup
<1> HIDE DEF f
<1>4. \A i \in 0 .. m : f[i] = ParamsBody(n, f, i)
  <2>1. \A i \in 0 .. m : [x \in 0 .. m |-> ParamsBody(n, f, x)][i] = ParamsBody(n, f, i)
    OBVIOUS
  <2> QED BY <1>2, <2>1 DEF ParamsUpTo
<1> DEFINE Wrong == {i \in 0 .. m : ~IsSeq(f[i])}
<1>5. ASSUME Wrong # {} PROVE FALSE
  <2>1. PICK i \in Wrong : \A k \in Wrong : i <= k
    <3>1. Wrong \subseteq Nat
      OBVIOUS
    <3> HIDE DEF Wrong
    <3> QED BY <1>5, <3>1, LeastElement
  <2>2. CASE i = 0
    <3>1. f[0] = <<>>
      BY <1>4, <2>1, <2>2 DEF ParamsBody
    <3> QED BY <2>1, <2>2, <3>1, EmptySeq DEF IsSeq
  <2>3. CASE i # 0
    <3>1. i - 1 \in 0 .. m /\ i - 1 \notin Wrong
      BY <2>1, <2>3
    <3>2. IsSeq(f[i - 1])
      BY <3>1
    <3>3. IsSeq(ParamGroup(n, i))
      <4>1. PICK k \in Nat : DOMAIN Source(n).labels[i] = 1 .. k
        BY <1>1, <2>1, <2>3
      <4>2. ParamGroup(n, i) = [j \in 1 .. k |-> ParamGroup(n, i)[j]]
        BY <4>1 DEF ParamGroup
      <4> QED BY <4>2, FunctionSeq
    <3>4. f[i] = f[i - 1] \o ParamGroup(n, i)
      BY <1>4, <2>1, <2>3 DEF ParamsBody
    <3>5. PICK s, t, u : s = f[i - 1] /\ t = ParamGroup(n, i) /\ u = f[i]
      OBVIOUS
    <3>6. IsSeq(s) /\ IsSeq(t) /\ u = s \o t
      BY <3>2, <3>3, <3>4, <3>5
    <3>7. IsSeq(u)
      BY <3>6, ConcatSeq
    <3> QED BY <2>1, <3>5, <3>7
  <2> QED BY <2>2, <2>3
<1>6. m \in 0 .. m
  OBVIOUS
<1> QED BY <1>3, <1>5, <1>6

\* No handler of the analyser changes the program, only what is kept beside it.
LEMMA AnalysisKeepsProgram == A!Next => prog' = prog
<1> DEFINE Same == prog' = prog
<1>1. \A f, kid, exp : A!Visit(f, kid, exp) => Same
  BY DEF A!Visit, A!Driver
<1>2. \A v : A!Yield(v) => Same
  BY DEF A!Yield, A!Driver
<1>3. A!Bail => Same
  BY DEF A!Bail, A!Driver
<1>4. \A v : A!Inject(v) => Same
  BY <1>2 DEF A!Inject, A!Driver
<1>5. \A info, v : A!InjectNewType(info, v) => Same
  BY DEF A!InjectNewType, A!Driver
<1>6. \A f, report : A!Continue(f, report) => Same
  BY DEF A!Continue, A!Driver
<1>7. A!AnalyzeLeaf => Same
  BY <1>1, <1>2, <1>3, <1>4 DEF A!AnalyzeLeaf, A!AnalyzeIntegerLit, A!AnalyzeFloatLit, A!AnalyzeStringLit,
     A!AnalyzeIdent, A!AnalyzeBits, A!AnalyzeTypeKeyword, A!UndefinedName, A!RecursiveUse, A!UseSymbol, A!Driver
<1>8. A!AnalyzeBinary \/ A!AnalyzeUnary \/ A!AnalyzeGrouping => Same
  BY <1>1, <1>2, <1>3, <1>4 DEF A!AnalyzeBinary, A!AnalyzeUnary, A!AnalyzeGrouping, A!FoldArith, A!RuntimeBinary
<1>9. A!AnalyzeDistinct \/ A!AnalyzeCast \/ A!AnalyzeAccess => Same
  BY <1>1, <1>2, <1>3, <1>4, <1>5 DEF A!AnalyzeDistinct, A!AnalyzeCast, A!CastOperand, A!AnalyzeAccess
<1>10. \A report : A!FailVarDecl(report) => Same
  BY DEF A!FailVarDecl, A!Driver
<1>11. \A type, v : A!DeclareVar(type, v) => Same
  BY DEF A!DeclareVar, A!Driver
<1>12. \A v : A!FinishVarDecl(v) => Same
  BY <1>2, <1>10, <1>11 DEF A!FinishVarDecl
<1>13. A!AnalyzeVarDecl => Same
  BY <1>1, <1>2, <1>10, <1>12 DEF A!AnalyzeVarDecl, A!OpenVarDecl, A!Driver
<1>14. \A type, hasDefault, default : A!AddField(type, hasDefault, default) => Same
  BY <1>6 DEF A!AddField
<1>15. \A type, default : A!ReadDefault(type) \/ A!FieldDefault(default) => Same
  BY <1>1, <1>2, <1>6, <1>14 DEF A!ReadDefault, A!FieldDefault, A!FailField
<1>16. A!AnalyzeStructType => Same
  BY <1>1, <1>2, <1>5, <1>15, <1>6 DEF A!AnalyzeStructType, A!FailField
<1>17. A!AnalyzeStructLiteral => Same
  BY <1>1, <1>2, <1>3, <1>4, <1>5, <1>6
     DEF A!AnalyzeStructLiteral, A!AnalyzeAutoLiteral, A!StartLiteral, A!SetLiteralField, A!Driver
<1>18. A!AnalyzeFuncDecl => Same
  BY <1>1, <1>2, <1>3, <1>6
     DEF A!AnalyzeFuncDecl, A!OpenFunction, A!DeclareParams, A!CloseFunction, A!Driver
<1>19. A!AnalyzeFuncCall \/ A!AnalyzeBlock \/ A!AnalyzeReturn => Same
  BY <1>1, <1>2, <1>3, <1>4, <1>6 DEF A!AnalyzeFuncCall, A!AnalyzeBlock, A!AnalyzeReturn, A!Driver
<1>20. A!AnalyzeNode => Same
  BY <1>7, <1>8, <1>9, <1>13, <1>16, <1>17, <1>18, <1>19
     DEF A!AnalyzeNode, A!AnalyzeExpression, A!ReuseNode, A!EnterNode, A!Driver
<1> QED BY <1>20 DEF A!Next, A!Start, A!NextDeclaration, A!Finish, A!Unreachable, A!Finished, A!vars

\* What the analyser hands over is what the generator relies on.
LEMMA HandedOver ==
  ASSUME prog \in Programs PROVE TreeOK(AnalysedTree)
<1>1. A!ProgramOK(prog)
  BY ProgramsAssumption
<1>2. /\ prog.decls \in Seq(Nodes)
      /\ \A n \in Nodes : A!NodeOK(prog, Source(n))
  BY <1>1 DEF A!ProgramOK, Nodes, A!Nodes, Source, A!Node
<1>3. AnalysedTree.decls = prog.decls /\ AnalysedTree.node = [n \in Nodes |-> Rewritten(n)]
  BY DEF AnalysedTree
<1>4. IsSeq(prog.decls)
  BY <1>2 DEF IsSeq
<1>5. ASSUME NEW d \in DOMAIN prog.decls
      PROVE  IsSeq(AnalysedTree.node[prog.decls[d]].params)
  <2>1. PICK n \in Nodes : n = prog.decls[d]
    BY <1>2
  <2>2. AnalysedTree.node[n].params = IF Source(n).kind = "FUNC_DECL" THEN ParamsOf(n) ELSE <<>>
    BY <1>3 DEF Rewritten
  <2>3. IsSeq(<<>>)
    BY EmptySeq DEF IsSeq
  <2>4. IsSeq(ParamsOf(n))
    BY <1>2, ParamsAreSeq
  <2> QED BY <2>1, <2>2, <2>3, <2>4
<1> QED BY <1>3, <1>4, <1>5 DEF TreeOK

\* No handler of the generator, and nothing of main(), touches the program
\* either; and nothing is generated before the tree is handed over.
Idle == InitWith(tree)

CompilerInv ==
  /\ prog \in Programs
  /\ IInv /\ EndsIdle
  /\ stage \in {"start", "parsed", "analysis"} => Idle

LEMMA CompilerInvInitially == CompilerInit => CompilerInv
<1> SUFFICES ASSUME CompilerInit PROVE CompilerInv
  OBVIOUS
<1>1. PICK t : t = [node |-> <<>>, decls |-> <<>>, types |-> <<>>]
  OBVIOUS
<1>2. InitWith(t)
  BY <1>1 DEF CompilerInit
<1>3. TreeOK(t)
  <2>1. IsSeq(<<>>) /\ DOMAIN <<>> = {}
    BY EmptySeq DEF IsSeq
  <2> QED BY <1>1, <2>1 DEF TreeOK
<1>4. IInv
  BY <1>2, <1>3, InitInvariant
<1>5. tree = t /\ outcome = "running"
  BY <1>2 DEF InitWith
<1>6. prog \in Programs
  BY DEF CompilerInit, A!Init
<1> QED BY <1>2, <1>4, <1>5, <1>6 DEF CompilerInv, Idle, EndsIdle

\* The generator's invariant holds of what it starts from.
LEMMA FreshStart == \A t : TreeOK(t) /\ InitWith(t) => IInv
BY InitInvariant

LEMMA FreshStartNext == (\A t : TreeOK(t) /\ InitWith(t) => IInv)'
BY FreshStart, PTL

LEMMA HandOverKeeps == ASSUME CompilerInv, HandOver PROVE CompilerInv'
<1>1. Idle /\ prog' = prog /\ stage' = "codegen"
  BY DEF HandOver, CompilerInv, analysis
<1>2. PICK t : t = AnalysedTree
  OBVIOUS
<1>3. TreeOK(t)
  BY <1>2, HandedOver DEF CompilerInv
<1>4. InitWith(t)'
  BY <1>1, <1>2 DEF HandOver, Idle, InitWith
<1>5. IInv'
  BY <1>3, <1>4, FreshStartNext
<1>6. EndsIdle'
  BY <1>4 DEF InitWith, EndsIdle
<1> QED BY <1>1, <1>5, <1>6 DEF CompilerInv

LEMMA CompilerInvKept == ASSUME CompilerInv, [CompilerNext]_compiler PROVE CompilerInv'
<1>1. CASE /\ UNCHANGED generation /\ prog' = prog
           /\ \/ stage' = stage
              \/ stage \in {"start", "parsed"}
              \/ stage' \in {"exit", "aborted", "undefined"}
  <2>1. IInv'
    BY <1>1, NextInvariant DEF CompilerInv, generation
  <2>2. EndsIdle'
    BY <1>1, EndsIdleKept DEF CompilerInv, generation
  <2>3. ASSUME Idle PROVE Idle'
    <3>1. UNCHANGED <<tree, functions, globals, code, at, locals, stack, decl, missing, outcome>>
      BY <1>1 DEF generation, vars, output
    <3> QED BY <2>3, <3>1 DEF Idle, InitWith
  <2> QED BY <1>1, <2>1, <2>2, <2>3 DEF CompilerInv
<1>2. CASE HandOver
  BY <1>2, HandOverKeeps
<1>3. CASE GenerateStep
  <2>1. IInv' /\ EndsIdle'
    BY <1>3, NextInvariant, EndsIdleKept DEF CompilerInv, GenerateStep
  <2> QED BY <1>3, <2>1 DEF CompilerInv, GenerateStep, analysis
<1>4. CASE AnalyzeStep
  <2>1. UNCHANGED generation /\ prog' = prog /\ stage' = stage
    BY <1>4, AnalysisKeepsProgram DEF AnalyzeStep
  <2> QED BY <1>1, <2>1
<1>5. \A how, code_ : Leave(how, code_) => UNCHANGED generation /\ prog' = prog /\ stage' = how
  BY DEF Leave, analysis
<1>6. \A to : Advance(to) => UNCHANGED generation /\ prog' = prog /\ stage' = to
  BY DEF Advance, analysis
<1>7. CASE ReadSource \/ AfterParse
  BY <1>1, <1>5, <1>6, <1>7 DEF ReadSource, AfterParse
<1>8. CASE AfterAnalysis \/ AfterCodegen
  <2>1. AfterAnalysis => status \in {"ok", "error", "unreachable", "sentinel"}
    BY DEF AfterAnalysis, A!Final
  <2>2. AfterCodegen => outcome \in {"ok", "unreachable", "unimplemented", "misuse"}
    BY DEF AfterCodegen, CompilerInv, IInv, GeneratorOK, Outcomes
  <2>3. \E how \in {"exit", "aborted", "undefined"} : \E code_ : Leave(how, code_)
    <3>1. CASE AfterAnalysis
      BY <2>1, <3>1 DEF AfterAnalysis
    <3>2. CASE AfterCodegen
      BY <2>2, <3>2 DEF AfterCodegen
    <3> QED BY <1>8, <3>1, <3>2
  <2>4. UNCHANGED generation /\ prog' = prog /\ stage' \in {"exit", "aborted", "undefined"}
    BY <1>5, <2>3
  <2> QED BY <1>1, <2>4
<1>9. CASE UNCHANGED compiler
  BY <1>1, <1>9 DEF compiler, analysis
<1> QED BY <1>2, <1>3, <1>4, <1>7, <1>8, <1>9 DEF CompilerNext, Ended

LEMMA CompilerInvAlways == CompilerSpec => []CompilerInv
BY CompilerInvInitially, CompilerInvKept, PTL DEF CompilerSpec

\* Whatever the program and the options, the generator finds the tree the
\* analyser leaves as it relies on, and keeps its state in order.
THEOREM CompilerWellFormed == CompilerSpec => []GeneratorOK
<1>1. CompilerInv => GeneratorOK
  BY DEF CompilerInv, IInv
<1> QED BY <1>1, CompilerInvAlways, PTL

\* No program is compiled to code that loads from a slot before codegen_var or
\* codegen_func_decl has stored into it.
THEOREM CompilerFillsSlots == CompilerSpec => []SlotsAreFilled
<1>1. CompilerInv => SlotsAreFilled
  BY DEF CompilerInv, IInv
<1> QED BY <1>1, CompilerInvAlways, PTL

\* No program is compiled to a module with a function that does not return.
THEOREM CompilerReturns == CompilerSpec => []EveryFunctionReturns
<1>1. CompilerInv => EveryFunctionReturns
  BY NoneOpen DEF CompilerInv
<1> QED BY <1>1, CompilerInvAlways, PTL
=============================================================================
