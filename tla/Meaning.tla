------------------------------ MODULE Meaning ------------------------------
(***************************************************************************)
(* What a function of the source means and what the instructions generated *)
(* for it do, both as terms, and the properties that relate the two.       *)
(*                                                                         *)
(* A term stands for a run-time value: a parameter, the constant a node    *)
(* was folded to, a global, the result of the k-th call, a field, or an    *)
(* operation on terms.  A function does its calls, in order, with their    *)
(* arguments, and yields a term.                                           *)
(***************************************************************************)
EXTENDS Compiler, SequencesExt

Nothing == <<"nothing">>

(***************************************************************************)
(* The instructions of a function, run up to its first terminator.         *)
(***************************************************************************)
Spelling == [add |-> "+", sub |-> "-", mul |-> "*", sdiv |-> "/", neg |-> "-",
             sitofp |-> "cast", fptosi |-> "cast"]

Meant(s, o) ==
  CASE o.k = "CONST"  -> <<"const", o.id>>
    [] o.k = "PARAM"  -> <<"param", o.id>>
    [] o.k = "GLOBAL" -> <<"global", globals[o.id].name>>
    [] o.k = "INST"   -> s.val[o.id]

RECURSIVE Loaded(_, _)
Loaded(s, place) ==
  CASE place[1] = "slot"   -> s.mem[place[2]]
    [] place[1] = "global" -> place
    [] place[1] = "field"  -> <<"get", Loaded(s, place[2]), place[3]>>

Run(s, i) ==
  LET inst == code[i]
      args == [a \in DOMAIN inst.args |-> Meant(s, inst.args[a])]
  IN  IF s.out # Nothing THEN s
      ELSE CASE inst.op = "alloca" -> [s EXCEPT !.val[i] = <<"slot", i>>]
             [] inst.op = "store"  -> [s EXCEPT !.mem[args[2][2]] = args[1]]
             [] inst.op = "load"   -> [s EXCEPT !.val[i] = Loaded(s, args[1])]
             [] inst.op = "gep"    -> [s EXCEPT !.val[i] = <<"field", args[1], inst.data>>]
             [] inst.op = "call"   ->
                  [s EXCEPT !.val[i] = <<"call", Len(s.calls) + 1>>,
                            !.calls = Append(@, <<functions[inst.data].name, args>>)]
             [] inst.op = "ret"     -> [s EXCEPT !.out = args[1]]
             [] inst.op = "retvoid" -> [s EXCEPT !.out = <<"void">>]
             [] OTHER -> [s EXCEPT !.val[i] = <<Spelling[inst.op], args>>]

\* What the block of function f does.
Done(f) ==
  LET inF(i) == code[i].fn = f
      start  == [i \in DOMAIN code |-> Nothing]
  IN  FoldLeft(Run, [val |-> start, mem |-> start, calls |-> <<>>, out |-> Nothing],
               SelectSeq([i \in DOMAIN code |-> i], inF))

(***************************************************************************)
(* Scopes, read off the text.                                              *)
(***************************************************************************)
Parent(n) ==
  LET above == {m \in Nodes : \E k \in DOMAIN Source(m).kids : Source(m).kids[k] = n}
  IN  IF above = {} THEN 0 ELSE CHOOSE m \in above : TRUE

RECURSIVE Enclosing(_)
Enclosing(n) == IF n = 0 THEN {} ELSE {n} \cup Enclosing(Parent(n))

\* The declaration d (of a local, or of a function for its parameters) can be
\* named at n: it is an earlier statement of a block around n, or around n.
Visible(d, n) ==
  IF Source(d).kind = "FUNC_DECL" THEN d \in Enclosing(n)
  ELSE /\ Parent(d) \in Enclosing(n) \ {0}
       /\ d < n /\ d \notin Enclosing(n)

DeclaresLocal(d, name) ==
  \/ Source(d).kind = "VAR_DECL" /\ Parent(d) # 0 /\ Source(d).name = name
  \/ Source(d).kind = "FUNC_DECL" /\ \E group \in Range(Source(d).labels) : Contains(group, name)

\* A scope closed since declared the name again: its local is found first.
Leftover(n) ==
  \E d \in Nodes : /\ DeclaresLocal(d, Source(n).name)
                   /\ meant[n] < d /\ d < n /\ ~Visible(d, n)

(***************************************************************************)
(* What the function says.  s.env holds the locals in scope, the last ones *)
(* innermost; s.out is what a return gave; s.odd is raised where the       *)
(* generator is known to do something else:                                *)
(*   - a folded node had calls or returns in it, which folding drops       *)
(*     (claim_return);                                                     *)
(*   - a name is left over from a closed scope;                            *)
(*   - a call comes before its function is in the module: it is reported,  *)
(*     and becomes the number 0.                                           *)
(***************************************************************************)
RECURSIVE Pure(_)
Pure(n) == /\ Source(n).kind \notin {"FUNC_CALL", "RETURN"}
           /\ \A k \in DOMAIN Source(n).kids : Source(n).kids[k] # 0 => Pure(Source(n).kids[k])

Value(s, term) == [s EXCEPT !.val = term]

\* An operation on constants only is folded by LLVM.
Operation(n, op, args) ==
  IF \A a \in DOMAIN args : args[a][1] = "const" THEN <<"const", n>> ELSE <<op, args>>

LookedUp(s, n) ==
  LET is(e) == e.name = Source(n).name
      i == SelectLastInSeq(s.env, is)
  IN  IF i = 0 THEN <<"global", Source(n).name>> ELSE s.env[i].term

ConvertsKind(n) ==
  IsInteger(types, made[n].ty) # IsInteger(types, made[Source(n).kids[2]].ty)

\* The nodes a node needs the values of, in the order they are evaluated in.
Operands(n) ==
  LET kids == Source(n).kids
      present(k) == k # 0
  IN  SelectSeq(CASE Source(n).kind \in {"GROUPING", "ACCESS", "UNARY", "RETURN"} -> <<kids[1]>>
                  [] Source(n).kind \in {"CAST", "VAR_DECL"} -> <<kids[2]>>
                  [] Source(n).kind = "FUNC_CALL"            -> Tail(kids)
                  [] Source(n).kind \in {"BINARY", "BLOCK"}  -> kids
                  [] OTHER                                   -> <<>>,
                present)

\* What the node does once its operands are `vals`; env: the locals before it.
Does(n, env, s, vals) ==
  CASE Source(n).kind = "GROUPING" -> Value(s, vals[1])
    [] Source(n).kind = "IDENT"    -> [Value(s, LookedUp(s, n)) EXCEPT !.odd = @ \/ Leftover(n)]
    [] Source(n).kind = "ACCESS"   -> Value(s, <<"get", vals[1], FieldNumber(n)>>)
    [] Source(n).kind = "BINARY"   -> Value(s, Operation(n, Source(n).name, vals))
    [] Source(n).kind = "UNARY"    ->
         Value(s, IF Source(n).const THEN Operation(n, "-", vals) ELSE vals[1])
    [] Source(n).kind = "CAST"     ->
         Value(s, IF ConvertsKind(n) THEN Operation(n, "cast", vals) ELSE vals[1])
    [] Source(n).kind = "FUNC_CALL" ->
         LET name == Source(Source(n).kids[1]).name
             f    == NamedIn(functions, name)
         IN  [s EXCEPT !.val = <<"call", Len(s.calls) + 1>>,
                       !.calls = Append(@, <<name, vals>>),
                       !.odd = @ \/ f = 0 \/ functions[f].node > n]
    [] Source(n).kind = "RETURN"   -> [s EXCEPT !.out = IF vals = <<>> THEN <<"void">> ELSE vals[1]]
    [] Source(n).kind = "BLOCK"    ->
         [s EXCEPT !.val = IF vals = <<>> THEN Nothing ELSE vals[Len(vals)], !.env = env]
    [] Source(n).kind = "VAR_DECL" ->
         LET init == IF vals = <<>> THEN <<"const", n>> ELSE vals[1]
         IN  [s EXCEPT !.val = <<"declared">>,
                       !.env = Append(@, [name |-> Source(n).name, term |-> init])]
    [] OTHER -> [s EXCEPT !.odd = TRUE]

\* all: what evaluating the operands came to, and their values.
Then(n, env, all) == IF all.s.out # Nothing THEN all.s ELSE Does(n, env, all.s, all.vals)

Gather(acc, after) == [s |-> after, vals |-> Append(acc.vals, after.val)]

RECURSIVE Says(_, _)
Says(n, s) ==
  LET operand(acc, k) == Gather(acc, Says(k, acc.s))
  IN  IF s.out # Nothing THEN s
      ELSE IF folded[n] # None THEN [Value(s, <<"const", n>>) EXCEPT !.odd = @ \/ ~Pure(n)]
      ELSE Then(n, s.env, FoldLeft(operand, [s |-> s, vals |-> <<>>], Operands(n)))

\* What the body came to is what the function yields; without a value, zero.
Yields(s) == IF s.out # Nothing THEN s.out
             ELSE IF s.val = Nothing THEN <<"const", 0>> ELSE s.val

Said(n) ==
  LET params == [p \in DOMAIN ParamsOf(n) |->
                   [name |-> ParamsOf(n)[p].name, term |-> <<"param", p>>]]
  IN  Says(Source(n).kids[2],
           [env |-> params, calls |-> <<>>, out |-> Nothing, val |-> Nothing, odd |-> FALSE])

\* A body that ends in a declaration gives the address of the local's slot.
Agree(said, done, yields) ==
  \/ said.odd \/ Yields(said) = <<"declared">>
  \/ done.calls = said.calls /\ (yields => done.out = Yields(said))

(***************************************************************************)
(* Properties.                                                             *)
(***************************************************************************)
\* find_local_entry finds a name by searching one list from its end, and the
\* analyser by searching its scopes from the innermost: they find the same
\* declaration, parameters and shadowed locals included, and never a local of
\* another function though the list keeps them all; unless a block closed in
\* between leaves a local of that name behind.
BindsAsAnalysed ==
  stage = "codegen" /\ At("lvalue", {"IDENT"}) =>
    LET n     == Here
        l     == FindLocal(Source(n).name)
        found == IF l = 0 THEN 0 ELSE locals[l].decl
    IN  Leftover(n) \/ found = meant[n]

\* Every function of an accepted program makes the calls its text says, in
\* that order and with those arguments, and returns what its text says.
GeneratedAsWritten ==
  stage = "codegen" /\ outcome = "ok" =>
    \A f \in DOMAIN functions :
      Agree(Said(functions[f].node), Done(f), functions[f].ret.k # "VOID")
=============================================================================
