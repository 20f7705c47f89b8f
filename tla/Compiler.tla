------------------------------ MODULE Compiler ------------------------------
(***************************************************************************)
(* The compiler: main() runs the parser, the analyser and the code         *)
(* generator one after the other (source/main.c), and leaves at the first  *)
(* that fails.                                                             *)
(*                                                                         *)
(* The parser is one step here: it fails or hands over one of Programs.    *)
(* The analyser is Analyzer (A, whose stack is `calls` here), step by      *)
(* step; it rewrites the tree in place, and the tree it leaves is what the *)
(* code generator, Codegen, starts from.  Two history variables record     *)
(* what the analyser leaves in the nodes and how it resolved the names,    *)
(* for the tree and for the properties.                                    *)
(*                                                                         *)
(* An option of the command line is a choice made where main() reads it:   *)
(* each of them is read once.                                              *)
(***************************************************************************)
EXTENDS Codegen

CONSTANT Programs    \* see Analyzer

VARIABLES
  stage,      \* where main() is
  exitCode,
  made,       \* node -> the base.type and the value its handler left
  meant,      \* identifier -> the declaration it was resolved to, 0 a global
  prog, folded, hint, analyzed, scopes, types, threshold, names, calls, ctl,
  hadError, retType, next, status    \* of Analyzer; calls is its stack

A == INSTANCE Analyzer WITH stack <- calls

ASSUME ProgramsAssumption == \A p \in Programs : A!ProgramOK(p)

analysis   == <<prog, folded, hint, analyzed, scopes, types, threshold, names,
                calls, ctl, hadError, retType, next, status>>
generation == vars
compiler   == <<analysis, stage, exitCode, made, meant, generation>>

Nodes == A!Nodes

\* A node as the parser made it.
Source(n) == A!Node(n)

\* "aborted": unreachable() or unimplemented() ended the process, with 1;
\* "undefined": something was asked of LLVM, or written, that has no meaning.
Stages == {"start", "parsed", "analysis", "codegen", "exit", "aborted", "undefined"}

(***************************************************************************)
(* What the analyser leaves behind.                                        *)
(***************************************************************************)
BaseType(answer) ==
  CASE A!This.kind = "FUNC_DECL"                   -> A!Top.ty
    [] A!This.kind = "BLOCK" /\ A!Top.val = None   -> TyVoid
    [] OTHER                                       -> TypeOf(answer)

\* A parameter's declaration is its function; a parameter's symbol has no node.
Declares(k, name) ==
  IF k = 1 THEN 0
  ELSE IF A!SymbolAt(k, name).node # 0 THEN A!SymbolAt(k, name).node ELSE scopes[k].root

\* A handler returns in this step: it has written the node's fields.
Remember ==
  LET n      == A!Top.node
      leaves == calls # <<>> /\ ctl.op # "call" /\ Len(calls') < Len(calls)
      k      == IF A!Top.pc = "lazy" THEN A!Top.sym ELSE A!Lookup(A!This.name)
  IN  IF ~leaves THEN UNCHANGED <<made, meant>>
      ELSE /\ made' = [made EXCEPT ![n] = [ty |-> BaseType(ctl'.val), val |-> ctl'.val]]
           /\ meant' = IF A!This.kind = "IDENT" /\ k # 0
                       THEN [meant EXCEPT ![n] = Declares(k, A!This.name)] ELSE meant

\* FUNC_DECL: one entry for every name of every parameter.
ParamsOf(n) ==
  LET add(acc, i) == acc \o [j \in DOMAIN Source(n).labels[i] |->
                       [name |-> Source(n).labels[i][j], type |-> Source(n).kids[2 + i]]]
      upTo[i \in 0 .. Len(Source(n).labels)] == IF i = 0 THEN <<>> ELSE add(upTo[i - 1], i)
  IN  upTo[Len(Source(n).labels)]

\* field_index
FieldNumber(n) == FieldIndex(Fields(types, made[Source(n).kids[1]].ty), Source(n).name)

\* node_into_value turns a node into a VALUE where it is.
Rewritten(n) ==
  LET whole == folded[n] = None
  IN  [kind   |-> IF whole THEN Source(n).kind ELSE "VALUE",
       name   |-> Source(n).name,
       const  |-> Source(n).const,
       kids   |-> IF whole THEN Source(n).kids ELSE <<>>,
       ty     |-> IF whole THEN made[n].ty ELSE TypeOf(folded[n]),
       val    |-> IF ~whole THEN folded[n]
                  ELSE IF Source(n).kind = "VAR_DECL" /\ Source(n).kids[2] = 0 THEN made[n].val
                  ELSE None,
       data   |-> IF whole /\ Source(n).kind = "ACCESS" THEN FieldNumber(n) ELSE 0,
       params |-> IF Source(n).kind = "FUNC_DECL" THEN ParamsOf(n) ELSE <<>>]

AnalysedTree == [node |-> [n \in Nodes |-> Rewritten(n)], decls |-> prog.decls, types |-> types]

(***************************************************************************)
(* main().                                                                 *)
(***************************************************************************)
Leave(how, code_) ==
  /\ stage' = how
  /\ exitCode' = code_
  /\ UNCHANGED <<analysis, made, meant, generation>>

Advance(to) ==
  /\ stage' = to
  /\ UNCHANGED <<analysis, exitCode, made, meant, generation>>

\* --tokens; else parse().
ReadSource ==
  /\ stage = "start"
  /\ Leave("exit", 0) \/ Leave("exit", 1) \/ Advance("parsed")

\* --only-parse and --ast; the dump's file may not open.
AfterParse ==
  /\ stage = "parsed"
  /\ Leave("exit", 0) \/ Leave("exit", 1) \/ Advance("analysis")

AnalyzeStep ==
  /\ stage = "analysis" /\ status \notin A!Final
  /\ A!Next
  /\ Remember
  /\ UNCHANGED <<stage, exitCode, generation>>

HandOver ==
  /\ stage = "analysis" /\ status = "ok"
  /\ tree' = AnalysedTree
  /\ stage' = "codegen"
  /\ UNCHANGED <<analysis, exitCode, made, meant, functions, globals, code, at,
                 locals, stack, decl, missing, outcome>>

\* --sema stops a successful analysis here.
AfterAnalysis ==
  /\ stage = "analysis" /\ status \in A!Final
  /\ CASE status = "ok"          -> Leave("exit", 0) \/ Leave("exit", 1)
       [] status = "error"       -> Leave("exit", 1)
       [] status = "unreachable" -> Leave("aborted", 1)
       [] status = "sentinel"    -> Leave("undefined", 1)

GenerateStep ==
  /\ stage = "codegen"
  /\ Next
  /\ UNCHANGED <<analysis, stage, exitCode, made, meant>>

\* The module is written to a file, which may fail, or dumped, or dropped.
AfterCodegen ==
  /\ stage = "codegen" /\ outcome # "running"
  /\ CASE outcome = "ok" -> Leave("exit", 0) \/ Leave("exit", 1)
       [] outcome \in {"unreachable", "unimplemented"} -> Leave("aborted", 1)
       [] outcome = "misuse" -> Leave("undefined", 1)

Ended == stage \in {"exit", "aborted", "undefined"} /\ UNCHANGED compiler

CompilerInit ==
  /\ A!Init
  /\ stage = "start" /\ exitCode = 0
  /\ made = [n \in Nodes |-> [ty |-> NoType, val |-> None]]
  /\ meant = [n \in Nodes |-> 0]
  /\ InitWith([node |-> <<>>, decls |-> <<>>, types |-> <<>>])

CompilerNext ==
  \/ ReadSource \/ AfterParse \/ AnalyzeStep \/ HandOver \/ AfterAnalysis
  \/ GenerateStep \/ AfterCodegen \/ Ended

CompilerSpec == CompilerInit /\ [][CompilerNext]_compiler /\ WF_compiler(CompilerNext)

(***************************************************************************)
(* Properties.                                                             *)
(***************************************************************************)
\* The compilation of every program comes to an end, whatever the options.
CompilationEnds == <>(stage \in {"exit", "aborted", "undefined"})
=============================================================================
