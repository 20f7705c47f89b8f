----------------------------- MODULE MCAnalyzer -----------------------------
(***************************************************************************)
(* The analyser on the programs of Samples, each a tree the parser builds  *)
(* (MCParser checks that).                                                 *)
(***************************************************************************)
EXTENDS Analyzer, Samples

AllPrograms == {Program(terms) : terms \in GlobalTerms \cup StructTerms \cup FunctionTerms}

(***************************************************************************)
(* Properties that recurse over a value.                                   *)
(***************************************************************************)
\* A struct object has the fields of its type, each of the field's own type
\* (or an error value: value_cast_auto_struct stores those).
RECURSIVE WellTyped(_)
WellTyped(v) ==
  v.k = "STRUCT" /\ IsStructType(types, v.t) =>
    LET fields == Fields(types, v.t)
    IN  /\ Len(v.fs) = Len(fields)
        /\ \A i \in DOMAIN fields :
             ~IsBad(v.fs[i]) => TypeOf(v.fs[i]) = fields[i].type /\ WellTyped(v.fs[i])

\* What an accepted program declares is ready for the code generator: each
\* global has been declared, is no error value, and its value is of the type
\* the declaration says, down to the fields of nested structs.
AcceptedIsTyped ==
  status = "ok" =>
    \A x \in DOMAIN scopes[1].sym :
      LET s == SymbolAt(1, x)
      IN  /\ s.level = Declared /\ ~IsBad(s.value)
          /\ s.value.k # "UNINIT" => TypeOf(s.value) = s.type /\ WellTyped(s.value)
=============================================================================
